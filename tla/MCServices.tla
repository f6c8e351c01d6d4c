------------------------------ MODULE MCServices ------------------------------
(* Three services that share no state, checked in one run: every behaviour is   *)
(* one of exactly one of them, and the others stay as they begin.               *)
EXTENDS LiveView

CONSTANTS
    Gates, Durations, SegmentSeconds, RetentionDays, MaxTotal, MinFree, PruneInterval,
    DiskSize, FileTime, MaxRecs,
    Ta, Tb, Tc, TrackIds, Gaps, Ttl, Sizes, ReadTime, MaxPasses, MaxReads

VARIABLES
    part,
    recs, made, fileNow, disk, dirs, reported, wd, lastPrune, active, items, deleted, app,
    tracks, readNow, gap, passes, emitted

Texts == {Ta, Tb, Tc}
\* Ta and Tb are alike by their letters, Tb and Tc in all but few digits.
Likeness == [p \in Texts \X Texts |->
    IF p[1] = p[2] THEN 2 ELSE IF p \in {<<Ta, Tb>>, <<Tb, Ta>>} THEN 1 ELSE 0]
FewDigits == {<<Tb, Tc>>, <<Tc, Tb>>}

Files == INSTANCE RecordingService WITH now <- fileNow, MaxTime <- FileTime
Plates == INSTANCE PlateProcessor WITH now <- readNow, MaxTime <- ReadTime, Threshold <- 1

ASSUME FilesAssumption == Files!ConfigAssumption
ASSUME PlatesAssumption == Plates!LikenessAssumption /\ Plates!NumbersAssumption

fileVars == <<recs, made, fileNow, disk, dirs, reported, wd, lastPrune, active, items,
              deleted, app>>
plateVars == <<tracks, readNow, gap, passes, emitted>>

ServicesInit ==
    /\ part \in {"recording", "live", "plates"}
    /\ Init /\ Files!Init /\ Plates!Init
    /\ part # "plates" => gap = 0

Records == part = "recording" /\ Files!Next /\ UNCHANGED <<part, vars, plateVars>>
Shows == part = "live" /\ Next /\ UNCHANGED <<part, fileVars, plateVars>>
Reads == part = "plates" /\ Plates!Next /\ UNCHANGED <<part, vars, fileVars>>

ServicesNext == Records \/ Shows \/ Reads
ServicesSpec == ServicesInit /\ [][ServicesNext]_<<part, vars, fileVars, plateVars>>

\* Every finished segment is announced exactly once (closeSegment).
SegmentsAreSound == part = "recording" => Files!SegmentsAreSound

\* The pruning pass spares the segments that are being written, but for one
\* opened after its snapshot (pruneOldRecordings).
OpenSpared == Files!OpenSpared

\* A finished segment is deleted only by the pass, or overwritten by a
\* recording of the same second (makeBaseName, openSegment).
KeptUntilPruned == Files!KeptUntilPruned

\* What was last handed on for a pass is the text with the most weight
\* (PlateProcessor).
EmittedIsVote == part = "plates" => Plates!EmittedIsVote
===============================================================================
