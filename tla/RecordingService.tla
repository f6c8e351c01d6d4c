--------------------------- MODULE RecordingService ---------------------------
(* RecordingService: the detection thread writes the frames of a gate into     *)
(* segment files, commands start and stop recordings, the watchdog ends those  *)
(* whose duration is over and, every so often, prunes the directory tree, and  *)
(* a finished segment is announced and uploaded by MediaSender.                *)
(*                                                                             *)
(* The clock counts the seconds file names are made of.  A segment is named by *)
(* its gate, the second its recording was started in and its index; a file on  *)
(* disk also knows the recording that wrote it.  Files have size one, removing *)
(* a file that is open succeeds (POSIX).  Everything but the pruning pass runs *)
(* under mtx_ and is one step; the pass takes mtx_ for its snapshot only.      *)
EXTENDS Integers, Sequences, FiniteSets, SequencesExt

CONSTANTS
    Gates,
    Durations,      \* what start_recording asks for; 0 is until stopped
    SegmentSeconds,
    RetentionDays,  \* in ticks; 0 turns the rule off
    MaxTotal,       \* maxTotalBytes, in files; 0 turns the rule off
    MinFree,        \* minFreeBytes, in files; 0 turns the rule off
    PruneInterval,
    DiskSize,       \* files that fit beside what other programs keep there
    MaxTime, MaxRecs    \* bounds

\* What is assumed of the constants.
ConfigAssumption ==
    /\ Durations \subseteq Nat /\ SegmentSeconds \in Nat \ {0} /\ PruneInterval \in Nat \ {0}
    /\ {RetentionDays, MaxTotal, MinFree, DiskSize, MaxRecs} \subseteq Nat
    /\ MaxTime \in Nat \ {0} /\ IsFiniteSet(Gates)
    \* 15 minutes, and one day or more.
    /\ RetentionDays > 0 => SegmentSeconds <= RetentionDays

VARIABLES
    recs,       \* recs_
    made,       \* recordings started so far
    now,
    disk, dirs, \* the files below baseDir, the directories of recordings
    reported,   \* the segments handed to onSegment_, in order
    wd,         \* where the watchdog is
    lastPrune,
    active, items, deleted,     \* the pass: its snapshot, its list, files removed
    app         \* up, down (transport and MediaSender gone), joined, gone

recVars == <<recs, made, reported>>
passVars == <<wd, lastPrune, active, items, deleted>>
vars == <<recs, made, now, disk, dirs, reported, wd, lastPrune, active, items,
          deleted, app>>

NoRec == [id |-> 0]
Recording(g) == recs[g] # NoRec

\* Slip: the index is left out, so a rollover reuses the name.
OneName(g, r) == [gate |-> g, at |-> r.at, seg |-> 0]

\* makeBaseName(), segmentPath()
segmentPath(g, r) == [gate |-> g, at |-> r.at, seg |-> r.seg]

Path(f) == [gate |-> f.gate, at |-> f.at, seg |-> f.seg]
Dir(p) == <<p.gate, p.at>>
Segment(g, r) == [path |-> segmentPath(g, r), rec |-> r.id]
OpenPaths == {segmentPath(g, recs[g]) : g \in {h \in Gates : Recording(h) /\ recs[h].open}}

\* closeSegment(): the callback runs under mtx_, only when a writer was open.
closeSegment(g, r) ==
    IF r.open THEN <<[path |-> segmentPath(g, r), rec |-> r.id]>> ELSE <<>>

Expired(r) == r.until # 0 /\ now >= r.until

Init ==
    /\ recs = [g \in Gates |-> NoRec] /\ made = 0 /\ now = 1
    /\ disk = {} /\ dirs = {} /\ reported = <<>>
    /\ wd = "wait" /\ lastPrune = 0 /\ active = {} /\ items = {} /\ deleted = FALSE
    /\ app = "up"

\* A pass takes less than the retention time without a segment's.
Advance ==
    /\ now < MaxTime
    /\ wd # "wait" /\ RetentionDays > 0 => now + SegmentSeconds <= lastPrune + RetentionDays
    /\ now' = now + 1
    /\ UNCHANGED <<recVars, disk, dirs, passVars, app>>

\* startRecording(): refused while the gate records.
Start(g, d) ==
    /\ app = "up" /\ made < MaxRecs /\ ~Recording(g)
    /\ made' = made + 1
    /\ recs' = [recs EXCEPT ![g] = [id |-> made + 1, at |-> now, seg |-> 0, since |-> now,
                                    until |-> IF d > 0 THEN now + d ELSE 0, open |-> FALSE]]
    /\ dirs' = dirs \cup {<<g, now>>}
    /\ UNCHANGED <<now, disk, reported, passVars, app>>

\* stopRecording()
Stop(g) ==
    /\ app = "up" /\ Recording(g)
    /\ reported' = reported \o closeSegment(g, recs[g])
    /\ recs' = [recs EXCEPT ![g] = NoRec]
    /\ UNCHANGED <<made, now, disk, dirs, passVars, app>>

\* What a frame finds open after the rollover check.
Rolled(r) ==
    IF now - r.since >= SegmentSeconds
    THEN [r EXCEPT !.open = FALSE, !.seg = @ + 1, !.since = now]
    ELSE r

Stamped(files, s) ==
    {IF Path(f) = s.path /\ f.rec = s.rec THEN [f EXCEPT !.mtime = now] ELSE f : f \in files}

\* openSegment() truncates a file of the same name; every writer fails when the
\* directory is gone.
Created(files, s) ==
    {f \in files : Path(f) # s.path}
        \cup {[gate |-> s.path.gate, at |-> s.path.at, seg |-> s.path.seg,
               rec |-> s.rec, mtime |-> now]}

\* onFrame() of a gate that records.
Frame(g) ==
    /\ app = "up" /\ Recording(g)
    /\ LET r == recs[g]
           n == Rolled(r)
           s == Segment(g, n)
       IN IF Expired(r)
          THEN /\ recs' = [recs EXCEPT ![g] = NoRec]
               /\ reported' = reported \o closeSegment(g, r)
               /\ UNCHANGED disk
          ELSE /\ recs' = [recs EXCEPT ![g] = [n EXCEPT !.open = n.open \/ Dir(s.path) \in dirs]]
               /\ reported' = IF n # r THEN reported \o closeSegment(g, r) ELSE reported
               /\ disk' = IF n.open THEN Stamped(disk, s)
                          ELSE IF Dir(s.path) \in dirs THEN Created(disk, s) ELSE disk
    /\ UNCHANGED <<made, now, dirs, passVars, app>>

-----------------------------------------------------------------------------
(* The watchdog                                                                *)

\* closeExpiredLocked()
TimedOut(g) == Recording(g) /\ Expired(recs[g])

\* What closeSegment() announces of several gates, in the order of a map.
ClosingOf(gs) ==
    LET closing == SetToSeq({g \in gs : recs[g].open})
    IN [i \in DOMAIN closing |-> Segment(closing[i], recs[closing[i]])]

PruneDue ==
    /\ RetentionDays > 0 \/ MaxTotal > 0
    /\ lastPrune = 0 \/ now - lastPrune >= PruneInterval

\* One turn of watchdogLoop(): tick(), then a pass when one is due.
Turn ==
    /\ wd = "wait" /\ app \in {"up", "down"}
    /\ LET gs == {g \in Gates : TimedOut(g)} IN
         /\ recs' = [g \in Gates |-> IF g \in gs THEN NoRec ELSE recs[g]]
         /\ reported' = reported \o ClosingOf(gs)
    /\ IF PruneDue THEN wd' = "snap" /\ lastPrune' = now
                   ELSE UNCHANGED <<wd, lastPrune>>
    /\ UNCHANGED <<made, now, disk, dirs, active, items, deleted, app>>

\* Slip: the segments being written are not looked up.
NothingActive == {}

OpenNow == OpenPaths

\* pruneOldRecordings(): the open segments, under mtx_ ...
Snapshot ==
    /\ wd = "snap"
    /\ active' = OpenNow /\ deleted' = FALSE
    /\ wd' = "scan"
    /\ UNCHANGED <<recVars, now, disk, dirs, lastPrune, items, app>>

\* ... then, without it, every other file of the tree ...
Scan ==
    /\ wd = "scan"
    /\ items' = {f \in disk : Path(f) \notin active}
    /\ wd' = "age"
    /\ UNCHANGED <<recVars, now, disk, dirs, lastPrune, active, deleted, app>>

\* Slip: the directory goes with the file.
DeleteTree(gone) ==
    /\ disk' = {f \in disk : ~\E i \in gone : Dir(Path(i)) = Dir(Path(f))}
    /\ items' = items \ gone
    /\ deleted' = (deleted \/ gone # {})

\* fs::remove() takes whatever has the name by now.
Delete(gone) ==
    /\ disk' = {f \in disk : ~\E i \in gone : Path(i) = Path(f)}
    /\ items' = items \ gone
    /\ deleted' = (deleted \/ \E i \in gone, f \in disk : Path(i) = Path(f))

\* ... the expired ones go ...
AgePass ==
    /\ wd = "age"
    /\ Delete(IF RetentionDays > 0 THEN {f \in items : f.mtime < now - RetentionDays} ELSE {})
    /\ wd' = "size"
    /\ UNCHANGED <<recVars, now, dirs, lastPrune, active, app>>

\* Files of one mtime come in any order.
Oldest(fs) == {f \in fs : \A h \in fs : f.mtime <= h.mtime}

\* ... then the oldest until the total is under the cap ...
SizePass ==
    /\ wd = "size"
    /\ IF MaxTotal > 0 /\ Cardinality(items) > MaxTotal
       THEN /\ \E f \in Oldest(items) : Delete({f})
            /\ UNCHANGED wd
       ELSE /\ wd' = "floor"
            /\ UNCHANGED <<disk, items, deleted>>
    /\ UNCHANGED <<recVars, now, dirs, lastPrune, active, app>>

FreeNow == DiskSize - Cardinality(disk)

\* ... then the oldest until enough of the disk is free, looked up each time ...
FloorPass ==
    /\ wd = "floor"
    /\ IF MinFree > 0 /\ FreeNow < MinFree /\ items # {}
       THEN /\ \E f \in Oldest(items) : Delete({f})
            /\ UNCHANGED wd
       ELSE /\ wd' = "dirs"
            /\ UNCHANGED <<disk, items, deleted>>
    /\ UNCHANGED <<recVars, now, dirs, lastPrune, active, app>>

\* ... and, when a file went, every empty directory.
DirsPass ==
    /\ wd = "dirs"
    /\ dirs' = IF deleted THEN {d \in dirs : \E f \in disk : Dir(Path(f)) = d} ELSE dirs
    /\ wd' = "wait" /\ active' = {} /\ items' = {} /\ deleted' = FALSE
    /\ UNCHANGED <<recVars, now, disk, lastPrune, app>>

-----------------------------------------------------------------------------
(* Application::stop resets the transport, the members go in reverse order of  *)
(* their declaration: MediaSender first, RecordingService after it.  Its       *)
(* destructor joins the watchdog and closes what is open.                      *)

Shutdown ==
    /\ app = "up" /\ app' = "down"
    /\ UNCHANGED <<recVars, now, disk, dirs, passVars>>

\* Its loop looks at watchdogRunning_ between two turns.
WatchdogDone == wd = "wait"

JoinWatchdog ==
    /\ app = "down" /\ WatchdogDone
    /\ app' = "joined"
    /\ UNCHANGED <<recVars, now, disk, dirs, passVars>>

CloseAll ==
    /\ app = "joined"
    /\ app' = "gone"
    /\ reported' = reported \o ClosingOf({g \in Gates : Recording(g)})
    /\ recs' = [g \in Gates |-> NoRec]
    /\ UNCHANGED <<made, now, disk, dirs, passVars>>

Pass == Snapshot \/ Scan \/ AgePass \/ SizePass \/ FloorPass \/ DirsPass

Next ==
    \/ Advance
    \/ (\E g \in Gates, d \in Durations : Start(g, d))
    \/ (\E g \in Gates : Stop(g) \/ Frame(g))
    \/ Turn \/ Pass
    \/ Shutdown \/ JoinWatchdog \/ CloseAll

Spec == Init /\ [][Next]_vars

\* The watchdog thread runs and, once it began, the shutdown goes on; frames,
\* commands and the clock owe nothing.
FairSpec ==
    /\ Spec
    /\ WF_vars(Turn \/ Pass)
    /\ WF_vars(JoinWatchdog) /\ WF_vars(CloseAll)
-----------------------------------------------------------------------------
Paths == [gate : Gates, at : 0..MaxTime, seg : 0..MaxTime]

\* The shape of the state.
TypeOK ==
    /\ \A g \in Gates : Recording(g) =>
          /\ recs[g].id \in 1..made /\ recs[g].at <= recs[g].since /\ recs[g].since <= now
          /\ recs[g].open \in BOOLEAN
          /\ recs[g].until # 0 => recs[g].at < recs[g].until
    /\ now \in 1..MaxTime /\ made \in 0..MaxRecs
    /\ {Path(f) : f \in disk} \subseteq Paths /\ active \subseteq Paths
    /\ \A f, h \in disk : Path(f) = Path(h) => f = h
    /\ wd \in {"wait", "snap", "scan", "age", "size", "floor", "dirs"}
    /\ app \in {"up", "down", "joined", "gone"}
    /\ app \in {"joined", "gone"} => wd = "wait"

\* A segment is announced once, after its last frame and only if it was written:
\* by whichever of a stop command, a late frame, the watchdog, a rollover and
\* the destructor comes first (closeSegment and its callers).
AnnouncedOnce ==
    /\ \A i, j \in 1..Len(reported) :
          reported[i].path = reported[j].path /\ reported[i].rec = reported[j].rec => i = j
    /\ \A i \in 1..Len(reported), g \in Gates :
          (Recording(g) /\ recs[g].open) => reported[i].path # segmentPath(g, recs[g])
                                            \/ reported[i].rec # recs[g].id
    /\ \A f \in disk :
          \/ Path(f) \in OpenPaths
          \/ \E i \in 1..Len(reported) : reported[i].path = Path(f) /\ reported[i].rec = f.rec

\* The state is whole and every finished segment is announced exactly once.
SegmentsAreSound == TypeOK /\ AnnouncedOnce

\* The pruning pass leaves a segment that is being written alone, however long
\* its camera has been silent, except one that was opened after the pass took
\* its snapshot, which only the two budgets can reach (pruneOldRecordings).
OpenSpared ==
    [][\A p \in OpenPaths :
          ((\E f \in disk : Path(f) = p) /\ (\A f \in disk' : Path(f) # p))
              => wd \in {"size", "floor"} /\ p \notin active]_vars

\* A finished segment goes only when the pass has listed its name, or is overwritten
\* by a later recording of its gate that started in the very second its own did
\* (pruneOldRecordings, makeBaseName, openSegment).
KeptUntilPruned ==
    [][\A f \in disk :
          (Path(f) \notin OpenPaths /\ \A h \in disk' : h # f)
              => \/ \E i \in items : Path(i) = Path(f)
                 \/ \E h \in disk' : Path(h) = Path(f) /\ h.rec > f.rec]_vars

\* Neither budget takes a segment while it leaves an older one on the disk
\* (pruneOldRecordings).
OldestGoFirst ==
    [][(wd \in {"size", "floor"})
          => \A f \in items \ items' : \A h \in items' : f.mtime <= h.mtime]_vars

\* A recording with a duration ends when it is over, also when its camera
\* delivers nothing any more (watchdogLoop, closeExpiredLocked).
DurationEnds ==
    \A g \in Gates, i \in 1..MaxRecs :
        (recs[g].id = i /\ recs[g].until # 0 /\ now >= recs[g].until) ~> (recs[g].id # i)

\* `remove directories left empty by the deletions': a recording keeps the
\* directory its next segment goes to.
DirectoryStays ==
    \A g \in Gates : Recording(g) => <<g, recs[g].at>> \in dirs
=============================================================================
