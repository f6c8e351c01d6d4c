---------------------------- MODULE PlateProcessor ----------------------------
(* PlateProcessor: the reads of the plates of all gates are gathered into       *)
(* passes (by the vehicle's track where there is one, else by likeness to what  *)
(* the pass is believed to be), a weighted vote decides what the plate of a     *)
(* pass is, and every change of that is handed on, under the processor's pass   *)
(* id, to the DetectionWorker.  What becomes of it there, under a pass id and   *)
(* with a suppression of its own, is in DetectionWorker.                        *)
(*                                                                              *)
(* A text is one the validator and minConfidence let through; what they reject  *)
(* changes nothing.  The likeness of two texts is a number; a pair of plates    *)
(* that differ in few digits is alike whatever it is.  The clock is the one the *)
(* frames are stamped with.                                                     *)
EXTENDS Integers, FiniteSets, FiniteSetsExt

CONSTANTS
    Gates, Texts,
    TrackIds,       \* the vehicles' track ids
    Likeness,       \* [Texts \X Texts -> Nat]: jaroWinklerDistance
    Threshold,      \* similarityThreshold
    FewDigits,      \* the pairs plateSimilar() accepts
    Gaps,           \* values of passGapMs a settings save may bring; 0 is off
    Ttl,            \* trackTtlMs; 0 is never
    Sizes,          \* the areas of plate boxes, which the reads are weighted by
    MaxTime, MaxPasses, MaxReads    \* bounds

\* What is assumed of the constants.
LikenessAssumption ==
    /\ Likeness \in [Texts \X Texts -> Nat] /\ Threshold \in Nat
    /\ FewDigits \subseteq Texts \X Texts
    /\ \A t \in Texts : Likeness[t, t] >= Threshold

NumbersAssumption ==
    {Ttl, MaxTime, MaxPasses, MaxReads} \cup Gaps \subseteq Nat /\ Sizes \subseteq Nat \ {0}

VARIABLES
    tracks,     \* tracks_: the passes that are remembered
    now, gap,   \* the time, cfg_.passGapMs
    passes,     \* pass ids given so far; untrackedCounter_ names them as well
    emitted     \* the text last handed on for a pass

vars == <<tracks, now, gap, passes, emitted>>

NoTrack == -1
Unknown == "unknown"

Init ==
    /\ tracks = {} /\ now = 1 /\ gap \in Gaps /\ passes = 0
    /\ emitted = [p \in 1..MaxPasses |-> Unknown]

Advance == now < MaxTime /\ now' = now + 1 /\ UNCHANGED <<tracks, gap, passes, emitted>>

\* setConfig(), from the thread that delivers settings.
SetConfig == gap' \in Gaps \ {gap} /\ UNCHANGED <<tracks, now, passes, emitted>>

\* evictStale(), at every read of any gate.
Remembered ==
    IF Ttl = 0 THEN tracks ELSE {t \in tracks : now - t.last <= Ttl}

\* A pass that has been quiet for longer than the gap has ended.
SamePass(t) == gap = 0 \/ now - t.last <= gap

Alike(text, t) ==
    Likeness[text, t.consensus] >= Threshold \/ <<text, t.consensus>> \in FewDigits

\* resolveKey(): the pass of the vehicle, or the pass of the gate that is most
\* like the text; the order of an unordered_map decides between equals.
Resolve(gate, id, text) ==
    IF id # NoTrack
    THEN {t \in Remembered : t.id = id}
    ELSE LET near == {t \in Remembered : t.id = NoTrack /\ t.gate = gate
                                          /\ SamePass(t) /\ Alike(text, t)}
         IN {t \in near : \A o \in near :
                Likeness[text, o.consensus] <= Likeness[text, t.consensus]}

NewPass(gate, id) ==
    [pass |-> passes + 1, gate |-> gate, id |-> id, last |-> now, sent |-> FALSE,
     consensus |-> Unknown, lastSent |-> Unknown, bestSize |-> 0, best |-> Unknown,
     votes |-> [t \in Texts |-> 0], reads |-> 0]

\* weightedConsensus() sums the weights of equal texts.
Voted(votes, text, size) == [votes EXCEPT ![text] = @ + size]

Heaviest(votes) == {t \in Texts : votes[t] > 0 /\ \A o \in Texts : votes[o] <= votes[t]}

\* Slip: a pass is sent once.
SentOnce(t) == t.sent

\* Nothing new to send.
Known(t) == t.sent /\ t.consensus = t.lastSent

\* The pass with the read added; the largest plate is kept as its picture.
Read(t, text, size, winner) ==
    [t EXCEPT !.last = now, !.reads = @ + 1,
              !.votes = Voted(@, text, size), !.consensus = winner,
              !.best = IF size > t.bestSize THEN text ELSE @,
              !.bestSize = IF size > @ THEN size ELSE @]

\* process().  Its second test of likeness, for passes without a track, never
\* rejects: resolveKey() has just found the pass by the same test.
Process(gate, id, text, size) ==
    LET found == Resolve(gate, id, text)
    IN \E t \in IF found = {} THEN {NewPass(gate, id)} ELSE found :
          /\ t.pass <= MaxPasses /\ t.reads < MaxReads
          /\ passes' = IF found = {} THEN passes + 1 ELSE passes
          /\ \E winner \in Heaviest(Voted(t.votes, text, size)) :
                LET n == Read(t, text, size, winner)
                IN /\ tracks' = (Remembered \ {t})
                                \cup {[n EXCEPT !.sent = TRUE,
                                               !.lastSent = IF Known(n) THEN @ ELSE winner]}
                   /\ emitted' = IF Known(n) THEN emitted
                                 ELSE [emitted EXCEPT ![n.pass] = winner]
          /\ UNCHANGED <<now, gap>>

Next ==
    \/ Advance \/ SetConfig
    \/ \E gate \in Gates, id \in TrackIds \cup {NoTrack}, text \in Texts, size \in Sizes :
          Process(gate, id, text, size)

Spec == Init /\ [][Next]_vars
-------------------------------------------------------------------------------
\* What was last handed on for a pass is the text with the most weight behind it,
\* after every read and in whatever order the reads came, and the picture that
\* goes with it is the largest (weightedConsensus, the re-emission in process).
\* Whether it reaches the backend is up to the DetectionWorker, whose
\* TextChangeIsSent says that for an announced pass it does not.
EmittedIsVote ==
    \A t \in tracks :
        /\ emitted[t.pass] \in Heaviest(t.votes) /\ emitted[t.pass] = t.consensus
        /\ t.votes[t.best] >= t.bestSize
===============================================================================
