--------------------------- MODULE DetectionWorker --------------------------
(***************************************************************************)
(* The DetectionWorker (src/src/manager/DetectionWorker.cpp) at one gate:  *)
(* it tells the passes of vehicles apart, announces each once, holds an    *)
(* announcement until the direction is known, and corrects it later.       *)
(*                                                                         *)
(* One thread works through the frames; a frame has one or more plate      *)
(* reads.  The processor (PlateProcessor) either drops a read or keeps it, *)
(* perhaps with the text that other reads of the vehicle have voted for.   *)
(* The recogniser returns no empty texts (PlateRecognizer.cpp:53).  Times  *)
(* are ages, as in DirectionTrack.                                         *)
(*                                                                         *)
(* The sink is the PlateSender.  Of its work the module keeps the cooldown *)
(* (src/src/net/PlateSender.cpp:75-87, 156): an ordinary message whose     *)
(* plate went out less than a cooldown ago is dropped, so what the worker  *)
(* has told the sink (told) is not what the receiver has (rows).  Queue,   *)
(* transport and shutdown are in PlateSender and NatsTransport; here the   *)
(* sender keeps up with the worker.                                        *)
(***************************************************************************)
EXTENDS DirectionTrack, Sequences

CONSTANTS
  Texts,             \* plate texts
  NoText,
  Similar,           \* pairs of texts at least passPlateSimilarity alike
  PassGap,           \* passGapMs
  PruneAfter,        \* five minutes
  DirectionEnable,   \* directionEnable
  HoldSightings,     \* announceHoldSightings
  SendCooldown,      \* the sender's cooldownMs
  Gaps,              \* times that may pass between two frames
  OtherGaps,         \* times after which there may be a read at another gate
  MaxReads,          \* bound: reads in one frame
  MaxPasses          \* bound: pass ids made

ASSUME WorkerAssumption ==
  /\ NoText \notin Texts
  /\ Similar \subseteq SUBSET Texts
  /\ DirectionEnable \in BOOLEAN
  /\ {PassGap, HoldSightings} \cup Gaps \cup OtherGaps \subseteq Nat
  /\ PruneAfter \in Nat /\ PruneAfter > 4 * PassGap
  \* The sender forgets a plate after five minutes too, not within its cooldown.
  /\ SendCooldown \in Nat /\ SendCooldown <= PruneAfter
  /\ {MaxReads, MaxPasses} \subseteq Nat \ {0}

VARIABLES
  track,     \* dir_'s track of the gate
  pass,      \* passes_[gate]
  left,      \* reads of the current frame still to process
  minted,    \* number of pass ids made
  sent,      \* messages given to the sink by the last step
  told,      \* the direction in the last message given for each pass id (history)
  cooled,    \* how long ago the sender let a plate text through: lastSent_
  rows,      \* the direction the receiver has stored for each pass id
  dropped    \* the pass ids whose last message the sender dropped (history)

vars == <<track, pass, left, minted, sent, told, cooled, rows, dropped>>

None   == -1          \* lastSentDir of a pass not announced; no row
NoItem == [id |-> 0, text |-> NoText]

\* The entry of a gate without a pass: id 0 is the empty passId.
NoPass ==
  [id |-> 0, text |-> NoText, age |-> 0, interval |-> 0, early |-> FALSE,
   lastDir |-> None, pending |-> FALSE, item |-> NoItem, since |-> 0]

Passes ==
  [id : 0..MaxPasses, text : Texts \cup {NoText}, age : 0..(PruneAfter + 1),
   interval : 0..(PruneAfter + 1), early : BOOLEAN, lastDir : Directions \cup {None},
   pending : BOOLEAN, item : [id : 0..MaxPasses, text : Texts \cup {NoText}],
   since : 0..MaxSamples]

Messages == [id : 1..MaxPasses, text : Texts, dir : Directions, force : BOOLEAN]

Message(i, y, dir, force) == [id |-> i, text |-> y, dir |-> dir, force |-> force]

Same(x, y) == x = y \/ {x, y} \in Similar

PassElapse(p, d) == IF p.id = 0 THEN p ELSE [p EXCEPT !.age = AtMost(PruneAfter + 1, @ + d)]

Phys == IF DirectionEnable THEN track.reported ELSE Unknown

Holding == IF DirectionEnable THEN HoldSightings ELSE 0

\* emitPlate for each of the messages.
Tell(msgs) ==
  /\ sent' = msgs
  /\ told' = [i \in DOMAIN told |->
                LET mine == {k \in DOMAIN msgs : msgs[k].id = i} IN
                IF mine = {} THEN told[i]
                ELSE msgs[CHOOSE k \in mine : \A j \in mine : j <= k].dir]

\* A correction bypasses the cooldown.
LetThrough(m) == m.force \/ cooled[m.text] >= SendCooldown

\* What the sender does with the messages, and the receiver with those that reach
\* it: it stores the direction under the pass id.  The messages of one step are
\* for different passes with different texts.
Store(msgs) ==
  LET through == {k \in DOMAIN msgs : LetThrough(msgs[k])} IN
  /\ cooled' = [x \in Texts |->
       IF \E k \in through : ~msgs[k].force /\ msgs[k].text = x THEN 0 ELSE cooled[x]]
  /\ rows' = [i \in 1..MaxPasses |->
       IF \E k \in through : msgs[k].id = i THEN told'[i] ELSE rows[i]]
  /\ dropped' = (dropped \ {msgs[k].id : k \in through})
                   \cup {msgs[k].id : k \in DOMAIN msgs \ through}

Emit(msgs) == Tell(msgs) /\ Store(msgs)

\* Time passes without a message.
Silence(d) ==
  /\ sent' = <<>>
  /\ cooled' = [x \in Texts |-> AtMost(SendCooldown, cooled[x] + d)]
  /\ UNCHANGED <<told, rows, dropped>>

----------------------------------------------------------------------------
\* passIdFor

Pruned(p) == IF p.age > PruneAfter THEN NoPass ELSE p

Fresh(p) == p.id = 0 \/ p.age > 4 * PassGap \/ (p.interval > 0 /\ p.age > 3 * p.interval)

NewPass(p, y) == Fresh(p) \/ ~Same(p.text, y)

PassIdFor(p, y) ==
  IF NewPass(p, y)
  THEN [p EXCEPT !.id = minted + 1, !.early = FALSE, !.lastDir = None, !.interval = 0,
                 !.text = y, !.age = 0]
  ELSE [p EXCEPT !.interval = p.age, !.text = y, !.age = 0]

----------------------------------------------------------------------------
\* The rest of process, for a read that the processor keeps with text y.

\* pendingItem and pendingSince are not read until something is held again.
Released(p) == [p EXCEPT !.pending = FALSE, !.item = NoItem, !.since = 0]

\* Slip: lastSentDir is not set with the announcement.
AnnouncedOnly(p, dir) == [Released(p) EXCEPT !.early = TRUE]

Announced(p, dir) == [Released(p) EXCEPT !.early = TRUE, !.lastDir = dir]

\* What is held for another vehicle is recorded without a direction.
Flushes(p, y) == p.pending /\ ~Same(p.item.text, y)

\* Slip: the announcement held for another vehicle is forgotten.
FlushedHeldForgets(p, y) == <<>>

FlushedHeld(p, y) ==
  IF Flushes(p, y) THEN <<Message(p.item.id, p.item.text, Unknown, FALSE)>> ELSE <<>>

Flushed(p, y) == IF Flushes(p, y) THEN Released(p) ELSE p

Hold(p) ==
  [p EXCEPT !.pending = TRUE, !.item = [id |-> p.id, text |-> p.text],
            !.since = IF p.pending THEN @ ELSE track.count]

\* Slip: a pass that was announced is held again.
KeptHoldAgain(p, flushed) ==
  /\ Holding > 0 /\ Phys = Unknown
  /\ pass' = Hold(p)
  /\ Emit(flushed)

KeptHold(p, flushed) ==
  /\ ~p.early /\ Holding > 0 /\ Phys = Unknown
  /\ pass' = Hold(p)
  /\ Emit(flushed)

KeptAnnounce(p, flushed) ==
  /\ ~p.early /\ ~(Holding > 0 /\ Phys = Unknown)
  /\ pass' = Announced(p, Phys)
  /\ Emit(Append(flushed, Message(p.id, p.text, Phys, FALSE)))

\* Slip: every direction that is not the last one is sent, unknown included.
KeptCorrectAny(p, flushed) ==
  /\ p.early /\ Phys # p.lastDir
  /\ pass' = [p EXCEPT !.lastDir = Phys]
  /\ Emit(Append(flushed, Message(p.id, p.text, Phys, TRUE)))

KeptCorrect(p, flushed) ==
  /\ p.early /\ Phys # Unknown /\ Phys # p.lastDir
  /\ pass' = [p EXCEPT !.lastDir = Phys]
  /\ Emit(Append(flushed, Message(p.id, p.text, Phys, TRUE)))

KeptSuppress(p, flushed) ==
  /\ p.early /\ (Phys = Unknown \/ Phys = p.lastDir)
  /\ pass' = p
  /\ Emit(flushed)

Kept(y) ==
  LET found   == PassIdFor(Pruned(pass), y)
      flushed == FlushedHeld(found, y)
      p       == Flushed(found, y)
  IN /\ left > 0
     /\ found.id <= MaxPasses
     /\ \/ KeptHold(p, flushed) \/ KeptAnnounce(p, flushed)
        \/ KeptCorrect(p, flushed) \/ KeptSuppress(p, flushed)
     /\ left' = left - 1
     /\ minted' = IF found.id > minted THEN found.id ELSE minted
     /\ UNCHANGED track

----------------------------------------------------------------------------
\* The rest of process, for a read x that the processor drops.

SamePass(x) == pass.id = 0 \/ Same(pass.text, x)

ReadDropped ==
  /\ left > 0
  /\ left' = left - 1
  /\ UNCHANGED <<track, minted>>

Expired == track.count - pass.since >= HoldSightings

DropRelease(x) ==
  /\ DirectionEnable /\ pass.pending /\ SamePass(x)
  /\ Phys # Unknown \/ Expired
  /\ pass' = [Announced(pass, Phys) EXCEPT !.age = 0]
  /\ Emit(<<Message(pass.item.id, pass.item.text, Phys, FALSE)>>)
  /\ ReadDropped

DropWait(x) ==
  /\ DirectionEnable /\ pass.pending /\ SamePass(x)
  /\ Phys = Unknown /\ ~Expired
  /\ Emit(<<>>)
  /\ UNCHANGED pass
  /\ ReadDropped

DropFlush(x) ==
  /\ DirectionEnable /\ pass.pending /\ ~SamePass(x)
  /\ pass' = Released(pass)
  /\ Emit(<<Message(pass.item.id, pass.item.text, Unknown, FALSE)>>)
  /\ ReadDropped

\* Slip: the correction is repeated on every frame.
DropCorrectAgain(x) ==
  /\ DirectionEnable /\ ~pass.pending /\ pass.early /\ SamePass(x)
  /\ Phys # Unknown
  /\ pass' = [pass EXCEPT !.lastDir = Phys, !.age = 0]
  /\ Emit(<<Message(pass.id, x, Phys, TRUE)>>)
  /\ ReadDropped

DropCorrect(x) ==
  /\ DirectionEnable /\ ~pass.pending /\ pass.early /\ SamePass(x)
  /\ Phys # Unknown /\ Phys # pass.lastDir
  /\ pass' = [pass EXCEPT !.lastDir = Phys, !.age = 0]
  /\ Emit(<<Message(pass.id, x, Phys, TRUE)>>)
  /\ ReadDropped

DropNothing(x) ==
  /\ DirectionEnable =>
       /\ ~pass.pending
       /\ pass.early /\ SamePass(x) => Phys = Unknown \/ Phys = pass.lastDir
  /\ Emit(<<>>)
  /\ UNCHANGED pass
  /\ ReadDropped

----------------------------------------------------------------------------
\* The estimator is fed once per frame, before the reads are processed.
Frame(d, n) ==
  /\ left = 0
  /\ left' = n
  /\ pass' = PassElapse(pass, d)
  /\ IF DirectionEnable THEN track' \in Updates(Elapse(track, d)) ELSE UNCHANGED track
  /\ Silence(d)
  /\ UNCHANGED minted

\* A kept read at another gate prunes the map of passes.
OtherGate(d) ==
  /\ left = 0
  /\ pass' = Pruned(PassElapse(pass, d))
  /\ track' = Elapse(track, d)
  /\ Silence(d)
  /\ UNCHANGED <<left, minted>>

Init ==
  /\ track = NoTrack
  /\ pass = NoPass
  /\ left = 0 /\ minted = 0 /\ sent = <<>>
  /\ told = [i \in 1..MaxPasses |-> None]
  /\ cooled = [x \in Texts |-> SendCooldown]
  /\ rows = [i \in 1..MaxPasses |-> None]
  /\ dropped = {}

Next ==
  \/ \E d \in Gaps, n \in 1..MaxReads : Frame(d, n)
  \/ \E d \in OtherGaps : OtherGate(d)
  \/ \E x \in Texts : \/ Kept(x) \/ DropRelease(x) \/ DropWait(x)
                      \/ DropFlush(x) \/ DropCorrect(x) \/ DropNothing(x)

Spec == Init /\ [][Next]_vars

----------------------------------------------------------------------------
Held(i) == pass.pending /\ pass.item.id = i

\* Type: what an entry of passes_ may be, with its parts in agreement: an entry
\* without a pass holds and has announced nothing (DetectionWorker.h, PassState).
TypeOK ==
  /\ track \in Tracks
  /\ pass \in Passes
  /\ left \in 0..MaxReads /\ minted \in 0..MaxPasses
  /\ sent \in Seq(Messages)
  /\ told \in [1..MaxPasses -> Directions \cup {None}]
  /\ cooled \in [Texts -> 0..SendCooldown]
  /\ rows \in [1..MaxPasses -> Directions \cup {None}]
  /\ dropped \subseteq 1..MaxPasses

\* A direction is final only if it was earned: there is one, and a streak that
\* made it final has won (DirectionEstimator.cpp:160-174).
FinalIsEarned ==
  track.locked =>
    /\ track.reported # Unknown
    /\ track.agree >= ConfirmAgreeing => track.reported = track.pendingDir

\* A frame that belongs to the track's pass keeps what is final, and at the cap
\* a single late image does not replace the direction that stands: only a streak
\* does (DirectionEstimator.cpp:66, 167-173).
FinalStays ==
  [][\A d \in Gaps, n \in 1..MaxReads :
       DirectionEnable /\ Frame(d, n) /\ ~StartsAfresh(Elapse(track, d)) =>
         /\ track.locked => track'.locked /\ track'.reported = track.reported
         /\ ~track.locked /\ track'.locked /\ track'.reported # track.reported =>
              track.reported = Unknown \/ track'.agree >= ConfirmAgreeing]_vars

\* What is held is the first announcement of the pass the gate is in, whatever
\* gaps, prunings and other vehicles came between (DetectionWorker.cpp:438-453).
HoldIsOfThisPass ==
  pass.pending => /\ ~pass.early /\ pass.item = [id |-> pass.id, text |-> pass.text]
                  /\ pass.id # 0

\* lastSentDir, against which corrections are judged, is what the receiver has
\* stored for the announced pass.  The one exception is an announcement that the
\* sender's cooldown dropped: then the pass has no row, or its row still says
\* `unknown' from an announcement that another vehicle had flushed
\* (DetectionWorker.cpp:383-396, 455-460; PlateSender.cpp:75-87, 156).
LastSentIsStored ==
  pass.early =>
    \/ rows[pass.id] = pass.lastDir
    \/ pass.id \in dropped /\ rows[pass.id] \in {None, Unknown}

\* A direction the receiver has stored is never replaced by `unknown', by
\* whichever path and vehicle (DetectionWorker.cpp:376-382, 426-431, 455-460).
RowKeepsDirection ==
  [][\A i \in DOMAIN rows : rows[i] \in {Approaching, Receding} => rows'[i] # Unknown]_vars

\* A message that bypasses the sender's cooldown is for a pass that has been
\* announced, tells the receiver something new and arrives; it makes a row only
\* where the cooldown had dropped the announcement
\* (DetectionWorker.cpp:383-396, 455-460; PlateSender.cpp:156).
CorrectionChangesRow ==
  [][\A k \in DOMAIN sent' :
       sent'[k].force =>
         LET i == sent'[k].id IN
         /\ told[i] # None /\ rows[i] # sent'[k].dir /\ rows'[i] = sent'[k].dir
         /\ rows[i] = None => i \in dropped]_vars

\* A held announcement disappears without having been given to the sink only to a
\* quiet gap or to pruning: a different vehicle in the gate never costs it
\* (DetectionWorker.cpp:421-431).
HeldLostOnlyByGap ==
  [][\A i \in 1..minted :
       Held(i) /\ ~Held(i)' /\ told'[i] = None
       => Fresh(pass) \/ pass'.id = 0]_vars

\* "a genuinely short/undecidable pass is still announced (as unknown) and never
\* lost" (DetectionWorker.cpp:435-436).
NeverLost == \A i \in 1..minted : told[i] # None \/ Held(i)

\* "SAME pass -> backend updates in place" (DetectionWorker.cpp:390).
CorrectionHasRow ==
  [][\A k \in DOMAIN sent' : sent'[k].force => rows[sent'[k].id] # None]_vars

\* "so the backend back-fills the row in place" (DetectionWorker.cpp:346-348): a
\* direction that was sent for the pass is the one in its row.
SettledIsStored == pass.early /\ pass.lastDir # Unknown => rows[pass.id] = pass.lastDir

\* "When the consensus DOES change ... re-emit so the backend UPDATES the row"
\* (PlateProcessor.cpp:142-144): the new text of an announced pass is sent on.
TextChangeIsSent ==
  [][\A y \in Texts :
       Kept(y) /\ pass.early /\ pass'.id = pass.id /\ y # pass.text
       => \E k \in DOMAIN sent' : sent'[k].id = pass.id /\ sent'[k].text = y]_vars

\* "A pass seen too few times never commits a direction, so it stays 0/unknown"
\* (DetectionWorker.cpp:415-416): not on its first read, with MinSightings > 1.
ShortPassUnknown ==
  [][\A k \in DOMAIN sent' :
       minted' # minted /\ sent'[k].id = minted' /\ MinSightings > 1
       => sent'[k].dir = Unknown]_vars
=============================================================================
