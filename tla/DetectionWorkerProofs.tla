----------------------- MODULE DetectionWorkerProofs ------------------------
(***************************************************************************)
(* Proofs about the DetectionWorker at one gate, for every set of plate    *)
(* texts, every similarity and every setting of the estimator.             *)
(***************************************************************************)
EXTENDS DetectionWorker, SequenceTheorems, TLAPS

(***************************************************************************)
(* The estimator's track.                                                  *)
(***************************************************************************)
Earned(t) ==
  /\ t.agree >= ConfirmAgreeing => t.locked
  /\ t.locked => /\ t.reported # Unknown
                 /\ t.agree >= ConfirmAgreeing => t.reported = t.pendingDir

TrackOK(t) == t \in Tracks /\ Earned(t)

\* Ages saturate.
LEMMA AtMostFacts ==
  ASSUME NEW b \in Nat, NEW n \in Nat
  PROVE  AtMost(b, n) \in 0..b
BY DEF AtMost

\* A new track is in order (Track{}).
LEMMA NoTrackOK == TrackOK(NoTrack)
BY TrackAssumption DEF TrackOK, Earned, Tracks, NoTrack, Directions, HardGap, Unknown

\* The passing of time keeps a track in order.
LEMMA ElapseOK ==
  ASSUME NEW t, TrackOK(t), NEW d \in Nat
  PROVE  /\ TrackOK(Elapse(t, d))
         /\ Elapse(t, d).locked = t.locked /\ Elapse(t, d).reported = t.reported
<1>1. HardGap + 1 \in Nat /\ Cooldown + 1 \in Nat
  BY TrackAssumption DEF HardGap
<1>2. t.idle + d \in Nat /\ t.decided + d \in Nat
  BY <1>1 DEF TrackOK, Tracks
<1>3. AtMost(HardGap + 1, t.idle + d) \in 0..(HardGap + 1)
      /\ AtMost(Cooldown + 1, t.decided + d) \in 0..(Cooldown + 1)
  BY <1>1, <1>2, AtMostFacts
<1> QED BY <1>3 DEF Elapse, TrackOK, Tracks, Earned

\* Starting afresh, or learning the interval, keeps a track in order.
LEMMA RefreshOK ==
  ASSUME NEW t, TrackOK(t)
  PROVE  TrackOK(Refresh(t))
<1>1. CASE StartsAfresh(t)
  BY <1>1, NoTrackOK DEF Refresh
<1>2. CASE ~StartsAfresh(t) /\ t.fed
  <2>1. t.idle \in 0..HardGap
    BY <1>2, TrackAssumption DEF StartsAfresh, Quiet, TrackOK, Tracks, HardGap
  <2> QED BY <1>2, <2>1 DEF Refresh, TrackOK, Tracks, Earned
<1>3. CASE ~StartsAfresh(t) /\ ~t.fed
  BY <1>3 DEF Refresh
<1> QED BY <1>1, <1>2, <1>3 DEF TrackOK, Tracks

\* One sample more keeps a track in order (DirectionEstimator.cpp:68-74).
LEMMA SampleOK ==
  ASSUME NEW t, TrackOK(t)
  PROVE  TrackOK(Sample(t)) /\ Sample(t).locked = t.locked
<1>1. t.count + 1 \in Nat /\ MaxSamples \in Nat
  BY TrackAssumption DEF TrackOK, Tracks
<1>2. AtMost(MaxSamples, t.count + 1) \in 0..MaxSamples
  BY <1>1, AtMostFacts
<1> QED BY <1>2 DEF Sample, TrackOK, Tracks, Earned

\* Judging an image of a track that is not final keeps it in order
\* (DirectionEstimator.cpp:155-177).
LEMMA JudgeOK ==
  ASSUME NEW t, TrackOK(t), ~t.locked, NEW v \in Directions
  PROVE  TrackOK(Judge(t, v))
<1>1. ConfirmAgreeing \in Nat \ {0} /\ ConfirmSightings \in Nat /\ Cooldown \in Nat
  BY TrackAssumption
<1>2. t \in Tracks /\ t.agree \in 0..ConfirmAgreeing /\ t.agree < ConfirmAgreeing
      /\ t.count \in Nat /\ t.reported \in Directions
  BY <1>1, TrackAssumption DEF TrackOK, Tracks, Earned
<1>3. CASE v = Unknown
  BY <1>3 DEF Judge
<1>4. CASE v # Unknown
  <2> DEFINE agree == IF v = t.pendingDir THEN t.agree + 1 ELSE 1
             final == agree >= ConfirmAgreeing \/ t.count >= ConfirmSightings
             keep  == agree < ConfirmAgreeing /\ t.count >= ConfirmSightings /\ t.reported # Unknown
             dir   == IF keep THEN t.reported ELSE v
             u     == [t EXCEPT !.pendingDir = v, !.agree = agree, !.locked = final,
                                !.decided = 0, !.reported = dir]
  <2>1. agree \in 0..ConfirmAgreeing /\ final \in BOOLEAN /\ dir \in Directions
    BY <1>1, <1>2
  <2>2. Judge(t, v) = u
    BY <1>4 DEF Judge
  <2>3. /\ agree >= ConfirmAgreeing => final
        /\ final => dir # Unknown /\ (agree >= ConfirmAgreeing => dir = v)
    BY <1>1, <1>2, <1>4, <2>1
  <2> HIDE DEF agree, final, dir
  <2>4. /\ u.pendingDir = v /\ u.agree = agree /\ u.locked = final /\ u.decided = 0
        /\ u.reported = dir
    BY <1>2 DEF Tracks
  <2>5. 0 \in 0..(Cooldown + 1)
    BY <1>1
  <2>6. u \in Tracks
    BY <1>2, <2>1, <2>5 DEF Tracks
  <2>7. Earned(u)
    BY <2>3, <2>4 DEF Earned
  <2> QED BY <2>2, <2>6, <2>7 DEF TrackOK
<1> QED BY <1>3, <1>4

\* A sighting resets the idle time only.
LEMMA FedOK ==
  ASSUME NEW t, TrackOK(t)
  PROVE  TrackOK(Fed(t)) /\ Fed(t).locked = t.locked /\ Fed(t).reported = t.reported
         /\ Fed(t).agree = t.agree
<1>1. HardGap + 1 \in Nat
  BY TrackAssumption DEF HardGap
<1>2. 0 \in 0..(HardGap + 1)
  BY <1>1
<1> QED BY <1>2 DEF Fed, TrackOK, Tracks, Earned

\* Feeding a sighting keeps a track in order (DirectionEstimator::update).
LEMMA UpdatesOK ==
  ASSUME NEW t, TrackOK(t), NEW u \in Updates(t)
  PROVE  TrackOK(u)
<1>2. TrackOK(Refresh(t))
  BY RefreshOK
<1>3. CASE Refresh(t).locked
  BY <1>2, <1>3, FedOK DEF Updates
<1>4. CASE ~Refresh(t).locked
  <2>1. PICK v \in Verdicts(Sample(Refresh(t))) : u = Fed(Judge(Sample(Refresh(t)), v))
    BY <1>4 DEF Updates
  <2>2. v \in Directions
    BY <2>1 DEF Verdicts, Directions
  <2>3. TrackOK(Sample(Refresh(t))) /\ ~Sample(Refresh(t)).locked
    BY <1>2, <1>4, SampleOK
  <2> QED BY <2>1, <2>2, <2>3, JudgeOK, FedOK
<1> QED BY <1>3, <1>4

----------------------------------------------------------------------------
(***************************************************************************)
(* What the sink is given.                                                 *)
(***************************************************************************)
ToldType == [1..MaxPasses -> Directions \cup {None}]

\* Appending to one message gives two.
LEMMA AppendPair ==
  ASSUME NEW a, NEW b
  PROVE  Append(<<a>>, b) = <<a, b>>
<1>1. ASSUME NEW S, NEW s \in Seq(S), Len(s) = 1, NEW e \in S,
             NEW t \in Seq(S), Len(t) = 2, t[1] = s[1], t[2] = e
      PROVE  Append(s, e) = t
  <2> DEFINE r == Append(s, e)
  <2>1. r \in Seq(S) /\ Len(r) = Len(s) + 1
    BY AppendProperties
  <2>2. \A i \in 1..Len(s) : r[i] = s[i]
    BY AppendProperties
  <2>3. r[Len(s) + 1] = e
    BY AppendProperties
  <2> HIDE DEF r
  <2>4. Len(r) = Len(t) /\ \A i \in 1..Len(r) : r[i] = t[i]
    BY <1>1, <2>1, <2>2, <2>3
  <2>5. r = t
    BY <2>1, <2>4, SeqEqual
  <2> QED BY <2>5 DEF r
<1>2. /\ <<a>> \in Seq({a, b}) /\ Len(<<a>>) = 1 /\ b \in {a, b}
      /\ <<a, b>> \in Seq({a, b}) /\ Len(<<a, b>>) = 2
      /\ <<a, b>>[1] = <<a>>[1] /\ <<a, b>>[2] = b
  OBVIOUS
<1> QED BY <1>1, <1>2, Zenon

\* Nothing is sent (emitPlate is not called).
LEMMA EmitNone ==
  ASSUME told \in ToldType, Emit(<<>>)
  PROVE  sent' = <<>> /\ told' = told
BY DEF Emit, Tell, ToldType

\* One message sets what was told of its pass (emitPlate).
LEMMA EmitOne ==
  ASSUME told \in ToldType, NEW m \in Messages, Emit(<<m>>)
  PROVE  /\ sent' = <<m>> /\ told' = [told EXCEPT ![m.id] = m.dir]
         /\ told' \in ToldType /\ sent' \in Seq(Messages)
<1>1. m.id \in 1..MaxPasses /\ m.dir \in Directions
  BY DEF Messages
<1>2. sent' = <<m>> /\ DOMAIN <<m>> = {1} /\ <<m>>[1] = m
  BY DEF Emit, Tell
<1>3. ASSUME NEW i \in 1..MaxPasses
      PROVE  told'[i] = IF i = m.id THEN m.dir ELSE told[i]
  <2>1. CASE i = m.id
    <3>1. {k \in DOMAIN <<m>> : <<m>>[k].id = i} = {1}
      BY <1>2, <2>1
    <3>2. (CHOOSE k \in {1} : \A j \in {1} : j <= k) = 1
      OBVIOUS
    <3> QED BY <1>2, <1>3, <2>1, <3>1, <3>2 DEF Emit, Tell, ToldType
  <2>2. CASE i # m.id
    <3>1. {k \in DOMAIN <<m>> : <<m>>[k].id = i} = {}
      BY <1>2, <2>2
    <3> QED BY <1>2, <1>3, <2>2, <3>1 DEF Emit, Tell, ToldType
  <2> QED BY <2>1, <2>2
<1>4. told' = [i \in 1..MaxPasses |-> told'[i]]
  BY DEF Emit, Tell, ToldType
<1> QED BY <1>1, <1>2, <1>3, <1>4 DEF ToldType

\* Two messages tell of two passes (the flush of a held plate, then another message).
LEMMA EmitTwo ==
  ASSUME told \in ToldType, NEW m \in Messages, NEW n \in Messages, m.id # n.id,
         Emit(<<m, n>>)
  PROVE  /\ sent' = <<m, n>>
         /\ told' = [[told EXCEPT ![m.id] = m.dir] EXCEPT ![n.id] = n.dir]
         /\ told' \in ToldType /\ sent' \in Seq(Messages)
<1>1. m.id \in 1..MaxPasses /\ m.dir \in Directions /\ n.id \in 1..MaxPasses /\ n.dir \in Directions
  BY DEF Messages
<1>2. sent' = <<m, n>> /\ DOMAIN <<m, n>> = {1, 2} /\ <<m, n>>[1] = m /\ <<m, n>>[2] = n
  BY DEF Emit, Tell
<1>3. ASSUME NEW i \in 1..MaxPasses
      PROVE  told'[i] = IF i = n.id THEN n.dir ELSE IF i = m.id THEN m.dir ELSE told[i]
  <2> DEFINE mine == {k \in DOMAIN <<m, n>> : <<m, n>>[k].id = i}
  <2>0. told'[i] = IF mine = {} THEN told[i]
                   ELSE <<m, n>>[CHOOSE k \in mine : \A j \in mine : j <= k].dir
    BY <1>3 DEF Emit, Tell, ToldType
  <2>1. CASE i = m.id
    <3>1. mine = {1}
      BY <1>2, <2>1
    <3>2. (CHOOSE k \in {1} : \A j \in {1} : j <= k) = 1
      OBVIOUS
    <3> HIDE DEF mine
    <3> QED BY <1>2, <2>0, <2>1, <3>1, <3>2
  <2>2. CASE i = n.id
    <3>1. mine = {2}
      BY <1>2, <2>2
    <3>2. (CHOOSE k \in {2} : \A j \in {2} : j <= k) = 2
      OBVIOUS
    <3> HIDE DEF mine
    <3> QED BY <1>2, <2>0, <2>2, <3>1, <3>2
  <2>3. CASE i # m.id /\ i # n.id
    <3>1. mine = {}
      BY <1>2, <2>3
    <3> HIDE DEF mine
    <3> QED BY <2>0, <2>3, <3>1
  <2> QED BY <2>1, <2>2, <2>3
<1>4. told' = [i \in 1..MaxPasses |-> told'[i]]
  BY DEF Emit, Tell, ToldType
<1> QED BY <1>1, <1>2, <1>3, <1>4 DEF ToldType

----------------------------------------------------------------------------
(***************************************************************************)
(* The worker's inductive invariant: beside the invariants themselves,     *)
(* that lastSentDir is what the sink was last told of an announced pass,   *)
(* that no direction was told of a pass which is not announced, and that   *)
(* nothing was told of an id not yet made.                                 *)
(***************************************************************************)
WorkerType ==
  /\ track \in Tracks
  /\ pass \in Passes
  /\ left \in 0..MaxReads /\ minted \in 0..MaxPasses
  /\ sent \in Seq(Messages)
  /\ told \in [1..MaxPasses -> Directions \cup {None}]

LastSentIsTold == pass.early => told[pass.id] = pass.lastDir

PassInv ==
  /\ pass.id <= minted
  /\ pass.id = 0 => ~pass.early /\ ~pass.pending
  /\ pass.id # 0 => pass.text \in Texts
  /\ pass.early => pass.lastDir \in Directions
  /\ pass.id # 0 /\ ~pass.early => told[pass.id] \in {None, Unknown}
  /\ \A i \in 1..MaxPasses : i > minted => told[i] = None

WorkerInv == WorkerType /\ TrackOK(track) /\ HoldIsOfThisPass /\ LastSentIsTold /\ PassInv

\* Phys is a direction.
LEMMA PhysType ==
  ASSUME WorkerType
  PROVE  Phys \in Directions
BY DEF WorkerType, Phys, Tracks, Directions

\* The constants of an entry's fields.
LEMMA PassConstants ==
  /\ PruneAfter \in Nat /\ 0 \in 0..(PruneAfter + 1) /\ 0 \in 0..MaxSamples /\ 0 \in 0..MaxPasses
  /\ MaxPasses \in Nat \ {0} /\ MaxSamples \in Nat /\ None \notin Directions
BY WorkerAssumption, TrackAssumption DEF None, Directions, Unknown, Approaching, Receding

\* An entry without a pass is an entry.
LEMMA NoPassType ==
  NoPass \in Passes /\ NoPass.id = 0 /\ NoPass.early = FALSE /\ NoPass.pending = FALSE
<1>1. NoItem \in [id : 0..MaxPasses, text : Texts \cup {NoText}]
  BY PassConstants DEF NoItem
<1> QED BY <1>1, PassConstants DEF NoPass, Passes

\* Releasing what is held changes nothing else (pendingAnnounce = false).
LEMMA ReleasedFacts ==
  ASSUME NEW p \in Passes
  PROVE  /\ Released(p) \in Passes /\ Released(p).id = p.id /\ Released(p).text = p.text
         /\ Released(p).early = p.early /\ Released(p).lastDir = p.lastDir
         /\ Released(p).pending = FALSE
<1>1. NoItem \in [id : 0..MaxPasses, text : Texts \cup {NoText}]
  BY PassConstants DEF NoItem
<1> QED BY <1>1, PassConstants DEF Released, Passes

\* An announcement sets emittedEarly and lastSentDir and releases what is held.
LEMMA AnnouncedFacts ==
  ASSUME NEW p \in Passes, NEW dir \in Directions
  PROVE  /\ Announced(p, dir) \in Passes /\ Announced(p, dir).id = p.id
         /\ Announced(p, dir).text = p.text
         /\ Announced(p, dir).early = TRUE /\ Announced(p, dir).lastDir = dir
         /\ Announced(p, dir).pending = FALSE
<1> DEFINE r == Released(p)
<1>1. r \in Passes /\ r.id = p.id /\ r.text = p.text /\ r.pending = FALSE
  BY ReleasedFacts
<1> HIDE DEF r
<1>2. Announced(p, dir) = [r EXCEPT !.early = TRUE, !.lastDir = dir]
  BY DEF Announced, r
<1> QED BY <1>1, <1>2 DEF Passes

\* Time and pruning change the age of an entry, or remove it.
LEMMA AgeFacts ==
  ASSUME NEW p \in Passes, NEW d \in Nat, NEW q, q \in {PassElapse(p, d), Pruned(PassElapse(p, d)), Pruned(p)}
  PROVE  /\ q \in Passes
         /\ \/ q = NoPass
            \/ /\ q.id = p.id /\ q.text = p.text /\ q.early = p.early /\ q.lastDir = p.lastDir
               /\ q.pending = p.pending /\ q.item = p.item
<1>1. p.age + d \in Nat /\ PruneAfter + 1 \in Nat
  BY PassConstants DEF Passes
<1>2. AtMost(PruneAfter + 1, p.age + d) \in 0..(PruneAfter + 1)
  BY <1>1, AtMostFacts
<1>3. q \in Passes
  BY <1>2, NoPassType DEF PassElapse, Pruned, Passes
<1> QED BY <1>2, <1>3 DEF PassElapse, Pruned, Passes

\* passIdFor gives the entry of the pass the gate is in, or of a new one.
LEMMA PassIdForFacts ==
  ASSUME NEW p \in Passes, NEW y \in Texts, NEW q, q = PassIdFor(p, y),
         minted \in 0..MaxPasses, q.id <= MaxPasses, p.id <= minted
  PROVE  /\ q \in Passes /\ q.id \in 1..MaxPasses /\ q.text = y
         /\ q.pending = p.pending /\ q.item = p.item
         /\ \/ q.id = minted + 1 /\ q.early = FALSE /\ NewPass(p, y)
            \/ /\ q.id = p.id /\ q.early = p.early /\ q.lastDir = p.lastDir
               /\ Same(p.text, y) /\ ~NewPass(p, y)
<1>1. CASE NewPass(p, y)
  <2>0. q = [p EXCEPT !.id = minted + 1, !.early = FALSE, !.lastDir = None, !.interval = 0,
                      !.text = y, !.age = 0]
    BY <1>1 DEF PassIdFor
  <2>1. q.id = minted + 1
    BY <2>0 DEF Passes
  <2>2. minted + 1 \in 1..MaxPasses /\ minted + 1 \in 0..MaxPasses
    BY <2>1, PassConstants
  <2>3. q \in Passes
    BY <2>0, <2>2, PassConstants DEF Passes
  <2>4. q.text = y /\ q.pending = p.pending /\ q.item = p.item /\ q.early = FALSE
    BY <2>0 DEF Passes
  <2> QED BY <1>1, <2>1, <2>2, <2>3, <2>4
<1>2. CASE ~NewPass(p, y)
  <2>0. q = [p EXCEPT !.interval = p.age, !.text = y, !.age = 0]
    BY <1>2 DEF PassIdFor
  <2>1. p.id \in 1..MaxPasses /\ Same(p.text, y)
    BY <1>2, PassConstants DEF NewPass, Fresh, Passes
  <2>2. q \in Passes
    BY <2>0, PassConstants DEF Passes
  <2>3. q.id = p.id /\ q.text = y /\ q.pending = p.pending /\ q.item = p.item
    BY <2>0 DEF Passes
  <2>4. q.early = p.early /\ q.lastDir = p.lastDir
    BY <2>0 DEF Passes
  <2> QED BY <1>2, <2>1, <2>2, <2>3, <2>4
<1> QED BY <1>1, <1>2

(***************************************************************************)
(* A kept read, up to the decision what to do with it: p is the entry of   *)
(* its pass, with nothing held for another vehicle, and flushed is what    *)
(* was held for one.                                                       *)
(***************************************************************************)
KeptInv(p, flushed, y) ==
  /\ p \in Passes /\ p.id \in 1..MaxPasses /\ p.text = y /\ y \in Texts
  /\ p.id = minted + 1 \/ (p.id = pass.id /\ p.id <= minted)
  /\ p.early => /\ p.id = pass.id /\ pass.early /\ p.lastDir = pass.lastDir
                /\ ~p.pending /\ flushed = <<>>
  /\ ~p.early => told[p.id] \in {None, Unknown}
  /\ \/ flushed = <<>>
     \/ /\ flushed = <<Message(pass.id, pass.text, Unknown, FALSE)>>
        /\ pass.id \in 1..MaxPasses /\ pass.id # p.id /\ told[pass.id] \in {None, Unknown}
        /\ pass.text \in Texts

\* Up to the decision, a kept read respects the invariants
\* (DetectionWorker.cpp:400-431).
LEMMA KeptFacts ==
  ASSUME WorkerInv, NEW y \in Texts, NEW found, found = PassIdFor(Pruned(pass), y),
         found.id <= MaxPasses
  PROVE  KeptInv(Flushed(found, y), FlushedHeld(found, y), y)
<1> DEFINE q == Pruned(pass)
<1>0. pass \in Passes /\ minted \in 0..MaxPasses /\ 0 \in Nat
  BY DEF WorkerInv, WorkerType
<1>1. /\ q \in Passes
      /\ \/ q = NoPass
         \/ /\ q.id = pass.id /\ q.text = pass.text /\ q.early = pass.early
            /\ q.lastDir = pass.lastDir /\ q.pending = pass.pending /\ q.item = pass.item
  BY <1>0, AgeFacts
<1>2. q.id <= minted
  BY <1>0, <1>1 DEF WorkerInv, PassInv, NoPass
<1> HIDE DEF q
<1>3. found = PassIdFor(q, y)
  BY DEF q
<1>4. /\ found \in Passes /\ found.id \in 1..MaxPasses /\ found.text = y
      /\ found.pending = q.pending /\ found.item = q.item
      /\ \/ found.id = minted + 1 /\ found.early = FALSE /\ NewPass(q, y)
         \/ /\ found.id = q.id /\ found.early = q.early /\ found.lastDir = q.lastDir
            /\ Same(q.text, y) /\ ~NewPass(q, y)
  BY <1>0, <1>1, <1>2, <1>3, PassIdForFacts
<1>5. q.pending => /\ q.id = pass.id /\ q.id # 0 /\ ~q.early /\ pass.pending
                   /\ q.item.id = q.id /\ q.item.text = q.text /\ q.text = pass.text
  <2>1. pass.pending => /\ ~pass.early /\ pass.item = [id |-> pass.id, text |-> pass.text]
                        /\ pass.id # 0
    BY DEF WorkerInv, HoldIsOfThisPass
  <2>2. CASE q = NoPass
    BY <2>2, NoPassType
  <2>3. CASE q # NoPass
    <3>1. q.id = pass.id /\ q.text = pass.text /\ q.early = pass.early
          /\ q.pending = pass.pending /\ q.item = pass.item
      BY <1>1, <2>3
    <3>2. ASSUME q.pending
          PROVE  q.id # 0 /\ ~q.early /\ q.item = [id |-> q.id, text |-> q.text] /\ pass.pending
      BY <2>1, <3>1, <3>2, Zenon
    <3> QED BY <3>1, <3>2
  <2> QED BY <2>2, <2>3
<1>6. found.early => found.id = pass.id /\ pass.early /\ found.lastDir = pass.lastDir
                     /\ ~found.pending
  <2>1. ASSUME found.early
        PROVE  q.early /\ found.id = q.id /\ found.lastDir = q.lastDir
    BY <1>4, <2>1
  <2>2. found.early => q # NoPass
    BY <2>1, NoPassType
  <2> QED BY <1>1, <1>4, <1>5, <2>1, <2>2
<1>7. found.id = minted + 1 \/ (found.id = pass.id /\ found.id <= minted)
  BY <1>0, <1>1, <1>2, <1>4 DEF NoPass
<1>8. ~found.early => told[found.id] \in {None, Unknown}
  <2>1. CASE found.id = minted + 1
    BY <1>0, <1>4, <2>1 DEF WorkerInv, PassInv
  <2>2. CASE ~found.early /\ found.id = q.id /\ found.early = q.early
    <3>1. found.id = pass.id /\ found.id # 0 /\ ~pass.early
      BY <1>1, <1>4, <2>2 DEF NoPass
    <3> QED BY <3>1 DEF WorkerInv, PassInv
  <2> QED BY <1>4, <2>1, <2>2
<1>9. CASE Flushes(found, y)
  <2>1. q.pending /\ ~Same(q.text, y)
    BY <1>4, <1>5, <1>9 DEF Flushes
  <2>2. found.id = minted + 1 /\ ~found.early
    BY <1>4, <2>1
  <2>3. pass.id \in 1..MaxPasses /\ pass.id # found.id /\ found.item.id = pass.id
        /\ found.item.text = pass.text
    BY <1>0, <1>2, <1>4, <1>5, <2>1, <2>2, PassConstants DEF Passes
  <2>4. told[pass.id] \in {None, Unknown} /\ pass.text \in Texts
    BY <1>5, <2>1 DEF WorkerInv, HoldIsOfThisPass, PassInv
  <2>5. /\ Flushed(found, y) = Released(found)
        /\ FlushedHeld(found, y) = <<Message(pass.id, pass.text, Unknown, FALSE)>>
    BY <1>9, <2>3 DEF Flushed, FlushedHeld
  <2>6. /\ Released(found) \in Passes /\ Released(found).id = found.id /\ Released(found).text = y
        /\ Released(found).early = found.early
    BY <1>4, ReleasedFacts
  <2> HIDE DEF Released
  <2> QED BY <1>4, <1>7, <1>8, <2>2, <2>3, <2>4, <2>5, <2>6 DEF KeptInv
<1>10. CASE ~Flushes(found, y)
  <2>1. Flushed(found, y) = found /\ FlushedHeld(found, y) = <<>>
    BY <1>10 DEF Flushed, FlushedHeld
  <2> QED BY <1>4, <1>6, <1>7, <1>8, <2>1 DEF KeptInv
<1> QED BY <1>9, <1>10

----------------------------------------------------------------------------
(***************************************************************************)
(* What every step tells the sink: no direction told becomes unknown, and  *)
(* a forced message tells something new of an announced pass.              *)
(***************************************************************************)
ToldKeeps ==
  \A i \in DOMAIN told : told[i] \in {Approaching, Receding} => told'[i] # Unknown


ToldTyped == told' \in ToldType /\ sent' \in Seq(Messages)


\* A message that may be sent for pass i: an announcement, or a correction that
\* brings something new.
MaySend(i, dir, force) ==
  /\ i \in 1..MaxPasses /\ dir \in Directions /\ force \in BOOLEAN
  /\ IF force THEN dir # Unknown /\ told[i] \notin {None, dir}
             ELSE told[i] \in {None, Unknown}

\* What is sent may be sent, and what it says is what is told of its pass; of a pass
\* without a message nothing new is told.
Allowed ==
  /\ \A k \in DOMAIN sent' :
       /\ sent'[k] \in Messages
       /\ MaySend(sent'[k].id, sent'[k].dir, sent'[k].force)
       /\ told'[sent'[k].id] = sent'[k].dir
  /\ \A j \in 1..MaxPasses : (\A k \in DOMAIN sent' : sent'[k].id # j) => told'[j] = told[j]

ToldStep == ToldTyped /\ ToldKeeps /\ Allowed

\* Nothing sent.
LEMMA SendNone ==
  ASSUME told \in ToldType, sent' = <<>>, told' = told
  PROVE  ToldStep
<1>1. ToldTyped
  BY DEF ToldTyped
<1>2. ToldKeeps
  BY DEF ToldKeeps, Unknown, Approaching, Receding
<1>3. Allowed
  BY DEF Allowed
<1> QED BY <1>1, <1>2, <1>3 DEF ToldStep

\* One message sent.
LEMMA SendOne ==
  ASSUME told \in ToldType, NEW i, NEW y \in Texts, NEW dir, NEW force,
         MaySend(i, dir, force), Emit(<<Message(i, y, dir, force)>>)
  PROVE  ToldStep /\ told'[i] = dir /\ \A j \in 1..MaxPasses : j # i => told'[j] = told[j]
<1> DEFINE m == Message(i, y, dir, force)
<1>1. m \in Messages /\ m.id = i /\ m.dir = dir /\ m.force = force
  BY DEF Message, Messages, MaySend
<1> HIDE DEF m
<1>2. Emit(<<m>>)
  BY DEF m
<1>3. /\ sent' = <<m>> /\ told' = [told EXCEPT ![i] = dir]
      /\ told' \in ToldType /\ sent' \in Seq(Messages)
  BY <1>1, <1>2, EmitOne
<1>4. i \in 1..MaxPasses /\ DOMAIN told = 1..MaxPasses
  BY DEF MaySend, ToldType
<1>5. told'[i] = dir /\ \A j \in 1..MaxPasses : j # i => told'[j] = told[j]
  BY <1>3, <1>4
<1>6. ToldKeeps
  BY <1>4, <1>5 DEF ToldKeeps, MaySend, None, Unknown, Approaching, Receding
<1>7. Allowed
  <2>1. DOMAIN sent' = {1} /\ sent'[1] = m
    BY <1>3
  <2>2. ASSUME NEW k \in DOMAIN sent'
        PROVE  /\ sent'[k] \in Messages /\ MaySend(sent'[k].id, sent'[k].dir, sent'[k].force)
               /\ told'[sent'[k].id] = sent'[k].dir
    BY <1>1, <1>5, <2>1, <2>2
  <2>3. ASSUME NEW j \in 1..MaxPasses, \A k \in DOMAIN sent' : sent'[k].id # j
        PROVE  told'[j] = told[j]
    BY <1>1, <1>5, <2>1, <2>3
  <2> QED BY <2>2, <2>3 DEF Allowed
<1> QED BY <1>3, <1>5, <1>6, <1>7 DEF ToldStep, ToldTyped

\* The message for a vehicle that was held, and one for the vehicle in the gate.
LEMMA SendTwo ==
  ASSUME told \in ToldType, NEW i, NEW h, MaySend(h, Unknown, FALSE), h # i,
         NEW dir, NEW force, MaySend(i, dir, force), NEW x \in Texts, NEW y \in Texts,
         Emit(<<Message(h, x, Unknown, FALSE), Message(i, y, dir, force)>>)
  PROVE  ToldStep /\ told'[i] = dir /\ told'[h] = Unknown
         /\ \A j \in 1..MaxPasses : j # i /\ j # h => told'[j] = told[j]
<1> DEFINE m == Message(h, x, Unknown, FALSE)
           n == Message(i, y, dir, force)
<1>1. /\ m \in Messages /\ m.id = h /\ m.dir = Unknown /\ m.force = FALSE
      /\ n \in Messages /\ n.id = i /\ n.dir = dir /\ n.force = force
  BY DEF Message, Messages, MaySend
<1> HIDE DEF m, n
<1>2. Emit(<<m, n>>)
  BY DEF m, n
<1>3. /\ sent' = <<m, n>> /\ told' = [[told EXCEPT ![h] = Unknown] EXCEPT ![i] = dir]
      /\ told' \in ToldType /\ sent' \in Seq(Messages)
  BY <1>1, <1>2, EmitTwo
<1>4. i \in 1..MaxPasses /\ h \in 1..MaxPasses /\ DOMAIN told = 1..MaxPasses
  BY DEF MaySend, ToldType
<1>5. /\ told'[i] = dir /\ told'[h] = Unknown
      /\ \A j \in 1..MaxPasses : j # i /\ j # h => told'[j] = told[j]
  BY <1>3, <1>4
<1>6. ToldKeeps
  BY <1>4, <1>5 DEF ToldKeeps, MaySend, None, Unknown, Approaching, Receding
<1>7. Allowed
  <2>0. DOMAIN <<m, n>> = {1, 2} /\ <<m, n>>[1] = m /\ <<m, n>>[2] = n
    OBVIOUS
  <2>1. DOMAIN sent' = {1, 2} /\ sent'[1] = m /\ sent'[2] = n
    BY <1>3, <2>0
  <2>2. ASSUME NEW k \in DOMAIN sent'
        PROVE  /\ sent'[k] \in Messages /\ MaySend(sent'[k].id, sent'[k].dir, sent'[k].force)
               /\ told'[sent'[k].id] = sent'[k].dir
    BY <1>1, <1>5, <2>1, <2>2
  <2>3. ASSUME NEW j \in 1..MaxPasses, \A k \in DOMAIN sent' : sent'[k].id # j
        PROVE  told'[j] = told[j]
    BY <1>1, <1>5, <2>1, <2>3
  <2> QED BY <2>2, <2>3 DEF Allowed
<1> QED BY <1>3, <1>5, <1>6, <1>7 DEF ToldStep, ToldTyped

\* A kept read that sends only what was held for another vehicle.
LEMMA KeptQuiet ==
  ASSUME WorkerInv, NEW y, NEW p, NEW flushed, KeptInv(p, flushed, y), Emit(flushed)
  PROVE  ToldStep /\ told'[p.id] = told[p.id]
         /\ (flushed # <<>> => told'[pass.id] = Unknown)
         /\ \A j \in 1..MaxPasses : j > minted => told'[j] = told[j]
<1>1. told \in ToldType /\ pass.id <= minted /\ minted \in Nat
  BY DEF WorkerInv, WorkerType, PassInv, ToldType
<1>2. CASE flushed = <<>>
  BY <1>1, <1>2, EmitNone, SendNone
<1>3. CASE flushed # <<>>
  <2>1. /\ flushed = <<Message(pass.id, pass.text, Unknown, FALSE)>>
        /\ pass.id \in 1..MaxPasses /\ pass.id # p.id /\ told[pass.id] \in {None, Unknown}
        /\ p.id \in 1..MaxPasses /\ pass.text \in Texts
    BY <1>3 DEF KeptInv
  <2>2. MaySend(pass.id, Unknown, FALSE)
    BY <2>1 DEF MaySend, Directions
  <2>3. Emit(<<Message(pass.id, pass.text, Unknown, FALSE)>>)
    BY <2>1
  <2>4. ToldStep /\ told'[pass.id] = Unknown
        /\ \A j \in 1..MaxPasses : j # pass.id => told'[j] = told[j]
    <3>1. ASSUME NEW h, h = pass.id
          PROVE  ToldStep /\ told'[h] = Unknown
                 /\ \A j \in 1..MaxPasses : j # h => told'[j] = told[j]
      <4>1. MaySend(h, Unknown, FALSE) /\ Emit(<<Message(h, pass.text, Unknown, FALSE)>>)
        BY <2>2, <2>3, <3>1
      <4> QED BY <1>1, <2>1, <4>1, SendOne
    <3> QED BY <3>1
  <2> QED BY <1>1, <2>1, <2>4
<1> QED BY <1>2, <1>3

\* A kept read that sends a message for its pass.
LEMMA KeptSpeaks ==
  ASSUME WorkerInv, NEW y, NEW p, NEW flushed, KeptInv(p, flushed, y), NEW dir, NEW force,
         MaySend(p.id, dir, force), Emit(Append(flushed, Message(p.id, p.text, dir, force)))
  PROVE  ToldStep /\ told'[p.id] = dir
         /\ \A j \in 1..MaxPasses : j > minted /\ j # p.id => told'[j] = told[j]
<1>1. told \in ToldType /\ pass.id <= minted /\ minted \in Nat
  BY DEF WorkerInv, WorkerType, PassInv, ToldType
<1>2. CASE flushed = <<>>
  <2>1. ASSUME NEW i, i = p.id
        PROVE  ToldStep /\ told'[i] = dir /\ \A j \in 1..MaxPasses : j # i => told'[j] = told[j]
    <3>1. MaySend(i, dir, force) /\ Emit(<<Message(i, y, dir, force)>>) /\ y \in Texts
      BY <1>2, <2>1 DEF KeptInv
    <3> QED BY <1>1, <3>1, SendOne
  <2> QED BY <1>1, <2>1
<1>3. CASE flushed # <<>>
  <2>1. /\ flushed = <<Message(pass.id, pass.text, Unknown, FALSE)>>
        /\ pass.id \in 1..MaxPasses /\ pass.id # p.id /\ told[pass.id] \in {None, Unknown}
        /\ pass.text \in Texts /\ p.text = y /\ y \in Texts
    BY <1>3 DEF KeptInv
  <2>2. MaySend(pass.id, Unknown, FALSE)
    BY <2>1 DEF MaySend, Directions
  <2>3. Emit(<<Message(pass.id, pass.text, Unknown, FALSE), Message(p.id, p.text, dir, force)>>)
    BY <2>1, AppendPair, Zenon
  <2>4. ToldStep /\ told'[p.id] = dir
        /\ \A j \in 1..MaxPasses : j # p.id /\ j # pass.id => told'[j] = told[j]
    <3>1. ASSUME NEW h, h = pass.id, NEW i, i = p.id
          PROVE  ToldStep /\ told'[i] = dir
                 /\ \A j \in 1..MaxPasses : j # i /\ j # h => told'[j] = told[j]
      <4>1. MaySend(h, Unknown, FALSE) /\ MaySend(i, dir, force) /\ h # i
            /\ Emit(<<Message(h, pass.text, Unknown, FALSE), Message(i, y, dir, force)>>)
        BY <2>1, <2>2, <2>3, <3>1
      <4> QED BY <1>1, <2>1, <4>1, SendTwo
    <3> QED BY <3>1
  <2> QED BY <1>1, <2>1, <2>4
<1> QED BY <1>2, <1>3

----------------------------------------------------------------------------
(***************************************************************************)
(* The steps.                                                              *)
(***************************************************************************)

\* The initial state satisfies the worker's inductive invariant.
LEMMA InitWorker == Init => WorkerInv
<1> SUFFICES ASSUME Init PROVE WorkerInv
  OBVIOUS
<1> USE DEF Init
<1>1. TrackOK(track) /\ track \in Tracks
  BY NoTrackOK DEF TrackOK
<1>2. WorkerType
  BY <1>1, NoPassType, PassConstants, WorkerAssumption DEF WorkerType
<1>3. HoldIsOfThisPass /\ LastSentIsTold
  BY NoPassType DEF HoldIsOfThisPass, LastSentIsTold
<1>4. PassInv
  BY NoPassType DEF PassInv
<1> QED BY <1>1, <1>2, <1>3, <1>4 DEF WorkerInv

\* What a kept read does after the decision restores the invariant.
LEMMA KeptCloses ==
  ASSUME WorkerInv, NEW y \in Texts, NEW p, NEW flushed, KeptInv(p, flushed, y), ToldStep,
         left' \in 0..MaxReads, minted' = IF p.id > minted THEN p.id ELSE minted,
         track' = track, pass' \in Passes, pass'.id = p.id, pass'.text = y, HoldIsOfThisPass',
         pass'.early => told'[p.id] = pass'.lastDir /\ pass'.lastDir \in Directions,
         ~pass'.early => told'[p.id] \in {None, Unknown},
         \A j \in 1..MaxPasses : j > minted /\ j # p.id => told'[j] = told[j]
  PROVE  WorkerInv'
<1>1. p.id \in 1..MaxPasses /\ minted \in 0..MaxPasses /\ MaxPasses \in Nat
  BY PassConstants DEF KeptInv, WorkerInv, WorkerType
<1>2. minted' \in 0..MaxPasses /\ p.id <= minted' /\ minted <= minted'
  BY <1>1
<1>3. TrackOK(track)' /\ track' \in Tracks
  BY DEF WorkerInv, TrackOK, Earned
<1>4. WorkerType'
  BY <1>2, <1>3 DEF WorkerType, ToldStep, ToldTyped, ToldType
<1>5. LastSentIsTold'
  BY DEF LastSentIsTold
<1>6. \A i \in 1..MaxPasses : i > minted' => told'[i] = None
  BY <1>1, <1>2 DEF WorkerInv, PassInv
<1>7. PassInv'
  BY <1>1, <1>2, <1>6 DEF PassInv
<1> QED BY <1>3, <1>4, <1>5, <1>7 DEF WorkerInv

\* A kept read preserves the invariant and tells the sink what it may
\* (DetectionWorker.cpp:400-467).
LEMMA KeptStep ==
  ASSUME WorkerInv, NEW y \in Texts, Kept(y)
  PROVE  WorkerInv' /\ ToldStep
<1>1. PICK found, p, flushed : /\ found = PassIdFor(Pruned(pass), y)
                               /\ p = Flushed(found, y)
                               /\ flushed = FlushedHeld(found, y)
  OBVIOUS
<1>2. /\ left > 0 /\ found.id <= MaxPasses
      /\ \/ KeptHold(p, flushed) \/ KeptAnnounce(p, flushed)
         \/ KeptCorrect(p, flushed) \/ KeptSuppress(p, flushed)
      /\ left' = left - 1
      /\ minted' = IF found.id > minted THEN found.id ELSE minted
      /\ track' = track
  BY <1>1 DEF Kept
<1>3. KeptInv(p, flushed, y)
  BY <1>1, <1>2, KeptFacts
<1>4. p.id = found.id
  <2>1. pass \in Passes /\ minted \in 0..MaxPasses /\ 0 \in Nat /\ pass.id <= minted
    BY DEF WorkerInv, WorkerType, PassInv
  <2>2. Pruned(pass) \in Passes /\ Pruned(pass).id <= minted
    BY <2>1, AgeFacts, NoPassType
  <2>3. found \in Passes
    BY <1>1, <1>2, <2>1, <2>2, PassIdForFacts
  <2> QED BY <1>1, <2>3, ReleasedFacts DEF Flushed
<1>5. left' \in 0..MaxReads
  BY <1>2, WorkerAssumption DEF WorkerInv, WorkerType
<1>6. Phys \in Directions /\ p \in Passes /\ p.id \in 1..MaxPasses /\ p.text = y
  BY <1>3, PhysType DEF WorkerInv, KeptInv
<1>7. minted' = IF p.id > minted THEN p.id ELSE minted
  BY <1>2, <1>4
<1>8. CASE KeptHold(p, flushed)
  <2>1. ToldStep /\ told'[p.id] = told[p.id]
        /\ \A j \in 1..MaxPasses : j > minted => told'[j] = told[j]
    BY <1>3, <1>8, KeptQuiet DEF KeptHold
  <2>2. track.count \in 0..MaxSamples
    BY DEF WorkerInv, WorkerType, Tracks
  <2> DEFINE w == [id |-> p.id, text |-> p.text]
             h == IF p.pending THEN p.since ELSE track.count
  <2>3. w \in [id : 0..MaxPasses, text : Texts \cup {NoText}] /\ h \in 0..MaxSamples
    BY <1>6, <2>2 DEF Passes
  <2>4. pass' = [p EXCEPT !.pending = TRUE, !.item = w, !.since = h]
    BY <1>8 DEF KeptHold, Hold
  <2>5. w = [id |-> p.id, text |-> p.text]
    OBVIOUS
  <2> HIDE DEF w, h
  <2>6. pass' \in Passes
    BY <1>6, <2>3, <2>4 DEF Passes
  <2>7. pass'.id = p.id /\ pass'.text = p.text /\ pass'.early = p.early /\ pass'.item = w
    BY <1>6, <2>4 DEF Passes
  <2>8. ~p.early
    BY <1>8 DEF KeptHold
  <2>9. HoldIsOfThisPass'
    BY <1>6, <2>5, <2>7, <2>8 DEF HoldIsOfThisPass
  <2>10. told'[p.id] \in {None, Unknown} /\ ~pass'.early
    BY <1>3, <2>1, <2>7, <2>8 DEF KeptInv
  <2>11. WorkerInv'
    BY <1>2, <1>3, <1>5, <1>6, <1>7, <2>1, <2>6, <2>7, <2>9, <2>10, KeptCloses
  <2> QED BY <2>1, <2>11
<1>9. CASE KeptAnnounce(p, flushed)
  <2>1. MaySend(p.id, Phys, FALSE) /\ ~p.early
    BY <1>3, <1>6, <1>9 DEF MaySend, KeptAnnounce, KeptInv
  <2>2. ToldStep /\ told'[p.id] = Phys
        /\ \A j \in 1..MaxPasses : j > minted /\ j # p.id => told'[j] = told[j]
    <3>1. ASSUME NEW dir, dir = Phys
          PROVE  ToldStep /\ told'[p.id] = dir
                 /\ \A j \in 1..MaxPasses : j > minted /\ j # p.id => told'[j] = told[j]
      <4>1. MaySend(p.id, dir, FALSE) /\ Emit(Append(flushed, Message(p.id, p.text, dir, FALSE)))
        BY <1>9, <2>1, <3>1 DEF KeptAnnounce
      <4> QED BY <1>3, <4>1, KeptSpeaks
    <3> QED BY <3>1
  <2>3. pass' = Announced(p, Phys)
    BY <1>9 DEF KeptAnnounce
  <2>4. pass' \in Passes /\ pass'.id = p.id /\ pass'.early = TRUE /\ pass'.lastDir = Phys
        /\ pass'.pending = FALSE /\ pass'.text = y
    BY <1>6, <2>3, AnnouncedFacts
  <2>5. HoldIsOfThisPass'
    BY <2>4 DEF HoldIsOfThisPass
  <2>6. WorkerInv'
    BY <1>2, <1>3, <1>5, <1>6, <1>7, <2>2, <2>4, <2>5, KeptCloses
  <2> QED BY <2>2, <2>6
<1>10. CASE KeptCorrect(p, flushed)
  <2>1. p.early /\ Phys # Unknown /\ Phys # p.lastDir
        /\ pass' = [p EXCEPT !.lastDir = Phys]
        /\ Emit(Append(flushed, Message(p.id, p.text, Phys, TRUE)))
    BY <1>10 DEF KeptCorrect
  <2>2. p.id = pass.id /\ pass.early /\ p.lastDir = pass.lastDir /\ ~p.pending
    BY <1>3, <2>1 DEF KeptInv
  <2>3. told[p.id] = p.lastDir /\ p.lastDir \in Directions
    BY <2>2 DEF WorkerInv, LastSentIsTold, PassInv
  <2>4. MaySend(p.id, Phys, TRUE)
    BY <1>6, <2>1, <2>3, PassConstants DEF MaySend
  <2>5. ToldStep /\ told'[p.id] = Phys
        /\ \A j \in 1..MaxPasses : j > minted /\ j # p.id => told'[j] = told[j]
    <3>1. ASSUME NEW dir, dir = Phys
          PROVE  ToldStep /\ told'[p.id] = dir
                 /\ \A j \in 1..MaxPasses : j > minted /\ j # p.id => told'[j] = told[j]
      <4>1. MaySend(p.id, dir, TRUE) /\ Emit(Append(flushed, Message(p.id, p.text, dir, TRUE)))
        BY <2>1, <2>4, <3>1
      <4> QED BY <1>3, <4>1, KeptSpeaks
    <3> QED BY <3>1
  <2>6. pass' \in Passes /\ pass'.id = p.id /\ pass'.early = p.early /\ pass'.lastDir = Phys
        /\ pass'.pending = p.pending /\ pass'.text = y
    BY <1>6, <2>1 DEF Passes
  <2>7. HoldIsOfThisPass'
    BY <2>2, <2>6 DEF HoldIsOfThisPass
  <2>8. pass'.early
    BY <2>1, <2>6
  <2>9. WorkerInv'
    BY <1>2, <1>3, <1>5, <1>6, <1>7, <2>5, <2>6, <2>7, <2>8, KeptCloses
  <2> QED BY <2>5, <2>9
<1>11. CASE KeptSuppress(p, flushed)
  <2>1. p.early /\ pass' = p /\ Emit(flushed)
    BY <1>11 DEF KeptSuppress
  <2>2. p.id = pass.id /\ pass.early /\ p.lastDir = pass.lastDir /\ ~p.pending
    BY <1>3, <2>1 DEF KeptInv
  <2>3. told[p.id] = p.lastDir /\ p.lastDir \in Directions
    BY <2>2 DEF WorkerInv, LastSentIsTold, PassInv
  <2>4. ToldStep /\ told'[p.id] = told[p.id]
        /\ \A j \in 1..MaxPasses : j > minted => told'[j] = told[j]
    BY <1>3, <2>1, KeptQuiet
  <2>5. HoldIsOfThisPass'
    BY <2>1, <2>2 DEF HoldIsOfThisPass
  <2>6. WorkerInv'
    BY <1>2, <1>3, <1>5, <1>6, <1>7, <2>1, <2>2, <2>3, <2>4, <2>5, KeptCloses
  <2> QED BY <2>4, <2>6
<1> QED BY <1>2, <1>8, <1>9, <1>10, <1>11

\* What a dropped read leaves alone.
DropFrame ==
  left' \in 0..MaxReads /\ minted' = minted /\ track' = track

\* ReadDropped, for a typed state.
LEMMA ReadDroppedFacts ==
  ASSUME WorkerInv, ReadDropped
  PROVE  DropFrame
BY WorkerAssumption DEF DropFrame, ReadDropped, WorkerInv, WorkerType

\* A dropped read that sends at most one message, for the pass of the gate,
\* and leaves the entry of a pass that is consistent, restores the invariant.
LEMMA DropCloses ==
  ASSUME WorkerInv, DropFrame, ToldStep, pass' \in Passes, pass'.id = pass.id, pass.id # 0,
         pass'.text = pass.text, HoldIsOfThisPass',
         pass'.early => told'[pass.id] = pass'.lastDir /\ pass'.lastDir \in Directions,
         ~pass'.early => told'[pass.id] \in {None, Unknown},
         \A j \in 1..MaxPasses : j # pass.id => told'[j] = told[j]
  PROVE  WorkerInv'
<1>1. TrackOK(track)' /\ track' \in Tracks
  BY DEF WorkerInv, TrackOK, Earned, DropFrame
<1>2. WorkerType'
  BY <1>1 DEF WorkerInv, WorkerType, DropFrame, ToldStep, ToldTyped, ToldType
<1>3. LastSentIsTold'
  BY DEF LastSentIsTold
<1>4. minted' = minted /\ pass.id <= minted /\ minted \in Nat
  BY DEF WorkerInv, WorkerType, PassInv, DropFrame
<1>5. \A i \in 1..MaxPasses : i > minted' => told'[i] = None
  BY <1>4 DEF WorkerInv, PassInv
<1>6. PassInv'
  BY <1>4, <1>5 DEF WorkerInv, PassInv
<1> QED BY <1>1, <1>2, <1>3, <1>6 DEF WorkerInv

\* A held announcement is of the gate's pass, which has no direction stored.
LEMMA HeldFacts ==
  ASSUME WorkerInv, pass.pending
  PROVE  /\ ~pass.early /\ pass.item.id = pass.id /\ pass.id # 0 /\ pass.id \in 1..MaxPasses
         /\ told[pass.id] \in {None, Unknown}
         /\ pass.item.text = pass.text /\ pass.text \in Texts
<1>1. ~pass.early /\ pass.item = [id |-> pass.id, text |-> pass.text] /\ pass.id # 0
  BY DEF WorkerInv, HoldIsOfThisPass
<1>2. pass.id \in 1..MaxPasses
  BY <1>1, PassConstants DEF WorkerInv, WorkerType, Passes
<1> QED BY <1>1, <1>2 DEF WorkerInv, PassInv

\* A message for the gate's pass.
LEMMA DropSpeaks ==
  ASSUME WorkerInv, NEW y \in Texts, NEW dir, NEW force, MaySend(pass.id, dir, force),
         Emit(<<Message(pass.id, y, dir, force)>>)
  PROVE  ToldStep /\ told'[pass.id] = dir
         /\ \A j \in 1..MaxPasses : j # pass.id => told'[j] = told[j]
<1>1. told \in ToldType
  BY DEF WorkerInv, WorkerType, ToldType
<1>2. ASSUME NEW i, i = pass.id
      PROVE  ToldStep /\ told'[i] = dir /\ \A j \in 1..MaxPasses : j # i => told'[j] = told[j]
  <2>1. MaySend(i, dir, force) /\ Emit(<<Message(i, y, dir, force)>>)
    BY <1>2
  <2> QED BY <1>1, <2>1, SendOne
<1> QED BY <1>2

\* Releasing what is held on a dropped read (DetectionWorker.cpp:361-375).
LEMMA DropReleaseStep ==
  ASSUME WorkerInv, NEW x \in Texts, DropRelease(x)
  PROVE  WorkerInv' /\ ToldStep /\ told'[pass.id] # None
<1>1. pass.pending /\ pass' = [Announced(pass, Phys) EXCEPT !.age = 0]
      /\ Emit(<<Message(pass.item.id, pass.item.text, Phys, FALSE)>>) /\ ReadDropped
  BY DEF DropRelease
<1>2. Phys \in Directions /\ pass \in Passes
  BY PhysType DEF WorkerInv, WorkerType
<1>3. /\ ~pass.early /\ pass.item.id = pass.id /\ pass.id # 0 /\ pass.id \in 1..MaxPasses
      /\ told[pass.id] \in {None, Unknown}
      /\ pass.item.text = pass.text /\ pass.text \in Texts
  BY <1>1, HeldFacts
<1>4. ToldStep /\ told'[pass.id] = Phys
      /\ \A j \in 1..MaxPasses : j # pass.id => told'[j] = told[j]
  <2>1. ASSUME NEW dir, dir = Phys
        PROVE  ToldStep /\ told'[pass.id] = dir
               /\ \A j \in 1..MaxPasses : j # pass.id => told'[j] = told[j]
    <3>1. MaySend(pass.id, dir, FALSE)
      BY <1>2, <1>3, <2>1 DEF MaySend
    <3>2. Emit(<<Message(pass.id, pass.text, dir, FALSE)>>)
      BY <1>1, <1>3, <2>1
    <3> QED BY <1>3, <3>1, <3>2, DropSpeaks
  <2> QED BY <2>1
<1> DEFINE q == Announced(pass, Phys)
<1>5. q \in Passes /\ q.id = pass.id /\ q.early = TRUE /\ q.lastDir = Phys /\ q.pending = FALSE
      /\ q.text = pass.text
  BY <1>2, AnnouncedFacts
<1>6. pass' = [q EXCEPT !.age = 0]
  BY <1>1
<1> HIDE DEF q
<1>7. pass' \in Passes /\ pass'.id = pass.id /\ pass'.early = TRUE /\ pass'.lastDir = Phys
      /\ pass'.pending = FALSE /\ pass'.text = pass.text
  BY <1>5, <1>6, PassConstants DEF Passes
<1>8. HoldIsOfThisPass'
  BY <1>7 DEF HoldIsOfThisPass
<1>9. DropFrame
  BY <1>1, ReadDroppedFacts
<1>10. WorkerInv'
  BY <1>2, <1>3, <1>4, <1>7, <1>8, <1>9, DropCloses
<1> QED BY <1>2, <1>4, <1>10, PassConstants

\* Flushing what is held for another vehicle (DetectionWorker.cpp:376-382).
LEMMA DropFlushStep ==
  ASSUME WorkerInv, NEW x \in Texts, DropFlush(x)
  PROVE  WorkerInv' /\ ToldStep /\ told'[pass.id] # None
<1>1. pass.pending /\ pass' = Released(pass)
      /\ Emit(<<Message(pass.item.id, pass.item.text, Unknown, FALSE)>>) /\ ReadDropped
  BY DEF DropFlush
<1>2. pass \in Passes
  BY DEF WorkerInv, WorkerType
<1>3. /\ ~pass.early /\ pass.item.id = pass.id /\ pass.id # 0 /\ pass.id \in 1..MaxPasses
      /\ told[pass.id] \in {None, Unknown}
      /\ pass.item.text = pass.text /\ pass.text \in Texts
  BY <1>1, HeldFacts
<1>4. MaySend(pass.id, Unknown, FALSE) /\ Emit(<<Message(pass.id, pass.text, Unknown, FALSE)>>)
  BY <1>1, <1>3 DEF MaySend, Directions
<1>5. ToldStep /\ told'[pass.id] = Unknown
      /\ \A j \in 1..MaxPasses : j # pass.id => told'[j] = told[j]
  BY <1>3, <1>4, DropSpeaks
<1>6. pass' \in Passes /\ pass'.id = pass.id /\ pass'.early = pass.early /\ pass'.pending = FALSE
      /\ pass'.text = pass.text
  BY <1>1, <1>2, ReleasedFacts
<1>7. HoldIsOfThisPass'
  BY <1>6 DEF HoldIsOfThisPass
<1>8. DropFrame /\ ~pass'.early
  BY <1>1, <1>3, <1>6, ReadDroppedFacts
<1>9. WorkerInv'
  BY <1>3, <1>5, <1>6, <1>7, <1>8, DropCloses
<1> QED BY <1>5, <1>9 DEF None, Unknown

\* Correcting an announcement on a dropped read (DetectionWorker.cpp:383-396).
LEMMA DropCorrectStep ==
  ASSUME WorkerInv, NEW x \in Texts, DropCorrect(x)
  PROVE  WorkerInv' /\ ToldStep
<1>1. ~pass.pending /\ pass.early /\ Phys # Unknown /\ Phys # pass.lastDir
      /\ pass' = [pass EXCEPT !.lastDir = Phys, !.age = 0]
      /\ Emit(<<Message(pass.id, x, Phys, TRUE)>>) /\ ReadDropped
  BY DEF DropCorrect
<1>2. Phys \in Directions /\ pass \in Passes
  BY PhysType DEF WorkerInv, WorkerType
<1>3. pass.id # 0 /\ told[pass.id] = pass.lastDir /\ pass.lastDir \in Directions
  BY <1>1 DEF WorkerInv, PassInv, LastSentIsTold
<1>4. pass.id \in 1..MaxPasses
  BY <1>2, <1>3, PassConstants DEF Passes
<1>5. ToldStep /\ told'[pass.id] = Phys
      /\ \A j \in 1..MaxPasses : j # pass.id => told'[j] = told[j]
  <2>1. ASSUME NEW dir, dir = Phys
        PROVE  ToldStep /\ told'[pass.id] = dir
               /\ \A j \in 1..MaxPasses : j # pass.id => told'[j] = told[j]
    <3>1. MaySend(pass.id, dir, TRUE)
      BY <1>1, <1>2, <1>3, <1>4, <2>1, PassConstants DEF MaySend
    <3>2. Emit(<<Message(pass.id, x, dir, TRUE)>>)
      BY <1>1, <2>1
    <3> QED BY <3>1, <3>2, DropSpeaks
  <2> QED BY <2>1
<1>6. pass' \in Passes /\ pass'.id = pass.id /\ pass'.early = pass.early /\ pass'.lastDir = Phys
      /\ pass'.pending = pass.pending /\ pass'.text = pass.text
  BY <1>1, <1>2, PassConstants DEF Passes
<1>7. HoldIsOfThisPass'
  BY <1>1, <1>6 DEF HoldIsOfThisPass
<1>8. DropFrame /\ pass'.early
  BY <1>1, <1>6, ReadDroppedFacts
<1>9. WorkerInv'
  BY <1>2, <1>3, <1>5, <1>6, <1>7, <1>8, DropCloses
<1> QED BY <1>5, <1>9

\* A step that sends nothing, makes no pass and leaves the entry as it is, but
\* for its age, or removes it.
LEMMA QuietCloses ==
  ASSUME WorkerInv, sent' = <<>>, told' = told, minted' = minted, left' \in 0..MaxReads,
         TrackOK(track'), pass' \in Passes,
         \/ pass' = NoPass
         \/ /\ pass'.id = pass.id /\ pass'.text = pass.text /\ pass'.early = pass.early
            /\ pass'.lastDir = pass.lastDir
            /\ pass'.pending = pass.pending /\ pass'.item = pass.item
  PROVE  WorkerInv' /\ ToldStep
<1>1. told \in ToldType /\ minted \in 0..MaxPasses
  BY DEF WorkerInv, WorkerType, ToldType
<1>2. ToldStep
  BY <1>1, SendNone
<1>3. WorkerType'
  BY <1>1, <1>2 DEF WorkerType, TrackOK, ToldStep, ToldTyped, ToldType
<1>4. TrackOK(track)'
  BY DEF TrackOK, Earned
<1>5. CASE pass' = NoPass
  <2>1. pass'.id = 0 /\ ~pass'.early /\ ~pass'.pending
    BY <1>5, NoPassType
  <2>2. HoldIsOfThisPass' /\ LastSentIsTold'
    BY <2>1 DEF HoldIsOfThisPass, LastSentIsTold
  <2>3. PassInv'
    BY <1>1, <2>1 DEF WorkerInv, PassInv
  <2> QED BY <1>2, <1>3, <1>4, <2>2, <2>3 DEF WorkerInv
<1>6. CASE pass' # NoPass
  <2>1. /\ pass'.id = pass.id /\ pass'.text = pass.text /\ pass'.early = pass.early
        /\ pass'.lastDir = pass.lastDir /\ pass'.pending = pass.pending /\ pass'.item = pass.item
    BY <1>6
  <2>2. HoldIsOfThisPass'
    BY <2>1, Zenon DEF WorkerInv, HoldIsOfThisPass
  <2>3. LastSentIsTold'
    BY <2>1 DEF WorkerInv, LastSentIsTold
  <2>4. PassInv'
    BY <2>1 DEF WorkerInv, PassInv
  <2> QED BY <1>2, <1>3, <1>4, <2>2, <2>3, <2>4 DEF WorkerInv
<1> QED BY <1>5, <1>6

\* Every step preserves the invariant and tells the sink what it may.
LEMMA WorkerStep ==
  ASSUME WorkerInv, [Next]_vars
  PROVE  WorkerInv' /\ (ToldStep \/ UNCHANGED vars)
<1>1. pass \in Passes /\ TrackOK(track) /\ told \in ToldType /\ left \in 0..MaxReads /\ 0 \in Nat
  BY DEF WorkerInv, WorkerType, ToldType
<1>2. ASSUME NEW d \in Gaps, NEW n \in 1..MaxReads, Frame(d, n)
      PROVE  WorkerInv' /\ ToldStep
  <2>1. d \in Nat /\ left' \in 0..MaxReads
    BY <1>2, WorkerAssumption DEF Frame
  <2>2. pass' = PassElapse(pass, d) /\ sent' = <<>> /\ told' = told /\ minted' = minted
    BY <1>2 DEF Frame, Silence
  <2>3. TrackOK(track')
    BY <1>1, <1>2, <2>1, ElapseOK, UpdatesOK DEF Frame
  <2>4. /\ pass' \in Passes
        /\ \/ pass' = NoPass
           \/ /\ pass'.id = pass.id /\ pass'.text = pass.text /\ pass'.early = pass.early
              /\ pass'.lastDir = pass.lastDir
              /\ pass'.pending = pass.pending /\ pass'.item = pass.item
    BY <1>1, <2>1, <2>2, AgeFacts
  <2> QED BY <2>1, <2>2, <2>3, <2>4, QuietCloses
<1>3. ASSUME NEW d \in OtherGaps, OtherGate(d)
      PROVE  WorkerInv' /\ ToldStep
  <2>1. d \in Nat /\ left' \in 0..MaxReads
    BY <1>1, <1>3, WorkerAssumption DEF OtherGate
  <2>2. pass' = Pruned(PassElapse(pass, d)) /\ sent' = <<>> /\ told' = told /\ minted' = minted
    BY <1>3 DEF OtherGate, Silence
  <2>3. TrackOK(track')
    BY <1>1, <1>3, <2>1, ElapseOK DEF OtherGate
  <2>4. /\ pass' \in Passes
        /\ \/ pass' = NoPass
           \/ /\ pass'.id = pass.id /\ pass'.text = pass.text /\ pass'.early = pass.early
              /\ pass'.lastDir = pass.lastDir
              /\ pass'.pending = pass.pending /\ pass'.item = pass.item
    BY <1>1, <2>1, <2>2, AgeFacts
  <2> QED BY <2>1, <2>2, <2>3, <2>4, QuietCloses
<1>4. ASSUME NEW x \in Texts, DropWait(x) \/ DropNothing(x)
      PROVE  WorkerInv' /\ ToldStep
  <2>1. Emit(<<>>) /\ pass' = pass /\ ReadDropped
    BY <1>4 DEF DropWait, DropNothing
  <2>2. sent' = <<>> /\ told' = told
    BY <1>1, <2>1, EmitNone
  <2>3. left' \in 0..MaxReads /\ minted' = minted /\ track' = track
    BY <2>1, ReadDroppedFacts DEF DropFrame
  <2>4. TrackOK(track') /\ pass' \in Passes
    BY <1>1, <2>1, <2>3
  <2> QED BY <2>1, <2>2, <2>3, <2>4, QuietCloses
<1>5. ASSUME UNCHANGED vars
      PROVE  WorkerInv'
  <2>1. track' = track /\ pass' = pass /\ left' = left /\ minted' = minted
        /\ sent' = sent /\ told' = told
    BY <1>5 DEF vars
  <2>2. WorkerType' /\ TrackOK(track)'
    BY <2>1 DEF WorkerInv, WorkerType, TrackOK, Earned
  <2>3. HoldIsOfThisPass'
    BY <2>1, Zenon DEF WorkerInv, HoldIsOfThisPass
  <2>4. LastSentIsTold' /\ PassInv'
    BY <2>1 DEF WorkerInv, LastSentIsTold, PassInv
  <2> QED BY <2>2, <2>3, <2>4 DEF WorkerInv
<1> QED BY <1>2, <1>3, <1>4, <1>5, KeptStep, DropReleaseStep, DropFlushStep, DropCorrectStep DEF Next

----------------------------------------------------------------------------
(***************************************************************************)
(* The sender and the receiver.  What the receiver has under a pass id is  *)
(* what was last told of the pass, but for an announcement which the       *)
(* cooldown dropped.                                                       *)
(***************************************************************************)
SenderType ==
  /\ cooled \in [Texts -> 0..SendCooldown]
  /\ rows \in [1..MaxPasses -> Directions \cup {None}]
  /\ dropped \subseteq 1..MaxPasses

RowsFollow ==
  \A i \in 1..MaxPasses :
    rows[i] = told[i] \/ (i \in dropped /\ rows[i] \in {None, Unknown})

IInv == WorkerInv /\ SenderType /\ RowsFollow

RowKeeps ==
  \A i \in DOMAIN rows : rows[i] \in {Approaching, Receding} => rows'[i] # Unknown

CorrectionTells ==
  \A k \in DOMAIN sent' :
    sent'[k].force =>
      LET i == sent'[k].id IN
      /\ told[i] # None /\ rows[i] # sent'[k].dir /\ rows'[i] = sent'[k].dir
      /\ rows[i] = None => i \in dropped

\* Every step gives the sender what is sent, or time passes.
LEMMA NextSends ==
  ASSUME Next
  PROVE  Store(sent') \/ \E d \in Gaps \cup OtherGaps : Silence(d)
<1>1. ASSUME NEW msgs, Emit(msgs)
      PROVE  Store(sent')
  BY <1>1 DEF Emit, Tell
<1>2. ASSUME NEW y \in Texts, Kept(y)
      PROVE  Store(sent')
  <2>1. PICK p, flushed : \/ KeptHold(p, flushed) \/ KeptAnnounce(p, flushed)
                          \/ KeptCorrect(p, flushed) \/ KeptSuppress(p, flushed)
    BY <1>2 DEF Kept
  <2> QED BY <1>1, <2>1 DEF KeptHold, KeptAnnounce, KeptCorrect, KeptSuppress
<1>3. ASSUME NEW x \in Texts,
             \/ DropRelease(x) \/ DropWait(x) \/ DropFlush(x) \/ DropCorrect(x) \/ DropNothing(x)
      PROVE  Store(sent')
  BY <1>1, <1>3 DEF DropRelease, DropWait, DropFlush, DropCorrect, DropNothing
<1> QED BY <1>2, <1>3 DEF Next, Frame, OtherGate

\* A message of a pass that goes through sets its row to what is told; one that
\* does not is an ordinary one, of a pass with no direction told
\* (PlateSender.cpp:75-87, 156).
LEMMA StoreStep ==
  ASSUME IInv, ToldStep, Store(sent')
  PROVE  SenderType' /\ RowsFollow' /\ RowKeeps /\ CorrectionTells
<1> DEFINE through == {k \in DOMAIN sent' : LetThrough(sent'[k])}
<1>1. /\ cooled' = [x \in Texts |-> IF \E k \in through : ~sent'[k].force /\ sent'[k].text = x
                                    THEN 0 ELSE cooled[x]]
      /\ rows' = [i \in 1..MaxPasses |-> IF \E k \in through : sent'[k].id = i
                                         THEN told'[i] ELSE rows[i]]
      /\ dropped' = (dropped \ {sent'[k].id : k \in through})
                      \cup {sent'[k].id : k \in DOMAIN sent' \ through}
  BY DEF Store
<1>2. /\ through \subseteq DOMAIN sent'
      /\ \A k \in DOMAIN sent' : sent'[k].force => k \in through
  BY DEF LetThrough
<1>3. /\ told' \in ToldType /\ ToldKeeps /\ told \in ToldType
      /\ \A k \in DOMAIN sent' :
           /\ sent'[k] \in Messages /\ told'[sent'[k].id] = sent'[k].dir
           /\ MaySend(sent'[k].id, sent'[k].dir, sent'[k].force)
      /\ \A j \in 1..MaxPasses : (\A k \in DOMAIN sent' : sent'[k].id # j) => told'[j] = told[j]
  BY DEF ToldStep, ToldTyped, Allowed, IInv, WorkerInv, WorkerType, ToldType
<1> HIDE DEF through
<1>4. SendCooldown \in Nat
  BY WorkerAssumption
<1>5. SenderType'
  <2>1. cooled' \in [Texts -> 0..SendCooldown]
    BY <1>1, <1>4 DEF IInv, SenderType
  <2>2. rows' \in [1..MaxPasses -> Directions \cup {None}]
    BY <1>1, <1>3 DEF IInv, SenderType, ToldType
  <2>3. dropped' \subseteq 1..MaxPasses
    BY <1>1, <1>2, <1>3 DEF IInv, SenderType, Messages
  <2> QED BY <2>1, <2>2, <2>3 DEF SenderType
<1>6. ASSUME NEW i \in 1..MaxPasses
      PROVE  /\ rows'[i] = told'[i] \/ (i \in dropped' /\ rows'[i] \in {None, Unknown})
             /\ rows[i] \in {Approaching, Receding} => rows'[i] # Unknown
  <2>0. rows[i] = told[i] \/ (i \in dropped /\ rows[i] \in {None, Unknown})
    BY DEF IInv, RowsFollow
  <2>1. CASE \E k \in through : sent'[k].id = i
    <3>1. rows'[i] = told'[i]
      BY <1>1, <2>1
    <3> QED BY <1>3, <2>0, <3>1 DEF ToldKeeps, ToldType, None, Unknown, Approaching, Receding
  <2>2. CASE (\A k \in through : sent'[k].id # i) /\ \E k \in DOMAIN sent' : sent'[k].id = i
    <3>1. PICK k \in DOMAIN sent' : sent'[k].id = i
      BY <2>2
    <3>2. k \notin through /\ rows'[i] = rows[i]
      BY <1>1, <2>2, <3>1
    <3>3. ~sent'[k].force
      BY <1>2, <3>2
    <3>4. told[i] \in {None, Unknown}
      BY <1>3, <3>1, <3>3 DEF MaySend
    <3>5. i \in dropped'
      BY <1>1, <3>1, <3>2
    <3> QED BY <2>0, <3>2, <3>4, <3>5 DEF None, Unknown, Approaching, Receding
  <2>3. CASE \A k \in DOMAIN sent' : sent'[k].id # i
    <3>1. told'[i] = told[i] /\ rows'[i] = rows[i] /\ (i \in dropped => i \in dropped')
      BY <1>1, <1>2, <1>3, <2>3
    <3> QED BY <2>0, <3>1 DEF Unknown, Approaching, Receding
  <2> QED BY <2>1, <2>2, <2>3
<1>7. RowsFollow' /\ RowKeeps
  BY <1>6 DEF RowsFollow, RowKeeps, IInv, SenderType
<1>8. CorrectionTells
  <2>1. SUFFICES ASSUME NEW k \in DOMAIN sent', sent'[k].force, NEW i, i = sent'[k].id
                 PROVE  /\ told[i] # None /\ rows[i] # sent'[k].dir /\ rows'[i] = sent'[k].dir
                        /\ rows[i] = None => i \in dropped
    BY DEF CorrectionTells
  <2>2. /\ i \in 1..MaxPasses /\ sent'[k].dir # Unknown /\ told[i] \notin {None, sent'[k].dir}
        /\ told'[i] = sent'[k].dir /\ sent'[k].dir \in Directions
    BY <1>3, <2>1 DEF MaySend
  <2>3. rows'[i] = told'[i]
    BY <1>1, <1>2, <2>1, <2>2
  <2>4. rows[i] = told[i] \/ (i \in dropped /\ rows[i] \in {None, Unknown})
    BY <2>2 DEF IInv, RowsFollow
  <2> QED BY <2>2, <2>3, <2>4, PassConstants
<1> QED BY <1>5, <1>7, <1>8

\* Time starts no cooldown and stores nothing.
LEMMA SilenceStep ==
  ASSUME IInv, NEW d \in Gaps \cup OtherGaps, Silence(d)
  PROVE  SenderType' /\ RowsFollow' /\ RowKeeps /\ CorrectionTells
<1>1. /\ cooled' = [x \in Texts |-> AtMost(SendCooldown, cooled[x] + d)]
      /\ sent' = <<>> /\ told' = told /\ rows' = rows /\ dropped' = dropped
  BY DEF Silence
<1>2. ASSUME NEW x \in Texts
      PROVE  AtMost(SendCooldown, cooled[x] + d) \in 0..SendCooldown
  <2>1. SendCooldown \in Nat /\ d \in Nat /\ cooled[x] \in 0..SendCooldown
    BY WorkerAssumption DEF IInv, SenderType
  <2>2. cooled[x] + d \in Nat
    BY <2>1
  <2> QED BY <2>1, <2>2, AtMostFacts
<1>3. SenderType' /\ RowsFollow'
  BY <1>1, <1>2 DEF IInv, SenderType, RowsFollow
<1>4. RowKeeps
  BY <1>1 DEF RowKeeps, Unknown, Approaching, Receding
<1>5. CorrectionTells
  <2>1. DOMAIN sent' = {}
    BY <1>1
  <2> QED BY <2>1 DEF CorrectionTells
<1> QED BY <1>3, <1>4, <1>5

\* The initial state satisfies the inductive invariant.
LEMMA InitIInv == Init => IInv
<1> SUFFICES ASSUME Init PROVE IInv
  OBVIOUS
<1>1. SendCooldown \in Nat
  BY WorkerAssumption
<1>2. SenderType /\ RowsFollow
  BY <1>1 DEF Init, SenderType, RowsFollow
<1> QED BY <1>2, InitWorker DEF IInv

\* Every step preserves the invariant, keeps the rows and corrects them rightly.
LEMMA NextStep ==
  ASSUME IInv, [Next]_vars
  PROVE  IInv' /\ ((RowKeeps /\ CorrectionTells) \/ UNCHANGED vars)
<1>1. WorkerInv' /\ (ToldStep \/ UNCHANGED vars)
  BY WorkerStep DEF IInv
<1>2. CASE UNCHANGED vars
  <2>1. cooled' = cooled /\ rows' = rows /\ dropped' = dropped /\ told' = told
    BY <1>2 DEF vars
  <2> QED BY <1>1, <1>2, <2>1 DEF IInv, SenderType, RowsFollow
<1>3. CASE Next /\ ToldStep
  <2>1. Store(sent') \/ \E d \in Gaps \cup OtherGaps : Silence(d)
    BY <1>3, NextSends
  <2>2. SenderType' /\ RowsFollow' /\ RowKeeps /\ CorrectionTells
    BY <1>3, <2>1, StoreStep, SilenceStep
  <2> QED BY <1>1, <2>2 DEF IInv
<1> QED BY <1>1, <1>2, <1>3

\* The inductive invariant holds in every state the worker reaches.
THEOREM Invariance == Spec => []IInv
<1>1. IInv /\ [Next]_vars => IInv'
  BY NextStep
<1> QED BY InitIInv, <1>1, PTL DEF Spec

\* Every reachable state is typed: an entry of passes_ is as PassState says.
THEOREM TypeCorrect == Spec => []TypeOK
<1>1. IInv => TypeOK
  BY DEF IInv, WorkerInv, WorkerType, SenderType, TypeOK
<1> QED BY Invariance, <1>1, PTL

\* Whatever is held is the announcement of the pass the gate is in, not yet
\* announced, for every interleaving of vehicles, gaps and prunings.
THEOREM HoldSafety == Spec => []HoldIsOfThisPass
<1>1. IInv => HoldIsOfThisPass
  BY DEF IInv, WorkerInv
<1> QED BY Invariance, <1>1, PTL

\* lastSentDir is the direction the receiver has stored for an announced pass,
\* unless the sender's cooldown dropped the announcement.
THEOREM StoredSafety == Spec => []LastSentIsStored
<1>1. IInv => LastSentIsStored
  <2> SUFFICES ASSUME IInv, pass.early
               PROVE  \/ rows[pass.id] = pass.lastDir
                      \/ pass.id \in dropped /\ rows[pass.id] \in {None, Unknown}
    BY DEF LastSentIsStored
  <2>1. pass.id \in 1..MaxPasses
    BY PassConstants DEF IInv, WorkerInv, PassInv, WorkerType, Passes
  <2>2. told[pass.id] = pass.lastDir
    BY DEF IInv, WorkerInv, LastSentIsTold
  <2> QED BY <2>1, <2>2 DEF IInv, RowsFollow
<1> QED BY Invariance, <1>1, PTL

\* A final direction was earned by a streak or at the cap, and is known.
THEOREM FinalSafety == Spec => []FinalIsEarned
<1>1. IInv => FinalIsEarned
  BY DEF IInv, WorkerInv, TrackOK, Earned, FinalIsEarned
<1> QED BY Invariance, <1>1, PTL

\* No step replaces a stored direction by unknown.
THEOREM RowSafety == Spec => RowKeepsDirection
<1>1. IInv /\ [Next]_vars => [RowKeeps]_vars
  BY NextStep
<1>2. IInv /\ [Next]_vars =>
        [\A i \in DOMAIN rows : rows[i] \in {Approaching, Receding} => rows'[i] # Unknown]_vars
  BY <1>1 DEF RowKeeps
<1> QED BY Invariance, <1>2, PTL DEF Spec, RowKeepsDirection

\* Every forced message is for an announced pass, arrives, and changes its row, or
\* makes the row that the cooldown had kept from being made.
THEOREM CorrectionSafety == Spec => CorrectionChangesRow
<1>1. IInv /\ [Next]_vars => [CorrectionTells]_vars
  BY NextStep
<1>2. IInv /\ [Next]_vars =>
        [\A k \in DOMAIN sent' :
           sent'[k].force =>
             LET i == sent'[k].id IN
             /\ told[i] # None /\ rows[i] # sent'[k].dir /\ rows'[i] = sent'[k].dir
             /\ rows[i] = None => i \in dropped]_vars
  BY <1>1 DEF CorrectionTells
<1> QED BY Invariance, <1>2, PTL DEF Spec, CorrectionChangesRow

----------------------------------------------------------------------------
(***************************************************************************)
(* What a step may not do to a final direction and to a held announcement. *)
(***************************************************************************)

\* Feeding a track that does not start afresh (DirectionEstimator::update).
LEMMA UpdateKeepsFinal ==
  ASSUME NEW t, TrackOK(t), ~StartsAfresh(t), NEW u \in Updates(t)
  PROVE  /\ t.locked => u.locked /\ u.reported = t.reported
         /\ ~t.locked /\ u.locked /\ u.reported # t.reported =>
              t.reported = Unknown \/ u.agree >= ConfirmAgreeing
<1> DEFINE r == Refresh(t)
<1>1. TrackOK(r)
  BY RefreshOK
<1>2. r.locked = t.locked /\ r.reported = t.reported
  BY DEF Refresh, TrackOK, Tracks
<1>3. u \in IF r.locked THEN {Fed(r)} ELSE {Fed(Judge(Sample(r), v)) : v \in Verdicts(Sample(r))}
  BY DEF Updates
<1> HIDE DEF r
<1>4. CASE t.locked
  BY <1>1, <1>2, <1>3, <1>4, FedOK
<1>5. CASE ~t.locked
  <2> DEFINE w == Sample(r)
  <2>1. PICK v \in Verdicts(w) : u = Fed(Judge(w, v))
    BY <1>2, <1>3, <1>5
  <2>2. TrackOK(w) /\ ~w.locked /\ w.reported = t.reported /\ v \in Directions
    BY <1>1, <1>2, <1>5, <2>1, SampleOK DEF Sample, TrackOK, Tracks, Verdicts, Directions
  <2> HIDE DEF w
  <2>3. TrackOK(Judge(w, v))
    BY <2>2, JudgeOK
  <2>4. /\ u.locked = Judge(w, v).locked /\ u.reported = Judge(w, v).reported
        /\ u.agree = Judge(w, v).agree
    BY <2>1, <2>3, FedOK
  <2>5. Judge(w, v).locked /\ Judge(w, v).reported # w.reported =>
          w.reported = Unknown \/ Judge(w, v).agree >= ConfirmAgreeing
    <3>1. CASE v = Unknown
      BY <3>1 DEF Judge
    <3>2. CASE v # Unknown
      <4> DEFINE agree == IF v = w.pendingDir THEN w.agree + 1 ELSE 1
                 final == agree >= ConfirmAgreeing \/ w.count >= ConfirmSightings
                 keep  == agree < ConfirmAgreeing /\ w.count >= ConfirmSightings
                            /\ w.reported # Unknown
                 dir   == IF keep THEN w.reported ELSE v
      <4>1. Judge(w, v) = [w EXCEPT !.pendingDir = v, !.agree = agree, !.locked = final,
                                    !.decided = 0, !.reported = dir]
        BY <3>2 DEF Judge
      <4>2. agree \in Nat /\ ConfirmAgreeing \in Nat
        BY <2>2, TrackAssumption DEF TrackOK, Tracks
      <4>3. final /\ dir # w.reported => w.reported = Unknown \/ agree >= ConfirmAgreeing
        BY <4>2
      <4> HIDE DEF agree, final, dir
      <4>4. /\ Judge(w, v).agree = agree /\ Judge(w, v).locked = final
            /\ Judge(w, v).reported = dir
        BY <2>2, <4>1 DEF TrackOK, Tracks
      <4> QED BY <4>3, <4>4
    <3> QED BY <3>1, <3>2
  <2> QED BY <1>5, <2>2, <2>4, <2>5
<1> QED BY <1>4, <1>5

\* Something was held for another vehicle.
Tells(flushed) == flushed # <<>>

\* What was held for another vehicle is told to the sink with the message of this one.
LEMMA KeptTells ==
  ASSUME WorkerInv, NEW y, NEW p, NEW flushed, KeptInv(p, flushed, y), NEW dir, NEW force,
         MaySend(p.id, dir, force), Emit(Append(flushed, Message(p.id, p.text, dir, force))),
         Tells(flushed)
  PROVE  told'[p.id] = dir /\ told'[pass.id] = Unknown
<1>1. told \in ToldType
  BY DEF WorkerInv, WorkerType, ToldType
<1>2. /\ flushed = <<Message(pass.id, pass.text, Unknown, FALSE)>>
      /\ pass.id \in 1..MaxPasses /\ pass.id # p.id /\ told[pass.id] \in {None, Unknown}
      /\ pass.text \in Texts /\ p.text = y /\ y \in Texts
  BY DEF KeptInv, Tells
<1>3. MaySend(pass.id, Unknown, FALSE)
  BY <1>2 DEF MaySend, Directions
<1>4. Emit(<<Message(pass.id, pass.text, Unknown, FALSE), Message(p.id, p.text, dir, force)>>)
  BY <1>2, AppendPair, Zenon
<1>5. ASSUME NEW h, h = pass.id, NEW i, i = p.id
      PROVE  told'[i] = dir /\ told'[h] = Unknown
  <2>1. MaySend(h, Unknown, FALSE) /\ MaySend(i, dir, force) /\ h # i
        /\ Emit(<<Message(h, pass.text, Unknown, FALSE), Message(i, y, dir, force)>>)
    BY <1>2, <1>3, <1>4, <1>5
  <2> QED BY <1>1, <1>2, <2>1, SendTwo
<1> QED BY <1>5

\* Which announcement was held, and what has become of it: it is held still, or
\* its pass has been announced, or the gate was quiet.
HeldKept ==
  pass.pending => \/ pass'.pending /\ pass'.item.id = pass.item.id
                  \/ told'[pass.item.id] # None
                  \/ Fresh(pass) \/ pass'.id = 0

\* The entry that serves a kept read keeps what is held, whether the read opens a
\* pass or goes on with the current one.
LEMMA EntryFacts ==
  ASSUME WorkerInv, NEW y \in Texts, NEW found, found = PassIdFor(pass, y), found.id <= MaxPasses
  PROVE  /\ found \in Passes /\ found.pending = pass.pending /\ found.item = pass.item
         /\ \/ NewPass(pass, y)
            \/ found.id = pass.id /\ Same(pass.text, y) /\ ~NewPass(pass, y)
<1>1. pass \in Passes /\ minted \in 0..MaxPasses /\ pass.id <= minted
  BY DEF WorkerInv, WorkerType, PassInv
<1>2. ASSUME NEW p \in Passes, p = pass
      PROVE  /\ found \in Passes /\ found.pending = p.pending /\ found.item = p.item
             /\ \/ NewPass(p, y)
                \/ found.id = p.id /\ Same(p.text, y) /\ ~NewPass(p, y)
  <2>1. found = PassIdFor(p, y) /\ found.id <= MaxPasses /\ p.id <= minted /\ y \in Texts
    BY <1>1, <1>2
  <2>2. /\ found \in Passes /\ found.id \in 1..MaxPasses /\ found.text = y
        /\ found.pending = p.pending /\ found.item = p.item
        /\ \/ found.id = minted + 1 /\ found.early = FALSE /\ NewPass(p, y)
           \/ /\ found.id = p.id /\ found.early = p.early /\ found.lastDir = p.lastDir
              /\ Same(p.text, y) /\ ~NewPass(p, y)
    BY <1>1, <2>1, PassIdForFacts
  <2> QED BY ONLY <2>2
<1> QED BY <1>1, <1>2

\* A kept read of another vehicle sends what is held, one of the same vehicle
\* holds on or announces (DetectionWorker.cpp:421-453).
LEMMA KeptHeld ==
  ASSUME WorkerInv, NEW y \in Texts, Kept(y)
  PROVE  HeldKept
<1> SUFFICES ASSUME pass.pending, ~Fresh(pass)
             PROVE  \/ pass'.pending /\ pass'.item.id = pass.id
                    \/ told'[pass.id] # None
  BY HeldFacts DEF HeldKept
<1>1. /\ pass \in Passes /\ minted \in 0..MaxPasses /\ pass.id <= minted
      /\ ~pass.early /\ pass.item = [id |-> pass.id, text |-> pass.text] /\ pass.id # 0
  BY DEF WorkerInv, WorkerType, PassInv, HoldIsOfThisPass
<1>2. Pruned(pass) = pass
  <2>1. pass.age <= 4 * PassGap /\ 4 * PassGap < PruneAfter /\ pass.age \in Nat
    BY <1>1, WorkerAssumption DEF Fresh, Passes
  <2>2. PruneAfter \in Nat /\ PassGap \in Nat
    BY WorkerAssumption
  <2>3. ~(pass.age > PruneAfter)
    BY <2>1, <2>2
  <2> QED BY <2>3 DEF Pruned
<1>3. PICK found, p, flushed : /\ found = PassIdFor(pass, y)
                               /\ p = Flushed(found, y)
                               /\ flushed = FlushedHeld(found, y)
  OBVIOUS
<1>4. /\ found.id <= MaxPasses
      /\ \/ KeptHold(p, flushed) \/ KeptAnnounce(p, flushed)
         \/ KeptCorrect(p, flushed) \/ KeptSuppress(p, flushed)
  BY <1>2, <1>3 DEF Kept
<1>5. KeptInv(p, flushed, y)
  BY <1>2, <1>3, <1>4, KeptFacts
<1>6. /\ found \in Passes /\ found.pending = pass.pending /\ found.item = pass.item
      /\ \/ NewPass(pass, y)
         \/ found.id = pass.id /\ Same(pass.text, y) /\ ~NewPass(pass, y)
  BY <1>3, <1>4, EntryFacts
<1>7. found.item.text = pass.text
  <2>1. found.item = [id |-> pass.id, text |-> pass.text]
    BY <1>1, <1>6, Zenon
  <2> QED BY <2>1
<1>8. Phys \in Directions
  BY PhysType DEF WorkerInv
<1>9. ASSUME KeptAnnounce(p, flushed)
      PROVE  told'[p.id] # None /\ (flushed # <<>> => told'[pass.id] = Unknown)
  <2>1. MaySend(p.id, Phys, FALSE)
    BY <1>5, <1>8, <1>9 DEF MaySend, KeptAnnounce, KeptInv
  <2>2. ASSUME NEW dir, dir = Phys
        PROVE  told'[p.id] = dir /\ (flushed # <<>> => told'[pass.id] = Unknown)
    <3>1. MaySend(p.id, dir, FALSE) /\ Emit(Append(flushed, Message(p.id, p.text, dir, FALSE)))
      BY <1>9, <2>1, <2>2 DEF KeptAnnounce
    <3>2. ToldStep /\ told'[p.id] = dir
          /\ \A j \in 1..MaxPasses : j > minted /\ j # p.id => told'[j] = told[j]
      BY <1>5, <3>1, KeptSpeaks
    <3>3. CASE flushed # <<>>
      <4>1. Tells(flushed)
        BY <3>3 DEF Tells
      <4>2. told'[p.id] = dir /\ told'[pass.id] = Unknown
        BY <1>5, <3>1, <4>1, KeptTells
      <4> QED BY <4>2
    <3> QED BY <3>2, <3>3
  <2> QED BY <1>8, <2>2, PassConstants
<1>10. CASE Same(pass.text, y)
  <2>1. ~Flushes(found, y) /\ found.id = pass.id
    BY <1>6, <1>7, <1>10 DEF Flushes, NewPass
  <2>2. p.id = pass.id
    BY <1>3, <2>1 DEF Flushed
  <2>3. KeptHold(p, flushed) \/ KeptAnnounce(p, flushed)
    BY <1>1, <1>4, <1>5 DEF KeptCorrect, KeptSuppress, KeptInv
  <2>4. CASE KeptHold(p, flushed)
    <3> DEFINE w == [id |-> p.id, text |-> p.text]
               h == IF p.pending THEN p.since ELSE track.count
    <3>1. pass' = [p EXCEPT !.pending = TRUE, !.item = w, !.since = h] /\ p \in Passes
      BY <1>5, <2>4 DEF KeptHold, Hold, KeptInv
    <3>2. w.id = p.id
      OBVIOUS
    <3> HIDE DEF w, h
    <3>3. pass'.pending = TRUE /\ pass'.item = w
      BY <3>1 DEF Passes
    <3>4. pass'.item.id = pass.id
      BY <2>2, <3>2, <3>3
    <3> QED BY <3>3, <3>4
  <2> QED BY <1>9, <2>2, <2>3, <2>4
<1>11. CASE ~Same(pass.text, y)
  <2>1. Flushes(found, y)
    BY <1>6, <1>7, <1>11 DEF Flushes
  <2>2. flushed = <<Message(found.item.id, found.item.text, Unknown, FALSE)>>
    BY <1>3, <2>1 DEF FlushedHeld
  <2>3. flushed # <<>>
    BY <2>2
  <2>4. ~p.early
    BY <1>5, <2>3 DEF KeptInv
  <2>5. KeptHold(p, flushed) \/ KeptAnnounce(p, flushed)
    BY <1>4, <2>4 DEF KeptCorrect, KeptSuppress
  <2>6. CASE KeptHold(p, flushed)
    BY <1>5, <2>3, <2>6, KeptQuiet DEF KeptHold, None, Unknown
  <2>7. CASE KeptAnnounce(p, flushed)
    BY <1>9, <2>3, <2>7 DEF None, Unknown
  <2> QED BY <2>5, <2>6, <2>7
<1> QED BY <1>10, <1>11

\* A held announcement stays, is sent, or falls to a gap, in every step.
LEMMA HeldStep ==
  ASSUME WorkerInv, [Next]_vars
  PROVE  HeldKept
<1> SUFFICES ASSUME pass.pending PROVE HeldKept
  BY DEF HeldKept
<1>1. pass \in Passes /\ pass.item.id = pass.id
  BY HeldFacts DEF WorkerInv, WorkerType
<1>2. ASSUME NEW d \in Gaps \cup OtherGaps,
             pass' = PassElapse(pass, d) \/ pass' = Pruned(PassElapse(pass, d))
      PROVE  HeldKept
  <2>1. d \in Nat
    BY WorkerAssumption
  <2>2. pass' = NoPass \/ (pass'.pending = pass.pending /\ pass'.item = pass.item)
    <3>1. /\ pass' \in Passes
          /\ \/ pass' = NoPass
             \/ /\ pass'.id = pass.id /\ pass'.text = pass.text
                /\ pass'.early = pass.early /\ pass'.lastDir = pass.lastDir
                /\ pass'.pending = pass.pending /\ pass'.item = pass.item
      <4>1. CASE pass' = PassElapse(pass, d)
        BY <1>1, <2>1, <4>1, AgeFacts
      <4>2. CASE pass' = Pruned(PassElapse(pass, d))
        BY <1>1, <2>1, <4>2, AgeFacts
      <4> QED BY <1>2, <4>1, <4>2
    <3> QED BY <3>1
  <2> QED BY <2>2, NoPassType DEF HeldKept
<1>3. ASSUME NEW x \in Texts, DropRelease(x) \/ DropFlush(x)
      PROVE  HeldKept
  BY <1>1, <1>3, DropReleaseStep, DropFlushStep DEF HeldKept
<1>4. ASSUME NEW x \in Texts, DropWait(x) \/ DropCorrect(x) \/ DropNothing(x) \/ UNCHANGED vars
      PROVE  HeldKept
  <2>1. CASE DropCorrect(x)
    BY <2>1 DEF DropCorrect
  <2>2. CASE pass' = pass
    BY <2>2 DEF HeldKept
  <2> QED BY <1>4, <2>1, <2>2 DEF DropWait, DropNothing, vars
<1>5. CASE UNCHANGED vars
  BY <1>5 DEF HeldKept, vars
<1> QED BY <1>2, <1>3, <1>4, <1>5, KeptHeld DEF Next, Frame, OtherGate

\* A frame of the same pass keeps what is final, and only a streak replaces a
\* direction that stands.
THEOREM FinalKept == Spec => FinalStays
<1> DEFINE A == \A d \in Gaps, n \in 1..MaxReads :
                  DirectionEnable /\ Frame(d, n) /\ ~StartsAfresh(Elapse(track, d)) =>
                    /\ track.locked => track'.locked /\ track'.reported = track.reported
                    /\ ~track.locked /\ track'.locked /\ track'.reported # track.reported =>
                         track.reported = Unknown \/ track'.agree >= ConfirmAgreeing
<1>1. IInv /\ [Next]_vars => A
  <2> SUFFICES ASSUME IInv, NEW d \in Gaps, NEW n \in 1..MaxReads, DirectionEnable,
                      Frame(d, n), ~StartsAfresh(Elapse(track, d))
               PROVE  /\ track.locked => track'.locked /\ track'.reported = track.reported
                      /\ ~track.locked /\ track'.locked /\ track'.reported # track.reported =>
                           track.reported = Unknown \/ track'.agree >= ConfirmAgreeing
    OBVIOUS
  <2>1. d \in Nat
    BY WorkerAssumption
  <2>2. track' \in Updates(Elapse(track, d))
    BY DEF Frame
  <2>3. /\ TrackOK(Elapse(track, d)) /\ Elapse(track, d).locked = track.locked
        /\ Elapse(track, d).reported = track.reported
    BY <2>1, ElapseOK DEF IInv, WorkerInv
  <2> QED BY <2>2, <2>3, UpdateKeepsFinal
<1>2. IInv /\ [Next]_vars => [A]_vars
  BY <1>1
<1> QED BY Invariance, <1>2, PTL DEF Spec, FinalStays

\* What is held is lost to a quiet gap or to pruning only.
THEOREM HeldSafety == Spec => HeldLostOnlyByGap
<1> DEFINE A == \A i \in 1..minted : Held(i) /\ ~Held(i)' /\ told'[i] = None
                                       => Fresh(pass) \/ pass'.id = 0
<1>1. IInv /\ [Next]_vars => [A]_vars
  BY HeldStep DEF IInv, HeldKept, Held
<1> QED BY Invariance, <1>1, PTL DEF Spec, HeldLostOnlyByGap

=============================================================================
