-------------------------- MODULE CameraWorkerProofs --------------------------
(* Proof, for any frame sizes, queue capacity, back-off times, frames and        *)
(* sessions, of the three safety properties of the camera worker: a session of   *)
(* the source is whole, the reference image fits the frame in hand and a video   *)
(* loses no frame.                                                               *)
EXTENDS CameraWorker, SequenceTheorems, TLAPS

-------------------------------------------------------------------------------
(* The inductive invariant                                                       *)

Flags ==
    /\ running \in BOOLEAN /\ detRunning \in BOOLEAN /\ errored \in BOOLEAN
    /\ finished \in BOOLEAN /\ source \in BOOLEAN /\ keep \in BOOLEAN
    /\ failed \in BOOLEAN /\ onColor \in BOOLEAN /\ manual \in BOOLEAN
    /\ stable \in BOOLEAN /\ connected \in BOOLEAN /\ firstFrame \in BOOLEAN

\* The supervisor and the source thread take turns: no source thread before the
\* launch and none after the join; in between there is a source, of a session
\* that was counted; and a callback is one of a thread inside run().
Phases ==
    /\ pc.app = "start" => pc.sup = "none"
    /\ pc.sup \in {"none", "create", "launch", "backoff", "done"} =>
           pc.src \in {"none", "exited"}
    /\ pc.sup = "reset" => pc.src = "exited"
    /\ pc.sup \in {"launch", "wait", "stop", "stopping", "join", "reset"} =>
           source /\ session \in 1..MaxSessions
    /\ pc.cb # "none" => pc.src \in {"loop", "end"}

Pictures ==
    /\ frame \in [primary : Sizes \cup {Empty}, secondary : Sizes \cup {Empty}]
    /\ lastSize \in Sizes \cup {Empty} /\ reference \in Sizes \cup {Empty}
    /\ status \in {"none", "up", "down"}

\* The frame a callback carries has an image, and the worker remembers the size
\* it last sent a reference image of, unless it is to send one anyway.
FrameInHand ==
    /\ pc.cb # "none" => frame.primary \in Sizes
    /\ firstFrame \/ reference = lastSize

WindowType ==
    window \in UNION {[1..n -> [session : 1..MaxSessions, size : Sizes]] : n \in 0..3}

\* Every frame of the callbacks is pushed at most once and taken at most once.
Counted ==
    /\ frames \in 0..MaxFrames /\ pushed \in Nat /\ taken \in Nat
    /\ pushed + (IF pc.cb = "none" THEN 0 ELSE 1) <= frames
    /\ queue \in Seq(1..pushed) /\ Len(queue) <= QueueCap
    /\ taken + Len(queue) <= pushed

Numbers ==
    /\ kind \in Kinds /\ mtx \in {"free", "sup", "app"}
    /\ delay \in BaseDelay..MaxDelay /\ session \in 0..MaxSessions

IInv ==
    /\ pc \in Labels /\ Flags /\ Numbers /\ Phases
    /\ Pictures /\ FrameInHand /\ ReferenceIsCurrent
    /\ WindowType /\ WindowOfOneSession /\ StatusAgrees
    /\ Counted /\ VideoLosesNothing

-------------------------------------------------------------------------------
(* Lemmas about the operators of the model                                       *)

\* Detection gets an image whenever the first of the two has one (onFrame).
LEMMA DetectGivesImage ==
    ASSUME NEW f, f.primary \in Sizes, f.secondary \in Sizes \cup {Empty}, NEW c \in BOOLEAN
    PROVE  Detect(f, FALSE, c) \in Sizes
  BY SizesAssumption DEF Detect, Evidence, Plain, OrElse, Empty

\* Every frame a source can deliver has a first image.
LEMMA FramesHaveImage ==
    ASSUME NEW f \in FrameSet
    PROVE  /\ f \in [primary : Sizes, secondary : Sizes \cup {Empty}]
           /\ f.primary \in Sizes /\ f.secondary \in Sizes \cup {Empty}
<1>1. (CHOOSE z \in Sizes : TRUE) \in Sizes
  BY SizesAssumption
<1> QED BY <1>1 DEF FrameSet

\* A frame number stays one when more frames are counted.
LEMMA NumbersGrow ==
    ASSUME NEW n \in Nat, NEW q \in Seq(1..n)
    PROVE  q \in Seq(1..(n + 1))
<1>1. \A i \in 1..Len(q) : q[i] \in 1..(n + 1)
  <2> TAKE i \in 1..Len(q)
  <2>1. q[i] \in 1..n
    BY ElementOfSeq
  <2> QED BY <2>1
<1>2. q \in [1..Len(q) -> 1..(n + 1)] /\ Len(q) \in Nat
  BY <1>1
<1> QED BY <1>2

\* The window after one more frame: at most three, the last of them the new one
\* and the others taken over.
LEMMA ShiftedWindow ==
    ASSUME WindowType, session \in 1..MaxSessions, frame.primary \in Sizes
    PROVE  /\ Shifted \in UNION {[1..n -> [session : 1..MaxSessions, size : Sizes]] : n \in 0..3}
           /\ WindowOfOneSession =>
                (pc.src \in {"start", "open", "loop"} =>
                     \A i \in 1..Len(Shifted) : Shifted[i].session = session)
<1> DEFINE new == [session |-> session, size |-> frame.primary]
           Seen == [session : 1..MaxSessions, size : Sizes]
<1>1. new \in Seen /\ new.session = session
  OBVIOUS
<1>2. PICK n \in 0..3 : window \in [1..n -> Seen]
  BY DEF WindowType
<1>3. Shifted = IF Len(window) < 2 THEN Append(window, new)
                ELSE <<window[Len(window) - 1], window[Len(window)], new>>
  BY DEF Shifted
<1> HIDE DEF new, Seen
<1>4. window \in Seq(Seen) /\ Len(window) = n
  BY <1>2
<1>5. CASE n < 2
  <2> DEFINE w == Append(window, new)
  <2>1. /\ w \in Seq(Seen) /\ Len(w) = n + 1 /\ w[n + 1] = new
        /\ \A i \in 1..n : w[i] = window[i]
    BY <1>1, <1>4, AppendProperties
  <2>2. Shifted = w
    BY <1>3, <1>4, <1>5
  <2> HIDE DEF w
  <2>3. w \in [1..(n + 1) -> Seen] /\ n + 1 \in 0..3
    BY <2>1, <1>5
  <2>4. ASSUME WindowOfOneSession, pc.src \in {"start", "open", "loop"}, NEW i \in 1..Len(w)
        PROVE  w[i].session = session
    <3>1. CASE i = n + 1
      BY <3>1, <2>1, <1>1
    <3>2. CASE i # n + 1
      <4>1. i \in 1..n
        BY <3>2, <2>1
      <4> QED BY <4>1, <2>1, <2>4, <1>4 DEF WindowOfOneSession
    <3> QED BY <3>1, <3>2
  <2> QED BY <2>2, <2>3, <2>4 DEF Seen
<1>6. CASE n >= 2
  <2>1. Shifted = <<window[n - 1], window[n], new>>
    BY <1>3, <1>4, <1>6
  <2>2. n - 1 \in 1..n /\ n \in 1..n /\ window[n - 1] \in Seen /\ window[n] \in Seen
    BY <1>2, <1>6
  <2>3. /\ <<window[n - 1], window[n], new>> \in [1..3 -> Seen]
        /\ Len(<<window[n - 1], window[n], new>>) = 3
    BY <1>1, <2>2
  <2> QED BY <2>1, <2>2, <2>3, <1>1, <1>4 DEF Seen, WindowOfOneSession
<1> QED BY <1>2, <1>5, <1>6

-------------------------------------------------------------------------------
(* The conjuncts of the invariant, each under a step                             *)

\* Every thread goes from one of its places to another.
LEMMA LabelsStep ==
    ASSUME pc \in Labels, [Next]_vars
    PROVE  pc' \in Labels
<1>1. CASE AppNext
  BY <1>1 DEF Labels, AppNext, Start, StopFlag, StopLock, StopUnlock, StopJoin,
     StopDetector
<1>2. CASE Command
  BY <1>2 DEF Labels, Command
<1>3. CASE SupNext
  <2>1. CASE SupExit
    BY <2>1 DEF Labels, SupExit
  <2>2. CASE SupCreate
    BY <2>2 DEF Labels, SupCreate
  <2>3. CASE SupLaunch
    BY <2>3 DEF Labels, SupLaunch
  <2>4. CASE SupWake
    BY <2>4 DEF Labels, SupWake
  <2>5. CASE SupStop
    BY <2>5 DEF Labels, SupStop
  <2>6. CASE SupUnlock
    BY <2>6 DEF Labels, SupUnlock
  <2>7. CASE SupJoin
    BY <2>7 DEF Labels, SupJoin
  <2>8. CASE SupReset
    BY <2>8 DEF Labels, SupReset
  <2>9. CASE SupBackoff
    BY <2>9 DEF Labels, SupBackoff
  <2> QED BY <1>3, <2>1, <2>2, <2>3, <2>4, <2>5, <2>6, <2>7, <2>8, <2>9 DEF SupNext
<1>4. CASE SrcNext
  BY <1>4 DEF Labels, SrcNext, SrcBegin, SrcOpenFails, SrcEnter, SrcStopped, SrcExit
<1>5. CASE SrcLost \/ SrcEndOfFile
  BY <1>5 DEF Labels, SrcLost, SrcEndOfFile
<1>6. ASSUME NEW f \in FrameSet, Arrive(f) PROVE pc' \in Labels
  BY <1>6 DEF Labels, Arrive
<1>7. CASE CbNext
  <2>1. CASE Deliver
    BY <2>1 DEF Labels, Deliver
  <2>2. CASE Observe
    BY <2>2 DEF Labels, Observe
  <2>3. CASE GateHolds
    BY <2>3 DEF Labels, GateHolds
  <2>4. CASE GateOpens
    BY <2>4 DEF Labels, GateOpens
  <2>5. CASE GateThrows
    BY <2>5 DEF Labels, GateThrows
  <2>6. CASE Forward
    BY <2>6 DEF Labels, Forward
  <2> QED BY <1>7, <2>1, <2>2, <2>3, <2>4, <2>5, <2>6 DEF CbNext
<1>8. CASE DetNext
  BY <1>8 DEF Labels, DetNext, DetPop, DetProcess, DetExit
<1>9. CASE UNCHANGED vars
  BY <1>9 DEF Labels, vars
<1> QED BY <1>1, <1>2, <1>3, <1>4, <1>5, <1>6, <1>7, <1>8, <1>9 DEF Next

\* The flags stay flags.
LEMMA FlagsStep ==
    ASSUME Flags, [Next]_vars
    PROVE  Flags'
<1>1. CASE AppNext
  <2>1. CASE Start
    BY <2>1 DEF Flags, FlagOnEntry, Reconnected, Start, control, sourceVars, gate,
       setup
  <2>2. CASE StopFlag
    BY <2>2 DEF Flags, FlagOnEntry, Reconnected, StopFlag, control, sourceVars, gate,
       setup
  <2>3. CASE StopLock
    BY <2>3 DEF Flags, FlagOnEntry, Reconnected, StopLock, control, sourceVars, gate,
       setup
  <2>4. CASE StopUnlock
    BY <2>4 DEF Flags, FlagOnEntry, Reconnected, StopUnlock, control, sourceVars,
       gate, setup
  <2>5. CASE StopJoin
    BY <2>5 DEF Flags, FlagOnEntry, Reconnected, StopJoin, control, sourceVars, gate,
       setup
  <2>6. CASE StopDetector
    BY <2>6 DEF Flags, FlagOnEntry, Reconnected, StopDetector, control, sourceVars,
       gate, setup
  <2> QED BY <1>1, <2>1, <2>2, <2>3, <2>4, <2>5, <2>6 DEF AppNext
<1>2. CASE Command
  BY <1>2 DEF Flags, FlagOnEntry, Reconnected, Command, control, sourceVars, gate,
     setup
<1>3. CASE SupNext
  <2>1. CASE SupExit
    BY <2>1 DEF Flags, FlagOnEntry, Reconnected, SupExit, control, sourceVars, gate,
       setup
  <2>2. CASE SupCreate
    BY <2>2 DEF Flags, FlagOnEntry, Reconnected, SupCreate, control, sourceVars, gate,
       setup
  <2>3. CASE SupLaunch
    BY <2>3 DEF Flags, FlagOnEntry, Reconnected, SupLaunch, control, sourceVars, gate,
       setup
  <2>4. CASE SupWake
    BY <2>4 DEF Flags, FlagOnEntry, Reconnected, SupWake, control, sourceVars, gate,
       setup
  <2>5. CASE SupStop
    BY <2>5 DEF Flags, FlagOnEntry, Reconnected, SupStop, control, sourceVars, gate,
       setup
  <2>6. CASE SupUnlock
    BY <2>6 DEF Flags, FlagOnEntry, Reconnected, SupUnlock, control, sourceVars, gate,
       setup
  <2>7. CASE SupJoin
    BY <2>7 DEF Flags, FlagOnEntry, Reconnected, SupJoin, control, sourceVars, gate,
       setup
  <2>8. CASE SupReset
    BY <2>8 DEF Flags, FlagOnEntry, Reconnected, SupReset, control, sourceVars, gate,
       setup
  <2>9. CASE SupBackoff
    BY <2>9 DEF Flags, FlagOnEntry, Reconnected, SupBackoff, control, sourceVars,
       gate, setup
  <2> QED BY <1>3, <2>1, <2>2, <2>3, <2>4, <2>5, <2>6, <2>7, <2>8, <2>9 DEF SupNext
<1>4. CASE SrcNext
  <2>1. CASE SrcBegin
    BY <2>1 DEF Flags, FlagOnEntry, Reconnected, SrcBegin, control, sourceVars, gate,
       setup
  <2>2. CASE SrcOpenFails
    BY <2>2 DEF Flags, FlagOnEntry, Reconnected, SrcOpenFails, control, sourceVars,
       gate, setup
  <2>3. CASE SrcEnter
    BY <2>3 DEF Flags, FlagOnEntry, Reconnected, SrcEnter, control, sourceVars, gate,
       setup
  <2>4. CASE SrcStopped
    BY <2>4 DEF Flags, FlagOnEntry, Reconnected, SrcStopped, control, sourceVars,
       gate, setup
  <2>5. CASE SrcExit
    BY <2>5 DEF Flags, FlagOnEntry, Reconnected, SrcExit, control, sourceVars, gate,
       setup
  <2> QED BY <1>4, <2>1, <2>2, <2>3, <2>4, <2>5 DEF SrcNext
<1>5. CASE SrcLost \/ SrcEndOfFile
  <2>1. CASE SrcLost
    BY <2>1 DEF Flags, FlagOnEntry, Reconnected, SrcLost, control, sourceVars, gate,
       setup
  <2>2. CASE SrcEndOfFile
    BY <2>2 DEF Flags, FlagOnEntry, Reconnected, SrcEndOfFile, control, sourceVars,
       gate, setup
  <2> QED BY <1>5, <2>1, <2>2
<1>6. ASSUME NEW f \in FrameSet, Arrive(f) PROVE Flags'
  BY <1>6 DEF Flags, FlagOnEntry, Reconnected, Arrive, control, sourceVars, gate,
     setup
<1>7. CASE CbNext
  <2>1. CASE Deliver
    BY <2>1 DEF Flags, FlagOnEntry, Reconnected, Deliver, control, sourceVars, gate,
       setup
  <2>2. CASE Observe
    BY <2>2 DEF Flags, FlagOnEntry, Reconnected, Observe, control, sourceVars, gate,
       setup
  <2>3. CASE GateHolds
    BY <2>3 DEF Flags, FlagOnEntry, Reconnected, GateHolds, control, sourceVars, gate,
       setup
  <2>4. CASE GateOpens
    BY <2>4 DEF Flags, FlagOnEntry, Reconnected, GateOpens, control, sourceVars, gate,
       setup
  <2>5. CASE GateThrows
    BY <2>5 DEF Flags, FlagOnEntry, Reconnected, GateThrows, control, sourceVars,
       gate, setup
  <2>6. CASE Forward
    BY <2>6 DEF Flags, FlagOnEntry, Reconnected, Forward, control, sourceVars, gate,
       setup
  <2> QED BY <1>7, <2>1, <2>2, <2>3, <2>4, <2>5, <2>6 DEF CbNext
<1>8. CASE DetNext
  <2>1. CASE DetPop
    BY <2>1 DEF Flags, FlagOnEntry, Reconnected, DetPop, control, sourceVars, gate,
       setup
  <2>2. CASE DetProcess
    BY <2>2 DEF Flags, FlagOnEntry, Reconnected, DetProcess, control, sourceVars,
       gate, setup
  <2>3. CASE DetExit
    BY <2>3 DEF Flags, FlagOnEntry, Reconnected, DetExit, control, sourceVars, gate,
       setup
  <2> QED BY <1>8, <2>1, <2>2, <2>3 DEF DetNext
<1>9. CASE UNCHANGED vars
  BY <1>9 DEF Flags, FlagOnEntry, Reconnected, vars, control, sourceVars, gate, setup
<1> QED BY <1>1, <1>2, <1>3, <1>4, <1>5, <1>6, <1>7, <1>8, <1>9 DEF Next

\* The back-off stays between its bounds, a session is created only below the bound.
LEMMA NumbersStep ==
    ASSUME Numbers, [Next]_vars
    PROVE  Numbers'
<1>1. CASE AppNext
  BY <1>1, BoundsAssumption DEF Numbers, AppNext, Start, StopFlag, StopLock,
     StopUnlock, StopJoin, StopDetector, sourceVars, setup
<1>2. CASE Command
  BY <1>2, BoundsAssumption DEF Numbers, Command, sourceVars, setup
<1>3. CASE SupNext
  BY <1>3, BoundsAssumption DEF Numbers, SupNext, SupExit, SupCreate, SupLaunch,
     SupWake, SupStop, SupUnlock, SupJoin, SupReset, SupBackoff, sourceVars, setup
<1>4. CASE SrcNext
  BY <1>4, BoundsAssumption DEF Numbers, SrcNext, SrcBegin, SrcOpenFails, SrcEnter,
     SrcStopped, SrcExit, sourceVars, setup
<1>5. CASE SrcLost \/ SrcEndOfFile
  BY <1>5, BoundsAssumption DEF Numbers, SrcLost, SrcEndOfFile, sourceVars, setup
<1>6. ASSUME NEW f \in FrameSet, Arrive(f) PROVE Numbers'
  BY <1>6, BoundsAssumption DEF Numbers, Arrive, sourceVars, setup
<1>7. CASE CbNext
  BY <1>7, BoundsAssumption DEF Numbers, CbNext, Deliver, Observe, GateHolds,
     GateOpens, GateThrows, Forward, sourceVars, setup
<1>8. CASE DetNext
  BY <1>8, BoundsAssumption DEF Numbers, DetNext, DetPop, DetProcess, DetExit,
     sourceVars, setup
<1>9. CASE UNCHANGED vars
  BY <1>9, BoundsAssumption DEF Numbers, vars, sourceVars, setup
<1> QED BY <1>1, <1>2, <1>3, <1>4, <1>5, <1>6, <1>7, <1>8, <1>9 DEF Next

\* The source thread is launched only when none is left, and source_ is reset only
\* after the join (supervise).
LEMMA PhasesStep ==
    ASSUME pc \in Labels, Flags, Numbers, Phases, [Next]_vars
    PROVE  Phases'
<1>1. CASE AppNext
  BY <1>1, BoundsAssumption DEF Phases, Labels, Numbers, Flags, SourceThreadGone,
     AppNext, Start, StopFlag, StopLock, StopUnlock, StopJoin, StopDetector,
     sourceVars, setup
<1>2. CASE Command
  BY <1>2, BoundsAssumption DEF Phases, Labels, Numbers, Flags, SourceThreadGone,
     Command, sourceVars, setup
<1>3. CASE SupNext
  <2>1. CASE SupExit
    BY <2>1, BoundsAssumption DEF Phases, Labels, Numbers, Flags, SourceThreadGone,
       SupExit, sourceVars, setup
  <2>2. CASE SupCreate
    BY <2>2, BoundsAssumption DEF Phases, Labels, Numbers, Flags, SourceThreadGone,
       SupCreate, sourceVars, setup
  <2>3. CASE SupLaunch
    BY <2>3, BoundsAssumption DEF Phases, Labels, Numbers, Flags, SourceThreadGone,
       SupLaunch, sourceVars, setup
  <2>4. CASE SupWake
    BY <2>4, BoundsAssumption DEF Phases, Labels, Numbers, Flags, SourceThreadGone,
       SupWake, sourceVars, setup
  <2>5. CASE SupStop
    BY <2>5, BoundsAssumption DEF Phases, Labels, Numbers, Flags, SourceThreadGone,
       SupStop, sourceVars, setup
  <2>6. CASE SupUnlock
    BY <2>6, BoundsAssumption DEF Phases, Labels, Numbers, Flags, SourceThreadGone,
       SupUnlock, sourceVars, setup
  <2>7. CASE SupJoin
    BY <2>7, BoundsAssumption DEF Phases, Labels, Numbers, Flags, SourceThreadGone,
       SupJoin, sourceVars, setup
  <2>8. CASE SupReset
    BY <2>8, BoundsAssumption DEF Phases, Labels, Numbers, Flags, SourceThreadGone,
       SupReset, sourceVars, setup
  <2>9. CASE SupBackoff
    BY <2>9, BoundsAssumption DEF Phases, Labels, Numbers, Flags, SourceThreadGone,
       SupBackoff, sourceVars, setup
  <2> QED BY <1>3, <2>1, <2>2, <2>3, <2>4, <2>5, <2>6, <2>7, <2>8, <2>9 DEF SupNext
<1>4. CASE SrcNext
  BY <1>4, BoundsAssumption DEF Phases, Labels, Numbers, Flags, SourceThreadGone,
     SrcNext, SrcBegin, SrcOpenFails, SrcEnter, SrcStopped, SrcExit, sourceVars, setup
<1>5. CASE SrcLost \/ SrcEndOfFile
  BY <1>5, BoundsAssumption DEF Phases, Labels, Numbers, Flags, SourceThreadGone,
     SrcLost, SrcEndOfFile, sourceVars, setup
<1>6. ASSUME NEW f \in FrameSet, Arrive(f) PROVE Phases'
  BY <1>6, BoundsAssumption DEF Phases, Labels, Numbers, Flags, SourceThreadGone,
     Arrive, sourceVars, setup
<1>7. CASE CbNext
  <2>1. CASE Deliver
    BY <2>1, BoundsAssumption DEF Phases, Labels, Numbers, Flags, SourceThreadGone,
       Deliver, sourceVars, setup
  <2>2. CASE Observe
    BY <2>2, BoundsAssumption DEF Phases, Labels, Numbers, Flags, SourceThreadGone,
       Observe, sourceVars, setup
  <2>3. CASE GateHolds
    BY <2>3, BoundsAssumption DEF Phases, Labels, Numbers, Flags, SourceThreadGone,
       GateHolds, sourceVars, setup
  <2>4. CASE GateOpens
    BY <2>4, BoundsAssumption DEF Phases, Labels, Numbers, Flags, SourceThreadGone,
       GateOpens, sourceVars, setup
  <2>5. CASE GateThrows
    BY <2>5, BoundsAssumption DEF Phases, Labels, Numbers, Flags, SourceThreadGone,
       GateThrows, sourceVars, setup
  <2>6. CASE Forward
    BY <2>6, BoundsAssumption DEF Phases, Labels, Numbers, Flags, SourceThreadGone,
       Forward, sourceVars, setup
  <2> QED BY <1>7, <2>1, <2>2, <2>3, <2>4, <2>5, <2>6 DEF CbNext
<1>8. CASE DetNext
  BY <1>8, BoundsAssumption DEF Phases, Labels, Numbers, Flags, SourceThreadGone,
     DetNext, DetPop, DetProcess, DetExit, sourceVars, setup
<1>9. CASE UNCHANGED vars
  BY <1>9, BoundsAssumption DEF Phases, Labels, Numbers, Flags, SourceThreadGone,
     vars, sourceVars, setup
<1> QED BY <1>1, <1>2, <1>3, <1>4, <1>5, <1>6, <1>7, <1>8, <1>9 DEF Next

\* connected_ and the reported status change together (onFrame, supervise).
LEMMA StatusStep ==
    ASSUME Flags, StatusAgrees, [Next]_vars
    PROVE  StatusAgrees'
<1>1. CASE AppNext
  BY <1>1 DEF StatusAgrees, Flags, Reconnected, AppNext, Start, StopFlag, StopLock,
     StopUnlock, StopJoin, StopDetector, gate
<1>2. CASE Command
  BY <1>2 DEF StatusAgrees, Flags, Reconnected, Command, gate
<1>3. CASE SupNext
  BY <1>3 DEF StatusAgrees, Flags, Reconnected, SupNext, SupExit, SupCreate,
     SupLaunch, SupWake, SupStop, SupUnlock, SupJoin, SupReset, SupBackoff, gate
<1>4. CASE SrcNext
  BY <1>4 DEF StatusAgrees, Flags, Reconnected, SrcNext, SrcBegin, SrcOpenFails,
     SrcEnter, SrcStopped, SrcExit, gate
<1>5. CASE SrcLost \/ SrcEndOfFile
  BY <1>5 DEF StatusAgrees, Flags, Reconnected, SrcLost, SrcEndOfFile, gate
<1>6. ASSUME NEW f \in FrameSet, Arrive(f) PROVE StatusAgrees'
  BY <1>6 DEF StatusAgrees, Flags, Reconnected, Arrive, gate
<1>7. CASE CbNext
  BY <1>7 DEF StatusAgrees, Flags, Reconnected, CbNext, Deliver, Observe, GateHolds,
     GateOpens, GateThrows, Forward, gate
<1>8. CASE DetNext
  BY <1>8 DEF StatusAgrees, Flags, Reconnected, DetNext, DetPop, DetProcess, DetExit,
     gate
<1>9. CASE UNCHANGED vars
  BY <1>9 DEF StatusAgrees, Flags, Reconnected, vars, gate
<1> QED BY <1>1, <1>2, <1>3, <1>4, <1>5, <1>6, <1>7, <1>8, <1>9 DEF Next

\* Sizes stay sizes, a reported status one of the three.
LEMMA PicturesStep ==
    ASSUME pc \in Labels, Flags, Pictures, FrameInHand, [Next]_vars
    PROVE  Pictures'
<1>1. CASE AppNext
  BY <1>1 DEF Pictures, AppNext, Start, StopFlag, StopLock, StopUnlock, StopJoin,
     StopDetector, gate
<1>2. CASE Command
  BY <1>2 DEF Pictures, Command, gate
<1>3. CASE SupNext
  <2>1. CASE SupExit
    BY <2>1 DEF Pictures, Reconnected, SupExit, gate
  <2>2. CASE SupCreate
    BY <2>2 DEF Pictures, Reconnected, SupCreate, gate
  <2>3. CASE SupLaunch
    BY <2>3 DEF Pictures, Reconnected, SupLaunch, gate
  <2>4. CASE SupWake
    BY <2>4 DEF Pictures, Reconnected, SupWake, gate
  <2>5. CASE SupStop
    BY <2>5 DEF Pictures, Reconnected, SupStop, gate
  <2>6. CASE SupUnlock
    BY <2>6 DEF Pictures, Reconnected, SupUnlock, gate
  <2>7. CASE SupJoin
    BY <2>7 DEF Pictures, Reconnected, SupJoin, gate
  <2>8. CASE SupReset
    BY <2>8 DEF Pictures, Reconnected, SupReset, gate
  <2>9. CASE SupBackoff
    BY <2>9 DEF Pictures, Reconnected, SupBackoff, gate
  <2> QED BY <1>3, <2>1, <2>2, <2>3, <2>4, <2>5, <2>6, <2>7, <2>8, <2>9 DEF SupNext
<1>4. CASE SrcNext
  BY <1>4 DEF Pictures, SrcNext, SrcBegin, SrcOpenFails, SrcEnter, SrcStopped,
     SrcExit, gate
<1>5. CASE SrcLost \/ SrcEndOfFile
  BY <1>5 DEF Pictures, SrcLost, SrcEndOfFile, gate
<1>6. ASSUME NEW f \in FrameSet, Arrive(f) PROVE Pictures'
  BY <1>6, FramesHaveImage DEF Pictures, Arrive, gate
<1>7. CASE CbNext
  <2>1. CASE Deliver
    <3>1. frame.primary \in Sizes /\ frame.secondary \in Sizes \cup {Empty}
      BY <2>1 DEF Pictures, FrameInHand, Labels, Deliver
    <3>2. DetectSize \in Sizes
      BY <3>1, DetectGivesImage DEF DetectSize, Flags
    <3> QED BY <2>1, <3>2 DEF Pictures, Deliver, gate
  <2>2. CASE Observe
    BY <2>2 DEF Pictures, NoFrame, Observe, gate
  <2>3. CASE GateHolds
    BY <2>3 DEF Pictures, NoFrame, GateHolds, gate
  <2>4. CASE GateOpens
    BY <2>4 DEF Pictures, NoFrame, GateOpens, gate
  <2>5. CASE GateThrows
    BY <2>5 DEF Pictures, NoFrame, GateThrows, gate
  <2>6. CASE Forward
    BY <2>6 DEF Pictures, NoFrame, Forward, gate
  <2> QED BY <1>7, <2>1, <2>2, <2>3, <2>4, <2>5, <2>6 DEF CbNext
<1>8. CASE DetNext
  BY <1>8 DEF Pictures, DetNext, DetPop, DetProcess, DetExit, gate
<1>9. CASE UNCHANGED vars
  BY <1>9 DEF Pictures, vars, gate
<1> QED BY <1>1, <1>2, <1>3, <1>4, <1>5, <1>6, <1>7, <1>8, <1>9 DEF Next

\* A callback carries an image from arrival to the sink, and firstFrame_ asks for
\* a reference whenever the last one may not fit (onFrame).
LEMMA FrameInHandStep ==
    ASSUME pc \in Labels, Flags, Pictures, FrameInHand, [Next]_vars
    PROVE  FrameInHand'
<1>1. CASE AppNext
  BY <1>1 DEF FrameInHand, Labels, AppNext, Start, StopFlag, StopLock, StopUnlock,
     StopJoin, StopDetector, gate
<1>2. CASE Command
  BY <1>2 DEF FrameInHand, Labels, Command, gate
<1>3. CASE SupNext
  <2>1. CASE SupExit
    BY <2>1 DEF FrameInHand, Labels, Reconnected, SupExit, gate
  <2>2. CASE SupCreate
    BY <2>2 DEF FrameInHand, Labels, Reconnected, SupCreate, gate
  <2>3. CASE SupLaunch
    BY <2>3 DEF FrameInHand, Labels, Reconnected, SupLaunch, gate
  <2>4. CASE SupWake
    BY <2>4 DEF FrameInHand, Labels, Reconnected, SupWake, gate
  <2>5. CASE SupStop
    BY <2>5 DEF FrameInHand, Labels, Reconnected, SupStop, gate
  <2>6. CASE SupUnlock
    BY <2>6 DEF FrameInHand, Labels, Reconnected, SupUnlock, gate
  <2>7. CASE SupJoin
    BY <2>7 DEF FrameInHand, Labels, Reconnected, SupJoin, gate
  <2>8. CASE SupReset
    BY <2>8 DEF FrameInHand, Labels, Reconnected, SupReset, gate
  <2>9. CASE SupBackoff
    BY <2>9 DEF FrameInHand, Labels, Reconnected, SupBackoff, gate
  <2> QED BY <1>3, <2>1, <2>2, <2>3, <2>4, <2>5, <2>6, <2>7, <2>8, <2>9 DEF SupNext
<1>4. CASE SrcNext
  BY <1>4 DEF FrameInHand, Labels, SrcNext, SrcBegin, SrcOpenFails, SrcEnter,
     SrcStopped, SrcExit, gate
<1>5. CASE SrcLost \/ SrcEndOfFile
  BY <1>5 DEF FrameInHand, Labels, SrcLost, SrcEndOfFile, gate
<1>6. ASSUME NEW f \in FrameSet, Arrive(f) PROVE FrameInHand'
  BY <1>6, FramesHaveImage DEF FrameInHand, Labels, Arrive, gate
<1>7. CASE CbNext
  <2>1. CASE Deliver
    <3>1. frame.primary \in Sizes /\ frame.secondary \in Sizes \cup {Empty}
      BY <2>1 DEF Pictures, FrameInHand, Labels, Deliver
    <3>2. DetectSize \in Sizes
      BY <3>1, DetectGivesImage DEF DetectSize, Flags
    <3> QED BY <2>1, <3>2 DEF FrameInHand, SendsReference, Labels, Flags, Deliver, gate
  <2>2. CASE Observe
    BY <2>2 DEF FrameInHand, Labels, Observe, gate
  <2>3. CASE GateHolds
    BY <2>3 DEF FrameInHand, Labels, GateHolds, gate
  <2>4. CASE GateOpens
    BY <2>4 DEF FrameInHand, Labels, GateOpens, gate
  <2>5. CASE GateThrows
    BY <2>5 DEF FrameInHand, Labels, GateThrows, gate
  <2>6. CASE Forward
    BY <2>6 DEF FrameInHand, Labels, Forward, gate
  <2> QED BY <1>7, <2>1, <2>2, <2>3, <2>4, <2>5, <2>6 DEF CbNext
<1>8. CASE DetNext
  BY <1>8 DEF FrameInHand, Labels, DetNext, DetPop, DetProcess, DetExit, gate
<1>9. CASE UNCHANGED vars
  BY <1>9 DEF FrameInHand, Labels, vars, gate
<1> QED BY <1>1, <1>2, <1>3, <1>4, <1>5, <1>6, <1>7, <1>8, <1>9 DEF Next

\* Only a delivery changes the frame in hand, and it sends the reference with it.
LEMMA ReferenceStep ==
    ASSUME pc \in Labels, Flags, Pictures, FrameInHand, ReferenceIsCurrent, [Next]_vars
    PROVE  ReferenceIsCurrent'
<1>1. CASE AppNext
  BY <1>1 DEF ReferenceIsCurrent, Labels, AppNext, Start, StopFlag, StopLock,
     StopUnlock, StopJoin, StopDetector, gate
<1>2. CASE Command
  BY <1>2 DEF ReferenceIsCurrent, Labels, Command, gate
<1>3. CASE SupNext
  <2>1. CASE SupExit
    BY <2>1 DEF ReferenceIsCurrent, Labels, Reconnected, SupExit, gate
  <2>2. CASE SupCreate
    BY <2>2 DEF ReferenceIsCurrent, Labels, Reconnected, SupCreate, gate
  <2>3. CASE SupLaunch
    BY <2>3 DEF ReferenceIsCurrent, Labels, Reconnected, SupLaunch, gate
  <2>4. CASE SupWake
    BY <2>4 DEF ReferenceIsCurrent, Labels, Reconnected, SupWake, gate
  <2>5. CASE SupStop
    BY <2>5 DEF ReferenceIsCurrent, Labels, Reconnected, SupStop, gate
  <2>6. CASE SupUnlock
    BY <2>6 DEF ReferenceIsCurrent, Labels, Reconnected, SupUnlock, gate
  <2>7. CASE SupJoin
    BY <2>7 DEF ReferenceIsCurrent, Labels, Reconnected, SupJoin, gate
  <2>8. CASE SupReset
    BY <2>8 DEF ReferenceIsCurrent, Labels, Reconnected, SupReset, gate
  <2>9. CASE SupBackoff
    BY <2>9 DEF ReferenceIsCurrent, Labels, Reconnected, SupBackoff, gate
  <2> QED BY <1>3, <2>1, <2>2, <2>3, <2>4, <2>5, <2>6, <2>7, <2>8, <2>9 DEF SupNext
<1>4. CASE SrcNext
  BY <1>4 DEF ReferenceIsCurrent, Labels, SrcNext, SrcBegin, SrcOpenFails, SrcEnter,
     SrcStopped, SrcExit, gate
<1>5. CASE SrcLost \/ SrcEndOfFile
  BY <1>5 DEF ReferenceIsCurrent, Labels, SrcLost, SrcEndOfFile, gate
<1>6. ASSUME NEW f \in FrameSet, Arrive(f) PROVE ReferenceIsCurrent'
  BY <1>6 DEF ReferenceIsCurrent, Labels, Arrive, gate
<1>7. CASE CbNext
  <2>1. CASE Deliver
    BY <2>1 DEF ReferenceIsCurrent, FrameInHand, SendsReference, Labels, Flags,
       Deliver, gate
  <2>2. CASE Observe
    BY <2>2 DEF ReferenceIsCurrent, Labels, Observe, gate
  <2>3. CASE GateHolds
    BY <2>3 DEF ReferenceIsCurrent, Labels, GateHolds, gate
  <2>4. CASE GateOpens
    BY <2>4 DEF ReferenceIsCurrent, Labels, GateOpens, gate
  <2>5. CASE GateThrows
    BY <2>5 DEF ReferenceIsCurrent, Labels, GateThrows, gate
  <2>6. CASE Forward
    BY <2>6 DEF ReferenceIsCurrent, Labels, Forward, gate
  <2> QED BY <1>7, <2>1, <2>2, <2>3, <2>4, <2>5, <2>6 DEF CbNext
<1>8. CASE DetNext
  BY <1>8 DEF ReferenceIsCurrent, Labels, DetNext, DetPop, DetProcess, DetExit, gate
<1>9. CASE UNCHANGED vars
  BY <1>9 DEF ReferenceIsCurrent, Labels, vars, gate
<1> QED BY <1>1, <1>2, <1>3, <1>4, <1>5, <1>6, <1>7, <1>8, <1>9 DEF Next

\* The window takes frames of the running session only, and begins each one empty.
LEMMA WindowStep ==
    ASSUME pc \in Labels, Flags, Numbers, Phases, FrameInHand, WindowType, WindowOfOneSession, [Next]_vars
    PROVE  WindowType' /\ WindowOfOneSession'
<1>1. CASE AppNext
  BY <1>1 DEF WindowType, WindowOfOneSession, Labels, AppNext, Start, StopFlag,
     StopLock, StopUnlock, StopJoin, StopDetector, gate, setup
<1>2. CASE Command
  BY <1>2 DEF WindowType, WindowOfOneSession, Labels, Command, gate, setup
<1>3. CASE SupNext
  <2>1. CASE SupExit
    BY <2>1 DEF WindowType, WindowOfOneSession, Labels, SupExit, gate, setup
  <2>2. CASE SupCreate
    BY <2>2 DEF WindowType, WindowOfOneSession, Labels, Phases, SupCreate, gate, setup
  <2>3. CASE SupLaunch
    BY <2>3 DEF WindowType, WindowOfOneSession, Labels, EmptyWindow, SupLaunch, gate,
       setup
  <2>4. CASE SupWake
    BY <2>4 DEF WindowType, WindowOfOneSession, Labels, SupWake, gate, setup
  <2>5. CASE SupStop
    BY <2>5 DEF WindowType, WindowOfOneSession, Labels, SupStop, gate, setup
  <2>6. CASE SupUnlock
    BY <2>6 DEF WindowType, WindowOfOneSession, Labels, SupUnlock, gate, setup
  <2>7. CASE SupJoin
    BY <2>7 DEF WindowType, WindowOfOneSession, Labels, SupJoin, gate, setup
  <2>8. CASE SupReset
    BY <2>8 DEF WindowType, WindowOfOneSession, Labels, SupReset, gate, setup
  <2>9. CASE SupBackoff
    BY <2>9 DEF WindowType, WindowOfOneSession, Labels, SupBackoff, gate, setup
  <2> QED BY <1>3, <2>1, <2>2, <2>3, <2>4, <2>5, <2>6, <2>7, <2>8, <2>9 DEF SupNext
<1>4. CASE SrcNext
  <2>1. CASE SrcBegin
    BY <2>1 DEF WindowType, WindowOfOneSession, Labels, SrcBegin, gate, setup
  <2>2. CASE SrcOpenFails
    BY <2>2 DEF WindowType, WindowOfOneSession, Labels, SrcOpenFails, gate, setup
  <2>3. CASE SrcEnter
    BY <2>3 DEF WindowType, WindowOfOneSession, Labels, SrcEnter, gate, setup
  <2>4. CASE SrcStopped
    BY <2>4 DEF WindowType, WindowOfOneSession, Labels, SrcStopped, gate, setup
  <2>5. CASE SrcExit
    BY <2>5 DEF WindowType, WindowOfOneSession, Labels, SrcExit, gate, setup
  <2> QED BY <1>4, <2>1, <2>2, <2>3, <2>4, <2>5 DEF SrcNext
<1>5. CASE SrcLost \/ SrcEndOfFile
  BY <1>5 DEF WindowType, WindowOfOneSession, Labels, SrcLost, SrcEndOfFile, gate,
     setup
<1>6. ASSUME NEW f \in FrameSet, Arrive(f) PROVE WindowType' /\ WindowOfOneSession'
  BY <1>6 DEF WindowType, WindowOfOneSession, Labels, Arrive, gate, setup
<1>7. CASE CbNext
  <2>1. CASE Deliver
    BY <2>1 DEF WindowType, WindowOfOneSession, Labels, Deliver, gate, setup
  <2>2. CASE Observe
    BY <2>2 DEF WindowType, WindowOfOneSession, Labels, Observe, gate, setup
  <2>3. CASE GateHolds
    <3>1. pc.src \in {"loop", "end"} /\ session \in 1..MaxSessions
      BY <2>3 DEF Phases, Labels, GateHolds
    <3>2. frame.primary \in Sizes
      BY <2>3 DEF FrameInHand, GateHolds
    <3>3. window' = Shifted /\ session' = session /\ pc'.src \in {pc.src, "end"}
      BY <2>3 DEF Labels, GateHolds, setup
    <3> QED BY <3>1, <3>2, <3>3, ShiftedWindow DEF WindowType, WindowOfOneSession
  <2>4. CASE GateOpens
    <3>1. pc.src \in {"loop", "end"} /\ session \in 1..MaxSessions
      BY <2>4 DEF Phases, Labels, GateOpens
    <3>2. frame.primary \in Sizes
      BY <2>4 DEF FrameInHand, GateOpens
    <3>3. window' = Shifted /\ session' = session /\ pc'.src \in {pc.src, "end"}
      BY <2>4 DEF Labels, GateOpens, setup
    <3> QED BY <3>1, <3>2, <3>3, ShiftedWindow DEF WindowType, WindowOfOneSession
  <2>5. CASE GateThrows
    <3>1. pc.src \in {"loop", "end"} /\ session \in 1..MaxSessions
      BY <2>5 DEF Phases, Labels, GateThrows
    <3>2. frame.primary \in Sizes
      BY <2>5 DEF FrameInHand, GateThrows
    <3>3. window' = Shifted /\ session' = session /\ pc'.src \in {pc.src, "end"}
      BY <2>5 DEF Labels, GateThrows, setup
    <3> QED BY <3>1, <3>2, <3>3, ShiftedWindow DEF WindowType, WindowOfOneSession
  <2>6. CASE Forward
    BY <2>6 DEF WindowType, WindowOfOneSession, Labels, Forward, gate, setup
  <2> QED BY <1>7, <2>1, <2>2, <2>3, <2>4, <2>5, <2>6 DEF CbNext
<1>8. CASE DetNext
  BY <1>8 DEF WindowType, WindowOfOneSession, Labels, DetNext, DetPop, DetProcess,
     DetExit, gate, setup
<1>9. CASE UNCHANGED vars
  BY <1>9 DEF WindowType, WindowOfOneSession, Labels, vars, gate, setup
<1> QED BY <1>1, <1>2, <1>3, <1>4, <1>5, <1>6, <1>7, <1>8, <1>9 DEF Next

\* What the sink puts into the queue: the new frame last, never more than the
\* capacity, and with back-pressure the frames before it are all still there.
LEMMA SinkKeepsBound ==
    ASSUME Counted, SinkReady
    PROVE  /\ Sunk \in Seq(1..(pushed + 1))
           /\ Len(Sunk) <= QueueCap /\ Len(Sunk) <= Len(queue) + 1
           /\ Backpressure =>
                /\ Len(Sunk) = Len(queue) + 1 /\ Sunk[Len(queue) + 1] = pushed + 1
                /\ \A i \in 1..Len(queue) : Sunk[i] = queue[i]
<1> DEFINE Frames == 1..(pushed + 1)
           more == Append(queue, pushed + 1)
<1>1. queue \in Seq(Frames) /\ pushed + 1 \in Frames
  BY NumbersGrow DEF Counted
<1>2. QueueCap \in Nat \ {0} /\ Len(queue) \in Nat /\ Len(queue) <= QueueCap
  BY <1>1, BoundsAssumption DEF Counted
<1> HIDE DEF Frames
<1>3. /\ more \in Seq(Frames) /\ Len(more) = Len(queue) + 1
      /\ more[Len(queue) + 1] = pushed + 1
      /\ \A i \in 1..Len(queue) : more[i] = queue[i]
  BY <1>1, AppendProperties
<1>4. CASE Backpressure
  <2>1. Sunk = more
    BY <1>4 DEF Sunk, PushBlocking
  <2>2. Len(queue) < QueueCap
    BY <1>4, <1>2 DEF SinkReady, RoomOrClosed, Full
  <2> QED BY <2>1, <2>2, <1>2, <1>3 DEF Frames
<1>5. CASE ~Backpressure /\ ~Full(queue, QueueCap)
  <2>1. Sunk = more
    BY <1>5 DEF Sunk, Push
  <2>2. Len(queue) < QueueCap
    BY <1>5, <1>2 DEF Full
  <2> QED BY <2>1, <2>2, <1>2, <1>3, <1>5 DEF Frames
<1>6. CASE ~Backpressure /\ Full(queue, QueueCap)
  <2>1. Sunk = Append(Tail(queue), pushed + 1)
    BY <1>6 DEF Sunk, Push
  <2>2. queue # <<>>
    BY <1>6, <1>2 DEF Full
  <2>3. Tail(queue) \in Seq(Frames) /\ Len(Tail(queue)) = Len(queue) - 1
    BY <2>2, <1>1, HeadTailProperties
  <2>4. /\ Append(Tail(queue), pushed + 1) \in Seq(Frames)
        /\ Len(Append(Tail(queue), pushed + 1)) = Len(Tail(queue)) + 1
    BY <2>3, <1>1, AppendProperties
  <2>5. Len(Sunk) <= QueueCap /\ Len(Sunk) <= Len(queue) + 1
    BY <2>1, <2>3, <2>4, <1>2
  <2>6. Sunk \in Seq(1..(pushed + 1))
    BY <2>1, <2>4 DEF Frames
  <2> QED BY <2>5, <2>6, <1>6
<1> QED BY <1>4, <1>5, <1>6

\* What the detection thread leaves in the queue.
LEMMA PopTakesFirst ==
    ASSUME Counted, queue # <<>>
    PROVE  /\ Popped(queue) \in Seq(1..pushed) /\ Len(Popped(queue)) = Len(queue) - 1
           /\ \A i \in 1..(Len(queue) - 1) : Popped(queue)[i] = queue[i + 1]
           /\ Len(queue) \in Nat \ {0}
<1>1. queue \in Seq(1..pushed)
  BY DEF Counted
<1>2. Popped(queue) = Tail(queue)
  BY DEF Popped
<1> QED BY <1>1, <1>2, HeadTailProperties

\* Each frame is pushed and taken at most once.
LEMMA CountedStep ==
    ASSUME pc \in Labels, Counted, [Next]_vars
    PROVE  Counted'
<1>1. CASE AppNext
  <2>1. CASE Start
    BY <2>1 DEF Counted, Labels, Start, flow, setup
  <2>2. CASE StopFlag
    BY <2>2 DEF Counted, Labels, StopFlag, flow, setup
  <2>3. CASE StopLock
    BY <2>3 DEF Counted, Labels, StopLock, flow, setup
  <2>4. CASE StopUnlock
    BY <2>4 DEF Counted, Labels, StopUnlock, flow, setup
  <2>5. CASE StopJoin
    BY <2>5 DEF Counted, Labels, StopJoin, flow, setup
  <2>6. CASE StopDetector
    BY <2>6 DEF Counted, Labels, StopDetector, flow, setup
  <2> QED BY <1>1, <2>1, <2>2, <2>3, <2>4, <2>5, <2>6 DEF AppNext
<1>2. CASE Command
  BY <1>2 DEF Counted, Labels, Command, flow, setup
<1>3. CASE SupNext
  <2>1. CASE SupExit
    BY <2>1 DEF Counted, Labels, SupExit, flow, setup
  <2>2. CASE SupCreate
    BY <2>2 DEF Counted, Labels, SupCreate, flow, setup
  <2>3. CASE SupLaunch
    BY <2>3 DEF Counted, Labels, SupLaunch, flow, setup
  <2>4. CASE SupWake
    BY <2>4 DEF Counted, Labels, SupWake, flow, setup
  <2>5. CASE SupStop
    BY <2>5 DEF Counted, Labels, SupStop, flow, setup
  <2>6. CASE SupUnlock
    BY <2>6 DEF Counted, Labels, SupUnlock, flow, setup
  <2>7. CASE SupJoin
    BY <2>7 DEF Counted, Labels, SupJoin, flow, setup
  <2>8. CASE SupReset
    BY <2>8 DEF Counted, Labels, SupReset, flow, setup
  <2>9. CASE SupBackoff
    BY <2>9 DEF Counted, Labels, SupBackoff, flow, setup
  <2> QED BY <1>3, <2>1, <2>2, <2>3, <2>4, <2>5, <2>6, <2>7, <2>8, <2>9 DEF SupNext
<1>4. CASE SrcNext
  <2>1. CASE SrcBegin
    BY <2>1 DEF Counted, Labels, SrcBegin, flow, setup
  <2>2. CASE SrcOpenFails
    BY <2>2 DEF Counted, Labels, SrcOpenFails, flow, setup
  <2>3. CASE SrcEnter
    BY <2>3 DEF Counted, Labels, SrcEnter, flow, setup
  <2>4. CASE SrcStopped
    BY <2>4 DEF Counted, Labels, SrcStopped, flow, setup
  <2>5. CASE SrcExit
    BY <2>5 DEF Counted, Labels, SrcExit, flow, setup
  <2> QED BY <1>4, <2>1, <2>2, <2>3, <2>4, <2>5 DEF SrcNext
<1>5. CASE SrcLost \/ SrcEndOfFile
  BY <1>5 DEF Counted, Labels, SrcLost, SrcEndOfFile, flow, setup
<1>6. ASSUME NEW f \in FrameSet, Arrive(f) PROVE Counted'
  BY <1>6, BoundsAssumption DEF Counted, Labels, Arrive, flow, setup
<1>7. CASE CbNext
  <2>1. CASE Deliver
    BY <2>1 DEF Counted, Labels, Deliver, flow, setup
  <2>2. CASE Observe
    BY <2>2 DEF Counted, Labels, Observe, flow, setup
  <2>3. CASE GateHolds
    BY <2>3 DEF Counted, Labels, GateHolds, flow, setup
  <2>4. CASE GateOpens
    BY <2>4 DEF Counted, Labels, GateOpens, flow, setup
  <2>5. CASE GateThrows
    BY <2>5 DEF Counted, Labels, GateThrows, flow, setup
  <2>6. CASE Forward
    <3>1. Sunk \in Seq(1..(pushed + 1)) /\ Len(Sunk) <= QueueCap
          /\ Len(Sunk) <= Len(queue) + 1 /\ Len(Sunk) \in Nat /\ Len(queue) \in Nat
      BY <2>6, SinkKeepsBound DEF Forward, Counted
    <3>2. /\ queue' = Sunk /\ pushed' = pushed + 1 /\ taken' = taken /\ frames' = frames
          /\ pc.cb = "push" /\ pc'.cb = "none"
      BY <2>6 DEF Forward, setup, Labels
    <3> QED BY <3>1, <3>2 DEF Counted
  <2> QED BY <1>7, <2>1, <2>2, <2>3, <2>4, <2>5, <2>6 DEF CbNext
<1>8. CASE DetNext
  <2>1. CASE DetPop
    <3>1. Popped(queue) \in Seq(1..pushed) /\ Len(Popped(queue)) = Len(queue) - 1
          /\ Len(queue) \in Nat \ {0}
      BY <2>1, PopTakesFirst DEF DetPop
    <3>2. /\ queue' = Popped(queue) /\ pushed' = pushed /\ taken' = taken + 1
          /\ frames' = frames /\ pc'.cb = pc.cb
      BY <2>1 DEF DetPop, setup, Labels
    <3> QED BY <3>1, <3>2, BoundsAssumption DEF Counted
  <2>2. CASE DetProcess
    BY <2>2 DEF Counted, Labels, DetProcess, flow, setup
  <2>3. CASE DetExit
    BY <2>3 DEF Counted, Labels, DetExit, flow, setup
  <2> QED BY <1>8, <2>1, <2>2, <2>3 DEF DetNext
<1>9. CASE UNCHANGED vars
  BY <1>9 DEF Counted, Labels, vars, flow, setup
<1> QED BY <1>1, <1>2, <1>3, <1>4, <1>5, <1>6, <1>7, <1>8, <1>9 DEF Next

\* With back-pressure the queue is what was pushed and not taken, in order.
LEMMA VideoStep ==
    ASSUME pc \in Labels, Counted, VideoLosesNothing, [Next]_vars
    PROVE  VideoLosesNothing'
<1>1. CASE AppNext
  BY <1>1 DEF VideoLosesNothing, AppNext, Start, StopFlag, StopLock, StopUnlock,
     StopJoin, StopDetector, flow, setup
<1>2. CASE Command
  BY <1>2 DEF VideoLosesNothing, Command, flow, setup
<1>3. CASE SupNext
  BY <1>3 DEF VideoLosesNothing, SupNext, SupExit, SupCreate, SupLaunch, SupWake,
     SupStop, SupUnlock, SupJoin, SupReset, SupBackoff, flow, setup
<1>4. CASE SrcNext
  BY <1>4 DEF VideoLosesNothing, SrcNext, SrcBegin, SrcOpenFails, SrcEnter,
     SrcStopped, SrcExit, flow, setup
<1>5. CASE SrcLost \/ SrcEndOfFile
  BY <1>5 DEF VideoLosesNothing, SrcLost, SrcEndOfFile, flow, setup
<1>6. ASSUME NEW f \in FrameSet, Arrive(f) PROVE VideoLosesNothing'
  BY <1>6 DEF VideoLosesNothing, Arrive, flow, setup
<1>7. CASE CbNext
  <2>1. CASE Deliver
    BY <2>1 DEF VideoLosesNothing, Deliver, flow, setup
  <2>2. CASE Observe
    BY <2>2 DEF VideoLosesNothing, Observe, flow, setup
  <2>3. CASE GateHolds
    BY <2>3 DEF VideoLosesNothing, GateHolds, flow, setup
  <2>4. CASE GateOpens
    BY <2>4 DEF VideoLosesNothing, GateOpens, flow, setup
  <2>5. CASE GateThrows
    BY <2>5 DEF VideoLosesNothing, GateThrows, flow, setup
  <2>6. CASE Forward
    <3>1. CASE kind \in {"file", "url"}
      <4>1. Backpressure /\ SinkReady
        BY <2>6, <3>1 DEF Forward, Backpressure
      <4>0. queue' = Sunk /\ pushed' = pushed + 1 /\ taken' = taken
        BY <2>6 DEF Forward
      <4>2. /\ Len(Sunk) = Len(queue) + 1 /\ Sunk[Len(queue) + 1] = pushed + 1
            /\ \A i \in 1..Len(queue) : Sunk[i] = queue[i]
            /\ Sunk \in Seq(1..(pushed + 1))
        BY <4>1, SinkKeepsBound
      <4>3. /\ queue = [i \in 1..(pushed - taken) |-> taken + i]
            /\ pushed - taken \in Nat /\ Len(queue) = pushed - taken
        BY <3>1 DEF VideoLosesNothing, Counted
      <4>4. Sunk = [i \in 1..(pushed' - taken') |-> taken' + i]
        <5>1. Len(Sunk) = pushed' - taken'
          BY <4>0, <4>2, <4>3 DEF Counted
        <5>2. ASSUME NEW i \in 1..(pushed' - taken') PROVE Sunk[i] = taken' + i
          <6>1. CASE i = Len(queue) + 1
            BY <6>1, <4>0, <4>2, <4>3 DEF Counted
          <6>2. CASE i # Len(queue) + 1
            <7>1. i \in 1..Len(queue) /\ i \in 1..(pushed - taken)
              BY <6>2, <4>0, <4>3 DEF Counted
            <7> QED BY <7>1, <4>0, <4>2, <4>3
          <6> QED BY <6>1, <6>2
        <5>3. Sunk = [i \in 1..Len(Sunk) |-> Sunk[i]]
          BY <4>2
        <5> QED BY <5>1, <5>2, <5>3
      <4> QED BY <4>0, <4>4 DEF VideoLosesNothing
    <3>2. CASE kind \notin {"file", "url"}
      BY <2>6, <3>2 DEF Forward, setup, VideoLosesNothing
    <3> QED BY <3>1, <3>2
  <2> QED BY <1>7, <2>1, <2>2, <2>3, <2>4, <2>5, <2>6 DEF CbNext
<1>8. CASE DetNext
  <2>1. CASE DetPop
    <3>1. CASE kind \in {"file", "url"}
      <4>0. queue' = Popped(queue) /\ pushed' = pushed /\ taken' = taken + 1
        BY <2>1 DEF DetPop
      <4>1. /\ Len(Popped(queue)) = Len(queue) - 1 /\ Popped(queue) \in Seq(1..pushed)
            /\ \A i \in 1..(Len(queue) - 1) : Popped(queue)[i] = queue[i + 1]
            /\ Len(queue) \in Nat \ {0}
        BY <2>1, PopTakesFirst DEF DetPop
      <4>2. /\ queue = [i \in 1..(pushed - taken) |-> taken + i]
            /\ pushed - taken \in Nat /\ Len(queue) = pushed - taken
        BY <3>1 DEF VideoLosesNothing, Counted
      <4>3. Popped(queue) = [i \in 1..(pushed' - taken') |-> taken' + i]
        <5>1. Len(Popped(queue)) = pushed' - taken'
          BY <4>0, <4>1, <4>2 DEF Counted
        <5>2. ASSUME NEW i \in 1..(pushed' - taken') PROVE Popped(queue)[i] = taken' + i
          <6>1. i \in 1..(Len(queue) - 1) /\ i + 1 \in 1..(pushed - taken)
            BY <4>0, <4>1, <4>2 DEF Counted
          <6>2. queue[i + 1] = taken + (i + 1)
            BY <6>1, <4>2
          <6> QED BY <6>1, <6>2, <4>0, <4>1 DEF Counted
        <5>3. Popped(queue) = [i \in 1..Len(Popped(queue)) |-> Popped(queue)[i]]
          BY <4>1
        <5> QED BY <5>1, <5>2, <5>3
      <4> QED BY <4>0, <4>3 DEF VideoLosesNothing
    <3>2. CASE kind \notin {"file", "url"}
      BY <2>1, <3>2 DEF DetPop, setup, VideoLosesNothing
    <3> QED BY <3>1, <3>2
  <2>2. CASE DetProcess
    BY <2>2 DEF VideoLosesNothing, DetProcess, flow, setup
  <2>3. CASE DetExit
    BY <2>3 DEF VideoLosesNothing, DetExit, flow, setup
  <2> QED BY <1>8, <2>1, <2>2, <2>3 DEF DetNext
<1>9. CASE UNCHANGED vars
  BY <1>9 DEF VideoLosesNothing, vars, flow, setup
<1> QED BY <1>1, <1>2, <1>3, <1>4, <1>5, <1>6, <1>7, <1>8, <1>9 DEF Next

-------------------------------------------------------------------------------
(* The theorems                                                                  *)

\* The initial states satisfy it.
LEMMA InitHolds == Init => IInv
<1> SUFFICES ASSUME Init PROVE IInv
  OBVIOUS
<1>1. pc \in Labels /\ Flags /\ Phases
  BY DEF Init, Labels, Flags, Phases
<1>2. Numbers
  BY BoundsAssumption DEF Init, Numbers
<1>3. Pictures /\ FrameInHand /\ ReferenceIsCurrent /\ StatusAgrees
  BY DEF Init, Pictures, FrameInHand, ReferenceIsCurrent, StatusAgrees, NoFrame
<1>4. WindowType
  <2>1. <<>> \in [1..0 -> [session : 1..MaxSessions, size : Sizes]]
    OBVIOUS
  <2> QED BY <2>1 DEF Init, WindowType
<1>5. WindowOfOneSession
  BY DEF Init, WindowOfOneSession
<1>6. Counted
  <2>1. <<>> \in Seq(1..pushed) /\ Len(<<>>) = 0
    OBVIOUS
  <2> QED BY <2>1, BoundsAssumption DEF Init, Counted
<1>7. VideoLosesNothing
  BY DEF Init, VideoLosesNothing
<1> QED BY <1>1, <1>2, <1>3, <1>4, <1>5, <1>6, <1>7 DEF IInv

\* Every step keeps it.
LEMMA InvariantStep == IInv /\ [Next]_vars => IInv'
<1> SUFFICES ASSUME IInv, [Next]_vars PROVE IInv'
  OBVIOUS
<1> USE DEF IInv
<1>1. pc' \in Labels
  BY LabelsStep
<1>2. Flags' /\ Numbers'
  BY FlagsStep, NumbersStep
<1>3. Phases'
  BY PhasesStep
<1>4. Pictures' /\ FrameInHand'
  BY PicturesStep, FrameInHandStep
<1>5. ReferenceIsCurrent' /\ StatusAgrees'
  BY ReferenceStep, StatusStep
<1>6. WindowType' /\ WindowOfOneSession'
  BY WindowStep
<1>7. Counted' /\ VideoLosesNothing'
  BY CountedStep, VideoStep
<1> QED BY <1>1, <1>2, <1>3, <1>4, <1>5, <1>6, <1>7

\* So it holds in every reachable state.
LEMMA Inductive == Spec => []IInv
  BY InitHolds, InvariantStep, PTL DEF Spec

\* The invariant says of every state what the runs check.
LEMMA InvariantImplies == IInv => SessionIsSound /\ ReferenceIsCurrent /\ VideoLosesNothing
<1> SUFFICES ASSUME IInv PROVE SessionIsSound
  BY DEF IInv
<1>1. TypeOK
  <2>1. {running, detRunning, errored, finished, source, keep, failed, onColor,
         manual, stable, connected, firstFrame} \subseteq BOOLEAN
    BY DEF IInv, Flags
  <2>2. pushed \in 0..frames /\ taken \in 0..pushed /\ frames \in 0..MaxFrames
    BY BoundsAssumption DEF IInv, Counted
  <2> QED BY <2>1, <2>2 DEF TypeOK, IInv, Numbers, Pictures, WindowType, Counted
<1>2. SourceOutlivesItsThread
  BY DEF SourceOutlivesItsThread, IInv, Phases, Labels
<1> QED BY <1>1, <1>2 DEF SessionIsSound, IInv

\* A session of the source is whole: nothing of the one before is left in it,
\* nothing of it is used after it is gone, and the backend knows of it
\* (CameraWorker::supervise, onFrame).
THEOREM SessionSound == Spec => []SessionIsSound
  BY Inductive, InvariantImplies, PTL

\* The reference image the editors have fits the frame detection works on
\* (CameraWorker::onFrame).
THEOREM ReferenceFits == Spec => []ReferenceIsCurrent
  BY Inductive, InvariantImplies, PTL

\* A video source loses no frame between the motion gate and the detection thread
\* (BlockingQueue::pushBlocking, DetectionWorker::run).
THEOREM VideoIsWhole == Spec => []VideoLosesNothing
  BY Inductive, InvariantImplies, PTL

===============================================================================
