----------------------- MODULE BaslerSupervisorProofs -----------------------
(***************************************************************************)
(* Proofs about BaslerSupervisor for any cameras and any thresholds, with  *)
(* or without commands, reapplies and stops: type correctness, that until  *)
(* the stop a camera has one worker, which finds its place free, that      *)
(* nothing outlives the camera object, and that without reapplies and      *)
(* stops the capture thread's pointers stay valid.                         *)
(***************************************************************************)
EXTENDS BaslerSupervisor, TLAPS

----------------------------------------------------------------------------
(***************************************************************************)
(* The inductive invariant, in parts.                                      *)
(***************************************************************************)

\* What the manager's phase says: a stop comes before the destruction, threads
\* are joined in two phases, and at the end the capture thread has gone.
PhaseInv ==
  /\ manager \in {"destroying", "lastJoin", "destroyed"} => stopped /\ capture = "exited"
  /\ manager \notin {"joining", "lastJoin"} => joining = {}
  /\ manager \in {"lastJoin", "destroyed"} => entry = {}
  /\ manager = "destroyed" => devices = {}

\* A thread that runs is one an entry holds or the manager is joining.
KnownInv == \A t \in Threads : worker[t] # "none" => t \in entry \cup joining

\* A camera still to be added has no device, no fault and no thread.
AddInv ==
  manager \in {"adding", "reslaving"} =>
    \A s \in todo : /\ s \notin devices
                    /\ \A c \in Faulters : fault[c] \notin Phases \X {s}
                    /\ \A w \in Slots : worker[<<s, w>>] = "none"

\* A worker that has seen its camera absent finds it absent to the end.
AbsentInv ==
  Serving => \A t \in Threads :
    worker[t] \in {"sleep", "open", "override", "store"} => t[1] \notin devices

IInv == TypeOK /\ PhaseInv /\ KnownInv /\ AddInv /\ OneWorkerPerCamera /\ AbsentInv

----------------------------------------------------------------------------
(***************************************************************************)
(* Type correctness.                                                       *)
(***************************************************************************)
LEMMA Thresholds ==
  /\ FailThreshold \in Nat /\ FailThreshold > 0 /\ MaxShift \in Nat
  /\ 0 \in 0..(FailThreshold - 1) /\ 0 \in 0..MaxShift
BY BaslerAssumption

LEMMA TypeInit ==
  ASSUME Init PROVE TypeOK
<1>1. CameraOK
  BY DEF Init, CameraOK
<1>2. LoopOK
  BY Thresholds DEF Init, LoopOK
<1>3. ControlOK
  BY DEF Init, ControlOK
<1>4. ReconOK
  <2>1. /\ fault \in [Faulters -> {<< >>} \cup (Phases \X Serials)]
        /\ fault["capture"] = << >> /\ fault["manager"] = << >>
    BY DEF Init, Faulters
  <2>2. attempts \in [Serials -> 0..MaxShift]
    BY Thresholds DEF Init
  <2> QED BY <2>1, <2>2 DEF Init, ReconOK
<1> QED BY <1>1, <1>2, <1>3, <1>4 DEF TypeOK

\* The counter is capped (handleFault, reconnectLoop).
LEMMA LowerBound ==
  ASSUME NEW n \in 0..MaxShift
  PROVE  Lower(n + 1, MaxShift) \in 0..MaxShift
BY Thresholds DEF Lower

\* handleFault's three sections, by either thread.
LEMMA FaultTypes ==
  ASSUME TypeOK, NEW c \in Faulters,
         AccountFault(c) \/ StartReconnect(c) \/ JoinPrior(c)
  PROVE  TypeOK'
<1> USE DEF TypeOK
<1>1. CASE AccountFault(c)
  <2>1. PICK s \in Serials :
          /\ fault[c] = <<"account", s>>
          /\ LET stable == connectedAt[s] = "stable"
                 a == IF stable THEN 0 ELSE Lower(attempts[s] + 1, MaxShift) IN
             /\ attempts' = [attempts EXCEPT ![s] = a]
             /\ pinned' = IF ~stable /\ a >= FallbackShift THEN pinned \cup {s} ELSE pinned
          /\ connectedAt' = [connectedAt EXCEPT ![s] = "never"]
          /\ fault' = [fault EXCEPT ![c] = <<"start", s>>]
    BY <1>1 DEF AccountFault
  <2>2. (IF connectedAt[s] = "stable" THEN 0 ELSE Lower(attempts[s] + 1, MaxShift)) \in 0..MaxShift
    BY LowerBound, Thresholds DEF ReconOK
  <2>3. /\ attempts' \in [Serials -> 0..MaxShift]
        /\ connectedAt' \in [Serials -> {"never", "recent", "stable"}]
        /\ pinned' \subseteq Serials
    BY <2>1, <2>2 DEF ReconOK
  <2>4. /\ fault' \in [Faulters -> {<< >>} \cup (Phases \X Serials)]
        /\ \A d \in Faulters : fault'[d] # << >> => fault[d] # << >>
    BY <2>1 DEF ReconOK, Phases
  <2> QED BY <1>1, <2>3, <2>4 DEF AccountFault, CameraOK, LoopOK, ReconOK, ControlOK,
            camera, loop, recon, control, Faulters
<1>2. CASE StartReconnect(c)
  <2>1. PICK s \in Serials :
          /\ (s \in running /\ UNCHANGED <<entry, running, worker>>) \/ SpawnWorker(s)
          /\ fault' = [fault EXCEPT ![c] = << >>]
    BY <1>2 DEF StartReconnect
  <2>2. /\ entry' \subseteq Threads /\ running' \subseteq Serials
        /\ worker' \in [Threads -> {"none", "test", "present", "sleep", "open", "override",
                                    "store", "stamp", "end"}]
    BY <2>1 DEF ReconOK, SpawnWorker, Threads
  <2>3. /\ fault' \in [Faulters -> {<< >>} \cup (Phases \X Serials)]
        /\ \A d \in Faulters : fault'[d] # << >> => fault[d] # << >>
    BY <2>1 DEF ReconOK
  <2> QED BY <1>2, <2>2, <2>3 DEF StartReconnect, CameraOK, LoopOK, ReconOK, ControlOK,
            camera, loop, backoff, control, Faulters
<1>3. CASE JoinPrior(c)
  <2>1. /\ fault' \in [Faulters -> {<< >>} \cup (Phases \X Serials)]
        /\ \A d \in Faulters : fault'[d] # << >> => fault[d] # << >>
    BY <1>3 DEF JoinPrior, ReconOK, Phases
  <2> QED BY <1>3, <2>1 DEF JoinPrior, CameraOK, LoopOK, ReconOK, ControlOK,
            camera, loop, recon, backoff, control, Faulters
<1> QED BY <1>1, <1>2, <1>3

LEMMA WorkerTypes ==
  ASSUME TypeOK, NEW t \in Threads, Worker(t)
  PROVE  TypeOK'
<1> USE DEF TypeOK, Goto, camera, loop, backoff, control
<1>0. t[1] \in Serials
  BY DEF Threads
<1>1. CASE TestStop(t) \/ TestPresent(t) \/ Sleep(t) \/ OpenConfigure(t)
  BY <1>1 DEF TestStop, TestPresent, Sleep, OpenConfigure, CameraOK, LoopOK, ReconOK, ControlOK
<1>2. CASE OpenFails(t)
  <2>1. attempts' \in [Serials -> 0..MaxShift]
    BY <1>0, <1>2, LowerBound DEF OpenFails, ReconOK
  <2> QED BY <1>2, <2>1 DEF OpenFails, CameraOK, LoopOK, ReconOK, ControlOK
<1>3. CASE ReadOverride(t)
  BY <1>3 DEF ReadOverride, CameraOK, LoopOK, ReconOK, ControlOK
<1>4. CASE Store(t)
  <2>1. CameraOK' /\ held' \subseteq Threads
    BY <1>0, <1>4 DEF Store, CameraOK, ReconOK
  <2>2. LoopOK'
    BY <1>4 DEF Store, LoopOK
  <2> QED BY <1>4, <2>1, <2>2 DEF Store, ReconOK, ControlOK
<1>5. CASE Stamp(t)
  BY <1>0, <1>5 DEF Stamp, CameraOK, LoopOK, ReconOK, ControlOK
<1>6. CASE EndWorker(t)
  BY <1>6 DEF EndWorker, CameraOK, LoopOK, ReconOK, ControlOK
<1> QED BY <1>1, <1>2, <1>3, <1>4, <1>5, <1>6 DEF Worker

LEMMA CaptureTypes ==
  ASSUME TypeOK, Capture \/ (\E kind \in {"set", "revert"}, s \in Serials : Command(kind, s))
  PROVE  TypeOK'
<1> USE DEF TypeOK, camera, recon, backoff, control
<1>1. CASE CheckDevices \/ EnterLoop \/ TestLive \/ EndIteration
  <2>1. CASE CheckDevices
    BY <1>1, <2>1 DEF CheckDevices, CameraOK, LoopOK, ReconOK, ControlOK
  <2>2. CASE EnterLoop
    BY <1>1, <2>2 DEF EnterLoop, CameraOK, LoopOK, ReconOK, ControlOK
  <2>3. CASE TestLive
    BY <1>1, <2>3 DEF TestLive, CameraOK, LoopOK, ReconOK, ControlOK
  <2>4. CASE EndIteration
    BY <1>1, <2>4 DEF EndIteration, CameraOK, LoopOK, ReconOK, ControlOK
  <2> QED BY <1>1, <2>1, <2>2, <2>3, <2>4
<1>2. CASE ApplyCommand
  <2>1. exposure' \in [Serials -> {"none", "auto", "manual"}]
    BY <1>2 DEF ApplyCommand, CameraOK
  <2> QED BY <1>2, <2>1 DEF ApplyCommand, CameraOK, LoopOK, ReconOK, ControlOK
<1>3. CASE Snapshot
  BY <1>3 DEF Snapshot, CameraOK, LoopOK, ReconOK, ControlOK
<1>4. ASSUME NEW s \in Serials, GrabOk(s) \/ GrabMiss(s)
      PROVE  TypeOK'
  <2>1. fails' \in [Serials -> 0..(FailThreshold - 1)]
    BY <1>4, Thresholds DEF GrabOk, GrabMiss, LoopOK
  <2> QED BY <1>4, <2>1 DEF GrabOk, GrabMiss, CameraOK, LoopOK, ReconOK, ControlOK
<1>5. ASSUME NEW s \in Serials, GrabFault(s)
      PROVE  TypeOK'
  <2>1. fails' \in [Serials -> 0..(FailThreshold - 1)]
    BY <1>5, Thresholds DEF GrabFault, LoopOK
  <2>2. /\ fault' \in [Faulters -> {<< >>} \cup (Phases \X Serials)]
        /\ fault'["manager"] = fault["manager"]
    BY <1>5 DEF GrabFault, ReconOK, Faulters, Phases
  <2>3. CameraOK'
    BY <1>5 DEF GrabFault, Remove, CameraOK
  <2> QED BY <1>5, <2>1, <2>2, <2>3 DEF GrabFault, LoopOK, ReconOK, ControlOK
<1>6. CASE AccountFault("capture") \/ StartReconnect("capture") \/ JoinPrior("capture")
  BY <1>6, FaultTypes DEF Faulters
<1>7. ASSUME NEW kind \in {"set", "revert"}, NEW s \in Serials, Command(kind, s)
      PROVE  TypeOK'
  BY <1>7 DEF Command, CameraOK, LoopOK, ReconOK, ControlOK
<1> QED BY <1>1, <1>2, <1>3, <1>4, <1>5, <1>6, <1>7 DEF Capture, Grab

\* The manager's steps that touch no fault of its own.
LEMMA ManagerTypes ==
  ASSUME TypeOK, NoneToReslave \/ StartCapture \/ ListDevices \/ EndReapply \/ Reapply
                 \/ StopSource \/ JoinCapture \/ StopAll \/ ReleaseDevices
  PROVE  TypeOK'
<1> USE DEF TypeOK, ManagerFree, camera, loop, recon, backoff
<1>1. CASE NoneToReslave
  BY <1>1 DEF NoneToReslave, CameraOK, LoopOK, ReconOK, ControlOK
<1>2. CASE StartCapture
  <2>1. targets = {} /\ fault["capture"] = << >> /\ command = << >>
    BY <1>2 DEF StartCapture, LoopOK, ReconOK, ControlOK
  <2> QED BY <1>2, <2>1 DEF StartCapture, CameraOK, LoopOK, ReconOK, ControlOK
<1>3. CASE ListDevices
  BY <1>3 DEF ListDevices, CameraOK, LoopOK, ReconOK, ControlOK
<1>4. CASE EndReapply
  BY <1>4 DEF EndReapply, CameraOK, LoopOK, ReconOK, ControlOK
<1>5. CASE Reapply
  BY <1>5 DEF Reapply, CameraOK, LoopOK, ReconOK, ControlOK
<1>6. CASE StopSource
  BY <1>6 DEF StopSource, StopVlc, CameraOK, LoopOK, ReconOK, ControlOK
<1>7. CASE JoinCapture
  BY <1>7 DEF JoinCapture, StopVlc, CameraOK, LoopOK, ReconOK, ControlOK
<1>8. CASE StopAll
  BY <1>8 DEF StopAll, CameraOK, LoopOK, ReconOK, ControlOK
<1>9. CASE ReleaseDevices
  <2>1. CameraOK' /\ LoopOK'
    BY <1>9 DEF ReleaseDevices, CameraOK, LoopOK
  <2> QED BY <1>9, <2>1 DEF ReleaseDevices, ReconOK, ControlOK
<1> QED BY <1>1, <1>2, <1>3, <1>4, <1>5, <1>6, <1>7, <1>8, <1>9

\* Those that fault a camera, or connect it.
LEMMA FaultingTypes ==
  ASSUME TypeOK, NEW s \in Serials, AddCamera(s) \/ ReslaveOther(s) \/ FaultListed(s)
  PROVE  TypeOK'
<1> USE DEF TypeOK, ManagerFree, camera, loop, recon, backoff, control
<1>1. \A f \in {fault, [fault EXCEPT !["manager"] = <<"account", s>>]} :
        /\ f \in [Faulters -> {<< >>} \cup (Phases \X Serials)]
        /\ f["capture"] = fault["capture"]
  BY DEF ReconOK, Faulters, Phases
<1>2. CASE AddCamera(s)
  <2>1. fault' \in {fault, [fault EXCEPT !["manager"] = <<"account", s>>]}
    BY <1>2 DEF AddCamera
  <2>2. CameraOK' /\ connectedAt' \in [Serials -> {"never", "recent", "stable"}]
    BY <1>2 DEF AddCamera, CameraOK, ReconOK
  <2>3. LoopOK' /\ ControlOK'
    BY <1>2 DEF AddCamera, LoopOK, ControlOK
  <2>4. fault'["manager"] # << >> => manager' \in {"adding", "reslaving", "faulting"}
    BY <1>2 DEF AddCamera
  <2> QED BY <1>1, <1>2, <2>1, <2>2, <2>3, <2>4 DEF AddCamera, ReconOK
<1>3. CASE ReslaveOther(s)
  <2>1. CameraOK'
    BY <1>3 DEF ReslaveOther, Remove, CameraOK
  <2> QED BY <1>1, <1>3, <2>1 DEF ReslaveOther, LoopOK, ReconOK, ControlOK
<1>4. CASE FaultListed(s)
  <2>1. CameraOK' /\ LoopOK'
    BY <1>4 DEF FaultListed, Remove, CameraOK, LoopOK
  <2> QED BY <1>1, <1>4, <2>1 DEF FaultListed, ReconOK, ControlOK
<1> QED BY <1>2, <1>3, <1>4

LEMMA TypeStep ==
  ASSUME TypeOK, [Next]_vars PROVE TypeOK'
<1>1. ASSUME NEW s \in Serials, Age(s) PROVE TypeOK'
  BY <1>1 DEF Age, TypeOK, CameraOK, LoopOK, ReconOK, ControlOK, camera, loop, recon, control
<1>2. CASE Manager
  BY <1>2, ManagerTypes, FaultingTypes, FaultTypes DEF Manager, Faulters
<1>3. CASE UNCHANGED vars
  BY <1>3 DEF vars, TypeOK, CameraOK, LoopOK, ReconOK, ControlOK, camera, loop, recon, backoff, control
<1> QED BY <1>1, <1>2, <1>3, CaptureTypes, WorkerTypes, ManagerTypes DEF Next, Stop

----------------------------------------------------------------------------
(***************************************************************************)
(* The steps, by what they do to devices, workers and faults.              *)
(***************************************************************************)
Rest == PhaseInv /\ KnownInv /\ AddInv /\ OneWorkerPerCamera /\ AbsentInv

Absent == {"sleep", "open", "override", "store"}

\* Nothing happens to workers or to the manager; devices may go.
Quiet ==
  /\ UNCHANGED <<entry, running, worker, joining, manager, todo, stopped>>
  /\ devices' \subseteq devices
  /\ capture \in {"none", "exited"} => capture' = capture
  /\ \A c \in Faulters, s \in Serials :
       fault'[c] \in Phases \X {s} => fault[c] \in Phases \X {s} \/ capture = "grab"

LEMMA FaultIsQuiet ==
  ASSUME TypeOK, NEW c \in Faulters, AccountFault(c) \/ JoinPrior(c)
  PROVE  Quiet
<1>1. \E s \in Serials : /\ fault[c] \in Phases \X {s}
                         /\ \E p \in Phases : fault' = [fault EXCEPT ![c] = <<p, s>>]
  BY DEF AccountFault, JoinPrior, Phases
<1>2. fault \in [Faulters -> {<< >>} \cup (Phases \X Serials)]
  BY DEF TypeOK, ReconOK
<1>3. \A d \in Faulters, s \in Serials :
        fault'[d] \in Phases \X {s} => fault[d] \in Phases \X {s}
  BY <1>1, <1>2
<1> QED BY <1>3 DEF AccountFault, JoinPrior, Quiet, camera, loop, recon, control

LEMMA CaptureIsQuiet ==
  ASSUME TypeOK,
         \/ CheckDevices \/ EnterLoop \/ TestLive \/ ApplyCommand \/ Snapshot \/ Grab
         \/ EndIteration
         \/ \E kind \in {"set", "revert"}, s \in Serials : Command(kind, s)
         \/ \E s \in Serials : Age(s)
         \/ UNCHANGED vars
  PROVE  Quiet
<1> USE DEF Quiet, camera, loop, recon, control
<1>1. CASE CheckDevices \/ EnterLoop \/ TestLive \/ EndIteration \/ Snapshot
  BY <1>1 DEF CheckDevices, EnterLoop, TestLive, EndIteration, Snapshot
<1>2. CASE ApplyCommand
  BY <1>2 DEF ApplyCommand
<1>3. CASE Grab
  <2>1. PICK s \in Serials : GrabOk(s) \/ GrabMiss(s) \/ GrabFault(s)
    BY <1>3 DEF Grab
  <2> QED BY <2>1 DEF GrabOk, GrabMiss, GrabFault, Remove
<1>4. CASE \E kind \in {"set", "revert"}, s \in Serials : Command(kind, s)
  BY <1>4 DEF Command
<1>5. CASE \E s \in Serials : Age(s)
  BY <1>5 DEF Age
<1>6. CASE UNCHANGED vars
  BY <1>6 DEF vars
<1> QED BY <1>1, <1>2, <1>3, <1>4, <1>5, <1>6

LEMMA QuietStep ==
  ASSUME TypeOK, Rest, Quiet PROVE Rest'
<1> USE DEF Rest
<1>1. PhaseInv'
  BY DEF PhaseInv, Quiet
<1>2. KnownInv'
  BY DEF KnownInv, Quiet
<1>3. AddInv'
  <2>1. manager \in {"adding", "reslaving"} => capture # "grab"
    BY DEF TypeOK, ControlOK
  <2>2. todo \subseteq Serials
    BY DEF TypeOK, ControlOK
  <2> QED BY <2>1, <2>2 DEF AddInv, Quiet
<1>4. OneWorkerPerCamera'
  BY DEF OneWorkerPerCamera, Serving, Quiet
<1>5. AbsentInv'
  BY DEF AbsentInv, Serving, Quiet
<1> QED BY <1>1, <1>2, <1>3, <1>4, <1>5

(***************************************************************************)
(* A new worker: all threads of its camera have ended, as long as the      *)
(* camera has not been told to stop.                                       *)
(***************************************************************************)
LEMMA SpawnStep ==
  ASSUME TypeOK, Rest, NEW c \in Faulters, StartReconnect(c)
  PROVE  Rest'
<1> USE DEF Rest
<1>1. PICK s \in Serials :
        /\ fault[c] = <<"start", s>>
        /\ \/ s \in running /\ UNCHANGED <<entry, running, worker>>
           \/ s \notin running /\ Alive(s) = {} /\ SpawnWorker(s)
        /\ fault' = [fault EXCEPT ![c] = << >>]
  BY DEF StartReconnect
<1>2. /\ fault \in [Faulters -> {<< >>} \cup (Phases \X Serials)]
      /\ fault[c] \in Phases \X {s} /\ fault[c] # << >>
  BY <1>1 DEF TypeOK, ReconOK, Phases
<1>3. UNCHANGED <<devices, capture, manager, todo, joining, stopped>>
  BY DEF StartReconnect, camera, loop, control
<1>4. \A d \in Faulters, r \in Serials : fault'[d] \in Phases \X {r} => fault[d] \in Phases \X {r}
  BY <1>1, <1>2
<1>5. manager \notin {"destroying", "lastJoin", "destroyed"}
  BY <1>2 DEF PhaseInv, TypeOK, ReconOK, Faulters
<1>6. PhaseInv'
  BY <1>3, <1>5 DEF PhaseInv
<1>7. todo \subseteq Serials /\ worker \in [Threads -> {"none", "test", "present", "sleep",
                                  "open", "override", "store", "stamp", "end"}]
  BY DEF TypeOK, ControlOK, ReconOK
<1>8. CASE UNCHANGED <<entry, running, worker>>
  <2>1. KnownInv' /\ OneWorkerPerCamera' /\ AbsentInv'
    BY <1>3, <1>8 DEF KnownInv, OneWorkerPerCamera, AbsentInv, Serving
  <2>2. AddInv'
    BY <1>3, <1>4, <1>7, <1>8 DEF AddInv
  <2> QED BY <1>6, <2>1, <2>2
<1>9. CASE s \notin running /\ Alive(s) = {} /\ SpawnWorker(s)
  <2>1. PICK t \in {s} \X Slots :
          /\ worker[t] = "none" /\ worker' = [worker EXCEPT ![t] = "test"]
          /\ entry' = {u \in entry : u[1] # s} \cup {t}
          /\ running' = running \cup {s}
    BY <1>9 DEF SpawnWorker
  <2>2. t \in Threads /\ t[1] = s
    BY <2>1 DEF Threads
  <2>3. \A u \in Threads : u # t => worker'[u] = worker[u]
    BY <1>7, <2>1, <2>2
  <2>4. worker'[t] = "test"
    BY <1>7, <2>1, <2>2
  <2>5. KnownInv'
    <3> SUFFICES ASSUME NEW u \in Threads, worker'[u] # "none" PROVE u \in entry' \cup joining'
      BY DEF KnownInv
    <3>1. CASE u = t
      BY <2>1, <3>1
    <3>2. CASE u # t
      <4>1. worker[u] # "none" /\ u \in entry \cup joining
        BY <2>3, <3>2 DEF KnownInv
      <4>2. u \in entry => u[1] # s
        BY <1>9, <4>1 DEF Alive
      <4> QED BY <1>3, <2>1, <4>1, <4>2
    <3> QED BY <3>1, <3>2
  <2>6. OneWorkerPerCamera'
    <3> SUFFICES ASSUME Serving PROVE OneWorkerPerCamera'
      BY <1>3 DEF OneWorkerPerCamera, Serving
    <3>1. \A u \in Threads : u[1] = s => worker[u] = "none"
      BY <1>9 DEF OneWorkerPerCamera
    <3> QED BY <2>1, <2>2, <2>3, <3>1 DEF OneWorkerPerCamera
  <2>7. AbsentInv'
    BY <1>3, <2>3, <2>4 DEF AbsentInv, Serving
  <2>8. AddInv'
    <3> SUFFICES ASSUME manager \in {"adding", "reslaving"}, NEW r \in todo
                 PROVE  /\ r \notin devices
                        /\ \A d \in Faulters : fault'[d] \notin Phases \X {r}
                        /\ \A w \in Slots : worker'[<<r, w>>] = "none"
      BY <1>3 DEF AddInv
    <3>1. r # s
      BY <1>2 DEF AddInv
    <3>2. \A w \in Slots : <<r, w>> \in Threads /\ <<r, w>> # t
      BY <1>7, <2>2, <3>1 DEF Threads
    <3> QED BY <1>4, <1>7, <2>3, <3>2 DEF AddInv
  <2> QED BY <1>6, <2>5, <2>6, <2>7, <2>8
<1> QED BY <1>1, <1>8, <1>9

(***************************************************************************)
(* A worker's steps.  On the way to its device it sees the camera absent,  *)
(* and no other thread of the camera can have connected it meanwhile.      *)
(***************************************************************************)
\* What all steps of a worker but the last have in common.
Moves(t) ==
  /\ worker[t] # "none"
  /\ \E x \in {"test", "present", "sleep", "open", "override", "store", "stamp", "end"} :
       /\ worker' = [worker EXCEPT ![t] = x]
       /\ x \in Absent => worker[t] \in Absent \/ t[1] \notin devices
       /\ devices' = devices \/ (worker[t] = "store" /\ x = "stamp" /\ devices' = devices \cup {t[1]})
  /\ UNCHANGED <<entry, running, joining, capture, manager, todo, stopped, fault>>

LEMMA WorkerMoves ==
  ASSUME NEW t \in Threads, Worker(t)
  PROVE  Moves(t) \/ EndWorker(t)
<1> USE DEF Moves, Goto, Absent, camera, loop, backoff, control
<1>1. CASE TestStop(t)
  BY <1>1 DEF TestStop
<1>2. CASE TestPresent(t)
  BY <1>2 DEF TestPresent
<1>3. CASE Sleep(t)
  BY <1>3 DEF Sleep
<1>4. CASE OpenConfigure(t)
  BY <1>4 DEF OpenConfigure
<1>5. CASE OpenFails(t)
  BY <1>5 DEF OpenFails
<1>6. CASE ReadOverride(t)
  BY <1>6 DEF ReadOverride
<1>7. CASE Store(t)
  BY <1>7 DEF Store
<1>8. CASE Stamp(t)
  BY <1>8 DEF Stamp
<1> QED BY <1>1, <1>2, <1>3, <1>4, <1>5, <1>6, <1>7, <1>8 DEF Worker

LEMMA WorkerStep ==
  ASSUME TypeOK, Rest, NEW t \in Threads, Worker(t)
  PROVE  Rest'
<1> USE DEF Rest
<1>0. /\ worker \in [Threads -> {"none", "test", "present", "sleep", "open", "override",
                                 "store", "stamp", "end"}]
      /\ todo \subseteq Serials /\ t[1] \in Serials
  BY DEF TypeOK, ReconOK, ControlOK, Threads
<1>1. CASE Moves(t)
  <2>1. PICK x \in {"test", "present", "sleep", "open", "override", "store", "stamp", "end"} :
          /\ worker' = [worker EXCEPT ![t] = x]
          /\ x \in Absent => worker[t] \in Absent \/ t[1] \notin devices
          /\ devices' = devices
             \/ (worker[t] = "store" /\ x = "stamp" /\ devices' = devices \cup {t[1]})
    BY <1>1 DEF Moves
  <2>2. /\ worker'[t] = x /\ worker[t] # "none"
        /\ \A u \in Threads : u # t => worker'[u] = worker[u]
    BY <1>0, <1>1, <2>1 DEF Moves
  <2>3. UNCHANGED <<entry, running, joining, capture, manager, todo, stopped, fault>>
    BY <1>1 DEF Moves
  <2>4. \A u \in Threads : worker'[u] # "none" => worker[u] # "none"
    BY <2>2
  <2>5. PhaseInv'
    <3>1. manager # "destroyed"
      BY <2>2 DEF PhaseInv, KnownInv
    <3> QED BY <2>3, <3>1 DEF PhaseInv
  <2>6. KnownInv' /\ OneWorkerPerCamera'
    BY <2>3, <2>4 DEF KnownInv, OneWorkerPerCamera, Serving
  <2>7. AbsentInv'
    <3> SUFFICES ASSUME Serving, NEW u \in Threads, worker'[u] \in Absent
                 PROVE  u[1] \notin devices'
      BY <2>3 DEF AbsentInv, Serving, Absent
    <3>1. CASE u = t
      BY <2>1, <2>2, <3>1 DEF AbsentInv, Absent
    <3>2. CASE u # t
      <4>1. worker[u] \in Absent /\ worker[u] # "none"
        BY <2>2, <3>2 DEF Absent
      <4>2. u[1] \notin devices
        BY <4>1 DEF AbsentInv, Absent
      <4>3. u[1] # t[1]
        BY <2>2, <3>2, <4>1 DEF OneWorkerPerCamera
      <4> QED BY <2>1, <4>2, <4>3
    <3> QED BY <3>1, <3>2
  <2>8. AddInv'
    <3> SUFFICES ASSUME manager \in {"adding", "reslaving"}, NEW r \in todo
                 PROVE  /\ r \notin devices'
                        /\ \A d \in Faulters : fault[d] \notin Phases \X {r}
                        /\ \A w \in Slots : worker'[<<r, w>>] = "none"
      BY <2>3 DEF AddInv
    <3>1. \A w \in Slots : <<r, w>> \in Threads /\ worker[<<r, w>>] = "none"
      BY <1>0 DEF AddInv, Threads
    <3>2. t[1] # r
      <4>1. t = <<t[1], t[2]>> /\ t[2] \in Slots
        BY DEF Threads
      <4> QED BY <2>2, <3>1, <4>1
    <3>3. \A w \in Slots : <<r, w>> # t
      BY <3>2
    <3> QED BY <2>1, <2>2, <3>1, <3>2, <3>3 DEF AddInv
  <2> QED BY <2>5, <2>6, <2>7, <2>8
<1>2. CASE EndWorker(t)
  <2>1. /\ worker' = [worker EXCEPT ![t] = "none"] /\ worker[t] = "end"
        /\ running' = running \ {t[1]} /\ joining' = joining \ {t}
        /\ UNCHANGED <<entry, devices, capture, manager, todo, stopped, fault>>
    BY <1>2 DEF EndWorker, Goto, camera, loop
  <2>2. /\ worker'[t] = "none"
        /\ \A u \in Threads : u # t => worker'[u] = worker[u]
    BY <1>0, <2>1
  <2>3. PhaseInv' /\ KnownInv'
    BY <2>1, <2>2 DEF PhaseInv, KnownInv
  <2>4. OneWorkerPerCamera' /\ AbsentInv'
    BY <2>1, <2>2 DEF OneWorkerPerCamera, AbsentInv, Serving
  <2>5. AddInv'
    <3>1. \A u \in Threads : worker[u] = "none" => worker'[u] = "none"
      BY <2>2
    <3>2. \A r \in todo, w \in Slots : <<r, w>> \in Threads
      BY <1>0 DEF Threads
    <3> QED BY <2>1, <3>1, <3>2 DEF AddInv
  <2> QED BY <2>3, <2>4, <2>5
<1> QED BY <1>1, <1>2, WorkerMoves

(***************************************************************************)
(* The manager's steps.                                                    *)
(***************************************************************************)
LEMMA AddStep ==
  ASSUME TypeOK, Rest, NEW s \in Serials, AddCamera(s)
  PROVE  Rest'
<1> USE DEF Rest
<1>1. /\ manager = "adding" /\ s \in todo /\ todo' = todo \ {s}
      /\ manager' \in {"adding", "reslaving"}
      /\ UNCHANGED <<entry, running, worker, joining, stopped, capture>>
      /\ \/ devices' = devices \cup {s} /\ fault' = fault
         \/ devices' = devices /\ fault' = [fault EXCEPT !["manager"] = <<"account", s>>]
  BY DEF AddCamera, recon, loop, camera
<1>2. /\ fault \in [Faulters -> {<< >>} \cup (Phases \X Serials)] /\ todo \subseteq Serials
  BY DEF TypeOK, ReconOK, ControlOK
<1>3. \A w \in Slots : worker[<<s, w>>] = "none"
  BY <1>1 DEF AddInv
<1>4. PhaseInv' /\ KnownInv'
  BY <1>1 DEF PhaseInv, KnownInv
<1>5. OneWorkerPerCamera'
  BY <1>1 DEF OneWorkerPerCamera, Serving
<1>6. AbsentInv'
  <2>1. \A u \in Threads : worker[u] # "none" => u[1] # s
    <3>1. \A u \in Threads : u = <<u[1], u[2]>> /\ u[2] \in Slots
      BY DEF Threads
    <3> QED BY <1>3, <3>1
  <2> QED BY <1>1, <2>1 DEF AbsentInv, Serving
<1>7. AddInv'
  <2>1. \A d \in Faulters, r \in todo \ {s} :
          fault'[d] \in Phases \X {r} => fault[d] \in Phases \X {r}
    BY <1>1, <1>2
  <2> QED BY <1>1, <2>1 DEF AddInv
<1> QED BY <1>4, <1>5, <1>6, <1>7

\* The steps that fault a connected camera.
LEMMA FaultingStep ==
  ASSUME TypeOK, Rest, NEW s \in Serials, ReslaveOther(s) \/ FaultListed(s)
  PROVE  Rest'
<1> USE DEF Rest
<1>1. /\ devices' = devices \ {s} /\ fault' = [fault EXCEPT !["manager"] = <<"account", s>>]
      /\ UNCHANGED <<entry, running, worker, joining, stopped, capture>>
      /\ \/ manager = "reslaving" /\ manager' = "adding" /\ s \in devices /\ todo' = todo
         \/ manager = "faulting" /\ manager' = "faulting"
  BY DEF ReslaveOther, FaultListed, Remove, recon, loop
<1>2. /\ fault \in [Faulters -> {<< >>} \cup (Phases \X Serials)]
  BY DEF TypeOK, ReconOK
<1>3. PhaseInv' /\ KnownInv' /\ OneWorkerPerCamera' /\ AbsentInv'
  BY <1>1 DEF PhaseInv, KnownInv, OneWorkerPerCamera, AbsentInv, Serving
<1>4. AddInv'
  <2>1. \A d \in Faulters, r \in Serials :
          fault'[d] \in Phases \X {r} => fault[d] \in Phases \X {r} \/ r = s
    BY <1>1, <1>2
  <2>2. todo \subseteq Serials
    BY DEF TypeOK, ControlOK
  <2> QED BY <1>1, <2>1, <2>2 DEF AddInv
<1> QED BY <1>3, <1>4

\* The steps that only change the manager's phase and its list.
LEMMA PhaseStep ==
  ASSUME TypeOK, Rest, NoneToReslave \/ StartCapture \/ ListDevices \/ EndReapply \/ Reapply
                       \/ StopSource \/ JoinCapture
  PROVE  Rest'
<1> USE DEF Rest
<1>1. /\ UNCHANGED <<devices, entry, running, worker, joining, stopped, fault>>
      /\ manager' \in {"adding", "reslaving"} => manager = "reslaving" /\ todo' = todo
      /\ manager' \in {"destroying", "lastJoin", "destroyed"} => stopped /\ capture' = "exited"
      /\ manager' \notin {"joining", "lastJoin", "destroyed"}
      /\ manager \in {"reslaving", "adding", "idle", "listing", "faulting"}
  BY DEF NoneToReslave, StartCapture, ListDevices, EndReapply, Reapply, StopSource, JoinCapture,
         StopVlc, camera, loop, recon, backoff
<1>2. PhaseInv'
  BY <1>1 DEF PhaseInv
<1>3. KnownInv' /\ OneWorkerPerCamera' /\ AbsentInv'
  BY <1>1 DEF KnownInv, OneWorkerPerCamera, AbsentInv, Serving
<1>4. AddInv'
  BY <1>1 DEF AddInv
<1> QED BY <1>2, <1>3, <1>4

LEMMA StopAllStep ==
  ASSUME TypeOK, Rest, StopAll PROVE Rest'
<1> USE DEF Rest
<1>1. /\ manager \in {"stopping", "destroying"}
      /\ manager' = IF manager = "stopping" THEN "joining" ELSE "lastJoin"
      /\ joining' = {t \in entry : worker[t] # "none"}
      /\ entry' = {} /\ running' = {}
      /\ UNCHANGED <<devices, worker, stopped, capture, fault, todo>>
  BY DEF StopAll, camera, loop
<1>2. joining = {}
  BY <1>1 DEF PhaseInv
<1>3. PhaseInv' /\ KnownInv'
  BY <1>1, <1>2 DEF PhaseInv, KnownInv
<1>4. OneWorkerPerCamera' /\ AbsentInv' /\ AddInv'
  BY <1>1 DEF PhaseInv, OneWorkerPerCamera, AbsentInv, AddInv, Serving
<1> QED BY <1>3, <1>4

LEMMA ReleaseStep ==
  ASSUME TypeOK, Rest, ReleaseDevices PROVE Rest'
<1> USE DEF Rest
<1>1. /\ manager \in {"joining", "lastJoin"} /\ joining = {}
      /\ manager' = IF manager = "joining" THEN "idle" ELSE "destroyed"
      /\ stopped' = TRUE /\ devices' = {}
      /\ UNCHANGED <<entry, running, worker, joining, capture, fault, todo>>
  BY DEF ReleaseDevices, loop, recon
<1>2. PhaseInv' /\ KnownInv'
  BY <1>1 DEF PhaseInv, KnownInv
<1>3. OneWorkerPerCamera' /\ AbsentInv' /\ AddInv'
  BY <1>1 DEF OneWorkerPerCamera, AbsentInv, AddInv, Serving
<1> QED BY <1>2, <1>3

----------------------------------------------------------------------------
(***************************************************************************)
(* The theorems.                                                           *)
(***************************************************************************)
LEMMA InvInit ==
  ASSUME Init PROVE IInv
<1>1. TypeOK
  BY TypeInit
<1>2. PhaseInv /\ KnownInv /\ OneWorkerPerCamera /\ AbsentInv
  BY DEF Init, PhaseInv, KnownInv, OneWorkerPerCamera, AbsentInv
<1>3. AddInv
  BY DEF Init, AddInv, Threads
<1> QED BY <1>1, <1>2, <1>3 DEF IInv

LEMMA InvStep ==
  ASSUME IInv, [Next]_vars PROVE IInv'
<1>1. TypeOK /\ Rest
  BY DEF IInv, Rest
<1>2. TypeOK'
  BY <1>1, TypeStep
<1> SUFFICES Rest'
  BY <1>2 DEF IInv, Rest
<1>3. CASE Capture
  BY <1>1, <1>3, CaptureIsQuiet, FaultIsQuiet, QuietStep, SpawnStep DEF Capture, Faulters
<1>4. CASE Manager
  BY <1>1, <1>4, AddStep, FaultingStep, PhaseStep, FaultIsQuiet, QuietStep, SpawnStep
     DEF Manager, Faulters
<1>5. CASE Reapply \/ Stop
  BY <1>1, <1>5, PhaseStep, StopAllStep, ReleaseStep DEF Stop
<1>6. CASE \E t \in Threads : Worker(t)
  BY <1>1, <1>6, WorkerStep
<1>7. CASE \/ \E kind \in {"set", "revert"}, s \in Serials : Command(kind, s)
           \/ \E s \in Serials : Age(s)
           \/ UNCHANGED vars
  BY <1>1, <1>7, CaptureIsQuiet, QuietStep
<1> QED BY <1>3, <1>4, <1>5, <1>6, <1>7 DEF Next

\* The invariant holds in every state of every behaviour.
THEOREM Invariance == Spec => []IInv
BY InvInit, InvStep, PTL DEF Spec

\* Every variable keeps to its range (BaslerCamera).
THEOREM TypeCorrect == Spec => []TypeOK
<1>1. IInv => TypeOK
  BY DEF IInv
<1> QED BY <1>1, Invariance, PTL

\* Until the stop, one thread at most reconnects a camera, and it is marked
\* running (handleFault, startReconnect).
THEOREM SingleWorker == Spec => []OneWorkerPerCamera
<1>1. IInv => OneWorkerPerCamera
  BY DEF IInv
<1> QED BY <1>1, Invariance, PTL

\* Until the stop, a worker never replaces a device in use (openConfigureStore).
THEOREM StoreIsFree == Spec => []StoreFindsEmpty
<1>1. IInv => StoreFindsEmpty
  BY DEF IInv, AbsentInv, StoreFindsEmpty
<1> QED BY <1>1, Invariance, PTL

\* No thread and no device is left of a destroyed camera (stop_vlc, stopAll,
\* ~BaslerCamera).
THEOREM NothingLeft == Spec => []NothingOutlives
<1>1. IInv => NothingOutlives
  BY DEF IInv, PhaseInv, KnownInv, NothingOutlives
<1> QED BY <1>1, Invariance, PTL

\* A step of a camera whose settings are not reapplied and that is not stopped
\* destroys no device the capture thread holds a pointer to.
LEMMA PointerStep ==
  ASSUME ~MayReapply, ~MayStop, IInv, PointerSafety, [Next]_vars
  PROVE  PointerSafety'
<1> USE DEF PointerSafety, camera, loop, recon, control
<1>1. Serving /\ manager \notin {"faulting", "joining", "lastJoin"}
  BY DEF IInv, TypeOK, ControlOK, Serving
<1>2. ASSUME NEW c \in Faulters, AccountFault(c) \/ StartReconnect(c) \/ JoinPrior(c)
      PROVE  dangling' = {}
  BY <1>2 DEF AccountFault, StartReconnect, JoinPrior
<1>3. CASE Capture
  <2>1. CASE Grab
    <3>1. PICK s \in Serials : GrabOk(s) \/ GrabMiss(s) \/ GrabFault(s)
      BY <2>1 DEF Grab
    <3> QED BY <3>1 DEF GrabOk, GrabMiss, GrabFault
  <2>2. CASE CheckDevices \/ EnterLoop \/ TestLive \/ ApplyCommand \/ Snapshot \/ EndIteration
    BY <2>2 DEF CheckDevices, EnterLoop, TestLive, ApplyCommand, Snapshot, EndIteration
  <2> QED BY <1>2, <1>3, <2>1, <2>2 DEF Capture, Faulters
<1>4. CASE Manager
  <2>1. ASSUME NEW s \in Serials, AddCamera(s) \/ ReslaveOther(s) \/ FaultListed(s)
        PROVE  dangling' = {}
    BY <1>1, <2>1 DEF AddCamera, ReslaveOther, FaultListed
  <2>2. CASE NoneToReslave \/ StartCapture \/ ListDevices \/ EndReapply
    BY <2>2 DEF NoneToReslave, StartCapture, ListDevices, EndReapply
  <2> QED BY <1>2, <1>4, <2>1, <2>2 DEF Manager, Faulters
<1>5. CASE Reapply \/ Stop
  BY <1>1, <1>5 DEF Reapply, Stop, StopSource, JoinCapture, StopAll, ReleaseDevices, StopVlc
<1>6. ASSUME NEW t \in Threads, Worker(t) PROVE dangling' = {}
  <2>1. CASE Store(t)
    <3>1. t[1] \notin devices
      BY <1>1, <2>1 DEF IInv, AbsentInv, Store
    <3> QED BY <2>1, <3>1 DEF Store
  <2> QED BY <1>6, <2>1 DEF Worker, TestStop, TestPresent, Sleep, OpenConfigure, OpenFails,
                            ReadOverride, Stamp, EndWorker
<1>7. CASE \/ \E kind \in {"set", "revert"}, s \in Serials : Command(kind, s)
           \/ \E s \in Serials : Age(s)
           \/ UNCHANGED vars
  BY <1>7 DEF Command, Age, vars
<1> QED BY <1>3, <1>4, <1>5, <1>6, <1>7 DEF Next

\* As long as nobody reapplies settings or stops the camera, the capture thread
\* never holds a pointer to a destroyed device (CapturePipeline::run,
\* openConfigureStore).
THEOREM PointersValid ==
  ASSUME ~MayReapply, ~MayStop PROVE Spec => []PointerSafety
<1>1. Init => PointerSafety
  BY DEF Init, PointerSafety
<1>2. IInv /\ PointerSafety /\ [Next]_vars => PointerSafety'
  BY PointerStep
<1> QED BY <1>1, <1>2, Invariance, PTL DEF Spec
=============================================================================
