-------------------------- MODULE BaslerSupervisor --------------------------
(***************************************************************************)
(* One BaslerCamera: who connects, grabs from, drops, reconnects and       *)
(* releases its camera devices (src/src/basler/ConnectionSupervisor.cpp,   *)
(* CapturePipeline.cpp, BaslerCamera_facade.cpp).                          *)
(*                                                                         *)
(* Threads: the capture thread (CapturePipeline::run), a reconnect worker  *)
(* per faulted serial, and the manager, which first adds the cameras, then *)
(* reapplies settings and finally stops: CameraWorker makes all three      *)
(* under its sourceMtx_, so they are one thread here.  A step is what one  *)
(* thread does under one lock (devMutex, reconMutex_, manualMutex_), or    *)
(* one call of the camera driver.                                          *)
(*                                                                         *)
(* A device is represented by its serial.  `targets' are the serials whose *)
(* raw pointers the capture thread holds in an iteration; a pointer whose  *)
(* device another thread has destroyed meanwhile is `dangling'.  Times are *)
(* abstracted: a camera that has run for kStableResetSec is "stable".  The *)
(* configured packet size is a jumbo one.  Starting a thread never fails.  *)
(* An entry of workers_ is told to stop only in the section that also      *)
(* clears workers_, so no thread ever reads a set `stop' flag: the model   *)
(* keeps the entry alone.                                                  *)
(***************************************************************************)
EXTENDS Integers, FiniteSets

CONSTANTS
  Serials,        \* the cameras of this instance: one, or a pair
  Mono,           \* those of them added with set_mono_adress
  FailThreshold,  \* kFailThreshold, 3 in the code
  MaxShift,       \* kMaxShift, 12 in the code
  FallbackShift,  \* kJumboFallbackShift, 3 in the code
  MayCommand, MayReapply, MayStop   \* does the manager do so

ASSUME BaslerAssumption ==
  /\ Mono \subseteq Serials
  /\ \A s, t \in Serials : s # t => Cardinality(Mono) <= 1 /\ Serials \subseteq {s, t}
  /\ FailThreshold \in Nat \ {0} /\ MaxShift \in Nat \ {0} /\ FallbackShift \in 1..MaxShift
  /\ {MayCommand, MayReapply, MayStop} \subseteq BOOLEAN

Slots    == {"first", "second"}      \* threads a serial can have at a time
Faulters == {"capture", "manager"}   \* threads that call handleFault
Threads  == Serials \X Slots

VARIABLES
  devices,      \* serials with a device in the map
  exposure,     \* per serial: its strategy, "none", "auto" or "manual"
  manual,       \* serials with a stored manual override
  live,         \* ctx_.live
  capture,      \* where the capture thread is
  targets,      \* devices it has yet to grab from in this iteration
  dangling,     \* targets destroyed since it took their pointers
  fails,        \* consecutiveFails
  command,      \* the command being executed, <<kind, serial>> or <<>>
  fault,        \* per faulter: <<>> or where it is in handleFault, <<step, serial>>
  entry,        \* threads that an entry of workers_ holds, one per serial
  running,      \* serials whose entry is marked running
  worker,       \* per thread: where its worker is
  held,         \* threads whose new device got the manual override
  attempts,     \* attempts_
  connectedAt,  \* "never", "recent" or "stable"
  pinned,       \* packetOverride_: serials pinned to 1500 bytes
  manager,      \* where the manager is
  todo,         \* cameras it has yet to add, or to fault
  joining,      \* threads it has taken to join
  stopped       \* has stop_vlc returned once

camera   == <<devices, exposure>>
loop     == <<live, capture, targets, fails, command>>
recon    == <<entry, running, worker, held>>
backoff  == <<attempts, connectedAt, pinned>>
control  == <<manager, todo, joining, stopped>>
vars     == <<camera, manual, loop, dangling, fault, recon, backoff, control>>

----------------------------------------------------------------------------
\* reconMutex_ is free unless a faulter holds it while it joins a worker that
\* is still alive: for ever, because the worker's last step takes it too.
ReconFree == \A c \in Faulters, s \in Serials : fault[c] # <<"join", s>>

(***************************************************************************)
(* handleFault by thread c, in three sections: the device is removed and   *)
(* released, the backoff is accounted for, a worker is started.            *)
(***************************************************************************)
Remove(s) ==
  /\ devices' = devices \ {s}
  /\ exposure' = [exposure EXCEPT ![s] = "none"]

Lower(a, b) == IF a < b THEN a ELSE b

\* Slip: the number of attempts is not capped.
AccountFaultUncapped(c) ==
  /\ ReconFree
  /\ \E s \in Serials :
       /\ fault[c] = <<"account", s>>
       /\ attempts' = [attempts EXCEPT ![s] = IF connectedAt[s] = "stable" THEN 0 ELSE @ + 1]
       /\ pinned' = IF attempts'[s] >= FallbackShift THEN pinned \cup {s} ELSE pinned
       /\ connectedAt' = [connectedAt EXCEPT ![s] = "never"]
       /\ fault' = [fault EXCEPT ![c] = <<"start", s>>]
  /\ UNCHANGED <<camera, manual, loop, dangling, recon, control>>

\* Every drop of a camera that was not stable counts as flapping.
AccountFault(c) ==
  /\ ReconFree
  /\ \E s \in Serials :
       /\ fault[c] = <<"account", s>>
       /\ LET stable == connectedAt[s] = "stable"
              a == IF stable THEN 0 ELSE Lower(attempts[s] + 1, MaxShift) IN
          /\ attempts' = [attempts EXCEPT ![s] = a]
          /\ pinned' = IF ~stable /\ a >= FallbackShift THEN pinned \cup {s} ELSE pinned
       /\ connectedAt' = [connectedAt EXCEPT ![s] = "never"]
       /\ fault' = [fault EXCEPT ![c] = <<"start", s>>]
  /\ UNCHANGED <<camera, manual, loop, dangling, recon, control>>

\* An entry not marked running holds a thread that has ended, or is about to:
\* it is joined, and the lock is kept meanwhile.
Alive(s) == {t \in entry : t[1] = s /\ worker[t] # "none"}

SpawnWorker(s) ==
  \E t \in {s} \X Slots :
    /\ worker[t] = "none"
    /\ worker' = [worker EXCEPT ![t] = "test"]
    /\ entry' = {u \in entry : u[1] # s} \cup {t}
    /\ running' = running \cup {s}

\* Slip: a second worker beside the one that runs.
StartReconnectTwice(c) ==
  /\ ReconFree
  /\ \E s \in Serials :
       /\ fault[c] = <<"start", s>>
       /\ SpawnWorker(s)
       /\ fault' = [fault EXCEPT ![c] = << >>]
  /\ UNCHANGED <<camera, manual, loop, dangling, held, backoff, control>>

StartReconnect(c) ==
  /\ ReconFree
  /\ \E s \in Serials :
       /\ fault[c] = <<"start", s>>
       /\ \/ s \in running /\ UNCHANGED <<entry, running, worker>>
          \/ s \notin running /\ Alive(s) = {} /\ SpawnWorker(s)
       /\ fault' = [fault EXCEPT ![c] = << >>]
  /\ UNCHANGED <<camera, manual, loop, dangling, held, backoff, control>>

JoinPrior(c) ==
  /\ ReconFree
  /\ \E s \in Serials \ running :
       /\ fault[c] = <<"start", s>> /\ Alive(s) # {}
       /\ fault' = [fault EXCEPT ![c] = <<"join", s>>]
  /\ UNCHANGED <<camera, manual, loop, dangling, recon, backoff, control>>

----------------------------------------------------------------------------
(***************************************************************************)
(* reconnectLoop and openConfigureStore, by worker t.                      *)
(***************************************************************************)
Goto(t, step) == worker' = [worker EXCEPT ![t] = step]

MayGoOn(s) == \E w \in Slots : <<s, w>> \in entry

TestStop(t) ==
  /\ ReconFree /\ worker[t] = "test"
  /\ Goto(t, IF MayGoOn(t[1]) THEN "present" ELSE "end")
  /\ UNCHANGED <<camera, manual, loop, dangling, fault, entry, running, held, backoff, control>>

TestPresent(t) ==
  /\ worker[t] = "present"
  /\ Goto(t, IF t[1] \in devices THEN "end" ELSE "sleep")
  /\ UNCHANGED <<camera, manual, loop, dangling, fault, entry, running, held, backoff, control>>

\* The backoff: it looks at `stop' all the while.
Sleep(t) ==
  /\ ReconFree /\ worker[t] = "sleep"
  /\ Goto(t, IF MayGoOn(t[1]) THEN "open" ELSE "end")
  /\ UNCHANGED <<camera, manual, loop, dangling, fault, entry, running, held, backoff, control>>

OpenConfigure(t) ==
  /\ worker[t] = "open"
  /\ Goto(t, "override")
  /\ UNCHANGED <<camera, manual, loop, dangling, fault, entry, running, held, backoff, control>>

\* Slip: the worker ends after one failure.
OpenFailsOnce(t) ==
  /\ ReconFree /\ worker[t] = "open"
  /\ Goto(t, "end")
  /\ attempts' = [attempts EXCEPT ![t[1]] = Lower(@ + 1, MaxShift)]
  /\ UNCHANGED <<camera, manual, loop, dangling, fault, entry, running, held,
                 connectedAt, pinned, control>>

OpenFails(t) ==
  /\ ReconFree /\ worker[t] = "open"
  /\ Goto(t, "test")
  /\ attempts' = [attempts EXCEPT ![t[1]] = Lower(@ + 1, MaxShift)]
  /\ UNCHANGED <<camera, manual, loop, dangling, fault, entry, running, held,
                 connectedAt, pinned, control>>

\* Step 3c: the override is applied to the device before it is published.
ReadOverride(t) ==
  /\ worker[t] = "override"
  /\ held' = IF t[1] \in manual THEN held \cup {t} ELSE held \ {t}
  /\ Goto(t, "store")
  /\ UNCHANGED <<camera, manual, loop, dangling, fault, entry, running, backoff, control>>

Store(t) ==
  /\ worker[t] = "store"
  /\ devices' = devices \cup {t[1]}
  /\ exposure' = [exposure EXCEPT ![t[1]] = IF t \in held THEN "manual" ELSE "auto"]
  /\ dangling' = dangling \cup (targets \cap devices \cap {t[1]})   \* replaces, if present
  /\ held' = held \ {t}
  /\ Goto(t, "stamp")
  /\ UNCHANGED <<manual, loop, fault, entry, running, backoff, control>>

\* Slip: a connected worker is marked finished before it has ended.
StampNotRunning(t) ==
  /\ ReconFree /\ worker[t] = "stamp"
  /\ connectedAt' = [connectedAt EXCEPT ![t[1]] = "recent"]
  /\ running' = running \ {t[1]}
  /\ Goto(t, "end")
  /\ UNCHANGED <<camera, manual, loop, dangling, fault, entry, held, attempts, pinned, control>>

Stamp(t) ==
  /\ ReconFree /\ worker[t] = "stamp"
  /\ connectedAt' = [connectedAt EXCEPT ![t[1]] = "recent"]
  /\ Goto(t, "end")
  /\ UNCHANGED <<camera, manual, loop, dangling, fault, entry, running, held, attempts,
                 pinned, control>>

\* The thread function's last section, after reconnectLoop has returned.
EndWorker(t) ==
  /\ ReconFree /\ worker[t] = "end"
  /\ Goto(t, "none")
  /\ running' = running \ {t[1]}
  /\ joining' = joining \ {t}
  /\ UNCHANGED <<camera, manual, loop, dangling, fault, entry, held, backoff, manager, todo, stopped>>

Worker(t) ==
  \/ TestStop(t) \/ TestPresent(t) \/ Sleep(t) \/ OpenConfigure(t) \/ OpenFails(t)
  \/ ReadOverride(t) \/ Store(t) \/ Stamp(t) \/ EndWorker(t)

\* Time passes: the camera has been connected for kStableResetSec.
Age(s) ==
  /\ connectedAt[s] = "recent"
  /\ connectedAt' = [connectedAt EXCEPT ![s] = "stable"]
  /\ UNCHANGED <<camera, manual, loop, dangling, fault, recon, attempts, pinned, control>>

----------------------------------------------------------------------------
(***************************************************************************)
(* The capture thread.                                                     *)
(***************************************************************************)
CheckDevices ==
  /\ capture = "run"
  /\ capture' = IF devices = {} THEN "exited" ELSE "enter"
  /\ UNCHANGED <<camera, manual, live, targets, fails, command, dangling, fault, recon, backoff, control>>

EnterLoop ==
  /\ capture = "enter"
  /\ live' = TRUE /\ capture' = "test"
  /\ UNCHANGED <<camera, manual, targets, fails, command, dangling, fault, recon, backoff, control>>

TestLive ==
  /\ capture = "test"
  /\ capture' = IF live THEN "drain" ELSE "exited"
  /\ UNCHANGED <<camera, manual, live, targets, fails, command, dangling, fault, recon, backoff, control>>

\* A command first changes the stored override, then the connected device.
Command(kind, s) ==
  /\ MayCommand /\ capture = "drain" /\ command = << >>
  /\ manual' = IF kind = "set" THEN manual \cup {s} ELSE manual \ {s}
  /\ command' = <<kind, s>>
  /\ UNCHANGED <<camera, live, capture, targets, fails, dangling, fault, recon, backoff, control>>

ApplyCommand ==
  /\ command # << >>
  /\ exposure' = IF command[2] \in devices
                 THEN [exposure EXCEPT ![command[2]] = IF command[1] = "set" THEN "manual" ELSE "auto"]
                 ELSE exposure
  /\ command' = << >>
  /\ UNCHANGED <<devices, manual, live, capture, targets, fails, dangling, fault, recon, backoff, control>>

Snapshot ==
  /\ capture = "drain" /\ command = << >>
  /\ targets' = devices /\ dangling' = {}
  /\ capture' = "grab"
  /\ UNCHANGED <<camera, manual, live, fails, command, fault, recon, backoff, control>>

GrabOk(s) ==
  /\ capture = "grab" /\ fault["capture"] = << >> /\ s \in targets \ dangling
  /\ targets' = targets \ {s}
  /\ fails' = [fails EXCEPT ![s] = 0]
  /\ UNCHANGED <<camera, manual, live, capture, command, dangling, fault, recon, backoff, control>>

GrabMiss(s) ==
  /\ capture = "grab" /\ fault["capture"] = << >> /\ s \in targets
  /\ fails[s] + 1 < FailThreshold
  /\ targets' = targets \ {s} /\ dangling' = dangling \ {s}
  /\ fails' = [fails EXCEPT ![s] = @ + 1]
  /\ UNCHANGED <<camera, manual, live, capture, command, fault, recon, backoff, control>>

\* Slip: no `continue', so the exposure is applied to the released device.
GrabFaultGoesOn(s) ==
  /\ capture = "grab" /\ fault["capture"] = << >> /\ s \in targets
  /\ fails' = [fails EXCEPT ![s] = 0]
  /\ Remove(s)
  /\ dangling' = dangling \cup {s}
  /\ fault' = [fault EXCEPT !["capture"] = <<"account", s>>]
  /\ UNCHANGED <<manual, live, capture, targets, command, recon, backoff, control>>

\* A device error, or one miss too many; the grab loop continues with the next.
GrabFault(s) ==
  /\ capture = "grab" /\ fault["capture"] = << >> /\ s \in targets
  /\ targets' = targets \ {s} /\ dangling' = dangling \ {s}
  /\ fails' = [fails EXCEPT ![s] = 0]
  /\ Remove(s)
  /\ fault' = [fault EXCEPT !["capture"] = <<"account", s>>]
  /\ UNCHANGED <<manual, live, capture, command, recon, backoff, control>>

EndIteration ==
  /\ capture = "grab" /\ fault["capture"] = << >> /\ targets = {}
  /\ capture' = "test"
  /\ UNCHANGED <<camera, manual, live, targets, fails, command, dangling, fault, recon, backoff, control>>

Grab    == \E s \in Serials : GrabOk(s) \/ GrabMiss(s) \/ GrabFault(s)
Capture ==
  \/ CheckDevices \/ EnterLoop \/ TestLive \/ ApplyCommand \/ Snapshot \/ Grab \/ EndIteration
  \/ AccountFault("capture") \/ StartReconnect("capture") \/ JoinPrior("capture")

----------------------------------------------------------------------------
(***************************************************************************)
(* The manager.  set_adress and set_mono_adress connect at once; a mono    *)
(* camera added last re-slaves the others by faulting them.                *)
(***************************************************************************)
ManagerFree == fault["manager"] = << >>

AddCamera(s) ==
  /\ manager = "adding" /\ ManagerFree /\ s \in todo
  /\ todo' = todo \ {s}
  /\ \/ devices' = devices \cup {s}
        /\ exposure' = [exposure EXCEPT ![s] = "auto"]
        /\ connectedAt' = [connectedAt EXCEPT ![s] = "recent"]
        /\ UNCHANGED fault
     \/ fault' = [fault EXCEPT !["manager"] = <<"account", s>>]
        /\ UNCHANGED <<camera, connectedAt>>
  /\ manager' = IF s \in Mono THEN "reslaving" ELSE "adding"
  /\ UNCHANGED <<manual, loop, dangling, recon, attempts, pinned, joining, stopped>>

ReslaveOther(s) ==
  /\ manager = "reslaving" /\ ManagerFree /\ s \in devices \ Mono
  /\ Remove(s)
  /\ fault' = [fault EXCEPT !["manager"] = <<"account", s>>]
  /\ manager' = "adding"
  /\ UNCHANGED <<manual, loop, dangling, recon, backoff, todo, joining, stopped>>

NoneToReslave ==
  /\ manager = "reslaving" /\ ManagerFree /\ devices \subseteq Mono
  /\ manager' = "adding"
  /\ UNCHANGED <<camera, manual, loop, dangling, fault, recon, backoff, todo, joining, stopped>>

StartCapture ==
  /\ manager = "adding" /\ ManagerFree /\ todo = {}
  /\ manager' = "idle" /\ capture' = "run"
  /\ UNCHANGED <<camera, manual, live, targets, fails, command, dangling, fault, recon, backoff, todo, joining, stopped>>

(***************************************************************************)
(* reapplySettings, after a change that needs a reconnect: the pinned      *)
(* packet sizes are dropped if the packet size is what changed, and every  *)
(* connected camera is faulted.                                            *)
(***************************************************************************)
Reapply ==
  /\ MayReapply /\ manager = "idle" /\ ReconFree
  /\ pinned' \in {pinned, {}}
  /\ manager' = "listing"
  /\ UNCHANGED <<camera, manual, loop, dangling, fault, recon, attempts, connectedAt, todo, joining, stopped>>

ListDevices ==
  /\ manager = "listing"
  /\ todo' = devices /\ manager' = "faulting"
  /\ UNCHANGED <<camera, manual, loop, dangling, fault, recon, backoff, joining, stopped>>

FaultListed(s) ==
  /\ manager = "faulting" /\ ManagerFree /\ s \in todo
  /\ todo' = todo \ {s}
  /\ dangling' = dangling \cup (targets \cap devices \cap {s})
  /\ Remove(s)
  /\ fault' = [fault EXCEPT !["manager"] = <<"account", s>>]
  /\ UNCHANGED <<manual, loop, recon, backoff, manager, joining, stopped>>

EndReapply ==
  /\ manager = "faulting" /\ ManagerFree /\ todo = {}
  /\ manager' = "idle"
  /\ UNCHANGED <<camera, manual, loop, dangling, fault, recon, backoff, todo, joining, stopped>>

(***************************************************************************)
(* stop_vlc.  CameraWorker calls it once or twice, then joins the capture  *)
(* thread and destroys the camera, which calls it a last time.             *)
(***************************************************************************)
StopVlc(next) ==
  /\ live' = FALSE
  /\ manager' = next
  /\ UNCHANGED <<camera, manual, capture, targets, fails, command, dangling, fault, recon,
                 backoff, todo, joining, stopped>>

StopSource ==
  /\ MayStop /\ manager = "idle"
  /\ StopVlc("stopping")

JoinCapture ==
  /\ manager = "idle" /\ stopped /\ capture = "exited"
  /\ StopVlc("destroying")

\* Slip: the workers are told to stop and not joined.
StopAllDetaches ==
  /\ manager \in {"stopping", "destroying"} /\ ReconFree
  /\ manager' = IF manager = "stopping" THEN "joining" ELSE "lastJoin"
  /\ entry' = {} /\ running' = {}
  /\ UNCHANGED <<camera, manual, loop, dangling, fault, worker, held, backoff, todo, joining, stopped>>

StopAll ==
  /\ manager \in {"stopping", "destroying"} /\ ReconFree
  /\ manager' = IF manager = "stopping" THEN "joining" ELSE "lastJoin"
  /\ joining' = {t \in entry : worker[t] # "none"}
  /\ entry' = {} /\ running' = {}
  /\ UNCHANGED <<camera, manual, loop, dangling, fault, worker, held, backoff, todo, stopped>>

ReleaseDevices ==
  /\ manager \in {"joining", "lastJoin"} /\ joining = {}
  /\ manager' = IF manager = "joining" THEN "idle" ELSE "destroyed"
  /\ stopped' = TRUE
  /\ devices' = {} /\ exposure' = [s \in Serials |-> "none"]
  /\ dangling' = dangling \cup (targets \cap devices)
  /\ UNCHANGED <<manual, loop, fault, recon, backoff, todo, joining>>

Stop == StopSource \/ JoinCapture \/ StopAll \/ ReleaseDevices

Manager ==
  \/ \E s \in Serials : AddCamera(s) \/ ReslaveOther(s) \/ FaultListed(s)
  \/ NoneToReslave \/ StartCapture \/ ListDevices \/ EndReapply
  \/ AccountFault("manager") \/ StartReconnect("manager") \/ JoinPrior("manager")

----------------------------------------------------------------------------
Init ==
  /\ devices = {} /\ exposure = [s \in Serials |-> "none"] /\ manual = {}
  /\ live = FALSE /\ capture = "none" /\ targets = {} /\ dangling = {}
  /\ fails = [s \in Serials |-> 0] /\ command = << >>
  /\ fault = [c \in Faulters |-> << >>]
  /\ entry = {} /\ running = {}
  /\ worker = [t \in Threads |-> "none"] /\ held = {}
  /\ attempts = [s \in Serials |-> 0] /\ connectedAt = [s \in Serials |-> "never"]
  /\ pinned = {}
  /\ manager = "adding" /\ todo = Serials /\ joining = {} /\ stopped = FALSE

Next ==
  \/ Capture \/ Manager \/ Reapply \/ Stop
  \/ \E kind \in {"set", "revert"}, s \in Serials : Command(kind, s)
  \/ \E t \in Threads : Worker(t)
  \/ \E s \in Serials : Age(s)

Spec == Init /\ [][Next]_vars

(***************************************************************************)
(* Every thread runs, and a thread that waits for a mutex gets it.  No     *)
(* fairness for commands, reapplies and stops (the operator's) or for      *)
(* time.  The environment: a camera that is opened again and again does    *)
(* open once.                                                              *)
(***************************************************************************)
FairSpec ==
  /\ Spec
  /\ WF_vars(Capture) /\ WF_vars(Manager)
  /\ \A t \in Threads : WF_vars(Worker(t)) /\ SF_vars(OpenConfigure(t))

----------------------------------------------------------------------------
(***************************************************************************)
(* Properties.                                                             *)
(***************************************************************************)
Phases == {"account", "start", "join"}

CameraOK ==
  /\ devices \subseteq Serials
  /\ exposure \in [Serials -> {"none", "auto", "manual"}]
  /\ manual \subseteq Serials

LoopOK ==
  /\ live \in BOOLEAN
  /\ capture \in {"none", "run", "enter", "test", "drain", "grab", "exited"}
  /\ targets \subseteq Serials /\ dangling \subseteq targets
  /\ targets # {} => capture = "grab"
  /\ fails \in [Serials -> 0..(FailThreshold - 1)]
  /\ command \in {<< >>} \cup ({"set", "revert"} \X Serials)
  /\ command # << >> => capture = "drain"

ReconOK ==
  /\ fault \in [Faulters -> {<< >>} \cup (Phases \X Serials)]
  /\ fault["capture"] # << >> => capture = "grab"
  /\ fault["manager"] # << >> => manager \in {"adding", "reslaving", "faulting"}
  /\ entry \subseteq Threads /\ running \subseteq Serials /\ held \subseteq Threads
  /\ worker \in [Threads -> {"none", "test", "present", "sleep", "open", "override",
                             "store", "stamp", "end"}]
  /\ attempts \in [Serials -> 0..MaxShift]
  /\ connectedAt \in [Serials -> {"never", "recent", "stable"}]
  /\ pinned \subseteq Serials

ControlOK ==
  /\ manager \in {"adding", "reslaving", "idle", "listing", "faulting", "stopping", "joining",
                  "destroying", "lastJoin", "destroyed"}
  /\ manager \in {"adding", "reslaving"} => capture = "none"
  /\ todo \subseteq Serials /\ joining \subseteq Threads /\ stopped \in BOOLEAN
  /\ MayReapply \/ manager \notin {"listing", "faulting"}
  /\ MayStop \/ manager \notin {"stopping", "joining", "destroying", "lastJoin", "destroyed"}
  /\ MayStop \/ ~stopped

\* Type: every variable keeps to its range, and a thread holds targets, a
\* command or a fault only where it may (CapturePipeline.cpp:105-190).
TypeOK == CameraOK /\ LoopOK /\ ReconOK /\ ControlOK

\* The capture thread never uses a raw device pointer whose device another
\* thread has destroyed: "Devices are ... REMOVED only on the capture thread
\* ... raw pointers ... stay valid for that capture iteration"
\* (CameraContext.h:13-15).
PointerSafety == dangling = {}

\* Until the camera is told to stop.
Serving == ~stopped /\ manager \notin {"stopping", "joining"}

\* A worker that publishes a device finds the serial absent: it never destroys
\* a device that is in use, and a camera is never open twice, however faults of
\* two threads, reapplies and commands interleave (ConnectionSupervisor.cpp:176-181).
StoreFindsEmpty ==
  Serving => \A t \in Threads : worker[t] = "store" => t[1] \notin devices

\* Two threads never reconnect one camera at the same time, and one that does is
\* marked running: so handleFault joins finished workers only, and does not wait
\* for one that needs its lock (ConnectionSupervisor.cpp:847-851).
OneWorkerPerCamera ==
  Serving =>
    \A t \in Threads : worker[t] # "none" =>
      /\ t[1] \in running
      /\ \A u \in Threads : t[1] = u[1] /\ worker[u] # "none" => t = u

\* When the camera has been destroyed no thread of it is left to use it, and
\* every device has been released (BaslerCamera_facade.cpp:389-407).
NothingOutlives ==
  manager = "destroyed" => (\A t \in Threads : worker[t] = "none") /\ devices = {}

\* A worker does not give up: a camera that comes back is connected, unless it
\* is told to stop (ConnectionSupervisor.cpp:881-913).
RetriesUntilConnected ==
  \A t \in Threads : worker[t] = "sleep" ~> t[1] \in devices \/ ~Serving

----------------------------------------------------------------------------
(***************************************************************************)
(* What comments say and the code does not keep.                           *)
(***************************************************************************)
\* "On a fault it removes the device ... and starts a per-serial backoff worker
\* that retries until it succeeds or is told to stop" (ConnectionSupervisor.h:
\* 9-11): a camera that is neither connected nor being faulted has a worker
\* that will connect it.
AbsentMeansReconnecting ==
  manager = "idle" /\ ~stopped =>
    \A s \in Serials \ devices :
      \/ \E c \in Faulters : fault[c] \in Phases \X {s}
      \/ \E w \in Slots : worker[<<s, w>>] \notin {"none", "end"}

\* "join a finished prior worker" (ConnectionSupervisor.cpp:851): handleFault never
\* waits, holding the lock, for a live worker that needs the lock to end.
JoinsOnlyFinished == ReconFree
=============================================================================
