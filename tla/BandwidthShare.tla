--------------------------- MODULE BandwidthShare ---------------------------
(***************************************************************************)
(* How the cameras of one process share their network links:               *)
(* GigEBandwidthCoordinator, the registry all of them use, and             *)
(* ConnectionSupervisor::applyBandwidth, which every camera that connects  *)
(* or reconnects runs on a thread of its own.  The registry's mutex is     *)
(* held for one call at a time, so each call is a step.                    *)
(*                                                                         *)
(* A camera that is lost stays registered: nobody calls unregisterCamera.  *)
(* It may come back on another interface (recabled).  The bandwidth of an  *)
(* interface is Link units per time unit; a frame of a Large camera has    *)
(* two units, any other one.  Every camera lets its inter-packet delay be  *)
(* set, and the settings give no cap of the rate of their own.             *)
(*                                                                         *)
(* The capture loop lowers the rate of a camera whose frames get lost and  *)
(* raises it again when they do not (CapturePipeline::run, adaptRate).     *)
(***************************************************************************)
EXTENDS Integers, FiniteSetsExt

CONSTANTS
  Cameras,    \* serial numbers
  Nics,       \* network interfaces
  Large,      \* the cameras that send full frames
  Triggered,  \* the slaves: each frame is triggered by the Master
  Master,
  Link,       \* units an interface carries per time unit
  Totals,     \* what get_num_camera may say; 0 is nothing
  MaxIndex,   \* bound: indices given, on all interfaces
  MaxSteps    \* bound: windows in which the capture loop changes a rate

NoNic == "none"

\* A unit is small enough for every share of a link to have one.
LinkAssumption ==
  /\ IsFiniteSet(Cameras) /\ Large \cup Triggered \subseteq Cameras
  /\ Link \in Nat \ {0} /\ Totals \subseteq 0..Link /\ Cardinality(Cameras) <= Link
  /\ NoNic \notin Nics /\ {MaxIndex, MaxSteps} \subseteq Nat

VARIABLES
  configured,   \* the number of cameras in the settings
  home, index,  \* cams_: the interface and index a serial is registered with
  next,         \* nextIndex_
  pc,           \* what the camera's thread does next
  nic,          \* where the camera is plugged in
  total, count, \* num_cam and nicCount of the call under way
  slot,         \* idx
  nodes,        \* the camera's own delay, offset and rate
  written,      \* how many of them its last call has written
  ceil, cur,    \* adapt: the rate the capture loop goes back to, and its last
  steps

registry == <<home, index, next>>
call     == <<total, count, slot>>
adapt    == <<ceil, cur, steps>>
vars     == <<configured, registry, pc, nic, call, nodes, written, adapt>>

\* A camera as it comes: no delay, no offset, the sensor's own rate.
Factory == [delay |-> 0, offset |-> 0, rate |-> Link]

Init ==
  /\ configured \in Totals
  /\ home = [s \in Cameras |-> NoNic] /\ index = [s \in Cameras |-> 0]
  /\ next = [n \in Nics |-> 0]
  /\ pc = [s \in Cameras |-> "off"] /\ nic = [s \in Cameras |-> NoNic]
  /\ total = [s \in Cameras |-> 1] /\ count = [s \in Cameras |-> 1]
  /\ slot = [s \in Cameras |-> 0]
  /\ nodes = [s \in Cameras |-> Factory] /\ written = [s \in Cameras |-> 0]
  /\ ceil = [s \in Cameras |-> 0] /\ cur = [s \in Cameras |-> 0] /\ steps = 0

CountInGroup(n) == Max({1, Cardinality({s \in Cameras : home[s] = n})})

-----------------------------------------------------------------------------
(* The thread that connects a camera.                                      *)

Goto(s, here, there) == pc[s] = here /\ pc' = [pc EXCEPT ![s] = there]

\* Bound: no more cameras that are new on an interface.
Full == MapThenSumSet(LAMBDA m : next[m], Nics) >= MaxIndex

\* The device has been opened, which no other camera notices.  The total is the
\* configured number, or the number now registered on this interface.
Begin(s) ==
  /\ Goto(s, "off", "count")
  /\ \E n \in Nics :
       /\ n = home[s] \/ ~Full
       /\ nic' = [nic EXCEPT ![s] = n]
       /\ total' = [total EXCEPT ![s] =
                      IF configured > 0 THEN configured ELSE CountInGroup(n)]
  /\ UNCHANGED <<configured, registry, count, slot, nodes, written, adapt>>

CountNic(s) ==
  /\ Goto(s, "count", "register")
  /\ count' = [count EXCEPT ![s] = CountInGroup(nic[s])]
  /\ UNCHANGED <<configured, registry, nic, total, slot, nodes, written, adapt>>

\* Slip: the index of a new camera is the number of cameras already there.
IndexByCount(s) ==
  IF home[s] = nic[s] THEN index[s] ELSE Cardinality({t \in Cameras : home[t] = nic[s]})

\* A serial keeps its index as long as it stays on its interface; a new one
\* gets the next that was never given there.
IndexOf(s) == IF home[s] = nic[s] THEN index[s] ELSE next[nic[s]]

Register(s) ==
  /\ Goto(s, "register", "nodes")
  /\ index' = [index EXCEPT ![s] = IndexOf(s)]
  /\ home' = [home EXCEPT ![s] = nic[s]]
  /\ next' = [next EXCEPT ![nic[s]] = IF home[s] = nic[s] THEN @ ELSE @ + 1]
  /\ slot' = [slot EXCEPT ![s] = Min({IndexOf(s), count[s] - 1})]
  /\ UNCHANGED <<configured, nic, total, count, nodes, written, adapt>>

\* Its part of the link, and the units of a frame.
Share(s)   == Link \div total[s]
Payload(s) == IF s \in Large THEN 2 ELSE 1

\* GevSCPD: after each packet, as long as the others need for one of theirs.
Delay(s) == total[s] - 1
\* GevSCFTD: slot times a total-th of the frame period.  The period is that
\* of the capped rate, Payload / Share, so a total-th is the time the link
\* takes for one frame of this camera.
Offset(s) == slot[s] * Payload(s)

\* AcquisitionFrameRate: what the bandwidth the camera reports, or else its
\* share, carries; less when some is reserved for resends.  A slave is left
\* at its own: the trigger decides.
Rates(s) == IF s \in Triggered THEN {nodes[s].rate}
            ELSE {(Share(s) - reserve) \div Payload(s) : reserve \in {0, 1}}

EndCall(s) ==
  /\ total' = [total EXCEPT ![s] = 1] /\ count' = [count EXCEPT ![s] = 1]
  /\ slot' = [slot EXCEPT ![s] = 0]

\* The nodes are written one after the other; a node that throws ends the
\* call, which is no reason to give the camera up.
Tune(s) ==
  /\ Goto(s, "nodes", "on")
  /\ \E done \in 0..3, r \in Rates(s) :
       /\ written' = [written EXCEPT ![s] = done]
       /\ nodes' = [nodes EXCEPT ![s] =
            [delay  |-> IF done >= 1 THEN Delay(s) ELSE @.delay,
             offset |-> IF done >= 2 THEN Offset(s) ELSE @.offset,
             rate   |-> IF done >= 3 THEN r ELSE @.rate]]
  /\ EndCall(s)
  /\ UNCHANGED <<configured, registry, nic, adapt>>

\* handleFault does not tell the registry.  What the camera still holds when
\* it comes back makes no difference here: a call writes all of it, or does
\* not count as one that did.
Lose(s) ==
  /\ Goto(s, "on", "off")
  /\ nodes' = [nodes EXCEPT ![s] = Factory] /\ written' = [written EXCEPT ![s] = 0]
  /\ UNCHANGED <<configured, registry, nic, call, adapt>>

(* The capture loop. *)

\* gigeAdaptDecide: down by a quarter but not below 1, up towards the rate the
\* camera had when it was first seen, or left alone.
Decisions(rate, top) ==
  {rate} \cup (IF rate > 1 THEN {Max({1, (3 * rate) \div 4})} ELSE {})
         \cup (IF rate < top THEN {Min({top, rate + 1})} ELSE {})

\* A window is over.  What the loop knows of a camera is made when the first
\* one begins and outlives every reconnect; a triggered camera is skipped.
AdaptRate(s) ==
  /\ pc[s] = "on" /\ s \notin Triggered /\ steps < MaxSteps
  /\ ceil' = [ceil EXCEPT ![s] = IF @ = 0 THEN nodes[s].rate ELSE @]
  /\ \E r \in Decisions(IF ceil[s] = 0 THEN nodes[s].rate ELSE cur[s], ceil'[s]) :
       /\ cur' = [cur EXCEPT ![s] = r]
       /\ nodes' = [nodes EXCEPT ![s].rate = IF r = cur[s] THEN @ ELSE r]
  /\ steps' = steps + 1
  /\ UNCHANGED <<configured, registry, pc, nic, call, written>>

Next == \E s \in Cameras :
  \/ Begin(s) \/ CountNic(s) \/ Register(s) \/ Tune(s) \/ Lose(s)
  \/ AdaptRate(s)

Spec == Init /\ [][Next]_vars

-----------------------------------------------------------------------------
TypeOK ==
  /\ configured \in Totals
  /\ home \in [Cameras -> Nics \cup {NoNic}] /\ index \in [Cameras -> Nat]
  /\ next \in [Nics -> Nat]
  /\ pc \in [Cameras -> {"off", "count", "register", "nodes", "on"}]
  /\ nic \in [Cameras -> Nics \cup {NoNic}]
  /\ total \in [Cameras -> Totals \cup 1..Cardinality(Cameras)]
  /\ count \in [Cameras -> 1..Cardinality(Cameras)]
  /\ slot \in [Cameras -> 0..(Cardinality(Cameras) - 1)]
  /\ written \in [Cameras -> 0..3] /\ steps \in 0..MaxSteps
  /\ \A s \in Cameras : cur[s] \in 0..ceil[s]

\* The cameras that send over an interface, all of their nodes written.
Sending(n) == {s \in Cameras : pc[s] = "on" /\ nic[s] = n /\ written[s] = 3}

\* No two cameras of an interface have one index, however they come, go and
\* are recabled (GigEBandwidthCoordinator::registerCamera).
IndexIsOwn ==
  \A s, t \in Cameras :
    s # t /\ home[s] = home[t] /\ home[s] # NoNic => index[s] # index[t]

\* The units that cameras with these rates send, each with its sender.
Units(rate) == UNION {{s} \X (1..(rate[s] * Payload(s))) : s \in DOMAIN rate}

\* What the free-running cameras of an interface send fits it.
Fits(n) ==
  configured >= Cardinality(Sending(n)) =>
    Cardinality(Units([s \in Sending(n) \ Triggered |-> nodes[s].rate])) <= Link

\* It does as long as the interface has no more cameras than are configured
\* and the capture loop saw none of them first with more than its share
\* (applyBandwidth, step 7; adaptRate).
SumFits ==
  \A n \in Nics :
    (\A s \in Sending(n) \ Triggered : ceil[s] * Payload(s) * configured <= Link) => Fits(n)

\* The shares of a link: both of the above (GigEBandwidthCoordinator,
\* applyBandwidth).
SharesAreSound == TypeOK /\ IndexIsOwn /\ SumFits

\* What applyBandwidth's comment says the clamp to the number of cameras on
\* the interface is for: no two cameras of it start their frames together.
\* It does not hold: the number is read before the camera is registered.
StaggersDiffer ==
  \A n \in Nics : \A s, t \in Sending(n) :
    s # t /\ Payload(s) = Payload(t) => nodes[s].offset # nodes[t].offset

\* What applyBandwidth's comment says of a slave: the cap of its master
\* bounds its bandwidth too.  It does not hold when its frames are larger.
TriggeredFit ==
  \A n \in Nics : configured >= Cardinality(Sending(n)) /\ Master \in Sending(n) =>
    Cardinality(Units([s \in Sending(n) |->
                         nodes[IF s \in Triggered THEN Master ELSE s].rate])) <= Link

\* What the capture loop's comment says of a clean link: the rate goes back to
\* the cap of the connect.  It does not hold: it is that of the first connect.
AdaptedFit == \A n \in Nics : Fits(n)
=============================================================================
