-------------------------------- MODULE MCParts --------------------------------
(* Eight parts that share no state, checked in one run: every behaviour is one   *)
(* of exactly one of them, and the others stay as they begin.                   *)
EXTENDS PlateSender

CONSTANTS
    MinSize, Increment, Values, MaxMessages, MaxFailures,
    MaxTimeLost, KeptRemoved, MaxDets, MaxFrames, MaxIds,
    Costs, Half, MaxRows, MaxCols,
    Cameras, Nics, Large, Triggered, Master, Link, Totals, MaxIndex, MaxSteps,
    Lights, Target, Deadband, Cap, NodeMax, Ceiling, GainMin, GainMax, NodeGain, GainStep,
    StepRatio, Damp, Least, Fraction, White, Interval, MaxChanges,
    Pair, Modes, MaxSaves

VARIABLES
    part,
    requests, batch, cam, present, grabbing, file, shipped, wanted, got, failures,
    tracked, lostTracks, removed, frame, ids, labels, crowds,
    rows, cols, cost, step, x, y, v, free, current, reduced, kept, round, d, pred, ready, scan,
    pc, on, dualRunning, have, fresh, pair, signalled, stopped, lostStops,
    announced, home, index, next, at, nic, total, counted, slot, nodes, written,
    ceil, cur, steps,
    light, exposure, gain, profile, strategy, ema, wait, parity, changes,
    settings, saves, members, snapshot, hasMono, profiles, attempt, device, manager, todo, missed

Dual == INSTANCE DualCaptureSource WITH running <- dualRunning, lost <- lostStops
Tracker == INSTANCE ByteTracker WITH lost <- lostTracks
Matching == INSTANCE Assignment WITH count <- reduced
\* What the others see of it.
Unmatched == INSTANCE Assignment WITH count <- reduced, Costs <- {0}, MaxRows <- 1, MaxCols <- 1

Sensor == [a \in {"x", "y"} |-> IF a = "x" THEN 6 ELSE 4]
Crop(w, h, left, top) ==
    [a \in {"x", "y"} |-> IF a = "x" THEN [size |-> w, at |-> left] ELSE [size |-> h, at |-> top]]
\* All of the sensor, two parts of it, a request without offsets and one that
\* is neither aligned nor inside.
Crops == {Crop(6, 4, 0, 0), Crop(2, 2, 4, 2), Crop(4, 4, 2, 0), Crop(4, -1, -1, -1),
          Crop(9, 9, 3, 3)}
Operator == INSTANCE CameraCommands WITH queue <- requests

Share == INSTANCE BandwidthShare WITH configured <- announced, pc <- at, count <- counted
Exposure == INSTANCE ExposureControl WITH configured <- profile
Roles == INSTANCE CameraRoles WITH Cameras <- Pair, profile <- profiles

ASSUME OperatorAssumption == Operator!SensorAssumption
ASSUME TrackerAssumption == Tracker!BoundsAssumption
ASSUME MatchingAssumption == Matching!CostsAssumption /\ Matching!BoundsAssumption
ASSUME ShareAssumption == Share!LinkAssumption
ASSUME LoopAssumption == Exposure!ExposureAssumption
ASSUME FacadeAssumption == Roles!RolesAssumption

operatorVars == <<requests, batch, cam, present, grabbing, file, shipped, wanted, got, failures>>
trackerVars == <<tracked, lostTracks, removed, frame, ids, labels, crowds>>
matchingVars == <<rows, cols, cost, step, x, y, v, free, current, reduced, kept, round,
                  d, pred, ready, scan>>
dualVars == <<pc, on, dualRunning, have, fresh, pair, signalled, stopped, lostStops>>
shareVars == <<announced, home, index, next, at, nic, total, counted, slot, nodes, written,
               ceil, cur, steps>>
exposureVars == <<light, exposure, gain, profile, strategy, ema, wait, parity, changes>>
rolesVars == <<settings, saves, members, snapshot, hasMono, profiles, attempt, device,
               manager, todo, missed>>
connectVars == <<shareVars, rolesVars>>
othersVars == <<connectVars, exposureVars>>

\* What the others see of three parts that begin in many ways.
UnusedShare ==
    /\ announced = 0 /\ home = << >> /\ index = << >> /\ next = << >> /\ at = << >>
    /\ nic = << >> /\ total = << >> /\ counted = << >> /\ slot = << >> /\ nodes = << >>
    /\ written = << >> /\ ceil = << >> /\ cur = << >> /\ steps = 0
UnusedExposure ==
    /\ light = 0 /\ exposure = 0 /\ gain = 0 /\ profile = "none" /\ strategy = "none"
    /\ ema = 0 /\ wait = 0 /\ parity = 0 /\ changes = 0
UnusedRoles ==
    /\ settings = "none" /\ saves = 0 /\ members = "none" /\ snapshot = "none"
    /\ hasMono = FALSE /\ profiles = << >> /\ attempt = << >> /\ device = << >>
    /\ manager = "none" /\ todo = {} /\ missed = {}

PartsInit ==
    /\ part \in {"sender", "operator", "tracker", "matching", "dual", "share", "exposure",
                "roles"}
    /\ Init /\ Operator!Init /\ Tracker!Init /\ Dual!Init
    /\ IF part = "share" THEN Share!Init ELSE UnusedShare
    /\ IF part = "exposure" THEN Exposure!Init ELSE UnusedExposure
    /\ IF part = "roles" THEN Roles!Init ELSE UnusedRoles
    /\ IF part = "matching" THEN Matching!Init ELSE Unmatched!Init

Sends == part = "sender" /\ Next
         /\ UNCHANGED <<part, operatorVars, trackerVars, matchingVars, dualVars, othersVars>>
Operates == part = "operator" /\ Operator!Next
            /\ UNCHANGED <<part, vars, trackerVars, matchingVars, dualVars, othersVars>>
Tracks == part = "tracker" /\ Tracker!Next
          /\ UNCHANGED <<part, vars, operatorVars, matchingVars, dualVars, othersVars>>
Matches == part = "matching" /\ Matching!Next
           /\ UNCHANGED <<part, vars, operatorVars, trackerVars, dualVars, othersVars>>
Captures == part = "dual" /\ Dual!Next
            /\ UNCHANGED <<part, vars, operatorVars, trackerVars, matchingVars, othersVars>>
Shares == part = "share" /\ Share!Next
          /\ UNCHANGED <<part, vars, operatorVars, trackerVars, matchingVars, dualVars,
                         rolesVars, exposureVars>>
Exposes == part = "exposure" /\ Exposure!Next
           /\ UNCHANGED <<part, vars, operatorVars, trackerVars, matchingVars, dualVars,
                          connectVars>>
Assigns == part = "roles" /\ Roles!Next
           /\ UNCHANGED <<part, vars, operatorVars, trackerVars, matchingVars, dualVars,
                          shareVars, exposureVars>>

PartsNext ==
    Sends \/ Operates \/ Tracks \/ Matches \/ Captures \/ Shares \/ Exposes \/ Assigns

\* The dual source's threads go on and frames reach the exposure loop; the
\* rest owes nothing.
PartsSpec ==
    /\ PartsInit
    /\ [][PartsNext]_<<part, vars, operatorVars, trackerVars, matchingVars, dualVars,
                   othersVars>>
    /\ Dual!Fairness /\ Exposure!Fairness

\* The crop that was asked for last is the crop (SetAoiCommand, drain).
CropAsAsked == part = "operator" => Operator!CropAsAsked

\* The lists of tracks are sound (BYTETracker::update).
TracksAreSound == part = "tracker" => Tracker!TracksAreSound

\* A track that is found again is the same vehicle (STrack::re_activate).
LabelIsKept == Tracker!LabelIsKept

\* The assignment is a cheapest one (lapjv_internal).
Optimal == part = "matching" => Matching!Optimal

\* run() of the dual source returns (DualCaptureSource).
RunReturns == Dual!RunReturns

\* The cameras of an interface have indices of their own, and what they send
\* fits it (GigEBandwidthCoordinator, applyBandwidth).
SharesAreSound == part = "share" => Share!SharesAreSound

\* The exposure loop spares gain and sharpness, and settles
\* (AutoExposureStrategy::apply, decideExposure).
LoopIsSound == Exposure!ActuatorPriority /\ Exposure!Settles

\* A camera runs with the settings and the role of its facade unless the change
\* passed it over (BaslerCamera, ConnectionSupervisor).
RolesAreSound == part = "roles" => Roles!RolesAreSound
===============================================================================
