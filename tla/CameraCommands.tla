---------------------------- MODULE CameraCommands ----------------------------
(* The commands an operator sends to a Basler camera: made from a message by    *)
(* makeCommand on the thread that received it, queued, and executed by the      *)
(* capture thread, where each finds its camera, or not, and may fail half way.  *)
(*                                                                              *)
(* A camera is its crop (the AOI: a size and an offset per axis) and its        *)
(* trigger.  It keeps a crop inside the sensor: the largest size depends on the *)
(* offset and the largest offset on the size, and the size can not be written   *)
(* while it grabs.  The commands for exposure and gain go to the supervisor     *)
(* (BaslerSupervisor) and leave this node map alone.                            *)
EXTENDS Integers, Sequences, SequencesExt, FiniteSets

CONSTANTS
    Sensor,             \* [Axes -> Nat]: pixels of the sensor
    MinSize, Increment, \* of a size; an offset starts at 0 and has the same step
    Crops,              \* [Axes -> [size, at]] that are asked for; -1: not said
    Values,             \* values written to the node of an offset or a size
    MaxMessages, MaxFailures \* bounds

Axes == {"x", "y"}

\* What is assumed of the constants.
SensorAssumption ==
    /\ MinSize \in Nat \ {0} /\ Increment \in Nat \ {0} /\ MaxMessages \in Nat
    /\ MaxFailures \in Nat /\ Sensor \in [Axes -> Nat] /\ Values \subseteq Int
    /\ \A a \in Axes : Sensor[a] >= MinSize /\ (Sensor[a] - MinSize) % Increment = 0
    /\ Crops \subseteq [Axes -> [size : Int, at : Int]]

VARIABLES
    queue, batch,  \* CommandQueue::q_, and what drain() took out of it
    cam,           \* the node map of the camera
    present,       \* whether resolve() finds the camera
    grabbing,      \* isGrabbing()
    file, shipped, \* the preset on disk, and the one stashed for the operator, if any
    wanted,        \* the crop that was asked for last, where nothing undid it
    got, failures  \* messages received, commands that failed

vars == <<queue, batch, cam, present, grabbing, file, shipped, wanted, got, failures>>

Nothing == {}
FullSensor == [a \in Axes |-> [size |-> Sensor[a], at |-> 0]]
Default == [crop |-> FullSensor, trigger |-> "off"]

Commands ==
    [op : {"aoi"}, crop : Crops]
    \cup [op : {"parameter"}, node : {"size", "at"}, axis : Axes, value : Values]
    \cup [op : {"trigger"}, mode : {"off", "on", "software"}]
    \cup [op : {"exposure", "save", "load", "export", "import", "reset", "none"}]

Init ==
    /\ queue = <<>> /\ batch = <<>> /\ cam = Default /\ present = TRUE /\ grabbing = TRUE
    /\ file = Nothing /\ shipped = Nothing /\ wanted = Nothing /\ got = 0 /\ failures = 0

-------------------------------------------------------------------------------
Between(v, low, high) == IF v > high THEN high ELSE IF v < low THEN low ELSE v
Align(v, low) == IF v < low THEN low ELSE low + ((v - low) \div Increment) * Increment

\* Width.GetMax(), Height.GetMax().
MaxSize(crop, a) == Sensor[a] - crop[a].at

\* Slip: the offsets are left where they are until the sizes are set.
LeftThere(crop, a) == crop

\* SetAoiCommand zeroes the offset of an axis, and sets its size and its offset unless the
\* message did not say them.
Zeroed(crop, a) == [crop EXCEPT ![a].at = 0]

Sized(crop, want, a) ==
    IF want[a].size <= 0 THEN crop
    ELSE [crop EXCEPT ![a].size =
                          Between(Align(want[a].size, MinSize), MinSize, MaxSize(crop, a))]

Placed(crop, want, a) ==
    IF want[a].at < 0 THEN crop
    ELSE [crop EXCEPT ![a].at =
                          Between(Align(want[a].at, 0), 0, MaxSize(crop, a) - crop[a].size)]

\* The crop after the first k of its writes.
Writes == 6
SetAoi(crop, want, k) ==
    LET c1 == IF k < 1 THEN crop ELSE Zeroed(crop, "x")
        c2 == IF k < 2 THEN c1 ELSE Zeroed(c1, "y")
        c3 == IF k < 3 THEN c2 ELSE Sized(c2, want, "x")
        c4 == IF k < 4 THEN c3 ELSE Sized(c3, want, "y")
        c5 == IF k < 5 THEN c4 ELSE Placed(c4, want, "x")
    IN IF k < Writes THEN c5 ELSE Placed(c5, want, "y")

\* SetParameterCommand on one node of the crop: clamped, then aligned.
SetParameter(crop, node, a, v) ==
    IF node = "at"
    THEN [crop EXCEPT ![a].at = Align(Between(v, 0, Sensor[a] - crop[a].size), 0)]
    ELSE IF grabbing THEN crop
    ELSE [crop EXCEPT ![a].size = Align(Between(v, MinSize, MaxSize(crop, a)), MinSize)]

\* The node map a command leaves behind, after k of its writes.  The presets
\* hold all of it; one that is not there changes nothing.
Executed(c, k) ==
    IF c.op = "aoi" THEN [cam EXCEPT !.crop = SetAoi(@, c.crop, k)]
    ELSE IF k < Writes THEN cam
    ELSE CASE c.op = "parameter" ->
                [cam EXCEPT !.crop = SetParameter(@, c.node, c.axis, c.value)]
           [] c.op = "trigger" -> [cam EXCEPT !.trigger = c.mode]
           [] c.op = "load" /\ file # Nothing -> CHOOSE p \in file : TRUE
           [] c.op = "import" /\ shipped # Nothing -> CHOOSE p \in shipped : TRUE
           [] c.op = "reset" -> Default
           [] OTHER -> cam

\* The commands that stop the grab and start it again.
Stops(c) == c.op \in {"aoi", "import", "reset"} \/ (c.op = "load" /\ file # Nothing)

MovesCrop(c) == c.op \in {"aoi", "parameter", "load", "import", "reset"}

\* A crop that is said in full, aligned, and inside the sensor.
Exact(crop) ==
    \A a \in Axes :
        /\ crop[a].size >= MinSize /\ (crop[a].size - MinSize) % Increment = 0
        /\ crop[a].at >= 0 /\ crop[a].at % Increment = 0
        /\ crop[a].size + crop[a].at <= Sensor[a]

\* makeCommand() and push(); a message that makes no command is dropped here.
Receive(c) ==
    /\ got < MaxMessages
    /\ got' = got + 1
    /\ queue' = IF c.op = "none" THEN queue ELSE Append(queue, c)
    /\ wanted' = IF c.op = "aoi" /\ Exact(c.crop) THEN {c.crop}
                 ELSE IF MovesCrop(c) THEN Nothing ELSE wanted
    /\ UNCHANGED <<batch, cam, present, grabbing, file, shipped, failures>>

\* drain(): takes everything and lets go of the lock.
Drain ==
    /\ batch = <<>> /\ queue # <<>>
    /\ batch' = queue /\ queue' = <<>>
    /\ UNCHANGED <<cam, present, grabbing, file, shipped, wanted, got, failures>>

\* What was asked for is gone with a command for the crop that does not finish,
\* unless a newer one is still to come.
Undone ==
    IF MovesCrop(Head(batch)) /\ ~\E c \in Range(Tail(batch) \o queue) : MovesCrop(c)
    THEN Nothing ELSE wanted

\* A command finds its camera and is executed to its end.
Execute ==
    /\ batch # <<>> /\ present
    /\ LET c == Head(batch)
       IN /\ cam' = Executed(c, Writes)
          /\ file' = IF c.op = "save" THEN {cam} ELSE file
          /\ shipped' = IF c.op = "export" THEN {cam} ELSE shipped
    /\ batch' = Tail(batch)
    /\ UNCHANGED <<queue, present, grabbing, wanted, got, failures>>

\* The camera throws: an AOI may be half written; the grab is restarted, unless
\* it is that which throws.  The others of the batch are executed all the same.
Fail ==
    /\ batch # <<>> /\ present /\ failures < MaxFailures
    /\ failures' = failures + 1
    /\ \E k \in 0..Writes :
          /\ cam' = Executed(Head(batch), k)
          /\ grabbing' \in IF Stops(Head(batch)) THEN {grabbing, FALSE} ELSE {grabbing}
    /\ batch' = Tail(batch) /\ wanted' = Undone
    /\ UNCHANGED <<queue, present, file, shipped, got>>

\* The camera is not there: the command is dropped.
Skip ==
    /\ batch # <<>> /\ ~present
    /\ batch' = Tail(batch) /\ wanted' = Undone
    /\ UNCHANGED <<queue, cam, present, grabbing, file, shipped, got, failures>>

\* The supervisor loses the camera, between two commands, or connects it, with
\* what it powers on with.
Lose ==
    /\ present /\ present' = FALSE
    /\ wanted' = IF \E c \in Range(batch \o queue) : MovesCrop(c) THEN wanted ELSE Nothing
    /\ UNCHANGED <<queue, batch, cam, grabbing, file, shipped, got, failures>>

Connect ==
    /\ ~present /\ present' = TRUE /\ cam' = Default /\ grabbing' = TRUE
    /\ UNCHANGED <<queue, batch, file, shipped, wanted, got, failures>>

Next ==
    \/ \E c \in Commands : Receive(c)
    \/ Drain \/ Execute \/ Fail \/ Skip \/ Lose \/ Connect

Spec == Init /\ [][Next]_vars
-------------------------------------------------------------------------------
\* A crop that is said in full and fits is the crop the camera has once all that
\* was sent has been executed, wherever the crops before it were, whatever else
\* was sent and whichever of the commands before it failed half way (the order
\* of SetAoiCommand's writes, CommandQueue::drain).
CropAsAsked ==
    (queue = <<>> /\ batch = <<>> /\ wanted # Nothing) => wanted = {cam.crop}
===============================================================================
