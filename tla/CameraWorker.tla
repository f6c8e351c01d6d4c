----------------------------- MODULE CameraWorker -----------------------------
(* One camera from its source to the detection thread: CameraWorker (capture,   *)
(* motion gate, reconnect), the life of the CaptureSource it drives, the        *)
(* shared frame queue and the loop of DetectionWorker, under the shutdown       *)
(* order of Application::stop.                                                  *)
(*                                                                              *)
(* Threads: app (the main thread: start, then stop), sup (supervise()), src     *)
(* (the thread inside source_->run()), cb (a frame callback: on the source      *)
(* thread itself for video files, URLs and Basler, on a streaming thread of the *)
(* library for GStreamer and VLC) and det (DetectionWorker::run).               *)
EXTENDS Naturals, Sequences, FiniteSets, BlockingQueue, FramePair

CONSTANTS
    Kinds,        \* the sources checked: file, url, gst, vlc, pylon
    Sizes,        \* frame sizes (a live crop change resizes the frames)
    QueueCap,     \* capacity of the shared frame queue
    BaseDelay,    \* reconnectBaseMs
    MaxDelay,     \* reconnectMaxMs
    MaxFrames,    \* bound: frames delivered
    MaxSessions   \* bound: sources created

ASSUME KindsAssumption == Kinds \subseteq {"file", "url", "gst", "vlc", "pylon"}
ASSUME SizesAssumption == Sizes # {} /\ Sizes \subseteq Nat \ {Empty}
ASSUME BoundsAssumption ==
    /\ QueueCap \in Nat \ {0} /\ BaseDelay \in Nat \ {0} /\ MaxDelay \in Nat
    /\ BaseDelay <= MaxDelay /\ MaxFrames \in Nat /\ MaxSessions \in Nat

VARIABLES
    kind,        \* which CaptureSource the factory makes
    pc,          \* where each thread is
    running,     \* running_ of the CameraWorker
    detRunning,  \* running_ of the DetectionWorker
    errored, finished,   \* errored_, sourceFinished_
    source,      \* source_: is there one
    mtx,         \* holder of sourceMtx_
    keep,        \* the source's own stop flag: TRUE means keep capturing
    failed,      \* errorOccurred_ of GStreamer, done_ = 1 of VLC
    frame,       \* the frame the callback carries
    onColor,     \* cfg_.detectOnColor
    manual,      \* the gate is under manual control: frames read the sensor back
    stable,      \* framesThisSession_ > 0
    window,      \* prev_, curr_, next_: the frames the motion gate compares
    connected, status,       \* connected_ and the last status reported
    firstFrame, lastSize,    \* firstFrame_, lastCrudSize_
    reference,   \* size of the last reference image sent to the editors
    delay,       \* backoff
    queue,       \* the frame queue
    pushed, taken,           \* frames put into and taken out of the queue
    session, frames          \* counters for the bounds

control == <<running, detRunning, errored, finished>>
sourceVars == <<source, mtx, keep, failed>>
gate == <<stable, window, connected, status, firstFrame, lastSize, reference>>
flow == <<queue, pushed, taken>>
setup == <<kind, onColor, manual, delay, session, frames>>
vars == <<pc, control, sourceVars, frame, gate, flow, setup>>

NoFrame == [primary |-> Empty, secondary |-> Empty]

\* Frames of these sources arrive on the thread that is inside run().
OnRunThread == kind \in {"file", "url", "pylon"}
\* Slip: only a local file is taken for a video.
OnlyFilesBlock == kind = "file"

\* CameraManager::addCamera: type_of_link "video" blocks instead of dropping.
Backpressure == kind \in {"file", "url"}

FrameSet ==
    CASE kind = "pylon" -> [primary : Sizes, secondary : Sizes \cup {Empty}]
      [] kind = "url"   -> [primary : Sizes, secondary : {Empty}]
      [] OTHER          -> [primary : {CHOOSE z \in Sizes : TRUE}, secondary : {Empty}]

Init ==
    /\ kind \in Kinds
    /\ pc = [app |-> "start", sup |-> "none", src |-> "none", cb |-> "none",
             det |-> "none"]
    /\ running = FALSE /\ detRunning = FALSE /\ errored = FALSE /\ finished = FALSE
    /\ source = FALSE /\ mtx = "free" /\ keep = FALSE /\ failed = FALSE
    /\ frame = NoFrame /\ onColor = FALSE /\ manual = FALSE
    /\ stable = FALSE /\ window = <<>> /\ connected = FALSE /\ status = "none"
    /\ firstFrame = TRUE /\ lastSize = Empty /\ reference = Empty
    /\ delay = BaseDelay
    /\ queue = <<>> /\ pushed = 0 /\ taken = 0 /\ session = 0 /\ frames = 0

-------------------------------------------------------------------------------
(* The main thread.                                                             *)

\* Application::bootstrapFromJson starts the detection thread, then the cameras.
Start ==
    /\ pc.app = "start"
    /\ pc' = [pc EXCEPT !.app = "run", !.sup = "create", !.det = "pop"]
    /\ running' = TRUE /\ detRunning' = TRUE
    /\ UNCHANGED <<errored, finished, sourceVars, frame, gate, flow, setup>>

\* CameraWorker::stop: the flag and the wake-up ...
StopFlag ==
    /\ pc.app = "run"
    /\ pc' = [pc EXCEPT !.app = "lock"]
    /\ running' = FALSE
    /\ UNCHANGED <<detRunning, errored, finished, sourceVars, frame, gate, flow, setup>>

\* ... then source_->stop() under sourceMtx_, if there is a source.
StopLock ==
    /\ pc.app = "lock" /\ mtx = "free"
    /\ IF source
       THEN mtx' = "app" /\ keep' = FALSE /\ pc' = [pc EXCEPT !.app = "stopping"]
       ELSE UNCHANGED <<mtx, keep>> /\ pc' = [pc EXCEPT !.app = "join"]
    /\ UNCHANGED <<control, source, failed, frame, gate, flow, setup>>

\* GStreamer's change to NULL and libvlc's player_stop return once their
\* streaming thread has left the frame callback; the other stops only set a flag.
StopReturnsFromSource == OnRunThread \/ pc.cb = "none"

StopUnlock ==
    /\ pc.app = "stopping" /\ StopReturnsFromSource
    /\ mtx' = "free"
    /\ pc' = [pc EXCEPT !.app = "join"]
    /\ UNCHANGED <<control, source, keep, failed, frame, gate, flow, setup>>

\* The supervisor is joined; then DetectionWorker::stop sets its own flag ...
StopJoin ==
    /\ pc.app = "join" /\ pc.sup = "done"
    /\ pc' = [pc EXCEPT !.app = "detjoin"]
    /\ detRunning' = FALSE
    /\ UNCHANGED <<running, errored, finished, sourceVars, frame, gate, flow, setup>>

\* ... and joins the detection thread.
StopDetector ==
    /\ pc.app = "detjoin" /\ pc.det = "done"
    /\ pc' = [pc EXCEPT !.app = "returned"]
    /\ UNCHANGED <<control, sourceVars, frame, gate, flow, setup>>

\* An operator's command: CameraWorker::handleCommand switches detection between
\* the streams; Application::onCommand opens or reverts a manual-control session.
Command ==
    /\ pc.app = "run"
    /\ \/ kind = "pylon" /\ onColor' \in BOOLEAN /\ manual' = manual
       \/ mtx = "free" /\ manual' \in BOOLEAN /\ onColor' = onColor
    /\ UNCHANGED <<pc, control, sourceVars, frame, gate, flow, kind, delay, session, frames>>

-------------------------------------------------------------------------------
(* CameraWorker::supervise                                                      *)

\* The loop's test failed: the thread ends and leaves running_ clear.
SupExit ==
    /\ pc.sup = "create" /\ ~running
    /\ pc' = [pc EXCEPT !.sup = "done"]
    /\ UNCHANGED <<control, sourceVars, frame, gate, flow, setup>>

\* The factory returns a source or throws.
SupCreate ==
    /\ pc.sup = "create" /\ running /\ mtx = "free" /\ session < MaxSessions
    /\ session' = session + 1
    /\ \/ source' = TRUE /\ pc' = [pc EXCEPT !.sup = "launch"]
       \/ source' = FALSE /\ pc' = [pc EXCEPT !.sup = "backoff"]
    /\ UNCHANGED <<control, mtx, keep, failed, frame, gate, flow, kind, onColor,
                   manual, delay, frames>>

\* Slip: the old frames are not released.
KeptWindow == window

\* What a session starts with: no frame seen and no frame to compare with.
EmptyWindow == <<>>

SupLaunch ==
    /\ pc.sup = "launch"
    /\ pc' = [pc EXCEPT !.sup = "wait", !.src = "start"]
    /\ errored' = FALSE /\ finished' = FALSE /\ stable' = FALSE
    /\ window' = EmptyWindow
    /\ UNCHANGED <<running, detRunning, sourceVars, frame, connected, status,
                   firstFrame, lastSize, reference, flow, setup>>

\* Slip: the wait looks at running_ alone.
OnlyStopped == ~running

\* Slip: the wait does not look at running_.
OnlyEnded == errored \/ finished

\* The predicate supervise() waits for.
SessionOver == errored \/ finished \/ ~running

SupWake ==
    /\ pc.sup = "wait" /\ SessionOver
    /\ pc' = [pc EXCEPT !.sup = "stop"]
    /\ UNCHANGED <<control, sourceVars, frame, gate, flow, setup>>

SupStop ==
    /\ pc.sup = "stop" /\ mtx = "free"
    /\ mtx' = "sup" /\ keep' = FALSE
    /\ pc' = [pc EXCEPT !.sup = "stopping"]
    /\ UNCHANGED <<control, source, failed, frame, gate, flow, setup>>

SupUnlock ==
    /\ pc.sup = "stopping" /\ StopReturnsFromSource
    /\ mtx' = "free"
    /\ pc' = [pc EXCEPT !.sup = "join"]
    /\ UNCHANGED <<control, source, keep, failed, frame, gate, flow, setup>>

SourceThreadGone == pc.src = "exited"

SupJoin ==
    /\ pc.sup = "join" /\ SourceThreadGone
    /\ pc' = [pc EXCEPT !.sup = "reset"]
    /\ UNCHANGED <<control, sourceVars, frame, gate, flow, setup>>

\* source_.reset(), then: stopped, ended cleanly, or down and to be retried.
Reconnected == connected' = FALSE /\ firstFrame' = TRUE

SupReset ==
    /\ pc.sup = "reset" /\ mtx = "free"
    /\ source' = FALSE
    /\ IF ~running \/ (finished /\ ~errored)
       THEN /\ pc' = [pc EXCEPT !.sup = "done"]
            /\ running' = FALSE
            /\ UNCHANGED <<connected, status, firstFrame, delay>>
       ELSE /\ pc' = [pc EXCEPT !.sup = "backoff"]
            /\ status' = "down"
            /\ Reconnected
            /\ delay' = IF stable THEN BaseDelay ELSE delay
            /\ UNCHANGED running
    /\ UNCHANGED <<detRunning, errored, finished, mtx, keep, failed, frame, stable,
                   window, lastSize, reference, flow, kind, onColor, manual, session, frames>>

\* wait_for(backoff): the time passed or stop() woke it; the next wait is twice
\* as long.
SupBackoff ==
    /\ pc.sup = "backoff"
    /\ pc' = [pc EXCEPT !.sup = "create"]
    /\ delay' = IF delay * 2 < MaxDelay THEN delay * 2 ELSE MaxDelay
    /\ UNCHANGED <<control, sourceVars, frame, gate, flow, kind, onColor, manual,
                   session, frames>>

-------------------------------------------------------------------------------
(* The thread inside source_->run()                                             *)

\* VLC clears done_ first thing; the others raise their flag only when the
\* stream is open, GStreamer by entering the main loop.
SrcBegin ==
    /\ pc.src = "start"
    /\ pc' = [pc EXCEPT !.src = "open"]
    /\ failed' = FALSE
    /\ keep' = IF kind = "vlc" THEN TRUE ELSE keep
    /\ UNCHANGED <<control, source, mtx, frame, gate, flow, setup>>

\* The stream cannot be opened: emitError(), return.
SrcOpenFails ==
    /\ pc.src = "open"
    /\ pc' = [pc EXCEPT !.src = "end"]
    /\ errored' = TRUE
    /\ UNCHANGED <<running, detRunning, finished, sourceVars, frame, gate, flow, setup>>

FlagOnEntry == IF kind = "vlc" THEN keep ELSE TRUE

SrcEnter ==
    /\ pc.src = "open"
    /\ pc' = [pc EXCEPT !.src = "loop"]
    /\ keep' = FlagOnEntry
    /\ UNCHANGED <<control, source, mtx, failed, frame, gate, flow, setup>>

\* The stream is lost.  A URL reports at once, the library sources on their way
\* out; a Basler camera's faults stay with its own supervisor.
SrcLost ==
    /\ pc.src = "loop" /\ kind \in {"url", "gst", "vlc"}
    /\ OnRunThread => pc.cb = "none"
    /\ pc' = [pc EXCEPT !.src = "end"]
    /\ errored' = (errored \/ kind = "url")
    /\ failed' = (kind # "url")
    /\ UNCHANGED <<running, detRunning, finished, source, mtx, keep, frame, gate, flow, setup>>

SrcEndOfFile ==
    /\ pc.src = "loop" /\ kind = "file" /\ pc.cb = "none"
    /\ pc' = [pc EXCEPT !.src = "end"]
    /\ UNCHANGED <<control, sourceVars, frame, gate, flow, setup>>

\* The loop sees its flag down.
SrcStopped ==
    /\ pc.src = "loop" /\ ~keep
    /\ OnRunThread => pc.cb = "none"
    /\ pc' = [pc EXCEPT !.src = "end"]
    /\ UNCHANGED <<control, sourceVars, frame, gate, flow, setup>>

\* run() returns once no callback is left; GStreamer drops an error that came
\* together with a stop.
SrcExit ==
    /\ pc.src = "end" /\ pc.cb = "none"
    /\ pc' = [pc EXCEPT !.src = "exited"]
    /\ errored' = (errored \/ (failed /\ (kind = "gst" => keep)))
    /\ finished' = TRUE
    /\ UNCHANGED <<running, detRunning, sourceVars, frame, gate, flow, setup>>

-------------------------------------------------------------------------------
(* CameraWorker::onFrame                                                        *)

Arrive(f) ==
    /\ pc.src = "loop" /\ pc.cb = "none" /\ frames < MaxFrames
    /\ OnRunThread => keep
    /\ frame' = f
    /\ frames' = frames + 1
    /\ pc' = [pc EXCEPT !.cb = "deliver"]
    /\ UNCHANGED <<control, sourceVars, gate, flow, kind, onColor, manual, delay, session>>

DetectSize == Detect(frame, FALSE, onColor)

\* Slip: the reference is sent once per session.
OncePerSession == firstFrame

\* A changed size asks for a new reference image.
SendsReference == firstFrame \/ DetectSize # lastSize

Deliver ==
    /\ pc.cb = "deliver"
    /\ pc' = [pc EXCEPT !.cb = "observe"]
    /\ frame' = [primary |-> DetectSize, secondary |-> Empty]
    /\ stable' = TRUE
    /\ connected' = TRUE
    /\ status' = IF connected THEN status ELSE "up"
    /\ reference' = IF SendsReference THEN DetectSize ELSE reference
    /\ firstFrame' = FALSE
    /\ lastSize' = DetectSize
    /\ UNCHANGED <<control, sourceVars, window, flow, setup>>

\* The raw observer; under manual control it reads the sensor back through
\* CameraWorker::readExposureGain and its siblings, which lock sourceMtx_.
Observe ==
    /\ pc.cb = "observe"
    /\ manual => mtx = "free"
    /\ pc' = [pc EXCEPT !.cb = "gate"]
    /\ UNCHANGED <<control, sourceVars, frame, gate, flow, setup>>

\* The three frames after this one arrived.
Shifted ==
    LET new == [session |-> session, size |-> frame.primary]
    IN  IF Len(window) < 2 THEN Append(window, new)
        ELSE <<window[Len(window) - 1], window[Len(window)], new>>

\* They are compared when there are three of them.
Comparable(w) == Len(w) = 3 => \A i, j \in 1..3 : w[i].size = w[j].size

\* Too few frames to compare, or no motion: nothing is forwarded.
GateHolds ==
    /\ pc.cb = "gate" /\ Comparable(Shifted)
    /\ window' = Shifted
    /\ pc' = [pc EXCEPT !.cb = "none"] /\ frame' = NoFrame
    /\ UNCHANGED <<control, sourceVars, stable, connected, status, firstFrame,
                   lastSize, reference, flow, setup>>

GateOpens ==
    /\ pc.cb = "gate" /\ Comparable(Shifted) /\ Len(Shifted) = 3
    /\ window' = Shifted
    /\ pc' = [pc EXCEPT !.cb = "push"]
    /\ UNCHANGED <<control, sourceVars, frame, stable, connected, status, firstFrame,
                   lastSize, reference, flow, setup>>

\* cv::absdiff of two sizes throws.  The Basler capture loop swallows it; from a
\* URL it leaves run() and is caught in the thread's body, which calls onError().
GateThrows ==
    /\ pc.cb = "gate" /\ ~Comparable(Shifted)
    /\ window' = Shifted
    /\ frame' = NoFrame
    /\ IF kind = "pylon"
       THEN /\ pc' = [pc EXCEPT !.cb = "none"]
            /\ UNCHANGED errored
       ELSE /\ pc' = [pc EXCEPT !.cb = "none", !.src = "end"]
            /\ errored' = TRUE
    /\ UNCHANGED <<running, detRunning, finished, sourceVars, stable, connected,
                   status, firstFrame, lastSize, reference, flow, setup>>

\* The sink CameraManager::addCamera wired: pushBlocking or push.
SinkReady == Backpressure => RoomOrClosed(queue, QueueCap, FALSE)
Sunk == IF Backpressure THEN PushBlocking(queue, FALSE, pushed + 1)
                        ELSE Push(queue, QueueCap, pushed + 1)

Forward ==
    /\ pc.cb = "push" /\ SinkReady
    /\ queue' = Sunk
    /\ pushed' = pushed + 1
    /\ pc' = [pc EXCEPT !.cb = "none"] /\ frame' = NoFrame
    /\ UNCHANGED <<control, sourceVars, gate, taken, setup>>

-------------------------------------------------------------------------------
(* DetectionWorker::run                                                         *)

DetPop ==
    /\ pc.det = "pop" /\ detRunning /\ queue # <<>>
    /\ queue' = Popped(queue)
    /\ taken' = taken + 1
    /\ pc' = [pc EXCEPT !.det = "process"]
    /\ UNCHANGED <<control, sourceVars, frame, gate, pushed, setup>>

DetProcess ==
    /\ pc.det = "process"
    /\ pc' = [pc EXCEPT !.det = "pop"]
    /\ UNCHANGED <<control, sourceVars, frame, gate, flow, setup>>

DetExit ==
    /\ pc.det = "pop" /\ ~detRunning
    /\ pc' = [pc EXCEPT !.det = "done"]
    /\ UNCHANGED <<control, sourceVars, frame, gate, flow, setup>>

-------------------------------------------------------------------------------
AppNext == Start \/ StopFlag \/ StopLock \/ StopUnlock \/ StopJoin \/ StopDetector
SupNext == SupExit \/ SupCreate \/ SupLaunch \/ SupWake \/ SupStop \/ SupUnlock
           \/ SupJoin \/ SupReset \/ SupBackoff
SrcNext == SrcBegin \/ SrcOpenFails \/ SrcEnter \/ SrcStopped \/ SrcExit
CbNext == Deliver \/ Observe \/ GateHolds \/ GateOpens \/ GateThrows \/ Forward
DetNext == DetPop \/ DetProcess \/ DetExit

Next ==
    \/ AppNext \/ Command \/ SupNext \/ SrcNext \/ SrcLost \/ SrcEndOfFile
    \/ (\E f \in FrameSet : Arrive(f))
    \/ CbNext \/ DetNext

Spec == Init /\ [][Next]_vars

\* Every thread is scheduled, a wait with a time-out ends, and a stop that was
\* begun goes on.  Frames, losses, commands and the request to stop are owed by
\* nobody.
FairSpec ==
    /\ Spec
    /\ WF_vars(StopLock) /\ WF_vars(StopUnlock) /\ WF_vars(StopJoin)
    /\ WF_vars(StopDetector)
    /\ WF_vars(SupNext) /\ WF_vars(SrcNext) /\ WF_vars(CbNext) /\ WF_vars(DetNext)

-------------------------------------------------------------------------------
Labels ==
    [app : {"start", "run", "lock", "stopping", "join", "detjoin", "returned"},
     sup : {"none", "create", "launch", "wait", "stop", "stopping", "join", "reset",
            "backoff", "done"},
     src : {"none", "start", "open", "loop", "end", "exited"},
     cb  : {"none", "deliver", "observe", "gate", "push"},
     det : {"none", "pop", "process", "done"}]

\* The shape of the state; among it the frame queue within its capacity, which
\* the drop of push() and the wait of pushBlocking() keep.
TypeOK ==
    /\ kind \in Kinds /\ pc \in Labels
    /\ {running, detRunning, errored, finished, source, keep, failed, onColor,
        manual, stable, connected, firstFrame} \subseteq BOOLEAN
    /\ mtx \in {"free", "sup", "app"}
    /\ frame \in [primary : Sizes \cup {Empty}, secondary : Sizes \cup {Empty}]
    /\ window \in UNION {[1..n -> [session : 1..MaxSessions, size : Sizes]] : n \in 0..3}
    /\ status \in {"none", "up", "down"}
    /\ lastSize \in Sizes \cup {Empty} /\ reference \in Sizes \cup {Empty}
    /\ delay \in BaseDelay..MaxDelay
    /\ queue \in Seq(1..pushed) /\ Len(queue) <= QueueCap
    /\ pushed \in 0..frames /\ taken \in 0..pushed
    /\ session \in 0..MaxSessions /\ frames \in 0..MaxFrames

\* No image of an earlier session is ever compared with one of this session: the
\* three-frame window is emptied after the old source thread was joined and
\* before the new one starts (CameraWorker::supervise).
WindowOfOneSession ==
    pc.src \in {"start", "open", "loop"} =>
        \A i \in 1..Len(window) : window[i].session = session

\* The source outlives the thread and the callbacks inside it: source_ is reset
\* only after stop() and the join (CameraWorker::supervise).
SourceOutlivesItsThread ==
    (pc.src \in {"start", "open", "loop", "end"} \/ pc.cb # "none") => source

\* The backend's view of the camera is the worker's: connected is reported on
\* the first frame of a session, also after a reconnect, and lost connections
\* are taken back (onFrame and supervise).
StatusAgrees == (status = "up") <=> connected

\* A session of the source is whole: nothing of the one before is left in it,
\* nothing in it is used after it is gone, and the backend knows of it.
SessionIsSound == TypeOK /\ WindowOfOneSession /\ SourceOutlivesItsThread /\ StatusAgrees

\* The editors' reference image has the size of the frame detection works on,
\* also after a live crop change or a switch to the other stream
\* (CameraWorker::onFrame).
ReferenceIsCurrent ==
    pc.cb \in {"observe", "gate", "push"} => reference = frame.primary

\* A video source loses no frame: what it forwarded has been taken by the
\* detection thread or is in the queue, in order (BlockingQueue::pushBlocking).
VideoLosesNothing ==
    kind \in {"file", "url"} => queue = [i \in 1..(pushed - taken) |-> taken + i]

\* A camera that went down is tried again, or was stopped: supervise() never
\* sticks in the shutdown of a failed session.
DownIsRetried == (pc.sup = "wait" /\ errored) ~> (pc.sup = "create" \/ ~running)

\* Both stops of the source, the caller's and the supervisor's, came before run()
\* raised its flag: the join waits for a source that nobody will stop again.
LostStop ==
    /\ pc.app = "join" /\ pc.sup = "join"
    /\ pc.src = "loop" /\ keep

\* A frame callback of the library waits for sourceMtx_, whose holder waits for
\* the library to finish the callback.
Embrace ==
    ~OnRunThread /\ manual /\ pc.cb = "observe" /\ mtx # "free"

\* CameraManager::stop and DetectionWorker::stop return, or one of exactly two
\* things happened: the stop came before the source had raised its own flag, or
\* the callback and the stop wait for each other.
StopReturnsOrStuck == pc.app = "lock" ~> (pc.app = "returned" \/ LostStop \/ Embrace)

\* Application::stop: `each join is safe/idempotent'.
StopReturns == pc.app = "lock" ~> pc.app = "returned"
===============================================================================
