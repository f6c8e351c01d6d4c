----------------------------- MODULE Application -----------------------------
(* Application and main(): the reader authenticates with the backend, asks for *)
(* its settings, builds the whole pipeline when they arrive, applies later     *)
(* settings to the running pipeline, and stops or restarts on request.         *)
(*                                                                             *)
(* The actors are main(), the thread each subscription delivers on (external,  *)
(* cnats: messages of one subscription in order, one at a time) and the        *)
(* backend.  A settings document is its number; what a part was configured     *)
(* with is the number it read.  Every request for settings subscribes to the   *)
(* reply subject again, so from the second on a reply is delivered once per    *)
(* subscription, on as many threads.                                           *)
EXTENDS Integers, Sequences, FiniteSets

CONSTANTS
    MaxSubs,        \* bound: requests for settings
    MaxDocs,        \* bound: settings documents
    MaxCommands,    \* bound: commands other than lpr_settings
    MayFail,        \* building the recognizer chain may throw
    Overlap         \* stop() may come while the pipeline is being built

ASSUME BoundsAssumption == {MaxSubs, MaxDocs, MaxCommands} \subseteq Nat \ {0}
ASSUME FlagsAssumption == {MayFail, Overlap} \subseteq BOOLEAN

VARIABLES
    main,       \* where main() is
    running, restart,   \* main's two flags
    auth,       \* the handshake: none, asked, refused, ok
    subs,       \* per settings subscription, the documents to deliver
    hand,       \* per subscription, where its handler is
    msg,        \* per subscription, the document its handler holds
    lock,       \* who holds bootMtx_; 0 is nobody
    booted,     \* booted_
    built,      \* how many parts are built
    started,    \* how many of them the bootstrap has started
    alive,      \* the parts whose threads run
    loaded,     \* the document SettingsManager holds
    conf,       \* part -> the document it was configured with; 0 before
    docs,       \* documents sent so far
    owed,       \* requests the backend has not answered
    cmds, cmd,  \* the commands to deliver; where their handler is
    sent, acked \* commands sent, commands acknowledged

mainVars == <<main, running, restart>>
setVars == <<subs, hand, msg, lock>>
pipeVars == <<booted, built, started, alive, loaded, conf>>
talkVars == <<auth, docs, owed>>
cmdVars == <<cmds, cmd, sent, acked>>
vars == <<mainVars, setVars, pipeVars, talkVars, cmdVars>>

\* The order bootstrapFromJson() builds the parts in; "wired" sets the router's
\* and the services' callbacks, "filled" is buildFromSettings().
Parts == <<"chain", "frames", "processor", "recording", "live", "media", "sender",
           "notifier", "router", "heartbeat", "wired", "worker", "overlay", "cameras",
           "filled">>

\* The order it starts them in.
Starts == <<"sender", "worker", "heartbeat", "cameras">>

Built(p) == \E i \in 1..built : Parts[i] = p
Complete == built = Len(Parts)

\* The settings each part takes over: the direction estimator and the pass gap
\* of the detection worker are two copies of one document.
Tuned == {"processor", "direction", "passGap", "cameras"}

Threads == 1..MaxSubs
Stopping == main \notin {"connect", "offline", "run"}

Init ==
    /\ main = "connect" /\ running = TRUE /\ restart = FALSE
    /\ auth = "none" /\ subs = <<>>
    /\ hand = [i \in Threads |-> "idle"] /\ msg = [i \in Threads |-> 0] /\ lock = 0
    /\ booted = FALSE /\ built = 0 /\ started = 0 /\ alive = {} /\ loaded = 0
    /\ conf = [p \in Tuned |-> 0]
    /\ docs = 0 /\ owed = 0
    /\ cmds = <<>> /\ cmd = "idle" /\ sent = 0 /\ acked = {}

-----------------------------------------------------------------------------
(* main() and the handshake                                                    *)

\* start(): connect is retried until it succeeds; then authenticate().
Connect ==
    /\ main = "connect" /\ running
    /\ main' = "run" /\ auth' = "asked"
    /\ UNCHANGED <<running, restart, setVars, pipeVars, docs, owed, cmdVars>>

\* --settings: main() bootstraps from a file, without a broker.
Offline ==
    /\ main = "connect" /\ docs = 0
    /\ main' = "offline" /\ docs' = 1
    /\ hand' = [hand EXCEPT ![1] = "lock"] /\ msg' = [msg EXCEPT ![1] = 1]
    /\ UNCHANGED <<running, restart, subs, lock, pipeVars, auth, owed, cmdVars>>

\* The bootstrap of main() itself returned, or threw out of it.
OfflineReady ==
    /\ main = "offline" /\ hand[1] = "idle"
    /\ main' = IF Complete THEN "run" ELSE "exited"
    /\ UNCHANGED <<running, restart, setVars, pipeVars, talkVars, cmdVars>>

\* Slip: the request goes out, nobody listens for the reply.
RequestOnly == owed' = owed + 1 /\ UNCHANGED subs

\* requestSettings()
RequestSettings == owed' = owed + 1 /\ subs' = Append(subs, <<>>)

\* onAuthReply(): a refusal is final.  On success the commands and the reply to
\* the first request for settings are subscribed to.
AuthReply ==
    /\ auth = "asked" /\ main # "exited"
    /\ \/ /\ auth' = "refused"
          /\ UNCHANGED <<subs, owed>>
       \/ auth' = "ok" /\ RequestSettings
    /\ UNCHANGED <<mainVars, hand, msg, lock, pipeVars, docs, cmdVars>>

\* The backend answers a request; every subscription gets the document.
Reply ==
    /\ owed > 0 /\ docs < MaxDocs
    /\ docs' = docs + 1 /\ owed' = owed - 1
    /\ subs' = [i \in DOMAIN subs |-> Append(subs[i], docs + 1)]
    /\ UNCHANGED <<mainVars, hand, msg, lock, pipeVars, auth, cmdVars>>

Signal ==
    /\ main \in {"connect", "run"} /\ running
    /\ running' = FALSE
    /\ UNCHANGED <<main, restart, setVars, pipeVars, talkVars, cmdVars>>

-----------------------------------------------------------------------------
(* onSettings and bootstrapFromJson                                            *)

\* Without Overlap no bootstrap begins once main() stops.
Receive(i) ==
    /\ i \in DOMAIN subs /\ hand[i] = "idle" /\ subs[i] # <<>>
    /\ main # "exited" /\ (Stopping => booted \/ Overlap)
    /\ msg' = [msg EXCEPT ![i] = Head(subs[i])]
    /\ subs' = [subs EXCEPT ![i] = Tail(@)]
    /\ hand' = [hand EXCEPT ![i] = "lock"]
    /\ UNCHANGED <<mainVars, lock, pipeVars, talkVars, cmdVars>>

\* bootMtx_ is held for the whole of what follows.
TakeLock(i) == lock = 0 /\ lock' = i
               /\ hand' = [hand EXCEPT ![i] = IF booted THEN "reload" ELSE "load"]

Enter(i) ==
    /\ hand[i] = "lock"
    /\ TakeLock(i)
    /\ booted' = (booted \/ lock' = i)
    /\ UNCHANGED <<mainVars, subs, msg, built, started, alive, loaded, conf, talkVars, cmdVars>>

\* loadAll()
Load(i) ==
    /\ hand[i] \in {"load", "reload"}
    /\ loaded' = msg[i]
    /\ hand' = [hand EXCEPT ![i] = IF hand[i] = "load" THEN "build" ELSE "processor"]
    /\ UNCHANGED <<mainVars, subs, msg, lock, booted, built, started, alive, conf, talkVars,
                   cmdVars>>

\* What a part reads from SettingsManager while it is built.
ReadBy(p) ==
    CASE p = "processor" -> {"processor"}
      [] p = "worker" -> {"direction", "passGap"}
      [] p = "filled" -> {"cameras"}
      [] OTHER -> {}

\* Slip: a part that has settings keeps them.
TuneOnce(ps) ==
    conf' = [p \in Tuned |-> IF p \in ps /\ conf[p] = 0 THEN loaded ELSE conf[p]]

Tune(ps) == conf' = [p \in Tuned |-> IF p \in ps THEN loaded ELSE conf[p]]

Build(i) ==
    /\ hand[i] = "build"
    /\ built' = built + 1
    /\ Tune(ReadBy(Parts[built + 1]))
    /\ hand' = [hand EXCEPT ![i] = IF built + 1 = Len(Parts) THEN "start" ELSE "build"]
    /\ UNCHANGED <<mainVars, subs, msg, lock, booted, started, alive, loaded, talkVars, cmdVars>>

\* A model that cannot be loaded throws; booted_ stays set.
BuildThrows(i) ==
    /\ MayFail /\ hand[i] = "build" /\ built = 0
    /\ hand' = [hand EXCEPT ![i] = "idle"] /\ lock' = 0
    /\ UNCHANGED <<mainVars, subs, msg, pipeVars, talkVars, cmdVars>>

\* The four start() calls, one after the other.
StartPart(i) ==
    /\ hand[i] = "start"
    /\ started' = started + 1
    /\ alive' = alive \cup {Starts[started + 1]}
    /\ IF started + 1 = Len(Starts)
       THEN hand' = [hand EXCEPT ![i] = "idle"] /\ lock' = 0
       ELSE UNCHANGED <<hand, lock>>
    /\ UNCHANGED <<mainVars, subs, msg, booted, built, loaded, conf, talkVars, cmdVars>>

\* reapplyLiveSettings(): one part after the other, each if it exists.  The pass
\* gap of the worker is not among what setDirectionConfig() changes.
Reapply(i) ==
    /\ \/ /\ hand[i] = "processor"
          /\ Tune(IF Built("processor") THEN {"processor"} ELSE {})
          /\ hand' = [hand EXCEPT ![i] = "direction"] /\ UNCHANGED lock
       \/ /\ hand[i] = "direction"
          /\ Tune(IF Built("worker") THEN {"direction"} ELSE {})
          /\ hand' = [hand EXCEPT ![i] = "cameras"] /\ UNCHANGED lock
       \/ /\ hand[i] = "cameras"
          /\ Tune(IF Built("cameras") THEN {"cameras"} ELSE {})
          /\ hand' = [hand EXCEPT ![i] = "idle"] /\ lock' = 0
    /\ UNCHANGED <<mainVars, subs, msg, booted, built, started, alive, loaded, talkVars,
                   cmdVars>>

-----------------------------------------------------------------------------
(* onCommand                                                                   *)

Commands == {"lpr_settings", "set_config", "reset_lpr"}

\* The backend sends a command once the reader has subscribed.
Send(c) ==
    /\ auth = "ok" /\ sent < MaxCommands /\ main = "run"
    /\ c = "lpr_settings" => Len(subs) < MaxSubs
    /\ sent' = sent + 1 /\ cmds' = Append(cmds, c)
    /\ UNCHANGED <<mainVars, setVars, pipeVars, talkVars, cmd, acked>>

\* Commands before the router exists are ignored; set_config needs its handler
\* and, unlike a settings reply, neither takes bootMtx_ nor reapplies.
Handle ==
    /\ cmd = "idle" /\ cmds # <<>> /\ main # "exited"
    /\ cmd' = Head(cmds) /\ cmds' = Tail(cmds)
    /\ IF Head(cmds) = "lpr_settings" /\ Built("router") /\ Len(subs) < MaxSubs
       THEN RequestSettings
       ELSE UNCHANGED <<subs, owed>>
    /\ IF Head(cmds) = "set_config" /\ Built("wired") /\ docs < MaxDocs
       THEN docs' = docs + 1 /\ loaded' = docs + 1
       ELSE UNCHANGED <<docs, loaded>>
    /\ UNCHANGED <<mainVars, hand, msg, lock, booted, built, started, alive, conf, auth, sent,
                   acked>>

\* Every command is acknowledged; a restart is left to the next step.
AckFirst == acked' = acked \cup {cmd}
            /\ cmd' = IF cmd = "reset_lpr" /\ Built("router") THEN "restart" ELSE "idle"

Ack ==
    /\ cmd \in Commands
    /\ AckFirst
    /\ UNCHANGED <<mainVars, setVars, pipeVars, talkVars, cmds, sent>>

\* onRestart_: main() is told, and does the rest.
RequestRestart ==
    /\ cmd = "restart"
    /\ restart' = TRUE /\ running' = FALSE /\ cmd' = "idle"
    /\ UNCHANGED <<main, setVars, pipeVars, talkVars, cmds, sent, acked>>

-----------------------------------------------------------------------------
(* Application::stop, the destructor and the restart                           *)

Building == \E i \in Threads : hand[i] \in {"load", "build", "start"}
                              \/ (hand[i] = "lock" /\ ~booted)

SeesFlag == ~running /\ main \in {"connect", "run"}

\* main() saw the flag, in start()'s retry loop or in its own.
BeginStop ==
    /\ SeesFlag
    /\ \/ main = "connect" /\ main' = "exited"
       \/ main = "run" /\ main' = "stopCameras" /\ (Overlap \/ ~Building)
    /\ UNCHANGED <<running, restart, setVars, pipeVars, talkVars, cmdVars>>

StopStep(here, part, next) ==
    /\ main = here /\ main' = next
    /\ alive' = alive \ {part}
    /\ UNCHANGED <<running, restart, setVars, booted, built, started, loaded, conf, talkVars,
                   cmdVars>>

\* Slip: the plate sender is not stopped.
SenderLeft == StopStep("stopSender", "none", "stopTransport")

StopSender == StopStep("stopSender", "sender", "stopTransport")

StopParts ==
    \/ StopStep("stopCameras", "cameras", "stopWorker")
    \/ StopStep("stopWorker", "worker", "stopHeartbeat")
    \/ StopStep("stopHeartbeat", "heartbeat", "stopSender")
    \/ StopSender

\* The subscriptions go, once none of their handlers runs (external; the best
\* a client library can do); the members and the process follow.
StopTransport ==
    /\ main = "stopTransport"
    /\ cmd = "idle" /\ \A i \in Threads : hand[i] = "idle"
    /\ main' = "exited"
    /\ UNCHANGED <<running, restart, setVars, pipeVars, talkVars, cmdVars>>

Settings(i) ==
    \/ Receive(i) \/ Enter(i) \/ Load(i) \/ Build(i) \/ BuildThrows(i) \/ StartPart(i)
    \/ Reapply(i)

Next ==
    \/ Connect \/ Offline \/ OfflineReady \/ AuthReply \/ Reply \/ Signal
    \/ (\E i \in Threads : Settings(i))
    \/ (\E c \in Commands : Send(c))
    \/ Handle \/ Ack \/ RequestRestart
    \/ BeginStop \/ StopParts \/ StopTransport

Spec == Init /\ [][Next]_vars

\* The broker answers, the threads of the reader run.
FairSpec ==
    /\ Spec
    /\ WF_vars(Connect \/ OfflineReady) /\ WF_vars(AuthReply) /\ WF_vars(Reply)
    /\ \A i \in Threads : WF_vars(Settings(i))
    /\ WF_vars(Handle \/ Ack \/ RequestRestart)
    /\ WF_vars(BeginStop \/ StopParts \/ StopTransport)
-----------------------------------------------------------------------------
\* The shape of the state; bootMtx_ is held by exactly the handler that is
\* inside, and threads only run of parts that are built.
TypeOK ==
    /\ running \in BOOLEAN /\ restart \in BOOLEAN /\ (restart => ~running)
    /\ auth \in {"none", "asked", "refused", "ok"}
    /\ Len(subs) <= MaxSubs /\ lock \in 0..MaxSubs
    /\ \A i \in Threads : (lock = i) = (hand[i] \notin {"idle", "lock"})
    /\ built \in 0..Len(Parts) /\ started \in 0..Len(Starts)
    /\ alive \subseteq {Starts[k] : k \in 1..Len(Starts)}
    /\ (alive # {} => Complete)
    /\ conf \in [Tuned -> 0..MaxDocs] /\ loaded \in 0..docs
    /\ sent \in 0..MaxCommands /\ acked \subseteq Commands

\* Once every handler has come to rest, a complete pipeline runs with settings
\* no older than the newest reply, in whatever order the subscriptions delivered
\* their copies and whenever set_config changed the settings in between
\* (requestSettings, bootstrapFromJson, reapplyLiveSettings); the pass gap is
\* left out (GapsInSync).
SettledOnNewest ==
    (Complete /\ lock = 0 /\ \A i \in DOMAIN subs : subs[i] = <<>> /\ hand[i] = "idle")
        => \A p \in Tuned \ {"passGap"} :
               \A i \in Threads : i <= Len(subs) => conf[p] >= msg[i]

\* Cameras deliver only into a pipeline whose worker and sender run, from the
\* first frame to the last (bootstrapFromJson, stop).
CamerasHaveTakers == "cameras" \in alive => {"worker", "sender"} \subseteq alive

\* `Called only after the pipeline has been stopped': when the process ends or
\* is started anew no thread of the pipeline runs and a restart asked for by the
\* backend has been acknowledged (main, stop, onCommand).
StoppedBeforeRelaunch ==
    main = "exited" => alive = {} /\ (restart => "reset_lpr" \in acked)

\* From the first frame to the last and over a restart the parts start and stop
\* in order.
Orderly == TypeOK /\ CamerasHaveTakers /\ StoppedBeforeRelaunch

\* A reader that is let in and gets its settings ends up running, or was told to
\* stop, or could not load its models (start, onAuthReply, bootstrapFromJson).
EventuallyRunning ==
    (auth = "ok") ~> (alive = {Starts[k] : k \in 1..Len(Starts)} \/ ~running \/ (booted /\ built = 0))

\* A stop or a restart always completes (main, stop).
StopCompletes == ~running ~> main = "exited"

\* The reader comes up and goes down.
ComesToRest == EventuallyRunning /\ StopCompletes

\* `Keep the DetectionWorker's pass-gap IN SYNC with the estimator's track gap'.
GapsInSync ==
    (Complete /\ lock = 0) => conf["passGap"] = conf["direction"]
=============================================================================
