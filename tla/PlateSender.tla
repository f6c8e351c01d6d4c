----------------------------- MODULE PlateSender -----------------------------
(* The last stage before the broker: PlateSender takes plates from the         *)
(* detection thread through an unbounded BlockingQueue, suppresses repeats of  *)
(* a plate at a gate and publishes the rest, under the shutdown order of       *)
(* Application::stop (cameras and detection first, then the sender, then the   *)
(* transport).                                                                 *)
(*                                                                             *)
(* A plate item is its id (the order of send()), its key "gate:plate" and      *)
(* whether it corrects a pass already announced (forceSend).  The message      *)
(* built from it carries nothing else the properties look at.                  *)
EXTENDS Integers, Sequences, FiniteSets, BlockingQueue

CONSTANTS
    Keys,       \* gate:plate pairs
    NoText,     \* the key of an item whose plate text is empty
    Cooldown,   \* cfg_.cooldownMs, in ticks
    Horizon,    \* the five minutes after which an entry is forgotten, in ticks
    MaxItems,   \* bound: plates handed over
    MaxTime     \* bound: ticks

ASSUME TimesAssumption ==
    Cooldown \in Nat \ {0} /\ Horizon \in Nat /\ Cooldown <= Horizon
ASSUME NoTextAssumption == NoText \notin Keys
ASSUME LimitsAssumption == MaxItems \in Nat /\ MaxTime \in Nat

VARIABLES
    app,        \* where Application::stop is
    detecting,  \* the detection thread is still running
    running,    \* running_
    thread,     \* the sender thread: none, loop, pop, publish, done
    queue, closed,
    item,       \* the item the sender thread holds
    lastSent,   \* lastSent_: key -> time
    transport,  \* the transport exists and accepts
    now,
    count,      \* items handed over so far
    log,        \* what was published, in order
    skipped     \* what the cooldown suppressed

vars == <<app, detecting, running, thread, queue, closed, item, lastSent, transport,
          now, count, log, skipped>>

Never == -1
NoItem == [id |-> 0, key |-> NoText, force |-> FALSE]
Items == [id : 1..MaxItems, key : Keys \cup {NoText}, force : BOOLEAN]
Entry(it, t) == [id |-> it.id, key |-> it.key, force |-> it.force, at |-> t]

Init ==
    /\ app = "start" /\ detecting = FALSE /\ running = FALSE /\ thread = "none"
    /\ queue = <<>> /\ closed = FALSE /\ item = NoItem
    /\ lastSent = [k \in Keys |-> Never]
    /\ transport = TRUE /\ now = 0 /\ count = 0 /\ log = <<>> /\ skipped = {}

Tick ==
    /\ now < MaxTime
    /\ now' = now + 1
    /\ UNCHANGED <<app, detecting, running, thread, queue, closed, item, lastSent,
                   transport, count, log, skipped>>

\* PlateSender::start, then the detection thread.
Start ==
    /\ app = "start"
    /\ app' = "run" /\ running' = TRUE /\ thread' = "loop" /\ detecting' = TRUE
    /\ UNCHANGED <<queue, closed, item, lastSent, transport, now, count, log, skipped>>

\* send(), called by the detection thread through asSink().
Send(k, f) ==
    /\ detecting /\ count < MaxItems
    /\ count' = count + 1
    /\ queue' = Push(queue, 0, [id |-> count + 1, key |-> k, force |-> f])
    /\ UNCHANGED <<app, detecting, running, thread, closed, item, lastSent,
                   transport, now, log, skipped>>

-----------------------------------------------------------------------------
(* run()                                                                       *)

\* Slip: an entry is forgotten while its cooldown lasts.
PrunedEarly(t) ==
    [k \in Keys |-> IF lastSent[k] # Never /\ t - lastSent[k] > 0 THEN Never ELSE lastSent[k]]

\* Entries older than the horizon are erased on every call.
Pruned(t) ==
    [k \in Keys |-> IF lastSent[k] # Never /\ t - lastSent[k] > Horizon
                    THEN Never ELSE lastSent[k]]

Recent(k, t) == Pruned(t)[k] # Never /\ t - Pruned(t)[k] < Cooldown

\* Slip: a suppressed plate restarts the window.
MarkedAlways(k, t) == [Pruned(t) EXCEPT ![k] = t]

\* cooldownPasses(): the entry is set before anything is published.
Marked(k, t) ==
    IF Recent(k, t) THEN Pruned(t) ELSE [Pruned(t) EXCEPT ![k] = t]

\* The loop's test.
Loop ==
    /\ thread = "loop"
    /\ thread' = IF running THEN "pop" ELSE "done"
    /\ UNCHANGED <<app, detecting, running, queue, closed, item, lastSent, transport,
                   now, count, log, skipped>>

\* pop() returned an item, whatever running_ says by now.  An empty text is dropped, a repeat within
\* the cooldown is skipped unless it is a correction, anything else is built.
Take ==
    /\ thread = "pop" /\ queue # <<>>
    /\ queue' = Popped(queue)
    /\ LET it == Head(queue) IN
         \/ /\ it.key = NoText
            /\ thread' = "loop"
            /\ UNCHANGED <<item, lastSent, skipped>>
         \/ /\ it.key \in Keys /\ ~it.force
            /\ lastSent' = Marked(it.key, now)
            /\ IF Recent(it.key, now)
               THEN /\ skipped' = skipped \cup {Entry(it, now)}
                    /\ thread' = "loop"
                    /\ UNCHANGED item
               ELSE /\ thread' = "publish" /\ item' = Entry(it, now)
                    /\ UNCHANGED skipped
         \/ /\ it.key \in Keys /\ it.force
            /\ thread' = "publish" /\ item' = Entry(it, now)
            /\ UNCHANGED <<lastSent, skipped>>
    /\ UNCHANGED <<app, detecting, running, closed, transport, now, count, log>>

\* publishDurable() takes the message as long as the transport is not stopping;
\* a refused plate is logged as lost.
Publish ==
    /\ thread = "publish"
    /\ log' = IF transport THEN Append(log, item) ELSE log
    /\ thread' = "loop" /\ item' = NoItem
    /\ UNCHANGED <<app, detecting, running, queue, closed, lastSent, transport, now,
                   count, skipped>>

\* pop() returned nothing: the queue is closed and drained.
Leave ==
    /\ thread = "pop" /\ ItemOrClosed(queue, closed) /\ queue = <<>>
    /\ thread' = "done"
    /\ UNCHANGED <<app, detecting, running, queue, closed, item, lastSent, transport,
                   now, count, log, skipped>>

-----------------------------------------------------------------------------
(* Application::stop                                                           *)

StopDetection ==
    /\ app = "run"
    /\ app' = "stop" /\ detecting' = FALSE
    /\ UNCHANGED <<running, thread, queue, closed, item, lastSent, transport, now,
                   count, log, skipped>>

Closing == TRUE

\* PlateSender::stop: the flag goes down first, then the queue is closed; a
\* thread blocked in pop() between the two stays there.
StopFlag ==
    /\ app = "stop"
    /\ app' = "close" /\ running' = FALSE
    /\ UNCHANGED <<detecting, thread, queue, closed, item, lastSent, transport, now,
                   count, log, skipped>>

StopClose ==
    /\ app = "close"
    /\ app' = "join" /\ closed' = Closing
    /\ UNCHANGED <<detecting, running, thread, queue, item, lastSent, transport, now,
                   count, log, skipped>>

Joined == thread = "done"

\* The thread is joined; only then is the transport destroyed.
StopTransport ==
    /\ app = "join" /\ Joined
    /\ app' = "end" /\ transport' = FALSE
    /\ UNCHANGED <<detecting, running, thread, queue, closed, item, lastSent, now,
                   count, log, skipped>>

Next ==
    \/ Tick \/ Start \/ Loop \/ Take \/ Publish \/ Leave
    \/ (\E k \in Keys \cup {NoText}, f \in BOOLEAN : Send(k, f))
    \/ StopDetection \/ StopFlag \/ StopClose \/ StopTransport

Spec == Init /\ [][Next]_vars

FairSpec ==
    /\ Spec
    /\ WF_vars(Loop \/ Take \/ Publish \/ Leave)
    /\ WF_vars(StopFlag) /\ WF_vars(StopClose) /\ WF_vars(StopTransport)
-----------------------------------------------------------------------------
Entries == [id : 1..MaxItems, key : Keys, force : BOOLEAN, at : 0..MaxTime]

\* The shape of the state.
TypeOK ==
    /\ app \in {"start", "run", "stop", "close", "join", "end"}
    /\ {detecting, running, closed, transport} \subseteq BOOLEAN
    /\ thread \in {"none", "loop", "pop", "publish", "done"}
    /\ queue \in Seq(Items)
    /\ item \in Entries \cup {NoItem} /\ (thread = "publish") = (item # NoItem)
    /\ thread = "done" => ~running
    /\ lastSent \in [Keys -> {Never} \cup 0..MaxTime]
    /\ now \in 0..MaxTime /\ count \in 0..MaxItems
    /\ log \in Seq(Entries) /\ skipped \subseteq Entries

\* Two ordinary messages of one plate at one gate are a cooldown apart, however
\* often the plate is seen, corrected and forgotten in between
\* (cooldownPasses).
NoRepeatInCooldown ==
    \A i, j \in 1..Len(log) :
        (i < j /\ log[i].key = log[j].key /\ ~log[i].force /\ ~log[j].force)
            => log[j].at - log[i].at >= Cooldown

\* Nothing is suppressed for a message that never went out: for every suppressed
\* plate an ordinary message of it, less than a cooldown old, has been handed to
\* the transport, although the entry is set before the publish, and no
\* correction is ever suppressed (run, cooldownPasses, Application::stop).
SuppressedWasSent ==
    \A e \in skipped :
        /\ ~e.force
        /\ \E i \in 1..Len(log) :
              /\ log[i].key = e.key /\ ~log[i].force
              /\ log[i].id < e.id
              /\ e.at - log[i].at < Cooldown

\* Plates leave in the order the detection thread handed them over, each at most
\* once, so a correction never overtakes the message it corrects (run).
SentInOrder ==
    \A i, j \in 1..Len(log) : i < j => log[i].id < log[j].id

\* A plate handed over while the sender runs is dealt with, or the application
\* was stopped: the thread never sleeps on a queue with work in it (run,
\* BlockingQueue::pop).
QueueDrains == (queue # <<>>) ~> (queue = <<>> \/ app \notin {"start", "run"})

\* stop() returns also when the thread was blocked in pop() on an empty queue.
StopReturns == app = "stop" ~> app = "end"

\* PlateSender: `never drop a plate'.
NeverDropped ==
    (app = "end") => \A i \in 1..Len(queue) : queue[i].key = NoText
=============================================================================
