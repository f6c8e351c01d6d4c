--------------------------- MODULE NatsTransport ---------------------------
(***************************************************************************)
(* The asynchronous send queue and durable outbox of                       *)
(* src/src/net/NatsTransport.cpp: how a plate handed to publishDurable     *)
(* reaches the JetStream stream, or is lost.                               *)
(*                                                                         *)
(* Threads: the caller of publishDurable (in the program, the one          *)
(* PlateSender thread), callers of publish (live frames, heartbeats: all   *)
(* alike here, the envelope Core), the sender thread, the cnats callback   *)
(* thread, and the owner that constructs, connects and destroys the        *)
(* transport.  cnats, the server, the file system's clock and process      *)
(* crashes are the environment; `budget' bounds what they may do.          *)
(*                                                                         *)
(* A plate stands for its message; it is published once, in increasing     *)
(* order.  An outbox file is its name (millisecond and sequence number)    *)
(* with the plate it holds.  The queue survives neither Stop nor Crash,    *)
(* the outbox survives both.  connect() succeeded with JetStream           *)
(* available; the closed callback, which cnats runs only while the         *)
(* transport is destroyed (MaxReconnect is -1), is left out.               *)
(***************************************************************************)
EXTENDS Integers, Sequences, FiniteSets, Functions

CONSTANTS
  NPlates,     \* plates ever handed to publishDurable
  MaxQueue,    \* maxQueue, 2000 in the code
  FirstSeq,    \* value of the static file counter when the model starts
  Budget       \* how often the environment may do what it does, per kind

\* Links lost, publishes failed, writes failed, stops and crashes, calls of publish.
Kinds == {"link", "fail", "disk", "crash", "core"}

ASSUME NatsAssumption ==
  /\ NPlates \in Nat /\ MaxQueue \in Nat \ {0} /\ FirstSeq \in Nat
  /\ Budget \in [Kinds -> Nat]

Plates  == 1..NPlates
Loaders == {"connect", "callback"}    \* the two callers of enqueueOutbox
None    == [kind |-> "none"]

Files     == [ms : Nat, seq : Nat, plate : Plates]
Core      == [kind |-> "core"]
Online    == [kind : {"J"}, plate : Plates]
Durable   == [kind : {"durable"}, file : Files]
Envelopes == {Core} \cup Online \cup Durable

VARIABLES
  phase,         \* the object: "down", "constructed", "connecting", "connected"
  running,       \* the flag of the sender loop
  disconnected,  \* the flag set and cleared by the cnats callbacks
  queue,         \* the send queue, head first
  sender,        \* where the sender thread is
  hand,          \* the envelope the sender has popped
  caller,        \* publishDurable's progress for the plate `current'
  current,       \* the last plate handed to publishDurable
  file,          \* the file persistToDisk returned
  loader,        \* per caller of enqueueOutbox: has it yet to list the directory
  todo,          \* per caller: the files listed and not yet re-enqueued
  outbox,        \* the files on disk
  clock,         \* [ms, seq]: wall clock and file counter
  link,          \* is the server reachable
  events,        \* callbacks cnats has queued, in order
  accepted,      \* plates for which publishDurable returned, by path taken
  delivered,     \* plates stored in the stream
  parked,        \* files whose envelope overflowed, or that never had one
  budget

memory == <<running, disconnected, queue, sender, hand, loader, todo>>
calls  == <<caller, current, file, accepted>>
world  == <<link, events, delivered>>
vars   == <<phase, memory, calls, outbox, clock, world, parked, budget>>

(***************************************************************************)
(* Names of outbox files.  enqueueOutbox sorts paths, that is strings: the *)
(* millisecond has a fixed width, the counter has not, and "9.json" comes  *)
(* after "10.json".                                                        *)
(***************************************************************************)
NameKey(n) == IF n < 10 THEN n * 100 ELSE (n \div 10) * 100 + (n % 10) + 1

NameBefore(f, g) ==
  \/ f.ms < g.ms
  \/ f.ms = g.ms /\ NameKey(f.seq) < NameKey(g.seq)

(***************************************************************************)
(* The queue.                                                              *)
(***************************************************************************)
\* Slip: the limit is forgotten.
EnqueueRawUnbounded(q, e) == Append(q, e)

EnqueueRaw(q, e) == IF Len(q) >= MaxQueue THEN Append(Tail(q), e) ELSE Append(q, e)

Overflow(q) == IF Len(q) >= MaxQueue THEN {Head(q)} ELSE {}

FilesIn(envelopes) == {e.file : e \in envelopes \cap Durable}

InMemory == Range(queue) \cup ({hand} \cap Envelopes)

Woken == IF sender = "asleep" THEN "wait" ELSE sender

(***************************************************************************)
(* A dozing sender holds the mutex: it has tested the condition it waits   *)
(* for and is not yet asleep.  A file whose envelope falls out of the      *)
(* queue waits for the next listing.                                       *)
(***************************************************************************)
Enqueue(e) ==
  /\ sender # "dozing"
  /\ queue' = EnqueueRaw(queue, e)
  /\ parked' = parked \cup FilesIn(Overflow(queue))
  /\ sender' = Woken

Spend(what) ==
  /\ budget[what] > 0
  /\ budget' = [budget EXCEPT ![what] = @ - 1]

(***************************************************************************)
(* publishDurable, by the PlateSender thread.  Its two flags are read one  *)
(* after the other, and the file is written and the envelope queued later. *)
(* Calls are made after connect() has returned; the class also allows one  *)
(* before it, which only writes the file.                                  *)
(***************************************************************************)
ConnectReturned ==
  phase = "connected" /\ running /\ ~loader["connect"] /\ todo["connect"] = {}

CallDurable ==
  /\ caller = "idle" /\ current < NPlates
  /\ phase = "constructed" \/ ConnectReturned
  /\ current' = current + 1
  /\ caller' = IF running THEN "readLink" ELSE "spool"
  /\ UNCHANGED <<phase, memory, file, accepted, outbox, clock, world, parked, budget>>

ReadLink ==
  /\ caller = "readLink"
  /\ caller' = IF disconnected THEN "persist" ELSE "online"
  /\ UNCHANGED <<phase, memory, current, file, accepted, outbox, clock, world, parked, budget>>

Accept(how) ==
  /\ accepted' = [accepted EXCEPT ![current] = how]
  /\ caller' = "idle"

EnqueueOnline ==
  /\ caller = "online"
  /\ Enqueue([kind |-> "J", plate |-> current])
  /\ Accept("online")
  /\ UNCHANGED <<phase, running, disconnected, hand, loader, todo, current, file,
                 outbox, clock, world, budget>>

\* The temporary file is written and renamed: the rename is what counts.
PersistToDisk ==
  /\ caller \in {"persist", "spool"}
  /\ \E ms \in {clock.ms, clock.ms + 1} :
       LET f == [ms |-> ms, seq |-> clock.seq, plate |-> current] IN
       /\ clock' = [ms |-> ms, seq |-> clock.seq + 1]
       /\ file' = f
       /\ \/ outbox' = outbox \cup {f} /\ UNCHANGED budget
          \/ Spend("disk") /\ UNCHANGED outbox       \* logged, and not reported
       /\ IF caller = "persist"
          THEN caller' = "enqueue" /\ UNCHANGED <<accepted, parked>>
          ELSE Accept("spooled") /\ parked' = parked \cup {f}
  /\ UNCHANGED <<phase, memory, current, world>>

EnqueuePersisted ==
  /\ caller = "enqueue"
  /\ Enqueue([kind |-> "durable", file |-> file])
  /\ Accept("persisted")
  /\ UNCHANGED <<phase, running, disconnected, hand, loader, todo, current, file,
                 outbox, clock, world, budget>>

\* publish(), for everything that is not a plate.
PublishCore ==
  /\ ConnectReturned
  /\ Spend("core")
  /\ Enqueue(Core)
  /\ UNCHANGED <<phase, running, disconnected, hand, loader, todo, calls, outbox,
                 clock, world>>

(***************************************************************************)
(* enqueueOutbox, by connect() and by the reconnected callback.            *)
(***************************************************************************)
ListOutbox(l) ==
  /\ loader[l]
  /\ loader' = [loader EXCEPT ![l] = FALSE]
  /\ todo' = [todo EXCEPT ![l] = outbox]
  /\ parked' = parked \ outbox
  /\ UNCHANGED <<phase, running, disconnected, queue, sender, hand, calls, outbox, clock,
                 world, budget>>

\* A file the sender has removed meanwhile cannot be opened and is skipped.
ReenqueueFile(l) ==
  \E f \in todo[l] :
    /\ \A g \in todo[l] \ {f} : NameBefore(f, g)
    /\ todo' = [todo EXCEPT ![l] = @ \ {f}]
    /\ IF f \in outbox
       THEN Enqueue([kind |-> "durable", file |-> f])
       ELSE UNCHANGED <<queue, parked, sender>>
    /\ UNCHANGED <<phase, running, disconnected, hand, loader, calls, outbox,
                   clock, world, budget>>

(***************************************************************************)
(* senderLoop.                                                             *)
(***************************************************************************)
TestRunning ==
  /\ sender = "test"
  /\ sender' = IF running THEN "wait" ELSE "exited"
  /\ UNCHANGED <<phase, running, disconnected, queue, hand, loader, todo, calls, outbox,
                 clock, world, parked, budget>>

Pop ==
  /\ sender = "wait"
  /\ IF queue # << >>
     THEN hand' = Head(queue) /\ queue' = Tail(queue) /\ sender' = "check"
     ELSE sender' = (IF running THEN "dozing" ELSE "exited") /\ UNCHANGED <<hand, queue>>
  /\ UNCHANGED <<phase, running, disconnected, loader, todo, calls, outbox, clock, world,
                 parked, budget>>

\* Only now a notification reaches it; one that came while it dozed is lost.
FallAsleep ==
  /\ sender = "dozing"
  /\ sender' = "asleep"
  /\ UNCHANGED <<phase, running, disconnected, queue, hand, loader, todo, calls, outbox,
                 clock, world, parked, budget>>

IsDurable == hand \in Durable

PlateOf(e) == IF e \in Durable THEN {e.file.plate} ELSE IF e \in Online THEN {e.plate} ELSE {}

\* Slip: dropping a durable envelope offline drops its file as well.
CheckLinkDropsFile ==
  /\ sender = "check"
  /\ sender' = IF ~disconnected THEN "publish" ELSE IF IsDurable THEN "remove" ELSE "hold"
  /\ UNCHANGED <<phase, running, disconnected, queue, hand, loader, todo, calls, outbox,
                 clock, world, parked, budget>>

\* Offline: a durable envelope is dropped (its file stays), any other is kept.
CheckLink ==
  /\ sender = "check"
  /\ IF ~disconnected THEN sender' = "publish" /\ UNCHANGED hand
     ELSE IF IsDurable THEN sender' = "test" /\ hand' = None
     ELSE sender' = "hold" /\ UNCHANGED hand
  /\ UNCHANGED <<phase, running, disconnected, queue, loader, todo, calls, outbox, clock,
                 world, parked, budget>>

HoldOffline ==
  /\ sender = "hold"
  /\ queue' = Append(queue, hand)
  /\ sender' = "test" /\ hand' = None
  /\ UNCHANGED <<phase, running, disconnected, loader, todo, calls, outbox, clock, world,
                 parked, budget>>

\* Slip: every published envelope is taken to have a file.
PublishOkAlwaysRemoves ==
  /\ sender = "publish" /\ link
  /\ delivered' = delivered \cup PlateOf(hand)
  /\ sender' = "remove"
  /\ UNCHANGED <<phase, running, disconnected, queue, hand, loader, todo, calls, outbox,
                 clock, link, events, parked, budget>>

PublishOk ==
  /\ sender = "publish" /\ link
  /\ delivered' = delivered \cup PlateOf(hand)
  /\ IF IsDurable THEN sender' = "remove" /\ UNCHANGED hand
                  ELSE sender' = "test" /\ hand' = None
  /\ UNCHANGED <<phase, running, disconnected, queue, loader, todo, calls, outbox, clock,
                 link, events, parked, budget>>

\* The server stored the message but its acknowledgement never came.
AckLost ==
  /\ sender = "publish" /\ link /\ Spend("fail")
  /\ delivered' = delivered \cup PlateOf(hand)
  /\ sender' = "failed"
  /\ UNCHANGED <<phase, running, disconnected, queue, hand, loader, todo, calls, outbox,
                 clock, link, events, parked>>

\* Slip: the file is removed whatever the publish returned.
PublishFailsRemoves ==
  /\ sender = "publish"
  /\ (~link /\ UNCHANGED budget) \/ Spend("fail")
  /\ sender' = IF IsDurable THEN "remove" ELSE "failed"
  /\ UNCHANGED <<phase, running, disconnected, queue, hand, loader, todo, calls, outbox,
                 clock, world, parked>>

PublishFails ==
  /\ sender = "publish"
  /\ (~link /\ UNCHANGED budget) \/ Spend("fail")
  /\ sender' = "failed"
  /\ UNCHANGED <<phase, running, disconnected, queue, hand, loader, todo, calls, outbox,
                 clock, world, parked>>

RemoveFile ==
  /\ sender = "remove"
  /\ outbox' = outbox \ {hand.file}
  /\ sender' = "test" /\ hand' = None
  /\ UNCHANGED <<phase, running, disconnected, queue, loader, todo, calls, clock, world,
                 parked, budget>>

\* Slip: a durable envelope is left to the next listing, as when offline.
RequeueFailedDrops ==
  /\ sender = "failed"
  /\ queue' = IF IsDurable THEN queue ELSE Append(queue, hand)
  /\ sender' = "test" /\ hand' = None
  /\ UNCHANGED <<phase, running, disconnected, loader, todo, calls, outbox, clock, world,
                 parked, budget>>

RequeueFailed ==
  /\ sender = "failed"
  /\ queue' = IF IsDurable THEN <<hand>> \o queue ELSE Append(queue, hand)
  /\ sender' = "test" /\ hand' = None
  /\ UNCHANGED <<phase, running, disconnected, loader, todo, calls, outbox, clock, world,
                 parked, budget>>

(***************************************************************************)
(* The connection.  cnats notices a change later than it happens, and runs *)
(* the callbacks one after the other on a thread of its own.               *)
(***************************************************************************)
LinkDown ==
  /\ link /\ phase \in {"connecting", "connected"} /\ Spend("link")
  /\ link' = FALSE
  /\ events' = Append(events, "disconnected")
  /\ UNCHANGED <<phase, memory, calls, outbox, clock, delivered, parked>>

LinkUp ==
  /\ ~link
  /\ link' = TRUE
  /\ events' = IF phase \in {"connecting", "connected"}
               THEN Append(events, "reconnected") ELSE events
  /\ UNCHANGED <<phase, memory, calls, outbox, clock, delivered, parked, budget>>

CallbackIdle == ~loader["callback"] /\ todo["callback"] = {}

NatsDisconnectedCb ==
  /\ CallbackIdle /\ events # << >> /\ Head(events) = "disconnected"
  /\ disconnected' = TRUE
  /\ events' = Tail(events)
  /\ UNCHANGED <<phase, running, queue, sender, hand, loader, todo, calls, outbox, clock,
                 link, delivered, parked, budget>>

\* Slip: the outbox is not listed again.
NatsReconnectedCbNoResend ==
  /\ CallbackIdle /\ events # << >> /\ Head(events) = "reconnected"
  /\ disconnected' = FALSE
  /\ events' = Tail(events)
  /\ UNCHANGED <<phase, running, queue, sender, hand, loader, todo, calls, outbox, clock,
                 link, delivered, parked, budget>>

NatsReconnectedCb ==
  /\ CallbackIdle /\ events # << >> /\ Head(events) = "reconnected"
  /\ disconnected' = FALSE
  /\ loader' = [loader EXCEPT !["callback"] = TRUE]
  /\ events' = Tail(events)
  /\ UNCHANGED <<phase, running, queue, sender, hand, todo, calls, outbox, clock, link,
                 delivered, parked, budget>>

(***************************************************************************)
(* The owner.  connect() opens the connection, then clears `disconnected'  *)
(* and starts the sender: a callback may run in between.                   *)
(***************************************************************************)
Construct ==
  /\ phase = "down"
  /\ phase' = "constructed"
  /\ UNCHANGED <<memory, calls, outbox, clock, world, parked, budget>>

OpenConnection ==
  /\ phase = "constructed" /\ link
  /\ phase' = "connecting"
  /\ UNCHANGED <<memory, calls, outbox, clock, world, parked, budget>>

StartSender ==
  /\ phase = "connecting"
  /\ phase' = "connected"
  /\ disconnected' = FALSE
  /\ running' = TRUE
  /\ sender' = "test"
  /\ loader' = [loader EXCEPT !["connect"] = TRUE]
  /\ UNCHANGED <<queue, hand, todo, calls, outbox, clock, world, parked, budget>>

\* The destructor; nothing calls the transport any more.  The flag is cleared and
\* the sender notified without the mutex.
StopSender ==
  /\ ConnectReturned /\ caller = "idle"
  /\ Spend("crash")
  /\ running' = FALSE
  /\ sender' = Woken
  /\ UNCHANGED <<phase, disconnected, queue, hand, loader, todo, calls, outbox, clock,
                 world, parked>>

\* What a new process starts with: only the outbox and the clock have survived.
Reset ==
  /\ phase' = "down"
  /\ running' = FALSE /\ disconnected' = FALSE
  /\ queue' = << >> /\ sender' = "none" /\ hand' = None
  /\ loader' = [l \in Loaders |-> FALSE] /\ todo' = [l \in Loaders |-> {}]
  /\ caller' = "idle" /\ file' = None
  /\ clock' = [ms |-> clock.ms + 1, seq |-> 0]
  /\ events' = << >>
  /\ UNCHANGED <<current, accepted, outbox, link, delivered, parked>>

Destroy ==
  /\ phase = "connected" /\ ~running /\ sender = "exited"
  /\ Reset /\ UNCHANGED budget

Crash ==
  /\ phase # "down"
  /\ Spend("crash") /\ Reset

Init ==
  /\ phase = "down"
  /\ running = FALSE /\ disconnected = FALSE
  /\ queue = << >> /\ sender = "none" /\ hand = None
  /\ loader = [l \in Loaders |-> FALSE] /\ todo = [l \in Loaders |-> {}]
  /\ caller = "idle" /\ current = 0 /\ file = None
  /\ accepted = [p \in Plates |-> "no"]
  /\ outbox = {} /\ clock = [ms |-> 0, seq |-> FirstSeq]
  /\ link = TRUE /\ events = << >> /\ delivered = {}
  /\ parked = {} /\ budget = Budget

Caller    == CallDurable \/ ReadLink \/ EnqueueOnline \/ PersistToDisk \/ EnqueuePersisted
Sender    == TestRunning \/ Pop \/ FallAsleep \/ CheckLink \/ HoldOffline \/ PublishOk \/ AckLost
             \/ PublishFails \/ RemoveFile \/ RequeueFailed
Loader(l) == ListOutbox(l) \/ ReenqueueFile(l)
Callbacks == NatsDisconnectedCb \/ NatsReconnectedCb
Owner     == Construct \/ OpenConnection \/ StartSender \/ StopSender \/ Destroy

Next ==
  \/ Caller \/ PublishCore \/ Sender
  \/ \E l \in Loaders : Loader(l)
  \/ Callbacks \/ LinkDown \/ LinkUp
  \/ Owner \/ Crash

Spec == Init /\ [][Next]_vars

(***************************************************************************)
(* The program's threads keep running, cnats retries the server for ever   *)
(* and runs its callbacks, and the server comes back within bounds.        *)
(***************************************************************************)
Fairness ==
  /\ WF_vars(Caller) /\ WF_vars(Sender) /\ WF_vars(Callbacks) /\ WF_vars(LinkUp)
  /\ \A l \in Loaders : WF_vars(Loader(l))
  /\ WF_vars(Construct \/ OpenConnection \/ StartSender \/ Destroy)

FairSpec == Spec /\ Fairness

----------------------------------------------------------------------------
OnDisk(p)  == \E f \in outbox : f.plate = p
Carried(p) == \E e \in InMemory : p \in PlateOf(e)

(***************************************************************************)
(* Types; and the sender holds an envelope exactly between popping it and  *)
(* disposing of it, a durable one when it is about to remove a file.       *)
(***************************************************************************)
SenderOK ==
  /\ sender \in {"none", "test", "wait", "dozing", "asleep", "check", "hold", "publish",
                "remove", "failed", "exited"}
  /\ (phase # "connected" => sender = "none")
  /\ IF sender \in {"check", "hold", "publish", "failed"} THEN hand \in Envelopes
     ELSE IF sender = "remove" THEN hand \in Durable
     ELSE hand = None

TypeOK ==
  /\ phase \in {"down", "constructed", "connecting", "connected"}
  /\ running \in BOOLEAN /\ disconnected \in BOOLEAN /\ link \in BOOLEAN
  /\ queue \in Seq(Envelopes)
  /\ SenderOK
  /\ caller \in {"idle", "readLink", "online", "persist", "spool", "enqueue"}
  /\ current \in 0..NPlates /\ (caller # "idle" => current \in Plates)
  /\ file \in Files \cup {None} /\ (caller = "enqueue" => file \in Files)
  /\ loader \in [Loaders -> BOOLEAN] /\ todo \in [Loaders -> SUBSET Files]
  /\ outbox \in SUBSET Files /\ parked \in SUBSET Files
  /\ clock \in [ms : Nat, seq : Nat]
  /\ events \in Seq({"disconnected", "reconnected"})
  /\ accepted \in [Plates -> {"no", "online", "persisted", "spooled"}]
  /\ delivered \in SUBSET Plates
  /\ budget \in [Kinds -> Nat]

(***************************************************************************)
(* As long as no write to the outbox has failed, a plate accepted through  *)
(* the outbox is in the stream or still on disk, whatever overflows,       *)
(* fails, is acknowledged late, stops or crashes.                          *)
(***************************************************************************)
NoWriteFailed == budget["disk"] = Budget["disk"]

PersistedSafe ==
  NoWriteFailed =>
    \A p \in Plates : accepted[p] \in {"persisted", "spooled"} => p \in delivered \/ OnDisk(p)

(***************************************************************************)
(* enqueueRaw's limit bounds the queue although the sender puts back what  *)
(* it holds without looking at it: one envelope over the limit, no more.   *)
(***************************************************************************)
QueueBound == Len(queue) + (IF hand = None THEN 0 ELSE 1) <= MaxQueue + 1

(***************************************************************************)
(* While the transport believes it is online, every file in the outbox is  *)
(* on its way: its envelope is in memory, or a directory listing is due or *)
(* in progress, or its writer is about to queue it.  The exceptions are    *)
(* known: an envelope that overflowed, a plate taken before connect().     *)
(***************************************************************************)
OnItsWay(f) ==
  \/ f \in FilesIn(InMemory)
  \/ \E l \in Loaders : loader[l] \/ f \in todo[l]
  \/ caller = "enqueue" /\ file = f

NoStrandedFile ==
  phase = "connected" /\ ~disconnected => \A f \in outbox : OnItsWay(f) \/ f \in parked

(***************************************************************************)
(* An accepted plate reaches the stream, if its envelope is not dropped by *)
(* a full queue or, for one accepted online, by the end of the process.    *)
(***************************************************************************)
EventuallyDelivered ==
  \A p \in Plates :
    /\ accepted[p] = "persisted"
         ~> p \in delivered \/ \E f \in parked : f.plate = p
    /\ accepted[p] = "online"
         ~> p \in delivered \/ ~Carried(p)

(***************************************************************************)
(* What the transport promises of a plate, whatever its threads do.        *)
(***************************************************************************)
Safe     == {p \in Plates : OnDisk(p)} \ delivered
Volatile == {p \in Plates : Carried(p) /\ ~OnDisk(p)} \ delivered

Delivery == INSTANCE DurableDelivery WITH volatile <- Volatile, safe <- Safe

Implements == Delivery!Spec

----------------------------------------------------------------------------
(***************************************************************************)
(* Claims of the code's comments that the code does not keep.              *)
(***************************************************************************)
(***************************************************************************)
(* PlateSender.cpp:166 "the durable/JetStream transport guarantees         *)
(* delivery via its outbox + retry": an accepted plate is delivered, on    *)
(* disk, or at least still in memory.                                      *)
(***************************************************************************)
GuaranteedDelivery ==
  \A p \in Plates : accepted[p] # "no" => p \in delivered \/ OnDisk(p) \/ Carried(p)

(***************************************************************************)
(* BUILD_PLAN.md:453 "SIGINT/SIGTERM -> clean shutdown": the destructor    *)
(* that stops the sender and waits for it to end comes back.               *)
(***************************************************************************)
StopReturns == phase = "connected" /\ ~running ~> phase = "down"
============================================================================
