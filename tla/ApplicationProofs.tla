-------------------------- MODULE ApplicationProofs ---------------------------
(* Proofs, for any number of requests, settings documents and commands, that the *)
(* pipeline comes to rest with settings no older than the newest reply, and that *)
(* it starts and stops in order unless stop() overlaps the bootstrap.            *)
EXTENDS Application, SequenceTheorems, TLAPS

-------------------------------------------------------------------------------
(* The inductive invariant                                                       *)

Places == {"connect", "offline", "run", "stopCameras", "stopWorker", "stopHeartbeat",
           "stopSender", "stopTransport", "exited"}
Hands == {"idle", "lock", "load", "build", "start", "reload", "processor", "direction",
          "cameras"}

MainTypes ==
    /\ main \in Places /\ running \in BOOLEAN /\ restart \in BOOLEAN
    /\ auth \in {"none", "asked", "refused", "ok"}

HandlerTypes ==
    /\ docs \in 0..MaxDocs
    /\ hand \in [Threads -> Hands] /\ msg \in [Threads -> 0..docs]
    /\ lock \in 0..MaxSubs /\ booted \in BOOLEAN

QueueTypes == subs \in Seq(Seq(1..docs)) /\ Len(subs) <= MaxSubs

PipeTypes ==
    /\ built \in 0..Len(Parts) /\ started \in 0..Len(Starts)
    /\ loaded \in 0..docs /\ conf \in [Tuned -> 0..docs]

\* A restart is told to main() only after the acknowledgement was sent.
Commanded ==
    /\ cmds \in Seq(Commands) /\ cmd \in Commands \cup {"idle", "restart"}
    /\ sent \in 0..MaxCommands /\ acked \subseteq Commands
    /\ restart => ~running
    /\ restart \/ cmd = "restart" => "reset_lpr" \in acked

\* bootMtx_ is held by exactly the handler that is inside.
LockHeld == \A i \in Threads : (lock = i) = (hand[i] \notin {"idle", "lock"})

\* Who is let in was authenticated; a subscription there is not yet has no handler
\* (main's own bootstrap of the offline mode apart).
Admitted ==
    /\ auth # "ok" =>
           /\ subs = <<>> /\ cmds = <<>>
           /\ \A i \in Threads : i # 1 => hand[i] = "idle"
    /\ main \in {"connect", "offline"} => auth = "none"
    /\ main = "connect" => ~booted
    /\ main = "connect" \/ auth \in {"asked", "ok"} =>
           \A i \in Threads : i > Len(subs) => hand[i] = "idle" /\ msg[i] = 0

\* The pipeline is built once, by the handler that set booted_.
BuiltOnce ==
    /\ ~booted => built = 0 /\ started = 0
    /\ \A i \in Threads :
        /\ hand[i] \in {"load", "build", "start"} => booted
        /\ hand[i] = "load" => built = 0
        /\ hand[i] = "build" => built < Len(Parts)
        /\ hand[i] = "start" => Complete /\ started < Len(Starts)
        /\ hand[i] \in {"load", "build"} => started = 0

\* The last document a subscription has been sent; 0 before the first.
Newest(i) == IF subs[i] = <<>> THEN msg[i] ELSE subs[i][Len(subs[i])]

\* Every reply goes to all the subscriptions there are.
SameNewest ==
    \A i, j \in 1..Len(subs) : Newest(i) # 0 /\ Newest(j) # 0 => Newest(i) = Newest(j)

\* What the handler inside has configured is no older than its own document, though
\* set_config may change the settings under it.
Reads(i) ==
    /\ hand[i] # "idle" => msg[i] >= 1
    /\ hand[i] \in {"build", "start", "processor", "direction", "cameras"} =>
           loaded >= msg[i]
    /\ hand[i] \in {"build", "start"} =>
           /\ built >= 3 => conf["processor"] >= msg[i]
           /\ built >= 12 => conf["direction"] >= msg[i]
           /\ built >= 15 => conf["cameras"] >= msg[i]
    /\ hand[i] \in {"direction", "cameras"} /\ Complete => conf["processor"] >= msg[i]
    /\ hand[i] = "cameras" /\ Complete => conf["direction"] >= msg[i]

Configuring == \A i \in Threads : Reads(i)

\* With nobody inside, the configuration is no older than any document handled, or
\* some subscription still has its newest document before it.
Waiting == \E i \in 1..Len(subs) : subs[i] # <<>> \/ hand[i] # "idle"
UpToDate == \A p \in Tuned \ {"passGap"} : \A i \in 1..Len(subs) : conf[p] >= msg[i]
Settling == Complete /\ lock = 0 => Waiting \/ UpToDate

SettleInv ==
    /\ MainTypes /\ HandlerTypes /\ QueueTypes /\ PipeTypes /\ Commanded
    /\ LockHeld /\ Admitted /\ BuiltOnce /\ SameNewest /\ Configuring /\ Settling

\* The parts that run, by where main() is: none, all, or those the bootstrap has
\* started so far; then one less per step of stop().
FirstParts(n) == {Starts[k] : k \in 1..n}

Starting == \E i \in Threads : hand[i] = "start"

AliveInOrder ==
    /\ main \in {"connect", "offline", "run", "stopCameras"} =>
        alive = FirstParts(started) /\ (Starting \/ started \in {0, Len(Starts)})
    /\ main = "stopWorker" => alive \subseteq {"worker", "heartbeat", "sender"}
    /\ main = "stopHeartbeat" => alive \subseteq {"heartbeat", "sender"}
    /\ main = "stopSender" => alive \subseteq {"sender"}
    /\ main \in {"stopTransport", "exited"} => alive = {}
    /\ alive # {} => Complete
    /\ Stopping => ~Building

OrderInv == SettleInv /\ AliveInOrder

-------------------------------------------------------------------------------
(* Lemmas about the operators of the model                                       *)

\* The parts by their numbers.
LEMMA PartNumbers ==
    /\ Len(Parts) = 15 /\ Parts[3] = "processor" /\ Parts[12] = "worker"
    /\ Parts[14] = "cameras" /\ Parts[15] = "filled"
  BY DEF Parts

LEMMA StartNumbers ==
    /\ Len(Starts) = 4 /\ Starts[1] = "sender" /\ Starts[2] = "worker"
    /\ Starts[3] = "heartbeat" /\ Starts[4] = "cameras"
  BY DEF Starts

\* A complete pipeline has every part that takes settings over.
LEMMA CompleteHasAll ==
    Complete => Built("processor") /\ Built("worker") /\ Built("cameras")
  BY PartNumbers DEF Complete, Built

\* Tuning gives the parts it names what is loaded and leaves the others.
LEMMA TuneSets ==
    ASSUME NEW ps, Tune(ps), NEW p \in Tuned
    PROVE  conf'[p] = IF p \in ps THEN loaded ELSE conf[p]
  BY DEF Tune

\* A queue of documents stays one when there are more documents.
LEMMA DocumentsGrow ==
    ASSUME NEW n \in Nat, NEW q \in Seq(1..n)
    PROVE  q \in Seq(1..(n + 1))
<1>1. \A k \in 1..Len(q) : q[k] \in 1..(n + 1)
  <2> TAKE k \in 1..Len(q)
  <2>1. q[k] \in 1..n
    BY ElementOfSeq
  <2> QED BY <2>1
<1>2. q \in [1..Len(q) -> 1..(n + 1)] /\ Len(q) \in Nat
  BY <1>1
<1> QED BY <1>2

\* So do the queues of all subscriptions.
LEMMA QueuesGrow ==
    ASSUME NEW n \in Nat, NEW qs \in Seq(Seq(1..n))
    PROVE  qs \in Seq(Seq(1..(n + 1)))
<1>1. \A k \in 1..Len(qs) : qs[k] \in Seq(1..(n + 1))
  <2> TAKE k \in 1..Len(qs)
  <2>1. qs[k] \in Seq(1..n)
    BY ElementOfSeq
  <2> QED BY <2>1, DocumentsGrow
<1>2. qs \in [1..Len(qs) -> Seq(1..(n + 1))] /\ Len(qs) \in Nat
  BY <1>1
<1> QED BY <1>2

\* What a delivery takes from a subscription.
LEMMA ReceiveTakes ==
    ASSUME HandlerTypes, QueueTypes, NEW i \in Threads, Receive(i)
    PROVE  /\ i \in 1..Len(subs) /\ subs[i] \in Seq(1..docs) /\ subs[i] # <<>>
           /\ Head(subs[i]) \in 1..docs /\ Tail(subs[i]) \in Seq(1..docs)
           /\ subs' \in Seq(Seq(1..docs)) /\ Len(subs') = Len(subs)
           /\ \A j \in 1..Len(subs) : subs'[j] = IF j = i THEN Tail(subs[i]) ELSE subs[j]
<1> DEFINE D == Seq(1..docs)
<1>1. subs \in Seq(D) /\ i \in 1..Len(subs) /\ subs[i] # <<>>
  BY DEF QueueTypes, Receive
<1>2. subs[i] \in D
  BY <1>1, ElementOfSeq
<1>3. Head(subs[i]) \in 1..docs /\ Tail(subs[i]) \in D
  BY <1>1, <1>2, HeadTailProperties
<1>4. subs' = [subs EXCEPT ![i] = Tail(subs[i])]
  BY DEF Receive
<1> HIDE DEF D
<1>5. subs' \in Seq(D) /\ Len(subs') = Len(subs)
  BY <1>1, <1>3, <1>4
<1> QED BY <1>1, <1>2, <1>3, <1>4, <1>5 DEF D

\* What a reply adds to the subscriptions.
LEMMA ReplyAdds ==
    ASSUME HandlerTypes, QueueTypes, Reply
    PROVE  /\ subs' \in Seq(Seq(1..docs')) /\ Len(subs') = Len(subs) /\ docs' = docs + 1
           /\ \A j \in 1..Len(subs) :
                /\ subs'[j] # <<>> /\ subs'[j][Len(subs'[j])] = docs + 1
<1> DEFINE D == Seq(1..(docs + 1))
<1>1. docs \in Nat /\ docs' = docs + 1 /\ docs + 1 \in 1..(docs + 1)
  BY DEF HandlerTypes, Reply
<1>2. subs \in Seq(D)
  BY <1>1, QueuesGrow DEF QueueTypes
<1>3. subs' = [j \in 1..Len(subs) |-> Append(subs[j], docs + 1)] /\ Len(subs) \in Nat
  BY <1>2 DEF Reply
<1>4. ASSUME NEW j \in 1..Len(subs)
      PROVE  /\ Append(subs[j], docs + 1) \in D /\ Append(subs[j], docs + 1) # <<>>
             /\ Append(subs[j], docs + 1)[Len(Append(subs[j], docs + 1))] = docs + 1
  <2>1. subs[j] \in D
    BY <1>2, ElementOfSeq
  <2> QED BY <2>1, <1>1, AppendProperties
<1> HIDE DEF D
<1>5. subs' \in Seq(D) /\ Len(subs') = Len(subs)
  BY <1>3, <1>4
<1> QED BY <1>1, <1>3, <1>4, <1>5 DEF D

\* What a request for settings adds to them.
LEMMA RequestAdds ==
    ASSUME QueueTypes, RequestSettings
    PROVE  /\ subs' \in Seq(Seq(1..docs)) /\ Len(subs') = Len(subs) + 1
           /\ \A j \in 1..Len(subs) : subs'[j] = subs[j]
           /\ subs'[Len(subs) + 1] = <<>>
<1> DEFINE D == Seq(1..docs)
<1>1. subs \in Seq(D) /\ <<>> \in D /\ subs' = Append(subs, <<>>)
  BY DEF QueueTypes, RequestSettings
<1> HIDE DEF D
<1>2. /\ Append(subs, <<>>) \in Seq(D) /\ Len(Append(subs, <<>>)) = Len(subs) + 1
      /\ \A j \in 1..Len(subs) : Append(subs, <<>>)[j] = subs[j]
      /\ Append(subs, <<>>)[Len(subs) + 1] = <<>>
  BY <1>1, AppendProperties
<1> QED BY <1>1, <1>2 DEF D

-------------------------------------------------------------------------------
(* The conjuncts of the invariant, each under a step                             *)

\* main() and the handshake go from one of their places to another.
LEMMA MainTypesStep ==
    ASSUME MainTypes, [Next]_vars
    PROVE  MainTypes'
<1>1. ASSUME NEW i \in Threads, Receive(i) \/ Enter(i) \/ Load(i) \/ Build(i) \/
         BuildThrows(i) \/ StartPart(i) \/ Reapply(i) PROVE MainTypes'
  BY <1>1 DEF MainTypes, Places, Receive, Enter, TakeLock, Load, Build, BuildThrows,
     StartPart, Reapply, mainVars, talkVars
<1>2. ASSUME NEW c \in Commands, Send(c) PROVE MainTypes'
  BY <1>2 DEF MainTypes, Places, Send, mainVars, talkVars
<1>3. CASE Connect \/ Offline \/ OfflineReady \/ AuthReply \/ Reply \/ Signal
  BY <1>3 DEF MainTypes, Places, Connect, Offline, OfflineReady, AuthReply, Reply,
     Signal, mainVars, talkVars
<1>4. CASE Handle \/ Ack \/ RequestRestart
  BY <1>4 DEF MainTypes, Places, Handle, Ack, AckFirst, RequestRestart, mainVars,
     talkVars
<1>5. CASE BeginStop \/ StopParts \/ StopTransport
  BY <1>5 DEF MainTypes, Places, BeginStop, StopParts, StopSender, StopStep,
     StopTransport, mainVars, talkVars
<1>6. CASE UNCHANGED vars
  BY <1>6 DEF MainTypes, Places, vars, mainVars, talkVars
<1> QED BY <1>1, <1>2, <1>3, <1>4, <1>5, <1>6 DEF Next, Settings

\* Handlers hold documents that were sent.
LEMMA HandlerTypesStep ==
    ASSUME HandlerTypes, QueueTypes, [Next]_vars
    PROVE  HandlerTypes'
<1>1. CASE Offline
  BY <1>1, BoundsAssumption DEF HandlerTypes, Hands, Threads, Offline, setVars, pipeVars,
     talkVars
<1>2. CASE Reply
  BY <1>2, BoundsAssumption DEF HandlerTypes, Reply, setVars, pipeVars, talkVars
<1>3. ASSUME NEW i \in Threads, Receive(i) PROVE HandlerTypes'
  <2>1. Head(subs[i]) \in 0..docs /\ docs \in Nat
    BY <1>3, ReceiveTakes DEF HandlerTypes
  <2> QED BY <1>3, <2>1 DEF HandlerTypes, Hands, Receive, pipeVars, talkVars
<1>4. ASSUME NEW i \in Threads, Enter(i) PROVE HandlerTypes'
  BY <1>4 DEF HandlerTypes, Hands, Threads, Enter, TakeLock, setVars, pipeVars, talkVars
<1>5. ASSUME NEW i \in Threads, Load(i) PROVE HandlerTypes'
  BY <1>5, BoundsAssumption DEF HandlerTypes, Hands, Threads, Load, setVars, pipeVars,
     talkVars
<1>6. ASSUME NEW i \in Threads, Build(i) PROVE HandlerTypes'
  BY <1>6, BoundsAssumption DEF HandlerTypes, Hands, Threads, Build, setVars, pipeVars,
     talkVars
<1>7. ASSUME NEW i \in Threads, BuildThrows(i) PROVE HandlerTypes'
  BY <1>7, BoundsAssumption DEF HandlerTypes, Hands, Threads, BuildThrows, setVars,
     pipeVars, talkVars
<1>8. ASSUME NEW i \in Threads, StartPart(i) PROVE HandlerTypes'
  BY <1>8, BoundsAssumption DEF HandlerTypes, Hands, Threads, StartPart, setVars,
     pipeVars, talkVars
<1>9. ASSUME NEW i \in Threads, Reapply(i) PROVE HandlerTypes'
  BY <1>9, BoundsAssumption DEF HandlerTypes, Hands, Threads, Reapply, setVars, pipeVars,
     talkVars
<1>10. CASE Handle
  BY <1>10, BoundsAssumption DEF HandlerTypes, RequestSettings, Handle, setVars, pipeVars,
     talkVars
<1>11. ASSUME NEW c \in Commands, Send(c) PROVE HandlerTypes'
  BY <1>11, BoundsAssumption DEF HandlerTypes, Send, setVars, pipeVars, talkVars
<1>12. CASE Connect \/ OfflineReady \/ AuthReply \/ Signal \/ Ack \/ RequestRestart \/
         BeginStop
  BY <1>12, BoundsAssumption DEF HandlerTypes, Connect, OfflineReady, AuthReply, Signal,
     Ack, AckFirst, RequestRestart, BeginStop, setVars, pipeVars, talkVars
<1>13. CASE StopParts \/ StopTransport
  BY <1>13, BoundsAssumption DEF HandlerTypes, StopParts, StopSender, StopStep,
     StopTransport, setVars, pipeVars, talkVars
<1>14. CASE UNCHANGED vars
  BY <1>14 DEF HandlerTypes, vars, setVars, pipeVars, talkVars
<1> QED BY <1>1, <1>2, <1>3, <1>4, <1>5, <1>6, <1>7, <1>8, <1>9, <1>10, <1>11, <1>12,
        <1>13, <1>14 DEF Next, Settings

\* What is on its way to the handlers was sent.
LEMMA QueueTypesStep ==
    ASSUME HandlerTypes, QueueTypes, Admitted, [Next]_vars
    PROVE  QueueTypes'
<1>1. CASE Offline
  <2>1. docs = 0 /\ docs' = 0 + 1 /\ subs' = subs
    BY <1>1 DEF Offline
  <2>2. subs \in Seq(Seq(1..(0 + 1)))
    BY <2>1, QueuesGrow DEF QueueTypes
  <2> QED BY <2>1, <2>2 DEF QueueTypes
<1>2. CASE AuthReply
  <2>1. docs' = docs /\ subs = <<>>
    BY <1>2 DEF AuthReply, Admitted
  <2>2. CASE RequestSettings
    <3>1. subs' \in Seq(Seq(1..docs)) /\ Len(subs') = 0 + 1
      BY <2>1, <2>2, RequestAdds
    <3> QED BY <2>1, <3>1, BoundsAssumption DEF QueueTypes
  <2>3. CASE UNCHANGED subs
    BY <2>1, <2>3 DEF QueueTypes
  <2> QED BY <1>2, <2>2, <2>3 DEF AuthReply
<1>3. CASE Reply
  BY <1>3, ReplyAdds DEF QueueTypes, Reply, setVars, talkVars
<1>4. ASSUME NEW i \in Threads, Receive(i) PROVE QueueTypes'
  BY <1>4, ReceiveTakes DEF QueueTypes, Receive, setVars, talkVars
<1>5. CASE Handle
  <2>1. docs \in Nat /\ MaxSubs \in Nat /\ Len(subs) \in Nat
    BY BoundsAssumption DEF HandlerTypes, QueueTypes
  <2>2. subs' \in Seq(Seq(1..docs)) /\ Len(subs') <= MaxSubs
    <3>1. CASE RequestSettings /\ Len(subs) < MaxSubs
      BY <2>1, <3>1, RequestAdds
    <3>2. CASE UNCHANGED subs
      BY <3>2 DEF QueueTypes
    <3> QED BY <1>5, <3>1, <3>2 DEF Handle
  <2>3. docs' = docs \/ docs' = docs + 1
    BY <1>5 DEF Handle
  <2> QED BY <2>1, <2>2, <2>3, QueuesGrow DEF QueueTypes
<1>6. ASSUME NEW i \in Threads, Enter(i) \/ Load(i) \/ Build(i) \/ BuildThrows(i) \/
         StartPart(i) \/ Reapply(i) PROVE QueueTypes'
  BY <1>6 DEF QueueTypes, Enter, TakeLock, Load, Build, BuildThrows, StartPart, Reapply,
     setVars, talkVars
<1>7. ASSUME NEW c \in Commands, Send(c) PROVE QueueTypes'
  BY <1>7 DEF QueueTypes, Send, setVars, talkVars
<1>8. CASE Connect \/ OfflineReady \/ Signal \/ Ack \/ RequestRestart \/ BeginStop \/
         StopParts \/ StopTransport
  BY <1>8 DEF QueueTypes, Connect, OfflineReady, Signal, Ack, AckFirst, RequestRestart,
     BeginStop, StopParts, StopSender, StopStep, StopTransport, setVars, talkVars
<1>9. CASE UNCHANGED vars
  BY <1>9 DEF QueueTypes, vars, setVars, talkVars
<1> QED BY <1>1, <1>2, <1>3, <1>4, <1>5, <1>6, <1>7, <1>8, <1>9 DEF Next, Settings

\* What a part is configured with, and what is loaded, is a document that was sent.
LEMMA PipeTypesStep ==
    ASSUME HandlerTypes, PipeTypes, BuiltOnce, [Next]_vars
    PROVE  PipeTypes'
<1>1. CASE Offline
  BY <1>1 DEF PipeTypes, HandlerTypes, Offline, pipeVars, talkVars
<1>2. CASE Reply
  BY <1>2 DEF PipeTypes, HandlerTypes, Reply, pipeVars, talkVars
<1>3. ASSUME NEW i \in Threads, Load(i) PROVE PipeTypes'
  BY <1>3 DEF PipeTypes, HandlerTypes, Load, pipeVars, talkVars
<1>4. ASSUME NEW i \in Threads, Build(i) PROVE PipeTypes'
  BY <1>4, PartNumbers, StartNumbers DEF PipeTypes, HandlerTypes, BuiltOnce, Tune, Build,
     pipeVars, talkVars
<1>5. ASSUME NEW i \in Threads, StartPart(i) PROVE PipeTypes'
  BY <1>5, PartNumbers, StartNumbers DEF PipeTypes, HandlerTypes, BuiltOnce, StartPart,
     pipeVars, talkVars
<1>6. ASSUME NEW i \in Threads, Reapply(i) PROVE PipeTypes'
  BY <1>6 DEF PipeTypes, HandlerTypes, Tune, Reapply, pipeVars, talkVars
<1>7. CASE Handle
  BY <1>7 DEF PipeTypes, HandlerTypes, Handle, pipeVars, talkVars
<1>8. ASSUME NEW i \in Threads, Receive(i) \/ Enter(i) \/ BuildThrows(i) PROVE
         PipeTypes'
  BY <1>8 DEF PipeTypes, HandlerTypes, Receive, Enter, TakeLock, BuildThrows, pipeVars,
     talkVars
<1>9. ASSUME NEW c \in Commands, Send(c) PROVE PipeTypes'
  BY <1>9 DEF PipeTypes, HandlerTypes, Send, pipeVars, talkVars
<1>10. CASE Connect \/ OfflineReady \/ AuthReply \/ Signal \/ Ack \/ RequestRestart \/
         BeginStop
  BY <1>10 DEF PipeTypes, HandlerTypes, Connect, OfflineReady, AuthReply, Signal, Ack,
     AckFirst, RequestRestart, BeginStop, pipeVars, talkVars
<1>11. CASE StopParts \/ StopTransport
  BY <1>11 DEF PipeTypes, HandlerTypes, StopParts, StopSender, StopStep, StopTransport,
     pipeVars, talkVars
<1>12. CASE UNCHANGED vars
  BY <1>12 DEF PipeTypes, HandlerTypes, vars, pipeVars, talkVars
<1> QED BY <1>1, <1>2, <1>3, <1>4, <1>5, <1>6, <1>7, <1>8, <1>9, <1>10, <1>11, <1>12
        DEF Next, Settings

\* The restart is asked for after the acknowledgement, and stops main() (onCommand).
LEMMA CommandedStep ==
    ASSUME Commanded, [Next]_vars
    PROVE  Commanded'
<1>1. ASSUME NEW c \in Commands, Send(c) PROVE Commanded'
  <2>1. Append(cmds, c) \in Seq(Commands)
    BY AppendProperties DEF Commanded
  <2> QED BY <1>1, <2>1, BoundsAssumption DEF Commanded, Send, mainVars
<1>2. CASE Handle
  <2>1. Head(cmds) \in Commands /\ Tail(cmds) \in Seq(Commands)
    BY <1>2, HeadTailProperties DEF Commanded, Handle
  <2> QED BY <1>2, <2>1 DEF Commanded, Commands, Handle, mainVars
<1>3. CASE Ack
  BY <1>3 DEF Commanded, Commands, Ack, AckFirst, mainVars, cmdVars
<1>4. ASSUME NEW i \in Threads, Receive(i) \/ Enter(i) \/ Load(i) \/ Build(i) \/
         BuildThrows(i) \/ StartPart(i) \/ Reapply(i) PROVE Commanded'
  BY <1>4 DEF Commanded, Receive, Enter, TakeLock, Load, Build, BuildThrows, StartPart,
     Reapply, mainVars, cmdVars
<1>5. CASE Connect \/ Offline \/ OfflineReady \/ AuthReply \/ Reply \/ Signal
  BY <1>5 DEF Commanded, Connect, Offline, OfflineReady, AuthReply, Reply, Signal,
     mainVars, cmdVars
<1>6. CASE RequestRestart \/ BeginStop \/ StopParts \/ StopTransport
  BY <1>6 DEF Commanded, RequestRestart, BeginStop, StopParts, StopSender, StopStep,
     StopTransport, mainVars, cmdVars
<1>7. CASE UNCHANGED vars
  BY <1>7 DEF Commanded, vars, mainVars, cmdVars
<1> QED BY <1>1, <1>2, <1>3, <1>4, <1>5, <1>6, <1>7 DEF Next, Settings

\* bootMtx_ is taken on entering and given back on leaving.
LEMMA LockHeldStep ==
    ASSUME HandlerTypes, LockHeld, Admitted, [Next]_vars
    PROVE  LockHeld'
<1>1. CASE Offline
  <2>1. hand[1] = "idle" /\ 1 \in Threads
    BY <1>1, BoundsAssumption DEF Admitted, Offline, Threads
  <2> QED BY <1>1, <2>1 DEF LockHeld, HandlerTypes, Offline
<1>2. ASSUME NEW i \in Threads, Receive(i) \/ Enter(i) \/ Load(i) PROVE LockHeld'
  BY <1>2, BoundsAssumption DEF LockHeld, HandlerTypes, Threads, Receive, Enter,
     TakeLock, Load, setVars
<1>3. ASSUME NEW i \in Threads, Build(i) \/ BuildThrows(i) \/ StartPart(i) \/
         Reapply(i) PROVE LockHeld'
  BY <1>3, BoundsAssumption DEF LockHeld, HandlerTypes, Threads, Build, BuildThrows,
     StartPart, Reapply, setVars
<1>4. ASSUME NEW c \in Commands, Send(c) PROVE LockHeld'
  BY <1>4, BoundsAssumption DEF LockHeld, HandlerTypes, Threads, Send, setVars
<1>5. CASE Connect \/ OfflineReady \/ AuthReply \/ Reply \/ Signal
  BY <1>5, BoundsAssumption DEF LockHeld, HandlerTypes, Threads, Connect, OfflineReady,
     AuthReply, Reply, Signal, setVars
<1>6. CASE Handle \/ Ack \/ RequestRestart \/ BeginStop \/ StopParts \/ StopTransport
  BY <1>6, BoundsAssumption DEF LockHeld, HandlerTypes, Threads, Handle, Ack, AckFirst,
     RequestRestart, BeginStop, StopParts, StopSender, StopStep, StopTransport,
     setVars
<1>7. CASE UNCHANGED vars
  BY <1>7 DEF LockHeld, HandlerTypes, Threads, vars, setVars
<1> QED BY <1>1, <1>2, <1>3, <1>4, <1>5, <1>6, <1>7 DEF Next, Settings

\* Nothing is subscribed to before the handshake, and a handler belongs to a
\* subscription.
LEMMA AdmittedStep ==
    ASSUME MainTypes, HandlerTypes, QueueTypes, Commanded, Admitted, [Next]_vars
    PROVE  Admitted'
<1>1. CASE AuthReply
  <2>1. CASE RequestSettings
    <3>1. Len(subs') = Len(subs) + 1 /\ Len(subs) \in Nat
      BY <2>1, RequestAdds DEF QueueTypes
    <3> QED BY <1>1, <2>1, <3>1 DEF Admitted, AuthReply, Threads, mainVars, cmdVars
  <2>2. CASE UNCHANGED subs
    BY <1>1, <2>2 DEF Admitted, AuthReply, mainVars, cmdVars
  <2> QED BY <1>1, <2>1, <2>2 DEF AuthReply
<1>2. CASE Reply
  <2>1. Len(subs') = Len(subs) /\ (subs = <<>> => subs' = <<>>)
    BY <1>2, ReplyAdds DEF QueueTypes
  <2> QED BY <1>2, <2>1 DEF Admitted, Threads, Reply, mainVars, pipeVars, cmdVars
<1>3. ASSUME NEW i \in Threads, Receive(i) PROVE Admitted'
  <2>1. i \in 1..Len(subs) /\ Len(subs') = Len(subs) /\ subs # <<>>
    BY <1>3, ReceiveTakes
  <2> QED BY <1>3, <2>1 DEF Admitted, HandlerTypes, Threads, Receive, mainVars,
       pipeVars, talkVars, cmdVars
<1>4. CASE Handle
  <2>1. auth = "ok" /\ main # "connect" /\ auth' = auth /\ main' = main
    BY <1>4 DEF Admitted, Handle, mainVars
  <2>2. Len(subs') \in Nat /\ Len(subs) \in Nat /\ Len(subs) <= Len(subs')
    <3>1. CASE RequestSettings
      BY <3>1, RequestAdds DEF QueueTypes
    <3>2. CASE UNCHANGED subs
      BY <3>2 DEF QueueTypes
    <3> QED BY <1>4, <3>1, <3>2 DEF Handle
  <2>3. hand' = hand /\ msg' = msg
    BY <1>4 DEF Handle
  <2> QED BY <2>1, <2>2, <2>3 DEF Admitted, Threads
<1>5. ASSUME NEW i \in Threads, Enter(i) PROVE Admitted'
  BY <1>5 DEF Admitted, MainTypes, HandlerTypes, Threads, Enter, TakeLock, mainVars,
     setVars, pipeVars, talkVars, cmdVars
<1>6. ASSUME NEW i \in Threads, Load(i) PROVE Admitted'
  BY <1>6 DEF Admitted, MainTypes, HandlerTypes, Threads, Load, mainVars, setVars,
     pipeVars, talkVars, cmdVars
<1>7. ASSUME NEW i \in Threads, Build(i) PROVE Admitted'
  BY <1>7 DEF Admitted, MainTypes, HandlerTypes, Threads, Build, mainVars, setVars,
     pipeVars, talkVars, cmdVars
<1>8. ASSUME NEW i \in Threads, BuildThrows(i) PROVE Admitted'
  BY <1>8 DEF Admitted, MainTypes, HandlerTypes, Threads, BuildThrows, mainVars, setVars,
     pipeVars, talkVars, cmdVars
<1>9. ASSUME NEW i \in Threads, StartPart(i) PROVE Admitted'
  BY <1>9 DEF Admitted, MainTypes, HandlerTypes, Threads, StartPart, mainVars, setVars,
     pipeVars, talkVars, cmdVars
<1>10. ASSUME NEW i \in Threads, Reapply(i) PROVE Admitted'
  BY <1>10 DEF Admitted, MainTypes, HandlerTypes, Threads, Reapply, mainVars, setVars,
     pipeVars, talkVars, cmdVars
<1>11. ASSUME NEW c \in Commands, Send(c) PROVE Admitted'
  BY <1>11 DEF Admitted, MainTypes, HandlerTypes, Threads, Send, mainVars, setVars,
     pipeVars, talkVars, cmdVars
<1>12. CASE Connect
  BY <1>12 DEF Admitted, MainTypes, HandlerTypes, Threads, Connect, mainVars, setVars,
     pipeVars, talkVars, cmdVars
<1>13. CASE Offline
  BY <1>13 DEF Admitted, MainTypes, HandlerTypes, Threads, Offline, mainVars, setVars,
     pipeVars, talkVars, cmdVars
<1>14. CASE OfflineReady
  BY <1>14 DEF Admitted, MainTypes, HandlerTypes, Threads, OfflineReady, mainVars,
     setVars, pipeVars, talkVars, cmdVars
<1>15. CASE Signal
  BY <1>15 DEF Admitted, MainTypes, HandlerTypes, Threads, Signal, mainVars, setVars,
     pipeVars, talkVars, cmdVars
<1>16. CASE Ack
  BY <1>16 DEF Admitted, MainTypes, HandlerTypes, Threads, Ack, AckFirst, mainVars,
     setVars, pipeVars, talkVars, cmdVars
<1>17. CASE RequestRestart
  BY <1>17 DEF Admitted, MainTypes, HandlerTypes, Threads, RequestRestart, mainVars,
     setVars, pipeVars, talkVars, cmdVars
<1>18. CASE BeginStop
  BY <1>18 DEF Admitted, MainTypes, HandlerTypes, Threads, BeginStop, mainVars, setVars,
     pipeVars, talkVars, cmdVars
<1>19. CASE StopParts
  BY <1>19 DEF Admitted, MainTypes, HandlerTypes, Threads, StopParts, StopSender,
     StopStep, mainVars, setVars, pipeVars, talkVars, cmdVars
<1>20. CASE StopTransport
  BY <1>20 DEF Admitted, MainTypes, HandlerTypes, Threads, StopTransport, mainVars,
     setVars, pipeVars, talkVars, cmdVars
<1>21. CASE UNCHANGED vars
  BY <1>21 DEF Admitted, MainTypes, HandlerTypes, Threads, vars, mainVars, setVars,
     pipeVars, talkVars, cmdVars
<1> QED BY <1>1, <1>2, <1>3, <1>4, <1>5, <1>6, <1>7, <1>8, <1>9, <1>10, <1>11, <1>12,
        <1>13, <1>14, <1>15, <1>16, <1>17, <1>18, <1>19, <1>20, <1>21 DEF Next,
        Settings

\* Only the handler that set booted_ builds and starts, from the first part on.
LEMMA BuiltOnceStep ==
    ASSUME HandlerTypes, PipeTypes, LockHeld, BuiltOnce, [Next]_vars
    PROVE  BuiltOnce'
<1>1. CASE Offline
  BY <1>1 DEF BuiltOnce, HandlerTypes, Complete, Threads, Offline, setVars, pipeVars
<1>2. ASSUME NEW i \in Threads, Receive(i) PROVE BuiltOnce'
  BY <1>2 DEF BuiltOnce, HandlerTypes, PipeTypes, LockHeld, Complete, Receive, setVars,
     pipeVars
<1>3. ASSUME NEW i \in Threads, Enter(i) PROVE BuiltOnce'
  BY <1>3 DEF BuiltOnce, HandlerTypes, PipeTypes, LockHeld, Complete, Enter, TakeLock,
     setVars, pipeVars
<1>4. ASSUME NEW i \in Threads, Load(i) PROVE BuiltOnce'
  BY <1>4, PartNumbers, StartNumbers DEF BuiltOnce, HandlerTypes, PipeTypes, LockHeld,
     Complete, Load, setVars, pipeVars
<1>5. ASSUME NEW i \in Threads, Build(i) PROVE BuiltOnce'
  BY <1>5, PartNumbers, StartNumbers DEF BuiltOnce, HandlerTypes, PipeTypes, LockHeld,
     Complete, Build, setVars, pipeVars
<1>6. ASSUME NEW i \in Threads, BuildThrows(i) PROVE BuiltOnce'
  BY <1>6 DEF BuiltOnce, HandlerTypes, PipeTypes, LockHeld, Complete, BuildThrows,
     setVars, pipeVars
<1>7. ASSUME NEW i \in Threads, StartPart(i) PROVE BuiltOnce'
  BY <1>7, PartNumbers, StartNumbers DEF BuiltOnce, HandlerTypes, PipeTypes, LockHeld,
     Complete, StartPart, setVars, pipeVars
<1>8. ASSUME NEW i \in Threads, Reapply(i) PROVE BuiltOnce'
  BY <1>8 DEF BuiltOnce, HandlerTypes, PipeTypes, LockHeld, Complete, Reapply, setVars,
     pipeVars
<1>9. ASSUME NEW c \in Commands, Send(c) PROVE BuiltOnce'
  BY <1>9 DEF BuiltOnce, Complete, Threads, Send, setVars, pipeVars
<1>10. CASE Connect \/ OfflineReady \/ AuthReply \/ Reply \/ Signal
  BY <1>10 DEF BuiltOnce, Complete, Threads, Connect, OfflineReady, AuthReply, Reply,
     Signal, setVars, pipeVars
<1>11. CASE Handle \/ Ack \/ RequestRestart \/ BeginStop \/ StopParts \/ StopTransport
  BY <1>11 DEF BuiltOnce, Complete, Threads, Handle, Ack, AckFirst, RequestRestart,
     BeginStop, StopParts, StopSender, StopStep, StopTransport, setVars, pipeVars
<1>12. CASE UNCHANGED vars
  BY <1>12 DEF BuiltOnce, Complete, Threads, vars, setVars, pipeVars
<1> QED BY <1>1, <1>2, <1>3, <1>4, <1>5, <1>6, <1>7, <1>8, <1>9, <1>10, <1>11, <1>12
        DEF Next, Settings

\* A delivery leaves the newest document of every subscription what it was.
LEMMA ReceiveKeepsNewest ==
    ASSUME HandlerTypes, QueueTypes, NEW i \in Threads, Receive(i), NEW j \in 1..Len(subs)
    PROVE  Newest(j)' = Newest(j)
<1>1. /\ i \in 1..Len(subs) /\ subs[i] \in Seq(1..docs) /\ subs[i] # <<>>
      /\ subs'[j] = IF j = i THEN Tail(subs[i]) ELSE subs[j]
  BY ReceiveTakes
<1>2. msg' = [msg EXCEPT ![i] = Head(subs[i])] /\ i \in DOMAIN msg
  BY DEF Receive, HandlerTypes
<1>3. CASE j # i
  BY <1>1, <1>2, <1>3 DEF Newest
<1>4. CASE j = i
  <2> DEFINE q == subs[i]
  <2>1. Newest(j)' = IF Tail(q) = <<>> THEN Head(q) ELSE Tail(q)[Len(Tail(q))]
    BY <1>1, <1>2, <1>4 DEF Newest
  <2>2. Newest(j) = q[Len(q)]
    BY <1>1, <1>4 DEF Newest
  <2>3. q \in Seq(1..docs) /\ q # <<>>
    BY <1>1
  <2> HIDE DEF q
  <2>4. /\ Len(q) \in Nat \ {0} /\ Head(q) = q[1]
        /\ Tail(q) \in Seq(1..docs) /\ Len(Tail(q)) = Len(q) - 1
        /\ \A k \in 1..(Len(q) - 1) : Tail(q)[k] = q[k + 1]
    BY <2>3, HeadTailProperties
  <2>5. CASE Tail(q) = <<>>
    BY <2>1, <2>2, <2>4, <2>5
  <2>6. CASE Tail(q) # <<>>
    <3>1. Len(Tail(q)) \in 1..(Len(q) - 1)
      BY <2>4, <2>6
    <3> QED BY <3>1, <2>1, <2>2, <2>4, <2>6
  <2> QED BY <2>5, <2>6
<1> QED BY <1>3, <1>4

\* Replies reach every subscription; a new one has none yet.
LEMMA SameNewestStep ==
    ASSUME HandlerTypes, QueueTypes, Admitted, SameNewest, [Next]_vars
    PROVE  SameNewest'
<1>1. CASE Offline
  <2>1. subs' = <<>>
    BY <1>1 DEF Offline, Admitted
  <2> QED BY <2>1 DEF SameNewest
<1>2. CASE AuthReply
  <2>1. CASE RequestSettings
    <3>1. Len(subs') = 0 + 1
      BY <1>2, <2>1, RequestAdds DEF AuthReply, Admitted
    <3> QED BY <3>1 DEF SameNewest
  <2>2. CASE UNCHANGED subs
    BY <1>2, <2>2 DEF SameNewest, Newest, AuthReply
  <2> QED BY <1>2, <2>1, <2>2 DEF AuthReply
<1>3. CASE Reply
  <2>1. docs + 1 \in Nat /\ Len(subs') = Len(subs)
    BY <1>3, ReplyAdds DEF HandlerTypes
  <2>2. \A j \in 1..Len(subs) : Newest(j)' = docs + 1
    BY <1>3, ReplyAdds DEF Newest
  <2> QED BY <2>1, <2>2 DEF SameNewest
<1>4. ASSUME NEW i \in Threads, Receive(i) PROVE SameNewest'
  <2>1. Len(subs') = Len(subs) /\ \A j \in 1..Len(subs) : Newest(j)' = Newest(j)
    BY <1>4, ReceiveTakes, ReceiveKeepsNewest
  <2> QED BY <2>1 DEF SameNewest
<1>5. CASE Handle
  <2>1. auth = "ok" /\ msg' = msg
    BY <1>5 DEF Handle, Admitted
  <2>2. CASE RequestSettings /\ Len(subs) < MaxSubs
    <3>1. PICK n \in Nat : n = Len(subs)
      BY DEF QueueTypes
    <3>2. /\ Len(subs') = n + 1 /\ subs'[n + 1] = <<>>
          /\ \A j \in 1..n : subs'[j] = subs[j]
      BY <2>2, <3>1, RequestAdds
    <3>3. msg[n + 1] = 0
      BY <2>1, <2>2, <3>1, BoundsAssumption DEF Admitted, Threads
    <3>4. \A j \in 1..n : Newest(j)' = Newest(j)
      BY <2>1, <3>2 DEF Newest
    <3>5. \A j \in 1..Len(subs') : j \in 1..n \/ Newest(j)' = 0
      BY <2>1, <3>2, <3>3 DEF Newest
    <3> QED BY <3>1, <3>4, <3>5 DEF SameNewest
  <2>3. CASE UNCHANGED subs
    BY <2>1, <2>3 DEF SameNewest, Newest
  <2> QED BY <1>5, <2>2, <2>3 DEF Handle
<1>6. ASSUME NEW i \in Threads, Enter(i) \/ Load(i) \/ Build(i) \/ BuildThrows(i) \/
         StartPart(i) \/ Reapply(i) PROVE SameNewest'
  BY <1>6 DEF SameNewest, Newest, Enter, TakeLock, Load, Build, BuildThrows, StartPart,
     Reapply, setVars
<1>7. ASSUME NEW c \in Commands, Send(c) PROVE SameNewest'
  BY <1>7 DEF SameNewest, Newest, Send, setVars
<1>8. CASE Connect \/ OfflineReady \/ Signal
  BY <1>8 DEF SameNewest, Newest, Connect, OfflineReady, Signal, setVars
<1>9. CASE Ack \/ RequestRestart \/ BeginStop \/ StopParts \/ StopTransport
  BY <1>9 DEF SameNewest, Newest, Ack, AckFirst, RequestRestart, BeginStop, StopParts,
     StopSender, StopStep, StopTransport, setVars
<1>10. CASE UNCHANGED vars
  BY <1>10 DEF SameNewest, Newest, vars, setVars
<1> QED BY <1>1, <1>2, <1>3, <1>4, <1>5, <1>6, <1>7, <1>8, <1>9, <1>10 DEF Next,
        Settings

\* A part takes over what is loaded, and that is no older than the document in hand.
LEMMA ConfiguringStep ==
    ASSUME HandlerTypes, QueueTypes, PipeTypes, LockHeld, Admitted, BuiltOnce,
           Configuring, [Next]_vars
    PROVE  Configuring'
<1>1. CASE Offline
  BY <1>1, BoundsAssumption DEF Configuring, Reads, Complete, Threads, Admitted,
     HandlerTypes, BuiltOnce, Offline, setVars, pipeVars
<1>2. ASSUME NEW i \in Threads, Receive(i) PROVE Configuring'
  <2> SUFFICES ASSUME NEW j \in Threads PROVE Reads(j)'
    BY DEF Configuring, Threads
  <2>1. Reads(j)
    BY DEF Configuring
  <2>2. j # i => hand'[j] = hand[j] /\ msg'[j] = msg[j]
    BY <1>2 DEF HandlerTypes, Receive
  <2>3. CASE j = i
    <3>1. Head(subs[i]) \in 1..docs /\ docs \in Nat
      BY <1>2, ReceiveTakes DEF HandlerTypes
    <3>2. hand'[i] = "lock" /\ msg'[i] = Head(subs[i])
      BY <1>2 DEF Receive, HandlerTypes
    <3> QED BY <2>3, <3>1, <3>2 DEF Reads
  <2>4. CASE j # i
    BY <1>2, <2>1, <2>2, <2>4 DEF Reads, Complete, Receive, pipeVars
  <2> QED BY <2>3, <2>4
<1>3. ASSUME NEW i \in Threads, Enter(i) PROVE Configuring'
  <2> SUFFICES ASSUME NEW j \in Threads PROVE Reads(j)'
    BY DEF Configuring, Threads
  <2>1. Reads(j)
    BY DEF Configuring
  <2>2. j # i => hand'[j] = hand[j] /\ msg'[j] = msg[j]
    BY <1>3 DEF HandlerTypes, Enter, TakeLock
  <2>3. CASE j = i
    BY <1>3, <2>1, <2>3 DEF Reads, HandlerTypes, PipeTypes, Enter, TakeLock
  <2>4. CASE j # i
    BY <1>3, <2>1, <2>2, <2>4 DEF Reads, Complete, Enter, TakeLock, pipeVars
  <2> QED BY <2>3, <2>4
<1>4. ASSUME NEW i \in Threads, Load(i) PROVE Configuring'
  <2> SUFFICES ASSUME NEW j \in Threads PROVE Reads(j)'
    BY DEF Configuring, Threads
  <2>1. Reads(j)
    BY DEF Configuring
  <2>2. j # i => hand'[j] = hand[j] /\ msg'[j] = msg[j]
    BY <1>4 DEF HandlerTypes, Load
  <2>3. CASE j = i
    BY <1>4, <2>1, <2>3, PartNumbers DEF Reads, HandlerTypes, PipeTypes, Load,
         BuiltOnce, Complete
  <2>4. CASE j # i
    <3>1. hand'[j] \in {"idle", "lock"}
      BY <1>4, <2>2, <2>4 DEF LockHeld, HandlerTypes, Load
    <3> QED BY <2>1, <2>2, <2>4, <3>1 DEF Reads
  <2> QED BY <2>3, <2>4
<1>5. ASSUME NEW i \in Threads, Build(i) PROVE Configuring'
  <2> SUFFICES ASSUME NEW j \in Threads PROVE Reads(j)'
    BY DEF Configuring, Threads
  <2>1. Reads(j)
    BY DEF Configuring
  <2>2. j # i => hand'[j] = hand[j] /\ msg'[j] = msg[j]
    BY <1>5 DEF HandlerTypes, Build
  <2>3. CASE j = i
    <3>1. /\ hand[i] = "build" /\ hand'[i] \in {"build", "start"} /\ built' = built + 1
          /\ built \in Nat /\ msg'[i] = msg[i] /\ loaded' = loaded
          /\ Tune(ReadBy(Parts[built + 1]))
      BY <1>5 DEF Build, HandlerTypes, PipeTypes
    <3>2. /\ loaded >= msg[i] /\ msg[i] >= 1
          /\ built >= 3 => conf["processor"] >= msg[i]
          /\ built >= 12 => conf["direction"] >= msg[i]
          /\ built >= 15 => conf["cameras"] >= msg[i]
      BY <2>1, <2>3, <3>1 DEF Reads
    <3>3. /\ built + 1 = 3 => "processor" \in ReadBy(Parts[built + 1])
          /\ built + 1 = 12 => "direction" \in ReadBy(Parts[built + 1])
          /\ built + 1 = 15 => "cameras" \in ReadBy(Parts[built + 1])
      BY PartNumbers DEF ReadBy
    <3>4. /\ \/ conf'["processor"] = loaded
             \/ conf'["processor"] = conf["processor"] /\ built + 1 # 3
          /\ \/ conf'["direction"] = loaded
             \/ conf'["direction"] = conf["direction"] /\ built + 1 # 12
          /\ \/ conf'["cameras"] = loaded
             \/ conf'["cameras"] = conf["cameras"] /\ built + 1 # 15
      BY <3>1, <3>3, TuneSets DEF Tuned
    <3> QED BY <2>3, <3>1, <3>2, <3>4 DEF Reads
  <2>4. CASE j # i
    <3>1. hand'[j] \in {"idle", "lock"}
      BY <1>5, <2>2, <2>4 DEF LockHeld, HandlerTypes, Build
    <3> QED BY <2>1, <2>2, <2>4, <3>1 DEF Reads
  <2> QED BY <2>3, <2>4
<1>6. ASSUME NEW i \in Threads, BuildThrows(i) PROVE Configuring'
  <2> SUFFICES ASSUME NEW j \in Threads PROVE Reads(j)'
    BY DEF Configuring, Threads
  <2>1. Reads(j)
    BY DEF Configuring
  <2>2. j # i => hand'[j] = hand[j] /\ msg'[j] = msg[j]
    BY <1>6 DEF HandlerTypes, BuildThrows
  <2>3. CASE j = i
    BY <1>6, <2>1, <2>3 DEF Reads, HandlerTypes, PipeTypes, BuildThrows
  <2>4. CASE j # i
    BY <1>6, <2>1, <2>2, <2>4 DEF Reads, Complete, BuildThrows, pipeVars
  <2> QED BY <2>3, <2>4
<1>7. ASSUME NEW i \in Threads, StartPart(i) PROVE Configuring'
  <2> SUFFICES ASSUME NEW j \in Threads PROVE Reads(j)'
    BY DEF Configuring, Threads
  <2>1. Reads(j)
    BY DEF Configuring
  <2>2. j # i => hand'[j] = hand[j] /\ msg'[j] = msg[j]
    BY <1>7 DEF HandlerTypes, StartPart
  <2>3. CASE j = i
    BY <1>7, <2>1, <2>3 DEF Reads, HandlerTypes, PipeTypes, StartPart, Complete
  <2>4. CASE j # i
    <3>1. hand'[j] \in {"idle", "lock"}
      BY <1>7, <2>2, <2>4 DEF LockHeld, HandlerTypes, StartPart
    <3> QED BY <2>1, <2>2, <2>4, <3>1 DEF Reads
  <2> QED BY <2>3, <2>4
<1>8. ASSUME NEW i \in Threads, Reapply(i) PROVE Configuring'
  <2> SUFFICES ASSUME NEW j \in Threads PROVE Reads(j)'
    BY DEF Configuring, Threads
  <2>1. Reads(j)
    BY DEF Configuring
  <2>2. j # i => hand'[j] = hand[j] /\ msg'[j] = msg[j]
    BY <1>8 DEF HandlerTypes, Reapply
  <2>3. CASE j = i
    BY <1>8, <2>1, <2>3, CompleteHasAll, TuneSets DEF Reads, HandlerTypes, PipeTypes,
         Reapply, Complete, Tuned
  <2>4. CASE j # i
    <3>1. hand'[j] \in {"idle", "lock"}
      BY <1>8, <2>2, <2>4 DEF LockHeld, HandlerTypes, Reapply
    <3> QED BY <2>1, <2>2, <2>4, <3>1 DEF Reads
  <2> QED BY <2>3, <2>4
<1>9. CASE Handle
  BY <1>9 DEF Configuring, Reads, Complete, Threads, HandlerTypes, PipeTypes, Handle,
     setVars, pipeVars
<1>10. ASSUME NEW c \in Commands, Send(c) PROVE Configuring'
  BY <1>10 DEF Configuring, Reads, Complete, Threads, Send, setVars, pipeVars
<1>11. CASE Connect
  BY <1>11 DEF Configuring, Reads, Complete, Threads, Connect, setVars, pipeVars
<1>12. CASE OfflineReady
  BY <1>12 DEF Configuring, Reads, Complete, Threads, OfflineReady, setVars, pipeVars
<1>13. CASE AuthReply
  BY <1>13 DEF Configuring, Reads, Complete, Threads, AuthReply, setVars, pipeVars
<1>14. CASE Reply
  BY <1>14 DEF Configuring, Reads, Complete, Threads, Reply, setVars, pipeVars
<1>15. CASE Signal
  BY <1>15 DEF Configuring, Reads, Complete, Threads, Signal, setVars, pipeVars
<1>16. CASE Ack
  BY <1>16 DEF Configuring, Reads, Complete, Threads, Ack, AckFirst, setVars, pipeVars
<1>17. CASE RequestRestart
  BY <1>17 DEF Configuring, Reads, Complete, Threads, RequestRestart, setVars, pipeVars
<1>18. CASE BeginStop
  BY <1>18 DEF Configuring, Reads, Complete, Threads, BeginStop, setVars, pipeVars
<1>19. CASE StopParts
  BY <1>19 DEF Configuring, Reads, Complete, Threads, StopParts, StopSender, StopStep,
     setVars, pipeVars
<1>20. CASE StopTransport
  BY <1>20 DEF Configuring, Reads, Complete, Threads, StopTransport, setVars, pipeVars
<1>21. CASE UNCHANGED vars
  BY <1>21 DEF Configuring, Reads, Complete, Threads, vars, setVars, pipeVars
<1> QED BY <1>1, <1>2, <1>3, <1>4, <1>5, <1>6, <1>7, <1>8, <1>9, <1>10, <1>11, <1>12,
        <1>13, <1>14, <1>15, <1>16, <1>17, <1>18, <1>19, <1>20, <1>21 DEF Next,
        Settings

\* A handler that comes to rest has configured the parts with settings no older than
\* its document; if nobody waits any more, that document is everybody's newest.
LEMMA RestIsNewest ==
    ASSUME HandlerTypes, QueueTypes, Admitted, SameNewest, Configuring,
           NEW i \in Threads, hand[i] # "idle",
           hand' = [hand EXCEPT ![i] = "idle"], subs' = subs, msg' = msg,
           \A p \in Tuned \ {"passGap"} : conf'[p] >= msg[i],
           conf' \in [Tuned -> Nat]
    PROVE  Waiting' \/ UpToDate'
<1> SUFFICES ASSUME ~Waiting', NEW p \in Tuned \ {"passGap"}, NEW j \in 1..Len(subs)
             PROVE  conf'[p] >= msg[j]
  BY DEF UpToDate
<1>1. \A k \in 1..Len(subs) : subs[k] = <<>>
  BY DEF Waiting
<1>2. subs # <<>> /\ Len(subs) \in Nat
  BY DEF QueueTypes
<1>3. i \in 1..Len(subs)
  BY <1>2, BoundsAssumption DEF Admitted, Threads
<1>4. Newest(i) = msg[i] /\ Newest(j) = msg[j]
  BY <1>1, <1>3 DEF Newest
<1>5. msg[i] \in Nat /\ msg[i] >= 1 /\ msg[j] \in Nat
  <2>1. j \in Threads
    BY <1>2, BoundsAssumption DEF Threads, QueueTypes
  <2> QED BY <2>1 DEF HandlerTypes, Configuring, Reads
<1>6. msg[j] = 0 \/ msg[j] = msg[i]
  BY <1>3, <1>4, <1>5 DEF SameNewest
<1> QED BY <1>5, <1>6

\* Whoever leaves last leaves the newest settings behind, or somebody still waits.
LEMMA SettlingStep ==
    ASSUME HandlerTypes, QueueTypes, PipeTypes, LockHeld, Admitted, BuiltOnce,
           SameNewest, Configuring, Settling, [Next]_vars
    PROVE  Settling'
<1>1. CASE Offline
  BY <1>1, PartNumbers DEF Settling, Complete, Admitted, BuiltOnce, Offline, pipeVars,
     PipeTypes, Offline, setVars, pipeVars
<1>2. CASE AuthReply
  <2>1. subs = <<>> /\ UNCHANGED <<hand, msg, lock, built, conf>>
    BY <1>2 DEF AuthReply, Admitted, pipeVars
  <2>2. CASE RequestSettings
    <3>1. Len(subs') = 1 /\ 1 \in Threads
      BY <2>1, <2>2, RequestAdds, BoundsAssumption DEF Threads
    <3>2. msg[1] = 0 /\ \A p \in Tuned : conf[p] \in Nat
      BY <1>2, <2>1, <3>1 DEF Admitted, AuthReply, PipeTypes
    <3> QED BY <2>1, <3>1, <3>2 DEF Settling, UpToDate
  <2>3. CASE UNCHANGED subs
    BY <2>1, <2>3 DEF Settling, Waiting, UpToDate, Complete
  <2> QED BY <1>2, <2>2, <2>3 DEF AuthReply
<1>3. CASE Reply
  <2>1. Len(subs') = Len(subs) /\ \A j \in 1..Len(subs) : subs'[j] # <<>>
    BY <1>3, ReplyAdds
  <2>2. UNCHANGED <<hand, msg, conf>>
    BY <1>3 DEF Reply, pipeVars
  <2>3. CASE Len(subs) = 0
    BY <2>1, <2>3 DEF Settling, UpToDate
  <2>4. CASE Len(subs) # 0
    <3>1. 1 \in 1..Len(subs)
      BY <2>4 DEF QueueTypes
    <3> QED BY <2>1, <3>1 DEF Settling, Waiting
  <2> QED BY <2>3, <2>4
<1>4. ASSUME NEW i \in Threads, Receive(i) PROVE Settling'
  <2>1. i \in 1..Len(subs')
    BY <1>4, ReceiveTakes
  <2>2. hand'[i] = "lock"
    BY <1>4 DEF Receive, HandlerTypes
  <2> QED BY <2>1, <2>2 DEF Settling, Waiting
<1>5. ASSUME NEW i \in Threads, Enter(i) PROVE Settling'
  <2>1. lock' # 0
    BY <1>5 DEF Enter, TakeLock, Threads
  <2> QED BY <2>1 DEF Settling
<1>6. ASSUME NEW i \in Threads, Load(i) PROVE Settling'
  <2>1. lock' # 0
    BY <1>6 DEF Load, LockHeld, Threads
  <2> QED BY <2>1 DEF Settling
<1>7. ASSUME NEW i \in Threads, Build(i) PROVE Settling'
  <2>1. lock' # 0
    BY <1>7 DEF Build, LockHeld, Threads
  <2> QED BY <2>1 DEF Settling
<1>8. ASSUME NEW i \in Threads, BuildThrows(i) PROVE Settling'
  <2>1. ~Complete'
    BY <1>8, PartNumbers DEF BuildThrows, Complete, pipeVars
  <2> QED BY <2>1 DEF Settling
<1>9. ASSUME NEW i \in Threads, StartPart(i) PROVE Settling'
  <2>1. CASE lock' # 0
    BY <2>1 DEF Settling
  <2>2. CASE lock' = 0
    <3>1. hand[i] = "start" /\ lock # 0
      BY <1>9 DEF StartPart, LockHeld, Threads
    <3>2. hand' = [hand EXCEPT ![i] = "idle"] /\ UNCHANGED <<subs, msg, conf>>
      BY <1>9, <2>2, <3>1 DEF StartPart
    <3>3. built = 15
      BY <3>1, PartNumbers DEF BuiltOnce, Complete
    <3>4. \A p \in Tuned \ {"passGap"} : conf[p] >= msg[i]
      BY <3>1, <3>3 DEF Configuring, Reads, Tuned
    <3>5. conf \in [Tuned -> Nat]
      BY DEF PipeTypes, HandlerTypes
    <3>6. Waiting' \/ UpToDate'
      BY <3>1, <3>2, <3>4, <3>5, RestIsNewest
    <3> QED BY <3>6 DEF Settling
  <2> QED BY <2>1, <2>2
<1>10. ASSUME NEW i \in Threads, Reapply(i) PROVE Settling'
  <2>1. CASE lock' # 0 \/ ~Complete'
    BY <2>1 DEF Settling
  <2>2. CASE lock' = 0 /\ Complete'
    <3>1. Reads(i) /\ lock # 0
      BY <1>10 DEF Configuring, Reapply, LockHeld, Threads
    <3>2. /\ hand[i] = "cameras" /\ hand' = [hand EXCEPT ![i] = "idle"]
          /\ UNCHANGED <<subs, msg, built, loaded>>
          /\ Tune(IF Built("cameras") THEN {"cameras"} ELSE {})
      BY <1>10, <2>2, <3>1 DEF Reapply
    <3>3. Complete /\ Built("cameras")
      BY <2>2, <3>2, CompleteHasAll DEF Complete
    <3>4. /\ loaded >= msg[i] /\ conf["processor"] >= msg[i]
          /\ conf["direction"] >= msg[i]
      BY <3>1, <3>2, <3>3 DEF Reads
    <3>5. \A p \in Tuned \ {"passGap"} : conf'[p] >= msg[i]
      BY <3>2, <3>3, <3>4, TuneSets DEF Tuned
    <3>6. conf' \in [Tuned -> Nat]
      BY <3>2 DEF Tune, PipeTypes, HandlerTypes
    <3>7. Waiting' \/ UpToDate'
      BY <3>2, <3>5, <3>6, RestIsNewest
    <3> QED BY <3>7 DEF Settling
  <2> QED BY <2>1, <2>2
<1>11. CASE Handle
  <2>1. auth = "ok" /\ UNCHANGED <<hand, msg, lock, built, conf>>
    BY <1>11 DEF Handle, Admitted
  <2>2. CASE RequestSettings /\ Len(subs) < MaxSubs
    <3>1. PICK n \in Nat : n = Len(subs)
      BY DEF QueueTypes
    <3>2. /\ Len(subs') = n + 1 /\ \A j \in 1..n : subs'[j] = subs[j]
      BY <2>2, <3>1, RequestAdds
    <3>3. msg[n + 1] = 0
      BY <2>1, <2>2, <3>1, BoundsAssumption DEF Admitted, Threads
    <3>4. \A p \in Tuned : conf[p] \in Nat
      BY DEF PipeTypes, HandlerTypes
    <3>5. Waiting => Waiting'
      BY <2>1, <3>1, <3>2 DEF Waiting
    <3>6. UpToDate => UpToDate'
      BY <2>1, <3>1, <3>2, <3>3, <3>4 DEF UpToDate
    <3> QED BY <2>1, <3>5, <3>6 DEF Settling, Complete
  <2>3. CASE UNCHANGED subs
    BY <2>1, <2>3 DEF Settling, Waiting, UpToDate, Complete
  <2> QED BY <1>11, <2>2, <2>3 DEF Handle
<1>12. ASSUME NEW c \in Commands, Send(c) PROVE Settling'
  BY <1>12 DEF Settling, Waiting, UpToDate, Complete, Send, setVars, pipeVars
<1>13. CASE Connect
  BY <1>13 DEF Settling, Waiting, UpToDate, Complete, Connect, setVars, pipeVars
<1>14. CASE OfflineReady
  BY <1>14 DEF Settling, Waiting, UpToDate, Complete, OfflineReady, setVars, pipeVars
<1>15. CASE Signal
  BY <1>15 DEF Settling, Waiting, UpToDate, Complete, Signal, setVars, pipeVars
<1>16. CASE Ack
  BY <1>16 DEF Settling, Waiting, UpToDate, Complete, Ack, AckFirst, setVars, pipeVars
<1>17. CASE RequestRestart
  BY <1>17 DEF Settling, Waiting, UpToDate, Complete, RequestRestart, setVars, pipeVars
<1>18. CASE BeginStop
  BY <1>18 DEF Settling, Waiting, UpToDate, Complete, BeginStop, setVars, pipeVars
<1>19. CASE StopParts
  BY <1>19 DEF Settling, Waiting, UpToDate, Complete, StopParts, StopSender, StopStep,
     setVars, pipeVars
<1>20. CASE StopTransport
  BY <1>20 DEF Settling, Waiting, UpToDate, Complete, StopTransport, setVars, pipeVars
<1>21. CASE UNCHANGED vars
  BY <1>21 DEF Settling, Waiting, UpToDate, Complete, vars, setVars, pipeVars
<1> QED BY <1>1, <1>2, <1>3, <1>4, <1>5, <1>6, <1>7, <1>8, <1>9, <1>10, <1>11, <1>12,
        <1>13, <1>14, <1>15, <1>16, <1>17, <1>18, <1>19, <1>20, <1>21 DEF Next,
        Settings

-------------------------------------------------------------------------------
(* The settings                                                                  *)

\* The initial states satisfy the invariant.
LEMMA SettleInit == Init => SettleInv
<1> SUFFICES ASSUME Init PROVE SettleInv
  OBVIOUS
<1>1. MainTypes
  BY DEF Init, MainTypes, Places
<1>2. Commanded
  <2>1. <<>> \in Seq(Commands) /\ 0 \in 0..MaxCommands
    BY BoundsAssumption
  <2> QED BY <2>1 DEF Init, Commanded
<1>3. HandlerTypes
  <2>1. 0 \in 0..MaxDocs /\ 0 \in 0..MaxSubs /\ 0 \in 0..0
    BY BoundsAssumption
  <2>2. hand \in [Threads -> Hands]
    BY DEF Init, Hands
  <2>3. msg \in [Threads -> 0..docs]
    BY <2>1 DEF Init
  <2> QED BY <2>1, <2>2, <2>3 DEF Init, HandlerTypes
<1>4. LockHeld
  BY DEF Init, LockHeld, Threads
<1>5. QueueTypes /\ SameNewest
  BY BoundsAssumption DEF Init, QueueTypes, SameNewest
<1>6. PipeTypes /\ BuiltOnce
  BY PartNumbers, StartNumbers DEF Init, PipeTypes, BuiltOnce, Threads
<1>7. Admitted
  BY DEF Init, Admitted, Threads
<1>8. Configuring
  BY DEF Init, Configuring, Reads, Threads
<1>9. Settling
  BY PartNumbers DEF Init, Settling, Complete
<1> QED BY <1>1, <1>2, <1>3, <1>4, <1>5, <1>6, <1>7, <1>8, <1>9 DEF SettleInv

\* Every step keeps it.
LEMMA SettleStep == SettleInv /\ [Next]_vars => SettleInv'
<1> SUFFICES ASSUME SettleInv, [Next]_vars PROVE SettleInv'
  OBVIOUS
<1> USE DEF SettleInv
<1>1. MainTypes' /\ HandlerTypes' /\ QueueTypes'
  BY MainTypesStep, HandlerTypesStep, QueueTypesStep
<1>2. PipeTypes' /\ Commanded' /\ LockHeld'
  BY PipeTypesStep, CommandedStep, LockHeldStep
<1>3. Admitted' /\ BuiltOnce' /\ SameNewest'
  BY AdmittedStep, BuiltOnceStep, SameNewestStep
<1>4. Configuring' /\ Settling'
  BY ConfiguringStep, SettlingStep
<1> QED BY <1>1, <1>2, <1>3, <1>4

\* So it holds in every reachable state, whether stop() overlaps the bootstrap or not.
LEMMA SettleHolds == Spec => []SettleInv
  BY SettleInit, SettleStep, PTL DEF Spec

\* Nothing waits in a state of which SettledOnNewest speaks.
LEMMA SettledFromInvariant == SettleInv => SettledOnNewest
<1> SUFFICES ASSUME SettleInv, Complete, lock = 0,
                    \A i \in DOMAIN subs : subs[i] = <<>> /\ hand[i] = "idle"
             PROVE  \A p \in Tuned \ {"passGap"} :
                        \A i \in Threads : i <= Len(subs) => conf[p] >= msg[i]
  BY DEF SettledOnNewest
<1>1. DOMAIN subs = 1..Len(subs) /\ Len(subs) \in Nat
  BY DEF SettleInv, QueueTypes
<1>2. UpToDate
  BY <1>1 DEF SettleInv, Settling, Waiting
<1> QED BY <1>1, <1>2 DEF UpToDate, Threads

\* Once every handler has come to rest, a complete pipeline runs with settings no older
\* than the newest reply, in whatever order the subscriptions delivered their copies
\* (requestSettings, bootstrapFromJson, reapplyLiveSettings).
THEOREM SettingsSettle == Spec => []SettledOnNewest
  BY SettleHolds, SettledFromInvariant, PTL

-------------------------------------------------------------------------------
(* The order of starting and stopping                                            *)

\* Which parts the bootstrap has started after each of its four calls.
LEMMA FirstPartsAre ==
    /\ FirstParts(0) = {} /\ FirstParts(1) = {"sender"}
    /\ FirstParts(2) = {"sender", "worker"}
    /\ FirstParts(3) = {"sender", "worker", "heartbeat"}
    /\ FirstParts(4) = {"sender", "worker", "heartbeat", "cameras"}
<1>1. 1..0 = {} /\ 1..1 = {1} /\ 1..2 = {1, 2} /\ 1..3 = {1, 2, 3} /\ 1..4 = {1, 2, 3, 4}
  OBVIOUS
<1> QED BY <1>1, StartNumbers DEF FirstParts

\* The bootstrap starts the parts in their order, and stop() comes when it is done.
LEMMA AliveStep ==
    ASSUME ~Overlap, SettleInv, AliveInOrder, [Next]_vars
    PROVE  AliveInOrder'
<1>1. CASE Connect
  BY <1>1 DEF AliveInOrder, Starting, Stopping, Building, Complete, Threads, mainVars,
     Connect, mainVars, setVars, pipeVars
<1>2. CASE Offline
  <2>1. started = 0 /\ hand' = [hand EXCEPT ![1] = "lock"] /\ hand \in [Threads -> Hands]
        /\ main = "connect" /\ main' = "offline"
    BY <1>2 DEF Offline, SettleInv, Admitted, BuiltOnce, HandlerTypes
  <2> QED BY <1>2, <2>1 DEF AliveInOrder, Starting, Stopping, Complete, Offline, pipeVars
<1>3. CASE OfflineReady
  <2>1. auth = "none" /\ \A i \in Threads : hand[i] = "idle"
    BY <1>3 DEF OfflineReady, SettleInv, Admitted, Threads
  <2>2. UNCHANGED <<hand, booted, built, started, alive>>
    BY <1>3 DEF OfflineReady, setVars, pipeVars
  <2>3. main = "offline" /\ main' \in {"run", "exited"} /\ (main' = "exited" => ~Complete)
    BY <1>3 DEF OfflineReady
  <2> QED BY <2>1, <2>2, <2>3 DEF AliveInOrder, Starting, Building, Complete, Stopping
<1>4. ASSUME NEW i \in Threads, Receive(i) PROVE AliveInOrder'
  BY <1>4 DEF SettleInv, HandlerTypes, mainVars, AliveInOrder, Starting, Stopping,
     Building, Complete, Threads, Receive, mainVars, setVars, pipeVars
<1>5. ASSUME NEW i \in Threads, Enter(i) PROVE AliveInOrder'
  BY <1>5 DEF SettleInv, HandlerTypes, mainVars, AliveInOrder, Starting, Stopping,
     Building, Complete, Threads, Enter, TakeLock, mainVars, setVars, pipeVars
<1>6. ASSUME NEW i \in Threads, Load(i) PROVE AliveInOrder'
  BY <1>6 DEF SettleInv, HandlerTypes, mainVars, AliveInOrder, Starting, Stopping,
     Building, Complete, Threads, Load, mainVars, setVars, pipeVars
<1>7. ASSUME NEW i \in Threads, Build(i) PROVE AliveInOrder'
  BY <1>7, PartNumbers, StartNumbers DEF SettleInv, HandlerTypes, PipeTypes, BuiltOnce,
     mainVars, AliveInOrder, Starting, Stopping, Building, Complete, Threads, Build,
     mainVars, setVars, pipeVars
<1>8. ASSUME NEW i \in Threads, BuildThrows(i) PROVE AliveInOrder'
  BY <1>8 DEF SettleInv, HandlerTypes, BuiltOnce, mainVars, AliveInOrder, Starting,
     Stopping, Building, Complete, Threads, BuildThrows, mainVars, setVars, pipeVars
<1>9. ASSUME NEW i \in Threads, StartPart(i) PROVE AliveInOrder'
  <2>1. /\ hand[i] = "start" /\ started' = started + 1
        /\ alive' = alive \cup {Starts[started + 1]}
        /\ UNCHANGED <<main, booted, built>>
        /\ \/ hand' = [hand EXCEPT ![i] = "idle"]
           \/ hand' = hand /\ started + 1 # Len(Starts)
    BY <1>9 DEF StartPart, mainVars
  <2>2. main \in {"connect", "offline", "run"} /\ Building
    BY <1>9, <2>1 DEF AliveInOrder, Stopping, Building
  <2>3. Complete /\ started \in 0..3
    BY <2>1, StartNumbers DEF SettleInv, BuiltOnce, PipeTypes
  <2>4. alive' = FirstParts(started + 1)
    BY <2>1, <2>2, <2>3, FirstPartsAre, StartNumbers DEF AliveInOrder
  <2>5. Starting' \/ started' = Len(Starts)
    <3>1. CASE started + 1 = Len(Starts)
      BY <2>1, <3>1
    <3>2. CASE started + 1 # Len(Starts)
      BY <1>9, <2>1, <3>2 DEF StartPart, Starting
    <3> QED BY <3>1, <3>2
  <2> QED BY <2>1, <2>2, <2>3, <2>4, <2>5 DEF AliveInOrder, Stopping, Complete
<1>10. ASSUME NEW i \in Threads, Reapply(i) PROVE AliveInOrder'
  BY <1>10 DEF SettleInv, HandlerTypes, mainVars, AliveInOrder, Starting, Stopping,
     Building, Complete, Threads, Reapply, mainVars, setVars, pipeVars
<1>11. CASE BeginStop
  <2>1. UNCHANGED <<hand, booted, built, started, alive>>
    BY <1>11 DEF BeginStop, setVars, pipeVars
  <2>2. CASE main = "connect"
    <3>1. started = 0 /\ \A i \in Threads : hand[i] = "idle"
      BY <2>2 DEF SettleInv, Admitted, BuiltOnce, QueueTypes, Threads
    <3>2. main' = "exited" /\ alive = {}
      BY <1>11, <2>2, <3>1, FirstPartsAre DEF BeginStop, AliveInOrder
    <3> QED BY <2>1, <3>1, <3>2 DEF AliveInOrder, Building, Stopping
  <2>3. CASE main = "run"
    <3>1. main' = "stopCameras" /\ ~Building
      BY <1>11, <2>3 DEF BeginStop
    <3> QED BY <2>1, <2>3, <3>1 DEF AliveInOrder, Starting, Building, Complete, Stopping
  <2> QED BY <1>11, <2>2, <2>3 DEF BeginStop
<1>12. CASE StopParts
  <2>1. UNCHANGED <<hand, booted, built, started>>
    BY <1>12 DEF StopParts, StopSender, StopStep, setVars
  <2>2. ~Building /\ Stopping /\ Stopping'
    BY <1>12 DEF AliveInOrder, Stopping, StopParts, StopSender, StopStep
  <2>3. CASE main = "stopCameras"
    <3>1. main' = "stopWorker" /\ alive' = alive \ {"cameras"}
      BY <1>12, <2>3 DEF StopParts, StopSender, StopStep
    <3>2. alive \in {{}, FirstParts(4)}
      BY <2>2, <2>3, FirstPartsAre, StartNumbers DEF AliveInOrder, Starting, Building
    <3> QED BY <2>1, <2>2, <3>1, <3>2, FirstPartsAre DEF AliveInOrder, Building, Complete
  <2>4. CASE main = "stopWorker"
    <3>1. main' = "stopHeartbeat" /\ alive' = alive \ {"worker"}
      BY <1>12, <2>4 DEF StopParts, StopSender, StopStep
    <3> QED BY <2>1, <2>2, <2>4, <3>1 DEF AliveInOrder, Building, Complete
  <2>5. CASE main = "stopHeartbeat"
    <3>1. main' = "stopSender" /\ alive' = alive \ {"heartbeat"}
      BY <1>12, <2>5 DEF StopParts, StopSender, StopStep
    <3> QED BY <2>1, <2>2, <2>5, <3>1 DEF AliveInOrder, Building, Complete
  <2>6. CASE main = "stopSender"
    <3>1. main' = "stopTransport" /\ alive' = alive \ {"sender"}
      BY <1>12, <2>6 DEF StopParts, StopSender, StopStep
    <3> QED BY <2>1, <2>2, <2>6, <3>1 DEF AliveInOrder, Building, Complete
  <2> QED BY <1>12, <2>3, <2>4, <2>5, <2>6 DEF StopParts, StopSender, StopStep
<1>13. CASE StopTransport
  BY <1>13 DEF AliveInOrder, Starting, Stopping, Building, Complete, Threads, mainVars,
     StopTransport, mainVars, setVars, pipeVars
<1>14. ASSUME NEW c \in Commands, Send(c) PROVE AliveInOrder'
  BY <1>14 DEF AliveInOrder, Starting, Stopping, Building, Complete, Threads, Send,
     mainVars, setVars, pipeVars
<1>15. CASE AuthReply
  BY <1>15 DEF AliveInOrder, Starting, Stopping, Building, Complete, Threads, AuthReply,
     mainVars, setVars, pipeVars
<1>16. CASE Reply
  BY <1>16 DEF AliveInOrder, Starting, Stopping, Building, Complete, Threads, Reply,
     mainVars, setVars, pipeVars
<1>17. CASE Signal
  BY <1>17 DEF AliveInOrder, Starting, Stopping, Building, Complete, Threads, Signal,
     mainVars, setVars, pipeVars
<1>18. CASE Handle
  BY <1>18 DEF AliveInOrder, Starting, Stopping, Building, Complete, Threads, Handle,
     mainVars, setVars, pipeVars
<1>19. CASE Ack
  BY <1>19 DEF AliveInOrder, Starting, Stopping, Building, Complete, Threads, Ack,
     AckFirst, mainVars, setVars, pipeVars
<1>20. CASE RequestRestart
  BY <1>20 DEF AliveInOrder, Starting, Stopping, Building, Complete, Threads,
     RequestRestart, mainVars, setVars, pipeVars
<1>21. CASE UNCHANGED vars
  BY <1>21 DEF AliveInOrder, Starting, Stopping, Building, Complete, Threads, vars,
     mainVars, setVars, pipeVars
<1> QED BY <1>1, <1>2, <1>3, <1>4, <1>5, <1>6, <1>7, <1>8, <1>9, <1>10, <1>11, <1>12,
        <1>13, <1>14, <1>15, <1>16, <1>17, <1>18, <1>19, <1>20, <1>21 DEF Next,
        Settings

\* So the order holds in every reachable state, unless stop() overlaps the bootstrap.
LEMMA OrderHolds ==
    ASSUME ~Overlap
    PROVE  Spec => []OrderInv
<1>1. Init => OrderInv
  <2> SUFFICES ASSUME Init PROVE AliveInOrder
    BY SettleInit DEF OrderInv
  <2> QED BY FirstPartsAre DEF Init, AliveInOrder, Starting, Stopping, Building
<1>2. OrderInv /\ [Next]_vars => OrderInv'
  BY SettleStep, AliveStep DEF OrderInv
<1> QED BY <1>1, <1>2, PTL DEF Spec

\* The invariant says of every state what the run checks.
LEMMA OrderlyFromInvariant == OrderInv => Orderly
<1> SUFFICES ASSUME OrderInv PROVE Orderly
  OBVIOUS
<1>1. alive \subseteq FirstParts(4) /\ ("cameras" \in alive => alive = FirstParts(4))
  <2>1. main \in Places /\ started \in 0..4
    BY StartNumbers DEF OrderInv, SettleInv, MainTypes, PipeTypes
  <2> QED BY <2>1, FirstPartsAre DEF OrderInv, AliveInOrder, Places
<1>2. CamerasHaveTakers
  BY <1>1, FirstPartsAre DEF CamerasHaveTakers
<1>3. StoppedBeforeRelaunch
  BY DEF StoppedBeforeRelaunch, OrderInv, AliveInOrder, SettleInv, Commanded
<1>4. TypeOK
  <2>1. conf \in [Tuned -> 0..MaxDocs]
    BY BoundsAssumption DEF OrderInv, SettleInv, PipeTypes, HandlerTypes
  <2>2. alive \subseteq {Starts[k] : k \in 1..Len(Starts)} /\ (alive # {} => Complete)
    BY <1>1, StartNumbers DEF FirstParts, OrderInv, AliveInOrder
  <2> QED BY <2>1, <2>2 DEF TypeOK, OrderInv, SettleInv, MainTypes, HandlerTypes,
       QueueTypes,
          PipeTypes, Commanded, LockHeld
<1> QED BY <1>2, <1>3, <1>4 DEF Orderly

\* From the first frame to the last and over a restart the parts start and stop in
\* order: cameras only deliver into a running worker and sender, and nothing runs when
\* the process ends (bootstrapFromJson, stop, main).
THEOREM PartsInOrder ==
    ASSUME ~Overlap
    PROVE  Spec => []Orderly
  BY OrderHolds, OrderlyFromInvariant, PTL

===============================================================================
