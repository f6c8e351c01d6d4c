------------------------ MODULE NatsTransportProofs ------------------------
(***************************************************************************)
(* Proofs about NatsTransport for any number of plates, any queue limit    *)
(* and any budget of faults: type correctness, the queue's bound, that no  *)
(* file is stranded while online, that a plate in the outbox is never lost,*)
(* and that the transport implements DurableDelivery.                      *)
(***************************************************************************)
EXTENDS NatsTransport, SequenceTheorems, TLAPS

(***************************************************************************)
(* What the queue holds after an append, a pop or a push to the front.     *)
(***************************************************************************)
LEMMA AppendFacts ==
  ASSUME NEW q \in Seq(Envelopes), NEW e \in Envelopes
  PROVE  /\ Append(q, e) \in Seq(Envelopes) /\ Len(Append(q, e)) = Len(q) + 1
         /\ Range(Append(q, e)) = Range(q) \cup {e}
<1>1. <<e>> \in Seq(Envelopes) /\ Len(<<e>>) = 1 /\ <<e>>[1] = e
  OBVIOUS
<1>2. Range(<<e>>) = {e}
  BY <1>1 DEF Range
<1>3. Append(q, e) = q \o <<e>>
  BY AppendIsConcat
<1>4. Range(q \o <<e>>) = Range(q) \cup Range(<<e>>)
  BY <1>1, RangeConcatenation
<1> QED BY <1>2, <1>3, <1>4, AppendProperties

\* A failed publish puts its envelope back in front (senderLoop).
LEMMA PushFacts ==
  ASSUME NEW q \in Seq(Envelopes), NEW e \in Envelopes
  PROVE  /\ <<e>> \o q \in Seq(Envelopes) /\ Len(<<e>> \o q) = Len(q) + 1
         /\ Range(<<e>> \o q) = Range(q) \cup {e}
<1>1. <<e>> \in Seq(Envelopes) /\ Len(<<e>>) = 1 /\ <<e>>[1] = e
  OBVIOUS
<1>2. Range(<<e>>) = {e}
  BY <1>1 DEF Range
<1>3. Range(<<e>> \o q) = Range(<<e>>) \cup Range(q)
  BY <1>1, RangeConcatenation
<1>4. <<e>> \o q \in Seq(Envelopes) /\ Len(<<e>> \o q) = 1 + Len(q) /\ Len(q) \in Nat
  BY <1>1, ConcatProperties
<1> QED BY <1>2, <1>3, <1>4

\* The sender takes the first envelope (senderLoop).
LEMMA PopFacts ==
  ASSUME NEW q \in Seq(Envelopes), q # << >>
  PROVE  /\ Head(q) \in Envelopes /\ Tail(q) \in Seq(Envelopes)
         /\ Range(q) = {Head(q)} \cup Range(Tail(q))
         /\ Len(Tail(q)) = Len(q) - 1 /\ Len(q) \in Nat
<1>1. /\ Head(q) \in Envelopes /\ Tail(q) \in Seq(Envelopes)
      /\ Len(Tail(q)) = Len(q) - 1 /\ Len(q) \in Nat
  BY HeadTailProperties
<1>2. q = <<Head(q)>> \o Tail(q)
  BY <1>1
<1>3. Range(<<Head(q)>> \o Tail(q)) = Range(Tail(q)) \cup {Head(q)}
  BY <1>1, PushFacts
<1> QED BY <1>1, <1>2, <1>3

(***************************************************************************)
(* What an enqueue does to the contents and to the length of the queue.    *)
(***************************************************************************)
LEMMA EnqueueFacts ==
  ASSUME NEW q \in Seq(Envelopes), NEW e \in Envelopes
  PROVE  /\ EnqueueRaw(q, e) \in Seq(Envelopes)
         /\ e \in Range(EnqueueRaw(q, e))
         /\ Range(EnqueueRaw(q, e)) \subseteq Range(q) \cup {e}
         /\ Range(q) \subseteq Range(EnqueueRaw(q, e)) \cup Overflow(q)
         /\ Len(EnqueueRaw(q, e)) = IF Len(q) >= MaxQueue THEN Len(q) ELSE Len(q) + 1
         /\ Overflow(q) \subseteq Range(q)
         /\ Len(q) \in Nat
<1>0. Len(q) \in Nat
  OBVIOUS
<1>1. CASE Len(q) >= MaxQueue
  <2>1. q # << >>
    BY <1>1, NatsAssumption
  <2>2. /\ Tail(q) \in Seq(Envelopes) /\ Len(Tail(q)) = Len(q) - 1
        /\ Range(q) = {Head(q)} \cup Range(Tail(q))
    BY <2>1, PopFacts
  <2>3. EnqueueRaw(q, e) = Append(Tail(q), e) /\ Overflow(q) = {Head(q)}
    BY <1>1 DEF EnqueueRaw, Overflow
  <2>4. /\ Append(Tail(q), e) \in Seq(Envelopes)
        /\ Len(Append(Tail(q), e)) = Len(Tail(q)) + 1
        /\ Range(Append(Tail(q), e)) = Range(Tail(q)) \cup {e}
    BY <2>2, AppendFacts
  <2> QED BY <1>0, <1>1, <2>2, <2>3, <2>4
<1>2. CASE ~(Len(q) >= MaxQueue)
  <2>1. EnqueueRaw(q, e) = Append(q, e) /\ Overflow(q) = {}
    BY <1>2 DEF EnqueueRaw, Overflow
  <2> QED BY <1>0, <1>2, <2>1, AppendFacts
<1> QED BY <1>1, <1>2

(***************************************************************************)
(* An enqueue keeps the queue, the parked files and the sender well typed. *)
(***************************************************************************)
LEMMA EnqueueType ==
  ASSUME NEW e \in Envelopes, TypeOK, Enqueue(e), hand' = hand, phase' = phase
  PROVE  queue' \in Seq(Envelopes) /\ parked' \in SUBSET Files /\ SenderOK'
<1>1. queue' \in Seq(Envelopes)
  BY EnqueueFacts DEF Enqueue, TypeOK
<1>2. FilesIn(Overflow(queue)) \subseteq Files
  BY DEF FilesIn, Durable
<1>3. SenderOK'
  BY DEF Enqueue, Woken, TypeOK, SenderOK
<1> QED BY <1>1, <1>2, <1>3 DEF Enqueue, TypeOK

\* Paying for a failure leaves natural numbers.
LEMMA SpendType ==
  ASSUME budget \in [Kinds -> Nat], NEW what \in Kinds, Spend(what)
  PROVE  budget' \in [Kinds -> Nat]
BY DEF Spend

\* The three kinds of envelopes are disjoint and known by their fields.
LEMMA EnvelopeTypes ==
  /\ Core \in Envelopes
  /\ \A p \in Plates : [kind |-> "J", plate |-> p] \in Envelopes
  /\ \A f \in Files : [kind |-> "durable", file |-> f] \in Envelopes
  /\ \A e \in Durable : e.file \in Files /\ e.file.plate \in Plates /\ PlateOf(e) = {e.file.plate}
  /\ None \notin Envelopes
BY DEF Core, Envelopes, Online, Durable, PlateOf, None, Files

\* A new process starts with well-typed state: ~Impl and a crash keep the types.
LEMMA ResetType ==
  ASSUME TypeOK, Reset, budget' \in [Kinds -> Nat]
  PROVE  TypeOK'
<1>1. clock' \in [ms : Nat, seq : Nat]
  BY DEF Reset, TypeOK, SenderOK
<1>2. loader' \in [Loaders -> BOOLEAN] /\ todo' \in [Loaders -> SUBSET Files]
  BY DEF Reset
<1>3. queue' \in Seq(Envelopes) /\ events' \in Seq({"disconnected", "reconnected"})
  BY DEF Reset
<1>4. /\ hand' = None /\ sender' = "none" /\ caller' = "idle" /\ file' = None
      /\ phase' = "down" /\ running' \in BOOLEAN /\ disconnected' \in BOOLEAN
  BY DEF Reset
<1>5. /\ current' = current /\ accepted' = accepted /\ outbox' = outbox /\ link' = link
      /\ delivered' = delivered /\ parked' = parked
  BY DEF Reset
<1> QED BY <1>1, <1>2, <1>3, <1>4, <1>5 DEF TypeOK, SenderOK

(***************************************************************************)
(* Type correctness is inductive.                                          *)
(***************************************************************************)
LEMMA TypeStep ==
  ASSUME TypeOK, [Next]_vars
  PROVE  TypeOK'
<1> USE NatsAssumption
<1>1. CASE CallDurable
  BY <1>1 DEF CallDurable, TypeOK, SenderOK, memory, calls, world, Plates
<1>2. CASE ReadLink
  BY <1>2 DEF ReadLink, TypeOK, SenderOK, memory, calls, world
<1>3. CASE TestRunning
  BY <1>3 DEF TestRunning, TypeOK, SenderOK, memory, calls, world
<1>4. CASE CheckLink
  BY <1>4 DEF CheckLink, TypeOK, SenderOK, memory, calls, world, IsDurable
<1>5. CASE PublishOk
  BY <1>5 DEF PublishOk, TypeOK, SenderOK, memory, calls, world, PlateOf, Envelopes, Online, Durable, Core, Files, IsDurable
<1>6. CASE AckLost
  <2>1. budget' \in [Kinds -> Nat]
    BY <1>6, SpendType DEF AckLost, TypeOK, Kinds
  <2> QED BY <1>6, <2>1 DEF AckLost, TypeOK, SenderOK, memory, calls, world, PlateOf, Envelopes, Online, Durable, Core, Files
<1>7. CASE PublishFails
  <2>1. budget' \in [Kinds -> Nat]
    BY <1>7, SpendType DEF PublishFails, TypeOK, Kinds
  <2> QED BY <1>7, <2>1 DEF PublishFails, TypeOK, SenderOK, memory, calls, world
<1>8. CASE RemoveFile
  BY <1>8 DEF RemoveFile, TypeOK, SenderOK, memory, calls, world
<1>9. CASE LinkDown
  <2>1. budget' \in [Kinds -> Nat]
    BY <1>9, SpendType DEF LinkDown, TypeOK, Kinds
  <2>2. events' \in Seq({"disconnected", "reconnected"})
    BY <1>9, AppendProperties DEF LinkDown, TypeOK
  <2> QED BY <1>9, <2>1, <2>2 DEF LinkDown, TypeOK, SenderOK, memory, calls, world
<1>10. CASE LinkUp
  BY <1>10 DEF LinkUp, TypeOK, SenderOK, memory, calls, world
<1>11. CASE NatsDisconnectedCb
  BY <1>11 DEF NatsDisconnectedCb, TypeOK, SenderOK, memory, calls, world
<1>12. CASE NatsReconnectedCb
  <2>1. loader' \in [Loaders -> BOOLEAN]
    BY <1>12 DEF NatsReconnectedCb, TypeOK
  <2>2. events' \in Seq({"disconnected", "reconnected"})
    BY <1>12, HeadTailProperties DEF NatsReconnectedCb, TypeOK
  <2> QED BY <1>12, <2>1, <2>2 DEF NatsReconnectedCb, TypeOK, SenderOK, memory, calls, world
<1>13. CASE Construct
  BY <1>13 DEF Construct, TypeOK, SenderOK, memory, calls, world
<1>14. CASE OpenConnection
  BY <1>14 DEF OpenConnection, TypeOK, SenderOK, memory, calls, world
<1>15. CASE StartSender
  <2>1. loader' \in [Loaders -> BOOLEAN]
    BY <1>15 DEF StartSender, TypeOK
  <2> QED BY <1>15, <2>1 DEF StartSender, TypeOK, SenderOK, memory, calls, world
<1>16. CASE StopSender
  <2>1. budget' \in [Kinds -> Nat]
    BY <1>16, SpendType DEF StopSender, TypeOK, Kinds
  <2> QED BY <1>16, <2>1 DEF StopSender, ConnectReturned, Woken, TypeOK, SenderOK, memory, calls, world
<1>17. CASE EnqueueOnline
  <2>1. queue' \in Seq(Envelopes) /\ parked' \in SUBSET Files /\ SenderOK'
    BY <1>17, EnqueueType, EnvelopeTypes DEF EnqueueOnline, TypeOK
  <2> QED BY <1>17, <2>1 DEF EnqueueOnline, Accept, TypeOK, calls, world
<1>18. CASE PersistToDisk
  <2>1. PICK ms \in {clock.ms, clock.ms + 1} :
          LET f == [ms |-> ms, seq |-> clock.seq, plate |-> current] IN
          /\ clock' = [ms |-> ms, seq |-> clock.seq + 1]
          /\ file' = f
          /\ \/ outbox' = outbox \cup {f} /\ UNCHANGED budget
             \/ Spend("disk") /\ UNCHANGED outbox
          /\ IF caller = "persist"
             THEN caller' = "enqueue" /\ UNCHANGED <<accepted, parked>>
             ELSE Accept("spooled") /\ parked' = parked \cup {f}
    BY <1>18 DEF PersistToDisk
  <2>2. [ms |-> ms, seq |-> clock.seq, plate |-> current] \in Files
    BY <1>18 DEF PersistToDisk, TypeOK, SenderOK, Files
  <2>3. budget' \in [Kinds -> Nat]
    BY <2>1, SpendType DEF TypeOK, Kinds
  <2>4. outbox' \in SUBSET Files /\ parked' \in SUBSET Files /\ file' \in Files
    BY <2>1, <2>2 DEF TypeOK
  <2>5. clock' \in [ms : Nat, seq : Nat]
    BY <2>1 DEF TypeOK
  <2> QED BY <1>18, <2>1, <2>3, <2>4, <2>5 DEF PersistToDisk, Accept, TypeOK, SenderOK, memory, world
<1>19. CASE EnqueuePersisted
  <2>1. queue' \in Seq(Envelopes) /\ parked' \in SUBSET Files /\ SenderOK'
    BY <1>19, EnqueueType, EnvelopeTypes DEF EnqueuePersisted, TypeOK
  <2> QED BY <1>19, <2>1 DEF EnqueuePersisted, Accept, TypeOK, calls, world
<1>20. CASE PublishCore
  <2>1. queue' \in Seq(Envelopes) /\ parked' \in SUBSET Files /\ SenderOK'
    BY <1>20, EnqueueType, EnvelopeTypes DEF PublishCore, TypeOK
  <2>2. budget' \in [Kinds -> Nat]
    BY <1>20, SpendType DEF PublishCore, TypeOK, Kinds
  <2> QED BY <1>20, <2>1, <2>2 DEF PublishCore, TypeOK, calls, world
<1>21. ASSUME NEW l \in Loaders, ListOutbox(l)
      PROVE  TypeOK'
  BY <1>21 DEF ListOutbox, TypeOK, SenderOK, calls, world
<1>22. ASSUME NEW l \in Loaders, ReenqueueFile(l)
      PROVE  TypeOK'
  <2>1. PICK f \in todo[l] :
          /\ todo' = [todo EXCEPT ![l] = @ \ {f}]
          /\ IF f \in outbox
             THEN Enqueue([kind |-> "durable", file |-> f])
             ELSE UNCHANGED <<queue, parked>>
    BY <1>22 DEF ReenqueueFile
  <2>2. queue' \in Seq(Envelopes) /\ parked' \in SUBSET Files /\ SenderOK'
    BY <1>22, <2>1, EnqueueType, EnvelopeTypes DEF ReenqueueFile, TypeOK, SenderOK
  <2> QED BY <1>22, <2>1, <2>2 DEF ReenqueueFile, TypeOK, calls, world
<1>29. CASE FallAsleep
  BY <1>29 DEF FallAsleep, TypeOK, SenderOK, memory, calls, world
<1>23. CASE Pop
  BY <1>23, PopFacts DEF Pop, TypeOK, SenderOK, calls, world
<1>24. CASE HoldOffline
  <2>1. queue' \in Seq(Envelopes)
    BY <1>24, AppendFacts DEF HoldOffline, TypeOK, SenderOK
  <2> QED BY <1>24, <2>1 DEF HoldOffline, TypeOK, SenderOK, calls, world
<1>25. CASE RequeueFailed
  <2>1. queue' \in Seq(Envelopes)
    BY <1>25, AppendFacts, PushFacts DEF RequeueFailed, TypeOK, SenderOK
  <2> QED BY <1>25, <2>1 DEF RequeueFailed, TypeOK, SenderOK, calls, world
<1>26. CASE Destroy
  BY <1>26, ResetType DEF Destroy, TypeOK, SenderOK
<1>27. CASE Crash
  <2>1. budget' \in [Kinds -> Nat]
    BY <1>27, SpendType DEF Crash, TypeOK, Kinds
  <2> QED BY <1>27, <2>1, ResetType DEF Crash
<1>28. CASE UNCHANGED vars
  BY <1>28 DEF vars, memory, calls, world, TypeOK, SenderOK
<1> QED
  BY <1>1, <1>2, <1>3, <1>4, <1>5, <1>6, <1>7, <1>8, <1>9, <1>10, <1>11, <1>12, <1>13, <1>14, <1>15, <1>16, <1>17, <1>18, <1>19, <1>20, <1>21, <1>22, <1>23, <1>24, <1>25, <1>26, <1>27, <1>28, <1>29
     DEF Next, Caller, Sender, Loader, Callbacks, Owner

\* Type correctness of the transport (NatsTransport.cpp): every variable keeps its
\* range, and what the sender holds agrees with where it is in senderLoop.
THEOREM TypeCorrect == Spec => []TypeOK
<1>1. Init => TypeOK
  <2> SUFFICES ASSUME Init
               PROVE  TypeOK
    OBVIOUS
  <2>1. queue \in Seq(Envelopes) /\ events \in Seq({"disconnected", "reconnected"})
    BY DEF Init
  <2>2. loader \in [Loaders -> BOOLEAN] /\ todo \in [Loaders -> SUBSET Files]
    BY DEF Init
  <2>3. clock \in [ms : Nat, seq : Nat] /\ budget \in [Kinds -> Nat] /\ current \in 0..NPlates
    BY NatsAssumption DEF Init
  <2>4. SenderOK
    BY DEF Init, SenderOK
  <2> QED BY <2>1, <2>2, <2>3, <2>4 DEF Init, TypeOK
<1>2. TypeOK /\ [Next]_vars => TypeOK'
  BY TypeStep
<1> QED BY <1>1, <1>2, PTL DEF Spec

----------------------------------------------------------------------------
(***************************************************************************)
(* How a step changes the envelopes in memory.                             *)
(***************************************************************************)
LEMMA EnqueueMemory ==
  ASSUME NEW e \in Envelopes, TypeOK, Enqueue(e), hand' = hand
  PROVE  /\ e \in InMemory'
         /\ InMemory \subseteq InMemory' \cup Overflow(queue)
         /\ InMemory' \subseteq InMemory \cup {e}
BY EnqueueFacts DEF Enqueue, InMemory, TypeOK

\* Taking an envelope and putting it back keeps what memory holds.
LEMMA MemoryKept ==
  ASSUME TypeOK, Pop \/ HoldOffline \/ RequeueFailed
  PROVE  InMemory' = InMemory
<1>1. CASE Pop
  <2>1. CASE queue # << >>
    <3>1. Range(queue) = {Head(queue)} \cup Range(Tail(queue)) /\ Head(queue) \in Envelopes
      BY <2>1, PopFacts DEF TypeOK
    <3>2. hand = None /\ hand' = Head(queue) /\ queue' = Tail(queue)
      BY <1>1, <2>1 DEF Pop, TypeOK, SenderOK
    <3> QED BY <3>1, <3>2, EnvelopeTypes DEF InMemory
  <2>2. CASE queue = << >>
    BY <1>1, <2>2 DEF Pop, InMemory
  <2> QED BY <2>1, <2>2
<1>2. CASE HoldOffline
  <2>1. queue' = Append(queue, hand) /\ hand \in Envelopes /\ hand' = None
    BY <1>2 DEF HoldOffline, TypeOK, SenderOK
  <2>2. Range(queue') = Range(queue) \cup {hand}
    BY <2>1, AppendFacts DEF TypeOK
  <2> QED BY <2>1, <2>2, EnvelopeTypes DEF InMemory
<1>3. CASE RequeueFailed
  <2>1. hand \in Envelopes /\ hand' = None
    BY <1>3 DEF RequeueFailed, TypeOK, SenderOK
  <2>2. Range(queue') = Range(queue) \cup {hand}
    BY <1>3, <2>1, AppendFacts, PushFacts DEF RequeueFailed, TypeOK
  <2> QED BY <2>1, <2>2, EnvelopeTypes DEF InMemory
<1> QED BY <1>1, <1>2, <1>3

(***************************************************************************)
(* The steps that touch neither the queue nor the envelope in hand, and    *)
(* the steps that only let go of what is in hand.                          *)
(***************************************************************************)
Quiet ==
  \/ CallDurable \/ ReadLink \/ PersistToDisk \/ TestRunning \/ FallAsleep
  \/ AckLost \/ PublishFails \/ LinkDown \/ LinkUp \/ Callbacks
  \/ Construct \/ OpenConnection \/ StartSender \/ StopSender
  \/ (\E l \in Loaders : ListOutbox(l)) \/ UNCHANGED vars

LetsGo == CheckLink \/ PublishOk \/ RemoveFile

\* Quiet steps leave the queue and the sender's hand alone.
LEMMA QuietKeeps == Quiet => UNCHANGED <<queue, hand>>
BY DEF Quiet, CallDurable, ReadLink, PersistToDisk, TestRunning, FallAsleep, AckLost,
       PublishFails, LinkDown, LinkUp, Callbacks, NatsDisconnectedCb, NatsReconnectedCb,
       Construct, OpenConnection, StartSender, StopSender, ListOutbox, vars, memory

\* The sender lets go of its envelope and changes nothing else in memory.
LEMMA LetsGoKeeps ==
  ASSUME TypeOK, LetsGo
  PROVE  /\ queue' = queue /\ (hand' = hand \/ hand' = None) /\ hand \in Envelopes
         /\ InMemory' \subseteq InMemory
<1>1. queue' = queue /\ (hand' = hand \/ hand' = None) /\ hand \in Envelopes
  BY DEF LetsGo, CheckLink, PublishOk, RemoveFile, TypeOK, SenderOK, Envelopes
<1> QED BY <1>1, EnvelopeTypes DEF InMemory

(***************************************************************************)
(* Every enqueueing step enqueues one envelope and leaves the hand alone;  *)
(* re-enqueueing a file that is gone enqueues nothing.                     *)
(***************************************************************************)
LEMMA EnqueueCases ==
  ASSUME TypeOK,
         EnqueueOnline \/ EnqueuePersisted \/ PublishCore \/ \E l \in Loaders : ReenqueueFile(l)
  PROVE  /\ hand' = hand /\ delivered' = delivered /\ outbox' = outbox
         /\ phase' = phase /\ disconnected' = disconnected
         /\ (\E e \in Envelopes : Enqueue(e)) \/ UNCHANGED <<queue, parked, sender>>
<1>1. CASE EnqueueOnline
  <2>1. [kind |-> "J", plate |-> current] \in Envelopes
    BY <1>1, EnvelopeTypes DEF EnqueueOnline, TypeOK
  <2> QED BY <1>1, <2>1 DEF EnqueueOnline, world
<1>2. CASE EnqueuePersisted
  <2>1. [kind |-> "durable", file |-> file] \in Envelopes
    BY <1>2, EnvelopeTypes DEF EnqueuePersisted, TypeOK
  <2> QED BY <1>2, <2>1 DEF EnqueuePersisted, world
<1>3. CASE PublishCore
  BY <1>3, EnvelopeTypes DEF PublishCore, world
<1>4. ASSUME NEW l \in Loaders, ReenqueueFile(l)
      PROVE  /\ hand' = hand /\ delivered' = delivered /\ outbox' = outbox
             /\ phase' = phase /\ disconnected' = disconnected
             /\ (\E e \in Envelopes : Enqueue(e)) \/ UNCHANGED <<queue, parked, sender>>
  <2>1. PICK f \in todo[l] : IF f \in outbox
                             THEN Enqueue([kind |-> "durable", file |-> f])
                             ELSE UNCHANGED <<queue, parked, sender>>
    BY <1>4 DEF ReenqueueFile
  <2>2. f \in outbox => [kind |-> "durable", file |-> f] \in Envelopes
    BY EnvelopeTypes DEF TypeOK
  <2> QED BY <1>4, <2>1, <2>2 DEF ReenqueueFile, world
<1> QED BY <1>1, <1>2, <1>3, <1>4

\* What a step of the transport is, as far as the envelopes are concerned.
LEMMA NextCases ==
  ASSUME [Next]_vars
  PROVE  \/ Quiet \/ LetsGo \/ Pop \/ HoldOffline \/ RequeueFailed
         \/ EnqueueOnline \/ EnqueuePersisted \/ PublishCore
         \/ (\E l \in Loaders : ReenqueueFile(l)) \/ Destroy \/ Crash
BY DEF Next, Quiet, LetsGo, Caller, Sender, Loader, Owner

----------------------------------------------------------------------------
(***************************************************************************)
(* The queue never grows by more than one over its limit.                  *)
(***************************************************************************)
LEMMA BoundStep ==
  ASSUME TypeOK, QueueBound, [Next]_vars
  PROVE  QueueBound'
<1> USE NatsAssumption
<1>1. CASE Quiet
  BY <1>1, QuietKeeps DEF QueueBound
<1>2. CASE LetsGo
  BY <1>2, LetsGoKeeps, EnvelopeTypes DEF QueueBound, TypeOK
<1>3. CASE Pop
  <2>1. CASE queue # << >>
    BY <1>3, <2>1, PopFacts, EnvelopeTypes DEF Pop, QueueBound, TypeOK, SenderOK
  <2>2. CASE queue = << >>
    BY <1>3, <2>2 DEF Pop, QueueBound
  <2> QED BY <2>1, <2>2
<1>4. CASE HoldOffline \/ RequeueFailed
  <2>1. hand \in Envelopes /\ hand' = None /\ Len(queue') = Len(queue) + 1 /\ Len(queue) \in Nat
    BY <1>4, AppendFacts, PushFacts DEF HoldOffline, RequeueFailed, TypeOK, SenderOK
  <2> QED BY <2>1, EnvelopeTypes DEF QueueBound
<1>5. CASE EnqueueOnline \/ EnqueuePersisted \/ PublishCore \/ \E l \in Loaders : ReenqueueFile(l)
  <2>1. hand' = hand /\ ((\E e \in Envelopes : Enqueue(e)) \/ UNCHANGED <<queue, parked, sender>>)
    BY <1>5, EnqueueCases
  <2>2. CASE UNCHANGED <<queue, parked, sender>>
    BY <2>1, <2>2 DEF QueueBound
  <2>3. ASSUME NEW e \in Envelopes, Enqueue(e)
        PROVE  QueueBound'
    <3>1. /\ Len(queue') = IF Len(queue) >= MaxQueue THEN Len(queue) ELSE Len(queue) + 1
          /\ Len(queue) \in Nat
      BY <2>3, EnqueueFacts DEF Enqueue, TypeOK
    <3>2. hand' = hand /\ MaxQueue \in Nat
      BY <2>1
    <3>3. CASE Len(queue) >= MaxQueue
      BY <3>1, <3>2, <3>3 DEF QueueBound
    <3>4. CASE ~(Len(queue) >= MaxQueue)
      <4>1. Len(queue') = Len(queue) + 1 /\ Len(queue) \in Nat
        BY <3>1, <3>4
      <4>2. Len(queue) + 1 <= MaxQueue
        BY <3>2, <3>4, <4>1
      <4> QED BY <3>2, <4>1, <4>2 DEF QueueBound
    <3> QED BY <3>3, <3>4
  <2> QED BY <2>1, <2>2, <2>3
<1>6. CASE Destroy \/ Crash
  BY <1>6 DEF Destroy, Crash, Reset, QueueBound
<1> QED BY NextCases, <1>1, <1>2, <1>3, <1>4, <1>5, <1>6

\* The queue and the envelope in the sender's hand never exceed maxQueue + 1:
\* enqueueRaw drops the oldest, and a requeue returns what was taken.
THEOREM QueueBounded == Spec => []QueueBound
<1>1. Init => QueueBound
  BY NatsAssumption DEF Init, QueueBound
<1>2. TypeOK /\ QueueBound /\ [Next]_vars => QueueBound'
  BY BoundStep
<1> QED BY <1>1, <1>2, TypeCorrect, PTL DEF Spec

----------------------------------------------------------------------------
(***************************************************************************)
(* No file is stranded while the transport believes it is online.          *)
(***************************************************************************)
LEMMA FilesInMonotone ==
  ASSUME NEW A, NEW B, NEW C, A \subseteq B \cup C
  PROVE  FilesIn(A) \subseteq FilesIn(B) \cup FilesIn(C)
BY DEF FilesIn

\* Steps that leave the envelopes alone strand no file.
LEMMA StrandedQuiet ==
  ASSUME TypeOK, NoStrandedFile, Quiet
  PROVE  NoStrandedFile'
<1>0. InMemory' = InMemory
  BY QuietKeeps DEF InMemory
<1>1. CASE CallDurable \/ ReadLink
  BY <1>0, <1>1 DEF CallDurable, ReadLink, memory, NoStrandedFile, OnItsWay
<1>2. CASE TestRunning \/ FallAsleep \/ AckLost \/ PublishFails
  BY <1>0, <1>2 DEF TestRunning, FallAsleep, AckLost, PublishFails, calls, NoStrandedFile, OnItsWay
<1>3. CASE LinkDown \/ LinkUp \/ NatsDisconnectedCb \/ StopSender
  BY <1>0, <1>3
  DEF LinkDown, LinkUp, NatsDisconnectedCb, StopSender, memory, calls, NoStrandedFile, OnItsWay
<1>4. CASE Construct \/ OpenConnection
  BY <1>0, <1>4 DEF Construct, OpenConnection, memory, calls, NoStrandedFile, OnItsWay
<1>5. CASE NatsReconnectedCb
  <2>1. loader' = [loader EXCEPT !["callback"] = TRUE] /\ "callback" \in Loaders
    BY <1>5 DEF NatsReconnectedCb, Loaders
  <2>2. loader'["callback"]
    BY <2>1 DEF TypeOK
  <2> QED BY <2>1, <2>2 DEF NoStrandedFile, OnItsWay
<1>6. CASE StartSender
  <2>1. loader' = [loader EXCEPT !["connect"] = TRUE] /\ "connect" \in Loaders
    BY <1>6 DEF StartSender, Loaders
  <2>2. loader'["connect"]
    BY <2>1 DEF TypeOK
  <2> QED BY <2>1, <2>2 DEF NoStrandedFile, OnItsWay
<1>7. ASSUME NEW l \in Loaders, ListOutbox(l)
      PROVE  NoStrandedFile'
  <2>1. todo'[l] = outbox /\ outbox' = outbox
    BY <1>7 DEF ListOutbox, TypeOK
  <2> QED BY <2>1 DEF NoStrandedFile, OnItsWay
<1>8. CASE PersistToDisk
  <2>1. PICK f : /\ file' = f
                 /\ outbox' \subseteq outbox \cup {f}
                 /\ \/ caller = "persist" /\ caller' = "enqueue" /\ parked' = parked
                    \/ caller = "spool" /\ parked' = parked \cup {f}
    BY <1>8 DEF PersistToDisk
  <2>2. caller # "enqueue" /\ UNCHANGED <<phase, disconnected, loader, todo>>
    BY <1>8 DEF PersistToDisk, memory
  <2> QED BY <1>0, <2>1, <2>2 DEF NoStrandedFile, OnItsWay
<1>9. CASE UNCHANGED vars
  BY <1>0, <1>9 DEF vars, memory, calls, NoStrandedFile, OnItsWay
<1> QED BY <1>1, <1>2, <1>3, <1>4, <1>5, <1>6, <1>7, <1>8, <1>9 DEF Quiet, Callbacks

\* An enqueue accounts for its own file and for the one it pushes out.
LEMMA StrandedEnqueue ==
  ASSUME TypeOK, NEW e \in Envelopes, Enqueue(e), hand' = hand, NEW f \in FilesIn(InMemory \cup {e})
  PROVE  f \in FilesIn(InMemory') \/ f \in parked'
<1>1. InMemory \cup {e} \subseteq InMemory' \cup Overflow(queue)
  BY EnqueueMemory
<1>2. FilesIn(InMemory \cup {e}) \subseteq FilesIn(InMemory') \cup FilesIn(Overflow(queue))
  BY <1>1, FilesInMonotone
<1> QED BY <1>2 DEF Enqueue

\* No step strands a file.
LEMMA StrandedStep ==
  ASSUME TypeOK, NoStrandedFile, [Next]_vars
  PROVE  NoStrandedFile'
<1>1. CASE Quiet
  BY <1>1, StrandedQuiet
<1>2. CASE CheckLink
  <2>1. CASE disconnected
    BY <1>2, <2>1 DEF CheckLink, NoStrandedFile
  <2>2. CASE ~disconnected
    BY <1>2, <2>2 DEF CheckLink, InMemory, calls, NoStrandedFile, OnItsWay
  <2> QED BY <2>1, <2>2
<1>3. CASE PublishOk
  <2>1. FilesIn(InMemory) \subseteq FilesIn(InMemory')
    BY <1>3 DEF PublishOk, IsDurable, InMemory, FilesIn
  <2> QED BY <1>3, <2>1 DEF PublishOk, calls, NoStrandedFile, OnItsWay
<1>4. CASE RemoveFile
  <2>1. FilesIn(InMemory) \subseteq FilesIn(InMemory') \cup {hand.file}
    BY <1>4 DEF RemoveFile, InMemory, FilesIn
  <2>2. outbox' = outbox \ {hand.file}
    BY <1>4 DEF RemoveFile
  <2> QED BY <1>4, <2>1, <2>2 DEF RemoveFile, calls, NoStrandedFile, OnItsWay
<1>5. CASE Pop \/ HoldOffline \/ RequeueFailed
  <2>1. InMemory' = InMemory
    BY <1>5, MemoryKept
  <2> QED BY <1>5, <2>1 DEF Pop, HoldOffline, RequeueFailed, calls, NoStrandedFile, OnItsWay
<1>6. CASE EnqueueOnline \/ PublishCore
  <2>1. PICK e \in Envelopes : Enqueue(e) /\ hand' = hand
    BY <1>6, EnvelopeTypes DEF EnqueueOnline, PublishCore, TypeOK
  <2>2. FilesIn(InMemory) \subseteq FilesIn(InMemory') \cup parked'
    BY <2>1, StrandedEnqueue DEF FilesIn
  <2>3. parked \subseteq parked'
    BY <2>1 DEF Enqueue
  <2>4. /\ UNCHANGED <<phase, disconnected, loader, todo, file, outbox>>
        /\ caller = "enqueue" => caller' = "enqueue"
    BY <1>6 DEF EnqueueOnline, PublishCore, calls
  <2> QED BY <2>2, <2>3, <2>4 DEF NoStrandedFile, OnItsWay
<1>7. CASE EnqueuePersisted
  <2> DEFINE e == [kind |-> "durable", file |-> file]
  <2>1. e \in Durable /\ e \in Envelopes /\ Enqueue(e) /\ hand' = hand
    BY <1>7, EnvelopeTypes DEF EnqueuePersisted, TypeOK, Durable
  <2>2. FilesIn(InMemory) \cup {file} \subseteq FilesIn(InMemory \cup {e})
    <3>1. e.file = file
      OBVIOUS
    <3> HIDE DEF e
    <3> QED BY <2>1, <3>1 DEF FilesIn
  <2>3. FilesIn(InMemory) \cup {file} \subseteq FilesIn(InMemory') \cup parked'
    BY <2>1, <2>2, StrandedEnqueue
  <2>4. parked \subseteq parked'
    BY <2>1 DEF Enqueue
  <2>5. UNCHANGED <<phase, disconnected, loader, todo, outbox>>
    BY <1>7 DEF EnqueuePersisted
  <2> QED BY <2>3, <2>4, <2>5 DEF NoStrandedFile, OnItsWay
<1>8. ASSUME NEW l \in Loaders, ReenqueueFile(l)
      PROVE  NoStrandedFile'
  <2>1. PICK f \in todo[l] :
          /\ todo' = [todo EXCEPT ![l] = @ \ {f}]
          /\ IF f \in outbox
             THEN Enqueue([kind |-> "durable", file |-> f])
             ELSE UNCHANGED <<queue, parked, sender>>
    BY <1>8 DEF ReenqueueFile
  <2>2. \A k \in Loaders : \A g \in todo[k] : g \in todo'[k] \/ g = f
    BY <2>1 DEF TypeOK
  <2>3. UNCHANGED <<phase, disconnected, loader, hand, caller, file, outbox>>
    BY <1>8 DEF ReenqueueFile, calls
  <2>4. CASE f \in outbox
    <3> DEFINE e == [kind |-> "durable", file |-> f]
    <3>1. f \in Files
      BY <2>1 DEF TypeOK
    <3>2. e \in Durable /\ e \in Envelopes /\ Enqueue(e) /\ e.file = f
      BY <2>1, <2>4, <3>1, EnvelopeTypes DEF Durable
    <3> HIDE DEF e
    <3>3. FilesIn(InMemory) \cup {f} \subseteq FilesIn(InMemory \cup {e})
      BY <3>2 DEF FilesIn
    <3>4. FilesIn(InMemory) \cup {f} \subseteq FilesIn(InMemory') \cup parked'
      BY <2>3, <3>2, <3>3, StrandedEnqueue
    <3>5. parked \subseteq parked'
      BY <3>2 DEF Enqueue
    <3> QED BY <2>2, <2>3, <3>4, <3>5 DEF NoStrandedFile, OnItsWay
  <2>5. CASE f \notin outbox
    <3>1. InMemory' = InMemory /\ parked' = parked
      BY <2>1, <2>3, <2>5 DEF InMemory
    <3> QED BY <2>2, <2>3, <2>5, <3>1 DEF NoStrandedFile, OnItsWay
  <2> QED BY <2>4, <2>5
<1>9. CASE Destroy \/ Crash
  BY <1>9 DEF Destroy, Crash, Reset, NoStrandedFile
<1> QED BY NextCases, <1>1, <1>2, <1>3, <1>4, <1>5, <1>6, <1>7, <1>8, <1>9 DEF LetsGo

\* Every file of the outbox is on its way (an envelope, a listing) or parked until
\* the next reconnection re-sends it (enqueueOutbox, natsReconnectedCb).
THEOREM NothingStranded == Spec => []NoStrandedFile
<1>1. Init => NoStrandedFile
  BY DEF Init, NoStrandedFile
<1>2. TypeOK /\ NoStrandedFile /\ [Next]_vars => NoStrandedFile'
  BY StrandedStep
<1> QED BY <1>1, <1>2, TypeCorrect, PTL DEF Spec

----------------------------------------------------------------------------
(***************************************************************************)
(* A plate is settled once its envelope or its file exists: never before   *)
(* publishDurable has chosen its path, and a file is removed only after    *)
(* the stream has acknowledged its plate.                                  *)
(***************************************************************************)
Known(p) == p \in delivered \/ OnDisk(p) \/ Carried(p)

SettledInv ==
  /\ \A p \in Plates : Known(p) => p < current \/ (p = current /\ caller \in {"idle", "enqueue"})
  /\ caller = "enqueue" => file.plate = current

RemoveInv == sender = "remove" => hand.file.plate \in delivered

\* The sender removes a file only for a plate that is in the stream.
LEMMA RemoveStep ==
  ASSUME TypeOK, RemoveInv, [Next]_vars
  PROVE  RemoveInv'
<1>1. CASE PublishOk
  <2>1. hand \in Durable => hand.file.plate \in PlateOf(hand)
    BY EnvelopeTypes
  <2> QED BY <1>1, <2>1, EnvelopeTypes DEF PublishOk, IsDurable, RemoveInv
<1>2. CASE Quiet
  <2>1. sender' = "remove" => sender = "remove"
    BY <1>2 DEF Quiet, CallDurable, ReadLink, PersistToDisk, TestRunning, FallAsleep, AckLost,
         PublishFails, LinkDown, LinkUp, Callbacks, NatsDisconnectedCb, NatsReconnectedCb,
         Construct, OpenConnection, StartSender, StopSender, Woken, ListOutbox, vars, memory
  <2>2. hand' = hand
    BY <1>2, QuietKeeps
  <2>3. delivered \subseteq delivered'
    BY <1>2 DEF Quiet, CallDurable, ReadLink, PersistToDisk, TestRunning, FallAsleep, AckLost,
         PublishFails, LinkDown, LinkUp, Callbacks, NatsDisconnectedCb, NatsReconnectedCb,
         Construct, OpenConnection, StartSender, StopSender, ListOutbox, vars, world
  <2> QED BY <2>1, <2>2, <2>3 DEF RemoveInv
<1>3. CASE CheckLink \/ RemoveFile \/ Pop \/ HoldOffline \/ RequeueFailed
  BY <1>3 DEF CheckLink, RemoveFile, Pop, HoldOffline, RequeueFailed, RemoveInv
<1>4. CASE EnqueueOnline \/ EnqueuePersisted \/ PublishCore \/ \E l \in Loaders : ReenqueueFile(l)
  <2>1. /\ hand' = hand /\ delivered' = delivered
        /\ (\E e \in Envelopes : Enqueue(e)) \/ UNCHANGED <<queue, parked, sender>>
    BY <1>4, EnqueueCases
  <2> QED BY <2>1 DEF Enqueue, Woken, RemoveInv
<1>5. CASE Destroy \/ Crash
  BY <1>5 DEF Destroy, Crash, Reset, RemoveInv
<1> QED BY NextCases, <1>1, <1>2, <1>3, <1>4, <1>5 DEF LetsGo

(***************************************************************************)
(* Files: only PersistToDisk adds one, only RemoveFile takes one away.     *)
(***************************************************************************)
LEMMA DiskSteps ==
  ASSUME TypeOK, [Next]_vars
  PROVE  /\ PersistToDisk \/ RemoveFile \/ outbox' = outbox
         /\ delivered' = delivered \/ PublishOk \/ AckLost
<1>1. CASE Quiet
  BY <1>1 DEF Quiet, CallDurable, ReadLink, PersistToDisk, TestRunning, FallAsleep, AckLost,
       PublishFails, LinkDown, LinkUp, Callbacks, NatsDisconnectedCb, NatsReconnectedCb,
       Construct, OpenConnection, StartSender, StopSender, ListOutbox, vars, world
<1>2. CASE LetsGo \/ Pop \/ HoldOffline \/ RequeueFailed
  BY <1>2 DEF LetsGo, CheckLink, PublishOk, RemoveFile, Pop, HoldOffline, RequeueFailed, world
<1>3. CASE EnqueueOnline \/ EnqueuePersisted \/ PublishCore \/ \E l \in Loaders : ReenqueueFile(l)
  BY <1>3, EnqueueCases
<1>4. CASE Destroy \/ Crash
  BY <1>4 DEF Destroy, Crash, Reset
<1> QED BY NextCases, <1>1, <1>2, <1>3, <1>4

(***************************************************************************)
(* The steps of publishDurable and everything else it leaves alone.        *)
(***************************************************************************)
LEMMA CallerSteps ==
  ASSUME TypeOK, [Next]_vars
  PROVE  \/ CallDurable \/ ReadLink \/ EnqueueOnline \/ PersistToDisk \/ EnqueuePersisted
         \/ Destroy \/ Crash \/ UNCHANGED calls
BY DEF Next, Caller, Sender, Loader, Callbacks, Owner, PublishCore, ListOutbox, ReenqueueFile,
       TestRunning, Pop, FallAsleep, CheckLink, HoldOffline, PublishOk, AckLost, PublishFails,
       RemoveFile, RequeueFailed, LinkDown, LinkUp, NatsDisconnectedCb, NatsReconnectedCb,
       Construct, OpenConnection, StartSender, StopSender, vars

\* The failures that are left to the disk never become more.
LEMMA DiskBudgetStep ==
  ASSUME TypeOK, [Next]_vars
  PROVE  /\ budget'["disk"] <= budget["disk"]
         /\ budget["disk"] \in Nat /\ budget'["disk"] \in Nat /\ Budget["disk"] \in Nat
<1>1. budget' = budget \/ \E what \in Kinds : Spend(what)
  BY DEF Next, Caller, Sender, Loader, Callbacks, Owner, PublishCore, ListOutbox, ReenqueueFile,
       TestRunning, Pop, FallAsleep, CheckLink, HoldOffline, PublishOk, AckLost, PublishFails,
       RemoveFile, RequeueFailed, LinkDown, LinkUp, NatsDisconnectedCb, NatsReconnectedCb,
       Construct, OpenConnection, StartSender, StopSender, vars, CallDurable, ReadLink,
       EnqueueOnline, PersistToDisk, EnqueuePersisted, Destroy, Crash, Kinds
<1>2. ASSUME NEW what \in Kinds, Spend(what)
      PROVE  budget'["disk"] <= budget["disk"]
  <2>1. CASE what = "disk"
    BY <1>2, <2>1 DEF Spend, TypeOK
  <2>2. CASE what # "disk"
    BY <1>2, <2>2 DEF Spend, TypeOK, Kinds
  <2> QED BY <2>1, <2>2
<1>3. budget["disk"] \in Nat /\ budget'["disk"] \in Nat /\ Budget["disk"] \in Nat
  BY TypeStep, NatsAssumption DEF TypeOK, Kinds
<1> QED BY <1>1, <1>2, <1>3

----------------------------------------------------------------------------
(***************************************************************************)
(* A plate accepted through the outbox is never lost, if no write fails.   *)
(***************************************************************************)
Kept(p) == p \in delivered \/ OnDisk(p)

SafeInv ==
  /\ RemoveInv
  /\ budget["disk"] <= Budget["disk"]
  /\ NoWriteFailed /\ caller = "enqueue" => Kept(current)
  /\ PersistedSafe

\* A plate on disk or in the stream stays so.
LEMMA KeptStep ==
  ASSUME TypeOK, RemoveInv, [Next]_vars, NEW p, Kept(p)
  PROVE  Kept(p)'
<1>1. CASE PersistToDisk
  BY <1>1 DEF PersistToDisk, Kept, OnDisk, world
<1>2. CASE RemoveFile
  BY <1>2 DEF RemoveFile, RemoveInv, Kept, OnDisk, world
<1>3. CASE PublishOk
  BY <1>3 DEF PublishOk, Kept, OnDisk
<1>4. CASE AckLost
  BY <1>4 DEF AckLost, Kept, OnDisk
<1>5. CASE outbox' = outbox /\ delivered' = delivered
  BY <1>5 DEF Kept, OnDisk
<1> QED BY <1>1, <1>2, <1>3, <1>4, <1>5, DiskSteps

\* The strengthened safety of persisted plates is inductive.
LEMMA SafeStep ==
  ASSUME TypeOK, SafeInv, [Next]_vars
  PROVE  SafeInv'
<1>0. RemoveInv' /\ budget'["disk"] <= Budget["disk"]
  BY RemoveStep, DiskBudgetStep DEF SafeInv
<1>a. CASE ~NoWriteFailed'
  BY <1>0, <1>a DEF SafeInv, PersistedSafe
<1>b. SUFFICES ASSUME NoWriteFailed' PROVE SafeInv'
  BY <1>a
<1>1. NoWriteFailed /\ RemoveInv' /\ budget'["disk"] <= Budget["disk"] /\ budget'["disk"] = budget["disk"]
  BY <1>0, <1>b, DiskBudgetStep DEF SafeInv, NoWriteFailed
<1>2. \A p : Kept(p) => Kept(p)'
  BY KeptStep DEF SafeInv
<1>3. CASE PersistToDisk
  <2>1. ~Spend("disk")
    BY <1>1, DiskBudgetStep DEF Spend, TypeOK, Kinds
  <2>2. Kept(current)' /\ current' = current
    BY <1>3, <2>1 DEF PersistToDisk, Kept, OnDisk
  <2>3. \A p \in Plates : accepted'[p] = accepted[p] \/ p = current
    BY <1>3 DEF PersistToDisk, Accept, TypeOK
  <2> QED BY <1>1, <1>2, <2>2, <2>3 DEF SafeInv, PersistedSafe, Kept
<1>4. CASE EnqueueOnline
  <2>1. \A p \in Plates : accepted'[p] = accepted[p] \/ accepted'[p] = "online"
    BY <1>4 DEF EnqueueOnline, Accept, TypeOK
  <2>2. caller' = "idle"
    BY <1>4 DEF EnqueueOnline, Accept
  <2> QED BY <1>1, <1>2, <2>1, <2>2 DEF SafeInv, PersistedSafe, Kept
<1>5. CASE EnqueuePersisted
  <2>1. \A p \in Plates : accepted'[p] = accepted[p] \/ p = current
    BY <1>5 DEF EnqueuePersisted, Accept, TypeOK
  <2>2. caller = "enqueue" /\ caller' = "idle" /\ Kept(current)'
    BY <1>1, <1>2, <1>5 DEF EnqueuePersisted, Accept, SafeInv
  <2> QED BY <1>1, <1>2, <2>1, <2>2 DEF SafeInv, PersistedSafe, Kept
<1>6. CASE CallDurable \/ ReadLink \/ Destroy \/ Crash
  <2>1. caller' # "enqueue" /\ accepted' = accepted
    BY <1>6 DEF CallDurable, ReadLink, Destroy, Crash, Reset
  <2> QED BY <1>1, <1>2, <2>1 DEF SafeInv, PersistedSafe, Kept
<1>7. CASE UNCHANGED calls
  BY <1>1, <1>2, <1>7 DEF SafeInv, PersistedSafe, Kept, calls
<1> QED BY CallerSteps, <1>3, <1>4, <1>5, <1>6, <1>7

\* As long as writing a file has not failed, a plate that publishDurable has
\* persisted is on disk or in the stream, crashes included (persistToDisk, senderLoop).
THEOREM PersistedSafety == Spec => []PersistedSafe
<1>1. Init => SafeInv
  BY NatsAssumption DEF Init, SafeInv, RemoveInv, PersistedSafe, Kinds
<1>2. TypeOK /\ SafeInv /\ [Next]_vars => SafeInv'
  BY SafeStep
<1>3. SafeInv => PersistedSafe
  BY DEF SafeInv
<1> QED BY <1>1, <1>2, <1>3, TypeCorrect, PTL DEF Spec

----------------------------------------------------------------------------
(***************************************************************************)
(* NatsTransport implements DurableDelivery.                               *)
(***************************************************************************)
LEMMA CarriedMonotone ==
  ASSUME NEW A, NEW B, InMemory' \subseteq InMemory \cup {A}, NEW p, Carried(p)', p \notin PlateOf(A)
  PROVE  Carried(p)
BY DEF Carried, PlateOf, Durable, Online, Files

\* Only plates that publishDurable has been called for are known anywhere.
LEMMA SettledStep ==
  ASSUME TypeOK, SettledInv, [Next]_vars
  PROVE  SettledInv'
<1> USE DEF Plates
<1>1. CASE Quiet
  <2>1. InMemory' = InMemory
    BY <1>1, QuietKeeps DEF InMemory
  <2>2. \A p : Carried(p)' <=> Carried(p)
    BY <2>1 DEF Carried, PlateOf
  <2>3. CASE CallDurable
    <3>1. UNCHANGED <<outbox, delivered, file>> /\ current' = current + 1 /\ caller' # "enqueue"
      BY <2>3 DEF CallDurable, world
    <3>2. caller = "idle" /\ current \in Nat
      BY <2>3, NatsAssumption DEF CallDurable, TypeOK
    <3>3. \A p \in Plates : Known(p)' => p < current'
      BY <2>2, <3>1, <3>2 DEF SettledInv, Known, OnDisk
    <3> QED BY <3>1, <3>3 DEF SettledInv
  <2>4. CASE ReadLink
    BY <2>2, <2>4 DEF ReadLink, SettledInv, Known, OnDisk, world
  <2>5. CASE PersistToDisk
    <3>1. /\ \E ms \in {clock.ms, clock.ms + 1} :
                /\ file' = [ms |-> ms, seq |-> clock.seq, plate |-> current]
                /\ outbox' \subseteq outbox \cup {file'}
          /\ caller' \in {"idle", "enqueue"} /\ current' = current /\ delivered' = delivered
      BY <2>5 DEF PersistToDisk, Accept, world
    <3>2. file'.plate = current
      BY <3>1
    <3>3. \A p \in Plates : OnDisk(p)' => OnDisk(p) \/ p = current
      BY <3>1, <3>2 DEF OnDisk
    <3> QED BY <2>2, <3>1, <3>2, <3>3 DEF SettledInv, Known
  <2>6. CASE AckLost
    <3>1. delivered' = delivered \cup PlateOf(hand) /\ hand \in Envelopes
      BY <2>6 DEF AckLost, TypeOK, SenderOK
    <3>2. \A p \in PlateOf(hand) : Carried(p)
      BY <3>1 DEF Carried, InMemory
    <3> QED BY <2>2, <2>6, <3>1, <3>2 DEF AckLost, SettledInv, Known, OnDisk, calls
  <2>7. CASE UNCHANGED calls /\ UNCHANGED <<outbox, delivered>>
    BY <2>2, <2>7 DEF SettledInv, Known, OnDisk, calls
  <2>8. \/ CallDurable \/ ReadLink \/ PersistToDisk \/ AckLost
        \/ UNCHANGED calls /\ UNCHANGED <<outbox, delivered>>
    BY <1>1 DEF Quiet, TestRunning, FallAsleep, PublishFails, LinkDown, LinkUp, Callbacks,
         NatsDisconnectedCb, NatsReconnectedCb, Construct, OpenConnection, StartSender,
         StopSender, ListOutbox, vars, world
  <2> QED BY <2>3, <2>4, <2>5, <2>6, <2>7, <2>8
<1>2. CASE LetsGo
  <2>1. InMemory' \subseteq InMemory /\ hand \in Envelopes
    BY <1>2, LetsGoKeeps
  <2>2. \A p : Carried(p)' => Carried(p)
    BY <2>1 DEF Carried, PlateOf
  <2>3. UNCHANGED calls /\ outbox' \subseteq outbox
    BY <1>2 DEF LetsGo, CheckLink, PublishOk, RemoveFile
  <2>4. delivered' \subseteq delivered \cup PlateOf(hand)
    BY <1>2 DEF LetsGo, CheckLink, PublishOk, RemoveFile, world
  <2>5. \A p \in PlateOf(hand) : Carried(p)
    BY <2>1 DEF Carried, InMemory
  <2> QED BY <2>2, <2>3, <2>4, <2>5 DEF SettledInv, Known, OnDisk, calls
<1>3. CASE Pop \/ HoldOffline \/ RequeueFailed
  <2>1. InMemory' = InMemory
    BY <1>3, MemoryKept
  <2>2. \A p : Carried(p)' <=> Carried(p)
    BY <2>1 DEF Carried, PlateOf
  <2> QED BY <1>3, <2>2
      DEF Pop, HoldOffline, RequeueFailed, SettledInv, Known, OnDisk, calls, world
<1>4. CASE EnqueueOnline
  <2> DEFINE e == [kind |-> "J", plate |-> current]
  <2>1. e \in Envelopes /\ PlateOf(e) = {current} /\ Enqueue(e)
    BY <1>4, EnvelopeTypes DEF EnqueueOnline, TypeOK, PlateOf, Online, Durable
  <2> HIDE DEF e
  <2>2. InMemory' \subseteq InMemory \cup {e}
    BY <1>4, <2>1, EnqueueMemory DEF EnqueueOnline
  <2>3. \A p : Carried(p)' => Carried(p) \/ p = current
    BY <2>1, <2>2, CarriedMonotone
  <2> QED BY <1>4, <2>3 DEF EnqueueOnline, Accept, SettledInv, Known, OnDisk, world
<1>5. CASE EnqueuePersisted
  <2> DEFINE e == [kind |-> "durable", file |-> file]
  <2>1. e \in Envelopes /\ PlateOf(e) = {current} /\ Enqueue(e)
    BY <1>5, EnvelopeTypes DEF EnqueuePersisted, TypeOK, SettledInv, PlateOf, Durable
  <2> HIDE DEF e
  <2>2. InMemory' \subseteq InMemory \cup {e}
    BY <1>5, <2>1, EnqueueMemory DEF EnqueuePersisted
  <2>3. \A p : Carried(p)' => Carried(p) \/ p = current
    BY <2>1, <2>2, CarriedMonotone
  <2> QED BY <1>5, <2>3 DEF EnqueuePersisted, Accept, SettledInv, Known, OnDisk, world
<1>6. CASE PublishCore
  <2>1. InMemory' \subseteq InMemory \cup {Core} /\ PlateOf(Core) = {}
    BY <1>6, EnqueueMemory, EnvelopeTypes DEF PublishCore, PlateOf, Core, Durable, Online
  <2>2. \A p : Carried(p)' => Carried(p)
    BY <2>1, CarriedMonotone
  <2> QED BY <1>6, <2>2 DEF PublishCore, SettledInv, Known, OnDisk, world, calls
<1>7. ASSUME NEW l \in Loaders, ReenqueueFile(l)
      PROVE  SettledInv'
  <2>1. PICK f \in todo[l] : IF f \in outbox
                             THEN Enqueue([kind |-> "durable", file |-> f])
                             ELSE UNCHANGED <<queue, parked, sender>>
    BY <1>7 DEF ReenqueueFile
  <2>2. \A p : Carried(p)' => Carried(p) \/ OnDisk(p)
    <3>1. CASE f \in outbox
      <4> DEFINE e == [kind |-> "durable", file |-> f]
      <4>1. e \in Envelopes /\ PlateOf(e) = {f.plate} /\ Enqueue(e)
        BY <2>1, <3>1, EnvelopeTypes DEF TypeOK, PlateOf, Durable
      <4> HIDE DEF e
      <4>2. InMemory' \subseteq InMemory \cup {e}
        BY <1>7, <4>1, EnqueueMemory DEF ReenqueueFile
      <4>3. \A p : Carried(p)' => Carried(p) \/ p = f.plate
        BY <4>1, <4>2, CarriedMonotone
      <4> QED BY <3>1, <4>3 DEF OnDisk
    <3>2. CASE f \notin outbox
      <4>1. InMemory' = InMemory
        BY <1>7, <2>1, <3>2 DEF ReenqueueFile, InMemory
      <4> QED BY <4>1 DEF Carried, PlateOf
    <3> QED BY <3>1, <3>2
  <2> QED BY <1>7, <2>2 DEF ReenqueueFile, SettledInv, Known, OnDisk, world, calls
<1>8. CASE Destroy \/ Crash
  <2>1. InMemory' = {}
    <3>1. queue' = << >> /\ hand' = None
      BY <1>8 DEF Destroy, Crash, Reset
    <3> QED BY <3>1, EnvelopeTypes DEF InMemory, Range
  <2>2. UNCHANGED <<current, outbox, delivered>> /\ caller' = "idle"
    BY <1>8 DEF Destroy, Crash, Reset
  <2> QED BY <2>1, <2>2 DEF SettledInv, Known, OnDisk, Carried
<1> QED BY NextCases, <1>1, <1>2, <1>3, <1>4, <1>5, <1>6, <1>7, <1>8

\* A step that adds nothing to memory and changes neither disk nor stream.
LEMMA LoseStep ==
  ASSUME InMemory' \subseteq InMemory, outbox' = outbox, delivered' = delivered
  PROVE  Delivery!Lose
<1>1. \A p : Carried(p)' => Carried(p)
  BY DEF Carried, PlateOf
<1> QED BY <1>1 DEF Delivery!Lose, Volatile, Safe, OnDisk, Plates

\* A step that adds one envelope for plate q to memory.
LEMMA TakeStep ==
  ASSUME NEW e, NEW q \in Plates, PlateOf(e) \subseteq {q},
         InMemory' \subseteq InMemory \cup {e}, outbox' = outbox, delivered' = delivered
  PROVE  Delivery!TakeVolatile \/ Delivery!Lose
<1>1. \A p : Carried(p)' => Carried(p) \/ p = q
  BY CarriedMonotone
<1>2. Safe' = Safe /\ Volatile' \subseteq Volatile \cup {q}
  BY <1>1 DEF Safe, Volatile, OnDisk, Plates
<1>3. CASE q \in Volatile' /\ q \notin Volatile
  <2>1. q \notin Safe \cup delivered
    BY <1>2, <1>3 DEF Volatile, Safe, OnDisk
  <2>2. Volatile' = (Volatile \ (Volatile \ Volatile')) \cup {q}
    BY <1>2, <1>3
  <2>3. (Volatile \ Volatile') \in SUBSET Volatile /\ q \in Delivery!Plates
    BY DEF Delivery!Plates, Plates
  <2>4. Delivery!Fresh(q)
    BY <1>3, <2>1 DEF Delivery!Fresh
  <2> QED BY <1>2, <2>2, <2>3, <2>4 DEF Delivery!TakeVolatile
<1>4. CASE ~(q \in Volatile' /\ q \notin Volatile)
  BY <1>2, <1>4 DEF Delivery!Lose
<1> QED BY <1>3, <1>4

\* Putting a plate into the stream is a step of the promise.
LEMMA DeliverStep ==
  ASSUME TypeOK, InMemory' \subseteq InMemory, InMemory \subseteq InMemory' \cup {hand},
         hand \in Envelopes, outbox' = outbox, delivered' = delivered \cup PlateOf(hand)
  PROVE  [Delivery!Next]_<<Volatile, Safe, delivered>>
<1>1. \A p : Carried(p)' => Carried(p)
  BY DEF Carried, PlateOf
<1>2. \A p : Carried(p) => Carried(p)' \/ p \in PlateOf(hand)
  BY DEF Carried, PlateOf, Online, Durable, Files
<1>3. Safe' = Safe \ PlateOf(hand) /\ Volatile' = Volatile \ PlateOf(hand)
  BY <1>1, <1>2 DEF Safe, Volatile, OnDisk, Plates
<1>4. CASE PlateOf(hand) \subseteq delivered
  <2>1. Safe' = Safe /\ Volatile' = Volatile /\ delivered' = delivered
    BY <1>3, <1>4 DEF Safe, Volatile
  <2> QED BY <2>1
<1>5. CASE ~(PlateOf(hand) \subseteq delivered)
  <2>1. PICK p : PlateOf(hand) = {p}
    BY <1>5 DEF PlateOf
  <2>2. Carried(p) /\ p \in Plates /\ p \notin delivered
    BY <1>5, <2>1, EnvelopeTypes DEF Carried, InMemory, PlateOf, Online, Durable, Files
  <2>3. p \in Volatile \cup Safe
    BY <2>2 DEF Volatile, Safe
  <2> QED BY <1>3, <2>1, <2>3 DEF Delivery!Next, Delivery!Deliver
<1> QED BY <1>4, <1>5

\* Every step of the transport is a step of the promise or none.
LEMMA RefinementStep ==
  ASSUME TypeOK, SettledInv, RemoveInv, [Next]_vars
  PROVE  [Delivery!Next]_<<Volatile, Safe, delivered>>
<1> USE DEF Delivery!Next
<1>1. CASE Quiet
  <2>1. InMemory' = InMemory
    BY <1>1, QuietKeeps DEF InMemory
  <2>2. CASE PersistToDisk
    <3>1. PICK f \in Files : /\ f.plate = current
                             /\ outbox' = outbox \cup {f} \/ outbox' = outbox
      <4>1. \A ms \in {clock.ms, clock.ms + 1} :
              [ms |-> ms, seq |-> clock.seq, plate |-> current] \in Files
        BY <2>2 DEF PersistToDisk, TypeOK, Files
      <4>2. \E ms \in {clock.ms, clock.ms + 1} :
              \/ outbox' = outbox \cup {[ms |-> ms, seq |-> clock.seq, plate |-> current]}
              \/ outbox' = outbox
        BY <2>2 DEF PersistToDisk
      <4> QED BY <4>1, <4>2
    <3>2. delivered' = delivered /\ caller \in {"persist", "spool"} /\ current \in Plates
      BY <2>2 DEF PersistToDisk, world, TypeOK
    <3>3. CASE outbox' = outbox
      BY <2>1, <3>2, <3>3, LoseStep
    <3>4. CASE outbox' = outbox \cup {f}
      <4>1. ~Known(current)
        BY <3>2 DEF SettledInv, Plates
      <4>2. \A p : OnDisk(p)' <=> OnDisk(p) \/ p = current
        <5>1. \A p : OnDisk(p)' => OnDisk(p) \/ p = current
          BY <3>1, <3>4 DEF OnDisk
        <5>2. \A p : OnDisk(p) => OnDisk(p)'
          BY <3>4 DEF OnDisk
        <5>3. f \in outbox' /\ f.plate = current
          BY <3>1, <3>4
        <5>4. \A p : p = current => OnDisk(p)'
          BY <5>3 DEF OnDisk
        <5> QED BY <5>1, <5>2, <5>4
      <4>3. \A p : Carried(p)' <=> Carried(p)
        BY <2>1 DEF Carried, PlateOf
      <4>4. Safe' = Safe \cup {current} /\ Volatile' = Volatile
        BY <3>2, <4>1, <4>2, <4>3 DEF Safe, Volatile, Known, Plates
      <4>5. current \notin Volatile \cup Safe \cup delivered
        BY <4>1 DEF Safe, Volatile, Known
      <4> QED BY <3>2, <4>4, <4>5 DEF Delivery!TakeSafe, Delivery!Fresh, Delivery!Plates, Plates
    <3> QED BY <3>1, <3>3, <3>4
  <2>3. CASE AckLost
    <3>1. /\ outbox' = outbox /\ delivered' = delivered \cup PlateOf(hand)
          /\ hand \in Envelopes
      BY <2>3 DEF AckLost, TypeOK, SenderOK
    <3> QED BY <2>1, <3>1, DeliverStep
  <2>4. CASE ~PersistToDisk /\ ~AckLost
    <3>1. outbox' = outbox /\ delivered' = delivered
      BY <1>1, <2>4
      DEF Quiet, CallDurable, ReadLink, TestRunning, FallAsleep, PublishFails, LinkDown, LinkUp,
          Callbacks, NatsDisconnectedCb, NatsReconnectedCb, Construct, OpenConnection,
          StartSender, StopSender, ListOutbox, vars, world
    <3> QED BY <2>1, <3>1, LoseStep
  <2> QED BY <2>2, <2>3, <2>4
<1>2. CASE CheckLink
  <2>1. outbox' = outbox /\ delivered' = delivered /\ InMemory' \subseteq InMemory
    BY <1>2, LetsGoKeeps DEF LetsGo, CheckLink, world
  <2> QED BY <2>1, LoseStep
<1>3. CASE PublishOk
  <2>1. /\ outbox' = outbox /\ delivered' = delivered \cup PlateOf(hand) /\ hand \in Envelopes
        /\ InMemory' \subseteq InMemory /\ queue' = queue
    BY <1>3, LetsGoKeeps DEF LetsGo, PublishOk
  <2>2. InMemory \subseteq InMemory' \cup {hand}
    BY <2>1 DEF InMemory
  <2> QED BY <2>1, <2>2, DeliverStep
<1>4. CASE RemoveFile
  <2>1. /\ outbox' = outbox \ {hand.file} /\ delivered' = delivered
        /\ InMemory' \subseteq InMemory /\ hand.file.plate \in delivered
    BY <1>4, LetsGoKeeps DEF LetsGo, RemoveFile, RemoveInv, world
  <2>2. \A p : Carried(p)' => Carried(p)
    BY <2>1 DEF Carried, PlateOf
  <2>3. \A p : p \notin delivered => (OnDisk(p)' <=> OnDisk(p))
    BY <2>1 DEF OnDisk
  <2>4. Safe' = Safe /\ Volatile' \subseteq Volatile
    BY <2>1, <2>2, <2>3 DEF Safe, Volatile, Plates
  <2> QED BY <2>1, <2>4 DEF Delivery!Lose
<1>5. CASE Pop \/ HoldOffline \/ RequeueFailed
  <2>1. InMemory' = InMemory
    BY <1>5, MemoryKept
  <2>2. outbox' = outbox /\ delivered' = delivered
    BY <1>5 DEF Pop, HoldOffline, RequeueFailed, world
  <2> QED BY <2>1, <2>2, LoseStep
<1>6. CASE EnqueueOnline \/ EnqueuePersisted \/ PublishCore \/ \E l \in Loaders : ReenqueueFile(l)
  <2>1. /\ hand' = hand /\ delivered' = delivered /\ outbox' = outbox
        /\ (\E e \in Envelopes : Enqueue(e)) \/ UNCHANGED <<queue, parked, sender>>
    BY <1>6, EnqueueCases
  <2>2. CASE UNCHANGED <<queue, parked, sender>>
    <3>1. InMemory' = InMemory
      BY <2>1, <2>2 DEF InMemory
    <3> QED BY <2>1, <3>1, LoseStep
  <2>3. ASSUME NEW e \in Envelopes, Enqueue(e)
        PROVE  [Delivery!Next]_<<Volatile, Safe, delivered>>
    <3>1. InMemory' \subseteq InMemory \cup {e}
      BY <2>1, <2>3, EnqueueMemory
    <3>2. CASE PlateOf(e) = {}
      <4>1. \A p : Carried(p)' => Carried(p)
        BY <3>1, <3>2, CarriedMonotone
      <4>2. Volatile' \subseteq Volatile /\ Safe' = Safe
        BY <2>1, <4>1 DEF Volatile, Safe, OnDisk, Plates
      <4> QED BY <2>1, <4>2 DEF Delivery!Lose
    <3>3. CASE PlateOf(e) # {}
      <4>1. PICK q \in Plates : PlateOf(e) = {q}
        BY <3>3 DEF PlateOf, Online, Durable, Files
      <4> QED BY <2>1, <3>1, <4>1, TakeStep
    <3> QED BY <3>2, <3>3
  <2> QED BY <2>1, <2>2, <2>3
<1>7. CASE Destroy \/ Crash
  <2>1. queue' = << >> /\ hand' = None /\ outbox' = outbox /\ delivered' = delivered
    BY <1>7 DEF Destroy, Crash, Reset
  <2>2. InMemory' = {}
    BY <2>1, EnvelopeTypes DEF InMemory, Range
  <2> QED BY <2>1, <2>2, LoseStep
<1> QED BY NextCases, <1>1, <1>2, <1>3, <1>4, <1>5, <1>6, <1>7 DEF LetsGo

\* The transport implements DurableDelivery: a safe plate stays safe until it is
\* delivered, only volatile plates are lost (publishDurable, senderLoop).
THEOREM TransportImplementsDelivery == Spec => Implements
<1>1. Init => Delivery!Init
  <2>1. Init => InMemory = {}
    BY EnvelopeTypes DEF Init, InMemory, Range
  <2> QED BY <2>1 DEF Init, Delivery!Init, Safe, Volatile, OnDisk, Carried
<1>2. Init => SettledInv /\ RemoveInv
  <2>1. Init => InMemory = {}
    BY EnvelopeTypes DEF Init, InMemory, Range
  <2> QED BY <2>1 DEF Init, SettledInv, RemoveInv, Known, OnDisk, Carried
<1>3. TypeOK /\ SettledInv /\ RemoveInv /\ [Next]_vars => SettledInv' /\ RemoveInv'
  BY SettledStep, RemoveStep
<1>4. TypeOK /\ SettledInv /\ RemoveInv /\ [Next]_vars => [Delivery!Next]_(Delivery!vars)
  BY RefinementStep DEF Delivery!vars
<1> QED BY <1>1, <1>2, <1>3, <1>4, TypeCorrect, PTL DEF Spec, Implements, Delivery!Spec
============================================================================
