---------------------------- MODULE BlockingQueue ----------------------------
(* include/lpr/util/BlockingQueue.h: the queue between the capture threads     *)
(* and the detection thread (bounded, drop-oldest or back-pressured) and       *)
(* between the detection thread and the plate sender (unbounded).  Every       *)
(* member function is one critical section of mutex_, so each operator below   *)
(* is what one of them does to the deque; a wait on a condition variable is a  *)
(* guard of the action that uses the operator.                                 *)
EXTENDS Naturals, Sequences

\* maxSize_ = 0 is the unbounded queue.
Full(q, maxSize) == maxSize > 0 /\ Len(q) >= maxSize

\* push(): drop the oldest item of a full queue, then append.
Push(q, maxSize, item) ==
    Append(IF Full(q, maxSize) THEN Tail(q) ELSE q, item)

\* The predicate pushBlocking() waits for; a closed queue swallows the item.
RoomOrClosed(q, maxSize, closed) == closed \/ ~Full(q, maxSize)
PushBlocking(q, closed, item) == IF closed THEN q ELSE Append(q, item)

\* The predicate pop() and popFor() wait for; nullopt is the empty result.
ItemOrClosed(q, closed) == q # <<>> \/ closed
Popped(q) == IF q = <<>> THEN q ELSE Tail(q)
=============================================================================
