--------------------------- MODULE DualCaptureSource ---------------------------
(* DualCaptureSource: a colour stream (main) and a mono stream of one gate.     *)
(* run() keeps the main stream going and a thread of its own the mono stream;   *)
(* either serves alone while the other is down, and when both are, the error is *)
(* signalled and run() ends, so that the camera's worker makes a new source.    *)
(*                                                                              *)
(* Either stream is a source with a run() that sets its own flag first, blocks  *)
(* until the stream fails or the flag is cleared, and a stop() that clears it   *)
(* (the sources CameraWorker models).  One run() of one object.                 *)
EXTENDS Naturals, FiniteSets

Streams == {"main", "mono"}

VARIABLES
    pc,         \* where the thread of each stream is
    on,         \* the flag of each stream's own source
    running,    \* running_
    have,       \* haveMain_, haveMono_
    fresh,      \* whether the last frame is younger than kStaleMs
    pair,       \* what the thread in emitPair() has copied
    signalled,  \* emitError() was called
    stopped,    \* stop() was called
    lost        \* the streams whose last stop() came before their own run()

vars == <<pc, on, running, have, fresh, pair, signalled, stopped, lost>>

Init ==
    /\ pc = [s \in Streams |-> "idle"] /\ on = [s \in Streams |-> FALSE]
    /\ running = FALSE /\ signalled = FALSE /\ stopped = FALSE /\ lost = {}
    /\ have = [s \in Streams |-> FALSE] /\ fresh = [s \in Streams |-> FALSE]
    /\ pair = [s \in Streams |-> {}]

At(s, l) == pc[s] = l
Goto(s, l) == pc' = [pc EXCEPT ![s] = l]

\* stop() of some of the streams' sources.
Silence(some) ==
    /\ on' = [s \in Streams |-> on[s] /\ s \notin some]
    /\ lost' = (lost \ some) \cup {s \in some : pc[s] \in {"idle", "enter"}}

\* run(): raises the flag, whatever it was, and starts the thread of the mono stream.
Start ==
    /\ At("main", "idle")
    /\ running' = TRUE /\ pc' = [s \in Streams |-> "check"]
    /\ UNCHANGED <<on, have, fresh, pair, signalled, stopped, lost>>

\* Where a thread goes when the flag is down.
Leave(s) == Goto(s, IF s = "main" THEN "ending" ELSE "done")

Check(s) ==
    /\ At(s, "check")
    /\ IF running THEN Goto(s, "enter") ELSE Leave(s)
    /\ UNCHANGED <<on, running, have, fresh, pair, signalled, stopped, lost>>

\* The stream's own run() begins ...
Enter(s) ==
    /\ At(s, "enter") /\ Goto(s, "run")
    /\ on' = [on EXCEPT ![s] = TRUE]
    /\ UNCHANGED <<running, have, fresh, pair, signalled, stopped, lost>>

\* ... and returns, told to or because the stream failed.
Returns(s) ==
    /\ At(s, "run") /\ ~on[s] /\ Goto(s, "down")
    /\ UNCHANGED <<on, running, have, fresh, pair, signalled, stopped, lost>>

Fails(s) ==
    /\ At(s, "run") /\ Goto(s, "down")
    /\ on' = [on EXCEPT ![s] = FALSE]
    /\ UNCHANGED <<running, have, fresh, pair, signalled, stopped, lost>>

\* A frame comes and is kept.
Frame(s) ==
    /\ At(s, "run") /\ on[s] /\ Goto(s, "kept")
    /\ have' = [have EXCEPT ![s] = TRUE] /\ fresh' = [fresh EXCEPT ![s] = TRUE]
    /\ UNCHANGED <<on, running, pair, signalled, stopped, lost>>

\* Three seconds without one.
Stale(s) ==
    /\ fresh[s] /\ fresh' = [fresh EXCEPT ![s] = FALSE]
    /\ UNCHANGED <<pc, on, running, have, pair, signalled, stopped, lost>>

Alive(s) == have[s] /\ fresh[s]

\* emitPair(): copies what is alive; the mono stream drives only while the main
\* stream is not alive.
Decide(s) ==
    /\ At(s, "kept")
    /\ LET live == {t \in Streams : Alive(t)}
       IN IF live = {} \/ (s = "mono" /\ Alive("main"))
          THEN Goto(s, "run") /\ UNCHANGED pair
          ELSE Goto(s, "emit") /\ pair' = [pair EXCEPT ![s] = live]
    /\ UNCHANGED <<on, running, have, fresh, signalled, stopped, lost>>

\* One pair at a time goes to the worker.
Emit(s) ==
    /\ At(s, "emit") /\ Goto(s, "run")
    /\ pair' = [pair EXCEPT ![s] = {}]
    /\ UNCHANGED <<on, running, have, fresh, signalled, stopped, lost>>

\* After a stream's run(): leave, wait to try again, or, when the main stream is
\* down and the mono stream not alive, give up on the whole source.
Down(s) ==
    /\ At(s, "down")
    /\ IF ~running THEN Leave(s) /\ UNCHANGED <<have, signalled>>
       ELSE /\ have' = [have EXCEPT ![s] = FALSE]
            /\ IF s = "main" /\ ~Alive("mono")
               THEN signalled' = TRUE /\ Goto(s, "ending")
               ELSE UNCHANGED signalled /\ Goto(s, "sleep")
    /\ UNCHANGED <<on, running, fresh, pair, stopped, lost>>

\* interruptibleSleep() is over.
Wake(s) ==
    /\ At(s, "sleep") /\ Goto(s, "check")
    /\ UNCHANGED <<on, running, have, fresh, pair, signalled, stopped, lost>>

\* Slip: only the flag is lowered at the end of run().
FlagOnly ==
    /\ At("main", "ending") /\ Goto("main", "join")
    /\ running' = FALSE /\ Silence({})
    /\ UNCHANGED <<have, fresh, pair, signalled, stopped>>

\* The end of run(): the mono stream is stopped ...
Ending ==
    /\ At("main", "ending") /\ Goto("main", "join")
    /\ running' = FALSE /\ Silence({"mono"})
    /\ UNCHANGED <<have, fresh, pair, signalled, stopped>>

\* ... and its thread joined.
Join ==
    /\ At("main", "join") /\ At("mono", "done") /\ Goto("main", "done")
    /\ UNCHANGED <<on, running, have, fresh, pair, signalled, stopped, lost>>

\* stop(), from the worker.
Stop ==
    /\ ~stopped /\ stopped' = TRUE
    /\ running' = FALSE /\ Silence(Streams)
    /\ UNCHANGED <<pc, have, fresh, pair, signalled>>

Thread(s) ==
    Check(s) \/ Enter(s) \/ Returns(s) \/ Decide(s) \/ Emit(s) \/ Down(s) \/ Wake(s)

Next ==
    \/ Start \/ Stop \/ Ending \/ Join
    \/ \E s \in Streams : Thread(s) \/ Fails(s) \/ Frame(s) \/ Stale(s)

\* The threads go on; streams need neither deliver nor fail.
Fairness == WF_vars(Ending) /\ WF_vars(Join) /\ \A s \in Streams : WF_vars(Thread(s))

Spec == Init /\ [][Next]_vars
FairSpec == Spec /\ Fairness
-------------------------------------------------------------------------------
\* When the source is stopped, or gives up, run() returns with the thread of the
\* mono stream joined, wherever the two threads are, unless the last stop() of a
\* stream comes before that stream's run() raises its flag (run, runMonoLoop and
\* stop; the error is signalled before run() ends).
RunReturns ==
    <>[](lost = {}) => ((stopped \/ At("main", "ending")) ~> At("main", "done"))
===============================================================================
