-------------------------- MODULE MCNatsTransport --------------------------
(***************************************************************************)
(* Instances of NatsTransport for TLC: what the environment may do.        *)
(***************************************************************************)
EXTENDS NatsTransport

Faults     == [link |-> 1, fail |-> 1, disk |-> 1, crash |-> 1, core |-> 1]
LiveFaults == [link |-> 1, fail |-> 1, disk |-> 0, crash |-> 1, core |-> 0]
OnlyCore   == [link |-> 0, fail |-> 0, disk |-> 0, crash |-> 0, core |-> 2]
OnlyStop   == [link |-> 0, fail |-> 0, disk |-> 0, crash |-> 1, core |-> 0]
============================================================================
