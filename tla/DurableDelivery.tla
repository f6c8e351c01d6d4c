-------------------------- MODULE DurableDelivery --------------------------
(***************************************************************************)
(* What the transport promises of plates.  A plate it has taken is either  *)
(* volatile, and may be lost at any moment, or safe, and then stays so     *)
(* until it is delivered.  Nothing volatile ever becomes safe: a plate     *)
(* taken while the link was up does not move to the outbox when it fails.  *)
(***************************************************************************)
EXTENDS Integers

CONSTANT NPlates

VARIABLES volatile, safe, delivered

vars == <<volatile, safe, delivered>>

Plates == 1..NPlates

Fresh(p) == p \notin volatile \cup safe \cup delivered

\* Taking one plate may push others out.
TakeVolatile ==
  \E p \in Plates : \E lost \in SUBSET volatile :
    /\ Fresh(p)
    /\ volatile' = (volatile \ lost) \cup {p}
    /\ UNCHANGED <<safe, delivered>>

TakeSafe ==
  \E p \in Plates :
    /\ Fresh(p)
    /\ safe' = safe \cup {p}
    /\ UNCHANGED <<volatile, delivered>>

Deliver ==
  \E p \in volatile \cup safe :
    /\ delivered' = delivered \cup {p}
    /\ volatile' = volatile \ {p}
    /\ safe' = safe \ {p}

Lose ==
  /\ volatile' \in SUBSET volatile
  /\ UNCHANGED <<safe, delivered>>

Init == volatile = {} /\ safe = {} /\ delivered = {}

Next == TakeVolatile \/ TakeSafe \/ Deliver \/ Lose

Spec == Init /\ [][Next]_vars
============================================================================
