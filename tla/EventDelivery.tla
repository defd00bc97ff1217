---------------------------- MODULE EventDelivery ----------------------------
(***************************************************************************)
(* What the cascade queue promises its producers, whatever the workers do: *)
(* every posted change is delivered at least once before it is retired,    *)
(* and none is lost.                                                       *)
(***************************************************************************)
EXTENDS Naturals

CONSTANT Event

VARIABLES posted, delivered, retired

deliveryVars == <<posted, delivered, retired>>

Init == posted = {} /\ delivered = {} /\ retired = {}

Post(e) ==
    /\ e \notin posted
    /\ posted' = posted \cup {e}
    /\ UNCHANGED <<delivered, retired>>

\* A delivery may be repeated: a later one leaves the state as it is.
Deliver(e) ==
    /\ e \in posted
    /\ delivered' = delivered \cup {e}
    /\ UNCHANGED <<posted, retired>>

Retire(e) ==
    /\ e \in delivered
    /\ retired' = retired \cup {e}
    /\ UNCHANGED <<posted, delivered>>

Next == \E e \in Event : Post(e) \/ Deliver(e) \/ Retire(e)

Spec == Init /\ [][Next]_deliveryVars
=============================================================================
