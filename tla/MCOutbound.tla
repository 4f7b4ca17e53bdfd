----------------------------- MODULE MCOutbound -----------------------------
(***************************************************************************)
(* Small instances of Outbound: all orders are sent from one address, so   *)
(* that they compete for its nonces.                                       *)
(***************************************************************************)
EXTENDS Outbound

MCFrom == [o \in Orders |-> CHOOSE a \in Address : TRUE]

=============================================================================
