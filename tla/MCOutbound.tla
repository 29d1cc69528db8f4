----------------------------- MODULE MCOutbound -----------------------------
(* Outbound with symmetric destinations and request ids, where every number    *)
(* can be spelled in two ways.                                                 *)
EXTENDS Outbound, TLC

Spelled  == (Destinations \cup {NotANumber}) \X {"+919876543210", "+91 98765 43210"}
AsNumber == [raw \in Spelled |-> raw[1]]

Symmetry == Permutations(Destinations) \cup Permutations(RequestUuids)
=============================================================================
