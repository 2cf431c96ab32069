----------------------------- MODULE MCAccount ------------------------------
(* Small instances of AccountProvisioning for TLC. *)
EXTENDS AccountProvisioning, FiniteSets, TLC

Symmetry == Permutations(Calls)

(* Bound: of the changes by others and the calls that meet a 404, there is *)
(* one in a behaviour.                                                     *)
OneMishap == drift + Cardinality({t \in Calls : call[t].denied}) <= 1
=============================================================================
