----------------------------- MODULE MCTerritory ----------------------------
(* Small instances of TerritoryProvisioning for TLC. *)
EXTENDS TerritoryProvisioning, TLC

MCValues == Roles \cup {EmptyValue}

Symmetry == Permutations(Tasks) \cup Permutations(Roles) \cup Permutations(Slots)
=============================================================================
