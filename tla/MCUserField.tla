---------------------------- MODULE MCUserField -----------------------------
(* Small instances of UserFieldProvisioning for TLC. *)
EXTENDS UserFieldProvisioning, TLC

CONSTANTS role, profile,           \* slots: the fields of one user
          r1, p1, least,           \* a role and two profiles
          full, unmapped           \* licenses

MCFieldOf == [s \in Slots |-> IF s = role THEN "UserRoleId" ELSE "ProfileId"]
MCValues == Roles \cup Profiles \cup {EmptyValue}

(* The least privileged profile mapped to one license belongs to another,   *)
(* which is not mapped: it cannot be revoked.                              *)
MCUserLicenseOf == [p \in Profiles |-> IF p = least THEN unmapped ELSE full]
MCMapping == [l \in Licenses |-> IF l = full THEN least ELSE None]

Symmetry == Permutations(Tasks)
=============================================================================
