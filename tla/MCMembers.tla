------------------------------ MODULE MCMembers ------------------------------
(* Small instances of WorkspaceMembers for TLC. *)
EXTENDS WorkspaceMembers, TLC

(* No action tells one request from another, or one address. *)
RequestSymmetry == Permutations(Requests)
EmailSymmetry == Permutations(Emails)
Symmetry == RequestSymmetry \cup EmailSymmetry
==============================================================================
