------------------------------ MODULE MCContent -------------------------------
(* Small instances of WorkspaceContent for TLC. *)
EXTENDS WorkspaceContent, TLC

(* No action tells one request from another. *)
Symmetry == Permutations(Requests)
===============================================================================
