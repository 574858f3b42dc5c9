----------------------------- MODULE MCWorkspace -----------------------------
(* Workspace for TLC: two departments have sample employees, one has none. *)
EXTENDS Workspace

MCDepartment == [e101 |-> "Engineering", e103 |-> "HumanResources"]
=============================================================================
