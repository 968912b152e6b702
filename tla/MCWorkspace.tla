----------------------------- MODULE MCWorkspace ------------------------------
(* Instance of Workspace for TLC. *)
EXTENDS WorkspaceSearches
R(o, alias, inputs, to) == [op |-> o, alias |-> alias, inputs |-> inputs, to |-> to]
MCRequests ==
  {R("create", 3, {1, 2}, 0), R("create", 1, {}, 0), R("delete", 1, {}, 0),
   R("delete", 3, {}, 0), R("rename", 2, {}, 3), R("update", 2, {1}, 0)}
Symmetric == Permutations(Workers)
MCInitial == {<<{}, {}>>, <<{}, {1}>>, <<{}, {1}, {1, 2}>>}
=============================================================================
