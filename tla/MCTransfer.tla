------------------------------ MODULE MCTransfer ------------------------------
(* Instance of Transfer for TLC. *)
EXTENDS Transfer
S(protocol, force) == [protocol |-> protocol, force |-> force]
MCSessions == {S("simple", TRUE), S("push", FALSE), S("pull", TRUE)}
=============================================================================
