--------------------------- MODULE MCPollingIngest ----------------------------
(* Instance of PollingIngest for TLC. *)
EXTENDS PollingIngest
MCSources ==
  ({"http", "file", "glob", "stateless"} \X {"snapshot"})
    \cup {<<"http", "ledger">>, <<"glob", "ledger">>, <<"glob", "append">>}
RecurringSources == {<<"hashed", "snapshot">>}
R(k, v, t) == [key |-> k, val |-> v, time |-> t]
Small == {R(1, 1, 0), R(2, 1, 0)}
Other == {R(1, 2, 7), R(2, 1, 0)}
MCHistories == {<<Small, Other, Small>>, <<{}, Other, {}>>}
=============================================================================
