---------------------------- MODULE MCPullService -----------------------------
(* Instance of PullService for TLC: every way four datasets can depend on    *)
(* each other in which the last depends on the third, the first or the third *)
(* of them synced from a remote or none.                                     *)
EXTENDS PullService
Names == 1..4
Dags == {f \in [Names -> SUBSET Names] :
           3 \in f[4] /\ \A d \in Names : \A e \in f[d] : e < d}
AliasSets == {{}, {1}, {3}}
MCRemotes == {1, 2}
MCNameOf == [r \in MCRemotes |-> IF r = 1 THEN 1 ELSE 5]
MCWorkspaces ==
  {[inputs |-> f, aliases |-> [d \in Names |-> IF d \in a THEN {1} ELSE {}]] :
     f \in Dags, a \in AliasSets}
Local(d) == [local |-> d, remote |-> None]
MCRequests == {<<Local(4)>>, <<Local(4), Local(2)>>, <<[local |-> None, remote |-> 2], Local(3)>>,
               <<[local |-> 5, remote |-> 1]>>}
O(r, a) == [recursive |-> r, all |-> a, add_aliases |-> TRUE, create |-> TRUE]
MCOptions == {O(TRUE, FALSE), O(FALSE, FALSE), O(FALSE, TRUE)}
=============================================================================
