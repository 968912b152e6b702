--------------------------- MODULE DependencyGraph ----------------------------
(*****************************************************************************)
(* The state of DependencyGraphServiceInMemory: the datasets it knows, the   *)
(* edges from a dataset to the datasets derived from it, and whether the     *)
(* workspace has been scanned. Datasets are numbers.                         *)
(*****************************************************************************)
EXTENDS Integers, FiniteSetsExt, SequencesExt

EmptyGraph == [nodes |-> {}, edges |-> {}, scanned |-> FALSE]

Downstream(g, d) == {e[2] : e \in {f \in g.edges : f[1] = d}}
Upstream(g, d) == {e[1] : e \in {f \in g.edges : f[2] = d}}

get_or_create_dataset_node(g, d) == [g EXCEPT !.nodes = @ \cup {d}]

add_dependencies(g, ups, d) ==
  [g EXCEPT !.nodes = @ \cup ups \cup {d}, !.edges = @ \cup (ups \X {d})]

\* ensure_datasets_initially_scanned, with the inputs of every dataset found.
ensure_datasets_initially_scanned(g, inputs) ==
  IF g.scanned THEN g
  ELSE [nodes   |-> g.nodes \cup DOMAIN inputs \cup UNION {inputs[d] : d \in DOMAIN inputs},
        edges   |-> g.edges \cup UNION {inputs[d] \X {d} : d \in DOMAIN inputs},
        scanned |-> TRUE]

\* consume_message: Created; Deleted and DependenciesUpdated, which fail when
\* the dataset is not known.
Created(g, d) == get_or_create_dataset_node(g, d)

Deleted(g, d) ==
  [g EXCEPT !.nodes = @ \ {d}, !.edges = {e \in @ : d \notin {e[1], e[2]}}]

\* A plausible bug: an edge added in the wrong direction.
EdgesReversed(g, d, ups) == [g EXCEPT !.edges = @ \cup {<<d, u>> : u \in ups}]

DependenciesUpdated(g, d, ups) ==
  add_dependencies([g EXCEPT !.edges = {e \in @ : e[2] = d => e[1] \in ups}], ups \ Upstream(g, d), d)
=============================================================================
