-------------------------- MODULE WorkspaceSearches ---------------------------
(*****************************************************************************)
(* The recursive searches of the dependency graph: lists of datasets for     *)
(* commands that work on many of them.                                       *)
(*****************************************************************************)
EXTENDS Workspace

\* The order in which petgraph visits neighbours is its own: here ascending or
\* descending.
InOrder(S, ascending) == SetToSortSeq(S, LAMBDA a, b : IF ascending THEN a < b ELSE a > b)

\* A plausible bug: a dataset is listed when the search reaches it.
RECURSIVE VisitPreorder(_, _, _, _)
VisitPreorder(g, ascending, found, d) ==
  IF d \in Range(found) THEN found
  ELSE FoldLeft(LAMBDA acc, e : VisitPreorder(g, ascending, acc, e), Append(found, d),
                InOrder(Downstream(g, d), ascending))

\* A depth-first search downstream lists a dataset when the search leaves it.
RECURSIVE Visit(_, _, _, _)
Visit(g, ascending, found, d) ==
  IF d \in Range(found) THEN found
  ELSE Append(FoldLeft(LAMBDA acc, e : Visit(g, ascending, acc, e), found,
                       InOrder(Downstream(g, d), ascending)), d)

run_recursive_depth_first_search(g, ids, ascending) ==
  FoldLeft(LAMBDA acc, d : Visit(g, ascending, acc, d), <<>>, ids)

\* A breadth-first search upstream.
RECURSIVE Bfs(_, _, _, _)
Bfs(g, ascending, queue, found) ==
  IF queue = <<>> THEN found
  ELSE LET next == InOrder(Upstream(g, Head(queue)) \ Range(found), ascending)
       IN  Bfs(g, ascending, Tail(queue) \o next, found \o next)

\* Of each dataset in turn, reversed; what was found before is not listed again.
run_recursive_reversed_breadth_first_search(g, ids, ascending) ==
  FoldLeft(LAMBDA acc, d :
             acc \o Reverse(SelectSeq(Bfs(g, ascending, <<d>>, <<d>>),
                                      LAMBDA e : e \notin Range(acc))),
           <<>>, ids)

-----------------------------------------------------------------------------
(* Properties.                                                               *)

\* The datasets listed for a recursive deletion are the ones derived from the
\* given one, each once, and each before the datasets it is derived from, so
\* that no deletion of the list is refused.
Reach(g, d, next(_, _)) ==
  LET more[S \in SUBSET g.nodes] ==
        LET T == S \cup UNION {next(g, e) : e \in S}
        IN  IF T = S THEN S ELSE more[T]
  IN  more[{d}]
DownstreamFirst ==
  \A d \in graph.nodes, ascending \in BOOLEAN :
    LET list == run_recursive_depth_first_search(graph, <<d>>, ascending)
    IN  /\ Range(list) = Reach(graph, d, Downstream)
        /\ Len(list) = Cardinality(Range(list))
        /\ \A i, j \in DOMAIN list :
             list[j] \in Downstream(graph, list[i]) => j < i

\* The datasets listed for a recursive verification are the given ones and
\* everything they are derived from, each once.
UpstreamComplete ==
  \A d, e \in graph.nodes, ascending \in BOOLEAN :
    LET list == run_recursive_reversed_breadth_first_search(graph, <<d, e>>, ascending)
    IN  /\ Range(list) = Reach(graph, d, Upstream) \cup Reach(graph, e, Upstream)
        /\ Len(list) = Cardinality(Range(list))

\* What commands that work on many datasets are given by the graph.
SearchesAreExact == DownstreamFirst /\ UpstreamComplete
=============================================================================
