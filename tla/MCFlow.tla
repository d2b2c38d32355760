-------------------------------- MODULE MCFlow --------------------------------
(* Flow for TLC. *)
EXTENDS Flow, SequencesExt

CONSTANTS a, b, c, d, e

Listen(n, ds) == [name |-> n, deps |-> ds, start |-> FALSE, kind |-> "listen", fn |-> TRUE]
Router(n, ds) == [Listen(n, ds) EXCEPT !.kind = "router"]
Start(n) == [Listen(n, <<>>) EXCEPT !.start = TRUE]

\* A start and two steps with every list of up to two dependencies, among them
\* loops, repeated and unknown dependencies; a duplicate, a start with a
\* dependency, a nil function and an empty name.
SmallNodes ==
  {Start(a), Router(b, <<a>>), Router(c, <<>>), Listen(a, <<>>), Listen(Empty, <<>>),
   [Start(b) EXCEPT !.deps = <<a>>], [Router(c, <<>>) EXCEPT !.fn = FALSE]}
  \cup {Listen(n, ds) : n \in {b, c}, ds \in UNION {[1..k -> {a, b, c}] : k \in 0..2}}

\* A start, two routers, of which one follows the start, their joins and a step
\* behind a join.
JoinNodes ==
  {Start(a), Router(b, <<a>>), Router(c, <<>>), Listen(d, <<b, c>>), Listen(e, <<a, b>>), Listen(e, <<d>>)}

MCNodes == SmallNodes \cup JoinNodes
MCRoutes == {{d}, {e}, {d, e}, {b}}

\* Bound: five steps of the second family, three of the first.
OneFamily ==
  nodes' # nodes => Range(nodes') \subseteq JoinNodes \/ (Range(nodes') \subseteq SmallNodes /\ Len(nodes') <= 3)

\* A diamond behind a router.
DiamondNodes == {Start(a), Router(b, <<a>>), Listen(c, <<b>>), Listen(d, <<c, b>>)}
==============================================================================
