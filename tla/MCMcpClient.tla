----------------------------- MODULE MCMcpClient -----------------------------
(* McpClient for TLC. *)
EXTENDS McpClient

Entries(n) == {[kind |-> k, pages |-> n] : k \in {"stateful", "stateless", "noEndpoint", "badTimeout"}}

\* Every configuration of two servers, one of three, and those of one with a catalog
\* at the cap or beyond it.
MCConfigs ==
  {<<e>> : e \in Entries(MaxPages)} \cup {<<[kind |-> "stateless", pages |-> MaxPages + 1]>>}
  \cup [1..2 -> Entries(MaxPages)] \cup {[i \in 1..3 |-> [kind |-> "stateful", pages |-> MaxPages]]}

\* Goroutines share the client of one server; with more, LoadConfig alone runs.
MCMaxCalls == <<2, 0, 0>>
==============================================================================
