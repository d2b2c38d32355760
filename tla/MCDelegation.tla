----------------------------- MODULE MCDelegation -----------------------------
(* Delegation for TLC. *)
EXTENDS Delegation, TLC

CONSTANTS planner, writer, senior, nameless, t1, t2, c1, c2, short, long, v, w, key, main, other

Named(x) == [name |-> x, pad |-> FALSE]
Roles == (planner :> Named("planner")) @@ (writer :> Named("writer"))
         @@ (senior :> Named("senior writer")) @@ (nameless :> NoRole)
\* A role written with a space after it.
PaddedRoles == [Roles EXCEPT ![writer].pad = TRUE]

\* c2 has no agents.
OneRoster == (c1 :> <<planner, writer, senior, nameless>>) @@ (c2 :> <<>>)
\* The planner works for both crews.
SharedRosters == (c1 :> <<planner, writer>>) @@ (c2 :> <<planner, senior>>)
OneScope == [c \in Crew |-> main]
TwoScopes == (c1 :> main) @@ (c2 :> other)

TaskAgents == (t1 :> nameless) @@ (t2 :> NoAgent)
Iterations == [a \in Agent |-> 1]
\* An error, a role, and a text in which it and one inside it are found.
ManagerReplies ==
  {[ok |-> FALSE, role |-> "", mentions |-> {}],
   [ok |-> TRUE, role |-> "writer", mentions |-> {"writer"}],
   [ok |-> TRUE, role |-> "the senior writer", mentions |-> {"writer", "senior writer"}]}

Sizes == (short :> 1) @@ (long :> 4)
Texts == [x |-> {short}]
\* v is like itself, w the opposite; the embedder returns nothing for a long text.
Cosines == (v :> ((v :> 1) @@ (w :> -1))) @@ (w :> ((v :> -1) @@ (w :> 1)))
Embedder == (short :> v) @@ (long :> NoVector)

AllQueries ==
  [scope: Scope, text: DOMAIN Matches \cup {NoText}, emb: Vector \cup {NoVector},
   limit: {1, MaxMemoryQueryLimit + 1}, maxChars: {-1, 0}]
==============================================================================
