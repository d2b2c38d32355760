---------------------------- MODULE MCPlanWaves ------------------------------
(* Small instances of PlanWaves for TLC. *)
EXTENDS PlanWaves, TLC

CONSTANTS MaxTasks, MaxContext

UpTo(S, m) == UNION {[1..l -> S] : l \in 0..m}

\* Every list, repeated pointers included, and lists that miss some pointers.
MCLists == UpTo(Ptr, MaxTasks)

\* Every list of pointers without repetition that names all of them.
MCPermutations == {l \in [1..Cardinality(Ptr) -> Ptr] :
                     \A a, b \in DOMAIN l : a # b => l[a] # l[b]}

MCContexts == UpTo(Ptr, MaxContext)

Symmetry == Permutations(Ptr)
==============================================================================
