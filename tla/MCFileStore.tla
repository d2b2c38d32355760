----------------------------- MODULE MCFileStore ------------------------------
(* FileStore for TLC. *)
EXTENDS FileStore, SequencesExt

Symmetry == Permutations(Id)

\* The process finds no file, or one whose only line is what a torn append and
\* the one after it left.
MCSpec == (Init \/ InitWith(<<Bad(FALSE)>>)) /\ [][Next]_vars

\* Distinct directories.
MCDirName == CHOOSE f \in [Scope -> Dir] : \A s, t \in Scope : f[s] = f[t] => s = t
MCNameScope == [d \in Dir |-> CHOOSE s \in Scope : DirName[s] = d]

\* Two scopes that scopeDirName maps to the same name ("team a" and "team:a").
MCOneDir == [s \in Scope |-> 1]
==============================================================================
