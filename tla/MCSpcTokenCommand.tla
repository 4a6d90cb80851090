-------------------------- MODULE MCSpcTokenCommand --------------------------
(* SpcTokenCommand for TLC: runs are interchangeable.                        *)
EXTENDS SpcTokenCommand, TLC

\* A directory from the YAML file, blanks that shadow it, and nothing at all.
SomeSettings ==
  {[args |-> a, yaml |-> y, env |-> None] :
     a \in {"empty", "blanks"}, y \in {"out"}}
  \cup {[args |-> None, yaml |-> "empty", env |-> e] : e \in {"out", "empty"}}

Symmetry == Permutations(Runs)
=============================================================================
