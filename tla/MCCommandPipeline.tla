-------------------------- MODULE MCCommandPipeline --------------------------
(* Model-checking instance of CommandPipeline.                              *)
EXTENDS CommandPipeline, TLC

(* Commands, users, handlers and sessions are interchangeable names.        *)
Symmetry == Permutations(Commands) \cup Permutations(Users)
            \cup Permutations(Requests) \cup Permutations(Sessions)
=============================================================================
