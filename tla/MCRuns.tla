------------------------------- MODULE MCRuns --------------------------------
(* Model values and symmetry for the runs of module Runs.                    *)
EXTENDS Runs, TLC

Symmetry == Permutations(Callers)
==============================================================================
