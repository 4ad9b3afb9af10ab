--------------------------- MODULE MCResumeStore -----------------------------
(* Model values and symmetry for the requests of module ResumeStore.         *)
EXTENDS ResumeStore, TLC

Symmetry == Permutations(Clients)
==============================================================================
