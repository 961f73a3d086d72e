------------------------------- MODULE MCCache ------------------------------
(* Model-checking instance of Cache: sectors, values and the capacity are  *)
(* given in the .cfg files.                                                *)
EXTENDS Cache

\* Sectors are interchangeable: Init gives each the same content.
SectorSymmetry == Permutations(Sectors)
=============================================================================
