-------------------------------- MODULE MCVM --------------------------------
(* Model-checking instance of VM: the process and frame sets are model     *)
(* values given in the .cfg files; this module only adds the symmetry.     *)
EXTENDS VM

\* Processes are interchangeable: Init treats them alike and no action
\* refers to a particular one.
ProcSymmetry == Permutations(Procs)
=============================================================================
