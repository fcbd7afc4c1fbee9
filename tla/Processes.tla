------------------------------ MODULE Processes -------------------------------
(***************************************************************************)
(* The processes of one user's machine, as the files they share know them.   *)
(***************************************************************************)
CONSTANTS Procs, None

ASSUME ProcessesAssumption == None \notin Procs

=============================================================================
