------------------------------- MODULE Options -------------------------------
(***************************************************************************)
(* Rust's Option, as the modules about what is passed around have it: a    *)
(* value, or Absent.                                                       *)
(***************************************************************************)
CONSTANT Absent

OrElse(value, default) == IF value = Absent THEN default ELSE value

\* A key of a table that may lack it.
Get(table, key) == IF key \in DOMAIN table THEN table[key] ELSE Absent

==============================================================================
