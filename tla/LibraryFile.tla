---------------------------- MODULE LibraryFile ------------------------------
(***************************************************************************)
(* The library file, opened and migrated by several processes               *)
(* (sqlake-library/src/schema.rs, Sqlite::open, and library() of main.rs).   *)
(***************************************************************************)
EXTENDS Naturals, Processes

CONSTANT Latest  \* how many migrations this build has

ASSUME LibraryFileAssumption == Latest \in Nat

VARIABLES
  version,  \* user_version, in the header of the file
  schema,   \* the migrations whose statements have been committed
  writer,   \* the process with a transaction open
  library   \* per process: what it has, and the migration it is at
libraryVars == <<version, schema, writer, library>>

Has(p, state, at) == library' = [library EXCEPT ![p] = [state |-> state, at |-> at]]

\* Sqlite::open.  What cannot be opened is replaced by a library in memory; the
\* version is read outside any transaction.
OpenLibrary(p) ==
    /\ library[p].state = "shut"
    /\ Has(p, "memory", 0) \/ Has(p, "migrating", version + 1)
    /\ UNCHANGED <<version, schema, writer>>

\* Slip: the statements are committed before the number that says they ran.
LooseMigrate(p) ==
    /\ library[p].state = "migrating"
    /\ library[p].at <= Latest
    /\ writer = None
    /\ IF library[p].at \in schema
       THEN Has(p, "memory", library[p].at) /\ UNCHANGED <<writer, schema>>
       ELSE /\ writer' = p
            /\ schema' = schema \cup {library[p].at}
            /\ UNCHANGED library
    /\ UNCHANGED version

\* One transaction a migration.  A writer waits for another to end; the
\* statements of a migration that is there already fail.
Migrate(p) ==
    /\ library[p].state = "migrating"
    /\ library[p].at <= Latest
    /\ writer = None
    /\ IF library[p].at \in schema
       THEN Has(p, "memory", library[p].at) /\ UNCHANGED writer
       ELSE writer' = p /\ UNCHANGED library
    /\ UNCHANGED <<version, schema>>

Commit(p) ==
    /\ writer = p
    /\ schema' = schema \cup {library[p].at}
    /\ version' = library[p].at
    /\ writer' = None
    /\ Has(p, "migrating", library[p].at + 1)

Migrated(p) ==
    /\ library[p].state = "migrating"
    /\ library[p].at > Latest
    /\ Has(p, "file", library[p].at)
    /\ UNCHANGED <<version, schema, writer>>

\* A process that ends in a transaction takes it back.
Abandon(p) ==
    /\ writer' = IF writer = p THEN None ELSE writer
    /\ Has(p, "shut", 0)
    /\ UNCHANGED <<version, schema>>

LibraryStep(p) == Migrate(p) \/ Commit(p) \/ Migrated(p)

\* A file may have been made by a later build.
LibraryInit ==
    /\ version \in 0 .. Latest + 1
    /\ schema = 1 .. version
    /\ writer = None
    /\ library = [p \in Procs |-> [state |-> "shut", at |-> 0]]

LibraryNext == \E p \in Procs : OpenLibrary(p) \/ LibraryStep(p) \/ Abandon(p)

LibrarySpec == LibraryInit /\ [][LibraryNext]_libraryVars

-----------------------------------------------------------------------------
\* The file is what its version says it is, whoever migrates it and whoever dies
\* while migrating it (schema.rs migrate: "a file whose schema and version
\* disagree" is what every later run would act on).
LibraryIsWhole == schema = 1 .. version

\* Whoever comes second waits for the first, rather than going without the library
\* (lib.rs Sqlite::open: "the one that arrives second waits rather than failing").
SecondWaits ==
    \A p \in Procs : library[p].state = "memory" => library[p].at = 0

=============================================================================
