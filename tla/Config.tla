------------------------------- MODULE Config --------------------------------
(***************************************************************************)
(* What somebody wrote in the two files (sqlake-config), from reading them *)
(* to what it does: which connection is opened, with what password, over   *)
(* what encryption, and which statements run without being asked about     *)
(* (sqlake/src/main.rs, agent.rs; sqlake-driver-postgres config.rs,        *)
(* tls.rs).                                                                *)
(*                                                                         *)
(* A file is absent, unreadable, or says something.  A table of one is a   *)
(* function from the keys that are written to what they are given; a text  *)
(* of which only a part matters is a sequence of characters.               *)
(***************************************************************************)
EXTENDS Integers, SequencesExt, Options

CONSTANTS
  SettingsFiles,     \* what config.toml can be
  ConnectionsFiles,  \* what connections.toml can be
  Arguments,         \* what --connect can name, as a sequence
  Contents,          \* what a source of passwords can hold
  Servers,           \* what answers, as [offers, chain, name]
  Estimates,         \* what a statement can be estimated at, in bytes
  MaxBytes,          \* u64::MAX
  MaxPageSize,       \* Settings::MAX_PAGE_SIZE
  MaxSteps           \* bound: what happens to one program

VARIABLES
  files,    \* the two files, and the arguments
  world,    \* what the keyring, the environment and the command hold now
  config,   \* what was loaded, or that it was refused
  open,     \* the connection that is open, or Absent
  did,      \* the last thing that was done, with what was true then
  steps

configVars == <<files, world, config, open, did, steps>>

------------------------------------------------------------------------------
(* ByteSize: a number with one decimal place, and a unit.                  *)

Units == [u \in {"", "b", "kb", "kib"} |-> CASE u = "kb" -> 1000 [] u = "kib" -> 1024 [] OTHER -> 1]

SizeParses(size) == size.tenths >= 0 /\ size.unit \in DOMAIN Units

\* `as u64` of what is left of the point.
Bytes(size) ==
    LET bytes == (size.tenths * Units[size.unit]) \div 10
    IN IF bytes > MaxBytes THEN MaxBytes ELSE bytes

BytesOf(size) == IF size = Absent THEN Absent ELSE Bytes(size)

------------------------------------------------------------------------------
(* connections.toml                                                        *)

IsBlank(text) == text \in {"", " "}

IdParses(id) ==
    /\ id # <<>>
    /\ ToSet(id) \subseteq {"a", "b", "1", "-", "_", "."}
    /\ ToSet(id) # {"."}

CommonKeys == {"id", "name", "driver", "readonly", "color", "tunnel"}
KeysOf == [postgres |-> {"host", "port", "database", "user", "sslmode", "password"},
           bigquery |-> {"project", "location", "auth", "max_bytes_billed"}]
Other == [postgres |-> "bigquery", bigquery |-> "postgres"]
Needed == [postgres |-> {"host", "database", "user"}, bigquery |-> {"project"}]
Colors == {"red", "yellow", "green", "blue", "magenta", "cyan"}
\* allow is libpq's, and not here.
SslModes == {"disable", "prefer", "require", "verify-ca", "verify-full"}

\* deny_unknown_fields, and what has a shape of its own.
EntryParses(entry) ==
    /\ DOMAIN entry \subseteq CommonKeys \cup KeysOf["postgres"] \cup KeysOf["bigquery"]
    /\ {"id", "driver"} \subseteq DOMAIN entry
    /\ "port" \in DOMAIN entry => entry.port \in 0 .. 65535
    /\ "max_bytes_billed" \in DOMAIN entry => SizeParses(entry.max_bytes_billed)

\* RawSecret::validate.
SecretIsValid(secret) ==
    CASE secret.of = "keyring" -> secret.with = "true"
      [] OTHER -> ~IsBlank(secret.with)

\* Adc(false) says nothing, and a key file is named by a full path.
AuthIsValid(auth) ==
    CASE auth.of = "adc" -> auth.with = "true"
      [] OTHER -> auth.with = "/absolute"

\* Slip: a key of the other driver's is ignored.
HasNoForeignKeysIgnored(entry, driver) == TRUE

\* reject_foreign_keys.
HasNoForeignKeys(entry, driver) == DOMAIN entry \cap KeysOf[Other[driver]] = {}

SaysWhatIsNeeded(entry, driver) ==
    \A key \in Needed[driver] : key \in DOMAIN entry /\ ~IsBlank(entry[key])

PostgresIsValid(entry) ==
    /\ HasNoForeignKeys(entry, "postgres")
    /\ SaysWhatIsNeeded(entry, "postgres")
    /\ Get(entry, "port") # 0
    /\ "sslmode" \in DOMAIN entry => entry.sslmode \in SslModes
    /\ "password" \in DOMAIN entry => SecretIsValid(entry.password)

BigQueryIsValid(entry) ==
    /\ HasNoForeignKeys(entry, "bigquery")
    /\ SaysWhatIsNeeded(entry, "bigquery")
    /\ "auth" \in DOMAIN entry => AuthIsValid(entry.auth)
    /\ "max_bytes_billed" \in DOMAIN entry => Bytes(entry.max_bytes_billed) # 0

EntryIsValid(entry) ==
    /\ IdParses(entry.id)
    /\ \/ entry.driver = "postgres" /\ PostgresIsValid(entry)
       \/ entry.driver = "bigquery" /\ BigQueryIsValid(entry)
    /\ "color" \in DOMAIN entry => entry.color \in Colors

PostgresConfig(entry) ==
    [host |-> entry.host, port |-> OrElse(Get(entry, "port"), 5432), database |-> entry.database,
     user |-> entry.user, sslmode |-> OrElse(Get(entry, "sslmode"), "prefer"),
     password |-> Get(entry, "password")]

BigQueryConfig(entry) ==
    [project |-> entry.project, location |-> Get(entry, "location"),
     auth |-> OrElse(Get(entry, "auth"), [of |-> "adc", with |-> "true"]),
     max_bytes_billed |-> BytesOf(Get(entry, "max_bytes_billed"))]

\* RawConnection::validate, of one that is valid.
Profile(entry) ==
    [id |-> entry.id,
     name |-> IF "name" \in DOMAIN entry /\ ~IsBlank(entry.name) THEN <<entry.name>> ELSE entry.id,
     kind |-> entry.driver,
     readonly |-> OrElse(Get(entry, "readonly"), FALSE),
     color |-> Get(entry, "color"),
     driver |-> IF entry.driver = "postgres" THEN PostgresConfig(entry) ELSE BigQueryConfig(entry)]

\* connections_from_str.
ConnectionsAreValid(entries) ==
    /\ \A i \in DOMAIN entries : EntryParses(entries[i]) /\ EntryIsValid(entries[i])
    /\ \A i, j \in DOMAIN entries : entries[i].id = entries[j].id => i = j

------------------------------------------------------------------------------
(* config.toml                                                             *)

SettingsKeys == {"page_size", "editor", "max_bytes_billed", "agent"}

\* settings_from_str and SettingsFile::validate.
SettingsAreValid(table) ==
    /\ DOMAIN table \subseteq SettingsKeys
    /\ \A key \in {"max_bytes_billed", "agent"} \cap DOMAIN table : SizeParses(table[key])
    /\ "editor" \in DOMAIN table => ~IsBlank(table.editor)
    /\ {"max_bytes_billed", "agent"} \subseteq DOMAIN table =>
          Bytes(table.agent) <= Bytes(table.max_bytes_billed)
    /\ "page_size" \in DOMAIN table => table.page_size \in 1 .. MaxPageSize

Settings(table) ==
    [page_size |-> Get(table, "page_size"),
     max_bytes_billed |-> BytesOf(Get(table, "max_bytes_billed")),
     agent_max_bytes_billed |-> BytesOf(Get(table, "agent"))]

\* read_optional: one that is not there is the defaults, one that cannot be read an error.
Says(file, nothing) == IF file.tag = "absent" THEN nothing ELSE file.says
IsReadable(file) == file.tag # "unreadable"

\* Config::load_from.
Loads ==
    /\ IsReadable(files.settings) /\ IsReadable(files.connections)
    /\ SettingsAreValid(Says(files.settings, [k \in {} |-> Absent]))
    /\ ConnectionsAreValid(Says(files.connections, <<>>))

Entries == Says(files.connections, <<>>)

------------------------------------------------------------------------------
(* Passwords.                                                              *)

\* Slip: what is around it is trimmed.
FromCommandTrimmed(text) ==
    LET solid == {i \in DOMAIN text : text[i] \notin {"\n", "\r"}}
    IN IF solid = {} THEN <<>> ELSE SubSeq(text, 1, CHOOSE i \in solid : \A j \in solid : j <= i)

\* The one line ending the command's own println added.
FromCommand(text) ==
    IF text = <<>> \/ Last(text) # "\n" THEN text
    ELSE IF Len(text) > 1 /\ text[Len(text) - 1] = "\r" THEN SubSeq(text, 1, Len(text) - 2)
    ELSE Front(text)

\* read: the one source the profile named, and nothing where it holds nothing.  The
\* keyring has an entry an id.
Read(profile) ==
    LET secret == profile.driver.password
        held == IF secret.of = "keyring" THEN Get(world.keyring, profile.id) ELSE world[secret.of]
    IN IF held = Absent THEN Absent
       ELSE LET text == IF secret.of = "command" THEN FromCommand(held) ELSE held
            IN IF text = <<>> THEN Absent ELSE text

HasPassword(profile) == profile.kind = "postgres" /\ profile.driver.password # Absent

\* resolve_with: what the driver is handed, and which source was opened for it.
Resolve(profile) ==
    LET opened == IF HasPassword(profile) THEN {profile.driver.password.of} ELSE {}
    IN IF ~HasPassword(profile) THEN [tag |-> "Resolved", password |-> Absent, opened |-> opened]
       ELSE IF Read(profile) = Absent THEN [tag |-> "Refused", opened |-> opened]
       ELSE [tag |-> "Resolved", password |-> Read(profile), opened |-> opened]

------------------------------------------------------------------------------
(* Encryption: what tokio-postgres negotiates, and what is asked of the    *)
(* certificate.                                                            *)

Negotiates == [m \in SslModes |-> CASE m = "disable" -> "Disable" [] m = "prefer" -> "Prefer" [] OTHER -> "Require"]
Verification == [m \in SslModes |->
    CASE m = "verify-ca" -> "ChainOnly" [] m = "verify-full" -> "Full" [] OTHER -> "None"]

\* WebPkiServerVerifier: the chain first, then the name.
WebPki(server) ==
    IF ~server.chain THEN "UnknownIssuer" ELSE IF ~server.name THEN "NotValidForName" ELSE "Valid"

\* NameAgnostic forgives one error.
Verifies(mode, server) ==
    CASE Verification[mode] = "None" -> TRUE
      [] Verification[mode] = "ChainOnly" -> WebPki(server) \in {"Valid", "NotValidForName"}
      [] OTHER -> WebPki(server) = "Valid"

\* plain, tls, or refused.
Handshake(mode, server) ==
    CASE Negotiates[mode] = "Disable" -> "plain"
      [] Negotiates[mode] = "Prefer" /\ ~server.offers -> "plain"
      [] OTHER -> IF server.offers /\ Verifies(mode, server) THEN "tls" ELSE "refused"

------------------------------------------------------------------------------
(* The program.                                                            *)

Nothing == [tag |-> "Nothing"]

ConfigInit ==
    /\ files \in [settings : SettingsFiles, connections : ConnectionsFiles, connect : Arguments]
    /\ world = [keyring |-> [id \in {} |-> Absent], env |-> Absent, command |-> Absent]
    /\ config = Absent /\ open = Absent
    /\ did = Nothing
    /\ steps = 0

Goes == steps < MaxSteps /\ steps' = steps + 1

\* opening: what --connect names, or the first there is.
Opening(profiles) ==
    IF files.connect = <<>> THEN SubSeq(profiles, 1, IF profiles = <<>> THEN 0 ELSE 1)
    ELSE SelectSeq(profiles, LAMBDA profile : profile.id \in ToSet(files.connect))

\* configuration and opening, before the screen is taken over.
Starts ==
    /\ Goes
    /\ config = Absent
    /\ config' =
        IF ~Loads THEN [tag |-> "Refused"]
        ELSE LET profiles == [i \in DOMAIN Entries |-> Profile(Entries[i])]
             IN IF \E id \in ToSet(files.connect) : \A i \in DOMAIN profiles : profiles[i].id # id
                THEN [tag |-> "Refused"]
                ELSE [tag |-> "Loaded", profiles |-> profiles, opens |-> Opening(profiles),
                      settings |-> Settings(Says(files.settings, [k \in {} |-> Absent]))]
    /\ did' = [tag |-> "Started"]
    /\ UNCHANGED <<files, world, open>>

IsRunning == config # Absent /\ config.tag = "Loaded"

\* Config::profile.
ProfileOf(id) == SelectSeq(config.profiles, LAMBDA profile : profile.id = id)[1]

\* Connect::execute: the i-th of the list is resolved by its id and handed to its driver.
Connects(i, server) ==
    /\ Goes
    /\ IsRunning
    /\ LET profile == ProfileOf(config.profiles[i].id)
           resolved == Resolve(profile)
           over == IF profile.kind = "postgres" THEN Handshake(profile.driver.sslmode, server) ELSE "tls"
           session == [of |-> i, profile |-> profile, over |-> over, server |-> server,
                       access |-> IF profile.readonly THEN "ReadOnly" ELSE "ReadWrite",
                       options |-> IF profile.readonly /\ profile.kind = "postgres"
                                   THEN {"default_transaction_read_only"} ELSE {}]
       IN /\ did' = [tag |-> "Connected", of |-> i, resolved |-> resolved, world |-> world]
          /\ open' = IF resolved.tag = "Resolved" /\ over # "refused" THEN session ELSE Absent
    /\ UNCHANGED <<files, world, config>>

\* Somebody stores a password, or takes it away.
Stores(source, held) ==
    /\ Goes
    /\ IsRunning
    /\ world' = [world EXCEPT ![source] = held]
    /\ did' = Nothing
    /\ UNCHANGED <<files, config, open>>

\* An entry of the keyring is for one connection and no other.
StoresEntry(id, held) ==
    /\ Goes
    /\ IsRunning
    /\ world' = [world EXCEPT !.keyring = [k \in {id} |-> held]]
    /\ did' = Nothing
    /\ UNCHANGED <<files, config, open>>

\* The tighter of two ceilings.
Tighter(one, two) ==
    CASE one = Absent -> two
      [] two = Absent -> one
      [] OTHER -> IF one < two THEN one ELSE two

\* Slip: an agent's own ceiling takes the place of the one it runs under.
BudgetAsAsked(by, asked) ==
    IF by = "person" THEN config.settings.max_bytes_billed
    ELSE Tighter(config.settings.max_bytes_billed, OrElse(asked, config.settings.agent_max_bytes_billed))

\* The store has the session's ceiling and a service the agent's on top, attached or not.
Budget(by, asked) ==
    IF by = "person" THEN config.settings.max_bytes_billed
    ELSE Tighter(config.settings.max_bytes_billed, Tighter(config.settings.agent_max_bytes_billed, asked))

\* ApprovedQuery::within: a write on a read-only connection, then the cost.  PostgreSQL
\* answers in units nobody compares.
Gate(by, asked, bytes, writes) ==
    LET estimate == IF open.profile.kind = "bigquery" THEN bytes ELSE Absent
        budget == Budget(by, asked)
    IN IF open.access = "ReadOnly" /\ writes THEN "ReadOnly"
       ELSE IF estimate # Absent /\ budget # Absent /\ estimate > budget THEN "OverBudget"
       ELSE IF estimate # Absent /\ budget # Absent THEN "WithinBudget" ELSE "Ungated"

Runs(by, asked, bytes, writes) ==
    /\ Goes
    /\ IsRunning /\ open # Absent
    /\ by = "person" => asked = Absent
    /\ did' = [tag |-> "Asked", by |-> by, bytes |-> bytes, writes |-> writes,
               gate |-> Gate(by, asked, bytes, writes)]
    /\ UNCHANGED <<files, world, config, open>>

ConfigNext ==
    \/ Starts
    \/ IsRunning /\ \E i \in DOMAIN config.profiles, server \in Servers : Connects(i, server)
    \/ \E source \in {"env", "command"}, held \in Contents : Stores(source, held)
    \/ IsRunning /\ \E i \in DOMAIN config.profiles, held \in Contents : StoresEntry(config.profiles[i].id, held)
    \/ \E by \in {"person", "agent"}, asked \in {Absent} \cup Estimates, bytes \in Estimates, writes \in BOOLEAN :
          Runs(by, asked, bytes, writes)

ConfigSpec == ConfigInit /\ [][ConfigNext]_configVars

------------------------------------------------------------------------------
(* Properties.                                                             *)

\* What a key says, if it is written, is what the connection has.
IsInForce(entry, key, session) ==
    LET profile == session.profile
        server == session.server
    IN CASE key = "id" -> profile.id = entry.id
         [] key = "name" -> IsBlank(entry.name) \/ profile.name = <<entry.name>>
         [] key = "driver" -> profile.kind = entry.driver
         [] key = "readonly" -> /\ entry.readonly <=> session.access = "ReadOnly"
                                /\ entry.readonly /\ entry.driver = "postgres" <=> session.options # {}
         [] key = "color" -> profile.color = entry.color
         [] key = "sslmode" ->
              CASE entry.sslmode = "disable" -> session.over = "plain"
                [] entry.sslmode = "prefer" -> session.over = "tls" <=> server.offers
                [] entry.sslmode = "require" -> session.over = "tls"
                [] entry.sslmode = "verify-ca" -> session.over = "tls" /\ server.chain
                [] OTHER -> session.over = "tls" /\ server.chain /\ server.name
         [] key \in {"tunnel", "max_bytes_billed"} -> TRUE
         [] OTHER -> key \in DOMAIN profile.driver /\ profile.driver[key] = entry[key]

\* A key is never ignored (profile.rs: "a typo an error rather than a setting that
\* silently does nothing"; reject_foreign_keys; load.rs on two of one id): the
\* connection somebody picked from the list is the one that was written there,
\* with everything that was written about it, down to what it took of the server's
\* certificate.  A tunnel is the exception, and is documented as one; a limit of its
\* own is the other, and nothing reads it (resolve.rs, BigQueryConfig).
ConnectionIsAsWritten ==
    open # Absent =>
        \A key \in DOMAIN Entries[open.of] : IsInForce(Entries[open.of], key, open)

\* A password comes from the one place the connection named, as it is stored there
\* now, less the line ending a command prints; it is never empty, and no other
\* source is opened (resolve.rs: "No fallback chain").
PasswordIsTheOneNamed ==
    did.tag = "Connected" =>
        LET entry == Entries[did.of]
            named == Get(entry, "password")
            held == IF named = Absent THEN Absent
                    ELSE IF named.of = "keyring" THEN Get(did.world.keyring, entry.id)
                    ELSE did.world[named.of]
            endings == {<<"\n">>, <<"\r", "\n">>}
        IN /\ did.resolved.opened = IF named = Absent THEN {} ELSE {named.of}
           /\ did.resolved.tag = "Resolved" =>
                LET password == did.resolved.password IN
                /\ password = Absent <=> named = Absent
                /\ named # Absent =>
                     /\ password # <<>>
                     /\ IF named.of = "command" /\ \E e \in endings : IsSuffix(e, held)
                        THEN \E e \in endings : password \o e = held
                        ELSE password = held

Within(bytes, size) == bytes * 10 <= size.tenths * Units[size.unit]

\* Whatever runs without a person having been asked costs no more than was written
\* in config.toml, to the byte, and an agent's no more than it is allowed; nothing
\* is written over a connection that was marked read-only.
CeilingsAreKept ==
    did.tag = "Asked" /\ did.gate \in {"WithinBudget", "Ungated"} =>
        LET table == Says(files.settings, [k \in {} |-> Absent])
            costs == open.profile.kind = "bigquery"
        IN /\ costs /\ "max_bytes_billed" \in DOMAIN table => Within(did.bytes, table.max_bytes_billed)
           /\ costs /\ did.by = "agent" /\ "agent" \in DOMAIN table => Within(did.bytes, table.agent)
           /\ ~(did.writes /\ OrElse(Get(Entries[open.of], "readonly"), FALSE))

\* What is written in the two files is in force, whatever is done with it: the
\* connection, its password and what may run over it are those that were written.
WhatIsWrittenIsInForce == ConnectionIsAsWritten /\ PasswordIsTheOneNamed /\ CeilingsAreKept

=============================================================================
