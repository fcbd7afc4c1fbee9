------------------------------- MODULE MCEdges -------------------------------
(***************************************************************************)
(* Instances of what is at the two edges of the program, for TLC.  Between *)
(* the store and a server: the actor that owns a session, what somebody    *)
(* typed, what a driver makes of a server's answers, and what somebody     *)
(* configured.  Between the store and a reader: the values that are told,  *)
(* and the grid that is drawn.  They share nothing, and each is a part of  *)
(* its own.                                                                *)
(***************************************************************************)
EXTENDS PgSession, SqlText, Conformance, Config, Values, MCGrid

VARIABLES
    part,  \* the part that is instantiated
    keys   \* the characters a text is typed with

------------------------------------------------------------------------------
(* What hides a semicolon is tried a kind at a time: literals, comments,   *)
(* dollar quoting, keywords, and placeholders among literals.              *)

KeySets == {{"'", "\"", "\\", ";", "a", "{{x}}"},
         {"-", "/", "*", "\n", ";", "{{x}}"},
         {"$", "1", "a", ";", "'", "{{x}}"},
         {"select", "insert", " ", "\n", "nbsp", ";"},
         {"{{x}}", "{{y}}", "{{ident:x}}", "{{oops:x}}", "tick", "-"}}

\* What breaks out of quotes, if anything does.
AllValues == {<<>>, <<"'">>, <<"\\">>, <<"tick">>, <<"\"">>, <<"\\", "'">>, <<"\\", "tick">>, <<"'", ";", "insert">>,
              <<"\n", "-", "-">>}

------------------------------------------------------------------------------
(* Every operation of a driver, about what is there and what is not.       *)

Asking(op, about, limit, offset, sort) ==
    [op |-> op, about |-> about, limit |-> limit, offset |-> offset, sort |-> sort]
Plain(op, abouts) == {Asking(op, about, Absent, 0, Absent) : about \in abouts}
Sorts == {Absent} \cup {[column |-> c, dir |-> d] : c \in {1, 3}, d \in {"Asc", "Desc"}}
AllCalls ==
    Plain("connect", {"server"})
    \cup Plain("children", {"root", "catalog", "namespace", "relation"})
    \cup {Asking("preview", "users", 2, offset, Absent) : offset \in {0, 2, 4}}
    \cup {Asking("preview", "users", 2, 2, sort) : sort \in Sorts}
    \cup {Asking("preview", about, 2, 0, Absent) : about \in {"missing", "elsewhere"}}
    \cup Plain("describe", {"users", "missing", "elsewhere"})
    \cup Plain("estimate", {"users", "broken", "utility"})
    \cup {Asking("execute", about, cap, 0, Absent) : about \in {"users", "broken", "utility"}, cap \in {Absent, 0, 1}}
ThreeDatasets == <<"archive", "public", "sales">>

------------------------------------------------------------------------------
(* What can be written in the files, one key at a time, alone and before a *)
(* connection that is as it should be.                                     *)

A == <<"a">>
B == <<"b">>
Postgres(id) == [id |-> id, driver |-> "postgres", host |-> "h", database |-> "d", user |-> "u"]
BigQuery(id) == [id |-> id, driver |-> "bigquery", project |-> "p"]
Lacking(entry, key) == [k \in DOMAIN entry \ {key} |-> entry[k]]
Size(tenths, unit) == [tenths |-> tenths, unit |-> unit]
From(of, with) == [of |-> of, with |-> with]

\* One key at a time, as it can be written.
Common == {[name |-> " "], [name |-> "n"], [readonly |-> TRUE], [readonly |-> FALSE], [color |-> "red"],
           [color |-> "mauve"], [tunnel |-> "t"], [read_only |-> TRUE], [driver |-> "mysql"]}
          \cup {[id |-> id] : id \in {<<>>, <<"a", " ">>, <<".", ".">>, <<".", "a">>}}
ForPostgres == {[port |-> p] : p \in {0, 6432, 65536}} \cup {[sslmode |-> m] : m \in SslModes \cup {"allow"}}
               \cup {[host |-> " "]}
               \cup {[password |-> From(of, with)] : of \in {"keyring"}, with \in {"true", "false"}}
               \cup {[password |-> From(of, with)] : of \in {"env", "command"}, with \in {" ", "v"}}
ForBigQuery == {[location |-> "l"]} \cup {[auth |-> From("adc", v)] : v \in {"true", "false"}}
               \cup {[auth |-> From("service_account", v)] : v \in {"/absolute", "~/sa.json"}}
               \cup {[max_bytes_billed |-> s] : s \in {Size(15, "kb"), Size(9, "b"), Size(-1, ""), Size(10, "xb")}}
AnyKey == Common \cup ForPostgres \cup ForBigQuery
Written == {key @@ entry : key \in AnyKey, entry \in {Postgres(A), BigQuery(A)}}
           \cup {Lacking(entry, key) : entry \in {Postgres(A), BigQuery(A)}, key \in {"host", "project", "driver"}}
Locked == [sslmode |-> "require", password |-> From("keyring", "true")] @@ Postgres(B)

Absence == [tag |-> "absent"]
Broken == [tag |-> "unreadable"]
Text(says) == [tag |-> "text", says |-> says]
Two == {Text(<<BigQuery(A), Locked>>)}
AllConnections == {Absence, Broken} \cup Two
    \cup {Text(<<entry>>) : entry \in Written}
    \cup {Text(<<Locked, [id |-> B] @@ BigQuery(A)>>), Text(<<[readonly |-> TRUE] @@ BigQuery(A), Locked>>)}

Ceilings == {Size(15, "kb"), Size(15, "b"), Size(20, "kib"), Size(99999, "kb")}
AllSettings == {Absence, Broken}
    \cup {Text([max_bytes_billed |-> s]) : s \in Ceilings} \cup {Text([agent |-> s]) : s \in Ceilings}
    \cup {Text([max_bytes_billed |-> s, agent |-> a]) : s \in Ceilings, a \in Ceilings}
    \cup {Text([page_size |-> n]) : n \in {0, 5, 11}} \cup {Text([editor |-> " "]), Text([pagesize |-> 1])}

AllArguments == {<<>>, <<B>>, <<A, B>>}
AllContents == {Absent, <<>>, <<"s">>, <<"s", "\n">>, <<"s", "\r", "\n">>, <<"s", "\n", "\n">>}
AllServers == {[offers |-> FALSE, chain |-> FALSE, name |-> FALSE]}
              \cup [offers : {TRUE}, chain : BOOLEAN, name : BOOLEAN]

------------------------------------------------------------------------------
(* A value of every kind, and the numbers whose point falls between, on and*)
(* off the edge of a group; instants on both sides of the epoch.           *)

Field(type) == [type |-> type, repeated |-> FALSE, fields |-> <<>>]
Pg(type, reads, holds) == [server |-> "postgres", field |-> Field(type), holds |-> holds,
                           sent |-> [reads |-> reads, raw |-> <<"control">>]]
\* A number of some digits after its point, and what a server sends of it.
NumberAt(n, scale, negative) ==
    Decimal(negative /\ n > 0, PlainDigits(n \div Pow(scale)), DigitsOf(n % Pow(scale), scale))
SomeNumbers == {NumberAt(n, scale, negative) : n \in {0, 1, 10, 99, 100, 101, 1000, 10001, 99999, 1020300},
                                           scale \in 0 .. 5, negative \in BOOLEAN}
Unread(type, raw) == [server |-> "postgres", field |-> Field(type), holds |-> "unheld" :> type,
                      sent |-> [reads |-> Absent, raw |-> raw]]
PgHoldings ==
    {Pg("numeric", NumericSent(number["decimal"]), number) : number \in SomeNumbers}
    \cup {Pg("numeric", [sign |-> "NaN"], "decimal" :> [special |-> "NaN"])}
    \cup {Pg("int", n, "int" :> n) : n \in {0, 9, 10, -10}}
    \cup {Pg("float", "Infinity", "float" :> "Infinity"), Pg("bytes", <<"8">>, "bytes" :> <<"8">>)}
    \cup {Pg("timestamptz", n, "timestamptz" :> n) : n \in {-5000, 0, 5}}
    \cup {Pg("timestamptz", 20000, "unheld" :> "late")}
    \cup {Pg("time", n, IF n < 24 THEN "time" :> n ELSE "unheld" :> "24:00") : n \in {0, 23, 24}}
    \cup {Pg("jsonb", [version |-> v, document |-> "{}"], IF v = 1 THEN "json" :> "{}" ELSE "unheld" :> "v2") : v \in {1, 2}}
    \cup {Unread(type, raw) : type \in {"interval", "citext", "int"},
                              raw \in {<<>>, <<"letter", "line break">>, <<"letter", "control">>, <<"not UTF-8">>}}
Bq(field, holds) == [server |-> "bigquery", field |-> field, holds |-> holds]
Rec == [type |-> "record", repeated |-> FALSE, fields |-> <<Field("int"), Field("timestamptz"), Field("text")>>]
Recs == {"struct" :> <<a, b, c>> : a \in {Nil, "int" :> 10}, b \in {Nil, "timestamptz" :> -50}, c \in {Nil, "text" :> "a"}}
BqHoldings ==
    {Bq(Field("timestamptz"), "timestamptz" :> n) : n \in {0, 10, -10, 50, -50, 990, -990, 1000, -1230, -5000}}
    \cup {Bq(Field("int"), "int" :> 10), Bq(Field("bool"), "bool" :> TRUE), Bq(Field("numeric"), NumberAt(101, 2, TRUE)),
          Bq(Field("interval"), "unheld" :> "1-2"), Bq(Field("int"), "unheld" :> "x")}
    \cup {Bq(Rec, r) : r \in Recs}
    \cup {Bq([Rec EXCEPT !.repeated = TRUE], "array" :> <<a, b>>) : a \in Recs, b \in {Nil} \cup Recs}
    \cup {Bq([Field("int") EXCEPT !.repeated = TRUE], "array" :> s) : s \in {<<>>, <<"int" :> 1>>, <<Nil, "int" :> 2>>}}
AllHoldings == PgHoldings \cup BqHoldings
AllBudgets == {[rows |-> r, columns |-> c] : r \in {0, 2, 3}, c \in {0, 1, 2}}
Now == -10000 .. 10000
Ours == -2000 .. 9999

------------------------------------------------------------------------------
SessionIdle == PgInit
TextIdle == TextInit /\ server.escaping = "None" /\ keys = {}
DriversIdle == DriversInit /\ kind = "postgres"
ConfigIdle ==
    /\ files = [settings |-> Absence, connections |-> Absence, connect |-> <<>>]
    /\ ConfigInit
ValuesIdle == ValuesInit /\ held.holds = "float" :> "Infinity"
GridIdle ==
    /\ rows = [count |-> 9, wide |-> FALSE, version |-> 0]
    /\ size = [w |-> 22, h |-> 10]
    /\ GridInit

\* A file at a time.
OneFile ==
    \/ files.settings = Absence /\ (files.connections \in Two \/ files.connect = <<>>)
    \/ files.connections \in Two /\ files.connect = <<>>

textAll == <<typed, server, keys>>
edgeVars == <<valuesVars, gridVars>>

EdgesInit ==
    \/ part = "session" /\ PgInit /\ TextIdle /\ DriversIdle /\ ConfigIdle /\ ValuesIdle /\ GridIdle
    \/ /\ part = "text"
       /\ SessionIdle /\ TextInit /\ keys \in KeySets /\ DriversIdle /\ ConfigIdle /\ ValuesIdle /\ GridIdle
    \/ part = "driver" /\ SessionIdle /\ TextIdle /\ DriversInit /\ ConfigIdle /\ ValuesIdle /\ GridIdle
    \/ /\ part = "config"
       /\ SessionIdle /\ TextIdle /\ DriversIdle /\ ConfigInit /\ OneFile /\ ValuesIdle /\ GridIdle
    \/ part = "values" /\ SessionIdle /\ TextIdle /\ DriversIdle /\ ConfigIdle /\ ValuesInit /\ GridIdle
    \/ part = "grid" /\ SessionIdle /\ TextIdle /\ DriversIdle /\ ConfigIdle /\ ValuesIdle /\ GridIdle

EdgesNext ==
    /\ UNCHANGED part
    /\ \/ part = "session" /\ PgNext /\ UNCHANGED <<textAll, driverVars, configVars, edgeVars>>
       \/ /\ part = "text"
          /\ \E c \in keys : Types(c)
          /\ UNCHANGED <<keys, allVars, driverVars, configVars, edgeVars>>
       \/ part = "driver" /\ DriversNext /\ UNCHANGED <<allVars, textAll, configVars, edgeVars>>
       \/ part = "config" /\ ConfigNext /\ UNCHANGED <<allVars, textAll, driverVars, edgeVars>>
       \/ /\ part = "values" /\ ValuesNext
          /\ UNCHANGED <<allVars, textAll, driverVars, configVars, gridVars>>
       \/ /\ part = "grid" /\ GridNext
          /\ UNCHANGED <<allVars, textAll, driverVars, configVars, valuesVars>>

EdgesSpec ==
    /\ EdgesInit
    /\ [][EdgesNext]_<<part, allVars, textAll, driverVars, configVars, edgeVars>>
    /\ PgFairness

==============================================================================
