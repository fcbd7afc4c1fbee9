------------------------------- MODULE Drivers -------------------------------
(***************************************************************************)
(* What the three drivers make of a server's answers (sqlake-driver-mock,  *)
(* -postgres and -bigquery).                                               *)
(*                                                                         *)
(* A call puts its questions to the server in rounds: those of a round are *)
(* asked together and answered in any order.  What is asked about belongs  *)
(* to others, who change it while a call is on its way.                    *)
(***************************************************************************)
EXTENDS Integers, SequencesExt, FiniteSets, Options

CONSTANTS
  Askings,      \* the calls tried, as [op, about, limit, offset, sort]
  Behaviours,   \* how the mock misbehaves: instant, flaky, late, short
  Datasets,     \* what a branch can hold, in the order it is listed in
  MaxFailures,  \* bound: questions that come to nothing
  MaxTroubles   \* bound: those, and what others do to the server

\* Capabilities, and the other set the mock is configured with in tests.
TwoLevels == <<"Namespace", "Relation">>
ThreeLevels == <<"Catalog", "Namespace", "Relation">>
Offers(hierarchy, sections, sorts, estimates) ==
    [hierarchy |-> hierarchy, sections |-> sections, sorts |-> sorts, estimates |-> estimates]
Capabilities ==
    [kind \in {"mock", "deep", "postgres", "bigquery"} |->
       CASE kind = "mock" -> Offers(TwoLevels, {}, TRUE, FALSE)
         [] kind = "deep" -> Offers(ThreeLevels, {"Indexes", "Partitioning"}, FALSE, TRUE)
         [] kind = "postgres" ->
              Offers(ThreeLevels, {"Indexes", "Triggers", "Constraints", "Partitioning"}, TRUE, TRUE)
         [] OTHER -> Offers(ThreeLevels, {"Partitioning", "Clustering"}, FALSE, TRUE)]
IsMock(k) == k \in {"mock", "deep"}

VARIABLES
  kind,       \* the driver
  behaviour,  \* how the mock misbehaves
  attempts,   \* calls it has counted
  relation,   \* the relation calls are about, as the server has it, or Absent
  datasets,   \* what the branch holds
  call,       \* the call on its way, or Absent
  answer,     \* what the last one was answered, or Absent
  seen,       \* history: the relation, in each form it had since the call began
  kept,       \* history: the datasets that were there all along
  changes, failures

driverVars == <<kind, behaviour, attempts, relation, datasets, call, answer, seen, kept,
                changes, failures>>

Relation == [columns |-> <<"id", "name">>, rows |-> 3, constraints |-> {"pk"}, indexes |-> {"pk"},
             triggers |-> {}, parted |-> FALSE]

------------------------------------------------------------------------------
(* What a server answers a question with, at the moment it does.           *)

Said(what) == [refused |-> FALSE, is |-> what]
Refusal(at) == [refused |-> TRUE, is |-> at]

\* The i-th row: each value knows the column it belongs to.
Record(columns, i) == [j \in 1 .. Len(columns) |-> <<columns[j], i>>]

\* The rows a page is of, by number.
Numbers(rows, c) ==
    LET stored == [i \in 1 .. rows |-> i]
        ordered == IF c.sort # Absent /\ c.sort.dir = "Desc" THEN Reverse(stored) ELSE stored
        upto == IF c.limit = Absent \/ c.offset + c.limit > rows THEN rows ELSE c.offset + c.limit
    IN SubSeq(ordered, c.offset + 1, upto)

RowsOf(r, c) == LET numbers == Numbers(r.rows, c)
                IN [k \in 1 .. Len(numbers) |-> Record(r.columns, numbers[k])]

\* A response that got too large is cut, and never of its first row.
Cuts(rows) == {SubSeq(rows, 1, n) : n \in IF rows = <<>> THEN {0} ELSE 1 .. Len(rows)}

\* The names after a token, one to a page.
PageAfter(names, token) ==
    LET later == IF token = Absent THEN names
                 ELSE SelectSeq(names, LAMBDA n : \E i, j \in 1 .. Len(Datasets) :
                                          i < j /\ Datasets[i] = token /\ Datasets[j] = n)
    IN [names |-> IF later = <<>> THEN <<>> ELSE <<later[1]>>, token |-> IF Len(later) > 1 THEN later[1] ELSE Absent]

Branches == SelectSeq(Datasets, LAMBDA d : d \in datasets)
Leaves == IF relation = Absent THEN <<>> ELSE <<"users">>

\* Whether a statement or a page can be planned.  An order is a column number.
Plans == /\ call.about = "users" /\ relation # Absent
         /\ call.sort # Absent => call.sort.column <= Len(relation.columns)

\* Where a server says a statement went wrong: an offset into it, or into the body
\* of something it calls; or a message that ends in a place, if it names one.
PgPlaces == {[of |-> of, offset |-> 7] : of \in {"Original", "Internal"}}
Messages == {quoted \o place : quoted \in {<<>>, <<"[", "w", ":", "]">>, <<"[", "2", ":", "2", "]">>},
                               place \in {<<"[", "1", ":", "3", "]">>, <<>>}}

PgReplies(question) ==
    CASE question \in {"handshake", "current_database"} -> {Said("postgres")}
      [] question = "schemas" -> {Said(Branches)}
      [] question = "relations" -> {Said(Leaves)}
      [] question = "explain" -> IF Plans THEN {Said("cost")} ELSE {Refusal(Absent)}
      [] question = "prepare" /\ call.about = "utility" -> {Said(<<>>)}
      [] question = "prepare" /\ call.about # "utility" ->
           IF Plans THEN {Said(relation.columns)}
           ELSE {Refusal(at) : at \in IF call.about = "broken" THEN PgPlaces ELSE {Absent}}
      [] question = "query" /\ call.about = "utility" -> {Said(<<>>)}
      \* A prepared plan is refused once its columns are others.
      [] question = "query" /\ call.about # "utility" ->
           IF Plans /\ relation.columns = call.heard["prepare"].is
           THEN {Said(RowsOf(relation, call))} ELSE {Refusal(Absent)}
      [] question = "relation" -> {Said(call.about = "users" /\ relation # Absent)}
      [] question = "columns" -> {Said(IF Plans THEN relation.columns ELSE <<>>)}
      [] question \in {"indexes", "constraints", "triggers"} ->
           {Said(IF Plans THEN relation[question] ELSE {})}
      [] question = "partitions" -> {Said(Plans /\ relation.parted)}

\* A job may be answered about before it has ended, or without saying; a body may
\* fail to parse.
Job(complete, columns, rows, total) ==
    Said([complete |-> complete, columns |-> columns, rows |-> rows, total |-> total])

BqReplies(question) ==
    CASE question = "verify" -> {Said("bigquery")}
      [] question = "page" -> {Said(PageAfter(IF call.about = "catalog" THEN Branches ELSE Leaves,
                                              call.token))}
      [] question = "table" -> IF Plans THEN {Said(relation)} ELSE {Refusal(<<>>)}
      [] question = "list" ->
           IF Plans THEN {Said(rows) : rows \in Cuts(RowsOf(relation, call))} ELSE {Refusal(<<>>)}
      [] question = "dry" ->
           IF Plans \/ call.about = "utility" THEN {Said("bytes"), Said("unsaid")}
           ELSE {Refusal(m) : m \in IF call.about = "broken" THEN Messages ELSE {<<>>}}
      [] question = "job" /\ call.about = "utility" -> {Job("yes", <<>>, <<>>, Absent)}
      [] question = "job" /\ call.about # "utility" ->
           IF Plans
           THEN {Job("yes", relation.columns, rows, relation.rows) : rows \in Cuts(RowsOf(relation, call))}
                \cup {Job(said, <<>>, <<>>, Absent) : said \in {"no", "unsaid"}}
           ELSE {Refusal(m) : m \in IF call.about = "broken" THEN Messages ELSE {<<>>}}

Replies(question) == IF kind = "postgres" THEN PgReplies(question) ELSE BqReplies(question)

------------------------------------------------------------------------------
(* The questions of a call, a round at a time.                             *)

Rounds(k, c) ==
    CASE IsMock(k) -> <<>>
      [] k = "postgres" /\ c.op = "connect" -> <<{"handshake"}, {"current_database"}>>
      [] k = "postgres" /\ c.op = "children" ->
           CASE c.about = "catalog" -> <<{"schemas"}>>
             [] c.about = "namespace" -> <<{"relations"}>>
             [] OTHER -> <<>>
      [] k = "postgres" /\ c.op \in {"preview", "execute"} -> <<{"prepare"}, {"query"}>>
      [] k = "postgres" /\ c.op = "estimate" -> <<{"explain"}>>
      [] k = "postgres" /\ c.op = "describe" ->
           <<{"relation", "columns"}, {"indexes", "triggers", "constraints", "partitions"}>>
      [] k = "bigquery" /\ c.op = "connect" -> <<{"verify"}>>
      [] k = "bigquery" /\ c.op = "children" ->
           IF c.about \in {"catalog", "namespace"} THEN <<{"page"}>> ELSE <<>>
      [] k = "bigquery" /\ c.op = "preview" -> <<{"table", "list"}>>
      [] k = "bigquery" /\ c.op = "describe" -> <<{"table"}>>
      [] k = "bigquery" /\ c.op = "estimate" -> <<{"dry"}>>
      [] OTHER -> <<{"job"}>>

Failed(why, at) == [tag |-> "Failed", why |-> why, at |-> at]

\* Refused before anybody is asked: an order the driver cannot give, a relation of
\* another database.
Refused(k, c) ==
    CASE k = "bigquery" /\ c.op = "preview" /\ c.sort # Absent -> Failed("Unsupported", Absent)
      [] k = "postgres" /\ c.op \in {"preview", "describe"} /\ c.about = "elsewhere" ->
           Failed("NotFound", Absent)
      [] OTHER -> Absent

------------------------------------------------------------------------------
(* What the drivers make of it.                                            *)

Connected == [tag |-> "Connected"]
Branch(names) == [tag |-> "Branch", names |-> names]
Estimate(what) == [tag |-> "Estimate", is |-> what]
Page(columns, rows, total) == [tag |-> "Page", columns |-> columns, rows |-> rows, total |-> total]
Definition(columns, sections, ddl) ==
    [tag |-> "Definition", columns |-> columns, sections |-> sections, ddl |-> ddl]

AnyRefused(heard) == \E question \in DOMAIN heard : heard[question].refused

\* Position::of_offset of an offset into what was sent, and into nothing else.
PgPlace(at) == IF at # Absent /\ at.of = "Original" THEN at.offset ELSE Absent

\* Slip: a cap is not looked at.
PgRowsCounted(c, heard) ==
    IF heard["prepare"].refused THEN Failed("Query", PgPlace(heard["prepare"].is))
    ELSE IF heard["query"].refused THEN Failed("Query", PgPlace(heard["query"].is))
    ELSE Page(heard["prepare"].is, heard["query"].is,
              IF c.op = "execute" THEN Len(heard["query"].is) ELSE Absent)

\* preview and execute of -postgres.  The headers are those of the statement, so
\* they are there without a row; a capped result does not count.
PgRows(c, heard) ==
    IF heard["prepare"].refused THEN Failed("Query", PgPlace(heard["prepare"].is))
    ELSE IF heard["query"].refused THEN Failed("Query", PgPlace(heard["query"].is))
    ELSE Page(heard["prepare"].is, heard["query"].is,
              IF c.op = "execute" /\ c.limit = Absent THEN Len(heard["query"].is) ELSE Absent)

\* Slip: every index is written out.
DdlOfAll(heard) == [constraints |-> heard["constraints"].is, indexes |-> heard["indexes"].is]

\* The statement a relation can be made again with: a constraint owns an index of
\* its own name, which is not written out a second time.
Ddl(heard) == [constraints |-> heard["constraints"].is,
               indexes |-> heard["indexes"].is \ heard["constraints"].is]

\* A section with no rows is left out.  The two rounds are two moments.
PgDescribe(heard) ==
    IF heard["relation"].refused THEN Failed("Query", Absent)
    ELSE IF ~heard["relation"].is THEN Failed("NotFound", Absent)
    ELSE IF AnyRefused(heard) THEN Failed("Query", Absent)
    ELSE Definition(heard["columns"].is,
                    {s \in {"Indexes", "Triggers", "Constraints"} :
                       heard[CASE s = "Indexes" -> "indexes" [] s = "Triggers" -> "triggers"
                               [] OTHER -> "constraints"].is # {}}
                      \cup (IF heard["partitions"].is THEN {"Partitioning"} ELSE {}),
                    IF heard["columns"].is = <<>> THEN Absent ELSE Ddl(heard))

PgOutcome(c) ==
    CASE c.op = "connect" -> IF AnyRefused(c.heard) THEN Failed("Connect", Absent) ELSE Connected
      [] c.op = "estimate" -> Estimate(IF c.heard["explain"].refused THEN "Unknown" ELSE "Known")
      [] c.op \in {"preview", "execute"} -> PgRows(c, c.heard)
      [] c.op = "describe" -> PgDescribe(c.heard)
      [] c.op = "children" /\ c.about = "root" -> Branch(<<"postgres">>)
      [] c.op = "children" /\ c.about = "relation" -> Branch(<<>>)
      [] OTHER -> LET listed == c.heard[IF c.about = "catalog" THEN "schemas" ELSE "relations"]
                  IN IF listed.refused THEN Failed("Query", Absent) ELSE Branch(listed.is)

Places(message, mark) == {i \in 1 .. Len(message) : message[i] = mark}
Least(places) == IF places = {} THEN Absent ELSE CHOOSE i \in places : \A j \in places : i <= j
Greatest(places) == IF places = {} THEN Absent ELSE CHOOSE i \in places : \A j \in places : j <= i

\* The place between this bracket and the next that closes, if it is one.
PlaceFrom(message, open) ==
    LET close == IF open = Absent THEN Absent
                 ELSE Least({i \in Places(message, "]") : open < i})
        inside == IF close = Absent THEN <<>> ELSE SubSeq(message, open + 1, close - 1)
    IN IF Len(inside) = 3 /\ inside[2] = ":" /\ {inside[1], inside[3]} \subseteq {"1", "2", "3"}
       THEN <<inside[1], inside[3]>> ELSE Absent

\* Slip: the first place a message names.
FirstPositionIn(message) == PlaceFrom(message, Least(Places(message, "[")))

\* The last one, which is the one BigQuery adds.
PositionIn(message) == PlaceFrom(message, Greatest(Places(message, "[")))

\* Slip: a row is as long as what was sent of it.
CellsAsSent(columns, cells) == cells

\* A row lines up under the headers, whatever was sent of it.
Aligned(columns, cells) == [j \in 1 .. Len(columns) |-> IF j <= Len(cells) THEN cells[j] ELSE <<Absent, 0>>]

AlignedRows(columns, rows) == [k \in 1 .. Len(rows) |-> Aligned(columns, rows[k])]

\* The two answers of a preview may be of two moments.
BqPreview(heard) ==
    IF AnyRefused(heard) THEN Failed("Query", Absent)
    ELSE Page(heard["table"].is.columns, AlignedRows(heard["table"].is.columns, heard["list"].is),
              heard["table"].is.rows)

\* Slip: a job is over when it does not say it is running.
JobTaken(heard) ==
    LET job == heard["job"] IN
    IF job.refused THEN Failed("Query", PositionIn(job.is))
    ELSE IF job.is.complete = "no" THEN Failed("Query", Absent)
    ELSE Page(job.is.columns, AlignedRows(job.is.columns, job.is.rows), job.is.total)

\* Anything but an explicit yes is unfinished; a job that ended badly says why as a
\* refused request does.
BqRows(heard) ==
    LET job == heard["job"] IN
    IF job.refused THEN Failed("Query", PositionIn(job.is))
    ELSE IF job.is.complete # "yes" THEN Failed("Query", Absent)
    ELSE Page(job.is.columns, AlignedRows(job.is.columns, job.is.rows), job.is.total)

BqDescribe(heard) ==
    IF heard["table"].refused THEN Failed("Query", Absent)
    ELSE Definition(heard["table"].is.columns,
                    IF heard["table"].is.parted THEN {"Partitioning"} ELSE {}, Absent)

BqOutcome(c) ==
    CASE c.op = "connect" -> IF AnyRefused(c.heard) THEN Failed("Connect", Absent) ELSE Connected
      [] c.op = "estimate" ->
           IF c.heard["dry"].refused THEN Failed("Query", PositionIn(c.heard["dry"].is))
           ELSE Estimate(IF c.heard["dry"].is = "bytes" THEN "Known" ELSE "Unknown")
      [] c.op = "execute" -> BqRows(c.heard)
      [] c.op = "preview" -> BqPreview(c.heard)
      [] c.op = "describe" -> BqDescribe(c.heard)
      [] c.op = "children" /\ c.about = "root" -> Branch(<<"project">>)
      [] OTHER -> Branch(c.nodes)

------------------------------------------------------------------------------
(* The mock: nobody else changes its catalogue, and it answers by itself.  *)

\* Whether this call fails; asked once a call, and counted.
FailsFor(seenBefore) ==
    \/ behaviour = "flaky" /\ seenBefore + 1 <= 1
    \/ behaviour = "late" /\ seenBefore + 1 > 1
Counts(c) == /\ behaviour \in {"flaky", "late"}
             /\ c.op \in {"preview", "describe"} /\ c.about = "users"

\* The level below a node, whatever the depth.
MockChildren(c) ==
    LET path == CASE c.about = "root" -> 0
                  [] c.about = "catalog" -> 1
                  [] c.about = "namespace" -> Len(Capabilities[kind].hierarchy) - 1
                  [] OTHER -> Len(Capabilities[kind].hierarchy)
        level == IF path < Len(Capabilities[kind].hierarchy)
                 THEN Capabilities[kind].hierarchy[path + 1] ELSE Absent
    IN CASE level = Absent -> Branch(<<>>)
         [] level = "Catalog" -> Branch(<<"mock">>)
         [] level = "Namespace" -> Branch(Branches)
         [] OTHER -> IF c.about = "namespace" THEN Branch(Leaves) ELSE Failed("NotFound", Absent)

\* short_pages: half of it.
Halved(rows) == IF behaviour = "short" THEN SubSeq(rows, 1, (Len(rows) + 1) \div 2) ELSE rows

MockPreview(c) ==
    CASE c.sort # Absent /\ ~Capabilities[kind].sorts -> Failed("Unsupported", Absent)
      [] c.sort # Absent /\ Capabilities[kind].sorts /\ c.sort.column > Len(relation.columns) ->
           Failed("Query", Absent)
      [] OTHER -> Page(relation.columns, Halved(RowsOf(relation, c)), relation.rows)

\* Enough of a definition, and shaped by what it claims.
MockDescribe == Definition(relation.columns, Capabilities[kind].sections \cap {"Indexes", "Partitioning"}, Absent)

\* A statement that names nothing answers itself; one it is told to refuse says where.
MockExecute(c) ==
    CASE c.about = "broken" -> Failed("Query", 1)
      [] c.about = "utility" ->
           Page(<<"query">>, SubSeq(<<Record(<<"query">>, 1)>>, 1, IF c.limit = 0 THEN 0 ELSE 1), 1)
      [] OTHER -> Page(relation.columns, RowsOf(relation, c), relation.rows)

MockOutcome(c) ==
    CASE c.op = "connect" -> Connected
      [] c.op = "estimate" ->
           IF c.about = "broken" THEN Failed("Query", 1)
           ELSE Estimate(IF Capabilities[kind].estimates THEN "Known" ELSE "Unknown")
      [] c.op = "execute" -> MockExecute(c)
      [] c.op \in {"preview", "describe"} /\ c.about # "users" -> Failed("NotFound", Absent)
      [] Counts(c) /\ FailsFor(attempts) -> Failed("Query", Absent)
      [] c.op = "preview" -> MockPreview(c)
      [] c.op = "describe" -> MockDescribe
      [] OTHER -> MockChildren(c)

Outcome(c) ==
    CASE IsMock(kind) -> MockOutcome(c)
      [] kind = "postgres" -> PgOutcome(c)
      [] OTHER -> BqOutcome(c)

------------------------------------------------------------------------------
(* A call, from its start to its answer.                                   *)

Empty == [q \in {} |-> Absent]

DriversInit ==
    /\ kind \in DOMAIN Capabilities
    /\ behaviour \in IF IsMock(kind) THEN Behaviours ELSE {"instant"}
    /\ attempts = 0
    /\ relation = Relation
    /\ datasets = {Datasets[1], Datasets[Len(Datasets)]}
    /\ call = Absent /\ answer = Absent
    /\ seen = {} /\ kept = {}
    /\ changes = 0 /\ failures = 0

\* The answer, and what was true while the call was on its way.
Concludes(c, outcome, garbled) ==
    /\ call' = Absent
    /\ answer' = [to |-> [op |-> c.op, about |-> c.about, limit |-> c.limit, offset |-> c.offset,
                          sort |-> c.sort],
                  is |-> outcome, heard |-> c.heard, seen |-> seen, kept |-> kept, garbled |-> garbled]
    /\ UNCHANGED <<kind, behaviour, relation, datasets, seen, kept, changes>>

Start(c) ==
    /\ call = Absent
    /\ answer = Absent \/ IsMock(kind)  \* bound: a server is asked once
    /\ call' = [op |-> c.op, about |-> c.about, limit |-> c.limit, offset |-> c.offset,
                sort |-> c.sort, round |-> 1, heard |-> Empty, token |-> Absent, nodes |-> <<>>]
    /\ answer' = Absent
    /\ seen' = {relation} /\ kept' = datasets
    /\ UNCHANGED <<kind, behaviour, attempts, relation, datasets, changes, failures>>

RoundsOf(c) == IF Refused(kind, c) # Absent THEN <<>> ELSE Rounds(kind, c)

\* What it is answered once its last round is in.
Settles ==
    /\ call # Absent
    /\ call.round > Len(RoundsOf(call))
    /\ attempts' = IF IsMock(kind) /\ Counts(call) THEN attempts + 1 ELSE attempts
    /\ attempts' <= 2  \* bound
    /\ \E outcome \in {IF Refused(kind, call) # Absent THEN Refused(kind, call) ELSE Outcome(call)} :
          Concludes(call, outcome, FALSE)
    /\ UNCHANGED failures

Asked == IF call = Absent \/ call.round > Len(RoundsOf(call)) THEN {}
         ELSE RoundsOf(call)[call.round] \ DOMAIN call.heard

\* A round is over: the next, unless it brought what ends the call.
Hears(question, reply) ==
    LET heard == [q \in DOMAIN call.heard \cup {question} |->
                    IF q = question THEN reply ELSE call.heard[q]]
        over == RoundsOf(call)[call.round] \subseteq DOMAIN heard
        ends == \/ \E q \in DOMAIN heard : heard[q].refused
                \/ "relation" \in DOMAIN heard /\ heard["relation"] = Said(FALSE)
    IN call' = [call EXCEPT !.heard = heard,
                            !.round = IF ~over THEN @
                                      ELSE IF ends THEN Len(RoundsOf(call)) + 1 ELSE @ + 1]

\* A page of a listing, and the next one by its token.
HearsPage(page) ==
    call' = [call EXCEPT !.nodes = @ \o page.names, !.token = page.token,
                         !.round = IF page.token = Absent THEN @ + 1 ELSE @]

Replied ==
    /\ \E question \in Asked : \E reply \in Replies(question) :
          IF question = "page" THEN HearsPage(reply.is) ELSE Hears(question, reply)
    /\ UNCHANGED <<kind, behaviour, attempts, relation, datasets, answer, seen, kept, changes, failures>>

\* Slip: what does not parse is an empty list, whichever page it was to be.
ForgivenAnywhere(c) == c.op = "children" /\ c.about = "catalog"

\* is_empty_dataset_list: an empty project answers what does not parse, so the first
\* page of the datasets is forgiven that; a later one has datasets in it.
Forgiven(c) == \/ c.op = "connect"
               \/ c.op = "children" /\ c.about = "catalog" /\ c.token = Absent

\* A question comes to nothing: the server or the network is in the way, or, of
\* BigQuery, the body does not parse.
Fails ==
    /\ failures < MaxFailures /\ changes + failures < MaxTroubles
    /\ failures' = failures + 1
    /\ \E question \in Asked, garbled \in BOOLEAN :
          /\ garbled => kind = "bigquery"
          /\ CASE garbled /\ Forgiven(call) ->
                    /\ IF call.op = "connect" THEN Concludes(call, Connected, TRUE)
                       ELSE Concludes(call, Branch(call.nodes), TRUE)
               [] question = "page" /\ ~(garbled /\ Forgiven(call)) ->
                    Concludes(call, Failed("Query", Absent), garbled)
               [] OTHER -> /\ Hears(question, Refusal(IF kind = "bigquery" THEN <<>> ELSE Absent))
                           /\ UNCHANGED <<kind, behaviour, relation, datasets, answer, seen, kept, changes>>
    /\ UNCHANGED attempts

\* Google has as long for the whole of a call, PostgreSQL for the handshake.
Deadline ==
    /\ call # Absent /\ Asked # {}
    /\ \/ kind = "bigquery"
       \/ kind = "postgres" /\ call.op = "connect" /\ call.round = 1
    /\ Concludes(call, Failed(IF call.op = "connect" THEN "Connect" ELSE "Query", Absent), FALSE)
    /\ UNCHANGED <<attempts, failures>>

\* Others, who change what a call is about.
Changes(r, ds) ==
    /\ ~IsMock(kind)
    /\ call # Absent /\ changes + failures < MaxTroubles
    /\ changes' = changes + 1
    /\ relation' = r /\ datasets' = ds
    /\ seen' = seen \cup {r}
    /\ kept' = kept \cap ds
    /\ UNCHANGED <<kind, behaviour, attempts, call, answer, failures>>

Alters ==
    /\ relation # Absent
    /\ \E r \in {[relation EXCEPT !.columns = Append(@, "more")],
                 [relation EXCEPT !.columns = Tail(@)],
                 [relation EXCEPT !.rows = @ - 1],
                 [relation EXCEPT !.constraints = @ \cup {"uq"}, !.indexes = @ \cup {"uq", "ix"}],
                 [relation EXCEPT !.parted = TRUE]} :
          /\ r.columns # <<>> /\ r.rows >= 0
          /\ Changes(r, datasets)
Drops == relation # Absent /\ Changes(Absent, datasets)
Grows == \E d \in ToSet(Datasets) \ datasets : Changes(relation, datasets \cup {d})
Shrinks == \E d \in datasets : Changes(relation, datasets \ {d})

DriversNext ==
    \/ \E c \in Askings : Start(c)
    \/ Settles
    \/ Replied
    \/ Fails
    \/ Deadline
    \/ Alters
    \/ Drops
    \/ Grows
    \/ Shrinks

DriversSpec == DriversInit /\ [][DriversNext]_driverVars

==============================================================================
