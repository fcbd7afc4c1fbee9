------------------------------- MODULE Values --------------------------------
(***************************************************************************)
(* What becomes of a value on its way from a server to whoever asked over  *)
(* the API (value.rs of both drivers, sqlake-core value.rs, pages.rs,      *)
(* json.rs and sqlake-api page.rs): the wire's form of it, the Value a     *)
(* driver decodes, the page it is kept on, and the JSON it is told as.     *)
(*                                                                         *)
(* A value of any of these is a function with one key, which says what it  *)
(* is.  Digits are kept as digits.  A group of a numeric has GroupDigits of*)
(* them for four, an instant has SubDigits after its point for nine, and a *)
(* double is exact to ExactInt for 2^53 - 1.  Left out: how a date or a    *)
(* UUID is spelled, floats that are neither whole nor infinite, and the    *)
(* names inside a record.                                                  *)
(***************************************************************************)
EXTENDS Integers, SequencesExt, FiniteSetsExt, Options, TLC

CONSTANTS
    GroupDigits,  \* digits in a group of a PostgreSQL numeric: 4
    SubDigits,    \* digits of an instant after the point: 9
    ExactInt,     \* json.rs EXACT_INT
    DayTicks,     \* ticks in a day
    Instants,     \* the instants the time crate can hold
    Eras,         \* those of them whose year has four digits
    Holdings,     \* [server, field, holds]: the values that are tried
    PageRows,     \* rows of a page
    Budgets       \* [rows, columns]: what a caller can be shown

VARIABLES
    held,     \* [server, field, holds, sent]: what the relation has in its column
    altered,  \* the relation's columns were changed under it
    result    \* PagedResult, or Absent

valuesVars == <<held, altered, result>>

Is(value, kind) == kind \in DOMAIN value
Nil == "null" :> TRUE

Pow(n) == 10 ^ n
DigitsOf(n, width) == [i \in 1 .. width |-> (n \div Pow(width - i)) % 10]
NumberOf(digits) == FoldLeft(LAMBDA n, d : n * 10 + d, 0, digits)
Zeros(n) == [i \in 1 .. n |-> 0]

\* Written without leading zeros.
PlainDigits(n) ==
    DigitsOf(n, CHOOSE k \in 1 .. 9 : n < Pow(k) /\ (k = 1 \/ n >= Pow(k - 1)))

Decimal(negative, whole, fraction) ==
    "decimal" :> [negative |-> negative, whole |-> whole, fraction |-> fraction]

------------------------------------------------------------------------------
(* PostgreSQL: a type, and the bytes it declares.  Of the bytes, what they *)
(* read as is kept (Absent when the type cannot be read from them), and    *)
(* what characters they are: letters, line breaks, control characters or no*)
(* UTF-8.                                                                  *)

\* What numeric_send makes of a number: groups, without the zero ones around.
NumericSent(number) ==
    LET whole == Zeros((-Len(number.whole)) % GroupDigits) \o number.whole
        all == whole \o number.fraction \o Zeros((-Len(number.fraction)) % GroupDigits)
        group(g) == NumberOf(SubSeq(all, (g - 1) * GroupDigits + 1, g * GroupDigits))
        kept == {g \in 1 .. Len(all) \div GroupDigits : group(g) # 0}
    IN [digits |-> IF kept = {} THEN <<>>
                   ELSE [i \in 1 .. Max(kept) - Min(kept) + 1 |-> group(Min(kept) + i - 1)],
        weight |-> IF kept = {} THEN 0 ELSE Len(whole) \div GroupDigits - Min(kept),
        sign |-> IF number.negative THEN "Negative" ELSE "Positive",
        dscale |-> Len(number.fraction)]

\* Slip: the groups of a number below one are read from the first.
GroupOrFirst(sent, g) ==
    IF g + 1 \in DOMAIN sent.digits THEN sent.digits[g + 1]
    ELSE IF g < 0 /\ sent.digits # <<>> THEN sent.digits[1] ELSE 0

\* A group that was not sent reads as zeros.
Group(sent, g) == IF g + 1 \in DOMAIN sent.digits THEN sent.digits[g + 1] ELSE 0

\* numeric
Numeric(sent) ==
    LET padded(from, to) ==
            FlattenSeq([i \in 1 .. to - from + 1 |-> DigitsOf(Group(sent, from + i - 1), GroupDigits)])
        groups == (sent.dscale + GroupDigits - 1) \div GroupDigits
    IN Decimal(sent.sign = "Negative",
               IF sent.weight < 0 THEN <<0>>
               ELSE PlainDigits(Group(sent, 0)) \o padded(1, sent.weight),
               SubSeq(padded(sent.weight + 1, sent.weight + groups), 1, sent.dscale))

\* decode: Absent is "not a type this driver decodes".
PgRead(type, reads) ==
    CASE reads = Absent -> Absent
      [] type \in {"bool", "int", "float", "text", "bytes", "date"} -> type :> reads
      [] type = "numeric" ->
            IF reads.sign = "NaN" THEN "decimal" :> [special |-> "NaN"] ELSE Numeric(reads)
      [] type = "json" -> "json" :> reads.document
      [] type = "jsonb" /\ reads.version = 1 -> "json" :> reads.document
      [] type = "time" /\ reads < DayTicks -> "time" :> reads
      [] type \in {"timestamp", "timestamptz"} /\ reads \in Instants -> type :> reads
      [] OTHER -> Absent

\* is_unprintable
Unreadable == {"control", "not UTF-8"}

\* RawValue::opaque: as text only what can be read as text.
Undecoded(type, raw) ==
    "opaque" :> [type |-> type, raw |-> raw,
                 hex |-> \E i \in DOMAIN raw : raw[i] \in Unreadable]

\* RawValue::decode
PgDecode(cell, field) ==
    IF cell = Absent THEN Nil
    ELSE OrElse(PgRead(field.type, cell.reads), Undecoded(field.type, cell.raw))

------------------------------------------------------------------------------
(* BigQuery: text inside JSON, read as the type the schema names.  A JSON  *)
(* cell is a string, a list of cells, a row of cells, or something else.   *)

\* nanos_since_epoch, of [negative, whole, fraction, exponent].
NanosOf(text) ==
    LET digits == NumberOf(text.whole \o text.fraction)
        shift == SubDigits - Len(text.fraction) + text.exponent
        nanos == IF shift >= 0 THEN digits * Pow(shift) ELSE digits \div Pow(-shift)
    IN IF text.negative THEN -nanos ELSE nanos

\* A cell that did not decode, as the text it arrived as.
OpaqueText(field, cell) == "opaque" :> [type |-> field.type, raw |-> cell, hex |-> FALSE]

\* scalar, of a string: a type reads what was written of it, and nothing else.
ReadAs(field, text) ==
    CASE field.type = "text" /\ Is(text, "text") -> text
      [] field.type \in {"int", "float", "bool", "bytes", "date", "time", "timestamp", "json"}
            /\ Is(text, field.type) -> text
      [] field.type = "numeric" /\ Is(text, "decimal") -> text
      [] field.type = "timestamptz" /\ Is(text, "seconds") ->
            IF NanosOf(text["seconds"]) \in Instants
            THEN "timestamptz" :> NanosOf(text["seconds"])
            ELSE OpaqueText(field, text)
      [] OTHER -> OpaqueText(field, text)

RECURSIVE BqDecode(_, _), BqScalar(_, _)

\* scalar and record: a record is walked over its schema, whatever was sent of it.
BqScalar(cell, field) ==
    CASE cell = Absent -> Nil
      [] cell # Absent /\ field.type = "record" ->
            IF ~Is(cell, "row") THEN OpaqueText(field, cell)
            ELSE "struct" :> [i \in DOMAIN field.fields |->
                                BqDecode(Get(cell["row"], i), field.fields[i])]
      [] cell # Absent /\ field.type # "record" ->
            IF Is(cell, "string") THEN ReadAs(field, cell["string"]) ELSE OpaqueText(field, cell)

\* decode and array: the mode decides the shape, before the type.
BqDecode(cell, field) ==
    IF cell = Absent \/ ~field.repeated THEN BqScalar(cell, field)
    ELSE IF ~Is(cell, "list") THEN OpaqueText(field, cell)
    ELSE "array" :> [i \in DOMAIN cell["list"] |->
                       BqScalar(cell["list"][i], [field EXCEPT !.repeated = FALSE])]

\* All that BigQuery can send for a value: a number of seconds with its point
\* anywhere, and a record without its last cells when they are null.
RECURSIVE BqSends(_, _)
BqSends(field, holds) ==
    CASE Is(holds, "null") -> {Absent}
      [] Is(holds, "array") ->
            {"list" :> cells :
               cells \in {[i \in DOMAIN holds["array"] |->
                             CHOOSE c \in BqSends([field EXCEPT !.repeated = FALSE],
                                                  holds["array"][i]) : TRUE]}}
      [] Is(holds, "struct") ->
            LET cells == [i \in DOMAIN holds["struct"] |->
                            CHOOSE c \in BqSends(field.fields[i], holds["struct"][i]) : TRUE]
            IN {"row" :> SubSeq(cells, 1, n) :
                  n \in {n \in 0 .. Len(cells) : \A i \in n + 1 .. Len(cells) : cells[i] = Absent}}
      [] Is(holds, "timestamptz") ->
            LET n == holds["timestamptz"]
                digits == PlainDigits((IF n < 0 THEN -n ELSE n) \div Pow(1))
                kept == SubDigits - 1
                written(after, more) ==
                    LET all == Zeros(Max({after + 1 - Len(digits) - more, 0})) \o digits \o Zeros(more)
                    IN [negative |-> n < 0, exponent |-> after - kept - more,
                        whole |-> SubSeq(all, 1, Len(all) - after),
                        fraction |-> SubSeq(all, Len(all) - after + 1, Len(all))]
            IN {"string" :> ("seconds" :> written(after, more)) : after \in 0 .. 5, more \in 0 .. 2}
      [] OTHER -> {"string" :> holds}

------------------------------------------------------------------------------
(* The page a value is kept on, and what is told of it.                    *)

\* PagedResult::row: its pages are walked.
RowAt(paged, r) ==
    LET before(p) == FoldLeft(LAMBDA n, page : n + Len(page), 0, SubSeq(paged.pages, 1, p - 1))
        p == CHOOSE p \in DOMAIN paged.pages :
               before(p) < r /\ r <= before(p) + Len(paged.pages[p])
    IN paged.pages[p][r - before(p)]

\* append: not when the two disagree about their columns, and no empty page.
PagesJoined(paged, columns, page) ==
    IF paged.columns # columns THEN Absent
    ELSE [paged EXCEPT !.rows = @ + Len(page),
                       !.pages = IF page = <<>> THEN @ ELSE Append(@, page)]

\* int: wrapped only past the point where a double stops being exact.
ToldInt(n) == IF n \in -ExactInt .. ExactInt THEN "number" :> n ELSE "$int" :> n

\* to_json: what JSON cannot hold becomes an object with one key.
RECURSIVE ToJson(_)
ToJson(value) ==
    CASE Is(value, "int") -> ToldInt(value["int"])
      [] Is(value, "float") ->
            IF value["float"] = "Infinity" THEN "$float" :> "Infinity" ELSE "number" :> value["float"]
      [] Is(value, "bytes") -> "$base64" :> value["bytes"]
      [] Is(value, "timestamptz") ->
            IF value["timestamptz"] \in Eras THEN "string" :> value ELSE "$error" :> "year"
      [] Is(value, "array") -> "array" :> [i \in DOMAIN value["array"] |-> ToJson(value["array"][i])]
      [] Is(value, "struct") -> "object" :> [i \in DOMAIN value["struct"] |-> ToJson(value["struct"][i])]
      [] Is(value, "opaque") -> "$opaque" :> value["opaque"]
      [] Is(value, "null") \/ Is(value, "bool") \/ Is(value, "json") -> value
      [] OTHER -> "string" :> value

\* Page::of
PageOf(paged, budget) ==
    LET kept == Min({Len(paged.columns), budget.columns})
        returned == Min({paged.rows, budget.rows})
    IN [columns |-> SubSeq(paged.columns, 1, kept),
        omitted |-> SubSeq(paged.columns, kept + 1, Len(paged.columns)),
        rows |-> [r \in 1 .. returned |-> [c \in 1 .. kept |-> ToJson(RowAt(paged, r)[c])]],
        returned |-> returned,
        loaded |-> paged.rows,
        truncated |-> returned < paged.rows]

------------------------------------------------------------------------------
(* A relation of three rows: a number, the value that is tried, and nothing*)
(* on the second row.                                                      *)

ColumnsNow == IF altered THEN <<"n", "other">> ELSE <<"n", "value">>
HeldRows == <<<<"int" :> 1, held.holds>>, <<"int" :> 2, Nil>>, <<"int" :> 3, held.holds>>>>

Cell(r) == IF r = 2 THEN Absent ELSE held.sent
DecodedRow(r) ==
    <<"int" :> r, IF held.server = "postgres" THEN PgDecode(Cell(r), held.field)
                  ELSE BqDecode(Cell(r), held.field)>>

ValuesInit ==
    /\ \E h \in Holdings :
          \E sent \in IF h.server = "bigquery" THEN BqSends(h.field, h.holds) ELSE {h.sent} :
             held = [server |-> h.server, field |-> h.field, holds |-> h.holds, sent |-> sent]
    /\ altered = FALSE
    /\ result = Absent

\* PagedResult::new, and append after it.  A page past the end is empty.
PageArrives ==
    LET from == IF result = Absent THEN 0 ELSE result.rows
        page == [i \in 1 .. Min({PageRows, 3 - from}) |-> DecodedRow(from + i)]
    IN /\ result' = IF result = Absent
                    THEN [columns |-> ColumnsNow, pages |-> <<page>>, rows |-> Len(page)]
                    ELSE OrElse(PagesJoined(result, ColumnsNow, page), result)
       /\ UNCHANGED <<held, altered>>

RelationAlters == ~altered /\ altered' = TRUE /\ UNCHANGED <<held, result>>

ValuesNext == PageArrives \/ RelationAlters

ValuesSpec == ValuesInit /\ [][ValuesNext]_valuesVars

------------------------------------------------------------------------------
(* What must hold.                                                         *)

\* What somebody who knows a column's type reads in a cell of it.
RECURSIVE Reader(_, _)
Reader(told, field) ==
    CASE Is(told, "number") -> (IF field.type = "float" THEN "float" ELSE "int") :> told["number"]
      [] Is(told, "$int") -> "int" :> told["$int"]
      [] Is(told, "$float") -> "float" :> told["$float"]
      [] Is(told, "$base64") -> "bytes" :> told["$base64"]
      [] Is(told, "string") -> told["string"]
      [] Is(told, "array") ->
            "array" :> [i \in DOMAIN told["array"] |->
                          Reader(told["array"][i], [field EXCEPT !.repeated = FALSE])]
      [] Is(told, "object") ->
            "struct" :> [i \in DOMAIN told["object"] |-> Reader(told["object"][i], field.fields[i])]
      [] OTHER -> told

\* What nothing on the way can hold: told as a marker, with all that was sent of it.
Marked(told) ==
    \/ /\ Is(told, "$opaque")
       /\ Is(held.holds, "unheld")
       /\ LET sent == told["$opaque"]
          IN IF held.server = "postgres"
             THEN /\ sent.raw = held.sent.raw
                  /\ sent.hex <=> \E i \in DOMAIN sent.raw : sent.raw[i] \in Unreadable
             ELSE sent.raw = held.sent["string"]
    \/ /\ Is(told, "$error")
       /\ Is(held.holds, "timestamptz")
       /\ held.holds["timestamptz"] \notin Eras

(* Nothing is misread: on any page that is told, every cell reads back as  *)
(* what the server holds at that row and column, or is marked as what could*)
(* not be held; and what is not on the page is said to be missing          *)
(* (value.rs, json.rs, page.rs: "never left to be inferred").  The rows    *)
(* stay those of their columns when the relation is altered between two    *)
(* pages.                                                                  *)
NothingIsMisread ==
    result # Absent =>
       \A budget \in Budgets :
          LET page == PageOf(result, budget)
          IN /\ page.columns \o page.omitted = result.columns
             /\ page.truncated <=> page.returned < result.rows
             /\ \A r \in 1 .. page.returned, c \in DOMAIN page.columns :
                   LET told == page.rows[r][c]
                   IN \/ c = 1 /\ told = ToldInt(r)
                      \/ c = 2 /\ Reader(told, held.field) = HeldRows[r][c]
                      \/ c = 2 /\ r # 2 /\ Marked(told)

==============================================================================
