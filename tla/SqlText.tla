------------------------------- MODULE SqlText -------------------------------
(***************************************************************************)
(* What somebody typed, read as statements (sqlake-core/src/sql.rs: scan,  *)
(* statement_spans, ValidatedSql, Position), and as a template that is     *)
(* filled in (template.rs, ident.rs, literal.rs).                          *)
(*                                                                         *)
(* A text is a sequence of characters.  A placeholder is one of them, and  *)
(* so is each word that the classifier tells apart.                        *)
(***************************************************************************)
EXTENDS Integers, SequencesExt, Options

CONSTANTS
  Characters,  \* what can be typed
  Values,      \* what a placeholder can be filled with
  MaxLength    \* characters in a text

Dialects == {[escaping |-> "None", quoted |-> "\""], [escaping |-> "Backslash", quoted |-> "tick"]}

Blanks == {" ", "\n"}
\* A space that is not ASCII: str::trim takes it away, the scanner reads it as code.
WideSpace == "nbsp"
Quotes == {"'", "\"", "tick"}
Readers == {"select"}
Writers == {"insert"}
Letters == Readers \cup Writers \cup {"a"}

\* A placeholder as it is written: what it stands for, and its name.
HoleKind == [c \in {"{{x}}", "{{y}}", "{{ident:x}}", "{{oops:x}}"} |->
               CASE c \in {"{{x}}", "{{y}}"} -> "value" [] c = "{{ident:x}}" -> "ident" [] OTHER -> Absent]
HoleName == [c \in DOMAIN HoleKind |-> IF c = "{{y}}" THEN "y" ELSE "x"]
IsHole(c) == c \in DOMAIN HoleKind

At(text, i) == IF i \in 1 .. Len(text) THEN text[i] ELSE Absent
Slice(text, from, upto) == SubSeq(text, from, upto - 1)

\* The first of these places, or Absent.
First(places) == IF places = {} THEN Absent ELSE CHOOSE p \in places : \A q \in places : p <= q

------------------------------------------------------------------------------
(* The scanner.  A token is where it starts, the place after it and what it*)
(* is; one that never ends is where the walk stops.                        *)

\* Slip: a backslash is a character like any other.
QuoteEndPlain(text, escaping, i) ==
    LET quote == text[i]
        end[j \in i + 1 .. Len(text) + 2] ==
            IF j > Len(text) THEN Absent
            ELSE IF text[j] # quote THEN end[j + 1]
            ELSE IF At(text, j + 1) = quote THEN end[j + 2]
            ELSE j + 1
    IN end[i + 1]

\* The place after the literal opened at i.  A doubled quote goes on.
QuoteEnd(text, escaping, i) ==
    LET quote == text[i]
        end[j \in i + 1 .. Len(text) + 2] ==
            IF j > Len(text) THEN Absent
            ELSE IF escaping = "Backslash" /\ text[j] = "\\" /\ j < Len(text) THEN end[j + 2]
            ELSE IF text[j] # quote THEN end[j + 1]
            ELSE IF At(text, j + 1) = quote THEN end[j + 2]
            ELSE j + 1
    IN end[i + 1]

LineEnd(text, i) ==
    LET at == First({j \in i .. Len(text) : text[j] = "\n"})
    IN IF at = Absent THEN Len(text) + 1 ELSE at + 1

\* The place after the first occurrence of these characters from i on.
After(text, part, i) ==
    LET at == First({j \in i .. Len(text) - Len(part) + 1 : Slice(text, j, j + Len(part)) = part})
    IN IF at = Absent THEN Absent ELSE at + Len(part)

\* The $tag$ that opens at i: the place after it.
DollarTag(text, i) ==
    LET at == First({j \in i + 1 .. Len(text) : text[j] = "$"})
    IN IF at # Absent /\ \A j \in i + 1 .. at - 1 : text[j] \in Letters \/ (text[j] = "1" /\ j > i + 1)
       THEN at + 1 ELSE Absent

WordEnd(text, i) ==
    LET at == First({j \in i .. Len(text) : text[j] \notin Letters \cup {"1"}})
    IN IF at = Absent THEN Len(text) + 1 ELSE at

Token(what, start, end) == [what |-> what, start |-> start, end |-> end]

TokenAt(text, escaping, i) ==
    LET c == text[i]
        tag == DollarTag(text, i)
    IN CASE c \in Quotes -> Token("Quoted", i, QuoteEnd(text, escaping, i))
         [] c = "-" /\ At(text, i + 1) = "-" -> Token("Comment", i, LineEnd(text, i))
         [] c = "/" /\ At(text, i + 1) = "*" -> Token("Comment", i, After(text, <<"*", "/">>, i + 2))
         [] c = "$" /\ tag # Absent -> Token("Quoted", i, After(text, Slice(text, i, tag), tag))
         [] c = ";" -> Token("Semicolon", i, i + 1)
         [] c \in Letters -> Token("Word", i, WordEnd(text, i))
         [] c \in Blanks -> Token("Blank", i, i + 1)
         [] OTHER -> Token("Code", i, i + 1)

Scan(text, escaping) ==
    LET tokens[i \in 1 .. Len(text) + 1] ==
            IF i > Len(text) THEN <<>>
            ELSE LET token == TokenAt(text, escaping, i)
                 IN <<token>> \o IF token.end = Absent THEN <<>> ELSE tokens[token.end]
    IN tokens[1]

Unterminated(tokens) == tokens # <<>> /\ Last(tokens).end = Absent

------------------------------------------------------------------------------
(* Statements.                                                             *)

\* From just after the boundary before to the semicolon, wherever there is code.
StatementSpans(text, tokens) ==
    LET Step(acc, token) ==
            CASE token.what = "Semicolon" ->
                   [start |-> token.end, code |-> FALSE,
                    spans |-> IF acc.code THEN Append(acc.spans, <<acc.start, token.start>>)
                              ELSE acc.spans]
              [] token.what \in {"Code", "Word", "Quoted"} -> [acc EXCEPT !.code = TRUE]
              [] OTHER -> acc
        scanned == FoldLeft(Step, [start |-> 1, code |-> FALSE, spans |-> <<>>], tokens)
    IN IF scanned.code THEN Append(scanned.spans, <<scanned.start, Len(text) + 1>>)
       ELSE scanned.spans

\* Where the character after a text is.
AfterText(text) ==
    FoldLeft(LAMBDA at, c : IF c = "\n" THEN [line |-> at.line + 1, column |-> 1]
                            ELSE [at EXCEPT !.column = @ + 1],
             [line |-> 1, column |-> 1], text)

Trimmed(text, span) ==
    LET solid == {i \in span[1] .. span[2] - 1 : text[i] \notin Blanks \cup {WideSpace}}
    IN IF solid = {} THEN <<span[2], span[2]>>
       ELSE <<First(solid), 1 + CHOOSE i \in solid : \A j \in solid : j <= i>>

\* ValidatedSql::parse: one statement and where it starts, or why not.
Parse(text, escaping) ==
    LET tokens == Scan(text, escaping)
        spans == StatementSpans(text, tokens)
    IN CASE Unterminated(tokens) -> [tag |-> "Unterminated"]
         [] ~Unterminated(tokens) /\ Len(spans) = 0 -> [tag |-> "Empty"]
         [] ~Unterminated(tokens) /\ Len(spans) > 1 -> [tag |-> "Several"]
         [] OTHER -> LET kept == Trimmed(text, spans[1])
                     IN [tag |-> "Statement", text |-> Slice(text, kept[1], kept[2]), from |-> kept[1],
                         escaping |-> escaping, start |-> AfterText(SubSeq(text, 1, kept[1] - 1))]

Words(text, escaping) ==
    LET words == SelectSeq(Scan(text, escaping), LAMBDA token : token.what = "Word")
    IN [i \in 1 .. Len(words) |-> Slice(text, words[i].start, words[i].end)]

\* A keyword check: a read opens with one of a few words and holds none of others.
StatementKind(text, escaping) ==
    LET words == Words(text, escaping)
    IN IF /\ words # <<>>
          /\ Head(words) \in {<<w>> : w \in Readers}
          /\ \A i \in 2 .. Len(words) : words[i] \notin {<<w>> : w \in Writers}
       THEN "Reads" ELSE "Writes"

\* Position::of_offset: a place in the statement, counted from one.
OfOffset(text, offset) ==
    IF offset \in 1 .. Len(text) THEN AfterText(SubSeq(text, 1, offset - 1)) ELSE Absent

\* Slip: a statement that does not open its line.
InSourceOfLine(sql, at) == [line |-> sql.start.line + at.line - 1, column |-> at.column]

InSource(sql, at) ==
    IF at.line = 1
    THEN [line |-> sql.start.line, column |-> sql.start.column + at.column - 1]
    ELSE [line |-> sql.start.line + at.line - 1, column |-> at.column]

------------------------------------------------------------------------------
(* Templates.                                                              *)

\* Every c of a text written as this instead.
Replaced(text, c, by) == FlattenSeq([i \in 1 .. Len(text) |-> IF text[i] = c THEN by ELSE <<text[i]>>])

\* Slip: only the quote is doubled, whatever the server reads.
QuotedValuePlain(value, dialect) == <<"'">> \o Replaced(value, "'", <<"'", "'">>) \o <<"'">>

\* Literal::quote.
QuotedValue(value, dialect) ==
    LET escaped == IF dialect.escaping = "Backslash" THEN Replaced(value, "\\", <<"\\", "\\">>) ELSE value
    IN <<"'">> \o Replaced(escaped, "'", <<"'", "'">>) \o <<"'">>

\* Ident::quote.
QuotedIdent(value, dialect) ==
    IF dialect.quoted = "\""
    THEN <<"\"">> \o Replaced(value, "\"", <<"\"", "\"">>) \o <<"\"">>
    ELSE <<"tick">> \o Replaced(Replaced(value, "\\", <<"\\", "\\">>), "tick", <<"\\", "tick">>) \o <<"tick">>

\* What the scanner stepped over at a place.
Inside(tokens, i) ==
    LET over == {t \in ToSet(tokens) : t.what \in {"Quoted", "Comment"} /\ i \in t.start .. t.end - 1}
    IN IF over = {} THEN Absent ELSE (CHOOSE t \in over : TRUE).what

\* The places that are filled in.
Found(text, tokens) == {i \in 1 .. Len(text) : IsHole(text[i]) /\ Inside(tokens, i) = Absent}

Fault(text, tokens, i) ==
    CASE Inside(tokens, i) = "Quoted" -> "InLiteral"
      [] Inside(tokens, i) = "Comment" -> Absent
      [] OTHER -> IF HoleKind[text[i]] = Absent THEN "UnknownKind"
                  ELSE IF \E j \in Found(text, tokens) :
                             /\ j < i /\ HoleName[text[j]] = HoleName[text[i]]
                             /\ HoleKind[text[j]] # HoleKind[text[i]]
                  THEN "TwoKinds" ELSE Absent

\* parse and BoundTemplate::bind: the text with every placeholder filled in, or why not.
Bind(text, values, dialect) ==
    LET tokens == Scan(text, dialect.escaping)
        found == Found(text, tokens)
        faults == {i \in 1 .. Len(text) : IsHole(text[i]) /\ Fault(text, tokens, i) # Absent}
        names == {HoleName[text[i]] : i \in found}
        Filled(i) == IF i \notin found THEN <<text[i]>>
                     ELSE IF HoleKind[text[i]] = "value" THEN QuotedValue(values[HoleName[text[i]]], dialect)
                     ELSE QuotedIdent(values[HoleName[text[i]]], dialect)
    IN IF Unterminated(tokens) THEN [tag |-> "Body"]
       ELSE IF faults # {} THEN [tag |-> Fault(text, tokens, First(faults))]
       ELSE IF ~(DOMAIN values \subseteq names) THEN [tag |-> "Unwanted"]
       ELSE IF ~(names \subseteq DOMAIN values) THEN [tag |-> "Missing"]
       ELSE [tag |-> "Bound", text |-> FlattenSeq([i \in 1 .. Len(text) |-> Filled(i)])]

------------------------------------------------------------------------------
(* Somebody types.                                                         *)

VARIABLES typed, server
textVars == <<typed, server>>

TextInit == typed = <<>> /\ server \in Dialects

Types(c) ==
    /\ Len(typed) < MaxLength
    /\ typed' = Append(typed, c)
    /\ UNCHANGED server

TextNext == \E c \in Characters : Types(c)

TextSpec == TextInit /\ [][TextNext]_textVars

------------------------------------------------------------------------------
\* Filling in a template changes nothing but its placeholders: whatever the values
\* are, the text has the statements it was written with, and is the same kind of
\* statement (template.rs: "a template is not a second way into the database").
FillingKeepsTheStatement ==
    LET escaping == server.escaping
        tokens == Scan(typed, escaping)
        names == IF Unterminated(tokens) THEN {} ELSE {HoleName[typed[i]] : i \in Found(typed, tokens)}
    IN \A values \in [names -> Values] :
          LET bound == Bind(typed, values, server)
          IN bound.tag = "Bound" =>
                LET filled == Scan(bound.text, escaping)
                IN /\ ~Unterminated(filled)
                   /\ Len(StatementSpans(bound.text, filled)) = Len(StatementSpans(typed, tokens))
                   /\ Words(bound.text, escaping) = Words(typed, escaping)

\* What is sent is one statement, read again as it was read first; and a place the
\* server reports in it is marked on the character it means, whatever was dropped
\* before it (sql.rs in_source).  A text of nothing but wide spaces is let through
\* as an empty statement, and is the one exception.
ErrorsLandWhereTheyAre ==
    LET sql == Parse(typed, server.escaping)
    IN sql.tag = "Statement" /\ sql.text # <<>> =>
          /\ Parse(sql.text, sql.escaping).tag = "Statement"
          /\ StatementKind(sql.text, sql.escaping) = StatementKind(typed, sql.escaping)
          /\ \A offset \in 1 .. Len(sql.text) :
                InSource(sql, OfOffset(sql.text, offset))
                  = AfterText(SubSeq(typed, 1, sql.from + offset - 2))

\* A text is read, filled in, sent and pointed into as what was written.
TextIsReadAsWritten == FillingKeepsTheStatement /\ ErrorsLandWhereTheyAre

==============================================================================
