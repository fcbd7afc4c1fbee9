----------------------------- MODULE MCFrontend ------------------------------
(***************************************************************************)
(* Instances of Frontend for TLC.                                           *)
(***************************************************************************)
EXTENDS Frontend, TLC

\* Two schemas, one with a relation in it.
TwoSchemas == [n \in {"root", "public", "users", "sales"} |->
                 CASE n = "root" -> {"public", "sales"}
                   [] n = "public" -> {"users"}
                   [] OTHER -> {}]
TwoSchemasPaths == [n \in {"public", "users", "sales"} |->
                      IF n = "users" THEN <<"public", "users">> ELSE <<n>>]
TwoSchemasNodes == <<"public", "users", "sales">>

Labels == [n \in {"public", "users", "sales", "t", "a"} |->
             CASE n = "public" -> <<"p">>
               [] n = "users" -> <<"u">>
               [] n = "sales" -> <<"s">>
               [] n = "a" -> <<"a">>
               [] OTHER -> <<"t">>]

CONSTANTS c1, q1, q2
TheConn == <<c1>>
TwoQueries == <<q1, q2>>

CheapAndDear == {[writes |-> FALSE, dear |-> d] : d \in BOOLEAN}

\* What a history search may be for.
Words == {<<>>, <<"u">>}

Cheap == [writes |-> FALSE, dear |-> FALSE]
Dear == [writes |-> FALSE, dear |-> TRUE]
Wrote(statement) == [outcome |-> "Changed", text |-> statement]

\* A tab with a statement in it.
Begun(statement) == <<Press(Key("n"), None), Press(Key("e"), Wrote(statement))>>

\* The selection on the i-th row of the tree.
Down(i) == [k \in 1 .. i |-> Press(Key("Down"), None)]

Scene(before, keys, clicks, n) ==
    [before |-> before, keys |-> keys, clicks |-> clicks, edits |-> {}, presses |-> n,
     burst |-> 1, outside |-> FALSE, agent |-> FALSE, patient |-> FALSE,
     saved |-> {}, sortable |-> FALSE]

Patient(s) == [s EXCEPT !.patient = TRUE]

\* Statements run, run again and put away while their connection may go.
Running == [Scene(Begun(Cheap), {Key("n"), Key("r"), Key("]"), Ctrl("w"), Key("D")}, {}, 4)
              EXCEPT !.outside = TRUE]

\* Relations opened, paged and closed.
Browsing == [Scene(Down(3), {Key("Enter"), Key("Tab"), Key("G"), Key("s"), Key("n"),
                             Ctrl("w"), Ctrl("g"), Key("D")}, {"TabClose"}, 4)
               EXCEPT !.sortable = TRUE]

\* Two keys at a time, before the screen shows what the first one did.
Hasty == [Scene(Begun(Cheap), {Key("n"), Key("r"), Key("]"), Ctrl("w")}, {}, 3)
             EXCEPT !.burst = 2]

\* A question that costs money.
Costly == Scene(Begun(Dear), {Key("r"), Key("Enter"), Key("Esc"), Key("n")}, {}, 4)

\* The same, with an agent asking questions of its own.
Attended == [Costly EXCEPT !.agent = TRUE, !.presses = 2]

\* Statements saved, used, replaced and deleted.
Saving == [Patient(Scene(Begun(Dear),
                         {Ctrl("p"), Ctrl("s"), Key("t"), Key("Enter"), Ctrl("d")}, {}, 6))
             EXCEPT !.saved = Saved]

\* Old runs searched for and used again.
Searching == Patient(Scene(<<>>, {Ctrl("r"), Key("u"), Key("Enter"), Key("Esc")}, {}, 6))

\* The tree searched, opened and closed.
Filtering == Patient(Scene(Down(3), {Key("/"), Key("s"), Key("Backspace"), Key("Down"),
                                     Key(" "), Key("d"), Ctrl("w")}, {"TreeRow"}, 5))

\* Rows gone through, selected, sorted and clicked.
Reading == [Patient(Scene(Down(3), {Key("Enter"), Key("Tab"), Key("J"), Shifted("Down"),
                                    Key("."), Key("Home"), Key("m")},
                          {"GridHeader", "Toast", "Tab", "TreeRow"}, 5))
              EXCEPT !.sortable = TRUE]

\* Rows pointed at, selected and copied.
Pointing == [Patient(Scene(Down(3), {Key("Enter"), Key("y"), Shifted("Down")},
                           {"GridCell", "Pane", "MenuItem"}, 4))
               EXCEPT !.sortable = TRUE]

FrontScenes == {Running, Browsing, Hasty, Costly, Attended}
PaletteScenes == {Saving, Searching, Filtering, Reading, Pointing}
AttendedScenes == {Attended}

=============================================================================
