-------------------------------- MODULE MCGrid -------------------------------
(***************************************************************************)
(* A grid for TLC: columns that are narrower and wider than a pane, and the*)
(* places where its parts are drawn -- headers and their edges, cells, the *)
(* scrollbar and the splitter.                                             *)
(***************************************************************************)
EXTENDS Grid, TLC

TwoAnswers == [wide \in BOOLEAN |-> IF wide THEN 0 :> 1 @@ 1 :> 9 @@ 2 :> 4
                                    ELSE 0 :> 4 @@ 1 :> 3 @@ 2 :> 5]
SmallestScreen == [w |-> 16, h |-> 9]
ScreenSizes == {[w |-> 22, h |-> 10], [w |-> 17, h |-> 9], [w |-> 15, h |-> 9]}
Place(x, y) == [x |-> x, y |-> y]
SomePlaces == {Place(9, 2), Place(12, 2), Place(14, 2), Place(9, 3), Place(16, 5), Place(20, 3), Place(20, 7), Place(6, 4), Place(9, 4)}
SomeMoves == {Cmd("MoveCell", 1, 0), Cmd("MoveCell", 0, 1), Cmd("MoveCell", 0, -1), Cmd("Extend", -1, 0),
              Cmd("ScrollToEnd", 0, 0), Cmd("ScrollXBy", 1, 0), Cmd("ScrollToStart", 0, 0), Cmd("ToggleDetail", 0, 0)}

==============================================================================
