----------------------------- MODULE MCService ------------------------------
(***************************************************************************)
(* Instances of Service for TLC.                                            *)
(***************************************************************************)
EXTENDS Service, TLC

\* A schema with one relation in it.
OneSchema == [n \in {"root", "public", "users"} |->
                CASE n = "root" -> {"public"}
                  [] n = "public" -> {"users"}
                  [] OTHER -> {}]
OneSchemaPaths == [n \in {"public", "users"} |->
                     IF n = "public" THEN <<"public">> ELSE <<"public", "users">>]

\* A read that costs more than the budget, and one that does not.
DearRead == {[writes |-> FALSE, dear |-> TRUE]}
CheapRead == {[writes |-> FALSE, dear |-> FALSE]}

\* Callers are interchangeable.
ClientSymmetry == Permutations(Clients)

Request(op, item, flag) == [op |-> op, item |-> item, flag |-> flag]

Scene(requests, gestured, n, m) ==
    [asks |-> requests, gestures |-> gestured, maxAsks |-> n, maxGestures |-> m,
     late |-> FALSE, browsed |-> TRUE]

Previews == {Request("preview", "users", FALSE), Request("preview", "users", TRUE)}
Describes == {Request("describe", "users", TRUE)}
Queries == {Request("run", None, FALSE), Request("status", None, FALSE),
          Request("wait", None, FALSE), Request("cancel", None, FALSE)}
Estimates == {Request("estimate", None, FALSE)}
Browses == {Request("open", None, FALSE), Request("close", None, FALSE),
            Request("namespaces", None, FALSE),
            Request("children", "public", FALSE),
            Request("children", "users", FALSE),
            Request("preview", "public", FALSE),
            Request("preview", "users", FALSE)}

\* Two callers and a person: about one relation's rows, about its definition,
\* about statements, about what one would cost while the session is ending,
\* and about what there is.
Together == {
    Scene(Previews, {"Sort", "Cancel", "ForgetPreview"}, 2, 1),
    Scene(Describes, {"Describe", "Cancel"}, 2, 1),
    Scene(Queries, {"Forget"}, 2, 1),
    [Scene(Estimates, {"Disconnect", "Quit"}, 1, 1) EXCEPT !.late = TRUE],
    [Scene(Browses, {"Toggle", "Quit"}, 2, 1) EXCEPT !.browsed = FALSE]}

\* A caller and a person who does several things meanwhile.
Meanwhile == {
    Scene(Previews, {"Sort", "LoadMore", "Cancel", "ForgetPreview"}, 1, 1),
    Scene(Describes, {"Describe", "Cancel"}, 1, 1),
    Scene({Request("run", None, FALSE)}, {"Approve", "Cancel"}, 1, 1),
    Scene(Estimates, {"Forget"}, 1, 1),
    [Scene(Estimates, {"Disconnect", "Quit"}, 1, 2) EXCEPT !.late = TRUE],
    [Scene(Browses, {"Toggle", "Quit"}, 1, 2) EXCEPT !.browsed = FALSE],
    Scene({Request("history", "a", FALSE)}, {"Search", "Cancel"}, 1, 2),
    Scene({Request("templates", None, FALSE)}, {"Save", "Cancel"}, 1, 1),
    Scene({Request("apply", "t", FALSE)}, {"Save", "Disconnect"}, 1, 1)}

=============================================================================
