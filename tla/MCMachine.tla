----------------------------- MODULE MCMachine -------------------------------
(***************************************************************************)
(* Instances of Machine for TLC: who is started in a scene and what is asked, *)
(* the file the library is found in, whether it can be opened, and whether    *)
(* anything is killed.                                                        *)
(***************************************************************************)
EXTENDS Machine, TLC

CONSTANTS s1, s2, a1, a2, a3, m1

VARIABLE scene

\* Two sessions and a command at one path.
Path == [started |-> {s1, s2, a1}, kinds |-> {"ConnectionList"}, profiles |-> {None},
         found |-> {Latest}, saves |-> FALSE, used |-> FALSE, mortal |-> {s1}]

\* Three processes at one library, of this build, an older or a newer one.
Migration == [started |-> {a1, a2, a3}, kinds |-> {"HistorySearch"}, profiles |-> {None},
              found |-> 0 .. Latest + 1, saves |-> TRUE, used |-> FALSE, mortal |-> {a1, a2, a3}]

\* A session, or none, and a command.
Command == [started |-> {s1, a1}, kinds |-> {"HistorySearch", "ConnectionOpen", "ConnectionClose",
                                             "TablePreview", "QueryRun", "QueryStatus"},
            profiles |-> Profiles \cup {None}, found |-> {Latest}, saves |-> FALSE,
            used |-> TRUE, mortal |-> {s1, a1}]

\* The same with an MCP server in the middle of its calls.
Tools == [started |-> {s1, m1}, kinds |-> {"ConnectionClose", "TemplateApply"},
          profiles |-> {None, "p"}, found |-> {Latest}, saves |-> FALSE,
          used |-> TRUE, mortal |-> {}]

AllScenes == {Path, Migration, Command, Tools}

\* What is asked is the scene's, and its file can be opened or cannot.
InScene ==
    /\ \A p \in Procs :
          job'[p] # job[p] =>
             job'[p].kind \in scene.kinds /\ job'[p].profile \in scene.profiles
    /\ \A p \in Procs :
          (library[p].state = "shut" /\ library'[p].state # "shut") =>
             library'[p].state = IF scene.saves THEN "migrating" ELSE "memory"

SceneInit == MachineInit /\ scene \in AllScenes /\ version \in scene.found

SceneNext ==
    /\ \/ \E p \in scene.started \cap Sessions :
             StartsUp(p) \/ Quits(p) \/ (scene.used /\ Used(p))
       \/ \E p \in scene.started \ Sessions : Starts(p)
       \/ \E p \in scene.started \cap Servers : Calls(p) \/ Leaves(p)
       \/ \E p \in scene.started : Goes(p)
       \/ \E p \in scene.mortal : Dies(p)
    /\ InScene
    /\ UNCHANGED scene

SceneSpec ==
    /\ SceneInit
    /\ [][SceneNext]_<<allVars, scene>>
    /\ \A p \in Procs : WF_allVars(Goes(p))

=============================================================================
