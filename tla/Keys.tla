--------------------------------- MODULE Keys ---------------------------------
(***************************************************************************)
(* What a key or a click means (sqlake-tui/src/input.rs): the keymap, which   *)
(* context a key is read in, and the intents it comes to.  An intent is a      *)
(* view command, an action for the store, or a tab handed to the editor.      *)
(*                                                                         *)
(* The keys that resize, sort out a definition's sections and move sideways    *)
(* are in the keymap and come to nothing here.                                *)
(***************************************************************************)
EXTENDS Screen

\* A key: its code, and the modifiers held.
Key(code) == [code |-> code, mods |-> {}]
Ctrl(code) == [code |-> code, mods |-> {"Ctrl"}]
Shifted(code) == [code |-> code, mods |-> {"Shift"}]

Named == {"Up", "Down", "Left", "Right", "PageUp", "PageDown", "Home", "End",
          "Tab", "BackTab", "Enter", "Esc", "Backspace"}

IsChar(key) == key.code \notin Named

\* matches: shift is part of a character already, and of nothing else.
Pressed(combo, key) ==
    LET relevant == IF IsChar(combo) \/ combo.code = "BackTab" THEN {"Ctrl", "Alt"}
                    ELSE {"Ctrl", "Alt", "Shift"}
    IN combo.code = key.code /\ combo.mods \cap relevant = key.mods \cap relevant

Bound(context, kind, combos) == [context |-> context, kind |-> kind, keys |-> combos]

\* The first half of KEYMAP: boxes, lists, and moving about.
MovingKeys == {
    Bound("Global", "Focus", {Ctrl("h"), Key("BackTab"), Key("Tab")}),
    Bound("Global", "Filter", {Key("/")}),
    Bound("Filter", "Filter", {Key("Backspace"), Key("Esc"), Key("Enter")}),
    Bound("Global", "History", {Ctrl("r")}),
    Bound("Global", "Palette", {Ctrl("p")}),
    Bound("Palette", "Palette", {Key("Backspace"), Key("Esc"), Key("Up"), Key("Down"),
                                 Key("Tab"), Key("BackTab")}),
    Bound("Palette", "UseTemplate", {Key("Enter")}),
    Bound("Global", "SaveTemplate", {Ctrl("s")}),
    Bound("Palette", "SaveTemplate", {Ctrl("s")}),
    Bound("Palette", "DeleteTemplate", {Ctrl("d")}),
    Bound("Global", "Scroll", {Key("j"), Key("k"), Key("Down"), Key("Up"),
                               Key("PageDown"), Key("PageUp")}),
    Bound("Global", "ScrollEdge", {Key("g"), Key("G"), Key("Home"), Key("End")}),
    Bound("Grid", "ScrollHorizontally", {Key("Left"), Key("Right")}),
    Bound("Explorer", "TreeSelection", {Key("Down"), Key("Up")}),
    Bound("Grid", "GridSelection", {Key("J"), Key("K")}),
    Bound("Grid", "ExtendSelection", {Shifted("Up"), Shifted("Down"), Shifted("Left"),
                                      Shifted("Right")}),
    Bound("Grid", "GridSelection", {Key("H"), Key("L")}),
    Bound("Grid", "ResizeColumn", {Key("<"), Key(">")})}

\* The second half: panes, dialogs, and what is asked of the store.
ActingKeys == {
    Bound("Global", "MoveSplit", {Ctrl("Left"), Ctrl("Right")}),
    Bound("Global", "EvenSplit", {Key("=")}),
    Bound("Grid", "ToggleDetail", {Key("Enter")}),
    Bound("Grid", "Menu", {Key(".")}),
    Bound("Grid", "Copy", {Key("y"), Key("Y"), Key("a"), Key("A")}),
    Bound("Modal", "DismissModal", {Key("Esc")}),
    Bound("Global", "Connect", {Key("c")}),
    Bound("Global", "Disconnect", {Key("D")}),
    Bound("Explorer", "ToggleNode", {Key(" "), Key("Right"), Key("Left")}),
    Bound("Explorer", "PreviewTable", {Key("Enter")}),
    Bound("Grid", "ReuseRun", {Key("u")}),
    Bound("Grid", "SortPreview", {Key("s")}),
    Bound("Grid", "LoadMore", {Key("m")}),
    Bound("Global", "RunQuery", {Key("r"), Ctrl("Enter")}),
    Bound("Modal", "ApproveQuery", {Key("Enter")}),
    Bound("Global", "EditExternally", {Key("e")}),
    Bound("Explorer", "DescribeTable", {Key("d")}),
    Bound("Grid", "SelectSection", {Key("{"), Key("}")}),
    Bound("Global", "OpenSqlTab", {Key("n")}),
    Bound("Global", "SelectTab", {Ctrl("Tab"), Key("]"), Key("[")}),
    Bound("Global", "CloseTab", {Ctrl("w")}),
    Bound("Global", "Cancel", {Ctrl("g")}),
    Bound("Global", "DismissToast", {Key("Esc")}),
    Bound("Global", "Quit", {Key("q"), Ctrl("c")})}

KEYMAP == MovingKeys \cup ActingKeys

\* The bindings of every context.
Bindings == [context \in {b.context : b \in KEYMAP} |->
               {b \in KEYMAP : b.context = context}]

BoundIn(context, key) ==
    {b.kind : b \in {b \in Bindings[context] : \E combo \in b.keys : Pressed(combo, key)}}

\* searching: the box of a history tab in front.
HistoryBox(ui) ==
    LET boxes == {tab.box : tab \in {tab \in Active(ui) : tab.kind = "History"}}
    IN IF boxes = {} THEN None ELSE CHOOSE box \in boxes : TRUE

\* The box a key would be typed into.
Box(ui) == IF HistoryBox(ui) # None THEN HistoryBox(ui) ELSE ui.filter

\* Slip: a dialog leaves the keys where they were.
ContextUnderModal(ui) ==
    IF ui.palette # None THEN "Palette"
    ELSE IF Box(ui) # None /\ Box(ui).editing THEN "Filter"
    ELSE ui.focus

\* key_context
KeyContext(ui) ==
    IF ui.modal # None THEN "Modal"
    ELSE IF ui.palette # None THEN "Palette"
    ELSE IF Box(ui) # None /\ Box(ui).editing THEN "Filter"
    ELSE ui.focus

\* on_key: what a key is bound to, in its context or else everywhere; behind a
\* dialog nothing else is, and a character being typed is typed.
KindOf(ui, key) ==
    LET context == KeyContext(ui)
        chord == key.mods \cap {"Ctrl", "Alt"} # {}
        typed == context \in {"Filter", "Palette"} /\ ~chord
        bound == BoundIn(context, key)
    IN IF bound # {} THEN bound
       ELSE IF typed THEN IF IsChar(key) THEN {context} ELSE {}
       ELSE IF context = "Modal" THEN {}
       ELSE BoundIn("Global", key)

Backwards(key) ==
    key.code \in {"Up", "PageUp", "Left", "Home", "BackTab",
                  "h", "H", "k", "K", "<", "g", "[", "{"}

Sign(key) == IF Backwards(key) THEN -1 ELSE 1

\* How far a key moves the cursor down; sideways is not followed.
RowsDown(key) == IF key.code \in {"Left", "Right", "H", "L"} THEN 0 ELSE Sign(key)

\* PAGE_LINES
Lines(key) == IF key.code \in {"PageUp", "PageDown"} THEN 20 * Sign(key) ELSE Sign(key)

-----------------------------------------------------------------------------
(* Intents.                                                                  *)

Cmd(cmd, at, with) == [cmd |-> cmd, at |-> at, with |-> with]
App(op, c, item, arg) == Cmd("App", Action(op, c, item, arg), None)

\* The connection the explorer's selection is on, or the first there is.
Connection(ui, snap) ==
    LET node == NodeAt(ui, snap, ui.selected)
    IN IF node # None THEN node.conn
       ELSE First(ConnSeq, {c \in ConnIds : snap.conns[c].status # "absent"})

\* sql_connection
SqlConnection(ui, snap) ==
    LET own == Connection(ui, snap)
    IN IF own # None /\ Live(snap.conns[own]) THEN own
       ELSE First(ConnSeq, {c \in ConnIds : Live(snap.conns[c])})

\* runnable
Runnable(ui, snap) ==
    {tab \in Active(ui) : /\ tab.kind = "Sql" /\ tab.text # None
                          /\ Live(snap.conns[tab.conn])}

\* run: an id is made for it at the press of the key.
RunIntents(ui, snap, query) ==
    [i \in 1 .. Cardinality(Runnable(ui, snap)) |->
       LET tab == CHOOSE tab \in Runnable(ui, snap) : TRUE
       IN App("Run", tab.conn, query, tab.text)]

\* activate_node
Activate(ui, snap, row) ==
    LET node == NodeAt(ui, snap, row)
    IN IF node = None THEN <<>>
       ELSE IF node.node \in Tables
       THEN <<Cmd("OpenTab", node.conn, node.node),
              App("Preview", node.conn, node.node, None)>>
       ELSE <<App("Toggle", node.conn, node.node, None)>>

\* describe_node
Describe(ui, snap, row) ==
    LET node == NodeAt(ui, snap, row)
    IN IF node = None \/ node.node \notin Tables THEN <<>>
       ELSE <<Cmd("OpenDefinition", node.conn, node.node),
              App("Describe", node.conn, node.node, FALSE)>>

\* is_toggleable and is_expanded, of a node or of a connection's own row.
Toggleable(node, snap) ==
    node.node = Root \/ snap.tree[node.conn].status[node.node] # "Leaf"

Expands(node, snap) ==
    IF node.node = Root
    THEN snap.conns[node.conn].expanded /\ snap.conns[node.conn].status \in {"Ready", "Closed"}
    ELSE snap.tree[node.conn].status[node.node] = "Expanded"

\* toggle_node: the left arrow only closes.
Toggle(ui, snap, row, collapse) ==
    LET node == NodeAt(ui, snap, row)
    IN IF \/ node = None
          \/ ~Toggleable(node, snap)
          \/ collapse /\ ~Expands(node, snap)
       THEN <<>>
       ELSE <<App("Toggle", node.conn, node.node, None)>>

\* Slip: a tab is closed and what it showed is kept.
CloseKeeping(ui, id) ==
    IF \E tab \in TabsOf(ui) : tab.id = id THEN <<Cmd("CloseTab", id, None)>> ELSE <<>>

\* close_tab: the store is told to forget what no tab shows any more.
Close(ui, id) ==
    LET tabs == {tab \in TabsOf(ui) : tab.id = id}
        tab == CHOOSE tab \in tabs : TRUE
        forgets ==
            CASE tab.kind = "Definition" ->
                    <<App("ForgetDefinition", tab.conn, tab.item, None)>>
              [] tab.kind = "Sql" /\ tab.query # None ->
                    <<App("Forget", None, tab.query, None)>>
              [] /\ tab.kind = "Preview"
                 /\ \A other \in TabsOf(ui) \ tabs : ~Same(other, tab) ->
                    <<App("ForgetPreview", tab.conn, tab.item, None)>>
              [] OTHER -> <<>>
    IN IF tabs = {} THEN <<>> ELSE <<Cmd("CloseTab", id, None)>> \o forgets

\* next_filter: a key in a search box, and None when it closes.
NextBox(box, key) ==
    IF box = None THEN OpenBox
    ELSE IF ~box.editing THEN [box EXCEPT !.editing = TRUE]
    ELSE CASE key.code = "Enter" /\ box.text # <<>> -> [box EXCEPT !.editing = FALSE]
           [] key.code \in {"Esc", "Enter"} -> None
           [] key.code = "Backspace" -> IF box.text = <<>> THEN None
                                        ELSE [box EXCEPT !.text = Seqs!Front(@)]
           [] IsChar(key) -> [box EXCEPT !.text = Append(@, key.code)]
           [] OTHER -> box

\* palette: a key in the palette, or the one that opens it.
PaletteKey(ui, snap, key) ==
    LET open == ui.palette
        form == open.asking
        moved == [open EXCEPT !.selected =
                    Among(@ + Sign(key), Len(Matching(open, Listed(snap))))]
        next ==
            IF form # None
            THEN CASE key.code = "Esc" -> [open EXCEPT !.asking = None]
                   [] key.code = "Backspace" -> [open EXCEPT !.asking.filled = FALSE]
                   [] IsChar(key) -> [open EXCEPT !.asking.filled = TRUE]
                   [] OTHER -> open
            ELSE CASE key.code = "Esc" -> None
                   [] key.code \in {"Up", "Down", "Tab", "BackTab"} -> moved
                   [] key.code = "Backspace" ->
                        [open EXCEPT !.selected = 0,
                                     !.filter = IF @ = <<>> THEN @ ELSE Seqs!Front(@)]
                   [] IsChar(key) ->
                        [open EXCEPT !.selected = 0, !.filter = Append(@, key.code)]
                   [] OTHER -> open
    IN <<Cmd("Palette", None, IF open = None THEN NewPalette ELSE next)>>

\* save_template: names what the palette is saving, or opens it to save what the
\* tab in front holds.
SaveKey(ui, snap) ==
    LET texts == {tab.text : tab \in {tab \in Active(ui) : tab.kind = "Sql"}}
                   \cup {SavedText : tab \in {tab \in Active(ui) :
                                              tab.kind = "History" /\ RowCount(tab, snap) > 0}}
        written == texts \ {None}
    IN IF ui.palette # None
       THEN IF ui.palette.body # None /\ ui.palette.filter # <<>>
            THEN <<Cmd("CommitTemplate", None, None)>> ELSE <<>>
       ELSE IF written = {} THEN <<>>
       ELSE <<Cmd("Palette", None,
                  [NewPalette EXCEPT !.body = CHOOSE text \in written : TRUE])>>

\* use_template and delete_template, of the one that is picked.
PickedKey(ui, snap, cmd) ==
    LET picked == Picked(ui.palette, Listed(snap))
    IN IF picked = None THEN <<>> ELSE <<Cmd(cmd, picked, None)>>

\* neighbouring_tab
Neighbour(ui, key) ==
    LET at == Seqs!SelectInSeq(ui.tabs, LAMBDA tab : tab.id = ui.active)
        n == Len(ui.tabs)
    IN IF at = 0 THEN ui.tabs[1].id ELSE ui.tabs[((at - 1 + n + Sign(key)) % n) + 1].id

ActivePreviews(ui) == {tab \in Active(ui) : tab.kind = "Preview"}

\* sortable_preview
Sortable(ui, snap) ==
    {tab \in ActivePreviews(ui) : snap.conns[tab.conn].sortable}

\* One intent for the tab in front, when it is such a one.
ForFront(tabs, Intent(_)) ==
    IF tabs = {} THEN <<>> ELSE <<Intent(CHOOSE tab \in tabs : TRUE)>>

\* materialise: the intents of a key that is bound.  `fresh` is the connection
\* and the query a new id would be made for, and `edited` what the editor does.
\* First what only the screen hears of.
ViewIntents(kind, key, ui, snap) ==
    CASE kind = "Focus" -> <<Cmd("CycleFocus", None, None)>>
      [] kind = "Scroll" -> <<Cmd("ScrollBy", ui.focus, Lines(key))>>
      [] kind = "ScrollEdge" ->
            <<Cmd(IF Backwards(key) THEN "ScrollToStart" ELSE "ScrollToEnd",
                  ui.focus, None)>>
      [] kind = "TreeSelection" -> <<Cmd("MoveTreeSelection", None, Sign(key))>>
      [] kind = "GridSelection" -> <<Cmd("MoveCellSelection", None, RowsDown(key))>>
      [] kind = "ExtendSelection" -> <<Cmd("ExtendCellSelection", None, RowsDown(key))>>
      [] kind = "Menu" ->
            IF ui.menu THEN <<Cmd("CloseMenu", None, None)>>
            ELSE ForFront(Active(ui), LAMBDA tab : Cmd("OpenMenu", None, None))
      [] kind = "Copy" ->
            ForFront(Active(ui), LAMBDA tab : Cmd("Copy", None, key.code \in {"a", "A"}))
      [] kind = "ToggleDetail" ->
            ForFront(Active(ui), LAMBDA tab : Cmd("ToggleDetail", None, None))
      [] kind = "DismissModal" -> <<Cmd("DismissModal", None, None)>>
      [] kind = "Filter" ->
            <<Cmd(IF HistoryBox(ui) = None THEN "SetFilter" ELSE "SetHistoryTerms",
                  None, NextBox(Box(ui), key))>>
      [] OTHER -> <<>>

\* And what opens, runs or closes something.
ActingIntents(kind, key, ui, snap, fresh, edited) ==
    CASE kind = "Connect" -> <<App("Connect", fresh.conn, None, None)>>
      [] kind = "Disconnect" ->
            IF Connection(ui, snap) = None THEN <<>>
            ELSE <<App("Disconnect", Connection(ui, snap), None, None)>>
      [] kind = "ToggleNode" -> Toggle(ui, snap, ui.selected, key.code = "Left")
      [] kind = "PreviewTable" -> Activate(ui, snap, ui.selected)
      [] kind = "DescribeTable" -> Describe(ui, snap, ui.selected)
      [] kind = "SortPreview" ->
            ForFront(Sortable(ui, snap), LAMBDA tab : App("Sort", tab.conn, tab.item, 0))
      [] kind = "LoadMore" ->
            ForFront(ActivePreviews(ui),
                     LAMBDA tab : App("LoadMore", tab.conn, tab.item, None))
      [] kind = "OpenSqlTab" ->
            IF SqlConnection(ui, snap) = None THEN <<>>
            ELSE <<Cmd("OpenSqlTab", SqlConnection(ui, snap), None)>>
      [] kind = "EditExternally" ->
            ForFront({tab \in Active(ui) : tab.kind # "Preview"},
                     LAMBDA tab : Cmd("Edit", tab.id, edited))
      [] kind = "RunQuery" -> RunIntents(ui, snap, fresh.query)
      [] kind = "ApproveQuery" ->
            IF ui.modal.intent = None THEN <<>> ELSE <<Cmd("App", ui.modal.intent, None)>>
      [] kind = "SelectTab" ->
            IF ui.tabs = <<>> THEN <<>> ELSE <<Cmd("SelectTab", Neighbour(ui, key), None)>>
      [] kind = "CloseTab" -> Close(ui, ui.active)
      [] kind = "Cancel" ->
            IF snap.busy = {} THEN <<>>
            ELSE <<App("Cancel", None, None,
                       CHOOSE b \in snap.busy : \A other \in snap.busy : b <= other)>>
      [] kind = "DismissToast" ->
            IF ui.toasts = <<>> THEN <<>>
            ELSE <<Cmd("DismissToast", ui.toasts[1].id, None)>>
      [] kind = "Quit" -> <<App("Quit", None, None, None)>>
      [] kind = "Palette" -> PaletteKey(ui, snap, key)
      [] kind = "UseTemplate" ->
            IF ui.palette.asking # None THEN <<Cmd("SubmitTemplate", None, None)>>
            ELSE PickedKey(ui, snap, "UseTemplate")
      [] kind = "DeleteTemplate" ->
            IF ui.palette.asking # None \/ ui.palette.body # None THEN <<>>
            ELSE PickedKey(ui, snap, "ConfirmDeleteTemplate")
      [] kind = "ReuseRun" ->
            ForFront({tab \in Active(ui) : tab.kind = "History" /\ RowCount(tab, snap) > 0},
                     LAMBDA tab : Cmd("ReuseRun", None, None))
      [] kind = "History" ->
            IF Connection(ui, snap) = None THEN <<>>
            ELSE <<Cmd("OpenHistoryTab", Connection(ui, snap), None)>>
      [] kind = "SaveTemplate" -> SaveKey(ui, snap)
      [] OTHER -> <<>>

Materialise(kind, key, ui, snap, fresh, edited) ==
    ViewIntents(kind, key, ui, snap) \o ActingIntents(kind, key, ui, snap, fresh, edited)

OnKey(ui, snap, key, fresh, edited) ==
    LET kinds == KindOf(ui, key)
    IN IF kinds = {} THEN <<>>
       ELSE Materialise(CHOOSE kind \in kinds : TRUE, key, ui, snap, fresh, edited)

-----------------------------------------------------------------------------
(* The mouse.  A target is what the last frame drew under the pointer.        *)

Target(on, at, by) == [on |-> on, at |-> at, by |-> by]

\* The rows of a pane a frame draws.
Window(offset, n) == {row \in offset .. offset + Height - 1 : row < n}

\* for_grid: what the menu of the grid offers, and it is all enabled.
MenuEntries == <<Cmd("ToggleDetail", None, None), Cmd("Copy", None, FALSE),
                 Cmd("Copy", None, TRUE)>>

\* What a frame draws that can be clicked: what is on top hides the rest.
Targets(ui, snap) ==
    LET rows == Window(ui.treeOffset, Len(Seen(ui, snap)))
        cells == UNION {Window(GridOf(ui, tab.id).offset, RowCount(tab, snap)) :
                          tab \in Active(ui)}
        ids == TabIds(ui)
        overlay ==
            IF ui.modal # None
            THEN {Target("Backdrop", None, "Click"), Target("DismissModal", None, "Click")}
                   \cup {Target("ModalChoice", None, "Click") : m \in {ui.modal.intent} \ {None}}
            ELSE {Target("Backdrop", None, "Click")}
                   \cup {Target("PaletteRow", i, "Click") :
                           i \in {i \in 0 .. Len(Matching(ui.palette, Listed(snap))) - 1 :
                                    ui.palette.asking = None}}
    IN IF ui.modal # None \/ ui.palette # None THEN overlay
       ELSE [on : {"TreeRow"}, at : rows, by : {"Click", "DoubleClick"}]
              \cup [on : {"TreeToggle"}, at : rows, by : {"Click"}]
              \cup [on : {"GridCell"}, at : cells, by : {"Down", "Drag", "Right"}]
              \cup [on : {"Pane"}, at : {"Explorer", "Grid"}, by : {"Click", "Wheel"}]
              \cup [on : {"Filter"}, at : {None : box \in {ui.filter} \ {None}}, by : {"Click"}]
              \cup [on : {"MenuItem"}, at : {i \in 1 .. Len(MenuEntries) : ui.menu},
                    by : {"Click"}]
              \cup [on : {"Tab"}, at : ids, by : {"Click", "MiddleClick"}]
              \cup [on : {"TabClose"}, at : ids, by : {"Click"}]
              \cup {Target("NewSqlTab", None, "Click"), Target("RunQuery", None, "Click")}
              \cup [on : {"Toast"}, at : {ui.toasts[i].id : i \in 1 .. Len(ui.toasts)},
                    by : {"Click"}]
              \cup [on : {"Cancel"}, at : snap.busy, by : {"Click"}]
              \cup [on : {"GridHeader"}, at : {None : tab \in ActivePreviews(ui)},
                    by : {"Click"}]

\* The rows of the grid that are selected.
Selection(ui, snap) ==
    UNION {SelectedRows(GridOf(ui, tab.id), SortShown(tab, snap)) : tab \in Active(ui)}

\* mouse_intents, over the explorer, the grid and the menu.
PaneGesture(ui, snap, target) ==
    CASE target.on = "TreeRow" /\ target.by = "Click" ->
            <<Cmd("FocusPane", "Explorer", None), Cmd("SelectTreeRow", target.at, None)>>
      [] target.on = "TreeRow" /\ target.by = "DoubleClick" ->
            Activate(ui, snap, target.at)
      [] target.on = "TreeToggle" -> Toggle(ui, snap, target.at, FALSE)
      [] target.on = "GridCell" /\ target.by = "Down" ->
            <<Cmd("FocusPane", "Grid", None), Cmd("SelectCell", target.at, None)>>
      [] target.on = "GridCell" /\ target.by = "Drag" ->
            <<Cmd("ExtendCellSelectionTo", target.at, None)>>
      [] target.on = "GridCell" /\ target.by = "Right" ->
            (IF target.at \in Selection(ui, snap) THEN <<>>
             ELSE <<Cmd("FocusPane", "Grid", None), Cmd("SelectCell", target.at, None)>>)
              \o <<Cmd("OpenMenu", None, None)>>
      [] target.on = "GridHeader" ->
            ForFront(Sortable(ui, snap), LAMBDA tab : App("Sort", tab.conn, tab.item, 0))
      [] target.on = "Pane" /\ target.by = "Click" -> <<Cmd("FocusPane", target.at, None)>>
      [] target.on = "Pane" /\ target.by = "Wheel" -> <<Cmd("ScrollBy", target.at, 3)>>
      [] target.on = "MenuItem" /\ ui.menu ->
            <<Cmd("CloseMenu", None, None), MenuEntries[target.at]>>
      [] OTHER -> <<>>

\* mouse_intents, over tabs, buttons, toasts and what covers the screen.
ButtonGesture(ui, snap, target, fresh) ==
    CASE target.on = "Tab" /\ target.by = "Click" -> <<Cmd("SelectTab", target.at, None)>>
      [] target.on = "TabClose" \/ (target.on = "Tab" /\ target.by = "MiddleClick") ->
            Close(ui, target.at)
      [] target.on = "Cancel" -> <<App("Cancel", None, None, target.at)>>
      [] target.on = "Filter" /\ ui.filter # None ->
            <<Cmd("SetFilter", None, [ui.filter EXCEPT !.editing = TRUE])>>
      [] target.on = "PaletteRow" /\ ui.palette # None ->
            LET next == [ui.palette EXCEPT !.selected = target.at]
                picked == Picked(next, Listed(snap))
            IN IF picked = None THEN <<>>
               ELSE <<Cmd("Palette", None, next), Cmd("UseTemplate", picked, None)>>
      [] target.on = "RunQuery" -> RunIntents(ui, snap, fresh.query)
      [] target.on = "NewSqlTab" /\ SqlConnection(ui, snap) # None ->
            <<Cmd("OpenSqlTab", SqlConnection(ui, snap), None)>>
      [] target.on = "ModalChoice" /\ ui.modal # None /\ ui.modal.intent # None ->
            <<Cmd("App", ui.modal.intent, None)>>
      [] target.on = "Toast" -> <<Cmd("DismissToast", target.at, None)>>
      [] target.on = "Backdrop" /\ ui.palette # None /\ ui.modal = None ->
            <<Cmd("Palette", None, None)>>
      [] \/ target.on = "Backdrop" /\ (ui.palette = None \/ ui.modal # None)
         \/ target.on = "DismissModal" -> <<Cmd("DismissModal", None, None)>>
      [] OTHER -> <<>>

\* on_mouse: a gesture that is not on the menu closes it first.
OnMouse(ui, snap, target, fresh) ==
    LET meant == PaneGesture(ui, snap, target) \o ButtonGesture(ui, snap, target, fresh)
        closes == /\ ui.menu
                  /\ target.by \in {"Click", "Right", "Down", "Wheel"}
                  /\ target.on # "MenuItem"
    IN IF closes THEN <<Cmd("CloseMenu", None, None)>> \o meant ELSE meant

=============================================================================
