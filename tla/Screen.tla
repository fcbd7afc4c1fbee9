-------------------------------- MODULE Screen --------------------------------
(***************************************************************************)
(* The terminal front-end's own state and what every view command does to it  *)
(* (sqlake-tui/src/ui.rs `UiState`).  The screen sees the session only        *)
(* through the snapshot it drew last; what it wants of the store it asks for   *)
(* with an action.                                                          *)
(*                                                                         *)
(* Left out: widths of columns and of panes, sections of a definition, what    *)
(* is copied, the values typed into a template, and the text of a message --   *)
(* a toast and a dialog are named for what they are about.                    *)
(***************************************************************************)
EXTENDS StoreLoop, Panes

CONSTANTS
    ConnSeq,     \* the connections, in the order they are opened
    QuerySeq,    \* the queries, in the order they are run
    NodeSeq,     \* the nodes, in the order the tree lists them
    Label,       \* [Nodes \cup Saved -> Seq(characters)]: what each is called
    Asking,      \* templates that have placeholders, a subset of Saved
    Height,      \* rows a pane shows
    Margin,      \* LOAD_MARGIN_ROWS
    ResultRows   \* rows in the result of every query, and runs in the history

ASSUME ScreenAssumption ==
    /\ ConnSeq \in Seq(ConnIds) /\ QuerySeq \in Seq(QueryIds)
    /\ \A i, k \in 1 .. Len(ConnSeq) : ConnSeq[i] = ConnSeq[k] => i = k
    /\ \A i, k \in 1 .. Len(QuerySeq) : QuerySeq[i] = QuerySeq[k] => i = k
    /\ {ConnSeq[i] : i \in 1 .. Len(ConnSeq)} = ConnIds
    /\ {QuerySeq[i] : i \in 1 .. Len(QuerySeq)} = QueryIds
    /\ NodeSeq \in Seq(Nodes) /\ {NodeSeq[i] : i \in 1 .. Len(NodeSeq)} = Nodes
    /\ Asking \subseteq Saved
    /\ Height \in Nat /\ Margin \in Nat /\ ResultRows \in Nat
    /\ None \notin Nat   \* no selection is told from a selected row

-----------------------------------------------------------------------------
(* The snapshot.  `tried` counts, for every preview, the page requests that   *)
(* have come back.                                                          *)

PreviewView(p, n) ==
    [data |-> p.data, rows |-> Len(p.rows), sort |-> p.sort,
     exhausted |-> p.exhausted, lastError |-> p.lastError, attempts |-> n]

\* find: the first of a sequence that is in a set.
First(seq, set) ==
    LET there == {i \in 1 .. Len(seq) : seq[i] \in set}
    IN IF there = {} THEN None ELSE seq[CHOOSE i \in there : \A k \in there : i <= k]

\* explorer_view: every connection's row, and below it what its tree shows.
Explorer ==
    LET top(c) == [conn |-> c, node |-> Root, depth |-> 0, label |-> <<>>]
        below(c) ==
            LET listed == Those(NodeSeq, Objects(tree[c]))
            IN [i \in 1 .. Len(listed) |->
                  [conn |-> c, node |-> listed[i], depth |-> Len(Path[listed[i]]),
                   label |-> Label[listed[i]]]]
        rows(c) == IF conns[c].status = "absent" THEN <<>>
                   ELSE IF conns[c].expanded THEN <<top(c)>> \o below(c)
                   ELSE <<top(c)>>
        upTo[i \in 0 .. Len(ConnSeq)] ==
            IF i = 0 THEN <<>> ELSE upTo[i - 1] \o rows(ConnSeq[i])
    IN upTo[Len(ConnSeq)]

View(tried) ==
    [conns |-> conns, tree |-> tree,
     previews |-> [c \in ConnIds |-> [t \in Tables |->
                     PreviewView(previews[c][t], tried[c][t])]],
     definitions |-> definitions,
     queries |-> [q \in QueryIds |->
                    IF Known(q) THEN queries[q] ELSE NoQuery],
     explorer |-> Explorer, templates |-> templates, search |-> search,
     busy |-> {b.id : b \in busy}, quit |-> ~running]

Live(conn) == conn.status \in {"Connecting", "Ready"}

-----------------------------------------------------------------------------
(* The screen.                                                              *)

\* A search box: the explorer's, or a history tab's.
OpenBox == [text |-> <<>>, editing |-> TRUE]

NewGrid == [row |-> 0, offset |-> 0, anchor |-> None, asked |-> None]

NewPalette == [filter |-> <<>>, selected |-> 0, asking |-> None, body |-> None]

NewScreen ==
    [focus |-> "Explorer", selected |-> None, treeOffset |-> 0, filter |-> None,
     tabs |-> <<>>, active |-> None, nextTab |-> 0, grids |-> <<>>, sqlLines |-> 0,
     modal |-> None, menu |-> FALSE, detail |-> FALSE, palette |-> None,
     toasts |-> <<>>, nextToast |-> 0, failures |-> {}, previewErrors |-> {}, askedApproval |-> {},
     queryErrors |-> {}]

\* grids: one for every tab that has been drawn.
GridOf(ui, id) == IF id \in DOMAIN ui.grids THEN ui.grids[id] ELSE NewGrid

WithGrid(ui, id, grid) ==
    [ui EXCEPT !.grids = [i \in DOMAIN @ \cup {id} |-> IF i = id THEN grid ELSE @[i]]]

WithoutGrid(ui, id) ==
    [ui EXCEPT !.grids = [i \in DOMAIN @ \ {id} |-> @[i]]]

TabsOf(ui) == {ui.tabs[i] : i \in 1 .. Len(ui.tabs)}

TabIds(ui) == {tab.id : tab \in TabsOf(ui)}

\* The active tab, as a set: there may be none.
Active(ui) == {tab \in TabsOf(ui) : tab.id = ui.active}

Retabbed(ui, id, tab) ==
    [ui EXCEPT !.tabs = [i \in 1 .. Len(@) |-> IF @[i].id = id THEN tab ELSE @[i]]]

\* rows_of: whether there is a result behind a tab yet.
HasRows(tab, snap) ==
    "Ready" = CASE tab.kind = "Preview" -> snap.previews[tab.conn][tab.item].data
                [] tab.kind = "Sql" /\ tab.query # None -> snap.queries[tab.query].data
                [] tab.kind = "Definition" -> snap.definitions[tab.conn][tab.item].data
                [] tab.kind = "History" -> snap.search.data
                [] OTHER -> "Idle"

\* row_count
RowCount(tab, snap) ==
    IF ~HasRows(tab, snap) THEN 0
    ELSE IF tab.kind = "Preview" THEN snap.previews[tab.conn][tab.item].rows
    ELSE ResultRows

SortShown(tab, snap) ==
    IF tab.kind = "Preview" THEN snap.previews[tab.conn][tab.item].sort ELSE None

\* visible_rows: places in the explorer, in the order they are drawn.
Seen(ui, snap) ==
    Drawn(snap.explorer, IF ui.filter = None THEN <<>> ELSE ui.filter.text)

\* visible_node, counting from 0; a row that is not there is none.
NodeAt(ui, snap, row) ==
    LET seen == Seen(ui, snap)
    IN IF row # None /\ row < Len(seen) THEN snap.explorer[seen[row + 1]] ELSE None

\* push_toast
Toasted(ui, about) ==
    [ui EXCEPT !.nextToast = @ + 1,
               !.toasts = Append(@, [id |-> ui.nextToast + 1, about |-> about])]

\* What a command comes to: the screen after it, and what it asks the store.
Just(ui) == [ui |-> ui, out |-> <<>>]
Asks(ui, action) == [ui |-> ui, out |-> <<action>>]

-----------------------------------------------------------------------------
(* Tabs.                                                                    *)

Content(kind, c, item) ==
    [id |-> None, kind |-> kind, conn |-> c, item |-> item, text |-> None,
     query |-> None, box |-> None]

\* open
OpenNew(ui, content) ==
    LET tab == [content EXCEPT !.id = ui.nextTab + 1]
    IN [ui EXCEPT !.nextTab = @ + 1, !.tabs = Append(@, tab), !.active = tab.id]

\* OpenTab, OpenDefinition, OpenHistoryTab: the tab there is, or a new one.
Same(tab, content) ==
    /\ tab.kind = content.kind
    /\ \/ content.kind = "History"
       \/ tab.conn = content.conn /\ tab.item = content.item

\* Slip: a tab is opened whether or not there is one.
FocusOrOpenAnew(ui, content) == OpenNew(ui, content)

FocusOrOpen(ui, content) ==
    LET there == {i \in 1 .. Len(ui.tabs) : Same(ui.tabs[i], content)}
    IN IF there = {} THEN OpenNew(ui, content)
       ELSE [ui EXCEPT !.active = ui.tabs[CHOOSE i \in there : \A k \in there : i <= k].id]

\* CloseTab
CloseTab(ui, id) ==
    LET at == {i \in 1 .. Len(ui.tabs) : ui.tabs[i].id = id}
        position == CHOOSE i \in at : TRUE
        left == Seqs!RemoveAt(ui.tabs, position)
    IN IF at = {} THEN WithoutGrid(ui, id)
       ELSE [WithoutGrid(ui, id) EXCEPT
               !.tabs = left,
               !.active = IF @ # id THEN @
                          ELSE IF left = <<>> THEN None
                          ELSE left[Least(position, Len(left))].id]

\* connection_for_a_new_tab: the active tab's, while it is live, or the first
\* that is.
ConnectionForNewTab(ui, snap) ==
    LET live == {c \in ConnIds : Live(snap.conns[c])}
        own == {tab.conn : tab \in Active(ui)} \cap live
    IN IF own # {} THEN CHOOSE c \in own : TRUE ELSE First(ConnSeq, live)

\* Slip: a template replaces whatever the active tab holds.
InsertOver(ui, snap, text) ==
    IF \E tab \in Active(ui) : tab.kind = "Sql"
    THEN LET tab == CHOOSE tab \in Active(ui) : TRUE
         IN Retabbed(ui, tab.id, [tab EXCEPT !.text = text])
    ELSE ui

\* insert: into the active tab when it is empty, and a new one otherwise.
Insert(ui, snap, text) ==
    LET empty == {tab \in Active(ui) : tab.kind = "Sql" /\ tab.text = None}
        conn == ConnectionForNewTab(ui, snap)
    IN IF empty # {}
       THEN LET tab == CHOOSE tab \in empty : TRUE
            IN Retabbed(ui, tab.id, [tab EXCEPT !.text = text])
       ELSE IF conn = None THEN Toasted(ui, "nothing is connected")
       ELSE OpenNew(ui, [Content("Sql", conn, None) EXCEPT !.text = text])

-----------------------------------------------------------------------------
(* Cursors.                                                                  *)

\* content_rows: a SQL tab is measured by its statement whatever it shows.
ContentRows(ui, snap, pane) ==
    IF pane = "Explorer" THEN Len(Seen(ui, snap))
    ELSE IF \E tab \in Active(ui) : tab.kind = "Sql" THEN ui.sqlLines
    ELSE IF Active(ui) = {} THEN 0
    ELSE RowCount(CHOOSE tab \in Active(ui) : TRUE, snap)

Offset(ui, pane) ==
    IF pane = "Explorer" THEN ui.treeOffset ELSE GridOf(ui, ui.active).offset

\* set_offset
SetOffset(ui, snap, pane, to) ==
    LET there == Scrolled(to, ContentRows(ui, snap, pane), Height)
    IN IF pane = "Explorer" THEN [ui EXCEPT !.treeOffset = there]
       ELSE IF ui.active = None THEN ui
       ELSE WithGrid(ui, ui.active, [GridOf(ui, ui.active) EXCEPT !.offset = there])

\* Whether a page has come back since this tab last asked for one.
AskedNothingSince(grid, preview) == grid.asked # preview.attempts

\* wants_a_page: near the end of what is loaded, and once for every answer.
WantsPage(ui, snap) ==
    LET wanting == {tab \in Active(ui) :
                      /\ tab.kind = "Preview"
                      /\ LET preview == snap.previews[tab.conn][tab.item]
                             grid == GridOf(ui, tab.id)
                         IN /\ preview.data = "Ready"
                            /\ ~preview.exhausted
                            /\ grid.offset + Height + Margin >= preview.rows
                            /\ AskedNothingSince(grid, preview)}
    IN IF wanting = {} THEN Just(ui)
       ELSE LET tab == CHOOSE tab \in wanting : TRUE
                attempts == snap.previews[tab.conn][tab.item].attempts
            IN Asks(WithGrid(ui, tab.id, [GridOf(ui, tab.id) EXCEPT !.asked = attempts]),
                    Action("LoadMore", tab.conn, tab.item, None))

\* ScrollBy, ScrollToEnd
ScrollTo(ui, snap, pane, to) ==
    LET there == SetOffset(ui, snap, pane, to)
    IN IF pane = "Grid" THEN WantsPage(there, snap) ELSE Just(there)

\* select_cell, without its column.
SelectCell(ui, snap, row) ==
    LET rows == IF Active(ui) = {} THEN 0
                ELSE RowCount(CHOOSE tab \in Active(ui) : TRUE, snap)
        grid == GridOf(ui, ui.active)
        at == Least(row, rows - 1)
    IN IF rows = 0 THEN ui
       ELSE WithGrid(ui, ui.active,
              [grid EXCEPT !.row = at, !.offset = ScrollIntoView(@, at, Height)])

\* SelectCell and MoveCellSelection start a selection afresh, and
\* ExtendCellSelection and ExtendCellSelectionTo keep where it began.
Reselect(ui, snap, anchor, row) ==
    LET grid == GridOf(ui, ui.active)
        anchored == WithGrid(ui, ui.active, [grid EXCEPT !.anchor = anchor])
    IN IF ui.active = None THEN Just(ui)
       ELSE WantsPage(SelectCell(anchored, snap, row), snap)

\* The row a move of the cursor leads to.
Moved(ui, delta) == Step(GridOf(ui, ui.active).row, delta)

\* anchor_here
AnchorHere(ui, snap) ==
    LET grid == GridOf(ui, ui.active)
    IN IF grid.anchor # None THEN grid.anchor
       ELSE [row |-> grid.row,
             sort |-> IF Active(ui) = {} THEN None
                      ELSE SortShown(CHOOSE tab \in Active(ui) : TRUE, snap)]

\* selection: the rows between where a selection began and the cursor, while the
\* rows are in the order it began under.
SelectedRows(grid, sort) ==
    IF grid.anchor # None /\ grid.anchor.sort = sort
    THEN Least(grid.anchor.row, grid.row) .. Most(grid.anchor.row, grid.row)
    ELSE {grid.row}

\* copy: the selection, or everything, cut to the rows there are.
Copy(ui, snap, all) ==
    LET tab == CHOOSE tab \in Active(ui) : TRUE
        there == 0 .. RowCount(tab, snap) - 1
        chosen == IF all THEN there
                 ELSE SelectedRows(GridOf(ui, tab.id), SortShown(tab, snap))
    IN IF \/ Active(ui) = {}
          \/ ~HasRows(tab, snap)
          \/ ~all /\ tab.id \notin DOMAIN ui.grids
       THEN ui
       ELSE Toasted(ui, IF chosen \cap there = {} THEN "nothing to copy" ELSE "sent")

\* select_tree_row
SelectTreeRow(ui, snap, index) ==
    LET len == Len(Seen(ui, snap))
        at == Least(index, len - 1)
    IN IF len = 0 THEN [ui EXCEPT !.selected = None]
       ELSE [ui EXCEPT !.selected = at,
                       !.treeOffset = ScrollIntoView(@, at, Height)]

\* Slip: the selection stays on its line of the screen.
FilterKeepingRow(ui, snap, filter) == [ui EXCEPT !.filter = filter]

\* set_filter: the selection follows the node it is on, if that is still shown.
SetFilter(ui, snap, filter) ==
    LET was == NodeAt(ui, snap, ui.selected)
        next == [ui EXCEPT !.filter = filter]
        seen == Seen(next, snap)
        now == Seqs!SelectInSeq(seen, LAMBDA k : snap.explorer[k] = was)
    IN IF was # None /\ now > 0 THEN SelectTreeRow(next, snap, now - 1)
       ELSE SelectTreeRow(next, snap, 0)

-----------------------------------------------------------------------------
(* The palette of saved statements, and dialogs.                             *)

Dialog(kind, item, intent) == [kind |-> kind, item |-> item, intent |-> intent]

\* What templates and history runs hold: one statement stands for all.
SavedText == CHOOSE sql \in Statements : TRUE

\* matching, and picked; what is selected counts from 0.
Matching(palette, list) ==
    SelectSeq(Seqs!SetToSeq(Saved), LAMBDA t : t \in list /\ Holds(Label[t], palette.filter))

Picked(palette, list) ==
    LET found == Matching(palette, list)
    IN IF palette.selected < Len(found) THEN found[palette.selected + 1] ELSE None

Listed(snap) == IF snap.templates.data = "Ready" THEN snap.templates.list ELSE {}

\* use_template: into a tab, or first a form to fill in.
UseTemplate(ui, snap, t) ==
    IF t \notin Listed(snap) THEN ui
    ELSE IF t \notin Asking THEN Insert([ui EXCEPT !.palette = None], snap, SavedText)
    ELSE IF ui.palette = None THEN ui
    ELSE [ui EXCEPT !.palette.asking = [template |-> t, filled |-> FALSE]]

\* submit_template: a form that does not bind stays open.
SubmitTemplate(ui, snap) ==
    IF /\ ui.palette # None
       /\ ui.palette.asking # None
       /\ ui.palette.asking.template \in Listed(snap)
       /\ ui.palette.asking.filled
    THEN Insert([ui EXCEPT !.palette = None], snap, SavedText)
    ELSE ui

\* Slip: a name that is taken is replaced without a question.
CommitUnasked(ui, snap) ==
    LET named == {t \in Saved : ui.palette # None /\ Label[t] = ui.palette.filter}
        closed == [ui EXCEPT !.palette = None]
    IN IF named = {} THEN Just(closed)
       ELSE LET t == CHOOSE t \in named : TRUE
            IN Asks(closed, Action(IF t \in Listed(snap) THEN "Replace" ELSE "Save",
                                   None, t, None))

\* commit_template: saved under a new name, and asked about under a taken one.
CommitTemplate(ui, snap) ==
    LET named == {t \in Saved : /\ ui.palette # None
                                /\ ui.palette.body # None
                                /\ Label[t] = ui.palette.filter}
        closed == [ui EXCEPT !.palette = None]
    IN IF named = {} THEN Just(closed)
       ELSE LET t == CHOOSE t \in named : TRUE
            IN IF t \in Listed(snap)
               THEN Just([closed EXCEPT !.modal = Dialog("replace", t,
                                                         Action("Replace", None, t, None))])
               ELSE Asks(closed, Action("Save", None, t, None))

\* ConfirmDeleteTemplate
ConfirmDelete(ui, t) ==
    [ui EXCEPT !.palette = None,
               !.modal = Dialog("delete", t, Action("Delete", None, t, None))]

\* history_terms: the words of the one history tab.
HistoryTerms(ui) ==
    LET boxes == {tab.box : tab \in {tab \in TabsOf(ui) : tab.kind = "History"}}
    IN IF boxes = {} THEN <<>> ELSE (CHOOSE box \in boxes : TRUE).text

Searches(ui) == Asks(ui, Action("Search", None, None, HistoryTerms(ui)))

\* set_history_terms: closing the box keeps the words.
SetHistoryTerms(ui, next) ==
    LET tabs == {tab \in Active(ui) : tab.kind = "History"}
    IN IF tabs = {} THEN Just(ui)
       ELSE LET tab == CHOOSE tab \in tabs : TRUE
                box == IF next = None THEN [tab.box EXCEPT !.editing = FALSE] ELSE next
            IN Searches(Retabbed(ui, tab.id, [tab EXCEPT !.box = box]))

-----------------------------------------------------------------------------
(* UiState::apply                                                            *)

Other(pane) == IF pane = "Explorer" THEN "Grid" ELSE "Explorer"

ApplyView(ui, snap, v) ==
    CASE v.cmd = "FocusPane" -> Just([ui EXCEPT !.focus = v.at])
      [] v.cmd = "CycleFocus" -> Just([ui EXCEPT !.focus = Other(@)])
      [] v.cmd = "ScrollBy" ->
            ScrollTo(ui, snap, v.at, Step(Offset(ui, v.at), v.with))
      [] v.cmd = "ScrollToStart" -> Just(SetOffset(ui, snap, v.at, 0))
      [] v.cmd = "ScrollToEnd" -> ScrollTo(ui, snap, v.at, ContentRows(ui, snap, v.at))
      [] v.cmd = "SetFilter" -> Just(SetFilter(ui, snap, v.with))
      [] v.cmd = "SelectTreeRow" -> Just(SelectTreeRow(ui, snap, v.at))
      [] v.cmd = "MoveTreeSelection" ->
            Just(SelectTreeRow(ui, snap, IF ui.selected = None THEN 0
                                         ELSE Step(ui.selected, v.with)))
      [] v.cmd = "SelectCell" -> Reselect(ui, snap, None, v.at)
      [] v.cmd = "MoveCellSelection" -> Reselect(ui, snap, None, Moved(ui, v.with))
      [] v.cmd = "ExtendCellSelection" ->
            Reselect(ui, snap, AnchorHere(ui, snap), Moved(ui, v.with))
      [] v.cmd = "ExtendCellSelectionTo" -> Reselect(ui, snap, AnchorHere(ui, snap), v.at)
      [] v.cmd = "Copy" -> Just(Copy(ui, snap, v.with))
      [] v.cmd = "OpenMenu" -> Just([ui EXCEPT !.menu = TRUE])
      [] v.cmd = "CloseMenu" -> Just([ui EXCEPT !.menu = FALSE])
      [] v.cmd = "ToggleDetail" -> Just([ui EXCEPT !.detail = ~ @])
      [] v.cmd = "DismissModal" -> Just([ui EXCEPT !.modal = None])
      [] v.cmd = "OpenTab" -> Just(FocusOrOpen(ui, Content("Preview", v.at, v.with)))
      [] v.cmd = "OpenDefinition" ->
            Just(FocusOrOpen(ui, Content("Definition", v.at, v.with)))
      [] v.cmd = "OpenSqlTab" -> Just(OpenNew(ui, Content("Sql", v.at, None)))
      [] v.cmd = "OpenHistoryTab" ->
            Searches(FocusOrOpen(ui, [Content("History", v.at, None) EXCEPT !.box = OpenBox]))
      [] v.cmd = "SetHistoryTerms" -> SetHistoryTerms(ui, v.with)
      [] v.cmd = "SelectTab" ->
            Just(IF \E tab \in TabsOf(ui) : tab.id = v.at THEN [ui EXCEPT !.active = v.at]
                                                        ELSE ui)
      [] v.cmd = "CloseTab" -> Just(CloseTab(ui, v.at))
      [] v.cmd = "DismissToast" ->
            Just([ui EXCEPT !.toasts = SelectSeq(@, LAMBDA toast : toast.id # v.at)])
      [] v.cmd = "Palette" ->
            IF v.with = None THEN Just([ui EXCEPT !.palette = None])
            ELSE Asks([ui EXCEPT !.palette = v.with], Action("Load", None, None, None))
      [] v.cmd = "CommitTemplate" -> CommitTemplate(ui, snap)
      [] v.cmd = "ReuseRun" ->
            Just(IF snap.search.data = "Ready" THEN Insert(ui, snap, SavedText) ELSE ui)
      [] v.cmd = "UseTemplate" -> Just(UseTemplate(ui, snap, v.at))
      [] v.cmd = "SubmitTemplate" -> Just(SubmitTemplate(ui, snap))
      [] v.cmd = "ConfirmDeleteTemplate" -> Just(ConfirmDelete(ui, v.at))

-----------------------------------------------------------------------------
(* What a new snapshot raises.                                               *)

\* `for tab in tabs`: what is done about each of them, one after another.
ForEach(tabs, ui, Do(_, _)) ==
    LET after[i \in 0 .. Len(tabs)] ==
            IF i = 0 THEN ui ELSE Do(after[i - 1], tabs[i])
    IN after[Len(tabs)]

\* raise_connection_failure: the first nobody has been told of.
RaiseConnectionFailure(ui, snap) ==
    LET failed == First(ConnSeq, {c \in ConnIds \ ui.failures : snap.conns[c].status = "Failed"})
    IN IF failed = None THEN ui
       ELSE [ui EXCEPT !.failures = @ \cup {failed},
                       !.menu = FALSE,
                       !.modal = Dialog("failure", failed, None)]

\* raise_preview_errors, for one tab: a text is told once until it goes away.
RaisePreviewError(ui, snap, tab) ==
    LET text == snap.previews[tab.conn][tab.item].lastError
        held == {e \in ui.previewErrors : e.conn = tab.conn /\ e.item = tab.item}
        told == [conn |-> tab.conn, item |-> tab.item, text |-> text]
    IN IF tab.kind # "Preview" \/ snap.previews[tab.conn][tab.item].data = "absent" THEN ui
       ELSE IF text = "None" THEN [ui EXCEPT !.previewErrors = @ \ held]
       ELSE IF told \in held THEN ui
       ELSE Toasted([ui EXCEPT !.previewErrors = (@ \ held) \cup {told}], tab.item)

\* raise_preview_errors, for every tab.
RaisePreviewErrors(ui, snap) ==
    ForEach(ui.tabs, ui, LAMBDA screen, tab : RaisePreviewError(screen, snap, tab))

\* Slip: only the tab in front is looked at.
RaiseFrontQueryError(ui, snap, tab) ==
    IF tab.id = ui.active /\ tab.query # None THEN
       IF tab.query \notin ui.queryErrors /\ snap.queries[tab.query].data = "Failed"
       THEN Toasted([ui EXCEPT !.queryErrors = @ \cup {tab.query}], tab.query)
       ELSE ui
    ELSE ui

\* raise_query_errors, for one tab: told once for every run.
RaiseQueryError(ui, snap, tab) ==
    IF /\ tab.query # None
       /\ tab.query \notin ui.queryErrors
       /\ snap.queries[tab.query].data = "Failed"
    THEN Toasted([ui EXCEPT !.queryErrors = @ \cup {tab.query}], tab.query)
    ELSE ui

\* raise_query_errors, for every tab.
RaiseQueryErrors(ui, snap) ==
    ForEach(ui.tabs, ui, LAMBDA screen, tab : RaiseQueryError(screen, snap, tab))

\* The runs its tabs show.
Mine(ui) == {tab.query : tab \in TabsOf(ui)} \ {None}

\* raise_approvals: the first question of this screen's own that it has not
\* asked; without one, whatever dialog offers a choice goes.
RaiseApprovals(ui, snap) ==
    LET asking == First(QuerySeq, {q \in Mine(ui) \ ui.askedApproval : snap.queries[q].needs})
    IN IF asking # None
       THEN [ui EXCEPT !.askedApproval = @ \cup {asking},
                       !.menu = FALSE,
                       !.modal = Dialog("question", asking,
                                        Action("Approve", None, asking, None))]
       ELSE IF ui.modal # None /\ ui.modal.intent # None THEN [ui EXCEPT !.modal = None]
       ELSE ui

\* Slip: only the tab in front.
CloseFrontDisconnected(ui, snap) ==
    IF \E tab \in Active(ui) : tab.kind = "Preview" /\ snap.conns[tab.conn].status = "Closed"
    THEN CloseTab(ui, ui.active)
    ELSE ui

\* close_disconnected_tabs: previews go with their connection, writing stays.
CloseDisconnected(ui, snap) ==
    ForEach(ui.tabs, ui,
            LAMBDA screen, tab :
               IF tab.kind = "Preview" /\ snap.conns[tab.conn].status = "Closed"
               THEN CloseTab(screen, tab.id) ELSE screen)

Raised(ui, snap) ==
    LET failures == RaiseConnectionFailure(ui, snap)
        approvals == RaiseApprovals(RaisePreviewErrors(failures, snap), snap)
    IN CloseDisconnected(RaiseQueryErrors(approvals, snap), snap)

\* draw: an empty or running SQL tab is measured by its statement.
Measured(ui, snap) ==
    LET tabs == {tab \in Active(ui) : tab.kind = "Sql" /\ RowCount(tab, snap) = 0}
        lines == 1
    IN IF tabs = {} THEN ui
       ELSE WithGrid([ui EXCEPT !.sqlLines = lines], ui.active,
              [GridOf(ui, ui.active) EXCEPT !.offset = Least(@, lines - 1)])

=============================================================================
