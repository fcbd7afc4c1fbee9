-------------------------------- MODULE Grid ---------------------------------
(***************************************************************************)
(* The grid of rows and the pointer over it (sqlake-tui: datagrid.rs,      *)
(* grid.rs, chrome.rs, hit.rs, mouse.rs, and the half of ui.rs that keeps a*)
(* tab's view of its rows).                                                *)
(*                                                                         *)
(* A frame says where everything was drawn, and a press means what was     *)
(* drawn there.  Rows, columns and cells of the screen count from 0.  Of a *)
(* value, only which row of which answer it is of is kept, and of a column *)
(* how wide what was sampled of it is.  Left out: glyphs and colours, the  *)
(* context menu (module Keys) and the rows of the explorer (module Screen).*)
(***************************************************************************)
EXTENDS Integers, SequencesExt, Options, TLC

LOCAL INSTANCE Panes

CONSTANTS
    Columns,     \* how many columns the rows have
    Sampled,     \* [BOOLEAN -> [columns -> width]]: what answers are sampled at
    MinWidth,    \* grid.rs MIN_WIDTH, of a column nobody has dragged
    MaxWidth,    \* grid.rs MAX_WIDTH
    MinPane,     \* MIN_PANE_WIDTH
    MinGrid,     \* MIN_GRID_HEIGHT
    DetailRows,  \* DEFAULT_DETAIL_HEIGHT
    PageLines,   \* PAGE_LINES
    MinScreen,   \* [w, h]: chrome.rs MIN_WIDTH, MIN_HEIGHT
    Sizes,       \* what the terminal can be resized to, as [w, h]
    AnswerSizes, \* how many rows an answer can have
    Points,      \* where the pointer is tried, as [x, y]
    Keystrokes,  \* the commands that are tried from the keyboard
    MaxBurst,    \* bound: events handled before one frame
    MaxGestures  \* bound: everything that happens

VARIABLES
    rows,      \* the answer in the snapshot, or Absent: loading, or failed
    size,      \* of the terminal
    view,      \* GridUi, and the splitter and the detail pane
    viewport,  \* the rows' own rectangle, as the last frame recorded it
    frame,     \* what was drawn last, or Absent
    mouse,     \* MouseState
    waiting,   \* events handled since the last frame
    stale,     \* history: the screen was divided anew, and not drawn yet
    followed,  \* history: the last thing done was to move the cursor
    gestures   \* what has happened so far

gridVars == <<rows, size, view, viewport, frame, mouse, waiting, stale, followed, gestures>>

Cols == 0 .. Columns - 1

Clamp(n, low, high) == Most(low, Least(n, high))

Rect(x, y, w, h) == [x |-> x, y |-> y, w |-> w, h |-> h]

Covers(rect, at) ==
    at.x \in rect.x .. rect.x + rect.w - 1 /\ at.y \in rect.y .. rect.y + rect.h - 1

------------------------------------------------------------------------------
(* Widths.                                                                 *)

\* RenderedGrid::new: sampled from the first page.
Natural(answer, col) == Clamp(Sampled[answer.wide][col], MinWidth, MaxWidth)

\* natural_width: nothing, while there are no rows.
NaturalNow(col) == IF rows = Absent THEN 0 ELSE Natural(rows, col)

\* GridUi::width
WidthOf(widths, col, natural) == OrElse(Get(widths, col), natural)

\* GridUi::resize
Resized(widths, col, delta, natural) ==
    [c \in DOMAIN widths \cup {col} |->
       IF c = col THEN Most(WidthOf(widths, col, natural) + delta, 1) ELSE widths[c]]

\* What columns take, each with the separator that follows it.
Taken(widths, cols) ==
    MapThenSumSet(LAMBDA c : WidthOf(widths, c, NaturalNow(c)) + 1, cols)

\* Slip: the separators are forgotten.
LeftmostUnseparated(v, col) ==
    IF viewport.w = 0 THEN 0
    ELSE Min({c \in 0 .. col :
                \/ c = col
                \/ Taken(v.widths, c .. col) <= viewport.w + Cardinality(c .. col)})

\* leftmost_visible: the cursor's own column is kept even when it is too wide.
Leftmost(v, col) ==
    IF viewport.w = 0 THEN 0
    ELSE Min({c \in 0 .. col : c = col \/ Taken(v.widths, c .. col) <= viewport.w})

------------------------------------------------------------------------------
(* Where everything goes.                                                  *)

\* explorer_width, from what was asked for.
ExplorerWidth(asked, total) ==
    LET ceiling == Less(total, MinPane + 1)
    IN Clamp(OrElse(asked, (total * 280) \div 1000), Least(MinPane, ceiling), ceiling)

\* detail_height
DetailHeight(open, total) == IF open THEN Least(DetailRows, Less(total, MinGrid)) ELSE 0

\* layout: the tab bar and the status bar take a line each, the splitter a
\* column, and the detail pane what the grid can spare.
GridPane(s, v) ==
    LET left == ExplorerWidth(v.explorer, s.w) + 1
        below == DetailHeight(v.detailOpen, s.h - 2)
    IN Rect(left, 1, s.w - left, s.h - 2 - below)

Splitter(s, v) == Rect(ExplorerWidth(v.explorer, s.w), 1, 1, s.h - 2)

\* pane: what is inside the border.
WithinBorder(pane) == Rect(pane.x + 1, pane.y + 1, Less(pane.w, 2), Less(pane.h, 2))

\* Slip: the pane is measured, and not its rows.
BodyAndHeader(area) == Rect(area.x, area.y, Less(area.w, 1), area.h)

\* body_area: without the header's row and the scrollbar's column.
Body(area) == Rect(area.x, area.y + 1, Less(area.w, 1), Less(area.h, 1))

\* visible_columns: the last is cut to the edge rather than dropped.
VisibleColumns(content, v, answer) ==
    LET width(c) == WidthOf(v.widths, c, Natural(answer, c))
        x(c) == content.x + MapThenSumSet(LAMBDA k : width(k) + 1, v.left .. c - 1)
        right == content.x + content.w
    IN {[col |-> c, x |-> x(c), w |-> Least(width(c), right - x(c))] :
          c \in {c \in v.left .. Columns - 1 : x(c) < right}}

\* scrollbar: where the thumb is on its track, or Absent when all fits.
Thumb(track, offset, content) ==
    LET length == Clamp((track * track) \div content, 1, track)
        span == content - track
    IN IF track = 0 \/ content <= track THEN Absent
       ELSE [at |-> (Least(offset, span) * (track - length)) \div span, length |-> length]

\* Everything a frame of the grid shows, as render_rows and body do: without rows
\* only a message, and with an empty answer only its header.
Framed(s, v, answer) ==
    LET area == WithinBorder(GridPane(s, v))
        barred == answer # Absent /\ answer.count > 0 /\ area.w > 1
        content == [area EXCEPT !.w = IF barred THEN @ - 1 ELSE @]
        page == Less(content.h, 1)
    IN [pane |-> GridPane(s, v), split |-> Splitter(s, v),
        area |-> area, content |-> content,
        columns |-> IF answer = Absent \/ area.w = 0 \/ area.h = 0 THEN {}
                    ELSE VisibleColumns(content, v, answer),
        rows |-> IF answer = Absent THEN {}
                 ELSE v.offset .. Least(answer.count, v.offset + page) - 1,
        offset |-> v.offset,
        thumb |-> IF ~barred THEN Absent ELSE Thumb(page, v.offset, answer.count)]

------------------------------------------------------------------------------
(* HitMap.                                                                 *)

Target(on, a, b) == [on |-> on, a |-> a, b |-> b]

Nowhere == Target("Nowhere", 0, 0)

Hit(rect, z, pushed, target) == [rect |-> rect, z |-> z, pushed |-> pushed, target |-> target]

\* grab_area
Grab(rect) == Rect(Less(rect.x, 1), rect.y, rect.w + 2, rect.h)

\* header, and the cells of body.
HeaderHits(f) ==
    {Hit(Rect(c.x, f.area.y, c.w, 1), 10, 0, Target("Header", c.col, 0)) : c \in f.columns}

EdgeHits(f) ==
    {Hit(Grab(Rect(c.x + c.w, f.area.y, 1, 1)), 20, c.col, Target("Edge", c.col, 0)) :
       c \in {c \in f.columns : c.x + c.w + 1 <= f.content.x + f.content.w}}

CellHits(f) ==
    {Hit(Rect(c.x, f.area.y + 1 + row - f.offset, c.w, 1), 10, 0, Target("Cell", row, c.col)) :
       c \in f.columns, row \in f.rows}

\* The track above the thumb, the thumb, and the track below it.
BarHits(f) ==
    LET x == f.area.x + f.area.w - 1
        top == f.area.y + 1
        part(from, length, name) == Hit(Rect(x, top + from, 1, length), 20, 0, Target(name, 0, 0))
        below == f.thumb.at + f.thumb.length
    IN IF f.thumb = Absent THEN {}
       ELSE {part(0, f.thumb.at, "Before"), part(f.thumb.at, f.thumb.length, "Thumb"),
             part(below, f.area.h - 1 - below, "After")}

\* The rest of the screen: the panes, and the splitter over their borders.
PaneHits(f) ==
    {Hit(f.pane, 0, 0, Target("Pane", 0, 0)), Hit(Grab(f.split), 20, -1, Target("Split", 0, 0))}

Hits(f) ==
    IF f = Absent THEN {}
    ELSE PaneHits(f) \cup HeaderHits(f) \cup EdgeHits(f) \cup CellHits(f) \cup BarHits(f)

\* at: the highest, and of equals the last that was pushed.
Under(f, place) ==
    LET under == {h \in Hits(f) : Covers(h.rect, place)}
        over(h) == h.z * 100 + h.pushed
    IN IF under = {} THEN Nowhere
       ELSE (CHOOSE h \in under : \A other \in under : over(h) >= over(other)).target


------------------------------------------------------------------------------
(* UiState::apply, for the commands that are about the grid and its pane.  *)

Cmd(op, a, b) == [op |-> op, a |-> a, b |-> b]

\* RenderedGrid is built where it is needed, for the rows there are.
Built(v) == [v EXCEPT !.built = OrElse(rows, @)]

\* set_offset
ScrolledTo(v, to) ==
    [v EXCEPT !.offset = Scrolled(to, IF rows = Absent THEN 0 ELSE rows.count, viewport.h)]

\* select_cell: the viewport follows the cursor.
Selected(v, row, col) ==
    LET to == Least(row, rows.count - 1)
        at == Least(col, Columns - 1)
    IN IF rows = Absent \/ rows.count = 0 THEN v
       ELSE Built([v EXCEPT !.row = to, !.col = at,
                            !.offset = ScrollIntoView(@, to, viewport.h),
                            !.left = Clamp(@, Leftmost(v, at), at)])

Apply(v, cmd) ==
    CASE cmd.op = "ScrollBy" -> ScrolledTo(v, Step(v.offset, cmd.a))
      [] cmd.op = "ScrollToStart" -> ScrolledTo(v, 0)
      [] cmd.op = "ScrollToEnd" -> ScrolledTo(v, IF rows = Absent THEN 0 ELSE rows.count)
      [] cmd.op = "ScrollXBy" ->
            [v EXCEPT !.left = Least(Step(@, cmd.a),
                                     IF rows = Absent THEN 0 ELSE Less(Columns, 1))]
      [] cmd.op \in {"SelectCell", "ExtendTo"} -> Selected(v, cmd.a, cmd.b)
      [] cmd.op \in {"MoveCell", "Extend"} -> Selected(v, Step(v.row, cmd.a), Step(v.col, cmd.b))
      [] cmd.op = "ResizeColumn" ->
            Built([v EXCEPT !.widths = Resized(@, cmd.a, cmd.b, NaturalNow(cmd.a))])
      [] cmd.op = "MoveSplit" ->
            [v EXCEPT !.explorer = Most(ExplorerWidth(@, v.screen.w) + cmd.a, 0)]
      [] cmd.op = "EvenSplit" -> [v EXCEPT !.explorer = Absent]
      [] cmd.op = "ToggleDetail" -> [v EXCEPT !.detailOpen = ~ @]

------------------------------------------------------------------------------
(* MouseState: what a press becomes, and what it asks for (input.rs        *)
(* mouse_intents).  A header that is clicked asks the store to sort.       *)

Gesture(by, target, dx, dy, from) ==
    [by |-> by, target |-> target, dx |-> dx, dy |-> dy, from |-> from]

Still(by, target) == Gesture(by, target, 0, 0, Nowhere)

Means(g) ==
    CASE g.target.on = "Cell" /\ g.by \in {"Down", "Click"} ->
            <<Cmd("SelectCell", g.target.a, g.target.b)>>
      [] g.target.on = "Cell" /\ g.by = "DragOver" /\ g.from.on = "Cell" ->
            <<Cmd("ExtendTo", g.target.a, g.target.b)>>
      [] g.target.on = "Edge" /\ g.by = "DragBy" -> <<Cmd("ResizeColumn", g.target.a, g.dx)>>
      [] g.target.on = "Thumb" /\ g.by = "DragBy" -> <<Cmd("ScrollBy", g.dy, 0)>>
      [] g.target.on = "Before" /\ g.by = "Click" -> <<Cmd("ScrollBy", -PageLines, 0)>>
      [] g.target.on = "After" /\ g.by = "Click" -> <<Cmd("ScrollBy", PageLines, 0)>>
      [] g.target.on = "Split" /\ g.by = "DragBy" -> <<Cmd("MoveSplit", g.dx, 0)>>
      [] g.target.on = "Split" /\ g.by = "DoubleClick" -> <<Cmd("EvenSplit", 0, 0)>>
      [] OTHER -> <<>>

Meaning(gs) == FlattenSeq([i \in DOMAIN gs |-> Means(gs[i])])

\* near, at POINTER_SLOP 1
Near(a, b) == a.x - b.x \in -1 .. 1 /\ a.y - b.y \in -1 .. 1

IdleMouse == [pressed |-> Absent, click |-> Absent]

\* down
Pressed(m, place) ==
    LET target == Under(frame, place)
    IN IF target = Nowhere THEN [mouse |-> [m EXCEPT !.pressed = Absent], told |-> <<>>]
       ELSE [mouse |-> [m EXCEPT !.pressed = [target |-> target, origin |-> place,
                                              last |-> place, moved |-> FALSE]],
             told |-> <<Still("Down", target)>>]

\* drag: about what it started on, and about what is under the pointer now.
Dragged(m, place) ==
    LET press == m.pressed
        over == Under(frame, place)
    IN IF press = Absent THEN [mouse |-> m, told |-> <<>>]
       ELSE IF press.last = place THEN [mouse |-> m, told |-> <<>>]
       ELSE [mouse |-> [m EXCEPT !.pressed.last = place, !.pressed.moved = TRUE],
             told |-> <<Gesture("DragBy", press.target, place.x - press.last.x,
                                place.y - press.last.y, Nowhere)>>
                      \o IF over = Nowhere THEN <<>>
                         ELSE <<Gesture("DragOver", over, 0, 0, press.target)>>]

\* up: a drag is not a click, and two clicks are one double click while they are
\* soon and near, and on the same thing.
Lifted(m, place, soon) ==
    LET press == m.pressed
        again == /\ m.click # Absent /\ soon
                 /\ m.click.target = press.target
                 /\ Near(m.click.at, press.origin)
        click == [target |-> press.target, at |-> press.origin]
    IN IF press = Absent THEN [mouse |-> m, told |-> <<>>]
       ELSE IF press.moved \/ ~Near(press.origin, place)
            THEN [mouse |-> IdleMouse, told |-> <<Still("Up", press.target)>>]
       ELSE IF again
            THEN [mouse |-> IdleMouse, told |-> <<Still("DoubleClick", press.target)>>]
       ELSE [mouse |-> [pressed |-> Absent, click |-> click],
             told |-> <<Still("Click", press.target)>>]

------------------------------------------------------------------------------
(* The loop (run.rs): a frame, then what happened, and what else has by    *)
(* then.                                                                   *)

NewView == [offset |-> 0, left |-> 0, row |-> 0, col |-> 0,
            widths |-> [c \in {} |-> 0], built |-> Absent, document |-> Absent,
            explorer |-> Absent, detailOpen |-> FALSE,
            screen |-> [w |-> 0, h |-> 0]]

GridInit ==
    /\ rows \in [count : AnswerSizes, wide : BOOLEAN, version : {0}]
    /\ size \in Sizes
    /\ view = NewView
    /\ viewport = Rect(0, 0, 0, 0)
    /\ frame = Absent
    /\ mouse = IdleMouse
    /\ waiting = 1
    /\ stale = TRUE
    /\ followed = FALSE
    /\ gestures = 0

\* GridUi::detail: built once per cell.
Document(v) ==
    LET at == <<v.row, v.col>>
    IN IF v.document # Absent /\ v.document.at = at THEN v.document
       ELSE IF v.built = Absent \/ v.row >= v.built.count THEN Absent
       ELSE [at |-> at, of |-> [version |-> v.built.version, row |-> v.row, col |-> v.col]]

TooSmall == size.w < MinScreen.w \/ size.h < MinScreen.h

\* draw: it also builds what the frame needs and records where it went.
Draw ==
    LET built == IF rows = Absent THEN view ELSE Built(view)
        drawn == Framed(size, view, rows)
        shown == DetailHeight(view.detailOpen, size.h - 2) > 0
        document == IF shown THEN Document(built) ELSE Absent
    IN /\ waiting > 0
       /\ waiting' = 0
       /\ stale' = FALSE
       /\ followed' = (followed /\ ~stale)
       /\ IF TooSmall THEN frame' = Absent /\ UNCHANGED <<view, viewport>>
          ELSE /\ viewport' = Body(drawn.area)
               /\ view' = [built EXCEPT !.document = OrElse(document, @), !.screen = size]
               /\ frame' = drawn @@ [document |-> document]
       /\ UNCHANGED <<rows, size, mouse, gestures>>

CursorCommands == {"SelectCell", "MoveCell", "Extend", "ExtendTo"}

\* What divides the screen anew, or moves the viewport off the cursor.
Dividing == {"MoveSplit", "EvenSplit", "ToggleDetail"}

\* Every event: the pointer is where it is after it, and its commands are applied.
Handle(pointer, cmds) ==
    /\ waiting < MaxBurst
    /\ mouse' = pointer
    /\ view' = FoldLeft(Apply, view, cmds)
    /\ waiting' = IF cmds = <<>> THEN waiting ELSE waiting + 1
    /\ stale' = (stale \/ \E i \in DOMAIN cmds : cmds[i].op \in Dividing)
    /\ followed' = IF cmds = <<>> THEN followed
                   ELSE /\ cmds[Len(cmds)].op \in CursorCommands
                        /\ rows # Absent /\ rows.count > 0 /\ frame # Absent /\ ~stale
    /\ UNCHANGED <<rows, size, viewport, frame>>

Counted == gestures < MaxGestures /\ gestures' = gestures + 1

Down(place) ==
    LET does == Pressed(mouse, place)
    IN Counted /\ Handle(does.mouse, Meaning(does.told))

Drag(place) ==
    LET does == Dragged(mouse, place)
    IN mouse.pressed # Absent /\ Counted /\ Handle(does.mouse, Meaning(does.told))

Up(place, soon) ==
    LET does == Lifted(mouse, place, soon)
    IN mouse.pressed # Absent /\ Counted /\ Handle(does.mouse, Meaning(does.told))

Press(cmd) == Counted /\ Handle(mouse, <<cmd>>)

\* Resize: every rectangle the pointer was measured against is gone.
Resize(to) ==
    /\ Counted
    /\ to # size
    /\ waiting < MaxBurst
    /\ size' = to
    /\ mouse' = IdleMouse
    /\ waiting' = waiting + 1
    /\ stale' = TRUE
    /\ followed' = FALSE
    /\ UNCHANGED <<rows, view, viewport, frame>>

\* A snapshot: another answer under some order, the next page, or no rows at all
\* while they are fetched again.
Answered(answer) ==
    /\ Counted
    /\ waiting = 0
    /\ rows' = answer
    /\ waiting' = 1
    /\ followed' = /\ followed /\ rows # Absent /\ answer # Absent
                   /\ answer.version = rows.version
    /\ UNCHANGED <<size, view, viewport, frame, mouse, stale>>

RowsReplaced ==
    \E count \in AnswerSizes, wide \in BOOLEAN :
       Answered([count |-> count, wide |-> wide, version |-> gestures + 1])

RowsRefetched == rows # Absent /\ Answered(Absent)

RowsAppended ==
    /\ rows # Absent
    /\ \E count \in AnswerSizes : count > rows.count /\ Answered([rows EXCEPT !.count = count])

GridNext ==
    \/ Draw
    \/ \E place \in Points : Down(place) \/ Drag(place)
    \/ \E place \in Points, soon \in BOOLEAN : Up(place, soon)
    \/ \E cmd \in Keystrokes : Press(cmd)
    \/ \E to \in Sizes : Resize(to)
    \/ RowsReplaced \/ RowsRefetched \/ RowsAppended

GridSpec == GridInit /\ [][GridNext]_gridVars

------------------------------------------------------------------------------
(* What must hold.                                                         *)

\* A frame of the rows there are, with nothing handled since.
Showing == waiting = 0 /\ frame # Absent /\ rows # Absent

(* The cursor is in sight: after a command that moved it, the frame shows  *)
(* its row, and its column whole -- or cut by the pane's edge only because *)
(* it is the first one (ui.rs select_cell, datagrid.rs visible_columns).   *)
CursorStaysInSight ==
    Showing /\ followed /\ rows.count > 0 =>
       /\ view.row \in frame.rows
       /\ \E c \in frame.columns :
             /\ c.col = view.col
             /\ \/ view.left = view.col
                \/ c.w = WidthOf(view.widths, c.col, Natural(rows, c.col))

(* The end can be reached: whatever was dragged, resized or opened,        *)
(* scrolling to the end draws the last row there is with the thumb at the  *)
(* bottom of its track, and the last column can be scrolled to (datagrid.rs*)
(* body_area: a viewport measured otherwise "stops a row short of the      *)
(* end").                                                                  *)
TheEndCanBeReached ==
    Showing /\ rows.count > 0 =>
       LET down == Framed(size, Apply(view, Cmd("ScrollToEnd", 0, 0)), rows)
           across == Framed(size, Apply(view, Cmd("ScrollXBy", Columns, 0)), rows)
       IN /\ rows.count - 1 \in down.rows
          /\ down.thumb # Absent => down.thumb.at + down.thumb.length = Less(down.content.h, 1)
          /\ \E c \in across.columns : c.col = Columns - 1

\* Nothing is out of reach: neither the cell the cursor is on nor the end.
NothingIsOutOfReach == CursorStaysInSight /\ TheEndCanBeReached

(* The detail pane shows the cell the cursor is on, in full (README.md:52).*)
DetailIsOfTheCell ==
    Showing /\ frame.document # Absent =>
       frame.document.of = [version |-> rows.version, row |-> view.row, col |-> view.col]

==============================================================================
