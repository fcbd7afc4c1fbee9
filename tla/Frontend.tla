------------------------------- MODULE Frontend -------------------------------
(***************************************************************************)
(* The terminal front-end and the store together (sqlake-tui/src/run.rs).     *)
(*                                                                         *)
(* An iteration of the front-end's loop draws, and then takes either what was  *)
(* pressed or a new snapshot, and with it everything else already pressed.     *)
(* The events of one iteration are all read against the same screen, and only  *)
(* then are the intents they came to carried out one after another.            *)
(***************************************************************************)
EXTENDS Keys

CONSTANTS
    Scenes,     \* what may be pressed and clicked together, how often, how many
                \* events one iteration may find waiting, what was pressed before,
                \* and who else there is
    MaxTabs     \* bound: tabs opened in one behaviour

ASSUME FrontendAssumption ==
    /\ MaxTabs \in Nat
    /\ \A s \in Scenes :
          /\ s.presses \in Nat /\ s.burst \in Nat \ {0}
          /\ Len(s.before) \in Nat
          /\ \A i \in 1 .. Len(s.before) :
                ~s.before[i].mouse /\ s.before[i].key.code \notin {"r", "Enter"}
          /\ \A key \in s.keys : key.code # "e"

VARIABLES
    ui,          \* UiState
    snap,        \* the snapshot the screen shows
    published,   \* whether the store has published another since
    tried,       \* [ConnIds -> [Tables -> Nat]]: PreviewState::attempts
    minted,      \* ids of connections and queries the front-end has made
    scene,       \* which of the scenes this behaviour is
    presses      \* events so far

frontVars == <<ui, snap, published, tried, minted, scene, presses>>
allVars == <<vars, queueVars, frontVars>>

-----------------------------------------------------------------------------
(* One iteration.                                                            *)

\* ConnId::new and QueryId::new for the i-th event of an iteration.
Fresh(i) ==
    LET unused(ids) == {k \in 1 .. Len(ids) : ids[k] \notin minted}
        ith(ids) == {k \in unused(ids) :
                       Cardinality({j \in unused(ids) : j <= k}) = i}
        nth(ids) == IF ith(ids) = {} THEN None ELSE ids[CHOOSE k \in ith(ids) : TRUE]
    IN [conn |-> nth(ConnSeq), query |-> nth(QuerySeq)]

\* The events somebody may make while the screen shows what it does.
Press(key, edited) == [mouse |-> FALSE, key |-> key, edited |-> edited, target |-> None]
Click(target) == [mouse |-> TRUE, key |-> None, edited |-> None, target |-> target]

\* What an editor may come back with.
Edits == [outcome : {"Changed"}, text : Statements \cup {None}]
           \cup [outcome : {"Unchanged", "Returned", "Failed"}, text : {None}]

Events(drawn) ==
    {Press(key, None) : key \in scene.keys}
      \cup {Press(Key("e"), edited) : edited \in scene.edits}
      \cup {Click(target) : target \in {t \in Targets(drawn, snap) : t.on \in scene.clicks}}

\* from_event
Intents(screen, shown, event, i) ==
    IF event.mouse THEN OnMouse(screen, shown, event.target, Fresh(i))
    ELSE OnKey(screen, shown, event.key, Fresh(i), event.edited)

\* Slip: a run that is about to be replaced is left in the store.
StartKeeping(done, action) ==
    LET tabs == {tab \in Active(done.ui) : tab.kind = "Sql"}
        tab == CHOOSE tab \in tabs : TRUE
    IN IF tabs = {} THEN [done EXCEPT !.out = Append(@, action)]
       ELSE [ui |-> Retabbed(done.ui, tab.id, [tab EXCEPT !.query = action.item]),
             out |-> Append(done.out, action)]

\* A run is recorded in the tab in front, and the one it showed is forgotten.
Start(done, action) ==
    LET tabs == {tab \in Active(done.ui) : tab.kind = "Sql"}
        tab == CHOOSE tab \in tabs : TRUE
        forgets == IF tab.query = None THEN <<>>
                   ELSE <<Action("Forget", None, tab.query, None)>>
    IN IF tabs = {} THEN [done EXCEPT !.out = Append(@, action)]
       ELSE [ui |-> Retabbed(done.ui, tab.id, [tab EXCEPT !.query = action.item]),
             out |-> done.out \o forgets \o <<action>>]

\* apply_edit, of a tab that has something to write.
Edited(screen, id, edited) ==
    LET tabs == {tab \in TabsOf(screen) : tab.id = id /\ tab.kind = "Sql"}
        tab == CHOOSE tab \in tabs : TRUE
    IN IF tabs = {} \/ edited.outcome = "Unchanged" THEN screen
       ELSE IF edited.outcome = "Changed"
       THEN Retabbed(screen, id, [tab EXCEPT !.text = edited.text])
       ELSE IF edited.outcome = "Returned" THEN Toasted(screen, "editor")
       ELSE [screen EXCEPT !.menu = FALSE, !.modal = Dialog("editor", id, None)]

\* One intent, after those before it.
Carry(done, shown, intent) ==
    IF intent.cmd = "App" /\ intent.at.op = "Run" THEN Start(done, intent.at)
    ELSE IF intent.cmd = "App" THEN [done EXCEPT !.out = Append(@, intent.at)]
    ELSE IF intent.cmd = "Edit"
    THEN [done EXCEPT !.ui = Edited(@, intent.at, intent.with)]
    ELSE [ApplyView(done.ui, shown, intent) EXCEPT !.out = done.out \o @]

\* The intents of one event, one after another.
CarryAll(done, shown, intents) ==
    LET after[k \in 0 .. Len(intents)] ==
            IF k = 0 THEN done ELSE Carry(after[k - 1], shown, intents[k])
    IN after[Len(intents)]

\* What every event that was waiting means: all of them are read before the first
\* is carried out.
Read(screen, shown, burst) ==
    [i \in 1 .. Len(burst) |-> Intents(screen, shown, burst[i], i)]

Carried(screen, shown, read) ==
    LET after[i \in 0 .. Len(read)] ==
            IF i = 0 THEN Just(screen) ELSE CarryAll(after[i - 1], shown, read[i])
    IN after[Len(read)]

\* What they ask of the store by themselves.
Orders(read) ==
    UNION {{read[i][k].at : k \in {k \in 1 .. Len(read[i]) : read[i][k].cmd = "App"}} :
           i \in 1 .. Len(read)}

\* Bound: no event asks for an id, a tab or a search there is no room for.
Affordable(orders, done) ==
    /\ done.ui.nextTab <= MaxTabs
    /\ \A order \in orders :
          /\ order.op = "Run" => order.item # None
          /\ order.op = "Connect" => order.conn # None
    /\ \A i \in 1 .. Len(done.out) :
          done.out[i].op = "Search" => done.out[i].arg \in Terms

Minted(orders) ==
    {order.item : order \in {order \in orders : order.op = "Run"}}
      \cup {order.conn : order \in {order \in orders : order.op = "Connect"}}

\* Everything found waiting is read against one screen, and then carried out.
Carries(screen, shown, burst) ==
    \E read \in {Read(screen, shown, burst)} :
    \E orders \in {Orders(read)}, done \in {Carried(screen, shown, read)} :
       /\ Affordable(orders, done)
       /\ ui' = done.ui
       /\ inbox' = inbox \o done.out
       /\ minted' = minted \cup Minted(orders)
       /\ presses' = presses + Len(burst)
       /\ presses' <= scene.presses

Bursts(drawn, n) == UNION {[1 .. k -> Events(drawn)] : k \in n .. scene.burst}

\* Bound: in some scenes nobody presses anything before the last is done.
Unhurried ==
    /\ inbox = <<>> /\ ~published
    /\ tasks = {} /\ events = <<>> /\ jobs = {} /\ writing = {}

\* Something is pressed.
Typed ==
    /\ ~snap.quit
    /\ scene.patient => Unhurried
    /\ \E drawn \in {Measured(ui, snap)} :
       \E burst \in Bursts(drawn, 1) : Carries(drawn, snap, burst)
    /\ UNCHANGED <<vars, applied, running, snap, published, tried, scene>>

\* A new snapshot arrives: what it raises, and whatever was pressed meanwhile,
\* at what the last frame drew.
Looked ==
    /\ ~snap.quit
    /\ published
    /\ published' = FALSE
    /\ snap' = View(tried)
    /\ \E drawn \in {Measured(ui, snap)}, shown \in {snap'} :
       \E burst \in IF scene.patient THEN {<<>>} ELSE Bursts(drawn, 0),
          screen \in {Raised(drawn, shown)} :
          Carries(screen, shown, burst)
    /\ UNCHANGED <<vars, applied, running, tried, scene>>

-----------------------------------------------------------------------------
(* Everything else.                                                          *)

\* Slip: only those that brought rows.
CountedRows ==
    [c \in ConnIds |-> [t \in Tables |->
        IF previews'[c][t].data = "absent" THEN 0
        ELSE IF previews'[c][t].rows # previews[c][t].rows THEN tried[c][t] + 1
        ELSE tried[c][t]]]

\* Page requests that came back, or were given up.
Counted ==
    [c \in ConnIds |-> [t \in Tables |->
        IF previews'[c][t].data = "absent" THEN 0
        ELSE IF previews[c][t].pending # None /\ previews'[c][t].pending = None
        THEN tried[c][t] + 1
        ELSE tried[c][t]]]

Loop ==
    /\ Apply \/ Handle
    /\ published' = TRUE
    /\ tried' = Counted
    /\ UNCHANGED <<ui, snap, minted, scene, presses>>

Tasks(id) ==
    /\ \E t \in tasks : t.id = id /\ Works(t)
    /\ UNCHANGED <<queueVars, frontVars>>

Pool == Blocking /\ UNCHANGED <<queueVars, frontVars>>

Elsewhere == scene.outside /\ Outside /\ UNCHANGED <<queueVars, frontVars>>

\* A client of the socket runs a statement of its own.
Agent ==
    /\ scene.agent
    /\ running
    /\ \E c \in ConnIds, q \in {Fresh(1).query} \ {None}, s \in Statements :
          /\ conns[c].status = "Ready"
          /\ inbox' = Append(inbox, Action("Run", c, q, s))
          /\ minted' = minted \cup {q}
    /\ UNCHANGED <<vars, applied, running, ui, snap, published, tried, scene, presses>>

\* The events of a scene that are over when a behaviour begins: they ask
\* nothing of the store.
Began(screen, shown) ==
    LET after[i \in 0 .. Len(scene.before)] ==
            IF i = 0 THEN Just(screen)
            ELSE CarryAll(after[i - 1], shown,
                          Intents(after[i - 1].ui, shown, scene.before[i], 1))
    IN after[Len(scene.before)]

FrontendInit ==
    /\ scene \in Scenes
    /\ Underway(TRUE)
    /\ saved = scene.saved
    /\ \A c \in Attached : conns[c].sortable = scene.sortable
    /\ tried = [c \in ConnIds |-> [t \in Tables |-> 0]]
    /\ snap = View(tried)
    /\ minted = Attached
    /\ \E screen \in {Raised(NewScreen, snap)} :
       \E began \in {Began(screen, snap)} : began.out = <<>> /\ ui = began.ui
    /\ published = FALSE
    /\ presses = 0

FrontendNext ==
    \/ Typed
    \/ Looked
    \/ Loop
    \/ \E id \in BusyId : Tasks(id)
    \/ Pool
    \/ Elsewhere
    \/ Agent

FrontendSpec == FrontendInit /\ [][FrontendNext]_allVars

-----------------------------------------------------------------------------
(* What holds of the screen and the store together.                          *)

\* One tab for a relation, for a definition and for the history, and one for a
\* run: two would fight over one cursor in the store, and closing either would
\* take the rows from under the other (ui.rs OpenTab, input.rs close_tab).
ScreenOK ==
    /\ \A i, k \in 1 .. Len(ui.tabs) : i # k =>
          /\ ui.tabs[i].id # ui.tabs[k].id
          /\ ui.tabs[i].kind \in {"Preview", "Definition", "History"} =>
                ~Same(ui.tabs[i], ui.tabs[k])
          /\ ui.tabs[i].query # None => ui.tabs[i].query # ui.tabs[k].query
    /\ IF ui.tabs = <<>> THEN ui.active = None ELSE ui.active \in TabIds(ui)
    /\ DOMAIN ui.grids \subseteq TabIds(ui)

\* Whether the front-end has asked for something that is still in the queue.
Queued(op, c, item) ==
    \E i \in 1 .. Len(inbox) :
       inbox[i].op = op /\ inbox[i].conn \in {c, None} /\ inbox[i].item = item

\* Nothing is kept in the store that no tab can reach again: a preview that is
\* there and, where keys come one at a time, a run of this screen's own is shown by
\* a tab, or its end is on the way (run.rs: "leaving it behind would keep a whole
\* result set in the store").
NothingIsLeftBehind ==
    /\ \A q \in minted \cap QueryIds :
          Known(q) /\ scene.burst = 1 /\ ~scene.agent =>
             q \in Mine(ui) \/ Queued("Forget", None, q)
    /\ \A c \in ConnIds, t \in Tables :
          previews[c][t].data # "absent" =>
             \/ \E tab \in TabsOf(ui) : Same(tab, Content("Preview", c, t))
             \/ Queued("ForgetPreview", c, t)

\* What somebody wrote is changed by their editor and by nothing else: neither a
\* template nor an old run is put over it (ui.rs insert).
WritingIsKept ==
    [][\A tab \in TabsOf(ui), next \in TabsOf(ui') :
          (tab.id = next.id /\ tab.text # None /\ scene.edits = {}) =>
             next.text = tab.text]_allVars

\* A preview whose page failed, was cancelled or was turned away can be scrolled
\* for another: once nothing is under way and the screen shows it, the tab has
\* not already spent its one request (ui.rs wants_a_page).
NeverWedged ==
    \A tab \in TabsOf(ui) :
       LET preview == previews[tab.conn][tab.item]
       IN (/\ tab.kind = "Preview"
           /\ preview.data = "Ready"
           /\ ~preview.exhausted
           /\ preview.pending = None
           /\ inbox = <<>>
           /\ ~published) =>
             GridOf(ui, tab.id).asked # snap.previews[tab.conn][tab.item].attempts

\* A dialog takes every key: until it is answered or put away, nothing behind it
\* moves, opens, closes or is typed into (input.rs key_context).
NothingMovesBehindADialog ==
    [][(ui.modal # None /\ published' = published) =>
          /\ <<ui.tabs, ui.active, ui.selected, ui.filter, ui.palette>>
               = <<ui'.tabs, ui'.active, ui'.selected, ui'.filter, ui'.palette>>
          /\ presses' # presses =>
               \A i \in Len(inbox) + 1 .. Len(inbox') : inbox'[i] = ui.modal.intent]_allVars

\* A question that is up stays up until somebody answers it or the store no
\* longer asks it (ui.rs raise_approvals: a dialog goes when its question is one
\* "the store no longer has open").
QuestionStaysUp ==
    [][(/\ presses' = presses
        /\ ui.modal # None
        /\ ui.modal.kind = "question"
        /\ ui'.modal # ui.modal) => ~snap'.queries[ui.modal.item].needs]_allVars

\* A template that is there is replaced or deleted only by the answer to a dialog
\* that named it (ui.rs commit_template).
NamesAreAskedAbout ==
    [][\A t \in Saved, op \in {"Replace", "Delete"}, i \in Len(inbox) + 1 .. Len(inbox') :
          inbox'[i] = Action(op, None, t, None) =>
             ui.modal # None /\ ui.modal.intent = Action(op, None, t, None)]_allVars

\* The row that is selected is the one that was, for as long as what is typed
\* into the search leaves it on the screen (ui.rs set_filter).
SelectionIsFollowed ==
    [][(/\ ui'.filter # ui.filter
        /\ presses' = presses + 1
        /\ NodeAt(ui, snap', ui.selected) # None
        /\ \E row \in 0 .. Len(Seen(ui', snap')) :
              NodeAt(ui', snap', row) = NodeAt(ui, snap', ui.selected)) =>
          NodeAt(ui', snap', ui'.selected) = NodeAt(ui, snap', ui.selected)]_allVars

\* The screen catches up with the store.  Once it shows what the store has, a run
\* that failed behind one of its tabs has been said, whichever tab was in front and
\* whatever else the snapshot it failed in had to say (ui.rs raise_query_errors);
\* and once it asks for nothing either, no preview of a closed connection stays up,
\* blank for ever (ui.rs close_disconnected_tabs).
ScreenCatchesUp ==
    ~published =>
        /\ \A q \in Mine(ui) : queries[q].data = "Failed" => q \in ui.queryErrors
        /\ inbox = <<>> =>
              \A tab \in TabsOf(ui) :
                 tab.kind = "Preview" => conns[tab.conn].status # "Closed"

\* Nothing somebody wrote or saved is lost unasked: neither what is in an editor nor
\* a template.
NothingIsLostUnasked == WritingIsKept /\ NamesAreAskedAbout

=============================================================================
