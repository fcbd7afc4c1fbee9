-------------------------------- MODULE Panes --------------------------------
(***************************************************************************)
(* What the terminal front-end computes about a pane: where its cursor and    *)
(* its first row go, which rows of the explorer a search leaves, and which    *)
(* cells are selected (sqlake-tui: ui.rs, tree.rs, palette.rs, copy.rs).      *)
(* Rows and columns count from 0, as in the code.                           *)
(***************************************************************************)
EXTENDS Integers, Sequences

Seqs == INSTANCE SequencesExt

Least(a, b) == IF a < b THEN a ELSE b
Most(a, b) == IF a < b THEN b ELSE a

\* saturating_sub
Less(a, b) == Most(a - b, 0)

\* step: a signed delta, never below the first.
Step(from, delta) == Most(from + delta, 0)

\* scroll_into_view: the smallest scroll that keeps `index` visible.
ScrollIntoView(offset, index, page) ==
    IF page = 0 THEN offset
    ELSE IF index < offset THEN index
    ELSE IF index >= offset + page THEN index + 1 - page
    ELSE offset

\* set_offset, on a pane of `page` rows with `content` to show.
Scrolled(to, content, page) == Least(to, Less(content, page))

\* select_section, move_selection, move_to: a place among `n`, or the first.
Among(at, n) == Least(Most(at, 0), Less(n, 1))

\* filter: those of a sequence that are in a set, in its order.
Those(seq, set) ==
    LET upTo[i \in 0 .. Len(seq)] ==
            IF i = 0 THEN <<>>
            ELSE IF seq[i] \in set THEN Append(upTo[i - 1], seq[i])
            ELSE upTo[i - 1]
    IN upTo[Len(seq)]

-----------------------------------------------------------------------------
(* The explorer's search.                                                   *)

\* str::contains
Holds(label, text) ==
    \E i \in 0 .. Len(label) - Len(text) : SubSeq(label, i + 1, i + Len(text)) = text

\* `visible`, one row further up: it stays if it matches, or if it is
\* shallower than all that was kept so far.
KeepRow(nodes, text, kept, i) ==
    IF \/ Holds(nodes[i].label, text)
       \/ kept # {} /\ \A k \in kept : nodes[k].depth > nodes[i].depth
    THEN kept \cup {i}
    ELSE kept

\* tree.rs visible: the rows of a flattened tree a search leaves, from the last
\* to the first.
VisibleRows(nodes, text) ==
    Seqs!FoldRight(LAMBDA i, kept : KeepRow(nodes, text, kept, i),
              [i \in 1 .. Len(nodes) |-> i], {})

\* The rows in the order they are drawn; an empty box hides none.
Drawn(nodes, text) ==
    LET all == [i \in 1 .. Len(nodes) |-> i]
        kept == VisibleRows(nodes, text)
    IN IF text = <<>> THEN all ELSE Those(all, kept)

=============================================================================
