--------------------------- MODULE ExecutionBoard ---------------------------
(***************************************************************************)
(* The page on which a user drags the cards of an execution board          *)
(* (client/src/pages/ExecutionBoardPage.tsx), over the layout that the     *)
(* server stores (server/src/routes/requirements.ts).                      *)
(*                                                                         *)
(* A product may have several boards, and a card is in a column of one of  *)
(* them or in none.  A board shows all cards of the product: one that is   *)
(* in no column of it goes where its status belongs.  A drop sends the     *)
(* places of all cards, not of the one that was dragged.  The page shows   *)
(* what it sent until it has loaded again, and neither saves nor loads are *)
(* numbered.                                                               *)
(*                                                                         *)
(* The columns stay as they are (ExecutionCards has their changes, and     *)
(* more of the other requests on cards); filters, under which nothing can  *)
(* be dragged, and other windows are left out: what other people do is the *)
(* actions of others here.                                                 *)
(***************************************************************************)
EXTENDS Naturals, Sequences, FiniteSetsExt, SequencesExt

CONSTANTS
    Cards,      \* ids, in their order
    Columns,    \* 1 .. n, in the order of the boards and on each of them
    Boards, BoardOf, MappedTo,
    Calls,      \* slots for requests of the page
    MaxOps

VARIABLES
    cards,      \* rows of the requirements
    board,      \* the board selected
    loaded,     \* rows as the page has loaded them
    shown,      \* columnItemIds
    loading,
    call,       \* requests of the page
    stale,      \* history: the screen may differ from the rows
    ops         \* number of drops, mishaps and acts of others

vars == <<cards, board, loaded, shown, loading, call, stale, ops>>

(* No column, or the place of the cards that are in none. *)
Unassigned == 0

Status == {"NOT_STARTED", "IN_PROGRESS", "DONE"}
Row == [status : Status \cup {"none"}, done : BOOLEAN,
        place : Columns \cup {Unassigned}, order : Nat]
NoRow == [status |-> "none", done |-> FALSE, place |-> Unassigned, order |-> 0]
NoRows == [c \in Cards |-> NoRow]

Existing(rows) == {c \in Cards : rows[c].status # "none"}
ColumnsOf(b) == {k \in Columns : BoardOf[k] = b}

-----------------------------------------------------------------------------
(* What the page makes of the rows *)
effectivePmStatus(r) == IF r.done \/ r.status = "DONE" THEN "DONE" ELSE r.status

(* Mutant: the first column of the board for every card that is in none. *)
FirstColumn(r, b) == IF ColumnsOf(b) = {} THEN Unassigned ELSE Min(ColumnsOf(b))

columnIdForStatusFallback(r, b) ==
    LET fit == {k \in ColumnsOf(b) : MappedTo[k] = effectivePmStatus(r)}
    IN  IF effectivePmStatus(r) = "NOT_STARTED" \/ fit = {} THEN Unassigned ELSE Min(fit)

ColumnKey(r, b) ==
    IF r.place \in ColumnsOf(b) THEN r.place ELSE columnIdForStatusFallback(r, b)

(* Cards in their order, by the number of those before each.               *)
Before(rows, c, d) ==
    rows[c].order < rows[d].order \/ (rows[c].order = rows[d].order /\ c < d)

Rank(rows, cs, c) == Cardinality({d \in cs : Before(rows, d, c)})

Sorted(rows, cs) == [n \in 1 .. Cardinality(cs) |-> CHOOSE c \in cs : Rank(rows, cs, c) = n - 1]

Shows(rows, b, k) == {c \in Existing(rows) : ColumnKey(rows[c], b) = k}

buildColumnItemIds(rows, b) ==
    [k \in ColumnsOf(b) \cup {Unassigned} |-> Sorted(rows, Shows(rows, b, k))]

-----------------------------------------------------------------------------
(* A save has the map and the card that was dropped (drop), and what the   *)
(* statuses were then (was); a load in the end has the rows (rows).  Those *)
(* of a page that was left are gone.                                       *)
NoCall == [kind |-> "none", at |-> "none", map |-> <<>>, board |-> 0, drop |-> 0,
           was |-> <<>>, rows |-> NoRows, todo |-> {}, alone |-> FALSE, gone |-> FALSE]

Under(calls) == {s \in Calls : calls[s].at # "none"}

TypeOK ==
    /\ cards \in [Cards -> Row]
    /\ board \in Boards
    /\ loaded \in [Cards -> Row]
    /\ \A k \in DOMAIN shown : k \in Columns \cup {Unassigned} /\ ToSet(shown[k]) \subseteq Cards
    /\ loading \in BOOLEAN
    /\ \A s \in Calls :
          /\ call[s].kind \in {"none", "save", "load"}
          /\ call[s].at \in {"none", "sent", "read", "done"}
          /\ call[s].rows \in [Cards -> Row]
    /\ stale \in BOOLEAN
    /\ ops \in 0 .. MaxOps

(* Cards as their creation or a move has left them; one may not exist.     *)
(* The page has loaded them.                                               *)
Settled == {r \in [status : Status, done : BOOLEAN, place : Columns \cup {Unassigned},
                   order : {0}] :
               /\ r.done = (r.status = "DONE")
               /\ r.place # Unassigned => r.status = MappedTo[r.place]}

Init ==
    /\ cards \in [Cards -> Settled \cup {NoRow}]
    /\ board \in Boards
    /\ loaded = cards
    /\ shown = buildColumnItemIds(cards, board)
    /\ loading = FALSE
    /\ call = [s \in Calls |-> NoCall]
    /\ stale = FALSE
    /\ ops = 0

Op == ops < MaxOps /\ ops' = ops + 1

(* Something else happens under way. *)
NotAlone(calls) ==
    [s \in Calls |-> [calls[s] EXCEPT !.alone = FALSE, !.drop = 0, !.was = <<>>]]

(* A request goes out. *)
Send(calls, new) ==
    \E s \in Calls :
        /\ calls[s].at = "none"
        /\ call' = [NotAlone(calls) EXCEPT
                       ![s] = IF Under(calls) = {} /\ new.alone THEN [new EXCEPT !.at = "sent"]
                              ELSE [new EXCEPT !.at = "sent", !.alone = FALSE, !.drop = 0,
                                               !.was = <<>>]]

-----------------------------------------------------------------------------
(* The page *)

(* The page is opened, or left and opened again: what was under way ends   *)
(* on the server only.                                                     *)
Open ==
    /\ ~loading
    /\ IF Under(call) = {} THEN UNCHANGED ops ELSE Op
    /\ Send([s \in Calls |-> IF call[s].kind = "load" THEN NoCall
                             ELSE [call[s] EXCEPT !.gone = call[s].at # "none"]],
            [NoCall EXCEPT !.kind = "load", !.alone = TRUE])
    /\ loading' = TRUE
    /\ loaded' = NoRows
    /\ shown' = buildColumnItemIds(NoRows, board)
    /\ stale' = TRUE
    /\ UNCHANGED <<cards, board>>

SelectBoard(b) ==
    /\ b # board
    /\ Op
    /\ board' = b
    /\ shown' = buildColumnItemIds(loaded, b)
    /\ UNCHANGED <<cards, loaded, loading, call, stale>>

At(seq, c) == CHOOSE n \in DOMAIN seq : seq[n] = c

Without(seq, c) == IF c \in ToSet(seq) THEN RemoveAt(seq, At(seq, c)) ELSE seq

Moved(c, k, i) ==
    LET rest == [j \in DOMAIN shown |-> Without(shown[j], c)]
    IN  [rest EXCEPT ![k] = InsertAt(@, i, c)]

Drop(c, k, i) ==
    /\ ~loading
    /\ Op
    /\ k \in DOMAIN shown
    /\ \E j \in DOMAIN shown : c \in ToSet(shown[j])
    /\ i \in 1 .. Len(Without(shown[k], c)) + 1
    /\ Moved(c, k, i) # shown
    /\ shown' = Moved(c, k, i)
    /\ Send(call, [NoCall EXCEPT !.kind = "save", !.map = Moved(c, k, i), !.board = board,
                                 !.drop = c, !.alone = ~stale,
                                 !.was = [d \in Cards |-> effectivePmStatus(cards[d])]])
    /\ stale' = TRUE
    /\ UNCHANGED <<cards, board, loaded, loading>>

(* The page loads again, after a save and after its error alike; a load    *)
(* that fails leaves everything as it is.  A page that was left does not   *)
(* listen.                                                                 *)
After(cl) ==
    IF cl.kind = "save" /\ ~cl.gone
    THEN [NoCall EXCEPT !.kind = "load", !.at = "sent", !.alone = cl.alone]
    ELSE NoCall

Fail(ss) ==
    /\ call' = [s \in Calls |-> IF s \in ss THEN After(call[s]) ELSE call[s]]
    /\ loading' = (loading /\ \E s \in Calls \ ss : call[s].kind = "load" /\ ~call[s].gone)

(* The answer of a save. *)
Saved(s) ==
    /\ call[s].kind = "save" /\ call[s].at = "done"
    /\ call' = [call EXCEPT ![s] = After(@)]
    /\ UNCHANGED <<cards, board, loaded, shown, loading, stale, ops>>

(* The answer of a load, whichever it is. *)
Loaded(s) ==
    /\ call[s].kind = "load" /\ call[s].at = "done"
    /\ loaded' = call[s].rows
    /\ shown' = buildColumnItemIds(call[s].rows, board)
    /\ loading' = FALSE
    /\ stale' = (stale /\ ~call[s].alone)
    /\ call' = [call EXCEPT ![s] = NoCall]
    /\ UNCHANGED <<cards, board, ops>>

-----------------------------------------------------------------------------
(* The server *)
ReadRows(s) ==
    /\ call[s].kind = "load" /\ call[s].at = "sent"
    /\ call' = [call EXCEPT ![s].at = "done", ![s].rows = cards]
    /\ UNCHANGED <<cards, board, loaded, shown, loading, stale, ops>>

(* All cards of the map, with their columns and places, and the one that   *)
(* is written first.                                                       *)
Entries(map) ==
    UNION {{[card |-> map[k][n], column |-> k, at |-> n - 1] : n \in DOMAIN map[k]} :
           k \in DOMAIN map}

First(todo) ==
    CHOOSE e \in todo : \A f \in todo :
        e.column < f.column \/ (e.column = f.column /\ e.at <= f.at)

(* The handler reads the rows.  Every card must be listed.                 *)
ReadLayout(s) ==
    /\ call[s].kind = "save" /\ call[s].at = "sent"
    /\ LET todo == Entries(call[s].map) IN
       IF {e.card : e \in todo} = Existing(cards)
       THEN /\ call' = [call EXCEPT ![s].at = IF todo = {} THEN "done" ELSE "read",
                                    ![s].rows = cards, ![s].todo = todo,
                                    ![s].map = IF call[s].alone THEN @ ELSE <<>>]
            /\ UNCHANGED loading
       ELSE Fail({s})
    /\ UNCHANGED <<cards, board, loaded, shown, stale, ops>>

(* Mutant: only cards that change their column are written. *)
PlacedIfMoved(row, old, e) ==
    IF old.place = e.column THEN row
    ELSE IF e.column = Unassigned
    THEN [row EXCEPT !.order = e.at, !.place = Unassigned]
    ELSE [row EXCEPT !.order = e.at, !.place = e.column, !.status = MappedTo[e.column],
                     !.done = MappedTo[e.column] = "DONE"]

(* The row after its update.  A column brings its status with it, unless   *)
(* the card was there when the rows were read.                             *)
Placed(row, old, e) ==
    IF old.place = e.column THEN [row EXCEPT !.order = e.at]
    ELSE IF e.column = Unassigned
    THEN [row EXCEPT !.order = e.at, !.place = Unassigned]
    ELSE [row EXCEPT !.order = e.at, !.place = e.column, !.status = MappedTo[e.column],
                     !.done = MappedTo[e.column] = "DONE"]

(* One update after the other, each of them committed by itself.  A card   *)
(* that is gone is an error, which takes the process with it.              *)
WriteLayout(s) ==
    /\ call[s].kind = "save" /\ call[s].at = "read"
    /\ LET e == First(call[s].todo)  c == e.card  rest == call[s].todo \ {e} IN
       IF c \in Existing(cards)
       THEN /\ cards' = [cards EXCEPT ![c] = Placed(@, call[s].rows[c], e)]
            /\ call' = [call EXCEPT ![s].todo = rest,
                                    ![s].at = IF rest = {} THEN "done" ELSE "read",
                                    ![s].rows = IF rest = {} THEN NoRows ELSE @]
            /\ UNCHANGED loading
       ELSE Fail(Under(call)) /\ UNCHANGED cards
    /\ UNCHANGED <<board, loaded, shown, stale, ops>>

(* A request or its answer is lost, or the process ends and all are.       *)
Mishap ==
    /\ Op
    /\ \/ \E s \in Under(call) : Fail({s})
       \/ Under(call) # {} /\ Fail(Under(call))
    /\ UNCHANGED <<cards, board, loaded, shown, stale>>

-----------------------------------------------------------------------------
(* Others *)
Next_(k) == Max({0} \cup {cards[c].order + 1 : c \in {c \in Existing(cards) : cards[c].place = k}})

Change(c, row) ==
    /\ Op
    /\ row # cards[c]
    /\ cards' = [cards EXCEPT ![c] = row]
    /\ call' = NotAlone(call)
    /\ stale' = TRUE
    /\ UNCHANGED <<board, loaded, shown, loading>>

(* The checkbox of the product tree. *)
Check(c) == c \in Existing(cards) /\ Change(c, [cards[c] EXCEPT !.done = ~@])

(* tymio_update_requirement *)
SetStatus(c, st) == c \in Existing(cards) /\ Change(c, [cards[c] EXCEPT !.status = st])

(* The kanban of the requirements, and the detail page: the column follows *)
(* on the default board, which is the first one.                           *)
MarkDone(c, d) ==
    /\ c \in Existing(cards)
    /\ LET st == IF d THEN "DONE" ELSE "NOT_STARTED"
           fit == {j \in ColumnsOf(Min(Boards)) : MappedTo[j] = st}
           k == IF ~d \/ fit = {} THEN Unassigned ELSE Min(fit)
       IN  Change(c, [status |-> st, done |-> d, place |-> k,
                      order |-> IF k = cards[c].place THEN cards[c].order ELSE Next_(k)])

Create(c) ==
    /\ c \notin Existing(cards)
    /\ Change(c, [NoRow EXCEPT !.status = "NOT_STARTED", !.order = Next_(Unassigned)])

Delete(c) == c \in Existing(cards) /\ Change(c, NoRow)

Next ==
    \/ Open \/ Mishap
    \/ \E b \in Boards : SelectBoard(b)
    \/ \E c \in Cards :
          \/ \E k \in Columns \cup {Unassigned}, i \in 1 .. Cardinality(Cards) : Drop(c, k, i)
          \/ Check(c) \/ Create(c) \/ Delete(c)
          \/ \E st \in Status : SetStatus(c, st)
          \/ \E d \in BOOLEAN : MarkDone(c, d)
    \/ \E s \in Calls :
          Saved(s) \/ Loaded(s) \/ ReadRows(s) \/ ReadLayout(s) \/ WriteLayout(s)

Spec == Init /\ [][Next]_vars

-----------------------------------------------------------------------------
(* A save is written that nothing else overlapped, from a page that showed *)
(* what was there.                                                         *)
Written(s) == call[s].kind = "save" /\ call[s].at = "done" /\ call[s].alone

(* A drop tells what the dropped card's status is and nothing of the       *)
(* others, although it sends the places of all of them, puts cards into    *)
(* columns that they were only shown in, and takes them off other boards.  *)
OthersKeepStatus ==
    \A s \in Calls : Written(s) =>
        \A c \in Existing(cards) \ {call[s].drop} :
            effectivePmStatus(cards[c]) = call[s].was[c]

(* What was dropped is what comes back: the rows that a save wrote show    *)
(* the board as it was sent, the same cards in every column and in the     *)
(* same order.  The exception is the dropped card itself when it was put   *)
(* under Unassigned with a status that has a column: it springs back there.*)
DropStays ==
    \A s \in Calls : Written(s) =>
        LET b == call[s].board
            Springs(c) == /\ c = call[s].drop /\ c \in ToSet(call[s].map[Unassigned])
                          /\ columnIdForStatusFallback(cards[c], b) # Unassigned
            Staying(seq) == {c \in ToSet(seq) : ~Springs(c)}
            now == buildColumnItemIds(cards, b)
            sent == call[s].map
        IN  \A k \in DOMAIN now :
                /\ Staying(now[k]) = Staying(sent[k])
                /\ \A c, d \in Staying(now[k]) :
                      At(now[k], c) < At(now[k], d) <=> At(sent[k], c) < At(sent[k], d)
=============================================================================
