--------------------------- MODULE ExecutionCards ---------------------------
(***************************************************************************)
(* Requirements as cards of an execution board                             *)
(* (server/src/routes/requirements.ts, services/requirementExecutionColumn *)
(* and the MCP tools on requirements, layout and columns in mcp/tools.ts). *)
(*                                                                         *)
(* Every column stands for a status.  Who puts a card into a column gets   *)
(* the status of the column with it; who changes the status through the    *)
(* API gets the card moved to the column for it.  A request reads first    *)
(* and writes later, card by card: the layout of a whole board opens a     *)
(* transaction, but its statements go through the global client, so each   *)
(* of them commits by itself.                                              *)
(*                                                                         *)
(* The order of the columns, which people change, is left out: the first   *)
(* column with a status is any of those that have it.  So are the places   *)
(* of the cards in a column, the isDone mark, which a change of the status *)
(* alone does not touch, boards other than the default one and the move of *)
(* a card to another product.                                              *)
(***************************************************************************)
EXTENDS Naturals

CONSTANTS Cards, Columns, Requests, NoCard, NoColumn, MaxEdits

VARIABLES
    status,    \* of a card, "none" without one
    column,    \* executionColumnId of a card
    mapped,    \* mappedStatus of a column, "none" without one
    kind,      \* what a request is, "idle" without one
    todo,      \* the cards it has yet to write
    want,      \* the column it is to put a card into
    wish,      \* the status it is to give
    seen,      \* the column of a card when the request read it
    at, out,   \* the card it is about to write, and what with
    drift,     \* history: cards whose status was written past their column
    edits,     \* number of requests and changes of the board so far
    remapped   \* history: columns whose status was changed

cards == <<status, column>>
local == <<kind, todo, want, wish, seen, at, out>>
vars == <<cards, mapped, local, edits, drift, remapped>>

Status == {"NOT_STARTED", "DONE"}
Keep == "keep"
Place == Columns \cup {NoColumn}
Kind == {"idle", "create", "put", "tool", "layout"}
Nothing == [column |-> Keep, status |-> Keep]

TypeOK ==
    /\ status \in [Cards -> Status \cup {"none"}]
    /\ column \in [Cards -> Place]
    /\ mapped \in [Columns -> Status \cup {"none"}]
    /\ kind \in [Requests -> Kind]
    /\ todo \in [Requests -> SUBSET Cards]
    /\ want \in [Requests -> [Cards -> Place \cup {Keep}]]
    /\ wish \in [Requests -> Status \cup {Keep}]
    /\ seen \in [Requests -> [Cards -> Place]]
    /\ at \in [Requests -> Cards \cup {NoCard}]
    /\ out \in [Requests -> [column : Place \cup {Keep}, status : Status \cup {Keep}]]
    /\ drift \subseteq Cards
    /\ edits \in 0 .. MaxEdits
    /\ remapped \subseteq Columns

Init ==
    /\ status = [c \in Cards |-> "none"]
    /\ column = [c \in Cards |-> NoColumn]
    /\ mapped \in [Columns -> Status \cup {"none"}]
    /\ kind = [r \in Requests |-> "idle"]
    /\ todo = [r \in Requests |-> {}]
    /\ want = [r \in Requests |-> [c \in Cards |-> Keep]]
    /\ wish = [r \in Requests |-> Keep]
    /\ seen = [r \in Requests |-> [c \in Cards |-> NoColumn]]
    /\ at = [r \in Requests |-> NoCard]
    /\ out = [r \in Requests |-> Nothing]
    /\ drift = {}
    /\ edits = 0
    /\ remapped = {}

-----------------------------------------------------------------------------
Existing == {c \in Cards : status[c] # "none"}
OnBoard == {k \in Columns : mapped[k] # "none"}

Edit == edits < MaxEdits /\ edits' = edits + 1

Start(r, k, cs, w, s, sn) ==
    /\ Edit
    /\ kind[r] = "idle"
    /\ kind' = [kind EXCEPT ![r] = k]
    /\ todo' = [todo EXCEPT ![r] = cs]
    /\ want' = [want EXCEPT ![r] = w]
    /\ wish' = [wish EXCEPT ![r] = s]
    /\ seen' = [seen EXCEPT ![r] = sn]
    /\ UNCHANGED <<cards, mapped, at, out, drift, remapped>>

(* The requests in rs are over. *)
End(rs) ==
    /\ kind' = [r \in Requests |-> IF r \in rs THEN "idle" ELSE kind[r]]
    /\ todo' = [r \in Requests |-> IF r \in rs THEN {} ELSE todo[r]]
    /\ want' = [r \in Requests |-> IF r \in rs THEN [c \in Cards |-> Keep] ELSE want[r]]
    /\ wish' = [r \in Requests |-> IF r \in rs THEN Keep ELSE wish[r]]
    /\ seen' = [r \in Requests |-> IF r \in rs THEN [c \in Cards |-> NoColumn] ELSE seen[r]]
    /\ at' = [r \in Requests |-> IF r \in rs THEN NoCard ELSE at[r]]
    /\ out' = [r \in Requests |-> IF r \in rs THEN Nothing ELSE out[r]]

(* A statement throws: a tool answers with the error, a handler of the API *)
(* takes the process and so every other request with it.                   *)
Fails(r) ==
    /\ End({r}) \/ End(Requests)
    /\ UNCHANGED <<cards, mapped, edits, drift, remapped>>

(* A request on one card: a column decides the status as well.             *)
Wishes(w, s) ==
    /\ w \in Columns => s = Keep
    /\ w = Keep => s # Keep

OnCard(c, w) == [d \in Cards |-> IF d = c THEN w ELSE Keep]

(* POST /requirements, tymio_create_requirement, and an upsert that finds  *)
(* nothing.                                                                *)
CreateCard(r, c, w, s) ==
    /\ c \notin Existing /\ \A q \in Requests : c \notin todo[q]
    /\ w \in Place /\ Wishes(w, s) /\ (w = NoColumn => s # Keep)
    /\ Start(r, "create", {c}, OnCard(c, w), s, [d \in Cards |-> NoColumn])

(* PUT /requirements/:id reads the card and its column.                    *)
PutCard(r, c, w, s) ==
    /\ c \in Existing /\ Wishes(w, s)
    /\ Start(r, "put", {c}, OnCard(c, w), s,
             [d \in Cards |-> IF d = c THEN column[c] ELSE NoColumn])

(* tymio_update_requirement, and tymio_upsert_requirement, which always    *)
(* gives a status and never a column.                                      *)
ToolUpdate(r, c, w, s) ==
    /\ c \in Existing /\ Wishes(w, s)
    /\ Start(r, "tool", {c}, OnCard(c, w), s, [d \in Cards |-> NoColumn])

(* POST /requirements/execution-layout and tymio_set_execution_layout: the *)
(* columns exist and every card has its place.                             *)
Layout(r) ==
    /\ Existing # {}
    /\ \E plan \in [Existing -> OnBoard \cup {NoColumn}] :
          Start(r, "layout", Existing,
                [c \in Cards |-> IF c \in Existing THEN plan[c] ELSE Keep],
                Keep, column)

(* executionColumnIdForStatusChange: the columns a status leads to.        *)
SyncedColumns(s) ==
    LET fit == {k \in OnBoard : mapped[k] = s}
    IN IF s = "NOT_STARTED" \/ fit = {} THEN {NoColumn} ELSE fit

(* Mutant: a PUT that changes the status leaves the column alone. *)
OutcomesUnsynced(r, c) ==
    LET w == want[r][c] IN
    IF kind[r] = "layout" /\ w = seen[r][c] THEN {Nothing}
    ELSE IF w \in Columns THEN {[column |-> w, status |-> mapped[w]] : k \in {w} \cap OnBoard}
    ELSE {[column |-> w, status |-> wish[r]]}

(* What is written to a card: nothing for one that a layout leaves where   *)
(* it was; the column and its status (applyExecutionColumn), if there is   *)
(* such a column; or the status and, for a PUT, the column it leads to,    *)
(* unless the card is there.                                               *)
Outcomes(r, c) ==
    LET w == want[r][c] IN
    IF kind[r] = "layout" /\ w = seen[r][c] THEN {Nothing}
    ELSE IF w \in Columns THEN {[column |-> w, status |-> mapped[w]] : k \in {w} \cap OnBoard}
    ELSE IF w = Keep /\ kind[r] = "put"
    THEN {[column |-> IF k = seen[r][c] THEN Keep ELSE k, status |-> wish[r]]
             : k \in SyncedColumns(wish[r])}
    ELSE {[column |-> w, status |-> wish[r]]}

(* The next card is looked at; an unknown column is an error.  What the    *)
(* request no longer needs to know is forgotten.                           *)
Resolve(r) ==
    /\ at[r] = NoCard
    /\ \E c \in todo[r] :
          \/ /\ \E o \in Outcomes(r, c) :
                   /\ out' = [out EXCEPT ![r] = o]
                   /\ seen' = [seen EXCEPT ![r][c] =
                         IF o.column = Keep /\ kind[r] = "put" THEN @ ELSE NoColumn]
             /\ at' = [at EXCEPT ![r] = c]
             /\ want' = [want EXCEPT ![r][c] = Keep]
             /\ wish' = [wish EXCEPT ![r] = Keep]
             /\ UNCHANGED <<cards, mapped, kind, todo, edits, drift, remapped>>
          \/ Outcomes(r, c) = {} /\ Fails(r)

(* The card is still there, or is created, and so is the column. *)
Writable(r) ==
    /\ at[r] \in Existing \/ kind[r] = "create"
    /\ out[r].column \in Columns => out[r].column \in OnBoard

(* The status is written and the card is in a column that it was not       *)
(* looked up for: a tool looks for none, and a PUT may find the card moved *)
(* since it has read it.                                                   *)
PastColumn(r) ==
    /\ out[r].column = Keep /\ out[r].status # Keep
    /\ kind[r] = "tool" \/ column[at[r]] # seen[r][at[r]]

(* The update, or the creation, of the card at hand. *)
Write(r) ==
    /\ at[r] # NoCard
    /\ LET c == at[r]  o == out[r] IN
       \/ /\ Writable(r)
          /\ column' = [column EXCEPT ![c] = IF o.column = Keep THEN @ ELSE o.column]
          /\ status' = [status EXCEPT ![c] = IF o.status = Keep THEN @ ELSE o.status]
          /\ drift' = IF PastColumn(r) THEN drift \cup {c}
                      ELSE IF o = Nothing THEN drift ELSE drift \ {c}
          /\ IF todo[r] = {c}
             THEN End({r})
             ELSE /\ todo' = [todo EXCEPT ![r] = @ \ {c}]
                  /\ at' = [at EXCEPT ![r] = NoCard]
                  /\ out' = [out EXCEPT ![r] = Nothing]
                  /\ UNCHANGED <<kind, want, wish, seen>>
          /\ UNCHANGED <<mapped, edits, remapped>>
       \/ ~Writable(r) /\ Fails(r)

(* A statement fails for reasons of its own. *)
Mishap(r) == kind[r] # "idle" /\ Fails(r)

(* A deploy. *)
Restart == End(Requests) /\ UNCHANGED <<cards, mapped, edits, drift, remapped>>

DeleteCard(c) ==
    /\ Edit
    /\ c \in Existing
    /\ status' = [status EXCEPT ![c] = "none"]
    /\ column' = [column EXCEPT ![c] = NoColumn]
    /\ drift' = drift \ {c}
    /\ UNCHANGED <<mapped, local, remapped>>

(* A new column has an id that no request knows. *)
AddColumn(k, s) ==
    /\ Edit
    /\ k \notin OnBoard
    /\ \A r \in Requests, c \in Cards : k \notin {want[r][c], seen[r][c], out[r].column}
    /\ mapped' = [mapped EXCEPT ![k] = s]
    /\ UNCHANGED <<cards, local, drift, remapped>>

RemapColumn(k, s) ==
    /\ Edit
    /\ k \in OnBoard /\ mapped[k] # s
    /\ mapped' = [mapped EXCEPT ![k] = s]
    /\ remapped' = remapped \cup {k}
    /\ UNCHANGED <<cards, local, drift>>

(* The cards of a deleted column are in none (onDelete: SetNull). *)
DeleteColumn(k) ==
    /\ Edit
    /\ k \in OnBoard
    /\ mapped' = [mapped EXCEPT ![k] = "none"]
    /\ column' = [c \in Cards |-> IF column[c] = k THEN NoColumn ELSE column[c]]
    /\ remapped' = remapped \ {k}
    /\ UNCHANGED <<status, local, drift>>

Next ==
    \/ \E r \in Requests, c \in Cards, w \in Place \cup {Keep}, s \in Status \cup {Keep} :
          CreateCard(r, c, w, s) \/ PutCard(r, c, w, s) \/ ToolUpdate(r, c, w, s)
    \/ \E r \in Requests : Layout(r) \/ Resolve(r) \/ Write(r) \/ Mishap(r)
    \/ \E c \in Cards : DeleteCard(c)
    \/ \E k \in Columns, s \in Status : AddColumn(k, s) \/ RemapColumn(k, s)
    \/ \E k \in Columns : DeleteColumn(k)
    \/ Restart

Spec == Init /\ [][Next]_vars

-----------------------------------------------------------------------------
(* The board tells the status: a card in a column has the status that the  *)
(* column stands for, however layouts, edits and deletions interleave and  *)
(* wherever they break off.  What sets them apart is a change of what the  *)
(* column stands for and a status written past the column; the next move   *)
(* of the card mends it.                                                   *)
CardMatchesColumn ==
    \A c \in Cards : column[c] \in Columns \ remapped /\ c \notin drift =>
        status[c] = mapped[column[c]]
=============================================================================
