--------------------------- MODULE DefaultColumn ---------------------------
(***************************************************************************)
(* The default column of an execution board                                *)
(* (server/src/routes/execution-boards.ts).                                *)
(*                                                                         *)
(* A request that creates or edits a column opens a transaction, writes    *)
(* its column and, when that is to be the default, has the other columns   *)
(* reset by ensureSingleDefaultColumn.  The helper uses the global client, *)
(* so the reset is a statement of its own on a second connection: it sees  *)
(* committed rows only, waits for the row locks of other transactions,     *)
(* commits by itself and outlives the transaction that asked for it.       *)
(* The database sees no cycle when two requests wait for one another like  *)
(* this; Prisma's limit of five seconds for a transaction ends it.  The    *)
(* promise that then rejects has no handler, so the process ends with all  *)
(* its transactions, but a reset that still waits may run later.           *)
(*                                                                         *)
(* Columns are committed rows; names, order and status mapping are left    *)
(* out, and so are the boards of a product, whose own default is kept      *)
(* within one transaction.                                                 *)
(***************************************************************************)

CONSTANTS Columns, Requests, NoColumn

VARIABLES
    columns,   \* the columns of the board
    defaults,  \* those with isDefault
    pc,        \* the statement a request stands at
    job,       \* the column it writes and what it makes of isDefault
    mishaps    \* history: which mishaps have happened so far

vars == <<columns, defaults, pc, job, mishaps>>

PCs == {"idle", "create", "update", "reset", "commit", "orphan"}

(* isDefault in the body: true, false, or absent. *)
Wish == {"yes", "no", "keep"}

Job == [column: Columns, wish: Wish, new: BOOLEAN]
NoJob == [column |-> NoColumn, wish |-> "keep", new |-> FALSE]

Mishaps == {"overlap", "timeout", "given up"}

TypeOK ==
    /\ columns \subseteq Columns
    /\ defaults \subseteq columns
    /\ pc \in [Requests -> PCs]
    /\ job \in [Requests -> Job \cup {NoJob}]
    /\ mishaps \subseteq Mishaps

(* A board with its columns, one of them the default. *)
Init ==
    /\ columns \in SUBSET Columns
    /\ \E c \in columns : defaults = {c}
    /\ pc = [r \in Requests |-> "idle"]
    /\ job = [r \in Requests |-> NoJob]
    /\ mishaps = {}

-----------------------------------------------------------------------------
Running == {r \in Requests : pc[r] # "idle"}

(* The row locks of a transaction: the column it has updated.  The row it  *)
(* has created is not visible to the others.                               *)
LockedBy(r) ==
    IF pc[r] \in {"reset", "commit"} /\ ~job[r].new THEN {job[r].column} ELSE {}

Locked(r) == UNION {LockedBy(q) : q \in Requests \ {r}}

Taken == {job[r].column : r \in {q \in Running : job[q].new}}

Goto(r, at) == pc' = [pc EXCEPT ![r] = at] /\ UNCHANGED job

End(r) == pc' = [pc EXCEPT ![r] = "idle"] /\ job' = [job EXCEPT ![r] = NoJob]

Note(ms) == mishaps' = mishaps \cup ms

Begin(r, at, j) ==
    /\ pc[r] = "idle"
    /\ pc' = [pc EXCEPT ![r] = at]
    /\ job' = [job EXCEPT ![r] = j]
    /\ Note(IF Running # {} THEN {"overlap"} ELSE {})
    /\ UNCHANGED <<columns, defaults>>

(* POST /execution-boards/:boardId/columns; isDefault is false if absent.  *)
PostColumn(r, c, wish) ==
    /\ c \notin columns \cup Taken /\ wish # "keep"
    /\ Begin(r, "create", [column |-> c, wish |-> wish, new |-> TRUE])

(* PUT /execution-columns/:columnId.                                       *)
PutColumn(r, c, wish) ==
    /\ c \in columns
    /\ Begin(r, "update", [column |-> c, wish |-> wish, new |-> FALSE])

(* The write of the column itself.  An update waits for the lock of its    *)
(* row.                                                                    *)
Write(r) ==
    /\ \/ pc[r] = "create"
       \/ pc[r] = "update" /\ job[r].column \in columns \ Locked(r)
    /\ Goto(r, IF job[r].wish = "yes" THEN "reset" ELSE "commit")
    /\ UNCHANGED <<columns, defaults, mishaps>>

(* Mutant: the other columns keep their mark. *)
ResetNothing(r) ==
    /\ pc[r] \in {"reset", "orphan"}
    /\ (columns \ {job[r].column}) \cap Locked(r) = {}
    /\ IF pc[r] = "reset" THEN Goto(r, "commit") ELSE End(r)
    /\ UNCHANGED <<columns, defaults, mishaps>>

(* ensureSingleDefaultColumn: every other committed column, once no other  *)
(* transaction holds its row.                                              *)
Reset(r) ==
    /\ pc[r] \in {"reset", "orphan"}
    /\ (columns \ {job[r].column}) \cap Locked(r) = {}
    /\ defaults' = defaults \cap {job[r].column}
    /\ IF pc[r] = "reset" THEN Goto(r, "commit") ELSE End(r)
    /\ UNCHANGED <<columns, mishaps>>

Commit(r) ==
    /\ pc[r] = "commit"
    /\ LET j == job[r] IN
          /\ columns' = columns \cup {j.column}
          /\ defaults' = CASE j.wish = "yes" -> defaults \cup {j.column}
                           [] j.wish = "no" -> defaults \ {j.column}
                           [] j.wish = "keep" -> defaults
          /\ Note(IF j.wish = "no" /\ j.column \in defaults THEN {"given up"} ELSE {})
    /\ End(r)

(* Mutant: the mark of a deleted column stays. *)
DeleteColumnOnly(c) ==
    /\ c \in columns
    /\ \A r \in Requests : c \notin LockedBy(r)
    /\ columns' = columns \ {c}
    /\ UNCHANGED <<defaults, pc, job, mishaps>>

(* DELETE /execution-columns/:columnId waits for the lock of the row.      *)
DeleteColumn(c) ==
    /\ c \in columns
    /\ \A r \in Requests : c \notin LockedBy(r)
    /\ columns' = columns \ {c}
    /\ defaults' = defaults \ {c}
    /\ Note(IF c \in defaults THEN {"given up"} ELSE {})
    /\ UNCHANGED <<pc, job>>

(* A transaction that fails, or that Prisma ends, takes the process and so *)
(* every other transaction with it.  A reset already sent may still run.   *)
ProcessEnds(m) ==
    /\ \E late \in SUBSET {r \in Requests : pc[r] \in {"reset", "orphan"}} :
          /\ pc' = [r \in Requests |-> IF r \in late THEN "orphan" ELSE "idle"]
          /\ job' = [r \in Requests |-> IF r \in late THEN job[r] ELSE NoJob]
    /\ Note({m})
    /\ UNCHANGED <<columns, defaults>>

(* Mutant: only a transaction that has done its work is limited. *)
TimeOutLate(r) == pc[r] = "commit" /\ ProcessEnds("timeout")

TimeOut(r) == pc[r] \in {"update", "reset", "commit"} /\ ProcessEnds("timeout")

(* The column to be updated is gone. *)
ColumnGone(r) ==
    /\ pc[r] = "update" /\ job[r].column \notin columns
    /\ ProcessEnds("timeout")

Go(r) == Write(r) \/ Reset(r) \/ Commit(r) \/ ColumnGone(r)

Next ==
    \/ \E r \in Requests, c \in Columns, wish \in Wish :
          PostColumn(r, c, wish) \/ PutColumn(r, c, wish)
    \/ \E r \in Requests : Go(r) \/ TimeOut(r)
    \/ \E c \in Columns : DeleteColumn(c)

(* A statement that is blocked time and again has its turn, for the        *)
(* database queues those that wait for a row; and Prisma's limit runs.     *)
Fairness == \A r \in Requests : SF_vars(Go(r)) /\ WF_vars(TimeOut(r))

Spec == Init /\ [][Next]_vars
FairSpec == Spec /\ Fairness

-----------------------------------------------------------------------------
(* The board has its default.  Never two, unless requests overlapped: two  *)
(* that create a default do not see each other's row.  And never none,     *)
(* unless someone gave the default up or a transaction ended halfway,      *)
(* after the others were reset: overlap alone does not lose it.            *)
DefaultHolds ==
    /\ "overlap" \notin mishaps => \A c, d \in defaults : c = d
    /\ "given up" \notin mishaps /\ "timeout" \notin mishaps /\ Running = {} => defaults # {}

(* Every request on the columns ends, however many wait for one another.   *)
RequestsEnd == \A r \in Requests : pc[r] # "idle" ~> pc[r] = "idle"
=============================================================================
