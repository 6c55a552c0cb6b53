-------------------------- MODULE InitiativePanel --------------------------
(***************************************************************************)
(* The panel in which one initiative is edited, against other people and   *)
(* agents who change the same initiative                                   *)
(* (client/src/components/initiatives/InitiativeDetailPanel.tsx and        *)
(* InitiativeForm.tsx, client/src/App.tsx, server/src/routes/              *)
(* initiatives.ts, server/src/mcp/tools.ts).                               *)
(*                                                                         *)
(* The panel holds two copies of the initiative: the row of the board's    *)
(* list, which every refresh replaces, and displayInitiative, which is     *)
(* fetched when the panel opens and replaced by the answer to a save only. *)
(* The form edits the second if there is one.  A save sends every field of *)
(* the form, with the updatedAt of that copy as baseUpdatedAt.             *)
(*                                                                         *)
(* A row is its revision and the values of two groups of fields: "watched" *)
(* are the fields whose change makes the form take over a new copy (title, *)
(* notes, isEpic, productId), "other" are all the others.  A value is      *)
(* named by the revision that wrote it.  Revisions are more than the two   *)
(* milliseconds apart that the comparison of updatedAt tolerates.  Left    *)
(* out: other initiatives, filters that hide the row, an edit that is      *)
(* taken back by typing, typing while a save is under way, fields that     *)
(* cannot be emptied, and the lists in the panel's other tabs.             *)
(***************************************************************************)
EXTENDS Naturals

CONSTANTS None, Draft, MaxRev

VARIABLES
    row,       \* the initiative in the database
    list,      \* its row in board.initiatives
    open,      \* is the panel open
    display,   \* displayInitiative, or None
    form,      \* the values in the form
    seen,      \* history: the server's values the form last agreed with
    dirty,     \* formDirtyRef
    pending,   \* hubRemoteChangePending
    conflict,  \* saveConflict
    events,    \* are hub events about this initiative still to arrive
    calls,     \* the requests of the browser, and what the server answered
    save,      \* the save in flight
    reloaded,  \* history: revision of the last reload, while the panel is open
    lost       \* history: how changes nobody had seen came to be overwritten

vars == <<row, list, open, display, form, seen, dirty, pending, conflict,
          events, calls, save, reloaded, lost>>

Groups == {"watched", "other"}
Revs == 0 .. MaxRev
Row == [rev : Revs, val : [Groups -> Revs]]

(* One refresh of the board at a time, and the panel's own fetch. *)
Calls == {"list", "display"}
First == [rev |-> 0, val |-> [f \in Groups |-> 0]]
Call == [at : {"none", "sent", "answered"}, row : Row]
NoCall == [at |-> "none", row |-> First]

(* Besides what is sent: what the form had seen, whether that was less     *)
(* than the copy sent as base, and whether a change came after the check.  *)
Save == [at : {"idle", "sent", "checked"}, base : Revs, form : [Groups -> Revs \cup {Draft}],
         seen : [Groups -> Revs], half : BOOLEAN, raced : BOOLEAN]
NoSave == [at |-> "idle", base |-> 0, form |-> [f \in Groups |-> 0],
           seen |-> [f \in Groups |-> 0], half |-> FALSE, raced |-> FALSE]

(* "race": a change came between the server's comparison and its write.    *)
(* "half": the form had kept values of a copy older than the base it sent. *)
(* "blind": neither.                                                       *)
Losses == {"race", "half", "blind"}

TypeOK ==
    /\ row \in Row /\ list \in Row
    /\ open \in BOOLEAN
    /\ display \in Row \cup {None}
    /\ form \in [Groups -> Revs \cup {Draft}]
    /\ seen \in [Groups -> Revs]
    /\ dirty \in BOOLEAN /\ pending \in BOOLEAN /\ conflict \in BOOLEAN
    /\ events \in BOOLEAN
    /\ calls \in [Calls -> Call]
    /\ save \in Save
    /\ reloaded \in Revs
    /\ lost \subseteq Losses

Init ==
    /\ row = First /\ list = First
    /\ open = FALSE /\ display = None
    /\ form = First.val /\ seen = First.val
    /\ dirty = FALSE /\ pending = FALSE /\ conflict = FALSE
    /\ events = FALSE
    /\ calls = [c \in Calls |-> NoCall]
    /\ save = NoSave
    /\ reloaded = 0
    /\ lost = {}

-----------------------------------------------------------------------------
(* The copy the form edits, of a display and a list row. *)
Copy(d, l) == IF d = None THEN l ELSE d
Current == Copy(display, list)

(* The form takes over a new copy if one of the watched fields is new in   *)
(* it, and keeps all it holds otherwise.                                   *)
TakeOver(new) ==
    IF new.val["watched"] # Current.val["watched"]
    THEN form' = new.val /\ seen' = new.val
    ELSE UNCHANGED <<form, seen>>

(* Another copy in the panel: the effects of the form, then the panel's,   *)
(* which takes the form for clean and forgets the conflict.                *)
Show(d, l) ==
    /\ display' = d /\ list' = l
    /\ IF open
       THEN TakeOver(Copy(d, l)) /\ dirty' = FALSE /\ conflict' = FALSE
       ELSE UNCHANGED <<form, seen, dirty, conflict>>

(* A call that is not under way already. *)
Ask(c) == calls[c].at = "none" /\ calls' = [calls EXCEPT ![c].at = "sent"]
Done(c) == calls' = [calls EXCEPT ![c] = NoCall]

-----------------------------------------------------------------------------
(* onOpen: the panel shows the row of the list, or a display left behind   *)
(* by a late save, and asks for its own copy.                              *)
Open ==
    /\ ~open /\ Ask("display")
    /\ open' = TRUE
    /\ form' = Current.val /\ seen' = Current.val
    /\ dirty' = FALSE /\ conflict' = FALSE /\ pending' = FALSE
    /\ reloaded' = 0
    /\ UNCHANGED <<row, list, display, events, save, lost>>

(* onClose, after a question if the form is dirty.  The answer to the      *)
(* panel's own fetch will be ignored.                                      *)
Close ==
    /\ open
    /\ open' = FALSE /\ display' = None /\ Done("display")
    /\ dirty' = FALSE /\ pending' = FALSE
    /\ reloaded' = 0
    /\ UNCHANGED <<row, list, form, seen, conflict, events, save, lost>>

Edit(f) ==
    /\ open /\ save.at = "idle"
    /\ form' = [form EXCEPT ![f] = Draft]
    /\ dirty' = TRUE
    /\ UNCHANGED <<row, list, open, display, seen, pending, conflict, events, calls, save,
                   reloaded, lost>>

(* The server reads the row for a GET. *)
Answer(c) ==
    /\ calls[c].at = "sent"
    /\ calls' = [calls EXCEPT ![c] = [at |-> "answered", row |-> row]]
    /\ UNCHANGED <<row, list, open, display, form, seen, dirty, pending, conflict, events, save,
                   reloaded, lost>>

(* The answer to a refresh of the board. *)
LandList ==
    /\ calls["list"].at = "answered"
    /\ Show(display, calls["list"].row)
    /\ Done("list")
    /\ UNCHANGED <<row, open, pending, events, save, reloaded, lost>>

LandDisplay ==
    /\ calls["display"].at = "answered"
    /\ Show(calls["display"].row, list)
    /\ Done("display")
    /\ UNCHANGED <<row, open, pending, events, save, reloaded, lost>>

(* A refresh of the board that fails leaves everything as it was. *)
Fail(c) ==
    /\ calls[c].at # "none"
    /\ Done(c)
    /\ UNCHANGED <<row, list, open, display, form, seen, dirty, pending, conflict, events, save,
                   reloaded, lost>>

-----------------------------------------------------------------------------
(* Save: all fields of the form, and the updatedAt of the copy it edits.   *)
StartSave ==
    /\ open /\ save.at = "idle"
    /\ save' = [at |-> "sent", base |-> Current.rev, form |-> form, seen |-> seen,
                half |-> seen # Current.val, raced |-> FALSE]
    /\ UNCHANGED <<row, list, open, display, form, seen, dirty, pending, conflict, events, calls,
                   reloaded, lost>>

(* Mutant: the base is not compared. *)
CheckNothing ==
    /\ save.at = "sent"
    /\ save' = [save EXCEPT !.at = "checked"]
    /\ UNCHANGED <<row, list, open, display, form, seen, dirty, pending, conflict, events, calls,
                   reloaded, lost>>

(* PUT /initiatives/:id reads the row and compares: 409, or on it goes.    *)
Check ==
    /\ save.at = "sent"
    /\ IF row.rev = save.base
       THEN save' = [save EXCEPT !.at = "checked"] /\ UNCHANGED conflict
       ELSE save' = NoSave /\ conflict' = TRUE
    /\ UNCHANGED <<row, list, open, display, form, seen, dirty, pending, events, calls, reloaded,
                   lost>>

(* The transaction writes the fields without looking again; its answer is  *)
(* the panel's new copy, and the board is refreshed (onSaved).             *)
Write ==
    /\ save.at = "checked" /\ row.rev < MaxRev /\ Ask("list")
    /\ LET n == row.rev + 1
           stored == [f \in Groups |-> IF save.form[f] = Draft THEN n ELSE save.form[f]]
           new == [rev |-> n, val |-> stored]
           agrees == [f \in Groups |-> form[f] = save.form[f]]
       IN /\ row' = new /\ display' = new
          /\ IF new.val["watched"] # Current.val["watched"]
             THEN form' = new.val /\ seen' = new.val
             ELSE /\ form' = [f \in Groups |-> IF agrees[f] THEN stored[f] ELSE form[f]]
                  /\ seen' = [f \in Groups |-> IF agrees[f] THEN stored[f] ELSE seen[f]]
    /\ lost' = IF row.val = save.seen THEN lost
               ELSE lost \cup {IF save.raced THEN "race" ELSE IF save.half THEN "half" ELSE "blind"}
    /\ dirty' = FALSE /\ conflict' = FALSE
    /\ events' = TRUE
    /\ save' = NoSave
    /\ UNCHANGED <<list, open, pending, reloaded>>

(* Someone else, through another panel, the explorer or a tool, changes    *)
(* one group of fields.                                                    *)
Other(f) ==
    /\ row.rev < MaxRev
    /\ row' = [rev |-> row.rev + 1, val |-> [row.val EXCEPT ![f] = row.rev + 1]]
    /\ events' = TRUE
    /\ save' = [save EXCEPT !.raced = save.at = "checked"]
    /\ UNCHANGED <<list, open, display, form, seen, dirty, pending, conflict, calls, reloaded, lost>>

-----------------------------------------------------------------------------
(* handleHubEvent for this initiative: a dirty form gets a banner and the  *)
(* list is left as it is; otherwise the list is refreshed.  Further events *)
(* may be waiting.                                                         *)
HubEvent ==
    /\ events /\ events' \in BOOLEAN
    /\ IF open /\ dirty
       THEN pending' = TRUE /\ UNCHANGED calls
       ELSE Ask("list") /\ UNCHANGED pending
    /\ UNCHANGED <<row, list, open, display, form, seen, dirty, conflict, save, reloaded, lost>>

(* The event is lost with the connection that should have brought it.      *)
LoseEvent ==
    /\ events /\ events' = FALSE
    /\ UNCHANGED <<row, list, open, display, form, seen, dirty, pending, conflict, calls, save,
                   reloaded, lost>>

(* An event about something else, or the window is looked at again.        *)
Refresh ==
    /\ Ask("list")
    /\ UNCHANGED <<row, list, open, display, form, seen, dirty, pending, conflict, events, save,
                   reloaded, lost>>

(* "Dismiss" and "Keep editing". *)
Dismiss ==
    /\ pending \/ conflict
    /\ pending' = FALSE /\ conflict' = FALSE
    /\ UNCHANGED <<row, list, open, display, form, seen, dirty, events, calls, save, reloaded, lost>>

(* "Reload from server" fetches the initiative and makes it the selected   *)
(* row, for which the list's own stands in; then it refreshes the list.    *)
(* displayInitiative is not touched.                                       *)
Reload ==
    /\ open /\ (pending \/ conflict) /\ Ask("list")
    /\ reloaded' = row.rev
    /\ pending' = FALSE /\ conflict' = FALSE /\ dirty' = FALSE
    /\ UNCHANGED <<row, list, open, display, form, seen, events, save, lost>>

Next ==
    \/ Open \/ Close \/ StartSave \/ Check \/ Write \/ LandList \/ LandDisplay
    \/ HubEvent \/ LoseEvent \/ Refresh \/ Dismiss \/ Reload
    \/ \E f \in Groups : Edit(f) \/ Other(f)
    \/ \E c \in Calls : Answer(c) \/ Fail(c)

Spec == Init /\ [][Next]_vars

-----------------------------------------------------------------------------
(* A save writes over a change that the person had not seen only if that   *)
(* change came between the server's comparison and its write, or if the    *)
(* form had kept older values than the copy whose updatedAt it sends.      *)
ChangesAreSeen == "blind" \notin lost

(* What the message of a save conflict says: "Reload to get their          *)
(* version".  Once all calls are answered, the panel's own copy is no      *)
(* older than the one the reload fetched.                                  *)
ReloadGetsTheirs ==
    open /\ display # None /\ (\A c \in Calls : calls[c].at = "none") =>
        display.rev >= reloaded
=============================================================================
