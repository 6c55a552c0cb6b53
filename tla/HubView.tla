------------------------------ MODULE HubView ------------------------------
(***************************************************************************)
(* What an open browser window shows of a workspace that others change     *)
(* (server/src/services/hubChangeHub.ts, server/src/routes/hub-events.ts,  *)
(* client/src/hooks/useWorkspaceHubEvents.ts, useBoardData.ts,             *)
(* client/src/App.tsx, pages/ProductExplorerPage.tsx).                     *)
(*                                                                         *)
(* Most handlers send an event after their write to the streams that are   *)
(* open at that moment; a stream that reconnects is told nothing of what   *)
(* it missed.  Assignments, layouts of a board and imports send none.  An  *)
(* event makes the window fetch the board's list and, for the product      *)
(* explorer, its tree.  Fetches are not cancelled and their answers are    *)
(* taken in the order in which they arrive.  While a row is dragged in the *)
(* explorer, events and fetches of the list are dropped. A window that     *)
(* becomes visible again fetches both.                                     *)
(*                                                                         *)
(* A revision counts the writes.  Left out: filters, the form of an open   *)
(* initiative (module InitiativePanel), and event ids, which never repeat. *)
(* One of the two views is looked at, the list or the tree.                *)
(***************************************************************************)
EXTENDS Naturals

CONSTANTS Fetches, MaxRev

VARIABLES
    rev,       \* writes so far
    told,      \* history: the last of them that an event was sent for
    events,    \* events on their way to the window, as the revisions they tell of
    connected, \* is the stream open
    dragging,  \* hubRefreshSuppressedRef
    view,      \* the view: board.initiatives, or the explorer's products
    shown,     \* the revision it shows
    fetches,   \* the fetches under way
    mishaps    \* history: what may leave the window behind

vars == <<rev, told, events, connected, dragging, view, shown, fetches, mishaps>>

Revs == 0 .. MaxRev

(* How far a fetch is, and the revision the server read.                   *)
Fetch == [at : {"none", "sent", "answered"}, got : Revs]
NoFetch == [at |-> "none", got |-> 0]

(* "missed": a write while no stream was open.  "dropped": an event or a   *)
(* fetch while a row was dragged.  "overtaken": an answer landed after a   *)
(* newer one.  "failed": a fetch failed.                                   *)
Mishaps == {"missed", "dropped", "overtaken", "failed"}

TypeOK ==
    /\ rev \in Revs /\ told \in Revs /\ shown \in Revs
    /\ view \in {"list", "tree"}
    /\ events \subseteq Revs
    /\ connected \in BOOLEAN /\ dragging \in BOOLEAN
    /\ fetches \in [Fetches -> Fetch]
    /\ mishaps \subseteq Mishaps

Init ==
    /\ rev = 0 /\ told = 0 /\ shown = 0
    /\ view \in {"list", "tree"}
    /\ events = {}
    /\ connected = TRUE /\ dragging = FALSE
    /\ fetches = [f \in Fetches |-> NoFetch]
    /\ mishaps = {}

-----------------------------------------------------------------------------
Note(m, happened) == mishaps' = IF happened THEN mishaps \cup {m} ELSE mishaps

Ask(f) == fetches[f].at = "none" /\ fetches' = [fetches EXCEPT ![f].at = "sent"]

(* notifyHubChange after the write of a request. *)
Change ==
    /\ rev < MaxRev
    /\ rev' = rev + 1 /\ told' = rev + 1
    /\ events' = IF connected THEN events \cup {rev + 1} ELSE events
    /\ Note("missed", ~connected)
    /\ UNCHANGED <<connected, dragging, view, shown, fetches>>

(* A write of which nobody is told: of assignments, of the places of       *)
(* cards, or of an import.                                                 *)
ChangeSilently ==
    /\ rev < MaxRev
    /\ rev' = rev + 1
    /\ UNCHANGED <<told, events, connected, dragging, view, shown, fetches, mishaps>>

(* The stream breaks, and what it carried is gone. *)
Disconnect ==
    /\ connected
    /\ connected' = FALSE /\ events' = {}
    /\ Note("missed", events # {})
    /\ UNCHANGED <<rev, told, dragging, view, shown, fetches>>

(* EventSource connects again by itself. *)
Reconnect ==
    /\ ~connected
    /\ connected' = TRUE
    /\ UNCHANGED <<rev, told, events, dragging, view, shown, fetches, mishaps>>

(* Mutant: an event seen while a fetch is under way is left to its answer. *)
EventUnlessBusy(e, f) ==
    /\ e \in events
    /\ events' = events \ {e}
    /\ IF dragging \/ \E g \in Fetches : fetches[g].at # "none" THEN UNCHANGED fetches ELSE Ask(f)
    /\ Note("dropped", dragging)
    /\ UNCHANGED <<rev, told, connected, dragging, view, shown>>

(* onmessage and handleHubEvent. *)
Event(e, f) ==
    /\ e \in events
    /\ events' = events \ {e}
    /\ IF dragging THEN UNCHANGED fetches ELSE Ask(f)
    /\ Note("dropped", dragging)
    /\ UNCHANGED <<rev, told, connected, dragging, view, shown>>

(* visibilitychange: the explorer fetches even while a row is dragged. *)
Visible(f) ==
    /\ ~dragging \/ view = "tree"
    /\ Ask(f)
    /\ UNCHANGED <<rev, told, events, connected, dragging, view, shown, mishaps>>

DragStart ==
    /\ ~dragging
    /\ dragging' = TRUE
    /\ UNCHANGED <<rev, told, events, connected, view, shown, fetches, mishaps>>

DragEnd ==
    /\ dragging
    /\ dragging' = FALSE
    /\ UNCHANGED <<rev, told, events, connected, view, shown, fetches, mishaps>>

(* The server reads the rows. *)
Answer(f) ==
    /\ fetches[f].at = "sent"
    /\ fetches' = [fetches EXCEPT ![f].at = "answered", ![f].got = rev]
    /\ UNCHANGED <<rev, told, events, connected, dragging, view, shown, mishaps>>

(* The answer replaces what is shown. *)
Land(f) ==
    /\ fetches[f].at = "answered"
    /\ shown' = fetches[f].got
    /\ Note("overtaken", fetches[f].got < shown)
    /\ fetches' = [fetches EXCEPT ![f] = NoFetch]
    /\ UNCHANGED <<rev, told, events, connected, dragging, view>>

Fail(f) ==
    /\ fetches[f].at # "none"
    /\ fetches' = [fetches EXCEPT ![f] = NoFetch]
    /\ Note("failed", TRUE)
    /\ UNCHANGED <<rev, told, events, connected, dragging, view, shown>>

Deliver == \E e \in events, f \in Fetches : Event(e, f)
Serve(f) == Answer(f) \/ Land(f)

Next ==
    \/ Change \/ ChangeSilently \/ Disconnect \/ Reconnect \/ DragStart \/ DragEnd \/ Deliver
    \/ \E f \in Fetches : Visible(f) \/ Serve(f) \/ Fail(f)

(* The stream delivers, even if other fetches keep the window busy, and    *)
(* the server answers.                                                     *)
Fairness == SF_vars(Deliver) /\ \A f \in Fetches : WF_vars(Serve(f))

Spec == Init /\ [][Next]_vars
FairSpec == Spec /\ Fairness

-----------------------------------------------------------------------------
(* A change that an event was sent for is shown in the end, in the list as *)
(* in the explorer, and with it all that came before it, silently or not,  *)
(* unless one of the mishaps happened.                                     *)
ViewCatchesUp ==
    \A n \in 1 .. MaxRev : told = n ~> shown >= n \/ mishaps # {}
=============================================================================
