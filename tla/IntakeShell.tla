----------------------------- MODULE IntakeShell -----------------------------
(***************************************************************************)
(* The dialog in which a user takes something in                           *)
(* (client/src/components/intake/ProductIntakeShell.tsx) against the       *)
(* server's sessions (server/src/routes/intake-sessions.ts).               *)
(*                                                                         *)
(* The dialog shows copies of a session's plan and drafts, which its user  *)
(* edits and saves piece by piece; every answer replaces some of them.     *)
(* Nothing numbers or cancels requests, and few buttons wait for them.     *)
(* The component stays mounted while it is closed: what an answer brings   *)
(* then is there when it is opened again.                                  *)
(*                                                                         *)
(* A stamp stands for a text: each edit and each plan is a new one, and a  *)
(* draft begins with the text of its plan.  Left out: the text to analyze  *)
(* with its autosave, attachments, placement, messages, other windows (a   *)
(* session is known to the dialog that made it only).                      *)
(***************************************************************************)
EXTENDS Naturals, FiniteSets

CONSTANTS
    Keys,         \* the drafts of a session
    Calls,        \* slots for requests under way
    NoKey,        \* no draft
    MaxSessions,  \* bound on the sessions made
    MaxStamps,    \* bound on the texts
    MaxMishaps    \* bound on requests that overlap or fail

VARIABLES
    ui,      \* state of the component
    row,     \* the sessions in the database
    call,    \* requests under way
    made,    \* number of sessions so far
    mishaps, \* number of requests so far that overlapped another or failed
    stamp,   \* the latest text
    astray   \* history: what may be out of step, after overlaps and failures

vars == <<ui, row, call, made, mishaps, stamp, astray>>

Ids == 1 .. MaxSessions
Stamps == 0 .. MaxStamps
Approvals == {"pending", "approved", "skipped"}
Statuses == {"none", "CAPTURING", "ANALYZING", "CLARIFYING", "PLAN_READY", "DRAFTING",
             "REVIEWING", "COMMITTING", "COMMITTED", "FAILED", "ABANDONED"}
Kinds == {"create", "orphan", "abandon", "escape", "analyze", "clarify", "plan", "drafts",
          "draft", "commit"}

(* of: the text of the plan that drafts were made from, 0 for none. *)
Plans == [text : Stamps, unclear : BOOLEAN]
Drafts == [of : Stamps, items : [Keys -> [text : Stamps, approval : Approvals]]]
Rows == [status : Statuses, plan : Plans, drafts : Drafts]

NoPlan == [text |-> 0, unclear |-> FALSE]
NotDrafted == [of |-> 0, items |-> [k \in Keys |-> [text |-> 0, approval |-> "pending"]]]
NoRow == [status |-> "none", plan |-> NoPlan, drafts |-> NotDrafted]
NoEdit == [key |-> NoKey, text |-> 0, approval |-> "pending"]

(* edit is what the request sends; shown what its sender saw; data what    *)
(* the handler has read, and in the end its answer.                        *)
NoCall == [kind |-> "create", at |-> "none", session |-> 0, edit |-> NoEdit,
           shown |-> {}, data |-> NoRow, alone |-> TRUE]

(* What may be out of step: the plan or the drafts on the screen with the  *)
(* stored ones, or the end of a session with the end of its dialog.        *)
Parts == {"plan", "drafts", "end"}

TypeOK ==
    /\ ui \in [open : BOOLEAN, session : 0 .. MaxSessions, ref : 0 .. MaxSessions,
               status : Statuses, plan : Plans, drafts : Drafts, flags : SUBSET Kinds,
               result : BOOLEAN, typing : Keys \cup {NoKey, "title"}]
    /\ row \in [Ids -> Rows]
    /\ \A c \in Calls :
          /\ call[c].kind \in Kinds
          /\ call[c].at \in {"none", "sent", "read", "marked", "made", "done"}
          /\ call[c].session \in 0 .. MaxSessions
          /\ call[c].edit.text \in Stamps
          /\ call[c].data \in Rows
    /\ made \in 0 .. MaxSessions
    /\ mishaps \in 0 .. MaxMishaps
    /\ stamp \in Stamps
    /\ astray \subseteq Parts

Init ==
    /\ ui = [open |-> FALSE, session |-> 0, ref |-> 0, status |-> "none", plan |-> NoPlan,
             drafts |-> NotDrafted, flags |-> {}, result |-> FALSE, typing |-> NoKey]
    /\ row = [s \in Ids |-> NoRow]
    /\ call = [c \in Calls |-> NoCall]
    /\ made = 0
    /\ mishaps = 0
    /\ stamp = 0
    /\ astray = {}

-----------------------------------------------------------------------------
(* What the component derives from its state *)
clarifying == ui.status = "CLARIFYING" \/ ui.plan.unclear
isCommitted == ui.status = "COMMITTED" \/ ui.result
hasPlan == ui.plan.text > 0
hasDrafts == ui.drafts.of > 0
canGenerateDrafts ==
    /\ ui.status \in {"PLAN_READY", "REVIEWING", "DRAFTING"}
    /\ hasPlan /\ ~clarifying /\ ~isCommitted

Approved(drafts) ==
    {<<k, drafts.items[k].text>> : k \in {k \in Keys : drafts.items[k].approval = "approved"}}
Decided(drafts) == \A k \in Keys : drafts.items[k].approval # "pending"

canCommit ==
    /\ hasDrafts /\ ~isCommitted /\ "commit" \notin ui.flags
    /\ Decided(ui.drafts) /\ Approved(ui.drafts) # {}

Quiet == \A c \in Calls : call[c].at = "none"

(* Requests that write what the other one reads or answers. *)
Leaving == {"abandon", "escape"}
Ending == Leaving \cup {"commit"}
OnPlan == {"analyze", "clarify", "plan", "drafts"}
OnDrafts == {"draft", "drafts", "commit"}

Others == {call[c].kind : c \in {c \in Calls : call[c].at # "none"}}
Clash(kind) ==
    {p \in Parts :
        \/ p = "plan" /\ kind \in OnPlan /\ Others \cap OnPlan # {}
        \/ p = "drafts" /\ kind \in OnDrafts /\ Others \cap OnDrafts # {}
        \/ p = "end" /\ Others # {} /\ (Others \cup {kind}) \cap Ending # {}}

Mishap(bad) ==
    /\ bad => mishaps < MaxMishaps
    /\ mishaps' = IF bad THEN mishaps + 1 ELSE mishaps

(* A request goes out; those under way are alone no longer. *)
Send(kind, session, edit, shown) ==
    \E c \in Calls :
        /\ call[c].at = "none"
        /\ call' = [d \in Calls |->
                       IF d = c
                       THEN [NoCall EXCEPT !.kind = kind, !.at = "sent", !.session = session,
                                           !.edit = edit, !.shown = shown, !.alone = Quiet]
                       ELSE IF call[d].at = "none" THEN NoCall
                       ELSE [call[d] EXCEPT !.alone = FALSE]]
        /\ astray' = astray \cup Clash(kind)
        /\ Mishap(~Quiet)

Ask(kind, edit, shown) ==
    /\ ui.session > 0
    /\ Send(kind, ui.session, edit, shown)

(* A click takes the focus from the field, which comes first (Blur). *)
Click == ui.open /\ ui.typing = NoKey

Fresh == stamp < MaxStamps /\ stamp' = stamp + 1

-----------------------------------------------------------------------------
(* The user *)

Creates == {c \in Calls : call[c].kind \in {"create", "orphan"} /\ call[c].at = "sent"}

(* Nothing is reset by opening. *)
Open ==
    /\ ~ui.open
    /\ made + Cardinality(Creates) < MaxSessions
    /\ ui' = [ui EXCEPT !.open = TRUE]
    /\ Send("create", 0, NoEdit, {})
    /\ UNCHANGED <<row, made, stamp>>

(* The effect of open = null.  Requests go on, and so do their flags; the  *)
(* answer of a create is the only one that will be ignored (an orphan).    *)
Closed(u) ==
    IF u.open
    THEN [u EXCEPT !.open = FALSE, !.session = 0, !.ref = 0, !.status = "none",
                    !.plan = NoPlan, !.drafts = NotDrafted, !.flags = @ \ {"commit"},
                    !.result = FALSE, !.typing = NoKey]
    ELSE u

Orphaned(calls) ==
    [c \in Calls |-> IF calls[c].kind = "create" /\ calls[c].at # "none"
                     THEN [calls[c] EXCEPT !.kind = "orphan"] ELSE calls[c]]

CloseAtOnce ==
    /\ ui' = Closed(ui)
    /\ call' = Orphaned(call)
    /\ astray' = IF Quiet THEN astray ELSE astray \cup {"end"}
    /\ UNCHANGED mishaps

(* The text of the plan that will come is chosen here. *)
AskForPlan(kind) ==
    /\ Fresh
    /\ Ask(kind, [NoEdit EXCEPT !.text = stamp + 1], {})
    /\ ui' = [ui EXCEPT !.flags = @ \cup {"analyze"}]
    /\ UNCHANGED <<row, made>>

RunAnalyze ==
    /\ Click /\ ~isCommitted
    /\ ui.flags \cap {"analyze", "drafts"} = {}
    /\ AskForPlan("analyze")

SubmitClarification ==
    /\ Click /\ clarifying /\ "analyze" \notin ui.flags
    /\ AskForPlan("clarify")

(* Every change of the plan but typing: shown and sent at once, as a whole *)
PersistPlan(text) ==
    /\ Ask("plan", [NoEdit EXCEPT !.text = text], {})
    /\ ui' = [ui EXCEPT !.plan.text = text, !.typing = NoKey]

EditPlan ==
    /\ Click /\ hasPlan /\ ~clarifying
    /\ Fresh
    /\ PersistPlan(stamp + 1)
    /\ UNCHANGED <<row, made>>

(* Typing in the title of an item of the plan, or in a field of a draft.   *)
TypeTitle ==
    /\ ui.open /\ ui.typing \in {NoKey, "title"} /\ hasPlan /\ ~clarifying
    /\ Fresh
    /\ ui' = [ui EXCEPT !.plan.text = stamp + 1, !.typing = "title"]
    /\ UNCHANGED <<row, call, made, mishaps, astray>>

TypeDraft(k) ==
    /\ ui.open /\ ui.typing \in {NoKey, k} /\ hasDrafts
    /\ Fresh
    /\ ui' = [ui EXCEPT !.drafts.items[k].text = stamp + 1, !.typing = k]
    /\ UNCHANGED <<row, call, made, mishaps, astray>>

(* The field loses the focus.  A title is compared with the state, where   *)
(* it has been all along: only one with blanks around it is sent.          *)
BlurTitle ==
    /\ ui.typing = "title"
    /\ \/ PersistPlan(ui.plan.text)
       \/ /\ ui' = [ui EXCEPT !.typing = NoKey]
          /\ astray' = astray \cup {"plan"}
          /\ UNCHANGED <<call, mishaps>>
    /\ UNCHANGED <<row, made, stamp>>

PatchDraft(k, edit) ==
    /\ ~isCommitted
    /\ Ask("draft", [edit EXCEPT !.key = k], {})
    /\ ui' = [ui EXCEPT !.flags = @ \cup {"draft"}, !.typing = NoKey]

(* Mutant: a field of a draft is compared with the state, as a title is.   *)
BlurDraftIfChanged ==
    /\ ui.typing \in Keys
    /\ ui' = [ui EXCEPT !.typing = NoKey]
    /\ UNCHANGED <<row, call, made, mishaps, stamp, astray>>

BlurDraft ==
    /\ ui.typing \in Keys
    /\ \/ PatchDraft(ui.typing, [NoEdit EXCEPT !.text = ui.drafts.items[ui.typing].text])
       \/ /\ isCommitted \/ ui.session = 0
          /\ ui' = [ui EXCEPT !.typing = NoKey]
          /\ UNCHANGED <<call, mishaps, astray>>
    /\ UNCHANGED <<row, made, stamp>>

Decide(k, approval) ==
    /\ Click /\ hasDrafts /\ "draft" \notin ui.flags
    /\ PatchDraft(k, [NoEdit EXCEPT !.approval = approval])
    /\ UNCHANGED <<row, made, stamp>>

RunGenerateDrafts ==
    /\ Click /\ ~hasDrafts /\ canGenerateDrafts /\ "drafts" \notin ui.flags
    /\ Ask("drafts", NoEdit, {<<NoKey, ui.plan.text>>})
    /\ ui' = [ui EXCEPT !.flags = @ \cup {"drafts"}]
    /\ UNCHANGED <<row, made, stamp>>

RunCommit ==
    /\ Click /\ canCommit
    /\ Ask("commit", NoEdit, Approved(ui.drafts))
    /\ ui' = [ui EXCEPT !.flags = @ \cup {"commit"}]
    /\ UNCHANGED <<row, made, stamp>>

(* The dialog closes when the answer is there, or at once. *)
Cancel ==
    /\ Click
    /\ \/ Ask("abandon", NoEdit, {}) /\ UNCHANGED ui
       \/ (ui.session = 0 \/ isCommitted) /\ CloseAtOnce
    /\ UNCHANGED <<row, made, stamp>>

(* Mutant: the key only closes the dialog. *)
EscapeOnly ==
    /\ ui.open
    /\ CloseAtOnce
    /\ UNCHANGED <<row, made, stamp>>

(* The session that is abandoned is that of the ref; nobody waits. *)
Escape ==
    /\ ui.open
    /\ IF ui.ref > 0 /\ ~ui.result
       THEN Send("escape", ui.ref, NoEdit, {}) /\ ui' = Closed(ui)
       ELSE CloseAtOnce
    /\ UNCHANGED <<row, made, stamp>>

-----------------------------------------------------------------------------
(* The server *)
Locked(s) == row[s].status \in {"COMMITTING", "COMMITTED"}

(* What a handler asks of the session it finds. *)
Accepts(kind, s) ==
    /\ ~Locked(s)
    /\ kind = "drafts" => /\ row[s].status \in {"PLAN_READY", "REVIEWING", "DRAFTING"}
                          /\ row[s].plan.text > 0
    /\ kind \in {"draft", "commit"} => row[s].drafts.of > 0

(* What a request that comes to nothing, or seems to, leaves out of step.  *)
Lost(c) ==
    CASE call[c].kind \in {"analyze", "clarify", "plan"} -> {"plan"}
      [] call[c].kind = "draft" -> {"drafts"}
      [] call[c].kind = "drafts" -> {}
      [] OTHER -> {"end"}

(* A session that is committed needs no end. *)
Over(s) == IF row[s].status = "COMMITTED" THEN {"end"} ELSE {}

(* Errors are known at once.  Only the flags of their requests go; a       *)
(* dialog that is being cancelled closes all the same.                     *)
Flag(kind) == IF kind = "clarify" THEN "analyze" ELSE kind

Fail(cs) ==
    LET kinds == {call[c].kind : c \in cs}
        rest == [c \in Calls |-> IF c \in cs THEN NoCall ELSE call[c]]
        base == [ui EXCEPT !.flags = @ \ {Flag(k) : k \in kinds}]
    IN  IF "abandon" \in kinds
        THEN ui' = Closed(base) /\ call' = Orphaned(rest)
        ELSE ui' = base /\ call' = rest

(* The part of a session that a handler uses later, or that its answer     *)
(* brings to the dialog.                                                   *)
Part(kind, r) ==
    [status |-> IF kind \in Leaving \cup {"orphan"} THEN "none" ELSE r.status,
     plan   |-> IF kind \in OnPlan THEN r.plan ELSE NoPlan,
     drafts |-> IF kind \in OnDrafts THEN r.drafts ELSE NotDrafted]

Create(c) ==
    /\ call[c].kind \in {"create", "orphan"} /\ call[c].at = "sent"
    /\ made' = made + 1
    /\ row' = [row EXCEPT ![made + 1].status = "CAPTURING"]
    /\ call' = [call EXCEPT ![c].at = "done", ![c].session = made + 1,
                            ![c].data = Part(call[c].kind, row'[made + 1])]
    /\ UNCHANGED <<ui, mishaps, stamp, astray>>

Read(c) ==
    /\ call[c].kind \notin {"create", "orphan"} /\ call[c].at = "sent"
    /\ LET s == call[c].session IN
       IF Accepts(call[c].kind, s)
       THEN /\ call' = [call EXCEPT ![c].at = "read",
                                    ![c].data = [Part(call[c].kind, row[s])
                                                    EXCEPT !.status = "none"]]
            /\ UNCHANGED <<ui, astray>>
       ELSE IF call[c].kind = "commit" /\ row[s].status = "COMMITTED"
       THEN /\ call' = [call EXCEPT ![c].at = "done", ![c].data = Part("commit", row[s])]
            /\ UNCHANGED <<ui, astray>>
       ELSE /\ Fail({c})
            /\ astray' = astray \cup (Lost(c) \ Over(s))
    /\ UNCHANGED <<row, made, mishaps, stamp>>

(* The last write of a handler, and its answer. *)
Answer(c, new) ==
    /\ row' = [row EXCEPT ![call[c].session] = new]
    /\ call' = [call EXCEPT ![c] = [@ EXCEPT !.at = "done", !.edit = NoEdit,
                                             !.data = Part(call[c].kind, new)]]
    /\ UNCHANGED <<ui, made, mishaps, astray>>

Marks == [analyze |-> "ANALYZING", drafts |-> "DRAFTING", commit |-> "COMMITTING"]

Mark(c) ==
    /\ call[c].kind \in DOMAIN Marks /\ call[c].at = "read"
    /\ row' = [row EXCEPT ![call[c].session].status = Marks[call[c].kind]]
    /\ call' = [call EXCEPT ![c].at = "marked"]
    /\ UNCHANGED <<ui, made, mishaps, stamp, astray>>

Abandon(c) ==
    /\ call[c].kind \in {"abandon", "escape"} /\ call[c].at = "read"
    /\ Answer(c, [row[call[c].session] EXCEPT !.status = "ABANDONED"])
    /\ UNCHANGED stamp

StorePlan(c) ==
    /\ \/ call[c].kind = "analyze" /\ call[c].at = "marked"
       \/ call[c].kind = "clarify" /\ call[c].at = "read"
    /\ \E unclear \in BOOLEAN :
          Answer(c, [row[call[c].session] EXCEPT
                        !.status = IF unclear THEN "CLARIFYING" ELSE "PLAN_READY",
                        !.plan = [text |-> call[c].edit.text, unclear |-> unclear]])
    /\ UNCHANGED stamp

(* Mutant: the patch takes the place of the draft. *)
Replaced(items, e) == [items EXCEPT ![e.key] = [text |-> e.text]]

(* A patch has one field of the draft, the others stay. *)
Merged(items, e) ==
    IF e.text > 0 THEN [items EXCEPT ![e.key].text = e.text]
                  ELSE [items EXCEPT ![e.key].approval = e.approval]

StoreEdit(c) ==
    /\ call[c].at = "read"
    /\ LET s == call[c].session  e == call[c].edit  old == call[c].data.drafts IN
       \/ /\ call[c].kind = "plan"
          /\ Answer(c, [row[s] EXCEPT !.status = "PLAN_READY",
                                      !.plan = [text |-> e.text, unclear |-> FALSE]])
       \/ /\ call[c].kind = "draft"
          /\ Answer(c, [row[s] EXCEPT !.status = "REVIEWING",
                                      !.drafts = [old EXCEPT !.items = Merged(@, e)]])
    /\ UNCHANGED stamp

StoreDrafts(c) ==
    /\ call[c].kind = "drafts" /\ call[c].at = "marked"
    /\ LET plan == call[c].data.plan.text IN
       Answer(c, [row[call[c].session] EXCEPT
                     !.status = "REVIEWING",
                     !.drafts = [of |-> plan,
                                 items |-> [k \in Keys |-> [text |-> plan,
                                                            approval |-> "pending"]]]])
    /\ UNCHANGED stamp

(* The catch of analyze and of drafts.  Whatever the client shows stays.   *)
GiveUp(c) ==
    /\ call[c].kind \in {"analyze", "drafts"} /\ call[c].at \in {"read", "marked"}
    /\ row' = [row EXCEPT ![call[c].session].status = "FAILED"]
    /\ Fail({c})
    /\ Mishap(TRUE)
    /\ UNCHANGED <<made, stamp, astray>>

CommitTransaction(c) ==
    /\ call[c].kind = "commit" /\ call[c].at = "marked"
    /\ Decided(call[c].data.drafts) /\ Approved(call[c].data.drafts) # {}
    /\ call' = [call EXCEPT ![c].at = "made"]
    /\ UNCHANGED <<ui, row, made, mishaps, stamp, astray>>

(* The gate or the placement refuses, or a statement fails. *)
CommitReopen(c) ==
    /\ call[c].kind = "commit" /\ call[c].at \in {"marked", "made"}
    /\ row' = [row EXCEPT ![call[c].session].status = "REVIEWING"]
    /\ Fail({c})
    /\ astray' = astray \cup Lost(c)
    /\ Mishap(call[c].at = "made")
    /\ UNCHANGED <<made, stamp>>

CommitRecord(c) ==
    /\ call[c].kind = "commit" /\ call[c].at = "made"
    /\ Answer(c, [row[call[c].session] EXCEPT !.status = "COMMITTED"])
    /\ UNCHANGED stamp

(* The request or its answer is lost. *)
Lose(c) ==
    /\ call[c].at \in {"sent", "done"}
    /\ Fail({c})
    /\ astray' = astray \cup Lost(c)
    /\ Mishap(TRUE)
    /\ UNCHANGED <<row, made, stamp>>

(* A deploy, or a handler that throws: all requests end. *)
Restart ==
    /\ ~Quiet
    /\ LET lost == {c \in Calls : call[c].at # "none"} IN
       /\ Fail(lost)
       /\ astray' = astray \cup UNION {Lost(c) : c \in lost}
    /\ Mishap(TRUE)
    /\ UNCHANGED <<row, made, stamp>>

-----------------------------------------------------------------------------
(* Answers *)
(* What an answer brings, whatever the component has become meanwhile. *)
Shows(c) ==
    LET k == call[c].kind  new == call[c].data
        Back == [ui EXCEPT !.flags = @ \ {Flag(k)}, !.status = new.status,
                           !.session = call[c].session]
    IN  CASE k = "create" -> [Back EXCEPT !.ref = call[c].session]
          [] k \in {"analyze", "clarify"} ->
               [Back EXCEPT !.plan = new.plan, !.drafts = NotDrafted, !.typing = NoKey]
          [] k = "plan" -> [Back EXCEPT !.plan = new.plan]
          [] k \in {"drafts", "draft"} -> [Back EXCEPT !.drafts = new.drafts]
          [] k = "commit" -> [Back EXCEPT !.result = TRUE]

(* What is in step again after a request that was alone all the time. *)
Mends(c) ==
    CASE call[c].kind \in {"analyze", "clarify"} -> {"plan", "drafts"}
      [] call[c].kind = "plan" -> {"plan"}
      [] call[c].kind \in {"drafts", "draft"} -> {"drafts"}
      [] OTHER -> {}

(* The answer to an edit of the plan may take the dialog to a session that *)
(* the drafts on the screen do not belong to.                              *)
Mixes(c) ==
    IF call[c].kind = "plan" /\ ui.session \notin {0, call[c].session} THEN {"drafts"} ELSE {}

Land(c) ==
    /\ call[c].at = "done"
    /\ IF call[c].kind = "abandon"
       THEN Fail({c})
       ELSE /\ ui' = IF call[c].kind \in {"orphan", "escape"} THEN ui ELSE Shows(c)
            /\ call' = [call EXCEPT ![c] = NoCall]
    /\ astray' = (IF call[c].alone THEN astray \ Mends(c) ELSE astray) \cup Mixes(c)
    /\ UNCHANGED <<row, made, mishaps, stamp>>

Next ==
    \/ Open \/ RunAnalyze \/ SubmitClarification \/ EditPlan \/ TypeTitle \/ BlurTitle
    \/ BlurDraft \/ RunGenerateDrafts \/ RunCommit \/ Cancel \/ Escape \/ Restart
    \/ \E k \in Keys : TypeDraft(k) \/ Decide(k, "approved") \/ Decide(k, "skipped")
    \/ \E c \in Calls :
          \/ Create(c) \/ Read(c) \/ Mark(c) \/ Abandon(c) \/ StorePlan(c) \/ StoreEdit(c)
          \/ StoreDrafts(c) \/ GiveUp(c) \/ CommitTransaction(c) \/ CommitReopen(c)
          \/ CommitRecord(c) \/ Lose(c) \/ Land(c)

(* No further session: the bound ends the behaviour. *)
Exhausted == made = MaxSessions /\ ~ui.open /\ Quiet

Spec == Init /\ [][Next]_vars

-----------------------------------------------------------------------------
(* Drafts are made from the plan that was on the screen when they were     *)
(* asked for, and what a commit creates is what was on the screen as       *)
(* approved: the server works on its own copies, which all edits must have *)
(* reached.  They may not have after requests that overlap, a save that    *)
(* failed or was refused, a title typed into the plan, or an answer that   *)
(* took the dialog to another session, until a later answer mends it.      *)
SeenIsUsed ==
    \A c \in Calls :
        /\ call[c].kind = "drafts" /\ call[c].at = "done" /\ "plan" \notin astray =>
              call[c].shown = {<<NoKey, call[c].data.drafts.of>>}
        /\ call[c].kind = "commit" /\ call[c].at = "made" /\ "drafts" \notin astray =>
              call[c].shown = Approved(call[c].data.drafts)

(* A session that its dialog has left is over: abandoned if it was not     *)
(* committed, and nobody will find it again.  Requests that overlap with   *)
(* the end, or fail, may leave it open.                                    *)
LeftIsOver ==
    ~ui.open /\ Quiet /\ "end" \notin astray =>
        \A s \in 1 .. made : row[s].status \in {"ABANDONED", "COMMITTED"}
=============================================================================
