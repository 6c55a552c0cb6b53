-------------------------- MODULE MCIntake_proofs --------------------------
(***************************************************************************)
(* Proofs about the dialog of product intake (IntakeShell), for any number *)
(* of requests, sessions, drafts, texts and mishaps: drafts and commits    *)
(* use what the user saw, and a session that its dialog has left is over.  *)
(***************************************************************************)
EXTENDS MCIntake, FiniteSetTheorems, TLAPS

Dialogs ==
    [open : BOOLEAN, session : 0 .. MaxSessions, ref : 0 .. MaxSessions,
     status : D!Statuses, plan : D!Plans, drafts : D!Drafts, flags : SUBSET D!Kinds,
     result : BOOLEAN, typing : Keys \cup {NoKey, "title"}]

Edits == [key : Keys \cup {NoKey}, text : D!Stamps, approval : D!Approvals]

CallRecords ==
    [kind : D!Kinds, at : {"none", "sent", "read", "marked", "made", "done"},
     session : 0 .. MaxSessions, edit : Edits,
     shown : SUBSET ((Keys \cup {NoKey}) \X D!Stamps), data : D!Rows, alone : BOOLEAN]

DialogTypes ==
    /\ dUi \in Dialogs
    /\ dRow \in [D!Ids -> D!Rows]
    /\ dCall \in [Requests -> CallRecords]
    /\ dMade \in Nat
    /\ dStamp \in D!Stamps

Under(c) == dCall[c].at # "none"
Creating(c) == dCall[c].kind \in {"create", "orphan"} /\ dCall[c].at = "sent"

(* Sessions are known to nobody before they are made; only an open dialog  *)
(* has a field with the focus.                                             *)
SlotInv ==
    /\ dUi.typing # NoKey => dUi.open
    /\ IsFiniteSet(D!Creates)
    /\ dMade + Cardinality(D!Creates) <= MaxSessions
    /\ dUi.session <= dMade /\ dUi.ref <= dMade
    /\ \A c \in Requests :
          /\ dCall[c].session <= dMade
          /\ Under(c) /\ ~Creating(c) => dCall[c].session \in D!Ids

-----------------------------------------------------------------------------
(* What the parts of the steps do *)

(* The dialog as it was but for its flags. *)
UiKept ==
    /\ dUi'.open = dUi.open /\ dUi'.session = dUi.session /\ dUi'.ref = dUi.ref
    /\ dUi'.status = dUi.status /\ dUi'.plan = dUi.plan /\ dUi'.drafts = dUi.drafts
    /\ dUi'.result = dUi.result /\ dUi'.typing = dUi.typing

UiClosed ==
    /\ ~dUi'.open /\ dUi'.session = 0 /\ dUi'.ref = 0 /\ dUi'.status = "none"
    /\ dUi'.plan = D!NoPlan /\ dUi'.drafts = D!NotDrafted
    /\ ~dUi'.result /\ dUi'.typing = NoKey

CallKept(c) ==
    \/ dCall'[c] = dCall[c]
    \/ /\ dCall[c].kind = "create" /\ Under(c)
       /\ dCall'[c] = [dCall[c] EXCEPT !.kind = "orphan"]

LEMMA Nothing ==
    /\ D!NoPlan \in D!Plans /\ D!NotDrafted \in D!Drafts /\ D!NoRow \in D!Rows
    /\ D!NoEdit \in Edits /\ D!NoCall \in CallRecords
    /\ D!NoPlan.text = 0 /\ D!NotDrafted.of = 0
  <1>1. 0 \in D!Stamps
    BY DialogAssumption DEF D!Stamps
  <1>2. D!NoPlan \in D!Plans /\ D!NotDrafted \in D!Drafts
    BY <1>1 DEF D!NoPlan, D!Plans, D!NotDrafted, D!Drafts, D!Approvals
  <1>3. D!NoRow \in D!Rows
    BY <1>2 DEF D!NoRow, D!Rows, D!Statuses
  <1>4. D!NoEdit \in Edits
    BY <1>1 DEF D!NoEdit, Edits, D!Approvals
  <1>5. D!NoCall \in CallRecords
    BY <1>3, <1>4, DialogAssumption DEF D!NoCall, CallRecords, D!Kinds
  <1> QED BY <1>2, <1>3, <1>4, <1>5 DEF D!NoPlan, D!NotDrafted

LEMMA PartType ==
    ASSUME NEW kind, NEW r \in D!Rows
    PROVE  D!Part(kind, r) \in D!Rows
  <1>1. r.status \in D!Statuses /\ r.plan \in D!Plans /\ r.drafts \in D!Drafts
    BY DEF D!Rows
  <1>2. "none" \in D!Statuses
    BY DEF D!Statuses
  <1> QED BY <1>1, <1>2, Nothing DEF D!Part, D!Rows

LEMMA ClosedType ==
    ASSUME NEW u \in Dialogs
    PROVE  D!Closed(u) \in Dialogs
  <1>1. CASE u.open
    <2>1. /\ u.flags \ {"commit"} \in SUBSET D!Kinds /\ "none" \in D!Statuses
          /\ 0 \in 0 .. MaxSessions
      BY DialogAssumption DEF Dialogs, D!Statuses
    <2>2. D!Closed(u) = [u EXCEPT !.open = FALSE, !.session = 0, !.ref = 0, !.status = "none",
                                  !.plan = D!NoPlan, !.drafts = D!NotDrafted,
                                  !.flags = u.flags \ {"commit"},
                                  !.result = FALSE, !.typing = NoKey]
      BY <1>1 DEF D!Closed, Dialogs
    <2> QED BY <2>1, <2>2, Nothing DEF Dialogs
  <1> QED BY <1>1 DEF D!Closed

LEMMA FailEffect ==
    ASSUME DialogTypes, NEW cs \in SUBSET Requests, D!Fail(cs)
    PROVE  /\ dUi' \in Dialogs /\ dCall' \in [Requests -> CallRecords]
           /\ UiKept \/ UiClosed
           /\ \A c \in cs : dCall'[c] = D!NoCall
           /\ \A c \in Requests \ cs : CallKept(c)
           /\ ~UiKept => \E c \in cs : dCall[c].kind = "abandon"
           /\ \A c \in Requests \ cs : dCall'[c] # dCall[c] =>
                 \E d \in cs : dCall[d].kind = "abandon"
  <1> DEFINE kinds == {dCall[c].kind : c \in cs}
             rest == [c \in Requests |-> IF c \in cs THEN D!NoCall ELSE dCall[c]]
             base == [dUi EXCEPT !.flags = @ \ {D!Flag(k) : k \in kinds}]
  <1>1. base \in Dialogs /\ rest \in [Requests -> CallRecords]
    BY Nothing DEF DialogTypes, Dialogs
  <1>2. /\ base.open = dUi.open /\ base.session = dUi.session /\ base.ref = dUi.ref
        /\ base.status = dUi.status /\ base.plan = dUi.plan /\ base.drafts = dUi.drafts
        /\ base.result = dUi.result /\ base.typing = dUi.typing
    BY DEF DialogTypes, Dialogs
  <1>3. IF "abandon" \in kinds
        THEN dUi' = D!Closed(base) /\ dCall' = D!Orphaned(rest)
        ELSE dUi' = base /\ dCall' = rest
    BY DEF D!Fail
  <1>4. CASE "abandon" \notin kinds
    BY <1>1, <1>2, <1>3, <1>4 DEF UiKept, CallKept
  <1>5. CASE "abandon" \in kinds
    <2>1. PICK d \in cs : dCall[d].kind = "abandon"
      BY <1>5
    <2>2. dUi' \in Dialogs
      BY <1>1, <1>3, <1>5, ClosedType
    <2>3. UiKept \/ UiClosed
      <3> HIDE DEF base
      <3>1. CASE base.open
        BY <1>1, <1>3, <1>5, <3>1 DEF D!Closed, UiClosed, Dialogs
      <3>2. CASE ~base.open
        BY <1>2, <1>3, <1>5, <3>2 DEF D!Closed, UiKept
      <3> QED BY <3>1, <3>2
    <2>4. \A c \in Requests : dCall'[c] = IF rest[c].kind = "create" /\ rest[c].at # "none"
                                         THEN [rest[c] EXCEPT !.kind = "orphan"] ELSE rest[c]
      BY <1>3, <1>5 DEF D!Orphaned
    <2>5. /\ \A c \in cs : dCall'[c] = D!NoCall
          /\ \A c \in Requests \ cs : CallKept(c)
      BY <2>4 DEF D!NoCall, CallKept, Under
    <2>6. dCall' \in [Requests -> CallRecords]
      <3>1. \A k \in CallRecords : [k EXCEPT !.kind = "orphan"] \in CallRecords
        BY DEF CallRecords, D!Kinds
      <3> HIDE DEF rest
      <3> QED BY <1>1, <1>3, <1>5, <3>1 DEF D!Orphaned
    <2> QED BY <2>1, <2>2, <2>3, <2>5, <2>6
  <1> QED BY <1>4, <1>5

(* The request that goes out in a step of the user. *)
SentAs(c, kind, s, shown) ==
    /\ dCall[c].at = "none"
    /\ dCall'[c].kind = kind /\ dCall'[c].at = "sent" /\ dCall'[c].session = s
    /\ dCall'[c].shown = shown /\ dCall'[c].alone = D!Quiet
    /\ \A d \in Requests \ {c} :
          IF Under(d) THEN dCall'[d] = [dCall[d] EXCEPT !.alone = FALSE] ELSE dCall'[d] = D!NoCall

LEMMA SendEffect ==
    ASSUME DialogTypes, NEW kind \in D!Kinds, NEW s \in 0 .. MaxSessions, NEW edit \in Edits,
           NEW shown \in SUBSET ((Keys \cup {NoKey}) \X D!Stamps), D!Send(kind, s, edit, shown)
    PROVE  /\ dCall' \in [Requests -> CallRecords]
           /\ \E c \in Requests : SentAs(c, kind, s, shown)
           /\ dAstray' = dAstray \cup D!Clash(kind)
  <1>1. PICK c \in Requests :
          /\ dCall[c].at = "none"
          /\ dCall' = [d \in Requests |->
                         IF d = c
                         THEN [D!NoCall EXCEPT !.kind = kind, !.at = "sent", !.session = s,
                                               !.edit = edit, !.shown = shown, !.alone = D!Quiet]
                         ELSE IF dCall[d].at = "none" THEN D!NoCall
                         ELSE [dCall[d] EXCEPT !.alone = FALSE]]
          /\ dAstray' = dAstray \cup D!Clash(kind)
    BY DEF D!Send
  <1> DEFINE new == [D!NoCall EXCEPT !.kind = kind, !.at = "sent", !.session = s,
                                     !.edit = edit, !.shown = shown, !.alone = D!Quiet]
  <1>2. D!Quiet \in BOOLEAN
    BY DEF D!Quiet
  <1>3. D!NoCall \in CallRecords
    BY Nothing
  <1>4. /\ new \in CallRecords
        /\ new.kind = kind /\ new.at = "sent" /\ new.session = s /\ new.shown = shown
        /\ new.alone = D!Quiet
    BY <1>2, <1>3 DEF CallRecords
  <1>5. \A k \in CallRecords : [k EXCEPT !.alone = FALSE] \in CallRecords
    BY DEF CallRecords
  <1>6. dCall' \in [Requests -> CallRecords]
    <2> HIDE DEF new
    <2> QED BY <1>1, <1>4, <1>5, Nothing DEF DialogTypes, new
  <1>7. /\ dCall'[c] = new
        /\ \A d \in Requests \ {c} :
              IF Under(d) THEN dCall'[d] = [dCall[d] EXCEPT !.alone = FALSE]
                          ELSE dCall'[d] = D!NoCall
    BY <1>1 DEF Under
  <1>8. SentAs(c, kind, s, shown)
    <2> HIDE DEF new
    <2> QED BY <1>1, <1>4, <1>7 DEF SentAs
  <1> QED BY <1>1, <1>6, <1>8

(* The request that goes on. *)
GoesOn(c, at) ==
    /\ dCall'[c].kind = dCall[c].kind /\ dCall'[c].at = at /\ dCall'[c].shown = dCall[c].shown
    /\ dCall'[c].alone = dCall[c].alone
    /\ \A d \in Requests \ {c} : dCall'[d] = dCall[d]

LEMMA AnswerEffect ==
    ASSUME DialogTypes, NEW c \in Requests, NEW new \in D!Rows, D!Answer(c, new)
    PROVE  /\ dCall' \in [Requests -> CallRecords]
           /\ dRow' \in [D!Ids -> D!Rows]
           /\ dRow' = [dRow EXCEPT ![dCall[c].session] = new]
           /\ GoesOn(c, "done") /\ dCall'[c].session = dCall[c].session
           /\ dCall'[c].data = D!Part(dCall[c].kind, new)
           /\ UNCHANGED <<dUi, dMade, dMishaps, dAstray>>
  <1>1. dCall[c] \in CallRecords /\ D!Part(dCall[c].kind, new) \in D!Rows /\ D!NoEdit \in Edits
    BY PartType, Nothing DEF DialogTypes
  <1>2. dCall' = [dCall EXCEPT ![c] = [dCall[c] EXCEPT !.at = "done", !.edit = D!NoEdit,
                                                      !.data = D!Part(dCall[c].kind, new)]]
    BY DEF D!Answer, DialogTypes
  <1> DEFINE done == [dCall[c] EXCEPT !.at = "done", !.edit = D!NoEdit,
                                      !.data = D!Part(dCall[c].kind, new)]
  <1>3. done \in CallRecords
    BY <1>1 DEF CallRecords
  <1>4. /\ done.kind = dCall[c].kind /\ done.at = "done" /\ done.shown = dCall[c].shown
        /\ done.alone = dCall[c].alone /\ done.session = dCall[c].session
        /\ done.data = D!Part(dCall[c].kind, new)
    BY <1>1 DEF CallRecords
  <1> HIDE DEF done
  <1>5. dCall' \in [Requests -> CallRecords] /\ dCall'[c] = done
        /\ \A d \in Requests \ {c} : dCall'[d] = dCall[d]
    BY <1>2, <1>3 DEF done, DialogTypes
  <1>6. dRow' = [dRow EXCEPT ![dCall[c].session] = new]
    BY DEF D!Answer
  <1>7. dRow' \in [D!Ids -> D!Rows]
    BY <1>6 DEF DialogTypes
  <1> QED BY <1>4, <1>5, <1>6, <1>7 DEF GoesOn, D!Answer

LEMMA ShowsEffect ==
    ASSUME DialogTypes, NEW c \in Requests,
           dCall[c].kind \notin {"abandon", "orphan", "escape"}, dUi' = D!Shows(c)
    PROVE  /\ dUi' \in Dialogs
           /\ dUi'.open = dUi.open /\ dUi'.session = dCall[c].session
           /\ dUi'.ref = IF dCall[c].kind = "create" THEN dCall[c].session ELSE dUi.ref
           /\ dUi'.status = dCall[c].data.status
           /\ dUi'.plan = IF dCall[c].kind \in {"analyze", "clarify", "plan"}
                          THEN dCall[c].data.plan ELSE dUi.plan
           /\ dUi'.drafts = IF dCall[c].kind \in {"analyze", "clarify"} THEN D!NotDrafted
                            ELSE IF dCall[c].kind \in {"drafts", "draft"}
                            THEN dCall[c].data.drafts ELSE dUi.drafts
           /\ dUi'.result = (dUi.result \/ dCall[c].kind = "commit")
           /\ dUi'.typing = IF dCall[c].kind \in {"analyze", "clarify"} THEN NoKey ELSE dUi.typing
  <1> DEFINE k == dCall[c].kind  new == dCall[c].data
             back == [dUi EXCEPT !.flags = dUi.flags \ {D!Flag(k)}, !.status = new.status,
                                 !.session = dCall[c].session]
  <1>1. /\ new.status \in D!Statuses /\ new.plan \in D!Plans /\ new.drafts \in D!Drafts
        /\ dCall[c].session \in 0 .. MaxSessions
        /\ k \in {"create", "analyze", "clarify", "plan", "drafts", "draft", "commit"}
    BY DEF DialogTypes, CallRecords, D!Rows, D!Kinds
  <1>2. back \in Dialogs
    BY <1>1 DEF DialogTypes, Dialogs
  <1>3. /\ back.open = dUi.open /\ back.session = dCall[c].session /\ back.ref = dUi.ref
        /\ back.status = new.status /\ back.plan = dUi.plan /\ back.drafts = dUi.drafts
        /\ back.result = dUi.result /\ back.typing = dUi.typing
    BY <1>1 DEF DialogTypes, Dialogs
  <1>4. D!Shows(c) = CASE k = "create" -> [back EXCEPT !.ref = dCall[c].session]
                       [] k \in {"analyze", "clarify"} ->
                            [back EXCEPT !.plan = new.plan, !.drafts = D!NotDrafted,
                                         !.typing = NoKey]
                       [] k = "plan" -> [back EXCEPT !.plan = new.plan]
                       [] k \in {"drafts", "draft"} -> [back EXCEPT !.drafts = new.drafts]
                       [] k = "commit" -> [back EXCEPT !.result = TRUE]
    BY DEF D!Shows, DialogTypes, Dialogs
  <1>5. NoKey \in Keys \cup {NoKey, "title"} /\ D!NotDrafted \in D!Drafts
    BY Nothing
  <1> HIDE DEF k, new, back
  <1>6. CASE k = "create"
    BY <1>1, <1>2, <1>3, <1>4, <1>6 DEF Dialogs, k, new
  <1>7. CASE k \in {"analyze", "clarify"}
    BY <1>1, <1>2, <1>3, <1>4, <1>5, <1>7 DEF Dialogs, k, new
  <1>8. CASE k = "plan"
    BY <1>1, <1>2, <1>3, <1>4, <1>8 DEF Dialogs, k, new
  <1>9. CASE k \in {"drafts", "draft"}
    BY <1>1, <1>2, <1>3, <1>4, <1>9 DEF Dialogs, k, new
  <1>10. CASE k = "commit"
    BY <1>1, <1>2, <1>3, <1>4, <1>10 DEF Dialogs, k, new
  <1> QED BY <1>1, <1>6, <1>7, <1>8, <1>9, <1>10

-----------------------------------------------------------------------------
(* The steps, as far as the proofs look at them *)

Asked == {"abandon", "analyze", "clarify", "plan", "drafts", "draft", "commit"}

(* The dialog asks something of its session. *)
AskStep(c, kind, shown) ==
    /\ SentAs(c, kind, dUi.session, shown) /\ kind \in Asked
    /\ dUi.open /\ dUi.session > 0
    /\ UNCHANGED <<dRow, dMade>> /\ dAstray' = dAstray \cup D!Clash(kind)
    /\ dUi'.open /\ dUi'.session = dUi.session /\ dUi'.ref = dUi.ref
    /\ dUi'.status = dUi.status /\ dUi'.drafts = dUi.drafts /\ dUi'.result = dUi.result
    /\ dUi'.plan = dUi.plan \/ kind = "plan"
    /\ \/ dUi'.typing = dUi.typing
       \/ dUi'.typing = NoKey /\ dUi.typing = "title" /\ kind = "plan"
       \/ dUi'.typing = NoKey /\ dUi.typing \in Keys /\ kind = "draft"
    /\ kind = "drafts" =>
          /\ shown = {<<NoKey, dUi.plan.text>>}
          /\ dUi.typing = NoKey /\ ~D!hasDrafts /\ D!canGenerateDrafts
    /\ kind = "commit" =>
          /\ shown = D!Approved(dUi.drafts)
          /\ dUi.typing = NoKey /\ D!canCommit

OpenStep(c) ==
    /\ SentAs(c, "create", 0, {})
    /\ dMade + Cardinality(D!Creates) < MaxSessions
    /\ UNCHANGED <<dRow, dMade>> /\ dAstray' = dAstray \cup D!Clash("create")
    /\ ~dUi.open /\ dUi'.open /\ dUi'.session = dUi.session /\ dUi'.ref = dUi.ref
    /\ dUi'.status = dUi.status /\ dUi'.plan = dUi.plan /\ dUi'.drafts = dUi.drafts
    /\ dUi'.result = dUi.result /\ dUi'.typing = dUi.typing

EscapeStep(c) ==
    /\ SentAs(c, "escape", dUi.ref, {}) /\ dUi.open /\ dUi.ref > 0 /\ UiClosed
    /\ UNCHANGED <<dRow, dMade>> /\ dAstray' = dAstray \cup D!Clash("escape")

CloseStep ==
    /\ dUi.open /\ (dUi.session = 0 \/ dUi.ref = 0 \/ D!isCommitted) /\ UiClosed
    /\ \A c \in Requests : CallKept(c)
    /\ \A c \in Requests : dCall'[c] # dCall[c] => ~D!Quiet
    /\ UNCHANGED <<dRow, dMade>>
    /\ dAstray' = IF D!Quiet THEN dAstray ELSE dAstray \cup {"end"}

(* The user types, or leaves a field and nothing is sent. *)
TypeStep ==
    /\ UNCHANGED <<dRow, dCall, dMade>>
    /\ dUi.open /\ dUi'.open /\ dUi'.session = dUi.session /\ dUi'.ref = dUi.ref
    /\ dUi'.status = dUi.status /\ dUi'.result = dUi.result
    /\ dUi'.drafts.of = dUi.drafts.of
    /\ \/ /\ dUi'.typing = "title" /\ dUi.typing \in {NoKey, "title"} /\ D!hasPlan
          /\ dUi'.drafts = dUi.drafts /\ dAstray' = dAstray
       \/ /\ dUi'.typing \in Keys /\ dUi.typing \in {NoKey, dUi'.typing} /\ D!hasDrafts
          /\ dUi'.plan = dUi.plan /\ dAstray' = dAstray
       \/ /\ dUi'.typing = NoKey /\ dUi.typing = "title"
          /\ dUi'.plan = dUi.plan /\ dUi'.drafts = dUi.drafts /\ "plan" \in dAstray'
          /\ dAstray' = dAstray \cup {"plan"}
       \/ /\ dUi'.typing = NoKey /\ dUi.typing \in Keys /\ (D!isCommitted \/ dUi.session = 0)
          /\ dUi'.plan = dUi.plan /\ dUi'.drafts = dUi.drafts /\ dAstray' = dAstray

CreateStep(c) ==
    /\ Creating(c) /\ GoesOn(c, "done") /\ dCall'[c].session = dMade + 1
    /\ dMade' = dMade + 1
    /\ dRow' = [dRow EXCEPT ![dMade + 1] = [@ EXCEPT !.status = "CAPTURING"]]
    /\ dCall'[c].data.status = IF dCall[c].kind = "create" THEN "CAPTURING" ELSE "none"
    /\ UNCHANGED <<dUi, dAstray>>

(* A handler reads the row of its session, or reads that it is committed.  *)
ReadStep(c) ==
    /\ dCall[c].at = "sent" /\ ~Creating(c) /\ dCall'[c].session = dCall[c].session
    /\ UNCHANGED <<dUi, dRow, dMade, dAstray>>
    /\ \/ /\ D!Accepts(dCall[c].kind, dCall[c].session) /\ GoesOn(c, "read")
          /\ dCall'[c].data.plan = D!Part(dCall[c].kind, dRow[dCall[c].session]).plan
          /\ dCall'[c].data.drafts = D!Part(dCall[c].kind, dRow[dCall[c].session]).drafts
       \/ /\ dCall[c].kind = "commit" /\ dRow[dCall[c].session].status = "COMMITTED"
          /\ GoesOn(c, "done") /\ dCall'[c].data.status = "COMMITTED"

(* Only the status of a session is written. *)
StatusOf(s, status) == dRow' = [dRow EXCEPT ![s] = [@ EXCEPT !.status = status]]

MarkStep(c) ==
    /\ \/ dCall[c].at = "read" /\ dCall[c].kind \in {"analyze", "drafts", "commit"}
          /\ GoesOn(c, "marked")
          /\ \E status \in {"ANALYZING", "DRAFTING", "COMMITTING"} :
                StatusOf(dCall[c].session, status)
       \/ dCall[c].at = "marked" /\ dCall[c].kind = "commit" /\ GoesOn(c, "made")
          /\ dRow' = dRow
    /\ dCall'[c].session = dCall[c].session /\ dCall'[c].data = dCall[c].data
    /\ UNCHANGED <<dUi, dMade, dAstray>>

(* The last write of a handler. *)
AnswerStep(c) ==
    LET s == dCall[c].session  k == dCall[c].kind IN
    /\ GoesOn(c, "done") /\ dCall'[c].session = s
    /\ dCall'[c].data = D!Part(k, dRow'[s])
    /\ UNCHANGED <<dUi, dMade, dAstray>>
    /\ \A q \in D!Ids \ {s} : dRow'[q] = dRow[q]
    /\ \/ /\ k \in {"abandon", "escape"} /\ dCall[c].at = "read"
          /\ StatusOf(s, "ABANDONED")
       \/ /\ k = "commit" /\ dCall[c].at = "made"
          /\ StatusOf(s, "COMMITTED")
       \/ /\ k \in {"analyze", "clarify", "plan"} /\ dCall[c].at \in {"read", "marked"}
          /\ dRow'[s].drafts = dRow[s].drafts /\ dRow'[s].status \in {"CLARIFYING", "PLAN_READY"}
       \/ /\ k = "draft" /\ dCall[c].at = "read"
          /\ dRow'[s].plan = dRow[s].plan /\ dRow'[s].status = "REVIEWING"
          /\ dRow'[s].drafts.of = dCall[c].data.drafts.of
       \/ /\ k = "drafts" /\ dCall[c].at = "marked"
          /\ dRow'[s].plan = dRow[s].plan /\ dRow'[s].status = "REVIEWING"
          /\ dRow'[s].drafts.of = dCall[c].data.plan.text

(* Requests end without an answer. *)
FailStep(cs) ==
    /\ \A c \in cs : Under(c) /\ dCall'[c] = D!NoCall
    /\ UiKept \/ UiClosed
    /\ ~UiKept => \E c \in cs : dCall[c].kind = "abandon"
    /\ \A c \in Requests \ cs : CallKept(c)
    /\ \A c \in Requests \ cs : dCall'[c] # dCall[c] => \E d \in cs : dCall[d].kind = "abandon"
    /\ UNCHANGED dMade

RefuseStep(c) ==
    /\ FailStep({c}) /\ dCall[c].at = "sent" /\ ~Creating(c)
    /\ dAstray' = dAstray \cup (D!Lost(c) \ D!Over(dCall[c].session)) /\ UNCHANGED dRow
    /\ ~D!Accepts(dCall[c].kind, dCall[c].session)

GiveUpStep(c) ==
    /\ FailStep({c}) /\ dCall[c].kind \in {"analyze", "drafts"}
    /\ dCall[c].at \in {"read", "marked"}
    /\ dAstray' = dAstray /\ StatusOf(dCall[c].session, "FAILED")

ReopenStep(c) ==
    /\ FailStep({c}) /\ dCall[c].kind = "commit" /\ dCall[c].at \in {"marked", "made"}
    /\ dAstray' = dAstray \cup {"end"} /\ StatusOf(dCall[c].session, "REVIEWING")

LoseStep(cs) ==
    /\ FailStep(cs) /\ UNCHANGED dRow
    /\ dAstray' = dAstray \cup UNION {D!Lost(c) : c \in cs}

LandStep(c) ==
    /\ dCall[c].at = "done" /\ UNCHANGED <<dRow, dMade>>
    /\ dAstray' = (IF dCall[c].alone THEN dAstray \ D!Mends(c) ELSE dAstray) \cup D!Mixes(c)
    /\ \/ dCall[c].kind = "abandon" /\ FailStep({c})
       \/ /\ dCall[c].kind # "abandon" /\ dCall'[c] = D!NoCall
          /\ \A d \in Requests \ {c} : dCall'[d] = dCall[d]
          /\ IF dCall[c].kind \in {"orphan", "escape"} THEN dUi' = dUi ELSE dUi' = D!Shows(c)

Step ==
    \/ \E c \in Requests, kind \in Asked : \E shown : AskStep(c, kind, shown)
    \/ \E c \in Requests : OpenStep(c) \/ EscapeStep(c) \/ CreateStep(c) \/ ReadStep(c)
    \/ \E c \in Requests : MarkStep(c) \/ AnswerStep(c) \/ LandStep(c)
    \/ \E c \in Requests : RefuseStep(c) \/ GiveUpStep(c) \/ ReopenStep(c)
    \/ \E cs \in SUBSET Requests : LoseStep(cs)
    \/ CloseStep \/ TypeStep

-----------------------------------------------------------------------------
(* Every step of the dialog is one of these and keeps the types *)

LEMMA Sizes == \A S : D!Cardinality(S) = Cardinality(S)
  BY DEF D!Cardinality, Cardinality

LEMMA AskIs ==
    ASSUME DialogTypes, SlotInv, NEW kind \in Asked, NEW edit \in Edits,
           NEW shown \in SUBSET ((Keys \cup {NoKey}) \X D!Stamps), D!Ask(kind, edit, shown)
    PROVE  /\ dUi.session > 0 /\ dCall' \in [Requests -> CallRecords]
           /\ dAstray' = dAstray \cup D!Clash(kind)
           /\ \E c \in Requests : SentAs(c, kind, dUi.session, shown)
  <1>1. kind \in D!Kinds /\ dUi.session \in 0 .. MaxSessions
    BY DEF Asked, D!Kinds, DialogTypes, Dialogs
  <1> QED BY <1>1, SendEffect DEF D!Ask

LEMMA EditTypes ==
    ASSUME DialogTypes
    PROVE  /\ D!NoEdit \in Edits
           /\ \A t \in D!Stamps : [D!NoEdit EXCEPT !.text = t] \in Edits
           /\ \A t \in D!Stamps, k \in Keys :
                 [[D!NoEdit EXCEPT !.text = t] EXCEPT !.key = k] \in Edits
           /\ \A a \in D!Approvals, k \in Keys :
                 [[D!NoEdit EXCEPT !.approval = a] EXCEPT !.key = k] \in Edits
  BY Nothing DEF Edits

LEMMA UserSteps ==
    ASSUME DialogTypes, SlotInv,
           \/ D!Open \/ D!RunAnalyze \/ D!SubmitClarification \/ D!EditPlan \/ D!TypeTitle
           \/ D!BlurTitle \/ D!BlurDraft \/ D!RunGenerateDrafts \/ D!RunCommit \/ D!Cancel
           \/ D!Escape
           \/ \E k \in Keys : D!TypeDraft(k) \/ D!Decide(k, "approved") \/ D!Decide(k, "skipped")
    PROVE  DialogTypes' /\ Step
  <1> USE DEF D!Click
  <1>0. /\ dUi \in Dialogs /\ dCall \in [Requests -> CallRecords]
        /\ dRow \in [D!Ids -> D!Rows] /\ dMade \in Nat /\ dStamp \in D!Stamps
        /\ dUi.plan \in D!Plans /\ dUi.drafts \in D!Drafts
        /\ {} \in SUBSET ((Keys \cup {NoKey}) \X D!Stamps)
    BY DEF DialogTypes, Dialogs
  <1>1. CASE D!Open
    <2>1. dUi' = [dUi EXCEPT !.open = TRUE] /\ ~dUi.open /\ UNCHANGED <<dRow, dMade, dStamp>>
          /\ dMade + Cardinality(D!Creates) < MaxSessions /\ D!Send("create", 0, D!NoEdit, {})
      BY <1>1, Sizes DEF D!Open
    <2>2. /\ dUi' \in Dialogs /\ dUi'.open /\ dUi'.session = dUi.session /\ dUi'.ref = dUi.ref
          /\ dUi'.status = dUi.status /\ dUi'.plan = dUi.plan /\ dUi'.drafts = dUi.drafts
          /\ dUi'.result = dUi.result /\ dUi'.typing = dUi.typing
      BY <1>0, <2>1 DEF Dialogs
    <2>3. "create" \in D!Kinds /\ 0 \in 0 .. MaxSessions
      BY DialogAssumption DEF D!Kinds
    <2>4. /\ dCall' \in [Requests -> CallRecords]
          /\ \E c \in Requests : SentAs(c, "create", 0, {})
          /\ dAstray' = dAstray \cup D!Clash("create")
      BY <1>0, <2>1, <2>3, SendEffect, Nothing
    <2> QED BY <1>0, <2>1, <2>2, <2>4 DEF DialogTypes, Step, OpenStep
  <1>2. CASE D!RunAnalyze \/ D!SubmitClarification
    <2>1. PICK kind \in {"analyze", "clarify"} : D!AskForPlan(kind) /\ dUi.open
      BY <1>2 DEF D!RunAnalyze, D!SubmitClarification
    <2>2. /\ dStamp' \in D!Stamps /\ dStamp + 1 \in D!Stamps
          /\ D!Ask(kind, [D!NoEdit EXCEPT !.text = dStamp + 1], {})
          /\ dUi' = [dUi EXCEPT !.flags = @ \cup {"analyze"}] /\ UNCHANGED <<dRow, dMade>>
      BY <1>0, <2>1, DialogAssumption DEF D!AskForPlan, D!Fresh, D!Stamps
    <2>3. /\ dUi' \in Dialogs /\ dUi'.open /\ dUi'.session = dUi.session /\ dUi'.ref = dUi.ref
          /\ dUi'.status = dUi.status /\ dUi'.plan = dUi.plan /\ dUi'.drafts = dUi.drafts
          /\ dUi'.result = dUi.result /\ dUi'.typing = dUi.typing
      BY <1>0, <2>1, <2>2 DEF Dialogs, D!Kinds
    <2>4. kind \in Asked /\ kind # "drafts" /\ kind # "commit"
      BY DEF Asked
    <2>5. PICK c \in Requests : SentAs(c, kind, dUi.session, {})
      BY <1>0, <2>2, <2>4, AskIs, EditTypes
    <2>6. /\ dUi.session > 0 /\ dCall' \in [Requests -> CallRecords]
          /\ dAstray' = dAstray \cup D!Clash(kind)
      BY <1>0, <2>2, <2>4, AskIs, EditTypes
    <2>7. AskStep(c, kind, {})
      BY <2>1, <2>2, <2>3, <2>4, <2>5, <2>6 DEF AskStep
    <2> QED BY <1>0, <2>2, <2>3, <2>4, <2>6, <2>7 DEF DialogTypes, Step
  <1>3. ASSUME NEW text \in D!Stamps, D!PersistPlan(text), dUi.open, dUi.typing \in {NoKey, "title"},
               UNCHANGED <<dRow, dMade>>, dStamp' \in D!Stamps
        PROVE  DialogTypes' /\ Step
    <2>2. /\ D!Ask("plan", [D!NoEdit EXCEPT !.text = text], {})
          /\ dUi' = [dUi EXCEPT !.plan.text = text, !.typing = NoKey]
      BY <1>3 DEF D!PersistPlan
    <2>3. /\ dUi' \in Dialogs /\ dUi'.open /\ dUi'.session = dUi.session /\ dUi'.ref = dUi.ref
          /\ dUi'.status = dUi.status /\ dUi'.drafts = dUi.drafts
          /\ dUi'.result = dUi.result /\ dUi'.typing = NoKey
      <3>1. [dUi.plan EXCEPT !.text = text] \in D!Plans
        BY <1>0 DEF D!Plans
      <3>2. dUi' = [dUi EXCEPT !.plan = [dUi.plan EXCEPT !.text = text], !.typing = NoKey]
        BY <1>0, <2>2 DEF Dialogs
      <3> QED BY <1>0, <1>3, <3>1, <3>2 DEF Dialogs
    <2>4. "plan" \in Asked /\ "plan" # "drafts" /\ "plan" # "commit"
      BY DEF Asked
    <2>5. PICK c \in Requests : SentAs(c, "plan", dUi.session, {})
      BY <1>0, <1>3, <2>2, <2>4, AskIs, EditTypes
    <2>6. /\ dUi.session > 0 /\ dCall' \in [Requests -> CallRecords]
          /\ dAstray' = dAstray \cup D!Clash("plan")
      BY <1>0, <1>3, <2>2, <2>4, AskIs, EditTypes
    <2>7. AskStep(c, "plan", {})
      BY <1>3, <2>2, <2>3, <2>4, <2>5, <2>6 DEF AskStep
    <2> QED BY <1>0, <1>3, <2>3, <2>4, <2>6, <2>7 DEF DialogTypes, Step
  <1>4. CASE D!EditPlan
    <2>1. dStamp' \in D!Stamps /\ dStamp + 1 \in D!Stamps
      BY <1>0, <1>4, DialogAssumption DEF D!EditPlan, D!Fresh, D!Stamps
    <2> QED BY <1>3, <1>4, <2>1 DEF D!EditPlan
  <1>5. ASSUME dUi.open, UNCHANGED <<dRow, dCall, dMade>>, dStamp' \in D!Stamps, dUi' \in Dialogs,
               TypeStep
        PROVE  DialogTypes' /\ Step
    BY <1>0, <1>5 DEF DialogTypes, Step
  <1>6. CASE D!TypeTitle
    <2>1. dStamp' \in D!Stamps /\ dStamp + 1 \in D!Stamps
      BY <1>0, <1>6, DialogAssumption DEF D!TypeTitle, D!Fresh, D!Stamps
    <2>2. [dUi.plan EXCEPT !.text = dStamp + 1] \in D!Plans
      BY <1>0, <2>1 DEF D!Plans
    <2>3. dUi' = [dUi EXCEPT !.plan = [dUi.plan EXCEPT !.text = dStamp + 1], !.typing = "title"]
      BY <1>0, <1>6 DEF Dialogs, D!TypeTitle
    <2>4. /\ dUi' \in Dialogs /\ dUi'.open = dUi.open /\ dUi'.session = dUi.session
          /\ dUi'.ref = dUi.ref /\ dUi'.status = dUi.status /\ dUi'.drafts = dUi.drafts
          /\ dUi'.result = dUi.result /\ dUi'.typing = "title"
      BY <1>0, <2>2, <2>3 DEF Dialogs
    <2>5. /\ dUi.open /\ dUi.typing \in {NoKey, "title"} /\ D!hasPlan
          /\ UNCHANGED <<dRow, dCall, dMade, dAstray>>
      BY <1>6 DEF D!TypeTitle
    <2>6. TypeStep
      BY <2>4, <2>5 DEF TypeStep
    <2> QED BY <1>5, <2>1, <2>4, <2>5, <2>6
  <1>7. ASSUME NEW k \in Keys, D!TypeDraft(k) PROVE DialogTypes' /\ Step
    <2>0. D!Fresh
      BY <1>7 DEF D!TypeDraft
    <2>1. dStamp' \in D!Stamps /\ dStamp + 1 \in D!Stamps
      BY <1>0, <2>0, DialogAssumption DEF D!Fresh, D!Stamps
    <2> DEFINE items == [dUi.drafts.items EXCEPT ![k].text = dStamp + 1]
               drafts == [dUi.drafts EXCEPT !.items = items]
    <2>2. items \in [Keys -> [text : D!Stamps, approval : D!Approvals]]
      BY <1>0, <2>1 DEF D!Drafts
    <2>3. drafts \in D!Drafts /\ drafts.of = dUi.drafts.of
      <3> HIDE DEF items
      <3> QED BY <1>0, <2>2 DEF D!Drafts
    <2>4. dUi' = [dUi EXCEPT !.drafts = drafts, !.typing = k]
      BY <1>0, <1>7 DEF Dialogs, D!Drafts, D!TypeDraft
    <2> HIDE DEF drafts
    <2>5. /\ dUi' \in Dialogs /\ dUi'.open = dUi.open /\ dUi'.session = dUi.session
          /\ dUi'.ref = dUi.ref /\ dUi'.status = dUi.status /\ dUi'.plan = dUi.plan
          /\ dUi'.drafts.of = dUi.drafts.of
          /\ dUi'.result = dUi.result /\ dUi'.typing = k
      BY <1>0, <2>3, <2>4 DEF Dialogs
    <2>6. /\ dUi.open /\ dUi.typing \in {NoKey, k} /\ D!hasDrafts
          /\ UNCHANGED <<dRow, dCall, dMade, dAstray>>
      BY <1>7 DEF D!TypeDraft
    <2>7. TypeStep
      BY <2>5, <2>6 DEF TypeStep
    <2> QED BY <1>5, <2>1, <2>5, <2>6, <2>7
  <1>8. CASE D!BlurTitle
    <2>1. dUi.typing = "title" /\ dUi.open /\ UNCHANGED <<dRow, dMade, dStamp>>
          /\ dUi.plan.text \in D!Stamps
      BY <1>0, <1>8, DialogAssumption DEF D!BlurTitle, SlotInv, D!Plans
    <2>2. CASE D!PersistPlan(dUi.plan.text)
      BY <1>0, <1>3, <2>1, <2>2
    <2>3. CASE dUi' = [dUi EXCEPT !.typing = NoKey] /\ dAstray' = dAstray \cup {"plan"}
               /\ UNCHANGED <<dCall, dMishaps>>
      <3>1. /\ dUi' \in Dialogs /\ dUi'.open = dUi.open /\ dUi'.session = dUi.session
            /\ dUi'.ref = dUi.ref /\ dUi'.status = dUi.status /\ dUi'.plan = dUi.plan
            /\ dUi'.drafts = dUi.drafts /\ dUi'.result = dUi.result /\ dUi'.typing = NoKey
        BY <1>0, <2>3 DEF Dialogs
      <3>2. TypeStep
        BY <2>1, <2>3, <3>1 DEF TypeStep
      <3> QED BY <1>0, <1>5, <2>1, <2>3, <3>1, <3>2
    <2> QED BY <1>8, <2>2, <2>3 DEF D!BlurTitle
  <1>9. ASSUME NEW k \in Keys, NEW edit, [edit EXCEPT !.key = k] \in Edits, D!PatchDraft(k, edit),
               dUi.open, dUi.typing \in {NoKey, k}, UNCHANGED <<dRow, dMade, dStamp>>
        PROVE  DialogTypes' /\ Step
    <2>2. /\ D!Ask("draft", [edit EXCEPT !.key = k], {})
          /\ dUi' = [dUi EXCEPT !.flags = @ \cup {"draft"}, !.typing = NoKey]
      BY <1>9 DEF D!PatchDraft
    <2>3. /\ dUi' \in Dialogs /\ dUi'.open /\ dUi'.session = dUi.session /\ dUi'.ref = dUi.ref
          /\ dUi'.status = dUi.status /\ dUi'.drafts = dUi.drafts /\ dUi'.plan = dUi.plan
          /\ dUi'.result = dUi.result /\ dUi'.typing = NoKey
      BY <1>0, <1>9, <2>2 DEF Dialogs, D!Kinds
    <2>4. "draft" \in Asked /\ "draft" # "drafts" /\ "draft" # "commit"
      BY DEF Asked
    <2>5. PICK c \in Requests : SentAs(c, "draft", dUi.session, {})
      BY <1>0, <1>9, <2>2, <2>4, AskIs
    <2>6. /\ dUi.session > 0 /\ dCall' \in [Requests -> CallRecords]
          /\ dAstray' = dAstray \cup D!Clash("draft")
      BY <1>0, <1>9, <2>2, <2>4, AskIs
    <2>7. AskStep(c, "draft", {})
      BY <1>9, <2>2, <2>3, <2>4, <2>5, <2>6 DEF AskStep
    <2> QED BY <1>0, <1>9, <2>3, <2>4, <2>6, <2>7 DEF DialogTypes, Step
  <1>10. CASE D!BlurDraft
    <2>1. dUi.typing \in Keys /\ dUi.open /\ UNCHANGED <<dRow, dMade, dStamp>>
          /\ dUi.drafts.items[dUi.typing].text \in D!Stamps
      BY <1>0, <1>10, DialogAssumption DEF D!BlurDraft, SlotInv, D!Drafts
    <2>2. CASE D!PatchDraft(dUi.typing,
                            [D!NoEdit EXCEPT !.text = dUi.drafts.items[dUi.typing].text])
      BY <1>9, <2>1, <2>2, EditTypes
    <2>3. CASE /\ D!isCommitted \/ dUi.session = 0
               /\ dUi' = [dUi EXCEPT !.typing = NoKey]
               /\ UNCHANGED <<dCall, dMishaps, dAstray>>
      <3>1. /\ dUi' \in Dialogs /\ dUi'.open = dUi.open /\ dUi'.session = dUi.session
            /\ dUi'.ref = dUi.ref /\ dUi'.status = dUi.status /\ dUi'.plan = dUi.plan
            /\ dUi'.drafts = dUi.drafts /\ dUi'.result = dUi.result /\ dUi'.typing = NoKey
        BY <1>0, <2>3 DEF Dialogs
      <3>2. TypeStep
        BY <2>1, <2>3, <3>1 DEF TypeStep
      <3> QED BY <1>0, <1>5, <2>1, <2>3, <3>1, <3>2
    <2> QED BY <1>10, <2>2, <2>3 DEF D!BlurDraft
  <1>11. ASSUME NEW k \in Keys, NEW a \in {"approved", "skipped"}, D!Decide(k, a)
         PROVE  DialogTypes' /\ Step
    <2>1. a \in D!Approvals
      BY DEF D!Approvals
    <2> QED BY <1>9, <1>11, <2>1, EditTypes DEF D!Decide
  <1>12. ASSUME NEW kind \in {"drafts", "commit"}, NEW flags \in SUBSET D!Kinds,
                NEW shown \in SUBSET ((Keys \cup {NoKey}) \X D!Stamps),
                D!Ask(kind, D!NoEdit, shown), dUi.open, dUi.typing = NoKey,
                dUi' = [dUi EXCEPT !.flags = flags], UNCHANGED <<dRow, dMade, dStamp>>,
                kind = "drafts" => shown = {<<NoKey, dUi.plan.text>>} /\ ~D!hasDrafts
                                   /\ D!canGenerateDrafts,
                kind = "commit" => shown = D!Approved(dUi.drafts) /\ D!canCommit
         PROVE  DialogTypes' /\ Step
    <2>3. /\ dUi' \in Dialogs /\ dUi'.open /\ dUi'.session = dUi.session /\ dUi'.ref = dUi.ref
          /\ dUi'.status = dUi.status /\ dUi'.drafts = dUi.drafts /\ dUi'.plan = dUi.plan
          /\ dUi'.result = dUi.result /\ dUi'.typing = dUi.typing
      BY <1>0, <1>12 DEF Dialogs
    <2>4. kind \in Asked
      BY DEF Asked
    <2>5. PICK c \in Requests : SentAs(c, kind, dUi.session, shown)
      BY <1>12, <2>4, AskIs, Nothing
    <2>6. /\ dUi.session > 0 /\ dCall' \in [Requests -> CallRecords]
          /\ dAstray' = dAstray \cup D!Clash(kind)
      BY <1>12, <2>4, AskIs, Nothing
    <2>7. AskStep(c, kind, shown)
      BY <1>12, <2>3, <2>4, <2>5, <2>6 DEF AskStep
    <2> QED BY <1>0, <1>12, <2>3, <2>4, <2>6, <2>7 DEF DialogTypes, Step
  <1>13. CASE D!RunGenerateDrafts
    <2>1. {<<NoKey, dUi.plan.text>>} \in SUBSET ((Keys \cup {NoKey}) \X D!Stamps)
      BY <1>0 DEF D!Plans
    <2>2. dUi.flags \cup {"drafts"} \in SUBSET D!Kinds
          /\ dUi' = [dUi EXCEPT !.flags = dUi.flags \cup {"drafts"}]
      BY <1>0, <1>13 DEF Dialogs, D!Kinds, D!RunGenerateDrafts
    <2> QED BY <1>12, <1>13, <2>1, <2>2 DEF D!RunGenerateDrafts
  <1>14. CASE D!RunCommit
    <2>1. D!Approved(dUi.drafts) \in SUBSET ((Keys \cup {NoKey}) \X D!Stamps)
      BY <1>0 DEF D!Drafts, D!Approved
    <2>2. dUi.flags \cup {"commit"} \in SUBSET D!Kinds
          /\ dUi' = [dUi EXCEPT !.flags = dUi.flags \cup {"commit"}]
      BY <1>0, <1>14 DEF Dialogs, D!Kinds, D!RunCommit
    <2> QED BY <1>12, <1>14, <2>1, <2>2 DEF D!RunCommit
  <1>15. ASSUME D!CloseAtOnce, dUi.open, dUi.session = 0 \/ dUi.ref = 0 \/ D!isCommitted,
                UNCHANGED <<dRow, dMade, dStamp>>
         PROVE  DialogTypes' /\ Step
    <2>1. dUi' = D!Closed(dUi) /\ dCall' = D!Orphaned(dCall)
          /\ dAstray' = IF D!Quiet THEN dAstray ELSE dAstray \cup {"end"}
      BY <1>15 DEF D!CloseAtOnce
    <2>2. dUi' \in Dialogs
      BY <1>0, <2>1, ClosedType
    <2>3. UiClosed
      BY <1>0, <1>15, <2>1 DEF D!Closed, UiClosed, Dialogs
    <2>4. \A c \in Requests : dCall'[c] = IF dCall[c].kind = "create" /\ dCall[c].at # "none"
                                         THEN [dCall[c] EXCEPT !.kind = "orphan"] ELSE dCall[c]
      BY <2>1 DEF D!Orphaned
    <2>5. \A k \in CallRecords : [k EXCEPT !.kind = "orphan"] \in CallRecords
      BY DEF CallRecords, D!Kinds
    <2>6. dCall' \in [Requests -> CallRecords]
      BY <1>0, <2>1, <2>4, <2>5 DEF D!Orphaned
    <2>7. /\ \A c \in Requests : CallKept(c)
          /\ \A c \in Requests : dCall'[c] # dCall[c] => ~D!Quiet
      BY <2>4 DEF CallKept, Under, D!Quiet
    <2>8. CloseStep
      BY <1>15, <2>1, <2>3, <2>7 DEF CloseStep
    <2> QED BY <1>0, <1>15, <2>2, <2>6, <2>8 DEF DialogTypes, Step
  <1>16. CASE D!Cancel
    <2>1. CASE D!Ask("abandon", D!NoEdit, {}) /\ UNCHANGED dUi
      <3>1. "abandon" \in Asked
        BY DEF Asked
      <3>2. PICK c \in Requests : SentAs(c, "abandon", dUi.session, {})
        BY <1>0, <2>1, <3>1, AskIs, Nothing
      <3>3. /\ dUi.session > 0 /\ dCall' \in [Requests -> CallRecords]
            /\ dAstray' = dAstray \cup D!Clash("abandon")
        BY <1>0, <2>1, <3>1, AskIs, Nothing
      <3>4. dUi.open /\ UNCHANGED <<dRow, dMade, dStamp>>
        BY <1>16 DEF D!Cancel
      <3>5. AskStep(c, "abandon", {})
        BY <2>1, <3>1, <3>2, <3>3, <3>4 DEF AskStep
      <3> QED BY <1>0, <2>1, <3>1, <3>3, <3>4, <3>5 DEF DialogTypes, Step
    <2>2. CASE (dUi.session = 0 \/ D!isCommitted) /\ D!CloseAtOnce
      BY <1>15, <1>16, <2>2 DEF D!Cancel
    <2> QED BY <1>16, <2>1, <2>2 DEF D!Cancel
  <1>17. CASE D!Escape
    <2>1. dUi.open /\ UNCHANGED <<dRow, dMade, dStamp>> /\ dUi.ref \in 0 .. MaxSessions
      BY <1>0, <1>17 DEF D!Escape, Dialogs
    <2>2. CASE dUi.ref > 0 /\ ~dUi.result
      <3>1. D!Send("escape", dUi.ref, D!NoEdit, {}) /\ dUi' = D!Closed(dUi) /\ "escape" \in D!Kinds
        BY <1>17, <2>2 DEF D!Escape, D!Kinds
      <3>2. /\ dCall' \in [Requests -> CallRecords]
            /\ \E c \in Requests : SentAs(c, "escape", dUi.ref, {})
            /\ dAstray' = dAstray \cup D!Clash("escape")
        BY <1>0, <2>1, <3>1, SendEffect, Nothing
      <3>3. dUi' \in Dialogs /\ UiClosed
        BY <1>0, <2>1, <3>1, ClosedType DEF D!Closed, UiClosed, Dialogs
      <3> QED BY <1>0, <2>1, <2>2, <3>2, <3>3 DEF DialogTypes, Step, EscapeStep
    <2>3. CASE ~(dUi.ref > 0 /\ ~dUi.result)
      <3>1. dUi.ref = 0 \/ D!isCommitted
        BY <2>1, <2>3 DEF D!isCommitted
      <3> QED BY <1>15, <1>17, <2>1, <2>3, <3>1 DEF D!Escape
    <2> QED BY <2>2, <2>3
  <1> QED BY <1>1, <1>2, <1>4, <1>6, <1>7, <1>8, <1>10, <1>11, <1>13, <1>14, <1>16, <1>17

LEMMA FailIs ==
    ASSUME DialogTypes, NEW cs \in SUBSET Requests, \A c \in cs : Under(c), D!Fail(cs),
           UNCHANGED <<dMade, dStamp>>, dRow' \in [D!Ids -> D!Rows]
    PROVE  DialogTypes' /\ FailStep(cs)
  <1>1. /\ dUi' \in Dialogs /\ dCall' \in [Requests -> CallRecords]
        /\ UiKept \/ UiClosed
        /\ \A c \in cs : dCall'[c] = D!NoCall
        /\ \A c \in Requests \ cs : CallKept(c)
        /\ ~UiKept => \E c \in cs : dCall[c].kind = "abandon"
        /\ \A c \in Requests \ cs : dCall'[c] # dCall[c] =>
              \E d \in cs : dCall[d].kind = "abandon"
    BY FailEffect
  <1>2. DialogTypes'
    BY <1>1 DEF DialogTypes
  <1>3. FailStep(cs)
    BY <1>1 DEF FailStep
  <1> QED BY <1>2, <1>3

(* A request that has begun to be handled works on a session. *)
LEMMA HasSession ==
    ASSUME DialogTypes, SlotInv, NEW c \in Requests, Under(c), ~Creating(c)
    PROVE  /\ dCall[c] \in CallRecords /\ dCall[c].session \in D!Ids
           /\ dRow[dCall[c].session] \in D!Rows
           /\ \A status \in D!Statuses :
                 [dRow EXCEPT ![dCall[c].session].status = status] \in [D!Ids -> D!Rows]
  <1>1. dCall[c] \in CallRecords /\ dCall[c].session \in D!Ids /\ dRow[dCall[c].session] \in D!Rows
    BY DEF DialogTypes, SlotInv
  <1>2. \A r \in D!Rows, status \in D!Statuses : [r EXCEPT !.status = status] \in D!Rows
    BY DEF D!Rows
  <1> QED BY <1>1, <1>2 DEF DialogTypes

LEMMA GoingOn ==
    ASSUME DialogTypes, NEW c \in Requests, NEW at \in {"read", "marked", "made", "done"},
           NEW s \in 0 .. MaxSessions, NEW data \in D!Rows,
           dCall' = [dCall EXCEPT ![c] = [@ EXCEPT !.at = at, !.session = s, !.data = data]]
    PROVE  /\ dCall' \in [Requests -> CallRecords]
           /\ GoesOn(c, at) /\ dCall'[c].session = s /\ dCall'[c].data = data
  <1>1. dCall[c] \in CallRecords
    BY DEF DialogTypes
  <1> DEFINE new == [dCall[c] EXCEPT !.at = at, !.session = s, !.data = data]
  <1>2. /\ new \in CallRecords /\ new.kind = dCall[c].kind /\ new.at = at
        /\ new.shown = dCall[c].shown /\ new.alone = dCall[c].alone /\ new.session = s
        /\ new.data = data
    BY <1>1 DEF CallRecords
  <1>3. dCall' = [dCall EXCEPT ![c] = new]
    BY DEF DialogTypes
  <1> HIDE DEF new
  <1> QED BY <1>2, <1>3 DEF DialogTypes, GoesOn

LEMMA CreateIs ==
    ASSUME DialogTypes, SlotInv, NEW c \in Requests, D!Create(c)
    PROVE  DialogTypes' /\ CreateStep(c)
  <1>1. Creating(c) /\ dMade' = dMade + 1 /\ UNCHANGED <<dUi, dMishaps, dStamp, dAstray>>
    BY DEF D!Create, Creating
  <1>2. dMade + 1 \in D!Ids
    <2>1. c \in D!Creates
      BY <1>1 DEF D!Creates, Creating
    <2>2. Cardinality(D!Creates) # 0 /\ Cardinality(D!Creates) \in Nat
      BY <2>1, FS_EmptySet, FS_CardinalityType DEF SlotInv
    <2> QED BY <2>2, DialogAssumption DEF SlotInv, DialogTypes, D!Ids
  <1>3. /\ dRow[dMade + 1] \in D!Rows /\ "CAPTURING" \in D!Statuses
        /\ dRow' = [dRow EXCEPT ![dMade + 1] = [dRow[dMade + 1] EXCEPT !.status = "CAPTURING"]]
    BY <1>2 DEF DialogTypes, D!Create, D!Statuses
  <1> DEFINE new == [dRow[dMade + 1] EXCEPT !.status = "CAPTURING"]
  <1>4. new \in D!Rows /\ new.status = "CAPTURING"
    BY <1>3 DEF D!Rows
  <1>5. dRow' \in [D!Ids -> D!Rows] /\ dRow'[dMade + 1] = new
    <2> HIDE DEF new
    <2>1. dRow' = [dRow EXCEPT ![dMade + 1] = new]
      BY <1>3 DEF new
    <2> QED BY <1>2, <1>4, <2>1 DEF DialogTypes
  <1>6. /\ dMade + 1 \in 0 .. MaxSessions /\ D!Part(dCall[c].kind, dRow'[dMade + 1]) \in D!Rows
        /\ "done" \in {"read", "marked", "made", "done"}
    <2> HIDE DEF new
    <2> QED BY <1>2, <1>4, <1>5, PartType, DialogAssumption DEF D!Ids
  <1>8. /\ dCall' \in [Requests -> CallRecords]
        /\ GoesOn(c, "done") /\ dCall'[c].session = dMade + 1
        /\ dCall'[c].data = D!Part(dCall[c].kind, dRow'[dMade + 1])
    <2> DEFINE s == dMade + 1  data == D!Part(dCall[c].kind, dRow'[dMade + 1])
    <2>1. dCall' = [dCall EXCEPT ![c].at = "done", ![c].session = s, ![c].data = data]
      BY DEF D!Create
    <2>2. dCall[c] \in CallRecords /\ s \in 0 .. MaxSessions /\ data \in D!Rows
      BY <1>6 DEF DialogTypes
    <2> HIDE DEF s, data
    <2>3. dCall' = [dCall EXCEPT ![c] = [@ EXCEPT !.at = "done", !.session = s, !.data = data]]
      BY <2>1, <2>2 DEF DialogTypes, CallRecords
    <2>4. /\ dCall' \in [Requests -> CallRecords]
          /\ GoesOn(c, "done") /\ dCall'[c].session = s /\ dCall'[c].data = data
      BY <2>2, <2>3, GoingOn
    <2> QED BY <2>4 DEF s, data
  <1>9. dCall'[c].data.status = IF dCall[c].kind = "create" THEN "CAPTURING" ELSE "none"
    <2> HIDE DEF new
    <2> QED BY <1>1, <1>4, <1>5, <1>8 DEF D!Part, Creating, D!Leaving
  <1>10. DialogTypes'
    BY <1>1, <1>5, <1>8 DEF DialogTypes
  <1> QED BY <1>1, <1>3, <1>8, <1>9, <1>10 DEF CreateStep

LEMMA ReadIs ==
    ASSUME DialogTypes, SlotInv, NEW c \in Requests, D!Read(c)
    PROVE  DialogTypes' /\ (ReadStep(c) \/ RefuseStep(c))
  <1> DEFINE k == dCall[c].kind  s == dCall[c].session
  <1>1. /\ dCall[c].at = "sent" /\ k \notin {"create", "orphan"} /\ ~Creating(c) /\ Under(c)
        /\ UNCHANGED <<dRow, dMade, dMishaps, dStamp>>
    BY DEF D!Read, Creating, Under
  <1>2. /\ dCall[c] \in CallRecords /\ s \in 0 .. MaxSessions /\ dRow[s] \in D!Rows
        /\ D!Part(k, dRow[s]) \in D!Rows /\ "none" \in D!Statuses
    BY <1>1, HasSession, PartType DEF CallRecords, D!Statuses
  <1>3. CASE D!Accepts(k, s)
    <2> DEFINE data == [D!Part(k, dRow[s]) EXCEPT !.status = "none"]
    <2>1. /\ dCall' = [dCall EXCEPT ![c].at = "read", ![c].data = data]
          /\ UNCHANGED <<dUi, dAstray>>
      BY <1>3 DEF D!Read
    <2>2. /\ data \in D!Rows /\ data.plan = D!Part(k, dRow[s]).plan
          /\ data.drafts = D!Part(k, dRow[s]).drafts
      BY <1>2 DEF D!Rows
    <2> HIDE DEF data
    <2>3. dCall' = [dCall EXCEPT ![c] = [@ EXCEPT !.at = "read", !.session = s, !.data = data]]
      BY <1>2, <2>1 DEF DialogTypes, CallRecords
    <2>4. /\ dCall' \in [Requests -> CallRecords]
          /\ GoesOn(c, "read") /\ dCall'[c].session = s /\ dCall'[c].data = data
      BY <1>2, <2>2, <2>3, GoingOn
    <2> QED BY <1>1, <1>3, <2>1, <2>2, <2>4 DEF DialogTypes, ReadStep
  <1>4. CASE ~D!Accepts(k, s) /\ k = "commit" /\ dRow[s].status = "COMMITTED"
    <2> DEFINE data == D!Part("commit", dRow[s])
    <2>1. /\ dCall' = [dCall EXCEPT ![c].at = "done", ![c].data = data]
          /\ UNCHANGED <<dUi, dAstray>>
      BY <1>4 DEF D!Read
    <2>2. data \in D!Rows /\ data.status = "COMMITTED"
      BY <1>2, <1>4 DEF D!Part, D!Leaving
    <2> HIDE DEF data
    <2>3. dCall' = [dCall EXCEPT ![c] = [@ EXCEPT !.at = "done", !.session = s, !.data = data]]
      BY <1>2, <2>1 DEF DialogTypes, CallRecords
    <2>4. /\ dCall' \in [Requests -> CallRecords]
          /\ GoesOn(c, "done") /\ dCall'[c].session = s /\ dCall'[c].data = data
      BY <1>2, <2>2, <2>3, GoingOn
    <2> QED BY <1>1, <1>4, <2>1, <2>2, <2>4 DEF DialogTypes, ReadStep
  <1>5. CASE ~D!Accepts(k, s) /\ ~(k = "commit" /\ dRow[s].status = "COMMITTED")
    <2>1. D!Fail({c}) /\ dAstray' = dAstray \cup (D!Lost(c) \ D!Over(s))
      BY <1>5 DEF D!Read
    <2>2. DialogTypes' /\ FailStep({c})
      BY <1>1, <2>1, FailIs DEF DialogTypes
    <2> QED BY <1>1, <1>5, <2>1, <2>2 DEF RefuseStep
  <1> QED BY <1>3, <1>4, <1>5

LEMMA MarkIs ==
    ASSUME DialogTypes, SlotInv, NEW c \in Requests, D!Mark(c) \/ D!CommitTransaction(c)
    PROVE  DialogTypes' /\ MarkStep(c)
  <1> DEFINE k == dCall[c].kind  s == dCall[c].session  data == dCall[c].data
  <1>1. Under(c) /\ ~Creating(c) /\ UNCHANGED <<dUi, dMade, dMishaps, dStamp, dAstray>>
    BY DEF D!Mark, D!CommitTransaction, Creating, Under
  <1>2. /\ dCall[c] \in CallRecords /\ s \in 0 .. MaxSessions /\ data \in D!Rows
        /\ \A status \in D!Statuses :
              [dRow EXCEPT ![s].status = status] \in [D!Ids -> D!Rows]
    BY <1>1, HasSession DEF CallRecords
  <1>3. ASSUME NEW at \in {"marked", "made"}, dCall' = [dCall EXCEPT ![c].at = at]
        PROVE  /\ dCall' \in [Requests -> CallRecords]
               /\ GoesOn(c, at) /\ dCall'[c].session = s /\ dCall'[c].data = data
    <2>1. /\ [dCall[c] EXCEPT !.at = at, !.session = s, !.data = data] \in CallRecords
          /\ [dCall[c] EXCEPT !.at = at, !.session = s, !.data = data] = [dCall[c] EXCEPT !.at = at]
      BY <1>2 DEF CallRecords
    <2>2. dCall' = [dCall EXCEPT ![c] = [@ EXCEPT !.at = at, !.session = s, !.data = data]]
      BY <1>2, <1>3, <2>1 DEF DialogTypes
    <2>3. at \in {"read", "marked", "made", "done"}
      OBVIOUS
    <2> HIDE DEF s, data
    <2> QED BY <1>2, <2>2, <2>3, GoingOn
  <1>4. CASE D!Mark(c)
    <2>1. /\ k \in {"analyze", "drafts", "commit"} /\ dCall[c].at = "read"
          /\ D!Marks[k] \in {"ANALYZING", "DRAFTING", "COMMITTING"}
      BY <1>4 DEF D!Mark, D!Marks
    <2>2. dRow' = [dRow EXCEPT ![s].status = D!Marks[k]] /\ dCall' = [dCall EXCEPT ![c].at = "marked"]
      BY <1>4 DEF D!Mark
    <2>3. dRow' \in [D!Ids -> D!Rows]
      BY <1>2, <2>1, <2>2 DEF D!Statuses
    <2>4. dRow' = [dRow EXCEPT ![s] = [@ EXCEPT !.status = D!Marks[k]]]
      BY <2>2
    <2>5. /\ dCall' \in [Requests -> CallRecords]
          /\ GoesOn(c, "marked") /\ dCall'[c].session = s /\ dCall'[c].data = data
      BY <1>3, <2>2
    <2>6. StatusOf(s, D!Marks[k])
      BY <2>4 DEF StatusOf
    <2>7. DialogTypes'
      BY <1>1, <2>3, <2>5 DEF DialogTypes
    <2> QED BY <1>1, <2>1, <2>5, <2>6, <2>7 DEF MarkStep
  <1>5. CASE D!CommitTransaction(c)
    <2>1. /\ k = "commit" /\ dCall[c].at = "marked" /\ dRow' = dRow
          /\ dCall' = [dCall EXCEPT ![c].at = "made"]
      BY <1>5 DEF D!CommitTransaction
    <2> QED BY <1>1, <1>3, <2>1 DEF DialogTypes, MarkStep
  <1> QED BY <1>4, <1>5

LEMMA AnswerIs ==
    ASSUME DialogTypes, SlotInv, NEW c \in Requests,
           \/ D!Abandon(c) \/ D!StorePlan(c) \/ D!StoreEdit(c) \/ D!StoreDrafts(c)
           \/ D!CommitRecord(c)
    PROVE  DialogTypes' /\ AnswerStep(c)
  <1> DEFINE k == dCall[c].kind  s == dCall[c].session  e == dCall[c].edit  old == dRow[s]
  <1>1. Under(c) /\ ~Creating(c) /\ UNCHANGED <<dMishaps, dStamp>>
    BY DEF D!Abandon, D!StorePlan, D!StoreEdit, D!StoreDrafts, D!CommitRecord, D!Answer,
           Creating, Under
  <1>2. /\ dCall[c] \in CallRecords /\ s \in D!Ids /\ old \in D!Rows
        /\ dCall[c].data.plan \in D!Plans /\ dCall[c].data.drafts \in D!Drafts
        /\ e \in Edits /\ e.text \in D!Stamps
    BY <1>1, HasSession DEF CallRecords, D!Rows, Edits
  <1>3. ASSUME NEW new \in D!Rows, D!Answer(c, new)
        PROVE  /\ DialogTypes' /\ GoesOn(c, "done") /\ dCall'[c].session = s
               /\ dCall'[c].data = D!Part(k, dRow'[s])
               /\ UNCHANGED <<dUi, dMade, dMishaps, dAstray>>
               /\ dRow' = [dRow EXCEPT ![s] = new] /\ dRow'[s] = new
               /\ \A q \in D!Ids \ {s} : dRow'[q] = dRow[q]
    <2>1. /\ dCall' \in [Requests -> CallRecords]
          /\ dRow' \in [D!Ids -> D!Rows]
          /\ dRow' = [dRow EXCEPT ![s] = new]
          /\ GoesOn(c, "done") /\ dCall'[c].session = s
          /\ dCall'[c].data = D!Part(k, new)
          /\ UNCHANGED <<dUi, dMade, dMishaps, dAstray>>
      BY <1>3, AnswerEffect
    <2>2. dRow'[s] = new /\ \A q \in D!Ids \ {s} : dRow'[q] = dRow[q]
      BY <1>2, <2>1 DEF DialogTypes
    <2> QED BY <1>1, <2>1, <2>2 DEF DialogTypes
  <1>4. ASSUME NEW status \in {"ABANDONED", "COMMITTED"},
               D!Answer(c, [old EXCEPT !.status = status])
        PROVE  /\ DialogTypes' /\ GoesOn(c, "done") /\ dCall'[c].session = s
               /\ dCall'[c].data = D!Part(k, dRow'[s])
               /\ UNCHANGED <<dUi, dMade, dMishaps, dAstray>>
               /\ StatusOf(s, status)
               /\ \A q \in D!Ids \ {s} : dRow'[q] = dRow[q]
    <2> DEFINE new == [old EXCEPT !.status = status]
    <2>1. new \in D!Rows
      BY <1>2 DEF D!Rows, D!Statuses
    <2>2. D!Answer(c, new)
      BY <1>4
    <2>3. dRow' = [dRow EXCEPT ![s] = new] => StatusOf(s, status)
      BY DEF StatusOf
    <2> HIDE DEF new
    <2> QED BY <1>3, <2>1, <2>2, <2>3
  <1>5. CASE D!Abandon(c)
    BY <1>4, <1>5 DEF D!Abandon, AnswerStep
  <1>6. CASE D!CommitRecord(c)
    BY <1>4, <1>6 DEF D!CommitRecord, AnswerStep
  <1>7. ASSUME NEW status \in {"CLARIFYING", "PLAN_READY"}, NEW unclear \in BOOLEAN,
               k \in {"analyze", "clarify", "plan"}, dCall[c].at \in {"read", "marked"},
               D!Answer(c, [old EXCEPT !.status = status,
                                       !.plan = [text |-> e.text, unclear |-> unclear]])
        PROVE  DialogTypes' /\ AnswerStep(c)
    <2> DEFINE new == [old EXCEPT !.status = status,
                                  !.plan = [text |-> e.text, unclear |-> unclear]]
    <2>1. /\ new \in D!Rows /\ new.drafts = old.drafts /\ new.status = status
      BY <1>2 DEF D!Rows, D!Plans, D!Statuses
    <2>2. D!Answer(c, new)
      BY <1>7
    <2> HIDE DEF new
    <2> QED BY <1>3, <1>7, <2>1, <2>2 DEF AnswerStep
  <1>8. CASE D!StorePlan(c)
    <2>1. PICK unclear \in BOOLEAN :
            D!Answer(c, [old EXCEPT !.status = IF unclear THEN "CLARIFYING" ELSE "PLAN_READY",
                                    !.plan = [text |-> e.text, unclear |-> unclear]])
      BY <1>8 DEF D!StorePlan
    <2>2. PICK status \in {"CLARIFYING", "PLAN_READY"} :
            status = IF unclear THEN "CLARIFYING" ELSE "PLAN_READY"
      OBVIOUS
    <2>3. k \in {"analyze", "clarify", "plan"} /\ dCall[c].at \in {"read", "marked"}
      BY <1>8 DEF D!StorePlan
    <2> QED BY <1>7, <2>1, <2>2, <2>3
  <1>9. CASE D!StoreEdit(c) /\ k = "plan"
    <2>1. /\ D!Answer(c, [old EXCEPT !.status = "PLAN_READY",
                                     !.plan = [text |-> e.text, unclear |-> FALSE]])
          /\ dCall[c].at = "read"
      BY <1>9 DEF D!StoreEdit
    <2> QED BY <1>7, <1>9, <2>1
  <1>10. CASE D!StoreEdit(c) /\ k = "draft"
    <2> DEFINE had == dCall[c].data.drafts
               items == D!Merged(had.items, e)
               drafts == [had EXCEPT !.items = items]
               new == [old EXCEPT !.status = "REVIEWING", !.drafts = drafts]
    <2>1. /\ D!Answer(c, [old EXCEPT !.status = "REVIEWING",
                                     !.drafts = [had EXCEPT !.items = D!Merged(@, e)]])
          /\ dCall[c].at = "read"
      BY <1>10 DEF D!StoreEdit
    <2>2. had.items \in [Keys -> [text : D!Stamps, approval : D!Approvals]]
          /\ e.approval \in D!Approvals
      BY <1>2 DEF D!Drafts, Edits
    <2>3. items \in [Keys -> [text : D!Stamps, approval : D!Approvals]]
      <3> HIDE DEF had
      <3> QED BY <1>2, <2>2 DEF D!Merged
    <2>4. drafts \in D!Drafts /\ drafts.of = had.of
      <3> HIDE DEF items
      <3> QED BY <1>2, <2>3 DEF D!Drafts
    <2>5. D!Answer(c, new)
      BY <2>1
    <2> HIDE DEF drafts
    <2>6. new \in D!Rows /\ new.plan = old.plan /\ new.status = "REVIEWING" /\ new.drafts = drafts
      BY <1>2, <2>4 DEF D!Rows, D!Statuses
    <2> HIDE DEF new
    <2> QED BY <1>3, <1>10, <2>1, <2>4, <2>5, <2>6 DEF AnswerStep
  <1>11. CASE D!StoreDrafts(c)
    <2> DEFINE plan == dCall[c].data.plan.text
               drafts == [of |-> plan, items |-> [q \in Keys |-> [text |-> plan,
                                                                  approval |-> "pending"]]]
               new == [old EXCEPT !.status = "REVIEWING", !.drafts = drafts]
    <2>1. D!Answer(c, new) /\ k = "drafts" /\ dCall[c].at = "marked"
      BY <1>11 DEF D!StoreDrafts
    <2>2. drafts \in D!Drafts /\ drafts.of = plan
      BY <1>2 DEF D!Plans, D!Drafts, D!Approvals
    <2> HIDE DEF drafts
    <2>3. new \in D!Rows /\ new.plan = old.plan /\ new.status = "REVIEWING" /\ new.drafts = drafts
      BY <1>2, <2>2 DEF D!Rows, D!Statuses
    <2> HIDE DEF new
    <2> QED BY <1>3, <2>1, <2>2, <2>3 DEF AnswerStep
  <1>12. D!StoreEdit(c) => k \in {"plan", "draft"}
    BY DEF D!StoreEdit
  <1> QED BY <1>5, <1>6, <1>8, <1>9, <1>10, <1>11, <1>12

LEMMA EndIs ==
    ASSUME DialogTypes, SlotInv, NEW c \in Requests
    PROVE  /\ D!GiveUp(c) => DialogTypes' /\ GiveUpStep(c)
           /\ D!CommitReopen(c) => DialogTypes' /\ ReopenStep(c)
           /\ D!Lose(c) => DialogTypes' /\ LoseStep({c})
           /\ D!Land(c) => DialogTypes' /\ LandStep(c)
  <1> DEFINE k == dCall[c].kind  s == dCall[c].session
  <1>1. ASSUME NEW status \in D!Statuses, Under(c), ~Creating(c),
               dRow' = [dRow EXCEPT ![s].status = status]
        PROVE  dRow' \in [D!Ids -> D!Rows] /\ StatusOf(s, status)
    BY <1>1, HasSession DEF StatusOf
  <1>2. ASSUME D!GiveUp(c) PROVE DialogTypes' /\ GiveUpStep(c)
    <2>1. /\ k \in {"analyze", "drafts"} /\ dCall[c].at \in {"read", "marked"}
          /\ Under(c) /\ ~Creating(c) /\ "FAILED" \in D!Statuses
          /\ dRow' = [dRow EXCEPT ![s].status = "FAILED"] /\ D!Fail({c})
          /\ UNCHANGED <<dMade, dStamp, dAstray>>
      BY <1>2 DEF D!GiveUp, Under, Creating, D!Statuses
    <2>2. dRow' \in [D!Ids -> D!Rows] /\ StatusOf(s, "FAILED")
      BY <1>1, <2>1
    <2>3. DialogTypes' /\ FailStep({c})
      BY <2>1, <2>2, FailIs
    <2> QED BY <2>1, <2>2, <2>3 DEF GiveUpStep
  <1>3. ASSUME D!CommitReopen(c) PROVE DialogTypes' /\ ReopenStep(c)
    <2>1. /\ k = "commit" /\ dCall[c].at \in {"marked", "made"}
          /\ Under(c) /\ ~Creating(c) /\ "REVIEWING" \in D!Statuses
          /\ dRow' = [dRow EXCEPT ![s].status = "REVIEWING"] /\ D!Fail({c})
          /\ UNCHANGED <<dMade, dStamp>> /\ dAstray' = dAstray \cup {"end"}
      BY <1>3 DEF D!CommitReopen, Under, Creating, D!Statuses, D!Lost
    <2>2. dRow' \in [D!Ids -> D!Rows] /\ StatusOf(s, "REVIEWING")
      BY <1>1, <2>1
    <2>3. DialogTypes' /\ FailStep({c})
      BY <2>1, <2>2, FailIs
    <2> QED BY <2>1, <2>2, <2>3 DEF ReopenStep
  <1>4. ASSUME D!Lose(c) PROVE DialogTypes' /\ LoseStep({c})
    <2>1. /\ Under(c) /\ D!Fail({c}) /\ UNCHANGED <<dRow, dMade, dStamp>>
          /\ dAstray' = dAstray \cup D!Lost(c)
      BY <1>4 DEF D!Lose, Under
    <2>2. DialogTypes' /\ FailStep({c})
      BY <2>1, FailIs DEF DialogTypes
    <2>3. dAstray' = dAstray \cup UNION {D!Lost(d) : d \in {c}}
      BY <2>1
    <2> QED BY <2>1, <2>2, <2>3 DEF LoseStep
  <1>5. ASSUME D!Land(c) PROVE DialogTypes' /\ LandStep(c)
    <2>1. /\ dCall[c].at = "done" /\ Under(c) /\ UNCHANGED <<dRow, dMade, dMishaps, dStamp>>
          /\ dAstray' = (IF dCall[c].alone THEN dAstray \ D!Mends(c) ELSE dAstray) \cup D!Mixes(c)
      BY <1>5 DEF D!Land, Under
    <2>2. CASE k = "abandon"
      <3>1. D!Fail({c})
        BY <1>5, <2>2 DEF D!Land
      <3>2. DialogTypes' /\ FailStep({c})
        BY <2>1, <3>1, FailIs DEF DialogTypes
      <3> QED BY <2>1, <2>2, <3>2 DEF LandStep
    <2>3. CASE k # "abandon"
      <3>1. /\ dUi' = IF k \in {"orphan", "escape"} THEN dUi ELSE D!Shows(c)
            /\ dCall' = [dCall EXCEPT ![c] = D!NoCall]
        BY <1>5, <2>3 DEF D!Land
      <3>2. /\ dCall'[c] = D!NoCall /\ dCall' \in [Requests -> CallRecords]
            /\ \A d \in Requests \ {c} : dCall'[d] = dCall[d]
        BY <3>1, Nothing DEF DialogTypes
      <3>3. dUi' \in Dialogs
        <4>1. CASE k \in {"orphan", "escape"}
          BY <3>1, <4>1 DEF DialogTypes
        <4>2. CASE k \notin {"orphan", "escape"}
          BY <2>3, <3>1, <4>2, ShowsEffect
        <4> QED BY <4>1, <4>2
      <3>4. LandStep(c)
        BY <2>1, <2>3, <3>1, <3>2 DEF LandStep
      <3> QED BY <2>1, <3>2, <3>3, <3>4 DEF DialogTypes
    <2> QED BY <2>2, <2>3
  <1> QED BY <1>2, <1>3, <1>4, <1>5

LEMMA Steps ==
    ASSUME DialogTypes, SlotInv, D!Next
    PROVE  DialogTypes' /\ Step
  <1>1. CASE \/ D!Open \/ D!RunAnalyze \/ D!SubmitClarification \/ D!EditPlan \/ D!TypeTitle
             \/ D!BlurTitle \/ D!BlurDraft \/ D!RunGenerateDrafts \/ D!RunCommit \/ D!Cancel
             \/ D!Escape
             \/ \E k \in Keys : D!TypeDraft(k) \/ D!Decide(k, "approved") \/ D!Decide(k, "skipped")
    BY <1>1, UserSteps
  <1>2. CASE D!Restart
    <2> DEFINE lost == {c \in Requests : dCall[c].at # "none"}
    <2>1. /\ D!Fail(lost) /\ UNCHANGED <<dRow, dMade, dStamp>>
          /\ dAstray' = dAstray \cup UNION {D!Lost(c) : c \in lost}
      BY <1>2 DEF D!Restart
    <2>2. lost \in SUBSET Requests /\ \A c \in lost : Under(c)
      BY DEF Under
    <2> HIDE DEF lost
    <2>3. DialogTypes' /\ FailStep(lost)
      BY <2>1, <2>2, FailIs DEF DialogTypes
    <2> QED BY <2>1, <2>2, <2>3 DEF LoseStep, Step
  <1>3. ASSUME NEW c \in Requests,
               \/ D!Create(c) \/ D!Read(c) \/ D!Mark(c) \/ D!Abandon(c) \/ D!StorePlan(c)
               \/ D!StoreEdit(c) \/ D!StoreDrafts(c) \/ D!GiveUp(c) \/ D!CommitTransaction(c)
               \/ D!CommitReopen(c) \/ D!CommitRecord(c) \/ D!Lose(c) \/ D!Land(c)
        PROVE  DialogTypes' /\ Step
    <2>1. CASE D!Create(c)
      BY <2>1, CreateIs DEF Step
    <2>2. CASE D!Read(c)
      BY <2>2, ReadIs DEF Step
    <2>3. CASE D!Mark(c) \/ D!CommitTransaction(c)
      BY <2>3, MarkIs DEF Step
    <2>4. CASE \/ D!Abandon(c) \/ D!StorePlan(c) \/ D!StoreEdit(c) \/ D!StoreDrafts(c)
               \/ D!CommitRecord(c)
      BY <2>4, AnswerIs DEF Step
    <2>5. CASE D!GiveUp(c) \/ D!CommitReopen(c) \/ D!Lose(c) \/ D!Land(c)
      <3>1. {c} \in SUBSET Requests
        OBVIOUS
      <3> QED BY <2>5, <3>1, EndIs DEF Step
    <2> QED BY <1>3, <2>1, <2>2, <2>3, <2>4, <2>5
  <1> QED BY <1>1, <1>2, <1>3 DEF D!Next

-----------------------------------------------------------------------------
(* What the steps leave of the other requests and of the rows *)

Kept(d) ==
    /\ dCall'[d].at = dCall[d].at
    /\ Under(d) =>
          /\ \/ dCall'[d].kind = dCall[d].kind
             \/ dCall[d].kind = "create" /\ dCall'[d].kind = "orphan"
          /\ dCall'[d].session = dCall[d].session /\ dCall'[d].shown = dCall[d].shown
          /\ dCall'[d].data = dCall[d].data /\ (dCall'[d].alone => dCall[d].alone)

LEMMA CallKeptKeeps ==
    ASSUME DialogTypes, NEW d \in Requests, CallKept(d)
    PROVE  Kept(d)
  <1>1. dCall[d] \in CallRecords
    BY DEF DialogTypes
  <1>2. CASE dCall'[d] = dCall[d]
    BY <1>2 DEF Kept
  <1>3. CASE dCall[d].kind = "create" /\ dCall'[d] = [dCall[d] EXCEPT !.kind = "orphan"]
    BY <1>1, <1>3 DEF Kept, CallRecords
  <1> QED BY <1>2, <1>3 DEF CallKept

LEMMA SentKeeps ==
    ASSUME DialogTypes, NEW c \in Requests, NEW kind, NEW s, NEW shown, SentAs(c, kind, s, shown)
    PROVE  /\ \A d \in Requests \ {c} : Kept(d)
           /\ \A d \in Requests \ {c} :
                 /\ ~Under(d) => dCall'[d] = D!NoCall
                 /\ Under(d) => dCall'[d].kind = dCall[d].kind /\ ~dCall'[d].alone
           /\ dCall'[c].alone => \A d \in Requests : ~Under(d)
  <1>1. ASSUME NEW d \in Requests \ {c}
        PROVE  /\ Kept(d)
               /\ ~Under(d) => dCall'[d] = D!NoCall
               /\ Under(d) => dCall'[d].kind = dCall[d].kind /\ ~dCall'[d].alone
    <2>1. dCall[d] \in CallRecords
      BY DEF DialogTypes
    <2>2. CASE Under(d)
      <3>1. dCall'[d] = [dCall[d] EXCEPT !.alone = FALSE]
        BY <2>2 DEF SentAs
      <3> QED BY <2>1, <2>2, <3>1 DEF Kept, CallRecords
    <2>3. CASE ~Under(d)
      <3>1. dCall'[d] = D!NoCall
        BY <2>3 DEF SentAs
      <3> QED BY <2>3, <3>1 DEF Kept, Under, D!NoCall
    <2> QED BY <2>2, <2>3
  <1>2. dCall'[c].alone => \A d \in Requests : ~Under(d)
    BY DEF SentAs, D!Quiet, Under
  <1> QED BY <1>1, <1>2

LEMMA FailKeeps ==
    ASSUME DialogTypes, NEW cs \in SUBSET Requests, FailStep(cs)
    PROVE  \A d \in Requests \ cs : Kept(d)
  BY CallKeptKeeps DEF FailStep

LEMMA StatusKeeps ==
    ASSUME DialogTypes, NEW s \in D!Ids, NEW status \in D!Statuses, StatusOf(s, status)
    PROVE  /\ \A q \in D!Ids : dRow'[q].plan = dRow[q].plan /\ dRow'[q].drafts = dRow[q].drafts
           /\ dRow'[s].status = status
           /\ \A q \in D!Ids \ {s} : dRow'[q] = dRow[q]
  <1>1. \A q \in D!Ids : dRow[q] \in D!Rows
    BY DEF DialogTypes
  <1>2. /\ [dRow[s] EXCEPT !.status = status].plan = dRow[s].plan
        /\ [dRow[s] EXCEPT !.status = status].drafts = dRow[s].drafts
        /\ [dRow[s] EXCEPT !.status = status].status = status
    BY <1>1 DEF D!Rows
  <1> DEFINE new == [dRow[s] EXCEPT !.status = status]
  <1>3. dRow' = [dRow EXCEPT ![s] = new]
    BY DEF StatusOf
  <1> HIDE DEF new
  <1>4. dRow'[s] = new /\ \A q \in D!Ids \ {s} : dRow'[q] = dRow[q]
    BY <1>3 DEF DialogTypes
  <1> QED BY <1>2, <1>4 DEF new

-----------------------------------------------------------------------------
(* The invariant of the slots *)

LEMMA SlotStep ==
    ASSUME DialogTypes, SlotInv, DialogTypes', Step
    PROVE  SlotInv'
  <1>0. /\ D!NoCall.at = "none" /\ D!NoCall.session = 0 /\ dMade \in Nat /\ dMade' \in Nat
        /\ \A c \in Requests : dCall[c].session \in Nat /\ dCall'[c].session \in Nat
        /\ dUi.session \in Nat /\ dUi.ref \in Nat
        /\ dCall \in [Requests -> CallRecords] /\ dCall' \in [Requests -> CallRecords]
        /\ MaxSessions \in Nat /\ IsFiniteSet(D!Creates) /\ Cardinality(D!Creates) \in Nat
        /\ D!Creates = {c \in Requests : Creating(c)}
        /\ D!Creates' = {c \in Requests : Creating(c)'}
    BY DialogAssumption, FS_CardinalityType
       DEF D!NoCall, DialogTypes, CallRecords, Dialogs, SlotInv, D!Creates, Creating
  (* Most steps make no session and ask for none. *)
  <1>1. ASSUME dMade' = dMade, \A c \in Requests : Creating(c)' => Creating(c),
               dUi'.session \in {0, dUi.session} \cup {dCall[c].session : c \in Requests},
               dUi'.ref \in {0, dUi.ref} \cup {dCall[c].session : c \in Requests},
               dUi'.typing # NoKey => dUi'.open,
               \A c \in Requests :
                  /\ dCall'[c].session \in {0, dUi.session, dUi.ref, dCall[c].session}
                  /\ Under(c)' /\ ~Creating(c)' => dCall'[c].session \in D!Ids
        PROVE  SlotInv'
    <2>1. D!Creates' \subseteq D!Creates
      BY <1>0, <1>1
    <2>2. IsFiniteSet(D!Creates') /\ Cardinality(D!Creates') <= Cardinality(D!Creates)
          /\ Cardinality(D!Creates') \in Nat
      BY <1>0, <2>1, FS_Subset, FS_CardinalityType
    <2>3. dMade' + Cardinality(D!Creates') <= MaxSessions
      BY <1>0, <1>1, <2>2 DEF SlotInv
    <2>4. dUi'.session <= dMade' /\ dUi'.ref <= dMade' /\ \A c \in Requests : dCall'[c].session <= dMade'
      BY <1>0, <1>1 DEF SlotInv
    <2> QED BY <1>1, <2>2, <2>3, <2>4 DEF SlotInv
  <1>2. ASSUME NEW c \in Requests, NEW kind \in Asked, NEW shown, AskStep(c, kind, shown)
        PROVE  SlotInv'
    <2>1. SentAs(c, kind, dUi.session, shown) /\ dUi.session > 0 /\ dMade' = dMade
          /\ dUi'.open /\ dUi'.session = dUi.session /\ dUi'.ref = dUi.ref
      BY <1>2 DEF AskStep
    <2>2. \A d \in Requests \ {c} : Kept(d) /\ (~Under(d) => dCall'[d] = D!NoCall)
                                    /\ (Under(d) => dCall'[d].kind = dCall[d].kind)
      BY <2>1, SentKeeps
    <2>3. dCall'[c].kind = kind /\ dCall'[c].session = dUi.session
      BY <2>1 DEF SentAs
    <2>4. dUi.session \in D!Ids
      BY <1>0, <2>1 DEF SlotInv, D!Ids
    <2> QED BY <1>0, <1>1, <2>1, <2>2, <2>3, <2>4 DEF Kept, Under, Creating, Asked, SlotInv
  <1>3. ASSUME NEW c \in Requests, EscapeStep(c)
        PROVE  SlotInv'
    <2>1. SentAs(c, "escape", dUi.ref, {}) /\ dUi.ref > 0 /\ UiClosed /\ dMade' = dMade
      BY <1>3 DEF EscapeStep
    <2>2. \A d \in Requests \ {c} : Kept(d) /\ (~Under(d) => dCall'[d] = D!NoCall)
                                    /\ (Under(d) => dCall'[d].kind = dCall[d].kind)
      BY <2>1, SentKeeps
    <2>3. dCall'[c].kind = "escape" /\ dCall'[c].session = dUi.ref
      BY <2>1 DEF SentAs
    <2>4. dUi.ref \in D!Ids
      BY <1>0, <2>1 DEF SlotInv, D!Ids
    <2> QED BY <1>0, <1>1, <2>1, <2>2, <2>3, <2>4 DEF Kept, Under, Creating, SlotInv, UiClosed
  <1>4. ASSUME NEW c \in Requests, OpenStep(c)
        PROVE  SlotInv'
    <2>1. SentAs(c, "create", 0, {}) /\ dMade' = dMade
          /\ dMade + Cardinality(D!Creates) < MaxSessions
          /\ dUi'.open /\ dUi'.session = dUi.session /\ dUi'.ref = dUi.ref
      BY <1>4 DEF OpenStep
    <2>2. \A d \in Requests \ {c} : Kept(d) /\ (~Under(d) => dCall'[d] = D!NoCall)
                                    /\ (Under(d) => dCall'[d].kind = dCall[d].kind)
      BY <2>1, SentKeeps
    <2>3. /\ dCall'[c].kind = "create" /\ dCall'[c].session = 0 /\ dCall'[c].at = "sent"
          /\ dCall[c].at = "none"
      BY <2>1 DEF SentAs
    <2>4. D!Creates' = D!Creates \cup {c} /\ c \notin D!Creates
      BY <1>0, <2>2, <2>3 DEF Creating, Kept, Under
    <2>5. IsFiniteSet(D!Creates') /\ Cardinality(D!Creates') = Cardinality(D!Creates) + 1
      <3>1. IsFiniteSet(D!Creates)
        BY <1>0
      <3>2. IsFiniteSet(D!Creates \cup {c})
            /\ Cardinality(D!Creates \cup {c}) = Cardinality(D!Creates) + 1
        BY <2>4, <3>1, FS_AddElement
      <3> QED BY <2>4, <3>2
    <2>6. \A d \in Requests :
            /\ dCall'[d].session <= dMade'
            /\ Under(d)' /\ ~Creating(d)' => dCall'[d].session \in D!Ids
      BY <1>0, <2>1, <2>2, <2>3 DEF Kept, Under, Creating, SlotInv
    <2> QED BY <1>0, <2>1, <2>5, <2>6 DEF SlotInv
  <1>5. ASSUME NEW c \in Requests, CreateStep(c)
        PROVE  SlotInv'
    <2>1. /\ Creating(c) /\ GoesOn(c, "done") /\ dCall'[c].session = dMade + 1
          /\ dMade' = dMade + 1 /\ dUi' = dUi
      BY <1>5 DEF CreateStep
    <2>2. \A d \in Requests \ {c} : dCall'[d] = dCall[d]
      BY <2>1 DEF GoesOn
    <2>3. dCall'[c].at = "done"
      BY <2>1 DEF GoesOn
    <2>4. D!Creates' = D!Creates \ {c} /\ c \in D!Creates
      BY <1>0, <2>1, <2>2, <2>3 DEF Creating
    <2>5. /\ IsFiniteSet(D!Creates') /\ Cardinality(D!Creates') = Cardinality(D!Creates) - 1
          /\ Cardinality(D!Creates') \in Nat
      <3>1. IsFiniteSet(D!Creates)
        BY <1>0
      <3>2. IsFiniteSet(D!Creates \ {c})
            /\ Cardinality(D!Creates \ {c}) = Cardinality(D!Creates) - 1
        BY <2>4, <3>1, FS_RemoveElement
      <3> QED BY <2>4, <3>2, FS_CardinalityType
    <2>6. dMade + 1 \in D!Ids
      BY <1>0, <2>5 DEF SlotInv, D!Ids
    <2>7. \A d \in Requests :
            /\ dCall'[d].session <= dMade'
            /\ Under(d)' /\ ~Creating(d)' => dCall'[d].session \in D!Ids
      BY <1>0, <2>1, <2>2, <2>6 DEF Under, Creating, SlotInv
    <2> QED BY <1>0, <2>1, <2>5, <2>7 DEF SlotInv
  <1>6. ASSUME NEW c \in Requests, ReadStep(c) \/ MarkStep(c) \/ AnswerStep(c)
        PROVE  SlotInv'
    <2>1. /\ GoesOn(c, "read") \/ GoesOn(c, "marked") \/ GoesOn(c, "made") \/ GoesOn(c, "done")
          /\ dCall'[c].session = dCall[c].session /\ Under(c) /\ ~Creating(c)
          /\ UNCHANGED <<dUi, dMade>>
      BY <1>6 DEF ReadStep, MarkStep, AnswerStep, Under, Creating
    <2> QED BY <1>1, <2>1 DEF GoesOn, SlotInv, Creating, Under
  <1>7. ASSUME NEW cs \in SUBSET Requests, FailStep(cs)
        PROVE  SlotInv'
    <2>1. /\ \A d \in Requests \ cs : Kept(d) /\ CallKept(d)
          /\ \A d \in cs : dCall'[d] = D!NoCall
          /\ (UiKept \/ UiClosed) /\ dMade' = dMade
      BY <1>7, FailKeeps DEF FailStep
    <2>2. \A d \in Requests \ cs :
            /\ dCall'[d].session = dCall[d].session /\ dCall'[d].at = dCall[d].at
            /\ Creating(d)' <=> Creating(d)
      BY <2>1 DEF CallKept, Kept, Under, Creating
    <2> QED BY <1>0, <1>1, <1>7, <2>1, <2>2 DEF Under, Creating, SlotInv, UiKept, UiClosed, FailStep
  <1>8. ASSUME NEW c \in Requests, LandStep(c), dCall[c].kind # "abandon"
        PROVE  SlotInv'
    <2>1. /\ dCall[c].at = "done" /\ dMade' = dMade /\ dCall'[c] = D!NoCall
          /\ \A d \in Requests \ {c} : dCall'[d] = dCall[d]
          /\ IF dCall[c].kind \in {"orphan", "escape"} THEN dUi' = dUi ELSE dUi' = D!Shows(c)
      BY <1>8 DEF LandStep
    <2>2. CASE dCall[c].kind \in {"orphan", "escape"}
      BY <1>0, <1>1, <2>1, <2>2 DEF Under, Creating, SlotInv
    <2>3. CASE dCall[c].kind \notin {"orphan", "escape"}
      <3>1. /\ dUi'.open = dUi.open /\ dUi'.session = dCall[c].session
            /\ dUi'.ref \in {dCall[c].session, dUi.ref} /\ dUi'.typing \in {NoKey, dUi.typing}
        BY <1>8, <2>1, <2>3, ShowsEffect
      <3> QED BY <1>0, <1>1, <2>1, <3>1 DEF Under, Creating, SlotInv
    <2> QED BY <2>2, <2>3
  <1>9. ASSUME CloseStep
        PROVE  SlotInv'
    <2>1. /\ \A d \in Requests : CallKept(d) /\ Kept(d)
          /\ UiClosed /\ dMade' = dMade
      BY <1>9, CallKeptKeeps DEF CloseStep
    <2>2. \A d \in Requests :
            /\ dCall'[d].session = dCall[d].session /\ dCall'[d].at = dCall[d].at
            /\ Creating(d)' <=> Creating(d)
      BY <2>1 DEF CallKept, Kept, Under, Creating
    <2> QED BY <1>0, <1>1, <2>1, <2>2 DEF Under, SlotInv, UiClosed
  <1>10. ASSUME TypeStep
         PROVE  SlotInv'
    <2>1. /\ UNCHANGED <<dCall, dMade>> /\ dUi'.open
          /\ dUi'.session = dUi.session /\ dUi'.ref = dUi.ref
      BY <1>10 DEF TypeStep
    <2> QED BY <1>1, <2>1 DEF Under, Creating, SlotInv
  <1>11. ASSUME NEW c \in Requests, LandStep(c) PROVE SlotInv'
    BY <1>7, <1>8, <1>11 DEF LandStep
  <1>12. ASSUME NEW c \in Requests, RefuseStep(c) \/ GiveUpStep(c) \/ ReopenStep(c) PROVE SlotInv'
    BY <1>7, <1>12 DEF RefuseStep, GiveUpStep, ReopenStep
  <1>13. ASSUME NEW cs \in SUBSET Requests, LoseStep(cs) PROVE SlotInv'
    BY <1>7, <1>13 DEF LoseStep
  <1> QED BY <1>2, <1>3, <1>4, <1>5, <1>6, <1>9, <1>10, <1>11, <1>12, <1>13 DEF Step

-----------------------------------------------------------------------------
(* Requests that were alone *)

AloneInv ==
    \A c, d \in Requests : Under(c) /\ Under(d) /\ dCall[c].alone => c = d

LEMMA AloneStep ==
    ASSUME DialogTypes, AloneInv, Step
    PROVE  AloneInv'
  <1>0. D!NoCall.at = "none"
    BY DEF D!NoCall
  <1>1. ASSUME \A d \in Requests : Under(d)' => Under(d) /\ (dCall'[d].alone => dCall[d].alone)
        PROVE  AloneInv'
    BY <1>1 DEF AloneInv
  <1>2. ASSUME NEW c \in Requests, NEW kind, NEW s, NEW shown, SentAs(c, kind, s, shown)
        PROVE  AloneInv'
    <2>1. /\ \A d \in Requests \ {c} : Under(d)' => Under(d) /\ ~dCall'[d].alone
          /\ dCall'[c].alone => \A d \in Requests \ {c} : ~Under(d)'
      BY <1>0, <1>2, SentKeeps DEF Under
    <2> QED BY <2>1 DEF AloneInv
  <1>3. ASSUME NEW c \in Requests, NEW at, at # "none", GoesOn(c, at), Under(c)
        PROVE  AloneInv'
    BY <1>1, <1>3 DEF GoesOn, Under
  <1>4. ASSUME NEW cs \in SUBSET Requests, FailStep(cs)
        PROVE  AloneInv'
    <2>1. /\ \A d \in cs : dCall'[d] = D!NoCall
          /\ \A d \in Requests \ cs : Kept(d)
      BY <1>4, FailKeeps DEF FailStep
    <2> QED BY <1>0, <1>1, <2>1 DEF Kept, Under
  <1>5. ASSUME NEW c \in Requests, LandStep(c)
        PROVE  AloneInv'
    <2>1. CASE FailStep({c})
      BY <1>4, <2>1
    <2>2. CASE dCall'[c] = D!NoCall /\ \A d \in Requests \ {c} : dCall'[d] = dCall[d]
      BY <1>0, <1>1, <2>2 DEF Under
    <2> QED BY <1>5, <2>1, <2>2 DEF LandStep
  <1>6. ASSUME CloseStep \/ TypeStep
        PROVE  AloneInv'
    <2>1. \A d \in Requests : Kept(d)
      BY <1>6, CallKeptKeeps DEF CloseStep, TypeStep, Kept
    <2> QED BY <1>1, <2>1 DEF Kept, Under
  <1>7. ASSUME NEW c \in Requests, NEW kind \in Asked, NEW shown, AskStep(c, kind, shown)
        PROVE  AloneInv'
    BY <1>2, <1>7 DEF AskStep
  <1>8. ASSUME NEW c \in Requests,
               \/ OpenStep(c) \/ EscapeStep(c) \/ CreateStep(c) \/ ReadStep(c) \/ MarkStep(c)
               \/ AnswerStep(c) \/ RefuseStep(c) \/ GiveUpStep(c) \/ ReopenStep(c)
        PROVE  AloneInv'
    <2>1. CASE OpenStep(c) \/ EscapeStep(c)
      BY <1>2, <2>1 DEF OpenStep, EscapeStep
    <2>2. CASE CreateStep(c) \/ ReadStep(c) \/ MarkStep(c) \/ AnswerStep(c)
      <3>1. Under(c) /\ \E at \in {"read", "marked", "made", "done"} : GoesOn(c, at)
        BY <2>2 DEF CreateStep, ReadStep, MarkStep, AnswerStep, Under, Creating
      <3> QED BY <1>3, <3>1
    <2>3. CASE RefuseStep(c) \/ GiveUpStep(c) \/ ReopenStep(c)
      BY <1>4, <2>3 DEF RefuseStep, GiveUpStep, ReopenStep
    <2> QED BY <1>8, <2>1, <2>2, <2>3
  <1>9. ASSUME NEW cs \in SUBSET Requests, LoseStep(cs) PROVE AloneInv'
    BY <1>4, <1>9 DEF LoseStep
  <1> QED BY <1>5, <1>6, <1>7, <1>8, <1>9 DEF Step

-----------------------------------------------------------------------------
(* What answers bring *)

AnswerOf(c) ==
    LET k == dCall[c].kind  at == dCall[c].at  data == dCall[c].data IN
    /\ k = "commit" /\ at = "done" => data.status = "COMMITTED"
    /\ k = "create" /\ at = "done" => data.status = "CAPTURING"
    /\ k \in {"analyze", "clarify", "plan", "drafts", "draft"} /\ at = "done" =>
          data.status # "COMMITTED"
    /\ k = "draft" /\ at \in {"read", "done"} => data.drafts.of > 0
    /\ k = "drafts" /\ at \in {"read", "marked"} => data.plan.text > 0
    /\ k = "drafts" /\ at = "done" => data.drafts.of > 0

AnswerInv == \A c \in Requests : AnswerOf(c)

LEMMA AnswerInvStep ==
    ASSUME DialogTypes, SlotInv, AnswerInv, DialogTypes', Step
    PROVE  AnswerInv'
  <1>0. D!NoCall.at = "none"
    BY DEF D!NoCall
  <1>1. ASSUME NEW d \in Requests, Kept(d) \/ dCall'[d] = D!NoCall \/ dCall'[d].at = "sent"
        PROVE  AnswerOf(d)'
    BY <1>0, <1>1 DEF AnswerInv, AnswerOf, Kept, Under
  <1>2. ASSUME NEW c \in Requests, AnswerOf(c)', \A d \in Requests \ {c} : dCall'[d] = dCall[d]
        PROVE  AnswerInv'
    BY <1>2 DEF AnswerInv, AnswerOf
  <1>3. ASSUME NEW c \in Requests, NEW kind, NEW s, NEW shown, SentAs(c, kind, s, shown)
        PROVE  AnswerInv'
    BY <1>1, <1>3, SentKeeps DEF AnswerInv, SentAs
  <1>4. ASSUME NEW cs \in SUBSET Requests, FailStep(cs)
        PROVE  AnswerInv'
    BY <1>1, <1>4, FailKeeps DEF AnswerInv, FailStep
  <1>5. ASSUME NEW c \in Requests, CreateStep(c)
        PROVE  AnswerInv'
    BY <1>2, <1>5 DEF CreateStep, GoesOn, Creating, AnswerOf
  <1>6. ASSUME NEW c \in Requests, ReadStep(c)
        PROVE  AnswerInv'
    <2> DEFINE k == dCall[c].kind  r == dRow[dCall[c].session]
    <2>1. /\ dCall'[c].kind = k /\ dCall[c].at = "sent"
          /\ \A d \in Requests \ {c} : dCall'[d] = dCall[d]
      BY <1>6 DEF ReadStep, GoesOn
    <2>2. CASE /\ D!Accepts(k, dCall[c].session) /\ GoesOn(c, "read")
               /\ dCall'[c].data.plan = D!Part(k, r).plan
               /\ dCall'[c].data.drafts = D!Part(k, r).drafts
      <3>1. dCall'[c].at = "read"
        BY <2>2 DEF GoesOn
      <3>2. k = "draft" => dCall'[c].data.drafts.of > 0
        BY <2>2 DEF D!Accepts, D!Part, D!OnDrafts
      <3>3. k = "drafts" => dCall'[c].data.plan.text > 0
        BY <2>2 DEF D!Accepts, D!Part, D!OnPlan
      <3> QED BY <1>2, <2>1, <3>1, <3>2, <3>3 DEF AnswerOf
    <2>3. CASE k = "commit" /\ GoesOn(c, "done") /\ dCall'[c].data.status = "COMMITTED"
      BY <1>2, <2>1, <2>3 DEF AnswerOf
    <2> QED BY <1>6, <2>2, <2>3 DEF ReadStep
  <1>7. ASSUME NEW c \in Requests, MarkStep(c)
        PROVE  AnswerInv'
    <2>1. /\ dCall'[c].kind = dCall[c].kind /\ dCall'[c].data = dCall[c].data
          /\ \A d \in Requests \ {c} : dCall'[d] = dCall[d]
          /\ \/ dCall[c].at = "read" /\ dCall'[c].at = "marked"
             \/ dCall'[c].at = "made" /\ dCall[c].kind = "commit"
          /\ dCall[c].kind # "draft"
      BY <1>7 DEF MarkStep, GoesOn
    <2> QED BY <1>2, <2>1 DEF AnswerInv, AnswerOf
  <1>8. ASSUME NEW c \in Requests, AnswerStep(c)
        PROVE  AnswerInv'
    <2> DEFINE k == dCall[c].kind  s == dCall[c].session  r == dRow'[s]
    <2>1. /\ dCall'[c].kind = k /\ dCall'[c].at = "done" /\ dCall'[c].data = D!Part(k, r)
          /\ \A d \in Requests \ {c} : dCall'[d] = dCall[d]
      BY <1>8 DEF AnswerStep, GoesOn
    <2>2. s \in D!Ids
      BY <1>8 DEF AnswerStep, SlotInv, Under, Creating
    <2>3. CASE k \in {"abandon", "escape"}
      BY <1>2, <2>1, <2>3 DEF AnswerOf
    <2>4. CASE k = "commit"
      <3>1. StatusOf(s, "COMMITTED") /\ "COMMITTED" \in D!Statuses
        BY <1>8, <2>4 DEF AnswerStep, D!Statuses
      <3>2. r.status = "COMMITTED"
        BY <2>2, <3>1, StatusKeeps
      <3>3. D!Part(k, r).status = "COMMITTED"
        BY <2>4, <3>2 DEF D!Part, D!Leaving
      <3> QED BY <1>2, <2>1, <2>4, <3>3 DEF AnswerOf
    <2>5. CASE k \in {"analyze", "clarify", "plan", "drafts", "draft"}
      <3>1. r.status \in {"CLARIFYING", "PLAN_READY", "REVIEWING"}
        BY <1>8, <2>5 DEF AnswerStep
      <3>2. D!Part(k, r).status # "COMMITTED"
        BY <2>5, <3>1 DEF D!Part, D!Leaving
      <3>3. k \in {"draft", "drafts"} => D!Part(k, r).drafts.of > 0
        BY <1>8, <2>5 DEF AnswerStep, AnswerInv, AnswerOf, D!Part, D!OnDrafts
      <3> QED BY <1>2, <2>1, <2>5, <3>2, <3>3 DEF AnswerOf
    <2> QED BY <1>8, <2>3, <2>4, <2>5 DEF AnswerStep
  <1>9. ASSUME NEW c \in Requests, LandStep(c)
        PROVE  AnswerInv'
    <2>1. CASE FailStep({c})
      BY <1>4, <2>1
    <2>2. CASE dCall'[c] = D!NoCall /\ \A d \in Requests \ {c} : dCall'[d] = dCall[d]
      BY <1>1, <1>2, <2>2
    <2> QED BY <1>9, <2>1, <2>2 DEF LandStep
  <1>10. ASSUME CloseStep \/ TypeStep
         PROVE  AnswerInv'
    <2>1. \A d \in Requests : Kept(d)
      BY <1>10, CallKeptKeeps DEF CloseStep, TypeStep, Kept
    <2> QED BY <1>1, <2>1 DEF AnswerInv
  <1>11. ASSUME NEW c \in Requests, NEW kind \in Asked, NEW shown, AskStep(c, kind, shown)
         PROVE  AnswerInv'
    BY <1>3, <1>11 DEF AskStep
  <1>12. ASSUME NEW c \in Requests,
                OpenStep(c) \/ EscapeStep(c) \/ RefuseStep(c) \/ GiveUpStep(c) \/ ReopenStep(c)
         PROVE  AnswerInv'
    BY <1>3, <1>4, <1>12 DEF OpenStep, EscapeStep, RefuseStep, GiveUpStep, ReopenStep
  <1>13. ASSUME NEW cs \in SUBSET Requests, LoseStep(cs) PROVE AnswerInv'
    BY <1>4, <1>13 DEF LoseStep
  <1> QED BY <1>5, <1>6, <1>7, <1>8, <1>9, <1>10, <1>11, <1>12, <1>13 DEF Step

-----------------------------------------------------------------------------
(* Sessions that nobody knows yet, and a dialog without one *)

PlansKept == \A q \in D!Ids : dRow'[q].plan = dRow[q].plan
DraftsKept == \A q \in D!Ids : dRow'[q].drafts = dRow[q].drafts

LEMMA AnswerRows ==
    ASSUME DialogTypes, SlotInv, NEW c \in Requests, AnswerStep(c)
    PROVE  /\ Under(c) /\ dCall[c].session \in D!Ids
           /\ dCall[c].kind \notin {"analyze", "clarify", "plan"} => PlansKept
           /\ dCall[c].kind \notin {"draft", "drafts"} => DraftsKept
           /\ \A q \in D!Ids \ {dCall[c].session} : dRow'[q] = dRow[q]
           /\ dCall[c].kind \in {"abandon", "escape"} => dRow'[dCall[c].session].status = "ABANDONED"
           /\ dCall[c].kind = "commit" => dRow'[dCall[c].session].status = "COMMITTED"
  <1> DEFINE s == dCall[c].session  k == dCall[c].kind
  <1>1. Under(c) /\ s \in D!Ids /\ \A q \in D!Ids \ {s} : dRow'[q] = dRow[q]
    BY DEF AnswerStep, SlotInv, Under, Creating
  <1>2. CASE k \in {"abandon", "escape"}
    <2>1. StatusOf(s, "ABANDONED") /\ "ABANDONED" \in D!Statuses
      BY <1>2 DEF AnswerStep, D!Statuses
    <2> QED BY <1>1, <1>2, <2>1, StatusKeeps DEF PlansKept, DraftsKept
  <1>3. CASE k = "commit"
    <2>1. StatusOf(s, "COMMITTED") /\ "COMMITTED" \in D!Statuses
      BY <1>3 DEF AnswerStep, D!Statuses
    <2> QED BY <1>1, <1>3, <2>1, StatusKeeps DEF PlansKept, DraftsKept
  <1>4. CASE k \in {"analyze", "clarify", "plan"}
    <2>1. dRow'[s].drafts = dRow[s].drafts
      BY <1>4 DEF AnswerStep
    <2> QED BY <1>1, <1>4, <2>1 DEF DraftsKept
  <1>5. CASE k \in {"draft", "drafts"}
    <2>1. dRow'[s].plan = dRow[s].plan
      BY <1>5 DEF AnswerStep
    <2> QED BY <1>1, <1>5, <2>1 DEF PlansKept
  <1> QED BY <1>2, <1>3, <1>4, <1>5 DEF AnswerStep

(* Only answers change more of a row than its status. *)
LEMMA RowsKept ==
    ASSUME DialogTypes, SlotInv, SlotInv', DialogTypes', Step,
           ~\E c \in Requests : AnswerStep(c)
    PROVE  PlansKept /\ DraftsKept
  <1>1. ASSUME UNCHANGED dRow PROVE PlansKept /\ DraftsKept
    BY <1>1 DEF PlansKept, DraftsKept
  <1>2. ASSUME NEW s \in D!Ids, NEW status \in D!Statuses, StatusOf(s, status)
        PROVE  PlansKept /\ DraftsKept
    BY <1>2, StatusKeeps DEF PlansKept, DraftsKept
  <1>3. ASSUME NEW c \in Requests, CreateStep(c) PROVE PlansKept /\ DraftsKept
    <2>1. dMade + 1 \in D!Ids
      <3>1. dMade' = dMade + 1 /\ IsFiniteSet(D!Creates') /\ dMade \in Nat /\ MaxSessions \in Nat
            /\ dMade' + Cardinality(D!Creates') <= MaxSessions
        BY <1>3, DialogAssumption DEF CreateStep, SlotInv, DialogTypes
      <3>2. Cardinality(D!Creates') \in Nat
        BY <3>1, FS_CardinalityType
      <3> QED BY <3>1, <3>2 DEF D!Ids
    <2>2. StatusOf(dMade + 1, "CAPTURING") /\ "CAPTURING" \in D!Statuses
      BY <1>3 DEF CreateStep, StatusOf, D!Statuses
    <2> QED BY <1>2, <2>1, <2>2
  <1>4. ASSUME NEW c \in Requests, MarkStep(c) \/ GiveUpStep(c) \/ ReopenStep(c)
        PROVE  PlansKept /\ DraftsKept
    <2>1. dCall[c].session \in D!Ids
      BY <1>4 DEF MarkStep, GiveUpStep, ReopenStep, SlotInv, Under, Creating
    <2>2. dRow' = dRow \/ \E status \in D!Statuses : StatusOf(dCall[c].session, status)
      BY <1>4 DEF MarkStep, GiveUpStep, ReopenStep, D!Statuses
    <2> QED BY <1>1, <1>2, <2>1, <2>2
  <1>5. ASSUME NEW c \in Requests,
               OpenStep(c) \/ EscapeStep(c) \/ ReadStep(c) \/ LandStep(c) \/ RefuseStep(c)
        PROVE  PlansKept /\ DraftsKept
    BY <1>1, <1>5 DEF OpenStep, EscapeStep, ReadStep, LandStep, RefuseStep
  <1>6. ASSUME NEW c \in Requests, NEW kind \in Asked, NEW shown, AskStep(c, kind, shown)
        PROVE  PlansKept /\ DraftsKept
    BY <1>1, <1>6 DEF AskStep
  <1>7. ASSUME CloseStep \/ TypeStep \/ \E cs \in SUBSET Requests : LoseStep(cs)
        PROVE  PlansKept /\ DraftsKept
    BY <1>1, <1>7 DEF CloseStep, TypeStep, LoseStep
  <1> QED BY <1>3, <1>4, <1>5, <1>6, <1>7 DEF Step

SessInv ==
    /\ dUi.session = 0 => dUi.plan.text = 0 /\ dUi.drafts.of = 0
    /\ dUi.status = "COMMITTED" => dUi.result
    /\ \A s \in D!Ids : s > dMade => dRow[s].drafts.of = 0

LEMMA SessStep ==
    ASSUME DialogTypes, SlotInv, AnswerInv, SessInv, SlotInv', DialogTypes', Step
    PROVE  SessInv'
  <1>1. ASSUME /\ \A q \in D!Ids : q > dMade' => dRow'[q].drafts.of = dRow[q].drafts.of
               /\ dMade' >= dMade
        PROVE  \A s \in D!Ids : s > dMade' => dRow'[s].drafts.of = 0
    BY <1>1 DEF SessInv, DialogTypes, D!Ids
  <1>2. \A s \in D!Ids : s > dMade' => dRow'[s].drafts.of = 0
    <2>1. dMade' >= dMade
      <3>1. dMade' = dMade \/ dMade' = dMade + 1
        BY DEF Step, AskStep, OpenStep, EscapeStep, CreateStep, ReadStep, MarkStep, AnswerStep,
               LandStep, RefuseStep, GiveUpStep, ReopenStep, LoseStep, CloseStep, TypeStep, FailStep
      <3> QED BY <3>1 DEF DialogTypes
    <2>2. CASE \E c \in Requests : AnswerStep(c)
      <3>1. PICK c \in Requests : AnswerStep(c)
        BY <2>2
      <3>2. dCall[c].session <= dMade /\ dMade' = dMade
        BY <3>1 DEF SlotInv, AnswerStep
      <3>3. \A q \in D!Ids \ {dCall[c].session} : dRow'[q] = dRow[q]
        BY <3>1, AnswerRows
      <3> QED BY <1>1, <2>1, <3>2, <3>3 DEF D!Ids, DialogTypes
    <2>3. CASE ~\E c \in Requests : AnswerStep(c)
      BY <1>1, <2>1, <2>3, RowsKept DEF DraftsKept
    <2> QED BY <2>2, <2>3
  <1>3. ASSUME UiClosed
        PROVE  SessInv'
    BY <1>2, <1>3, Nothing DEF UiClosed, SessInv
  <1>4. ASSUME dUi'.session = dUi.session, dUi'.status = dUi.status, dUi'.result = dUi.result,
               \/ dUi.session > 0
               \/ dUi'.plan.text = dUi.plan.text /\ dUi'.drafts.of = dUi.drafts.of
        PROVE  SessInv'
    BY <1>2, <1>4 DEF SessInv
  <1>5. ASSUME NEW cs \in SUBSET Requests, FailStep(cs)
        PROVE  SessInv'
    BY <1>3, <1>4, <1>5 DEF FailStep, UiKept
  <1>6. ASSUME NEW c \in Requests, LandStep(c)
        PROVE  SessInv'
    <2>1. CASE FailStep({c})
      BY <1>5, <2>1
    <2>2. CASE dUi' = dUi
      BY <1>4, <2>2
    <2>3. CASE dCall[c].kind \notin {"abandon", "orphan", "escape"} /\ dUi' = D!Shows(c)
      <3>1. /\ dUi'.session = dCall[c].session
            /\ dUi'.status = dCall[c].data.status
            /\ dUi'.result = (dUi.result \/ dCall[c].kind = "commit")
        BY <2>3, ShowsEffect
      <3>2. dCall[c].at = "done" /\ dCall[c].session \in D!Ids
        BY <1>6 DEF LandStep, SlotInv, Under, Creating
      <3>3. dCall[c].session # 0
        BY <3>2 DEF D!Ids
      <3>4. dCall[c].data.status = "COMMITTED" => dCall[c].kind = "commit"
        <4>1. dCall[c].kind \in D!Kinds
          BY DEF DialogTypes, CallRecords
        <4> QED BY <2>3, <3>2, <4>1 DEF AnswerInv, AnswerOf, D!Kinds
      <3> QED BY <1>2, <3>1, <3>3, <3>4 DEF SessInv
    <2> QED BY <1>6, <2>1, <2>2, <2>3 DEF LandStep
  <1>7. ASSUME TypeStep
        PROVE  SessInv'
    <2>1. /\ dUi'.session = dUi.session /\ dUi'.status = dUi.status /\ dUi'.result = dUi.result
          /\ dUi'.drafts.of = dUi.drafts.of
          /\ dUi'.plan = dUi.plan \/ dUi.plan.text > 0
      BY <1>7 DEF TypeStep, D!hasPlan
    <2>2. dUi.plan.text > 0 => dUi.session > 0
      BY DEF SessInv, DialogTypes, Dialogs
    <2> QED BY <1>4, <2>1, <2>2
  <1>8. ASSUME NEW c \in Requests, NEW kind \in Asked, NEW shown, AskStep(c, kind, shown)
        PROVE  SessInv'
    BY <1>4, <1>8 DEF AskStep
  <1>9. ASSUME NEW c \in Requests,
               OpenStep(c) \/ CreateStep(c) \/ ReadStep(c) \/ MarkStep(c) \/ AnswerStep(c)
        PROVE  SessInv'
    BY <1>4, <1>9 DEF OpenStep, CreateStep, ReadStep, MarkStep, AnswerStep
  <1>10. ASSUME NEW c \in Requests,
                EscapeStep(c) \/ RefuseStep(c) \/ GiveUpStep(c) \/ ReopenStep(c)
         PROVE  SessInv'
    BY <1>3, <1>5, <1>10 DEF EscapeStep, RefuseStep, GiveUpStep, ReopenStep
  <1>11. ASSUME CloseStep \/ \E cs \in SUBSET Requests : LoseStep(cs)
         PROVE  SessInv'
    BY <1>3, <1>5, <1>11 DEF CloseStep, LoseStep
  <1> QED BY <1>6, <1>7, <1>8, <1>9, <1>10, <1>11 DEF Step

(* A session just made is known to the answer that will bring it only. *)
CreatedInv ==
    \A c \in Requests : dCall[c].kind = "create" /\ dCall[c].at = "done" =>
        /\ dRow[dCall[c].session].drafts.of = 0
        /\ dCall[c].session # dUi.session /\ dCall[c].session # dUi.ref
        /\ \A d \in Requests \ {c} : Under(d) => dCall[d].session # dCall[c].session

LEMMA CreatedStep ==
    ASSUME DialogTypes, SlotInv, SessInv, CreatedInv, SlotInv', DialogTypes', Step
    PROVE  CreatedInv'
  <1> DEFINE Was(c) == dCall[c].kind = "create" /\ dCall[c].at = "done"
  <1>0. /\ D!NoCall.at = "none" /\ 0 \notin D!Ids
        /\ \A c \in Requests : Was(c) => Under(c) /\ dCall[c].session \in D!Ids
    BY DEF D!NoCall, D!Ids, SlotInv, Under, Creating
  <1>1. ASSUME \A c \in Requests : Was(c)' => Was(c) /\ dCall'[c].session = dCall[c].session,
               \A c \in Requests : Was(c) => dRow'[dCall[c].session].drafts = dRow[dCall[c].session].drafts,
               \A u \in {dUi'.session, dUi'.ref} :
                  \/ u \in {0, dUi.session, dUi.ref}
                  \/ \E e \in Requests : Under(e) /\ ~Under(e)' /\ u = dCall[e].session,
               \A d \in Requests : Under(d)' =>
                  \/ Under(d) /\ dCall'[d].session = dCall[d].session
                  \/ dCall'[d].session \in {0, dUi.session, dUi.ref}
        PROVE  CreatedInv'
    <2> SUFFICES ASSUME NEW c \in Requests, Was(c)'
                 PROVE  /\ dRow'[dCall'[c].session].drafts.of = 0
                        /\ dCall'[c].session # dUi'.session /\ dCall'[c].session # dUi'.ref
                        /\ \A d \in Requests \ {c} : Under(d)' => dCall'[d].session # dCall'[c].session
      BY DEF CreatedInv
    <2>1. /\ Was(c) /\ dCall'[c].session = dCall[c].session /\ Under(c)' /\ Under(c)
          /\ dCall[c].session # 0
      BY <1>0, <1>1 DEF Under
    <2>2. /\ dRow[dCall[c].session].drafts.of = 0
          /\ dCall[c].session # dUi.session /\ dCall[c].session # dUi.ref
          /\ \A d \in Requests \ {c} : Under(d) => dCall[d].session # dCall[c].session
      BY <2>1 DEF CreatedInv
    <2>3. dRow'[dCall'[c].session].drafts.of = 0
      BY <1>1, <2>1, <2>2
    <2>4. \A u \in {dUi'.session, dUi'.ref} : u # dCall[c].session
      BY <1>1, <2>1, <2>2
    <2>5. \A d \in Requests \ {c} : Under(d)' => dCall'[d].session # dCall'[c].session
      BY <1>1, <2>1, <2>2
    <2> QED BY <2>1, <2>3, <2>4, <2>5
  <1>2. ASSUME \A d \in Requests : Kept(d) \/ dCall'[d] = D!NoCall
        PROVE  /\ \A c \in Requests : Was(c)' => Was(c) /\ dCall'[c].session = dCall[c].session
               /\ \A d \in Requests : Under(d)' => Under(d) /\ dCall'[d].session = dCall[d].session
    BY <1>0, <1>2 DEF Kept, Under
  <1>3. ASSUME ~\E c \in Requests : AnswerStep(c)
        PROVE  \A c \in Requests : Was(c) =>
                  dRow'[dCall[c].session].drafts = dRow[dCall[c].session].drafts
    BY <1>0, <1>3, RowsKept DEF DraftsKept
  <1>4. ASSUME NEW c \in Requests, NEW kind, NEW s \in {0, dUi.session, dUi.ref}, NEW shown,
               SentAs(c, kind, s, shown), UNCHANGED dRow,
               {dUi'.session, dUi'.ref} \subseteq {0, dUi.session, dUi.ref}
        PROVE  CreatedInv'
    <2>1. /\ \A d \in Requests \ {c} : Kept(d) /\ (Under(d) => dCall'[d].kind = dCall[d].kind)
          /\ dCall'[c].at = "sent" /\ dCall'[c].session = s
      BY <1>4, SentKeeps DEF SentAs
    <2>2. \A d \in Requests : Was(d)' => Was(d) /\ dCall'[d].session = dCall[d].session
      BY <1>0, <2>1 DEF Kept, Under
    <2>3. \A d \in Requests : Under(d)' =>
                  \/ Under(d) /\ dCall'[d].session = dCall[d].session
                  \/ dCall'[d].session \in {0, dUi.session, dUi.ref}
      BY <2>1 DEF Kept, Under
    <2> QED BY <1>1, <1>4, <2>2, <2>3
  <1>5. ASSUME NEW cs \in SUBSET Requests, FailStep(cs), ~\E c \in Requests : AnswerStep(c)
        PROVE  CreatedInv'
    <2>1. \A d \in Requests : Kept(d) \/ dCall'[d] = D!NoCall
      BY <1>5, FailKeeps DEF FailStep
    <2>2. {dUi'.session, dUi'.ref} \subseteq {0, dUi.session, dUi.ref}
      BY <1>5 DEF FailStep, UiKept, UiClosed
    <2> QED BY <1>1, <1>2, <1>3, <1>5, <2>1, <2>2
  <1>6. ASSUME NEW c \in Requests, CreateStep(c)
        PROVE  CreatedInv'
    <2>1. /\ GoesOn(c, "done") /\ dCall'[c].session = dMade + 1 /\ dMade' = dMade + 1
          /\ UNCHANGED dUi /\ Creating(c)
          /\ \A d \in Requests \ {c} : dCall'[d] = dCall[d]
      BY <1>6 DEF CreateStep, GoesOn
    <2>2. /\ dMade \in Nat /\ dUi.session < dMade + 1 /\ dUi.ref < dMade + 1
          /\ \A d \in Requests : dCall[d].session < dMade + 1
      BY DEF SlotInv, DialogTypes, Dialogs, CallRecords
    <2>3. \A q \in D!Ids : dRow'[q].drafts = dRow[q].drafts
      <3>1. ~\E d \in Requests : AnswerStep(d)
        BY <2>1, <2>2 DEF AnswerStep
      <3> QED BY <3>1, RowsKept DEF DraftsKept
    <2>4. dCall'[c].session \in D!Ids
      BY <2>1 DEF SlotInv, Under, Creating, GoesOn
    <2>5. dRow'[dCall'[c].session].drafts.of = 0
      BY <2>1, <2>2, <2>3, <2>4 DEF SessInv
    <2>6. ASSUME NEW d \in Requests, Was(d)', d # c
          PROVE  /\ dRow'[dCall'[d].session].drafts.of = 0
                 /\ dCall'[d].session # dUi'.session /\ dCall'[d].session # dUi'.ref
                 /\ \A e \in Requests \ {d} : Under(e)' => dCall'[e].session # dCall'[d].session
      <3>1. Was(d) /\ dCall'[d] = dCall[d] /\ dCall[d].session \in D!Ids
        BY <1>0, <2>1, <2>6
      <3>2. dRow'[dCall'[d].session].drafts.of = 0
            /\ dCall'[d].session # dUi'.session /\ dCall'[d].session # dUi'.ref
        BY <2>1, <2>3, <3>1 DEF CreatedInv
      <3>3. ASSUME NEW e \in Requests \ {d}, Under(e)'
            PROVE  dCall'[e].session # dCall'[d].session
        BY <2>1, <2>2, <3>1, <3>3 DEF CreatedInv, Under
      <3> QED BY <3>2, <3>3
    <2>7. /\ dCall'[c].session # dUi'.session /\ dCall'[c].session # dUi'.ref
          /\ \A e \in Requests \ {c} : dCall'[e].session # dCall'[c].session
      BY <2>1, <2>2
    <2> QED BY <2>5, <2>6, <2>7 DEF CreatedInv
  <1>7. ASSUME NEW c \in Requests, ReadStep(c) \/ MarkStep(c)
        PROVE  CreatedInv'
    <2>1. /\ dCall[c].kind # "create" /\ dCall'[c].kind = dCall[c].kind
          /\ dCall'[c].session = dCall[c].session
          /\ \A d \in Requests \ {c} : dCall'[d] = dCall[d]
          /\ UNCHANGED dUi /\ Under(c) /\ dCall[c].at # "done"
      BY <1>7 DEF ReadStep, MarkStep, GoesOn, Under, Creating
    <2>2. ~\E d \in Requests : AnswerStep(d)
      <3>1. ~AnswerStep(c)
        BY <1>7 DEF AnswerStep, GoesOn, ReadStep, MarkStep
      <3>2. ASSUME NEW d \in Requests \ {c}, AnswerStep(d) PROVE FALSE
        BY <2>1, <3>2 DEF AnswerStep, GoesOn
      <3> QED BY <3>1, <3>2
    <2>3. \A d \in Requests : Was(d)' => Was(d) /\ dCall'[d].session = dCall[d].session
      BY <2>1
    <2>4. \A d \in Requests : Under(d)' => Under(d) /\ dCall'[d].session = dCall[d].session
      BY <2>1 DEF Under
    <2> QED BY <1>1, <1>3, <2>1, <2>2, <2>3, <2>4
  <1>8. ASSUME NEW c \in Requests, AnswerStep(c)
        PROVE  CreatedInv'
    <2>1. /\ dCall[c].kind # "create" /\ dCall'[c].kind = dCall[c].kind
          /\ dCall'[c].session = dCall[c].session
          /\ \A d \in Requests \ {c} : dCall'[d] = dCall[d]
          /\ UNCHANGED dUi /\ Under(c)
      BY <1>8 DEF AnswerStep, GoesOn, Under
    <2>2. \A d \in Requests : Was(d)' => Was(d) /\ dCall'[d].session = dCall[d].session
      BY <2>1
    <2>3. \A d \in Requests : Under(d)' => Under(d) /\ dCall'[d].session = dCall[d].session
      BY <2>1 DEF Under
    <2>4. \A d \in Requests : Was(d) => dCall[d].session # dCall[c].session
      BY <2>1 DEF CreatedInv
    <2>5. \A d \in Requests : Was(d) =>
                  dRow'[dCall[d].session].drafts = dRow[dCall[d].session].drafts
      BY <1>0, <1>8, <2>4, AnswerRows
    <2> QED BY <1>1, <2>1, <2>2, <2>3, <2>5
  <1>9. ASSUME NEW c \in Requests, LandStep(c), dCall[c].kind # "abandon"
        PROVE  CreatedInv'
    <2>1. /\ dCall'[c] = D!NoCall /\ UNCHANGED dRow /\ Under(c) /\ ~Under(c)'
          /\ \A d \in Requests \ {c} : dCall'[d] = dCall[d]
          /\ \/ dUi' = dUi
             \/ dCall[c].kind \notin {"abandon", "orphan", "escape"} /\ dUi' = D!Shows(c)
      BY <1>0, <1>9 DEF LandStep, Under
    <2>2. \A u \in {dUi'.session, dUi'.ref} : u \in {dUi.session, dUi.ref, dCall[c].session}
      BY <2>1, ShowsEffect
    <2>3. \A d \in Requests : Was(d)' => Was(d) /\ dCall'[d].session = dCall[d].session
      BY <1>0, <2>1
    <2>4. \A d \in Requests : Under(d)' => Under(d) /\ dCall'[d].session = dCall[d].session
      BY <1>0, <2>1 DEF Under
    <2> QED BY <1>1, <2>1, <2>2, <2>3, <2>4
  <1>10. ASSUME CloseStep \/ TypeStep
         PROVE  CreatedInv'
    <2>1. /\ \A d \in Requests : Kept(d)
          /\ UNCHANGED dRow /\ {dUi'.session, dUi'.ref} \subseteq {0, dUi.session, dUi.ref}
      BY <1>10, CallKeptKeeps DEF CloseStep, TypeStep, Kept, UiClosed
    <2> QED BY <1>1, <1>2, <2>1
  <1>11. ASSUME NEW c \in Requests, NEW kind \in Asked, NEW shown, AskStep(c, kind, shown)
         PROVE  CreatedInv'
    BY <1>4, <1>11 DEF AskStep
  <1>12. ASSUME NEW c \in Requests, OpenStep(c) \/ EscapeStep(c)
         PROVE  CreatedInv'
    BY <1>4, <1>12 DEF OpenStep, EscapeStep, UiClosed
  <1>13. CASE \E c \in Requests : AnswerStep(c)
    BY <1>8, <1>13
  <1>14. CASE ~\E c \in Requests : AnswerStep(c)
    <2>1. ASSUME NEW c \in Requests, RefuseStep(c) \/ GiveUpStep(c) \/ ReopenStep(c) \/ LandStep(c)
          PROVE  CreatedInv'
      BY <1>5, <1>9, <1>14, <2>1 DEF RefuseStep, GiveUpStep, ReopenStep, LandStep
    <2>2. ASSUME NEW cs \in SUBSET Requests, LoseStep(cs)
          PROVE  CreatedInv'
      BY <1>5, <1>14, <2>2 DEF LoseStep
    <2> QED BY <1>6, <1>7, <1>10, <1>11, <1>12, <1>14, <2>1, <2>2 DEF Step
  <1> QED BY <1>13, <1>14

-----------------------------------------------------------------------------
(* The plan on the screen, in requests and in the rows *)

PlanWriters == {"analyze", "clarify", "plan"}

OnePlan ==
    \A c, d \in Requests :
        Under(c) /\ Under(d) /\ {dCall[c].kind, dCall[d].kind} \subseteq D!OnPlan => c = d

(* An answer is awaited that replaces what is on the screen. *)
PlanComes ==
    \E c \in Requests :
        /\ Under(c)
        /\ \/ dCall[c].kind \in {"plan", "clarify"}
           \/ dCall[c].kind = "analyze" /\ dCall[c].at = "done"

PlanShown ==
    /\ dUi.plan.text > 0 /\ dUi.drafts.of = 0 /\ dUi.session > 0
    /\ dUi.status \in {"PLAN_READY", "REVIEWING", "DRAFTING"}
    /\ dUi.typing # "title" /\ ~PlanComes
    => dUi.plan.text = dRow[dUi.session].plan.text

SeenPlan(c) ==
    dCall[c].kind = "drafts" =>
        /\ dCall[c].at = "sent" =>
              dCall[c].shown = {<<NoKey, dRow[dCall[c].session].plan.text>>}
        /\ dCall[c].at \in {"read", "marked"} =>
              dCall[c].shown = {<<NoKey, dCall[c].data.plan.text>>}
        /\ dCall[c].at = "done" => dCall[c].shown = {<<NoKey, dCall[c].data.drafts.of>>}

PlanAnswer(c) ==
    dCall[c].kind \in PlanWriters /\ dCall[c].at = "done" =>
        dCall[c].data.plan.text = dRow[dCall[c].session].plan.text

(* Unless it is astray, one request at a time is on the plan, drafts are   *)
(* asked for and made from the stored plan, and the screen shows it.       *)
PlanInv ==
    /\ "plan" \notin dAstray => OnePlan /\ PlanShown /\ \A c \in Requests : SeenPlan(c)
    /\ \A c \in Requests : "plan" \notin dAstray \/ dCall[c].alone => PlanAnswer(c)

LEMMA PlanStep ==
    ASSUME DialogTypes, SlotInv, AloneInv, AnswerInv, PlanInv, SlotInv', DialogTypes', Step
    PROVE  PlanInv'
  <1>0. /\ D!NoCall.at = "none" /\ "title" # NoKey /\ "title" \notin Keys
        /\ \A d \in Requests : Under(d) /\ ~Creating(d) => dCall[d].session \in D!Ids
        /\ dUi.session > 0 => dUi.session \in D!Ids
    <2>1. dUi.session \in 0 .. MaxSessions
      BY DEF DialogTypes, Dialogs
    <2>2. dUi.session > 0 => dUi.session \in D!Ids
      BY <2>1, DialogAssumption DEF D!Ids
    <2> QED BY <2>2, DialogAssumption DEF D!NoCall, SlotInv
  <1>1. ASSUME NEW d \in Requests, Kept(d), PlansKept
        PROVE  (SeenPlan(d) => SeenPlan(d)') /\ (PlanAnswer(d) => PlanAnswer(d)')
    <2>1. CASE ~Under(d)
      BY <1>1, <2>1 DEF Kept, Under, SeenPlan, PlanAnswer
    <2>2. CASE Under(d)
      <3>1. dCall[d].kind \notin {"create", "orphan"} => dRow'[dCall[d].session].plan = dRow[dCall[d].session].plan
        BY <1>0, <1>1, <2>2 DEF PlansKept, Creating
      <3> QED BY <1>1, <2>2, <3>1 DEF Kept, Under, SeenPlan, PlanAnswer, PlanWriters
    <2> QED BY <2>1, <2>2
  <1>2. ASSUME NEW d \in Requests, dCall'[d] = D!NoCall
        PROVE  SeenPlan(d)' /\ PlanAnswer(d)'
    BY <1>0, <1>2 DEF SeenPlan, PlanAnswer
  (* Requests end, or nothing happens to them. *)
  <1>3. ASSUME \A d \in Requests : Kept(d) \/ dCall'[d] = D!NoCall, PlansKept,
               dAstray \subseteq dAstray', "plan" \notin dAstray' => PlanShown'
        PROVE  PlanInv'
    <2>1. \A d \in Requests : Under(d)' =>
             Under(d) /\ (dCall'[d].kind \in D!OnPlan => dCall[d].kind \in D!OnPlan)
                      /\ (dCall'[d].alone => dCall[d].alone)
      BY <1>0, <1>3 DEF Kept, Under, D!OnPlan
    <2>2. ASSUME "plan" \notin dAstray' PROVE OnePlan' /\ \A d \in Requests : SeenPlan(d)'
      <3>1. OnePlan /\ \A d \in Requests : SeenPlan(d)
        BY <1>3, <2>2 DEF PlanInv
      <3> QED BY <1>1, <1>2, <1>3, <2>1, <3>1 DEF OnePlan
    <2>3. ASSUME NEW d \in Requests, "plan" \notin dAstray' \/ dCall'[d].alone
          PROVE  PlanAnswer(d)'
      <3>1. CASE Under(d)'
        <4>1. PlanAnswer(d) /\ Kept(d)
          BY <1>0, <1>3, <2>1, <2>3, <3>1 DEF PlanInv, Under
        <4> QED BY <1>1, <1>3, <4>1
      <3>2. CASE ~Under(d)'
        BY <3>2 DEF Under, PlanAnswer
      <3> QED BY <3>1, <3>2
    <2> QED BY <1>3, <2>2, <2>3 DEF PlanInv
  (* The screen stays as it was. *)
  <1>4. ASSUME "plan" \notin dAstray, PlansKept, dUi'.plan = dUi.plan,
               dUi'.drafts.of = dUi.drafts.of, dUi'.session = dUi.session,
               dUi'.status = dUi.status, dUi.typing = "title" => dUi'.typing = "title",
               PlanComes => PlanComes'
        PROVE  PlanShown'
    BY <1>0, <1>4 DEF PlanInv, PlanShown, PlansKept
  <1>5. ASSUME NEW c \in Requests, NEW kind \in D!Kinds, NEW s, NEW shown,
               SentAs(c, kind, s, shown), UNCHANGED dRow, dAstray' = dAstray \cup D!Clash(kind),
               "plan" \notin dAstray' => PlanShown',
               "plan" \notin dAstray' /\ kind = "drafts" => shown = {<<NoKey, dRow[s].plan.text>>}
        PROVE  PlanInv'
    <2>1. /\ \A d \in Requests \ {c} : Kept(d) /\ (Under(d) => ~dCall'[d].alone)
          /\ \A d \in Requests \ {c} : Under(d)' => Under(d) /\ dCall'[d].kind = dCall[d].kind
          /\ dCall'[c].at = "sent" /\ dCall'[c].kind = kind /\ dCall'[c].session = s
          /\ dCall'[c].shown = shown
          /\ PlansKept
      BY <1>5, SentKeeps DEF SentAs, PlansKept, Kept, Under
    <2>2. ASSUME "plan" \notin dAstray'
          PROVE  OnePlan' /\ \A d \in Requests : SeenPlan(d)'
      <3>1. "plan" \notin dAstray /\ "plan" \notin D!Clash(kind)
        BY <1>5, <2>2
      <3>2. kind \in D!OnPlan => \A d \in Requests : Under(d) => dCall[d].kind \notin D!OnPlan
        BY <3>1 DEF D!Clash, D!Parts, D!Others, Under
      <3>3. OnePlan'
        BY <2>1, <3>1, <3>2 DEF PlanInv, OnePlan
      <3>4. SeenPlan(c)'
        BY <1>5, <2>1, <2>2 DEF SeenPlan
      <3>5. \A d \in Requests \ {c} : SeenPlan(d)'
        BY <1>1, <2>1, <3>1 DEF PlanInv
      <3> QED BY <3>3, <3>4, <3>5
    <2>3. ASSUME NEW d \in Requests, "plan" \notin dAstray' \/ dCall'[d].alone
          PROVE  PlanAnswer(d)'
      <3>1. CASE d = c \/ ~Under(d)'
        BY <2>1, <3>1 DEF PlanAnswer, Under
      <3>2. CASE d # c /\ Under(d)'
        <4>1. "plan" \notin dAstray
          BY <1>5, <2>1, <2>3, <3>2
        <4> QED BY <1>1, <2>1, <3>2, <4>1 DEF PlanInv
      <3> QED BY <3>1, <3>2
    <2> QED BY <1>5, <2>2, <2>3 DEF PlanInv
  <1>6. ASSUME NEW c \in Requests, NEW kind \in Asked, NEW shown, AskStep(c, kind, shown)
        PROVE  PlanInv'
    <2>1. /\ SentAs(c, kind, dUi.session, shown) /\ UNCHANGED dRow /\ kind \in D!Kinds
          /\ dAstray' = dAstray \cup D!Clash(kind) /\ PlansKept
      BY <1>6 DEF AskStep, Asked, D!Kinds, PlansKept
    <2>2. /\ \A d \in Requests \ {c} : Kept(d) /\ (Under(d) => dCall'[d].kind = dCall[d].kind)
          /\ dCall'[c].at = "sent" /\ dCall'[c].kind = kind /\ ~Under(c)
      BY <2>1, SentKeeps DEF SentAs, Under
    <2>3. ASSUME "plan" \notin dAstray' PROVE PlanShown'
      <3>1. CASE kind = "plan"
        BY <2>2, <3>1 DEF PlanShown, PlanComes, Under
      <3>2. CASE kind # "plan"
        <4>1. PlanComes => PlanComes'
          BY <2>2 DEF PlanComes, Kept, Under
        <4>2. dUi'.plan = dUi.plan /\ dUi'.drafts = dUi.drafts /\ dUi'.session = dUi.session
              /\ dUi'.status = dUi.status
              /\ (dUi'.typing = dUi.typing \/ dUi.typing \in Keys)
          BY <1>6, <3>2 DEF AskStep
        <4> QED BY <1>0, <1>4, <2>1, <2>3, <4>1, <4>2
      <3> QED BY <3>1, <3>2
    <2>4. ASSUME "plan" \notin dAstray', kind = "drafts"
          PROVE  shown = {<<NoKey, dRow[dUi.session].plan.text>>}
      <3>1. /\ shown = {<<NoKey, dUi.plan.text>>} /\ dUi.session > 0
            /\ dUi.typing = NoKey /\ ~D!hasDrafts /\ D!canGenerateDrafts
        BY <1>6, <2>4 DEF AskStep
      <3>2. dUi.drafts.of = 0 /\ dUi.plan.text > 0
            /\ dUi.status \in {"PLAN_READY", "REVIEWING", "DRAFTING"}
        <4>1. dUi.drafts.of \in Nat
          BY DialogAssumption DEF DialogTypes, Dialogs, D!Drafts, D!Stamps
        <4> QED BY <3>1, <4>1 DEF D!hasDrafts, D!canGenerateDrafts, D!hasPlan
      <3>3. "plan" \notin dAstray /\ "plan" \notin D!Clash("drafts")
        BY <2>1, <2>4
      <3>4. \A d \in Requests : Under(d) => dCall[d].kind \notin D!OnPlan
        BY <3>3 DEF D!Clash, D!Parts, D!Others, Under, D!OnPlan
      <3>5. ~PlanComes
        BY <3>4 DEF PlanComes, D!OnPlan
      <3> QED BY <1>0, <3>1, <3>2, <3>3, <3>5 DEF PlanInv, PlanShown
    <2> QED BY <1>5, <2>1, <2>3, <2>4
  <1>7. ASSUME NEW c \in Requests, OpenStep(c)
        PROVE  PlanInv'
    <2>1. /\ SentAs(c, "create", 0, {}) /\ UNCHANGED dRow /\ "create" \in D!Kinds
          /\ dAstray' = dAstray \cup D!Clash("create") /\ PlansKept
          /\ dUi'.plan = dUi.plan /\ dUi'.drafts = dUi.drafts /\ dUi'.session = dUi.session
          /\ dUi'.status = dUi.status /\ dUi'.typing = dUi.typing
      BY <1>7 DEF OpenStep, D!Kinds, PlansKept
    <2>2. PlanComes => PlanComes'
      <3>1. /\ \A d \in Requests \ {c} : Kept(d) /\ (Under(d) => dCall'[d].kind = dCall[d].kind)
            /\ ~Under(c)
        BY <2>1, SentKeeps DEF SentAs, Under
      <3> QED BY <3>1 DEF PlanComes, Kept, Under
    <2>3. "plan" \notin dAstray' => PlanShown'
      BY <1>4, <2>1, <2>2
    <2> QED BY <1>5, <2>1, <2>3
  <1>8. ASSUME UiClosed PROVE PlanShown'
    BY <1>8 DEF UiClosed, PlanShown
  <1>9. ASSUME NEW c \in Requests, EscapeStep(c)
        PROVE  PlanInv'
    <2>1. /\ SentAs(c, "escape", dUi.ref, {}) /\ UNCHANGED dRow /\ "escape" \in D!Kinds
          /\ dAstray' = dAstray \cup D!Clash("escape") /\ UiClosed
      BY <1>9 DEF EscapeStep, D!Kinds
    <2> QED BY <1>5, <1>8, <2>1
  (* A request goes on, and does not answer yet. *)
  <1>10. ASSUME NEW c \in Requests, NEW at, GoesOn(c, at), at # "none", Under(c),
                dCall[c].at # "done", UNCHANGED <<dUi, dAstray>>, PlansKept,
                "plan" \notin dAstray => SeenPlan(c)',
                "plan" \notin dAstray \/ dCall[c].alone => PlanAnswer(c)'
         PROVE  PlanInv'
    <2>1. /\ dCall'[c].at = at /\ dCall'[c].kind = dCall[c].kind
          /\ dCall'[c].alone = dCall[c].alone
          /\ \A d \in Requests \ {c} : dCall'[d] = dCall[d] /\ Kept(d)
      BY <1>10 DEF GoesOn, Kept
    <2>2. PlanComes => PlanComes'
      BY <1>10, <2>1 DEF PlanComes, Under
    <2>3. OnePlan => OnePlan'
      BY <1>10, <2>1 DEF OnePlan, Under
    <2>4. \A d \in Requests \ {c} : (SeenPlan(d) => SeenPlan(d)') /\ (PlanAnswer(d) => PlanAnswer(d)')
      BY <1>1, <1>10, <2>1
    <2>5. "plan" \notin dAstray' => PlanShown'
      BY <1>4, <1>10, <2>2
    <2>6. ASSUME "plan" \notin dAstray'
          PROVE  OnePlan' /\ PlanShown' /\ \A d \in Requests : SeenPlan(d)'
      BY <1>10, <2>3, <2>4, <2>5, <2>6 DEF PlanInv
    <2>7. ASSUME NEW d \in Requests, "plan" \notin dAstray' \/ dCall'[d].alone
          PROVE  PlanAnswer(d)'
      BY <1>10, <2>1, <2>4, <2>7 DEF PlanInv
    <2> QED BY <2>6, <2>7 DEF PlanInv
  <1>11. ASSUME NEW c \in Requests, CreateStep(c) \/ ReadStep(c) \/ MarkStep(c)
         PROVE  PlanInv'
    <2>1. /\ Under(c) /\ dCall[c].at # "done" /\ UNCHANGED <<dUi, dAstray>>
          /\ \E at \in {"read", "marked", "made", "done"} : GoesOn(c, at)
          /\ \A d \in Requests \ {c} : dCall'[d] = dCall[d]
          /\ dCall[c].kind # "create" /\ dCall[c].kind # "orphan" => dCall'[c].session = dCall[c].session
      BY <1>11 DEF CreateStep, ReadStep, MarkStep, Under, Creating, GoesOn
    <2>2. ~\E d \in Requests : AnswerStep(d)
      <3>1. ~AnswerStep(c)
        BY <1>11 DEF CreateStep, ReadStep, MarkStep, AnswerStep, GoesOn, Creating
      <3>2. ASSUME NEW d \in Requests \ {c}, AnswerStep(d) PROVE FALSE
        BY <2>1, <3>2 DEF AnswerStep, GoesOn
      <3> QED BY <3>1, <3>2
    <2>3. PlansKept
      BY <2>2, RowsKept
    <2>4. CASE CreateStep(c)
      <3>1. SeenPlan(c)' /\ PlanAnswer(c)'
        BY <2>4 DEF CreateStep, GoesOn, Creating, SeenPlan, PlanAnswer, PlanWriters
      <3> QED BY <1>10, <2>1, <2>3, <3>1
    <2>5. CASE ReadStep(c)
      <3>1. PlanAnswer(c)'
        BY <2>5 DEF ReadStep, GoesOn, PlanAnswer, PlanWriters
      <3>2. ASSUME SeenPlan(c) PROVE SeenPlan(c)'
        <4>1. CASE dCall[c].kind = "drafts"
          <5>1. /\ GoesOn(c, "read") /\ dCall[c].at = "sent"
                /\ dCall'[c].data.plan = D!Part("drafts", dRow[dCall[c].session]).plan
            BY <2>5, <4>1 DEF ReadStep
          <5>2. D!Part("drafts", dRow[dCall[c].session]).plan = dRow[dCall[c].session].plan
            BY DEF D!Part, D!OnPlan
          <5> QED BY <3>2, <4>1, <5>1, <5>2 DEF SeenPlan, GoesOn
        <4>2. CASE dCall[c].kind # "drafts"
          BY <2>1, <4>2 DEF SeenPlan, GoesOn
        <4> QED BY <4>1, <4>2
      <3>3. "plan" \notin dAstray => SeenPlan(c)
        BY DEF PlanInv
      <3> QED BY <1>10, <2>1, <2>3, <3>1, <3>2, <3>3
    <2>6. CASE MarkStep(c)
      <3>1. PlanAnswer(c)'
        BY <2>6 DEF MarkStep, GoesOn, PlanAnswer, PlanWriters
      <3>2. ASSUME SeenPlan(c) PROVE SeenPlan(c)'
        BY <2>6, <3>2 DEF MarkStep, GoesOn, SeenPlan
      <3>3. "plan" \notin dAstray => SeenPlan(c)
        BY DEF PlanInv
      <3> QED BY <1>10, <2>1, <2>3, <3>1, <3>2, <3>3
    <2> QED BY <1>11, <2>4, <2>5, <2>6
  <1>12. ASSUME NEW c \in Requests, AnswerStep(c)
         PROVE  PlanInv'
    <2> DEFINE k == dCall[c].kind  s == dCall[c].session
    <2>1. /\ Under(c) /\ dCall[c].at # "done" /\ UNCHANGED <<dUi, dAstray>> /\ GoesOn(c, "done")
          /\ dCall'[c].kind = k /\ dCall'[c].at = "done" /\ dCall'[c].session = s
          /\ dCall'[c].data = D!Part(k, dRow'[s]) /\ dCall'[c].shown = dCall[c].shown
          /\ dCall'[c].alone = dCall[c].alone
          /\ \A d \in Requests \ {c} : dCall'[d] = dCall[d]
      BY <1>12 DEF AnswerStep, GoesOn, Under
    <2>2. PlanAnswer(c)'
      BY <2>1 DEF PlanAnswer, PlanWriters, D!Part, D!OnPlan
    <2>3. ASSUME "plan" \notin dAstray PROVE SeenPlan(c)'
      <3>1. CASE k = "drafts"
        <4>1. /\ dCall[c].at = "marked" /\ dRow'[s].drafts.of = dCall[c].data.plan.text
          BY <1>12, <3>1 DEF AnswerStep
        <4>2. dCall[c].shown = {<<NoKey, dCall[c].data.plan.text>>}
          BY <2>3, <3>1, <4>1 DEF PlanInv, SeenPlan
        <4>3. dCall'[c].data.drafts = dRow'[s].drafts
          BY <2>1, <3>1 DEF D!Part, D!OnDrafts
        <4> QED BY <2>1, <3>1, <4>1, <4>2, <4>3 DEF SeenPlan
      <3>2. CASE k # "drafts"
        BY <2>1, <3>2 DEF SeenPlan
      <3> QED BY <3>1, <3>2
    <2>4. CASE k \notin PlanWriters
      <3>1. PlansKept
        BY <1>12, <2>4, AnswerRows DEF PlanWriters
      <3> QED BY <1>10, <2>1, <2>2, <2>3, <3>1
    <2>5. CASE k \in PlanWriters
      <3>1. ASSUME "plan" \notin dAstray' PROVE PlanShown'
        BY <2>1, <2>5 DEF PlanShown, PlanComes, PlanWriters, Under
      <3>2. ASSUME "plan" \notin dAstray'
            PROVE  OnePlan' /\ \A d \in Requests : SeenPlan(d)' /\ PlanAnswer(d)'
        <4>1. OnePlan /\ "plan" \notin dAstray
          BY <2>1, <3>2 DEF PlanInv
        <4>2. \A d \in Requests \ {c} : Under(d) => dCall[d].kind \notin D!OnPlan
          BY <2>1, <2>5, <4>1 DEF OnePlan, PlanWriters, D!OnPlan
        <4>3. \A d \in Requests \ {c} : SeenPlan(d)' /\ PlanAnswer(d)'
          BY <2>1, <4>2 DEF SeenPlan, PlanAnswer, PlanWriters, D!OnPlan, Under
        <4>4. OnePlan'
          BY <2>1, <4>1 DEF OnePlan, Under
        <4> QED BY <2>2, <2>3, <4>1, <4>3, <4>4
      <3>3. ASSUME NEW d \in Requests, dCall'[d].alone PROVE PlanAnswer(d)'
        <4>1. CASE d = c
          BY <2>2, <4>1
        <4>2. CASE d # c
          <5>1. ~Under(d)
            BY <2>1, <3>3, <4>2 DEF AloneInv
          <5> QED BY <2>1, <4>2, <5>1 DEF Under, PlanAnswer
        <4> QED BY <4>1, <4>2
      <3> QED BY <3>1, <3>2, <3>3 DEF PlanInv
    <2> QED BY <2>4, <2>5
  <1>13. ASSUME NEW cs \in SUBSET Requests, FailStep(cs), PlansKept, dAstray \subseteq dAstray',
                \A c \in cs : dCall[c].kind \in {"plan", "clarify"} => "plan" \in dAstray',
                \A c \in cs : dCall[c].kind = "analyze" /\ dCall[c].at = "done" => "plan" \in dAstray'
         PROVE  PlanInv'
    <2>1. /\ \A d \in cs : dCall'[d] = D!NoCall
          /\ \A d \in Requests \ cs : Kept(d)
          /\ UiKept \/ UiClosed
      BY <1>13, FailKeeps DEF FailStep
    <2>2. ASSUME "plan" \notin dAstray' PROVE PlanShown'
      <3>1. PlanComes => PlanComes'
        <4> SUFFICES ASSUME PlanComes PROVE PlanComes'
          OBVIOUS
        <4>1. PICK d \in Requests : /\ Under(d)
                                    /\ \/ dCall[d].kind \in {"plan", "clarify"}
                                       \/ dCall[d].kind = "analyze" /\ dCall[d].at = "done"
          BY DEF PlanComes
        <4>2. d \notin cs
          BY <1>13, <2>2, <4>1
        <4> QED BY <2>1, <4>1, <4>2 DEF Kept, Under, PlanComes
      <3> QED BY <1>4, <1>8, <1>13, <2>1, <2>2, <3>1 DEF UiKept
    <2> QED BY <1>3, <1>13, <2>1, <2>2
  <1>14. ASSUME NEW c \in Requests, RefuseStep(c) \/ GiveUpStep(c) \/ ReopenStep(c)
         PROVE  PlanInv'
    <2>1. FailStep({c}) /\ dAstray \subseteq dAstray' /\ UNCHANGED dMade
      BY <1>14 DEF RefuseStep, GiveUpStep, ReopenStep, FailStep
    <2>2. PlansKept
      <3>1. dCall[c].session \in D!Ids
        BY <1>14 DEF RefuseStep, GiveUpStep, ReopenStep, SlotInv, Under, Creating
      <3>2. UNCHANGED dRow \/ \E status \in D!Statuses : StatusOf(dCall[c].session, status)
        BY <1>14 DEF RefuseStep, GiveUpStep, ReopenStep, D!Statuses
      <3> QED BY <3>1, <3>2, StatusKeeps DEF PlansKept
    <2>3. /\ dCall[c].kind \in {"plan", "clarify"} => "plan" \in dAstray'
          /\ dCall[c].kind = "analyze" /\ dCall[c].at = "done" => "plan" \in dAstray'
      BY <1>14 DEF RefuseStep, GiveUpStep, ReopenStep, D!Lost, D!Over
    <2> QED BY <1>13, <2>1, <2>2, <2>3
  <1>15. ASSUME NEW cs \in SUBSET Requests, LoseStep(cs)
         PROVE  PlanInv'
    <2>1. \A c \in cs : dCall[c].kind \in PlanWriters => "plan" \in dAstray'
      BY <1>15 DEF LoseStep, D!Lost, PlanWriters
    <2> QED BY <1>13, <1>15, <2>1 DEF LoseStep, PlansKept, PlanWriters
  <1>16. ASSUME NEW c \in Requests, LandStep(c)
         PROVE  PlanInv'
    <2> DEFINE k == dCall[c].kind  s == dCall[c].session
    <2>1. /\ dCall[c].at = "done" /\ Under(c) /\ UNCHANGED dRow /\ PlansKept
          /\ dAstray' = (IF dCall[c].alone THEN dAstray \ D!Mends(c) ELSE dAstray) \cup D!Mixes(c)
          /\ s \in D!Ids /\ k \in D!Kinds
      BY <1>16 DEF LandStep, Under, PlansKept, SlotInv, Creating, DialogTypes, CallRecords
    <2>2. CASE k = "abandon"
      <3>1. FailStep({c}) /\ dAstray \subseteq dAstray'
        BY <1>16, <2>1, <2>2 DEF LandStep, D!Mends
      <3> QED BY <1>13, <2>1, <2>2, <3>1
    <2>3. CASE k # "abandon"
      <3>1. /\ dCall'[c] = D!NoCall /\ \A d \in Requests \ {c} : dCall'[d] = dCall[d] /\ Kept(d)
            /\ IF k \in {"orphan", "escape"} THEN dUi' = dUi ELSE dUi' = D!Shows(c)
        BY <1>16, <2>3 DEF LandStep, Kept
      <3>2. ASSUME dCall[c].alone PROVE \A d \in Requests : ~Under(d)'
        BY <1>0, <2>1, <3>1, <3>2 DEF AloneInv, Under
      <3>3. ASSUME "plan" \notin dAstray' PROVE "plan" \notin dAstray \/ (dCall[c].alone /\ k \in PlanWriters)
        BY <2>1, <3>3 DEF D!Mends, PlanWriters
      <3>4. ASSUME "plan" \notin dAstray' PROVE PlanShown'
        <4>1. CASE k \in {"orphan", "escape"}
          <5>1. dUi' = dUi /\ "plan" \notin dAstray
            BY <3>1, <3>3, <3>4, <4>1 DEF PlanWriters
          <5>2. PlanComes => PlanComes'
            BY <3>1, <4>1 DEF PlanComes, Under
          <5> QED BY <1>4, <2>1, <5>1, <5>2
        <4>2. CASE k \in PlanWriters
          <5>1. dUi' = D!Shows(c)
            BY <3>1, <4>2 DEF PlanWriters
          <5>2. dUi'.plan = dCall[c].data.plan /\ dUi'.session = s
            BY <4>2, <5>1, ShowsEffect DEF PlanWriters
          <5>3. PlanAnswer(c)
            BY <3>3, <3>4 DEF PlanInv
          <5> QED BY <2>1, <4>2, <5>2, <5>3 DEF PlanShown, PlanAnswer
        <4>3. CASE k \in {"drafts", "draft"}
          <5>1. dUi' = D!Shows(c)
            BY <3>1, <4>3
          <5>2. dUi'.drafts = dCall[c].data.drafts
            BY <4>3, <5>1, ShowsEffect
          <5>3. dCall[c].data.drafts.of > 0
            BY <2>1, <4>3 DEF AnswerInv, AnswerOf
          <5> QED BY <5>2, <5>3 DEF PlanShown
        <4>4. CASE k \in {"create", "commit"}
          <5>1. dUi' = D!Shows(c)
            BY <3>1, <4>4
          <5>2. dUi'.status = dCall[c].data.status
            BY <4>4, <5>1, ShowsEffect
          <5>3. dCall[c].data.status \in {"CAPTURING", "COMMITTED"}
            BY <2>1, <4>4 DEF AnswerInv, AnswerOf
          <5> QED BY <5>2, <5>3 DEF PlanShown
        <4> QED BY <2>1, <2>3, <4>1, <4>2, <4>3, <4>4 DEF D!Kinds, PlanWriters
      <3>5. CASE dCall[c].alone
        <4>1. OnePlan' /\ \A d \in Requests : SeenPlan(d)' /\ PlanAnswer(d)'
          BY <3>2, <3>5 DEF OnePlan, SeenPlan, PlanAnswer, Under
        <4> QED BY <3>4, <4>1 DEF PlanInv
      <3>6. CASE ~dCall[c].alone
        <4>1. dAstray \subseteq dAstray'
          BY <2>1, <3>6
        <4> QED BY <1>3, <2>1, <3>1, <3>4, <4>1
      <3> QED BY <3>5, <3>6
    <2> QED BY <2>2, <2>3
  <1>17. ASSUME CloseStep PROVE PlanInv'
    <2>1. /\ \A d \in Requests : Kept(d)
          /\ UiClosed /\ PlansKept /\ dAstray \subseteq dAstray'
      BY <1>17, CallKeptKeeps DEF CloseStep, PlansKept
    <2> QED BY <1>3, <1>8, <2>1
  <1>18. ASSUME TypeStep PROVE PlanInv'
    <2>1. /\ \A d \in Requests : Kept(d)
          /\ PlansKept /\ dAstray \subseteq dAstray'
          /\ PlanComes => PlanComes'
      BY <1>18 DEF TypeStep, PlansKept, Kept, PlanComes, Under
    <2>2. ASSUME "plan" \notin dAstray' PROVE PlanShown'
      <3>1. /\ dUi'.session = dUi.session /\ dUi'.status = dUi.status
            /\ dUi'.drafts.of = dUi.drafts.of /\ "plan" \notin dAstray
        BY <1>18, <2>1, <2>2 DEF TypeStep
      <3>2. \/ dUi'.typing = "title"
            \/ dUi.drafts.of > 0
            \/ dUi.typing \in Keys /\ dUi'.plan = dUi.plan
        BY <1>18, <2>2 DEF TypeStep, D!hasDrafts
      <3>3. CASE dUi'.typing = "title" \/ dUi.drafts.of > 0
        BY <3>1, <3>3 DEF PlanShown
      <3>4. CASE dUi.typing \in Keys /\ dUi'.plan = dUi.plan
        BY <1>0, <1>4, <2>1, <3>1, <3>4
      <3> QED BY <3>2, <3>3, <3>4
    <2> QED BY <1>3, <2>1, <2>2
  <1> QED BY <1>6, <1>7, <1>9, <1>11, <1>12, <1>14, <1>15, <1>16, <1>17, <1>18 DEF Step

-----------------------------------------------------------------------------
(* The drafts on the screen, in requests and in the rows *)

DraftWriters == {"draft", "drafts"}

OneDraft ==
    \A c, d \in Requests :
        Under(c) /\ Under(d) /\ {dCall[c].kind, dCall[d].kind} \subseteq D!OnDrafts => c = d

(* Drafts are made where there are none on the screen. *)
NoneYet == (\E c \in Requests : Under(c) /\ dCall[c].kind = "drafts") => dUi.drafts.of = 0

DraftComes ==
    \E c \in Requests :
        /\ Under(c)
        /\ \/ dCall[c].kind = "draft"
           \/ dCall[c].kind = "drafts" /\ dCall[c].at = "done"

DraftsShown ==
    /\ dUi.drafts.of > 0 /\ dUi.session > 0 /\ dRow[dUi.session].drafts.of > 0
    /\ dUi.typing \notin Keys /\ ~dUi.result /\ ~DraftComes
    => dUi.drafts.items = dRow[dUi.session].drafts.items

SeenDrafts(c) ==
    dCall[c].kind = "commit" =>
        /\ dCall[c].at = "sent" /\ dRow[dCall[c].session].drafts.of > 0 =>
              dCall[c].shown = D!Approved(dRow[dCall[c].session].drafts)
        /\ dCall[c].at \in {"read", "marked", "made"} =>
              dCall[c].shown = D!Approved(dCall[c].data.drafts)

DraftAnswer(c) ==
    dCall[c].kind \in DraftWriters /\ dCall[c].at = "done" =>
        dCall[c].data.drafts = dRow[dCall[c].session].drafts

(* Unless they are astray, one request at a time is on the drafts, what is *)
(* committed was asked for by what is stored, and the screen shows it.     *)
DraftInv ==
    /\ "drafts" \notin dAstray =>
          OneDraft /\ NoneYet /\ DraftsShown /\ \A c \in Requests : SeenDrafts(c)
    /\ \A c \in Requests : "drafts" \notin dAstray \/ dCall[c].alone => DraftAnswer(c)

LEMMA DraftStep ==
    ASSUME DialogTypes, SlotInv, AloneInv, AnswerInv, SessInv, CreatedInv, DraftInv,
           SlotInv', DialogTypes', Step
    PROVE  DraftInv'
  <1>0. /\ D!NoCall.at = "none" /\ "title" # NoKey /\ "title" \notin Keys /\ NoKey \notin Keys
        /\ \A d \in Requests : Under(d) /\ ~Creating(d) => dCall[d].session \in D!Ids
        /\ dUi.session > 0 => dUi.session \in D!Ids
        /\ dUi.session = 0 \/ dUi.session > 0
        /\ dUi.drafts.of = 0 \/ dUi.drafts.of > 0
    <2>1. dUi.session \in 0 .. MaxSessions /\ dUi.drafts.of \in Nat
      BY DialogAssumption DEF DialogTypes, Dialogs, D!Drafts, D!Stamps
    <2>2. dUi.session > 0 => dUi.session \in D!Ids
      BY <2>1, DialogAssumption DEF D!Ids
    <2>3. (dUi.session = 0 \/ dUi.session > 0) /\ (dUi.drafts.of = 0 \/ dUi.drafts.of > 0)
      BY <2>1, DialogAssumption
    <2> QED BY <2>2, <2>3, DialogAssumption DEF D!NoCall, SlotInv
  <1>1. ASSUME NEW d \in Requests, Kept(d), DraftsKept
        PROVE  (SeenDrafts(d) => SeenDrafts(d)') /\ (DraftAnswer(d) => DraftAnswer(d)')
    <2>1. CASE ~Under(d)
      BY <1>1, <2>1 DEF Kept, Under, SeenDrafts, DraftAnswer
    <2>2. CASE Under(d)
      <3>1. dCall[d].kind \notin {"create", "orphan"} =>
               dRow'[dCall[d].session].drafts = dRow[dCall[d].session].drafts
        BY <1>0, <1>1, <2>2 DEF DraftsKept, Creating
      <3> QED BY <1>1, <2>2, <3>1 DEF Kept, Under, SeenDrafts, DraftAnswer, DraftWriters
    <2> QED BY <2>1, <2>2
  <1>2. ASSUME NEW d \in Requests, dCall'[d] = D!NoCall
        PROVE  SeenDrafts(d)' /\ DraftAnswer(d)'
    BY <1>0, <1>2 DEF SeenDrafts, DraftAnswer
  (* Requests end, or nothing happens to them. *)
  <1>3. ASSUME \A d \in Requests : Kept(d) \/ dCall'[d] = D!NoCall, DraftsKept,
               dAstray \subseteq dAstray',
               "drafts" \notin dAstray' => DraftsShown' /\ NoneYet'
        PROVE  DraftInv'
    <2>1. \A d \in Requests : Under(d)' =>
             Under(d) /\ (dCall'[d].kind \in D!OnDrafts => dCall[d].kind \in D!OnDrafts)
                      /\ (dCall'[d].alone => dCall[d].alone)
      BY <1>0, <1>3 DEF Kept, Under, D!OnDrafts
    <2>2. ASSUME "drafts" \notin dAstray' PROVE OneDraft' /\ \A d \in Requests : SeenDrafts(d)'
      <3>1. OneDraft /\ \A d \in Requests : SeenDrafts(d)
        BY <1>3, <2>2 DEF DraftInv
      <3> QED BY <1>1, <1>2, <1>3, <2>1, <3>1 DEF OneDraft
    <2>3. ASSUME NEW d \in Requests, "drafts" \notin dAstray' \/ dCall'[d].alone
          PROVE  DraftAnswer(d)'
      <3>1. CASE Under(d)'
        <4>1. DraftAnswer(d) /\ Kept(d)
          BY <1>0, <1>3, <2>1, <2>3, <3>1 DEF DraftInv, Under
        <4> QED BY <1>1, <1>3, <4>1
      <3>2. CASE ~Under(d)'
        BY <3>2 DEF Under, DraftAnswer
      <3> QED BY <3>1, <3>2
    <2> QED BY <1>3, <2>2, <2>3 DEF DraftInv
  (* The screen stays as it was. *)
  <1>4. ASSUME "drafts" \notin dAstray, DraftsKept, dUi'.drafts = dUi.drafts,
               dUi'.session = dUi.session, dUi'.result = dUi.result,
               dUi.typing \in Keys => dUi'.typing \in Keys, DraftComes => DraftComes'
        PROVE  DraftsShown'
    BY <1>0, <1>4 DEF DraftInv, DraftsShown, DraftsKept
  <1>5. ASSUME "drafts" \notin dAstray, dUi'.drafts.of = dUi.drafts.of,
               \A d \in Requests : Under(d)' /\ dCall'[d].kind = "drafts" =>
                                     Under(d) /\ dCall[d].kind = "drafts"
        PROVE  NoneYet'
    BY <1>5 DEF DraftInv, NoneYet
  <1>6. ASSUME \A d \in Requests : Kept(d) \/ dCall'[d] = D!NoCall
        PROVE  \A d \in Requests : Under(d)' /\ dCall'[d].kind = "drafts" =>
                                     Under(d) /\ dCall[d].kind = "drafts"
    BY <1>0, <1>6 DEF Kept, Under
  <1>7. ASSUME NEW c \in Requests, NEW kind \in D!Kinds, NEW s, NEW shown,
               SentAs(c, kind, s, shown), UNCHANGED dRow, dAstray' = dAstray \cup D!Clash(kind),
               "drafts" \notin dAstray' => DraftsShown',
               dUi'.drafts.of = dUi.drafts.of \/ dUi'.drafts.of = 0,
               kind = "drafts" => dUi'.drafts.of = 0,
               /\ "drafts" \notin dAstray' /\ kind = "commit" /\ dRow[s].drafts.of > 0
               => shown = D!Approved(dRow[s].drafts)
        PROVE  DraftInv'
    <2>1. /\ \A d \in Requests \ {c} : Kept(d) /\ (Under(d) => ~dCall'[d].alone)
          /\ \A d \in Requests \ {c} : Under(d)' => Under(d) /\ dCall'[d].kind = dCall[d].kind
          /\ dCall'[c].at = "sent" /\ dCall'[c].kind = kind /\ dCall'[c].session = s
          /\ dCall'[c].shown = shown
          /\ DraftsKept
      BY <1>7, SentKeeps DEF SentAs, DraftsKept, Kept, Under
    <2>2. ASSUME "drafts" \notin dAstray'
          PROVE  OneDraft' /\ NoneYet' /\ \A d \in Requests : SeenDrafts(d)'
      <3>1. "drafts" \notin dAstray /\ "drafts" \notin D!Clash(kind)
        BY <1>7, <2>2
      <3>2. kind \in D!OnDrafts => \A d \in Requests : Under(d) => dCall[d].kind \notin D!OnDrafts
        BY <3>1 DEF D!Clash, D!Parts, D!Others, Under
      <3>3. OneDraft'
        BY <2>1, <3>1, <3>2 DEF DraftInv, OneDraft
      <3>4. SeenDrafts(c)'
        BY <1>7, <2>1, <2>2 DEF SeenDrafts
      <3>5. \A d \in Requests \ {c} : SeenDrafts(d)'
        BY <1>1, <2>1, <3>1 DEF DraftInv
      <3>6. NoneYet'
        BY <1>7, <2>1, <3>1 DEF DraftInv, NoneYet
      <3> QED BY <3>3, <3>4, <3>5, <3>6
    <2>3. ASSUME NEW d \in Requests, "drafts" \notin dAstray' \/ dCall'[d].alone
          PROVE  DraftAnswer(d)'
      <3>1. CASE d = c \/ ~Under(d)'
        BY <2>1, <3>1 DEF DraftAnswer, Under
      <3>2. CASE d # c /\ Under(d)'
        <4>1. "drafts" \notin dAstray
          BY <1>7, <2>1, <2>3, <3>2
        <4> QED BY <1>1, <2>1, <3>2, <4>1 DEF DraftInv
      <3> QED BY <3>1, <3>2
    <2> QED BY <1>7, <2>2, <2>3 DEF DraftInv
  <1>8. ASSUME NEW c \in Requests, NEW kind \in Asked, NEW shown, AskStep(c, kind, shown)
        PROVE  DraftInv'
    <2>1. /\ SentAs(c, kind, dUi.session, shown) /\ UNCHANGED dRow /\ kind \in D!Kinds
          /\ dAstray' = dAstray \cup D!Clash(kind) /\ DraftsKept
          /\ dUi'.drafts = dUi.drafts
      BY <1>8 DEF AskStep, Asked, D!Kinds, DraftsKept
    <2>2. /\ \A d \in Requests \ {c} : Kept(d) /\ (Under(d) => dCall'[d].kind = dCall[d].kind)
          /\ dCall'[c].at = "sent" /\ dCall'[c].kind = kind /\ ~Under(c)
      BY <2>1, SentKeeps DEF SentAs, Under
    <2>3. ASSUME "drafts" \notin dAstray' PROVE DraftsShown'
      <3>1. CASE kind = "draft"
        BY <2>2, <3>1 DEF DraftsShown, DraftComes, Under
      <3>2. CASE kind # "draft"
        <4>1. DraftComes => DraftComes'
          BY <2>2 DEF DraftComes, Kept, Under
        <4>2. dUi'.session = dUi.session /\ dUi'.result = dUi.result
              /\ (dUi'.typing = dUi.typing \/ dUi.typing = "title")
          BY <1>8, <3>2 DEF AskStep
        <4> QED BY <1>0, <1>4, <2>1, <2>3, <4>1, <4>2
      <3> QED BY <3>1, <3>2
    <2>4. ASSUME "drafts" \notin dAstray', kind = "commit", dRow[dUi.session].drafts.of > 0
          PROVE  shown = D!Approved(dRow[dUi.session].drafts)
      <3>1. /\ shown = D!Approved(dUi.drafts) /\ dUi.session > 0
            /\ dUi.typing = NoKey /\ D!canCommit
        BY <1>8, <2>4 DEF AskStep
      <3>2. dUi.drafts.of > 0 /\ ~dUi.result
        BY <3>1 DEF D!canCommit, D!hasDrafts, D!isCommitted
      <3>3. "drafts" \notin dAstray /\ "drafts" \notin D!Clash("commit")
        BY <2>1, <2>4
      <3>4. \A d \in Requests : Under(d) => dCall[d].kind \notin D!OnDrafts
        BY <3>3 DEF D!Clash, D!Parts, D!Others, Under, D!OnDrafts
      <3>5. ~DraftComes
        BY <3>4 DEF DraftComes, D!OnDrafts
      <3>6. dUi.drafts.items = dRow[dUi.session].drafts.items
        BY <1>0, <2>4, <3>1, <3>2, <3>3, <3>5 DEF DraftInv, DraftsShown
      <3> QED BY <3>1, <3>6 DEF D!Approved
    <2>5. kind = "drafts" => dUi'.drafts.of = 0
      BY <1>0, <1>8, <2>1 DEF AskStep, D!hasDrafts
    <2> QED BY <1>7, <2>1, <2>3, <2>4, <2>5
  <1>9. ASSUME NEW c \in Requests, OpenStep(c)
        PROVE  DraftInv'
    <2>1. /\ SentAs(c, "create", 0, {}) /\ UNCHANGED dRow /\ "create" \in D!Kinds
          /\ dAstray' = dAstray \cup D!Clash("create") /\ DraftsKept
          /\ dUi'.drafts = dUi.drafts /\ dUi'.session = dUi.session
          /\ dUi'.result = dUi.result /\ dUi'.typing = dUi.typing
      BY <1>9 DEF OpenStep, D!Kinds, DraftsKept
    <2>2. DraftComes => DraftComes'
      <3>1. /\ \A d \in Requests \ {c} : Kept(d) /\ (Under(d) => dCall'[d].kind = dCall[d].kind)
            /\ ~Under(c)
        BY <2>1, SentKeeps DEF SentAs, Under
      <3> QED BY <3>1 DEF DraftComes, Kept, Under
    <2>3. "drafts" \notin dAstray' => DraftsShown'
      BY <1>4, <2>1, <2>2
    <2> QED BY <1>7, <2>1, <2>3
  <1>10. ASSUME UiClosed PROVE DraftsShown' /\ NoneYet' /\ dUi'.drafts.of = 0
    BY <1>10, Nothing DEF UiClosed, DraftsShown, NoneYet
  <1>11. ASSUME NEW c \in Requests, EscapeStep(c)
         PROVE  DraftInv'
    <2>1. /\ SentAs(c, "escape", dUi.ref, {}) /\ UNCHANGED dRow /\ "escape" \in D!Kinds
          /\ dAstray' = dAstray \cup D!Clash("escape") /\ UiClosed
      BY <1>11 DEF EscapeStep, D!Kinds
    <2> QED BY <1>7, <1>10, <2>1
  (* A request goes on, and does not answer yet. *)
  <1>12. ASSUME NEW c \in Requests, NEW at, GoesOn(c, at), at # "none", Under(c),
                dCall[c].at # "done", UNCHANGED <<dUi, dAstray>>, DraftsKept,
                "drafts" \notin dAstray => SeenDrafts(c)',
                "drafts" \notin dAstray \/ dCall[c].alone => DraftAnswer(c)'
         PROVE  DraftInv'
    <2>1. /\ dCall'[c].at = at /\ dCall'[c].kind = dCall[c].kind
          /\ dCall'[c].alone = dCall[c].alone
          /\ \A d \in Requests \ {c} : dCall'[d] = dCall[d] /\ Kept(d)
      BY <1>12 DEF GoesOn, Kept
    <2>2. DraftComes => DraftComes'
      BY <1>12, <2>1 DEF DraftComes, Under
    <2>3. /\ OneDraft => OneDraft'
          /\ \A d \in Requests : Under(d)' /\ dCall'[d].kind = "drafts" =>
                                     Under(d) /\ dCall[d].kind = "drafts"
      BY <1>12, <2>1 DEF OneDraft, Under
    <2>4. \A d \in Requests \ {c} : (SeenDrafts(d) => SeenDrafts(d)') /\ (DraftAnswer(d) => DraftAnswer(d)')
      BY <1>1, <1>12, <2>1
    <2>5. "drafts" \notin dAstray' => DraftsShown'
      BY <1>4, <1>12, <2>2
    <2>6. ASSUME "drafts" \notin dAstray'
          PROVE  OneDraft' /\ NoneYet' /\ DraftsShown' /\ \A d \in Requests : SeenDrafts(d)'
      BY <1>5, <1>12, <2>3, <2>4, <2>5, <2>6 DEF DraftInv
    <2>7. ASSUME NEW d \in Requests, "drafts" \notin dAstray' \/ dCall'[d].alone
          PROVE  DraftAnswer(d)'
      BY <1>12, <2>1, <2>4, <2>7 DEF DraftInv
    <2> QED BY <2>6, <2>7 DEF DraftInv
  <1>13. ASSUME NEW c \in Requests, CreateStep(c) \/ ReadStep(c) \/ MarkStep(c)
         PROVE  DraftInv'
    <2>1. /\ Under(c) /\ dCall[c].at # "done" /\ UNCHANGED <<dUi, dAstray>>
          /\ \E at \in {"read", "marked", "made", "done"} : GoesOn(c, at)
          /\ \A d \in Requests \ {c} : dCall'[d] = dCall[d]
      BY <1>13 DEF CreateStep, ReadStep, MarkStep, Under, Creating, GoesOn
    <2>2. ~\E d \in Requests : AnswerStep(d)
      <3>1. ~AnswerStep(c)
        BY <1>13 DEF CreateStep, ReadStep, MarkStep, AnswerStep, GoesOn, Creating
      <3>2. ASSUME NEW d \in Requests \ {c}, AnswerStep(d) PROVE FALSE
        BY <2>1, <3>2 DEF AnswerStep, GoesOn
      <3> QED BY <3>1, <3>2
    <2>3. DraftsKept
      BY <2>2, RowsKept
    <2>4. CASE CreateStep(c)
      <3>1. SeenDrafts(c)' /\ DraftAnswer(c)'
        BY <2>4 DEF CreateStep, GoesOn, Creating, SeenDrafts, DraftAnswer, DraftWriters
      <3> QED BY <1>12, <2>1, <2>3, <3>1
    <2>5. CASE ReadStep(c)
      <3>1. DraftAnswer(c)'
        BY <2>5 DEF ReadStep, GoesOn, DraftAnswer, DraftWriters
      <3>2. ASSUME SeenDrafts(c) PROVE SeenDrafts(c)'
        <4> DEFINE r == dRow[dCall[c].session]
        <4>1. CASE dCall[c].kind = "commit" /\ GoesOn(c, "read")
          <5>1. /\ D!Accepts("commit", dCall[c].session) /\ dCall[c].at = "sent"
                /\ dCall'[c].data.drafts = D!Part("commit", r).drafts
            BY <2>5, <4>1 DEF ReadStep, GoesOn
          <5>2. D!Part("commit", r).drafts = r.drafts /\ r.drafts.of > 0
            BY <5>1 DEF D!Part, D!OnDrafts, D!Accepts
          <5> QED BY <3>2, <4>1, <5>1, <5>2 DEF SeenDrafts, GoesOn
        <4>2. CASE dCall[c].kind # "commit" \/ GoesOn(c, "done")
          BY <2>1, <4>2 DEF SeenDrafts, GoesOn
        <4> QED BY <2>5, <4>1, <4>2 DEF ReadStep
      <3>3. "drafts" \notin dAstray => SeenDrafts(c)
        BY DEF DraftInv
      <3> QED BY <1>12, <2>1, <2>3, <3>1, <3>2, <3>3
    <2>6. CASE MarkStep(c)
      <3>1. DraftAnswer(c)'
        BY <2>6 DEF MarkStep, GoesOn, DraftAnswer, DraftWriters
      <3>2. ASSUME SeenDrafts(c) PROVE SeenDrafts(c)'
        BY <2>6, <3>2 DEF MarkStep, GoesOn, SeenDrafts
      <3>3. "drafts" \notin dAstray => SeenDrafts(c)
        BY DEF DraftInv
      <3> QED BY <1>12, <2>1, <2>3, <3>1, <3>2, <3>3
    <2> QED BY <1>13, <2>4, <2>5, <2>6
  <1>14. ASSUME NEW c \in Requests, AnswerStep(c)
         PROVE  DraftInv'
    <2> DEFINE k == dCall[c].kind  s == dCall[c].session
    <2>1. /\ Under(c) /\ dCall[c].at # "done" /\ UNCHANGED <<dUi, dAstray>> /\ GoesOn(c, "done")
          /\ dCall'[c].kind = k /\ dCall'[c].at = "done" /\ dCall'[c].session = s
          /\ dCall'[c].data = D!Part(k, dRow'[s])
          /\ dCall'[c].alone = dCall[c].alone
          /\ \A d \in Requests \ {c} : dCall'[d] = dCall[d]
      BY <1>14 DEF AnswerStep, GoesOn, Under
    <2>2. DraftAnswer(c)'
      BY <2>1 DEF DraftAnswer, DraftWriters, D!Part, D!OnDrafts
    <2>3. SeenDrafts(c)'
      BY <2>1 DEF SeenDrafts
    <2>4. CASE k \notin DraftWriters
      <3>1. DraftsKept
        BY <1>14, <2>4, AnswerRows DEF DraftWriters
      <3> QED BY <1>12, <2>1, <2>2, <2>3, <3>1
    <2>5. CASE k \in DraftWriters
      <3>1. ASSUME "drafts" \notin dAstray' PROVE DraftsShown' /\ NoneYet'
        <4>1. DraftsShown'
          BY <2>1, <2>5 DEF DraftsShown, DraftComes, DraftWriters, Under
        <4>2. NoneYet'
          BY <1>5, <2>1, <3>1 DEF Under
        <4> QED BY <4>1, <4>2
      <3>2. ASSUME "drafts" \notin dAstray'
            PROVE  OneDraft' /\ \A d \in Requests : SeenDrafts(d)' /\ DraftAnswer(d)'
        <4>1. OneDraft /\ "drafts" \notin dAstray
          BY <2>1, <3>2 DEF DraftInv
        <4>2. \A d \in Requests \ {c} : Under(d) => dCall[d].kind \notin D!OnDrafts
          BY <2>1, <2>5, <4>1 DEF OneDraft, DraftWriters, D!OnDrafts
        <4>3. \A d \in Requests \ {c} : SeenDrafts(d)' /\ DraftAnswer(d)'
          BY <2>1, <4>2 DEF SeenDrafts, DraftAnswer, DraftWriters, D!OnDrafts, Under
        <4>4. OneDraft'
          BY <2>1, <4>1 DEF OneDraft, Under
        <4> QED BY <2>2, <2>3, <4>3, <4>4
      <3>3. ASSUME NEW d \in Requests, dCall'[d].alone PROVE DraftAnswer(d)'
        <4>1. CASE d = c
          BY <2>2, <4>1
        <4>2. CASE d # c
          <5>1. ~Under(d)
            BY <2>1, <3>3, <4>2 DEF AloneInv
          <5> QED BY <2>1, <4>2, <5>1 DEF Under, DraftAnswer
        <4> QED BY <4>1, <4>2
      <3> QED BY <3>1, <3>2, <3>3 DEF DraftInv
    <2> QED BY <2>4, <2>5
  <1>15. ASSUME NEW cs \in SUBSET Requests, FailStep(cs), DraftsKept, dAstray \subseteq dAstray',
                \A c \in cs : dCall[c].kind = "draft" => "drafts" \in dAstray'
         PROVE  DraftInv'
    <2>1. /\ \A d \in cs : dCall'[d] = D!NoCall
          /\ \A d \in Requests \ cs : Kept(d)
          /\ UiKept \/ UiClosed
      BY <1>15, FailKeeps DEF FailStep
    <2>2. ASSUME "drafts" \notin dAstray' PROVE DraftsShown' /\ NoneYet'
      <3>1. CASE UiClosed
        BY <1>10, <3>1
      <3>2. CASE UiKept
        <4>1. NoneYet'
          BY <1>5, <1>6, <1>15, <2>1, <2>2, <3>2 DEF UiKept
        <4>2. CASE \E d \in Requests : Under(d) /\ dCall[d].kind = "drafts"
          <5>1. dUi'.drafts.of = 0
            BY <1>15, <2>2, <3>2, <4>2 DEF DraftInv, NoneYet, UiKept
          <5> QED BY <4>1, <5>1 DEF DraftsShown
        <4>3. CASE ~\E d \in Requests : Under(d) /\ dCall[d].kind = "drafts"
          <5>1. ASSUME DraftComes PROVE DraftComes'
            <6>1. PICK d \in Requests : Under(d) /\ dCall[d].kind = "draft"
              BY <4>3, <5>1 DEF DraftComes
            <6>2. d \notin cs
              BY <1>15, <2>2, <6>1
            <6> QED BY <2>1, <6>1, <6>2 DEF Kept, Under, DraftComes
          <5> QED BY <1>4, <1>15, <2>2, <3>2, <4>1, <5>1 DEF UiKept
        <4> QED BY <4>2, <4>3
      <3> QED BY <2>1, <3>1, <3>2
    <2> QED BY <1>3, <1>15, <2>1, <2>2
  <1>16. ASSUME NEW c \in Requests, RefuseStep(c) \/ GiveUpStep(c) \/ ReopenStep(c)
         PROVE  DraftInv'
    <2>1. FailStep({c}) /\ dAstray \subseteq dAstray' /\ UNCHANGED dMade
      BY <1>16 DEF RefuseStep, GiveUpStep, ReopenStep, FailStep
    <2>2. DraftsKept
      <3>1. dCall[c].session \in D!Ids
        BY <1>16 DEF RefuseStep, GiveUpStep, ReopenStep, SlotInv, Under, Creating
      <3>2. UNCHANGED dRow \/ \E status \in D!Statuses : StatusOf(dCall[c].session, status)
        BY <1>16 DEF RefuseStep, GiveUpStep, ReopenStep, D!Statuses
      <3> QED BY <3>1, <3>2, StatusKeeps DEF DraftsKept
    <2>3. dCall[c].kind = "draft" => "drafts" \in dAstray'
      BY <1>16 DEF RefuseStep, GiveUpStep, ReopenStep, D!Lost, D!Over
    <2> QED BY <1>15, <2>1, <2>2, <2>3
  <1>17. ASSUME NEW cs \in SUBSET Requests, LoseStep(cs)
         PROVE  DraftInv'
    <2>1. \A c \in cs : dCall[c].kind = "draft" => "drafts" \in dAstray'
      BY <1>17 DEF LoseStep, D!Lost
    <2> QED BY <1>15, <1>17, <2>1 DEF LoseStep, DraftsKept
  <1>18. ASSUME NEW c \in Requests, LandStep(c)
         PROVE  DraftInv'
    <2> DEFINE k == dCall[c].kind  s == dCall[c].session
    <2>1. /\ dCall[c].at = "done" /\ Under(c) /\ UNCHANGED dRow /\ DraftsKept
          /\ dAstray' = (IF dCall[c].alone THEN dAstray \ D!Mends(c) ELSE dAstray) \cup D!Mixes(c)
          /\ s \in D!Ids /\ k \in D!Kinds
      BY <1>18 DEF LandStep, Under, DraftsKept, SlotInv, Creating, DialogTypes, CallRecords
    <2>2. CASE k = "abandon"
      <3>1. FailStep({c}) /\ dAstray \subseteq dAstray'
        BY <1>18, <2>1, <2>2 DEF LandStep, D!Mends
      <3> QED BY <1>15, <2>1, <2>2, <3>1
    <2>3. CASE k # "abandon"
      <3>1. /\ dCall'[c] = D!NoCall /\ \A d \in Requests \ {c} : dCall'[d] = dCall[d] /\ Kept(d)
            /\ IF k \in {"orphan", "escape"} THEN dUi' = dUi ELSE dUi' = D!Shows(c)
        BY <1>18, <2>3 DEF LandStep, Kept
      <3>2. ASSUME dCall[c].alone PROVE \A d \in Requests : ~Under(d)'
        BY <1>0, <2>1, <3>1, <3>2 DEF AloneInv, Under
      <3>3. ASSUME "drafts" \notin dAstray'
            PROVE  \/ "drafts" \notin dAstray
                   \/ dCall[c].alone /\ k \in {"analyze", "clarify"} \cup DraftWriters
        BY <2>1, <3>3 DEF D!Mends, DraftWriters
      <3>4. \A d \in Requests : Under(d)' /\ dCall'[d].kind = "drafts" =>
                                     Under(d) /\ dCall[d].kind = "drafts"
        BY <1>6, <3>1
      <3>5. ASSUME "drafts" \notin dAstray' PROVE DraftsShown' /\ NoneYet'
        <4>1. CASE k \in {"orphan", "escape"}
          <5>1. dUi' = dUi /\ "drafts" \notin dAstray
            BY <3>1, <3>3, <3>5, <4>1 DEF DraftWriters
          <5>2. DraftComes => DraftComes'
            BY <3>1, <4>1 DEF DraftComes, Under
          <5> QED BY <1>4, <1>5, <2>1, <3>4, <5>1, <5>2
        <4>2. CASE k \in {"analyze", "clarify"}
          <5>1. dUi' = D!Shows(c)
            BY <3>1, <4>2
          <5>2. dUi'.drafts = D!NotDrafted
            BY <4>2, <5>1, ShowsEffect
          <5> QED BY <5>2, Nothing DEF DraftsShown, NoneYet
        <4>3. CASE k \in DraftWriters
          <5>1. dUi' = D!Shows(c)
            BY <3>1, <4>3 DEF DraftWriters
          <5>2. dUi'.drafts = dCall[c].data.drafts /\ dUi'.session = s
            BY <4>3, <5>1, ShowsEffect DEF DraftWriters
          <5>3. DraftAnswer(c)
            BY <3>3, <3>5 DEF DraftInv
          <5>4. DraftsShown'
            BY <2>1, <4>3, <5>2, <5>3 DEF DraftsShown, DraftAnswer
          <5>5. \A d \in Requests : Under(d)' => dCall'[d].kind # "drafts"
            <6>1. CASE dCall[c].alone
              BY <3>2, <6>1
            <6>2. CASE ~dCall[c].alone
              <7>1. OneDraft
                BY <3>3, <3>5, <6>2 DEF DraftInv
              <7> QED BY <1>0, <2>1, <3>1, <4>3, <7>1 DEF OneDraft, DraftWriters, D!OnDrafts, Under
            <6> QED BY <6>1, <6>2
          <5>6. NoneYet'
            BY <5>5 DEF NoneYet
          <5> QED BY <5>4, <5>6
        <4>4. CASE k \in {"create", "commit", "plan"}
          <5>1. dUi' = D!Shows(c)
            BY <3>1, <4>4
          <5>2. /\ dUi'.session = s /\ dUi'.drafts = dUi.drafts /\ dUi'.typing = dUi.typing
                /\ dUi'.result = (dUi.result \/ k = "commit")
            BY <4>4, <5>1, ShowsEffect
          <5>3. "drafts" \notin dAstray
            BY <3>3, <3>5, <4>4 DEF DraftWriters
          <5>4. NoneYet'
            BY <1>5, <3>4, <5>2, <5>3
          <5>5. CASE k = "create"
            <6>1. dRow[s].drafts.of = 0
              BY <2>1, <5>5 DEF CreatedInv
            <6> QED BY <2>1, <5>2, <5>4, <6>1 DEF DraftsShown
          <5>6. CASE k = "commit"
            BY <5>2, <5>4, <5>6 DEF DraftsShown
          <5>7. CASE k = "plan"
            <6>1. dUi.session \in {0, s}
              BY <2>1, <3>5, <5>7 DEF D!Mixes
            <6>2. CASE dUi.session = 0
              <7>1. dUi'.drafts.of = 0
                BY <5>2, <6>2 DEF SessInv
              <7> QED BY <5>4, <7>1 DEF DraftsShown
            <6>3. CASE dUi.session = s
              <7>1. DraftComes => DraftComes'
                BY <3>1, <5>7 DEF DraftComes, Under
              <7>2. dUi'.drafts = dUi.drafts /\ dUi'.session = dUi.session /\ dUi'.typing = dUi.typing
                BY <5>2, <6>3
              <7>3. dUi'.result = dUi.result
                <8>1. dUi.result \in BOOLEAN
                  BY DEF DialogTypes, Dialogs
                <8> QED BY <5>2, <5>7, <8>1
              <7>4. DraftsShown'
                BY <1>4, <2>1, <3>1, <5>3, <7>1, <7>2, <7>3
              <7> QED BY <5>4, <7>4
            <6> QED BY <6>1, <6>2, <6>3
          <5> QED BY <4>4, <5>5, <5>6, <5>7
        <4> QED BY <2>1, <2>3, <4>1, <4>2, <4>3, <4>4 DEF D!Kinds, DraftWriters
      <3>6. CASE dCall[c].alone
        <4>1. OneDraft' /\ \A d \in Requests : SeenDrafts(d)' /\ DraftAnswer(d)'
          BY <3>2, <3>6 DEF OneDraft, SeenDrafts, DraftAnswer, Under
        <4> QED BY <3>5, <4>1 DEF DraftInv
      <3>7. CASE ~dCall[c].alone
        <4>1. dAstray \subseteq dAstray'
          BY <2>1, <3>7
        <4> QED BY <1>3, <2>1, <3>1, <3>5, <4>1
      <3> QED BY <3>6, <3>7
    <2> QED BY <2>2, <2>3
  <1>19. ASSUME CloseStep PROVE DraftInv'
    <2>1. /\ \A d \in Requests : Kept(d)
          /\ UiClosed /\ DraftsKept /\ dAstray \subseteq dAstray'
      BY <1>19, CallKeptKeeps DEF CloseStep, DraftsKept
    <2> QED BY <1>3, <1>10, <2>1
  <1>20. ASSUME TypeStep PROVE DraftInv'
    <2>1. /\ \A d \in Requests : Kept(d)
          /\ DraftsKept /\ dAstray \subseteq dAstray'
          /\ DraftComes => DraftComes'
          /\ dUi'.drafts.of = dUi.drafts.of
          /\ dUi'.session = dUi.session /\ dUi'.result = dUi.result
      BY <1>20 DEF TypeStep, DraftsKept, Kept, DraftComes, Under
    <2>2. ASSUME "drafts" \notin dAstray' PROVE DraftsShown' /\ NoneYet'
      <3>1. NoneYet'
        BY <1>5, <1>6, <2>1, <2>2
      <3>2. \/ dUi'.typing \in Keys
            \/ dUi'.drafts = dUi.drafts /\ dUi.typing \notin Keys
            \/ D!isCommitted \/ dUi.session = 0
        BY <1>0, <1>20 DEF TypeStep
      <3>3. CASE dUi'.typing \in Keys
        BY <3>1, <3>3 DEF DraftsShown
      <3>4. CASE dUi'.drafts = dUi.drafts /\ dUi.typing \notin Keys
        BY <1>4, <2>1, <2>2, <3>1, <3>4
      <3>5. CASE D!isCommitted \/ dUi.session = 0
        <4>1. dUi.result \/ dUi.session = 0
          BY <3>5 DEF D!isCommitted, SessInv
        <4> QED BY <2>1, <3>1, <4>1 DEF DraftsShown
      <3> QED BY <3>2, <3>3, <3>4, <3>5
    <2> QED BY <1>3, <2>1, <2>2
  <1> QED BY <1>8, <1>9, <1>11, <1>13, <1>14, <1>16, <1>17, <1>18, <1>19, <1>20 DEF Step

-----------------------------------------------------------------------------
(* The end of a session and of its dialog *)

Bounding == D!Ending \cup {"create", "orphan"}

SoleEnd ==
    \A c, d \in Requests : Under(c) /\ Under(d) /\ dCall[c].kind \in Bounding => c = d

EndOf(c) ==
    LET s == dCall[c].session  k == dCall[c].kind IN
    Under(c) =>
        /\ k # "orphan"
        /\ k = "create" => dUi.open /\ dUi.session = 0
        /\ k = "escape" => ~dUi.open
        /\ k \notin {"create", "escape"} => dUi.open /\ s = dUi.ref
        /\ k = "commit" /\ dCall[c].at = "done" => dRow[s].status = "COMMITTED"
        /\ k \in D!Leaving /\ dCall[c].at = "done" => dRow[s].status = "ABANDONED"

DialogEnd ==
    /\ dUi.session = dUi.ref
    /\ dUi.open /\ dUi.ref = 0 => \E c \in Requests : Under(c) /\ dCall[c].kind = "create"
    /\ dUi.open /\ dUi.result =>
          /\ dUi.ref > 0 /\ dRow[dUi.ref].status = "COMMITTED"
          /\ \A c \in Requests : dCall[c].at \in {"none", "sent", "done"}
    /\ ~dUi.open => dUi.session = 0 /\ ~dUi.result

(* A session is over, in the dialog, or a request for its begin or its end *)
(* is under way.                                                           *)
Comes(c, s) ==
    /\ dCall[c].session = s
    /\ \/ dCall[c].kind = "create" /\ dCall[c].at = "done"
       \/ dCall[c].kind = "escape" /\ dCall[c].at \in {"sent", "read"}

Held(s) ==
    \/ dRow[s].status \in {"ABANDONED", "COMMITTED"}
    \/ dUi.open /\ dUi.ref = s
    \/ \E c \in Requests : Comes(c, s)

EndInv ==
    "end" \notin dAstray =>
        /\ SoleEnd /\ \A c \in Requests : EndOf(c)
        /\ DialogEnd /\ \A s \in 1 .. dMade : Held(s)

(* The end never comes into step again. *)
LEMMA EndStays ==
    ASSUME Step, "end" \notin dAstray'
    PROVE  "end" \notin dAstray
  BY DEF Step, AskStep, OpenStep, EscapeStep, CloseStep, TypeStep, CreateStep, ReadStep, MarkStep,
         AnswerStep, RefuseStep, GiveUpStep, ReopenStep, LoseStep, LandStep, D!Mends

LEMMA EndStep ==
    ASSUME DialogTypes, SlotInv, SessInv, EndInv, SlotInv', DialogTypes', Step
    PROVE  EndInv'
  <1> SUFFICES ASSUME "end" \notin dAstray'
               PROVE  /\ SoleEnd' /\ \A c \in Requests : EndOf(c)'
                      /\ DialogEnd' /\ \A s \in 1 .. dMade' : Held(s)'
    BY DEF EndInv
  <1>0. /\ SoleEnd /\ DialogEnd /\ "end" \notin dAstray
        /\ \A c \in Requests : EndOf(c)
        /\ \A s \in 1 .. dMade : Held(s)
    BY EndStays DEF EndInv
  <1>1. /\ D!NoCall.at = "none"
        /\ \A d \in Requests : dCall'[d] = D!NoCall => ~Under(d)'
        /\ \A d \in Requests : Under(d) /\ ~Creating(d) => dCall[d].session \in D!Ids
        /\ \A d \in Requests : Under(d) => dCall[d].kind \in D!Kinds
        /\ dMade \in Nat /\ dMade' \in Nat /\ dUi.session \in Nat /\ dUi.ref \in Nat
        /\ dUi.session <= dMade /\ dUi.ref <= dMade
        /\ dUi.open \in BOOLEAN /\ dUi.result \in BOOLEAN
    BY DialogAssumption DEF D!NoCall, DialogTypes, SlotInv, Dialogs, CallRecords, Under
  <1>2. /\ \A s \in 1 .. dMade : s \in D!Ids
        /\ \A s \in 1 .. dMade' : s \in D!Ids
        /\ \A s \in D!Ids : s > 0
    <2>1. /\ Cardinality(D!Creates) \in Nat /\ dMade + Cardinality(D!Creates) <= MaxSessions
          /\ (Cardinality(D!Creates) \in Nat)' /\ (dMade + Cardinality(D!Creates) <= MaxSessions)'
      BY FS_CardinalityType DEF SlotInv
    <2> QED BY <1>1, <2>1, DialogAssumption DEF D!Ids
  (* What a request with a bound of a session finds: nothing else. *)
  <1>3. ASSUME NEW c \in Requests, Under(c), dCall[c].kind \in Bounding
        PROVE  \A d \in Requests \ {c} : ~Under(d)
    BY <1>0, <1>3 DEF SoleEnd
  <1>4. ASSUME NEW c \in Requests, Under(c), NEW d \in Requests \ {c}, Under(d)
        PROVE  dCall[d].kind \notin Bounding
    BY <1>0, <1>4 DEF SoleEnd
  (* A handler at work shows that the dialog has no result. *)
  <1>5. ASSUME NEW c \in Requests, dCall[c].at \in {"read", "marked", "made"}
        PROVE  ~(dUi.open /\ dUi.result)
    BY <1>0, <1>5 DEF DialogEnd
  (* No further request, and none changes its kind. *)
  <1>6. ASSUME \A d \in Requests : Under(d)' => Under(d) /\ dCall'[d].kind = dCall[d].kind
        PROVE  SoleEnd'
    BY <1>0, <1>6 DEF SoleEnd
  (* A request on the session of the dialog. *)
  <1>7. ASSUME NEW c \in Requests, Under(c), dCall[c].kind \notin {"create", "escape"}
        PROVE  /\ dUi.open /\ dUi.session = dUi.ref /\ dUi.ref = dCall[c].session
               /\ dUi.ref \in D!Ids /\ dUi.ref > 0
    <2>1. dUi.open /\ dUi.session = dUi.ref /\ dUi.ref = dCall[c].session /\ ~Creating(c)
      BY <1>0, <1>7 DEF EndOf, DialogEnd, Creating
    <2> QED BY <1>1, <1>2, <1>7, <2>1
  (* Sessions are held as before but for one. *)
  <1>8. ASSUME NEW t, dMade' = dMade, dUi'.open = dUi.open, dUi'.ref = dUi.ref,
               \A q \in D!Ids \ {t} : dRow'[q] = dRow[q],
               t \in D!Ids => \/ dRow'[t].status \in {"ABANDONED", "COMMITTED"}
                              \/ dUi.open /\ dUi.ref = t,
               \A c \in Requests, q \in D!Ids \ {t} : Comes(c, q) => Comes(c, q)'
        PROVE  \A s \in 1 .. dMade' : Held(s)'
    BY <1>0, <1>2, <1>8 DEF Held
  <1>9. ASSUME NEW c \in Requests, NEW kind \in Asked, NEW shown, AskStep(c, kind, shown)
        PROVE  /\ SoleEnd' /\ \A d \in Requests : EndOf(d)'
               /\ DialogEnd' /\ \A s \in 1 .. dMade' : Held(s)'
    <2>1. /\ SentAs(c, kind, dUi.session, shown) /\ dUi.open /\ dUi.session > 0
          /\ UNCHANGED <<dRow, dMade>> /\ "end" \notin D!Clash(kind)
          /\ dUi'.open /\ dUi'.session = dUi.session /\ dUi'.ref = dUi.ref
          /\ dUi'.result = dUi.result /\ kind \notin {"create", "orphan", "escape"}
      BY <1>9 DEF AskStep, Asked
    <2>2. /\ \A d \in Requests \ {c} : Kept(d)
          /\ \A d \in Requests \ {c} : ~Under(d) => ~Under(d)'
          /\ \A d \in Requests \ {c} : Under(d) => dCall'[d].kind = dCall[d].kind
          /\ dCall'[c].at = "sent" /\ dCall'[c].kind = kind /\ ~Under(c)
          /\ dCall'[c].session = dUi.session
      BY <1>1, <2>1, SentKeeps DEF SentAs, Under
    <2>3. \A d \in Requests : Under(d) => dCall[d].kind \notin Bounding /\ kind \notin D!Ending
      <3>1. \A d \in Requests : Under(d) => dCall[d].kind \notin D!Ending /\ kind \notin D!Ending
        BY <2>1 DEF D!Clash, D!Parts, D!Others, Under
      <3>2. \A d \in Requests : Under(d) => dCall[d].kind \notin {"create", "orphan"}
        BY <1>0, <2>1 DEF EndOf
      <3> QED BY <3>1, <3>2 DEF Bounding
    <2>4. SoleEnd'
      BY <2>1, <2>2, <2>3 DEF SoleEnd, Under, Bounding
    <2>5. ASSUME NEW d \in Requests PROVE EndOf(d)'
      <3>1. CASE d = c
        BY <1>0, <2>1, <2>2, <3>1 DEF EndOf, DialogEnd
      <3>2. CASE d # c /\ Under(d)
        <4>1. dCall[d].kind \notin Bounding /\ dCall'[d].kind = dCall[d].kind
              /\ dCall'[d].session = dCall[d].session
          BY <2>2, <2>3, <3>2 DEF Kept
        <4> QED BY <1>7, <2>1, <3>2, <4>1 DEF EndOf, Bounding, D!Ending, D!Leaving
      <3>3. CASE d # c /\ ~Under(d)
        BY <2>2, <3>3 DEF EndOf
      <3> QED BY <3>1, <3>2, <3>3
    <2>6. DialogEnd'
      BY <1>0, <1>1, <2>1, <2>2 DEF DialogEnd, Kept, Under
    <2>7. \A s \in 1 .. dMade' : Held(s)'
      <3>1. \A d \in Requests : Under(d) => \A q : Comes(d, q) => Comes(d, q)'
        BY <2>2 DEF Comes, Kept
      <3>2. \A d \in Requests : ~Under(d) => \A q : ~Comes(d, q)
        BY DEF Comes, Under
      <3> QED BY <1>0, <2>1, <3>1, <3>2 DEF Held
    <2> QED BY <2>4, <2>5, <2>6, <2>7
  <1>10. ASSUME NEW c \in Requests, OpenStep(c)
         PROVE  /\ SoleEnd' /\ \A d \in Requests : EndOf(d)'
                /\ DialogEnd' /\ \A s \in 1 .. dMade' : Held(s)'
    <2>1. /\ SentAs(c, "create", 0, {}) /\ ~dUi.open /\ dUi'.open
          /\ UNCHANGED <<dRow, dMade>> /\ "end" \notin D!Clash("create")
          /\ dUi'.session = dUi.session /\ dUi'.ref = dUi.ref /\ dUi'.result = dUi.result
      BY <1>10 DEF OpenStep
    <2>2. \A d \in Requests : ~Under(d)
      <3>1. \A d \in Requests : Under(d) => dCall[d].kind = "escape"
        BY <1>0, <2>1 DEF EndOf
      <3>2. \A d \in Requests : Under(d) => dCall[d].kind \notin D!Ending
        BY <2>1 DEF D!Clash, D!Parts, D!Others, Under
      <3> QED BY <3>1, <3>2 DEF D!Ending, D!Leaving
    <2>3. /\ \A d \in Requests \ {c} : ~Under(d)'
          /\ Under(c)' /\ dCall'[c].kind = "create" /\ dCall'[c].at = "sent"
      BY <1>1, <2>1, <2>2 DEF SentAs, Under
    <2>4. /\ dUi'.session = 0 /\ dUi'.ref = 0 /\ ~dUi'.result
      BY <1>0, <2>1 DEF DialogEnd
    <2>5. \A s \in 1 .. dMade' : Held(s)'
      BY <1>0, <2>1, <2>2 DEF Held, Comes, Under
    <2> QED BY <2>1, <2>3, <2>4, <2>5 DEF SoleEnd, EndOf, DialogEnd, D!Leaving
  <1>11. ASSUME NEW c \in Requests, EscapeStep(c)
         PROVE  /\ SoleEnd' /\ \A d \in Requests : EndOf(d)'
                /\ DialogEnd' /\ \A s \in 1 .. dMade' : Held(s)'
    <2>1. /\ SentAs(c, "escape", dUi.ref, {}) /\ dUi.open
          /\ UNCHANGED <<dRow, dMade>> /\ "end" \notin D!Clash("escape")
          /\ ~dUi'.open /\ dUi'.session = 0 /\ dUi'.ref = 0 /\ ~dUi'.result
      BY <1>11 DEF EscapeStep, UiClosed
    <2>2. \A d \in Requests : ~Under(d)
      BY <2>1 DEF D!Clash, D!Parts, D!Others, Under, D!Ending, D!Leaving
    <2>3. /\ \A d \in Requests \ {c} : ~Under(d)'
          /\ Under(c)' /\ dCall'[c].kind = "escape" /\ dCall'[c].at = "sent"
          /\ dCall'[c].session = dUi.ref
      BY <1>1, <2>1, <2>2 DEF SentAs, Under
    <2>4. \A s \in 1 .. dMade' : Held(s)'
      BY <1>0, <2>1, <2>2, <2>3 DEF Held, Comes, Under
    <2> QED BY <2>1, <2>3, <2>4 DEF SoleEnd, EndOf, DialogEnd
  <1>12. ASSUME CloseStep
         PROVE  /\ SoleEnd' /\ \A d \in Requests : EndOf(d)'
                /\ DialogEnd' /\ \A s \in 1 .. dMade' : Held(s)'
    <2>1. /\ dUi.open /\ (dUi.session = 0 \/ dUi.ref = 0 \/ D!isCommitted)
          /\ UNCHANGED <<dRow, dMade>> /\ D!Quiet
          /\ ~dUi'.open /\ dUi'.session = 0 /\ dUi'.ref = 0 /\ ~dUi'.result
          /\ \A d \in Requests : dCall'[d] = dCall[d]
      BY <1>12 DEF CloseStep, UiClosed
    <2>2. \A d \in Requests : ~Under(d) /\ ~Under(d)'
      BY <2>1 DEF D!Quiet, Under
    <2>3. dUi.ref > 0 /\ dUi.session > 0
      BY <1>0, <1>1, <2>1, <2>2 DEF DialogEnd
    <2>4. dUi.result
      BY <2>1, <2>3 DEF D!isCommitted, SessInv
    <2>5. dRow[dUi.ref].status = "COMMITTED"
      BY <1>0, <2>1, <2>4 DEF DialogEnd
    <2>6. \A s \in 1 .. dMade' : Held(s)'
      BY <1>0, <2>1, <2>2, <2>5 DEF Held, Comes, Under
    <2> QED BY <2>1, <2>2, <2>6 DEF SoleEnd, EndOf, DialogEnd
  <1>13. ASSUME TypeStep
         PROVE  /\ SoleEnd' /\ \A d \in Requests : EndOf(d)'
                /\ DialogEnd' /\ \A s \in 1 .. dMade' : Held(s)'
    <2>1. /\ UNCHANGED <<dRow, dCall, dMade>> /\ dUi.open /\ dUi'.open
          /\ dUi'.session = dUi.session /\ dUi'.ref = dUi.ref /\ dUi'.result = dUi.result
      BY <1>13 DEF TypeStep
    <2> QED BY <1>0, <2>1 DEF SoleEnd, EndOf, DialogEnd, Held, Comes, Under
  <1>14. ASSUME NEW c \in Requests, CreateStep(c)
         PROVE  /\ SoleEnd' /\ \A d \in Requests : EndOf(d)'
                /\ DialogEnd' /\ \A s \in 1 .. dMade' : Held(s)'
    <2>1. /\ Creating(c) /\ Under(c) /\ GoesOn(c, "done") /\ dCall'[c].session = dMade + 1
          /\ dMade' = dMade + 1 /\ UNCHANGED dUi
          /\ dRow' = [dRow EXCEPT ![dMade + 1] = [@ EXCEPT !.status = "CAPTURING"]]
      BY <1>14 DEF CreateStep, Creating, Under
    <2>2. dCall[c].kind = "create" /\ dUi.open /\ dUi.session = 0
      BY <1>0, <2>1 DEF EndOf, Creating
    <2>3. /\ dUi.ref = 0 /\ ~dUi.result
      BY <1>0, <2>2 DEF DialogEnd
    <2>4. \A d \in Requests \ {c} : ~Under(d) /\ ~Under(d)'
      BY <1>3, <2>1, <2>2 DEF Bounding, GoesOn, Under
    <2>5. Under(c)' /\ dCall'[c].kind = "create" /\ dCall'[c].at = "done"
      BY <2>1, <2>2 DEF GoesOn, Under
    <2>6. ASSUME NEW s \in 1 .. dMade' PROVE Held(s)'
      <3>1. CASE s = dMade + 1
        BY <2>1, <2>5, <3>1 DEF Held, Comes
      <3>2. CASE s # dMade + 1
        <4>1. s \in 1 .. dMade /\ s > 0
          BY <1>1, <2>1, <2>6, <3>2
        <4>2. dRow'[s] = dRow[s]
          BY <1>2, <2>1, <3>2, <4>1 DEF DialogTypes
        <4>3. dRow[s].status \in {"ABANDONED", "COMMITTED"}
          BY <1>0, <2>1, <2>3, <2>4, <4>1 DEF Held, Comes, Creating, Under
        <4> QED BY <4>2, <4>3 DEF Held
      <3> QED BY <3>1, <3>2
    <2> QED BY <1>0, <2>1, <2>2, <2>3, <2>4, <2>5, <2>6
            DEF SoleEnd, EndOf, DialogEnd, D!Leaving
  <1>15. ASSUME NEW c \in Requests, ReadStep(c)
         PROVE  /\ SoleEnd' /\ \A d \in Requests : EndOf(d)'
                /\ DialogEnd' /\ \A s \in 1 .. dMade' : Held(s)'
    <2>1. /\ dCall[c].at = "sent" /\ Under(c) /\ dCall'[c].session = dCall[c].session
          /\ dCall[c].kind # "create"
          /\ UNCHANGED <<dUi, dRow, dMade>>
          /\ \/ D!Accepts(dCall[c].kind, dCall[c].session) /\ GoesOn(c, "read")
             \/ dCall[c].kind = "commit" /\ GoesOn(c, "done")
                /\ dRow[dCall[c].session].status = "COMMITTED"
      BY <1>15 DEF ReadStep, Under, Creating
    <2>2. /\ dCall'[c].kind = dCall[c].kind /\ dCall'[c].at \in {"read", "done"} /\ Under(c)'
          /\ \A d \in Requests \ {c} : dCall'[d] = dCall[d]
      BY <2>1 DEF GoesOn, Under
    <2>3. SoleEnd'
      BY <1>6, <2>1, <2>2 DEF Under
    <2>4. ASSUME NEW d \in Requests PROVE EndOf(d)'
      <3>1. CASE d # c
        BY <1>0, <2>1, <2>2, <3>1 DEF EndOf, Under
      <3>2. CASE d = c
        BY <1>0, <2>1, <2>2, <3>2 DEF EndOf, GoesOn, D!Leaving
      <3> QED BY <3>1, <3>2
    <2>5. DialogEnd'
      <3>1. CASE dUi.open /\ dUi.result
        <4>1. dRow[dUi.ref].status = "COMMITTED"
          BY <1>0, <3>1 DEF DialogEnd
        <4>2. dCall[c].session = dUi.ref
          BY <1>0, <2>1, <3>1 DEF EndOf
        <4>3. ~D!Accepts(dCall[c].kind, dCall[c].session)
          BY <4>1, <4>2 DEF D!Accepts, D!Locked
        <4>4. dCall'[c].at = "done"
          BY <2>1, <4>3 DEF GoesOn
        <4> QED BY <1>0, <2>1, <2>2, <4>4 DEF DialogEnd, Under
      <3>2. CASE ~(dUi.open /\ dUi.result)
        BY <1>0, <2>1, <2>2, <3>2 DEF DialogEnd, Under
      <3> QED BY <3>1, <3>2
    <2>6. \A d \in Requests : \A q : Comes(d, q) => Comes(d, q)'
      BY <2>1, <2>2 DEF Comes, GoesOn
    <2>7. \A s \in 1 .. dMade' : Held(s)'
      BY <1>0, <2>1, <2>6 DEF Held
    <2> QED BY <2>3, <2>4, <2>5, <2>7
  (* The dialog's session changes its status while a handler is at work. *)
  <1>16. ASSUME NEW c \in Requests, Under(c), dCall[c].at \in {"read", "marked", "made"},
                dCall[c].kind \notin {"create", "orphan", "escape"},
                dCall'[c].session = dCall[c].session \/ ~Under(c)',
                dCall'[c].kind = dCall[c].kind \/ ~Under(c)',
                \A d \in Requests \ {c} : dCall'[d] = dCall[d],
                \A q \in D!Ids \ {dCall[c].session} : dRow'[q] = dRow[q],
                UNCHANGED dMade, dUi'.open = dUi.open, dUi'.session = dUi.session,
                dUi'.ref = dUi.ref, dUi'.result = dUi.result,
                /\ Under(c)' /\ dCall'[c].at = "done" =>
                      /\ dCall[c].kind = "commit" => dRow'[dCall[c].session].status = "COMMITTED"
                      /\ dCall[c].kind = "abandon" => dRow'[dCall[c].session].status = "ABANDONED"
         PROVE  /\ SoleEnd' /\ \A d \in Requests : EndOf(d)'
                /\ DialogEnd' /\ \A s \in 1 .. dMade' : Held(s)'
    <2>1. /\ dUi.open /\ dUi.session = dUi.ref /\ dUi.ref = dCall[c].session
          /\ dUi.ref \in D!Ids /\ dUi.ref > 0
      BY <1>7, <1>16
    <2>2. ~(dUi.open /\ dUi.result)
      BY <1>5, <1>16
    <2>3. SoleEnd'
      BY <1>6, <1>16 DEF Under
    <2>4. ASSUME NEW d \in Requests PROVE EndOf(d)'
      <3>1. CASE d # c /\ Under(d)
        <4>1. dCall[d].kind \notin Bounding /\ dCall'[d] = dCall[d]
          BY <1>4, <1>16, <3>1
        <4> QED BY <1>7, <1>16, <2>1, <3>1, <4>1 DEF EndOf, Bounding, D!Ending, D!Leaving
      <3>2. CASE d # c /\ ~Under(d)
        BY <1>16, <3>2 DEF EndOf, Under
      <3>3. CASE d = c
        BY <1>16, <2>1, <3>3 DEF EndOf, D!Leaving
      <3> QED BY <3>1, <3>2, <3>3
    <2>5. DialogEnd'
      BY <1>0, <1>16, <2>1, <2>2 DEF DialogEnd
    <2>6. \A d \in Requests : \A q : Comes(d, q) => Comes(d, q)'
      BY <1>16 DEF Comes
    <2>7. \A s \in 1 .. dMade' : Held(s)'
      BY <1>8, <1>16, <2>1, <2>6
    <2> QED BY <2>3, <2>4, <2>5, <2>7
  <1>17. ASSUME NEW c \in Requests, MarkStep(c)
         PROVE  /\ SoleEnd' /\ \A d \in Requests : EndOf(d)'
                /\ DialogEnd' /\ \A s \in 1 .. dMade' : Held(s)'
    <2>1. /\ Under(c) /\ dCall[c].at \in {"read", "marked"}
          /\ dCall[c].kind \in {"analyze", "drafts", "commit"}
          /\ dCall'[c].session = dCall[c].session /\ UNCHANGED <<dUi, dMade>>
          /\ dCall'[c].kind = dCall[c].kind /\ dCall'[c].at \in {"marked", "made"}
          /\ \A d \in Requests \ {c} : dCall'[d] = dCall[d]
      BY <1>17 DEF MarkStep, GoesOn, Under
    <2>2. dCall[c].session \in D!Ids
      BY <1>1, <2>1 DEF Creating
    <2>3. \A q \in D!Ids \ {dCall[c].session} : dRow'[q] = dRow[q]
      <3>1. CASE dRow' = dRow
        BY <3>1
      <3>2. CASE dRow' # dRow
        <4>1. PICK status \in {"ANALYZING", "DRAFTING", "COMMITTING"} :
                 StatusOf(dCall[c].session, status)
          BY <1>17, <3>2 DEF MarkStep
        <4>2. status \in D!Statuses
          BY DEF D!Statuses
        <4> QED BY <2>2, <4>1, <4>2, StatusKeeps
      <3> QED BY <3>1, <3>2
    <2> QED BY <1>16, <2>1, <2>3
  <1>18. ASSUME NEW c \in Requests, AnswerStep(c)
         PROVE  /\ SoleEnd' /\ \A d \in Requests : EndOf(d)'
                /\ DialogEnd' /\ \A s \in 1 .. dMade' : Held(s)'
    <2> DEFINE s == dCall[c].session
               k == dCall[c].kind
    <2>1. /\ Under(c) /\ dCall[c].at \in {"read", "marked", "made"}
          /\ k \in {"abandon", "escape", "commit", "analyze", "clarify", "plan", "draft", "drafts"}
          /\ dCall'[c].session = s /\ UNCHANGED <<dUi, dMade>>
          /\ dCall'[c].kind = k /\ dCall'[c].at = "done" /\ Under(c)'
          /\ \A d \in Requests \ {c} : dCall'[d] = dCall[d]
          /\ \A q \in D!Ids \ {s} : dRow'[q] = dRow[q]
      BY <1>18 DEF AnswerStep, GoesOn, Under
    <2>2. s \in D!Ids
      BY <1>1, <2>1 DEF Creating
    <2>3. /\ k \in {"abandon", "escape"} => dRow'[s].status = "ABANDONED"
          /\ k = "commit" => dRow'[s].status = "COMMITTED"
      <3>1. /\ k \in {"abandon", "escape"} => StatusOf(s, "ABANDONED")
            /\ k = "commit" => StatusOf(s, "COMMITTED")
        BY <1>18 DEF AnswerStep
      <3> QED BY <2>2, <3>1, StatusKeeps DEF D!Statuses
    <2>4. CASE k # "escape"
      BY <1>16, <2>1, <2>3, <2>4
    <2>5. CASE k = "escape"
      <3>1. ~dUi.open
        BY <1>0, <2>1, <2>5 DEF EndOf
      <3>2. \A d \in Requests \ {c} : ~Under(d) /\ ~Under(d)'
        BY <1>3, <2>1, <2>5 DEF Bounding, D!Ending, D!Leaving, Under
      <3>3. \A d \in Requests, q \in D!Ids \ {s} : Comes(d, q) => Comes(d, q)'
        BY <2>1 DEF Comes
      <3>4. \A q \in 1 .. dMade' : Held(q)'
        BY <1>8, <2>1, <2>3, <2>5, <3>3
      <3> QED BY <1>0, <2>1, <2>3, <2>5, <3>1, <3>2, <3>4 DEF SoleEnd, EndOf, DialogEnd
    <2> QED BY <2>4, <2>5
  (* A request that ends or fails without effect on the dialog. *)
  <1>19. ASSUME NEW cs \in SUBSET Requests, FailStep(cs),
                \A c \in cs : dCall[c].kind \notin {"create", "orphan", "escape", "abandon"},
                UNCHANGED dRow
         PROVE  /\ SoleEnd' /\ \A d \in Requests : EndOf(d)'
                /\ DialogEnd' /\ \A s \in 1 .. dMade' : Held(s)'
    <2>1. /\ \A c \in cs : ~Under(c)' /\ dCall'[c].at = "none"
          /\ \A d \in Requests \ cs : dCall'[d] = dCall[d]
          /\ UNCHANGED dMade /\ dUi'.open = dUi.open /\ dUi'.session = dUi.session
          /\ dUi'.ref = dUi.ref /\ dUi'.result = dUi.result
      BY <1>1, <1>19 DEF FailStep, UiKept
    <2>2. SoleEnd'
      BY <1>6, <2>1 DEF Under
    <2>3. \A d \in Requests : EndOf(d)'
      BY <1>0, <1>19, <2>1 DEF EndOf, Under
    <2>4. DialogEnd'
      BY <1>0, <1>19, <2>1 DEF DialogEnd, Under
    <2>5. \A d \in Requests : \A q : Comes(d, q) => Comes(d, q)'
      BY <1>19, <2>1 DEF Comes
    <2>6. \A s \in 1 .. dMade' : Held(s)'
      BY <1>0, <1>19, <2>1, <2>5 DEF Held
    <2> QED BY <2>2, <2>3, <2>4, <2>6
  (* The request that ends a session, which is over. *)
  <1>20. ASSUME NEW c \in Requests, Under(c), dCall[c].kind \in {"abandon", "escape"},
                dRow[dCall[c].session].status \in {"ABANDONED", "COMMITTED"},
                dCall[c].kind = "abandon" /\ dUi.result =>
                   dRow[dCall[c].session].status = "COMMITTED",
                FailStep({c}) \/ /\ dCall'[c] = D!NoCall
                                 /\ \A d \in Requests \ {c} : dCall'[d] = dCall[d]
                                 /\ dUi' = dUi /\ dCall[c].kind = "escape",
                UNCHANGED <<dRow, dMade>>
         PROVE  /\ SoleEnd' /\ \A d \in Requests : EndOf(d)'
                /\ DialogEnd' /\ \A s \in 1 .. dMade' : Held(s)'
    <2>1. \A d \in Requests \ {c} : ~Under(d)
      BY <1>3, <1>20 DEF Bounding, D!Ending, D!Leaving
    <2>2. \A d \in Requests : ~Under(d)' /\ dCall'[d].at = "none"
      <3>1. dCall'[c] = D!NoCall
        BY <1>20 DEF FailStep
      <3>2. \A d \in Requests \ {c} : dCall'[d] = dCall[d]
        BY <1>20, <2>1 DEF FailStep, CallKept
      <3> QED BY <1>1, <2>1, <3>1, <3>2 DEF Under
    <2>3. UiKept \/ (UiClosed /\ dCall[c].kind = "abandon")
      BY <1>20 DEF FailStep, UiKept
    <2>4. dCall[c].kind = "abandon" =>
             /\ dUi.open /\ dUi.session = dUi.ref /\ dUi.ref = dCall[c].session /\ dUi.ref > 0
      BY <1>7, <1>20
    <2>5. dCall[c].kind = "escape" => ~dUi.open
      BY <1>0, <1>20 DEF EndOf
    <2>6. ASSUME NEW s \in 1 .. dMade' PROVE Held(s)'
      <3>1. CASE s = dCall[c].session
        BY <1>20, <3>1 DEF Held
      <3>2. CASE s # dCall[c].session
        <4>1. dRow[s].status \in {"ABANDONED", "COMMITTED"} \/ (dUi.open /\ dUi.ref = s)
          BY <1>0, <1>20, <2>1, <2>6, <3>2 DEF Held, Comes, Under
        <4>2. ~(dUi.open /\ dUi.ref = s)
          BY <1>20, <2>4, <2>5, <3>2
        <4> QED BY <1>20, <4>1, <4>2 DEF Held
      <3> QED BY <3>1, <3>2
    <2>7. DialogEnd'
      <3>1. CASE UiClosed
        BY <3>1 DEF DialogEnd, UiClosed
      <3>2. CASE UiKept
        BY <1>0, <1>20, <2>2, <2>4, <2>5, <3>2 DEF DialogEnd, UiKept
      <3> QED BY <2>3, <3>1, <3>2
    <2> QED BY <2>2, <2>6, <2>7 DEF SoleEnd, EndOf
  <1>21. ASSUME NEW c \in Requests, RefuseStep(c)
         PROVE  /\ SoleEnd' /\ \A d \in Requests : EndOf(d)'
                /\ DialogEnd' /\ \A s \in 1 .. dMade' : Held(s)'
    <2>1. /\ FailStep({c}) /\ Under(c) /\ ~Creating(c) /\ dCall[c].at = "sent"
          /\ UNCHANGED <<dRow, dMade>>
          /\ "end" \notin D!Lost(c) \/ "end" \in D!Over(dCall[c].session)
      BY <1>21 DEF RefuseStep, Under, FailStep
    <2>2. dCall[c].kind \notin {"create", "orphan"}
      BY <2>1 DEF Creating
    <2>3. CASE dCall[c].kind \in {"abandon", "escape"}
      <3>1. "end" \in D!Lost(c)
        BY <2>3 DEF D!Lost
      <3>2. dRow[dCall[c].session].status = "COMMITTED"
        BY <2>1, <3>1 DEF D!Over
      <3> QED BY <1>20, <2>1, <2>3, <3>2
    <2>4. CASE dCall[c].kind \notin {"abandon", "escape"}
      BY <1>19, <2>1, <2>2, <2>4
    <2> QED BY <2>3, <2>4
  <1>22. ASSUME NEW c \in Requests, GiveUpStep(c)
         PROVE  /\ SoleEnd' /\ \A d \in Requests : EndOf(d)'
                /\ DialogEnd' /\ \A s \in 1 .. dMade' : Held(s)'
    <2>1. /\ FailStep({c}) /\ Under(c) /\ dCall[c].at \in {"read", "marked", "made"}
          /\ dCall[c].kind \in {"analyze", "drafts"} /\ StatusOf(dCall[c].session, "FAILED")
          /\ UNCHANGED dMade
      BY <1>22 DEF GiveUpStep, Under, FailStep
    <2>2. /\ ~Under(c)' /\ UiKept /\ \A d \in Requests \ {c} : dCall'[d] = dCall[d]
      BY <1>1, <2>1 DEF FailStep
    <2>3. \A q \in D!Ids \ {dCall[c].session} : dRow'[q] = dRow[q]
      <3>1. dCall[c].session \in D!Ids /\ "FAILED" \in D!Statuses
        BY <1>1, <2>1 DEF Creating, D!Statuses
      <3> QED BY <2>1, <3>1, StatusKeeps
    <2> QED BY <1>16, <2>1, <2>2, <2>3 DEF UiKept
  <1>23. ASSUME NEW c \in Requests, ReopenStep(c)
         PROVE  FALSE
    BY <1>23 DEF ReopenStep
  <1>24. ASSUME NEW cs \in SUBSET Requests, LoseStep(cs)
         PROVE  /\ SoleEnd' /\ \A d \in Requests : EndOf(d)'
                /\ DialogEnd' /\ \A s \in 1 .. dMade' : Held(s)'
    <2>1. \A c \in cs : "end" \notin D!Lost(c)
      BY <1>24 DEF LoseStep
    <2>2. \A c \in cs : dCall[c].kind \notin {"create", "orphan", "escape", "abandon"}
      BY <2>1 DEF D!Lost
    <2> QED BY <1>19, <1>24, <2>2 DEF LoseStep
  <1>25. ASSUME NEW c \in Requests, LandStep(c)
         PROVE  /\ SoleEnd' /\ \A d \in Requests : EndOf(d)'
                /\ DialogEnd' /\ \A s \in 1 .. dMade' : Held(s)'
    <2> DEFINE s == dCall[c].session
               k == dCall[c].kind
    <2>1. /\ dCall[c].at = "done" /\ Under(c) /\ UNCHANGED <<dRow, dMade>> /\ k \in D!Kinds
          /\ \/ k = "abandon" /\ FailStep({c})
             \/ /\ k # "abandon" /\ dCall'[c] = D!NoCall
                /\ \A d \in Requests \ {c} : dCall'[d] = dCall[d]
                /\ IF k \in {"orphan", "escape"} THEN dUi' = dUi ELSE dUi' = D!Shows(c)
      BY <1>1, <1>25 DEF LandStep, Under
    <2>2. k \in D!Leaving => dRow[s].status = "ABANDONED"
      BY <1>0, <2>1 DEF EndOf
    <2>3. CASE k \in {"abandon", "escape"}
      <3>1. k = "abandon" => ~dUi.result
        BY <1>0, <1>7, <2>1, <2>2, <2>3 DEF DialogEnd, D!Leaving
      <3> QED BY <1>20, <2>1, <2>2, <2>3, <3>1 DEF D!Leaving
    <2>4. CASE k \notin {"abandon", "escape"}
      <3>1. k # "orphan"
        BY <1>0, <2>1 DEF EndOf
      <3>2. dUi' = D!Shows(c)
        BY <2>1, <2>4, <3>1
      <3>3. /\ dUi'.open = dUi.open /\ dUi'.session = s
            /\ dUi'.ref = IF k = "create" THEN s ELSE dUi.ref
            /\ dUi'.result = (dUi.result \/ k = "commit")
        BY <2>4, <3>1, <3>2, ShowsEffect
      <3>4. /\ ~Under(c)' /\ dCall'[c].at = "none"
            /\ \A d \in Requests \ {c} : dCall'[d] = dCall[d]
        BY <1>1, <2>1, <2>4
      <3>5. SoleEnd'
        BY <1>6, <3>4 DEF Under
      <3>6. CASE k = "create"
        <4>1. dUi.open /\ dUi.session = 0 /\ dUi.ref = 0 /\ ~dUi.result
          BY <1>0, <2>1, <3>6 DEF EndOf, DialogEnd
        <4>2. \A d \in Requests : (d # c => ~Under(d)) /\ ~Under(d)'
          BY <1>3, <2>1, <3>4, <3>6 DEF Bounding, Under
        <4>3. s > 0
          BY <1>1, <1>2, <2>1 DEF Creating
        <4>4. \A q \in 1 .. dMade' : Held(q)'
          BY <1>0, <2>1, <3>3, <3>6, <4>1, <4>2 DEF Held, Comes, Under
        <4>5. dUi'.open /\ dUi'.session = s /\ dUi'.ref = s
          BY <3>3, <3>6, <4>1
        <4>6. ~dUi'.result
          BY <3>3, <3>6, <4>1
        <4>7. DialogEnd'
          BY <4>3, <4>5, <4>6 DEF DialogEnd
        <4> QED BY <3>5, <4>2, <4>4, <4>7 DEF EndOf
      <3>7. CASE k # "create"
        <4>1. /\ dUi.open /\ dUi.session = dUi.ref /\ dUi.ref = s /\ dUi.ref > 0
          BY <1>7, <2>1, <2>4, <3>7
        <4>2. dUi'.session = dUi.session /\ dUi'.ref = dUi.ref /\ dUi'.open
          BY <3>3, <3>7, <4>1
        <4>3. \A d \in Requests : EndOf(d)'
          BY <1>0, <2>1, <3>4, <4>1, <4>2 DEF EndOf, Under
        <4>4. \A d \in Requests : \A q : Comes(d, q) => Comes(d, q)'
          BY <2>4, <3>4, <3>7 DEF Comes
        <4>5. \A q \in 1 .. dMade' : Held(q)'
          BY <1>0, <2>1, <4>1, <4>2, <4>4 DEF Held
        <4>6. CASE k = "commit"
          <5>1. dRow[s].status = "COMMITTED"
            BY <1>0, <2>1, <4>6 DEF EndOf
          <5>2. \A d \in Requests : dCall'[d].at = "none"
            BY <1>3, <2>1, <3>4, <4>6 DEF Bounding, D!Ending, Under
          <5>3. DialogEnd'
            BY <2>1, <4>1, <4>2, <5>1, <5>2 DEF DialogEnd
          <5> QED BY <3>5, <4>3, <4>5, <5>3
        <4>7. CASE k # "commit"
          <5>1. dUi'.result = dUi.result
            BY <1>1, <3>3, <4>7
          <5>2. DialogEnd'
            BY <1>0, <2>1, <3>4, <4>1, <4>2, <5>1 DEF DialogEnd
          <5> QED BY <3>5, <4>3, <4>5, <5>2
        <4> QED BY <4>6, <4>7
      <3> QED BY <3>6, <3>7
    <2> QED BY <2>3, <2>4
  <1> QED BY <1>9, <1>10, <1>11, <1>12, <1>13, <1>14, <1>15, <1>17, <1>18, <1>21, <1>22, <1>23,
             <1>24, <1>25 DEF Step
-----------------------------------------------------------------------------
(* The inductive invariant and what it shows *)

DialogInv ==
    /\ DialogTypes /\ SlotInv /\ AloneInv /\ AnswerInv
    /\ SessInv /\ CreatedInv /\ PlanInv /\ DraftInv /\ EndInv

LEMMA DialogInit == D!Init => DialogInv
  <1> SUFFICES ASSUME D!Init PROVE DialogInv
    OBVIOUS
  <1>1. /\ dCall = [c \in Requests |-> D!NoCall] /\ dRow = [s \in D!Ids |-> D!NoRow]
        /\ dMade = 0 /\ dStamp = 0 /\ dAstray = {}
        /\ dUi = [open |-> FALSE, session |-> 0, ref |-> 0, status |-> "none",
                  plan |-> D!NoPlan, drafts |-> D!NotDrafted, flags |-> {}, result |-> FALSE,
                  typing |-> NoKey]
    BY DEF D!Init
  <1>2. /\ ~dUi.open /\ dUi.session = 0 /\ dUi.ref = 0 /\ dUi.status = "none"
        /\ dUi.plan = D!NoPlan /\ dUi.drafts = D!NotDrafted /\ ~dUi.result /\ dUi.typing = NoKey
    BY <1>1
  <1>3. /\ \A c \in Requests : dCall[c].at = "none" /\ dCall[c].session = 0
        /\ \A c \in Requests : ~Under(c)
    BY <1>1 DEF D!NoCall, Under
  <1>4. \A s \in D!Ids : dRow[s].drafts.of = 0
    BY <1>1 DEF D!NoRow, D!NotDrafted
  <1>5. DialogTypes
    <2>1. 0 \in 0 .. MaxSessions /\ 0 \in D!Stamps /\ "none" \in D!Statuses
      BY DialogAssumption DEF D!Stamps, D!Statuses
    <2>2. dUi \in Dialogs
      BY <1>1, <2>1, Nothing DEF Dialogs
    <2> QED BY <1>1, <2>1, <2>2, Nothing DEF DialogTypes
  <1>6. SlotInv
    <2>1. D!Creates = {}
      BY <1>3 DEF D!Creates
    <2>2. IsFiniteSet(D!Creates) /\ Cardinality(D!Creates) = 0
      BY <2>1, FS_EmptySet
    <2> QED BY <1>1, <1>2, <1>3, <2>2, DialogAssumption DEF SlotInv
  <1>7. AloneInv /\ AnswerInv /\ SessInv /\ CreatedInv
    BY <1>2, <1>3, <1>4, Nothing DEF AloneInv, AnswerInv, AnswerOf, SessInv, CreatedInv
  <1>8. PlanInv
    BY <1>2, <1>3 DEF PlanInv, OnePlan, PlanShown, SeenPlan, PlanAnswer
  <1>9. DraftInv
    BY <1>2, <1>3 DEF DraftInv, OneDraft, NoneYet, DraftsShown, SeenDrafts, DraftAnswer
  <1>10. EndInv
    BY <1>1, <1>2, <1>3 DEF EndInv, SoleEnd, EndOf, DialogEnd, Held
  <1> QED BY <1>5, <1>6, <1>7, <1>8, <1>9, <1>10 DEF DialogInv

LEMMA DialogStays ==
    ASSUME DialogInv, UNCHANGED dvars
    PROVE  DialogInv'
  <1>1. UNCHANGED <<dUi, dRow, dCall, dMade, dStamp, dAstray>>
    BY DEF dvars
  <1>2. DialogTypes' /\ SlotInv'
    BY <1>1 DEF DialogInv, DialogTypes, SlotInv, D!Creates, Creating, Under
  <1>3. AloneInv' /\ AnswerInv' /\ SessInv' /\ CreatedInv'
    BY <1>1 DEF DialogInv, AloneInv, AnswerInv, AnswerOf, SessInv, CreatedInv, Under
  <1>4. PlanInv'
    BY <1>1 DEF DialogInv, PlanInv, OnePlan, PlanShown, PlanComes, SeenPlan, PlanAnswer, Under
  <1>5. DraftInv'
    BY <1>1 DEF DialogInv, DraftInv, OneDraft, NoneYet, DraftsShown, DraftComes, SeenDrafts,
                DraftAnswer, Under
  <1>6. EndInv'
    BY <1>1 DEF DialogInv, EndInv, SoleEnd, EndOf, DialogEnd, Held, Comes, Under
  <1> QED BY <1>2, <1>3, <1>4, <1>5, <1>6 DEF DialogInv

LEMMA DialogNext ==
    ASSUME DialogInv, D!Next
    PROVE  DialogInv'
  <1>1. DialogTypes' /\ Step
    BY Steps DEF DialogInv
  <1>2. SlotInv'
    BY <1>1, SlotStep DEF DialogInv
  <1>3. AloneInv' /\ AnswerInv' /\ SessInv' /\ CreatedInv'
    BY <1>1, <1>2, AloneStep, AnswerInvStep, SessStep, CreatedStep DEF DialogInv
  <1>4. PlanInv' /\ DraftInv' /\ EndInv'
    BY <1>1, <1>2, PlanStep, DraftStep, EndStep DEF DialogInv
  <1> QED BY <1>1, <1>2, <1>3, <1>4 DEF DialogInv

(* The types of the dialog and of its sessions, and all that keeps them in *)
(* step, hold whatever its user and the server do.                         *)
THEOREM DialogInvariance == MCSpec => []DialogInv
  <1>1. MCInit => DialogInv
    BY DialogInit DEF MCInit
  <1>2. DialogInv /\ [MCNext]_<<part, vars, dvars>> => DialogInv'
    BY DialogNext, DialogStays DEF MCNext
  <1> QED BY <1>1, <1>2, PTL DEF MCSpec

(* What the server makes drafts from, and what it commits, is what the     *)
(* dialog showed when its user asked for it, unless requests overlapped or *)
(* failed, a typed title was not sent, or an answer took the dialog to     *)
(* another session, and nothing has mended it since.                       *)
THEOREM DialogUsesTheSeen == MCSpec => []SeenIsUsed
  <1>1. DialogInv => SeenIsUsed
    BY DEF DialogInv, PlanInv, DraftInv, SeenPlan, SeenDrafts, SeenIsUsed, D!SeenIsUsed
  <1> QED BY <1>1, DialogInvariance, PTL

(* When the dialog is closed and nothing is under way, every session it    *)
(* made is abandoned or committed, unless a request overlapped its end or  *)
(* failed.                                                                 *)
THEOREM LeftSessionsAreOver == MCSpec => []LeftIsOver
  <1>1. DialogInv => LeftIsOver
    <2> SUFFICES ASSUME DialogInv, ~dUi.open, D!Quiet, "end" \notin dAstray, NEW s \in 1 .. dMade
                 PROVE  dRow[s].status \in {"ABANDONED", "COMMITTED"}
      BY DEF LeftIsOver, D!LeftIsOver
    <2>1. Held(s)
      BY DEF DialogInv, EndInv
    <2> QED BY <2>1 DEF Held, Comes, D!Quiet
  <1> QED BY <1>1, DialogInvariance, PTL

=============================================================================
