--------------------------- MODULE Notifications ---------------------------
(***************************************************************************)
(* Notifications for entries of the audit log                              *)
(* (server/src/services/audit.ts, notification-matrix.ts,                  *)
(* notification-delivery.ts).                                              *)
(*                                                                         *)
(* logAudit writes the entry and starts its notifications without waiting  *)
(* for them.  Recipients and channels are planned from the rules, the      *)
(* subscriptions and the preferences of that later moment; then one        *)
(* delivery after the other is made, and one that fails is logged and left *)
(* behind.  A mail has its record written first, PENDING, and is sent      *)
(* then; for a message in the app the record follows the message.  Nothing *)
(* looks for what a restart of the server left undone.                     *)
(*                                                                         *)
(* Slack and WhatsApp only have a record written that stays PENDING: they  *)
(* are left out, and so are the contents of a notification.                *)
(***************************************************************************)
EXTENDS Naturals

CONSTANTS Entries, Users, NoDelivery

VARIABLES
    at,      \* how far the notifications of an entry are
    plan,    \* the deliveries planned for it
    todo,    \* the deliveries planned and not begun
    now,     \* the delivery being made
    out,     \* the deliveries that reached the user: messages and mails
    record,  \* the rows of NotificationDelivery, by delivery
    mishaps  \* history: what may leave a delivery without a true record

vars == <<at, plan, todo, now, out, record, mishaps>>

Channels == {"IN_APP", "EMAIL"}
Plans == Users \X Channels
Deliveries == Entries \X Plans

At == {"none", "written", "next", "look", "message", "record", "pending", "send", "sent",
       "failed", "done", "lost"}

(* "crash": the server ended.  "statement": a statement of the database    *)
(* failed.                                                                 *)
Mishaps == {"crash", "statement"}

TypeOK ==
    /\ at \in [Entries -> At]
    /\ plan \in [Entries -> SUBSET Plans]
    /\ todo \in [Entries -> SUBSET Plans]
    /\ now \in [Entries -> Plans \cup {NoDelivery}]
    /\ out \subseteq Deliveries
    /\ record \in [Deliveries -> {"none", "PENDING", "SENT", "FAILED"}]
    /\ mishaps \subseteq Mishaps

Init ==
    /\ at = [e \in Entries |-> "none"]
    /\ plan = [e \in Entries |-> {}] /\ todo = [e \in Entries |-> {}]
    /\ now = [e \in Entries |-> NoDelivery]
    /\ out = {}
    /\ record = [d \in Deliveries |-> "none"]
    /\ mishaps = {}

-----------------------------------------------------------------------------
Running == {e \in Entries : at[e] \notin {"none", "done", "lost"}}

Goto(e, step) == at' = [at EXCEPT ![e] = step]

Mark(e, status) == record' = [record EXCEPT ![<<e, now[e]>>] = status]

(* logAudit.  A new entry may take the place of one that is over. *)
Log(e) ==
    /\ e \notin Running
    /\ Goto(e, "written")
    /\ plan' = [plan EXCEPT ![e] = {}] /\ todo' = [todo EXCEPT ![e] = {}]
    /\ now' = [now EXCEPT ![e] = NoDelivery]
    /\ out' = {d \in out : d[1] # e}
    /\ record' = [d \in Deliveries |-> IF d[1] = e THEN "none" ELSE record[d]]
    /\ UNCHANGED mishaps

(* getRecipientsWithChannelPlan, the channels that are configured, and the *)
(* preferences of each recipient: any plan, the empty one included.        *)
MakePlan(e) ==
    /\ at[e] = "written"
    /\ \E p \in SUBSET Plans : plan' = [plan EXCEPT ![e] = p] /\ todo' = [todo EXCEPT ![e] = p]
    /\ Goto(e, "next")
    /\ UNCHANGED <<now, out, record, mishaps>>

(* The next delivery of the loop, or its end. *)
Begin(e, d) ==
    /\ at[e] = "next" /\ d \in todo[e]
    /\ todo' = [todo EXCEPT ![e] = @ \ {d}]
    /\ now' = [now EXCEPT ![e] = d]
    /\ Goto(e, IF d[2] = "IN_APP" THEN "look" ELSE "pending")
    /\ UNCHANGED <<plan, out, record, mishaps>>

Finish(e) ==
    /\ at[e] = "next" /\ todo[e] = {}
    /\ Goto(e, "done")
    /\ now' = [now EXCEPT ![e] = NoDelivery]
    /\ UNCHANGED <<plan, todo, out, record, mishaps>>

(* IN_APP: a message of this entry for this user is enough. *)
Look(e) ==
    /\ at[e] = "look"
    /\ Goto(e, IF <<e, now[e]>> \in out THEN "next" ELSE "message")
    /\ UNCHANGED <<plan, todo, now, out, record, mishaps>>

Message(e) ==
    /\ at[e] = "message"
    /\ out' = out \cup {<<e, now[e]>>}
    /\ Goto(e, "record")
    /\ UNCHANGED <<plan, todo, now, record, mishaps>>

RecordMessage(e) ==
    /\ at[e] = "record"
    /\ Mark(e, "SENT")
    /\ Goto(e, "next")
    /\ UNCHANGED <<plan, todo, now, out, mishaps>>

(* EMAIL: the record; or nothing, for a user without an address. *)
Pending(e) ==
    /\ at[e] = "pending"
    /\ Mark(e, "PENDING")
    /\ Goto(e, "send")
    /\ UNCHANGED <<plan, todo, now, out, mishaps>>

NoAddress(e) ==
    /\ at[e] = "pending"
    /\ Goto(e, "next")
    /\ UNCHANGED <<plan, todo, now, out, record, mishaps>>

Send(e) ==
    /\ at[e] = "send"
    /\ out' = out \cup {<<e, now[e]>>}
    /\ Goto(e, "sent")
    /\ UNCHANGED <<plan, todo, now, record, mishaps>>

(* The mail service refuses. *)
Refuse(e) ==
    /\ at[e] = "send"
    /\ Goto(e, "failed")
    /\ UNCHANGED <<plan, todo, now, out, record, mishaps>>

RecordSent(e) ==
    /\ at[e] = "sent"
    /\ Mark(e, "SENT")
    /\ Goto(e, "next")
    /\ UNCHANGED <<plan, todo, now, out, mishaps>>

(* Mutant: the error of a delivery ends the whole loop. *)
RecordFailedAndStop(e) ==
    /\ at[e] = "failed"
    /\ Mark(e, "FAILED")
    /\ Goto(e, "lost")
    /\ UNCHANGED <<plan, todo, now, out, mishaps>>

(* The record says so, and the error goes to the loop, which logs it and   *)
(* goes on.                                                                *)
RecordFailed(e) ==
    /\ at[e] = "failed"
    /\ Mark(e, "FAILED")
    /\ Goto(e, "next")
    /\ UNCHANGED <<plan, todo, now, out, mishaps>>

(* A statement fails: those of the plan end it all; the update to SENT is  *)
(* followed by the one to FAILED, although the mail is out; after any      *)
(* other the loop goes on with the next delivery.                          *)
StatementFails(e) ==
    /\ e \in Running /\ at[e] # "send"
    /\ Goto(e, CASE at[e] \in {"written", "next"} -> "lost"
                 [] at[e] = "sent" -> "failed"
                 [] OTHER -> "next")
    /\ mishaps' = mishaps \cup {"statement"}
    /\ UNCHANGED <<plan, todo, now, out, record>>

(* The server ends; what it was doing is done by nobody. *)
Crash ==
    /\ Running # {}
    /\ at' = [e \in Entries |-> IF e \in Running THEN "lost" ELSE at[e]]
    /\ mishaps' = mishaps \cup {"crash"}
    /\ UNCHANGED <<plan, todo, now, out, record>>

Go(e) ==
    \/ MakePlan(e) \/ \E d \in Plans : Begin(e, d)
    \/ Finish(e) \/ Look(e) \/ Message(e) \/ RecordMessage(e)
    \/ Pending(e) \/ NoAddress(e) \/ Send(e) \/ Refuse(e) \/ RecordSent(e) \/ RecordFailed(e)

Next ==
    \/ \E e \in Entries : Log(e) \/ Go(e) \/ StatementFails(e)
    \/ Crash

(* The server's loop goes on. *)
Fairness == \A e \in Entries : WF_vars(Go(e))

Spec == Init /\ [][Next]_vars
FairSpec == Spec /\ Fairness

-----------------------------------------------------------------------------
(* The record tells what became of a delivery; a user without an address   *)
(* has neither mail nor record.                                            *)
Told(d) ==
    \/ record[d] = "SENT" /\ d \in out
    \/ record[d] = "FAILED" /\ d \notin out
    \/ record[d] = "none" /\ d \notin out /\ d[2][2] = "EMAIL"

(* No notification is lost: each of the plan is made or refused in the     *)
(* end, whatever became of the others, and its record tells which; unless  *)
(* the server ended or a statement failed.                                 *)
NoneLost ==
    \A e \in Entries :
        at[e] = "written" ~>
            \/ at[e] = "done" /\ \A p \in plan[e] : Told(<<e, p>>)
            \/ mishaps # {}
=============================================================================
