--------------------------- MODULE Accountability ---------------------------
(***************************************************************************)
(* Who owns an initiative and who is accountable for it                    *)
(* (server/src/routes/assignments.ts, routes/initiatives.ts, mcp/tools.ts, *)
(* tenant/tenantPrisma.ts, client/src/App.tsx, components/boards).         *)
(*                                                                         *)
(* The owner is a field of the initiative; accountable is a role, a row of *)
(* InitiativeAssignment for the initiative, a user and a role.  Every way  *)
(* to change one of them keeps the other in step by a statement of its     *)
(* own.  A row that is created inside the creation of its initiative gets  *)
(* no tenantId: it is shown with the initiative, but no statement on       *)
(* assignments, all of which ask for the tenant, sees it ("hidden").  Such *)
(* a row makes its user accountable like any other, and for good.          *)
(*                                                                         *)
(* One initiative is looked at, which stays, and two roles stand for all.  *)
(* A transaction is one step.  Left out: who may do what, allocations, and *)
(* users who leave the workspace.                                          *)
(***************************************************************************)
EXTENDS Naturals

CONSTANTS Users, Requests, NoUser, MaxCalls

VARIABLES
    owner,     \* ownerId of the initiative
    rows,      \* its assignments, by user and role
    call,      \* what a request on assignments is about to do
    calls,     \* number of requests so far
    causes     \* history: what may have set owner and accountable apart

vars == <<owner, rows, call, calls, causes>>

Roles == {"ACCOUNTABLE", "INFORMED"}
Accountable == "ACCOUNTABLE"
Nobody == NoUser
NoCall == [at |-> "none", api |-> FALSE, user |-> Nobody, role |-> Accountable,
           next |-> Nobody, alone |-> TRUE]

(* "overlap": two requests at a time.  "failed": one that broke off.       *)
(* "promoted": a role changed to accountable beside another one.  "owner": *)
(* another owner for the initiative itself.  "several": a list with more   *)
(* than one accountable.  "nested": an owner made of another one than who  *)
(* is accountable by a hidden row, which was not replaced.                 *)
Causes == {"overlap", "failed", "promoted", "owner", "several", "nested"}

TypeOK ==
    /\ owner \in Users \cup {Nobody}
    /\ rows \in [Users -> [Roles -> {"none", "scoped", "hidden"}]]
    /\ call \in [Requests -> [at : {"none", "remove", "disown", "clear", "upsert", "own"},
                              api : BOOLEAN, user : Users \cup {Nobody}, role : Roles,
                              next : Users \cup {Nobody}, alone : BOOLEAN]]
    /\ calls \in 0 .. MaxCalls
    /\ causes \subseteq Causes

(* Who the initiative is shown with as accountable, in either way, and who *)
(* of them by a row that nobody can take back.                             *)
AccountableUsers == {u \in Users : rows[u][Accountable] # "none"}
HiddenHeads == {u \in Users : rows[u][Accountable] = "hidden"}

Several(heads) == IF \E u, v \in heads : u # v THEN {"several"} ELSE {}
Nested(o) == IF HiddenHeads \subseteq {o} THEN {} ELSE {"nested"}

(* POST /initiatives: the rows come with the initiative, and the first one *)
(* that is accountable is the owner.  tymio_create_initiative creates none.*)
Init ==
    /\ rows \in [Users -> [Roles -> {"none", "hidden"}]]
    /\ owner \in IF AccountableUsers = {} THEN Users \cup {Nobody} ELSE AccountableUsers
    /\ call = [r \in Requests |-> NoCall]
    /\ calls = 0
    /\ causes = Several(AccountableUsers)

-----------------------------------------------------------------------------
(* Statements as the client extended with the tenant makes them.           *)
Sees(u, ro) == rows[u][ro] = "scoped"

(* deleteMany: the hidden rows stay. *)
Without(ro) ==
    [u \in Users |-> [rows[u] EXCEPT ![ro] = IF @ = "scoped" THEN "none" ELSE @]]

(* A row is created by an upsert or by createMany, unless a hidden one has *)
(* its key: the unique key makes the statement throw.                      *)
Fits(u, ro) == rows[u][ro] # "hidden"

Idle == \A r \in Requests : call[r].at = "none"

(* Whatever is done meanwhile, a request that is under way is not alone.   *)
Disturbed == [r \in Requests |->
                 IF call[r].at = "none" THEN call[r] ELSE [call[r] EXCEPT !.alone = FALSE]]

Count == calls < MaxCalls /\ calls' = calls + 1

Start(r, c) ==
    /\ Count
    /\ call[r].at = "none"
    /\ call' = [Disturbed EXCEPT ![r] = [c EXCEPT !.alone = Idle]]
    /\ UNCHANGED <<owner, rows, causes>>

(* The request goes on with the next statement, or is over. *)
GoOn(r, at) == call' = [call EXCEPT ![r].at = at]
Over(r) ==
    /\ call' = [call EXCEPT ![r] = NoCall]
    /\ causes' = IF call[r].alone THEN causes ELSE causes \cup {"overlap"}

(* A statement throws: a tool answers with the error, a handler of the API *)
(* takes the process with it.                                              *)
Fails(r) ==
    /\ call' = [q \in Requests |-> IF q = r \/ call[r].api THEN NoCall ELSE call[q]]
    /\ causes' = causes \cup {"failed"}
    /\ UNCHANGED <<owner, rows, calls>>

-----------------------------------------------------------------------------
(* POST /assignments and tymio_upsert_assignment. *)
Assign(r, u, ro, api) ==
    Start(r, [NoCall EXCEPT !.at = IF ro = Accountable THEN "clear" ELSE "upsert",
                            !.api = api, !.user = u, !.role = ro])

(* DELETE /assignments and tymio_delete_assignment; with v, the board of   *)
(* people, which assigns the role to another one afterwards.               *)
Unassign(r, u, ro, v, api) ==
    /\ v # Nobody => ro = Accountable /\ api
    /\ Start(r, [NoCall EXCEPT !.at = "remove", !.api = api, !.user = u, !.role = ro,
                               !.next = v])

(* Mutant: whoever was accountable before stays so. *)
KeepPrior(r) ==
    /\ call[r].at = "clear"
    /\ GoOn(r, "upsert")
    /\ UNCHANGED <<owner, rows, calls, causes>>

ClearPrior(r) ==
    /\ call[r].at = "clear"
    /\ rows' = Without(Accountable)
    /\ GoOn(r, "upsert")
    /\ UNCHANGED <<owner, calls, causes>>

Upsert(r) ==
    /\ call[r].at = "upsert"
    /\ LET u == call[r].user  ro == call[r].role IN
       IF Fits(u, ro)
       THEN /\ rows' = [rows EXCEPT ![u][ro] = "scoped"]
            /\ IF ro = Accountable THEN GoOn(r, "own") /\ UNCHANGED causes ELSE Over(r)
            /\ UNCHANGED <<owner, calls>>
       ELSE Fails(r)

(* The owner follows.  One that ran alone has mended what was apart, but   *)
(* for hidden rows.                                                        *)
Own(r) ==
    /\ call[r].at = "own"
    /\ owner' = call[r].user
    /\ call' = [call EXCEPT ![r] = NoCall]
    /\ causes' = IF call[r].alone THEN Nested(call[r].user) ELSE causes \cup {"overlap"}
    /\ UNCHANGED <<rows, calls>>

(* What comes after a deletion: the board's second call, or nothing.       *)
Removed(r) ==
    IF call[r].next = Nobody
    THEN Over(r)
    ELSE /\ call' = [call EXCEPT ![r].at = "clear", ![r].user = call[r].next,
                                 ![r].next = Nobody]
         /\ UNCHANGED causes

Remove(r) ==
    /\ call[r].at = "remove"
    /\ LET u == call[r].user  ro == call[r].role IN
       IF Sees(u, ro)
       THEN /\ rows' = [rows EXCEPT ![u][ro] = "none"]
            /\ IF ro = Accountable THEN GoOn(r, "disown") /\ UNCHANGED causes ELSE Removed(r)
            /\ UNCHANGED <<owner, calls>>
       ELSE Fails(r)

Disown(r) ==
    /\ call[r].at = "disown"
    /\ owner' = Nobody
    /\ Removed(r)
    /\ UNCHANGED <<rows, calls>>

(* A statement fails for reasons of its own. *)
Mishap(r) == call[r].at # "none" /\ Fails(r)

(* A deploy. *)
Restart ==
    /\ call' = [r \in Requests |-> NoCall]
    /\ causes' = IF Idle THEN causes ELSE causes \cup {"failed"}
    /\ UNCHANGED <<owner, rows, calls>>

-----------------------------------------------------------------------------
(* PUT /assignments and tymio_update_assignment with another role: one     *)
(* transaction, which a hidden row rolls back.  It leaves other rows alone.*)
ChangeRole(u, from, to) ==
    /\ Count
    /\ from # to /\ Sees(u, from) /\ Fits(u, to)
    /\ rows' = [rows EXCEPT ![u][from] = "none", ![u][to] = "scoped"]
    /\ owner' = IF to = Accountable THEN u ELSE IF from = Accountable THEN Nobody ELSE owner
    /\ causes' = IF to = Accountable /\ AccountableUsers \ {u} # {}
                 THEN causes \cup {"promoted"} ELSE causes
    /\ call' = Disturbed

(* PUT /initiatives/:id with a list of assignments: one transaction.       *)
Replace(list) ==
    /\ Count
    /\ \A u \in Users : \A ro \in list[u] : Fits(u, ro)
    /\ rows' = [u \in Users |-> [ro \in Roles |->
                   IF ro \in list[u] THEN "scoped"
                   ELSE IF Sees(u, ro) THEN "none" ELSE rows[u][ro]]]
    /\ LET heads == {u \in Users : Accountable \in list[u]} IN
       /\ owner' \in IF heads = {} THEN {Nobody} ELSE heads
       /\ causes' = Several(heads) \cup Nested(owner')
    /\ call' = Disturbed

(* PUT /initiatives/:id and tymio_update_initiative with an owner only. *)
SetOwner(u) ==
    /\ Count
    /\ owner' = u
    /\ causes' = IF AccountableUsers \subseteq {u} THEN causes ELSE causes \cup {"owner"}
    /\ call' = Disturbed
    /\ UNCHANGED rows

Next ==
    \/ \E r \in Requests, u \in Users, ro \in Roles, api \in BOOLEAN :
          \/ Assign(r, u, ro, api)
          \/ \E v \in Users \cup {Nobody} : Unassign(r, u, ro, v, api)
    \/ \E r \in Requests :
          ClearPrior(r) \/ Upsert(r) \/ Own(r) \/ Remove(r) \/ Disown(r) \/ Mishap(r)
    \/ \E u \in Users, from, to \in Roles : ChangeRole(u, from, to)
    \/ \E list \in [Users -> SUBSET Roles] : Replace(list)
    \/ \E u \in Users : SetOwner(u)
    \/ Restart

Spec == Init /\ [][Next]_vars

-----------------------------------------------------------------------------
(* Who is accountable owns the initiative, whenever no request is under    *)
(* way: each of the five ways to change one of them changes the other.     *)
(* What sets them apart is two requests at a time, one that breaks off, a  *)
(* promotion beside another accountable, an owner set by itself, a list    *)
(* with several, or a row that was created inside the initiative: another  *)
(* owner does not replace it, though the tool that assigns the role says   *)
(* it does.  Still, who got the role after that is the owner.  The next    *)
(* assignment of the role mends all but such rows.                         *)
AccountableOwns ==
    Idle =>
        /\ causes = {} => AccountableUsers \subseteq {owner}
        /\ causes \subseteq {"nested"} => AccountableUsers \ HiddenHeads \subseteq {owner}
=============================================================================
