------------------------- MODULE TenantRegistration -------------------------
(***************************************************************************)
(* Registration of workspaces: a public request for a slug, its review,    *)
(* and what an approval sets up (server/src/routes/tenant-requests.ts,     *)
(* tenants.ts, me.ts and the helpers they call).                           *)
(*                                                                         *)
(* An approval is a sequence of statements without a transaction around    *)
(* it: tenant, provisioning, contact, ownership, invitees (these in one    *)
(* transaction), side effects, access requests, and last the request       *)
(* itself.  Each await is one action; any of them may throw and the server *)
(* may restart between any two.  Administrators, sign-ins and users who    *)
(* ask for access work on the same rows.                                   *)
(*                                                                         *)
(* A request is named by its slug (unique), a user by an e-mail address:   *)
(* addresses are lower-case and have no aliases here.  Super-admins, the   *)
(* trusted domain, mail and the choice of the active workspace, which      *)
(* tenantResolver repairs, are left out.                                   *)
(***************************************************************************)
EXTENDS Naturals

CONSTANTS
    Slugs, Tenants, Users,
    Handlers,   \* slots for requests in flight
    NoSlug, NoTenant, NoUser,
    MaxSteps   \* bound on what comes from outside, for TLC

(* What stands for "none" is not one of them. *)
ASSUME NoneApart == NoSlug \notin Slugs /\ NoTenant \notin Tenants /\ NoUser \notin Users

VARIABLES
    req,        \* per slug the status of its TenantRequest, "none" without one
    reqTenant,  \* tenantId of the request
    form,       \* contact and invitees of the request
    tstatus, tslug, \* status ("none" before, "gone" after) and slug of a tenant
    role,       \* platform role of a user, "none" without one
    member,     \* role in a workspace, "none" for no membership
    access,     \* WorkspaceAccessRequest of a user for a workspace
    auto,       \* AUTO_APPROVE_WORKSPACE_REQUESTS of the running server
    pc,         \* the statement a handler stands at
    slugOf, tenantOf, \* the request and the tenant it works on
    seen,       \* what its last lookup of a role or an access request returned
    todo,       \* users it has yet to come to
    who,        \* the user it is at
    steps,     \* number of requests and administrators' acts so far
    mishaps     \* history: which mishaps have happened so far

requests == <<req, reqTenant, form>>
tenants == <<tstatus, tslug>>
people == <<role, member, access>>
local == <<pc, slugOf, tenantOf, seen, todo, who>>
vars == <<requests, tenants, people, auto, local, steps, mishaps>>

ReqStatus == {"none", "PENDING", "APPROVED", "REJECTED"}
Decided == {"APPROVED", "REJECTED"}
TenantStatus == {"none", "PROVISIONING", "ACTIVE", "SUSPENDED", "gone"}
Role == {"none", "PENDING", "VIEWER", "ADMIN"}
MemberRole == {"none", "MEMBER", "OWNER"}
AccessStatus == {"none", "PENDING", "FULFILLED"}
PCs == {"idle", "create", "reject", "tenant", "provision", "activate", "find",
        "contact", "owner", "invite", "member", "sides", "side", "fulfil",
        "finish", "ask"}
Mishaps == {"error", "contest", "overlap", "admin", "signup", "lateask"}
Form == [contact: Users \cup {NoUser}, invitees: SUBSET Users]

TypeOK ==
    /\ req \in [Slugs -> ReqStatus]
    /\ reqTenant \in [Slugs -> Tenants \cup {NoTenant}]
    /\ form \in [Slugs -> Form]
    /\ tstatus \in [Tenants -> TenantStatus]
    /\ tslug \in [Tenants -> Slugs \cup {NoSlug}]
    /\ role \in [Users -> Role]
    /\ member \in [Tenants -> [Users -> MemberRole]]
    /\ access \in [Tenants -> [Users -> AccessStatus]]
    /\ auto \in BOOLEAN
    /\ pc \in [Handlers -> PCs]
    /\ slugOf \in [Handlers -> Slugs \cup {NoSlug}]
    /\ tenantOf \in [Handlers -> Tenants \cup {NoTenant}]
    /\ seen \in [Handlers -> Role \cup AccessStatus]
    /\ todo \in [Handlers -> SUBSET Users]
    /\ who \in [Handlers -> Users \cup {NoUser}]
    /\ steps \in Nat
    /\ mishaps \in SUBSET Mishaps

Init ==
    /\ req = [s \in Slugs |-> "none"]
    /\ reqTenant = [s \in Slugs |-> NoTenant]
    /\ form = [s \in Slugs |-> [contact |-> NoUser, invitees |-> {}]]
    /\ tstatus = [t \in Tenants |-> "none"]
    /\ tslug = [t \in Tenants |-> NoSlug]
    /\ role = [u \in Users |-> "none"]
    /\ member = [t \in Tenants |-> [u \in Users |-> "none"]]
    /\ access = [t \in Tenants |-> [u \in Users |-> "none"]]
    /\ auto \in BOOLEAN
    /\ pc = [h \in Handlers |-> "idle"]
    /\ slugOf = [h \in Handlers |-> NoSlug]
    /\ tenantOf = [h \in Handlers |-> NoTenant]
    /\ seen = [h \in Handlers |-> "none"]
    /\ todo = [h \in Handlers |-> {}]
    /\ who = [h \in Handlers |-> NoUser]
    /\ steps = 0
    /\ mishaps = {}

-----------------------------------------------------------------------------
(* Helpers *)

Busy(h) == pc[h] # "idle"
Live(t) == tstatus[t] \notin {"none", "gone"}
SlugTaken(s) == \E t \in Tenants : Live(t) /\ tslug[t] = s
Handling(s) == {h \in Handlers : Busy(h) /\ slugOf[h] = s}
Approving(t) == {h \in Handlers : Busy(h) /\ slugOf[h] # NoSlug /\ tenantOf[h] = t}
Contact(h) == form[slugOf[h]].contact
Invitees(h) == form[slugOf[h]].invitees

Note(m, happened) == mishaps' = IF happened THEN mishaps \cup {m} ELSE mishaps

Goto(h, at) == pc' = [pc EXCEPT ![h] = at]

(* The handler has answered, whether with a result or an error. *)
End(h) ==
    /\ pc' = [pc EXCEPT ![h] = "idle"]
    /\ slugOf' = [slugOf EXCEPT ![h] = NoSlug]
    /\ tenantOf' = [tenantOf EXCEPT ![h] = NoTenant]
    /\ seen' = [seen EXCEPT ![h] = "none"]
    /\ todo' = [todo EXCEPT ![h] = {}]
    /\ who' = [who EXCEPT ![h] = NoUser]

(* A statement that throws ends the handler and writes nothing. *)
Throws(h) == End(h) /\ UNCHANGED <<requests, tenants, people, auto, steps, mishaps>>

Step == steps < MaxSteps /\ steps' = steps + 1

Start(h, at, s, t, u) ==
    /\ ~Busy(h) /\ Step
    /\ Goto(h, at)
    /\ slugOf' = [slugOf EXCEPT ![h] = s]
    /\ tenantOf' = [tenantOf EXCEPT ![h] = t]
    /\ who' = [who EXCEPT ![h] = u]
    /\ mishaps' = mishaps
         \cup (IF \E g \in Handlers : Busy(g) THEN {"overlap"} ELSE {})
         \cup (IF at \in {"tenant", "reject"} /\ Handling(s) # {} THEN {"contest"} ELSE {})

(* A membership comes into being while its user is between the check and   *)
(* the write of a request for access.                                      *)
AskedFor(t, u) ==
    \E h \in Handlers : pc[h] = "ask" /\ tenantOf[h] = t /\ who[h] = u

(* A user comes into being while an approval that has not found it is      *)
(* about to create it.                                                     *)
AboutToCreate(u) ==
    \E h \in Handlers : pc[h] = "contact" /\ seen[h] = "none" /\ Contact(h) = u

-----------------------------------------------------------------------------
(* Requests and their review *)

(* Mutant: the slug is looked up among the requests only. *)
SubmitUnlessRequested(h, s) ==
    /\ req[s] = "none"
    /\ Start(h, "create", s, NoTenant, NoUser)
    /\ UNCHANGED <<requests, tenants, people, auto, seen, todo>>

(* POST /api/tenant-requests: no tenant and no request has the slug. *)
Submit(h, s) ==
    /\ ~SlugTaken(s) /\ req[s] = "none"
    /\ Start(h, "create", s, NoTenant, NoUser)
    /\ UNCHANGED <<requests, tenants, people, auto, seen, todo>>

(* The invitees are normalised: the contact is not one of them.  With      *)
(* automatic approval the same handler goes on to approve; a failure of    *)
(* that is swallowed, so there as elsewhere it just ends the handler.      *)
Create(h) ==
    /\ pc[h] = "create"
    /\ LET s == slugOf[h] IN
       \/ /\ req[s] = "none"
          /\ \E u \in Users, invitees \in SUBSET Users :
                /\ u \notin invitees
                /\ form' = [form EXCEPT ![s] = [contact |-> u, invitees |-> invitees]]
          /\ req' = [req EXCEPT ![s] = "PENDING"]
          /\ IF auto
             THEN Goto(h, "tenant") /\ UNCHANGED <<slugOf, tenantOf, seen, todo, who>>
             ELSE End(h)
          /\ UNCHANGED <<reqTenant, tenants, people, auto, steps, mishaps>>
       \/ req[s] # "none" /\ Throws(h)

(* Mutant: the status is not looked at. *)
ReviewAnyStatus(h, s) ==
    /\ req[s] # "none"
    /\ \E at \in {"reject", "tenant"} : Start(h, at, s, NoTenant, NoUser)
    /\ UNCHANGED <<requests, tenants, people, auto, seen, todo>>

(* POST /:id/review reads the request and refuses one that is not PENDING. *)
Review(h, s) ==
    /\ req[s] = "PENDING"
    /\ \E at \in {"reject", "tenant"} : Start(h, at, s, NoTenant, NoUser)
    /\ UNCHANGED <<requests, tenants, people, auto, seen, todo>>

(* The rejection writes without looking again and leaves tenantId alone. *)
Reject(h) ==
    /\ pc[h] = "reject"
    /\ req' = [req EXCEPT ![slugOf[h]] = "REJECTED"]
    /\ End(h)
    /\ UNCHANGED <<reqTenant, form, tenants, people, auto, steps, mishaps>>

-----------------------------------------------------------------------------
(* An approval, statement by statement (approveTenantRequestRecord) *)

CreateTenant(h) ==
    /\ pc[h] = "tenant"
    /\ \/ /\ ~SlugTaken(slugOf[h])
          /\ \E t \in Tenants :
                /\ tstatus[t] = "none"
                /\ tstatus' = [tstatus EXCEPT ![t] = "PROVISIONING"]
                /\ tslug' = [tslug EXCEPT ![t] = slugOf[h]]
                /\ tenantOf' = [tenantOf EXCEPT ![h] = t]
          /\ Goto(h, "provision")
          /\ UNCHANGED <<requests, people, auto, slugOf, seen, todo, who, steps, mishaps>>
       \/ SlugTaken(slugOf[h]) /\ Throws(h)

(* provisionTenant, which POST /tenants/:id/provision calls as well: the   *)
(* tenant must exist and be PROVISIONING ...                               *)
Provision(h) ==
    /\ pc[h] = "provision"
    /\ \/ /\ tstatus[tenantOf[h]] = "PROVISIONING"
          /\ Goto(h, "activate")
          /\ UNCHANGED <<requests, tenants, people, auto, slugOf, tenantOf, seen, todo, who, steps, mishaps>>
       \/ tstatus[tenantOf[h]] # "PROVISIONING" /\ Throws(h)

(* ... and becomes ACTIVE whatever it is by then. *)
Activate(h) ==
    /\ pc[h] = "activate"
    /\ \/ /\ Live(tenantOf[h])
          /\ tstatus' = [tstatus EXCEPT ![tenantOf[h]] = "ACTIVE"]
          /\ IF slugOf[h] = NoSlug
             THEN End(h)
             ELSE Goto(h, "find") /\ UNCHANGED <<slugOf, tenantOf, seen, todo, who>>
          /\ UNCHANGED <<requests, tslug, people, auto, steps, mishaps>>
       \/ ~Live(tenantOf[h]) /\ Throws(h)

FindContact(h) ==
    /\ pc[h] = "find"
    /\ seen' = [seen EXCEPT ![h] = role[Contact(h)]]
    /\ Goto(h, "contact")
    /\ UNCHANGED <<requests, tenants, people, auto, slugOf, tenantOf, todo, who, steps, mishaps>>

(* A contact not found is created, which throws when it exists by now. *)
WriteContact(h) ==
    /\ pc[h] = "contact"
    /\ LET u == Contact(h) IN
       \/ /\ seen[h] = "none" <=> role[u] = "none"
          /\ role' = [role EXCEPT ![u] = "ADMIN"]
          /\ Goto(h, "owner")
          /\ Note("signup", role[u] = "none" /\ \E g \in Handlers \ {h} :
                pc[g] = "contact" /\ seen[g] = "none" /\ Contact(g) = u)
          /\ UNCHANGED <<requests, tenants, member, access, auto, slugOf, tenantOf, seen, todo, who, steps>>
       \/ seen[h] = "none" /\ role[u] # "none" /\ Throws(h)

(* The users an approval, or POST /tenants/:id/members, has made members.  *)
Joined(h) == IF slugOf[h] = NoSlug THEN {who[h]} ELSE {Contact(h)} \cup Invitees(h)

(* The side effects of the users left, then the access requests of all.    *)
SidesOrFulfil(h, left) ==
    /\ Goto(h, IF left = {} THEN "fulfil" ELSE "sides")
    /\ todo' = [todo EXCEPT ![h] = IF left = {} THEN Joined(h) ELSE left]

(* Mutant: a membership the contact has already is left as it is. *)
OwnUnlessMember(h) ==
    /\ pc[h] = "owner" /\ Live(tenantOf[h])
    /\ member' = IF member[tenantOf[h]][Contact(h)] = "none"
                 THEN [member EXCEPT ![tenantOf[h]][Contact(h)] = "OWNER"] ELSE member
    /\ Note("lateask", AskedFor(tenantOf[h], Contact(h)))
    /\ Goto(h, "invite")
    /\ UNCHANGED <<requests, tenants, role, access, auto, slugOf, tenantOf, seen, todo, who, steps>>

(* The contact's membership is created, or made that of an OWNER. *)
Own(h) ==
    /\ pc[h] = "owner"
    /\ LET t == tenantOf[h]  u == Contact(h) IN
       \/ /\ Live(t)
          /\ member' = [member EXCEPT ![t][u] = "OWNER"]
          /\ Note("lateask", member[t][u] = "none" /\ AskedFor(t, u))
          /\ Goto(h, "invite")
          /\ UNCHANGED <<requests, tenants, role, access, auto, slugOf, tenantOf, seen, todo, who, steps>>
       \/ ~Live(t) /\ Throws(h)

(* One transaction: every invitee becomes a VIEWER, if new, and a MEMBER,  *)
(* unless a member.                                                        *)
Invite(h) ==
    /\ pc[h] = "invite"
    /\ LET t == tenantOf[h]
           new == {u \in Invitees(h) : role[u] = "none"}
           joining == {u \in Invitees(h) : member[t][u] = "none"}
       IN
       \/ /\ Live(t) \/ Invitees(h) = {}
          /\ role' = [u \in Users |-> IF u \in new THEN "VIEWER" ELSE role[u]]
          /\ member' = [member EXCEPT ![t] =
                [u \in Users |-> IF u \in joining THEN "MEMBER" ELSE @[u]]]
          /\ mishaps' = mishaps
                \cup (IF \E u \in new : AboutToCreate(u) THEN {"signup"} ELSE {})
                \cup (IF \E u \in joining : AskedFor(t, u) THEN {"lateask"} ELSE {})
          /\ SidesOrFulfil(h, Invitees(h))
          /\ UNCHANGED <<requests, tenants, access, auto, slugOf, tenantOf, seen, who, steps>>
       \/ ~Live(t) /\ Invitees(h) # {} /\ Throws(h)

(* applyWorkspaceInviteSideEffects reads the role of the next user ...     *)
ReadRole(h) ==
    /\ pc[h] = "sides"
    /\ \E u \in todo[h] :
          IF role[u] = "PENDING"
          THEN /\ Goto(h, "side")
               /\ todo' = [todo EXCEPT ![h] = @ \ {u}]
               /\ who' = [who EXCEPT ![h] = u]
          ELSE SidesOrFulfil(h, todo[h] \ {u}) /\ UNCHANGED who
    /\ UNCHANGED <<requests, tenants, people, auto, slugOf, tenantOf, seen, steps, mishaps>>

(* ... and lets a PENDING one in, whatever the role is by then.            *)
LetIn(h) ==
    /\ pc[h] = "side"
    /\ role' = [role EXCEPT ![who[h]] = "VIEWER"]
    /\ SidesOrFulfil(h, todo[h])
    /\ UNCHANGED <<requests, tenants, member, access, auto, slugOf, tenantOf, seen, who, steps, mishaps>>

(* Mutant: the status of another kind of request is written.               *)
ApprovedAccess(h, u) ==
    [access EXCEPT ![tenantOf[h]][u] = IF @ = "PENDING" THEN "APPROVED" ELSE @]

FulfilledAccess(h, u) ==
    [access EXCEPT ![tenantOf[h]][u] = IF @ = "PENDING" THEN "FULFILLED" ELSE @]

(* fulfillWorkspaceAccessRequestsForMembership, user by user.              *)
Fulfil(h) ==
    /\ pc[h] = "fulfil"
    /\ \E u \in todo[h] :
          /\ access' = FulfilledAccess(h, u)
          /\ IF todo[h] # {u}
             THEN /\ todo' = [todo EXCEPT ![h] = @ \ {u}]
                  /\ UNCHANGED <<pc, slugOf, tenantOf, seen, who>>
             ELSE IF slugOf[h] = NoSlug THEN End(h)
             ELSE /\ Goto(h, "finish")
                  /\ todo' = [todo EXCEPT ![h] = {}]
                  /\ UNCHANGED <<slugOf, tenantOf, seen, who>>
    /\ UNCHANGED <<requests, tenants, role, member, auto, steps, mishaps>>

(* The request is written last, without looking at its status again; its   *)
(* foreign key wants the tenant to exist.                                  *)
Finish(h) ==
    /\ pc[h] = "finish"
    /\ \/ /\ Live(tenantOf[h])
          /\ req' = [req EXCEPT ![slugOf[h]] = "APPROVED"]
          /\ reqTenant' = [reqTenant EXCEPT ![slugOf[h]] = tenantOf[h]]
          /\ End(h)
          /\ UNCHANGED <<form, tenants, people, auto, steps, mishaps>>
       \/ ~Live(tenantOf[h]) /\ Throws(h)

-----------------------------------------------------------------------------
(* Administrators (tenants.ts) *)

(* An administrator touches a tenant, or takes a slug, of a registration   *)
(* that is not decided.                                                    *)
Meddles(ts, ss) ==
    Note("admin", \/ \E t \in ts : Approving(t) # {}
                  \/ \E s \in ss : req[s] = "PENDING" \/ Handling(s) # {})

AdminCreateTenant(s) ==
    /\ Step
    /\ ~SlugTaken(s)
    /\ \E t \in Tenants :
          /\ tstatus[t] = "none"
          /\ tstatus' = [tstatus EXCEPT ![t] = "PROVISIONING"]
          /\ tslug' = [tslug EXCEPT ![t] = s]
    /\ Meddles({}, {s})
    /\ UNCHANGED <<requests, people, auto, local>>

(* POST /tenants/:id/provision.                                            *)
AdminProvision(h, t) ==
    /\ Live(t)
    /\ ~Busy(h) /\ Step
    /\ Goto(h, "provision")
    /\ tenantOf' = [tenantOf EXCEPT ![h] = t]
    /\ mishaps' = mishaps
         \cup (IF \E g \in Handlers : Busy(g) THEN {"overlap"} ELSE {})
         \cup (IF Approving(t) # {} THEN {"admin"} ELSE {})
    /\ UNCHANGED <<requests, tenants, people, auto, slugOf, seen, todo, who>>

(* PATCH /tenants/:id: the status and the slug, which must stay unique.    *)
PatchTenant(t) ==
    /\ Step
    /\ Live(t)
    /\ \/ /\ tstatus' \in {[tstatus EXCEPT ![t] = st] : st \in {"ACTIVE", "SUSPENDED"}}
          /\ Meddles({t}, {})
          /\ UNCHANGED tslug
       \/ \E s \in Slugs :
             /\ ~SlugTaken(s)
             /\ tslug' = [tslug EXCEPT ![t] = s]
             /\ Meddles({t}, {s, tslug[t]})
             /\ UNCHANGED tstatus
    /\ UNCHANGED <<requests, people, auto, local>>

(* Mutant: the link to a request is not looked at. *)
DeleteAnyTenant(t) ==
    /\ Step
    /\ Live(t)
    /\ tstatus' = [tstatus EXCEPT ![t] = "gone"]
    /\ member' = [member EXCEPT ![t] = [u \in Users |-> "none"]]
    /\ access' = [access EXCEPT ![t] = [u \in Users |-> "none"]]
    /\ Meddles({t}, {})
    /\ UNCHANGED <<requests, tslug, role, auto, local>>

(* DELETE /tenants/:id: refused, by the route and by the foreign key, while*)
(* a request is linked; memberships and access requests go with the row.   *)
DeleteTenant(t) ==
    /\ Step
    /\ Live(t)
    /\ \A s \in Slugs : reqTenant[s] # t
    /\ tstatus' = [tstatus EXCEPT ![t] = "gone"]
    /\ member' = [member EXCEPT ![t] = [u \in Users |-> "none"]]
    /\ access' = [access EXCEPT ![t] = [u \in Users |-> "none"]]
    /\ Meddles({t}, {})
    /\ UNCHANGED <<requests, tslug, role, auto, local>>

(* POST /tenants/:id/members creates the membership; side effects and      *)
(* access requests follow as in an approval.                               *)
AddMember(h, t, u) ==
    /\ Live(t) /\ role[u] # "none" /\ member[t][u] = "none"
    /\ ~Busy(h) /\ Step
    /\ Goto(h, "sides")
    /\ tenantOf' = [tenantOf EXCEPT ![h] = t]
    /\ who' = [who EXCEPT ![h] = u]
    /\ todo' = [todo EXCEPT ![h] = {u}]
    /\ \E r \in {"MEMBER", "OWNER"} : member' = [member EXCEPT ![t][u] = r]
    /\ mishaps' = mishaps
         \cup (IF \E g \in Handlers : Busy(g) THEN {"overlap"} ELSE {})
         \cup (IF AskedFor(t, u) THEN {"lateask"} ELSE {})
    /\ UNCHANGED <<requests, tenants, role, access, auto, slugOf, seen>>

RemoveMember(t, u) ==
    /\ Step
    /\ member[t][u] # "none"
    /\ member' = [member EXCEPT ![t][u] = "none"]
    /\ Meddles({t}, {})
    /\ UNCHANGED <<requests, tenants, role, access, auto, local>>

-----------------------------------------------------------------------------
(* Users *)

(* The first sign-in (resolveOrCreateOAuthUser and its kin): PENDING, or   *)
(* for addresses the server knows a role that is let in.                   *)
SignIn(u) ==
    /\ Step
    /\ role[u] = "none"
    /\ \E r \in {"PENDING", "VIEWER"} : role' = [role EXCEPT ![u] = r]
    /\ Note("signup", AboutToCreate(u))
    /\ UNCHANGED <<requests, tenants, member, access, auto, local>>

(* Mutant: whether the user is a member is not looked at.                  *)
AskAnyway(h, t, u) ==
    /\ tstatus[t] = "ACTIVE" /\ role[u] # "none"
    /\ access[t][u] # "PENDING"
    /\ Start(h, "ask", NoSlug, t, u)
    /\ seen' = [seen EXCEPT ![h] = access[t][u]]
    /\ UNCHANGED <<requests, tenants, people, auto, todo>>

(* POST /me/workspace-access-request: the workspace is ACTIVE, the user no *)
(* member, and nothing is PENDING yet.                                     *)
AskAccess(h, t, u) ==
    /\ tstatus[t] = "ACTIVE" /\ role[u] # "none"
    /\ member[t][u] = "none" /\ access[t][u] # "PENDING"
    /\ Start(h, "ask", NoSlug, t, u)
    /\ seen' = [seen EXCEPT ![h] = access[t][u]]
    /\ UNCHANGED <<requests, tenants, people, auto, todo>>

(* A FULFILLED request becomes PENDING again, otherwise one is created,    *)
(* which throws when there is one by now.                                  *)
WriteAsk(h) ==
    /\ pc[h] = "ask"
    /\ LET t == tenantOf[h]  u == who[h] IN
       \/ /\ Live(t) /\ (seen[h] = "none" <=> access[t][u] = "none")
          /\ access' = [access EXCEPT ![t][u] = "PENDING"]
          /\ End(h)
          /\ UNCHANGED <<requests, tenants, role, member, auto, steps, mishaps>>
       \/ /\ ~Live(t) \/ (seen[h] = "none" /\ access[t][u] # "none")
          /\ Throws(h)

-----------------------------------------------------------------------------
(* Failures *)

(* The database refuses a statement, or the connection is lost. *)
Fail(h) ==
    /\ Busy(h)
    /\ End(h)
    /\ Note("error", TRUE)
    /\ UNCHANGED <<requests, tenants, people, auto, steps>>

(* A deploy: requests in flight are lost and the setting may be another.   *)
Restart ==
    /\ pc' = [h \in Handlers |-> "idle"]
    /\ slugOf' = [h \in Handlers |-> NoSlug]
    /\ tenantOf' = [h \in Handlers |-> NoTenant]
    /\ seen' = [h \in Handlers |-> "none"]
    /\ todo' = [h \in Handlers |-> {}]
    /\ who' = [h \in Handlers |-> NoUser]
    /\ auto' \in BOOLEAN
    /\ Note("error", \E h \in Handlers : Busy(h))
    /\ UNCHANGED <<requests, tenants, people, steps>>

Statement(h) ==
    \/ Create(h) \/ Reject(h) \/ CreateTenant(h) \/ Provision(h) \/ Activate(h)
    \/ FindContact(h) \/ WriteContact(h) \/ Own(h) \/ Invite(h) \/ ReadRole(h)
    \/ LetIn(h) \/ Fulfil(h) \/ Finish(h) \/ WriteAsk(h)

Next ==
    \/ \E h \in Handlers, s \in Slugs : Submit(h, s) \/ Review(h, s)
    \/ \E h \in Handlers : Statement(h) \/ Fail(h)
    \/ \E s \in Slugs : AdminCreateTenant(s)
    \/ \E t \in Tenants : PatchTenant(t) \/ DeleteTenant(t)
    \/ \E h \in Handlers, t \in Tenants : AdminProvision(h, t)
    \/ \E h \in Handlers, t \in Tenants, u \in Users : AddMember(h, t, u) \/ AskAccess(h, t, u)
    \/ \E t \in Tenants, u \in Users : RemoveMember(t, u)
    \/ \E u \in Users : SignIn(u)
    \/ Restart

Spec == Init /\ [][Next]_vars

-----------------------------------------------------------------------------
(* Properties *)

(* A decision stands: as long as no two handlers worked on one request at  *)
(* a time, an approved or rejected request keeps its status; and once a    *)
(* request has its workspace it keeps that one, even when handlers did     *)
(* overlap, unless an administrator renamed or deleted under their hands.  *)
(* Nothing but the unique slug keeps the second approval from creating     *)
(* another workspace.                                                      *)
DecisionStands ==
    [][\A s \in Slugs :
          /\ req[s] \in Decided /\ "contest" \notin mishaps => req'[s] = req[s]
          /\ reqTenant[s] # NoTenant /\ "admin" \notin mishaps
                => reqTenant'[s] = reqTenant[s]]_vars

(* A workspace that a request led to stays: an approved request points to  *)
(* a tenant that exists, and no two requests share one.                    *)
LinkIsSound ==
    /\ \A s \in Slugs : req[s] = "APPROVED" => Live(reqTenant[s])
    /\ \A s, r \in Slugs :
          reqTenant[s] = reqTenant[r] /\ s # r => reqTenant[s] = NoTenant

(* A request that waits can still be approved: its slug is free.  It can   *)
(* be stranded, its workspace half made and its slug taken, by an error or *)
(* a restart in the middle of an approval, by a sign-up of the contact at  *)
(* the wrong moment and by an administrator, and by nothing else.          *)
StillApprovable ==
    \A s \in Slugs :
        /\ req[s] = "PENDING" /\ Handling(s) = {}
        /\ mishaps \cap {"error", "signup", "admin"} = {}
        => ~SlugTaken(s)

(* What an approval announces is there: when a request becomes APPROVED    *)
(* its workspace is ACTIVE, the contact owns it and is an ADMIN, every     *)
(* invitee is a member whom the platform lets in, and no one of them is    *)
(* left waiting for access; an administrator's hand in it, handlers that   *)
(* overlap (for the roles) and an access request that raced it aside.      *)
ApprovalIsComplete ==
    [][\A s \in Slugs :
          req[s] # "APPROVED" /\ req'[s] = "APPROVED" /\ "admin" \notin mishaps =>
          LET t == reqTenant'[s]
              joined == {form[s].contact} \cup form[s].invitees
          IN /\ tstatus[t] = "ACTIVE"
             /\ member[t][form[s].contact] = "OWNER"
             /\ \A u \in joined : member[t][u] # "none" /\ role[u] \notin {"none", "PENDING"}
             /\ "overlap" \notin mishaps => role[form[s].contact] = "ADMIN"
             /\ "lateask" \notin mishaps => \A u \in joined : access[t][u] # "PENDING"]_vars

(* A request for access by someone who is a member by now is answered:     *)
(* once the handlers are done none is PENDING, unless one of them failed   *)
(* or the membership came between the check and the write of the request.  *)
AccessAnswered ==
    (\A h \in Handlers : ~Busy(h)) /\ mishaps \cap {"error", "lateask"} = {} =>
        \A t \in Tenants, u \in Users :
            member[t][u] # "none" => access[t][u] # "PENDING"
=============================================================================
