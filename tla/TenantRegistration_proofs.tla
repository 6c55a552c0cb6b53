--------------------- MODULE TenantRegistration_proofs ---------------------
(***************************************************************************)
(* Proofs for TenantRegistration, for any number of slugs, tenants, users  *)
(* and handlers: types; that links are sound; that a decision stands and a *)
(* workspace stays with its request; that what an approval announces is    *)
(* there; that a request that waits can be approved; and that members do   *)
(* not wait for access.                                                    *)
(***************************************************************************)
EXTENDS TenantRegistration, TLAPS

(* What a handler works on is there when a statement needs it. *)
HandlerInv ==
    \A h \in Handlers :
        /\ pc[h] \in {"create", "reject", "tenant", "find", "contact", "owner", "invite", "finish"}
              => slugOf[h] \in Slugs
        /\ pc[h] \in PCs \ {"idle", "create", "reject", "tenant"} => tenantOf[h] \in Tenants
        /\ pc[h] \in {"side", "ask"} => who[h] \in Users
        /\ pc[h] \in {"sides", "side", "fulfil"} /\ slugOf[h] = NoSlug => who[h] \in Users
        /\ pc[h] = "idle" => slugOf[h] = NoSlug

(* A request that exists has a contact, and one past its creation exists.  *)
RequestInv ==
    /\ \A s \in Slugs : req[s] # "none" => form[s].contact \in Users
    /\ \A h \in Handlers : slugOf[h] # NoSlug /\ pc[h] # "create" => req[slugOf[h]] # "none"

(* The tenants that approvals have made and not linked yet. *)
Made(h) == slugOf[h] # NoSlug /\ tenantOf[h] # NoTenant

(* Links lead to tenants that live, no two to the same one, and none to a  *)
(* tenant that an approval under way has made; no two approvals have made  *)
(* one tenant, which has been there since.                                 *)
LinkInv ==
    /\ \A s \in Slugs : reqTenant[s] # NoTenant => Live(reqTenant[s])
    /\ \A s \in Slugs : req[s] = "APPROVED" => reqTenant[s] # NoTenant
    /\ \A s, r \in Slugs : reqTenant[s] = reqTenant[r] /\ s # r => reqTenant[s] = NoTenant
    /\ \A h \in Handlers : Made(h) =>
          /\ tstatus[tenantOf[h]] # "none"
          /\ \A s \in Slugs : reqTenant[s] # tenantOf[h]
          /\ \A g \in Handlers : Made(g) /\ tenantOf[g] = tenantOf[h] => g = h

IInv == TypeOK /\ HandlerInv /\ RequestInv /\ LinkInv

-----------------------------------------------------------------------------
(* The initial states satisfy the invariant. *)
LEMMA InitInv == Init => IInv
  BY NoneApart
  DEF Init, IInv, TypeOK, HandlerInv, RequestInv, LinkInv, Made, Live, ReqStatus,
      TenantStatus, Role, MemberRole, AccessStatus, PCs, Mishaps, Form

(* TypeOK in three parts: what is stored, where handlers stand, and what   *)
(* is counted.                                                             *)
RowsOK ==
    /\ req \in [Slugs -> ReqStatus]
    /\ reqTenant \in [Slugs -> Tenants \cup {NoTenant}]
    /\ form \in [Slugs -> Form]
    /\ tstatus \in [Tenants -> TenantStatus]
    /\ tslug \in [Tenants -> Slugs \cup {NoSlug}]
    /\ role \in [Users -> Role]
    /\ member \in [Tenants -> [Users -> MemberRole]]
    /\ access \in [Tenants -> [Users -> AccessStatus]]
    /\ auto \in BOOLEAN

LocalOK ==
    /\ pc \in [Handlers -> PCs]
    /\ slugOf \in [Handlers -> Slugs \cup {NoSlug}]
    /\ tenantOf \in [Handlers -> Tenants \cup {NoTenant}]
    /\ seen \in [Handlers -> Role \cup AccessStatus]
    /\ todo \in [Handlers -> SUBSET Users]
    /\ who \in [Handlers -> Users \cup {NoUser}]

HistoryOK == steps \in Nat /\ mishaps \in SUBSET Mishaps

RowVars == <<requests, tenants, people, auto>>

(* A handler ends, or goes on and leaves the rest of its state. *)
LEMMA EndTypes ==
    ASSUME LocalOK, NEW h \in Handlers, End(h)
    PROVE  LocalOK'
  BY DEF LocalOK, End, PCs, Role

LEMMA GotoTypes ==
    ASSUME LocalOK, NEW h \in Handlers, NEW at \in PCs, Goto(h, at),
           UNCHANGED <<slugOf, tenantOf, seen, todo, who>>
    PROVE  LocalOK'
  BY DEF LocalOK, Goto

LEMMA SameRows == ASSUME RowsOK, UNCHANGED RowVars PROVE RowsOK'
  BY DEF RowsOK, RowVars, requests, tenants, people

LEMMA SameHistory == ASSUME HistoryOK, UNCHANGED <<steps, mishaps>> PROVE HistoryOK'
  BY DEF HistoryOK

LEMMA NoteTypes ==
    ASSUME HistoryOK, NEW m \in Mishaps, NEW b \in BOOLEAN, Note(m, b), UNCHANGED steps
    PROVE  HistoryOK'
  BY DEF HistoryOK, Note

LEMMA ThrowsTypes ==
    ASSUME RowsOK, LocalOK, HistoryOK, NEW h \in Handlers, Throws(h)
    PROVE  RowsOK' /\ LocalOK' /\ HistoryOK'
  BY EndTypes, SameRows, SameHistory DEF Throws, RowVars

(* What the contact, the invitees and the joined of a handler are.         *)
LEMMA FormTypes ==
    ASSUME RowsOK, LocalOK, HandlerInv, RequestInv, NEW h \in Handlers
    PROVE  /\ slugOf[h] \in Slugs => Invitees(h) \in SUBSET Users
           /\ slugOf[h] \in Slugs /\ pc[h] # "create" => Contact(h) \in Users
           /\ pc[h] \in {"invite", "sides", "side", "fulfil"} => Joined(h) \in SUBSET Users
<1>1. slugOf[h] \in Slugs => form[slugOf[h]] \in Form
  BY DEF RowsOK
<1>2. slugOf[h] \in Slugs => Invitees(h) \in SUBSET Users
  BY <1>1 DEF Invitees, Form
<1>3. slugOf[h] \in Slugs /\ pc[h] # "create" => Contact(h) \in Users
  BY NoneApart DEF RequestInv, Contact
<1>4. pc[h] \in {"sides", "side", "fulfil"} /\ slugOf[h] = NoSlug => who[h] \in Users
  BY DEF HandlerInv
<1>5. pc[h] = "invite" => slugOf[h] \in Slugs
  BY DEF HandlerInv
<1>6. slugOf[h] \in Slugs \/ slugOf[h] = NoSlug
  BY DEF LocalOK
<1> QED BY <1>2, <1>3, <1>4, <1>5, <1>6, NoneApart DEF Joined

(* Requests and their review keep the types.                               *)
LEMMA ReviewTypes ==
    ASSUME RowsOK, LocalOK, HistoryOK, HandlerInv, RequestInv,
           NEW h \in Handlers,
           (\E s \in Slugs : Submit(h, s) \/ Review(h, s)) \/ Create(h) \/ Reject(h)
    PROVE  RowsOK' /\ LocalOK' /\ HistoryOK'
<1>1. ASSUME NEW s \in Slugs, Submit(h, s) \/ Review(h, s)
      PROVE  RowsOK' /\ LocalOK' /\ HistoryOK'
  <2>1. PICK at \in {"create", "reject", "tenant"} : Start(h, at, s, NoTenant, NoUser)
    BY <1>1 DEF Submit, Review
  <2>2. at \in PCs
    BY DEF PCs
  <2>3. UNCHANGED <<RowVars, seen, todo>>
    BY <1>1 DEF Submit, Review, RowVars
  <2>4. LocalOK'
    BY <2>1, <2>2, <2>3 DEF LocalOK, Start, Goto
  <2>5. HistoryOK'
    BY <2>1 DEF HistoryOK, Mishaps, Start, Step
  <2> QED BY <2>3, <2>4, <2>5, SameRows
<1>2. CASE Create(h) /\ ~Throws(h)
  <2>1. slugOf[h] \in Slugs
    BY <1>2 DEF HandlerInv, Create
  <2>2. PICK u \in Users, invitees \in SUBSET Users :
            form' = [form EXCEPT ![slugOf[h]] = [contact |-> u, invitees |-> invitees]]
    BY <1>2 DEF Create
  <2>3. [contact |-> u, invitees |-> invitees] \in Form
    BY DEF Form
  <2>4. RowsOK'
    <3>1. req' = [req EXCEPT ![slugOf[h]] = "PENDING"] /\ "PENDING" \in ReqStatus
      BY <1>2 DEF Create, ReqStatus
    <3> QED BY <1>2, <2>1, <2>2, <2>3, <3>1 DEF RowsOK, Create, tenants, people
  <2>5. LocalOK'
    <3>1. "tenant" \in PCs
      BY DEF PCs
    <3> QED BY <1>2, <3>1, EndTypes, GotoTypes DEF Create
  <2> QED BY <1>2, <2>4, <2>5, SameHistory DEF Create
<1>3. CASE Reject(h)
  <2>1. slugOf[h] \in Slugs /\ "REJECTED" \in ReqStatus
    BY <1>3 DEF HandlerInv, Reject, ReqStatus
  <2>2. RowsOK'
    BY <1>3, <2>1 DEF RowsOK, Reject, tenants, people
  <2> QED BY <1>3, <2>2, EndTypes, SameHistory DEF Reject
<1>4. CASE Throws(h)
  BY <1>4, ThrowsTypes
<1> QED BY <1>1, <1>2, <1>3, <1>4

(* The first statements of an approval keep the types.                     *)
LEMMA TenantTypes ==
    ASSUME RowsOK, LocalOK, HistoryOK, HandlerInv, RequestInv, NEW h \in Handlers,
           CreateTenant(h) \/ Provision(h) \/ Activate(h)
    PROVE  RowsOK' /\ LocalOK' /\ HistoryOK'
<1> USE DEF HandlerInv
<1>0. {"provision", "activate", "find"} \subseteq PCs /\ {"PROVISIONING", "ACTIVE"} \subseteq TenantStatus
  BY DEF PCs, TenantStatus
<1>1. CASE CreateTenant(h) /\ ~Throws(h)
  <2>1. PICK t \in Tenants : /\ tstatus' = [tstatus EXCEPT ![t] = "PROVISIONING"]
                             /\ tslug' = [tslug EXCEPT ![t] = slugOf[h]]
                             /\ tenantOf' = [tenantOf EXCEPT ![h] = t]
    BY <1>1 DEF CreateTenant
  <2>2. slugOf[h] \in Slugs
    BY <1>1 DEF CreateTenant
  <2>3. RowsOK'
    BY <1>0, <1>1, <2>1, <2>2 DEF RowsOK, CreateTenant, requests, people
  <2>4. LocalOK'
    BY <1>0, <1>1, <2>1 DEF LocalOK, CreateTenant, Goto
  <2> QED BY <1>1, <2>3, <2>4, SameHistory DEF CreateTenant
<1>2. CASE Provision(h) /\ ~Throws(h)
  BY <1>0, <1>2, GotoTypes, SameRows, SameHistory DEF Provision, RowVars
<1>3. CASE Activate(h) /\ ~Throws(h)
  <2>1. tenantOf[h] \in Tenants
    BY <1>0, <1>3 DEF Activate, PCs
  <2>2. RowsOK'
    BY <1>0, <1>3, <2>1 DEF RowsOK, Activate, requests, people
  <2>3. LocalOK'
    BY <1>0, <1>3, EndTypes, GotoTypes DEF Activate
  <2> QED BY <1>3, <2>2, <2>3, SameHistory DEF Activate
<1>4. CASE Throws(h)
  BY <1>4, ThrowsTypes
<1> QED BY <1>1, <1>2, <1>3, <1>4

(* The statements on the contact keep the types.                           *)
LEMMA ContactTypes ==
    ASSUME RowsOK, LocalOK, HistoryOK, HandlerInv, RequestInv, NEW h \in Handlers,
           FindContact(h) \/ WriteContact(h) \/ Own(h)
    PROVE  RowsOK' /\ LocalOK' /\ HistoryOK'
<1>0. /\ {"contact", "owner", "invite"} \subseteq PCs /\ "ADMIN" \in Role /\ "OWNER" \in MemberRole
      /\ {"signup", "lateask"} \subseteq Mishaps
  BY DEF PCs, Role, MemberRole, Mishaps
<1>1. CASE FindContact(h)
  <2>1. slugOf[h] \in Slugs /\ pc[h] = "find"
    BY <1>1 DEF HandlerInv, FindContact
  <2>2. Contact(h) \in Users
    BY <2>1, FormTypes
  <2>3. LocalOK'
    BY <1>0, <1>1, <2>2 DEF LocalOK, RowsOK, FindContact, Goto
  <2> QED BY <1>1, <2>3, SameRows, SameHistory DEF FindContact, RowVars
<1>2. CASE WriteContact(h) /\ ~Throws(h)
  <2>1. RowsOK'
    BY <1>0, <1>2 DEF RowsOK, WriteContact, requests, tenants
  <2>2. LocalOK'
    BY <1>0, <1>2, GotoTypes DEF WriteContact
  <2>3. HistoryOK'
    BY <1>0, <1>2 DEF HistoryOK, WriteContact, Note
  <2> QED BY <2>1, <2>2, <2>3
<1>3. CASE Own(h) /\ ~Throws(h)
  <2>1. member' = [member EXCEPT ![tenantOf[h]] = [@ EXCEPT ![Contact(h)] = "OWNER"]]
    BY <1>3 DEF Own
  <2>2. RowsOK'
    BY <1>0, <1>3, <2>1 DEF RowsOK, Own, requests, tenants
  <2>3. LocalOK'
    BY <1>0, <1>3, GotoTypes DEF Own
  <2>4. HistoryOK'
    BY <1>0, <1>3 DEF HistoryOK, Own, Note
  <2> QED BY <2>2, <2>3, <2>4
<1>4. CASE Throws(h)
  BY <1>4, ThrowsTypes
<1> QED BY <1>1, <1>2, <1>3, <1>4

(* The statements on the invitees keep the types.                          *)
LEMMA InviteTypes ==
    ASSUME RowsOK, LocalOK, HistoryOK, HandlerInv, RequestInv, NEW h \in Handlers,
           Invite(h) \/ ReadRole(h) \/ LetIn(h)
    PROVE  RowsOK' /\ LocalOK' /\ HistoryOK'
<1>0. /\ {"sides", "side", "fulfil"} \subseteq PCs /\ "VIEWER" \in Role /\ "MEMBER" \in MemberRole
      /\ {"signup", "lateask"} \subseteq Mishaps
  BY DEF PCs, Role, MemberRole, Mishaps
<1>1. ASSUME NEW left \in SUBSET Users, SidesOrFulfil(h, left), UNCHANGED <<slugOf, tenantOf, seen, who>>,
             pc[h] \in {"invite", "sides", "side"}
      PROVE  LocalOK'
  <2>1. Joined(h) \in SUBSET Users
    BY <1>1, FormTypes
  <2> QED BY <1>0, <1>1, <2>1 DEF LocalOK, SidesOrFulfil, Goto
<1>2. CASE Invite(h) /\ ~Throws(h)
  <2>1. slugOf[h] \in Slugs /\ pc[h] = "invite"
    BY <1>2 DEF HandlerInv, Invite
  <2>2. Invitees(h) \in SUBSET Users
    BY <2>1, FormTypes
  <2>3. role' \in [Users -> Role]
    BY <1>0, <1>2 DEF RowsOK, Invite
  <2>4. member' \in [Tenants -> [Users -> MemberRole]]
    <3> DEFINE joining == {u \in Invitees(h) : member[tenantOf[h]][u] = "none"}
               joined == [u \in Users |-> IF u \in joining THEN "MEMBER"
                                          ELSE member[tenantOf[h]][u]]
    <3>1. tenantOf[h] \in Tenants
      BY <2>1 DEF HandlerInv, PCs
    <3>2. joined \in [Users -> MemberRole]
      BY <1>0, <3>1 DEF RowsOK
    <3>3. member' = [member EXCEPT ![tenantOf[h]] = joined]
      BY <1>2, <3>1 DEF RowsOK, Invite
    <3> HIDE DEF joined
    <3> QED BY <3>1, <3>2, <3>3 DEF RowsOK
  <2>5. HistoryOK'
    BY <1>0, <1>2 DEF HistoryOK, Invite
  <2>6. LocalOK'
    BY <1>1, <1>2, <2>1, <2>2 DEF Invite
  <2> QED BY <1>2, <2>3, <2>4, <2>5, <2>6 DEF RowsOK, Invite, requests, tenants
<1>3. CASE ReadRole(h)
  <2>1. PICK u \in todo[h] :
           IF role[u] = "PENDING"
           THEN /\ Goto(h, "side")
                /\ todo' = [todo EXCEPT ![h] = @ \ {u}]
                /\ who' = [who EXCEPT ![h] = u]
           ELSE SidesOrFulfil(h, todo[h] \ {u}) /\ UNCHANGED who
    BY <1>3 DEF ReadRole
  <2>2. todo[h] \in SUBSET Users
    BY DEF LocalOK
  <2>3. CASE role[u] = "PENDING"
    BY <1>0, <1>3, <2>1, <2>2, <2>3, SameRows, SameHistory DEF LocalOK, ReadRole, Goto, RowVars
  <2>4. CASE role[u] # "PENDING"
    BY <1>1, <1>3, <2>1, <2>2, <2>4, SameRows, SameHistory DEF ReadRole, RowVars
  <2> QED BY <2>3, <2>4
<1>4. CASE LetIn(h)
  <2>1. todo[h] \in SUBSET Users
    BY DEF LocalOK
  <2>2. LocalOK'
    BY <1>1, <1>4, <2>1 DEF LetIn
  <2>3. RowsOK'
    BY <1>0, <1>4 DEF RowsOK, LetIn, requests, tenants
  <2> QED BY <1>4, <2>2, <2>3, SameHistory DEF LetIn
<1>5. CASE Throws(h)
  BY <1>5, ThrowsTypes
<1> QED BY <1>2, <1>3, <1>4, <1>5

(* The last statements, and failures, keep the types.                      *)
LEMMA FinishTypes ==
    ASSUME RowsOK, LocalOK, HistoryOK, HandlerInv, RequestInv, NEW h \in Handlers,
           Fulfil(h) \/ Finish(h) \/ WriteAsk(h) \/ Fail(h)
    PROVE  RowsOK' /\ LocalOK' /\ HistoryOK'
<1>0. /\ "finish" \in PCs /\ "APPROVED" \in ReqStatus /\ {"PENDING", "FULFILLED"} \subseteq AccessStatus
      /\ "error" \in Mishaps
  BY DEF PCs, ReqStatus, AccessStatus, Mishaps
<1>1. CASE Fulfil(h)
  <2>1. tenantOf[h] \in Tenants /\ todo[h] \in SUBSET Users
    BY <1>1 DEF HandlerInv, LocalOK, Fulfil, PCs
  <2>2. RowsOK'
    <3>1. PICK u \in Users : access' = FulfilledAccess(h, u)
      BY <1>1, <2>1 DEF Fulfil
    <3>2. access' \in [Tenants -> [Users -> AccessStatus]]
      BY <1>0, <2>1, <3>1 DEF RowsOK, FulfilledAccess
    <3> QED BY <1>1, <3>2 DEF RowsOK, Fulfil, requests, tenants
  <2>3. LocalOK'
    <3>1. CASE End(h)
      BY <3>1, EndTypes
    <3>2. CASE \E u \in todo[h] : /\ todo' = [todo EXCEPT ![h] = @ \ {u}]
                                  /\ UNCHANGED <<pc, slugOf, tenantOf, seen, who>>
      BY <2>1, <3>2 DEF LocalOK
    <3>3. CASE /\ Goto(h, "finish") /\ todo' = [todo EXCEPT ![h] = {}]
               /\ UNCHANGED <<slugOf, tenantOf, seen, who>>
      BY <1>0, <3>3 DEF LocalOK, Goto
    <3> QED BY <1>1, <3>1, <3>2, <3>3 DEF Fulfil
  <2> QED BY <1>1, <2>2, <2>3, SameHistory DEF Fulfil
<1>2. CASE Finish(h) /\ ~Throws(h)
  <2>1. slugOf[h] \in Slugs /\ tenantOf[h] \in Tenants
    BY <1>2 DEF HandlerInv, Finish, PCs
  <2>2. RowsOK'
    BY <1>0, <1>2, <2>1 DEF RowsOK, Finish, tenants, people
  <2> QED BY <1>2, <2>2, EndTypes, SameHistory DEF Finish
<1>3. CASE WriteAsk(h) /\ ~Throws(h)
  <2>1. tenantOf[h] \in Tenants /\ who[h] \in Users
    BY <1>3 DEF HandlerInv, WriteAsk, PCs
  <2>2. access' = [access EXCEPT ![tenantOf[h]] = [@ EXCEPT ![who[h]] = "PENDING"]]
    BY <1>3 DEF WriteAsk
  <2>3. RowsOK'
    BY <1>0, <1>3, <2>1, <2>2 DEF RowsOK, WriteAsk, requests, tenants
  <2> QED BY <1>3, <2>3, EndTypes, SameHistory DEF WriteAsk
<1>4. CASE Fail(h)
  BY <1>0, <1>4, EndTypes, SameRows, NoteTypes DEF Fail, RowVars
<1>5. CASE Throws(h)
  BY <1>5, ThrowsTypes
<1> QED BY <1>1, <1>2, <1>3, <1>4, <1>5

(* What administrators do to tenants keeps the types.                      *)
LEMMA AdminTypes ==
    ASSUME RowsOK, LocalOK, HistoryOK,
           \/ \E s \in Slugs : AdminCreateTenant(s)
           \/ \E t \in Tenants : PatchTenant(t) \/ DeleteTenant(t)
    PROVE  RowsOK' /\ LocalOK' /\ HistoryOK'
<1>0. /\ {"PROVISIONING", "ACTIVE", "SUSPENDED", "gone"} \subseteq TenantStatus
      /\ "none" \in MemberRole /\ "none" \in AccessStatus /\ "admin" \in Mishaps
  BY DEF TenantStatus, MemberRole, AccessStatus, Mishaps
<1>1. ASSUME NEW ts, NEW ss, Meddles(ts, ss), Step
      PROVE  HistoryOK'
  BY <1>0, <1>1 DEF HistoryOK, Meddles, Note, Step
<1>2. ASSUME UNCHANGED local
      PROVE  LocalOK'
  BY <1>2 DEF LocalOK, local
<1>3. ASSUME NEW s \in Slugs, AdminCreateTenant(s)
      PROVE  RowsOK' /\ LocalOK' /\ HistoryOK'
  <2>1. RowsOK'
    BY <1>0, <1>3 DEF RowsOK, AdminCreateTenant, requests, people
  <2> QED BY <1>1, <1>2, <1>3, <2>1 DEF AdminCreateTenant
<1>4. ASSUME NEW t \in Tenants, PatchTenant(t)
      PROVE  RowsOK' /\ LocalOK' /\ HistoryOK'
  <2>1. tstatus' \in [Tenants -> TenantStatus]
    BY <1>0, <1>4 DEF RowsOK, PatchTenant
  <2>2. tslug' \in [Tenants -> Slugs \cup {NoSlug}]
    BY <1>4 DEF RowsOK, PatchTenant
  <2>3. RowsOK'
    BY <1>4, <2>1, <2>2 DEF RowsOK, PatchTenant, requests, people
  <2>4. HistoryOK'
    BY <1>1, <1>4 DEF PatchTenant
  <2> QED BY <1>2, <1>4, <2>3, <2>4 DEF PatchTenant
<1>5. ASSUME NEW t \in Tenants, DeleteTenant(t)
      PROVE  RowsOK' /\ LocalOK' /\ HistoryOK'
  <2>1. RowsOK'
    BY <1>0, <1>5 DEF RowsOK, DeleteTenant, requests
  <2> QED BY <1>1, <1>2, <1>5, <2>1 DEF DeleteTenant
<1> QED BY <1>3, <1>4, <1>5

(* What is done to members and by users keeps the types.                   *)
LEMMA PeopleTypes ==
    ASSUME RowsOK, LocalOK, HistoryOK,
           \/ \E h \in Handlers, t \in Tenants : AdminProvision(h, t)
           \/ \E h \in Handlers, t \in Tenants, u \in Users :
                 AddMember(h, t, u) \/ AskAccess(h, t, u)
           \/ \E t \in Tenants, u \in Users : RemoveMember(t, u)
           \/ \E u \in Users : SignIn(u)
    PROVE  RowsOK' /\ LocalOK' /\ HistoryOK'
<1>0. /\ {"provision", "sides", "ask"} \subseteq PCs /\ {"PENDING", "VIEWER"} \subseteq Role
      /\ {"none", "MEMBER", "OWNER"} \subseteq MemberRole
      /\ {"overlap", "admin", "lateask", "signup", "contest"} \subseteq Mishaps
  BY DEF PCs, Role, MemberRole, Mishaps
<1>1. ASSUME NEW h \in Handlers, NEW t \in Tenants, AdminProvision(h, t)
      PROVE  RowsOK' /\ LocalOK' /\ HistoryOK'
  <2>1. LocalOK'
    BY <1>0, <1>1 DEF LocalOK, AdminProvision, Goto
  <2>2. HistoryOK'
    BY <1>0, <1>1 DEF HistoryOK, AdminProvision, Step
  <2> QED BY <1>1, <2>1, <2>2, SameRows DEF AdminProvision, RowVars
<1>2. ASSUME NEW h \in Handlers, NEW t \in Tenants, NEW u \in Users, AddMember(h, t, u)
      PROVE  RowsOK' /\ LocalOK' /\ HistoryOK'
  <2>1. PICK r \in {"MEMBER", "OWNER"} : member' = [member EXCEPT ![t] = [@ EXCEPT ![u] = r]]
    BY <1>2 DEF AddMember
  <2>2. RowsOK'
    BY <1>0, <1>2, <2>1 DEF RowsOK, AddMember, requests, tenants
  <2>3. LocalOK'
    BY <1>0, <1>2 DEF LocalOK, AddMember, Goto
  <2>4. HistoryOK'
    BY <1>0, <1>2 DEF HistoryOK, AddMember, Step
  <2> QED BY <2>2, <2>3, <2>4
<1>3. ASSUME NEW h \in Handlers, NEW t \in Tenants, NEW u \in Users, AskAccess(h, t, u)
      PROVE  RowsOK' /\ LocalOK' /\ HistoryOK'
  <2>1. access[t][u] \in AccessStatus
    BY DEF RowsOK
  <2>2. LocalOK'
    BY <1>0, <1>3, <2>1 DEF LocalOK, AskAccess, Start, Goto
  <2>3. HistoryOK'
    BY <1>0, <1>3 DEF HistoryOK, AskAccess, Start, Step
  <2> QED BY <1>3, <2>2, <2>3, SameRows DEF AskAccess, RowVars
<1>4. ASSUME NEW t \in Tenants, NEW u \in Users, RemoveMember(t, u)
      PROVE  RowsOK' /\ LocalOK' /\ HistoryOK'
  <2>1. member' = [member EXCEPT ![t] = [@ EXCEPT ![u] = "none"]]
    BY <1>4 DEF RemoveMember
  <2>2. RowsOK'
    BY <1>0, <1>4, <2>1 DEF RowsOK, RemoveMember, requests, tenants
  <2>3. HistoryOK'
    BY <1>0, <1>4 DEF HistoryOK, RemoveMember, Meddles, Note, Step
  <2> QED BY <1>4, <2>2, <2>3 DEF LocalOK, RemoveMember, local
<1>5. ASSUME NEW u \in Users, SignIn(u)
      PROVE  RowsOK' /\ LocalOK' /\ HistoryOK'
  <2>1. RowsOK'
    BY <1>0, <1>5 DEF RowsOK, SignIn, requests, tenants
  <2>2. HistoryOK'
    BY <1>0, <1>5 DEF HistoryOK, SignIn, Note, Step
  <2> QED BY <1>5, <2>1, <2>2 DEF LocalOK, SignIn, local
<1> QED BY <1>1, <1>2, <1>3, <1>4, <1>5

(* Every step keeps the types.                                             *)
LEMMA StepTypes ==
    ASSUME TypeOK, HandlerInv, RequestInv, [Next]_vars
    PROVE  TypeOK'
<1>1. RowsOK /\ LocalOK /\ HistoryOK
  BY DEF TypeOK, RowsOK, LocalOK, HistoryOK
<1>2. CASE Restart
  <2>1. LocalOK'
    BY <1>2 DEF LocalOK, Restart, PCs, Role
  <2>2. RowsOK' /\ HistoryOK'
    BY <1>1, <1>2 DEF RowsOK, HistoryOK, Mishaps, Restart, Note, requests, tenants, people
  <2> QED BY <2>1, <2>2 DEF TypeOK, RowsOK, LocalOK, HistoryOK
<1>3. CASE UNCHANGED vars
  BY <1>3 DEF TypeOK, vars, requests, tenants, people, local
<1>4. CASE Next /\ ~Restart
  <2>1. RowsOK' /\ LocalOK' /\ HistoryOK'
    <3>1. ASSUME NEW h \in Handlers, Statement(h) \/ Fail(h)
          PROVE  RowsOK' /\ LocalOK' /\ HistoryOK'
      BY <1>1, <3>1, ReviewTypes, TenantTypes, ContactTypes, InviteTypes, FinishTypes DEF Statement
    <3> QED BY <1>1, <1>4, <3>1, ReviewTypes, AdminTypes, PeopleTypes DEF Next
  <2> QED BY <2>1 DEF TypeOK, RowsOK, LocalOK, HistoryOK
<1> QED BY <1>2, <1>3, <1>4

(* Every step leaves the handlers with what they need.                     *)
LEMMA StepHandlers ==
    ASSUME TypeOK, HandlerInv, RequestInv, [Next]_vars
    PROVE  HandlerInv'
<1> USE NoneApart DEF TypeOK, HandlerInv, RequestInv, PCs, Busy,
             requests, tenants, people, local, Goto, End
<1>0. ASSUME NEW h \in Handlers, Throws(h)
      PROVE  HandlerInv'
  BY <1>0 DEF Throws
<1>1. ASSUME NEW h \in Handlers, NEW s \in Slugs, Submit(h, s) \/ Review(h, s)
      PROVE  HandlerInv'
  BY <1>1 DEF Submit, Review, Start, Step
<1>2. ASSUME NEW h \in Handlers, Create(h)
      PROVE  HandlerInv'
  <2>1. CASE Throws(h)
    BY <2>1, <1>0
  <2>2. CASE ~Throws(h) /\ End(h)
    BY <1>2, <2>2 DEF Create
  <2>3. CASE Goto(h, "tenant") /\ UNCHANGED <<slugOf, tenantOf, seen, todo, who>>
    BY <1>2, <2>3 DEF Create
  <2> QED BY <1>2, <2>1, <2>2, <2>3 DEF Create
<1>3. ASSUME NEW h \in Handlers, Reject(h)
      PROVE  HandlerInv'
  BY <1>3 DEF Reject
<1>4. ASSUME NEW h \in Handlers, CreateTenant(h)
      PROVE  HandlerInv'
  BY <1>4, <1>0 DEF CreateTenant
<1>5. ASSUME NEW h \in Handlers, Provision(h)
      PROVE  HandlerInv'
  BY <1>5, <1>0 DEF Provision
<1>6. ASSUME NEW h \in Handlers, Activate(h)
      PROVE  HandlerInv'
  BY <1>6, <1>0 DEF Activate
<1>7. ASSUME NEW h \in Handlers, FindContact(h)
      PROVE  HandlerInv'
  BY <1>7 DEF FindContact, Contact
<1>8. ASSUME NEW h \in Handlers, WriteContact(h)
      PROVE  HandlerInv'
  BY <1>8, <1>0 DEF WriteContact, Note, Contact
<1>9. ASSUME NEW h \in Handlers, Own(h)
      PROVE  HandlerInv'
  BY <1>9, <1>0 DEF Own, Note, Contact
<1>10. ASSUME NEW h \in Handlers, Invite(h)
      PROVE  HandlerInv'
  BY <1>10, <1>0 DEF Invite, Invitees, SidesOrFulfil, Joined, Contact
<1>11. ASSUME NEW h \in Handlers, ReadRole(h)
      PROVE  HandlerInv'
  <2>1. PICK u \in Users :
           \/ Goto(h, "side") /\ who' = [who EXCEPT ![h] = u]
           \/ SidesOrFulfil(h, todo[h] \ {u}) /\ UNCHANGED who
    BY <1>11 DEF ReadRole
  <2>2. UNCHANGED <<slugOf, tenantOf>> /\ pc[h] = "sides"
    BY <1>11 DEF ReadRole
  <2>3. CASE Goto(h, "side") /\ who' = [who EXCEPT ![h] = u]
    BY <2>2, <2>3
  <2>4. CASE SidesOrFulfil(h, todo[h] \ {u}) /\ UNCHANGED who
    BY <2>2, <2>4 DEF SidesOrFulfil
  <2> QED BY <2>1, <2>3, <2>4
<1>12. ASSUME NEW h \in Handlers, LetIn(h)
      PROVE  HandlerInv'
  BY <1>12 DEF LetIn, SidesOrFulfil, Joined, Contact, Invitees
<1>13. ASSUME NEW h \in Handlers, Fulfil(h)
      PROVE  HandlerInv'
  BY <1>13 DEF Fulfil, FulfilledAccess
<1>14. ASSUME NEW h \in Handlers, Finish(h)
      PROVE  HandlerInv'
  BY <1>14, <1>0 DEF Finish
<1>15. ASSUME NEW h \in Handlers, WriteAsk(h)
      PROVE  HandlerInv'
  BY <1>15, <1>0 DEF WriteAsk
<1>16. ASSUME NEW h \in Handlers, Fail(h)
      PROVE  HandlerInv'
  BY <1>16 DEF Fail, Note
<1>17. ASSUME NEW s \in Slugs, AdminCreateTenant(s)
      PROVE  HandlerInv'
  BY <1>17 DEF AdminCreateTenant, Meddles, Note, Step
<1>18. ASSUME NEW h \in Handlers, NEW t \in Tenants, AdminProvision(h, t)
      PROVE  HandlerInv'
  BY <1>18 DEF AdminProvision, Step
<1>19. ASSUME NEW t \in Tenants, PatchTenant(t)
      PROVE  HandlerInv'
  BY <1>19 DEF PatchTenant, Meddles, Note, Step
<1>20. ASSUME NEW t \in Tenants, DeleteTenant(t)
      PROVE  HandlerInv'
  BY <1>20 DEF DeleteTenant, Meddles, Note, Step
<1>21. ASSUME NEW h \in Handlers, NEW t \in Tenants, NEW u \in Users, AddMember(h, t, u)
      PROVE  HandlerInv'
  BY <1>21 DEF AddMember, Step
<1>22. ASSUME NEW t \in Tenants, NEW u \in Users, RemoveMember(t, u)
      PROVE  HandlerInv'
  BY <1>22 DEF RemoveMember, Meddles, Note, Step
<1>23. ASSUME NEW u \in Users, SignIn(u)
      PROVE  HandlerInv'
  BY <1>23 DEF SignIn, Note, Step
<1>24. ASSUME NEW h \in Handlers, NEW t \in Tenants, NEW u \in Users, AskAccess(h, t, u)
      PROVE  HandlerInv'
  BY <1>24 DEF AskAccess, Start, Step
<1>25. CASE Restart
  BY <1>25 DEF Restart, Note
<1>26. CASE UNCHANGED vars
  BY <1>26 DEF vars
<1> QED BY <1>1, <1>2, <1>3, <1>4, <1>5, <1>6, <1>7, <1>8, <1>9, <1>10, <1>11, <1>12, <1>13, <1>14, <1>15, <1>16, <1>17, <1>18, <1>19, <1>20, <1>21, <1>22, <1>23, <1>24, <1>25, <1>26 DEF Next, Statement

(* Every step keeps the requests.                                          *)
LEMMA StepRequests ==
    ASSUME TypeOK, HandlerInv, RequestInv, [Next]_vars
    PROVE  RequestInv'
<1> USE NoneApart DEF TypeOK, HandlerInv, RequestInv, PCs, ReqStatus, Form, Busy,
             requests, tenants, people, local, Goto, End
<1>0. ASSUME NEW h \in Handlers, Throws(h)
      PROVE  RequestInv'
  BY <1>0 DEF Throws
<1>1. ASSUME NEW h \in Handlers, NEW s \in Slugs, Submit(h, s) \/ Review(h, s)
      PROVE  RequestInv'
  BY <1>1 DEF Submit, Review, Start, Step
<1>2. ASSUME NEW h \in Handlers, Create(h)
      PROVE  RequestInv'
  <2>1. CASE Throws(h)
    BY <2>1, <1>0
  <2>2. CASE ~Throws(h)
    <3>1. slugOf[h] \in Slugs /\ pc[h] = "create"
      BY <1>2 DEF Create
    <3>2. PICK u \in Users, invitees \in SUBSET Users :
              form' = [form EXCEPT ![slugOf[h]] = [contact |-> u, invitees |-> invitees]]
      BY <1>2, <2>2 DEF Create
    <3>3. req' = [req EXCEPT ![slugOf[h]] = "PENDING"]
      BY <1>2, <2>2 DEF Create
    <3>4. \A s \in Slugs : req'[s] # "none" => form'[s].contact \in Users
      BY <3>1, <3>2, <3>3
    <3>5. \A g \in Handlers : slugOf'[g] # NoSlug =>
              slugOf'[g] = slugOf[g] /\ (pc'[g] = pc[g] \/ g = h)
      BY <1>2, <2>2 DEF Create
    <3>6. \A g \in Handlers : slugOf'[g] # NoSlug /\ pc'[g] # "create" => req'[slugOf'[g]] # "none"
      BY <3>1, <3>3, <3>5
    <3> QED BY <3>4, <3>6
  <2> QED BY <2>1, <2>2
<1>3. ASSUME NEW h \in Handlers, Reject(h)
      PROVE  RequestInv'
  BY <1>3 DEF Reject
<1>4. ASSUME NEW h \in Handlers, CreateTenant(h)
      PROVE  RequestInv'
  BY <1>4, <1>0 DEF CreateTenant
<1>5. ASSUME NEW h \in Handlers, Provision(h)
      PROVE  RequestInv'
  BY <1>5, <1>0 DEF Provision
<1>6. ASSUME NEW h \in Handlers, Activate(h)
      PROVE  RequestInv'
  BY <1>6, <1>0 DEF Activate
<1>7. ASSUME NEW h \in Handlers, FindContact(h)
      PROVE  RequestInv'
  BY <1>7 DEF FindContact, Contact
<1>8. ASSUME NEW h \in Handlers, WriteContact(h)
      PROVE  RequestInv'
  BY <1>8, <1>0 DEF WriteContact, Note, Contact
<1>9. ASSUME NEW h \in Handlers, Own(h)
      PROVE  RequestInv'
  BY <1>9, <1>0 DEF Own, Note, Contact
<1>10. ASSUME NEW h \in Handlers, Invite(h)
      PROVE  RequestInv'
  BY <1>10, <1>0 DEF Invite, Invitees, SidesOrFulfil, Joined, Contact
<1>11. ASSUME NEW h \in Handlers, ReadRole(h)
      PROVE  RequestInv'
  BY <1>11 DEF ReadRole, SidesOrFulfil, Joined, Contact, Invitees
<1>12. ASSUME NEW h \in Handlers, LetIn(h)
      PROVE  RequestInv'
  BY <1>12 DEF LetIn, SidesOrFulfil, Joined, Contact, Invitees
<1>13. ASSUME NEW h \in Handlers, Fulfil(h)
      PROVE  RequestInv'
  BY <1>13 DEF Fulfil, FulfilledAccess
<1>14. ASSUME NEW h \in Handlers, Finish(h)
      PROVE  RequestInv'
  <2>1. CASE Throws(h)
    BY <2>1, <1>0
  <2>2. CASE ~Throws(h)
    <3>1. slugOf[h] \in Slugs
      BY <1>14 DEF Finish
    <3>2. req' = [req EXCEPT ![slugOf[h]] = "APPROVED"] /\ End(h) /\ UNCHANGED form
      BY <1>14, <2>2 DEF Finish
    <3>3. req[slugOf[h]] # "none"
      BY <1>14, <3>1 DEF Finish
    <3>4. \A s \in Slugs : req'[s] # "none" => req[s] # "none"
      BY <3>1, <3>2, <3>3
    <3>5. \A s \in Slugs : req[s] # "none" => req'[s] # "none"
      BY <3>1, <3>2
    <3> QED BY <3>1, <3>2, <3>4, <3>5
  <2> QED BY <2>1, <2>2
<1>15. ASSUME NEW h \in Handlers, WriteAsk(h)
      PROVE  RequestInv'
  BY <1>15, <1>0 DEF WriteAsk
<1>16. ASSUME NEW h \in Handlers, Fail(h)
      PROVE  RequestInv'
  BY <1>16 DEF Fail, Note
<1>17. ASSUME NEW s \in Slugs, AdminCreateTenant(s)
      PROVE  RequestInv'
  BY <1>17 DEF AdminCreateTenant, Meddles, Note, Step
<1>18. ASSUME NEW h \in Handlers, NEW t \in Tenants, AdminProvision(h, t)
      PROVE  RequestInv'
  BY <1>18 DEF AdminProvision, Step
<1>19. ASSUME NEW t \in Tenants, PatchTenant(t)
      PROVE  RequestInv'
  BY <1>19 DEF PatchTenant, Meddles, Note, Step
<1>20. ASSUME NEW t \in Tenants, DeleteTenant(t)
      PROVE  RequestInv'
  BY <1>20 DEF DeleteTenant, Meddles, Note, Step
<1>21. ASSUME NEW h \in Handlers, NEW t \in Tenants, NEW u \in Users, AddMember(h, t, u)
      PROVE  RequestInv'
  BY <1>21 DEF AddMember, Step
<1>22. ASSUME NEW t \in Tenants, NEW u \in Users, RemoveMember(t, u)
      PROVE  RequestInv'
  BY <1>22 DEF RemoveMember, Meddles, Note, Step
<1>23. ASSUME NEW u \in Users, SignIn(u)
      PROVE  RequestInv'
  BY <1>23 DEF SignIn, Note, Step
<1>24. ASSUME NEW h \in Handlers, NEW t \in Tenants, NEW u \in Users, AskAccess(h, t, u)
      PROVE  RequestInv'
  BY <1>24 DEF AskAccess, Start, Step
<1>25. CASE Restart
  BY <1>25 DEF Restart, Note
<1>26. CASE UNCHANGED vars
  BY <1>26 DEF vars
<1> QED BY <1>1, <1>2, <1>3, <1>4, <1>5, <1>6, <1>7, <1>8, <1>9, <1>10, <1>11, <1>12, <1>13, <1>14, <1>15, <1>16, <1>17, <1>18, <1>19, <1>20, <1>21, <1>22, <1>23, <1>24, <1>25, <1>26 DEF Next, Statement

(* Every step keeps the links.                                             *)
LEMMA StepLinks ==
    ASSUME TypeOK, HandlerInv, RequestInv, LinkInv, [Next]_vars
    PROVE  LinkInv'
<1> USE NoneApart DEF TypeOK, HandlerInv, LinkInv, Made, Live, PCs, TenantStatus, ReqStatus, Busy,
             requests, tenants, people, local, Goto, End
<1>0. ASSUME NEW h \in Handlers, Throws(h)
      PROVE  LinkInv'
  BY <1>0 DEF Throws
<1>1. ASSUME NEW h \in Handlers, NEW s \in Slugs, Submit(h, s) \/ Review(h, s)
      PROVE  LinkInv'
  <2>1. /\ UNCHANGED <<req, reqTenant, tstatus>>
        /\ tenantOf' = [tenantOf EXCEPT ![h] = NoTenant]
        /\ slugOf' = [slugOf EXCEPT ![h] = s]
    BY <1>1 DEF Submit, Review, Start
  <2>2. ~Made(h)' /\ \A g \in Handlers : Made(g)' => Made(g) /\ tenantOf'[g] = tenantOf[g]
    BY <2>1
  <2> QED BY <2>1, <2>2
<1>2. ASSUME NEW h \in Handlers, Create(h)
      PROVE  LinkInv'
  BY <1>2, <1>0 DEF Create
<1>3. ASSUME NEW h \in Handlers, Reject(h)
      PROVE  LinkInv'
  BY <1>3 DEF Reject
<1>4. ASSUME NEW h \in Handlers, CreateTenant(h)
      PROVE  LinkInv'
  BY <1>4, <1>0 DEF CreateTenant
<1>5. ASSUME NEW h \in Handlers, Provision(h)
      PROVE  LinkInv'
  BY <1>5, <1>0 DEF Provision
<1>6. ASSUME NEW h \in Handlers, Activate(h)
      PROVE  LinkInv'
  <2>1. CASE Throws(h)
    BY <2>1, <1>0
  <2>2. CASE ~Throws(h)
    <3>1. tenantOf[h] \in Tenants /\ Live(tenantOf[h])
      BY <1>6, <2>2 DEF Activate
    <3>2. tstatus' = [tstatus EXCEPT ![tenantOf[h]] = "ACTIVE"] /\ UNCHANGED <<req, reqTenant>>
      BY <1>6, <2>2 DEF Activate
    <3>3. \A t \in Tenants : (Live(t) => Live(t)') /\ (tstatus[t] # "none" => tstatus'[t] # "none")
      BY <3>1, <3>2
    <3>4. \A g \in Handlers : Made(g)' => Made(g) /\ tenantOf'[g] = tenantOf[g]
      BY <1>6, <2>2 DEF Activate
    <3> QED BY <3>2, <3>3, <3>4
  <2> QED BY <2>1, <2>2
<1>7. ASSUME NEW h \in Handlers, FindContact(h)
      PROVE  LinkInv'
  BY <1>7 DEF FindContact, Contact
<1>8. ASSUME NEW h \in Handlers, WriteContact(h)
      PROVE  LinkInv'
  BY <1>8, <1>0 DEF WriteContact, Note, Contact
<1>9. ASSUME NEW h \in Handlers, Own(h)
      PROVE  LinkInv'
  BY <1>9, <1>0 DEF Own, Note, Contact
<1>10. ASSUME NEW h \in Handlers, Invite(h)
      PROVE  LinkInv'
  BY <1>10, <1>0 DEF Invite, Invitees, SidesOrFulfil, Joined, Contact
<1>11. ASSUME NEW h \in Handlers, ReadRole(h)
      PROVE  LinkInv'
  BY <1>11 DEF ReadRole, SidesOrFulfil, Joined, Contact, Invitees
<1>12. ASSUME NEW h \in Handlers, LetIn(h)
      PROVE  LinkInv'
  BY <1>12 DEF LetIn, SidesOrFulfil, Joined, Contact, Invitees
<1>13. ASSUME NEW h \in Handlers, Fulfil(h)
      PROVE  LinkInv'
  BY <1>13 DEF Fulfil, FulfilledAccess
<1>14. ASSUME NEW h \in Handlers, Finish(h)
      PROVE  LinkInv'
  <2>1. CASE Throws(h)
    BY <2>1, <1>0
  <2>2. CASE ~Throws(h)
    <3>0. pc[h] = "finish" /\ Live(tenantOf[h])
      BY <1>14, <2>2 DEF Finish
    <3>1. slugOf[h] \in Slugs /\ tenantOf[h] \in Tenants /\ Live(tenantOf[h]) /\ Made(h)
      BY <3>0
    <3>2. /\ req' = [req EXCEPT ![slugOf[h]] = "APPROVED"]
          /\ reqTenant' = [reqTenant EXCEPT ![slugOf[h]] = tenantOf[h]]
          /\ End(h) /\ UNCHANGED tstatus
      BY <1>14, <2>2 DEF Finish
    <3>3. ~Made(h)' /\ \A g \in Handlers : Made(g)' => Made(g) /\ tenantOf'[g] = tenantOf[g] /\ g # h
      BY <3>2
    <3>4. \A s \in Slugs : reqTenant'[s] = IF s = slugOf[h] THEN tenantOf[h] ELSE reqTenant[s]
      BY <3>1, <3>2
    <3>5. \A s \in Slugs : req'[s] = "APPROVED" => s = slugOf[h] \/ req[s] = "APPROVED"
      BY <3>1, <3>2
    <3> QED BY <3>1, <3>2, <3>3, <3>4, <3>5
  <2> QED BY <2>1, <2>2
<1>15. ASSUME NEW h \in Handlers, WriteAsk(h)
      PROVE  LinkInv'
  <2>1. CASE Throws(h)
    BY <2>1, <1>0
  <2>2. CASE ~Throws(h)
    <3>1. End(h) /\ UNCHANGED <<req, reqTenant, tstatus>>
      BY <1>15, <2>2 DEF WriteAsk
    <3>2. ~Made(h)' /\ \A g \in Handlers : Made(g)' => Made(g) /\ tenantOf'[g] = tenantOf[g]
      BY <3>1
    <3> QED BY <3>1, <3>2
  <2> QED BY <2>1, <2>2
<1>16. ASSUME NEW h \in Handlers, Fail(h)
      PROVE  LinkInv'
  BY <1>16 DEF Fail, Note
<1>17. ASSUME NEW s \in Slugs, AdminCreateTenant(s)
      PROVE  LinkInv'
  BY <1>17 DEF AdminCreateTenant, Meddles, Note, Step
<1>18. ASSUME NEW h \in Handlers, NEW t \in Tenants, AdminProvision(h, t)
      PROVE  LinkInv'
  BY <1>18 DEF AdminProvision, Step
<1>19. ASSUME NEW t \in Tenants, PatchTenant(t)
      PROVE  LinkInv'
  BY <1>19 DEF PatchTenant, Meddles, Note, Step
<1>20. ASSUME NEW t \in Tenants, DeleteTenant(t)
      PROVE  LinkInv'
  BY <1>20 DEF DeleteTenant, Meddles, Note, Step
<1>21. ASSUME NEW h \in Handlers, NEW t \in Tenants, NEW u \in Users, AddMember(h, t, u)
      PROVE  LinkInv'
  BY <1>21 DEF AddMember, Step
<1>22. ASSUME NEW t \in Tenants, NEW u \in Users, RemoveMember(t, u)
      PROVE  LinkInv'
  BY <1>22 DEF RemoveMember, Meddles, Note, Step
<1>23. ASSUME NEW u \in Users, SignIn(u)
      PROVE  LinkInv'
  BY <1>23 DEF SignIn, Note, Step
<1>24. ASSUME NEW h \in Handlers, NEW t \in Tenants, NEW u \in Users, AskAccess(h, t, u)
      PROVE  LinkInv'
  BY <1>24 DEF AskAccess, Start, Step
<1>25. CASE Restart
  BY <1>25 DEF Restart, Note
<1>26. CASE UNCHANGED vars
  BY <1>26 DEF vars
<1> QED BY <1>1, <1>2, <1>3, <1>4, <1>5, <1>6, <1>7, <1>8, <1>9, <1>10, <1>11, <1>12, <1>13, <1>14, <1>15, <1>16, <1>17, <1>18, <1>19, <1>20, <1>21, <1>22, <1>23, <1>24, <1>25, <1>26 DEF Next, Statement

(* The invariant holds. *)
THEOREM Invariance == Spec => []IInv
<1>1. IInv /\ [Next]_vars => IInv'
  BY StepTypes, StepHandlers, StepRequests, StepLinks DEF IInv
<1> QED BY InitInv, <1>1, PTL DEF Spec

(* The types of all variables, for any number of slugs, tenants, users and *)
(* requests in flight.                                                     *)
THEOREM TypeCorrect == Spec => []TypeOK
<1>1. IInv => TypeOK
  BY DEF IInv
<1> QED BY Invariance, <1>1, PTL

(* Approvals, administrators and deletions never leave an approved request *)
(* without its workspace, nor two requests with one.                       *)
THEOREM LinksAreSound == Spec => []LinkIsSound
<1>1. IInv => LinkIsSound
  BY NoneApart DEF IInv, LinkInv, LinkIsSound
<1> QED BY Invariance, <1>1, PTL

-----------------------------------------------------------------------------
(* Where an approval stands, and what it has done by then                  *)

In == {"VIEWER", "ADMIN"}
Signed == {"owner", "invite", "sides", "side", "fulfil", "finish"}
Owned == Signed \ {"owner"}
Invited == Owned \ {"invite"}

(* The users whose roles a handler has still to look at. *)
WorksOn(h) ==
    /\ Made(h) => pc[h] \in {"provision", "activate", "find", "contact"} \cup Signed
    /\ pc[h] \in {"sides", "side"} =>
          LET users == IF slugOf[h] = NoSlug THEN {who[h]} ELSE Invitees(h)
          IN  todo[h] \subseteq users /\ (pc[h] = "side" => who[h] \in users)

Ahead(h) == {u \in Users : \/ pc[h] \in {"sides", "side"} /\ u \in todo[h]
                           \/ pc[h] = "side" /\ u = who[h]}

(* Roles are only ever raised, so what an approval has done to them stays. *)
RolesGiven(h) ==
    /\ pc[h] = "side" => role[who[h]] # "none"
    /\ slugOf[h] # NoSlug /\ pc[h] \in Signed => role[Contact(h)] \in In
    /\ slugOf[h] # NoSlug /\ pc[h] \in Invited => \A u \in Invitees(h) :
          role[u] # "none" /\ (u \in Ahead(h) \/ role[u] \in In)
    /\ "signup" \notin mishaps /\ pc[h] = "contact" /\ seen[h] = "none" => role[Contact(h)] = "none"
    /\ "overlap" \notin mishaps /\ slugOf[h] # NoSlug /\ pc[h] \in Signed => role[Contact(h)] = "ADMIN"

RoleInv ==
    /\ \A s \in Slugs : form[s].contact \notin form[s].invitees
    /\ "overlap" \notin mishaps => \A h, g \in Handlers : Busy(h) /\ Busy(g) => h = g
    /\ \A h \in Handlers : WorksOn(h) /\ RolesGiven(h)

(* A slug is unique among tenants; a tenant that is gone has no members.   *)
RowInv ==
    /\ \A t, r \in Tenants : Live(t) /\ Live(r) /\ tslug[t] = tslug[r] => t = r
    /\ \A t \in Tenants, u \in Users : ~Live(t) => member[t][u] = "none"
    /\ \A s \in Slugs : reqTenant[s] # NoTenant => req[s] \in Decided
    /\ \A h \in Handlers : tenantOf[h] # NoTenant => tstatus[tenantOf[h]] # "none"

(* The tenant an approval has made is its own, and as it has left it.      *)
MadeSound(h) ==
    /\ Live(tenantOf[h]) /\ tslug[tenantOf[h]] = slugOf[h]
    /\ pc[h] = "provision" => tstatus[tenantOf[h]] = "PROVISIONING"
    /\ pc[h] \in {"find", "contact"} \cup Signed => tstatus[tenantOf[h]] = "ACTIVE"
    /\ pc[h] \in Owned => member[tenantOf[h]][Contact(h)] = "OWNER"
    /\ pc[h] \in Invited => \A u \in Invitees(h) : member[tenantOf[h]][u] # "none"

MadeInv == "admin" \notin mishaps => \A h \in Handlers :
    /\ Made(h) =>
          /\ MadeSound(h)
          /\ \A g \in Handlers : pc[g] \in {"provision", "activate"} /\ tenantOf[g] = tenantOf[h] => g = h
    /\ slugOf[h] # NoSlug /\ reqTenant[slugOf[h]] # NoTenant => tslug[reqTenant[slugOf[h]]] = slugOf[h]

(* Handlers that review take turns.                                        *)
TurnInv == "contest" \notin mishaps => \A h \in Handlers :
    slugOf[h] # NoSlug /\ pc[h] # "create" =>
        /\ req[slugOf[h]] = "PENDING"
        /\ \A g \in Handlers : slugOf[g] = slugOf[h] /\ pc[g] # "create" => g = h

(* A slug that waits for its approval is free, or the approval has it.     *)
FreeInv == mishaps \cap {"error", "signup", "admin"} = {} => \A s \in Slugs :
    /\ req[s] = "PENDING" \/ (req[s] = "none" /\ Handling(s) # {})
    /\ SlugTaken(s)
    => \E h \in Handlers : Made(h) /\ slugOf[h] = s

(* The handler h will come to the access request of user u.                *)
Owes(h, t, u) ==
    /\ tenantOf[h] = t
    /\ \/ pc[h] = "invite" /\ u = Contact(h)
       \/ pc[h] \in {"sides", "side"} /\ u \in Joined(h)
       \/ pc[h] = "fulfil" /\ u \in todo[h]

AccessInv == "lateask" \notin mishaps =>
    /\ \A h \in Handlers : pc[h] = "ask" => member[tenantOf[h]][who[h]] = "none"
    /\ "error" \notin mishaps => \A t \in Tenants, u \in Users :
          member[t][u] # "none" /\ access[t][u] = "PENDING" => \E h \in Handlers : Owes(h, t, u)
    /\ "admin" \notin mishaps => \A h \in Handlers : Made(h) =>
          /\ pc[h] = "fulfil" => \A u \in Joined(h) \ todo[h] : access[tenantOf[h]][u] # "PENDING"
          /\ pc[h] = "finish" => \A u \in Joined(h) : access[tenantOf[h]][u] # "PENDING"

(* What a step leaves alone: only one handler moves, mishaps are not       *)
(* forgotten, and the form of a request that exists is not rewritten.      *)
Moves(h) ==
    \/ Statement(h) \/ Fail(h)
    \/ \E s \in Slugs : Submit(h, s) \/ Review(h, s)
    \/ \E t \in Tenants : AdminProvision(h, t)
    \/ \E t \in Tenants, u \in Users : AddMember(h, t, u) \/ AskAccess(h, t, u)

(* Steps of nobody's handler. *)
Elsewhere ==
    \/ \E s \in Slugs : AdminCreateTenant(s)
    \/ \E t \in Tenants : PatchTenant(t) \/ DeleteTenant(t)
    \/ \E t \in Tenants, u \in Users : RemoveMember(t, u)
    \/ \E u \in Users : SignIn(u)

LEMMA Kinds == Next <=> (\E h \in Handlers : Moves(h)) \/ Elsewhere \/ Restart
  BY DEF Next, Moves, Elsewhere

Same(h) ==
    /\ pc'[h] = pc[h] /\ slugOf'[h] = slugOf[h] /\ tenantOf'[h] = tenantOf[h]
    /\ seen'[h] = seen[h] /\ todo'[h] = todo[h] /\ who'[h] = who[h]

LEMMA OthersSame ==
  ASSUME TypeOK, NEW h \in Handlers, Moves(h), NEW g \in Handlers, g # h
  PROVE  Same(g)
  <1> USE DEF TypeOK, Same, Goto, End, Start, Throws, local
  <1>1. CASE Create(h) \/ Reject(h) \/ CreateTenant(h) \/ Provision(h)
    BY <1>1 DEF Create, Reject, CreateTenant, Provision
  <1>2. CASE Activate(h) \/ FindContact(h) \/ WriteContact(h) \/ Own(h)
    BY <1>2 DEF Activate, FindContact, WriteContact, Own
  <1>3. CASE Invite(h) \/ LetIn(h)
    BY <1>3 DEF Invite, LetIn, SidesOrFulfil
  <1>4. CASE ReadRole(h)
    BY <1>4 DEF ReadRole, SidesOrFulfil
  <1>5. CASE Fulfil(h) \/ Finish(h) \/ WriteAsk(h) \/ Fail(h)
    BY <1>5 DEF Fulfil, Finish, WriteAsk, Fail
  <1>6. CASE \E s \in Slugs : Submit(h, s) \/ Review(h, s)
    BY <1>6 DEF Submit, Review
  <1>7. CASE \E t \in Tenants : AdminProvision(h, t)
    BY <1>7 DEF AdminProvision
  <1>8. CASE \E t \in Tenants, u \in Users : AddMember(h, t, u) \/ AskAccess(h, t, u)
    BY <1>8 DEF AddMember, AskAccess
  <1> QED BY <1>1, <1>2, <1>3, <1>4, <1>5, <1>6, <1>7, <1>8 DEF Moves, Statement

LEMMA ElsewhereSame ==
  ASSUME Elsewhere, NEW g \in Handlers
  PROVE  Same(g)
  BY DEF Elsewhere, Same, AdminCreateTenant, PatchTenant, DeleteTenant, RemoveMember, SignIn, local

LEMMA MishapsGrow ==
  ASSUME [Next]_vars PROVE mishaps \subseteq mishaps'
  <1> USE DEF Note, Throws, Start, Meddles
  <1>1. ASSUME NEW h \in Handlers, Statement(h) \/ Fail(h) PROVE mishaps \subseteq mishaps'
    <2>1. CASE Create(h) \/ Reject(h) \/ CreateTenant(h) \/ Provision(h) \/ Activate(h)
               \/ FindContact(h) \/ WriteContact(h)
      BY <2>1 DEF Create, Reject, CreateTenant, Provision, Activate, FindContact, WriteContact
    <2>2. CASE Own(h) \/ Invite(h)
      BY <2>2 DEF Own, Invite
    <2>3. CASE ReadRole(h) \/ LetIn(h) \/ Fulfil(h) \/ Finish(h) \/ WriteAsk(h) \/ Fail(h)
      BY <2>3 DEF ReadRole, LetIn, Fulfil, Finish, WriteAsk, Fail
    <2> QED BY <1>1, <2>1, <2>2, <2>3 DEF Statement
  <1>2. ASSUME NEW h \in Handlers, Moves(h), ~(Statement(h) \/ Fail(h))
        PROVE  mishaps \subseteq mishaps'
    BY <1>2 DEF Moves, Submit, Review, AdminProvision, AddMember, AskAccess
  <1>3. CASE Elsewhere
    BY <1>3 DEF Elsewhere, AdminCreateTenant, PatchTenant, DeleteTenant, RemoveMember, SignIn
  <1>4. CASE Restart
    BY <1>4 DEF Restart
  <1>5. CASE UNCHANGED vars
    BY <1>5 DEF vars
  <1> QED BY <1>1, <1>2, <1>3, <1>4, <1>5, Kinds

LEMMA FormsStay ==
  ASSUME TypeOK, HandlerInv, [Next]_vars, NEW s \in Slugs
  PROVE  /\ req[s] # "none" => form'[s] = form[s] /\ req'[s] # "none"
         /\ form'[s] = form[s] \/ form'[s].contact \notin form'[s].invitees
  <1>1. ASSUME NEW h \in Handlers, Create(h)
        PROVE  /\ req[s] # "none" => form'[s] = form[s] /\ req'[s] # "none"
               /\ form'[s] = form[s] \/ form'[s].contact \notin form'[s].invitees
    <2>1. CASE req[slugOf[h]] # "none"
      BY <1>1, <2>1 DEF Create, Throws, requests
    <2>2. CASE req[slugOf[h]] = "none"
      <3>1. PICK u \in Users, invitees \in SUBSET Users :
              /\ u \notin invitees
              /\ form' = [form EXCEPT ![slugOf[h]] = [contact |-> u, invitees |-> invitees]]
        BY <1>1, <2>2 DEF Create
      <3>2. req' = [req EXCEPT ![slugOf[h]] = "PENDING"] /\ slugOf[h] \in Slugs
        BY <1>1, <2>2 DEF Create, HandlerInv
      <3> QED BY <2>2, <3>1, <3>2 DEF TypeOK
    <2> QED BY <2>1, <2>2
  <1>2. ASSUME NEW h \in Handlers, Reject(h) \/ Finish(h)
        PROVE  UNCHANGED form /\ (req[s] # "none" => req'[s] # "none")
    BY <1>2 DEF Reject, Finish, Throws, requests, TypeOK
  <1>3. ASSUME NEW h \in Handlers, Moves(h), ~Create(h), ~Reject(h), ~Finish(h)
        PROVE  UNCHANGED <<req, form>>
    <2>1. CASE CreateTenant(h) \/ Provision(h) \/ Activate(h) \/ FindContact(h) \/ WriteContact(h)
      BY <2>1 DEF CreateTenant, Provision, Activate, FindContact, WriteContact, Throws, requests
    <2>2. CASE Own(h) \/ Invite(h) \/ ReadRole(h) \/ LetIn(h) \/ Fulfil(h) \/ WriteAsk(h)
      BY <2>2 DEF Own, Invite, ReadRole, LetIn, Fulfil, WriteAsk, Throws, requests
    <2>3. CASE ~Statement(h)
      BY <1>3, <2>3 DEF Moves, Fail, Submit, Review, AdminProvision, AddMember, AskAccess, requests
    <2> QED BY <1>3, <2>1, <2>2, <2>3 DEF Statement
  <1>4. CASE Elsewhere
    BY <1>4 DEF Elsewhere, AdminCreateTenant, PatchTenant, DeleteTenant, RemoveMember, SignIn,
                requests
  <1>5. CASE Restart \/ UNCHANGED vars
    BY <1>5 DEF Restart, vars, requests
  <1> QED BY <1>1, <1>2, <1>3, <1>4, <1>5, Kinds

(* Only four kinds of steps write a role. *)
LEMMA RoleWriters ==
  ASSUME [Next]_vars, role' # role
  PROVE  \/ \E h \in Handlers : WriteContact(h) \/ Invite(h) \/ LetIn(h)
         \/ \E u \in Users : SignIn(u)
  <1>1. ASSUME NEW h \in Handlers, Moves(h)
        PROVE  WriteContact(h) \/ Invite(h) \/ LetIn(h)
    <2>1. CASE Create(h) \/ Reject(h) \/ CreateTenant(h) \/ Provision(h) \/ Activate(h)
      BY <2>1 DEF Create, Reject, CreateTenant, Provision, Activate, Throws, people
    <2>2. CASE FindContact(h) \/ Own(h) \/ ReadRole(h) \/ Fulfil(h) \/ Finish(h) \/ WriteAsk(h)
      BY <2>2 DEF FindContact, Own, ReadRole, Fulfil, Finish, WriteAsk, Throws, people
    <2>3. CASE ~Statement(h)
      BY <1>1, <2>3 DEF Moves, Fail, Submit, Review, AdminProvision, AddMember, AskAccess, people
    <2> QED BY <1>1, <2>1, <2>2, <2>3 DEF Statement
  <1>2. CASE Elsewhere
    BY <1>2 DEF Elsewhere, AdminCreateTenant, PatchTenant, DeleteTenant, RemoveMember, people
  <1>3. CASE Restart \/ UNCHANGED vars
    BY <1>3 DEF Restart, vars, people
  <1> QED BY <1>1, <1>2, <1>3, Kinds

LEMMA RolesRise ==
  ASSUME TypeOK, HandlerInv, RequestInv, RoleInv, [Next]_vars, NEW u \in Users
  PROVE  /\ role[u] # "none" => role'[u] # "none"
         /\ role[u] \in In => role'[u] \in In
         /\ role[u] = "ADMIN" => \/ role'[u] = "ADMIN"
                                 \/ \E h \in Handlers : LetIn(h) /\ who[h] = u
         /\ role[u] = "none" => \/ role'[u] = "none"
                                \/ \A g \in Handlers : pc[g] = "contact" /\ seen[g] = "none" /\ Contact(g) = u
                                      => "signup" \in mishaps' \/ pc'[g] # "contact"
  <1> USE DEF TypeOK, In
  <1>1. CASE role' = role
    BY <1>1
  <1>2. ASSUME NEW h \in Handlers, WriteContact(h)
        PROVE  /\ role'[u] = role[u] \/ (u = Contact(h) /\ role'[u] = "ADMIN")
               /\ role[u] = "none" /\ role'[u] # "none" => \A g \in Handlers :
                     pc[g] = "contact" /\ seen[g] = "none" /\ Contact(g) = u
                        => "signup" \in mishaps' \/ pc'[g] # "contact"
    <2>1. CASE Throws(h)
      BY <2>1 DEF Throws, people
    <2>2. CASE ~Throws(h)
      <3>1. /\ role' = [role EXCEPT ![Contact(h)] = "ADMIN"] /\ Goto(h, "owner")
            /\ Note("signup", role[Contact(h)] = "none" /\ \E g \in Handlers \ {h} :
                  pc[g] = "contact" /\ seen[g] = "none" /\ Contact(g) = Contact(h))
        BY <1>2, <2>2 DEF WriteContact
      <3> QED BY <3>1 DEF Note, Goto
    <2> QED BY <2>1, <2>2
  <1>3. ASSUME NEW h \in Handlers, Invite(h)
        PROVE  /\ role'[u] = role[u] \/ (role[u] = "none" /\ role'[u] = "VIEWER")
               /\ role[u] = "none" /\ role'[u] # "none" /\ AboutToCreate(u) => "signup" \in mishaps'
    BY <1>3 DEF Invite, Throws, people
  <1>4. ASSUME NEW h \in Handlers, LetIn(h)
        PROVE  role'[u] = role[u] \/ (u = who[h] /\ role[u] # "none" /\ role'[u] = "VIEWER")
    BY <1>4 DEF LetIn, RoleInv, RolesGiven
  <1>5. ASSUME NEW v \in Users, SignIn(v)
        PROVE  /\ role'[u] = role[u] \/ role[u] = "none"
               /\ role'[u] # "none" \/ role'[u] = role[u]
               /\ role[u] = "none" /\ role'[u] # "none" /\ AboutToCreate(u) => "signup" \in mishaps'
    BY <1>5 DEF SignIn, Note
  <1>6. (\E g \in Handlers : pc[g] = "contact" /\ seen[g] = "none" /\ Contact(g) = u)
        => AboutToCreate(u)
    BY DEF AboutToCreate
  <1> QED BY <1>1, <1>2, <1>3, <1>4, <1>5, <1>6, RoleWriters

(* A handler that stands still keeps what it relies on. *)
LEMMA RolesKept ==
  ASSUME TypeOK, HandlerInv, RequestInv, RoleInv, [Next]_vars,
         NEW g \in Handlers, Same(g),
         "overlap" \in mishaps' \/ ~Busy(g) \/ \A h \in Handlers : h # g => ~LetIn(h)
  PROVE  WorksOn(g)' /\ RolesGiven(g)'
  <1>1. /\ WorksOn(g) /\ RolesGiven(g) /\ mishaps \subseteq mishaps'
        /\ pc[g] = "side" => who[g] \in Users
    BY MishapsGrow DEF RoleInv, HandlerInv
  <1>2. slugOf[g] # NoSlug /\ pc[g] # "create" =>
          /\ Contact(g)' = Contact(g) /\ Invitees(g)' = Invitees(g)
          /\ Contact(g) \in Users /\ Invitees(g) \subseteq Users
    <2> SUFFICES ASSUME slugOf[g] # NoSlug, pc[g] # "create"
                 PROVE  /\ Contact(g)' = Contact(g) /\ Invitees(g)' = Invitees(g)
                        /\ Contact(g) \in Users /\ Invitees(g) \subseteq Users
      OBVIOUS
    <2>1. slugOf[g] \in Slugs /\ req[slugOf[g]] # "none"
      BY DEF RequestInv, TypeOK
    <2>2. form'[slugOf[g]] = form[slugOf[g]] /\ form[slugOf[g]].contact \in Users
      BY <2>1, FormsStay DEF RequestInv
    <2>3. form[slugOf[g]].invitees \subseteq Users
      BY <2>1 DEF TypeOK, Form
    <2> QED BY <2>2, <2>3 DEF Contact, Invitees, Same
  <1>3. pc[g] = "contact" => slugOf[g] # NoSlug
    BY NoneApart DEF HandlerInv
  <1>4. WorksOn(g)'
    BY <1>1, <1>2 DEF WorksOn, Made, Same, Signed
  <1>5. Ahead(g)' = Ahead(g)
    BY DEF Ahead, Same
  <1>6. slugOf[g] # NoSlug /\ pc[g] \in Signed => pc[g] # "create"
    BY DEF Signed
  <1>7. ASSUME "overlap" \notin mishaps', slugOf[g] # NoSlug, pc[g] \in Signed
        PROVE  role'[Contact(g)] = "ADMIN"
    <2>1. role[Contact(g)] = "ADMIN" /\ Contact(g) \in Users
      BY <1>1, <1>2, <1>6, <1>7 DEF RolesGiven
    <2>2. ASSUME NEW h \in Handlers, LetIn(h) PROVE FALSE
      <3>1. h = g
        BY <1>7, <2>2 DEF Busy, Signed
      <3>2. pc'[g] = "side" /\ pc'[g] \in {"fulfil", "sides"}
        BY <2>2, <3>1 DEF LetIn, SidesOrFulfil, Goto, Same, TypeOK
      <3> QED BY <3>2
    <2> QED BY <2>1, <2>2, RolesRise
  <1>8. RolesGiven(g)'
    <2>1. pc[g] = "side" => role'[who[g]] # "none"
      BY <1>1, RolesRise DEF RolesGiven
    <2>2. slugOf[g] # NoSlug /\ pc[g] \in Signed => role'[Contact(g)] \in In
      BY <1>1, <1>2, <1>6, RolesRise DEF RolesGiven
    <2>3. slugOf[g] # NoSlug /\ pc[g] \in Invited => \A u \in Invitees(g) :
             role'[u] # "none" /\ (u \in Ahead(g) \/ role'[u] \in In)
      BY <1>1, <1>2, <1>6, RolesRise DEF RolesGiven, Invited, Owned
    <2>4. "signup" \notin mishaps' /\ pc[g] = "contact" /\ seen[g] = "none" => role'[Contact(g)] = "none"
      BY <1>1, <1>2, <1>3, RolesRise DEF RolesGiven, Same
    <2> QED BY <1>2, <1>3, <1>5, <1>6, <1>7, <2>1, <2>2, <2>3, <2>4
            DEF RolesGiven, Same, Invited, Owned
  <1> QED BY <1>4, <1>8

(* Handlers that are busy at a time are noted. *)
LEMMA BusyAlone ==
  ASSUME TypeOK, RoleInv, [Next]_vars, "overlap" \notin mishaps'
  PROVE  \A h, g \in Handlers : (Busy(h) /\ Busy(g))' => h = g
  <1>1. \A h, g \in Handlers : Busy(h) /\ Busy(g) => h = g
    BY MishapsGrow DEF RoleInv
  <1>2. ASSUME NEW h \in Handlers, Moves(h), NEW g \in Handlers, g # h, pc'[g] # "idle"
        PROVE  pc'[h] = "idle"
    <2>1. pc[g] # "idle"
      BY <1>2, OthersSame DEF Same
    <2>2. pc[h] = "idle"
      BY <1>1, <1>2, <2>1 DEF Busy
    <2>3. ~Statement(h) /\ ~Fail(h)
      BY <2>2 DEF Statement, Fail, Busy, Create, Reject, CreateTenant, Provision, Activate, FindContact,
                  WriteContact, Own, Invite, ReadRole, LetIn, Fulfil, Finish, WriteAsk
    <2>4. "overlap" \in mishaps'
      BY <1>2, <2>1, <2>3
      DEF Moves, Submit, Review, AdminProvision, AddMember, AskAccess, Start, Busy
    <2> QED BY <2>4
  <1>3. CASE \E h \in Handlers : Moves(h)
    <2>1. PICK h \in Handlers : Moves(h)
      BY <1>3
    <2> SUFFICES ASSUME NEW k \in Handlers, NEW g \in Handlers, pc'[k] # "idle", pc'[g] # "idle"
                 PROVE  k = g
      BY DEF Busy
    <2>2. CASE k = h \/ g = h
      BY <1>2, <2>1, <2>2
    <2>3. CASE k # h /\ g # h
      BY <1>1, <2>1, <2>3, OthersSame DEF Same, Busy
    <2> QED BY <2>2, <2>3
  <1>4. CASE Elsewhere
    BY <1>1, <1>4, ElsewhereSame DEF Same, Busy
  <1>5. CASE Restart
    BY <1>5 DEF Restart, Busy
  <1>6. CASE UNCHANGED vars
    BY <1>1, <1>6 DEF vars, local, Busy
  <1> QED BY <1>3, <1>4, <1>5, <1>6, Kinds

(* A handler that ends owes nothing. *)
LEMMA RolesEnd ==
  ASSUME TypeOK, NEW h \in Handlers, End(h) \/ Restart
  PROVE  WorksOn(h)' /\ RolesGiven(h)'
  <1>1. pc'[h] = "idle" /\ slugOf'[h] = NoSlug
    BY DEF End, Restart, TypeOK
  <1> QED BY <1>1 DEF WorksOn, RolesGiven, Made

(* Each statement gives the roles it has to. *)
LEMMA RolesMove ==
  ASSUME TypeOK, TypeOK', HandlerInv, RequestInv, RoleInv, NEW h \in Handlers, Moves(h)
  PROVE  WorksOn(h)' /\ RolesGiven(h)'
  <1> USE DEF Signed, Owned, Invited, In
  <1>1. /\ WorksOn(h) /\ RolesGiven(h)
        /\ \A s \in Slugs : form[s].contact \notin form[s].invitees
        /\ pc[h] = "side" => who[h] \in Users
    BY DEF RoleInv, HandlerInv
  <1>2. CASE End(h) \/ Throws(h)
    BY <1>2, RolesEnd DEF Throws
  <1>3. CASE \E s \in Slugs : Submit(h, s) \/ Review(h, s)
    <2>1. pc'[h] \in {"create", "reject", "tenant"} /\ tenantOf'[h] = NoTenant
      BY <1>3 DEF Submit, Review, Start, Goto, TypeOK
    <2> QED BY <2>1 DEF WorksOn, RolesGiven, Made
  <1>4. CASE \E t \in Tenants : AdminProvision(h, t)
    <2>1. pc'[h] = "provision" /\ slugOf'[h] = NoSlug
      BY <1>4 DEF AdminProvision, Busy, Goto, HandlerInv, TypeOK
    <2> QED BY <2>1 DEF WorksOn, RolesGiven, Made
  <1>5. CASE \E t \in Tenants, u \in Users : AddMember(h, t, u)
    <2>1. PICK u \in Users : who' = [who EXCEPT ![h] = u] /\ todo' = [todo EXCEPT ![h] = {u}]
      BY <1>5 DEF AddMember
    <2>2. pc'[h] = "sides" /\ slugOf'[h] = NoSlug /\ todo'[h] = {u} /\ who'[h] = u
      BY <1>5, <2>1 DEF AddMember, Busy, Goto, HandlerInv, TypeOK
    <2> QED BY <2>2 DEF WorksOn, RolesGiven, Made
  <1>6. CASE \E t \in Tenants, u \in Users : AskAccess(h, t, u)
    <2>1. pc'[h] = "ask" /\ slugOf'[h] = NoSlug
      BY <1>6 DEF AskAccess, Start, Goto, TypeOK
    <2> QED BY <2>1 DEF WorksOn, RolesGiven, Made
  <1>7. CASE Create(h) /\ ~Throws(h) /\ ~End(h)
    <2>1. pc'[h] = "tenant" /\ UNCHANGED <<slugOf, tenantOf>> /\ pc[h] = "create"
      BY <1>7 DEF Create, Goto, TypeOK
    <2>2. ~Made(h)
      BY <1>1, <2>1 DEF WorksOn
    <2> QED BY <2>1, <2>2 DEF WorksOn, RolesGiven, Made
  <1>8. CASE (CreateTenant(h) \/ Provision(h) \/ Activate(h)) /\ ~Throws(h) /\ ~End(h)
    <2>1. pc'[h] \in {"provision", "activate", "find"}
      BY <1>8 DEF CreateTenant, Provision, Activate, Goto, TypeOK
    <2> QED BY <2>1 DEF WorksOn, RolesGiven, Made
  <1>9. CASE FindContact(h)
    <2>1. /\ pc[h] = "find" /\ pc'[h] = "contact" /\ seen'[h] = role[Contact(h)]
          /\ UNCHANGED <<role, form, slugOf>>
      BY <1>9 DEF FindContact, Goto, TypeOK, requests, people
    <2> QED BY <2>1 DEF WorksOn, RolesGiven, Made, Contact
  <1>10. CASE WriteContact(h) /\ ~Throws(h)
    <2>1. /\ pc[h] = "contact" /\ pc'[h] = "owner" /\ role' = [role EXCEPT ![Contact(h)] = "ADMIN"]
          /\ UNCHANGED <<form, slugOf>>
      BY <1>10 DEF WriteContact, Goto, TypeOK, requests
    <2>2. Contact(h) \in Users
      BY <2>1 DEF HandlerInv, RequestInv, Contact, TypeOK, Form, NoneApart
    <2>3. role'[Contact(h)] = "ADMIN" /\ Contact(h)' = Contact(h)
      BY <2>1, <2>2 DEF TypeOK, Contact
    <2> QED BY <2>1, <2>3 DEF WorksOn, RolesGiven, Made
  <1>11. slugOf[h] # NoSlug /\ pc[h] # "create" =>
           /\ Contact(h) \in Users /\ Invitees(h) \subseteq Users /\ Contact(h) \notin Invitees(h)
    <2> SUFFICES ASSUME slugOf[h] # NoSlug, pc[h] # "create"
                 PROVE  /\ Contact(h) \in Users /\ Invitees(h) \subseteq Users
                        /\ Contact(h) \notin Invitees(h)
      OBVIOUS
    <2>1. slugOf[h] \in Slugs /\ req[slugOf[h]] # "none"
      BY DEF RequestInv, TypeOK
    <2>2. form[slugOf[h]].contact \in Users /\ form[slugOf[h]].invitees \subseteq Users
      BY <2>1 DEF RequestInv, TypeOK, Form
    <2> QED BY <1>1, <2>1, <2>2 DEF Contact, Invitees
  <1>12. CASE Own(h) /\ ~Throws(h)
    <2>1. /\ pc[h] = "owner" /\ pc'[h] = "invite" /\ UNCHANGED <<role, form, slugOf>>
          /\ mishaps \subseteq mishaps'
      BY <1>12 DEF Own, Goto, TypeOK, requests, Note
    <2> QED BY <1>1, <2>1 DEF WorksOn, RolesGiven, Made, Contact
  <1>13. CASE Invite(h) /\ ~Throws(h)
    <2>1. /\ pc[h] = "invite" /\ UNCHANGED <<form, slugOf, who>> /\ SidesOrFulfil(h, Invitees(h))
          /\ role' = [u \in Users |-> IF u \in {v \in Invitees(h) : role[v] = "none"}
                                    THEN "VIEWER" ELSE role[u]]
          /\ mishaps \subseteq mishaps' /\ slugOf[h] \in Slugs
      BY <1>13 DEF Invite, requests, HandlerInv
    <2>2. /\ slugOf[h] # NoSlug /\ Contact(h)' = Contact(h) /\ Invitees(h)' = Invitees(h)
          /\ Contact(h) \in Users /\ Invitees(h) \subseteq Users
      BY <1>11, <2>1, NoneApart DEF Contact, Invitees
    <2>3. /\ \A u \in Users : role'[u] = role[u] \/ (role[u] = "none" /\ role'[u] = "VIEWER")
          /\ \A u \in Invitees(h) : role'[u] # "none"
      BY <2>1, <2>2 DEF TypeOK
    <2>4. role'[Contact(h)] = role[Contact(h)] /\ role[Contact(h)] \in In
      BY <1>1, <2>1, <2>2, <2>3 DEF RolesGiven
    <2>5. \/ pc'[h] = "sides" /\ todo'[h] = Invitees(h)
          \/ pc'[h] = "fulfil" /\ Invitees(h) = {}
      BY <2>1 DEF SidesOrFulfil, Goto, TypeOK
    <2>6. pc'[h] = "sides" => Ahead(h)' = Invitees(h)
      BY <2>2, <2>5 DEF Ahead
    <2> QED BY <1>1, <2>1, <2>2, <2>3, <2>4, <2>5, <2>6 DEF WorksOn, RolesGiven, Made
  <1>14. CASE ReadRole(h)
    <2>1. PICK u \in todo[h] :
            IF role[u] = "PENDING"
            THEN /\ Goto(h, "side")
                 /\ todo' = [todo EXCEPT ![h] = @ \ {u}]
                 /\ who' = [who EXCEPT ![h] = u]
            ELSE SidesOrFulfil(h, todo[h] \ {u}) /\ UNCHANGED who
      BY <1>14 DEF ReadRole
    <2>2. /\ pc[h] = "sides" /\ UNCHANGED <<role, form, slugOf, tenantOf, mishaps>>
          /\ todo[h] \subseteq Users
      BY <1>14 DEF ReadRole, requests, people, TypeOK
    <2>3. Contact(h)' = Contact(h) /\ Invitees(h)' = Invitees(h)
      BY <2>2 DEF Contact, Invitees
    <2>4. \/ /\ role[u] = "PENDING" /\ pc'[h] = "side"
             /\ todo'[h] = todo[h] \ {u} /\ who'[h] = u
          \/ /\ role[u] # "PENDING" /\ pc'[h] = "sides"
             /\ todo'[h] = todo[h] \ {u} /\ who'[h] = who[h]
          \/ /\ role[u] # "PENDING" /\ pc'[h] = "fulfil" /\ todo[h] \ {u} = {}
      BY <2>1 DEF SidesOrFulfil, Goto, TypeOK
    <2>5. \A v \in Ahead(h) \ {u} : pc'[h] # "fulfil" => v \in Ahead(h)'
      BY <2>2, <2>4 DEF Ahead
    <2>6. pc'[h] = "side" => u \in Ahead(h)'
      BY <2>2, <2>4 DEF Ahead
    <2>7. slugOf[h] # NoSlug => u \in Invitees(h) /\ role[u] # "none"
      BY <1>1, <2>1, <2>2 DEF WorksOn, RolesGiven
    <2>8. role[u] \in Role
      BY <2>2 DEF TypeOK
    <2>9. Ahead(h) \subseteq todo[h]
      BY <2>2 DEF Ahead
    <2>10. WorksOn(h)'
      BY <1>1, <2>1, <2>2, <2>3, <2>4 DEF WorksOn, Made
    <2>11. slugOf[h] # NoSlug => \A v \in Invitees(h) :
              role[v] # "none" /\ (v \in Ahead(h)' \/ role[v] \in In)
      <3> SUFFICES ASSUME slugOf[h] # NoSlug, NEW v \in Invitees(h)
                   PROVE  role[v] # "none" /\ (v \in Ahead(h)' \/ role[v] \in In)
        OBVIOUS
      <3>1. role[v] # "none" /\ (v \in Ahead(h) \/ role[v] \in In)
        BY <1>1, <2>2 DEF RolesGiven
      <3>2. CASE v = u
        BY <2>4, <2>6, <2>7, <2>8, <3>2 DEF Role
      <3>3. CASE v # u /\ v \in Ahead(h)
        BY <2>4, <2>5, <2>9, <3>1, <3>3
      <3> QED BY <3>1, <3>2, <3>3
    <2> QED BY <1>1, <2>2, <2>3, <2>4, <2>10, <2>11 DEF RolesGiven
  <1>15. CASE LetIn(h)
    <2>1. /\ pc[h] = "side" /\ UNCHANGED <<form, slugOf, tenantOf, who, mishaps>>
          /\ role' = [role EXCEPT ![who[h]] = "VIEWER"]
          /\ SidesOrFulfil(h, todo[h])
      BY <1>15 DEF LetIn, requests
    <2>2. /\ Contact(h)' = Contact(h) /\ Invitees(h)' = Invitees(h)
      BY <2>1 DEF Contact, Invitees
    <2>3. \/ pc'[h] = "sides" /\ todo'[h] = todo[h]
          \/ pc'[h] = "fulfil" /\ todo[h] = {}
      BY <2>1 DEF SidesOrFulfil, Goto, TypeOK
    <2>4. \A u \in Users : role'[u] = IF u = who[h] THEN "VIEWER" ELSE role[u]
      BY <2>1 DEF TypeOK
    <2>5. WorksOn(h)'
      BY <1>1, <2>1, <2>2, <2>3 DEF WorksOn, Made
    <2>6. slugOf[h] # NoSlug => who[h] \in Invitees(h) /\ who[h] # Contact(h)
      BY <1>1, <1>11, <2>1 DEF WorksOn
    <2>7. \A v \in Ahead(h) \ {who[h]} : v \in todo[h] /\ (pc'[h] = "sides" => v \in Ahead(h)')
      BY <2>1, <2>3 DEF Ahead
    <2>8. slugOf[h] # NoSlug => \A v \in Invitees(h) :
              role'[v] # "none" /\ (v \in Ahead(h)' \/ role'[v] \in In)
      <3> SUFFICES ASSUME slugOf[h] # NoSlug, NEW v \in Invitees(h)
                   PROVE  role'[v] # "none" /\ (v \in Ahead(h)' \/ role'[v] \in In)
        OBVIOUS
      <3>1. role[v] # "none" /\ (v \in Ahead(h) \/ role[v] \in In) /\ v \in Users
        BY <1>1, <1>11, <2>1 DEF RolesGiven
      <3> QED BY <2>3, <2>4, <2>7, <3>1
    <2> QED BY <1>1, <1>11, <2>1, <2>2, <2>3, <2>4, <2>5, <2>6, <2>8 DEF RolesGiven
  <1>16. CASE Fulfil(h) /\ ~End(h)
    <2>1. /\ pc[h] = "fulfil" /\ pc'[h] \in {"fulfil", "finish"}
          /\ UNCHANGED <<role, form, slugOf, tenantOf, mishaps>>
      BY <1>16 DEF Fulfil, Goto, TypeOK, requests
    <2>2. Contact(h)' = Contact(h) /\ Invitees(h)' = Invitees(h) /\ Ahead(h) = {}
      BY <2>1 DEF Contact, Invitees, Ahead
    <2> QED BY <1>1, <2>1, <2>2 DEF WorksOn, RolesGiven, Made
  <1>17. CASE Reject(h) \/ Finish(h) \/ WriteAsk(h) \/ Fail(h)
    BY <1>2, <1>17 DEF Reject, Finish, WriteAsk, Fail
  <1> QED
    BY <1>2, <1>3, <1>4, <1>5, <1>6, <1>7, <1>8, <1>9, <1>10, <1>12, <1>13, <1>14, <1>15, <1>16, <1>17
    DEF Moves, Statement

LEMMA NextRoles ==
  ASSUME TypeOK, TypeOK', HandlerInv, RequestInv, RoleInv, [Next]_vars
  PROVE  RoleInv'
  <1>1. \A s \in Slugs : form'[s].contact \notin form'[s].invitees
    BY FormsStay DEF RoleInv
  <1>2. ASSUME NEW h \in Handlers, Moves(h), NEW g \in Handlers
        PROVE  WorksOn(g)' /\ RolesGiven(g)'
    <2>1. CASE g = h
      BY <1>2, <2>1, RolesMove
    <2>2. CASE g # h
      <3>1. Same(g)
        BY <1>2, <2>2, OthersSame
      <3>2. ASSUME NEW k \in Handlers, k # g, LetIn(k), Busy(g) PROVE "overlap" \in mishaps'
        BY <3>2, MishapsGrow DEF RoleInv, Busy, LetIn
      <3> QED BY <3>1, <3>2, RolesKept
    <2> QED BY <2>1, <2>2
  <1>3. ASSUME Elsewhere \/ UNCHANGED vars, NEW g \in Handlers
        PROVE  WorksOn(g)' /\ RolesGiven(g)'
    <2>1. Same(g) /\ \A h \in Handlers : ~LetIn(h)
      <3>1. UNCHANGED pc /\ Same(g)
        BY <1>3, ElsewhereSame
        DEF Elsewhere, AdminCreateTenant, PatchTenant, DeleteTenant, RemoveMember, SignIn, vars,
            local, Same
      <3> QED BY <3>1 DEF LetIn, SidesOrFulfil, Goto, TypeOK
    <2> QED BY <2>1, RolesKept
  <1>4. ASSUME Restart, NEW g \in Handlers PROVE WorksOn(g)' /\ RolesGiven(g)'
    BY <1>4, RolesEnd
  <1> QED BY <1>1, <1>2, <1>3, <1>4, BusyAlone, Kinds DEF RoleInv

(* What a step may do to the rows of a request, a tenant, a membership and *)
(* a request for access.                                                   *)
LEMMA RequestMoves ==
  ASSUME TypeOK, HandlerInv, [Next]_vars, NEW s \in Slugs
  PROVE  \/ req'[s] = req[s] /\ reqTenant'[s] = reqTenant[s]
         \/ \E h \in Handlers : /\ Create(h) /\ slugOf[h] = s
                                /\ req[s] = "none" /\ req'[s] = "PENDING"
                                /\ reqTenant'[s] = reqTenant[s]
         \/ \E h \in Handlers : /\ Reject(h) /\ slugOf[h] = s
                                /\ req'[s] = "REJECTED" /\ reqTenant'[s] = reqTenant[s]
         \/ \E h \in Handlers : /\ Finish(h) /\ slugOf[h] = s /\ Live(tenantOf[h])
                                /\ req'[s] = "APPROVED" /\ reqTenant'[s] = tenantOf[h]
  <1> USE DEF TypeOK
  <1>1. ASSUME NEW h \in Handlers, Create(h)
        PROVE  \/ req'[s] = req[s] /\ reqTenant'[s] = reqTenant[s]
               \/ /\ slugOf[h] = s /\ req[s] = "none" /\ req'[s] = "PENDING"
                  /\ reqTenant'[s] = reqTenant[s]
    BY <1>1 DEF Create, Throws, requests
  <1>2. ASSUME NEW h \in Handlers, Reject(h)
        PROVE  \/ req'[s] = req[s] /\ reqTenant'[s] = reqTenant[s]
               \/ slugOf[h] = s /\ req'[s] = "REJECTED" /\ reqTenant'[s] = reqTenant[s]
    BY <1>2 DEF Reject
  <1>3. ASSUME NEW h \in Handlers, Finish(h)
        PROVE  \/ req'[s] = req[s] /\ reqTenant'[s] = reqTenant[s]
               \/ /\ slugOf[h] = s /\ Live(tenantOf[h])
                  /\ req'[s] = "APPROVED" /\ reqTenant'[s] = tenantOf[h]
    BY <1>3 DEF Finish, Throws, requests
  <1>4. ASSUME NEW h \in Handlers, Moves(h), ~Create(h), ~Reject(h), ~Finish(h)
        PROVE  UNCHANGED <<req, reqTenant>>
    <2>1. CASE CreateTenant(h) \/ Provision(h) \/ Activate(h) \/ FindContact(h) \/ WriteContact(h)
      BY <2>1 DEF CreateTenant, Provision, Activate, FindContact, WriteContact, Throws, requests
    <2>2. CASE Own(h) \/ Invite(h) \/ ReadRole(h) \/ LetIn(h) \/ Fulfil(h) \/ WriteAsk(h)
      BY <2>2 DEF Own, Invite, ReadRole, LetIn, Fulfil, WriteAsk, Throws, requests
    <2>3. CASE ~Statement(h)
      BY <1>4, <2>3 DEF Moves, Fail, Submit, Review, AdminProvision, AddMember, AskAccess, requests
    <2> QED BY <1>4, <2>1, <2>2, <2>3 DEF Statement
  <1>5. CASE Elsewhere
    BY <1>5 DEF Elsewhere, AdminCreateTenant, PatchTenant, DeleteTenant, RemoveMember, SignIn,
                requests
  <1>6. CASE Restart \/ UNCHANGED vars
    BY <1>6 DEF Restart, vars, requests
  <1> QED BY <1>1, <1>2, <1>3, <1>4, <1>5, <1>6, Kinds

LEMMA TenantMoves ==
  ASSUME TypeOK, HandlerInv, [Next]_vars, NEW t \in Tenants
  PROVE  \/ tstatus'[t] = tstatus[t] /\ tslug'[t] = tslug[t]
         \/ \E h \in Handlers : /\ CreateTenant(h) /\ tenantOf'[h] = t /\ pc'[h] = "provision"
                                /\ tstatus[t] = "none" /\ tstatus'[t] = "PROVISIONING"
                                /\ tslug'[t] = slugOf[h] /\ slugOf'[h] = slugOf[h]
                                /\ ~SlugTaken(slugOf[h])
                                /\ \A r \in Tenants \ {t} : tstatus'[r] = tstatus[r] /\ tslug'[r] = tslug[r]
         \/ \E h \in Handlers : /\ Activate(h) /\ tenantOf[h] = t
                                /\ Live(t) /\ tstatus'[t] = "ACTIVE" /\ tslug'[t] = tslug[t]
         \/ \E s \in Slugs : /\ AdminCreateTenant(s)
                             /\ tstatus[t] = "none" /\ tstatus'[t] = "PROVISIONING"
                             /\ tslug'[t] = s
                             /\ \A r \in Tenants \ {t} : tstatus'[r] = tstatus[r] /\ tslug'[r] = tslug[r]
         \/ /\ PatchTenant(t) /\ Live(t) /\ Live(t)'
            /\ tslug'[t] = tslug[t] \/ ~SlugTaken(tslug'[t])
            /\ \A r \in Tenants \ {t} : tstatus'[r] = tstatus[r] /\ tslug'[r] = tslug[r]
         \/ DeleteTenant(t) /\ Live(t) /\ tstatus'[t] = "gone" /\ tslug'[t] = tslug[t]
  <1> USE DEF TypeOK
  <1>1. ASSUME NEW h \in Handlers, CreateTenant(h)
        PROVE  \/ tstatus'[t] = tstatus[t] /\ tslug'[t] = tslug[t]
               \/ /\ tenantOf'[h] = t /\ pc'[h] = "provision"
                  /\ tstatus[t] = "none" /\ tstatus'[t] = "PROVISIONING"
                  /\ tslug'[t] = slugOf[h] /\ slugOf'[h] = slugOf[h] /\ ~SlugTaken(slugOf[h])
                  /\ \A r \in Tenants \ {t} : tstatus'[r] = tstatus[r] /\ tslug'[r] = tslug[r]
    <2>1. CASE Throws(h)
      BY <2>1 DEF Throws, tenants
    <2>2. CASE ~Throws(h)
      <3>1. PICK r \in Tenants : /\ tstatus[r] = "none"
                                 /\ tstatus' = [tstatus EXCEPT ![r] = "PROVISIONING"]
                                 /\ tslug' = [tslug EXCEPT ![r] = slugOf[h]]
                                 /\ tenantOf' = [tenantOf EXCEPT ![h] = r]
        BY <1>1, <2>2 DEF CreateTenant
      <3>2. Goto(h, "provision") /\ slugOf' = slugOf /\ ~SlugTaken(slugOf[h])
        BY <1>1, <2>2 DEF CreateTenant
      <3> QED BY <3>1, <3>2 DEF Goto
    <2> QED BY <2>1, <2>2
  <1>2. ASSUME NEW h \in Handlers, Activate(h)
        PROVE  \/ tstatus'[t] = tstatus[t] /\ tslug'[t] = tslug[t]
               \/ tenantOf[h] = t /\ Live(t) /\ tstatus'[t] = "ACTIVE" /\ tslug'[t] = tslug[t]
    BY <1>2 DEF Activate, Throws, tenants
  <1>3. ASSUME NEW s \in Slugs, AdminCreateTenant(s)
        PROVE  \/ tstatus'[t] = tstatus[t] /\ tslug'[t] = tslug[t]
               \/ /\ tstatus[t] = "none" /\ tstatus'[t] = "PROVISIONING" /\ tslug'[t] = s
                  /\ \A r \in Tenants \ {t} : tstatus'[r] = tstatus[r] /\ tslug'[r] = tslug[r]
    BY <1>3 DEF AdminCreateTenant
  <1>4. ASSUME NEW r \in Tenants, PatchTenant(r)
        PROVE  /\ r # t => tstatus'[t] = tstatus[t] /\ tslug'[t] = tslug[t]
               /\ Live(r) /\ Live(r)'
               /\ tslug'[r] = tslug[r] \/ ~SlugTaken(tslug'[r])
               /\ \A q \in Tenants \ {r} : tstatus'[q] = tstatus[q] /\ tslug'[q] = tslug[q]
    BY <1>4 DEF PatchTenant, Live
  <1>5. ASSUME NEW r \in Tenants, DeleteTenant(r)
        PROVE  \/ r # t /\ tstatus'[t] = tstatus[t] /\ tslug'[t] = tslug[t]
               \/ r = t /\ Live(t) /\ tstatus'[t] = "gone" /\ tslug'[t] = tslug[t]
    BY <1>5 DEF DeleteTenant
  <1>6. ASSUME NEW h \in Handlers, Moves(h), ~CreateTenant(h), ~Activate(h)
        PROVE  UNCHANGED tenants
    <2>1. CASE Create(h) \/ Reject(h) \/ Provision(h) \/ FindContact(h) \/ WriteContact(h)
      BY <2>1 DEF Create, Reject, Provision, FindContact, WriteContact, Throws
    <2>2. CASE Own(h) \/ Invite(h) \/ ReadRole(h) \/ LetIn(h) \/ Fulfil(h) \/ Finish(h) \/ WriteAsk(h)
      BY <2>2 DEF Own, Invite, ReadRole, LetIn, Fulfil, Finish, WriteAsk, Throws
    <2>3. CASE ~Statement(h)
      BY <1>6, <2>3 DEF Moves, Fail, Submit, Review, AdminProvision, AddMember, AskAccess
    <2> QED BY <1>6, <2>1, <2>2, <2>3 DEF Statement
  <1>7. CASE (\E r \in Tenants, u \in Users : RemoveMember(r, u)) \/ (\E u \in Users : SignIn(u))
             \/ Restart \/ UNCHANGED vars
    BY <1>7 DEF RemoveMember, SignIn, Restart, vars, tenants
  <1> QED BY <1>1, <1>2, <1>3, <1>4, <1>5, <1>6, <1>7, Kinds DEF Elsewhere, tenants

LEMMA MemberMoves ==
  ASSUME TypeOK, HandlerInv, RequestInv, [Next]_vars, NEW t \in Tenants, NEW u \in Users
  PROVE  \/ member'[t][u] = member[t][u]
         \/ \E h \in Handlers : /\ Own(h) /\ tenantOf[h] = t /\ Contact(h) = u /\ Live(t)
                                /\ pc'[h] = "invite" /\ member'[t][u] = "OWNER"
                                /\ slugOf'[h] = slugOf[h] /\ tenantOf'[h] = t /\ UNCHANGED form
                                /\ member[t][u] = "none" /\ AskedFor(t, u) => "lateask" \in mishaps'
         \/ \E h \in Handlers : /\ Invite(h) /\ ~Throws(h) /\ tenantOf[h] = t /\ u \in Invitees(h) /\ Live(t)
                                /\ member[t][u] = "none" /\ member'[t][u] = "MEMBER"
                                /\ AskedFor(t, u) => "lateask" \in mishaps'
         \/ \E h \in Handlers : /\ AddMember(h, t, u)
                                /\ member[t][u] = "none" /\ Live(t)
                                /\ AskedFor(t, u) => "lateask" \in mishaps'
         \/ member'[t][u] = "none" /\ (DeleteTenant(t) \/ RemoveMember(t, u))
  <1> USE DEF TypeOK
  <1>1. ASSUME NEW h \in Handlers, Own(h)
        PROVE  \/ member'[t][u] = member[t][u]
               \/ /\ tenantOf[h] = t /\ Contact(h) = u /\ Live(t)
                  /\ pc'[h] = "invite" /\ member'[t][u] = "OWNER"
                  /\ slugOf'[h] = slugOf[h] /\ tenantOf'[h] = t /\ UNCHANGED form
                  /\ member[t][u] = "none" /\ AskedFor(t, u) => "lateask" \in mishaps'
    <2>1. CASE Throws(h)
      BY <2>1 DEF Throws, people
    <2>2. CASE ~Throws(h)
      <3>1. /\ Live(tenantOf[h]) /\ tenantOf[h] \in Tenants
            /\ member' = [member EXCEPT ![tenantOf[h]] = [@ EXCEPT ![Contact(h)] = "OWNER"]]
            /\ Note("lateask", member[tenantOf[h]][Contact(h)] = "none" /\ AskedFor(tenantOf[h], Contact(h)))
            /\ Goto(h, "invite") /\ UNCHANGED <<slugOf, tenantOf, form>>
        BY <1>1, <2>2 DEF Own, requests, HandlerInv, PCs
      <3> QED BY <3>1 DEF Note, Goto
    <2> QED BY <2>1, <2>2
  <1>2. ASSUME NEW h \in Handlers, Invite(h)
        PROVE  \/ member'[t][u] = member[t][u]
               \/ /\ ~Throws(h) /\ tenantOf[h] = t /\ u \in Invitees(h) /\ Live(t)
                  /\ member[t][u] = "none" /\ member'[t][u] = "MEMBER"
                  /\ AskedFor(t, u) => "lateask" \in mishaps'
    <2>1. CASE Throws(h)
      BY <2>1 DEF Throws, people
    <2>2. CASE ~Throws(h)
      <3> DEFINE joining == {v \in Invitees(h) : member[tenantOf[h]][v] = "none"}
                 joined == [v \in Users |-> IF v \in joining THEN "MEMBER" ELSE member[tenantOf[h]][v]]
      <3>1. tenantOf[h] \in Tenants
        BY <1>2 DEF Invite, HandlerInv, PCs
      <3>2. /\ Live(tenantOf[h]) \/ Invitees(h) = {}
            /\ member' = [member EXCEPT ![tenantOf[h]] = joined]
            /\ (\E v \in joining : AskedFor(tenantOf[h], v)) => "lateask" \in mishaps'
        BY <1>2, <2>2, <3>1 DEF Invite
      <3>3. /\ u \in joining => joined[u] = "MEMBER" /\ u \in Invitees(h) /\ member[tenantOf[h]][u] = "none"
            /\ u \notin joining => joined[u] = member[tenantOf[h]][u]
        OBVIOUS
      <3>4. tenantOf[h] # t => member'[t] = member[t]
        BY <3>2
      <3>5. tenantOf[h] = t => member'[t] = joined
        BY <3>1, <3>2
      <3> HIDE DEF joined
      <3>6. CASE tenantOf[h] = t /\ u \in joining
        BY <2>2, <3>2, <3>3, <3>5, <3>6
      <3>7. CASE ~(tenantOf[h] = t /\ u \in joining)
        BY <3>3, <3>4, <3>5, <3>7
      <3> QED BY <3>6, <3>7
    <2> QED BY <2>1, <2>2
  <1>3. ASSUME NEW h \in Handlers, NEW r \in Tenants, NEW v \in Users, AddMember(h, r, v)
        PROVE  \/ member'[t][u] = member[t][u]
               \/ /\ r = t /\ v = u /\ member[t][u] = "none" /\ Live(t)
                  /\ AskedFor(t, u) => "lateask" \in mishaps'
    <2>1. PICK o \in {"MEMBER", "OWNER"} : member' = [member EXCEPT ![r] = [@ EXCEPT ![v] = o]]
      BY <1>3 DEF AddMember
    <2> QED BY <1>3, <2>1 DEF AddMember
  <1>4. ASSUME NEW r \in Tenants, DeleteTenant(r)
        PROVE  member'[t][u] = member[t][u] \/ (r = t /\ member'[t][u] = "none")
    BY <1>4 DEF DeleteTenant
  <1>5. ASSUME NEW r \in Tenants, NEW v \in Users, RemoveMember(r, v)
        PROVE  member'[t][u] = member[t][u] \/ (r = t /\ v = u /\ member'[t][u] = "none")
    <2>1. member' = [member EXCEPT ![r] = [@ EXCEPT ![v] = "none"]]
      BY <1>5 DEF RemoveMember
    <2> QED BY <2>1
  <1>6. ASSUME NEW h \in Handlers, Moves(h), ~Own(h), ~Invite(h),
               \A r \in Tenants, v \in Users : ~AddMember(h, r, v)
        PROVE  UNCHANGED member
    <2>1. CASE Create(h) \/ Reject(h) \/ CreateTenant(h) \/ Provision(h) \/ Activate(h) \/ FindContact(h)
      BY <2>1 DEF Create, Reject, CreateTenant, Provision, Activate, FindContact, Throws, people
    <2>2. CASE WriteContact(h) \/ ReadRole(h) \/ LetIn(h) \/ Fulfil(h) \/ Finish(h) \/ WriteAsk(h)
      BY <2>2 DEF WriteContact, ReadRole, LetIn, Fulfil, Finish, WriteAsk, Throws, people
    <2>3. CASE ~Statement(h)
      BY <1>6, <2>3 DEF Moves, Fail, Submit, Review, AdminProvision, AskAccess, people
    <2> QED BY <1>6, <2>1, <2>2, <2>3 DEF Statement
  <1>7. CASE (\E s \in Slugs : AdminCreateTenant(s)) \/ (\E r \in Tenants : PatchTenant(r))
             \/ (\E v \in Users : SignIn(v)) \/ Restart \/ UNCHANGED vars
    BY <1>7 DEF AdminCreateTenant, PatchTenant, SignIn, Restart, vars, people
  <1>8. CASE \E h \in Handlers : Moves(h)
    <2>1. PICK h \in Handlers : Moves(h)
      BY <1>8
    <2>2. CASE Own(h) \/ Invite(h)
      BY <1>1, <1>2, <2>2
    <2>3. CASE \E r \in Tenants, v \in Users : AddMember(h, r, v)
      BY <1>3, <2>3
    <2> QED BY <1>6, <2>1, <2>2, <2>3
  <1>9. CASE Elsewhere
    BY <1>4, <1>5, <1>7, <1>9 DEF Elsewhere
  <1> QED BY <1>7, <1>8, <1>9, Kinds

LEMMA AccessMoves ==
  ASSUME TypeOK, HandlerInv, [Next]_vars, NEW t \in Tenants, NEW u \in Users
  PROVE  \/ access'[t][u] = access[t][u]
         \/ access'[t][u] # "PENDING"
         \/ \E h \in Handlers : WriteAsk(h) /\ tenantOf[h] = t /\ who[h] = u
  <1> USE DEF TypeOK
  <1>1. ASSUME NEW h \in Handlers, Fulfil(h)
        PROVE  access'[t][u] = access[t][u] \/ access'[t][u] # "PENDING"
    <2>1. PICK v \in todo[h] : access' = FulfilledAccess(h, v)
      BY <1>1 DEF Fulfil
    <2> DEFINE o == IF access[tenantOf[h]][v] = "PENDING" THEN "FULFILLED" ELSE access[tenantOf[h]][v]
    <2>2. access' = [access EXCEPT ![tenantOf[h]] = [@ EXCEPT ![v] = o]]
      BY <2>1 DEF FulfilledAccess
    <2>3. o # "PENDING"
      OBVIOUS
    <2> HIDE DEF o
    <2> QED BY <2>2, <2>3
  <1>2. ASSUME NEW h \in Handlers, WriteAsk(h)
        PROVE  access'[t][u] = access[t][u] \/ (tenantOf[h] = t /\ who[h] = u)
    <2>1. CASE Throws(h)
      BY <2>1 DEF Throws, people
    <2>2. CASE ~Throws(h)
      <3>1. access' = [access EXCEPT ![tenantOf[h]] = [@ EXCEPT ![who[h]] = "PENDING"]]
        BY <1>2, <2>2 DEF WriteAsk
      <3> QED BY <3>1
    <2> QED BY <2>1, <2>2
  <1>3. ASSUME NEW r \in Tenants, DeleteTenant(r)
        PROVE  access'[t][u] = access[t][u] \/ access'[t][u] # "PENDING"
    BY <1>3 DEF DeleteTenant
  <1>4. ASSUME NEW h \in Handlers, Moves(h), ~Fulfil(h), ~WriteAsk(h)
        PROVE  UNCHANGED access
    <2>1. CASE Create(h) \/ Reject(h) \/ CreateTenant(h) \/ Provision(h) \/ Activate(h) \/ FindContact(h)
      BY <2>1 DEF Create, Reject, CreateTenant, Provision, Activate, FindContact, Throws, people
    <2>2. CASE WriteContact(h) \/ ReadRole(h) \/ LetIn(h) \/ Own(h) \/ Finish(h) \/ Invite(h)
      BY <2>2 DEF WriteContact, ReadRole, LetIn, Own, Finish, Invite, Throws, people
    <2>3. CASE ~Statement(h)
      BY <1>4, <2>3 DEF Moves, Fail, Submit, Review, AdminProvision, AddMember, AskAccess, people
    <2> QED BY <1>4, <2>1, <2>2, <2>3 DEF Statement
  <1>5. CASE (\E s \in Slugs : AdminCreateTenant(s)) \/ (\E r \in Tenants : PatchTenant(r))
             \/ (\E r \in Tenants, v \in Users : RemoveMember(r, v))
             \/ (\E v \in Users : SignIn(v)) \/ Restart \/ UNCHANGED vars
    BY <1>5 DEF AdminCreateTenant, PatchTenant, RemoveMember, SignIn, Restart, vars, people
  <1> QED BY <1>1, <1>2, <1>3, <1>4, <1>5, Kinds DEF Elsewhere

(* Slugs stay unique, and memberships go with their tenant. *)
LEMMA NextRows ==
  ASSUME TypeOK, TypeOK', HandlerInv, RequestInv, RowInv, [Next]_vars
  PROVE  RowInv'
  <1> USE DEF TypeOK
  <1>1. ASSUME NEW t \in Tenants, NEW r \in Tenants, Live(t)', Live(r)', tslug'[t] = tslug'[r]
        PROVE  t = r
    <2>1. ASSUME NEW q \in Tenants, NEW p \in Tenants, q # p,
                 Live(q)', Live(p)', tslug'[q] = tslug'[p], ~SlugTaken(tslug'[q]),
                 \A k \in Tenants \ {q} : tstatus'[k] = tstatus[k] /\ tslug'[k] = tslug[k]
          PROVE  FALSE
      BY <2>1 DEF SlugTaken, Live
    <2>2. ASSUME NEW q \in Tenants, NEW p \in Tenants, q # p, Live(q)', Live(p)', tslug'[q] = tslug'[p]
          PROVE  Live(q) /\ tslug'[q] = tslug[q]
      <3> DEFINE Fresh == /\ ~SlugTaken(tslug'[q])
                          /\ \A k \in Tenants \ {q} : tstatus'[k] = tstatus[k] /\ tslug'[k] = tslug[k]
      <3>1. ASSUME NEW s \in Slugs, AdminCreateTenant(s) PROVE ~SlugTaken(s)
        BY <3>1 DEF AdminCreateTenant
      <3>2. \/ tstatus'[q] = tstatus[q] /\ tslug'[q] = tslug[q]
            \/ Live(q) /\ tslug'[q] = tslug[q]
            \/ Fresh
        BY <3>1, TenantMoves
      <3> QED BY <2>1, <2>2, <3>2 DEF Live
    <2> QED BY <1>1, <2>2 DEF RowInv
  <1>2. ASSUME NEW t \in Tenants, NEW u \in Users, ~Live(t)'
        PROVE  member'[t][u] = "none"
    <2>1. CASE Live(t)
      <3>1. DeleteTenant(t)
        BY <1>2, <2>1, TenantMoves DEF Live
      <3> QED BY <3>1 DEF DeleteTenant
    <2>2. CASE ~Live(t)
      BY <2>2, MemberMoves DEF RowInv
    <2> QED BY <2>1, <2>2
  <1>3. ASSUME NEW s \in Slugs, reqTenant'[s] # NoTenant PROVE req'[s] \in Decided
    BY <1>3, RequestMoves DEF RowInv, Decided
  <1>4. ASSUME NEW h \in Handlers, tenantOf'[h] # NoTenant PROVE tstatus'[tenantOf'[h]] # "none"
    <2>1. \A t \in Tenants : tstatus[t] # "none" => tstatus'[t] # "none"
      BY TenantMoves DEF Live
    <2>2. tenantOf'[h] \in Tenants
      BY <1>4
    <2>3. CASE tenantOf'[h] = tenantOf[h]
      BY <1>4, <2>1, <2>2, <2>3 DEF RowInv
    <2>4. CASE tenantOf'[h] # tenantOf[h]
      <3>1. Moves(h)
        BY <1>4, <2>4, Kinds, OthersSame, ElsewhereSame DEF Same, Restart, vars, local
      <3>2. ~(Throws(h) \/ End(h))
        BY <1>4 DEF Throws, End
      <3>3. CASE CreateTenant(h)
        BY <1>4, <2>2, <3>2, <3>3, TenantMoves DEF CreateTenant
      <3>4. CASE \E t \in Tenants : AdminProvision(h, t)
        BY <3>4 DEF AdminProvision, tenants, Live
      <3>5. CASE \E t \in Tenants, u \in Users : AddMember(h, t, u) \/ AskAccess(h, t, u)
        BY <3>5 DEF AddMember, AskAccess, Start, tenants, Live
      <3>6. CASE \E s \in Slugs : Submit(h, s) \/ Review(h, s)
        BY <1>4, <3>6 DEF Submit, Review, Start
      <3>7. CASE Statement(h) /\ ~CreateTenant(h)
        <4>1. CASE Create(h) \/ Provision(h) \/ Activate(h) \/ FindContact(h) \/ WriteContact(h)
          BY <2>4, <3>2, <4>1 DEF Create, Provision, Activate, FindContact, WriteContact
        <4>2. CASE Own(h) \/ Invite(h) \/ ReadRole(h) \/ LetIn(h) \/ Fulfil(h)
          BY <2>4, <3>2, <4>2 DEF Own, Invite, ReadRole, LetIn, Fulfil
        <4>3. CASE Reject(h) \/ Finish(h) \/ WriteAsk(h)
          BY <3>2, <4>3 DEF Reject, Finish, WriteAsk
        <4> QED BY <3>7, <4>1, <4>2, <4>3 DEF Statement
      <3> QED BY <3>1, <3>2, <3>3, <3>4, <3>5, <3>6, <3>7 DEF Moves, Fail
    <2> QED BY <2>3, <2>4
  <1> QED BY <1>1, <1>2, <1>3, <1>4 DEF RowInv

(* A handler that reviews has the request for itself. *)
LEMMA NextTurns ==
  ASSUME TypeOK, TypeOK', HandlerInv, RequestInv, TurnInv, [Next]_vars
  PROVE  TurnInv'
  <1> USE DEF TypeOK
  <1> SUFFICES ASSUME "contest" \notin mishaps', NEW h \in Handlers,
                      slugOf'[h] # NoSlug, pc'[h] # "create"
               PROVE  /\ req'[slugOf'[h]] = "PENDING"
                      /\ \A g \in Handlers : slugOf'[g] = slugOf'[h] /\ pc'[g] # "create" => g = h
    BY DEF TurnInv
  <1>0. "contest" \notin mishaps
    BY MishapsGrow
  <1> DEFINE At(k, s) == slugOf[k] = s /\ pc[k] # "create"
  <1>1. ASSUME NEW k \in Handlers, slugOf'[k] # NoSlug, pc'[k] # "create", ~Same(k)
        PROVE  /\ Moves(k)
               /\ slugOf'[k] \in Slugs
               /\ \/ At(k, slugOf'[k]) /\ ~Reject(k) /\ ~Finish(k)
                  \/ /\ req[slugOf'[k]] = "PENDING" /\ UNCHANGED req
                     /\ \A g \in Handlers : ~At(g, slugOf'[k])
                  \/ Create(k) /\ req[slugOf'[k]] = "none" /\ req'[slugOf'[k]] = "PENDING"
    <2>1. Moves(k)
      BY <1>1, Kinds, OthersSame, ElsewhereSame DEF Same, Restart, vars, local
    <2>2. ~(Throws(k) \/ End(k))
      BY <1>1 DEF Throws, End
    <2>3. CASE Create(k)
      BY <1>1, <2>1, <2>2, <2>3 DEF Create, HandlerInv
    <2>4. CASE \E s \in Slugs : Submit(k, s)
      BY <1>1, <2>4 DEF Submit, Start, Goto
    <2>5. ASSUME NEW s \in Slugs, Review(k, s)
          PROVE  req[s] = "PENDING" /\ UNCHANGED req /\ slugOf'[k] = s /\ \A g \in Handlers : ~At(g, s)
      <3>1. req[s] = "PENDING" /\ UNCHANGED req
        BY <2>5 DEF Review, requests
      <3>2. Handling(s) = {} /\ slugOf'[k] = s
        BY <2>5 DEF Review, Start
      <3>3. \A g \in Handlers : slugOf[g] = s => g \in Handling(s)
        BY NoneApart DEF Handling, Busy, HandlerInv
      <3> QED BY <3>1, <3>2, <3>3
    <2>6. CASE \/ \E t \in Tenants : AdminProvision(k, t)
               \/ \E t \in Tenants, u \in Users : AddMember(k, t, u) \/ AskAccess(k, t, u)
      BY <1>1, <2>6 DEF AdminProvision, AddMember, AskAccess, Start, Busy, HandlerInv
    <2>7. CASE Statement(k) /\ ~Create(k)
      <3>1. slugOf'[k] = slugOf[k] /\ pc[k] # "create" /\ ~Reject(k) /\ ~Finish(k)
        <4>1. CASE CreateTenant(k) \/ Provision(k) \/ Activate(k) \/ FindContact(k) \/ WriteContact(k)
          BY <2>2, <4>1 DEF CreateTenant, Provision, Activate, FindContact, WriteContact, Reject, Finish
        <4>2. CASE Own(k) \/ Invite(k) \/ ReadRole(k) \/ LetIn(k) \/ Fulfil(k)
          BY <2>2, <4>2 DEF Own, Invite, ReadRole, LetIn, Fulfil, Reject, Finish
        <4>3. CASE Reject(k) \/ Finish(k) \/ WriteAsk(k)
          BY <2>2, <4>3 DEF Reject, Finish, WriteAsk
        <4> QED BY <2>7, <4>1, <4>2, <4>3 DEF Statement
      <3> QED BY <1>1, <2>1, <3>1
    <2> QED BY <2>1, <2>2, <2>3, <2>4, <2>5, <2>6, <2>7 DEF Moves, Fail
  <1>2. slugOf'[h] \in Slugs
    OBVIOUS
  <1> DEFINE s == slugOf'[h]
  <1>3. ASSUME NEW k \in Handlers, slugOf'[k] = s, pc'[k] # "create"
        PROVE  \/ At(k, s) /\ ~Reject(k) /\ ~Finish(k)
               \/ /\ Moves(k) /\ req[s] = "PENDING" /\ UNCHANGED req
                  /\ \A g \in Handlers : ~At(g, s)
               \/ Create(k) /\ req[s] = "none" /\ req'[s] = "PENDING"
    <2>1. CASE Same(k)
      <3>1. ~Reject(k) /\ ~Finish(k)
        BY <1>2, <1>3, <2>1 DEF Same, Reject, Finish, End, Throws, NoneApart
      <3> QED BY <1>3, <2>1, <3>1 DEF Same
    <2> QED BY <1>1, <1>3, <2>1
  <1>4. \A k \in Handlers : At(k, s) => /\ req[s] = "PENDING"
                                        /\ \A g \in Handlers : At(g, s) => g = k
    BY <1>0 DEF TurnInv
  <1>5. req'[s] = "PENDING"
    <2>1. CASE At(h, s) /\ ~Reject(h) /\ ~Finish(h)
      <3>1. \A k \in Handlers : Reject(k) \/ Finish(k) => pc[k] # "create"
        BY DEF Reject, Finish
      <3>2. req[s] = "PENDING"
        BY <1>4, <2>1
      <3>3. ~\E k \in Handlers : (Reject(k) \/ Finish(k)) /\ slugOf[k] = s
        BY <1>4, <2>1, <3>1
      <3> HIDE DEF s, At
      <3> QED BY <1>2, <3>2, <3>3, RequestMoves DEF s
    <2> QED BY <1>3, <2>1
  <1>6. ASSUME NEW g \in Handlers, slugOf'[g] = s, pc'[g] # "create" PROVE g = h
    <2>1. \A k \in Handlers : At(k, s) => req[s] # "none"
      BY <1>4
    <2>2. ASSUME NEW k \in Handlers, NEW j \in Handlers, Moves(k), k # j, slugOf'[j] = s, pc'[j] # "create"
          PROVE  At(j, s)
      BY <2>2, OthersSame DEF Same
    <2>3. \A k \in Handlers : Create(k) => Moves(k)
      BY DEF Moves, Statement
    <2> HIDE DEF s, At
    <2>4. CASE At(h, s) /\ At(g, s)
      BY <1>4, <2>4
    <2>5. CASE ~At(h, s) /\ g # h
      <3>1. \/ Moves(h) /\ \A j \in Handlers : ~At(j, s)
            \/ Moves(h) /\ req[s] = "none"
        BY <1>3, <2>3, <2>5 DEF s
      <3> QED BY <1>6, <2>1, <2>2, <2>5, <3>1
    <2>6. CASE ~At(g, s) /\ g # h
      <3>1. \/ Moves(g) /\ \A j \in Handlers : ~At(j, s)
            \/ Moves(g) /\ req[s] = "none"
        BY <1>3, <1>6, <2>3, <2>6
      <3>2. slugOf'[h] = s
        BY DEF s
      <3> QED BY <2>1, <2>2, <2>6, <3>1, <3>2
    <2> QED BY <2>4, <2>5, <2>6
  <1> QED BY <1>5, <1>6

(* A user who is between the check and the write of a request for access   *)
(* does not become a member unnoticed.                                     *)
LEMMA AskersApart ==
  ASSUME TypeOK, HandlerInv, RequestInv, [Next]_vars, "lateask" \notin mishaps',
         \A h \in Handlers : pc[h] = "ask" => member[tenantOf[h]][who[h]] = "none",
         NEW h \in Handlers, pc'[h] = "ask"
  PROVE  member'[tenantOf'[h]][who'[h]] = "none"
  <1> USE DEF TypeOK
  <1>1. CASE Same(h)
    <2>1. pc[h] = "ask" /\ tenantOf[h] \in Tenants /\ who[h] \in Users
      BY <1>1 DEF Same, HandlerInv, PCs
    <2>2. AskedFor(tenantOf[h], who[h])
      BY <2>1 DEF AskedFor
    <2>3. member[tenantOf[h]][who[h]] = "none"
      BY <2>1
    <2>4. member'[tenantOf[h]][who[h]] = "none"
      BY <2>1, <2>2, <2>3, MemberMoves
    <2> QED BY <1>1, <2>4 DEF Same
  <1>2. CASE ~Same(h)
    <2>1. Moves(h)
      BY <1>2, Kinds, OthersSame, ElsewhereSame DEF Same, Restart, vars, local
    <2>2. ~(Throws(h) \/ End(h))
      BY DEF Throws, End
    <2>3. ~Statement(h)
      <3>1. CASE Create(h) \/ CreateTenant(h) \/ Provision(h) \/ Activate(h)
        BY <2>2, <3>1 DEF Create, CreateTenant, Provision, Activate, Goto
      <3>2. CASE FindContact(h) \/ WriteContact(h) \/ Own(h) \/ Invite(h)
        BY <2>2, <3>2 DEF FindContact, WriteContact, Own, Invite, SidesOrFulfil, Goto
      <3>3. CASE ReadRole(h) \/ LetIn(h) \/ Fulfil(h)
        BY <2>2, <3>3 DEF ReadRole, LetIn, Fulfil, SidesOrFulfil, Goto
      <3>4. CASE Reject(h) \/ Finish(h) \/ WriteAsk(h)
        BY <2>2, <3>4 DEF Reject, Finish, WriteAsk
      <3> QED BY <3>1, <3>2, <3>3, <3>4 DEF Statement
    <2>4. CASE \E s \in Slugs : Submit(h, s) \/ Review(h, s)
      BY <2>4 DEF Submit, Review, Start, Goto
    <2>5. CASE \/ \E t \in Tenants : AdminProvision(h, t)
               \/ \E t \in Tenants, u \in Users : AddMember(h, t, u)
      BY <2>5 DEF AdminProvision, AddMember, Goto
    <2>6. CASE \E t \in Tenants, u \in Users : AskAccess(h, t, u)
      BY <2>6 DEF AskAccess, Start, people
    <2> QED BY <2>1, <2>2, <2>3, <2>4, <2>5, <2>6 DEF Moves, Fail
  <1> QED BY <1>1, <1>2

(* Those an approval, or an added membership, has to come to.              *)
LEMMA JoinedStay ==
  ASSUME TypeOK, HandlerInv, RequestInv, [Next]_vars, NEW h \in Handlers,
         slugOf'[h] = slugOf[h], pc[h] # "create"
  PROVE  /\ slugOf[h] # NoSlug => /\ Contact(h)' = Contact(h) /\ Invitees(h)' = Invitees(h)
                                  /\ Contact(h) \in Users /\ Invitees(h) \subseteq Users
         /\ slugOf[h] # NoSlug \/ who'[h] = who[h] => Joined(h)' = Joined(h)
  <1>1. CASE slugOf[h] = NoSlug
    BY <1>1 DEF Joined
  <1>2. CASE slugOf[h] # NoSlug
    <2>1. slugOf[h] \in Slugs /\ req[slugOf[h]] # "none"
      BY <1>2 DEF RequestInv, TypeOK
    <2>2. form'[slugOf[h]] = form[slugOf[h]] /\ form[slugOf[h]].contact \in Users
      BY <2>1, FormsStay DEF RequestInv
    <2>3. form[slugOf[h]].invitees \subseteq Users
      BY <2>1 DEF TypeOK, Form
    <2> QED BY <1>2, <2>2, <2>3 DEF Contact, Invitees, Joined
  <1> QED BY <1>1, <1>2

LEMMA OwedStays ==
  ASSUME TypeOK, HandlerInv, RequestInv, [Next]_vars, NEW h \in Handlers, Same(h),
         NEW t \in Tenants, NEW u \in Users, Owes(h, t, u)
  PROVE  Owes(h, t, u)'
  <1>1. slugOf'[h] = slugOf[h] /\ who'[h] = who[h] /\ pc[h] # "create"
    BY DEF Same, Owes
  <1>2. pc[h] = "invite" => slugOf[h] # NoSlug
    BY NoneApart DEF HandlerInv
  <1> QED BY <1>1, <1>2, JoinedStay DEF Same, Owes

(* A handler that owes someone moves on to him, or answers, or fails.      *)
LEMMA OwedMoves ==
  ASSUME TypeOK, HandlerInv, RequestInv, RoleInv, RowInv, [Next]_vars, "error" \notin mishaps',
         NEW h \in Handlers, Moves(h),
         NEW t \in Tenants, NEW u \in Users, Owes(h, t, u),
         member'[t][u] # "none", access'[t][u] = "PENDING"
  PROVE  Owes(h, t, u)'
  <1> USE DEF TypeOK
  <1>1. tenantOf[h] = t /\ pc[h] \in {"invite", "sides", "side", "fulfil"} /\ WorksOn(h)
    BY DEF Owes, RoleInv
  <1>2. CASE pc[h] = "invite"
    <2>1. Invite(h)
      BY <1>2 DEF Moves, Statement, Fail, Note, Submit, Review, AdminProvision, AddMember, AskAccess,
                  Start, Busy, Create, Reject, CreateTenant, Provision, Activate, FindContact,
                  WriteContact, Own, ReadRole, LetIn, Fulfil, Finish, WriteAsk
    <2>2. ~Throws(h)
      <3>1. CASE Throws(h)
        <4>1. Live(t)
          BY <3>1 DEF Throws, people, RowInv
        <4>2. pc'[h] = "idle"
          BY <3>1 DEF Throws, End
        <4> QED BY <1>1, <2>1, <4>1, <4>2 DEF Invite, SidesOrFulfil, Goto
      <3> QED BY <3>1
    <2>3. SidesOrFulfil(h, Invitees(h)) /\ slugOf'[h] = slugOf[h] /\ tenantOf'[h] = t
      BY <1>1, <2>1, <2>2 DEF Invite
    <2>4. slugOf[h] # NoSlug
      BY <1>2, NoneApart DEF HandlerInv
    <2>5. Joined(h)' = Joined(h) /\ u \in Joined(h)
      BY <1>2, <2>3, <2>4, JoinedStay DEF Owes, Joined
    <2> QED BY <2>3, <2>5 DEF SidesOrFulfil, Goto, Owes
  <1>3. CASE pc[h] \in {"sides", "side"}
    <2>1. ReadRole(h) \/ LetIn(h)
      BY <1>3 DEF Moves, Statement, Fail, Note, Submit, Review, AdminProvision, AddMember, AskAccess,
                  Start, Busy, Create, Reject, CreateTenant, Provision, Activate, FindContact,
                  WriteContact, Own, Invite, Fulfil, Finish, WriteAsk
    <2>2. u \in Joined(h)
      BY <1>3 DEF Owes
    <2>3. slugOf'[h] = slugOf[h] /\ tenantOf'[h] = t
      BY <1>1, <2>1 DEF ReadRole, LetIn
    <2>4. CASE LetIn(h)
      BY <1>3, <2>2, <2>3, <2>4, JoinedStay DEF LetIn, SidesOrFulfil, Goto, Owes
    <2>5. CASE ReadRole(h)
      <3>1. PICK v \in todo[h] :
              IF role[v] = "PENDING"
              THEN /\ Goto(h, "side")
                   /\ todo' = [todo EXCEPT ![h] = @ \ {v}]
                   /\ who' = [who EXCEPT ![h] = v]
              ELSE SidesOrFulfil(h, todo[h] \ {v}) /\ UNCHANGED who
        BY <2>5 DEF ReadRole
      <3>2. CASE role[v] = "PENDING"
        <4>1. pc'[h] = "side" /\ who'[h] = v
          BY <3>1, <3>2 DEF Goto
        <4>2. slugOf[h] = NoSlug => v = who[h]
          BY <1>1, <2>5 DEF WorksOn, ReadRole
        <4>3. Joined(h)' = Joined(h)
          BY <1>3, <2>3, <4>1, <4>2, JoinedStay
        <4> QED BY <2>2, <2>3, <4>1, <4>3 DEF Owes
      <3>3. CASE role[v] # "PENDING"
        <4>1. Joined(h)' = Joined(h)
          BY <1>3, <2>3, <3>1, <3>3, JoinedStay
        <4> QED BY <2>2, <2>3, <3>1, <3>3, <4>1 DEF SidesOrFulfil, Goto, Owes
      <3> QED BY <3>2, <3>3
    <2> QED BY <2>1, <2>4, <2>5
  <1>4. CASE pc[h] = "fulfil"
    <2>1. Fulfil(h)
      BY <1>4 DEF Moves, Statement, Fail, Note, Submit, Review, AdminProvision, AddMember, AskAccess,
                  Start, Busy, Create, Reject, CreateTenant, Provision, Activate, FindContact,
                  WriteContact, Own, Invite, ReadRole, LetIn, Finish, WriteAsk
    <2>2. PICK v \in todo[h] :
            /\ access' = FulfilledAccess(h, v)
            /\ IF todo[h] # {v}
               THEN /\ todo' = [todo EXCEPT ![h] = @ \ {v}]
                    /\ UNCHANGED <<pc, slugOf, tenantOf, seen, who>>
               ELSE IF slugOf[h] = NoSlug THEN End(h)
               ELSE /\ Goto(h, "finish")
                    /\ todo' = [todo EXCEPT ![h] = {}]
                    /\ UNCHANGED <<slugOf, tenantOf, seen, who>>
      BY <2>1 DEF Fulfil
    <2>3. u \in todo[h]
      BY <1>4 DEF Owes
    <2>4. v # u
      <3> DEFINE o == IF access[t][v] = "PENDING" THEN "FULFILLED" ELSE access[t][v]
      <3>1. access' = [access EXCEPT ![t] = [@ EXCEPT ![v] = o]]
        BY <1>1, <2>2 DEF FulfilledAccess
      <3>2. o # "PENDING"
        OBVIOUS
      <3> HIDE DEF o
      <3> QED BY <3>1, <3>2
    <2>5. todo'[h] = todo[h] \ {v} /\ pc'[h] = "fulfil" /\ tenantOf'[h] = t
      BY <1>1, <1>4, <2>2, <2>3, <2>4
    <2> QED BY <2>3, <2>4, <2>5 DEF Owes
  <1> QED BY <1>1, <1>2, <1>3, <1>4

(* How a handler comes to work on a request, and to a tenant of its own.   *)
LEMMA SlugMoves ==
  ASSUME TypeOK, HandlerInv, [Next]_vars, NEW h \in Handlers, slugOf'[h] # NoSlug
  PROVE  slugOf'[h] = slugOf[h] \/ \E s \in Slugs : slugOf'[h] = s /\ (Submit(h, s) \/ Review(h, s))
  <1> USE DEF TypeOK
  <1> SUFFICES ASSUME slugOf'[h] # slugOf[h]
               PROVE  \E s \in Slugs : slugOf'[h] = s /\ (Submit(h, s) \/ Review(h, s))
    OBVIOUS
  <1>1. Moves(h)
    BY Kinds, OthersSame, ElsewhereSame DEF Same, Restart, vars, local
  <1>2. ~(Throws(h) \/ End(h))
    BY DEF Throws, End
  <1>3. ~Statement(h)
    <2>1. CASE Create(h) \/ CreateTenant(h) \/ Provision(h) \/ Activate(h) \/ FindContact(h)
      BY <1>2, <2>1 DEF Create, CreateTenant, Provision, Activate, FindContact
    <2>2. CASE WriteContact(h) \/ Own(h) \/ Invite(h) \/ ReadRole(h) \/ LetIn(h) \/ Fulfil(h)
      BY <1>2, <2>2 DEF WriteContact, Own, Invite, ReadRole, LetIn, Fulfil
    <2>3. CASE Reject(h) \/ Finish(h) \/ WriteAsk(h)
      BY <1>2, <2>3 DEF Reject, Finish, WriteAsk
    <2> QED BY <2>1, <2>2, <2>3 DEF Statement
  <1>4. CASE \/ \E t \in Tenants : AdminProvision(h, t)
             \/ \E t \in Tenants, u \in Users : AddMember(h, t, u) \/ AskAccess(h, t, u)
    BY <1>4 DEF AdminProvision, AddMember, AskAccess, Start
  <1>5. ASSUME NEW s \in Slugs, Submit(h, s) \/ Review(h, s) PROVE slugOf'[h] = s
    BY <1>5 DEF Submit, Review, Start
  <1> QED BY <1>1, <1>2, <1>3, <1>4, <1>5 DEF Moves, Fail

LEMMA MadeComes ==
  ASSUME TypeOK, HandlerInv, [Next]_vars, NEW h \in Handlers, Made(h)'
  PROVE  \/ CreateTenant(h) /\ ~Throws(h)
         \/ Made(h) /\ slugOf'[h] = slugOf[h] /\ tenantOf'[h] = tenantOf[h]
  <1> USE DEF TypeOK, Made
  <1>1. slugOf'[h] = slugOf[h] /\ slugOf[h] # NoSlug
    BY SlugMoves DEF Submit, Review, Start
  <1>2. CASE tenantOf'[h] # tenantOf[h]
    <2>1. Moves(h)
      BY <1>2, Kinds, OthersSame, ElsewhereSame DEF Same, Restart, vars, local
    <2>2. ~(Throws(h) \/ End(h))
      BY DEF Throws, End
    <2>3. pc[h] # "idle"
      BY <1>1 DEF HandlerInv
    <2>4. Statement(h)
      BY <2>1, <2>2, <2>3 DEF Moves, Fail, Submit, Review, AdminProvision, AddMember, AskAccess, Start, Busy
    <2>5. CASE Create(h) \/ Provision(h) \/ Activate(h) \/ FindContact(h)
      BY <1>2, <2>2, <2>5 DEF Create, Provision, Activate, FindContact
    <2>6. CASE WriteContact(h) \/ Own(h) \/ Invite(h) \/ ReadRole(h) \/ LetIn(h) \/ Fulfil(h)
      BY <1>2, <2>2, <2>6 DEF WriteContact, Own, Invite, ReadRole, LetIn, Fulfil
    <2>7. CASE Reject(h) \/ Finish(h) \/ WriteAsk(h)
      BY <2>2, <2>7 DEF Reject, Finish, WriteAsk
    <2> QED BY <2>2, <2>4, <2>5, <2>6, <2>7 DEF Statement
  <1> QED BY <1>1, <1>2

(* A tenant under an approval is not touched unnoticed.                    *)
LEMMA MadeKept ==
  ASSUME TypeOK, HandlerInv, RequestInv, MadeInv, [Next]_vars, "admin" \notin mishaps',
         NEW g \in Handlers, Made(g), Same(g)
  PROVE  MadeSound(g)'
  <1> USE DEF TypeOK
  <1> DEFINE t == tenantOf[g]
  <1>1. /\ t \in Tenants /\ slugOf[g] \in Slugs /\ Busy(g) /\ g \in Approving(t)
        /\ tenantOf'[g] = t /\ slugOf'[g] = slugOf[g] /\ pc'[g] = pc[g]
    BY DEF Made, HandlerInv, Busy, Approving, Same
  <1>2. /\ "admin" \notin mishaps /\ MadeSound(g)
        /\ \A k \in Handlers : pc[k] \in {"provision", "activate"} /\ tenantOf[k] = t => k = g
    BY MishapsGrow DEF MadeInv
  <1>3. ~PatchTenant(t) /\ ~DeleteTenant(t) /\ \A u \in Users : ~RemoveMember(t, u)
    BY <1>1 DEF PatchTenant, DeleteTenant, RemoveMember, Meddles, Note
  <1>4. ~\E h \in Handlers : Activate(h) /\ tenantOf[h] = t
    <2> SUFFICES ASSUME NEW h \in Handlers, Activate(h), tenantOf[h] = t PROVE FALSE
      OBVIOUS
    <2>1. h = g /\ pc[g] = "activate"
      BY <1>2 DEF Activate
    <2>2. pc'[g] # "activate"
      BY <2>1 DEF Activate, Goto, Throws, End
    <2> QED BY <1>1, <2>1, <2>2
  <1>5. tstatus'[t] = tstatus[t] /\ tslug'[t] = tslug[t]
    <2>1. Live(t)
      BY <1>2 DEF MadeSound
    <2> HIDE DEF t
    <2> QED BY <1>1, <1>3, <1>4, <2>1, TenantMoves DEF Live
  <1>6. \A u \in Users : /\ member[t][u] # "none" => member'[t][u] # "none"
                         /\ member[t][u] = "OWNER" => member'[t][u] = "OWNER"
    <2> HIDE DEF t
    <2> QED BY <1>1, <1>3, MemberMoves
  <1>7. slugOf[g] # NoSlug /\ (pc[g] \in Owned => pc[g] # "create")
    BY DEF Made, Owned, Signed
  <1>8. pc[g] \in Owned => /\ Contact(g)' = Contact(g) /\ Invitees(g)' = Invitees(g)
                           /\ Contact(g) \in Users /\ Invitees(g) \subseteq Users
    BY <1>1, <1>7, JoinedStay
  <1> QED BY <1>1, <1>2, <1>5, <1>6, <1>8 DEF MadeSound, Live, Invited, Owned, Signed

(* Each statement leaves the tenant as the next one expects it. *)
LEMMA MadeGoes ==
  ASSUME TypeOK, TypeOK', HandlerInv, RequestInv, RoleInv, MadeInv, [Next]_vars, "admin" \notin mishaps',
         NEW g \in Handlers, Moves(g), Made(g)'
  PROVE  MadeSound(g)'
  <1> USE DEF TypeOK
  <1>1. CASE CreateTenant(g) /\ ~Throws(g)
    <2>1. PICK t \in Tenants : /\ tstatus' = [tstatus EXCEPT ![t] = "PROVISIONING"]
                               /\ tslug' = [tslug EXCEPT ![t] = slugOf[g]]
                               /\ tenantOf' = [tenantOf EXCEPT ![g] = t]
      BY <1>1 DEF CreateTenant
    <2>2. Goto(g, "provision") /\ slugOf' = slugOf
      BY <1>1 DEF CreateTenant
    <2>3. /\ pc'[g] = "provision" /\ tenantOf'[g] = t /\ tstatus'[t] = "PROVISIONING"
          /\ tslug'[t] = slugOf[g] /\ slugOf'[g] = slugOf[g]
      BY <2>1, <2>2 DEF Goto
    <2> QED BY <2>3 DEF MadeSound, Live, Owned, Invited, Signed
  <1>2. CASE ~(CreateTenant(g) /\ ~Throws(g))
    <2> DEFINE t == tenantOf[g]
    <2>1. Made(g) /\ slugOf'[g] = slugOf[g] /\ tenantOf'[g] = t
      BY <1>2, MadeComes
    <2>2. /\ t \in Tenants /\ slugOf[g] \in Slugs /\ pc[g] # "idle" /\ slugOf[g] # NoSlug /\ t # NoTenant
          /\ MadeSound(g) /\ WorksOn(g)
      BY <2>1, MishapsGrow DEF Made, HandlerInv, MadeInv, RoleInv
    <2>3. ~(Throws(g) \/ End(g))
      BY DEF Throws, End, Made
    <2>4. pc[g] # "create"
      BY <2>1, <2>2 DEF WorksOn, Signed
    <2>5. /\ Contact(g)' = Contact(g) /\ Invitees(g)' = Invitees(g)
          /\ Contact(g) \in Users /\ Invitees(g) \subseteq Users
      BY <2>1, <2>2, <2>4, JoinedStay
    <2>6. CASE Provision(g)
      <3>1. pc'[g] = "activate" /\ UNCHANGED tenants
        BY <2>3, <2>6 DEF Provision, Goto
      <3> QED BY <2>1, <2>2, <3>1 DEF MadeSound, Live, Owned, Invited, Signed, tenants
    <2>7. CASE Activate(g)
      <3>1. pc'[g] = "find" /\ tstatus'[t] = "ACTIVE" /\ UNCHANGED tslug
        BY <2>2, <2>3, <2>7 DEF Activate, Goto
      <3> QED BY <2>1, <2>2, <3>1 DEF MadeSound, Live, Owned, Invited, Signed
    <2>8. CASE FindContact(g) \/ WriteContact(g)
      <3>1. pc'[g] \in {"contact", "owner"} /\ UNCHANGED tenants /\ pc[g] \in {"find", "contact"}
        BY <2>3, <2>8 DEF FindContact, WriteContact, Goto
      <3> QED BY <2>1, <2>2, <3>1 DEF MadeSound, Live, Owned, Invited, Signed, tenants
    <2>9. CASE Own(g)
      <3>1. member' = [member EXCEPT ![t] = [@ EXCEPT ![Contact(g)] = "OWNER"]]
        BY <2>3, <2>9 DEF Own
      <3>2. pc'[g] = "invite" /\ UNCHANGED tenants /\ pc[g] = "owner"
        BY <2>3, <2>9 DEF Own, Goto
      <3>3. member'[t][Contact(g)] = "OWNER"
        BY <2>2, <2>5, <3>1
      <3> QED BY <2>1, <2>2, <2>5, <3>2, <3>3 DEF MadeSound, Live, Owned, Invited, Signed, tenants
    <2>10. CASE Invite(g)
      <3> DEFINE joined == [u \in Users |->
                   IF u \in {v \in Invitees(g) : member[t][v] = "none"} THEN "MEMBER" ELSE member[t][u]]
      <3>1. member' = [member EXCEPT ![t] = joined]
        BY <2>2, <2>3, <2>10 DEF Invite
      <3>2. pc'[g] \in {"sides", "fulfil"} /\ UNCHANGED tenants /\ pc[g] = "invite"
        BY <2>3, <2>10 DEF Invite, SidesOrFulfil, Goto
      <3>3. /\ \A u \in Invitees(g) : joined[u] # "none"
            /\ \A u \in Users : member[t][u] = "OWNER" => joined[u] = "OWNER"
        BY <2>5
      <3>4. member'[t] = joined
        BY <2>2, <3>1
      <3> HIDE DEF joined
      <3>5. member'[t][Contact(g)] = "OWNER"
        BY <2>2, <2>5, <3>2, <3>3, <3>4 DEF MadeSound, Owned, Signed
      <3> QED BY <2>1, <2>2, <2>5, <3>2, <3>3, <3>4, <3>5 DEF MadeSound, Live, Owned, Invited, Signed, tenants
    <2>11. CASE ReadRole(g) \/ LetIn(g) \/ Fulfil(g)
      <3>1. /\ pc'[g] \in {"sides", "side", "fulfil", "finish"} /\ UNCHANGED <<tenants, member>>
            /\ pc[g] \in {"sides", "side", "fulfil"}
        BY <2>3, <2>11 DEF ReadRole, LetIn, Fulfil, SidesOrFulfil, Goto, people
      <3> QED BY <2>1, <2>2, <2>5, <3>1 DEF MadeSound, Live, Owned, Invited, Signed, tenants
    <2>12. CASE ~Statement(g)
      BY <2>2, <2>3, <2>12 DEF Moves, Fail, Submit, Review, AdminProvision, AddMember, AskAccess, Start, Busy
    <2>13. CASE Create(g) \/ Reject(g) \/ Finish(g) \/ WriteAsk(g)
      BY <2>3, <2>4, <2>13 DEF Create, Reject, Finish, WriteAsk
    <2> QED BY <1>2, <2>3, <2>6, <2>7, <2>8, <2>9, <2>10, <2>11, <2>12, <2>13 DEF Statement, CreateTenant
  <1> QED BY <1>1, <1>2

(* Who comes to provision or activate a tenant.                            *)
LEMMA ProvisionersCome ==
  ASSUME TypeOK, HandlerInv, [Next]_vars, NEW g \in Handlers,
         pc'[g] \in {"provision", "activate"}
  PROVE  \/ CreateTenant(g) /\ ~Throws(g)
         \/ \E t \in Tenants : AdminProvision(g, t)
         \/ pc[g] \in {"provision", "activate"} /\ tenantOf'[g] = tenantOf[g]
  <1> USE DEF TypeOK, Goto
  <1>1. CASE Same(g)
    BY <1>1 DEF Same
  <1>2. CASE ~Same(g)
    <2>1. Moves(g)
      BY <1>2, Kinds, OthersSame, ElsewhereSame DEF Same, Restart, vars, local
    <2>2. ~(Throws(g) \/ End(g))
      BY DEF Throws, End
    <2>3. CASE Statement(g) /\ ~CreateTenant(g)
      <3>1. CASE Create(g) \/ Activate(g) \/ FindContact(g) \/ WriteContact(g) \/ Own(g) \/ Invite(g)
        BY <2>2, <3>1 DEF Create, Activate, FindContact, WriteContact, Own, Invite, SidesOrFulfil
      <3>2. CASE ReadRole(g) \/ LetIn(g) \/ Fulfil(g)
        BY <2>2, <3>2 DEF ReadRole, LetIn, Fulfil, SidesOrFulfil
      <3>3. CASE Reject(g) \/ Finish(g) \/ WriteAsk(g)
        BY <2>2, <3>3 DEF Reject, Finish, WriteAsk
      <3>4. CASE Provision(g)
        BY <2>2, <3>4 DEF Provision
      <3> QED BY <2>3, <3>1, <3>2, <3>3, <3>4 DEF Statement
    <2>4. CASE \/ \E s \in Slugs : Submit(g, s) \/ Review(g, s)
               \/ \E t \in Tenants, u \in Users : AddMember(g, t, u) \/ AskAccess(g, t, u)
      BY <2>4 DEF Submit, Review, AddMember, AskAccess, Start
    <2> QED BY <2>1, <2>2, <2>3, <2>4 DEF Moves, Fail
  <1> QED BY <1>1, <1>2

LEMMA NextMade ==
  ASSUME TypeOK, TypeOK', HandlerInv, RequestInv, LinkInv, RoleInv, RowInv, MadeInv, [Next]_vars
  PROVE  MadeInv'
  <1> USE DEF TypeOK
  <1> SUFFICES ASSUME "admin" \notin mishaps', NEW h \in Handlers
               PROVE  /\ Made(h)' => /\ MadeSound(h)'
                                     /\ \A g \in Handlers : pc'[g] \in {"provision", "activate"}
                                                            /\ tenantOf'[g] = tenantOf'[h] => g = h
                      /\ slugOf'[h] # NoSlug /\ reqTenant'[slugOf'[h]] # NoTenant
                            => tslug'[reqTenant'[slugOf'[h]]] = slugOf'[h]
    BY DEF MadeInv
  <1>0. "admin" \notin mishaps
    BY MishapsGrow
  <1>1. ASSUME Made(h)' PROVE MadeSound(h)'
    <2>1. CASE Moves(h)
      BY <1>1, <2>1, MadeGoes
    <2>2. CASE ~Moves(h)
      <3>1. Made(h)
        BY <1>1, <2>2, MadeComes DEF Moves, Statement
      <3>2. ~Restart
        BY <1>1 DEF Made, Restart
      <3>3. Same(h)
        BY <2>2, <3>2, Kinds, OthersSame, ElsewhereSame DEF Same, vars, local
      <3> QED BY <3>1, <3>3, MadeKept
    <2> QED BY <2>1, <2>2
  <1>2. ASSUME Made(h)', NEW g \in Handlers, g # h,
               pc'[g] \in {"provision", "activate"}, tenantOf'[g] = tenantOf'[h]
        PROVE  FALSE
    <2>1. ASSUME NEW k \in Handlers, CreateTenant(k), ~Throws(k)
          PROVE  Moves(k) /\ tenantOf'[k] \in Tenants /\ tstatus[tenantOf'[k]] = "none"
      BY <2>1 DEF Moves, Statement, CreateTenant
    <2>2. \A k \in Handlers : tenantOf[k] # NoTenant => tstatus[tenantOf[k]] # "none"
      BY DEF RowInv
    <2>3. tenantOf'[h] # NoTenant /\ NoTenant \notin Tenants
      BY <1>2, NoneApart DEF Made
    <2>4. CASE CreateTenant(h) /\ ~Throws(h)
      <3>1. Same(g)
        BY <1>2, <2>1, <2>4, OthersSame
      <3> QED BY <1>2, <2>1, <2>2, <2>3, <2>4, <3>1 DEF Same
    <2>5. CASE Made(h) /\ slugOf'[h] = slugOf[h] /\ tenantOf'[h] = tenantOf[h]
      <3>1. CASE CreateTenant(g) /\ ~Throws(g)
        BY <1>2, <2>1, <2>2, <2>3, <2>5, <3>1
      <3>2. CASE \E t \in Tenants : AdminProvision(g, t)
        <4>1. PICK t \in Tenants : AdminProvision(g, t)
          BY <3>2
        <4>2. tenantOf'[g] = t /\ (Approving(t) # {} => "admin" \in mishaps')
          BY <4>1 DEF AdminProvision
        <4>3. h \in Approving(t)
          BY <1>2, <2>5, <4>2 DEF Approving, Made, Busy, HandlerInv
        <4> QED BY <4>2, <4>3
      <3>3. CASE pc[g] \in {"provision", "activate"} /\ tenantOf'[g] = tenantOf[g]
        BY <1>0, <1>2, <2>5, <3>3 DEF MadeInv
      <3> QED BY <1>2, <3>1, <3>2, <3>3, ProvisionersCome
    <2> QED BY <1>2, <2>4, <2>5, MadeComes
  <1>3. ASSUME slugOf'[h] # NoSlug, reqTenant'[slugOf'[h]] # NoTenant
        PROVE  tslug'[reqTenant'[slugOf'[h]]] = slugOf'[h]
    <2> DEFINE s == slugOf'[h]
    <2>1. s \in Slugs
      BY <1>3
    <2>2. ASSUME NEW k \in Handlers, Finish(k), slugOf[k] = s, reqTenant'[s] = tenantOf[k]
          PROVE  tslug'[reqTenant'[s]] = s
      <3>1. Made(k)
        BY <2>1, <2>2, NoneApart DEF Made, Finish, HandlerInv
      <3> QED BY <1>0, <2>2, <3>1 DEF MadeInv, MadeSound, Finish, Throws, tenants
    <2>3. ASSUME reqTenant'[s] = reqTenant[s] PROVE tslug'[reqTenant'[s]] = s
      <3> DEFINE r == reqTenant[s]
      <3>1. r \in Tenants /\ Live(r) /\ req[s] \in Decided
        BY <1>3, <2>1, <2>3 DEF LinkInv, RowInv
      <3>2. slugOf[h] = s
        <4>1. ASSUME NEW q \in Slugs, q = s PROVE ~Submit(h, q) /\ ~Review(h, q)
          BY <3>1, <4>1 DEF Submit, Review, Decided
        <4> QED BY <1>3, <4>1, SlugMoves
      <3>3. tslug[r] = s
        BY <1>0, <1>3, <2>3, <3>2 DEF MadeInv
      <3>4. h \in Handling(s)
        BY <1>3, <3>2 DEF Handling, Busy, HandlerInv
      <3>5. PatchTenant(r) => tslug'[r] = tslug[r]
        BY <3>3, <3>4 DEF PatchTenant, Meddles, Note
      <3> HIDE DEF r, s
      <3>6. tslug'[r] = tslug[r]
        BY <3>1, <3>5, TenantMoves DEF Live
      <3> QED BY <2>3, <3>3, <3>6 DEF r
    <2> HIDE DEF s
    <2>4. tslug'[reqTenant'[s]] = s
      BY <2>1, <2>2, <2>3, RequestMoves
    <2> QED BY <2>4 DEF s
  <1> QED BY <1>1, <1>2, <1>3

(* An approval that made its tenant ends only with its request approved.   *)
LEMMA MadeEnds ==
  ASSUME TypeOK, HandlerInv, RequestInv, RoleInv, MadeInv, [Next]_vars,
         mishaps' \cap {"error", "signup", "admin"} = {},
         NEW h \in Handlers, Moves(h), Made(h)
  PROVE  \/ Made(h)' /\ slugOf'[h] = slugOf[h]
         \/ Finish(h) /\ req'[slugOf[h]] = "APPROVED"
  <1> USE DEF TypeOK
  <1>0. /\ "admin" \notin mishaps /\ "signup" \notin mishaps /\ "error" \notin mishaps'
        /\ MadeSound(h) /\ WorksOn(h) /\ RolesGiven(h)
        /\ slugOf[h] # NoSlug /\ slugOf[h] \in Slugs /\ tenantOf[h] # NoTenant /\ pc[h] # "idle"
    BY MishapsGrow DEF MadeInv, RoleInv, Made, HandlerInv
  <1>1. Live(tenantOf[h])
    BY <1>0 DEF MadeSound
  <1>2. CASE Throws(h)
    <2>1. pc[h] # "create" /\ pc[h] # "tenant" /\ pc[h] # "ask" /\ pc[h] # "reject"
      BY <1>0 DEF WorksOn, Signed, Made
    <2>2. ~Provision(h) /\ ~Activate(h) /\ ~Own(h) /\ ~Invite(h)
      BY <1>0, <1>1, <1>2 DEF MadeSound, Provision, Activate, Own, Invite, Throws, End, Goto, SidesOrFulfil
    <2>3. ~WriteContact(h)
      BY <1>0, <1>2 DEF RolesGiven, WriteContact, Throws, End, Goto
    <2>4. ~FindContact(h) /\ ~ReadRole(h) /\ ~LetIn(h) /\ ~Fail(h)
      BY <1>0, <1>2 DEF FindContact, ReadRole, LetIn, SidesOrFulfil, Goto, Throws, End, Fail, Note
    <2>5. ~Fulfil(h)
      BY <1>0, <1>2 DEF Fulfil, Goto, Throws, End
    <2>6. Finish(h) => req'[slugOf[h]] = "APPROVED"
      BY <1>0, <1>1 DEF Finish
    <2>7. Statement(h)
      BY <1>0, <2>4 DEF Moves, Submit, Review, AdminProvision, AddMember, AskAccess, Start, Busy
    <2> QED BY <2>1, <2>2, <2>3, <2>4, <2>5, <2>6, <2>7
            DEF Statement, Create, CreateTenant, Reject, WriteAsk
  <1>3. CASE ~Throws(h)
    <2>1. pc[h] # "create" /\ pc[h] # "tenant" /\ pc[h] # "ask" /\ pc[h] # "reject"
      BY <1>0 DEF WorksOn, Signed, Made
    <2>2. ~Fail(h)
      BY <1>0 DEF Fail, Note
    <2>3. Statement(h)
      BY <1>0, <2>2 DEF Moves, Submit, Review, AdminProvision, AddMember, AskAccess, Start, Busy
    <2>4. CASE Provision(h) \/ Activate(h) \/ FindContact(h) \/ WriteContact(h)
      BY <1>0, <1>3, <2>4 DEF Provision, Activate, FindContact, WriteContact, Made
    <2>5. CASE Own(h) \/ Invite(h) \/ ReadRole(h) \/ LetIn(h) \/ Fulfil(h)
      BY <1>0, <1>3, <2>5 DEF Own, Invite, ReadRole, LetIn, Fulfil, Made
    <2>6. CASE Finish(h)
      BY <1>0, <1>3, <2>6 DEF Finish
    <2> QED BY <2>1, <2>3, <2>4, <2>5, <2>6 DEF Statement, Create, CreateTenant, Reject, WriteAsk
  <1> QED BY <1>2, <1>3

LEMMA NextFree ==
  ASSUME TypeOK, TypeOK', HandlerInv, RequestInv, RoleInv, RowInv, MadeInv, FreeInv, [Next]_vars
  PROVE  FreeInv'
  <1> USE DEF TypeOK
  <1> SUFFICES ASSUME mishaps' \cap {"error", "signup", "admin"} = {}, NEW s \in Slugs,
                      req'[s] = "PENDING" \/ (req'[s] = "none" /\ Handling(s)' # {}),
                      SlugTaken(s)'
               PROVE  \E h \in Handlers : Made(h)' /\ slugOf'[h] = s
    BY DEF FreeInv
  <1>0. mishaps \cap {"error", "signup", "admin"} = {}
    BY MishapsGrow
  <1> DEFINE Waits == req[s] = "PENDING" \/ (req[s] = "none" /\ Handling(s) # {})
  <1>1. Waits \/ \E h \in Handlers : Submit(h, s)
    <2>1. CASE req'[s] # req[s]
      <3>1. \E h \in Handlers : Create(h) /\ slugOf[h] = s /\ req[s] = "none"
        BY <2>1, RequestMoves
      <3> QED BY <3>1 DEF Create, Handling, Busy
    <2>2. CASE req'[s] = req[s] /\ req[s] = "none"
      <3>1. PICK h \in Handlers : slugOf'[h] = s
        BY <2>2 DEF Handling
      <3>2. CASE slugOf[h] = s
        BY <2>2, <3>2, NoneApart DEF Handling, Busy, HandlerInv
      <3>3. CASE slugOf[h] # s
        <4>1. \E q \in Slugs : q = s /\ (Submit(h, q) \/ Review(h, q))
          BY <3>1, <3>3, NoneApart, SlugMoves
        <4> QED BY <2>2, <4>1 DEF Review
      <3> QED BY <3>2, <3>3
    <2> QED BY <2>1, <2>2
  <1>2. PICK t \in Tenants : Live(t)' /\ tslug'[t] = s
    BY DEF SlugTaken
  <1>3. CASE Live(t) /\ tslug[t] = s
    <2>1. SlugTaken(s)
      BY <1>3 DEF SlugTaken
    <2>2. Waits
      BY <1>1, <2>1 DEF Submit
    <2>3. PICK h \in Handlers : Made(h) /\ slugOf[h] = s
      BY <1>0, <2>1, <2>2 DEF FreeInv
    <2>4. CASE Moves(h)
      <3>1. ~(req'[s] = "APPROVED")
        OBVIOUS
      <3> QED BY <2>3, <2>4, <3>1, MadeEnds
    <2>5. CASE ~Moves(h)
      <3>1. Busy(h)
        BY <2>3 DEF Made, Busy, HandlerInv
      <3>2. ~Restart
        BY <3>1 DEF Restart, Note
      <3>3. Same(h)
        BY <2>5, <3>2, Kinds, OthersSame, ElsewhereSame DEF Same, vars, local
      <3> QED BY <2>3, <3>3 DEF Same, Made
    <2> QED BY <2>4, <2>5
  <1>4. CASE ~(Live(t) /\ tslug[t] = s)
    <2>1. ASSUME NEW h \in Handlers, CreateTenant(h), tenantOf'[h] = t, slugOf[h] = s, slugOf'[h] = slugOf[h]
          PROVE  Made(h)' /\ slugOf'[h] = s
      BY <2>1, NoneApart DEF Made
    <2>2. ASSUME AdminCreateTenant(s) \/ (PatchTenant(t) /\ tslug'[t] # tslug[t]) PROVE FALSE
      <3>1. UNCHANGED <<req, local>> /\ \A h \in Handlers : ~Submit(h, s)
        <4>1. UNCHANGED <<req, local>>
          BY <2>2 DEF AdminCreateTenant, PatchTenant, requests
        <4>2. \A h \in Handlers : ~Submit(h, s)
          BY <4>1 DEF Submit, Start, Goto, local, Busy
        <4> QED BY <4>1, <4>2
      <3>2. Waits
        BY <1>1, <3>1
      <3>3. \E r \in {s} : req[r] = "PENDING" \/ Handling(r) # {}
        BY <3>2
      <3>4. CASE AdminCreateTenant(s)
        BY <3>3, <3>4 DEF AdminCreateTenant, Meddles, Note
      <3>5. CASE PatchTenant(t) /\ tslug'[t] # tslug[t]
        <4>1. PICK q \in Slugs : tslug' = [tslug EXCEPT ![t] = q] /\ Meddles({t}, {q, tslug[t]})
          BY <3>5 DEF PatchTenant
        <4>2. q = s
          BY <1>2, <4>1
        <4> QED BY <3>2, <4>1, <4>2 DEF Meddles, Note
      <3> QED BY <2>2, <3>4, <3>5
    <2> HIDE DEF Waits
    <2>3. \/ Live(t) /\ tslug'[t] = tslug[t]
          \/ tslug'[t] = tslug[t] /\ tstatus'[t] = tstatus[t]
          \/ \E h \in Handlers : CreateTenant(h) /\ tenantOf'[h] = t /\ slugOf[h] = s /\ slugOf'[h] = slugOf[h]
          \/ AdminCreateTenant(s)
          \/ PatchTenant(t) /\ Live(t)
      BY <1>2, TenantMoves DEF Live
    <2> QED BY <1>2, <1>4, <2>1, <2>2, <2>3 DEF Live
  <1> QED BY <1>3, <1>4

(* Where a membership and an access request that waits meet, a handler     *)
(* comes to them.                                                          *)
LEMMA NextOwes ==
  ASSUME TypeOK, HandlerInv, RequestInv, RoleInv, RowInv, AccessInv, [Next]_vars,
         "lateask" \notin mishaps', "error" \notin mishaps',
         NEW t \in Tenants, NEW u \in Users, member'[t][u] # "none", access'[t][u] = "PENDING"
  PROVE  \E h \in Handlers : Owes(h, t, u)'
  <1>4. \/ access'[t][u] = access[t][u]
        \/ access'[t][u] # "PENDING"
        \/ \E h \in Handlers : WriteAsk(h) /\ tenantOf[h] = t /\ who[h] = u
    BY AccessMoves
  <1> USE DEF TypeOK
  <1>0. "lateask" \notin mishaps /\ "error" \notin mishaps
    BY MishapsGrow
  <1>1. CASE member[t][u] # "none" /\ access[t][u] = "PENDING"
    <2>1. PICK h \in Handlers : Owes(h, t, u)
      BY <1>0, <1>1 DEF AccessInv
    <2>2. CASE Moves(h)
      BY <2>1, <2>2, OwedMoves
    <2>3. CASE ~Moves(h)
      <3>1. ~Restart
        BY <2>1 DEF Restart, Note, Owes, Busy
      <3>2. Same(h)
        BY <2>3, <3>1, Kinds, OthersSame, ElsewhereSame DEF Same, vars, local
      <3> QED BY <2>1, <3>2, OwedStays
    <2> QED BY <2>2, <2>3
  <1>2. CASE member[t][u] = "none"
    <2>1. ASSUME NEW h \in Handlers, Own(h), tenantOf'[h] = t, Contact(h) = u, pc'[h] = "invite",
                 slugOf'[h] = slugOf[h], UNCHANGED form
          PROVE  Owes(h, t, u)'
      BY <2>1 DEF Owes, Contact
    <2>2. ASSUME NEW h \in Handlers, Invite(h), ~Throws(h), tenantOf[h] = t, u \in Invitees(h)
          PROVE  Owes(h, t, u)'
      <3>1. SidesOrFulfil(h, Invitees(h)) /\ slugOf'[h] = slugOf[h] /\ tenantOf'[h] = t
        BY <2>2 DEF Invite
      <3>2. pc[h] = "invite" /\ slugOf[h] # NoSlug
        BY <2>2, NoneApart DEF Invite, HandlerInv
      <3>3. Joined(h)' = Joined(h) /\ u \in Joined(h)
        BY <2>2, <3>1, <3>2, JoinedStay DEF Joined
      <3> QED BY <2>2, <3>1, <3>3 DEF SidesOrFulfil, Goto, Owes
    <2>3. ASSUME NEW h \in Handlers, AddMember(h, t, u) PROVE Owes(h, t, u)'
      BY <2>3 DEF AddMember, Busy, HandlerInv, Goto, Owes, Joined
    <2> QED BY <1>2, <2>1, <2>2, <2>3, MemberMoves
  <1>3. CASE member[t][u] # "none" /\ access[t][u] # "PENDING"
    <2>1. PICK h \in Handlers : WriteAsk(h) /\ tenantOf[h] = t /\ who[h] = u
      BY <1>3, <1>4
    <2>2. member[t][u] = "none"
      BY <1>0, <2>1 DEF AccessInv, WriteAsk
    <2> QED BY <1>3, <2>2
  <1> QED BY <1>1, <1>2, <1>3

(* What an approval has answered stays answered. *)
LEMMA NextAnswered ==
  ASSUME TypeOK, TypeOK', HandlerInv, RequestInv, RoleInv, MadeInv, AccessInv, [Next]_vars,
         "lateask" \notin mishaps', "admin" \notin mishaps', NEW h \in Handlers, Made(h)'
  PROVE  /\ pc'[h] = "fulfil" => \A u \in Joined(h)' \ todo'[h] : access'[tenantOf'[h]][u] # "PENDING"
         /\ pc'[h] = "finish" => \A u \in Joined(h)' : access'[tenantOf'[h]][u] # "PENDING"
  <1>9. \A r \in Tenants, v \in Users :
            \/ access'[r][v] = access[r][v]
            \/ access'[r][v] # "PENDING"
            \/ \E g \in Handlers : WriteAsk(g) /\ tenantOf[g] = r /\ who[g] = v
    BY AccessMoves
  <1> USE DEF TypeOK
  <1> SUFFICES ASSUME pc'[h] \in {"fulfil", "finish"}
               PROVE  /\ pc'[h] = "fulfil" => \A u \in Joined(h)' \ todo'[h] : access'[tenantOf'[h]][u] # "PENDING"
                      /\ pc'[h] = "finish" => \A u \in Joined(h)' : access'[tenantOf'[h]][u] # "PENDING"
    OBVIOUS
  <1> DEFINE t == tenantOf[h]
  <1>1. Made(h) /\ slugOf'[h] = slugOf[h] /\ tenantOf'[h] = t
    BY MadeComes DEF CreateTenant, Goto
  <1>2. t \in Tenants /\ slugOf[h] \in Slugs /\ MadeSound(h) /\ WorksOn(h) /\ slugOf[h] # NoSlug
    BY <1>1, MishapsGrow DEF Made, MadeInv, RoleInv
  <1>3. pc[h] # "create"
    BY <1>1, <1>2 DEF WorksOn, Signed
  <1>4. Joined(h)' = Joined(h) /\ Joined(h) \subseteq Users
    BY <1>1, <1>2, <1>3, JoinedStay DEF Joined
  <1>5. /\ pc[h] = "fulfil" => \A u \in Joined(h) \ todo[h] : access[t][u] # "PENDING"
        /\ pc[h] = "finish" => \A u \in Joined(h) : access[t][u] # "PENDING"
        /\ \A g \in Handlers : pc[g] = "ask" => member[tenantOf[g]][who[g]] = "none"
    BY <1>1, MishapsGrow DEF AccessInv
  <1>6. ASSUME pc[h] \in {"fulfil", "finish"}, NEW u \in Joined(h), access[t][u] # "PENDING"
        PROVE  access'[t][u] # "PENDING"
    <2>1. member[t][u] # "none"
      BY <1>2, <1>6 DEF MadeSound, Owned, Invited, Signed, Joined
    <2>2. ~\E g \in Handlers : WriteAsk(g) /\ tenantOf[g] = t /\ who[g] = u
      BY <1>5, <2>1 DEF WriteAsk
    <2>3. PICK r \in Tenants : r = t
      BY <1>2
    <2>4. u \in Users /\ access[r][u] # "PENDING"
      BY <1>4, <1>6, <2>3
    <2>5. ~\E g \in Handlers : WriteAsk(g) /\ tenantOf[g] = r /\ who[g] = u
      BY <2>2, <2>3
    <2>6. access'[r][u] # "PENDING"
      BY <1>9, <2>4, <2>5
    <2> QED BY <2>3, <2>6
  <1>7. CASE Same(h)
    BY <1>1, <1>4, <1>5, <1>6, <1>7 DEF Same
  <1>8. CASE ~Same(h)
    <2>1. Moves(h)
      BY <1>8, Kinds, OthersSame, ElsewhereSame DEF Same, Restart, vars, local
    <2>2. ~(Throws(h) \/ End(h))
      BY DEF Throws, End
    <2>3. CASE Invite(h) \/ ReadRole(h) \/ LetIn(h)
      <3>1. pc'[h] = "fulfil" /\ todo'[h] = Joined(h)
        <4>1. CASE Invite(h)
          BY <2>2, <4>1 DEF Invite, SidesOrFulfil, Goto
        <4>2. CASE ReadRole(h)
          BY <4>2 DEF ReadRole, SidesOrFulfil, Goto
        <4>3. CASE LetIn(h)
          BY <4>3 DEF LetIn, SidesOrFulfil, Goto
        <4> QED BY <2>3, <4>1, <4>2, <4>3
      <3> QED BY <1>4, <3>1
    <2>4. CASE Fulfil(h)
      <3>1. PICK v \in todo[h] :
              /\ access' = FulfilledAccess(h, v)
              /\ IF todo[h] # {v}
                 THEN /\ todo' = [todo EXCEPT ![h] = @ \ {v}]
                      /\ UNCHANGED <<pc, slugOf, tenantOf, seen, who>>
                 ELSE IF slugOf[h] = NoSlug THEN End(h)
                 ELSE /\ Goto(h, "finish")
                      /\ todo' = [todo EXCEPT ![h] = {}]
                      /\ UNCHANGED <<slugOf, tenantOf, seen, who>>
        BY <2>4 DEF Fulfil
      <3>2. access'[t][v] # "PENDING"
        <4> DEFINE o == IF access[t][v] = "PENDING" THEN "FULFILLED" ELSE access[t][v]
        <4>1. access' = [access EXCEPT ![t] = [@ EXCEPT ![v] = o]]
          BY <3>1 DEF FulfilledAccess
        <4>2. o # "PENDING"
          OBVIOUS
        <4> HIDE DEF o
        <4> QED BY <1>2, <4>1, <4>2
      <3>3. pc[h] = "fulfil"
        BY <2>4 DEF Fulfil
      <3>4. \A u \in Joined(h) : u \notin todo[h] \/ u = v => access'[t][u] # "PENDING"
        BY <1>5, <1>6, <3>2, <3>3
      <3>5. \/ pc'[h] = "fulfil" /\ todo'[h] = todo[h] \ {v}
            \/ pc'[h] = "finish" /\ todo[h] = {v}
        BY <1>2, <2>2, <3>1, <3>3 DEF Goto
      <3> QED BY <1>1, <1>4, <3>4, <3>5
    <2>5. CASE Statement(h) /\ ~(Invite(h) \/ ReadRole(h) \/ LetIn(h) \/ Fulfil(h))
      <3>1. CASE Create(h) \/ CreateTenant(h) \/ Provision(h) \/ Activate(h)
        BY <2>2, <3>1 DEF Create, CreateTenant, Provision, Activate, Goto
      <3>2. CASE FindContact(h) \/ WriteContact(h) \/ Own(h)
        BY <2>2, <3>2 DEF FindContact, WriteContact, Own, Goto
      <3>3. CASE Reject(h) \/ Finish(h) \/ WriteAsk(h)
        BY <2>2, <3>3 DEF Reject, Finish, WriteAsk
      <3> QED BY <2>5, <3>1, <3>2, <3>3 DEF Statement
    <2>6. CASE \E s \in Slugs : Submit(h, s) \/ Review(h, s)
      BY <2>6 DEF Submit, Review, Start, Goto
    <2>7. CASE \/ \E r \in Tenants : AdminProvision(h, r)
               \/ \E r \in Tenants, v \in Users : AddMember(h, r, v) \/ AskAccess(h, r, v)
      BY <2>7 DEF AdminProvision, AddMember, AskAccess, Start, Goto
    <2> QED BY <2>1, <2>2, <2>3, <2>4, <2>5, <2>6, <2>7 DEF Moves, Fail
  <1> QED BY <1>7, <1>8

LEMMA NextAccess ==
  ASSUME TypeOK, TypeOK', HandlerInv, RequestInv, RoleInv, RowInv, MadeInv, AccessInv, [Next]_vars
  PROVE  AccessInv'
  <1> SUFFICES ASSUME "lateask" \notin mishaps'
               PROVE  /\ \A h \in Handlers : pc'[h] = "ask" => member'[tenantOf'[h]][who'[h]] = "none"
                      /\ "error" \notin mishaps' => \A t \in Tenants, u \in Users :
                            member'[t][u] # "none" /\ access'[t][u] = "PENDING"
                               => \E h \in Handlers : Owes(h, t, u)'
                      /\ "admin" \notin mishaps' => \A h \in Handlers : Made(h)' =>
                            /\ pc'[h] = "fulfil" => \A u \in Joined(h)' \ todo'[h] : access'[tenantOf'[h]][u] # "PENDING"
                            /\ pc'[h] = "finish" => \A u \in Joined(h)' : access'[tenantOf'[h]][u] # "PENDING"
    BY DEF AccessInv
  <1>1. "lateask" \notin mishaps
    BY MishapsGrow
  <1>2. \A h \in Handlers : pc[h] = "ask" => member[tenantOf[h]][who[h]] = "none"
    BY <1>1 DEF AccessInv
  <1>3. \A h \in Handlers : pc'[h] = "ask" => member'[tenantOf'[h]][who'[h]] = "none"
    BY <1>2, AskersApart
  <1> QED BY <1>3, NextOwes, NextAnswered

-----------------------------------------------------------------------------
(* All of it together. *)
FullInv ==
    /\ IInv
    /\ RoleInv /\ RowInv /\ MadeInv
    /\ TurnInv /\ FreeInv /\ AccessInv

LEMMA InitFull == Init => FullInv
  <1> SUFFICES ASSUME Init PROVE FullInv
    OBVIOUS
  <1> USE DEF Init
  <1>1. IInv
    BY InitInv
  <1>2. \A h \in Handlers : /\ pc[h] = "idle" /\ ~Made(h) /\ ~Busy(h) /\ slugOf[h] = NoSlug
                            /\ tenantOf[h] = NoTenant
    BY DEF Made, Busy
  <1>3. RoleInv
    BY <1>2 DEF RoleInv, WorksOn, RolesGiven, Signed, Invited, Owned
  <1>4. RowInv
    BY <1>2 DEF RowInv, Live
  <1>5. MadeInv /\ TurnInv
    BY <1>2 DEF MadeInv, TurnInv
  <1>6. FreeInv
    BY <1>2 DEF FreeInv, SlugTaken, Live
  <1>7. AccessInv
    BY <1>2 DEF AccessInv
  <1> QED BY <1>1, <1>3, <1>4, <1>5, <1>6, <1>7 DEF FullInv

LEMMA NextFull == FullInv /\ [Next]_vars => FullInv'
  <1> SUFFICES ASSUME FullInv, [Next]_vars PROVE FullInv'
    OBVIOUS
  <1>1. IInv'
    BY StepTypes, StepHandlers, StepRequests, StepLinks DEF IInv, FullInv
  <1>2. TypeOK' /\ TypeOK /\ HandlerInv /\ RequestInv /\ LinkInv
    BY <1>1 DEF IInv, FullInv
  <1>3. RoleInv' /\ RowInv'
    BY <1>2, NextRoles, NextRows DEF FullInv
  <1>4. MadeInv' /\ TurnInv'
    BY <1>2, NextMade, NextTurns DEF FullInv
  <1>5. FreeInv' /\ AccessInv'
    BY <1>2, NextFree, NextAccess DEF FullInv
  <1> QED BY <1>1, <1>3, <1>4, <1>5 DEF FullInv

LEMMA FullInvariance == Spec => []FullInv
  BY InitFull, NextFull, PTL DEF Spec

(* Once the handlers are done, nobody who is a member waits for access,    *)
(* unless a handler failed or the membership came between the check and    *)
(* the write of the request (fulfillWorkspaceAccessRequestsForMembership). *)
THEOREM AccessIsAnswered == Spec => []AccessAnswered
  <1>1. FullInv => AccessAnswered
    BY DEF FullInv, AccessInv, AccessAnswered, Owes, Busy
  <1> QED BY FullInvariance, <1>1, PTL

(* The slug of a request that waits for its review is free: only an error, *)
(* a sign-up of the contact at the wrong moment or an administrator can    *)
(* strand a request whose workspace is half made.                          *)
THEOREM WaitingIsApprovable == Spec => []StillApprovable
  <1>1. ASSUME FullInv PROVE StillApprovable
    <2> SUFFICES ASSUME NEW s \in Slugs, req[s] = "PENDING", Handling(s) = {},
                        mishaps \cap {"error", "signup", "admin"} = {}, SlugTaken(s)
                 PROVE  FALSE
      BY DEF StillApprovable
    <2>1. PICK h \in Handlers : Made(h) /\ slugOf[h] = s
      BY <1>1 DEF FullInv, FreeInv
    <2>2. h \in Handling(s)
      BY <1>1, <2>1 DEF FullInv, IInv, HandlerInv, Made, Handling, Busy
    <2> QED BY <2>2
  <1> QED BY FullInvariance, <1>1, PTL

(* A decision stands, and a workspace stays with its request: two reviews  *)
(* of one request cannot give it two workspaces, however they overlap.     *)
THEOREM DecisionsStand == Spec => DecisionStands
  <1>1. ASSUME FullInv, [Next]_vars, NEW s \in Slugs, req[s] \in Decided, "contest" \notin mishaps
        PROVE  req'[s] = req[s]
    <2>1. ASSUME NEW h \in Handlers, Create(h) \/ Reject(h) \/ Finish(h), slugOf[h] = s
          PROVE  Create(h)
      <3>1. s # NoSlug
        BY NoneApart
      <3> QED BY <1>1, <2>1, <3>1 DEF FullInv, TurnInv, Decided, Reject, Finish
    <2>2. \A h \in Handlers : ~(Create(h) /\ Reject(h)) /\ ~(Create(h) /\ Finish(h))
      BY DEF Create, Reject, Finish
    <2> QED BY <1>1, <2>1, <2>2, RequestMoves DEF FullInv, IInv, Decided
  <1>2. ASSUME FullInv, [Next]_vars, NEW s \in Slugs, reqTenant[s] # NoTenant, "admin" \notin mishaps
        PROVE  reqTenant'[s] = reqTenant[s]
    <2>1. ASSUME NEW h \in Handlers, Finish(h), slugOf[h] = s, Live(tenantOf[h]) PROVE FALSE
      <3>1. Made(h) /\ slugOf[h] # NoSlug /\ tenantOf[h] \in Tenants
        BY <1>2, <2>1, NoneApart DEF FullInv, IInv, HandlerInv, PCs, Made, Finish
      <3>2. tslug[tenantOf[h]] = s /\ tslug[reqTenant[s]] = s
        BY <1>2, <2>1, <3>1 DEF FullInv, MadeInv, MadeSound
      <3>3. Live(reqTenant[s]) /\ reqTenant[s] \in Tenants /\ reqTenant[s] # tenantOf[h]
        BY <1>2, <3>1 DEF FullInv, IInv, TypeOK, LinkInv
      <3> QED BY <1>2, <2>1, <3>1, <3>2, <3>3 DEF FullInv, RowInv
    <2> QED BY <1>2, <2>1, RequestMoves DEF FullInv, IInv
  <1>3. FullInv /\ [Next]_vars =>
          [\A s \in Slugs :
             /\ req[s] \in Decided /\ "contest" \notin mishaps => req'[s] = req[s]
             /\ reqTenant[s] # NoTenant /\ "admin" \notin mishaps => reqTenant'[s] = reqTenant[s]]_vars
    BY <1>1, <1>2
  <1> QED BY FullInvariance, <1>3, PTL DEF Spec, DecisionStands

(* What an approval announces is there: its workspace is active, the       *)
(* contact owns it, everybody it names is in and nobody waits for access.  *)
THEOREM ApprovalsAreComplete == Spec => ApprovalIsComplete
  <1>1. ASSUME FullInv, [Next]_vars, NEW s \in Slugs,
               req[s] # "APPROVED", req'[s] = "APPROVED", "admin" \notin mishaps
        PROVE  LET t == reqTenant'[s]
                   joined == {form[s].contact} \cup form[s].invitees
               IN /\ tstatus[t] = "ACTIVE"
                  /\ member[t][form[s].contact] = "OWNER"
                  /\ \A u \in joined : member[t][u] # "none" /\ role[u] \notin {"none", "PENDING"}
                  /\ "overlap" \notin mishaps => role[form[s].contact] = "ADMIN"
                  /\ "lateask" \notin mishaps => \A u \in joined : access[t][u] # "PENDING"
    <2>1. PICK h \in Handlers : Finish(h) /\ slugOf[h] = s /\ reqTenant'[s] = tenantOf[h]
      BY <1>1, RequestMoves DEF FullInv, IInv
    <2>2. /\ pc[h] = "finish" /\ slugOf[h] # NoSlug /\ Made(h)
          /\ Contact(h) = form[s].contact /\ Invitees(h) = form[s].invitees
      BY <1>1, <2>1, NoneApart DEF FullInv, IInv, HandlerInv, PCs, Made, Finish, Contact, Invitees
    <2>3. MadeSound(h) /\ RolesGiven(h) /\ Ahead(h) = {}
      BY <1>1, <2>2 DEF FullInv, MadeInv, RoleInv, Ahead
    <2>4. /\ tstatus[tenantOf[h]] = "ACTIVE" /\ member[tenantOf[h]][Contact(h)] = "OWNER"
          /\ \A u \in Invitees(h) : member[tenantOf[h]][u] # "none"
      BY <2>2, <2>3 DEF MadeSound, Owned, Invited, Signed
    <2>5. /\ role[Contact(h)] \in In /\ \A u \in Invitees(h) : role[u] \in In
          /\ "overlap" \notin mishaps => role[Contact(h)] = "ADMIN"
      BY <2>2, <2>3 DEF RolesGiven, Owned, Invited, Signed
    <2>6. "lateask" \notin mishaps => \A u \in Joined(h) : access[tenantOf[h]][u] # "PENDING"
      BY <1>1, <2>2 DEF FullInv, AccessInv
    <2>7. Joined(h) = {Contact(h)} \cup Invitees(h)
      BY <2>2 DEF Joined
    <2> QED BY <2>1, <2>2, <2>4, <2>5, <2>6, <2>7 DEF In
  <1>2. FullInv /\ [Next]_vars =>
          [\A s \in Slugs :
             req[s] # "APPROVED" /\ req'[s] = "APPROVED" /\ "admin" \notin mishaps =>
             LET t == reqTenant'[s]
                 joined == {form[s].contact} \cup form[s].invitees
             IN /\ tstatus[t] = "ACTIVE"
                /\ member[t][form[s].contact] = "OWNER"
                /\ \A u \in joined : member[t][u] # "none" /\ role[u] \notin {"none", "PENDING"}
                /\ "overlap" \notin mishaps => role[form[s].contact] = "ADMIN"
                /\ "lateask" \notin mishaps => \A u \in joined : access[t][u] # "PENDING"]_vars
    BY <1>1
  <1> QED BY FullInvariance, <1>2, PTL DEF Spec, ApprovalIsComplete
=============================================================================
