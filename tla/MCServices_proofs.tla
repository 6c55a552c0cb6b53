------------------------- MODULE MCServices_proofs -------------------------
(***************************************************************************)
(* Proofs about the services of MCServices, each for any number of the     *)
(* things it serves: proposals (CuratorProposals), sign-ins (SignIn),      *)
(* cards of a board (ExecutionCards), owners (Accountability), the panel   *)
(* of an initiative (InitiativePanel), imports (ImportExport) and the page *)
(* of a board (ExecutionBoard); and the types of them all.                 *)
(***************************************************************************)
EXTENDS MCServices, FiniteSetTheorems, FunctionTheorems, WellFoundedInduction,
        SequenceTheorems, TLAPS


-----------------------------------------------------------------------------
(* Proposals of the curator (CuratorProposals): types, and that people     *)
(* decide.                                                                 *)

(* What stands for "none" is not one of them. *)
LEMMA Distinct == NoProposal \notin Proposals /\ NoField \notin Fields
  BY ServicesAssumption

ReviewPCs == {"look", "apply", "commit", "reject"}

(* A request at work has a proposal; one that creates has given it a field *)
(* and is alone with it, for there is no creation of a proposal with one;  *)
(* one that reviews has found it created.                                  *)
JobInv ==
    \A r \in Requests :
        /\ pc[r] # "idle" => job[r] \in Proposals
        /\ pc[r] \in ReviewPCs => status[job[r]] # "none"
        /\ pc[r] = "create" =>
              /\ status[job[r]] = "none" /\ field[job[r]] # NoField
              /\ \A q \in Requests : pc[q] = "create" /\ job[q] = job[r] => q = r

(* Without a contest a review is the only one of its proposal, which is    *)
(* PENDING until its end, and what is applied is what is ACCEPTED.         *)
ReviewInv ==
    "contest" \notin mishaps =>
        /\ \A p \in Proposals : applied[p] = IF status[p] = "ACCEPTED" THEN 1 ELSE 0
        /\ \A r \in Requests : pc[r] \in ReviewPCs =>
              /\ status[job[r]] = "PENDING"
              /\ \A q \in Requests : pc[q] \in ReviewPCs /\ job[q] = job[r] => q = r

(* An acceptance past its look at the lock patches no locked field, unless *)
(* the lock came later.                                                    *)
LockInv ==
    /\ \A r \in Requests :
          pc[r] \in {"apply", "commit"} /\ field[job[r]] \in locked => "lockrace" \in mishaps
    /\ "trespass" \in mishaps => "lockrace" \in mishaps

IInv == TypeOK /\ JobInv /\ ReviewInv /\ LockInv

-----------------------------------------------------------------------------
(* The initial states satisfy the invariant. *)
LEMMA InitInv == Init => IInv
  BY DEF Init, IInv, TypeOK, PCs, Status, JobInv, ReviewInv, ReviewPCs, LockInv

(* Every step keeps the types. *)
LEMMA StepTypes ==
    ASSUME TypeOK, JobInv, [Next]_vars
    PROVE  TypeOK'
<1> USE Distinct DEF TypeOK, JobInv, ReviewPCs, PCs, Status, Mishaps
<1>1. ASSUME NEW r \in Requests, NEW p \in Proposals, NEW f \in Fields, Propose(r, p, f)
      PROVE  TypeOK'
  BY <1>1 DEF Propose, Start
<1>2. ASSUME NEW r \in Requests, NEW p \in Proposals, Accept(r, p) \/ Reject(r, p)
      PROVE  TypeOK'
  <2>1. mishaps' \subseteq Mishaps
    BY <1>2 DEF Accept, Reject, Note
  <2> QED BY <1>2, <2>1 DEF Accept, Reject, Start
<1>3. ASSUME NEW r \in Requests, Create(r)
      PROVE  TypeOK'
  BY <1>3 DEF Create, End
<1>4. ASSUME NEW r \in Requests, LookAtLock(r) \/ Apply(r)
      PROVE  TypeOK'
  BY <1>4 DEF LookAtLock, Apply, Goto, End
<1>5. ASSUME NEW r \in Requests, Commit(r)
      PROVE  TypeOK'
  BY <1>5 DEF Commit, End, Note
<1>6. ASSUME NEW r \in Requests, RollBack(r) \/ WriteRejected(r)
      PROVE  TypeOK'
  BY <1>6 DEF RollBack, WriteRejected, End
<1>7. CASE EditTopic
  BY <1>7 DEF EditTopic, Note
<1>8. CASE UNCHANGED vars
  BY <1>8 DEF vars
<1> QED BY <1>1, <1>2, <1>3, <1>4, <1>5, <1>6, <1>7, <1>8 DEF Next

(* Every step keeps the requests at their jobs. *)
LEMMA StepJobs ==
    ASSUME TypeOK, JobInv, [Next]_vars
    PROVE  JobInv'
<1> USE Distinct DEF TypeOK, JobInv, ReviewPCs, PCs, Status
<1>1. ASSUME NEW r \in Requests, NEW p \in Proposals, NEW f \in Fields, Propose(r, p, f)
      PROVE  JobInv'
  BY <1>1 DEF Propose, Start
<1>2. ASSUME NEW r \in Requests, NEW p \in Proposals, Accept(r, p) \/ Reject(r, p)
      PROVE  JobInv'
  BY <1>2 DEF Accept, Reject, Start, Note
<1>3. ASSUME NEW r \in Requests, Create(r)
      PROVE  JobInv'
  BY <1>3 DEF Create, End
<1>4. ASSUME NEW r \in Requests, LookAtLock(r) \/ Apply(r)
      PROVE  JobInv'
  BY <1>4 DEF LookAtLock, Apply, Goto, End
<1>5. ASSUME NEW r \in Requests, Commit(r)
      PROVE  JobInv'
  BY <1>5 DEF Commit, End, Note
<1>6. ASSUME NEW r \in Requests, RollBack(r) \/ WriteRejected(r)
      PROVE  JobInv'
  BY <1>6 DEF RollBack, WriteRejected, End
<1>7. CASE EditTopic
  BY <1>7 DEF EditTopic, Note
<1>8. CASE UNCHANGED vars
  BY <1>8 DEF vars
<1> QED BY <1>1, <1>2, <1>3, <1>4, <1>5, <1>6, <1>7, <1>8 DEF Next

(* Every step keeps what is known of reviews without a contest. *)
LEMMA StepReview ==
    ASSUME TypeOK, JobInv, ReviewInv, [Next]_vars
    PROVE  ReviewInv'
<1> USE Distinct DEF TypeOK, JobInv, ReviewInv, ReviewPCs, PCs, Status, Mishaps
<1>1. ASSUME NEW r \in Requests, NEW p \in Proposals, NEW f \in Fields, Propose(r, p, f)
      PROVE  ReviewInv'
  BY <1>1 DEF Propose, Start
<1>2. ASSUME NEW r \in Requests, NEW p \in Proposals, Accept(r, p) \/ Reject(r, p)
      PROVE  ReviewInv'
  BY <1>2 DEF Accept, Reject, Start, Note, Reviewing
<1>3. ASSUME NEW r \in Requests, Create(r)
      PROVE  ReviewInv'
  BY <1>3 DEF Create, End
<1>4. ASSUME NEW r \in Requests, LookAtLock(r) \/ Apply(r)
      PROVE  ReviewInv'
  BY <1>4 DEF LookAtLock, Apply, Goto, End
<1>5. ASSUME NEW r \in Requests, Commit(r)
      PROVE  ReviewInv'
  BY <1>5 DEF Commit, End, Note
<1>6. ASSUME NEW r \in Requests, RollBack(r) \/ WriteRejected(r)
      PROVE  ReviewInv'
  BY <1>6 DEF RollBack, WriteRejected, End
<1>7. CASE EditTopic
  BY <1>7 DEF EditTopic, Note
<1>8. CASE UNCHANGED vars
  BY <1>8 DEF vars
<1> QED BY <1>1, <1>2, <1>3, <1>4, <1>5, <1>6, <1>7, <1>8 DEF Next

(* Every step keeps what is known of locks: a topic whose row is held has  *)
(* its locks unchanged, and a change before that is noted.                 *)
LEMMA StepLock ==
    ASSUME TypeOK, JobInv, LockInv, [Next]_vars
    PROVE  LockInv'
<1> USE Distinct DEF TypeOK, JobInv, ReviewPCs, LockInv, PCs, Status, Mishaps
<1>1. ASSUME NEW r \in Requests, NEW p \in Proposals, NEW f \in Fields, Propose(r, p, f)
      PROVE  LockInv'
  BY <1>1 DEF Propose, Start
<1>2. ASSUME NEW r \in Requests, NEW p \in Proposals, Accept(r, p) \/ Reject(r, p)
      PROVE  LockInv'
  BY <1>2 DEF Accept, Reject, Start, Note
<1>3. ASSUME NEW r \in Requests, Create(r)
      PROVE  LockInv'
  BY <1>3 DEF Create, End
<1>4. ASSUME NEW r \in Requests, LookAtLock(r) \/ Apply(r)
      PROVE  LockInv'
  BY <1>4 DEF LookAtLock, Apply, Goto, End
<1>5. ASSUME NEW r \in Requests, Commit(r)
      PROVE  LockInv'
  BY <1>5 DEF Commit, End, Note
<1>6. ASSUME NEW r \in Requests, RollBack(r) \/ WriteRejected(r)
      PROVE  LockInv'
  BY <1>6 DEF RollBack, WriteRejected, End
<1>7. CASE EditTopic
  BY <1>7 DEF EditTopic, Note, TopicHeld
<1>8. CASE UNCHANGED vars
  BY <1>8 DEF vars
<1> QED BY <1>1, <1>2, <1>3, <1>4, <1>5, <1>6, <1>7, <1>8 DEF Next

(* The invariant holds in every reachable state. *)
THEOREM Invariant == Spec => []IInv
<1>1. IInv /\ [Next]_vars => IInv'
  BY StepTypes, StepJobs, StepReview, StepLock DEF IInv
<1> QED BY <1>1, InitInv, PTL DEF Spec

(* Every variable keeps its type, whatever the requests do.                *)
THEOREM TypeCorrect == Spec => []TypeOK
<1>1. IInv => TypeOK
  BY DEF IInv
<1> QED BY <1>1, Invariant, PTL

(* People decide: without overlapping reviews a proposal is in the topic   *)
(* exactly if it is ACCEPTED, and once; and no patch goes into a field     *)
(* that was locked when the acceptance looked.                             *)
THEOREM ReviewDecides == Spec => []PeopleDecide
<1>1. IInv => PeopleDecide
  BY DEF IInv, ReviewInv, LockInv, PeopleDecide
<1> QED BY <1>1, Invariant, PTL

-----------------------------------------------------------------------------
(* Sign-ins (SignIn).                                                      *)

(* The requests that have read link l and not signed its user in yet.      *)
Redeeming(s, l) == sPc[s] \in {"mark", "login"} /\ sThing[s] = l

SignInTypes ==
    /\ sAuth \in [Proposals -> S!AuthState]
    /\ sLink \in [Links -> S!LinkState]
    /\ sPc \in [Requests -> S!PCs]
    /\ sThing \in [Requests -> Proposals \cup Links \cup {Nil}]
    /\ sGranted \in [Proposals \cup Links -> Nat]

(* A code that is being exchanged is spent, by one request only, and has   *)
(* granted nothing yet.                                                    *)
CodeInv ==
    /\ \A a \in Proposals : sGranted[a] <= 1 /\ (sGranted[a] = 1 => sAuth[a] = "spent")
    /\ \A s \in Requests : sPc[s] = "mint" =>
          /\ sThing[s] \in Proposals
          /\ sAuth[sThing[s]] = "spent" /\ sGranted[sThing[s]] = 0
          /\ \A q \in Requests : sPc[q] = "mint" /\ sThing[q] = sThing[s] => q = s

(* So is a link, from its marking on.                                      *)
LinkInv ==
    /\ \A s \in Requests : sPc[s] \in {"mark", "login"} => sThing[s] \in Links
    /\ \A l \in Links \ sContested :
          /\ sGranted[l] <= 1 /\ (sGranted[l] = 1 => sLink[l] = "used")
          /\ \A s \in Requests : Redeeming(s, l) =>
                /\ sLink[l] = IF sPc[s] = "mark" THEN "sent" ELSE "used"
                /\ sGranted[l] = 0
                /\ \A q \in Requests : Redeeming(q, l) => q = s

(* What the database knew at the restart is on its way into memory.        *)
ClientInv ==
    /\ sReload = "asked" => sSettled \subseteq sStored
    /\ sReload = "read" => sSettled \subseteq sRows
    /\ sReload = "done" => sSettled \subseteq sKnown

SignInInv == SignInTypes /\ CodeInv /\ LinkInv /\ ClientInv

LEMMA SignInInit == S!Init => SignInInv
  BY DEF S!Init, SignInInv, SignInTypes, CodeInv, LinkInv, ClientInv, Redeeming, S!AuthState,
         S!LinkState, S!PCs

LEMMA SignInNext == SignInInv /\ S!Next => SignInInv'
  <1> SUFFICES ASSUME SignInInv, S!Next PROVE SignInInv'
    OBVIOUS
  <1> USE DEF SignInInv, SignInTypes, CodeInv, LinkInv, ClientInv, Redeeming
  <1>1. CASE \E c \in Fields : S!RegisterClient(c) \/ S!StoreClient(c)
    BY <1>1 DEF S!RegisterClient, S!StoreClient, S!requests, S!reloading
  <1>2. CASE \E a \in Proposals, c \in Fields : S!Authorize(a, c)
    BY <1>2 DEF S!Authorize, S!AuthState, S!clients, S!reloading, S!requests
  <1>3. CASE \E a \in Proposals : S!Callback(a) \/ S!MakeCode(a)
    BY <1>3 DEF S!Callback, S!MakeCode, S!AuthState, S!clients, S!reloading, S!requests
  <1>4. CASE \E x \in Proposals \cup Links : S!GrowOld(x)
    BY <1>4 DEF S!GrowOld, S!clients, S!reloading, S!requests
  <1>5. ASSUME NEW s \in Requests, NEW a \in Proposals, NEW c \in Fields, S!ExchangeCode(s, a, c)
        PROVE  SignInInv'
    BY <1>5, ServicesAssumption DEF S!ExchangeCode, S!Begin, S!AuthState, S!PCs, S!clients, S!reloading, S!requests
  <1>6. CASE \E l \in Links : S!RequestLink(l)
    BY <1>6 DEF S!RequestLink, S!LinkState, S!clients, S!reloading, S!requests
  <1>7. ASSUME NEW s \in Requests, NEW l \in Links, S!VerifyLink(s, l)
        PROVE  SignInInv'
    BY <1>7, ServicesAssumption DEF S!VerifyLink, S!Begin, S!PCs, S!clients, S!reloading
  <1>8. ASSUME NEW s \in Requests, S!MintTokens(s) PROVE SignInInv'
    BY <1>8, ServicesAssumption DEF S!MintTokens, S!Grant, S!End, S!PCs, S!clients, S!reloading
  <1>9. ASSUME NEW s \in Requests, S!MarkUsed(s) PROVE SignInInv'
    BY <1>9, ServicesAssumption DEF S!MarkUsed, S!Goto, S!PCs, S!LinkState, S!clients, S!reloading
  <1>10. ASSUME NEW s \in Requests, S!Login(s) PROVE SignInInv'
    BY <1>10, ServicesAssumption DEF S!Login, S!Grant, S!End, S!PCs, S!clients, S!reloading
  <1>11. ASSUME NEW s \in Requests, S!Fail(s) PROVE SignInInv'
    BY <1>11 DEF S!Fail, S!End, S!PCs, S!clients, S!reloading
  <1>12. CASE S!Restart
    BY <1>12 DEF S!Restart, S!AuthState, S!PCs, S!clients, S!reloading
  <1>13. CASE S!ReadClients \/ S!LoadClients \/ S!ReloadFails
    BY <1>13 DEF S!ReadClients, S!LoadClients, S!ReloadFails, S!others, S!requests
  <1> QED BY <1>1, <1>2, <1>3, <1>4, <1>5, <1>6, <1>7, <1>8, <1>9, <1>10, <1>11, <1>12, <1>13
          DEF S!Next

LEMMA SignInSame == SignInInv /\ UNCHANGED svars => SignInInv'
  BY DEF svars, SignInInv, SignInTypes, CodeInv, LinkInv, ClientInv, Redeeming

(* Once means once (SignIn): however many callbacks, exchanges and         *)
(* restarts there are, a sign-in at Google gives one family of tokens at   *)
(* most, and a link one session unless two requests had read it before     *)
(* either marked it; and a client that was in the database at a restart is *)
(* known in memory when the reload is done.                                *)
THEOREM OneSignInEach == MCSpec => []OnceMeansOnce
  <1>1. MCInit => SignInInv
    BY SignInInit DEF MCInit
  <1>2. SignInInv /\ [MCNext]_allvars => SignInInv'
    BY SignInNext, SignInSame
    DEF MCNext, Proposals_, Files_, SignIn_, Panel_, Cards_, Owners_, Board_, allvars
  <1>3. SignInInv => OnceMeansOnce
    BY DEF SignInInv, CodeInv, LinkInv, ClientInv, OnceMeansOnce, S!OnceMeansOnce
  <1> QED BY <1>1, <1>2, <1>3, PTL DEF MCSpec

-----------------------------------------------------------------------------
(* A card in a column has the status of the column (ExecutionCards).       *)

CardTypes ==
    /\ cStatus \in [Proposals -> C!Status \cup {"none"}]
    /\ cColumn \in [Proposals -> C!Place]
    /\ cMapped \in [Fields -> C!Status \cup {"none"}]
    /\ cKind \in [Requests -> C!Kind]
    /\ cTodo \in [Requests -> SUBSET Proposals]
    /\ cWant \in [Requests -> [Proposals -> C!Place \cup {C!Keep}]]
    /\ cWish \in [Requests -> C!Status \cup {C!Keep}]
    /\ cSeen \in [Requests -> [Proposals -> C!Place]]
    /\ cAt \in [Requests -> Proposals \cup {Nil}]
    /\ cOut \in [Requests -> [column : C!Place \cup {C!Keep}, status : C!Status \cup {C!Keep}]]
    /\ cDrift \subseteq Proposals
    /\ cRemapped \subseteq Fields

(* Status s is that of the column k, if there is such a column and what it *)
(* stands for has not been changed.                                        *)
Tells(k, s) == k \in Fields \ cRemapped /\ cMapped[k] # "none" => s = cMapped[k]

(* What a request is about to write to a card agrees with the column that  *)
(* it writes, or that it has found the card in; a tool has not looked.     *)
AtCard(r) ==
    cAt[r] # Nil =>
        /\ Tells(cOut[r].column, cOut[r].status)
        /\ cOut[r].column = C!Keep /\ cOut[r].status # C!Keep =>
              \/ cKind[r] = "tool"
              \/ cKind[r] = "put" /\ Tells(cSeen[r][cAt[r]], cOut[r].status)

(* Creations and layouts have a place for every card they have to write.   *)
Placing(r) ==
    /\ cKind[r] = "idle" => cAt[r] = Nil /\ cTodo[r] = {}
    /\ cKind[r] \in {"create", "layout"} =>
          \A c \in cTodo[r] : c = cAt[r] \/ cWant[r][c] # C!Keep

CardInv ==
    /\ CardTypes
    /\ \A r \in Requests : AtCard(r) /\ Placing(r)
    /\ \A c \in Proposals : cColumn[c] \in Fields => cMapped[cColumn[c]] # "none"
    /\ C!CardMatchesColumn

LEMMA CardInit == C!Init => CardInv
  BY ServicesAssumption
  DEF C!Init, CardInv, CardTypes, AtCard, Placing, C!CardMatchesColumn, C!Status, C!Place,
      C!Kind, C!Keep, C!Nothing

(* Requests that are over are at no card. *)
LEMMA CardEnd ==
  ASSUME CardInv, NEW rs \in SUBSET Requests, C!End(rs), UNCHANGED <<cMapped, cRemapped>>
  PROVE  /\ cKind' \in [Requests -> C!Kind]
         /\ cTodo' \in [Requests -> SUBSET Proposals]
         /\ cWant' \in [Requests -> [Proposals -> C!Place \cup {C!Keep}]]
         /\ cWish' \in [Requests -> C!Status \cup {C!Keep}]
         /\ cSeen' \in [Requests -> [Proposals -> C!Place]]
         /\ cAt' \in [Requests -> Proposals \cup {Nil}]
         /\ cOut' \in [Requests -> [column : C!Place \cup {C!Keep}, status : C!Status \cup {C!Keep}]]
         /\ \A r \in Requests : AtCard(r)' /\ Placing(r)'
  BY DEF CardInv, CardTypes, C!End, AtCard, Placing, Tells, C!Kind, C!Place, C!Nothing

(* A request begins. *)
LEMMA CardStart ==
  ASSUME CardInv, NEW r \in Requests, NEW k \in C!Kind, NEW cs \in SUBSET Proposals,
         NEW w \in [Proposals -> C!Place \cup {C!Keep}], NEW s \in C!Status \cup {C!Keep},
         NEW sn \in [Proposals -> C!Place],
         k \in {"create", "layout"} => \A c \in cs : w[c] # C!Keep,
         k # "idle", C!Start(r, k, cs, w, s, sn)
  PROVE  CardInv'
  BY DEF CardInv, CardTypes, C!Start, C!cards, AtCard, Placing, Tells, C!CardMatchesColumn

LEMMA CardFails ==
  ASSUME CardInv, NEW r \in Requests, C!Fails(r)
  PROVE  CardInv'
  <1>1. PICK rs \in SUBSET Requests : C!End(rs)
    BY DEF C!Fails
  <1>2. UNCHANGED <<cStatus, cColumn, cMapped, cDrift, cRemapped>>
    BY DEF C!Fails, C!cards
  <1> QED BY <1>1, <1>2, CardEnd DEF CardInv, CardTypes, C!CardMatchesColumn

(* Every outcome is one that AtCard allows. *)
LEMMA CardOutcomes ==
  ASSUME CardInv, NEW r \in Requests, NEW c \in cTodo[r], cAt[r] = Nil,
         NEW o \in C!Outcomes(r, c)
  PROVE  /\ o \in [column : C!Place \cup {C!Keep}, status : C!Status \cup {C!Keep}]
         /\ Tells(o.column, o.status)
         /\ o.column = C!Keep /\ o.status # C!Keep =>
               \/ cKind[r] = "tool"
               \/ cKind[r] = "put" /\ Tells(cSeen[r][c], o.status)
  <1> DEFINE w == cWant[r][c]
  <1>0. c \in Proposals /\ w \in Fields \cup {Nil, C!Keep} /\ cWish[r] \in C!Status \cup {C!Keep}
        /\ cSeen[r][c] \in C!Place /\ c # Nil
    BY ServicesAssumption DEF CardInv, CardTypes, C!Place
  <1>1. CASE cKind[r] = "layout" /\ w = cSeen[r][c]
    BY <1>1, ServicesAssumption DEF C!Outcomes, C!Nothing, C!Keep, Tells
  <1>2. CASE ~(cKind[r] = "layout" /\ w = cSeen[r][c]) /\ w \in Fields
    <2>1. o = [column |-> w, status |-> cMapped[w]] /\ cMapped[w] \in C!Status
      BY <1>2 DEF C!Outcomes, C!OnBoard, CardInv, CardTypes
    <2> QED BY <1>2, <2>1, ServicesAssumption DEF Tells, C!Place, C!Keep
  <1>3. CASE w \notin Fields /\ w = C!Keep /\ cKind[r] = "put"
    <2>1. PICK k \in C!SyncedColumns(cWish[r]) :
             o = [column |-> IF k = cSeen[r][c] THEN C!Keep ELSE k, status |-> cWish[r]]
      BY <1>3 DEF C!Outcomes
    <2>2. k = Nil \/ (k \in Fields /\ cMapped[k] = cWish[r])
      BY DEF C!SyncedColumns, C!OnBoard
    <2> QED BY <1>0, <1>3, <2>1, <2>2, ServicesAssumption DEF Tells, C!Place, C!Keep
  <1>4. CASE ~(cKind[r] = "layout" /\ w = cSeen[r][c]) /\ w \notin Fields
             /\ ~(w = C!Keep /\ cKind[r] = "put")
    <2>1. o = [column |-> w, status |-> cWish[r]]
      BY <1>4 DEF C!Outcomes
    <2>2. w = C!Keep => cKind[r] = "tool"
      BY <1>0, <1>4 DEF CardInv, CardTypes, Placing, C!Kind
    <2> QED BY <1>0, <1>4, <2>1, <2>2, ServicesAssumption DEF Tells, C!Place, C!Keep
  <1> QED BY <1>1, <1>2, <1>3, <1>4, ServicesAssumption DEF C!Keep

LEMMA CardResolve ==
  ASSUME CardInv, NEW r \in Requests, C!Resolve(r)
  PROVE  CardInv'
  <1>1. CASE C!Fails(r)
    BY <1>1, CardFails
  <1>2. ASSUME NEW c \in cTodo[r], NEW o \in C!Outcomes(r, c),
               cOut' = [cOut EXCEPT ![r] = o],
               cSeen' = [cSeen EXCEPT ![r][c] =
                            IF o.column = C!Keep /\ cKind[r] = "put" THEN @ ELSE Nil],
               cAt' = [cAt EXCEPT ![r] = c],
               cWant' = [cWant EXCEPT ![r][c] = C!Keep],
               cWish' = [cWish EXCEPT ![r] = C!Keep],
               UNCHANGED <<C!cards, cMapped, cKind, cTodo, cEdits, cDrift, cRemapped>>
        PROVE  CardInv'
    <2>0. cAt[r] = Nil /\ c \in Proposals /\ cKind[r] # "idle"
      BY DEF C!Resolve, CardInv, CardTypes, Placing
    <2>1. /\ o \in [column : C!Place \cup {C!Keep}, status : C!Status \cup {C!Keep}]
          /\ Tells(o.column, o.status)
          /\ o.column = C!Keep /\ o.status # C!Keep =>
                \/ cKind[r] = "tool"
                \/ cKind[r] = "put" /\ Tells(cSeen[r][c], o.status)
      BY <2>0, CardOutcomes
    <2>2. CardTypes'
      BY <1>2, <2>0, <2>1 DEF CardInv, CardTypes, C!cards, C!Place
    <2>3. \A q \in Requests : AtCard(q)'
      <3> SUFFICES ASSUME NEW q \in Requests PROVE AtCard(q)'
        OBVIOUS
      <3>1. CASE q = r
        BY <1>2, <2>0, <2>1, <3>1 DEF CardInv, CardTypes, AtCard, Tells
      <3>2. CASE q # r
        BY <1>2, <3>2 DEF CardInv, CardTypes, AtCard, Tells
      <3> QED BY <3>1, <3>2
    <2>4. \A q \in Requests : Placing(q)'
      BY <1>2, <2>0, ServicesAssumption DEF CardInv, CardTypes, Placing
    <2> QED BY <1>2, <2>2, <2>3, <2>4 DEF CardInv, C!cards, C!CardMatchesColumn
  <1> QED BY <1>1, <1>2 DEF C!Resolve

(* After the write the card agrees with its column, or has drifted.        *)
LEMMA CardWrite ==
  ASSUME CardInv, NEW r \in Requests, C!Write(r)
  PROVE  CardInv'
  <1> DEFINE c == cAt[r]
             o == cOut[r]
  <1>1. CASE C!Fails(r)
    BY <1>1, CardFails
  <1>2. CASE ~C!Fails(r)
    <2>0. /\ c \in Proposals /\ c # Nil
          /\ o \in [column : C!Place \cup {C!Keep}, status : C!Status \cup {C!Keep}]
      BY DEF C!Write, CardInv, CardTypes
    <2>1. /\ C!Writable(r)
          /\ cColumn' = [cColumn EXCEPT ![c] = IF o.column = C!Keep THEN @ ELSE o.column]
          /\ cStatus' = [cStatus EXCEPT ![c] = IF o.status = C!Keep THEN @ ELSE o.status]
          /\ cDrift' = IF C!PastColumn(r) THEN cDrift \cup {c}
                       ELSE IF o = C!Nothing THEN cDrift ELSE cDrift \ {c}
          /\ UNCHANGED <<cMapped, cEdits, cRemapped>>
      BY <1>2 DEF C!Write
    <2>2. /\ cStatus' \in [Proposals -> C!Status \cup {"none"}]
          /\ cColumn' \in [Proposals -> C!Place]
          /\ cDrift' \subseteq Proposals
      BY <2>0, <2>1 DEF CardInv, CardTypes
    <2>3. \A d \in Proposals : cColumn'[d] \in Fields => cMapped'[cColumn'[d]] # "none"
      BY <2>0, <2>1 DEF CardInv, CardTypes, C!Writable, C!OnBoard
    <2>4. C!CardMatchesColumn'
      <3> SUFFICES ASSUME NEW d \in Proposals, cColumn'[d] \in Fields \ cRemapped, d \notin cDrift'
                   PROVE  cStatus'[d] = cMapped[cColumn'[d]]
        BY <2>1 DEF C!CardMatchesColumn
      <3>1. CASE d # c
        BY <2>0, <2>1, <3>1 DEF CardInv, CardTypes, C!CardMatchesColumn
      <3>2. CASE d = c /\ o.column # C!Keep
        <4>1. cColumn'[c] = o.column /\ o.column \in Fields \ cRemapped /\ cMapped[o.column] # "none"
          BY <2>0, <2>1, <2>3, <3>2 DEF CardInv, CardTypes
        <4>2. o.status = cMapped[o.column]
          BY <2>0, <4>1 DEF CardInv, AtCard, Tells
        <4>3. cMapped[o.column] \in C!Status
          BY <4>1 DEF CardInv, CardTypes
        <4>4. o.status # C!Keep
          BY <4>2, <4>3 DEF C!Status, C!Keep
        <4> QED BY <2>0, <2>1, <3>2, <4>1, <4>2, <4>4 DEF CardInv, CardTypes
      <3>3. CASE d = c /\ o.column = C!Keep /\ o.status # C!Keep
        <4>1. ~C!PastColumn(r)
          BY <2>0, <2>1, <3>3
        <4>2. cKind[r] = "put" /\ cColumn[c] = cSeen[r][c] /\ Tells(cSeen[r][c], o.status)
          BY <2>0, <3>3, <4>1 DEF C!PastColumn, CardInv, AtCard
        <4> QED BY <2>0, <2>1, <2>3, <3>3, <4>2 DEF CardInv, CardTypes, Tells
      <3>4. CASE d = c /\ o.column = C!Keep /\ o.status = C!Keep
        <4>1. o = C!Nothing
          BY <2>0, <3>4 DEF C!Nothing
        <4> QED BY <2>0, <2>1, <3>4, <4>1 DEF CardInv, CardTypes, C!PastColumn, C!CardMatchesColumn
      <3> QED BY <3>1, <3>2, <3>3, <3>4
    <2>5. CASE C!End({r})
      <3>1. /\ cKind' \in [Requests -> C!Kind]
            /\ cTodo' \in [Requests -> SUBSET Proposals]
            /\ cWant' \in [Requests -> [Proposals -> C!Place \cup {C!Keep}]]
            /\ cWish' \in [Requests -> C!Status \cup {C!Keep}]
            /\ cSeen' \in [Requests -> [Proposals -> C!Place]]
            /\ cAt' \in [Requests -> Proposals \cup {Nil}]
            /\ cOut' \in [Requests -> [column : C!Place \cup {C!Keep}, status : C!Status \cup {C!Keep}]]
            /\ \A q \in Requests : AtCard(q)' /\ Placing(q)'
        BY <2>1, <2>5, {r} \in SUBSET Requests, CardEnd
      <3> QED BY <2>1, <2>2, <2>3, <2>4, <3>1 DEF CardInv, CardTypes
    <2>6. CASE /\ cTodo' = [cTodo EXCEPT ![r] = @ \ {c}]
               /\ cAt' = [cAt EXCEPT ![r] = Nil]
               /\ cOut' = [cOut EXCEPT ![r] = C!Nothing]
               /\ UNCHANGED <<cKind, cWant, cWish, cSeen>>
      <3>1. \A q \in Requests : AtCard(q)' /\ Placing(q)'
        BY <2>0, <2>1, <2>6 DEF CardInv, CardTypes, AtCard, Placing, Tells
      <3> QED BY <2>1, <2>2, <2>3, <2>4, <2>6, <3>1 DEF CardInv, CardTypes, C!Nothing, C!Place
    <2> QED BY <1>2, <2>5, <2>6 DEF C!Write
  <1> QED BY <1>1, <1>2

LEMMA CardNext == CardInv /\ C!Next => CardInv'
  <1> SUFFICES ASSUME CardInv, C!Next PROVE CardInv'
    OBVIOUS
  <1>1. ASSUME NEW r \in Requests, NEW c \in Proposals, NEW w \in C!Place \cup {C!Keep},
               NEW s \in C!Status \cup {C!Keep},
               C!CreateCard(r, c, w, s) \/ C!PutCard(r, c, w, s) \/ C!ToolUpdate(r, c, w, s)
        PROVE  CardInv'
    <2>1. C!OnCard(c, w) \in [Proposals -> C!Place \cup {C!Keep}] /\ C!OnCard(c, w)[c] = w
      BY DEF C!OnCard
    <2>2. CASE C!CreateCard(r, c, w, s)
      <3>1. w # C!Keep
        BY <2>2, ServicesAssumption DEF C!CreateCard, C!Place, C!Keep
      <3> QED BY <2>1, <2>2, <3>1, CardStart DEF C!CreateCard, C!Kind, C!Place
    <2>3. CASE C!PutCard(r, c, w, s)
      <3>1. [d \in Proposals |-> IF d = c THEN cColumn[c] ELSE Nil] \in [Proposals -> C!Place]
        BY DEF CardInv, CardTypes, C!Place
      <3> QED BY <2>1, <2>3, <3>1, CardStart DEF C!PutCard, C!Kind
    <2>4. CASE C!ToolUpdate(r, c, w, s)
      BY <2>1, <2>4, CardStart DEF C!ToolUpdate, C!Kind, C!Place
    <2> QED BY <1>1, <2>2, <2>3, <2>4
  <1>2. ASSUME NEW r \in Requests, C!Layout(r)
        PROVE  CardInv'
    <2>1. PICK plan \in [C!Existing -> C!OnBoard \cup {Nil}] :
             C!Start(r, "layout", C!Existing,
                     [c \in Proposals |-> IF c \in C!Existing THEN plan[c] ELSE C!Keep],
                     C!Keep, cColumn)
      BY <1>2 DEF C!Layout
    <2> DEFINE w == [c \in Proposals |-> IF c \in C!Existing THEN plan[c] ELSE C!Keep]
    <2>2. C!Existing \in SUBSET Proposals /\ cColumn \in [Proposals -> C!Place] /\ "layout" \in C!Kind
      BY DEF C!Existing, CardInv, CardTypes, C!Kind
    <2>3. /\ w \in [Proposals -> C!Place \cup {C!Keep}]
          /\ \A c \in C!Existing : w[c] # C!Keep
      BY <2>2, ServicesAssumption DEF C!OnBoard, C!Place, C!Keep
    <2> HIDE DEF w
    <2> QED BY <2>1, <2>2, <2>3, CardStart DEF w
  <1>3. ASSUME NEW r \in Requests, C!Resolve(r) \/ C!Write(r) \/ C!Mishap(r)
        PROVE  CardInv'
    BY <1>3, CardResolve, CardWrite, CardFails DEF C!Mishap
  <1>4. ASSUME NEW c \in Proposals, C!DeleteCard(c)
        PROVE  CardInv'
    BY <1>4, ServicesAssumption
    DEF C!DeleteCard, C!local, CardInv, CardTypes, AtCard, Placing, Tells, C!CardMatchesColumn, C!Place
  <1>5. ASSUME NEW k \in Fields, NEW s \in C!Status, C!AddColumn(k, s)
        PROVE  CardInv'
    <2>1. CardTypes' /\ \A r \in Requests : Placing(r)'
      BY <1>5 DEF C!AddColumn, C!local, C!cards, CardInv, CardTypes, Placing
    <2>2. ASSUME NEW r \in Requests PROVE AtCard(r)'
      BY <1>5 DEF C!AddColumn, C!local, CardInv, CardTypes, AtCard, Tells
    <2> QED BY <1>5, <2>1, <2>2 DEF C!AddColumn, C!OnBoard, C!cards, CardInv, CardTypes, C!CardMatchesColumn
  <1>6. ASSUME NEW k \in Fields, NEW s \in C!Status, C!RemapColumn(k, s)
        PROVE  CardInv'
    BY <1>6 DEF C!RemapColumn, C!local, C!cards, C!Status, CardInv, CardTypes, AtCard, Placing, Tells,
                C!CardMatchesColumn
  <1>7. ASSUME NEW k \in Fields, C!DeleteColumn(k)
        PROVE  CardInv'
    BY <1>7, ServicesAssumption
    DEF C!DeleteColumn, C!local, CardInv, CardTypes, AtCard, Placing, Tells, C!CardMatchesColumn, C!Place
  <1>8. CASE C!Restart
    BY <1>8, CardEnd DEF C!Restart, C!cards, CardInv, CardTypes, C!CardMatchesColumn
  <1> QED BY <1>1, <1>2, <1>3, <1>4, <1>5, <1>6, <1>7, <1>8 DEF C!Next

LEMMA CardSame == CardInv /\ UNCHANGED cvars => CardInv'
  BY DEF cvars, CardInv, CardTypes, AtCard, Placing, Tells, C!CardMatchesColumn

(* A card in a column has the status that the column stands for            *)
(* (ExecutionCards), however layouts, edits and deletions interleave and   *)
(* wherever they break off.                                                *)
THEOREM BoardTellsStatus == MCSpec => []CardMatchesColumn
  <1>1. MCInit => CardInv
    BY CardInit DEF MCInit
  <1>2. CardInv /\ [MCNext]_allvars => CardInv'
    BY CardNext, CardSame
    DEF MCNext, Proposals_, Files_, SignIn_, Panel_, Cards_, Owners_, Board_, allvars
  <1>3. CardInv => CardMatchesColumn
    BY DEF CardInv, CardMatchesColumn
  <1> QED BY <1>1, <1>2, <1>3, PTL DEF MCSpec

-----------------------------------------------------------------------------
(* Who is accountable owns the initiative (Accountability).                *)

OwnerCall == [at : {"none", "remove", "disown", "clear", "upsert", "own"},
              api : BOOLEAN, user : Proposals \cup {Nil}, role : A!Roles,
              next : Proposals \cup {Nil}, alone : BOOLEAN]

OwnerTypes ==
    /\ aOwner \in Proposals \cup {Nil}
    /\ aRows \in [Proposals -> [A!Roles -> {"none", "scoped", "hidden"}]]
    /\ aCall \in [Requests -> OwnerCall]

(* What a request is about to do it does to somebody; the owner follows    *)
(* only who is accountable.                                                *)
CallInv(r) ==
    /\ aCall[r].at # "none" => aCall[r].user \in Proposals
    /\ aCall[r].at \in {"clear", "disown", "own"} \/ aCall[r].next # Nil =>
          aCall[r].role = A!Accountable

InStep ==
    /\ aCauses = {} => A!AccountableUsers \subseteq {aOwner}
    /\ aCauses \subseteq {"nested"} => A!AccountableUsers \ A!HiddenHeads \subseteq {aOwner}

(* Nobody but those with a hidden row is accountable. *)
NoHeads ==
    /\ aCauses = {} => A!AccountableUsers = {}
    /\ aCauses \subseteq {"nested"} => A!AccountableUsers \subseteq A!HiddenHeads

(* A request that is alone is the only one; how far it has come tells who  *)
(* is accountable.                                                         *)
AloneAt(r) ==
    aCall[r].at # "none" /\ aCall[r].alone =>
        /\ \A q \in Requests : aCall[q].at # "none" => q = r
        /\ aCall[r].at = "upsert" /\ aCall[r].role = A!Accountable =>
              A!AccountableUsers \subseteq A!HiddenHeads
        /\ aCall[r].at = "own" => A!AccountableUsers \subseteq A!HiddenHeads \cup {aCall[r].user}
        /\ aCall[r].at = "disown" => NoHeads
        /\ aCall[r].at \in {"remove", "clear"} => InStep
        /\ aCall[r].at = "upsert" /\ aCall[r].role # A!Accountable => InStep

OwnerInv ==
    /\ OwnerTypes
    /\ \A r \in Requests : CallInv(r) /\ AloneAt(r)
    /\ A!AccountableOwns

LEMMA OwnerInit == A!Init => OwnerInv
  BY DEF A!Init, OwnerInv, OwnerTypes, OwnerCall, CallInv, AloneAt, InStep, A!AccountableOwns,
         A!AccountableUsers, A!HiddenHeads, A!Several, A!Idle, A!NoCall, A!Nobody, A!Accountable,
         A!Roles

(* Those under way are alone no longer when something else happens. *)
LEMMA OwnerDisturbed ==
  ASSUME OwnerInv
  PROVE  /\ A!Disturbed \in [Requests -> OwnerCall]
         /\ \A r \in Requests :
               /\ A!Disturbed[r].at = aCall[r].at /\ A!Disturbed[r].user = aCall[r].user
               /\ A!Disturbed[r].role = aCall[r].role /\ A!Disturbed[r].next = aCall[r].next
               /\ aCall[r].at # "none" => ~A!Disturbed[r].alone
  BY DEF A!Disturbed, OwnerInv, OwnerTypes, OwnerCall

LEMMA OwnerStart ==
  ASSUME OwnerInv, NEW r \in Requests, NEW c \in OwnerCall, A!Start(r, c),
         c.at \in {"remove", "clear"} \/ (c.at = "upsert" /\ c.role # A!Accountable),
         c.user \in Proposals,
         c.at = "clear" \/ c.next # Nil => c.role = A!Accountable
  PROVE  OwnerInv'
  <1>1. /\ aCall' = [A!Disturbed EXCEPT ![r] = [c EXCEPT !.alone = A!Idle]]
        /\ UNCHANGED <<aOwner, aRows, aCauses>> /\ aCall[r].at = "none"
    BY DEF A!Start
  <1>2. A!Idle \in BOOLEAN
    BY DEF A!Idle
  <1>3. aCall'[r] = [c EXCEPT !.alone = A!Idle] /\ \A q \in Requests \ {r} : aCall'[q] = A!Disturbed[q]
    BY <1>1, OwnerDisturbed
  <1>4. OwnerTypes'
    BY <1>1, <1>2, OwnerDisturbed DEF OwnerInv, OwnerTypes, OwnerCall
  <1>5. \A q \in Requests : CallInv(q)'
    BY <1>3, OwnerDisturbed DEF OwnerInv, OwnerCall, CallInv
  <1>6. ~A!Idle'
    BY <1>3 DEF A!Idle, OwnerCall
  <1>7. \A q \in Requests : AloneAt(q)'
    <2>1. A!AccountableUsers' = A!AccountableUsers /\ InStep' = InStep
      BY <1>1 DEF A!AccountableUsers, A!HiddenHeads, InStep
    <2>2. \A q \in Requests \ {r} : AloneAt(q)'
      BY <1>3, OwnerDisturbed DEF AloneAt
    <2>3. AloneAt(r)'
      BY <1>1, <1>3, <2>1, OwnerDisturbed DEF AloneAt, A!Idle, OwnerCall, OwnerInv, A!AccountableOwns, InStep
    <2> QED BY <2>2, <2>3
  <1> QED BY <1>4, <1>5, <1>6, <1>7 DEF OwnerInv, A!AccountableOwns

(* A request ends, and none of the others is alone. *)
LEMMA OwnerEnds ==
  ASSUME OwnerInv, NEW r \in Requests, aCall[r].at # "none",
         aCall' = [aCall EXCEPT ![r] = A!NoCall],
         aOwner' \in Proposals \cup {Nil},
         aRows' \in [Proposals -> [A!Roles -> {"none", "scoped", "hidden"}]],
         aCall[r].alone => InStep',
         ~aCall[r].alone => "overlap" \in aCauses'
  PROVE  OwnerInv'
  <1>1. A!NoCall \in OwnerCall /\ A!NoCall.at = "none" /\ A!NoCall.next = Nil
    BY DEF A!NoCall, A!Nobody, A!Accountable, A!Roles, OwnerCall
  <1>2. OwnerTypes'
    BY <1>1 DEF OwnerInv, OwnerTypes
  <1>3. aCall'[r] = A!NoCall /\ \A q \in Requests \ {r} : aCall'[q] = aCall[q]
    BY DEF OwnerInv, OwnerTypes
  <1>4. \A q \in Requests \ {r} : ~(aCall[q].at # "none" /\ aCall[q].alone)
    BY DEF OwnerInv, AloneAt
  <1>5. \A q \in Requests : CallInv(q)' /\ AloneAt(q)'
    BY <1>1, <1>3, <1>4 DEF OwnerInv, CallInv, AloneAt
  <1> QED BY <1>2, <1>5 DEF OwnerInv, A!AccountableOwns, InStep

(* A request goes on with its next statement. *)
LEMMA OwnerGoesOn ==
  ASSUME OwnerInv, NEW r \in Requests, aCall[r].at # "none", NEW n \in OwnerCall,
         n.at # "none", n.alone = aCall[r].alone,
         aCall' = [aCall EXCEPT ![r] = n],
         aOwner' \in Proposals \cup {Nil},
         aRows' \in [Proposals -> [A!Roles -> {"none", "scoped", "hidden"}]],
         n.user \in Proposals,
         n.at \in {"clear", "disown", "own"} \/ n.next # Nil => n.role = A!Accountable,
         n.alone =>
            /\ n.at = "upsert" /\ n.role = A!Accountable => A!AccountableUsers' \subseteq A!HiddenHeads'
            /\ n.at = "own" => A!AccountableUsers' \subseteq A!HiddenHeads' \cup {n.user}
            /\ n.at = "disown" => NoHeads'
            /\ n.at \in {"remove", "clear"} => InStep'
            /\ n.at = "upsert" /\ n.role # A!Accountable => InStep'
  PROVE  OwnerInv'
  <1>1. OwnerTypes'
    BY DEF OwnerInv, OwnerTypes
  <1>2. aCall'[r] = n /\ \A q \in Requests \ {r} : aCall'[q] = aCall[q]
    BY DEF OwnerInv, OwnerTypes
  <1>3. \A q \in Requests \ {r} : ~(aCall[q].at # "none" /\ aCall[q].alone)
    BY DEF OwnerInv, AloneAt
  <1>4. \A q \in Requests : CallInv(q)'
    BY <1>2 DEF OwnerInv, CallInv
  <1>5. AloneAt(r)'
    <2>1. aCall[r].alone => \A q \in Requests : aCall[q].at # "none" => q = r
      BY DEF OwnerInv, AloneAt
    <2> QED BY <1>2, <2>1 DEF AloneAt
  <1>6. \A q \in Requests \ {r} : AloneAt(q)'
    BY <1>2, <1>3 DEF AloneAt
  <1>7. ~A!Idle'
    BY <1>2 DEF A!Idle
  <1> QED BY <1>1, <1>4, <1>5, <1>6, <1>7 DEF OwnerInv, A!AccountableOwns

(* A request breaks off, and may take the others with it. *)
LEMMA OwnerFails ==
  ASSUME OwnerInv, NEW r \in Requests, A!Fails(r)
  PROVE  OwnerInv'
  <1>1. A!NoCall \in OwnerCall /\ A!NoCall.at = "none" /\ A!NoCall.next = Nil
    BY DEF A!NoCall, A!Nobody, A!Accountable, A!Roles, OwnerCall
  <1>2. \A q \in Requests : aCall'[q] = aCall[q] \/ aCall'[q] = A!NoCall
    BY DEF A!Fails
  <1>3. OwnerTypes'
    BY <1>1 DEF A!Fails, OwnerInv, OwnerTypes
  <1>4. /\ "failed" \in aCauses'
        /\ A!AccountableUsers' = A!AccountableUsers /\ A!HiddenHeads' = A!HiddenHeads
    BY DEF A!Fails, A!AccountableUsers, A!HiddenHeads
  <1>5. InStep' /\ NoHeads'
    BY <1>4 DEF InStep, NoHeads
  <1>6. \A q \in Requests : CallInv(q)' /\ AloneAt(q)'
    BY <1>1, <1>2, <1>4, <1>5 DEF OwnerInv, CallInv, AloneAt
  <1> QED BY <1>3, <1>5, <1>6 DEF OwnerInv, A!AccountableOwns, InStep

(* What is done in one transaction leaves no request alone. *)
LEMMA OwnerAtOnce ==
  ASSUME OwnerInv, aCall' = A!Disturbed,
         aOwner' \in Proposals \cup {Nil},
         aRows' \in [Proposals -> [A!Roles -> {"none", "scoped", "hidden"}]],
         A!Idle => InStep'
  PROVE  OwnerInv'
  <1>1. OwnerTypes'
    BY OwnerDisturbed DEF OwnerTypes
  <1>2. \A q \in Requests : CallInv(q)' /\ AloneAt(q)'
    BY OwnerDisturbed DEF OwnerInv, CallInv, AloneAt
  <1>3. A!Idle' = A!Idle
    BY OwnerDisturbed DEF A!Idle
  <1> QED BY <1>1, <1>2, <1>3 DEF OwnerInv, A!AccountableOwns, InStep

(* After a deletion the request is over, or assigns the role to another. *)
LEMMA OwnerRemoved ==
  ASSUME OwnerInv, NEW r \in Requests, aCall[r].at # "none", A!Removed(r),
         aOwner' \in Proposals \cup {Nil},
         aRows' \in [Proposals -> [A!Roles -> {"none", "scoped", "hidden"}]],
         aCall[r].alone /\ aCauses' = aCauses => InStep'
  PROVE  OwnerInv'
  <1>1. CASE aCall[r].next = Nil
    <2>1. /\ aCall' = [aCall EXCEPT ![r] = A!NoCall]
          /\ aCauses' = IF aCall[r].alone THEN aCauses ELSE aCauses \cup {"overlap"}
      BY <1>1 DEF A!Removed, A!Over, A!Nobody
    <2> QED BY <2>1, OwnerEnds
  <1>2. CASE aCall[r].next # Nil
    <2> DEFINE n == [aCall[r] EXCEPT !.at = "clear", !.user = aCall[r].next, !.next = Nil]
    <2>1. aCall[r] \in OwnerCall /\ CallInv(r)
      BY DEF OwnerInv, OwnerTypes
    <2>2. /\ n \in OwnerCall /\ n.at = "clear" /\ n.alone = aCall[r].alone
          /\ n.user \in Proposals /\ n.role = A!Accountable
      BY <1>2, <2>1 DEF OwnerCall, CallInv
    <2>3. aCall' = [aCall EXCEPT ![r] = n] /\ UNCHANGED aCauses
      BY <1>2 DEF A!Removed, A!Nobody, OwnerInv, OwnerTypes
    <2> HIDE DEF n
    <2> QED BY <2>2, <2>3, OwnerGoesOn
  <1> QED BY <1>1, <1>2

LEMMA OwnerNext == OwnerInv /\ A!Next => OwnerInv'
  <1> SUFFICES ASSUME OwnerInv, A!Next PROVE OwnerInv'
    OBVIOUS
  <1> USE DEF A!Accountable, A!Nobody
  <1>1. ASSUME NEW r \in Requests, NEW u \in Proposals, NEW ro \in A!Roles, NEW api \in BOOLEAN,
               A!Assign(r, u, ro, api)
        PROVE  OwnerInv'
    <2> DEFINE c == [A!NoCall EXCEPT !.at = IF ro = "ACCOUNTABLE" THEN "clear" ELSE "upsert",
                                     !.api = api, !.user = u, !.role = ro]
    <2>1. c \in OwnerCall
      BY DEF A!NoCall, A!Roles, OwnerCall
    <2>2. /\ c.at \in {"remove", "clear"} \/ (c.at = "upsert" /\ c.role # "ACCOUNTABLE")
          /\ c.user \in Proposals
          /\ c.at = "clear" \/ c.next # Nil => c.role = "ACCOUNTABLE"
      BY DEF A!NoCall
    <2>3. A!Start(r, c)
      BY <1>1 DEF A!Assign
    <2> QED BY <2>1, <2>2, <2>3, OwnerStart
  <1>2. ASSUME NEW r \in Requests, NEW u \in Proposals, NEW ro \in A!Roles, NEW api \in BOOLEAN,
               NEW v \in Proposals \cup {Nil}, A!Unassign(r, u, ro, v, api)
        PROVE  OwnerInv'
    <2> DEFINE c == [A!NoCall EXCEPT !.at = "remove", !.api = api, !.user = u, !.role = ro,
                                     !.next = v]
    <2>1. c \in OwnerCall
      BY DEF A!NoCall, A!Roles, OwnerCall
    <2>2. /\ c.at \in {"remove", "clear"} \/ (c.at = "upsert" /\ c.role # "ACCOUNTABLE")
          /\ c.user \in Proposals
          /\ c.at = "clear" \/ c.next # Nil => c.role = "ACCOUNTABLE"
      BY <1>2 DEF A!NoCall, A!Unassign
    <2>3. A!Start(r, c)
      BY <1>2 DEF A!Unassign
    <2> QED BY <2>1, <2>2, <2>3, OwnerStart
  <1>3. ASSUME NEW r \in Requests, A!ClearPrior(r)
        PROVE  OwnerInv'
    <2> DEFINE n == [aCall[r] EXCEPT !.at = "upsert"]
    <2>1. aCall[r] \in OwnerCall /\ aCall[r].at = "clear" /\ CallInv(r)
      BY <1>3 DEF A!ClearPrior, OwnerInv, OwnerTypes
    <2>2. /\ n \in OwnerCall /\ n.at = "upsert" /\ n.alone = aCall[r].alone
          /\ n.user \in Proposals /\ n.role = "ACCOUNTABLE"
      BY <2>1 DEF OwnerCall, CallInv
    <2>3. /\ aCall' = [aCall EXCEPT ![r] = n] /\ UNCHANGED aOwner
          /\ aRows' = A!Without("ACCOUNTABLE")
      BY <1>3 DEF A!ClearPrior, A!GoOn, OwnerInv, OwnerTypes
    <2>4. aRows' \in [Proposals -> [A!Roles -> {"none", "scoped", "hidden"}]]
      BY <2>3 DEF A!Without, OwnerInv, OwnerTypes
    <2>5. A!AccountableUsers' \subseteq A!HiddenHeads'
      BY <2>3 DEF A!Without, A!AccountableUsers, A!HiddenHeads, A!Roles, OwnerInv, OwnerTypes
    <2>6. aOwner' \in Proposals \cup {Nil}
      BY <2>3 DEF OwnerInv, OwnerTypes
    <2> QED BY <2>1, <2>2, <2>3, <2>4, <2>5, <2>6, OwnerGoesOn
  <1>4. ASSUME NEW r \in Requests, A!Upsert(r)
        PROVE  OwnerInv'
    <2> DEFINE u == aCall[r].user  ro == aCall[r].role
    <2>1. /\ aCall[r] \in OwnerCall /\ aCall[r].at = "upsert" /\ CallInv(r) /\ AloneAt(r)
          /\ u \in Proposals /\ ro \in A!Roles
      BY <1>4 DEF A!Upsert, OwnerInv, OwnerTypes, OwnerCall, CallInv
    <2>2. CASE A!Fails(r)
      BY <2>2, OwnerFails
    <2>3. CASE ~A!Fails(r)
      <3>1. /\ aRows' = [aRows EXCEPT ![u][ro] = "scoped"] /\ UNCHANGED aOwner
            /\ IF ro = "ACCOUNTABLE" THEN A!GoOn(r, "own") /\ UNCHANGED aCauses ELSE A!Over(r)
        BY <1>4, <2>3 DEF A!Upsert
      <3>2. /\ aRows' \in [Proposals -> [A!Roles -> {"none", "scoped", "hidden"}]]
            /\ aOwner' \in Proposals \cup {Nil}
        BY <2>1, <3>1 DEF OwnerInv, OwnerTypes
      <3>3. CASE ro = "ACCOUNTABLE"
        <4> DEFINE n == [aCall[r] EXCEPT !.at = "own"]
        <4>1. /\ n \in OwnerCall /\ n.at = "own" /\ n.alone = aCall[r].alone
              /\ n.user = u /\ n.role = "ACCOUNTABLE"
          BY <2>1, <3>3 DEF OwnerCall
        <4>2. aCall' = [aCall EXCEPT ![r] = n]
          BY <3>1, <3>3 DEF A!GoOn, OwnerInv, OwnerTypes
        <4>3. /\ A!AccountableUsers' \subseteq A!AccountableUsers \cup {u}
              /\ A!HiddenHeads \subseteq A!HiddenHeads' \cup {u}
          BY <2>1, <3>1, <3>3 DEF A!AccountableUsers, A!HiddenHeads, A!Roles, OwnerInv, OwnerTypes
        <4>4. aCall[r].alone => A!AccountableUsers \subseteq A!HiddenHeads
          BY <2>1, <3>3 DEF AloneAt
        <4> QED BY <2>1, <3>2, <4>1, <4>2, <4>3, <4>4, OwnerGoesOn
      <3>4. CASE ro # "ACCOUNTABLE"
        <4>1. A!AccountableUsers' = A!AccountableUsers /\ A!HiddenHeads' = A!HiddenHeads
          BY <2>1, <3>1, <3>4
          DEF A!AccountableUsers, A!HiddenHeads, A!Roles, OwnerInv, OwnerTypes
        <4>2. /\ aCall' = [aCall EXCEPT ![r] = A!NoCall]
              /\ aCauses' = IF aCall[r].alone THEN aCauses ELSE aCauses \cup {"overlap"}
          BY <3>1, <3>4 DEF A!Over
        <4>3. aCall[r].alone => InStep'
          BY <2>1, <3>1, <3>4, <4>1, <4>2 DEF AloneAt, InStep
        <4>4. ~aCall[r].alone => "overlap" \in aCauses'
          BY <4>2
        <4> QED BY <2>1, <3>2, <4>2, <4>3, <4>4, OwnerEnds
      <3> QED BY <3>3, <3>4
    <2> QED BY <2>2, <2>3
  <1>5. ASSUME NEW r \in Requests, A!Own(r)
        PROVE  OwnerInv'
    <2>1. aCall[r].at = "own" /\ aCall[r].user \in Proposals /\ AloneAt(r)
      BY <1>5 DEF A!Own, OwnerInv, CallInv
    <2>2. /\ aOwner' = aCall[r].user /\ UNCHANGED aRows
          /\ aCall' = [aCall EXCEPT ![r] = A!NoCall]
          /\ aCauses' = IF aCall[r].alone THEN A!Nested(aCall[r].user)
                        ELSE aCauses \cup {"overlap"}
      BY <1>5 DEF A!Own
    <2>3. aCall[r].alone => InStep'
      <3>1. A!AccountableUsers' = A!AccountableUsers /\ A!HiddenHeads' = A!HiddenHeads
        BY <2>2 DEF A!AccountableUsers, A!HiddenHeads
      <3> QED BY <2>1, <2>2, <3>1 DEF AloneAt, InStep, A!Nested
    <2>4. ~aCall[r].alone => "overlap" \in aCauses'
      BY <2>2
    <2>5. aRows' \in [Proposals -> [A!Roles -> {"none", "scoped", "hidden"}]]
      BY <2>2 DEF OwnerInv, OwnerTypes
    <2> QED BY <2>1, <2>2, <2>3, <2>4, <2>5, OwnerEnds
  <1>6. ASSUME NEW r \in Requests, A!Remove(r)
        PROVE  OwnerInv'
    <2> DEFINE u == aCall[r].user  ro == aCall[r].role
    <2>1. /\ aCall[r] \in OwnerCall /\ aCall[r].at = "remove" /\ CallInv(r) /\ AloneAt(r)
          /\ u \in Proposals /\ ro \in A!Roles
      BY <1>6 DEF A!Remove, OwnerInv, OwnerTypes, OwnerCall, CallInv
    <2>2. CASE A!Fails(r)
      BY <2>2, OwnerFails
    <2>3. CASE ~A!Fails(r)
      <3>1. /\ A!Sees(u, ro)
            /\ aRows' = [aRows EXCEPT ![u][ro] = "none"] /\ UNCHANGED aOwner
            /\ IF ro = "ACCOUNTABLE" THEN A!GoOn(r, "disown") /\ UNCHANGED aCauses ELSE A!Removed(r)
        BY <1>6, <2>3 DEF A!Remove
      <3>2. /\ aRows' \in [Proposals -> [A!Roles -> {"none", "scoped", "hidden"}]]
            /\ aOwner' \in Proposals \cup {Nil}
        BY <2>1, <3>1 DEF OwnerInv, OwnerTypes
      <3>3. aCall[r].alone => InStep
        BY <2>1 DEF AloneAt
      <3>4. CASE ro = "ACCOUNTABLE"
        <4> DEFINE n == [aCall[r] EXCEPT !.at = "disown"]
        <4>1. /\ n \in OwnerCall /\ n.at = "disown" /\ n.alone = aCall[r].alone
              /\ n.user = u /\ n.role = "ACCOUNTABLE"
          BY <2>1, <3>4 DEF OwnerCall
        <4>2. aCall' = [aCall EXCEPT ![r] = n] /\ UNCHANGED aCauses
          BY <3>1, <3>4 DEF A!GoOn, OwnerInv, OwnerTypes
        <4>3. /\ u \in A!AccountableUsers \ A!HiddenHeads
              /\ A!AccountableUsers' = A!AccountableUsers \ {u} /\ A!HiddenHeads' = A!HiddenHeads
          BY <2>1, <3>1, <3>4
          DEF A!AccountableUsers, A!HiddenHeads, A!Sees, A!Roles, OwnerInv, OwnerTypes
        <4>4. aCall[r].alone => NoHeads'
          BY <3>3, <4>2, <4>3 DEF InStep, NoHeads
        <4> QED BY <2>1, <3>2, <4>1, <4>2, <4>4, OwnerGoesOn
      <3>5. CASE ro # "ACCOUNTABLE"
        <4>1. A!AccountableUsers' = A!AccountableUsers /\ A!HiddenHeads' = A!HiddenHeads
          BY <2>1, <3>1, <3>5
          DEF A!AccountableUsers, A!HiddenHeads, A!Sees, A!Roles, OwnerInv, OwnerTypes
        <4>2. aCall[r].alone /\ aCauses' = aCauses => InStep'
          BY <3>1, <3>3, <4>1 DEF InStep
        <4> QED BY <2>1, <3>1, <3>2, <3>5, <4>2, OwnerRemoved
      <3> QED BY <3>4, <3>5
    <2> QED BY <2>2, <2>3
  <1>7. ASSUME NEW r \in Requests, A!Disown(r)
        PROVE  OwnerInv'
    <2>1. /\ aCall[r].at = "disown" /\ AloneAt(r)
          /\ aOwner' = Nil /\ A!Removed(r) /\ UNCHANGED aRows
      BY <1>7 DEF A!Disown, OwnerInv
    <2>2. aCall[r].alone /\ aCauses' = aCauses => InStep'
      BY <2>1 DEF AloneAt, InStep, NoHeads, A!AccountableUsers, A!HiddenHeads
    <2>3. aRows' \in [Proposals -> [A!Roles -> {"none", "scoped", "hidden"}]]
      BY <2>1 DEF OwnerInv, OwnerTypes
    <2> QED BY <2>1, <2>2, <2>3, OwnerRemoved
  <1>8. ASSUME NEW r \in Requests, A!Mishap(r)
        PROVE  OwnerInv'
    BY <1>8, OwnerFails DEF A!Mishap
  <1>9. ASSUME NEW u \in Proposals, NEW from \in A!Roles, NEW to \in A!Roles, A!ChangeRole(u, from, to)
        PROVE  OwnerInv'
    <2>1. /\ from # to /\ A!Sees(u, from)
          /\ aRows' = [aRows EXCEPT ![u][from] = "none", ![u][to] = "scoped"]
          /\ aOwner' = IF to = "ACCOUNTABLE" THEN u ELSE IF from = "ACCOUNTABLE" THEN Nil ELSE aOwner
          /\ aCauses' = IF to = "ACCOUNTABLE" /\ A!AccountableUsers \ {u} # {}
                        THEN aCauses \cup {"promoted"} ELSE aCauses
          /\ aCall' = A!Disturbed
      BY <1>9 DEF A!ChangeRole
    <2>2. /\ aRows' \in [Proposals -> [A!Roles -> {"none", "scoped", "hidden"}]]
          /\ aOwner' \in Proposals \cup {Nil}
      BY <2>1 DEF OwnerInv, OwnerTypes
    <2>3. /\ A!AccountableUsers' = IF to = "ACCOUNTABLE" THEN A!AccountableUsers \cup {u}
                                   ELSE A!AccountableUsers \ {u}
          /\ A!HiddenHeads' \cup {u} = A!HiddenHeads \cup {u}
      BY <2>1 DEF A!AccountableUsers, A!HiddenHeads, A!Sees, A!Roles, OwnerInv, OwnerTypes
    <2>4. A!Idle => InStep
      BY DEF OwnerInv, A!AccountableOwns, InStep
    <2>5. A!Idle => InStep'
      <3>1. from = "ACCOUNTABLE" => u \in A!AccountableUsers \ A!HiddenHeads
        BY <2>1 DEF A!AccountableUsers, A!HiddenHeads, A!Sees, A!Accountable
      <3>2. to = "ACCOUNTABLE" \/ from = "ACCOUNTABLE"
        BY <2>1 DEF A!Roles
      <3> QED BY <2>1, <2>3, <2>4, <3>1, <3>2 DEF InStep
    <2> QED BY <2>1, <2>2, <2>5, OwnerAtOnce
  <1>10. ASSUME NEW list \in [Proposals -> SUBSET A!Roles], A!Replace(list)
         PROVE  OwnerInv'
    <2> DEFINE heads == {u \in Proposals : "ACCOUNTABLE" \in list[u]}
    <2>1. /\ aRows' = [u \in Proposals |-> [ro \in A!Roles |->
                          IF ro \in list[u] THEN "scoped"
                          ELSE IF A!Sees(u, ro) THEN "none" ELSE aRows[u][ro]]]
          /\ aOwner' \in IF heads = {} THEN {Nil} ELSE heads
          /\ aCauses' = A!Several(heads) \cup A!Nested(aOwner')
          /\ aCall' = A!Disturbed
      BY <1>10 DEF A!Replace
    <2>2. /\ aRows' \in [Proposals -> [A!Roles -> {"none", "scoped", "hidden"}]]
          /\ aOwner' \in Proposals \cup {Nil}
      BY <2>1 DEF OwnerInv, OwnerTypes
    <2>3. A!HiddenHeads' = A!HiddenHeads /\ A!AccountableUsers' = heads \cup A!HiddenHeads
      <3>1. \A u \in heads : ~(aRows[u]["ACCOUNTABLE"] = "hidden")
        BY <1>10 DEF A!Replace, A!Fits, A!Roles
      <3> QED BY <2>1, <3>1 DEF A!AccountableUsers, A!HiddenHeads, A!Sees, A!Roles, OwnerInv, OwnerTypes
    <2>4. InStep'
      <3>1. aCauses' \subseteq {"nested"} => heads \subseteq {aOwner'}
        BY <2>1 DEF A!Several
      <3>2. aCauses' = {} => A!HiddenHeads \subseteq {aOwner'}
        BY <2>1 DEF A!Nested
      <3> QED BY <2>3, <3>1, <3>2 DEF InStep
    <2> QED BY <2>1, <2>2, <2>4, OwnerAtOnce
  <1>11. ASSUME NEW u \in Proposals, A!SetOwner(u)
         PROVE  OwnerInv'
    <2>1. /\ aOwner' = u /\ UNCHANGED aRows /\ aCall' = A!Disturbed
          /\ aCauses' = IF A!AccountableUsers \subseteq {u} THEN aCauses ELSE aCauses \cup {"owner"}
      BY <1>11 DEF A!SetOwner
    <2>2. A!Idle => InStep'
      <3>1. A!AccountableUsers' = A!AccountableUsers /\ A!HiddenHeads' = A!HiddenHeads
        BY <2>1 DEF A!AccountableUsers, A!HiddenHeads
      <3>2. "owner" \in aCauses' \/ A!AccountableUsers \subseteq {u}
        BY <2>1
      <3> QED BY <2>1, <3>1, <3>2 DEF InStep
    <2>3. aRows' \in [Proposals -> [A!Roles -> {"none", "scoped", "hidden"}]]
      BY <2>1 DEF OwnerInv, OwnerTypes
    <2> QED BY <2>1, <2>2, <2>3, OwnerAtOnce
  <1>12. CASE A!Restart
    <2>1. A!NoCall \in OwnerCall /\ A!NoCall.at = "none" /\ A!NoCall.next = Nil
      BY DEF A!NoCall, A!Roles, OwnerCall
    <2>2. \A q \in Requests : aCall'[q] = A!NoCall
      BY <1>12 DEF A!Restart
    <2>3. OwnerTypes' /\ \A q \in Requests : CallInv(q)' /\ AloneAt(q)'
      BY <1>12, <2>1, <2>2 DEF A!Restart, OwnerInv, OwnerTypes, CallInv, AloneAt
    <2>4. aCauses' \subseteq {"nested"} => A!Idle /\ aCauses' = aCauses
      BY <1>12 DEF A!Restart
    <2>5. A!AccountableUsers' = A!AccountableUsers /\ A!HiddenHeads' = A!HiddenHeads /\ UNCHANGED aOwner
      BY <1>12 DEF A!Restart, A!AccountableUsers, A!HiddenHeads
    <2>6. A!AccountableOwns'
      BY <2>4, <2>5 DEF OwnerInv, A!AccountableOwns
    <2> QED BY <2>3, <2>6 DEF OwnerInv
  <1> QED BY <1>1, <1>2, <1>3, <1>4, <1>5, <1>6, <1>7, <1>8, <1>9, <1>10, <1>11, <1>12 DEF A!Next

LEMMA OwnerSame == OwnerInv /\ UNCHANGED avars => OwnerInv'
  BY DEF avars, OwnerInv, OwnerTypes, CallInv, AloneAt, InStep, NoHeads, A!AccountableOwns,
         A!AccountableUsers, A!HiddenHeads, A!Idle

(* Who is accountable for an initiative owns it (Accountability), whenever *)
(* no request is under way and none of the six causes has set them apart;  *)
(* and but for rows that came with the initiative, if only these have.     *)
THEOREM AccountableIsOwner == MCSpec => []AccountableOwns
  <1>1. MCInit => OwnerInv
    BY OwnerInit DEF MCInit
  <1>2. OwnerInv /\ [MCNext]_allvars => OwnerInv'
    BY OwnerNext, OwnerSame
    DEF MCNext, Proposals_, Files_, SignIn_, Panel_, Cards_, Owners_, Board_, allvars
  <1>3. OwnerInv => AccountableOwns
    BY DEF OwnerInv, AccountableOwns
  <1> QED BY <1>1, <1>2, <1>3, PTL DEF MCSpec

-----------------------------------------------------------------------------
(* A save overwrites what its author had seen (InitiativePanel).           *)

(* A copy of the initiative is no newer than the row, and of a row of its  *)
(* revision it has the values.                                             *)
IsCopy(copy) == copy.rev <= iRow.rev /\ (copy.rev = iRow.rev => copy.val = iRow.val)

(* What a save had seen is what the row of its base says, unless the form  *)
(* had kept older values; and from the comparison on its base is the row,  *)
(* until another change comes.                                             *)
SaveInv ==
    iSave.at # "idle" =>
        /\ iSave.base <= iRow.rev
        /\ ~iSave.half /\ iSave.base = iRow.rev => iSave.seen = iRow.val
        /\ iSave.at = "checked" /\ ~iSave.raced => iSave.base = iRow.rev

PanelInv ==
    /\ I!TypeOK
    /\ IsCopy(iList)
    /\ iDisplay # Nil => IsCopy(iDisplay)
    /\ \A c \in I!Calls : iCalls[c].at = "answered" => IsCopy(iCalls[c].row)
    /\ SaveInv
    /\ I!ChangesAreSeen

LEMMA PanelFirst ==
    /\ I!First \in I!Row /\ I!NoCall \in I!Call /\ I!NoSave \in I!Save
    /\ I!NoCall.at = "none" /\ I!NoSave.at = "idle"
  BY ServicesAssumption
  DEF I!First, I!Row, I!Revs, I!Groups, I!NoCall, I!Call, I!NoSave, I!Save

LEMMA PanelInit == I!Init => PanelInv
  <1> SUFFICES ASSUME I!Init PROVE PanelInv
    OBVIOUS
  <1>1. I!TypeOK
    BY PanelFirst, ServicesAssumption DEF I!Init, I!TypeOK, I!First, I!Row, I!Revs, I!Losses
  <1>2. IsCopy(iList)
    BY <1>1, ServicesAssumption DEF I!Init, IsCopy, I!TypeOK, I!Row, I!Revs
  <1> QED BY <1>1, <1>2, PanelFirst DEF I!Init, PanelInv, SaveInv, I!ChangesAreSeen

(* The copy in the panel is a copy. *)
LEMMA PanelCurrent ==
  ASSUME PanelInv
  PROVE  I!Current \in I!Row /\ IsCopy(I!Current)
  BY DEF PanelInv, I!TypeOK, I!Current, I!Copy

(* Nothing happens to the row, and the save goes on as it was. *)
LEMMA PanelKeeps ==
  ASSUME PanelInv, I!TypeOK', UNCHANGED <<iRow, iLost>>,
         iList' = iList \/ (iCalls["list"].at = "answered" /\ iList' = iCalls["list"].row),
         \/ iDisplay' \in {iDisplay, Nil}
         \/ iCalls["display"].at = "answered" /\ iDisplay' = iCalls["display"].row,
         \A c \in I!Calls : iCalls'[c].at = "answered" =>
            iCalls'[c] = iCalls[c] \/ iCalls'[c].row = iRow,
         iSave' = iSave \/ SaveInv'
  PROVE  PanelInv'
  <1>1. IsCopy(iRow)
    BY DEF PanelInv, I!TypeOK, I!Row, I!Revs, IsCopy
  <1>2. "list" \in I!Calls /\ "display" \in I!Calls
    BY DEF I!Calls
  <1>3. IsCopy(iList)' /\ (iDisplay' # Nil => IsCopy(iDisplay)')
    BY <1>2 DEF PanelInv, IsCopy
  <1>4. \A c \in I!Calls : iCalls'[c].at = "answered" => IsCopy(iCalls[c].row)'
    BY <1>1 DEF PanelInv, IsCopy
  <1>5. SaveInv'
    BY DEF PanelInv, SaveInv
  <1> QED BY <1>3, <1>4, <1>5 DEF PanelInv, I!ChangesAreSeen

(* A new copy in the panel leaves the types. *)
LEMMA PanelShow ==
  ASSUME PanelInv, NEW d \in I!Row \cup {Nil}, NEW l \in I!Row, I!Show(d, l)
  PROVE  /\ iDisplay' = d /\ iList' = l
         /\ iForm' \in [I!Groups -> I!Revs \cup {Nil}]
         /\ iSeen' \in [I!Groups -> I!Revs]
         /\ iDirty' \in BOOLEAN /\ iConflict' \in BOOLEAN
  <1>1. I!Copy(d, l) \in I!Row
    BY DEF I!Copy
  <1>2. I!Copy(d, l).val \in [I!Groups -> I!Revs]
    BY <1>1 DEF I!Row
  <1>3. /\ iForm' \in {iForm, I!Copy(d, l).val}
        /\ iSeen' \in {iSeen, I!Copy(d, l).val}
        /\ iDirty' \in {iDirty, FALSE} /\ iConflict' \in {iConflict, FALSE}
    BY DEF I!Show, I!TakeOver
  <1> QED BY <1>2, <1>3 DEF I!Show, PanelInv, I!TypeOK

LEMMA PanelNext == PanelInv /\ I!Next => PanelInv'
  <1> SUFFICES ASSUME PanelInv, I!Next PROVE PanelInv'
    OBVIOUS
  <1>0. I!TypeOK /\ SaveInv
    BY DEF PanelInv
  <1>c. "list" \in I!Calls /\ "display" \in I!Calls
    BY DEF I!Calls
  <1>z. 0 \in I!Revs
    BY ServicesAssumption DEF I!Revs
  <1>1. CASE I!Open
    <2>0. I!Current.val \in [I!Groups -> I!Revs]
      BY PanelCurrent DEF I!Row
    <2>1. I!TypeOK'
      BY <1>1, <1>0, <1>c, <1>z, <2>0 DEF I!Open, I!Ask, I!TypeOK, I!Call
    <2> QED BY <1>1, <2>1, <1>0, <1>c, PanelKeeps DEF I!Open, I!Ask, I!TypeOK, I!Call
  <1>2. CASE I!Close
    <2>1. I!TypeOK'
      BY <1>2, <1>0, <1>c, <1>z, PanelFirst DEF I!Close, I!Done, I!TypeOK
    <2> QED BY <1>2, <2>1, <1>0, <1>c, PanelFirst, PanelKeeps DEF I!Close, I!Done, I!TypeOK
  <1>3. CASE I!StartSave
    <2>1. iSave' = [at |-> "sent", base |-> I!Current.rev, form |-> iForm, seen |-> iSeen,
                    half |-> iSeen # I!Current.val, raced |-> FALSE]
      BY <1>3 DEF I!StartSave
    <2>2. iSave' \in I!Save
      BY <1>0, <2>1, PanelCurrent DEF I!TypeOK, I!Save, I!Row
    <2>3. I!TypeOK'
      BY <1>3, <1>0, <2>2 DEF I!StartSave, I!TypeOK
    <2>4. SaveInv'
      <3>1. /\ iSave'.at = "sent" /\ iSave'.base = I!Current.rev /\ iSave'.seen = iSeen
            /\ ~iSave'.half => iSeen = I!Current.val
        BY <2>1
      <3>2. UNCHANGED iRow
        BY <1>3 DEF I!StartSave
      <3> QED BY <3>1, <3>2, PanelCurrent DEF SaveInv, IsCopy
    <2> QED BY <1>3, <2>3, <2>4, PanelKeeps DEF I!StartSave
  <1>4. CASE I!Check
    <2>1. iSave' \in {[iSave EXCEPT !.at = "checked"], I!NoSave}
      BY <1>4 DEF I!Check
    <2>2. I!TypeOK'
      BY <1>4, <1>0, <2>1, PanelFirst DEF I!Check, I!TypeOK, I!Save
    <2>3. SaveInv'
      BY <1>4, <1>0, PanelFirst DEF I!Check, I!TypeOK, I!Save, SaveInv
    <2> QED BY <1>4, <2>2, <2>3, PanelKeeps DEF I!Check
  <1>5. CASE I!Write
    <2>1. PICK n \in I!Revs, stored \in [I!Groups -> I!Revs] :
             /\ n = iRow.rev + 1 /\ iRow' = [rev |-> n, val |-> stored] /\ iDisplay' = iRow'
             /\ iForm' \in [I!Groups -> I!Revs \cup {Nil}]
             /\ iSeen' \in [I!Groups -> I!Revs]
      <3> DEFINE m == iRow.rev + 1
                 st == [f \in I!Groups |-> IF iSave.form[f] = Nil THEN m ELSE iSave.form[f]]
                 new == [rev |-> m, val |-> st]
                 agrees == [f \in I!Groups |-> iForm[f] = iSave.form[f]]
      <3>1. m \in I!Revs
        BY <1>5, <1>0, ServicesAssumption DEF I!Write, I!TypeOK, I!Row, I!Revs
      <3>2. st \in [I!Groups -> I!Revs]
        BY <1>0, <3>1 DEF I!TypeOK, I!Save
      <3>3. /\ iRow' = new /\ iDisplay' = new
            /\ IF new.val["watched"] # I!Current.val["watched"]
               THEN iForm' = new.val /\ iSeen' = new.val
               ELSE /\ iForm' = [f \in I!Groups |-> IF agrees[f] THEN st[f] ELSE iForm[f]]
                    /\ iSeen' = [f \in I!Groups |-> IF agrees[f] THEN st[f] ELSE iSeen[f]]
        BY <1>5 DEF I!Write
      <3>4. iForm' \in [I!Groups -> I!Revs \cup {Nil}] /\ iSeen' \in [I!Groups -> I!Revs]
        BY <1>0, <3>2, <3>3 DEF I!TypeOK
      <3> QED BY <3>1, <3>2, <3>3, <3>4
    <2>2. /\ iSave.at = "checked" /\ iCalls' = [iCalls EXCEPT !["list"].at = "sent"]
          /\ iDirty' = FALSE /\ iConflict' = FALSE /\ iEvents' = TRUE /\ iSave' = I!NoSave
          /\ UNCHANGED <<iList, iOpen, iPending, iReloaded>>
      BY <1>5 DEF I!Write, I!Ask
    <2>3. iLost' \subseteq I!Losses /\ I!ChangesAreSeen'
      <3>1. ~iSave.raced /\ ~iSave.half => iRow.val = iSave.seen
        BY <1>0, <2>2 DEF SaveInv
      <3> QED BY <1>5, <1>0, <3>1 DEF I!Write, I!TypeOK, I!Losses, PanelInv, I!ChangesAreSeen
    <2>4. iRow' \in I!Row
      BY <2>1 DEF I!Row
    <2>5. I!TypeOK'
      BY <1>0, <1>c, <2>1, <2>2, <2>3, <2>4, PanelFirst DEF I!TypeOK, I!Call
    <2>6. \A x \in I!Row : IsCopy(x) => x.rev < iRow'.rev
      BY <1>0, <2>1 DEF I!TypeOK, IsCopy, I!Row, I!Revs
    <2>7. \A x \in I!Row : IsCopy(x) => IsCopy(x)'
      BY <2>1, <2>6 DEF IsCopy, I!Row, I!Revs
    <2>8. /\ IsCopy(iList)' /\ (iDisplay' # Nil => IsCopy(iDisplay)')
          /\ \A c \in I!Calls : iCalls'[c].at = "answered" => IsCopy(iCalls[c].row)'
      <3>1. IsCopy(iRow)'
        BY <2>1 DEF IsCopy, I!Revs
      <3>2. IsCopy(iDisplay)'
        BY <2>1, <3>1 DEF IsCopy
      <3>3. IsCopy(iList)'
        BY <1>0, <2>2, <2>7 DEF PanelInv, I!TypeOK, IsCopy
      <3>4. ASSUME NEW c \in I!Calls, iCalls'[c].at = "answered" PROVE IsCopy(iCalls[c].row)'
        <4>1. iCalls'[c] = iCalls[c] /\ iCalls[c].row \in I!Row
          BY <1>0, <2>2, <3>4 DEF I!TypeOK, I!Call
        <4> QED BY <2>7, <3>4, <4>1 DEF PanelInv, IsCopy
      <3> QED BY <3>2, <3>3, <3>4
    <2> QED BY <2>2, <2>3, <2>5, <2>8, PanelFirst DEF PanelInv, SaveInv
  <1>6. CASE I!LandList
    <2>1. iCalls["list"].row \in I!Row /\ iDisplay \in I!Row \cup {Nil}
      BY <1>0, <1>c DEF I!TypeOK, I!Call
    <2>2. /\ iDisplay' = iDisplay /\ iList' = iCalls["list"].row
          /\ iForm' \in [I!Groups -> I!Revs \cup {Nil}]
          /\ iSeen' \in [I!Groups -> I!Revs]
          /\ iDirty' \in BOOLEAN /\ iConflict' \in BOOLEAN
      BY <1>6, <2>1, PanelShow DEF I!LandList
    <2>3. I!TypeOK'
      BY <1>6, <1>0, <2>1, <2>2, PanelFirst DEF I!LandList, I!Done, I!TypeOK
    <2> QED BY <1>6, <1>0, <2>2, <2>3, PanelFirst, PanelKeeps DEF I!LandList, I!Done, I!TypeOK
  <1>7. CASE I!LandDisplay
    <2>1. iCalls["display"].row \in I!Row /\ iList \in I!Row
      BY <1>0, <1>c DEF I!TypeOK, I!Call
    <2>2. /\ iDisplay' = iCalls["display"].row /\ iList' = iList
          /\ iForm' \in [I!Groups -> I!Revs \cup {Nil}]
          /\ iSeen' \in [I!Groups -> I!Revs]
          /\ iDirty' \in BOOLEAN /\ iConflict' \in BOOLEAN
      BY <1>7, <2>1, PanelShow DEF I!LandDisplay
    <2>3. I!TypeOK'
      BY <1>7, <1>0, <2>1, <2>2, PanelFirst DEF I!LandDisplay, I!Done, I!TypeOK
    <2> QED BY <1>7, <1>0, <2>2, <2>3, PanelFirst, PanelKeeps DEF I!LandDisplay, I!Done, I!TypeOK
  <1>8. CASE I!HubEvent \/ I!Refresh \/ I!Reload
    <2>1. iReloaded' \in I!Revs
      BY <1>8, <1>0 DEF I!HubEvent, I!Refresh, I!Reload, I!TypeOK, I!Row
    <2>2. iCalls' = iCalls \/ iCalls' = [iCalls EXCEPT !["list"].at = "sent"]
      BY <1>8 DEF I!HubEvent, I!Refresh, I!Reload, I!Ask
    <2>3. I!TypeOK'
      BY <1>8, <1>0, <1>c, <2>1, <2>2 DEF I!HubEvent, I!Refresh, I!Reload, I!TypeOK, I!Call
    <2> QED BY <1>8, <1>0, <1>c, <2>2, <2>3, PanelKeeps
            DEF I!HubEvent, I!Refresh, I!Reload, I!TypeOK, I!Call
  <1>9. CASE I!LoseEvent \/ I!Dismiss \/ \E f \in I!Groups : I!Edit(f)
    <2>1. I!TypeOK'
      BY <1>9, <1>0 DEF I!LoseEvent, I!Dismiss, I!Edit, I!TypeOK
    <2> QED BY <1>9, <2>1, PanelKeeps DEF I!LoseEvent, I!Dismiss, I!Edit
  <1>10. ASSUME NEW f \in I!Groups, I!Other(f)
         PROVE  PanelInv'
    <2>1. iRow' \in I!Row /\ iRow'.rev = iRow.rev + 1
      BY <1>10, <1>0, ServicesAssumption DEF I!Other, I!TypeOK, I!Row, I!Revs
    <2>2. iSave' = [iSave EXCEPT !.raced = iSave.at = "checked"] /\ iSave' \in I!Save
      BY <1>10, <1>0 DEF I!Other, I!TypeOK, I!Save
    <2>3. I!TypeOK'
      BY <1>10, <1>0, <2>1, <2>2 DEF I!Other, I!TypeOK
    <2>4. \A x \in I!Row : IsCopy(x) => IsCopy(x)'
      BY <1>0, <2>1 DEF IsCopy, I!TypeOK, I!Row, I!Revs
    <2>5. IsCopy(iList)' /\ (iDisplay' # Nil => IsCopy(iDisplay)')
      BY <1>10, <1>0, <2>4 DEF I!Other, PanelInv, I!TypeOK, IsCopy
    <2>6. ASSUME NEW c \in I!Calls, iCalls'[c].at = "answered" PROVE IsCopy(iCalls[c].row)'
      <3>1. iCalls' = iCalls /\ iCalls[c].row \in I!Row
        BY <1>10, <1>0 DEF I!Other, I!TypeOK, I!Call
      <3> QED BY <2>4, <2>6, <3>1 DEF PanelInv, IsCopy
    <2>7. SaveInv'
      BY <1>0, <2>1, <2>2 DEF SaveInv, I!TypeOK, I!Save, I!Row, I!Revs
    <2> QED BY <1>10, <2>3, <2>5, <2>6, <2>7 DEF I!Other, PanelInv, I!ChangesAreSeen
  <1>11. ASSUME NEW c \in I!Calls, I!Answer(c) \/ I!Fail(c)
         PROVE  PanelInv'
    <2>1. iCalls' = [iCalls EXCEPT ![c] = [at |-> "answered", row |-> iRow]]
             \/ iCalls' = [iCalls EXCEPT ![c] = I!NoCall]
      BY <1>11 DEF I!Answer, I!Fail, I!Done
    <2>2. [at |-> "answered", row |-> iRow] \in I!Call
      BY <1>0 DEF I!TypeOK, I!Call
    <2>3. I!TypeOK'
      BY <1>11, <1>0, <2>1, <2>2, PanelFirst DEF I!Answer, I!Fail, I!TypeOK
    <2> QED BY <1>11, <1>0, <2>1, <2>3, PanelFirst, PanelKeeps DEF I!Answer, I!Fail, I!TypeOK
  <1> QED BY <1>1, <1>2, <1>3, <1>4, <1>5, <1>6, <1>7, <1>8, <1>9, <1>10, <1>11 DEF I!Next

LEMMA PanelSame == PanelInv /\ UNCHANGED ivars => PanelInv'
  BY DEF ivars, PanelInv, I!TypeOK, IsCopy, SaveInv, I!ChangesAreSeen

(* A save writes over a change that its author had not seen                *)
(* (InitiativePanel) only if the change came between the server's          *)
(* comparison and its write, or if the form had kept older values than the *)
(* copy whose updatedAt it sends.                                          *)
THEOREM SavesOverwriteTheSeen == MCSpec => []ChangesAreSeen
  <1>1. MCInit => PanelInv
    BY PanelInit DEF MCInit
  <1>2. PanelInv /\ [MCNext]_allvars => PanelInv'
    BY PanelNext, PanelSame
    DEF MCNext, Proposals_, Files_, SignIn_, Panel_, Cards_, Owners_, Board_, allvars
  <1>3. PanelInv => ChangesAreSeen
    BY DEF PanelInv, ChangesAreSeen
  <1> QED BY <1>1, <1>2, <1>3, PTL DEF MCSpec

-----------------------------------------------------------------------------
(* The ranks of finitely many things that have an order.                   *)

(* A strict order of all ids. *)
Orders(ord, ids) ==
    /\ \A x \in ids : <<x, x>> \notin ord
    /\ \A x, y \in ids : x # y => <<x, y>> \in ord \/ <<y, x>> \in ord
    /\ \A x, y, z \in ids : <<x, y>> \in ord /\ <<y, z>> \in ord => <<x, z>> \in ord

RankIn(ids, ord, x) == Cardinality({y \in ids : <<y, x>> \in ord})

Ranked(ids, ord) ==
    /\ Cardinality(ids) \in Nat
    /\ \A x \in ids : RankIn(ids, ord, x) \in Nat /\ RankIn(ids, ord, x) < Cardinality(ids)
    /\ \A x, y \in ids : <<x, y>> \in ord => RankIn(ids, ord, x) < RankIn(ids, ord, y)
    /\ \A x, y \in ids : RankIn(ids, ord, x) = RankIn(ids, ord, y) => x = y
    /\ \A n \in Nat : n < Cardinality(ids) => \E x \in ids : RankIn(ids, ord, x) = n

(* Ranks tell the elements of a finite set apart, are those below its size,*)
(* and each of these is the rank of one.                                   *)
LEMMA Ranks ==
    ASSUME NEW ids, IsFiniteSet(ids), NEW ord, Orders(ord, ids)
    PROVE  Ranked(ids, ord)
<1> DEFINE N == Cardinality(ids)
           Below(x) == {y \in ids : <<y, x>> \in ord}
           T == 0 .. (N - 1)
           rank == [x \in ids |-> Cardinality(Below(x))]
<1>1. N \in Nat
  BY FS_CardinalityType
<1>2. ASSUME NEW x \in ids
      PROVE  /\ IsFiniteSet(Below(x)) /\ Cardinality(Below(x)) \in Nat
             /\ IsFiniteSet(Below(x) \cup {x})
             /\ Cardinality(Below(x) \cup {x}) = Cardinality(Below(x)) + 1
             /\ Cardinality(Below(x) \cup {x}) <= N
  <2>1. Below(x) \in SUBSET ids /\ Below(x) \cup {x} \in SUBSET ids /\ x \notin Below(x)
    BY DEF Orders
  <2>2. IsFiniteSet(Below(x)) /\ IsFiniteSet(Below(x) \cup {x})
    BY <2>1, FS_Subset
  <2>3. Cardinality(Below(x)) \in Nat
    BY <2>2, FS_CardinalityType
  <2>4. Cardinality(Below(x) \cup {x}) = Cardinality(Below(x)) + 1
    BY <2>1, <2>2, FS_AddElement
  <2>5. Cardinality(Below(x) \cup {x}) <= N
    BY <2>1, FS_Subset
  <2> QED BY <2>2, <2>3, <2>4, <2>5
<1>3. ASSUME NEW x \in ids, NEW y \in ids, <<x, y>> \in ord
      PROVE  rank[x] < rank[y]
  <2>1. Below(x) \cup {x} \in SUBSET Below(y)
    BY <1>3 DEF Orders
  <2>2. Cardinality(Below(x) \cup {x}) <= Cardinality(Below(y))
    BY <1>2, <2>1, FS_Subset
  <2>3. Cardinality(Below(x)) + 1 <= Cardinality(Below(y))
    BY <1>2, <2>2
  <2>4. rank[x] = Cardinality(Below(x)) /\ rank[y] = Cardinality(Below(y))
    OBVIOUS
  <2>5. Cardinality(Below(x)) \in Nat /\ Cardinality(Below(y)) \in Nat
    BY <1>2
  <2> HIDE DEF Below, rank
  <2> QED BY <2>3, <2>4, <2>5
<1>4. \A x, y \in ids : rank[x] = rank[y] => x = y
  <2> SUFFICES ASSUME NEW x \in ids, NEW y \in ids, rank[x] = rank[y], x # y PROVE FALSE
    OBVIOUS
  <2>1. rank[x] \in Nat /\ rank[y] \in Nat
    BY <1>2
  <2>2. <<x, y>> \in ord \/ <<y, x>> \in ord
    BY DEF Orders
  <2>3. rank[x] < rank[y] \/ rank[y] < rank[x]
    BY <1>3, <2>2
  <2> HIDE DEF rank
  <2> QED BY <2>1, <2>3
<1>5. rank \in Injection(ids, T)
  <2>1. \A x \in ids : rank[x] \in T
    <3> TAKE x \in ids
    <3>1. rank[x] = Cardinality(Below(x))
      OBVIOUS
    <3>2. Cardinality(Below(x)) \in Nat /\ Cardinality(Below(x)) + 1 <= N
      BY <1>2
    <3> HIDE DEF Below, rank
    <3> QED BY <1>1, <3>1, <3>2
  <2>2. rank \in [ids -> T]
    BY <2>1
  <2> HIDE DEF rank
  <2> QED BY <1>4, <2>2 DEF Injection, IsInjective
<1>6. IsFiniteSet(T) /\ Cardinality(T) = N
  BY <1>1, FS_Interval
<1>7. rank \in Surjection(ids, T)
  <2> HIDE DEF rank, T
  <2> QED BY <1>5, <1>6, FS_Injection
<1>8. ASSUME NEW n \in Nat, n < N PROVE \E x \in ids : rank[x] = n
  <2>1. n \in T
    BY <1>1, <1>8
  <2> QED BY <1>7, <2>1 DEF Surjection
<1>9. \A x \in ids : rank[x] = RankIn(ids, ord, x)
  BY DEF RankIn
<1>10. \A x \in ids : rank[x] \in Nat /\ rank[x] < N
  <2> TAKE x \in ids
  <2>1. rank[x] = Cardinality(Below(x)) /\ Cardinality(Below(x)) \in Nat
        /\ Cardinality(Below(x)) + 1 <= N
    BY <1>2
  <2> HIDE DEF Below, rank
  <2> QED BY <1>1, <2>1
<1> HIDE DEF rank, Below, T
<1> QED BY <1>1, <1>3, <1>4, <1>8, <1>9, <1>10 DEF Ranked

-----------------------------------------------------------------------------
(* A full import gives back the export (ImportExport).                     *)

LEMMA FileSizes == \A ids : X!Cardinality(ids) = Cardinality(ids)
  BY DEF X!Cardinality, Cardinality

(* The n-th of a finite set of ids is one of them, and there are n before  *)
(* it.                                                                     *)
LEMMA NthOne ==
    ASSUME NEW ids, ids \subseteq Nat, IsFiniteSet(ids), NEW n \in Nat, n < Cardinality(ids)
    PROVE  X!Nth(ids, n) \in ids /\ X!Before(ids, X!Nth(ids, n)) = n
<1> DEFINE ord == {p \in Nat \X Nat : p[1] < p[2]}
<1>1. \A x, y \in ids : <<x, y>> \in ord <=> x < y
  OBVIOUS
<1>2. Orders(ord, ids)
  BY <1>1 DEF Orders
<1>3. \A x \in ids : X!Before(ids, x) = RankIn(ids, ord, x)
  <2> TAKE x \in ids
  <2>1. {y \in ids : y < x} = {y \in ids : <<y, x>> \in ord}
    BY <1>1
  <2> QED BY <2>1, FileSizes DEF X!Before, RankIn
<1>4. \E x \in ids : X!Before(ids, x) = n
  <2>1. Ranked(ids, ord)
    BY <1>2, Ranks
  <2> HIDE DEF ord
  <2> QED BY <1>3, <2>1 DEF Ranked
<1>5. X!Nth(ids, n) = CHOOSE x \in ids : X!Before(ids, x) = n
  BY DEF X!Nth
<1> QED BY <1>4, <1>5

LEMMA BeforeOne ==
    ASSUME NEW ids, ids \subseteq Nat, IsFiniteSet(ids), NEW x \in ids
    PROVE  /\ X!Before(ids, x) \in Nat /\ X!Before(ids, x) < Cardinality(ids)
           /\ \A y \in ids : X!Before(ids, x) = X!Before(ids, y) => x = y
<1> DEFINE ord == {p \in Nat \X Nat : p[1] < p[2]}
<1>1. \A y, z \in ids : <<y, z>> \in ord <=> y < z
  OBVIOUS
<1>2. Orders(ord, ids)
  BY <1>1 DEF Orders
<1>3. \A y \in ids : X!Before(ids, y) = RankIn(ids, ord, y)
  <2> TAKE y \in ids
  <2>1. {z \in ids : z < y} = {z \in ids : <<z, y>> \in ord}
    BY <1>1
  <2> QED BY <2>1, FileSizes DEF X!Before, RankIn
<1>4. Ranked(ids, ord)
  BY <1>2, Ranks
<1> HIDE DEF ord
<1> QED BY <1>3, <1>4 DEF Ranked

(* A row of the file becomes one that it matches, or a new one of its own. *)
LEMMA MapsTo ==
    ASSUME NEW match, DOMAIN match \subseteq Nat, IsFiniteSet(DOMAIN match),
           NEW new, new \subseteq Nat, IsFiniteSet(new),
           NEW f \in X!Mappings(match, new)
    PROVE  /\ f = [x \in DOMAIN match |-> f[x]] /\ DOMAIN f = DOMAIN match
           /\ \A x \in DOMAIN match : match[x] # {} => f[x] \in match[x]
           /\ \A x \in DOMAIN match : match[x] = {} => f[x] \in new
           /\ \A x, y \in DOMAIN match :
                 match[x] = {} /\ match[y] = {} /\ f[x] = f[y] => x = y
<1> DEFINE free == {x \in DOMAIN match : match[x] = {}}
           target(x) == IF x \in free THEN {X!Nth(new, X!Before(free, x))} ELSE match[x]
<1>1. /\ ~(X!Cardinality(free) > X!Cardinality(new))
      /\ f \in [DOMAIN match -> UNION {target(x) : x \in DOMAIN match}]
      /\ \A x \in DOMAIN match : f[x] \in target(x)
  BY DEF X!Mappings
<1>2. free \subseteq Nat /\ IsFiniteSet(free)
  <2>1. free \in SUBSET (DOMAIN match)
    OBVIOUS
  <2> QED BY <2>1, FS_Subset
<1>3. Cardinality(free) \in Nat /\ Cardinality(new) \in Nat /\ Cardinality(free) <= Cardinality(new)
  BY <1>1, <1>2, FileSizes, FS_CardinalityType
<1>4. ASSUME NEW x \in free
      PROVE  f[x] \in new /\ X!Before(new, f[x]) = X!Before(free, x)
  <2>1. f[x] = X!Nth(new, X!Before(free, x))
    BY <1>1
  <2>2. X!Before(free, x) \in Nat /\ X!Before(free, x) < Cardinality(new)
    BY <1>2, <1>3, <1>4, BeforeOne
  <2> QED BY <2>1, <2>2, NthOne
<1>5. \A x, y \in free : f[x] = f[y] => x = y
  BY <1>2, <1>4, BeforeOne
<1>6. f = [x \in DOMAIN match |-> f[x]] /\ DOMAIN f = DOMAIN match
  BY <1>1
<1>7. \A x \in DOMAIN match : match[x] # {} => f[x] \in match[x]
  BY <1>1
<1> QED BY <1>4, <1>5, <1>6, <1>7

(* Where no row matches two, there is one way to map them.                 *)
LEMMA MapsOneWay ==
    ASSUME NEW match, NEW new,
           \A x \in DOMAIN match : \A y, z \in match[x] : y = z,
           NEW f \in X!Mappings(match, new), NEW g \in X!Mappings(match, new)
    PROVE  f = g
<1> DEFINE free == {x \in DOMAIN match : match[x] = {}}
           target(x) == IF x \in free THEN {X!Nth(new, X!Before(free, x))} ELSE match[x]
<1>1. /\ f \in [DOMAIN match -> UNION {target(x) : x \in DOMAIN match}]
      /\ g \in [DOMAIN match -> UNION {target(x) : x \in DOMAIN match}]
      /\ \A x \in DOMAIN match : f[x] \in target(x) /\ g[x] \in target(x)
  BY DEF X!Mappings
<1>2. \A x \in DOMAIN match : f[x] = g[x]
  BY <1>1
<1> HIDE DEF target
<1> QED BY <1>1, <1>2

FileTypes ==
    /\ xDb \in X!Rows /\ X!Sound(xDb)
    /\ xFile \in X!Rows
    /\ xKeys \subseteq X!Kinds
    /\ xLast \in {"edit", "export", "merge", "replace"}
    /\ xOps \in 0 .. MaxImports

(* A file has rows of its kinds only, and a full one all that they refer   *)
(* to.                                                                     *)
FileKeys ==
    /\ "boards" \notin xKeys => X!Cols(xFile) = {}
    /\ "initiatives" \notin xKeys => X!Inits(xFile) = {}
    /\ xKeys = X!Kinds => X!Sound(xFile)

(* After a merge, to merge once more fails or changes nothing.             *)
MergedBefore ==
    xLast = "merge" /\ X!Distinct(xDb) /\ X!Homed =>
        \A fi \in X!InitMaps : \A fr \in X!ReqMaps(fi) :
            X!MergeFails(fi, fr) \/ X!Merged(fi, fr) = xDb

FilesInv == FileTypes /\ FileKeys /\ MergedBefore

(* The parts of a database. *)
LEMMA RowParts ==
    ASSUME NEW d \in X!Rows
    PROVE  /\ d.columns \in [Columns -> Titles \cup {Nil}]
           /\ d.inits \in [Initiatives -> Titles \cup {Nil}]
           /\ d.reqs \in [Requirements -> X!ReqRow \cup {Nil}]
           /\ d.deps \in SUBSET (Initiatives \X Initiatives)
           /\ d = [columns |-> d.columns, inits |-> d.inits, reqs |-> d.reqs, deps |-> d.deps]
  BY DEF X!Rows

LEMMA RowsIf ==
    ASSUME NEW k \in [Columns -> Titles \cup {Nil}], NEW i \in [Initiatives -> Titles \cup {Nil}],
           NEW r \in [Requirements -> X!ReqRow \cup {Nil}],
           NEW p \in SUBSET (Initiatives \X Initiatives)
    PROVE  [columns |-> k, inits |-> i, reqs |-> r, deps |-> p] \in X!Rows
  BY DEF X!Rows

(* The rows there are. *)
LEMMA RowsThere ==
    ASSUME NEW d \in X!Rows
    PROVE  /\ \A k \in X!Cols(d) : k \in Columns /\ d.columns[k] \in Titles
           /\ \A i \in X!Inits(d) : i \in Initiatives /\ d.inits[i] \in Titles
           /\ \A r \in X!Reqs(d) : r \in Requirements /\ d.reqs[r] \in X!ReqRow
  BY RowParts DEF X!Cols, X!Inits, X!Reqs

LEMMA EmptyIs == X!Empty \in X!Rows /\ X!Sound(X!Empty)
<1>1. X!Empty.columns = [k \in Columns |-> Nil] /\ X!Empty.inits = [i \in Initiatives |-> Nil]
      /\ X!Empty.reqs = [r \in Requirements |-> Nil] /\ X!Empty.deps = {}
  BY DEF X!Empty
<1>2. X!Empty \in X!Rows
  BY DEF X!Empty, X!Rows
<1> QED BY <1>1, <1>2 DEF X!Sound, X!Reqs, X!Inits

LEMMA NewOne ==
    ASSUME NEW ids, ids \subseteq Nat, IsFiniteSet(ids), ids # {}
    PROVE  X!New(ids) \in ids
<1>1. Cardinality(ids) \in Nat /\ Cardinality(ids) # 0
  BY FS_CardinalityType, FS_EmptySet
<1>2. 0 < Cardinality(ids)
  BY <1>1
<1> QED BY <1>2, NthOne DEF X!New

LEMMA FreshOnes ==
    /\ X!FreshCols \subseteq Columns /\ X!FreshInits \subseteq Initiatives
    /\ X!FreshReqs \subseteq Requirements
    /\ \A ids \in {X!FreshCols, X!FreshInits, X!FreshReqs} : ids \subseteq Nat /\ IsFiniteSet(ids)
<1>1. /\ X!FreshCols \in SUBSET Columns /\ X!FreshInits \in SUBSET Initiatives
      /\ X!FreshReqs \in SUBSET Requirements
  BY DEF X!FreshCols, X!FreshInits, X!FreshReqs
<1>2. /\ Initiatives \subseteq Nat /\ IsFiniteSet(Initiatives)
      /\ Requirements \subseteq Nat /\ IsFiniteSet(Requirements)
      /\ Columns \subseteq Nat /\ IsFiniteSet(Columns)
  BY FilesAssumption
<1>3. IsFiniteSet(X!FreshCols) /\ IsFiniteSet(X!FreshInits) /\ IsFiniteSet(X!FreshReqs)
  BY <1>1, <1>2, FS_Subset
<1> QED BY <1>1, <1>2, <1>3

LEMMA FilesInit == X!Init => FilesInv
<1> SUFFICES ASSUME X!Init PROVE FilesInv
  OBVIOUS
<1>1. xDb \in X!Rows /\ X!Sound(xDb) /\ xFile \in X!Rows
  BY EmptyIs DEF X!Init
<1>2. xFile.columns = [k \in Columns |-> Nil] /\ xFile.inits = [i \in Initiatives |-> Nil]
  BY DEF X!Init, X!Empty
<1>3. X!Cols(xFile) = {} /\ X!Inits(xFile) = {}
  BY <1>2 DEF X!Cols, X!Inits
<1>4. xKeys # X!Kinds /\ xKeys \subseteq X!Kinds
  BY DEF X!Init, X!Kinds
<1>5. xOps \in 0 .. MaxImports
  BY FilesAssumption DEF X!Init
<1> QED BY <1>1, <1>3, <1>4, <1>5 DEF X!Init, FilesInv, FileTypes, FileKeys, MergedBefore

LEMMA OpTypes ==
    ASSUME NEW what, X!Op(what), xOps \in 0 .. MaxImports
    PROVE  xOps' \in 0 .. MaxImports /\ xLast' = what
  BY FilesAssumption DEF X!Op

(* An edit keeps the database sound. *)
LEMMA EditTypes ==
    ASSUME xDb \in X!Rows, X!Sound(xDb), X!Edit
    PROVE  xDb' \in X!Rows /\ X!Sound(xDb')
<1> USE DEF X!Edit
<1> DEFINE d == xDb
<1>0. /\ d.columns \in [Columns -> Titles \cup {Nil}]
      /\ d.inits \in [Initiatives -> Titles \cup {Nil}]
      /\ d.reqs \in [Requirements -> X!ReqRow \cup {Nil}]
      /\ d.deps \in SUBSET (Initiatives \X Initiatives)
      /\ d = [columns |-> d.columns, inits |-> d.inits, reqs |-> d.reqs, deps |-> d.deps]
  BY RowParts
<1>1. ASSUME NEW t \in Titles, X!FreshCols # {}, xDb' = [d EXCEPT !.columns[X!New(X!FreshCols)] = t]
      PROVE  xDb' \in X!Rows /\ X!Sound(xDb')
  <2>1. X!New(X!FreshCols) \in Columns
    BY <1>1, FreshOnes, NewOne
  <2> DEFINE k == [d.columns EXCEPT ![X!New(X!FreshCols)] = t]
  <2>2. xDb' = [columns |-> k, inits |-> d.inits, reqs |-> d.reqs, deps |-> d.deps]
    BY <1>0, <1>1
  <2>3. k \in [Columns -> Titles \cup {Nil}] /\ \A x \in Columns : d.columns[x] # Nil => k[x] # Nil
    BY <1>0, <2>1, FilesAssumption
  <2> HIDE DEF k
  <2>4. xDb' \in X!Rows
    BY <1>0, <2>2, <2>3, RowsIf
  <2>5. X!Reqs(xDb') = X!Reqs(d) /\ X!Inits(xDb') = X!Inits(d) /\ X!Cols(d) \subseteq X!Cols(xDb')
    BY <2>2, <2>3 DEF X!Reqs, X!Inits, X!Cols
  <2> QED BY <2>2, <2>4, <2>5 DEF X!Sound
<1>2. ASSUME NEW t \in Titles, X!FreshInits # {}, xDb' = [d EXCEPT !.inits[X!New(X!FreshInits)] = t]
      PROVE  xDb' \in X!Rows /\ X!Sound(xDb')
  <2>1. X!New(X!FreshInits) \in Initiatives
    BY <1>2, FreshOnes, NewOne
  <2> DEFINE k == [d.inits EXCEPT ![X!New(X!FreshInits)] = t]
  <2>2. xDb' = [columns |-> d.columns, inits |-> k, reqs |-> d.reqs, deps |-> d.deps]
    BY <1>0, <1>2
  <2>3. k \in [Initiatives -> Titles \cup {Nil}] /\ \A x \in Initiatives : d.inits[x] # Nil => k[x] # Nil
    BY <1>0, <2>1, FilesAssumption
  <2> HIDE DEF k
  <2>4. xDb' \in X!Rows
    BY <1>0, <2>2, <2>3, RowsIf
  <2>5. X!Reqs(xDb') = X!Reqs(d) /\ X!Inits(d) \subseteq X!Inits(xDb') /\ X!Cols(d) = X!Cols(xDb')
    BY <2>2, <2>3 DEF X!Reqs, X!Inits, X!Cols
  <2> QED BY <2>2, <2>4, <2>5 DEF X!Sound
<1>3. ASSUME X!FreshReqs # {}, NEW t \in Titles, NEW i \in X!Inits(d), NEW k \in X!Cols(d) \cup {Nil},
             xDb' = [d EXCEPT !.reqs[X!New(X!FreshReqs)] = [title |-> t, parent |-> i, column |-> k]]
      PROVE  xDb' \in X!Rows /\ X!Sound(xDb')
  <2>1. X!New(X!FreshReqs) \in Requirements
    BY <1>3, FreshOnes, NewOne
  <2> DEFINE row == [title |-> t, parent |-> i, column |-> k]
             rs == [d.reqs EXCEPT ![X!New(X!FreshReqs)] = row]
  <2>2. xDb' = [columns |-> d.columns, inits |-> d.inits, reqs |-> rs, deps |-> d.deps]
    BY <1>0, <1>3
  <2>3. row \in X!ReqRow
    BY DEF X!ReqRow, X!Inits, X!Cols
  <2>4. row.parent \in X!Inits(d) /\ row.column \in X!Cols(d) \cup {Nil}
    OBVIOUS
  <2> HIDE DEF row
  <2>5. rs \in [Requirements -> X!ReqRow \cup {Nil}]
        /\ \A x \in Requirements : rs[x] = d.reqs[x] \/ rs[x] = row
    BY <1>0, <2>1, <2>3
  <2> HIDE DEF rs
  <2>6. xDb' \in X!Rows
    BY <1>0, <2>2, <2>5, RowsIf
  <2>7. X!Inits(d) = X!Inits(xDb') /\ X!Cols(d) = X!Cols(xDb') /\ xDb'.reqs = rs /\ xDb'.deps = d.deps
    BY <2>2 DEF X!Inits, X!Cols
  <2> QED BY <2>4, <2>5, <2>6, <2>7 DEF X!Sound, X!Reqs
<1>4. ASSUME NEW i \in X!Inits(d), NEW j \in X!Inits(d), xDb' = [d EXCEPT !.deps = @ \cup {<<i, j>>}]
      PROVE  xDb' \in X!Rows /\ X!Sound(xDb')
  <2> DEFINE p == d.deps \cup {<<i, j>>}
  <2>1. xDb' = [columns |-> d.columns, inits |-> d.inits, reqs |-> d.reqs, deps |-> p]
    BY <1>0, <1>4
  <2>2. p \in SUBSET (Initiatives \X Initiatives) /\ p \subseteq d.deps \cup X!Inits(d) \X X!Inits(d)
    BY <1>0 DEF X!Inits
  <2> HIDE DEF p
  <2>3. xDb' \in X!Rows
    BY <1>0, <2>1, <2>2, RowsIf
  <2>4. X!Reqs(xDb') = X!Reqs(d) /\ X!Inits(xDb') = X!Inits(d) /\ X!Cols(d) = X!Cols(xDb')
        /\ xDb'.deps = p /\ xDb'.reqs = d.reqs
    BY <2>1 DEF X!Reqs, X!Inits, X!Cols
  <2> QED BY <2>2, <2>3, <2>4 DEF X!Sound
<1>5. ASSUME NEW r \in X!Reqs(d), NEW k \in X!Cols(d) \cup {Nil}, xDb' = [d EXCEPT !.reqs[r].column = k]
      PROVE  xDb' \in X!Rows /\ X!Sound(xDb')
  <2> DEFINE row == [d.reqs[r] EXCEPT !.column = k]
             rs == [d.reqs EXCEPT ![r] = row]
  <2>1. r \in Requirements /\ d.reqs[r] \in X!ReqRow
    BY RowsThere
  <2>2. xDb' = [columns |-> d.columns, inits |-> d.inits, reqs |-> rs, deps |-> d.deps]
    BY <1>0, <1>5
  <2>3. row \in X!ReqRow /\ row.parent = d.reqs[r].parent /\ row.column = k
    BY <2>1 DEF X!ReqRow, X!Cols
  <2>4. row.parent \in X!Inits(d)
    BY <2>3 DEF X!Sound
  <2> HIDE DEF row
  <2>5. rs \in [Requirements -> X!ReqRow \cup {Nil}]
        /\ \A x \in Requirements : rs[x] = d.reqs[x] \/ rs[x] = row
    BY <1>0, <2>1, <2>3
  <2> HIDE DEF rs
  <2>6. xDb' \in X!Rows
    BY <1>0, <2>2, <2>5, RowsIf
  <2>7. X!Inits(d) = X!Inits(xDb') /\ X!Cols(d) = X!Cols(xDb') /\ xDb'.reqs = rs /\ xDb'.deps = d.deps
    BY <2>2 DEF X!Inits, X!Cols
  <2> QED BY <2>3, <2>4, <2>5, <2>6, <2>7 DEF X!Sound, X!Reqs
<1>6. ASSUME NEW r \in X!Reqs(d), xDb' = [d EXCEPT !.reqs[r] = Nil]
      PROVE  xDb' \in X!Rows /\ X!Sound(xDb')
  <2> DEFINE rs == [d.reqs EXCEPT ![r] = Nil]
  <2>1. xDb' = [columns |-> d.columns, inits |-> d.inits, reqs |-> rs, deps |-> d.deps]
    BY <1>0, <1>6
  <2>2. rs \in [Requirements -> X!ReqRow \cup {Nil}]
        /\ \A x \in Requirements : rs[x] = d.reqs[x] \/ rs[x] = Nil
    BY <1>0
  <2> HIDE DEF rs
  <2>3. xDb' \in X!Rows
    BY <1>0, <2>1, <2>2, RowsIf
  <2>4. X!Inits(d) = X!Inits(xDb') /\ X!Cols(d) = X!Cols(xDb') /\ xDb'.reqs = rs /\ xDb'.deps = d.deps
    BY <2>1 DEF X!Inits, X!Cols
  <2> QED BY <2>2, <2>3, <2>4 DEF X!Sound, X!Reqs
<1> QED BY <1>1, <1>2, <1>3, <1>4, <1>5, <1>6

LEMMA MapsSingle ==
    ASSUME NEW match, NEW new, NEW f \in X!Mappings(match, new),
           NEW g, g = [x \in DOMAIN match |-> g[x]],
           \A x \in DOMAIN match : g[x] \in match[x] /\ \A y \in match[x] : y = g[x]
    PROVE  f = g
<1> DEFINE free == {x \in DOMAIN match : match[x] = {}}
           target(x) == IF x \in free THEN {X!Nth(new, X!Before(free, x))} ELSE match[x]
<1>1. /\ f \in [DOMAIN match -> UNION {target(x) : x \in DOMAIN match}]
      /\ \A x \in DOMAIN match : f[x] \in target(x)
  BY DEF X!Mappings
<1>2. \A x \in DOMAIN match : target(x) = match[x]
  OBVIOUS
<1>3. \A x \in DOMAIN match : f[x] = g[x]
  BY <1>1, <1>2
<1> HIDE DEF target
<1>4. f = [x \in DOMAIN match |-> f[x]]
  BY <1>1
<1> QED BY <1>3, <1>4

LEMMA IdsOf ==
    ASSUME NEW d \in X!Rows
    PROVE  /\ X!Cols(d) \subseteq Nat /\ IsFiniteSet(X!Cols(d))
           /\ X!Inits(d) \subseteq Nat /\ IsFiniteSet(X!Inits(d))
           /\ X!Reqs(d) \subseteq Nat /\ IsFiniteSet(X!Reqs(d))
<1>1. X!Cols(d) \in SUBSET Columns /\ X!Inits(d) \in SUBSET Initiatives
      /\ X!Reqs(d) \in SUBSET Requirements
  BY DEF X!Cols, X!Inits, X!Reqs
<1>2. /\ Initiatives \subseteq Nat /\ IsFiniteSet(Initiatives)
      /\ Requirements \subseteq Nat /\ IsFiniteSet(Requirements)
      /\ Columns \subseteq Nat /\ IsFiniteSet(Columns)
  BY FilesAssumption
<1>3. IsFiniteSet(X!Cols(d)) /\ IsFiniteSet(X!Inits(d)) /\ IsFiniteSet(X!Reqs(d))
  BY <1>1, <1>2, FS_Subset
<1> QED BY <1>1, <1>2, <1>3

(* What a merge makes of the initiatives of the file: those there with     *)
(* their titles, or new ones.                                              *)
LEMMA InitMapped ==
    ASSUME FileTypes, NEW fi \in X!InitMaps
    PROVE  /\ fi = [i \in X!Inits(xFile) |-> fi[i]] /\ DOMAIN fi = X!Inits(xFile)
           /\ \A i \in X!Inits(xFile) :
                 /\ fi[i] \in Initiatives
                 /\ fi[i] \in X!Inits(xDb) => xDb.inits[fi[i]] = xFile.inits[i]
                 /\ fi[i] \notin X!Inits(xDb) =>
                       /\ fi[i] \in X!FreshInits
                       /\ \A j \in X!Inits(xFile) : fi[i] = fi[j] => i = j
<1> DEFINE match == [i \in X!Inits(xFile) |-> {j \in X!Inits(xDb) : xDb.inits[j] = xFile.inits[i]}]
           new == X!FreshInits
<1>1. fi \in X!Mappings(match, new)
  BY DEF X!InitMaps
<1>2. DOMAIN match = X!Inits(xFile) /\ DOMAIN match \subseteq Nat /\ IsFiniteSet(DOMAIN match)
  BY IdsOf DEF FileTypes
<1>3. new \subseteq Nat /\ IsFiniteSet(new) /\ new \subseteq Initiatives
  BY FreshOnes
<1>4. \A j \in new : j \notin X!Inits(xDb)
  BY DEF X!FreshInits
<1>5. \A i \in X!Inits(xFile) : \A j \in match[i] :
         j \in X!Inits(xDb) /\ j \in Initiatives /\ xDb.inits[j] = xFile.inits[i]
  BY DEF X!Inits
<1> HIDE DEF match, new
<1>6. /\ fi = [x \in DOMAIN match |-> fi[x]] /\ DOMAIN fi = DOMAIN match
      /\ \A x \in DOMAIN match : match[x] # {} => fi[x] \in match[x]
      /\ \A x \in DOMAIN match : match[x] = {} => fi[x] \in new
      /\ \A x, y \in DOMAIN match : match[x] = {} /\ match[y] = {} /\ fi[x] = fi[y] => x = y
  BY <1>1, <1>2, <1>3, MapsTo
<1>7. ASSUME NEW i \in X!Inits(xFile)
      PROVE  /\ fi[i] \in Initiatives
             /\ fi[i] \in X!Inits(xDb) => xDb.inits[fi[i]] = xFile.inits[i]
             /\ fi[i] \notin X!Inits(xDb) =>
                   /\ fi[i] \in new
                   /\ \A j \in X!Inits(xFile) : fi[i] = fi[j] => i = j
  <2>1. match[i] # {} => fi[i] \in match[i]
    BY <1>2, <1>6
  <2>2. match[i] = {} => fi[i] \in new
    BY <1>2, <1>6
  <2>3. fi[i] \notin X!Inits(xDb) => match[i] = {}
    BY <1>5, <2>1
  <2>4. ASSUME fi[i] \notin X!Inits(xDb), NEW j \in X!Inits(xFile), fi[i] = fi[j]
        PROVE  i = j
    <3>1. match[j] = {}
      BY <1>2, <1>5, <1>6, <2>4
    <3> QED BY <1>2, <1>6, <2>3, <2>4, <3>1
  <2> QED BY <1>3, <1>4, <1>5, <2>1, <2>2, <2>3, <2>4
<1> QED BY <1>2, <1>6, <1>7 DEF new

(* And of its requirements.                                                *)
LEMMA ReqMapped ==
    ASSUME FileTypes, NEW fi, NEW fr \in X!ReqMaps(fi)
    PROVE  /\ fr = [r \in X!Reqs(xFile) |-> fr[r]] /\ DOMAIN fr = X!Reqs(xFile)
           /\ \A r \in X!Reqs(xFile) :
                 /\ fr[r] \in Requirements
                 /\ fr[r] \in X!Reqs(xDb) => fr[r] \in X!Matches(r, fi)
                 /\ fr[r] \notin X!Reqs(xDb) =>
                       \A q \in X!Reqs(xFile) : fr[r] = fr[q] => r = q
<1> DEFINE match == [r \in X!Reqs(xFile) |-> X!Matches(r, fi)]
           new == X!FreshReqs
<1>1. fr \in X!Mappings(match, new)
  BY DEF X!ReqMaps
<1>2. DOMAIN match = X!Reqs(xFile) /\ DOMAIN match \subseteq Nat /\ IsFiniteSet(DOMAIN match)
  BY IdsOf DEF FileTypes
<1>3. new \subseteq Nat /\ IsFiniteSet(new) /\ new \subseteq Requirements
  BY FreshOnes
<1>4. \A q \in new : q \notin X!Reqs(xDb)
  BY DEF X!FreshReqs
<1>5. \A r \in X!Reqs(xFile) : match[r] = X!Matches(r, fi)
         /\ \A q \in match[r] : q \in X!Reqs(xDb) /\ q \in Requirements
  BY DEF X!Matches, X!Reqs
<1> HIDE DEF match, new
<1>6. /\ fr = [x \in DOMAIN match |-> fr[x]] /\ DOMAIN fr = DOMAIN match
      /\ \A x \in DOMAIN match : match[x] # {} => fr[x] \in match[x]
      /\ \A x \in DOMAIN match : match[x] = {} => fr[x] \in new
      /\ \A x, y \in DOMAIN match : match[x] = {} /\ match[y] = {} /\ fr[x] = fr[y] => x = y
  BY <1>1, <1>2, <1>3, MapsTo
<1>7. ASSUME NEW r \in X!Reqs(xFile)
      PROVE  /\ fr[r] \in Requirements
             /\ fr[r] \in X!Reqs(xDb) => fr[r] \in X!Matches(r, fi)
             /\ fr[r] \notin X!Reqs(xDb) =>
                   \A q \in X!Reqs(xFile) : fr[r] = fr[q] => r = q
  <2>1. match[r] # {} => fr[r] \in match[r]
    BY <1>2, <1>6
  <2>2. match[r] = {} => fr[r] \in new
    BY <1>2, <1>6
  <2>3. fr[r] \notin X!Reqs(xDb) => match[r] = {}
    BY <1>5, <2>1
  <2>4. ASSUME fr[r] \notin X!Reqs(xDb), NEW q \in X!Reqs(xFile), fr[r] = fr[q]
        PROVE  r = q
    <3>1. match[q] = {}
      BY <1>2, <1>5, <1>6, <2>4
    <3> QED BY <1>2, <1>6, <2>3, <2>4, <3>1
  <2> QED BY <1>3, <1>4, <1>5, <2>1, <2>2, <2>3, <2>4
<1> QED BY <1>2, <1>6, <1>7

(* What a merge that succeeds leaves. *)
LEMMA MergeWrites ==
    ASSUME FileTypes, NEW fi \in X!InitMaps, NEW fr \in X!ReqMaps(fi), ~X!MergeFails(fi, fr),
           NEW d, d = X!Merged(fi, fr)
    PROVE  /\ d \in X!Rows /\ X!Sound(d)
           /\ d.columns = xDb.columns
           /\ \A i \in X!Inits(xFile) : d.inits[fi[i]] = xFile.inits[i]
           /\ \A j \in Initiatives : (\A i \in X!Inits(xFile) : fi[i] # j) => d.inits[j] = xDb.inits[j]
           /\ X!Inits(d) = X!Inits(xDb) \cup {fi[i] : i \in X!Inits(xFile)}
           /\ \A r \in X!Reqs(xFile) : X!ParentOf(fi, r) # Nil =>
                 d.reqs[fr[r]] = [title |-> xFile.reqs[r].title, parent |-> X!ParentOf(fi, r),
                                  column |-> Nil]
           /\ \A q \in Requirements : (\A r \in X!Reqs(xFile) : fr[r] # q) => d.reqs[q] = xDb.reqs[q]
           /\ d.deps = xDb.deps \cup {X!EndsOf(fi, e) : e \in X!DepsOf(fi)}
<1> DEFINE I0 == X!Inits(xFile)
           R0 == X!Reqs(xFile)
<1>1. /\ DOMAIN fi = I0 /\ \A i \in I0 :
           /\ fi[i] \in Initiatives
           /\ fi[i] \in X!Inits(xDb) => xDb.inits[fi[i]] = xFile.inits[i]
           /\ fi[i] \notin X!Inits(xDb) => \A j \in I0 : fi[i] = fi[j] => i = j
  BY InitMapped
<1>2. /\ DOMAIN fr = R0 /\ \A r \in R0 :
           /\ fr[r] \in Requirements
           /\ fr[r] \in X!Reqs(xDb) => fr[r] \in X!Matches(r, fi)
           /\ fr[r] \notin X!Reqs(xDb) => \A q \in R0 : fr[r] = fr[q] => r = q
  BY ReqMapped
<1>3. /\ \A i \in I0 : xFile.inits[i] \in Titles /\ i \in Initiatives
      /\ \A r \in R0 : r \in Requirements /\ xFile.reqs[r] \in X!ReqRow
  BY RowsThere DEF FileTypes
<1>4. /\ xDb.columns \in [Columns -> Titles \cup {Nil}]
      /\ xDb.inits \in [Initiatives -> Titles \cup {Nil}]
      /\ xDb.reqs \in [Requirements -> X!ReqRow \cup {Nil}]
      /\ xDb.deps \in SUBSET (Initiatives \X Initiatives)
  BY RowParts DEF FileTypes
<1>5. /\ d.columns = xDb.columns
      /\ d.deps = xDb.deps \cup {X!EndsOf(fi, e) : e \in X!DepsOf(fi)}
      /\ d.inits = [j \in Initiatives |->
                      IF X!From(fi, j) = {} THEN xDb.inits[j]
                      ELSE xFile.inits[X!One(fi, j)]]
      /\ d.reqs = [q \in Requirements |->
                      IF X!From(fr, q) = {} THEN xDb.reqs[q] ELSE X!MergedReq(fi, fr, q)]
      /\ d = [columns |-> d.columns, inits |-> d.inits, reqs |-> d.reqs, deps |-> d.deps]
  BY DEF X!Merged
<1>6. ASSUME NEW j \in Initiatives
      PROVE  /\ (\A i \in I0 : fi[i] # j) => d.inits[j] = xDb.inits[j]
             /\ \A i \in I0 : fi[i] = j => d.inits[j] = xFile.inits[i]
             /\ d.inits[j] \in Titles \cup {Nil}
             /\ d.inits[j] # Nil <=> j \in X!Inits(xDb) \/ \E i \in I0 : fi[i] = j
  <2>1. d.inits[j] = IF X!From(fi, j) = {} THEN xDb.inits[j]
                     ELSE xFile.inits[X!One(fi, j)]
    BY <1>5
  <2>2. X!From(fi, j) = {i \in I0 : fi[i] = j}
    BY <1>1 DEF X!From
  <2>3. CASE \A i \in I0 : fi[i] # j
    <3>1. X!From(fi, j) = {}
      BY <2>2, <2>3
    <3>2. d.inits[j] = xDb.inits[j]
      BY <2>1, <3>1
    <3> QED BY <1>4, <2>3, <3>2 DEF X!Inits
  <2>4. CASE \E i \in I0 : fi[i] = j
    <3>1. PICK i \in I0 : fi[i] = j /\ d.inits[j] = xFile.inits[i]
      <4>1. X!One(fi, j) \in X!From(fi, j)
        BY <2>2, <2>4 DEF X!One
      <4>2. X!From(fi, j) # {}
        BY <2>2, <2>4
      <4>3. d.inits[j] = xFile.inits[X!One(fi, j)]
        BY <2>1, <4>2
      <4> QED BY <2>2, <4>1, <4>3
    <3>2. \A k \in I0 : fi[k] = j => xFile.inits[k] = xFile.inits[i]
      BY <1>1, <3>1
    <3>3. d.inits[j] \in Titles
      BY <1>3, <3>1
    <3> QED BY <2>4, <3>1, <3>2, <3>3, FilesAssumption
  <2> QED BY <2>3, <2>4
<1>7. X!Inits(d) = X!Inits(xDb) \cup {fi[i] : i \in I0}
  <2>1. X!Inits(d) = {j \in Initiatives : d.inits[j] # Nil}
    BY DEF X!Inits
  <2>2. X!Inits(xDb) \subseteq Initiatives
    BY DEF X!Inits
  <2> HIDE DEF I0
  <2> QED BY <1>1, <1>6, <2>1, <2>2
<1>8. \A r \in R0 : X!ParentOf(fi, r) # Nil => X!ParentOf(fi, r) \in X!Inits(d)
  <2> TAKE r \in R0
  <2> DEFINE p == xFile.reqs[r].parent
  <2>1. X!ParentOf(fi, r) = IF p \in I0 THEN fi[p] ELSE IF p \in X!Inits(xDb) THEN p ELSE Nil
    BY <1>1 DEF X!ParentOf, X!Mapped
  <2> QED BY <1>7, <2>1
<1>9. X!Inits(d) \subseteq Initiatives /\ Nil \notin X!Inits(d)
  BY FilesAssumption DEF X!Inits
<1>10. ASSUME NEW q \in X!Reqs(xDb)
       PROVE  /\ xDb.reqs[q] \in X!ReqRow
              /\ xDb.reqs[q].parent \in X!Inits(xDb) /\ xDb.reqs[q].column \in X!Cols(xDb) \cup {Nil}
  BY RowsThere DEF FileTypes, X!Sound
<1>11. ASSUME NEW q \in Requirements
       PROVE  /\ (\A r \in R0 : fr[r] # q) => d.reqs[q] = xDb.reqs[q]
              /\ \A r \in R0 : fr[r] = q /\ X!ParentOf(fi, r) # Nil =>
                    d.reqs[q] = [title |-> xFile.reqs[r].title, parent |-> X!ParentOf(fi, r),
                                 column |-> Nil]
              /\ \/ d.reqs[q] = xDb.reqs[q]
                 \/ /\ d.reqs[q] \in X!ReqRow
                    /\ d.reqs[q].parent \in X!Inits(d) /\ d.reqs[q].column = Nil
  <2>1. d.reqs[q] = IF X!From(fr, q) = {} THEN xDb.reqs[q] ELSE X!MergedReq(fi, fr, q)
    BY <1>5
  <2>2. X!From(fr, q) = {r \in R0 : fr[r] = q}
    BY <1>2 DEF X!From
  <2>3. CASE \A r \in R0 : fr[r] # q
    <3>1. X!From(fr, q) = {}
      BY <2>2, <2>3
    <3> QED BY <2>1, <2>3, <3>1
  <2>4. CASE \E r \in R0 : fr[r] = q
    <3> DEFINE s == X!One(fr, q)
    <3>1. s \in R0 /\ fr[s] = q
      <4>1. s \in X!From(fr, q)
        BY <2>2, <2>4 DEF X!One
      <4> QED BY <2>2, <4>1
    <3>2. d.reqs[q] = X!MergedReq(fi, fr, q)
      BY <2>1, <2>2, <2>4
    <3>3. X!MergedReq(fi, fr, q) =
             [title |-> xFile.reqs[s].title,
              parent |-> IF X!ParentOf(fi, s) = Nil THEN xDb.reqs[q].parent
                         ELSE X!ParentOf(fi, s),
              column |-> Nil]
      BY DEF X!MergedReq
    <3> HIDE DEF s
    <3>4. X!ParentOf(fi, s) = Nil => q \in X!Reqs(xDb)
      BY <3>1 DEF X!MergeFails
    <3> DEFINE p == IF X!ParentOf(fi, s) = Nil THEN xDb.reqs[q].parent ELSE X!ParentOf(fi, s)
    <3>5. p \in X!Inits(d)
      BY <1>7, <1>8, <1>10, <3>1, <3>4
    <3>6. d.reqs[q] = [title |-> xFile.reqs[s].title, parent |-> p, column |-> Nil]
      BY <3>2, <3>3
    <3>7. xFile.reqs[s].title \in Titles
      BY <1>3, <3>1 DEF X!ReqRow
    <3>8. ASSUME NEW r \in R0, fr[r] = q, X!ParentOf(fi, r) # Nil
          PROVE  p = X!ParentOf(fi, r) /\ xFile.reqs[s].title = xFile.reqs[r].title
      <4>1. CASE q \in X!Reqs(xDb)
        <5>1. q \in X!Matches(r, fi) /\ q \in X!Matches(s, fi)
          BY <1>2, <3>1, <3>8, <4>1
        <5>2. xDb.reqs[q].title = xFile.reqs[r].title /\ xDb.reqs[q].parent = X!ParentOf(fi, r)
          BY <3>8, <5>1 DEF X!Matches, X!ParentOf
        <5>3. /\ xDb.reqs[q].title = xFile.reqs[s].title
              /\ X!ParentOf(fi, s) # Nil => xDb.reqs[q].parent = X!ParentOf(fi, s)
          BY <5>1 DEF X!Matches, X!ParentOf
        <5> QED BY <5>2, <5>3
      <4>2. CASE q \notin X!Reqs(xDb)
        <5>1. r = s
          BY <1>2, <3>1, <3>8, <4>2
        <5> QED BY <3>8, <5>1
      <4> QED BY <4>1, <4>2
    <3> HIDE DEF p
    <3>9. d.reqs[q] \in X!ReqRow /\ d.reqs[q].parent = p /\ d.reqs[q].column = Nil
      BY <1>9, <3>5, <3>6, <3>7 DEF X!ReqRow
    <3> QED BY <2>4, <3>5, <3>6, <3>8, <3>9
  <2> QED BY <2>3, <2>4
<1>12. \A e \in X!DepsOf(fi) : X!EndsOf(fi, e) \in X!Inits(d) \X X!Inits(d)
  <2> TAKE e \in X!DepsOf(fi)
  <2>1. \A x : X!Mapped(fi, x, X!Inits(xDb)) # Nil => X!Mapped(fi, x, X!Inits(xDb)) \in X!Inits(d)
    BY <1>1, <1>7 DEF X!Mapped
  <2>2. /\ X!EndsOf(fi, e) = <<X!Mapped(fi, e[1], X!Inits(xDb)), X!Mapped(fi, e[2], X!Inits(xDb))>>
        /\ Nil \notin {X!EndsOf(fi, e)[1], X!EndsOf(fi, e)[2]}
    BY DEF X!EndsOf, X!DepsOf
  <2> QED BY <2>1, <2>2
<1>13. xDb.deps \subseteq X!Inits(xDb) \X X!Inits(xDb)
  BY DEF FileTypes, X!Sound
<1>14. d.deps \subseteq X!Inits(d) \X X!Inits(d)
  BY <1>5, <1>7, <1>12, <1>13
<1>15. d \in X!Rows
  <2>1. d.inits \in [Initiatives -> Titles \cup {Nil}]
    BY <1>5, <1>6
  <2>2. d.reqs \in [Requirements -> X!ReqRow \cup {Nil}]
    BY <1>4, <1>5, <1>11
  <2>3. d.deps \in SUBSET (Initiatives \X Initiatives)
    BY <1>9, <1>14
  <2>4. d.columns \in [Columns -> Titles \cup {Nil}]
    BY <1>4, <1>5
  <2> QED BY <1>5, <2>1, <2>2, <2>3, <2>4, RowsIf
<1>16. X!Sound(d)
  <2>1. X!Cols(d) = X!Cols(xDb)
    BY <1>5 DEF X!Cols
  <2>2. ASSUME NEW q \in X!Reqs(d)
        PROVE  d.reqs[q].parent \in X!Inits(d) /\ d.reqs[q].column \in X!Cols(d) \cup {Nil}
    <3>1. q \in Requirements /\ d.reqs[q] # Nil
      BY DEF X!Reqs
    <3>2. CASE d.reqs[q] = xDb.reqs[q]
      <4>1. q \in X!Reqs(xDb)
        BY <3>1, <3>2 DEF X!Reqs
      <4> QED BY <1>7, <1>10, <2>1, <3>2, <4>1
    <3> QED BY <1>11, <3>1, <3>2
  <2> QED BY <1>14, <2>2 DEF X!Sound
<1>17. \A i \in I0 : d.inits[fi[i]] = xFile.inits[i]
  BY <1>1, <1>6
<1>18. \A r \in R0 : X!ParentOf(fi, r) # Nil =>
          d.reqs[fr[r]] = [title |-> xFile.reqs[r].title, parent |-> X!ParentOf(fi, r),
                           column |-> Nil]
  BY <1>2, <1>11
<1> QED BY <1>5, <1>6, <1>7, <1>11, <1>15, <1>16, <1>17, <1>18

(* To merge the same file once more finds every row where the first merge  *)
(* put it.                                                                 *)
LEMMA MergeAgain ==
    ASSUME FileTypes, NEW fi \in X!InitMaps, NEW fr \in X!ReqMaps(fi), ~X!MergeFails(fi, fr),
           xDb' = X!Merged(fi, fr), xFile' = xFile,
           X!Distinct(xDb)', X!Homed',
           NEW gi \in X!InitMaps', NEW gr \in X!ReqMaps(gi)'
    PROVE  X!MergeFails(gi, gr)' \/ X!Merged(gi, gr)' = xDb'
<1> DEFINE I0 == X!Inits(xFile)
           R0 == X!Reqs(xFile)
           d == xDb'
<1>1. /\ d \in X!Rows
      /\ \A i \in I0 : d.inits[fi[i]] = xFile.inits[i]
      /\ \A j \in Initiatives : (\A i \in I0 : fi[i] # j) => d.inits[j] = xDb.inits[j]
      /\ X!Inits(d) = X!Inits(xDb) \cup {fi[i] : i \in I0}
      /\ \A r \in R0 : X!ParentOf(fi, r) # Nil =>
            d.reqs[fr[r]] = [title |-> xFile.reqs[r].title, parent |-> X!ParentOf(fi, r),
                             column |-> Nil]
      /\ d.deps = xDb.deps \cup {X!EndsOf(fi, e) : e \in X!DepsOf(fi)}
  BY MergeWrites
<1>2. /\ fi = [i \in I0 |-> fi[i]] /\ DOMAIN fi = I0
      /\ \A i \in I0 : fi[i] \in Initiatives /\ (fi[i] \notin X!Inits(xDb) => fi[i] \in X!FreshInits)
  BY InitMapped
<1>3. /\ fr = [r \in R0 |-> fr[r]] /\ DOMAIN fr = R0 /\ \A r \in R0 : fr[r] \in Requirements
  BY ReqMapped
<1>4. /\ d.columns \in [Columns -> Titles \cup {Nil}]
      /\ d.inits \in [Initiatives -> Titles \cup {Nil}]
      /\ d.reqs \in [Requirements -> X!ReqRow \cup {Nil}]
      /\ d = [columns |-> d.columns, inits |-> d.inits, reqs |-> d.reqs, deps |-> d.deps]
  BY <1>1, RowParts
<1>5. gi = fi
  <2> DEFINE match == [i \in I0 |-> {j \in X!Inits(d) : d.inits[j] = xFile.inits[i]}]
  <2>1. gi \in X!Mappings(match, X!FreshInits')
    BY DEF X!InitMaps
  <2>2. \A i \in I0 : fi[i] \in match[i]
    BY <1>1
  <2>3. \A i \in I0 : \A j \in match[i] : j = fi[i]
    <3>1. \A j, k \in X!Inits(d) : d.inits[j] = d.inits[k] => j = k
      BY DEF X!Distinct
    <3> QED BY <1>1, <3>1
  <2>4. DOMAIN match = I0
    OBVIOUS
  <2> HIDE DEF match, I0
  <2> QED BY <1>2, <2>1, <2>2, <2>3, <2>4, MapsSingle
<1>6. ASSUME NEW x, x \in I0 \cup X!Inits(d) => x \in I0 \cup X!Inits(xDb)
      PROVE  X!Mapped(fi, x, X!Inits(d)) = X!Mapped(fi, x, X!Inits(xDb))
  BY <1>1, <1>2, <1>6 DEF X!Mapped
<1>7. ASSUME NEW r \in R0
      PROVE  X!ParentOf(fi, r) # Nil /\ X!ParentOf(fi, r)' = X!ParentOf(fi, r)
  <2> DEFINE p == xFile.reqs[r].parent
  <2>1. p \in I0 \cup X!Inits(d)
    BY DEF X!Homed
  <2>2. p \notin X!FreshInits
    BY DEF X!FreshInits
  <2>3. p \in I0 \cup X!Inits(xDb)
    BY <1>1, <1>2, <2>1, <2>2
  <2>4. X!ParentOf(fi, r) = X!Mapped(fi, p, X!Inits(xDb))
        /\ X!ParentOf(fi, r)' = X!Mapped(fi, p, X!Inits(d))
    BY DEF X!ParentOf
  <2>5. X!Mapped(fi, p, X!Inits(xDb)) \in Initiatives
    BY <1>2, <2>3 DEF X!Mapped, X!Inits
  <2> HIDE DEF p
  <2> QED BY <1>6, <2>3, <2>4, <2>5, FilesAssumption
<1>8. \A r \in R0 :
         /\ fr[r] \in X!Reqs(d)
         /\ d.reqs[fr[r]].title = xFile.reqs[r].title
         /\ d.reqs[fr[r]].parent = X!ParentOf(fi, r)
         /\ d.reqs[fr[r]].column = Nil
  <2> TAKE r \in R0
  <2> DEFINE row == [title |-> xFile.reqs[r].title, parent |-> X!ParentOf(fi, r), column |-> Nil]
  <2>1. d.reqs[fr[r]] = row
    BY <1>1, <1>7
  <2>2. row \in X!ReqRow
    <3>1. xFile.reqs[r] \in X!ReqRow
      BY RowsThere DEF FileTypes
    <3>2. X!ParentOf(fi, r) \in Initiatives
      BY <1>2, <1>7 DEF X!ParentOf, X!Mapped, X!Inits
    <3> QED BY <3>1, <3>2 DEF X!ReqRow
  <2>3. row # Nil
    BY <2>2, FilesAssumption DEF X!ReqRow
  <2> QED BY <1>3, <2>1, <2>3 DEF X!Reqs
<1>9. gr = fr
  <2> DEFINE match == [r \in R0 |-> X!Matches(r, fi)']
  <2>1. gr \in X!Mappings(match, X!FreshReqs')
    BY <1>5 DEF X!ReqMaps
  <2>2. ASSUME NEW r \in R0
        PROVE  match[r] = {q \in X!Reqs(d) : /\ d.reqs[q].title = xFile.reqs[r].title
                                             /\ d.reqs[q].parent = X!ParentOf(fi, r)}
    <3>1. match[r] = {q \in X!Reqs(d) : /\ d.reqs[q].title = xFile.reqs[r].title
                                        /\ X!ParentOf(fi, r)' # Nil =>
                                               d.reqs[q].parent = X!ParentOf(fi, r)'}
      BY DEF X!Matches, X!ParentOf
    <3> HIDE DEF match
    <3> QED BY <1>7, <3>1
  <2>3. DOMAIN match = R0
    OBVIOUS
  <2> HIDE DEF match
  <2>4. \A r \in R0 : fr[r] \in match[r]
    BY <1>8, <2>2
  <2>5. \A r \in R0 : \A q \in match[r] : q = fr[r]
    <3>1. \A r, q \in X!Reqs(d) :
             d.reqs[r].title = d.reqs[q].title /\ d.reqs[r].parent = d.reqs[q].parent => r = q
      BY DEF X!Distinct
    <3> QED BY <1>8, <2>2, <3>1
  <2> HIDE DEF R0
  <2> QED BY <1>3, <2>1, <2>3, <2>4, <2>5, MapsSingle
<1>10. X!DepsOf(fi)' = X!DepsOf(fi) /\ \A e \in xFile.deps : X!EndsOf(fi, e)' = X!EndsOf(fi, e)
  <2>1. ASSUME NEW e \in xFile.deps
        PROVE  X!EndsOf(fi, e)' = X!EndsOf(fi, e)
    <3>1. e[1] \notin X!FreshInits /\ e[2] \notin X!FreshInits
      BY DEF X!FreshInits
    <3>2. /\ e[1] \in I0 \cup X!Inits(d) => e[1] \in I0 \cup X!Inits(xDb)
          /\ e[2] \in I0 \cup X!Inits(d) => e[2] \in I0 \cup X!Inits(xDb)
      BY <1>1, <1>2, <3>1
    <3>3. /\ X!Mapped(fi, e[1], X!Inits(d)) = X!Mapped(fi, e[1], X!Inits(xDb))
          /\ X!Mapped(fi, e[2], X!Inits(d)) = X!Mapped(fi, e[2], X!Inits(xDb))
      BY <1>6, <3>2
    <3> QED BY <3>3 DEF X!EndsOf
  <2>2. /\ X!DepsOf(fi)' = {e \in xFile.deps : Nil \notin {X!EndsOf(fi, e)'[1], X!EndsOf(fi, e)'[2]}}
        /\ X!DepsOf(fi) = {e \in xFile.deps : Nil \notin {X!EndsOf(fi, e)[1], X!EndsOf(fi, e)[2]}}
    BY DEF X!DepsOf
  <2> QED BY <2>1, <2>2
<1> SUFFICES ASSUME ~X!MergeFails(fi, fr)' PROVE X!Merged(fi, fr)' = xDb'
  BY <1>5, <1>9
<1>11. X!DepsOf(fi)' = {}
  <2> SUFFICES ASSUME NEW e \in X!DepsOf(fi)' PROVE FALSE
    OBVIOUS
  <2>1. e \in xFile.deps /\ e \in X!DepsOf(fi)
    BY <1>10 DEF X!DepsOf
  <2>2. X!EndsOf(fi, e)' \in d.deps
    BY <1>1, <1>10, <2>1
  <2> QED BY <2>2 DEF X!MergeFails
<1>12. ASSUME NEW j \in Initiatives
       PROVE  d.inits[j] = IF X!From(fi, j) = {} THEN d.inits[j]
                           ELSE xFile.inits[X!One(fi, j)]
  <2>1. X!From(fi, j) = {i \in I0 : fi[i] = j}
    BY <1>2 DEF X!From
  <2>2. ASSUME X!From(fi, j) # {}
        PROVE  d.inits[j] = xFile.inits[X!One(fi, j)]
    <3>1. X!One(fi, j) \in X!From(fi, j)
      BY <2>2 DEF X!One
    <3> QED BY <1>1, <2>1, <3>1
  <2> QED BY <2>2
<1>13. ASSUME NEW q \in Requirements
       PROVE  d.reqs[q] = IF X!From(fr, q) = {} THEN d.reqs[q] ELSE X!MergedReq(fi, fr, q)'
  <2>1. X!From(fr, q) = {r \in R0 : fr[r] = q}
    BY <1>3 DEF X!From
  <2>2. ASSUME X!From(fr, q) # {}
        PROVE  d.reqs[q] = X!MergedReq(fi, fr, q)'
    <3> DEFINE s == X!One(fr, q)
    <3>1. s \in R0 /\ fr[s] = q
      <4>1. s \in X!From(fr, q)
        BY <2>2 DEF X!One
      <4> QED BY <2>1, <4>1
    <3>2. X!MergedReq(fi, fr, q)' =
             [title |-> xFile.reqs[s].title,
              parent |-> IF X!ParentOf(fi, s)' = Nil THEN d.reqs[q].parent
                         ELSE X!ParentOf(fi, s)',
              column |-> Nil]
      BY DEF X!MergedReq
    <3> HIDE DEF s
    <3>3. X!MergedReq(fi, fr, q)' =
             [title |-> xFile.reqs[s].title, parent |-> X!ParentOf(fi, s), column |-> Nil]
      BY <1>7, <3>1, <3>2
    <3> QED BY <1>1, <1>7, <3>1, <3>3
  <2> QED BY <2>2
<1>14. X!Merged(fi, fr)' =
          [columns |-> d.columns,
           inits |-> [j \in Initiatives |->
                         IF X!From(fi, j) = {} THEN d.inits[j]
                         ELSE xFile.inits[X!One(fi, j)]],
           reqs |-> [q \in Requirements |->
                         IF X!From(fr, q) = {} THEN d.reqs[q] ELSE X!MergedReq(fi, fr, q)'],
           deps |-> d.deps \cup {X!EndsOf(fi, e)' : e \in X!DepsOf(fi)'}]
  BY DEF X!Merged
<1> DEFINE is == [j \in Initiatives |->
                     IF X!From(fi, j) = {} THEN d.inits[j]
                     ELSE xFile.inits[X!One(fi, j)]]
           rs == [q \in Requirements |->
                     IF X!From(fr, q) = {} THEN d.reqs[q] ELSE X!MergedReq(fi, fr, q)']
           ds == d.deps \cup {X!EndsOf(fi, e)' : e \in X!DepsOf(fi)'}
<1>15. is = d.inits
  BY <1>4, <1>12
<1>16. rs = d.reqs
  BY <1>4, <1>13
<1>17. ds = d.deps
  BY <1>11
<1>18. X!Merged(fi, fr)' = [columns |-> d.columns, inits |-> is, reqs |-> rs, deps |-> ds]
  BY <1>14
<1> HIDE DEF is, rs, ds
<1> QED BY <1>4, <1>15, <1>16, <1>17, <1>18

(* A merge that has failed fails again. *)
LEMMA MergeFailsAgain ==
    ASSUME FileTypes, NEW fi \in X!InitMaps, NEW fr \in X!ReqMaps(fi), X!MergeFails(fi, fr),
           X!Distinct(xDb), X!Homed,
           NEW gi \in X!InitMaps, NEW gr \in X!ReqMaps(gi)
    PROVE  X!MergeFails(gi, gr)
<1>1. gi = fi
  <2> DEFINE match == [i \in X!Inits(xFile) |-> {j \in X!Inits(xDb) : xDb.inits[j] = xFile.inits[i]}]
  <2>1. gi \in X!Mappings(match, X!FreshInits) /\ fi \in X!Mappings(match, X!FreshInits)
    BY DEF X!InitMaps
  <2>2. \A i \in DOMAIN match : \A j, k \in match[i] : j = k
    BY DEF X!Distinct
  <2> HIDE DEF match
  <2> QED BY <2>1, <2>2, MapsOneWay
<1>2. gr = fr
  <2> DEFINE match == [r \in X!Reqs(xFile) |-> X!Matches(r, fi)]
  <2>1. gr \in X!Mappings(match, X!FreshReqs) /\ fr \in X!Mappings(match, X!FreshReqs)
    BY <1>1 DEF X!ReqMaps
  <2>2. DOMAIN match = X!Reqs(xFile)
    OBVIOUS
  <2>3. ASSUME NEW r \in X!Reqs(xFile)
        PROVE  \A q, s \in match[r] : q = s
    <3> DEFINE p == xFile.reqs[r].parent
               m == X!Mapped(fi, p, X!Inits(xDb))
    <3>1. p \in X!Inits(xFile) \cup X!Inits(xDb)
      BY DEF X!Homed
    <3>2. m # Nil
      <4>1. DOMAIN fi = X!Inits(xFile) /\ \A i \in X!Inits(xFile) : fi[i] \in Initiatives
        BY InitMapped
      <4>2. X!Inits(xDb) \subseteq Initiatives
        BY DEF X!Inits
      <4>3. m \in Initiatives
        BY <3>1, <4>1, <4>2 DEF X!Mapped
      <4> HIDE DEF m
      <4> QED BY <4>3, FilesAssumption
    <3>3. match[r] = {q \in X!Reqs(xDb) : /\ xDb.reqs[q].title = xFile.reqs[r].title
                                          /\ m # Nil => xDb.reqs[q].parent = m}
      BY DEF X!Matches
    <3> HIDE DEF match, m
    <3>4. \A q, s \in X!Reqs(xDb) :
             xDb.reqs[q].title = xDb.reqs[s].title /\ xDb.reqs[q].parent = xDb.reqs[s].parent => q = s
      BY DEF X!Distinct
    <3> QED BY <3>2, <3>3, <3>4
  <2> HIDE DEF match
  <2> QED BY <2>1, <2>2, <2>3, MapsOneWay
<1> QED BY <1>1, <1>2

LEMMA FilesMerge ==
    ASSUME FilesInv, X!Merge
    PROVE  FilesInv'
<1> USE DEF FilesInv
<1>1. PICK fi \in X!InitMaps : \E fr \in X!ReqMaps(fi) :
         IF X!MergeFails(fi, fr) THEN X!ImportFails ELSE xDb' = X!Merged(fi, fr)
  BY DEF X!Merge
<1>2. PICK fr \in X!ReqMaps(fi) :
         IF X!MergeFails(fi, fr) THEN X!ImportFails ELSE xDb' = X!Merged(fi, fr)
  BY <1>1
<1>3. xFile' = xFile /\ xKeys' = xKeys
  BY DEF X!Merge
<1>4. xLast' = "merge" /\ xOps' \in 0 .. MaxImports
  BY OpTypes DEF X!Merge, FileTypes
<1>5. FileKeys'
  BY <1>3 DEF FileKeys
<1>6. CASE X!MergeFails(fi, fr)
  <2>1. xDb' = xDb
    BY <1>2, <1>6 DEF X!ImportFails
  <2>2. FileTypes'
    BY <1>3, <1>4, <2>1 DEF FileTypes
  <2>3. MergedBefore'
    <3> SUFFICES ASSUME X!Distinct(xDb)', X!Homed', NEW gi \in X!InitMaps', NEW gr \in X!ReqMaps(gi)'
                 PROVE  X!MergeFails(gi, gr)'
      BY DEF MergedBefore
    <3>1. X!FreshInits' = X!FreshInits /\ X!FreshReqs' = X!FreshReqs
      BY <1>3, <2>1 DEF X!FreshInits, X!FreshReqs
    <3>2. X!Distinct(xDb) /\ X!Homed /\ gi \in X!InitMaps
      BY <1>3, <2>1, <3>1 DEF X!Homed, X!InitMaps
    <3>3. \A r : X!Matches(r, gi)' = X!Matches(r, gi)
      BY <1>3, <2>1 DEF X!Matches
    <3>4. gr \in X!ReqMaps(gi)
      BY <1>3, <2>1, <3>1, <3>3 DEF X!ReqMaps
    <3>5. X!MergeFails(gi, gr)
      BY <1>6, <3>2, <3>4, MergeFailsAgain
    <3> QED BY <1>3, <2>1, <3>5 DEF X!MergeFails, X!ParentOf, X!EndsOf, X!DepsOf
  <2> QED BY <1>5, <2>2, <2>3
<1>7. CASE ~X!MergeFails(fi, fr)
  <2>1. xDb' = X!Merged(fi, fr)
    BY <1>2, <1>7
  <2>2. xDb' \in X!Rows /\ X!Sound(xDb')
    BY <1>7, <2>1, MergeWrites
  <2>3. FileTypes'
    BY <1>3, <1>4, <2>2 DEF FileTypes
  <2>4. MergedBefore'
    <3> SUFFICES ASSUME X!Distinct(xDb)', X!Homed', NEW gi \in X!InitMaps', NEW gr \in X!ReqMaps(gi)'
                 PROVE  X!MergeFails(gi, gr)' \/ X!Merged(gi, gr)' = xDb'
      BY DEF MergedBefore
    <3> QED BY <1>3, <1>7, <2>1, MergeAgain
  <2> QED BY <1>5, <2>3, <2>4
<1> QED BY <1>6, <1>7

-----------------------------------------------------------------------------
(* Rows that are created get ids of their own. *)
LEMMA Created ==
    ASSUME NEW ids, ids \subseteq Nat, IsFiniteSet(ids),
           NEW new, new \subseteq Nat, IsFiniteSet(new),
           NEW f \in X!CreateMaps(ids, new)
    PROVE  /\ DOMAIN f = ids
           /\ \A x \in ids : f[x] \in new
           /\ \A x, y \in ids : f[x] = f[y] => x = y
           /\ \A y : X!From(f, y) = {x \in ids : f[x] = y}
           /\ \A x \in ids : X!From(f, f[x]) = {x} /\ X!One(f, f[x]) = x
<1> DEFINE match == [x \in ids |-> {}]
<1>1. f \in X!Mappings(match, new)
  BY DEF X!CreateMaps
<1>2. DOMAIN match = ids /\ \A x \in ids : match[x] = {}
  OBVIOUS
<1> HIDE DEF match
<1>3. /\ DOMAIN f = ids /\ \A x \in ids : f[x] \in new
      /\ \A x, y \in ids : f[x] = f[y] => x = y
  BY <1>1, <1>2, MapsTo
<1>4. \A y : X!From(f, y) = {x \in ids : f[x] = y}
  BY <1>3 DEF X!From
<1>5. \A x \in ids : X!From(f, f[x]) = {x}
  <2> TAKE x \in ids
  <2>1. X!From(f, f[x]) = {y \in ids : f[y] = f[x]}
    BY <1>4
  <2> QED BY <1>3, <2>1
<1>6. \A x \in ids : X!One(f, f[x]) = x
  BY <1>5 DEF X!One
<1> QED BY <1>3, <1>4, <1>5, <1>6

(* What a replacement that succeeds leaves: sound rows, and after one by a *)
(* full file its rows under other ids.                                     *)
LEMMA ReplaceWrites ==
    ASSUME FileTypes, FileKeys,
           NEW fc \in X!CreateMaps(X!Cols(xFile), X!FreshCols),
           NEW fi \in X!CreateMaps(X!Inits(xFile), X!FreshInits),
           NEW fr \in X!CreateMaps(X!Reqs(xFile), X!FreshReqs),
           \A r \in X!Reqs(xFile) : X!NewParent(fi, r) # Nil,
           NEW d, d = X!Replaced(fc, fi, fr)
    PROVE  /\ d \in X!Rows /\ X!Sound(d)
           /\ xKeys = X!Kinds => X!Named(d) = X!Named(xFile)
<1> DEFINE C0 == X!Cols(xFile)
           I0 == X!Inits(xFile)
           R0 == X!Reqs(xFile)
<1>1. /\ DOMAIN fc = C0 /\ \A x \in C0 : fc[x] \in Columns
      /\ \A x, y \in C0 : fc[x] = fc[y] => x = y
      /\ \A y : X!From(fc, y) = {x \in C0 : fc[x] = y}
      /\ \A x \in C0 : X!From(fc, fc[x]) = {x} /\ X!One(fc, fc[x]) = x
  BY IdsOf, FreshOnes, Created DEF FileTypes
<1>2. /\ DOMAIN fi = I0 /\ \A x \in I0 : fi[x] \in Initiatives
      /\ \A x, y \in I0 : fi[x] = fi[y] => x = y
      /\ \A y : X!From(fi, y) = {x \in I0 : fi[x] = y}
      /\ \A x \in I0 : X!From(fi, fi[x]) = {x} /\ X!One(fi, fi[x]) = x
  BY IdsOf, FreshOnes, Created DEF FileTypes
<1>3. /\ DOMAIN fr = R0 /\ \A x \in R0 : fr[x] \in Requirements
      /\ \A x, y \in R0 : fr[x] = fr[y] => x = y
      /\ \A y : X!From(fr, y) = {x \in R0 : fr[x] = y}
      /\ \A x \in R0 : X!From(fr, fr[x]) = {x} /\ X!One(fr, fr[x]) = x
  BY IdsOf, FreshOnes, Created DEF FileTypes
<1>4. /\ \A k \in C0 : k \in Columns /\ xFile.columns[k] \in Titles
      /\ \A i \in I0 : i \in Initiatives /\ xFile.inits[i] \in Titles
      /\ \A r \in R0 : r \in Requirements /\ xFile.reqs[r] \in X!ReqRow
  BY RowsThere DEF FileTypes
<1>5. /\ xDb.columns \in [Columns -> Titles \cup {Nil}]
      /\ xDb.inits \in [Initiatives -> Titles \cup {Nil}]
      /\ xDb.reqs \in [Requirements -> X!ReqRow \cup {Nil}]
      /\ xDb.deps \in SUBSET (Initiatives \X Initiatives)
  BY RowParts DEF FileTypes
<1>6. /\ d.columns = IF "boards" \notin xKeys THEN xDb.columns
                     ELSE [k \in Columns |-> IF X!From(fc, k) = {} THEN Nil
                                             ELSE xFile.columns[X!One(fc, k)]]
      /\ d.inits = IF "initiatives" \notin xKeys THEN xDb.inits
                   ELSE [j \in Initiatives |-> IF X!From(fi, j) = {} THEN Nil
                                               ELSE xFile.inits[X!One(fi, j)]]
      /\ d.reqs = [q \in Requirements |->
                      IF X!From(fr, q) # {} THEN X!NewReq(fc, fi, X!One(fr, q))
                      ELSE IF q \notin X!Kept THEN Nil
                      ELSE IF "boards" \in xKeys THEN [xDb.reqs[q] EXCEPT !.column = Nil]
                      ELSE xDb.reqs[q]]
      /\ d.deps = (IF xKeys \cap {"dependencies", "initiatives"} # {} THEN {} ELSE xDb.deps)
                  \cup {X!NewEnds(fi, e) : e \in X!NewDeps(fi)}
      /\ d = [columns |-> d.columns, inits |-> d.inits, reqs |-> d.reqs, deps |-> d.deps]
  BY DEF X!Replaced
<1>7. ASSUME "boards" \in xKeys
      PROVE  /\ d.columns \in [Columns -> Titles \cup {Nil}]
             /\ X!Cols(d) = {fc[x] : x \in C0}
             /\ \A x \in C0 : d.columns[fc[x]] = xFile.columns[x]
  <2>1. d.columns = [k \in Columns |-> IF X!From(fc, k) = {} THEN Nil
                                       ELSE xFile.columns[X!One(fc, k)]]
    BY <1>6, <1>7
  <2>2. \A x \in C0 : d.columns[fc[x]] = xFile.columns[x]
    BY <1>1, <2>1
  <2>3. \A k \in Columns : (\A x \in C0 : fc[x] # k) => d.columns[k] = Nil
    <3> TAKE k \in Columns
    <3>1. X!From(fc, k) = {x \in C0 : fc[x] = k}
      BY <1>1
    <3> QED BY <2>1, <3>1
  <2>4. \A k \in Columns : d.columns[k] \in Titles \cup {Nil}
    BY <1>4, <2>2, <2>3
  <2>5. X!Cols(d) = {k \in Columns : d.columns[k] # Nil}
    BY DEF X!Cols
  <2> HIDE DEF C0
  <2>6. X!Cols(d) = {fc[x] : x \in C0}
    BY <1>1, <1>4, <2>2, <2>3, <2>5, FilesAssumption
  <2>7. d.columns = [k \in Columns |-> d.columns[k]]
    BY <2>1
  <2> QED BY <2>2, <2>4, <2>6, <2>7
<1>8. ASSUME "initiatives" \in xKeys
      PROVE  /\ d.inits \in [Initiatives -> Titles \cup {Nil}]
             /\ X!Inits(d) = {fi[x] : x \in I0}
             /\ \A x \in I0 : d.inits[fi[x]] = xFile.inits[x]
  <2>1. d.inits = [j \in Initiatives |-> IF X!From(fi, j) = {} THEN Nil
                                         ELSE xFile.inits[X!One(fi, j)]]
    BY <1>6, <1>8
  <2>2. \A x \in I0 : d.inits[fi[x]] = xFile.inits[x]
    BY <1>2, <2>1
  <2>3. \A k \in Initiatives : (\A x \in I0 : fi[x] # k) => d.inits[k] = Nil
    <3> TAKE k \in Initiatives
    <3>1. X!From(fi, k) = {x \in I0 : fi[x] = k}
      BY <1>2
    <3> QED BY <2>1, <3>1
  <2>4. \A k \in Initiatives : d.inits[k] \in Titles \cup {Nil}
    BY <1>4, <2>2, <2>3
  <2>5. X!Inits(d) = {k \in Initiatives : d.inits[k] # Nil}
    BY DEF X!Inits
  <2> HIDE DEF I0
  <2>6. X!Inits(d) = {fi[x] : x \in I0}
    BY <1>2, <1>4, <2>2, <2>3, <2>5, FilesAssumption
  <2>7. d.inits = [k \in Initiatives |-> d.inits[k]]
    BY <2>1
  <2> QED BY <2>2, <2>4, <2>6, <2>7
<1>9. /\ "boards" \notin xKeys => d.columns = xDb.columns /\ X!Cols(d) = X!Cols(xDb) /\ C0 = {}
      /\ "initiatives" \notin xKeys => d.inits = xDb.inits /\ X!Inits(d) = X!Inits(xDb) /\ I0 = {}
  BY <1>6 DEF FileKeys, X!Cols, X!Inits
<1>10. /\ d.columns \in [Columns -> Titles \cup {Nil}]
       /\ d.inits \in [Initiatives -> Titles \cup {Nil}]
       /\ X!Cols(d) \subseteq Columns /\ X!Inits(d) \subseteq Initiatives
  BY <1>5, <1>7, <1>8, <1>9 DEF X!Cols, X!Inits
<1>11. \A x : X!Mapped(fi, x, X!Stay) # Nil => X!Mapped(fi, x, X!Stay) \in X!Inits(d)
  <2> TAKE x
  <2>1. CASE "initiatives" \in xKeys
    BY <1>2, <1>8, <2>1 DEF X!Mapped, X!Stay
  <2>2. CASE "initiatives" \notin xKeys
    BY <1>2, <1>9, <2>2 DEF X!Mapped, X!Stay
  <2> QED BY <2>1, <2>2
<1>12. \A x : X!Mapped(fc, x, {}) \in X!Cols(d) \cup {Nil}
  BY <1>1, <1>7, <1>9 DEF X!Mapped
<1>13. ASSUME NEW r \in R0
       PROVE  /\ X!NewReq(fc, fi, r) \in X!ReqRow
              /\ X!NewReq(fc, fi, r).title = xFile.reqs[r].title
              /\ X!NewReq(fc, fi, r).parent = X!NewParent(fi, r)
              /\ X!NewReq(fc, fi, r).column = X!Mapped(fc, xFile.reqs[r].column, {})
              /\ X!NewParent(fi, r) \in X!Inits(d)
  <2>1. X!NewParent(fi, r) \in X!Inits(d)
    BY <1>11 DEF X!NewParent
  <2>2. X!Mapped(fc, xFile.reqs[r].column, {}) \in Columns \cup {Nil}
    BY <1>10, <1>12
  <2>3. xFile.reqs[r].title \in Titles
    BY <1>4 DEF X!ReqRow
  <2> QED BY <1>10, <2>1, <2>2, <2>3 DEF X!NewReq, X!ReqRow
<1>14. ASSUME NEW q \in X!Kept
       PROVE  LET row == IF "boards" \in xKeys THEN [xDb.reqs[q] EXCEPT !.column = Nil]
                         ELSE xDb.reqs[q]
              IN  row \in X!ReqRow /\ row.parent \in X!Inits(d) /\ row.column \in X!Cols(d) \cup {Nil}
  <2>1. q \in X!Reqs(xDb) /\ "initiatives" \notin xKeys
    BY DEF X!Kept
  <2>2. xDb.reqs[q] \in X!ReqRow
    BY <2>1, RowsThere DEF FileTypes
  <2>3. xDb.reqs[q].parent \in X!Inits(d) /\ xDb.reqs[q].column \in X!Cols(xDb) \cup {Nil}
    BY <1>9, <2>1 DEF FileTypes, X!Sound
  <2>4. CASE "boards" \in xKeys
    <3>1. [xDb.reqs[q] EXCEPT !.column = Nil] \in X!ReqRow
          /\ [xDb.reqs[q] EXCEPT !.column = Nil].parent = xDb.reqs[q].parent
          /\ [xDb.reqs[q] EXCEPT !.column = Nil].column = Nil
      BY <2>2 DEF X!ReqRow
    <3> QED BY <2>3, <2>4, <3>1
  <2>5. CASE "boards" \notin xKeys
    BY <1>9, <2>2, <2>3, <2>5
  <2> QED BY <2>4, <2>5
<1>15. ASSUME NEW q \in Requirements
       PROVE  /\ \A r \in R0 : fr[r] = q => d.reqs[q] = X!NewReq(fc, fi, r)
              /\ (\A r \in R0 : fr[r] # q) =>
                    \/ d.reqs[q] = Nil
                    \/ /\ q \in X!Kept /\ d.reqs[q] \in X!ReqRow
                       /\ d.reqs[q].parent \in X!Inits(d)
                       /\ d.reqs[q].column \in X!Cols(d) \cup {Nil}
  <2>1. d.reqs[q] = IF X!From(fr, q) # {} THEN X!NewReq(fc, fi, X!One(fr, q))
                    ELSE IF q \notin X!Kept THEN Nil
                    ELSE IF "boards" \in xKeys THEN [xDb.reqs[q] EXCEPT !.column = Nil]
                    ELSE xDb.reqs[q]
    BY <1>6
  <2>2. ASSUME NEW r \in R0, fr[r] = q
        PROVE  d.reqs[q] = X!NewReq(fc, fi, r)
    <3>1. X!From(fr, q) # {} /\ X!One(fr, q) = r
      BY <1>3, <2>2
    <3> QED BY <2>1, <3>1
  <2>3. ASSUME \A r \in R0 : fr[r] # q
        PROVE  \/ d.reqs[q] = Nil
               \/ /\ q \in X!Kept /\ d.reqs[q] \in X!ReqRow
                  /\ d.reqs[q].parent \in X!Inits(d)
                  /\ d.reqs[q].column \in X!Cols(d) \cup {Nil}
    <3>1. X!From(fr, q) = {}
      <4>1. X!From(fr, q) = {x \in R0 : fr[x] = q}
        BY <1>3
      <4> QED BY <2>3, <4>1
    <3>2. CASE q \notin X!Kept
      BY <2>1, <3>1, <3>2
    <3>3. CASE q \in X!Kept
      BY <1>14, <2>1, <3>1, <3>3
    <3> QED BY <3>2, <3>3
  <2> QED BY <2>2, <2>3
<1>16. \A q \in Requirements :
          \/ d.reqs[q] = Nil
          \/ /\ d.reqs[q] \in X!ReqRow
             /\ d.reqs[q].parent \in X!Inits(d) /\ d.reqs[q].column \in X!Cols(d) \cup {Nil}
  <2> TAKE q \in Requirements
  <2>1. CASE \E r \in R0 : fr[r] = q
    BY <1>12, <1>13, <1>15, <2>1
  <2>2. CASE \A r \in R0 : fr[r] # q
    BY <1>15, <2>2
  <2> QED BY <2>1, <2>2
<1>17. d.deps \subseteq X!Inits(d) \X X!Inits(d)
  <2>1. \A e \in X!NewDeps(fi) : X!NewEnds(fi, e) \in X!Inits(d) \X X!Inits(d)
    BY <1>11 DEF X!NewDeps, X!NewEnds
  <2>2. xKeys \cap {"dependencies", "initiatives"} = {} => xDb.deps \subseteq X!Inits(d) \X X!Inits(d)
    BY <1>9 DEF FileTypes, X!Sound
  <2> QED BY <1>6, <2>1, <2>2
<1>18. d \in X!Rows
  <2>1. d.reqs \in [Requirements -> X!ReqRow \cup {Nil}]
    <3>1. d.reqs = [q \in Requirements |-> d.reqs[q]]
      BY <1>6
    <3> QED BY <1>16, <3>1
  <2>2. d.deps \in SUBSET (Initiatives \X Initiatives)
    BY <1>10, <1>17
  <2>3. [columns |-> d.columns, inits |-> d.inits, reqs |-> d.reqs, deps |-> d.deps] \in X!Rows
    BY <1>10, <2>1, <2>2, RowsIf
  <2>4. d = [columns |-> d.columns, inits |-> d.inits, reqs |-> d.reqs, deps |-> d.deps]
    BY <1>6
  <2> QED BY <2>3, <2>4
<1>19. X!Sound(d)
  BY <1>16, <1>17 DEF X!Sound, X!Reqs
<1>20. ASSUME xKeys = X!Kinds PROVE X!Named(d) = X!Named(xFile)
  <2>1. "boards" \in xKeys /\ "initiatives" \in xKeys /\ X!Kept = {} /\ X!Stay = {}
        /\ xKeys \cap {"dependencies", "initiatives"} # {} /\ X!Sound(xFile)
    BY <1>20 DEF X!Kinds, X!Kept, X!Stay, FileKeys
  <2>2. {d.columns[k] : k \in X!Cols(d)} = {xFile.columns[k] : k \in X!Cols(xFile)}
    BY <1>7, <2>1
  <2>3. {d.inits[i] : i \in X!Inits(d)} = {xFile.inits[i] : i \in X!Inits(xFile)}
    BY <1>8, <2>1
  <2> DEFINE names(e, r) == <<e.reqs[r].title, e.inits[e.reqs[r].parent],
                              IF e.reqs[r].column = Nil THEN Nil ELSE e.columns[e.reqs[r].column]>>
  <2>4. X!Reqs(d) = {fr[r] : r \in R0}
    <3>1. X!Reqs(d) = {q \in Requirements : d.reqs[q] # Nil}
      BY DEF X!Reqs
    <3>2. \A q \in Requirements : (\A r \in R0 : fr[r] # q) => d.reqs[q] = Nil
      BY <1>15, <2>1
    <3>3. \A r \in R0 : d.reqs[fr[r]] # Nil
      <4> TAKE r \in R0
      <4>1. d.reqs[fr[r]] \in X!ReqRow
        BY <1>3, <1>13, <1>15
      <4> QED BY <4>1, FilesAssumption DEF X!ReqRow
    <3> HIDE DEF R0
    <3> QED BY <1>3, <3>1, <3>2, <3>3
  <2>5. ASSUME NEW r \in R0
        PROVE  names(d, fr[r]) = names(xFile, r)
    <3>1. d.reqs[fr[r]] = X!NewReq(fc, fi, r)
      BY <1>3, <1>15
    <3>2. xFile.reqs[r].parent \in I0 /\ xFile.reqs[r].column \in C0 \cup {Nil}
      BY <2>1 DEF X!Sound
    <3>3. d.reqs[fr[r]].title = xFile.reqs[r].title
      BY <1>13, <3>1
    <3>4. d.reqs[fr[r]].parent = fi[xFile.reqs[r].parent]
      BY <1>2, <1>13, <3>1, <3>2 DEF X!NewParent, X!Mapped
    <3>5. d.inits[d.reqs[fr[r]].parent] = xFile.inits[xFile.reqs[r].parent]
      BY <1>8, <2>1, <3>2, <3>4
    <3>6. d.reqs[fr[r]].column = IF xFile.reqs[r].column \in C0 THEN fc[xFile.reqs[r].column] ELSE Nil
      BY <1>1, <1>13, <3>1 DEF X!Mapped
    <3>7. Nil \notin Columns
      BY FilesAssumption
    <3>8. CASE xFile.reqs[r].column \in C0
      <4>1. d.reqs[fr[r]].column = fc[xFile.reqs[r].column] /\ d.reqs[fr[r]].column # Nil
        BY <1>1, <3>6, <3>7, <3>8
      <4>2. xFile.reqs[r].column # Nil
        BY <1>4, <3>7, <3>8
      <4>3. d.columns[d.reqs[fr[r]].column] = xFile.columns[xFile.reqs[r].column]
        BY <1>7, <2>1, <3>8, <4>1
      <4> QED BY <3>3, <3>5, <4>1, <4>2, <4>3
    <3>9. CASE xFile.reqs[r].column \notin C0
      <4>1. xFile.reqs[r].column = Nil /\ d.reqs[fr[r]].column = Nil
        BY <3>2, <3>6, <3>9
      <4> QED BY <3>3, <3>5, <4>1
    <3> QED BY <3>8, <3>9
  <2>6. {names(d, q) : q \in X!Reqs(d)} = {names(xFile, r) : r \in X!Reqs(xFile)}
    <3> HIDE DEF names
    <3> QED BY <2>4, <2>5
  <2>7. ASSUME NEW e \in xFile.deps
        PROVE  /\ e \in X!NewDeps(fi)
               /\ X!NewEnds(fi, e)[1] = fi[e[1]] /\ X!NewEnds(fi, e)[2] = fi[e[2]]
               /\ d.inits[fi[e[1]]] = xFile.inits[e[1]] /\ d.inits[fi[e[2]]] = xFile.inits[e[2]]
    <3>1. e[1] \in I0 /\ e[2] \in I0
      BY <2>1 DEF X!Sound
    <3>2. X!NewEnds(fi, e) = <<fi[e[1]], fi[e[2]]>>
      BY <1>2, <3>1 DEF X!NewEnds, X!Mapped
    <3>3. fi[e[1]] # Nil /\ fi[e[2]] # Nil
      BY <1>2, <3>1, FilesAssumption
    <3>4. e \in X!NewDeps(fi)
      BY <3>2, <3>3 DEF X!NewDeps
    <3> QED BY <1>8, <2>1, <3>1, <3>2, <3>4
  <2>8. d.deps = {X!NewEnds(fi, e) : e \in xFile.deps}
    <3>1. X!NewDeps(fi) = xFile.deps
      BY <2>7 DEF X!NewDeps
    <3> QED BY <1>6, <2>1, <3>1
  <2>9. {<<d.inits[p[1]], d.inits[p[2]]>> : p \in d.deps}
        = {<<xFile.inits[p[1]], xFile.inits[p[2]]>> : p \in xFile.deps}
    BY <2>7, <2>8
  <2> QED BY <2>2, <2>3, <2>6, <2>9 DEF X!Named
<1> QED BY <1>18, <1>19, <1>20

LEMMA FilesReplace ==
    ASSUME FilesInv, X!Replace
    PROVE  FilesInv' /\ (xKeys = X!Kinds => X!Named(xDb)' = X!Named(xFile))
<1> USE DEF FilesInv
<1>1. PICK fc \in X!CreateMaps(X!Cols(xFile), X!FreshCols),
           fi \in X!CreateMaps(X!Inits(xFile), X!FreshInits),
           fr \in X!CreateMaps(X!Reqs(xFile), X!FreshReqs) :
              IF \E r \in X!Reqs(xFile) : X!NewParent(fi, r) = Nil THEN X!ImportFails
              ELSE xDb' = X!Replaced(fc, fi, fr)
  BY DEF X!Replace
<1>2. xFile' = xFile /\ xKeys' = xKeys
  BY DEF X!Replace
<1>3. xLast' = "replace" /\ xOps' \in 0 .. MaxImports
  BY OpTypes DEF X!Replace, FileTypes
<1>4. FileKeys' /\ MergedBefore'
  BY <1>2, <1>3 DEF FileKeys, MergedBefore
<1>5. CASE \E r \in X!Reqs(xFile) : X!NewParent(fi, r) = Nil
  <2>1. xDb' = xDb
    BY <1>1, <1>5 DEF X!ImportFails
  <2>2. xKeys # X!Kinds
    <3> SUFFICES ASSUME xKeys = X!Kinds, NEW r \in X!Reqs(xFile) PROVE X!NewParent(fi, r) # Nil
      BY <1>5
    <3>1. xFile.reqs[r].parent \in X!Inits(xFile)
      BY DEF FileKeys, X!Sound
    <3>2. DOMAIN fi = X!Inits(xFile) /\ \A i \in X!Inits(xFile) : fi[i] \in X!FreshInits
      BY IdsOf, FreshOnes, Created DEF FileTypes
    <3>3. X!NewParent(fi, r) \in Initiatives
      BY <3>1, <3>2, FreshOnes DEF X!NewParent, X!Mapped
    <3> QED BY <3>3, FilesAssumption
  <2> QED BY <1>2, <1>3, <1>4, <2>1, <2>2 DEF FileTypes
<1>6. CASE \A r \in X!Reqs(xFile) : X!NewParent(fi, r) # Nil
  <2>1. xDb' = X!Replaced(fc, fi, fr)
    BY <1>1, <1>6
  <2>2. xDb' \in X!Rows /\ X!Sound(xDb') /\ (xKeys = X!Kinds => X!Named(xDb') = X!Named(xFile))
    BY <1>6, <2>1, ReplaceWrites
  <2> QED BY <1>2, <1>3, <1>4, <2>2 DEF FileTypes
<1> QED BY <1>5, <1>6

LEMMA FilesExport ==
    ASSUME FilesInv, NEW ks \in SUBSET X!Kinds \ {{}}, X!Export(ks)
    PROVE  FilesInv'
<1> USE DEF FilesInv
<1> DEFINE file == [columns |-> IF "boards" \in ks THEN xDb.columns ELSE X!Empty.columns,
                    inits |-> IF "initiatives" \in ks THEN xDb.inits ELSE X!Empty.inits,
                    reqs |-> IF "requirements" \in ks THEN xDb.reqs ELSE X!Empty.reqs,
                    deps |-> IF "dependencies" \in ks THEN xDb.deps ELSE {}]
<1>1. xFile' = file /\ xKeys' = ks /\ xLast' = "export" /\ xDb' = xDb /\ xOps' = xOps
  BY DEF X!Export
<1>2. /\ X!Empty.columns = [k \in Columns |-> Nil] /\ X!Empty.inits = [i \in Initiatives |-> Nil]
      /\ X!Empty.reqs = [r \in Requirements |-> Nil]
  BY DEF X!Empty
<1>3. file \in X!Rows
  BY <1>2, RowParts DEF FileTypes, X!Rows
<1>4. "boards" \notin ks => X!Cols(file) = {}
  BY <1>2 DEF X!Cols
<1>5. "initiatives" \notin ks => X!Inits(file) = {}
  BY <1>2 DEF X!Inits
<1>6. ks = X!Kinds => X!Sound(file)
  <2> SUFFICES ASSUME ks = X!Kinds PROVE X!Sound(file)
    OBVIOUS
  <2>1. file = [columns |-> xDb.columns, inits |-> xDb.inits, reqs |-> xDb.reqs, deps |-> xDb.deps]
    BY DEF X!Kinds
  <2>2. file = xDb
    BY <2>1, RowParts DEF FileTypes
  <2> QED BY <2>2 DEF FileTypes
<1> HIDE DEF file
<1> QED BY <1>1, <1>3, <1>4, <1>5, <1>6 DEF FileTypes, FileKeys, MergedBefore

LEMMA FilesEdited ==
    ASSUME FilesInv, X!Edit \/ X!Clear
    PROVE  FilesInv'
<1> USE DEF FilesInv
<1>1. xFile' = xFile /\ xKeys' = xKeys
  BY DEF X!Edit, X!Clear
<1>2. xLast' = "edit" /\ xOps' \in 0 .. MaxImports
  BY OpTypes DEF X!Edit, X!Clear, FileTypes
<1>3. xDb' \in X!Rows /\ X!Sound(xDb)'
  BY EditTypes, EmptyIs DEF X!Clear, FileTypes
<1> QED BY <1>1, <1>2, <1>3 DEF FileTypes, FileKeys, MergedBefore

LEMMA FilesSame == FilesInv /\ UNCHANGED xvars => FilesInv'
<1> SUFFICES ASSUME FilesInv, UNCHANGED xvars PROVE FilesInv'
  OBVIOUS
<1>1. /\ xDb' = xDb /\ xFile' = xFile /\ xKeys' = xKeys /\ xLast' = xLast /\ xOps' = xOps
  BY DEF xvars
<1>2. FileTypes' /\ FileKeys'
  BY <1>1 DEF FilesInv, FileTypes, FileKeys
<1>3. MergedBefore'
  <2>1. X!FreshInits' = X!FreshInits /\ X!FreshReqs' = X!FreshReqs
    BY <1>1 DEF X!FreshInits, X!FreshReqs
  <2>2. X!Homed' = X!Homed /\ X!InitMaps' = X!InitMaps
    BY <1>1, <2>1 DEF X!Homed, X!InitMaps
  <2>3. \A r, gi : X!Matches(r, gi)' = X!Matches(r, gi)
    BY <1>1 DEF X!Matches
  <2>4. \A gi : X!ReqMaps(gi)' = X!ReqMaps(gi)
    BY <1>1, <2>1, <2>3 DEF X!ReqMaps
  <2>5. \A gi, gr : X!MergeFails(gi, gr)' <=> X!MergeFails(gi, gr)
    BY <1>1 DEF X!MergeFails, X!ParentOf, X!EndsOf, X!DepsOf
  <2>6. \A gi, gr : X!Merged(gi, gr)' = X!Merged(gi, gr)
    BY <1>1 DEF X!Merged, X!MergedReq, X!ParentOf, X!EndsOf, X!DepsOf
  <2> QED BY <1>1, <2>2, <2>4, <2>5, <2>6 DEF FilesInv, MergedBefore
<1> QED BY <1>2, <1>3 DEF FilesInv

LEMMA FilesNext == FilesInv /\ X!Next => FilesInv'
  BY FilesExport, FilesEdited, FilesMerge, FilesReplace DEF X!Next

(* What an import does, seen from before it.                               *)
LEMMA ImportDoes ==
    ASSUME FilesInv, X!Next
    PROVE  /\ X!Imports("replace") /\ xKeys = X!Kinds => X!Named(xDb)' = X!Named(xFile)
           /\ X!Imports("merge") /\ xLast = "merge" /\ X!Distinct(xDb) /\ X!Homed => xDb' = xDb
<1>1. ASSUME X!Imports("replace"), xKeys = X!Kinds
      PROVE  X!Named(xDb)' = X!Named(xFile)
  <2>1. X!Replace
    BY <1>1 DEF X!Next, X!Imports, X!Edit, X!Export, X!Merge, X!Clear, X!Op
  <2> QED BY <1>1, <2>1, FilesReplace
<1>2. ASSUME X!Imports("merge"), xLast = "merge", X!Distinct(xDb), X!Homed
      PROVE  xDb' = xDb
  <2>1. X!Merge
    BY <1>2 DEF X!Next, X!Imports, X!Edit, X!Export, X!Replace, X!Clear, X!Op
  <2>2. PICK fi \in X!InitMaps : \E fr \in X!ReqMaps(fi) :
           IF X!MergeFails(fi, fr) THEN X!ImportFails ELSE xDb' = X!Merged(fi, fr)
    BY <2>1 DEF X!Merge
  <2>3. PICK fr \in X!ReqMaps(fi) :
           IF X!MergeFails(fi, fr) THEN X!ImportFails ELSE xDb' = X!Merged(fi, fr)
    BY <2>2
  <2>4. X!MergeFails(fi, fr) \/ X!Merged(fi, fr) = xDb
    BY <1>2 DEF FilesInv, MergedBefore
  <2> QED BY <2>3, <2>4 DEF X!ImportFails
<1> QED BY <1>1, <1>2

(* Imports restore (ImportExport): a full import in place of what there is *)
(* gives back the database that was exported, whatever happened in         *)
(* between; and to merge a file once more, when its rows can be told apart *)
(* and nothing has been edited since, changes nothing.                     *)
THEOREM RestoringImports == MCSpec => ImportsRestore
  <1>1. MCInit => FilesInv
    BY FilesInit DEF MCInit
  <1>2. FilesInv /\ [MCNext]_allvars => FilesInv'
    BY FilesNext, FilesSame
    DEF MCNext, Proposals_, Files_, SignIn_, Panel_, Cards_, Owners_, Board_, allvars
  <1>3. FilesInv /\ [MCNext]_allvars =>
           [/\ X!Imports("replace") /\ xKeys = X!Kinds => X!Named(xDb') = X!Named(xFile)
            /\ X!Imports("merge") /\ xLast = "merge" /\ X!Distinct(xDb) /\ X!Homed
               => xDb' = xDb]_(X!vars)
    BY ImportDoes
    DEF MCNext, Proposals_, Files_, SignIn_, Panel_, Cards_, Owners_, Board_, allvars, xvars, X!vars
  <1> QED BY <1>1, <1>2, <1>3, PTL DEF MCSpec, ImportsRestore, X!ImportsRestore

-----------------------------------------------------------------------------
(* The page of a board (ExecutionBoard).                                   *)

LEMMA BoardSizes == \A ids : B!Cardinality(ids) = Cardinality(ids)
  BY DEF B!Cardinality, Cardinality

LEMMA LeastNat ==
    ASSUME NEW ns, ns \subseteq Nat, ns # {}
    PROVE  \E n \in ns : \A m \in ns : n <= m
<1> DEFINE less == OpToRel(<, Nat)
<1>1. PICK n \in ns : \A m \in ns : <<m, n>> \notin less
  <2>1. IsWellFoundedOn(less, Nat)
    BY NatLessThanWellFounded
  <2> HIDE DEF less
  <2> QED BY <2>1, WFMin
<1>2. \A m \in ns : ~(m < n)
  BY <1>1 DEF OpToRel
<1>3. \A m \in ns : n <= m
  BY <1>2
<1> QED BY <1>3

LEMMA LeastOne ==
    ASSUME NEW ns, ns \subseteq Nat, ns # {}
    PROVE  B!Min(ns) \in ns
<1>1. \E n \in ns : \A m \in ns : n <= m
  BY LeastNat
<1> QED BY <1>1 DEF B!Min

LEMMA GreatestOne ==
    ASSUME NEW ns, ns \subseteq Nat, ns # {}, IsFiniteSet(ns)
    PROVE  B!Max(ns) \in ns
<1> DEFINE ord == {p \in Nat \X Nat : p[1] < p[2]}
<1>1. \A x, y \in ns : <<x, y>> \in ord <=> x < y
  OBVIOUS
<1>2. Orders(ord, ns)
  BY <1>1 DEF Orders
<1>3. Cardinality(ns) \in Nat /\ Cardinality(ns) # 0
  BY FS_CardinalityType, FS_EmptySet
<1> DEFINE last == Cardinality(ns) - 1
<1>4. last \in Nat /\ last < Cardinality(ns)
  BY <1>3
<1>5. Ranked(ns, ord)
  BY <1>2, Ranks
<1> HIDE DEF ord
<1>6. PICK x \in ns : RankIn(ns, ord, x) = last
  BY <1>4, <1>5 DEF Ranked
<1>7. \A y \in ns : x >= y
  <2> SUFFICES ASSUME NEW y \in ns, x < y PROVE FALSE
    OBVIOUS
  <2>1. RankIn(ns, ord, x) < RankIn(ns, ord, y) /\ RankIn(ns, ord, y) \in Nat
        /\ RankIn(ns, ord, y) < Cardinality(ns)
    BY <1>1, <1>5 DEF Ranked
  <2> QED BY <1>3, <1>6, <2>1
<1> QED BY <1>7 DEF B!Max

-----------------------------------------------------------------------------
(* The cards of a column, in their order. *)
LEMMA SortedIs ==
    ASSUME NEW rows \in [BoardCards -> B!Row], NEW cs \in SUBSET BoardCards,
           NEW seq, seq = B!Sorted(rows, cs)
    PROVE  /\ seq \in Seq(cs)
           /\ B!ToSet(seq) = cs
           /\ \A x, y \in DOMAIN seq : seq[x] = seq[y] => x = y
           /\ \A c, d \in cs : B!Before(rows, c, d) => B!At(seq, c) < B!At(seq, d)
           /\ \A c, d \in cs : B!At(seq, c) < B!At(seq, d) => B!Before(rows, c, d)
<1> DEFINE ord == {p \in BoardCards \X BoardCards : B!Before(rows, p[1], p[2])}
           size == Cardinality(cs)
<1>1. IsFiniteSet(cs) /\ cs \subseteq Nat
  BY BoardsAssumption, FS_Subset
<1>2. \A c \in cs : rows[c].order \in Nat
  BY DEF B!Row
<1>3. \A c, d \in cs : <<c, d>> \in ord <=> B!Before(rows, c, d)
  OBVIOUS
<1>4. Orders(ord, cs)
  BY <1>1, <1>2, <1>3 DEF Orders, B!Before
<1>5. \A c \in cs : B!Rank(rows, cs, c) = RankIn(cs, ord, c)
  <2> TAKE c \in cs
  <2>1. {d \in cs : B!Before(rows, d, c)} = {d \in cs : <<d, c>> \in ord}
    BY <1>3
  <2> QED BY <2>1, BoardSizes DEF B!Rank, RankIn
<1>6. Ranked(cs, ord)
  BY <1>1, <1>4, Ranks
<1> HIDE DEF ord
<1>7. /\ size \in Nat
      /\ \A x \in cs : B!Rank(rows, cs, x) \in Nat /\ B!Rank(rows, cs, x) < size
      /\ \A x, y \in cs : B!Before(rows, x, y) => B!Rank(rows, cs, x) < B!Rank(rows, cs, y)
      /\ \A x, y \in cs : B!Rank(rows, cs, x) = B!Rank(rows, cs, y) => x = y
      /\ \A n \in Nat : n < size => \E x \in cs : B!Rank(rows, cs, x) = n
  <2>1. size \in Nat
    BY <1>6 DEF Ranked
  <2>2. \A x \in cs : B!Rank(rows, cs, x) \in Nat /\ B!Rank(rows, cs, x) < size
    BY <1>5, <1>6 DEF Ranked
  <2>3. \A x, y \in cs : B!Before(rows, x, y) => B!Rank(rows, cs, x) < B!Rank(rows, cs, y)
    <3> SUFFICES ASSUME NEW x \in cs, NEW y \in cs, B!Before(rows, x, y)
                 PROVE  B!Rank(rows, cs, x) < B!Rank(rows, cs, y)
      OBVIOUS
    <3>1. <<x, y>> \in ord
      BY <1>3
    <3>2. RankIn(cs, ord, x) < RankIn(cs, ord, y)
      BY <1>6, <3>1 DEF Ranked
    <3> QED BY <1>5, <3>2
  <2>4. \A x, y \in cs : B!Rank(rows, cs, x) = B!Rank(rows, cs, y) => x = y
    BY <1>5, <1>6 DEF Ranked
  <2>5. \A n \in Nat : n < size => \E x \in cs : B!Rank(rows, cs, x) = n
    BY <1>5, <1>6 DEF Ranked
  <2> QED BY <2>1, <2>2, <2>3, <2>4, <2>5
<1> HIDE DEF size
<1>8. seq = [n \in 1 .. size |-> CHOOSE c \in cs : B!Rank(rows, cs, c) = n - 1]
  BY BoardSizes DEF B!Sorted, size
<1>9. ASSUME NEW n \in 1 .. size
      PROVE  seq[n] \in cs /\ B!Rank(rows, cs, seq[n]) = n - 1
  <2>1. n - 1 \in Nat /\ n - 1 < size
    BY <1>7
  <2>2. \E c \in cs : B!Rank(rows, cs, c) = n - 1
    BY <1>7, <2>1
  <2>3. seq[n] = CHOOSE c \in cs : B!Rank(rows, cs, c) = n - 1
    BY <1>8
  <2> QED BY <2>2, <2>3
<1>10. DOMAIN seq = 1 .. size
  BY <1>8
<1>11. ASSUME NEW c \in cs
       PROVE  /\ B!Rank(rows, cs, c) + 1 \in 1 .. size
              /\ seq[B!Rank(rows, cs, c) + 1] = c
              /\ B!At(seq, c) = B!Rank(rows, cs, c) + 1
  <2> DEFINE r == B!Rank(rows, cs, c)
  <2>1. r \in Nat /\ r < size
    BY <1>7
  <2> HIDE DEF r
  <2>2. r + 1 \in 1 .. size /\ (r + 1) - 1 = r
    BY <1>7, <2>1
  <2>3. seq[r + 1] = c
    BY <1>7, <1>9, <2>2 DEF r
  <2>4. \A n \in DOMAIN seq : seq[n] = c => n = r + 1
    <3> TAKE n \in DOMAIN seq
    <3> HAVE seq[n] = c
    <3>1. r = n - 1
      BY <1>9, <1>10 DEF r
    <3> QED BY <1>10, <1>7, <2>1, <3>1
  <2>5. B!At(seq, c) = CHOOSE n \in DOMAIN seq : seq[n] = c
    BY DEF B!At
  <2>6. B!At(seq, c) = r + 1
    BY <1>10, <2>2, <2>3, <2>4, <2>5
  <2> QED BY <2>2, <2>3, <2>6 DEF r
<1>12. seq \in Seq(cs)
  <2>1. seq \in [1 .. size -> cs]
    BY <1>8, <1>9
  <2> QED BY <1>7, <2>1, IsASeq
<1>13. B!ToSet(seq) = cs
  BY <1>9, <1>10, <1>11 DEF B!ToSet
<1>14. \A x, y \in DOMAIN seq : seq[x] = seq[y] => x = y
  <2> TAKE x, y \in DOMAIN seq
  <2>1. seq[x] = seq[y] => x - 1 = y - 1
    BY <1>9, <1>10
  <2>2. x \in Int /\ y \in Int
    BY <1>7, <1>10
  <2> QED BY <2>1, <2>2
<1>15. ASSUME NEW c \in cs, NEW d \in cs
       PROVE  B!Before(rows, c, d) <=> B!At(seq, c) < B!At(seq, d)
  <2>1. B!Rank(rows, cs, c) \in Nat /\ B!Rank(rows, cs, d) \in Nat
    BY <1>7
  <2>2. B!At(seq, c) < B!At(seq, d) <=> B!Rank(rows, cs, c) < B!Rank(rows, cs, d)
    BY <1>11, <2>1
  <2>3. CASE c = d
    <3>1. ~B!Before(rows, c, d)
      BY <1>1, <1>2, <2>3 DEF B!Before
    <3> QED BY <2>1, <2>2, <2>3, <3>1
  <2>4. CASE c # d
    <3>1. B!Before(rows, c, d) \/ B!Before(rows, d, c)
      BY <1>1, <1>2, <2>4 DEF B!Before
    <3>2. B!Before(rows, c, d) => B!Rank(rows, cs, c) < B!Rank(rows, cs, d)
      BY <1>7
    <3>3. B!Before(rows, d, c) => B!Rank(rows, cs, d) < B!Rank(rows, cs, c)
      BY <1>7
    <3> QED BY <2>1, <2>2, <3>1, <3>2, <3>3
  <2> QED BY <2>3, <2>4
<1> QED BY <1>12, <1>13, <1>14, <1>15

(* A board as it is shown or sent: every card in one place at most.        *)
BoardLayout(m, b) ==
    /\ m \in [B!ColumnsOf(b) \cup {0} -> Seq(BoardCards)]
    /\ \A k \in DOMAIN m : \A x, y \in DOMAIN m[k] : m[k][x] = m[k][y] => x = y
    /\ \A k, j \in DOMAIN m : k # j => B!ToSet(m[k]) \cap B!ToSet(m[j]) = {}

LEMMA FallbackIn ==
    ASSUME NEW r, NEW b
    PROVE  B!columnIdForStatusFallback(r, b) \in B!ColumnsOf(b) \cup {0}
<1> DEFINE fit == {k \in B!ColumnsOf(b) : MappedTo[k] = B!effectivePmStatus(r)}
<1>1. fit \subseteq Nat /\ fit \subseteq B!ColumnsOf(b)
  BY BoardsAssumption DEF B!ColumnsOf
<1>2. B!columnIdForStatusFallback(r, b) =
         IF B!effectivePmStatus(r) = "NOT_STARTED" \/ fit = {} THEN 0 ELSE B!Min(fit)
  BY DEF B!columnIdForStatusFallback, B!Unassigned
<1> HIDE DEF fit
<1>3. fit # {} => B!Min(fit) \in fit
  BY <1>1, LeastOne
<1> QED BY <1>1, <1>2, <1>3

LEMMA KeyIn ==
    ASSUME NEW r, NEW b
    PROVE  B!ColumnKey(r, b) \in B!ColumnsOf(b) \cup {0}
  BY FallbackIn DEF B!ColumnKey

LEMMA ShownLayout ==
    ASSUME NEW rows \in [BoardCards -> B!Row], NEW b
    PROVE  /\ BoardLayout(B!buildColumnItemIds(rows, b), b)
           /\ DOMAIN B!buildColumnItemIds(rows, b) = B!ColumnsOf(b) \cup {0}
           /\ \A k \in B!ColumnsOf(b) \cup {0} :
                 /\ B!buildColumnItemIds(rows, b)[k] = B!Sorted(rows, B!Shows(rows, b, k))
                 /\ B!ToSet(B!buildColumnItemIds(rows, b)[k]) = B!Shows(rows, b, k)
<1> DEFINE m == B!buildColumnItemIds(rows, b)
           ks == B!ColumnsOf(b) \cup {0}
<1>1. m = [k \in ks |-> B!Sorted(rows, B!Shows(rows, b, k))]
  BY DEF B!buildColumnItemIds, B!Unassigned
<1> HIDE DEF m, ks
<1>2. ASSUME NEW k \in ks
      PROVE  /\ m[k] \in Seq(BoardCards) /\ B!ToSet(m[k]) = B!Shows(rows, b, k)
             /\ \A x, y \in DOMAIN m[k] : m[k][x] = m[k][y] => x = y
  <2>1. m[k] = B!Sorted(rows, B!Shows(rows, b, k))
    BY <1>1
  <2>2. B!Shows(rows, b, k) \in SUBSET BoardCards
    BY DEF B!Shows, B!Existing
  <2>3. /\ m[k] \in Seq(B!Shows(rows, b, k)) /\ B!ToSet(m[k]) = B!Shows(rows, b, k)
        /\ \A x, y \in DOMAIN m[k] : m[k][x] = m[k][y] => x = y
    BY <2>1, <2>2, SortedIs
  <2>4. m[k] \in Seq(BoardCards)
    BY <2>2, <2>3, SeqMonotonic
  <2> QED BY <2>3, <2>4
<1>3. \A k, j \in ks : k # j => B!ToSet(m[k]) \cap B!ToSet(m[j]) = {}
  <2> SUFFICES ASSUME NEW k \in ks, NEW j \in ks, NEW c \in B!ToSet(m[k]) \cap B!ToSet(m[j])
               PROVE  k = j
    OBVIOUS
  <2>1. c \in B!Shows(rows, b, k) /\ c \in B!Shows(rows, b, j)
    BY <1>2
  <2> QED BY <2>1 DEF B!Shows
<1>4. m \in [ks -> Seq(BoardCards)] /\ DOMAIN m = ks
  BY <1>1, <1>2
<1> QED BY <1>1, <1>2, <1>3, <1>4 DEF BoardLayout, m, ks

-----------------------------------------------------------------------------
(* A part of a column.                                                     *)
LEMMA PartOf ==
    ASSUME NEW seq \in Seq(BoardCards), NEW m \in Nat \ {0}, NEW n \in Nat,
           m <= n + 1, n <= Len(seq)
    PROVE  /\ SubSeq(seq, m, n) \in Seq(BoardCards)
           /\ Len(SubSeq(seq, m, n)) = (n + 1) - m
           /\ \A x \in 1 .. (n + 1) - m : SubSeq(seq, m, n)[x] = seq[(m + x) - 1]
<1>1. Len(seq) \in Nat
  BY LenProperties
<1>2. \A x \in m .. n : x \in 1 .. Len(seq)
  BY <1>1
<1>3. \A x \in m .. n : seq[x] \in BoardCards
  BY <1>2, ElementOfSeq
<1>4. m \in Int /\ n \in Int
  OBVIOUS
<1> DEFINE s == SubSeq(seq, m, n)
<1>5. /\ s \in Seq(BoardCards) /\ Len(s) = IF m <= n THEN n - m + 1 ELSE 0
      /\ \A x \in 1 .. n - m + 1 : s[x] = seq[m + x - 1]
  BY <1>3, <1>4, SubSeqProperties
<1> HIDE DEF s
<1>6. Len(s) = (n + 1) - m
  BY <1>5
<1>7. \A x \in 1 .. (n + 1) - m : s[x] = seq[(m + x) - 1]
  <2> TAKE x \in 1 .. (n + 1) - m
  <2>1. x \in 1 .. n - m + 1
    OBVIOUS
  <2> QED BY <1>5, <2>1
<1> QED BY <1>5, <1>6, <1>7 DEF s

LEMMA Joined ==
    ASSUME NEW s \in Seq(BoardCards), NEW t \in Seq(BoardCards), NEW w, w = s \o t
    PROVE  /\ w \in Seq(BoardCards)
           /\ Len(w) = Len(s) + Len(t)
           /\ \A x \in 1 .. Len(s) + Len(t) : w[x] = IF x <= Len(s) THEN s[x] ELSE t[x - Len(s)]
  BY ConcatProperties

(* One card out of a column, and into one.                                 *)
LEMMA WithoutIs ==
    ASSUME NEW seq \in Seq(BoardCards), \A x, y \in DOMAIN seq : seq[x] = seq[y] => x = y,
           NEW c, NEW w, w = B!Without(seq, c)
    PROVE  /\ w \in Seq(BoardCards)
           /\ \A x, y \in DOMAIN w : w[x] = w[y] => x = y
           /\ B!ToSet(w) = B!ToSet(seq) \ {c}
<1>1. Len(seq) \in Nat /\ DOMAIN seq = 1 .. Len(seq)
  BY LenProperties
<1>2. CASE c \notin B!ToSet(seq)
  BY <1>2 DEF B!Without
<1>3. CASE c \in B!ToSet(seq)
  <2> DEFINE p == B!At(seq, c)
             n == Len(seq)
             s == SubSeq(seq, 1, p - 1)
             t == SubSeq(seq, p + 1, n)
  <2>1. p \in 1 .. n /\ seq[p] = c
    BY <1>1, <1>3 DEF B!At, B!ToSet
  <2>2. w = s \o t
    BY <1>3 DEF B!Without, B!RemoveAt
  <2> HIDE DEF p
  <2>3. /\ s \in Seq(BoardCards) /\ Len(s) = p - 1 /\ \A x \in 1 .. p - 1 : s[x] = seq[x]
    <3> DEFINE q == p - 1
    <3>1. q \in Nat /\ 1 <= q + 1 /\ q <= Len(seq) /\ (q + 1) - 1 = q
      BY <1>1, <2>1
    <3> HIDE DEF q
    <3>2. /\ SubSeq(seq, 1, q) \in Seq(BoardCards) /\ Len(SubSeq(seq, 1, q)) = (q + 1) - 1
          /\ \A x \in 1 .. (q + 1) - 1 : SubSeq(seq, 1, q)[x] = seq[(1 + x) - 1]
      BY <3>1, PartOf
    <3>3. \A x \in 1 .. q : (1 + x) - 1 = x
      BY <3>1
    <3>4. /\ SubSeq(seq, 1, q) \in Seq(BoardCards) /\ Len(SubSeq(seq, 1, q)) = q
          /\ \A x \in 1 .. q : SubSeq(seq, 1, q)[x] = seq[x]
      BY <3>1, <3>2, <3>3
    <3> QED BY <3>4 DEF q
  <2>4. /\ t \in Seq(BoardCards) /\ Len(t) = n - p /\ \A x \in 1 .. n - p : t[x] = seq[p + x]
    <3> DEFINE q == p + 1
    <3>1. q \in Nat \ {0} /\ n \in Nat /\ q <= n + 1 /\ n <= Len(seq) /\ (n + 1) - q = n - p
      BY <1>1, <2>1
    <3>2. \A x \in 1 .. n - p : (q + x) - 1 = p + x
      BY <1>1, <2>1
    <3> HIDE DEF q
    <3> HIDE DEF n
    <3>3. /\ SubSeq(seq, q, n) \in Seq(BoardCards) /\ Len(SubSeq(seq, q, n)) = (n + 1) - q
          /\ \A x \in 1 .. (n + 1) - q : SubSeq(seq, q, n)[x] = seq[(q + x) - 1]
      BY <3>1, PartOf
    <3>4. /\ SubSeq(seq, q, n) \in Seq(BoardCards) /\ Len(SubSeq(seq, q, n)) = n - p
          /\ \A x \in 1 .. n - p : SubSeq(seq, q, n)[x] = seq[p + x]
      BY <3>1, <3>2, <3>3
    <3> QED BY <3>4 DEF q
  <2> HIDE DEF s, t
  <2>5. /\ w \in Seq(BoardCards) /\ Len(w) = n - 1 /\ DOMAIN w = 1 .. n - 1
        /\ \A x \in 1 .. n - 1 : w[x] = IF x < p THEN seq[x] ELSE seq[x + 1]
    <3>1. w \in Seq(BoardCards) /\ Len(w) = Len(s) + Len(t)
          /\ \A x \in 1 .. Len(s) + Len(t) : w[x] = IF x <= Len(s) THEN s[x] ELSE t[x - Len(s)]
      <4>1. s \in Seq(BoardCards) /\ t \in Seq(BoardCards)
        BY <2>3, <2>4
      <4> QED BY <2>2, <4>1, Joined
    <3>2. Len(w) = n - 1
      BY <1>1, <2>1, <2>3, <2>4, <3>1
    <3>3. \A x \in 1 .. n - 1 : w[x] = IF x < p THEN seq[x] ELSE seq[x + 1]
      <4> TAKE x \in 1 .. n - 1
      <4>1. CASE x < p
        <5>1. x <= Len(s) /\ x \in 1 .. p - 1 /\ x \in 1 .. Len(s) + Len(t)
          BY <1>1, <2>1, <2>3, <2>4, <4>1
        <5>2. w[x] = s[x]
          BY <3>1, <5>1
        <5> QED BY <2>3, <4>1, <5>1, <5>2
      <4>2. CASE ~(x < p)
        <5>1. /\ x \in 1 .. Len(s) + Len(t) /\ ~(x <= Len(s))
              /\ x - Len(s) \in 1 .. n - p /\ p + (x - Len(s)) = x + 1
          BY <1>1, <2>1, <2>3, <2>4, <4>2
        <5>2. w[x] = t[x - Len(s)]
          BY <3>1, <5>1
        <5>3. t[x - Len(s)] = seq[p + (x - Len(s))]
          BY <2>4, <5>1
        <5> QED BY <4>2, <5>1, <5>2, <5>3
      <4> QED BY <4>1, <4>2
    <3> QED BY <3>1, <3>2, <3>3, LenProperties
  <2>6. \A x, y \in DOMAIN w : w[x] = w[y] => x = y
    <3> TAKE x, y \in DOMAIN w
    <3> HAVE w[x] = w[y]
    <3> DEFINE g(z) == IF z < p THEN z ELSE z + 1
    <3>1. g(x) \in 1 .. n /\ g(y) \in 1 .. n /\ w[x] = seq[g(x)] /\ w[y] = seq[g(y)]
      BY <1>1, <2>1, <2>5
    <3>2. g(x) = g(y)
      <4> HIDE DEF g
      <4> QED BY <1>1, <3>1
    <3> QED BY <1>1, <2>1, <2>5, <3>2
  <2>7. ASSUME NEW x \in DOMAIN w
        PROVE  \E y \in DOMAIN seq : y # p /\ w[x] = seq[y]
    <3>1. CASE x < p
      BY <1>1, <2>1, <2>5, <3>1
    <3>2. CASE ~(x < p)
      <4>1. x + 1 \in DOMAIN seq /\ x + 1 # p /\ w[x] = seq[x + 1]
        BY <1>1, <2>1, <2>5, <3>2
      <4> QED BY <4>1
    <3> QED BY <3>1, <3>2
  <2>8. ASSUME NEW y \in DOMAIN seq, y # p
        PROVE  \E x \in DOMAIN w : w[x] = seq[y]
    <3>1. CASE y < p
      BY <1>1, <2>1, <2>5, <3>1
    <3>2. CASE ~(y < p)
      <4>1. y - 1 \in DOMAIN w /\ ~(y - 1 < p) /\ (y - 1) + 1 = y
        BY <1>1, <2>1, <2>5, <2>8, <3>2
      <4>2. w[y - 1] = seq[y]
        BY <2>5, <4>1
      <4> QED BY <4>1, <4>2
    <3> QED BY <3>1, <3>2
  <2>9. p \in DOMAIN seq /\ seq[p] = c
    BY <1>1, <2>1
  <2>10. B!ToSet(w) = B!ToSet(seq) \ {c}
    BY <2>7, <2>8, <2>9 DEF B!ToSet
  <2> QED BY <2>5, <2>6, <2>10
<1> QED BY <1>2, <1>3

LEMMA InsertIs ==
    ASSUME NEW seq \in Seq(BoardCards), \A x, y \in DOMAIN seq : seq[x] = seq[y] => x = y,
           NEW c \in BoardCards, c \notin B!ToSet(seq), NEW i \in 1 .. Len(seq) + 1,
           NEW w, w = B!InsertAt(seq, i, c)
    PROVE  /\ w \in Seq(BoardCards)
           /\ \A x, y \in DOMAIN w : w[x] = w[y] => x = y
           /\ B!ToSet(w) = B!ToSet(seq) \cup {c}
<1> DEFINE n == Len(seq)
           s == SubSeq(seq, 1, i - 1)
           t == SubSeq(seq, i, n)
           u == s \o <<c>>
<1>1. n \in Nat /\ DOMAIN seq = 1 .. n /\ i \in 1 .. n + 1
  BY LenProperties
<1>2. w = u \o t
  BY DEF B!InsertAt
<1>3. /\ s \in Seq(BoardCards) /\ Len(s) = i - 1 /\ \A x \in 1 .. i - 1 : s[x] = seq[x]
  <2> DEFINE q == i - 1
  <2>1. q \in Nat /\ 1 <= q + 1 /\ q <= Len(seq) /\ (q + 1) - 1 = q
    BY <1>1
  <2> HIDE DEF q
  <2>2. /\ SubSeq(seq, 1, q) \in Seq(BoardCards) /\ Len(SubSeq(seq, 1, q)) = (q + 1) - 1
        /\ \A x \in 1 .. (q + 1) - 1 : SubSeq(seq, 1, q)[x] = seq[(1 + x) - 1]
    BY <2>1, PartOf
  <2>3. \A x \in 1 .. q : (1 + x) - 1 = x
    BY <2>1
  <2>4. /\ SubSeq(seq, 1, q) \in Seq(BoardCards) /\ Len(SubSeq(seq, 1, q)) = q
        /\ \A x \in 1 .. q : SubSeq(seq, 1, q)[x] = seq[x]
    BY <2>1, <2>2, <2>3
  <2> QED BY <2>4 DEF q
<1>4. /\ t \in Seq(BoardCards) /\ Len(t) = (n + 1) - i
      /\ \A x \in 1 .. (n + 1) - i : t[x] = seq[(i + x) - 1]
  <2>1. i \in Nat \ {0} /\ n \in Nat /\ i <= n + 1 /\ n <= Len(seq)
    BY <1>1
  <2> HIDE DEF n
  <2> QED BY <2>1, PartOf
<1> HIDE DEF n, s, t
<1>5. <<c>> \in Seq(BoardCards) /\ Len(<<c>>) = 1 /\ <<c>>[1] = c
  OBVIOUS
<1>6. /\ u \in Seq(BoardCards) /\ Len(u) = i
      /\ \A x \in 1 .. i : u[x] = IF x < i THEN seq[x] ELSE c
  <2>1. u \in Seq(BoardCards) /\ Len(u) = Len(s) + 1
        /\ \A x \in 1 .. Len(s) + 1 : u[x] = IF x <= Len(s) THEN s[x] ELSE <<c>>[x - Len(s)]
    BY <1>3, <1>5, Joined
  <2>2. \A x \in 1 .. i : u[x] = IF x < i THEN seq[x] ELSE c
    <3> TAKE x \in 1 .. i
    <3>1. x \in 1 .. Len(s) + 1
      BY <1>1, <1>3
    <3>2. CASE x < i
      <4>1. x <= Len(s) /\ x \in 1 .. i - 1
        BY <1>1, <1>3, <3>2
      <4> QED BY <1>3, <2>1, <3>1, <3>2, <4>1
    <3>3. CASE ~(x < i)
      <4>1. ~(x <= Len(s)) /\ x - Len(s) = 1
        BY <1>1, <1>3, <3>3
      <4> QED BY <1>5, <2>1, <3>1, <3>3, <4>1
    <3> QED BY <3>2, <3>3
  <2>3. Len(u) = i
    BY <1>1, <1>3, <2>1
  <2> QED BY <2>1, <2>2, <2>3
<1> HIDE DEF u
<1>7. /\ w \in Seq(BoardCards) /\ Len(w) = n + 1 /\ DOMAIN w = 1 .. n + 1
      /\ \A x \in 1 .. n + 1 : w[x] = IF x < i THEN seq[x] ELSE IF x = i THEN c ELSE seq[x - 1]
  <2>1. w \in Seq(BoardCards) /\ Len(w) = Len(u) + Len(t)
        /\ \A x \in 1 .. Len(u) + Len(t) : w[x] = IF x <= Len(u) THEN u[x] ELSE t[x - Len(u)]
    <3>1. u \in Seq(BoardCards) /\ t \in Seq(BoardCards)
      BY <1>4, <1>6
    <3> QED BY <1>2, <3>1, Joined
  <2>2. Len(w) = n + 1
    BY <1>1, <1>4, <1>6, <2>1
  <2>3. \A x \in 1 .. n + 1 : w[x] = IF x < i THEN seq[x] ELSE IF x = i THEN c ELSE seq[x - 1]
    <3> TAKE x \in 1 .. n + 1
    <3>0. x \in 1 .. Len(u) + Len(t)
      BY <1>1, <1>4, <1>6
    <3>1. CASE x <= i
      <4>1. x \in 1 .. i /\ w[x] = u[x]
        BY <1>1, <1>6, <2>1, <3>0, <3>1
      <4> QED BY <1>1, <1>6, <3>1, <4>1
    <3>2. CASE ~(x <= i)
      <4>1. x - i \in 1 .. (n + 1) - i /\ (i + (x - i)) - 1 = x - 1 /\ ~(x < i) /\ x # i
        BY <1>1, <3>2
      <4>2. w[x] = t[x - i]
        BY <1>6, <2>1, <3>0, <3>2
      <4>3. t[x - i] = seq[(i + (x - i)) - 1]
        BY <1>4, <4>1
      <4> QED BY <4>1, <4>2, <4>3
    <3> QED BY <3>1, <3>2
  <2> QED BY <2>1, <2>2, <2>3, LenProperties
<1>8. w[i] = c /\ i \in DOMAIN w
  BY <1>1, <1>7
<1>9. ASSUME NEW x \in DOMAIN w, x # i
      PROVE  \E y \in DOMAIN seq : w[x] = seq[y] /\ (x < i => y = x) /\ (x > i => y = x - 1)
  <2>1. CASE x < i
    BY <1>1, <1>7, <2>1
  <2>2. CASE x > i
    <3>1. x - 1 \in DOMAIN seq /\ w[x] = seq[x - 1]
      BY <1>1, <1>7, <2>2
    <3> QED BY <1>1, <1>7, <2>2, <3>1
  <2> QED BY <1>1, <1>7, <1>9, <2>1, <2>2
<1>10. ASSUME NEW y \in DOMAIN seq
       PROVE  \E x \in DOMAIN w : w[x] = seq[y]
  <2>1. CASE y < i
    BY <1>1, <1>7, <2>1
  <2>2. CASE ~(y < i)
    <3>1. y + 1 \in DOMAIN w /\ ~(y + 1 < i) /\ y + 1 # i /\ (y + 1) - 1 = y
      BY <1>1, <1>7, <2>2
    <3>2. w[y + 1] = seq[y]
      BY <1>7, <3>1
    <3> QED BY <3>1, <3>2
  <2> QED BY <2>1, <2>2
<1>11. B!ToSet(w) = B!ToSet(seq) \cup {c}
  BY <1>8, <1>9, <1>10 DEF B!ToSet
<1>12. \A x, y \in DOMAIN w : w[x] = w[y] => x = y
  <2> SUFFICES ASSUME NEW x \in DOMAIN w, NEW y \in DOMAIN w, w[x] = w[y] PROVE x = y
    OBVIOUS
  <2>1. \A z \in DOMAIN w : z # i => w[z] \in B!ToSet(seq)
    BY <1>9 DEF B!ToSet
  <2>2. x = i <=> y = i
    BY <1>8, <2>1
  <2>3. CASE x # i /\ y # i
    <3>1. PICK p \in DOMAIN seq : w[x] = seq[p] /\ (x < i => p = x) /\ (x > i => p = x - 1)
      BY <1>9, <2>3
    <3>2. PICK q \in DOMAIN seq : w[y] = seq[q] /\ (y < i => q = y) /\ (y > i => q = y - 1)
      BY <1>9, <2>3
    <3>3. p = q
      BY <3>1, <3>2
    <3> QED BY <1>1, <1>7, <2>3, <3>1, <3>2, <3>3
  <2> QED BY <2>2, <2>3
<1> QED BY <1>7, <1>11, <1>12

(* What is shown with one card moved: the same cards, each of the others   *)
(* in its column.                                                          *)
LEMMA MovedIs ==
    ASSUME NEW b, BoardLayout(bShown, b), NEW c \in BoardCards, NEW k \in DOMAIN bShown,
           NEW i \in 1 .. Len(B!Without(bShown[k], c)) + 1
    PROVE  /\ BoardLayout(B!Moved(c, k, i), b)
           /\ DOMAIN B!Moved(c, k, i) = DOMAIN bShown
           /\ \A j \in DOMAIN bShown : \A d \in B!ToSet(B!Moved(c, k, i)[j]) :
                 d # c => d \in B!ToSet(bShown[j])
<1> DEFINE ks == DOMAIN bShown
           rest == [j \in ks |-> B!Without(bShown[j], c)]
           m == B!Moved(c, k, i)
<1>1. ks = B!ColumnsOf(b) \cup {0} /\ \A j \in ks : bShown[j] \in Seq(BoardCards)
  BY DEF BoardLayout
<1>2. ASSUME NEW j \in ks
      PROVE  /\ rest[j] \in Seq(BoardCards)
             /\ \A x, y \in DOMAIN rest[j] : rest[j][x] = rest[j][y] => x = y
             /\ B!ToSet(rest[j]) = B!ToSet(bShown[j]) \ {c}
  <2>1. bShown[j] \in Seq(BoardCards)
        /\ \A x, y \in DOMAIN bShown[j] : bShown[j][x] = bShown[j][y] => x = y
    BY <1>1 DEF BoardLayout
  <2>2. rest[j] = B!Without(bShown[j], c)
    OBVIOUS
  <2> QED BY <2>1, <2>2, WithoutIs
<1>3. rest[k] = B!Without(bShown[k], c)
  OBVIOUS
<1>4. m = [rest EXCEPT ![k] = B!InsertAt(rest[k], i, c)]
  BY DEF B!Moved
<1>5. DOMAIN rest = ks
  OBVIOUS
<1> HIDE DEF rest, m
<1>6. m[k] = B!InsertAt(rest[k], i, c) /\ (\A j \in ks : j # k => m[j] = rest[j])
      /\ m = [j \in ks |-> m[j]] /\ DOMAIN m = ks
  BY <1>4, <1>5
<1>7. /\ m[k] \in Seq(BoardCards)
      /\ \A x, y \in DOMAIN m[k] : m[k][x] = m[k][y] => x = y
      /\ B!ToSet(m[k]) = B!ToSet(rest[k]) \cup {c}
  <2>1. c \notin B!ToSet(rest[k])
    BY <1>2
  <2>2. i \in 1 .. Len(rest[k]) + 1
    BY <1>3
  <2>3. m[k] = B!InsertAt(rest[k], i, c)
    BY <1>6
  <2>4. rest[k] \in Seq(BoardCards) /\ \A x, y \in DOMAIN rest[k] : rest[k][x] = rest[k][y] => x = y
    BY <1>2
  <2> QED BY <2>1, <2>2, <2>3, <2>4, InsertIs
<1>8. \A j \in ks : m[j] \in Seq(BoardCards)
  BY <1>2, <1>6, <1>7
<1>9. \A j \in ks : \A x, y \in DOMAIN m[j] : m[j][x] = m[j][y] => x = y
  <2> TAKE j \in ks
  <2>1. CASE j = k
    BY <1>7, <2>1
  <2>2. CASE j # k
    BY <1>2, <1>6, <2>2
  <2> QED BY <2>1, <2>2
<1>10. \A j \in ks : B!ToSet(m[j]) = (B!ToSet(bShown[j]) \ {c}) \cup (IF j = k THEN {c} ELSE {})
  <2> TAKE j \in ks
  <2>1. CASE j = k
    BY <1>2, <1>7, <2>1
  <2>2. CASE j # k
    <3>1. m[j] = rest[j]
      BY <1>6, <2>2
    <3> QED BY <1>2, <2>2, <3>1
  <2> QED BY <2>1, <2>2
<1>11. \A j, l \in ks : j # l => B!ToSet(m[j]) \cap B!ToSet(m[l]) = {}
  <2> SUFFICES ASSUME NEW j \in ks, NEW l \in ks, j # l PROVE B!ToSet(m[j]) \cap B!ToSet(m[l]) = {}
    OBVIOUS
  <2>1. B!ToSet(bShown[j]) \cap B!ToSet(bShown[l]) = {}
    BY DEF BoardLayout
  <2>2. B!ToSet(m[j]) = (B!ToSet(bShown[j]) \ {c}) \cup (IF j = k THEN {c} ELSE {})
    BY <1>10
  <2>3. B!ToSet(m[l]) = (B!ToSet(bShown[l]) \ {c}) \cup (IF l = k THEN {c} ELSE {})
    BY <1>10
  <2> QED BY <2>1, <2>2, <2>3
<1>12. m \in [ks -> Seq(BoardCards)]
  BY <1>6, <1>8
<1>13. BoardLayout(m, b)
  BY <1>1, <1>6, <1>9, <1>11, <1>12 DEF BoardLayout
<1>14. \A j \in ks : \A d \in B!ToSet(m[j]) : d # c => d \in B!ToSet(bShown[j])
  BY <1>10
<1> QED BY <1>6, <1>13, <1>14 DEF m

-----------------------------------------------------------------------------
BoardEntry == [card : BoardCards, column : BoardColumns \cup {0}, at : Nat]

(* The cards of a layout, one by one. *)
LEMMA EntriesAre ==
    ASSUME NEW m, NEW b, BoardLayout(m, b)
    PROVE  /\ B!Entries(m) \subseteq BoardEntry
           /\ \A e \in B!Entries(m) :
                 /\ e.column \in DOMAIN m
                 /\ e.at + 1 \in DOMAIN m[e.column] /\ m[e.column][e.at + 1] = e.card
           /\ \A e, f \in B!Entries(m) : e.card = f.card => e = f
           /\ \A k \in DOMAIN m : \A c \in B!ToSet(m[k]) :
                 \E e \in B!Entries(m) : e.card = c /\ e.column = k
<1>1. DOMAIN m = B!ColumnsOf(b) \cup {0} /\ \A k \in DOMAIN m : m[k] \in Seq(BoardCards)
  BY DEF BoardLayout
<1>2. \A k \in DOMAIN m : \A n \in DOMAIN m[k] :
         n \in Nat \ {0} /\ m[k][n] \in BoardCards /\ n - 1 \in Nat /\ (n - 1) + 1 = n
  <2> TAKE k \in DOMAIN m
  <2> TAKE n \in DOMAIN m[k]
  <2>1. m[k] \in Seq(BoardCards)
    BY <1>1
  <2>2. DOMAIN m[k] = 1 .. Len(m[k]) /\ Len(m[k]) \in Nat
    BY <2>1, LenProperties
  <2>3. m[k][n] \in BoardCards
    BY <2>1, <2>2, ElementOfSeq
  <2>4. n \in Nat \ {0}
    BY <2>2
  <2> QED BY <2>3, <2>4
<1>3. \A e \in B!Entries(m) : \E k \in DOMAIN m : \E n \in DOMAIN m[k] :
         e = [card |-> m[k][n], column |-> k, at |-> n - 1]
  BY DEF B!Entries
<1>4. \A k \in DOMAIN m : \A n \in DOMAIN m[k] :
         [card |-> m[k][n], column |-> k, at |-> n - 1] \in B!Entries(m)
  BY DEF B!Entries
<1>5. ASSUME NEW e \in B!Entries(m)
      PROVE  /\ e \in BoardEntry /\ e.column \in DOMAIN m
             /\ e.at + 1 \in DOMAIN m[e.column] /\ m[e.column][e.at + 1] = e.card
  <2>1. PICK k \in DOMAIN m : \E n \in DOMAIN m[k] :
               e = [card |-> m[k][n], column |-> k, at |-> n - 1]
    BY <1>3
  <2>2. PICK n \in DOMAIN m[k] : e = [card |-> m[k][n], column |-> k, at |-> n - 1]
    BY <2>1
  <2>3. e.card = m[k][n] /\ e.column = k /\ e.at = n - 1
    BY <2>2
  <2>4. k \in BoardColumns \cup {0}
    BY <1>1 DEF B!ColumnsOf
  <2>5. e \in BoardEntry
    BY <1>2, <2>2, <2>4 DEF BoardEntry
  <2>6. e.at + 1 = n
    BY <1>2, <2>3
  <2> QED BY <2>3, <2>5, <2>6
<1>6. ASSUME NEW e \in B!Entries(m), NEW f \in B!Entries(m), e.card = f.card
      PROVE  e = f
  <2>1. e.card \in B!ToSet(m[e.column]) /\ f.card \in B!ToSet(m[f.column])
    BY <1>5 DEF B!ToSet
  <2>2. e.column = f.column
    BY <1>5, <1>6, <2>1 DEF BoardLayout
  <2>3. e.at + 1 = f.at + 1
    BY <1>5, <1>6, <2>2 DEF BoardLayout
  <2>4. e.at = f.at
    BY <1>5, <2>3 DEF BoardEntry
  <2> QED BY <1>5, <1>6, <2>2, <2>4 DEF BoardEntry
<1>7. ASSUME NEW k \in DOMAIN m, NEW c \in B!ToSet(m[k])
      PROVE  \E e \in B!Entries(m) : e.card = c /\ e.column = k
  <2>1. PICK n \in DOMAIN m[k] : m[k][n] = c
    BY DEF B!ToSet
  <2> DEFINE e == [card |-> m[k][n], column |-> k, at |-> n - 1]
  <2>2. e \in B!Entries(m) /\ e.card = c /\ e.column = k
    BY <1>4, <2>1
  <2> QED BY <2>2
<1> QED BY <1>5, <1>6, <1>7

(* The first one to be written is one of them. *)
LEMMA FirstOne ==
    ASSUME NEW todo, todo \subseteq BoardEntry, todo # {}
    PROVE  B!First(todo) \in todo
<1> DEFINE ks == {e.column : e \in todo}
<1>1. \A e \in todo : e.column \in Nat /\ e.at \in Nat
  <2> TAKE e \in todo
  <2>1. e \in BoardEntry
    OBVIOUS
  <2>2. e.column \in BoardColumns \cup {0} /\ e.at \in Nat
    BY <2>1 DEF BoardEntry
  <2>3. BoardColumns \cup {0} \subseteq Nat
    BY BoardsAssumption
  <2> QED BY <2>2, <2>3
<1>2. ks \subseteq Nat /\ ks # {}
  BY <1>1
<1>3. PICK k \in ks : \A j \in ks : k <= j
  BY <1>2, LeastNat
<1> DEFINE ns == {e.at : e \in {f \in todo : f.column = k}}
<1>4. ns \subseteq Nat /\ ns # {}
  BY <1>1
<1>5. PICK n \in ns : \A j \in ns : n <= j
  <2> HIDE DEF ns
  <2> QED BY <1>4, LeastNat
<1>6. PICK e \in todo : e.column = k /\ e.at = n
  OBVIOUS
<1>7. ASSUME NEW f \in todo
      PROVE  e.column < f.column \/ (e.column = f.column /\ e.at <= f.at)
  <2>1. e.column <= f.column
    BY <1>3, <1>6
  <2>2. f.column = k => e.at <= f.at
    BY <1>5, <1>6
  <2>3. e.column \in Nat /\ f.column \in Nat
    BY <1>1
  <2> QED BY <1>6, <2>1, <2>2, <2>3
<1>8. \E x \in todo : \A f \in todo : x.column < f.column \/ (x.column = f.column /\ x.at <= f.at)
  BY <1>7
<1> QED BY <1>8 DEF B!First

LEMMA NextOne ==
    ASSUME bCards \in [BoardCards -> B!Row], NEW k
    PROVE  B!Next_(k) \in Nat
<1> DEFINE cs == {c \in B!Existing(bCards) : bCards[c].place = k}
           ns == {bCards[c].order + 1 : c \in cs}
           up == [c \in cs |-> bCards[c].order + 1]
<1>1. cs \in SUBSET BoardCards
  BY DEF B!Existing
<1>2. IsFiniteSet(cs)
  BY <1>1, BoardsAssumption, FS_Subset
<1>3. IsFiniteSet(ns)
  <2>1. up \in Surjection(cs, ns)
    BY DEF Surjection
  <2> HIDE DEF cs, ns, up
  <2> QED BY <1>2, <2>1, FS_Surjection
<1>4. IsFiniteSet({0} \cup ns)
  BY <1>3, FS_Singleton, FS_Union
<1>5. {0} \cup ns \subseteq Nat
  BY <1>1 DEF B!Row
<1>6. B!Next_(k) = B!Max({0} \cup ns)
  BY DEF B!Next_
<1> HIDE DEF ns
<1> QED BY <1>4, <1>5, <1>6, GreatestOne

BoardPm == {"NOT_STARTED", "IN_PROGRESS", "DONE", "none"}
BoardMaps == {<<>>} \cup UNION {[ks -> Seq(BoardCards)] : ks \in SUBSET (BoardColumns \cup {0})}
BoardCallRec ==
    [kind : {"none", "save", "load"}, at : {"none", "sent", "read", "done"},
     map : BoardMaps, board : Boards \cup {0}, drop : BoardCards \cup {0},
     was : {<<>>} \cup [BoardCards -> BoardPm], rows : [BoardCards -> B!Row],
     todo : SUBSET BoardEntry, alone : BOOLEAN, gone : BOOLEAN]

(* What a drop was sent on: the statuses, and the columns but that of the  *)
(* dropped card.                                                           *)
Agrees(cl, rows) ==
    /\ \A c \in BoardCards : cl.was[c] = B!effectivePmStatus(rows[c])
    /\ \A e \in B!Entries(cl.map) :
          e.card # cl.drop => B!ColumnKey(rows[e.card], cl.board) = e.column

(* A card that is where the map has it, and tells what it told before.     *)
Arrived(cl, e, r) ==
    /\ r.place = e.column /\ r.order = e.at
    /\ e.card # cl.drop => /\ B!effectivePmStatus(r) = cl.was[e.card]
                           /\ e.column = 0 => B!columnIdForStatusFallback(r, cl.board) = 0

Lists(map, rows) == B!Existing(rows) = {e.card : e \in B!Entries(map)}

(* How far a save is that nothing else overlaps. *)
SaveSent(cl, rows) == cl.at = "sent" => Agrees(cl, rows)
SaveRead(cl, rows) ==
    cl.at = "read" =>
        /\ Agrees(cl, cl.rows) /\ cl.todo \subseteq B!Entries(cl.map) /\ Lists(cl.map, rows)
        /\ \A e \in B!Entries(cl.map) :
              IF e \in cl.todo THEN rows[e.card] = cl.rows[e.card]
              ELSE Arrived(cl, e, rows[e.card])
SaveDone(cl, rows) ==
    cl.at = "done" =>
        Lists(cl.map, rows) /\ \A e \in B!Entries(cl.map) : Arrived(cl, e, rows[e.card])

AloneGood(cl, rows) ==
    cl.alone /\ cl.at # "none" =>
        /\ cl.kind = "save" =>
              /\ cl.board \in Boards /\ BoardLayout(cl.map, cl.board)
              /\ SaveSent(cl, rows) /\ SaveRead(cl, rows) /\ SaveDone(cl, rows)
        /\ cl.kind = "load" /\ cl.at = "done" => cl.rows = rows

CallGood(cl, rows) ==
    /\ cl \in BoardCallRec
    /\ cl.kind = "save" /\ cl.at = "read" => cl.todo # {}
    /\ AloneGood(cl, rows)

CallsGood(calls, rows) ==
    /\ calls = [s \in Requests |-> calls[s]]
    /\ \A s \in Requests : CallGood(calls[s], rows)
    /\ \A s, t \in Requests :
          calls[s].alone /\ calls[s].at # "none" /\ calls[t].at # "none" => s = t

BoardTypes ==
    /\ bCards \in [BoardCards -> B!Row]
    /\ bBoard \in Boards
    /\ bLoaded \in [BoardCards -> B!Row]
    /\ BoardLayout(bShown, bBoard)
    /\ bLoading \in BOOLEAN /\ bStale \in BOOLEAN /\ bOps \in 0 .. MaxDrops

(* The screen is what the rows are, and nothing is under way. *)
BoardFresh ==
    ~bStale => /\ bLoaded = bCards /\ bShown = B!buildColumnItemIds(bCards, bBoard)
               /\ \A s \in Requests : bCall[s].at = "none"

BoardInv == BoardTypes /\ CallsGood(bCall, bCards) /\ BoardFresh

-----------------------------------------------------------------------------
LEMMA RowIs ==
    /\ B!Row = [status : BoardPm, done : BOOLEAN, place : BoardColumns \cup {0}, order : Nat]
    /\ B!NoRow \in B!Row /\ B!NoRow.status = "none"
    /\ B!NoRows \in [BoardCards -> B!Row]
<1>1. B!Row = [status : BoardPm, done : BOOLEAN, place : BoardColumns \cup {0}, order : Nat]
  <2>1. B!Status \cup {"none"} = BoardPm
    BY DEF B!Status, BoardPm
  <2> QED BY <2>1 DEF B!Row, B!Unassigned
<1>2. B!NoRow \in B!Row /\ B!NoRow.status = "none"
  BY <1>1 DEF B!NoRow, B!Unassigned, BoardPm
<1>3. B!NoRows \in [BoardCards -> B!Row]
  BY <1>2 DEF B!NoRows
<1> QED BY <1>1, <1>2, <1>3

LEMMA EffIs ==
    ASSUME NEW r \in B!Row
    PROVE  B!effectivePmStatus(r) \in BoardPm
  BY RowIs DEF B!effectivePmStatus, BoardPm

LEMMA MappedIs ==
    ASSUME NEW k \in BoardColumns
    PROVE  MappedTo[k] \in BoardPm /\ MappedTo[k] # "none"
<1>1. MappedTo[k] \in {"NOT_STARTED", "IN_PROGRESS", "DONE"}
  BY BoardsAssumption
<1> QED BY <1>1 DEF BoardPm

LEMMA ColumnsThere ==
    /\ \A b : 0 \notin B!ColumnsOf(b) /\ B!ColumnsOf(b) \subseteq BoardColumns
    /\ 0 \notin BoardColumns
  BY BoardsAssumption DEF B!ColumnsOf

(* What a write does to the status. *)
WritesStatus(p, row, old, e) ==
    \/ old.place = e.column /\ p.status = row.status /\ p.done = row.done
    \/ old.place # e.column /\ e.column = 0 /\ p.status = row.status /\ p.done = row.done
    \/ /\ old.place # e.column /\ e.column \in BoardColumns
       /\ p.status = MappedTo[e.column] /\ p.done = (MappedTo[e.column] = "DONE")

(* A write puts the card where it was sent to. *)
LEMMA PlacedIs ==
    ASSUME NEW row \in B!Row, NEW old \in B!Row, NEW e \in BoardEntry,
           NEW p, p = B!Placed(row, old, e)
    PROVE  /\ p \in B!Row /\ p.order = e.at
           /\ p.status = "none" => row.status = "none"
           /\ row = old => p.place = e.column
           /\ WritesStatus(p, row, old, e)
<1>1. e.at \in Nat /\ e.column \in BoardColumns \cup {0}
  BY DEF BoardEntry
<1>2. /\ row.status \in BoardPm /\ row.done \in BOOLEAN /\ row.place \in BoardColumns \cup {0}
      /\ row.order \in Nat
      /\ row = [status |-> row.status, done |-> row.done, place |-> row.place, order |-> row.order]
  BY RowIs
<1>3. CASE old.place = e.column
  <2>1. p = [row EXCEPT !.order = e.at]
    BY <1>3 DEF B!Placed
  <2>2. p = [status |-> row.status, done |-> row.done, place |-> row.place, order |-> e.at]
    BY <1>2, <2>1
  <2>3. p.status = row.status /\ p.done = row.done /\ p.place = row.place /\ p.order = e.at
    BY <2>2
  <2>4. p \in B!Row
    BY <1>1, <1>2, <2>2, RowIs
  <2> QED BY <1>3, <2>3, <2>4 DEF WritesStatus
<1>4. CASE old.place # e.column /\ e.column = 0
  <2>1. p = [row EXCEPT !.order = e.at, !.place = 0]
    BY <1>4 DEF B!Placed, B!Unassigned
  <2>2. p = [status |-> row.status, done |-> row.done, place |-> 0, order |-> e.at]
    BY <1>2, <2>1
  <2>3. p.status = row.status /\ p.done = row.done /\ p.place = e.column /\ p.order = e.at
    BY <1>4, <2>2
  <2>4. p \in B!Row
    BY <1>1, <1>2, <2>2, RowIs
  <2> QED BY <1>4, <2>3, <2>4 DEF WritesStatus
<1>5. CASE old.place # e.column /\ e.column # 0
  <2> DEFINE st == MappedTo[e.column]
             dn == (st = "DONE")
  <2>1. e.column \in BoardColumns
    BY <1>1, <1>5
  <2>2. st \in BoardPm /\ st # "none" /\ dn \in BOOLEAN
    BY <2>1, MappedIs
  <2>3. p = [row EXCEPT !.order = e.at, !.place = e.column, !.status = st, !.done = dn]
    BY <1>5 DEF B!Placed, B!Unassigned
  <2> HIDE DEF st, dn
  <2>4. p = [status |-> st, done |-> dn, place |-> e.column, order |-> e.at]
    BY <1>2, <2>3
  <2>5. p.status = st /\ p.done = dn /\ p.place = e.column /\ p.order = e.at
    BY <2>4
  <2>6. p \in B!Row
    BY <1>1, <2>1, <2>2, <2>4, RowIs
  <2>7. p.status = MappedTo[e.column] /\ p.done = (MappedTo[e.column] = "DONE")
    BY <2>5 DEF st, dn
  <2> QED BY <1>5, <2>1, <2>2, <2>5, <2>6, <2>7 DEF WritesStatus
<1> QED BY <1>3, <1>4, <1>5

LEMMA PlacedRow ==
    ASSUME NEW row \in B!Row, NEW old \in B!Row, NEW e \in BoardEntry
    PROVE  /\ B!Placed(row, old, e) \in B!Row /\ B!Placed(row, old, e).order = e.at
           /\ B!Placed(row, old, e).status = "none" => row.status = "none"
           /\ row = old => B!Placed(row, old, e).place = e.column
  BY PlacedIs

(* A card that is shown where it is sent to keeps its status. *)
LEMMA KeepsStatus ==
    ASSUME NEW old \in B!Row, NEW b, NEW e \in BoardEntry, NEW p, p = B!Placed(old, old, e),
           B!ColumnKey(old, b) = e.column
    PROVE  /\ B!effectivePmStatus(p) = B!effectivePmStatus(old)
           /\ e.column = 0 => B!columnIdForStatusFallback(p, b) = 0
<1>1. WritesStatus(p, old, old, e)
  BY PlacedIs
<1> DEFINE fit == {k \in B!ColumnsOf(b) : MappedTo[k] = B!effectivePmStatus(old)}
<1>2. B!columnIdForStatusFallback(old, b) =
         IF B!effectivePmStatus(old) = "NOT_STARTED" \/ fit = {} THEN 0 ELSE B!Min(fit)
  BY DEF B!columnIdForStatusFallback, B!Unassigned
<1>3. fit \subseteq Nat
  BY BoardsAssumption DEF B!ColumnsOf
<1>4. \A k \in fit : MappedTo[k] = B!effectivePmStatus(old)
  OBVIOUS
<1> HIDE DEF fit
<1>5. fit # {} => B!Min(fit) \in fit
  BY <1>3, LeastOne
<1>6. B!effectivePmStatus(p) = B!effectivePmStatus(old)
  <2>1. CASE p.status = old.status /\ p.done = old.done
    BY <2>1 DEF B!effectivePmStatus
  <2>2. CASE /\ old.place # e.column /\ e.column \in BoardColumns
             /\ p.status = MappedTo[e.column] /\ p.done = (MappedTo[e.column] = "DONE")
    <3>1. B!columnIdForStatusFallback(old, b) = e.column /\ e.column # 0
      BY <2>2, ColumnsThere DEF B!ColumnKey
    <3>2. MappedTo[e.column] = B!effectivePmStatus(old)
      BY <1>2, <1>4, <1>5, <3>1
    <3>3. B!effectivePmStatus(p) = MappedTo[e.column]
      BY <2>2 DEF B!effectivePmStatus
    <3> QED BY <3>2, <3>3
  <2> QED BY <1>1, <2>1, <2>2 DEF WritesStatus
<1>7. ASSUME e.column = 0 PROVE B!columnIdForStatusFallback(p, b) = 0
  <2>1. B!columnIdForStatusFallback(old, b) = 0
    BY <1>7, ColumnsThere DEF B!ColumnKey
  <2>2. B!columnIdForStatusFallback(p, b) = B!columnIdForStatusFallback(old, b)
    BY <1>6 DEF B!columnIdForStatusFallback
  <2> QED BY <2>1, <2>2
<1> QED BY <1>6, <1>7

LEMMA CallShape ==
    ASSUME NEW cl \in BoardCallRec
    PROVE  /\ cl.kind \in {"none", "save", "load"} /\ cl.at \in {"none", "sent", "read", "done"}
           /\ cl.map \in BoardMaps /\ cl.board \in Boards \cup {0}
           /\ cl.drop \in BoardCards \cup {0} /\ cl.was \in {<<>>} \cup [BoardCards -> BoardPm]
           /\ cl.rows \in [BoardCards -> B!Row] /\ cl.todo \in SUBSET BoardEntry
           /\ cl.alone \in BOOLEAN /\ cl.gone \in BOOLEAN
           /\ cl = [kind |-> cl.kind, at |-> cl.at, map |-> cl.map, board |-> cl.board,
                    drop |-> cl.drop, was |-> cl.was, rows |-> cl.rows, todo |-> cl.todo,
                    alone |-> cl.alone, gone |-> cl.gone]
  BY DEF BoardCallRec

LEMMA CallIf ==
    ASSUME NEW k \in {"none", "save", "load"}, NEW a \in {"none", "sent", "read", "done"},
           NEW m \in BoardMaps, NEW b \in Boards \cup {0}, NEW d \in BoardCards \cup {0},
           NEW w \in {<<>>} \cup [BoardCards -> BoardPm], NEW r \in [BoardCards -> B!Row],
           NEW t \in SUBSET BoardEntry, NEW al \in BOOLEAN, NEW g \in BOOLEAN
    PROVE  [kind |-> k, at |-> a, map |-> m, board |-> b, drop |-> d, was |-> w, rows |-> r,
            todo |-> t, alone |-> al, gone |-> g] \in BoardCallRec
  BY DEF BoardCallRec

(* The empty call. *)
LEMMA NoCallIs ==
    /\ B!NoCall \in BoardCallRec
    /\ B!NoCall.kind = "none" /\ B!NoCall.at = "none" /\ ~B!NoCall.alone
    /\ \A rows : CallGood(B!NoCall, rows)
<1>1. B!NoCall = [kind |-> "none", at |-> "none", map |-> <<>>, board |-> 0, drop |-> 0,
                  was |-> <<>>, rows |-> B!NoRows, todo |-> {}, alone |-> FALSE, gone |-> FALSE]
  BY DEF B!NoCall
<1>2. B!NoCall \in BoardCallRec
  BY <1>1, RowIs DEF BoardCallRec, BoardMaps
<1>3. B!NoCall.kind = "none" /\ B!NoCall.at = "none" /\ ~B!NoCall.alone
  BY <1>1
<1> QED BY <1>2, <1>3 DEF CallGood, AloneGood

(* A call with which something else overlaps. *)
LEMMA OverlappedIs ==
    ASSUME NEW cl \in BoardCallRec, cl.kind = "save" /\ cl.at = "read" => cl.todo # {},
           NEW n, n = [cl EXCEPT !.alone = FALSE, !.drop = 0, !.was = <<>>]
    PROVE  /\ n.kind = cl.kind /\ n.at = cl.at /\ n.alone = FALSE
           /\ \A rows : CallGood(n, rows)
<1>1. n.kind = cl.kind /\ n.at = cl.at /\ n.alone = FALSE /\ n.todo = cl.todo
  BY DEF BoardCallRec
<1>2. n \in BoardCallRec
  BY DEF BoardCallRec
<1> QED BY <1>1, <1>2 DEF CallGood, AloneGood

(* The load that follows a save. *)
LEMMA AfterIs ==
    ASSUME NEW cl \in BoardCallRec, NEW n, n = B!After(cl)
    PROVE  /\ n \in BoardCallRec /\ n.at \in {"none", "sent"}
           /\ n.alone /\ n.at # "none" => cl.alone
           /\ \A rows : CallGood(n, rows)
<1>1. CASE cl.kind = "save" /\ ~cl.gone
  <2>1. n = [B!NoCall EXCEPT !.kind = "load", !.at = "sent", !.alone = cl.alone]
    BY <1>1 DEF B!After
  <2>2. B!NoCall \in BoardCallRec /\ cl.alone \in BOOLEAN
    BY NoCallIs DEF BoardCallRec
  <2>3. n.kind = "load" /\ n.at = "sent" /\ n.alone = cl.alone
    BY <2>1, <2>2 DEF BoardCallRec
  <2>4. n \in BoardCallRec
    BY <2>1, <2>2 DEF BoardCallRec
  <2> QED BY <2>3, <2>4 DEF CallGood, AloneGood
<1>2. CASE ~(cl.kind = "save" /\ ~cl.gone)
  BY <1>2, NoCallIs DEF B!After
<1> QED BY <1>1, <1>2

-----------------------------------------------------------------------------
(* Something else happens: no call is alone. *)
LEMMA OverlapsAll ==
    ASSUME NEW calls, calls = [s \in Requests |-> calls[s]],
           \A s \in Requests : /\ calls[s] \in BoardCallRec
                               /\ calls[s].kind = "save" /\ calls[s].at = "read" => calls[s].todo # {},
           NEW n, n = B!NotAlone(calls)
    PROVE  /\ n = [s \in Requests |-> n[s]]
           /\ \A s \in Requests : /\ n[s].at = calls[s].at /\ n[s].alone = FALSE
                                  /\ \A rows : CallGood(n[s], rows)
           /\ \A rows : CallsGood(n, rows)
<1>1. n = [s \in Requests |-> [calls[s] EXCEPT !.alone = FALSE, !.drop = 0, !.was = <<>>]]
  BY DEF B!NotAlone
<1>2. ASSUME NEW s \in Requests
      PROVE  /\ n[s].at = calls[s].at /\ n[s].alone = FALSE
             /\ \A rows : CallGood(n[s], rows)
  <2>1. n[s] = [calls[s] EXCEPT !.alone = FALSE, !.drop = 0, !.was = <<>>]
    BY <1>1
  <2> QED BY <2>1, OverlappedIs
<1>3. n = [s \in Requests |-> n[s]]
  BY <1>1
<1> QED BY <1>2, <1>3 DEF CallsGood

(* A request goes out: alone, if nothing is under way and it is to be.     *)
LEMMA SendGood ==
    ASSUME NEW calls, calls = [s \in Requests |-> calls[s]],
           \A s \in Requests : /\ calls[s] \in BoardCallRec
                               /\ calls[s].kind = "save" /\ calls[s].at = "read" => calls[s].todo # {},
           NEW new \in BoardCallRec, NEW rows,
           (\A s \in Requests : calls[s].at = "none") /\ new.alone
               => CallGood([new EXCEPT !.at = "sent"], rows),
           B!Send(calls, new)
    PROVE  CallsGood(bCall', rows)
<1>1. PICK s \in Requests :
        /\ calls[s].at = "none"
        /\ bCall' = [B!NotAlone(calls) EXCEPT
                       ![s] = IF B!Under(calls) = {} /\ new.alone THEN [new EXCEPT !.at = "sent"]
                              ELSE [new EXCEPT !.at = "sent", !.alone = FALSE, !.drop = 0,
                                               !.was = <<>>]]
  BY DEF B!Send
<1> DEFINE n == B!NotAlone(calls)
           alone == [new EXCEPT !.at = "sent"]
           other == [new EXCEPT !.at = "sent", !.alone = FALSE, !.drop = 0, !.was = <<>>]
           mine == IF B!Under(calls) = {} /\ new.alone THEN alone ELSE other
<1>2. /\ n = [t \in Requests |-> n[t]]
      /\ \A t \in Requests : /\ n[t].at = calls[t].at /\ n[t].alone = FALSE
                             /\ CallGood(n[t], rows)
  BY OverlapsAll
<1>3. bCall' = [n EXCEPT ![s] = mine]
  BY <1>1
<1>4. other.alone = FALSE /\ other.at = "sent"
  BY DEF BoardCallRec
<1>5. other \in BoardCallRec
  BY DEF BoardCallRec
<1>6. B!Under(calls) = {} => \A t \in Requests : calls[t].at = "none"
  BY DEF B!Under
<1> HIDE DEF n, alone, other
<1>7. CallGood(mine, rows) /\ (mine.alone => B!Under(calls) = {})
  <2>1. CASE B!Under(calls) = {} /\ new.alone
    BY <1>6, <2>1 DEF alone
  <2>2. CASE ~(B!Under(calls) = {} /\ new.alone)
    BY <1>4, <1>5, <2>2 DEF CallGood, AloneGood
  <2> QED BY <2>1, <2>2
<1> HIDE DEF mine
<1>8. /\ bCall' = [t \in Requests |-> bCall'[t]] /\ bCall'[s] = mine
      /\ \A t \in Requests : t # s => bCall'[t] = n[t]
  BY <1>2, <1>3
<1>9. \A t \in Requests : CallGood(bCall'[t], rows)
  BY <1>2, <1>7, <1>8
<1>10. ASSUME NEW t \in Requests, NEW u \in Requests, bCall'[t].alone, bCall'[t].at # "none",
              bCall'[u].at # "none"
       PROVE  t = u
  <2>1. t = s
    BY <1>2, <1>8, <1>10
  <2>2. mine.alone
    BY <1>8, <1>10, <2>1
  <2>3. \A v \in Requests : calls[v].at = "none"
    BY <1>6, <1>7, <2>2
  <2>4. u = s
    BY <1>2, <1>8, <1>10, <2>3
  <2> QED BY <2>1, <2>4
<1> QED BY <1>8, <1>9, <1>10 DEF CallsGood

(* One call ends or goes on, alone only if it was. *)
LEMMA OneGoesOn ==
    ASSUME NEW rows, NEW later, CallsGood(bCall, rows), NEW s \in Requests, bCall[s].at # "none",
           NEW new, CallGood(new, later), new.alone /\ new.at # "none" => bCall[s].alone,
           bCall' = [bCall EXCEPT ![s] = new],
           later = rows \/ bCall[s].alone \/ \A t \in Requests \ {s} : ~bCall[t].alone \/ bCall[t].at = "none"
    PROVE  CallsGood(bCall', later)
<1>1. bCall = [t \in Requests |-> bCall[t]]
  BY DEF CallsGood
<1>2. /\ bCall' = [t \in Requests |-> bCall'[t]] /\ bCall'[s] = new
      /\ \A t \in Requests : t # s => bCall'[t] = bCall[t]
  BY <1>1
<1>3. ASSUME NEW t \in Requests, t # s PROVE CallGood(bCall[t], later)
  <2>1. CallGood(bCall[t], rows)
    BY DEF CallsGood
  <2>2. CASE later = rows
    BY <2>1, <2>2
  <2>3. CASE ~(bCall[t].alone /\ bCall[t].at # "none")
    BY <2>1, <2>3 DEF CallGood, AloneGood
  <2>4. bCall[s].alone => bCall[t].at = "none"
    BY <1>3 DEF CallsGood
  <2> QED BY <1>3, <2>2, <2>3, <2>4
<1>4. \A t \in Requests : CallGood(bCall'[t], later)
  BY <1>2, <1>3
<1>5. ASSUME NEW t \in Requests, NEW u \in Requests, bCall'[t].alone, bCall'[t].at # "none",
             bCall'[u].at # "none"
      PROVE  t = u
  <2>1. bCall[t].alone /\ bCall[t].at # "none"
    BY <1>2, <1>5
  <2>2. bCall[u].at # "none"
    BY <1>2, <1>5
  <2> QED BY <2>1, <2>2 DEF CallsGood
<1> QED BY <1>2, <1>4, <1>5 DEF CallsGood

(* Calls fail. *)
LEMMA FailGood ==
    ASSUME NEW rows, CallsGood(bCall, rows), NEW ss \in SUBSET B!Under(bCall), B!Fail(ss)
    PROVE  CallsGood(bCall', rows)
<1>1. bCall' = [s \in Requests |-> IF s \in ss THEN B!After(bCall[s]) ELSE bCall[s]]
  BY DEF B!Fail
<1>2. \A s \in ss : s \in Requests /\ bCall[s].at # "none"
  BY DEF B!Under
<1>3. ASSUME NEW s \in Requests
      PROVE  /\ CallGood(bCall'[s], rows)
             /\ bCall'[s].at # "none" => bCall[s].at # "none"
             /\ bCall'[s].alone /\ bCall'[s].at # "none" => bCall[s].alone
  <2>1. CallGood(bCall[s], rows) /\ bCall[s] \in BoardCallRec
    BY DEF CallsGood, CallGood
  <2>2. CASE s \in ss
    <3>1. bCall'[s] = B!After(bCall[s])
      BY <1>1, <2>2
    <3> QED BY <1>2, <2>1, <2>2, <3>1, AfterIs
  <2>3. CASE s \notin ss
    BY <1>1, <2>1, <2>3
  <2> QED BY <2>2, <2>3
<1>4. bCall' = [s \in Requests |-> bCall'[s]]
  BY <1>1
<1>5. ASSUME NEW t \in Requests, NEW u \in Requests, bCall'[t].alone, bCall'[t].at # "none",
             bCall'[u].at # "none"
      PROVE  t = u
  BY <1>3, <1>5 DEF CallsGood
<1> QED BY <1>3, <1>4, <1>5 DEF CallsGood

LEMMA BoardInit == B!Init => BoardInv
<1> SUFFICES ASSUME B!Init PROVE BoardInv
  OBVIOUS
<1>1. B!Settled \cup {B!NoRow} \subseteq B!Row
  <2>1. B!Settled \subseteq B!Row
    BY RowIs DEF B!Settled, B!Status, B!Unassigned, BoardPm
  <2> QED BY <2>1, RowIs
<1>2. bCards \in [BoardCards -> B!Row]
  BY <1>1 DEF B!Init
<1>3. bShown = B!buildColumnItemIds(bCards, bBoard) /\ bLoaded = bCards /\ bBoard \in Boards
  BY DEF B!Init
<1>4. BoardLayout(bShown, bBoard)
  BY <1>2, <1>3, ShownLayout
<1>5. bLoading \in BOOLEAN /\ bStale \in BOOLEAN /\ bOps \in 0 .. MaxDrops
  <2>1. bLoading = FALSE /\ bStale = FALSE /\ bOps = 0
    BY DEF B!Init
  <2>2. MaxDrops \in Nat
    BY BoardsAssumption
  <2>3. bOps \in 0 .. MaxDrops
    BY <2>1, <2>2
  <2>4. bLoading \in BOOLEAN /\ bStale \in BOOLEAN
    BY <2>1, Zenon
  <2> QED BY <2>3, <2>4
<1>6. bCall = [s \in Requests |-> B!NoCall]
  BY DEF B!Init
<1>7. CallsGood(bCall, bCards)
  BY <1>6, NoCallIs DEF CallsGood
<1>8. BoardFresh
  BY <1>3, <1>6, NoCallIs DEF BoardFresh
<1> QED BY <1>2, <1>3, <1>4, <1>5, <1>7, <1>8 DEF BoardInv, BoardTypes

LEMMA BoardOp == bOps \in 0 .. MaxDrops /\ B!Op => bOps' \in 0 .. MaxDrops
  BY BoardsAssumption DEF B!Op

LEMMA CallsTyped ==
    ASSUME NEW rows, CallsGood(bCall, rows)
    PROVE  /\ bCall = [s \in Requests |-> bCall[s]]
           /\ \A s \in Requests : /\ bCall[s] \in BoardCallRec
                                  /\ bCall[s].kind = "save" /\ bCall[s].at = "read" => bCall[s].todo # {}
  BY DEF CallsGood, CallGood

LEMMA BoardOpen == BoardInv /\ B!Open => BoardInv'
<1> SUFFICES ASSUME BoardInv, B!Open PROVE BoardInv'
  OBVIOUS
<1> USE DEF BoardInv, BoardTypes
<1> DEFINE calls == [s \in Requests |-> IF bCall[s].kind = "load" THEN B!NoCall
                                        ELSE [bCall[s] EXCEPT !.gone = bCall[s].at # "none"]]
           new == [B!NoCall EXCEPT !.kind = "load", !.alone = TRUE]
<1>1. B!Send(calls, new)
  BY DEF B!Open
<1>2. /\ bLoading' = TRUE /\ bLoaded' = B!NoRows /\ bShown' = B!buildColumnItemIds(B!NoRows, bBoard)
      /\ bStale' = TRUE /\ bCards' = bCards /\ bBoard' = bBoard
  BY DEF B!Open
<1>3. bOps' \in 0 .. MaxDrops
  BY BoardOp DEF B!Open
<1>4. BoardLayout(bShown', bBoard')
  BY <1>2, RowIs, ShownLayout
<1>5. ASSUME NEW s \in Requests
      PROVE  /\ calls[s] \in BoardCallRec
             /\ calls[s].kind = "save" /\ calls[s].at = "read" => calls[s].todo # {}
  <2>1. /\ bCall[s] \in BoardCallRec
        /\ bCall[s].kind = "save" /\ bCall[s].at = "read" => bCall[s].todo # {}
    BY CallsTyped
  <2>2. CASE bCall[s].kind = "load"
    BY <2>2, NoCallIs
  <2>3. CASE bCall[s].kind # "load"
    <3> DEFINE n == [bCall[s] EXCEPT !.gone = bCall[s].at # "none"]
    <3>1. n \in BoardCallRec /\ n.kind = bCall[s].kind /\ n.at = bCall[s].at /\ n.todo = bCall[s].todo
      BY <2>1 DEF BoardCallRec
    <3>2. calls[s] = n
      BY <2>3
    <3> HIDE DEF n, calls
    <3> QED BY <2>1, <3>1, <3>2
  <2> QED BY <2>2, <2>3
<1>6. calls = [s \in Requests |-> calls[s]]
  OBVIOUS
<1>7. new \in BoardCallRec /\ [new EXCEPT !.at = "sent"] \in BoardCallRec
      /\ [new EXCEPT !.at = "sent"].kind = "load" /\ [new EXCEPT !.at = "sent"].at = "sent"
  BY NoCallIs DEF BoardCallRec
<1> HIDE DEF calls, new
<1>8. CallGood([new EXCEPT !.at = "sent"], bCards)
  BY <1>7 DEF CallGood, AloneGood
<1>9. CallsGood(bCall', bCards)
  BY <1>1, <1>5, <1>6, <1>7, <1>8, SendGood
<1> QED BY <1>2, <1>3, <1>4, <1>9, RowIs DEF BoardFresh

LEMMA BoardSelect == BoardInv /\ (\E b \in Boards : B!SelectBoard(b)) => BoardInv'
<1> SUFFICES ASSUME BoardInv, NEW b \in Boards, B!SelectBoard(b) PROVE BoardInv'
  OBVIOUS
<1> USE DEF BoardInv, BoardTypes
<1>1. /\ bBoard' = b /\ bShown' = B!buildColumnItemIds(bLoaded, b)
      /\ bCards' = bCards /\ bLoaded' = bLoaded /\ bLoading' = bLoading
      /\ bCall' = bCall /\ bStale' = bStale
  BY DEF B!SelectBoard
<1>2. bOps' \in 0 .. MaxDrops
  BY BoardOp DEF B!SelectBoard
<1>3. BoardLayout(bShown', bBoard')
  BY <1>1, ShownLayout
<1>4. BoardFresh'
  BY <1>1 DEF BoardFresh
<1>5. CallsGood(bCall', bCards')
  BY <1>1
<1> QED BY <1>1, <1>2, <1>3, <1>4, <1>5

LEMMA BoardDrop ==
    ASSUME BoardInv, NEW c \in BoardCards, NEW k, NEW i, B!Drop(c, k, i)
    PROVE  BoardInv'
<1> USE DEF BoardInv, BoardTypes
<1> DEFINE m == B!Moved(c, k, i)
           was == [d \in BoardCards |-> B!effectivePmStatus(bCards[d])]
           new == [B!NoCall EXCEPT !.kind = "save", !.map = m, !.board = bBoard,
                                   !.drop = c, !.alone = ~bStale, !.was = was]
           sent == [new EXCEPT !.at = "sent"]
<1>1. /\ k \in DOMAIN bShown /\ i \in 1 .. Len(B!Without(bShown[k], c)) + 1
      /\ bShown' = m /\ bStale' = TRUE
      /\ bCards' = bCards /\ bBoard' = bBoard /\ bLoaded' = bLoaded /\ bLoading' = bLoading
  BY DEF B!Drop
<1>2. B!Send(bCall, new)
  BY DEF B!Drop
<1>3. bOps' \in 0 .. MaxDrops
  BY BoardOp DEF B!Drop
<1>4. /\ BoardLayout(m, bBoard) /\ DOMAIN m = DOMAIN bShown
      /\ \A j \in DOMAIN bShown : \A d \in B!ToSet(m[j]) : d # c => d \in B!ToSet(bShown[j])
  BY <1>1, MovedIs
<1>5. m \in BoardMaps
  BY <1>4, ColumnsThere DEF BoardMaps, BoardLayout
<1>6. was \in [BoardCards -> BoardPm] /\ \A d \in BoardCards : was[d] = B!effectivePmStatus(bCards[d])
  <2>1. \A d \in BoardCards : bCards[d] \in B!Row
    OBVIOUS
  <2> QED BY <2>1, EffIs
<1> HIDE DEF m, was
<1>7. new \in BoardCallRec /\ new.kind = "save" /\ new.alone = ~bStale
      /\ new.map = m /\ new.board = bBoard /\ new.drop = c /\ new.was = was
  BY <1>5, <1>6, NoCallIs DEF BoardCallRec
<1> HIDE DEF new
<1>8. sent \in BoardCallRec /\ sent.kind = "save" /\ sent.at = "sent"
      /\ sent.map = m /\ sent.board = bBoard /\ sent.drop = c /\ sent.was = was
  BY <1>7 DEF BoardCallRec
<1> HIDE DEF sent
<1>9. ASSUME ~bStale PROVE Agrees(sent, bCards)
  <2>1. \A d \in BoardCards : sent.was[d] = B!effectivePmStatus(bCards[d])
    BY <1>6, <1>8
  <2>2. ASSUME NEW e \in B!Entries(m), e.card # c
        PROVE  B!ColumnKey(bCards[e.card], bBoard) = e.column
    <3>1. e.column \in DOMAIN m /\ e.card \in B!ToSet(m[e.column])
      BY <1>4, EntriesAre DEF B!ToSet
    <3>2. e.card \in B!ToSet(bShown[e.column])
      BY <1>4, <2>2, <3>1
    <3>3. bShown = B!buildColumnItemIds(bCards, bBoard)
      BY <1>9 DEF BoardFresh
    <3>4. e.column \in B!ColumnsOf(bBoard) \cup {0}
      BY <1>4, <3>1 DEF BoardLayout
    <3>5. B!ToSet(bShown[e.column]) = B!Shows(bCards, bBoard, e.column)
      BY <3>3, <3>4, ShownLayout
    <3> QED BY <3>2, <3>5 DEF B!Shows
  <2> QED BY <1>8, <2>1, <2>2 DEF Agrees
<1>10. ASSUME new.alone PROVE CallGood(sent, bCards)
  BY <1>4, <1>7, <1>8, <1>9, <1>10 DEF CallGood, AloneGood, SaveSent, SaveRead, SaveDone
<1>11. new.alone => CallGood([new EXCEPT !.at = "sent"], bCards)
  BY <1>10 DEF sent
<1>12. CallsGood(bCall', bCards)
  <2>1. /\ bCall = [s \in Requests |-> bCall[s]]
        /\ \A s \in Requests : /\ bCall[s] \in BoardCallRec
                               /\ bCall[s].kind = "save" /\ bCall[s].at = "read" => bCall[s].todo # {}
    BY CallsTyped
  <2> QED BY <1>2, <1>7, <1>11, <2>1, SendGood
<1> QED BY <1>1, <1>3, <1>4, <1>12 DEF BoardFresh

LEMMA BoardMishap == BoardInv /\ B!Mishap => BoardInv'
<1> SUFFICES ASSUME BoardInv, B!Mishap PROVE BoardInv'
  OBVIOUS
<1> USE DEF BoardInv, BoardTypes
<1>1. /\ bCards' = bCards /\ bBoard' = bBoard /\ bLoaded' = bLoaded /\ bShown' = bShown
      /\ bStale' = bStale
  BY DEF B!Mishap
<1>2. bOps' \in 0 .. MaxDrops
  BY BoardOp DEF B!Mishap
<1>3. PICK ss \in SUBSET B!Under(bCall) : ss # {} /\ B!Fail(ss)
  <2>1. CASE \E s \in B!Under(bCall) : B!Fail({s})
    BY <2>1
  <2>2. CASE B!Under(bCall) # {} /\ B!Fail(B!Under(bCall))
    BY <2>2
  <2> QED BY <2>1, <2>2 DEF B!Mishap
<1>4. CallsGood(bCall', bCards)
  BY <1>3, FailGood
<1>5. bLoading' \in BOOLEAN
  BY <1>3 DEF B!Fail
<1>6. bStale
  BY <1>3 DEF BoardFresh, B!Under
<1> QED BY <1>1, <1>2, <1>4, <1>5, <1>6 DEF BoardFresh

(* The cards of a map that need not be a layout. *)
LEMMA MapEntries ==
    ASSUME NEW m \in BoardMaps
    PROVE  B!Entries(m) \subseteq BoardEntry
<1> SUFFICES ASSUME NEW e \in B!Entries(m) PROVE e \in BoardEntry
  OBVIOUS
<1>1. PICK k \in DOMAIN m : \E n \in DOMAIN m[k] : e = [card |-> m[k][n], column |-> k, at |-> n - 1]
  BY DEF B!Entries
<1>2. PICK n \in DOMAIN m[k] : e = [card |-> m[k][n], column |-> k, at |-> n - 1]
  BY <1>1
<1>3. k \in BoardColumns \cup {0} /\ m[k] \in Seq(BoardCards)
  <2>1. m # <<>>
    OBVIOUS
  <2> QED BY <2>1 DEF BoardMaps
<1>4. DOMAIN m[k] = 1 .. Len(m[k]) /\ Len(m[k]) \in Nat
  BY <1>3, LenProperties
<1>5. m[k][n] \in BoardCards
  BY <1>3, <1>4, ElementOfSeq
<1>6. n - 1 \in Nat
  BY <1>4
<1> QED BY <1>2, <1>3, <1>5, <1>6 DEF BoardEntry

LEMMA BoardSaved == BoardInv /\ (\E s \in Requests : B!Saved(s)) => BoardInv'
<1> SUFFICES ASSUME BoardInv, NEW s \in Requests, B!Saved(s) PROVE BoardInv'
  OBVIOUS
<1> USE DEF BoardInv, BoardTypes
<1>1. /\ bCall[s].at = "done" /\ bCall' = [bCall EXCEPT ![s] = B!After(bCall[s])]
      /\ bCards' = bCards /\ bBoard' = bBoard /\ bLoaded' = bLoaded /\ bShown' = bShown
      /\ bLoading' = bLoading /\ bStale' = bStale /\ bOps' = bOps
  BY DEF B!Saved
<1>2. bCall[s] \in BoardCallRec
  BY CallsTyped
<1> DEFINE new == B!After(bCall[s])
<1>3. CallGood(new, bCards) /\ (new.alone /\ new.at # "none" => bCall[s].alone)
  BY <1>2, AfterIs
<1> HIDE DEF new
<1>4. bCall' = [bCall EXCEPT ![s] = new] /\ bCall[s].at # "none"
  BY <1>1 DEF new
<1>5. CallsGood(bCall', bCards)
  BY <1>3, <1>4, OneGoesOn
<1>6. bStale
  BY <1>1 DEF BoardFresh
<1> QED BY <1>1, <1>5, <1>6 DEF BoardFresh

LEMMA BoardLoaded == BoardInv /\ (\E s \in Requests : B!Loaded(s)) => BoardInv'
<1> SUFFICES ASSUME BoardInv, NEW s \in Requests, B!Loaded(s) PROVE BoardInv'
  OBVIOUS
<1> USE DEF BoardInv, BoardTypes
<1>1. /\ bCall[s].kind = "load" /\ bCall[s].at = "done" /\ bCall' = [bCall EXCEPT ![s] = B!NoCall]
      /\ bLoaded' = bCall[s].rows /\ bShown' = B!buildColumnItemIds(bCall[s].rows, bBoard)
      /\ bLoading' = FALSE /\ bStale' = (bStale /\ ~bCall[s].alone)
      /\ bCards' = bCards /\ bBoard' = bBoard /\ bOps' = bOps
  BY DEF B!Loaded
<1>2. bCall[s] \in BoardCallRec /\ bCall[s].rows \in [BoardCards -> B!Row]
      /\ bCall[s].alone \in BOOLEAN
  BY CallsTyped, CallShape
<1>3. BoardLayout(bShown', bBoard')
  BY <1>1, <1>2, ShownLayout
<1>4. CallsGood(bCall', bCards)
  BY <1>1, NoCallIs, OneGoesOn
<1>5. bStale
  BY <1>1 DEF BoardFresh
<1>6. BoardFresh'
  <2> SUFFICES ASSUME ~bStale'
               PROVE  /\ bLoaded' = bCards' /\ bShown' = B!buildColumnItemIds(bCards', bBoard')
                      /\ \A t \in Requests : bCall'[t].at = "none"
    BY DEF BoardFresh
  <2>1. bCall[s].alone
    BY <1>1, <1>2, <1>5
  <2>2. bCall[s].rows = bCards
    BY <1>1, <2>1 DEF CallsGood, CallGood, AloneGood
  <2>3. \A t \in Requests : t # s => bCall[t].at = "none"
    BY <1>1, <2>1 DEF CallsGood
  <2>4. bCall = [t \in Requests |-> bCall[t]]
    BY CallsTyped
  <2>5. \A t \in Requests : bCall'[t].at = "none"
    BY <1>1, <2>3, <2>4, NoCallIs
  <2> QED BY <1>1, <2>2, <2>5
<1>7. bStale' \in BOOLEAN
  BY <1>1, <1>2
<1> QED BY <1>1, <1>2, <1>3, <1>4, <1>6, <1>7

LEMMA BoardReadRows == BoardInv /\ (\E s \in Requests : B!ReadRows(s)) => BoardInv'
<1> SUFFICES ASSUME BoardInv, NEW s \in Requests, B!ReadRows(s) PROVE BoardInv'
  OBVIOUS
<1> USE DEF BoardInv, BoardTypes
<1>1. /\ bCall[s].kind = "load" /\ bCall[s].at = "sent"
      /\ bCall' = [bCall EXCEPT ![s].at = "done", ![s].rows = bCards]
      /\ bCards' = bCards /\ bBoard' = bBoard /\ bLoaded' = bLoaded /\ bShown' = bShown
      /\ bLoading' = bLoading /\ bStale' = bStale /\ bOps' = bOps
  BY DEF B!ReadRows
<1>2. bCall[s] \in BoardCallRec /\ bCall = [t \in Requests |-> bCall[t]]
  BY CallsTyped
<1> DEFINE new == [bCall[s] EXCEPT !.at = "done", !.rows = bCards]
<1>3. new \in BoardCallRec /\ new.kind = "load" /\ new.at = "done" /\ new.rows = bCards
      /\ new.alone = bCall[s].alone
  BY <1>1, <1>2 DEF BoardCallRec
<1>4. bCall' = [bCall EXCEPT ![s] = new] /\ bCall[s].at # "none"
  BY <1>1, <1>2
<1> HIDE DEF new
<1>5. CallGood(new, bCards)
  BY <1>3 DEF CallGood, AloneGood
<1>6. CallsGood(bCall', bCards)
  BY <1>3, <1>4, <1>5, OneGoesOn
<1>7. bStale
  BY <1>1 DEF BoardFresh
<1> QED BY <1>1, <1>6, <1>7 DEF BoardFresh

LEMMA BoardReadLayout == BoardInv /\ (\E s \in Requests : B!ReadLayout(s)) => BoardInv'
<1> SUFFICES ASSUME BoardInv, NEW s \in Requests, B!ReadLayout(s) PROVE BoardInv'
  OBVIOUS
<1> USE DEF BoardInv, BoardTypes
<1>1. /\ bCall[s].kind = "save" /\ bCall[s].at = "sent"
      /\ bCards' = bCards /\ bBoard' = bBoard /\ bLoaded' = bLoaded /\ bShown' = bShown
      /\ bStale' = bStale /\ bOps' = bOps
  BY DEF B!ReadLayout
<1>2. bCall[s] \in BoardCallRec /\ bCall = [t \in Requests |-> bCall[t]]
  BY CallsTyped
<1>3. bStale
  BY <1>1 DEF BoardFresh
<1> DEFINE cl == bCall[s]
           todo == B!Entries(cl.map)
           map == IF cl.alone THEN cl.map ELSE <<>>
           new == [cl EXCEPT !.at = IF todo = {} THEN "done" ELSE "read", !.rows = bCards,
                             !.todo = todo, !.map = map]
<1>4. CASE {e.card : e \in todo} = B!Existing(bCards)
  <2>1. bCall' = [bCall EXCEPT ![s].at = IF todo = {} THEN "done" ELSE "read",
                               ![s].rows = bCards, ![s].todo = todo, ![s].map = map]
        /\ bLoading' = bLoading
    BY <1>4 DEF B!ReadLayout
  <2>2. bCall' = [bCall EXCEPT ![s] = new]
    BY <1>2, <2>1
  <2>3. todo \subseteq BoardEntry
    <3>1. cl.map \in BoardMaps
      BY <1>2, CallShape
    <3> QED BY <3>1, MapEntries
  <2>4. map \in BoardMaps
    <3>1. cl.map \in BoardMaps
      BY <1>2, CallShape
    <3> QED BY <3>1 DEF BoardMaps
  <2> HIDE DEF todo, map
  <2>5. /\ new \in BoardCallRec /\ new.kind = "save"
        /\ new.at = (IF todo = {} THEN "done" ELSE "read")
        /\ new.rows = bCards /\ new.alone = cl.alone /\ new.todo = todo /\ new.map = map
        /\ new.board = cl.board /\ new.drop = cl.drop /\ new.was = cl.was
    BY <1>1, <1>2, <2>3, <2>4 DEF BoardCallRec
  <2> HIDE DEF new
  <2>6. ASSUME cl.alone
        PROVE  /\ cl.board \in Boards /\ BoardLayout(new.map, cl.board) /\ Agrees(new, bCards)
               /\ Lists(new.map, bCards) /\ todo = B!Entries(new.map)
    <3>1. new.map = cl.map
      BY <2>5, <2>6 DEF map
    <3>2. cl.board \in Boards /\ BoardLayout(cl.map, cl.board) /\ Agrees(cl, bCards)
      BY <1>1, <2>6 DEF CallsGood, CallGood, AloneGood, SaveSent
    <3>3. Agrees(new, bCards)
      BY <2>5, <3>1, <3>2 DEF Agrees
    <3>4. Lists(new.map, bCards)
      BY <1>4, <3>1 DEF Lists, todo
    <3> QED BY <3>1, <3>2, <3>3, <3>4 DEF todo
  <2>7. CallGood(new, bCards)
    <3>1. CASE todo = {}
      <4>1. new.at = "done"
        BY <2>5, <3>1
      <4>2. new.alone => SaveDone(new, bCards) /\ SaveSent(new, bCards) /\ SaveRead(new, bCards)
        BY <2>5, <2>6, <3>1, <4>1 DEF SaveDone, SaveSent, SaveRead
      <4> QED BY <2>5, <2>6, <4>1, <4>2 DEF CallGood, AloneGood
    <3>2. CASE todo # {}
      <4>1. new.at = "read"
        BY <2>5, <3>2
      <4>2. new.alone => SaveDone(new, bCards) /\ SaveSent(new, bCards) /\ SaveRead(new, bCards)
        BY <2>5, <2>6, <3>2, <4>1 DEF SaveDone, SaveSent, SaveRead
      <4> QED BY <2>5, <2>6, <3>2, <4>1, <4>2 DEF CallGood, AloneGood
    <3> QED BY <3>1, <3>2
  <2>8. CallsGood(bCall', bCards)
    BY <1>1, <2>2, <2>5, <2>7, OneGoesOn
  <2> QED BY <1>1, <1>3, <2>1, <2>8 DEF BoardFresh
<1>5. CASE {e.card : e \in todo} # B!Existing(bCards)
  <2>1. B!Fail({s})
    BY <1>5 DEF B!ReadLayout
  <2>2. {s} \in SUBSET B!Under(bCall)
    BY <1>1 DEF B!Under
  <2>3. CallsGood(bCall', bCards)
    BY <2>1, <2>2, FailGood
  <2>4. bLoading' \in BOOLEAN
    BY <2>1 DEF B!Fail
  <2> QED BY <1>1, <1>3, <2>3, <2>4 DEF BoardFresh
<1> QED BY <1>4, <1>5

LEMMA BoardWrite == BoardInv /\ (\E s \in Requests : B!WriteLayout(s)) => BoardInv'
<1> SUFFICES ASSUME BoardInv, NEW s \in Requests, B!WriteLayout(s) PROVE BoardInv'
  OBVIOUS
<1> USE DEF BoardInv, BoardTypes
<1>1. /\ bCall[s].kind = "save" /\ bCall[s].at = "read"
      /\ bBoard' = bBoard /\ bLoaded' = bLoaded /\ bShown' = bShown
      /\ bStale' = bStale /\ bOps' = bOps
  BY DEF B!WriteLayout
<1>2. bCall[s] \in BoardCallRec /\ bCall = [t \in Requests |-> bCall[t]]
  BY CallsTyped
<1>3. bStale
  BY <1>1 DEF BoardFresh
<1> DEFINE cl == bCall[s]
           e == B!First(cl.todo)
           c == e.card
           rest == cl.todo \ {e}
           at == IF rest = {} THEN "done" ELSE "read"
           kept == IF rest = {} THEN B!NoRows ELSE cl.rows
           new == [cl EXCEPT !.todo = rest, !.at = at, !.rows = kept]
<1>4. cl.todo \subseteq BoardEntry /\ cl.todo # {} /\ cl.rows \in [BoardCards -> B!Row]
  BY <1>1, <1>2, CallsTyped, CallShape
<1>5. e \in cl.todo
  BY <1>4, FirstOne
<1>6. e \in BoardEntry /\ c \in BoardCards
  BY <1>4, <1>5 DEF BoardEntry
<1>7. CASE c \in B!Existing(bCards)
  <2> DEFINE p == B!Placed(bCards[c], cl.rows[c], e)
  <2>1. /\ bCards' = [bCards EXCEPT ![c] = p]
        /\ bCall' = [bCall EXCEPT ![s].todo = rest, ![s].at = at, ![s].rows = kept]
        /\ bLoading' = bLoading
    BY <1>7 DEF B!WriteLayout
  <2>2. bCards[c] \in B!Row /\ cl.rows[c] \in B!Row
    BY <1>4, <1>6
  <2>3. p \in B!Row /\ (p.status = "none" => bCards[c].status = "none")
    <3> HIDE DEF cl, e, c
    <3> QED BY <1>6, <2>2, PlacedRow
  <2>4. bCards' \in [BoardCards -> B!Row] /\ bCards'[c] = p
        /\ \A d \in BoardCards : d # c => bCards'[d] = bCards[d]
    <3> HIDE DEF p
    <3> QED BY <1>6, <2>1, <2>3
  <2>5. B!Existing(bCards') = B!Existing(bCards)
    <3>1. bCards'[c].status # "none"
      BY <1>7, <2>3, <2>4 DEF B!Existing
    <3>2. \A d \in BoardCards : bCards'[d].status # "none" <=> bCards[d].status # "none"
      BY <1>7, <2>4, <3>1 DEF B!Existing
    <3> QED BY <3>2 DEF B!Existing
  <2>6. bCall' = [bCall EXCEPT ![s] = new]
    BY <1>2, <2>1
  <2>7. rest \in SUBSET BoardEntry /\ at \in {"read", "done"} /\ kept \in [BoardCards -> B!Row]
        /\ (at = "read" => rest # {} /\ kept = cl.rows) /\ (at = "done" => rest = {})
    BY <1>4, RowIs
  <2> HIDE DEF rest, at, kept
  <2>8. /\ new \in BoardCallRec /\ new.kind = "save" /\ new.at = at /\ new.todo = rest
        /\ new.rows = kept /\ new.alone = cl.alone /\ new.map = cl.map
        /\ new.board = cl.board /\ new.drop = cl.drop /\ new.was = cl.was
    BY <1>1, <1>2, <2>7 DEF BoardCallRec
  <2> HIDE DEF new
  <2>9. ASSUME cl.alone
        PROVE  /\ cl.board \in Boards /\ BoardLayout(cl.map, cl.board)
               /\ SaveSent(new, bCards') /\ SaveRead(new, bCards') /\ SaveDone(new, bCards')
    <3>1. /\ cl.board \in Boards /\ BoardLayout(cl.map, cl.board) /\ SaveRead(cl, bCards)
      BY <1>1, <2>9 DEF CallsGood, CallGood, AloneGood
    <3>2. /\ Agrees(cl, cl.rows) /\ cl.todo \subseteq B!Entries(cl.map) /\ Lists(cl.map, bCards)
          /\ \A f \in B!Entries(cl.map) :
                IF f \in cl.todo THEN bCards[f.card] = cl.rows[f.card]
                ELSE Arrived(cl, f, bCards[f.card])
      BY <1>1, <3>1 DEF SaveRead
    <3>3. /\ B!Entries(cl.map) \subseteq BoardEntry
          /\ \A f \in B!Entries(cl.map) : f.card = c => f = e
      BY <1>5, <3>1, <3>2, EntriesAre
    <3>4. Lists(cl.map, bCards')
      BY <2>5, <3>2 DEF Lists
    <3>5. Arrived(cl, e, p)
      <4>1. e \in B!Entries(cl.map) /\ bCards[c] = cl.rows[c]
        BY <1>5, <3>2
      <4>2. p = B!Placed(cl.rows[c], cl.rows[c], e)
        BY <4>1
      <4>3. p.place = e.column /\ p.order = e.at
        <5> HIDE DEF p, cl, e, c
        <5> QED BY <1>6, <2>2, <4>2, PlacedRow
      <4>4. ASSUME c # cl.drop
            PROVE  /\ B!effectivePmStatus(p) = cl.was[c]
                   /\ e.column = 0 => B!columnIdForStatusFallback(p, cl.board) = 0
        <5>1. B!ColumnKey(cl.rows[c], cl.board) = e.column
              /\ cl.was[c] = B!effectivePmStatus(cl.rows[c])
          BY <1>6, <3>2, <4>1, <4>4 DEF Agrees
        <5> HIDE DEF p
        <5> QED BY <1>6, <2>2, <4>2, <5>1, KeepsStatus
      <4> QED BY <4>3, <4>4 DEF Arrived
    <3> HIDE DEF p
    <3>6. ASSUME NEW f \in B!Entries(cl.map)
          PROVE  IF f \in rest THEN bCards'[f.card] = cl.rows[f.card]
                 ELSE Arrived(cl, f, bCards'[f.card])
      <4>1. CASE f = e
        <5>1. f \notin rest
          BY <4>1 DEF rest
        <5>2. bCards'[f.card] = p
          BY <2>4, <4>1
        <5> QED BY <3>5, <4>1, <5>1, <5>2
      <4>2. CASE f # e
        <5>1. f.card # c /\ f.card \in BoardCards
          BY <3>3, <4>2 DEF BoardEntry
        <5>2. bCards'[f.card] = bCards[f.card]
          BY <2>4, <5>1
        <5>3. f \in rest <=> f \in cl.todo
          BY <4>2 DEF rest
        <5> QED BY <3>2, <5>2, <5>3
      <4> QED BY <4>1, <4>2
    <3>7. \A f, r : Arrived(new, f, r) <=> Arrived(cl, f, r)
      BY <2>8 DEF Arrived
    <3>8. at = "read" => Agrees(new, new.rows)
      <4> SUFFICES ASSUME at = "read" PROVE Agrees(new, new.rows)
        OBVIOUS
      <4>1. new.rows = cl.rows
        BY <2>7, <2>8
      <4> QED BY <2>8, <3>2, <4>1 DEF Agrees
    <3>9. rest \subseteq B!Entries(cl.map)
      BY <3>2 DEF rest
    <3>10. SaveRead(new, bCards')
      <4> SUFFICES ASSUME at = "read" PROVE SaveRead(new, bCards')
        BY <2>8 DEF SaveRead
      <4>1. new.rows = cl.rows
        BY <2>7, <2>8
      <4>2. \A f \in B!Entries(new.map) :
               IF f \in new.todo THEN bCards'[f.card] = new.rows[f.card]
               ELSE Arrived(new, f, bCards'[f.card])
        BY <2>8, <3>6, <3>7, <4>1
      <4>3. Agrees(new, new.rows) /\ new.todo \subseteq B!Entries(new.map) /\ Lists(new.map, bCards')
        BY <2>8, <3>4, <3>8, <3>9
      <4> QED BY <4>2, <4>3 DEF SaveRead
    <3>11. SaveDone(new, bCards')
      <4> SUFFICES ASSUME at = "done" PROVE SaveDone(new, bCards')
        BY <2>8 DEF SaveDone
      <4>1. \A f \in B!Entries(new.map) : Arrived(new, f, bCards'[f.card])
        BY <2>7, <2>8, <3>6, <3>7
      <4>2. Lists(new.map, bCards')
        BY <2>8, <3>4
      <4> QED BY <4>1, <4>2 DEF SaveDone
    <3>12. SaveSent(new, bCards')
      BY <2>7, <2>8 DEF SaveSent
    <3> QED BY <3>1, <3>10, <3>11, <3>12
  <2>10. CallGood(new, bCards')
    BY <2>7, <2>8, <2>9 DEF CallGood, AloneGood
  <2>11. bCall[s].at # "none" /\ (new.alone => bCall[s].alone)
    BY <1>1, <2>8
  <2>12. \A t \in Requests \ {s} : ~bCall[t].alone \/ bCall[t].at = "none"
    BY <1>1 DEF CallsGood
  <2>13. CallsGood(bCall', bCards')
    BY <2>6, <2>10, <2>11, <2>12, OneGoesOn
  <2> QED BY <1>1, <1>3, <2>1, <2>4, <2>13 DEF BoardFresh
<1>8. CASE c \notin B!Existing(bCards)
  <2>1. B!Fail(B!Under(bCall)) /\ bCards' = bCards
    BY <1>8 DEF B!WriteLayout
  <2>2. CallsGood(bCall', bCards)
    BY <2>1, FailGood
  <2>3. bLoading' \in BOOLEAN
    BY <2>1 DEF B!Fail
  <2> QED BY <1>1, <1>3, <2>1, <2>2, <2>3 DEF BoardFresh
<1> QED BY <1>7, <1>8

-----------------------------------------------------------------------------
(* What other people do. *)
LEMMA BoardChange ==
    ASSUME BoardInv, NEW c \in BoardCards, NEW row \in B!Row, B!Change(c, row)
    PROVE  BoardInv'
<1> USE DEF BoardInv, BoardTypes
<1>1. /\ bCards' = [bCards EXCEPT ![c] = row] /\ bCall' = B!NotAlone(bCall) /\ bStale' = TRUE
      /\ bBoard' = bBoard /\ bLoaded' = bLoaded /\ bShown' = bShown /\ bLoading' = bLoading
  BY DEF B!Change
<1>2. bOps' \in 0 .. MaxDrops
  BY BoardOp DEF B!Change
<1>3. bCards' \in [BoardCards -> B!Row]
  BY <1>1
<1>4. CallsGood(bCall', bCards')
  <2>1. /\ bCall = [s \in Requests |-> bCall[s]]
        /\ \A s \in Requests : /\ bCall[s] \in BoardCallRec
                               /\ bCall[s].kind = "save" /\ bCall[s].at = "read" => bCall[s].todo # {}
    BY CallsTyped
  <2> QED BY <1>1, <2>1, OverlapsAll
<1> QED BY <1>1, <1>2, <1>3, <1>4 DEF BoardFresh

LEMMA BoardOthers ==
    ASSUME BoardInv, NEW c \in BoardCards,
           \/ B!Check(c) \/ B!Create(c) \/ B!Delete(c)
           \/ \E st \in B!Status : B!SetStatus(c, st)
           \/ \E d \in BOOLEAN : B!MarkDone(c, d)
    PROVE  BoardInv'
<1>1. bCards \in [BoardCards -> B!Row] /\ bCards[c] \in B!Row
  BY DEF BoardInv, BoardTypes
<1>2. B!Status \subseteq BoardPm
  BY DEF B!Status, BoardPm
<1>3. CASE B!Check(c)
  <2>1. [bCards[c] EXCEPT !.done = ~@] \in B!Row
    BY <1>1, RowIs
  <2> QED BY <1>3, <2>1, BoardChange DEF B!Check
<1>4. CASE B!Create(c)
  <2>1. B!Next_(0) \in Nat
    BY <1>1, NextOne
  <2>2. [B!NoRow EXCEPT !.status = "NOT_STARTED", !.order = B!Next_(0)] \in B!Row
    BY <2>1, RowIs DEF BoardPm
  <2> QED BY <1>4, <2>2, BoardChange DEF B!Create, B!Unassigned
<1>5. CASE B!Delete(c)
  BY <1>5, RowIs, BoardChange DEF B!Delete
<1>6. CASE \E st \in B!Status : B!SetStatus(c, st)
  <2>1. PICK st \in B!Status : B!SetStatus(c, st)
    BY <1>6
  <2>2. [bCards[c] EXCEPT !.status = st] \in B!Row
    BY <1>1, <1>2, RowIs
  <2> QED BY <2>1, <2>2, BoardChange DEF B!SetStatus
<1>7. CASE \E d \in BOOLEAN : B!MarkDone(c, d)
  <2>1. PICK d \in BOOLEAN : B!MarkDone(c, d)
    BY <1>7
  <2> DEFINE st == IF d THEN "DONE" ELSE "NOT_STARTED"
             fit == {j \in B!ColumnsOf(B!Min(Boards)) : MappedTo[j] = st}
             k == IF ~d \/ fit = {} THEN 0 ELSE B!Min(fit)
             order == IF k = bCards[c].place THEN bCards[c].order ELSE B!Next_(k)
             row == [status |-> st, done |-> d, place |-> k, order |-> order]
  <2>2. B!Change(c, row)
    BY <2>1 DEF B!MarkDone, B!Unassigned
  <2>3. fit \subseteq BoardColumns /\ fit \subseteq Nat
    BY BoardsAssumption DEF B!ColumnsOf
  <2> HIDE DEF fit
  <2>4. fit # {} => B!Min(fit) \in fit
    BY <2>3, LeastOne
  <2>5. k \in BoardColumns \cup {0}
    BY <2>3, <2>4
  <2> HIDE DEF k
  <2>6. order \in Nat
    <3>1. bCards[c].order \in Nat
      BY <1>1, RowIs
    <3>2. B!Next_(k) \in Nat
      BY <1>1, NextOne
    <3> QED BY <3>1, <3>2
  <2>7. st \in BoardPm
    BY DEF BoardPm
  <2> HIDE DEF st, order
  <2>8. row \in B!Row
    BY <2>5, <2>6, <2>7, RowIs
  <2> QED BY <2>2, <2>8, BoardChange
<1> QED BY <1>3, <1>4, <1>5, <1>6, <1>7

LEMMA BoardNext == BoardInv /\ B!Next => BoardInv'
  BY BoardOpen, BoardSelect, BoardDrop, BoardMishap, BoardSaved, BoardLoaded, BoardReadRows,
     BoardReadLayout, BoardWrite, BoardOthers DEF B!Next

LEMMA BoardSame == BoardInv /\ UNCHANGED bvars => BoardInv'
<1> SUFFICES ASSUME BoardInv, UNCHANGED bvars PROVE BoardInv'
  OBVIOUS
<1>1. /\ bCards' = bCards /\ bBoard' = bBoard /\ bLoaded' = bLoaded /\ bShown' = bShown
      /\ bLoading' = bLoading /\ bCall' = bCall /\ bStale' = bStale /\ bOps' = bOps
  BY DEF bvars
<1> QED BY <1>1 DEF BoardInv, BoardTypes, BoardFresh

(* A save that is written. *)
LEMMA WrittenIs ==
    ASSUME BoardInv, NEW s \in Requests, B!Written(s)
    PROVE  /\ bCall[s].board \in Boards /\ BoardLayout(bCall[s].map, bCall[s].board)
           /\ Lists(bCall[s].map, bCards)
           /\ \A e \in B!Entries(bCall[s].map) : Arrived(bCall[s], e, bCards[e.card])
  BY DEF B!Written, BoardInv, CallsGood, CallGood, AloneGood, SaveDone

LEMMA StatusKept == BoardInv => B!OthersKeepStatus
<1> SUFFICES ASSUME BoardInv, NEW s \in Requests, B!Written(s),
                    NEW c \in B!Existing(bCards) \ {bCall[s].drop}
             PROVE  B!effectivePmStatus(bCards[c]) = bCall[s].was[c]
  BY DEF B!OthersKeepStatus
<1>1. PICK e \in B!Entries(bCall[s].map) : e.card = c
  BY WrittenIs DEF Lists
<1>2. Arrived(bCall[s], e, bCards[c])
  BY <1>1, WrittenIs
<1> QED BY <1>1, <1>2 DEF Arrived

LEMMA DropsStay == BoardInv => B!DropStays
<1> SUFFICES ASSUME BoardInv, NEW s \in Requests, B!Written(s)
             PROVE  LET b == bCall[s].board
                        Springs(c) == /\ c = bCall[s].drop /\ c \in B!ToSet(bCall[s].map[0])
                                      /\ B!columnIdForStatusFallback(bCards[c], b) # 0
                        Staying(seq) == {c \in B!ToSet(seq) : ~Springs(c)}
                        now == B!buildColumnItemIds(bCards, b)
                        sent == bCall[s].map
                    IN  \A k \in DOMAIN now :
                           /\ Staying(now[k]) = Staying(sent[k])
                           /\ \A c, d \in Staying(now[k]) :
                                 B!At(now[k], c) < B!At(now[k], d) <=> B!At(sent[k], c) < B!At(sent[k], d)
  BY DEF B!DropStays, B!Unassigned
<1> DEFINE b == bCall[s].board
           Springs(c) == /\ c = bCall[s].drop /\ c \in B!ToSet(bCall[s].map[0])
                         /\ B!columnIdForStatusFallback(bCards[c], b) # 0
           Staying(seq) == {c \in B!ToSet(seq) : ~Springs(c)}
           now == B!buildColumnItemIds(bCards, b)
           sent == bCall[s].map
           es == B!Entries(sent)
<1>1. /\ bCards \in [BoardCards -> B!Row] /\ BoardLayout(sent, b) /\ Lists(sent, bCards)
      /\ \A e \in es : Arrived(bCall[s], e, bCards[e.card])
  BY WrittenIs DEF BoardInv, BoardTypes
<1>2. /\ DOMAIN now = B!ColumnsOf(b) \cup {0} /\ DOMAIN sent = DOMAIN now
      /\ \A k \in DOMAIN now : /\ now[k] = B!Sorted(bCards, B!Shows(bCards, b, k))
                               /\ B!ToSet(now[k]) = B!Shows(bCards, b, k)
  <2>1. DOMAIN now = B!ColumnsOf(b) \cup {0}
    BY <1>1, ShownLayout
  <2>2. DOMAIN sent = B!ColumnsOf(b) \cup {0}
    BY <1>1 DEF BoardLayout
  <2>3. \A k \in B!ColumnsOf(b) \cup {0} :
           now[k] = B!Sorted(bCards, B!Shows(bCards, b, k)) /\ B!ToSet(now[k]) = B!Shows(bCards, b, k)
    BY <1>1, ShownLayout
  <2> HIDE DEF now, sent, b
  <2> QED BY <2>1, <2>2, <2>3
<1> HIDE DEF now
<1>3. /\ es \subseteq BoardEntry
      /\ \A e \in es : /\ e.column \in DOMAIN sent
                       /\ e.at + 1 \in DOMAIN sent[e.column] /\ sent[e.column][e.at + 1] = e.card
      /\ \A e, f \in es : e.card = f.card => e = f
      /\ \A k \in DOMAIN sent : \A c \in B!ToSet(sent[k]) : \E e \in es : e.card = c /\ e.column = k
  BY <1>1, EntriesAre
<1>4. \A e \in es : e.card \in B!ToSet(sent[e.column])
  BY <1>3 DEF B!ToSet
<1>5. ASSUME NEW e \in es, ~Springs(e.card)
      PROVE  B!ColumnKey(bCards[e.card], b) = e.column
  <2>1. bCards[e.card].place = e.column
        /\ (e.card # bCall[s].drop /\ e.column = 0
               => B!columnIdForStatusFallback(bCards[e.card], b) = 0)
    BY <1>1 DEF Arrived
  <2>2. CASE e.column = 0
    <3>1. e.card \in B!ToSet(bCall[s].map[0])
      BY <1>4, <2>2
    <3>2. B!columnIdForStatusFallback(bCards[e.card], b) = 0
      BY <1>5, <2>1, <2>2, <3>1
    <3> QED BY <2>1, <2>2, <3>2, ColumnsThere DEF B!ColumnKey
  <2>3. CASE e.column # 0
    <3>1. e.column \in B!ColumnsOf(b)
      BY <1>2, <1>3, <2>3
    <3> QED BY <2>1, <3>1 DEF B!ColumnKey
  <2> QED BY <2>2, <2>3
<1>6. \A c \in B!Existing(bCards) : \E e \in es : e.card = c
  BY <1>1 DEF Lists
<1>7. \A e \in es : e.card \in B!Existing(bCards)
  BY <1>1 DEF Lists
<1> HIDE DEF Springs, es
<1>8. ASSUME NEW k \in DOMAIN now, NEW c, ~Springs(c)
      PROVE  c \in B!ToSet(now[k]) <=> c \in B!ToSet(sent[k])
  <2>1. ASSUME c \in B!ToSet(now[k]) PROVE c \in B!ToSet(sent[k])
    <3>1. c \in B!Existing(bCards) /\ B!ColumnKey(bCards[c], b) = k
      BY <1>2, <2>1 DEF B!Shows
    <3>2. PICK e \in es : e.card = c
      BY <1>6, <3>1
    <3>3. e.column = k
      BY <1>5, <1>8, <3>1, <3>2
    <3> QED BY <1>4, <3>2, <3>3
  <2>2. ASSUME c \in B!ToSet(sent[k]) PROVE c \in B!ToSet(now[k])
    <3>1. PICK e \in es : e.card = c /\ e.column = k
      BY <1>2, <1>3, <2>2
    <3>2. B!ColumnKey(bCards[c], b) = k /\ c \in B!Existing(bCards)
      BY <1>5, <1>7, <1>8, <3>1
    <3> QED BY <1>2, <3>2 DEF B!Shows
  <2> QED BY <2>1, <2>2
<1>9. \A k \in DOMAIN now : Staying(now[k]) = Staying(sent[k])
  BY <1>8
<1>10. ASSUME NEW k \in DOMAIN now, NEW c \in Staying(now[k]), NEW d \in Staying(now[k])
       PROVE  B!At(now[k], c) < B!At(now[k], d) <=> B!At(sent[k], c) < B!At(sent[k], d)
  <2>1. c \in B!Shows(bCards, b, k) /\ d \in B!Shows(bCards, b, k) /\ ~Springs(c) /\ ~Springs(d)
    BY <1>2, <1>10
  <2>2. c \in B!ToSet(sent[k]) /\ d \in B!ToSet(sent[k])
    BY <1>8, <1>10, <2>1
  <2>3. PICK e \in es : e.card = c /\ e.column = k
    BY <1>2, <1>3, <2>2
  <2>4. PICK f \in es : f.card = d /\ f.column = k
    BY <1>2, <1>3, <2>2
  <2>5. B!At(sent[k], c) = e.at + 1 /\ B!At(sent[k], d) = f.at + 1
    <3>1. \A x, y \in DOMAIN sent[k] : sent[k][x] = sent[k][y] => x = y
      BY <1>1, <1>2 DEF BoardLayout
    <3>2. /\ e.at + 1 \in DOMAIN sent[k] /\ sent[k][e.at + 1] = c
          /\ f.at + 1 \in DOMAIN sent[k] /\ sent[k][f.at + 1] = d
      BY <1>3, <2>3, <2>4
    <3> QED BY <3>1, <3>2 DEF B!At
  <2>6. bCards[c].order = e.at /\ bCards[d].order = f.at /\ e.at \in Nat /\ f.at \in Nat
    BY <1>1, <1>3, <2>3, <2>4 DEF Arrived, BoardEntry
  <2>7. B!Shows(bCards, b, k) \in SUBSET BoardCards
    BY DEF B!Shows, B!Existing
  <2>8. B!Before(bCards, c, d) <=> B!At(now[k], c) < B!At(now[k], d)
    <3>1. now[k] = B!Sorted(bCards, B!Shows(bCards, b, k))
      BY <1>2
    <3> QED BY <1>1, <2>1, <2>7, <3>1, SortedIs
  <2>9. e.at = f.at => c = d
    BY <1>3, <2>3, <2>4
  <2>10. c \in Nat /\ d \in Nat
    BY <2>1, <2>7, BoardsAssumption
  <2>11. B!Before(bCards, c, d) <=> e.at < f.at
    BY <2>6, <2>9, <2>10 DEF B!Before
  <2> QED BY <2>5, <2>6, <2>8, <2>11
<1> HIDE DEF Staying
<1>11. \A k \in DOMAIN now :
          /\ Staying(now[k]) = Staying(sent[k])
          /\ \A c, d \in Staying(now[k]) :
                B!At(now[k], c) < B!At(now[k], d) <=> B!At(sent[k], c) < B!At(sent[k], d)
  BY <1>9, <1>10
<1> QED BY <1>11 DEF now, Staying, Springs

(* A drop tells what the status of the dropped card is and nothing of the  *)
(* other cards, however many there are and on whatever boards: the page    *)
(* sends the places of all cards, and the server writes the statuses of    *)
(* the columns along with them, for each card that was not in its column.  *)
THEOREM DropsTellOneStatus == MCSpec => []OthersKeepStatus
  <1>1. MCInit => BoardInv
    BY BoardInit DEF MCInit
  <1>2. BoardInv /\ [MCNext]_allvars => BoardInv'
    BY BoardNext, BoardSame
    DEF MCNext, Proposals_, Files_, SignIn_, Panel_, Cards_, Owners_, Board_, allvars
  <1>3. BoardInv => OthersKeepStatus
    BY StatusKept DEF OthersKeepStatus
  <1> QED BY <1>1, <1>2, <1>3, PTL DEF MCSpec

(* The rows that a save has written show the board as it was sent, every   *)
(* column with its cards in their order: the page sorts by what the server *)
(* wrote.  The exception is a card that was dropped under Unassigned with  *)
(* a status that has a column.                                             *)
THEOREM DropsComeBack == MCSpec => []DropStays
  <1>1. MCInit => BoardInv
    BY BoardInit DEF MCInit
  <1>2. BoardInv /\ [MCNext]_allvars => BoardInv'
    BY BoardNext, BoardSame
    DEF MCNext, Proposals_, Files_, SignIn_, Panel_, Cards_, Owners_, Board_, allvars
  <1>3. BoardInv => DropStays
    BY DropsStay DEF DropStays
  <1> QED BY <1>1, <1>2, <1>3, PTL DEF MCSpec


-----------------------------------------------------------------------------
(* Types of all the parts, and that sign-ins are granted no more often     *)
(* than somebody has come with a code or a link.                           *)

(* Requests that have a code or a link in hand. *)
InHand(x) == {s \in Requests : sPc[s] # "idle" /\ sThing[s] = x}

(* Every one of them, and every grant, is for a try of its own.            *)
Tried(granted, hands, tries) == IsFiniteSet(hands) /\ granted + Cardinality(hands) <= tries

TriesInv ==
    /\ sTries \in 0 .. MaxTries
    /\ \A x \in Proposals \cup Links : Tried(sGranted[x], InHand(x), sTries)

SignInRest ==
    /\ sKnown \subseteq Fields /\ sStoring \subseteq Fields /\ sStored \subseteq Fields
    /\ sRows \subseteq Fields /\ sSettled \subseteq Fields
    /\ sReload \in {"asked", "read", "done", "failed"}
    /\ sClient \in [Proposals -> Fields \cup {Nil}]
    /\ sExpired \subseteq Proposals \cup Links
    /\ sContested \subseteq Links

LEMMA TriedLess ==
    ASSUME NEW g \in Nat, NEW hands, NEW fewer, NEW tries \in Nat, Tried(g, hands, tries),
           fewer \subseteq hands
    PROVE  Tried(g, fewer, tries)
<1>1. IsFiniteSet(fewer) /\ Cardinality(fewer) <= Cardinality(hands)
  BY FS_Subset DEF Tried
<1>2. Cardinality(fewer) \in Nat /\ Cardinality(hands) \in Nat
  BY <1>1, FS_CardinalityType DEF Tried
<1> QED BY <1>1, <1>2 DEF Tried

LEMMA TriedMore ==
    ASSUME NEW g \in Nat, NEW hands, NEW s, NEW tries \in Nat, Tried(g, hands, tries)
    PROVE  Tried(g, hands \cup {s}, tries + 1)
<1>1. /\ IsFiniteSet(hands \cup {s})
      /\ Cardinality(hands \cup {s}) = IF s \in hands THEN Cardinality(hands) ELSE Cardinality(hands) + 1
  BY FS_AddElement DEF Tried
<1>2. Cardinality(hands) \in Nat
  BY FS_CardinalityType DEF Tried
<1> QED BY <1>1, <1>2 DEF Tried

LEMMA TriedGrant ==
    ASSUME NEW g \in Nat, NEW hands, NEW s \in hands, NEW tries \in Nat, Tried(g, hands, tries)
    PROVE  Tried(g + 1, hands \ {s}, tries)
<1>1. IsFiniteSet(hands \ {s}) /\ Cardinality(hands \ {s}) = Cardinality(hands) - 1
  BY FS_RemoveElement DEF Tried
<1>2. Cardinality(hands) \in Nat
  BY FS_CardinalityType DEF Tried
<1> QED BY <1>1, <1>2 DEF Tried

(* Nobody comes, and nothing is granted. *)
LEMMA TriesFewer ==
    ASSUME SignInTypes, TriesInv, UNCHANGED <<sGranted, sTries>>,
           \A x \in Proposals \cup Links : InHand(x)' \subseteq InHand(x)
    PROVE  TriesInv'
<1>1. ASSUME NEW x \in Proposals \cup Links
      PROVE  Tried(sGranted[x], InHand(x)', sTries)
  <2>1. /\ sGranted[x] \in Nat /\ sTries \in Nat /\ Tried(sGranted[x], InHand(x), sTries)
        /\ InHand(x)' \subseteq InHand(x)
    BY ServicesAssumption DEF SignInTypes, TriesInv
  <2> HIDE DEF InHand
  <2> QED BY <2>1, TriedLess
<1> QED BY <1>1 DEF TriesInv

LEMMA TriesSame == SignInTypes /\ TriesInv /\ UNCHANGED <<sPc, sThing, sGranted, sTries>> => TriesInv'
<1> SUFFICES ASSUME SignInTypes, TriesInv, UNCHANGED <<sPc, sThing, sGranted, sTries>> PROVE TriesInv'
  OBVIOUS
<1>1. \A x \in Proposals \cup Links : InHand(x)' \subseteq InHand(x)
  BY DEF InHand
<1> QED BY <1>1, TriesFewer

(* Somebody comes. *)
LEMMA TriesBegin ==
    ASSUME SignInTypes, TriesInv, NEW s \in Requests, NEW at \in S!PCs, NEW y,
           S!Begin(s, at, y), UNCHANGED sGranted
    PROVE  TriesInv'
<1>1. sTries' = sTries + 1 /\ sTries \in Nat /\ sTries' \in 0 .. MaxTries
  BY ServicesAssumption DEF S!Begin, TriesInv
<1>2. ASSUME NEW x \in Proposals \cup Links
      PROVE  Tried(sGranted[x], InHand(x)', sTries + 1)
  <2>1. sGranted[x] \in Nat /\ Tried(sGranted[x], InHand(x), sTries)
    BY DEF SignInTypes, TriesInv
  <2>2. InHand(x)' \subseteq InHand(x) \cup {s}
    BY DEF SignInTypes, S!Begin, InHand
  <2>3. Tried(sGranted[x], InHand(x) \cup {s}, sTries + 1)
    BY <1>1, <2>1, TriedMore
  <2>4. sTries + 1 \in Nat
    BY <1>1
  <2> HIDE DEF InHand
  <2> QED BY <2>1, <2>2, <2>3, <2>4, TriedLess
<1> QED BY <1>1, <1>2 DEF TriesInv

(* A request is over, with what it came for or without. *)
LEMMA TriesEnd ==
    ASSUME SignInTypes, TriesInv, NEW s \in Requests, sPc[s] # "idle", S!End(s),
           S!Grant(sThing[s]) \/ UNCHANGED sGranted, UNCHANGED sTries
    PROVE  TriesInv'
<1>1. ASSUME NEW x \in Proposals \cup Links
      PROVE  InHand(x)' \subseteq InHand(x) \ {s} \/ (InHand(x)' \subseteq InHand(x) /\ sThing[s] # x)
  BY DEF SignInTypes, S!End, InHand
<1>2. sTries \in Nat
  BY ServicesAssumption DEF TriesInv
<1>3. CASE UNCHANGED sGranted
  BY <1>1, <1>3, TriesFewer
<1>4. CASE S!Grant(sThing[s])
  <2>1. ASSUME NEW x \in Proposals \cup Links
        PROVE  Tried(sGranted'[x], InHand(x)', sTries)
    <3>1. sGranted[x] \in Nat /\ Tried(sGranted[x], InHand(x), sTries)
      BY DEF SignInTypes, TriesInv
    <3>2. CASE sThing[s] = x
      <4>1. s \in InHand(x) /\ InHand(x)' \subseteq InHand(x) \ {s}
        BY <1>1, <3>2 DEF InHand
      <4>2. sGranted'[x] = sGranted[x] + 1 /\ sGranted[x] + 1 \in Nat
        BY <1>4, <3>1, <3>2 DEF S!Grant, SignInTypes
      <4>3. Tried(sGranted[x] + 1, InHand(x) \ {s}, sTries)
        BY <1>2, <3>1, <4>1, TriedGrant
      <4> HIDE DEF InHand
      <4> QED BY <1>2, <4>1, <4>2, <4>3, TriedLess
    <3>3. CASE sThing[s] # x
      <4>1. sGranted'[x] = sGranted[x]
        BY <1>4, <3>3 DEF S!Grant, SignInTypes
      <4>2. InHand(x)' \subseteq InHand(x)
        BY <1>1
      <4> HIDE DEF InHand
      <4> QED BY <1>2, <3>1, <4>1, <4>2, TriedLess
    <3> QED BY <3>2, <3>3
  <2> QED BY <2>1 DEF TriesInv
<1> QED BY <1>3, <1>4

LEMMA TriesInit == S!Init => TriesInv /\ SignInRest
<1> SUFFICES ASSUME S!Init PROVE TriesInv /\ SignInRest
  OBVIOUS
<1>1. sTries = 0 /\ sTries \in 0 .. MaxTries
  BY ServicesAssumption DEF S!Init
<1>2. ASSUME NEW x \in Proposals \cup Links
      PROVE  Tried(sGranted[x], InHand(x), sTries)
  <2>1. InHand(x) = {} /\ sGranted[x] = 0
    BY DEF S!Init, InHand
  <2> QED BY <1>1, <2>1, FS_EmptySet DEF Tried
<1> QED BY <1>1, <1>2 DEF TriesInv, SignInRest, S!Init

LEMMA TriesNext == SignInInv /\ TriesInv /\ SignInRest /\ S!Next => TriesInv' /\ SignInRest'
<1> SUFFICES ASSUME SignInInv, SignInTypes, TriesInv, SignInRest, S!Next PROVE TriesInv' /\ SignInRest'
  BY DEF SignInInv
<1>1. CASE \/ \E c \in Fields : S!RegisterClient(c) \/ S!StoreClient(c)
           \/ \E a \in Proposals, c \in Fields : S!Authorize(a, c)
           \/ \E a \in Proposals : S!Callback(a) \/ S!MakeCode(a)
           \/ \E x \in Proposals \cup Links : S!GrowOld(x)
           \/ \E l \in Links : S!RequestLink(l)
  <2>1. UNCHANGED <<sPc, sThing, sGranted, sTries>>
    BY <1>1 DEF S!RegisterClient, S!StoreClient, S!Authorize, S!Callback, S!MakeCode, S!GrowOld,
                S!RequestLink, S!requests, S!reloading
  <2>2. SignInRest'
    BY <1>1 DEF SignInRest, S!RegisterClient, S!StoreClient, S!Authorize, S!Callback, S!MakeCode,
                S!GrowOld, S!RequestLink, S!clients, S!reloading
  <2> QED BY <2>1, <2>2, TriesSame
<1>2. ASSUME NEW s \in Requests, NEW a \in Proposals, NEW c \in Fields, S!ExchangeCode(s, a, c)
      PROVE  TriesInv' /\ SignInRest'
  <2>1. SignInRest' /\ UNCHANGED sGranted
    BY <1>2 DEF S!ExchangeCode, S!clients, S!reloading, SignInRest
  <2>2. CASE S!Begin(s, "mint", a)
    BY <2>1, <2>2, TriesBegin DEF S!PCs
  <2>3. CASE UNCHANGED <<sPc, sThing, sTries>>
    BY <2>1, <2>3, TriesSame
  <2> QED BY <1>2, <2>1, <2>2, <2>3 DEF S!ExchangeCode, S!requests
<1>3. ASSUME NEW s \in Requests, NEW l \in Links, S!VerifyLink(s, l)
      PROVE  TriesInv' /\ SignInRest'
  <2>1. SignInRest' /\ UNCHANGED sGranted /\ S!Begin(s, "mark", l)
    BY <1>3 DEF S!VerifyLink, S!clients, S!reloading, SignInRest
  <2> QED BY <2>1, TriesBegin DEF S!PCs
<1>4. ASSUME NEW s \in Requests, S!MintTokens(s) \/ S!Login(s) \/ S!Fail(s)
      PROVE  TriesInv' /\ SignInRest'
  <2>1. SignInRest'
    BY <1>4 DEF S!MintTokens, S!Login, S!Fail, S!clients, S!reloading, SignInRest
  <2>2. /\ sPc[s] # "idle" /\ S!End(s) /\ UNCHANGED sTries
        /\ S!Grant(sThing[s]) \/ UNCHANGED sGranted
    BY <1>4 DEF S!MintTokens, S!Login, S!Fail
  <2> QED BY <2>1, <2>2, TriesEnd
<1>5. ASSUME NEW s \in Requests, S!MarkUsed(s)
      PROVE  TriesInv' /\ SignInRest'
  <2>1. SignInRest'
    BY <1>5 DEF S!MarkUsed, S!clients, S!reloading, SignInRest
  <2>2. \A x \in Proposals \cup Links : InHand(x)' \subseteq InHand(x)
    BY <1>5 DEF S!MarkUsed, S!Goto, SignInTypes, InHand
  <2> QED BY <1>5, <2>1, <2>2, TriesFewer DEF S!MarkUsed
<1>6. CASE S!Restart
  <2>1. SignInRest'
    BY <1>6 DEF S!Restart, SignInRest
  <2>2. \A x \in Proposals \cup Links : InHand(x)' \subseteq InHand(x)
    BY <1>6 DEF S!Restart, InHand
  <2> QED BY <1>6, <2>1, <2>2, TriesFewer DEF S!Restart
<1>7. CASE S!ReadClients \/ S!LoadClients \/ S!ReloadFails
  <2>1. UNCHANGED <<sPc, sThing, sGranted, sTries>> /\ SignInRest'
    BY <1>7 DEF S!ReadClients, S!LoadClients, S!ReloadFails, S!others, S!requests, SignInRest
  <2> QED BY <2>1, TriesSame
<1> QED BY <1>1, <1>2, <1>3, <1>4, <1>5, <1>6, <1>7 DEF S!Next

LEMMA TriesStay == SignInInv /\ TriesInv /\ SignInRest /\ UNCHANGED svars => TriesInv' /\ SignInRest'
  BY TriesSame DEF svars, SignInInv, SignInRest

LEMMA SignInTyped == SignInInv /\ TriesInv /\ SignInRest => S!TypeOK
<1> SUFFICES ASSUME SignInInv, SignInTypes, TriesInv, SignInRest PROVE S!TypeOK
  BY DEF SignInInv
<1>1. ASSUME NEW x \in Proposals \cup Links
      PROVE  sGranted[x] \in 0 .. MaxTries
  <2>1. /\ sGranted[x] \in Nat /\ sTries \in 0 .. MaxTries /\ IsFiniteSet(InHand(x))
        /\ sGranted[x] + Cardinality(InHand(x)) <= sTries
    BY DEF SignInTypes, TriesInv, Tried
  <2>2. Cardinality(InHand(x)) \in Nat
    BY <2>1, FS_CardinalityType
  <2> HIDE DEF InHand
  <2> QED BY <2>1, <2>2, ServicesAssumption
<1>2. sGranted \in [Proposals \cup Links -> 0 .. MaxTries]
  BY <1>1 DEF SignInTypes
<1> QED BY <1>2 DEF SignInTypes, SignInRest, TriesInv, S!TypeOK

(* No more is edited, and no more calls are made, than the bounds allow. *)
CardEdits == cEdits \in 0 .. MaxEdits
OwnerCalls == aCalls \in 0 .. MaxCalls /\ aCauses \subseteq A!Causes

LEMMA EditsNext == CardEdits /\ C!Next => CardEdits'
<1> SUFFICES ASSUME CardEdits, C!Next PROVE C!Edit \/ UNCHANGED cEdits
  BY ServicesAssumption DEF CardEdits, C!Edit
<1>1. ASSUME NEW r \in Requests, NEW c \in Proposals, NEW w \in C!Place \cup {C!Keep},
             NEW s \in C!Status \cup {C!Keep},
             C!CreateCard(r, c, w, s) \/ C!PutCard(r, c, w, s) \/ C!ToolUpdate(r, c, w, s)
      PROVE  C!Edit
  BY <1>1 DEF C!CreateCard, C!PutCard, C!ToolUpdate, C!Start
<1>2. ASSUME NEW r \in Requests, C!Layout(r)
      PROVE  C!Edit
  BY <1>2 DEF C!Layout, C!Start
<1>3. ASSUME NEW r \in Requests, C!Resolve(r) \/ C!Write(r) \/ C!Mishap(r)
      PROVE  UNCHANGED cEdits
  BY <1>3 DEF C!Resolve, C!Write, C!Mishap, C!Fails
<1>4. CASE \/ \E c \in Proposals : C!DeleteCard(c)
           \/ \E k \in Fields, s \in C!Status : C!AddColumn(k, s) \/ C!RemapColumn(k, s)
           \/ \E k \in Fields : C!DeleteColumn(k)
  BY <1>4 DEF C!DeleteCard, C!AddColumn, C!RemapColumn, C!DeleteColumn
<1>5. CASE C!Restart
  BY <1>5 DEF C!Restart
<1> QED BY <1>1, <1>2, <1>3, <1>4, <1>5 DEF C!Next

LEMMA CallsNext == OwnerCalls /\ A!Next => OwnerCalls'
<1> SUFFICES ASSUME OwnerCalls, A!Next
             PROVE  (A!Count \/ UNCHANGED aCalls) /\ aCauses' \subseteq A!Causes
  BY ServicesAssumption DEF OwnerCalls, A!Count
<1> USE DEF OwnerCalls, A!Causes
<1>1. ASSUME NEW r \in Requests, NEW u \in Proposals, NEW ro \in A!Roles, NEW api \in BOOLEAN,
             A!Assign(r, u, ro, api) \/ \E v \in Proposals \cup {A!Nobody} : A!Unassign(r, u, ro, v, api)
      PROVE  A!Count /\ aCauses' \subseteq A!Causes
  BY <1>1 DEF A!Assign, A!Unassign, A!Start
<1>2. ASSUME NEW r \in Requests, A!Fails(r)
      PROVE  UNCHANGED aCalls /\ aCauses' \subseteq A!Causes
  BY <1>2 DEF A!Fails
<1>3. ASSUME NEW r \in Requests, A!Over(r) \/ A!Removed(r)
      PROVE  aCauses' \subseteq A!Causes
  BY <1>3 DEF A!Over, A!Removed
<1>4. ASSUME NEW r \in Requests, A!ClearPrior(r) \/ A!Own(r)
      PROVE  UNCHANGED aCalls /\ aCauses' \subseteq A!Causes
  BY <1>4 DEF A!ClearPrior, A!Own, A!Nested
<1>5. ASSUME NEW r \in Requests, A!Upsert(r) \/ A!Remove(r) \/ A!Disown(r) \/ A!Mishap(r)
      PROVE  UNCHANGED aCalls /\ aCauses' \subseteq A!Causes
  <2>1. CASE A!Fails(r)
    BY <2>1, <1>2
  <2>2. CASE A!Over(r) \/ A!Removed(r)
    BY <1>3, <1>5, <2>2 DEF A!Upsert, A!Remove, A!Disown, A!Mishap, A!Fails
  <2>3. CASE UNCHANGED aCauses
    BY <1>5, <2>3 DEF A!Upsert, A!Remove, A!Disown, A!Mishap, A!Fails
  <2> QED BY <1>5, <2>1, <2>2, <2>3 DEF A!Upsert, A!Remove, A!Disown, A!Mishap
<1>6. CASE \/ \E u \in Proposals, from, to \in A!Roles : A!ChangeRole(u, from, to)
           \/ \E list \in [Proposals -> SUBSET A!Roles] : A!Replace(list)
           \/ \E u \in Proposals : A!SetOwner(u)
  BY <1>6 DEF A!ChangeRole, A!Replace, A!SetOwner, A!Several, A!Nested
<1>7. CASE A!Restart
  BY <1>7 DEF A!Restart
<1> QED BY <1>1, <1>4, <1>5, <1>6, <1>7 DEF A!Next

LEMMA FilesTyped == FilesInv => X!TypeOK
<1> SUFFICES ASSUME FilesInv PROVE X!TypeOK
  OBVIOUS
<1>1. DOMAIN xFile = DOMAIN X!Empty
  <2>1. /\ xFile \in [columns : [Columns -> Titles \cup {Nil}], inits : [Initiatives -> Titles \cup {Nil}],
                      reqs : [Requirements -> X!ReqRow \cup {Nil}], deps : SUBSET (Initiatives \X Initiatives)]
        /\ X!Empty \in [columns : [Columns -> Titles \cup {Nil}], inits : [Initiatives -> Titles \cup {Nil}],
                        reqs : [Requirements -> X!ReqRow \cup {Nil}], deps : SUBSET (Initiatives \X Initiatives)]
    BY EmptyIs DEF FilesInv, FileTypes, X!Rows
  <2> QED BY <2>1
<1> QED BY <1>1 DEF FilesInv, FileTypes, X!TypeOK

LEMMA BoardTyped == BoardInv => B!TypeOK
<1> SUFFICES ASSUME BoardInv PROVE B!TypeOK
  OBVIOUS
<1>1. \A k \in DOMAIN bShown : k \in BoardColumns \cup {B!Unassigned} /\ B!ToSet(bShown[k]) \subseteq BoardCards
  BY DEF BoardInv, BoardTypes, BoardLayout, B!ToSet, B!Unassigned, B!ColumnsOf
<1>2. ASSUME NEW s \in Requests
      PROVE  /\ bCall[s].kind \in {"none", "save", "load"}
             /\ bCall[s].at \in {"none", "sent", "read", "done"}
             /\ bCall[s].rows \in [BoardCards -> B!Row]
  <2>1. bCall[s] \in BoardCallRec
    BY CallsTyped DEF BoardInv
  <2> QED BY <2>1, CallShape
<1> QED BY <1>1, <1>2 DEF BoardInv, BoardTypes, B!TypeOK

LEMMA OwnersTyped == OwnerInv /\ OwnerCalls => A!TypeOK
  BY DEF OwnerInv, OwnerTypes, OwnerCall, OwnerCalls, A!TypeOK, A!Nobody

LEMMA CardsTyped == CardInv /\ CardEdits => C!TypeOK
  BY DEF CardInv, CardTypes, CardEdits, C!TypeOK

(* Every part keeps its types (TypesOK), whatever happens in it: no        *)
(* request grants more than the tries there were, a file that was imported *)
(* is one that the database could be, what a board shows are its cards,    *)
(* and each call is at a place of its own handler.                         *)
THEOREM ServicesTyped == MCSpec => []TypesOK
<1> DEFINE Inv == /\ IInv /\ FilesInv /\ SignInInv /\ TriesInv /\ SignInRest /\ PanelInv
                  /\ CardInv /\ CardEdits /\ OwnerInv /\ OwnerCalls /\ BoardInv
<1>1. MCInit => Inv
  BY InitInv, FilesInit, SignInInit, TriesInit, PanelInit, CardInit, OwnerInit, BoardInit, ServicesAssumption
  DEF MCInit, CardEdits, C!Init, OwnerCalls, A!Init, A!Several, A!Causes
<1>2. IInv /\ [MCNext]_allvars => IInv'
  <2>1. ASSUME IInv, [MCNext]_allvars PROVE [Next]_vars
    BY <2>1 DEF MCNext, Proposals_, Files_, SignIn_, Panel_, Cards_, Owners_, Board_, allvars
  <2> QED BY <2>1, StepTypes, StepJobs, StepReview, StepLock DEF IInv
<1>3. FilesInv /\ [MCNext]_allvars => FilesInv'
  BY FilesNext, FilesSame DEF MCNext, Proposals_, Files_, SignIn_, Panel_, Cards_, Owners_, Board_, allvars
<1>4. SignInInv /\ [MCNext]_allvars => SignInInv'
  BY SignInNext, SignInSame DEF MCNext, Proposals_, Files_, SignIn_, Panel_, Cards_, Owners_, Board_, allvars
<1>5. SignInInv /\ TriesInv /\ SignInRest /\ [MCNext]_allvars => TriesInv' /\ SignInRest'
  BY TriesNext, TriesStay DEF MCNext, Proposals_, Files_, SignIn_, Panel_, Cards_, Owners_, Board_, allvars
<1>6. PanelInv /\ [MCNext]_allvars => PanelInv'
  BY PanelNext, PanelSame DEF MCNext, Proposals_, Files_, SignIn_, Panel_, Cards_, Owners_, Board_, allvars
<1>7. CardInv /\ [MCNext]_allvars => CardInv'
  BY CardNext, CardSame DEF MCNext, Proposals_, Files_, SignIn_, Panel_, Cards_, Owners_, Board_, allvars
<1>8. CardEdits /\ [MCNext]_allvars => CardEdits'
  BY EditsNext DEF MCNext, Proposals_, Files_, SignIn_, Panel_, Cards_, Owners_, Board_, allvars, cvars, CardEdits
<1>9. OwnerInv /\ [MCNext]_allvars => OwnerInv'
  BY OwnerNext, OwnerSame DEF MCNext, Proposals_, Files_, SignIn_, Panel_, Cards_, Owners_, Board_, allvars
<1>10. OwnerCalls /\ [MCNext]_allvars => OwnerCalls'
  BY CallsNext DEF MCNext, Proposals_, Files_, SignIn_, Panel_, Cards_, Owners_, Board_, allvars, avars, OwnerCalls
<1>11. BoardInv /\ [MCNext]_allvars => BoardInv'
  BY BoardNext, BoardSame DEF MCNext, Proposals_, Files_, SignIn_, Panel_, Cards_, Owners_, Board_, allvars
<1>12. Inv => TypesOK
  BY FilesTyped, SignInTyped, CardsTyped, OwnersTyped, BoardTyped DEF IInv, PanelInv, TypesOK
<1> QED BY <1>1, <1>2, <1>3, <1>4, <1>5, <1>6, <1>7, <1>8, <1>9, <1>10, <1>11, <1>12, PTL DEF MCSpec
=============================================================================
