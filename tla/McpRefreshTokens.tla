-------------------------- MODULE McpRefreshTokens --------------------------
(***************************************************************************)
(* Refresh tokens of the MCP OAuth provider (server/src/mcp/               *)
(* oauth-provider.ts): rotation with reuse detection over the table        *)
(* McpRefreshToken.                                                        *)
(*                                                                         *)
(* A request is a process; each await of its handler is one action, so the *)
(* other requests run between any two of them.  "row" holds committed data *)
(* only.  rotateRefreshToken runs in a transaction at PostgreSQL's READ    *)
(* COMMITTED: its UPDATE locks the row it claims until the commit or the   *)
(* rollback, another writer of that row waits, readers see the old row.    *)
(* A deleteMany finds its rows when the statement starts and, having       *)
(* waited for their locks, removes those rows and no others.               *)
(***************************************************************************)
EXTENDS Integers

CONSTANTS
    Tokens,      \* token values; each is minted at most once (randomUUID)
    Families,    \* familyId values; each is minted at most once
    Users,
    Clients,     \* OAuth client ids
    Requests,    \* concurrent calls of the token and revocation endpoints
    NoToken,     \* no token looked up
    NoClient,    \* no call under way
    NoRow,       \* the token is not in the table
    NoRequest,   \* the row is not locked
    Grace,       \* REFRESH_IDEMPOTENT_GRACE_MS, in ticks
    RefreshTTL,  \* REFRESH_TTL, in ticks
    MaxTime      \* bound on the clock, for TLC

Never == -1      \* usedAt = null

(* A row of McpRefreshToken.  id and token are both unique, so the token   *)
(* stands for either.  Scopes are left out: no decision depends on them.   *)
Row == [family: Families, user: Users, client: Clients,
        usedAt: Nat \cup {Never}, createdAt: Nat, expiresAt: Nat]

ASSUME TimesAssumption == Grace \in Nat /\ RefreshTTL \in Nat /\ MaxTime \in Nat
ASSUME NullsAssumption ==
    /\ NoToken \notin Tokens
    /\ NoRow \notin Row
    /\ NoRequest \notin Requests
    /\ NoClient \notin Clients

VARIABLES
    now,      \* the clock
    row,      \* the table: token -> committed row
    minted,   \* tokens ever inserted in the table
    born,     \* families ever inserted in the table
    lock,     \* token -> the request whose transaction has claimed its row
    active,   \* users with isActive
    pc,       \* the await each request stands at
    loc       \* the local variables of each request's handler

vars == <<now, row, minted, born, lock, active, pc, loc>>
table == <<row, minted, born>>
world == <<now, active>>

PCs == {"idle", "deleteExpired", "grace", "issue", "claim", "claimed",
        "reread", "deleteMany", "deleting"}

Locals == [token: Tokens \cup {NoToken},      \* the token presented
           client: Clients \cup {NoClient},   \* the client presenting it
           entry: Row \cup {NoRow},           \* its row as last read
           expiresAt: Nat,                    \* of the successor to create
           successor: Tokens \cup {NoToken},  \* found by the grace lookup
           found: SUBSET Tokens,              \* rows a deleteMany removes
           caught: BOOLEAN]                   \* in the catch of rotate

TypeOK ==
    /\ now \in Nat
    /\ row \in [Tokens -> Row \cup {NoRow}]
    /\ minted \in SUBSET Tokens
    /\ born \in SUBSET Families
    /\ lock \in [Tokens -> Requests \cup {NoRequest}]
    /\ active \in SUBSET Users
    /\ pc \in [Requests -> PCs]
    /\ loc \in [Requests -> Locals]

Rows == {t \in Tokens : row[t] # NoRow}
Unused == {t \in Rows : row[t].usedAt = Never}
InFamily(f) == {t \in Rows : row[t].family = f}

Idle == [token |-> NoToken, client |-> NoClient, entry |-> NoRow, expiresAt |-> 0,
         successor |-> NoToken, found |-> {}, caught |-> FALSE]

Init ==
    /\ now = 0
    /\ row = [t \in Tokens |-> NoRow]
    /\ minted = {}
    /\ born = {}
    /\ lock = [t \in Tokens |-> NoRequest]
    /\ active = Users
    /\ pc = [r \in Requests |-> "idle"]
    /\ loc = [r \in Requests |-> Idle]

(***************************************************************************)
(* The environment.                                                        *)
(***************************************************************************)
Tick ==
    /\ now < MaxTime
    /\ now' = now + 1
    /\ UNCHANGED <<table, lock, active, pc, loc>>

(* An administrator switches a user off or on again.                       *)
SetActive(u) ==
    /\ active' = IF u \in active THEN active \ {u} ELSE active \cup {u}
    /\ UNCHANGED <<now, table, lock, pc, loc>>

(* Mutant: the lifetime is subtracted.                                     *)
MintAlreadyExpired(t, f, u, c) ==
    /\ t \notin minted /\ f \notin born
    /\ row' = [row EXCEPT ![t] = [family |-> f, user |-> u, client |-> c,
                                  usedAt |-> Never, createdAt |-> now,
                                  expiresAt |-> now - RefreshTTL]]
    /\ minted' = minted \cup {t}
    /\ born' = born \cup {f}
    /\ UNCHANGED <<world, lock, pc, loc>>

(* mintRefreshToken, the end of an authorization-code exchange: the first  *)
(* token of a new family.                                                  *)
MintRefreshToken(t, f, u, c) ==
    /\ t \notin minted /\ f \notin born
    /\ row' = [row EXCEPT ![t] = [family |-> f, user |-> u, client |-> c,
                                  usedAt |-> Never, createdAt |-> now,
                                  expiresAt |-> now + RefreshTTL]]
    /\ minted' = minted \cup {t}
    /\ born' = born \cup {f}
    /\ UNCHANGED <<world, lock, pc, loc>>

(***************************************************************************)
(* How a handler goes on to its next await, and how it ends.               *)
(***************************************************************************)
Goto(r, p, l) ==
    /\ pc' = [pc EXCEPT ![r] = p]
    /\ loc' = [loc EXCEPT ![r] = l]

(* The handler ends: it returns tokens or throws.                          *)
Answer(r) == Goto(r, "idle", Idle)

(***************************************************************************)
(* exchangeRefreshToken: the first read of the row and its four refusals.  *)
(***************************************************************************)
Start(r, c, t, p) ==
    Goto(r, p, [token |-> t, client |-> c, entry |-> row[t],
                expiresAt |-> now + RefreshTTL, successor |-> NoToken,
                found |-> {}, caught |-> FALSE])

(* A token that is not in the table (not_found) or was issued to another   *)
(* client (client_mismatch) is refused and nothing changes.                *)
ExchangeRefreshToken(r, c, t) ==
    /\ pc[r] = "idle"
    /\ t \in Rows
    /\ row[t].client = c
    /\ \/ /\ row[t].expiresAt < now
          /\ Start(r, c, t, "deleteExpired")
       \/ /\ row[t].expiresAt >= now
          /\ row[t].usedAt # Never
          /\ Start(r, c, t, "grace")
       \/ /\ row[t].expiresAt >= now
          /\ row[t].usedAt = Never
          /\ Start(r, c, t, "claim")
    /\ UNCHANGED <<world, table, lock>>

(* An expired row is deleted; the failure of that delete is swallowed.     *)
DeleteExpired(r) ==
    /\ pc[r] = "deleteExpired"
    /\ lock[loc[r].token] = NoRequest
    /\ row' = [row EXCEPT ![loc[r].token] = NoRow]
    /\ Answer(r)
    /\ UNCHANGED <<world, minted, born, lock>>

(***************************************************************************)
(* tryIdempotentRefreshAfterUse: within the grace the newest unused row of *)
(* the family, created after the use, is handed out again.                 *)
(***************************************************************************)
SuccessorsOfAnyFamily(e, c) ==
    {s \in Rows :       \* mutant: where lacks familyId
        /\ row[s].client = c
        /\ row[s].usedAt = Never
        /\ row[s].expiresAt > now
        /\ row[s].createdAt > e.usedAt}

Successors(e, c) ==
    {s \in InFamily(e.family) :
        /\ row[s].client = c
        /\ row[s].usedAt = Never
        /\ row[s].expiresAt > now
        /\ row[s].createdAt > e.usedAt}

(* null: exchangeRefreshToken revokes the family, the catch of rotate      *)
(* throws its error again.                                                 *)
NoSuccessor(r) ==
    \/ loc[r].caught /\ Answer(r)
    \/ ~loc[r].caught /\ Goto(r, "deleteMany", loc[r])

GraceLookup(r) ==
    LET e == loc[r].entry
        candidates == Successors(e, loc[r].client)
    IN
    /\ pc[r] = "grace"
    /\ \/ now - e.usedAt > Grace /\ NoSuccessor(r)
       \/ /\ now - e.usedAt <= Grace
          /\ candidates = {}
          /\ NoSuccessor(r)
       \/ /\ now - e.usedAt <= Grace
          /\ \E s \in candidates :
                /\ \A o \in candidates : row[o].createdAt <= row[s].createdAt
                /\ Goto(r, "issue", [loc[r] EXCEPT !.successor = s])
    /\ UNCHANGED <<world, table, lock>>

(* issueTokensForRefreshRow reads the user and returns the successor's     *)
(* token, or throws user_inactive: neither changes the table.              *)
IssueTokensForRefreshRow(r) ==
    /\ pc[r] = "issue"
    /\ Answer(r)
    /\ UNCHANGED <<world, table, lock>>

(***************************************************************************)
(* rotateRefreshToken                                                      *)
(***************************************************************************)
(* Mutant: the update's where lacks usedAt: null.                          *)
RotateClaimUnconditional(r) ==
    LET t == loc[r].token IN
    /\ pc[r] = "claim"
    /\ lock[t] = NoRequest
    /\ t \in Rows
    /\ lock' = [lock EXCEPT ![t] = r]
    /\ Goto(r, "claimed", [loc[r] EXCEPT !.entry.usedAt = now])
    /\ UNCHANGED <<world, table>>

(* Mutant: no transaction around claim and create.                         *)
RotateClaimCommitted(r) ==
    LET t == loc[r].token IN
    /\ pc[r] = "claim"
    /\ \/ /\ t \in Unused
          /\ row' = [row EXCEPT ![t].usedAt = now]
          /\ Goto(r, "claimed", [loc[r] EXCEPT !.entry.usedAt = now])
       \/ /\ t \notin Unused
          /\ Goto(r, "reread", loc[r])
          /\ UNCHANGED row
    /\ UNCHANGED <<world, minted, born, lock>>

(* The conditional update of the claim: it waits for the row's lock, then  *)
(* tests usedAt on the row the lock's holder left.  Count 0 throws         *)
(* concurrent_refresh, which the catch takes.                              *)
RotateClaim(r) ==
    LET t == loc[r].token IN
    /\ pc[r] = "claim"
    /\ lock[t] = NoRequest
    /\ \/ /\ t \in Unused
          /\ lock' = [lock EXCEPT ![t] = r]
          /\ Goto(r, "claimed", [loc[r] EXCEPT !.entry.usedAt = now])
       \/ /\ t \notin Unused
          /\ Goto(r, "reread", loc[r])
          /\ UNCHANGED lock
    /\ UNCHANGED <<world, table>>

(* The user is still active: the successor is created and the transaction  *)
(* commits both rows.                                                      *)
RotateCommit(r, s) ==
    LET t == loc[r].token
        e == loc[r].entry
    IN
    /\ pc[r] = "claimed"
    /\ e.user \in active
    /\ s \notin minted
    /\ row' = [row EXCEPT
                 ![t] = e,
                 ![s] = [family |-> e.family, user |-> e.user,
                         client |-> loc[r].client, usedAt |-> Never,
                         createdAt |-> now, expiresAt |-> loc[r].expiresAt]]
    /\ minted' = minted \cup {s}
    /\ lock' = [lock EXCEPT ![t] = NoRequest]
    /\ Answer(r)
    /\ UNCHANGED <<world, born>>

(* The user is inactive: user_inactive rolls back and reaches the catch.   *)
RotateInactive(r) ==
    /\ pc[r] = "claimed"
    /\ loc[r].entry.user \notin active
    /\ lock' = [lock EXCEPT ![loc[r].token] = NoRequest]
    /\ Goto(r, "reread", loc[r])
    /\ UNCHANGED <<world, table>>

(* The database fails or the process dies: a rollback, and an error the    *)
(* catch does not handle.                                                  *)
RotateAbort(r) ==
    /\ pc[r] = "claimed"
    /\ lock' = [lock EXCEPT ![loc[r].token] = NoRequest]
    /\ Answer(r)
    /\ UNCHANGED <<world, table>>

(* The catch of rotateRefreshToken reads the row again.                    *)
RotateReread(r) ==
    LET t == loc[r].token IN
    /\ pc[r] = "reread"
    /\ \/ /\ t \in Rows \ Unused
          /\ Goto(r, "grace", [loc[r] EXCEPT !.entry = row[t], !.caught = TRUE])
       \/ /\ t \notin Rows \ Unused
          /\ Answer(r)
    /\ UNCHANGED <<world, table, lock>>

(***************************************************************************)
(* revokeToken, and the revocation of a family whose token was reused.     *)
(***************************************************************************)
RevokeToken(r, c, t) ==
    /\ pc[r] = "idle"
    /\ t \in Rows
    /\ Start(r, c, t, "deleteMany")
    /\ UNCHANGED <<world, table, lock>>

DeleteFamilyFind(r) ==
    /\ pc[r] = "deleteMany"
    /\ Goto(r, "deleting",
            [loc[r] EXCEPT !.found = InFamily(loc[r].entry.family)])
    /\ UNCHANGED <<world, table, lock>>

DeleteFamilyRemove(r) ==
    /\ pc[r] = "deleting"
    /\ \A t \in loc[r].found : lock[t] = NoRequest
    /\ row' = [t \in Tokens |-> IF t \in loc[r].found THEN NoRow ELSE row[t]]
    /\ Answer(r)
    /\ UNCHANGED <<world, minted, born, lock>>

-----------------------------------------------------------------------------
Step(r) ==
    \/ DeleteExpired(r)
    \/ GraceLookup(r)
    \/ IssueTokensForRefreshRow(r)
    \/ RotateClaim(r)
    \/ \E s \in Tokens : RotateCommit(r, s)
    \/ RotateInactive(r)
    \/ RotateAbort(r)
    \/ RotateReread(r)
    \/ DeleteFamilyFind(r)
    \/ DeleteFamilyRemove(r)

Next ==
    \/ Tick
    \/ \E u \in Users : SetActive(u)
    \/ \E t \in Tokens, f \in Families, u \in Users, c \in Clients :
          MintRefreshToken(t, f, u, c)
    \/ \E r \in Requests, c \in Clients, t \in Tokens :
          ExchangeRefreshToken(r, c, t) \/ RevokeToken(r, c, t)
    \/ \E r \in Requests : Step(r)

Spec == Init /\ [][Next]_vars

(* The runtime resumes every await whose answer has come.  Strong fairness *)
(* because PostgreSQL queues the waiters of a row lock and grants it in    *)
(* order; nothing obliges clients, clock or users.                         *)
FairSpec == Spec /\ \A r \in Requests : SF_vars(Step(r))

-----------------------------------------------------------------------------
(* Rotation never forks a family: two calls that both read a token as      *)
(* unused cannot both create its successor, so at most one token of a      *)
(* family can still be rotated.                                            *)
OneUnusedPerFamily ==
    \A s, t \in Unused : row[s].family = row[t].family => s = t

(* However often it is rotated, a family stays with the user and the       *)
(* client it was created for.                                              *)
FamilyKeepsOwner ==
    \A s, t \in Rows :
        row[s].family = row[t].family =>
            row[s].user = row[t].user /\ row[s].client = row[t].client

(* Whatever runs between the lookup and the answer, the token handed out   *)
(* within the grace is the family's own: same family, same user, and       *)
(* issued to the client that asks.                                         *)
GrantStaysWithHolder ==
    \A r \in Requests :
        LET s == loc[r].successor IN
        pc[r] = "issue" /\ s \in Rows =>
            /\ row[s].family = loc[r].entry.family
            /\ row[s].user = loc[r].entry.user
            /\ row[s].client = loc[r].client

(* Rotation implements TokenFamilies: a family is continued through one    *)
(* token at a time, and a family whose last usable token is gone, by       *)
(* revocation, reuse or expiry, never gets another: the user signs in.     *)
Holder(f) ==
    IF InFamily(f) \cap Unused = {} THEN NoToken
    ELSE CHOOSE t \in Unused : row[t].family = f

Abstract == INSTANCE TokenFamilies
    WITH holder <- [f \in Families |-> Holder(f)], issued <- minted, begun <- born

ImplementsTokenFamilies == Abstract!ASpec

(* Every call of the endpoints is answered, those that wait for the row    *)
(* another transaction has claimed included.                               *)
EveryRequestEnds ==
    \A r \in Requests : pc[r] # "idle" ~> pc[r] = "idle"

-----------------------------------------------------------------------------
(* What the repository says, and the code does not quite do.               *)

(* "Refresh token has been revoked; sign in again": once the family of a   *)
(* reused or revoked token is deleted, none of its tokens is left.         *)
RevocationEmptiesFamily ==
    [][\A r \in Requests :
          pc[r] = "deleting" /\ pc'[r] = "idle" =>
              \A t \in Rows' : row'[t].family # loc[r].entry.family]_vars

=============================================================================
