----------------------- MODULE McpRefreshTokens_proofs -----------------------
(***************************************************************************)
(* For any number of tokens, families, users, clients and concurrent       *)
(* requests: rotation never forks a family, a family keeps its owner, a    *)
(* token handed out within the grace belongs to its holder, and no call    *)
(* waits for a row lock of a call that waits itself.                       *)
(***************************************************************************)
EXTENDS McpRefreshTokens, TLAPS

(* The table remembers what was minted: a token or a family in the table   *)
(* is one that can never be minted again.                                  *)
MintedInv ==
    \A t \in Rows : t \in minted /\ row[t].family \in born

(* A call under way has read a row of the table.                           *)
EntryOK(r) ==
    pc[r] # "idle" =>
        /\ loc[r].token \in Tokens
        /\ loc[r].entry \in Row
        /\ loc[r].client \in Clients

(* A call that goes to claim has read its row as unused, and the row has   *)
(* not changed since, unless another call used or deleted it.              *)
ClaimOK(r) ==
    pc[r] = "claim" =>
        /\ loc[r].entry.usedAt = Never
        /\ loc[r].entry.client = loc[r].client
        /\ loc[r].token \in Unused => row[loc[r].token] = loc[r].entry

(* A call between its claim and its commit holds the lock of its row,      *)
(* which is still there, unused, and as the call has read it.              *)
LockOK(r) ==
    pc[r] = "claimed" =>
        /\ loc[r].token \in Unused
        /\ lock[loc[r].token] = r
        /\ loc[r].entry.usedAt # Never
        /\ loc[r].entry.client = loc[r].client
        /\ row[loc[r].token].family = loc[r].entry.family
        /\ row[loc[r].token].user = loc[r].entry.user
        /\ row[loc[r].token].client = loc[r].entry.client

(* A call that has passed the checks knows the family of its token and the *)
(* family's owner, even when the row it has read is gone.                  *)
FamilyOK(r) ==
    pc[r] \in {"grace", "issue", "claim", "claimed", "reread"} =>
        /\ loc[r].entry.client = loc[r].client
        /\ loc[r].entry.family \in born
        /\ loc[r].token \in minted
        /\ loc[r].token \in Rows =>
              row[loc[r].token].family = loc[r].entry.family
        /\ \A s \in Rows : row[s].family = loc[r].entry.family =>
              /\ row[s].user = loc[r].entry.user
              /\ row[s].client = loc[r].entry.client

(* What a call has looked up, the successor or the rows to delete, are     *)
(* tokens of its family.                                                   *)
LookupOK(r) ==
    /\ pc[r] = "issue" =>
        /\ loc[r].successor \in minted
        /\ loc[r].successor \in Rows =>
              row[loc[r].successor].family = loc[r].entry.family
    /\ pc[r] = "deleting" =>
        \A t \in loc[r].found :
            /\ t \in minted
            /\ t \in Rows => row[t].family = loc[r].entry.family

RequestOK(r) ==
    EntryOK(r) /\ ClaimOK(r) /\ LockOK(r) /\ FamilyOK(r) /\ LookupOK(r)

(* The inductive invariant.                                                *)
IInv ==
    /\ TypeOK
    /\ MintedInv
    /\ OneUnusedPerFamily
    /\ FamilyKeepsOwner
    /\ \A r \in Requests : RequestOK(r)

-----------------------------------------------------------------------------
(* Where a call may go from here, whatever it keeps: pc and loc stay typed. *)
LEMMA GotoType ==
    ASSUME TypeOK, NEW r \in Requests, NEW p \in PCs, NEW l \in Locals,
           Goto(r, p, l)
    PROVE  pc' \in [Requests -> PCs] /\ loc' \in [Requests -> Locals]
BY DEF TypeOK, Goto

LEMMA StartType ==
    ASSUME TypeOK, NEW r \in Requests, NEW c \in Clients, NEW t \in Tokens,
           NEW p \in PCs, Start(r, c, t, p)
    PROVE  pc' \in [Requests -> PCs] /\ loc' \in [Requests -> Locals]
<1>1. [token |-> t, client |-> c, entry |-> row[t], expiresAt |-> now + RefreshTTL,
       successor |-> NoToken, found |-> {}, caught |-> FALSE] \in Locals
    BY TimesAssumption DEF TypeOK, Locals
<1>2. QED
    BY <1>1, GotoType DEF Start

LEMMA IdleType == Idle \in Locals
BY DEF Idle, Locals

LEMMA InitType == Init => TypeOK
BY IdleType DEF Init, TypeOK, PCs

LEMMA NextType ==
    TypeOK /\ (\A r \in Requests : EntryOK(r)) /\ [Next]_vars => TypeOK'
<1> SUFFICES ASSUME TypeOK, \A r \in Requests : EntryOK(r), [Next]_vars
             PROVE  TypeOK'
    OBVIOUS
<1> USE TimesAssumption, NullsAssumption
<1>1. CASE Tick
    BY <1>1 DEF TypeOK, Tick, table
<1>2. ASSUME NEW u \in Users, SetActive(u) PROVE TypeOK'
    BY <1>2 DEF TypeOK, SetActive, table
<1>3. ASSUME NEW t \in Tokens, NEW f \in Families, NEW u \in Users,
             NEW c \in Clients, MintRefreshToken(t, f, u, c)
      PROVE  TypeOK'
    <2>1. [family |-> f, user |-> u, client |-> c, usedAt |-> Never,
           createdAt |-> now, expiresAt |-> now + RefreshTTL] \in Row
        BY DEF TypeOK, Row, Never
    <2>2. QED
        BY <1>3, <2>1 DEF TypeOK, MintRefreshToken, world
<1>4. ASSUME NEW r \in Requests, NEW c \in Clients, NEW t \in Tokens,
             ExchangeRefreshToken(r, c, t)
      PROVE  TypeOK'
    BY <1>4, StartType DEF TypeOK, ExchangeRefreshToken, PCs, world, table
<1>5. ASSUME NEW r \in Requests, NEW c \in Clients, NEW t \in Tokens,
             RevokeToken(r, c, t)
      PROVE  TypeOK'
    BY <1>5, StartType DEF TypeOK, RevokeToken, PCs, world, table
<1>6. ASSUME NEW r \in Requests, Step(r) PROVE TypeOK'
    <2> USE IdleType DEF PCs
    <2>0. loc[r] \in Locals
        BY DEF TypeOK
    <2>1. CASE DeleteExpired(r)
        BY <2>1, GotoType DEF TypeOK, DeleteExpired, Answer, world
    <2>2. CASE GraceLookup(r)
        <3>1. ASSUME NEW s \in Tokens
              PROVE  [loc[r] EXCEPT !.successor = s] \in Locals
            BY <2>0 DEF Locals
        <3>2. Successors(loc[r].entry, loc[r].client) \subseteq Tokens
            BY DEF Successors, InFamily, Rows
        <3>3. QED
            BY <2>0, <2>2, <3>1, <3>2, GotoType
            DEF TypeOK, GraceLookup, NoSuccessor, Answer, world, table
    <2>3. CASE IssueTokensForRefreshRow(r)
        BY <2>3, GotoType DEF TypeOK, IssueTokensForRefreshRow, Answer, world, table
    <2>4. CASE RotateClaim(r)
        <3>1. loc[r].entry \in Row
            BY <2>4 DEF EntryOK, RotateClaim
        <3>2. [loc[r].entry EXCEPT !.usedAt = now] \in Row
            BY <3>1 DEF TypeOK, Row
        <3>3. [loc[r] EXCEPT !.entry.usedAt = now] \in Locals
            BY <2>0, <3>2 DEF Locals
        <3>4. QED
            BY <2>0, <2>4, <3>3, GotoType
            DEF TypeOK, RotateClaim, world, table
    <2>5. ASSUME NEW s \in Tokens, RotateCommit(r, s) PROVE TypeOK'
        <3>1. loc[r].entry \in Row
            BY <2>5 DEF EntryOK, RotateCommit
        <3>2. [family |-> loc[r].entry.family, user |-> loc[r].entry.user,
               client |-> loc[r].client, usedAt |-> Never,
               createdAt |-> now, expiresAt |-> loc[r].expiresAt] \in Row
            BY <2>0, <2>5, <3>1 DEF EntryOK, RotateCommit, TypeOK, Locals, Row, Never
        <3>3. QED
            BY <2>0, <2>5, <3>1, <3>2, GotoType
            DEF TypeOK, RotateCommit, Answer, world
    <2>6. CASE RotateInactive(r)
        BY <2>0, <2>6, GotoType DEF TypeOK, RotateInactive, world, table
    <2>7. CASE RotateAbort(r)
        BY <2>7, GotoType DEF TypeOK, RotateAbort, Answer, world, table
    <2>8. CASE RotateReread(r)
        <3>1. [loc[r] EXCEPT !.entry = row[loc[r].token], !.caught = TRUE] \in Locals
            BY <2>0, <2>8 DEF EntryOK, RotateReread, TypeOK, Locals
        <3>2. QED
            BY <2>0, <2>8, <3>1, GotoType
            DEF TypeOK, RotateReread, Answer, world, table
    <2>9. CASE DeleteFamilyFind(r)
        <3>1. [loc[r] EXCEPT !.found = InFamily(loc[r].entry.family)] \in Locals
            BY <2>0 DEF Locals, InFamily, Rows
        <3>2. QED
            BY <2>9, <3>1, GotoType DEF TypeOK, DeleteFamilyFind, world, table
    <2>10. CASE DeleteFamilyRemove(r)
        BY <2>10, GotoType DEF TypeOK, DeleteFamilyRemove, Answer, world
    <2>11. QED
        BY <1>6, <2>1, <2>2, <2>3, <2>4, <2>5, <2>6, <2>7, <2>8, <2>9, <2>10 DEF Step
<1>7. CASE UNCHANGED vars
    BY <1>7 DEF TypeOK, vars
<1>8. QED
    BY <1>1, <1>2, <1>3, <1>4, <1>5, <1>6, <1>7 DEF Next

-----------------------------------------------------------------------------
(* A step of one call that leaves the table alone, and the locks of the    *)
(* others, keeps the invariant if it keeps that call's own part.           *)
LEMMA OwnStep ==
    ASSUME IInv, TypeOK', NEW r \in Requests, UNCHANGED table,
           NEW p \in PCs, NEW l \in Locals, Goto(r, p, l),
           \A q \in Requests \ {r}, t \in Tokens : lock[t] = q => lock'[t] = q,
           RequestOK(r)'
    PROVE  IInv'
<1>1. MintedInv' /\ OneUnusedPerFamily' /\ FamilyKeepsOwner'
    BY DEF IInv, table, MintedInv, OneUnusedPerFamily, FamilyKeepsOwner, Rows, Unused
<1>2. ASSUME NEW q \in Requests, q # r PROVE RequestOK(q)'
    <2>1. pc'[q] = pc[q] /\ loc'[q] = loc[q]
        BY <1>2 DEF IInv, TypeOK, Goto
    <2>2. row' = row /\ minted' = minted /\ born' = born /\ RequestOK(q)
        BY DEF IInv, table
    <2>3. (pc[q] = "claimed" => lock'[loc[q].token] = q)
        BY <1>2, <2>2 DEF RequestOK, LockOK, EntryOK
    <2>4. QED
        BY <2>1, <2>2, <2>3
        DEF RequestOK, EntryOK, ClaimOK, LockOK, FamilyOK, LookupOK, Rows, Unused
<1>3. QED
    BY <1>1, <1>2 DEF IInv

(* Rows that are not locked are deleted.                                   *)
LEMMA RowsDeleted ==
    ASSUME IInv, TypeOK', NEW r \in Requests, NEW D \in SUBSET Tokens,
           \A t \in D : lock[t] = NoRequest,
           row' = [t \in Tokens |-> IF t \in D THEN NoRow ELSE row[t]],
           UNCHANGED <<minted, born, lock>>, Goto(r, "idle", Idle)
    PROVE  IInv'
<1>1. Rows' \subseteq Rows /\ Unused' \subseteq Unused /\ \A t \in Rows' : row'[t] = row[t]
    BY DEF Rows, Unused
<1>2. MintedInv' /\ OneUnusedPerFamily' /\ FamilyKeepsOwner'
    BY <1>1 DEF IInv, MintedInv, OneUnusedPerFamily, FamilyKeepsOwner, Unused
<1>3. RequestOK(r)'
    BY DEF IInv, TypeOK, Goto, RequestOK, EntryOK, ClaimOK, LockOK, FamilyOK, LookupOK
<1>4. ASSUME NEW q \in Requests, q # r PROVE RequestOK(q)'
    <2>1. pc'[q] = pc[q] /\ loc'[q] = loc[q] /\ RequestOK(q)
        BY <1>4 DEF IInv, TypeOK, Goto
    <2>2. EntryOK(q)' /\ ClaimOK(q)'
        BY <1>1, <2>1 DEF RequestOK, EntryOK, ClaimOK, Unused
    <2>3. LockOK(q)'
        <3>1. CASE pc[q] = "claimed"
            <4>1. loc[q].token \in Unused /\ loc[q].token \notin D
                BY <2>1, <3>1, NullsAssumption DEF RequestOK, LockOK
            <4>2. loc[q].token \in Unused' /\ row'[loc[q].token] = row[loc[q].token]
                BY <4>1 DEF Unused, Rows
            <4>3. QED
                BY <2>1, <4>2 DEF RequestOK, LockOK
        <3>2. QED
            BY <2>1, <3>1 DEF LockOK
    <2>4. FamilyOK(q)' /\ LookupOK(q)'
        BY <1>1, <2>1 DEF RequestOK, FamilyOK, LookupOK
    <2>5. QED
        BY <2>2, <2>3, <2>4 DEF RequestOK
<1>5. QED
    BY <1>2, <1>3, <1>4 DEF IInv

(* The first token of a new family is inserted.                            *)
LEMMA RowInserted ==
    ASSUME IInv, TypeOK', NEW t \in Tokens, NEW f \in Families,
           NEW u \in Users, NEW c \in Clients, MintRefreshToken(t, f, u, c)
    PROVE  IInv'
<1>1. t \notin minted /\ f \notin born /\ t \notin Rows
    BY DEF MintRefreshToken, IInv, MintedInv
<1>2. row'[t] \in Row /\ row'[t].family = f /\ row'[t].usedAt = Never /\ row'[t] # NoRow
    BY <1>1, NullsAssumption, TimesAssumption DEF MintRefreshToken, IInv, TypeOK, Row, Never
<1>3. \A s \in Tokens \ {t} : row'[s] = row[s]
    BY DEF MintRefreshToken, IInv, TypeOK
<1>4. Rows' = Rows \cup {t} /\ Unused' = Unused \cup {t}
    BY <1>1, <1>2, <1>3 DEF Rows, Unused
<1>5. minted' = minted \cup {t} /\ born' = born \cup {f}
      /\ pc' = pc /\ loc' = loc /\ lock' = lock
    BY DEF MintRefreshToken
<1>6. \A s \in Rows : s # t /\ row'[s] = row[s] /\ row[s].family \in born /\ row[s].family # f
    BY <1>1, <1>3 DEF IInv, MintedInv, Rows
<1>7. MintedInv' /\ OneUnusedPerFamily' /\ FamilyKeepsOwner'
    BY <1>2, <1>4, <1>5, <1>6
    DEF IInv, MintedInv, OneUnusedPerFamily, FamilyKeepsOwner, Unused
<1>8. ASSUME NEW q \in Requests PROVE RequestOK(q)'
    <2>1. RequestOK(q)
        BY DEF IInv
    <2>2. EntryOK(q)'
        BY <1>5, <2>1 DEF RequestOK, EntryOK
    <2>3. FamilyOK(q)'
        BY <1>1, <1>2, <1>4, <1>5, <1>6, <2>1 DEF RequestOK, FamilyOK
    <2>4. ClaimOK(q)' /\ LockOK(q)' /\ LookupOK(q)'
        BY <1>1, <1>2, <1>4, <1>5, <1>6, <2>1
        DEF RequestOK, ClaimOK, LockOK, FamilyOK, LookupOK, Unused
    <2>5. QED
        BY <2>2, <2>3, <2>4 DEF RequestOK
<1>9. QED
    BY <1>7, <1>8 DEF IInv

(* A rotation commits: its row is used and the successor takes its place.  *)
LEMMA RowRotated ==
    ASSUME IInv, TypeOK', NEW r \in Requests, NEW s \in Tokens, RotateCommit(r, s)
    PROVE  IInv'
<1> DEFINE t == loc[r].token
           e == loc[r].entry
<1>1. pc[r] = "claimed" /\ RequestOK(r)
    BY DEF RotateCommit, IInv
<1>2. /\ t \in Unused /\ t \in Tokens /\ e \in Row /\ e.usedAt # Never /\ lock[t] = r
      /\ row[t].family = e.family /\ row[t].user = e.user /\ row[t].client = e.client
      /\ e.client = loc[r].client /\ loc[r].client \in Clients
    BY <1>1 DEF RequestOK, EntryOK, LockOK
<1>3. s \notin minted /\ s \notin Rows /\ s # t
    BY <1>2 DEF RotateCommit, IInv, MintedInv, Unused
<1>4. row'[t] = e /\ \A x \in Tokens \ {s, t} : row'[x] = row[x]
    BY <1>2, <1>3 DEF RotateCommit, IInv, TypeOK
<1>5. /\ row'[s] = [family |-> e.family, user |-> e.user, client |-> loc[r].client,
                    usedAt |-> Never, createdAt |-> now, expiresAt |-> loc[r].expiresAt]
    BY <1>2, <1>3 DEF RotateCommit, IInv, TypeOK
<1>6. row'[s] # NoRow /\ row'[t] # NoRow
    <2>1. row'[s] \in Row
        BY <1>2, <1>5 DEF IInv, TypeOK, Locals, Row, Never
    <2>2. QED
        BY <1>2, <1>4, <2>1, NullsAssumption
<1>7. Rows' = Rows \cup {s} /\ Unused' = (Unused \ {t}) \cup {s}
    BY <1>2, <1>3, <1>4, <1>5, <1>6 DEF Rows, Unused
<1>8. minted' = minted \cup {s} /\ born' = born
    BY DEF RotateCommit
<1>9. \A x \in Rows : x # s /\ row'[x].family = row[x].family
                    /\ row'[x].user = row[x].user /\ row'[x].client = row[x].client
    BY <1>2, <1>3, <1>4 DEF Rows
<1>10. row'[s].family = row[t].family /\ row'[s].user = row[t].user
       /\ row'[s].client = row[t].client /\ row[t].family \in born /\ t \in Rows
    BY <1>2, <1>5 DEF IInv, MintedInv, Unused
<1>11. MintedInv'
    BY <1>7, <1>8, <1>9, <1>10 DEF IInv, MintedInv
<1>12. OneUnusedPerFamily'
    <2>1. ASSUME NEW x \in Unused, x # t PROVE row[x].family # row[t].family
        BY <1>2, <2>1 DEF IInv, OneUnusedPerFamily
    <2>2. \A x \in Unused : x \in Rows
        BY DEF Unused
    <2>3. QED
        BY <1>2, <1>7, <1>9, <1>10, <2>1, <2>2 DEF IInv, OneUnusedPerFamily
<1>13. FamilyKeepsOwner'
    BY <1>7, <1>9, <1>10 DEF IInv, FamilyKeepsOwner
<1>14. RequestOK(r)'
    BY DEF RotateCommit, Answer, Goto, IInv, TypeOK,
           RequestOK, EntryOK, ClaimOK, LockOK, FamilyOK, LookupOK
<1>15. ASSUME NEW q \in Requests, q # r PROVE RequestOK(q)'
    <2>1. pc'[q] = pc[q] /\ loc'[q] = loc[q] /\ RequestOK(q)
        BY <1>15 DEF RotateCommit, Answer, Goto, IInv, TypeOK
    <2>2. EntryOK(q)'
        BY <2>1 DEF RequestOK, EntryOK
    <2>3. FamilyOK(q)'
        BY <1>3, <1>7, <1>8, <1>9, <1>10, <2>1 DEF RequestOK, FamilyOK
    <2>4. LookupOK(q)'
        BY <1>3, <1>7, <1>8, <1>9, <2>1 DEF RequestOK, LookupOK
    <2>5. ClaimOK(q)'
        <3>1. CASE pc[q] = "claim" /\ loc[q].token \in Unused'
            <4>1. loc[q].token \in minted
                BY <2>1, <3>1 DEF RequestOK, FamilyOK
            <4>2. loc[q].token \in Unused /\ loc[q].token \notin {s, t}
                BY <1>2, <1>3, <1>4, <1>7, <3>1, <4>1 DEF Unused
            <4>3. QED
                BY <1>4, <2>1, <4>2 DEF RequestOK, ClaimOK, Unused, Rows
        <3>2. QED
            BY <2>1, <3>1 DEF RequestOK, ClaimOK
    <2>6. LockOK(q)'
        <3>1. CASE pc[q] = "claimed"
            <4>1. loc[q].token \in Unused /\ lock[loc[q].token] = q
                BY <2>1, <3>1 DEF RequestOK, LockOK
            <4>2. loc[q].token # t /\ loc[q].token # s
                BY <1>2, <1>3, <1>15, <4>1 DEF Unused
            <4>3. loc[q].token \in Unused' /\ row'[loc[q].token] = row[loc[q].token]
                BY <1>4, <1>7, <4>1, <4>2 DEF Unused, Rows
            <4>4. lock'[loc[q].token] = q
                BY <4>1, <4>2 DEF RotateCommit, IInv, TypeOK
            <4>5. QED
                BY <2>1, <4>3, <4>4, <3>1 DEF RequestOK, LockOK
        <3>2. QED
            BY <2>1, <3>1 DEF LockOK
    <2>7. QED
        BY <2>2, <2>3, <2>4, <2>5, <2>6 DEF RequestOK
<1>16. QED
    BY <1>11, <1>12, <1>13, <1>14, <1>15 DEF IInv

-----------------------------------------------------------------------------
LEMMA InitInv == Init => IInv
BY InitType
DEF Init, IInv, MintedInv, OneUnusedPerFamily, FamilyKeepsOwner, Rows, Unused,
    RequestOK, EntryOK, ClaimOK, LockOK, FamilyOK, LookupOK

(* The first read of a row: the call knows its family and its owner.       *)
LEMMA StartOK ==
    ASSUME IInv, TypeOK', NEW r \in Requests, NEW c \in Clients, NEW t \in Rows,
           NEW p \in {"deleteExpired", "grace", "claim", "deleteMany"},
           p = "deleteMany" \/ row[t].client = c,
           p = "claim" => row[t].usedAt = Never,
           UNCHANGED <<table, lock>>, Start(r, c, t, p)
    PROVE  IInv'
<1> DEFINE l == [token |-> t, client |-> c, entry |-> row[t],
                 expiresAt |-> now + RefreshTTL, successor |-> NoToken,
                 found |-> {}, caught |-> FALSE]
<1>1. t \in Tokens /\ row[t] \in Row /\ t \in minted /\ row[t].family \in born
    BY DEF IInv, TypeOK, MintedInv, Rows
<1>2. p \in PCs /\ l \in Locals /\ Goto(r, p, l)
    BY <1>1, TimesAssumption DEF Start, PCs, Locals, IInv, TypeOK
<1>3. pc'[r] = p /\ loc'[r] = l /\ row' = row /\ minted' = minted /\ born' = born
    BY <1>2 DEF Goto, IInv, TypeOK, table
<1>4. EntryOK(r)' /\ ClaimOK(r)' /\ LockOK(r)' /\ LookupOK(r)'
    BY <1>1, <1>3 DEF EntryOK, ClaimOK, LockOK, LookupOK, Unused, Rows
<1>5. FamilyOK(r)'
    BY <1>1, <1>3 DEF FamilyOK, IInv, FamilyKeepsOwner, Rows
<1>6. QED
    BY <1>2, <1>4, <1>5, OwnStep DEF RequestOK, table

LEMMA NextInv == IInv /\ [Next]_vars => IInv'
<1> SUFFICES ASSUME IInv, [Next]_vars PROVE IInv'
    OBVIOUS
<1>0. TypeOK /\ TypeOK' /\ \A r \in Requests : RequestOK(r)
    BY NextType DEF IInv, RequestOK
<1>1. ASSUME UNCHANGED <<table, lock, pc, loc>> PROVE IInv'
    BY <1>0, <1>1
    DEF IInv, table, MintedInv, OneUnusedPerFamily, FamilyKeepsOwner, Rows, Unused,
        RequestOK, EntryOK, ClaimOK, LockOK, FamilyOK, LookupOK
<1>2. CASE Tick \/ UNCHANGED vars \/ \E u \in Users : SetActive(u)
    BY <1>1, <1>2 DEF Tick, SetActive, vars, table
<1>3. ASSUME NEW t \in Tokens, NEW f \in Families, NEW u \in Users,
             NEW c \in Clients, MintRefreshToken(t, f, u, c)
      PROVE  IInv'
    BY <1>0, <1>3, RowInserted
<1>4. ASSUME NEW r \in Requests, NEW c \in Clients, NEW t \in Tokens,
             ExchangeRefreshToken(r, c, t)
      PROVE  IInv'
    BY <1>0, <1>4, StartOK DEF ExchangeRefreshToken, world
<1>5. ASSUME NEW r \in Requests, NEW c \in Clients, NEW t \in Tokens,
             RevokeToken(r, c, t)
      PROVE  IInv'
    BY <1>0, <1>5, StartOK DEF RevokeToken, world
<1>6. ASSUME NEW r \in Requests, Step(r) PROVE IInv'
    <2>1. CASE DeleteExpired(r)
        <3>1. row' = [t \in Tokens |-> IF t \in {loc[r].token} THEN NoRow ELSE row[t]]
            BY <1>0, <2>1 DEF DeleteExpired, TypeOK
        <3>2. {loc[r].token} \in SUBSET Tokens
            BY <1>0, <2>1 DEF DeleteExpired, RequestOK, EntryOK
        <3>3. QED
            BY <1>0, <2>1, <3>1, <3>2, RowsDeleted DEF DeleteExpired, Answer
    <2>2. CASE DeleteFamilyRemove(r)
        <3>1. loc[r].found \in SUBSET Tokens
            BY <1>0 DEF TypeOK, Locals
        <3>2. QED
            BY <1>0, <2>2, <3>1, RowsDeleted DEF DeleteFamilyRemove, Answer
    <2>3. ASSUME NEW s \in Tokens, RotateCommit(r, s) PROVE IInv'
        BY <1>0, <2>3, RowRotated
    <2>4. ASSUME Answer(r), UNCHANGED table,
                 \A q \in Requests \ {r}, t \in Tokens : lock[t] = q => lock'[t] = q
          PROVE  IInv'
        <3>1. RequestOK(r)'
            BY <1>0, <2>4
            DEF Answer, Goto, TypeOK, RequestOK, EntryOK, ClaimOK, LockOK, FamilyOK, LookupOK
        <3>2. "idle" \in PCs /\ Idle \in Locals
            BY IdleType DEF PCs
        <3>3. QED
            BY <1>0, <2>4, <3>1, <3>2, OwnStep DEF Answer
    <2>5. CASE GraceLookup(r)
        <3> DEFINE e == loc[r].entry
        <3>0. loc[r] \in Locals /\ UNCHANGED <<table, lock>>
            BY <1>0, <2>5 DEF TypeOK, GraceLookup
        <3>1. CASE NoSuccessor(r)
            <4>1. CASE Answer(r)
                BY <2>4, <3>0, <4>1
            <4>2. CASE Goto(r, "deleteMany", loc[r])
                <5>1. RequestOK(r)'
                    BY <1>0, <2>5, <4>2
                    DEF GraceLookup, Goto, TypeOK, RequestOK, EntryOK, ClaimOK, LockOK,
                        FamilyOK, LookupOK
                <5>2. QED
                    BY <1>0, <3>0, <4>2, <5>1, OwnStep DEF PCs
            <4>3. QED
                BY <3>1, <4>1, <4>2 DEF NoSuccessor
        <3>2. ASSUME NEW s \in Successors(e, loc[r].client),
                     Goto(r, "issue", [loc[r] EXCEPT !.successor = s])
              PROVE  IInv'
            <4>1. s \in Rows /\ s \in Tokens /\ row[s].family = e.family /\ s \in minted
                BY DEF Successors, InFamily, Rows, IInv, MintedInv
            <4>2. [loc[r] EXCEPT !.successor = s] \in Locals
                BY <3>0, <4>1 DEF Locals
            <4>3. pc'[r] = "issue" /\ loc'[r] = [loc[r] EXCEPT !.successor = s]
                  /\ row' = row /\ born' = born /\ minted' = minted
                BY <1>0, <3>0, <3>2 DEF Goto, TypeOK, table
            <4>4. loc'[r].successor = s /\ loc'[r].entry = e
                  /\ loc'[r].token = loc[r].token /\ loc'[r].client = loc[r].client
                BY <3>0, <4>3 DEF Locals
            <4>5. EntryOK(r)' /\ ClaimOK(r)' /\ LockOK(r)'
                BY <1>0, <2>5, <4>3, <4>4 DEF GraceLookup, RequestOK, EntryOK, ClaimOK, LockOK
            <4>6. FamilyOK(r)'
                BY <1>0, <2>5, <4>3, <4>4 DEF GraceLookup, RequestOK, FamilyOK, Rows
            <4>7. LookupOK(r)'
                BY <4>1, <4>3, <4>4 DEF LookupOK
            <4>8. QED
                BY <1>0, <3>0, <3>2, <4>2, <4>5, <4>6, <4>7, OwnStep DEF RequestOK, PCs
        <3>3. QED
            BY <2>5, <3>1, <3>2 DEF GraceLookup
    <2>6. CASE IssueTokensForRefreshRow(r)
        BY <2>4, <2>6 DEF IssueTokensForRefreshRow
    <2>7. CASE RotateClaim(r)
        <3> DEFINE t == loc[r].token
                   l == [loc[r] EXCEPT !.entry.usedAt = now]
        <3>0. loc[r] \in Locals /\ t \in Tokens /\ loc[r].entry \in Row /\ UNCHANGED table
            BY <1>0, <2>7 DEF TypeOK, RotateClaim, RequestOK, EntryOK, table
        <3>1. CASE t \in Unused /\ lock' = [lock EXCEPT ![t] = r] /\ Goto(r, "claimed", l)
            <4>1. /\ l.token = t /\ l.client = loc[r].client
                  /\ l.entry = [loc[r].entry EXCEPT !.usedAt = now]
                BY <3>0 DEF Locals
            <4>2. /\ l.entry \in Row /\ l.entry.usedAt = now
                  /\ l.entry.family = loc[r].entry.family
                  /\ l.entry.user = loc[r].entry.user
                  /\ l.entry.client = loc[r].entry.client
                BY <1>0, <3>0, <4>1 DEF Row, TypeOK
            <4>3. l \in Locals
                BY <3>0, <4>1, <4>2 DEF Locals
            <4>4. pc'[r] = "claimed" /\ loc'[r] = l /\ lock'[t] = r
                  /\ row' = row /\ born' = born /\ minted' = minted
                BY <1>0, <3>0, <3>1 DEF Goto, TypeOK, table
            <4>5. EntryOK(r)' /\ ClaimOK(r)' /\ LookupOK(r)'
                BY <1>0, <2>7, <3>0, <4>1, <4>2, <4>4
                DEF RequestOK, EntryOK, ClaimOK, LookupOK, RotateClaim
            <4>6. now # Never
                BY <1>0 DEF TypeOK, Never
            <4>7. LockOK(r)'
                BY <1>0, <2>7, <3>1, <4>1, <4>2, <4>4, <4>6
                DEF RequestOK, ClaimOK, LockOK, RotateClaim, Unused, Rows
            <4>8. FamilyOK(r)'
                BY <1>0, <2>7, <4>1, <4>2, <4>4 DEF RequestOK, FamilyOK, RotateClaim, Rows
            <4>9. \A q \in Requests \ {r}, x \in Tokens : lock[x] = q => lock'[x] = q
                BY <1>0, <2>7, <3>0, <3>1, NullsAssumption DEF RotateClaim, TypeOK
            <4>10. QED
                BY <1>0, <3>0, <3>1, <4>3, <4>5, <4>7, <4>8, <4>9, OwnStep
                DEF RequestOK, PCs
        <3>2. CASE Goto(r, "reread", loc[r]) /\ UNCHANGED lock
            <4>1. RequestOK(r)'
                BY <1>0, <2>7, <3>0, <3>2
                DEF RotateClaim, Goto, TypeOK, table, Rows, Unused,
                    RequestOK, EntryOK, ClaimOK, LockOK, FamilyOK, LookupOK
            <4>2. QED
                BY <1>0, <3>0, <3>2, <4>1, OwnStep DEF PCs
        <3>3. QED
            BY <2>7, <3>1, <3>2 DEF RotateClaim
    <2>8. CASE RotateInactive(r)
        <3>1. RequestOK(r)'
            BY <1>0, <2>8
            DEF RotateInactive, Goto, TypeOK, table, Rows, Unused,
                RequestOK, EntryOK, ClaimOK, LockOK, FamilyOK, LookupOK
        <3>2. \A q \in Requests \ {r}, t \in Tokens : lock[t] = q => lock'[t] = q
            BY <1>0, <2>8 DEF RotateInactive, TypeOK, RequestOK, LockOK
        <3>3. "reread" \in PCs /\ loc[r] \in Locals
            BY <1>0 DEF PCs, TypeOK
        <3>4. QED
            BY <1>0, <2>8, <3>1, <3>2, <3>3, OwnStep DEF RotateInactive
    <2>9. CASE RotateAbort(r)
        <3>1. \A q \in Requests \ {r}, t \in Tokens : lock[t] = q => lock'[t] = q
            BY <1>0, <2>9 DEF RotateAbort, TypeOK, RequestOK, LockOK
        <3>2. QED
            BY <2>4, <2>9, <3>1 DEF RotateAbort
    <2>10. CASE RotateReread(r)
        <3> DEFINE t == loc[r].token
                   l == [loc[r] EXCEPT !.entry = row[t], !.caught = TRUE]
        <3>0. loc[r] \in Locals /\ t \in Tokens /\ UNCHANGED <<table, lock>>
            BY <1>0, <2>10 DEF TypeOK, RotateReread, RequestOK, EntryOK
        <3>1. CASE t \in Rows \ Unused /\ Goto(r, "grace", l)
            <4>1. row[t] \in Row
                BY <1>0, <3>1 DEF TypeOK, Rows
            <4>2. l.token = t /\ l.client = loc[r].client /\ l.entry = row[t] /\ l \in Locals
                BY <3>0, <4>1 DEF Locals
            <4>3. pc'[r] = "grace" /\ loc'[r] = l
                  /\ row' = row /\ born' = born /\ minted' = minted
                BY <1>0, <3>0, <3>1 DEF Goto, TypeOK, table
            <4>4. EntryOK(r)' /\ ClaimOK(r)' /\ LockOK(r)' /\ LookupOK(r)'
                BY <1>0, <2>10, <4>1, <4>2, <4>3
                DEF RotateReread, RequestOK, EntryOK, ClaimOK, LockOK, LookupOK
            <4>5. FamilyOK(r)'
                BY <1>0, <2>10, <3>1, <4>2, <4>3
                DEF RotateReread, RequestOK, FamilyOK, IInv, FamilyKeepsOwner, Rows
            <4>6. QED
                BY <1>0, <3>0, <3>1, <4>2, <4>4, <4>5, OwnStep DEF RequestOK, PCs
        <3>2. CASE Answer(r)
            BY <2>4, <3>0, <3>2
        <3>3. QED
            BY <2>10, <3>1, <3>2 DEF RotateReread
    <2>11. CASE DeleteFamilyFind(r)
        <3> DEFINE l == [loc[r] EXCEPT !.found = InFamily(loc[r].entry.family)]
        <3>0. loc[r] \in Locals /\ UNCHANGED <<table, lock>> /\ Goto(r, "deleting", l)
            BY <1>0, <2>11 DEF TypeOK, DeleteFamilyFind
        <3>1. l \in Locals /\ l.token = loc[r].token /\ l.client = loc[r].client
              /\ l.entry = loc[r].entry
            BY <3>0 DEF Locals, InFamily, Rows
        <3>2. pc'[r] = "deleting" /\ loc'[r] = l
            BY <1>0, <3>0 DEF Goto, TypeOK
        <3>3. EntryOK(r)' /\ ClaimOK(r)' /\ LockOK(r)' /\ FamilyOK(r)'
            BY <1>0, <2>11, <3>1, <3>2
            DEF DeleteFamilyFind, RequestOK, EntryOK, ClaimOK, LockOK, FamilyOK
        <3>4. l.found = InFamily(loc[r].entry.family)
            BY <3>0 DEF Locals
        <3>5. LookupOK(r)'
            BY <3>0, <3>1, <3>2, <3>4 DEF LookupOK, table, InFamily, Rows, IInv, MintedInv
        <3>6. QED
            BY <1>0, <3>0, <3>1, <3>3, <3>5, OwnStep DEF RequestOK, PCs
    <2>12. QED
        BY <1>6, <2>1, <2>2, <2>3, <2>5, <2>6, <2>7, <2>8, <2>9, <2>10, <2>11 DEF Step
<1>7. QED
    BY <1>2, <1>3, <1>4, <1>5, <1>6 DEF Next

-----------------------------------------------------------------------------
(* In every behaviour the state has its type.                              *)
THEOREM TypeCorrect == Spec => []TypeOK
<1>1. IInv => TypeOK
    BY DEF IInv
<1>2. QED
    BY <1>1, InitInv, NextInv, PTL DEF Spec

(* Two calls that race for one token never both rotate it: a family has at *)
(* most one token that can still be used.                                  *)
THEOREM RotationNeverForks == Spec => []OneUnusedPerFamily
<1>1. IInv => OneUnusedPerFamily
    BY DEF IInv
<1>2. QED
    BY <1>1, InitInv, NextInv, PTL DEF Spec

(* A family stays with the user and the client it was created for.         *)
THEOREM OwnerKept == Spec => []FamilyKeepsOwner
<1>1. IInv => FamilyKeepsOwner
    BY DEF IInv
<1>2. QED
    BY <1>1, InitInv, NextInv, PTL DEF Spec

(* A retry within the grace is answered with a token of its own family,    *)
(* user and client, whatever ran since the lookup.                         *)
THEOREM RetryGetsOwnToken == Spec => []GrantStaysWithHolder
<1>1. IInv => GrantStaysWithHolder
    BY DEF IInv, RequestOK, FamilyOK, LookupOK, GrantStaysWithHolder
<1>2. QED
    BY <1>1, InitInv, NextInv, PTL DEF Spec

-----------------------------------------------------------------------------
(***************************************************************************)
(* McpRefreshTokens implements TokenFamilies: the holder of a family is    *)
(* its unused token.                                                       *)
(***************************************************************************)
LEMMA HolderIsUnused ==
    ASSUME OneUnusedPerFamily, NEW t \in Unused
    PROVE  Holder(row[t].family) = t
<1>1. t \in InFamily(row[t].family) \cap Unused
    BY DEF InFamily, Unused
<1>2. \A s \in Unused : row[s].family = row[t].family => s = t
    BY DEF OneUnusedPerFamily
<1>3. QED
    BY <1>1, <1>2 DEF Holder

LEMMA HolderIsNone ==
    ASSUME NEW f, \A t \in Unused : row[t].family # f
    PROVE  Holder(f) = NoToken
BY DEF Holder, InFamily

LEMMA HolderExists ==
    ASSUME NEW f, Holder(f) # NoToken
    PROVE  Holder(f) \in Unused /\ row[Holder(f)].family = f
BY DEF Holder, InFamily

(* When the usable tokens of a family do not change, nor does its holder.  *)
LEMMA HolderKept ==
    ASSUME OneUnusedPerFamily, OneUnusedPerFamily', NEW f,
           \A t \in Tokens : (t \in Unused /\ row[t].family = f)
                         <=> (t \in Unused' /\ row'[t].family = f)
    PROVE  Holder(f)' = Holder(f)
<1>1. Unused \subseteq Tokens /\ Unused' \subseteq Tokens
    BY DEF Unused, Rows
<1>2. CASE \E t \in Unused : row[t].family = f
    <2>1. PICK t \in Unused : row[t].family = f
        BY <1>2
    <2>2. t \in Unused' /\ row'[t].family = f
        BY <1>1, <2>1
    <2>3. Holder(f) = t
        BY <2>1, HolderIsUnused
    <2>4. Holder(f)' = t
        <3>1. t \in (InFamily(f) \cap Unused)'
            BY <2>2 DEF InFamily, Unused
        <3>2. \A s \in Unused' : row'[s].family = f => s = t
            BY <2>2 DEF OneUnusedPerFamily
        <3>3. QED
            BY <2>2, <3>1, <3>2 DEF Holder
    <2>5. QED
        BY <2>3, <2>4
<1>3. CASE \A t \in Unused : row[t].family # f
    <2>1. Holder(f) = NoToken
        BY <1>3, HolderIsNone
    <2>2. \A t \in Unused' : row'[t].family # f
        BY <1>1, <1>3
    <2>3. Holder(f)' = NoToken
        BY <2>2 DEF Holder, InFamily
    <2>4. QED
        BY <2>1, <2>3
<1>4. QED
    BY <1>2, <1>3

Holders == [f \in Families |-> Holder(f)]

(* A step after which the usable tokens are the same is a stutter.         *)
LEMMA StutterStep ==
    ASSUME OneUnusedPerFamily, OneUnusedPerFamily', UNCHANGED <<minted, born>>,
           \A t \in Tokens : t \in Unused <=> t \in Unused',
           \A t \in Unused : row'[t].family = row[t].family
    PROVE  UNCHANGED Abstract!avars
<1>1. ASSUME NEW f \in Families PROVE Holder(f)' = Holder(f)
    BY HolderKept DEF Unused, Rows
<1>2. Holders' = Holders
    BY <1>1 DEF Holders
<1>3. QED
    BY <1>2 DEF Abstract!avars, Holders

(* Deleting rows of one family ends it, or changes nothing.                *)
LEMMA DeleteStep ==
    ASSUME OneUnusedPerFamily, OneUnusedPerFamily', UNCHANGED <<minted, born>>,
           NEW f \in Families, NEW D \in SUBSET Tokens,
           row' = [t \in Tokens |-> IF t \in D THEN NoRow ELSE row[t]],
           \A t \in D : t \in Rows => row[t].family = f
    PROVE  Abstract!ANext \/ UNCHANGED Abstract!avars
<1>1. /\ Unused' = Unused \ D
      /\ \A t \in Unused' : row'[t] = row[t]
      /\ Unused \subseteq Tokens /\ Unused \subseteq Rows
    BY DEF Unused, Rows
<1>2. ASSUME NEW g \in Families, g # f PROVE Holder(g)' = Holder(g)
    BY <1>1, <1>2, HolderKept
<1>3. CASE \E t \in Unused \ D : row[t].family = f
    <2>1. Unused \cap D = {}
        BY <1>1, <1>3 DEF OneUnusedPerFamily
    <2>2. QED
        BY <1>1, <2>1, StutterStep
<1>4. CASE \A t \in Unused \ D : row[t].family # f
    <2>1. Holder(f)' = NoToken
        BY <1>1, <1>4 DEF Holder, InFamily
    <2>2. Holders' = [Holders EXCEPT ![f] = NoToken]
        BY <1>2, <2>1 DEF Holders
    <2>3. Abstract!End(f)
        BY <2>2 DEF Abstract!End, Holders
    <2>4. QED
        BY <2>3 DEF Abstract!ANext
<1>5. QED
    BY <1>3, <1>4

LEMMA MintStep ==
    ASSUME IInv, OneUnusedPerFamily', NEW t \in Tokens, NEW f \in Families,
           NEW u \in Users, NEW c \in Clients, MintRefreshToken(t, f, u, c)
    PROVE  Abstract!SignIn(f, t)
<1>1. t \notin minted /\ f \notin born /\ t \notin Rows
    BY DEF MintRefreshToken, IInv, MintedInv
<1>2. row'[t].family = f /\ row'[t].usedAt = Never /\ row'[t] # NoRow
    <2>1. row'[t] \in Row /\ row'[t].family = f /\ row'[t].usedAt = Never
        BY TimesAssumption DEF MintRefreshToken, IInv, TypeOK, Row, Never
    <2>2. QED
        BY <2>1, NullsAssumption
<1>3. \A s \in Tokens \ {t} : row'[s] = row[s]
    BY DEF MintRefreshToken, IInv, TypeOK
<1>4. Unused' = Unused \cup {t} /\ t \notin Unused
    BY <1>1, <1>2, <1>3 DEF Rows, Unused
<1>5. ASSUME NEW g \in Families, g # f PROVE Holder(g)' = Holder(g)
    BY <1>2, <1>3, <1>4, <1>5, HolderKept DEF IInv
<1>6. Holder(f)' = t
    <2>1. t \in (InFamily(f) \cap Unused)'
        BY <1>2, <1>4 DEF InFamily, Unused
    <2>2. \A s \in Unused' : row'[s].family = f => s = t
        BY <1>2, <1>4 DEF OneUnusedPerFamily
    <2>3. QED
        BY <2>1, <2>2 DEF Holder
<1>7. Holders' = [Holders EXCEPT ![f] = t]
    BY <1>5, <1>6 DEF Holders
<1>8. QED
    BY <1>1, <1>7 DEF Abstract!SignIn, Holders, MintRefreshToken

LEMMA RotateStep ==
    ASSUME IInv, OneUnusedPerFamily', NEW r \in Requests, NEW s \in Tokens,
           RotateCommit(r, s)
    PROVE  Abstract!Rotate(loc[r].entry.family, s) /\ loc[r].entry.family \in Families
<1> DEFINE t == loc[r].token
           e == loc[r].entry
<1>0. PICK f \in Families : f = loc[r].entry.family
    BY DEF RotateCommit, IInv, RequestOK, EntryOK, Row
<1>1. /\ t \in Unused /\ t \in Tokens /\ e \in Row /\ e.usedAt # Never
      /\ row[t].family = f /\ e.family = f /\ loc[r].client \in Clients
    BY <1>0 DEF RotateCommit, IInv, RequestOK, EntryOK, LockOK
<1>2. s \notin minted /\ s \notin Rows /\ s # t
    BY <1>1 DEF RotateCommit, IInv, MintedInv, Unused
<1>3. row'[t] = e /\ \A x \in Tokens \ {s, t} : row'[x] = row[x]
    BY <1>1, <1>2 DEF RotateCommit, IInv, TypeOK
<1>4. row'[s] # NoRow /\ row'[s].family = f /\ row'[s].usedAt = Never
    <2>1. row'[s] = [family |-> f, user |-> e.user, client |-> loc[r].client,
                     usedAt |-> Never, createdAt |-> now,
                     expiresAt |-> loc[r].expiresAt]
        BY <1>1, <1>2 DEF RotateCommit, IInv, TypeOK
    <2>2. row'[s] \in Row
        BY <1>1, <2>1 DEF IInv, TypeOK, Locals, Row, Never
    <2>3. QED
        BY <2>1, <2>2, NullsAssumption
<1>5. Unused' = (Unused \ {t}) \cup {s} /\ s \notin Unused
    BY <1>1, <1>2, <1>3, <1>4 DEF Rows, Unused
<1>7. ASSUME NEW g \in Families, g # f PROVE Holder(g)' = Holder(g)
    BY <1>1, <1>2, <1>3, <1>4, <1>5, <1>7, HolderKept DEF IInv
<1>8. Holder(f)' = s
    <2>1. s \in (InFamily(f) \cap Unused)'
        BY <1>4, <1>5 DEF InFamily, Unused
    <2>2. \A x \in Unused' : row'[x].family = f => x = s
        BY <1>4, <1>5 DEF OneUnusedPerFamily
    <2>3. QED
        BY <2>1, <2>2 DEF Holder
<1>9. Holder(f) = t /\ t # NoToken
    BY <1>1, HolderIsUnused, NullsAssumption DEF IInv
<1>10. Holders' = [Holders EXCEPT ![f] = s]
    BY <1>7, <1>8 DEF Holders
<1>11. QED
    BY <1>0, <1>2, <1>9, <1>10 DEF Abstract!Rotate, Holders, RotateCommit

LEMMA AbstractStep ==
    IInv /\ IInv' /\ [Next]_vars => [Abstract!ANext]_(Abstract!avars)
<1> SUFFICES ASSUME IInv, IInv', [Next]_vars
             PROVE  Abstract!ANext \/ UNCHANGED Abstract!avars
    OBVIOUS
<1>0. OneUnusedPerFamily /\ OneUnusedPerFamily' /\ TypeOK
    BY DEF IInv
<1>1. ASSUME UNCHANGED table PROVE UNCHANGED Abstract!avars
    BY <1>0, <1>1, StutterStep DEF table, Unused, Rows
<1>2. CASE Tick \/ UNCHANGED vars \/ \E u \in Users : SetActive(u)
    BY <1>1, <1>2 DEF Tick, SetActive, vars, table
<1>3. ASSUME NEW t \in Tokens, NEW f \in Families, NEW u \in Users,
             NEW c \in Clients, MintRefreshToken(t, f, u, c)
      PROVE  Abstract!ANext
    BY <1>0, <1>3, MintStep DEF Abstract!ANext
<1>4. ASSUME NEW r \in Requests, NEW c \in Clients, NEW t \in Tokens,
             ExchangeRefreshToken(r, c, t) \/ RevokeToken(r, c, t)
      PROVE  UNCHANGED Abstract!avars
    BY <1>1, <1>4 DEF ExchangeRefreshToken, RevokeToken
<1>5. ASSUME NEW r \in Requests, Step(r)
      PROVE  Abstract!ANext \/ UNCHANGED Abstract!avars
    <2>0. RequestOK(r)
        BY DEF IInv
    <2>1. CASE DeleteExpired(r)
        <3> DEFINE t == loc[r].token
        <3>1. t \in Tokens
            BY <2>0, <2>1 DEF DeleteExpired, RequestOK, EntryOK
        <3>2. row' = [x \in Tokens |-> IF x \in {t} THEN NoRow ELSE row[x]]
            BY <1>0, <2>1 DEF DeleteExpired, TypeOK
        <3>3. CASE t \in Rows
            <4>1. PICK f \in Families : f = row[t].family
                BY <1>0, <3>3 DEF TypeOK, Rows, Row
            <4>2. PICK D \in SUBSET Tokens : D = {t}
                BY <3>1
            <4>3. /\ row' = [x \in Tokens |-> IF x \in D THEN NoRow ELSE row[x]]
                  /\ \A x \in D : x \in Rows => row[x].family = f
                BY <3>2, <4>1, <4>2
            <4>4. QED
                BY <1>0, <2>1, <4>3, DeleteStep DEF DeleteExpired
        <3>4. CASE t \notin Rows
            <4>1. row' = row
                BY <1>0, <2>1, <3>1, <3>4 DEF DeleteExpired, TypeOK, Rows
            <4>2. QED
                BY <1>1, <2>1, <4>1 DEF DeleteExpired, table
        <3>5. QED
            BY <3>3, <3>4
    <2>2. CASE DeleteFamilyRemove(r)
        <3>1. PICK f \in Families : f = loc[r].entry.family
            BY <2>0, <2>2 DEF DeleteFamilyRemove, RequestOK, EntryOK, Row
        <3>2. PICK D \in SUBSET Tokens : D = loc[r].found
            BY <1>0 DEF TypeOK, Locals
        <3>3. \A t \in D : t \in Rows => row[t].family = f
            BY <2>0, <2>2, <3>1, <3>2 DEF DeleteFamilyRemove, RequestOK, LookupOK
        <3>4. QED
            BY <1>0, <2>2, <3>2, <3>3, DeleteStep DEF DeleteFamilyRemove
    <2>3. ASSUME NEW s \in Tokens, RotateCommit(r, s) PROVE Abstract!ANext
        BY <1>0, <2>3, RotateStep DEF Abstract!ANext
    <2>4. CASE \/ GraceLookup(r) \/ IssueTokensForRefreshRow(r) \/ RotateClaim(r)
               \/ RotateInactive(r) \/ RotateAbort(r) \/ RotateReread(r)
               \/ DeleteFamilyFind(r)
        BY <1>1, <2>4
        DEF GraceLookup, IssueTokensForRefreshRow, RotateClaim, RotateInactive,
            RotateAbort, RotateReread, DeleteFamilyFind
    <2>5. QED
        BY <1>5, <2>1, <2>2, <2>3, <2>4 DEF Step
<1>6. QED
    BY <1>2, <1>3, <1>4, <1>5 DEF Next

(* Rotation implements the abstract specification: one token at a time     *)
(* continues a family, and a family that has ended stays ended.            *)
THEOREM RotationImplementsTokenFamilies == Spec => ImplementsTokenFamilies
<1>1. Init => Abstract!AInit
    BY DEF Init, Abstract!AInit, Holder, InFamily, Unused, Rows
<1>2. QED
    BY <1>1, InitInv, NextInv, AbstractStep, PTL
    DEF Spec, ImplementsTokenFamilies, Abstract!ASpec

-----------------------------------------------------------------------------
(* Waiting for row locks.                                                  *)

(* A locked row is locked by the one call that stands between the claim    *)
(* and the end of its transaction, for this row.                           *)
LockBack ==
    \A t \in Tokens : lock[t] # NoRequest =>
        pc[lock[t]] = "claimed" /\ loc[lock[t]].token = t

(* A step of a call that is not at "claimed" leaves all locks as they are. *)
LEMMA LocksKept ==
    ASSUME TypeOK, LockBack, NEW r \in Requests, pc[r] # "claimed", lock' = lock,
           \A q \in Requests \ {r} : pc'[q] = pc[q] /\ loc'[q] = loc[q]
    PROVE  LockBack'
<1> SUFFICES ASSUME NEW t \in Tokens, lock[t] # NoRequest
             PROVE  pc'[lock[t]] = "claimed" /\ loc'[lock[t]].token = t
  BY DEF LockBack
<1>1. lock[t] \in Requests /\ pc[lock[t]] = "claimed" /\ loc[lock[t]].token = t
  BY DEF TypeOK, LockBack
<1> QED BY <1>1

(* The end of a transaction releases the row it has claimed. *)
LEMMA LockReleased ==
    ASSUME TypeOK, LockBack, NEW r \in Requests, pc[r] = "claimed",
           lock' = [lock EXCEPT ![loc[r].token] = NoRequest],
           \A q \in Requests \ {r} : pc'[q] = pc[q] /\ loc'[q] = loc[q]
    PROVE  LockBack'
<1> SUFFICES ASSUME NEW t \in Tokens, lock'[t] # NoRequest
             PROVE  pc'[lock'[t]] = "claimed" /\ loc'[lock'[t]].token = t
  BY DEF LockBack
<1>1. lock \in [Tokens -> Requests \cup {NoRequest}]
  BY DEF TypeOK
<1>2. t # loc[r].token /\ lock'[t] = lock[t]
  BY <1>1
<1>3. lock[t] \in Requests /\ pc[lock[t]] = "claimed" /\ loc[lock[t]].token = t
  BY <1>1, <1>2 DEF LockBack
<1> QED BY <1>2, <1>3

LEMMA NextLockBack == IInv /\ LockBack /\ [Next]_vars => LockBack'
<1> SUFFICES ASSUME IInv, LockBack, [Next]_vars PROVE LockBack'
  OBVIOUS
<1>1. TypeOK /\ pc \in [Requests -> PCs] /\ loc \in [Requests -> Locals]
      /\ lock \in [Tokens -> Requests \cup {NoRequest}]
  BY DEF IInv, TypeOK
<1>2. ASSUME NEW r \in Requests, NEW p, NEW l, Goto(r, p, l)
      PROVE  /\ pc'[r] = p /\ loc'[r] = l
             /\ \A q \in Requests \ {r} : pc'[q] = pc[q] /\ loc'[q] = loc[q]
  BY <1>1, <1>2 DEF Goto
<1>3. CASE UNCHANGED <<lock, pc, loc>>
  BY <1>3 DEF LockBack
<1>4. ASSUME NEW r \in Requests, NEW c \in Clients, NEW t \in Tokens,
             ExchangeRefreshToken(r, c, t) \/ RevokeToken(r, c, t)
      PROVE  LockBack'
  <2>1. pc[r] # "claimed" /\ lock' = lock /\ \E p, l : Goto(r, p, l)
    BY <1>4 DEF ExchangeRefreshToken, RevokeToken, Start
  <2> QED BY <1>1, <1>2, <2>1, LocksKept
<1>5. ASSUME NEW r \in Requests, Step(r) PROVE LockBack'
  <2>1. CASE DeleteExpired(r) \/ GraceLookup(r) \/ IssueTokensForRefreshRow(r) \/ RotateReread(r)
             \/ DeleteFamilyFind(r) \/ DeleteFamilyRemove(r)
    <3>1. pc[r] # "claimed" /\ lock' = lock
      BY <2>1 DEF DeleteExpired, GraceLookup, IssueTokensForRefreshRow, RotateReread,
                  DeleteFamilyFind, DeleteFamilyRemove
    <3>2. \E p, l : Goto(r, p, l)
      BY <2>1 DEF DeleteExpired, GraceLookup, NoSuccessor, IssueTokensForRefreshRow, RotateReread,
                  DeleteFamilyFind, DeleteFamilyRemove, Answer
    <3> QED BY <1>1, <1>2, <3>1, <3>2, LocksKept
  <2>2. CASE RotateClaim(r)
    <3>1. CASE lock' = lock
      <4>1. pc[r] # "claimed" /\ \E p, l : Goto(r, p, l)
        BY <2>2 DEF RotateClaim
      <4> QED BY <1>1, <1>2, <3>1, <4>1, LocksKept
    <3>2. CASE lock' # lock
      <4> DEFINE k == loc[r].token
      <4>1. /\ pc[r] = "claim" /\ k \in Tokens /\ lock' = [lock EXCEPT ![k] = r]
            /\ Goto(r, "claimed", [loc[r] EXCEPT !.entry.usedAt = now])
        BY <2>2, <3>2 DEF RotateClaim, Unused, Rows
      <4>2. pc'[r] = "claimed" /\ loc'[r].token = k
        <5>1. loc'[r] = [loc[r] EXCEPT !.entry.usedAt = now]
          BY <1>2, <4>1
        <5>2. loc[r] \in Locals
          BY <1>1
        <5> QED BY <1>2, <4>1, <5>1, <5>2 DEF Locals
      <4>3. ASSUME NEW t \in Tokens, lock'[t] # NoRequest
            PROVE  pc'[lock'[t]] = "claimed" /\ loc'[lock'[t]].token = t
        <5>1. CASE t = k
          <6>1. lock'[t] = r
            BY <1>1, <4>1, <5>1
          <6> QED BY <4>2, <5>1, <6>1
        <5>2. CASE t # k
          <6>1. lock'[t] = lock[t]
            BY <1>1, <4>1, <5>2
          <6>2. lock[t] \in Requests /\ pc[lock[t]] = "claimed" /\ loc[lock[t]].token = t
            BY <1>1, <4>3, <6>1 DEF LockBack
          <6>3. lock[t] # r
            BY <4>1, <6>2
          <6> QED BY <1>2, <4>1, <6>1, <6>2, <6>3
        <5> QED BY <5>1, <5>2
      <4> QED BY <4>3 DEF LockBack
    <3> QED BY <3>1, <3>2
  <2>3. CASE RotateInactive(r) \/ RotateAbort(r) \/ \E s \in Tokens : RotateCommit(r, s)
    <3>1. pc[r] = "claimed" /\ lock' = [lock EXCEPT ![loc[r].token] = NoRequest]
      BY <2>3 DEF RotateInactive, RotateAbort, RotateCommit
    <3>2. \E p, l : Goto(r, p, l)
      BY <2>3 DEF RotateInactive, RotateAbort, RotateCommit, Answer
    <3> QED BY <1>1, <1>2, <3>1, <3>2, LockReleased
  <2> QED BY <1>5, <2>1, <2>2, <2>3 DEF Step
<1>6. ASSUME NEW u \in Users, SetActive(u) PROVE UNCHANGED <<lock, pc, loc>>
  BY <1>6 DEF SetActive
<1>7. ASSUME NEW t \in Tokens, NEW f \in Families, NEW u \in Users, NEW c \in Clients,
             MintRefreshToken(t, f, u, c)
      PROVE  UNCHANGED <<lock, pc, loc>>
  BY <1>7 DEF MintRefreshToken
<1>8. Tick => UNCHANGED <<lock, pc, loc>>
  BY DEF Tick
<1>9. UNCHANGED vars => UNCHANGED <<lock, pc, loc>>
  BY DEF vars
<1> QED BY <1>3, <1>4, <1>5, <1>6, <1>7, <1>8, <1>9 DEF Next

(* The rows a call waits for: that of its conditional update or its delete, *)
(* or those of the family it deletes.                                      *)
WaitsFor(r) ==
    CASE pc[r] \in {"claim", "deleteExpired"} -> {loc[r].token}
      [] pc[r] = "deleting" -> loc[r].found
      [] OTHER -> {}

(* Nobody waits for one who waits: the row a call waits for is locked by a *)
(* call that waits for none, and that can roll back at once.               *)
NoChainOfWaiters ==
    \A r \in Requests : \A t \in WaitsFor(r) :
        lock[t] # NoRequest =>
            /\ lock[t] \in Requests \ {r} /\ WaitsFor(lock[t]) = {}
            /\ pc[lock[t]] = "claimed" /\ loc[lock[t]].token = t

(* What EveryRequestEnds rests on: the calls of the token endpoints wait   *)
(* for the row locks of one another's transactions, but in no chain and so *)
(* in no circle, for a transaction claims one row and waits no more then.  *)
THEOREM NobodyWaitsForAWaiter == Spec => []NoChainOfWaiters
<1>1. Init => LockBack
  BY DEF Init, LockBack
<1>2. IInv /\ LockBack => NoChainOfWaiters
  <2> SUFFICES ASSUME IInv, LockBack, NEW r \in Requests, NEW t \in WaitsFor(r), lock[t] # NoRequest
               PROVE  /\ lock[t] \in Requests \ {r} /\ WaitsFor(lock[t]) = {}
                      /\ pc[lock[t]] = "claimed" /\ loc[lock[t]].token = t
    BY DEF NoChainOfWaiters
  <2>1. pc[r] \in {"claim", "deleteExpired", "deleting"}
    BY DEF WaitsFor
  <2>2. t \in Tokens
    <3>1. loc[r] \in Locals /\ loc[r].token \in Tokens
      BY <2>1 DEF IInv, TypeOK, RequestOK, EntryOK
    <3>2. WaitsFor(r) \subseteq {loc[r].token} \cup loc[r].found
      BY <2>1 DEF WaitsFor
    <3> QED BY <3>1, <3>2 DEF Locals
  <2>3. lock[t] \in Requests /\ pc[lock[t]] = "claimed" /\ loc[lock[t]].token = t
    BY <2>2 DEF IInv, TypeOK, LockBack
  <2>4. lock[t] # r /\ WaitsFor(lock[t]) = {}
    BY <2>1, <2>3 DEF WaitsFor
  <2> QED BY <2>3, <2>4
<1> QED BY <1>1, <1>2, InitInv, NextInv, NextLockBack, PTL DEF Spec
=============================================================================
