------------------------------- MODULE SignIn -------------------------------
(***************************************************************************)
(* What is good for one sign-in only: the state, the authorization code    *)
(* and the client of an MCP sign-in (server/src/mcp/oauth-provider.ts) and *)
(* the magic link of an e-mail (server/src/routes/auth.ts).                *)
(*                                                                         *)
(* States and codes are entries of maps in memory: the code deletes them   *)
(* before its first await, and a restart forgets them all.  A link is a    *)
(* row of the database, which is read, checked and marked by statements of *)
(* their own.  A client is entered in memory at once and in the database   *)
(* when it gets round to it.  A restart empties the memory and asks the    *)
(* database for the clients, without waiting: what the answer holds then   *)
(* replaces what has been registered meanwhile, and a query that fails is  *)
(* only logged.                                                            *)
(*                                                                         *)
(* Addresses, rate limits, PKCE and what the account of a user goes        *)
(* through are left out; an account may always be refused.                 *)
(***************************************************************************)
EXTENDS Naturals

CONSTANTS Clients, Attempts, Links, Slots, NoClient, NoThing, MaxTries

VARIABLES
    known, storing, stored,  \* clients in memory, on their way, in the database
    reload,    \* how far loadMcpOAuthClients is
    rows,      \* the clients it has read
    settled,   \* history: the clients the database knew at the last restart
    auth,      \* where an attempt to sign in at Google stands
    client,    \* the client it is for
    link,      \* where a magic link stands
    expired,   \* attempts whose code, and links that, are too old
    pc, thing, \* statement of a request, and the attempt or link it is about
    granted,   \* history: what has been granted for an attempt or a link
    contested, \* history: links that two requests redeemed at a time
    tries      \* number of requests with a code or a link so far

reloading == <<reload, rows, settled>>
clients == <<known, storing, stored, reloading>>
requests == <<pc, thing>>
vars == <<clients, auth, client, link, expired, requests, granted, contested, tries>>

AuthState == {"none", "pending", "google", "code", "spent", "lost"}
LinkState == {"none", "sent", "used"}
PCs == {"idle", "mint", "mark", "login"}

TypeOK ==
    /\ \A cs \in {known, storing, stored, rows, settled} : cs \subseteq Clients
    /\ reload \in {"asked", "read", "done", "failed"}
    /\ auth \in [Attempts -> AuthState]
    /\ client \in [Attempts -> Clients \cup {NoClient}]
    /\ link \in [Links -> LinkState]
    /\ expired \subseteq Attempts \cup Links
    /\ pc \in [Slots -> PCs]
    /\ thing \in [Slots -> Attempts \cup Links \cup {NoThing}]
    /\ granted \in [Attempts \cup Links -> 0 .. MaxTries]
    /\ contested \subseteq Links
    /\ tries \in 0 .. MaxTries

(* The server has just been started for the first time. *)
Init ==
    /\ known = {} /\ storing = {} /\ stored = {}
    /\ reload = "asked" /\ rows = {} /\ settled = {}
    /\ auth = [a \in Attempts |-> "none"]
    /\ client = [a \in Attempts |-> NoClient]
    /\ link = [l \in Links |-> "none"]
    /\ expired = {}
    /\ pc = [s \in Slots |-> "idle"]
    /\ thing = [s \in Slots |-> NoThing]
    /\ granted = [x \in Attempts \cup Links |-> 0]
    /\ contested = {}
    /\ tries = 0

-----------------------------------------------------------------------------
Begin(s, at, x) ==
    /\ pc[s] = "idle" /\ tries < MaxTries
    /\ tries' = tries + 1
    /\ pc' = [pc EXCEPT ![s] = at]
    /\ thing' = [thing EXCEPT ![s] = x]

Goto(s, at) == pc' = [pc EXCEPT ![s] = at] /\ UNCHANGED thing

End(s) ==
    /\ pc' = [pc EXCEPT ![s] = "idle"]
    /\ thing' = [thing EXCEPT ![s] = NoThing]

Grant(x) == granted' = [granted EXCEPT ![x] = @ + 1]

(* registerClient answers before the client is stored ...                  *)
RegisterClient(c) ==
    /\ c \notin known \cup storing \cup stored
    /\ known' = known \cup {c}
    /\ storing' = storing \cup {c}
    /\ UNCHANGED <<stored, reloading, auth, client, link, expired, requests, granted, contested,
                   tries>>

(* ... which may fail, and nobody notices. *)
StoreClient(c) ==
    /\ c \in storing
    /\ storing' = storing \ {c}
    /\ stored' \in {stored, stored \cup {c}}
    /\ UNCHANGED <<known, reloading, auth, client, link, expired, requests, granted, contested,
                   tries>>

(* authorize keeps the state and redirects to Google. *)
Authorize(a, c) ==
    /\ c \in known /\ auth[a] = "none"
    /\ auth' = [auth EXCEPT ![a] = "pending"]
    /\ client' = [client EXCEPT ![a] = c]
    /\ UNCHANGED <<clients, link, expired, requests, granted, contested, tries>>

(* handleGoogleCallback: the state is good for one call ...                *)
Callback(a) ==
    /\ auth[a] = "pending"
    /\ auth' = [auth EXCEPT ![a] = "google"]
    /\ UNCHANGED <<clients, client, link, expired, requests, granted, contested, tries>>

(* ... and when Google has told who it is there is a code, or an error.    *)
MakeCode(a) ==
    /\ auth[a] = "google"
    /\ auth' \in {[auth EXCEPT ![a] = st] : st \in {"code", "lost"}}
    /\ UNCHANGED <<clients, client, link, expired, requests, granted, contested, tries>>

(* Five minutes have gone by, or the lifetime of a link. *)
GrowOld(x) ==
    /\ x \notin expired
    /\ \/ x \in Attempts /\ auth[x] = "code"
       \/ x \in Links /\ link[x] = "sent"
    /\ expired' = expired \cup {x}
    /\ UNCHANGED <<clients, auth, client, link, requests, granted, contested, tries>>

(* Mutant: the code is deleted when the tokens are there. *)
ExchangeThenDelete(s, a, c) ==
    /\ c \in known /\ auth[a] = "code" /\ client[a] = c
    /\ a \notin expired
    /\ Begin(s, "mint", a)
    /\ UNCHANGED <<clients, auth, client, link, expired, granted, contested>>

(* exchangeAuthorizationCode: an old code is deleted; one of another       *)
(* client stays; a good one is deleted before anything is awaited.         *)
ExchangeCode(s, a, c) ==
    /\ c \in known /\ auth[a] = "code"
    /\ \/ /\ a \in expired
          /\ auth' = [auth EXCEPT ![a] = "lost"]
          /\ UNCHANGED <<requests, tries>>
       \/ /\ a \notin expired /\ client[a] = c
          /\ auth' = [auth EXCEPT ![a] = "spent"]
          /\ Begin(s, "mint", a)
    /\ UNCHANGED <<clients, client, link, expired, granted, contested>>

(* The user is found, and tokens of a new family are made; or not.         *)
MintTokens(s) ==
    /\ pc[s] = "mint"
    /\ Grant(thing[s]) \/ UNCHANGED granted
    /\ End(s)
    /\ UNCHANGED <<clients, auth, client, link, expired, contested, tries>>

(* POST /auth/email/request: a row and a mail. *)
RequestLink(l) ==
    /\ link[l] = "none"
    /\ link' = [link EXCEPT ![l] = "sent"]
    /\ UNCHANGED <<clients, auth, client, expired, requests, granted, contested, tries>>

(* GET /auth/email/verify reads the row: neither used nor too old ...      *)
VerifyLink(s, l) ==
    /\ link[l] = "sent" /\ l \notin expired
    /\ Begin(s, "mark", l)
    /\ contested' = contested \cup
         (IF \E q \in Slots : pc[q] = "mark" /\ thing[q] = l THEN {l} ELSE {})
    /\ UNCHANGED <<clients, auth, client, link, expired, granted>>

(* ... marks it used, whether or not it is by now ...                      *)
MarkUsed(s) ==
    /\ pc[s] = "mark"
    /\ link' = [link EXCEPT ![thing[s]] = "used"]
    /\ Goto(s, "login")
    /\ UNCHANGED <<clients, auth, client, expired, granted, contested, tries>>

(* ... and signs the user in, if the account allows it. *)
Login(s) ==
    /\ pc[s] = "login"
    /\ Grant(thing[s]) \/ UNCHANGED granted
    /\ End(s)
    /\ UNCHANGED <<clients, auth, client, link, expired, contested, tries>>

(* A statement fails. *)
Fail(s) ==
    /\ pc[s] # "idle"
    /\ End(s)
    /\ UNCHANGED <<clients, auth, client, link, expired, granted, contested, tries>>

(* The maps are empty, and the clients are asked for. *)
Restart ==
    /\ known' = {} /\ storing' = {} /\ UNCHANGED stored
    /\ reload' = "asked" /\ rows' = {} /\ settled' = stored
    /\ auth' = [a \in Attempts |->
                  IF auth[a] \in {"pending", "google", "code"} THEN "lost" ELSE auth[a]]
    /\ pc' = [s \in Slots |-> "idle"]
    /\ thing' = [s \in Slots |-> NoThing]
    /\ UNCHANGED <<client, link, expired, granted, contested, tries>>

others == <<auth, client, link, expired, requests, granted, contested, tries>>

(* The query of loadMcpOAuthClients is answered ... *)
ReadClients ==
    /\ reload = "asked"
    /\ reload' = "read" /\ rows' = stored
    /\ UNCHANGED <<known, storing, stored, settled, others>>

(* ... and the map is cleared and filled with the rows. *)
LoadClients ==
    /\ reload = "read"
    /\ reload' = "done" /\ rows' = {}
    /\ known' = rows
    /\ UNCHANGED <<storing, stored, settled, others>>

(* The query fails; the server goes on. *)
ReloadFails ==
    /\ reload = "asked"
    /\ reload' = "failed"
    /\ UNCHANGED <<known, storing, stored, rows, settled, others>>

Next ==
    \/ \E c \in Clients : RegisterClient(c) \/ StoreClient(c)
    \/ \E a \in Attempts, c \in Clients : Authorize(a, c)
    \/ \E a \in Attempts : Callback(a) \/ MakeCode(a)
    \/ \E x \in Attempts \cup Links : GrowOld(x)
    \/ \E s \in Slots, a \in Attempts, c \in Clients : ExchangeCode(s, a, c)
    \/ \E l \in Links : RequestLink(l)
    \/ \E s \in Slots, l \in Links : VerifyLink(s, l)
    \/ \E s \in Slots : MintTokens(s) \/ MarkUsed(s) \/ Login(s) \/ Fail(s)
    \/ Restart \/ ReadClients \/ LoadClients \/ ReloadFails

Spec == Init /\ [][Next]_vars

-----------------------------------------------------------------------------
(* Once means once.  However many callbacks, exchanges and restarts there  *)
(* are, a sign-in at Google gives one family of tokens at most, and a link *)
(* one session, unless two requests had read it before either marked it.   *)
(* A client that was in the database at a restart is known again when the  *)
(* reload is done.  Until then, or if it fails, it is not; and a client    *)
(* that registers while the reload is under way may be forgotten till the  *)
(* next restart, or for good.                                              *)
OnceMeansOnce ==
    /\ \A a \in Attempts : granted[a] <= 1 /\ (granted[a] = 1 => auth[a] = "spent")
    /\ \A l \in Links \ contested : granted[l] <= 1 /\ (granted[l] = 1 => link[l] = "used")
    /\ reload = "done" => settled \subseteq known
=============================================================================
