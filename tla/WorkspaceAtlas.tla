--------------------------- MODULE WorkspaceAtlas ---------------------------
(***************************************************************************)
(* The workspace atlas of one tenant: JSON files compiled from the hub     *)
(* (server/src/workspaceAtlas: hubListener, compiler, store, rebuildState, *)
(* startupWarm).                                                           *)
(*                                                                         *)
(* Most changes of the hub are notified after their write; imports and     *)
(* assignments are not.  The notification re-arms the tenant's debounce    *)
(* timer; the timer, the MCP tool tymio_rebuild_workspace_atlas and the    *)
(* start of the server begin a compile.  Nothing keeps compiles of one     *)
(* tenant apart: "Compiles" says how many may overlap.  Each await of a    *)
(* compile is one action.  The hub is abstracted to the set of its objects *)
(* and a count of its changes, which also serves as the clock of the time  *)
(* stamps.  Compiles may overlap and fail and the server may restart at    *)
(* any point; "mishaps" remembers which of the three has happened, and     *)
(* each property says which of them it survives.                           *)
(***************************************************************************)
EXTENDS Naturals

CONSTANTS
    Objects,    \* hub objects with a shard file of their own
    Compiles,   \* slots for concurrent compiles
    NoIndex,    \* there is no workspace-atlas.json
    Torn,       \* workspace-atlas.json is truncated and does not parse
    MaxRev      \* bound on the changes of the hub, for TLC

ASSUME AtlasAssumption ==
    /\ MaxRev \in Nat
    /\ NoIndex # Torn

(* What a compile has read: the objects, sourceMaxUpdatedAt (source) and   *)
(* materializedAt (made).  The index file keeps the three.                 *)
Snapshot == [objects: SUBSET Objects, source: Nat, made: Nat]

ASSUME IndexAssumption == NoIndex \notin Snapshot /\ Torn \notin Snapshot

VARIABLES
    hub,        \* the objects in the hub
    rev,        \* number of changes the hub has seen, from 1
    owed,       \* history: the last of them that a compile is due for
    unnotified, \* changes written but not notified yet
    timer,      \* the tenant's debounce timer is armed
    warming,    \* warmMissingWorkspaceAtlases has not come to the tenant yet
    pending, compiling, lastError,  \* the flags of rebuildState
    index,      \* workspace-atlas.json
    shards,     \* per object the revision of its shard file, 0 if none
    pc,         \* the await each compile stands at
    by,         \* who started the compile
    got,        \* what the compile has read
    todo,       \* shards it has yet to write, and then to unlink
    readRev,    \* history: the latest revision that a compile has read
    mishaps     \* history: which mishaps have happened so far

flags == <<pending, compiling, lastError>>
hubState == <<hub, rev, owed, unnotified>>
files == <<index, shards>>
vars == <<hubState, timer, warming, flags, files, pc, by, got, todo, readRev, mishaps>>

PCs == {"idle", "query", "stamp", "shards", "index", "writing", "list", "unlink"}

Mishaps == {"overlap", "failure", "restart"}

Nothing == [objects |-> {}, source |-> 0, made |-> 0]

TypeOK ==
    /\ hub \in SUBSET Objects /\ rev \in Nat /\ owed \in Nat /\ unnotified \in Nat
    /\ timer \in BOOLEAN /\ warming \in BOOLEAN
    /\ pending \in BOOLEAN /\ compiling \in BOOLEAN /\ lastError \in BOOLEAN
    /\ index \in Snapshot \cup {NoIndex, Torn}
    /\ shards \in [Objects -> Nat]
    /\ pc \in [Compiles -> PCs]
    /\ by \in [Compiles -> {"listener", "tool"}]
    /\ got \in [Compiles -> Snapshot]
    /\ todo \in [Compiles -> SUBSET Objects]
    /\ readRev \in Nat
    /\ mishaps \in SUBSET Mishaps

(* A server that starts over an empty data directory. *)
Init ==
    /\ hub \in SUBSET Objects /\ rev = 1 /\ owed = 1 /\ unnotified = 0
    /\ timer = FALSE /\ warming = TRUE
    /\ pending = FALSE /\ compiling = FALSE /\ lastError = FALSE
    /\ index = NoIndex /\ shards = [o \in Objects |-> 0]
    /\ pc = [c \in Compiles |-> "idle"]
    /\ by = [c \in Compiles |-> "tool"]
    /\ got = [c \in Compiles |-> Nothing]
    /\ todo = [c \in Compiles |-> {}]
    /\ readRev = 0
    /\ mishaps = {}

Running == {c \in Compiles : pc[c] # "idle"}

-----------------------------------------------------------------------------
(* The hub and its listener *)

Change ==
    /\ rev < MaxRev
    /\ hub' \in SUBSET Objects
    /\ rev' = rev + 1
    /\ owed' = rev + 1
    /\ unnotified' = unnotified + 1
    /\ UNCHANGED <<timer, warming, flags, files, pc, by, got, todo, readRev, mishaps>>

(* An import, or a change of assignments: the listener is not called. *)
ChangeSilently ==
    /\ rev < MaxRev
    /\ hub' \in SUBSET Objects
    /\ rev' = rev + 1
    /\ UNCHANGED <<owed, unnotified, timer, warming, flags, files, pc, by, got, todo, readRev,
                   mishaps>>

(* Mutant: the notification is counted although there was none. *)
NotifyUncounted ==
    /\ unnotified' = unnotified - 1
    /\ timer' = TRUE
    /\ pending' = TRUE
    /\ UNCHANGED <<hub, rev, owed, warming, compiling, lastError, files, pc, by, got, todo, readRev,
                   mishaps>>

(* Mutant: a compile under way is taken to cover the change. *)
NotifyUnlessCompiling ==
    /\ unnotified > 0
    /\ unnotified' = unnotified - 1
    /\ timer' = (timer \/ ~compiling)
    /\ pending' = TRUE
    /\ UNCHANGED <<hub, rev, owed, warming, compiling, lastError, files, pc, by, got, todo, readRev,
                   mishaps>>

(* notifyHubChange calls the listener: pending is marked and the debounce  *)
(* timer armed, or armed again.                                            *)
Notify ==
    /\ unnotified > 0
    /\ unnotified' = unnotified - 1
    /\ timer' = TRUE
    /\ pending' = TRUE
    /\ UNCHANGED <<hub, rev, owed, warming, compiling, lastError, files, pc, by, got, todo, readRev,
                   mishaps>>

markAtlasCompileStarted ==
    /\ pending' = FALSE
    /\ compiling' = TRUE
    /\ UNCHANGED lastError

Start(c, who) ==
    /\ pc[c] = "idle"
    /\ markAtlasCompileStarted
    /\ pc' = [pc EXCEPT ![c] = "query"]
    /\ by' = [by EXCEPT ![c] = who]
    /\ mishaps' = IF Running = {} THEN mishaps ELSE mishaps \cup {"overlap"}
    /\ UNCHANGED <<hubState, files, got, todo, readRev>>

(* The debounce timer fires: it is forgotten and compile is called. *)
TimerFire ==
    /\ timer
    /\ timer' = FALSE
    /\ \E c \in Compiles : Start(c, "listener")
    /\ UNCHANGED warming

(* The MCP tool tymio_rebuild_workspace_atlas. *)
Rebuild(c) == Start(c, "tool") /\ UNCHANGED <<timer, warming>>

(* The start of the server comes to the tenant: it compiles a missing      *)
(* index.  Reading a torn one throws, which is logged and passed over.     *)
Warm ==
    /\ warming
    /\ warming' = FALSE
    /\ IF index = NoIndex
       THEN \E c \in Compiles : Start(c, "tool") /\ UNCHANGED timer
       ELSE UNCHANGED <<hubState, timer, flags, files, pc, by, got, todo, readRev, mishaps>>

-----------------------------------------------------------------------------
(* compileWorkspaceAtlasForTenant *)

Goto(c, at) == pc' = [pc EXCEPT ![c] = at]
Elsewhere == <<hubState, timer, warming, by, mishaps>>

(* The queries; a change that lands among them is counted as after them. *)
Query(c) ==
    /\ pc[c] = "query"
    /\ Goto(c, "stamp")
    /\ got' = [got EXCEPT ![c] = [objects |-> hub, source |-> rev, made |-> 0]]
    /\ readRev' = rev
    /\ UNCHANGED <<Elsewhere, flags, files, todo>>

(* All results are in: materializedAt is taken. *)
Stamp(c) ==
    /\ pc[c] = "stamp"
    /\ Goto(c, "shards")
    /\ got' = [got EXCEPT ![c].made = rev]
    /\ todo' = [todo EXCEPT ![c] = got[c].objects]
    /\ UNCHANGED <<Elsewhere, flags, files, readRev>>

writeObjectShard(c) ==
    /\ pc[c] = "shards"
    /\ \E o \in todo[c] :
          /\ shards' = [shards EXCEPT ![o] = got[c].source]
          /\ todo' = [todo EXCEPT ![c] = @ \ {o}]
    /\ UNCHANGED <<Elsewhere, flags, index, pc, got, readRev>>

(* writeWorkspaceAtlas writes the file in place: first it is truncated. *)
IndexTruncate(c) ==
    /\ pc[c] = "shards" /\ todo[c] = {}
    /\ Goto(c, "writing")
    /\ index' = Torn
    /\ UNCHANGED <<Elsewhere, flags, shards, got, todo, readRev>>

IndexWrite(c) ==
    /\ pc[c] = "writing"
    /\ Goto(c, "list")
    /\ index' = got[c]
    /\ UNCHANGED <<Elsewhere, flags, shards, got, todo, readRev>>

(* Mutant: what to keep is read from the hub again. *)
CleanupListFresh(c) ==
    /\ pc[c] = "list"
    /\ Goto(c, "unlink")
    /\ todo' = [todo EXCEPT ![c] = {o \in Objects : shards[o] # 0} \ hub]
    /\ UNCHANGED <<Elsewhere, flags, files, got, readRev>>

(* Mutant: only shards that this compile has written are looked at. *)
CleanupListOwn(c) ==
    /\ pc[c] = "list"
    /\ Goto(c, "unlink")
    /\ todo' = [todo EXCEPT ![c] = {o \in Objects : shards[o] = got[c].source} \ got[c].objects]
    /\ UNCHANGED <<Elsewhere, flags, files, got, readRev>>

(* cleanupRemovedShards: readdir, then unlink of what was not read. *)
CleanupList(c) ==
    /\ pc[c] = "list"
    /\ Goto(c, "unlink")
    /\ todo' = [todo EXCEPT ![c] = {o \in Objects : shards[o] # 0} \ got[c].objects]
    /\ UNCHANGED <<Elsewhere, flags, files, got, readRev>>

CleanupUnlink(c) ==
    /\ pc[c] = "unlink"
    /\ \E o \in todo[c] :
          /\ shards[o] # 0
          /\ shards' = [shards EXCEPT ![o] = 0]
          /\ todo' = [todo EXCEPT ![c] = @ \ {o}]
    /\ UNCHANGED <<Elsewhere, flags, index, pc, got, readRev>>

End(c) ==
    /\ Goto(c, "idle")
    /\ got' = [got EXCEPT ![c] = Nothing]
    /\ todo' = [todo EXCEPT ![c] = {}]
    /\ by' = [by EXCEPT ![c] = "tool"]
    /\ UNCHANGED <<hubState, timer, warming, readRev>>

(* markAtlasCompileSucceeded *)
Succeed(c) ==
    /\ pc[c] = "unlink" /\ todo[c] = {}
    /\ compiling' = FALSE
    /\ pending' = FALSE
    /\ lastError' = FALSE
    /\ End(c)
    /\ UNCHANGED <<files, mishaps>>

(* Mutant: a failed compile leaves no error behind. *)
ThrowSilently(c) ==
    /\ compiling' = FALSE
    /\ UNCHANGED lastError
    /\ pending' = IF by[c] = "listener" THEN FALSE ELSE pending
    /\ End(c)
    /\ UNCHANGED files

(* markAtlasCompileFailed; the listener then clears pending, the tool and  *)
(* the warm-up do not.                                                     *)
Throw(c) ==
    /\ compiling' = FALSE
    /\ lastError' = TRUE
    /\ pending' = IF by[c] = "listener" THEN FALSE ELSE pending
    /\ End(c)
    /\ UNCHANGED files

(* A query or a file operation of the compile fails. *)
Fail(c) ==
    /\ pc[c] # "idle"
    /\ Throw(c)
    /\ mishaps' = mishaps \cup {"failure"}

-----------------------------------------------------------------------------

(* Only the files and the hub survive a restart.  A compile is due if the  *)
(* index is missing.                                                       *)
Restart ==
    /\ owed' = IF index = NoIndex THEN rev ELSE 0
    /\ unnotified' = 0 /\ timer' = FALSE /\ warming' = TRUE
    /\ pending' = FALSE /\ compiling' = FALSE /\ lastError' = FALSE
    /\ pc' = [c \in Compiles |-> "idle"]
    /\ by' = [c \in Compiles |-> "tool"]
    /\ got' = [c \in Compiles |-> Nothing]
    /\ todo' = [c \in Compiles |-> {}]
    /\ mishaps' = mishaps \cup {"restart"}
    /\ UNCHANGED <<hub, rev, files, readRev>>

Step(c) ==
    \/ Query(c) \/ Stamp(c) \/ writeObjectShard(c) \/ IndexTruncate(c) \/ IndexWrite(c)
    \/ CleanupList(c) \/ CleanupUnlink(c) \/ Succeed(c) \/ Fail(c)

Next ==
    \/ Change \/ ChangeSilently \/ Notify \/ TimerFire \/ Warm \/ Restart
    \/ \E c \in Compiles : Rebuild(c) \/ Step(c)

Spec == Init /\ [][Next]_vars

(* Handlers go on to notify, timers that are due fire whoever else         *)
(* compiles, and queries and file operations end.                          *)
FairSpec ==
    /\ Spec
    /\ WF_vars(Notify) /\ SF_vars(TimerFire) /\ SF_vars(Warm)
    /\ \A c \in Compiles : WF_vars(Step(c))

-----------------------------------------------------------------------------
(* What the user sees: GET /api/workspace-atlas *)

compiled == index \in Snapshot

isStale == compiled /\ index.made < index.source

(* GET of a torn index throws. *)
computeAtlasHealth ==
    CASE index = Torn -> "unreadable"
      [] index = NoIndex -> "incomplete"
      [] compiled /\ (pending \/ compiling) -> "rebuilding"
      [] compiled /\ ~pending /\ ~compiling /\ lastError -> "error"
      [] compiled /\ ~pending /\ ~compiling /\ ~lastError ->
            IF isStale THEN "stale" ELSE "current"

(* Nothing is under way or due. *)
Quiet ==
    Running = {} /\ ~timer /\ unnotified = 0 /\ ~warming

-----------------------------------------------------------------------------
(* Properties *)

(* No change that was notified is lost, however compiles overlap and       *)
(* whatever was changed silently: as long as no compile has read it, a     *)
(* notification, the timer, the warm-up or a compile that has not queried  *)
(* yet is due.  A compile that throws before its queries and a restart     *)
(* lose changes; a restart does not lose those that come after it.         *)
NoChangeLost ==
    mishaps \subseteq {"overlap", "restart"} /\ readRev < owed =>
        \/ unnotified > 0 \/ timer \/ warming
        \/ \E c \in Compiles : pc[c] = "query"

(* An atlas that is behind a notified change while nothing is under way or *)
(* due shows the failure that left it behind, until compiles overlap, and  *)
(* after a restart for the changes that come after it.                     *)
QuietIsFreshOrFailed ==
    mishaps \subseteq {"failure", "restart"} /\ Quiet /\ compiled /\ index.source < owed =>
        computeAtlasHealth = "error"

(* The index names no object without a shard file, at any moment of any    *)
(* compile, failed or cut off by a restart, until compiles overlap.        *)
IndexHasShards ==
    "overlap" \notin mishaps /\ compiled => \A o \in index.objects : shards[o] # 0

(* After a compile that succeeded the shard files are exactly those of the *)
(* index, of the same revision, until compiles overlap or the server       *)
(* restarts.                                                               *)
ShardsMatchIndex ==
    mishaps \subseteq {"failure"} /\ Running = {} /\ compiled /\ ~lastError =>
        shards = [o \in Objects |-> IF o \in index.objects THEN index.source ELSE 0]

(* The atlas is there again and again, and in the end for good as new as   *)
(* the last change that was notified.                                      *)
UpToDate == []<>compiled /\ <>[](compiled => index.source >= owed)

(* When the hub rests the atlas catches up, unless compiles overlap, fail  *)
(* or are cut off.                                                         *)
CatchesUp == [](mishaps = {}) => UpToDate

(* hubListener.ts: after hub changes the atlas of that tenant is rebuilt.  *)
(* Claimed without a word about compiles that overlap.                     *)
CatchesUpOverlapping == [](mishaps \subseteq {"overlap"}) => UpToDate
=============================================================================
