----------------------- MODULE WorkspaceAtlas_proofs -----------------------
(***************************************************************************)
(* Proofs about WorkspaceAtlas: types, the debounce loses no change        *)
(* however compiles overlap; and until they overlap the index names no     *)
(* object without a shard file, its shards are of its own compile, and an  *)
(* atlas at rest is fresh or its last compile has failed.                  *)
(***************************************************************************)
EXTENDS WorkspaceAtlas, TLAPS

LEMMA InitTypeOK == Init => TypeOK
  <1>1. Nothing \in Snapshot
    BY DEF Nothing, Snapshot
  <1> SUFFICES ASSUME Init PROVE TypeOK
    OBVIOUS
  <1>2. got \in [Compiles -> Snapshot]
    BY <1>1 DEF Init
  <1>3. pc \in [Compiles -> PCs] /\ by \in [Compiles -> {"listener", "tool"}]
        /\ todo \in [Compiles -> SUBSET Objects] /\ shards \in [Objects -> Nat]
    BY DEF Init, PCs
  <1> QED BY <1>2, <1>3 DEF Init, TypeOK

LEMMA NextTypeOK == TypeOK /\ [Next]_vars => TypeOK'
  <1> SUFFICES ASSUME TypeOK, [Next]_vars PROVE TypeOK'
    OBVIOUS
  <1> USE DEF TypeOK, Mishaps
  <1>0. Nothing \in Snapshot /\ [objects |-> hub, source |-> rev, made |-> 0] \in Snapshot
    BY DEF Nothing, Snapshot
  <1>1. CASE Change \/ ChangeSilently
    <2>1. CASE Change
      BY <2>1 DEF Change, flags, files
    <2>2. CASE ChangeSilently
      BY <2>2 DEF ChangeSilently, flags, files
    <2> QED BY <1>1, <2>1, <2>2
  <1>2. CASE Notify
    BY <1>2 DEF Notify, files
  <1>3. ASSUME NEW c \in Compiles, NEW who \in {"listener", "tool"}, Start(c, who),
               timer' \in BOOLEAN, warming' \in BOOLEAN
        PROVE  TypeOK'
    BY <1>3 DEF Start, markAtlasCompileStarted, hubState, files, PCs
  <1>4. CASE TimerFire
    BY <1>3, <1>4 DEF TimerFire
  <1>5. CASE Warm
    <2>1. CASE index = NoIndex
      BY <1>3, <1>5, <2>1 DEF Warm
    <2>2. CASE index # NoIndex
      BY <1>5, <2>2 DEF Warm, hubState, flags, files
    <2> QED BY <2>1, <2>2
  <1>6. CASE Restart
    BY <1>0, <1>6 DEF Restart, files, PCs
  <1>7. ASSUME NEW c \in Compiles, Rebuild(c) PROVE TypeOK'
    BY <1>3, <1>7 DEF Rebuild
  <1>8. ASSUME NEW c \in Compiles, Step(c) PROVE TypeOK'
    <2> USE DEF Elsewhere, Goto, flags, files, hubState, PCs
    <2>1. CASE Query(c)
      BY <1>0, <2>1 DEF Query
    <2>2. CASE Stamp(c)
      <3>1. [got[c] EXCEPT !.made = rev] \in Snapshot /\ got[c].objects \in SUBSET Objects
        BY DEF Snapshot
      <3>2. got' = [got EXCEPT ![c] = [got[c] EXCEPT !.made = rev]]
        BY <2>2 DEF Stamp
      <3> QED BY <2>2, <3>1, <3>2 DEF Stamp
    <2>3. CASE writeObjectShard(c)
      <3>1. got[c].source \in Nat
        BY DEF Snapshot
      <3> QED BY <2>3, <3>1 DEF writeObjectShard
    <2>4. CASE IndexTruncate(c) \/ IndexWrite(c)
      <3>1. index' \in Snapshot \cup {NoIndex, Torn} /\ pc' \in [Compiles -> PCs]
        BY <2>4 DEF IndexTruncate, IndexWrite
      <3> QED BY <2>4, <3>1 DEF IndexTruncate, IndexWrite
    <2>5. CASE CleanupList(c)
      BY <2>5 DEF CleanupList
    <2>6. CASE CleanupUnlink(c)
      BY <2>6 DEF CleanupUnlink
    <2>7. CASE Succeed(c) \/ Fail(c)
      <3>1. /\ pc' \in [Compiles -> PCs] /\ by' \in [Compiles -> {"listener", "tool"}]
            /\ got' \in [Compiles -> Snapshot] /\ todo' \in [Compiles -> SUBSET Objects]
        <4>1. End(c)
          BY <2>7 DEF Succeed, Fail, Throw
        <4>2. got' \in [Compiles -> Snapshot]
          BY <1>0, <4>1 DEF End
        <4> QED BY <4>1, <4>2 DEF End
      <3>2. /\ pending' \in BOOLEAN /\ compiling' \in BOOLEAN /\ lastError' \in BOOLEAN
            /\ mishaps' \in SUBSET Mishaps
            /\ UNCHANGED <<hubState, timer, warming, files, readRev>>
        BY <2>7 DEF Succeed, Fail, Throw, End
      <3> QED BY <3>1, <3>2
    <2> QED BY <1>8, <2>1, <2>2, <2>3, <2>4, <2>5, <2>6, <2>7 DEF Step
  <1>9. CASE UNCHANGED vars
    BY <1>9 DEF vars, hubState, flags, files
  <1> QED BY <1>1, <1>2, <1>4, <1>5, <1>6, <1>7, <1>8, <1>9 DEF Next

(* Every variable of the atlas keeps its type. *)
THEOREM TypeCorrect == Spec => []TypeOK
  BY InitTypeOK, NextTypeOK, PTL DEF Spec

-----------------------------------------------------------------------------
(* No change is lost, whatever the number of overlapping compiles *)

(* The warm-up is due only for a server that found no index at its start:  *)
(* until a compile of it has queried there is none, so it does compile.    *)
WarmDue == warming /\ index = NoIndex /\ \A c \in Compiles : pc[c] \in {"idle", "query"}

DueInv ==
    /\ owed <= rev
    /\ mishaps \subseteq {"overlap", "restart"} /\ readRev < owed =>
          \/ unnotified > 0 \/ timer \/ WarmDue
          \/ \E c \in Compiles : pc[c] = "query"

LEMMA InitDueInv == Init => DueInv
  BY DEF Init, DueInv, WarmDue

LEMMA NextDueInv ==
    TypeOK /\ DueInv /\ [Next]_vars => DueInv'
  <1> SUFFICES ASSUME TypeOK, DueInv, [Next]_vars PROVE DueInv'
    OBVIOUS
  <1> USE DEF DueInv, WarmDue
  <1>1. CASE Change \/ ChangeSilently
    BY <1>1 DEF Change, ChangeSilently, files, flags, TypeOK
  <1>2. CASE Notify
    BY <1>2 DEF Notify, files, TypeOK
  <1>3. ASSUME NEW c \in Compiles, NEW who, Start(c, who) PROVE DueInv'
    <2>1. /\ pc'[c] = "query" /\ UNCHANGED <<rev, owed, readRev>> /\ mishaps \subseteq mishaps'
          /\ \A d \in Compiles : pc'[d] \in {pc[d], "query"}
      BY <1>3 DEF Start, files, hubState, TypeOK
    <2> QED BY <2>1
  <1>4. CASE TimerFire
    BY <1>3, <1>4 DEF TimerFire
  <1>5. CASE Warm
    <2>1. CASE index = NoIndex
      BY <1>3, <1>5, <2>1 DEF Warm
    <2>2. CASE index # NoIndex
      BY <1>5, <2>2 DEF Warm, hubState, files
    <2> QED BY <2>1, <2>2
  <1>6. ASSUME NEW c \in Compiles, Rebuild(c) PROVE DueInv'
    BY <1>3, <1>6 DEF Rebuild
  <1>7. ASSUME NEW c \in Compiles, Query(c) PROVE DueInv'
    BY <1>7 DEF Query, Elsewhere, hubState, TypeOK
  <1>8. ASSUME NEW c \in Compiles, Step(c), ~Query(c) PROVE DueInv'
    <2>1. \/ /\ pc[c] \notin {"idle", "query"}
             /\ UNCHANGED <<rev, owed, unnotified, timer, readRev>>
             /\ mishaps' = mishaps
             /\ \A d \in Compiles : d # c => pc'[d] = pc[d]
          \/ mishaps' = mishaps \cup {"failure"} /\ UNCHANGED <<rev, owed>>
      BY <1>8 DEF TypeOK, Elsewhere, hubState, Goto, Step, Stamp, writeObjectShard,
                  IndexTruncate, IndexWrite, CleanupList, CleanupUnlink, Succeed, Fail, Throw, End
    <2> QED BY <2>1
  <1>9. CASE UNCHANGED vars
    BY <1>9 DEF vars, hubState, files
  <1>10. CASE Restart
    BY <1>10 DEF Restart, files, TypeOK
  <1> QED BY <1>1, <1>2, <1>4, <1>5, <1>6, <1>7, <1>8, <1>9, <1>10 DEF Next

(* Until a compile throws, a change of the hub that was notified since the *)
(* server started is always on its way into a compile's queries, for any   *)
(* number of overlapping compiles and whatever changes silently.           *)
THEOREM DebounceLosesNothing == Spec => []NoChangeLost
  <1>1. Init => TypeOK /\ DueInv
    BY InitTypeOK, InitDueInv
  <1>2. TypeOK /\ DueInv /\ [Next]_vars => (TypeOK /\ DueInv)'
    BY NextTypeOK, NextDueInv
  <1>3. DueInv => NoChangeLost
    BY DEF DueInv, WarmDue, NoChangeLost
  <1> QED BY <1>1, <1>2, <1>3, PTL DEF Spec

-----------------------------------------------------------------------------
(* The index and the shards, until compiles overlap *)

(* How far the compile under way has come with its files. *)
FilesOK(c) ==
    /\ pc[c] \notin {"idle", "query"} => got[c].source > 0
    /\ pc[c] = "shards" => \A o \in got[c].objects \ todo[c] : shards[o] # 0
    /\ pc[c] \in {"writing", "list", "unlink"} => \A o \in got[c].objects : shards[o] # 0
    /\ pc[c] = "writing" => index = Torn
    /\ pc[c] \in {"list", "unlink"} => index = got[c]
    /\ pc[c] = "unlink" => todo[c] \cap got[c].objects = {}

ShardInv ==
    /\ rev > 0
    /\ "overlap" \notin mishaps =>
          /\ IndexHasShards
          /\ \A c \in Compiles : FilesOK(c)
          /\ \A c, d \in Running : c = d

LEMMA InitShardInv == Init => ShardInv
  BY AtlasAssumption, IndexAssumption DEF Init, ShardInv, FilesOK, IndexHasShards, compiled, Running

LEMMA NextShardInv == TypeOK /\ ShardInv /\ [Next]_vars => ShardInv'
  <1> SUFFICES ASSUME TypeOK, ShardInv, [Next]_vars PROVE ShardInv'
    OBVIOUS
  <1> USE DEF ShardInv, Running
  <1>1. CASE Change \/ ChangeSilently \/ Notify
    BY <1>1 DEF Change, ChangeSilently, Notify, files, flags, TypeOK, IndexHasShards, compiled, FilesOK
  <1>2. ASSUME NEW c \in Compiles, NEW who, Start(c, who) PROVE ShardInv'
    <2>1. /\ pc' = [pc EXCEPT ![c] = "query"]
          /\ UNCHANGED <<rev, index, shards, got, todo>>
          /\ Running # {} => "overlap" \in mishaps'
          /\ mishaps \subseteq mishaps'
      BY <1>2 DEF Start, files, hubState
    <2> SUFFICES ASSUME "overlap" \notin mishaps' PROVE ShardInv'
      BY <2>1
    <2>2. ASSUME NEW d \in Compiles PROVE pc[d] = "idle" /\ FilesOK(d)'
      BY <2>1, <2>2 DEF TypeOK, FilesOK
    <2> QED BY <2>1, <2>2 DEF IndexHasShards, compiled, TypeOK
  <1>3. CASE TimerFire
    BY <1>2, <1>3 DEF TimerFire
  <1>4. CASE Warm
    <2>1. CASE index = NoIndex
      BY <1>2, <1>4, <2>1 DEF Warm
    <2>2. CASE index # NoIndex
      BY <1>4, <2>2 DEF Warm, hubState, files, IndexHasShards, compiled, FilesOK
    <2> QED BY <2>1, <2>2
  <1>5. CASE Restart
    BY <1>5 DEF Restart, files, IndexHasShards, compiled, FilesOK
  <1>6. ASSUME NEW c \in Compiles, Rebuild(c) PROVE ShardInv'
    BY <1>2, <1>6 DEF Rebuild
  <1>7. ASSUME NEW c \in Compiles, Step(c) PROVE ShardInv'
    <2> USE DEF Elsewhere, Goto, flags, files, hubState
    <2> SUFFICES ASSUME "overlap" \notin mishaps' PROVE ShardInv'
      BY <1>7 DEF Step, Query, Stamp, writeObjectShard, IndexTruncate, IndexWrite,
                  CleanupList, CleanupUnlink, Succeed, Fail, Throw, End
    <2>0. /\ "overlap" \notin mishaps /\ pc[c] # "idle"
          /\ FilesOK(c) /\ got[c] \in Snapshot /\ got[c].source \in Nat
          /\ \A d \in Compiles : d # c => pc[d] = "idle" /\ pc'[d] = "idle" /\ FilesOK(d)'
      <3>1. pc[c] # "idle" /\ "overlap" \notin mishaps /\ \E at : pc' = [pc EXCEPT ![c] = at]
        <4> USE DEF Fail, Throw, End
        <4>1. CASE Query(c) \/ Stamp(c) \/ writeObjectShard(c)
          BY <4>1 DEF Query, Stamp, writeObjectShard, TypeOK
        <4>2. CASE IndexTruncate(c) \/ IndexWrite(c) \/ CleanupList(c) \/ CleanupUnlink(c)
          BY <4>2 DEF IndexTruncate, IndexWrite, CleanupList, CleanupUnlink, TypeOK
        <4>3. CASE Succeed(c) \/ Fail(c)
          BY <4>3 DEF Succeed
        <4> QED BY <1>7, <4>1, <4>2, <4>3 DEF Step
      <3>2. ASSUME NEW d \in Compiles, d # c
            PROVE  pc[d] = "idle" /\ pc'[d] = "idle" /\ FilesOK(d)'
        <4>1. pc[d] = "idle" /\ pc'[d] = pc[d]
          BY <3>1, <3>2 DEF TypeOK
        <4> QED BY <4>1 DEF FilesOK
      <3>3. got[c] \in Snapshot /\ got[c].source \in Nat
        BY DEF TypeOK, Snapshot
      <3> QED BY <3>1, <3>2, <3>3
    <2>1. CASE Query(c)
      <3>1. /\ pc'[c] = "stamp" /\ got'[c].source = rev /\ UNCHANGED <<rev, index, shards>>
        BY <2>1 DEF Query, TypeOK
      <3>2. FilesOK(c)'
        BY <3>1 DEF FilesOK
      <3> QED BY <2>0, <3>1, <3>2 DEF IndexHasShards, compiled
    <2>2. CASE Stamp(c)
      <3>1. /\ pc[c] = "stamp" /\ pc'[c] = "shards" /\ UNCHANGED <<rev, index, shards>>
            /\ got'[c] = [got[c] EXCEPT !.made = rev]
            /\ todo'[c] = got[c].objects
        BY <2>2 DEF Stamp, TypeOK
      <3>2. got'[c].source = got[c].source /\ got'[c].objects = got[c].objects
        BY <2>0, <3>1 DEF Snapshot
      <3>3. FilesOK(c)'
        BY <2>0, <3>1, <3>2 DEF FilesOK
      <3> QED BY <2>0, <3>1, <3>3 DEF IndexHasShards, compiled
    <2>3. CASE writeObjectShard(c)
      <3>1. PICK o \in todo[c] :
               /\ shards' = [shards EXCEPT ![o] = got[c].source]
               /\ todo' = [todo EXCEPT ![c] = @ \ {o}]
        BY <2>3 DEF writeObjectShard
      <3>2. pc[c] = "shards" /\ UNCHANGED <<rev, index, pc, got>>
        BY <2>3 DEF writeObjectShard
      <3>3. /\ o \in Objects /\ todo'[c] = todo[c] \ {o}
            /\ \A p \in Objects : shards'[p] = IF p = o THEN got[c].source ELSE shards[p]
        BY <3>1 DEF TypeOK
      <3>4. got[c].source > 0 /\ got[c].objects \subseteq Objects
        BY <2>0, <3>2 DEF FilesOK, Snapshot
      <3>5. FilesOK(c)'
        BY <2>0, <3>2, <3>3, <3>4 DEF FilesOK
      <3>6. IndexHasShards'
        BY <2>0, <3>2, <3>3, <3>4 DEF IndexHasShards, compiled, Snapshot
      <3> QED BY <2>0, <3>2, <3>5, <3>6
    <2>4. CASE IndexTruncate(c)
      <3>1. /\ pc[c] = "shards" /\ todo[c] = {} /\ pc'[c] = "writing" /\ index' = Torn
            /\ UNCHANGED <<rev, shards, got, todo>>
        BY <2>4 DEF IndexTruncate, TypeOK
      <3>2. FilesOK(c)'
        BY <2>0, <3>1 DEF FilesOK
      <3> QED BY <2>0, <3>1, <3>2, IndexAssumption DEF IndexHasShards, compiled
    <2>5. CASE IndexWrite(c)
      <3>1. /\ pc[c] = "writing" /\ pc'[c] = "list" /\ index' = got[c]
            /\ UNCHANGED <<rev, shards, got, todo>>
        BY <2>5 DEF IndexWrite, TypeOK
      <3>2. FilesOK(c)'
        BY <2>0, <3>1 DEF FilesOK
      <3>3. IndexHasShards'
        BY <2>0, <3>1 DEF IndexHasShards, FilesOK
      <3> QED BY <2>0, <3>1, <3>2, <3>3
    <2>6. CASE CleanupList(c)
      <3>1. /\ pc[c] = "list" /\ pc'[c] = "unlink" /\ UNCHANGED <<rev, index, shards, got>>
            /\ todo'[c] = {o \in Objects : shards[o] # 0} \ got[c].objects
        BY <2>6 DEF CleanupList, TypeOK
      <3>2. FilesOK(c)'
        BY <2>0, <3>1 DEF FilesOK
      <3> QED BY <2>0, <3>1, <3>2 DEF IndexHasShards, compiled
    <2>7. CASE CleanupUnlink(c)
      <3>1. PICK o \in todo[c] :
               /\ shards' = [shards EXCEPT ![o] = 0]
               /\ todo' = [todo EXCEPT ![c] = @ \ {o}]
        BY <2>7 DEF CleanupUnlink
      <3>2. pc[c] = "unlink" /\ UNCHANGED <<rev, index, pc, got>>
        BY <2>7 DEF CleanupUnlink
      <3>3. /\ todo'[c] = todo[c] \ {o}
            /\ \A p \in Objects : p # o => shards'[p] = shards[p]
        BY <3>1 DEF TypeOK
      <3>4. o \notin got[c].objects /\ got[c].objects \subseteq Objects /\ index = got[c]
        BY <2>0, <3>1, <3>2 DEF FilesOK, Snapshot
      <3>5. FilesOK(c)'
        BY <2>0, <3>2, <3>3, <3>4 DEF FilesOK
      <3>6. IndexHasShards'
        BY <2>0, <3>2, <3>3, <3>4 DEF IndexHasShards, compiled, FilesOK
      <3> QED BY <2>0, <3>2, <3>5, <3>6
    <2>8. CASE Succeed(c) \/ Fail(c)
      <3>1. pc'[c] = "idle" /\ UNCHANGED <<rev, index, shards>>
        BY <2>8 DEF Succeed, Fail, Throw, End, TypeOK
      <3>2. FilesOK(c)'
        BY <3>1 DEF FilesOK
      <3> QED BY <2>0, <3>1, <3>2 DEF IndexHasShards, compiled
    <2> QED BY <1>7, <2>1, <2>2, <2>3, <2>4, <2>5, <2>6, <2>7, <2>8 DEF Step
  <1>8. CASE UNCHANGED vars
    BY <1>8 DEF vars, hubState, files, IndexHasShards, compiled, FilesOK
  <1> QED BY <1>1, <1>3, <1>4, <1>5, <1>6, <1>7, <1>8 DEF Next

(* Until compiles overlap, an object the index names has its shard file at *)
(* every moment, although compiles fail and the server restarts between    *)
(* any two file operations.                                                *)
THEOREM IndexNamesFiles == Spec => []IndexHasShards
  <1>1. Init => TypeOK /\ ShardInv
    BY InitTypeOK, InitShardInv
  <1>2. TypeOK /\ ShardInv /\ [Next]_vars => (TypeOK /\ ShardInv)'
    BY NextTypeOK, NextShardInv
  <1>3. ShardInv => IndexHasShards
    BY DEF ShardInv, IndexHasShards
  <1> QED BY <1>1, <1>2, <1>3, PTL DEF Spec

-----------------------------------------------------------------------------
(* Compiles that do not overlap, whether they fail or not *)

Exactly(objects, source) == [o \in Objects |-> IF o \in objects THEN source ELSE 0]

(* Under way: what is written bears the revision read, and what is left    *)
(* over is to be unlinked.                                                 *)
CompileOK(c) ==
    /\ pc[c] = "shards" => \A o \in got[c].objects \ todo[c] : shards[o] = got[c].source
    /\ pc[c] \in {"writing", "list", "unlink"} =>
          \A o \in got[c].objects : shards[o] = got[c].source
    /\ pc[c] = "unlink" => \A o \in Objects : shards[o] # 0 => o \in got[c].objects \cup todo[c]

(* At rest: the files are those of one compile, or the last one failed.    *)
AtRest == compiled => lastError \/ shards = Exactly(index.objects, index.source)

CompileInv == mishaps \subseteq {"failure"} =>
    /\ \A c \in Compiles : CompileOK(c)
    /\ Running = {} => AtRest

LEMMA InitCompileInv == Init => CompileInv
  BY IndexAssumption DEF Init, CompileInv, CompileOK, AtRest, compiled, Running

LEMMA NextCompileInv == TypeOK /\ ShardInv /\ CompileInv /\ [Next]_vars => CompileInv'
  <1> SUFFICES ASSUME TypeOK, ShardInv, CompileInv, [Next]_vars, mishaps' \subseteq {"failure"}
               PROVE  /\ \A c \in Compiles : CompileOK(c)'
                      /\ Running' = {} => AtRest'
    BY DEF CompileInv
  <1> DEFINE Goal == /\ \A c \in Compiles : CompileOK(c)'
                     /\ Running' = {} => AtRest'
  <1> USE DEF Running
  <1>1. /\ \A o \in Objects : shards[o] \in Nat
        /\ rev \in Nat /\ unnotified \in Nat
        /\ \A c \in Compiles : /\ got[c] \in Snapshot /\ got[c].source \in Nat
                               /\ got[c].objects \subseteq Objects /\ todo[c] \subseteq Objects
    BY DEF TypeOK, Snapshot
  <1>2. index \in Snapshot => index.source \in Nat /\ index.objects \subseteq Objects
    BY DEF Snapshot
  <1>3. CASE Change \/ ChangeSilently
    <2>1. /\ mishaps \subseteq {"failure"}
          /\ UNCHANGED <<lastError, index, shards, pc, got, todo>>
      BY <1>3 DEF Change, ChangeSilently, flags, files
    <2> QED BY <2>1 DEF CompileInv, CompileOK, AtRest, compiled
  <1>4. CASE Notify
    <2>1. /\ mishaps \subseteq {"failure"}
          /\ UNCHANGED <<lastError, index, shards, pc, got, todo>>
      BY <1>4 DEF Notify, files
    <2> QED BY <2>1 DEF CompileInv, CompileOK, AtRest, compiled
  <1>5. ASSUME NEW c \in Compiles, NEW who, Start(c, who) PROVE Goal
    <2>1. /\ pc'[c] = "query"
          /\ \A d \in Compiles : pc'[d] \in {"idle", "query"}
      BY <1>5 DEF Start, markAtlasCompileStarted, TypeOK
    <2> QED BY <2>1 DEF CompileOK
  <1>6. CASE TimerFire
    BY <1>5, <1>6 DEF TimerFire
  <1>7. CASE Warm
    <2>1. CASE index = NoIndex
      BY <1>5, <1>7, <2>1 DEF Warm
    <2>2. CASE index # NoIndex
      BY <1>7, <2>2 DEF Warm, hubState, flags, files, CompileInv, CompileOK, AtRest, compiled
    <2> QED BY <2>1, <2>2
  <1>8. CASE Restart
    BY <1>8 DEF Restart
  <1>9. ASSUME NEW c \in Compiles, Rebuild(c) PROVE Goal
    BY <1>5, <1>9 DEF Rebuild
  <1>10. ASSUME NEW c \in Compiles, Step(c) PROVE Goal
    <2> USE DEF Elsewhere, Goto, flags, files, hubState
    <2>1. /\ mishaps \subseteq {"failure"} /\ pc[c] # "idle"
          /\ \A d \in Compiles : d # c => pc'[d] = pc[d]
      <3>1. CASE Query(c) \/ Stamp(c) \/ writeObjectShard(c)
        BY <3>1 DEF Query, Stamp, writeObjectShard, TypeOK
      <3>2. CASE IndexTruncate(c) \/ IndexWrite(c) \/ CleanupList(c) \/ CleanupUnlink(c)
        BY <3>2 DEF IndexTruncate, IndexWrite, CleanupList, CleanupUnlink, TypeOK
      <3>3. CASE Succeed(c) \/ Fail(c)
        BY <3>3 DEF Succeed, Fail, Throw, End, TypeOK
      <3> QED BY <1>10, <3>1, <3>2, <3>3 DEF Step
    <2>2. /\ FilesOK(c) /\ CompileOK(c)
          /\ \A d \in Compiles : d # c => pc'[d] = "idle"
      BY <1>1, <2>1 DEF ShardInv, CompileInv
    <2>3. \A d \in Compiles : d # c => CompileOK(d)'
      BY <2>2 DEF CompileOK
    <2>4. pc'[c] # "idle" /\ CompileOK(c)' => Goal
      BY <2>1, <2>2, <2>3
    <2>5. pc'[c] = "idle" /\ AtRest' => Goal
      BY <2>2, <2>3 DEF CompileOK
    <2> HIDE DEF Goal
    <2>6. CASE Query(c)
      <3>1. /\ pc'[c] = "stamp" /\ got'[c].source = rev
        BY <2>6 DEF Query, TypeOK
      <3>2. CompileOK(c)'
        BY <1>1, <2>1, <3>1 DEF CompileOK
      <3> QED BY <2>4, <3>1, <3>2
    <2>7. CASE Stamp(c)
      <3>1. /\ pc[c] = "stamp" /\ pc'[c] = "shards"
            /\ got'[c] = [got[c] EXCEPT !.made = rev] /\ todo'[c] = got[c].objects
        BY <2>7 DEF Stamp, TypeOK
      <3>2. got'[c].source = got[c].source /\ got'[c].objects = got[c].objects
        BY <1>1, <3>1 DEF Snapshot
      <3>3. CompileOK(c)'
        BY <2>1, <2>2, <3>1, <3>2 DEF CompileOK
      <3> QED BY <2>4, <3>1, <3>3
    <2>8. CASE writeObjectShard(c)
      <3>1. PICK o \in todo[c] : /\ shards' = [shards EXCEPT ![o] = got[c].source]
                                 /\ todo' = [todo EXCEPT ![c] = @ \ {o}]
        BY <2>8 DEF writeObjectShard
      <3>2. pc[c] = "shards" /\ UNCHANGED <<pc, got>>
        BY <2>8 DEF writeObjectShard
      <3>3. /\ todo'[c] = todo[c] \ {o}
            /\ \A p \in Objects : shards'[p] = IF p = o THEN got[c].source ELSE shards[p]
        BY <3>1 DEF TypeOK
      <3>4. CompileOK(c)'
        BY <1>1, <2>1, <2>2, <3>2, <3>3 DEF CompileOK
      <3> QED BY <2>1, <2>4, <3>2, <3>4
    <2>9. CASE IndexTruncate(c) \/ IndexWrite(c)
      <3>1. /\ \/ pc[c] = "shards" /\ todo[c] = {} /\ pc'[c] = "writing"
               \/ pc[c] = "writing" /\ pc'[c] = "list"
            /\ UNCHANGED <<shards, got, todo>>
        BY <2>9 DEF IndexTruncate, IndexWrite, TypeOK
      <3>2. CompileOK(c)'
        BY <2>1, <2>2, <3>1 DEF CompileOK
      <3> QED BY <2>4, <3>1, <3>2
    <2>10. CASE CleanupList(c)
      <3>1. /\ pc[c] = "list" /\ pc'[c] = "unlink" /\ UNCHANGED <<shards, got>>
            /\ todo'[c] = {o \in Objects : shards[o] # 0} \ got[c].objects
        BY <2>10 DEF CleanupList, TypeOK
      <3>2. CompileOK(c)'
        BY <2>1, <2>2, <3>1 DEF CompileOK
      <3> QED BY <2>4, <3>1, <3>2
    <2>11. CASE CleanupUnlink(c)
      <3>1. PICK o \in todo[c] : /\ shards' = [shards EXCEPT ![o] = 0]
                                 /\ todo' = [todo EXCEPT ![c] = @ \ {o}]
        BY <2>11 DEF CleanupUnlink
      <3>2. pc[c] = "unlink" /\ UNCHANGED <<pc, got>>
        BY <2>11 DEF CleanupUnlink
      <3>3. /\ todo'[c] = todo[c] \ {o} /\ o \notin got[c].objects
            /\ \A p \in Objects : shards'[p] = IF p = o THEN 0 ELSE shards[p]
        BY <2>2, <3>1, <3>2 DEF TypeOK, FilesOK
      <3>4. CompileOK(c)'
        BY <1>1, <2>1, <2>2, <3>2, <3>3 DEF CompileOK
      <3> QED BY <2>1, <2>4, <3>2, <3>4
    <2>12. CASE Succeed(c)
      <3>1. /\ pc[c] = "unlink" /\ todo[c] = {} /\ pc'[c] = "idle"
            /\ UNCHANGED <<index, shards>>
        BY <2>12 DEF Succeed, End, TypeOK
      <3>2. index = got[c]
        BY <2>2, <3>1 DEF FilesOK
      <3>3. shards = Exactly(index.objects, index.source)
        <4>1. \A o \in Objects : shards[o] = IF o \in index.objects THEN index.source ELSE 0
          BY <2>2, <3>1, <3>2 DEF CompileOK
        <4> QED BY <4>1 DEF Exactly, TypeOK
      <3>4. AtRest'
        BY <3>1, <3>3 DEF AtRest, Exactly
      <3> QED BY <2>5, <3>1, <3>4
    <2>13. CASE Fail(c)
      <3>1. pc'[c] = "idle" /\ lastError' = TRUE
        BY <2>13 DEF Fail, Throw, End, TypeOK
      <3>2. AtRest'
        BY <3>1 DEF AtRest
      <3> QED BY <2>5, <3>1, <3>2
    <2> QED
      BY <1>10, <2>6, <2>7, <2>8, <2>9, <2>10, <2>11, <2>12, <2>13 DEF Step, Goal
  <1>11. CASE UNCHANGED vars
    BY <1>11 DEF vars, hubState, flags, files, CompileInv, CompileOK, AtRest, compiled
  <1> QED BY <1>3, <1>4, <1>6, <1>7, <1>8, <1>9, <1>10, <1>11 DEF Next

(* A change that is owed and that a compile past its queries, or the index *)
(* at rest, does not have is on its way to a next compile, or the last one *)
(* has failed.                                                             *)
OnItsWay == timer \/ unnotified > 0

FreshInv == mishaps \subseteq {"failure", "restart"} =>
    /\ compiling => Running # {}
    /\ pending => timer
    /\ \A c \in Compiles :
          pc[c] \notin {"idle", "query"} /\ got[c].source < owed => OnItsWay
    /\ Running = {} /\ compiled /\ index.source < owed => lastError \/ OnItsWay

LEMMA InitFreshInv == Init => FreshInv
  BY IndexAssumption DEF Init, FreshInv, compiled, Running

LEMMA NextFreshInv == TypeOK /\ ShardInv /\ owed <= rev /\ FreshInv /\ [Next]_vars => FreshInv'
  <1> DEFINE Goal == /\ compiling' => Running' # {}
                     /\ pending' => timer'
                     /\ \A c \in Compiles :
                           pc'[c] \notin {"idle", "query"} /\ got'[c].source < owed' => OnItsWay'
                     /\ Running' = {} /\ compiled' /\ index'.source < owed' => lastError' \/ OnItsWay'
  <1> SUFFICES ASSUME TypeOK, ShardInv, owed <= rev, FreshInv, [Next]_vars,
                      mishaps' \subseteq {"failure", "restart"}
               PROVE  Goal
    BY DEF FreshInv
  <1> USE DEF Running, OnItsWay
  <1>1. rev \in Nat /\ owed \in Nat /\ unnotified \in Nat
    BY DEF TypeOK
  <1>2. CASE Change
    <2>1. /\ mishaps \subseteq {"failure", "restart"} /\ unnotified' > 0
          /\ UNCHANGED <<timer, pending, compiling, pc>>
      BY <1>1, <1>2 DEF Change, flags, files
    <2> QED BY <2>1 DEF FreshInv
  <1>3. CASE ChangeSilently \/ UNCHANGED vars
    <2>1. UNCHANGED <<mishaps, owed, unnotified, timer, pending, compiling, lastError, index, pc, got>>
      BY <1>3 DEF ChangeSilently, flags, files, hubState, vars
    <2> QED BY <2>1 DEF FreshInv, compiled
  <1>4. CASE Notify
    <2>1. /\ mishaps \subseteq {"failure", "restart"} /\ timer' = TRUE
          /\ UNCHANGED <<compiling, pc>>
      BY <1>4 DEF Notify, files
    <2> QED BY <2>1 DEF FreshInv
  <1>5. ASSUME NEW c \in Compiles, NEW who, Start(c, who) PROVE Goal
    <2>1. /\ pc'[c] = "query" /\ pending' = FALSE
          /\ \A d \in Compiles : pc'[d] \in {"idle", "query"}
      BY <1>5 DEF Start, markAtlasCompileStarted, TypeOK
    <2> QED BY <2>1
  <1>6. CASE TimerFire
    BY <1>5, <1>6 DEF TimerFire
  <1>7. CASE Warm
    <2>1. CASE index = NoIndex
      BY <1>5, <1>7, <2>1 DEF Warm
    <2>2. CASE index # NoIndex
      BY <1>7, <2>2 DEF Warm, hubState, flags, files, FreshInv, compiled
    <2> QED BY <2>1, <2>2
  <1>8. CASE Restart
    <2>1. /\ compiling' = FALSE /\ pending' = FALSE /\ index' = index
          /\ owed' = IF index = NoIndex THEN rev ELSE 0
          /\ \A c \in Compiles : pc'[c] = "idle"
      BY <1>8 DEF Restart, files
    <2>2. compiled' => index' \in Snapshot /\ index'.source \in Nat /\ index # NoIndex
      BY <2>1, IndexAssumption DEF compiled, Snapshot
    <2> QED BY <2>1, <2>2
  <1>9. ASSUME NEW c \in Compiles, Rebuild(c) PROVE Goal
    BY <1>5, <1>9 DEF Rebuild
  <1>10. ASSUME NEW c \in Compiles, Step(c) PROVE Goal
    <2> USE DEF Elsewhere, Goto, flags, files, hubState
    <2>1. /\ mishaps \subseteq {"failure", "restart"} /\ pc[c] # "idle"
          /\ UNCHANGED <<owed, unnotified, timer>>
          /\ \A d \in Compiles : d # c => pc'[d] = pc[d]
      <3>1. CASE Query(c) \/ Stamp(c) \/ writeObjectShard(c)
        BY <3>1 DEF Query, Stamp, writeObjectShard, TypeOK
      <3>2. CASE IndexTruncate(c) \/ IndexWrite(c) \/ CleanupList(c) \/ CleanupUnlink(c)
        BY <3>2 DEF IndexTruncate, IndexWrite, CleanupList, CleanupUnlink, TypeOK
      <3>3. CASE Succeed(c) \/ Fail(c)
        BY <3>3 DEF Succeed, Fail, Throw, End, TypeOK
      <3> QED BY <1>10, <3>1, <3>2, <3>3 DEF Step
    <2>2. /\ FilesOK(c)
          /\ pending => timer
          /\ \A d \in Compiles : d # c => pc'[d] = "idle"
          /\ pc[c] # "query" /\ got[c].source < owed => OnItsWay
      BY <2>1 DEF ShardInv, FreshInv
    <2>3. pc'[c] # "idle" /\ UNCHANGED pending /\ (got'[c].source < owed => OnItsWay) => Goal
      BY <2>1, <2>2 DEF compiled
    <2>4. ASSUME pc'[c] = "idle", compiling' = FALSE, pending' => timer',
                 compiled' /\ index'.source < owed => lastError' \/ OnItsWay'
          PROVE  Goal
      <3>1. \A d \in Compiles : pc'[d] = "idle"
        BY <2>1, <2>2, <2>4
      <3> QED BY <2>1, <2>4, <3>1
    <2> HIDE DEF Goal
    <2>5. CASE Query(c)
      <3>1. pc'[c] = "stamp" /\ got'[c].source = rev /\ UNCHANGED pending
        BY <2>5 DEF Query, TypeOK
      <3>2. ~(got'[c].source < owed)
        BY <1>1, <3>1
      <3> QED BY <2>3, <3>1, <3>2
    <2>6. CASE Stamp(c)
      <3>1. /\ pc[c] = "stamp" /\ pc'[c] = "shards" /\ UNCHANGED pending
            /\ got'[c] = [got[c] EXCEPT !.made = rev]
        BY <2>6 DEF Stamp, TypeOK
      <3>2. got'[c].source = got[c].source
        BY <3>1 DEF TypeOK, Snapshot
      <3> QED BY <2>2, <2>3, <3>1, <3>2
    <2>7. CASE writeObjectShard(c) \/ IndexTruncate(c) \/ IndexWrite(c)
      <3>1. pc[c] \notin {"idle", "query"} /\ pc'[c] # "idle" /\ UNCHANGED <<pending, got>>
        BY <2>7 DEF writeObjectShard, IndexTruncate, IndexWrite, TypeOK
      <3> QED BY <2>2, <2>3, <3>1
    <2>8. CASE CleanupList(c) \/ CleanupUnlink(c)
      <3>1. pc[c] \notin {"idle", "query"} /\ pc'[c] # "idle" /\ UNCHANGED <<pending, got>>
        BY <2>8 DEF CleanupList, CleanupUnlink, TypeOK
      <3> QED BY <2>2, <2>3, <3>1
    <2>9. CASE Succeed(c)
      <3>1. /\ pc[c] = "unlink" /\ pc'[c] = "idle" /\ compiling' = FALSE /\ pending' = FALSE
            /\ UNCHANGED index
        BY <2>9 DEF Succeed, End, TypeOK
      <3>2. index = got[c]
        BY <2>2, <3>1 DEF FilesOK
      <3>3. index'.source < owed => OnItsWay'
        BY <2>1, <2>2, <3>1, <3>2
      <3> QED BY <2>4, <3>1, <3>3
    <2>10. CASE Fail(c)
      <3>1. /\ pc'[c] = "idle" /\ compiling' = FALSE /\ lastError' = TRUE
            /\ pending' => pending
        BY <2>10 DEF Fail, Throw, End, TypeOK
      <3> QED BY <2>1, <2>2, <2>4, <3>1
    <2> QED BY <1>10, <2>5, <2>6, <2>7, <2>8, <2>9, <2>10 DEF Step
  <1> QED BY <1>2, <1>3, <1>4, <1>6, <1>7, <1>8, <1>9, <1>10 DEF Next

LEMMA CompilesAlone == Spec => [](TypeOK /\ CompileInv /\ FreshInv)
  <1> DEFINE Inv == TypeOK /\ ShardInv /\ DueInv /\ CompileInv /\ FreshInv
  <1>1. Init => Inv
    BY InitTypeOK, InitShardInv, InitDueInv, InitCompileInv, InitFreshInv
  <1>2. Inv /\ [Next]_vars => Inv'
    BY NextTypeOK, NextShardInv, NextDueInv, NextCompileInv, NextFreshInv DEF DueInv
  <1> QED BY <1>1, <1>2, PTL DEF Spec

(* Until compiles overlap or the server restarts, the shard files at rest  *)
(* are exactly those of the index, of its revision, unless the last        *)
(* compile failed.                                                         *)
THEOREM ShardsOfIndex == Spec => []ShardsMatchIndex
  <1>1. CompileInv => ShardsMatchIndex
    BY DEF CompileInv, AtRest, ShardsMatchIndex, Exactly
  <1> QED BY <1>1, CompilesAlone, PTL

(* And an atlas behind a change that was notified since the server         *)
(* started, with nothing under way or due, says so: its health is "error". *)
THEOREM BehindOnlyAfterFailure == Spec => []QuietIsFreshOrFailed
  <1>1. TypeOK /\ FreshInv => QuietIsFreshOrFailed
    <2> SUFFICES ASSUME TypeOK, FreshInv, mishaps \subseteq {"failure", "restart"}, Quiet,
                        compiled, index.source < owed
                 PROVE  computeAtlasHealth = "error"
      BY DEF QuietIsFreshOrFailed
    <2>1. ~compiling /\ ~pending /\ lastError
      BY DEF FreshInv, OnItsWay, Quiet, TypeOK
    <2>2. index # Torn /\ index # NoIndex
      BY IndexAssumption DEF compiled
    <2> QED BY <2>1, <2>2 DEF computeAtlasHealth
  <1> QED BY <1>1, CompilesAlone, PTL
=============================================================================
