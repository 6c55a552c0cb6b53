------------------------- MODULE Attachments_proofs -------------------------
(***************************************************************************)
(* Proofs about Attachments: types; a row whose blob is given up is being  *)
(* deleted; the bytes of an ACTIVE attachment are those of its checksum;   *)
(* no blob without its row; no request throws by itself; the quota of the  *)
(* links that count is exceeded by no more than what overlapped.           *)
(***************************************************************************)
EXTENDS Attachments, FiniteSetTheorems, TLAPS

LEMMA Constants ==
    /\ NoLocals \in Locals
    /\ \A x \in Rows : x # Fresh /\ x # Gone
  BY IdAssumption DEF NoLocals, Locals, Keys

LEMMA InitTypeOK == Init => TypeOK
  BY Constants DEF Init, TypeOK, PCs, Jobs, Mishaps

(* What the handlers share keeps the types. *)
LEMMA HelpersTypeOK ==
  ASSUME TypeOK, NEW r \in Requests, NEW l \in Locals, NEW at \in PCs,
         NEW why \in SUBSET Mishaps
  PROVE  LET Control == /\ pc' \in [Requests -> PCs]
                        /\ loc' \in [Requests -> Locals]
                        /\ mishaps' \in SUBSET Mishaps
         IN  /\ Begin(r, at, l) => Control
             /\ End(r) /\ (UNCHANGED mishaps \/ mishaps' = mishaps \cup {"storage"}) => Control
             /\ Die(why) => Control
             /\ Goto(r, at) => pc' \in [Requests -> PCs]
  <1> USE Constants DEF TypeOK
  <1>1. "idle" \in PCs /\ "overlap" \in Mishaps /\ "storage" \in Mishaps
    BY DEF PCs, Mishaps
  <1> QED BY <1>1 DEF Begin, Joined, End, Die, Goto

(* A missing parent ends every request and leaves the tables as they are. *)
LEMMA ParentMissingFacts ==
  ASSUME NEW r \in Requests, ParentMissing(r)
  PROVE  /\ UNCHANGED <<row, links, there, job, blob>>
         /\ \E why \in SUBSET Mishaps : "throw" \in why /\ "foreign" \in why /\ Die(why)
         /\ \/ pc[r] = "create"
            \/ "overlap" \in mishaps'
            \/ \A q \in Requests : pc[q] = "idle"
  <1>1. CASE UploadCreateForeign(r)
    <2>1. {"foreign", "throw"} \in SUBSET Mishaps
      BY DEF Mishaps
    <2> QED BY <1>1, <2>1 DEF UploadCreateForeign, tables
  <1>2. CASE PresignForeign(r)
    <2> DEFINE why == (Joined \ mishaps) \cup {"foreign", "throw"}
    <2>1. why \in SUBSET Mishaps
      BY DEF Joined, Mishaps
    <2>2. Die(why) /\ UNCHANGED <<row, links, there, job, blob>>
      BY <1>2 DEF PresignForeign, tables
    <2>3. "overlap" \in mishaps' \/ \A q \in Requests : pc[q] = "idle"
      BY <2>2 DEF Die, Joined
    <2> QED BY <2>1, <2>2, <2>3
  <1> QED BY <1>1, <1>2 DEF ParentMissing

(* An update of a row, or the throw when it is gone. *)
LEMMA UpdateTypeOK ==
  ASSUME TypeOK, NEW r \in Requests, NEW f, NEW at \in PCs, NEW new, Update(r, f, at, new),
         f \in Files /\ Exists(f) => new \in Rows
  PROVE  /\ row' \in [Files -> Rows \cup {Fresh, Gone}]
         /\ pc' \in [Requests -> PCs]
         /\ loc' \in [Requests -> Locals]
         /\ mishaps' \in SUBSET Mishaps
  <1> USE DEF TypeOK
  <1>0. {"throw"} \in SUBSET Mishaps /\ NoLocals \in Locals
    BY Constants DEF Mishaps
  <1>1. CASE Exists(f)
    <2>1. row' = [row EXCEPT ![f] = new] /\ UNCHANGED mishaps
          /\ (End(r) \/ (Goto(r, at) /\ UNCHANGED loc))
      BY <1>1 DEF Update
    <2>2. row' \in [Files -> Rows \cup {Fresh, Gone}]
      BY <1>1, <2>1
    <2> QED BY <1>0, <2>1, <2>2, HelpersTypeOK
  <1>2. CASE ~Exists(f)
    <2>1. UNCHANGED row /\ Die({"throw"})
      BY <1>2 DEF Update, Throw
    <2> QED BY <1>0, <2>1, HelpersTypeOK
  <1> QED BY <1>1, <1>2

LEMMA ArriveTypeOK ==
  ASSUME TypeOK, NEW r \in Requests, Arrive(r)
  PROVE  TypeOK'
  <1>1. \A f \in Files : Exists(f) => row[f] \in Rows
    BY DEF TypeOK, Exists
  <1>2. \A f \in Files : Exists(f) => row[f].key \in Keys
    BY <1>1 DEF Rows
  <1>3. ASSUME NEW l \in Locals, NEW at \in PCs, Begin(r, at, l)
        PROVE  /\ pc' \in [Requests -> PCs] /\ loc' \in [Requests -> Locals]
               /\ mishaps' \in SUBSET Mishaps
    BY <1>3, HelpersTypeOK
  <1>4. CASE Upload(r)
    <2>1. PICK b \in Bodies, ts \in Targets \cup {{}} :
            Begin(r, "create", [NoLocals EXCEPT !.body = b, !.targets = ts])
      BY <1>4 DEF Upload
    <2>2. [NoLocals EXCEPT !.body = b, !.targets = ts] \in Locals /\ "create" \in PCs
      BY DEF NoLocals, Locals, Keys, PCs
    <2> QED BY <1>3, <1>4, <2>1, <2>2 DEF Upload, TypeOK, tables
  <1>5. CASE Presign(r)
    <2>1. PICK f \in Files :
            /\ row' = [row EXCEPT ![f] = [status |-> "PENDING", key |-> "pending", checksum |-> None]]
            /\ Begin(r, "setKey", [NoLocals EXCEPT !.file = f])
      BY <1>5 DEF Presign
    <2>2. [NoLocals EXCEPT !.file = f] \in Locals /\ "setKey" \in PCs
      BY DEF NoLocals, Locals, Keys, PCs
    <2>3. row' \in [Files -> Rows \cup {Fresh, Gone}]
      BY <2>1 DEF TypeOK, Rows, Keys
    <2> QED BY <1>3, <1>5, <2>1, <2>2, <2>3 DEF Presign, TypeOK
  <1>6. CASE UploadBytes(r)
    <2>1. PICK f \in Files, b \in Bodies :
            Exists(f) /\ Begin(r, "putBytes", [NoLocals EXCEPT !.file = f, !.body = b, !.key = row[f].key])
      BY <1>6 DEF UploadBytes, HasStatus
    <2>2. [NoLocals EXCEPT !.file = f, !.body = b, !.key = row[f].key] \in Locals
          /\ "putBytes" \in PCs
      BY <1>2, <2>1 DEF NoLocals, Locals, Keys, PCs
    <2> QED BY <1>3, <1>6, <2>1, <2>2 DEF UploadBytes, TypeOK, tables
  <1>7. CASE Complete(r) \/ Delete(r)
    <2>1. PICK f \in Files, at \in {"getBytes", "deleteBlob"} :
            Exists(f) /\ Begin(r, at, [NoLocals EXCEPT !.file = f, !.key = row[f].key])
      BY <1>7 DEF Complete, Delete, HasStatus
    <2>2. [NoLocals EXCEPT !.file = f, !.key = row[f].key] \in Locals /\ at \in PCs
      BY <1>2, <2>1 DEF NoLocals, Locals, Keys, PCs
    <2> QED BY <1>3, <1>7, <2>1, <2>2 DEF Complete, Delete, TypeOK, tables
  <1>8. CASE Retire(r) \/ Restore(r)
    <2>1. PICK f \in Files, at \in {"retire", "restore"} :
            Begin(r, at, [NoLocals EXCEPT !.file = f])
      BY <1>8 DEF Retire, Restore
    <2>2. [NoLocals EXCEPT !.file = f] \in Locals /\ at \in PCs
      BY <2>1 DEF NoLocals, Locals, Keys, PCs
    <2> QED BY <1>3, <1>8, <2>1, <2>2 DEF Retire, Restore, TypeOK, tables
  <1>9. CASE Link(r) \/ Unlink(r)
    <2>1. PICK f \in Files, ts \in Targets, at \in {"count", "unlink"} :
            Begin(r, at, [NoLocals EXCEPT !.file = f, !.targets = ts])
      BY <1>9 DEF Link, Unlink
    <2>2. [NoLocals EXCEPT !.file = f, !.targets = ts] \in Locals /\ at \in PCs
      BY <2>1 DEF NoLocals, Locals, Keys, PCs
    <2> QED BY <1>3, <1>9, <2>1, <2>2 DEF Link, Unlink, TypeOK, tables
  <1>10. CASE Backup(r)
    <2>1. NoLocals \in Locals /\ "backupRun" \in PCs
      BY Constants DEF PCs
    <2> QED BY <1>3, <1>10, <2>1 DEF Backup, TypeOK, Jobs
  <1> QED BY <1>4, <1>5, <1>6, <1>7, <1>8, <1>9, <1>10 DEF Arrive

(* A request that works on a file has one. *)
HasFile ==
    \A r \in Requests :
        pc[r] \notin {"idle", "create", "backupRun", "backupPut"} => loc[r].file \in Files

LEMMA InitHasFile == Init => HasFile
  BY DEF Init, HasFile

LEMMA UpdateHasFile ==
  ASSUME TypeOK, HasFile, NEW r \in Requests, pc[r] # "create", NEW f, NEW at, NEW new,
         pc[r] \notin {"idle", "create", "backupRun", "backupPut"},
         Update(r, f, at, new)
  PROVE  HasFile'
  BY DEF Update, Throw, Die, End, Goto, HasFile, TypeOK

LEMMA NextHasFile == TypeOK /\ HasFile /\ [Next]_vars => HasFile'
  <1> SUFFICES ASSUME TypeOK, HasFile, [Next]_vars PROVE HasFile'
    OBVIOUS
  <1>1. ASSUME NEW r \in Requests, Arrive(r) PROVE HasFile'
    <2>1. ASSUME NEW at, NEW l, Begin(r, at, l),
                 at \in {"create", "backupRun"} \/ l.file \in Files
          PROVE  HasFile'
      BY <2>1 DEF Begin, Joined, HasFile, TypeOK
    <2>2. CASE Upload(r) \/ Backup(r)
      BY <2>1, <2>2 DEF Upload, Backup
    <2>3. CASE Presign(r)
      BY <2>1, <2>3 DEF Presign, NoLocals
    <2>4. CASE UploadBytes(r)
      BY <2>1, <2>4 DEF UploadBytes, NoLocals
    <2>5. CASE Complete(r)
      BY <2>1, <2>5 DEF Complete, NoLocals
    <2>6. CASE Retire(r)
      BY <2>1, <2>6 DEF Retire, NoLocals
    <2>7. CASE Restore(r)
      BY <2>1, <2>7 DEF Restore, NoLocals
    <2>8. CASE Delete(r)
      BY <2>1, <2>8 DEF Delete, NoLocals
    <2>9. CASE Link(r)
      BY <2>1, <2>9 DEF Link, NoLocals
    <2>10. CASE Unlink(r)
      BY <2>1, <2>10 DEF Unlink, NoLocals
    <2> QED BY <1>1, <2>2, <2>3, <2>4, <2>5, <2>6, <2>7, <2>8, <2>9, <2>10 DEF Arrive
  <1>2. ASSUME NEW r \in Requests, Continue(r) PROVE HasFile'
    <2>1. CASE UploadActivate(r) \/ PresignKey(r) \/ ActivateBytes(r) \/ RetireWrite(r)
               \/ RestoreWrite(r) \/ DeletePurge(r)
      <3>1. /\ pc[r] \notin {"idle", "create", "backupRun", "backupPut"}
            /\ \E f, at, new : Update(r, f, at, new)
        BY <2>1
        DEF UploadActivate, PresignKey, ActivateBytes, RetireWrite, RestoreWrite, DeletePurge
      <3> QED BY <3>1, UpdateHasFile
    <2> USE DEF Throw, Die, End, Goto, HasFile, TypeOK, Locals
    <2>2. CASE UploadCreate(r) \/ UploadPut(r) \/ UploadPutFail(r) \/ UploadDiscard(r)
      BY <2>2 DEF UploadCreate, UploadPut, UploadPutFail, UploadDiscard
    <2>3. CASE UploadLink(r) \/ LinkCreate(r) \/ UnlinkDelete(r)
      BY <2>3 DEF UploadLink, LinkCreate, CreateLink, UnlinkDelete
    <2>4. CASE UploadBytesPut(r) \/ UploadBytesFail(r) \/ CompleteGet(r) \/ CompleteGetFail(r)
      BY <2>4 DEF UploadBytesPut, UploadBytesFail, CompleteGet, CompleteGetFail
    <2>5. CASE DeleteBlob(r) \/ DeleteBlobFail(r) \/ DeleteLinks(r) \/ DeleteRow(r)
      BY <2>5 DEF DeleteBlob, DeleteBlobFail, DeleteLinks, DeleteRow
    <2>6. CASE LinkQuota(r) \/ LinkDedupe(r)
      BY <2>6 DEF LinkQuota, LinkDedupe
    <2>7. CASE BackupRun(r) \/ BackupPut(r) \/ BackupFail(r)
      BY <2>7 DEF BackupRun, BackupPut, BackupFail
    <2> QED BY <1>2, <2>1, <2>2, <2>3, <2>4, <2>5, <2>6, <2>7 DEF Continue
  <1>3. CASE Crash \/ \E r \in Requests : ParentMissing(r)
    BY <1>3, ParentMissingFacts DEF Crash, Die, HasFile
  <1>4. CASE UNCHANGED vars \/ \E e \in Entities : Remove(e)
    BY <1>4 DEF vars, Remove, HasFile
  <1> QED BY <1>1, <1>2, <1>3, <1>4 DEF Next

LEMMA ContinueTypeOK ==
  ASSUME TypeOK, HasFile, NEW r \in Requests, Continue(r)
  PROVE  TypeOK'
  <1>1. \A f \in Files : Exists(f) => row[f] \in Rows
    BY DEF TypeOK, Exists
  <1>2. /\ \A f \in Files : row[f] \in Rows =>
             /\ [row[f] EXCEPT !.status = "ACTIVE", !.key = "own"] \in Rows
             /\ [row[f] EXCEPT !.key = "own"] \in Rows
             /\ [row[f] EXCEPT !.status = "RETIRED"] \in Rows
             /\ [row[f] EXCEPT !.status = "ACTIVE"] \in Rows
             /\ [row[f] EXCEPT !.status = "ACTIVE", !.checksum = loc[r].body] \in Rows
             /\ [row[f] EXCEPT !.status = "PURGED", !.key = "purged"] \in Rows
        /\ loc[r] \in Locals /\ loc[r].body \in Bodies \cup {None}
    BY DEF TypeOK, Rows, Keys, Locals
  <1>3. PCs \cap {"idle", "put", "discard", "activate", "linkNew", "activateBytes", "deleteLinks",
                  "purge", "deleteRow", "dedupe", "link", "backupPut"}
        = {"idle", "put", "discard", "activate", "linkNew", "activateBytes", "deleteLinks",
                  "purge", "deleteRow", "dedupe", "link", "backupPut"}
    BY DEF PCs
  <1>4. {"throw"} \in SUBSET Mishaps /\ {"storage", "throw"} \in SUBSET Mishaps
        /\ {"foreign", "throw"} \in SUBSET Mishaps
        /\ "storage" \in Mishaps
    BY DEF Mishaps
  <1> USE DEF TypeOK, tables
  <1>5. ASSUME NEW f \in Files
        PROVE  RemoveRow(f) => /\ row' \in [Files -> Rows \cup {Fresh, Gone}]
                               /\ links' \in [Files \X Targets -> Nat]
    BY DEF RemoveRow
  <1>6. ASSUME End(r), UNCHANGED mishaps \/ mishaps' = mishaps \cup {"storage"}
        PROVE  /\ pc' \in [Requests -> PCs] /\ loc' \in [Requests -> Locals]
               /\ mishaps' \in SUBSET Mishaps
    BY Constants, <1>3, <1>6, HelpersTypeOK
  <1>7. ASSUME NEW why \in SUBSET Mishaps, Die(why)
        PROVE  /\ pc' \in [Requests -> PCs] /\ loc' \in [Requests -> Locals]
               /\ mishaps' \in SUBSET Mishaps
    BY Constants, <1>3, <1>7, HelpersTypeOK
  <1>8. CASE UploadCreate(r)
    <2>1. PICK f \in Files :
            /\ row' = [row EXCEPT ![f] = [status |-> "PENDING", key |-> "pending",
                                         checksum |-> loc[r].body]]
            /\ loc' = [loc EXCEPT ![r].file = f]
      BY <1>8 DEF UploadCreate
    <2>2. row' \in [Files -> Rows \cup {Fresh, Gone}]
      BY <1>2, <2>1 DEF Rows, Keys
    <2>3. loc' \in [Requests -> Locals]
      BY <1>2, <2>1 DEF Locals
    <2> QED BY <1>3, <1>8, <2>2, <2>3 DEF UploadCreate, Goto
  <1>9. CASE UploadPut(r) \/ UploadPutFail(r)
    BY <1>2, <1>3, <1>4, <1>9 DEF UploadPut, UploadPutFail, Goto
  <1>10. CASE UploadDiscard(r)
    <2>1. /\ row' \in [Files -> Rows \cup {Fresh, Gone}]
          /\ links' \in [Files \X Targets -> Nat]
      BY <1>10 DEF UploadDiscard, RemoveRow
    <2> QED BY <1>6, <1>10, <2>1 DEF UploadDiscard
  <1>11. CASE UploadActivate(r) \/ PresignKey(r) \/ ActivateBytes(r) \/ RetireWrite(r)
              \/ RestoreWrite(r) \/ DeletePurge(r)
    <2>1. ASSUME NEW f, NEW new, NEW at \in {"idle", "linkNew", "deleteRow"},
                 Update(r, f, at, new), f \in Files /\ Exists(f) => new \in Rows,
                 UNCHANGED <<links, there, job, blob>>
          PROVE  TypeOK'
      BY <1>3, <2>1, UpdateTypeOK
    <2>2. CASE UploadActivate(r)
      BY <1>1, <1>2, <2>1, <2>2 DEF UploadActivate
    <2>3. CASE PresignKey(r)
      BY <1>1, <1>2, <2>1, <2>3 DEF PresignKey
    <2>4. CASE ActivateBytes(r)
      BY <1>1, <1>2, <2>1, <2>4 DEF ActivateBytes
    <2>5. CASE RetireWrite(r)
      BY <1>1, <1>2, <2>1, <2>5 DEF RetireWrite
    <2>6. CASE RestoreWrite(r)
      BY <1>1, <1>2, <2>1, <2>6 DEF RestoreWrite
    <2>7. CASE DeletePurge(r)
      BY <1>1, <1>2, <2>1, <2>7 DEF DeletePurge
    <2> QED BY <1>11, <2>2, <2>3, <2>4, <2>5, <2>6, <2>7
  <1>12. CASE UploadLink(r) \/ LinkCreate(r)
    <2>1. CreateLink(r)
      BY <1>12 DEF UploadLink, LinkCreate
    <2>2. links' \in [Files \X Targets -> Nat]
      BY <2>1 DEF CreateLink
    <2> QED BY <1>4, <1>6, <1>7, <2>1, <2>2 DEF CreateLink, Throw
  <1>13. CASE UploadBytesPut(r)
    BY <1>2, <1>3, <1>13 DEF UploadBytesPut, Goto
  <1>14. CASE UploadBytesFail(r)
    BY <1>4, <1>7, <1>14 DEF UploadBytesFail, Throw
  <1>15. CASE CompleteGet(r)
    <2>1. /\ pc' \in [Requests -> PCs] /\ loc' \in [Requests -> Locals]
          /\ mishaps' \in SUBSET Mishaps
      <3>1. CASE End(r)
        BY <1>6, <1>15, <3>1 DEF CompleteGet
      <3>2. CASE loc' = [loc EXCEPT ![r].body = blob[loc[r].file]] /\ Goto(r, "activateBytes")
                 /\ blob[loc[r].file] # None
        <4>1. loc[r].file \in Files
          BY <1>15 DEF CompleteGet, HasFile
        <4>2. loc' \in [Requests -> Locals]
          BY <1>2, <3>2, <4>1 DEF Locals
        <4> QED BY <1>3, <1>15, <3>2, <4>2 DEF CompleteGet, Goto
      <3> QED BY <1>15, <3>1, <3>2 DEF CompleteGet
    <2> QED BY <1>15, <2>1 DEF CompleteGet
  <1>16. CASE CompleteGetFail(r)
    BY <1>6, <1>16 DEF CompleteGetFail
  <1>17. CASE DeleteBlob(r) \/ DeleteBlobFail(r) \/ DeleteLinks(r)
    BY <1>3, <1>4, <1>17 DEF DeleteBlob, DeleteBlobFail, DeleteLinks, Goto
  <1>18. CASE DeleteRow(r)
    <2>1. /\ row' \in [Files -> Rows \cup {Fresh, Gone}]
          /\ links' \in [Files \X Targets -> Nat]
      BY <1>18 DEF DeleteRow, RemoveRow
    <2> QED BY <1>4, <1>6, <1>7, <1>18, <2>1 DEF DeleteRow, Throw
  <1>19. CASE LinkQuota(r) \/ LinkDedupe(r)
    BY <1>3, <1>6, <1>19 DEF LinkQuota, LinkDedupe, Goto
  <1>20. CASE UnlinkDelete(r)
    <2>1. links' \in [Files \X Targets -> Nat]
      BY <1>20 DEF UnlinkDelete
    <2> QED BY <1>4, <1>6, <1>7, <1>20, <2>1 DEF UnlinkDelete, Throw
  <1>21. CASE BackupRun(r) \/ BackupPut(r) \/ BackupFail(r)
    <2>1. job' \in [Requests -> Jobs]
      BY <1>21 DEF BackupRun, BackupPut, BackupFail, Jobs
    <2>2. CASE BackupRun(r)
      BY <1>3, <2>1, <2>2 DEF BackupRun, Goto
    <2>3. CASE BackupPut(r) \/ BackupFail(r)
      BY <1>6, <2>1, <2>3 DEF BackupPut, BackupFail
    <2> QED BY <1>21, <2>2, <2>3
  <1> QED BY <1>8, <1>9, <1>10, <1>11, <1>12, <1>13, <1>14, <1>15, <1>16, <1>17, <1>18, <1>19,
             <1>20, <1>21 DEF Continue

LEMMA NextTypeOK == TypeOK /\ HasFile /\ [Next]_vars => TypeOK'
  <1> SUFFICES ASSUME TypeOK, HasFile, [Next]_vars PROVE TypeOK'
    OBVIOUS
  <1>1. CASE Crash
    <2>1. Die({"crash"}) /\ {"crash"} \in SUBSET Mishaps
      BY <1>1 DEF Crash, Mishaps
    <2>2. /\ pc' \in [Requests -> PCs] /\ loc' \in [Requests -> Locals]
          /\ mishaps' \in SUBSET Mishaps
      BY <2>1, Constants DEF Die, TypeOK, PCs
    <2> QED BY <1>1, <2>2 DEF Crash, TypeOK, tables
  <1>2. CASE UNCHANGED vars
    BY <1>2 DEF TypeOK, vars, tables
  <1>3. ASSUME NEW r \in Requests, ParentMissing(r) PROVE TypeOK'
    <2>1. PICK why \in SUBSET Mishaps : Die(why)
      BY <1>3, ParentMissingFacts
    <2>2. /\ pc' \in [Requests -> PCs] /\ loc' \in [Requests -> Locals]
          /\ mishaps' \in SUBSET Mishaps
      BY <2>1, Constants DEF Die, TypeOK, PCs
    <2> QED BY <1>3, <2>2, ParentMissingFacts DEF TypeOK
  <1>4. ASSUME NEW e \in Entities, Remove(e) PROVE TypeOK'
    <2>1. links' \in [Files \X Targets -> Nat] /\ there' \in SUBSET Entities
      BY <1>4 DEF Remove, TypeOK
    <2>2. mishaps' \in SUBSET Mishaps
      BY <1>4 DEF Remove, Joined, Mishaps, TypeOK
    <2> QED BY <1>4, <2>1, <2>2 DEF Remove, TypeOK
  <1> QED BY <1>1, <1>2, <1>3, <1>4, ArriveTypeOK, ContinueTypeOK DEF Next

(* Every variable of the library keeps its type. *)
THEOREM TypeCorrect == Spec => []TypeOK
  BY InitTypeOK, NextTypeOK, InitHasFile, NextHasFile, PTL DEF Spec

-----------------------------------------------------------------------------
(* A row whose blob is given up is being deleted *)

(* A step that gives up no blob, and lets a deletion go on.                *)
LEMMA PurgedKept ==
  ASSUME PurgedIsBeingDeleted, mishaps \subseteq mishaps',
         \A f \in Files : Exists(f)' /\ row'[f].key = "purged" =>
             Exists(f) /\ row[f].key = "purged",
         \A q \in Requests, f \in Files :
             pc[q] = "deleteRow" /\ loc[q].file = f /\ Exists(f)' /\ "throw" \notin mishaps'
                => pc'[q] = "deleteRow" /\ loc'[q].file = f
  PROVE  PurgedIsBeingDeleted'
  BY DEF PurgedIsBeingDeleted

(* An update that does not give up the blob. *)
LEMMA UpdatePurged ==
  ASSUME TypeOK, PurgedIsBeingDeleted, NEW r \in Requests, pc[r] # "deleteRow",
         NEW f \in Files, NEW at, NEW new, Update(r, f, at, new),
         new.key = "purged" => row[f].key = "purged"
  PROVE  PurgedIsBeingDeleted'
  <1>1. CASE Exists(f)
    BY <1>1, PurgedKept DEF Update, End, Goto, TypeOK, Exists
  <1>2. CASE ~Exists(f)
    BY <1>2, PurgedKept DEF Update, Throw, Die, Exists
  <1> QED BY <1>1, <1>2

LEMMA NextPurged ==
    TypeOK /\ HasFile /\ PurgedIsBeingDeleted /\ [Next]_vars => PurgedIsBeingDeleted'
  <1> SUFFICES ASSUME TypeOK, HasFile, PurgedIsBeingDeleted, [Next]_vars
               PROVE  PurgedIsBeingDeleted'
    OBVIOUS
  <1>1. ASSUME NEW r \in Requests, Arrive(r) PROVE PurgedIsBeingDeleted'
    <2>1. ASSUME NEW at, NEW l, Begin(r, at, l), UNCHANGED row PROVE PurgedIsBeingDeleted'
      BY <2>1, PurgedKept DEF Begin, Joined, TypeOK, Exists
    <2>2. CASE Presign(r)
      BY <2>2, PurgedKept DEF Presign, Begin, Joined, TypeOK, Exists
    <2>3. CASE ~Presign(r)
      BY <1>1, <2>1, <2>3
      DEF Arrive, tables, Upload, UploadBytes, Complete, Retire, Restore, Delete, Link, Unlink, Backup
    <2> QED BY <2>2, <2>3
  <1>2. ASSUME NEW r \in Requests, Continue(r) PROVE PurgedIsBeingDeleted'
    <2>1. CASE UploadCreate(r)
      BY <2>1, PurgedKept DEF UploadCreate, Goto, TypeOK, Exists
    <2>2. CASE UploadPut(r) \/ UploadPutFail(r) \/ UploadBytesPut(r) \/ DeleteBlob(r)
               \/ DeleteBlobFail(r) \/ DeleteLinks(r) \/ BackupRun(r)
      <3>1. /\ UNCHANGED <<row, loc>> /\ mishaps \subseteq mishaps' /\ pc[r] # "deleteRow"
            /\ \E at : Goto(r, at)
        BY <2>2 DEF UploadPut, UploadPutFail, UploadBytesPut, DeleteBlob, DeleteBlobFail,
                    DeleteLinks, BackupRun, tables
      <3> QED BY <3>1, PurgedKept DEF Goto, TypeOK, Exists
    <2>3. CASE UploadBytesFail(r)
      BY <2>3, PurgedKept DEF UploadBytesFail, Throw, Die, tables, Exists
    <2>4. CASE UploadDiscard(r)
      BY <2>4, PurgedKept DEF UploadDiscard, RemoveRow, End, Goto, TypeOK, Exists
    <2>5. CASE UploadActivate(r) \/ PresignKey(r) \/ ActivateBytes(r) \/ RetireWrite(r)
               \/ RestoreWrite(r)
      <3>1. loc[r].file \in Files /\ (Exists(loc[r].file) => row[loc[r].file] \in Rows)
        BY <2>5 DEF HasFile, UploadActivate, PresignKey, ActivateBytes, RetireWrite,
                    RestoreWrite, TypeOK, Exists
      <3>2. ASSUME NEW at, NEW new, Update(r, loc[r].file, at, new), pc[r] # "deleteRow",
                   Exists(loc[r].file) /\ new.key = "purged" => row[loc[r].file].key = "purged"
            PROVE  PurgedIsBeingDeleted'
        <4>1. CASE Exists(loc[r].file)
          BY <3>1, <3>2, <4>1, UpdatePurged
        <4>2. CASE ~Exists(loc[r].file)
          BY <3>2, <4>2, PurgedKept DEF Update, Throw, Die, Exists
        <4> QED BY <4>1, <4>2
      <3>3. ASSUME Exists(loc[r].file)
            PROVE  LET old == row[loc[r].file]
                   IN  /\ [old EXCEPT !.status = "ACTIVE", !.key = "own"].key = "own"
                       /\ [old EXCEPT !.key = "own"].key = "own"
                       /\ [old EXCEPT !.status = "ACTIVE", !.checksum = loc[r].body].key = old.key
                       /\ [old EXCEPT !.status = "RETIRED"].key = old.key
                       /\ [old EXCEPT !.status = "ACTIVE"].key = old.key
        BY <3>1, <3>3 DEF Rows
      <3>4. CASE UploadActivate(r)
        BY <3>2, <3>3, <3>4 DEF UploadActivate
      <3>5. CASE PresignKey(r)
        BY <3>2, <3>3, <3>5 DEF PresignKey
      <3>6. CASE ActivateBytes(r)
        BY <3>2, <3>3, <3>6 DEF ActivateBytes
      <3>7. CASE RetireWrite(r)
        BY <3>2, <3>3, <3>7 DEF RetireWrite
      <3>8. CASE RestoreWrite(r)
        BY <3>2, <3>3, <3>8 DEF RestoreWrite
      <3> QED BY <2>5, <3>4, <3>5, <3>6, <3>7, <3>8
    <2>6. CASE UploadLink(r) \/ LinkCreate(r) \/ UnlinkDelete(r)
      <3>1. UNCHANGED row /\ pc[r] # "deleteRow"
            /\ ((End(r) /\ UNCHANGED mishaps) \/ Throw \/ Die({"foreign", "throw"}))
        BY <2>6 DEF UploadLink, LinkCreate, CreateLink, UnlinkDelete
      <3> QED BY <3>1, PurgedKept DEF Throw, Die, End, Goto, TypeOK, Exists
    <2>7. CASE CompleteGet(r) \/ CompleteGetFail(r) \/ LinkQuota(r) \/ LinkDedupe(r)
               \/ BackupPut(r) \/ BackupFail(r)
      <3>1. /\ UNCHANGED row /\ pc[r] # "deleteRow" /\ mishaps \subseteq mishaps'
            /\ \A q \in Requests \ {r} : pc'[q] = pc[q] /\ loc'[q] = loc[q]
        <4>1. CASE CompleteGet(r) \/ LinkQuota(r) \/ LinkDedupe(r)
          <5>1. /\ UNCHANGED <<row, mishaps>> /\ pc[r] # "deleteRow"
                /\ \/ End(r)
                   \/ \E at, body : Goto(r, at) /\ loc' = [loc EXCEPT ![r].body = body]
                   \/ \E at : Goto(r, at) /\ UNCHANGED loc
            BY <4>1 DEF CompleteGet, LinkQuota, LinkDedupe, tables
          <5> QED BY <5>1 DEF End, Goto, TypeOK
        <4>2. CASE CompleteGetFail(r) \/ BackupPut(r) \/ BackupFail(r)
          BY <4>2 DEF CompleteGetFail, BackupPut, BackupFail, End, Goto, tables, TypeOK
        <4> QED BY <2>7, <4>1, <4>2
      <3> QED BY <3>1, PurgedKept DEF TypeOK, Exists
    <2>8. CASE DeletePurge(r)
      <3> DEFINE f == loc[r].file
      <3>1. f \in Files
        BY <2>8 DEF DeletePurge, HasFile
      <3>2. CASE Exists(f)
        <4>1. /\ row' = [row EXCEPT ![f] = [row[f] EXCEPT !.status = "PURGED", !.key = "purged"]]
              /\ pc' = [pc EXCEPT ![r] = "deleteRow"] /\ UNCHANGED <<loc, mishaps>>
              /\ pc[r] = "purge"
          BY <2>8, <3>2 DEF DeletePurge, Update, Goto
        <4>2. \A g \in Files : g # f => (Exists(g)' <=> Exists(g)) /\ row'[g] = row[g]
          BY <4>1 DEF Exists, TypeOK
        <4> QED BY <4>1, <4>2 DEF PurgedIsBeingDeleted, TypeOK
      <3>3. CASE ~Exists(f)
        BY <2>8, <3>3, PurgedKept DEF DeletePurge, Update, Throw, Die, Exists
      <3> QED BY <3>2, <3>3
    <2>9. CASE DeleteRow(r)
      <3>1. CASE Exists(loc[r].file)
        BY <2>9, <3>1, PurgedKept, IdAssumption
        DEF DeleteRow, RemoveRow, End, Goto, HasFile, TypeOK, Exists
      <3>2. CASE ~Exists(loc[r].file)
        BY <2>9, <3>2, PurgedKept DEF DeleteRow, Throw, Die, Exists
      <3> QED BY <3>1, <3>2
    <2> QED BY <1>2, <2>1, <2>2, <2>3, <2>4, <2>5, <2>6, <2>7, <2>8, <2>9 DEF Continue
  <1>3. CASE Crash \/ \E r \in Requests : ParentMissing(r)
    BY <1>3, ParentMissingFacts DEF Crash, Die, PurgedIsBeingDeleted
  <1>4. CASE UNCHANGED vars
    BY <1>4 DEF vars, tables, PurgedIsBeingDeleted, Exists
  <1>5. CASE \E e \in Entities : Remove(e)
    BY <1>5, PurgedKept DEF Remove, Joined, Exists
  <1> QED BY <1>1, <1>2, <1>3, <1>4, <1>5 DEF Next

(* A row whose blob a hard delete has given up is on its way out, for any  *)
(* number of requests and whatever they do to the row.                     *)
THEOREM PurgedAreDeleted == Spec => []PurgedIsBeingDeleted
  <1>1. Init => PurgedIsBeingDeleted
    BY DEF Init, PurgedIsBeingDeleted, Exists
  <1> QED BY <1>1, NextPurged, InitTypeOK, NextTypeOK, InitHasFile, NextHasFile, PTL DEF Spec

-----------------------------------------------------------------------------
(* The bytes of an ACTIVE attachment are those of its checksum *)

(* While requests do not overlap, the blob and the checksum of a row agree *)
(* but for the row of the one request that stands between the two writes,  *)
(* and that row is not ACTIVE.                                             *)
Busy == {"put", "discard", "activateBytes", "deleteLinks", "purge", "deleteRow"}
Doomed == Busy \cup {"putBytes", "getBytes", "deleteBlob"}

Alone == \A r, q \in Requests : pc[r] # "idle" /\ pc[q] # "idle" => r = q

RowsSettled ==
    \A f \in Files : Exists(f) =>
        \/ blob[f] = row[f].checksum
        \/ \E r \in Requests : pc[r] \in Busy /\ loc[r].file = f

WorksOnInactive(r) ==
    pc[r] \in Doomed =>
        /\ HasStatus(loc[r].file, {"PENDING", "RETIRED", "PURGED"})
        /\ pc[r] = "put" => row[loc[r].file].checksum = loc[r].body
        /\ pc[r] = "activateBytes" => blob[loc[r].file] = loc[r].body

FreshIsEmpty == \A f \in Files : row[f] = Fresh => blob[f] = None

Content ==
    /\ Alone
    /\ RowsSettled
    /\ \A r \in Requests : WorksOnInactive(r)
    /\ FreshIsEmpty

ContentInv == mishaps \subseteq {"storage", "foreign", "throw"} => Content

LEMMA ContentImplies == TypeOK /\ HasFile /\ ContentInv => ContentMatches
  BY DEF ContentInv, Content, RowsSettled, WorksOnInactive, ContentMatches, HasStatus, Busy, Doomed

(* The only request r takes a step, which concerns its own file only. *)
LEMMA ContentStep ==
  ASSUME Content, NEW r \in Requests, pc[r] # "idle",
         \A q \in Requests \ {r} : pc'[q] = pc[q] \/ pc'[q] = "idle",
         \A g \in Files : g # loc[r].file => row'[g] = row[g] /\ blob'[g] = blob[g],
         \A g \in Files : g = loc[r].file =>
            /\ Exists(g)' => \/ blob'[g] = row'[g].checksum
                             \/ pc'[r] \in Busy /\ loc'[r].file = g
            /\ row'[g] = Fresh => blob'[g] = None,
         WorksOnInactive(r)'
  PROVE  Content'
  <1>1. \A q \in Requests : q # r => pc[q] = "idle" /\ pc'[q] = "idle"
    BY DEF Content, Alone
  <1>2. Alone'
    BY <1>1 DEF Alone
  <1>3. \A q \in Requests : WorksOnInactive(q)'
    BY <1>1 DEF WorksOnInactive, Doomed, Busy
  <1>4. RowsSettled'
    <2> SUFFICES ASSUME NEW f \in Files, Exists(f)'
                 PROVE  \/ blob'[f] = row'[f].checksum
                        \/ \E q \in Requests : pc'[q] \in Busy /\ loc'[q].file = f
      BY DEF RowsSettled
    <2>1. CASE f = loc[r].file
      BY <2>1
    <2>2. CASE f # loc[r].file
      <3>1. Exists(f) /\ row'[f] = row[f] /\ blob'[f] = blob[f]
        BY <2>2 DEF Exists
      <3>2. \A q \in Requests : ~(pc[q] \in Busy /\ loc[q].file = f)
        BY <1>1, <2>2 DEF Busy
      <3> QED BY <3>1, <3>2 DEF Content, RowsSettled
    <2> QED BY <2>1, <2>2
  <1>5. FreshIsEmpty'
    BY DEF Content, FreshIsEmpty
  <1> QED BY <1>2, <1>3, <1>4, <1>5 DEF Content

(* The only request arrives. *)
LEMMA ContentBegin ==
  ASSUME Content, TypeOK, NEW r \in Requests, NEW at, NEW l, Begin(r, at, l),
         mishaps' \subseteq {"storage", "foreign", "throw"},
         at \notin Busy, at \in Doomed => HasStatus(l.file, {"PENDING", "RETIRED", "PURGED"}),
         UNCHANGED <<row, blob>>
  PROVE  Content'
  <1>1. \A q \in Requests : pc[q] = "idle"
    BY DEF Begin, Joined
  <1>2. \A q \in Requests : q # r => pc'[q] = "idle"
    BY <1>1 DEF Begin, Joined, TypeOK
  <1>3. pc'[r] = at /\ loc'[r] = l
    BY DEF Begin, Joined, TypeOK
  <1>4. Alone'
    BY <1>2 DEF Alone
  <1>5. RowsSettled'
    BY <1>1 DEF Content, RowsSettled, Busy, Exists
  <1>6. \A q \in Requests : WorksOnInactive(q)'
    BY <1>2, <1>3 DEF WorksOnInactive, Doomed, Busy, HasStatus, Exists
  <1>7. FreshIsEmpty'
    BY DEF Content, FreshIsEmpty
  <1> QED BY <1>4, <1>5, <1>6, <1>7 DEF Content

LEMMA ContentArrive ==
  ASSUME Content, TypeOK, NEW r \in Requests, Arrive(r),
         mishaps' \subseteq {"storage", "foreign", "throw"}
  PROVE  Content'
  <1> USE DEF Busy, Doomed
  <1>1. CASE Presign(r)
    <2>1. PICK f \in Files :
            /\ row[f] = Fresh
            /\ row' = [row EXCEPT ![f] = [status |-> "PENDING", key |-> "pending", checksum |-> None]]
            /\ Begin(r, "setKey", [NoLocals EXCEPT !.file = f])
            /\ UNCHANGED blob
      BY <1>1 DEF Presign
    <2>2. \A q \in Requests : pc[q] = "idle"
      BY <2>1 DEF Begin, Joined
    <2>3. /\ \A q \in Requests : q # r => pc'[q] = "idle"
          /\ pc'[r] = "setKey"
      BY <2>1, <2>2 DEF Begin, Joined, TypeOK
    <2>4. Alone' /\ \A q \in Requests : WorksOnInactive(q)'
      BY <2>3 DEF Alone, WorksOnInactive
    <2>5. row'[f].checksum = None /\ blob'[f] = None /\ row'[f] # Fresh
      BY <2>1, Constants DEF TypeOK, Content, FreshIsEmpty, Rows, Keys
    <2>6. \A g \in Files : g # f => row'[g] = row[g] /\ blob'[g] = blob[g]
      BY <2>1 DEF TypeOK
    <2>7. RowsSettled' /\ FreshIsEmpty'
      BY <2>2, <2>5, <2>6 DEF Content, RowsSettled, FreshIsEmpty, Exists
    <2> QED BY <2>4, <2>7 DEF Content
  <1>2. CASE UploadBytes(r)
    <2>1. PICK f \in Files, b \in Bodies :
            /\ HasStatus(f, {"PENDING"})
            /\ Begin(r, "putBytes", [NoLocals EXCEPT !.file = f, !.body = b, !.key = row[f].key])
      BY <1>2 DEF UploadBytes
    <2>2. [NoLocals EXCEPT !.file = f, !.body = b, !.key = row[f].key].file = f
      BY DEF NoLocals
    <2>3. HasStatus(f, {"PENDING", "RETIRED", "PURGED"})
      BY <2>1 DEF HasStatus
    <2>4. UNCHANGED <<row, blob>>
      BY <1>2 DEF UploadBytes, tables
    <2>5. PICK l : l.file = f /\ Begin(r, "putBytes", l)
      BY <2>1, <2>2
    <2> QED BY <2>3, <2>4, <2>5, ContentBegin
  <1>3. CASE Complete(r) \/ Delete(r)
    <2>1. PICK f \in Files, at \in {"getBytes", "deleteBlob"} :
            /\ HasStatus(f, {"PENDING", "RETIRED", "PURGED"})
            /\ Begin(r, at, [NoLocals EXCEPT !.file = f, !.key = row[f].key])
      BY <1>3 DEF Complete, Delete, HasStatus
    <2>2. [NoLocals EXCEPT !.file = f, !.key = row[f].key].file = f
      BY DEF NoLocals
    <2>3. UNCHANGED <<row, blob>>
      BY <1>3 DEF Complete, Delete, tables
    <2> QED BY <2>1, <2>2, <2>3, ContentBegin
  <1>4. ASSUME NEW l, NEW at \in {"create", "retire", "restore", "count", "unlink", "backupRun"},
               Begin(r, at, l), UNCHANGED <<row, blob>>
        PROVE  Content'
    BY <1>4, ContentBegin
  <1>5. CASE Upload(r)
    BY <1>4, <1>5 DEF Upload, tables
  <1>6. CASE Retire(r) \/ Restore(r)
    BY <1>4, <1>6 DEF Retire, Restore, tables
  <1>7. CASE Link(r) \/ Unlink(r)
    BY <1>4, <1>7 DEF Link, Unlink, tables
  <1>8. CASE Backup(r)
    BY <1>4, <1>8 DEF Backup
  <1> QED BY <1>1, <1>2, <1>3, <1>5, <1>6, <1>7, <1>8 DEF Arrive

(* The only request goes on. *)
LEMMA ContentContinue ==
  ASSUME Content, TypeOK, HasFile, NEW r \in Requests, Continue(r),
         mishaps' \subseteq {"storage", "foreign", "throw"}
  PROVE  Content'
  <1> USE DEF Busy, Doomed
  <1>1. WorksOnInactive(r) /\ FreshIsEmpty
        /\ \A f \in Files : Exists(f) =>
              blob[f] = row[f].checksum \/ (pc[r] \in Busy /\ loc[r].file = f) \/ pc[r] = "idle"
    BY DEF Content, RowsSettled, Alone
  <1>2. \A f \in Files : Exists(f) <=> row[f] \in Rows
    BY IdAssumption DEF TypeOK, Exists
  <1>3. ASSUME UNCHANGED <<row, blob>>, pc[r] # "idle",
               pc[r] \notin Busy \/ ~Exists(loc[r].file)
                  \/ (pc'[r] \in Busy /\ loc'[r].file = loc[r].file),
               WorksOnInactive(r)',
               \A q \in Requests : q # r => pc'[q] = pc[q] \/ pc'[q] = "idle"
        PROVE  Content'
    BY <1>1, <1>3, ContentStep DEF Exists, FreshIsEmpty
  <1>4. ASSUME NEW why, Die(why), UNCHANGED <<row, blob>>, pc[r] # "idle",
               pc[r] \notin Busy \/ ~Exists(loc[r].file)
        PROVE  Content'
    <2>1. \A q \in Requests : pc'[q] = "idle"
      BY <1>4 DEF Die
    <2>2. WorksOnInactive(r)'
      BY <2>1 DEF WorksOnInactive
    <2>3. UNCHANGED <<row, blob>> /\ pc[r] # "idle"
      BY <1>4
    <2>4. pc[r] \notin Busy \/ ~Exists(loc[r].file)
      BY <1>4 DEF Exists
    <2>5. \A q \in Requests : q # r => pc'[q] = pc[q] \/ pc'[q] = "idle"
      BY <2>1
    <2> QED BY <1>3, <2>2, <2>3, <2>4, <2>5
  <1>5. ASSUME End(r), UNCHANGED <<row, blob>>, pc[r] # "idle",
               pc[r] \notin Busy \/ ~Exists(loc[r].file)
        PROVE  Content'
    <2>1. pc'[r] = "idle" /\ \A q \in Requests : q # r => pc'[q] = pc[q]
      BY <1>5 DEF End, Goto, TypeOK
    <2>2. WorksOnInactive(r)'
      BY <2>1 DEF WorksOnInactive
    <2>3. UNCHANGED <<row, blob>> /\ pc[r] # "idle"
      BY <1>5
    <2>4. pc[r] \notin Busy \/ ~Exists(loc[r].file)
      BY <1>5 DEF Exists
    <2>5. \A q \in Requests : q # r => pc'[q] = pc[q] \/ pc'[q] = "idle"
      BY <2>1
    <2> QED BY <1>3, <2>2, <2>3, <2>4, <2>5
  <1>6. CASE UploadCreate(r)
    <2>1. PICK f \in Files :
            /\ row[f] = Fresh
            /\ row' = [row EXCEPT ![f] = [status |-> "PENDING", key |-> "pending",
                                         checksum |-> loc[r].body]]
            /\ loc' = [loc EXCEPT ![r].file = f]
      BY <1>6 DEF UploadCreate
    <2>2. /\ \A q \in Requests : q # r => pc[q] = "idle" /\ pc'[q] = "idle"
          /\ pc[r] = "create" /\ pc'[r] = "put" /\ UNCHANGED blob
      BY <1>6 DEF UploadCreate, Goto, TypeOK, Content, Alone
    <2>3. /\ \A g \in Files : g # f => row'[g] = row[g]
          /\ row'[f] = [status |-> "PENDING", key |-> "pending", checksum |-> loc[r].body]
          /\ loc'[r].file = f /\ loc'[r].body = loc[r].body
      BY <2>1 DEF TypeOK, Locals
    <2>4. row'[f] \in Rows
      BY <2>3 DEF TypeOK, Locals, Rows, Keys
    <2>5. Alone' /\ RowsSettled' /\ FreshIsEmpty'
      BY <1>1, <1>2, <2>2, <2>3, <2>4, Constants
      DEF Alone, RowsSettled, FreshIsEmpty, Exists
    <2>6. \A q \in Requests : WorksOnInactive(q)'
      BY <2>2, <2>3, <2>4, Constants DEF WorksOnInactive, HasStatus, Exists
    <2> QED BY <2>5, <2>6 DEF Content
  <1>7. CASE UploadPut(r) \/ UploadBytesPut(r)
    <2> DEFINE f == loc[r].file
    <2>1. /\ f \in Files /\ HasStatus(f, {"PENDING", "RETIRED", "PURGED"})
          /\ blob' = [blob EXCEPT ![f] = loc[r].body] /\ UNCHANGED <<row, loc>>
          /\ \/ pc[r] = "put" /\ Goto(r, "activate")
             \/ pc[r] = "putBytes" /\ Goto(r, "activateBytes")
      BY <1>1, <1>7 DEF UploadPut, UploadBytesPut, tables, HasFile, WorksOnInactive
    <2>2. /\ \A q \in Requests : q # r => pc'[q] = pc[q]
          /\ \A g \in Files : g # f => blob'[g] = blob[g]
          /\ blob'[f] = loc[r].body
          /\ \/ pc[r] = "put" /\ pc'[r] = "activate"
             \/ pc[r] = "putBytes" /\ pc'[r] = "activateBytes"
      BY <2>1 DEF Goto, TypeOK
    <2>3. WorksOnInactive(r)'
      BY <2>1, <2>2 DEF WorksOnInactive, HasStatus, Exists
    <2>4. row[f] # Fresh /\ (pc[r] = "put" => row[f].checksum = loc[r].body)
      BY <1>1, <2>1 DEF WorksOnInactive, HasStatus, Exists
    <2> QED BY <2>1, <2>2, <2>3, <2>4, ContentStep DEF Exists
  <1>8. CASE UploadPutFail(r) \/ DeleteBlobFail(r) \/ DeleteLinks(r)
    <2>1. /\ UNCHANGED <<row, blob, loc>>
          /\ \/ pc[r] = "put" /\ Goto(r, "discard")
             \/ pc[r] = "deleteBlob" /\ Goto(r, "deleteLinks")
             \/ pc[r] = "deleteLinks" /\ Goto(r, "purge")
      BY <1>8 DEF UploadPutFail, DeleteBlobFail, DeleteLinks, tables
    <2>2. /\ \A q \in Requests : q # r => pc'[q] = pc[q]
          /\ pc'[r] \in {"discard", "deleteLinks", "purge"} /\ pc[r] \in Doomed
      BY <2>1 DEF Goto, TypeOK
    <2>3. WorksOnInactive(r)'
      BY <1>1, <2>1, <2>2 DEF WorksOnInactive, HasStatus, Exists
    <2> QED BY <1>3, <2>1, <2>2, <2>3
  <1>9. CASE UploadDiscard(r) \/ DeleteRow(r)
    <2> DEFINE f == loc[r].file
    <2>1. f \in Files /\ Exists(f) /\ pc[r] # "idle"
      BY <1>1, <1>9 DEF UploadDiscard, DeleteRow, HasFile, WorksOnInactive, HasStatus
    <2>2. row' = [row EXCEPT ![f] = Gone] /\ End(r) /\ UNCHANGED blob
      BY <1>9, <2>1 DEF UploadDiscard, DeleteRow, RemoveRow
    <2>3. /\ \A q \in Requests : q # r => pc'[q] = pc[q]
          /\ pc'[r] = "idle" /\ row'[f] = Gone
          /\ \A g \in Files : g # f => row'[g] = row[g]
      BY <2>1, <2>2 DEF End, Goto, TypeOK
    <2>4. WorksOnInactive(r)'
      BY <2>3 DEF WorksOnInactive
    <2> QED BY <2>1, <2>2, <2>3, <2>4, ContentStep, IdAssumption DEF Exists
  <1>10. CASE UploadActivate(r) \/ PresignKey(r) \/ ActivateBytes(r) \/ RetireWrite(r)
              \/ RestoreWrite(r) \/ DeletePurge(r)
    <2> DEFINE f == loc[r].file
    <2>1. f \in Files /\ pc[r] # "idle" /\ UNCHANGED blob
      BY <1>10 DEF UploadActivate, PresignKey, ActivateBytes, RetireWrite, RestoreWrite,
                   DeletePurge, HasFile
    <2>2. ASSUME NEW at \in {"idle", "linkNew", "deleteRow"}, NEW new, Update(r, f, at, new),
                 Exists(f) => new \in Rows,
                 Exists(f) => \/ at \in {"idle", "linkNew"} /\ new.checksum = blob[f]
                              \/ at = "deleteRow" /\ new.status = "PURGED"
          PROVE  Content'
      <3>1. CASE Exists(f)
        <4>1. /\ row' = [row EXCEPT ![f] = new]
              /\ \/ at = "idle" /\ End(r)
                 \/ at # "idle" /\ Goto(r, at) /\ UNCHANGED loc
          BY <2>2, <3>1 DEF Update
        <4>2. /\ \A q \in Requests : q # r => pc'[q] = pc[q]
              /\ pc'[r] = at /\ row'[f] = new
              /\ \A g \in Files : g # f => row'[g] = row[g]
              /\ (at = "deleteRow" => loc'[r].file = f)
          BY <2>1, <4>1 DEF TypeOK, End, Goto
        <4>3. new # Fresh /\ new # Gone
          BY <2>2, <3>1, Constants
        <4>4. WorksOnInactive(r)'
          BY <2>2, <3>1, <4>2, <4>3 DEF WorksOnInactive, HasStatus, Exists
        <4>5. \A g \in Files : g = f =>
                /\ Exists(g)' => \/ blob'[g] = row'[g].checksum
                                 \/ pc'[r] \in Busy /\ loc'[r].file = g
                /\ row'[g] = Fresh => blob'[g] = None
          BY <2>1, <2>2, <3>1, <4>2, <4>3 DEF Exists
        <4>6. \A g \in Files : g # f => row'[g] = row[g] /\ blob'[g] = blob[g]
          BY <2>1, <4>2
        <4> QED BY <2>1, <4>2, <4>4, <4>5, <4>6, ContentStep
      <3>2. CASE ~Exists(f)
        BY <1>4, <2>1, <2>2, <3>2 DEF Update, Throw
      <3> QED BY <3>1, <3>2
    <2>3. Exists(f) =>
            /\ row[f] \in Rows
            /\ pc[r] \notin Busy => row[f].checksum = blob[f]
            /\ pc[r] = "activateBytes" => loc[r].body = blob[f]
            /\ loc[r].body \in Bodies \cup {None}
      BY <1>1, <1>2, <2>1 DEF WorksOnInactive, TypeOK, Locals
    <2>4. Exists(f) =>
            /\ [row[f] EXCEPT !.status = "ACTIVE", !.key = "own"] \in Rows
            /\ [row[f] EXCEPT !.key = "own"] \in Rows
            /\ [row[f] EXCEPT !.status = "RETIRED"] \in Rows
            /\ [row[f] EXCEPT !.status = "ACTIVE"] \in Rows
            /\ [row[f] EXCEPT !.status = "ACTIVE", !.checksum = loc[r].body] \in Rows
            /\ [row[f] EXCEPT !.status = "PURGED", !.key = "purged"] \in Rows
      BY <2>3 DEF Rows, Keys
    <2>5. Exists(f) =>
            /\ [row[f] EXCEPT !.status = "ACTIVE", !.key = "own"].checksum = row[f].checksum
            /\ [row[f] EXCEPT !.key = "own"].checksum = row[f].checksum
            /\ [row[f] EXCEPT !.status = "RETIRED"].checksum = row[f].checksum
            /\ [row[f] EXCEPT !.status = "ACTIVE"].checksum = row[f].checksum
            /\ [row[f] EXCEPT !.status = "ACTIVE", !.checksum = loc[r].body].checksum = loc[r].body
            /\ [row[f] EXCEPT !.status = "PURGED", !.key = "purged"].status = "PURGED"
      BY <2>3 DEF Rows
    <2>6. CASE UploadActivate(r)
      <3>1. PICK at \in {"idle", "linkNew"} :
              Update(r, f, at, [row[f] EXCEPT !.status = "ACTIVE", !.key = "own"])
        BY <2>6 DEF UploadActivate
      <3>2. pc[r] = "activate"
        BY <2>6 DEF UploadActivate
      <3> QED BY <2>2, <2>3, <2>4, <2>5, <3>1, <3>2
    <2>7. CASE PresignKey(r)
      BY <2>2, <2>3, <2>4, <2>5, <2>7 DEF PresignKey
    <2>8. CASE ActivateBytes(r)
      BY <2>2, <2>3, <2>4, <2>5, <2>8 DEF ActivateBytes
    <2>9. CASE RetireWrite(r)
      BY <2>2, <2>3, <2>4, <2>5, <2>9 DEF RetireWrite
    <2>10. CASE RestoreWrite(r)
      BY <2>2, <2>3, <2>4, <2>5, <2>10 DEF RestoreWrite
    <2>11. CASE DeletePurge(r)
      BY <2>2, <2>3, <2>4, <2>5, <2>11 DEF DeletePurge
    <2> QED BY <1>10, <2>6, <2>7, <2>8, <2>9, <2>10, <2>11
  <1>11. CASE UploadLink(r) \/ LinkCreate(r) \/ UnlinkDelete(r)
    <2>1. /\ UNCHANGED <<row, blob>> /\ pc[r] \notin Busy \cup {"idle"}
          /\ End(r) \/ Throw \/ Die({"foreign", "throw"})
      BY <1>11 DEF UploadLink, LinkCreate, CreateLink, UnlinkDelete
    <2> QED BY <1>4, <1>5, <2>1 DEF Throw
  <1>12. CASE UploadBytesFail(r)
    BY <1>4, <1>12 DEF UploadBytesFail, Throw, tables
  <1>13. CASE CompleteGetFail(r) \/ BackupPut(r) \/ BackupFail(r)
    BY <1>5, <1>13 DEF CompleteGetFail, BackupPut, BackupFail, tables
  <1>14. CASE CompleteGet(r)
    <2> DEFINE f == loc[r].file
    <2>1. /\ f \in Files /\ HasStatus(f, {"PENDING", "RETIRED", "PURGED"})
          /\ UNCHANGED <<row, blob>> /\ pc[r] = "getBytes"
      BY <1>1, <1>14 DEF CompleteGet, tables, HasFile, WorksOnInactive
    <2>2. CASE End(r)
      BY <1>5, <2>1, <2>2
    <2>3. CASE loc' = [loc EXCEPT ![r].body = blob[f]] /\ Goto(r, "activateBytes")
      <3>1. /\ \A q \in Requests : q # r => pc'[q] = pc[q]
            /\ pc'[r] = "activateBytes"
        BY <2>3 DEF Goto, TypeOK
      <3>2. loc'[r].file = f /\ loc'[r].body = blob[f]
        BY <2>3 DEF TypeOK, Locals
      <3>3. WorksOnInactive(r)'
        BY <2>1, <3>1, <3>2 DEF WorksOnInactive, HasStatus, Exists
      <3> QED BY <1>3, <2>1, <3>1, <3>3
    <2> QED BY <1>14, <2>2, <2>3 DEF CompleteGet
  <1>15. CASE LinkQuota(r) \/ LinkDedupe(r) \/ BackupRun(r)
    <2>1. /\ UNCHANGED <<row, blob>> /\ pc[r] \notin Busy \cup {"idle"}
          /\ \/ End(r)
             \/ UNCHANGED loc /\ \E at \in {"dedupe", "link", "backupPut"} : Goto(r, at)
      BY <1>15 DEF LinkQuota, LinkDedupe, BackupRun, tables
    <2>2. CASE End(r)
      BY <1>5, <2>1, <2>2
    <2>3. ASSUME NEW at \in {"dedupe", "link", "backupPut"}, Goto(r, at) PROVE Content'
      <3>1. pc'[r] = at /\ \A q \in Requests : q # r => pc'[q] = pc[q]
        BY <2>3 DEF Goto, TypeOK
      <3>2. WorksOnInactive(r)'
        BY <3>1 DEF WorksOnInactive
      <3> QED BY <1>3, <2>1, <3>1, <3>2
    <2> QED BY <2>1, <2>2, <2>3
  <1>16. CASE DeleteBlob(r)
    <2> DEFINE f == loc[r].file
    <2>1. /\ f \in Files /\ HasStatus(f, {"PENDING", "RETIRED", "PURGED"})
          /\ UNCHANGED <<row, loc>> /\ pc[r] = "deleteBlob" /\ Goto(r, "deleteLinks")
          /\ \A g \in Files : g # f => blob'[g] = blob[g]
      BY <1>1, <1>16 DEF DeleteBlob, tables, HasFile, WorksOnInactive, TypeOK
    <2>2. /\ \A q \in Requests : q # r => pc'[q] = pc[q]
          /\ pc'[r] = "deleteLinks"
      BY <2>1 DEF Goto, TypeOK
    <2>3. WorksOnInactive(r)'
      BY <2>1, <2>2 DEF WorksOnInactive, HasStatus, Exists
    <2> QED BY <2>1, <2>2, <2>3, ContentStep DEF HasStatus, Exists
  <1> QED BY <1>6, <1>7, <1>8, <1>9, <1>10, <1>11, <1>12, <1>13, <1>14, <1>15, <1>16 DEF Continue

LEMMA MishapsGrow == TypeOK /\ [Next]_vars => mishaps \subseteq mishaps'
  <1> SUFFICES ASSUME TypeOK, [Next]_vars PROVE mishaps \subseteq mishaps'
    OBVIOUS
  <1>1. ASSUME NEW r \in Requests, Arrive(r) PROVE mishaps \subseteq mishaps'
    BY <1>1 DEF Arrive, Upload, Presign, UploadBytes, Complete, Retire, Restore, Delete, Link,
                Unlink, Backup, Begin, Joined
  <1>2. ASSUME NEW r \in Requests, Continue(r) PROVE mishaps \subseteq mishaps'
    <2>1. \/ UNCHANGED mishaps
          \/ mishaps' = mishaps \cup {"storage"}
          \/ \E why : Die(why)
      BY <1>2
      DEF Continue, UploadCreate, UploadPut, UploadPutFail, UploadDiscard, UploadActivate,
          UploadLink, PresignKey, UploadBytesPut, UploadBytesFail, CompleteGet, CompleteGetFail,
          ActivateBytes, RetireWrite, RestoreWrite, DeleteBlob, DeleteBlobFail, DeleteLinks,
          DeletePurge, DeleteRow, LinkQuota, LinkDedupe, LinkCreate, UnlinkDelete, BackupRun,
          BackupPut, BackupFail, CreateLink, Update, Throw
    <2> QED BY <2>1 DEF Die
  <1>3. CASE Crash \/ \E r \in Requests : ParentMissing(r)
    BY <1>3, ParentMissingFacts DEF Crash, Die
  <1>4. CASE UNCHANGED vars \/ \E e \in Entities : Remove(e)
    BY <1>4 DEF vars, Remove, Joined
  <1> QED BY <1>1, <1>2, <1>3, <1>4 DEF Next

LEMMA NextContent == TypeOK /\ HasFile /\ ContentInv /\ [Next]_vars => ContentInv'
  <1> SUFFICES ASSUME TypeOK, HasFile, ContentInv, [Next]_vars,
                      mishaps' \subseteq {"storage", "foreign", "throw"}
               PROVE  Content'
    BY DEF ContentInv
  <1>1. Content
    BY MishapsGrow DEF ContentInv
  <1>2. CASE \E r \in Requests : Arrive(r) \/ Continue(r)
    BY <1>1, <1>2, ContentArrive, ContentContinue
  <1>3. CASE Crash
    BY <1>3 DEF Crash, Die
  <1>4. CASE UNCHANGED vars
    BY <1>1, <1>4 DEF vars, tables, Content, Alone, RowsSettled, WorksOnInactive, FreshIsEmpty,
                      HasStatus, Exists
  <1>5. ASSUME NEW r \in Requests, ParentMissing(r) PROVE Content'
    <2>1. UNCHANGED <<row, blob>> /\ \A q \in Requests : pc'[q] = "idle"
      BY <1>5, ParentMissingFacts DEF Die
    <2>2. \A q \in Requests : pc[q] \notin Busy
      <3>1. pc[r] = "create" \/ \A q \in Requests : pc[q] = "idle"
        BY <1>5, ParentMissingFacts
      <3> QED BY <1>1, <3>1 DEF Content, Alone, Busy
    <2> QED BY <1>1, <2>1, <2>2 DEF Content, Alone, RowsSettled, WorksOnInactive, FreshIsEmpty,
                                    Exists, Busy, Doomed
  <1>6. ASSUME NEW e \in Entities, Remove(e) PROVE Content'
    BY <1>1, <1>6 DEF Remove, Content, Alone, RowsSettled, WorksOnInactive, FreshIsEmpty,
                      HasStatus, Exists
  <1> QED BY <1>2, <1>3, <1>4, <1>5, <1>6 DEF Next

(* Until requests overlap or the server crashes, the bytes of an ACTIVE    *)
(* attachment are those of its checksum, whatever the store fails to do    *)
(* and whichever handlers ran before.                                      *)
THEOREM ActiveContentMatches == Spec => []ContentMatches
  <1>1. Init => ContentInv
    BY Constants DEF Init, ContentInv, Content, Alone, RowsSettled, WorksOnInactive, FreshIsEmpty,
                     HasStatus, Exists, Busy, Doomed
  <1> QED BY <1>1, NextContent, ContentImplies, InitTypeOK, NextTypeOK, InitHasFile, NextHasFile,
             PTL DEF Spec

-----------------------------------------------------------------------------
(* Nothing is left behind, and nothing throws, while nothing goes wrong    *)

(* Where the row of the request is needed, where its key is not yet known  *)
(* or no longer, and where its blob has been given up.                     *)
Working == {"put", "activate", "linkNew", "setKey", "putBytes", "getBytes", "activateBytes",
            "retire", "restore", "deleteBlob", "deleteLinks", "purge", "deleteRow",
            "count", "dedupe", "link"}
Unkeyed == {"put", "activate", "setKey", "deleteRow"}
ByKey == {"putBytes", "getBytes", "deleteBlob"}
Emptied == {"deleteLinks", "purge", "deleteRow"}

BlobsHaveRows == \A f \in Files : ~Exists(f) => blob[f] = None

KeysKnown ==
    \A f \in Files : Exists(f) =>
        \/ row[f].key = "own"
        \/ \E r \in Requests : pc[r] \in Unkeyed /\ loc[r].file = f

FindsWhatItNeeds(r) ==
    /\ pc[r] # "discard"
    /\ pc[r] \in Working => Exists(loc[r].file)
    /\ pc[r] \in ByKey => loc[r].key = "own"
    /\ pc[r] \in Emptied => blob[loc[r].file] = None
    /\ pc[r] = "unlink" => links[<<loc[r].file, loc[r].targets>>] > 0

Quiet ==
    /\ Alone
    /\ BlobsHaveRows
    /\ KeysKnown
    /\ \A r \in Requests : FindsWhatItNeeds(r)

QuietInv == mishaps \subseteq {"throw"} => mishaps = {} /\ Quiet

LEMMA QuietImplies == TypeOK /\ QuietInv => NoOrphanBlob /\ AloneNeverThrows
  BY DEF QuietInv, Quiet, BlobsHaveRows, NoOrphanBlob, AloneNeverThrows, TypeOK, Mishaps

(* The only request r takes a step, which concerns its own file only. *)
LEMMA QuietStep ==
  ASSUME Quiet, NEW r \in Requests, pc[r] # "idle",
         \A q \in Requests \ {r} : pc'[q] = pc[q],
         \A g \in Files : g # loc[r].file => row'[g] = row[g] /\ blob'[g] = blob[g],
         \A g \in Files : g = loc[r].file =>
            /\ ~Exists(g)' => blob'[g] = None
            /\ Exists(g)' => row'[g].key = "own" \/ (pc'[r] \in Unkeyed /\ loc'[r].file = g),
         FindsWhatItNeeds(r)'
  PROVE  Quiet'
  <1>1. \A q \in Requests : q # r => pc[q] = "idle" /\ pc'[q] = "idle"
    BY DEF Quiet, Alone
  <1>2. Alone'
    BY <1>1 DEF Alone
  <1>3. \A q \in Requests : FindsWhatItNeeds(q)'
    BY <1>1 DEF FindsWhatItNeeds, Working, ByKey, Emptied
  <1>4. BlobsHaveRows'
    BY DEF Quiet, BlobsHaveRows, Exists
  <1>5. KeysKnown'
    <2> SUFFICES ASSUME NEW f \in Files, Exists(f)'
                 PROVE  row'[f].key = "own" \/ \E q \in Requests : pc'[q] \in Unkeyed /\ loc'[q].file = f
      BY DEF KeysKnown
    <2>1. CASE f = loc[r].file
      BY <2>1
    <2>2. CASE f # loc[r].file
      <3>1. Exists(f) /\ row'[f] = row[f]
        BY <2>2 DEF Exists
      <3>2. \A q \in Requests : ~(pc[q] \in Unkeyed /\ loc[q].file = f)
        BY <1>1, <2>2 DEF Unkeyed
      <3> QED BY <3>1, <3>2 DEF Quiet, KeysKnown
    <2> QED BY <2>1, <2>2
  <1> QED BY <1>2, <1>3, <1>4, <1>5 DEF Quiet

(* The only request arrives. *)
LEMMA QuietBegin ==
  ASSUME Quiet, TypeOK, NEW r \in Requests, NEW at, NEW l, Begin(r, at, l),
         mishaps = {}, mishaps' \subseteq {"throw"},
         at \notin Unkeyed \cup Emptied \cup {"discard"},
         at \in Working => Exists(l.file),
         at \in ByKey => l.key = "own",
         at = "unlink" => links[<<l.file, l.targets>>] > 0,
         UNCHANGED <<row, blob, links>>
  PROVE  mishaps' = {} /\ Quiet'
  <1>1. mishaps' = {} /\ \A q \in Requests : pc[q] = "idle"
    BY DEF Begin, Joined
  <1>2. /\ \A q \in Requests : q # r => pc'[q] = "idle"
        /\ pc'[r] = at /\ loc'[r] = l
    BY <1>1 DEF Begin, Joined, TypeOK
  <1>3. Alone'
    BY <1>2 DEF Alone
  <1>4. KeysKnown' /\ BlobsHaveRows'
    BY <1>1 DEF Quiet, KeysKnown, BlobsHaveRows, Unkeyed, Exists
  <1>5. FindsWhatItNeeds(r)'
    BY <1>2 DEF FindsWhatItNeeds, Emptied, Exists
  <1>6. \A q \in Requests : FindsWhatItNeeds(q)'
    BY <1>2, <1>5 DEF FindsWhatItNeeds, Working, ByKey, Emptied
  <1> QED BY <1>1, <1>3, <1>4, <1>6 DEF Quiet

LEMMA QuietArrive ==
  ASSUME Quiet, TypeOK, NEW r \in Requests, Arrive(r), mishaps = {}, mishaps' \subseteq {"throw"}
  PROVE  mishaps' = {} /\ Quiet'
  <1> USE DEF Unkeyed, Emptied, ByKey, Working
  <1>1. \A q \in Requests : pc[q] = "idle"
    BY DEF Arrive, Upload, Presign, UploadBytes, Complete, Retire, Restore, Delete, Link, Unlink,
           Backup, Begin, Joined
  <1>2. \A f \in Files : Exists(f) => row[f].key = "own"
    BY <1>1 DEF Quiet, KeysKnown
  <1>3. CASE Presign(r)
    <2>1. PICK f \in Files :
            /\ row[f] = Fresh
            /\ row' = [row EXCEPT ![f] = [status |-> "PENDING", key |-> "pending", checksum |-> None]]
            /\ Begin(r, "setKey", [NoLocals EXCEPT !.file = f])
            /\ UNCHANGED blob
      BY <1>3 DEF Presign
    <2>2. /\ \A q \in Requests : q # r => pc'[q] = "idle"
          /\ pc'[r] = "setKey" /\ loc'[r].file = f /\ mishaps' = {}
      BY <1>1, <2>1 DEF Begin, Joined, TypeOK, NoLocals
    <2>3. row'[f] \in Rows /\ \A g \in Files : g # f => row'[g] = row[g]
      BY <2>1 DEF TypeOK, Rows, Keys
    <2>4. Exists(f)'
      BY <2>3, Constants DEF Exists
    <2>5. Alone' /\ KeysKnown' /\ BlobsHaveRows'
      BY <1>1, <2>1, <2>2, <2>3, <2>4 DEF Alone, Quiet, KeysKnown, BlobsHaveRows, Exists
    <2>6. \A q \in Requests : FindsWhatItNeeds(q)'
      BY <2>2, <2>4 DEF FindsWhatItNeeds
    <2> QED BY <2>2, <2>5, <2>6 DEF Quiet
  <1>4. CASE UploadBytes(r) \/ Complete(r) \/ Delete(r)
    <2>1. PICK f, at, l :
            f \in Files /\ at \in ByKey /\ Exists(f) /\ l.file = f /\ l.key = row[f].key /\ Begin(r, at, l)
      <3>1. CASE UploadBytes(r)
        <4>1. PICK f \in Files, b \in Bodies :
                /\ HasStatus(f, {"PENDING"})
                /\ Begin(r, "putBytes", [NoLocals EXCEPT !.file = f, !.body = b, !.key = row[f].key])
          BY <3>1 DEF UploadBytes
        <4> QED BY <4>1 DEF NoLocals, HasStatus
      <3>2. CASE Complete(r) \/ Delete(r)
        <4>1. PICK f \in Files, at \in {"getBytes", "deleteBlob"} :
                /\ Exists(f)
                /\ Begin(r, at, [NoLocals EXCEPT !.file = f, !.key = row[f].key])
          BY <3>2 DEF Complete, Delete, HasStatus
        <4> QED BY <4>1 DEF NoLocals
      <3> QED BY <1>4, <3>1, <3>2
    <2>2. UNCHANGED <<row, blob, links>>
      BY <1>4 DEF UploadBytes, Complete, Delete, tables
    <2> QED BY <1>2, <2>1, <2>2, QuietBegin
  <1>5. CASE Retire(r) \/ Restore(r) \/ Link(r)
    <2>1. PICK f, at, l :
            /\ f \in Files /\ at \in {"retire", "restore", "count"}
            /\ Exists(f) /\ l.file = f /\ Begin(r, at, l)
      BY <1>5 DEF Retire, Restore, Link, HasStatus, NoLocals
    <2>2. UNCHANGED <<row, blob, links>>
      BY <1>5 DEF Retire, Restore, Link, tables
    <2> QED BY <2>1, <2>2, QuietBegin
  <1>6. CASE Unlink(r)
    <2>1. PICK f, ts, l :
            links[<<f, ts>>] > 0 /\ l.file = f /\ l.targets = ts /\ Begin(r, "unlink", l)
      BY <1>6 DEF Unlink, NoLocals
    <2>2. UNCHANGED <<row, blob, links>>
      BY <1>6 DEF Unlink, tables
    <2> QED BY <2>1, <2>2, QuietBegin
  <1>7. CASE Upload(r) \/ Backup(r)
    <2>1. \E l : Begin(r, "create", l) \/ Begin(r, "backupRun", l)
      BY <1>7 DEF Upload, Backup
    <2>2. UNCHANGED <<row, blob, links>>
      BY <1>7 DEF Upload, Backup, tables
    <2> QED BY <2>1, <2>2, QuietBegin
  <1> QED BY <1>3, <1>4, <1>5, <1>6, <1>7 DEF Arrive

(* The only request goes on, and what it looks for is there. *)
LEMMA QuietContinue ==
  ASSUME Quiet, TypeOK, HasFile, NEW r \in Requests, Continue(r),
         mishaps = {}, mishaps' \subseteq {"throw"}
  PROVE  mishaps' = {} /\ Quiet'
  <1> USE DEF Unkeyed, Emptied, ByKey, Working
  <1> DEFINE f == loc[r].file
  <1>1. /\ FindsWhatItNeeds(r)
        /\ \A g \in Files : Exists(g) =>
              row[g].key = "own" \/ (pc[r] \in Unkeyed /\ g = f) \/ pc[r] = "idle"
    BY DEF Quiet, KeysKnown, Alone
  <1>2. pc[r] \in Working \cup {"unlink", "discard"} => f \in Files
    BY DEF HasFile
  <1>3. \A g \in Files : Exists(g) <=> row[g] \in Rows
    BY IdAssumption DEF TypeOK, Exists
  (* Only the place of the request changes. *)
  <1>4. ASSUME NEW at, Goto(r, at) \/ (at = "idle" /\ End(r)), UNCHANGED <<row, blob, links>>,
               pc[r] # "idle", pc[r] \notin Unkeyed,
               at = "idle" \/ UNCHANGED loc,
               at \in Working => Exists(f), at \in ByKey => loc[r].key = "own",
               at \in Emptied => blob[f] = None, at # "discard", at # "unlink"
        PROVE  Quiet'
    <2>1. pc'[r] = at /\ \A q \in Requests \ {r} : pc'[q] = pc[q]
      BY <1>4 DEF Goto, End, TypeOK
    <2>2. FindsWhatItNeeds(r)'
      BY <1>4, <2>1 DEF FindsWhatItNeeds, Exists
    <2>3. \A g \in Files : /\ ~Exists(g)' => blob'[g] = None
                           /\ Exists(g)' => row'[g].key = "own"
      BY <1>1, <1>4 DEF Quiet, BlobsHaveRows, Exists
    <2>4. \A g \in Files : row'[g] = row[g] /\ blob'[g] = blob[g]
      BY <1>4
    <2>5. pc[r] # "idle"
      BY <1>4
    <2> QED BY <2>1, <2>2, <2>3, <2>4, <2>5, QuietStep
  <1>5. CASE UploadCreate(r)
    <2>1. PICK g \in Files :
            /\ row[g] = Fresh
            /\ row' = [row EXCEPT ![g] = [status |-> "PENDING", key |-> "pending",
                                         checksum |-> loc[r].body]]
            /\ loc' = [loc EXCEPT ![r].file = g]
      BY <1>5 DEF UploadCreate
    <2>2. /\ \A q \in Requests : q # r => pc[q] = "idle" /\ pc'[q] = "idle"
          /\ pc[r] = "create" /\ pc'[r] = "put" /\ UNCHANGED <<blob, links, mishaps>>
      BY <1>5 DEF UploadCreate, Goto, TypeOK, Quiet, Alone
    <2>3. /\ \A h \in Files : h # g => row'[h] = row[h]
          /\ row'[g] = [status |-> "PENDING", key |-> "pending", checksum |-> loc[r].body]
          /\ loc'[r].file = g
      BY <2>1 DEF TypeOK, Locals
    <2>4. Exists(g)'
      BY <2>3, Constants DEF TypeOK, Locals, Rows, Keys, Exists
    <2>5. Alone' /\ BlobsHaveRows'
      BY <2>2, <2>3, <2>4 DEF Alone, Quiet, BlobsHaveRows, Exists
    <2>6. KeysKnown'
      BY <1>1, <2>2, <2>3 DEF KeysKnown, Exists
    <2>7. \A q \in Requests : FindsWhatItNeeds(q)'
      BY <2>2, <2>3, <2>4 DEF FindsWhatItNeeds
    <2> QED BY <2>2, <2>5, <2>6, <2>7 DEF Quiet
  <1>6. CASE UploadPut(r) \/ UploadBytesPut(r)
    <2>1. /\ f \in Files /\ Exists(f) /\ pc[r] # "idle"
          /\ blob' = [blob EXCEPT ![f] = loc[r].body] /\ UNCHANGED <<row, loc, links, mishaps>>
          /\ \/ pc[r] = "put" /\ Goto(r, "activate")
             \/ pc[r] = "putBytes" /\ Goto(r, "activateBytes")
      BY <1>1, <1>2, <1>6 DEF UploadPut, UploadBytesPut, tables, FindsWhatItNeeds
    <2>2. /\ \A q \in Requests \ {r} : pc'[q] = pc[q]
          /\ \A g \in Files : g # f => blob'[g] = blob[g]
          /\ \/ pc[r] = "put" /\ pc'[r] = "activate"
             \/ pc[r] = "putBytes" /\ pc'[r] = "activateBytes"
      BY <2>1 DEF Goto, TypeOK
    <2>3. FindsWhatItNeeds(r)'
      BY <2>1, <2>2 DEF FindsWhatItNeeds, Exists
    <2>4. \A g \in Files : g = f =>
            /\ ~Exists(g)' => blob'[g] = None
            /\ Exists(g)' => row'[g].key = "own" \/ (pc'[r] \in Unkeyed /\ loc'[r].file = g)
      BY <1>1, <2>1, <2>2 DEF Exists
    <2>5. Quiet'
      BY <2>1, <2>2, <2>3, <2>4, QuietStep
    <2> QED BY <2>1, <2>5
  <1>7. CASE UploadPutFail(r) \/ UploadDiscard(r) \/ UploadBytesFail(r) \/ CompleteGetFail(r)
             \/ DeleteBlobFail(r) \/ BackupFail(r)
    <2>1. "storage" \in mishaps'
      BY <1>1, <1>7
      DEF UploadPutFail, UploadDiscard, UploadBytesFail, CompleteGetFail, DeleteBlobFail,
          BackupFail, FindsWhatItNeeds, assertAttachmentStorageKey, Die
    <2> QED BY <2>1
  <1>8. CASE UploadActivate(r) \/ PresignKey(r) \/ ActivateBytes(r) \/ RetireWrite(r)
             \/ RestoreWrite(r) \/ DeletePurge(r)
    <2>1. f \in Files /\ Exists(f) /\ pc[r] # "idle" /\ UNCHANGED <<blob, links>>
      BY <1>1, <1>2, <1>8 DEF UploadActivate, PresignKey, ActivateBytes, RetireWrite,
                              RestoreWrite, DeletePurge, FindsWhatItNeeds
    <2>2. ASSUME NEW at \in {"idle", "linkNew", "deleteRow"}, NEW new, Update(r, f, at, new),
                 new \in Rows,
                 \/ at \in {"idle", "linkNew"} /\ new.key = "own"
                 \/ at = "deleteRow" /\ blob[f] = None
          PROVE  mishaps' = {} /\ Quiet'
      <3>1. /\ row' = [row EXCEPT ![f] = new] /\ UNCHANGED mishaps
            /\ \/ at = "idle" /\ End(r)
               \/ at # "idle" /\ Goto(r, at) /\ UNCHANGED loc
        BY <2>1, <2>2 DEF Update
      <3>2. /\ \A q \in Requests \ {r} : pc'[q] = pc[q]
            /\ pc'[r] = at /\ row'[f] = new
            /\ \A g \in Files : g # f => row'[g] = row[g]
            /\ (at # "idle" => loc'[r].file = f)
        BY <2>1, <3>1 DEF TypeOK, End, Goto
      <3>3. row'[f] # Fresh /\ row'[f] # Gone
        BY <2>2, <3>2, Constants
      <3>4. FindsWhatItNeeds(r)'
        BY <2>1, <2>2, <3>2, <3>3 DEF FindsWhatItNeeds, Exists
      <3>5. \A g \in Files : g = f =>
              /\ ~Exists(g)' => blob'[g] = None
              /\ Exists(g)' => row'[g].key = "own" \/ (pc'[r] \in Unkeyed /\ loc'[r].file = g)
        BY <2>2, <3>2, <3>3 DEF Exists
      <3>6. \A g \in Files : g # f => row'[g] = row[g] /\ blob'[g] = blob[g]
        BY <2>1, <3>2
      <3>7. Quiet'
        BY <2>1, <3>2, <3>4, <3>5, <3>6, QuietStep
      <3> QED BY <3>1, <3>7
    <2>3. row[f] \in Rows /\ loc[r].body \in Bodies \cup {None}
          /\ (pc[r] \notin Unkeyed => row[f].key = "own")
      BY <1>1, <1>3, <2>1 DEF TypeOK, Locals
    <2>4. /\ [row[f] EXCEPT !.status = "ACTIVE", !.key = "own"] \in Rows
          /\ [row[f] EXCEPT !.key = "own"] \in Rows
          /\ [row[f] EXCEPT !.status = "RETIRED"] \in Rows
          /\ [row[f] EXCEPT !.status = "ACTIVE"] \in Rows
          /\ [row[f] EXCEPT !.status = "ACTIVE", !.checksum = loc[r].body] \in Rows
          /\ [row[f] EXCEPT !.status = "PURGED", !.key = "purged"] \in Rows
      BY <2>3 DEF Rows, Keys
    <2>5. /\ [row[f] EXCEPT !.status = "ACTIVE", !.key = "own"].key = "own"
          /\ [row[f] EXCEPT !.key = "own"].key = "own"
          /\ [row[f] EXCEPT !.status = "RETIRED"].key = row[f].key
          /\ [row[f] EXCEPT !.status = "ACTIVE"].key = row[f].key
          /\ [row[f] EXCEPT !.status = "ACTIVE", !.checksum = loc[r].body].key = row[f].key
      BY <2>3 DEF Rows
    <2>6. CASE UploadActivate(r)
      <3>1. PICK at \in {"idle", "linkNew"} :
              Update(r, f, at, [row[f] EXCEPT !.status = "ACTIVE", !.key = "own"])
        BY <2>6 DEF UploadActivate
      <3> QED BY <2>2, <2>4, <2>5, <3>1
    <2>7. CASE PresignKey(r)
      BY <2>2, <2>4, <2>5, <2>7 DEF PresignKey
    <2>8. CASE ActivateBytes(r)
      BY <2>2, <2>3, <2>4, <2>5, <2>8 DEF ActivateBytes
    <2>9. CASE RetireWrite(r)
      BY <2>2, <2>3, <2>4, <2>5, <2>9 DEF RetireWrite
    <2>10. CASE RestoreWrite(r)
      BY <2>2, <2>3, <2>4, <2>5, <2>10 DEF RestoreWrite
    <2>11. CASE DeletePurge(r)
      <3>1. blob[f] = None
        BY <1>1, <2>11 DEF DeletePurge, FindsWhatItNeeds
      <3> QED BY <2>2, <2>4, <2>11, <3>1 DEF DeletePurge
    <2> QED BY <1>8, <2>6, <2>7, <2>8, <2>9, <2>10, <2>11
  <1>9. CASE UploadLink(r) \/ LinkCreate(r) \/ UnlinkDelete(r)
    <2>1. /\ UNCHANGED <<row, blob, mishaps>> /\ End(r)
          /\ pc[r] \notin Unkeyed \cup {"idle"}
      <3>1. ~Die({"foreign", "throw"})
        BY DEF Die
      <3> QED BY <1>1, <1>9, <3>1
              DEF UploadLink, LinkCreate, CreateLink, UnlinkDelete, FindsWhatItNeeds
    <2>2. pc'[r] = "idle" /\ \A q \in Requests \ {r} : pc'[q] = pc[q]
      BY <2>1 DEF End, Goto, TypeOK
    <2>3. FindsWhatItNeeds(r)'
      BY <2>2 DEF FindsWhatItNeeds
    <2>4. \A g \in Files : /\ row'[g] = row[g] /\ blob'[g] = blob[g]
                           /\ ~Exists(g)' => blob'[g] = None
                           /\ Exists(g)' => row'[g].key = "own"
      BY <1>1, <2>1 DEF Quiet, BlobsHaveRows, Exists
    <2>5. Quiet'
      BY <2>1, <2>2, <2>3, <2>4, QuietStep
    <2> QED BY <2>1, <2>5
  <1>10. CASE CompleteGet(r)
    <2>1. /\ f \in Files /\ Exists(f) /\ pc[r] = "getBytes"
          /\ UNCHANGED <<row, blob, links, mishaps>>
      BY <1>1, <1>2, <1>10 DEF CompleteGet, tables, FindsWhatItNeeds
    <2>2. CASE End(r)
      BY <1>4, <2>1, <2>2
    <2>3. CASE loc' = [loc EXCEPT ![r].body = blob[f]] /\ Goto(r, "activateBytes")
      <3>1. /\ \A q \in Requests \ {r} : pc'[q] = pc[q]
            /\ pc'[r] = "activateBytes" /\ loc'[r].file = f
        BY <2>3 DEF Goto, TypeOK, Locals
      <3>2. FindsWhatItNeeds(r)'
        BY <2>1, <3>1 DEF FindsWhatItNeeds, Exists
      <3>3. \A g \in Files : /\ row'[g] = row[g] /\ blob'[g] = blob[g]
                             /\ ~Exists(g)' => blob'[g] = None
                             /\ Exists(g)' => row'[g].key = "own"
        BY <1>1, <2>1 DEF Quiet, BlobsHaveRows, Exists
      <3> QED BY <2>1, <3>1, <3>2, <3>3, QuietStep
    <2> QED BY <1>10, <2>1, <2>2, <2>3 DEF CompleteGet
  <1>11. CASE LinkQuota(r) \/ LinkDedupe(r) \/ BackupRun(r) \/ BackupPut(r)
    <2>1. /\ UNCHANGED <<row, blob, links, mishaps>> /\ pc[r] \notin Unkeyed \cup {"idle"}
          /\ \/ End(r)
             \/ UNCHANGED loc /\ Exists(f) /\ \E at \in {"dedupe", "link"} : Goto(r, at)
             \/ UNCHANGED loc /\ Goto(r, "backupPut")
      BY <1>1, <1>11 DEF LinkQuota, LinkDedupe, BackupRun, BackupPut, tables, FindsWhatItNeeds
    <2>2. CASE End(r)
      BY <1>4, <2>1, <2>2
    <2>3. CASE UNCHANGED loc /\ Exists(f) /\ \E at \in {"dedupe", "link"} : Goto(r, at)
      BY <1>4, <2>1, <2>3
    <2>4. CASE UNCHANGED loc /\ Goto(r, "backupPut")
      BY <1>4, <2>1, <2>4
    <2> QED BY <2>1, <2>2, <2>3, <2>4
  <1>12. CASE DeleteBlob(r)
    <2>1. /\ f \in Files /\ Exists(f) /\ pc[r] = "deleteBlob" /\ Goto(r, "deleteLinks")
          /\ blob' = [blob EXCEPT ![f] = None] /\ UNCHANGED <<row, loc, mishaps>>
      BY <1>1, <1>2, <1>12
      DEF DeleteBlob, tables, FindsWhatItNeeds, assertAttachmentStorageKey
    <2>2. /\ \A q \in Requests \ {r} : pc'[q] = pc[q]
          /\ pc'[r] = "deleteLinks" /\ blob'[f] = None
          /\ \A g \in Files : g # f => blob'[g] = blob[g]
      BY <2>1 DEF Goto, TypeOK
    <2>3. FindsWhatItNeeds(r)'
      BY <2>1, <2>2 DEF FindsWhatItNeeds, Exists
    <2>4. \A g \in Files : g = f =>
            (~Exists(g)' => blob'[g] = None) /\ (Exists(g)' => row'[g].key = "own")
      BY <1>1, <2>1, <2>2 DEF Exists
    <2>5. Quiet'
      BY <2>1, <2>2, <2>3, <2>4, QuietStep
    <2> QED BY <2>1, <2>5
  <1>13. CASE DeleteLinks(r)
    <2>1. /\ pc[r] = "deleteLinks" /\ Goto(r, "purge") /\ UNCHANGED <<row, blob, loc, mishaps>>
          /\ f \in Files /\ Exists(f) /\ blob[f] = None
      BY <1>1, <1>2, <1>13 DEF DeleteLinks, FindsWhatItNeeds
    <2>2. pc'[r] = "purge" /\ \A q \in Requests \ {r} : pc'[q] = pc[q]
      BY <2>1 DEF Goto, TypeOK
    <2>3. FindsWhatItNeeds(r)'
      BY <2>1, <2>2 DEF FindsWhatItNeeds, Exists
    <2>4. \A g \in Files : /\ row'[g] = row[g] /\ blob'[g] = blob[g]
                           /\ ~Exists(g)' => blob'[g] = None
                           /\ Exists(g)' => row'[g].key = "own"
      BY <1>1, <2>1 DEF Quiet, BlobsHaveRows, Exists
    <2>5. Quiet'
      BY <2>1, <2>2, <2>3, <2>4, QuietStep
    <2> QED BY <2>1, <2>5
  <1>14. CASE DeleteRow(r)
    <2>1. /\ f \in Files /\ Exists(f) /\ blob[f] = None /\ pc[r] # "idle"
          /\ row' = [row EXCEPT ![f] = Gone] /\ End(r) /\ UNCHANGED <<blob, mishaps>>
      BY <1>1, <1>2, <1>14 DEF DeleteRow, RemoveRow, FindsWhatItNeeds
    <2>2. /\ \A q \in Requests \ {r} : pc'[q] = pc[q]
          /\ pc'[r] = "idle" /\ row'[f] = Gone
          /\ \A g \in Files : g # f => row'[g] = row[g]
      BY <2>1 DEF End, Goto, TypeOK
    <2>3. FindsWhatItNeeds(r)'
      BY <2>2 DEF FindsWhatItNeeds
    <2>4. \A g \in Files : g = f => (~Exists(g)' /\ blob'[g] = None)
      BY <2>1, <2>2 DEF Exists
    <2>5. Quiet'
      BY <2>1, <2>2, <2>3, <2>4, QuietStep
    <2> QED BY <2>1, <2>5
  <1> QED BY <1>5, <1>6, <1>7, <1>8, <1>9, <1>10, <1>11, <1>12, <1>13, <1>14 DEF Continue

LEMMA NextQuiet == TypeOK /\ HasFile /\ QuietInv /\ [Next]_vars => QuietInv'
  <1> SUFFICES ASSUME TypeOK, HasFile, QuietInv, [Next]_vars, mishaps' \subseteq {"throw"}
               PROVE  mishaps' = {} /\ Quiet'
    BY DEF QuietInv
  <1>1. mishaps = {} /\ Quiet
    BY MishapsGrow DEF QuietInv
  <1>2. CASE \E r \in Requests : Arrive(r) \/ Continue(r)
    BY <1>1, <1>2, QuietArrive, QuietContinue
  <1>3. CASE Crash
    BY <1>3 DEF Crash, Die
  <1>4. CASE UNCHANGED vars
    BY <1>1, <1>4 DEF vars, tables, Quiet, Alone, KeysKnown, BlobsHaveRows, FindsWhatItNeeds,
                      Exists
  <1>5. ASSUME NEW r \in Requests, ParentMissing(r) PROVE FALSE
    BY <1>5, ParentMissingFacts DEF Die
  <1>6. ASSUME NEW e \in Entities, Remove(e) PROVE mishaps' = {} /\ Quiet'
    <2>1. mishaps' = {} /\ UNCHANGED <<row, blob, pc, loc>> /\ \A q \in Requests : pc[q] = "idle"
      BY <1>1, <1>6 DEF Remove, Joined
    <2> QED BY <1>1, <2>1 DEF Quiet, Alone, KeysKnown, BlobsHaveRows, FindsWhatItNeeds, Exists,
                              Working, ByKey, Emptied
  <1> QED BY <1>2, <1>3, <1>4, <1>5, <1>6 DEF Next

LEMMA QuietAlways == Spec => []QuietInv
  <1>1. Init => QuietInv
    BY DEF Init, QuietInv, Quiet, Alone, KeysKnown, BlobsHaveRows, FindsWhatItNeeds,
           Exists, Working, ByKey, Emptied
  <1> QED BY <1>1, NextQuiet, InitTypeOK, NextTypeOK, InitHasFile, NextHasFile, PTL DEF Spec

(* As long as nothing goes wrong, every object in the store belongs to a   *)
(* row: a hard delete knows the key under which the bytes were put.        *)
THEOREM NoBlobWithoutRow == Spec => []NoOrphanBlob
  BY QuietAlways, QuietImplies, TypeCorrect, PTL

(* Handlers that never overlap, over a store that works and without a      *)
(* crash, find the rows they write to: no await of theirs throws but on a  *)
(* parent or a target that the request names and that does not exist.      *)
THEOREM AloneIsSafe == Spec => []AloneNeverThrows
  BY QuietAlways, QuietImplies, TypeCorrect, PTL

-----------------------------------------------------------------------------
(* The quota of links *)

(* The requests that have passed the quota of entity e and not linked yet. *)
Passing == {"create", "put", "activate", "linkNew", "dedupe", "link"}
Passed(e) == {r \in Requests : /\ pc[r] \in Passing
                               /\ loc[r].targets # {} /\ Counted(loc[r].targets) = e}

Slack == IF "overlap" \in mishaps THEN Cardinality(Requests) - 1 ELSE 0

AloneInv == "overlap" \notin mishaps => Alone

AllLinks == LinksAt(Files \X Targets)
CountedSize(e) == Cardinality(CountedLinks(e))

(* Every request that has passed is counted as if it had linked.           *)
QuotaInv ==
    /\ IsFiniteSet(AllLinks)
    /\ \A e \in Entities : CountedSize(e) + Cardinality(Passed(e)) <= MaxLinks + Slack

(* Files and targets that are to be linked are not linked yet.             *)
OnceInv ==
    "overlap" \notin mishaps =>
        /\ \A p \in Files \X Targets : links[p] <= 1
        /\ \A f \in Files, ts \in Targets : row[f] = Fresh => links[<<f, ts>>] = 0
        /\ \A r \in Requests, ts \in Targets :
              \/ pc[r] \in {"put", "activate", "linkNew"}
              \/ pc[r] = "link" /\ loc[r].targets = ts
              => links[<<loc[r].file, ts>>] = 0

(* The target that is counted is one of those that are named. *)
LEMMA CountedIn ==
  ASSUME NEW ts \in Targets
  PROVE  Counted(ts) \in ts
  <1> DEFINE First(e) ==
        \/ e \in Features
        \/ e \in Requirements /\ ts \cap Features = {}
        \/ e \in Initiatives /\ ts \cap (Features \cup Requirements) = {}
        \/ e \in Demands /\ ts \cap (Features \cup Requirements \cup Initiatives) = {}
        \/ e \in Sessions /\ ts \subseteq Sessions
  <1>1. /\ ts # {}
        /\ ts \subseteq Features \cup Requirements \cup Initiatives \cup Demands \cup Sessions
    BY TargetsAssumption DEF Entities, Kinds
  <1>2. \E e \in ts : First(e)
    <2>1. CASE ts \cap Features # {}
      BY <2>1
    <2>2. CASE ts \cap Features = {} /\ ts \cap Requirements # {}
      BY <2>2
    <2>3. CASE ts \cap (Features \cup Requirements) = {} /\ ts \cap Initiatives # {}
      BY <2>3
    <2>4. CASE ts \cap (Features \cup Requirements \cup Initiatives) = {} /\ ts \cap Demands # {}
      BY <2>4
    <2>5. CASE ts \cap (Features \cup Requirements \cup Initiatives \cup Demands) = {}
      <3>1. ts \subseteq Sessions
        BY <1>1, <2>5
      <3> QED BY <1>1, <3>1
    <2> QED BY <2>1, <2>2, <2>3, <2>4, <2>5
  <1>3. Counted(ts) = CHOOSE e \in ts : First(e)
    BY DEF Counted
  <1> HIDE DEF First
  <1> QED BY <1>2, <1>3

LEMMA LinksAtSubset ==
  ASSUME NEW places, NEW more, places \subseteq more
  PROVE  LinksAt(places) \subseteq LinksAt(more)
  BY DEF LinksAt

LEMMA CountedAreLinksOf ==
  ASSUME NEW e
  PROVE  CountedLinks(e) \subseteq LinksOf(e) /\ LinksOf(e) \subseteq AllLinks
  <1>1. {p \in Files \X Targets : Counted(p[2]) = e} \subseteq {p \in Files \X Targets : e \in p[2]}
    BY CountedIn
  <1>2. {p \in Files \X Targets : e \in p[2]} \subseteq Files \X Targets
    OBVIOUS
  <1> QED BY <1>1, <1>2, LinksAtSubset DEF CountedLinks, LinksOf, AllLinks

LEMMA InitQuota == Init => AloneInv /\ QuotaInv /\ OnceInv
  <1> SUFFICES ASSUME Init PROVE AloneInv /\ QuotaInv /\ OnceInv
    OBVIOUS
  <1>1. \A r \in Requests : pc[r] = "idle"
    BY DEF Init
  <1>2. \A p \in Files \X Targets : links[p] = 0
    BY DEF Init
  <1>3. AloneInv
    BY <1>1 DEF AloneInv, Alone
  <1>4. OnceInv
    <2>1. \A f \in Files, ts \in Targets : links[<<f, ts>>] = 0
      BY <1>2
    <2> QED BY <1>1, <1>2, <2>1 DEF OnceInv
  <1>5. AllLinks = {}
    <2>1. \A p \in Files \X Targets : 1..links[p] = {}
      BY <1>2
    <2> QED BY <2>1 DEF AllLinks, LinksAt
  <1>6. ASSUME NEW e \in Entities PROVE CountedLinks(e) = {} /\ Passed(e) = {}
    BY <1>1, <1>5, CountedAreLinksOf DEF Passed, Passing
  <1>7. QuotaInv
    <2>1. Cardinality({}) = 0 /\ IsFiniteSet({})
      BY FS_EmptySet
    <2>2. Slack = 0 /\ MaxLinks \in Nat
      BY AttachmentsAssumption DEF Init, Slack
    <2> HIDE DEF Slack
    <2> QED BY <1>5, <1>6, <2>1, <2>2 DEF QuotaInv, CountedSize
  <1> QED BY <1>3, <1>4, <1>7

(* Finiteness and sizes of what is counted. *)
LEMMA Sizes ==
  ASSUME QuotaInv, NEW e \in Entities
  PROVE  /\ IsFiniteSet(CountedLinks(e)) /\ CountedSize(e) \in Nat
         /\ LinkCount(e) \in Nat /\ CountedSize(e) <= LinkCount(e)
         /\ IsFiniteSet(Passed(e)) /\ Cardinality(Passed(e)) \in Nat
         /\ Cardinality(Passed(e)) <= Cardinality(Requests)
         /\ Cardinality(Requests) \in Nat /\ MaxLinks \in Nat
  <1>1. IsFiniteSet(Requests) /\ Passed(e) \in SUBSET Requests
    BY AttachmentsAssumption DEF Passed
  <1>2. LinksOf(e) \in SUBSET AllLinks /\ CountedLinks(e) \in SUBSET LinksOf(e)
    BY CountedAreLinksOf
  <1>3. IsFiniteSet(LinksOf(e))
    BY <1>2, FS_Subset DEF QuotaInv
  <1>4. IsFiniteSet(CountedLinks(e)) /\ CountedSize(e) <= LinkCount(e)
    BY <1>2, <1>3, FS_Subset DEF CountedSize, LinkCount
  <1> QED
    BY <1>1, <1>3, <1>4, FS_Subset, FS_CardinalityType, AttachmentsAssumption
    DEF CountedSize, LinkCount

(* A step in which nobody passes and nothing is linked. *)
LEMMA QuotaShrinks ==
  ASSUME QuotaInv, mishaps \subseteq mishaps', Requests # {} \/ UNCHANGED mishaps,
         NEW e \in Entities,
         CountedLinks(e)' \subseteq CountedLinks(e), Passed(e)' \subseteq Passed(e)
  PROVE  CountedSize(e)' + Cardinality(Passed(e)') <= MaxLinks + Slack'
  <1>1. CountedSize(e)' <= CountedSize(e) /\ CountedSize(e)' \in Nat
    BY Sizes, FS_Subset, FS_CardinalityType DEF CountedSize
  <1>2. /\ Cardinality(Passed(e)') <= Cardinality(Passed(e))
        /\ Cardinality(Passed(e)') \in Nat
    BY Sizes, FS_Subset, FS_CardinalityType
  <1>3. Requests # {} => Cardinality(Requests) >= 1
    BY Sizes, FS_EmptySet, AttachmentsAssumption
  <1>4. Slack <= Slack' /\ Slack \in Int /\ Slack' \in Int
    BY <1>3, Sizes DEF Slack
  <1>5. CountedSize(e) + Cardinality(Passed(e)) <= MaxLinks + Slack
    BY DEF QuotaInv
  <1>6. CountedSize(e) \in Nat /\ Cardinality(Passed(e)) \in Nat /\ MaxLinks \in Nat
    BY Sizes
  <1> HIDE DEF Slack
  <1> QED BY <1>1, <1>2, <1>4, <1>5, <1>6

(* The request r passes the quota: alone, or with the slack of the others. *)
LEMMA QuotaPasses ==
  ASSUME QuotaInv, NEW r \in Requests, NEW e \in Entities, LinkCount(e) < MaxLinks,
         CountedLinks(e)' = CountedLinks(e), "overlap" \in mishaps' \/ Passed(e)' \subseteq {r}
  PROVE  CountedSize(e)' + Cardinality(Passed(e)') <= MaxLinks + Slack'
  <1>1. /\ CountedSize(e)' = CountedSize(e)
        /\ CountedSize(e) \in Nat /\ MaxLinks \in Nat /\ CountedSize(e) + 1 <= MaxLinks
    BY Sizes DEF CountedSize
  <1>2. IsFiniteSet(Requests) /\ Passed(e)' \in SUBSET Requests
    BY AttachmentsAssumption DEF Passed
  <1>3. /\ Cardinality(Passed(e)') \in Nat /\ Cardinality(Requests) \in Nat
        /\ Cardinality(Passed(e)') <= Cardinality(Requests)
    BY <1>2, FS_Subset, FS_CardinalityType
  <1>4. CASE "overlap" \in mishaps'
    BY <1>1, <1>3, <1>4 DEF Slack
  <1>5. CASE "overlap" \notin mishaps' /\ Passed(e)' \subseteq {r}
    <2>1. IsFiniteSet({r}) /\ Cardinality({r}) = 1
      BY FS_Singleton
    <2>2. Passed(e)' \in SUBSET {r}
      BY <1>5
    <2>3. Cardinality(Passed(e)') <= 1
      BY <2>1, <2>2, FS_Subset
    <2> QED BY <1>1, <1>3, <1>5, <2>3 DEF Slack
  <1> QED BY <1>4, <1>5

(* The request r links. *)
LEMMA QuotaLinks ==
  ASSUME QuotaInv, NEW r \in Requests, NEW e \in Entities, NEW x, UNCHANGED mishaps,
         CountedLinks(e)' = CountedLinks(e) \cup {x}, r \in Passed(e),
         Passed(e)' \subseteq Passed(e) \ {r}
  PROVE  CountedSize(e)' + Cardinality(Passed(e)') <= MaxLinks + Slack'
  <1>1. CountedSize(e)' <= CountedSize(e) + 1 /\ CountedSize(e)' \in Nat /\ CountedSize(e) \in Nat
    <2>1. IsFiniteSet(CountedLinks(e))
      BY Sizes
    <2>2. /\ IsFiniteSet(CountedLinks(e)')
          /\ Cardinality(CountedLinks(e)') =
               IF x \in CountedLinks(e) THEN Cardinality(CountedLinks(e))
               ELSE Cardinality(CountedLinks(e)) + 1
      BY <2>1, FS_AddElement
    <2>3. Cardinality(CountedLinks(e)) \in Nat /\ Cardinality(CountedLinks(e)') \in Nat
      BY <2>1, <2>2, FS_CardinalityType
    <2> QED BY <2>2, <2>3 DEF CountedSize
  <1>2. /\ IsFiniteSet(Passed(e) \ {r})
        /\ Cardinality(Passed(e) \ {r}) = Cardinality(Passed(e)) - 1
    BY Sizes, FS_RemoveElement
  <1>3. /\ Cardinality(Passed(e)') <= Cardinality(Passed(e)) - 1
        /\ Cardinality(Passed(e)') \in Nat /\ Cardinality(Passed(e)) \in Nat
    BY <1>2, Sizes, FS_Subset, FS_CardinalityType
  <1>4. CountedSize(e) + Cardinality(Passed(e)) <= MaxLinks + Slack /\ Slack' = Slack
    BY DEF QuotaInv, Slack
  <1>5. MaxLinks \in Nat /\ Slack \in Int
    BY Sizes DEF Slack
  <1> QED BY <1>1, <1>3, <1>4, <1>5

(* What becomes of the links at some places. *)
LEMMA LinksShrink ==
  ASSUME TypeOK, TypeOK', NEW places \in SUBSET (Files \X Targets),
         \A p \in places : links'[p] <= links[p]
  PROVE  LinksAt(places)' \subseteq LinksAt(places)
  <1>1. \A p \in places : links[p] \in Nat /\ links'[p] \in Nat
    BY DEF TypeOK
  <1>2. \A p \in places : 1..links'[p] \subseteq 1..links[p]
    BY <1>1
  <1> QED BY <1>2 DEF LinksAt

LEMMA LinksGrow ==
  ASSUME TypeOK, NEW places \in SUBSET (Files \X Targets), NEW p \in places,
         links' = [links EXCEPT ![p] = @ + 1]
  PROVE  LinksAt(places)' = LinksAt(places) \cup {<<p, links[p] + 1>>}
  <1> DEFINE n == links[p]
  <1>1. n \in Nat /\ p \in DOMAIN links
    BY DEF TypeOK
  <1>2. 1..(n + 1) = (1..n) \cup {n + 1}
    BY <1>1
  <1>3. /\ links'[p] = n + 1
        /\ \A q \in places : q # p => links'[q] = links[q]
    BY <1>1 DEF TypeOK
  <1>4. {p} \X (1..(n + 1)) = ({p} \X (1..n)) \cup {<<p, n + 1>>}
    BY <1>2
  <1>5. ASSUME NEW x PROVE x \in LinksAt(places)' <=> x \in LinksAt(places) \cup {<<p, n + 1>>}
    <2>1. x \in LinksAt(places)' <=> \E q \in places : x \in {q} \X (1..links'[q])
      BY DEF LinksAt
    <2>2. x \in LinksAt(places) <=> \E q \in places : x \in {q} \X (1..links[q])
      BY DEF LinksAt
    <2> QED BY <1>3, <1>4, <2>1, <2>2
  <1> QED BY <1>5

(* The request r moves on, or stops, without passing the quota. *)
LEMMA PassedKept ==
  ASSUME NEW r \in Requests, NEW e,
         \A q \in Requests \ {r} : \/ pc'[q] = pc[q] /\ loc'[q] = loc[q]
                                   \/ pc'[q] = "idle",
         r \in Passed(e)' => r \in Passed(e)
  PROVE  Passed(e)' \subseteq Passed(e)
  BY DEF Passed, Passing

(* A step leaves the links alone, takes some away, or makes one.           *)
Fewer == \A p \in Files \X Targets : links'[p] <= links[p]

LEMMA LinksStep ==
  ASSUME TypeOK, HasFile, [Next]_vars
  PROVE  \/ UNCHANGED links
         \/ Fewer
         \/ \E p \in Files \X Targets : links' = [links EXCEPT ![p] = @ + 1]
  <1> USE DEF tables
  <1>1. ASSUME NEW r \in Requests, Arrive(r) PROVE UNCHANGED links
    BY <1>1 DEF Arrive, Upload, Presign, UploadBytes, Complete, Retire, Restore, Delete, Link,
                Unlink, Backup
  <1>2. ASSUME NEW r \in Requests, Continue(r)
        PROVE  \/ UNCHANGED links \/ Fewer
               \/ \E p \in Files \X Targets : links' = [links EXCEPT ![p] = @ + 1]
    <2>1. CASE UploadDiscard(r) \/ DeleteRow(r) \/ DeleteLinks(r) \/ UnlinkDelete(r)
      <3>1. UNCHANGED links \/ Fewer
        BY <2>1 DEF UploadDiscard, DeleteRow, DeleteLinks, UnlinkDelete, RemoveRow, Fewer, TypeOK
      <3> QED BY <3>1
    <2>2. CASE UploadLink(r) \/ LinkCreate(r)
      <3> DEFINE p == <<loc[r].file, loc[r].targets>>
      <3>1. UNCHANGED links \/ links' = [links EXCEPT ![p] = @ + 1]
        BY <2>2 DEF UploadLink, LinkCreate, CreateLink
      <3>2. p \notin Files \X Targets => [links EXCEPT ![p] = @ + 1] = links
        BY DEF TypeOK
      <3> HIDE DEF p
      <3> QED BY <3>1, <3>2
    <2>3. CASE UNCHANGED links
      BY <2>3
    <2> QED
      BY <1>2, <2>1, <2>2, <2>3
      DEF Continue, UploadCreate, UploadPut, UploadPutFail, UploadActivate, PresignKey,
          UploadBytesPut, UploadBytesFail, CompleteGet, CompleteGetFail, ActivateBytes, RetireWrite,
          RestoreWrite, DeleteBlob, DeleteBlobFail, DeletePurge, LinkQuota, LinkDedupe, BackupRun,
          BackupPut, BackupFail
  <1>3. ASSUME NEW e \in Entities, Remove(e) PROVE Fewer
    BY <1>3 DEF Remove, Fewer, TypeOK
  <1>4. CASE Crash \/ UNCHANGED vars \/ \E r \in Requests : ParentMissing(r)
    BY <1>4, ParentMissingFacts DEF Crash, vars
  <1> QED BY <1>1, <1>2, <1>3, <1>4 DEF Next

LEMMA NextFinite ==
    TypeOK /\ TypeOK' /\ HasFile /\ QuotaInv /\ [Next]_vars => IsFiniteSet(AllLinks)'
  <1> SUFFICES ASSUME TypeOK, TypeOK', HasFile, QuotaInv, [Next]_vars PROVE IsFiniteSet(AllLinks')
    OBVIOUS
  <1>1. IsFiniteSet(AllLinks)
    BY DEF QuotaInv
  <1>2. CASE UNCHANGED links
    <2>1. AllLinks' = AllLinks
      BY <1>2 DEF AllLinks, LinksAt
    <2> QED BY <1>1, <2>1
  <1>3. CASE Fewer
    <2>1. AllLinks' \in SUBSET AllLinks
      BY <1>3, LinksShrink DEF Fewer, AllLinks
    <2> QED BY <1>1, <2>1, FS_Subset
  <1>4. ASSUME NEW p \in Files \X Targets, links' = [links EXCEPT ![p] = @ + 1]
        PROVE  IsFiniteSet(AllLinks')
    <2>1. AllLinks' = AllLinks \cup {<<p, links[p] + 1>>}
      BY <1>4, LinksGrow DEF AllLinks
    <2> QED BY <1>1, <2>1, FS_AddElement
  <1> QED BY <1>2, <1>3, <1>4, LinksStep

LEMMA NextAlone == TypeOK /\ AloneInv /\ [Next]_vars => AloneInv'
  <1> SUFFICES ASSUME TypeOK, AloneInv, [Next]_vars, "overlap" \notin mishaps' PROVE Alone'
    BY DEF AloneInv
  <1>1. Alone
    BY MishapsGrow DEF AloneInv
  <1>2. ASSUME NEW r \in Requests, Arrive(r) PROVE Alone'
    <2>1. PICK at, l : Begin(r, at, l)
      BY <1>2 DEF Arrive, Upload, Presign, UploadBytes, Complete, Retire, Restore, Delete, Link,
                  Unlink, Backup
    <2>2. \A q \in Requests : pc[q] = "idle"
      BY <2>1 DEF Begin, Joined
    <2> QED BY <2>1, <2>2 DEF Begin, Joined, Alone, TypeOK
  <1>3. ASSUME NEW r \in Requests, Continue(r) PROVE Alone'
    <2>1. pc[r] # "idle"
      BY <1>3
      DEF Continue, UploadCreate, UploadPut, UploadPutFail, UploadDiscard, UploadActivate,
          UploadLink, PresignKey, UploadBytesPut, UploadBytesFail, CompleteGet, CompleteGetFail,
          ActivateBytes, RetireWrite, RestoreWrite, DeleteBlob, DeleteBlobFail, DeleteLinks,
          DeletePurge, DeleteRow, LinkQuota, LinkDedupe, LinkCreate, UnlinkDelete, BackupRun,
          BackupPut, BackupFail
    <2>2. (\E at : Goto(r, at)) \/ \E why : Die(why)
      BY <1>3
      DEF Continue, UploadCreate, UploadPut, UploadPutFail, UploadDiscard, UploadActivate,
          UploadLink, PresignKey, UploadBytesPut, UploadBytesFail, CompleteGet, CompleteGetFail,
          ActivateBytes, RetireWrite, RestoreWrite, DeleteBlob, DeleteBlobFail, DeleteLinks,
          DeletePurge, DeleteRow, LinkQuota, LinkDedupe, LinkCreate, UnlinkDelete, BackupRun,
          BackupPut, BackupFail, CreateLink, Update, Throw, End
    <2>3. \A q \in Requests \ {r} : pc'[q] = pc[q] \/ pc'[q] = "idle"
      BY <2>2 DEF Goto, Die, TypeOK
    <2> QED BY <1>1, <2>1, <2>3 DEF Alone
  <1>4. CASE Crash
    BY <1>4 DEF Crash, Die, Alone
  <1>5. CASE UNCHANGED vars \/ \E e \in Entities : Remove(e)
    BY <1>1, <1>5 DEF vars, Remove, Alone
  <1>6. CASE \E r \in Requests : ParentMissing(r)
    BY <1>6, ParentMissingFacts DEF Die, Alone
  <1> QED BY <1>2, <1>3, <1>4, <1>5, <1>6 DEF Next

LEMMA NextQuota ==
    TypeOK /\ TypeOK' /\ HasFile /\ QuotaInv /\ AloneInv' /\ [Next]_vars => QuotaInv'
  <1> SUFFICES ASSUME TypeOK, TypeOK', HasFile, QuotaInv, AloneInv', [Next]_vars, NEW e \in Entities
               PROVE  CountedSize(e)' + Cardinality(Passed(e)') <= MaxLinks + Slack'
    BY NextFinite DEF QuotaInv
  <1> DEFINE Bound == CountedSize(e)' + Cardinality(Passed(e)') <= MaxLinks + Slack'
             places == {p \in Files \X Targets : Counted(p[2]) = e}
  <1>1. mishaps \subseteq mishaps'
    BY MishapsGrow
  <1>2. UNCHANGED links => CountedLinks(e)' = CountedLinks(e)
    BY DEF CountedLinks, LinksAt
  <1>3. ASSUME Requests # {} \/ UNCHANGED mishaps, Passed(e)' \subseteq Passed(e),
               UNCHANGED links \/ \A p \in places : links'[p] <= links[p]
        PROVE  Bound
    <2>1. CountedLinks(e)' \subseteq CountedLinks(e)
      <3>1. CASE UNCHANGED links
        BY <1>2, <3>1
      <3>2. CASE \A p \in places : links'[p] <= links[p]
        BY <3>2, LinksShrink DEF CountedLinks
      <3> QED BY <1>3, <3>1, <3>2
    <2> QED BY <1>1, <1>3, <2>1, QuotaShrinks
  <1>4. ASSUME NEW r \in Requests, Arrive(r) PROVE Bound
    <2>1. PICK at, l : /\ Begin(r, at, l) /\ UNCHANGED links
                       /\ \/ at \notin Passing
                          \/ /\ at = "create"
                             /\ l.targets # {} /\ Counted(l.targets) = e => LinkCount(e) < MaxLinks
      <3>1. CASE Upload(r)
        <4>1. PICK b \in Bodies, ts \in Targets \cup {{}} :
                /\ ts # {} => LinkCount(Counted(ts)) < MaxLinks
                /\ Begin(r, "create", [NoLocals EXCEPT !.body = b, !.targets = ts])
          BY <3>1 DEF Upload
        <4>2. [NoLocals EXCEPT !.body = b, !.targets = ts].targets = ts
          BY DEF NoLocals
        <4> QED BY <3>1, <4>1, <4>2 DEF Upload, tables
      <3>2. CASE Presign(r)
        <4>1. \E l : Begin(r, "setKey", l) /\ UNCHANGED links
          BY <3>2 DEF Presign
        <4> QED BY <4>1 DEF Passing
      <3>3. CASE UploadBytes(r) \/ Complete(r) \/ Retire(r) \/ Restore(r) \/ Delete(r)
        <4>1. \E at, l : /\ at \in {"putBytes", "getBytes", "retire", "restore", "deleteBlob"}
                        /\ Begin(r, at, l) /\ UNCHANGED links
          BY <3>3 DEF UploadBytes, Complete, Retire, Restore, Delete, tables
        <4> QED BY <4>1 DEF Passing
      <3>4. CASE Link(r) \/ Unlink(r) \/ Backup(r)
        <4>1. \E at, l : at \in {"count", "unlink", "backupRun"} /\ Begin(r, at, l) /\ UNCHANGED links
          BY <3>4 DEF Link, Unlink, Backup, tables
        <4> QED BY <4>1 DEF Passing
      <3> QED BY <1>4, <3>1, <3>2, <3>3, <3>4 DEF Arrive
    <2>2. /\ \A q \in Requests \ {r} : pc'[q] = pc[q] /\ loc'[q] = loc[q]
          /\ pc'[r] = at /\ loc'[r] = l
          /\ "overlap" \in mishaps' \/ \A q \in Requests : pc[q] = "idle"
      BY <2>1 DEF Begin, Joined, TypeOK
    <2>3. CASE at \notin Passing \/ ~(l.targets # {} /\ Counted(l.targets) = e)
      <3>1. r \notin Passed(e)'
        BY <2>2, <2>3 DEF Passed
      <3> QED BY <1>3, <2>1, <2>2, <3>1, PassedKept
    <2>4. CASE at = "create" /\ l.targets # {} /\ Counted(l.targets) = e
      <3>1. "overlap" \in mishaps' \/ Passed(e)' \subseteq {r}
        BY <2>2 DEF Passed, Passing
      <3>2. LinkCount(e) < MaxLinks
        BY <2>1, <2>4 DEF Passing
      <3> QED BY <1>2, <2>1, <3>1, <3>2, QuotaPasses
    <2> QED BY <2>1, <2>3, <2>4
  <1>5. ASSUME NEW r \in Requests, NEW at, Goto(r, at), at \in Passing => pc[r] \in Passing,
               \/ UNCHANGED loc
               \/ \E f : loc' = [loc EXCEPT ![r].file = f]
               \/ \E b : loc' = [loc EXCEPT ![r].body = b],
               UNCHANGED links \/ \A p \in places : links'[p] <= links[p]
        PROVE  Bound
    <2>1. /\ pc'[r] = at /\ \A q \in Requests \ {r} : pc'[q] = pc[q]
          /\ loc'[r].targets = loc[r].targets /\ \A q \in Requests \ {r} : loc'[q] = loc[q]
      BY <1>5 DEF Goto, TypeOK, Locals
    <2>2. r \in Passed(e)' => r \in Passed(e)
      BY <1>5, <2>1 DEF Passed
    <2> QED BY <1>3, <1>5, <2>1, <2>2, PassedKept
  <1>6. ASSUME NEW r \in Requests, End(r) \/ \E why : Die(why),
               UNCHANGED links \/ \A p \in places : links'[p] <= links[p]
        PROVE  Bound
    <2>1. \/ \A q \in Requests \ {r} : pc'[q] = pc[q] /\ loc'[q] = loc[q]
          \/ \A q \in Requests : pc'[q] = "idle"
      BY <1>6 DEF End, Goto, Die, TypeOK
    <2>2. pc'[r] = "idle"
      BY <1>6 DEF End, Goto, Die, TypeOK
    <2>3. r \notin Passed(e)'
      BY <2>2 DEF Passed, Passing
    <2> QED BY <1>3, <1>6, <2>1, <2>3, PassedKept
  <1>7. ASSUME NEW r \in Requests, Continue(r) PROVE Bound
    <2>1. CASE UploadCreate(r) \/ UploadPut(r) \/ UploadPutFail(r) \/ UploadBytesPut(r)
               \/ DeleteBlob(r) \/ DeleteBlobFail(r) \/ BackupRun(r)
      <3>1. PICK at : /\ Goto(r, at) /\ (at \in Passing => pc[r] \in Passing)
                      /\ UNCHANGED loc \/ \E f : loc' = [loc EXCEPT ![r].file = f]
                      /\ UNCHANGED links
        BY <2>1 DEF UploadCreate, UploadPut, UploadPutFail, UploadBytesPut, DeleteBlob,
                    DeleteBlobFail, BackupRun, tables, Passing
      <3> QED BY <1>5, <3>1
    <2>2. CASE UploadActivate(r) \/ PresignKey(r) \/ ActivateBytes(r) \/ RetireWrite(r)
               \/ RestoreWrite(r) \/ DeletePurge(r)
      <3>1. PICK f, at, new : /\ Update(r, f, at, new) /\ UNCHANGED links
                              /\ at \in Passing => pc[r] \in Passing
        BY <2>2 DEF UploadActivate, PresignKey, ActivateBytes, RetireWrite, RestoreWrite,
                    DeletePurge, Passing
      <3>2. \/ End(r) \/ Die({"throw"})
            \/ Goto(r, at) /\ UNCHANGED loc
        BY <3>1 DEF Update, Throw
      <3> QED BY <1>5, <1>6, <3>1, <3>2
    <2>3. CASE UploadBytesFail(r) \/ CompleteGetFail(r) \/ BackupPut(r) \/ BackupFail(r)
      <3>1. (End(r) \/ \E why : Die(why)) /\ UNCHANGED links
        BY <2>3 DEF UploadBytesFail, CompleteGetFail, BackupPut, BackupFail, Throw, tables
      <3> QED BY <1>6, <3>1
    <2>4. CASE CompleteGet(r)
      <3>1. /\ UNCHANGED links
            /\ \/ End(r)
               \/ Goto(r, "activateBytes") /\ \E b : loc' = [loc EXCEPT ![r].body = b]
        BY <2>4 DEF CompleteGet, tables
      <3>2. "activateBytes" \notin Passing
        BY DEF Passing
      <3> QED BY <1>5, <1>6, <3>1, <3>2
    <2>5. CASE UploadDiscard(r) \/ DeleteRow(r)
      <3>1. /\ End(r) \/ \E why : Die(why)
            /\ UNCHANGED links \/ RemoveRow(loc[r].file)
        BY <2>5 DEF UploadDiscard, DeleteRow, Throw
      <3>2. UNCHANGED links \/ \A p \in places : links'[p] <= links[p]
        BY <3>1 DEF RemoveRow, TypeOK
      <3> QED BY <1>6, <3>1, <3>2
    <2>6. CASE DeleteLinks(r)
      <3>1. \A p \in places : links'[p] <= links[p]
        BY <2>6 DEF DeleteLinks, TypeOK
      <3>2. Goto(r, "purge") /\ UNCHANGED loc /\ "purge" \notin Passing
        BY <2>6 DEF DeleteLinks, Passing
      <3> QED BY <1>5, <3>1, <3>2
    <2>7. CASE UnlinkDelete(r)
      <3>1. End(r) \/ \E why : Die(why)
        BY <2>7 DEF UnlinkDelete, Throw
      <3>2. \A p \in places : links'[p] <= links[p]
        BY <2>7 DEF UnlinkDelete, TypeOK
      <3> QED BY <1>6, <3>1, <3>2
    <2>8. CASE LinkDedupe(r) \/ LinkQuota(r)
      <3>1. CASE LinkQuota(r) /\ Goto(r, "dedupe") /\ LinkCount(e) < MaxLinks
        <4>1. \A q \in Requests \ {r} : pc'[q] = pc[q]
          BY <3>1 DEF Goto, TypeOK
        <4>2. UNCHANGED links /\ pc[r] = "count" /\ mishaps' = mishaps
          BY <3>1 DEF LinkQuota, tables
        <4>3. "overlap" \in mishaps' \/ Passed(e)' \subseteq {r}
          <5> SUFFICES ASSUME "overlap" \notin mishaps', NEW q \in Passed(e)' PROVE q = r
            OBVIOUS
          <5>1. Alone' /\ pc'[q] # "idle" /\ pc'[r] = "dedupe" /\ q \in Requests
            BY <3>1 DEF AloneInv, Passed, Passing, Goto, TypeOK
          <5> QED BY <5>1 DEF Alone
        <4> QED BY <1>2, <3>1, <4>2, <4>3, QuotaPasses
      <3>2. CASE LinkQuota(r) /\ Goto(r, "dedupe") /\ Counted(loc[r].targets) # e
        <4>1. /\ \A q \in Requests \ {r} : pc'[q] = pc[q] /\ loc'[q] = loc[q]
              /\ UNCHANGED <<links, loc>>
          BY <3>2 DEF LinkQuota, End, Goto, tables, TypeOK
        <4>2. r \notin Passed(e)'
          BY <3>2, <4>1 DEF Passed
        <4> QED BY <1>3, <4>1, <4>2, PassedKept
      <3>3. CASE End(r)
        <4>1. UNCHANGED links
          BY <2>8 DEF LinkDedupe, LinkQuota, tables
        <4> QED BY <1>6, <3>3, <4>1
      <3>4. CASE LinkDedupe(r) /\ Goto(r, "link") /\ UNCHANGED loc
        <4>1. UNCHANGED links /\ pc[r] \in Passing
          BY <3>4 DEF LinkDedupe, tables, Passing
        <4> QED BY <1>5, <3>4, <4>1
      <3> QED BY <2>8, <3>1, <3>2, <3>3, <3>4 DEF LinkDedupe, LinkQuota
    <2>9. CASE UploadLink(r) \/ LinkCreate(r)
      <3> DEFINE p == <<loc[r].file, loc[r].targets>>
      <3>1. /\ pc[r] \in Passing /\ loc[r].file \in Files /\ loc[r].targets \in Targets \cup {{}}
            /\ \/ UNCHANGED links /\ ((\E why : Die(why)) \/ End(r))
               \/ links' = [links EXCEPT ![p] = @ + 1] /\ End(r) /\ UNCHANGED mishaps
        BY <2>9 DEF UploadLink, LinkCreate, CreateLink, Throw, Passing, HasFile, TypeOK, Locals
      <3>2. CASE UNCHANGED links
        BY <1>6, <3>1, <3>2
      <3>3. CASE links' = [links EXCEPT ![p] = @ + 1] /\ End(r) /\ UNCHANGED mishaps
        <4>1. CASE p \in places
          <5>1. CountedLinks(e)' = CountedLinks(e) \cup {<<p, links[p] + 1>>}
            BY <3>3, <4>1, LinksGrow DEF CountedLinks
          <5>2. loc[r].targets \in Targets /\ Counted(loc[r].targets) = e
            BY <4>1
          <5>3. loc[r].targets # {}
            BY <5>2, TargetsAssumption
          <5>4. r \in Passed(e) /\ r \notin Passed(e)'
            BY <3>1, <3>3, <5>2, <5>3 DEF Passed, Passing, End, Goto, TypeOK
          <5>5. \A q \in Requests \ {r} : pc'[q] = pc[q] /\ loc'[q] = loc[q]
            BY <3>3 DEF End, Goto, TypeOK
          <5>6. Passed(e)' \subseteq Passed(e) \ {r}
            BY <5>4, <5>5, PassedKept
          <5> HIDE DEF p
          <5> QED BY <3>3, <5>1, <5>4, <5>6, QuotaLinks
        <4>2. CASE p \notin places
          <5> HIDE DEF p
          <5>1. \A q \in places : links'[q] = links[q] /\ links[q] \in Nat
            BY <3>3, <4>2 DEF TypeOK
          <5>2. \A q \in places : links'[q] <= links[q]
            BY <5>1
          <5> QED BY <1>6, <3>3, <5>2
        <4> QED BY <4>1, <4>2
      <3> QED BY <3>1, <3>2, <3>3
    <2> QED BY <1>7, <2>1, <2>2, <2>3, <2>4, <2>5, <2>6, <2>7, <2>8, <2>9 DEF Continue
  <1>8. CASE Crash
    <2>1. (\E why : Die(why)) /\ UNCHANGED links /\ \E r \in Requests : TRUE
      BY <1>8 DEF Crash, tables
    <2> QED BY <1>6, <2>1
  <1>9. CASE UNCHANGED vars
    <2>1. /\ Passed(e)' = Passed(e) /\ CountedLinks(e)' = CountedLinks(e) /\ Slack' = Slack
      BY <1>9 DEF vars, tables, Passed, CountedLinks, LinksAt, Slack
    <2> QED BY <2>1 DEF QuotaInv, CountedSize
  <1>10. ASSUME NEW r \in Requests, ParentMissing(r) PROVE Bound
    BY <1>6, <1>10, ParentMissingFacts
  <1>11. ASSUME NEW d \in Entities, Remove(d) PROVE Bound
    <2>1. Passed(e)' = Passed(e)
      BY <1>11 DEF Remove, Passed
    <2>2. \A p \in places : links'[p] <= links[p]
      BY <1>11 DEF Remove, TypeOK
    <2>3. Requests # {} \/ UNCHANGED mishaps
      BY <1>11 DEF Remove, Joined
    <2> QED BY <1>3, <2>1, <2>2, <2>3
  <1> QED BY <1>4, <1>7, <1>8, <1>9, <1>10, <1>11 DEF Next

(* A row, once made, never looks as if its id had not been used. *)
LEMMA FreshStays ==
  ASSUME TypeOK, HasFile, [Next]_vars, NEW f \in Files, row[f] # Fresh
  PROVE  row'[f] # Fresh
  <1>1. \A x \in Rows : x # Fresh
    BY Constants
  <1>2. ASSUME NEW r \in Requests, NEW g, NEW at, NEW new, Update(r, g, at, new),
               g \in Files /\ Exists(g) => new \in Rows
        PROVE  row'[f] # Fresh
    BY <1>1, <1>2 DEF Update, TypeOK
  <1>3. ASSUME NEW g, UNCHANGED row \/ row' = [row EXCEPT ![g] = Gone]
        PROVE  row'[f] # Fresh
    BY <1>3, IdAssumption DEF TypeOK
  <1>4. ASSUME NEW r \in Requests, Arrive(r) PROVE row'[f] # Fresh
    <2>1. CASE Presign(r)
      <3>1. PICK g \in Files, x \in Rows : row' = [row EXCEPT ![g] = x]
        <4>1. [status |-> "PENDING", key |-> "pending", checksum |-> None] \in Rows
          BY DEF Rows, Keys
        <4> QED BY <2>1, <4>1 DEF Presign
      <3> QED BY <1>1, <3>1 DEF TypeOK
    <2>2. CASE UNCHANGED row
      BY <2>2
    <2> QED
      BY <1>4, <2>1, <2>2
      DEF Arrive, Upload, UploadBytes, Complete, Retire, Restore, Delete, Link, Unlink, Backup, tables
  <1>5. ASSUME NEW r \in Requests, Continue(r) PROVE row'[f] # Fresh
    <2> DEFINE g == loc[r].file
    <2>1. CASE UploadCreate(r)
      <3>1. PICK h \in Files, x \in Rows : row' = [row EXCEPT ![h] = x]
        <4>1. [status |-> "PENDING", key |-> "pending", checksum |-> loc[r].body] \in Rows
          BY DEF Rows, Keys, TypeOK, Locals
        <4> QED BY <2>1, <4>1 DEF UploadCreate
      <3> QED BY <1>1, <3>1 DEF TypeOK
    <2>2. CASE UploadActivate(r) \/ PresignKey(r) \/ ActivateBytes(r) \/ RetireWrite(r)
               \/ RestoreWrite(r) \/ DeletePurge(r)
      <3>1. g \in Files /\ Exists(g) =>
              /\ [row[g] EXCEPT !.status = "ACTIVE", !.key = "own"] \in Rows
              /\ [row[g] EXCEPT !.key = "own"] \in Rows
              /\ [row[g] EXCEPT !.status = "ACTIVE", !.checksum = loc[r].body] \in Rows
              /\ [row[g] EXCEPT !.status = "RETIRED"] \in Rows
              /\ [row[g] EXCEPT !.status = "ACTIVE"] \in Rows
              /\ [row[g] EXCEPT !.status = "PURGED", !.key = "purged"] \in Rows
        BY DEF TypeOK, Rows, Keys, Exists, Locals
      <3>2. \E at, new : Update(r, g, at, new) /\ (g \in Files /\ Exists(g) => new \in Rows)
        BY <2>2, <3>1
        DEF UploadActivate, PresignKey, ActivateBytes, RetireWrite, RestoreWrite, DeletePurge
      <3> QED BY <1>2, <3>2
    <2>3. CASE UploadDiscard(r) \/ DeleteRow(r)
      BY <1>3, <2>3 DEF UploadDiscard, DeleteRow, RemoveRow
    <2>4. CASE UNCHANGED row
      BY <2>4
    <2> QED
      BY <1>5, <2>1, <2>2, <2>3, <2>4
      DEF Continue, UploadPut, UploadPutFail, UploadLink, UploadBytesPut, UploadBytesFail,
          CompleteGet, CompleteGetFail, DeleteBlob, DeleteBlobFail, DeleteLinks, LinkQuota,
          LinkDedupe, LinkCreate, CreateLink, UnlinkDelete, BackupRun, BackupPut, BackupFail, tables
  <1>6. CASE Crash \/ UNCHANGED vars \/ \E e \in Entities : Remove(e)
    BY <1>6 DEF Crash, vars, tables, Remove
  <1>7. CASE \E r \in Requests : ParentMissing(r)
    BY <1>7, ParentMissingFacts
  <1> QED BY <1>4, <1>5, <1>6, <1>7 DEF Next

LEMMA NextOnce ==
    TypeOK /\ TypeOK' /\ HasFile /\ AloneInv /\ OnceInv /\ [Next]_vars => OnceInv'
  <1> DEFINE ToLink(q, f, ts) == /\ loc[q].file = f
                                 /\ \/ pc[q] \in {"put", "activate", "linkNew"}
                                    \/ pc[q] = "link" /\ loc[q].targets = ts
             Once(f, ts) == /\ links[<<f, ts>>] <= 1
                            /\ row[f] = Fresh => links[<<f, ts>>] = 0
                            /\ \A q \in Requests : ToLink(q, f, ts) => links[<<f, ts>>] = 0
  <1> SUFFICES ASSUME TypeOK, TypeOK', HasFile, AloneInv, OnceInv, [Next]_vars,
                      "overlap" \notin mishaps', HasFile',
                      NEW f \in Files, NEW ts \in Targets
               PROVE  Once(f, ts)'
    <2> SUFFICES ASSUME TypeOK, TypeOK', HasFile, AloneInv, OnceInv, [Next]_vars,
                        "overlap" \notin mishaps', HasFile',
                        \A f \in Files, ts \in Targets : Once(f, ts)'
                 PROVE  OnceInv'
      BY NextHasFile DEF OnceInv
    <2>1. \A p \in Files \X Targets : links'[p] <= 1
      OBVIOUS
    <2>2. ASSUME NEW r \in Requests, NEW ts \in Targets,
                 \/ pc'[r] \in {"put", "activate", "linkNew"}
                 \/ pc'[r] = "link" /\ loc'[r].targets = ts
          PROVE  links'[<<loc'[r].file, ts>>] = 0
      <3>1. loc'[r].file \in Files
        BY <2>2 DEF HasFile
      <3> QED BY <2>2, <3>1
    <2> QED BY <2>1, <2>2 DEF OnceInv
  <1>2. /\ "overlap" \notin mishaps /\ Alone
        /\ \A g \in Files : links[<<g, ts>>] \in Nat /\ Once(g, ts)
    BY MishapsGrow DEF AloneInv, OnceInv, TypeOK
  <1>3. row'[f] = Fresh => row[f] = Fresh
    BY FreshStays
  <1>4. ASSUME NEW r \in Requests,
               \A q \in Requests \ {r} : \/ pc'[q] = pc[q] /\ loc'[q] = loc[q]
                                         \/ pc'[q] = "idle",
               ToLink(r, f, ts)' => links[<<f, ts>>] = 0,
               links'[<<f, ts>>] <= links[<<f, ts>>]
        PROVE  Once(f, ts)'
    <2>1. links'[<<f, ts>>] \in Nat /\ links[<<f, ts>>] \in Nat
      BY DEF TypeOK
    <2>2. links[<<f, ts>>] = 0 => links'[<<f, ts>>] = 0
      BY <1>4, <2>1
    <2>3. links'[<<f, ts>>] <= 1
      BY <1>2, <1>4, <2>1
    <2>4. \A q \in Requests : ToLink(q, f, ts)' => links[<<f, ts>>] = 0
      BY <1>2, <1>4
    <2> QED BY <1>2, <1>3, <2>2, <2>3, <2>4
  <1>5. UNCHANGED links => links'[<<f, ts>>] <= links[<<f, ts>>]
    BY <1>2
  <1>6. ASSUME NEW r \in Requests, NEW at, NEW why, Goto(r, at) \/ Die(why) \/ End(r),
               UNCHANGED loc \/ Die(why) \/ End(r),
               \/ at \notin {"put", "activate", "linkNew", "link"}
               \/ pc[r] \in {"put", "activate", "linkNew"} /\ at # "link",
               links'[<<f, ts>>] <= links[<<f, ts>>]
        PROVE  Once(f, ts)'
    <2>1. \A q \in Requests \ {r} : \/ pc'[q] = pc[q] /\ loc'[q] = loc[q]
                                    \/ pc'[q] = "idle"
      BY <1>6 DEF Goto, Die, End, TypeOK
    <2>2. \/ pc'[r] = "idle"
          \/ pc'[r] = at /\ loc'[r] = loc[r]
      <3>1. End(r) => pc'[r] = "idle"
        BY DEF Goto, End, TypeOK
      <3>2. Die(why) => pc'[r] = "idle"
        BY DEF Die
      <3>3. Goto(r, at) /\ UNCHANGED loc => pc'[r] = at /\ loc'[r] = loc[r]
        BY DEF Goto, TypeOK
      <3> QED BY <1>6, <3>1, <3>2, <3>3
    <2>3. ToLink(r, f, ts)' => ToLink(r, f, ts)
      BY <1>6, <2>2
    <2>4. ToLink(r, f, ts)' => links[<<f, ts>>] = 0
      BY <1>2, <2>3
    <2> QED BY <1>4, <1>6, <2>1, <2>4
  <1>7. ASSUME NEW r \in Requests, Arrive(r) PROVE Once(f, ts)'
    <2>1. UNCHANGED links
      BY <1>7 DEF Arrive, Upload, Presign, UploadBytes, Complete, Retire, Restore, Delete, Link,
                  Unlink, Backup, tables
    <2>2. \E at, l : at \notin {"put", "activate", "linkNew", "link"} /\ Begin(r, at, l)
      <3>1. CASE Upload(r) \/ Presign(r) \/ Backup(r)
        <4>1. \E l : Begin(r, "create", l) \/ Begin(r, "setKey", l) \/ Begin(r, "backupRun", l)
          BY <3>1 DEF Upload, Presign, Backup
        <4>2. {"create", "setKey", "backupRun"} \cap {"put", "activate", "linkNew", "link"} = {}
          OBVIOUS
        <4> QED BY <4>1, <4>2, Zenon
      <3>2. CASE UploadBytes(r) \/ Complete(r) \/ Retire(r) \/ Restore(r) \/ Delete(r)
        <4>1. \E l : \/ Begin(r, "putBytes", l) \/ Begin(r, "getBytes", l)
                    \/ Begin(r, "retire", l) \/ Begin(r, "restore", l) \/ Begin(r, "deleteBlob", l)
          BY <3>2 DEF UploadBytes, Complete, Retire, Restore, Delete
        <4>2. {"putBytes", "getBytes", "retire", "restore", "deleteBlob"}
                \cap {"put", "activate", "linkNew", "link"} = {}
          OBVIOUS
        <4> QED BY <4>1, <4>2, Zenon
      <3>3. CASE Link(r) \/ Unlink(r)
        <4>1. \E l : Begin(r, "count", l) \/ Begin(r, "unlink", l)
          BY <3>3 DEF Link, Unlink
        <4> QED BY <4>1
      <3> QED BY <1>7, <3>1, <3>2, <3>3 DEF Arrive
    <2>3. /\ \A q \in Requests \ {r} : pc'[q] = pc[q] /\ loc'[q] = loc[q]
          /\ pc'[r] \notin {"put", "activate", "linkNew", "link"}
      BY <2>2 DEF Begin, Joined, TypeOK
    <2> QED BY <1>4, <1>5, <2>1, <2>3
  <1>8. ASSUME NEW r \in Requests, Continue(r) PROVE Once(f, ts)'
    <2>1. CASE UploadCreate(r)
      <3>1. PICK g \in Files : /\ row[g] = Fresh
                               /\ loc' = [loc EXCEPT ![r].file = g]
        BY <2>1 DEF UploadCreate
      <3>2. /\ loc'[r].file = g /\ \A q \in Requests \ {r} : pc'[q] = pc[q] /\ loc'[q] = loc[q]
        BY <2>1, <3>1 DEF UploadCreate, Goto, TypeOK, Locals
      <3>3. ToLink(r, f, ts)' => links[<<f, ts>>] = 0
        BY <1>2, <3>1, <3>2
      <3> QED BY <1>4, <1>5, <2>1, <3>2, <3>3 DEF UploadCreate
    <2>2. CASE UploadPut(r) \/ UploadActivate(r)
      <3>1. PICK at \in {"activate", "linkNew", "idle"} :
              /\ Goto(r, at) \/ Die({"throw"}) \/ End(r)
              /\ UNCHANGED loc \/ Die({"throw"}) \/ End(r)
        BY <2>2 DEF UploadPut, UploadActivate, Update, Throw
      <3>2. UNCHANGED links /\ pc[r] \in {"put", "activate", "linkNew"}
        BY <2>2 DEF UploadPut, UploadActivate, tables
      <3> QED BY <1>5, <1>6, <3>1, <3>2
    <2>3. CASE PresignKey(r) \/ ActivateBytes(r) \/ RetireWrite(r) \/ RestoreWrite(r)
               \/ DeletePurge(r)
      <3>1. PICK at \in {"idle", "deleteRow"} :
              /\ Goto(r, at) \/ Die({"throw"}) \/ End(r)
              /\ UNCHANGED loc \/ Die({"throw"}) \/ End(r)
        BY <2>3 DEF PresignKey, ActivateBytes, RetireWrite, RestoreWrite, DeletePurge, Update, Throw
      <3>2. UNCHANGED links
        BY <2>3 DEF PresignKey, ActivateBytes, RetireWrite, RestoreWrite, DeletePurge
      <3> QED BY <1>5, <1>6, <3>1, <3>2
    <2>4. CASE UploadPutFail(r) \/ UploadBytesPut(r) \/ DeleteBlob(r) \/ DeleteBlobFail(r)
               \/ BackupRun(r)
      <3>1. PICK at \in {"discard", "activateBytes", "deleteLinks", "backupPut"} :
              Goto(r, at) /\ UNCHANGED <<loc, links>>
        BY <2>4 DEF UploadPutFail, UploadBytesPut, DeleteBlob, DeleteBlobFail, BackupRun, tables
      <3> QED BY <1>5, <1>6, <3>1
    <2>5. CASE UploadDiscard(r) \/ DeleteRow(r) \/ UnlinkDelete(r) \/ DeleteLinks(r)
      <3>1. \/ End(r) \/ Die({"throw"})
            \/ Goto(r, "purge") /\ UNCHANGED loc
        BY <2>5 DEF UploadDiscard, DeleteRow, UnlinkDelete, DeleteLinks, Throw
      <3>2. links \in [Files \X Targets -> Nat] /\ <<f, ts>> \in Files \X Targets
        BY DEF TypeOK
      <3>3. links'[<<f, ts>>] <= links[<<f, ts>>]
        <4>1. CASE UploadDiscard(r) \/ DeleteRow(r)
          BY <3>2, <4>1 DEF UploadDiscard, DeleteRow, RemoveRow
        <4>2. CASE UnlinkDelete(r)
          BY <3>2, <4>2 DEF UnlinkDelete
        <4>3. CASE DeleteLinks(r)
          BY <3>2, <4>3 DEF DeleteLinks
        <4> QED BY <2>5, <4>1, <4>2, <4>3
      <3> QED BY <1>6, <3>1, <3>3
    <2>6. CASE UploadBytesFail(r) \/ CompleteGet(r) \/ CompleteGetFail(r) \/ BackupPut(r)
               \/ BackupFail(r)
      <3>1. /\ UNCHANGED links
            /\ \A q \in Requests \ {r} : \/ pc'[q] = pc[q] /\ loc'[q] = loc[q]
                                         \/ pc'[q] = "idle"
            /\ pc'[r] \in {"idle", "activateBytes"}
        BY <2>6 DEF UploadBytesFail, CompleteGet, CompleteGetFail, BackupPut, BackupFail, tables,
                    Throw, Die, End, Goto, TypeOK
      <3> QED BY <1>4, <1>5, <3>1
    <2>7. CASE LinkQuota(r)
      <3>1. UNCHANGED links
        BY <2>7 DEF LinkQuota, tables
      <3>2. CASE LinkCount(Counted(loc[r].targets)) < MaxLinks
        BY <1>5, <1>6, <2>7, <3>1, <3>2 DEF LinkQuota
      <3>3. CASE ~(LinkCount(Counted(loc[r].targets)) < MaxLinks)
        BY <1>5, <1>6, <2>7, <3>1, <3>3 DEF LinkQuota
      <3> QED BY <3>2, <3>3
    <2>8. CASE LinkDedupe(r)
      <3>1. CASE End(r)
        BY <1>5, <1>6, <2>8, <3>1 DEF LinkDedupe, tables
      <3>2. CASE links[<<loc[r].file, loc[r].targets>>] = 0 /\ Goto(r, "link") /\ UNCHANGED loc
        <4>1. /\ \A q \in Requests \ {r} : pc'[q] = pc[q] /\ loc'[q] = loc[q]
              /\ pc'[r] = "link" /\ UNCHANGED links
          BY <2>8, <3>2 DEF LinkDedupe, Goto, tables, TypeOK
        <4>2. ToLink(r, f, ts)' => links[<<f, ts>>] = 0
          BY <3>2, <4>1
        <4> QED BY <1>4, <1>5, <4>1, <4>2
      <3> QED BY <2>8, <3>1, <3>2 DEF LinkDedupe
    <2>9. CASE UploadLink(r) \/ LinkCreate(r)
      <3> DEFINE g == loc[r].file
                 d == loc[r].targets
      <3>1. /\ pc[r] \in {"linkNew", "link"} /\ UNCHANGED row
            /\ \/ UNCHANGED links /\ \E why : Die(why)
               \/ Exists(g) /\ links' = [links EXCEPT ![<<g, d>>] = @ + 1] /\ End(r)
        BY <2>9 DEF UploadLink, LinkCreate, CreateLink, Throw
      <3>2. CASE UNCHANGED links /\ \E why : Die(why)
        BY <1>5, <1>6, <3>2
      <3>3. CASE Exists(g) /\ links' = [links EXCEPT ![<<g, d>>] = @ + 1] /\ End(r)
        <4>1. CASE g = f /\ d = ts
          <5>1. links[<<f, ts>>] = 0
            BY <1>2, <3>1, <4>1
          <5>2. links'[<<f, ts>>] = 1 /\ row'[f] # Fresh
            BY <3>1, <3>3, <4>1, <5>1 DEF TypeOK, Exists
          <5>3. \A q \in Requests : pc'[q] = "idle"
            BY <1>2, <3>1, <3>3 DEF Alone, End, Goto, TypeOK
          <5> QED BY <5>2, <5>3
        <4>2. CASE <<g, d>> # <<f, ts>>
          <5>1. links'[<<f, ts>>] = links[<<f, ts>>]
            BY <3>3, <4>2 DEF TypeOK
          <5>2. links'[<<f, ts>>] <= links[<<f, ts>>]
            BY <1>2, <5>1
          <5> QED BY <1>6, <3>3, <5>2
        <4> QED BY <4>1, <4>2
      <3> QED BY <3>1, <3>2, <3>3
    <2> QED BY <1>8, <2>1, <2>2, <2>3, <2>4, <2>5, <2>6, <2>7, <2>8, <2>9 DEF Continue
  <1>9. CASE Crash
    <2>1. UNCHANGED links /\ \A q \in Requests : pc'[q] = "idle"
      BY <1>9 DEF Crash, Die, tables
    <2>2. PICK r \in Requests : TRUE
      BY <1>9 DEF Crash
    <2> QED BY <1>4, <1>5, <2>1, <2>2
  <1>10. CASE UNCHANGED vars
    BY <1>2, <1>10 DEF vars, tables
  <1>11. ASSUME NEW r \in Requests, ParentMissing(r) PROVE Once(f, ts)'
    <2>1. UNCHANGED links /\ \A q \in Requests : pc'[q] = "idle"
      BY <1>11, ParentMissingFacts DEF Die
    <2> QED BY <1>4, <1>5, <1>11, <2>1
  <1>12. ASSUME NEW d \in Entities, Remove(d) PROVE Once(f, ts)'
    <2>1. UNCHANGED <<row, pc, loc>> /\ \A q \in Requests : pc[q] = "idle"
      BY <1>12 DEF Remove, Joined
    <2>2. links'[<<f, ts>>] <= 1 /\ (links[<<f, ts>>] = 0 => links'[<<f, ts>>] = 0)
      BY <1>2, <1>12 DEF Remove, TypeOK
    <2> QED BY <1>2, <2>1, <2>2
  <1> QED BY <1>7, <1>8, <1>9, <1>10, <1>11, <1>12 DEF Next

(* An entity is the counted target of no more links than its quota, with   *)
(* one more for every request but one once they overlap; and until then no *)
(* attachment is linked twice to the same targets.  What the code does not *)
(* count, the second target of a link, has no such bound.                  *)
THEOREM LinkQuotaKept == Spec => []LinkQuotaHolds
  <1>1. QuotaInv /\ OnceInv => LinkQuotaHolds
    <2> SUFFICES ASSUME QuotaInv, OnceInv PROVE LinkQuotaHolds
      OBVIOUS
    <2>1. ASSUME NEW e \in Entities PROVE CountedSize(e) <= MaxLinks + Slack
      <3>1. Slack \in Int
        BY Sizes DEF Slack
      <3>2. CountedSize(e) + Cardinality(Passed(e)) <= MaxLinks + Slack
        BY DEF QuotaInv
      <3> HIDE DEF Slack
      <3> QED BY <3>1, <3>2, Sizes
    <2>2. "overlap" \notin mishaps => \A p \in Files \X Targets : links[p] <= 1
      BY DEF OnceInv
    <2> QED BY <2>1, <2>2 DEF LinkQuotaHolds, CountedSize, Slack
  <1> QED BY <1>1, InitQuota, NextAlone, NextQuota, NextOnce, TypeCorrect, InitHasFile, NextHasFile,
             PTL DEF Spec

=============================================================================
