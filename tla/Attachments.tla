---------------------------- MODULE Attachments ----------------------------
(***************************************************************************)
(* The attachment library of one tenant: rows in the database, their blobs *)
(* in the object store, links from rows to entities, and backup jobs       *)
(* (server/src/routes/attachments.ts, attachment-links.ts,                 *)
(* attachment-backups.ts, server/src/attachments).                         *)
(*                                                                         *)
(* A request is a process that stands at one await of its handler, "pc",   *)
(* with what it has read, "loc".  No handler uses a transaction, so other  *)
(* requests run between any two of its calls of the database and of the    *)
(* store.  An answer 4xx changes nothing and has no action of its own.     *)
(* Nothing catches what an async handler throws (Express 4, and no handler *)
(* of unhandledRejection), so a throw ends the process: Throw.             *)
(* The store never signs URLs, as the drivers "worker" (production) and    *)
(* "local" do not.  The filename and the MIME type are left out, the bytes *)
(* of a file stand for their checksum.                                     *)
(***************************************************************************)
EXTENDS Naturals, FiniteSets

CONSTANTS
    Files,       \* attachment ids
    Bodies,      \* contents of files
    Features, Requirements, Initiatives, Demands,
    Sessions,    \* intake sessions: a link to one has no foreign key
    Targets,     \* what one link may name
    Requests,    \* concurrent requests
    None,        \* no attachment, no content, no checksum
    Fresh,       \* an id no row has had yet
    Gone,        \* an id whose row is deleted
    MaxLinks     \* ATTACHMENT_MAX_LINKS_PER_ENTITY

ASSUME AttachmentsAssumption ==
    /\ None \notin Files \cup Bodies
    /\ MaxLinks \in Nat \ {0}
    /\ IsFiniteSet(Requests)

Kinds == {Features, Requirements, Initiatives, Demands, Sessions}
Entities == UNION Kinds

(* A link names at least one entity, and at most one of each kind. *)
ASSUME TargetsAssumption ==
    \A ts \in Targets :
        /\ ts \subseteq Entities /\ ts # {}
        /\ \A kind \in Kinds : \A d, e \in ts \cap kind : d = e

(* storageKey: "pending" until the real key is stored, "own" for the key   *)
(* under the tenant's prefix, "purged" for a row being deleted.            *)
Keys == {"pending", "own", "purged"}

Rows == [status: {"PENDING", "ACTIVE", "RETIRED", "PURGED"}, key: Keys,
         checksum: Bodies \cup {None}]

ASSUME IdAssumption == Fresh \notin Rows /\ Gone \notin Rows /\ Fresh # Gone

VARIABLES
    row,     \* per id its row, or Fresh, or Gone
    blob,    \* per id the object under its own key, or None
    links,   \* per id and targets the number of AttachmentLinks
    there,   \* the entities that exist
    job,     \* the last AttachmentBackupJob each request slot has started
    pc,      \* the await a request stands at
    loc,     \* what its handler has read or been given
    mishaps  \* history: which mishaps have happened so far

tables == <<row, links, there, job>>
vars == <<tables, blob, pc, loc, mishaps>>

PCs == {"idle", "create", "put", "discard", "activate", "linkNew", "setKey",
        "putBytes", "getBytes", "activateBytes", "retire", "restore",
        "deleteBlob", "deleteLinks", "purge", "deleteRow",
        "count", "dedupe", "link", "unlink", "backupRun", "backupPut"}

Locals == [file: Files \cup {None}, body: Bodies \cup {None},
           targets: Targets \cup {{}}, key: Keys]

Jobs == {"none", "PENDING", "RUNNING", "SUCCEEDED", "FAILED"}
Mishaps == {"overlap", "storage", "crash", "foreign", "throw"}

TypeOK ==
    /\ row \in [Files -> Rows \cup {Fresh, Gone}]
    /\ blob \in [Files -> Bodies \cup {None}]
    /\ links \in [Files \X Targets -> Nat]
    /\ there \in SUBSET Entities
    /\ job \in [Requests -> Jobs]
    /\ pc \in [Requests -> PCs]
    /\ loc \in [Requests -> Locals]
    /\ mishaps \in SUBSET Mishaps

NoLocals == [file |-> None, body |-> None, targets |-> {}, key |-> "pending"]

Init ==
    /\ row = [f \in Files |-> Fresh]
    /\ blob = [f \in Files |-> None]
    /\ links = [p \in Files \X Targets |-> 0]
    /\ there = Entities
    /\ job = [r \in Requests |-> "none"]
    /\ pc = [r \in Requests |-> "idle"]
    /\ loc = [r \in Requests |-> NoLocals]
    /\ mishaps = {}

-----------------------------------------------------------------------------
(* What handlers have in common *)

Exists(f) == row[f] \notin {Fresh, Gone}
HasStatus(f, statuses) == Exists(f) /\ row[f].status \in statuses

Joined == IF \E q \in Requests : pc[q] # "idle" THEN mishaps \cup {"overlap"} ELSE mishaps

(* A handler has passed its first checks and goes on to the await "at". *)
Begin(r, at, l) ==
    /\ pc[r] = "idle"
    /\ pc' = [pc EXCEPT ![r] = at]
    /\ loc' = [loc EXCEPT ![r] = l]
    /\ mishaps' = Joined

Goto(r, at) == pc' = [pc EXCEPT ![r] = at]

End(r) ==
    /\ Goto(r, "idle")
    /\ loc' = [loc EXCEPT ![r] = NoLocals]

(* The process dies, and every request with it: the database and the store *)
(* survive.                                                                *)
Die(why) ==
    /\ pc' = [r \in Requests |-> "idle"]
    /\ loc' = [r \in Requests |-> NoLocals]
    /\ mishaps' = mishaps \cup why

Throw == Die({"throw"})

(* prisma.attachment.update: when the row is gone it throws. *)
Update(r, f, at, new) ==
    IF Exists(f)
    THEN /\ row' = [row EXCEPT ![f] = new]
         /\ IF at = "idle" THEN End(r) ELSE Goto(r, at) /\ UNCHANGED loc
         /\ UNCHANGED mishaps
    ELSE UNCHANGED row /\ Throw

(* assertAttachmentStorageKey: only keys below tenants/x/attachments/. *)
assertAttachmentStorageKey(key) == key = "own"

(* The links at some files and targets, numbered within each. *)
LinksAt(places) == UNION {{p} \X (1..links[p]) : p \in places}

(* prisma.attachmentLink.count: the links that name an entity. *)
LinksOf(e) == LinksAt({p \in Files \X Targets : e \in p[2]})
LinkCount(e) == Cardinality(LinksOf(e))

(* The one target whose links are counted, of all that a link names. *)
Counted(ts) ==
    CHOOSE e \in ts :
        \/ e \in Features
        \/ e \in Requirements /\ ts \cap Features = {}
        \/ e \in Initiatives /\ ts \cap (Features \cup Requirements) = {}
        \/ e \in Demands /\ ts \cap (Features \cup Requirements \cup Initiatives) = {}
        \/ e \in Sessions /\ ts \subseteq Sessions

(* A session is looked for before the links are counted. *)
SessionsFound(ts) == ts \cap Sessions \subseteq there

(* An entity is deleted, and with it the links that name it: those that    *)
(* name a session stay.                                                    *)
Remove(e) ==
    /\ e \in there
    /\ there' = there \ {e}
    /\ links' = [p \in DOMAIN links |-> IF e \in p[2] \ Sessions THEN 0 ELSE links[p]]
    /\ mishaps' = Joined
    /\ UNCHANGED <<row, job, blob, pc, loc>>

-----------------------------------------------------------------------------
(* POST /: upload of a file, with a link if it names targets *)

(* pickLinkTarget, assertIntakeSessionExists and assertLinkQuota *)
Upload(r) ==
    \E b \in Bodies, ts \in Targets \cup {{}} :
        /\ ts # {} => SessionsFound(ts) /\ LinkCount(Counted(ts)) < MaxLinks
        /\ Begin(r, "create", [NoLocals EXCEPT !.body = b, !.targets = ts])
        /\ UNCHANGED <<tables, blob>>

(* The row is created before its storage key is known. *)
UploadCreate(r) ==
    /\ pc[r] = "create"
    /\ \E f \in Files :
          /\ row[f] = Fresh
          /\ row' = [row EXCEPT ![f] = [status |-> "PENDING", key |-> "pending",
                                        checksum |-> loc[r].body]]
          /\ loc' = [loc EXCEPT ![r].file = f]
    /\ Goto(r, "put")
    /\ UNCHANGED <<links, there, job, blob, mishaps>>

(* The request names a parent attachment that does not exist. *)
UploadCreateForeign(r) ==
    /\ pc[r] = "create"
    /\ Die({"foreign", "throw"})
    /\ UNCHANGED <<tables, blob>>

UploadPut(r) ==
    /\ pc[r] = "put"
    /\ blob' = [blob EXCEPT ![loc[r].file] = loc[r].body]
    /\ Goto(r, "activate")
    /\ UNCHANGED <<tables, loc, mishaps>>

(* Mutant: a failed put is passed over. *)
UploadPutFailIgnored(r) ==
    /\ pc[r] = "put"
    /\ Goto(r, "activate")
    /\ mishaps' = mishaps \cup {"storage"}
    /\ UNCHANGED <<tables, blob, loc>>

UploadPutFail(r) ==
    /\ pc[r] = "put"
    /\ Goto(r, "discard")
    /\ mishaps' = mishaps \cup {"storage"}
    /\ UNCHANGED <<tables, blob, loc>>

(* Deletes the row, with the links it may have got meanwhile. *)
RemoveRow(f) ==
    /\ row' = [row EXCEPT ![f] = Gone]
    /\ links' = [p \in DOMAIN links |-> IF p[1] = f THEN 0 ELSE links[p]]

UploadDiscard(r) ==
    /\ pc[r] = "discard"
    /\ IF Exists(loc[r].file) THEN RemoveRow(loc[r].file) ELSE UNCHANGED <<row, links>>
    /\ End(r)
    /\ UNCHANGED <<there, job, blob, mishaps>>

(* The row gets its key and becomes ACTIVE, whatever its status is by now. *)
UploadActivate(r) ==
    /\ pc[r] = "activate"
    /\ LET f == loc[r].file
       IN  Update(r, f, IF loc[r].targets = {} THEN "idle" ELSE "linkNew",
                  [row[f] EXCEPT !.status = "ACTIVE", !.key = "own"])
    /\ UNCHANGED <<links, there, job, blob>>

(* attachmentLink.create: the foreign keys want the row of the attachment  *)
(* and of every target but the session, which nobody has looked for.       *)
CreateLink(r) ==
    /\ LET p == <<loc[r].file, loc[r].targets>>
       IN  \/ /\ Exists(p[1]) /\ p[2] \ Sessions \subseteq there
              /\ links' = [links EXCEPT ![p] = @ + 1]
              /\ End(r)
              /\ UNCHANGED mishaps
           \/ /\ ~(p[2] \ Sessions \subseteq there)
              /\ Die({"foreign", "throw"})
              /\ UNCHANGED links
           \/ /\ ~Exists(p[1]) /\ p[2] \ Sessions \subseteq there
              /\ Throw
              /\ UNCHANGED links
    /\ UNCHANGED <<row, there, job, blob>>

UploadLink(r) == pc[r] = "linkNew" /\ CreateLink(r)

-----------------------------------------------------------------------------
(* POST /presign, POST /:id/upload-bytes, POST /:id/complete: a row first, *)
(* its bytes later                                                         *)

Presign(r) ==
    \E f \in Files :
        /\ row[f] = Fresh
        /\ row' = [row EXCEPT ![f] = [status |-> "PENDING", key |-> "pending", checksum |-> None]]
        /\ Begin(r, "setKey", [NoLocals EXCEPT !.file = f])
        /\ UNCHANGED <<links, there, job, blob>>

(* The request names a parent attachment that does not exist. *)
PresignForeign(r) ==
    /\ pc[r] = "idle"
    /\ Die((Joined \ mishaps) \cup {"foreign", "throw"})
    /\ UNCHANGED <<tables, blob>>

PresignKey(r) ==
    /\ pc[r] = "setKey"
    /\ LET f == loc[r].file IN Update(r, f, "idle", [row[f] EXCEPT !.key = "own"])
    /\ UNCHANGED <<links, there, job, blob>>

UploadBytes(r) ==
    \E f \in Files, b \in Bodies :
        /\ HasStatus(f, {"PENDING"})
        /\ Begin(r, "putBytes", [NoLocals EXCEPT !.file = f, !.body = b, !.key = row[f].key])
        /\ UNCHANGED <<tables, blob>>

UploadBytesPut(r) ==
    /\ pc[r] = "putBytes"
    /\ assertAttachmentStorageKey(loc[r].key)
    /\ blob' = [blob EXCEPT ![loc[r].file] = loc[r].body]
    /\ Goto(r, "activateBytes")
    /\ UNCHANGED <<tables, loc, mishaps>>

(* The store fails, or refuses the key that the row had. *)
UploadBytesFail(r) ==
    /\ pc[r] = "putBytes"
    /\ IF assertAttachmentStorageKey(loc[r].key) THEN Die({"storage", "throw"}) ELSE Throw
    /\ UNCHANGED <<tables, blob>>

Complete(r) ==
    \E f \in Files :
        /\ HasStatus(f, {"PENDING"})
        /\ Begin(r, "getBytes", [NoLocals EXCEPT !.file = f, !.key = row[f].key])
        /\ UNCHANGED <<tables, blob>>

(* Bytes that are missing or cannot be read answer 400. *)
CompleteGet(r) ==
    /\ pc[r] = "getBytes"
    /\ LET found == blob[loc[r].file]
       IN  IF assertAttachmentStorageKey(loc[r].key) /\ found # None
           THEN loc' = [loc EXCEPT ![r].body = found] /\ Goto(r, "activateBytes")
           ELSE End(r)
    /\ UNCHANGED <<tables, blob, mishaps>>

(* The store fails: 400 as well. *)
CompleteGetFail(r) ==
    /\ pc[r] = "getBytes"
    /\ End(r)
    /\ mishaps' = mishaps \cup {"storage"}
    /\ UNCHANGED <<tables, blob>>

(* The last step of both: the bytes put or read give the checksum. *)
ActivateBytes(r) ==
    /\ pc[r] = "activateBytes"
    /\ LET f == loc[r].file
       IN  Update(r, f, "idle", [row[f] EXCEPT !.status = "ACTIVE", !.checksum = loc[r].body])
    /\ UNCHANGED <<links, there, job, blob>>

-----------------------------------------------------------------------------
(* POST /:id/retire, POST /:id/restore *)

(* Mutant: retire does not look for the row. *)
RetireBlindly(r) ==
    \E f \in Files :
        /\ row[f] # Fresh
        /\ Begin(r, "retire", [NoLocals EXCEPT !.file = f])
        /\ UNCHANGED <<tables, blob>>

Retire(r) ==
    \E f \in Files :
        /\ HasStatus(f, {"PENDING", "ACTIVE", "RETIRED"})
        /\ Begin(r, "retire", [NoLocals EXCEPT !.file = f])
        /\ UNCHANGED <<tables, blob>>

RetireWrite(r) ==
    /\ pc[r] = "retire"
    /\ LET f == loc[r].file IN Update(r, f, "idle", [row[f] EXCEPT !.status = "RETIRED"])
    /\ UNCHANGED <<links, there, job, blob>>

Restore(r) ==
    \E f \in Files :
        /\ HasStatus(f, {"RETIRED"})
        /\ Begin(r, "restore", [NoLocals EXCEPT !.file = f])
        /\ UNCHANGED <<tables, blob>>

RestoreWrite(r) ==
    /\ pc[r] = "restore"
    /\ LET f == loc[r].file IN Update(r, f, "idle", [row[f] EXCEPT !.status = "ACTIVE"])
    /\ UNCHANGED <<links, there, job, blob>>

-----------------------------------------------------------------------------
(* DELETE /:id: the blob, the links, the tombstone, the row *)

Delete(r) ==
    \E f \in Files :
        /\ HasStatus(f, {"PENDING", "RETIRED", "PURGED"})
        /\ Begin(r, "deleteBlob", [NoLocals EXCEPT !.file = f, !.key = row[f].key])
        /\ UNCHANGED <<tables, blob>>

(* Mutant: the blob stays. *)
DeleteBlobNever(r) ==
    /\ pc[r] = "deleteBlob"
    /\ Goto(r, "deleteLinks")
    /\ UNCHANGED <<tables, blob, loc, mishaps>>

(* A key "pending" is skipped, a key "purged" refused; both go on. *)
DeleteBlob(r) ==
    /\ pc[r] = "deleteBlob"
    /\ blob' = IF assertAttachmentStorageKey(loc[r].key)
               THEN [blob EXCEPT ![loc[r].file] = None] ELSE blob
    /\ Goto(r, "deleteLinks")
    /\ UNCHANGED <<tables, loc, mishaps>>

(* The store fails: the error is swallowed. *)
DeleteBlobFail(r) ==
    /\ pc[r] = "deleteBlob"
    /\ Goto(r, "deleteLinks")
    /\ mishaps' = mishaps \cup {"storage"}
    /\ UNCHANGED <<tables, blob, loc>>

DeleteLinks(r) ==
    /\ pc[r] = "deleteLinks"
    /\ links' = [p \in DOMAIN links |-> IF p[1] = loc[r].file THEN 0 ELSE links[p]]
    /\ Goto(r, "purge")
    /\ UNCHANGED <<row, there, job, blob, loc, mishaps>>

DeletePurge(r) ==
    /\ pc[r] = "purge"
    /\ LET f == loc[r].file
       IN  Update(r, f, "deleteRow", [row[f] EXCEPT !.status = "PURGED", !.key = "purged"])
    /\ UNCHANGED <<links, there, job, blob>>

DeleteRow(r) ==
    /\ pc[r] = "deleteRow"
    /\ IF Exists(loc[r].file)
       THEN RemoveRow(loc[r].file) /\ End(r) /\ UNCHANGED mishaps
       ELSE UNCHANGED <<row, links>> /\ Throw
    /\ UNCHANGED <<there, job, blob>>

-----------------------------------------------------------------------------
(* POST and DELETE /attachment-links *)

Link(r) ==
    \E f \in Files, ts \in Targets :
        /\ HasStatus(f, {"ACTIVE"}) /\ SessionsFound(ts)
        /\ Begin(r, "count", [NoLocals EXCEPT !.file = f, !.targets = ts])
        /\ UNCHANGED <<tables, blob>>

(* Mutant: the count of links is not looked at. *)
LinkQuotaNever(r) ==
    /\ pc[r] = "count"
    /\ Goto(r, "dedupe")
    /\ UNCHANGED <<tables, blob, loc, mishaps>>

LinkQuota(r) ==
    /\ pc[r] = "count"
    /\ IF LinkCount(Counted(loc[r].targets)) < MaxLinks
       THEN Goto(r, "dedupe") /\ UNCHANGED loc
       ELSE End(r)
    /\ UNCHANGED <<tables, blob, mishaps>>

(* The search is for a link of the same targets, not of one of them. *)
LinkDedupe(r) ==
    /\ pc[r] = "dedupe"
    /\ IF links[<<loc[r].file, loc[r].targets>>] = 0
       THEN Goto(r, "link") /\ UNCHANGED loc
       ELSE End(r)
    /\ UNCHANGED <<tables, blob, mishaps>>

LinkCreate(r) == pc[r] = "link" /\ CreateLink(r)

Unlink(r) ==
    \E f \in Files, ts \in Targets :
        /\ links[<<f, ts>>] > 0
        /\ Begin(r, "unlink", [NoLocals EXCEPT !.file = f, !.targets = ts])
        /\ UNCHANGED <<tables, blob>>

(* Mutant: a link that is gone is deleted again. *)
UnlinkTwice(r) ==
    /\ pc[r] = "unlink"
    /\ links' = [links EXCEPT ![<<loc[r].file, loc[r].targets>>] = @ - 1]
    /\ End(r)
    /\ UNCHANGED <<row, there, job, blob, mishaps>>

(* The delete of a link that is gone throws.  Of two equal links, either   *)
(* stands for the one that was found.                                      *)
UnlinkDelete(r) ==
    /\ pc[r] = "unlink"
    /\ IF links[<<loc[r].file, loc[r].targets>>] > 0
       THEN /\ links' = [links EXCEPT ![<<loc[r].file, loc[r].targets>>] = @ - 1]
            /\ End(r)
            /\ UNCHANGED mishaps
       ELSE UNCHANGED links /\ Throw
    /\ UNCHANGED <<row, there, job, blob>>

-----------------------------------------------------------------------------
(* POST /attachment-backups, which runs the job before it answers.  What   *)
(* the manifest says is left out.                                          *)

buildBackupManifestKey == "backup"

Backup(r) ==
    /\ Begin(r, "backupRun", NoLocals)
    /\ job' = [job EXCEPT ![r] = "PENDING"]
    /\ UNCHANGED <<row, links, there, blob>>

BackupRun(r) ==
    /\ pc[r] = "backupRun"
    /\ job' = [job EXCEPT ![r] = "RUNNING"]
    /\ Goto(r, "backupPut")
    /\ UNCHANGED <<row, links, there, blob, loc, mishaps>>

(* The manifest is put under its key, and the job ends. *)
BackupPut(r) ==
    /\ pc[r] = "backupPut"
    /\ job' = [job EXCEPT ![r] = IF assertAttachmentStorageKey(buildBackupManifestKey)
                                 THEN "SUCCEEDED" ELSE "FAILED"]
    /\ End(r)
    /\ UNCHANGED <<row, links, there, blob, mishaps>>

(* The store, or a query, fails. *)
BackupFail(r) ==
    /\ pc[r] = "backupPut"
    /\ job' = [job EXCEPT ![r] = "FAILED"]
    /\ End(r)
    /\ mishaps' = mishaps \cup {"storage"}
    /\ UNCHANGED <<row, links, there, blob>>

-----------------------------------------------------------------------------

Crash ==
    /\ \E r \in Requests : pc[r] # "idle"
    /\ Die({"crash"})
    /\ UNCHANGED <<tables, blob>>

ParentMissing(r) == UploadCreateForeign(r) \/ PresignForeign(r)

Arrive(r) ==
    \/ Upload(r) \/ Presign(r) \/ UploadBytes(r) \/ Complete(r) \/ Retire(r) \/ Restore(r)
    \/ Delete(r) \/ Link(r) \/ Unlink(r) \/ Backup(r)

Continue(r) ==
    \/ UploadCreate(r) \/ UploadPut(r) \/ UploadPutFail(r) \/ UploadDiscard(r)
    \/ UploadActivate(r) \/ UploadLink(r)
    \/ PresignKey(r) \/ UploadBytesPut(r) \/ UploadBytesFail(r) \/ CompleteGet(r) \/ CompleteGetFail(r)
    \/ ActivateBytes(r)
    \/ RetireWrite(r) \/ RestoreWrite(r)
    \/ DeleteBlob(r) \/ DeleteBlobFail(r) \/ DeleteLinks(r) \/ DeletePurge(r) \/ DeleteRow(r)
    \/ LinkQuota(r) \/ LinkDedupe(r) \/ LinkCreate(r) \/ UnlinkDelete(r)
    \/ BackupRun(r) \/ BackupPut(r) \/ BackupFail(r)

Next ==
    \/ \E r \in Requests : Arrive(r) \/ Continue(r) \/ ParentMissing(r)
    \/ \E e \in Entities : Remove(e)
    \/ Crash

Spec == Init /\ [][Next]_vars

-----------------------------------------------------------------------------
(* Properties *)

(* The bytes served for an ACTIVE attachment are those its checksum was    *)
(* taken from, until requests overlap or the server crashes.  A row that   *)
(* was retired and restored before its bytes came is ACTIVE without a      *)
(* checksum and without a blob.                                            *)
ContentMatches ==
    mishaps \subseteq {"storage", "foreign", "throw"} =>
        \A f \in Files : HasStatus(f, {"ACTIVE"}) => blob[f] = row[f].checksum

(* No blob is left without a row, as long as nothing goes wrong.  Each of  *)
(* the mishaps leaves one: an upload that crashes before its last write    *)
(* leaves a row that does not know the key, and its deletion skips the     *)
(* blob.                                                                   *)
NoOrphanBlob ==
    mishaps = {} => \A f \in Files : ~Exists(f) => blob[f] = None

(* A row whose blob a hard delete has given up is on its way out, whatever *)
(* other requests make of its status meanwhile, until the process dies.    *)
PurgedIsBeingDeleted ==
    mishaps \subseteq {"overlap", "storage"} =>
        \A f \in Files :
            Exists(f) /\ row[f].key = "purged" =>
                \E r \in Requests : pc[r] = "deleteRow" /\ loc[r].file = f

(* A request that runs alone, with a store that works and rows no crash    *)
(* has left half made, does not bring the process down, unless it names a  *)
(* parent or a target that does not exist: nothing looks for them, and the *)
(* foreign key throws.                                                     *)
AloneNeverThrows ==
    "throw" \in mishaps => mishaps \cap {"overlap", "storage", "crash", "foreign"} # {}

(* The links for which an entity was counted. *)
CountedLinks(e) == LinksAt({p \in Files \X Targets : Counted(p[2]) = e})

(* An entity is the counted target of at most MaxLinks links, and however  *)
(* requests overlap of at most one more for every other request: checks    *)
(* that are passed before a crash do not add up.  Links that name it after *)
(* another target have no bound.  An attachment is linked to the same      *)
(* targets once, until requests overlap; to one entity it may be linked    *)
(* again, with other targets beside it.                                    *)
LinkQuotaHolds ==
    /\ \A e \in Entities :
          Cardinality(CountedLinks(e)) <=
              MaxLinks + (IF "overlap" \in mishaps THEN Cardinality(Requests) - 1 ELSE 0)
    /\ "overlap" \notin mishaps => \A p \in Files \X Targets : links[p] <= 1

(* attachments.http.test.ts: a backup job creates its manifest.  A job     *)
(* fails only when the store does.                                         *)
BackupFailsWithStore ==
    \A r \in Requests : job[r] = "FAILED" => "storage" \in mishaps
=============================================================================
