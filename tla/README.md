# A verification project for Tymio

TLA+ modules that model parts of the Tymio server and of its web client,
configurations that model-check them with TLC, and proofs of their main
properties that TLAPS checks. Tymio (this repository) is a multi-tenant product-management hub: a
Node/Express server over PostgreSQL (Prisma), a React client, an MCP endpoint for
coding agents with its own OAuth provider, and an object store for files.
Paths below are relative to the root of the repository.

1. [The system](#1-the-system)
2. [Plan](#2-plan)
3. [What the modules have in common](#3-what-the-modules-have-in-common)
4. [The modules](#4-the-modules)
5. [Runs and bounds](#5-runs-and-bounds)
6. [Proofs](#6-proofs)
7. [Where the code does not do what is said of it](#7-where-the-code-does-not-do-what-is-said-of-it)
8. [What is not modelled](#8-what-is-not-modelled)

How to run: `tlc -config <X>.cfg <Module>.tla` for each row of section 5 (the
module of a run is in `PROJECT.json`),
`tlapm <Module>_proofs.tla` for each proof module.

## 1. The system

One Node process serves everything. It keeps little in memory (timers, flags,
sign-ins under way, MCP sessions), the rest in PostgreSQL, JSON files and the
object store. Handlers are async functions, so **any other request runs at every
`await`**. Most handlers follow one pattern: read a row, decide, wait, then
write *without a condition*. Transactions are rare and run at READ COMMITTED.
A deploy or a crash restarts the process between any two awaits, and an
exception thrown in an async handler of Express 4 is an unhandled rejection,
which ends the process. These four facts are where the hard behaviours come from.

| Component | State | Operations | Hard because |
| --- | --- | --- | --- |
| MCP OAuth: refresh tokens (`server/src/mcp/oauth-provider.ts`) | table McpRefreshToken | issue, rotate, retry within a grace, detect reuse, revoke | calls with one token race; row locks; clocks; revocation during a rotation |
| MCP OAuth: sign-in (same file) | maps `pendingAuths`, `authCodes`; table McpOAuthClient | register, authorize, Google callback, exchange | in-memory state lost by a restart between redirects |
| MCP HTTP sessions (`server/src/mcp/setup.ts`) | map of transports | open, route, close | lost by a restart, never expire |
| AI product intake (`server/src/routes/intake-sessions.ts`, `intake/`) | IntakeSession: status, plan, drafts, sourceMeta | patch, analyze, clarify, edit plan, generate and edit drafts, commit to the backlog | language model calls of many seconds between read and write; a commit that must happen once |
| Workspace atlas (`server/src/workspaceAtlas/`) | JSON index and shard files; timers and flags in memory | debounce, compile, clean up, warm up, report health | compiles overlap, fail and are cut off; files are written in place |
| Hub change events (`server/src/services/hubChangeHub.ts`) | listeners in memory | notify, subscribe | a notification lives in memory only |
| Atlas curator (`server/src/atlasCurator/`, `routes/atlas-proposals.ts`) | AtlasCuratorProposal, ArchitectureTopic | run, accept, reject, lock fields | accept and reject race |
| Attachments (`server/src/routes/attachment*.ts`, `attachments/`) | rows, blobs, links, backup jobs | upload, presign, complete, retire, restore, delete, link, back up | two stores without a transaction; unconditional writes; quotas checked first and used later |
| Tenant registration (`server/src/routes/tenant-requests.ts`, `tenant/`) | TenantRequest, Tenant, memberships, invitations | request, approve, reject, provision | ten writes without a transaction, possibly approved twice |
| Sign-in (`server/src/routes/auth.ts`, `auth/`) | EmailLoginToken, sessions | Google, magic link | redeemed by check and later write |
| Tenant resolution and roles (`tenant/tenantResolver.ts`, `tenantPrisma.ts`, `middleware/`, `lib/workspaceRbac.ts`) | per request | choose tenant, scope queries, allow | none: stateless |
| Audit log and notifications (`services/audit.ts`, `notification-*.ts`) | AuditEntry, UserMessage, NotificationDelivery | record, plan channels, deliver | runs after the answer, lost by a crash |
| Execution boards (`routes/execution-boards.ts`, `requirements.ts`, `client/src/pages/ExecutionBoardPage.tsx`) | boards, columns, status of requirements; copies on the page | create, set default, reorder, move, drag | a transaction that waits for a second connection; a drop that sends all cards |
| Owners and assignments (`routes/assignments.ts`, `initiatives.ts`, `tenant/tenantPrisma.ts`) | ownerId, InitiativeAssignment | assign, remove, change, replace | two facts kept in step by separate statements |
| Import and export (`routes/import-export.ts`) | all rows of the backlog | export, replace, merge, clear | ids are mapped, rows matched by name; orders of operations nobody tries |
| Web client (`client/src/App.tsx`, `hooks/`, `components/initiatives/`, `components/intake/`) | copies of rows, a form, a dialog, requests under way | refresh, edit, save, reload, close, open again | copies of one row that are replaced at different times, answers out of order |
| Git observation (`routes/vcs-webhooks.ts`, `services/gitActivityIngest.ts`) | Release, GitActivity | ingest webhooks | delivered again after an error |
| Backlog records, ontology, voice, settings, other clients | rows of their own | create, read, update, delete | little: one statement each, or text |

What makes each correct:

- *Refresh tokens*: rotation never forks a family of tokens; a family stays with
  its user and client; a dead family stays dead; every call is answered although
  it may wait for a lock.
- *Intake*: a status never promises a plan or drafts that are not there; what is
  committed is committed once, and shown as it was created; a commit cut off by a
  crash is never repeated; the commit lock is given back.
- *Atlas*: no change of the hub is forgotten; a reader never finds an index
  that names missing files; an atlas that is behind a notified change says so; when the
  hub rests, the atlas catches up with what was notified.
- *Attachments*: the bytes of an active attachment are those of its checksum; no
  blob outlives its row; a row that has lost its blob is on its way out; links
  respect the quota of the entity they are counted for; no request brings the process
  down by itself, unless it names what does not exist.
- *Registration*: a decision on a request stands; a waiting request can still be
  approved; an approved one has its active tenant, its owner and its invitations;
  a wish for access that has been granted is answered.
- *Boards*: a board has one default column, no request waits for ever, and a card
  in a column has the status of the column.
- *Curator*: what is in a topic is what people accepted, once, and not against a lock.
- *Owners*: everybody shown as accountable for an initiative owns it, so there is one.
- *The page of a board*: a drop changes the status of the dropped card only, and
  what was dropped is what comes back.
- *The intake dialog*: drafts are made, and features created, from what its user
  saw; a session it has left is over.
- *Import and export*: a full replace gives back the export; a second merge of a
  file adds nothing.
- *Sign-in*: a state, a code and a magic link are good for one sign-in; a stored client
  is known again when the reload after a restart is done.
- *Hub events, client*: a window shows every change it was told of in the end; a save overwrites
  only what its author has seen.
- *Notifications*: no planned delivery is forgotten because another one failed.

How they interact: most changes of the backlog (intake commits included) call
`notifyHubChange`; the atlas and the open windows listen. Assignments (`routes/assignments.ts`
and the tools), the tool for a layout and imports change the hub and tell nobody. Webhooks and
accepted proposals notify the atlas too. Intake sessions are entities that attachments link to; a commit copies
those links to the features. The MCP tools call the same code as the REST routes.
Notifications follow every audit entry. The modules meet only at these points,
and each module takes what comes from its neighbours as a free choice (any change
of the hub at any time, any answer of the language model, any entity to link to),
so a module's results hold whatever the neighbours do.

## 2. Plan

Done, in this order:

1. `McpRefreshTokens`, with the abstract `TokenFamilies`, the four safety
   properties and the refinement proved.
2. `IntakeSession`, with the abstract `CommitOnce`, its safety and refinement proved.
3. `WorkspaceAtlas`, its types, `NoChangeLost` and `IndexHasShards` proved.
4. `Attachments`, its types, `PurgedIsBeingDeleted` and `ContentMatches` proved.
5. `TenantRegistration`: submission, review, the steps of
   `approveTenantRequestRecord` with failures between them, and what
   administrators and sign-ins do to the same rows.
6. `DefaultColumn` and `ExecutionCards`: boards.
7. `SignIn`: MCP sign-in up to the point where `McpRefreshTokens` begins, and magic links.
8. `CuratorProposals`, its types and `PeopleDecide` proved.
9. `ImportExport`, `Notifications`, `HubView`, `InitiativePanel`.
10. `Accountability`: owners of initiatives and who is accountable.
11. `IntakeShell` and `ExecutionBoard`: the two parts of the client that send what
    they have shown.
12. `TenantRegistration`: its types and `LinkIsSound` proved.
13. Proofs of the other safety properties of `Attachments`, `WorkspaceAtlas` and
    `TenantRegistration`, and of those of `SignIn`, `ExecutionCards`, `Accountability`,
    `InitiativePanel`, `DefaultColumn` and `IntakeShell`.
14. Proofs of what was left of the safety properties: `ExecutionBoard`, `ImportExport`, the
    types of every part of `MCServices` and `MCEndings`; and of what the liveness
    properties of the refresh tokens, of `HubView` and of `Notifications` rest on.

The modules of 6 to 11 are checked together, several in one run (section 5).

Every safety property that a passing run checks is proved. Next, to model: the sessions of
the MCP endpoint.

## 3. What the modules have in common

- A request is a process: `pc[r]` is the await its handler stands at, `loc[r]`,
  `seen[r]` or `got[c]` is what it has read. One action per await: the code from
  there to the next await, with everything it changes. The name of an action is the
  name of the handler and of the step.
- A handler's early returns (4xx) that change nothing have no action: they are the
  negation of the guard.
- The database: a single statement is atomic. `McpRefreshTokens`, `DefaultColumn`
  and `CuratorProposals` have row locks and READ COMMITTED, because their
  transactions are interactive; the transaction of an intake commit writes only
  new rows and is one action, and so is an import, whose neighbours are left out.
- A crash empties what is in memory and leaves what is stored.
- *History variables* (`crashed`, `mishaps`, `readRev`, `told`, `owed`, `settled`) are never read by an
  action except to update themselves. `mishaps` collects what has gone wrong so
  far (requests that overlap, a store that fails, a crash). A property that the
  code guarantees only under conditions names the mishaps it survives; where it
  does not survive one, the code is indeed wrong after it (section 7).
- Definitions marked "Mutant" are plausible bugs of one definition. No
  specification uses them: each is there to be put in the place of its original,
  which must then violate a property; `PROJECT.json` pairs them.

## 4. The modules

### McpRefreshTokens, TokenFamilies

`server/src/mcp/oauth-provider.ts` from `mintRefreshToken` (line 105) and
`exchangeRefreshToken` (207) to `revokeToken` (381).

| Model | Code |
| --- | --- |
| `row`, `minted`, `born` | table McpRefreshToken, and what it has ever held |
| `lock`, `pc = "claimed"` | the row lock of the open transaction |
| `ExchangeRefreshToken` | lookup and the refusals (not found, client mismatch, expired) |
| `RotateClaim`, `RotateCommit`, `RotateInactive`, `RotateAbort` | `rotateRefreshToken`: conditional update, user check, create, commit or rollback |
| `RotateReread`, `GraceLookup`, `IssueTokensForRefreshRow` | the catch and the idempotent retry |
| `RevokeToken`, `DeleteFamilyFind`, `DeleteFamilyRemove` | `deleteMany` of a family: the rows it finds, then waits for, then removes |
| `MintRefreshToken`, `SetActive`, `Tick` | the environment: sign-ins, administrators, the clock |

`TokenFamilies` is the promise: a family has at most one holder; only a holder can
be replaced, by a token never seen; a family that ended never begins again. It is
instantiated with the unused token of each family as the holder.
Access tokens (signed, stateless) and scopes are left out: no decision depends on them.

### IntakeSession, CommitOnce

`server/src/routes/intake-sessions.ts`, `server/src/intake/commitDrafts.ts`: one
session, all its handlers.

| Model | Code |
| --- | --- |
| `session` | the row: status, whether there is a plan, drafts with their approvals, `sourceMeta.commitResult` |
| `created` | copies of each draft (and of a new initiative) in the backlog |
| `seen` | the row as the handler first read it; it is written back later |
| `Analyze`, `AnalyzeMark`, `AnalyzeStore`, `AnalyzeFail`, ... | one name per await of each handler |
| `Commit`, `CommitMark`, `CommitTransaction`, `CommitRecord` | checks, COMMITTING, the transaction, COMMITTED with its result |
| `CommitRefuse`, `CommitRecordFail` | the two ways back to REVIEWING |

The planner and the parsers are a language model behind schema validation: any
valid answer, or a failure. Texts are left out.
`LateFailures` says whether the write of COMMITTED, after the transaction, may fail.
`CommitOnce` is the promise: open, committing, committed; items are created together,
once, before the session says committed; committed is final.

### WorkspaceAtlas

`server/src/workspaceAtlas/` (hubListener, compiler, store, rebuildState,
startupWarm), `services/hubChangeHub.ts`, `routes/workspace-atlas.ts`, and the MCP
tool `tymio_rebuild_workspace_atlas`: one tenant.

| Model | Code |
| --- | --- |
| `hub`, `rev`, `unnotified` | objects in the backlog, changes, handlers between write and `notifyHubChange` |
| `Change`, `ChangeSilently` | a write that is notified, and one that is not (imports, assignments); `owed` is the last change that a compile is due for: the last one notified, or at a restart without an index the last one of all |
| `timer` | the debounce map entry (`hubListener.ts:15-30`) |
| `pending`, `compiling`, `lastError` | the maps of `rebuildState.ts` |
| `index`, `shards` | `workspace-atlas.json` (absent, truncated, or written) and the shard files |
| `Query` ... `Succeed`, `Throw` | `compileWorkspaceAtlasForTenant`: queries, time stamp, shards, index, clean-up, flags |
| `Notify`, `TimerFire`, `Rebuild`, `Warm`, `Restart` | who starts a compile, and what forgets one |
| `computeAtlasHealth` | GET `/api/workspace-atlas` |

All queries of a compile are one read: a change that lands between two of them
counts as coming after, and its own notification follows if it has one. A shard is written
in one step: its content is read by no property, only which compile wrote it.
The index is written in two, because the code truncates it in place.

### Attachments

`server/src/routes/attachments.ts`, `attachment-links.ts`,
`attachment-backups.ts`, `server/src/attachments/`.

| Model | Code |
| --- | --- |
| `row`, `links`, `job` | Attachment, AttachmentLink, AttachmentBackupJob |
| `Targets`, `Kinds` | what a link may name: one or more of a feature, a requirement, an initiative, a demand, an intake session |
| `Counted`, `LinkCount` | `assertLinkQuota`: the first target in this order is the one whose links are counted |
| `there`, `Remove` | which entities exist; one that is deleted takes the links that name it along, unless it is a session, which no foreign key knows |
| `blob` | the object under a row's own key |
| `Upload` to `UploadLink` | POST `/`: row, put, activation, link |
| `Presign`, `PresignKey`, `UploadBytes*`, `Complete*`, `ActivateBytes` | the row first, its bytes later |
| `Retire*`, `Restore*`, `Delete*` | check, then write; hard delete in four steps |
| `Link*`, `Unlink*` | quota, search for a link of exactly these targets, creation |
| `ParentMissing`, `CreateLink` | a parent or a target that does not exist: nothing looks for it, and the foreign key throws |
| `Backup*` | the job and its manifest |
| `Update`, `CreateLink`, `Throw` | Prisma throws when a row is gone; nothing catches it; the process ends |

An intake session is looked for in the same step as the attachment, or as the count of
an upload. Which attachment is whose parent is left out: what is modelled is that the
parent may not be there. The bytes of a file stand for their checksum. Of two equal links (they differ in
their id) either stands for the one a request has found. URLs are never signed, as
with the drivers "worker" and "local". The database does not fail here; the store
does.

### TenantRegistration

`server/src/routes/tenant-requests.ts`, `tenants.ts`, `me.ts`,
`server/src/tenant/tenantProvisioning.ts`, `server/src/lib/` (invitees, side
effects, access requests), `server/src/auth/oauthUserService.ts`.

| Model | Code |
| --- | --- |
| `Submit`, `Create` | POST `/tenant-requests`: slug and open request are looked for, then the row is created, and perhaps approved at once |
| `Review`, `Reject` | POST `/:id/review`: the read of PENDING, and the write that follows a rejection |
| `CreateTenant` to `Finish` | `approveTenantRequestRecord`, one action per statement: tenant, provisioning, contact, membership, invitees, side effects, access requests, the request itself |
| `AdminCreateTenant`, `AdminProvision`, `PatchTenant`, `DeleteTenant`, `AddMember`, `RemoveMember` | administrators |
| `SignIn`, `AskAccess`, `WriteAsk` | users: invitations taken up, access asked for |

Any statement of an approval may fail, and the process end between any two.

### DefaultColumn

`server/src/routes/execution-boards.ts`: the columns of one board.
`ensureSingleDefaultColumn` runs inside a transaction and uses the global client,
so `Reset` is a statement of a second connection: it sees committed rows, waits for
the row locks of the others (`Locked`) and commits by itself. `TimeOut` is Prisma's
limit of five seconds; the rejected promise has no handler and ends the process
(`ProcessEnds`), with every other transaction.

### ExecutionCards

`server/src/routes/requirements.ts`, `services/requirementExecutionColumn.ts`, and
the tools of `mcp/tools.ts` on requirements, layout and columns.

| Model | Code |
| --- | --- |
| `CreateCard`, `PutCard`, `DeleteCard`, `Layout` | the routes, and the tools that do the same |
| `ToolUpdate` | `tymio_update_requirement`, `tymio_upsert_requirement`: the column is not looked up for a status |
| `Outcomes`, `SyncedColumns` | `applyExecutionColumn`, `executionColumnIdForStatusChange` |
| `Resolve`, `Write` | card by card: what is looked up, and the update, each committed by itself |
| `AddColumn`, `RemapColumn`, `DeleteColumn` | changes of the board in between |

### ExecutionBoard

`client/src/pages/ExecutionBoardPage.tsx` over the layout of
`server/src/routes/requirements.ts`.

| Model | Code |
| --- | --- |
| `loaded`, `shown` | the requirements the page has loaded, and `columnItemIds` |
| `columnIdForStatusFallback`, `ColumnKey`, `buildColumnItemIds` | what the page makes of the rows; a column is sorted by the `Rank` of its cards, the number of those before each |
| `Drop`, `Moved` | the end of a drag: the places of all cards are shown and sent |
| `ReadLayout`, `WriteLayout`, `Saved` | the route that writes them, column by column and card by card (`Entries`, `First`), and the load that follows |
| `Loaded`, `ReadRows`, `SelectBoard`, `Open` | loads, none of which is numbered |
| `Check`, `SetStatus`, `MarkDone`, `Create`, `Delete` | the tree, the kanban, the tools: what others do meanwhile |

The columns stay as they are here; `ExecutionCards` has their changes.

### Accountability

`server/src/routes/assignments.ts`, `initiatives.ts`, the tools on assignments in
`mcp/tools.ts`, the calls the client makes in sequence (`client/src/App.tsx`), and the
extension of Prisma that adds the tenant to a query (`tenant/tenantPrisma.ts`), which
does not see the rows of a nested create.

| Model | Code |
| --- | --- |
| `owner`, `rows` | `ownerId` of one initiative, and its assignments; a row made with the initiative is "hidden" from queries by tenant |
| `AccountableUsers`, `HiddenHeads` | who the initiative is shown with as accountable, by a row of either kind, and who by a hidden one, which no assignment replaces (cause "nested") |
| `Assign`, `ClearPrior`, `Upsert`, `Own` | an assignment, statement by statement |
| `Unassign`, `Remove`, `Disown` | the removal of one |
| `ChangeRole`, `Replace`, `SetOwner` | the transactions and single statements of other routes |
| `Mishap`, `Restart` | a call that breaks off, and the process that ends |

### CuratorProposals

`server/src/routes/atlas-proposals.ts`, `architecture-topics.ts`,
`server/src/atlasCurator/applyProposal.ts`, `intake.ts`: proposals for the fields of
one topic. `Accept`, `LookAtLock`, `Apply`, `Commit` are the statements of one
transaction; `Reject` and `WriteRejected` are two statements without one;
`EditTopic` sets and removes locks.

### ImportExport

`server/src/routes/import-export.ts`. `db` and `file` are rows by id; `Mappings` says
which row each row of a file may become (the `idMap` of the code), `Matches` is the
search of `mergeImport` for requirements, `Merge`, `Replace` and `Clear` are one
transaction each. `Merged` and `Replaced` are what an import writes along these maps, and
`MergeFails` what makes it fail: a requirement without an initiative, a dependency that exists.
A new row has an id that neither the database nor the file has or refers to (`FreshInits` and
the others), as generated ids do. Four kinds of rows stand for the twenty.

### SignIn

`server/src/mcp/oauth-provider.ts` (registration to exchange) and
`server/src/routes/auth.ts` (magic links). `known`, `storing` and `stored` are the
map of clients, the inserts under way and the table; `auth` follows an attempt
through `pendingAuths` and `authCodes`, which `Restart` empties. `ReadClients`, `LoadClients`
and `ReloadFails` are `loadMcpOAuthClients`, which the start of the server does not wait for:
between its query and its answer clients register, and the answer replaces them.
`VerifyLink`, `MarkUsed` and `Login` are the three steps of a redemption.

### HubView, InitiativePanel

`HubView` is what a browser window knows of the hub: `Change` and `Event` are
`notifyHubChange` and `handleHubEvent`, `ChangeSilently` a write that sends no event
(assignments, layouts, imports), `told` the last change that one was sent for, `Disconnect` and `Reconnect` the stream,
`Answer` and `Land` a fetch, and dragging a row holds refreshes back.

`InitiativePanel` is one initiative in the panel of `App.tsx`: the row of the list,
`displayInitiative`, the form, the flags `formDirtyRef`, `hubRemoteChangePending` and
`saveConflict`, requests under way, and the server's PUT, which compares
`updatedAt` (`Check`) before it writes (`Write`). `Other` is anybody else.

### IntakeShell

`client/src/components/intake/ProductIntakeShell.tsx` against the sessions of
`server/src/routes/intake-sessions.ts`: the dialog in which a user walks through an
intake, over the sessions it begins and leaves. A text is a stamp.

| Model | Code |
| --- | --- |
| `ui` | state of the component: the copies of plan and drafts, the status, the flags of requests under way, the session and its ref |
| `row` | the sessions in the database |
| `Open`, `Cancel`, `Escape` | the dialog begins and leaves a session |
| `RunAnalyze`, `SubmitClarification`, `EditPlan`, `RunGenerateDrafts`, `RunCommit` | the callbacks of the same names |
| `TypeTitle`, `BlurTitle`, `TypeDraft`, `BlurDraft`, `Decide` | edits, which are sent when a field is left |
| `Create`, `Read`, `Mark` ... `CommitRecord` | the handlers, one action per await |
| `Land`, `Lose` | an answer comes, whatever the dialog shows by then, or does not |

### Notifications

`server/src/services/audit.ts`, `notification-matrix.ts`, `notification-delivery.ts`:
an entry, the plan of its deliveries, and the statements of each one, `Crash` and
`StatementFails` at any of them.

## 5. Runs and bounds

| Run | Question | Bounds | Distinct states |
| --- | --- | --- | --- |
| `mcp_refresh_safety` | no fork, grants to the holder, `TokenFamilies` implemented | 2 requests, 3 tokens, 2 families, 2 clients, 1 user, time 0..2 | 723,042 |
| `mcp_refresh_revocation` | is a revoked family empty? (no: section 7) | 2 requests, 3 tokens | counterexample |
| `intake_concurrent` | what holds however requests interleave, crash and fail; what the dialog makes of it | sessions: 2 requests, 2 drafts, late failures; dialog: 2 sessions, 2 requests, 1 draft, 3 texts, 2 mishaps | 6,018,685 |
| `intake_doubleclick` | does a double click commit once? (no) | 2 requests, 1 draft | counterexample |
| `atlas` | what survives overlap, failure and restart; catching up | 2 compiles, 2 objects, 2 revisions | 2,595,564 |
| `atlas_overtaken` | does it catch up if compiles overlap? (no) | 2 compiles, 1 object | counterexample |
| `attachments` | blobs, rows and links under interleaving, failing store, crash | 2 requests, 2 files, 1 content, 1 feature, 1 intake session, links to the feature or to both, quota 1 | about 2.1 million |
| `attachment_backup` | does a backup fail only with the store? (no) | 1 request | counterexample |
| `tenant_registration` | what survives failing statements and racing reviews | 2 slugs, 2 tenants, 2 users, 2 handlers, 4 steps | 1,225,861 |
| `endings` | what must end: calls on tokens and columns, commits, views, notifications | tokens: 2 calls, 2 tokens; intake: 1 request, 3 drafts, crashes; columns: 2 requests, 2 columns; view: 2 fetches, 2 revisions; notifications: 1 entry, 2 users, 2 channels | 133,267 |
| `services` | cards, boards, owners, proposals, imports, sign-ins, saves | cards: 2 cards, 2 columns, 2 requests, 3 edits; board: 2 cards, 3 columns on 2 boards, 2 requests, 2 acts; owners: 2 users, 2 requests, 3 calls; proposals: 2, 2 fields, 2 requests; imports: 4 + 4 ids, 2 columns, 2 titles, 5 operations; sign-ins: 2 clients, 2 attempts, 1 link, 3 tries; panel: 2 revisions | 1,512,286 |
| `panel_reload` | does a reload get the others' version? (no) | 2 revisions | counterexample |

**Runs of several modules.** `MCEndings`, `MCServices` and `MCIntake` check modules that share no
state, each with its own variables. A variable `part`, chosen at the start, says
which module takes steps; the others stay in an initial state. The behaviours of a
run are therefore those of the modules one by one, and its states their sum, not
their product: nothing is shown about one module by the silence of another, and
every property is evaluated over all behaviours of its own module. The fairness of
`MCEndings` is the fairness of each module (`FairSpec`), with the conditions of
several modules written as one where they have the same form: as only one of them
takes steps, strong fairness of `A \/ B` is strong fairness of the one that can.

Why the bounds are enough to show the interesting cases:

- *Two requests*: every hazard listed in `PROJECT.json` is a race of two. The
  proofs cover any number where they apply.
- *Tokens*: three tokens let a family be rotated twice, or two families live at
  once; the token of a family can then be reused when its successor is already
  used. `Grace` and `RefreshTTL` are one tick and the clock goes to two, so a call
  falls before, on and after both ends.
- *Drafts*: two give the gate approved, skipped and pending drafts at once and let
  generations of drafts differ; `MaxCopies` 2 is one more than `NoDupes` allows.
- *Compiles* is the degree of overlap. `MaxRev` 2 is one change after the first
  compile may have begun: what matters is whether a compile has read it.
- *MaxLinks* 1 in place of 10: one link fills the quota and two racing requests exceed
  it. *Targets*: a link names the feature, or the feature and the session, so of two targets one
  is counted, the one has a foreign key and the other has none, and one file can be linked to
  the feature twice. One content suffices: what the properties tell apart
  is present and absent (an upload with other bytes needs a new id).
- *Columns, cards, proposals, fetches*: two of each give two requests their own and
  a shared one. Three edits of a board are a request that reads, another that
  changes what was read, and a change of the columns in between.
- *Imports*: five operations are enough for two rows of one title, an export, an
  edit and a merge done twice; of the ids two are there and two are new.
- *Revisions of the panel*: two writes are the panel's own and somebody else's, in
  either order. *Tries*: a code or link that two requests use, and a third one after them.
- *The dialog*: two sessions are the one that was left and the one that its late
  answers meet; three texts are a plan, an edit and an edit of the draft made from
  it; two mishaps let requests overlap and one of them fail (after them the properties say
  nothing until an answer mends it). The run stops where a third session would begin.
- *The board*: of two boards one has two columns, so that a card can be in a column
  of this board, of the other one, or in none; two acts are a drop and another drop,
  a load or an act of somebody else in its way.
- *Owners*: three calls are an assignment, what takes it back and one that comes between.
- Symmetry is used in safety runs over sets no definition singles a member out of;
  in none that checks liveness. The view of `intake_concurrent` leaves out only a
  variable that no action and no property of the run reads (`crashed`). The view of `attachments`
  (`View`) leaves out the jobs, which none reads either; of the mishaps it keeps what the
  properties tell apart (`Class`: after an overlap only the slack of the quota is left to say, after a crash
  only the quota), and of a row its checksum only while a property compares it, which no action
  does. Since symmetry orders states by what is left out too, the number of states of
  `attachments` varies a little from run to run.
- The view of `services` (`MCView`) makes one state of those that no continuation and
  no property of the run can tell apart. The slots of requests count by what they
  hold: a permutation of them permutes the behaviours. History counts as far as a
  property reads it (`"blind" \in lost` of the panel, `causes = {}` of the owners,
  `last = "merge"` of the imports; `reloaded` is for `panel_reload`, a run of its own). The
  client and the age of a sign-in that is spent or lost are read by no step, for it
  stays so. And where a bound is reached, what only one more counted step would read
  is left out: the export after the last import, the values in the form and in the save when no
  revision is left to write, and the page when no drop is left. Action
  properties are evaluated on every step all the same, whether or not the view has
  seen the state it leads to.

Types are checked in the runs `endings` and `services`, and proved for every module that
has them (section 6) but `IntakeShell`, whose types are in no run; what its proofs need of them is
part of `DialogInv`.

Deadlock is checked in every run, but says little: users, crashes and restarts can
always act. That calls end is what the liveness properties say.

**Fairness.** `McpRefreshTokens`: strong fairness of each request's next step,
because PostgreSQL queues those that wait for a row lock and grants it in order,
and every other await ends. `DefaultColumn`: the same, and weak fairness of Prisma's
limit on a transaction. `IntakeSession`: weak fairness of each request's next step,
since database and language model answer or time out. `Notifications`: weak
fairness of the loop over deliveries. `HubView`: the server answers a fetch (weak) and
an open stream delivers (strong, because delivery waits for a free fetch in the model
only). `WorkspaceAtlas`: weak fairness of notifications and of compile steps; strong
fairness of the timer and the warm-up, because they wait for a free slot in the model
only (the code starts any number of compiles). Nowhere are users, clients, the clock or
failures obliged to do anything. The other modules state no fairness: their properties
are safety.

## 6. Proofs

The proof modules contain no assumption beyond those of the models: constants
that stand for "none" are outside the sets they extend, bounds are naturals,
and the requests that can be in flight at once are finitely many where a quota counts
them (`AttachmentsAssumption`). `MCServices` names what its parts need of the sets they
share (`ServicesAssumption`, `FilesAssumption`, `BoardsAssumption`): an attempt to sign in is no
link, what stands for nothing is none of the things, ids of files and boards are numbers in
their order and finitely many where the code counts or sorts them; `EndingsAssumption` says
of `MCEndings` what `McpRefreshTokens` assumes. TLC evaluates all of them.
`OwnerKept`, `LockIsOwned`, `PurgedAreDeleted`, `NobodyWaitsForAWaiter`, `QuietWindowIsCurrent`
and `WhatIsDoneIsTold` state what the models keep for every value of the constants and no
run checks separately.
They hold for every number of requests, tokens, files, objects. The theorems of
`MCServices_proofs`, `MCEndings_proofs` and `MCIntake_proofs` are about the specifications of
`MCServices`, `MCEndings` and `MCIntake`, so about every behaviour of the part they name; the
bounds of a part (`MaxTries`, `MaxEdits`, `MaxCalls`, `MaxRev`, `MaxImports`, `MaxDrops`,
`MaxSessions`, `MaxStamps`, `MaxMishaps`) are constants there too, and the proofs hold for each of their values.
`DialogAssumption` tells the fields of the dialog apart.

| Theorem | States | By way of |
| --- | --- | --- |
| `McpRefreshTokens_proofs` `TypeCorrect`, `RotationNeverForks`, `OwnerKept`, `RetryGetsOwnToken` | the run's invariants | `IInv`: a claimed row is locked by its call, still there and unused; a call past the checks knows its family's owner even when its row is gone; what a lookup found is of that family. Three lemmas say how deletion, insertion and rotation of rows keep it |
| `RotationImplementsTokenFamilies` | refinement | each step is a stutter, an end, a sign-in or a rotation of the abstract families |
| `NobodyWaitsForAWaiter` | what `EveryRequestEnds` rests on: a row that a call waits for is locked by a call that waits for none | `LockBack`: a locked row is locked by a call between its claim and the end of its transaction, for this row |
| `IntakeSession_proofs` `TypeCorrect`, `StatusJustified`, `ReplayAlwaysAnswers`, `OrphanNeverRepeated`, `LockIsOwned` | hold for any overlap, crash and late failure | `IInv`: plan and drafts never disappear, so a request that is going to write a status still finds what it needs |
| `NoDupesAlone`, `CommittedShowsHub`, `SessionImplementsCommitOnce` | assume `OneAtATime`: requests do not overlap, the last write does not fail | `SerialInv`: an open session has created nothing; the request at work has seen the session as it is |
| `WorkspaceAtlas_proofs` `TypeCorrect`, `DebounceLosesNothing` | `NoChangeLost` | `DueInv`: the warm-up counts only before the first query, when there is no index yet |
| `IndexNamesFiles` | `IndexHasShards` | `ShardInv`: how far the one compile has come with its files |
| `ShardsOfIndex`, `BehindOnlyAfterFailure` | `ShardsMatchIndex`, `QuietIsFreshOrFailed` | `CompileInv`: the files a compile has written are of its own revision, a compile that has read an old revision leaves a timer or a notification behind, and an atlas at rest was left by one compile or by a failed one |
| `TenantRegistration_proofs` `TypeCorrect`, `LinksAreSound` | types, `LinkIsSound` | `HandlerInv`, `RequestInv`: a handler past a statement works on a request and a tenant, and the request has a contact; `LinkInv`: no request is linked to a tenant that an approval has made and not yet linked, and no two approvals have made one tenant, so the last write of each gives its request a tenant of its own |
| `DecisionsStand` | `DecisionStands` | `TurnInv`: until two have worked on one request, the request of a review is PENDING and the review alone with it; `RowInv`, `MadeInv`: a slug is unique, and a tenant that an approval has made carries its slug, so a second approval cannot make another |
| `WaitingIsApprovable` | `StillApprovable` | `FreeInv`: the slug of a request that waits is free, or a handler that is still at work has made its tenant |
| `ApprovalsAreComplete` | `ApprovalIsComplete` | `RoleInv`, `MadeInv`: what the contact and each invitee have become by each statement of the approval, with the invitees still to come |
| `AccessIsAnswered` | `AccessAnswered` | `AccessInv`: a member's request for access is pending only while a handler has yet to come to it (`Owes`) |
| `Attachments_proofs` `TypeCorrect` | types | a request that works on a file has one |
| `PurgedAreDeleted` | `PurgedIsBeingDeleted` | inductive with the types |
| `ActiveContentMatches` | `ContentMatches` | `ContentInv`: blob and checksum agree but for the row of the one request between its two writes, and that row is not ACTIVE |
| `NoBlobWithoutRow`, `AloneIsSafe` | `NoOrphanBlob`, `AloneNeverThrows` | `QuietInv`: a request alone finds at each await the rows, keys and links it has looked up before (`FindsWhatItNeeds`), so the first throw comes after another mishap, of which a parent or target that does not exist is one; a row with an object knows its key |
| `LinkQuotaKept` | `LinkQuotaHolds`, for the target of a link that is counted | `CountedIn`: it is one of those named, so the links counted for an entity are among those that name it; `QuotaInv`: every request that has passed the check counts as if it had linked; `AloneInv`, `OnceInv`: without overlap what is to be linked to some targets is not linked to them yet. Sets of links and of requests are finite, and each step adds or removes one |
| `MCServices_proofs` `TypeCorrect`, `ReviewDecides` | types, `PeopleDecide` | `JobInv`: a creation is alone with its proposal and a review has found it created; `ReviewInv`: without a contest a review is alone and its proposal PENDING; `LockInv`: past the look at a lock a locked field means a later lock, and a held topic keeps its locks |
| `OneSignInEach` | `OnceMeansOnce` | `CodeInv`, `LinkInv`: who holds a code has taken it from the map, and of the requests that have read a link only one exists unless it is contested; `ClientInv`: what the reload has read holds the clients stored by the restart, and nothing takes a client from the map after it |
| `BoardTellsStatus` | `CardMatchesColumn` | `CardInv`: at each card of a layout the column looked up for it, the status to be written and the column that was read still fit together (`Placing`, `Tells`) |
| `AccountableIsOwner` | `AccountableOwns` | `OwnerInv`: between the statements of an assignment the prior accountable are gone, or the owner is the one to come, as long as the request is alone; whom a hidden row makes accountable beside the owner is on record as the cause "nested" |
| `SavesOverwriteTheSeen` | `ChangesAreSeen` | `PanelInv`: every copy of the row, on the screen or in an answer, is of a revision that had this value (`IsCopy`), and a save under way has seen what it compares with (`SaveInv`) |
| `RestoringImports` | `ImportsRestore` | `MergedBefore`: after a merge, each way in which the same file may be merged again fails or gives back the database, if its rows can be told apart. The ids of new rows are distinct because their ranks are |
| `DropsTellOneStatus`, `DropsComeBack` | `OthersKeepStatus`, `DropStays` | `BoardInv`: a save that nothing overlaps was sent on the rows as they are (`Agrees`); while it is written, a card has arrived where the map has it, or is as the handler read it (`SaveRead`); a page that is not stale shows the rows. A map is the layout of a board (`BoardLayout`): each card once, which a sort by rank and a move both keep |
| `ServicesTyped` | `TypesOK` of `MCServices` | the invariants of the parts, and `TriesInv`: the grants of a code or link and the requests that have it in hand are together no more than the tries |
| `MCEndings_proofs` `BoardHasItsDefault` | `DefaultHolds` | `DefaultInv`: a board without a default has a transaction about to commit one (`SomeInv`), and until requests overlap the only default left is that of the request that reset the others (`OneInv`) |
| `QuietWindowIsCurrent` | what `ViewCatchesUp` rests on: a window to which nothing is on its way shows the latest revision it was told of, or a later one, unless a mishap happened | `ViewInv`: that revision is shown, or its event, a request not yet answered or an answer that has it is on its way (`Catching`) |
| `WhatIsDoneIsTold` | what `NoneLost` rests on: no entry is over before each delivery of its plan is recorded as it was | `AuditInv`: the deliveries of a plan are untouched and to be begun, or told, but for the one being made (`PlanIs`), and how far that one is tells what is recorded and out (`NowIs`) |
| `EndingsTyped` | `TypesOK` of `MCEndings` | the invariants of the parts; those of the intake and of the refresh tokens are taken from the proofs of these modules, the latter by `INSTANCE` with the substitution of the model |
| `MCIntake_proofs` `DialogUsesTheSeen` | `SeenIsUsed` | `PlanInv`, `DraftInv`: unless the history says otherwise one request at a time works on the plan (the drafts), what it was asked for is what is stored, and the screen shows what is stored but for the field being typed in; an answer that was alone all the time brings what is stored (`PlanAnswer`, `DraftAnswer`), so showing it mends the screen |
| `LeftSessionsAreOver` | `LeftIsOver` | `EndInv`: a request that begins or ends a session is alone, every other one is on the session of the open dialog, and each session is over, in the dialog, or about to be begun or ended (`Held`) |

`DialogInvariance` holds these three together with the types and what they rest on: which sessions a
request can name (`SlotInv`), that a request without overlap is the only one (`AloneInv`),
what an answer brings (`AnswerInv`) and how a new session looks (`SessInv`, `CreatedInv`). Each
action of the dialog is first shown to be one of fourteen kinds of steps (`Step`, lemma `Steps`),
and each invariant to survive each kind. The attempt corrected the history of the model:
a refused cancellation of a session that is not committed, and an answer that takes the
dialog to another session, leave things out of step too.

The invariants alone are not inductive: `OneUnusedPerFamily`, for one, says
nothing of a call that is about to commit a successor, so it must be known that
this call still holds the unused row it replaces. `LinkIsSound`, for another, says
nothing of an approval whose tenant is made and whose request is not written yet.

`DecisionStands`, `ApprovalIsComplete` and `ImportsRestore` are action properties: they speak of a
step, and follow from the invariant before it.

Sorting and numbering are not proved by induction over data, which the prover cannot do,
but by counting: the n-th of a finite set of numbers is the one with n others before it
(`Rank`, `Nth`). Ranks of distinct members are distinct and below the size of the set, so by the
library's theorem on injections every rank is taken (`NthOne`, `SortedIs`); which is why
`ExecutionBoard` sorts by rank and writes a set of entries, the first of them first, where a fold over a
sequence would say the same to TLC only.

Only model-checked: liveness (`CallsEnd`, `CommitLockReleased`, `ViewCatchesUp`, `NoneLost`,
`CatchesUp`), which the prover does not do. What they rest on is proved: calls of the token endpoints
do not wait in a circle (`NobodyWaitsForAWaiter`), a locked session has a commit at work
(`LockIsOwned`), and a window, an entry or an atlas that has come to rest has come to rest where it
should, or shows a failure (`QuietWindowIsCurrent`, `WhatIsDoneIsTold`, `BehindOnlyAfterFailure`). That
they do come to rest is TLC's result. The requests of `DefaultColumn` do wait in a circle, and
it is a time limit that ends it: of these TLC alone speaks.

No module needs recursive operators.

## 7. Where the code does not do what is said of it

Found by the runs that end in a counterexample:

- **A revoked family may live on** (`mcp_refresh_revocation`). `deleteMany` waits for
  the row a rotation has claimed and does not see the successor it commits
  (`oauth-provider.ts:239`); `oauth-provider.test.ts:98` says "revokes entire family".
- **A double click creates everything twice** (`intake_doubleclick`). COMMITTING is
  written without a condition after an earlier read (`intake-sessions.ts:706`);
  `AI_PRODUCT_INTAKE_COMMIT_SOLUTION.md:207` promises "no dupes".
- **An older compile may win** (`atlas_overtaken`). Nothing keeps compiles of a tenant
  apart (`hubListener.ts:26`), and the one that ends last may have read first.
- **A reload does not reload** (`panel_reload`). After a save conflict the panel says
  "Reload to get their version" (`client/src/i18n/en.json:43`), but the reload replaces the
  selected row (`client/src/App.tsx:1344`) while the form edits `displayInitiative`
  (`InitiativeDetailPanel.tsx:335`).
- **Backups always fail** (`attachment_backup`). The key of the manifest is refused by
  the wrapper around every driver (`attachments/constants.ts:137`).

Seen while modelling; the models contain each of these behaviours, and the
properties are stated so that they do not deny them:

- A retry in the same millisecond as the rotation finds no successor and revokes
  the family (`oauth-provider.ts:268`): a sign-in too many.
- An analysis that began before a commit reopens the COMMITTED session and forgets
  its result (`intake-sessions.ts:272`).
- When the write of COMMITTED fails the session is reopened with its items already
  created, and a second commit creates them again (`intake-sessions.ts:741`). A
  crash at the same place leaves it COMMITTING for good, which at least is safe.
- `isStale` compares two values of one compile and is never true
  (`workspace-atlas.ts:17`); a restart forgets a pending rebuild, and the atlas then
  shows as current while behind.
- An atlas index truncated by a crash throws in its reader, and the warm-up passes it over.
- An attachment retired before its bytes came and then restored is ACTIVE without a
  blob (`attachments.ts:444`). A hard delete that crashes after the blob, then a
  restore, does the same.
- An upload that crashes after its put leaves a row with the key "pending", whose
  deletion skips the blob (`attachments.ts:253`, `473`).
- A handler that updates a row deleted meanwhile, or whose store fails outside a
  `try` (`attachments.ts:357`), throws and ends the process. So does one request alone that names a
  parent (`attachments.ts:239`, `313`), feature, requirement, initiative or demand
  (`attachment-links.ts:110`, `attachments.ts:260`) that does not exist.
- A link may name several entities; only the first in the order of the code is counted
  (`attachment-links.ts:82-86`), and only a link of the same targets is found
  (`95-104`): an entity named second has no quota, and a file may be linked to it again.
- The clients of the MCP sign-in are reloaded without waiting (`mcp/setup.ts:212`): until it is
  done, and if it fails, a stored client is unknown, and what registers meanwhile is cleared
  (`oauth-provider.ts:44`).
- Registration: two overlapping reviews may leave a REJECTED request with a tenant
  (`tenant-requests.ts:514`, `:122`); an approval that fails halfway strands its request
  as PENDING with its own slug taken (`:131`); a contact's address is compared as it
  was typed, without aliases; a tenant renamed during an overlapping second approval
  is created again.
- Boards: two requests that make two columns the default wait for one another until
  the process ends (`execution-boards.ts:48`), and the board may be left without a
  default. The tools that update and upsert a requirement write the status and leave
  the column (`mcp/tools.ts:1931`); a layout is not atomic (`requirements.ts:133`), and the
  tool for it tells nobody; `isDone` does not follow a status.
- Import: a merge puts requirements into no column, although
  `docs/EXECUTION_BOARDS_DRDIGITAL_BACKPORT.md:146` has "requirement column assignments" make
  the round trip; a merge with a dependency that exists fails as a whole; decisions,
  risks and links are created again by every merge; initiatives of one title collapse. A
  requirement of the file whose initiative is not known is matched by its title alone
  (`import-export.ts:724`), with any requirement of this title, as the rows come in no order:
  a file without initiatives, merged twice, may write to two different rows. The proof attempt
  found this, at more rows than the run has; `ImportsRestore` now asks for an initiative of each (`Homed`).
- The panel: the form takes over a new copy only if title, notes, isEpic, productId or id
  are new in it (`InitiativeForm.tsx:142`), but a save sends the newer `updatedAt` with all
  fields, and so reverts others' changes (loss "half"); the PUT compares and writes in
  two steps (loss "race"); a refresh of the list forgets that the form is dirty.
- The page of a board: a card with an active status that is dropped on "Unassigned"
  springs back to the column of its status, although
  `docs/EXECUTION_BOARDS_DRDIGITAL_BACKPORT.md:17` has a nullable column and columns it
  does not know "behave as unassigned"; a drop
  takes all cards off the columns of the product's other boards
  (`ExecutionBoardPage.tsx:459`); an older load that is shown late makes the next drop
  write old places back. The tree's checkbox changes `isDone` and leaves the status.
- Owners: "ACCOUNTABLE replaces prior accountable" (`mcp/tools.ts:2154`) does not hold
  for a row made together with its initiative, which has no tenant and is not seen by
  the statement that clears it (`tenantPrisma.ts`): the initiative then has two accountables,
  one of whom does not own it (cause "nested" of `AccountableOwns`); the board's removal of such a row
  throws and ends the process.
- The intake dialog: a plan's title is compared, when its field is left, with the state
  that typing has set already, so it is saved only when it has blanks around it
  (`ProductIntakeShell.tsx:635-638`); a click on "Create in hub" out of a field sends the
  save and the commit at once; the button waits neither for a save nor for an analysis,
  and an analysis that ends after the commit began reopens the session; an answer that
  lands after the dialog was closed fills the next one, and that of a cancellation
  closes it; Escape before the answer to the first request leaves a session CAPTURING
  for good.
- Proposals: overlapping reviews leave a REJECTED proposal in the topic
  (`atlas-proposals.ts:141`); a lock set while an acceptance waits is passed over.
- Notifications: a crash, or a failing update after a mail is sent, leaves a
  delivery PENDING or FAILED that reached its user.
- A window that missed a change while its stream was broken, or one that sent no event
  (assignments, layouts, imports), shows it with the next event only; the atlas is in the same
  way left behind an import, and shown as current; an older answer that arrives last wins (`useBoardData.ts:70`).

## 8. What is not modelled

Listed with reasons in `PROJECT.json`. In short: webhooks and MCP sessions keep
nothing that a later step could contradict; tenant resolution and roles are
stateless functions; most backlog records, ontology and settings are single
statements; prompts, parsers, search, e-mail templates and legal pages are text;
the clients' other views render what they fetch and keep no copy of it that they
write back; migrations, seeds and scripts run once.
