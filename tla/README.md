# Adenosine: a TLA+ verification project

Adenosine is a federated Git forge. One Go server keeps accounts, repositories
and collaboration data in PostgreSQL, Git data in bare repositories on disk, and
publishes public objects as AT Protocol records on the data server (PDS) of the
account that owns them. Those three stores share no transaction. Most of what
can go wrong lies between them: a request writes to one store, then to another,
and may be overtaken, fail or die in between.

This directory holds TLA+ models of the parts where that matters, the TLC
configurations that check them, and proofs about each of them.

| Module | Models | Checked by |
|---|---|---|
| `RepositoryTransfer` | `internal/transfer`: change of ownership by proposal and acceptance | `MC_RepositoryTransfer.cfg`, `MC_Transfer_*.cfg` |
| `OwnershipHandover` | what a transfer promises, abstractly; `RepositoryTransfer` implements it | `MC_Transfer_Succession.cfg` |
| `RepositoryTransfer_proofs` | theorems about both | TLAPS |
| `RepositoryLifecycle` | `internal/repository`: create, update, delete, restore, purge | `MC_RepositoryLifecycle.cfg`, `MC_Lifecycle_Restore.cfg` |
| `RepositoryLifecycle_proofs` | theorems about it | TLAPS |
| `WebhookDelivery` | `internal/webhook`, `internal/event`: outbox and webhook deliveries | `MC_WebhookDelivery.cfg`, `MC_Webhook_Progress.cfg` |
| `WebhookDelivery_proofs` | theorems about it | TLAPS |
| `FederationProjection` | `internal/federation`: Tap events projected into `network.*` | `MC_FederationProjection.cfg` |
| `FederationProjection_proofs` | theorems about it: locks, rows, convergence | TLAPS |
| `FederationStates_proofs` | theorems about it: states and reviews | TLAPS |
| `PullRequestMerge` | `internal/pullrequest`, `internal/git/merge.go`: merging and its retries | `MC_PullRequestMerge.cfg` |
| `PullRequestMerge_proofs` | theorems about it | TLAPS |
| `OrganizationMembership` | `internal/organization/service.go`: members, roles, invitations | through `OrganizationTeams` |
| `OrganizationTeams` | teams, collaborators and permissions, composed with the membership | `MC_Organizations.cfg`, `MC_Organization_Teams.cfg` |
| `OrganizationTeams_proofs` | theorems about both | TLAPS |
| `ReleaseAssets` | `internal/release`: releases, assets and their bytes | `MC_ReleaseAssets.cfg` |
| `ReleaseAssets_proofs` | theorems about it | TLAPS |

The `MC_*` modules instantiate the constants. `PROJECT.json` maps every
definition to the lines it models, every run to its properties, every property
to a mutant that breaks it, and lists the hazards.

## Inventory

State, operations and the hard behaviours of each part of the system. "PDS" is
the external data server; every call to it may fail, or succeed and lose its
answer.

* **Repository transfer** (`internal/transfer`). State: rows of
  `core.repository_transfers` (status, the two owners, the identities of
  proposal, successor, acceptance and redirect), the owner and record identity in
  `core.repositories`, aliases, and four records on two PDSs. Operations:
  Initiate, Accept, Cancel, inspection. Hard: three multi-step handlers racing on
  one row, resumable acceptance, a deadline that no longer applies once acceptance
  started. Correct when ownership moves only with the consent of both sides, a
  settled row never changes, a cancelled transfer leaves no announcement, and the
  records a federation peer sees agree with the database.
* **Repository lifecycle** (`internal/repository`, `internal/storage`,
  `internal/git/service.go`). State: repository row, deletion row, Git directory
  (live or quarantined), HEAD, PDS record. Operations: Create, Update, Delete,
  RestoreDeletion, and the hourly PurgeWorker. Hard: compensation by hand, restore
  racing purge, crashes. Correct when the rows agree, data is destroyed only after
  its deadline and never after a restore, and a failed request leaves nothing
  behind.
* **Outbox and webhooks** (`internal/event`, `internal/webhook`). State: outbox
  events with claims, webhook rows, deliveries with claims, attempts and results.
  Operations: event emission, webhook CRUD, redelivery; the worker claims
  (`FOR UPDATE SKIP LOCKED`, five-minute lease), fans out, sends, records. Hard:
  several workers, leases that expire under a slow one, at-least-once sends.
* **Worker supervision** (`internal/app`). Restarts a worker that returned, after a
  delay. Gives the fairness that the liveness properties need.
* **Pull requests** (`internal/pullrequest`, `internal/git/merge.go`). State: the target
  branch, a controlled ref with the fetched head, projected rows, the outbox, the status
  record. A merge moves the branch by compare-and-swap, emits an event and publishes a
  status; a retry recognizes its own commit by its trailers. Correct when no concurrent
  work is lost and what the status says is what the branch got.
* **Releases and assets** (`internal/release`). Release rows, asset rows, blobs in a
  store of their own; quotas under a row lock; deletion in stages.
* **Federation projection** (`internal/federation`). State: raw records and one row
  per AT URI with the identifier of the event it came from, derived counters and
  states, receipts and a cursor. Operation: one transaction per Tap event, which may be
  repeated and out of order, and several of which run at once. Correct when every
  derived column equals a fresh computation, nothing goes back to an older event, and
  the order of delivery does not matter in the end.
* **Organizations and teams** (`internal/organization`). State: member rows, invitations,
  grant and membership records, a hierarchy of teams with members and repository roles,
  collaborators. Every call authorizes first and writes later. Correct when the founder
  stays an owner, nobody joins without an invitation or is published without asking, the
  hierarchy has no cycle, and the permission queries agree with each other.
* **Branch protection, commit statuses** (`internal/branchprotection`,
  `internal/commitstatus`). Rows beside the pull requests, which Merge does not evaluate;
  statuses expire by a retention worker.
* **Sessions, tokens, SSH keys, passkeys** (`internal/auth`, `internal/passkey`,
  `internal/identity`). Credentials; single-row operations.
* **Issues, comments, stars, profiles, triage, moderation, notifications, search**.
  One PDS record per action plus its projection.
* **Git transport, forks** (`internal/git`, `internal/githttp`, `internal/gitssh`).
* **Sync proxy, REST handlers, CLI, configuration, web client**. Plumbing.

They interact by direct calls inside one request, through the database (the outbox
is the only queue), and through the PDS: what a service publishes comes back as a
Tap event and is projected. Several server processes may share one database.

## RepositoryTransfer

**State.** `repo` is the repository row, `transfers` the transfer rows,
`proposals`, `acceptances` and `repoRecords` what the PDSs hold, `aliases` and
`others` the routes. A request in flight has a program counter `pc[r]` and what it
remembers in `local[r]`: the rows it read or that a `RETURNING *` gave it.

**Actions.** One per SQL statement or PDS write, in the order of the handler.
Initiate: `InitiateRead`, `InitiateAuthorize`, `InitiateFind`, `InitiateCreate`,
`PublishProposal`, `SetProposal`. Accept: `AuthorizeAcceptance`, `AcceptRoute`,
`StartAcceptance`, then the four publications with their statements, then `Complete`
or `CompletePrivate`; a retry enters at the first one whose result is not stored.
Cancel: `CancelRead`, `DeleteProposal`, `CancelTransfer`. `Stop` ends a request after
any step: an error, a cancelled context and a crash have that one effect, because
these handlers compensate nothing. `Expire` and `CreateOther` are the environment.
`UpdateRepository`, `DeleteRepository` and `RestoreRepository` are the other writers
of the same row and record, each in one step (`RepositoryLifecycle` has their
steps).

**Data.** A record's CID is its content, as far as the properties tell it apart:
settings version, transfer workflow that stamped it, links back and forward. Owners
are accounts or organizations; `Author` and `Admin` say which DID writes their
records and who may act for them.

**Runs.** `transfer`: one row, two requests, two owners, one settings change: every
pair of handler steps interleaves, including a retry of each. The change may come between
two attempts of an acceptance, or publish the repository under a private transfer, so two
properties say what is left of agreement then. `IdentityFollowsOwner`: no step separates the
author of the stored identity from the owner, except a private completion of a repository
that was published meanwhile (`PublishedMeanwhile`, hazard at `transfers.sql:280`), where the
owner changes and the record stays with the former author. `AcceptanceNamesSuccessor`: what
the acceptance names and what the row stores are both publications of this transfer, of
settings in force since the offer, and the same one unless the settings changed since (hazard
at `transfer.go:378`). `transfer_succession`: two rows, so that a second transfer follows or
competes with the first, for the refinement below; its rows and owners do not depend on
settings, which it leaves alone (`MaxVersion = 0`). `transfer_edge` is a violation, where the
code and its decision record part: the projector wants the proposal to name the source
record's current CID, and the redirect has just changed it.

`RouteAvailable` leaves out that a name the destination holds as an alias is refused too
(`NOT EXISTS` over `repository_aliases`, `transfers.sql` 84-93): more completions are possible
in the model than in the code.

**Refinement.** `OwnershipHandover` says what all of this is for in four actions: `Offer`
(one at a time), `Withdraw`, `Commit`, `HandOver` (only of a committed offer, only to its
destination). `Handover == INSTANCE OwnershipHandover WITH ...` maps the owner column to
`owner`, the status and started columns of each row to `phase`, the destination to `dest`;
`ImplementsHandover` is checked by `transfer_succession` and proved for every instance (see
Proofs). The steps that map to real steps are `InitiateCreate` (by the unique index over
pending rows), `StartAcceptance`, `CancelTransfer` and the two completions; everything else,
and every late or repeated statement, is a stutter. What the abstract specification leaves
out on purpose is who makes an offer: an Initiate that authorized its actor before another
transfer completed still creates its row, so the former owner's offer can be completed
against the new one. The decision record wants the consent of both sides; this is the
hazard at `transfers.sql:184`.

## RepositoryLifecycle

**State.** `row`, `deletion` (the database), `location`, `head` (Git), `record` (PDS),
and the steps of requests and purge workers. A publication is determined by the
`updated_at` it carries, so a CID is a clock reading.

**Actions.** Each step of Create, Update, Delete, RestoreDeletion and the purge pass,
with the failure of that step as a disjunct leading to the code's own error path
(including errors the code ignores) and `CrashRequest`/`CrashWorker` between any two.
A PDS write that fails may have been made. `serial` records whether two actors were
ever active at once: the compensation property is about requests that come one at a
time, as the code has no concurrency control it could rely on otherwise.

**Runs.** `lifecycle`: two requests of any kind, a worker, two branches, one failure
in any store, one crash, five clock readings: enough for create, update or delete,
restore, and a second request at any step of them. Deadlock is not checked because a
deleted repository is the end of its life. `lifecycle_restore` is a violation: a purge
worker acts on a stale list of due deletions. A failed activation leaves its row in
`creating`, as the code does (hazard at `service.go:191`).

Not modelled here: a database statement that commits and loses its answer, and the
failure of identifier generation (`service.go` 260-264, 306-310, 389-392), which leads
to the same compensations or, in Delete, to fewer.

## WebhookDelivery

**State.** `hooks`, `events`, `deliveries` (rows), and per worker its step, its claimed
batch and the result it is about to record. A claim is free, held or stale (the lease
is over); `due` says `available_at` has passed. Ghosts count the requests sent and
what the receiver accepted, and `owed` the event and webhook pairs that must lead to a
delivery.

**Actions.** Webhook create, update, delete and redelivery; `Emit`; the worker's
`ClaimOutboxEvents`, `CreateDeliveries`, `RetryOutbox`, `CompleteOutboxEvent`,
`ClaimWebhookDeliveries`, `Send`, `Record`; `Stop` (error or crash, restarted by the
supervisor); leases and delays running out.

**Runs.** `webhooks`: two workers, one event, one redelivery, two attempts: leases
expire under both. `webhook_progress`: two events in one batch, so that a failed insert
abandons a claimed event. Its fairness: weak fairness on each worker's steps (the
supervisor restarts it, `application.go` 79-102) and on the clock; failures are bounded
(`MaxFaults`), which is what makes a retry eventually succeed. Nothing is assumed
of the receiver: a delivery settles by failing too.

## ReleaseAssets

**State.** `releases` (the state column), `rows` (the release of each asset row),
`blobs` (assets whose bytes the store holds), and per request its step and what it
remembers. The usage of a repository is a number of bytes, each byte of each asset being one
element of a set. An identifier is generated fresh, so an asset is uploaded at most once. Two
ghosts: `doomed` (assets whose deletion has begun) and `revived` (an Update overwrote
the mark of a deletion, which the documentation says hides a release; hazard at
`releases.sql:28`).

**Actions.** Create is one statement. Update reads and writes in two steps. An upload
reads the release, stores the bytes, and inserts the row in a transaction that holds the
repository's advisory lock (`CreateAsset`: usage, state, both quotas, the unique name),
or removes the bytes again. Deleting a release marks it, lists its assets, deletes the
bytes and the row of each, then the release with whatever rows it still has (ON DELETE
CASCADE). Mishaps, `MaxFaults` in all: `storage` (the store fails, before or after it
did what it was asked), `database` (a statement fails), `answer` (the commit of an
upload succeeds and says it failed), `stop` (the request ends between two steps).

**Runs.** `releases`: two requests, two releases, three assets of which two share a name
and one fills a release by itself, one mishap of any kind. Deadlock is not checked: when
every release is gone and every identifier used there is nothing left to do.

## PullRequestMerge

**State.** `commits` and `tip` are the target branch, `pullRef` the controlled ref with the
fetched head, `sourceHead` the contributor's branch, `pulls` the projected revisions (the last
is the row), `statuses` every version of the status record and `statusRow` the projected
one, `events` the outbox. `pc` and `mem` are the requests. A CID is a place in `pulls` or
`statuses`; a commit has its parents and the trailers of its message. The ghost `landed`
collects what reached the branch and was not forced away.

**Actions.** Merge: `BeginMerge` (target read, must be open), `InspectHead`, `FetchRemote`
(head mismatch, compare-and-swap of the controlled ref, forgiven conflict), `Revalidate`,
`ReadTip` (recognize an earlier attempt), `AdvanceRef`, `RecordEvent`, then `GetStatus` and
`PutStatus` of the AT Protocol client, which `BeginStatus` (open or close) shares. `Stop`
ends a request after any step. Around them `Push`, `ForcePush`, `PushSource`, `Revise` and
`ProjectStatus`.

**Time.** A status record holds milliseconds (`canonicalPullRequestTimes` cuts off the rest)
and a request holds its time as the clock gave it; `GetStatus` compares the one with the
other. `Canonical` is that cut, `Tick` the steps of the clock to a millisecond. Two statuses
of one millisecond therefore may be stored in either order, and `StatusMovesForward` says that
none is stored over one of a later millisecond.

**Run.** `merge`: two requests at a time, three calls in all (an attempt, its retry, and a
third that is a rival merge or a status change), three commits, two heads, two revisions, and
three steps of the clock to a millisecond, so that calls fall into one or into two. That is
enough for a retry after a failed event or status, for two merges of one tip, for a push under
a merge, and for a revision with the same head. A behaviour ends when the bounds are used up,
so deadlock is not checked. Liveness is not claimed: whether a merge is tried again is up to a
person.

`RetryRecognized` is what the code keeps of "a retry recognizes the commit trailers and
avoids creating a second merge commit" (`docs/pull-requests.md`): it inspects the tip only,
so after a push, a new revision or with the other strategy a second commit is made.

## OrganizationMembership and OrganizationTeams

**State.** `OrganizationMembership` has one organization: its row, `members`,
`invitations`, the `grants` and membership records on the PDSs, and the calls in progress,
each a plan of steps that its first read decided on. `OrganizationTeams` extends it with
`teams`, `teamMembers`, `assignments` (team roles on one repository) and `collaborators`,
and uses the same calls: membership changes under team calls and the other way round.

**Actions.** Each call has an action for its reads and checks (`Invite`, `ChangeRole`,
`UpdateTeam`, ...), then one per PDS write (`PublishGrant`, `PublishMembership`,
`PublishRevocation`, `DeleteMembership`), then one for its statement or transaction, which
checks again what the SQL checks and nothing more. A statement about teams takes two steps,
because it locks nothing but the row it writes: `Select` evaluates its conditions in the
snapshot it begins with and notes the teams it will write in `found[r]`; the write follows,
when others may have committed, and looks again only at what PostgreSQL checks again of a
locked row. `Stop` ends a call anywhere; `Expire` is the seven days. `CanReadRepository` and
its siblings are the four authorization queries as they are written; `EffectiveRoles` is the
definition they are compared with. The recursive part of a query (`team_lineage`) is the least
set that has the team and, with each team, its parent; the descendants of a team are found by
UNION ALL, which does not end on a cycle (`QueryEnds`).

**The hierarchy.** Nothing in the code keeps the teams a forest: two moves that overlap put
each team beneath the other, and a team is inserted or moved beneath one that is being deleted
(hazard at `organizations.sql:338`). TLC finds `TeamForest` violated as an invariant.
`TeamForestKept` states what the conditions of the statements do guarantee, although the
service's own checks are stale by then: the step that breaks the forest is the write of a
statement that was `Overtaken`, one that would have selected other teams had it begun now.

**Runs.** `organizations`: from nothing, and from an established organization
(`MC_Organizations`), so that two calls suffice for every pair of them to overlap at
every step; three accounts (founder, member, outsider), two teams in either order, three
roles that stand for the levels the queries tell apart. `organization_teams` is a
violation: a removed member keeps the memberships in teams, and with them the role and
access they give.

## FederationProjection

**State.** `log` is what Tap published, an event's identifier being its place in it.
`db` maps a cell, a column of a URI, to its value: the raw record, the row of its
collection (source event, whether it is live, the links of the record), the derived
state, the counters, and an account's identity and handle. `receipts` and `cursor` are
the tables of those names. `txn[t]` is a delivery in progress: its event, the lock stage
and the locks it still wants, the locks it holds, and its uncommitted writes.

**Actions.** `Begin` looks for the receipt and validates the event; `Duplicate` is a
delivery that finds one. `Valid` is what `DecodeEvent` refuses: among others a record without
the links its collection has, or with a link to a record of another collection
(`RightLinks`). `Acquire` takes one advisory lock, with the lookups that decide
the next ones, in one step: a handler that moves between the two does not hold that
lock, so it may as well have moved before. `Project` does the statements of `project`
over the committed cells and its own writes; an event that may touch a transfer lineage then
waits for the lineage lock (`LockLineages`) and recounts every repository from what is
committed by then (`ReconcileLineages`). `Commit` inserts the receipt and publishes the
writes, and fails if the receipt is there already. `Abort` is an error or a cancelled
request. Between what `Project` reads and what `Commit` publishes others may commit, so
a recount is exact only if the advisory locks keep them away: that is what `CountsExact`
checks. The statements of one `Project` read at one moment; in the database a later
statement may see a newer commit, which makes its count fresher and never staler.

**Locks.** `LockStages` lists the lock functions in the order `project` calls them:
issues with their repositories, pull requests with theirs, stars, forks. Within a stage the
URIs are sorted. `Follow` is the second lookup of a subject's repository, once its own lock is
held. The raw record of a repository is written before its fork locks are taken
(`postgres.go:661`); the model writes it in `Project`, after them, because nobody but a
repeated delivery of the same event writes that cell, and the lock on the stars of the
repository keeps that one out. The lock on the lineages is different: it is taken at
`postgres.go:724`, after the rows and the counters were written.

PostgreSQL's row locks are not in the state; `WaitsForRow` lets any handler about to run
statements wait for any other that has run some. `OnlyWritersDeadlock` then says that two
handlers that wait for each other both have all their sorted locks: the advisory locks of
`LockStages` cannot deadlock, nor can one of them with a row. What is left is real: of two
repository deletions one may hold a row and wait for the lineage lock while the other holds
that lock and its recount waits for the row, and two handlers may update the rows of two
repositories in opposite order. PostgreSQL aborts one of them (`Abort`), and the event is
projected when Tap delivers it again (hazard at `postgres.go:736`).

**Exactness.** `KeptExact(c, u)` says for which counters the code can keep its promise, by
what the log holds. Excepted are: the counters of a repository that an event of another URI
recounts under the lineage lock alone (`federation.sql:338`); the issue counts of a repository
with an issue that moves and loses a status (`postgres.go:894`); the comment counts of an issue
with a comment whose parent is on another issue (`postgres.go:878`). For these the row and its
counters do not "move together" (`docs/database.md`), and three of the run's logs, `Recounted`,
`Reopened` and `Crossed`, reach a wrong count each.

**Assumption about Tap (external).** Events of one account are in flight one at a time;
a delivery may be repeated while the first is still running. The code relies on this
where it takes no lock: an account's `repository_count` and handle.

**Lineage.** An edge of a transfer lineage needs two repository records that name each
other's CID (see `transfer_edge`), so each repository is its own lineage here, and what
is left of the reconciliation is its recount of every repository.

**Runs.** `federation`: twenty logs of at most five events, one per situation: stars,
issues opened, closed and moved, comments with parents, pull requests with reviews and
statuses of stale revisions, forks (also of each other), deletions before and after
what refers to them, identities and profiles, labels with changed links, malformed
events, organizations and transferred repositories, statuses by strangers, and the three in
which a counter goes wrong. Two handlers, every order of delivery, repetition, one rollback.
Two handlers suffice for the races, which are about pairs of recounts; each log needs no more
than five events because a counter depends on at most a row, its subject, the subject's
repository and a revision of one of them. One situation is kept out of the logs: an older
creation delivered after the deletion of an organization or transfer record, which resurrects
the row, so `Converged` compares only the raw records of those collections.

`OwnersDecide` leaves out the issues of which two records name different repositories. When
an issue moves to a repository that is projected later, nothing resolves its state again and
the decision of the former repository's owner stays (hazard at `postgres.go:702`). And the
deletion of a status locks the repository that the status names and not the issue
(`postgres.go:894`): when that is not the issue's repository, it may write a state that it
resolved before a decision was taken back.

No liveness is checked: whether an event is delivered again is up to Tap.

## Proofs

A theorem holds for every value of the constants that the named assumptions allow: any
number of accounts, requests, workers and commits, any bound on clocks, calls and failures.
The layout is the same everywhere. The property is rarely inductive, because handlers act
on what they remembered some steps ago; the module states what a request may rely on at
each step, conjoins it with the property into an inductive invariant, has one lemma per
action (or per group of actions that change the same things), and combines them in one
temporal step.

### RepositoryTransfer_proofs

* `TypeCorrect`: `[]TypeOK`;
* `CancelIsSilent`: `[]CancelledNeverAnnounced`;
* `HistoryIsImmutable`: `HistoryImmutable`;
* `OwnershipIsAccepted`: `AcceptedByDestination`;
* `HandoverImplemented`: `ImplementsHandover`, the refinement of `OwnershipHandover`;
* `AuthorIsOwner`: `IdentityFollowsOwner`;
* `AcceptanceMatches`: `[]AcceptanceNamesSuccessor`, for any number of settings changes.

Assumptions: `Author` and `Admin` are functions on the owners, `MaxVersion` is a
natural number, `None` is none of the model's values.

The invariant is `Inv == TypeOK /\ RowInv /\ RecordInv /\ RequestInv`:

* `RowInv`: a row that is cancelled was never started; one that has a successor,
  acceptance or redirect was; stored identities come in the order of the protocol;
* `RecordInv`: what the PDS holds of a transfer implies that its row was started;
* `RequestInv`: a request past the start of an acceptance works on a started row, and
  its actor is an administrator of the destination that the row names.

That a cancelled transfer is silent then follows: to publish, a request must be past the
start, where the row is started, and a started row is never cancelled.

The refinement rests on the same invariant. `RowPhase` and `RowStutter` say that a statement
which changes neither status, start nor destination of a row leaves the abstract state alone;
`SetStatementsStutter` and `QuietHandover` dispose of most actions with them. `CreateOffers`
uses the unique index (no pending row, hence nothing underway), `StartCommits` and
`CancelWithdraws` the guards of their statements, `CompletionHandsOver` that a request which completes
works on a started row. `StepImplements` combines them.

`AuthorStep` follows the author of the stored identity: `Complete` puts the successor of the
destination there, which `Inv` ties to the row's destination, and publications by the owner are
the owner's. `SpanInv` is what `AcceptanceMatches` rests on. The version of the settings only
grows, so it is enough to say, of every row, record, snapshot and result that a request holds,
which versions it may be of: nothing of a transfer is older than its offer or newer than now.
An acceptance and a successor of the same version are the same publication.

### RepositoryLifecycle_proofs

* `TypeCorrect`: `[]TypeOK`;
* `TablesAgree`: `[]RowFollowsDeletion`;
* `DecidedOnce`: `DeletionDecidedOnce`;
* `FailuresCompensated`: `[]CompensationComplete`.

Assumptions: requests and workers are finite sets (`SerialInv` counts the active ones), there
is a branch, `None` is no clock reading.

For the first three the invariant adds `CreationInv` to the property: only one request
creates the repository, which is "creating" meanwhile, so that activation cannot overtake a
deletion. For compensation, `SerialInv` says, for behaviours without overlap in which only the
database failed, where every store is at every step of every handler (`CreateAt`, `UpdateAt`,
`DeleteAt`, `RestoreAt`): what the step has done, what its compensation has to undo, and that
what the request remembers of the row is still so. It is the code's error paths, stated.

### WebhookDelivery_proofs

* `TypeCorrect`: `[]TypeOK`;
* `EventsDispatched`: `[]NoLostEvent`;
* `HistoryCorrect`: `[]HistoryTruthful`;
* `SettledOnce`: `SettledFinal`;
* `RequestsBounded`: `[]RequestsCounted`.

Assumptions: batch size and attempts are positive, workers are finitely many.

`DispatchInv` says that a worker about to complete an event has inserted what the event owes,
which another worker's claim of the same event does not undo; `DeliverInv`, that what a
worker holds is a numbered attempt of a queued delivery and that an answer it is about to
record was given. `RequestsCounted` needs a count: `Counted` bounds the requests by attempts
minus the claims not yet sent, and the attempts beyond the maximum by the claims that are
still held (`Late`) plus the stops, which no conjunct about a single worker could do.

### PullRequestMerge_proofs

* `TypeCorrect`: `[]TypeOK`;
* `CommitsKept`: `[]NoCommitLost`;
* `MergedStatusTrue`: `[]MergedTruthful`;
* `MergedOnce`: `[]RetryRecognized`;
* `StatusOrdered`: `[]StatusMovesForward`.

Assumptions: requests are finitely many, there is room for one commit, head and revision,
`None` is no set of trailers.

The argument is that nothing is ever taken back (`Grows`: commits, revisions, versions of
the status and events only continue), so that what a request remembers (`RequestInv`) stays true: the
commit it saw, the revision it merges, the status it is about to publish (`Truthful`).
`ClockInv` says that every request that will read the clock was counted as a call. That a
line of first parents keeps what landed is stated without recursion: every set that has the
tip and, with each commit, its first parent, has all that landed (`BranchInv`).

### ReleaseAssets_proofs

* `TypeCorrect`: `[]TypeOK`;
* `RowsDownloadable`: `[]RowsHaveBytes`;
* `BytesAccounted`: `[]NoOrphanBytes`;
* `QuotasHold`: `[]QuotaRespected`.

Assumptions: sizes and limits are natural numbers, `None` is neither release nor asset.

`OneUpload` and `IssuedInv` (an identifier is given to one upload) make an upload the only
writer of its blob until the row is there; `UploadInv` and `DeletionInv` say where bytes and row
are at each step; `BytesInv` is the property with the uploads on their way added. The quotas
are kept because the only statement that adds a row measures the usage in the transaction
that adds it: the bytes of the rows after it are those before it and those of the asset, two
disjoint finite sets.

### OrganizationTeams_proofs

* `TypeCorrect`: `[]TypeOK`;
* `FounderStays`: `[]FounderOwns`;
* `ConsentRespected`: `[]PublicByConsent`;
* `InvitationsSpent`: `InvitationSpentOnce`;
* `TeamsNested`: `TeamForestKept`;
* `PermissionsAgree`: `[]PermissionsResolved`.

Assumptions: the founder is an account, the bounds are natural numbers, `None` is no account,
team or row.

`CallInv` says of each call that its arguments fit the operation and that every step left in
its plan will be right when its turn comes (`StepOK`), which holds from the first read on
because consent and grants are never taken back and the founder is refused at once.
`Acyclic` is the forest without recursion: every live team has a set of teams that is closed
under parents and leaves the team out. `PermissionsAgree` compares the authorization queries
with `EffectiveRoles` case by case; the roles a query collects along the lineage of a team are
those of the teams that every set closed under parents contains.

### FederationProjection_proofs

* `TypeCorrect`: `[]TypeOK`;
* `LocksOrdered`: `[]OnlyWritersDeadlock`, about two handlers, and `DeadlockNeedsWriter` for any
  number: in a finite set of handlers each of which waits for another of the set, one writes;
* `NoRegression`: `NeverRegresses`;
* `Convergence`: `[]Converged`.

Assumptions: `None` is no URI; URIs have an injective rank (strings are ordered); a log is a
finite sequence of events whose URI and links are URIs or NULL and whose value has the columns
of the tables; `MaxAborts` is a natural number. Logs may be of any length and content, and any
number of handlers may run.

* `TypeInv`: every cell that a transaction has written or may write has the type of its column,
  the URIs a handler reaches are those of the log, and counts are counts of finite sets.
* `LockInv` (`Sorted` for each handler): every lock held precedes every lock still to take, by
  stage, then subject before repository, then URI. What needs care is `Follow`, which extends the
  locks to take after some are held: it only adds a repository behind the subjects. Of handlers
  that do not write yet, the one whose awaited lock comes last waits for nobody (`LastLock`).
* `Apart` and `PendingInv`: events in flight are of different accounts (the assumption about
  Tap), so what pending writes were computed from, the cells of the event's own URI, is still
  there when they commit. Without it, a stale upsert could put an older version back.
* `ConvergeInv`: the raw record is the newest receipted valid event of its URI
  (`RecordNewest`), the row of a collection is live exactly if the record is and then has its
  event and value (`RowFollows`; a dead row may be older than the record, as a deletion that finds
  no row writes none), and the cursor is the largest receipt.

### FederationStates_proofs

* `PullStates`: `[]PullStateResolved`;
* `OwnersDecideStates`: `[]OwnersDecide`;
* `ReviewCounts`: `[]ReviewsExact`, the part of `CountsExact` about pull requests.

The assumptions are those above. A handler derives a column from what it reads at one step
and commits it at a later one, and in between others commit. The properties therefore need
that whoever changes anything a derived column of an issue or pull request depends on holds
one lock, the subject's guard, from before it reads until it commits: `<<"pulls", repository>>`
once the pull request has a row, `<<"pull", uri>>` before, `<<"issues", repository>>` for an
issue. `StateInv` says so step by step:

* `LinksOK`: a row has the links of some put of it, also after its deletion, so an upsert and
  the event that follows it agree on the repository;
* `Exclusive`: no lock is held twice;
* `Taken` and `Followed`: at each stage a handler holds or will take the locks that its event
  and its row call for, and behind the lock on a pull request the one on its repository, also
  when the row came into being while it waited;
* `Footprint`: whatever a handler that has projected writes about a subject, its statuses,
  its reviews or its repository, it holds the guard;
* `Derives`: what it derived under a guard is right in its own view, and, since nobody else
  writes there (`CommitBeside`), still right after others committed. The recount of lineages
  comes on top and writes nothing that a subject depends on (`SameFootprint`).

`Recomputed` describes what the recompute statements of one event do to the cells,
`ProjectSubjects` that they leave every subject concerned right, `Unaffected` that a subject
of which nothing relevant changed stays right.

### What stays with TLC

* Liveness (`OutboxDrains`, `DeliveriesSettle`) and whether an action is enabled: outside
  the prover.
* `CountsExact`, except for the reviews of pull requests: it was checked on the logs of the run
  and is not proved for every log.

## Plan

1. Route resolution: aliases that a transfer leaves behind beside a new repository of that
   name, which `RepositoryTransfer` has in its state and no property is about.

## Not modelled

About half of the implementation's lines are `api/generated/go/server.gen.go`, decoders
and encoders generated from `openapi.yaml`; `internal/restapi` decodes, authorizes and calls
the services, and the checks that matter to a modelled operation are guards of its first
action. Neither has state. The generated query code counts where a statement it executes is
modelled.

Parsing, formatting, signing, encryption, address filtering, pagination and the user
interface have no state that a model checker could add anything to. Discovery, search and
the sync proxy only read. Tokens, keys, sessions and passkeys are single-row operations;
issues, comments, stars, profiles, triage and moderation publish one record each, and what
becomes of the record is in `FederationProjection`. Branch protections are rows and one
`git config` write without any control between them. `PROJECT.json` has the reason for each.
