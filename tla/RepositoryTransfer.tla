-------------------------- MODULE RepositoryTransfer --------------------------
(***************************************************************************)
(* Ownership transfer of one repository (internal/transfer): the request    *)
(* handlers Initiate, Accept and Cancel, run concurrently against           *)
(*   - the row of core.repositories and the rows of                         *)
(*     core.repository_transfers (PostgreSQL, one atomic statement a step), *)
(*   - the AT Protocol records the owners' PDSs hold (one write a step).    *)
(* A request may stop between any two steps: a provider or database error,  *)
(* a cancelled context and a crash of the process all leave what was        *)
(* written so far and run nothing else, since none of the three handlers    *)
(* compensates.                                                             *)
(*                                                                          *)
(* Abstractions.  A record's CID is its content: the settings version, the  *)
(* transfer workflow that stamped updatedAt (None: a settings publication), *)
(* the transfer named by transferredFrom and the successor named by          *)
(* transferredTo.  An owner is an account or an organization; Author gives   *)
(* the DID that authors its records and Admin the accounts that act for it.  *)
(* Clock readings are compared only with expires_at, so "the proposal has   *)
(* expired" is a flag that never clears.                                    *)
(***************************************************************************)
EXTENDS Naturals, FiniteSets

CONSTANTS Accounts, Owners, Transfers, Requests, None,
          Author,       \* Author[o]: DID that authors o's records (an organization: its creator)
          Admin,        \* Admin[o]: accounts allowed to act for o
          MaxVersion    \* bound on repository settings changes

ASSUME OwnerAssumption ==
  /\ Author \in [Owners -> Accounts]
  /\ Admin \in [Owners -> SUBSET Accounts]

ASSUME BoundAssumption == MaxVersion \in Nat

VARIABLES
  repo,         \* core.repositories row
  aliases,      \* owners whose old route is an alias of the repository
  others,       \* owners holding another live repository with the same slug
  transfers,    \* core.repository_transfers
  expired,      \* transfers whose expires_at has passed
  proposals,    \* transfers whose proposal record is on the source's PDS
  acceptances,  \* acceptance record on the destination's PDS: the successor CID it names
  repoRecords,  \* the dev.adenosine.repo record (rkey = repository UUID) of every account
  pc, local     \* requests in flight

rowVars == <<repo, aliases, others, transfers, expired>>
pdsVars == <<proposals, acceptances, repoRecords>>
vars == <<repo, aliases, others, transfers, expired, proposals, acceptances, repoRecords, pc, local>>

-----------------------------------------------------------------------------
\* Types.
Versions == 0..MaxVersion
LinklessCID == [ver: Versions, by: Transfers \cup {None}, from: Transfers \cup {None}, to: {None}]
CID == [ver: Versions, by: Transfers \cup {None}, from: Transfers \cup {None},
        to: LinklessCID \cup {None}]
Identity == [author: Accounts, cid: CID]

ASSUME NoneAssumption == None \notin Owners \cup Accounts \cup Transfers \cup LinklessCID \cup Identity

Repository == [state: {"active", "deleting"}, public: BOOLEAN, owner: Owners,
               at: Identity \cup {None}, from: Transfers \cup {None}, ver: Versions]

Statuses == {"none", "pending", "completed", "cancelled"}
Transfer == [status: Statuses, source: Owners \cup {None}, dest: Owners \cup {None},
             sourceRepository: Identity \cup {None}, initiatedBy: Accounts \cup {None},
             acceptedBy: Accounts \cup {None}, started: BOOLEAN, proposal: BOOLEAN,
             successor: LinklessCID \cup {None}, acceptance: LinklessCID \cup {None}, redirect: BOOLEAN]

InitiateSteps == {"authorize", "find", "create", "propose", "storeProposal"}
PublishSteps == {"successor", "storeSuccessor", "acceptance", "storeAcceptance",
                 "redirect", "storeRedirect", "complete", "completePrivate"}
AcceptSteps == {"route", "start"} \cup PublishSteps
CancelSteps == {"withdraw", "cancel"}
Steps == {"idle"} \cup InitiateSteps \cup AcceptSteps \cup CancelSteps

Local == [actor: Accounts \cup {None}, dest: Owners \cup {None}, id: Transfers \cup {None},
          repo: Repository \cup {None}, row: Transfer \cup {None}, late: BOOLEAN]

-----------------------------------------------------------------------------
\* The record contents the service publishes.
Publication(value) == [ver |-> value.ver, by |-> None, from |-> value.from, to |-> None]

\* successorPublication: the settings the request read, transferredFrom the source.
SuccessorPublication(value, t) == [ver |-> value.ver, by |-> t, from |-> t, to |-> None]

\* sourceRedirectPublication: the same settings, transferredTo the stored successor.
SourceRedirectPublication(value, t, row) ==
  [ver |-> value.ver, by |-> t, from |-> value.from, to |-> row.successor]

Absent == [status |-> "none", source |-> None, dest |-> None, sourceRepository |-> None,
           initiatedBy |-> None, acceptedBy |-> None, started |-> FALSE, proposal |-> FALSE,
           successor |-> None, acceptance |-> None, redirect |-> FALSE]

Idle == [actor |-> None, dest |-> None, id |-> None, repo |-> None, row |-> None, late |-> FALSE]

\* An active repository, published by its owner when public.
Init ==
  /\ \E o \in Owners, p \in BOOLEAN :
       LET cid == [ver |-> 0, by |-> None, from |-> None, to |-> None] IN
       /\ repo = [state |-> "active", public |-> p, owner |-> o, from |-> None, ver |-> 0,
                  at |-> IF p THEN [author |-> Author[o], cid |-> cid] ELSE None]
       /\ repoRecords = [a \in Accounts |-> IF p /\ a = Author[o] THEN cid ELSE None]
  /\ aliases = {} /\ others = {}
  /\ transfers = [t \in Transfers |-> Absent]
  /\ expired = {} /\ proposals = {}
  /\ acceptances = [t \in Transfers |-> None]
  /\ pc = [r \in Requests |-> "idle"]
  /\ local = [r \in Requests |-> Idle]

-----------------------------------------------------------------------------
\* Request bookkeeping.
Goto(r, step) == pc' = [pc EXCEPT ![r] = step]

\* The handler returns, with a value or an error.
Return(r) == Goto(r, "idle") /\ local' = [local EXCEPT ![r] = Idle]

\* The handler carries on from the row a statement returned (RETURNING *).
ContinueWith(r, row, step) ==
  /\ Goto(r, step)
  /\ local' = [local EXCEPT ![r].row = row]

Pending == {t \in Transfers : transfers[t].status = "pending"}

\* CanInitiateRepositoryTransfer: an active repository the account administers.
CanInitiate(actor) == repo.state = "active" /\ actor \in Admin[repo.owner]

\* The NOT EXISTS clauses of CanComplete and Complete: no other repository
\* holds the destination route.  The clauses on repository_aliases, which
\* only refuse more, are left out.
RouteAvailable(row) == row.dest \notin others

-----------------------------------------------------------------------------
\* Initiate.  The REST handler resolves the repository first.
InitiateRead(r, actor, dest) ==
  /\ pc[r] = "idle"
  /\ repo.state = "active"
  /\ local' = [local EXCEPT ![r] = [Idle EXCEPT !.actor = actor, !.dest = dest, !.repo = repo]]
  /\ Goto(r, "authorize")
  /\ UNCHANGED <<rowVars, pdsVars>>

InitiateAuthorize(r) ==
  /\ pc[r] = "authorize"
  /\ IF CanInitiate(local[r].actor) /\ local[r].dest # local[r].repo.owner
     THEN Goto(r, "find") /\ UNCHANGED local
     ELSE Return(r)
  /\ UNCHANGED <<rowVars, pdsVars>>

\* GetPending, and publishPendingProposal's early return.
NextInitiateStep(row) ==
  IF row.sourceRepository = None \/ row.proposal THEN "idle" ELSE "propose"

InitiateFind(r) ==
  /\ pc[r] = "find"
  /\ \/ /\ Pending = {}
        /\ Goto(r, "create") /\ UNCHANGED local
     \/ \E t \in Pending :
          IF t \in expired \/ transfers[t].dest # local[r].dest \/ NextInitiateStep(transfers[t]) = "idle"
          THEN Return(r)
          ELSE /\ local' = [local EXCEPT ![r].id = t, ![r].row = transfers[t]]
               /\ Goto(r, "propose")
  /\ UNCHANGED <<rowVars, pdsVars>>

\* Variant: without the unique index, GetPending alone keeps transfers apart.
InitiateCreate_NoIndex(r) ==
  /\ pc[r] = "create"
  /\ \E t \in Transfers :
       /\ transfers[t].status = "none"
       /\ transfers' = [transfers EXCEPT ![t] =
                         [Absent EXCEPT !.status = "pending", !.source = local[r].repo.owner,
                            !.dest = local[r].dest, !.sourceRepository = local[r].repo.at,
                            !.initiatedBy = local[r].actor]]
  /\ Return(r)
  /\ UNCHANGED <<repo, aliases, others, expired, pdsVars>>

\* The unique index on pending rows turns a second pending transfer into ErrConflict.
InitiateCreate(r) ==
  /\ pc[r] = "create"
  /\ \/ Pending # {} /\ Return(r) /\ UNCHANGED transfers
     \/ /\ Pending = {}
        /\ \E t \in Transfers :
             LET row == [Absent EXCEPT !.status = "pending", !.source = local[r].repo.owner,
                           !.dest = local[r].dest, !.sourceRepository = local[r].repo.at,
                           !.initiatedBy = local[r].actor]
             IN /\ transfers[t].status = "none"
                /\ transfers' = [transfers EXCEPT ![t] = row]
                /\ IF NextInitiateStep(row) = "idle" THEN Return(r)
                   ELSE /\ local' = [local EXCEPT ![r].id = t, ![r].row = row]
                        /\ Goto(r, "propose")
  /\ UNCHANGED <<repo, aliases, others, expired, pdsVars>>

PublishProposal(r) ==
  /\ pc[r] = "propose"
  /\ proposals' = proposals \cup {local[r].id}
  /\ Goto(r, "storeProposal")
  /\ UNCHANGED <<rowVars, acceptances, repoRecords, local>>

\* Variant: the row is updated whatever its status.
SetProposal_AnyStatus(r) ==
  /\ pc[r] = "storeProposal"
  /\ transfers' = [transfers EXCEPT ![local[r].id].proposal = TRUE]
  /\ Return(r)
  /\ UNCHANGED <<repo, aliases, others, expired, pdsVars>>

SetProposal(r) ==
  /\ pc[r] = "storeProposal"
  /\ LET t == local[r].id IN
       transfers' = IF transfers[t].status = "pending"
                    THEN [transfers EXCEPT ![t].proposal = TRUE] ELSE transfers
  /\ Return(r)
  /\ UNCHANGED <<repo, aliases, others, expired, pdsVars>>

-----------------------------------------------------------------------------
\* Accept.  AuthorizeAcceptance: the row, its window and the destination's authority.
\* Variant: any account may accept.
AuthorizeAcceptance_AnyActor(r, actor, t) ==
  /\ pc[r] = "idle"
  /\ transfers[t].status = "pending"
  /\ transfers[t].started \/ t \notin expired
  /\ local' = [local EXCEPT ![r] = [Idle EXCEPT !.actor = actor, !.id = t, !.row = transfers[t]]]
  /\ Goto(r, "route")
  /\ UNCHANGED <<rowVars, pdsVars>>

AuthorizeAcceptance(r, actor, t) ==
  /\ pc[r] = "idle"
  /\ transfers[t].status = "pending"
  /\ transfers[t].started \/ t \notin expired
  /\ actor \in Admin[transfers[t].dest]
  /\ local' = [local EXCEPT ![r] = [Idle EXCEPT !.actor = actor, !.id = t, !.row = transfers[t]]]
  /\ Goto(r, "route")
  /\ UNCHANGED <<rowVars, pdsVars>>

\* Where the workflow continues, given the identities the row holds.
AfterAcceptance(row) == IF row.redirect THEN "complete" ELSE "redirect"

AfterSuccessor(row) == IF row.acceptance = None THEN "acceptance" ELSE AfterAcceptance(row)

AfterStart(row) ==
  CASE row.sourceRepository = None -> "completePrivate"
    [] row.sourceRepository # None /\ ~row.proposal -> "idle"
    [] row.sourceRepository # None /\ row.proposal ->
         IF row.successor = None THEN "successor" ELSE AfterSuccessor(row)

\* GetRepository, CanComplete, and the clock reading that StartAcceptance will store.
AcceptRoute(r) ==
  /\ pc[r] = "route"
  /\ LET t == local[r].id IN
       IF repo.state = "active" /\ transfers[t].status = "pending" /\ RouteAvailable(transfers[t])
       THEN /\ local' = [local EXCEPT ![r].repo = repo, ![r].late = t \in expired]
            /\ Goto(r, "start")
       ELSE Return(r)
  /\ UNCHANGED <<rowVars, pdsVars>>

StartAcceptance(r) ==
  /\ pc[r] = "start"
  /\ LET t == local[r].id
         row == transfers[t]
         begun == [row EXCEPT !.started = TRUE] IN
     \/ /\ local[r].row.started
        /\ IF AfterStart(local[r].row) = "idle" THEN Return(r)
           ELSE Goto(r, AfterStart(local[r].row)) /\ UNCHANGED local
        /\ UNCHANGED transfers
     \/ /\ ~local[r].row.started
        /\ IF row.status = "pending" /\ (row.started \/ ~local[r].late)
           THEN /\ transfers' = [transfers EXCEPT ![t] = begun]
                /\ IF AfterStart(begun) = "idle" THEN Return(r)
                   ELSE ContinueWith(r, begun, AfterStart(begun))
           ELSE Return(r) /\ UNCHANGED transfers
  /\ UNCHANGED <<repo, aliases, others, expired, pdsVars>>

PublishSuccessor(r) ==
  /\ pc[r] = "successor"
  /\ LET t == local[r].id IN
       repoRecords' = [repoRecords EXCEPT ![Author[local[r].row.dest]] = SuccessorPublication(local[r].repo, t)]
  /\ Goto(r, "storeSuccessor")
  /\ UNCHANGED <<rowVars, proposals, acceptances, local>>

\* The URI is the same at every attempt, so only the status guards the statement.
SetSuccessor(r) ==
  /\ pc[r] = "storeSuccessor"
  /\ LET t == local[r].id
         row == [transfers[t] EXCEPT !.successor = SuccessorPublication(local[r].repo, t)] IN
       IF transfers[t].status = "pending"
       THEN /\ transfers' = [transfers EXCEPT ![t] = row]
            /\ ContinueWith(r, row, AfterSuccessor(row))
       ELSE Return(r) /\ UNCHANGED transfers
  /\ UNCHANGED <<repo, aliases, others, expired, pdsVars>>

\* Variant: the acceptance names the record the repository had.
PublishAcceptance_OfSource(r) ==
  /\ pc[r] = "acceptance"
  /\ acceptances' = [acceptances EXCEPT ![local[r].id] = Publication(local[r].repo)]
  /\ Goto(r, "storeAcceptance")
  /\ UNCHANGED <<rowVars, proposals, repoRecords, local>>

PublishAcceptance(r) ==
  /\ pc[r] = "acceptance"
  /\ acceptances' = [acceptances EXCEPT ![local[r].id] = local[r].row.successor]
  /\ Goto(r, "storeAcceptance")
  /\ UNCHANGED <<rowVars, proposals, repoRecords, local>>

SetAcceptance(r) ==
  /\ pc[r] = "storeAcceptance"
  /\ LET t == local[r].id
         row == [transfers[t] EXCEPT !.acceptance = local[r].row.successor] IN
       IF transfers[t].status = "pending"
       THEN /\ transfers' = [transfers EXCEPT ![t] = row]
            /\ ContinueWith(r, row, AfterAcceptance(row))
       ELSE Return(r) /\ UNCHANGED transfers
  /\ UNCHANGED <<repo, aliases, others, expired, pdsVars>>

PublishSourceRedirect(r) ==
  /\ pc[r] = "redirect"
  /\ repoRecords' = [repoRecords EXCEPT ![Author[local[r].row.source]] =
                       SourceRedirectPublication(local[r].repo, local[r].id, local[r].row)]
  /\ Goto(r, "storeRedirect")
  /\ UNCHANGED <<rowVars, proposals, acceptances, local>>

SetSourceRedirect(r) ==
  /\ pc[r] = "storeRedirect"
  /\ LET t == local[r].id
         row == [transfers[t] EXCEPT !.redirect = TRUE] IN
       IF transfers[t].status = "pending"
       THEN /\ transfers' = [transfers EXCEPT ![t] = row]
            /\ ContinueWith(r, row, "complete")
       ELSE Return(r) /\ UNCHANGED transfers
  /\ UNCHANGED <<repo, aliases, others, expired, pdsVars>>

\* What both completion statements write to the transfer and the alias table.
HandOver(r, t, newRepo) ==
  /\ repo' = newRepo
  /\ aliases' = aliases \cup {transfers[t].source}
  /\ transfers' = [transfers EXCEPT ![t].status = "completed", ![t].acceptedBy = local[r].actor]

\* Variant: the identity of the repository is not replaced.
Complete_OwnerOnly(r) ==
  /\ pc[r] = "complete"
  /\ LET t == local[r].id
         row == transfers[t] IN
       IF /\ row.status = "pending" /\ row.started /\ row.redirect
          /\ row.successor # None /\ row.acceptance # None
          /\ RouteAvailable(row)
       THEN HandOver(r, t, [repo EXCEPT !.owner = row.dest])
       ELSE UNCHANGED <<repo, aliases, transfers>>
  /\ Return(r)
  /\ UNCHANGED <<others, expired, pdsVars>>

\* CompleteRepositoryTransfer: one statement; it checks neither the repository's
\* state nor its current owner.
Complete(r) ==
  /\ pc[r] = "complete"
  /\ LET t == local[r].id
         row == transfers[t] IN
       IF /\ row.status = "pending" /\ row.started /\ row.redirect
          /\ row.successor # None /\ row.acceptance # None
          /\ RouteAvailable(row)
       THEN HandOver(r, t, [repo EXCEPT !.owner = row.dest, !.from = t,
                              !.at = [author |-> Author[row.dest], cid |-> row.successor]])
       ELSE UNCHANGED <<repo, aliases, transfers>>
  /\ Return(r)
  /\ UNCHANGED <<others, expired, pdsVars>>

\* CompletePrivateRepositoryTransfer: the row, not the repository, says it is private.
CompletePrivate(r) ==
  /\ pc[r] = "completePrivate"
  /\ LET t == local[r].id
         row == transfers[t] IN
       IF row.status = "pending" /\ row.started /\ row.sourceRepository = None /\ RouteAvailable(row)
       THEN HandOver(r, t, [repo EXCEPT !.owner = row.dest])
       ELSE UNCHANGED <<repo, aliases, transfers>>
  /\ Return(r)
  /\ UNCHANGED <<others, expired, pdsVars>>

-----------------------------------------------------------------------------
\* Cancel by an administrator of the current owner.
CancelRead(r, actor, t) ==
  /\ pc[r] = "idle"
  /\ transfers[t].status = "pending" /\ ~transfers[t].started
  /\ CanInitiate(actor)
  /\ local' = [local EXCEPT ![r] = [Idle EXCEPT !.actor = actor, !.id = t]]
  /\ Goto(r, IF transfers[t].proposal THEN "withdraw" ELSE "cancel")
  /\ UNCHANGED <<rowVars, pdsVars>>

\* DeleteProposal: a record that is already gone counts as deleted.
DeleteProposal(r) ==
  /\ pc[r] = "withdraw"
  /\ proposals' = proposals \ {local[r].id}
  /\ Goto(r, "cancel")
  /\ UNCHANGED <<rowVars, acceptances, repoRecords, local>>

\* Variant: a started transfer can be cancelled.
CancelTransfer_Started(r) ==
  /\ pc[r] = "cancel"
  /\ LET t == local[r].id IN
       transfers' = IF transfers[t].status = "pending"
                    THEN [transfers EXCEPT ![t].status = "cancelled"] ELSE transfers
  /\ Return(r)
  /\ UNCHANGED <<repo, aliases, others, expired, pdsVars>>

\* Variant: a status the table does not know.
CancelTransfer_Misspelt(r) ==
  /\ pc[r] = "cancel"
  /\ LET t == local[r].id IN
       transfers' = IF transfers[t].status = "pending" /\ ~transfers[t].started
                    THEN [transfers EXCEPT ![t].status = "canceled"] ELSE transfers
  /\ Return(r)
  /\ UNCHANGED <<repo, aliases, others, expired, pdsVars>>

CancelTransfer(r) ==
  /\ pc[r] = "cancel"
  /\ LET t == local[r].id IN
       transfers' = IF transfers[t].status = "pending" /\ ~transfers[t].started
                    THEN [transfers EXCEPT ![t].status = "cancelled"] ELSE transfers
  /\ Return(r)
  /\ UNCHANGED <<repo, aliases, others, expired, pdsVars>>

-----------------------------------------------------------------------------
\* A request stops after its last completed step.
Stop(r) ==
  /\ pc[r] # "idle"
  /\ Return(r)
  /\ UNCHANGED <<rowVars, pdsVars>>

\* expires_at passes.
Expire(t) ==
  /\ transfers[t].status = "pending" /\ t \notin expired
  /\ expired' = expired \cup {t}
  /\ UNCHANGED <<repo, aliases, others, transfers, pdsVars, pc, local>>

\* CreateRepository of another repository with the same slug.  The unique
\* index covers live repositories of the owner only, not repository_aliases.
CreateOther(o) ==
  /\ o # repo.owner /\ o \notin others
  /\ others' = others \cup {o}
  /\ UNCHANGED <<repo, aliases, transfers, expired, pdsVars, pc, local>>

\* repository.Service.Update, Delete and RestoreDeletion by the current owner,
\* each in one step (RepositoryLifecycle has their steps).  Unpublish names the
\* owner's record and compares its CID, and fails when either differs.
Published == repo.at # None

UnpublishOK == Published => repo.at.author = Author[repo.owner] /\ repoRecords[repo.at.author] = repo.at.cid

Unpublish == repoRecords' = IF Published THEN [repoRecords EXCEPT ![repo.at.author] = None] ELSE repoRecords

PublishAs(new) ==
  LET cid == Publication(new) IN
  /\ repo' = [new EXCEPT !.at = [author |-> Author[new.owner], cid |-> cid]]
  /\ repoRecords' = [repoRecords EXCEPT ![Author[new.owner]] = cid]

UpdateRepository(public) ==
  /\ repo.state = "active" /\ repo.ver < MaxVersion
  /\ LET new == [repo EXCEPT !.public = public, !.ver = @ + 1] IN
     \/ public /\ PublishAs(new)
     \/ ~public /\ UnpublishOK /\ Unpublish /\ repo' = [new EXCEPT !.at = None]
  /\ UNCHANGED <<aliases, others, transfers, expired, proposals, acceptances, pc, local>>

DeleteRepository ==
  /\ repo.state = "active" /\ repo.ver < MaxVersion
  /\ UnpublishOK /\ Unpublish
  /\ repo' = [repo EXCEPT !.state = "deleting"]
  /\ UNCHANGED <<aliases, others, transfers, expired, proposals, acceptances, pc, local>>

RestoreRepository ==
  /\ repo.state = "deleting" /\ repo.ver < MaxVersion
  /\ LET new == [repo EXCEPT !.state = "active", !.ver = @ + 1] IN
     IF new.public THEN PublishAs(new) ELSE repo' = new /\ UNCHANGED repoRecords
  /\ UNCHANGED <<aliases, others, transfers, expired, proposals, acceptances, pc, local>>

InitiateNext(r) ==
  \/ \E actor \in Accounts, dest \in Owners : InitiateRead(r, actor, dest)
  \/ InitiateAuthorize(r) \/ InitiateFind(r) \/ InitiateCreate(r)
  \/ PublishProposal(r) \/ SetProposal(r)

AcceptNext(r) ==
  \/ \E actor \in Accounts, t \in Transfers : AuthorizeAcceptance(r, actor, t)
  \/ AcceptRoute(r) \/ StartAcceptance(r)
  \/ PublishSuccessor(r) \/ SetSuccessor(r)
  \/ PublishAcceptance(r) \/ SetAcceptance(r)
  \/ PublishSourceRedirect(r) \/ SetSourceRedirect(r)
  \/ Complete(r) \/ CompletePrivate(r)

CancelNext(r) ==
  \/ \E actor \in Accounts, t \in Transfers : CancelRead(r, actor, t)
  \/ DeleteProposal(r) \/ CancelTransfer(r)

RequestNext(r) == InitiateNext(r) \/ AcceptNext(r) \/ CancelNext(r) \/ Stop(r)

EnvironmentNext ==
  \/ \E t \in Transfers : Expire(t)
  \/ \E o \in Owners : CreateOther(o)

OwnerNext == (\E public \in BOOLEAN : UpdateRepository(public)) \/ DeleteRepository \/ RestoreRepository

Next == (\E r \in Requests : RequestNext(r)) \/ OwnerNext \/ EnvironmentNext

Spec == Init /\ [][Next]_vars

-----------------------------------------------------------------------------
\* Correctness.

\* Every variable keeps its type.
TypeOK ==
  /\ repo \in Repository
  /\ aliases \subseteq Owners /\ others \subseteq Owners
  /\ transfers \in [Transfers -> Transfer]
  /\ expired \subseteq Transfers /\ proposals \subseteq Transfers
  /\ acceptances \in [Transfers -> LinklessCID \cup {None}]
  /\ repoRecords \in [Accounts -> CID \cup {None}]
  /\ pc \in [Requests -> Steps]
  /\ local \in [Requests -> Local]

\* The destination or the source already shows transfer t to the network.
Announced(t) ==
  \/ acceptances[t] # None
  \/ \E a \in Accounts : /\ repoRecords[a] # None
                          /\ \/ repoRecords[a].from = t
                             \/ repoRecords[a].to # None /\ repoRecords[a].to.from = t

\* A cancelled transfer has never reached the network: whichever of Cancel and
\* StartAcceptance wins the race, no successor, acceptance or redirect of a
\* cancelled transfer is ever published (transfers.sql, acceptance_started_at).
CancelledNeverAnnounced == \A t \in Transfers : transfers[t].status = "cancelled" => ~Announced(t)

\* "Completed ownership history must be immutable": no late statement of a
\* request that is still in flight changes a completed or cancelled row.
HistoryImmutable ==
  [][\A t \in Transfers : transfers[t].status \in {"completed", "cancelled"}
                            => transfers'[t] = transfers[t]]_vars

\* The owner changes only when a started transfer completes, to that transfer's
\* destination, accepted by an account that acts for the destination.
AcceptedByDestination ==
  [][repo'.owner # repo.owner =>
       \E t \in Transfers :
         /\ transfers[t].status = "pending" /\ transfers[t].started
         /\ transfers'[t].status = "completed"
         /\ repo'.owner = transfers[t].dest
         /\ transfers'[t].acceptedBy \in Admin[repo'.owner]]_vars

\* A published repository's local identity is authored by its current owner:
\* local authorization and portable authorship agree.
AuthoredByOwner == repo.at # None => repo.at.author = Author[repo.owner]

\* CompletePrivate hands over a repository that was published after its
\* transfer was initiated: the statement looks at the row only.
PublishedMeanwhile ==
  /\ repo.at # None
  /\ \E t \in Transfers : /\ transfers[t].status = "pending" /\ transfers'[t].status = "completed"
                          /\ transfers[t].sourceRepository = None

\* Authorship follows ownership: whatever requests, retries, Updates, deletions
\* and restorations come in between, no step separates the author of the stored
\* identity from the owner, except the private completion of a repository that
\* an Update published meanwhile (transfers.sql, CompletePrivateRepositoryTransfer).
IdentityFollowsOwner == [][AuthoredByOwner /\ ~PublishedMeanwhile => AuthoredByOwner']_vars

\* When a portable transfer has completed, the acceptance on the destination's
\* PDS and the successor that its row holds are both publications of this
\* transfer, with settings that were in force between the record the source
\* offered and now; and they are the same unless the settings changed since the
\* offer.  Only an Update between two attempts of Accept sets them apart
\* (Accept publishes again whatever its own copy of the row lacks).
AcceptanceNamesSuccessor ==
  \A t \in Transfers :
    LET row == transfers[t]
        offered == row.sourceRepository.cid.ver IN
    (row.status = "completed" /\ row.sourceRepository # None) =>
      /\ \A cid \in {acceptances[t], row.successor} :
           cid # None /\ cid.from = t /\ cid.ver \in offered..repo.ver
      /\ offered = repo.ver => acceptances[t] = row.successor
-----------------------------------------------------------------------------
\* Refinement: the phase of an offer is read off the row of its transfer.
Phase(row) ==
  CASE row.status = "none" -> "none"
    [] row.status = "cancelled" -> "withdrawn"
    [] row.status = "completed" -> "done"
    [] OTHER -> IF row.started THEN "committed" ELSE "open"

Handover == INSTANCE OwnershipHandover
              WITH owner <- repo.owner,
                   phase <- [t \in Transfers |-> Phase(transfers[t])],
                   dest <- [t \in Transfers |-> transfers[t].dest]

\* Ownership moves only along offers: whatever requests, crashes, retries,
\* expiries and settings changes do in between, the rows of the transfers and
\* the owner of the repository behave as OwnershipHandover says.
ImplementsHandover == Handover!Spec
-----------------------------------------------------------------------------
\* What the decision record and comments promise and the code does not keep.

\* candidate_edges of ReconcileFederationRepositoryTransferLineages, evaluated
\* on the records themselves (a projector that has seen every write): all
\* strong references must name the CIDs that are current.
CandidateEdge(t) ==
  LET row == transfers[t]
      source == repoRecords[Author[row.source]]
      successor == repoRecords[Author[row.dest]] IN
  /\ t \in proposals /\ acceptances[t] # None
  /\ source # None /\ successor # None
  /\ row.sourceRepository = [author |-> Author[row.source], cid |-> source]
  /\ source.to = acceptances[t]
  /\ successor.from = t
  /\ acceptances[t] = successor

\* The owner holds the repository through transfer t and nothing is under way.
Settled(t) ==
  /\ transfers[t].status = "completed" /\ transfers[t].sourceRepository # None
  /\ repo.from = t /\ Pending = {}
  /\ \A r \in Requests : pc[r] = "idle"

\* A projector derives the new canonical owner from the records of a completed
\* transfer: proposal, acceptance, successor and redirect form an edge.
CompletedEdgeRecognized == \A t \in Transfers : Settled(t) => CandidateEdge(t)
=============================================================================
