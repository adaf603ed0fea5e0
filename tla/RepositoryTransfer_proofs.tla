----------------------- MODULE RepositoryTransfer_proofs -----------------------
(* Proofs about RepositoryTransfer, for any number of owners, transfers and   *)
(* requests in flight.                                                        *)
EXTENDS RepositoryTransfer, TLAPS

-----------------------------------------------------------------------------
\* The inductive invariant, in four parts.

\* The rows: only a pending or completed transfer is started, a completed one
\* always is, and the identities a row holds are those of its own transfer.
RowInv ==
  \A t \in Transfers :
    LET row == transfers[t] IN
    /\ row.started => row.status \in {"pending", "completed"}
    /\ row.status = "completed" => row.started
    /\ row.status # "none" => row.source \in Owners /\ row.dest \in Owners
    /\ row.successor # None => row.successor.from = t

\* The steps of an acceptance that follow the publication of the successor.
LateSteps == PublishSteps \ {"successor", "storeSuccessor", "completePrivate"}

\* A row or snapshot of transfer t that holds t's successor.
HasSuccessor(row, t) == row.successor \in LinklessCID /\ row.successor.from = t

\* A transfer that a record or a repository names has been started.
Begun(t) == t # None => transfers[t].started

RecordInv ==
  /\ Begun(repo.from)
  /\ \A t \in Transfers : acceptances[t] # None => transfers[t].started
  /\ \A a \in Accounts : repoRecords[a] # None =>
       /\ Begun(repoRecords[a].from)
       /\ repoRecords[a].to # None => Begun(repoRecords[a].to.from)

\* What a request in flight still knows at each of its steps.
InitiateInv(r) ==
  /\ pc[r] \in {"authorize", "find", "create"} =>
       local[r].repo \in Repository /\ local[r].dest \in Owners
  /\ pc[r] \in {"propose", "storeProposal"} => local[r].id \in Transfers

AcceptInv(r) ==
  /\ pc[r] \in AcceptSteps =>
       /\ local[r].id \in Transfers /\ local[r].row \in Transfer
       /\ transfers[local[r].id].status # "none"
       /\ local[r].actor \in Admin[transfers[local[r].id].dest]
       /\ local[r].row.dest = transfers[local[r].id].dest
       /\ local[r].row.source = transfers[local[r].id].source
       /\ local[r].row.started => transfers[local[r].id].started
       /\ local[r].row.successor # None => /\ local[r].row.successor.from = local[r].id
                                           /\ HasSuccessor(transfers[local[r].id], local[r].id)
  /\ pc[r] \in AcceptSteps \ {"route"} => local[r].repo \in Repository
  /\ pc[r] \in PublishSteps => transfers[local[r].id].started
  /\ pc[r] \in LateSteps => /\ HasSuccessor(local[r].row, local[r].id)
                             /\ HasSuccessor(transfers[local[r].id], local[r].id)

CancelInv(r) == pc[r] \in CancelSteps => local[r].id \in Transfers

SnapshotInv(r) == pc[r] \in AcceptSteps \ {"route"} => Begun(local[r].repo.from)

RequestOK(r) == InitiateInv(r) /\ AcceptInv(r) /\ CancelInv(r) /\ SnapshotInv(r)

RequestInv == \A r \in Requests : RequestOK(r)

Inv == TypeOK /\ RowInv /\ RecordInv /\ RequestInv

-----------------------------------------------------------------------------
\* The initial states satisfy the invariant.
LEMMA InitInv == Init => Inv
  BY OwnerAssumption, BoundAssumption, NoneAssumption
     DEF Init, Inv, TypeOK, RowInv, RecordInv, RequestInv, RequestOK, InitiateInv, AcceptInv,
         CancelInv, SnapshotInv, Begun, LateSteps, Repository, Identity, CID, LinklessCID, Versions, Transfer, Statuses,
         Local, Absent, Idle, Steps, InitiateSteps, AcceptSteps, PublishSteps, CancelSteps

-----------------------------------------------------------------------------
\* Type correctness.  A step of a request changes one entry of pc and local.

\* What a request that is not in flight remembers is well typed.
LEMMA IdleType == Idle \in Local
  BY DEF Idle, Local

\* Returning keeps the types of pc and local.
LEMMA ReturnType ==
  ASSUME NEW r \in Requests, pc \in [Requests -> Steps], local \in [Requests -> Local], Return(r)
  PROVE  pc' \in [Requests -> Steps] /\ local' \in [Requests -> Local]
  BY IdleType DEF Return, Goto, Steps

\* Carrying on from a returned row keeps the types of pc and local.
LEMMA ContinueType ==
  ASSUME NEW r \in Requests, NEW row \in Transfer, NEW step \in Steps,
         pc \in [Requests -> Steps], local \in [Requests -> Local], ContinueWith(r, row, step)
  PROVE  pc' \in [Requests -> Steps] /\ local' \in [Requests -> Local]
  <1>1. [local[r] EXCEPT !.row = row] \in Local
    BY DEF Local
  <1>2. local' = [local EXCEPT ![r] = [local[r] EXCEPT !.row = row]]
    BY DEF ContinueWith
  <1> QED BY <1>1, <1>2 DEF ContinueWith, Goto

\* The workflow continues with a publication step, and skips the successor only when the row holds one.
LEMMA AfterStartType ==
  ASSUME NEW row \in Transfer
  PROVE  /\ AfterStart(row) \in {"idle"} \cup PublishSteps
         /\ AfterStart(row) \in LateSteps => row.successor # None
  BY DEF AfterStart, AfterSuccessor, AfterAcceptance, PublishSteps, LateSteps, Transfer

\* After the successor come only the late steps.
LEMMA AfterSuccessorType ==
  ASSUME NEW row PROVE AfterSuccessor(row) \in LateSteps /\ AfterAcceptance(row) \in LateSteps
  BY DEF AfterSuccessor, AfterAcceptance, LateSteps, PublishSteps

\* Every group of steps belongs to the steps.
LEMMA StepTypes == /\ PublishSteps \subseteq Steps /\ InitiateSteps \subseteq Steps
                   /\ CancelSteps \subseteq Steps /\ "idle" \in Steps /\ AcceptSteps \subseteq Steps
  BY DEF Steps, AcceptSteps

\* The field updates of a transfer row keep its type.
LEMMA RowUpdateType ==
  ASSUME NEW row \in Transfer
  PROVE  /\ [row EXCEPT !.started = TRUE] \in Transfer
         /\ [row EXCEPT !.proposal = TRUE] \in Transfer
         /\ [row EXCEPT !.redirect = TRUE] \in Transfer
         /\ [row EXCEPT !.status = "cancelled"] \in Transfer
         /\ \A c \in LinklessCID : [row EXCEPT !.successor = c] \in Transfer
         /\ \A c \in LinklessCID : [row EXCEPT !.acceptance = c] \in Transfer
         /\ \A a \in Accounts : [row EXCEPT !.status = "completed", !.acceptedBy = a] \in Transfer
  <1>1. [row EXCEPT !.started = TRUE] \in Transfer BY DEF Transfer
  <1>2. [row EXCEPT !.proposal = TRUE] \in Transfer BY DEF Transfer
  <1>3. [row EXCEPT !.redirect = TRUE] \in Transfer BY DEF Transfer
  <1>4. [row EXCEPT !.status = "cancelled"] \in Transfer BY DEF Transfer, Statuses
  <1>5. \A c \in LinklessCID : [row EXCEPT !.successor = c] \in Transfer BY DEF Transfer
  <1>6. \A c \in LinklessCID : [row EXCEPT !.acceptance = c] \in Transfer BY DEF Transfer
  <1>7. \A a \in Accounts : [row EXCEPT !.status = "completed", !.acceptedBy = a] \in Transfer
    BY DEF Transfer, Statuses
  <1> QED BY <1>1, <1>2, <1>3, <1>4, <1>5, <1>6, <1>7

\* A successor publication names no successor of its own.
LEMMA SuccessorType ==
  ASSUME NEW value \in Repository, NEW t \in Transfers
  PROVE  SuccessorPublication(value, t) \in LinklessCID
  BY DEF SuccessorPublication, LinklessCID, Repository

-----------------------------------------------------------------------------
\* Framing.  Rows only grow: a created row keeps its parties and stays started.

Grows ==
  \A t \in Transfers :
    /\ transfers[t].status # "none" => /\ transfers'[t].status # "none"
                                       /\ transfers'[t].dest = transfers[t].dest
                                       /\ transfers'[t].source = transfers[t].source
    /\ transfers[t].started => transfers'[t].started
    /\ (transfers[t].status # "none" /\ HasSuccessor(transfers[t], t)) => HasSuccessor(transfers'[t], t)

\* Rows that do not change grow.
LEMMA GrowsUnchanged == ASSUME UNCHANGED transfers PROVE Grows
  BY DEF Grows

\* A request that takes no step keeps its knowledge when rows grow.
LEMMA FrameRequest ==
  ASSUME Inv, Grows, NEW q \in Requests, pc'[q] = pc[q], local'[q] = local[q]
  PROVE  RequestOK(q)'
  <1> USE DEF Inv, TypeOK, RequestInv, RequestOK, Grows
  <1>1. local[q] \in Local
    OBVIOUS
  <1>2. InitiateInv(q)' /\ CancelInv(q)'
    BY DEF InitiateInv, CancelInv
  <1>3. AcceptInv(q)'
    BY <1>1 DEF AcceptInv, Local, AcceptSteps, LateSteps
  <1>4. SnapshotInv(q)'
    BY DEF SnapshotInv, Begun, AcceptInv, Repository
  <1> QED BY <1>2, <1>3, <1>4

\* A request that returned knows nothing.
LEMMA IdleRequest ==
  ASSUME NEW r \in Requests, pc'[r] = "idle", local'[r] = Idle
  PROVE  RequestOK(r)'
  BY DEF RequestOK, InitiateInv, AcceptInv, CancelInv, SnapshotInv, Idle, AcceptSteps,
         PublishSteps, LateSteps, CancelSteps

\* The records survive a step that writes none of them.
LEMMA FrameRecords ==
  ASSUME Inv, Grows, repo'.from = repo.from, UNCHANGED <<acceptances, repoRecords>>
  PROVE  RecordInv'
  <1> USE DEF Inv, TypeOK, Grows
  <1>1. Begun(repo.from)'
    BY DEF RecordInv, Begun, Repository
  <1>2. \A t \in Transfers : acceptances'[t] # None => transfers'[t].started
    BY DEF RecordInv
  <1>3. \A a \in Accounts : repoRecords'[a] # None =>
          Begun(repoRecords[a].from)' /\ (repoRecords[a].to # None => Begun(repoRecords[a].to.from))'
    BY DEF RecordInv, Begun, CID, LinklessCID
  <1> QED BY <1>1, <1>2, <1>3 DEF RecordInv

\* Only the stepping request changes; the rest is framed.
LEMMA RequestFrame ==
  ASSUME Inv, Grows, NEW r \in Requests, RequestOK(r)',
         \A q \in Requests \ {r} : pc'[q] = pc[q] /\ local'[q] = local[q]
  PROVE  RequestInv'
  BY FrameRequest DEF RequestInv

\* A request that returns keeps what every request knows.
LEMMA ReturnRequest ==
  ASSUME Inv, Grows, NEW r \in Requests, Return(r)
  PROVE  RequestInv'
  <1>1. pc'[r] = "idle" /\ local'[r] = Idle
    BY DEF Return, Goto, Inv, TypeOK
  <1>2. \A q \in Requests \ {r} : pc'[q] = pc[q] /\ local'[q] = local[q]
    BY DEF Return, Goto, Inv, TypeOK
  <1> QED BY <1>1, <1>2, IdleRequest, RequestFrame

\* A step that leaves all rows and records alone and returns.
LEMMA QuietReturn ==
  ASSUME Inv, NEW r \in Requests, Return(r), UNCHANGED <<rowVars, pdsVars>>
  PROVE  Inv'
  <1>1. TypeOK'
    BY ReturnType DEF Inv, TypeOK, rowVars, pdsVars
  <1>2. Grows
    BY GrowsUnchanged DEF rowVars
  <1>3. RowInv'
    BY DEF Inv, RowInv, rowVars
  <1>4. RecordInv'
    BY <1>2, FrameRecords DEF rowVars, pdsVars
  <1> QED BY <1>1, <1>2, <1>3, <1>4, ReturnRequest DEF Inv

\* A request moves to a step with new knowledge that it justifies.
LEMMA RequestStep ==
  ASSUME Inv, Grows, NEW r \in Requests, NEW step \in Steps, NEW new \in Local,
         pc' = [pc EXCEPT ![r] = step], local' = [local EXCEPT ![r] = new], RequestOK(r)'
  PROVE  pc' \in [Requests -> Steps] /\ local' \in [Requests -> Local] /\ RequestInv'
  <1>1. pc' \in [Requests -> Steps] /\ local' \in [Requests -> Local]
    BY DEF Inv, TypeOK
  <1>2. \A q \in Requests \ {r} : pc'[q] = pc[q] /\ local'[q] = local[q]
    BY DEF Inv, TypeOK
  <1> QED BY <1>1, <1>2, RequestFrame

\* A step of a request that writes neither rows nor records.
LEMMA QuietStep ==
  ASSUME Inv, NEW r \in Requests, NEW step \in Steps, NEW new \in Local,
         pc' = [pc EXCEPT ![r] = step], local' = [local EXCEPT ![r] = new], RequestOK(r)',
         UNCHANGED <<rowVars, pdsVars>>
  PROVE  Inv'
  <1>1. Grows
    BY GrowsUnchanged DEF rowVars
  <1>2. RowInv'
    BY DEF Inv, RowInv, rowVars
  <1>3. RecordInv'
    BY <1>1, FrameRecords DEF rowVars, pdsVars
  <1>4. pc' \in [Requests -> Steps] /\ local' \in [Requests -> Local] /\ RequestInv'
    BY <1>1, RequestStep
  <1> QED BY <1>2, <1>3, <1>4 DEF Inv, TypeOK, rowVars, pdsVars

-----------------------------------------------------------------------------
\* Initiate.

\* InitiateRead preserves the invariant.
LEMMA InitiateReadStep ==
  ASSUME Inv, NEW r \in Requests, NEW actor \in Accounts, NEW dest \in Owners,
         InitiateRead(r, actor, dest)
  PROVE  Inv'
  <1> DEFINE new == [Idle EXCEPT !.actor = actor, !.dest = dest, !.repo = repo]
  <1>1. new \in Local /\ "authorize" \in Steps
    BY DEF Idle, Local, Inv, TypeOK, Steps, InitiateSteps
  <1>2. pc' = [pc EXCEPT ![r] = "authorize"] /\ local' = [local EXCEPT ![r] = new]
        /\ UNCHANGED <<rowVars, pdsVars>>
    BY DEF InitiateRead, Goto
  <1>3. pc'[r] = "authorize" /\ local'[r] = new
    BY <1>2 DEF Inv, TypeOK
  <1>4. new.repo = repo /\ new.dest = dest
    BY DEF Idle
  <1>5. RequestOK(r)'
    <2>1. InitiateInv(r)' /\ CancelInv(r)' /\ AcceptInv(r)'
      BY <1>3, <1>4 DEF Inv, TypeOK, InitiateInv, CancelInv, CancelSteps, AcceptInv, AcceptSteps,
                        PublishSteps, LateSteps
    <2>2. SnapshotInv(r)'
      BY <1>3 DEF SnapshotInv, AcceptSteps, PublishSteps
    <2> QED BY <2>1, <2>2 DEF RequestOK
  <1> HIDE DEF new
  <1> QED BY <1>1, <1>2, <1>5, QuietStep

\* A request moves to another step of the same phase with the same knowledge.
LEMMA SameKnowledge ==
  ASSUME Inv, NEW r \in Requests, UNCHANGED local
  PROVE  local' = [local EXCEPT ![r] = local[r]] /\ local[r] \in Local
  BY DEF Inv, TypeOK

\* InitiateAuthorize preserves the invariant.
LEMMA InitiateAuthorizeStep ==
  ASSUME Inv, NEW r \in Requests, InitiateAuthorize(r)
  PROVE  Inv'
  <1>0. UNCHANGED <<rowVars, pdsVars>> /\ pc[r] = "authorize"
    BY DEF InitiateAuthorize
  <1>1. CASE Return(r)
    BY <1>0, <1>1, QuietReturn
  <1>2. CASE Goto(r, "find") /\ UNCHANGED local
    <2>1. pc' = [pc EXCEPT ![r] = "find"] /\ pc'[r] = "find" /\ "find" \in Steps
      BY <1>2 DEF Goto, Inv, TypeOK, Steps, InitiateSteps
    <2>2. local'[r] = local[r]
      BY <1>2
    <2>3. InitiateInv(r)' /\ CancelInv(r)' /\ AcceptInv(r)'
      BY <1>0, <2>1, <2>2 DEF Inv, RequestInv, RequestOK, InitiateInv, CancelInv, CancelSteps, AcceptInv,
                              AcceptSteps, PublishSteps, LateSteps
    <2>4. SnapshotInv(r)'
      BY <2>1 DEF SnapshotInv, AcceptSteps, PublishSteps
    <2> QED BY <1>0, <1>2, <2>1, <2>3, <2>4, SameKnowledge, QuietStep DEF RequestOK
  <1> QED BY <1>1, <1>2 DEF InitiateAuthorize

\* InitiateFind preserves the invariant.
LEMMA InitiateFindStep ==
  ASSUME Inv, NEW r \in Requests, InitiateFind(r)
  PROVE  Inv'
  <1>0. UNCHANGED <<rowVars, pdsVars>> /\ pc[r] = "find"
    BY DEF InitiateFind
  <1>1. CASE Return(r)
    BY <1>0, <1>1, QuietReturn
  <1>2. CASE Goto(r, "create") /\ UNCHANGED local
    <2>1. pc' = [pc EXCEPT ![r] = "create"] /\ pc'[r] = "create" /\ "create" \in Steps
      BY <1>2 DEF Goto, Inv, TypeOK, Steps, InitiateSteps
    <2>2. local'[r] = local[r]
      BY <1>2
    <2>3. InitiateInv(r)' /\ CancelInv(r)' /\ AcceptInv(r)'
      BY <1>0, <2>1, <2>2 DEF Inv, RequestInv, RequestOK, InitiateInv, CancelInv, CancelSteps, AcceptInv,
                              AcceptSteps, PublishSteps, LateSteps
    <2>4. SnapshotInv(r)'
      BY <2>1 DEF SnapshotInv, AcceptSteps, PublishSteps
    <2> QED BY <1>0, <1>2, <2>1, <2>3, <2>4, SameKnowledge, QuietStep DEF RequestOK
  <1>3. ASSUME NEW t \in Transfers, Goto(r, "propose"),
               local' = [local EXCEPT ![r].id = t, ![r].row = transfers[t]]
        PROVE  Inv'
    <2> DEFINE new == [local[r] EXCEPT !.id = t, !.row = transfers[t]]
    <2>1. new \in Local /\ new.id = t /\ new.repo = local[r].repo
      BY DEF Inv, TypeOK, Local
    <2>2. local' = [local EXCEPT ![r] = new] /\ local'[r] = new
      BY <1>3 DEF Inv, TypeOK
    <2>3. pc' = [pc EXCEPT ![r] = "propose"] /\ pc'[r] = "propose" /\ "propose" \in Steps
      BY <1>3 DEF Goto, Inv, TypeOK, Steps, InitiateSteps
    <2> HIDE DEF new
    <2>4. InitiateInv(r)' /\ CancelInv(r)' /\ AcceptInv(r)'
      BY <2>1, <2>2, <2>3 DEF InitiateInv, CancelInv, CancelSteps, AcceptInv, AcceptSteps, PublishSteps, LateSteps
    <2>5. SnapshotInv(r)'
      BY <2>3 DEF SnapshotInv, AcceptSteps, PublishSteps
    <2> QED BY <1>0, <2>1, <2>2, <2>3, <2>4, <2>5, QuietStep DEF RequestOK
  <1> QED BY <1>1, <1>2, <1>3 DEF InitiateFind, Pending

\* InitiateCreate preserves the invariant.
LEMMA InitiateCreateStep ==
  ASSUME Inv, NEW r \in Requests, InitiateCreate(r)
  PROVE  Inv'
  <1>0. pc[r] = "create" /\ UNCHANGED <<repo, aliases, others, expired, pdsVars>>
    BY DEF InitiateCreate
  <1>1. CASE Return(r) /\ UNCHANGED transfers
    BY <1>0, <1>1, QuietReturn DEF rowVars
  <1>2. ASSUME NEW t \in Transfers, NEW row,
               row = [Absent EXCEPT !.status = "pending", !.source = local[r].repo.owner,
                        !.dest = local[r].dest, !.sourceRepository = local[r].repo.at,
                        !.initiatedBy = local[r].actor],
               transfers[t].status = "none",
               transfers' = [transfers EXCEPT ![t] = row],
               IF NextInitiateStep(row) = "idle" THEN Return(r)
               ELSE /\ local' = [local EXCEPT ![r].id = t, ![r].row = row]
                    /\ Goto(r, "propose")
        PROVE  Inv'
    <2>1. local[r] \in Local /\ local[r].repo \in Repository /\ local[r].dest \in Owners
      BY <1>0 DEF Inv, TypeOK, RequestInv, RequestOK, InitiateInv
    <2>2. row \in Transfer
      BY <1>2, <2>1 DEF Absent, Transfer, Statuses, Repository, Local
    <2>3. row.status = "pending" /\ row.source \in Owners /\ row.dest \in Owners
          /\ ~row.started /\ row.successor = None
      BY <1>2, <2>1 DEF Absent, Repository
    <2>4. Grows
      BY <1>2 DEF Grows, Inv, TypeOK, RowInv
    <2>5. RowInv'
      BY <1>2, <2>3 DEF RowInv, Inv, TypeOK
    <2>6. RecordInv'
      BY <1>0, <2>4, FrameRecords DEF pdsVars
    <2>7. transfers' \in [Transfers -> Transfer]
      BY <1>2, <2>2 DEF Inv, TypeOK
    <2>8. CASE Return(r)
      BY <1>0, <2>4, <2>5, <2>6, <2>7, <2>8, ReturnRequest, ReturnType DEF Inv, TypeOK, pdsVars
    <2>9. CASE local' = [local EXCEPT ![r].id = t, ![r].row = row] /\ Goto(r, "propose")
      <3> DEFINE new == [local[r] EXCEPT !.id = t, !.row = row]
      <3>1. new \in Local /\ new.id = t /\ new.repo = local[r].repo
        BY <2>1, <2>2 DEF Local
      <3>2. local' = [local EXCEPT ![r] = new] /\ local'[r] = new
        BY <2>9 DEF Inv, TypeOK
      <3>3. pc' = [pc EXCEPT ![r] = "propose"] /\ pc'[r] = "propose" /\ "propose" \in Steps
        BY <2>9 DEF Goto, Inv, TypeOK, Steps, InitiateSteps
      <3> HIDE DEF new
      <3>4. InitiateInv(r)' /\ CancelInv(r)' /\ AcceptInv(r)'
        BY <3>1, <3>2, <3>3 DEF InitiateInv, CancelInv, CancelSteps, AcceptInv, AcceptSteps, PublishSteps, LateSteps
      <3>5. SnapshotInv(r)'
        BY <3>3 DEF SnapshotInv, AcceptSteps, PublishSteps
      <3>6. pc' \in [Requests -> Steps] /\ local' \in [Requests -> Local] /\ RequestInv'
        BY <2>4, <3>1, <3>2, <3>3, <3>4, <3>5, RequestStep DEF RequestOK
      <3> QED BY <1>0, <2>5, <2>6, <2>7, <3>6 DEF Inv, TypeOK, pdsVars
    <2> QED BY <1>2, <2>8, <2>9
  <1> QED BY <1>1, <1>2 DEF InitiateCreate

\* A statement that rewrites one created row.
LEMMA UpdateRow ==
  ASSUME Inv, NEW t \in Transfers, NEW row \in Transfer,
         transfers' = [transfers EXCEPT ![t] = row], row.status # "none",
         row.dest = transfers[t].dest, row.source = transfers[t].source,
         transfers[t].started => row.started, transfers[t].status # "none",
         row.started => row.status \in {"pending", "completed"},
         row.status = "completed" => row.started,
         row.successor # None => row.successor.from = t,
         HasSuccessor(transfers[t], t) => HasSuccessor(row, t)
  PROVE  Grows /\ RowInv' /\ transfers' \in [Transfers -> Transfer]
  <1>1. transfers' \in [Transfers -> Transfer]
    BY DEF Inv, TypeOK
  <1>2. Grows
    BY DEF Inv, TypeOK, Grows
  <1>3. RowInv'
    BY DEF Inv, TypeOK, RowInv
  <1> QED BY <1>1, <1>2, <1>3

\* A statement that changes a row, and the request that ran it returns.
LEMMA RowReturn ==
  ASSUME Inv, NEW r \in Requests, Return(r), Grows, RowInv', transfers' \in [Transfers -> Transfer],
         UNCHANGED <<repo, aliases, others, expired, pdsVars>>
  PROVE  Inv'
  <1>1. RecordInv'
    BY FrameRecords DEF pdsVars
  <1>2. TypeOK'
    BY ReturnType DEF Inv, TypeOK, pdsVars
  <1> QED BY <1>1, <1>2, ReturnRequest DEF Inv

\* PublishProposal preserves the invariant.
LEMMA PublishProposalStep ==
  ASSUME Inv, NEW r \in Requests, PublishProposal(r)
  PROVE  Inv'
  <1>0. pc[r] = "propose" /\ UNCHANGED <<rowVars, acceptances, repoRecords, local>>
        /\ pc' = [pc EXCEPT ![r] = "storeProposal"]
    BY DEF PublishProposal, Goto
  <1>1. local[r].id \in Transfers
    BY <1>0 DEF Inv, RequestInv, RequestOK, InitiateInv
  <1>2. proposals' \subseteq Transfers
    BY <1>1 DEF PublishProposal, Inv, TypeOK
  <1>3. Grows /\ RecordInv' /\ RowInv'
    BY <1>0, GrowsUnchanged, FrameRecords DEF rowVars, Inv, RowInv
  <1>4. pc'[r] = "storeProposal" /\ "storeProposal" \in Steps /\ local'[r] = local[r]
    BY <1>0 DEF Inv, TypeOK, Steps, InitiateSteps
  <1>5. RequestOK(r)'
    <2>1. InitiateInv(r)' /\ CancelInv(r)' /\ AcceptInv(r)'
      BY <1>1, <1>4 DEF InitiateInv, CancelInv, CancelSteps, AcceptInv, AcceptSteps, PublishSteps, LateSteps
    <2>2. SnapshotInv(r)'
      BY <1>0, <1>4 DEF Inv, RequestInv, RequestOK, SnapshotInv, Begun, AcceptSteps, PublishSteps, rowVars
    <2> QED BY <2>1, <2>2 DEF RequestOK
  <1>6. pc' \in [Requests -> Steps] /\ local' \in [Requests -> Local] /\ RequestInv'
    BY <1>0, <1>3, <1>4, <1>5, SameKnowledge, RequestStep
  <1> QED BY <1>0, <1>2, <1>3, <1>6 DEF Inv, TypeOK, rowVars

\* SetProposal preserves the invariant.
LEMMA SetProposalStep ==
  ASSUME Inv, NEW r \in Requests, SetProposal(r)
  PROVE  Inv'
  <1> DEFINE t == local[r].id
             row == [transfers[t] EXCEPT !.proposal = TRUE]
  <1>0. pc[r] = "storeProposal" /\ Return(r) /\ UNCHANGED <<repo, aliases, others, expired, pdsVars>>
    BY DEF SetProposal
  <1>1. t \in Transfers /\ transfers[t] \in Transfer
    BY <1>0 DEF Inv, TypeOK, RequestInv, RequestOK, InitiateInv
  <1>2. CASE transfers[t].status = "pending"
    <2>1. transfers' = [transfers EXCEPT ![t] = row]
      BY <1>2 DEF SetProposal
    <2>2. row \in Transfer
      BY <1>1, RowUpdateType
    <2>3. /\ row.status = transfers[t].status /\ row.dest = transfers[t].dest
          /\ row.source = transfers[t].source /\ row.started = transfers[t].started
          /\ row.successor = transfers[t].successor
      BY <1>1 DEF Transfer
    <2>a. /\ transfers[t].started => transfers[t].status \in {"pending", "completed"}
          /\ transfers[t].successor # None => transfers[t].successor.from = t
      BY <1>1 DEF Inv, RowInv
    <2> HIDE DEF row, t
    <2>4. Grows /\ RowInv' /\ transfers' \in [Transfers -> Transfer]
      BY <1>1, <1>2, <2>1, <2>2, <2>3, <2>a, UpdateRow DEF HasSuccessor
    <2> QED BY <1>0, <2>4, RowReturn
  <1>3. CASE transfers[t].status # "pending"
    BY <1>0, <1>3, QuietReturn DEF SetProposal, rowVars
  <1> QED BY <1>2, <1>3

-----------------------------------------------------------------------------
\* Cancel.

\* CancelRead preserves the invariant.
LEMMA CancelReadStep ==
  ASSUME Inv, NEW r \in Requests, NEW actor \in Accounts, NEW t \in Transfers, CancelRead(r, actor, t)
  PROVE  Inv'
  <1> DEFINE new == [Idle EXCEPT !.actor = actor, !.id = t]
             step == IF transfers[t].proposal THEN "withdraw" ELSE "cancel"
  <1>1. new \in Local /\ new.id = t /\ new.repo = None
    BY DEF Idle, Local
  <1>2. step \in CancelSteps /\ step \in Steps
    BY DEF CancelSteps, Steps
  <1>3. pc' = [pc EXCEPT ![r] = step] /\ local' = [local EXCEPT ![r] = new]
        /\ UNCHANGED <<rowVars, pdsVars>>
    BY DEF CancelRead, Goto
  <1> HIDE DEF new, step
  <1>4. pc'[r] = step /\ local'[r] = new
    BY <1>3 DEF Inv, TypeOK
  <1>5. RequestOK(r)'
    BY <1>1, <1>2, <1>4 DEF RequestOK, SnapshotInv, InitiateInv, CancelInv, CancelSteps, AcceptInv,
                            AcceptSteps, PublishSteps, LateSteps
  <1> QED BY <1>1, <1>2, <1>3, <1>5, QuietStep

\* DeleteProposal preserves the invariant.
LEMMA DeleteProposalStep ==
  ASSUME Inv, NEW r \in Requests, DeleteProposal(r)
  PROVE  Inv'
  <1>0. pc[r] = "withdraw" /\ UNCHANGED <<rowVars, acceptances, repoRecords, local>>
        /\ pc' = [pc EXCEPT ![r] = "cancel"]
    BY DEF DeleteProposal, Goto
  <1>1. local[r].id \in Transfers
    BY <1>0 DEF Inv, RequestInv, RequestOK, CancelInv, CancelSteps
  <1>2. proposals' \subseteq Transfers
    BY DEF DeleteProposal, Inv, TypeOK
  <1>3. Grows /\ RecordInv' /\ RowInv'
    BY <1>0, GrowsUnchanged, FrameRecords DEF rowVars, Inv, RowInv
  <1>4. pc'[r] = "cancel" /\ "cancel" \in Steps /\ local'[r] = local[r]
    BY <1>0 DEF Inv, TypeOK, Steps, CancelSteps
  <1>5. RequestOK(r)'
    <2>1. InitiateInv(r)' /\ CancelInv(r)' /\ AcceptInv(r)'
      BY <1>1, <1>4 DEF InitiateInv, CancelInv, CancelSteps, AcceptInv, AcceptSteps, PublishSteps, LateSteps
    <2>2. SnapshotInv(r)'
      BY <1>0, <1>4 DEF Inv, RequestInv, RequestOK, SnapshotInv, Begun, AcceptSteps, PublishSteps, rowVars
    <2> QED BY <2>1, <2>2 DEF RequestOK
  <1>6. pc' \in [Requests -> Steps] /\ local' \in [Requests -> Local] /\ RequestInv'
    BY <1>0, <1>3, <1>4, <1>5, SameKnowledge, RequestStep
  <1> QED BY <1>0, <1>2, <1>3, <1>6 DEF Inv, TypeOK, rowVars

\* CancelTransfer preserves the invariant.
LEMMA CancelTransferStep ==
  ASSUME Inv, NEW r \in Requests, CancelTransfer(r)
  PROVE  Inv'
  <1> DEFINE t == local[r].id
             row == [transfers[t] EXCEPT !.status = "cancelled"]
  <1>0. pc[r] = "cancel" /\ Return(r) /\ UNCHANGED <<repo, aliases, others, expired, pdsVars>>
    BY DEF CancelTransfer
  <1>1. t \in Transfers /\ transfers[t] \in Transfer
    BY <1>0 DEF Inv, TypeOK, RequestInv, RequestOK, CancelInv, CancelSteps
  <1>2. CASE transfers[t].status = "pending" /\ ~transfers[t].started
    <2>1. transfers' = [transfers EXCEPT ![t] = row]
      BY <1>2 DEF CancelTransfer
    <2>2. row \in Transfer
      BY <1>1, RowUpdateType
    <2>3. /\ row.status = "cancelled" /\ row.dest = transfers[t].dest
          /\ row.source = transfers[t].source /\ row.started = transfers[t].started
          /\ row.successor = transfers[t].successor
      BY <1>1 DEF Transfer
    <2>a. /\ transfers[t].started => transfers[t].status \in {"pending", "completed"}
          /\ transfers[t].successor # None => transfers[t].successor.from = t
      BY <1>1 DEF Inv, RowInv
    <2> HIDE DEF row, t
    <2>4. Grows /\ RowInv' /\ transfers' \in [Transfers -> Transfer]
      BY <1>1, <1>2, <2>1, <2>2, <2>3, <2>a, UpdateRow DEF HasSuccessor
    <2> QED BY <1>0, <2>4, RowReturn
  <1>3. CASE ~(transfers[t].status = "pending" /\ ~transfers[t].started)
    BY <1>0, <1>3, QuietReturn DEF CancelTransfer, rowVars
  <1> QED BY <1>2, <1>3

-----------------------------------------------------------------------------
\* Accept.

\* A started acceptance carries on from a row of its own transfer.
LEMMA AcceptKnowledge ==
  ASSUME Inv, Grows, NEW r \in Requests, pc[r] \in AcceptSteps \ {"route"},
         NEW row \in Transfer, NEW step \in PublishSteps,
         pc'[r] = step, local'[r] = [local[r] EXCEPT !.row = row],
         row.dest = transfers'[local[r].id].dest, row.source = transfers'[local[r].id].source,
         transfers'[local[r].id].started,
         row.successor # None => /\ row.successor.from = local[r].id
                                 /\ HasSuccessor(transfers'[local[r].id], local[r].id),
         step \in LateSteps => /\ HasSuccessor(row, local[r].id)
                               /\ HasSuccessor(transfers'[local[r].id], local[r].id)
  PROVE  RequestOK(r)'
  <1>1. local[r] \in Local /\ AcceptInv(r) /\ SnapshotInv(r)
    BY DEF Inv, TypeOK, RequestInv, RequestOK
  <1>2. /\ local'[r].id = local[r].id /\ local'[r].repo = local[r].repo
        /\ local'[r].actor = local[r].actor /\ local'[r].row = row
    BY <1>1 DEF Local
  <1>3. InitiateInv(r)' /\ CancelInv(r)'
    BY DEF InitiateInv, CancelInv, CancelSteps, PublishSteps
  <1>4. /\ local[r].id \in Transfers /\ local[r].repo \in Repository
        /\ transfers[local[r].id].status # "none"
        /\ local[r].actor \in Admin[transfers[local[r].id].dest]
    BY <1>1 DEF AcceptInv
  <1>5. AcceptInv(r)'
    BY <1>2, <1>4 DEF AcceptInv, Grows
  <1>6. SnapshotInv(r)'
    BY <1>1, <1>2, <1>4 DEF SnapshotInv, Begun, Grows, Repository
  <1> QED BY <1>3, <1>5, <1>6 DEF RequestOK

\* The statement of an acceptance step rewrites its row and the request continues.
LEMMA AcceptRowStep ==
  ASSUME Inv, NEW r \in Requests, pc[r] \in AcceptSteps \ {"route"}, NEW row \in Transfer,
         NEW step \in PublishSteps, ContinueWith(r, row, step),
         transfers' = [transfers EXCEPT ![local[r].id] = row],
         row.status = "pending", row.started,
         row.dest = transfers[local[r].id].dest, row.source = transfers[local[r].id].source,
         row.successor # None => row.successor.from = local[r].id,
         HasSuccessor(transfers[local[r].id], local[r].id) => HasSuccessor(row, local[r].id),
         step \in LateSteps => HasSuccessor(row, local[r].id),
         UNCHANGED <<repo, aliases, others, expired, pdsVars>>
  PROVE  Inv'
  <1>1. local[r] \in Local /\ local[r].id \in Transfers /\ transfers[local[r].id].status # "none"
    BY DEF Inv, TypeOK, RequestInv, RequestOK, AcceptInv
  <1>2. Grows /\ RowInv' /\ transfers' \in [Transfers -> Transfer]
    BY <1>1, UpdateRow
  <1>3. local' = [local EXCEPT ![r] = [local[r] EXCEPT !.row = row]]
        /\ pc' = [pc EXCEPT ![r] = step] /\ [local[r] EXCEPT !.row = row] \in Local
    BY <1>1 DEF ContinueWith, Goto, Local
  <1>4. pc'[r] = step /\ local'[r] = [local[r] EXCEPT !.row = row]
    BY <1>3 DEF Inv, TypeOK
  <1>5. transfers'[local[r].id] = row
    BY <1>1 DEF Inv, TypeOK
  <1>6. RequestOK(r)'
    BY <1>2, <1>4, <1>5, AcceptKnowledge DEF HasSuccessor, Transfer
  <1>7. pc' \in [Requests -> Steps] /\ local' \in [Requests -> Local] /\ RequestInv'
    BY <1>2, <1>3, <1>6, RequestStep, StepTypes
  <1>8. RecordInv'
    BY <1>2, FrameRecords DEF pdsVars
  <1> QED BY <1>2, <1>7, <1>8 DEF Inv, TypeOK, pdsVars

\* AuthorizeAcceptance preserves the invariant.
LEMMA AuthorizeAcceptanceStep ==
  ASSUME Inv, NEW r \in Requests, NEW actor \in Accounts, NEW t \in Transfers,
         AuthorizeAcceptance(r, actor, t)
  PROVE  Inv'
  <1> DEFINE new == [Idle EXCEPT !.actor = actor, !.id = t, !.row = transfers[t]]
  <1>1. new \in Local /\ new.id = t /\ new.repo = None /\ new.actor = actor /\ new.row = transfers[t]
    BY DEF Idle, Local, Inv, TypeOK
  <1>2. pc' = [pc EXCEPT ![r] = "route"] /\ local' = [local EXCEPT ![r] = new]
        /\ UNCHANGED <<rowVars, pdsVars>> /\ "route" \in Steps
    BY DEF AuthorizeAcceptance, Goto, Steps, AcceptSteps
  <1> HIDE DEF new
  <1>3. pc'[r] = "route" /\ local'[r] = new /\ transfers' = transfers
    BY <1>2 DEF Inv, TypeOK, rowVars
  <1>4. transfers[t] \in Transfer /\ transfers[t].status = "pending" /\ actor \in Admin[transfers[t].dest]
        /\ (transfers[t].successor # None => transfers[t].successor.from = t /\ HasSuccessor(transfers[t], t))
    BY DEF AuthorizeAcceptance, Inv, TypeOK, RowInv, HasSuccessor, Transfer
  <1>5. RequestOK(r)'
    BY <1>1, <1>3, <1>4 DEF RequestOK, SnapshotInv, InitiateInv, CancelInv, CancelSteps, AcceptInv,
                            PublishSteps, LateSteps
  <1> QED BY <1>1, <1>2, <1>5, QuietStep

\* AcceptRoute preserves the invariant.
LEMMA AcceptRouteStep ==
  ASSUME Inv, NEW r \in Requests, AcceptRoute(r)
  PROVE  Inv'
  <1> DEFINE t == local[r].id
             new == [local[r] EXCEPT !.repo = repo, !.late = t \in expired]
  <1>0. pc[r] = "route" /\ UNCHANGED <<rowVars, pdsVars>>
    BY DEF AcceptRoute
  <1>1. CASE Return(r)
    BY <1>0, <1>1, QuietReturn
  <1>2. CASE local' = [local EXCEPT ![r].repo = repo, ![r].late = t \in expired] /\ Goto(r, "start")
    <2>1. local[r] \in Local /\ AcceptInv(r) /\ repo \in Repository
      BY DEF Inv, TypeOK, RequestInv, RequestOK
    <2>2. new \in Local
      <3>1. (t \in expired) \in BOOLEAN
        OBVIOUS
      <3> QED BY <2>1, <3>1 DEF Local
    <2>3. new.id = t /\ new.repo = repo /\ new.actor = local[r].actor /\ new.row = local[r].row
      BY <2>1 DEF Local
    <2>4. pc' = [pc EXCEPT ![r] = "start"] /\ local' = [local EXCEPT ![r] = new] /\ "start" \in Steps
      BY <1>2 DEF Goto, Steps, AcceptSteps, Inv, TypeOK
    <2> HIDE DEF new
    <2>5. pc'[r] = "start" /\ local'[r] = new /\ transfers' = transfers /\ repo' = repo
      BY <1>0, <2>4 DEF Inv, TypeOK, rowVars
    <2>6. AcceptInv(r)'
      BY <1>0, <2>1, <2>3, <2>5 DEF AcceptInv, AcceptSteps, PublishSteps, LateSteps
    <2>7. InitiateInv(r)' /\ CancelInv(r)'
      BY <2>5 DEF InitiateInv, CancelInv, CancelSteps
    <2>8. SnapshotInv(r)'
      BY <2>3, <2>5 DEF SnapshotInv, Inv, RecordInv, Begun
    <2> QED BY <1>0, <2>2, <2>4, <2>6, <2>7, <2>8, QuietStep DEF RequestOK
  <1> QED BY <1>1, <1>2 DEF AcceptRoute

\* StartAcceptance preserves the invariant.
LEMMA StartAcceptanceStep ==
  ASSUME Inv, NEW r \in Requests, StartAcceptance(r)
  PROVE  Inv'
  <1> DEFINE t == local[r].id
             row == transfers[t]
             begun == [row EXCEPT !.started = TRUE]
  <1>0. pc[r] = "start" /\ UNCHANGED <<repo, aliases, others, expired, pdsVars>>
    BY DEF StartAcceptance
  <1>1. /\ t \in Transfers /\ row \in Transfer /\ local[r] \in Local /\ local[r].row \in Transfer
        /\ row.status # "none"
        /\ local[r].row.started => row.started
        /\ local[r].row.successor # None => local[r].row.successor.from = t /\ HasSuccessor(row, t)
        /\ row.successor # None => row.successor.from = t
        /\ row.dest = local[r].row.dest /\ row.source = local[r].row.source
    BY <1>0 DEF Inv, TypeOK, RowInv, RequestInv, RequestOK, AcceptInv, AcceptSteps
  <1>2. pc[r] \in AcceptSteps \ {"route"}
    BY <1>0 DEF AcceptSteps
  <1>3. CASE Return(r) /\ UNCHANGED transfers
    BY <1>0, <1>3, QuietReturn DEF rowVars
  <1>4. CASE /\ local[r].row.started /\ AfterStart(local[r].row) # "idle"
             /\ Goto(r, AfterStart(local[r].row)) /\ UNCHANGED <<local, transfers>>
    <2> DEFINE step == AfterStart(local[r].row)
    <2>1. step \in PublishSteps /\ step \in Steps
      BY <1>1, <1>4, AfterStartType, StepTypes
    <2>2. pc' = [pc EXCEPT ![r] = step] /\ pc'[r] = step /\ transfers' = transfers
      BY <1>4 DEF Goto, Inv, TypeOK
    <2>3. local'[r] = [local[r] EXCEPT !.row = local[r].row]
      BY <1>1, <1>4 DEF Local
    <2>4. step \in LateSteps => HasSuccessor(local[r].row, t) /\ HasSuccessor(row, t)
      BY <1>1, AfterStartType DEF HasSuccessor, Transfer
    <2>5. Grows
      BY <2>2, GrowsUnchanged
    <2> HIDE DEF step
    <2>6. RequestOK(r)'
      BY <1>1, <1>2, <1>4, <2>1, <2>2, <2>3, <2>4, <2>5, AcceptKnowledge
    <2> QED BY <1>0, <1>4, <2>1, <2>2, <2>6, SameKnowledge, QuietStep DEF rowVars
  <1>5. CASE /\ row.status = "pending" /\ transfers' = [transfers EXCEPT ![t] = begun]
             /\ IF AfterStart(begun) = "idle" THEN Return(r)
                ELSE ContinueWith(r, begun, AfterStart(begun))
    <2>1. begun \in Transfer
      BY <1>1, RowUpdateType
    <2>2. /\ begun.status = row.status /\ begun.started /\ begun.dest = row.dest
          /\ begun.source = row.source /\ begun.successor = row.successor
      BY <1>1 DEF Transfer
    <2>3. CASE Return(r)
      <3> HIDE DEF begun
      <3>1. Grows /\ RowInv' /\ transfers' \in [Transfers -> Transfer]
        BY <1>1, <1>5, <2>1, <2>2, UpdateRow DEF HasSuccessor
      <3> QED BY <1>0, <2>3, <3>1, RowReturn
    <2>4. CASE AfterStart(begun) # "idle" /\ ContinueWith(r, begun, AfterStart(begun))
      <3> DEFINE step == AfterStart(begun)
      <3> HIDE DEF begun
      <3>1. step \in PublishSteps /\ (step \in LateSteps => HasSuccessor(begun, t))
        BY <1>1, <2>1, <2>2, <2>4, AfterStartType DEF HasSuccessor, Transfer
      <3>2. HasSuccessor(row, t) => HasSuccessor(begun, t)
        BY <2>2 DEF HasSuccessor
      <3> HIDE DEF step
      <3> QED BY <1>0, <1>1, <1>2, <1>5, <2>1, <2>2, <2>4, <3>1, <3>2, AcceptRowStep DEF step
    <2> QED BY <1>5, <2>3, <2>4
  <1> QED BY <1>3, <1>4, <1>5 DEF StartAcceptance

\* SetSuccessor preserves the invariant.
LEMMA SetSuccessorStep ==
  ASSUME Inv, NEW r \in Requests, SetSuccessor(r)
  PROVE  Inv'
  <1> DEFINE t == local[r].id
             row == [transfers[t] EXCEPT !.successor = SuccessorPublication(local[r].repo, t)]
             step == AfterSuccessor(row)
  <1>0. pc[r] = "storeSuccessor" /\ UNCHANGED <<repo, aliases, others, expired, pdsVars>>
    BY DEF SetSuccessor
  <1>1. /\ t \in Transfers /\ transfers[t] \in Transfer /\ local[r] \in Local
        /\ local[r].repo \in Repository /\ local[r].row \in Transfer /\ transfers[t].started
        /\ transfers[t].successor # None => transfers[t].successor.from = t
        /\ "storeSuccessor" # "storeSuccessor" => HasSuccessor(transfers[t], t) /\ HasSuccessor(local[r].row, t)
    BY <1>0 DEF Inv, TypeOK, RowInv, RequestInv, RequestOK, AcceptInv, AcceptSteps, PublishSteps, LateSteps
  <1>2. CASE transfers[t].status = "pending"
    <2>1. transfers' = [transfers EXCEPT ![t] = row] /\ ContinueWith(r, row, step)
      BY <1>2 DEF SetSuccessor
    <2>2. row \in Transfer
      BY <1>1, RowUpdateType, SuccessorType
    <2>3. /\ HasSuccessor(row, t)
          /\ row.status = transfers[t].status /\ row.started = transfers[t].started
          /\ row.dest = transfers[t].dest /\ row.source = transfers[t].source
      <3>1. row.successor = SuccessorPublication(local[r].repo, t)
        BY <1>1 DEF Transfer
      <3>2. HasSuccessor(row, t)
        BY <1>1, <3>1, SuccessorType DEF HasSuccessor, SuccessorPublication
      <3> QED BY <1>1, <3>2 DEF Transfer
    <2>4. step \in PublishSteps /\ pc[r] \in AcceptSteps \ {"route"}
      BY <1>0, AfterSuccessorType DEF AcceptSteps, PublishSteps, LateSteps
    <2> HIDE DEF row, step, t
    <2> QED BY <1>0, <1>1, <1>2, <2>1, <2>2, <2>3, <2>4, AcceptRowStep DEF t, HasSuccessor
  <1>3. CASE transfers[t].status # "pending"
    BY <1>0, <1>3, QuietReturn DEF SetSuccessor, rowVars
  <1> QED BY <1>2, <1>3

\* SetAcceptance preserves the invariant.
LEMMA SetAcceptanceStep ==
  ASSUME Inv, NEW r \in Requests, SetAcceptance(r)
  PROVE  Inv'
  <1> DEFINE t == local[r].id
             row == [transfers[t] EXCEPT !.acceptance = local[r].row.successor]
             step == AfterAcceptance(row)
  <1>0. pc[r] = "storeAcceptance" /\ UNCHANGED <<repo, aliases, others, expired, pdsVars>>
    BY DEF SetAcceptance
  <1>1. /\ t \in Transfers /\ transfers[t] \in Transfer /\ local[r] \in Local
        /\ local[r].repo \in Repository /\ local[r].row \in Transfer /\ transfers[t].started
        /\ transfers[t].successor # None => transfers[t].successor.from = t
        /\ "storeAcceptance" # "storeSuccessor" => HasSuccessor(transfers[t], t) /\ HasSuccessor(local[r].row, t)
    BY <1>0 DEF Inv, TypeOK, RowInv, RequestInv, RequestOK, AcceptInv, AcceptSteps, PublishSteps, LateSteps
  <1>2. CASE transfers[t].status = "pending"
    <2>1. transfers' = [transfers EXCEPT ![t] = row] /\ ContinueWith(r, row, step)
      BY <1>2 DEF SetAcceptance
    <2>2. row \in Transfer
      BY <1>1, RowUpdateType DEF HasSuccessor
    <2>3. /\ HasSuccessor(row, t)
          /\ row.status = transfers[t].status /\ row.started = transfers[t].started
          /\ row.dest = transfers[t].dest /\ row.source = transfers[t].source
      <3>1. row.successor = transfers[t].successor
        BY <1>1 DEF Transfer
      <3>2. HasSuccessor(row, t)
        BY <1>1, <3>1 DEF HasSuccessor
      <3> QED BY <1>1, <3>2 DEF Transfer
    <2>4. step \in PublishSteps /\ pc[r] \in AcceptSteps \ {"route"}
      BY <1>0, AfterSuccessorType DEF AcceptSteps, PublishSteps, LateSteps
    <2> HIDE DEF row, step, t
    <2> QED BY <1>0, <1>1, <1>2, <2>1, <2>2, <2>3, <2>4, AcceptRowStep DEF t, HasSuccessor
  <1>3. CASE transfers[t].status # "pending"
    BY <1>0, <1>3, QuietReturn DEF SetAcceptance, rowVars
  <1> QED BY <1>2, <1>3

\* SetSourceRedirect preserves the invariant.
LEMMA SetSourceRedirectStep ==
  ASSUME Inv, NEW r \in Requests, SetSourceRedirect(r)
  PROVE  Inv'
  <1> DEFINE t == local[r].id
             row == [transfers[t] EXCEPT !.redirect = TRUE]
             step == "complete"
  <1>0. pc[r] = "storeRedirect" /\ UNCHANGED <<repo, aliases, others, expired, pdsVars>>
    BY DEF SetSourceRedirect
  <1>1. /\ t \in Transfers /\ transfers[t] \in Transfer /\ local[r] \in Local
        /\ local[r].repo \in Repository /\ local[r].row \in Transfer /\ transfers[t].started
        /\ transfers[t].successor # None => transfers[t].successor.from = t
        /\ "storeRedirect" # "storeSuccessor" => HasSuccessor(transfers[t], t) /\ HasSuccessor(local[r].row, t)
    BY <1>0 DEF Inv, TypeOK, RowInv, RequestInv, RequestOK, AcceptInv, AcceptSteps, PublishSteps, LateSteps
  <1>2. CASE transfers[t].status = "pending"
    <2>1. transfers' = [transfers EXCEPT ![t] = row] /\ ContinueWith(r, row, step)
      BY <1>2 DEF SetSourceRedirect
    <2>2. row \in Transfer
      BY <1>1, RowUpdateType DEF HasSuccessor
    <2>3. /\ HasSuccessor(row, t)
          /\ row.status = transfers[t].status /\ row.started = transfers[t].started
          /\ row.dest = transfers[t].dest /\ row.source = transfers[t].source
      <3>1. row.successor = transfers[t].successor
        BY <1>1 DEF Transfer
      <3>2. HasSuccessor(row, t)
        BY <1>1, <3>1 DEF HasSuccessor
      <3> QED BY <1>1, <3>2 DEF Transfer
    <2>4. step \in PublishSteps /\ pc[r] \in AcceptSteps \ {"route"}
      BY <1>0 DEF AcceptSteps, PublishSteps
    <2> HIDE DEF row, step, t
    <2> QED BY <1>0, <1>1, <1>2, <2>1, <2>2, <2>3, <2>4, AcceptRowStep DEF t, HasSuccessor
  <1>3. CASE transfers[t].status # "pending"
    BY <1>0, <1>3, QuietReturn DEF SetSourceRedirect, rowVars
  <1> QED BY <1>2, <1>3

\* PublishSuccessor preserves the invariant.
LEMMA PublishSuccessorStep ==
  ASSUME Inv, NEW r \in Requests, PublishSuccessor(r)
  PROVE  Inv'
  <1> DEFINE t == local[r].id
             cid == SuccessorPublication(local[r].repo, t)
  <1>0. pc[r] = "successor" /\ UNCHANGED <<rowVars, proposals, acceptances, local>>
        /\ pc' = [pc EXCEPT ![r] = "storeSuccessor"]
        /\ repoRecords' = [repoRecords EXCEPT ![Author[local[r].row.dest]] = cid]
    BY DEF PublishSuccessor, Goto
  <1>1. t \in Transfers /\ transfers[t].started /\ local[r].repo \in Repository
    BY <1>0 DEF Inv, RequestInv, RequestOK, AcceptInv, AcceptSteps, PublishSteps
  <1>2. cid \in LinklessCID /\ cid \in CID /\ cid.from = t /\ cid.to = None
    BY <1>1, SuccessorType DEF SuccessorPublication, CID, LinklessCID
  <1> HIDE DEF cid
  <1>3. repoRecords' \in [Accounts -> CID \cup {None}]
    BY <1>0, <1>2 DEF Inv, TypeOK
  <1>4. \A a \in Accounts : repoRecords'[a] = repoRecords[a] \/ repoRecords'[a] = cid
    BY <1>0 DEF Inv, TypeOK
  <1>5. RecordInv'
    BY <1>0, <1>1, <1>2, <1>4 DEF Inv, RecordInv, Begun, rowVars
  <1>6. Grows /\ RowInv'
    BY <1>0, GrowsUnchanged DEF rowVars, Inv, RowInv
  <1>7. pc'[r] = "storeSuccessor" /\ "storeSuccessor" \in Steps /\ local'[r] = local[r]
    BY <1>0 DEF Inv, TypeOK, Steps, AcceptSteps, PublishSteps
  <1>8. RequestOK(r)'
    BY <1>0, <1>7 DEF Inv, RequestInv, RequestOK, AcceptInv, InitiateInv, CancelInv, CancelSteps,
                      SnapshotInv, Begun, AcceptSteps, PublishSteps, LateSteps, rowVars
  <1>9. pc' \in [Requests -> Steps] /\ local' \in [Requests -> Local] /\ RequestInv'
    BY <1>0, <1>6, <1>7, <1>8, SameKnowledge, RequestStep
  <1> QED BY <1>0, <1>3, <1>5, <1>6, <1>9 DEF Inv, TypeOK, rowVars

\* PublishAcceptance preserves the invariant.
LEMMA PublishAcceptanceStep ==
  ASSUME Inv, NEW r \in Requests, PublishAcceptance(r)
  PROVE  Inv'
  <1> DEFINE t == local[r].id
  <1>0. pc[r] = "acceptance" /\ UNCHANGED <<rowVars, proposals, repoRecords, local>>
        /\ pc' = [pc EXCEPT ![r] = "storeAcceptance"]
        /\ acceptances' = [acceptances EXCEPT ![t] = local[r].row.successor]
    BY DEF PublishAcceptance, Goto
  <1>1. t \in Transfers /\ transfers[t].started /\ local[r].row.successor \in LinklessCID
    BY <1>0 DEF Inv, RequestInv, RequestOK, AcceptInv, AcceptSteps, PublishSteps, LateSteps, HasSuccessor
  <1>2. acceptances' \in [Transfers -> LinklessCID \cup {None}]
    BY <1>0, <1>1 DEF Inv, TypeOK
  <1>3. RecordInv'
    BY <1>0, <1>1 DEF Inv, TypeOK, RecordInv, Begun, rowVars
  <1>4. Grows /\ RowInv'
    BY <1>0, GrowsUnchanged DEF rowVars, Inv, RowInv
  <1>5. pc'[r] = "storeAcceptance" /\ "storeAcceptance" \in Steps /\ local'[r] = local[r]
    BY <1>0 DEF Inv, TypeOK, Steps, AcceptSteps, PublishSteps
  <1>6. RequestOK(r)'
    BY <1>0, <1>5 DEF Inv, RequestInv, RequestOK, AcceptInv, InitiateInv, CancelInv, CancelSteps,
                      SnapshotInv, Begun, AcceptSteps, PublishSteps, LateSteps, rowVars
  <1>7. pc' \in [Requests -> Steps] /\ local' \in [Requests -> Local] /\ RequestInv'
    BY <1>0, <1>4, <1>5, <1>6, SameKnowledge, RequestStep
  <1> QED BY <1>0, <1>2, <1>3, <1>4, <1>7 DEF Inv, TypeOK, rowVars

\* PublishSourceRedirect preserves the invariant.
LEMMA PublishSourceRedirectStep ==
  ASSUME Inv, NEW r \in Requests, PublishSourceRedirect(r)
  PROVE  Inv'
  <1> DEFINE t == local[r].id
             cid == SourceRedirectPublication(local[r].repo, t, local[r].row)
  <1>0. pc[r] = "redirect" /\ UNCHANGED <<rowVars, proposals, acceptances, local>>
        /\ pc' = [pc EXCEPT ![r] = "storeRedirect"]
        /\ repoRecords' = [repoRecords EXCEPT ![Author[local[r].row.source]] = cid]
    BY DEF PublishSourceRedirect, Goto
  <1>1. /\ t \in Transfers /\ transfers[t].started /\ local[r].repo \in Repository
        /\ HasSuccessor(local[r].row, t)
    BY <1>0 DEF Inv, RequestInv, RequestOK, AcceptInv, AcceptSteps, PublishSteps, LateSteps
  <1>a. Begun(local[r].repo.from)
    BY <1>0 DEF Inv, RequestInv, RequestOK, SnapshotInv, AcceptSteps, PublishSteps
  <1>2. cid \in CID /\ cid.from = local[r].repo.from /\ cid.to.from = t
    BY <1>1 DEF SourceRedirectPublication, CID, HasSuccessor, Repository
  <1>b. Begun(cid.from)
    BY <1>a, <1>2
  <1> HIDE DEF cid
  <1>3. repoRecords' \in [Accounts -> CID \cup {None}]
    BY <1>0, <1>2 DEF Inv, TypeOK
  <1>4. \A a \in Accounts : repoRecords'[a] = repoRecords[a] \/ repoRecords'[a] = cid
    BY <1>0 DEF Inv, TypeOK
  <1>5. RecordInv'
    BY <1>0, <1>1, <1>2, <1>4, <1>b DEF Inv, RecordInv, Begun, rowVars
  <1>6. Grows /\ RowInv'
    BY <1>0, GrowsUnchanged DEF rowVars, Inv, RowInv
  <1>7. pc'[r] = "storeRedirect" /\ "storeRedirect" \in Steps /\ local'[r] = local[r]
    BY <1>0 DEF Inv, TypeOK, Steps, AcceptSteps, PublishSteps
  <1>8. RequestOK(r)'
    BY <1>0, <1>7 DEF Inv, RequestInv, RequestOK, AcceptInv, InitiateInv, CancelInv, CancelSteps,
                      SnapshotInv, Begun, AcceptSteps, PublishSteps, LateSteps, rowVars
  <1>9. pc' \in [Requests -> Steps] /\ local' \in [Requests -> Local] /\ RequestInv'
    BY <1>0, <1>6, <1>7, <1>8, SameKnowledge, RequestStep
  <1> QED BY <1>0, <1>3, <1>5, <1>6, <1>9 DEF Inv, TypeOK, rowVars

\* A completion statement: the row is completed by its destination, and the
\* repository goes to the destination with an identity of a begun transfer.
LEMMA HandOverStep ==
  ASSUME Inv, NEW r \in Requests, pc[r] \in PublishSteps, NEW newRepo \in Repository,
         newRepo.from \in {repo.from, local[r].id}, transfers[local[r].id].status = "pending",
         HandOver(r, local[r].id, newRepo), Return(r), UNCHANGED <<others, expired, pdsVars>>
  PROVE  Inv'
  <1> DEFINE t == local[r].id
             row == [transfers[t] EXCEPT !.status = "completed", !.acceptedBy = local[r].actor]
  <1>1. /\ t \in Transfers /\ transfers[t] \in Transfer /\ transfers[t].started
        /\ local[r].actor \in Admin[transfers[t].dest]
        /\ transfers[t].source \in Owners /\ transfers[t].dest \in Owners
        /\ transfers[t].successor # None => transfers[t].successor.from = t
    BY DEF Inv, TypeOK, RowInv, RequestInv, RequestOK, AcceptInv, AcceptSteps
  <1>2. local[r].actor \in Accounts
    BY <1>1, OwnerAssumption
  <1>3. transfers' = [transfers EXCEPT ![t] = row]
    BY <1>1 DEF HandOver, Inv, TypeOK, Transfer
  <1>4. row \in Transfer
    BY <1>1, <1>2, RowUpdateType
  <1>5. /\ row.status = "completed" /\ row.dest = transfers[t].dest
        /\ row.source = transfers[t].source /\ row.started = transfers[t].started
        /\ row.successor = transfers[t].successor
    BY <1>1 DEF Transfer
  <1> HIDE DEF row, t
  <1>6. Grows /\ RowInv' /\ transfers' \in [Transfers -> Transfer]
    BY <1>1, <1>3, <1>4, <1>5, UpdateRow DEF HasSuccessor, t
  <1>7. repo' = newRepo /\ aliases' \subseteq Owners
    BY <1>1 DEF HandOver, Inv, TypeOK, t
  <1>8. TypeOK'
    BY <1>6, <1>7, ReturnType DEF Inv, TypeOK, pdsVars
  <1>9. RecordInv'
    <2>1. Begun(repo.from)'
      BY <1>1, <1>6, <1>7 DEF Inv, TypeOK, RecordInv, Begun, Grows, Repository, t
    <2>2. \A u \in Transfers : acceptances'[u] # None => transfers'[u].started
      BY <1>6 DEF Inv, RecordInv, Grows, pdsVars
    <2>3. \A a \in Accounts : repoRecords'[a] # None =>
            Begun(repoRecords[a].from)' /\ (repoRecords[a].to # None => Begun(repoRecords[a].to.from))'
      BY <1>6 DEF Inv, TypeOK, RecordInv, Begun, Grows, CID, LinklessCID, pdsVars
    <2> QED BY <2>1, <2>2, <2>3 DEF RecordInv
  <1> QED BY <1>6, <1>8, <1>9, ReturnRequest DEF Inv

\* Complete: the new repository row is well typed and names the transfer.
LEMMA CompleteStep ==
  ASSUME Inv, NEW r \in Requests, Complete(r)
  PROVE  Inv'
  <1> DEFINE t == local[r].id
             row == transfers[t]
             new == [repo EXCEPT !.owner = row.dest, !.from = t,
                                 !.at = [author |-> Author[row.dest], cid |-> row.successor]]
  <1>0. pc[r] = "complete" /\ Return(r) /\ UNCHANGED <<others, expired, pdsVars>>
    BY DEF Complete
  <1>1. CASE HandOver(r, t, new) /\ row.status = "pending" /\ row.successor # None
    <2>1. t \in Transfers /\ row \in Transfer /\ row.dest \in Owners /\ repo \in Repository
      BY <1>0, <1>1 DEF Inv, TypeOK, RowInv, RequestInv, RequestOK, AcceptInv, AcceptSteps, PublishSteps
    <2>2. row.successor \in CID
      BY <1>1, <2>1 DEF Transfer, LinklessCID, CID
    <2>3. new \in Repository /\ new.from = t
      BY <2>1, <2>2, OwnerAssumption DEF Repository, Identity
    <2>4. pc[r] \in PublishSteps
      BY <1>0 DEF PublishSteps
    <2> HIDE DEF new
    <2> QED BY <1>0, <1>1, <2>3, <2>4, HandOverStep
  <1>2. CASE UNCHANGED <<repo, aliases, transfers>>
    BY <1>0, <1>2, QuietReturn DEF rowVars
  <1> QED BY <1>1, <1>2 DEF Complete

\* CompletePrivate: only the owner of the repository row changes.
LEMMA CompletePrivateStep ==
  ASSUME Inv, NEW r \in Requests, CompletePrivate(r)
  PROVE  Inv'
  <1> DEFINE t == local[r].id
             row == transfers[t]
             new == [repo EXCEPT !.owner = row.dest]
  <1>0. pc[r] = "completePrivate" /\ Return(r) /\ UNCHANGED <<others, expired, pdsVars>>
    BY DEF CompletePrivate
  <1>1. CASE HandOver(r, t, new) /\ row.status = "pending"
    <2>1. t \in Transfers /\ row \in Transfer /\ row.dest \in Owners /\ repo \in Repository
      BY <1>0, <1>1 DEF Inv, TypeOK, RowInv, RequestInv, RequestOK, AcceptInv, AcceptSteps, PublishSteps
    <2>2. new \in Repository /\ new.from = repo.from
      BY <2>1 DEF Repository
    <2>3. pc[r] \in PublishSteps
      BY <1>0 DEF PublishSteps
    <2> HIDE DEF new
    <2> QED BY <1>0, <1>1, <2>2, <2>3, HandOverStep
  <1>2. CASE UNCHANGED <<repo, aliases, transfers>>
    BY <1>0, <1>2, QuietReturn DEF rowVars
  <1> QED BY <1>1, <1>2 DEF CompletePrivate

-----------------------------------------------------------------------------
\* A step that moves no request and writes no row and no record.
LEMMA EnvironmentStep ==
  ASSUME Inv, UNCHANGED <<repo, transfers, pdsVars, pc, local>>,
         aliases' \subseteq Owners, others' \subseteq Owners, expired' \subseteq Transfers
  PROVE  Inv'
  <1>1. Grows
    BY GrowsUnchanged
  <1>2. TypeOK' /\ RowInv'
    BY DEF Inv, TypeOK, RowInv, pdsVars
  <1>3. RecordInv'
    BY <1>1, FrameRecords DEF pdsVars
  <1>4. RequestInv'
    BY <1>1, FrameRequest DEF RequestInv
  <1> QED BY <1>2, <1>3, <1>4 DEF Inv

-----------------------------------------------------------------------------
\* Update, Delete and Restore.

\* A publication carries the lineage of the repository and names no successor.
LEMMA PublicationType ==
  ASSUME NEW value \in Repository
  PROVE  /\ Publication(value) \in LinklessCID /\ Publication(value) \in CID
         /\ Publication(value).from = value.from /\ Publication(value).to = None
  BY DEF Publication, LinklessCID, CID, Repository

\* The next version is within the bound.
LEMMA NextVersion ==
  ASSUME NEW value \in Repository, value.ver < MaxVersion
  PROVE  value.ver + 1 \in Versions
  BY BoundAssumption DEF Repository, Versions

\* A row with the same lineage and records that are kept, removed or publications of it.
SameLineage ==
  /\ repo' \in Repository /\ repo'.from = repo.from /\ repo'.owner = repo.owner
  /\ repoRecords' \in [Accounts -> CID \cup {None}]
  /\ \A a \in Accounts : \/ repoRecords'[a] = repoRecords[a]
                         \/ repoRecords'[a] = None
                         \/ repoRecords'[a].from = repo.from /\ repoRecords'[a].to = None

\* Publishing a row of the same lineage.
LEMMA PublishAsShape ==
  ASSUME TypeOK, NEW new \in Repository, new.from = repo.from, new.owner = repo.owner, PublishAs(new)
  PROVE  SameLineage
  <1>1. Author[new.owner] \in Accounts
    BY OwnerAssumption DEF Repository
  <1>2. [author |-> Author[new.owner], cid |-> Publication(new)] \in Identity
    BY <1>1, PublicationType DEF Identity
  <1>3. repo' \in Repository /\ repo'.from = repo.from /\ repo'.owner = repo.owner
    BY <1>2 DEF PublishAs, Repository
  <1>4. repoRecords' = [repoRecords EXCEPT ![Author[new.owner]] = Publication(new)]
    BY DEF PublishAs
  <1>5. repoRecords' \in [Accounts -> CID \cup {None}]
    BY <1>4, PublicationType DEF TypeOK
  <1>6. ASSUME NEW a \in Accounts
        PROVE  \/ repoRecords'[a] = repoRecords[a] \/ repoRecords'[a] = None
               \/ repoRecords'[a].from = repo.from /\ repoRecords'[a].to = None
    BY <1>4, PublicationType DEF TypeOK
  <1> QED BY <1>3, <1>5, <1>6 DEF SameLineage

\* Removing the record of a row of the same lineage.
LEMMA UnpublishShape ==
  ASSUME TypeOK, repo' \in Repository, repo'.from = repo.from, repo'.owner = repo.owner,
         Unpublish \/ UNCHANGED repoRecords
  PROVE  SameLineage
  BY DEF SameLineage, Unpublish, TypeOK

\* Update, Delete and Restore keep the lineage and touch no transfer.
LEMMA OwnerStepShape ==
  ASSUME TypeOK, OwnerNext
  PROVE  /\ SameLineage
         /\ UNCHANGED <<aliases, others, transfers, expired, proposals, acceptances, pc, local>>
  <1>1. repo \in Repository
    BY DEF TypeOK
  <1>2. ASSUME NEW public \in BOOLEAN, UpdateRepository(public) PROVE SameLineage
    <2> DEFINE new == [repo EXCEPT !.public = public, !.ver = repo.ver + 1]
               private == [new EXCEPT !.at = None]
    <2>0. repo.ver + 1 \in Versions
      BY <1>1, <1>2, NextVersion DEF UpdateRepository
    <2>1. new \in Repository /\ new.from = repo.from /\ new.owner = repo.owner
      BY <1>1, <2>0 DEF Repository
    <2>3. private \in Repository /\ private.from = repo.from /\ private.owner = repo.owner
      BY <1>1, <2>0 DEF Repository
    <2>2. PublishAs(new) \/ (Unpublish /\ repo' = private)
      BY <1>2 DEF UpdateRepository
    <2> HIDE DEF new, private
    <2> QED BY <2>1, <2>2, <2>3, PublishAsShape, UnpublishShape
  <1>3. ASSUME DeleteRepository PROVE SameLineage
    <2> DEFINE new == [repo EXCEPT !.state = "deleting"]
    <2>1. new \in Repository /\ new.from = repo.from /\ new.owner = repo.owner
      BY <1>1 DEF Repository
    <2>2. Unpublish /\ repo' = new
      BY <1>3 DEF DeleteRepository
    <2> HIDE DEF new
    <2> QED BY <2>1, <2>2, UnpublishShape
  <1>4. ASSUME RestoreRepository PROVE SameLineage
    <2> DEFINE new == [repo EXCEPT !.state = "active", !.ver = repo.ver + 1]
    <2>1. new \in Repository /\ new.from = repo.from /\ new.owner = repo.owner
      BY <1>1, <1>4, NextVersion DEF RestoreRepository, Repository
    <2>2. PublishAs(new) \/ (repo' = new /\ UNCHANGED repoRecords)
      BY <1>4 DEF RestoreRepository
    <2> HIDE DEF new
    <2> QED BY <2>1, <2>2, PublishAsShape, UnpublishShape
  <1>5. UNCHANGED <<aliases, others, transfers, expired, proposals, acceptances, pc, local>>
    BY DEF OwnerNext, UpdateRepository, DeleteRepository, RestoreRepository
  <1> QED BY <1>2, <1>3, <1>4, <1>5 DEF OwnerNext

\* A settings change, a deletion and a restoration preserve Inv.
LEMMA OwnerStep ==
  ASSUME Inv, OwnerNext
  PROVE  Inv'
  <1> USE OwnerStepShape DEF Inv, SameLineage
  <1>1. Grows
    BY GrowsUnchanged
  <1>2. TypeOK' /\ RowInv'
    BY DEF TypeOK, RowInv
  <1>3. RecordInv'
    <2>1. Begun(repo.from)'
      BY DEF RecordInv, Begun
    <2>2. \A t \in Transfers : acceptances'[t] # None => transfers'[t].started
      BY DEF RecordInv
    <2>3. ASSUME NEW a \in Accounts, repoRecords'[a] # None
          PROVE  Begun(repoRecords[a].from)' /\ (repoRecords[a].to # None => Begun(repoRecords[a].to.from))'
      BY <2>3 DEF RecordInv, Begun
    <2> QED BY <2>1, <2>2, <2>3 DEF RecordInv
  <1>4. RequestInv'
    BY <1>1, FrameRequest DEF RequestInv
  <1> QED BY <1>2, <1>3, <1>4 DEF Inv

-----------------------------------------------------------------------------
\* Inv is inductive: one case per action.
LEMMA InvStep == Inv /\ [Next]_vars => Inv'
  <1> SUFFICES ASSUME Inv, [Next]_vars PROVE Inv'
    OBVIOUS
  <1>1. CASE \E r \in Requests : RequestNext(r)
    <2>1. PICK r \in Requests : RequestNext(r)
      BY <1>1
    <2>2. CASE InitiateNext(r)
      BY <2>2, InitiateReadStep, InitiateAuthorizeStep, InitiateFindStep, InitiateCreateStep,
         PublishProposalStep, SetProposalStep DEF InitiateNext
    <2>3. CASE AcceptNext(r)
      BY <2>3, AuthorizeAcceptanceStep, AcceptRouteStep, StartAcceptanceStep, PublishSuccessorStep,
         SetSuccessorStep, PublishAcceptanceStep, SetAcceptanceStep, PublishSourceRedirectStep,
         SetSourceRedirectStep, CompleteStep, CompletePrivateStep DEF AcceptNext
    <2>4. CASE CancelNext(r)
      BY <2>4, CancelReadStep, DeleteProposalStep, CancelTransferStep DEF CancelNext
    <2>5. CASE Stop(r)
      BY <2>5, QuietReturn DEF Stop
    <2> QED BY <2>1, <2>2, <2>3, <2>4, <2>5 DEF RequestNext
  <1>2. CASE \E t \in Transfers : Expire(t)
    BY <1>2, EnvironmentStep DEF Expire, Inv, TypeOK
  <1>3. CASE \E o \in Owners : CreateOther(o)
    BY <1>3, EnvironmentStep DEF CreateOther, Inv, TypeOK
  <1>4. CASE UNCHANGED vars
    BY <1>4, EnvironmentStep DEF vars, pdsVars, Inv, TypeOK
  <1>5. CASE OwnerNext
    BY <1>5, OwnerStep
  <1> QED BY <1>1, <1>2, <1>3, <1>4, <1>5 DEF Next, EnvironmentNext

\* Inv holds in every reachable state.
LEMMA Invariance == Spec => []Inv
  BY InitInv, InvStep, PTL DEF Spec

-----------------------------------------------------------------------------
\* The theorems.

\* Every variable keeps its type, whatever requests interleave or stop.
THEOREM TypeCorrect == Spec => []TypeOK
  <1>1. Inv => TypeOK
    BY DEF Inv
  <1> QED BY <1>1, Invariance, PTL

\* A cancelled transfer never reached the network: Cancel and StartAcceptance
\* are statements over the same row, and everything that announces a transfer
\* (acceptance, successor, redirect) belongs to a transfer that is started.
THEOREM CancelIsSilent == Spec => []CancelledNeverAnnounced
  <1>1. Inv => CancelledNeverAnnounced
    <2> SUFFICES ASSUME Inv, NEW t \in Transfers, transfers[t].status = "cancelled", Announced(t)
                 PROVE  FALSE
      BY DEF CancelledNeverAnnounced
    <2>1. ~transfers[t].started /\ t # None
      BY NoneAssumption DEF Inv, RowInv
    <2> QED BY <2>1 DEF Announced, Inv, RecordInv, Begun
  <1> QED BY <1>1, Invariance, PTL

\* A settled row is never written again: every statement that updates a row
\* requires it to be pending, and only unused rows are created.
LEMMA SettledRowsKept ==
  ASSUME Inv, [Next]_vars, NEW t \in Transfers, transfers[t].status \in {"completed", "cancelled"}
  PROVE  transfers'[t] = transfers[t]
  <1> USE DEF Inv, TypeOK
  <1>1. CASE UNCHANGED transfers
    BY <1>1
  <1>2. ASSUME NEW r \in Requests, RequestNext(r) PROVE transfers'[t] = transfers[t]
    <2>1. CASE InitiateNext(r)
      <3>1. CASE InitiateCreate(r)
        BY <3>1 DEF InitiateCreate
      <3>2. CASE SetProposal(r)
        BY <3>2 DEF SetProposal
      <3> QED BY <1>1, <2>1, <3>1, <3>2
          DEF InitiateNext, InitiateRead, InitiateAuthorize, InitiateFind, PublishProposal, rowVars
    <2>2. CASE AcceptNext(r)
      <3>1. CASE StartAcceptance(r)
        BY <3>1 DEF StartAcceptance
      <3>2. CASE SetSuccessor(r)
        BY <3>2 DEF SetSuccessor
      <3>3. CASE SetAcceptance(r)
        BY <3>3 DEF SetAcceptance
      <3>4. CASE SetSourceRedirect(r)
        BY <3>4 DEF SetSourceRedirect
      <3>5. CASE Complete(r)
        BY <3>5 DEF Complete, HandOver
      <3>6. CASE CompletePrivate(r)
        BY <3>6 DEF CompletePrivate, HandOver
      <3> QED BY <1>1, <2>2, <3>1, <3>2, <3>3, <3>4, <3>5, <3>6
          DEF AcceptNext, AuthorizeAcceptance, AcceptRoute, PublishSuccessor, PublishAcceptance,
              PublishSourceRedirect, rowVars
    <2>3. CASE CancelNext(r)
      BY <2>3 DEF CancelNext, CancelRead, DeleteProposal, CancelTransfer, rowVars
    <2>4. CASE Stop(r)
      BY <2>4 DEF Stop, rowVars
    <2> QED BY <1>2, <2>1, <2>2, <2>3, <2>4 DEF RequestNext
  <1>3. CASE EnvironmentNext
    BY <1>3 DEF EnvironmentNext, Expire, CreateOther
  <1>4. CASE OwnerNext
    BY <1>4, OwnerStepShape
  <1> QED BY <1>1, <1>2, <1>3, <1>4 DEF Next, vars

\* Completed and cancelled rows are immutable, for every step of the service.
THEOREM HistoryIsImmutable == Spec => HistoryImmutable
  <1>1. Inv /\ [Next]_vars =>
          [\A t \in Transfers : transfers[t].status \in {"completed", "cancelled"}
                                  => transfers'[t] = transfers[t]]_vars
    BY SettledRowsKept
  <1> QED BY <1>1, Invariance, PTL DEF Spec, HistoryImmutable

\* Only the two completion statements move the repository, and each checks
\* that the row is pending and started; the request's actor was authorized
\* for the row's destination, which no later statement changes.
LEMMA OwnerChange ==
  ASSUME Inv, [Next]_vars, repo'.owner # repo.owner
  PROVE  \E t \in Transfers :
           /\ transfers[t].status = "pending" /\ transfers[t].started
           /\ transfers'[t].status = "completed"
           /\ repo'.owner = transfers[t].dest
           /\ transfers'[t].acceptedBy \in Admin[repo'.owner]
  <1>1. PICK r \in Requests : Complete(r) \/ CompletePrivate(r)
    BY OwnerStepShape DEF Inv, SameLineage, Next, RequestNext, InitiateNext, AcceptNext, CancelNext, EnvironmentNext, Stop, Expire,
           CreateOther, InitiateRead, InitiateAuthorize, InitiateFind, InitiateCreate, PublishProposal,
           SetProposal, AuthorizeAcceptance, AcceptRoute, StartAcceptance, PublishSuccessor,
           SetSuccessor, PublishAcceptance, SetAcceptance, PublishSourceRedirect, SetSourceRedirect,
           CancelRead, DeleteProposal, CancelTransfer, rowVars, vars
  <1> DEFINE t == local[r].id
  <1>2. pc[r] \in AcceptSteps
    BY <1>1 DEF Complete, CompletePrivate, AcceptSteps, PublishSteps
  <1>3. /\ t \in Transfers /\ transfers[t] \in Transfer /\ repo \in Repository
        /\ local[r].actor \in Admin[transfers[t].dest]
    BY <1>2 DEF Inv, TypeOK, RequestInv, RequestOK, AcceptInv
  <1>4. PICK new : /\ HandOver(r, t, new) /\ new.owner = transfers[t].dest
                   /\ transfers[t].status = "pending" /\ transfers[t].started
    BY <1>1, <1>3 DEF Complete, CompletePrivate, Repository
  <1>5. /\ transfers'[t].status = "completed" /\ transfers'[t].acceptedBy = local[r].actor
        /\ repo'.owner = transfers[t].dest
    BY <1>3, <1>4 DEF HandOver, Inv, TypeOK, Transfer
  <1> QED BY <1>3, <1>4, <1>5

\* The repository changes owner only through a started transfer that an
\* account acting for the new owner has accepted.
THEOREM OwnershipIsAccepted == Spec => AcceptedByDestination
  <1>1. Inv /\ [Next]_vars =>
          [repo'.owner # repo.owner =>
             \E t \in Transfers :
               /\ transfers[t].status = "pending" /\ transfers[t].started
               /\ transfers'[t].status = "completed"
               /\ repo'.owner = transfers[t].dest
               /\ transfers'[t].acceptedBy \in Admin[repo'.owner]]_vars
    BY OwnerChange
  <1> QED BY <1>1, Invariance, PTL DEF Spec, AcceptedByDestination

-----------------------------------------------------------------------------
\* The refinement: RepositoryTransfer implements OwnershipHandover.

\* The phases and destinations of the offers, as Handover sees them.
PhaseMap == [t \in Transfers |-> Phase(transfers[t])]
DestMap == [t \in Transfers |-> transfers[t].dest]

\* A statement that writes one row moves the phase of that offer alone.
LEMMA RowPhase ==
  ASSUME TypeOK, NEW t \in Transfers, NEW row, transfers' = [transfers EXCEPT ![t] = row]
  PROVE  /\ PhaseMap' = [PhaseMap EXCEPT ![t] = Phase(row)]
         /\ DestMap' = [DestMap EXCEPT ![t] = row.dest]
         /\ PhaseMap[t] = Phase(transfers[t]) /\ DestMap[t] = transfers[t].dest
  <1>1. \A u \in Transfers : transfers'[u] = IF u = t THEN row ELSE transfers[u]
    BY DEF TypeOK
  <1>2. PhaseMap' = [PhaseMap EXCEPT ![t] = Phase(row)]
    <2>1. \A u \in Transfers : PhaseMap'[u] = [PhaseMap EXCEPT ![t] = Phase(row)][u]
      BY <1>1 DEF PhaseMap, Phase
    <2> QED BY <2>1 DEF PhaseMap
  <1>3. DestMap' = [DestMap EXCEPT ![t] = row.dest]
    <2>1. \A u \in Transfers : DestMap'[u] = [DestMap EXCEPT ![t] = row.dest][u]
      BY <1>1 DEF DestMap
    <2> QED BY <2>1 DEF DestMap
  <1>4. PhaseMap[t] = Phase(transfers[t]) /\ DestMap[t] = transfers[t].dest
    BY DEF PhaseMap, DestMap
  <1> QED BY <1>2, <1>3, <1>4

\* A statement that keeps the offer where it is, and to whom it is made, is a stutter.
LEMMA RowStutter ==
  ASSUME TypeOK, NEW t \in Transfers, NEW row, transfers' = [transfers EXCEPT ![t] = row],
         Phase(row) = Phase(transfers[t]), row.dest = transfers[t].dest, UNCHANGED repo
  PROVE  UNCHANGED Handover!handoverVars
  <1>1. PhaseMap' = PhaseMap /\ DestMap' = DestMap
    BY RowPhase DEF PhaseMap, DestMap
  <1> QED BY <1>1 DEF Handover!handoverVars, PhaseMap, DestMap

\* So is one that writes neither a row nor the owner.
LEMMA QuietHandover ==
  ASSUME UNCHANGED transfers, repo'.owner = repo.owner
  PROVE  UNCHANGED Handover!handoverVars
  BY DEF Handover!handoverVars, Phase

\* Creating the only pending row is an offer.
LEMMA CreateOffers ==
  ASSUME Inv, NEW r \in Requests, InitiateCreate(r)
  PROVE  [Handover!Next]_(Handover!handoverVars)
  <1>1. CASE UNCHANGED transfers
    BY <1>1, QuietHandover DEF InitiateCreate
  <1>2. CASE ~UNCHANGED transfers
    <2>0. PICK row : row = [Absent EXCEPT !.status = "pending", !.source = local[r].repo.owner,
                              !.dest = local[r].dest, !.sourceRepository = local[r].repo.at,
                              !.initiatedBy = local[r].actor]
      OBVIOUS
    <2>1. PICK t \in Transfers : /\ transfers[t].status = "none" /\ Pending = {}
                                 /\ transfers' = [transfers EXCEPT ![t] = row]
      BY <1>2, <2>0 DEF InitiateCreate
    <2>2. PICK o \in Owners : o = local[r].dest
      BY DEF InitiateCreate, Inv, RequestInv, RequestOK, InitiateInv
    <2>3. Phase(row) = "open" /\ row.dest = o /\ Phase(transfers[t]) = "none"
      BY <2>0, <2>1, <2>2 DEF Phase, Absent
    <2>4. Handover!Underway = {}
      <3>1. \A u \in Transfers : Phase(transfers[u]) \notin {"open", "committed"}
        BY <2>1 DEF Pending, Phase, Inv, TypeOK, Transfer, Statuses
      <3> QED BY <3>1 DEF Handover!Underway
    <2>5. repo' = repo
      BY DEF InitiateCreate
    <2>6. /\ PhaseMap[t] = "none" /\ PhaseMap' = [PhaseMap EXCEPT ![t] = "open"]
          /\ DestMap' = [DestMap EXCEPT ![t] = o]
      <3>1. /\ PhaseMap' = [PhaseMap EXCEPT ![t] = Phase(row)]
            /\ DestMap' = [DestMap EXCEPT ![t] = row.dest]
            /\ PhaseMap[t] = Phase(transfers[t])
        BY <2>1, RowPhase DEF Inv
      <3> QED BY <2>3, <3>1
    <2>7. Handover!Offer(t, o)
      <3>1. repo.owner' = repo.owner
        BY <2>5
      <3> QED BY <2>4, <2>6, <3>1, Zenon DEF Handover!Offer, PhaseMap, DestMap
    <2> QED BY <2>7 DEF Handover!Next
  <1> QED BY <1>1, <1>2

\* The three statements that record identities leave a pending row in its phase.
LEMMA SetStatementsStutter ==
  ASSUME Inv, NEW r \in Requests,
         SetProposal(r) \/ SetSuccessor(r) \/ SetAcceptance(r) \/ SetSourceRedirect(r)
  PROVE  UNCHANGED Handover!handoverVars
  <1> DEFINE t == local[r].id
  <1>1. t \in Transfers
    BY DEF SetProposal, SetSuccessor, SetAcceptance, SetSourceRedirect, Inv, RequestInv, RequestOK,
           InitiateInv, AcceptInv, AcceptSteps, PublishSteps
  <1>2. transfers[t] \in Transfer /\ UNCHANGED repo
    BY <1>1 DEF SetProposal, SetSuccessor, SetAcceptance, SetSourceRedirect, Inv, TypeOK
  <1>3. \/ UNCHANGED transfers
        \/ \E row : /\ transfers' = [transfers EXCEPT ![t] = row]
                    /\ row.status = transfers[t].status /\ row.started = transfers[t].started
                    /\ row.dest = transfers[t].dest
    <2>1. CASE SetProposal(r)
      <3> DEFINE row == [transfers[t] EXCEPT !.proposal = TRUE]
      <3>1. row.status = transfers[t].status /\ row.started = transfers[t].started /\ row.dest = transfers[t].dest
        BY <1>2 DEF Transfer
      <3>2. UNCHANGED transfers \/ transfers' = [transfers EXCEPT ![t] = row]
        BY <2>1 DEF SetProposal
      <3> QED BY <3>1, <3>2
    <2>2. CASE SetSuccessor(r)
      <3> DEFINE row == [transfers[t] EXCEPT !.successor = SuccessorPublication(local[r].repo, t)]
      <3>1. row.status = transfers[t].status /\ row.started = transfers[t].started /\ row.dest = transfers[t].dest
        BY <1>2 DEF Transfer
      <3>2. UNCHANGED transfers \/ transfers' = [transfers EXCEPT ![t] = row]
        BY <2>2 DEF SetSuccessor
      <3> QED BY <3>1, <3>2
    <2>3. CASE SetAcceptance(r)
      <3> DEFINE row == [transfers[t] EXCEPT !.acceptance = local[r].row.successor]
      <3>1. row.status = transfers[t].status /\ row.started = transfers[t].started /\ row.dest = transfers[t].dest
        BY <1>2 DEF Transfer
      <3>2. UNCHANGED transfers \/ transfers' = [transfers EXCEPT ![t] = row]
        BY <2>3 DEF SetAcceptance
      <3> QED BY <3>1, <3>2
    <2>4. CASE SetSourceRedirect(r)
      <3> DEFINE row == [transfers[t] EXCEPT !.redirect = TRUE]
      <3>1. row.status = transfers[t].status /\ row.started = transfers[t].started /\ row.dest = transfers[t].dest
        BY <1>2 DEF Transfer
      <3>2. UNCHANGED transfers \/ transfers' = [transfers EXCEPT ![t] = row]
        BY <2>4 DEF SetSourceRedirect
      <3> QED BY <3>1, <3>2
    <2> QED BY <2>1, <2>2, <2>3, <2>4
  <1>4. CASE UNCHANGED transfers
    BY <1>2, <1>4, QuietHandover
  <1>5. ASSUME NEW row, transfers' = [transfers EXCEPT ![t] = row], row.status = transfers[t].status,
               row.started = transfers[t].started, row.dest = transfers[t].dest
        PROVE  UNCHANGED Handover!handoverVars
    <2>1. Phase(row) = Phase(transfers[t])
      BY <1>5 DEF Phase
    <2> QED BY <1>1, <1>2, <1>5, <2>1, RowStutter DEF Inv
  <1> QED BY <1>3, <1>4, <1>5

\* A pending row has its acceptance open; an accepted one is committed.
LEMMA PendingPhase ==
  ASSUME NEW row, row.status = "pending"
  PROVE  Phase(row) = IF row.started THEN "committed" ELSE "open"
  BY DEF Phase

\* A statement that writes one row and keeps its destination advances that offer.
LEMMA RowAdvance ==
  ASSUME TypeOK, NEW t \in Transfers, NEW row, transfers' = [transfers EXCEPT ![t] = row],
         row.dest = transfers[t].dest
  PROVE  /\ Handover!Advance(t, Phase(transfers[t]), Phase(row))
         /\ DestMap' = DestMap
  <1>1. /\ PhaseMap' = [PhaseMap EXCEPT ![t] = Phase(row)]
        /\ PhaseMap[t] = Phase(transfers[t])
        /\ DestMap' = [DestMap EXCEPT ![t] = row.dest]
    BY RowPhase
  <1>2. DestMap' = DestMap
    BY <1>1 DEF DestMap
  <1> QED BY <1>1, <1>2, Zenon DEF Handover!Advance, PhaseMap

\* The first statement of an acceptance commits to the offer; later ones keep it.
LEMMA StartCommits ==
  ASSUME Inv, NEW r \in Requests, StartAcceptance(r)
  PROVE  [Handover!Next]_(Handover!handoverVars)
  <1>1. CASE UNCHANGED transfers
    BY <1>1, QuietHandover DEF StartAcceptance
  <1>2. CASE ~UNCHANGED transfers
    <2>1. PICK t \in Transfers : t = local[r].id
      BY DEF StartAcceptance, Inv, RequestInv, RequestOK, AcceptInv, AcceptSteps
    <2>2. PICK row : row = [transfers[t] EXCEPT !.started = TRUE]
      OBVIOUS
    <2>3. /\ transfers' = [transfers EXCEPT ![t] = row] /\ transfers[t].status = "pending"
          /\ UNCHANGED repo /\ transfers[t] \in Transfer
      BY <1>2, <2>1, <2>2 DEF StartAcceptance, Inv, TypeOK
    <2>4. row.status = "pending" /\ row.started /\ row.dest = transfers[t].dest
      BY <2>2, <2>3 DEF Transfer
    <2>5. CASE transfers[t].started
      BY <2>3, <2>4, <2>5, PendingPhase, RowStutter DEF Inv
    <2>6. CASE ~transfers[t].started
      <3>1. Phase(transfers[t]) = "open" /\ Phase(row) = "committed"
        BY <2>3, <2>4, <2>6, PendingPhase
      <3>2. Handover!Advance(t, "open", "committed") /\ DestMap' = DestMap
        BY <2>3, <2>4, <3>1, RowAdvance DEF Inv
      <3>3. repo.owner' = repo.owner
        BY <2>3
      <3>4. Handover!Commit(t)
        BY <3>2, <3>3, Zenon DEF Handover!Commit, DestMap
      <3> QED BY <3>4 DEF Handover!Next
    <2> QED BY <2>5, <2>6
  <1> QED BY <1>1, <1>2

\* Cancelling a row that is not started withdraws its offer.
LEMMA CancelWithdraws ==
  ASSUME Inv, NEW r \in Requests, CancelTransfer(r)
  PROVE  [Handover!Next]_(Handover!handoverVars)
  <1>1. CASE UNCHANGED transfers
    BY <1>1, QuietHandover DEF CancelTransfer
  <1>2. CASE ~UNCHANGED transfers
    <2>1. PICK t \in Transfers : t = local[r].id
      BY DEF CancelTransfer, Inv, RequestInv, RequestOK, CancelInv, CancelSteps
    <2>2. PICK row : row = [transfers[t] EXCEPT !.status = "cancelled"]
      OBVIOUS
    <2>3. /\ transfers' = [transfers EXCEPT ![t] = row]
          /\ transfers[t].status = "pending" /\ ~transfers[t].started
          /\ UNCHANGED repo /\ transfers[t] \in Transfer
      BY <1>2, <2>1, <2>2 DEF CancelTransfer, Inv, TypeOK
    <2>4. row.status = "cancelled" /\ row.dest = transfers[t].dest
      BY <2>2, <2>3 DEF Transfer
    <2>5. Phase(transfers[t]) = "open" /\ Phase(row) = "withdrawn"
      BY <2>3, <2>4 DEF Phase
    <2>6. Handover!Advance(t, "open", "withdrawn") /\ DestMap' = DestMap
      BY <2>3, <2>4, <2>5, RowAdvance DEF Inv
    <2>7. repo.owner' = repo.owner
      BY <2>3
    <2>8. Handover!Withdraw(t)
      BY <2>6, <2>7, Zenon DEF Handover!Withdraw, DestMap
    <2> QED BY <2>8 DEF Handover!Next
  <1> QED BY <1>1, <1>2

\* Either completion statement hands the repository over to the destination.
LEMMA CompletionHandsOver ==
  ASSUME Inv, NEW r \in Requests, Complete(r) \/ CompletePrivate(r)
  PROVE  [Handover!Next]_(Handover!handoverVars)
  <1>1. CASE UNCHANGED <<repo, transfers>>
    BY <1>1, QuietHandover
  <1>2. CASE ~UNCHANGED <<repo, transfers>>
    <2>1. PICK t \in Transfers : t = local[r].id
      BY DEF Complete, CompletePrivate, Inv, RequestInv, RequestOK, AcceptInv, AcceptSteps, PublishSteps
    <2>2. PICK row : row = [transfers[t] EXCEPT !.status = "completed", !.acceptedBy = local[r].actor]
      OBVIOUS
    <2>3. transfers[t] \in Transfer /\ repo \in Repository
      BY DEF Inv, TypeOK
    <2>4. PICK new : /\ HandOver(r, t, new) /\ new.owner = transfers[t].dest
                     /\ transfers[t].status = "pending" /\ transfers[t].started
      BY <1>2, <2>1, <2>3 DEF Complete, CompletePrivate, Repository
    <2>5. transfers' = [transfers EXCEPT ![t] = row] /\ repo'.owner = transfers[t].dest
      BY <2>2, <2>4 DEF HandOver, Inv, TypeOK
    <2>6. row.status = "completed" /\ row.dest = transfers[t].dest
      BY <2>2, <2>3 DEF Transfer
    <2>7. Phase(transfers[t]) = "committed" /\ Phase(row) = "done"
      BY <2>4, <2>6 DEF Phase
    <2>8. Handover!Advance(t, "committed", "done") /\ DestMap' = DestMap
      BY <2>5, <2>6, <2>7, RowAdvance DEF Inv
    <2>9. repo.owner' = DestMap[t]
      BY <2>5 DEF DestMap
    <2>10. Handover!HandOver(t)
      BY <2>8, <2>9, Zenon DEF Handover!HandOver, DestMap
    <2> QED BY <2>10 DEF Handover!Next
  <1> QED BY <1>1, <1>2

\* Every step of the service is a step of the handover or a stutter.
LEMMA StepImplements ==
  ASSUME Inv, [Next]_vars
  PROVE  [Handover!Next]_(Handover!handoverVars)
  <1>1. ASSUME NEW r \in Requests, RequestNext(r) PROVE [Handover!Next]_(Handover!handoverVars)
    <2>1. CASE InitiateNext(r)
      <3>1. CASE InitiateCreate(r) \/ SetProposal(r)
        BY <3>1, CreateOffers, SetStatementsStutter
      <3>2. CASE ~(InitiateCreate(r) \/ SetProposal(r))
        <4>1. UNCHANGED transfers /\ UNCHANGED repo
          BY <2>1, <3>2
             DEF InitiateNext, InitiateRead, InitiateAuthorize, InitiateFind, PublishProposal, rowVars
        <4> QED BY <4>1, QuietHandover
      <3> QED BY <3>1, <3>2
    <2>2. CASE AcceptNext(r)
      <3>1. CASE StartAcceptance(r) \/ Complete(r) \/ CompletePrivate(r)
        BY <3>1, StartCommits, CompletionHandsOver
      <3>2. CASE SetSuccessor(r) \/ SetAcceptance(r) \/ SetSourceRedirect(r)
        BY <3>2, SetStatementsStutter
      <3>3. CASE \/ \E actor \in Accounts, t \in Transfers : AuthorizeAcceptance(r, actor, t)
                 \/ AcceptRoute(r) \/ PublishSuccessor(r) \/ PublishAcceptance(r) \/ PublishSourceRedirect(r)
        <4>1. UNCHANGED transfers /\ UNCHANGED repo
          BY <3>3 DEF AuthorizeAcceptance, AcceptRoute, PublishSuccessor, PublishAcceptance,
                      PublishSourceRedirect, rowVars
        <4> QED BY <4>1, QuietHandover
      <3> QED BY <2>2, <3>1, <3>2, <3>3 DEF AcceptNext
    <2>3. CASE CancelNext(r)
      <3>1. CASE CancelTransfer(r)
        BY <3>1, CancelWithdraws
      <3>2. CASE ~CancelTransfer(r)
        <4>1. UNCHANGED transfers /\ UNCHANGED repo
          BY <2>3, <3>2 DEF CancelNext, CancelRead, DeleteProposal, rowVars
        <4> QED BY <4>1, QuietHandover
      <3> QED BY <3>1, <3>2
    <2>4. CASE Stop(r)
      BY <2>4, QuietHandover DEF Stop, rowVars
    <2> QED BY <1>1, <2>1, <2>2, <2>3, <2>4 DEF RequestNext
  <1>2. CASE EnvironmentNext
    BY <1>2, QuietHandover DEF EnvironmentNext, Expire, CreateOther
  <1>3. CASE OwnerNext
    BY <1>3, OwnerStepShape, QuietHandover DEF Inv, SameLineage
  <1>4. CASE UNCHANGED vars
    BY <1>4, QuietHandover DEF vars
  <1> QED BY <1>1, <1>2, <1>3, <1>4 DEF Next

\* Ownership moves only along offers: the transfer service implements
\* OwnershipHandover, for any number of owners, transfers and requests.
THEOREM HandoverImplemented == Spec => ImplementsHandover
  <1>1. Init => Handover!Init
    BY DEF Init, Handover!Init, Phase, Absent
  <1>2. Inv /\ [Next]_vars => [Handover!Next]_(Handover!handoverVars)
    BY StepImplements
  <1> QED BY <1>1, <1>2, Invariance, PTL DEF Spec, ImplementsHandover, Handover!Spec

-----------------------------------------------------------------------------
\* Authorship follows ownership.

\* The stored identity is never newer than the settings.
IdentityAge == repo.at # None => repo.at.cid.ver <= repo.ver

\* A row that is published carries its owner's name and its own version.
LEMMA PublishAsIdentity ==
  ASSUME NEW new \in Repository, PublishAs(new)
  PROVE  AuthoredByOwner' /\ IdentityAge' /\ repo'.ver = new.ver
  <1>1. repo' = [new EXCEPT !.at = [author |-> Author[new.owner], cid |-> Publication(new)]]
    BY DEF PublishAs
  <1>2. /\ repo'.owner = new.owner /\ repo'.ver = new.ver
        /\ repo'.at = [author |-> Author[new.owner], cid |-> Publication(new)]
    BY <1>1 DEF Repository
  <1>3. Publication(new).ver = new.ver /\ new.ver \in Nat
    BY DEF Publication, Repository, Versions
  <1> QED BY <1>2, <1>3 DEF AuthoredByOwner, IdentityAge

\* Update, Delete and Restore publish in the owner's name and never set the
\* settings back.
LEMMA OwnerIdentity ==
  ASSUME TypeOK, OwnerNext
  PROVE  /\ repo.ver <= repo'.ver
         /\ AuthoredByOwner => AuthoredByOwner'
         /\ IdentityAge => IdentityAge'
  <1>1. repo \in Repository /\ repo.ver \in Nat
    BY DEF TypeOK, Repository, Versions
  <1>2. ASSUME NEW public \in BOOLEAN, UpdateRepository(public)
        PROVE  repo.ver <= repo'.ver /\ AuthoredByOwner' /\ IdentityAge'
    <2> DEFINE new == [repo EXCEPT !.public = public, !.ver = repo.ver + 1]
    <2>1. new \in Repository /\ new.ver = repo.ver + 1
      BY <1>1, <1>2, NextVersion DEF UpdateRepository, Repository
    <2>2. CASE PublishAs(new)
      <3> HIDE DEF new
      <3> QED BY <1>1, <2>1, <2>2, PublishAsIdentity
    <2>3. CASE repo' = [new EXCEPT !.at = None]
      <3>1. repo'.at = None /\ repo'.ver = repo.ver + 1
        BY <1>1, <2>3 DEF Repository
      <3> QED BY <1>1, <3>1 DEF AuthoredByOwner, IdentityAge
    <2> QED BY <1>2, <2>2, <2>3 DEF UpdateRepository
  <1>3. ASSUME DeleteRepository
        PROVE  repo'.ver = repo.ver /\ repo'.at = repo.at /\ repo'.owner = repo.owner
    BY <1>1, <1>3 DEF DeleteRepository, Repository
  <1>4. ASSUME RestoreRepository
        PROVE  /\ repo.ver <= repo'.ver
               /\ (AuthoredByOwner => AuthoredByOwner') /\ (IdentityAge => IdentityAge')
    <2> DEFINE new == [repo EXCEPT !.state = "active", !.ver = repo.ver + 1]
    <2>1. /\ new \in Repository /\ new.ver = repo.ver + 1 /\ new.at = repo.at /\ new.owner = repo.owner
      BY <1>1, <1>4, NextVersion DEF RestoreRepository, Repository
    <2>2. PublishAs(new) \/ repo' = new
      BY <1>4 DEF RestoreRepository
    <2> HIDE DEF new
    <2>3. CASE PublishAs(new)
      BY <1>1, <2>1, <2>3, PublishAsIdentity
    <2>4. CASE repo' = new
      <3>1. repo.at # None => repo.at.cid.ver \in Nat
        BY <1>1 DEF Repository, Identity, CID, Versions
      <3> QED BY <1>1, <2>1, <2>4, <3>1 DEF AuthoredByOwner, IdentityAge
    <2> QED BY <2>2, <2>3, <2>4
  <1> QED BY <1>1, <1>2, <1>3, <1>4 DEF OwnerNext, AuthoredByOwner, IdentityAge

\* A step that is neither the owner's nor a completion leaves the repository alone.
LEMMA RepositoryKept ==
  ASSUME [Next]_vars, ~OwnerNext, \A r \in Requests : ~Complete(r) /\ ~CompletePrivate(r)
  PROVE  repo' = repo
  BY DEF Next, RequestNext, InitiateNext, AcceptNext, CancelNext, EnvironmentNext, Stop, Expire,
         CreateOther, InitiateRead, InitiateAuthorize, InitiateFind, InitiateCreate, PublishProposal,
         SetProposal, AuthorizeAcceptance, AcceptRoute, StartAcceptance, PublishSuccessor,
         SetSuccessor, PublishAcceptance, SetAcceptance, PublishSourceRedirect, SetSourceRedirect,
         CancelRead, DeleteProposal, CancelTransfer, rowVars, vars

\* Only the private completion of a published repository separates its author
\* from its owner.
LEMMA AuthorStep ==
  ASSUME Inv, [Next]_vars, AuthoredByOwner, ~PublishedMeanwhile
  PROVE  AuthoredByOwner'
  <1> USE DEF Inv, TypeOK
  <1>1. CASE repo' = repo
    BY <1>1 DEF AuthoredByOwner
  <1>2. CASE OwnerNext
    BY <1>2, OwnerIdentity
  <1>3. ASSUME NEW r \in Requests, Complete(r) \/ CompletePrivate(r), repo' # repo
        PROVE  AuthoredByOwner'
    <2>1. pc[r] \in AcceptSteps
      BY <1>3 DEF Complete, CompletePrivate, AcceptSteps, PublishSteps
    <2>2. PICK t \in Transfers : t = local[r].id
      BY <2>1 DEF RequestInv, RequestOK, AcceptInv
    <2>3. transfers[t] \in Transfer /\ repo \in Repository
      OBVIOUS
    <2>4. CASE Complete(r)
      <3>1. repo' = [repo EXCEPT !.owner = transfers[t].dest, !.from = t,
                       !.at = [author |-> Author[transfers[t].dest], cid |-> transfers[t].successor]]
        BY <1>3, <2>2, <2>4 DEF Complete, HandOver
      <3>2. repo'.owner = transfers[t].dest /\ repo'.at.author = Author[transfers[t].dest]
        BY <2>3, <3>1 DEF Repository
      <3> QED BY <3>2 DEF AuthoredByOwner
    <2>5. CASE CompletePrivate(r)
      <3>1. /\ transfers[t].status = "pending" /\ transfers[t].sourceRepository = None
            /\ repo' = [repo EXCEPT !.owner = transfers[t].dest]
            /\ transfers' = [transfers EXCEPT ![t].status = "completed", ![t].acceptedBy = local[r].actor]
        BY <1>3, <2>2, <2>5 DEF CompletePrivate, HandOver
      <3>2. transfers'[t].status = "completed"
        BY <2>3, <3>1 DEF Transfer
      <3>3. repo.at = None
        BY <3>1, <3>2 DEF PublishedMeanwhile
      <3>4. repo'.at = None
        BY <2>3, <3>1, <3>3 DEF Repository
      <3> QED BY <3>4 DEF AuthoredByOwner
    <2> QED BY <1>3, <2>4, <2>5
  <1> QED BY <1>1, <1>2, <1>3, RepositoryKept

\* Portable authorship follows ownership through every chain of transfers,
\* retries, Updates, deletions and restorations, for any number of settings
\* versions: only CompletePrivate of a repository published meanwhile breaks it.
THEOREM AuthorIsOwner == Spec => IdentityFollowsOwner
  <1>1. Inv /\ [Next]_vars => [AuthoredByOwner /\ ~PublishedMeanwhile => AuthoredByOwner']_vars
    BY AuthorStep
  <1> QED BY <1>1, Invariance, PTL DEF Spec, IdentityFollowsOwner

-----------------------------------------------------------------------------
\* What an acceptance publishes lies between the offered record and now.

\* A publication of transfer t with settings of a version no older than those
\* of the source record, if there is one, and no newer than ver.
Spans(t, source, ver, cid) ==
  /\ cid \in LinklessCID /\ cid.by = t /\ cid.from = t
  /\ cid.ver <= ver
  /\ source # None => source.cid.ver <= cid.ver

\* A row is offered at a version that was in force, the successor and the
\* acceptance lie between that version and now, and it completes with both.
SpanRow(t) ==
  LET row == transfers[t] IN
  /\ row.sourceRepository # None => row.sourceRepository.cid.ver <= repo.ver
  /\ row.successor # None => Spans(t, row.sourceRepository, repo.ver, row.successor)
  /\ acceptances[t] # None => Spans(t, row.sourceRepository, repo.ver, acceptances[t])
  /\ row.acceptance # None => acceptances[t] # None
  /\ (row.status = "completed" /\ row.sourceRepository # None) =>
       row.successor # None /\ row.acceptance # None

\* What a request remembers of the repository and of its row is not newer than
\* the repository and, once it accepts, not older than the offered record; its
\* acceptance is published before it is stored.
SpanRequest(r) ==
  /\ pc[r] \in {"authorize", "find", "create"} =>
       (local[r].repo.at # None => local[r].repo.at.cid.ver <= repo.ver)
  /\ pc[r] \in AcceptSteps =>
       /\ local[r].row.sourceRepository = transfers[local[r].id].sourceRepository
       /\ local[r].row.successor # None =>
            Spans(local[r].id, local[r].row.sourceRepository, repo.ver, local[r].row.successor)
  /\ pc[r] \in AcceptSteps \ {"route"} =>
       /\ local[r].repo.ver <= repo.ver
       /\ local[r].row.sourceRepository # None =>
            local[r].row.sourceRepository.cid.ver <= local[r].repo.ver
  /\ pc[r] \in PublishSteps \ {"completePrivate"} => local[r].row.sourceRepository # None
  /\ pc[r] = "storeAcceptance" => acceptances[local[r].id] # None

SpanInv ==
  /\ IdentityAge
  /\ \A t \in Transfers : SpanRow(t)
  /\ \A r \in Requests : SpanRequest(r)

\* A version of a repository or of a record is a natural number.
LEMMA VersionTypes ==
  /\ \A value \in Repository : /\ value.ver \in Nat
                               /\ value.at # None => value.at.cid.ver \in Nat
  /\ \A row \in Transfer : row.sourceRepository # None => row.sourceRepository.cid.ver \in Nat
  /\ \A cid \in LinklessCID : cid.ver \in Nat
  <1>1. \A identity \in Identity : identity.cid.ver \in Nat
    BY DEF Identity, CID, Versions
  <1> QED BY <1>1 DEF Repository, Transfer, LinklessCID, Versions

LEMMA SpanInit ==
  ASSUME Init PROVE SpanInv
  <1>1. transfers = [t \in Transfers |-> Absent] /\ pc = [r \in Requests |-> "idle"]
        /\ acceptances = [t \in Transfers |-> None]
    BY DEF Init
  <1>2. \A t \in Transfers : SpanRow(t)
    BY <1>1 DEF SpanRow, Absent
  <1>3. \A r \in Requests : SpanRequest(r)
    BY <1>1 DEF SpanRequest, AcceptSteps, PublishSteps
  <1>4. IdentityAge
    <2>1. PICK o \in Owners, p \in BOOLEAN :
            LET cid == [ver |-> 0, by |-> None, from |-> None, to |-> None] IN
            repo = [state |-> "active", public |-> p, owner |-> o, from |-> None, ver |-> 0,
                    at |-> IF p THEN [author |-> Author[o], cid |-> cid] ELSE None]
      BY DEF Init
    <2>2. repo.ver = 0 /\ (repo.at # None => repo.at.cid.ver = 0)
      BY <2>1
    <2> QED BY <2>2 DEF IdentityAge
  <1> QED BY <1>2, <1>3, <1>4 DEF SpanInv

\* What every step leaves in place: versions grow, a row keeps the record it
\* was offered with, and an acceptance is replaced only by one within the span.
SpanKept ==
  /\ repo.ver \in Nat /\ repo'.ver \in Nat /\ repo.ver <= repo'.ver
  /\ IdentityAge'
  /\ \A t \in Transfers :
       /\ transfers[t].status # "none" => transfers'[t].sourceRepository = transfers[t].sourceRepository
       /\ \/ acceptances'[t] = acceptances[t]
          \/ /\ acceptances'[t] # None
             /\ Spans(t, transfers[t].sourceRepository, repo'.ver, acceptances'[t])

\* A publication stays within the span when versions grow.
LEMMA SpansKept ==
  ASSUME NEW t, NEW source, NEW cid, NEW old \in Nat, NEW new \in Nat, old <= new,
         Spans(t, source, old, cid)
  PROVE  Spans(t, source, new, cid)
  BY VersionTypes DEF Spans

\* A request that takes no step.
LEMMA SpanFrame ==
  ASSUME Inv, SpanInv, SpanKept, NEW q \in Requests, pc'[q] = pc[q], local'[q] = local[q]
  PROVE  SpanRequest(q)'
  <1>1. SpanRequest(q) /\ AcceptInv(q) /\ InitiateInv(q) /\ local[q] \in Local
    BY DEF SpanInv, Inv, TypeOK, RequestInv, RequestOK
  <1>2. CASE pc[q] \in AcceptSteps
    <2>1. /\ local[q].id \in Transfers /\ transfers[local[q].id].status # "none"
      BY <1>1, <1>2 DEF AcceptInv
    <2>2. pc[q] # "route" => local[q].repo.ver \in Nat
      BY <1>1, <1>2, VersionTypes DEF AcceptInv
    <2>3. transfers'[local[q].id].sourceRepository = transfers[local[q].id].sourceRepository
      BY <2>1 DEF SpanKept
    <2>4. local[q].row.successor # None =>
            Spans(local[q].id, local[q].row.sourceRepository, repo'.ver, local[q].row.successor)
      BY <1>1, <1>2, SpansKept DEF SpanRequest, SpanKept
    <2>5. pc[q] # "route" => local[q].repo.ver <= repo'.ver
      BY <1>1, <1>2, <2>2 DEF SpanRequest, SpanKept
    <2>6. pc[q] = "storeAcceptance" => acceptances'[local[q].id] # None
      BY <1>1, <2>1 DEF SpanRequest, SpanKept
    <2>7. pc[q] \notin {"authorize", "find", "create"}
      BY <1>2 DEF AcceptSteps, PublishSteps
    <2> QED BY <1>1, <1>2, <2>3, <2>4, <2>5, <2>6, <2>7 DEF SpanRequest
  <1>3. CASE pc[q] \in {"authorize", "find", "create"}
    <2>1. local[q].repo.at # None => local[q].repo.at.cid.ver \in Nat
      BY <1>1, <1>3, VersionTypes DEF InitiateInv
    <2> QED BY <1>1, <1>3, <2>1 DEF SpanRequest, SpanKept, AcceptSteps, PublishSteps
  <1>4. CASE pc[q] \notin AcceptSteps /\ pc[q] \notin {"authorize", "find", "create"}
    BY <1>4 DEF SpanRequest, AcceptSteps, PublishSteps
  <1> QED BY <1>2, <1>3, <1>4

\* Only a started transfer has an acceptance on the PDS.
LEMMA NoneOffered ==
  ASSUME Inv, NEW t \in Transfers, transfers[t].status = "none"
  PROVE  acceptances[t] = None
  BY DEF Inv, RowInv, RecordInv

\* A row that is not written.
LEMMA SpanRowFrame ==
  ASSUME Inv, SpanInv, SpanKept, NEW t \in Transfers, transfers'[t] = transfers[t]
  PROVE  SpanRow(t)'
  <1>1. SpanRow(t) /\ transfers[t] \in Transfer
    BY DEF SpanInv, Inv, TypeOK
  <1>2. transfers[t].sourceRepository # None => transfers[t].sourceRepository.cid.ver <= repo'.ver
    BY <1>1, VersionTypes DEF SpanRow, SpanKept
  <1>3. transfers[t].successor # None =>
          Spans(t, transfers[t].sourceRepository, repo'.ver, transfers[t].successor)
    BY <1>1, SpansKept DEF SpanRow, SpanKept
  <1>4. acceptances'[t] # None => Spans(t, transfers[t].sourceRepository, repo'.ver, acceptances'[t])
    BY <1>1, SpansKept DEF SpanRow, SpanKept
  <1>5. acceptances[t] # None => acceptances'[t] # None
    BY DEF SpanKept
  <1> QED BY <1>1, <1>2, <1>3, <1>4, <1>5 DEF SpanRow

\* The parts of a step, put together.
LEMMA SpanStep ==
  ASSUME Inv, SpanInv, SpanKept, NEW r \in Requests, SpanRequest(r)',
         \A q \in Requests \ {r} : pc'[q] = pc[q] /\ local'[q] = local[q],
         \A t \in Transfers : transfers'[t] = transfers[t] \/ SpanRow(t)'
  PROVE  SpanInv'
  <1>1. \A q \in Requests : SpanRequest(q)'
    BY SpanFrame
  <1>2. \A t \in Transfers : SpanRow(t)'
    BY SpanRowFrame
  <1> QED BY <1>1, <1>2 DEF SpanInv, SpanKept

\* A request that returned knows nothing.
LEMMA SpanIdle ==
  ASSUME Inv, NEW r \in Requests, Return(r)
  PROVE  SpanRequest(r)' /\ \A q \in Requests \ {r} : pc'[q] = pc[q] /\ local'[q] = local[q]
  <1>1. pc'[r] = "idle" /\ \A q \in Requests \ {r} : pc'[q] = pc[q] /\ local'[q] = local[q]
    BY DEF Return, Goto, Inv, TypeOK
  <1> QED BY <1>1 DEF SpanRequest, AcceptSteps, PublishSteps

\* A step that leaves the repository and the acceptances alone, and writes only
\* rows that keep the record they were offered with.
LEMMA SpanStill ==
  ASSUME Inv, SpanInv, UNCHANGED <<repo, acceptances>>,
         \A t \in Transfers : transfers[t].status # "none" =>
           transfers'[t].sourceRepository = transfers[t].sourceRepository
  PROVE  SpanKept
  <1>1. repo.ver \in Nat
    BY VersionTypes DEF Inv, TypeOK
  <1> QED BY <1>1 DEF SpanKept, SpanInv, IdentityAge

\* A step of a request that leaves the repository, the rows and the acceptances alone.
LEMMA SpanQuiet ==
  ASSUME Inv, SpanInv, NEW r \in Requests, SpanRequest(r)',
         \A q \in Requests \ {r} : pc'[q] = pc[q] /\ local'[q] = local[q],
         UNCHANGED <<repo, transfers, acceptances>>
  PROVE  SpanInv'
  BY SpanStill, SpanStep

\* What an acceptance publishes is within the span.
LEMMA SuccessorSpans ==
  ASSUME Inv, SpanInv, NEW r \in Requests, pc[r] \in PublishSteps \ {"completePrivate"}
  PROVE  Spans(local[r].id, local[r].row.sourceRepository, repo.ver,
               SuccessorPublication(local[r].repo, local[r].id))
  <1>1. pc[r] \in AcceptSteps \ {"route"}
    BY DEF AcceptSteps, PublishSteps
  <1>2. /\ local[r].repo \in Repository /\ local[r].id \in Transfers /\ SpanRequest(r)
    BY <1>1 DEF Inv, RequestInv, RequestOK, AcceptInv, SpanInv
  <1>3. SuccessorPublication(local[r].repo, local[r].id) \in LinklessCID
    BY <1>2, SuccessorType
  <1>4. local[r].repo.ver <= repo.ver /\
        (local[r].row.sourceRepository # None =>
           local[r].row.sourceRepository.cid.ver <= local[r].repo.ver)
    BY <1>1, <1>2 DEF SpanRequest
  <1> QED BY <1>3, <1>4 DEF Spans, SuccessorPublication

\* Initiate offers the record of the repository it read.
LEMMA SpanInitiate ==
  ASSUME Inv, SpanInv, NEW r \in Requests, InitiateNext(r)
  PROVE  SpanInv'
  <1> USE DEF Inv, TypeOK
  <1>1. ASSUME NEW actor \in Accounts, NEW dest \in Owners, InitiateRead(r, actor, dest)
        PROVE  SpanInv'
    <2>1. /\ pc'[r] = "authorize" /\ local'[r].repo = repo
          /\ \A q \in Requests \ {r} : pc'[q] = pc[q] /\ local'[q] = local[q]
      BY <1>1 DEF InitiateRead, Goto, Idle
    <2>2. UNCHANGED <<repo, transfers, acceptances>>
      BY <1>1 DEF InitiateRead, rowVars, pdsVars
    <2>3. SpanRequest(r)'
      BY <2>1, <2>2 DEF SpanRequest, SpanInv, IdentityAge, AcceptSteps, PublishSteps
    <2> QED BY <2>1, <2>2, <2>3, SpanQuiet
  <1>2. CASE InitiateAuthorize(r) \/ InitiateFind(r) \/ PublishProposal(r)
    <2>1. UNCHANGED <<repo, transfers, acceptances>>
      BY <1>2 DEF InitiateAuthorize, InitiateFind, PublishProposal, rowVars, pdsVars
    <2>2. CASE Return(r)
      BY <2>1, <2>2, SpanIdle, SpanQuiet
    <2>3. CASE ~Return(r)
      <3>1. /\ \A q \in Requests \ {r} : pc'[q] = pc[q] /\ local'[q] = local[q]
            /\ \/ pc[r] \in {"authorize", "find"} /\ pc'[r] \in {"find", "create"} /\ local'[r] = local[r]
               \/ pc'[r] \in {"propose", "storeProposal"}
        BY <1>2, <2>3 DEF InitiateAuthorize, InitiateFind, PublishProposal, Goto
      <3>2. SpanRequest(r)'
        BY <2>1, <3>1 DEF SpanRequest, SpanInv, AcceptSteps, PublishSteps
      <3> QED BY <2>1, <3>1, <3>2, SpanQuiet
    <2> QED BY <2>2, <2>3
  <1>3. CASE InitiateCreate(r)
    <2>0. UNCHANGED <<repo, acceptances>> /\ pc[r] = "create"
      BY <1>3 DEF InitiateCreate, pdsVars
    <2>1. CASE UNCHANGED transfers
      <3>1. CASE Return(r)
        BY <2>0, <2>1, <3>1, SpanIdle, SpanQuiet
      <3>2. CASE ~Return(r)
        <4>1. pc'[r] = "propose" /\ \A q \in Requests \ {r} : pc'[q] = pc[q] /\ local'[q] = local[q]
          BY <1>3, <3>2 DEF InitiateCreate, Goto
        <4>2. SpanRequest(r)'
          BY <4>1 DEF SpanRequest, AcceptSteps, PublishSteps
        <4> QED BY <2>0, <2>1, <4>1, <4>2, SpanQuiet
      <3> QED BY <3>1, <3>2
    <2>2. CASE ~UNCHANGED transfers
      <3>1. PICK t \in Transfers :
              LET row == [Absent EXCEPT !.status = "pending", !.source = local[r].repo.owner,
                            !.dest = local[r].dest, !.sourceRepository = local[r].repo.at,
                            !.initiatedBy = local[r].actor]
              IN /\ transfers[t].status = "none"
                 /\ transfers' = [transfers EXCEPT ![t] = row]
                 /\ IF NextInitiateStep(row) = "idle" THEN Return(r)
                    ELSE /\ local' = [local EXCEPT ![r].id = t, ![r].row = row]
                         /\ Goto(r, "propose")
        BY <1>3, <2>2 DEF InitiateCreate
      <3>2. PICK row : row = [Absent EXCEPT !.status = "pending", !.source = local[r].repo.owner,
                            !.dest = local[r].dest, !.sourceRepository = local[r].repo.at,
                            !.initiatedBy = local[r].actor]
        OBVIOUS
      <3>3. /\ row.status = "pending" /\ row.sourceRepository = local[r].repo.at
            /\ row.successor = None /\ row.acceptance = None
        BY <3>2 DEF Absent
      <3>4. transfers' = [transfers EXCEPT ![t] = row]
        BY <3>1, <3>2
      <3>5. SpanKept
        BY <2>0, <3>1, <3>4, SpanStill
      <3>6. /\ local[r].repo.at # None => local[r].repo.at.cid.ver <= repo.ver
            /\ acceptances[t] = None
        BY <2>0, <3>1, NoneOffered DEF SpanInv, SpanRequest
      <3>7. SpanRow(t)'
        BY <2>0, <3>3, <3>4, <3>6 DEF SpanRow
      <3>8. \A u \in Transfers : transfers'[u] = transfers[u] \/ SpanRow(u)'
        BY <3>4, <3>7
      <3>9. SpanRequest(r)' /\ \A q \in Requests \ {r} : pc'[q] = pc[q] /\ local'[q] = local[q]
        <4>1. CASE Return(r)
          BY <4>1, SpanIdle
        <4>2. CASE ~Return(r)
          <5>1. pc'[r] = "propose" /\ \A q \in Requests \ {r} : pc'[q] = pc[q] /\ local'[q] = local[q]
            BY <3>1, <4>2 DEF Goto
          <5> QED BY <5>1 DEF SpanRequest, AcceptSteps, PublishSteps
        <4> QED BY <4>1, <4>2
      <3> QED BY <2>0, <3>5, <3>8, <3>9, SpanStep
    <2> QED BY <2>1, <2>2
  <1>4. CASE SetProposal(r)
    <2>0. /\ UNCHANGED <<repo, acceptances>> /\ Return(r)
          /\ local[r].id \in Transfers
      BY <1>4 DEF SetProposal, pdsVars, RequestInv, RequestOK, InitiateInv
    <2>1. CASE UNCHANGED transfers
      BY <2>0, <2>1, SpanIdle, SpanQuiet
    <2>2. CASE ~UNCHANGED transfers
      <3>1. PICK t \in Transfers : t = local[r].id
        BY <2>0
      <3>2. PICK row : row = [transfers[t] EXCEPT !.proposal = TRUE]
        OBVIOUS
      <3>3. transfers[t] \in Transfer
        OBVIOUS
      <3>4. transfers' = [transfers EXCEPT ![t] = row]
        BY <1>4, <2>2, <3>1, <3>2 DEF SetProposal
      <3>5. /\ row.status = transfers[t].status /\ row.sourceRepository = transfers[t].sourceRepository
            /\ row.successor = transfers[t].successor /\ row.acceptance = transfers[t].acceptance
        BY <3>2, <3>3 DEF Transfer
      <3>6. SpanKept
        BY <2>0, <3>4, <3>5, SpanStill
      <3>7. SpanRow(t)'
        BY <2>0, <3>4, <3>5 DEF SpanInv, SpanRow
      <3> QED BY <2>0, <3>4, <3>6, <3>7, SpanIdle, SpanStep
    <2> QED BY <2>1, <2>2
  <1> QED BY <1>1, <1>2, <1>3, <1>4 DEF InitiateNext

\* Cancel writes a status only.
LEMMA SpanCancel ==
  ASSUME Inv, SpanInv, NEW r \in Requests, CancelNext(r)
  PROVE  SpanInv'
  <1> USE DEF Inv, TypeOK
  <1>1. ASSUME NEW actor \in Accounts, NEW t \in Transfers, CancelRead(r, actor, t)
        PROVE  SpanInv'
    <2>1. /\ pc'[r] \in CancelSteps
          /\ \A q \in Requests \ {r} : pc'[q] = pc[q] /\ local'[q] = local[q]
      BY <1>1 DEF CancelRead, Goto, CancelSteps
    <2>2. SpanRequest(r)' /\ UNCHANGED <<repo, transfers, acceptances>>
      BY <1>1, <2>1 DEF CancelRead, SpanRequest, CancelSteps, AcceptSteps, PublishSteps, rowVars, pdsVars
    <2> QED BY <2>1, <2>2, SpanQuiet
  <1>2. CASE DeleteProposal(r)
    <2>1. /\ pc'[r] = "cancel"
          /\ \A q \in Requests \ {r} : pc'[q] = pc[q] /\ local'[q] = local[q]
      BY <1>2 DEF DeleteProposal, Goto
    <2>2. SpanRequest(r)' /\ UNCHANGED <<repo, transfers, acceptances>>
      BY <1>2, <2>1 DEF DeleteProposal, SpanRequest, AcceptSteps, PublishSteps, rowVars
    <2> QED BY <2>1, <2>2, SpanQuiet
  <1>3. CASE CancelTransfer(r)
    <2>0. /\ UNCHANGED <<repo, acceptances>> /\ Return(r)
          /\ local[r].id \in Transfers
      BY <1>3 DEF CancelTransfer, pdsVars, RequestInv, RequestOK, CancelInv, CancelSteps
    <2>1. CASE UNCHANGED transfers
      BY <2>0, <2>1, SpanIdle, SpanQuiet
    <2>2. CASE ~UNCHANGED transfers
      <3>1. PICK t \in Transfers : t = local[r].id
        BY <2>0
      <3>2. PICK row : row = [transfers[t] EXCEPT !.status = "cancelled"]
        OBVIOUS
      <3>3. transfers[t] \in Transfer
        OBVIOUS
      <3>4. transfers' = [transfers EXCEPT ![t] = row] /\ transfers[t].status = "pending"
        BY <1>3, <2>2, <3>1, <3>2 DEF CancelTransfer
      <3>5. /\ row.status = "cancelled" /\ row.sourceRepository = transfers[t].sourceRepository
            /\ row.successor = transfers[t].successor /\ row.acceptance = transfers[t].acceptance
        BY <3>2, <3>3 DEF Transfer
      <3>6. SpanKept
        BY <2>0, <3>4, <3>5, SpanStill
      <3>7. SpanRow(t)'
        BY <2>0, <3>4, <3>5 DEF SpanInv, SpanRow
      <3> QED BY <2>0, <3>4, <3>6, <3>7, SpanIdle, SpanStep
    <2> QED BY <2>1, <2>2
  <1> QED BY <1>1, <1>2, <1>3 DEF CancelNext

\* Where an acceptance continues: never at a statement, and at a publication
\* only when the row is portable.
LEMMA AfterStartPortable ==
  ASSUME NEW row
  PROVE  /\ AfterStart(row) # "storeAcceptance" /\ AfterSuccessor(row) # "storeAcceptance"
         /\ AfterAcceptance(row) # "storeAcceptance"
         /\ AfterStart(row) \in PublishSteps \ {"completePrivate"} => row.sourceRepository # None
  BY DEF AfterStart, AfterSuccessor, AfterAcceptance, PublishSteps

\* The statement of an acceptance rewrites its row and the request carries on from it.
LEMMA SpanContinue ==
  ASSUME Inv, SpanInv, NEW r \in Requests, pc[r] \in AcceptSteps, NEW row, NEW step \in PublishSteps,
         ContinueWith(r, row, step), transfers' = [transfers EXCEPT ![local[r].id] = row],
         UNCHANGED <<repo, acceptances>>, row.status = "pending",
         row.sourceRepository = transfers[local[r].id].sourceRepository,
         row.successor # None =>
           Spans(local[r].id, row.sourceRepository, repo.ver, row.successor),
         row.acceptance # None => acceptances[local[r].id] # None,
         pc[r] # "route",
         step # "storeAcceptance", step # "completePrivate" => row.sourceRepository # None
  PROVE  SpanInv'
  <1> USE DEF Inv, TypeOK
  <1>1. PICK t \in Transfers : t = local[r].id /\ transfers[t].status # "none"
    BY DEF RequestInv, RequestOK, AcceptInv
  <1>2. /\ pc'[r] = step /\ local'[r].row = row /\ local'[r].id = t /\ local'[r].repo = local[r].repo
        /\ \A q \in Requests \ {r} : pc'[q] = pc[q] /\ local'[q] = local[q]
    BY <1>1 DEF ContinueWith, Goto, Local
  <1>3. transfers'[t] = row /\ \A u \in Transfers \ {t} : transfers'[u] = transfers[u]
    BY <1>1
  <1>4. SpanKept
    BY <1>1, <1>3, SpanStill
  <1>5. SpanRow(t)'
    <2>1. SpanRow(t)
      BY DEF SpanInv
    <2> QED BY <1>1, <1>3, <2>1 DEF SpanRow
  <1>6. SpanRequest(r)'
    <2>1. SpanRequest(r) /\ pc[r] \in AcceptSteps \ {"route"}
      BY DEF SpanInv
    <2>2. /\ local[r].repo.ver <= repo.ver
          /\ row.sourceRepository # None => row.sourceRepository.cid.ver <= local[r].repo.ver
      BY <1>1, <2>1 DEF SpanRequest
    <2> QED BY <1>1, <1>2, <1>3, <2>2 DEF SpanRequest, PublishSteps
  <1> QED BY <1>2, <1>3, <1>4, <1>5, <1>6, SpanStep

\* The reads of an acceptance.
LEMMA SpanAuthorize ==
  ASSUME Inv, SpanInv, NEW r \in Requests, NEW actor \in Accounts, NEW t \in Transfers,
         AuthorizeAcceptance(r, actor, t)
  PROVE  SpanInv'
  <1>1. /\ pc'[r] = "route" /\ local'[r].row = transfers[t] /\ local'[r].id = t
        /\ \A q \in Requests \ {r} : pc'[q] = pc[q] /\ local'[q] = local[q]
    BY DEF AuthorizeAcceptance, Goto, Idle, Inv, TypeOK
  <1>2. UNCHANGED <<repo, transfers, acceptances>>
    BY DEF AuthorizeAcceptance, rowVars, pdsVars
  <1>3. transfers[t].successor # None =>
          Spans(t, transfers[t].sourceRepository, repo.ver, transfers[t].successor)
    BY DEF SpanInv, SpanRow
  <1>4. SpanRequest(r)'
    BY <1>1, <1>2, <1>3 DEF SpanRequest, PublishSteps
  <1> QED BY <1>1, <1>2, <1>4, SpanQuiet

LEMMA SpanRoute ==
  ASSUME Inv, SpanInv, NEW r \in Requests, AcceptRoute(r)
  PROVE  SpanInv'
  <1>0. UNCHANGED <<repo, transfers, acceptances>> /\ pc[r] = "route"
    BY DEF AcceptRoute, rowVars, pdsVars
  <1>1. CASE Return(r)
    BY <1>0, <1>1, SpanIdle, SpanQuiet
  <1>2. CASE ~Return(r)
    <2>1. /\ pc'[r] = "start" /\ local'[r].row = local[r].row /\ local'[r].id = local[r].id
          /\ local'[r].repo = repo
          /\ \A q \in Requests \ {r} : pc'[q] = pc[q] /\ local'[q] = local[q]
      BY <1>2 DEF AcceptRoute, Goto, Local, Inv, TypeOK
    <2>2. SpanRequest(r) /\ pc[r] \in AcceptSteps /\ local[r].id \in Transfers
      BY <1>0 DEF SpanInv, AcceptSteps, Inv, RequestInv, RequestOK, AcceptInv
    <2>3. /\ repo.ver <= repo.ver
          /\ transfers[local[r].id].sourceRepository # None =>
               transfers[local[r].id].sourceRepository.cid.ver <= repo.ver
      BY <2>2, VersionTypes DEF SpanInv, SpanRow, Inv, TypeOK
    <2>4. SpanRequest(r)'
      BY <1>0, <2>1, <2>2, <2>3 DEF SpanRequest, PublishSteps
    <2> QED BY <1>0, <2>1, <2>4, SpanQuiet
  <1> QED BY <1>1, <1>2

\* The publications of an acceptance.
LEMMA SpanPublish ==
  ASSUME Inv, SpanInv, NEW r \in Requests,
         PublishSuccessor(r) \/ PublishAcceptance(r) \/ PublishSourceRedirect(r)
  PROVE  SpanInv'
  <1> USE DEF Inv, TypeOK
  <1>1. /\ UNCHANGED <<repo, transfers, local>>
        /\ pc[r] \in {"successor", "acceptance", "redirect"}
        /\ pc'[r] \in {"storeSuccessor", "storeAcceptance", "storeRedirect"}
        /\ pc'[r] = "storeAcceptance" => PublishAcceptance(r)
        /\ \A q \in Requests \ {r} : pc'[q] = pc[q] /\ local'[q] = local[q]
    BY DEF PublishSuccessor, PublishAcceptance, PublishSourceRedirect, Goto, rowVars
  <1>2. pc[r] \in AcceptSteps /\ pc[r] \in PublishSteps \ {"completePrivate"}
    BY <1>1 DEF AcceptSteps, PublishSteps
  <1>3. SpanRequest(r) /\ AcceptInv(r) /\ local[r].id \in Transfers
    BY <1>2 DEF SpanInv, RequestInv, RequestOK, AcceptInv
  <1>4. CASE UNCHANGED acceptances /\ ~PublishAcceptance(r)
    <2>1. SpanRequest(r)'
      BY <1>1, <1>2, <1>3, <1>4 DEF SpanRequest, AcceptSteps, PublishSteps
    <2> QED BY <1>1, <1>4, <2>1, SpanQuiet
  <1>5. CASE PublishAcceptance(r)
    <2>1. /\ local[r].row.successor # None
          /\ Spans(local[r].id, transfers[local[r].id].sourceRepository, repo.ver, local[r].row.successor)
      <3>1. HasSuccessor(local[r].row, local[r].id)
        BY <1>2, <1>3, <1>5 DEF AcceptInv, LateSteps, PublishSteps, PublishAcceptance
      <3>2. local[r].row.successor # None
        BY <3>1, NoneAssumption DEF HasSuccessor
      <3> QED BY <1>2, <1>3, <3>2 DEF SpanRequest
    <2>2. acceptances' = [acceptances EXCEPT ![local[r].id] = local[r].row.successor]
      BY <1>5 DEF PublishAcceptance
    <2>3. SpanKept
      <3>1. repo.ver \in Nat
        BY VersionTypes
      <3> QED BY <1>1, <1>3, <2>1, <2>2, <3>1 DEF SpanKept, SpanInv, IdentityAge
    <2>4. SpanRequest(r)'
      BY <1>1, <1>2, <1>3, <2>1, <2>2 DEF SpanRequest
    <2> QED BY <1>1, <2>3, <2>4, SpanStep
  <1> QED BY <1>4, <1>5 DEF PublishSuccessor, PublishSourceRedirect, PublishAcceptance

\* The statements of an acceptance.
LEMMA SpanStart ==
  ASSUME Inv, SpanInv, NEW r \in Requests, StartAcceptance(r)
  PROVE  SpanInv'
  <1> USE DEF Inv, TypeOK
  <1>0. UNCHANGED <<repo, acceptances>> /\ pc[r] = "start" /\ pc[r] \in AcceptSteps
    BY DEF StartAcceptance, pdsVars, AcceptSteps
  <1>1. SpanRequest(r) /\ AcceptInv(r) /\ local[r].id \in Transfers /\ local[r].row \in Transfer
    BY <1>0 DEF SpanInv, RequestInv, RequestOK, AcceptInv
  <1>2. PICK t \in Transfers : t = local[r].id
    BY <1>1
  <1>3. PICK begun : begun = [transfers[t] EXCEPT !.started = TRUE]
    OBVIOUS
  <1>a. transfers[t] \in Transfer
    OBVIOUS
  <1>b. begun \in Transfer
    BY <1>3, <1>a DEF Transfer
  <1>4. /\ begun.status = transfers[t].status /\ begun.sourceRepository = transfers[t].sourceRepository
        /\ begun.successor = transfers[t].successor /\ begun.acceptance = transfers[t].acceptance
    BY <1>3, <1>a DEF Transfer
  <1>5. SpanRow(t)
    BY DEF SpanInv
  <1>6. CASE Return(r) /\ UNCHANGED transfers
    BY <1>0, <1>6, SpanIdle, SpanQuiet
  <1>7. CASE /\ AfterStart(local[r].row) # "idle" /\ Goto(r, AfterStart(local[r].row))
             /\ UNCHANGED <<local, transfers>>
    <2>1. PICK step \in PublishSteps : step = AfterStart(local[r].row)
      BY <1>1, <1>7, AfterStartType
    <2>2. pc'[r] = step /\ local'[r] = local[r] /\ \A q \in Requests \ {r} : pc'[q] = pc[q] /\ local'[q] = local[q]
      BY <1>7, <2>1 DEF Goto
    <2>3. step # "storeAcceptance" /\ (step # "completePrivate" => local[r].row.sourceRepository # None)
      BY <2>1, AfterStartPortable
    <2>4. SpanRequest(r)'
      BY <1>0, <1>1, <1>7, <2>2, <2>3 DEF SpanRequest, PublishSteps
    <2> QED BY <1>0, <1>7, <2>2, <2>4, SpanQuiet
  <1>8. CASE /\ transfers[t].status = "pending" /\ transfers' = [transfers EXCEPT ![t] = begun]
             /\ IF AfterStart(begun) = "idle" THEN Return(r) ELSE ContinueWith(r, begun, AfterStart(begun))
    <2>1. CASE Return(r)
      <3>1. SpanKept
        BY <1>0, <1>4, <1>8, SpanStill
      <3>2. SpanRow(t)'
        BY <1>0, <1>4, <1>5, <1>8 DEF SpanRow
      <3> QED BY <1>0, <1>8, <2>1, <3>1, <3>2, SpanIdle, SpanStep
    <2>2. CASE ~Return(r)
      <3>1. PICK step \in PublishSteps : step = AfterStart(begun)
        BY <1>b, <1>8, <2>2, AfterStartType
      <3>2. step # "storeAcceptance" /\ (step # "completePrivate" => begun.sourceRepository # None)
        BY <3>1, AfterStartPortable
      <3>3. /\ begun.successor # None => Spans(t, begun.sourceRepository, repo.ver, begun.successor)
            /\ begun.acceptance # None => acceptances[t] # None
        BY <1>4, <1>5 DEF SpanRow
      <3>4. ContinueWith(r, begun, step)
        BY <1>8, <2>2, <3>1
      <3> QED BY <1>0, <1>2, <1>4, <1>8, <3>2, <3>3, <3>4, SpanContinue
    <2> QED BY <2>1, <2>2
  <1> QED BY <1>2, <1>3, <1>6, <1>7, <1>8 DEF StartAcceptance

LEMMA SpanSet ==
  ASSUME Inv, SpanInv, NEW r \in Requests,
         SetSuccessor(r) \/ SetAcceptance(r) \/ SetSourceRedirect(r)
  PROVE  SpanInv'
  <1> USE DEF Inv, TypeOK
  <1>0. /\ UNCHANGED <<repo, acceptances>> /\ pc[r] \in {"storeSuccessor", "storeAcceptance", "storeRedirect"}
        /\ pc[r] \in AcceptSteps /\ pc[r] \in PublishSteps \ {"completePrivate"}
    BY DEF SetSuccessor, SetAcceptance, SetSourceRedirect, pdsVars, AcceptSteps, PublishSteps
  <1>1. SpanRequest(r) /\ AcceptInv(r) /\ local[r].id \in Transfers /\ local[r].repo \in Repository
    BY <1>0 DEF SpanInv, RequestInv, RequestOK, AcceptInv
  <1>2. PICK t \in Transfers : t = local[r].id
    BY <1>1
  <1>3. CASE Return(r) /\ UNCHANGED transfers
    BY <1>0, <1>3, SpanIdle, SpanQuiet
  <1>4. CASE ~(Return(r) /\ UNCHANGED transfers)
    <2>0. transfers[t].status = "pending" /\ transfers[t] \in Transfer /\ SpanRow(t)
          /\ transfers[t].sourceRepository # None
          /\ local[r].row.sourceRepository = transfers[t].sourceRepository
      BY <1>0, <1>1, <1>2, <1>4 DEF SetSuccessor, SetAcceptance, SetSourceRedirect, SpanInv, SpanRequest
    <2>1. CASE SetSuccessor(r)
      <3>0. PICK cid \in LinklessCID : /\ cid = SuccessorPublication(local[r].repo, t)
                                       /\ Spans(t, transfers[t].sourceRepository, repo.ver, cid)
        BY <1>0, <1>1, <1>2, <2>0, SuccessorSpans, SuccessorType
      <3>1. PICK row : row = [transfers[t] EXCEPT !.successor = cid]
        OBVIOUS
      <3>2. /\ row.status = "pending" /\ row.sourceRepository = transfers[t].sourceRepository
            /\ row.successor = cid /\ row.acceptance = transfers[t].acceptance
        BY <2>0, <3>1 DEF Transfer
      <3>3. transfers' = [transfers EXCEPT ![t] = row] /\ ContinueWith(r, row, AfterSuccessor(row))
        BY <1>2, <1>4, <2>0, <2>1, <3>0, <3>1 DEF SetSuccessor
      <3>4. PICK step \in PublishSteps : step = AfterSuccessor(row) /\ step # "storeAcceptance"
        BY AfterSuccessorType, AfterStartPortable DEF LateSteps
      <3> QED BY <1>0, <1>2, <2>0, <3>0, <3>2, <3>3, <3>4, SpanContinue DEF SpanRow
    <2>2. CASE SetAcceptance(r)
      <3>0. pc[r] = "storeAcceptance" /\ acceptances[t] # None
        BY <1>1, <1>2, <2>2 DEF SetAcceptance, SpanRequest
      <3>1. PICK row : row = [transfers[t] EXCEPT !.acceptance = local[r].row.successor]
        OBVIOUS
      <3>2. /\ row.status = "pending" /\ row.sourceRepository = transfers[t].sourceRepository
            /\ row.successor = transfers[t].successor
        BY <2>0, <3>1 DEF Transfer
      <3>3. transfers' = [transfers EXCEPT ![t] = row] /\ ContinueWith(r, row, AfterAcceptance(row))
        BY <1>2, <1>4, <2>0, <2>2, <3>1 DEF SetAcceptance
      <3>4. PICK step \in PublishSteps : step = AfterAcceptance(row) /\ step # "storeAcceptance"
        BY AfterSuccessorType, AfterStartPortable DEF LateSteps
      <3> QED BY <1>0, <1>2, <2>0, <3>0, <3>2, <3>3, <3>4, SpanContinue DEF SpanRow
    <2>3. CASE SetSourceRedirect(r)
      <3>1. PICK row : row = [transfers[t] EXCEPT !.redirect = TRUE]
        OBVIOUS
      <3>2. /\ row.status = "pending" /\ row.sourceRepository = transfers[t].sourceRepository
            /\ row.successor = transfers[t].successor /\ row.acceptance = transfers[t].acceptance
        BY <2>0, <3>1 DEF Transfer
      <3>3. transfers' = [transfers EXCEPT ![t] = row] /\ ContinueWith(r, row, "complete")
        BY <1>2, <1>4, <2>0, <2>3, <3>1 DEF SetSourceRedirect
      <3>4. "complete" \in PublishSteps
        BY DEF PublishSteps
      <3> QED BY <1>0, <1>2, <2>0, <3>2, <3>3, <3>4, SpanContinue DEF SpanRow
    <2> QED BY <2>1, <2>2, <2>3
  <1> QED BY <1>3, <1>4

\* Completing: only a row with both identities completes the portable way, and
\* the private way takes rows without a source record.
LEMMA SpanComplete ==
  ASSUME Inv, SpanInv, NEW r \in Requests, Complete(r) \/ CompletePrivate(r)
  PROVE  SpanInv'
  <1> USE DEF Inv, TypeOK
  <1>0. /\ UNCHANGED acceptances /\ Return(r) /\ pc[r] \in {"complete", "completePrivate"}
        /\ pc[r] \in AcceptSteps
    BY DEF Complete, CompletePrivate, pdsVars, AcceptSteps, PublishSteps
  <1>1. SpanRequest(r) /\ local[r].id \in Transfers
    BY <1>0 DEF SpanInv, RequestInv, RequestOK, AcceptInv
  <1>2. CASE UNCHANGED <<repo, transfers>>
    BY <1>0, <1>2, SpanIdle, SpanQuiet
  <1>3. CASE ~UNCHANGED <<repo, transfers>>
    <2>1. PICK t \in Transfers : t = local[r].id
      BY <1>1
    <2>2. PICK row : row = [transfers[t] EXCEPT !.status = "completed", !.acceptedBy = local[r].actor]
      OBVIOUS
    <2>3. transfers[t] \in Transfer /\ repo \in Repository /\ SpanRow(t)
      BY DEF SpanInv
    <2>4. /\ row.status = "completed" /\ row.sourceRepository = transfers[t].sourceRepository
          /\ row.successor = transfers[t].successor /\ row.acceptance = transfers[t].acceptance
      BY <2>2, <2>3 DEF Transfer
    <2>5. transfers[t].status = "pending" /\ transfers' = [transfers EXCEPT ![t] = row]
      BY <1>3, <2>1, <2>2 DEF Complete, CompletePrivate, HandOver
    <2>6. /\ repo'.ver = repo.ver
          /\ \/ /\ repo'.at.cid = transfers[t].successor
                /\ transfers[t].successor # None /\ transfers[t].acceptance # None
             \/ repo'.at = repo.at /\ transfers[t].sourceRepository = None
      <3>1. CASE Complete(r)
        <4>1. /\ repo' = [repo EXCEPT !.owner = transfers[t].dest, !.from = t,
                            !.at = [author |-> Author[transfers[t].dest], cid |-> transfers[t].successor]]
              /\ transfers[t].successor # None /\ transfers[t].acceptance # None
          BY <1>3, <2>1, <3>1 DEF Complete, HandOver
        <4> QED BY <2>3, <4>1 DEF Repository
      <3>2. CASE CompletePrivate(r)
        <4>1. repo' = [repo EXCEPT !.owner = transfers[t].dest] /\ transfers[t].sourceRepository = None
          BY <1>3, <2>1, <3>2 DEF CompletePrivate, HandOver
        <4> QED BY <2>3, <4>1 DEF Repository
      <3> QED BY <3>1, <3>2
    <2>7. IdentityAge'
      BY <2>3, <2>6 DEF IdentityAge, SpanInv, SpanRow, Spans
    <2>8. SpanKept
      <3>1. repo.ver \in Nat
        BY VersionTypes
      <3>2. \A u \in Transfers : transfers'[u].sourceRepository = transfers[u].sourceRepository
        BY <2>4, <2>5
      <3> QED BY <1>0, <2>6, <2>7, <3>1, <3>2 DEF SpanKept
    <2>9. SpanRow(t)'
      BY <1>0, <2>3, <2>4, <2>5, <2>6 DEF SpanRow
    <2>10. \A u \in Transfers : transfers'[u] = transfers[u] \/ SpanRow(u)'
      BY <2>5, <2>9
    <2>11. SpanRequest(r)' /\ \A q \in Requests \ {r} : pc'[q] = pc[q] /\ local'[q] = local[q]
      BY <1>0, SpanIdle
    <2> QED BY <2>8, <2>10, <2>11, SpanStep
  <1> QED BY <1>2, <1>3

\* Every step preserves the span.
LEMMA SpanNext ==
  ASSUME Inv, SpanInv, [Next]_vars
  PROVE  SpanInv'
  <1>1. ASSUME NEW r \in Requests, RequestNext(r) PROVE SpanInv'
    <2>1. CASE InitiateNext(r)
      BY <2>1, SpanInitiate
    <2>2. CASE CancelNext(r)
      BY <2>2, SpanCancel
    <2>3. CASE AcceptNext(r)
      BY <2>3, SpanAuthorize, SpanRoute, SpanStart, SpanPublish, SpanSet, SpanComplete DEF AcceptNext
    <2>4. CASE Stop(r)
      BY <2>4, SpanIdle, SpanQuiet DEF Stop, rowVars, pdsVars
    <2> QED BY <1>1, <2>1, <2>2, <2>3, <2>4 DEF RequestNext
  <1>2. ASSUME SpanKept, UNCHANGED <<transfers, pc, local>> PROVE SpanInv'
    BY <1>2, SpanFrame, SpanRowFrame DEF SpanInv, SpanKept
  <1>3. CASE OwnerNext
    <2>1. repo' \in Repository /\ UNCHANGED <<transfers, acceptances, pc, local>>
      BY <1>3, OwnerStepShape DEF Inv, SameLineage
    <2>2. repo.ver \in Nat /\ repo'.ver \in Nat
      BY <2>1, VersionTypes DEF Inv, TypeOK
    <2>3. repo.ver <= repo'.ver /\ IdentityAge'
      BY <1>3, OwnerIdentity DEF Inv, SpanInv
    <2> QED BY <1>2, <2>1, <2>2, <2>3 DEF SpanKept
  <1>4. CASE EnvironmentNext \/ UNCHANGED vars
    <2>1. UNCHANGED <<repo, transfers, acceptances, pc, local>>
      BY <1>4 DEF EnvironmentNext, Expire, CreateOther, vars, pdsVars
    <2> QED BY <1>2, <2>1, SpanStill
  <1> QED BY <1>1, <1>3, <1>4 DEF Next

LEMMA SpanInvariance == Spec => []SpanInv
  <1>1. Init => SpanInv
    BY SpanInit
  <1>2. Inv /\ SpanInv /\ [Next]_vars => SpanInv'
    BY SpanNext
  <1> QED BY <1>1, <1>2, Invariance, PTL DEF Spec

\* The acceptance and the stored successor of a completed transfer are both its
\* own, of versions between the offered record and now, and agree unless the
\* settings changed since the offer: for any number of Updates and attempts.
THEOREM AcceptanceMatches == Spec => []AcceptanceNamesSuccessor
  <1>1. Inv /\ SpanInv => AcceptanceNamesSuccessor
    <2> SUFFICES ASSUME Inv, SpanInv, NEW t \in Transfers,
                        transfers[t].status = "completed", transfers[t].sourceRepository # None
                 PROVE  /\ \A cid \in {acceptances[t], transfers[t].successor} :
                             /\ cid # None /\ cid.from = t
                             /\ cid.ver \in transfers[t].sourceRepository.cid.ver..repo.ver
                        /\ transfers[t].sourceRepository.cid.ver = repo.ver =>
                             acceptances[t] = transfers[t].successor
      BY DEF AcceptanceNamesSuccessor
    <2>1. /\ acceptances[t] # None /\ transfers[t].successor # None
          /\ Spans(t, transfers[t].sourceRepository, repo.ver, acceptances[t])
          /\ Spans(t, transfers[t].sourceRepository, repo.ver, transfers[t].successor)
      BY DEF SpanInv, SpanRow
    <2>2. repo.ver \in Nat /\ transfers[t].sourceRepository.cid.ver \in Nat
      BY VersionTypes DEF Inv, TypeOK
    <2>3. ASSUME NEW cid, Spans(t, transfers[t].sourceRepository, repo.ver, cid)
          PROVE  /\ cid.from = t /\ cid.ver \in transfers[t].sourceRepository.cid.ver..repo.ver
                 /\ transfers[t].sourceRepository.cid.ver = repo.ver =>
                      cid = [ver |-> repo.ver, by |-> t, from |-> t, to |-> None]
      BY <2>2, <2>3, VersionTypes DEF Spans, LinklessCID
    <2> QED BY <2>1, <2>3
  <1> QED BY <1>1, Invariance, SpanInvariance, PTL
=============================================================================
