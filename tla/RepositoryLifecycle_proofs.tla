----------------------- MODULE RepositoryLifecycle_proofs -----------------------
(* Proofs about RepositoryLifecycle, for any number of requests and purge      *)
(* workers, any branches and any bounds on faults, crashes and the clock.      *)
EXTENDS RepositoryLifecycle, FiniteSetTheorems, TLAPS

-----------------------------------------------------------------------------
\* The invariants.

\* A repository is created by one request, and stays "creating" meanwhile.
CreationInv ==
  /\ \A r \in Requests : pc[r] \in CreateSteps => row.state = "creating"
  /\ \A r, q \in Requests : pc[r] \in CreateSteps /\ pc[q] \in CreateSteps => r = q

Inv == TypeOK /\ RowFollowsDeletion /\ CreationInv

\* Requests came one at a time, and only the database ever failed.
Undisturbed == serial /\ crashes = 0 /\ faults["git"] = 0 /\ faults["pds"] = 0

\* Nobody works while somebody else does.
OneAtATime ==
  /\ \A r \in Requests : pc[r] # "idle" =>
       (\A q \in Requests : pc[q] # "idle" => q = r) /\ (\A w \in Workers : worker[w] = "list")
  /\ \A w \in Workers : worker[w] # "list" => Quiet /\ (\A v \in Workers : worker[v] # "list" => v = w)

\* The stores of an active, a deleting and a new repository between requests.
RowOK == row.public <=> row.at # None
Live == location = "live" /\ head = row.branch /\ RowOK
Published == row.public <=> record # None
Gone == location \in {"quarantine", "gone"} /\ head = row.branch /\ RowOK /\ record = None

Stable ==
  /\ row.state = "none" => record = None
  /\ row.state = "active" => Live /\ Published
  /\ row.state = "deleting" => Gone

\* What an update has done by step: HEAD is the branch asked for.
Moved(l) == location = "live" /\ head = l.input.branch /\ RowOK

CreateAt(step, l) ==
  /\ step \in CreateSteps => l.current.public = row.public /\ l.current.branch = row.branch
  /\ step = "init" => record = None /\ l.identity = None
  /\ step = "publish" => location = "live" /\ head = row.branch /\ row.public
  /\ step = "activate" => /\ location = "live" /\ head = row.branch /\ Published
                          /\ row.public <=> l.identity # None

UpdateAt(step, l) ==
  /\ step \in UpdateSteps => row.state = "active" /\ l.current = row
  /\ step = "setBranch" => Live /\ Published /\ l.identity = None
  /\ step \in {"publishUpdate", "unpublishUpdate"} => Moved(l) /\ Published /\ l.identity = None
  /\ step = "publishUpdate" => l.input.public
  /\ step = "unpublishUpdate" => ~l.input.public
  /\ step \in {"store", "compensate"} => /\ Moved(l) /\ record = l.identity
                                         /\ l.input.public <=> record # None
  /\ step = "resetBranch" => Moved(l) /\ Published

DeleteAt(step, l) ==
  /\ step \in DeleteSteps => row.state = "active" /\ l.current = row
  /\ step = "unpublish" => Live /\ Published
  /\ step = "quarantine" => Live /\ record = None
  /\ step \in {"request", "unquarantine"} =>
       location = "quarantine" /\ head = row.branch /\ RowOK /\ record = None
  /\ step = "republish" => Live /\ record = None /\ row.public

RestoreAt(step, l) ==
  /\ step \in {"gitRestore", "storeRestore", "requarantine"} => row.state = "deleting"
  /\ step = "gitRestore" => Gone
  /\ step \in {"storeRestore", "requarantine"} => Live /\ record = None
  /\ step \in {"republishRestored", "storeIdentity"} =>
       row.state = "active" /\ l.current = row /\ Live /\ row.public
  /\ step = "republishRestored" => record = None
  /\ step = "storeIdentity" => record # None /\ l.identity # None

At(step, l) == CreateAt(step, l) /\ UpdateAt(step, l) /\ DeleteAt(step, l) /\ RestoreAt(step, l)

\* An idle request remembers nothing.
IdleInv == \A r \in Requests : pc[r] = "idle" => local[r] = Idle

\* What holds of the stores at every step, and between requests.
StoresInv ==
  /\ \A r \in Requests : pc[r] # "idle" => At(pc[r], local[r])
  /\ Quiet => Stable

SerialInv == Undisturbed => OneAtATime /\ StoresInv

CompensationInv == IdleInv /\ SerialInv

-----------------------------------------------------------------------------
\* Types of the parts a step changes.

\* The memory of an idle request is well typed.
LEMMA IdleType == Idle \in Local /\ Idle.current \in Row /\ FirstBranch \in Branches
  <1>1. FirstBranch \in Branches
    BY ConstantAssumption DEF FirstBranch
  <1>2. 0 \in Stamps
    BY ConstantAssumption DEF Stamps
  <1> QED BY <1>1, <1>2 DEF Idle, Blank, Local, Row, Settings, CID

\* A step goes to a step.
LEMMA GotoType ==
  ASSUME NEW r \in Requests, NEW step \in Steps, pc \in [Requests -> Steps], Goto(r, step)
  PROVE  pc' \in [Requests -> Steps]
  BY DEF Goto

\* Returning keeps the types of pc and local.
LEMMA ReturnType ==
  ASSUME NEW r \in Requests, pc \in [Requests -> Steps], local \in [Requests -> Local], Return(r)
  PROVE  pc' \in [Requests -> Steps] /\ local' \in [Requests -> Local]
  BY IdleType DEF Return, Goto, Steps

\* So does continuing with a step.
LEMMA ContinueType ==
  ASSUME NEW r \in Requests, NEW step \in Steps, Continue(r, step),
         pc \in [Requests -> Steps], local \in [Requests -> Local]
  PROVE  pc' \in [Requests -> Steps] /\ local' \in [Requests -> Local]
  BY DEF Continue, Goto

\* Remembering an identity keeps the type of local.
LEMMA IdentityType ==
  ASSUME NEW r \in Requests, NEW cid \in CID, local \in [Requests -> Local],
         local' = [local EXCEPT ![r].identity = cid]
  PROVE  local' \in [Requests -> Local]
  <1>1. [local[r] EXCEPT !.identity = cid] \in Local
    BY DEF Local
  <1> QED BY <1>1

\* Remembering a row keeps the type of local.
LEMMA CurrentType ==
  ASSUME NEW r \in Requests, NEW value \in Row, local \in [Requests -> Local],
         local' = [local EXCEPT ![r].current = value]
  PROVE  local' \in [Requests -> Local]
  <1>1. [local[r] EXCEPT !.current = value] \in Local
    BY DEF Local
  <1> QED BY <1>1

\* The counters of failures stay within their bound.
LEMMA FailsType ==
  ASSUME NEW kind, Fails(kind), faults \in [Kinds -> 0..MaxFaults]
  PROVE  faults' \in [Kinds -> 0..MaxFaults] /\ kind \in Kinds
         /\ faults'[kind] # 0 /\ \A k \in Kinds : faults'[k] = 0 => faults[k] = 0
  <1>1. kind \in Kinds /\ MaxFaults \in Nat
    BY ConstantAssumption DEF Fails
  <1>2. \A k \in Kinds : faults[k] \in Nat
    OBVIOUS
  <1>3. faults[kind] + 1 \in 0..MaxFaults
    <2>1. faults["git"] \in Nat /\ faults["db"] \in Nat /\ faults["pds"] \in Nat
      BY <1>2 DEF Kinds
    <2>2. faults["git"] + faults["db"] + faults["pds"] < MaxFaults
      BY DEF Fails
    <2>3. kind = "git" \/ kind = "db" \/ kind = "pds"
      BY <1>1 DEF Kinds
    <2> QED BY <1>1, <2>1, <2>2, <2>3
  <1>4. faults' = [faults EXCEPT ![kind] = faults[kind] + 1]
    BY DEF Fails
  <1>5. faults' \in [Kinds -> 0..MaxFaults]
    BY <1>1, <1>3, <1>4
  <1>6. faults'[kind] # 0
    BY <1>1, <1>2, <1>4
  <1> QED BY <1>1, <1>2, <1>4, <1>5, <1>6

\* The clock's reading is a stamp, and None is no stamp.
LEMMA TickType ==
  ASSUME clock \in Stamps, Tick
  PROVE  clock' \in Stamps /\ Now \in Stamps /\ Now \in CID
  BY ConstantAssumption DEF Tick, Now, Stamps, CID

\* Stamps are identifiers, and None is none of them.
LEMMA StampType == Stamps \subseteq CID /\ None \in CID /\ None \notin Stamps
  BY ConstantAssumption DEF Stamps, CID

\* A field of a well-typed row may be replaced by a value of its type.
LEMMA RowType ==
  ASSUME NEW x \in Row
  PROVE  /\ x.public \in BOOLEAN /\ x.branch \in Branches /\ x.at \in CID /\ x.stamp \in Stamps
         /\ \A st \in {"active", "failed", "deleting", "deleted"} : [x EXCEPT !.state = st] \in Row
         /\ \A st \in {"active", "deleting"}, n \in Stamps : [x EXCEPT !.state = st, !.stamp = n] \in Row
         /\ \A i \in CID, n \in Stamps : [x EXCEPT !.state = "active", !.at = i, !.stamp = n] \in Row
         /\ \A p \in BOOLEAN, b \in Branches, i \in CID, n \in Stamps :
              [x EXCEPT !.public = p, !.branch = b, !.at = i, !.stamp = n] \in Row
  BY DEF Row

\* The parts of what a request remembers.
LEMMA LocalType ==
  ASSUME NEW l \in Local
  PROVE  /\ l.current \in Row /\ l.input.public \in BOOLEAN /\ l.input.branch \in Branches
         /\ l.identity \in CID /\ l.stamp \in Stamps /\ l.late \in BOOLEAN
         /\ l.current.public \in BOOLEAN /\ l.current.branch \in Branches
         /\ l.current.at \in CID /\ l.current.stamp \in Stamps
  BY DEF Local, Row, Settings

\* After the branch an update goes to one of its steps.
LEMMA AfterBranchType ==
  ASSUME NEW l \in Local
  PROVE  AfterBranch(l) \in {"publishUpdate", "unpublishUpdate", "store"}
  BY LocalType DEF AfterBranch

\* An aborted update returns or resets the branch.
LEMMA AbortType ==
  ASSUME NEW r \in Requests, pc \in [Requests -> Steps], local \in [Requests -> Local], Abort(r)
  PROVE  pc' \in [Requests -> Steps] /\ local' \in [Requests -> Local]
  <1>1. CASE Return(r)
    BY <1>1, ReturnType
  <1>2. CASE Continue(r, "resetBranch")
    <2>1. "resetBranch" \in Steps
      BY DEF Steps, UpdateSteps
    <2> QED BY <1>2, <2>1, ContinueType
  <1> QED BY <1>1, <1>2 DEF Abort

-----------------------------------------------------------------------------
\* Every step keeps the types.

\* The steps of Create keep the types.
LEMMA CreateTypes ==
  ASSUME NEW r \in Requests, TypeOK, CreateNext(r), serial' \in BOOLEAN
  PROVE  TypeOK'
  <1> USE StampType
  <1>a. local[r] \in Local /\ CreateSteps \subseteq Steps
    BY DEF TypeOK, Steps
  <1>1. ASSUME NEW input \in Settings, CreateRow(r, input)
        PROVE  TypeOK'
    <2>1. Now \in Stamps /\ clock' \in Stamps
      BY <1>1, TickType DEF CreateRow, TypeOK
    <2>2. row' \in Row
      BY <1>1, <2>1 DEF CreateRow, Row, Settings
    <2>3. local' \in [Requests -> Local]
      BY <1>1, <2>2, CurrentType DEF CreateRow, TypeOK
    <2>4. pc' \in [Requests -> Steps]
      BY <1>1, <1>a, GotoType DEF CreateRow, TypeOK, CreateSteps
    <2> QED BY <1>1, <2>1, <2>2, <2>3, <2>4 DEF CreateRow, TypeOK
  <1>2. CASE GitInit(r)
    <2>1. CASE Fails("git") /\ Continue(r, "markFailed") /\ UNCHANGED <<location, head>>
      <3>1. faults' \in [Kinds -> 0..MaxFaults]
        BY <2>1, FailsType DEF TypeOK
      <3>2. pc' \in [Requests -> Steps] /\ local' \in [Requests -> Local]
        BY <2>1, <1>a, ContinueType DEF TypeOK, CreateSteps
      <3> QED BY <1>2, <2>1, <3>1, <3>2 DEF GitInit, TypeOK
    <2>2. CASE /\ location' = "live" /\ head' = local[r].current.branch
               /\ Continue(r, IF local[r].current.public THEN "publish" ELSE "activate")
               /\ UNCHANGED faults
      <3>1. head' \in Branches
        BY <2>2, <1>a, LocalType
      <3>2. pc' \in [Requests -> Steps] /\ local' \in [Requests -> Local]
        BY <2>2, <1>a, ContinueType DEF TypeOK, CreateSteps
      <3> QED BY <1>2, <2>2, <3>1, <3>2 DEF GitInit, TypeOK
    <2> QED BY <1>2, <2>1, <2>2 DEF GitInit
  <1>3. CASE CreatePublish(r)
    <2> DEFINE stamp == local[r].current.stamp
    <2>0. stamp \in Stamps /\ stamp \in CID
      BY <1>a, LocalType
    <2>1. CASE Publish(stamp) /\ UNCHANGED faults /\ local' = [local EXCEPT ![r].identity = stamp] /\ Goto(r, "activate")
      <3>1. local' \in [Requests -> Local]
        BY <2>0, <2>1, IdentityType DEF TypeOK
      <3>2. pc' \in [Requests -> Steps]
        BY <2>1, <1>a, GotoType DEF TypeOK, CreateSteps
      <3> QED BY <1>3, <2>0, <2>1, <3>1, <3>2 DEF CreatePublish, Publish, TypeOK
    <2>2. CASE PublishFails(stamp) /\ Continue(r, "markFailed")
      <3>1. faults' \in [Kinds -> 0..MaxFaults]
        BY <2>2, FailsType DEF PublishFails, TypeOK
      <3>2. pc' \in [Requests -> Steps] /\ local' \in [Requests -> Local]
        BY <2>2, <1>a, ContinueType DEF TypeOK, CreateSteps
      <3>3. record' \in CID
        BY <2>0, <2>2 DEF PublishFails, TypeOK
      <3> QED BY <1>3, <2>2, <3>1, <3>2, <3>3 DEF CreatePublish, TypeOK
    <2> QED BY <1>3, <2>1, <2>2 DEF CreatePublish
  <1>4. CASE Activate(r)
    <2>1. pc' \in [Requests -> Steps] /\ local' \in [Requests -> Local]
      BY <1>4, ReturnType DEF Activate, TypeOK
    <2>2. CASE Tick /\ UNCHANGED faults
               /\ row' = [row EXCEPT !.state = "active", !.at = local[r].identity, !.stamp = Now]
      <3>1. row' \in Row /\ clock' \in Stamps
        BY <2>2, <1>a, TickType, LocalType, RowType DEF TypeOK
      <3> QED BY <1>4, <2>1, <2>2, <3>1 DEF Activate, TypeOK
    <2>3. CASE Fails("db") /\ UNCHANGED <<row, clock>>
      <3>1. faults' \in [Kinds -> 0..MaxFaults]
        BY <2>3, FailsType DEF TypeOK
      <3> QED BY <1>4, <2>1, <2>3, <3>1 DEF Activate, TypeOK
    <2> QED BY <1>4, <2>2, <2>3 DEF Activate
  <1>5. CASE MarkFailed(r)
    <2>1. pc' \in [Requests -> Steps] /\ local' \in [Requests -> Local]
      BY <1>5, ReturnType DEF MarkFailed, TypeOK
    <2>2. CASE row' = [row EXCEPT !.state = "failed"] /\ UNCHANGED faults
      <3>1. row' \in Row
        BY <2>2, RowType DEF TypeOK
      <3> QED BY <1>5, <2>1, <2>2, <3>1 DEF MarkFailed, TypeOK
    <2>3. CASE Fails("db") /\ UNCHANGED row
      <3>1. faults' \in [Kinds -> 0..MaxFaults]
        BY <2>3, FailsType DEF TypeOK
      <3> QED BY <1>5, <2>1, <2>3, <3>1 DEF MarkFailed, TypeOK
    <2> QED BY <1>5, <2>2, <2>3 DEF MarkFailed
  <1> QED BY <1>1, <1>2, <1>3, <1>4, <1>5 DEF CreateNext

\* The steps of Update keep the types.
LEMMA UpdateTypes ==
  ASSUME NEW r \in Requests, TypeOK, UpdateNext(r), serial' \in BOOLEAN
  PROVE  TypeOK'
  <1> USE StampType
  <1>a. local[r] \in Local /\ UpdateSteps \subseteq Steps /\ "idle" \in Steps
    BY DEF TypeOK, Steps
  <1>b. ASSUME Fails("git") \/ Fails("db") \/ Fails("pds")
        PROVE  faults' \in [Kinds -> 0..MaxFaults]
    BY <1>b, FailsType DEF TypeOK
  <1>c. ASSUME Abort(r) \/ Return(r)
        PROVE  pc' \in [Requests -> Steps] /\ local' \in [Requests -> Local]
    BY <1>c, AbortType, ReturnType DEF TypeOK
  <1>d. ASSUME NEW step \in UpdateSteps, Continue(r, step)
        PROVE  pc' \in [Requests -> Steps] /\ local' \in [Requests -> Local]
    BY <1>d, <1>a, ContinueType DEF TypeOK
  <1>1. ASSUME NEW input \in Settings, UpdateRead(r, input)
        PROVE  TypeOK'
    <2> DEFINE l == [Idle EXCEPT !.current = row, !.input = input, !.stamp = Now]
    <2>1. Now \in Stamps /\ clock' \in Stamps
      BY <1>1, TickType DEF UpdateRead, TypeOK
    <2>2. l \in Local
      BY <2>1, IdleType DEF Local, TypeOK
    <2>3. (IF input.branch # row.branch THEN "setBranch" ELSE AfterBranch(l)) \in Steps
      BY <1>a, <2>2, AfterBranchType DEF UpdateSteps
    <2>4. local' \in [Requests -> Local]
      BY <1>1, <2>2 DEF UpdateRead, TypeOK
    <2>5. pc' \in [Requests -> Steps]
      BY <1>1, <2>3, GotoType DEF UpdateRead, TypeOK
    <2> QED BY <1>1, <2>1, <2>4, <2>5 DEF UpdateRead, TypeOK, storeVars
  <1>2. CASE SetDefaultBranch(r)
    <2>1. CASE /\ location = "live" /\ head' = local[r].input.branch
               /\ Continue(r, AfterBranch(local[r])) /\ UNCHANGED faults
      <3>1. AfterBranch(local[r]) \in UpdateSteps
        BY <1>a, AfterBranchType DEF UpdateSteps
      <3>2. head' \in Branches
        BY <2>1, <1>a, LocalType
      <3> QED BY <1>2, <2>1, <1>d, <3>1, <3>2 DEF SetDefaultBranch, TypeOK
    <2>2. CASE location # "live" /\ Return(r) /\ UNCHANGED <<head, faults>>
      BY <1>2, <2>2, <1>c DEF SetDefaultBranch, TypeOK
    <2>3. CASE Fails("git") /\ Return(r) /\ UNCHANGED head
      BY <1>2, <2>3, <1>b, <1>c DEF SetDefaultBranch, TypeOK
    <2> QED BY <1>2, <2>1, <2>2, <2>3 DEF SetDefaultBranch
  <1>3. CASE UpdatePublish(r)
    <2> DEFINE stamp == local[r].stamp
    <2>0. stamp \in Stamps /\ stamp \in CID
      BY <1>a, LocalType
    <2>1. CASE Publish(stamp) /\ UNCHANGED faults /\ local' = [local EXCEPT ![r].identity = stamp] /\ Goto(r, "store")
      <3>1. local' \in [Requests -> Local]
        BY <2>0, <2>1, IdentityType DEF TypeOK
      <3>2. pc' \in [Requests -> Steps]
        BY <2>1, <1>a, GotoType DEF TypeOK, UpdateSteps
      <3> QED BY <1>3, <2>0, <2>1, <3>1, <3>2 DEF UpdatePublish, Publish, TypeOK
    <2>2. CASE PublishFails(stamp) /\ Abort(r)
      BY <1>3, <2>0, <2>2, <1>b, <1>c DEF UpdatePublish, PublishFails, TypeOK
    <2> QED BY <1>3, <2>1, <2>2 DEF UpdatePublish
  <1>4. CASE UpdateUnpublish(r)
    <2>1. record' \in CID
      BY <1>4 DEF UpdateUnpublish, Unpublish, TypeOK
    <2>2. pc' \in [Requests -> Steps] /\ local' \in [Requests -> Local]
      BY <1>4, <1>c, <1>d DEF UpdateUnpublish, UpdateSteps
    <2>3. faults' \in [Kinds -> 0..MaxFaults]
      BY <1>4, <1>b DEF UpdateUnpublish, TypeOK
    <2> QED BY <1>4, <2>1, <2>2, <2>3 DEF UpdateUnpublish, TypeOK
  <1>5. CASE UpdateSettings(r)
    <2>0. [row EXCEPT !.public = local[r].input.public, !.branch = local[r].input.branch,
                      !.at = local[r].identity, !.stamp = local[r].stamp] \in Row
      BY <1>a, RowType, LocalType DEF TypeOK
    <2>1. row' \in Row
      BY <1>5, <2>0 DEF UpdateSettings, TypeOK
    <2>2. pc' \in [Requests -> Steps] /\ local' \in [Requests -> Local]
      BY <1>5, <1>c, <1>d DEF UpdateSettings, UpdateSteps
    <2>3. faults' \in [Kinds -> 0..MaxFaults]
      BY <1>5, <1>b DEF UpdateSettings, TypeOK
    <2> QED BY <1>5, <2>1, <2>2, <2>3 DEF UpdateSettings, TypeOK
  <1>6. CASE CompensatePublication(r)
    <2>1. record' \in CID
      BY <1>6, <1>a, LocalType DEF CompensatePublication, Publish, Unpublish, TypeOK
    <2>2. pc' \in [Requests -> Steps] /\ local' \in [Requests -> Local]
      BY <1>6, <1>c DEF CompensatePublication
    <2>3. faults' \in [Kinds -> 0..MaxFaults]
      BY <1>6, <1>b DEF CompensatePublication, TypeOK
    <2> QED BY <1>6, <2>1, <2>2, <2>3 DEF CompensatePublication, TypeOK
  <1>7. CASE ResetBranch(r)
    <2>1. head' \in Branches
      BY <1>7, <1>a, LocalType DEF ResetBranch, TypeOK
    <2>2. pc' \in [Requests -> Steps] /\ local' \in [Requests -> Local]
      BY <1>7, <1>c DEF ResetBranch
    <2>3. faults' \in [Kinds -> 0..MaxFaults]
      BY <1>7, <1>b DEF ResetBranch, TypeOK
    <2> QED BY <1>7, <2>1, <2>2, <2>3 DEF ResetBranch, TypeOK
  <1> QED BY <1>1, <1>2, <1>3, <1>4, <1>5, <1>6, <1>7 DEF UpdateNext

\* The steps of Delete keep the types.
LEMMA DeleteTypes ==
  ASSUME NEW r \in Requests, TypeOK, DeleteNext(r), serial' \in BOOLEAN
  PROVE  TypeOK'
  <1> USE StampType
  <1>a. local[r] \in Local /\ DeleteSteps \subseteq Steps
    BY DEF TypeOK, Steps
  <1>b. ASSUME Fails("git") \/ Fails("db") \/ Fails("pds")
        PROVE  faults' \in [Kinds -> 0..MaxFaults]
    BY <1>b, FailsType DEF TypeOK
  <1>c. ASSUME Return(r)
        PROVE  pc' \in [Requests -> Steps] /\ local' \in [Requests -> Local]
    BY <1>c, ReturnType DEF TypeOK
  <1>d. ASSUME NEW step \in DeleteSteps, Continue(r, step)
        PROVE  pc' \in [Requests -> Steps] /\ local' \in [Requests -> Local]
    BY <1>d, <1>a, ContinueType DEF TypeOK
  <1>1. CASE DeleteRead(r)
    <2>1. [Idle EXCEPT !.current = row] \in Local
      BY IdleType DEF Local, TypeOK
    <2>2. local' \in [Requests -> Local]
      BY <1>1, <2>1 DEF DeleteRead, TypeOK
    <2>3. pc' \in [Requests -> Steps]
      BY <1>1, <1>a, GotoType DEF DeleteRead, TypeOK, DeleteSteps
    <2> QED BY <1>1, <2>2, <2>3 DEF DeleteRead, TypeOK, storeVars
  <1>2. CASE DeleteUnpublish(r)
    <2>1. record' \in CID
      BY <1>2 DEF DeleteUnpublish, Unpublish, TypeOK
    <2>2. pc' \in [Requests -> Steps] /\ local' \in [Requests -> Local]
      BY <1>2, <1>c, <1>d DEF DeleteUnpublish, DeleteSteps
    <2>3. faults' \in [Kinds -> 0..MaxFaults]
      BY <1>2, <1>b DEF DeleteUnpublish, TypeOK
    <2> QED BY <1>2, <2>1, <2>2, <2>3 DEF DeleteUnpublish, TypeOK
  <1>3. CASE Quarantine(r)
    <2>1. location' \in {"none", "live", "quarantine", "gone"}
      BY <1>3 DEF Quarantine, TypeOK
    <2>2. pc' \in [Requests -> Steps] /\ local' \in [Requests -> Local]
      BY <1>3, <1>c, <1>d DEF Quarantine, DeleteSteps
    <2>3. faults' \in [Kinds -> 0..MaxFaults]
      BY <1>3, <1>b DEF Quarantine, TypeOK
    <2> QED BY <1>3, <2>1, <2>2, <2>3 DEF Quarantine, TypeOK
  <1>4. CASE RequestDeletion(r)
    <2>1. ASSUME Tick PROVE clock' \in Stamps /\ Now \in Stamps
      BY <2>1, TickType DEF TypeOK
    <2>2. Tick => [row EXCEPT !.state = "deleting", !.stamp = Now] \in Row
      BY <2>1, RowType DEF TypeOK
    <2>2a. [state |-> "pending", due |-> FALSE] \in Deletion
      BY DEF Deletion
    <2>3. ASSUME /\ Tick /\ row' = [row EXCEPT !.state = "deleting", !.stamp = Now]
                 /\ deletion' = [state |-> "pending", due |-> FALSE]
          PROVE  row' \in Row /\ clock' \in Stamps /\ deletion' \in Deletion
      BY <2>3, <2>1, <2>2, <2>2a
    <2>3a. ASSUME UNCHANGED <<row, deletion, clock>>
           PROVE  row' \in Row /\ clock' \in Stamps /\ deletion' \in Deletion
      BY <2>3a DEF TypeOK
    <2>4. row' \in Row /\ clock' \in Stamps /\ deletion' \in Deletion
      BY <1>4, <2>3, <2>3a DEF RequestDeletion
    <2>5. pc' \in [Requests -> Steps] /\ local' \in [Requests -> Local]
      BY <1>4, <1>c, <1>d DEF RequestDeletion, DeleteSteps
    <2>6. faults' \in [Kinds -> 0..MaxFaults]
      BY <1>4, <1>b DEF RequestDeletion, TypeOK
    <2> QED BY <1>4, <2>4, <2>5, <2>6 DEF RequestDeletion, TypeOK
  <1>5. CASE DeleteRollback(r)
    <2>1. location' \in {"none", "live", "quarantine", "gone"}
      BY <1>5 DEF DeleteRollback, MoveBack, TypeOK
    <2>2. pc' \in [Requests -> Steps] /\ local' \in [Requests -> Local]
      BY <1>5, <1>c, <1>d DEF DeleteRollback, DeleteSteps
    <2>3. faults' \in [Kinds -> 0..MaxFaults]
      BY <1>5, <1>b DEF DeleteRollback, TypeOK
    <2> QED BY <1>5, <2>1, <2>2, <2>3 DEF DeleteRollback, TypeOK
  <1>6. CASE DeleteRepublish(r)
    <2>1. record' \in CID
      BY <1>6, <1>a, LocalType DEF DeleteRepublish, Publish, TypeOK
    <2>2. pc' \in [Requests -> Steps] /\ local' \in [Requests -> Local]
      BY <1>6, <1>c DEF DeleteRepublish
    <2>3. faults' \in [Kinds -> 0..MaxFaults]
      BY <1>6, <1>b DEF DeleteRepublish, TypeOK
    <2> QED BY <1>6, <2>1, <2>2, <2>3 DEF DeleteRepublish, TypeOK
  <1> QED BY <1>1, <1>2, <1>3, <1>4, <1>5, <1>6 DEF DeleteNext

\* The steps of RestoreDeletion keep the types.
LEMMA RestoreTypes ==
  ASSUME NEW r \in Requests, TypeOK, RestoreNext(r), serial' \in BOOLEAN
  PROVE  TypeOK'
  <1> USE StampType
  <1>a. local[r] \in Local /\ RestoreSteps \subseteq Steps
    BY DEF TypeOK, Steps
  <1>b. ASSUME Fails("git") \/ Fails("db") \/ Fails("pds")
        PROVE  faults' \in [Kinds -> 0..MaxFaults]
    BY <1>b, FailsType DEF TypeOK
  <1>c. ASSUME Return(r)
        PROVE  pc' \in [Requests -> Steps] /\ local' \in [Requests -> Local]
    BY <1>c, ReturnType DEF TypeOK
  <1>d. ASSUME NEW step \in RestoreSteps, Continue(r, step)
        PROVE  pc' \in [Requests -> Steps] /\ local' \in [Requests -> Local]
    BY <1>d, <1>a, ContinueType DEF TypeOK
  <1>e. ASSUME NEW step \in RestoreSteps, Goto(r, step)
        PROVE  pc' \in [Requests -> Steps]
    BY <1>e, <1>a, GotoType DEF TypeOK
  <1>f. ASSUME Tick PROVE clock' \in Stamps /\ Now \in Stamps
    BY <1>f, TickType DEF TypeOK
  <1>1. CASE RestoreRead(r)
    <2>1. pc' \in [Requests -> Steps] /\ local' \in [Requests -> Local]
      BY <1>1, <1>d DEF RestoreRead, RestoreSteps
    <2> QED BY <1>1, <2>1 DEF RestoreRead, TypeOK, storeVars
  <1>2. CASE GitRestore(r)
    <2>1. location' \in {"none", "live", "quarantine", "gone"}
      BY <1>2 DEF GitRestore, TypeOK
    <2>2. [local[r] EXCEPT !.late = deletion.due] \in Local
      BY <1>a DEF Local, Deletion, TypeOK
    <2>3. [local EXCEPT ![r].late = deletion.due] \in [Requests -> Local]
      BY <2>2 DEF TypeOK
    <2>4. pc' \in [Requests -> Steps] /\ local' \in [Requests -> Local]
      BY <1>2, <2>3, <1>c, <1>e DEF GitRestore, RestoreSteps
    <2>5. faults' \in [Kinds -> 0..MaxFaults]
      BY <1>2, <1>b DEF GitRestore, TypeOK
    <2> QED BY <1>2, <2>1, <2>4, <2>5 DEF GitRestore, TypeOK
  <1>3. CASE StoreRestore(r)
    <2>2. Tick => [row EXCEPT !.state = "active", !.stamp = Now] \in Row
      BY <1>f, RowType DEF TypeOK
    <2>3. row' \in Row /\ clock' \in Stamps
      <3>1. CASE Tick /\ row' = [row EXCEPT !.state = "active", !.stamp = Now]
        BY <3>1, <1>f, <2>2
      <3>2. CASE UNCHANGED <<row, clock>>
        BY <3>2 DEF TypeOK
      <3> QED BY <1>3, <3>1, <3>2 DEF StoreRestore
    <2>4. deletion' \in Deletion
      BY <1>3 DEF StoreRestore, TypeOK, Deletion
    <2>5. ASSUME local' = [local EXCEPT ![r].current = row'] PROVE local' \in [Requests -> Local]
      BY <2>3, <2>5, CurrentType DEF TypeOK
    <2>6. pc' \in [Requests -> Steps] /\ local' \in [Requests -> Local]
      BY <1>3, <2>5, <1>c, <1>d, <1>e DEF StoreRestore, RestoreSteps
    <2>7. faults' \in [Kinds -> 0..MaxFaults]
      BY <1>3, <1>b DEF StoreRestore, TypeOK
    <2> QED BY <1>3, <2>3, <2>4, <2>6, <2>7 DEF StoreRestore, TypeOK
  <1>4. CASE Requarantine(r)
    <2>1. location' \in {"none", "live", "quarantine", "gone"}
      BY <1>4 DEF Requarantine, TypeOK
    <2>2. pc' \in [Requests -> Steps] /\ local' \in [Requests -> Local]
      BY <1>4, <1>c DEF Requarantine
    <2>3. faults' \in [Kinds -> 0..MaxFaults]
      BY <1>4, <1>b DEF Requarantine, TypeOK
    <2> QED BY <1>4, <2>1, <2>2, <2>3 DEF Requarantine, TypeOK
  <1>5. CASE RestoreRepublish(r)
    <2> DEFINE stamp == local[r].current.stamp
    <2>0. stamp \in Stamps /\ stamp \in CID
      BY <1>a, LocalType
    <2>1. record' \in CID
      BY <1>5, <2>0 DEF RestoreRepublish, Publish, PublishFails, TypeOK
    <2>2. ASSUME local' = [local EXCEPT ![r].identity = stamp] PROVE local' \in [Requests -> Local]
      BY <2>0, <2>2, IdentityType DEF TypeOK
    <2>3. pc' \in [Requests -> Steps] /\ local' \in [Requests -> Local]
      BY <1>5, <2>2, <1>c, <1>e DEF RestoreRepublish, RestoreSteps
    <2>4. faults' \in [Kinds -> 0..MaxFaults]
      BY <1>5, <1>b DEF RestoreRepublish, PublishFails, TypeOK
    <2> QED BY <1>5, <2>1, <2>3, <2>4 DEF RestoreRepublish, TypeOK
  <1>6. CASE StoreIdentity(r)
    <2>0. Tick => [row EXCEPT !.public = local[r].current.public, !.branch = local[r].current.branch,
                              !.at = local[r].identity, !.stamp = Now] \in Row
      BY <1>a, <1>f, RowType, LocalType DEF TypeOK
    <2>1. row' \in Row /\ clock' \in Stamps
      <3>1. CASE Tick /\ row' = [row EXCEPT !.public = local[r].current.public, !.branch = local[r].current.branch,
                                            !.at = local[r].identity, !.stamp = Now]
        BY <3>1, <1>f, <2>0
      <3>2. CASE UNCHANGED <<row, clock>>
        BY <3>2 DEF TypeOK
      <3> QED BY <1>6, <3>1, <3>2 DEF StoreIdentity
    <2>2. pc' \in [Requests -> Steps] /\ local' \in [Requests -> Local]
      BY <1>6, <1>c DEF StoreIdentity
    <2>3. faults' \in [Kinds -> 0..MaxFaults]
      BY <1>6, <1>b DEF StoreIdentity, TypeOK
    <2> QED BY <1>6, <2>1, <2>2, <2>3 DEF StoreIdentity, TypeOK
  <1> QED BY <1>1, <1>2, <1>3, <1>4, <1>5, <1>6 DEF RestoreNext

\* The purge workers, the passing of time and crashes keep the types.
LEMMA OtherTypes ==
  ASSUME TypeOK, serial' \in BOOLEAN,
         \/ \E r \in Requests : CrashRequest(r)
         \/ \E w \in Workers : PurgeNext(w) \/ CrashWorker(w)
         \/ Due
  PROVE  TypeOK'
  <1>b. ASSUME Fails("git") \/ Fails("db")
        PROVE  faults' \in [Kinds -> 0..MaxFaults]
    BY <1>b, FailsType DEF TypeOK
  <1>1. ASSUME NEW r \in Requests, CrashRequest(r) PROVE TypeOK'
    <2>1. pc' \in [Requests -> Steps] /\ local' \in [Requests -> Local]
      BY <1>1, ReturnType DEF CrashRequest, TypeOK
    <2>2. crashes' \in 0..MaxCrashes
      BY <1>1, ConstantAssumption DEF CrashRequest, TypeOK
    <2> QED BY <1>1, <2>1, <2>2 DEF CrashRequest, TypeOK, storeVars
  <1>2. ASSUME NEW w \in Workers, CrashWorker(w) PROVE TypeOK'
    <2>1. crashes' \in 0..MaxCrashes
      BY <1>2, ConstantAssumption DEF CrashWorker, TypeOK
    <2> QED BY <1>2, <2>1 DEF CrashWorker, TypeOK, storeVars
  <1>3. ASSUME NEW w \in Workers, ListDue(w) PROVE TypeOK'
    BY <1>3 DEF ListDue, TypeOK, storeVars
  <1>4. ASSUME NEW w \in Workers, Purge(w) PROVE TypeOK'
    <2>1. faults' \in [Kinds -> 0..MaxFaults]
      BY <1>4, <1>b DEF Purge, TypeOK
    <2>2. worker' \in [Workers -> {"list", "purge", "mark"}] /\ location' \in {"none", "live", "quarantine", "gone"}
      BY <1>4 DEF Purge, TypeOK
    <2> QED BY <1>4, <2>1, <2>2 DEF Purge, TypeOK
  <1>5. ASSUME NEW w \in Workers, MarkPurged(w) PROVE TypeOK'
    <2>1. faults' \in [Kinds -> 0..MaxFaults]
      BY <1>5, <1>b DEF MarkPurged, TypeOK
    <2>2. [row EXCEPT !.state = "deleted"] \in Row
      BY RowType DEF TypeOK
    <2>3. row' \in Row
      BY <1>5, <2>2 DEF MarkPurged, TypeOK
    <2>4. deletion' \in Deletion
      BY <1>5 DEF MarkPurged, TypeOK, Deletion
    <2>5. worker' \in [Workers -> {"list", "purge", "mark"}]
      BY <1>5 DEF MarkPurged, TypeOK
    <2> QED BY <1>5, <2>1, <2>3, <2>4, <2>5 DEF MarkPurged, TypeOK
  <1>6. ASSUME Due PROVE TypeOK'
    <2>1. deletion' \in Deletion
      BY <1>6 DEF Due, TypeOK, Deletion
    <2> QED BY <1>6, <2>1 DEF Due, TypeOK
  <1> QED BY <1>1, <1>2, <1>3, <1>4, <1>5, <1>6 DEF PurgeNext

-----------------------------------------------------------------------------
\* Rows and deletions change together.

\* Outside Create nobody enters a step of Create, and a row that is being
\* created keeps its state.
Elsewhere ==
  /\ \A q \in Requests : pc'[q] \in CreateSteps => pc[q] \in CreateSteps
  /\ row.state = "creating" => row'.state = "creating"

\* The changes of the two tables that keep them in step.
TablesMove ==
  \/ deletion'.state = deletion.state /\ row'.state = row.state
  \/ /\ deletion'.state = deletion.state
     /\ row.state \notin {"deleting", "deleted"} /\ row'.state \notin {"deleting", "deleted"}
  \/ deletion.state = "none" /\ deletion'.state = "pending" /\ row'.state = "deleting"
  \/ deletion.state = "pending" /\ deletion'.state = "restored" /\ row'.state = "active"
  \/ deletion.state = "pending" /\ deletion'.state = "purged" /\ row'.state = "deleted"

\* These changes keep the tables in step.
LEMMA TablesInStep ==
  ASSUME RowFollowsDeletion, TablesMove
  PROVE  RowFollowsDeletion'
  BY DEF RowFollowsDeletion, TablesMove

\* Elsewhere keeps the invariant of Create.
LEMMA CreationElsewhere ==
  ASSUME CreationInv, Elsewhere
  PROVE  CreationInv'
  BY DEF CreationInv, Elsewhere

\* A step that keeps or leaves the steps of Create enters none.
LEMMA GotoElsewhere ==
  ASSUME NEW r \in Requests, NEW step, step \notin CreateSteps, pc \in [Requests -> Steps], Goto(r, step)
  PROVE  \A q \in Requests : pc'[q] \in CreateSteps => pc[q] \in CreateSteps /\ q # r
  BY DEF Goto

\* So does a step that returns or continues.
LEMMA ReturnElsewhere ==
  ASSUME NEW r \in Requests, pc \in [Requests -> Steps],
         Return(r) \/ Abort(r) \/ \E step \in Steps \ CreateSteps : Continue(r, step)
  PROVE  \A q \in Requests : pc'[q] \in CreateSteps => pc[q] \in CreateSteps /\ q # r
  <1>1. "idle" \notin CreateSteps /\ "resetBranch" \notin CreateSteps
    BY DEF CreateSteps
  <1> QED BY <1>1, GotoElsewhere DEF Return, Abort, Continue

\* Create keeps the tables in step and works alone on its row.
LEMMA CreateKeeps ==
  ASSUME NEW r \in Requests, Inv, CreateNext(r)
  PROVE  TablesMove /\ CreationInv'
  <1> USE DEF Inv
  <1>0. pc \in [Requests -> Steps] /\ row \in Row
    BY DEF TypeOK
  <1>1. ASSUME NEW input \in Settings, CreateRow(r, input) PROVE TablesMove /\ CreationInv'
    <2>1. \A q \in Requests : pc[q] \notin CreateSteps
      BY <1>1 DEF CreateRow, CreationInv
    <2>2. row'.state = "creating" /\ row.state = "none" /\ deletion' = deletion
      BY <1>1 DEF CreateRow
    <2>3. pc' = [pc EXCEPT ![r] = "init"]
      BY <1>1 DEF CreateRow, Goto
    <2>4. CreationInv'
      BY <1>0, <2>1, <2>2, <2>3 DEF CreationInv
    <2> QED BY <2>2, <2>4 DEF TablesMove
  <1>2. ASSUME NEW step \in CreateSteps, pc[r] \in CreateSteps, Goto(r, step), row' = row
        PROVE  CreationInv'
    BY <1>0, <1>2 DEF CreationInv, Goto
  <1>3. CASE GitInit(r)
    <2>1. PICK step \in CreateSteps : Goto(r, step)
      BY <1>3 DEF GitInit, Continue, CreateSteps
    <2>2. pc[r] \in CreateSteps /\ row' = row /\ deletion' = deletion
      BY <1>3 DEF GitInit, CreateSteps
    <2> QED BY <2>1, <2>2, <1>2 DEF TablesMove
  <1>4. CASE CreatePublish(r)
    <2>1. PICK step \in CreateSteps : Goto(r, step)
      BY <1>4 DEF CreatePublish, Continue, CreateSteps
    <2>2. pc[r] \in CreateSteps /\ row' = row /\ deletion' = deletion
      BY <1>4 DEF CreatePublish, CreateSteps
    <2> QED BY <2>1, <2>2, <1>2 DEF TablesMove
  <1>5. ASSUME pc[r] \in CreateSteps, Return(r) PROVE CreationInv'
    <2>1. \A q \in Requests : pc'[q] \in CreateSteps => pc[q] \in CreateSteps /\ q # r
      BY <1>0, <1>5, ReturnElsewhere
    <2> QED BY <1>5, <2>1 DEF CreationInv
  <1>6. CASE Activate(r)
    <2>1. pc[r] \in CreateSteps /\ Return(r) /\ deletion' = deletion
      BY <1>6 DEF Activate, CreateSteps
    <2>2. row' = row \/ row'.state = "active"
      BY <1>0, <1>6 DEF Activate, Row
    <2>3. row.state = "creating"
      BY <2>1 DEF CreationInv
    <2> QED BY <1>5, <2>1, <2>2, <2>3 DEF TablesMove
  <1>7. CASE MarkFailed(r)
    <2>1. pc[r] \in CreateSteps /\ Return(r) /\ deletion' = deletion
      BY <1>7 DEF MarkFailed, CreateSteps
    <2>2. row' = row \/ row'.state = "failed"
      BY <1>0, <1>7 DEF MarkFailed, Row
    <2>3. row.state = "creating"
      BY <2>1 DEF CreationInv
    <2> QED BY <1>5, <2>1, <2>2, <2>3 DEF TablesMove
  <1> QED BY <1>1, <1>3, <1>4, <1>6, <1>7 DEF CreateNext

\* Update keeps the tables in step and the row's state.
LEMMA UpdateKeeps ==
  ASSUME NEW r \in Requests, Inv, UpdateNext(r)
  PROVE  TablesMove /\ Elsewhere
  <1>0. pc \in [Requests -> Steps] /\ row \in Row /\ local[r] \in Local
    BY DEF Inv, TypeOK
  <1>1. deletion' = deletion
    BY DEF UpdateNext, UpdateRead, SetDefaultBranch, UpdatePublish, UpdateUnpublish, UpdateSettings,
           CompensatePublication, ResetBranch, storeVars
  <1>2. row'.state = row.state
    <2>1. CASE UpdateSettings(r)
      BY <1>0, <2>1 DEF UpdateSettings, Row
    <2>2. CASE ~UpdateSettings(r)
      BY <2>2 DEF UpdateNext, UpdateRead, SetDefaultBranch, UpdatePublish, UpdateUnpublish,
                  CompensatePublication, ResetBranch, storeVars
    <2> QED BY <2>1, <2>2
  <1>3. ASSUME NEW step \in UpdateSteps \cup {"idle"} PROVE step \notin CreateSteps /\ step \in Steps
    BY DEF UpdateSteps, CreateSteps, Steps
  <1>4. \A q \in Requests : pc'[q] \in CreateSteps => pc[q] \in CreateSteps
    <2>1. ASSUME NEW input \in Settings, UpdateRead(r, input)
          PROVE  \E step \in UpdateSteps : Goto(r, step)
      <3> DEFINE l == [Idle EXCEPT !.current = row, !.input = input, !.stamp = Now]
      <3>1. Now \in Stamps
        BY <2>1, TickType DEF UpdateRead, Inv, TypeOK
      <3>2. l \in Local
        BY <1>0, <3>1, IdleType DEF Local
      <3>3. (IF input.branch # row.branch THEN "setBranch" ELSE AfterBranch(l)) \in UpdateSteps
        BY <3>2, AfterBranchType DEF UpdateSteps
      <3> QED BY <2>1, <3>3 DEF UpdateRead
    <2>2. CASE SetDefaultBranch(r)
      <3>1. AfterBranch(local[r]) \in UpdateSteps
        BY <1>0, AfterBranchType DEF UpdateSteps
      <3> QED BY <1>0, <1>3, <2>2, <3>1, ReturnElsewhere DEF SetDefaultBranch
    <2>3. CASE UpdatePublish(r)
      BY <1>0, <1>3, <2>3, ReturnElsewhere, GotoElsewhere DEF UpdatePublish, UpdateSteps
    <2>4. CASE UpdateUnpublish(r)
      BY <1>0, <1>3, <2>4, ReturnElsewhere DEF UpdateUnpublish, UpdateSteps
    <2>5. CASE UpdateSettings(r)
      BY <1>0, <1>3, <2>5, ReturnElsewhere DEF UpdateSettings, UpdateSteps
    <2>6. CASE CompensatePublication(r)
      BY <1>0, <2>6, ReturnElsewhere DEF CompensatePublication
    <2>7. CASE ResetBranch(r)
      BY <1>0, <2>7, ReturnElsewhere DEF ResetBranch
    <2>8. CASE \E input \in Settings : UpdateRead(r, input)
      BY <1>0, <1>3, <2>1, <2>8, GotoElsewhere
    <2> QED BY <2>2, <2>3, <2>4, <2>5, <2>6, <2>7, <2>8 DEF UpdateNext
  <1> QED BY <1>1, <1>2, <1>4 DEF TablesMove, Elsewhere

\* Delete keeps the tables in step.
LEMMA DeleteKeeps ==
  ASSUME NEW r \in Requests, Inv, DeleteNext(r)
  PROVE  TablesMove /\ Elsewhere
  <1>0. pc \in [Requests -> Steps] /\ row \in Row
    BY DEF Inv, TypeOK
  <1>1. ASSUME NEW step \in DeleteSteps PROVE step \notin CreateSteps /\ step \in Steps
    BY DEF DeleteSteps, CreateSteps, Steps
  <1>2. \A q \in Requests : pc'[q] \in CreateSteps => pc[q] \in CreateSteps
    <2>1. CASE DeleteRead(r)
      BY <1>0, <1>1, <2>1, GotoElsewhere DEF DeleteRead, DeleteSteps
    <2>2. CASE ~DeleteRead(r)
      BY <1>0, <1>1, <2>2, ReturnElsewhere
         DEF DeleteNext, DeleteUnpublish, Quarantine, RequestDeletion, DeleteRollback, DeleteRepublish, DeleteSteps
    <2> QED BY <2>1, <2>2
  <1>3. TablesMove /\ (row.state = "creating" => row'.state = "creating")
    <2>1. CASE RequestDeletion(r)
      <3>1. CASE /\ row.state = "active" /\ deletion.state = "none"
                 /\ row' = [row EXCEPT !.state = "deleting", !.stamp = Now]
                 /\ deletion' = [state |-> "pending", due |-> FALSE]
        BY <1>0, <3>1 DEF TablesMove, Row
      <3>2. CASE UNCHANGED <<row, deletion>>
        BY <3>2 DEF TablesMove
      <3> QED BY <2>1, <3>1, <3>2 DEF RequestDeletion
    <2>2. CASE ~RequestDeletion(r)
      BY <2>2 DEF DeleteNext, DeleteRead, DeleteUnpublish, Quarantine, DeleteRollback, DeleteRepublish,
                  storeVars, TablesMove
    <2> QED BY <2>1, <2>2
  <1> QED BY <1>2, <1>3 DEF Elsewhere

\* RestoreDeletion keeps the tables in step.
LEMMA RestoreKeeps ==
  ASSUME NEW r \in Requests, Inv, RestoreNext(r)
  PROVE  TablesMove /\ Elsewhere
  <1>0. pc \in [Requests -> Steps] /\ row \in Row /\ deletion \in Deletion /\ RowFollowsDeletion
    BY DEF Inv, TypeOK
  <1>1. ASSUME NEW step \in RestoreSteps PROVE step \notin CreateSteps /\ step \in Steps
    BY DEF RestoreSteps, CreateSteps, Steps
  <1>2. \A q \in Requests : pc'[q] \in CreateSteps => pc[q] \in CreateSteps
    <2>1. (\E step \in RestoreSteps : Goto(r, step)) \/ Return(r)
      BY DEF RestoreNext, RestoreRead, GitRestore, StoreRestore, Requarantine, RestoreRepublish, StoreIdentity,
             Continue, RestoreSteps
    <2> QED BY <1>0, <1>1, <2>1, GotoElsewhere, ReturnElsewhere
  <1>3. TablesMove /\ (row.state = "creating" => row'.state = "creating")
    <2>1. CASE StoreRestore(r)
      <3>1. CASE /\ deletion.state = "pending"
                 /\ row' = [row EXCEPT !.state = "active", !.stamp = Now]
                 /\ deletion' = [deletion EXCEPT !.state = "restored"]
        BY <1>0, <3>1 DEF TablesMove, Row, Deletion, RowFollowsDeletion
      <3>2. CASE UNCHANGED <<row, deletion>>
        BY <3>2 DEF TablesMove
      <3> QED BY <2>1, <3>1, <3>2 DEF StoreRestore
    <2>2. CASE StoreIdentity(r)
      <3>1. row'.state = row.state
        BY <1>0, <2>2 DEF StoreIdentity, Row
      <3> QED BY <2>2, <3>1 DEF StoreIdentity, TablesMove
    <2>3. CASE ~StoreRestore(r) /\ ~StoreIdentity(r)
      BY <2>3 DEF RestoreNext, RestoreRead, GitRestore, Requarantine, RestoreRepublish, storeVars, TablesMove
    <2> QED BY <2>1, <2>2, <2>3
  <1> QED BY <1>2, <1>3 DEF Elsewhere

\* So do the workers, time and crashes.
LEMMA OtherKeeps ==
  ASSUME Inv,
         \/ \E r \in Requests : CrashRequest(r)
         \/ \E w \in Workers : PurgeNext(w) \/ CrashWorker(w)
         \/ Due
  PROVE  TablesMove /\ Elsewhere
  <1>0. pc \in [Requests -> Steps] /\ row \in Row /\ deletion \in Deletion /\ RowFollowsDeletion
    BY DEF Inv, TypeOK
  <1>1. ASSUME NEW r \in Requests, CrashRequest(r) PROVE TablesMove /\ Elsewhere
    BY <1>0, <1>1, ReturnElsewhere DEF CrashRequest, storeVars, TablesMove, Elsewhere
  <1>2. ASSUME NEW w \in Workers, MarkPurged(w) PROVE TablesMove /\ Elsewhere
    <2>1. pc' = pc
      BY <1>2 DEF MarkPurged
    <2>2. CASE /\ deletion.state = "pending" /\ deletion' = [deletion EXCEPT !.state = "purged"]
               /\ row' = [row EXCEPT !.state = "deleted"]
      BY <1>0, <2>1, <2>2 DEF TablesMove, Elsewhere, Row, Deletion, RowFollowsDeletion
    <2>3. CASE UNCHANGED <<row, deletion>>
      BY <2>1, <2>3 DEF TablesMove, Elsewhere
    <2> QED BY <1>2, <2>2, <2>3 DEF MarkPurged
  <1>3. ASSUME NEW w \in Workers, ListDue(w) \/ Purge(w) \/ CrashWorker(w) PROVE TablesMove /\ Elsewhere
    BY <1>3 DEF ListDue, Purge, CrashWorker, storeVars, TablesMove, Elsewhere
  <1>4. ASSUME Due PROVE TablesMove /\ Elsewhere
    BY <1>0, <1>4 DEF Due, TablesMove, Elsewhere, Deletion
  <1> QED BY <1>1, <1>2, <1>3, <1>4 DEF PurgeNext

\* The initial state satisfies the invariant.
LEMMA InitInv == Init => Inv
  <1> SUFFICES ASSUME Init PROVE Inv
    OBVIOUS
  <1>1. TypeOK
    BY ConstantAssumption, IdleType, StampType DEF Init, TypeOK, Deletion, Steps, Kinds, Stamps
  <1>2. RowFollowsDeletion /\ CreationInv
    BY DEF Init, RowFollowsDeletion, CreationInv, CreateSteps, Idle, Blank
  <1> QED BY <1>1, <1>2 DEF Inv

\* Every step keeps the invariant.
LEMMA NextInv == Inv /\ [Next]_vars => Inv'
  <1> SUFFICES ASSUME Inv, [Next]_vars PROVE Inv'
    OBVIOUS
  <1>1. CASE UNCHANGED vars
    BY <1>1 DEF vars, Inv, TypeOK, RowFollowsDeletion, CreationInv
  <1>2. CASE Next
    <2>0. TypeOK /\ RowFollowsDeletion /\ CreationInv /\ serial' \in BOOLEAN
      BY <1>2 DEF Inv, TypeOK, Next
    <2>1. ASSUME NEW r \in Requests, CreateNext(r) PROVE Inv'
      BY <2>0, <2>1, CreateTypes, CreateKeeps, TablesInStep DEF Inv
    <2>2. ASSUME NEW r \in Requests, UpdateNext(r) PROVE Inv'
      BY <2>0, <2>2, UpdateTypes, UpdateKeeps, TablesInStep, CreationElsewhere DEF Inv
    <2>3. ASSUME NEW r \in Requests, DeleteNext(r) PROVE Inv'
      BY <2>0, <2>3, DeleteTypes, DeleteKeeps, TablesInStep, CreationElsewhere DEF Inv
    <2>4. ASSUME NEW r \in Requests, RestoreNext(r) PROVE Inv'
      BY <2>0, <2>4, RestoreTypes, RestoreKeeps, TablesInStep, CreationElsewhere DEF Inv
    <2>5. ASSUME \/ \E r \in Requests : CrashRequest(r)
                 \/ \E w \in Workers : PurgeNext(w) \/ CrashWorker(w)
                 \/ Due
          PROVE  Inv'
      BY <2>0, <2>5, OtherTypes, OtherKeeps, TablesInStep, CreationElsewhere DEF Inv
    <2> QED BY <1>2, <2>1, <2>2, <2>3, <2>4, <2>5 DEF Next, Step
  <1> QED BY <1>1, <1>2

\* Every variable keeps its type.
THEOREM TypeCorrect == Spec => []TypeOK
  <1>1. Inv => TypeOK
    BY DEF Inv
  <1> QED BY <1>1, InitInv, NextInv, PTL DEF Spec

\* Whatever requests, workers, failures and crashes interleave, a repository is
\* being deleted exactly while its deletion is pending, and deleted exactly
\* when that deletion was purged: RequestDeletion, RestoreDeletion and
\* MarkPurged change both tables in one statement.
THEOREM TablesAgree == Spec => []RowFollowsDeletion
  <1>1. Inv => RowFollowsDeletion
    BY DEF Inv
  <1> QED BY <1>1, InitInv, NextInv, PTL DEF Spec

\* A deletion that was restored or purged never changes again: the statements
\* of RestoreDeletion, MarkPurged and RequestDeletion are all conditional on
\* its state.
THEOREM DecidedOnce == Spec => DeletionDecidedOnce
  <1>1. Inv /\ [Next]_vars => [deletion.state \in {"restored", "purged"} => deletion' = deletion]_vars
    <2> SUFFICES ASSUME Step, deletion.state \in {"restored", "purged"} PROVE deletion' = deletion
      BY DEF Next
    <2>1. ASSUME NEW r \in Requests, CreateNext(r) PROVE deletion' = deletion
      BY <2>1 DEF CreateNext, CreateRow, GitInit, CreatePublish, Activate, MarkFailed
    <2>2. ASSUME NEW r \in Requests, UpdateNext(r) PROVE deletion' = deletion
      BY <2>2 DEF UpdateNext, UpdateRead, SetDefaultBranch, UpdatePublish, UpdateUnpublish, UpdateSettings,
                  CompensatePublication, ResetBranch, storeVars
    <2>3. ASSUME NEW r \in Requests, DeleteNext(r) PROVE deletion' = deletion
      BY <2>3 DEF DeleteNext, DeleteRead, DeleteUnpublish, Quarantine, RequestDeletion, DeleteRollback,
                  DeleteRepublish, storeVars
    <2>4. ASSUME NEW r \in Requests, RestoreNext(r) PROVE deletion' = deletion
      BY <2>4 DEF RestoreNext, RestoreRead, GitRestore, StoreRestore, Requarantine, RestoreRepublish,
                  StoreIdentity, storeVars
    <2>5. ASSUME \/ \E r \in Requests : CrashRequest(r)
                 \/ \E w \in Workers : PurgeNext(w) \/ CrashWorker(w)
                 \/ Due
          PROVE  deletion' = deletion
      BY <2>5 DEF CrashRequest, PurgeNext, ListDue, Purge, MarkPurged, CrashWorker, Due, storeVars
    <2> QED BY <2>1, <2>2, <2>3, <2>4, <2>5 DEF Step
  <1> QED BY <1>1, InitInv, NextInv, PTL DEF Spec, DeletionDecidedOnce

-----------------------------------------------------------------------------
\* Compensation.

\* When at most one is busy, nobody works while somebody else does.
LEMMA AtMostOneBusy ==
  ASSUME NEW p \in [Requests -> Steps], NEW w \in [Workers -> {"list", "purge", "mark"}],
         Cardinality({r \in Requests : p[r] # "idle"}) + Cardinality({v \in Workers : w[v] # "list"}) <= 1
  PROVE  /\ \A r \in Requests : p[r] # "idle" =>
              (\A q \in Requests : p[q] # "idle" => q = r) /\ (\A v \in Workers : w[v] = "list")
         /\ \A v \in Workers : w[v] # "list" =>
              (\A r \in Requests : p[r] = "idle") /\ (\A u \in Workers : w[u] # "list" => u = v)
  <1> DEFINE R == {r \in Requests : p[r] # "idle"}
             W == {v \in Workers : w[v] # "list"}
  <1>1. IsFiniteSet(R) /\ IsFiniteSet(W)
    BY ConstantAssumption, FS_Subset
  <1>2. Cardinality(R) \in Nat /\ Cardinality(W) \in Nat /\ Cardinality(R) + Cardinality(W) <= 1
    BY <1>1, FS_CardinalityType
  <1> HIDE DEF R, W
  <1>3. \/ R = {} /\ W = {}
        \/ R = {} /\ \E x : W = {x}
        \/ W = {} /\ \E x : R = {x}
    <2>1. \/ Cardinality(R) = 0 /\ Cardinality(W) = 0
          \/ Cardinality(R) = 0 /\ Cardinality(W) = 1
          \/ Cardinality(R) = 1 /\ Cardinality(W) = 0
      BY <1>2
    <2> QED BY <1>1, <2>1, FS_EmptySet, FS_Singleton
  <1> QED BY <1>3 DEF R, W

\* The counters of failures only grow, in a step or its failing variant.
LEMMA FaultsGrow ==
  ASSUME Inv, Step
  PROVE  (faults' = faults \/ \E k \in Kinds : Fails(k)) /\ (crashes' = 0 => crashes = 0)
  <1> USE DEF Kinds
  <1>1. ASSUME NEW r \in Requests, CreateNext(r)
        PROVE  (faults' = faults \/ \E k \in Kinds : Fails(k)) /\ crashes' = crashes
    BY <1>1 DEF CreateNext, CreateRow, GitInit, CreatePublish, Activate, MarkFailed, PublishFails
  <1>2. ASSUME NEW r \in Requests, UpdateNext(r)
        PROVE  (faults' = faults \/ \E k \in Kinds : Fails(k)) /\ crashes' = crashes
    BY <1>2 DEF UpdateNext, UpdateRead, SetDefaultBranch, UpdatePublish, UpdateUnpublish, UpdateSettings,
                CompensatePublication, ResetBranch, PublishFails
  <1>3. ASSUME NEW r \in Requests, DeleteNext(r)
        PROVE  (faults' = faults \/ \E k \in Kinds : Fails(k)) /\ crashes' = crashes
    BY <1>3 DEF DeleteNext, DeleteRead, DeleteUnpublish, Quarantine, RequestDeletion, DeleteRollback, DeleteRepublish
  <1>4. ASSUME NEW r \in Requests, RestoreNext(r)
        PROVE  (faults' = faults \/ \E k \in Kinds : Fails(k)) /\ crashes' = crashes
    BY <1>4 DEF RestoreNext, RestoreRead, GitRestore, StoreRestore, Requarantine, RestoreRepublish, StoreIdentity,
                PublishFails
  <1>5. ASSUME NEW w \in Workers, PurgeNext(w)
        PROVE  (faults' = faults \/ \E k \in Kinds : Fails(k)) /\ crashes' = crashes
    BY <1>5 DEF PurgeNext, ListDue, Purge, MarkPurged
  <1>6. ASSUME Due PROVE faults' = faults /\ crashes' = crashes
    BY <1>6 DEF Due
  <1>7. ASSUME (\E r \in Requests : CrashRequest(r)) \/ (\E w \in Workers : CrashWorker(w))
        PROVE  faults' = faults /\ (crashes' = 0 => crashes = 0)
    BY <1>7 DEF CrashRequest, CrashWorker, Inv, TypeOK
  <1> QED BY <1>1, <1>2, <1>3, <1>4, <1>5, <1>6, <1>7 DEF Step

\* A history that is undisturbed after a step was so before it: the step met no
\* failure of Git or the PDS, nothing crashed, and nobody worked at the same time.
LEMMA UndisturbedBefore ==
  ASSUME Inv, Inv', Next, Undisturbed'
  PROVE  Undisturbed /\ ~Fails("git") /\ ~Fails("pds") /\ OneAtATime'
  <1>1. Step /\ serial /\ Busy' <= 1
    BY DEF Next, Undisturbed
  <1>2. crashes = 0
    BY <1>1, FaultsGrow DEF Undisturbed
  <1>3. faults \in [Kinds -> 0..MaxFaults] /\ faults'["git"] = 0 /\ faults'["pds"] = 0
    BY DEF Inv, TypeOK, Undisturbed
  <1>4. ~Fails("git") /\ ~Fails("pds")
    BY <1>3, FailsType
  <1>5. faults["git"] = 0 /\ faults["pds"] = 0
    <2>1. CASE faults' = faults
      BY <1>3, <2>1
    <2>2. ASSUME NEW k \in Kinds, Fails(k) PROVE faults["git"] = 0 /\ faults["pds"] = 0
      <3>1. \A j \in Kinds : faults'[j] = 0 => faults[j] = 0
        BY <1>3, <2>2, FailsType
      <3> QED BY <1>3, <3>1 DEF Kinds
    <2> QED BY <1>1, <2>1, <2>2, FaultsGrow
  <1>6. OneAtATime'
    <2>1. pc' \in [Requests -> Steps] /\ worker' \in [Workers -> {"list", "purge", "mark"}]
      BY DEF Inv, TypeOK
    <2>2. Cardinality({r \in Requests : pc'[r] # "idle"}) + Cardinality({v \in Workers : worker'[v] # "list"}) <= 1
      BY <1>1 DEF Busy
    <2> QED BY <2>1, <2>2, AtMostOneBusy DEF OneAtATime, Quiet
  <1> QED BY <1>1, <1>2, <1>4, <1>5, <1>6 DEF Undisturbed

\* The step of one request keeps what an undisturbed history promises, when it
\* leads to what holds at its next step, or between requests when it returns.
LEMMA RequestStep ==
  ASSUME NEW r \in Requests, NEW step, pc \in [Requests -> Steps], Goto(r, step), OneAtATime',
         OneAtATime, pc[r] # "idle" \/ step # "idle",
         step # "idle" => At(pc[r], local[r])', step = "idle" => Stable'
  PROVE  StoresInv'
  <1>0. pc' = [pc EXCEPT ![r] = step]
    BY DEF Goto
  <1>1. CASE step = "idle"
    <2>1. \A q \in Requests : pc'[q] = "idle"
      BY <1>0, <1>1 DEF OneAtATime
    <2> QED BY <1>1, <2>1 DEF StoresInv
  <1>2. CASE step # "idle"
    <2>1. pc'[r] = step
      BY <1>0
    <2>2. \A q \in Requests : pc'[q] # "idle" => q = r
      BY <1>2, <2>1 DEF OneAtATime
    <2>3. ~Quiet'
      BY <1>2, <2>1 DEF Quiet
    <2> QED BY <1>2, <2>2, <2>3 DEF StoresInv
  <1> QED BY <1>1, <1>2

\* A request starts from a state in which nobody works.
LEMMA StartsQuiet ==
  ASSUME NEW r \in Requests, NEW step, pc \in [Requests -> Steps], Goto(r, step), OneAtATime',
         pc[r] = "idle", step # "idle"
  PROVE  Quiet
  <1>0. pc' = [pc EXCEPT ![r] = step]
    BY DEF Goto
  <1>1. \A q \in Requests : pc'[q] # "idle" => q = r
    BY <1>0 DEF OneAtATime
  <1> QED BY <1>0, <1>1 DEF Quiet

\* Create leaves a new repository live, and published exactly when it is public.
LEMMA CreateUndisturbed ==
  ASSUME NEW r \in Requests, Inv, IdleInv, OneAtATime, StoresInv, OneAtATime', ~Fails("git"), ~Fails("pds"),
         CreateNext(r)
  PROVE  StoresInv'
  <1>0. /\ pc \in [Requests -> Steps] /\ row \in Row /\ local \in [Requests -> Local] /\ local[r] \in Local
        /\ pc[r] # "idle" => At(pc[r], local[r])
    BY DEF Inv, TypeOK, StoresInv
  <1> USE DEF At, CreateAt, UpdateAt, DeleteAt, RestoreAt, CreateSteps, UpdateSteps, DeleteSteps
  <1>1. ASSUME NEW input \in Settings, CreateRow(r, input) PROVE StoresInv'
    <2>1. Quiet /\ Goto(r, "init") /\ pc[r] = "idle" /\ pc'[r] = "init"
      BY <1>0, <1>1, StartsQuiet DEF CreateRow, Goto
    <2>2. record' = None /\ local[r] = Idle
      BY <1>1, <2>1 DEF StoresInv, Stable, IdleInv, CreateRow
    <2>3. local'[r] = [Idle EXCEPT !.current = row']
      BY <1>0, <1>1, <2>2 DEF CreateRow
    <2>4. local'[r].current = row' /\ local'[r].identity = None
      BY <2>3 DEF Idle, Blank
    <2>5. At(pc[r], local[r])'
      BY <2>1, <2>2, <2>4
    <2> QED BY <1>0, <2>1, <2>5, RequestStep
  <1>2. CASE GitInit(r)
    <2> DEFINE step == IF local[r].current.public THEN "publish" ELSE "activate"
    <2>1. /\ location' = "live" /\ head' = local[r].current.branch
          /\ Goto(r, step) /\ local' = local /\ row' = row /\ record' = record /\ pc[r] = "init"
      BY <1>2 DEF GitInit, Continue
    <2>2. pc'[r] = step /\ step # "idle"
      BY <1>0, <2>1 DEF Goto
    <2>3. At(pc[r], local[r])'
      BY <1>0, <2>1, <2>2, LocalType DEF Published
    <2> HIDE DEF step
    <2> QED BY <1>0, <2>1, <2>2, <2>3, RequestStep
  <1>3. CASE CreatePublish(r)
    <2> DEFINE stamp == local[r].current.stamp
    <2>1. /\ record' = stamp /\ local' = [local EXCEPT ![r].identity = stamp] /\ Goto(r, "activate")
          /\ row' = row /\ location' = location /\ head' = head /\ pc[r] = "publish"
      BY <1>3 DEF CreatePublish, Publish, PublishFails
    <2>2. stamp # None
      BY <1>0, LocalType, StampType
    <2>3. pc'[r] = "activate" /\ local'[r] = [local[r] EXCEPT !.identity = stamp]
      BY <1>0, <2>1 DEF Goto
    <2>4. local'[r].identity = stamp /\ local'[r].current = local[r].current
      BY <1>0, <2>3 DEF Local
    <2>5. At(pc[r], local[r])'
      BY <1>0, <2>1, <2>2, <2>3, <2>4 DEF Published
    <2> QED BY <1>0, <2>1, <2>5, RequestStep
  <1>4. CASE Activate(r)
    <2>1. /\ pc[r] = "activate" /\ Goto(r, "idle") /\ record' = record /\ location' = location /\ head' = head
      BY <1>4 DEF Activate, Return
    <2>2. row.state = "creating"
      BY <1>0, <2>1 DEF Inv, CreationInv
    <2>3. CASE row' = [row EXCEPT !.state = "active", !.at = local[r].identity, !.stamp = Now]
      <3>1. row'.state = "active" /\ row'.at = local[r].identity /\ row'.public = row.public /\ row'.branch = row.branch
        BY <1>0, <2>3 DEF Row
      <3>2. Stable'
        BY <1>0, <2>1, <3>1 DEF Stable, Live, Published, RowOK
      <3> QED BY <1>0, <2>1, <3>2, RequestStep
    <2>4. CASE row' = row
      <3>1. Stable'
        BY <2>2, <2>4 DEF Stable
      <3> QED BY <1>0, <2>1, <3>1, RequestStep
    <2> QED BY <1>4, <2>3, <2>4 DEF Activate
  <1>5. CASE MarkFailed(r)
    <2>1. pc[r] = "markFailed" /\ Goto(r, "idle")
      BY <1>5 DEF MarkFailed, Return
    <2>2. row.state = "creating"
      BY <1>0, <2>1 DEF Inv, CreationInv
    <2>3. row'.state \in {"creating", "failed"}
      BY <1>0, <1>5, <2>2 DEF MarkFailed, Row
    <2>4. Stable'
      BY <2>3 DEF Stable
    <2> QED BY <1>0, <2>1, <2>4, RequestStep
  <1> QED BY <1>1, <1>2, <1>3, <1>4, <1>5 DEF CreateNext

\* An update that returns in a state that is fit to abort from leaves the
\* repository as the row says, and one that has the branch to reset can do so.
LEMMA AbortKeeps ==
  ASSUME NEW r \in Requests, pc \in [Requests -> Steps], local \in [Requests -> Local], OneAtATime', OneAtATime,
         pc[r] # "idle", Abort(r), row' = row, row.state = "active", local[r].current = row,
         location' = "live", head' = local[r].input.branch, RowOK, (row.public <=> record' # None)
  PROVE  StoresInv'
  <1>1. CASE Return(r)
    <2>1. head' = row.branch
      BY <1>1, ReturnType DEF Abort, Continue, Goto, Return
    <2>2. Stable'
      BY <2>1 DEF Stable, Live, Published, RowOK
    <2> QED BY <1>1, <2>2, RequestStep DEF Return
  <1>2. CASE Continue(r, "resetBranch")
    <2>1. pc'[r] = "resetBranch" /\ local' = local /\ Goto(r, "resetBranch")
      BY <1>2 DEF Continue, Goto
    <2>2. At(pc[r], local[r])'
      BY <2>1 DEF At, CreateAt, UpdateAt, DeleteAt, RestoreAt, CreateSteps, UpdateSteps, DeleteSteps,
                  Moved, Published, RowOK
    <2> QED BY <2>1, <2>2, RequestStep
  <1> QED BY <1>1, <1>2 DEF Abort

\* Update moves HEAD and the record with the row, or moves them back.
LEMMA UpdateUndisturbed ==
  ASSUME NEW r \in Requests, Inv, IdleInv, OneAtATime, StoresInv, OneAtATime', ~Fails("git"), ~Fails("pds"),
         UpdateNext(r)
  PROVE  StoresInv'
  <1>0. /\ pc \in [Requests -> Steps] /\ row \in Row /\ local \in [Requests -> Local] /\ local[r] \in Local
        /\ pc[r] # "idle" => At(pc[r], local[r])
    BY DEF Inv, TypeOK, StoresInv
  <1> USE DEF At, CreateAt, UpdateAt, DeleteAt, RestoreAt, CreateSteps, UpdateSteps, DeleteSteps
  <1>a. ASSUME NEW l \in Local, l.current = row, row.state = "active", l.identity = None,
               Moved(l), Published
        PROVE  At(AfterBranch(l), l)
    <2>1. l.input.public \in BOOLEAN
      BY LocalType
    <2>2. CASE l.input.public
      <3>1. AfterBranch(l) = "publishUpdate"
        BY <2>2 DEF AfterBranch
      <3> QED BY <1>a, <2>2, <3>1
    <2>3. CASE ~l.input.public /\ l.current.at # None
      <3>1. AfterBranch(l) = "unpublishUpdate"
        BY <2>3 DEF AfterBranch
      <3> QED BY <1>a, <2>3, <3>1
    <2>4. CASE ~l.input.public /\ l.current.at = None
      <3>1. AfterBranch(l) = "store"
        BY <2>4 DEF AfterBranch
      <3>2. record = None
        BY <1>a, <2>4 DEF Moved, RowOK, Published
      <3> QED BY <1>a, <2>4, <3>1, <3>2
    <2> QED BY <2>1, <2>2, <2>3, <2>4
  <1>1. ASSUME NEW input \in Settings, UpdateRead(r, input) PROVE StoresInv'
    <2> DEFINE l == [Idle EXCEPT !.current = row, !.input = input, !.stamp = Now]
               step == IF input.branch # row.branch THEN "setBranch" ELSE AfterBranch(l)
    <2>1. l \in Local /\ l.current = row /\ l.input = input /\ l.identity = None
      <3>1. Now \in Stamps
        BY <1>1, TickType DEF UpdateRead, Inv, TypeOK
      <3> QED BY <1>0, <3>1, IdleType DEF Local, Idle, Blank
    <2>2. step \in UpdateSteps
      BY <2>1, AfterBranchType
    <2>3. /\ pc[r] = "idle" /\ row.state = "active" /\ Goto(r, step) /\ local'[r] = l
          /\ row' = row /\ location' = location /\ head' = head /\ record' = record
      BY <1>0, <1>1 DEF UpdateRead, storeVars
    <2> HIDE DEF step, l
    <2>4. Quiet
      BY <1>0, <2>2, <2>3, StartsQuiet
    <2>5. Live /\ Published
      BY <2>3, <2>4 DEF StoresInv, Stable
    <2>6. At(step, l)
      <3>1. CASE input.branch # row.branch
        BY <2>1, <2>3, <2>5, <3>1 DEF step
      <3>2. CASE input.branch = row.branch
        BY <2>1, <2>3, <2>5, <3>2, <1>a DEF step, Moved, Live
      <3> QED BY <3>1, <3>2
    <2>7. pc'[r] = step
      BY <1>0, <2>3 DEF Goto
    <2>8. At(pc[r], local[r])'
      BY <2>3, <2>6, <2>7 DEF Moved, Published, RowOK, Live, Gone
    <2> QED BY <1>0, <2>2, <2>3, <2>8, RequestStep
  <1>2. CASE SetDefaultBranch(r)
    <2>1. pc[r] = "setBranch" /\ Live /\ Published /\ row.state = "active" /\ local[r].current = row /\ local[r].identity = None
      BY <1>0, <1>2 DEF SetDefaultBranch
    <2>2. /\ head' = local[r].input.branch /\ Goto(r, AfterBranch(local[r])) /\ local' = local
          /\ row' = row /\ location' = location /\ record' = record
      BY <1>2, <2>1 DEF SetDefaultBranch, Continue, Live
    <2>3. AfterBranch(local[r]) \in {"publishUpdate", "unpublishUpdate", "store"} /\ pc'[r] = AfterBranch(local[r])
      BY <1>0, <2>2, AfterBranchType DEF Goto
    <2>4. At(pc[r], local[r])'
      <3>0. local[r].input.public \in BOOLEAN
        BY <1>0, LocalType
      <3>1. Moved(local[r])' /\ Published'
        BY <2>1, <2>2 DEF Moved, Live, Published, RowOK
      <3>2. CASE local[r].input.public
        <4>1. pc'[r] = "publishUpdate"
          BY <2>3, <3>2 DEF AfterBranch
        <4> QED BY <2>1, <2>2, <3>1, <3>2, <4>1
      <3>3. CASE ~local[r].input.public /\ local[r].current.at # None
        <4>1. pc'[r] = "unpublishUpdate"
          BY <2>3, <3>3 DEF AfterBranch
        <4> QED BY <2>1, <2>2, <3>1, <3>3, <4>1
      <3>4. CASE ~local[r].input.public /\ local[r].current.at = None
        <4>1. pc'[r] = "store"
          BY <2>3, <3>4 DEF AfterBranch
        <4>2. record' = None
          BY <2>1, <2>2, <3>4 DEF Live, RowOK, Published
        <4> QED BY <2>1, <2>2, <3>1, <3>4, <4>1, <4>2
      <3> QED BY <3>0, <3>2, <3>3, <3>4
    <2> QED BY <1>0, <2>1, <2>2, <2>3, <2>4, RequestStep
  <1>3. CASE UpdatePublish(r)
    <2> DEFINE stamp == local[r].stamp
    <2>1. /\ record' = stamp /\ local' = [local EXCEPT ![r].identity = stamp] /\ Goto(r, "store")
          /\ row' = row /\ location' = location /\ head' = head /\ pc[r] = "publishUpdate"
      BY <1>3 DEF UpdatePublish, Publish, PublishFails
    <2>2. stamp # None
      BY <1>0, LocalType, StampType
    <2>3. pc'[r] = "store" /\ local'[r] = [local[r] EXCEPT !.identity = stamp]
      BY <1>0, <2>1 DEF Goto
    <2>4. local'[r].identity = stamp /\ local'[r].current = local[r].current /\ local'[r].input = local[r].input
      BY <1>0, <2>3 DEF Local
    <2>5. At(pc[r], local[r])'
      BY <1>0, <2>1, <2>2, <2>3, <2>4 DEF Moved, RowOK
    <2> QED BY <1>0, <2>1, <2>5, RequestStep
  <1>4. CASE UpdateUnpublish(r)
    <2>0. /\ pc[r] = "unpublishUpdate" /\ row' = row /\ location' = location /\ head' = head
          /\ row.state = "active" /\ local[r].current = row /\ Moved(local[r]) /\ Published
          /\ local[r].identity = None /\ ~local[r].input.public
      BY <1>0, <1>4 DEF UpdateUnpublish
    <2>1. CASE record = local[r].current.at /\ Unpublish(local[r].current.at) /\ Continue(r, "store")
      <3>1. record' = None /\ Goto(r, "store") /\ local' = local /\ pc'[r] = "store"
        BY <1>0, <2>1 DEF Unpublish, Continue, Goto
      <3>2. At(pc[r], local[r])'
        BY <2>0, <3>1 DEF Moved, RowOK
      <3> QED BY <1>0, <3>1, <3>2, RequestStep
    <2>2. CASE Abort(r) /\ record' = record
      <3>1. location' = "live" /\ head' = local[r].input.branch /\ RowOK /\ (row.public <=> record' # None)
        BY <2>0, <2>2 DEF Moved, Published
      <3> QED BY <1>0, <2>0, <2>2, <3>1, AbortKeeps
    <2> QED BY <1>4, <2>1, <2>2 DEF UpdateUnpublish
  <1>5. CASE UpdateSettings(r)
    <2>0. /\ pc[r] = "store" /\ record' = record /\ location' = location /\ head' = head
          /\ row.state = "active" /\ local[r].current = row /\ Moved(local[r])
          /\ record = local[r].identity /\ (local[r].input.public <=> record # None)
      BY <1>0, <1>5 DEF UpdateSettings
    <2>1. CASE /\ Return(r)
               /\ row' = [row EXCEPT !.public = local[r].input.public, !.branch = local[r].input.branch,
                                     !.at = local[r].identity, !.stamp = local[r].stamp]
      <3>1. /\ row'.public = local[r].input.public /\ row'.branch = local[r].input.branch
            /\ row'.at = local[r].identity /\ row'.state = "active"
        BY <1>0, <2>0, <2>1 DEF Row
      <3>2. Stable'
        BY <2>0, <3>1 DEF Stable, Live, Published, RowOK, Moved
      <3> QED BY <1>0, <2>0, <2>1, <3>2, RequestStep DEF Return
    <2>2. CASE Continue(r, "compensate") /\ row' = row
      <3>1. Goto(r, "compensate") /\ local' = local /\ pc'[r] = "compensate"
        BY <1>0, <2>2 DEF Continue, Goto
      <3>2. At(pc[r], local[r])'
        BY <2>0, <2>2, <3>1 DEF Moved, RowOK
      <3> QED BY <1>0, <3>1, <3>2, RequestStep
    <2> QED BY <1>5, <2>1, <2>2 DEF UpdateSettings
  <1>6. CASE CompensatePublication(r)
    <2>0. /\ pc[r] = "compensate" /\ row' = row /\ location' = location /\ head' = head /\ Abort(r)
          /\ row.state = "active" /\ local[r].current = row /\ Moved(local[r]) /\ record = local[r].identity
      BY <1>0, <1>6 DEF CompensatePublication
    <2>1. IF row.public THEN record' = row.stamp ELSE record' = None
      BY <1>6, <2>0 DEF CompensatePublication, Publish, Unpublish
    <2>2. row.stamp # None
      BY <1>0, RowType, StampType
    <2>3. location' = "live" /\ head' = local[r].input.branch /\ RowOK /\ (row.public <=> record' # None)
      BY <2>0, <2>1, <2>2 DEF Moved
    <2> QED BY <1>0, <2>0, <2>3, AbortKeeps
  <1>7. CASE ResetBranch(r)
    <2>0. /\ pc[r] = "resetBranch" /\ row' = row /\ location' = location /\ record' = record /\ Goto(r, "idle")
          /\ row.state = "active" /\ local[r].current = row /\ Moved(local[r]) /\ Published
      BY <1>0, <1>7 DEF ResetBranch, Return
    <2>1. head' = row.branch
      BY <1>7, <2>0 DEF ResetBranch, Moved
    <2>2. Stable'
      BY <2>0, <2>1 DEF Stable, Live, Published, RowOK, Moved
    <2> QED BY <1>0, <2>0, <2>2, RequestStep
  <1> QED BY <1>1, <1>2, <1>3, <1>4, <1>5, <1>6, <1>7 DEF UpdateNext

\* Delete hands the repository over to its deletion, or brings it back.
LEMMA DeleteUndisturbed ==
  ASSUME NEW r \in Requests, Inv, IdleInv, OneAtATime, StoresInv, OneAtATime', ~Fails("git"), ~Fails("pds"),
         DeleteNext(r)
  PROVE  StoresInv'
  <1>0. /\ pc \in [Requests -> Steps] /\ row \in Row /\ local \in [Requests -> Local] /\ local[r] \in Local
        /\ pc[r] # "idle" => At(pc[r], local[r])
    BY DEF Inv, TypeOK, StoresInv
  <1> USE DEF At, CreateAt, UpdateAt, DeleteAt, RestoreAt, CreateSteps, UpdateSteps, DeleteSteps
  <1>a. ASSUME NEW step \in DeleteSteps, Continue(r, step)
        PROVE  Goto(r, step) /\ step # "idle" /\ pc'[r] = step /\ local' = local
    BY <1>0, <1>a DEF Continue, Goto
  <1>1. CASE DeleteRead(r)
    <2> DEFINE l == [Idle EXCEPT !.current = row]
               step == IF row.at = None THEN "quarantine" ELSE "unpublish"
    <2>1. l.current = row
      BY DEF Idle, Blank
    <2>2. /\ pc[r] = "idle" /\ row.state = "active" /\ Goto(r, step) /\ pc'[r] = step /\ local'[r] = l
          /\ row' = row /\ location' = location /\ head' = head /\ record' = record
      BY <1>0, <1>1 DEF DeleteRead, storeVars, Goto
    <2> HIDE DEF l
    <2>3. Quiet
      BY <1>0, <2>2, StartsQuiet
    <2>4. Live /\ Published
      BY <2>2, <2>3 DEF StoresInv, Stable
    <2>5. At(pc[r], local[r])'
      BY <2>1, <2>2, <2>4 DEF Live, Published, RowOK
    <2> QED BY <1>0, <2>2, <2>5, RequestStep
  <1>2. CASE DeleteUnpublish(r)
    <2>0. /\ pc[r] = "unpublish" /\ row' = row /\ location' = location /\ head' = head
          /\ row.state = "active" /\ local[r].current = row /\ Live /\ Published
      BY <1>0, <1>2 DEF DeleteUnpublish
    <2>1. CASE record = local[r].current.at /\ Unpublish(local[r].current.at) /\ Continue(r, "quarantine")
      <3>1. record' = None
        BY <2>1 DEF Unpublish
      <3>2. At(pc[r], local[r])'
        BY <1>a, <2>0, <2>1, <3>1 DEF Live, RowOK
      <3> QED BY <1>0, <1>a, <2>1, <3>2, RequestStep
    <2>2. CASE Return(r) /\ record' = record
      <3>1. Stable'
        BY <2>0, <2>2 DEF Stable, Live, Published, RowOK
      <3> QED BY <1>0, <2>0, <2>2, <3>1, RequestStep DEF Return
    <2> QED BY <1>2, <2>1, <2>2 DEF DeleteUnpublish
  <1>3. CASE Quarantine(r)
    <2>0. /\ pc[r] = "quarantine" /\ row' = row /\ head' = head /\ record' = record
          /\ row.state = "active" /\ local[r].current = row /\ Live /\ record = None
      BY <1>0, <1>3 DEF Quarantine
    <2>1. location' = "quarantine" /\ Continue(r, "request")
      BY <1>3, <2>0 DEF Quarantine, Live
    <2>2. At(pc[r], local[r])'
      BY <1>a, <2>0, <2>1 DEF Live, RowOK
    <2> QED BY <1>0, <1>a, <2>1, <2>2, RequestStep
  <1>4. CASE RequestDeletion(r)
    <2>0. /\ pc[r] = "request" /\ location' = location /\ head' = head /\ record' = record
          /\ row.state = "active" /\ local[r].current = row
          /\ location = "quarantine" /\ head = row.branch /\ RowOK /\ record = None
      BY <1>0, <1>4 DEF RequestDeletion
    <2>1. CASE row' = [row EXCEPT !.state = "deleting", !.stamp = Now] /\ Return(r)
      <3>1. row'.state = "deleting" /\ row'.branch = row.branch /\ row'.public = row.public /\ row'.at = row.at
        BY <1>0, <2>1 DEF Row
      <3>2. Stable'
        BY <2>0, <3>1 DEF Stable, Gone, RowOK
      <3> QED BY <1>0, <2>0, <2>1, <3>2, RequestStep DEF Return
    <2>2. CASE Continue(r, "unquarantine") /\ row' = row
      <3>1. At(pc[r], local[r])'
        BY <1>a, <2>0, <2>2 DEF RowOK
      <3> QED BY <1>0, <1>a, <2>2, <3>1, RequestStep
    <2> QED BY <1>4, <2>1, <2>2 DEF RequestDeletion
  <1>5. CASE DeleteRollback(r)
    <2>0. /\ pc[r] = "unquarantine" /\ row' = row /\ head' = head /\ record' = record
          /\ row.state = "active" /\ local[r].current = row
          /\ location = "quarantine" /\ head = row.branch /\ RowOK /\ record = None
      BY <1>0, <1>5 DEF DeleteRollback
    <2>1. location' = "live"
      BY <1>5, <2>0 DEF DeleteRollback, MoveBack
    <2>2. CASE row.public
      <3>1. Continue(r, "republish")
        BY <1>5, <2>0, <2>2 DEF DeleteRollback
      <3>2. At(pc[r], local[r])'
        BY <1>a, <2>0, <2>1, <2>2, <3>1 DEF Live, RowOK
      <3> QED BY <1>0, <1>a, <3>1, <3>2, RequestStep
    <2>3. CASE ~row.public
      <3>1. Return(r)
        BY <1>5, <2>0, <2>3 DEF DeleteRollback
      <3>2. Stable'
        BY <2>0, <2>1, <2>3 DEF Stable, Live, Published, RowOK
      <3> QED BY <1>0, <2>0, <3>1, <3>2, RequestStep DEF Return
    <2> QED BY <2>2, <2>3
  <1>6. CASE DeleteRepublish(r)
    <2>0. /\ pc[r] = "republish" /\ row' = row /\ location' = location /\ head' = head
          /\ row.state = "active" /\ local[r].current = row /\ Live /\ row.public /\ Goto(r, "idle")
      BY <1>0, <1>6 DEF DeleteRepublish, Return
    <2>1. record' = row.stamp /\ row.stamp # None
      BY <1>0, <1>6, <2>0, RowType, StampType DEF DeleteRepublish, Publish
    <2>2. Stable'
      BY <2>0, <2>1 DEF Stable, Live, Published, RowOK
    <2> QED BY <1>0, <2>0, <2>2, RequestStep
  <1> QED BY <1>1, <1>2, <1>3, <1>4, <1>5, <1>6 DEF DeleteNext

\* RestoreDeletion brings the repository back with its record, or leaves it to
\* its deletion.
LEMMA RestoreUndisturbed ==
  ASSUME NEW r \in Requests, Inv, IdleInv, OneAtATime, StoresInv, OneAtATime', ~Fails("git"), ~Fails("pds"),
         RestoreNext(r)
  PROVE  StoresInv'
  <1>0. /\ pc \in [Requests -> Steps] /\ row \in Row /\ local \in [Requests -> Local] /\ local[r] \in Local
        /\ pc[r] # "idle" => At(pc[r], local[r])
    BY DEF Inv, TypeOK, StoresInv
  <1> USE DEF At, CreateAt, UpdateAt, DeleteAt, RestoreAt, CreateSteps, UpdateSteps, DeleteSteps
  <1>a. ASSUME NEW step \in RestoreSteps, Continue(r, step)
        PROVE  Goto(r, step) /\ step # "idle" /\ pc'[r] = step /\ local' = local
    BY <1>0, <1>a DEF Continue, Goto, RestoreSteps
  <1> USE DEF RestoreSteps
  <1>1. CASE RestoreRead(r)
    <2>1. /\ pc[r] = "idle" /\ deletion.state = "pending" /\ Continue(r, "gitRestore")
          /\ row' = row /\ location' = location /\ head' = head /\ record' = record
      BY <1>1 DEF RestoreRead, storeVars
    <2>2. Quiet
      BY <1>0, <1>a, <2>1, StartsQuiet
    <2>3. row.state = "deleting"
      BY <2>1 DEF Inv, RowFollowsDeletion
    <2>4. Gone
      BY <2>2, <2>3 DEF StoresInv, Stable
    <2>5. At(pc[r], local[r])'
      BY <1>a, <2>1, <2>3, <2>4 DEF Gone, RowOK
    <2> QED BY <1>0, <1>a, <2>1, <2>5, RequestStep
  <1>2. CASE GitRestore(r)
    <2>0. /\ pc[r] = "gitRestore" /\ row' = row /\ head' = head /\ record' = record
          /\ row.state = "deleting" /\ Gone
      BY <1>0, <1>2 DEF GitRestore
    <2>1. CASE location' = "live" /\ Goto(r, "storeRestore")
      <3>1. pc'[r] = "storeRestore"
        BY <1>0, <2>1 DEF Goto
      <3>2. At(pc[r], local[r])'
        BY <2>0, <2>1, <3>1 DEF Live, Gone, RowOK
      <3> QED BY <1>0, <2>1, <3>2, RequestStep
    <2>2. CASE location' = location /\ Return(r)
      <3>1. Stable'
        BY <2>0, <2>2 DEF Stable, Gone, RowOK
      <3> QED BY <1>0, <2>0, <2>2, <3>1, RequestStep DEF Return
    <2> QED BY <1>2, <2>1, <2>2 DEF GitRestore
  <1>3. CASE StoreRestore(r)
    <2>0. /\ pc[r] = "storeRestore" /\ location' = location /\ head' = head /\ record' = record
          /\ row.state = "deleting" /\ Live /\ record = None
      BY <1>0, <1>3 DEF StoreRestore
    <2>1. CASE /\ row' = [row EXCEPT !.state = "active", !.stamp = Now]
               /\ IF row.public
                  THEN local' = [local EXCEPT ![r].current = row'] /\ Goto(r, "republishRestored")
                  ELSE Return(r)
      <3>1. row'.state = "active" /\ row'.branch = row.branch /\ row'.public = row.public /\ row'.at = row.at
        BY <1>0, <2>1 DEF Row
      <3>2. CASE row.public
        <4>1. local'[r] = [local[r] EXCEPT !.current = row'] /\ Goto(r, "republishRestored")
          BY <1>0, <2>1, <3>2
        <4>2. local'[r].current = row' /\ pc'[r] = "republishRestored"
          BY <1>0, <4>1 DEF Local, Goto
        <4>3. At(pc[r], local[r])'
          BY <2>0, <3>1, <3>2, <4>2 DEF Live, RowOK
        <4> QED BY <1>0, <4>1, <4>3, RequestStep
      <3>3. CASE ~row.public
        <4>1. Stable'
          BY <2>0, <3>1, <3>3 DEF Stable, Live, Published, RowOK
        <4> QED BY <1>0, <2>0, <2>1, <3>3, <4>1, RequestStep DEF Return
      <3> QED BY <3>2, <3>3
    <2>2. CASE Continue(r, "requarantine") /\ row' = row
      <3>1. At(pc[r], local[r])'
        BY <1>a, <2>0, <2>2 DEF Live, RowOK
      <3> QED BY <1>0, <1>a, <2>2, <3>1, RequestStep
    <2> QED BY <1>3, <2>1, <2>2 DEF StoreRestore
  <1>4. CASE Requarantine(r)
    <2>0. /\ pc[r] = "requarantine" /\ row' = row /\ head' = head /\ record' = record /\ Goto(r, "idle")
          /\ row.state = "deleting" /\ Live /\ record = None
      BY <1>0, <1>4 DEF Requarantine, Return
    <2>1. location' = "quarantine"
      BY <1>4, <2>0 DEF Requarantine, Live
    <2>2. Stable'
      BY <2>0, <2>1 DEF Stable, Gone, Live, RowOK
    <2> QED BY <1>0, <2>0, <2>2, RequestStep
  <1>5. CASE RestoreRepublish(r)
    <2> DEFINE stamp == local[r].current.stamp
    <2>1. /\ record' = stamp /\ local' = [local EXCEPT ![r].identity = stamp] /\ Goto(r, "storeIdentity")
          /\ row' = row /\ location' = location /\ head' = head /\ pc[r] = "republishRestored"
      BY <1>5 DEF RestoreRepublish, Publish, PublishFails
    <2>2. stamp # None
      BY <1>0, LocalType, StampType
    <2>3. pc'[r] = "storeIdentity" /\ local'[r] = [local[r] EXCEPT !.identity = stamp]
      BY <1>0, <2>1 DEF Goto
    <2>4. local'[r].identity = stamp /\ local'[r].current = local[r].current
      BY <1>0, <2>3 DEF Local
    <2>5. At(pc[r], local[r])'
      BY <1>0, <2>1, <2>2, <2>3, <2>4 DEF Live, RowOK
    <2> QED BY <1>0, <2>1, <2>5, RequestStep
  <1>6. CASE StoreIdentity(r)
    <2>0. /\ pc[r] = "storeIdentity" /\ location' = location /\ head' = head /\ record' = record /\ Goto(r, "idle")
          /\ row.state = "active" /\ local[r].current = row /\ Live /\ row.public /\ record # None
          /\ local[r].identity # None
      BY <1>0, <1>6 DEF StoreIdentity, Return
    <2>1. row'.state = "active" /\ row'.branch = row.branch /\ row'.public = row.public /\ row'.at # None
      BY <1>0, <1>6, <2>0 DEF StoreIdentity, Row, Live, RowOK
    <2>2. Stable'
      BY <2>0, <2>1 DEF Stable, Live, Published, RowOK
    <2> QED BY <1>0, <2>0, <2>2, RequestStep
  <1> QED BY <1>1, <1>2, <1>3, <1>4, <1>5, <1>6 DEF RestoreNext

\* The purge workers and time disturb no repository that is active.
LEMMA OtherUndisturbed ==
  ASSUME Inv, OneAtATime, StoresInv, OneAtATime',
         (\E w \in Workers : PurgeNext(w)) \/ Due
  PROVE  StoresInv'
  <1>0. row \in Row /\ worker \in [Workers -> {"list", "purge", "mark"}]
    BY DEF Inv, TypeOK
  <1>1. CASE Due
    <2>1. UNCHANGED <<row, location, head, record, pc, local>>
      BY <1>1 DEF Due
    <2>2. ASSUME NEW r \in Requests, pc'[r] # "idle" PROVE At(pc[r], local[r])'
      <3>1. At(pc[r], local[r])
        BY <2>1, <2>2 DEF StoresInv
      <3> QED BY <2>1, <3>1 DEF At, CreateAt, UpdateAt, DeleteAt, RestoreAt, Moved, Live, Published, RowOK, Gone
    <2>3. Quiet' => Stable'
      BY <2>1 DEF StoresInv, Quiet, Stable, Live, Published, RowOK, Gone
    <2> QED BY <2>2, <2>3 DEF StoresInv
  <1>2. ASSUME NEW w \in Workers, PurgeNext(w) PROVE StoresInv'
    <2>1. pc' = pc /\ Quiet
      <3>1. pc' = pc
        BY <1>2 DEF PurgeNext, ListDue, Purge, MarkPurged
      <3>2. CASE ListDue(w)
        <4>1. worker'[w] # "list"
          BY <1>0, <3>2 DEF ListDue
        <4> QED BY <3>1, <4>1 DEF OneAtATime, Quiet
      <3>3. CASE Purge(w) \/ MarkPurged(w)
        BY <3>1, <3>3 DEF Purge, MarkPurged, OneAtATime
      <3> QED BY <1>2, <3>1, <3>2, <3>3 DEF PurgeNext
    <2>2. Stable
      BY <2>1 DEF StoresInv
    <2>3. Stable'
      <3>1. CASE ListDue(w)
        BY <2>2, <3>1 DEF ListDue, storeVars, Stable, Live, Published, RowOK, Gone
      <3>2. CASE Purge(w)
        <4>1. row' = row /\ head' = head /\ record' = record
          BY <3>2 DEF Purge
        <4>2. location' = location \/ (location = "quarantine" /\ location' = "gone")
          BY <3>2 DEF Purge
        <4> QED BY <2>2, <4>1, <4>2 DEF Stable, Live, Published, RowOK, Gone
      <3>3. CASE MarkPurged(w)
        <4>1. location' = location /\ head' = head /\ record' = record
          BY <3>3 DEF MarkPurged
        <4>2. row' = row \/ row'.state = "deleted"
          BY <1>0, <3>3 DEF MarkPurged, Row
        <4> QED BY <2>2, <4>1, <4>2 DEF Stable, Live, Published, RowOK, Gone
      <3> QED BY <1>2, <3>1, <3>2, <3>3 DEF PurgeNext
    <2> QED BY <2>1, <2>3 DEF StoresInv, Quiet
  <1> QED BY <1>1, <1>2

\* A request that becomes idle forgets what it remembered.
LEMMA IdleKept ==
  ASSUME Inv, IdleInv, Step
  PROVE  IdleInv'
  <1>0. pc \in [Requests -> Steps] /\ local \in [Requests -> Local]
    BY DEF Inv, TypeOK
  <1>1. ASSUME NEW r \in Requests, Return(r) PROVE IdleInv'
    BY <1>0, <1>1 DEF Return, Goto, IdleInv
  <1>2. ASSUME NEW r \in Requests, NEW step \in Steps \ {"idle"}, Goto(r, step),
               \A q \in Requests \ {r} : local'[q] = local[q]
        PROVE  IdleInv'
    BY <1>0, <1>2 DEF Goto, IdleInv
  <1>3. ASSUME NEW r \in Requests, NEW step \in Steps \ {"idle"}, Continue(r, step) PROVE IdleInv'
    BY <1>2, <1>3 DEF Continue
  <1>4. ASSUME NEW r \in Requests, Abort(r) PROVE IdleInv'
    <2>1. "resetBranch" \in Steps \ {"idle"}
      BY DEF Steps, UpdateSteps
    <2> QED BY <1>1, <1>3, <1>4, <2>1 DEF Abort
  <1>5. ASSUME UNCHANGED <<pc, local>> PROVE IdleInv'
    BY <1>5 DEF IdleInv
  <1>6. ASSUME NEW r \in Requests, CreateNext(r) PROVE IdleInv'
    <2>1. {"init", "publish", "activate", "markFailed"} \subseteq Steps \ {"idle"}
      BY DEF Steps, CreateSteps
    <2>2. ASSUME NEW input \in Settings, CreateRow(r, input) PROVE IdleInv'
      BY <1>0, <1>2, <2>1, <2>2 DEF CreateRow
    <2>3. CASE GitInit(r)
      BY <1>3, <2>1, <2>3 DEF GitInit
    <2>4. CASE CreatePublish(r)
      BY <1>0, <1>2, <1>3, <2>1, <2>4 DEF CreatePublish
    <2>5. CASE Activate(r) \/ MarkFailed(r)
      BY <1>1, <2>5 DEF Activate, MarkFailed
    <2> QED BY <1>6, <2>2, <2>3, <2>4, <2>5 DEF CreateNext
  <1>7. ASSUME NEW r \in Requests, UpdateNext(r) PROVE IdleInv'
    <2>1. UpdateSteps \subseteq Steps \ {"idle"}
      BY DEF Steps, UpdateSteps
    <2>2. ASSUME NEW input \in Settings, UpdateRead(r, input) PROVE IdleInv'
      <3> DEFINE l == [Idle EXCEPT !.current = row, !.input = input, !.stamp = Now]
      <3>1. Now \in Stamps
        BY <2>2, TickType DEF UpdateRead, Inv, TypeOK
      <3>2. l \in Local
        BY <3>1, IdleType DEF Local, Inv, TypeOK
      <3>3. (IF input.branch # row.branch THEN "setBranch" ELSE AfterBranch(l)) \in UpdateSteps
        BY <3>2, AfterBranchType DEF UpdateSteps
      <3> QED BY <1>0, <1>2, <2>1, <2>2, <3>3 DEF UpdateRead
    <2>3. CASE SetDefaultBranch(r)
      <3>1. AfterBranch(local[r]) \in UpdateSteps
        BY <1>0, AfterBranchType DEF UpdateSteps
      <3> QED BY <1>1, <1>3, <2>1, <2>3, <3>1 DEF SetDefaultBranch
    <2>4. CASE UpdatePublish(r)
      <3>1. "store" \in Steps \ {"idle"}
        BY DEF Steps, UpdateSteps
      <3> QED BY <1>0, <1>2, <1>4, <2>4, <3>1 DEF UpdatePublish
    <2>5. CASE UpdateUnpublish(r) \/ UpdateSettings(r)
      <3>1. "store" \in Steps \ {"idle"} /\ "compensate" \in Steps \ {"idle"}
        BY DEF Steps, UpdateSteps
      <3> QED BY <1>1, <1>3, <1>4, <2>5, <3>1 DEF UpdateUnpublish, UpdateSettings
    <2>6. CASE CompensatePublication(r) \/ ResetBranch(r)
      BY <1>1, <1>4, <2>6 DEF CompensatePublication, ResetBranch
    <2> QED BY <1>7, <2>2, <2>3, <2>4, <2>5, <2>6 DEF UpdateNext
  <1>8. ASSUME NEW r \in Requests, DeleteNext(r) PROVE IdleInv'
    <2>1. {"unpublish", "quarantine", "request", "unquarantine", "republish"} \subseteq Steps \ {"idle"}
      BY DEF Steps, DeleteSteps
    <2>2. CASE DeleteRead(r)
      BY <1>0, <1>2, <2>1, <2>2 DEF DeleteRead
    <2>3. CASE ~DeleteRead(r)
      BY <1>1, <1>3, <1>8, <2>1, <2>3
         DEF DeleteNext, DeleteUnpublish, Quarantine, RequestDeletion, DeleteRollback, DeleteRepublish
    <2> QED BY <2>2, <2>3
  <1>9. ASSUME NEW r \in Requests, RestoreNext(r) PROVE IdleInv'
    <2>1. RestoreSteps \subseteq Steps \ {"idle"}
      BY DEF Steps, RestoreSteps
    <2>2. \/ Return(r)
          \/ \E step \in RestoreSteps : Goto(r, step) /\ \A q \in Requests \ {r} : local'[q] = local[q]
      BY <1>0, <1>9 DEF RestoreNext, RestoreRead, GitRestore, StoreRestore, Requarantine, RestoreRepublish,
                        StoreIdentity, RestoreSteps, Continue
    <2> QED BY <1>1, <1>2, <2>1, <2>2
  <1>10. ASSUME (\E w \in Workers : PurgeNext(w) \/ CrashWorker(w)) \/ Due PROVE IdleInv'
    <2>1. UNCHANGED <<pc, local>>
      BY <1>10 DEF PurgeNext, ListDue, Purge, MarkPurged, CrashWorker, Due
    <2> QED BY <1>5, <2>1
  <1>11. ASSUME NEW r \in Requests, CrashRequest(r) PROVE IdleInv'
    BY <1>1, <1>11 DEF CrashRequest
  <1> QED BY <1>6, <1>7, <1>8, <1>9, <1>10, <1>11 DEF Step

\* Every step keeps what an undisturbed history promises.
LEMMA NextCompensation == Inv /\ Inv' /\ CompensationInv /\ [Next]_vars => CompensationInv'
  <1> SUFFICES ASSUME Inv, Inv', IdleInv, SerialInv, [Next]_vars PROVE IdleInv' /\ SerialInv'
    BY DEF CompensationInv
  <1>1. CASE UNCHANGED vars
    <2>1. ASSUME NEW r \in Requests, At(pc[r], local[r]) PROVE At(pc[r], local[r])'
      BY <1>1, <2>1 DEF vars, At, CreateAt, UpdateAt, DeleteAt, RestoreAt, Moved, Live, Published, RowOK, Gone
    <2>2. (Quiet' <=> Quiet) /\ (Stable => Stable') /\ (Undisturbed' => Undisturbed) /\ (OneAtATime => OneAtATime')
      BY <1>1 DEF vars, Quiet, Stable, Live, Published, RowOK, Gone, Undisturbed, OneAtATime
    <2>3. IdleInv' /\ pc' = pc
      BY <1>1 DEF vars, IdleInv
    <2> QED BY <2>1, <2>2, <2>3 DEF SerialInv, StoresInv
  <1>2. CASE Next
    <2>1. IdleInv'
      BY <1>2, IdleKept DEF Next
    <2>2. ASSUME Undisturbed' PROVE OneAtATime' /\ StoresInv'
      <3>1. Undisturbed /\ ~Fails("git") /\ ~Fails("pds") /\ OneAtATime' /\ crashes' = 0
        BY <1>2, <2>2, UndisturbedBefore DEF Undisturbed
      <3>2. OneAtATime /\ StoresInv
        BY <3>1 DEF SerialInv
      <3>3. ASSUME NEW r \in Requests, CreateNext(r) \/ UpdateNext(r) \/ DeleteNext(r) \/ RestoreNext(r)
            PROVE  StoresInv'
        BY <3>1, <3>2, <3>3, CreateUndisturbed, UpdateUndisturbed, DeleteUndisturbed, RestoreUndisturbed
      <3>4. ASSUME (\E w \in Workers : PurgeNext(w)) \/ Due PROVE StoresInv'
        BY <3>1, <3>2, <3>4, OtherUndisturbed
      <3>5. ~(\E r \in Requests : CrashRequest(r)) /\ ~(\E w \in Workers : CrashWorker(w))
        BY <3>1 DEF CrashRequest, CrashWorker, Inv, TypeOK
      <3> QED BY <1>2, <3>1, <3>3, <3>4, <3>5 DEF Next, Step
    <2> QED BY <2>1, <2>2 DEF SerialInv
  <1> QED BY <1>1, <1>2

\* The initial state keeps it.
LEMMA InitCompensation == Init => CompensationInv
  BY DEF Init, CompensationInv, IdleInv, SerialInv, StoresInv, OneAtATime, Quiet, Stable, Idle, Blank

\* A request that fails in the database undoes what it did in Git and on the
\* PDS: as long as requests come one at a time, nothing crashes and Git and the
\* PDS answer, an active repository that no request is working on is live, its
\* HEAD is its default branch and it has a record exactly when it is public.
THEOREM FailuresCompensated == Spec => []CompensationComplete
  <1>1. CompensationInv => CompensationComplete
    BY DEF CompensationInv, SerialInv, StoresInv, Undisturbed, CompensationComplete, Stable, Live, Published
  <1>2. Inv /\ CompensationInv /\ [Next]_vars => Inv' /\ CompensationInv'
    BY NextInv, NextCompensation
  <1>3. Init => Inv /\ CompensationInv
    BY InitInv, InitCompensation
  <1> QED BY <1>1, <1>2, <1>3, PTL DEF Spec

=============================================================================
