-------------------------- MODULE RepositoryLifecycle --------------------------
(***************************************************************************)
(* The life of one repository (internal/repository): Create, Update, Delete *)
(* and RestoreDeletion requests and the purge workers, over three stores     *)
(* that share no transaction:                                               *)
(*   - the rows of core.repositories and core.repository_deletions,          *)
(*   - the bare Git directory, live or in quarantine (internal/storage),     *)
(*   - the record on the owner's PDS (internal/atproto).                     *)
(* The service compensates by hand.  A step may fail (FailKinds says in      *)
(* which store) and a process may crash between two steps.                  *)
(*                                                                          *)
(* Abstractions.  Names and descriptions are not told apart: a publication   *)
(* is determined by the updated_at it carries, so a CID is that stamp.       *)
(* purge_after is compared with clock readings only, hence the flag due.     *)
(***************************************************************************)
EXTENDS Naturals, FiniteSets

CONSTANTS Requests, Workers, Branches, None,
          FailKinds,     \* subset of {"git", "db", "pds"}: stores that may fail
          MaxFaults,     \* bound on failed steps
          MaxCrashes,    \* bound on crashes
          MaxClock       \* bound on distinct clock readings

Kinds == {"git", "db", "pds"}

ASSUME ConstantAssumption ==
  /\ FailKinds \subseteq Kinds
  /\ MaxFaults \in Nat /\ MaxCrashes \in Nat /\ MaxClock \in Nat
  /\ None \notin Nat /\ Branches # {}
  /\ IsFiniteSet(Requests) /\ IsFiniteSet(Workers)

VARIABLES
  row,        \* core.repositories
  deletion,   \* core.repository_deletions: repository_id is UNIQUE
  location,   \* where the Git directory is
  head,       \* its HEAD
  record,     \* CID of the record on the PDS
  clock,      \* last clock reading
  faults,     \* failed steps of every store
  crashes,
  serial,     \* no two requests or workers were ever at work at once
  pc, local,  \* requests in flight
  worker      \* purge workers: the next step of each

storeVars == <<row, deletion, location, head, record>>
vars == <<row, deletion, location, head, record, clock, faults, crashes, serial, pc, local, worker>>

-----------------------------------------------------------------------------
Stamps == 0..MaxClock
CID == Stamps \cup {None}
Row == [state: {"none", "creating", "active", "failed", "deleting", "deleted"},
        public: BOOLEAN, branch: Branches, at: CID, stamp: Stamps]
Deletion == [state: {"none", "pending", "restored", "purged"}, due: BOOLEAN]
Settings == [public: BOOLEAN, branch: Branches]

CreateSteps == {"init", "publish", "activate", "markFailed"}
UpdateSteps == {"setBranch", "publishUpdate", "unpublishUpdate", "store", "compensate", "resetBranch"}
DeleteSteps == {"unpublish", "quarantine", "request", "unquarantine", "republish"}
RestoreSteps == {"gitRestore", "storeRestore", "requarantine", "republishRestored", "storeIdentity"}
Steps == {"idle"} \cup CreateSteps \cup UpdateSteps \cup DeleteSteps \cup RestoreSteps

\* What a request remembers: the row it read, its input, the identity it
\* published and whether purge_after had passed at its clock reading.
Local == [current: Row, input: Settings, identity: CID, stamp: Stamps, late: BOOLEAN]

Blank(b) == [current |-> [state |-> "none", public |-> FALSE, branch |-> b, at |-> None, stamp |-> 0],
             input |-> [public |-> FALSE, branch |-> b], identity |-> None, stamp |-> 0, late |-> FALSE]

FirstBranch == CHOOSE b \in Branches : TRUE
Idle == Blank(FirstBranch)

Init ==
  /\ row = Idle.current
  /\ deletion = [state |-> "none", due |-> FALSE]
  /\ location = "none" /\ head = FirstBranch /\ record = None
  /\ clock = 0 /\ faults = [k \in Kinds |-> 0] /\ crashes = 0 /\ serial = TRUE
  /\ pc = [r \in Requests |-> "idle"]
  /\ local = [r \in Requests |-> Idle]
  /\ worker = [w \in Workers |-> "list"]

-----------------------------------------------------------------------------
\* Bookkeeping.
Goto(r, step) == pc' = [pc EXCEPT ![r] = step]
Return(r) == Goto(r, "idle") /\ local' = [local EXCEPT ![r] = Idle]
Continue(r, step) == Goto(r, step) /\ UNCHANGED local

\* A fresh reading of the clock.
Tick == clock < MaxClock /\ clock' = clock + 1
Now == clock + 1

\* The store of this kind refuses the step.
Fails(kind) ==
  /\ kind \in FailKinds /\ faults["git"] + faults["db"] + faults["pds"] < MaxFaults
  /\ faults' = [faults EXCEPT ![kind] = @ + 1]

\* Publish and Unpublish on the PDS.
Publish(stamp) == record' = stamp
Unpublish(cid) == record' = IF record = cid THEN None ELSE record

\* An answer that is lost may follow a write that was made.
PublishFails(stamp) == Fails("pds") /\ record' \in {record, stamp}

-----------------------------------------------------------------------------
\* Create.
CreateRow(r, input) ==
  /\ pc[r] = "idle" /\ row.state = "none"
  /\ Tick
  /\ row' = [state |-> "creating", public |-> input.public, branch |-> input.branch, at |-> None, stamp |-> Now]
  /\ local' = [local EXCEPT ![r].current = row']
  /\ Goto(r, "init")
  /\ UNCHANGED <<deletion, location, head, record, faults, crashes, worker>>

GitInit(r) ==
  /\ pc[r] = "init"
  /\ \/ /\ location' = "live" /\ head' = local[r].current.branch
        /\ Continue(r, IF local[r].current.public THEN "publish" ELSE "activate")
        /\ UNCHANGED faults
     \/ /\ Fails("git") /\ Continue(r, "markFailed")
        /\ UNCHANGED <<location, head>>
  /\ UNCHANGED <<row, deletion, record, clock, crashes, worker>>

CreatePublish(r) ==
  /\ pc[r] = "publish"
  /\ LET stamp == local[r].current.stamp IN
     \/ /\ Publish(stamp) /\ UNCHANGED faults
        /\ local' = [local EXCEPT ![r].identity = stamp] /\ Goto(r, "activate")
     \/ PublishFails(stamp) /\ Continue(r, "markFailed")
  /\ UNCHANGED <<row, deletion, location, head, clock, crashes, worker>>

\* A failed Activate has already replaced the repository that fail() is told
\* to mark by an empty one, so no row is marked.
Activate(r) ==
  /\ pc[r] = "activate"
  /\ \/ /\ Tick /\ UNCHANGED faults
        /\ row' = [row EXCEPT !.state = "active", !.at = local[r].identity, !.stamp = Now]
     \/ Fails("db") /\ UNCHANGED <<row, clock>>
  /\ Return(r)
  /\ UNCHANGED <<deletion, location, head, record, crashes, worker>>

\* Variant: a state the column's CHECK constraint does not allow.
MarkFailed_Misspelt(r) ==
  /\ pc[r] = "markFailed"
  /\ row' = [row EXCEPT !.state = "fail"]
  /\ Return(r)
  /\ UNCHANGED <<deletion, location, head, record, faults, clock, crashes, worker>>

MarkFailed(r) ==
  /\ pc[r] = "markFailed"
  /\ \/ row' = [row EXCEPT !.state = "failed"] /\ UNCHANGED faults
     \/ Fails("db") /\ UNCHANGED row
  /\ Return(r)
  /\ UNCHANGED <<deletion, location, head, record, clock, crashes, worker>>

-----------------------------------------------------------------------------
\* Update.
AfterBranch(l) ==
  CASE l.input.public -> "publishUpdate"
    [] ~l.input.public /\ l.current.at # None -> "unpublishUpdate"
    [] ~l.input.public /\ l.current.at = None -> "store"

\* The deferred rollback runs when the branch was changed.
Abort(r) ==
  IF local[r].input.branch # local[r].current.branch THEN Continue(r, "resetBranch") ELSE Return(r)

UpdateRead(r, input) ==
  /\ pc[r] = "idle" /\ row.state = "active"
  /\ Tick
  /\ LET l == [Idle EXCEPT !.current = row, !.input = input, !.stamp = Now] IN
       /\ local' = [local EXCEPT ![r] = l]
       /\ Goto(r, IF input.branch # row.branch THEN "setBranch" ELSE AfterBranch(l))
  /\ UNCHANGED <<storeVars, faults, crashes, worker>>

SetDefaultBranch(r) ==
  /\ pc[r] = "setBranch"
  /\ \/ /\ location = "live" /\ head' = local[r].input.branch
        /\ Continue(r, AfterBranch(local[r])) /\ UNCHANGED faults
     \/ location # "live" /\ Return(r) /\ UNCHANGED <<head, faults>>
     \/ Fails("git") /\ Return(r) /\ UNCHANGED head
  /\ UNCHANGED <<row, deletion, location, record, clock, crashes, worker>>

UpdatePublish(r) ==
  /\ pc[r] = "publishUpdate"
  /\ LET stamp == local[r].stamp IN
     \/ /\ Publish(stamp) /\ UNCHANGED faults
        /\ local' = [local EXCEPT ![r].identity = stamp] /\ Goto(r, "store")
     \/ PublishFails(stamp) /\ Abort(r)
  /\ UNCHANGED <<row, deletion, location, head, clock, crashes, worker>>

UpdateUnpublish(r) ==
  /\ pc[r] = "unpublishUpdate"
  /\ LET cid == local[r].current.at IN
     \/ record = cid /\ Unpublish(cid) /\ Continue(r, "store") /\ UNCHANGED faults
     \/ record # cid /\ Abort(r) /\ UNCHANGED <<record, faults>>
     \/ Fails("pds") /\ Abort(r) /\ record' \in {record, IF record = cid THEN None ELSE record}
  /\ UNCHANGED <<row, deletion, location, head, clock, crashes, worker>>

\* UpdateRepositorySettings: the row must still be active; the last writer wins.
UpdateSettings(r) ==
  /\ pc[r] = "store"
  /\ \/ /\ row.state = "active" /\ UNCHANGED faults
        /\ row' = [row EXCEPT !.public = local[r].input.public, !.branch = local[r].input.branch,
                              !.at = local[r].identity, !.stamp = local[r].stamp]
        /\ Return(r)
     \/ row.state # "active" /\ Continue(r, "compensate") /\ UNCHANGED <<row, faults>>
     \/ Fails("db") /\ Continue(r, "compensate") /\ UNCHANGED row
  /\ UNCHANGED <<deletion, location, head, record, clock, crashes, worker>>

\* Variant: the record that was published is left behind.
CompensatePublication_Skip(r) ==
  /\ pc[r] = "compensate"
  /\ Abort(r)
  /\ UNCHANGED <<row, deletion, location, head, record, faults, clock, crashes, worker>>

\* compensatePublication: its own errors are ignored.
CompensatePublication(r) ==
  /\ pc[r] = "compensate"
  /\ LET l == local[r] IN
     \/ /\ UNCHANGED faults
        /\ IF l.current.public THEN Publish(l.current.stamp) ELSE Unpublish(l.identity)
     \/ Fails("pds") /\ UNCHANGED record
  /\ Abort(r)
  /\ UNCHANGED <<row, deletion, location, head, clock, crashes, worker>>

ResetBranch(r) ==
  /\ pc[r] = "resetBranch"
  /\ \/ head' = (IF location = "live" THEN local[r].current.branch ELSE head) /\ UNCHANGED faults
     \/ Fails("git") /\ UNCHANGED head
  /\ Return(r)
  /\ UNCHANGED <<row, deletion, location, record, clock, crashes, worker>>

-----------------------------------------------------------------------------
\* Delete.
DeleteRead(r) ==
  /\ pc[r] = "idle" /\ row.state = "active"
  /\ local' = [local EXCEPT ![r] = [Idle EXCEPT !.current = row]]
  /\ Goto(r, IF row.at = None THEN "quarantine" ELSE "unpublish")
  /\ UNCHANGED <<storeVars, clock, faults, crashes, worker>>

DeleteUnpublish(r) ==
  /\ pc[r] = "unpublish"
  /\ LET cid == local[r].current.at IN
     \/ record = cid /\ Unpublish(cid) /\ Continue(r, "quarantine") /\ UNCHANGED faults
     \/ record # cid /\ Return(r) /\ UNCHANGED <<record, faults>>
     \/ Fails("pds") /\ Return(r) /\ record' \in {record, IF record = cid THEN None ELSE record}
  /\ UNCHANGED <<row, deletion, location, head, clock, crashes, worker>>

\* A failed Quarantine is not compensated.
Quarantine(r) ==
  /\ pc[r] = "quarantine"
  /\ \/ location = "live" /\ location' = "quarantine" /\ Continue(r, "request") /\ UNCHANGED faults
     \/ location # "live" /\ Return(r) /\ UNCHANGED <<location, faults>>
     \/ Fails("git") /\ Return(r) /\ UNCHANGED location
  /\ UNCHANGED <<row, deletion, head, record, clock, crashes, worker>>

\* RequestRepositoryDeletion: an earlier deletion, even a restored one,
\* violates the UNIQUE constraint on repository_id.
RequestDeletion(r) ==
  /\ pc[r] = "request"
  /\ \/ /\ row.state = "active" /\ deletion.state = "none" /\ UNCHANGED faults
        /\ Tick
        /\ row' = [row EXCEPT !.state = "deleting", !.stamp = Now]
        /\ deletion' = [state |-> "pending", due |-> FALSE]
        /\ Return(r)
     \/ /\ row.state # "active" \/ deletion.state # "none"
        /\ Continue(r, "unquarantine") /\ UNCHANGED <<row, deletion, clock, faults>>
     \/ Fails("db") /\ Continue(r, "unquarantine") /\ UNCHANGED <<row, deletion, clock>>
  /\ UNCHANGED <<location, head, record, crashes, worker>>

MoveBack == location' = IF location = "quarantine" THEN "live" ELSE location

DeleteRollback(r) ==
  /\ pc[r] = "unquarantine"
  /\ \/ MoveBack /\ UNCHANGED faults
     \/ Fails("git") /\ UNCHANGED location
  /\ IF local[r].current.public THEN Continue(r, "republish") ELSE Return(r)
  /\ UNCHANGED <<row, deletion, head, record, clock, crashes, worker>>

DeleteRepublish(r) ==
  /\ pc[r] = "republish"
  /\ \/ Publish(local[r].current.stamp) /\ UNCHANGED faults
     \/ Fails("pds") /\ UNCHANGED record
  /\ Return(r)
  /\ UNCHANGED <<row, deletion, location, head, clock, crashes, worker>>

-----------------------------------------------------------------------------
\* RestoreDeletion.
RestoreRead(r) ==
  /\ pc[r] = "idle" /\ deletion.state = "pending"
  /\ Continue(r, "gitRestore")
  /\ UNCHANGED <<storeVars, clock, faults, crashes, worker>>

\* The directory moves back, and the clock is read for the statement that follows.
GitRestore(r) ==
  /\ pc[r] = "gitRestore"
  /\ \/ /\ location = "quarantine" /\ location' = "live" /\ UNCHANGED faults
        /\ local' = [local EXCEPT ![r].late = deletion.due] /\ Goto(r, "storeRestore")
     \/ location # "quarantine" /\ Return(r) /\ UNCHANGED <<location, faults>>
     \/ Fails("git") /\ Return(r) /\ UNCHANGED location
  /\ UNCHANGED <<row, deletion, head, record, clock, crashes, worker>>

StoreRestore(r) ==
  /\ pc[r] = "storeRestore"
  /\ \/ /\ deletion.state = "pending" /\ ~local[r].late /\ UNCHANGED faults
        /\ Tick
        /\ deletion' = [deletion EXCEPT !.state = "restored"]
        /\ row' = [row EXCEPT !.state = "active", !.stamp = Now]
        /\ IF row.public
           THEN local' = [local EXCEPT ![r].current = row'] /\ Goto(r, "republishRestored")
           ELSE Return(r)
     \/ /\ deletion.state # "pending" \/ local[r].late
        /\ Continue(r, "requarantine") /\ UNCHANGED <<row, deletion, clock, faults>>
     \/ Fails("db") /\ Continue(r, "requarantine") /\ UNCHANGED <<row, deletion, clock>>
  /\ UNCHANGED <<location, head, record, crashes, worker>>

\* The error of this Quarantine is ignored.
Requarantine(r) ==
  /\ pc[r] = "requarantine"
  /\ \/ location' = (IF location = "live" THEN "quarantine" ELSE location) /\ UNCHANGED faults
     \/ Fails("git") /\ UNCHANGED location
  /\ Return(r)
  /\ UNCHANGED <<row, deletion, head, record, clock, crashes, worker>>

RestoreRepublish(r) ==
  /\ pc[r] = "republishRestored"
  /\ LET stamp == local[r].current.stamp IN
     \/ /\ Publish(stamp) /\ UNCHANGED faults
        /\ local' = [local EXCEPT ![r].identity = stamp] /\ Goto(r, "storeIdentity")
     \/ PublishFails(stamp) /\ Return(r)
  /\ UNCHANGED <<row, deletion, location, head, clock, crashes, worker>>

\* UpdateSettings with the settings of the restored row.
StoreIdentity(r) ==
  /\ pc[r] = "storeIdentity"
  /\ \/ /\ row.state = "active" /\ UNCHANGED faults
        /\ Tick
        /\ row' = [row EXCEPT !.public = local[r].current.public, !.branch = local[r].current.branch,
                              !.at = local[r].identity, !.stamp = Now]
     \/ row.state # "active" /\ UNCHANGED <<row, clock, faults>>
     \/ Fails("db") /\ UNCHANGED <<row, clock>>
  /\ Return(r)
  /\ UNCHANGED <<deletion, location, head, record, crashes, worker>>

-----------------------------------------------------------------------------
\* The purge worker.  A failed step ends the pass; superviseWorker starts another.
ListDue(w) ==
  /\ worker[w] = "list" /\ deletion.state = "pending" /\ deletion.due
  /\ worker' = [worker EXCEPT ![w] = "purge"]
  /\ UNCHANGED <<storeVars, clock, faults, crashes, pc, local>>

\* A directory that is not in quarantine counts as purged.
Purge(w) ==
  /\ worker[w] = "purge"
  /\ \/ /\ location' = (IF location = "quarantine" THEN "gone" ELSE location)
        /\ worker' = [worker EXCEPT ![w] = "mark"] /\ UNCHANGED faults
     \/ Fails("git") /\ worker' = [worker EXCEPT ![w] = "list"] /\ UNCHANGED location
  /\ UNCHANGED <<row, deletion, head, record, clock, crashes, pc, local>>

\* Variant: a deletion that was restored meanwhile is marked too.
MarkPurged_Restored(w) ==
  /\ worker[w] = "mark"
  /\ deletion' = [deletion EXCEPT !.state = "purged"] /\ row' = [row EXCEPT !.state = "deleted"]
  /\ worker' = [worker EXCEPT ![w] = "list"]
  /\ UNCHANGED <<location, head, record, clock, faults, crashes, pc, local>>

\* Variant: only the deletion is marked.
MarkPurged_DeletionOnly(w) ==
  /\ worker[w] = "mark"
  /\ deletion' = [deletion EXCEPT !.state = IF @ = "pending" THEN "purged" ELSE @]
  /\ worker' = [worker EXCEPT ![w] = "list"]
  /\ UNCHANGED <<row, location, head, record, clock, faults, crashes, pc, local>>

MarkPurged(w) ==
  /\ worker[w] = "mark"
  /\ \/ /\ UNCHANGED faults
        /\ IF deletion.state = "pending"
           THEN deletion' = [deletion EXCEPT !.state = "purged"] /\ row' = [row EXCEPT !.state = "deleted"]
           ELSE UNCHANGED <<row, deletion>>
     \/ Fails("db") /\ UNCHANGED <<row, deletion>>
  /\ worker' = [worker EXCEPT ![w] = "list"]
  /\ UNCHANGED <<location, head, record, clock, crashes, pc, local>>

-----------------------------------------------------------------------------
\* purge_after passes.
Due ==
  /\ deletion.state = "pending" /\ ~deletion.due
  /\ deletion' = [deletion EXCEPT !.due = TRUE]
  /\ UNCHANGED <<row, location, head, record, clock, faults, crashes, pc, local, worker>>

\* The process dies between two steps: no compensation runs.
CrashRequest(r) ==
  /\ crashes < MaxCrashes /\ pc[r] # "idle"
  /\ Return(r) /\ crashes' = crashes + 1
  /\ UNCHANGED <<storeVars, clock, faults, worker>>

CrashWorker(w) ==
  /\ crashes < MaxCrashes /\ worker[w] # "list"
  /\ worker' = [worker EXCEPT ![w] = "list"] /\ crashes' = crashes + 1
  /\ UNCHANGED <<storeVars, clock, faults, pc, local>>

CreateNext(r) ==
  \/ \E input \in Settings : CreateRow(r, input)
  \/ GitInit(r) \/ CreatePublish(r) \/ Activate(r) \/ MarkFailed(r)

UpdateNext(r) ==
  \/ \E input \in Settings : UpdateRead(r, input)
  \/ SetDefaultBranch(r) \/ UpdatePublish(r) \/ UpdateUnpublish(r) \/ UpdateSettings(r)
  \/ CompensatePublication(r) \/ ResetBranch(r)

DeleteNext(r) ==
  \/ DeleteRead(r) \/ DeleteUnpublish(r) \/ Quarantine(r) \/ RequestDeletion(r)
  \/ DeleteRollback(r) \/ DeleteRepublish(r)

RestoreNext(r) ==
  \/ RestoreRead(r) \/ GitRestore(r) \/ StoreRestore(r) \/ Requarantine(r)
  \/ RestoreRepublish(r) \/ StoreIdentity(r)

PurgeNext(w) == ListDue(w) \/ Purge(w) \/ MarkPurged(w)

Step ==
  \/ \E r \in Requests : CreateNext(r) \/ UpdateNext(r) \/ DeleteNext(r) \/ RestoreNext(r) \/ CrashRequest(r)
  \/ \E w \in Workers : PurgeNext(w) \/ CrashWorker(w)
  \/ Due

Busy == Cardinality({r \in Requests : pc[r] # "idle"}) + Cardinality({w \in Workers : worker[w] # "list"})

Next == Step /\ serial' = (serial /\ Busy' <= 1)

Spec == Init /\ [][Next]_vars

-----------------------------------------------------------------------------
\* Correctness.

\* Every variable keeps its type.
TypeOK ==
  /\ row \in Row /\ deletion \in Deletion
  /\ location \in {"none", "live", "quarantine", "gone"} /\ head \in Branches /\ record \in CID
  /\ clock \in Stamps /\ faults \in [Kinds -> 0..MaxFaults] /\ crashes \in 0..MaxCrashes
  /\ serial \in BOOLEAN
  /\ pc \in [Requests -> Steps] /\ local \in [Requests -> Local]
  /\ worker \in [Workers -> {"list", "purge", "mark"}]

\* The two tables tell one story, whatever requests, workers, failures and
\* crashes interleave: a repository is being deleted exactly while its
\* deletion is pending, and deleted exactly when that deletion was purged.
RowFollowsDeletion ==
  /\ row.state = "deleting" <=> deletion.state = "pending"
  /\ row.state = "deleted" <=> deletion.state = "purged"

\* Restoring and purging exclude each other: whichever statement comes first
\* decides, and the late one of the other side changes nothing.
DeletionDecidedOnce ==
  [][deletion.state \in {"restored", "purged"} => deletion' = deletion]_vars

Quiet == \A r \in Requests : pc[r] = "idle"

\* A request that fails in the database undoes what it did elsewhere: an active
\* repository that nobody is working on is live, its HEAD is its default
\* branch, and it has a record exactly when it is public, as long as the
\* requests came one at a time, nothing crashed and Git and PDS answered.
CompensationComplete ==
  (serial /\ crashes = 0 /\ faults["git"] = 0 /\ faults["pds"] = 0 /\ Quiet /\ row.state = "active") =>
    /\ location = "live" /\ head = row.branch
    /\ row.public <=> record # None
-----------------------------------------------------------------------------
\* What comments, tests and the API description promise and the code does not keep.

\* Deleting the deletion resource restores the repository: a deletion that was
\* restored never costs the Git data.
RestoredDataKept == deletion.state = "restored" => location # "gone"
=============================================================================
