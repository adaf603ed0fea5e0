----------------------------- MODULE ReleaseAssets -----------------------------
(***************************************************************************)
(* Releases and their downloadable assets (internal/release): concurrent     *)
(* requests over the rows of one repository in PostgreSQL and the bytes in a *)
(* blob store that takes part in no transaction.                            *)
(*                                                                          *)
(* Abstractions.  A release and an asset are their identifiers, generated    *)
(* fresh for each, so an identifier is used once.  The bytes of an asset are *)
(* stored under a key made of its identifier and are complete when present.  *)
(* Transactions under the advisory lock of the repository are one step.      *)
(***************************************************************************)
EXTENDS Integers, FiniteSets

CONSTANTS Requests, Releases, Assets, None,
          Name,             \* Name[a]: file name the client gives asset a
          Size,             \* Size[a]: declared and verified size of asset a
          ReleaseBytes, RepositoryBytes,   \* limits
          FaultKinds,       \* mishaps that may happen, each at most once
          MaxFaults         \* bound on mishaps

Kinds == {"answer", "database", "storage", "stop"}

ASSUME SizeAssumption == Size \in [Assets -> Nat]
ASSUME LimitAssumption == ReleaseBytes \in Nat /\ RepositoryBytes \in Nat
ASSUME FaultAssumption == FaultKinds \subseteq Kinds /\ MaxFaults \in Nat
ASSUME NoneAssumption == None \notin Releases \cup Assets

VARIABLES
  releases,   \* core.releases: the state of each release
  rows,       \* core.release_assets: the release of each asset
  blobs,      \* assets whose bytes the store holds
  issued,     \* asset identifiers generated so far
  pc, local,  \* requests in flight
  faults,     \* mishaps that happened
  doomed,     \* ghost: assets whose deletion has read them
  revived     \* ghost: an Update overwrote "deleting"

rowVars == <<releases, rows>>
ghostVars == <<doomed, revived>>
vars == <<releases, rows, blobs, issued, pc, local, faults, doomed, revived>>

-----------------------------------------------------------------------------
Visible == {"draft", "published"}
Present == Visible \cup {"deleting"}
States == Present \cup {"absent", "deleted"}
DeleteSteps == {"list", "next", "blob", "row"}
Steps == {"idle", "write", "put", "insert", "cleanup"} \cup DeleteSteps

\* all: the request deletes a whole release, todo the assets it still has to delete.
Local == [release: Releases \cup {None}, asset: Assets \cup {None}, draft: BOOLEAN,
          all: BOOLEAN, todo: SUBSET Assets]
Idle == [release |-> None, asset |-> None, draft |-> FALSE, all |-> FALSE, todo |-> {}]

Init ==
  /\ releases = [x \in Releases |-> "absent"]
  /\ rows = [a \in Assets |-> None]
  /\ blobs = {} /\ issued = {}
  /\ pc = [r \in Requests |-> "idle"] /\ local = [r \in Requests |-> Idle]
  /\ faults = {} /\ doomed = {} /\ revived = FALSE

-----------------------------------------------------------------------------
Goto(r, step) == pc' = [pc EXCEPT ![r] = step]
Return(r) == Goto(r, "idle") /\ local' = [local EXCEPT ![r] = Idle]
Fails(kind) ==
  /\ kind \in FaultKinds \ faults /\ Cardinality(faults) < MaxFaults
  /\ faults' = faults \cup {kind}

ReleaseState(draft) == IF draft THEN "draft" ELSE "published"

\* Create: one INSERT; the tag it names is read before and never again.
CreateRelease(r, x, draft) ==
  /\ pc[r] = "idle" /\ releases[x] = "absent"
  /\ releases' = [releases EXCEPT ![x] = ReleaseState(draft)]
  /\ UNCHANGED <<rows, blobs, issued, pc, local, faults, ghostVars>>

\* Update: a read, and a write that does not look at the state again.
UpdateRead(r, x, draft) ==
  /\ pc[r] = "idle" /\ releases[x] \in Visible
  /\ local' = [local EXCEPT ![r] = [Idle EXCEPT !.release = x, !.draft = draft]]
  /\ Goto(r, "write")
  /\ UNCHANGED <<rowVars, blobs, issued, faults, ghostVars>>

UpdateRelease(r) ==
  /\ pc[r] = "write"
  /\ LET x == local[r].release IN
       IF releases[x] \in Present
       THEN /\ releases' = [releases EXCEPT ![x] = ReleaseState(local[r].draft)]
            /\ revived' = (revived \/ releases[x] = "deleting")
       ELSE UNCHANGED <<releases, revived>>
  /\ Return(r)
  /\ UNCHANGED <<rows, blobs, issued, faults, doomed>>

-----------------------------------------------------------------------------
\* UploadAsset.
UploadRead(r, x, a) ==
  /\ pc[r] = "idle" /\ releases[x] \in Visible /\ a \notin issued
  /\ issued' = issued \cup {a}
  /\ local' = [local EXCEPT ![r] = [Idle EXCEPT !.release = x, !.asset = a]]
  /\ Goto(r, "put")
  /\ UNCHANGED <<rowVars, blobs, faults, ghostVars>>

\* Put: the bytes appear at once, when all of them are there.  A store on the
\* network may do what it is asked and fail to say so.
Put(r) ==
  /\ pc[r] = "put"
  /\ \/ blobs' = blobs \cup {local[r].asset} /\ Goto(r, "insert") /\ UNCHANGED <<local, faults>>
     \/ Fails("storage") /\ Return(r) /\ blobs' \in {blobs, blobs \cup {local[r].asset}}
  /\ UNCHANGED <<rowVars, issued, ghostVars>>

\* SUM(size): an asset has the bytes 1 to Size[a], and usage is how many there are.
Bytes(S) == UNION {{a} \X (1 .. Size[a]) : a \in S}
Usage(S) == Cardinality(Bytes(S))
InRelease(x) == {a \in Assets : rows[a] = x}
InRepository == {a \in Assets : rows[a] # None}

\* Variant: compares what is used, not what would be used.
Exceeds_Used(current, additional, maximum) == current > maximum

Exceeds(current, additional, maximum) == current > maximum - additional

\* Variant: the release is not looked at again.
Insertable_AnyState(x, a) ==
  /\ releases[x] \in Present
  /\ ~Exceeds(Usage(InRelease(x)), Size[a], ReleaseBytes)
  /\ ~Exceeds(Usage(InRepository), Size[a], RepositoryBytes)
  /\ \A b \in InRelease(x) : Name[b] # Name[a]

\* CreateAsset's transaction: lock, usage, state, quotas, insert.
Insertable(x, a) ==
  /\ releases[x] \in Visible
  /\ ~Exceeds(Usage(InRelease(x)), Size[a], ReleaseBytes)
  /\ ~Exceeds(Usage(InRepository), Size[a], RepositoryBytes)
  /\ \A b \in InRelease(x) : Name[b] # Name[a]

\* Variant: a state no column holds.
CreateAsset_Unbound(r) ==
  /\ pc[r] = "insert"
  /\ rows' = [rows EXCEPT ![local[r].asset] = local[r].asset]
  /\ Return(r)
  /\ UNCHANGED <<releases, blobs, issued, faults, ghostVars>>

CreateAsset(r) ==
  /\ pc[r] = "insert"
  /\ LET x == local[r].release
         a == local[r].asset
         inserted == [rows EXCEPT ![a] = x] IN
     \/ Insertable(x, a) /\ rows' = inserted /\ Return(r) /\ UNCHANGED faults
     \/ ~Insertable(x, a) /\ Goto(r, "cleanup") /\ UNCHANGED <<rows, local, faults>>
     \/ Fails("database") /\ Goto(r, "cleanup") /\ UNCHANGED <<rows, local>>
     \/ Insertable(x, a) /\ Fails("answer") /\ rows' = inserted /\ Goto(r, "cleanup") /\ UNCHANGED local
  /\ UNCHANGED <<releases, blobs, issued, ghostVars>>

\* Variant: the key of the bytes is the file name, so those of a namesake go.
Cleanup_ByName(r) ==
  /\ pc[r] = "cleanup"
  /\ blobs' = {b \in blobs : Name[b] # Name[local[r].asset]}
  /\ Return(r)
  /\ UNCHANGED <<rowVars, issued, faults, ghostVars>>

\* The compensating delete, on a context that cannot be cancelled.
Cleanup(r) ==
  /\ pc[r] = "cleanup"
  /\ \/ blobs' = blobs \ {local[r].asset} /\ UNCHANGED faults
     \/ Fails("storage") /\ blobs' \in {blobs, blobs \ {local[r].asset}}
  /\ Return(r)
  /\ UNCHANGED <<rowVars, issued, ghostVars>>

-----------------------------------------------------------------------------
\* Delete and DeleteAsset.
BeginDeleteRelease(r, x) ==
  /\ pc[r] = "idle" /\ releases[x] \in Present
  /\ releases' = [releases EXCEPT ![x] = "deleting"]
  /\ local' = [local EXCEPT ![r] = [Idle EXCEPT !.release = x, !.all = TRUE]]
  /\ Goto(r, "list")
  /\ UNCHANGED <<rows, blobs, issued, faults, ghostVars>>

ListAssets(r) ==
  /\ pc[r] = "list"
  /\ local' = [local EXCEPT ![r].todo = InRelease(local[r].release)]
  /\ Goto(r, "next")
  /\ UNCHANGED <<rowVars, blobs, issued, faults, ghostVars>>

\* GetAsset of the next listed asset; the order (by identifier) is immaterial.
DeleteNext(r) ==
  /\ pc[r] = "next"
  /\ \E a \in local[r].todo :
       IF rows[a] = local[r].release
       THEN /\ local' = [local EXCEPT ![r].asset = a] /\ Goto(r, "blob")
            /\ doomed' = doomed \cup {a}
       ELSE Return(r) /\ UNCHANGED doomed
  /\ UNCHANGED <<rowVars, blobs, issued, faults, revived>>

\* The row goes, and with it (ON DELETE CASCADE) the rows of its assets.
DeleteRelease(r) ==
  /\ pc[r] = "next" /\ local[r].todo = {}
  /\ LET x == local[r].release IN
       IF releases[x] \in Present
       THEN /\ releases' = [releases EXCEPT ![x] = "deleted"]
            /\ rows' = [a \in Assets |-> IF rows[a] = x THEN None ELSE rows[a]]
       ELSE UNCHANGED rowVars
  /\ Return(r)
  /\ UNCHANGED <<blobs, issued, faults, ghostVars>>

DeleteAsset(r, a) ==
  /\ pc[r] = "idle" /\ rows[a] # None
  /\ local' = [local EXCEPT ![r] = [Idle EXCEPT !.release = rows[a], !.asset = a]]
  /\ doomed' = doomed \cup {a}
  /\ Goto(r, "blob")
  /\ UNCHANGED <<rowVars, blobs, issued, faults, revived>>

DeleteBlob(r) ==
  /\ pc[r] = "blob"
  /\ \/ blobs' = blobs \ {local[r].asset} /\ Goto(r, "row") /\ UNCHANGED <<local, faults>>
     \/ Fails("storage") /\ Return(r) /\ blobs' \in {blobs, blobs \ {local[r].asset}}
  /\ UNCHANGED <<rowVars, issued, ghostVars>>

\* No row is an error, which ends the deletion of the release too.
DeleteRow(r) ==
  /\ pc[r] = "row"
  /\ LET a == local[r].asset IN
     \/ /\ rows[a] = local[r].release /\ UNCHANGED faults
        /\ rows' = [rows EXCEPT ![a] = None]
        /\ IF local[r].all
           THEN local' = [local EXCEPT ![r].todo = @ \ {a}, ![r].asset = None] /\ Goto(r, "next")
           ELSE Return(r)
     \/ rows[a] # local[r].release /\ Return(r) /\ UNCHANGED <<rows, faults>>
     \/ Fails("database") /\ Return(r) /\ UNCHANGED rows
  /\ UNCHANGED <<releases, blobs, issued, ghostVars>>

-----------------------------------------------------------------------------
\* The process dies, or a read fails, between two steps.
Stop(r) ==
  /\ pc[r] # "idle" /\ Fails("stop") /\ Return(r)
  /\ UNCHANGED <<rowVars, blobs, issued, ghostVars>>

UploadNext(r) ==
  \/ \E x \in Releases, a \in Assets : UploadRead(r, x, a)
  \/ Put(r) \/ CreateAsset(r) \/ Cleanup(r)

DeletionNext(r) ==
  \/ \E x \in Releases : BeginDeleteRelease(r, x)
  \/ \E a \in Assets : DeleteAsset(r, a)
  \/ ListAssets(r) \/ DeleteNext(r) \/ DeleteRelease(r) \/ DeleteBlob(r) \/ DeleteRow(r)

Next == \E r \in Requests :
  \/ \E x \in Releases, draft \in BOOLEAN : CreateRelease(r, x, draft) \/ UpdateRead(r, x, draft)
  \/ UpdateRelease(r) \/ UploadNext(r) \/ DeletionNext(r) \/ Stop(r)

Spec == Init /\ [][Next]_vars

-----------------------------------------------------------------------------
\* Correctness.

\* Every variable keeps its type.
TypeOK ==
  /\ releases \in [Releases -> States] /\ rows \in [Assets -> Releases \cup {None}]
  /\ blobs \subseteq Assets /\ issued \subseteq Assets
  /\ pc \in [Requests -> Steps] /\ local \in [Requests -> Local]
  /\ faults \subseteq Kinds /\ doomed \subseteq Assets /\ revived \in BOOLEAN

\* However many uploads run at once, no release and no repository stores more
\* than its limit: the quota is reserved under the lock, after the bytes.
QuotaRespected ==
  /\ \A x \in Releases : Usage(InRelease(x)) <= ReleaseBytes
  /\ Usage(InRepository) <= RepositoryBytes

\* An asset that is listed can be downloaded: its row has its bytes until
\* somebody starts to delete it.  Only a commit whose answer was lost, and
\* whose bytes the upload then cleans up, is excepted.
RowsHaveBytes ==
  "answer" \notin faults => \A a \in Assets : (rows[a] # None /\ a \notin doomed) => a \in blobs

Quiet == \A r \in Requests : pc[r] = "idle"

\* Bytes without a row are never left behind by uploads and deletions that run
\* to their end, whatever order they take; a failed delete or a stop may leave
\* some, and so may an Update that overwrites the mark of a deletion.
NoOrphanBytes ==
  (Quiet /\ ~revived /\ faults \cap {"storage", "stop"} = {}) => blobs \subseteq InRepository

=============================================================================
