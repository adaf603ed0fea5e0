------------------------- MODULE FederationProjection -------------------------
(***************************************************************************)
(* The projection of Tap events into network.* by                          *)
(* src/internal/federation.  Tap publishes an ordered log and delivers its *)
(* events at least once and in any order; each delivery is one database    *)
(* transaction (postgresStore.Store) that looks for a receipt, takes       *)
(* advisory locks, upserts or tombstones the raw record and the row of its *)
(* collection, recomputes the counters and states that depend on that row, *)
(* for some events then locks and reconciles the transfer lineages, and    *)
(* inserts the cursor and the receipt.                                     *)
(*                                                                         *)
(* The database is one function `db' from cells <<column, URI>>.  A        *)
(* transaction reads the committed cells below its own writes and publishes*)
(* its writes when it commits.  Between the two others may commit: what    *)
(* the recomputations read must be kept still by the advisory locks.       *)
(***************************************************************************)
EXTENDS Naturals, Sequences, FiniteSets

CONSTANTS
  Transactions,  \* the deliveries handled at the same time
  Logs,          \* the logs of events Tap may have published
  Author,        \* the DID of each URI
  Collection,    \* the collection of each URI
  KeyedTo,       \* the URI the record key of a star, status or triage hashes
  Rank,          \* the order of the URIs as strings
  None,          \* NULL
  MaxAborts      \* bound on transactions that fail

Counters == {"stars", "issues", "openIssues", "comments", "pulls", "openPulls",
             "forks", "reviews", "repositories"}
Columns == {"record", "row", "state", "identity", "handle"} \cup Counters
States == {"open", "closed", "merged"}

\* What a record holds of the values the projection looks at.  `origin' is the
\* repository a fork came from, a comment's parent or a pull request's source.
Blank == [cid |-> None, repository |-> None, repositoryCid |-> None, subject |-> None,
          subjectCid |-> None, origin |-> None, state |-> None]

\* Checked collections join their upsert with network.records; plain ones do not.
Checked == {"star", "issue", "issueStatus", "comment", "pull", "pullStatus", "review",
            "label", "milestone", "triage"}
Organizations == {"organization", "grant", "membership", "revocation"}
Plain == Organizations \cup {"transfer", "acceptance"}
Keyed == {"star", "issueStatus", "pullStatus", "triage"}

Names == DOMAIN Collection
ASSUME NoneAssumption == None \notin Names
\* Strings are totally ordered.
ASSUME RankAssumption ==
  /\ Rank \in [Names -> Nat]
  /\ \A u, o \in Names : Rank[u] = Rank[o] => u = o
\* Tap's envelope gives an event its URI and its value the columns of its collection.
ASSUME LogAssumption ==
  \A l \in Logs :
    /\ Len(l) \in Nat /\ DOMAIN l = 1 .. Len(l)
    /\ \A i \in DOMAIN l :
         /\ l[i].uri \in Names
         /\ DOMAIN l[i].value = DOMAIN Blank
         /\ {l[i].value.repository, l[i].value.subject, l[i].value.origin}
              \subseteq Names \cup {None}
ASSUME BoundAssumption == MaxAborts \in Nat

VARIABLES log, receipts, cursor, db, txn, aborts
vars == <<log, receipts, cursor, db, txn, aborts>>

Events == DOMAIN log
UrisOf(l) ==
  (UNION {{l[i].uri, l[i].value.repository, l[i].value.subject, l[i].value.origin} :
             i \in DOMAIN l}) \ {None}
Uris == UrisOf(log)
Cells(l) == Columns \X UrisOf(l)

NoRow == [event |-> 0, live |-> FALSE, value |-> Blank]
Default(column) ==
  CASE column = "row" -> NoRow
    [] column = "record" -> [event |-> 0, live |-> FALSE]
    [] column \in {"identity", "handle"} -> [event |-> 0, handle |-> None]
    [] column = "state" -> "open"
    [] OTHER -> 0

NoWrites == [cell \in {} |-> None]
Idle == [event |-> 0, stage |-> 0, todo |-> {}, held |-> {}, pending |-> NoWrites]
Busy(t) == txn[t].event # 0

(***************************************************************************)
(* Reading the database: `v' is a view of it, committed or with a          *)
(* transaction's own writes above it.                                      *)
(***************************************************************************)
Exists(v, u) == u # None /\ v[<<"row", u>>].event > 0
Live(v, u) == v[<<"row", u>>].live
Value(v, u) == v[<<"row", u>>].value
OfCollection(c) == {u \in Uris : Collection[u] = c}
Rows(v, c) == {u \in OfCollection(c) : Live(v, u)}
ProfileOf(did) == {u \in OfCollection("profile") : Author[u] = did}

\* A comment whose parent is a live comment of another issue is not shown.
Visible(v, comment) ==
  LET value == Value(v, comment) IN
  \/ value.origin = None
  \/ ~Live(v, value.origin)
  \/ Value(v, value.origin).subject = value.subject

\* Variant: whoever wrote it, a status counts.
Candidates_AnyAuthor(v, u) ==
  LET repository == Value(v, u).repository IN
  {s \in Rows(v, IF Collection[u] = "issue" THEN "issueStatus" ELSE "pullStatus") :
     /\ Value(v, s).subject = u
     /\ Value(v, s).repository = repository
     /\ Value(v, s).repositoryCid = Value(v, repository).cid
     /\ Collection[u] = "pull" => Value(v, s).subjectCid = Value(v, u).cid}

\* The statuses that may decide the state of an issue or pull request: live, about it,
\* by the owner of its repository, observing the repository's current CID and, for a
\* pull request, its current CID.
Candidates(v, u) ==
  LET repository == Value(v, u).repository IN
  {s \in Rows(v, IF Collection[u] = "issue" THEN "issueStatus" ELSE "pullStatus") :
     /\ Value(v, s).subject = u
     /\ Value(v, s).repository = repository
     /\ Value(v, s).repositoryCid = Value(v, repository).cid
     /\ Author[s] = Author[repository]
     /\ Collection[u] = "pull" => Value(v, s).subjectCid = Value(v, u).cid}

\* Variant: no COALESCE, an undecided subject has no state.
Resolve_Uncoalesced(v, u) ==
  LET newest == {s \in Candidates(v, u) :
                   \A o \in Candidates(v, u) : v[<<"row", o>>].event <= v[<<"row", s>>].event}
  IN  IF newest = {} THEN None ELSE Value(v, CHOOSE s \in newest : TRUE).state
Resolve(v, u) ==
  LET newest == {s \in Candidates(v, u) :
                   \A o \in Candidates(v, u) : v[<<"row", o>>].event <= v[<<"row", s>>].event}
  IN  IF newest = {} THEN "open" ELSE Value(v, CHOOSE s \in newest : TRUE).state

IssuesOf(v, repository) == {i \in Rows(v, "issue") : Value(v, i).repository = repository}
PullsOf(v, repository) == {p \in Rows(v, "pull") : Value(v, p).repository = repository}
CommentsOf(v, issues) == {c \in Rows(v, "comment") : Value(v, c).subject \in issues}
Open(v, subjects) == {u \in subjects : v[<<"state", u>>] = "open"}

\* The value of a derived column, as its Recompute query defines it.
Derive(v, column, u) ==
  CASE column = "state" -> Resolve(v, u)
    [] column = "stars" ->
         Cardinality({Author[s] : s \in {s \in Rows(v, "star") : Value(v, s).repository = u}})
    [] column = "issues" -> Cardinality(IssuesOf(v, u))
    [] column = "openIssues" -> Cardinality(Open(v, IssuesOf(v, u)))
    [] column = "comments" ->
         LET issues == IF Collection[u] = "repository" THEN IssuesOf(v, u)
                       ELSE {u} \cap Rows(v, "issue")
         IN  Cardinality({c \in CommentsOf(v, issues) : Visible(v, c)})
    [] column = "pulls" -> Cardinality(PullsOf(v, u))
    [] column = "openPulls" -> Cardinality(Open(v, PullsOf(v, u)))
    [] column = "forks" ->
         Cardinality({r \in Rows(v, "repository") \ {u} : Value(v, r).origin = u})
    [] column = "reviews" ->
         Cardinality({r \in Rows(v, "review") : /\ Value(v, r).subject = u
                                                /\ Value(v, u).cid # None
                                                /\ Value(v, r).subjectCid = Value(v, u).cid})
    [] column = "repositories" ->
         Cardinality({r \in Rows(v, "repository") : Author[r] = Author[u]})

(***************************************************************************)
(* Writing: `w' is the partial function of cells a transaction has written.*)
(***************************************************************************)
\* The writes w over the cells of d.
Over(w, d) == [cell \in DOMAIN w \cup DOMAIN d |-> IF cell \in DOMAIN w THEN w[cell] ELSE d[cell]]
Put(w, column, u, value) ==
  [cell \in DOMAIN w \cup {<<column, u>>} |-> IF cell = <<column, u>> THEN value ELSE w[cell]]

\* The Recompute queries.  Each updates its row if there is one, a state only when the
\* repository is known.
Known(v, targets) ==
  {x \in targets : Exists(v, x[2]) /\ (x[1] = "state" => Exists(v, Value(v, x[2]).repository))}
Recompute(w, targets) ==
  LET v == Over(w, db) IN Over([x \in Known(v, targets) |-> Derive(v, x[1], x[2])], w)

\* The queries of one event: every handler resolves a state before it runs the counts
\* that read it, and no query reads what another count wrote.
RecomputeAll(w, targets) ==
  LET states == {x \in targets : x[1] = "state"}
  IN  Recompute(Recompute(w, states), targets \ states)

\* Variant: the raw record takes the event that came last.
WriteRecord_Latest(w, u, id, live) == Put(w, "record", u, [event |-> id, live |-> live])
\* A raw record is replaced by newer events only.
WriteRecord(w, u, id, live) ==
  IF db[<<"record", u>>].event < id THEN Put(w, "record", u, [event |-> id, live |-> live]) ELSE w

\* The links an upsert of an existing row may not change.
SameLinks(c, old, new) ==
  /\ c \in {"comment", "pullStatus", "review", "triage"} => old.subject = new.subject
  /\ c \in {"comment", "pull"} => old.origin = new.origin
  /\ c \in {"pull", "pullStatus", "label", "milestone", "triage"}
       => old.repository = new.repository

\* Variant: the upsert does not join network.records.
Upserts_Unjoined(v, e, id) ==
  LET row == v[<<"row", e.uri>>] IN
  row.event < id /\ (row.event > 0 => SameLinks(Collection[e.uri], row.value, e.value))
\* Whether the upsert, or the tombstone, of a row takes effect.
Upserts(v, e, id) ==
  LET row == v[<<"row", e.uri>>] IN
  /\ row.event < id
  /\ Collection[e.uri] \in Checked =>
       /\ v[<<"record", e.uri>>] = [event |-> id, live |-> TRUE]
       /\ row.event > 0 => SameLinks(Collection[e.uri], row.value, e.value)
Tombstones(v, e, id) ==
  LET row == v[<<"row", e.uri>>] IN
  /\ row.event < id
  /\ Collection[e.uri] \in Checked \cup Plain => row.event > 0
  /\ Collection[e.uri] \in Checked => v[<<"record", e.uri>>] = [event |-> id, live |-> FALSE]

Applies(v, e, id) == IF e.action = "put" THEN Upserts(v, e, id) ELSE Tombstones(v, e, id)

WriteRow(w, e, id) ==
  LET v == Over(w, db)
      old == Value(v, e.uri)
      kept == IF Collection[e.uri] \in Organizations THEN old ELSE [old EXCEPT !.cid = None]
  IN  IF Applies(v, e, id)
      THEN Put(w, "row", e.uri, [event |-> id, live |-> e.action = "put",
                                 value |-> IF e.action = "put" THEN e.value ELSE kept])
      ELSE w

\* An upserted profile copies the identity's handle, keeping its own over a missing one.
WriteProfileHandle(w, u) ==
  LET identity == db[<<"identity", u>>]
      own == db[<<"handle", u>>]
  IN  Put(w, "handle", u,
          [handle |-> IF identity.handle = None THEN own.handle ELSE identity.handle,
           event  |-> IF identity.event = 0 THEN own.event ELSE identity.event])

(***************************************************************************)
(* What each collection recomputes after its row.  `before' is the         *)
(* committed view, `w' the writes so far.                                  *)
(***************************************************************************)
IssueCounts(r) == {<<"issues", r>>, <<"openIssues", r>>}
PullCounts(r) == {<<"pulls", r>>, <<"openPulls", r>>}

\* recomputeCommentCounts, recomputeIssueStateAndCounts, recomputePullRequestStateAndCounts
CommentCounts(v, issue) ==
  IF Exists(v, issue) THEN {<<"comments", issue>>, <<"comments", Value(v, issue).repository>>}
  ELSE {}
StateAndCounts(v, u) ==
  IF Exists(v, u)
  THEN {<<"state", u>>} \cup (IF Collection[u] = "issue" THEN IssueCounts(Value(v, u).repository)
                              ELSE PullCounts(Value(v, u).repository))
  ELSE {}
ChildIssues(v, comment) ==
  {Value(v, c).subject : c \in {c \in Rows(v, "comment") : Value(v, c).origin = comment}}

IssueTargets(v, e) ==
  LET new == Value(v, e.uri).repository
      old == Value(db, e.uri).repository
  IN  (IF e.action = "put" THEN {<<"state", e.uri>>, <<"comments", e.uri>>} ELSE {})
      \cup IssueCounts(new) \cup {<<"comments", new>>}
      \cup (IF old \notin {None, new} THEN IssueCounts(old) \cup {<<"comments", old>>} ELSE {})
CommentTargets(v, e) ==
  UNION {CommentCounts(v, i) : i \in {Value(v, e.uri).subject} \cup ChildIssues(db, e.uri)}
\* Variant: a pull request does not look for statuses that came before it.
PullTargets_CountsOnly(v, e) == {<<"reviews", e.uri>>} \cup PullCounts(Value(v, e.uri).repository)
PullTargets(v, e) ==
  (IF e.action = "put" THEN {<<"state", e.uri>>, <<"reviews", e.uri>>} ELSE {})
    \cup PullCounts(Value(v, e.uri).repository)

\* The rows of a checked collection, once written, decide what is recomputed.
RowTargets(v, e) ==
  LET c == Collection[e.uri]
      value == Value(v, e.uri)
  IN  CASE c = "star" -> {<<"stars", value.repository>>}
        [] c = "issue" -> IssueTargets(v, e)
        [] c = "comment" -> CommentTargets(v, e)
        [] c \in {"issueStatus", "pullStatus"} -> StateAndCounts(v, value.subject)
        [] c = "pull" -> PullTargets(v, e)
        [] c = "review" -> {<<"reviews", value.subject>>}
        [] OTHER -> {}

ForkSource(v, u) == IF Live(v, u) THEN Value(v, u).origin ELSE None
AllPulls(v, u) == {p \in OfCollection("pull") : Exists(v, p) /\ Value(v, p).repository = u}

\* A repository event recomputes everything about the repository, applied or not.
RepositoryTargets(e) ==
  LET u == e.uri
      old == ForkSource(db, u)
      new == IF e.action = "put" THEN e.value.origin ELSE None
      sources == {old, new} \ {None}
  IN  {<<"forks", r>> : r \in sources \cup (IF e.action = "put" THEN {u} ELSE {})}
      \cup {<<"repositories", p>> : p \in ProfileOf(Author[u])}
      \cup {<<"stars", u>>, <<"comments", u>>} \cup IssueCounts(u) \cup PullCounts(u)
      \cup (IF e.action = "put" THEN {"state", "reviews"} \X AllPulls(db, u) ELSE {})

(***************************************************************************)
(* reconcileTransferLineages.  An edge of a lineage would need two records *)
(* that contain each other's CID, so each repository is its own lineage and*)
(* what is left is the recount of every live repository.  This recount     *)
(* does not hide the comments whose parent is on another issue.            *)
(***************************************************************************)
Reconciles(v, e) ==
  CASE Collection[e.uri] \in {"organization", "transfer", "acceptance"} -> TRUE
    [] Collection[e.uri] = "repository" ->
         \/ e.action = "delete"
         \/ e.value.state = "transferred"
         \/ Exists(v, e.uri) /\ Value(v, e.uri).state = "transferred"
    [] OTHER -> FALSE

LineageCounters == {"stars", "issues", "openIssues", "comments", "pulls", "openPulls", "forks"}
LineageCount(v, column, u) ==
  IF column = "comments" THEN Cardinality(CommentsOf(v, IssuesOf(v, u))) ELSE Derive(v, column, u)
Reconcile(w) ==
  LET v == Over(w, db) IN
  Over([cell \in LineageCounters \X Rows(v, "repository") |-> LineageCount(v, cell[1], cell[2])], w)

(***************************************************************************)
(* project(), without its locks and without reconcileTransferLineages.     *)
(***************************************************************************)
ProjectIdentity(e, id) ==
  LET u == e.uri
      new == [event |-> id, handle |-> e.value.state]
      w == IF db[<<"identity", u>>].event < id THEN Put(NoWrites, "identity", u, new) ELSE NoWrites
  IN  IF Exists(db, u) /\ db[<<"handle", u>>].event < id THEN Put(w, "handle", u, new) ELSE w

ProjectRecord(e, id) ==
  LET c == Collection[e.uri]
      raw == WriteRecord(NoWrites, e.uri, id, e.action = "put")
      applies == Applies(Over(raw, db), e, id)
      written == WriteRow(raw, e, id)
  IN  CASE c = "profile" ->
             IF e.action = "put"
             THEN Recompute(IF applies THEN WriteProfileHandle(written, e.uri) ELSE written,
                            {<<"repositories", e.uri>>})
             ELSE written
        [] c = "repository" -> RecomputeAll(written, RepositoryTargets(e))
        [] c \in Checked /\ applies -> RecomputeAll(written, RowTargets(Over(written, db), e))
        [] OTHER -> written

\* validateStrongRef: the links a record must have, and the collections they lead to.
LeadsTo(u, collections) == u \in Names /\ Collection[u] \in collections
RightLinks(c, value) ==
  /\ c \in {"star", "issue", "issueStatus", "pull", "pullStatus", "label", "milestone", "triage"}
       => LeadsTo(value.repository, {"repository"})
  /\ c \in {"issueStatus", "comment"} => LeadsTo(value.subject, {"issue"})
  /\ c \in {"pullStatus", "review"} => LeadsTo(value.subject, {"pull"})
  /\ c = "triage" => LeadsTo(value.subject, {"issue", "pull"})
  /\ c = "pull" => LeadsTo(value.origin, {"repository"})
  /\ c \in {"comment", "repository"} => value.origin = None \/ LeadsTo(value.origin, {c})

\* DecodeEvent: a record has its links, its key must hash what it is about, no repository
\* is a fork of itself and no comment its own parent, and a status has one of the states of
\* its subject.
Valid(e) ==
  /\ e.action \in {"put", "delete", "identity"}
  /\ e.action = "put" =>
       /\ RightLinks(Collection[e.uri], e.value)
       /\ Collection[e.uri] \in Keyed =>
            KeyedTo[e.uri] = (IF Collection[e.uri] = "star" THEN e.value.repository
                              ELSE e.value.subject)
       /\ Collection[e.uri] \in {"comment", "repository"} => e.value.origin # e.uri
       /\ Collection[e.uri] = "issueStatus" => e.value.state \in {"open", "closed"}
       /\ Collection[e.uri] = "pullStatus" => e.value.state \in States

(***************************************************************************)
(* Advisory locks.  A stage is one of the lock functions project calls, in *)
(* order: it looks URIs up, then locks them sorted.  An issue's or a pull  *)
(* request's repository is looked up again once that lock is held.  All of *)
(* them come before the first row that handlers of different events may    *)
(* both write; the one lock on the lineages comes after such rows.         *)
(***************************************************************************)
LockRank == [issue |-> 1, issues |-> 2, pull |-> 3, pulls |-> 4, stars |-> 5, forks |-> 6]
Locks(kind, uris) == {<<kind, u>> : u \in uris \ {None}}
Of(uris) == {Value(db, u).repository : u \in {u \in uris \ {None} : Exists(db, u)}}

IssueLocks(e) ==
  LET c == Collection[e.uri]
      put == e.action = "put"
      row == Value(db, e.uri)
  IN  CASE c = "repository" -> Locks("issues", {e.uri})
        [] c = "issue" -> Locks("issue", IF put THEN {e.uri} ELSE {})
                          \cup Locks("issues", {row.repository, e.value.repository})
        [] c = "issueStatus" -> Locks("issue", {e.value.subject})
                                \cup Locks("issues", {e.value.repository, row.repository}
                                                     \cup Of({e.value.subject, row.subject}))
        [] c = "comment" ->
             Locks("issue", {e.value.subject, row.subject} \cup ChildIssues(db, e.uri))
        [] OTHER -> {}

PullLocks(e) ==
  LET c == Collection[e.uri]
      row == Value(db, e.uri)
  IN  CASE c = "repository" -> Locks("pull", AllPulls(db, e.uri)) \cup Locks("pulls", {e.uri})
        [] c = "pull" ->
             Locks("pull", IF e.action = "put" \/ Exists(db, e.uri) THEN {e.uri} ELSE {})
               \cup Locks("pulls", {e.value.repository, row.repository})
        [] c = "pullStatus" -> Locks("pull", {e.value.subject, row.subject})
                               \cup Locks("pulls", {e.value.repository, row.repository})
        [] c = "review" -> Locks("pull", {e.value.subject, row.subject})
        [] OTHER -> {}

StarLocks(e) ==
  CASE Collection[e.uri] = "repository" -> Locks("stars", {e.uri})
    [] Collection[e.uri] = "star" ->
         Locks("stars", {IF e.action = "put" THEN e.value.repository
                         ELSE Value(db, e.uri).repository})
    [] OTHER -> {}

ForkLocks(e) ==
  IF Collection[e.uri] = "repository"
  THEN Locks("forks", {e.uri, ForkSource(db, e.uri), e.value.origin}) ELSE {}

\* Variant: lockForkProjection locks its arguments as they come, the own URI first.
LockStages_Unsorted(e) ==
  LET own == {<<"forks", e.uri>>} \cap ForkLocks(e)
  IN  <<IssueLocks(e), PullLocks(e) \cup StarLocks(e), own, ForkLocks(e) \ own>>
LockStages(e) == <<IssueLocks(e), PullLocks(e), StarLocks(e), ForkLocks(e)>>
LineageLock == <<"lineage", None>>
\* The stages after the lock functions: about to write, waiting for the lineages, about to
\* reconcile them, done.
Ready == 5
Waiting == 6
Reconciling == 7
Committing == 8

First(locks) ==
  CHOOSE l \in locks :
    \A o \in locks \ {l} :
      \/ LockRank[l[1]] < LockRank[o[1]]
      \/ l[1] = o[1] /\ Rank[l[2]] < Rank[o[2]]

\* Variant: the repository is not looked up again.
Follow_Nothing(l) == {}
\* The repository lock that holding an issue's or pull request's lock calls for.
Follow(l) ==
  CASE l[1] = "issue" -> Locks("issues", Of({l[2]}))
    [] l[1] = "pull" -> Locks("pulls", Of({l[2]}))
    [] OTHER -> {}

\* Stay in the stage while it has locks to take; then go to the next that has any.
Advance(e, stage, todo) ==
  IF todo # {} THEN [stage |-> stage, todo |-> todo]
  ELSE LET more == {s \in stage + 1 .. 4 : LockStages(e)[s] # {}}
           next == CHOOSE s \in more : \A o \in more : s <= o
       IN  IF more = {} THEN [stage |-> Ready, todo |-> {}]
           ELSE [stage |-> next, todo |-> LockStages(e)[next]]

(***************************************************************************)
(* Store(): the steps of one delivery.                                     *)
(***************************************************************************)
\* Tap (external) has one author's events in flight one at a time; a delivery it gave
\* up on may still be running when it sends that event again.
Deliverable(id) ==
  \A t \in Transactions :
    Busy(t) /\ txn[t].event # id => Author[log[txn[t].event].uri] # Author[log[id].uri]

\* Begin, HasFederationReceipt and the first lookups.  A duplicate ends here; a rejected
\* event has only its receipt to write.
Begin(t, id) ==
  /\ ~Busy(t) /\ Deliverable(id)
  /\ id \notin receipts
  /\ LET e == log[id]
         first == IF ~Valid(e) THEN [stage |-> Committing, todo |-> {}]
                  ELSE IF e.action = "identity" THEN [stage |-> Ready, todo |-> {}]
                  ELSE Advance(e, 0, {})
     IN  txn' = [txn EXCEPT ![t] = [Idle EXCEPT !.event = id, !.stage = first.stage,
                                                !.todo = first.todo]]
  /\ UNCHANGED <<log, receipts, cursor, db, aborts>>

\* A delivery of an event that has its receipt changes nothing.
Duplicate(t, id) ==
  /\ ~Busy(t) /\ Deliverable(id)
  /\ id \in receipts
  /\ UNCHANGED vars

\* One pg_advisory_xact_lock, and the lookups that follow it.
Acquire(t) ==
  /\ Busy(t) /\ txn[t].stage < Ready
  /\ LET l == First(txn[t].todo)
         next == Advance(log[txn[t].event], txn[t].stage, (txn[t].todo \cup Follow(l)) \ {l})
     IN  /\ \A o \in Transactions \ {t} : l \notin txn[o].held
         /\ txn' = [txn EXCEPT ![t].held = @ \cup {l}, ![t].stage = next.stage,
                               ![t].todo = next.todo]
  /\ UNCHANGED <<log, receipts, cursor, db, aborts>>

\* The statements of project() but for the lineages.  From here on the handler holds row
\* locks.  The raw record of a repository is written before its fork locks are taken: only
\* deliveries of the same event write that row, and the stars lock keeps those apart.
Project(t) ==
  /\ Busy(t) /\ txn[t].stage = Ready
  /\ LET id == txn[t].event
         e == log[id]
         record == e.action # "identity"
     IN  txn' = [txn EXCEPT ![t].stage = IF record /\ Reconciles(db, e) THEN Waiting
                                         ELSE Committing,
                            ![t].pending = IF record THEN ProjectRecord(e, id)
                                           ELSE ProjectIdentity(e, id)]
  /\ UNCHANGED <<log, receipts, cursor, db, aborts>>

\* LockFederationRepositoryTransferLineages, with the rows of the event already written.
LockLineages(t) ==
  /\ Busy(t) /\ txn[t].stage = Waiting
  /\ \A o \in Transactions \ {t} : LineageLock \notin txn[o].held
  /\ txn' = [txn EXCEPT ![t].held = @ \cup {LineageLock}, ![t].stage = Reconciling]
  /\ UNCHANGED <<log, receipts, cursor, db, aborts>>

\* The recount of every repository, from what is committed by then.
ReconcileLineages(t) ==
  /\ Busy(t) /\ txn[t].stage = Reconciling
  /\ txn' = [txn EXCEPT ![t].pending = Reconcile(@), ![t].stage = Committing]
  /\ UNCHANGED <<log, receipts, cursor, db, aborts>>

\* The cursor, the receipt and the commit; a receipt that came first rolls it all back.
Commit(t) ==
  /\ Busy(t) /\ txn[t].stage = Committing
  /\ LET id == txn[t].event IN
     IF id \in receipts THEN UNCHANGED <<db, cursor, receipts>>
     ELSE /\ db' = Over(txn[t].pending, db)
          /\ cursor' = IF id > cursor THEN id ELSE cursor
          /\ receipts' = receipts \cup {id}
  /\ txn' = [txn EXCEPT ![t] = Idle]
  /\ UNCHANGED <<log, aborts>>

\* A statement fails, or the webhook request is cancelled: everything is rolled back.
Abort(t) ==
  /\ Busy(t) /\ aborts < MaxAborts
  /\ txn' = [txn EXCEPT ![t] = Idle]
  /\ aborts' = aborts + 1
  /\ UNCHANGED <<log, receipts, cursor, db>>

Init ==
  /\ log \in Logs
  /\ receipts = {}
  /\ cursor = 0
  /\ db = [cell \in Cells(log) |-> Default(cell[1])]
  /\ txn = [t \in Transactions |-> Idle]
  /\ aborts = 0

Next ==
  \E t \in Transactions :
    \/ \E id \in Events : Begin(t, id) \/ Duplicate(t, id)
    \/ Acquire(t) \/ Project(t) \/ LockLineages(t) \/ ReconcileLineages(t)
    \/ Commit(t) \/ Abort(t)

Spec == Init /\ [][Next]_vars

(***************************************************************************)
(* Properties.                                                             *)
(***************************************************************************)
Settled == receipts = Events

\* The database, the receipts and the handlers have the shape the code gives them.
TypeOK ==
  /\ log \in Logs
  /\ receipts \subseteq Events
  /\ cursor \in Events \cup {0}
  /\ DOMAIN db = Cells(log)
  /\ \A u \in Uris :
       /\ \A c \in {"record", "row", "identity", "handle"} : db[<<c, u>>].event \in Events \cup {0}
       /\ db[<<"state", u>>] \in States
       /\ \A c \in Counters : db[<<c, u>>] \in Nat
  /\ \A t \in Transactions :
       /\ txn[t].event \in Events \cup {0} /\ txn[t].stage \in 0 .. Committing
       /\ txn[t].stage < Ready <=> (txn[t].todo # {} \/ ~Busy(t))
       /\ DOMAIN txn[t].pending \subseteq Cells(log)
  /\ aborts \in 0 .. MaxAborts

\* The counters of each kind of row.
CountersOf(c) ==
  CASE c = "repository" -> LineageCounters
    [] c = "issue" -> {"comments"}
    [] c = "pull" -> {"reviews"}
    [] c = "profile" -> {"repositories"}
    [] OTHER -> {}

\* The puts that name the repository of an issue: its own, and those of its statuses.
Naming(issue) ==
  {i \in Events :
     /\ Valid(log[i]) /\ log[i].action = "put"
     /\ \/ log[i].uri = issue
        \/ Collection[log[i].uri] = "issueStatus" /\ log[i].value.subject = issue}
Unsettled(issue) ==
  \E i, o \in Naming(issue) : log[i].value.repository # log[o].value.repository

\* Where the code does not keep a counter exact, by what the log holds:
\*  - an event of another URI recounts every repository under the lineage lock alone
\*    (federation.sql:338) and may overwrite what was counted meanwhile;
\*  - the deletion of a status does not lock its issue (postgres.go:894), so it may count the
\*    issues of a repository that the issue has moved to without the lock of that one;
\*  - a comment and its parent on different issues lock different issues (postgres.go:878),
\*    so neither sees that the other hides it.
RecountedFromElsewhere(repository) ==
  \E i \in Events :
    /\ Valid(log[i]) /\ log[i].action # "identity" /\ log[i].uri # repository
    /\ \/ Collection[log[i].uri] \in {"organization", "transfer", "acceptance"}
       \/ /\ Collection[log[i].uri] = "repository"
          /\ log[i].action = "delete" \/ log[i].value.state = "transferred"
WithdrawnWhileMoving(issue) ==
  /\ Unsettled(issue)
  /\ \E i, o \in Events : /\ log[i].uri = log[o].uri /\ log[i].action = "delete"
                          /\ o \in Naming(issue) /\ log[o].uri # issue
RepliedAcross(issue) ==
  \E i, o \in Events : /\ Collection[log[i].uri] = "comment" /\ log[i].value.subject = issue
                       /\ log[o].uri = log[i].value.origin /\ log[o].action = "put"
                       /\ log[o].value.subject # issue
KeptExact(c, u) ==
  LET issues == {i \in OfCollection("issue") :
                   i = u \/ \E n \in Naming(i) : log[n].value.repository = u}
  IN  /\ Collection[u] = "repository" => ~RecountedFromElsewhere(u)
      /\ c \in {"issues", "openIssues"} => \A i \in issues : ~WithdrawnWhileMoving(i)
      /\ c = "comments" => \A i \in issues : ~RepliedAcross(i)

\* Every counter of a live row that KeptExact does not except equals a fresh count of the
\* committed rows after each commit, whatever order the events came in and whichever handlers
\* recounted at the same time (docs/database.md: the derived row and the counters "must move
\* together"; for the excepted ones they do not).
CountsExact ==
  \A u \in Uris :
    Live(db, u) =>
      \A c \in CountersOf(Collection[u]) : KeptExact(c, u) => db[<<c, u>>] = Derive(db, c, u)

\* The state of a pull request with a live target is the one its owner's newest status
\* decides, also when the repository or a new revision arrives after the status.
PullStateResolved ==
  \A p \in Rows(db, "pull") :
    LET repository == Value(db, p).repository
    IN  Exists(db, repository) /\ Live(db, repository) => db[<<"state", p>>] = Resolve(db, p)

Newest(u) ==
  LET about == {i \in Events : log[i].uri = u /\ Valid(log[i]) /\ log[i].action # "identity"}
  IN  IF about = {} THEN 0 ELSE CHOOSE i \in about : \A o \in about : o <= i
LinksKept(u) ==
  \A i, o \in Events :
    log[i].uri = u /\ log[o].uri = u /\ log[i].action = "put" /\ log[o].action = "put"
      => SameLinks(Collection[u], log[i].value, log[o].value)

\* Once every event is receipted, each URI is projected as its newest event left it,
\* for the collections whose upserts look at network.records or whose tombstones insert
\* (docs/architecture.md: "duplicate or older delivery is a no-op").
Converged ==
  Settled =>
    /\ cursor = Len(log)
    /\ \A u \in Uris :
         LET n == Newest(u) IN
         /\ n > 0 => db[<<"record", u>>] = [event |-> n, live |-> log[n].action = "put"]
         /\ n > 0 /\ Collection[u] \notin Plain /\ LinksKept(u) =>
              /\ Live(db, u) <=> log[n].action = "put"
              /\ Live(db, u) => Value(db, u) = log[n].value

\* No step makes a raw record, a row, an identity or the cursor older
\* (docs/database.md: stale events "cannot regress state").
NeverRegresses ==
  [][ /\ cursor' >= cursor
      /\ \A cell \in {"record", "row", "identity"} \X Uris :
           db'[cell].event >= db[cell].event ]_vars

\* A handler waits for an advisory lock that another holds, or may wait for a row that
\* another has written: any row, since nothing orders the rows of different handlers.
WaitsForLock(t, o) ==
  \/ Busy(t) /\ txn[t].todo # {} /\ First(txn[t].todo) \in txn[o].held
  \/ txn[t].stage = Waiting /\ LineageLock \in txn[o].held
Writing(t) == txn[t].stage >= Ready
WaitsForRow(t, o) == txn[t].stage \in {Ready, Reconciling} /\ Writing(o)
WaitsFor(t, o) == WaitsForLock(t, o) \/ WaitsForRow(t, o)

\* Handlers deadlock only once each has all its sorted locks: the stages and the sorting of
\* lockIssueProjection, lockPullRequestProjection and lockForkProjection agree on one order,
\* also for the locks looked up while others are held.  Handlers that write can deadlock,
\* over two rows or over a row and the lineage lock (postgres.go:724): PostgreSQL then fails
\* one of them, and Tap has to deliver its event again.
OnlyWritersDeadlock ==
  \A t, o \in Transactions :
    t # o /\ WaitsFor(t, o) /\ WaitsFor(o, t) => Writing(t) /\ Writing(o)

\* An issue or pull request that is not open has a live status of that state by the owner
\* of its repository (docs/federation.md: "Target repository owners, rather than arbitrary
\* record authors, control derived issue and pull request status").  An issue of which two
\* records name different repositories is left out.  While a repository it moved to is unknown
\* its state is not recomputed, and the event that makes it known recomputes pull requests
\* only.  And the deletion of a status locks the repository that the status names and not the
\* issue, so it may write a state that it resolved before a decision was taken back.
OwnersDecide ==
  \A u \in Rows(db, "issue") \cup Rows(db, "pull") :
    db[<<"state", u>>] # "open" /\ (Collection[u] = "issue" => ~Unsettled(u)) =>
      \E s \in Rows(db, "issueStatus") \cup Rows(db, "pullStatus") :
        /\ Value(db, s).subject = u
        /\ Value(db, s).state = db[<<"state", u>>]
        /\ Author[s] = Author[Value(db, u).repository]
=============================================================================
