------------------------ MODULE FederationStates_proofs ------------------------
(***************************************************************************)
(* Proofs about what the projection derives for issues and pull requests:  *)
(* PullStateResolved, OwnersDecide and the exactness of review counts, for *)
(* every set of logs and every number of handlers.                         *)
(*                                                                         *)
(* A handler derives from what it reads and commits later.  The argument   *)
(* is that whoever changes anything a derived value of an issue or pull    *)
(* request u depends on holds the lock on the issues, or pull requests, of *)
(* u's repository from before it reads until it commits.                   *)
(***************************************************************************)
EXTENDS FederationProjection_proofs

(***************************************************************************)
(* What is derived for a subject, that is an issue or a pull request, as   *)
(* functions of the log l and a view v.                                    *)
(***************************************************************************)
Home(v, u) == Value(v, u).repository
Subject(v, u) == Value(v, u).subject
StatusOf(c) == IF c = "issue" THEN "issueStatus" ELSE "pullStatus"
ChildrenOf(c) == IF c = "issue" THEN {"issueStatus"} ELSE {"pullStatus", "review"}
LockOf(c) == IF c = "issue" THEN "issues" ELSE "pulls"

\* s is alive and about u.
Concerns(v, s, u) == Live(v, s) /\ Subject(v, s) = u

\* The candidates, the state and the reviews that count.
Decisive(l, v, u) ==
  {s \in UrisOf(l) :
     /\ Collection[s] = StatusOf(Collection[u])
     /\ Concerns(v, s, u)
     /\ Home(v, s) = Home(v, u)
     /\ Value(v, s).repositoryCid = Value(v, Home(v, u)).cid
     /\ Author[s] = Author[Home(v, u)]
     /\ Collection[u] = "pull" => Value(v, s).subjectCid = Value(v, u).cid}
Latest(v, S) ==
  {s \in S : \A o \in S : v[<<"row", o>>].event <= v[<<"row", s>>].event}
StateOf(l, v, u) ==
  LET newest == Latest(v, Decisive(l, v, u))
  IN  IF newest = {} THEN "open" ELSE Value(v, CHOOSE s \in newest : TRUE).state
Reviewers(l, v, u) ==
  {r \in UrisOf(l) :
     /\ Collection[r] = "review"
     /\ Concerns(v, r, u)
     /\ Value(v, u).cid # None
     /\ Value(v, r).subjectCid = Value(v, u).cid}

\* Somebody entitled to it decided the state.
Decided(l, v, u, state) ==
  \E s \in UrisOf(l) :
    /\ Collection[s] = StatusOf(Collection[u])
    /\ Concerns(v, s, u)
    /\ Value(v, s).state = state
    /\ Author[s] = Author[Home(v, u)]

SubjectOK(l, v, u) ==
  /\ Collection[u] = "pull" /\ Live(v, u) =>
       v[<<"reviews", u>>] = Cardinality(Reviewers(l, v, u))
  /\ Collection[u] = "pull" /\ Live(v, u) /\ Exists(v, Home(v, u)) /\ Live(v, Home(v, u)) =>
       v[<<"state", u>>] = StateOf(l, v, u)
  /\ v[<<"state", u>>] # "open" =>
       Exists(v, u) /\ Exists(v, Home(v, u)) /\ Decided(l, v, u, v[<<"state", u>>])

\* The queries of the model are these.
LEMMA ResolveIsStateOf ==
  ASSUME NEW v, NEW u
  PROVE  Resolve(v, u) = StateOf(log, v, u)
<1>1. Candidates(v, u) = Decisive(log, v, u)
  BY DEF Candidates, Decisive, Rows, OfCollection, Uris, Home, Subject, StatusOf, Concerns
<1> QED BY <1>1 DEF Resolve, StateOf, Latest

LEMMA ReviewsAreReviewers ==
  ASSUME NEW v, NEW u
  PROVE  Derive(v, "reviews", u) = Cardinality(Reviewers(log, v, u))
<1>1. {r \in Rows(v, "review") : /\ Value(v, r).subject = u
                                 /\ Value(v, u).cid # None
                                 /\ Value(v, r).subjectCid = Value(v, u).cid}
        = Reviewers(log, v, u)
  BY DEF Reviewers, Rows, OfCollection, Uris, Subject, Concerns
<1> QED BY <1>1 DEF Derive

\* A resolved state that is not open was decided.
LEMMA StateDecided ==
  ASSUME NEW l, NEW v, NEW u, StateOf(l, v, u) # "open"
  PROVE  Decided(l, v, u, StateOf(l, v, u))
<1> DEFINE newest == Latest(v, Decisive(l, v, u))
<1>1. newest # {} /\ StateOf(l, v, u) = Value(v, CHOOSE s \in newest : TRUE).state
  BY DEF StateOf
<1> DEFINE s == CHOOSE s \in newest : TRUE
<1>2. s \in newest
  BY <1>1
<1>3. s \in Decisive(l, v, u)
  BY <1>2 DEF Latest
<1>4. Value(v, s).state = StateOf(l, v, u)
  BY <1>1
<1> HIDE DEF s
<1> QED BY <1>3, <1>4 DEF Decisive, Decided

\* The views v and w say the same of the subject u, as far as its derived values go.
Alike(l, v, w, u) ==
  /\ w[<<"row", u>>] = v[<<"row", u>>]
  /\ w[<<"state", u>>] = v[<<"state", u>>]
  /\ w[<<"reviews", u>>] = v[<<"reviews", u>>]
  /\ \A s \in UrisOf(l) :
       Collection[s] \in ChildrenOf(Collection[u]) /\ (Concerns(v, s, u) \/ Concerns(w, s, u))
         => w[<<"row", s>>] = v[<<"row", s>>]
  /\ Exists(v, Home(v, u)) => Exists(w, Home(v, u))
  /\ Collection[u] = "pull" /\ Live(v, u) => w[<<"row", Home(v, u)>>] = v[<<"row", Home(v, u)>>]

\* The children of u are the same where its rows are.
LEMMA AlikeChildren ==
  ASSUME NEW l, NEW v, NEW w, NEW u,
         NEW s \in UrisOf(l), Collection[s] \in ChildrenOf(Collection[u]),
         Concerns(v, s, u) \/ Concerns(w, s, u) => w[<<"row", s>>] = v[<<"row", s>>]
  PROVE  /\ Concerns(v, s, u) <=> Concerns(w, s, u)
         /\ Concerns(v, s, u) =>
              /\ w[<<"row", s>>] = v[<<"row", s>>]
              /\ Value(w, s) = Value(v, s) /\ Home(w, s) = Home(v, s)
<1>1. CASE w[<<"row", s>>] = v[<<"row", s>>]
  BY <1>1 DEF Concerns, Live, Value, Subject, Home
<1>2. CASE w[<<"row", s>>] # v[<<"row", s>>]
  BY <1>2
<1> QED BY <1>1, <1>2

LEMMA ChildKinds ==
  ASSUME NEW c \in {"issue", "pull"}
  PROVE  /\ StatusOf(c) \in ChildrenOf(c)
         /\ c = "pull" => "review" \in ChildrenOf(c)
BY DEF StatusOf, ChildrenOf

\* Where the children that are reviews are the same, so are the reviewers.
LEMMA SameReviewers ==
  ASSUME NEW l, NEW v, NEW w, NEW u, Value(w, u) = Value(v, u),
         \A s \in UrisOf(l) : Collection[s] = "review" =>
           /\ Concerns(v, s, u) <=> Concerns(w, s, u)
           /\ Concerns(v, s, u) => Value(w, s) = Value(v, s)
  PROVE  Reviewers(l, w, u) = Reviewers(l, v, u)
<1>1. ASSUME NEW s PROVE s \in Reviewers(l, w, u) <=> s \in Reviewers(l, v, u)
  BY DEF Reviewers
<1> QED BY <1>1

\* Where the statuses and the repository are the same, so is the state.
LEMMA SameState ==
  ASSUME NEW l, NEW v, NEW w, NEW u, Value(w, u) = Value(v, u),
         Value(w, Home(v, u)) = Value(v, Home(v, u)),
         \A s \in UrisOf(l) : Collection[s] = StatusOf(Collection[u]) =>
           /\ Concerns(v, s, u) <=> Concerns(w, s, u)
           /\ Concerns(v, s, u) =>
                /\ w[<<"row", s>>] = v[<<"row", s>>]
                /\ Value(w, s) = Value(v, s) /\ Home(w, s) = Home(v, s)
  PROVE  StateOf(l, w, u) = StateOf(l, v, u)
<1>1. Home(w, u) = Home(v, u)
  BY DEF Home
<1>2. ASSUME NEW s PROVE s \in Decisive(l, w, u) <=> s \in Decisive(l, v, u)
  BY <1>1 DEF Decisive
<1>3. Decisive(l, w, u) = Decisive(l, v, u)
  BY <1>2
<1> DEFINE S == Decisive(l, v, u)
<1>4. \A s \in S : w[<<"row", s>>] = v[<<"row", s>>] /\ Value(w, s) = Value(v, s)
  BY DEF Decisive
<1> HIDE DEF S
<1>5. Latest(w, S) = Latest(v, S)
  BY <1>4 DEF Latest
<1>6. CASE Latest(v, S) = {}
  BY <1>3, <1>5, <1>6 DEF StateOf, S
<1>7. CASE Latest(v, S) # {}
  <2> DEFINE s == CHOOSE s \in Latest(v, S) : TRUE
  <2>1. s \in Latest(v, S)
    BY <1>7
  <2>2. s \in S
    BY <2>1 DEF Latest
  <2>3. Value(w, s) = Value(v, s)
    BY <1>4, <2>2
  <2>4. StateOf(l, w, u) = Value(w, s).state /\ StateOf(l, v, u) = Value(v, s).state
    BY <1>3, <1>5, <1>7 DEF StateOf, S
  <2> QED BY <2>3, <2>4
<1> QED BY <1>6, <1>7

\* Where the statuses and the repository's author are the same, a decision stands.
LEMMA SameDecision ==
  ASSUME NEW l, NEW v, NEW w, NEW u, NEW state, Home(w, u) = Home(v, u),
         \A s \in UrisOf(l) : Collection[s] = StatusOf(Collection[u]) =>
           /\ Concerns(v, s, u) <=> Concerns(w, s, u)
           /\ Concerns(v, s, u) => Value(w, s) = Value(v, s),
         Decided(l, v, u, state)
  PROVE  Decided(l, w, u, state)
BY DEF Decided

\* Views that are alike derive the same.
LEMMA AlikeOK ==
  ASSUME NEW l, NEW v, NEW w, NEW u, Collection[u] \in {"issue", "pull"},
         SubjectOK(l, v, u), Alike(l, v, w, u)
  PROVE  SubjectOK(l, w, u)
<1>1. /\ Live(w, u) = Live(v, u) /\ Value(w, u) = Value(v, u) /\ Home(w, u) = Home(v, u)
      /\ Exists(v, u) => Exists(w, u)
  BY DEF Alike, Live, Value, Home, Exists
<1>2. \A s \in UrisOf(l) : Collection[s] \in ChildrenOf(Collection[u]) =>
        /\ Concerns(v, s, u) <=> Concerns(w, s, u)
        /\ Concerns(v, s, u) =>
             /\ w[<<"row", s>>] = v[<<"row", s>>]
             /\ Value(w, s) = Value(v, s) /\ Home(w, s) = Home(v, s)
  BY AlikeChildren DEF Alike
<1>3. Collection[u] = "pull" /\ Live(w, u) =>
        w[<<"reviews", u>>] = Cardinality(Reviewers(l, w, u))
  <2> SUFFICES ASSUME Collection[u] = "pull", Live(w, u)
               PROVE  w[<<"reviews", u>>] = Cardinality(Reviewers(l, w, u))
    OBVIOUS
  <2>1. Reviewers(l, w, u) = Reviewers(l, v, u)
    BY <1>1, <1>2, ChildKinds, SameReviewers
  <2> QED BY <1>1, <2>1 DEF SubjectOK, Alike
<1>4. Collection[u] = "pull" /\ Live(w, u) /\ Exists(w, Home(w, u)) /\ Live(w, Home(w, u)) =>
        w[<<"state", u>>] = StateOf(l, w, u)
  <2> SUFFICES ASSUME Collection[u] = "pull", Live(w, u), Exists(w, Home(w, u)), Live(w, Home(w, u))
               PROVE  w[<<"state", u>>] = StateOf(l, w, u)
    OBVIOUS
  <2>1. w[<<"row", Home(v, u)>>] = v[<<"row", Home(v, u)>>]
    BY <1>1 DEF Alike
  <2>2. Value(w, Home(v, u)) = Value(v, Home(v, u)) /\ Exists(v, Home(v, u)) /\ Live(v, Home(v, u))
    BY <1>1, <2>1 DEF Value, Exists, Live
  <2>3. StateOf(l, w, u) = StateOf(l, v, u)
    BY <1>1, <1>2, <2>2, ChildKinds, SameState
  <2> QED BY <1>1, <2>2, <2>3 DEF SubjectOK, Alike
<1>5. w[<<"state", u>>] # "open" =>
        Exists(w, u) /\ Exists(w, Home(w, u)) /\ Decided(l, w, u, w[<<"state", u>>])
  <2> SUFFICES ASSUME w[<<"state", u>>] # "open"
               PROVE  Exists(w, u) /\ Exists(w, Home(w, u)) /\ Decided(l, w, u, w[<<"state", u>>])
    OBVIOUS
  <2>1. /\ w[<<"state", u>>] = v[<<"state", u>>]
        /\ Exists(v, u) /\ Exists(v, Home(v, u)) /\ Decided(l, v, u, v[<<"state", u>>])
    BY DEF SubjectOK, Alike
  <2>2. Exists(w, u) /\ Exists(w, Home(w, u))
    BY <1>1, <2>1 DEF Alike
  <2>3. Decided(l, w, u, w[<<"state", u>>])
    BY <1>1, <1>2, <2>1, ChildKinds, SameDecision
  <2> QED BY <2>2, <2>3
<1> QED BY <1>3, <1>4, <1>5 DEF SubjectOK

(***************************************************************************)
(* The invariant.                                                          *)
(***************************************************************************)
\* The puts of a URI, and the puts that name the repository of an issue.
Puts(l, u) == {i \in DOMAIN l : Valid(l[i]) /\ l[i].action = "put" /\ l[i].uri = u}
NamingIn(l, issue) ==
  {i \in DOMAIN l :
     /\ Valid(l[i]) /\ l[i].action = "put"
     /\ \/ l[i].uri = issue
        \/ Collection[l[i].uri] = "issueStatus" /\ l[i].value.subject = issue}

\* The subjects the argument is about: pull requests, and issues whose puts and statuses
\* agree on a repository.
Tracked(l) ==
  {u \in UrisOf(l) :
     \/ Collection[u] = "pull"
     \/ /\ Collection[u] = "issue"
        /\ \A i, o \in NamingIn(l, u) : l[i].value.repository = l[o].value.repository}
RepoOf(l, u) == CHOOSE r : \E i \in NamingIn(l, u) : r = l[i].value.repository

\* The lock that guards a subject.
Guard(l, d, u) ==
  IF Collection[u] = "issue" THEN <<"issues", RepoOf(l, u)>>
  ELSE IF Exists(d, u) THEN <<"pulls", Home(d, u)>> ELSE <<"pull", u>>

\* A row of a collection with links has those of some put of it, also once it is deleted.
Linked == {"issue", "issueStatus", "pull", "pullStatus", "review"}
LinkOK(l, row, u) ==
  Collection[u] \in Linked =>
    /\ row.event = 0 => ~row.live
    /\ row.event > 0 => \E i \in Puts(l, u) : /\ row.value.repository = l[i].value.repository
                                              /\ row.value.subject = l[i].value.subject
LinksOK(l, d) == \A u \in UrisOf(l) : LinkOK(l, d[<<"row", u>>], u)

\* The locks that an event and its row call for, in the stages of issues and pull requests.
IssueNeeds(d, e) ==
  IF Collection[e.uri] \in {"issue", "issueStatus"}
  THEN Locks("issues", {Home(d, e.uri), e.value.repository}) ELSE {}
PullNeeds(d, e) ==
  CASE Collection[e.uri] = "repository" -> Locks("pulls", {e.uri})
    [] Collection[e.uri] = "pull" ->
         Locks("pull", IF e.action = "put" \/ Exists(d, e.uri) THEN {e.uri} ELSE {})
           \cup Locks("pulls", {e.value.repository, Home(d, e.uri)})
    [] Collection[e.uri] \in {"pullStatus", "review"} ->
         Locks("pull", {e.value.subject, Subject(d, e.uri)})
    [] OTHER -> {}

\* A handler x takes them, and the lock that the lock on a pull request calls for.
Taken(l, d, x) ==
  Valid(l[x.event]) /\ l[x.event].action # "identity" =>
    /\ x.stage >= 1 => IssueNeeds(d, l[x.event]) \subseteq x.held \cup x.todo
    /\ x.stage >= 2 => PullNeeds(d, l[x.event]) \subseteq x.held \cup x.todo
Followed(l, d, x) ==
  \A u \in UrisOf(l) :
    Collection[u] = "pull" /\ <<"pull", u>> \in x.held /\ Exists(d, u) =>
      <<"pulls", Home(d, u)>> \in x.held \cup x.todo

\* What a handler writes about a subject it guards, before and after.
Footprint(l, d, x) ==
  LET after == Over(x.pending, d) IN
  /\ \A u \in Tracked(l) :
       {<<"row", u>>, <<"state", u>>, <<"reviews", u>>} \cap DOMAIN x.pending # {} =>
         Guard(l, d, u) \in x.held /\ Guard(l, after, u) \in x.held
  /\ \A u \in Tracked(l), s \in UrisOf(l) :
       /\ Collection[s] \in ChildrenOf(Collection[u])
       /\ Concerns(d, s, u) \/ Concerns(after, s, u)
       /\ <<"row", s>> \in DOMAIN x.pending
       => Guard(l, d, u) \in x.held
  /\ \A r \in UrisOf(l) :
       Collection[r] = "repository" /\ <<"row", r>> \in DOMAIN x.pending => <<"pulls", r>> \in x.held

\* What it derived of the subjects it guards is right in its view.
Derives(l, d, x) ==
  \A u \in Tracked(l) : Guard(l, d, u) \in x.held => SubjectOK(l, Over(x.pending, d), u)

\* A handler, at any time; and, unless its event has a receipt, with what it writes.
HandlerOK(l, d, seen, x) ==
  /\ Followed(l, d, x)
  /\ x.event # 0 /\ x.event \notin seen =>
       Taken(l, d, x) /\ (x.stage > 5 => Footprint(l, d, x) /\ Derives(l, d, x))
Exclusive ==
  \A t, o \in Transactions : t # o => txn[t].held \cap txn[o].held = {}
StateInv ==
  /\ LinksOK(log, db)
  /\ Exclusive
  /\ \A t \in Transactions : HandlerOK(log, db, receipts, txn[t])
  /\ \A u \in Tracked(log) : SubjectOK(log, db, u)

(***************************************************************************)
(* The links of a row.                                                     *)
(***************************************************************************)
\* All puts about a tracked issue name its one repository.
LEMMA TrackedRepo ==
  ASSUME NEW l, NEW u \in Tracked(l), Collection[u] = "issue", NEW i \in NamingIn(l, u)
  PROVE  l[i].value.repository = RepoOf(l, u)
<1>1. \E o \in NamingIn(l, u) : RepoOf(l, u) = l[o].value.repository
  BY DEF RepoOf
<1> QED BY <1>1 DEF Tracked

\* Where the links of a put lead.
LEMMA PutLinks ==
  ASSUME NEW l \in Logs, NEW u \in UrisOf(l), NEW i \in Puts(l, u)
  PROVE  /\ Collection[u] \in {"issue", "issueStatus", "pull", "pullStatus"} =>
              /\ l[i].value.repository \in UrisOf(l)
              /\ Collection[l[i].value.repository] = "repository"
         /\ Collection[u] = "issueStatus" =>
              /\ l[i].value.subject = KeyedTo[u] /\ l[i].value.subject \in UrisOf(l)
              /\ Collection[l[i].value.subject] = "issue"
         /\ Collection[u] \in {"pullStatus", "review"} =>
              l[i].value.subject \in UrisOf(l) /\ Collection[l[i].value.subject] = "pull"
<1>1. /\ i \in DOMAIN l /\ l[i].uri = u /\ RightLinks(Collection[u], l[i].value)
      /\ Collection[u] = "issueStatus" => KeyedTo[u] = l[i].value.subject
  BY DEF Puts, Valid, Keyed
<1>2. /\ l[i].value.repository \in UrisOf(l) \cup {None}
      /\ l[i].value.subject \in UrisOf(l) \cup {None}
  BY <1>1, UrisOfLog
<1> QED BY <1>1, <1>2, NoneAssumption DEF RightLinks, LeadsTo

\* Where the links of a row lead.
LEMMA RowLinks ==
  ASSUME NEW l \in Logs, NEW d, LinksOK(l, d), NEW u \in UrisOf(l), Exists(d, u)
  PROVE  /\ Collection[u] \in {"issue", "issueStatus", "pull", "pullStatus"} =>
              Home(d, u) \in UrisOf(l) /\ Collection[Home(d, u)] = "repository"
         /\ Collection[u] = "issue" /\ u \in Tracked(l) => Home(d, u) = RepoOf(l, u)
         /\ Collection[u] = "issueStatus" =>
              /\ Subject(d, u) = KeyedTo[u] /\ Subject(d, u) \in UrisOf(l)
              /\ Collection[Subject(d, u)] = "issue"
              /\ Subject(d, u) \in Tracked(l) => Home(d, u) = RepoOf(l, Subject(d, u))
         /\ Collection[u] \in {"pullStatus", "review"} =>
              Subject(d, u) \in UrisOf(l) /\ Collection[Subject(d, u)] = "pull"
<1>1. CASE Collection[u] \notin Linked
  BY <1>1 DEF Linked
<1>2. CASE Collection[u] \in Linked
  <2>1. PICK i \in Puts(l, u) : Home(d, u) = l[i].value.repository /\ Subject(d, u) = l[i].value.subject
    BY <1>2 DEF LinksOK, LinkOK, Exists, Home, Subject, Value
  <2>2. Collection[u] = "issue" => i \in NamingIn(l, u)
    BY DEF Puts, NamingIn
  <2>3. Collection[u] = "issueStatus" => i \in NamingIn(l, Subject(d, u))
    BY <2>1 DEF Puts, NamingIn
  <2> QED BY <2>1, <2>2, <2>3, PutLinks, TrackedRepo
<1> QED BY <1>1, <1>2

\* A row of such a collection that is live exists.
LEMMA LiveExists ==
  ASSUME NEW l \in Logs, NEW d, View(l, d), LinksOK(l, d), NEW u \in UrisOf(l),
         Collection[u] \in Linked, Live(d, u)
  PROVE  Exists(d, u)
<1>1. d[<<"row", u>>].event \in Nat
  BY ViewRow, EventId
<1> QED BY <1>1, UrisOfLog DEF LinksOK, LinkOK, Exists, Live

\* The row that an event leaves has the links of a put.
LEMMA LinkAdvances ==
  ASSUME NEW l \in Logs, NEW u \in UrisOf(l), NEW id \in About(l, u), NEW record, NEW row,
         RowOK(l, u, row), LinkOK(l, row, u), RowApplies(record, row, l[id], id)
  PROVE  LinkOK(l, RowAfter(row, l[id], id), u)
<1> SUFFICES ASSUME Collection[u] \in Linked
             PROVE  LinkOK(l, RowAfter(row, l[id], id), u)
  BY DEF LinkOK
<1> DEFINE after == RowAfter(row, l[id], id)
<1>1. id \in Nat /\ id > 0 /\ l[id].uri = u /\ Valid(l[id]) /\ id \in DOMAIN l
  BY EventId DEF About
<1>2. CASE l[id].action = "put"
  <2>1. id \in Puts(l, u) /\ after.event = id /\ after.value = l[id].value
    BY <1>1, <1>2 DEF Puts, RowAfter
  <2> QED BY <1>1, <2>1 DEF LinkOK
<1>3. CASE l[id].action # "put"
  <2>1. row.event > 0
    BY <1>1, <1>3 DEF RowApplies, Linked, Checked
  <2>2. PICK i \in Puts(l, u) : /\ row.value.repository = l[i].value.repository
                               /\ row.value.subject = l[i].value.subject
    BY <2>1 DEF LinkOK
  <2>3. after.event = id /\ after.value = [row.value EXCEPT !.cid = None]
    BY <1>1, <1>3 DEF RowAfter, Linked, Organizations
  <2>4. after.value.repository = row.value.repository /\ after.value.subject = row.value.subject
    BY <2>3 DEF RowOK, Blank
  <2> HIDE DEF after
  <2>5. LinkOK(l, after, u)
    BY <1>1, <2>2, <2>3, <2>4 DEF LinkOK
  <2> QED BY <2>5 DEF after
<1> QED BY <1>2, <1>3

\* So has every row after a commit.
LEMMA CommitLinks ==
  ASSUME NEW l \in Logs, NEW d, View(l, d), LinksOK(l, d), NEW x, x.event \in DOMAIN l,
         PendingOK(l, d, x)
  PROVE  LinksOK(l, Over(x.pending, d))
<1> SUFFICES ASSUME NEW u \in UrisOf(l)
             PROVE  LinkOK(l, Over(x.pending, d)[<<"row", u>>], u)
  BY DEF LinksOK
<1>1. LinkOK(l, d[<<"row", u>>], u) /\ RowOK(l, u, d[<<"row", u>>])
  BY ViewRow DEF LinksOK
<1>2. CASE x.event \in About(l, u)
  <2> DEFINE row == d[<<"row", u>>]
             record == d[<<"record", u>>]
             e == l[x.event]
  <2>1. Over(x.pending, d)[<<"row", u>>] =
          IF RowApplies(record, row, e, x.event) THEN RowAfter(row, e, x.event) ELSE row
    BY <1>2, CommitCells
  <2>2. RowApplies(record, row, e, x.event) => LinkOK(l, RowAfter(row, e, x.event), u)
    BY <1>1, <1>2, LinkAdvances
  <2> QED BY <1>1, <2>1, <2>2
<1>3. CASE x.event \notin About(l, u)
  BY <1>1, <1>3, CommitCells
<1> QED BY <1>2, <1>3

\* An event leaves the repository of an existing pull request or tracked issue, and the
\* subject of an existing status or review, as they are.
LEMMA LinksStay ==
  ASSUME NEW l \in Logs, NEW d, View(l, d), LinksOK(l, d), NEW x, x.event \in DOMAIN l,
         PendingOK(l, d, x), NEW u \in UrisOf(l), Exists(d, u)
  PROVE  LET after == Over(x.pending, d) IN
         /\ Exists(after, u)
         /\ u \in Tracked(l) => Home(after, u) = Home(d, u)
         /\ Collection[u] \in {"issueStatus", "pullStatus", "review"} =>
              Subject(after, u) = Subject(d, u)
<1> DEFINE after == Over(x.pending, d)
           row == d[<<"row", u>>]
           e == l[x.event]
<1>1. CASE after[<<"row", u>>] = row
  BY <1>1 DEF Exists, Home, Subject, Value
<1>2. CASE after[<<"row", u>>] # row
  <2>1. /\ x.event \in About(l, u)
        /\ RowApplies(d[<<"record", u>>], row, e, x.event)
        /\ after[<<"row", u>>] = RowAfter(row, e, x.event)
    BY <1>2, CommitCells
  <2>2. x.event \in Nat /\ x.event > 0 /\ e.uri = u /\ Valid(e)
    BY <2>1, EventId DEF About
  <2>3. Exists(after, u)
    BY <2>1, <2>2 DEF Exists, RowAfter
  <2>4. LinksOK(l, after)
    BY CommitLinks
  <2>5. CASE e.action # "put" /\ Collection[u] \in Linked
    <3>1. after[<<"row", u>>].value = [row.value EXCEPT !.cid = None]
      BY <2>1, <2>2, <2>5 DEF RowAfter, Linked, Organizations
    <3>2. DOMAIN row.value = DOMAIN Blank
      BY ViewRow DEF RowOK
    <3>3. Home(after, u) = Home(d, u) /\ Subject(after, u) = Subject(d, u)
      BY <3>1, <3>2 DEF Home, Subject, Value, Blank
    <3> QED BY <2>3, <3>3
  <2>6. CASE e.action = "put" /\ Collection[u] \in {"pull", "pullStatus", "review"}
    <3>1. after[<<"row", u>>].value = e.value
      BY <2>1, <2>6 DEF RowAfter
    <3>2. SameLinks(Collection[u], row.value, e.value)
      BY <2>1, <2>2, <2>6 DEF RowApplies, Checked, Exists
    <3> QED BY <2>3, <2>6, <3>1, <3>2 DEF SameLinks, Home, Subject, Value, Tracked
  <2>7. CASE e.action = "put" /\ Collection[u] \in {"issue", "issueStatus"}
    BY <2>3, <2>4, <2>7, RowLinks DEF Tracked
  <2>8. CASE Collection[u] \notin Linked
    BY <2>3, <2>8 DEF Linked, Tracked
  <2> QED BY <2>5, <2>6, <2>7, <2>8 DEF Linked
<1> QED BY <1>1, <1>2

(***************************************************************************)
(* What one handler commits leaves the others' subjects alone.             *)
(***************************************************************************)
\* What the writes w over the view d read as.
LEMMA ViewOver ==
  ASSUME NEW l, NEW d, View(l, d), NEW w, NEW c \in Columns, NEW u \in UrisOf(l)
  PROVE  Over(w, d)[<<c, u>>] = IF <<c, u>> \in DOMAIN w THEN w[<<c, u>>] ELSE d[<<c, u>>]
<1>1. <<c, u>> \in DOMAIN d
  BY DEF View, Cells
<1> QED BY <1>1, OverReads

LEMMA SubjectColumns == {"row", "state", "reviews"} \subseteq Columns /\ "row" \in Sources
BY DEF Columns, Counters, Sources

\* The guard of a subject depends on its row only.
LEMMA GuardSame ==
  ASSUME NEW l, NEW d, NEW f, NEW u, f[<<"row", u>>] = d[<<"row", u>>]
  PROVE  Guard(l, f, u) = Guard(l, d, u)
BY DEF Guard, Exists, Home, Value

\* Where v and w differ by what a handler x wrote, and x does not hold the guard of u,
\* they say the same of u.
LEMMA Unaffected ==
  ASSUME NEW l \in Logs, NEW d, View(l, d), NEW x, x.event \in DOMAIN l, PendingOK(l, d, x),
         Footprint(l, d, x), NEW v, NEW w,
         \A c \in {"row", "state", "reviews"}, s \in UrisOf(l) :
           \/ v[<<c, s>>] = w[<<c, s>>]
           \/ /\ <<c, s>> \in DOMAIN x.pending
              /\ v[<<c, s>>] = d[<<c, s>>] /\ w[<<c, s>>] = Over(x.pending, d)[<<c, s>>],
         NEW u \in Tracked(l), Guard(l, d, u) \notin x.held,
         Home(v, u) \in LinkOf(l),
         Collection[u] = "pull" /\ Live(v, u) =>
           /\ Home(v, u) \in UrisOf(l) /\ Collection[Home(v, u)] = "repository"
           /\ <<"pulls", Home(v, u)>> \notin x.held
  PROVE  Alike(l, v, w, u)
<1> DEFINE after == Over(x.pending, d)
<1>0. u \in UrisOf(l)
  BY DEF Tracked
<1>1. /\ w[<<"row", u>>] = v[<<"row", u>>]
      /\ w[<<"state", u>>] = v[<<"state", u>>]
      /\ w[<<"reviews", u>>] = v[<<"reviews", u>>]
  BY <1>0 DEF Footprint
<1>2. ASSUME NEW s \in UrisOf(l), Collection[s] \in ChildrenOf(Collection[u]),
             Concerns(v, s, u) \/ Concerns(w, s, u), w[<<"row", s>>] # v[<<"row", s>>]
      PROVE  FALSE
  <2>1. /\ <<"row", s>> \in DOMAIN x.pending
        /\ v[<<"row", s>>] = d[<<"row", s>>] /\ w[<<"row", s>>] = after[<<"row", s>>]
    BY <1>2
  <2>2. Concerns(d, s, u) \/ Concerns(after, s, u)
    BY <1>2, <2>1 DEF Concerns, Live, Subject, Value
  <2> QED BY <1>2, <2>1, <2>2 DEF Footprint
<1>3. ASSUME Exists(v, Home(v, u)) PROVE Exists(w, Home(v, u))
  <2> DEFINE r == Home(v, u)
  <2>1. r \in UrisOf(l)
    BY <1>3 DEF LinkOf, Exists
  <2>2. CASE w[<<"row", r>>] = v[<<"row", r>>]
    BY <1>3, <2>2 DEF Exists
  <2>3. CASE w[<<"row", r>>] # v[<<"row", r>>]
    <3>1. <<"row", r>> \in DOMAIN x.pending /\ w[<<"row", r>>] = after[<<"row", r>>]
      BY <2>1, <2>3
    <3>2. w[<<"row", r>>].event = x.event
      BY <2>1, <3>1, PendingOwn, OverReads, SubjectColumns
    <3> QED BY <1>3, <3>2, EventId DEF Exists
  <2> QED BY <2>2, <2>3
<1>4. ASSUME Collection[u] = "pull", Live(v, u)
      PROVE  w[<<"row", Home(v, u)>>] = v[<<"row", Home(v, u)>>]
  BY <1>4 DEF Footprint
<1> QED BY <1>1, <1>2, <1>3, <1>4 DEF Alike

\* A commit leaves every subject right.
LEMMA CommitSubjects ==
  ASSUME NEW l \in Logs, NEW d, View(l, d), LinksOK(l, d), NEW x, x.event \in DOMAIN l,
         PendingOK(l, d, x), Footprint(l, d, x), Derives(l, d, x),
         NEW u \in Tracked(l), SubjectOK(l, d, u)
  PROVE  SubjectOK(l, Over(x.pending, d), u)
<1>1. CASE Guard(l, d, u) \in x.held
  BY <1>1 DEF Derives
<1>2. CASE Guard(l, d, u) \notin x.held
  <2> DEFINE after == Over(x.pending, d)
  <2>1. u \in UrisOf(l) /\ Collection[u] \in {"issue", "pull"}
    BY DEF Tracked
  <2>2. Home(d, u) \in LinkOf(l)
    BY <2>1, ViewRow DEF RowOK, Home, Value
  <2>3. ASSUME Collection[u] = "pull", Live(d, u)
        PROVE  /\ Home(d, u) \in UrisOf(l) /\ Collection[Home(d, u)] = "repository"
               /\ <<"pulls", Home(d, u)>> \notin x.held
    <3>1. Exists(d, u)
      BY <2>1, <2>3, LiveExists DEF Linked
    <3> QED BY <1>2, <2>1, <2>3, <3>1, RowLinks DEF Guard
  <2>4. \A c \in {"row", "state", "reviews"}, s \in UrisOf(l) :
          d[<<c, s>>] = after[<<c, s>>] \/ <<c, s>> \in DOMAIN x.pending
    <3> TAKE c \in {"row", "state", "reviews"}, s \in UrisOf(l)
    <3>1. c \in Columns
      BY SubjectColumns
    <3> QED BY <3>1, ViewOver
  <2> HIDE DEF after
  <2>5. Alike(l, d, after, u)
    BY <1>2, <2>2, <2>3, <2>4, Unaffected DEF after
  <2> QED BY <2>1, <2>5, AlikeOK DEF after
<1> QED BY <1>1, <1>2

\* Nor does it disturb what another handler x has derived and is to write.
LEMMA CommitBeside ==
  ASSUME NEW l \in Logs, NEW d, View(l, d), LinksOK(l, d),
         NEW o, o.event \in DOMAIN l, Typed(l, o.pending), PendingOK(l, d, o), Footprint(l, d, o),
         NEW x, x.event \in DOMAIN l, Typed(l, x.pending), PendingOK(l, d, x), Footprint(l, d, x),
         Derives(l, d, x), x.held \cap o.held = {}, l[x.event].uri # l[o.event].uri
  PROVE  Footprint(l, Over(o.pending, d), x) /\ Derives(l, Over(o.pending, d), x)
<1> DEFINE f == Over(o.pending, d)
           v == Over(x.pending, d)
           w == Over(x.pending, f)
<1>1. View(l, f) /\ View(l, v)
  BY OverView
<1>2. \A c \in Columns, s \in UrisOf(l) :
        /\ f[<<c, s>>] = IF <<c, s>> \in DOMAIN o.pending THEN o.pending[<<c, s>>] ELSE d[<<c, s>>]
        /\ v[<<c, s>>] = IF <<c, s>> \in DOMAIN x.pending THEN x.pending[<<c, s>>] ELSE d[<<c, s>>]
        /\ w[<<c, s>>] = IF <<c, s>> \in DOMAIN x.pending THEN x.pending[<<c, s>>] ELSE f[<<c, s>>]
  <2> TAKE c \in Columns, s \in UrisOf(l)
  <2> HIDE DEF f
  <2> QED BY <1>1, ViewOver DEF f
<1> HIDE DEF f, v, w
<1>3. ASSUME NEW u \in Tracked(l), <<"row", u>> \in DOMAIN o.pending
      PROVE  Guard(l, d, u) \notin x.held /\ Guard(l, f, u) \notin x.held
  BY <1>3 DEF Footprint, f
<1>4. ASSUME NEW u \in Tracked(l), <<"row", u>> \notin DOMAIN o.pending
      PROVE  Guard(l, f, u) = Guard(l, d, u) /\ Guard(l, w, u) = Guard(l, v, u)
  <2>1. u \in UrisOf(l)
    BY DEF Tracked
  <2>2. f[<<"row", u>>] = d[<<"row", u>>] /\ w[<<"row", u>>] = v[<<"row", u>>]
    BY <1>2, <1>4, <2>1, SubjectColumns
  <2> QED BY <2>2, GuardSame
<1>5. Footprint(l, f, x)
  <2>1. ASSUME NEW u \in Tracked(l),
               {<<"row", u>>, <<"state", u>>, <<"reviews", u>>} \cap DOMAIN x.pending # {}
        PROVE  Guard(l, f, u) \in x.held /\ Guard(l, w, u) \in x.held
    <3>1. Guard(l, d, u) \in x.held /\ Guard(l, v, u) \in x.held
      BY <2>1 DEF Footprint, v
    <3> QED BY <3>1, <1>3, <1>4
  <2>2. ASSUME NEW u \in Tracked(l), NEW s \in UrisOf(l),
               Collection[s] \in ChildrenOf(Collection[u]),
               Concerns(f, s, u) \/ Concerns(w, s, u), <<"row", s>> \in DOMAIN x.pending
        PROVE  Guard(l, f, u) \in x.held
    <3>1. s = l[x.event].uri
      BY <2>2, PendingOwn, SubjectColumns
    <3>2. f[<<"row", s>>] = d[<<"row", s>>]
      BY <3>1, CommitElsewhere, SubjectColumns DEF f
    <3>3. w[<<"row", s>>] = v[<<"row", s>>]
      BY <1>2, <2>2, SubjectColumns
    <3>4. Concerns(d, s, u) \/ Concerns(v, s, u)
      BY <2>2, <3>2, <3>3 DEF Concerns, Live, Subject, Value
    <3>5. Guard(l, d, u) \in x.held
      BY <2>2, <3>4 DEF Footprint, v
    <3> QED BY <3>5, <1>3, <1>4
  <2>3. \A r \in UrisOf(l) :
          Collection[r] = "repository" /\ <<"row", r>> \in DOMAIN x.pending => <<"pulls", r>> \in x.held
    BY DEF Footprint
  <2> QED BY <2>1, <2>2, <2>3 DEF Footprint, w
<1>6. Derives(l, f, x)
  <2> SUFFICES ASSUME NEW u \in Tracked(l), Guard(l, f, u) \in x.held
               PROVE  SubjectOK(l, w, u)
    BY DEF Derives, w
  <2>1. <<"row", u>> \notin DOMAIN o.pending /\ Guard(l, d, u) \in x.held /\ Guard(l, d, u) \notin o.held
    BY <1>3, <1>4
  <2>2. SubjectOK(l, v, u)
    BY <2>1 DEF Derives, v
  <2>3. u \in UrisOf(l) /\ Collection[u] \in {"issue", "pull"}
    BY DEF Tracked
  <2>4. Home(v, u) \in LinkOf(l)
    BY <1>1, <2>3, ViewRow DEF RowOK, Home, Value
  <2>5. ASSUME Collection[u] = "pull", Live(v, u)
        PROVE  /\ Home(v, u) \in UrisOf(l) /\ Collection[Home(v, u)] = "repository"
               /\ <<"pulls", Home(v, u)>> \notin o.held
    <3>1. LinksOK(l, v)
      BY CommitLinks DEF v
    <3>2. Exists(v, u)
      BY <1>1, <2>3, <2>5, <3>1, LiveExists DEF Linked
    <3>3. Guard(l, v, u) = <<"pulls", Home(v, u)>>
      BY <2>5, <3>2 DEF Guard
    <3>4. Guard(l, v, u) \in x.held
      <4>1. CASE <<"row", u>> \in DOMAIN x.pending
        BY <4>1 DEF Footprint, v
      <4>2. CASE <<"row", u>> \notin DOMAIN x.pending
        BY <1>2, <2>1, <2>3, <4>2, GuardSame, SubjectColumns
      <4> QED BY <4>1, <4>2
    <3> QED BY <2>3, <2>5, <3>1, <3>2, <3>3, <3>4, RowLinks
  <2>6. \A c \in {"row", "state", "reviews"}, s \in UrisOf(l) :
          \/ v[<<c, s>>] = w[<<c, s>>]
          \/ /\ <<c, s>> \in DOMAIN o.pending
             /\ v[<<c, s>>] = d[<<c, s>>] /\ w[<<c, s>>] = f[<<c, s>>]
    BY <1>2, SubjectColumns
  <2>7. Alike(l, v, w, u)
    BY <2>1, <2>4, <2>5, <2>6, Unaffected DEF f
  <2> QED BY <2>2, <2>3, <2>7, AlikeOK
<1> QED BY <1>5, <1>6 DEF f

(***************************************************************************)
(* What project() recomputes of a subject.                                 *)
(***************************************************************************)
SameRows(l, v, w) == \A s \in UrisOf(l) : w[<<"row", s>>] = v[<<"row", s>>]

\* The states and reviews among the writes w are those of the targets whose rows exist in
\* the view v, as v derives them.
Recomputed(l, targets, v, w) ==
  \A u \in UrisOf(l) :
    /\ <<"state", u>> \in DOMAIN w <=>
         <<"state", u>> \in targets /\ Exists(v, u) /\ Exists(v, Home(v, u))
    /\ <<"state", u>> \in DOMAIN w => w[<<"state", u>>] = StateOf(l, v, u)
    /\ <<"reviews", u>> \in DOMAIN w <=> <<"reviews", u>> \in targets /\ Exists(v, u)
    /\ <<"reviews", u>> \in DOMAIN w => w[<<"reviews", u>>] = Cardinality(Reviewers(l, v, u))

\* Views with the same rows derive the same.
LEMMA SameRowsDerive ==
  ASSUME NEW l, NEW v, View(l, v), NEW f, SameRows(l, v, f), NEW u \in UrisOf(l)
  PROVE  /\ Exists(f, u) <=> Exists(v, u)
         /\ Value(f, u) = Value(v, u) /\ Home(f, u) = Home(v, u)
         /\ Exists(f, Home(v, u)) <=> Exists(v, Home(v, u))
         /\ Exists(v, Home(v, u)) => StateOf(l, f, u) = StateOf(l, v, u)
         /\ Reviewers(l, f, u) = Reviewers(l, v, u)
<1>1. \A s \in UrisOf(l) : /\ Exists(f, s) <=> Exists(v, s)
                           /\ Value(f, s) = Value(v, s) /\ Home(f, s) = Home(v, s)
                           /\ Concerns(v, s, u) <=> Concerns(f, s, u)
                           /\ f[<<"row", s>>] = v[<<"row", s>>]
  BY DEF SameRows, Exists, Value, Home, Concerns, Live, Subject
<1>2. Home(v, u) \in LinkOf(l)
  BY ViewRow DEF RowOK, Home, Value
<1>3. Exists(f, Home(v, u)) <=> Exists(v, Home(v, u))
  BY <1>1, <1>2 DEF Exists, LinkOf
<1>4. Exists(v, Home(v, u)) => StateOf(l, f, u) = StateOf(l, v, u)
  <2> SUFFICES ASSUME Exists(v, Home(v, u)) PROVE StateOf(l, f, u) = StateOf(l, v, u)
    OBVIOUS
  <2>1. Home(v, u) \in UrisOf(l)
    BY <1>2 DEF Exists, LinkOf
  <2>2. Value(f, u) = Value(v, u) /\ Value(f, Home(v, u)) = Value(v, Home(v, u))
    BY <1>1, <2>1
  <2>3. \A s \in UrisOf(l) : Collection[s] = StatusOf(Collection[u]) =>
          /\ Concerns(v, s, u) <=> Concerns(f, s, u)
          /\ Concerns(v, s, u) =>
               /\ f[<<"row", s>>] = v[<<"row", s>>]
               /\ Value(f, s) = Value(v, s) /\ Home(f, s) = Home(v, s)
    BY <1>1
  <2> QED BY <2>2, <2>3, SameState
<1>5. Reviewers(l, f, u) = Reviewers(l, v, u)
  BY <1>1, SameReviewers
<1> QED BY <1>1, <1>3, <1>4, <1>5

LEMMA SameRowsRecomputed ==
  ASSUME NEW l, NEW v, View(l, v), NEW f, SameRows(l, v, f), NEW targets, NEW w,
         Recomputed(l, targets, v, w)
  PROVE  Recomputed(l, targets, f, w)
<1> SUFFICES ASSUME NEW u \in UrisOf(l)
             PROVE  Recomputed(l, targets, f, w)!(u)
  BY DEF Recomputed
<1> QED BY SameRowsDerive DEF Recomputed

\* RecomputeAll, over writes without states and reviews.
LEMMA RecomputeAllCells ==
  ASSUME log \in Logs, View(log, db), NEW w, Typed(log, w),
         NEW targets, targets \subseteq Derived \X LinkOf(log),
         \A u \in Uris : <<"state", u>> \notin DOMAIN w /\ <<"reviews", u>> \notin DOMAIN w
  PROVE  Recomputed(log, targets, Over(w, db), RecomputeAll(w, targets))
<1> DEFINE v == Over(w, db)
           states == {x \in targets : x[1] = "state"}
           n == [x \in Known(v, states) |-> Derive(v, x[1], x[2])]
           w1 == Recompute(w, states)
           v1 == Over(w1, db)
           n1 == [x \in Known(v1, targets \ states) |-> Derive(v1, x[1], x[2])]
           r == RecomputeAll(w, targets)
<1>1. w1 = Over(n, w) /\ r = Over(n1, w1)
  BY DEF Recompute, RecomputeAll
<1>2. Typed(log, w1) /\ SameSources(w, w1)
  BY RecomputeWrites
<1>3. View(log, v) /\ View(log, v1)
  BY <1>2, OverView
<1>4. SameRows(log, v, v1)
  <2> SUFFICES ASSUME NEW s \in UrisOf(log) PROVE v1[<<"row", s>>] = v[<<"row", s>>]
    BY DEF SameRows
  <2> HIDE DEF w1, v, v1
  <2>1. /\ v[<<"row", s>>] = IF <<"row", s>> \in DOMAIN w THEN w[<<"row", s>>] ELSE db[<<"row", s>>]
        /\ v1[<<"row", s>>] = IF <<"row", s>> \in DOMAIN w1 THEN w1[<<"row", s>>] ELSE db[<<"row", s>>]
    BY ViewOver, SubjectColumns DEF v, v1
  <2> QED BY <1>2, <2>1, SubjectColumns DEF SameSources, Uris
<1>5. ASSUME NEW u \in UrisOf(log)
      PROVE  /\ <<"state", u>> \in DOMAIN n <=>
                  <<"state", u>> \in targets /\ Exists(v, u) /\ Exists(v, Home(v, u))
             /\ <<"state", u>> \in DOMAIN n => n[<<"state", u>>] = StateOf(log, v, u)
             /\ <<"reviews", u>> \notin DOMAIN n
             /\ <<"state", u>> \notin DOMAIN n1
             /\ <<"reviews", u>> \in DOMAIN n1 <=> <<"reviews", u>> \in targets /\ Exists(v1, u)
             /\ <<"reviews", u>> \in DOMAIN n1 =>
                  n1[<<"reviews", u>>] = Cardinality(Reviewers(log, v1, u))
  <2> HIDE DEF v, v1
  <2>1. Derive(v, "state", u) = StateOf(log, v, u)
    BY ResolveIsStateOf DEF Derive
  <2>2. Derive(v1, "reviews", u) = Cardinality(Reviewers(log, v1, u))
    BY ReviewsAreReviewers
  <2> QED BY <2>1, <2>2 DEF Known, Home
<1>6. \A u \in UrisOf(log) :
        /\ <<"state", u>> \in DOMAIN r <=> <<"state", u>> \in DOMAIN n
        /\ <<"state", u>> \in DOMAIN n => r[<<"state", u>>] = n[<<"state", u>>]
        /\ <<"reviews", u>> \in DOMAIN r <=> <<"reviews", u>> \in DOMAIN n1
        /\ <<"reviews", u>> \in DOMAIN n1 => r[<<"reviews", u>>] = n1[<<"reviews", u>>]
  <2> HIDE DEF v, v1, n, n1, w1, r
  <2>1. DOMAIN w1 = DOMAIN n \cup DOMAIN w /\ DOMAIN r = DOMAIN n1 \cup DOMAIN w1
    BY <1>1 DEF Over
  <2>2. ASSUME NEW u \in UrisOf(log)
        PROVE  /\ <<"state", u>> \in DOMAIN n => r[<<"state", u>>] = n[<<"state", u>>]
               /\ <<"reviews", u>> \in DOMAIN n1 => r[<<"reviews", u>>] = n1[<<"reviews", u>>]
    BY <1>1, <1>5, <2>1, OverReads
  <2> QED BY <1>5, <2>1, <2>2 DEF Uris
<1>7. ASSUME NEW u \in UrisOf(log)
      PROVE  Reviewers(log, v1, u) = Reviewers(log, v, u) /\ (Exists(v1, u) <=> Exists(v, u))
  <2> HIDE DEF v, v1
  <2> QED BY <1>3, <1>4, SameRowsDerive
<1> HIDE DEF v, v1, n, n1, w1, r
<1>8. Recomputed(log, targets, v, r)
  BY <1>5, <1>6, <1>7 DEF Recomputed
<1> QED BY <1>8 DEF v, r

\* The writes w and r agree on what the derived values of subjects depend on.
SameSubjects(w, r) ==
  \A c \in {"row", "state", "reviews"} : \A u :
    /\ <<c, u>> \in DOMAIN r <=> <<c, u>> \in DOMAIN w
    /\ <<c, u>> \in DOMAIN w => r[<<c, u>>] = w[<<c, u>>]

\* Reconcile writes no row, no state and no reviews.
LEMMA ReconcileCells ==
  ASSUME NEW w
  PROVE  SameSubjects(w, Reconcile(w))
<1> DEFINE f == Over(w, db)
           n == [cell \in LineageCounters \X Rows(f, "repository") |-> LineageCount(f, cell[1], cell[2])]
           r == Reconcile(w)
<1>1. r = Over(n, w)
  BY DEF Reconcile
<1>2. \A c \in {"row", "state", "reviews"} : \A u : <<c, u>> \notin DOMAIN n
  BY DEF LineageCounters
<1> HIDE DEF n, r
<1>3. SameSubjects(w, r)
  BY <1>1, <1>2 DEF SameSubjects, Over
<1> QED BY <1>3 DEF r

\* What the event e, whose writes over d are w, makes project() recompute of u: its own put,
\* a child's event, or its repository's put.
Hit(e, d, w, u, kids) ==
  \/ e.action = "put" /\ <<"row", u>> \in DOMAIN w
  \/ <<"row", e.uri>> \in DOMAIN w /\ Collection[e.uri] \in kids /\ Subject(Over(w, d), e.uri) = u
  \/ /\ e.action = "put" /\ Collection[e.uri] = "repository"
     /\ Collection[u] = "pull" /\ Exists(d, u) /\ Home(d, u) = e.uri
Statuses == {"issueStatus", "pullStatus"}

\* The states and reviews among the targets of an event.
LEMMA RowTargetHits ==
  ASSUME NEW v, NEW e, NEW u
  PROVE  /\ <<"state", u>> \in RowTargets(v, e) <=>
              \/ Collection[e.uri] \in {"issue", "pull"} /\ e.action = "put" /\ u = e.uri
              \/ Collection[e.uri] \in Statuses /\ u = Subject(v, e.uri) /\ Exists(v, u)
         /\ <<"reviews", u>> \in RowTargets(v, e) <=>
              \/ Collection[e.uri] = "pull" /\ e.action = "put" /\ u = e.uri
              \/ Collection[e.uri] = "review" /\ u = Subject(v, e.uri)
<1>0. /\ \A r : /\ <<"state", u>> \notin IssueCounts(r) /\ <<"reviews", u>> \notin IssueCounts(r)
                /\ <<"state", u>> \notin PullCounts(r) /\ <<"reviews", u>> \notin PullCounts(r)
      /\ \A f, i : <<"state", u>> \notin CommentCounts(f, i) /\ <<"reviews", u>> \notin CommentCounts(f, i)
  BY DEF IssueCounts, PullCounts, CommentCounts
<1>1. CASE Collection[e.uri] = "issue"
  BY <1>0, <1>1 DEF RowTargets, IssueTargets, Statuses
<1>2. CASE Collection[e.uri] = "pull"
  BY <1>0, <1>2 DEF RowTargets, PullTargets, Statuses
<1>3. CASE Collection[e.uri] = "comment"
  BY <1>0, <1>3 DEF RowTargets, CommentTargets, Statuses
<1>4. CASE Collection[e.uri] \in Statuses
  <2>1. RowTargets(v, e) = StateAndCounts(v, Subject(v, e.uri))
    BY <1>4 DEF RowTargets, Statuses, Subject
  <2>2. Collection[e.uri] \notin {"issue", "pull", "review"}
    BY <1>4 DEF Statuses
  <2> QED BY <1>0, <1>4, <2>1, <2>2 DEF StateAndCounts
<1>5. CASE Collection[e.uri] = "review"
  BY <1>5 DEF RowTargets, Subject, Statuses
<1>6. CASE Collection[e.uri] = "star"
  BY <1>6 DEF RowTargets, Statuses
<1>7. CASE Collection[e.uri] \notin {"issue", "pull", "comment", "review", "star"} \cup Statuses
  <2>1. RowTargets(v, e) = {}
    BY <1>7 DEF RowTargets, Statuses
  <2> QED BY <1>7, <2>1
<1> QED BY <1>1, <1>2, <1>3, <1>4, <1>5, <1>6, <1>7

LEMMA RepositoryTargetHits ==
  ASSUME NEW e, NEW u, NEW c \in {"state", "reviews"}
  PROVE  <<c, u>> \in RepositoryTargets(e) <=> e.action = "put" /\ u \in AllPulls(db, e.uri)
<1>0. \A r : <<c, u>> \notin IssueCounts(r) /\ <<c, u>> \notin PullCounts(r)
  BY DEF IssueCounts, PullCounts
<1> QED BY <1>0 DEF RepositoryTargets

\* The row and the raw record are all that is written before anything is recomputed.
LEMMA WrittenCells ==
  ASSUME NEW e, NEW id
  PROVE  LET raw == WriteRecord(NoWrites, e.uri, id, e.action = "put")
             written == WriteRow(raw, e, id)
         IN  /\ DOMAIN written \subseteq {<<"record", e.uri>>, <<"row", e.uri>>}
             /\ <<"row", e.uri>> \in DOMAIN written <=> Applies(Over(raw, db), e, id)
<1> DEFINE raw == WriteRecord(NoWrites, e.uri, id, e.action = "put")
           written == WriteRow(raw, e, id)
<1>1. DOMAIN raw \subseteq {<<"record", e.uri>>}
  BY NoWritesTyped DEF WriteRecord, Put
<1> HIDE DEF raw
<1>2. CASE Applies(Over(raw, db), e, id)
  <2>1. DOMAIN written = DOMAIN raw \cup {<<"row", e.uri>>}
    BY <1>2 DEF WriteRow, Put
  <2> QED BY <1>1, <1>2, <2>1 DEF raw
<1>3. CASE ~Applies(Over(raw, db), e, id)
  <2>1. written = raw
    BY <1>3 DEF WriteRow
  <2>2. <<"row", e.uri>> \notin DOMAIN raw
    BY <1>1
  <2> QED BY <1>1, <1>3, <2>1, <2>2 DEF raw
<1> QED BY <1>2, <1>3

\* Writes without states and reviews recompute nothing.
LEMMA NothingRecomputed ==
  ASSUME NEW l, NEW v, NEW w,
         \A u \in UrisOf(l) : <<"state", u>> \notin DOMAIN w /\ <<"reviews", u>> \notin DOMAIN w
  PROVE  Recomputed(l, {}, v, w)
BY DEF Recomputed

\* The states and reviews project() writes.
LEMMA ProjectCells ==
  ASSUME log \in Logs, View(log, db), NEW id \in Events, Valid(log[id]),
         log[id].action # "identity", NEW u \in Uris, Collection[u] \in {"issue", "pull"}
  PROVE  LET e == log[id]
             w == ProjectRecord(e, id)
             after == Over(w, db)
         IN  /\ <<"state", u>> \in DOMAIN w <=>
                  Hit(e, db, w, u, Statuses) /\ Exists(after, u) /\ Exists(after, Home(after, u))
             /\ <<"state", u>> \in DOMAIN w => w[<<"state", u>>] = StateOf(log, after, u)
             /\ <<"reviews", u>> \in DOMAIN w =>
                  /\ Hit(e, db, w, u, {"review"}) /\ Exists(after, u)
                  /\ w[<<"reviews", u>>] = Cardinality(Reviewers(log, after, u))
             /\ Collection[u] = "pull" /\ Hit(e, db, w, u, {"review"}) /\ Exists(after, u) =>
                  <<"reviews", u>> \in DOMAIN w
<1> DEFINE e == log[id]
           w == ProjectRecord(e, id)
           after == Over(w, db)
           raw == WriteRecord(NoWrites, e.uri, id, e.action = "put")
           applies == Applies(Over(raw, db), e, id)
           written == WriteRow(raw, e, id)
           v == Over(written, db)
           c == Collection[e.uri]
           profiled == IF applies THEN WriteProfileHandle(written, e.uri) ELSE written
           projected ==
             CASE c = "profile" ->
                    IF e.action = "put" THEN Recompute(profiled, {<<"repositories", e.uri>>}) ELSE written
               [] c = "repository" -> RecomputeAll(written, RepositoryTargets(e))
               [] c \in Checked /\ applies -> RecomputeAll(written, RowTargets(v, e))
               [] OTHER -> written
           targets == CASE c = "repository" -> RepositoryTargets(e)
                        [] c \in Checked /\ applies -> RowTargets(v, e)
                        [] OTHER -> {}
<1>0. e.uri \in UrisOf(log)
  BY UrisOfLog DEF Events
<1>1. /\ w = projected
      /\ Typed(log, w) /\ RecordWrites(log, db, w, id)
      /\ Typed(log, written) /\ RecordWrites(log, db, written, id)
  BY ProjectRecordWrites, RawWrites DEF ProjectRecord
<1>2. /\ DOMAIN written \subseteq {<<"record", e.uri>>, <<"row", e.uri>>}
      /\ <<"row", e.uri>> \in DOMAIN written <=> applies
  BY WrittenCells
<1> HIDE DEF raw, applies, written, w
<1>3. View(log, v) /\ View(log, after)
  BY <1>1, OverView
<1>4. \A s \in UrisOf(log) : /\ <<"row", s>> \in DOMAIN w <=> <<"row", s>> \in DOMAIN written
                             /\ <<"row", s>> \in DOMAIN w => s = e.uri
                             /\ <<"row", s>> \in DOMAIN w => w[<<"row", s>>] = written[<<"row", s>>]
  BY <1>1 DEF RecordWrites
<1>5. SameRows(log, v, after)
  <2> SUFFICES ASSUME NEW s \in UrisOf(log) PROVE after[<<"row", s>>] = v[<<"row", s>>]
    BY DEF SameRows
  <2>1. /\ v[<<"row", s>>] = IF <<"row", s>> \in DOMAIN written THEN written[<<"row", s>>] ELSE db[<<"row", s>>]
        /\ after[<<"row", s>>] = IF <<"row", s>> \in DOMAIN w THEN w[<<"row", s>>] ELSE db[<<"row", s>>]
    BY ViewOver, SubjectColumns
  <2> QED BY <1>4, <2>1
<1> HIDE DEF v, after
<1>6. Recomputed(log, targets, v, projected)
  <2>0. \A x \in UrisOf(log) : <<"state", x>> \notin DOMAIN written /\ <<"reviews", x>> \notin DOMAIN written
    BY <1>2
  <2>1. CASE c = "profile"
    <3>1. targets = {}
      BY <2>1 DEF Checked
    <3>2. projected = IF e.action = "put" THEN Recompute(profiled, {<<"repositories", e.uri>>}) ELSE written
      BY <2>1 DEF Checked
    <3>3. \A x \in UrisOf(log) : <<"state", x>> \notin DOMAIN profiled /\ <<"reviews", x>> \notin DOMAIN profiled
      BY <2>0 DEF WriteProfileHandle, Put
    <3> HIDE DEF profiled, projected, targets
    <3>4. \A x \in UrisOf(log) : <<"state", x>> \notin DOMAIN projected /\ <<"reviews", x>> \notin DOMAIN projected
      <4>1. CASE e.action # "put"
        BY <2>0, <3>2, <4>1
      <4>2. CASE e.action = "put"
        <5>1. DOMAIN projected = Known(Over(profiled, db), {<<"repositories", e.uri>>}) \cup DOMAIN profiled
          BY <3>2, <4>2 DEF Recompute, Over
        <5> QED BY <3>3, <5>1 DEF Known
      <4> QED BY <4>1, <4>2
    <3> QED BY <3>1, <3>4, NothingRecomputed
  <2>2. CASE c = "repository"
    <3>1. targets = RepositoryTargets(e) /\ projected = RecomputeAll(written, RepositoryTargets(e))
      BY <2>2 DEF Checked
    <3>2. RepositoryTargets(e) \subseteq Derived \X LinkOf(log)
      BY RepositoryTargetsType
    <3> HIDE DEF projected, targets
    <3> QED BY <1>1, <2>0, <3>1, <3>2, RecomputeAllCells DEF v, Uris
  <2>3. CASE c \in Checked /\ applies
    <3>1. targets = RowTargets(v, e) /\ projected = RecomputeAll(written, RowTargets(v, e))
      BY <2>3 DEF Checked
    <3>2. RowTargets(v, e) \subseteq Derived \X LinkOf(log)
      BY <1>3, RowTargetsType
    <3> HIDE DEF projected, targets
    <3> QED BY <1>1, <2>0, <3>1, <3>2, RecomputeAllCells DEF v, Uris
  <2>4. CASE c \notin {"profile", "repository"} /\ ~(c \in Checked /\ applies)
    <3>1. targets = {} /\ projected = written
      BY <2>4
    <3> HIDE DEF projected, targets
    <3> QED BY <2>0, <3>1, NothingRecomputed
  <2> QED BY <2>1, <2>2, <2>3, <2>4
<1> HIDE DEF projected, targets
<1>7. Recomputed(log, targets, after, w)
  <2>1. Recomputed(log, targets, v, w)
    BY <1>1, <1>6
  <2> QED BY <1>3, <1>5, <2>1, SameRowsRecomputed
<1>8. Exists(v, u) <=> Exists(after, u)
  BY <1>3, <1>5, SameRowsDerive DEF Uris
<1>9. Subject(v, e.uri) = Subject(after, e.uri)
  BY <1>0, <1>3, <1>5, SameRowsDerive DEF Subject
<1>10. /\ <<"state", u>> \in targets /\ Exists(after, u) <=> Hit(e, db, w, u, Statuses) /\ Exists(after, u)
       /\ <<"reviews", u>> \in targets => Hit(e, db, w, u, {"review"})
       /\ Collection[u] = "pull" /\ Hit(e, db, w, u, {"review"}) => <<"reviews", u>> \in targets
  <2>0. /\ <<"row", u>> \in DOMAIN w <=> u = e.uri /\ applies
        /\ <<"row", e.uri>> \in DOMAIN w <=> applies
    BY <1>0, <1>2, <1>4 DEF Uris
  <2>1. CASE c = "repository"
    <3>1. targets = RepositoryTargets(e)
      BY <2>1 DEF targets, Checked
    <3>2. \A k \in {"state", "reviews"} : <<k, u>> \in targets <=> e.action = "put" /\ u \in AllPulls(db, e.uri)
      BY <3>1, RepositoryTargetHits
    <3>3. u \in AllPulls(db, e.uri) <=> Collection[u] = "pull" /\ Exists(db, u) /\ Home(db, u) = e.uri
      BY DEF AllPulls, OfCollection, Home
    <3>4. u # e.uri /\ c \notin Statuses /\ c # "review"
      BY <2>1 DEF Statuses
    <3> QED BY <2>0, <2>1, <3>2, <3>3, <3>4 DEF Hit
  <2>2. CASE c \in Checked /\ applies
    <3>1. targets = RowTargets(v, e) /\ c # "repository"
      BY <2>2 DEF targets, Checked
    <3>2. /\ <<"state", u>> \in targets <=>
                \/ c \in {"issue", "pull"} /\ e.action = "put" /\ u = e.uri
                \/ c \in Statuses /\ u = Subject(v, e.uri) /\ Exists(v, u)
          /\ <<"reviews", u>> \in targets <=>
                \/ c = "pull" /\ e.action = "put" /\ u = e.uri
                \/ c = "review" /\ u = Subject(v, e.uri)
      BY <3>1, RowTargetHits
    <3>3. \A kids : Hit(e, db, w, u, kids) <=>
                      \/ e.action = "put" /\ u = e.uri
                      \/ c \in kids /\ Subject(after, e.uri) = u
      BY <2>0, <2>2, <3>1 DEF Hit, after
    <3> QED BY <1>8, <1>9, <3>2, <3>3
  <2>3. CASE c # "repository" /\ ~(c \in Checked /\ applies)
    <3>1. targets = {}
      BY <2>3 DEF targets
    <3>2. ~Hit(e, db, w, u, Statuses) /\ ~Hit(e, db, w, u, {"review"})
      BY <2>0, <2>3 DEF Hit, Checked, Statuses
    <3> QED BY <3>1, <3>2
  <2> QED BY <2>1, <2>2, <2>3
<1>11. /\ <<"state", u>> \in DOMAIN w <=>
            <<"state", u>> \in targets /\ Exists(after, u) /\ Exists(after, Home(after, u))
       /\ <<"state", u>> \in DOMAIN w => w[<<"state", u>>] = StateOf(log, after, u)
       /\ <<"reviews", u>> \in DOMAIN w <=> <<"reviews", u>> \in targets /\ Exists(after, u)
       /\ <<"reviews", u>> \in DOMAIN w => w[<<"reviews", u>>] = Cardinality(Reviewers(log, after, u))
  BY <1>7 DEF Recomputed, Uris
<1> QED BY <1>10, <1>11 DEF w, after

\* The writes of project() are those of its event.
LEMMA ProjectPending ==
  ASSUME log \in Logs, View(log, db), NEW x, x.event \in Events, Valid(log[x.event]),
         log[x.event].action # "identity", x.pending = ProjectRecord(log[x.event], x.event)
  PROVE  PendingOK(log, db, x) /\ Typed(log, x.pending)
BY ProjectRecordWrites DEF PendingOK

\* What project() does not recompute of u has the children it had.
LEMMA ChildrenStay ==
  ASSUME log \in Logs, View(log, db), LinksOK(log, db),
         NEW x, x.event \in Events, PendingOK(log, db, x), Typed(log, x.pending),
         NEW u, NEW kids, kids \subseteq {"issueStatus", "pullStatus", "review"},
         ~Hit(log[x.event], db, x.pending, u, kids),
         NEW s \in UrisOf(log), Collection[s] \in kids
  PROVE  LET after == Over(x.pending, db) IN
         /\ Concerns(db, s, u) <=> Concerns(after, s, u)
         /\ Concerns(db, s, u) =>
              /\ after[<<"row", s>>] = db[<<"row", s>>]
              /\ Value(after, s) = Value(db, s) /\ Home(after, s) = Home(db, s)
<1> DEFINE after == Over(x.pending, db)
<1>1. CASE after[<<"row", s>>] = db[<<"row", s>>]
  BY <1>1 DEF Concerns, Live, Subject, Value, Home
<1>2. CASE after[<<"row", s>>] # db[<<"row", s>>]
  <2>1. <<"row", s>> \in DOMAIN x.pending
    BY <1>2, ViewOver, SubjectColumns
  <2>2. s = log[x.event].uri
    BY <2>1, PendingOwn, SubjectColumns DEF Events
  <2>3. Subject(after, s) # u
    BY <2>1, <2>2 DEF Hit
  <2>4. ~Concerns(db, s, u)
    <3> SUFFICES ASSUME Concerns(db, s, u) PROVE FALSE
      OBVIOUS
    <3>1. Exists(db, s)
      BY LiveExists DEF Concerns, Linked
    <3>2. Subject(after, s) = Subject(db, s)
      BY <3>1, LinksStay DEF Events
    <3> QED BY <2>3, <3>2 DEF Concerns
  <2> QED BY <2>3, <2>4 DEF Concerns
<1> QED BY <1>1, <1>2

\* In the view of a handler that has projected, every subject is right.
LEMMA ProjectSubjects ==
  ASSUME log \in Logs, View(log, db), LinksOK(log, db),
         NEW x, x.event \in Events, Valid(log[x.event]), log[x.event].action # "identity",
         x.pending = ProjectRecord(log[x.event], x.event),
         NEW u \in Tracked(log), SubjectOK(log, db, u)
  PROVE  SubjectOK(log, Over(x.pending, db), u)
<1> DEFINE e == log[x.event]
           w == x.pending
           after == Over(w, db)
<1>1. PendingOK(log, db, x) /\ Typed(log, w)
  BY ProjectPending
<1>2. View(log, after) /\ LinksOK(log, after)
  BY <1>1, OverView, CommitLinks DEF Events
<1>3. u \in UrisOf(log) /\ u \in Uris /\ Collection[u] \in {"issue", "pull"} /\ Collection[u] \in Linked
  BY DEF Tracked, Uris, Linked
<1>4. /\ <<"state", u>> \in DOMAIN w <=>
           Hit(e, db, w, u, Statuses) /\ Exists(after, u) /\ Exists(after, Home(after, u))
      /\ <<"state", u>> \in DOMAIN w => w[<<"state", u>>] = StateOf(log, after, u)
      /\ <<"reviews", u>> \in DOMAIN w =>
           /\ Hit(e, db, w, u, {"review"}) /\ Exists(after, u)
           /\ w[<<"reviews", u>>] = Cardinality(Reviewers(log, after, u))
      /\ Collection[u] = "pull" /\ Hit(e, db, w, u, {"review"}) /\ Exists(after, u) =>
           <<"reviews", u>> \in DOMAIN w
  BY <1>3, ProjectCells
<1>5. \A c \in {"row", "state", "reviews"}, s \in UrisOf(log) :
        after[<<c, s>>] = IF <<c, s>> \in DOMAIN w THEN w[<<c, s>>] ELSE db[<<c, s>>]
  <2> TAKE c \in {"row", "state", "reviews"}, s \in UrisOf(log)
  <2>1. c \in Columns
    BY SubjectColumns
  <2> QED BY <2>1, ViewOver
<1>6. \A s \in UrisOf(log) : <<"row", s>> \in DOMAIN w =>
        s = e.uri /\ (Live(after, s) => e.action = "put")
  <2> SUFFICES ASSUME NEW s \in UrisOf(log), <<"row", s>> \in DOMAIN w
               PROVE  s = e.uri /\ (Live(after, s) => e.action = "put")
    OBVIOUS
  <2>1. s = e.uri
    BY <1>1, PendingOwn, SubjectColumns DEF Events
  <2>2. w[<<"row", s>>] = RowAfter(db[<<"row", s>>], e, x.event)
    BY <1>1, <2>1 DEF PendingOK, RecordWrites
  <2>3. after[<<"row", s>>] = RowAfter(db[<<"row", s>>], e, x.event)
    BY <1>5, <2>2
  <2>4. RowAfter(db[<<"row", s>>], e, x.event).live = (e.action = "put")
    BY DEF RowAfter
  <2>5. Live(after, s) = (e.action = "put")
    BY <2>3, <2>4 DEF Live
  <2> QED BY <2>1, <2>5
<1>7. ASSUME NEW kids, ~Hit(e, db, w, u, kids), Live(after, u)
      PROVE  <<"row", u>> \notin DOMAIN w /\ after[<<"row", u>>] = db[<<"row", u>>]
  BY <1>3, <1>5, <1>6, <1>7 DEF Hit
<1> HIDE DEF after, w
<1>8. ASSUME Collection[u] = "pull", Live(after, u)
      PROVE  after[<<"reviews", u>>] = Cardinality(Reviewers(log, after, u))
  <2>1. CASE <<"reviews", u>> \in DOMAIN w
    BY <1>3, <1>4, <1>5, <2>1
  <2>2. CASE <<"reviews", u>> \notin DOMAIN w
    <3>1. Exists(after, u)
      BY <1>2, <1>3, <1>8, LiveExists
    <3>2. ~Hit(e, db, w, u, {"review"})
      BY <1>4, <1>8, <2>2, <3>1
    <3>3. Live(db, u) /\ Value(after, u) = Value(db, u)
      BY <1>7, <1>8, <3>2 DEF Live, Value
    <3>4. \A s \in UrisOf(log) : Collection[s] = "review" =>
            /\ Concerns(db, s, u) <=> Concerns(after, s, u)
            /\ Concerns(db, s, u) => Value(after, s) = Value(db, s)
      BY <1>1, <3>2, ChildrenStay DEF w, after
    <3>5. Reviewers(log, after, u) = Reviewers(log, db, u)
      BY <3>3, <3>4, SameReviewers
    <3>6. after[<<"reviews", u>>] = db[<<"reviews", u>>]
      BY <1>3, <1>5, <2>2
    <3> QED BY <1>8, <3>3, <3>5, <3>6 DEF SubjectOK
  <2> QED BY <2>1, <2>2
<1>9. ASSUME ~Hit(e, db, w, u, Statuses)
      PROVE  \A s \in UrisOf(log) : Collection[s] = StatusOf(Collection[u]) =>
               /\ Concerns(db, s, u) <=> Concerns(after, s, u)
               /\ Concerns(db, s, u) =>
                    /\ after[<<"row", s>>] = db[<<"row", s>>]
                    /\ Value(after, s) = Value(db, s) /\ Home(after, s) = Home(db, s)
  <2> TAKE s \in UrisOf(log)
  <2> HAVE Collection[s] = StatusOf(Collection[u])
  <2>1. Collection[s] \in Statuses /\ Statuses \subseteq {"issueStatus", "pullStatus", "review"}
    BY DEF StatusOf, Statuses
  <2> QED BY <1>1, <1>9, <2>1, ChildrenStay DEF w, after
<1>10. ASSUME Collection[u] = "pull", Live(after, u), Exists(after, Home(after, u)),
              Live(after, Home(after, u))
       PROVE  after[<<"state", u>>] = StateOf(log, after, u)
  <2>1. CASE <<"state", u>> \in DOMAIN w
    BY <1>3, <1>4, <1>5, <2>1
  <2>2. CASE <<"state", u>> \notin DOMAIN w
    <3>1. Exists(after, u)
      BY <1>2, <1>3, <1>10, LiveExists
    <3>2. ~Hit(e, db, w, u, Statuses)
      BY <1>4, <1>10, <2>2, <3>1
    <3>3. after[<<"row", u>>] = db[<<"row", u>>]
      BY <1>7, <1>10, <3>2
    <3>4. /\ Live(db, u) /\ Exists(db, u)
          /\ Value(after, u) = Value(db, u) /\ Home(after, u) = Home(db, u)
      BY <1>10, <3>1, <3>3 DEF Live, Value, Home, Exists
    <3>5. Home(db, u) \in UrisOf(log) /\ Collection[Home(db, u)] = "repository"
      BY <1>3, <1>10, <3>4, RowLinks
    <3>6. <<"row", Home(db, u)>> \notin DOMAIN w
      BY <1>6, <1>10, <3>2, <3>4, <3>5 DEF Hit
    <3>7. after[<<"row", Home(db, u)>>] = db[<<"row", Home(db, u)>>]
      BY <1>5, <3>5, <3>6
    <3>8. /\ Value(after, Home(db, u)) = Value(db, Home(db, u))
          /\ Exists(db, Home(db, u)) /\ Live(db, Home(db, u))
      BY <1>10, <3>4, <3>7 DEF Value, Exists, Live
    <3>9. StateOf(log, after, u) = StateOf(log, db, u)
      BY <1>9, <3>2, <3>4, <3>8, SameState
    <3>10. after[<<"state", u>>] = db[<<"state", u>>]
      BY <1>3, <1>5, <2>2
    <3> QED BY <1>10, <3>4, <3>8, <3>9, <3>10 DEF SubjectOK
  <2> QED BY <2>1, <2>2
<1>11. ASSUME after[<<"state", u>>] # "open"
       PROVE  /\ Exists(after, u) /\ Exists(after, Home(after, u))
              /\ Decided(log, after, u, after[<<"state", u>>])
  <2>1. CASE <<"state", u>> \in DOMAIN w
    <3>1. after[<<"state", u>>] = StateOf(log, after, u)
      BY <1>3, <1>4, <1>5, <2>1
    <3> QED BY <1>4, <1>11, <2>1, <3>1, StateDecided
  <2>2. CASE <<"state", u>> \notin DOMAIN w
    <3>1. after[<<"state", u>>] = db[<<"state", u>>]
      BY <1>3, <1>5, <2>2
    <3>2. Exists(db, u) /\ Exists(db, Home(db, u)) /\ Decided(log, db, u, db[<<"state", u>>])
      BY <1>11, <3>1 DEF SubjectOK
    <3>3. Home(db, u) \in UrisOf(log)
      BY <1>3, <3>2, RowLinks
    <3>4. Exists(after, u) /\ Home(after, u) = Home(db, u) /\ Exists(after, Home(db, u))
      BY <1>1, <1>3, <3>2, <3>3, LinksStay DEF after, w, Events
    <3>5. ~Hit(e, db, w, u, Statuses)
      BY <1>4, <2>2, <3>4
    <3>6. Decided(log, after, u, db[<<"state", u>>])
      BY <1>9, <3>2, <3>4, <3>5, SameDecision
    <3> QED BY <3>1, <3>4, <3>6
  <2> QED BY <2>1, <2>2
<1>12. SubjectOK(log, after, u)
  BY <1>8, <1>10, <1>11 DEF SubjectOK
<1> QED BY <1>12 DEF after, w

(***************************************************************************)
(* A handler that has projected guards what it writes.                     *)
(***************************************************************************)
\* A handler with all its locks that has run project().
Projected(x) ==
  /\ x.event \in Events /\ Valid(log[x.event]) /\ log[x.event].action # "identity"
  /\ x.pending = ProjectRecord(log[x.event], x.event)
  /\ IssueNeeds(db, log[x.event]) \subseteq x.held
  /\ PullNeeds(db, log[x.event]) \subseteq x.held
  /\ \A u \in UrisOf(log) :
       Collection[u] = "pull" /\ <<"pull", u>> \in x.held /\ Exists(db, u) =>
         <<"pulls", Home(db, u)>> \in x.held

\* The row that it writes is its event's.
LEMMA OwnRow ==
  ASSUME log \in Logs, View(log, db), LinksOK(log, db), NEW x, Projected(x),
         NEW u \in UrisOf(log), <<"row", u>> \in DOMAIN x.pending
  PROVE  LET e == log[x.event]
             after == Over(x.pending, db)
         IN  /\ u = e.uri /\ x.event \in DOMAIN log /\ Exists(after, u)
             /\ e.action = "put" => Value(after, u) = e.value /\ x.event \in Puts(log, u)
             /\ e.action # "put" /\ Collection[u] \in Linked => Exists(db, u)
             /\ View(log, after) /\ LinksOK(log, after) /\ PendingOK(log, db, x)
<1> DEFINE e == log[x.event]
           after == Over(x.pending, db)
           row == db[<<"row", u>>]
<1>1. /\ x.event \in DOMAIN log /\ Valid(e) /\ e.action # "identity"
      /\ PendingOK(log, db, x) /\ Typed(log, x.pending)
  BY ProjectPending DEF Projected, Events
<1>2. u = e.uri
  BY <1>1, PendingOwn, SubjectColumns
<1>3. /\ x.pending[<<"row", u>>] = RowAfter(row, e, x.event)
      /\ RowApplies(db[<<"record", u>>], row, e, x.event)
  BY <1>1, <1>2 DEF PendingOK, RecordWrites
<1>4. after[<<"row", u>>] = RowAfter(row, e, x.event)
  BY <1>3, OverReads
<1>5. x.event \in Nat /\ x.event > 0 /\ u # None
  BY <1>1, EventId, UrisOfLog
<1>6. Exists(after, u)
  BY <1>4, <1>5 DEF Exists, RowAfter
<1>7. e.action = "put" => Value(after, u) = e.value /\ x.event \in Puts(log, u)
  BY <1>1, <1>2, <1>4 DEF Value, RowAfter, Puts
<1>8. e.action # "put" /\ Collection[u] \in Linked => Exists(db, u)
  BY <1>2, <1>3, <1>5 DEF RowApplies, Linked, Checked, Exists
<1>9. View(log, after) /\ LinksOK(log, after)
  BY <1>1, OverView, CommitLinks
<1> QED BY <1>1, <1>2, <1>6, <1>7, <1>8, <1>9

\* It guards the subject whose row it writes, before and after.
LEMMA OwnGuard ==
  ASSUME log \in Logs, View(log, db), LinksOK(log, db), NEW x, Projected(x),
         NEW u \in Tracked(log), <<"row", u>> \in DOMAIN x.pending
  PROVE  Guard(log, db, u) \in x.held /\ Guard(log, Over(x.pending, db), u) \in x.held
<1> DEFINE e == log[x.event]
           after == Over(x.pending, db)
<1>0. u \in UrisOf(log) /\ u # None /\ Collection[u] \in {"issue", "pull"} /\ Collection[u] \in Linked
  BY UrisOfLog DEF Tracked, Linked
<1>1. /\ u = e.uri /\ x.event \in DOMAIN log /\ Exists(after, u)
      /\ e.action = "put" => Value(after, u) = e.value /\ x.event \in Puts(log, u)
      /\ e.action # "put" => Exists(db, u)
      /\ View(log, after) /\ LinksOK(log, after) /\ PendingOK(log, db, x)
  BY <1>0, OwnRow
<1>2. e.action = "put" => e.value.repository \in UrisOf(log) /\ e.value.repository # None
  BY <1>0, <1>1, PutLinks, UrisOfLog
<1>3. Exists(db, u) => Home(db, u) \in UrisOf(log) /\ Home(db, u) # None
  BY <1>0, RowLinks, UrisOfLog
<1>4. CASE Collection[u] = "issue"
  <2>1. \A r \in {Home(db, u), e.value.repository} : r # None => <<"issues", r>> \in x.held
    BY <1>1, <1>4 DEF Projected, IssueNeeds, Locks
  <2>2. CASE e.action = "put"
    <3>1. x.event \in NamingIn(log, u)
      BY <1>1, <2>2 DEF Puts, NamingIn
    <3>2. e.value.repository = RepoOf(log, u)
      BY <1>4, <3>1, TrackedRepo
    <3> QED BY <1>2, <1>4, <2>1, <2>2, <3>2 DEF Guard
  <2>3. CASE e.action # "put"
    <3>1. Home(db, u) = RepoOf(log, u)
      BY <1>0, <1>1, <1>4, <2>3, RowLinks
    <3> QED BY <1>1, <1>3, <1>4, <2>1, <2>3, <3>1 DEF Guard
  <2> QED BY <2>2, <2>3
<1>5. CASE Collection[u] = "pull"
  <2>1. PullNeeds(db, e) = Locks("pull", IF e.action = "put" \/ Exists(db, e.uri) THEN {e.uri} ELSE {})
                             \cup Locks("pulls", {e.value.repository, Home(db, e.uri)})
    BY <1>1, <1>5 DEF PullNeeds
  <2>2. /\ <<"pull", u>> \in x.held
        /\ \A r \in {Home(db, u), e.value.repository} : r # None => <<"pulls", r>> \in x.held
    BY <1>0, <1>1, <2>1 DEF Projected, Locks
  <2>3. CASE Exists(db, u)
    <3>1. Home(after, u) = Home(db, u)
      BY <1>0, <1>1, <2>3, LinksStay
    <3> QED BY <1>1, <1>3, <1>5, <2>2, <2>3, <3>1 DEF Guard
  <2>4. CASE ~Exists(db, u)
    <3>1. Home(after, u) = e.value.repository /\ e.action = "put"
      BY <1>1, <2>4 DEF Home
    <3> QED BY <1>1, <1>2, <1>5, <2>2, <2>4, <3>1 DEF Guard
  <2> QED BY <2>3, <2>4
<1> QED BY <1>0, <1>4, <1>5

\* It guards the subject of a status or review that it writes.
LEMMA ChildGuard ==
  ASSUME log \in Logs, View(log, db), LinksOK(log, db), NEW x, Projected(x),
         NEW u \in Tracked(log), NEW s \in UrisOf(log), <<"row", s>> \in DOMAIN x.pending,
         Collection[s] \in ChildrenOf(Collection[u]),
         Concerns(db, s, u) \/ Subject(Over(x.pending, db), s) = u
  PROVE  Guard(log, db, u) \in x.held
<1> DEFINE e == log[x.event]
           after == Over(x.pending, db)
<1>0. /\ u \in UrisOf(log) /\ u # None
      /\ \/ Collection[u] = "issue" /\ Collection[s] = "issueStatus"
         \/ Collection[u] = "pull" /\ Collection[s] \in {"pullStatus", "review"}
  BY UrisOfLog DEF Tracked, ChildrenOf
<1>1. /\ s = e.uri /\ x.event \in DOMAIN log
      /\ e.action = "put" => Value(after, s) = e.value /\ x.event \in Puts(log, s)
      /\ e.action # "put" => Exists(db, s)
      /\ PendingOK(log, db, x)
  BY <1>0, OwnRow DEF Linked
<1>2. Exists(db, s) => Subject(after, s) = Subject(db, s)
  BY <1>0, <1>1, LinksStay
<1>3. Subject(after, s) = u
  BY <1>0, <1>2, LiveExists DEF Concerns, Linked
<1>4. /\ e.action = "put" => e.value.subject = u
      /\ e.action # "put" => Subject(db, s) = u
  BY <1>1, <1>2, <1>3 DEF Subject
<1>5. CASE Collection[u] = "issue"
  <2>0. Collection[s] = "issueStatus"
    BY <1>0, <1>5
  <2>1. \A r \in {Home(db, s), e.value.repository} : r # None => <<"issues", r>> \in x.held
    BY <1>1, <2>0 DEF Projected, IssueNeeds, Locks
  <2>2. CASE e.action = "put"
    <3>1. x.event \in NamingIn(log, u)
      BY <1>1, <1>4, <2>0, <2>2 DEF Puts, NamingIn
    <3>2. e.value.repository = RepoOf(log, u)
      BY <1>5, <3>1, TrackedRepo
    <3>3. e.value.repository # None
      BY <1>1, <2>0, <2>2, PutLinks, UrisOfLog
    <3> QED BY <1>5, <2>1, <3>2, <3>3 DEF Guard
  <2>3. CASE e.action # "put"
    <3>1. Home(db, s) = RepoOf(log, u) /\ Home(db, s) # None
      BY <1>1, <1>4, <2>0, <2>3, RowLinks, UrisOfLog
    <3> QED BY <1>5, <2>1, <3>1 DEF Guard
  <2> QED BY <2>2, <2>3
<1>6. CASE Collection[u] = "pull"
  <2>0. Collection[s] \in {"pullStatus", "review"}
    BY <1>0, <1>6
  <2>1. PullNeeds(db, e) = Locks("pull", {e.value.subject, Subject(db, s)})
    BY <1>1, <2>0 DEF PullNeeds
  <2>2. <<"pull", u>> \in x.held
    BY <1>0, <1>4, <2>1 DEF Projected, Locks
  <2> QED BY <1>0, <1>6, <2>2 DEF Projected, Guard
<1> QED BY <1>0, <1>5, <1>6

\* The footprint of a handler that has projected.
LEMMA ProjectFootprint ==
  ASSUME log \in Logs, View(log, db), LinksOK(log, db), NEW x, Projected(x)
  PROVE  Footprint(log, db, x)
<1> DEFINE e == log[x.event]
           after == Over(x.pending, db)
<1>0. /\ x.event \in DOMAIN log /\ Valid(e) /\ e.action # "identity" /\ e.uri \in UrisOf(log)
      /\ PendingOK(log, db, x) /\ Typed(log, x.pending)
  BY ProjectPending, UrisOfLog DEF Projected, Events
<1>1. ASSUME NEW u \in Tracked(log), <<"row", u>> \notin DOMAIN x.pending
      PROVE  Guard(log, after, u) = Guard(log, db, u)
  <2>1. u \in UrisOf(log)
    BY DEF Tracked
  <2>2. after[<<"row", u>>] = db[<<"row", u>>]
    BY <1>1, <2>1, ViewOver, SubjectColumns
  <2> QED BY <2>2, GuardSame
<1>2. ASSUME NEW u \in Tracked(log), NEW kids \in {Statuses, {"review"}},
             Hit(e, db, x.pending, u, kids)
      PROVE  Guard(log, db, u) \in x.held /\ Guard(log, after, u) \in x.held
  <2>0. u \in UrisOf(log) /\ Collection[u] \in {"issue", "pull"}
    BY DEF Tracked
  <2>1. CASE <<"row", u>> \in DOMAIN x.pending
    BY <2>1, OwnGuard
  <2>2. CASE <<"row", u>> \notin DOMAIN x.pending
    <3>1. CASE /\ <<"row", e.uri>> \in DOMAIN x.pending /\ Collection[e.uri] \in kids
               /\ Subject(after, e.uri) = u
      <4>1. Exists(after, e.uri) /\ LinksOK(log, after)
        BY <1>0, <3>1, OwnRow
      <4>2. Collection[e.uri] \in {"issueStatus", "pullStatus", "review"}
        BY <3>1, <1>2 DEF Statuses
      <4>3. Collection[e.uri] \in ChildrenOf(Collection[u])
        BY <1>0, <3>1, <4>1, <4>2, RowLinks DEF ChildrenOf
      <4> QED BY <1>0, <1>1, <2>2, <3>1, <4>3, ChildGuard
    <3>2. CASE /\ e.action = "put" /\ Collection[e.uri] = "repository"
               /\ Collection[u] = "pull" /\ Exists(db, u) /\ Home(db, u) = e.uri
      <4>1. <<"pulls", e.uri>> \in x.held
        BY <1>0, <3>2, UrisOfLog DEF Projected, PullNeeds, Locks
      <4> QED BY <1>1, <2>2, <3>2, <4>1 DEF Guard
    <3> QED BY <1>2, <2>2, <3>1, <3>2 DEF Hit
  <2> QED BY <2>1, <2>2
<1>3. ASSUME NEW u \in Tracked(log),
             {<<"row", u>>, <<"state", u>>, <<"reviews", u>>} \cap DOMAIN x.pending # {}
      PROVE  Guard(log, db, u) \in x.held /\ Guard(log, after, u) \in x.held
  <2>0. u \in Uris /\ Collection[u] \in {"issue", "pull"}
    BY DEF Tracked, Uris
  <2>1. CASE <<"row", u>> \in DOMAIN x.pending
    BY <2>1, OwnGuard
  <2>2. CASE <<"state", u>> \in DOMAIN x.pending
    BY <2>0, <2>2, <1>2, ProjectCells DEF Projected
  <2>3. CASE <<"reviews", u>> \in DOMAIN x.pending
    BY <2>0, <2>3, <1>2, ProjectCells DEF Projected
  <2> QED BY <1>3, <2>1, <2>2, <2>3
<1>4. ASSUME NEW u \in Tracked(log), NEW s \in UrisOf(log),
             Collection[s] \in ChildrenOf(Collection[u]),
             Concerns(db, s, u) \/ Concerns(after, s, u), <<"row", s>> \in DOMAIN x.pending
      PROVE  Guard(log, db, u) \in x.held
  BY <1>4, ChildGuard DEF Concerns
<1>5. ASSUME NEW r \in UrisOf(log), Collection[r] = "repository", <<"row", r>> \in DOMAIN x.pending
      PROVE  <<"pulls", r>> \in x.held
  <2>1. r = e.uri /\ r # None
    BY <1>5, OwnRow, UrisOfLog
  <2> QED BY <1>5, <2>1 DEF Projected, PullNeeds, Locks
<1> QED BY <1>3, <1>4, <1>5 DEF Footprint

(***************************************************************************)
(* The locks a handler takes.                                              *)
(***************************************************************************)
\* A stage that is skipped has no locks.
LEMMA AdvanceSkips ==
  ASSUME NEW e, NEW s \in 0 .. 4, NEW todo, NEW n \in 1 .. 4, s < n,
         Advance(e, s, todo).stage > n
  PROVE  LockStages(e)[n] = {}
<1> DEFINE more == {m \in s + 1 .. 4 : LockStages(e)[m] # {}}
           next == CHOOSE m \in more : \A o \in more : m <= o
<1> SUFFICES ASSUME n \in more PROVE FALSE
  OBVIOUS
<1>1. CASE todo # {}
  BY <1>1 DEF Advance
<1>2. CASE todo = {}
  <2>1. more \subseteq Nat
    OBVIOUS
  <2>2. Advance(e, s, todo).stage = next
    BY <1>2 DEF Advance
  <2> HIDE DEF more
  <2>3. \E m \in more : \A o \in more : m <= o
    BY <2>1, LeastNat
  <2>4. next \in more /\ next <= n
    BY <2>3
  <2> HIDE DEF next
  <2> QED BY <2>1, <2>2, <2>4
<1> QED BY <1>1, <1>2

\* The locks an event calls for are among those of its first two stages.
LEMMA NeedsStages ==
  ASSUME NEW e
  PROVE  IssueNeeds(db, e) \subseteq LockStages(e)[1] /\ PullNeeds(db, e) \subseteq LockStages(e)[2]
<1>1. LockStages(e)[1] = IssueLocks(e) /\ LockStages(e)[2] = PullLocks(e)
  BY DEF LockStages
<1>2. IssueNeeds(db, e) \subseteq IssueLocks(e)
  BY DEF IssueNeeds, IssueLocks, Locks, Home
<1>3. PullNeeds(db, e) \subseteq PullLocks(e)
  <2>1. CASE Collection[e.uri] = "repository"
    BY <2>1 DEF PullNeeds, PullLocks
  <2>2. CASE Collection[e.uri] = "pull"
    BY <2>2 DEF PullNeeds, PullLocks, Home, Locks
  <2>3. CASE Collection[e.uri] \in {"pullStatus", "review"}
    BY <2>3 DEF PullNeeds, PullLocks, Subject
  <2>4. CASE Collection[e.uri] \notin {"repository", "pull", "pullStatus", "review"}
    BY <2>4 DEF PullNeeds
  <2> QED BY <2>1, <2>2, <2>3, <2>4
<1> QED BY <1>1, <1>2, <1>3

\* A handler that advances from stage s takes what the stages above s call for.
LEMMA AdvanceTakes ==
  ASSUME NEW e, NEW s \in 0 .. 4, NEW todo, NEW n \in 1 .. 4, s < n,
         Advance(e, s, todo).stage >= n
  PROVE  LockStages(e)[n] \subseteq Advance(e, s, todo).todo
<1> DEFINE a == Advance(e, s, todo)
<1>1. AdvancesTo(e, s, todo, a)
  BY AdvanceCases
<1>2. a.stage > n => LockStages(e)[n] = {}
  BY AdvanceSkips
<1> HIDE DEF a
<1>3. a.stage >= n
  BY DEF a
<1>4. LockStages(e)[n] \subseteq a.todo
  BY <1>1, <1>2, <1>3 DEF AdvancesTo, Ready
<1> QED BY <1>4 DEF a

LEMMA BeginTakes ==
  ASSUME TypeInv, NEW t \in Transactions, NEW id \in Events, Begin(t, id)
  PROVE  Taken(log, db, txn'[t])
<1> DEFINE e == log[id]
           x == txn'[t]
<1>0. x.event = id /\ x.held = {}
  BY BeginStep
<1> SUFFICES ASSUME Valid(e), e.action # "identity"
             PROVE  /\ x.stage >= 1 => IssueNeeds(db, e) \subseteq x.held \cup x.todo
                    /\ x.stage >= 2 => PullNeeds(db, e) \subseteq x.held \cup x.todo
  BY <1>0 DEF Taken
<1>1. x.stage = Advance(e, 0, {}).stage /\ x.todo = Advance(e, 0, {}).todo
  <2> DEFINE a == Advance(e, 0, {})
  <2> HIDE DEF a
  <2>1. txn' = [txn EXCEPT ![t] = [Idle EXCEPT !.event = id, !.stage = a.stage, !.todo = a.todo]]
    BY DEF Begin, a
  <2>2. x = [Idle EXCEPT !.event = id, !.stage = a.stage, !.todo = a.todo]
    BY <2>1 DEF TypeInv
  <2>3. x.stage = a.stage /\ x.todo = a.todo
    BY <2>2 DEF Idle
  <2> QED BY <2>3 DEF a
<1>2. PICK s \in 0 .. 4 : s = 0
  OBVIOUS
<1>3. PICK one \in 1 .. 4 : one = 1
  OBVIOUS
<1>4. PICK two \in 1 .. 4 : two = 2
  OBVIOUS
<1> HIDE DEF x, e
<1>5. x.stage >= one => LockStages(e)[one] \subseteq x.todo
  BY <1>1, <1>2, <1>3, AdvanceTakes
<1>6. x.stage >= two => LockStages(e)[two] \subseteq x.todo
  BY <1>1, <1>2, <1>4, AdvanceTakes
<1> QED BY <1>3, <1>4, <1>5, <1>6, NeedsStages

LEMMA AcquireTakes ==
  ASSUME TypeInv, NEW t \in Transactions, Acquire(t), Taken(log, db, txn[t])
  PROVE  Taken(log, db, txn'[t]) /\ txn[t].held \cup txn[t].todo \subseteq txn'[t].held \cup txn'[t].todo
<1> DEFINE y == txn[t]
           x == txn'[t]
           e == log[y.event]
           l == First(y.todo)
           rest == (y.todo \cup Follow(l)) \ {l}
           a == Advance(e, y.stage, rest)
<1>1. /\ x.event = y.event /\ x.held = y.held \cup {l} /\ y.stage \in 1 .. 4
      /\ \/ rest # {} /\ x.stage = y.stage /\ x.todo = rest
         \/ rest = {} /\ x.stage = 5 /\ x.todo = {}
         \/ /\ rest = {} /\ x.stage \in 1 .. 4 /\ y.stage < x.stage
            /\ x.todo # {} /\ x.todo = LockStages(e)[x.stage]
  BY AcquireStep
<1>2. x.stage = a.stage /\ x.todo = a.todo
  <2>1. DOMAIN y = {"event", "stage", "todo", "held", "pending"}
    BY DEF TypeInv, TxnOK
  <2> HIDE DEF a
  <2>2. txn' = [txn EXCEPT ![t] = [y EXCEPT !.held = @ \cup {l}, !.stage = a.stage, !.todo = a.todo]]
    BY DEF Acquire, TypeInv, a
  <2>3. x = [y EXCEPT !.held = @ \cup {l}, !.stage = a.stage, !.todo = a.todo]
    BY <2>2 DEF TypeInv
  <2> HIDE DEF x, y, l
  <2> QED BY <2>1, <2>3
<1>3. y.held \cup y.todo \subseteq x.held \cup x.todo
  <2> HIDE DEF x, y, l
  <2> QED BY <1>1
<1>4. PICK two \in 1 .. 4 : two = 2
  OBVIOUS
<1>5. y.stage \in 0 .. 4
  BY <1>1
<1> HIDE DEF rest
<1>6. y.stage < two /\ x.stage >= two => LockStages(e)[two] \subseteq x.todo
  BY <1>2, <1>4, <1>5, AdvanceTakes
<1> HIDE DEF x, y, e
<1>7. PullNeeds(db, e) \subseteq LockStages(e)[two]
  BY <1>4, NeedsStages
<1>8. Taken(log, db, x)
  <2> SUFFICES ASSUME Valid(e), e.action # "identity"
               PROVE  /\ x.stage >= 1 => IssueNeeds(db, e) \subseteq x.held \cup x.todo
                      /\ x.stage >= 2 => PullNeeds(db, e) \subseteq x.held \cup x.todo
    BY <1>1 DEF Taken, e
  <2>1. /\ IssueNeeds(db, e) \subseteq y.held \cup y.todo
        /\ y.stage >= 2 => PullNeeds(db, e) \subseteq y.held \cup y.todo
    BY <1>1 DEF Taken, e, y
  <2> QED BY <1>1, <1>3, <1>4, <1>6, <1>7, <2>1
<1> QED BY <1>3, <1>8 DEF x, y

LEMMA AcquireFollows ==
  ASSUME TypeInv, LinksOK(log, db), NEW t \in Transactions, Acquire(t), Followed(log, db, txn[t])
  PROVE  Followed(log, db, txn'[t])
<1> DEFINE y == txn[t]
           x == txn'[t]
           l == First(y.todo)
           rest == (y.todo \cup Follow(l)) \ {l}
<1>1. /\ x.held = y.held \cup {l}
      /\ x.todo = rest \/ rest = {}
  BY AcquireStep
<1> SUFFICES ASSUME NEW u \in UrisOf(log), Collection[u] = "pull",
                    <<"pull", u>> \in x.held, Exists(db, u)
             PROVE  <<"pulls", Home(db, u)>> \in x.held \cup x.todo
  BY DEF Followed
<1>2. CASE <<"pull", u>> \in y.held
  <2>1. <<"pulls", Home(db, u)>> \in y.held \cup y.todo
    BY <1>2 DEF Followed
  <2> HIDE DEF x, y, l
  <2> QED BY <1>1, <2>1
<1>3. CASE l = <<"pull", u>>
  <2>1. Follow(l) = Locks("pulls", Of({u}))
    BY <1>3 DEF Follow
  <2>2. Home(db, u) \in Of({u})
    BY UrisOfLog DEF Of, Home, TypeInv
  <2>3. Home(db, u) # None
    BY RowLinks, UrisOfLog DEF TypeInv
  <2>4. <<"pulls", Home(db, u)>> \in Follow(l)
    BY <2>1, <2>2, <2>3 DEF Locks
  <2> HIDE DEF x, y, l
  <2>5. <<"pulls", Home(db, u)>> \in rest
    BY <1>3, <2>4
  <2> QED BY <1>1, <2>5
<1> QED BY <1>1, <1>2, <1>3

(***************************************************************************)
(* The steps.                                                              *)
(***************************************************************************)
\* An identity event writes nothing a subject depends on.
LEMMA IdentityProjects ==
  ASSUME log \in Logs, View(log, db), LinksOK(log, db),
         NEW x, x.pending = ProjectIdentity(log[x.event], x.event),
         \A u \in Tracked(log) : SubjectOK(log, db, u)
  PROVE  Footprint(log, db, x) /\ Derives(log, db, x)
<1> DEFINE after == Over(x.pending, db)
<1>1. \A c \in {"row", "state", "reviews"} : \A u : <<c, u>> \notin DOMAIN x.pending
  BY NoWritesTyped DEF ProjectIdentity, Put
<1>2. Footprint(log, db, x)
  BY <1>1 DEF Footprint
<1>3. ASSUME NEW u \in Tracked(log) PROVE SubjectOK(log, after, u)
  <2>0. u \in UrisOf(log) /\ Collection[u] \in {"issue", "pull"}
    BY DEF Tracked
  <2>1. \A c \in {"row", "state", "reviews"}, s \in UrisOf(log) : after[<<c, s>>] = db[<<c, s>>]
    <3> TAKE c \in {"row", "state", "reviews"}, s \in UrisOf(log)
    <3>1. c \in Columns
      BY SubjectColumns
    <3> QED BY <1>1, <3>1, ViewOver
  <2>2. Home(db, u) \in LinkOf(log)
    BY <2>0, ViewRow DEF RowOK, Home, Value
  <2> HIDE DEF after
  <2>3. Exists(db, Home(db, u)) => Exists(after, Home(db, u))
    BY <2>1, <2>2 DEF Exists, LinkOf
  <2>4. Collection[u] = "pull" /\ Live(db, u) => after[<<"row", Home(db, u)>>] = db[<<"row", Home(db, u)>>]
    BY <2>0, <2>1, LiveExists, RowLinks DEF Linked
  <2>5. Alike(log, db, after, u)
    BY <2>0, <2>1, <2>3, <2>4 DEF Alike
  <2> QED BY <2>0, <2>5, AlikeOK
<1> QED BY <1>2, <1>3 DEF Derives

LEMMA IdleHandler ==
  ASSUME NEW l, NEW d, NEW seen
  PROVE  HandlerOK(l, d, seen, Idle)
BY IdleOK DEF HandlerOK, Followed

\* A step of t that commits nothing.
LEMMA FrameStates ==
  ASSUME StateInv, NEW t \in Transactions, Frame(t), UNCHANGED <<log, db, receipts>>,
         HandlerOK(log, db, receipts, txn'[t]),
         \A o \in Transactions \ {t} : txn'[t].held \cap txn[o].held = {}
  PROVE  StateInv'
<1>1. \A o \in Transactions : HandlerOK(log, db, receipts, txn'[o])
  BY DEF Frame, StateInv
<1>2. Exclusive'
  <2> SUFFICES ASSUME NEW a \in Transactions, NEW b \in Transactions, a # b
               PROVE  txn'[a].held \cap txn'[b].held = {}
    BY DEF Exclusive
  <2>1. CASE a = t
    BY <2>1 DEF Frame
  <2>2. CASE b = t
    BY <2>2 DEF Frame
  <2>3. CASE a # t /\ b # t
    BY <2>3 DEF Frame, StateInv, Exclusive
  <2> QED BY <2>1, <2>2, <2>3
<1> QED BY <1>1, <1>2 DEF StateInv

LEMMA BeginStates ==
  ASSUME TypeInv, StateInv, NEW t \in Transactions, NEW id \in Events, Begin(t, id)
  PROVE  StateInv'
<1> DEFINE x == txn'[t]
<1>1. UNCHANGED <<log, db, receipts>>
  BY DEF Begin
<1>2. /\ Frame(t) /\ x.event = id /\ x.held = {} /\ x.pending = NoWrites
  BY BeginStep
<1>3. Taken(log, db, x)
  BY BeginTakes
<1> HIDE DEF x
<1>4. Followed(log, db, x)
  BY <1>2 DEF Followed
<1>5. Footprint(log, db, x)
  BY <1>2, NoWritesTyped DEF Footprint
<1>6. Derives(log, db, x)
  BY <1>2 DEF Derives
<1>7. HandlerOK(log, db, receipts, x)
  BY <1>3, <1>4, <1>5, <1>6 DEF HandlerOK
<1> QED BY <1>1, <1>2, <1>7, FrameStates DEF x

LEMMA AcquireStates ==
  ASSUME TypeInv, StateInv, NEW t \in Transactions, Acquire(t)
  PROVE  StateInv'
<1> DEFINE x == txn'[t]
           y == txn[t]
           l == First(y.todo)
<1>1. UNCHANGED <<log, db, receipts>>
  BY DEF Acquire
<1>2. /\ Frame(t) /\ x.event = y.event /\ x.held = y.held \cup {l} /\ x.stage \in 1 .. 5
      /\ y.event \in Events
  BY AcquireStep
<1>3. y.event # 0
  BY DEF Acquire, Busy
<1>4. Followed(log, db, x)
  BY AcquireFollows DEF StateInv, HandlerOK
<1>5. y.event \notin receipts => Taken(log, db, x)
  BY <1>3, AcquireTakes DEF StateInv, HandlerOK
<1>6. \A o \in Transactions \ {t} : l \notin txn[o].held /\ y.held \cap txn[o].held = {}
  BY DEF Acquire, StateInv, Exclusive
<1> HIDE DEF x, y, l
<1>7. HandlerOK(log, db, receipts, x)
  BY <1>2, <1>4, <1>5 DEF HandlerOK
<1>8. \A o \in Transactions \ {t} : x.held \cap txn[o].held = {}
  BY <1>2, <1>6
<1> QED BY <1>1, <1>2, <1>7, <1>8, FrameStates DEF x

LEMMA ProjectStates ==
  ASSUME TypeInv, StateInv, NEW t \in Transactions, Project(t)
  PROVE  StateInv'
<1> DEFINE x == txn'[t]
           y == txn[t]
           id == y.event
           e == log[id]
           p == IF e.action = "identity" THEN ProjectIdentity(e, id) ELSE ProjectRecord(e, id)
<1>0. log \in Logs /\ View(log, db) /\ LinksOK(log, db)
  BY DEF TypeInv, StateInv
<1>1. UNCHANGED <<log, db, receipts>>
  BY DEF Project
<1>2. /\ Frame(t) /\ x.event = id /\ x.stage \in {6, 8} /\ x.todo = {} /\ id \in Events /\ Valid(e)
  BY ProjectStep
<1>3. x.held = y.held /\ x.pending = p /\ y.todo = {} /\ y.stage = 5 /\ y.event # 0
  <2>1. TxnOK(log, y) /\ y.stage = 5 /\ y.event # 0
    BY DEF Project, TypeInv, Ready, Busy
  <2> DEFINE next == IF e.action # "identity" /\ Reconciles(db, e) THEN Waiting ELSE Committing
  <2> HIDE DEF p, next
  <2>2. txn' = [txn EXCEPT ![t] = [y EXCEPT !.stage = next, !.pending = p]]
    BY DEF Project, TypeInv, p, next
  <2>3. x = [y EXCEPT !.stage = next, !.pending = p]
    BY <2>2 DEF TypeInv
  <2> HIDE DEF x, y
  <2> QED BY <2>1, <2>3 DEF TxnOK
<1>4. Followed(log, db, y) /\ (id \notin receipts => Taken(log, db, y))
  BY <1>3 DEF StateInv, HandlerOK
<1>5. \A o \in Transactions \ {t} : x.held \cap txn[o].held = {}
  BY <1>3 DEF StateInv, Exclusive
<1>6. \A u \in Tracked(log) : SubjectOK(log, db, u)
  BY DEF StateInv
<1> HIDE DEF x, y
<1>7. Followed(log, db, x)
  BY <1>2, <1>3, <1>4 DEF Followed
<1>8. id \notin receipts => Taken(log, db, x)
  BY <1>2, <1>3, <1>4 DEF Taken
<1>9. ASSUME id \notin receipts PROVE Footprint(log, db, x) /\ Derives(log, db, x)
  <2>1. CASE e.action = "identity"
    BY <1>0, <1>2, <1>3, <1>6, <2>1, IdentityProjects
  <2>2. CASE e.action # "identity"
    <3>1. /\ IssueNeeds(db, e) \subseteq x.held /\ PullNeeds(db, e) \subseteq x.held
      BY <1>2, <1>8, <1>9, <2>2 DEF Taken
    <3>2. Projected(x)
      BY <1>2, <1>3, <1>7, <2>2, <3>1 DEF Projected, Followed
    <3>3. Footprint(log, db, x)
      BY <1>0, <3>2, ProjectFootprint
    <3>4. Derives(log, db, x)
      BY <1>0, <1>2, <1>3, <1>6, <2>2, ProjectSubjects DEF Derives
    <3> QED BY <3>3, <3>4
  <2> QED BY <2>1, <2>2
<1>10. HandlerOK(log, db, receipts, x)
  BY <1>2, <1>7, <1>8, <1>9 DEF HandlerOK
<1> QED BY <1>1, <1>2, <1>5, <1>10, FrameStates DEF x

\* Writes that agree on subjects have the same footprint and derive the same.
LEMMA SameFootprint ==
  ASSUME NEW l \in Logs, NEW d, View(l, d), NEW y, NEW x,
         Typed(l, y.pending), Typed(l, x.pending), SameSubjects(y.pending, x.pending),
         y.held \subseteq x.held, x.held \subseteq y.held \cup {LineageLock},
         LinksOK(l, Over(y.pending, d)), Footprint(l, d, y), Derives(l, d, y)
  PROVE  Footprint(l, d, x) /\ Derives(l, d, x)
<1> DEFINE v == Over(y.pending, d)
           w == Over(x.pending, d)
<1>1. \A c \in {"row", "state", "reviews"}, u \in UrisOf(l) : w[<<c, u>>] = v[<<c, u>>]
  <2> TAKE c \in {"row", "state", "reviews"}, u \in UrisOf(l)
  <2>1. c \in Columns
    BY SubjectColumns
  <2> QED BY <2>1, ViewOver DEF SameSubjects
<1>2. \A u \in UrisOf(l) : /\ Exists(w, u) <=> Exists(v, u)
                           /\ Live(w, u) <=> Live(v, u)
                           /\ Value(w, u) = Value(v, u)
  BY <1>1 DEF Exists, Value, Live
<1> HIDE DEF v, w
<1>3. \A u \in Tracked(l) : Guard(l, w, u) = Guard(l, v, u)
  BY <1>1, GuardSame DEF Tracked
<1>4. \A s \in UrisOf(l) : \A u : Concerns(w, s, u) <=> Concerns(v, s, u)
  BY <1>2 DEF Concerns, Subject
<1>5. \A c \in {"row", "state", "reviews"} : \A u :
        <<c, u>> \in DOMAIN x.pending <=> <<c, u>> \in DOMAIN y.pending
  BY DEF SameSubjects
<1>6. Footprint(l, d, x)
  <2>1. ASSUME NEW u \in Tracked(l),
               {<<"row", u>>, <<"state", u>>, <<"reviews", u>>} \cap DOMAIN x.pending # {}
        PROVE  Guard(l, d, u) \in x.held /\ Guard(l, w, u) \in x.held
    <3>1. {<<"row", u>>, <<"state", u>>, <<"reviews", u>>} \cap DOMAIN y.pending # {}
      BY <1>5, <2>1
    <3> QED BY <1>3, <3>1 DEF Footprint, v
  <2>2. ASSUME NEW u \in Tracked(l), NEW s \in UrisOf(l),
               Collection[s] \in ChildrenOf(Collection[u]),
               Concerns(d, s, u) \/ Concerns(w, s, u), <<"row", s>> \in DOMAIN x.pending
        PROVE  Guard(l, d, u) \in x.held
    BY <1>4, <1>5, <2>2 DEF Footprint, v
  <2>3. ASSUME NEW r \in UrisOf(l), Collection[r] = "repository", <<"row", r>> \in DOMAIN x.pending
        PROVE  <<"pulls", r>> \in x.held
    BY <1>5, <2>3 DEF Footprint
  <2> QED BY <2>1, <2>2, <2>3 DEF Footprint, w
<1>7. ASSUME NEW u \in Tracked(l), Guard(l, d, u) \in x.held
      PROVE  SubjectOK(l, w, u)
  <2>1. u \in UrisOf(l) /\ Collection[u] \in {"issue", "pull"}
    BY DEF Tracked
  <2>2. SubjectOK(l, v, u)
    <3>1. Guard(l, d, u) # LineageLock
      BY DEF Guard, LineageLock
    <3> QED BY <1>7, <3>1 DEF Derives, v
  <2>3. Home(v, u) \in LinkOf(l)
    BY <2>1, OverView, ViewRow DEF RowOK, Home, Value, v
  <2>4. Exists(v, Home(v, u)) => Exists(w, Home(v, u))
    BY <1>2, <2>3 DEF LinkOf, Exists
  <2>5. Collection[u] = "pull" /\ Live(v, u) => w[<<"row", Home(v, u)>>] = v[<<"row", Home(v, u)>>]
    <3> SUFFICES ASSUME Collection[u] = "pull", Live(v, u)
                 PROVE  w[<<"row", Home(v, u)>>] = v[<<"row", Home(v, u)>>]
      OBVIOUS
    <3>1. Exists(v, u)
      BY <2>1, OverView, LiveExists DEF Linked, v
    <3>2. Home(v, u) \in UrisOf(l)
      BY <2>1, <3>1, RowLinks DEF v
    <3> QED BY <1>1, <3>2
  <2>6. Alike(l, v, w, u)
    BY <1>1, <2>1, <2>4, <2>5 DEF Alike
  <2> QED BY <2>1, <2>2, <2>6, AlikeOK
<1> QED BY <1>6, <1>7 DEF Derives, w

\* The lock on the lineages comes on top of the locks that guard what is written, and the
\* recount under it writes nothing that a subject depends on.
LEMMA LineageStates ==
  ASSUME TypeInv, PendingInv, StateInv, NEW t \in Transactions,
         LockLineages(t) \/ ReconcileLineages(t)
  PROVE  StateInv'
<1> DEFINE x == txn'[t]
           y == txn[t]
           id == y.event
<1>0. log \in Logs /\ View(log, db) /\ LinksOK(log, db) /\ Typed(log, y.pending)
  BY DEF TypeInv, TxnOK, StateInv
<1>1. /\ UNCHANGED <<log, db, receipts>> /\ Frame(t)
      /\ x.event = id /\ x.todo = {} /\ y.stage \in {6, 7} /\ x.stage = y.stage + 1
      /\ id \in Events /\ Typed(log, x.pending)
      /\ x.pending = y.pending \/ x.pending = Reconcile(y.pending)
  BY LineageStep
<1>2. id # 0 /\ y.todo = {}
  BY <1>1 DEF LockLineages, ReconcileLineages, Busy, TypeInv, TxnOK
<1>3. \/ x.held = y.held
      \/ /\ x.held = y.held \cup {LineageLock}
         /\ \A o \in Transactions \ {t} : LineageLock \notin txn[o].held
  <2>1. CASE LockLineages(t)
    <3>1. txn' = [txn EXCEPT ![t] = [y EXCEPT !.held = @ \cup {LineageLock}, !.stage = Reconciling]]
      BY <2>1 DEF LockLineages, TypeInv
    <3>2. x = [y EXCEPT !.held = @ \cup {LineageLock}, !.stage = Reconciling]
      BY <3>1 DEF TypeInv
    <3>3. DOMAIN y = {"event", "stage", "todo", "held", "pending"}
      BY DEF TypeInv, TxnOK
    <3> HIDE DEF x, y
    <3>4. x.held = y.held \cup {LineageLock}
      BY <3>2, <3>3
    <3> QED BY <2>1, <3>4 DEF LockLineages
  <2>2. CASE ReconcileLineages(t)
    <3> DEFINE p == Reconcile(y.pending)
    <3> HIDE DEF p
    <3>1. txn' = [txn EXCEPT ![t] = [y EXCEPT !.pending = p, !.stage = Committing]]
      BY <2>2 DEF ReconcileLineages, TypeInv, p
    <3>2. x = [y EXCEPT !.pending = p, !.stage = Committing]
      BY <3>1 DEF TypeInv
    <3>3. DOMAIN y = {"event", "stage", "todo", "held", "pending"}
      BY DEF TypeInv, TxnOK
    <3> HIDE DEF x, y
    <3> QED BY <3>2, <3>3
  <2> QED BY <2>1, <2>2
<1>4. HandlerOK(log, db, receipts, y)
  BY DEF StateInv
<1>5. \A o \in Transactions \ {t} : y.held \cap txn[o].held = {}
  BY DEF StateInv, Exclusive
<1>6. id \notin receipts => PendingOK(log, db, y)
  BY <1>1, <1>2 DEF PendingInv, Busy
<1> HIDE DEF x, y
<1>7. \A o \in Transactions \ {t} : x.held \cap txn[o].held = {}
  BY <1>3, <1>5
<1>8. y.held \subseteq x.held /\ x.held \subseteq y.held \cup {LineageLock}
  BY <1>3
<1>9. Followed(log, db, x)
  BY <1>1, <1>2, <1>4, <1>8 DEF HandlerOK, Followed, LineageLock
<1>10. ASSUME id \notin receipts
       PROVE  Taken(log, db, x) /\ Footprint(log, db, x) /\ Derives(log, db, x)
  <2>1. Taken(log, db, y) /\ Footprint(log, db, y) /\ Derives(log, db, y)
    BY <1>1, <1>2, <1>4, <1>10 DEF HandlerOK
  <2>2. Taken(log, db, x)
    BY <1>1, <1>2, <1>8, <2>1 DEF Taken
  <2>3. LinksOK(log, Over(y.pending, db))
    BY <1>0, <1>1, <1>6, <1>10, CommitLinks DEF Events
  <2>4. SameSubjects(y.pending, x.pending)
    <3>1. CASE x.pending = y.pending
      BY <3>1 DEF SameSubjects
    <3>2. CASE x.pending = Reconcile(y.pending)
      BY <3>2, ReconcileCells
    <3> QED BY <1>1, <3>1, <3>2
  <2>5. Footprint(log, db, x) /\ Derives(log, db, x)
    BY <1>0, <1>1, <1>8, <2>1, <2>3, <2>4, SameFootprint
  <2> QED BY <2>2, <2>5
<1>11. HandlerOK(log, db, receipts, x)
  BY <1>1, <1>9, <1>10 DEF HandlerOK
<1> QED BY <1>1, <1>7, <1>11, FrameStates DEF x

\* What an event calls for depends on its row only.
LEMMA TakenSame ==
  ASSUME NEW l, NEW d, NEW f, NEW x, f[<<"row", l[x.event].uri>>] = d[<<"row", l[x.event].uri>>],
         Taken(l, d, x)
  PROVE  Taken(l, f, x)
<1>1. IssueNeeds(f, l[x.event]) = IssueNeeds(d, l[x.event])
  BY DEF IssueNeeds, Home, Value
<1>2. PullNeeds(f, l[x.event]) = PullNeeds(d, l[x.event])
  BY DEF PullNeeds, Home, Subject, Value, Exists
<1> QED BY <1>1, <1>2 DEF Taken

\* A commit leaves the locks of other handlers to follow what they should.
LEMMA CommitFollows ==
  ASSUME NEW l \in Logs, NEW d, View(l, d), LinksOK(l, d), NEW o, o.event \in DOMAIN l,
         PendingOK(l, d, o), Footprint(l, d, o), NEW x, Followed(l, d, x), x.held \cap o.held = {}
  PROVE  Followed(l, Over(o.pending, d), x)
<1> DEFINE f == Over(o.pending, d)
<1> SUFFICES ASSUME NEW u \in UrisOf(l), Collection[u] = "pull", <<"pull", u>> \in x.held, Exists(f, u)
             PROVE  <<"pulls", Home(f, u)>> \in x.held \cup x.todo
  BY DEF Followed
<1>1. CASE <<"row", u>> \notin DOMAIN o.pending
  <2>1. f[<<"row", u>>] = d[<<"row", u>>]
    BY <1>1, ViewOver, SubjectColumns
  <2>2. Exists(d, u) /\ Home(f, u) = Home(d, u)
    BY <2>1 DEF Exists, Home, Value
  <2> QED BY <2>2 DEF Followed
<1>2. CASE <<"row", u>> \in DOMAIN o.pending
  <2>1. u \in Tracked(l)
    BY DEF Tracked
  <2>2. Guard(l, d, u) \in o.held
    BY <1>2, <2>1 DEF Footprint
  <2>3. Exists(d, u)
    BY <2>2 DEF Guard
  <2>4. Home(f, u) = Home(d, u)
    BY <2>1, <2>3, LinksStay
  <2> QED BY <2>3, <2>4 DEF Followed
<1> QED BY <1>1, <1>2

LEMMA CommitStates ==
  ASSUME TypeInv, Apart, PendingInv, StateInv, NEW t \in Transactions, Commit(t)
  PROVE  StateInv'
<1> DEFINE id == txn[t].event
<1>0. log \in Logs /\ View(log, db) /\ LinksOK(log, db)
  BY DEF TypeInv, StateInv
<1>1. /\ log' = log /\ Frame(t) /\ id \in DOMAIN log
      /\ \/ id \in receipts /\ UNCHANGED <<db, cursor, receipts>>
         \/ /\ id \notin receipts /\ receipts' = receipts \cup {id}
            /\ PendingOK(log, db, txn[t])
            /\ db' = Over(txn[t].pending, db)
  BY CommitStep
<1>2. txn'[t] = Idle /\ txn'[t].held = {}
  <2>1. txn' = [txn EXCEPT ![t] = Idle]
    BY DEF Commit
  <2> QED BY <2>1, EndStep, IdleOK
<1>3. CASE UNCHANGED <<db, cursor, receipts>>
  <2>1. HandlerOK(log, db, receipts, txn'[t])
    BY <1>2, IdleHandler
  <2> QED BY <1>1, <1>2, <1>3, <2>1, FrameStates
<1>4. CASE /\ id \notin receipts /\ receipts' = receipts \cup {id}
           /\ PendingOK(log, db, txn[t])
           /\ db' = Over(txn[t].pending, db)
  <2>1. id # 0 /\ txn[t].stage > 5
    BY DEF Commit, Busy, Committing
  <2>2. Footprint(log, db, txn[t]) /\ Derives(log, db, txn[t])
    BY <1>4, <2>1 DEF StateInv, HandlerOK
  <2>3. \A o \in Transactions : Typed(log, txn[o].pending) /\ txn[o].event \in (DOMAIN log) \cup {0}
    BY DEF TypeInv, TxnOK
  <2>4. LinksOK(log, db')
    BY <1>0, <1>1, <1>4, CommitLinks
  <2>5. ASSUME NEW u \in Tracked(log) PROVE SubjectOK(log, db', u)
    BY <1>0, <1>1, <1>4, <2>2, CommitSubjects DEF StateInv
  <2>6. Exclusive'
    <3> SUFFICES ASSUME NEW a \in Transactions, NEW b \in Transactions, a # b
                 PROVE  txn'[a].held \cap txn'[b].held = {}
      BY DEF Exclusive
    <3>1. CASE a = t \/ b = t
      BY <1>2, <3>1
    <3>2. CASE a # t /\ b # t
      BY <1>1, <3>2 DEF Frame, StateInv, Exclusive
    <3> QED BY <3>1, <3>2
  <2>7. ASSUME NEW o \in Transactions, o # t
        PROVE  HandlerOK(log, db', receipts', txn[o])
    <3>1. txn[o].held \cap txn[t].held = {} /\ Followed(log, db, txn[o])
      BY <2>7 DEF StateInv, Exclusive, HandlerOK
    <3>2. Followed(log, db', txn[o])
      BY <1>0, <1>1, <1>4, <2>2, <3>1, CommitFollows
    <3>3. ASSUME txn[o].event # 0, txn[o].event \notin receipts'
          PROVE  /\ Taken(log, db', txn[o])
                 /\ txn[o].stage > 5 => Footprint(log, db', txn[o]) /\ Derives(log, db', txn[o])
      <4>1. txn[o].event \in DOMAIN log /\ txn[o].event \notin receipts /\ txn[o].event # id
        BY <1>4, <2>3, <3>3
      <4>2. log[txn[o].event].uri # log[id].uri /\ log[txn[o].event].uri \in UrisOf(log)
        BY <1>0, <2>1, <3>3, <4>1, UrisOfLog DEF Apart, Busy
      <4>3. db'[<<"row", log[txn[o].event].uri>>] = db[<<"row", log[txn[o].event].uri>>]
        BY <1>0, <1>1, <1>4, <4>2, CommitElsewhere, SubjectColumns
      <4>4. Taken(log, db, txn[o])
        BY <3>3, <4>1 DEF StateInv, HandlerOK
      <4>5. Taken(log, db', txn[o])
        BY <4>3, <4>4, TakenSame
      <4>6. ASSUME txn[o].stage > 5
            PROVE  Footprint(log, db', txn[o]) /\ Derives(log, db', txn[o])
        <5>1. PendingOK(log, db, txn[o])
          BY <3>3, <4>1, <4>6 DEF PendingInv, Busy
        <5>2. Footprint(log, db, txn[o]) /\ Derives(log, db, txn[o])
          BY <3>3, <4>1, <4>6 DEF StateInv, HandlerOK
        <5> QED BY <1>0, <1>1, <1>4, <2>2, <2>3, <3>1, <4>1, <4>2, <5>1, <5>2, CommitBeside
      <4> QED BY <4>5, <4>6
    <3> QED BY <3>2, <3>3 DEF HandlerOK
  <2>8. \A o \in Transactions : HandlerOK(log, db', receipts', txn'[o])
    <3> TAKE o \in Transactions
    <3>1. CASE o = t
      BY <1>2, <3>1, IdleHandler
    <3>2. CASE o # t
      BY <1>1, <2>7, <3>2 DEF Frame
    <3> QED BY <3>1, <3>2
  <2> QED BY <1>1, <2>4, <2>5, <2>6, <2>8 DEF StateInv
<1> QED BY <1>1, <1>3, <1>4

LEMMA StateStep ==
  ASSUME TypeInv, Apart, PendingInv, StateInv, [Next]_vars
  PROVE  StateInv'
<1>1. ASSUME NEW t \in Transactions, Abort(t) PROVE StateInv'
  <2>1. UNCHANGED <<log, db, receipts>> /\ txn' = [txn EXCEPT ![t] = Idle]
    BY <1>1 DEF Abort
  <2>2. Frame(t) /\ txn'[t] = Idle /\ txn'[t].held = {}
    BY <2>1, EndStep, IdleOK
  <2>3. HandlerOK(log, db, receipts, txn'[t])
    BY <2>2, IdleHandler
  <2> QED BY <2>1, <2>2, <2>3, FrameStates
<1>2. CASE UNCHANGED vars
  BY <1>2 DEF vars, StateInv, Exclusive
<1> QED
  BY <1>1, <1>2, BeginStates, AcquireStates, ProjectStates, LineageStates, CommitStates
  DEF Next, Duplicate

LEMMA StateInit ==
  ASSUME Init
  PROVE  StateInv
<1>1. log \in Logs /\ TypeInv
  BY TypeInit DEF Init
<1>2. \A c \in Columns, u \in UrisOf(log) : db[<<c, u>>] = Default(c)
  BY DEF Init, Cells
<1>3. \A u \in UrisOf(log) : db[<<"row", u>>] = NoRow /\ db[<<"state", u>>] = "open" /\ db[<<"reviews", u>>] = 0
  <2> TAKE u \in UrisOf(log)
  <2>1. Default("row") = NoRow /\ Default("state") = "open" /\ Default("reviews") = 0
    BY DEF Default
  <2> QED BY <1>2, <2>1, SubjectColumns
<1>0. NoRow.event = 0 /\ NoRow.live = FALSE
  BY DEF NoRow
<1>4. LinksOK(log, db)
  <2> SUFFICES ASSUME NEW u \in UrisOf(log) PROVE LinkOK(log, db[<<"row", u>>], u)
    BY DEF LinksOK
  <2>1. db[<<"row", u>>].event = 0 /\ ~db[<<"row", u>>].live
    BY <1>0, <1>3
  <2>2. ~(0 > 0)
    OBVIOUS
  <2> QED BY <2>1, <2>2 DEF LinkOK
<1>5. ASSUME NEW u \in Tracked(log) PROVE SubjectOK(log, db, u)
  <2>1. u \in UrisOf(log)
    BY DEF Tracked
  <2>2. ~Live(db, u) /\ db[<<"state", u>>] = "open"
    BY <1>0, <1>3, <2>1 DEF Live
  <2> QED BY <2>2 DEF SubjectOK
<1>6. \A t \in Transactions : txn[t] = Idle
  BY DEF Init
<1>7. Exclusive
  BY <1>6, IdleOK DEF Exclusive
<1>8. \A t \in Transactions : HandlerOK(log, db, receipts, txn[t])
  BY <1>6, IdleHandler
<1> QED BY <1>4, <1>5, <1>7, <1>8 DEF StateInv

LEMMA StateInductive == Spec => []StateInv
<1>1. Init => StateInv
  BY StateInit
<1>2. TypeInv /\ Apart /\ PendingInv /\ StateInv /\ [Next]_vars => StateInv'
  BY StateStep
<1> QED BY <1>1, <1>2, TypeInductive, PendingInductive, PTL DEF Spec

(***************************************************************************)
(* The theorems.                                                           *)
(***************************************************************************)
\* The state of a pull request with a live target repository is always the one that the
\* target owner's newest status decides, whatever the order of delivery and whichever
\* handlers recompute it at the same time (recomputePullRequestStateAndCounts under
\* lockPullRequestProjection).
THEOREM PullStates == Spec => []PullStateResolved
<1>1. TypeInv /\ StateInv => PullStateResolved
  <2> SUFFICES ASSUME TypeInv, StateInv, NEW p \in Rows(db, "pull"),
                      Exists(db, Home(db, p)), Live(db, Home(db, p))
               PROVE  db[<<"state", p>>] = Resolve(db, p)
    BY DEF PullStateResolved, Home
  <2>1. p \in Tracked(log) /\ Collection[p] = "pull" /\ Live(db, p)
    BY DEF Rows, OfCollection, Uris, Tracked
  <2>2. db[<<"state", p>>] = StateOf(log, db, p)
    BY <2>1 DEF StateInv, SubjectOK
  <2> QED BY <2>2, ResolveIsStateOf
<1> QED BY <1>1, TypeInductive, StateInductive, PTL

\* An issue or pull request that is not open was always decided by a live status of the
\* owner of its repository: every pull request, and every issue whose records agree on the
\* repository (docs/federation.md: repository owners "control derived issue and pull request
\* status").
THEOREM OwnersDecideStates == Spec => []OwnersDecide
<1>1. TypeInv /\ StateInv => OwnersDecide
  <2> SUFFICES ASSUME TypeInv, StateInv, NEW u \in Rows(db, "issue") \cup Rows(db, "pull"),
                      db[<<"state", u>>] # "open", Collection[u] = "issue" => ~Unsettled(u)
               PROVE  \E s \in Rows(db, "issueStatus") \cup Rows(db, "pullStatus") :
                        /\ Value(db, s).subject = u
                        /\ Value(db, s).state = db[<<"state", u>>]
                        /\ Author[s] = Author[Value(db, u).repository]
    BY DEF OwnersDecide
  <2>1. u \in UrisOf(log) /\ Collection[u] \in {"issue", "pull"}
    BY DEF Rows, OfCollection, Uris
  <2>2. Naming(u) = NamingIn(log, u)
    BY DEF Naming, NamingIn, Events
  <2>3. u \in Tracked(log)
    BY <2>1, <2>2 DEF Tracked, Unsettled
  <2>4. Decided(log, db, u, db[<<"state", u>>])
    BY <2>3 DEF StateInv, SubjectOK
  <2>5. PICK s \in UrisOf(log) : /\ Collection[s] = StatusOf(Collection[u])
                                 /\ Concerns(db, s, u)
                                 /\ Value(db, s).state = db[<<"state", u>>]
                                 /\ Author[s] = Author[Home(db, u)]
    BY <2>4 DEF Decided
  <2>6. s \in Rows(db, "issueStatus") \cup Rows(db, "pullStatus")
    BY <2>5 DEF Rows, OfCollection, Uris, Concerns, StatusOf
  <2> QED BY <2>5, <2>6 DEF Concerns, Subject, Home
<1> QED BY <1>1, TypeInductive, StateInductive, PTL

\* The review count of every live pull request is the number of live reviews of its current
\* revision: the part of CountsExact about recomputePullRequestReviewCount.
ReviewsExact ==
  \A p \in Rows(db, "pull") : db[<<"reviews", p>>] = Derive(db, "reviews", p)
THEOREM ReviewCounts == Spec => []ReviewsExact
<1>1. StateInv => ReviewsExact
  <2> SUFFICES ASSUME StateInv, NEW p \in Rows(db, "pull")
               PROVE  db[<<"reviews", p>>] = Derive(db, "reviews", p)
    BY DEF ReviewsExact
  <2>1. p \in Tracked(log) /\ Collection[p] = "pull" /\ Live(db, p)
    BY DEF Rows, OfCollection, Uris, Tracked
  <2>2. db[<<"reviews", p>>] = Cardinality(Reviewers(log, db, p))
    BY <2>1 DEF StateInv, SubjectOK
  <2> QED BY <2>2, ReviewsAreReviewers
<1> QED BY <1>1, StateInductive, PTL
=============================================================================
