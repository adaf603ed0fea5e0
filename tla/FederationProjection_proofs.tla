--------------------- MODULE FederationProjection_proofs ---------------------
(***************************************************************************)
(* Proofs about the projection, for every set of logs, every number of     *)
(* handlers and every bound on aborts:                                     *)
(*   - TypeOK, from the type of every cell a transaction may write;        *)
(*   - OnlyWritersDeadlock, from the order in which every handler takes    *)
(*     its locks;                                                          *)
(*   - NeverRegresses and Converged, from what the pending writes of each  *)
(*     handler say of its own URI.                                         *)
(***************************************************************************)
EXTENDS FederationProjection, FiniteSetTheorems, WellFoundedInduction, TLAPS

(***************************************************************************)
(* The URIs of a log.                                                      *)
(***************************************************************************)
\* The URI and the links of every event are URIs of the log; URIs have a rank.
LEMMA UrisOfLog ==
  ASSUME NEW l \in Logs
  PROVE  /\ UrisOf(l) \subseteq Names
         /\ None \notin UrisOf(l)
         /\ \A i \in DOMAIN l :
              /\ l[i].uri \in UrisOf(l)
              /\ l[i].value.repository \in UrisOf(l) \cup {None}
              /\ l[i].value.subject \in UrisOf(l) \cup {None}
              /\ l[i].value.origin \in UrisOf(l) \cup {None}
<1> DEFINE Of1(i) == {l[i].uri, l[i].value.repository, l[i].value.subject, l[i].value.origin}
<1>1. \A u : u \in UrisOf(l) <=> u # None /\ \E i \in DOMAIN l : u \in Of1(i)
  BY DEF UrisOf
<1>2. ASSUME NEW i \in DOMAIN l
      PROVE  /\ Of1(i) \subseteq Names \cup {None}
             /\ Of1(i) \subseteq UrisOf(l) \cup {None}
             /\ l[i].uri # None
  <2>1. l[i].uri # None /\ Of1(i) \subseteq Names \cup {None}
    BY NoneAssumption, LogAssumption
  <2> HIDE DEF Of1
  <2> QED BY <2>1, <1>1
<1>3. UrisOf(l) \subseteq Names
  <2> SUFFICES ASSUME NEW u \in UrisOf(l) PROVE u \in Names
    OBVIOUS
  <2>1. PICK i \in DOMAIN l : u \in Of1(i)
    BY <1>1
  <2> QED BY <2>1, <1>1, <1>2
<1> QED
  BY <1>1, <1>2, <1>3

\* The values of a function on a finite set are finitely many.
LEMMA FiniteRange ==
  ASSUME NEW S, IsFiniteSet(S), NEW f, DOMAIN f = S
  PROVE  IsFiniteSet({f[x] : x \in S})
<1> DEFINE T == {f[x] : x \in S}
           g == [x \in S |-> f[x]]
<1>1. g \in Surjection(S, T)
  BY DEF Surjection
<1> QED
  BY <1>1, FS_Surjection

\* A log names finitely many URIs.
LEMMA UrisFinite ==
  ASSUME NEW l \in Logs
  PROVE  IsFiniteSet(UrisOf(l))
<1> DEFINE D == DOMAIN l
           uri == [i \in D |-> l[i].uri]
           repository == [i \in D |-> l[i].value.repository]
           subject == [i \in D |-> l[i].value.subject]
           origin == [i \in D |-> l[i].value.origin]
           A == {uri[i] : i \in D}
           B == {repository[i] : i \in D}
           C == {subject[i] : i \in D}
           E == {origin[i] : i \in D}
<1>1. IsFiniteSet(D)
  BY LogAssumption, FS_Interval
<1>2. IsFiniteSet(A) /\ IsFiniteSet(B) /\ IsFiniteSet(C) /\ IsFiniteSet(E)
  <2> HIDE DEF D
  <2> QED BY <1>1, FiniteRange
<1>3. IsFiniteSet((A \cup B) \cup (C \cup E))
  <2> HIDE DEF A, B, C, E
  <2>1. IsFiniteSet(A \cup B) /\ IsFiniteSet(C \cup E)
    BY <1>2, FS_Union
  <2> QED BY <2>1, FS_Union
<1>4. UrisOf(l) \in SUBSET ((A \cup B) \cup (C \cup E))
  BY DEF UrisOf
<1> QED
  <2> HIDE DEF A, B, C, E
  <2> QED BY <1>3, <1>4, FS_Subset

\* Counting rows gives a natural number.
LEMMA CountIsNat ==
  ASSUME NEW l \in Logs, NEW S \in SUBSET UrisOf(l)
  PROVE  IsFiniteSet(S) /\ Cardinality(S) \in Nat
BY UrisFinite, FS_Subset, FS_CardinalityType

\* How many authors a set of URIs has is a natural number.
LEMMA AuthorsCount ==
  ASSUME NEW l \in Logs, NEW S \in SUBSET UrisOf(l)
  PROVE  Cardinality({Author[s] : s \in S}) \in Nat
<1> DEFINE f == [s \in S |-> Author[s]]
<1>1. IsFiniteSet({f[s] : s \in S})
  <2>1. IsFiniteSet(S) /\ DOMAIN f = S
    BY CountIsNat
  <2> HIDE DEF f
  <2> QED BY <2>1, FiniteRange
<1>2. {f[s] : s \in S} = {Author[s] : s \in S}
  OBVIOUS
<1> QED
  BY <1>1, <1>2, FS_CardinalityType

(***************************************************************************)
(* The type of what a cell holds, of a set of writes and of a whole view.  *)
(***************************************************************************)
Base == {"record", "row", "identity", "handle"}
Sources == {"record", "row", "identity"}
Derived == {"state"} \cup Counters
LinkOf(l) == UrisOf(l) \cup {None}

RowOK(l, u, x) ==
  /\ x.live \in BOOLEAN
  /\ DOMAIN x.value = DOMAIN Blank
  /\ x.value.repository \in LinkOf(l)
  /\ x.value.subject \in LinkOf(l)
  /\ x.value.origin \in LinkOf(l)
  /\ x.live /\ Collection[u] \in {"issueStatus", "pullStatus"} => x.value.state \in States
CellOK(l, c, u, x) ==
  /\ c \in Base => x.event \in (DOMAIN l) \cup {0}
  /\ c = "row" => RowOK(l, u, x)
  /\ c = "state" => x \in States
  /\ c \in Counters => x \in Nat
Typed(l, w) ==
  /\ DOMAIN w \subseteq Cells(l)
  /\ \A c \in Columns, u \in UrisOf(l) : <<c, u>> \in DOMAIN w => CellOK(l, c, u, w[<<c, u>>])
View(l, v) == Typed(l, v) /\ DOMAIN v = Cells(l)

\* Base and derived columns are apart and are all the columns.
LEMMA ColumnKinds ==
  /\ Columns = Base \cup Derived
  /\ "row" \in Base /\ "record" \in Base /\ "identity" \in Base /\ "handle" \in Base
  /\ \A c \in Derived : c \notin Base
  /\ \A c \in Counters : c # "state" /\ c \notin Base
BY DEF Columns, Base, Derived, Counters

\* A view has every cell, of its type.
LEMMA ViewCell ==
  ASSUME NEW l, NEW v, View(l, v), NEW c \in Columns, NEW u \in UrisOf(l)
  PROVE  <<c, u>> \in DOMAIN v /\ CellOK(l, c, u, v[<<c, u>>])
BY DEF View, Typed, Cells

\* What a view says of the row of a URI.
LEMMA ViewRow ==
  ASSUME NEW l, NEW v, View(l, v), NEW u \in UrisOf(l)
  PROVE  RowOK(l, u, v[<<"row", u>>]) /\ v[<<"row", u>>].event \in (DOMAIN l) \cup {0}
<1>1. "row" \in Columns /\ "row" \in Base
  BY DEF Columns, Base
<1>2. CellOK(l, "row", u, v[<<"row", u>>])
  BY <1>1, ViewCell
<1> QED
  BY <1>1, <1>2 DEF CellOK

\* Writing one more cell of its type keeps the writes typed.
LEMMA PutTyped ==
  ASSUME NEW l, NEW w, Typed(l, w), NEW c \in Columns, NEW u \in UrisOf(l),
         NEW x, CellOK(l, c, u, x)
  PROVE  Typed(l, Put(w, c, u, x))
<1> DEFINE p == Put(w, c, u, x)
<1>1. DOMAIN p = DOMAIN w \cup {<<c, u>>}
  BY DEF Put
<1>2. \A cell \in DOMAIN p : p[cell] = IF cell = <<c, u>> THEN x ELSE w[cell]
  BY DEF Put
<1>3. DOMAIN p \subseteq Cells(l)
  BY <1>1 DEF Typed, Cells
<1>4. ASSUME NEW k \in Columns, NEW o \in UrisOf(l), <<k, o>> \in DOMAIN p
      PROVE  CellOK(l, k, o, p[<<k, o>>])
  <2>1. CASE <<k, o>> = <<c, u>>
    BY <2>1, <1>2, <1>4
  <2>2. CASE <<k, o>> # <<c, u>>
    BY <2>2, <1>1, <1>2, <1>4 DEF Typed
  <2> QED BY <2>1, <2>2
<1> QED
  <2> HIDE DEF p
  <2> QED BY <1>3, <1>4 DEF Typed, p

\* Typed writes over typed writes are typed.
LEMMA OverTyped ==
  ASSUME NEW l, NEW w, Typed(l, w), NEW d, Typed(l, d)
  PROVE  Typed(l, Over(w, d))
<1> DEFINE o == Over(w, d)
<1>1. DOMAIN o = DOMAIN w \cup DOMAIN d
  BY DEF Over
<1>2. \A cell \in DOMAIN o : o[cell] = IF cell \in DOMAIN w THEN w[cell] ELSE d[cell]
  BY DEF Over
<1> HIDE DEF o
<1>3. DOMAIN o \subseteq Cells(l)
  BY <1>1 DEF Typed
<1>4. ASSUME NEW k \in Columns, NEW u \in UrisOf(l), <<k, u>> \in DOMAIN o
      PROVE  CellOK(l, k, u, o[<<k, u>>])
  <2>1. CASE <<k, u>> \in DOMAIN w
    BY <2>1, <1>2, <1>4 DEF Typed
  <2>2. CASE <<k, u>> \notin DOMAIN w
    BY <2>2, <1>1, <1>2, <1>4 DEF Typed
  <2> QED BY <2>1, <2>2
<1> QED
  BY <1>3, <1>4 DEF Typed, o

\* Typed writes over a view are a view.
LEMMA OverView ==
  ASSUME NEW l, NEW w, Typed(l, w), NEW d, View(l, d)
  PROVE  View(l, Over(w, d))
<1>1. Typed(l, Over(w, d))
  BY OverTyped DEF View
<1>2. DOMAIN Over(w, d) = Cells(l)
  BY DEF Over, View, Typed
<1> QED
  BY <1>1, <1>2 DEF View

(***************************************************************************)
(* The recomputations write derived cells of their type, and no other.     *)
(***************************************************************************)
LEMMA RowsSubset ==
  ASSUME NEW v, NEW c
  PROVE  /\ Rows(v, c) \subseteq Uris
         /\ \A u \in Rows(v, c) : Live(v, u) /\ Collection[u] = c
BY DEF Rows, OfCollection

\* A resolved state is one of the three: it is a live status's, or open.
LEMMA ResolveType ==
  ASSUME log \in Logs, NEW v, View(log, v), NEW u
  PROVE  Resolve(v, u) \in States
<1> DEFINE newest == {s \in Candidates(v, u) :
                        \A o \in Candidates(v, u) : v[<<"row", o>>].event <= v[<<"row", s>>].event}
           s == CHOOSE x \in newest : TRUE
<1>1. CASE newest = {}
  BY <1>1 DEF Resolve, States
<1>2. CASE newest # {}
  <2>1. s \in Candidates(v, u)
    BY <1>2
  <2>2. s \in Rows(v, "issueStatus") \cup Rows(v, "pullStatus")
    <3> HIDE DEF s
    <3> QED BY <2>1 DEF Candidates
  <2> HIDE DEF s
  <2>3. s \in Uris /\ Live(v, s) /\ Collection[s] \in {"issueStatus", "pullStatus"}
    BY <2>2, RowsSubset
  <2>4. Value(v, s).state \in States
    BY <2>3, ViewRow DEF Uris, RowOK, Live, Value
  <2> QED BY <2>4, <1>2 DEF Resolve, s
<1> QED
  BY <1>1, <1>2

\* Each Recompute query gives a value of its column.
LEMMA DeriveType ==
  ASSUME log \in Logs, NEW v, View(log, v), NEW u \in Uris, NEW c \in Derived
  PROVE  CellOK(log, c, u, Derive(v, c, u))
<1>1. CASE c = "state"
  <2>1. Derive(v, c, u) \in States
    BY <1>1, ResolveType DEF Derive
  <2> QED BY <2>1, <1>1, ColumnKinds DEF CellOK
<1>2. CASE c \in Counters
  <2>1. Derive(v, c, u) \in Nat
    <3>1. /\ IssuesOf(v, u) \in SUBSET UrisOf(log)
          /\ PullsOf(v, u) \in SUBSET UrisOf(log)
          /\ Open(v, IssuesOf(v, u)) \in SUBSET UrisOf(log)
          /\ Open(v, PullsOf(v, u)) \in SUBSET UrisOf(log)
      BY RowsSubset DEF IssuesOf, PullsOf, Open, Uris
    <3>2. CASE c = "stars"
      <4> DEFINE S == {s \in Rows(v, "star") : Value(v, s).repository = u}
      <4>1. S \in SUBSET UrisOf(log)
        BY RowsSubset DEF Uris
      <4>2. Derive(v, c, u) = Cardinality({Author[s] : s \in S})
        BY <3>2 DEF Derive
      <4> HIDE DEF S
      <4> QED BY <4>1, <4>2, AuthorsCount
    <3>3. CASE c = "issues" \/ c = "openIssues" \/ c = "pulls" \/ c = "openPulls"
      <4>1. \/ Derive(v, c, u) = Cardinality(IssuesOf(v, u))
            \/ Derive(v, c, u) = Cardinality(PullsOf(v, u))
            \/ Derive(v, c, u) = Cardinality(Open(v, IssuesOf(v, u)))
            \/ Derive(v, c, u) = Cardinality(Open(v, PullsOf(v, u)))
        BY <3>3 DEF Derive
      <4> QED BY <4>1, <3>1, CountIsNat
    <3>4. CASE c = "comments"
      <4> DEFINE issues == IF Collection[u] = "repository" THEN IssuesOf(v, u)
                           ELSE {u} \cap Rows(v, "issue")
                 S == {x \in CommentsOf(v, issues) : Visible(v, x)}
      <4>1. S \in SUBSET UrisOf(log)
        BY RowsSubset DEF CommentsOf, Uris
      <4>2. Derive(v, c, u) = Cardinality(S)
        BY <3>4 DEF Derive
      <4> HIDE DEF S
      <4> QED BY <4>1, <4>2, CountIsNat
    <3>5. CASE c = "forks"
      <4> DEFINE S == {r \in Rows(v, "repository") \ {u} : Value(v, r).origin = u}
      <4>1. S \in SUBSET UrisOf(log)
        BY RowsSubset DEF Uris
      <4>2. Derive(v, c, u) = Cardinality(S)
        BY <3>5 DEF Derive
      <4> HIDE DEF S
      <4> QED BY <4>1, <4>2, CountIsNat
    <3>6. CASE c = "reviews"
      <4> DEFINE S == {r \in Rows(v, "review") : /\ Value(v, r).subject = u
                                                 /\ Value(v, u).cid # None
                                                 /\ Value(v, r).subjectCid = Value(v, u).cid}
      <4>1. S \in SUBSET UrisOf(log)
        BY RowsSubset DEF Uris
      <4>2. Derive(v, c, u) = Cardinality(S)
        BY <3>6 DEF Derive
      <4> HIDE DEF S
      <4> QED BY <4>1, <4>2, CountIsNat
    <3>7. CASE c = "repositories"
      <4> DEFINE S == {r \in Rows(v, "repository") : Author[r] = Author[u]}
      <4>1. S \in SUBSET UrisOf(log)
        BY RowsSubset DEF Uris
      <4>2. Derive(v, c, u) = Cardinality(S)
        BY <3>7 DEF Derive
      <4> HIDE DEF S
      <4> QED BY <4>1, <4>2, CountIsNat
    <3> QED BY <1>2, <3>2, <3>3, <3>4, <3>5, <3>6, <3>7 DEF Counters
  <2> QED BY <2>1, <1>2, ColumnKinds DEF CellOK
<1> QED
  BY <1>1, <1>2 DEF Derived

\* x writes the record, row and identity cells that w writes, and the same values.
SameSources(w, x) ==
  \A c \in Sources, u \in Uris :
    /\ <<c, u>> \in DOMAIN x <=> <<c, u>> \in DOMAIN w
    /\ <<c, u>> \in DOMAIN w => x[<<c, u>>] = w[<<c, u>>]

\* Writing derived cells over w keeps its type and its source cells.
LEMMA DerivedOver ==
  ASSUME NEW w, Typed(log, w), NEW n,
         DOMAIN n \subseteq Derived \X Uris,
         \A x \in DOMAIN n : CellOK(log, x[1], x[2], n[x])
  PROVE  Typed(log, Over(n, w)) /\ SameSources(w, Over(n, w))
<1>1. Typed(log, n)
  <2>1. DOMAIN n \subseteq Cells(log)
    BY ColumnKinds DEF Cells, Uris
  <2>2. ASSUME NEW c \in Columns, NEW u \in UrisOf(log), <<c, u>> \in DOMAIN n
        PROVE  CellOK(log, c, u, n[<<c, u>>])
    <3>1. CellOK(log, <<c, u>>[1], <<c, u>>[2], n[<<c, u>>])
      BY <2>2
    <3> QED BY <3>1
  <2> QED BY <2>1, <2>2 DEF Typed
<1>2. SameSources(w, Over(n, w))
  <2> SUFFICES ASSUME NEW c \in Sources, NEW u \in Uris
               PROVE  /\ <<c, u>> \in DOMAIN Over(n, w) <=> <<c, u>> \in DOMAIN w
                      /\ <<c, u>> \in DOMAIN w => Over(n, w)[<<c, u>>] = w[<<c, u>>]
    BY DEF SameSources
  <2>1. <<c, u>> \notin DOMAIN n
    BY ColumnKinds DEF Sources, Base
  <2> QED BY <2>1 DEF Over
<1> QED
  BY <1>1, <1>2, OverTyped

\* A Recompute query writes derived cells of their type and no record, row or identity.
LEMMA RecomputeWrites ==
  ASSUME log \in Logs, View(log, db), NEW w, Typed(log, w),
         NEW targets, targets \subseteq Derived \X LinkOf(log)
  PROVE  Typed(log, Recompute(w, targets)) /\ SameSources(w, Recompute(w, targets))
<1> DEFINE v == Over(w, db)
           n == [x \in Known(v, targets) |-> Derive(v, x[1], x[2])]
<1>1. View(log, v)
  BY OverView
<1> HIDE DEF v
<1>2. Known(v, targets) \subseteq Derived \X Uris
  BY DEF Known, Exists, LinkOf, Uris
<1>3. DOMAIN n \subseteq Derived \X Uris
  BY <1>2
<1>4. ASSUME NEW x \in DOMAIN n
      PROVE  CellOK(log, x[1], x[2], n[x])
  <2>1. x[1] \in Derived /\ x[2] \in Uris
    BY <1>3
  <2>2. n[x] = Derive(v, x[1], x[2])
    OBVIOUS
  <2> HIDE DEF n
  <2> QED BY <2>1, <2>2, <1>1, DeriveType
<1>5. Recompute(w, targets) = Over(n, w)
  BY DEF Recompute, v
<1> HIDE DEF n
<1> QED
  BY <1>3, <1>4, <1>5, DerivedOver

\* Two recomputations in a row leave the source cells, too.
LEMMA SameSourcesTransitive ==
  ASSUME NEW w, NEW x, NEW y, SameSources(w, x), SameSources(x, y)
  PROVE  SameSources(w, y)
BY DEF SameSources

\* So do all the queries of an event.
LEMMA RecomputeAllWrites ==
  ASSUME log \in Logs, View(log, db), NEW w, Typed(log, w),
         NEW targets, targets \subseteq Derived \X LinkOf(log)
  PROVE  Typed(log, RecomputeAll(w, targets)) /\ SameSources(w, RecomputeAll(w, targets))
<1> DEFINE states == {x \in targets : x[1] = "state"}
           w1 == Recompute(w, states)
           w2 == Recompute(w1, targets \ states)
<1>1. states \subseteq Derived \X LinkOf(log) /\ targets \ states \subseteq Derived \X LinkOf(log)
  OBVIOUS
<1>2. RecomputeAll(w, targets) = w2
  BY DEF RecomputeAll
<1> HIDE DEF states
<1>3. Typed(log, w1) /\ SameSources(w, w1)
  BY <1>1, RecomputeWrites
<1> HIDE DEF w1
<1> DEFINE rest == targets \ states
<1>4. rest \subseteq Derived \X LinkOf(log) /\ w2 = Recompute(w1, rest)
  BY <1>1
<1> HIDE DEF rest
<1>5. Typed(log, w2) /\ SameSources(w1, w2)
  BY <1>3, <1>4, RecomputeWrites
<1> HIDE DEF w2
<1> QED
  BY <1>2, <1>3, <1>5, SameSourcesTransitive

\* reconcileTransferLineages writes counters only.
LEMMA ReconcileWrites ==
  ASSUME log \in Logs, View(log, db), NEW w, Typed(log, w)
  PROVE  Typed(log, Reconcile(w)) /\ SameSources(w, Reconcile(w))
<1> DEFINE v == Over(w, db)
           n == [cell \in LineageCounters \X Rows(v, "repository")
                   |-> LineageCount(v, cell[1], cell[2])]
<1>1. View(log, v)
  BY OverView
<1> HIDE DEF v
<1>2. LineageCounters \subseteq Counters
  BY DEF LineageCounters, Counters
<1>3. DOMAIN n \subseteq Derived \X Uris
  BY <1>2, RowsSubset DEF Derived
<1>4. ASSUME NEW x \in DOMAIN n
      PROVE  CellOK(log, x[1], x[2], n[x])
  <2>1. x[1] \in Counters /\ x[1] \in Derived /\ x[2] \in Uris
    BY <1>3, <1>2
  <2>2. n[x] = LineageCount(v, x[1], x[2])
    OBVIOUS
  <2> HIDE DEF n
  <2>3. CASE x[1] # "comments"
    BY <2>1, <2>2, <2>3, <1>1, DeriveType DEF LineageCount
  <2>4. CASE x[1] = "comments"
    <3> DEFINE S == CommentsOf(v, IssuesOf(v, x[2]))
    <3>1. S \in SUBSET UrisOf(log)
      BY RowsSubset DEF CommentsOf, Uris
    <3>2. n[x] = Cardinality(S)
      BY <2>2, <2>4 DEF LineageCount
    <3> HIDE DEF S
    <3>3. n[x] \in Nat
      BY <3>1, <3>2, CountIsNat
    <3> QED BY <3>3, <2>1, ColumnKinds DEF CellOK
  <2> QED BY <2>3, <2>4
<1>5. Reconcile(w) = Over(n, w)
  BY DEF Reconcile, v
<1> HIDE DEF n
<1> QED
  BY <1>3, <1>4, <1>5, DerivedOver

(***************************************************************************)
(* What each handler recomputes are derived cells of URIs of the log.      *)
(***************************************************************************)
LEMMA DerivedColumns ==
  {"state", "stars", "issues", "openIssues", "comments", "pulls", "openPulls", "forks", "reviews",
   "repositories"} = Derived
BY DEF Derived, Counters

\* The links of a URI's row lead to URIs of the log.
LEMMA ViewLinks ==
  ASSUME NEW v, View(log, v), NEW u \in Uris
  PROVE  /\ Value(v, u).repository \in LinkOf(log)
         /\ Value(v, u).subject \in LinkOf(log)
         /\ Value(v, u).origin \in LinkOf(log)
BY ViewRow DEF Uris, RowOK, Value

\* The counters of a linked repository are derived cells.
LEMMA CountTargets ==
  ASSUME NEW r \in LinkOf(log)
  PROVE  /\ IssueCounts(r) \subseteq Derived \X LinkOf(log)
         /\ PullCounts(r) \subseteq Derived \X LinkOf(log)
         /\ \A c \in Derived : <<c, r>> \in Derived \X LinkOf(log)
BY DerivedColumns DEF IssueCounts, PullCounts

\* What a checked row recomputes are derived cells of linked URIs.
LEMMA RowTargetsType ==
  ASSUME log \in Logs, View(log, db), NEW v, View(log, v), NEW i \in Events
  PROVE  RowTargets(v, log[i]) \subseteq Derived \X LinkOf(log)
<1> DEFINE e == log[i]
           D == Derived \X LinkOf(log)
<1>1. e.uri \in Uris /\ e.uri \in LinkOf(log)
  BY UrisOfLog DEF Uris, Events, LinkOf
<1>2. /\ Value(v, e.uri).repository \in LinkOf(log)
      /\ Value(v, e.uri).subject \in LinkOf(log)
      /\ Value(db, e.uri).repository \in LinkOf(log)
  BY <1>1, ViewLinks
<1> HIDE DEF e
<1>3. Collection[e.uri] = "star" => RowTargets(v, e) \subseteq D
  BY <1>2, CountTargets, DerivedColumns DEF RowTargets
<1>4. Collection[e.uri] = "issue" => RowTargets(v, e) \subseteq D
  <2> DEFINE new == Value(v, e.uri).repository
             old == Value(db, e.uri).repository
  <2>1. /\ IssueCounts(new) \subseteq D /\ IssueCounts(old) \subseteq D
        /\ <<"comments", new>> \in D /\ <<"comments", old>> \in D
        /\ <<"state", e.uri>> \in D /\ <<"comments", e.uri>> \in D
    BY <1>1, <1>2, CountTargets, DerivedColumns
  <2> HIDE DEF D
  <2>2. IssueTargets(v, e) \subseteq D
    BY <2>1 DEF IssueTargets
  <2> QED BY <2>2 DEF RowTargets
<1>5. Collection[e.uri] = "comment" => RowTargets(v, e) \subseteq D
  <2>1. ChildIssues(db, e.uri) \subseteq LinkOf(log)
    BY RowsSubset, ViewLinks DEF ChildIssues
  <2>2. ASSUME NEW u \in LinkOf(log)
        PROVE  CommentCounts(v, u) \subseteq D
    <3>1. CASE ~Exists(v, u)
      BY <3>1 DEF CommentCounts
    <3>2. CASE Exists(v, u)
      <4>1. u \in Uris
        BY <3>2 DEF Exists, LinkOf, Uris
      <4>2. Value(v, u).repository \in LinkOf(log)
        BY <4>1, ViewLinks
      <4> QED BY <4>2, CountTargets, DerivedColumns DEF CommentCounts
    <3> QED BY <3>1, <3>2
  <2>3. CommentTargets(v, e) \subseteq D
    BY <1>2, <2>1, <2>2 DEF CommentTargets
  <2> QED BY <2>3 DEF RowTargets
<1>6. Collection[e.uri] \in {"issueStatus", "pullStatus"} => RowTargets(v, e) \subseteq D
  <2> DEFINE u == Value(v, e.uri).subject
  <2>1. \/ RowTargets(v, e) = StateAndCounts(v, u)
        \/ Collection[e.uri] \notin {"issueStatus", "pullStatus"}
    BY DEF RowTargets
  <2>2. u \in LinkOf(log)
    BY <1>2
  <2> HIDE DEF u
  <2>3. StateAndCounts(v, u) \subseteq D
    <3>1. CASE ~Exists(v, u)
      BY <3>1 DEF StateAndCounts
    <3>2. CASE Exists(v, u)
      <4>1. u \in Uris
        BY <3>2, <2>2 DEF Exists, LinkOf, Uris
      <4>2. Value(v, u).repository \in LinkOf(log)
        BY <4>1, ViewLinks
      <4>3. /\ <<"state", u>> \in D
            /\ IssueCounts(Value(v, u).repository) \subseteq D
            /\ PullCounts(Value(v, u).repository) \subseteq D
        BY <2>2, <4>2, CountTargets, DerivedColumns
      <4> HIDE DEF D
      <4> QED BY <4>3 DEF StateAndCounts
    <3> QED BY <3>1, <3>2
  <2> QED BY <2>1, <2>3
<1>7. Collection[e.uri] = "pull" => RowTargets(v, e) \subseteq D
  <2>1. /\ <<"state", e.uri>> \in D /\ <<"reviews", e.uri>> \in D
        /\ PullCounts(Value(v, e.uri).repository) \subseteq D
    BY <1>1, <1>2, CountTargets, DerivedColumns
  <2> HIDE DEF D
  <2>2. PullTargets(v, e) \subseteq D
    BY <2>1 DEF PullTargets
  <2> QED BY <2>2 DEF RowTargets
<1>8. Collection[e.uri] = "review" => RowTargets(v, e) \subseteq D
  BY <1>2, CountTargets, DerivedColumns DEF RowTargets
<1> HIDE DEF D
<1>9. Collection[e.uri] \notin {"star", "issue", "comment", "issueStatus", "pullStatus", "pull",
                               "review"}
        => RowTargets(v, e) \subseteq D
  BY DEF RowTargets
<1> QED
  BY <1>3, <1>4, <1>5, <1>6, <1>7, <1>8, <1>9 DEF D, e

\* What a repository event recomputes are derived cells of linked URIs.
LEMMA RepositoryTargetsType ==
  ASSUME log \in Logs, View(log, db), NEW i \in Events
  PROVE  RepositoryTargets(log[i]) \subseteq Derived \X LinkOf(log)
<1> DEFINE e == log[i]
           D == Derived \X LinkOf(log)
           sources == {ForkSource(db, e.uri), IF e.action = "put" THEN e.value.origin ELSE None}
                        \ {None}
           forks == sources \cup (IF e.action = "put" THEN {e.uri} ELSE {})
<1>1. /\ e.uri \in Uris /\ e.uri \in LinkOf(log)
      /\ e.value.origin \in LinkOf(log) /\ None \in LinkOf(log)
  BY UrisOfLog DEF Uris, Events, LinkOf
<1>2. ForkSource(db, e.uri) \in LinkOf(log)
  BY <1>1, ViewLinks DEF ForkSource
<1> HIDE DEF e
<1>3. forks \subseteq LinkOf(log)
  BY <1>1, <1>2
<1>4. {<<"forks", r>> : r \in forks} \subseteq D
  <2> HIDE DEF forks
  <2> QED BY <1>3, DerivedColumns
<1>5. {<<"repositories", p>> : p \in ProfileOf(Author[e.uri])} \subseteq D
  BY DerivedColumns DEF ProfileOf, OfCollection, LinkOf, Uris
<1>6. {<<"stars", e.uri>>, <<"comments", e.uri>>} \subseteq D
  BY <1>1, DerivedColumns
<1>7. IssueCounts(e.uri) \subseteq D /\ PullCounts(e.uri) \subseteq D
  BY <1>1, CountTargets
<1>8. {"state", "reviews"} \X AllPulls(db, e.uri) \subseteq D
  BY DerivedColumns DEF AllPulls, OfCollection, LinkOf, Uris
<1>9. RepositoryTargets(e) =
        {<<"forks", r>> : r \in forks}
        \cup {<<"repositories", p>> : p \in ProfileOf(Author[e.uri])}
        \cup {<<"stars", e.uri>>, <<"comments", e.uri>>}
        \cup IssueCounts(e.uri) \cup PullCounts(e.uri)
        \cup (IF e.action = "put" THEN {"state", "reviews"} \X AllPulls(db, e.uri) ELSE {})
  BY DEF RepositoryTargets
<1> HIDE DEF D, forks
<1> QED
  BY <1>4, <1>5, <1>6, <1>7, <1>8, <1>9 DEF D, e

(***************************************************************************)
(* What project() writes at the URI of its event.                          *)
(***************************************************************************)
\* The raw record after the event, the row it leaves and whether it is written at all, as
\* functions of the committed record and row alone.
RecordAfter(record, id, live) ==
  IF record.event < id THEN [event |-> id, live |-> live] ELSE record
RowApplies(record, row, e, id) ==
  /\ row.event < id
  /\ e.action = "put" /\ Collection[e.uri] \in Checked =>
       /\ RecordAfter(record, id, TRUE) = [event |-> id, live |-> TRUE]
       /\ row.event > 0 => SameLinks(Collection[e.uri], row.value, e.value)
  /\ e.action # "put" =>
       /\ Collection[e.uri] \in Checked \cup Plain => row.event > 0
       /\ Collection[e.uri] \in Checked =>
            RecordAfter(record, id, FALSE) = [event |-> id, live |-> FALSE]
RowAfter(row, e, id) ==
  [event |-> id, live |-> e.action = "put",
   value |-> IF e.action = "put" THEN e.value
             ELSE IF Collection[e.uri] \in Organizations THEN row.value
             ELSE [row.value EXCEPT !.cid = None]]

\* The writes w of an event, as far as they concern records, rows and identities.
RecordWrites(l, d, w, id) ==
  LET e == l[id]
      record == d[<<"record", e.uri>>]
      row == d[<<"row", e.uri>>]
  IN  /\ \A c \in {"record", "row"}, u \in UrisOf(l) : <<c, u>> \in DOMAIN w => u = e.uri
      /\ \A u \in UrisOf(l) : <<"identity", u>> \notin DOMAIN w
      /\ <<"record", e.uri>> \in DOMAIN w <=> record.event < id
      /\ <<"record", e.uri>> \in DOMAIN w =>
           w[<<"record", e.uri>>] = [event |-> id, live |-> e.action = "put"]
      /\ <<"row", e.uri>> \in DOMAIN w <=> RowApplies(record, row, e, id)
      /\ <<"row", e.uri>> \in DOMAIN w => w[<<"row", e.uri>>] = RowAfter(row, e, id)

IdentityWrites(l, d, w, id) ==
  LET u == l[id].uri IN
  /\ \A c \in {"record", "row"}, o \in UrisOf(l) : <<c, o>> \notin DOMAIN w
  /\ \A o \in UrisOf(l) : <<"identity", o>> \in DOMAIN w => o = u
  /\ <<"identity", u>> \in DOMAIN w =>
       w[<<"identity", u>>].event = id /\ d[<<"identity", u>>].event < id

\* An event of the log is never older than nothing.
LEMMA EventId ==
  ASSUME NEW l \in Logs, NEW i \in DOMAIN l
  PROVE  i \in Nat /\ i > 0
BY LogAssumption

\* The row an event leaves has its type: a put brings the validated value, a delete keeps
\* the links and is no longer live.
LEMMA RowAfterType ==
  ASSUME NEW l \in Logs, NEW id \in DOMAIN l, Valid(l[id]), l[id].action # "identity",
         NEW row, RowOK(l, l[id].uri, row)
  PROVE  CellOK(l, "row", l[id].uri, RowAfter(row, l[id], id))
<1> DEFINE e == l[id]
           x == RowAfter(row, e, id)
<1>1. x.event = id /\ x.live = (e.action = "put")
  BY DEF RowAfter
<1>2. DOMAIN e.value = DOMAIN Blank
  BY LogAssumption
<1>3. /\ e.value.repository \in LinkOf(l) /\ e.value.subject \in LinkOf(l)
      /\ e.value.origin \in LinkOf(l)
  BY UrisOfLog DEF LinkOf
<1>4. CASE e.action = "put"
  <2>1. x.value = e.value
    BY <1>4 DEF RowAfter
  <2>2. Collection[e.uri] \in {"issueStatus", "pullStatus"} => e.value.state \in States
    BY <1>4 DEF Valid, States
  <2>3. x.live \in BOOLEAN
    BY <1>1
  <2>4. RowOK(l, e.uri, x)
    <3> HIDE DEF x, e
    <3> QED BY <2>1, <2>2, <2>3, <1>2, <1>3 DEF RowOK
  <2> QED BY <2>4, <1>1, ColumnKinds DEF CellOK, Counters
<1>5. CASE e.action # "put"
  <2>1. x.value = row.value \/ x.value = [row.value EXCEPT !.cid = None]
    BY <1>5 DEF RowAfter
  <2>2. DOMAIN x.value = DOMAIN row.value
    BY <2>1
  <2>3. /\ x.value.repository = row.value.repository
        /\ x.value.subject = row.value.subject
        /\ x.value.origin = row.value.origin
    <3>1. /\ "repository" \in DOMAIN row.value
          /\ "subject" \in DOMAIN row.value
          /\ "origin" \in DOMAIN row.value
      BY DEF RowOK, Blank
    <3> HIDE DEF x
    <3> QED BY <2>1, <3>1
  <2>4. x.live = FALSE
    BY <1>1, <1>5
  <2>5. RowOK(l, e.uri, x)
    <3> HIDE DEF x, e
    <3> QED BY <2>2, <2>3, <2>4 DEF RowOK, e
  <2> QED BY <2>5, <1>1, ColumnKinds DEF CellOK, Counters
<1> QED
  BY <1>4, <1>5

\* Writing nothing is typed.
LEMMA NoWritesTyped ==
  /\ DOMAIN NoWrites = {}
  /\ \A l : Typed(l, NoWrites)
BY DEF NoWrites, Typed

\* A transaction reads its own writes, else the committed cell.
LEMMA OverReads ==
  ASSUME NEW w, NEW d, NEW cell
  PROVE  /\ cell \in DOMAIN w => Over(w, d)[cell] = w[cell]
         /\ cell \in DOMAIN d /\ cell \notin DOMAIN w => Over(w, d)[cell] = d[cell]
BY DEF Over

\* The raw record and the row, before anything is recomputed.
LEMMA RawWrites ==
  ASSUME log \in Logs, View(log, db), NEW id \in Events, Valid(log[id]),
         log[id].action # "identity"
  PROVE  LET e == log[id]
             raw == WriteRecord(NoWrites, e.uri, id, e.action = "put")
             written == WriteRow(raw, e, id)
         IN  /\ Typed(log, raw) /\ Typed(log, written)
             /\ RecordWrites(log, db, written, id)
<1> DEFINE e == log[id]
           put == (e.action = "put")
           record == db[<<"record", e.uri>>]
           row == db[<<"row", e.uri>>]
           new == [event |-> id, live |-> put]
           raw == WriteRecord(NoWrites, e.uri, id, put)
           v == Over(raw, db)
           written == WriteRow(raw, e, id)
<1>1. e.uri \in Uris /\ id \in Nat /\ id > 0 /\ id \in DOMAIN log
  BY UrisOfLog, EventId DEF Uris, Events
<1>2. "record" \in Columns /\ "row" \in Columns
  BY DEF Columns
<1>3. <<"record", e.uri>> \in DOMAIN db /\ <<"row", e.uri>> \in DOMAIN db
  BY <1>1, <1>2, ViewCell DEF Uris
<1>4. RowOK(log, e.uri, row) /\ row.event \in (DOMAIN log) \cup {0}
  BY <1>1, ViewRow DEF Uris
<1>5. CellOK(log, "record", e.uri, [event |-> id, live |-> put])
  BY <1>1, ColumnKinds DEF CellOK, Counters, Base
<1>6. /\ record.event < id => raw = Put(NoWrites, "record", e.uri, new)
      /\ ~(record.event < id) => raw = NoWrites
  BY DEF WriteRecord
<1>7. Typed(log, raw)
  BY <1>1, <1>2, <1>5, <1>6, NoWritesTyped, PutTyped DEF Uris
<1>8. /\ DOMAIN raw = IF record.event < id THEN {<<"record", e.uri>>} ELSE {}
      /\ record.event < id => raw[<<"record", e.uri>>] = new
  <2> HIDE DEF e, record, raw, new
  <2>1. CASE record.event < id
    <3>1. /\ DOMAIN Put(NoWrites, "record", e.uri, new) = DOMAIN NoWrites \cup {<<"record", e.uri>>}
          /\ Put(NoWrites, "record", e.uri, new)[<<"record", e.uri>>] = new
      BY DEF Put
    <3>2. DOMAIN NoWrites = {}
      BY NoWritesTyped
    <3> QED BY <2>1, <3>1, <3>2, <1>6
  <2>2. CASE ~(record.event < id)
    BY <2>2, <1>6, NoWritesTyped
  <2> QED BY <2>1, <2>2
<1>9. v[<<"row", e.uri>>] = row
  <2>1. <<"row", e.uri>> \notin DOMAIN raw
    BY <1>8
  <2> QED BY <2>1, <1>3, OverReads
<1>10. v[<<"record", e.uri>>] = RecordAfter(record, id, put)
  BY <1>3, <1>8, OverReads DEF RecordAfter
<1>11. Applies(v, e, id) <=> RowApplies(record, row, e, id)
  <2> HIDE DEF v, e, record, row
  <2>1. CASE put
    <3>1. v[<<"record", e.uri>>] = RecordAfter(record, id, TRUE)
      BY <2>1, <1>10
    <3> QED BY <2>1, <3>1, <1>9 DEF Applies, Upserts, RowApplies
  <2>2. CASE ~put
    <3>1. v[<<"record", e.uri>>] = RecordAfter(record, id, FALSE)
      BY <2>2, <1>10
    <3> QED BY <2>2, <3>1, <1>9 DEF Applies, Tombstones, RowApplies
  <2> QED BY <2>1, <2>2
<1>12. /\ RowApplies(record, row, e, id) => written = Put(raw, "row", e.uri, RowAfter(row, e, id))
       /\ ~RowApplies(record, row, e, id) => written = raw
  <2>1. Value(v, e.uri) = row.value
    BY <1>9 DEF Value
  <2> HIDE DEF e, record, row, raw
  <2> QED BY <2>1, <1>11 DEF WriteRow, RowAfter, v
<1>13. CellOK(log, "row", e.uri, RowAfter(row, e, id))
  BY <1>1, <1>4, RowAfterType
<1>14. Typed(log, written)
  <2> HIDE DEF e, row, record, raw, written
  <2> QED BY <1>1, <1>2, <1>7, <1>12, <1>13, PutTyped DEF Uris
<1>15. /\ DOMAIN written \subseteq {<<"record", e.uri>>, <<"row", e.uri>>}
       /\ <<"record", e.uri>> \in DOMAIN written <=> record.event < id
       /\ <<"row", e.uri>> \in DOMAIN written <=> RowApplies(record, row, e, id)
       /\ record.event < id => written[<<"record", e.uri>>] = new
       /\ RowApplies(record, row, e, id) => written[<<"row", e.uri>>] = RowAfter(row, e, id)
  <2> HIDE DEF e, row, record, raw, written, new
  <2>1. CASE RowApplies(record, row, e, id)
    <3> DEFINE x == RowAfter(row, e, id)
               p == Put(raw, "row", e.uri, x)
    <3>1. written = p
      BY <2>1, <1>12
    <3> HIDE DEF x
    <3>2. DOMAIN p = DOMAIN raw \cup {<<"row", e.uri>>} /\ p[<<"row", e.uri>>] = x
      BY DEF Put
    <3>3. <<"record", e.uri>> \in DOMAIN raw => p[<<"record", e.uri>>] = raw[<<"record", e.uri>>]
      BY DEF Put
    <3> HIDE DEF p
    <3> QED BY <2>1, <3>1, <3>2, <3>3, <1>8 DEF x
  <2>2. CASE ~RowApplies(record, row, e, id)
    BY <2>2, <1>8, <1>12
  <2> QED BY <2>1, <2>2
<1>16. \A c, u : <<c, u>> \in DOMAIN written => c \in {"record", "row"} /\ u = e.uri
  <2> HIDE DEF e, written
  <2> QED BY <1>15
<1>17. RecordWrites(log, db, written, id)
  <2> HIDE DEF written
  <2> QED BY <1>15, <1>16 DEF RecordWrites
<1> QED
  <2> HIDE DEF written, raw
  <2> QED BY <1>7, <1>14, <1>16, <1>17 DEF written, raw

\* What was written at the source cells survives the recomputations.
LEMMA RecordWritesKept ==
  ASSUME log \in Logs, NEW id \in Events, NEW w, NEW x,
         RecordWrites(log, db, w, id), SameSources(w, x)
  PROVE  RecordWrites(log, db, x, id)
<1> DEFINE e == log[id]
           R == <<"record", e.uri>>
           S == <<"row", e.uri>>
<1>1. e.uri \in UrisOf(log)
  BY UrisOfLog DEF Events
<1>2. \A c \in {"record", "row", "identity"}, u \in UrisOf(log) :
        /\ <<c, u>> \in DOMAIN x <=> <<c, u>> \in DOMAIN w
        /\ <<c, u>> \in DOMAIN w => x[<<c, u>>] = w[<<c, u>>]
  BY DEF SameSources, Sources, Uris
<1>3. /\ R \in DOMAIN x <=> R \in DOMAIN w
      /\ S \in DOMAIN x <=> S \in DOMAIN w
      /\ R \in DOMAIN w => x[R] = w[R]
      /\ S \in DOMAIN w => x[S] = w[S]
  BY <1>1, <1>2
<1>4. /\ \A c \in {"record", "row"}, u \in UrisOf(log) : <<c, u>> \in DOMAIN x => u = e.uri
      /\ \A u \in UrisOf(log) : <<"identity", u>> \notin DOMAIN x
  BY <1>2 DEF RecordWrites
<1> QED
  BY <1>3, <1>4 DEF RecordWrites

\* Copying a handle touches no record, row or identity.
LEMMA PutHandle ==
  ASSUME NEW w, NEW u, NEW x
  PROVE  SameSources(w, Put(w, "handle", u, x))
<1> SUFFICES ASSUME NEW c \in Sources, NEW o \in Uris
             PROVE  LET p == Put(w, "handle", u, x) IN
                    /\ <<c, o>> \in DOMAIN p <=> <<c, o>> \in DOMAIN w
                    /\ <<c, o>> \in DOMAIN w => p[<<c, o>>] = w[<<c, o>>]
  BY DEF SameSources
<1>1. c # "handle"
  BY DEF Sources
<1>2. <<c, o>> # <<"handle", u>>
  BY <1>1
<1> QED
  BY <1>2 DEF Put

\* project() of a record event: its writes are typed, and at records and rows they are
\* those of its own URI.
LEMMA ProjectRecordWrites ==
  ASSUME log \in Logs, View(log, db), NEW id \in Events, Valid(log[id]),
         log[id].action # "identity"
  PROVE  /\ Typed(log, ProjectRecord(log[id], id))
         /\ RecordWrites(log, db, ProjectRecord(log[id], id), id)
<1> DEFINE e == log[id]
           c == Collection[e.uri]
           raw == WriteRecord(NoWrites, e.uri, id, e.action = "put")
           applies == Applies(Over(raw, db), e, id)
           written == WriteRow(raw, e, id)
           handled == IF applies THEN WriteProfileHandle(written, e.uri) ELSE written
           counted == Recompute(handled, {<<"repositories", e.uri>>})
           recounted == RecomputeAll(written, RepositoryTargets(e))
           followed == RecomputeAll(written, RowTargets(Over(written, db), e))
           Good(w) == Typed(log, w) /\ RecordWrites(log, db, w, id)
<1>1. e.uri \in Uris /\ id \in Events /\ e.uri \in LinkOf(log)
  BY UrisOfLog DEF Uris, Events, LinkOf
<1>2. Typed(log, written) /\ RecordWrites(log, db, written, id)
  BY RawWrites
<1> HIDE DEF raw
<1>3. Typed(log, handled) /\ SameSources(written, handled)
  <2> DEFINE identity == db[<<"identity", e.uri>>]
             own == db[<<"handle", e.uri>>]
             x == [handle |-> IF identity.handle = None THEN own.handle ELSE identity.handle,
                   event  |-> IF identity.event = 0 THEN own.event ELSE identity.event]
  <2>1. identity.event \in (DOMAIN log) \cup {0} /\ own.event \in (DOMAIN log) \cup {0}
    <3>1. "identity" \in Columns /\ "handle" \in Columns
      BY DEF Columns
    <3>2. CellOK(log, "identity", e.uri, identity) /\ CellOK(log, "handle", e.uri, own)
      BY <1>1, <3>1, ViewCell DEF Uris
    <3> QED BY <3>2, ColumnKinds DEF CellOK
  <2>2. x.event \in (DOMAIN log) \cup {0}
    BY <2>1
  <2>3. WriteProfileHandle(written, e.uri) = Put(written, "handle", e.uri, x)
    BY DEF WriteProfileHandle
  <2> HIDE DEF x, written, e
  <2>4. CellOK(log, "handle", e.uri, x) /\ "handle" \in Columns
    BY <2>2 DEF CellOK, Counters, Columns, Base
  <2>5. Typed(log, Put(written, "handle", e.uri, x))
    BY <1>1, <1>2, <2>4, PutTyped DEF Uris
  <2>6. SameSources(written, Put(written, "handle", e.uri, x))
    BY PutHandle
  <2>7. SameSources(written, written)
    BY DEF SameSources
  <2> QED BY <1>2, <2>3, <2>5, <2>6, <2>7
<1> HIDE DEF handled, written, applies
<1>4. Good(counted)
  <2> DEFINE targets == {<<"repositories", e.uri>>}
  <2>1. targets \subseteq Derived \X LinkOf(log)
    BY <1>1, DerivedColumns
  <2> HIDE DEF targets
  <2>2. Typed(log, Recompute(handled, targets)) /\ SameSources(handled, Recompute(handled, targets))
    BY <1>3, <2>1, RecomputeWrites
  <2>3. Typed(log, counted) /\ SameSources(handled, counted)
    BY <2>2 DEF targets
  <2> HIDE DEF counted
  <2> QED BY <1>1, <1>2, <1>3, <2>3, SameSourcesTransitive, RecordWritesKept
<1>5. Good(recounted)
  <2>1. RepositoryTargets(e) \subseteq Derived \X LinkOf(log)
    BY RepositoryTargetsType
  <2>2. Typed(log, recounted) /\ SameSources(written, recounted)
    BY <1>2, <2>1, RecomputeAllWrites
  <2> HIDE DEF recounted
  <2> QED BY <1>1, <1>2, <2>2, RecordWritesKept
<1>6. Good(followed)
  <2>1. View(log, Over(written, db))
    BY <1>2, OverView
  <2>2. RowTargets(Over(written, db), e) \subseteq Derived \X LinkOf(log)
    BY <2>1, RowTargetsType
  <2>3. Typed(log, followed) /\ SameSources(written, followed)
    BY <1>2, <2>2, RecomputeAllWrites
  <2> HIDE DEF followed
  <2> QED BY <1>1, <1>2, <2>3, RecordWritesKept
<1>7. Good(written)
  BY <1>2
<1>8. ProjectRecord(e, id) =
        CASE c = "profile" -> IF e.action = "put" THEN counted ELSE written
          [] c = "repository" -> recounted
          [] c \in Checked /\ applies -> followed
          [] OTHER -> written
  BY DEF ProjectRecord, counted, recounted, followed, handled, written, applies, raw
<1> HIDE DEF counted, recounted, followed
<1>9. Good(ProjectRecord(e, id))
  <2> HIDE DEF Good
  <2> QED BY <1>4, <1>5, <1>6, <1>7, <1>8
<1> QED
  BY <1>9

\* project() of an identity event: typed writes, a newer identity of its own URI at most.
LEMMA ProjectIdentityWrites ==
  ASSUME log \in Logs, View(log, db), NEW id \in Events
  PROVE  /\ Typed(log, ProjectIdentity(log[id], id))
         /\ IdentityWrites(log, db, ProjectIdentity(log[id], id), id)
<1> DEFINE e == log[id]
           u == e.uri
           new == [event |-> id, handle |-> e.value.state]
           I == <<"identity", u>>
           w == IF db[I].event < id THEN Put(NoWrites, "identity", u, new) ELSE NoWrites
           p == ProjectIdentity(e, id)
<1>1. u \in UrisOf(log) /\ id \in DOMAIN log
  BY UrisOfLog DEF Events
<1>2. /\ CellOK(log, "identity", u, new) /\ CellOK(log, "handle", u, new)
      /\ "identity" \in Columns /\ "handle" \in Columns
  BY <1>1 DEF CellOK, Counters, Columns, Base
<1> HIDE DEF u
<1>3. p = w \/ p = Put(w, "handle", u, new)
  BY DEF ProjectIdentity, u
<1>4. new.event = id
  OBVIOUS
<1> HIDE DEF new, p
<1>5. Typed(log, w)
  BY <1>1, <1>2, NoWritesTyped, PutTyped
<1>6. /\ DOMAIN w \subseteq {I}
      /\ I \in DOMAIN w => w[I] = new /\ db[I].event < id
  <2>1. DOMAIN NoWrites = {}
    BY NoWritesTyped
  <2> QED BY <2>1 DEF Put
<1> HIDE DEF w
<1>7. Typed(log, p)
  BY <1>1, <1>2, <1>3, <1>5, PutTyped
<1>8. /\ DOMAIN p \subseteq {I, <<"handle", u>>}
      /\ I \in DOMAIN p => p[I] = new /\ db[I].event < id
  <2>1. CASE p = w
    BY <2>1, <1>6
  <2>2. CASE p = Put(w, "handle", u, new)
    <3>1. DOMAIN p = DOMAIN w \cup {<<"handle", u>>} /\ (I \in DOMAIN w => p[I] = w[I])
      BY <2>2 DEF Put
    <3> QED BY <3>1, <1>6
  <2> QED BY <2>1, <2>2, <1>3
<1>9. IdentityWrites(log, db, p, id)
  BY <1>4, <1>8 DEF IdentityWrites, u
<1> QED
  BY <1>7, <1>9 DEF p

(***************************************************************************)
(* The order of the locks.                                                 *)
(***************************************************************************)
\* A set of naturals has a least element.
LEMMA LeastNat ==
  ASSUME NEW S, S \subseteq Nat, S # {}
  PROVE  \E m \in S : \A n \in S : m <= n
<1>1. PICK R : R = OpToRel(<, Nat)
  OBVIOUS
<1>2. IsWellFoundedOn(R, Nat)
  BY <1>1, NatLessThanWellFounded
<1>3. PICK m \in S : \A n \in S : ~(<<n, m>> \in R)
  BY <1>2, WFMin
<1>4. \A n \in S : ~(n < m)
  BY <1>1, <1>3 DEF OpToRel
<1> QED
  BY <1>3, <1>4

Kinds == {"issue", "issues", "pull", "pulls", "stars", "forks"}
Ordinary(l) == Kinds \X UrisOf(l)
KindsOf(s) ==
  CASE s = 1 -> {"issue", "issues"} [] s = 2 -> {"pull", "pulls"} [] s = 3 -> {"stars"}
    [] OTHER -> {"forks"}
\* The locks a stage may take.
StageLocks(l, s) == KindsOf(s) \X UrisOf(l)
Top(s) == CASE s = 1 -> 2 [] s = 2 -> 4 [] s = 3 -> 5 [] OTHER -> 6
Precedes(a, b) ==
  \/ LockRank[a[1]] < LockRank[b[1]]
  \/ a[1] = b[1] /\ Rank[a[2]] < Rank[b[2]]

\* The kinds of locks have different ranks.
LEMMA KindRank ==
  /\ \A k \in Kinds : LockRank[k] \in Nat
  /\ \A k, m \in Kinds : LockRank[k] = LockRank[m] => k = m
BY DEF Kinds, LockRank

\* The locks of a stage rank above those of every earlier stage.
LEMMA StageRanks ==
  ASSUME NEW l, NEW s \in 1 .. 4, NEW x \in StageLocks(l, s)
  PROVE  /\ LockRank[x[1]] \in Nat /\ LockRank[x[1]] <= Top(s)
         /\ \A n \in 1 .. 4 : n < s => Top(n) < LockRank[x[1]]
         /\ x \in Ordinary(l)
<1>1. CASE s = 1
  BY <1>1 DEF StageLocks, KindsOf, Top, LockRank, Ordinary, Kinds
<1>2. CASE s = 2
  BY <1>2 DEF StageLocks, KindsOf, Top, LockRank, Ordinary, Kinds
<1>3. CASE s = 3
  BY <1>3 DEF StageLocks, KindsOf, Top, LockRank, Ordinary, Kinds
<1>4. CASE s = 4
  BY <1>4 DEF StageLocks, KindsOf, Top, LockRank, Ordinary, Kinds
<1> QED
  BY <1>1, <1>2, <1>3, <1>4

\* The locks on URIs are ranked by kind and by URI.
LEMMA OrdinaryRank ==
  ASSUME NEW l \in Logs, NEW a \in Ordinary(l)
  PROVE  /\ a[1] \in Kinds /\ a[2] \in Names /\ a = <<a[1], a[2]>>
         /\ LockRank[a[1]] \in Nat /\ Rank[a[2]] \in Nat
BY KindRank, RankAssumption, UrisOfLog DEF Ordinary

\* The order is asymmetric: no two locks come before each other.
LEMMA PrecedesAsymmetric ==
  ASSUME NEW l \in Logs, NEW a \in Ordinary(l), NEW b \in Ordinary(l),
         Precedes(a, b), Precedes(b, a)
  PROVE  FALSE
<1>1. /\ LockRank[a[1]] \in Nat /\ Rank[a[2]] \in Nat
      /\ LockRank[b[1]] \in Nat /\ Rank[b[2]] \in Nat
  BY OrdinaryRank
<1> QED
  BY <1>1 DEF Precedes

\* sortedKeys: a set of locks to take has a first one.
LEMMA FirstLock ==
  ASSUME NEW l \in Logs, NEW S, S \subseteq Ordinary(l), S # {}
  PROVE  First(S) \in S /\ \A o \in S \ {First(S)} : Precedes(First(S), o)
<1> DEFINE K == {LockRank[x[1]] : x \in S}
<1>1. K \subseteq Nat /\ K # {}
  BY OrdinaryRank
<1>2. PICK k \in K : \A n \in K : k <= n
  <2> HIDE DEF K
  <2> QED BY <1>1, LeastNat
<1> DEFINE T == {x \in S : LockRank[x[1]] = k}
           R == {Rank[x[2]] : x \in T}
<1>3. R \subseteq Nat /\ R # {}
  BY OrdinaryRank
<1>4. PICK r \in R : \A n \in R : r <= n
  <2> HIDE DEF R
  <2> QED BY <1>3, LeastNat
<1>5. PICK x \in S : LockRank[x[1]] = k /\ Rank[x[2]] = r
  BY <1>4
<1>6. ASSUME NEW o \in S \ {x}
      PROVE  Precedes(x, o)
  <2>1. /\ o[1] \in Kinds /\ x[1] \in Kinds /\ o[2] \in Names /\ x[2] \in Names
        /\ o = <<o[1], o[2]>> /\ x = <<x[1], x[2]>>
    BY <1>6, OrdinaryRank
  <2>2. /\ LockRank[o[1]] \in Nat /\ Rank[o[2]] \in Nat
        /\ LockRank[x[1]] \in Nat /\ Rank[x[2]] \in Nat
    BY <1>6, OrdinaryRank
  <2>3. CASE LockRank[o[1]] # k
    <3>1. k <= LockRank[o[1]]
      BY <1>2
    <3> QED BY <2>2, <2>3, <3>1, <1>5 DEF Precedes
  <2>4. CASE LockRank[o[1]] = k
    <3>1. o[1] = x[1]
      BY <2>1, <2>4, <1>5, KindRank
    <3>2. r <= Rank[o[2]]
      BY <2>4, <1>4, <1>6
    <3>3. Rank[o[2]] # r
      BY <2>1, <3>1, <1>5, <1>6, RankAssumption
    <3> QED BY <2>2, <3>1, <3>2, <3>3, <1>5 DEF Precedes
  <2> QED BY <2>3, <2>4
<1>7. \E y \in S : \A o \in S \ {y} : \/ LockRank[y[1]] < LockRank[o[1]]
                                      \/ y[1] = o[1] /\ Rank[y[2]] < Rank[o[2]]
  BY <1>6 DEF Precedes
<1> HIDE DEF K, T, R
<1> QED
  BY <1>7 DEF First, Precedes

\* Locks on links are locks on URIs: NULL is not locked.
LEMMA LocksIn ==
  ASSUME NEW k, NEW U, U \subseteq LinkOf(log)
  PROVE  Locks(k, U) \subseteq {k} \X UrisOf(log)
BY DEF Locks, LinkOf

\* The repositories of rows are URIs of the log, or NULL.
LEMMA OfLinks ==
  ASSUME View(log, db), NEW U, U \subseteq LinkOf(log)
  PROVE  Of(U) \subseteq LinkOf(log)
<1> SUFFICES ASSUME NEW u \in U \ {None} PROVE Value(db, u).repository \in LinkOf(log)
  BY DEF Of
<1>1. u \in Uris
  BY DEF LinkOf, Uris
<1> QED
  BY <1>1, ViewLinks

\* Each lock function takes locks of its own kinds on URIs of the log.
LEMMA StagesType ==
  ASSUME log \in Logs, View(log, db), NEW id \in Events, NEW s \in 1 .. 4
  PROVE  LockStages(log[id])[s] \subseteq StageLocks(log, s)
<1> DEFINE e == log[id]
           U == UrisOf(log)
           row == Value(db, e.uri)
<1>1. /\ e.uri \in Uris /\ e.uri \in LinkOf(log) /\ None \in LinkOf(log)
      /\ e.value.repository \in LinkOf(log) /\ e.value.subject \in LinkOf(log)
      /\ e.value.origin \in LinkOf(log)
  BY UrisOfLog DEF Uris, Events, LinkOf
<1>2. row.repository \in LinkOf(log) /\ row.subject \in LinkOf(log) /\ row.origin \in LinkOf(log)
  BY <1>1, ViewLinks
<1>3. ChildIssues(db, e.uri) \subseteq LinkOf(log)
  BY RowsSubset, ViewLinks DEF ChildIssues
<1>4. AllPulls(db, e.uri) \subseteq LinkOf(log)
  BY DEF AllPulls, OfCollection, LinkOf, Uris
<1> HIDE DEF e, U
<1>5. IssueLocks(e) \subseteq {"issue", "issues"} \X U
  <2>1. \A k \in {"issue", "issues"}, S \in SUBSET LinkOf(log) :
          Locks(k, S) \subseteq {"issue", "issues"} \X U
    BY LocksIn DEF U
  <2>2. Collection[e.uri] = "repository" => IssueLocks(e) \subseteq {"issue", "issues"} \X U
    BY <1>1, <2>1 DEF IssueLocks
  <2>3. Collection[e.uri] = "issue" => IssueLocks(e) \subseteq {"issue", "issues"} \X U
    <3> DEFINE A == IF e.action = "put" THEN {e.uri} ELSE {}
               B == {row.repository, e.value.repository}
    <3>1. A \in SUBSET LinkOf(log) /\ B \in SUBSET LinkOf(log)
      BY <1>1, <1>2
    <3>2. Collection[e.uri] = "issue" => IssueLocks(e) = Locks("issue", A) \cup Locks("issues", B)
      BY DEF IssueLocks
    <3> HIDE DEF A, B
    <3> QED BY <2>1, <3>1, <3>2
  <2>4. Collection[e.uri] = "issueStatus" => IssueLocks(e) \subseteq {"issue", "issues"} \X U
    <3> DEFINE A == {e.value.subject}
               C == {e.value.subject, row.subject}
               B == {e.value.repository, row.repository} \cup Of(C)
    <3>1. A \in SUBSET LinkOf(log) /\ C \subseteq LinkOf(log)
      BY <1>1, <1>2
    <3>2. Collection[e.uri] = "issueStatus" =>
            IssueLocks(e) = Locks("issue", A) \cup Locks("issues", B)
      BY DEF IssueLocks
    <3> HIDE DEF A, C
    <3>3. B \in SUBSET LinkOf(log)
      BY <1>1, <1>2, <3>1, OfLinks
    <3> HIDE DEF B
    <3> QED BY <2>1, <3>1, <3>2, <3>3
  <2>5. Collection[e.uri] = "comment" => IssueLocks(e) \subseteq {"issue", "issues"} \X U
    <3> DEFINE A == {e.value.subject, row.subject} \cup ChildIssues(db, e.uri)
    <3>1. A \in SUBSET LinkOf(log)
      BY <1>1, <1>2, <1>3
    <3>2. Collection[e.uri] = "comment" => IssueLocks(e) = Locks("issue", A)
      BY DEF IssueLocks
    <3> HIDE DEF A
    <3> QED BY <2>1, <3>1, <3>2
  <2>6. Collection[e.uri] \notin {"repository", "issue", "issueStatus", "comment"}
          => IssueLocks(e) = {}
    BY DEF IssueLocks
  <2> QED BY <2>2, <2>3, <2>4, <2>5, <2>6
<1>6. PullLocks(e) \subseteq {"pull", "pulls"} \X U
  <2>1. \A k \in {"pull", "pulls"}, S \in SUBSET LinkOf(log) :
          Locks(k, S) \subseteq {"pull", "pulls"} \X U
    BY LocksIn DEF U
  <2>2. Collection[e.uri] = "repository" => PullLocks(e) \subseteq {"pull", "pulls"} \X U
    <3> DEFINE A == AllPulls(db, e.uri)
               B == {e.uri}
    <3>1. A \in SUBSET LinkOf(log) /\ B \in SUBSET LinkOf(log)
      BY <1>1, <1>4
    <3>2. Collection[e.uri] = "repository" => PullLocks(e) = Locks("pull", A) \cup Locks("pulls", B)
      BY DEF PullLocks
    <3> HIDE DEF A, B
    <3> QED BY <2>1, <3>1, <3>2
  <2>3. Collection[e.uri] = "pull" => PullLocks(e) \subseteq {"pull", "pulls"} \X U
    <3> DEFINE A == IF e.action = "put" \/ Exists(db, e.uri) THEN {e.uri} ELSE {}
               B == {e.value.repository, row.repository}
    <3>1. A \in SUBSET LinkOf(log) /\ B \in SUBSET LinkOf(log)
      BY <1>1, <1>2
    <3>2. Collection[e.uri] = "pull" => PullLocks(e) = Locks("pull", A) \cup Locks("pulls", B)
      BY DEF PullLocks
    <3> HIDE DEF A, B
    <3> QED BY <2>1, <3>1, <3>2
  <2>4. Collection[e.uri] = "pullStatus" => PullLocks(e) \subseteq {"pull", "pulls"} \X U
    <3> DEFINE A == {e.value.subject, row.subject}
               B == {e.value.repository, row.repository}
    <3>1. A \in SUBSET LinkOf(log) /\ B \in SUBSET LinkOf(log)
      BY <1>1, <1>2
    <3>2. Collection[e.uri] = "pullStatus" => PullLocks(e) = Locks("pull", A) \cup Locks("pulls", B)
      BY DEF PullLocks
    <3> HIDE DEF A, B
    <3> QED BY <2>1, <3>1, <3>2
  <2>5. Collection[e.uri] = "review" => PullLocks(e) \subseteq {"pull", "pulls"} \X U
    <3> DEFINE A == {e.value.subject, row.subject}
    <3>1. A \in SUBSET LinkOf(log)
      BY <1>1, <1>2
    <3>2. Collection[e.uri] = "review" => PullLocks(e) = Locks("pull", A)
      BY DEF PullLocks
    <3> HIDE DEF A
    <3> QED BY <2>1, <3>1, <3>2
  <2>6. Collection[e.uri] \notin {"repository", "pull", "pullStatus", "review"} => PullLocks(e) = {}
    BY DEF PullLocks
  <2> QED BY <2>2, <2>3, <2>4, <2>5, <2>6
<1>7. StarLocks(e) \subseteq {"stars"} \X U
  <2> DEFINE A == {e.uri}
             B == {IF e.action = "put" THEN e.value.repository ELSE row.repository}
  <2>1. A \subseteq LinkOf(log) /\ B \subseteq LinkOf(log)
    BY <1>1, <1>2
  <2>2. StarLocks(e) = Locks("stars", A) \/ StarLocks(e) = Locks("stars", B) \/ StarLocks(e) = {}
    BY DEF StarLocks
  <2> HIDE DEF A, B
  <2> QED BY <2>1, <2>2, LocksIn DEF U
<1>8. ForkLocks(e) \subseteq {"forks"} \X U
  <2> DEFINE A == {e.uri, ForkSource(db, e.uri), e.value.origin}
  <2>1. A \subseteq LinkOf(log)
    BY <1>1, <1>2 DEF ForkSource
  <2>2. ForkLocks(e) = Locks("forks", A) \/ ForkLocks(e) = {}
    BY DEF ForkLocks
  <2> HIDE DEF A
  <2> QED BY <2>1, <2>2, LocksIn DEF U
<1>10. /\ LockStages(e)[1] = IssueLocks(e) /\ LockStages(e)[2] = PullLocks(e)
       /\ LockStages(e)[3] = StarLocks(e) /\ LockStages(e)[4] = ForkLocks(e)
  BY DEF LockStages
<1>11. /\ StageLocks(log, 1) = {"issue", "issues"} \X U
       /\ StageLocks(log, 2) = {"pull", "pulls"} \X U
       /\ StageLocks(log, 3) = {"stars"} \X U /\ StageLocks(log, 4) = {"forks"} \X U
  BY DEF StageLocks, KindsOf, U
<1>12. s = 1 \/ s = 2 \/ s = 3 \/ s = 4
  OBVIOUS
<1> QED
  BY <1>5, <1>6, <1>7, <1>8, <1>10, <1>11, <1>12 DEF e

\* The lock that follows another is of the same stage and comes later.
LEMMA FollowType ==
  ASSUME log \in Logs, View(log, db), NEW s \in 1 .. 4, NEW a \in StageLocks(log, s)
  PROVE  /\ Follow(a) \subseteq StageLocks(log, s)
         /\ \A x \in Follow(a) : LockRank[a[1]] < LockRank[x[1]]
<1> DEFINE A == {a[2]}
<1>1. a[1] \in KindsOf(s) /\ a[2] \in UrisOf(log)
  BY DEF StageLocks
<1>2. A \subseteq LinkOf(log)
  BY <1>1 DEF LinkOf
<1> HIDE DEF A
<1>3. Of(A) \subseteq LinkOf(log)
  BY <1>2, OfLinks
<1> DEFINE B == Of(A)
<1> HIDE DEF B
<1>4. /\ Locks("issues", B) \subseteq {"issues"} \X UrisOf(log)
      /\ Locks("pulls", B) \subseteq {"pulls"} \X UrisOf(log)
  BY <1>3, LocksIn DEF B
<1>5. /\ a[1] = "issue" => Follow(a) = Locks("issues", B)
      /\ a[1] = "pull" => Follow(a) = Locks("pulls", B)
      /\ a[1] \notin {"issue", "pull"} => Follow(a) = {}
  BY DEF Follow, B, A
<1>6. CASE a[1] = "issue"
  <2>1. s = 1
    BY <1>1, <1>6 DEF KindsOf
  <2> QED BY <2>1, <1>4, <1>5, <1>6 DEF StageLocks, KindsOf, LockRank
<1>7. CASE a[1] = "pull"
  <2>1. s = 2
    BY <1>1, <1>7 DEF KindsOf
  <2> QED BY <2>1, <1>4, <1>5, <1>7 DEF StageLocks, KindsOf, LockRank
<1>8. CASE a[1] \notin {"issue", "pull"}
  BY <1>5, <1>8
<1> QED
  BY <1>6, <1>7, <1>8

\* Advance stays while there are locks to take, and else goes to the next stage that has
\* any, or is ready.
AdvancesTo(e, s, todo, a) ==
  \/ todo # {} /\ a.stage = s /\ a.todo = todo
  \/ todo = {} /\ a.stage = Ready /\ a.todo = {}
  \/ /\ todo = {} /\ a.stage \in 1 .. 4 /\ s < a.stage
     /\ a.todo = LockStages(e)[a.stage] /\ a.todo # {}
LEMMA AdvanceCases ==
  ASSUME NEW e, NEW s \in 0 .. 4, NEW todo
  PROVE  AdvancesTo(e, s, todo, Advance(e, s, todo))
<1> DEFINE more == {n \in s + 1 .. 4 : LockStages(e)[n] # {}}
           next == CHOOSE n \in more : \A o \in more : n <= o
<1>1. CASE todo # {}
  BY <1>1 DEF Advance, AdvancesTo
<1>2. CASE todo = {} /\ more = {}
  BY <1>2 DEF Advance, AdvancesTo
<1>3. CASE todo = {} /\ more # {}
  <2>1. more \subseteq Nat
    OBVIOUS
  <2>2. \E n \in more : \A o \in more : n <= o
    <3> HIDE DEF more
    <3> QED BY <1>3, <2>1, LeastNat
  <2>3. next \in more
    <3> HIDE DEF more
    <3> QED BY <2>2
  <2>4. Advance(e, s, todo) = [stage |-> next, todo |-> LockStages(e)[next]]
    BY <1>3 DEF Advance
  <2>5. next \in 1 .. 4 /\ s < next /\ LockStages(e)[next] # {}
    <3> HIDE DEF next
    <3> QED BY <2>3
  <2> HIDE DEF next
  <2> QED BY <1>3, <2>4, <2>5 DEF AdvancesTo
<1> QED
  BY <1>1, <1>2, <1>3

(***************************************************************************)
(* The type invariant.                                                     *)
(***************************************************************************)
TxnOK(l, x) ==
  /\ DOMAIN x = {"event", "stage", "todo", "held", "pending"}
  /\ x.event \in (DOMAIN l) \cup {0}
  /\ x.stage \in 0 .. 8
  /\ x.stage < 5 <=> (x.todo # {} \/ x.event = 0)
  /\ Typed(l, x.pending)
  /\ x.event # 0 => x.stage # 0
  /\ x.event # 0 /\ x.stage < 8 => Valid(l[x.event])
  /\ x.event # 0 /\ x.stage \in {6, 7} => l[x.event].action # "identity"

TypeInv ==
  /\ log \in Logs
  /\ receipts \subseteq DOMAIN log
  /\ cursor \in (DOMAIN log) \cup {0}
  /\ View(log, db)
  /\ DOMAIN txn = Transactions
  /\ \A t \in Transactions : TxnOK(log, txn[t])
  /\ aborts \in 0 .. MaxAborts

\* An idle handler is well typed and holds nothing.
LEMMA IdleOK ==
  ASSUME NEW l
  PROVE  TxnOK(l, Idle) /\ Idle.event = 0 /\ Idle.todo = {} /\ Idle.held = {} /\ Idle.stage = 0
BY NoWritesTyped DEF TxnOK, Idle

\* A column's default has its type.
LEMMA DefaultType ==
  ASSUME NEW l, NEW c \in Columns, NEW u
  PROVE  CellOK(l, c, u, Default(c))
<1>1. CASE c = "row"
  <2>1. RowOK(l, u, NoRow) /\ NoRow.event = 0
    BY DEF RowOK, NoRow, Blank, LinkOf
  <2>2. Default(c) = NoRow
    BY <1>1 DEF Default
  <2> QED BY <1>1, <2>1, <2>2 DEF CellOK, Counters
<1>2. CASE c = "record"
  BY <1>2 DEF Default, CellOK, Counters
<1>3. CASE c \in {"identity", "handle"}
  BY <1>3 DEF Default, CellOK, Counters
<1>4. CASE c = "state"
  BY <1>4 DEF Default, CellOK, Counters, Base, States
<1>5. CASE c \in Counters
  <2>1. Default(c) = 0
    BY <1>5 DEF Default, Counters
  <2> QED BY <1>5, <2>1, ColumnKinds DEF CellOK
<1> QED
  BY <1>1, <1>2, <1>3, <1>4, <1>5 DEF Columns

\* The empty database is a view.
LEMMA InitDb ==
  ASSUME Init
  PROVE  View(log, db)
<1>1. DOMAIN db = Cells(log)
  BY DEF Init
<1>2. ASSUME NEW c \in Columns, NEW u \in UrisOf(log)
      PROVE  CellOK(log, c, u, db[<<c, u>>])
  <2>1. <<c, u>> \in Cells(log)
    BY DEF Cells
  <2>2. db[<<c, u>>] = Default(c)
    BY <2>1 DEF Init
  <2> QED BY <2>2, DefaultType
<1> QED
  BY <1>1, <1>2 DEF View, Typed

\* The type invariant holds initially.
LEMMA TypeInit ==
  ASSUME Init
  PROVE  TypeInv
<1>1. View(log, db)
  BY InitDb
<1>2. \A t \in Transactions : TxnOK(log, txn[t])
  BY IdleOK DEF Init
<1> QED
  BY <1>1, <1>2, BoundAssumption DEF Init, TypeInv

\* Only the row of t in the table of transactions changes.
Frame(t) ==
  /\ DOMAIN txn' = Transactions
  /\ \A o \in Transactions \ {t} : txn'[o] = txn[o]

\* What Begin leaves of the transaction.
LEMMA BeginStep ==
  ASSUME TypeInv, NEW t \in Transactions, NEW id \in Events, Begin(t, id)
  PROVE  LET x == txn'[t] IN
         /\ Frame(t)
         /\ DOMAIN x = {"event", "stage", "todo", "held", "pending"}
         /\ x.event = id /\ x.held = {} /\ x.pending = NoWrites
         /\ \/ ~Valid(log[id]) /\ x.stage = 8 /\ x.todo = {}
            \/ Valid(log[id]) /\ x.stage = 5 /\ x.todo = {}
            \/ /\ Valid(log[id]) /\ x.stage \in 1 .. 4 /\ x.todo # {}
               /\ x.todo = LockStages(log[id])[x.stage]
<1> DEFINE e == log[id]
           first == IF ~Valid(e) THEN [stage |-> Committing, todo |-> {}]
                    ELSE IF e.action = "identity" THEN [stage |-> Ready, todo |-> {}]
                    ELSE Advance(e, 0, {})
           x == [Idle EXCEPT !.event = id, !.stage = first.stage, !.todo = first.todo]
<1>1. txn' = [txn EXCEPT ![t] = x]
  BY DEF Begin
<1>2. /\ DOMAIN x = {"event", "stage", "todo", "held", "pending"}
      /\ x.event = id /\ x.held = {} /\ x.pending = NoWrites
      /\ x.stage = first.stage /\ x.todo = first.todo
  BY DEF Idle
<1>3. \/ ~Valid(e) /\ first.stage = 8 /\ first.todo = {}
      \/ Valid(e) /\ first.stage = 5 /\ first.todo = {}
      \/ /\ Valid(e) /\ first.stage \in 1 .. 4 /\ first.todo # {}
         /\ first.todo = LockStages(e)[first.stage]
  <2> HIDE DEF e
  <2>1. CASE ~Valid(e)
    BY <2>1 DEF Committing
  <2>2. CASE Valid(e) /\ e.action = "identity"
    BY <2>2 DEF Ready
  <2>3. CASE Valid(e) /\ e.action # "identity"
    <3> DEFINE a == Advance(e, 0, {})
    <3>1. \/ a.stage = Ready /\ a.todo = {}
          \/ a.stage \in 1 .. 4 /\ a.todo = LockStages(e)[a.stage] /\ a.todo # {}
      <4>1. AdvancesTo(e, 0, {}, a)
        BY AdvanceCases
      <4> HIDE DEF a
      <4> QED BY <4>1 DEF AdvancesTo
    <3> HIDE DEF a
    <3>2. first = a
      BY <2>3 DEF a
    <3> QED BY <2>3, <3>1, <3>2 DEF Ready
  <2> QED BY <2>1, <2>2, <2>3
<1> HIDE DEF x, first
<1>4. Frame(t) /\ txn'[t] = x
  BY <1>1 DEF TypeInv, Frame
<1> QED
  BY <1>2, <1>3, <1>4

\* What Acquire leaves of the transaction.
LEMMA AcquireStep ==
  ASSUME TypeInv, NEW t \in Transactions, Acquire(t)
  PROVE  LET x == txn'[t]
             l == First(txn[t].todo)
             rest == (txn[t].todo \cup Follow(l)) \ {l}
         IN
         /\ Frame(t)
         /\ DOMAIN x = {"event", "stage", "todo", "held", "pending"}
         /\ x.event = txn[t].event /\ x.pending = txn[t].pending
         /\ x.held = txn[t].held \cup {l}
         /\ txn[t].event \in Events /\ Valid(log[txn[t].event])
         /\ txn[t].todo # {} /\ txn[t].stage \in 1 .. 4
         /\ \/ rest # {} /\ x.stage = txn[t].stage /\ x.todo = rest
            \/ rest = {} /\ x.stage = 5 /\ x.todo = {}
            \/ /\ rest = {} /\ x.stage \in 1 .. 4 /\ txn[t].stage < x.stage
               /\ x.todo # {} /\ x.todo = LockStages(log[txn[t].event])[x.stage]
<1> DEFINE y == txn[t]
           l == First(y.todo)
           rest == (y.todo \cup Follow(l)) \ {l}
           a == Advance(log[y.event], y.stage, rest)
           x == [y EXCEPT !.held = @ \cup {l}, !.stage = a.stage, !.todo = a.todo]
<1>1. TxnOK(log, y) /\ y.event # 0 /\ y.stage < 5
  BY DEF Acquire, TypeInv, Busy, Ready
<1>2. txn' = [txn EXCEPT ![t] = x]
  BY DEF Acquire, TypeInv
<1>3. Frame(t) /\ txn'[t] = x
  <2> HIDE DEF x
  <2> QED BY <1>2 DEF TypeInv, Frame
<1> HIDE DEF y
<1>4. DOMAIN y = {"event", "stage", "todo", "held", "pending"}
  BY <1>1 DEF TxnOK
<1>5. /\ DOMAIN x = {"event", "stage", "todo", "held", "pending"}
      /\ x.event = y.event /\ x.pending = y.pending /\ x.held = y.held \cup {l}
      /\ x.stage = a.stage /\ x.todo = a.todo
  <2> HIDE DEF a, l
  <2> QED BY <1>4
<1>6. y.event \in Events /\ Valid(log[y.event]) /\ y.todo # {} /\ y.stage \in 1 .. 4
  BY <1>1 DEF TxnOK, Events
<1>7. \/ rest # {} /\ a.stage = y.stage /\ a.todo = rest
      \/ rest = {} /\ a.stage = 5 /\ a.todo = {}
      \/ /\ rest = {} /\ a.stage \in 1 .. 4 /\ y.stage < a.stage
         /\ a.todo # {} /\ a.todo = LockStages(log[y.event])[a.stage]
  <2> HIDE DEF rest
  <2>1. y.stage \in 0 .. 4
    BY <1>6
  <2>2. AdvancesTo(log[y.event], y.stage, rest, a)
    BY <2>1, AdvanceCases
  <2> HIDE DEF a
  <2> QED BY <2>2 DEF AdvancesTo, Ready
<1> HIDE DEF x, a
<1> QED
  BY <1>3, <1>5, <1>6, <1>7 DEF y

\* What Project leaves of the transaction.
LEMMA ProjectStep ==
  ASSUME TypeInv, NEW t \in Transactions, Project(t)
  PROVE  LET x == txn'[t]
             id == txn[t].event
         IN
         /\ Frame(t)
         /\ DOMAIN x = {"event", "stage", "todo", "held", "pending"}
         /\ x.event = id /\ x.stage \in {6, 8} /\ x.todo = {}
         /\ x.stage = 6 => log[id].action # "identity"
         /\ id \in Events /\ Valid(log[id])
         /\ Typed(log, x.pending)
         /\ log[id].action = "identity" => IdentityWrites(log, db, x.pending, id)
         /\ log[id].action # "identity" => RecordWrites(log, db, x.pending, id)
<1> DEFINE y == txn[t]
           id == y.event
           e == log[id]
           p == IF e.action # "identity" THEN ProjectRecord(e, id) ELSE ProjectIdentity(e, id)
           s == IF e.action # "identity" /\ Reconciles(db, e) THEN Waiting ELSE Committing
           x == [y EXCEPT !.stage = s, !.pending = p]
<1>1. TxnOK(log, y) /\ y.event # 0 /\ y.stage = 5
  BY DEF Project, TypeInv, Busy, Ready
<1>2. txn' = [txn EXCEPT ![t] = x]
  BY DEF Project, TypeInv
<1>3. Frame(t) /\ txn'[t] = x
  <2> HIDE DEF x
  <2> QED BY <1>2 DEF TypeInv, Frame
<1> HIDE DEF y
<1>4. DOMAIN y = {"event", "stage", "todo", "held", "pending"}
  BY <1>1 DEF TxnOK
<1>5. /\ DOMAIN x = {"event", "stage", "todo", "held", "pending"}
      /\ x.event = y.event /\ x.todo = y.todo /\ x.pending = p /\ x.stage = s
  <2> HIDE DEF p, s
  <2> QED BY <1>4
<1>10. s \in {6, 8} /\ (s = 6 => e.action # "identity")
  BY DEF Waiting, Committing
<1> HIDE DEF s
<1>6. id \in Events /\ Valid(log[id]) /\ y.todo = {}
  BY <1>1 DEF TxnOK, Events
<1>7. log \in Logs /\ View(log, db)
  BY DEF TypeInv
<1>8. CASE e.action = "identity"
  <2>1. p = ProjectIdentity(log[id], id)
    BY <1>8
  <2>2. Typed(log, p) /\ IdentityWrites(log, db, p, id)
    <3> HIDE DEF p, id
    <3> QED BY <2>1, <1>6, <1>7, ProjectIdentityWrites
  <2> HIDE DEF x, p
  <2> QED BY <1>3, <1>5, <1>6, <1>8, <1>10, <2>2 DEF y
<1>9. CASE e.action # "identity"
  <2>1. p = ProjectRecord(log[id], id)
    BY <1>9
  <2>2. Typed(log, p) /\ RecordWrites(log, db, p, id)
    <3> HIDE DEF p, id
    <3> QED BY <2>1, <1>6, <1>7, <1>9, ProjectRecordWrites DEF id
  <2> HIDE DEF x, p
  <2> QED BY <1>3, <1>5, <1>6, <1>9, <1>10, <2>2 DEF y
<1> QED
  BY <1>8, <1>9

\* What the two steps on the lineages leave of the transaction.
LEMMA LineageStep ==
  ASSUME TypeInv, NEW t \in Transactions, LockLineages(t) \/ ReconcileLineages(t)
  PROVE  LET x == txn'[t]
             id == txn[t].event
         IN
         /\ UNCHANGED <<log, receipts, cursor, db, aborts>>
         /\ Frame(t)
         /\ DOMAIN x = {"event", "stage", "todo", "held", "pending"}
         /\ x.event = id /\ x.todo = {} /\ txn[t].stage \in {6, 7} /\ x.stage = txn[t].stage + 1
         /\ id \in Events /\ Valid(log[id]) /\ log[id].action # "identity"
         /\ Typed(log, x.pending) /\ SameSources(txn[t].pending, x.pending)
         /\ \/ txn[t].stage = 6 /\ x.pending = txn[t].pending
            \/ txn[t].stage = 7 /\ x.pending = Reconcile(txn[t].pending)
<1> DEFINE y == txn[t]
           locked == [y EXCEPT !.held = @ \cup {LineageLock}, !.stage = Reconciling]
           p == Reconcile(y.pending)
           reconciled == [y EXCEPT !.pending = p, !.stage = Committing]
<1>1. TxnOK(log, y) /\ y.event # 0 /\ y.stage \in {6, 7} /\ log \in Logs /\ View(log, db)
  BY DEF LockLineages, ReconcileLineages, TypeInv, Busy, Waiting, Reconciling
<1>2. /\ UNCHANGED <<log, receipts, cursor, db, aborts>>
      /\ \/ y.stage = 6 /\ txn' = [txn EXCEPT ![t] = locked]
         \/ y.stage = 7 /\ txn' = [txn EXCEPT ![t] = reconciled]
  BY DEF LockLineages, ReconcileLineages, TypeInv, Waiting, Reconciling
<1>3. /\ Frame(t)
      /\ \/ y.stage = 6 /\ txn'[t] = locked
         \/ y.stage = 7 /\ txn'[t] = reconciled
  <2> HIDE DEF locked, reconciled
  <2> QED BY <1>2 DEF TypeInv, Frame
<1> HIDE DEF y
<1>4. /\ DOMAIN y = {"event", "stage", "todo", "held", "pending"} /\ y.todo = {}
      /\ y.event \in Events /\ Valid(log[y.event]) /\ log[y.event].action # "identity"
      /\ Typed(log, y.pending)
  BY <1>1 DEF TxnOK, Events
<1>5. /\ DOMAIN locked = {"event", "stage", "todo", "held", "pending"}
      /\ locked.event = y.event /\ locked.todo = y.todo /\ locked.pending = y.pending
      /\ locked.stage = 7
  BY <1>4 DEF Reconciling
<1>6. /\ DOMAIN reconciled = {"event", "stage", "todo", "held", "pending"}
      /\ reconciled.event = y.event /\ reconciled.todo = y.todo /\ reconciled.pending = p
      /\ reconciled.stage = 8
  <2> HIDE DEF p
  <2> QED BY <1>4 DEF Committing
<1>7. /\ Typed(log, p) /\ SameSources(y.pending, p)
      /\ SameSources(y.pending, y.pending)
  BY <1>1, <1>4, ReconcileWrites DEF SameSources
<1> HIDE DEF locked, reconciled
<1>8. CASE y.stage = 6 /\ txn'[t] = locked
  BY <1>2, <1>3, <1>4, <1>5, <1>7, <1>8 DEF y
<1>9. CASE y.stage = 7 /\ txn'[t] = reconciled
  BY <1>2, <1>3, <1>4, <1>6, <1>7, <1>9 DEF y, p
<1> QED
  BY <1>3, <1>8, <1>9

\* What ends a transaction, commit or abort, leaves of it.
LEMMA EndStep ==
  ASSUME TypeInv, NEW t \in Transactions, txn' = [txn EXCEPT ![t] = Idle]
  PROVE  Frame(t) /\ txn'[t] = Idle
BY DEF TypeInv, Frame

\* A step of t leaves every handler typed when it leaves t typed.
LEMMA FrameTxnOK ==
  ASSUME TypeInv, NEW t \in Transactions, Frame(t), log' = log, TxnOK(log, txn'[t])
  PROVE  DOMAIN txn' = Transactions /\ \A o \in Transactions : TxnOK(log', txn'[o])
BY DEF TypeInv, Frame

\* Every step keeps the type invariant.
LEMMA TypeStep ==
  ASSUME TypeInv, [Next]_vars
  PROVE  TypeInv'
<1>1. ASSUME NEW t \in Transactions, NEW id \in Events, Begin(t, id)
      PROVE  TypeInv'
  <2>1. UNCHANGED <<log, receipts, cursor, db, aborts>>
    BY <1>1 DEF Begin
  <2>2. Frame(t) /\ TxnOK(log, txn'[t])
    <3> DEFINE x == txn'[t]
    <3>1. /\ Frame(t)
          /\ DOMAIN x = {"event", "stage", "todo", "held", "pending"}
          /\ x.event = id /\ x.pending = NoWrites
          /\ \/ ~Valid(log[id]) /\ x.stage = 8 /\ x.todo = {}
             \/ Valid(log[id]) /\ x.stage = 5 /\ x.todo = {}
             \/ Valid(log[id]) /\ x.stage \in 1 .. 4 /\ x.todo # {}
      BY <1>1, BeginStep
    <3>2. id \in DOMAIN log /\ id # 0
      BY EventId DEF Events, TypeInv
    <3> HIDE DEF x
    <3> QED BY <3>1, <3>2, NoWritesTyped DEF TxnOK, x
  <2> QED BY <2>1, <2>2, FrameTxnOK DEF TypeInv
<1>2. ASSUME NEW t \in Transactions, Acquire(t)
      PROVE  TypeInv'
  <2>1. UNCHANGED <<log, receipts, cursor, db, aborts>>
    BY <1>2 DEF Acquire
  <2>2. Frame(t) /\ TxnOK(log, txn'[t])
    <3> DEFINE x == txn'[t]
    <3>1. /\ Frame(t)
          /\ DOMAIN x = {"event", "stage", "todo", "held", "pending"}
          /\ x.event = txn[t].event /\ x.pending = txn[t].pending
          /\ txn[t].event \in Events /\ Valid(log[txn[t].event])
          /\ txn[t].stage \in 1 .. 4
          /\ \/ x.stage = txn[t].stage /\ x.todo # {}
             \/ x.stage = 5 /\ x.todo = {}
             \/ x.stage \in 1 .. 4 /\ x.todo # {}
      BY <1>2, AcquireStep
    <3>2. txn[t].event \in DOMAIN log /\ txn[t].event # 0
      BY <3>1, EventId DEF Events, TypeInv
    <3>3. Typed(log, txn[t].pending)
      BY DEF TypeInv, TxnOK
    <3> HIDE DEF x
    <3> QED BY <3>1, <3>2, <3>3 DEF TxnOK, x
  <2> QED BY <2>1, <2>2, FrameTxnOK DEF TypeInv
<1>3. ASSUME NEW t \in Transactions, Project(t)
      PROVE  TypeInv'
  <2>1. UNCHANGED <<log, receipts, cursor, db, aborts>>
    BY <1>3 DEF Project
  <2>2. Frame(t) /\ TxnOK(log, txn'[t])
    <3> DEFINE x == txn'[t]
    <3>1. /\ Frame(t)
          /\ DOMAIN x = {"event", "stage", "todo", "held", "pending"}
          /\ x.event = txn[t].event /\ x.stage \in {6, 8} /\ x.todo = {}
          /\ x.stage = 6 => log[txn[t].event].action # "identity"
          /\ txn[t].event \in Events /\ Valid(log[txn[t].event])
          /\ Typed(log, x.pending)
      BY <1>3, ProjectStep
    <3>2. txn[t].event \in DOMAIN log /\ txn[t].event # 0
      BY <3>1, EventId DEF Events, TypeInv
    <3> HIDE DEF x
    <3> QED BY <3>1, <3>2 DEF TxnOK, x
  <2> QED BY <2>1, <2>2, FrameTxnOK DEF TypeInv
<1>4. ASSUME NEW t \in Transactions, Commit(t)
      PROVE  TypeInv'
  <2>1. UNCHANGED <<log, aborts>> /\ txn' = [txn EXCEPT ![t] = Idle]
    BY <1>4 DEF Commit
  <2>2. Frame(t) /\ TxnOK(log, txn'[t])
    BY <2>1, EndStep, IdleOK
  <2>3. receipts' \subseteq DOMAIN log /\ cursor' \in (DOMAIN log) \cup {0}
    <3>1. txn[t].event \in DOMAIN log
      BY <1>4 DEF Commit, TypeInv, TxnOK, Busy
    <3> QED BY <1>4, <3>1 DEF Commit, TypeInv
  <2>4. View(log, db')
    <3>1. db' = db \/ db' = Over(txn[t].pending, db)
      BY <1>4 DEF Commit
    <3>2. Typed(log, txn[t].pending) /\ View(log, db)
      BY DEF TypeInv, TxnOK
    <3> QED BY <3>1, <3>2, OverView
  <2> QED BY <2>1, <2>2, <2>3, <2>4, FrameTxnOK DEF TypeInv
<1>5. ASSUME NEW t \in Transactions, Abort(t)
      PROVE  TypeInv'
  <2>1. UNCHANGED <<log, receipts, cursor, db>> /\ txn' = [txn EXCEPT ![t] = Idle]
    BY <1>5 DEF Abort
  <2>2. Frame(t) /\ TxnOK(log, txn'[t])
    BY <2>1, EndStep, IdleOK
  <2>3. aborts' \in 0 .. MaxAborts
    BY <1>5, BoundAssumption DEF Abort, TypeInv
  <2> QED BY <2>1, <2>2, <2>3, FrameTxnOK DEF TypeInv
<1>6. ASSUME NEW t \in Transactions, LockLineages(t) \/ ReconcileLineages(t)
      PROVE  TypeInv'
  <2>1. UNCHANGED <<log, receipts, cursor, db, aborts>>
    BY <1>6, LineageStep
  <2>2. Frame(t) /\ TxnOK(log, txn'[t])
    <3> DEFINE x == txn'[t]
    <3>1. /\ Frame(t)
          /\ DOMAIN x = {"event", "stage", "todo", "held", "pending"}
          /\ x.event = txn[t].event /\ x.stage \in {7, 8} /\ x.todo = {}
          /\ txn[t].event \in Events /\ Valid(log[txn[t].event])
          /\ log[txn[t].event].action # "identity"
          /\ Typed(log, x.pending)
      BY <1>6, LineageStep
    <3>2. txn[t].event \in DOMAIN log /\ txn[t].event # 0
      BY <3>1, EventId DEF Events, TypeInv
    <3> HIDE DEF x
    <3> QED BY <3>1, <3>2 DEF TxnOK, x
  <2> QED BY <2>1, <2>2, FrameTxnOK DEF TypeInv
<1>7. CASE UNCHANGED vars
  BY <1>7 DEF vars, TypeInv
<1> QED
  BY <1>1, <1>2, <1>3, <1>4, <1>5, <1>6, <1>7 DEF Next, Duplicate

\* The type invariant implies TypeOK.
LEMMA TypeInvTypes ==
  ASSUME TypeInv
  PROVE  TypeOK
<1>1. DOMAIN db = Cells(log)
  BY DEF TypeInv, View
<1>2. ASSUME NEW u \in Uris
      PROVE  /\ \A c \in {"record", "row", "identity", "handle"} :
                  db[<<c, u>>].event \in Events \cup {0}
             /\ db[<<"state", u>>] \in States
             /\ \A c \in Counters : db[<<c, u>>] \in Nat
  <2>1. ASSUME NEW c \in Columns
        PROVE  CellOK(log, c, u, db[<<c, u>>])
    BY ViewCell DEF TypeInv, Uris
  <2>2. ASSUME NEW c \in {"record", "row", "identity", "handle"}
        PROVE  db[<<c, u>>].event \in Events \cup {0}
    <3>1. c \in Columns /\ c \in Base
      BY DEF Columns, Base
    <3> QED BY <2>1, <3>1 DEF CellOK, Events
  <2>3. db[<<"state", u>>] \in States
    <3>1. "state" \in Columns
      BY DEF Columns
    <3> QED BY <2>1, <3>1 DEF CellOK
  <2>4. ASSUME NEW c \in Counters
        PROVE  db[<<c, u>>] \in Nat
    <3>1. c \in Columns
      BY DEF Columns
    <3> QED BY <2>1, <3>1 DEF CellOK
  <2> QED BY <2>2, <2>3, <2>4
<1>3. ASSUME NEW t \in Transactions
      PROVE  /\ txn[t].event \in Events \cup {0} /\ txn[t].stage \in 0 .. Committing
             /\ txn[t].stage < Ready <=> (txn[t].todo # {} \/ ~Busy(t))
             /\ DOMAIN txn[t].pending \subseteq Cells(log)
  BY DEF TypeInv, TxnOK, Events, Committing, Ready, Busy, Typed
<1>4. /\ log \in Logs /\ receipts \subseteq Events /\ cursor \in Events \cup {0}
      /\ aborts \in 0 .. MaxAborts
  BY DEF TypeInv, Events
<1> QED
  BY <1>1, <1>2, <1>3, <1>4 DEF TypeOK

\* The type invariant always holds.
LEMMA TypeInductive == Spec => []TypeInv
<1>1. Init => TypeInv
  BY TypeInit
<1>2. TypeInv /\ [Next]_vars => TypeInv'
  BY TypeStep
<1> QED
  BY <1>1, <1>2, PTL DEF Spec

\* Whatever is delivered and whoever handles it, every cell of the database keeps the type
\* of its column, a derived state stays one of the three, a handler has locks to take exactly
\* while it is in a lock stage, and it writes no cell but those of the log's URIs.
THEOREM TypeCorrect == Spec => []TypeOK
BY TypeInductive, TypeInvTypes, PTL

(***************************************************************************)
(* Every lock a handler holds comes before every lock it has yet to take.  *)
(***************************************************************************)
Sorted(l, x) ==
  x.todo # {} =>
    /\ x.stage \in 1 .. 4
    /\ x.todo \subseteq StageLocks(l, x.stage)
    /\ \A h \in x.held :
         /\ h \in Ordinary(l)
         /\ LockRank[h[1]] <= Top(x.stage)
         /\ \A a \in x.todo : Precedes(h, a)
LockInv == \A t \in Transactions : Sorted(log, txn[t])

\* A step of t keeps the order of locks when it keeps that of t.
LEMMA FrameSorted ==
  ASSUME LockInv, NEW t \in Transactions, Frame(t), log' = log, Sorted(log, txn'[t])
  PROVE  LockInv'
BY DEF LockInv, Frame

\* The next lock is the least of those to take; what follows it and the later stages come
\* after all that is held.
LEMMA AcquireSorted ==
  ASSUME TypeInv, LockInv, NEW t \in Transactions, Acquire(t)
  PROVE  Sorted(log, txn'[t])
<1> DEFINE y == txn[t]
           x == txn'[t]
           l == First(y.todo)
           rest == (y.todo \cup Follow(l)) \ {l}
<1>0. log \in Logs /\ View(log, db)
  BY DEF TypeInv
<1>1. /\ x.held = y.held \cup {l}
      /\ y.event \in Events
      /\ y.todo # {} /\ y.stage \in 1 .. 4
      /\ \/ rest # {} /\ x.stage = y.stage /\ x.todo = rest
         \/ rest = {} /\ x.stage = 5 /\ x.todo = {}
         \/ /\ rest = {} /\ x.stage \in 1 .. 4 /\ y.stage < x.stage
            /\ x.todo # {} /\ x.todo = LockStages(log[y.event])[x.stage]
  BY AcquireStep
<1>2. /\ y.todo \subseteq StageLocks(log, y.stage)
      /\ \A h \in y.held : /\ h \in Ordinary(log)
                           /\ LockRank[h[1]] <= Top(y.stage)
                           /\ \A a \in y.todo : Precedes(h, a)
  BY <1>1 DEF LockInv, Sorted
<1> HIDE DEF x, y
<1>3. l \in y.todo /\ \A o \in y.todo \ {l} : Precedes(l, o)
  <2>1. y.todo \subseteq Ordinary(log)
    BY <1>1, <1>2, StageRanks
  <2> QED BY <1>0, <1>1, <2>1, FirstLock
<1> HIDE DEF l
<1>4. /\ LockRank[l[1]] \in Nat /\ LockRank[l[1]] <= Top(y.stage)
      /\ l \in Ordinary(log)
  BY <1>1, <1>2, <1>3, StageRanks
<1>5. /\ Follow(l) \subseteq StageLocks(log, y.stage)
      /\ \A a \in Follow(l) : LockRank[l[1]] < LockRank[a[1]]
  BY <1>0, <1>1, <1>2, <1>3, FollowType
<1>6. CASE rest # {} /\ x.stage = y.stage /\ x.todo = rest
  <2>2. x.todo \subseteq StageLocks(log, x.stage)
    BY <1>2, <1>5, <1>6
  <2>3. ASSUME NEW h \in x.held, NEW a \in x.todo
        PROVE  Precedes(h, a)
    <3>1. CASE a \in y.todo /\ a # l
      BY <1>1, <1>2, <1>3, <3>1
    <3>2. CASE a \in Follow(l)
      <4>1. h \in y.held => LockRank[h[1]] \in Nat /\ LockRank[h[1]] <= LockRank[l[1]]
        <5> SUFFICES ASSUME h \in y.held
                     PROVE  LockRank[h[1]] \in Nat /\ LockRank[h[1]] <= LockRank[l[1]]
          OBVIOUS
        <5>1. Precedes(h, l) /\ LockRank[h[1]] \in Nat
          BY <1>0, <1>2, <1>3, OrdinaryRank
        <5> QED BY <5>1, <1>4 DEF Precedes
      <4>2. LockRank[a[1]] \in Nat
        BY <1>1, <1>5, <3>2, StageRanks
      <4> QED BY <1>1, <1>4, <1>5, <3>2, <4>1, <4>2 DEF Precedes
    <3> QED BY <1>6, <3>1, <3>2
  <2> QED BY <1>1, <1>2, <1>4, <1>6, <2>2, <2>3 DEF Sorted, x
<1>7. CASE x.todo = {}
  BY <1>7 DEF Sorted, x
<1>8. CASE /\ x.stage \in 1 .. 4 /\ y.stage < x.stage
           /\ x.todo = LockStages(log[y.event])[x.stage]
  <2>1. x.todo \subseteq StageLocks(log, x.stage)
    BY <1>0, <1>1, <1>8, StagesType
  <2>2. Top(y.stage) <= Top(x.stage) /\ Top(y.stage) \in Nat /\ Top(x.stage) \in Nat
    BY <1>1, <1>8 DEF Top
  <2>3. ASSUME NEW h \in x.held
        PROVE  /\ h \in Ordinary(log) /\ LockRank[h[1]] \in Nat
               /\ LockRank[h[1]] <= Top(y.stage)
    <3>1. h \in Ordinary(log) /\ LockRank[h[1]] <= Top(y.stage)
      BY <1>1, <1>2, <1>4
    <3> QED BY <3>1, <1>0, OrdinaryRank
  <2>4. ASSUME NEW h \in x.held, NEW a \in x.todo
        PROVE  Precedes(h, a)
    <3>1. Top(y.stage) < LockRank[a[1]] /\ LockRank[a[1]] \in Nat
      BY <1>1, <1>8, <2>1, StageRanks
    <3> QED BY <2>2, <2>3, <3>1 DEF Precedes
  <2>5. \A h \in x.held : LockRank[h[1]] <= Top(x.stage)
    BY <2>2, <2>3
  <2> QED BY <1>8, <2>1, <2>3, <2>4, <2>5 DEF Sorted, x
<1> QED
  BY <1>1, <1>6, <1>7, <1>8

\* Every step keeps the order of locks.
LEMMA LockStep ==
  ASSUME TypeInv, LockInv, [Next]_vars
  PROVE  LockInv'
<1>0. log \in Logs /\ View(log, db)
  BY DEF TypeInv
<1>1. ASSUME NEW t \in Transactions, NEW id \in Events, Begin(t, id)
      PROVE  LockInv'
  <2>1. log' = log
    BY <1>1 DEF Begin
  <2>2. Frame(t) /\ Sorted(log, txn'[t])
    <3> DEFINE x == txn'[t]
    <3>1. /\ Frame(t) /\ x.held = {}
          /\ x.todo # {} => x.stage \in 1 .. 4 /\ x.todo = LockStages(log[id])[x.stage]
      BY <1>1, BeginStep
    <3> HIDE DEF x
    <3>2. x.todo # {} => x.todo \subseteq StageLocks(log, x.stage)
      BY <1>0, <3>1, StagesType
    <3> QED BY <3>1, <3>2 DEF Sorted, x
  <2> QED BY <2>1, <2>2, FrameSorted
<1>2. ASSUME NEW t \in Transactions, Acquire(t)
      PROVE  LockInv'
  <2>1. log' = log
    BY <1>2 DEF Acquire
  <2>2. Frame(t)
    BY <1>2, AcquireStep
  <2> QED BY <1>2, <2>1, <2>2, AcquireSorted, FrameSorted
<1>3. ASSUME NEW t \in Transactions, Project(t)
      PROVE  LockInv'
  <2>1. log' = log
    BY <1>3 DEF Project
  <2>2. Frame(t) /\ txn'[t].todo = {}
    BY <1>3, ProjectStep
  <2> QED BY <2>1, <2>2, FrameSorted DEF Sorted
<1>4. ASSUME NEW t \in Transactions, Commit(t) \/ Abort(t)
      PROVE  LockInv'
  <2>1. log' = log /\ txn' = [txn EXCEPT ![t] = Idle]
    BY <1>4 DEF Commit, Abort
  <2>2. Frame(t) /\ txn'[t].todo = {}
    BY <2>1, EndStep, IdleOK
  <2> QED BY <2>1, <2>2, FrameSorted DEF Sorted
<1>5. ASSUME NEW t \in Transactions, LockLineages(t) \/ ReconcileLineages(t)
      PROVE  LockInv'
  <2>1. log' = log /\ Frame(t) /\ txn'[t].todo = {}
    BY <1>5, LineageStep
  <2> QED BY <2>1, FrameSorted DEF Sorted
<1>6. CASE UNCHANGED vars
  BY <1>6 DEF vars, LockInv
<1> QED
  BY <1>1, <1>2, <1>3, <1>4, <1>5, <1>6 DEF Next, Duplicate

\* A handler that still takes sorted locks waits for one of these only, and if its holder
\* takes locks too, the holder waits for a later one.
LEMMA SortedWaits ==
  ASSUME TypeInv, LockInv, NEW t \in Transactions, NEW o \in Transactions,
         ~Writing(t), WaitsFor(t, o)
  PROVE  /\ txn[t].todo # {} /\ First(txn[t].todo) \in Ordinary(log)
         /\ ~Writing(o) /\ txn[o].todo # {} => Precedes(First(txn[t].todo), First(txn[o].todo))
<1> DEFINE a == First(txn[t].todo)
           x == txn[o]
<1>0. log \in Logs
  BY DEF TypeInv
<1>1. txn[t].stage < 5 /\ txn[t].stage \in 0 .. 8
  BY DEF Writing, Ready, TypeInv, TxnOK
<1>2. txn[t].todo # {} /\ a \in x.held
  BY <1>1 DEF WaitsFor, WaitsForLock, WaitsForRow, Ready, Waiting, Reconciling
<1>3. ASSUME NEW z \in Transactions, txn[z].todo # {}
      PROVE  First(txn[z].todo) \in txn[z].todo /\ First(txn[z].todo) \in Ordinary(log)
  <2> DEFINE S == txn[z].todo
  <2>1. S # {} /\ S \subseteq StageLocks(log, txn[z].stage) /\ txn[z].stage \in 1 .. 4
    BY <1>3 DEF LockInv, Sorted
  <2> HIDE DEF S
  <2>2. S \subseteq Ordinary(log)
    BY <2>1, StageRanks
  <2>3. First(S) \in S
    BY <1>0, <2>1, <2>2, FirstLock
  <2> QED BY <2>2, <2>3 DEF S
<1>4. ASSUME x.todo # {}
      PROVE  Precedes(a, First(x.todo))
  <2>1. \A h \in x.held : \A b \in x.todo : Precedes(h, b)
    BY <1>4 DEF LockInv, Sorted
  <2>2. First(x.todo) \in x.todo
    BY <1>3, <1>4
  <2> HIDE DEF a, x
  <2> QED BY <1>2, <2>1, <2>2
<1> QED
  BY <1>2, <1>3, <1>4

\* A handler that is waited for by one that still takes sorted locks waits for no handler
\* that does: for rows and for the lineage lock handlers wait once they have theirs.
LEMMA LockInvOnlyWriters ==
  ASSUME TypeInv, LockInv
  PROVE  OnlyWritersDeadlock
<1>1. ASSUME NEW t \in Transactions, NEW o \in Transactions,
             WaitsFor(t, o), WaitsFor(o, t), ~Writing(t)
      PROVE  FALSE
  <2>0. log \in Logs
    BY DEF TypeInv
  <2>1. txn[t].todo # {} /\ First(txn[t].todo) \in Ordinary(log)
    BY <1>1, SortedWaits
  <2>2. ~Writing(o)
    <3> SUFFICES ASSUME Writing(o) PROVE FALSE
      OBVIOUS
    <3>1. txn[o].todo = {}
      BY DEF Writing, Ready, TypeInv, TxnOK
    <3>2. LineageLock \in txn[t].held
      BY <1>1, <3>1 DEF WaitsFor, WaitsForLock, WaitsForRow
    <3>3. LineageLock \in Ordinary(log)
      BY <2>1, <3>2 DEF LockInv, Sorted
    <3> QED BY <3>3 DEF LineageLock, Ordinary, Kinds
  <2>3. txn[o].todo # {} /\ First(txn[o].todo) \in Ordinary(log)
    BY <1>1, <2>2, SortedWaits
  <2> DEFINE a == First(txn[t].todo)
             b == First(txn[o].todo)
  <2>4. Precedes(a, b) /\ Precedes(b, a)
    BY <1>1, <2>1, <2>2, <2>3, SortedWaits
  <2> HIDE DEF a, b
  <2> QED BY <2>0, <2>1, <2>3, <2>4, PrecedesAsymmetric DEF a, b
<1> QED
  BY <1>1 DEF OnlyWritersDeadlock

\* Held locks always come before those to take.
LEMMA LockInductive == Spec => []LockInv
<1>1. Init => LockInv
  BY IdleOK DEF Init, LockInv, Sorted
<1>2. TypeInv /\ LockInv /\ [Next]_vars => LockInv'
  BY LockStep
<1> QED
  BY <1>1, <1>2, TypeInductive, PTL DEF Spec

\* Two handlers wait for each other only once both have all their sorted locks, for any
\* number of handlers: the lock functions, the sorting within each and the locks looked up
\* while others are held follow one order.  What remains is a deadlock of writers, over rows
\* or over a row and the lineage lock.
THEOREM LocksOrdered == Spec => []OnlyWritersDeadlock
BY TypeInductive, LockInductive, LockInvOnlyWriters, PTL

\* Locks on URIs are totally ordered.
LEMMA PrecedesTransitive ==
  ASSUME NEW l \in Logs, NEW a \in Ordinary(l), NEW b \in Ordinary(l), NEW c \in Ordinary(l),
         Precedes(a, b), Precedes(b, c)
  PROVE  Precedes(a, c)
<1>1. /\ LockRank[a[1]] \in Nat /\ Rank[a[2]] \in Nat
      /\ LockRank[b[1]] \in Nat /\ Rank[b[2]] \in Nat
      /\ LockRank[c[1]] \in Nat /\ Rank[c[2]] \in Nat
  BY OrdinaryRank
<1> QED
  BY <1>1 DEF Precedes

\* A finite set of locks has one that no other follows.
LEMMA LastLock ==
  ASSUME NEW l \in Logs, NEW L, L \subseteq Ordinary(l), L # {}, IsFiniteSet(L)
  PROVE  \E a \in L : \A b \in L : ~Precedes(a, b)
<1> DEFINE Endless(S) == S # {} /\ \A a \in S : \E b \in S : Precedes(a, b)
           sizes == {n \in Nat : \E S \in SUBSET L : Endless(S) /\ Cardinality(S) = n}
<1> SUFFICES ASSUME Endless(L) PROVE FALSE
  OBVIOUS
<1>1. Cardinality(L) \in sizes
  BY FS_CardinalityType
<1>2. PICK n \in sizes : \A m \in sizes : n <= m
  <2>1. sizes \subseteq Nat /\ sizes # {}
    BY <1>1
  <2> HIDE DEF sizes
  <2> QED BY <2>1, LeastNat
<1>3. PICK S \in SUBSET L : Endless(S) /\ Cardinality(S) = n
  BY <1>2
<1>4. PICK x \in S : TRUE
  BY <1>3
<1>5. IsFiniteSet(S)
  BY <1>3, FS_Subset
<1> DEFINE R == S \ {x}
<1>6. /\ IsFiniteSet(R) /\ Cardinality(R) = n - 1 /\ n \in Nat /\ Cardinality(R) \in Nat
  BY <1>3, <1>4, <1>5, FS_RemoveElement, FS_CardinalityType
<1>7. Endless(R)
  <2>1. PICK y \in S : Precedes(x, y)
    BY <1>3, <1>4
  <2>2. y # x
    BY <1>3, <2>1, PrecedesAsymmetric
  <2>3. ASSUME NEW a \in R
        PROVE  \E b \in R : Precedes(a, b)
    <3>1. PICK b \in S : Precedes(a, b)
      BY <1>3, <2>3
    <3>2. CASE b # x
      BY <3>1, <3>2
    <3>3. CASE b = x
      <4>1. Precedes(a, y)
        <5>1. a \in Ordinary(l) /\ x \in Ordinary(l) /\ y \in Ordinary(l)
          BY <1>3, <1>4, <2>1, <2>3
        <5> QED BY <5>1, <2>1, <3>1, <3>3, PrecedesTransitive
      <4> QED BY <4>1, <2>1, <2>2
    <3> QED BY <3>2, <3>3
  <2> QED BY <2>1, <2>2, <2>3
<1>8. n - 1 \in sizes
  BY <1>3, <1>6, <1>7
<1> HIDE DEF sizes
<1> QED
  BY <1>2, <1>6, <1>8

\* Each handler of S waits for another of them.
Deadlocked(S) == \A t \in S : \E o \in S \ {t} : WaitsFor(t, o)

\* Among handlers that still take sorted locks, one waits for none of the others: the one
\* that waits for the last lock.
LEMMA SomeoneProceeds ==
  ASSUME TypeInv, LockInv, NEW S \in SUBSET Transactions, S # {}, IsFiniteSet(S), Deadlocked(S)
  PROVE  \E t \in S : Writing(t)
<1> SUFFICES ASSUME \A t \in S : ~Writing(t) PROVE FALSE
  OBVIOUS
<1> DEFINE wanted(t) == First(txn[t].todo)
           L == {wanted(t) : t \in S}
<1>0. log \in Logs
  BY DEF TypeInv
<1>1. \A t \in S : txn[t].todo # {} /\ wanted(t) \in Ordinary(log)
  BY SortedWaits DEF Deadlocked
<1>2. L \subseteq Ordinary(log) /\ L # {}
  BY <1>1
<1>3. IsFiniteSet(L)
  <2> DEFINE f == [t \in S |-> wanted(t)]
  <2>1. DOMAIN f = S /\ L = {f[t] : t \in S}
    OBVIOUS
  <2> HIDE DEF f, L
  <2> QED BY <2>1, FiniteRange
<1>4. PICK a \in L : \A b \in L : ~Precedes(a, b)
  <2> HIDE DEF L
  <2> QED BY <1>0, <1>2, <1>3, LastLock
<1>5. PICK t \in S : a = wanted(t)
  BY <1>4
<1>6. PICK o \in S : WaitsFor(t, o)
  BY DEF Deadlocked
<1>7. Precedes(wanted(t), wanted(o))
  BY <1>1, <1>6, SortedWaits
<1> QED
  BY <1>4, <1>5, <1>7

\* However many handlers each wait for another of them, one of them has all its sorted locks
\* and writes: the advisory locks that are taken before the first shared row cannot deadlock
\* by themselves.
THEOREM DeadlockNeedsWriter ==
  Spec => [](\A S \in SUBSET Transactions :
               S # {} /\ IsFiniteSet(S) /\ Deadlocked(S) => \E t \in S : Writing(t))
<1>1. TypeInv /\ LockInv =>
        \A S \in SUBSET Transactions :
          S # {} /\ IsFiniteSet(S) /\ Deadlocked(S) => \E t \in S : Writing(t)
  BY SomeoneProceeds
<1> QED
  BY <1>1, TypeInductive, LockInductive, PTL

(***************************************************************************)
(* What a handler is about to commit stays true of the database: events in *)
(* flight are of different authors, so nobody else writes its URI.         *)
(***************************************************************************)
Apart ==
  \A t, o \in Transactions :
    Busy(t) /\ Busy(o) /\ txn[t].event # txn[o].event =>
      Author[log[txn[t].event].uri] # Author[log[txn[o].event].uri]

PendingOK(l, d, x) ==
  /\ ~Valid(l[x.event]) => x.pending = NoWrites
  /\ Valid(l[x.event]) /\ l[x.event].action = "identity" =>
       IdentityWrites(l, d, x.pending, x.event)
  /\ Valid(l[x.event]) /\ l[x.event].action # "identity" =>
       RecordWrites(l, d, x.pending, x.event)
PendingInv ==
  \A t \in Transactions :
    Busy(t) /\ txn[t].stage > 5 /\ txn[t].event \notin receipts => PendingOK(log, db, txn[t])

\* Events in flight at the same time stay of different authors.
LEMMA ApartStep ==
  ASSUME TypeInv, Apart, [Next]_vars
  PROVE  Apart'
<1>1. ASSUME NEW t \in Transactions, NEW id \in Events, Begin(t, id)
      PROVE  Apart'
  <2>1. log' = log /\ Deliverable(id)
    BY <1>1 DEF Begin
  <2>2. Frame(t) /\ txn'[t].event = id
    BY <1>1, BeginStep
  <2>3. \A o \in Transactions \ {t} : txn'[o] = txn[o]
    BY <2>2 DEF Frame
  <2> SUFFICES ASSUME NEW a \in Transactions, NEW b \in Transactions,
                      txn'[a].event # 0, txn'[b].event # 0, txn'[a].event # txn'[b].event
               PROVE  Author[log[txn'[a].event].uri] # Author[log[txn'[b].event].uri]
    BY <2>1 DEF Apart, Busy
  <2>4. CASE a # t /\ b # t
    BY <2>3, <2>4 DEF Apart, Busy
  <2>5. CASE a = t /\ b # t
    BY <2>1, <2>2, <2>3, <2>5 DEF Deliverable, Busy
  <2>6. CASE a # t /\ b = t
    BY <2>1, <2>2, <2>3, <2>6 DEF Deliverable, Busy
  <2> QED BY <2>4, <2>5, <2>6
<1>2. ASSUME NEW t \in Transactions, log' = log, Frame(t),
             txn'[t].event = txn[t].event \/ txn'[t].event = 0
      PROVE  Apart'
  <2>1. \A o \in Transactions : txn'[o].event = txn[o].event \/ txn'[o].event = 0
    BY <1>2 DEF Frame
  <2> SUFFICES ASSUME NEW a \in Transactions, NEW b \in Transactions,
                      txn'[a].event # 0, txn'[b].event # 0, txn'[a].event # txn'[b].event
               PROVE  Author[log[txn'[a].event].uri] # Author[log[txn'[b].event].uri]
    BY <1>2 DEF Apart, Busy
  <2>2. txn'[a].event = txn[a].event /\ txn'[b].event = txn[b].event
    BY <2>1
  <2> QED BY <2>2 DEF Apart, Busy
<1>3. ASSUME NEW t \in Transactions,
             Acquire(t) \/ Project(t) \/ LockLineages(t) \/ ReconcileLineages(t)
      PROVE  Apart'
  <2>1. log' = log
    BY <1>3, LineageStep DEF Acquire, Project
  <2>2. Frame(t) /\ txn'[t].event = txn[t].event
    BY <1>3, AcquireStep, ProjectStep, LineageStep
  <2> QED BY <1>2, <2>1, <2>2
<1>4. ASSUME NEW t \in Transactions, Commit(t) \/ Abort(t)
      PROVE  Apart'
  <2>1. log' = log /\ txn' = [txn EXCEPT ![t] = Idle]
    BY <1>4 DEF Commit, Abort
  <2>2. Frame(t) /\ txn'[t].event = 0
    BY <2>1, EndStep, IdleOK
  <2> QED BY <1>2, <2>1, <2>2
<1>5. CASE UNCHANGED vars
  BY <1>5 DEF vars, Apart, Busy
<1> QED
  BY <1>1, <1>3, <1>4, <1>5 DEF Next, Duplicate

\* Pending writes of records, rows and identities are of the event's own URI and newer than
\* what is committed there.
LEMMA PendingOwn ==
  ASSUME NEW l \in Logs, NEW d, NEW x, x.event \in DOMAIN l, PendingOK(l, d, x),
         NEW c \in Sources, NEW u \in UrisOf(l), <<c, u>> \in DOMAIN x.pending
  PROVE  /\ u = l[x.event].uri
         /\ x.pending[<<c, u>>].event = x.event
         /\ d[<<c, u>>].event < x.event
<1> DEFINE id == x.event
           e == l[id]
           w == x.pending
<1>1. Valid(e)
  BY NoWritesTyped DEF PendingOK
<1>2. CASE e.action = "identity"
  <2>1. IdentityWrites(l, d, w, id)
    BY <1>1, <1>2 DEF PendingOK
  <2>2. c = "identity"
    BY <2>1 DEF IdentityWrites, Sources
  <2> QED BY <2>1, <2>2 DEF IdentityWrites
<1>3. CASE e.action # "identity"
  <2>1. RecordWrites(l, d, w, id)
    BY <1>1, <1>3 DEF PendingOK
  <2>2. c \in {"record", "row"}
    BY <2>1 DEF RecordWrites, Sources
  <2>3. u = e.uri
    BY <2>1, <2>2 DEF RecordWrites
  <2>4. CASE c = "record"
    BY <2>1, <2>3, <2>4 DEF RecordWrites
  <2>5. CASE c = "row"
    <3>1. /\ RowApplies(d[<<"record", e.uri>>], d[<<"row", e.uri>>], e, id)
          /\ w[<<"row", e.uri>>] = RowAfter(d[<<"row", e.uri>>], e, id)
      BY <2>1, <2>3, <2>5 DEF RecordWrites
    <3>2. w[<<"row", e.uri>>].event = id
      BY <3>1 DEF RowAfter
    <3> QED BY <2>3, <2>5, <3>1, <3>2 DEF RowApplies
  <2> QED BY <2>2, <2>4, <2>5
<1> QED
  BY <1>2, <1>3

\* What is pending depends on the committed source cells of its own URI only.
LEMMA PendingStable ==
  ASSUME NEW l \in Logs, NEW d, NEW f, NEW x, x.event \in DOMAIN l, PendingOK(l, d, x),
         \A c \in Sources : f[<<c, l[x.event].uri>>] = d[<<c, l[x.event].uri>>]
  PROVE  PendingOK(l, f, x)
<1> DEFINE u == l[x.event].uri
<1>1. /\ f[<<"record", u>>] = d[<<"record", u>>]
      /\ f[<<"row", u>>] = d[<<"row", u>>]
      /\ f[<<"identity", u>>] = d[<<"identity", u>>]
  BY DEF Sources
<1>2. IdentityWrites(l, d, x.pending, x.event) => IdentityWrites(l, f, x.pending, x.event)
  BY <1>1 DEF IdentityWrites
<1>3. RecordWrites(l, d, x.pending, x.event) => RecordWrites(l, f, x.pending, x.event)
  BY <1>1 DEF RecordWrites
<1> QED
  BY <1>2, <1>3 DEF PendingOK

\* A commit publishes the pending writes, or nothing.
LEMMA CommitStep ==
  ASSUME TypeInv, PendingInv, NEW t \in Transactions, Commit(t)
  PROVE  LET id == txn[t].event IN
         /\ log' = log /\ Frame(t) /\ txn'[t].event = 0
         /\ id \in DOMAIN log
         /\ \/ id \in receipts /\ UNCHANGED <<db, cursor, receipts>>
            \/ /\ id \notin receipts /\ receipts' = receipts \cup {id}
               /\ cursor' = IF id > cursor THEN id ELSE cursor
               /\ PendingOK(log, db, txn[t])
               /\ db' = Over(txn[t].pending, db)
<1>1. log' = log /\ txn' = [txn EXCEPT ![t] = Idle]
  BY DEF Commit
<1>2. Frame(t) /\ txn'[t].event = 0
  BY <1>1, EndStep, IdleOK
<1>3. txn[t].event \in DOMAIN log /\ Busy(t) /\ txn[t].stage > 5
  BY DEF Commit, Committing, TypeInv, TxnOK, Busy
<1> QED
  BY <1>1, <1>2, <1>3 DEF Commit, PendingInv

\* The source cells of other URIs stay as they are.
LEMMA CommitElsewhere ==
  ASSUME NEW l \in Logs, NEW d, View(l, d), NEW x, x.event \in DOMAIN l, PendingOK(l, d, x),
         NEW c \in Sources, NEW u \in UrisOf(l), u # l[x.event].uri
  PROVE  Over(x.pending, d)[<<c, u>>] = d[<<c, u>>]
<1>1. <<c, u>> \notin DOMAIN x.pending
  BY PendingOwn
<1>2. c \in Columns
  BY DEF Sources, Columns
<1>3. <<c, u>> \in DOMAIN d
  BY <1>2, ViewCell
<1> QED
  BY <1>1, <1>3, OverReads

\* No step of another handler changes what pending writes rest on.
LEMMA PendingStep ==
  ASSUME TypeInv, Apart, PendingInv, [Next]_vars
  PROVE  PendingInv'
<1>0. log \in Logs /\ View(log, db)
  BY DEF TypeInv
<1>1. ASSUME NEW t \in Transactions, Frame(t), UNCHANGED <<log, db, receipts>>,
             /\ txn'[t].event # 0 /\ txn'[t].stage > 5 /\ txn'[t].event \notin receipts
               => PendingOK(log, db, txn'[t])
      PROVE  PendingInv'
  <2> SUFFICES ASSUME NEW o \in Transactions, txn'[o].event # 0, txn'[o].stage > 5,
                      txn'[o].event \notin receipts
               PROVE  PendingOK(log, db, txn'[o])
    BY <1>1 DEF PendingInv, Busy
  <2>1. CASE o = t
    BY <1>1, <2>1
  <2>2. CASE o # t
    BY <1>1, <2>2 DEF Frame, PendingInv, Busy
  <2> QED BY <2>1, <2>2
<1>2. ASSUME NEW t \in Transactions, NEW id \in Events, Begin(t, id)
      PROVE  PendingInv'
  <2>1. UNCHANGED <<log, db, receipts>>
    BY <1>2 DEF Begin
  <2>2. Frame(t) /\ (txn'[t].stage > 5 => PendingOK(log, db, txn'[t]))
    <3> DEFINE x == txn'[t]
    <3>1. /\ Frame(t) /\ x.event = id /\ x.pending = NoWrites
          /\ x.stage > 5 => ~Valid(log[id])
      BY <1>2, BeginStep
    <3> HIDE DEF x
    <3> QED BY <3>1 DEF PendingOK, x
  <2> QED BY <1>1, <2>1, <2>2
<1>3. ASSUME NEW t \in Transactions, Acquire(t)
      PROVE  PendingInv'
  <2>1. UNCHANGED <<log, db, receipts>>
    BY <1>3 DEF Acquire
  <2>2. Frame(t) /\ ~(txn'[t].stage > 5)
    BY <1>3, AcquireStep
  <2> QED BY <1>1, <2>1, <2>2
<1>4. ASSUME NEW t \in Transactions, Project(t)
      PROVE  PendingInv'
  <2>1. UNCHANGED <<log, db, receipts>>
    BY <1>4 DEF Project
  <2>2. Frame(t) /\ PendingOK(log, db, txn'[t])
    <3> DEFINE x == txn'[t]
    <3>1. /\ Frame(t) /\ x.event = txn[t].event
          /\ Valid(log[txn[t].event])
          /\ log[txn[t].event].action = "identity" =>
               IdentityWrites(log, db, x.pending, txn[t].event)
          /\ log[txn[t].event].action # "identity" =>
               RecordWrites(log, db, x.pending, txn[t].event)
      BY <1>4, ProjectStep
    <3> HIDE DEF x
    <3> QED BY <3>1 DEF PendingOK, x
  <2> QED BY <1>1, <2>1, <2>2
<1>5. ASSUME NEW t \in Transactions, Commit(t)
      PROVE  PendingInv'
  <2> DEFINE id == txn[t].event
  <2>1. /\ log' = log /\ Frame(t) /\ txn'[t].event = 0 /\ id \in DOMAIN log
        /\ \/ id \in receipts /\ UNCHANGED <<db, cursor, receipts>>
           \/ /\ id \notin receipts /\ receipts' = receipts \cup {id}
              /\ PendingOK(log, db, txn[t])
              /\ db' = Over(txn[t].pending, db)
    BY <1>5, CommitStep
  <2>2. CASE id \in receipts /\ UNCHANGED <<db, cursor, receipts>>
    BY <1>1, <2>1, <2>2
  <2>3. CASE /\ receipts' = receipts \cup {id}
             /\ PendingOK(log, db, txn[t])
             /\ db' = Over(txn[t].pending, db)
    <3> SUFFICES ASSUME NEW o \in Transactions, txn'[o].event # 0, txn'[o].stage > 5,
                        txn'[o].event \notin receipts'
                 PROVE  PendingOK(log, db', txn'[o])
      BY <2>1 DEF PendingInv, Busy
    <3>1. o # t /\ txn'[o] = txn[o]
      BY <2>1 DEF Frame
    <3>2. /\ PendingOK(log, db, txn[o])
          /\ txn[o].event \in DOMAIN log /\ txn[o].event # id
      BY <2>3, <3>1 DEF PendingInv, Busy, TypeInv, TxnOK
    <3>3. log[txn[o].event].uri # log[id].uri
      <4>1. Busy(o) /\ Busy(t)
        BY <1>5, <3>1 DEF Commit, Busy
      <4> QED BY <3>2, <4>1 DEF Apart
    <3>4. log[txn[o].event].uri \in UrisOf(log)
      BY <1>0, <3>2, UrisOfLog
    <3>5. \A c \in Sources : db'[<<c, log[txn[o].event].uri>>] = db[<<c, log[txn[o].event].uri>>]
      BY <1>0, <2>1, <2>3, <3>3, <3>4, CommitElsewhere
    <3>6. PendingOK(log, db', txn[o])
      BY <1>0, <3>2, <3>5, PendingStable
    <3> QED BY <3>1, <3>6
  <2> QED BY <2>1, <2>2, <2>3
<1>6. ASSUME NEW t \in Transactions, Abort(t)
      PROVE  PendingInv'
  <2>1. UNCHANGED <<log, db, receipts>> /\ txn' = [txn EXCEPT ![t] = Idle]
    BY <1>6 DEF Abort
  <2>2. Frame(t) /\ txn'[t].event = 0
    BY <2>1, EndStep, IdleOK
  <2> QED BY <1>1, <2>1, <2>2
<1>7. ASSUME NEW t \in Transactions, LockLineages(t) \/ ReconcileLineages(t)
      PROVE  PendingInv'
  <2> DEFINE x == txn'[t]
             y == txn[t]
  <2>1. /\ UNCHANGED <<log, receipts, cursor, db, aborts>> /\ Frame(t)
        /\ x.event = y.event /\ y.stage \in {6, 7} /\ y.event \in Events
        /\ Valid(log[y.event]) /\ log[y.event].action # "identity"
        /\ SameSources(y.pending, x.pending)
    BY <1>7, LineageStep
  <2>2. ASSUME x.event # 0, x.event \notin receipts
        PROVE  PendingOK(log, db, x)
    <3>1. PendingOK(log, db, y)
      BY <2>1, <2>2 DEF PendingInv, Busy
    <3> HIDE DEF x, y
    <3>2. RecordWrites(log, db, y.pending, y.event)
      BY <2>1, <3>1 DEF PendingOK
    <3>3. RecordWrites(log, db, x.pending, y.event)
      BY <1>0, <2>1, <3>2, RecordWritesKept
    <3> QED BY <2>1, <3>3 DEF PendingOK
  <2> QED BY <1>1, <2>1, <2>2
<1>8. CASE UNCHANGED vars
  BY <1>8 DEF vars, PendingInv, Busy
<1> QED
  BY <1>2, <1>3, <1>4, <1>5, <1>6, <1>7, <1>8 DEF Next, Duplicate

\* Pending writes always fit the database.
LEMMA PendingInductive == Spec => [](Apart /\ PendingInv)
<1>1. Init => Apart /\ PendingInv
  BY IdleOK DEF Init, Apart, PendingInv, Busy
<1>2. TypeInv /\ Apart /\ PendingInv /\ [Next]_vars => (Apart /\ PendingInv)'
  BY ApartStep, PendingStep
<1> QED
  BY <1>1, <1>2, TypeInductive, PTL DEF Spec

\* The committed event of a source cell is a natural number.
LEMMA SourceEvent ==
  ASSUME TypeInv, NEW c \in Sources, NEW u \in Uris
  PROVE  db[<<c, u>>].event \in Nat /\ db[<<c, u>>].event \in (DOMAIN log) \cup {0}
<1>1. c \in Columns /\ c \in Base
  BY DEF Sources, Columns, Base
<1>2. CellOK(log, c, u, db[<<c, u>>])
  BY <1>1, ViewCell DEF TypeInv, Uris
<1>3. db[<<c, u>>].event \in (DOMAIN log) \cup {0}
  BY <1>1, <1>2 DEF CellOK
<1> QED
  BY <1>3, EventId DEF TypeInv

\* No step makes a source cell or the cursor older.
LEMMA RegressStep ==
  ASSUME TypeInv, PendingInv, [Next]_vars
  PROVE  /\ cursor' >= cursor
         /\ \A cell \in {"record", "row", "identity"} \X Uris : db'[cell].event >= db[cell].event
<1>0. log \in Logs /\ View(log, db) /\ cursor \in Nat
  BY EventId DEF TypeInv
<1>1. CASE db' = db /\ cursor' = cursor
  <2> SUFFICES ASSUME NEW cell \in {"record", "row", "identity"} \X Uris
               PROVE  db[cell].event \in Nat
    BY <1>0, <1>1
  <2>1. PICK c \in Sources, u \in Uris : cell = <<c, u>>
    BY DEF Sources
  <2> QED BY <2>1, SourceEvent
<1>2. ASSUME NEW t \in Transactions, Commit(t)
      PROVE  /\ cursor' >= cursor
             /\ \A cell \in {"record", "row", "identity"} \X Uris :
                  db'[cell].event >= db[cell].event
  <2> DEFINE id == txn[t].event
  <2>1. /\ id \in DOMAIN log
        /\ \/ UNCHANGED <<db, cursor>>
           \/ /\ cursor' = IF id > cursor THEN id ELSE cursor
              /\ PendingOK(log, db, txn[t])
              /\ db' = Over(txn[t].pending, db)
    BY <1>2, CommitStep
  <2>2. CASE UNCHANGED <<db, cursor>>
    BY <1>1, <2>2
  <2>3. CASE /\ cursor' = IF id > cursor THEN id ELSE cursor
             /\ PendingOK(log, db, txn[t])
             /\ db' = Over(txn[t].pending, db)
    <3>1. id \in Nat
      BY <1>0, <2>1, EventId
    <3>2. cursor' >= cursor
      BY <1>0, <2>3, <3>1
    <3> SUFFICES ASSUME NEW cell \in {"record", "row", "identity"} \X Uris
                 PROVE  db'[cell].event >= db[cell].event
      BY <3>2
    <3>3. PICK c \in Sources, u \in Uris : cell = <<c, u>>
      BY DEF Sources
    <3>4. db[cell].event \in Nat /\ u \in UrisOf(log)
      BY <3>3, SourceEvent DEF Uris
    <3>5. CASE cell \in DOMAIN txn[t].pending
      <4>1. db'[cell] = txn[t].pending[cell]
        BY <2>3, <3>5, OverReads
      <4>2. txn[t].pending[cell].event = id /\ db[cell].event < id
        BY <1>0, <2>1, <2>3, <3>3, <3>4, <3>5, PendingOwn
      <4> QED BY <3>1, <3>4, <4>1, <4>2
    <3>6. CASE cell \notin DOMAIN txn[t].pending
      <4>1. cell \in DOMAIN db
        BY <1>0, <3>3, <3>4 DEF View, Cells, Sources, Columns
      <4>2. db'[cell] = db[cell]
        BY <2>3, <3>6, <4>1, OverReads
      <4> QED BY <3>4, <4>2
    <3> QED BY <3>5, <3>6
  <2> QED BY <2>1, <2>2, <2>3
<1>3. ASSUME NEW t \in Transactions, NEW id \in Events, Begin(t, id)
      PROVE  db' = db /\ cursor' = cursor
  BY <1>3 DEF Begin
<1>4. ASSUME NEW t \in Transactions,
             \/ Acquire(t) \/ Project(t) \/ Abort(t)
             \/ LockLineages(t) \/ ReconcileLineages(t)
      PROVE  db' = db /\ cursor' = cursor
  BY <1>4 DEF Acquire, Project, Abort, LockLineages, ReconcileLineages
<1>5. CASE UNCHANGED vars
  BY <1>1, <1>5 DEF vars
<1> QED
  BY <1>1, <1>2, <1>3, <1>4, <1>5 DEF Next, Duplicate

\* Whatever is delivered late, twice or while another handler runs, no commit replaces a raw
\* record, a row, an identity or the cursor by an older one: a handler commits only what is
\* newer than the committed cell, and nobody else has written that cell since it looked.
THEOREM NoRegression == Spec => NeverRegresses
<1>1. TypeInv /\ PendingInv /\ [Next]_vars =>
        [ /\ cursor' >= cursor
          /\ \A cell \in {"record", "row", "identity"} \X Uris :
               db'[cell].event >= db[cell].event ]_vars
  BY RegressStep
<1> QED
  BY <1>1, TypeInductive, PendingInductive, PTL DEF Spec, NeverRegresses

(***************************************************************************)
(* Convergence: at every moment the record of a URI is its newest          *)
(* receipted event, and its row follows the record.                        *)
(***************************************************************************)
About(l, u) == {i \in DOMAIN l : l[i].uri = u /\ Valid(l[i]) /\ l[i].action # "identity"}
KeptIn(l, u) ==
  \A i, o \in DOMAIN l :
    l[i].uri = u /\ l[o].uri = u /\ l[i].action = "put" /\ l[o].action = "put"
      => SameLinks(Collection[u], l[i].value, l[o].value)

\* `seen' are the receipts.
RecordNewest(l, seen, record, u) ==
  \/ record = [event |-> 0, live |-> FALSE] /\ \A i \in seen : i \notin About(l, u)
  \/ \E n \in About(l, u) :
       /\ n \in seen
       /\ record = [event |-> n, live |-> l[n].action = "put"]
       /\ \A i \in seen : i \in About(l, u) => i <= n

\* The row is live when the record is, with the value of that event.  A checked row may lag
\* behind a deletion that found no row; its links are those of some revision.
RowFollows(l, record, row, u) ==
  /\ row.live <=> record.live
  /\ row.live => row.event = record.event /\ row.value = l[row.event].value
  /\ row.event <= record.event
  /\ Collection[u] \notin Checked => row.event = record.event
  /\ Collection[u] \in Checked /\ row.event > 0 =>
       \E i \in DOMAIN l : /\ l[i].uri = u /\ l[i].action = "put"
                           /\ row.value.repository = l[i].value.repository
                           /\ row.value.subject = l[i].value.subject
                           /\ row.value.origin = l[i].value.origin

\* The collections and logs for which rows follow records.
Follows(l, u) == Collection[u] \notin Plain /\ KeptIn(l, u)

ConvergeInv ==
  /\ \/ receipts = {} /\ cursor = 0
     \/ cursor \in receipts /\ \A i \in receipts : i <= cursor
  /\ \A u \in UrisOf(log) : RecordNewest(log, receipts, db[<<"record", u>>], u)
  /\ \A u \in UrisOf(log) :
       Follows(log, u) => RowFollows(log, db[<<"record", u>>], db[<<"row", u>>], u)

\* The empty database is what no receipt leaves.
LEMMA ConvergeInit ==
  ASSUME Init
  PROVE  ConvergeInv
<1>1. ASSUME NEW u \in UrisOf(log)
      PROVE  db[<<"record", u>>] = [event |-> 0, live |-> FALSE] /\ db[<<"row", u>>] = NoRow
  <2>1. <<"record", u>> \in Cells(log) /\ <<"row", u>> \in Cells(log)
    BY DEF Cells, Columns
  <2> QED BY <2>1 DEF Init, Default
<1>2. ASSUME NEW u \in UrisOf(log)
      PROVE  RecordNewest(log, receipts, db[<<"record", u>>], u)
  BY <1>1 DEF RecordNewest, Init
<1>3. ASSUME NEW u \in UrisOf(log)
      PROVE  RowFollows(log, db[<<"record", u>>], db[<<"row", u>>], u)
  <2> DEFINE record == db[<<"record", u>>]
             row == db[<<"row", u>>]
  <2>1. record.event = 0 /\ ~record.live /\ row.event = 0 /\ ~row.live
    BY <1>1, <1>3 DEF NoRow
  <2> HIDE DEF record, row
  <2> QED BY <2>1 DEF RowFollows, record, row
<1> QED
  BY <1>2, <1>3 DEF ConvergeInv, Init

\* A receipt of an event that is not about a URI leaves its record the newest.
LEMMA RecordElsewhere ==
  ASSUME NEW l, NEW seen, NEW record, NEW u, RecordNewest(l, seen, record, u),
         NEW id, id \notin About(l, u)
  PROVE  RecordNewest(l, seen \cup {id}, record, u)
BY DEF RecordNewest

\* The event of a record, and whether there is one.
LEMMA RecordEvent ==
  ASSUME NEW l \in Logs, NEW seen, NEW record, NEW u, RecordNewest(l, seen, record, u)
  PROVE  /\ record.event \in Nat
         /\ record.event = 0 => ~record.live
         /\ record.event # 0 => record.event \in seen
         /\ \A i \in seen : i \in About(l, u) => i <= record.event
<1>1. CASE record = [event |-> 0, live |-> FALSE] /\ \A i \in seen : i \notin About(l, u)
  BY <1>1
<1>2. CASE \E n \in About(l, u) :
             /\ n \in seen
             /\ record = [event |-> n, live |-> l[n].action = "put"]
             /\ \A i \in seen : i \in About(l, u) => i <= n
  <2>1. PICK n \in About(l, u) :
          /\ n \in seen
          /\ record = [event |-> n, live |-> l[n].action = "put"]
          /\ \A i \in seen : i \in About(l, u) => i <= n
    BY <1>2
  <2>2. record.event = n
    BY <2>1
  <2>3. n \in Nat /\ n > 0
    BY EventId DEF About
  <2> QED BY <2>1, <2>2, <2>3
<1> QED
  BY <1>1, <1>2 DEF RecordNewest

\* The event takes its place among the receipted ones.
LEMMA RecordAdvances ==
  ASSUME NEW l \in Logs, NEW seen, NEW record, NEW u, RecordNewest(l, seen, record, u),
         NEW id \in About(l, u)
  PROVE  RecordNewest(l, seen \cup {id}, RecordAfter(record, id, l[id].action = "put"), u)
<1>1. /\ record.event \in Nat
      /\ \A i \in seen : i \in About(l, u) => i <= record.event
  BY RecordEvent
<1>2. id \in Nat /\ id > 0
  BY EventId DEF About
<1>3. \A i \in About(l, u) : i \in Nat
  BY EventId DEF About
<1> DEFINE new == [event |-> id, live |-> l[id].action = "put"]
<1>4. CASE record.event < id
  <2>1. RecordAfter(record, id, l[id].action = "put") = new
    BY <1>4 DEF RecordAfter
  <2>2. \A i \in seen \cup {id} : i \in About(l, u) => i <= id
    BY <1>1, <1>2, <1>3, <1>4
  <2> QED BY <2>1, <2>2 DEF RecordNewest
<1>5. CASE ~(record.event < id)
  <2>1. RecordAfter(record, id, l[id].action = "put") = record
    BY <1>5 DEF RecordAfter
  <2>2. record # [event |-> 0, live |-> FALSE]
    BY <1>2, <1>5
  <2>3. PICK n \in About(l, u) :
          /\ n \in seen
          /\ record = [event |-> n, live |-> l[n].action = "put"]
          /\ \A i \in seen : i \in About(l, u) => i <= n
    BY <2>2 DEF RecordNewest
  <2>4. record.event = n
    BY <2>3
  <2>5. id <= n
    BY <1>1, <1>2, <1>5, <2>4
  <2>6. \A i \in seen \cup {id} : i \in About(l, u) => i <= n
    BY <2>3, <2>5
  <2> HIDE DEF new
  <2> QED BY <2>1, <2>3, <2>6 DEF RecordNewest
<1> QED
  BY <1>4, <1>5

\* The row keeps following: an event newer than the record replaces both, an older one
\* neither.
LEMMA RowAdvances ==
  ASSUME NEW l \in Logs, NEW u, Follows(l, u), NEW id \in About(l, u),
         NEW seen, id \notin seen, NEW record, RecordNewest(l, seen, record, u),
         NEW row, RowOK(l, u, row), row.event \in Nat, RowFollows(l, record, row, u)
  PROVE  LET e == l[id] IN
         RowFollows(l, RecordAfter(record, id, e.action = "put"),
                    IF RowApplies(record, row, e, id) THEN RowAfter(row, e, id) ELSE row, u)
<1> DEFINE e == l[id]
           after == RecordAfter(record, id, e.action = "put")
           new == RowAfter(row, e, id)
<1>1. e.uri = u /\ id \in Nat /\ id > 0 /\ id \in DOMAIN l
  BY EventId DEF About
<1>2. record.event \in Nat /\ (record.event = 0 => ~record.live) /\ record.event # id
  <2>1. /\ record.event \in Nat /\ (record.event = 0 => ~record.live)
        /\ record.event # 0 => record.event \in seen
    BY RecordEvent
  <2> QED BY <1>1, <2>1
<1>3. /\ row.event <= record.event
      /\ Collection[u] \notin Checked => row.event = record.event
      /\ row.live <=> record.live
      /\ row.live => row.event = record.event
  BY DEF RowFollows
<1>4. Collection[u] \notin Plain
  BY DEF Follows
<1>5. CASE record.event > id
  <2>1. after = record
    BY <1>1, <1>2, <1>5 DEF RecordAfter
  <2>2. ~RowApplies(record, row, e, id)
    <3>1. CASE Collection[u] \notin Checked
      <4>1. ~(row.event < id)
        BY <1>1, <1>2, <1>3, <1>5, <3>1
      <4> QED BY <4>1 DEF RowApplies
    <3>2. CASE Collection[u] \in Checked
      <4>1. /\ RecordAfter(record, id, TRUE).event # id
            /\ RecordAfter(record, id, FALSE).event # id
        BY <1>1, <1>2, <1>5 DEF RecordAfter
      <4>2. /\ RecordAfter(record, id, TRUE) # [event |-> id, live |-> TRUE]
            /\ RecordAfter(record, id, FALSE) # [event |-> id, live |-> FALSE]
        <5>1. [event |-> id, live |-> TRUE].event = id /\ [event |-> id, live |-> FALSE].event = id
          OBVIOUS
        <5> DEFINE yes == [event |-> id, live |-> TRUE]
                   no == [event |-> id, live |-> FALSE]
        <5> HIDE DEF yes, no
        <5> QED BY <4>1, <5>1 DEF yes, no
      <4> QED BY <1>1, <3>2, <4>2 DEF RowApplies
    <3> QED BY <3>1, <3>2
  <2> QED BY <2>1, <2>2
<1>6. CASE record.event < id
  <2>1. /\ RecordAfter(record, id, TRUE) = [event |-> id, live |-> TRUE]
        /\ RecordAfter(record, id, FALSE) = [event |-> id, live |-> FALSE]
    BY <1>6 DEF RecordAfter
  <2>2. row.event < id
    BY <1>1, <1>2, <1>3, <1>6
  <2>3. new.event = id /\ after.event = id
    BY <1>6 DEF RowAfter, RecordAfter
  <2>4. CASE e.action = "put"
    <3>1. after = [event |-> id, live |-> TRUE]
      BY <2>1, <2>4
    <3>2. new = [event |-> id, live |-> TRUE, value |-> e.value]
      BY <2>4 DEF RowAfter
    <3>3. RowApplies(record, row, e, id)
      <4>1. Collection[u] \in Checked /\ row.event > 0 =>
              SameLinks(Collection[u], row.value, e.value)
        <5> SUFFICES ASSUME Collection[u] \in Checked, row.event > 0
                     PROVE  SameLinks(Collection[u], row.value, e.value)
          OBVIOUS
        <5>1. PICK i \in DOMAIN l : /\ l[i].uri = u /\ l[i].action = "put"
                                    /\ row.value.repository = l[i].value.repository
                                    /\ row.value.subject = l[i].value.subject
                                    /\ row.value.origin = l[i].value.origin
          BY DEF RowFollows
        <5>2. SameLinks(Collection[u], l[i].value, e.value)
          BY <1>1, <2>4, <5>1 DEF Follows, KeptIn
        <5> QED BY <5>1, <5>2 DEF SameLinks
      <4> QED BY <1>1, <2>1, <2>2, <2>4, <4>1 DEF RowApplies
    <3>4. RowFollows(l, after, new, u)
      <4> HIDE DEF after, new
      <4> QED BY <1>1, <2>4, <3>1, <3>2 DEF RowFollows
    <3> QED BY <3>3, <3>4
  <2>5. CASE e.action # "put"
    <3>1. ~after.live
      BY <1>6, <2>5 DEF RecordAfter
    <3>2. ~new.live
      BY <2>5 DEF RowAfter
    <3>3. CASE RowApplies(record, row, e, id)
      <4>1. Collection[u] \in Checked => row.event > 0
        BY <1>1, <2>5, <3>3 DEF RowApplies
      <4>2. new.value = [row.value EXCEPT !.cid = None]
        BY <1>1, <1>4, <2>5 DEF RowAfter, Plain
      <4>3. /\ new.value.repository = row.value.repository
            /\ new.value.subject = row.value.subject
            /\ new.value.origin = row.value.origin
        <5>1. /\ "repository" \in DOMAIN row.value
              /\ "subject" \in DOMAIN row.value
              /\ "origin" \in DOMAIN row.value
          BY DEF RowOK, Blank
        <5> HIDE DEF new
        <5> QED BY <4>2, <5>1
      <4>4. RowFollows(l, after, new, u)
        <5> HIDE DEF after, new
        <5> QED BY <1>1, <2>3, <3>1, <3>2, <4>1, <4>3 DEF RowFollows
      <4> QED BY <3>3, <4>4
    <3>4. CASE ~RowApplies(record, row, e, id)
      <4>1. Collection[u] \in Checked /\ ~(row.event > 0)
        BY <1>1, <1>4, <2>1, <2>2, <2>5, <3>4 DEF RowApplies
      <4>2. row.event = 0 /\ ~row.live
        BY <1>2, <1>3, <4>1
      <4>3. RowFollows(l, after, row, u)
        <5> HIDE DEF after
        <5> QED BY <1>1, <2>3, <3>1, <4>1, <4>2 DEF RowFollows
      <4> QED BY <3>4, <4>3
    <3> QED BY <3>3, <3>4
  <2> QED BY <2>4, <2>5
<1> QED
  BY <1>1, <1>2, <1>5, <1>6

\* What a commit leaves at the record and the row of a URI.
LEMMA CommitCells ==
  ASSUME NEW l \in Logs, NEW d, View(l, d), NEW x, x.event \in DOMAIN l, PendingOK(l, d, x),
         NEW u \in UrisOf(l)
  PROVE  LET id == x.event
             after == Over(x.pending, d)
             record == d[<<"record", u>>]
             row == d[<<"row", u>>]
         IN  /\ id \in About(l, u) =>
                  /\ after[<<"record", u>>] = RecordAfter(record, id, l[id].action = "put")
                  /\ after[<<"row", u>>] = IF RowApplies(record, row, l[id], id)
                                           THEN RowAfter(row, l[id], id) ELSE row
             /\ id \notin About(l, u) =>
                  after[<<"record", u>>] = record /\ after[<<"row", u>>] = row
<1> DEFINE id == x.event
           e == l[id]
           w == x.pending
           after == Over(w, d)
           record == d[<<"record", u>>]
           row == d[<<"row", u>>]
<1>1. <<"record", u>> \in DOMAIN d /\ <<"row", u>> \in DOMAIN d
  <2>1. "record" \in Columns /\ "row" \in Columns
    BY DEF Columns
  <2> QED BY <2>1, ViewCell
<1>2. CASE id \in About(l, u)
  <2>1. e.uri = u /\ Valid(e) /\ e.action # "identity"
    BY <1>2 DEF About
  <2>2. RecordWrites(l, d, w, id)
    BY <2>1 DEF PendingOK
  <2> DEFINE new == [event |-> id, live |-> e.action = "put"]
  <2>3. /\ <<"record", u>> \in DOMAIN w <=> record.event < id
        /\ <<"record", u>> \in DOMAIN w => w[<<"record", u>>] = new
        /\ <<"row", u>> \in DOMAIN w <=> RowApplies(record, row, e, id)
        /\ <<"row", u>> \in DOMAIN w => w[<<"row", u>>] = RowAfter(row, e, id)
    BY <2>1, <2>2 DEF RecordWrites
  <2>4. RecordAfter(record, id, e.action = "put") = IF record.event < id THEN new ELSE record
    BY DEF RecordAfter
  <2> HIDE DEF new
  <2>5. after[<<"record", u>>] = RecordAfter(record, id, e.action = "put")
    BY <1>1, <2>3, <2>4, OverReads
  <2>6. after[<<"row", u>>] = IF RowApplies(record, row, e, id) THEN RowAfter(row, e, id) ELSE row
    BY <1>1, <2>3, OverReads
  <2> QED BY <1>2, <2>5, <2>6
<1>3. CASE id \notin About(l, u)
  <2>1. <<"record", u>> \notin DOMAIN w /\ <<"row", u>> \notin DOMAIN w
    <3>1. CASE u # e.uri
      BY <3>1, PendingOwn DEF Sources
    <3>2. CASE u = e.uri /\ ~Valid(e)
      BY <3>2, NoWritesTyped DEF PendingOK
    <3>3. CASE u = e.uri /\ Valid(e)
      <4>1. e.action = "identity"
        BY <1>3, <3>3 DEF About
      <4>2. IdentityWrites(l, d, w, id)
        BY <3>3, <4>1 DEF PendingOK
      <4> QED BY <4>2 DEF IdentityWrites
    <3> QED BY <3>1, <3>2, <3>3
  <2> QED BY <1>1, <1>3, <2>1, OverReads
<1> QED
  BY <1>2, <1>3

\* Every step keeps records the newest receipted events and rows following them.
LEMMA ConvergeStep ==
  ASSUME TypeInv, PendingInv, ConvergeInv, [Next]_vars
  PROVE  ConvergeInv'
<1>0. log \in Logs /\ View(log, db) /\ receipts \subseteq Nat /\ cursor \in Nat
  BY EventId DEF TypeInv
<1>1. CASE UNCHANGED <<log, receipts, cursor, db>>
  BY <1>1 DEF ConvergeInv
<1>2. ASSUME NEW t \in Transactions, Commit(t)
      PROVE  ConvergeInv'
  <2> DEFINE id == txn[t].event
  <2>1. /\ log' = log /\ id \in DOMAIN log
        /\ \/ id \in receipts /\ UNCHANGED <<db, cursor, receipts>>
           \/ /\ id \notin receipts /\ receipts' = receipts \cup {id}
              /\ cursor' = IF id > cursor THEN id ELSE cursor
              /\ PendingOK(log, db, txn[t])
              /\ db' = Over(txn[t].pending, db)
    BY <1>2, CommitStep
  <2>2. CASE UNCHANGED <<db, cursor, receipts>>
    BY <1>1, <2>1, <2>2
  <2>3. CASE /\ id \notin receipts /\ receipts' = receipts \cup {id}
             /\ cursor' = IF id > cursor THEN id ELSE cursor
             /\ PendingOK(log, db, txn[t])
             /\ db' = Over(txn[t].pending, db)
    <3> DEFINE seen == receipts \cup {id}
    <3>1. id \in Nat /\ id > 0
      BY <1>0, <2>1, EventId
    <3>2. cursor' \in seen /\ \A i \in seen : i <= cursor'
      <4>1. CASE receipts = {} /\ cursor = 0
        BY <2>3, <3>1, <4>1
      <4>2. CASE cursor \in receipts /\ \A i \in receipts : i <= cursor
        <5>1. \A i \in receipts : i \in Nat
          BY <1>0
        <5> QED BY <1>0, <2>3, <3>1, <4>2, <5>1
      <4> QED BY <4>1, <4>2 DEF ConvergeInv
    <3>3. ASSUME NEW u \in UrisOf(log)
          PROVE  /\ RecordNewest(log, seen, db'[<<"record", u>>], u)
                 /\ Follows(log, u) => RowFollows(log, db'[<<"record", u>>], db'[<<"row", u>>], u)
      <4> DEFINE record == db[<<"record", u>>]
                 row == db[<<"row", u>>]
      <4>1. /\ id \in About(log, u) =>
                 /\ db'[<<"record", u>>] = RecordAfter(record, id, log[id].action = "put")
                 /\ db'[<<"row", u>>] = IF RowApplies(record, row, log[id], id)
                                        THEN RowAfter(row, log[id], id) ELSE row
            /\ id \notin About(log, u) =>
                 db'[<<"record", u>>] = record /\ db'[<<"row", u>>] = row
        BY <1>0, <2>1, <2>3, CommitCells
      <4>2. /\ RecordNewest(log, receipts, record, u)
            /\ Follows(log, u) => RowFollows(log, record, row, u)
        BY DEF ConvergeInv
      <4>3. RowOK(log, u, row) /\ row.event \in Nat
        <5>1. RowOK(log, u, row) /\ row.event \in (DOMAIN log) \cup {0}
          BY <1>0, ViewRow
        <5> QED BY <1>0, <5>1, EventId
      <4> HIDE DEF record, row, id
      <4>4. CASE id \notin About(log, u)
        BY <4>1, <4>2, <4>4, RecordElsewhere
      <4>5. CASE id \in About(log, u)
        <5>1. RecordNewest(log, seen, RecordAfter(record, id, log[id].action = "put"), u)
          BY <1>0, <4>2, <4>5, RecordAdvances
        <5>2. Follows(log, u) =>
                RowFollows(log, RecordAfter(record, id, log[id].action = "put"),
                           IF RowApplies(record, row, log[id], id) THEN RowAfter(row, log[id], id)
                           ELSE row, u)
          BY <1>0, <2>3, <4>2, <4>3, <4>5, RowAdvances
        <5> QED BY <4>1, <4>5, <5>1, <5>2
      <4> QED BY <4>4, <4>5
    <3> QED BY <2>1, <2>3, <3>2, <3>3 DEF ConvergeInv
  <2> QED BY <2>1, <2>2, <2>3
<1>3. ASSUME NEW t \in Transactions, NEW id \in Events, Begin(t, id)
      PROVE  UNCHANGED <<log, receipts, cursor, db>>
  BY <1>3 DEF Begin
<1>4. ASSUME NEW t \in Transactions,
             \/ Acquire(t) \/ Project(t) \/ Abort(t)
             \/ LockLineages(t) \/ ReconcileLineages(t)
      PROVE  UNCHANGED <<log, receipts, cursor, db>>
  BY <1>4 DEF Acquire, Project, Abort, LockLineages, ReconcileLineages
<1>5. CASE UNCHANGED vars
  BY <1>1, <1>5 DEF vars
<1> QED
  BY <1>1, <1>2, <1>3, <1>4, <1>5 DEF Next, Duplicate

\* With every receipt there, that is convergence.
LEMMA ConvergeInvConverges ==
  ASSUME TypeInv, ConvergeInv
  PROVE  Converged
<1> SUFFICES ASSUME receipts = DOMAIN log
             PROVE  /\ cursor = Len(log)
                    /\ \A u \in Uris :
                         LET n == Newest(u) IN
                         /\ n > 0 =>
                              db[<<"record", u>>] = [event |-> n, live |-> log[n].action = "put"]
                         /\ n > 0 /\ Collection[u] \notin Plain /\ LinksKept(u) =>
                              /\ Live(db, u) <=> log[n].action = "put"
                              /\ Live(db, u) => Value(db, u) = log[n].value
  BY DEF Converged, Settled, Events
<1>0. log \in Logs /\ Len(log) \in Nat /\ DOMAIN log = 1 .. Len(log)
  BY LogAssumption DEF TypeInv
<1>1. cursor = Len(log)
  <2>1. CASE receipts = {} /\ cursor = 0
    BY <1>0, <2>1
  <2>2. CASE cursor \in receipts /\ \A i \in receipts : i <= cursor
    <3>1. cursor \in 1 .. Len(log)
      BY <1>0, <2>2
    <3>2. Len(log) \in receipts
      BY <1>0, <3>1
    <3> QED BY <1>0, <2>2, <3>1, <3>2
  <2> QED BY <2>1, <2>2 DEF ConvergeInv
<1>2. ASSUME NEW u \in Uris, Newest(u) > 0
      PROVE  LET n == Newest(u) IN
             /\ db[<<"record", u>>] = [event |-> n, live |-> log[n].action = "put"]
             /\ Collection[u] \notin Plain /\ LinksKept(u) =>
                  /\ Live(db, u) <=> log[n].action = "put"
                  /\ Live(db, u) => Value(db, u) = log[n].value
  <2> DEFINE about == About(log, u)
             record == db[<<"record", u>>]
             row == db[<<"row", u>>]
             n == Newest(u)
  <2>1. n = IF about = {} THEN 0 ELSE CHOOSE i \in about : \A o \in about : o <= i
    BY DEF Newest, About, Events
  <2>2. about # {} /\ about \subseteq DOMAIN log
    BY <1>2, <2>1 DEF About
  <2>3. RecordNewest(log, receipts, record, u)
    BY DEF ConvergeInv, Uris
  <2>4. PICK m \in about : /\ record = [event |-> m, live |-> log[m].action = "put"]
                           /\ \A i \in about : i <= m
    <3>1. \E i \in receipts : i \in about
      BY <2>2
    <3> QED BY <2>2, <2>3, <3>1 DEF RecordNewest
  <2>5. n = m
    <3> HIDE DEF about
    <3>1. n \in about /\ \A o \in about : o <= n
      BY <2>1, <2>2, <2>4
    <3>2. n \in Nat /\ m \in Nat
      BY <1>0, <2>2, <3>1
    <3> QED BY <2>4, <3>1, <3>2
  <2>6. record = [event |-> n, live |-> log[n].action = "put"]
    BY <2>4, <2>5
  <2>7. ASSUME Collection[u] \notin Plain, LinksKept(u)
        PROVE  /\ row.live <=> log[n].action = "put"
               /\ row.live => row.value = log[n].value
    <3>1. Follows(log, u)
      BY <2>7 DEF Follows, KeptIn, LinksKept, Events
    <3>2. RowFollows(log, record, row, u)
      BY <3>1 DEF ConvergeInv, Uris
    <3> HIDE DEF record, row, n
    <3>3. record.event = n /\ (record.live <=> log[n].action = "put")
      BY <2>6
    <3> QED BY <3>2, <3>3 DEF RowFollows
  <2> QED BY <2>6, <2>7 DEF Live, Value
<1> QED
  BY <1>1, <1>2

\* Once every event of the log is receipted, in whatever order, however often and however
\* concurrently they were delivered, the cursor is the last event, the raw record of each URI
\* is its newest valid event, and its row is live with the value of that event exactly when
\* that event is a put.
THEOREM Convergence == Spec => []Converged
<1>1. Init => ConvergeInv
  BY ConvergeInit
<1>2. TypeInv /\ PendingInv /\ ConvergeInv /\ [Next]_vars => ConvergeInv'
  BY ConvergeStep
<1>3. TypeInv /\ ConvergeInv => Converged
  BY ConvergeInvConverges
<1> QED
  BY <1>1, <1>2, <1>3, TypeInductive, PendingInductive, PTL DEF Spec
=============================================================================
