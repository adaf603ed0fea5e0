------------------------ MODULE PullRequestMerge_proofs ------------------------
(* Proofs about PullRequestMerge, for any set of requests and any bounds on     *)
(* commits, heads, revisions and calls.                                         *)
EXTENDS PullRequestMerge, FiniteSetTheorems, SequenceTheorems, TLAPS

-----------------------------------------------------------------------------
\* The invariants.

\* Commit c merges revision cid, with the head that the revision declares.
MergesRevision(c, cid) ==
  /\ c \in DOMAIN commits /\ cid \in DOMAIN pulls
  /\ commits[c].trailers # None /\ commits[c].first # 0
  /\ commits[c].trailers.cid = cid /\ commits[c].trailers.head = pulls[cid]
  /\ commits[c].second =
       IF commits[c].trailers.strategy = "squash" THEN 0 ELSE commits[c].trailers.head

\* A first parent is older, and trailers are only on commits that merge.
CommitInv ==
  \A c \in DOMAIN commits :
    /\ commits[c].first < c
    /\ commits[c].trailers # None => MergesRevision(c, commits[c].trailers.cid)

\* A status, published or about to be, is about a projected revision, was given
\* its time, and is right when it says merged.
Truthful(s) ==
  /\ s \in Statuses /\ s.cid \in DOMAIN pulls /\ s.at <= clock
  /\ s.state = "merged" =>
       MergesRevision(s.sha, s.cid) /\ [cid |-> s.cid, sha |-> s.sha] \in events

StatusInv ==
  \A i \in DOMAIN statuses :
    Truthful(statuses[i]) /\ Canonical(statuses[i].at) = statuses[i].at

\* What a request remembers at each step is still so, whatever the others did.
RequestInv(r) ==
  /\ pc[r] \in {"inspect", "fetch", "revalidate", "tip", "merge"} =>
       mem[r].strategy \in Strategies /\ mem[r].target.cid \in DOMAIN pulls
  /\ pc[r] \in {"fetch", "revalidate"} => mem[r].fetch \in DOMAIN pulls
  /\ pc[r] = "merge" =>
       /\ mem[r].seen \in DOMAIN commits
       /\ commits[mem[r].seen].trailers # MergeTrailers(r)
  /\ pc[r] = "event" => MergesRevision(mem[r].result, mem[r].target.cid)
  /\ pc[r] \in {"get", "put"} => Truthful(mem[r].status)
  /\ pc[r] = "put" =>
       /\ mem[r].swap \in 0..Len(statuses)
       /\ mem[r].swap # 0 => statuses[mem[r].swap].at < mem[r].status.at

\* The requests that will still read the clock: they were counted as calls.
Undated == {r \in Requests : pc[r] \in {"inspect", "fetch", "revalidate", "tip", "merge", "event"}}
ClockInv == clock + Cardinality(Undated) <= calls

\* The branch, as a statement about closed sets: each that has the tip has all
\* that landed.
BranchInv ==
  \A S \in SUBSET DOMAIN commits : tip \in S /\ FirstParentsIn(S) => landed \subseteq S

Inv ==
  /\ TypeOK /\ CommitInv /\ StatusInv /\ \A r \in Requests : RequestInv(r)
  /\ ClockInv /\ StatusMovesForward /\ RetryRecognized /\ BranchInv

-----------------------------------------------------------------------------
\* What every step leaves in place.

\* t continues s.
Continues(t, s) == Len(s) <= Len(t) /\ \A i \in 1..Len(s) : t[i] = s[i]

\* No commit, revision, version of the status or event is ever taken back.
Grows ==
  /\ Continues(commits', commits) /\ Continues(pulls', pulls)
  /\ Continues(statuses', statuses)
  /\ events \subseteq events' /\ clock <= clock'

LEMMA AppendContinues ==
  ASSUME NEW X, NEW s \in Seq(X), NEW e \in X
  PROVE  /\ Append(s, e) \in Seq(X) /\ Len(Append(s, e)) = Len(s) + 1
         /\ \A i \in 1..Len(s) : Append(s, e)[i] = s[i]
         /\ Append(s, e)[Len(s) + 1] = e
         /\ Continues(Append(s, e), s)
<1>1. /\ Append(s, e) \in Seq(X) /\ Len(Append(s, e)) = Len(s) + 1
      /\ \A i \in 1..Len(s) : Append(s, e)[i] = s[i]
      /\ Append(s, e)[Len(s) + 1] = e
  BY AppendProperties
<1>2. Len(s) \in Nat
  BY LenProperties
<1> QED BY <1>1, <1>2 DEF Continues

\* The domains that TypeOK gives the sequences.
LEMMA Domains ==
  ASSUME TypeOK
  PROVE  /\ DOMAIN commits = 1..Len(commits) /\ Len(commits) \in 1..MaxCommits
         /\ DOMAIN pulls = 1..Len(pulls) /\ Len(pulls) \in 1..MaxRevisions
         /\ DOMAIN statuses = 1..Len(statuses) /\ Len(statuses) \in Nat
         /\ \A c \in DOMAIN commits : commits[c] \in Commits
         /\ \A i \in DOMAIN pulls : pulls[i] \in 1..MaxHeads
         /\ \A i \in DOMAIN statuses : statuses[i] \in Statuses
<1>1. /\ commits \in Seq(Commits) /\ pulls \in Seq(1..MaxHeads) /\ statuses \in Seq(Statuses)
      /\ Len(commits) \in 1..MaxCommits /\ Len(pulls) \in 1..MaxRevisions
  BY DEF TypeOK
<1>2. /\ DOMAIN commits = 1..Len(commits) /\ \A c \in 1..Len(commits) : commits[c] \in Commits
  BY <1>1, LenProperties, ElementOfSeq
<1>3. /\ DOMAIN pulls = 1..Len(pulls) /\ \A i \in 1..Len(pulls) : pulls[i] \in 1..MaxHeads
  BY <1>1, LenProperties, ElementOfSeq
<1>4. /\ DOMAIN statuses = 1..Len(statuses) /\ Len(statuses) \in Nat
      /\ \A i \in 1..Len(statuses) : statuses[i] \in Statuses
  BY <1>1, LenProperties, ElementOfSeq
<1> QED BY <1>1, <1>2, <1>3, <1>4

LEMMA GotoFacts ==
  ASSUME TypeOK, NEW r \in Requests, NEW step, NEW m, Goto(r, step, m)
  PROVE  /\ pc'[r] = step /\ mem'[r] = m
         /\ \A q \in Requests \ {r} : pc'[q] = pc[q] /\ mem'[q] = mem[q]
         /\ step \in Steps => pc' \in [Requests -> Steps]
         /\ m \in Memory => mem' \in [Requests -> Memory]
<1>1. pc \in [Requests -> Steps] /\ mem \in [Requests -> Memory]
  BY DEF TypeOK
<1>2. pc' = [pc EXCEPT ![r] = step] /\ mem' = [mem EXCEPT ![r] = m]
  BY DEF Goto
<1> QED BY <1>1, <1>2

LEMMA ForgottenType ==
  /\ Forgotten \in Memory
  /\ \A c \in 1..MaxRevisions, n \in 1..MaxCommits :
       [Forgotten EXCEPT !.target.cid = c, !.result = n] \in Memory
  /\ \A s \in Statuses : [Forgotten EXCEPT !.status = s] \in Memory
  /\ \A t \in Targets, s \in Strategies :
       [Forgotten EXCEPT !.target = t, !.strategy = s] \in Memory
<1>1. Forgotten \in Memory
  BY BoundsAssumption DEF Forgotten, Memory, Targets, States
<1>2. \A c \in 1..MaxRevisions, n \in 1..MaxCommits :
        [Forgotten EXCEPT !.target.cid = c, !.result = n] \in Memory
  <2> TAKE c \in 1..MaxRevisions, n \in 1..MaxCommits
  <2> DEFINE t == [Forgotten.target EXCEPT !.cid = c]
  <2>1. t \in Targets
    BY BoundsAssumption DEF Forgotten, Targets, States
  <2>2. n \in 0..MaxCommits
    BY BoundsAssumption
  <2>3. [Forgotten EXCEPT !.target.cid = c, !.result = n]
          = [Forgotten EXCEPT !.target = t, !.result = n]
    BY Zenon
  <2>4. [Forgotten EXCEPT !.target = t, !.result = n] \in Memory
    <3> HIDE DEF t
    <3> QED BY <1>1, <2>1, <2>2 DEF Memory
  <2> QED BY <2>3, <2>4
<1>3. \A s \in Statuses : [Forgotten EXCEPT !.status = s] \in Memory
  BY <1>1 DEF Memory
<1>4. \A t \in Targets, s \in Strategies :
        [Forgotten EXCEPT !.target = t, !.strategy = s] \in Memory
  BY <1>1 DEF Memory
<1> QED BY <1>1, <1>2, <1>3, <1>4

LEMMA MergeTargetType ==
  ASSUME TypeOK
  PROVE  GetMergeTarget \in Targets /\ GetMergeTarget.cid = Len(pulls) /\ PullRow = Len(pulls)
<1>1. StatusInEffect => statuses[statusRow].state \in States
  <2>1. statusRow # 0 => statusRow \in DOMAIN statuses
    BY Domains DEF TypeOK
  <2>2. statusRow # 0 => statuses[statusRow] \in Statuses
    BY <2>1, Domains
  <2> QED BY <2>2 DEF StatusInEffect, Statuses
<1>2. StatusInEffect \in BOOLEAN
  BY DEF StatusInEffect
<1> QED BY <1>1, <1>2, Domains DEF GetMergeTarget, Targets, States, PullRow

-----------------------------------------------------------------------------
\* The bounds on the clock and on the versions of the status.

LEMMA UndatedFacts ==
  /\ IsFiniteSet(Undated) /\ Cardinality(Undated) \in Nat
  /\ \A r \in Undated : Cardinality(Undated) >= 1
<1>1. IsFiniteSet(Undated)
  BY BoundsAssumption, FS_Subset DEF Undated
<1>2. Cardinality(Undated) \in Nat
  BY <1>1, FS_CardinalityType
<1>3. ASSUME NEW r \in Undated PROVE Cardinality(Undated) >= 1
  <2>1. Cardinality(Undated) # 0
    BY <1>1, FS_EmptySet
  <2> QED BY <2>1, <1>2
<1> QED BY <1>1, <1>2, <1>3

LEMMA ClockBound ==
  ASSUME TypeOK, ClockInv
  PROVE  /\ calls < MaxCalls => clock + 1 \in 1..MaxCalls
         /\ \A r \in Requests : pc[r] = "event" => clock + 1 \in 1..MaxCalls
<1>1. clock \in Nat /\ calls \in 0..MaxCalls /\ MaxCalls \in Nat
      /\ clock + Cardinality(Undated) <= calls /\ Cardinality(Undated) \in Nat
  BY UndatedFacts, BoundsAssumption DEF TypeOK, ClockInv
<1>2. calls < MaxCalls => clock + 1 \in 1..MaxCalls
  BY <1>1
<1>3. ASSUME NEW r \in Requests, pc[r] = "event" PROVE clock + 1 \in 1..MaxCalls
  <2>1. Cardinality(Undated) >= 1
    BY <1>3, UndatedFacts DEF Undated
  <2> QED BY <2>1, <1>1
<1> QED BY <1>2, <1>3

\* Cutting a time off to the millisecond: it is not later, cut off already it
\* stays, and cut-off times that are before another time are before its cut.
LEMMA CanonicalFacts ==
  ASSUME NEW t \in Nat
  PROVE  /\ Canonical(t) \in Nat /\ Canonical(t) <= t
         /\ Canonical(Canonical(t)) = Canonical(t)
<1>1. Canonical(t) \in Nat /\ Canonical(t) <= t
  BY BoundsAssumption DEF Canonical
<1>2. PICK n \in Nat : n = t \div Tick
  BY BoundsAssumption
<1>3. (n * Tick) \div Tick = n
  BY <1>2, BoundsAssumption
<1> QED BY <1>1, <1>2, <1>3 DEF Canonical

LEMMA CanonicalOrder ==
  ASSUME NEW s \in Nat, NEW t \in Nat, Canonical(s) < t
  PROVE  Canonical(s) <= Canonical(t)
BY BoundsAssumption DEF Canonical

\* What is stored of a status differs in its time only.
LEMMA StoredFacts ==
  ASSUME NEW s \in Statuses
  PROVE  /\ Stored(s) \in Statuses /\ Stored(s).cid = s.cid /\ Stored(s).state = s.state
         /\ Stored(s).sha = s.sha /\ Stored(s).at = Canonical(s.at)
<1>1. s.at \in 0..MaxCalls /\ s.at \in Nat
  BY DEF Statuses
<1>2. Canonical(s.at) \in 0..MaxCalls
  BY <1>1, CanonicalFacts, BoundsAssumption
<1>3. PICK a \in 0..MaxCalls : a = Canonical(s.at)
  BY <1>2
<1>4. Stored(s) = [s EXCEPT !.at = a]
  BY <1>3 DEF Stored
<1> QED BY <1>3, <1>4 DEF Statuses

LEMMA StoredTruthful ==
  ASSUME TypeOK, NEW s, Truthful(s)
  PROVE  Truthful(Stored(s))
<1>1. s \in Statuses /\ s.at \in Nat /\ s.at <= clock /\ clock \in Nat
  BY DEF Truthful, Statuses, TypeOK
<1>2. Canonical(s.at) \in Nat /\ Canonical(s.at) <= s.at
  BY <1>1, CanonicalFacts
<1>3. Canonical(s.at) <= clock
  BY <1>1, <1>2
<1> QED BY <1>1, <1>3, StoredFacts DEF Truthful

-----------------------------------------------------------------------------
\* Types.

LEMMA NewCommit ==
  ASSUME TypeOK, NEW r \in Requests, RequestInv(r), pc[r] = "merge"
  PROVE  /\ MergeTrailers(r) \in Trailers /\ MergedCommit(r) \in Commits
         /\ MergedCommit(r).trailers # None
<1>1. /\ mem[r].strategy \in Strategies /\ mem[r].target.cid \in 1..Len(pulls)
      /\ mem[r].seen \in 1..Len(commits)
  BY Domains DEF RequestInv
<1>2. DeclaredHead(r) \in 1..MaxHeads /\ mem[r].target.cid \in 1..MaxRevisions
  <2>1. mem[r].target.cid \in DOMAIN pulls
    BY <1>1, Domains
  <2>2. mem[r].target.cid \in 1..MaxRevisions
    BY <1>1, Domains, BoundsAssumption
  <2> QED BY <2>1, <2>2, Domains DEF DeclaredHead
<1>3. MergeTrailers(r) \in Trailers
  BY <1>1, <1>2 DEF MergeTrailers, Trailers
<1>4. MergedCommit(r) \in Commits
  BY <1>1, <1>2, <1>3, Domains, BoundsAssumption DEF MergedCommit, Commits
<1> QED BY <1>3, <1>4, BoundsAssumption DEF MergedCommit

LEMMA RequestsTyped ==
  ASSUME TypeOK, NEW r \in Requests, NEW step \in Steps, NEW m \in Memory, Goto(r, step, m),
         UNCHANGED <<store, sourceHead, pulls, statuses, statusRow>>,
         pullRef' \in 0..MaxHeads,
         events' \subseteq [cid : 1..MaxRevisions, sha : 1..MaxCommits],
         clock' \in 0..MaxCalls, calls' \in 0..MaxCalls
  PROVE  TypeOK'
<1>1. pc' \in [Requests -> Steps] /\ mem' \in [Requests -> Memory]
  BY GotoFacts
<1> QED BY <1>1 DEF TypeOK, store

LEMMA LocalType ==
  ASSUME TypeOK, NEW r \in Requests, NEW step \in Steps, NEW m \in Memory, Goto(r, step, m),
         UNCHANGED <<store, pullRef, sourceHead, pulls, statuses, statusRow, events, clock, calls>>
  PROVE  TypeOK'
<1>1. pullRef' \in 0..MaxHeads /\ clock' \in 0..MaxCalls /\ calls' \in 0..MaxCalls
      /\ events' \subseteq [cid : 1..MaxRevisions, sha : 1..MaxCommits]
  BY DEF TypeOK
<1> QED BY <1>1, RequestsTyped

LEMMA CalledType ==
  ASSUME TypeOK, Called PROVE calls' \in 0..MaxCalls
<1>1. calls \in 0..MaxCalls /\ MaxCalls \in Nat
  BY BoundsAssumption DEF TypeOK
<1> QED BY <1>1 DEF Called

LEMMA BeginMergeType ==
  ASSUME TypeOK, NEW r \in Requests, NEW s \in Strategies, BeginMerge(r, s)
  PROVE  TypeOK'
<1> DEFINE m == [Forgotten EXCEPT !.target = GetMergeTarget, !.strategy = s]
<1>1. m \in Memory
  BY MergeTargetType, ForgottenType
<1>2. /\ Goto(r, "inspect", m) /\ UNCHANGED <<store, sourceHead, pulls, statuses, statusRow>>
      /\ pullRef' = pullRef /\ events' = events /\ clock' = clock /\ Called
  BY DEF BeginMerge
<1>3. pullRef' \in 0..MaxHeads /\ clock' \in 0..MaxCalls /\ calls' \in 0..MaxCalls
      /\ events' \subseteq [cid : 1..MaxRevisions, sha : 1..MaxCommits]
  <2>1. calls' \in 0..MaxCalls
    BY <1>2, CalledType
  <2> QED BY <1>2, <2>1 DEF TypeOK
<1> HIDE DEF m
<1> QED BY <1>1, <1>2, <1>3, RequestsTyped DEF Steps

LEMMA BeginStatusType ==
  ASSUME TypeOK, ClockInv, NEW r \in Requests, NEW s \in {"open", "closed"}, BeginStatus(r, s)
  PROVE  TypeOK'
<1> DEFINE st == [cid |-> PullRow, state |-> s, sha |-> None, at |-> clock']
           m == [Forgotten EXCEPT !.status = st]
<1>1. /\ Goto(r, "get", m) /\ UNCHANGED <<store, sourceHead, pulls, statuses, statusRow>>
      /\ pullRef' = pullRef /\ events' = events /\ clock' = clock + 1 /\ Called
  BY DEF BeginStatus
<1>2. clock' \in 1..MaxCalls
  BY <1>1, ClockBound DEF Called
<1>3. st \in Statuses
  BY <1>2, Domains DEF Statuses, States, PullRow
<1>4. m \in Memory
  <2> HIDE DEF st
  <2> QED BY <1>3, ForgottenType
<1>5. pullRef' \in 0..MaxHeads /\ clock' \in 0..MaxCalls /\ calls' \in 0..MaxCalls
      /\ events' \subseteq [cid : 1..MaxRevisions, sha : 1..MaxCommits]
  <2>1. calls' \in 0..MaxCalls
    BY <1>1, CalledType
  <2>2. clock' \in 0..MaxCalls
    BY <1>2
  <2> QED BY <1>1, <2>1, <2>2 DEF TypeOK
<1> HIDE DEF m
<1> QED BY <1>1, <1>4, <1>5, RequestsTyped DEF Steps

LEMMA InspectHeadType ==
  ASSUME TypeOK, NEW r \in Requests, InspectHead(r)
  PROVE  TypeOK'
<1>1. /\ mem[r] \in Memory /\ PullRow \in 0..MaxRevisions /\ pullRef \in 0..MaxHeads
  BY Domains DEF TypeOK, PullRow
<1>2. [mem[r] EXCEPT !.fetch = PullRow] \in Memory
  BY <1>1 DEF Memory
<1>3. [mem[r] EXCEPT !.fetch = PullRow, !.prior = pullRef] \in Memory
  BY <1>1 DEF Memory
<1>4. UNCHANGED <<store, pullRef, sourceHead, pulls, statuses, statusRow, events, clock, calls>>
  BY DEF InspectHead
<1>5. \/ Goto(r, "revalidate", [mem[r] EXCEPT !.fetch = PullRow])
      \/ Goto(r, "fetch", [mem[r] EXCEPT !.fetch = PullRow, !.prior = pullRef])
  BY DEF InspectHead
<1>6. "revalidate" \in Steps /\ "fetch" \in Steps
  BY DEF Steps
<1>7. CASE Goto(r, "revalidate", [mem[r] EXCEPT !.fetch = PullRow])
  BY <1>2, <1>4, <1>6, <1>7, LocalType
<1>8. CASE Goto(r, "fetch", [mem[r] EXCEPT !.fetch = PullRow, !.prior = pullRef])
  BY <1>3, <1>4, <1>6, <1>8, LocalType
<1> QED BY <1>5, <1>7, <1>8

LEMMA ReturnType ==
  ASSUME TypeOK, NEW r \in Requests, Return(r),
         UNCHANGED <<store, pullRef, sourceHead, pulls, statuses, statusRow, events, clock, calls>>
  PROVE  TypeOK'
BY LocalType, ForgottenType DEF Return, Steps

LEMMA FetchRemoteType ==
  ASSUME TypeOK, NEW r \in Requests, RequestInv(r), FetchRemote(r)
  PROVE  TypeOK'
<1> DEFINE head == pulls[mem[r].fetch]
           fetched == [mem[r] EXCEPT !.prior = 0]
<1>1. pc[r] = "fetch" /\ mem[r].fetch \in DOMAIN pulls /\ mem[r] \in Memory
  BY DEF FetchRemote, RequestInv, TypeOK
<1>2. head \in 1..MaxHeads /\ head \in 0..MaxHeads
  BY <1>1, Domains
<1>3. fetched \in Memory
  BY <1>1, BoundsAssumption DEF Memory
<1>4. "revalidate" \in Steps /\ "idle" \in Steps
  BY DEF Steps
<1>5. UNCHANGED <<store, sourceHead, pulls, statuses, statusRow, events, clock, calls>>
  BY DEF FetchRemote
<1>6. clock' \in 0..MaxCalls /\ calls' \in 0..MaxCalls
      /\ events' \subseteq [cid : 1..MaxRevisions, sha : 1..MaxCommits]
  BY <1>5 DEF TypeOK
<1>7. /\ pullRef' = pullRef \/ pullRef' = head
      /\ Goto(r, "revalidate", fetched) \/ Return(r)
  BY DEF FetchRemote
<1>8. pullRef' \in 0..MaxHeads
  BY <1>2, <1>7 DEF TypeOK
<1> HIDE DEF head, fetched
<1>9. CASE Goto(r, "revalidate", fetched)
  BY <1>3, <1>4, <1>5, <1>6, <1>8, <1>9, RequestsTyped
<1>10. CASE Return(r)
  BY <1>4, <1>5, <1>6, <1>8, <1>10, ForgottenType, RequestsTyped DEF Return
<1> QED BY <1>7, <1>9, <1>10

LEMMA RevalidateType ==
  ASSUME TypeOK, NEW r \in Requests, Revalidate(r)
  PROVE  TypeOK'
<1> DEFINE m == [mem[r] EXCEPT !.fetch = 0, !.target.dated = FALSE]
<1>1. mem[r] \in Memory
  BY DEF TypeOK
<1>2. m \in Memory
  <2> DEFINE t == [mem[r].target EXCEPT !.dated = FALSE]
  <2>1. t \in Targets
    BY <1>1 DEF Memory, Targets
  <2>2. m = [mem[r] EXCEPT !.fetch = 0, !.target = t]
    BY <1>1 DEF Memory
  <2>3. [mem[r] EXCEPT !.fetch = 0, !.target = t] \in Memory
    <3> HIDE DEF t
    <3>1. 0 \in 0..MaxRevisions
      BY BoundsAssumption
    <3> QED BY <1>1, <2>1, <3>1 DEF Memory
  <2> QED BY <2>2, <2>3
<1>3. UNCHANGED <<store, pullRef, sourceHead, pulls, statuses, statusRow, events, clock, calls>>
  BY DEF Revalidate
<1>4. Goto(r, "tip", m) \/ Return(r)
  BY DEF Revalidate
<1> HIDE DEF m
<1>5. CASE Goto(r, "tip", m)
  BY <1>2, <1>3, <1>5, LocalType DEF Steps
<1>6. CASE Return(r)
  BY <1>3, <1>6, ReturnType
<1> QED BY <1>4, <1>5, <1>6

LEMMA ReadTipType ==
  ASSUME TypeOK, NEW r \in Requests, ReadTip(r)
  PROVE  TypeOK'
<1> DEFINE m1 == [Forgotten EXCEPT !.target.cid = mem[r].target.cid, !.result = tip]
           m2 == [mem[r] EXCEPT !.seen = tip]
<1>1. mem[r] \in Memory /\ mem[r].target.cid \in 1..MaxRevisions
  BY DEF TypeOK, Memory, Targets
<1>2. tip \in 1..MaxCommits /\ tip \in 0..MaxCommits
  BY Domains, BoundsAssumption DEF TypeOK
<1>3. m1 \in Memory
  BY <1>1, <1>2, ForgottenType
<1>4. m2 \in Memory
  BY <1>1, <1>2 DEF Memory
<1>5. UNCHANGED <<store, pullRef, sourceHead, pulls, statuses, statusRow, events, clock, calls>>
  BY DEF ReadTip
<1>6. Goto(r, "event", m1) \/ Goto(r, "merge", m2)
  BY DEF ReadTip
<1> HIDE DEF m1, m2
<1>7. CASE Goto(r, "event", m1)
  BY <1>3, <1>5, <1>7, LocalType DEF Steps
<1>8. CASE Goto(r, "merge", m2)
  BY <1>4, <1>5, <1>8, LocalType DEF Steps
<1> QED BY <1>6, <1>7, <1>8

\* A new commit on the branch.
LEMMA CommitType ==
  ASSUME TypeOK, NEW c \in Commits, Len(commits) < MaxCommits,
         commits' = Append(commits, c), tip' = Len(commits'), landed' = landed \cup {tip'}
  PROVE  /\ commits' \in Seq(Commits) /\ Len(commits') \in 1..MaxCommits
         /\ tip' \in 1..Len(commits') /\ landed' \subseteq 1..Len(commits')
         /\ Len(commits') = Len(commits) + 1
<1>1. commits' \in Seq(Commits) /\ Len(commits') = Len(commits) + 1
  BY AppendContinues DEF TypeOK
<1>2. Len(commits) \in 1..MaxCommits /\ landed \subseteq 1..Len(commits)
  BY DEF TypeOK
<1>3. Len(commits') \in 1..MaxCommits /\ tip' \in 1..Len(commits')
  BY <1>1, <1>2, BoundsAssumption
<1>4. 1..Len(commits) \subseteq 1..Len(commits')
  BY <1>1, <1>2
<1> QED BY <1>1, <1>2, <1>3, <1>4

LEMMA AdvanceRefType ==
  ASSUME TypeOK, NEW r \in Requests, RequestInv(r), AdvanceRef(r)
  PROVE  TypeOK'
<1> DEFINE m == [Forgotten EXCEPT !.target.cid = mem[r].target.cid, !.result = tip']
<1>1. pc[r] = "merge" /\ UNCHANGED <<pullRef, sourceHead, pulls, statuses, statusRow,
                                     events, clock, calls>>
  BY DEF AdvanceRef
<1>2. CASE /\ tip = mem[r].seen /\ Len(commits) < MaxCommits
           /\ commits' = Append(commits, MergedCommit(r))
           /\ tip' = Len(commits') /\ landed' = landed \cup {tip'}
           /\ Goto(r, "event", m)
  <2>1. /\ commits' \in Seq(Commits) /\ Len(commits') \in 1..MaxCommits
        /\ tip' \in 1..Len(commits') /\ landed' \subseteq 1..Len(commits')
    BY <1>1, <1>2, NewCommit, CommitType
  <2>2. tip' \in 1..MaxCommits
    BY <2>1, BoundsAssumption
  <2>3. mem[r].target.cid \in 1..MaxRevisions
    BY DEF TypeOK, Memory, Targets
  <2>4. m \in Memory
    BY <2>2, <2>3, ForgottenType
  <2>5. pc' \in [Requests -> Steps] /\ mem' \in [Requests -> Memory]
    <3> HIDE DEF m
    <3> QED BY <1>2, <2>4, GotoFacts DEF Steps
  <2> QED BY <1>1, <2>1, <2>5 DEF TypeOK
<1>3. CASE Return(r) /\ UNCHANGED store
  BY <1>1, <1>3, ReturnType
<1> QED BY <1>2, <1>3 DEF AdvanceRef

LEMMA RecordEventType ==
  ASSUME TypeOK, ClockInv, NEW r \in Requests, RequestInv(r), RecordEvent(r)
  PROVE  TypeOK'
<1> DEFINE e == [cid |-> mem[r].target.cid, sha |-> mem[r].result]
           st == [cid |-> mem[r].target.cid, state |-> "merged", sha |-> mem[r].result,
                  at |-> clock']
           m == [Forgotten EXCEPT !.status = st]
<1>1. /\ pc[r] = "event" /\ Goto(r, "get", m)
      /\ UNCHANGED <<store, sourceHead, pulls, statuses, statusRow>>
      /\ pullRef' = pullRef /\ calls' = calls /\ events' = events \cup {e} /\ clock' = clock + 1
  BY DEF RecordEvent
<1>2. clock' \in 1..MaxCalls /\ clock' \in 0..MaxCalls
  BY <1>1, ClockBound
<1>3. mem[r].result \in 1..Len(commits) /\ mem[r].target.cid \in 1..Len(pulls)
  BY <1>1, Domains DEF RequestInv, MergesRevision
<1>4. mem[r].result \in 1..MaxCommits /\ mem[r].target.cid \in 1..MaxRevisions
  BY <1>3, Domains, BoundsAssumption
<1>5. st \in Statuses
  BY <1>2, <1>4 DEF Statuses, States
<1>6. m \in Memory
  <2> HIDE DEF st
  <2> QED BY <1>5, ForgottenType
<1>7. e \in [cid : 1..MaxRevisions, sha : 1..MaxCommits]
  BY <1>4
<1>8. events' \subseteq [cid : 1..MaxRevisions, sha : 1..MaxCommits]
  <2> HIDE DEF e
  <2> QED BY <1>1, <1>7 DEF TypeOK
<1>9. pullRef' \in 0..MaxHeads /\ calls' \in 0..MaxCalls
  BY <1>1 DEF TypeOK
<1> HIDE DEF m, e
<1> QED BY <1>1, <1>2, <1>6, <1>8, <1>9, RequestsTyped DEF Steps

LEMMA GetStatusType ==
  ASSUME TypeOK, NEW r \in Requests, GetStatus(r)
  PROVE  TypeOK'
<1> DEFINE m == [mem[r] EXCEPT !.swap = Len(statuses)]
<1>1. mem[r] \in Memory /\ Len(statuses) \in Nat
  BY Domains DEF TypeOK
<1>2. m \in Memory
  BY <1>1 DEF Memory
<1>3. UNCHANGED <<store, pullRef, sourceHead, pulls, statuses, statusRow, events, clock, calls>>
  BY DEF GetStatus
<1>4. Goto(r, "put", m) \/ Return(r)
  BY DEF GetStatus
<1> HIDE DEF m
<1>5. CASE Goto(r, "put", m)
  BY <1>2, <1>3, <1>5, LocalType DEF Steps
<1>6. CASE Return(r)
  BY <1>3, <1>6, ReturnType
<1> QED BY <1>4, <1>5, <1>6

LEMMA PutStatusType ==
  ASSUME TypeOK, StatusInv, NEW r \in Requests, RequestInv(r), PutStatus(r)
  PROVE  TypeOK'
<1>1. /\ pc[r] = "put" /\ Return(r)
      /\ UNCHANGED <<store, pullRef, sourceHead, pulls, statusRow, events, clock, calls>>
  BY DEF PutStatus
<1>2. CASE Len(statuses) = mem[r].swap /\ statuses' = Append(statuses, Stored(mem[r].status))
  <2>1. Stored(mem[r].status) \in Statuses
    BY <1>1, StoredFacts DEF RequestInv, Truthful
  <2>2. statuses' \in Seq(Statuses) /\ Len(statuses') = Len(statuses) + 1
    BY <1>2, <2>1, AppendContinues DEF TypeOK
  <2>3. statusRow' \in 0..Len(statuses')
    BY <1>1, <2>2, Domains DEF TypeOK
  <2>4. pc' \in [Requests -> Steps] /\ mem' \in [Requests -> Memory]
    BY <1>1, GotoFacts, ForgottenType DEF Return, Steps
  <2> QED BY <1>1, <2>2, <2>3, <2>4 DEF TypeOK, store
<1>3. CASE UNCHANGED statuses
  BY <1>1, <1>3, ReturnType
<1> QED BY <1>2, <1>3 DEF PutStatus

LEMMA PushType ==
  ASSUME TypeOK, Push PROVE TypeOK'
<1> DEFINE c == [first |-> tip, second |-> 0, trailers |-> None]
<1>1. /\ Len(commits) < MaxCommits /\ commits' = Append(commits, c)
      /\ tip' = Len(commits') /\ landed' = landed \cup {tip'}
      /\ UNCHANGED <<pullRef, sourceHead, pulls, statuses, statusRow, events, clock, pc, mem, calls>>
  BY DEF Push
<1>2. tip \in 0..MaxCommits /\ 0 \in 0..MaxHeads
  BY Domains, BoundsAssumption DEF TypeOK
<1>3. c \in Commits
  BY <1>2 DEF Commits
<1>4. /\ commits' \in Seq(Commits) /\ Len(commits') \in 1..MaxCommits
      /\ tip' \in 1..Len(commits') /\ landed' \subseteq 1..Len(commits')
  <2> HIDE DEF c
  <2> QED BY <1>1, <1>3, CommitType
<1> QED BY <1>1, <1>4 DEF TypeOK

LEMMA ForcePushType ==
  ASSUME TypeOK, CommitInv, ForcePush PROVE TypeOK'
<1>1. /\ commits[tip].first # 0 /\ tip' = commits[tip].first /\ landed' = landed \ {tip}
      /\ UNCHANGED <<commits, pullRef, sourceHead, pulls, statuses, statusRow, events, clock,
                     pc, mem, calls>>
  BY DEF ForcePush
<1>2. tip \in DOMAIN commits /\ tip \in 1..Len(commits) /\ Len(commits) \in Nat
  BY Domains DEF TypeOK
<1>3. commits[tip].first \in Nat /\ commits[tip].first < tip
  BY <1>2, Domains DEF CommitInv, Commits
<1>4. tip' \in 1..Len(commits')
  BY <1>1, <1>2, <1>3
<1> QED BY <1>1, <1>4 DEF TypeOK

LEMMA ReviseType ==
  ASSUME TypeOK, Revise PROVE TypeOK'
<1>1. /\ Len(pulls) < MaxRevisions /\ pulls' = Append(pulls, sourceHead)
      /\ UNCHANGED <<store, pullRef, sourceHead, statuses, statusRow, events, clock, pc, mem, calls>>
  BY DEF Revise
<1>2. pulls' \in Seq(1..MaxHeads) /\ Len(pulls') = Len(pulls) + 1
  BY <1>1, AppendContinues DEF TypeOK
<1>3. Len(pulls') \in 1..MaxRevisions
  BY <1>1, <1>2, Domains, BoundsAssumption
<1> QED BY <1>1, <1>2, <1>3 DEF TypeOK, store

LEMMA PushSourceType ==
  ASSUME TypeOK, PushSource PROVE TypeOK'
<1>1. sourceHead' \in 1..MaxHeads
  BY BoundsAssumption DEF TypeOK, PushSource
<1> QED BY <1>1 DEF TypeOK, PushSource, store

LEMMA ProjectStatusType ==
  ASSUME TypeOK, ProjectStatus PROVE TypeOK'
<1>1. statusRow' \in 0..Len(statuses)
  BY Domains DEF TypeOK, ProjectStatus
<1> QED BY <1>1 DEF TypeOK, ProjectStatus, store

LEMMA TypeStep ==
  ASSUME Inv, Next PROVE TypeOK'
<1>1. TypeOK /\ ClockInv /\ StatusInv /\ CommitInv /\ \A r \in Requests : RequestInv(r)
  BY DEF Inv
<1>2. ASSUME NEW r \in Requests, NEW s \in Strategies, BeginMerge(r, s) PROVE TypeOK'
  BY <1>1, <1>2, BeginMergeType
<1>3. ASSUME NEW r \in Requests, NEW s \in {"open", "closed"}, BeginStatus(r, s) PROVE TypeOK'
  BY <1>1, <1>3, BeginStatusType
<1>4. ASSUME NEW r \in Requests, InspectHead(r) \/ FetchRemote(r) \/ Revalidate(r) PROVE TypeOK'
  BY <1>1, <1>4, InspectHeadType, FetchRemoteType, RevalidateType
<1>5. ASSUME NEW r \in Requests, ReadTip(r) \/ AdvanceRef(r) \/ RecordEvent(r) PROVE TypeOK'
  BY <1>1, <1>5, ReadTipType, AdvanceRefType, RecordEventType
<1>6. ASSUME NEW r \in Requests, GetStatus(r) \/ PutStatus(r) PROVE TypeOK'
  BY <1>1, <1>6, GetStatusType, PutStatusType
<1>7. ASSUME NEW r \in Requests, Stop(r) PROVE TypeOK'
  BY <1>1, <1>7, ReturnType DEF Stop
<1>8. CASE Push \/ ForcePush \/ PushSource \/ Revise \/ ProjectStatus
  BY <1>1, <1>8, PushType, ForcePushType, PushSourceType, ReviseType, ProjectStatusType
<1> QED BY <1>2, <1>3, <1>4, <1>5, <1>6, <1>7, <1>8 DEF Next
-----------------------------------------------------------------------------
\* Nothing is taken back.

LEMMA SelfContinues ==
  TypeOK => Continues(commits, commits) /\ Continues(pulls, pulls) /\ Continues(statuses, statuses)
BY Domains DEF Continues

\* The steps that write no sequence.
LEMMA GrowsUnchanged ==
  ASSUME TypeOK, UNCHANGED <<commits, pulls, statuses>>, events \subseteq events', clock <= clock'
  PROVE  Grows
<1>1. /\ Continues(commits', commits) /\ Continues(pulls', pulls)
      /\ Continues(statuses', statuses)
  BY SelfContinues
<1> QED BY <1>1 DEF Grows

LEMMA GrowsStep ==
  ASSUME Inv, Next PROVE Grows
<1>1. TypeOK /\ StatusInv /\ clock \in Nat /\ clock <= clock /\ \A r \in Requests : RequestInv(r)
  BY DEF Inv, TypeOK
<1>2. ASSUME NEW r \in Requests, NEW s \in Strategies, BeginMerge(r, s) PROVE Grows
  BY <1>1, <1>2, GrowsUnchanged DEF BeginMerge, store
<1>3. ASSUME NEW r \in Requests, NEW s \in {"open", "closed"}, BeginStatus(r, s) PROVE Grows
  <2>1. clock <= clock'
    BY <1>1, <1>3 DEF BeginStatus
  <2> QED BY <1>1, <1>3, <2>1, GrowsUnchanged DEF BeginStatus, store
<1>4. ASSUME NEW r \in Requests, InspectHead(r) \/ FetchRemote(r) \/ Revalidate(r) PROVE Grows
  <2>1. UNCHANGED <<commits, pulls, statuses, events, clock>>
    BY <1>4 DEF InspectHead, FetchRemote, Revalidate, store
  <2> QED BY <1>1, <2>1, GrowsUnchanged
<1>5. ASSUME NEW r \in Requests, ReadTip(r) \/ GetStatus(r) \/ Stop(r) PROVE Grows
  <2>1. UNCHANGED <<commits, pulls, statuses, events, clock>>
    BY <1>5 DEF ReadTip, GetStatus, Stop, store
  <2> QED BY <1>1, <2>1, GrowsUnchanged
<1>6. ASSUME NEW r \in Requests, AdvanceRef(r) PROVE Grows
  <2>1. pc[r] = "merge" /\ UNCHANGED <<pulls, statuses, events, clock>>
    BY <1>6 DEF AdvanceRef
  <2>2. CASE commits' = Append(commits, MergedCommit(r))
    <3>1. Continues(commits', commits)
      BY <1>1, <2>1, <2>2, NewCommit, AppendContinues DEF TypeOK
    <3> QED BY <1>1, <2>1, <3>1, SelfContinues DEF Grows
  <2>3. CASE UNCHANGED commits
    BY <1>1, <2>1, <2>3, GrowsUnchanged
  <2> QED BY <1>6, <2>2, <2>3 DEF AdvanceRef, store
<1>7. ASSUME NEW r \in Requests, RecordEvent(r) PROVE Grows
  <2>1. clock <= clock' /\ events \subseteq events'
    BY <1>1, <1>7 DEF RecordEvent
  <2> QED BY <1>1, <1>7, <2>1, GrowsUnchanged DEF RecordEvent, store
<1>8. ASSUME NEW r \in Requests, PutStatus(r) PROVE Grows
  <2>1. pc[r] = "put" /\ UNCHANGED <<commits, pulls, events, clock>>
    BY <1>8 DEF PutStatus, store
  <2>2. CASE Len(statuses) = mem[r].swap /\ statuses' = Append(statuses, Stored(mem[r].status))
    <3>0. Stored(mem[r].status) \in Statuses
      BY <1>1, <2>1, StoredFacts DEF RequestInv, Truthful
    <3>1. Continues(statuses', statuses)
      BY <1>1, <2>2, <3>0, AppendContinues DEF TypeOK
    <3> QED BY <1>1, <2>1, <3>1, SelfContinues DEF Grows
  <2>3. CASE UNCHANGED statuses
    BY <1>1, <2>1, <2>3, GrowsUnchanged
  <2> QED BY <1>8, <2>2, <2>3 DEF PutStatus
<1>9. CASE Push
  <2> DEFINE c == [first |-> tip, second |-> 0, trailers |-> None]
  <2>1. commits' = Append(commits, c) /\ UNCHANGED <<pulls, statuses, events, clock>>
    BY <1>9 DEF Push
  <2>2. tip \in 0..MaxCommits /\ 0 \in 0..MaxHeads
    BY <1>1, Domains, BoundsAssumption DEF TypeOK
  <2>3. c \in Commits
    BY <2>2 DEF Commits
  <2>4. Continues(commits', commits)
    <3> HIDE DEF c
    <3> QED BY <1>1, <2>1, <2>3, AppendContinues DEF TypeOK
  <2> QED BY <1>1, <2>1, <2>4, SelfContinues DEF Grows
<1>10. CASE Revise
  <2>1. pulls' = Append(pulls, sourceHead) /\ UNCHANGED <<commits, statuses, events, clock>>
    BY <1>10 DEF Revise, store
  <2>2. Continues(pulls', pulls)
    BY <1>1, <2>1, AppendContinues DEF TypeOK
  <2> QED BY <1>1, <2>1, <2>2, SelfContinues DEF Grows
<1>11. CASE ForcePush \/ PushSource \/ ProjectStatus
  <2>1. UNCHANGED <<commits, pulls, statuses, events, clock>>
    BY <1>11 DEF ForcePush, PushSource, ProjectStatus, store
  <2> QED BY <1>1, <2>1, GrowsUnchanged
<1> QED BY <1>2, <1>3, <1>4, <1>5, <1>6, <1>7, <1>8, <1>9, <1>10, <1>11 DEF Next

-----------------------------------------------------------------------------
\* What was true of a commit, a status or a waiting request stays true.

LEMMA Kept ==
  ASSUME TypeOK, TypeOK', Grows
  PROVE  /\ \A c \in DOMAIN commits : c \in DOMAIN commits' /\ commits'[c] = commits[c]
         /\ \A i \in DOMAIN pulls : i \in DOMAIN pulls' /\ pulls'[i] = pulls[i]
         /\ \A i \in DOMAIN statuses : i \in DOMAIN statuses' /\ statuses'[i] = statuses[i]
         /\ Len(statuses) <= Len(statuses')
         /\ DOMAIN commits' = 1..Len(commits') /\ DOMAIN pulls' = 1..Len(pulls')
         /\ DOMAIN statuses' = 1..Len(statuses') /\ Len(statuses') \in Nat
<1>1. /\ DOMAIN commits' = 1..Len(commits') /\ Len(commits') \in Nat
      /\ DOMAIN pulls' = 1..Len(pulls') /\ Len(pulls') \in Nat
      /\ DOMAIN statuses' = 1..Len(statuses') /\ Len(statuses') \in Nat
  BY LenProperties DEF TypeOK
<1>2. /\ Len(commits) <= Len(commits') /\ Len(pulls) <= Len(pulls')
      /\ Len(statuses) <= Len(statuses')
      /\ \A c \in 1..Len(commits) : commits'[c] = commits[c]
      /\ \A i \in 1..Len(pulls) : pulls'[i] = pulls[i]
      /\ \A i \in 1..Len(statuses) : statuses'[i] = statuses[i]
  BY DEF Grows, Continues
<1>3. /\ 1..Len(commits) \subseteq 1..Len(commits') /\ 1..Len(pulls) \subseteq 1..Len(pulls')
      /\ 1..Len(statuses) \subseteq 1..Len(statuses')
  BY <1>1, <1>2, Domains
<1> QED BY <1>1, <1>2, <1>3, Domains

LEMMA MergesStays ==
  ASSUME TypeOK, TypeOK', Grows, NEW c, NEW cid, MergesRevision(c, cid)
  PROVE  MergesRevision(c, cid)'
BY Kept DEF MergesRevision

LEMMA TruthfulStays ==
  ASSUME TypeOK, TypeOK', Grows, NEW s, Truthful(s)
  PROVE  Truthful(s)'
<1>1. s \in Statuses /\ s.cid \in DOMAIN pulls' /\ s.at \in Nat /\ s.at <= clock
  BY Kept DEF Truthful, Statuses
<1>2. s.at <= clock'
  <2>1. clock \in Nat /\ clock' \in Nat /\ clock <= clock'
    BY DEF TypeOK, Grows
  <2> QED BY <1>1, <2>1
<1>3. s.state = "merged" =>
        MergesRevision(s.sha, s.cid)' /\ [cid |-> s.cid, sha |-> s.sha] \in events'
  BY MergesStays DEF Truthful, Grows
<1> QED BY <1>1, <1>2, <1>3 DEF Truthful

LEMMA OthersStay ==
  ASSUME TypeOK, TypeOK', Grows, NEW q \in Requests, RequestInv(q),
         pc'[q] = pc[q], mem'[q] = mem[q]
  PROVE  RequestInv(q)'
<1>1. pc[q] \in {"inspect", "fetch", "revalidate", "tip", "merge"} =>
        /\ mem'[q].strategy \in Strategies /\ mem'[q].target.cid \in DOMAIN pulls'
        /\ MergeTrailers(q)' = MergeTrailers(q)
  BY Kept DEF RequestInv, MergeTrailers, DeclaredHead
<1>2. pc[q] \in {"fetch", "revalidate"} => mem'[q].fetch \in DOMAIN pulls'
  BY Kept DEF RequestInv
<1>3. pc[q] = "merge" => /\ mem'[q].seen \in DOMAIN commits'
                         /\ commits'[mem'[q].seen].trailers # MergeTrailers(q)'
  BY <1>1, Kept DEF RequestInv
<1>4. pc[q] = "event" => MergesRevision(mem[q].result, mem[q].target.cid)'
  <2> DEFINE c == mem[q].result
             cid == mem[q].target.cid
  <2>1. pc[q] = "event" => MergesRevision(c, cid)
    BY DEF RequestInv
  <2> HIDE DEF c, cid
  <2> QED BY <2>1, Kept DEF MergesRevision, c, cid
<1>5. pc[q] \in {"get", "put"} => Truthful(mem[q].status)'
  BY TruthfulStays DEF RequestInv
<1>6. pc[q] = "put" => /\ mem'[q].swap \in 0..Len(statuses')
                       /\ mem'[q].swap # 0 => statuses'[mem'[q].swap].at < mem'[q].status.at
  BY Kept, Domains DEF RequestInv
<1> QED BY <1>1, <1>2, <1>3, <1>4, <1>5, <1>6 DEF RequestInv

\* A request that returned remembers nothing that matters.
LEMMA ReturnInv ==
  ASSUME TypeOK, NEW r \in Requests, Return(r)
  PROVE  RequestInv(r)'
<1>1. pc'[r] = "idle"
  BY GotoFacts, ForgottenType DEF Return
<1> QED BY <1>1 DEF RequestInv

\* The steps before the tip is read.
LEMMA BeginMergeInv ==
  ASSUME TypeOK, NEW r \in Requests, NEW s \in Strategies, BeginMerge(r, s)
  PROVE  RequestInv(r)'
<1> DEFINE m == [Forgotten EXCEPT !.target = GetMergeTarget, !.strategy = s]
<1>1. pc'[r] = "inspect" /\ mem'[r] = m /\ pulls' = pulls
  BY GotoFacts DEF BeginMerge
<1>2. m.strategy = s /\ m.target = GetMergeTarget
  BY DEF Forgotten
<1>3. m.target.cid \in DOMAIN pulls
  BY <1>2, MergeTargetType, Domains
<1> HIDE DEF m
<1> QED BY <1>1, <1>2, <1>3 DEF RequestInv

LEMMA InspectHeadInv ==
  ASSUME TypeOK, NEW r \in Requests, RequestInv(r), InspectHead(r)
  PROVE  RequestInv(r)'
<1>1. /\ pc[r] = "inspect" /\ pulls' = pulls /\ mem[r] \in Memory
      /\ \/ Goto(r, "revalidate", [mem[r] EXCEPT !.fetch = PullRow])
         \/ Goto(r, "fetch", [mem[r] EXCEPT !.fetch = PullRow, !.prior = pullRef])
  BY DEF InspectHead, TypeOK
<1>2. /\ pc'[r] \in {"revalidate", "fetch"}
      /\ \/ mem'[r] = [mem[r] EXCEPT !.fetch = PullRow]
         \/ mem'[r] = [mem[r] EXCEPT !.fetch = PullRow, !.prior = pullRef]
  BY <1>1, GotoFacts
<1>3. /\ mem'[r].strategy = mem[r].strategy /\ mem'[r].target = mem[r].target
      /\ mem'[r].fetch = Len(pulls)
  BY <1>1, <1>2, MergeTargetType DEF Memory
<1>4. Len(pulls) \in DOMAIN pulls
  BY Domains
<1> QED BY <1>1, <1>2, <1>3, <1>4 DEF RequestInv

LEMMA FetchRemoteInv ==
  ASSUME TypeOK, NEW r \in Requests, RequestInv(r), FetchRemote(r)
  PROVE  RequestInv(r)'
<1>1. /\ pc[r] = "fetch" /\ pulls' = pulls /\ mem[r] \in Memory
      /\ Goto(r, "revalidate", [mem[r] EXCEPT !.prior = 0]) \/ Return(r)
  BY DEF FetchRemote, TypeOK
<1>2. CASE Goto(r, "revalidate", [mem[r] EXCEPT !.prior = 0])
  <2>1. pc'[r] = "revalidate" /\ mem'[r] = [mem[r] EXCEPT !.prior = 0]
    BY <1>2, GotoFacts
  <2>2. /\ mem'[r].strategy = mem[r].strategy /\ mem'[r].target = mem[r].target
        /\ mem'[r].fetch = mem[r].fetch
    BY <1>1, <2>1 DEF Memory
  <2> QED BY <1>1, <2>1, <2>2 DEF RequestInv
<1> QED BY <1>1, <1>2, ReturnInv

LEMMA RevalidateInv ==
  ASSUME TypeOK, NEW r \in Requests, RequestInv(r), Revalidate(r)
  PROVE  RequestInv(r)'
<1> DEFINE m == [mem[r] EXCEPT !.fetch = 0, !.target.dated = FALSE]
<1>1. /\ pc[r] = "revalidate" /\ pulls' = pulls /\ mem[r] \in Memory
      /\ Goto(r, "tip", m) \/ Return(r)
  BY DEF Revalidate, TypeOK
<1>2. m.strategy = mem[r].strategy /\ m.target.cid = mem[r].target.cid
  BY <1>1 DEF Memory, Targets
<1> HIDE DEF m
<1>3. CASE Goto(r, "tip", m)
  <2>1. pc'[r] = "tip" /\ mem'[r] = m
    BY <1>3, GotoFacts
  <2> QED BY <1>1, <1>2, <2>1 DEF RequestInv
<1> QED BY <1>1, <1>3, ReturnInv

\* A commit with a request's trailers is recognized, so what the merge builds
\* on has other trailers.
LEMMA TrailersRecognized ==
  ASSUME TypeOK, CommitInv, NEW r \in Requests, RequestInv(r), pc[r] = "tip"
  PROVE  /\ RecognizedMerge(r, tip) => MergesRevision(tip, mem[r].target.cid)
         /\ ~RecognizedMerge(r, tip) => commits[tip].trailers # MergeTrailers(r)
<1>1. /\ mem[r].strategy \in Strategies /\ mem[r].target.cid \in DOMAIN pulls
      /\ tip \in DOMAIN commits
  BY Domains DEF RequestInv, TypeOK
<1>2. MergeTrailers(r) # None
  <2>1. DeclaredHead(r) \in 1..MaxHeads /\ mem[r].target.cid \in 1..MaxRevisions
    BY <1>1, Domains DEF DeclaredHead, TypeOK, Memory, Targets
  <2> QED BY <1>1, <2>1, BoundsAssumption DEF MergeTrailers, Trailers
<1>3. /\ MergeTrailers(r).cid = mem[r].target.cid
      /\ MergeTrailers(r).head = pulls[mem[r].target.cid]
      /\ MergeTrailers(r).strategy = mem[r].strategy
  BY DEF MergeTrailers, DeclaredHead
<1>4. commits[tip].trailers = MergeTrailers(r) => MergesRevision(tip, mem[r].target.cid)
  BY <1>1, <1>2, <1>3 DEF CommitInv
<1>5. commits[tip].trailers = MergeTrailers(r) => RecognizedMerge(r, tip)
  <2> SUFFICES ASSUME commits[tip].trailers = MergeTrailers(r) PROVE RecognizedMerge(r, tip)
    OBVIOUS
  <2>1. MergesRevision(tip, mem[r].target.cid)
    BY <1>4
  <2> QED BY <1>3, <2>1 DEF MergesRevision, RecognizedMerge, DeclaredHead
<1> QED BY <1>4, <1>5 DEF RecognizedMerge

LEMMA ReadTipInv ==
  ASSUME TypeOK, TypeOK', CommitInv, Grows, NEW r \in Requests, RequestInv(r), ReadTip(r)
  PROVE  RequestInv(r)'
<1>1. pc[r] = "tip" /\ mem[r] \in Memory /\ UNCHANGED <<commits, pulls>>
  BY DEF ReadTip, TypeOK, store
<1>2. CASE RecognizedMerge(r, tip)
  <2> DEFINE m == [Forgotten EXCEPT !.target.cid = mem[r].target.cid, !.result = tip]
  <2>1. pc'[r] = "event" /\ mem'[r] = m
    BY <1>2, GotoFacts DEF ReadTip
  <2>2. m.target.cid = mem[r].target.cid /\ m.result = tip
    BY DEF Forgotten
  <2>3. MergesRevision(tip, mem[r].target.cid)
    BY <1>1, <1>2, TrailersRecognized
  <2> HIDE DEF m
  <2>4. mem'[r].target.cid = mem[r].target.cid /\ mem'[r].result = tip
    BY <2>1, <2>2
  <2>5. MergesRevision(mem[r].result, mem[r].target.cid)'
    BY <1>1, <2>3, <2>4 DEF MergesRevision
  <2> QED BY <2>1, <2>5 DEF RequestInv
<1>3. CASE ~RecognizedMerge(r, tip)
  <2>1. pc'[r] = "merge" /\ mem'[r] = [mem[r] EXCEPT !.seen = tip]
    BY <1>3, GotoFacts DEF ReadTip
  <2>2. /\ mem'[r].strategy = mem[r].strategy /\ mem'[r].target = mem[r].target
        /\ mem'[r].seen = tip
    BY <1>1, <2>1 DEF Memory
  <2>3. commits[tip].trailers # MergeTrailers(r) /\ tip \in DOMAIN commits
    BY <1>1, <1>3, TrailersRecognized, Domains DEF TypeOK
  <2>4. MergeTrailers(r)' = MergeTrailers(r)
    BY <1>1, <2>2 DEF MergeTrailers, DeclaredHead
  <2> QED BY <1>1, <2>1, <2>2, <2>3, <2>4 DEF RequestInv
<1> QED BY <1>2, <1>3

\* The commit that a merge adds merges the request's revision.
LEMMA AdvancedMerges ==
  ASSUME TypeOK, TypeOK', NEW r \in Requests, RequestInv(r), pc[r] = "merge",
         commits' = Append(commits, MergedCommit(r)), UNCHANGED pulls,
         NEW n, n = Len(commits'), NEW cid, cid = mem[r].target.cid
  PROVE  /\ n = Len(commits) + 1 /\ commits'[n] = MergedCommit(r)
         /\ commits'[n].first = mem[r].seen /\ commits'[n].trailers = MergeTrailers(r)
         /\ mem[r].seen \in 1..Len(commits)
         /\ MergesRevision(n, cid)'
<1>1. MergedCommit(r) \in Commits /\ MergedCommit(r).trailers # None
  BY NewCommit
<1>2. n = Len(commits) + 1 /\ commits'[n] = MergedCommit(r)
  BY <1>1, AppendContinues DEF TypeOK
<1>3. n \in DOMAIN commits'
  <2>1. DOMAIN commits' = 1..Len(commits') /\ Len(commits') \in 1..MaxCommits
    BY LenProperties DEF TypeOK
  <2> QED BY <2>1
<1>4. /\ cid \in DOMAIN pulls' /\ mem[r].seen \in 1..Len(commits) /\ mem[r].seen # 0
      /\ mem[r].strategy \in Strategies /\ DeclaredHead(r) = pulls'[cid]
  BY Domains DEF RequestInv, DeclaredHead
<1>5. /\ commits'[n].first = mem[r].seen /\ commits'[n].trailers = MergeTrailers(r)
      /\ commits'[n].second = IF mem[r].strategy = "merge-commit" THEN pulls'[cid] ELSE 0
  BY <1>2, <1>4 DEF MergedCommit
<1>6. /\ MergeTrailers(r).cid = cid /\ MergeTrailers(r).head = pulls'[cid]
      /\ MergeTrailers(r).strategy = mem[r].strategy /\ MergeTrailers(r) # None
  BY <1>1, <1>4 DEF MergeTrailers, MergedCommit
<1>7. MergesRevision(n, cid)'
  BY <1>3, <1>4, <1>5, <1>6 DEF MergesRevision, Strategies
<1> QED BY <1>2, <1>4, <1>5, <1>7

LEMMA AdvanceRefInv ==
  ASSUME TypeOK, TypeOK', NEW r \in Requests, RequestInv(r), AdvanceRef(r)
  PROVE  RequestInv(r)'
<1>1. pc[r] = "merge" /\ UNCHANGED pulls
  BY DEF AdvanceRef
<1>2. CASE /\ commits' = Append(commits, MergedCommit(r)) /\ tip' = Len(commits')
           /\ Goto(r, "event", [Forgotten EXCEPT !.target.cid = mem[r].target.cid,
                                                 !.result = tip'])
  <2> DEFINE m == [Forgotten EXCEPT !.target.cid = mem[r].target.cid, !.result = tip']
  <2>1. pc'[r] = "event" /\ mem'[r] = m
    BY <1>2, GotoFacts
  <2>2. m.target.cid = mem[r].target.cid /\ m.result = tip'
    BY DEF Forgotten
  <2> HIDE DEF m
  <2>3. PICK n, cid : n = Len(commits') /\ cid = mem[r].target.cid
    OBVIOUS
  <2>4. MergesRevision(n, cid)'
    BY <1>1, <1>2, <2>3, AdvancedMerges
  <2>5. mem'[r].result = n /\ mem'[r].target.cid = cid
    BY <1>2, <2>1, <2>2, <2>3
  <2>6. MergesRevision(mem[r].result, mem[r].target.cid)'
    BY <2>4, <2>5
  <2> QED BY <2>1, <2>6 DEF RequestInv
<1>3. CASE Return(r)
  BY <1>3, ReturnInv
<1> QED BY <1>2, <1>3 DEF AdvanceRef

LEMMA RecordEventInv ==
  ASSUME TypeOK, TypeOK', ClockInv, NEW r \in Requests, RequestInv(r), RecordEvent(r)
  PROVE  RequestInv(r)'
<1> DEFINE st == [cid |-> mem[r].target.cid, state |-> "merged", sha |-> mem[r].result,
                  at |-> clock']
           m == [Forgotten EXCEPT !.status = st]
<1>1. /\ pc[r] = "event" /\ Goto(r, "get", m) /\ UNCHANGED <<commits, pulls>>
      /\ [cid |-> mem[r].target.cid, sha |-> mem[r].result] \in events' /\ clock' = clock + 1
  BY DEF RecordEvent, store
<1>2. pc'[r] = "get" /\ mem'[r] = m
  BY <1>1, GotoFacts
<1>3. m.status = st
  BY DEF Forgotten
<1>4. MergesRevision(mem[r].result, mem[r].target.cid)
  BY <1>1 DEF RequestInv
<1>5. clock' \in 1..MaxCalls /\ clock' <= clock'
  BY <1>1, ClockBound
<1>6. st \in Statuses
  <2>1. mem[r].result \in 1..Len(commits) /\ mem[r].target.cid \in 1..Len(pulls)
    BY <1>4, Domains DEF MergesRevision
  <2>2. mem[r].result \in 1..MaxCommits /\ mem[r].target.cid \in 1..MaxRevisions
    BY <2>1, Domains, BoundsAssumption
  <2> QED BY <1>5, <2>2 DEF Statuses, States
<1>7. PICK s : s = st
  OBVIOUS
<1>8. /\ s \in Statuses /\ s.cid = mem[r].target.cid /\ s.sha = mem[r].result
      /\ s.at = clock' /\ mem'[r].status = s
  BY <1>2, <1>3, <1>6, <1>7
<1>9. [cid |-> s.cid, sha |-> s.sha] \in events' /\ MergesRevision(s.sha, s.cid)
  BY <1>1, <1>4, <1>8
<1>10. MergesRevision(s.sha, s.cid)' /\ s.cid \in DOMAIN pulls'
  BY <1>1, <1>9 DEF MergesRevision
<1>11. Truthful(s)'
  BY <1>5, <1>8, <1>9, <1>10 DEF Truthful
<1>12. Truthful(mem[r].status)'
  BY <1>8, <1>11
<1> QED BY <1>2, <1>12 DEF RequestInv

LEMMA BeginStatusInv ==
  ASSUME TypeOK, TypeOK', ClockInv, NEW r \in Requests, NEW s \in {"open", "closed"},
         BeginStatus(r, s)
  PROVE  RequestInv(r)'
<1> DEFINE st == [cid |-> PullRow, state |-> s, sha |-> None, at |-> clock']
           m == [Forgotten EXCEPT !.status = st]
<1>1. Goto(r, "get", m) /\ UNCHANGED pulls /\ clock' = clock + 1 /\ Called
  BY DEF BeginStatus
<1>2. pc'[r] = "get" /\ mem'[r] = m /\ m.status = st
  BY <1>1, GotoFacts DEF Forgotten
<1>3. clock' \in 1..MaxCalls /\ clock' <= clock'
  BY <1>1, ClockBound DEF Called
<1>4. st \in Statuses /\ st.cid \in DOMAIN pulls'
  BY <1>1, <1>3, Domains DEF Statuses, States, PullRow
<1>5. st.state # "merged" /\ st.at = clock'
  OBVIOUS
<1>6. PICK t : t = st
  OBVIOUS
<1> HIDE DEF st
<1>7. Truthful(t)'
  BY <1>3, <1>4, <1>5, <1>6 DEF Truthful
<1>8. Truthful(mem[r].status)'
  BY <1>2, <1>6, <1>7
<1> QED BY <1>2, <1>8 DEF RequestInv

LEMMA GetStatusInv ==
  ASSUME TypeOK, TypeOK', Grows, NEW r \in Requests, RequestInv(r), GetStatus(r)
  PROVE  RequestInv(r)'
<1>1. pc[r] = "get" /\ mem[r] \in Memory /\ statuses' = statuses /\ Truthful(mem[r].status)
  BY DEF GetStatus, TypeOK, RequestInv
<1> DEFINE refused == /\ statuses # <<>>
                     /\ \/ statuses[Len(statuses)] = Stored(mem[r].status)
                        \/ statuses[Len(statuses)].at >= mem[r].status.at
<1>2. CASE ~refused
  <2> DEFINE n == Len(statuses)
  <2>1. pc'[r] = "put" /\ mem'[r] = [mem[r] EXCEPT !.swap = n]
    BY <1>2, GotoFacts DEF GetStatus
  <2>2. mem'[r].status = mem[r].status /\ mem'[r].swap = n
    BY <1>1, <2>1 DEF Memory
  <2>3. n \in 0..n /\ n \in Nat /\ mem[r].status.at \in Nat
    BY <1>1, Domains DEF Truthful, Statuses
  <2>4. n # 0 => statuses[n].at < mem[r].status.at
    <3> SUFFICES ASSUME n # 0 PROVE statuses[n].at < mem[r].status.at
      OBVIOUS
    <3>1. n \in DOMAIN statuses
      BY <2>3, Domains
    <3>2. statuses # <<>> /\ statuses[n].at \in Nat
      BY <3>1, Domains DEF Statuses
    <3>3. ~(statuses[n].at >= mem[r].status.at)
      BY <1>2, <3>2
    <3> HIDE DEF n
    <3> QED BY <3>2, <3>3, <2>3
  <2>5. PICK s : s = mem[r].status
    OBVIOUS
  <2>6. Truthful(s)'
    BY <1>1, <2>5, TruthfulStays
  <2>7. Truthful(mem[r].status)'
    BY <2>2, <2>5, <2>6
  <2> QED BY <1>1, <2>1, <2>2, <2>3, <2>4, <2>7 DEF RequestInv
<1>3. CASE refused
  BY <1>3, ReturnInv DEF GetStatus
<1> QED BY <1>2, <1>3

\* One request moves; the others stay where they are.
LEMMA RequestStep ==
  ASSUME Inv, Next, TypeOK', Grows, NEW q \in Requests
  PROVE  RequestInv(q)'
<1>1. TypeOK /\ ClockInv /\ CommitInv /\ \A r \in Requests : RequestInv(r)
  BY DEF Inv
<1>2. ASSUME NEW r \in Requests, NEW step, NEW m, Goto(r, step, m), q # r
      PROVE  RequestInv(q)'
  <2>1. pc'[q] = pc[q] /\ mem'[q] = mem[q]
    BY <1>1, <1>2, GotoFacts
  <2> QED BY <1>1, <2>1, OthersStay
<1>3. ASSUME NEW r \in Requests, Return(r), q # r PROVE RequestInv(q)'
  BY <1>2, <1>3 DEF Return
<1>4. ASSUME NEW r \in Requests, NEW s \in Strategies, BeginMerge(r, s) PROVE RequestInv(q)'
  <2>1. CASE q = r
    BY <1>1, <1>4, <2>1, BeginMergeInv
  <2> QED BY <1>2, <1>4, <2>1 DEF BeginMerge
<1>5. ASSUME NEW r \in Requests, NEW s \in {"open", "closed"}, BeginStatus(r, s)
      PROVE  RequestInv(q)'
  <2>1. CASE q = r
    BY <1>1, <1>5, <2>1, BeginStatusInv
  <2> QED BY <1>2, <1>5, <2>1 DEF BeginStatus
<1>6. ASSUME NEW r \in Requests, InspectHead(r) PROVE RequestInv(q)'
  <2>1. CASE q = r
    BY <1>1, <1>6, <2>1, InspectHeadInv
  <2> QED BY <1>2, <1>6, <2>1 DEF InspectHead
<1>7. ASSUME NEW r \in Requests, FetchRemote(r) PROVE RequestInv(q)'
  <2>1. CASE q = r
    BY <1>1, <1>7, <2>1, FetchRemoteInv
  <2> QED BY <1>2, <1>3, <1>7, <2>1 DEF FetchRemote
<1>8. ASSUME NEW r \in Requests, Revalidate(r) PROVE RequestInv(q)'
  <2>1. CASE q = r
    BY <1>1, <1>8, <2>1, RevalidateInv
  <2> QED BY <1>2, <1>3, <1>8, <2>1 DEF Revalidate
<1>9. ASSUME NEW r \in Requests, ReadTip(r) PROVE RequestInv(q)'
  <2>1. CASE q = r
    BY <1>1, <1>9, <2>1, ReadTipInv
  <2> QED BY <1>2, <1>9, <2>1 DEF ReadTip
<1>10. ASSUME NEW r \in Requests, AdvanceRef(r) PROVE RequestInv(q)'
  <2>1. CASE q = r
    BY <1>1, <1>10, <2>1, AdvanceRefInv
  <2> QED BY <1>2, <1>3, <1>10, <2>1 DEF AdvanceRef
<1>11. ASSUME NEW r \in Requests, RecordEvent(r) PROVE RequestInv(q)'
  <2>1. CASE q = r
    BY <1>1, <1>11, <2>1, RecordEventInv
  <2> QED BY <1>2, <1>11, <2>1 DEF RecordEvent
<1>12. ASSUME NEW r \in Requests, GetStatus(r) PROVE RequestInv(q)'
  <2>1. CASE q = r
    BY <1>1, <1>12, <2>1, GetStatusInv
  <2> QED BY <1>2, <1>3, <1>12, <2>1 DEF GetStatus
<1>13. ASSUME NEW r \in Requests, PutStatus(r) \/ Stop(r) PROVE RequestInv(q)'
  <2>1. Return(r)
    BY <1>13 DEF PutStatus, Stop
  <2> QED BY <1>1, <1>3, <2>1, ReturnInv
<1>14. CASE Push \/ ForcePush \/ PushSource \/ Revise \/ ProjectStatus
  <2>1. pc' = pc /\ mem' = mem
    BY <1>14 DEF Push, ForcePush, PushSource, Revise, ProjectStatus
  <2> QED BY <1>1, <2>1, OthersStay
<1> QED BY <1>4, <1>5, <1>6, <1>7, <1>8, <1>9, <1>10, <1>11, <1>12, <1>13, <1>14 DEF Next

-----------------------------------------------------------------------------
\* The branch.

\* The merge that advances the branch.
Merges(r) ==
  /\ pc[r] = "merge" /\ tip = mem[r].seen /\ Len(commits) < MaxCommits
  /\ commits' = Append(commits, MergedCommit(r))
  /\ tip' = Len(commits') /\ landed' = landed \cup {tip'} /\ UNCHANGED pulls

LEMMA StoreStep ==
  ASSUME Next
  PROVE  UNCHANGED store \/ Push \/ ForcePush \/ \E r \in Requests : Merges(r)
<1>1. ASSUME NEW r \in Requests, AdvanceRef(r) PROVE UNCHANGED store \/ Merges(r)
  BY <1>1 DEF AdvanceRef, Merges
<1>2. ASSUME NEW r \in Requests, NEW s, BeginMerge(r, s) \/ BeginStatus(r, s) PROVE UNCHANGED store
  BY <1>2 DEF BeginMerge, BeginStatus
<1>3. ASSUME NEW r \in Requests, InspectHead(r) \/ FetchRemote(r) \/ Revalidate(r) \/ ReadTip(r)
      PROVE  UNCHANGED store
  BY <1>3 DEF InspectHead, FetchRemote, Revalidate, ReadTip
<1>4. ASSUME NEW r \in Requests, RecordEvent(r) \/ GetStatus(r) \/ PutStatus(r) \/ Stop(r)
      PROVE  UNCHANGED store
  BY <1>4 DEF RecordEvent, GetStatus, PutStatus, Stop
<1>5. ASSUME PushSource \/ Revise \/ ProjectStatus PROVE UNCHANGED store
  BY <1>5 DEF PushSource, Revise, ProjectStatus
<1> QED BY <1>1, <1>2, <1>3, <1>4, <1>5 DEF Next

\* A commit is added after the last, on the tip or on what the merge saw.
LEMMA Added ==
  ASSUME TypeOK, TypeOK', NEW n, n = Len(commits'),
         Push \/ \E r \in Requests : RequestInv(r) /\ Merges(r)
  PROVE  /\ n = Len(commits) + 1 /\ tip' = n /\ landed' = landed \cup {n}
         /\ commits'[n].first = tip
         /\ \A c \in 1..Len(commits) : commits'[c] = commits[c]
         /\ DOMAIN commits' = 1..n
<1>1. CASE Push
  <2> DEFINE c == [first |-> tip, second |-> 0, trailers |-> None]
  <2>1. tip \in 0..MaxCommits /\ 0 \in 0..MaxHeads
    BY Domains, BoundsAssumption DEF TypeOK
  <2>2. c \in Commits
    BY <2>1 DEF Commits
  <2>3. commits' = Append(commits, c) /\ tip' = n /\ landed' = landed \cup {n} /\ c.first = tip
    BY <1>1 DEF Push
  <2> HIDE DEF c
  <2>4. n = Len(commits) + 1 /\ commits'[n] = c
        /\ \A k \in 1..Len(commits) : commits'[k] = commits[k]
    BY <2>2, <2>3, AppendContinues DEF TypeOK
  <2> QED BY <2>3, <2>4, LenProperties DEF TypeOK
<1>2. ASSUME NEW r \in Requests, RequestInv(r), Merges(r)
      PROVE  /\ n = Len(commits) + 1 /\ tip' = n /\ landed' = landed \cup {n}
             /\ commits'[n].first = tip
             /\ \A c \in 1..Len(commits) : commits'[c] = commits[c]
             /\ DOMAIN commits' = 1..n
  <2>1. n = Len(commits) + 1 /\ commits'[n].first = mem[r].seen
    BY <1>2, AdvancedMerges DEF Merges
  <2>2. \A c \in 1..Len(commits) : commits'[c] = commits[c]
    BY <1>2, NewCommit, AppendContinues DEF Merges, TypeOK
  <2> QED BY <1>2, <2>1, <2>2, LenProperties DEF Merges, TypeOK
<1> QED BY <1>1, <1>2

LEMMA CommitStep ==
  ASSUME Inv, Next, TypeOK', Grows
  PROVE  CommitInv'
<1>1. TypeOK /\ CommitInv /\ \A r \in Requests : RequestInv(r)
  BY DEF Inv
<1>2. ASSUME NEW c \in DOMAIN commits
      PROVE  /\ commits'[c].first < c
             /\ commits'[c].trailers # None => MergesRevision(c, commits[c].trailers.cid)'
  <2>1. commits'[c] = commits[c] /\ commits[c].first < c
    BY <1>1, <1>2, Kept DEF CommitInv
  <2>2. commits[c].trailers # None => MergesRevision(c, commits[c].trailers.cid)
    BY <1>1, <1>2 DEF CommitInv
  <2>3. PICK cid : cid = commits[c].trailers.cid
    OBVIOUS
  <2>4. commits[c].trailers # None => MergesRevision(c, cid)'
    BY <1>1, <2>2, <2>3, MergesStays
  <2> QED BY <2>1, <2>3, <2>4 DEF MergesRevision
<1>3. CASE UNCHANGED commits
  BY <1>2, <1>3 DEF CommitInv
<1>4. PICK n : n = Len(commits')
  OBVIOUS
<1>5. ASSUME DOMAIN commits' = 1..n, n = Len(commits) + 1, commits'[n].first < n,
             commits'[n].trailers # None => MergesRevision(n, commits[n].trailers.cid)'
      PROVE  CommitInv'
  <2>1. \A c \in DOMAIN commits' : c \in DOMAIN commits \/ c = n
    BY <1>1, <1>5, Domains
  <2>2. \A c \in DOMAIN commits' :
          /\ commits'[c].first < c
          /\ commits'[c].trailers # None => MergesRevision(c, commits[c].trailers.cid)'
    BY <1>2, <1>5, <2>1
  <2> QED BY <2>2 DEF CommitInv
<1>6. tip < Len(commits) + 1
  BY <1>1 DEF TypeOK
<1>7. CASE Push
  <2>1. DOMAIN commits' = 1..n /\ n = Len(commits) + 1 /\ commits'[n].first < n
    BY <1>1, <1>4, <1>6, <1>7, Added
  <2>2. commits'[n].trailers = None
    <3> DEFINE c == [first |-> tip, second |-> 0, trailers |-> None]
    <3>1. tip \in 0..MaxCommits /\ 0 \in 0..MaxHeads
      BY <1>1, Domains, BoundsAssumption DEF TypeOK
    <3>2. c \in Commits /\ commits' = Append(commits, c) /\ c.trailers = None
      BY <1>7, <3>1 DEF Commits, Push
    <3> HIDE DEF c
    <3> QED BY <1>1, <1>4, <3>2, AppendContinues DEF TypeOK
  <2> QED BY <1>5, <2>1, <2>2
<1>8. ASSUME NEW r \in Requests, Merges(r) PROVE CommitInv'
  <2>1. DOMAIN commits' = 1..n /\ n = Len(commits) + 1 /\ commits'[n].first < n
    BY <1>1, <1>4, <1>6, <1>8, Added
  <2>2. PICK cid : cid = mem[r].target.cid
    OBVIOUS
  <2>3. MergesRevision(n, cid)' /\ commits'[n].trailers = MergeTrailers(r)
    BY <1>1, <1>4, <1>8, <2>2, AdvancedMerges DEF Merges
  <2>4. commits'[n].trailers.cid = cid
    BY <2>2, <2>3 DEF MergeTrailers
  <2>5. MergesRevision(n, commits[n].trailers.cid)'
    BY <2>3, <2>4 DEF MergesRevision
  <2> QED BY <1>5, <2>1, <2>5
<1>9. CASE ForcePush
  BY <1>3, <1>9 DEF ForcePush
<1> QED BY <1>3, <1>7, <1>8, <1>9, StoreStep DEF store

\* Two merges of one revision never follow one another.
LEMMA RetryStep ==
  ASSUME Inv, Next, TypeOK', Grows
  PROVE  RetryRecognized'
<1>1. TypeOK /\ CommitInv /\ RetryRecognized /\ \A r \in Requests : RequestInv(r)
  BY DEF Inv
<1>2. ASSUME NEW c \in DOMAIN commits, commits[c].trailers # None, commits[c].first # 0
      PROVE  commits'[c].trailers # commits'[commits'[c].first].trailers
  <2>1. commits[c].first < c /\ commits[c].first \in Nat /\ c \in 1..Len(commits)
    BY <1>1, <1>2, Domains DEF CommitInv, Commits
  <2>2. commits[c].first \in DOMAIN commits
    BY <1>1, <1>2, <2>1, Domains
  <2> QED BY <1>1, <1>2, <2>2, Kept DEF RetryRecognized
<1>3. \A c \in DOMAIN commits :
        (commits'[c].trailers # None /\ commits'[c].first # 0)
          => commits'[c].trailers # commits'[commits'[c].first].trailers
  BY <1>1, <1>2, Kept
<1>4. CASE UNCHANGED commits
  BY <1>3, <1>4 DEF RetryRecognized
<1>5. PICK n : n = Len(commits')
  OBVIOUS
<1>6. ASSUME DOMAIN commits' = 1..n, n = Len(commits) + 1,
             commits'[n].trailers # None =>
               commits'[n].trailers # commits'[commits'[n].first].trailers
      PROVE  RetryRecognized'
  <2>1. \A c \in DOMAIN commits' : c \in DOMAIN commits \/ c = n
    BY <1>1, <1>6, Domains
  <2> QED BY <1>3, <1>6, <2>1 DEF RetryRecognized
<1>7. CASE Push
  <2>1. DOMAIN commits' = 1..n /\ n = Len(commits) + 1
    BY <1>1, <1>5, <1>7, Added
  <2>2. commits'[n].trailers = None
    <3> DEFINE c == [first |-> tip, second |-> 0, trailers |-> None]
    <3>1. tip \in 0..MaxCommits /\ 0 \in 0..MaxHeads
      BY <1>1, Domains, BoundsAssumption DEF TypeOK
    <3>2. c \in Commits /\ commits' = Append(commits, c) /\ c.trailers = None
      BY <1>7, <3>1 DEF Commits, Push
    <3> HIDE DEF c
    <3> QED BY <1>1, <1>5, <3>2, AppendContinues DEF TypeOK
  <2> QED BY <1>6, <2>1, <2>2
<1>8. ASSUME NEW r \in Requests, Merges(r) PROVE RetryRecognized'
  <2>1. DOMAIN commits' = 1..n /\ n = Len(commits) + 1
    BY <1>1, <1>5, <1>8, Added
  <2>2. /\ commits'[n].trailers = MergeTrailers(r) /\ commits'[n].first = mem[r].seen
        /\ mem[r].seen \in 1..Len(commits)
    BY <1>1, <1>5, <1>8, AdvancedMerges DEF Merges
  <2>3. commits'[mem[r].seen] = commits[mem[r].seen]
    BY <1>1, <2>2, Kept, Domains
  <2>4. commits[mem[r].seen].trailers # MergeTrailers(r)
    BY <1>1, <1>8 DEF RequestInv, Merges
  <2> QED BY <1>6, <2>1, <2>2, <2>3, <2>4
<1>9. CASE ForcePush
  BY <1>4, <1>9 DEF ForcePush
<1> QED BY <1>4, <1>7, <1>8, <1>9, StoreStep DEF store

\* What landed stays under the tip: a commit is added on the tip, and a force
\* push gives up the tip alone.
LEMMA BranchStep ==
  ASSUME Inv, Next, TypeOK', Grows
  PROVE  BranchInv'
<1>1. TypeOK /\ CommitInv /\ BranchInv /\ \A r \in Requests : RequestInv(r)
  BY DEF Inv
<1>2. CASE UNCHANGED store
  BY <1>1, <1>2 DEF BranchInv, FirstParentsIn, store
<1>3. PICK n : n = Len(commits')
  OBVIOUS
<1>4. CASE Push \/ \E r \in Requests : Merges(r)
  <2>1. /\ n = Len(commits) + 1 /\ tip' = n /\ landed' = landed \cup {n}
        /\ commits'[n].first = tip
        /\ \A c \in 1..Len(commits) : commits'[c] = commits[c]
        /\ DOMAIN commits' = 1..n
    BY <1>1, <1>3, <1>4, Added
  <2>2. SUFFICES ASSUME NEW S \in SUBSET DOMAIN commits', tip' \in S, FirstParentsIn(S)'
                 PROVE  landed' \subseteq S
    BY DEF BranchInv
  <2> DEFINE T == S \ {n}
  <2>3. Len(commits) \in Nat /\ tip \in 1..Len(commits) /\ DOMAIN commits = 1..Len(commits)
    <3>1. tip \in 1..Len(commits)
      BY <1>1 DEF TypeOK
    <3> QED BY <1>1, <3>1, Domains
  <2>4. T \in SUBSET DOMAIN commits
    <3>1. \A k \in 1..n : k # n => k \in 1..Len(commits)
      BY <2>1, <2>3
    <3> QED BY <2>1, <2>3, <3>1
  <2>5. \A k \in S : commits'[k].first # 0 => commits'[k].first \in S
    BY <2>2 DEF FirstParentsIn
  <2>6. tip \in T
    <3>1. tip \in S
      BY <2>1, <2>2, <2>3, <2>5
    <3>2. tip # n
      BY <2>1, <2>3
    <3> QED BY <3>1, <3>2
  <2>7. ASSUME NEW k \in T, commits[k].first # 0 PROVE commits[k].first \in T
    <3>1. commits'[k] = commits[k] /\ k \in 1..Len(commits)
      BY <2>1, <2>3, <2>4
    <3>2. commits[k].first \in S
      BY <2>5, <2>7, <3>1
    <3>3. commits[k].first < k /\ commits[k].first \in Nat
      BY <1>1, <2>3, <3>1, Domains DEF CommitInv, Commits
    <3>4. commits[k].first # n
      BY <2>1, <2>3, <3>1, <3>3
    <3> QED BY <3>2, <3>4
  <2>8. FirstParentsIn(T)
    BY <2>7 DEF FirstParentsIn
  <2>9. landed \subseteq T
    <3> HIDE DEF T
    <3> QED BY <1>1, <2>4, <2>6, <2>8 DEF BranchInv
  <2> QED BY <2>1, <2>2, <2>9
<1>5. CASE ForcePush
  <2>1. /\ commits[tip].first # 0 /\ tip' = commits[tip].first /\ landed' = landed \ {tip}
        /\ commits' = commits
    BY <1>5 DEF ForcePush
  <2>2. SUFFICES ASSUME NEW S \in SUBSET DOMAIN commits', tip' \in S, FirstParentsIn(S)'
                 PROVE  landed' \subseteq S
    BY DEF BranchInv
  <2> DEFINE T == S \cup {tip}
  <2>3. T \in SUBSET DOMAIN commits /\ tip \in T
    BY <1>1, <2>1, Domains DEF TypeOK
  <2>4. FirstParentsIn(T)
    BY <2>1, <2>2 DEF FirstParentsIn
  <2>5. landed \subseteq T
    <3> HIDE DEF T
    <3> QED BY <1>1, <2>3, <2>4 DEF BranchInv
  <2> QED BY <2>1, <2>5
<1> QED BY <1>2, <1>4, <1>5, StoreStep

LEMMA BranchLine ==
  ASSUME TypeOK, BranchInv PROVE NoCommitLost
<1>1. landed \subseteq DOMAIN commits
  BY Domains DEF TypeOK
<1> QED BY <1>1 DEF NoCommitLost, Line, BranchInv
-----------------------------------------------------------------------------
\* The status.

LEMMA StatusesStep ==
  ASSUME Next
  PROVE  \/ UNCHANGED statuses
         \/ \E r \in Requests : /\ pc[r] = "put" /\ Len(statuses) = mem[r].swap
                                /\ statuses' = Append(statuses, Stored(mem[r].status))
<1>1. ASSUME NEW r \in Requests, PutStatus(r)
      PROVE  \/ UNCHANGED statuses
             \/ /\ pc[r] = "put" /\ Len(statuses) = mem[r].swap
                /\ statuses' = Append(statuses, Stored(mem[r].status))
  BY <1>1 DEF PutStatus
<1>2. ASSUME NEW r \in Requests, NEW s, BeginMerge(r, s) \/ BeginStatus(r, s)
      PROVE  UNCHANGED statuses
  BY <1>2 DEF BeginMerge, BeginStatus
<1>3. ASSUME NEW r \in Requests, InspectHead(r) \/ FetchRemote(r) \/ Revalidate(r) \/ ReadTip(r)
      PROVE  UNCHANGED statuses
  BY <1>3 DEF InspectHead, FetchRemote, Revalidate, ReadTip
<1>4. ASSUME NEW r \in Requests, AdvanceRef(r) \/ RecordEvent(r) \/ GetStatus(r) \/ Stop(r)
      PROVE  UNCHANGED statuses
  BY <1>4 DEF AdvanceRef, RecordEvent, GetStatus, Stop
<1>5. ASSUME Push \/ ForcePush \/ PushSource \/ Revise \/ ProjectStatus PROVE UNCHANGED statuses
  BY <1>5 DEF Push, ForcePush, PushSource, Revise, ProjectStatus
<1> QED BY <1>1, <1>2, <1>3, <1>4, <1>5 DEF Next

LEMMA StatusStep ==
  ASSUME Inv, Next, TypeOK', Grows
  PROVE  StatusInv' /\ StatusMovesForward'
<1>1. TypeOK /\ StatusInv /\ StatusMovesForward /\ \A r \in Requests : RequestInv(r)
  BY DEF Inv
<1>2. ASSUME NEW i \in DOMAIN statuses
      PROVE  Canonical(statuses'[i].at) = statuses'[i].at /\ Truthful(statuses[i])'
  <2>1. statuses'[i] = statuses[i] /\ Canonical(statuses[i].at) = statuses[i].at
    BY <1>1, <1>2, Kept DEF StatusInv
  <2>2. PICK s : s = statuses[i]
    OBVIOUS
  <2>3. Truthful(s)'
    BY <1>1, <1>2, <2>2, TruthfulStays DEF StatusInv
  <2>4. Truthful(statuses[i])'
    BY <2>1, <2>2, <2>3
  <2> QED BY <2>1, <2>4
<1>3. CASE UNCHANGED statuses
  BY <1>1, <1>2, <1>3 DEF StatusInv, StatusMovesForward
<1>4. ASSUME NEW r \in Requests, pc[r] = "put", Len(statuses) = mem[r].swap,
             statuses' = Append(statuses, Stored(mem[r].status))
      PROVE  StatusInv' /\ StatusMovesForward'
  <2>0. PICK given : given = mem[r].status
    OBVIOUS
  <2>1. PICK s, n : s = Stored(given) /\ n = Len(statuses) + 1
    OBVIOUS
  <2>a. given \in Statuses /\ Truthful(given) /\ given.at \in Nat
    BY <1>1, <1>4, <2>0 DEF RequestInv, Truthful, Statuses
  <2>2. s \in Statuses /\ s.at \in Nat /\ s.at = Canonical(given.at) /\ Canonical(s.at) = s.at
    BY <2>1, <2>a, StoredFacts, CanonicalFacts
  <2>3. /\ Len(statuses') = n /\ statuses'[n] = s
        /\ \A i \in 1..Len(statuses) : statuses'[i] = statuses[i]
    <3>1. statuses \in Seq(Statuses) /\ statuses' = Append(statuses, s)
      BY <1>1, <1>4, <2>0, <2>1 DEF TypeOK
    <3> QED BY <2>1, <2>2, <3>1, AppendContinues
  <2>4. DOMAIN statuses' = 1..n /\ DOMAIN statuses = 1..(n - 1) /\ n \in Nat
    BY <1>1, <2>1, <2>3, Kept, Domains
  <2>5. \A i \in DOMAIN statuses' : i \in DOMAIN statuses \/ i = n
    BY <2>4
  <2>6. Truthful(s)'
    BY <1>1, <2>1, <2>a, StoredTruthful, TruthfulStays
  <2>7. Truthful(statuses[n])'
    BY <2>3, <2>6
  <2>8. StatusInv'
    BY <1>2, <2>2, <2>3, <2>5, <2>7 DEF StatusInv
  <2>9. ASSUME NEW i \in DOMAIN statuses PROVE statuses'[i].at <= s.at
    <3>1. /\ n - 1 \in DOMAIN statuses /\ n - 1 = Len(statuses) /\ n - 1 # 0 /\ i <= n - 1
          /\ i \in Nat /\ n - 1 \in Nat
      BY <2>1, <2>4, <2>9, <1>1, Domains
    <3>a. /\ statuses[n - 1].at < given.at /\ statuses[n - 1].at \in Nat /\ statuses[i].at \in Nat
          /\ Canonical(statuses[n - 1].at) = statuses[n - 1].at
      BY <1>1, <1>4, <2>0, <2>9, <3>1, Domains DEF RequestInv, StatusInv, Statuses
    <3>2. statuses[n - 1].at <= s.at
      BY <2>2, <2>a, <3>a, CanonicalOrder
    <3>3. i = n - 1 \/ statuses[i].at <= statuses[n - 1].at
      BY <1>1, <2>9, <3>1 DEF StatusMovesForward
    <3>4. statuses[i].at <= s.at
      BY <2>2, <3>a, <3>2, <3>3
    <3> QED BY <1>1, <2>9, <3>4, Kept
  <2>10. ASSUME NEW i \in DOMAIN statuses', NEW j \in DOMAIN statuses', i < j
         PROVE  statuses'[i].at <= statuses'[j].at
    <3>1. CASE j = n
      <4>1. i \in DOMAIN statuses
        BY <2>4, <2>10, <3>1
      <4> QED BY <2>3, <2>9, <3>1, <4>1
    <3>2. CASE j # n
      <4>1. i \in DOMAIN statuses /\ j \in DOMAIN statuses
        BY <2>4, <2>10, <3>2
      <4> QED BY <1>1, <2>10, <4>1, Kept DEF StatusMovesForward
    <3> QED BY <3>1, <3>2
  <2> QED BY <2>8, <2>10 DEF StatusMovesForward
<1> QED BY <1>3, <1>4, StatusesStep

-----------------------------------------------------------------------------
\* The clock is read at most once for each call.

LEMMA UndatedFinite ==
  /\ IsFiniteSet(Undated') /\ Cardinality(Undated') \in Nat
<1>1. Undated' \subseteq Requests
  BY DEF Undated
<1>2. IsFiniteSet(Undated')
  BY <1>1, BoundsAssumption, FS_Subset
<1> QED BY <1>2, FS_CardinalityType

LEMMA FewerUndated ==
  ASSUME Undated' \subseteq Undated PROVE Cardinality(Undated') <= Cardinality(Undated)
BY UndatedFacts, FS_Subset

\* The requests at the steps before the status has its time.
Waiting == {"inspect", "fetch", "revalidate", "tip", "merge", "event"}

LEMMA UndatedMoves ==
  ASSUME TypeOK, NEW r \in Requests, NEW step, NEW m, Goto(r, step, m)
  PROVE  /\ Undated' \subseteq Undated \cup {r}
         /\ step \notin Waiting => Undated' \subseteq Undated \ {r}
         /\ pc[r] \in Waiting => Undated' \subseteq Undated
<1>1. pc'[r] = step /\ \A q \in Requests \ {r} : pc'[q] = pc[q]
  BY GotoFacts
<1> QED BY <1>1 DEF Undated, Waiting

LEMMA ClockStep ==
  ASSUME Inv, Next
  PROVE  ClockInv'
<1>1. TypeOK /\ ClockInv /\ \A r \in Requests : RequestInv(r)
  BY DEF Inv
<1>2. /\ clock \in Nat /\ calls \in Nat /\ clock + Cardinality(Undated) <= calls
      /\ Cardinality(Undated) \in Nat /\ Cardinality(Undated') \in Nat
  BY <1>1, UndatedFacts, UndatedFinite DEF TypeOK, ClockInv
<1>3. ASSUME Undated' \subseteq Undated, UNCHANGED <<clock, calls>> PROVE ClockInv'
  BY <1>2, <1>3, FewerUndated DEF ClockInv
<1>4. ASSUME NEW r \in Requests, NEW step, NEW m, Goto(r, step, m),
             pc[r] \in Waiting \/ step \notin Waiting, UNCHANGED <<clock, calls>>
      PROVE  ClockInv'
  BY <1>1, <1>3, <1>4, UndatedMoves
<1>5. ASSUME NEW r \in Requests, Return(r), UNCHANGED <<clock, calls>> PROVE ClockInv'
  BY <1>4, <1>5 DEF Return, Waiting
<1>6. ASSUME NEW r \in Requests, NEW s \in Strategies, BeginMerge(r, s) PROVE ClockInv'
  <2>1. Undated' \subseteq Undated \cup {r} /\ clock' = clock /\ calls' = calls + 1
    BY <1>1, <1>6, UndatedMoves DEF BeginMerge, Called
  <2>2. Cardinality(Undated') <= Cardinality(Undated) + 1
    <3>1. IsFiniteSet(Undated \cup {r})
      BY UndatedFacts, FS_AddElement
    <3>2. Cardinality(Undated') <= Cardinality(Undated \cup {r})
      BY <2>1, <3>1, FS_Subset
    <3>3. \/ Cardinality(Undated \cup {r}) = Cardinality(Undated)
          \/ Cardinality(Undated \cup {r}) = Cardinality(Undated) + 1
      BY UndatedFacts, FS_AddElement
    <3> QED BY <1>2, <3>2, <3>3
  <2> QED BY <1>2, <2>1, <2>2 DEF ClockInv
<1>7. ASSUME NEW r \in Requests, NEW s \in {"open", "closed"}, BeginStatus(r, s) PROVE ClockInv'
  <2>1. Undated' \subseteq Undated \ {r} /\ clock' = clock + 1 /\ calls' = calls + 1
    BY <1>1, <1>7, UndatedMoves DEF BeginStatus, Called, Waiting
  <2>2. Cardinality(Undated') <= Cardinality(Undated)
    BY <2>1, FewerUndated
  <2> QED BY <1>2, <2>1, <2>2 DEF ClockInv
<1>8. ASSUME NEW r \in Requests, RecordEvent(r) PROVE ClockInv'
  <2>1. Undated' \subseteq Undated \ {r} /\ clock' = clock + 1 /\ calls' = calls
    BY <1>1, <1>8, UndatedMoves DEF RecordEvent, Waiting
  <2>2. r \in Undated
    BY <1>8 DEF RecordEvent, Undated
  <2>3. /\ Cardinality(Undated \ {r}) = Cardinality(Undated) - 1 /\ IsFiniteSet(Undated \ {r})
    BY <2>2, UndatedFacts, FS_RemoveElement
  <2>4. Cardinality(Undated') <= Cardinality(Undated) - 1
    BY <2>1, <2>3, FS_Subset
  <2> QED BY <1>2, <2>1, <2>4 DEF ClockInv
<1>9. ASSUME NEW r \in Requests, InspectHead(r) \/ ReadTip(r) PROVE ClockInv'
  <2>1. pc[r] \in Waiting /\ (\E step, m : Goto(r, step, m)) /\ UNCHANGED <<clock, calls>>
    BY <1>9 DEF InspectHead, ReadTip, Waiting
  <2> QED BY <1>4, <2>1
<1>10. ASSUME NEW r \in Requests, FetchRemote(r) \/ Revalidate(r) \/ AdvanceRef(r) PROVE ClockInv'
  <2>1. /\ pc[r] \in Waiting /\ UNCHANGED <<clock, calls>>
        /\ Return(r) \/ \E step, m : Goto(r, step, m)
    BY <1>10 DEF FetchRemote, Revalidate, AdvanceRef, Waiting
  <2> QED BY <1>4, <1>5, <2>1
<1>11. ASSUME NEW r \in Requests, GetStatus(r) PROVE ClockInv'
  <2>1. /\ UNCHANGED <<clock, calls>>
        /\ Return(r) \/ \E m : Goto(r, "put", m)
    BY <1>11 DEF GetStatus
  <2>2. "put" \notin Waiting
    BY DEF Waiting
  <2> QED BY <1>4, <1>5, <2>1, <2>2
<1>12. ASSUME NEW r \in Requests, PutStatus(r) \/ Stop(r) PROVE ClockInv'
  BY <1>5, <1>12 DEF PutStatus, Stop
<1>13. CASE Push \/ ForcePush \/ PushSource \/ Revise \/ ProjectStatus
  <2>1. UNCHANGED <<pc, clock, calls>>
    BY <1>13 DEF Push, ForcePush, PushSource, Revise, ProjectStatus
  <2> QED BY <1>3, <2>1 DEF Undated
<1> QED BY <1>6, <1>7, <1>8, <1>9, <1>10, <1>11, <1>12, <1>13 DEF Next
-----------------------------------------------------------------------------
\* The invariant and the theorems.

LEMMA InitInv == Init => Inv
<1> SUFFICES ASSUME Init PROVE Inv
  OBVIOUS
<1> DEFINE c == [first |-> 0, second |-> 0, trailers |-> None]
<1>1. c \in Commits
  BY BoundsAssumption DEF Commits
<1>2. /\ commits = <<c>> /\ commits \in Seq(Commits) /\ Len(commits) = 1 /\ commits[1] = c
      /\ DOMAIN commits = {1}
  <2> HIDE DEF c
  <2> QED BY <1>1 DEF Init, c
<1>3. pulls \in Seq(1..MaxHeads) /\ Len(pulls) = 1
  BY BoundsAssumption DEF Init
<1>4. statuses \in Seq(Statuses) /\ Len(statuses) = 0 /\ DOMAIN statuses = {}
  BY DEF Init
<1>5. TypeOK
  <2>1. pc \in [Requests -> Steps]
    BY DEF Init, Steps
  <2>2. mem \in [Requests -> Memory]
    BY ForgottenType DEF Init
  <2>3. /\ Len(commits) \in 1..MaxCommits /\ tip \in 1..Len(commits)
        /\ landed \subseteq 1..Len(commits) /\ pullRef \in 0..MaxHeads
        /\ sourceHead \in 1..MaxHeads /\ Len(pulls) \in 1..MaxRevisions
        /\ statusRow \in 0..Len(statuses)
        /\ clock \in 0..MaxCalls /\ calls \in 0..MaxCalls
    BY <1>2, <1>3, <1>4, BoundsAssumption DEF Init
  <2>4. events \subseteq [cid : 1..MaxRevisions, sha : 1..MaxCommits]
    BY DEF Init
  <2> QED BY <1>2, <1>3, <1>4, <2>1, <2>2, <2>3, <2>4 DEF TypeOK
<1>6. CommitInv /\ RetryRecognized
  BY <1>2 DEF CommitInv, RetryRecognized
<1>7. StatusInv /\ StatusMovesForward
  BY <1>4 DEF StatusInv, StatusMovesForward
<1>8. \A r \in Requests : RequestInv(r)
  BY DEF Init, RequestInv
<1>9. ClockInv
  <2>1. Undated = {}
    BY DEF Init, Undated
  <2> QED BY <2>1, FS_EmptySet DEF ClockInv, Init
<1>10. BranchInv
  BY DEF BranchInv, Init
<1> QED BY <1>5, <1>6, <1>7, <1>8, <1>9, <1>10 DEF Inv

LEMMA NextInv == Inv /\ [Next]_vars => Inv'
<1> SUFFICES ASSUME Inv, [Next]_vars PROVE Inv'
  OBVIOUS
<1>1. CASE Next
  <2>1. TypeOK' /\ Grows
    BY <1>1, TypeStep, GrowsStep
  <2> QED BY <1>1, <2>1, RequestStep, CommitStep, RetryStep, BranchStep, StatusStep, ClockStep
          DEF Inv
<1>2. CASE UNCHANGED vars
  <2>1. /\ TypeOK' /\ CommitInv' /\ RetryRecognized' /\ BranchInv'
    BY <1>2 DEF vars, Inv, TypeOK, CommitInv, MergesRevision, RetryRecognized, BranchInv,
                FirstParentsIn
  <2>2. StatusInv' /\ StatusMovesForward' /\ ClockInv'
    BY <1>2 DEF vars, Inv, StatusInv, Truthful, MergesRevision, StatusMovesForward, ClockInv,
                Undated
  <2>3. \A r \in Requests : RequestInv(r)'
    BY <1>2 DEF vars, Inv, RequestInv, Truthful, MergesRevision, MergeTrailers, DeclaredHead
  <2> QED BY <2>1, <2>2, <2>3 DEF Inv
<1> QED BY <1>1, <1>2

\* The inductive invariant holds in every reachable state.
THEOREM Invariance == Spec => []Inv
BY InitInv, NextInv, PTL DEF Spec

\* Every variable has its type: the clock stays within the calls, and an event
\* or a merged status names a commit.
THEOREM TypeCorrect == Spec => []TypeOK
<1>1. Inv => TypeOK
  BY DEF Inv
<1> QED BY <1>1, Invariance, PTL

\* Whatever was pushed or merged is still under the tip of the branch, unless a
\* force push took it away.
THEOREM CommitsKept == Spec => []NoCommitLost
<1>1. Inv => NoCommitLost
  BY BranchLine DEF Inv
<1> QED BY <1>1, Invariance, PTL

\* A status that says merged is about a commit that merges exactly that
\* revision, and the commit's event is in the outbox.
THEOREM MergedStatusTrue == Spec => []MergedTruthful
<1>1. Inv => MergedTruthful
  <2> SUFFICES ASSUME Inv PROVE MergedTruthful
    OBVIOUS
  <2>1. StatusInv
    BY DEF Inv
  <2> QED BY <2>1 DEF MergedTruthful, StatusInv, Truthful, MergesRevision
<1> QED BY <1>1, Invariance, PTL

\* No merge commit follows directly on one for the same revision, head and
\* strategy, however many attempts run and wherever they stop.
THEOREM MergedOnce == Spec => []RetryRecognized
<1>1. Inv => RetryRecognized
  BY DEF Inv
<1> QED BY <1>1, Invariance, PTL

\* A version of the status never replaces one of a later millisecond.
THEOREM StatusOrdered == Spec => []StatusMovesForward
<1>1. Inv => StatusMovesForward
  BY DEF Inv
<1> QED BY <1>1, Invariance, PTL
=============================================================================
