--------------------------- MODULE PullRequestMerge ---------------------------
(***************************************************************************)
(* Merging one pull request into a branch (internal/pullrequest/service.go, *)
(* internal/git/merge.go and remote.go) while people push to the branch,    *)
(* the author revises the pull request, its status is opened and closed,    *)
(* other requests merge it too, and any request may stop between two steps. *)
(*                                                                         *)
(* Three stores take part: the Git repository (the target branch and the    *)
(* controlled ref that holds the fetched head), the database (projected     *)
(* rows and the outbox) and the PDSs (pull request and status record).      *)
(*                                                                         *)
(* A commit is a place in `commits`.  A head is a number of its own: the    *)
(* commits of the source branch.  The CID of a revision of the pull request *)
(* is its place in `pulls`, that of a status its place in `statuses`.       *)
(***************************************************************************)
EXTENDS Integers, Sequences, FiniteSets

CONSTANTS
  Requests,      \* API requests in flight at one time
  MaxCommits,    \* bound on the commits of the target repository
  MaxHeads,      \* bound on the commits of the source branch
  MaxRevisions,  \* bound on the revisions of the pull request
  MaxCalls,      \* bound on the calls of Merge and PutStatus
  Tick,          \* steps of the clock to a millisecond
  None

Strategies == {"merge-commit", "squash"}
States == {"open", "closed", "merged"}
Trailers == [cid : 1..MaxRevisions, head : 1..MaxHeads, strategy : Strategies]

ASSUME BoundsAssumption ==
  /\ MaxCommits \in Nat \ {0} /\ MaxHeads \in Nat \ {0}
  /\ MaxRevisions \in Nat \ {0} /\ MaxCalls \in Nat /\ Tick \in Nat \ {0}
  /\ IsFiniteSet(Requests) /\ None \notin Trailers

VARIABLES
  commits,    \* commits of the target repository, in order of creation
  tip,        \* refs/heads/<target branch>
  pullRef,    \* refs/adenosine/pull/<hash of the URI>/head, 0 when absent
  sourceHead, \* refs/heads/<source branch> of the source repository
  pulls,      \* head_sha of every revision of the pull request that was
              \* projected; the last is the row of network.pull_requests
  statuses,   \* every version of the status record on the owner's PDS
  statusRow,  \* the projected version, 0 when none is
  events,     \* identities of the git.refs_updated events in the outbox
  clock,      \* the last time read
  calls,      \* calls of Merge and PutStatus so far
  pc,         \* the next step of each request
  mem,        \* what each request remembers
  landed      \* ghost: commits that reached the branch and were not forced away

store == <<commits, tip, landed>>
vars == <<commits, tip, pullRef, sourceHead, pulls, statuses,
          statusRow, events, clock, calls, pc, mem, landed>>

Commits == [first : 0..MaxCommits, second : 0..MaxHeads,
            trailers : Trailers \cup {None}]
Targets == [cid : 1..MaxRevisions, state : States, dated : BOOLEAN]
Statuses == [cid : 1..MaxRevisions, state : States,
             sha : 1..MaxCommits \cup {None}, at : 0..MaxCalls]
Memory == [target : Targets, strategy : Strategies \cup {None},
           fetch : 0..MaxRevisions, prior : 0..MaxHeads,
           seen : 0..MaxCommits, result : 0..MaxCommits,
           status : Statuses \cup {None}, swap : Nat]

PullRow == Len(pulls)

\* The version of the status record that RecomputeFederationPullRequestState
\* puts in effect: the projected one, if it names the projected revision.
StatusInEffect == statusRow # 0 /\ statuses[statusRow].cid = PullRow

\* What GetProjectedPullRequestMergeTarget returns, as far as it can change.
GetMergeTarget ==
  [cid |-> PullRow,
   state |-> IF StatusInEffect THEN statuses[statusRow].state ELSE "open",
   dated |-> StatusInEffect]

Forgotten == [target |-> [cid |-> 1, state |-> "open", dated |-> FALSE],
              strategy |-> None, fetch |-> 0, prior |-> 0, seen |-> 0,
              result |-> 0, status |-> None, swap |-> 0]

Init ==
  /\ commits = <<[first |-> 0, second |-> 0, trailers |-> None]>>
  /\ tip = 1 /\ landed = {1} /\ pullRef = 0
  /\ sourceHead = 1 /\ pulls = <<1>>
  /\ statuses = <<>> /\ statusRow = 0 /\ events = {} /\ clock = 0 /\ calls = 0
  /\ pc = [r \in Requests |-> "idle"]
  /\ mem = [r \in Requests |-> Forgotten]

Called == calls < MaxCalls /\ calls' = calls + 1

Goto(r, step, m) == /\ pc' = [pc EXCEPT ![r] = step]
                    /\ mem' = [mem EXCEPT ![r] = m]
Return(r) == Goto(r, "idle", Forgotten)

DeclaredHead(r) == pulls[mem[r].target.cid]
-----------------------------------------------------------------------------
(* Merge.  The actor's write permission (CanWriteRepository) is the business *)
(* of OrganizationTeams; requests without it return before any effect.       *)

\* The first read of the target: a pull request that is not open conflicts.
BeginMerge(r, strategy) ==
  /\ pc[r] = "idle" /\ Called /\ GetMergeTarget.state = "open"
  /\ Goto(r, "inspect", [Forgotten EXCEPT !.target = GetMergeTarget,
                                          !.strategy = strategy])
  /\ UNCHANGED <<store, pullRef, sourceHead, pulls, statuses,
                 statusRow, events, clock>>

\* Refresh loads the fetch target and the head that was fetched before.  When
\* they agree there is nothing to fetch.
InspectHead(r) ==
  /\ pc[r] = "inspect"
  /\ IF pullRef = pulls[PullRow]
       THEN Goto(r, "revalidate", [mem[r] EXCEPT !.fetch = PullRow])
       ELSE Goto(r, "fetch", [mem[r] EXCEPT !.fetch = PullRow, !.prior = pullRef])
  /\ UNCHANGED <<store, pullRef, sourceHead, pulls, statuses,
                 statusRow, events, clock, calls>>

\* FetchRemote.  The source branch must be at the declared head, otherwise
\* ErrHeadMismatch; what was fetched into the quarantine ref is promoted by
\* compare-and-swap.  A conflict is forgiven when another request has put the
\* same head there meanwhile.
FetchRemote(r) ==
  /\ pc[r] = "fetch"
  /\ LET head == pulls[mem[r].fetch]
         fetched == [mem[r] EXCEPT !.prior = 0]
     IN \/ /\ sourceHead = head /\ pullRef = mem[r].prior
           /\ pullRef' = head /\ Goto(r, "revalidate", fetched)
        \/ /\ sourceHead = head /\ pullRef # mem[r].prior
           /\ IF pullRef = head THEN Goto(r, "revalidate", fetched) ELSE Return(r)
           /\ UNCHANGED pullRef
        \/ sourceHead # head /\ Return(r) /\ UNCHANGED pullRef
  /\ UNCHANGED <<store, sourceHead, pulls, statuses, statusRow, events, clock, calls>>

\* Refresh reads its target again, then Merge reads its own: both unchanged and
\* still open, or the request returns ErrProjectionChanged.
Revalidate(r) ==
  /\ pc[r] = "revalidate"
  /\ IF PullRow = mem[r].fetch /\ GetMergeTarget = mem[r].target
       THEN Goto(r, "tip", [mem[r] EXCEPT !.fetch = 0, !.target.dated = FALSE])
       ELSE Return(r)
  /\ UNCHANGED <<store, pullRef, sourceHead, pulls, statuses,
                 statusRow, events, clock, calls>>

\* mergeTrailers: what the last lines of a merge commit's message identify.
MergeTrailers(r) == [cid |-> mem[r].target.cid, head |-> DeclaredHead(r),
                     strategy |-> mem[r].strategy]

\* Variant: a squash commit, which has one parent, is not recognized.
RecognizedMerge_MergeCommits(r, c) ==
  /\ commits[c].trailers = MergeTrailers(r)
  /\ commits[c].first # 0 /\ commits[c].second = DeclaredHead(r)

\* Variant: the CID is not compared, so two revisions with one head are one.
RecognizedMerge_AnyRevision(r, c) ==
  /\ commits[c].trailers # None
  /\ commits[c].trailers.head = DeclaredHead(r)
  /\ commits[c].trailers.strategy = mem[r].strategy

\* recognizedMerge: the tip is the commit of an earlier attempt at this merge.
RecognizedMerge(r, c) ==
  /\ commits[c].trailers = MergeTrailers(r)
  /\ commits[c].first # 0
  /\ mem[r].strategy = "merge-commit" => commits[c].second = DeclaredHead(r)
  /\ mem[r].strategy = "squash" => commits[c].second = 0

\* Variant: the reused result is dropped on the way.
ReadTip_NoResult(r) ==
  /\ pc[r] = "tip"
  /\ Goto(r, IF RecognizedMerge(r, tip) THEN "event" ELSE "merge",
          [mem[r] EXCEPT !.seen = tip])
  /\ UNCHANGED <<store, pullRef, sourceHead, pulls, statuses,
                 statusRow, events, clock, calls>>

\* The tip is read once: it is either reused or what the merge builds on.
ReadTip(r) ==
  /\ pc[r] = "tip"
  /\ IF RecognizedMerge(r, tip)
       THEN Goto(r, "event", [Forgotten EXCEPT !.target.cid = mem[r].target.cid,
                                              !.result = tip])
       ELSE Goto(r, "merge", [mem[r] EXCEPT !.seen = tip])
  /\ UNCHANGED <<store, pullRef, sourceHead, pulls, statuses,
                 statusRow, events, clock, calls>>

MergedCommit(r) ==
  [first |-> mem[r].seen,
   second |-> IF mem[r].strategy = "merge-commit" THEN DeclaredHead(r) ELSE 0,
   trailers |-> MergeTrailers(r)]

\* Variant: update-ref without the old value.
AdvanceRef_Unconditional(r) ==
  /\ pc[r] = "merge" /\ Len(commits) < MaxCommits
  /\ commits' = Append(commits, MergedCommit(r))
  /\ tip' = Len(commits') /\ landed' = landed \cup {tip'}
  /\ Goto(r, "event", [mem[r] EXCEPT !.result = tip'])
  /\ UNCHANGED <<pullRef, sourceHead, pulls, statuses, statusRow,
                 events, clock, calls>>

\* git.Merge writes the commit and advances the branch with update-ref and the
\* expected old value; the comparison before it only fails sooner.  Trees that
\* do not merge are ErrMergeConflict.
AdvanceRef(r) ==
  /\ pc[r] = "merge"
  /\ \/ /\ tip = mem[r].seen /\ Len(commits) < MaxCommits
        /\ commits' = Append(commits, MergedCommit(r))
        /\ tip' = Len(commits') /\ landed' = landed \cup {tip'}
        /\ Goto(r, "event", [Forgotten EXCEPT !.target.cid = mem[r].target.cid,
                                               !.result = tip'])
     \/ /\ tip # mem[r].seen
        /\ Return(r) /\ UNCHANGED store
     \/ /\ tip = mem[r].seen      \* ErrMergeConflict
        /\ Return(r) /\ UNCHANGED store
  /\ UNCHANGED <<pullRef, sourceHead, pulls, statuses, statusRow,
                 events, clock, calls>>

\* GitRefsUpdated: the event's identity is derived from the CID and the commit,
\* and a second insert of it does nothing.  Then the status gets its time.
RecordEvent(r) ==
  /\ pc[r] = "event"
  /\ events' = events \cup {[cid |-> mem[r].target.cid, sha |-> mem[r].result]}
  /\ clock' = clock + 1
  /\ Goto(r, "get", [Forgotten EXCEPT !.status =
       [cid |-> mem[r].target.cid, state |-> "merged", sha |-> mem[r].result,
        at |-> clock']])
  /\ UNCHANGED <<store, pullRef, sourceHead, pulls, statuses, statusRow, calls>>

\* PutStatus: the owner or a triager opens or closes the pull request.
BeginStatus(r, state) ==
  /\ pc[r] = "idle" /\ Called
  /\ clock' = clock + 1
  /\ Goto(r, "get", [Forgotten EXCEPT !.status =
       [cid |-> PullRow, state |-> state, sha |-> None, at |-> clock']])
  /\ UNCHANGED <<store, pullRef, sourceHead, pulls, statuses,
                 statusRow, events>>

\* canonicalPullRequestTimes: a record holds its times in milliseconds, cut off
\* and not rounded, while the request holds them as the clock gave them.
Canonical(time) == (time \div Tick) * Tick
Stored(status) == [status EXCEPT !.at = Canonical(status.at)]

\* PutPullRequestStatus of the AT Protocol client reads the record.  One that
\* says the same (samePullRequestStatusRecord, times in milliseconds) is left;
\* otherwise a status that is not newer is refused, comparing the time of the
\* request with the one that was cut off.  (operationLock keeps the calls of
\* one process apart; those of two processes meet here.)
GetStatus(r) ==
  /\ pc[r] = "get"
  /\ LET last == statuses[Len(statuses)] IN
     IF statuses # <<>> /\ (last = Stored(mem[r].status) \/ last.at >= mem[r].status.at)
       THEN Return(r)
       ELSE Goto(r, "put", [mem[r] EXCEPT !.swap = Len(statuses)])
  /\ UNCHANGED <<store, pullRef, sourceHead, pulls, statuses,
                 statusRow, events, clock, calls>>

\* Variant: putRecord without swapRecord.
PutStatus_NoSwap(r) ==
  /\ pc[r] = "put" /\ Return(r)
  /\ statuses' = Append(statuses, Stored(mem[r].status))
  /\ UNCHANGED <<store, pullRef, sourceHead, pulls, statusRow, events,
                 clock, calls>>

\* putRecord with swapRecord: refused when the record is no longer the one
\* that was read.
PutStatus(r) ==
  /\ pc[r] = "put" /\ Return(r)
  /\ \/ /\ Len(statuses) = mem[r].swap
        /\ statuses' = Append(statuses, Stored(mem[r].status))
     \/ /\ Len(statuses) # mem[r].swap
        /\ UNCHANGED statuses
  /\ UNCHANGED <<store, pullRef, sourceHead, pulls, statusRow, events,
                 clock, calls>>

\* An error, a cancelled context or a crash: these handlers undo nothing.
Stop(r) ==
  /\ pc[r] # "idle" /\ Return(r)
  /\ UNCHANGED <<store, pullRef, sourceHead, pulls, statuses,
                 statusRow, events, clock, calls>>
-----------------------------------------------------------------------------
(* What others do.                                                          *)

\* receive-pack advances the branch by a commit of its own.
Push ==
  /\ Len(commits) < MaxCommits
  /\ commits' = Append(commits, [first |-> tip, second |-> 0, trailers |-> None])
  /\ tip' = Len(commits') /\ landed' = landed \cup {tip'}
  /\ UNCHANGED <<pullRef, sourceHead, pulls, statuses, statusRow,
                 events, clock, pc, mem, calls>>

\* receive-pack of an unprotected branch moves it back.
ForcePush ==
  /\ commits[tip].first # 0
  /\ tip' = commits[tip].first /\ landed' = landed \ {tip}
  /\ UNCHANGED <<commits, pullRef, sourceHead, pulls, statuses,
                 statusRow, events, clock, pc, mem, calls>>

\* The contributor commits to the source branch.
PushSource ==
  /\ sourceHead < MaxHeads /\ sourceHead' = sourceHead + 1
  /\ UNCHANGED <<store, pullRef, pulls, statuses, statusRow, events,
                 clock, pc, mem, calls>>

\* The contributor publishes a revision, a new head or a new text only, and it
\* is projected.  (Until then nothing here can see it.)
Revise ==
  /\ Len(pulls) < MaxRevisions /\ pulls' = Append(pulls, sourceHead)
  /\ UNCHANGED <<store, pullRef, sourceHead, statuses, statusRow,
                 events, clock, pc, mem, calls>>

\* The projection of the status catches up (never backwards: module
\* FederationProjection).
ProjectStatus ==
  /\ statusRow' \in (statusRow + 1)..Len(statuses)
  /\ UNCHANGED <<store, pullRef, sourceHead, pulls, statuses, events,
                 clock, pc, mem, calls>>

Next ==
  \/ \E r \in Requests :
       \/ \E s \in Strategies : BeginMerge(r, s)
       \/ \E s \in {"open", "closed"} : BeginStatus(r, s)
       \/ InspectHead(r) \/ FetchRemote(r) \/ Revalidate(r)
       \/ ReadTip(r) \/ AdvanceRef(r) \/ RecordEvent(r)
       \/ GetStatus(r) \/ PutStatus(r) \/ Stop(r)
  \/ Push \/ ForcePush \/ PushSource \/ Revise \/ ProjectStatus

Spec == Init /\ [][Next]_vars
-----------------------------------------------------------------------------
Steps == {"idle", "inspect", "fetch", "revalidate", "tip", "merge",
          "event", "get", "put"}

\* Every variable has its type; in particular an event and a merged status name
\* a commit (the result of ReadTip or AdvanceRef).
TypeOK ==
  /\ commits \in Seq(Commits) /\ Len(commits) \in 1..MaxCommits
  /\ tip \in 1..Len(commits) /\ landed \subseteq 1..Len(commits)
  /\ pullRef \in 0..MaxHeads /\ sourceHead \in 1..MaxHeads
  /\ pulls \in Seq(1..MaxHeads) /\ Len(pulls) \in 1..MaxRevisions
  /\ statuses \in Seq(Statuses)
  /\ statusRow \in 0..Len(statuses)
  /\ events \subseteq [cid : 1..MaxRevisions, sha : 1..MaxCommits]
  /\ clock \in 0..MaxCalls /\ calls \in 0..MaxCalls
  /\ pc \in [Requests -> Steps] /\ mem \in [Requests -> Memory]

\* The commits that a commit's first parents lead to: the least set that has
\* the commit and, with every commit, its first parent.
FirstParentsIn(S) == \A k \in S : commits[k].first # 0 => commits[k].first \in S
Line(c) ==
  {k \in DOMAIN commits : \A S \in SUBSET DOMAIN commits : c \in S /\ FirstParentsIn(S) => k \in S}

\* A merge never replaces concurrent work: whatever was pushed or merged is
\* still on the branch, unless a force push took it away (AdvanceRef builds on
\* a tip that was read several steps earlier).
NoCommitLost == landed \subseteq Line(tip)

\* A status that says merged names a commit that merges exactly the revision it
\* is about, with the head that revision declares, and the event of that commit
\* is in the outbox: whichever attempt published it, and whatever happened to
\* the branch, the revision and the projection since the target was read.
MergedTruthful ==
  \A i \in DOMAIN statuses :
    statuses[i].state = "merged" =>
      LET c == commits[statuses[i].sha]
      IN /\ c.trailers # None /\ c.trailers.cid = statuses[i].cid
         /\ c.trailers.head = pulls[statuses[i].cid]
         /\ c.second = IF c.trailers.strategy = "squash" THEN 0 ELSE c.trailers.head
         /\ [cid |-> statuses[i].cid, sha |-> statuses[i].sha] \in events

\* A retry recognizes the commit of the attempt before it, and two attempts at
\* once make one commit: no merge commit follows directly on one for the same
\* revision, head and strategy.
RetryRecognized ==
  \A c \in DOMAIN commits :
    (commits[c].trailers # None /\ commits[c].first # 0)
      => commits[c].trailers # commits[commits[c].first].trailers

\* A status never overwrites one of a later millisecond, although time, record
\* and swap value are read at different moments.  (Within one millisecond the
\* order is not kept: the cut-off time of the newer status is before the time
\* of the older one, which GetStatus lets pass.)
StatusMovesForward ==
  \A i, j \in DOMAIN statuses : i < j => statuses[i].at <= statuses[j].at
=============================================================================
