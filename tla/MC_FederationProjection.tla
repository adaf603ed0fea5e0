----------------------- MODULE MC_FederationProjection -----------------------
EXTENDS FederationProjection, TLC

\* The URIs: collection, author and, for deterministic record keys, what is hashed.
Table == [
  r1 |-> <<"repository", "alice">>, r2 |-> <<"repository", "bob">>, r3 |-> <<"repository", "carol">>,
  s1 |-> <<"star", "carol", "r1">>, s2 |-> <<"star", "dave", "r1">>,
  i1 |-> <<"issue", "carol">>, i2 |-> <<"issue", "dave">>,
  x1 |-> <<"issueStatus", "alice", "i1">>, x2 |-> <<"issueStatus", "dave", "i1">>,
  c1 |-> <<"comment", "dave">>, c2 |-> <<"comment", "erin">>,
  p1 |-> <<"pull", "bob">>, p2 |-> <<"pull", "dave">>,
  y1 |-> <<"pullStatus", "alice", "p1">>, y2 |-> <<"pullStatus", "bob", "p1">>, v1 |-> <<"review", "carol">>,
  a0 |-> <<"profile", "alice">>, l1 |-> <<"label", "alice">>, o1 |-> <<"organization", "erin">>]
MCCollection == [u \in DOMAIN Table |-> Table[u][1]]
MCAuthor == [u \in DOMAIN Table |-> Table[u][2]]
MCKeyedTo == [u \in {u \in DOMAIN Table : Len(Table[u]) = 3} |-> Table[u][3]]
MCRank == LET names == <<"a0", "c1", "c2", "i1", "i2", "l1", "o1", "p1", "p2", "r1", "r2", "r3",
                         "s1", "s2", "v1", "x1", "x2", "y1", "y2">>
          IN  [u \in DOMAIN Table |-> CHOOSE n \in 1 .. Len(names) : names[n] = u]

Event(action, u, fields) == [action |-> action, uri |-> u, value |-> fields @@ Blank]
Del(u) == Event("delete", u, <<>>)
Identity(u, handle) == Event("identity", u, [state |-> handle])
Repo(u, cid) == Event("put", u, [cid |-> cid])
Fork(u, cid, origin) == Event("put", u, [cid |-> cid, origin |-> origin])
In(u, cid, repository) == Event("put", u, [cid |-> cid, repository |-> repository])
Pull(u, cid, repository) ==
  Event("put", u, [cid |-> cid, repository |-> repository, origin |-> repository])
About(u, cid, subject, subjectCid) ==
  Event("put", u, [cid |-> cid, subject |-> subject, subjectCid |-> subjectCid])
Reply(u, cid, subject, parent) ==
  Event("put", u, [cid |-> cid, subject |-> subject, origin |-> parent])
Status(u, cid, subject, repository, state) ==
  Event("put", u, [cid |-> cid, subject |-> subject, subjectCid |-> 1, repository |-> repository,
                   repositoryCid |-> 1, state |-> state])

Stars == <<In("s1", 1, "r1"), Repo("r1", 1), In("s2", 1, "r1"), Del("s1"), In("s2", 2, "r2")>>
Issues == <<Repo("r1", 1), In("i1", 1, "r1"), In("i2", 1, "r1"),
            Status("x1", 1, "i1", "r1", "closed"), Del("x1")>>
MovedIssue == <<Repo("r1", 1), Repo("r2", 1), In("i1", 1, "r1"), In("i1", 2, "r2"), In("i2", 1, "r2")>>
Comments == <<Repo("r1", 1), In("i1", 1, "r1"), Reply("c1", 1, "i1", None),
              Reply("c2", 1, "i1", "c1"), Del("c1")>>
ClosedIssue == <<Repo("r1", 1), In("i1", 1, "r1"), Reply("c1", 1, "i1", None),
                 Status("x1", 1, "i1", "r1", "closed"), Del("i1")>>
\* Statuses by accounts that do not own the repository.
Strangers == <<Repo("r1", 1), In("i1", 1, "r1"), Status("x2", 1, "i1", "r1", "closed"),
               Pull("p1", 1, "r1"), Status("y2", 1, "p1", "r1", "merged")>>
Pulls == <<Repo("r1", 1), Pull("p1", 1, "r1"), Status("y1", 1, "p1", "r1", "merged"),
           About("v1", 1, "p1", 1), Pull("p1", 2, "r1")>>
PullsOfRepository == <<Pull("p1", 1, "r1"), Status("y1", 1, "p1", "r1", "closed"), Pull("p2", 1, "r1"),
                       Repo("r1", 1), Repo("r1", 2)>>
Withdrawn == <<Repo("r1", 1), Pull("p1", 1, "r1"), Status("y1", 1, "p1", "r1", "closed"), Del("y1"),
               Del("p1")>>
Forks == <<Repo("r1", 1), Fork("r2", 1, "r1"), Fork("r3", 1, "r1"), Repo("r2", 2)>>
MutualForks == <<Fork("r1", 1, "r2"), Fork("r2", 1, "r1"), Repo("r1", 2)>>
DeletedFork == <<Repo("r1", 1), Fork("r2", 1, "r1"), Del("r2")>>
DeletedRepository == <<Repo("r1", 1), In("s1", 1, "r1"), Del("r1"), In("i2", 1, "r1"), Pull("p2", 1, "r1")>>
Accounts == <<Identity("a0", "one"), Event("put", "a0", [cid |-> 1]), Repo("r1", 1),
              Identity("a0", "two"), Del("a0")>>
Unnamed == <<Identity("a0", "one"), Event("put", "a0", [cid |-> 1]), Identity("a0", None), Del("r1")>>
Labels == <<In("l1", 1, "r1"), In("l1", 2, "r1"), Del("l1"), In("l1", 3, "r2"),
            Event("malformed", "l1", <<>>)>>
Deletions == <<Event("put", "o1", [cid |-> 1]), Repo("r2", 1), Del("o1"), Del("r2"),
               Event("put", "r1", [cid |-> 1, state |-> "transferred"])>>
\* Logs with what KeptExact excepts: a recount of every repository beside a star, a decision
\* withdrawn that named another repository, and a reply to a comment on another issue.  The deletion of
\* one repository and the transfer of another also wait for each other's rows and lineage lock.
Recounted == <<Event("put", "a0", [cid |-> 1]), Repo("r1", 1), In("s1", 1, "r1"), Del("r2")>>
Reopened == <<Repo("r2", 1), Status("x1", 1, "i1", "r1", "closed"), In("i1", 1, "r2"), In("i2", 1, "r2"),
              Del("x1")>>
Crossed == <<Repo("r1", 1), In("i1", 1, "r1"), In("i2", 1, "r1"), Reply("c1", 1, "i1", None),
             Reply("c2", 1, "i2", "c1")>>

MCLogs == {Stars, Issues, MovedIssue, Comments, ClosedIssue, Strangers, Pulls, PullsOfRepository, Withdrawn,
           Forks, MutualForks, DeletedFork,
           DeletedRepository, Accounts, Unnamed, Labels, Deletions, Recounted, Reopened, Crossed}
=============================================================================
