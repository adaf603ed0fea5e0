---------------------------- MODULE MC_Organizations ----------------------------
(* Instances of OrganizationTeams for TLC.  Runs start from nothing, and from   *)
(* an organization that has existed for a while.                                *)
EXTENDS OrganizationTeams, TLC

CONSTANTS Member, Guest, t1, t2

\* An active organization with a second member, private or public, and two visible
\* teams: the member maintains t1, which administers the repository, t2 lies beneath
\* it or beside it, and a pending invitation waits for somebody.  All of it is
\* reachable by calls of Create, Invite, Accept, SetVisibility, CreateTeam, PutMember
\* and PutRepository.
Established ==
  /\ organization = [state |-> "active", base |-> "none"]
  /\ \E role \in OrganizationRoles, grant \in {0, 1} :
       /\ members = [a \in Accounts |->
            CASE a = Founder -> NewRow("owner")
              [] a = Member -> [role |-> role, grant |-> grant,
                                visibility |-> IF grant = 0 THEN "private" ELSE "public"]
              [] OTHER -> None]
       /\ grants = [g \in 1..grant |-> [to |-> Member, role |-> role, live |-> TRUE]]
       /\ memberRecord = [a \in Accounts |-> IF a = Member THEN grant ELSE 0]
       /\ consented = {a \in {Member} : grant = 1}
  /\ \E to \in {Founder, Guest} :
       invitations = <<[to |-> Member, role |-> "member", fresh |-> FALSE,
                        status |-> "accepted"],
                       [to |-> to, role |-> "member", fresh |-> TRUE,
                        status |-> "pending"]>>
  /\ call = [r \in Requests |-> Idle] /\ calls = 0
  /\ \E above \in {None, t1} :
       teams = [t \in Teams |->
                  [live |-> TRUE, secret |-> FALSE,
                   parent |-> IF t = t2 THEN above ELSE None]]
  /\ teamMembers = [t \in Teams |-> [a \in Accounts |->
                     IF a = Member THEN (IF t = t1 THEN "maintainer" ELSE "member")
                                   ELSE None]]
  /\ assignments = [t \in Teams |-> IF t = t1 THEN "admin" ELSE None]
  /\ collaborators = [a \in Accounts |-> None]
  /\ found = [r \in Requests |-> {}]

EstablishedSpec == (Init \/ Established) /\ [][Next]_vars

Symmetric == Permutations(Requests)
=============================================================================
