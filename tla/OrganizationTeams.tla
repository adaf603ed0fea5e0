--------------------------- MODULE OrganizationTeams ---------------------------
(***************************************************************************)
(* Teams, collaborators and the permissions they give on one private         *)
(* repository of an organization (internal/organization/team_service.go,      *)
(* collaborator_service.go, their stores, and the queries in                  *)
(* collaborators.sql), composed with the membership of the organization.     *)
(*                                                                         *)
(* A call checks and authorizes, then executes one statement that checks      *)
(* part of it again; between the two the hierarchy and the members change.    *)
(* Nothing locks the hierarchy, and PostgreSQL runs these statements under     *)
(* READ COMMITTED: a statement selects rows in the snapshot of its start and   *)
(* writes them later, looking again only at the row it writes.  The two are    *)
(* steps of their own, so that statements overlap.                             *)
(***************************************************************************)
EXTENDS OrganizationMembership

CONSTANTS
  Teams,           \* team IDs
  RepositoryRoles  \* the roles that callers assign

TeamRoles == {"member", "maintainer"}

\* RepositoryRole, weakest first; None is no role.
Level(role) == CASE role = "read" -> 1 [] role = "triage" -> 2 [] role = "write" -> 3
                 [] role = "maintain" -> 4 [] role = "admin" -> 5 [] OTHER -> 0

ASSUME RolesAssumption == Level(None) = 0 /\ \A role \in RepositoryRoles : Level(role) > 0

TeamRows == [live : BOOLEAN, parent : Teams \cup {None}, secret : BOOLEAN]

ASSUME TeamsAssumption == None \notin Teams \cup TeamRows

VARIABLES
  teams,         \* core.organization_teams, None before the team is created
  teamMembers,   \* core.organization_team_members: role or None
  assignments,   \* core.organization_team_repositories: role or None
  collaborators, \* core.repository_collaborators: role or None
  found          \* the teams that the statement of each request selected

tables == <<teams, teamMembers, assignments, collaborators>>
teamVars == <<tables, found>>
vars == <<membershipVars, callVars, teamVars>>

Init ==
  /\ MembershipInit
  /\ teams = [t \in Teams |-> None]
  /\ teamMembers = [t \in Teams |-> [a \in Accounts |-> None]]
  /\ assignments = [t \in Teams |-> None]
  /\ collaborators = [a \in Accounts |-> None]
  /\ found = [r \in Requests |-> {}]

\* Rows with deleted_at IS NULL.
LiveTeams == {t \in Teams : teams[t] # None /\ teams[t].live}
Children(S) == {t \in LiveTeams : teams[t].parent \in S}

\* The recursive query over children: the teams beneath t, the least set that
\* has the children of t and, with each team, its children.
Descendants(t) ==
  {u \in LiveTeams : \A S \in SUBSET LiveTeams : Children(S \cup {t}) \subseteq S => u \in S}

\* The recursion is UNION ALL: where it runs into a cycle the query never ends.
QueryEnds(t) == \A u \in Descendants(t) \cup {t} : u \notin Descendants(u)

\* Variant: only the teams of which the account is a member.
TeamLineage_Direct(a) == {t \in LiveTeams : teamMembers[t][a] # None}

\* team_lineage, WITH RECURSIVE ... UNION: the least set that has the account's teams
\* and, with each team, its parent while that is live.
TeamLineage(a) ==
  {t \in LiveTeams :
     \A S \in SUBSET LiveTeams :
       /\ \A v \in LiveTeams : teamMembers[v][a] # None => v \in S
       /\ \A v \in S : teams[v].parent \in LiveTeams => teams[v].parent \in S
       => t \in S}

IsMember(a) == members[a] # None
ByTeam(a, roles) == \E t \in TeamLineage(a) : assignments[t] \in roles

CanAdminRepository(a) ==
  a \in Owners \/ ByTeam(a, {"admin"}) \/ collaborators[a] = "admin"

CanWriteRepository(a) ==
  \/ a \in Owners
  \/ IsMember(a) /\ organization.base = "write"
  \/ ByTeam(a, {"write", "maintain", "admin"})
  \/ collaborators[a] \in {"write", "maintain", "admin"}

CanTriageRepository(a) ==
  \/ a \in Owners
  \/ IsMember(a) /\ organization.base = "write"
  \/ ByTeam(a, {"triage", "write", "maintain", "admin"})
  \/ collaborators[a] \in {"triage", "write", "maintain", "admin"}

CanReadRepository(a) ==
  \/ a \in Owners
  \/ IsMember(a) /\ organization.base \in {"read", "write"}
  \/ ByTeam(a, {"read", "triage", "write", "maintain", "admin"})
  \/ collaborators[a] \in {"read", "triage", "write", "maintain", "admin"}

\* authorizeMaintainer: an owner, or a maintainer of this very team.
AuthorizeMaintainer(t, a) == IsOwner(a) \/ teamMembers[t][a] = "maintainer"
-----------------------------------------------------------------------------
(* Calls: the checks of the service.                                        *)

\* The statements that select the teams they are about, and then write.
Selecting == {"CreateTeam", "UpdateTeam", "DeleteTeam", "PutMember", "PutRepository"}

TeamCall(r, op, args) ==
  /\ Begin(r, op, args, 0, IF op \in Selecting THEN <<"select", "write">> ELSE <<"write">>)
  /\ found' = [found EXCEPT ![r] = {}]
  /\ UNCHANGED <<membershipVars, tables>>

CreateTeam(r, actor, t, parent, secret) ==
  /\ IsOwner(actor) /\ teams[t] = None
  /\ parent # None => parent \in LiveTeams /\ ~secret /\ ~teams[parent].secret
  /\ TeamCall(r, "CreateTeam", [team |-> t, parent |-> parent, secret |-> secret])

UpdateTeam(r, actor, t, parent, secret) ==
  /\ t \in LiveTeams /\ AuthorizeMaintainer(t, actor) /\ parent # t
  /\ parent # None =>
       /\ parent \in LiveTeams /\ ~secret /\ ~teams[parent].secret
       /\ QueryEnds(t) /\ parent \notin Descendants(t)
       /\ parent # teams[t].parent => AuthorizeMaintainer(parent, actor)
  /\ secret => Children({t}) = {}
  /\ TeamCall(r, "UpdateTeam", [team |-> t, parent |-> parent, secret |-> secret])

\* Delete, RemoveRepository and the calls below need a live team and a maintainer.
ManageTeam(r, actor, op, args) ==
  /\ args.team \in LiveTeams /\ AuthorizeMaintainer(args.team, actor)
  /\ TeamCall(r, op, args)

\* CollaboratorService.Put and Remove: whoever administers the repository.
ManageCollaborator(r, actor, op, args) ==
  /\ organization.state # "none" /\ CanAdminRepository(actor)
  /\ TeamCall(r, op, args)
-----------------------------------------------------------------------------
(* Statements: what each selects in its snapshot.                           *)

\* What a statement checks of the parent it is given.
Nestable(parent, secret) ==
  parent # None => ~secret /\ parent \in LiveTeams /\ ~teams[parent].secret

CreateTeamFinds(c) == {t \in {c.team} : Nestable(c.parent, c.secret)}

\* Variant: the service has checked the hierarchy, so the statement does not.
UpdateTeamFinds_Unchecked(c) == {c.team} \cap LiveTeams

\* UpdateOrganizationTeam repeats the checks of the service on the hierarchy.
UpdateTeamFinds(c) ==
  {t \in {c.team} \cap LiveTeams :
     /\ Nestable(c.parent, c.secret) /\ c.parent \notin Descendants(t) \cup {t}
     /\ c.secret => c.parent = None /\ Descendants(t) = {}}

\* DeleteOrganizationTeamHierarchy: the team and everything beneath it.
DeleteTeamFinds(c) ==
  IF c.team \in LiveTeams THEN {c.team} \cup Descendants(c.team) ELSE {}

\* AddOrganizationTeamMember: only members of the organization.
AddMemberFinds(c) == {t \in {c.team} \cap LiveTeams : IsMember(c.member)}

Finds(r) ==
  LET c == call[r].args
      op == call[r].op
  IN CASE op = "CreateTeam" -> CreateTeamFinds(c)
       [] op = "UpdateTeam" -> UpdateTeamFinds(c)
       [] op = "DeleteTeam" -> DeleteTeamFinds(c)
       [] op = "PutMember" -> AddMemberFinds(c)
       [] OTHER -> {c.team} \cap LiveTeams

\* A statement starts; a move and a deletion walk the teams beneath theirs.
Select(r) ==
  /\ Step(r, "select") /\ Proceed(r)
  /\ call[r].op = "UpdateTeam" /\ call[r].args.parent # None => QueryEnds(call[r].args.team)
  /\ call[r].op = "DeleteTeam" => QueryEnds(call[r].args.team)
  /\ found' = [found EXCEPT ![r] = Finds(r)]
  /\ UNCHANGED <<membershipVars, tables>>
-----------------------------------------------------------------------------
(* Statements: what each writes of the teams it selected.                   *)

TeamWrites(r, op) == Writes(r, op) /\ UNCHANGED <<membershipVars, found>>

InsertTeam(r) ==
  /\ TeamWrites(r, "CreateTeam")
  /\ LET c == call[r].args
     IN teams' = [t \in Teams |-> IF t \in found[r] /\ teams[t] = None
                                    THEN [live |-> TRUE, parent |-> c.parent,
                                          secret |-> c.secret]
                                    ELSE teams[t]]
  /\ UNCHANGED <<teamMembers, assignments, collaborators>>

\* The row is locked and checked again: it must still be live.  The rest of the
\* hierarchy is the one of the snapshot.
UpdateTeamRow(r) ==
  /\ TeamWrites(r, "UpdateTeam")
  /\ LET c == call[r].args
     IN teams' = [t \in Teams |-> IF t \in found[r] \cap LiveTeams
                                    THEN [teams[t] EXCEPT !.parent = c.parent,
                                                          !.secret = c.secret]
                                    ELSE teams[t]]
  /\ UNCHANGED <<teamMembers, assignments, collaborators>>

\* The rows of members and assignments stay.
DeleteTeam(r) ==
  /\ TeamWrites(r, "DeleteTeam")
  /\ teams' = [t \in Teams |-> IF t \in found[r] THEN [teams[t] EXCEPT !.live = FALSE]
                                                ELSE teams[t]]
  /\ UNCHANGED <<teamMembers, assignments, collaborators>>

AddTeamMember(r) ==
  /\ TeamWrites(r, "PutMember")
  /\ LET c == call[r].args
     IN teamMembers' = [t \in Teams |-> IF t \in found[r]
                                          THEN [teamMembers[t] EXCEPT ![c.member] = c.role]
                                          ELSE teamMembers[t]]
  /\ UNCHANGED <<teams, assignments, collaborators>>

RemoveTeamMember(r) ==
  /\ TeamWrites(r, "RemoveMember")
  /\ teamMembers' = [teamMembers EXCEPT ![call[r].args.team][call[r].args.member] = None]
  /\ UNCHANGED <<teams, assignments, collaborators>>

PutTeamRepository(r) ==
  /\ TeamWrites(r, "PutRepository")
  /\ assignments' = [t \in Teams |-> IF t \in found[r] THEN call[r].args.role
                                                        ELSE assignments[t]]
  /\ UNCHANGED <<teams, teamMembers, collaborators>>

RemoveTeamRepository(r) ==
  /\ TeamWrites(r, "RemoveRepository")
  /\ assignments' = [assignments EXCEPT ![call[r].args.team] = None]
  /\ UNCHANGED <<teams, teamMembers, collaborators>>

PutRepositoryCollaborator(r) ==
  /\ TeamWrites(r, "PutCollaborator")
  /\ collaborators' = [collaborators EXCEPT ![call[r].args.member] = call[r].args.role]
  /\ UNCHANGED <<teams, teamMembers, assignments>>

RemoveRepositoryCollaborator(r) ==
  /\ TeamWrites(r, "RemoveCollaborator")
  /\ collaborators' = [collaborators EXCEPT ![call[r].args.member] = None]
  /\ UNCHANGED <<teams, teamMembers, assignments>>
-----------------------------------------------------------------------------
TeamServiceCall(r) ==
  \E actor \in Accounts, t \in Teams :
    \/ \E parent \in Teams \cup {None}, secret \in BOOLEAN :
         CreateTeam(r, actor, t, parent, secret) \/ UpdateTeam(r, actor, t, parent, secret)
    \/ ManageTeam(r, actor, "DeleteTeam", [team |-> t])
    \/ ManageTeam(r, actor, "RemoveRepository", [team |-> t])
    \/ \E role \in RepositoryRoles :
         ManageTeam(r, actor, "PutRepository", [team |-> t, role |-> role])
    \/ \E m \in Accounts :
         \/ ManageTeam(r, actor, "RemoveMember", [team |-> t, member |-> m])
         \/ \E role \in TeamRoles :
              ManageTeam(r, actor, "PutMember", [team |-> t, member |-> m, role |-> role])

CollaboratorServiceCall(r) ==
  \E actor, m \in Accounts :
    \/ ManageCollaborator(r, actor, "RemoveCollaborator", [member |-> m])
    \/ \E role \in RepositoryRoles :
         ManageCollaborator(r, actor, "PutCollaborator", [member |-> m, role |-> role])

TeamStep(r) ==
  \/ Select(r)
  \/ InsertTeam(r) \/ UpdateTeamRow(r) \/ DeleteTeam(r)
  \/ AddTeamMember(r) \/ RemoveTeamMember(r)
  \/ PutTeamRepository(r) \/ RemoveTeamRepository(r)
  \/ PutRepositoryCollaborator(r) \/ RemoveRepositoryCollaborator(r)

Next ==
  \/ MembershipNext /\ UNCHANGED teamVars
  \/ \E r \in Requests : \/ Stop(r) /\ UNCHANGED teamVars
                         \/ Ready(r) /\ TeamServiceCall(r)
                         \/ Ready(r) /\ CollaboratorServiceCall(r)
                         \/ TeamStep(r)

Spec == Init /\ [][Next]_vars
-----------------------------------------------------------------------------
\* Every variable has its type, across both modules.
TypeOK ==
  /\ organization \in [state : {"none", "creating", "active", "failed"},
                       base : BasePermissions]
  /\ \A a \in Accounts : members[a] # None => members[a] \in Rows
  /\ invitations \in Seq(Invitations) /\ Len(invitations) <= MaxInvitations
  /\ grants \in Seq(Grants)
  /\ memberRecord \in [Accounts -> 0..Len(grants)]
  /\ \A r \in Requests : {call[r].old, call[r].new} \subseteq 0..Len(grants)
  /\ \A t \in Teams : teams[t] # None => teams[t] \in TeamRows
  /\ teamMembers \in [Teams -> [Accounts -> TeamRoles \cup {None}]]
  /\ assignments \in [Teams -> RepositoryRoles \cup {None}]
  /\ collaborators \in [Accounts -> RepositoryRoles \cup {None}]
  /\ found \in [Requests -> SUBSET Teams]

\* u is above t: it is in every set that has the live parents of t and of its members.
Above(t, u) ==
  \A S \in SUBSET LiveTeams :
    (\A v \in S \cup {t} : teams[v].parent \in LiveTeams => teams[v].parent \in S) => u \in S

\* Live teams form a forest: parents are live, no team is above itself, and
\* secret teams are top-level and have no children.
TeamForest ==
  /\ \A t \in LiveTeams : teams[t].parent # None =>
       /\ teams[t].parent \in LiveTeams
       /\ ~teams[t].secret /\ ~teams[teams[t].parent].secret
  /\ \A t \in LiveTeams : ~Above(t, t)

\* The statement of r was overtaken: now, before it writes, it would select
\* other teams than it did.
Overtaken(r) ==
  /\ call[r].op \in {"CreateTeam", "UpdateTeam", "DeleteTeam"}
  /\ Head(call[r].plan) = "write" /\ found[r] # Finds(r)

\* However stale the checks of the service are, the hierarchy stays a forest as long
\* as no statement overtakes another: the step that breaks it is the write of a
\* statement that another one overtook after its snapshot.  (Nothing prevents that
\* one: two moves that overlap put each team beneath the other, and a team is
\* inserted or moved beneath one that is being deleted.)
TeamForestKept ==
  [][TeamForest /\ ~TeamForest' =>
       \E r \in Requests : Overtaken(r) /\ call'[r] = Idle]_teams

\* The effective permission: the strongest of ownership, base permission,
\* direct assignment and the assignments of all teams, inherited from parents.
EffectiveRoles(a) ==
  (IF a \in Owners THEN {"admin"} ELSE {})
    \cup (IF IsMember(a) THEN {organization.base} ELSE {})
    \cup {collaborators[a]}
    \cup {assignments[t] : t \in {u \in LiveTeams :
            \E v \in LiveTeams : teamMembers[v][a] # None /\ (u = v \/ Above(v, u))}}

\* The four queries that authorize requests decide by the effective permission.
PermissionsResolved ==
  \A a \in Accounts :
    LET roles == EffectiveRoles(a)
        atLeast(role) == \E held \in roles : Level(held) >= Level(role)
    IN /\ CanAdminRepository(a) = atLeast("admin")
       /\ CanWriteRepository(a) = atLeast("write")
       /\ CanTriageRepository(a) = atLeast("triage")
       /\ CanReadRepository(a) = atLeast("read")

\* Teams contain organization members.
TeamsContainMembers ==
  \A t \in LiveTeams, a \in Accounts : teamMembers[t][a] # None => IsMember(a)
=============================================================================
