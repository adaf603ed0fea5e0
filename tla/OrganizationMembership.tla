------------------------ MODULE OrganizationMembership ------------------------
(***************************************************************************)
(* Membership of one organization (internal/organization/service.go and     *)
(* postgres.go): creation, policy, invitations, visibility, roles, removal. *)
(*                                                                         *)
(* A call reads and authorizes, then publishes records on the PDSs of the    *)
(* founder and of the member, then writes to the database.  Nothing holds    *)
(* these steps together: other calls come between any two of them, and a     *)
(* call may stop after any of them.  Every SQL statement and transaction is  *)
(* one step.  The audit event that ends a call is a log that no code here    *)
(* reads, and is left out; so are the profile fields of the organization     *)
(* and its root record.                                                      *)
(*                                                                         *)
(* Grants are numbered in the order of publication.  A membership record     *)
(* names one grant, so the number is its CID too.                            *)
(***************************************************************************)
EXTENDS Integers, Sequences, FiniteSets

CONSTANTS
  Accounts,        \* DIDs
  Founder,         \* the creator: author of the portable root record
  Requests,        \* API calls in flight at one time
  MaxCalls,        \* bound on the calls
  MaxInvitations,  \* bound on the invitations
  None

OrganizationRoles == {"owner", "member"}
BasePermissions == {"none", "read", "write"}
Rows == [role : OrganizationRoles, visibility : {"private", "public"}, grant : Nat]

ASSUME FounderAssumption == Founder \in Accounts /\ None \notin Accounts \cup Rows
ASSUME BoundsAssumption == MaxCalls \in Nat /\ MaxInvitations \in Nat

VARIABLES
  organization,  \* core.organizations: state and base_permission
  members,       \* core.organization_members by account, None without a row
  invitations,   \* core.organization_invitations
  grants,        \* organizationGrant records, live until a revocation names them
  memberRecord,  \* organizationMembership record of each account: its grant, or 0
  call,          \* what each request is doing
  calls,         \* calls so far
  consented      \* ghost: accounts that asked for a public membership

membershipVars == <<organization, members, invitations, grants, memberRecord,
                    consented>>
callVars == <<call, calls>>

Invitations == [to : Accounts, role : OrganizationRoles, fresh : BOOLEAN,
                status : {"pending", "accepted", "revoked"}]
Grants == [to : Accounts, role : OrganizationRoles, live : BOOLEAN]

\* args: what the caller asked for.  old: the grant of the row that was read.
\* new: the grant this call published.  plan: the steps it has left.
Idle == [op |-> "idle", args |-> None, old |-> 0, new |-> 0, plan |-> <<>>]

NewRow(role) == [role |-> role, visibility |-> "private", grant |-> 0]

MembershipInit ==
  /\ organization = [state |-> "none", base |-> "read"]
  /\ members = [a \in Accounts |-> None]
  /\ invitations = <<>> /\ grants = <<>>
  /\ memberRecord = [a \in Accounts |-> 0] /\ consented = {}
  /\ call = [r \in Requests |-> Idle] /\ calls = 0

Owners == {a \in Accounts : members[a] # None /\ members[a].role = "owner"}

\* GetOrganizationOwner, the query behind authorizeOwner.
IsOwner(a) == organization.state = "active" /\ a \in Owners

Active(i) == invitations[i].status = "pending" /\ invitations[i].fresh
-----------------------------------------------------------------------------
(* Calls.                                                                   *)

Ready(r) == call[r].op = "idle" /\ calls < MaxCalls

Begin(r, op, args, old, plan) ==
  /\ calls' = calls + 1
  /\ call' = [call EXCEPT ![r] = [op |-> op, args |-> args, old |-> old,
                                  new |-> 0, plan |-> plan]]

\* The next step of a call is `step`, and it is taken.
Step(r, step) ==
  /\ call[r].plan # <<>> /\ Head(call[r].plan) = step
  /\ UNCHANGED calls

Proceed(r) == call' = [call EXCEPT ![r].plan = Tail(@)]
Finish(r) == call' = [call EXCEPT ![r] = Idle]

\* The SQL statement or transaction that ends a call.
Writes(r, op) == call[r].op = op /\ Step(r, "write") /\ Finish(r)

\* An error, a cancelled context or a crash; nothing is undone.
Stop(r) == call[r].op # "idle" /\ Finish(r) /\ UNCHANGED <<calls, membershipVars>>
-----------------------------------------------------------------------------
(* Create.                                                                  *)

\* PostgresStore.Create: the row, its route and the founder's membership.
Create(r) ==
  /\ organization.state = "none"
  /\ Begin(r, "Create", None, 0, <<"activate">>)
  /\ organization' = [organization EXCEPT !.state = "creating"]
  /\ members' = [members EXCEPT ![Founder] = NewRow("owner")]
  /\ UNCHANGED <<invitations, grants, memberRecord, consented>>

\* The root record was published: Activate.  When that statement fails, Fail is
\* called with the zero ID of its empty result and changes nothing (Stop).
Activate(r) ==
  /\ Step(r, "activate") /\ Finish(r)
  /\ organization' = [organization EXCEPT !.state = "active"]
  /\ UNCHANGED <<members, invitations, grants, memberRecord, consented>>

\* The root record could not be published: Fail.
Fail(r) ==
  /\ Step(r, "activate") /\ Finish(r)
  /\ organization' = [organization EXCEPT !.state = "failed"]
  /\ UNCHANGED <<members, invitations, grants, memberRecord, consented>>

(* Update.                                                                  *)

Update(r, actor, base) ==
  /\ IsOwner(actor)
  /\ Begin(r, "Update", [base |-> base], 0, <<"write">>)
  /\ UNCHANGED membershipVars

UpdateOrganization(r) ==
  /\ Writes(r, "Update")
  /\ organization' = IF organization.state = "active"
                       THEN [organization EXCEPT !.base = call[r].args.base]
                       ELSE organization
  /\ UNCHANGED <<members, invitations, grants, memberRecord, consented>>

(* Invitations.                                                             *)

Invite(r, actor, to, role) ==
  /\ to # actor /\ IsOwner(actor)
  /\ Begin(r, "Invite", [to |-> to, role |-> role], 0, <<"write">>)
  /\ UNCHANGED membershipVars

\* One pending invitation for each invitee, expired or not (the unique index).
CreateInvitation(r) ==
  /\ Writes(r, "Invite")
  /\ LET to == call[r].args.to
     IN \/ /\ \A i \in DOMAIN invitations :
                invitations[i].to = to => invitations[i].status # "pending"
           /\ Len(invitations) < MaxInvitations
           /\ invitations' = Append(invitations,
                [to |-> to, role |-> call[r].args.role, fresh |-> TRUE,
                 status |-> "pending"])
        \/ /\ \E i \in DOMAIN invitations :
                invitations[i].to = to /\ invitations[i].status = "pending"
           /\ UNCHANGED invitations
  /\ UNCHANGED <<organization, members, grants, memberRecord, consented>>

Accept(r, actor, i) ==
  /\ i \in DOMAIN invitations /\ invitations[i].to = actor /\ Active(i)
  /\ Begin(r, "Accept", [invitation |-> i], 0, <<"write">>)
  /\ UNCHANGED membershipVars

\* Joining the organization by invitation i: one transaction.
Join(i) ==
  /\ invitations' = [invitations EXCEPT ![i].status = "accepted"]
  /\ members' = [members EXCEPT ![invitations[i].to] = NewRow(invitations[i].role)]
  /\ UNCHANGED <<organization, grants, memberRecord, consented>>

\* Variant: the state of the invitation is the one that Accept saw.
AcceptInvitation_Stale(r) ==
  /\ Writes(r, "Accept")
  /\ LET i == call[r].args.invitation
     IN \/ members[invitations[i].to] = None /\ Join(i)
        \/ members[invitations[i].to] # None /\ UNCHANGED membershipVars

\* Variant: the membership is inserted or replaced.
AcceptInvitation_Upsert(r) ==
  /\ Writes(r, "Accept")
  /\ LET i == call[r].args.invitation
     IN \/ invitations[i].status = "pending" /\ Join(i)
        \/ invitations[i].status # "pending" /\ UNCHANGED membershipVars

\* AcceptInvitation checks again under the lock of the row, with the time that
\* Accept read; an account that is a member already violates the primary key,
\* which rolls everything back.
AcceptInvitation(r) ==
  /\ Writes(r, "Accept")
  /\ LET i == call[r].args.invitation
         joinable == invitations[i].status = "pending" /\ members[invitations[i].to] = None
     IN \/ joinable /\ Join(i)
        \/ ~joinable /\ UNCHANGED membershipVars

Revoke(r, actor, i) ==
  /\ IsOwner(actor) /\ i \in DOMAIN invitations /\ Active(i)
  /\ Begin(r, "Revoke", [invitation |-> i], 0, <<"write">>)
  /\ UNCHANGED membershipVars

RevokeInvitation(r) ==
  /\ Writes(r, "Revoke")
  /\ LET i == call[r].args.invitation
     IN invitations' = IF invitations[i].status = "pending"
                         THEN [invitations EXCEPT ![i].status = "revoked"]
                         ELSE invitations
  /\ UNCHANGED <<organization, members, grants, memberRecord, consented>>

\* Seven days pass.
Expire(i) ==
  /\ i \in DOMAIN invitations /\ invitations[i].fresh
  /\ invitations' = [invitations EXCEPT ![i].fresh = FALSE]
  /\ UNCHANGED <<organization, members, grants, memberRecord, consented,
                 callVars>>
-----------------------------------------------------------------------------
(* Records on the PDSs.  Grants and revocations are put under new keys, the  *)
(* membership record under one key without a swap; its deletion swaps.       *)

PublishGrant(r) ==
  /\ Step(r, "grant")
  /\ grants' = Append(grants, [to |-> call[r].args.member,
                               role |-> call[r].args.role, live |-> TRUE])
  /\ call' = [call EXCEPT ![r].new = Len(grants'), ![r].plan = Tail(@)]
  /\ UNCHANGED <<organization, members, invitations, memberRecord, consented>>

PublishMembership(r) ==
  /\ Step(r, "record") /\ Proceed(r)
  /\ memberRecord' = [memberRecord EXCEPT ![call[r].args.member] = call[r].new]
  /\ UNCHANGED <<organization, members, invitations, grants, consented>>

PublishRevocation(r) ==
  /\ Step(r, "revoke") /\ Proceed(r)
  /\ grants' = [grants EXCEPT ![call[r].old].live = FALSE]
  /\ UNCHANGED <<organization, members, invitations, memberRecord, consented>>

\* A record that is gone counts as deleted; one that was replaced is an error.
DeleteMembership(r) ==
  /\ Step(r, "delete")
  /\ LET m == call[r].args.member
     IN \/ /\ memberRecord[m] \in {0, call[r].old} /\ Proceed(r)
           /\ memberRecord' = [memberRecord EXCEPT ![m] = 0]
        \/ /\ memberRecord[m] \notin {0, call[r].old} /\ Finish(r)
           /\ UNCHANGED memberRecord
  /\ UNCHANGED <<organization, members, invitations, grants, consented>>

\* The steps that take back what a row names: none when it names no grant.
Retract(grant, steps) == IF grant = 0 THEN <<>> ELSE steps
-----------------------------------------------------------------------------
(* Visibility, roles, removal.                                              *)

\* Only the member; the founder, who issues the grant, must be an owner.
SetVisibility(r, actor, visibility) ==
  /\ members[actor] # None /\ members[actor].visibility # visibility
  /\ LET grant == members[actor].grant
     IN /\ (visibility = "public" \/ grant # 0) => IsOwner(Founder)
        /\ Begin(r, "SetVisibility",
                 [member |-> actor, role |-> members[actor].role,
                  visibility |-> visibility], grant,
                 IF visibility = "public"
                   THEN <<"grant", "record", "write">>
                   ELSE Retract(grant, <<"revoke", "delete">>) \o <<"write">>)
  /\ consented' = IF visibility = "public" THEN consented \cup {actor} ELSE consented
  /\ UNCHANGED <<organization, members, invitations, grants, memberRecord>>

\* The row may have changed since it was read, or be gone.
UpdateVisibility(r) ==
  /\ Writes(r, "SetVisibility")
  /\ LET m == call[r].args.member
     IN members' = IF members[m] = None THEN members
                   ELSE [members EXCEPT ![m].visibility = call[r].args.visibility,
                                        ![m].grant = call[r].new]
  /\ UNCHANGED <<organization, invitations, grants, memberRecord, consented>>

\* Variant: every role is published.
ChangeRole_Published(r, actor, member, role) ==
  /\ IsOwner(actor) /\ members[member] # None
  /\ members[member].role # role /\ member # Founder
  /\ LET grant == members[member].grant
     IN Begin(r, "ChangeRole", [member |-> member, role |-> role], grant,
              <<"grant", "record">> \o Retract(grant, <<"revoke">>) \o <<"write">>)
  /\ UNCHANGED membershipVars

\* An owner changes the role of a member other than the founder.  A public
\* membership is published again with the new role, a private one never is.
ChangeRole(r, actor, member, role) ==
  /\ IsOwner(actor) /\ members[member] # None
  /\ members[member].role # role /\ member # Founder
  /\ LET row == members[member]
     IN Begin(r, "ChangeRole", [member |-> member, role |-> role], row.grant,
              IF row.visibility = "public"
                THEN <<"grant", "record">> \o Retract(row.grant, <<"revoke">>)
                       \o <<"write">>
                ELSE <<"write">>)
  /\ UNCHANGED membershipVars

\* Variant: a team role is stored.
UpdateMemberRole_TeamRole(r) ==
  /\ Writes(r, "ChangeRole")
  /\ LET m == call[r].args.member
     IN members' = IF members[m] = None THEN members
                   ELSE [members EXCEPT ![m].role = "maintainer",
                                        ![m].grant = call[r].new]
  /\ UNCHANGED <<organization, invitations, grants, memberRecord, consented>>

\* UpdateMemberRole locks the owners, refuses to demote the last one, and
\* stores the grant of this call whatever the row names by now.
UpdateMemberRole(r) ==
  /\ Writes(r, "ChangeRole")
  /\ LET m == call[r].args.member
         role == call[r].args.role
     IN members' =
          IF members[m] = None \/ (role # "owner" /\ Owners = {m})
            THEN members
            ELSE [members EXCEPT ![m].role = role, ![m].grant = call[r].new]
  /\ UNCHANGED <<organization, invitations, grants, memberRecord, consented>>

\* An owner removes a member, or a member leaves; the founder stays.  Unlike
\* the other calls, this one does not ask for an active organization.
Remove(r, actor, member) ==
  /\ organization.state # "none"
  /\ members[actor] # None /\ (members[actor].role = "owner" \/ actor = member)
  /\ members[member] # None /\ member # Founder
  /\ LET grant == members[member].grant
     IN /\ (grant # 0 /\ members[actor].role # "owner") => IsOwner(Founder)
        /\ Begin(r, "Remove", [member |-> member], grant,
                 Retract(grant, <<"revoke", "delete">>) \o <<"write">>)
  /\ UNCHANGED membershipVars

RemoveMember(r) ==
  /\ Writes(r, "Remove")
  /\ LET m == call[r].args.member
     IN members' = IF Owners = {m} THEN members ELSE [members EXCEPT ![m] = None]
  /\ UNCHANGED <<organization, invitations, grants, memberRecord, consented>>
-----------------------------------------------------------------------------
MembershipCall(r) ==
  \/ Create(r)
  \/ \E a \in Accounts :
       \/ \E base \in BasePermissions : Update(r, a, base)
       \/ \E i \in 1..MaxInvitations : Accept(r, a, i) \/ Revoke(r, a, i)
       \/ \E v \in {"private", "public"} : SetVisibility(r, a, v)
       \/ \E b \in Accounts :
            \/ Remove(r, a, b)
            \/ \E role \in OrganizationRoles : Invite(r, a, b, role)
                                               \/ ChangeRole(r, a, b, role)

MembershipStep(r) ==
  \/ Activate(r) \/ Fail(r) \/ UpdateOrganization(r)
  \/ CreateInvitation(r) \/ AcceptInvitation(r) \/ RevokeInvitation(r)
  \/ PublishGrant(r) \/ PublishMembership(r) \/ PublishRevocation(r)
  \/ DeleteMembership(r) \/ UpdateVisibility(r) \/ UpdateMemberRole(r)
  \/ RemoveMember(r)

MembershipNext ==
  \/ \E r \in Requests : \/ Ready(r) /\ MembershipCall(r)
                         \/ MembershipStep(r)
  \/ \E i \in 1..MaxInvitations : Expire(i)
-----------------------------------------------------------------------------
\* The founding owner is the author of the portable root and remains an owner,
\* whoever invites, promotes, demotes or removes whom, and in whatever order.
FounderOwns == organization.state # "none" => Founder \in Owners

\* Membership by invitation: whoever becomes a member spends in the same step a
\* pending invitation of theirs, and a spent or revoked invitation stays so,
\* whatever was decided between the first check and the write.
InvitationSpentOnce ==
  [][/\ \A a \in Accounts \ {Founder} :
          (members[a] = None /\ members'[a] # None) =>
            \E i \in DOMAIN invitations :
              /\ invitations[i].to = a /\ invitations[i].status = "pending"
              /\ invitations'[i].status = "accepted"
     /\ \A i \in DOMAIN invitations :
          invitations[i].status # "pending" =>
            invitations'[i].status = invitations[i].status]_<<members, invitations>>

\* A membership is public only by the member's own will: no role change, no
\* removal and no race between them publishes the membership of an account that
\* never asked for it.
PublicByConsent == \A a \in Accounts : memberRecord[a] # 0 => a \in consented
=============================================================================
