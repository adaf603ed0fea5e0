------------------------ MODULE OrganizationTeams_proofs ------------------------
(* Proofs about OrganizationTeams and the membership it is composed with, for   *)
(* any sets of accounts, teams, requests and roles and any number of calls.     *)
EXTENDS OrganizationTeams, SequenceTheorems, TLAPS

-----------------------------------------------------------------------------
\* Calls in flight.

PlanSteps == {"activate", "select", "write", "grant", "record", "revoke", "delete"}

\* What each operation was asked for.
Arguments(op) ==
  CASE op = "Update" -> [base : BasePermissions]
    [] op = "Invite" -> [to : Accounts, role : OrganizationRoles]
    [] op \in {"Accept", "Revoke"} -> [invitation : Nat]
    [] op = "SetVisibility" -> [member : Accounts, role : OrganizationRoles,
                                visibility : {"private", "public"}]
    [] op = "ChangeRole" -> [member : Accounts, role : OrganizationRoles]
    [] op = "Remove" -> [member : Accounts]
    [] op \in {"CreateTeam", "UpdateTeam"} ->
         [team : Teams, parent : Teams \cup {None}, secret : BOOLEAN]
    [] op \in {"DeleteTeam", "RemoveRepository"} -> [team : Teams]
    [] op = "PutRepository" -> [team : Teams, role : RepositoryRoles]
    [] op = "RemoveMember" -> [team : Teams, member : Accounts]
    [] op = "PutMember" -> [team : Teams, member : Accounts, role : TeamRoles]
    [] op = "RemoveCollaborator" -> [member : Accounts]
    [] op = "PutCollaborator" -> [member : Accounts, role : RepositoryRoles]
    [] OTHER -> {None}

\* The shape of a call.
IsCall(c) ==
  c = [op |-> c.op, args |-> c.args, old |-> c.old, new |-> c.new, plan |-> c.plan]

\* What makes a step of call c right when its turn comes: an organization to
\* activate, a member who consented to what is published, a grant to revoke.
StepOK(c, step) ==
  /\ step = "activate" => organization.state # "none"
  /\ step \in {"grant", "record"} =>
       c.op \in {"SetVisibility", "ChangeRole"} /\ c.args.member \in consented
  /\ step = "delete" => c.op \in {"SetVisibility", "Remove"}
  /\ step = "revoke" => c.old # 0

CallOK(c) ==
  /\ IsCall(c) /\ c.args \in Arguments(c.op)
  /\ c.old \in 0..Len(grants) /\ c.new \in 0..Len(grants)
  /\ c.plan \in Seq({s \in PlanSteps : StepOK(c, s)})
  /\ c.op \in {"Accept", "Revoke"} => c.args.invitation \in 1..Len(invitations)
  /\ c.op \in {"ChangeRole", "Remove"} => c.args.member # Founder
  /\ c.op = "SetVisibility" /\ c.args.visibility = "public" => c.args.member \in consented

CallInv ==
  /\ DOMAIN call = Requests /\ call = [r \in Requests |-> call[r]] /\ calls \in Nat
  /\ \A r \in Requests : CallOK(call[r])

-----------------------------------------------------------------------------
\* Membership.

MembershipOK ==
  /\ organization \in [state : {"none", "creating", "active", "failed"},
                       base : BasePermissions]
  /\ members \in [Accounts -> Rows \cup {None}]
  /\ invitations \in Seq(Invitations) /\ Len(invitations) <= MaxInvitations
  /\ grants \in Seq(Grants)
  /\ memberRecord \in [Accounts -> 0..Len(grants)]
  /\ consented \subseteq Accounts

\* A row names a grant that was published, and is public by consent.
RowsInv ==
  \A a \in Accounts : members[a] # None =>
    /\ members[a].grant \in 0..Len(grants)
    /\ members[a].visibility = "public" => a \in consented

MembershipInv == MembershipOK /\ RowsInv /\ FounderOwns /\ PublicByConsent

-----------------------------------------------------------------------------
\* Teams.

TeamsOK ==
  /\ teams \in [Teams -> TeamRows \cup {None}]
  /\ teamMembers \in [Teams -> [Accounts -> TeamRoles \cup {None}]]
  /\ assignments \in [Teams -> RepositoryRoles \cup {None}]
  /\ collaborators \in [Accounts -> RepositoryRoles \cup {None}]
  /\ found \in [Requests -> SUBSET Teams]

\* A deletion has selected teams that exist.
FoundInv ==
  \A r \in Requests : call[r].op = "DeleteTeam" => \A t \in found[r] : teams[t] # None

Inv == CallInv /\ MembershipInv /\ TeamsOK /\ FoundInv

\* Parents of live teams are live, and neither side of a nesting is secret.
Nested ==
  \A t \in LiveTeams : teams[t].parent # None =>
    /\ teams[t].parent \in LiveTeams
    /\ ~teams[t].secret /\ ~teams[teams[t].parent].secret

\* S has, with t and each of its own teams, the parent.
ParentsIn(S, t) == \A v \in S \cup {t} : teams[v].parent \in S \cup {None}

\* A set that has every team above t, and not t, shows that t is on no cycle.
Acyclic == \A t \in LiveTeams : \E S \in SUBSET LiveTeams : t \notin S /\ ParentsIn(S, t)

\* What a step makes of the hierarchy: a forest stays one, unless the step is the write of
\* a statement that was overtaken.
ForestStep ==
  Nested /\ Acyclic =>
    (Nested' /\ Acyclic') \/ \E r \in Requests : Overtaken(r) /\ call'[r] = Idle

-----------------------------------------------------------------------------
\* Calls: what Begin, Proceed and Finish leave.

LEMMA MembershipArguments ==
  /\ Arguments("Create") = {None} /\ Arguments("idle") = {None}
  /\ Arguments("Update") = [base : BasePermissions]
  /\ Arguments("Invite") = [to : Accounts, role : OrganizationRoles]
  /\ Arguments("Accept") = [invitation : Nat] /\ Arguments("Revoke") = [invitation : Nat]
  /\ Arguments("SetVisibility") = [member : Accounts, role : OrganizationRoles,
                                   visibility : {"private", "public"}]
  /\ Arguments("ChangeRole") = [member : Accounts, role : OrganizationRoles]
  /\ Arguments("Remove") = [member : Accounts]
BY DEF Arguments

LEMMA TeamArguments ==
  /\ \A op \in {"CreateTeam", "UpdateTeam"} :
       Arguments(op) = [team : Teams, parent : Teams \cup {None}, secret : BOOLEAN]
  /\ \A op \in {"DeleteTeam", "RemoveRepository"} : Arguments(op) = [team : Teams]
  /\ Arguments("PutRepository") = [team : Teams, role : RepositoryRoles]
  /\ Arguments("RemoveMember") = [team : Teams, member : Accounts]
  /\ Arguments("PutMember") = [team : Teams, member : Accounts, role : TeamRoles]
  /\ Arguments("RemoveCollaborator") = [member : Accounts]
  /\ Arguments("PutCollaborator") = [member : Accounts, role : RepositoryRoles]
BY DEF Arguments

\* Other calls change nothing that a call relies on.
Steady ==
  /\ organization.state # "none" => organization'.state # "none"
  /\ consented \subseteq consented'
  /\ Len(invitations) <= Len(invitations') /\ Len(grants) <= Len(grants')

Lengths ==
  /\ Len(invitations) \in Nat /\ Len(grants) \in Nat
  /\ Len(invitations') \in Nat /\ Len(grants') \in Nat

LEMMA CallKept ==
  ASSUME Steady, Lengths, NEW c, CallOK(c)
  PROVE  CallOK(c)'
<1>1. IsCall(c) /\ c.args \in Arguments(c.op)
  BY DEF CallOK
<1>2. c.old \in 0..Len(grants') /\ c.new \in 0..Len(grants')
  BY DEF CallOK, Steady, Lengths
<1>3. c.op \in {"Accept", "Revoke"} => c.args.invitation \in 1..Len(invitations')
  BY DEF CallOK, Steady, Lengths
<1>4. c.plan \in Seq({s \in PlanSteps : StepOK(c, s)'})
  <2> DEFINE A == {s \in PlanSteps : StepOK(c, s)}
             B == {s \in PlanSteps : StepOK(c, s)'}
  <2>1. A \subseteq B
    BY DEF StepOK, Steady
  <2>2. c.plan \in Seq(A)
    BY DEF CallOK
  <2> HIDE DEF A, B
  <2>3. c.plan \in Seq(B)
    BY <2>1, <2>2, SeqMonotonic
  <2> QED BY <2>3 DEF B
<1>5. /\ c.op \in {"ChangeRole", "Remove"} => c.args.member # Founder
      /\ c.op = "SetVisibility" /\ c.args.visibility = "public" => c.args.member \in consented'
  BY DEF CallOK, Steady
<1> QED BY <1>1, <1>2, <1>3, <1>4, <1>5 DEF CallOK

LEMMA CallsKept ==
  ASSUME CallInv, Steady, Lengths, UNCHANGED callVars
  PROVE  CallInv'
<1>1. \A r \in Requests : CallOK(call[r])'
  <2> SUFFICES ASSUME NEW r \in Requests PROVE CallOK(call[r])'
    OBVIOUS
  <2>1. PICK c : c = call[r]
    OBVIOUS
  <2>2. CallOK(c)'
    BY <2>1, CallKept DEF CallInv
  <2>3. call'[r] = c
    BY <2>1 DEF callVars
  <2> QED BY <2>2, <2>3
<1> QED BY <1>1 DEF CallInv, callVars

LEMMA CallMoves ==
  ASSUME CallInv, Steady, Lengths, NEW r \in Requests, NEW c, CallOK(c)',
         call' = [call EXCEPT ![r] = c], calls' \in Nat
  PROVE  CallInv'
<1>1. DOMAIN call = Requests /\ call = [q \in Requests |-> call[q]]
  BY DEF CallInv
<1>2. /\ DOMAIN call' = Requests /\ call' = [q \in Requests |-> call'[q]] /\ call'[r] = c
      /\ \A q \in Requests \ {r} : call'[q] = call[q]
  BY <1>1
<1>3. ASSUME NEW q \in Requests PROVE CallOK(call[q])'
  <2>1. CASE q = r
    BY <1>2, <2>1
  <2>2. CASE q # r
    <3>1. PICK d : d = call[q]
      OBVIOUS
    <3>2. CallOK(d)'
      BY <3>1, CallKept DEF CallInv
    <3>3. call'[q] = d
      BY <1>2, <2>2, <3>1
    <3> QED BY <3>2, <3>3
  <2> QED BY <2>1, <2>2
<1> QED BY <1>2, <1>3 DEF CallInv

LEMMA Finishes ==
  ASSUME CallInv, Steady, Lengths, NEW r \in Requests, Finish(r), UNCHANGED calls
  PROVE  CallInv'
<1>1. CallOK(Idle)'
  <2>1. /\ Idle.op = "idle" /\ Idle.args = None /\ Idle.old = 0 /\ Idle.new = 0
        /\ Idle.plan = <<>> /\ IsCall(Idle)
    BY DEF Idle, IsCall
  <2>2. 0 \in 0..Len(grants')
    BY DEF Lengths
  <2>3. <<>> \in Seq({s \in PlanSteps : StepOK(Idle, s)'})
    OBVIOUS
  <2> QED BY <2>1, <2>2, <2>3, MembershipArguments DEF CallOK
<1>2. PICK c : c = Idle
  OBVIOUS
<1>3. CallOK(c)'
  BY <1>1, <1>2
<1>4. call' = [call EXCEPT ![r] = c] /\ calls' \in Nat
  BY <1>2 DEF Finish, CallInv
<1> QED BY <1>3, <1>4, CallMoves

\* The first step of a plan is one that is right now.
LEMMA StepFacts ==
  ASSUME CallInv, NEW r \in Requests, NEW step, Step(r, step)
  PROVE  /\ call[r].plan # <<>> /\ UNCHANGED calls /\ CallOK(call[r])
         /\ StepOK(call[r], step)
         /\ Tail(call[r].plan) \in Seq({s \in PlanSteps : StepOK(call[r], s)})
<1>1. call[r].plan # <<>> /\ Head(call[r].plan) = step /\ UNCHANGED calls /\ CallOK(call[r])
  BY DEF Step, CallInv
<1> DEFINE A == {s \in PlanSteps : StepOK(call[r], s)}
<1>2. call[r].plan \in Seq(A)
  BY <1>1 DEF CallOK
<1>3. step \in A /\ Tail(call[r].plan) \in Seq(A)
  <2> HIDE DEF A
  <2> QED BY <1>1, <1>2, HeadTailProperties
<1> QED BY <1>1, <1>3

LEMMA Proceeds ==
  ASSUME CallInv, Steady, Lengths, NEW r \in Requests, NEW step, Step(r, step), Proceed(r)
  PROVE  CallInv'
<1>1. PICK c, d : c = call[r] /\ d = [c EXCEPT !.plan = Tail(@)]
  OBVIOUS
<1>2. /\ CallOK(c) /\ UNCHANGED calls
      /\ Tail(c.plan) \in Seq({s \in PlanSteps : StepOK(c, s)})
  BY <1>1, StepFacts
<1>3. /\ IsCall(d) /\ d.op = c.op /\ d.args = c.args /\ d.old = c.old /\ d.new = c.new
      /\ d.plan = Tail(c.plan)
  BY <1>1, <1>2 DEF CallOK, IsCall
<1>4. {s \in PlanSteps : StepOK(d, s)} = {s \in PlanSteps : StepOK(c, s)}
  BY <1>3 DEF StepOK
<1>5. CallOK(d)
  BY <1>2, <1>3, <1>4 DEF CallOK
<1>6. CallOK(d)'
  BY <1>5, CallKept
<1>7. call' = [call EXCEPT ![r] = d] /\ calls' \in Nat
  BY <1>1, <1>2 DEF Proceed, CallInv
<1> QED BY <1>6, <1>7, CallMoves

\* A call begins: what has to be shown of it.
LEMMA Beginning ==
  ASSUME CallInv, Steady, Lengths, NEW r \in Requests, NEW op, NEW args, NEW old, NEW plan,
         Begin(r, op, args, old, plan),
         NEW c, c = [op |-> op, args |-> args, old |-> old, new |-> 0, plan |-> plan],
         CallOK(c)'
  PROVE  CallInv'
<1>1. call' = [call EXCEPT ![r] = c] /\ calls' \in Nat
  BY DEF Begin, CallInv
<1> QED BY <1>1, CallMoves

LEMMA BeginsWrite ==
  ASSUME CallInv, Steady, Lengths, NEW r \in Requests, NEW op, NEW args,
         NEW plan \in {<<"write">>, <<"select", "write">>},
         Begin(r, op, args, 0, plan), args \in Arguments(op),
         op \notin {"SetVisibility", "ChangeRole", "Remove"},
         op \in {"Accept", "Revoke"} => args.invitation \in 1..Len(invitations')
  PROVE  CallInv'
<1>1. PICK c : c = [op |-> op, args |-> args, old |-> 0, new |-> 0, plan |-> plan]
  OBVIOUS
<1>2. /\ IsCall(c) /\ c.op = op /\ c.args = args /\ c.old = 0 /\ c.new = 0
      /\ c.plan = plan
  BY <1>1 DEF IsCall
<1>3. 0 \in 0..Len(grants')
  BY DEF Lengths
<1>4. c.plan \in Seq({s \in PlanSteps : StepOK(c, s)'})
  <2> DEFINE A == {s \in PlanSteps : StepOK(c, s)'}
  <2>1. "write" \in A /\ "select" \in A
    BY DEF StepOK, PlanSteps
  <2> HIDE DEF A
  <2>2. <<"write">> \in Seq(A) /\ <<"select", "write">> \in Seq(A)
    BY <2>1
  <2> QED BY <1>2, <2>2 DEF A
<1>5. CallOK(c)'
  BY <1>2, <1>3, <1>4 DEF CallOK
<1> QED BY <1>1, <1>5, Beginning

\* A plan that takes back what the row names, then writes.
LEMMA RetractPlan ==
  ASSUME NEW A, NEW grant, NEW steps, grant # 0 => steps \in Seq(A), "write" \in A
  PROVE  /\ Retract(grant, steps) \in Seq(A)
         /\ Retract(grant, steps) \o <<"write">> \in Seq(A)
<1>1. Retract(grant, steps) \in Seq(A)
  BY DEF Retract
<1>2. <<"write">> \in Seq(A)
  OBVIOUS
<1> QED BY <1>1, <1>2, ConcatProperties

\* The lengths, from the types before and after.
LEMMA LengthsKnown ==
  ASSUME MembershipOK, MembershipOK'
  PROVE  Lengths
<1>1. /\ invitations \in Seq(Invitations) /\ grants \in Seq(Grants)
      /\ invitations' \in Seq(Invitations) /\ grants' \in Seq(Grants)
  BY DEF MembershipOK
<1> QED BY <1>1, LenProperties DEF Lengths

LEMMA MembershipStays ==
  ASSUME MembershipInv, UNCHANGED membershipVars
  PROVE  MembershipInv' /\ Steady /\ Lengths
<1>1. MembershipOK'
  BY DEF MembershipInv, MembershipOK, membershipVars
<1>2. RowsInv' /\ PublicByConsent' /\ FounderOwns'
  BY DEF MembershipInv, RowsInv, PublicByConsent, FounderOwns, Owners, membershipVars
<1>3. Lengths
  BY <1>1, LengthsKnown DEF MembershipInv
<1>4. Steady
  BY <1>3 DEF Steady, Lengths, membershipVars
<1> QED BY <1>1, <1>2, <1>3, <1>4 DEF MembershipInv
-----------------------------------------------------------------------------
\* The calls of the membership service.

LEMMA SetVisibilityInv ==
  ASSUME CallInv, MembershipInv, NEW r \in Requests, NEW a \in Accounts,
         NEW v \in {"private", "public"}, SetVisibility(r, a, v)
  PROVE  CallInv' /\ MembershipInv'
<1> DEFINE g == members[a].grant
           args == [member |-> a, role |-> members[a].role, visibility |-> v]
           plan == IF v = "public" THEN <<"grant", "record", "write">>
                   ELSE Retract(g, <<"revoke", "delete">>) \o <<"write">>
<1>1. /\ members[a] # None /\ Begin(r, "SetVisibility", args, g, plan)
      /\ consented' = IF v = "public" THEN consented \cup {a} ELSE consented
      /\ UNCHANGED <<organization, members, invitations, grants, memberRecord>>
  BY DEF SetVisibility
<1>2. MembershipOK /\ RowsInv /\ PublicByConsent /\ FounderOwns /\ members[a] \in Rows
  BY <1>1 DEF MembershipInv, MembershipOK
<1>3. consented \subseteq consented' /\ consented' \subseteq Accounts
      /\ (v = "public" => a \in consented')
  BY <1>1, <1>2 DEF MembershipOK
<1>4. MembershipOK'
  BY <1>1, <1>2, <1>3 DEF MembershipOK
<1>5. Lengths
  BY <1>2, <1>4, LengthsKnown
<1>6. Steady
  BY <1>1, <1>3, <1>5 DEF Steady, Lengths
<1>7. RowsInv' /\ PublicByConsent' /\ FounderOwns'
  BY <1>1, <1>2, <1>3 DEF RowsInv, PublicByConsent, FounderOwns, Owners
<1>8. args \in Arguments("SetVisibility") /\ g \in 0..Len(grants') /\ 0 \in 0..Len(grants')
  <2>1. members[a].role \in OrganizationRoles
    BY <1>2 DEF Rows
  <2>2. args \in Arguments("SetVisibility")
    BY <2>1, MembershipArguments
  <2>3. g \in 0..Len(grants)
    BY <1>1, <1>2 DEF RowsInv
  <2>4. 0 \in 0..Len(grants')
    BY <1>5 DEF Lengths
  <2> QED BY <1>1, <2>2, <2>3, <2>4
<1>9. PICK c : c = [op |-> "SetVisibility", args |-> args, old |-> g, new |-> 0, plan |-> plan]
  OBVIOUS
<1>10. /\ IsCall(c) /\ c.op = "SetVisibility" /\ c.args = args /\ c.old = g /\ c.new = 0
       /\ c.plan = plan /\ c.args.member = a /\ c.args.visibility = v
  BY <1>9 DEF IsCall
<1>11. plan \in Seq({s \in PlanSteps : StepOK(c, s)'})
  <2> DEFINE A == {s \in PlanSteps : StepOK(c, s)'}
  <2>1. "write" \in A /\ "delete" \in A
    BY <1>10 DEF StepOK, PlanSteps
  <2>2. v = "public" => "grant" \in A /\ "record" \in A
    BY <1>3, <1>10 DEF StepOK, PlanSteps
  <2>3. g # 0 => "revoke" \in A
    BY <1>10 DEF StepOK, PlanSteps
  <2> HIDE DEF A
  <2>4. ASSUME v = "public" PROVE plan \in Seq(A)
    <3>1. <<"grant", "record", "write">> \in Seq(A)
      BY <2>1, <2>2, <2>4
    <3> QED BY <2>4, <3>1
  <2>5. ASSUME v # "public" PROVE plan \in Seq(A)
    <3>1. PICK h, p : h = g /\ p = Retract(h, <<"revoke", "delete">>) \o <<"write">>
      OBVIOUS
    <3>2. h # 0 => <<"revoke", "delete">> \in Seq(A)
      BY <2>1, <2>3, <3>1
    <3>3. p \in Seq(A)
      BY <2>1, <3>1, <3>2, RetractPlan
    <3> QED BY <2>5, <3>1, <3>3
  <2>6. plan \in Seq(A)
    BY <2>4, <2>5
  <2> QED BY <2>6 DEF A
<1> HIDE DEF args, g, plan
<1>12. CallOK(c)'
  BY <1>3, <1>8, <1>10, <1>11 DEF CallOK
<1>13. CallInv'
  BY <1>1, <1>5, <1>6, <1>9, <1>12, Beginning
<1> QED BY <1>4, <1>7, <1>13 DEF MembershipInv

LEMMA ChangeRoleInv ==
  ASSUME CallInv, MembershipInv, NEW r \in Requests, NEW actor \in Accounts, NEW a \in Accounts,
         NEW role \in OrganizationRoles, ChangeRole(r, actor, a, role)
  PROVE  CallInv' /\ MembershipInv'
<1> DEFINE g == members[a].grant
           args == [member |-> a, role |-> role]
           plan == IF members[a].visibility = "public"
                     THEN <<"grant", "record">> \o Retract(g, <<"revoke">>) \o <<"write">>
                     ELSE <<"write">>
<1>1. /\ members[a] # None /\ a # Founder /\ Begin(r, "ChangeRole", args, g, plan)
      /\ UNCHANGED membershipVars
  BY DEF ChangeRole
<1>2. MembershipInv' /\ Steady /\ Lengths
  BY <1>1, MembershipStays
<1>3. /\ g \in 0..Len(grants)
      /\ members[a].visibility = "public" => a \in consented
      /\ UNCHANGED <<grants, consented>>
  BY <1>1 DEF MembershipInv, RowsInv, membershipVars
<1>4. args \in Arguments("ChangeRole") /\ g \in 0..Len(grants') /\ 0 \in 0..Len(grants')
  <2>1. args \in Arguments("ChangeRole")
    BY MembershipArguments
  <2>2. 0 \in 0..Len(grants')
    BY <1>2 DEF Lengths
  <2> QED BY <1>3, <2>1, <2>2
<1>5. PICK c : c = [op |-> "ChangeRole", args |-> args, old |-> g, new |-> 0, plan |-> plan]
  OBVIOUS
<1>6. /\ IsCall(c) /\ c.op = "ChangeRole" /\ c.args = args /\ c.old = g /\ c.new = 0
      /\ c.plan = plan /\ c.args.member = a
  BY <1>5 DEF IsCall
<1>7. plan \in Seq({s \in PlanSteps : StepOK(c, s)'})
  <2> DEFINE A == {s \in PlanSteps : StepOK(c, s)'}
  <2>1. "write" \in A
    BY <1>6 DEF StepOK, PlanSteps
  <2>2. members[a].visibility = "public" => "grant" \in A /\ "record" \in A
    BY <1>3, <1>6 DEF StepOK, PlanSteps
  <2>3. g # 0 => "revoke" \in A
    BY <1>6 DEF StepOK, PlanSteps
  <2> HIDE DEF A
  <2>4. ASSUME members[a].visibility = "public" PROVE plan \in Seq(A)
    <3>1. PICK h, p, q : /\ h = g /\ p = Retract(h, <<"revoke">>)
                         /\ q = <<"grant", "record">> \o p \o <<"write">>
      OBVIOUS
    <3>2. h # 0 => <<"revoke">> \in Seq(A)
      BY <2>3, <3>1
    <3>3. p \in Seq(A)
      BY <2>1, <3>1, <3>2, RetractPlan
    <3>4. <<"grant", "record">> \in Seq(A) /\ <<"write">> \in Seq(A)
      BY <2>1, <2>2, <2>4
    <3>5. <<"grant", "record">> \o p \in Seq(A)
      BY <3>3, <3>4, ConcatProperties
    <3>6. q \in Seq(A)
      BY <3>1, <3>4, <3>5, ConcatProperties
    <3> QED BY <2>4, <3>1, <3>6
  <2>5. ASSUME members[a].visibility # "public" PROVE plan \in Seq(A)
    BY <2>1, <2>5
  <2>6. plan \in Seq(A)
    BY <2>4, <2>5
  <2> QED BY <2>6 DEF A
<1> HIDE DEF args, g, plan
<1>8. CallOK(c)'
  BY <1>1, <1>4, <1>6, <1>7 DEF CallOK
<1>9. CallInv'
  BY <1>1, <1>2, <1>5, <1>8, Beginning
<1> QED BY <1>2, <1>9

LEMMA RemoveInv ==
  ASSUME CallInv, MembershipInv, NEW r \in Requests, NEW actor \in Accounts, NEW a \in Accounts,
         Remove(r, actor, a)
  PROVE  CallInv' /\ MembershipInv'
<1> DEFINE g == members[a].grant
           args == [member |-> a]
           plan == Retract(g, <<"revoke", "delete">>) \o <<"write">>
<1>1. /\ members[a] # None /\ a # Founder /\ Begin(r, "Remove", args, g, plan)
      /\ UNCHANGED membershipVars
  BY DEF Remove
<1>2. MembershipInv' /\ Steady /\ Lengths
  BY <1>1, MembershipStays
<1>3. g \in 0..Len(grants) /\ UNCHANGED grants
  BY <1>1 DEF MembershipInv, RowsInv, membershipVars
<1>4. args \in Arguments("Remove") /\ g \in 0..Len(grants') /\ 0 \in 0..Len(grants')
  <2>1. args \in Arguments("Remove")
    BY MembershipArguments
  <2>2. 0 \in 0..Len(grants')
    BY <1>2 DEF Lengths
  <2> QED BY <1>3, <2>1, <2>2
<1>5. PICK c : c = [op |-> "Remove", args |-> args, old |-> g, new |-> 0, plan |-> plan]
  OBVIOUS
<1>6. /\ IsCall(c) /\ c.op = "Remove" /\ c.args = args /\ c.old = g /\ c.new = 0
      /\ c.plan = plan /\ c.args.member = a
  BY <1>5 DEF IsCall
<1>7. plan \in Seq({s \in PlanSteps : StepOK(c, s)'})
  <2> DEFINE A == {s \in PlanSteps : StepOK(c, s)'}
  <2>1. "write" \in A /\ "delete" \in A /\ (g # 0 => "revoke" \in A)
    BY <1>6 DEF StepOK, PlanSteps
  <2> HIDE DEF A
  <2>2. PICK h, p : h = g /\ p = Retract(h, <<"revoke", "delete">>) \o <<"write">>
    OBVIOUS
  <2>3. h # 0 => <<"revoke", "delete">> \in Seq(A)
    BY <2>1, <2>2
  <2>4. p \in Seq(A)
    BY <2>1, <2>2, <2>3, RetractPlan
  <2>5. plan \in Seq(A)
    BY <2>2, <2>4
  <2> QED BY <2>5 DEF A
<1> HIDE DEF args, g, plan
<1>8. CallOK(c)'
  BY <1>1, <1>4, <1>6, <1>7 DEF CallOK
<1>9. CallInv'
  BY <1>1, <1>2, <1>5, <1>8, Beginning
<1> QED BY <1>2, <1>9

\* The calls that only write: policy and invitations.
LEMMA WriteCallInv ==
  ASSUME CallInv, MembershipInv, NEW r \in Requests, NEW a \in Accounts,
         \/ \E base \in BasePermissions : Update(r, a, base)
         \/ \E i \in 1..MaxInvitations : Accept(r, a, i) \/ Revoke(r, a, i)
         \/ \E b \in Accounts, role \in OrganizationRoles : Invite(r, a, b, role)
  PROVE  CallInv' /\ MembershipInv'
<1>1. UNCHANGED membershipVars
  BY DEF Update, Accept, Revoke, Invite
<1>2. MembershipInv' /\ Steady /\ Lengths
  BY <1>1, MembershipStays
<1>3. CASE \E base \in BasePermissions : Update(r, a, base)
  <2>1. PICK base \in BasePermissions : Begin(r, "Update", [base |-> base], 0, <<"write">>)
    BY <1>3 DEF Update
  <2>2. [base |-> base] \in Arguments("Update")
    BY MembershipArguments
  <2>3. CallInv'
    BY <1>2, <2>1, <2>2, BeginsWrite
  <2> QED BY <1>2, <2>3
<1>4. CASE \E b \in Accounts, role \in OrganizationRoles : Invite(r, a, b, role)
  <2>1. PICK b \in Accounts, role \in OrganizationRoles :
          Begin(r, "Invite", [to |-> b, role |-> role], 0, <<"write">>)
    BY <1>4 DEF Invite
  <2>2. [to |-> b, role |-> role] \in Arguments("Invite")
    BY MembershipArguments
  <2>3. CallInv'
    BY <1>2, <2>1, <2>2, BeginsWrite
  <2> QED BY <1>2, <2>3
<1>5. CASE \E i \in 1..MaxInvitations : Accept(r, a, i) \/ Revoke(r, a, i)
  <2>1. PICK i \in 1..MaxInvitations, op \in {"Accept", "Revoke"} :
          i \in DOMAIN invitations /\ Begin(r, op, [invitation |-> i], 0, <<"write">>)
    BY <1>5 DEF Accept, Revoke
  <2>2. i \in 1..Len(invitations')
    BY <1>1, <2>1, LenProperties DEF MembershipInv, MembershipOK, membershipVars
  <2>3. [invitation |-> i] \in Arguments(op) /\ [invitation |-> i].invitation = i
    <3>1. [invitation |-> i] \in [invitation : Nat]
      BY <2>1, BoundsAssumption
    <3> QED BY <2>1, <3>1, MembershipArguments
  <2>4. CallInv'
    BY <1>2, <2>1, <2>2, <2>3, BeginsWrite
  <2> QED BY <1>2, <2>4
<1> QED BY <1>3, <1>4, <1>5

\* Creation: the founder becomes the owner, and the organization is there to activate.
LEMMA CreateInv ==
  ASSUME CallInv, MembershipInv, NEW r \in Requests, Create(r)
  PROVE  CallInv' /\ MembershipInv'
<1>1. /\ organization' = [organization EXCEPT !.state = "creating"]
      /\ members' = [members EXCEPT ![Founder] = NewRow("owner")]
      /\ UNCHANGED <<invitations, grants, memberRecord, consented>>
      /\ Begin(r, "Create", None, 0, <<"activate">>)
  BY DEF Create
<1>2. MembershipOK /\ RowsInv /\ PublicByConsent
  BY DEF MembershipInv
<1>3. /\ NewRow("owner") \in Rows /\ NewRow("owner").grant = 0
      /\ NewRow("owner").visibility = "private" /\ NewRow("owner").role = "owner"
  BY DEF NewRow, Rows, OrganizationRoles
<1>4. /\ organization'.state = "creating"
      /\ organization' \in [state : {"none", "creating", "active", "failed"},
                            base : BasePermissions]
  BY <1>1, <1>2 DEF MembershipOK
<1>5. /\ members' \in [Accounts -> Rows \cup {None}] /\ members'[Founder] = NewRow("owner")
      /\ \A a \in Accounts \ {Founder} : members'[a] = members[a]
  BY <1>1, <1>2, <1>3, FounderAssumption DEF MembershipOK
<1>6. MembershipOK'
  BY <1>1, <1>2, <1>4, <1>5 DEF MembershipOK
<1>7. Lengths
  BY <1>2, <1>6, LengthsKnown
<1>8. 0 \in 0..Len(grants')
  BY <1>7 DEF Lengths
<1>9. RowsInv'
  <2> SUFFICES ASSUME NEW a \in Accounts, members'[a] # None
               PROVE  /\ members'[a].grant \in 0..Len(grants')
                      /\ members'[a].visibility = "public" => a \in consented'
    BY DEF RowsInv
  <2>1. CASE a = Founder
    BY <1>3, <1>5, <1>8, <2>1
  <2>2. CASE a # Founder
    BY <1>1, <1>2, <1>5, <2>2 DEF RowsInv
  <2> QED BY <2>1, <2>2
<1>10. PublicByConsent'
  BY <1>1, <1>2 DEF PublicByConsent
<1>11. FounderOwns'
  <2>1. None \notin Rows /\ Founder \in Accounts
    BY FounderAssumption
  <2> QED BY <1>3, <1>5, <2>1 DEF FounderOwns, Owners
<1>12. Steady
  BY <1>1, <1>4, <1>7 DEF Steady, Lengths
<1>13. PICK c : c = [op |-> "Create", args |-> None, old |-> 0, new |-> 0, plan |-> <<"activate">>]
  OBVIOUS
<1>14. /\ IsCall(c) /\ c.op = "Create" /\ c.args = None /\ c.old = 0 /\ c.new = 0
       /\ c.plan = <<"activate">>
  BY <1>13 DEF IsCall
<1>15. c.plan \in Seq({s \in PlanSteps : StepOK(c, s)'})
  <2> DEFINE A == {s \in PlanSteps : StepOK(c, s)'}
  <2>1. "activate" \in A
    BY <1>4 DEF StepOK, PlanSteps
  <2> HIDE DEF A
  <2>2. <<"activate">> \in Seq(A)
    BY <2>1
  <2> QED BY <1>14, <2>2 DEF A
<1>16. CallOK(c)'
  BY <1>8, <1>14, <1>15, MembershipArguments DEF CallOK
<1>17. CallInv'
  BY <1>1, <1>7, <1>12, <1>13, <1>16, Beginning
<1> QED BY <1>6, <1>9, <1>10, <1>11, <1>17 DEF MembershipInv

-----------------------------------------------------------------------------
\* What a step has to show of the variable it changes.

LEMMA OrganizationChanges ==
  ASSUME MembershipInv,
         organization' \in [state : {"none", "creating", "active", "failed"},
                            base : BasePermissions],
         (organization.state # "none") = (organization'.state # "none"),
         UNCHANGED <<members, invitations, grants, memberRecord, consented>>
  PROVE  MembershipInv' /\ Steady /\ Lengths
<1>1. MembershipOK /\ RowsInv /\ PublicByConsent /\ FounderOwns
  BY DEF MembershipInv
<1>2. MembershipOK'
  BY <1>1 DEF MembershipOK
<1>3. RowsInv' /\ PublicByConsent'
  BY <1>1 DEF RowsInv, PublicByConsent
<1>4. FounderOwns'
  BY <1>1 DEF FounderOwns, Owners
<1>5. Lengths
  BY <1>1, <1>2, LengthsKnown
<1>6. Steady
  BY <1>5 DEF Steady, Lengths
<1> QED BY <1>2, <1>3, <1>4, <1>5, <1>6 DEF MembershipInv

LEMMA GrantsChange ==
  ASSUME MembershipInv, grants' \in Seq(Grants), Len(grants) <= Len(grants'),
         UNCHANGED <<organization, members, invitations, memberRecord, consented>>
  PROVE  MembershipInv' /\ Steady /\ Lengths
<1>1. MembershipOK /\ RowsInv /\ PublicByConsent /\ FounderOwns
  BY DEF MembershipInv
<1>2. Len(grants) \in Nat /\ Len(grants') \in Nat
  BY <1>1, LenProperties DEF MembershipOK
<1>3. \A n \in 0..Len(grants) : n \in 0..Len(grants')
  BY <1>2
<1>4. memberRecord' \in [Accounts -> 0..Len(grants')]
  <2>1. memberRecord \in [Accounts -> 0..Len(grants)]
    BY <1>1 DEF MembershipOK
  <2> QED BY <1>3, <2>1
<1>5. MembershipOK'
  BY <1>1, <1>4 DEF MembershipOK
<1>6. RowsInv' /\ PublicByConsent' /\ FounderOwns'
  BY <1>1, <1>3 DEF RowsInv, PublicByConsent, FounderOwns, Owners
<1>7. Lengths
  BY <1>1, <1>5, LengthsKnown
<1>8. Steady
  BY <1>7 DEF Steady, Lengths
<1> QED BY <1>5, <1>6, <1>7, <1>8 DEF MembershipInv

LEMMA RecordChanges ==
  ASSUME MembershipInv, NEW m \in Accounts, NEW n \in 0..Len(grants), n # 0 => m \in consented,
         memberRecord' = [memberRecord EXCEPT ![m] = n],
         UNCHANGED <<organization, members, invitations, grants, consented>>
  PROVE  MembershipInv' /\ Steady /\ Lengths
<1>1. MembershipOK /\ RowsInv /\ PublicByConsent /\ FounderOwns
  BY DEF MembershipInv
<1>2. memberRecord' \in [Accounts -> 0..Len(grants)]
  BY <1>1 DEF MembershipOK
<1>3. MembershipOK'
  BY <1>1, <1>2 DEF MembershipOK
<1>4. PublicByConsent'
  BY <1>1 DEF PublicByConsent, MembershipOK
<1>5. RowsInv' /\ FounderOwns'
  BY <1>1 DEF RowsInv, FounderOwns, Owners
<1>6. Lengths
  BY <1>1, <1>3, LengthsKnown
<1>7. Steady
  BY <1>6 DEF Steady, Lengths
<1> QED BY <1>3, <1>4, <1>5, <1>6, <1>7 DEF MembershipInv

LEMMA InvitationsChange ==
  ASSUME MembershipInv, invitations' \in Seq(Invitations), Len(invitations) <= Len(invitations'),
         Len(invitations') <= MaxInvitations,
         UNCHANGED <<organization, members, grants, memberRecord, consented>>
  PROVE  MembershipInv' /\ Steady /\ Lengths
<1>1. MembershipOK /\ RowsInv /\ PublicByConsent /\ FounderOwns
  BY DEF MembershipInv
<1>2. MembershipOK'
  BY <1>1 DEF MembershipOK
<1>3. RowsInv' /\ PublicByConsent' /\ FounderOwns'
  BY <1>1 DEF RowsInv, PublicByConsent, FounderOwns, Owners
<1>4. Lengths
  BY <1>1, <1>2, LengthsKnown
<1>5. Steady
  BY <1>4 DEF Steady, Lengths
<1> QED BY <1>2, <1>3, <1>4, <1>5 DEF MembershipInv

\* A row changes: it names a published grant, is public by consent, and the
\* founder's is an owner's.
LEMMA RowChanges ==
  ASSUME MembershipInv, NEW m \in Accounts, NEW row \in Rows \cup {None},
         row # None => /\ row.grant \in 0..Len(grants)
                       /\ row.visibility = "public" => m \in consented,
         m = Founder /\ organization.state # "none" => row # None /\ row.role = "owner",
         members' = [members EXCEPT ![m] = row],
         invitations' \in Seq(Invitations), Len(invitations) = Len(invitations'),
         UNCHANGED <<organization, grants, memberRecord, consented>>
  PROVE  MembershipInv' /\ Steady /\ Lengths
<1>1. MembershipOK /\ RowsInv /\ PublicByConsent /\ FounderOwns
  BY DEF MembershipInv
<1>2. /\ members' \in [Accounts -> Rows \cup {None}] /\ members'[m] = row
      /\ \A a \in Accounts \ {m} : members'[a] = members[a]
  BY <1>1 DEF MembershipOK
<1>3. MembershipOK'
  BY <1>1, <1>2 DEF MembershipOK
<1>4. RowsInv'
  <2> SUFFICES ASSUME NEW a \in Accounts, members'[a] # None
               PROVE  /\ members'[a].grant \in 0..Len(grants')
                      /\ members'[a].visibility = "public" => a \in consented'
    BY DEF RowsInv
  <2>1. CASE a = m
    BY <1>2, <2>1
  <2>2. CASE a # m
    BY <1>1, <1>2, <2>2 DEF RowsInv
  <2> QED BY <2>1, <2>2
<1>5. FounderOwns'
  BY <1>1, <1>2, FounderAssumption DEF FounderOwns, Owners
<1>6. PublicByConsent'
  BY <1>1 DEF PublicByConsent
<1>7. Lengths
  BY <1>1, <1>3, LengthsKnown
<1>8. Steady
  BY <1>7 DEF Steady, Lengths
<1> QED BY <1>3, <1>4, <1>5, <1>6, <1>7, <1>8 DEF MembershipInv

-----------------------------------------------------------------------------
\* The steps of membership calls.  SpendStep is the action of InvitationSpentOnce.

SpendStep ==
  /\ \A a \in Accounts \ {Founder} :
       (members[a] = None /\ members'[a] # None) =>
         \E i \in DOMAIN invitations :
           /\ invitations[i].to = a /\ invitations[i].status = "pending"
           /\ invitations'[i].status = "accepted"
  /\ \A i \in DOMAIN invitations :
       invitations[i].status # "pending" => invitations'[i].status = invitations[i].status

\* A write ends its call: its arguments are those of its operation.
LEMMA WriteFacts ==
  ASSUME CallInv, NEW r \in Requests, NEW op, Writes(r, op)
  PROVE  /\ CallOK(call[r]) /\ call[r].op = op /\ call[r].args \in Arguments(op)
         /\ Finish(r) /\ UNCHANGED calls
<1>1. CallOK(call[r])
  BY DEF CallInv
<1> QED BY <1>1 DEF Writes, Step, CallOK

LEMMA ActivateInv ==
  ASSUME CallInv, MembershipInv, NEW r \in Requests, Activate(r) \/ Fail(r)
  PROVE  CallInv' /\ MembershipInv' /\ SpendStep
<1>1. PICK state \in {"active", "failed"} :
        /\ Step(r, "activate") /\ Finish(r)
        /\ organization' = [organization EXCEPT !.state = state]
        /\ UNCHANGED <<members, invitations, grants, memberRecord, consented>>
  BY DEF Activate, Fail
<1>2. organization.state # "none" /\ UNCHANGED calls
  BY <1>1, StepFacts DEF StepOK
<1>3. /\ organization' \in [state : {"none", "creating", "active", "failed"},
                            base : BasePermissions]
      /\ organization'.state = state
  BY <1>1 DEF MembershipInv, MembershipOK
<1>4. (organization.state # "none") = (organization'.state # "none")
  BY <1>1, <1>2, <1>3
<1>5. MembershipInv' /\ Steady /\ Lengths
  BY <1>1, <1>3, <1>4, OrganizationChanges
<1>6. CallInv'
  BY <1>1, <1>2, <1>5, Finishes
<1>7. SpendStep
  BY <1>1 DEF SpendStep
<1> QED BY <1>5, <1>6, <1>7

LEMMA UpdateOrganizationInv ==
  ASSUME CallInv, MembershipInv, NEW r \in Requests, UpdateOrganization(r)
  PROVE  CallInv' /\ MembershipInv' /\ SpendStep
<1>1. /\ Writes(r, "Update")
      /\ organization' = IF organization.state = "active"
                           THEN [organization EXCEPT !.base = call[r].args.base]
                           ELSE organization
      /\ UNCHANGED <<members, invitations, grants, memberRecord, consented>>
  BY DEF UpdateOrganization
<1>2. Finish(r) /\ UNCHANGED calls /\ call[r].args \in [base : BasePermissions]
  BY <1>1, WriteFacts, MembershipArguments
<1>3. organization \in [state : {"none", "creating", "active", "failed"},
                        base : BasePermissions]
  BY DEF MembershipInv, MembershipOK
<1>4. /\ organization' \in [state : {"none", "creating", "active", "failed"},
                            base : BasePermissions]
      /\ organization'.state = organization.state
  <2>1. call[r].args.base \in BasePermissions
    BY <1>2
  <2> QED BY <1>1, <1>3, <2>1
<1>5. (organization.state # "none") = (organization'.state # "none")
  BY <1>4
<1>6. MembershipInv' /\ Steady /\ Lengths
  BY <1>1, <1>4, <1>5, OrganizationChanges
<1>7. CallInv'
  BY <1>2, <1>6, Finishes
<1>8. SpendStep
  BY <1>1 DEF SpendStep
<1> QED BY <1>6, <1>7, <1>8

LEMMA CreateInvitationInv ==
  ASSUME CallInv, MembershipInv, NEW r \in Requests, CreateInvitation(r)
  PROVE  CallInv' /\ MembershipInv' /\ SpendStep
<1> DEFINE x == [to |-> call[r].args.to, role |-> call[r].args.role, fresh |-> TRUE,
                 status |-> "pending"]
<1>1. /\ Writes(r, "Invite")
      /\ \/ Len(invitations) < MaxInvitations /\ invitations' = Append(invitations, x)
         \/ UNCHANGED invitations
      /\ UNCHANGED <<organization, members, grants, memberRecord, consented>>
  BY DEF CreateInvitation
<1>2. /\ Finish(r) /\ UNCHANGED calls
      /\ call[r].args \in [to : Accounts, role : OrganizationRoles]
  BY <1>1, WriteFacts, MembershipArguments
<1>3. /\ invitations \in Seq(Invitations) /\ Len(invitations) \in Nat
      /\ Len(invitations) <= MaxInvitations
  BY LenProperties DEF MembershipInv, MembershipOK
<1>4. x \in Invitations
  BY <1>2 DEF Invitations
<1> HIDE DEF x
<1>5. ASSUME Len(invitations) < MaxInvitations, invitations' = Append(invitations, x)
      PROVE  /\ invitations' \in Seq(Invitations) /\ Len(invitations) <= Len(invitations')
             /\ Len(invitations') <= MaxInvitations
             /\ \A i \in DOMAIN invitations : invitations'[i] = invitations[i]
  <2>1. /\ invitations' \in Seq(Invitations) /\ Len(invitations') = Len(invitations) + 1
        /\ \A i \in 1..Len(invitations) : invitations'[i] = invitations[i]
    BY <1>3, <1>4, <1>5, AppendProperties
  <2>2. DOMAIN invitations = 1..Len(invitations)
    BY <1>3, LenProperties
  <2>3. Len(invitations) + 1 <= MaxInvitations
    BY <1>3, <1>5, BoundsAssumption
  <2> QED BY <1>3, <2>1, <2>2, <2>3
<1>6. /\ invitations' \in Seq(Invitations) /\ Len(invitations) <= Len(invitations')
      /\ Len(invitations') <= MaxInvitations
      /\ \A i \in DOMAIN invitations : invitations'[i] = invitations[i]
  BY <1>1, <1>3, <1>5
<1>7. MembershipInv' /\ Steady /\ Lengths
  BY <1>1, <1>6, InvitationsChange
<1>8. CallInv'
  BY <1>2, <1>7, Finishes
<1>9. SpendStep
  BY <1>1, <1>6 DEF SpendStep
<1> QED BY <1>7, <1>8, <1>9

\* The invitation of a call that accepts or revokes is one there is.
LEMMA InvitationFacts ==
  ASSUME CallInv, MembershipInv, NEW r \in Requests, NEW op \in {"Accept", "Revoke"},
         Writes(r, op)
  PROVE  /\ call[r].args.invitation \in 1..Len(invitations)
         /\ call[r].args.invitation \in DOMAIN invitations
         /\ invitations[call[r].args.invitation] \in Invitations
         /\ Finish(r) /\ UNCHANGED calls
<1>1. CallOK(call[r]) /\ call[r].op = op /\ Finish(r) /\ UNCHANGED calls
  BY WriteFacts
<1>2. call[r].args.invitation \in 1..Len(invitations)
  BY <1>1 DEF CallOK
<1>3. invitations \in Seq(Invitations) /\ DOMAIN invitations = 1..Len(invitations)
  BY LenProperties DEF MembershipInv, MembershipOK
<1> QED BY <1>1, <1>2, <1>3, ElementOfSeq

LEMMA AcceptInvitationInv ==
  ASSUME CallInv, MembershipInv, NEW r \in Requests, AcceptInvitation(r)
  PROVE  CallInv' /\ MembershipInv' /\ SpendStep
<1>1. PICK i : i = call[r].args.invitation
  OBVIOUS
<1>2. /\ Writes(r, "Accept")
      /\ \/ invitations[i].status = "pending" /\ members[invitations[i].to] = None /\ Join(i)
         \/ UNCHANGED membershipVars
  BY <1>1 DEF AcceptInvitation
<1>3. /\ i \in 1..Len(invitations) /\ i \in DOMAIN invitations /\ invitations[i] \in Invitations
      /\ Finish(r) /\ UNCHANGED calls
  BY <1>1, <1>2, InvitationFacts
<1>4. CASE UNCHANGED membershipVars
  <2>1. MembershipInv' /\ Steady /\ Lengths
    BY <1>4, MembershipStays
  <2>2. CallInv'
    BY <1>3, <2>1, Finishes
  <2>3. SpendStep
    BY <1>4 DEF SpendStep, membershipVars
  <2> QED BY <2>1, <2>2, <2>3
<1>5. CASE invitations[i].status = "pending" /\ members[invitations[i].to] = None /\ Join(i)
  <2>1. PICK x, a, row : /\ x = [invitations[i] EXCEPT !.status = "accepted"]
                         /\ a = invitations[i].to /\ row = NewRow(invitations[i].role)
    OBVIOUS
  <2>2. /\ invitations' = [invitations EXCEPT ![i] = x] /\ members' = [members EXCEPT ![a] = row]
        /\ UNCHANGED <<organization, grants, memberRecord, consented>>
    BY <1>5, <2>1 DEF Join
  <2>3. x \in Invitations /\ x.status = "accepted"
    BY <1>3, <2>1 DEF Invitations
  <2>4. a \in Accounts /\ invitations[i].role \in OrganizationRoles
    BY <1>3, <2>1 DEF Invitations
  <2>5. row \in Rows /\ row.grant = 0 /\ row.visibility = "private"
    BY <2>1, <2>4 DEF NewRow, Rows
  <2>6. ~(a = Founder /\ organization.state # "none")
    BY <1>5, <2>1 DEF MembershipInv, FounderOwns, Owners
  <2>7. 0 \in 0..Len(grants)
    <3>1. Len(grants) \in Nat
      BY LenProperties DEF MembershipInv, MembershipOK
    <3> QED BY <3>1
  <2>8. /\ invitations' \in Seq(Invitations) /\ Len(invitations) = Len(invitations')
        /\ \A j \in 1..Len(invitations) : invitations'[j] = IF j = i THEN x ELSE invitations[j]
    <3>1. invitations \in Seq(Invitations)
      BY DEF MembershipInv, MembershipOK
    <3> QED BY <1>3, <2>2, <2>3, <3>1, ExceptSeq
  <2>9. row \in Rows \cup {None} /\ row.grant \in 0..Len(grants)
        /\ (row.visibility = "public" => a \in consented)
    BY <2>5, <2>7
  <2>10. MembershipInv' /\ Steady /\ Lengths
    BY <2>2, <2>4, <2>6, <2>8, <2>9, RowChanges
  <2>11. CallInv'
    BY <1>3, <2>10, Finishes
  <2>12. SpendStep
    <3>1. DOMAIN invitations = 1..Len(invitations)
      BY LenProperties DEF MembershipInv, MembershipOK
    <3>2. \A b \in Accounts : b # a => members'[b] = members[b]
      BY <2>2 DEF MembershipInv, MembershipOK
    <3>3. /\ invitations[i].to = a /\ invitations[i].status = "pending"
          /\ invitations'[i].status = "accepted"
      BY <1>3, <1>5, <2>1, <2>3, <2>8
    <3>4. \A j \in DOMAIN invitations : j # i => invitations'[j] = invitations[j]
      BY <2>8, <3>1
    <3> QED BY <1>3, <3>2, <3>3, <3>4 DEF SpendStep
  <2> QED BY <2>10, <2>11, <2>12
<1> QED BY <1>2, <1>4, <1>5

\* An invitation changes in place, from pending or without a new status.
LEMMA InvitationSettles ==
  ASSUME MembershipInv, NEW i \in 1..Len(invitations), NEW x \in Invitations,
         invitations[i].status = "pending" \/ x.status = invitations[i].status,
         invitations' = [invitations EXCEPT ![i] = x],
         UNCHANGED <<organization, members, grants, memberRecord, consented>>
  PROVE  MembershipInv' /\ Steady /\ Lengths /\ SpendStep
<1>1. /\ invitations \in Seq(Invitations) /\ Len(invitations) <= MaxInvitations
      /\ Len(invitations) \in Nat /\ DOMAIN invitations = 1..Len(invitations)
  BY LenProperties DEF MembershipInv, MembershipOK
<1>2. /\ invitations' \in Seq(Invitations) /\ Len(invitations') = Len(invitations)
      /\ \A j \in 1..Len(invitations) : invitations'[j] = IF j = i THEN x ELSE invitations[j]
  BY <1>1, ExceptSeq
<1>3. Len(invitations) <= Len(invitations') /\ Len(invitations') <= MaxInvitations
  BY <1>1, <1>2
<1>4. MembershipInv' /\ Steady /\ Lengths
  BY <1>2, <1>3, InvitationsChange
<1>5. SpendStep
  BY <1>1, <1>2 DEF SpendStep
<1> QED BY <1>4, <1>5

LEMMA RevokeInvitationInv ==
  ASSUME CallInv, MembershipInv, NEW r \in Requests, RevokeInvitation(r)
  PROVE  CallInv' /\ MembershipInv' /\ SpendStep
<1>1. PICK i : i = call[r].args.invitation
  OBVIOUS
<1>2. PICK x : x = IF invitations[i].status = "pending"
                     THEN [invitations[i] EXCEPT !.status = "revoked"] ELSE invitations[i]
  OBVIOUS
<1>3. /\ Writes(r, "Revoke")
      /\ invitations' = IF invitations[i].status = "pending"
                          THEN [invitations EXCEPT ![i].status = "revoked"] ELSE invitations
      /\ UNCHANGED <<organization, members, grants, memberRecord, consented>>
  BY <1>1 DEF RevokeInvitation
<1>4. /\ i \in 1..Len(invitations) /\ invitations[i] \in Invitations
      /\ Finish(r) /\ UNCHANGED calls
  BY <1>1, <1>3, InvitationFacts
<1>5. x \in Invitations
  BY <1>2, <1>4 DEF Invitations
<1>6. invitations[i].status = "pending" \/ x.status = invitations[i].status
  BY <1>2
<1>7. invitations' = [invitations EXCEPT ![i] = x]
  <2>1. invitations = [j \in DOMAIN invitations |-> invitations[j]]
    BY DEF MembershipInv, MembershipOK
  <2>2. CASE invitations[i].status = "pending"
    BY <1>2, <1>3, <2>2
  <2>3. CASE invitations[i].status # "pending"
    BY <1>2, <1>3, <2>1, <2>3
  <2> QED BY <2>2, <2>3
<1>8. MembershipInv' /\ Steady /\ Lengths /\ SpendStep
  BY <1>3, <1>4, <1>5, <1>6, <1>7, InvitationSettles
<1>9. CallInv'
  BY <1>4, <1>8, Finishes
<1> QED BY <1>8, <1>9

LEMMA ExpireInv ==
  ASSUME CallInv, MembershipInv, NEW i, Expire(i)
  PROVE  CallInv' /\ MembershipInv' /\ SpendStep
<1>1. /\ i \in DOMAIN invitations
      /\ invitations' = [invitations EXCEPT ![i].fresh = FALSE]
      /\ UNCHANGED <<organization, members, grants, memberRecord, consented>>
      /\ UNCHANGED callVars
  BY DEF Expire
<1>2. PICK x : x = [invitations[i] EXCEPT !.fresh = FALSE]
  OBVIOUS
<1>3. i \in 1..Len(invitations) /\ invitations[i] \in Invitations
  BY <1>1, LenProperties, ElementOfSeq DEF MembershipInv, MembershipOK
<1>4. x \in Invitations /\ x.status = invitations[i].status
  BY <1>2, <1>3 DEF Invitations
<1>5. invitations' = [invitations EXCEPT ![i] = x]
  BY <1>1, <1>2
<1>6. MembershipInv' /\ Steady /\ Lengths /\ SpendStep
  BY <1>1, <1>3, <1>4, <1>5, InvitationSettles
<1>7. CallInv'
  BY <1>1, <1>6, CallsKept
<1> QED BY <1>6, <1>7

\* Whom a call about a member is about, and the role it publishes.
LEMMA MemberFacts ==
  ASSUME NEW c, CallOK(c), c.op \in {"SetVisibility", "ChangeRole", "Remove"}
  PROVE  /\ c.args.member \in Accounts
         /\ c.op # "Remove" => c.args.role \in OrganizationRoles
         /\ c.op = "SetVisibility" => c.args.visibility \in {"private", "public"}
<1>1. c.args \in Arguments(c.op)
  BY DEF CallOK
<1>2. CASE c.op = "SetVisibility"
  <2>1. c.args \in [member : Accounts, role : OrganizationRoles,
                    visibility : {"private", "public"}]
    BY <1>1, <1>2, MembershipArguments
  <2> QED BY <1>2, <2>1
<1>3. CASE c.op = "ChangeRole"
  <2>1. c.args \in [member : Accounts, role : OrganizationRoles]
    BY <1>1, <1>3, MembershipArguments
  <2> QED BY <1>3, <2>1
<1>4. CASE c.op = "Remove"
  <2>1. c.args \in [member : Accounts]
    BY <1>1, <1>4, MembershipArguments
  <2> QED BY <1>4, <2>1
<1> QED BY <1>2, <1>3, <1>4

LEMMA PublishGrantInv ==
  ASSUME CallInv, MembershipInv, NEW r \in Requests, PublishGrant(r)
  PROVE  CallInv' /\ MembershipInv' /\ SpendStep
<1>1. PICK c : c = call[r]
  OBVIOUS
<1>2. PICK g : g = [to |-> c.args.member, role |-> c.args.role, live |-> TRUE]
  OBVIOUS
<1>3. /\ Step(r, "grant") /\ grants' = Append(grants, g)
      /\ call' = [call EXCEPT ![r].new = Len(grants'), ![r].plan = Tail(@)]
      /\ UNCHANGED <<organization, members, invitations, memberRecord, consented>>
  BY <1>1, <1>2 DEF PublishGrant
<1>4. /\ CallOK(c) /\ UNCHANGED calls /\ StepOK(c, "grant")
      /\ Tail(c.plan) \in Seq({s \in PlanSteps : StepOK(c, s)})
  BY <1>1, <1>3, StepFacts
<1>5. c.op \in {"SetVisibility", "ChangeRole"}
  BY <1>4 DEF StepOK
<1>6. g \in Grants
  <2>1. c.args.member \in Accounts /\ c.args.role \in OrganizationRoles
    BY <1>4, <1>5, MemberFacts
  <2> QED BY <1>2, <2>1 DEF Grants
<1>7. /\ grants \in Seq(Grants) /\ Len(grants) \in Nat
      /\ grants' \in Seq(Grants) /\ Len(grants') = Len(grants) + 1
  BY <1>3, <1>6, LenProperties, AppendProperties DEF MembershipInv, MembershipOK
<1>8. Len(grants) <= Len(grants') /\ Len(grants') \in 0..Len(grants')
  BY <1>7
<1>9. MembershipInv' /\ Steady /\ Lengths
  BY <1>3, <1>7, <1>8, GrantsChange
<1>10. PICK n, d : n = Len(grants') /\ d = [c EXCEPT !.new = n, !.plan = Tail(@)]
  OBVIOUS
<1>11. /\ IsCall(d) /\ d.op = c.op /\ d.args = c.args /\ d.old = c.old /\ d.new = n
       /\ d.plan = Tail(c.plan)
  BY <1>4, <1>10 DEF CallOK, IsCall
<1>12. PICK e : e = [c EXCEPT !.plan = Tail(@)]
  OBVIOUS
<1>13. /\ IsCall(e) /\ e.op = c.op /\ e.args = c.args /\ e.old = c.old /\ e.new = c.new
       /\ e.plan = Tail(c.plan)
  BY <1>4, <1>12 DEF CallOK, IsCall
<1>14. {s \in PlanSteps : StepOK(e, s)} = {s \in PlanSteps : StepOK(c, s)}
  BY <1>13 DEF StepOK
<1>15. CallOK(e)
  BY <1>4, <1>13, <1>14 DEF CallOK
<1>16. CallOK(e)'
  BY <1>9, <1>15, CallKept
<1>17. \A s : StepOK(d, s)' = StepOK(e, s)'
  BY <1>11, <1>13 DEF StepOK
<1>18. CallOK(d)'
  <2>1. {s \in PlanSteps : StepOK(d, s)'} = {s \in PlanSteps : StepOK(e, s)'}
    BY <1>17
  <2>2. d.new \in 0..Len(grants')
    BY <1>8, <1>10, <1>11
  <2> QED BY <1>11, <1>13, <1>16, <2>1, <2>2 DEF CallOK
<1>19. call' = [call EXCEPT ![r] = d] /\ calls' \in Nat
  BY <1>1, <1>3, <1>4, <1>10 DEF CallInv
<1>20. CallInv'
  BY <1>9, <1>18, <1>19, CallMoves
<1>21. SpendStep
  BY <1>3 DEF SpendStep
<1> QED BY <1>9, <1>20, <1>21

LEMMA PublishMembershipInv ==
  ASSUME CallInv, MembershipInv, NEW r \in Requests, PublishMembership(r)
  PROVE  CallInv' /\ MembershipInv' /\ SpendStep
<1>1. PICK c : c = call[r]
  OBVIOUS
<1>2. /\ Step(r, "record") /\ Proceed(r)
      /\ memberRecord' = [memberRecord EXCEPT ![c.args.member] = c.new]
      /\ UNCHANGED <<organization, members, invitations, grants, consented>>
  BY <1>1 DEF PublishMembership
<1>3. CallOK(c) /\ StepOK(c, "record")
  BY <1>1, <1>2, StepFacts
<1>4. c.op \in {"SetVisibility", "ChangeRole"} /\ c.args.member \in consented
  BY <1>3 DEF StepOK
<1>5. c.args.member \in Accounts /\ c.new \in 0..Len(grants)
  BY <1>3, <1>4, MemberFacts DEF CallOK
<1>6. MembershipInv' /\ Steady /\ Lengths
  BY <1>2, <1>4, <1>5, RecordChanges
<1>7. CallInv'
  BY <1>2, <1>6, Proceeds
<1>8. SpendStep
  BY <1>2 DEF SpendStep
<1> QED BY <1>6, <1>7, <1>8

LEMMA PublishRevocationInv ==
  ASSUME CallInv, MembershipInv, NEW r \in Requests, PublishRevocation(r)
  PROVE  CallInv' /\ MembershipInv' /\ SpendStep
<1>1. PICK c : c = call[r]
  OBVIOUS
<1>2. PICK g : g = [grants[c.old] EXCEPT !.live = FALSE]
  OBVIOUS
<1>3. /\ Step(r, "revoke") /\ Proceed(r) /\ grants' = [grants EXCEPT ![c.old] = g]
      /\ UNCHANGED <<organization, members, invitations, memberRecord, consented>>
  BY <1>1, <1>2 DEF PublishRevocation
<1>4. grants \in Seq(Grants) /\ Len(grants) \in Nat
  BY LenProperties DEF MembershipInv, MembershipOK
<1>5. c.old \in 1..Len(grants)
  <2>1. c.old # 0 /\ c.old \in 0..Len(grants)
    BY <1>1, <1>3, StepFacts DEF StepOK, CallOK
  <2> QED BY <1>4, <2>1
<1>6. g \in Grants
  <2>1. grants[c.old] \in Grants
    BY <1>4, <1>5, ElementOfSeq
  <2> QED BY <1>2, <2>1 DEF Grants
<1>7. grants' \in Seq(Grants) /\ Len(grants') = Len(grants)
  BY <1>3, <1>4, <1>5, <1>6, ExceptSeq
<1>8. Len(grants) <= Len(grants')
  BY <1>4, <1>7
<1>9. MembershipInv' /\ Steady /\ Lengths
  BY <1>3, <1>7, <1>8, GrantsChange
<1>10. CallInv'
  BY <1>3, <1>9, Proceeds
<1>11. SpendStep
  BY <1>3 DEF SpendStep
<1> QED BY <1>9, <1>10, <1>11

LEMMA DeleteMembershipInv ==
  ASSUME CallInv, MembershipInv, NEW r \in Requests, DeleteMembership(r)
  PROVE  CallInv' /\ MembershipInv' /\ SpendStep
<1>1. PICK c : c = call[r]
  OBVIOUS
<1>2. /\ Step(r, "delete")
      /\ \/ Proceed(r) /\ memberRecord' = [memberRecord EXCEPT ![c.args.member] = 0]
         \/ Finish(r) /\ UNCHANGED memberRecord
      /\ UNCHANGED <<organization, members, invitations, grants, consented>>
  BY <1>1 DEF DeleteMembership
<1>3. CallOK(c) /\ StepOK(c, "delete") /\ UNCHANGED calls
  BY <1>1, <1>2, StepFacts
<1>4. c.args.member \in Accounts
  BY <1>3, MemberFacts DEF StepOK
<1>5. 0 \in 0..Len(grants)
  <2>1. Len(grants) \in Nat
    BY LenProperties DEF MembershipInv, MembershipOK
  <2> QED BY <2>1
<1>6. SpendStep
  BY <1>2 DEF SpendStep
<1>7. CASE Proceed(r) /\ memberRecord' = [memberRecord EXCEPT ![c.args.member] = 0]
  <2>1. MembershipInv' /\ Steady /\ Lengths
    BY <1>2, <1>4, <1>5, <1>7, RecordChanges
  <2>2. CallInv'
    BY <1>2, <1>7, <2>1, Proceeds
  <2> QED BY <1>6, <2>1, <2>2
<1>8. CASE Finish(r) /\ UNCHANGED memberRecord
  <2>1. MembershipInv' /\ Steady /\ Lengths
    BY <1>2, <1>8, MembershipStays DEF membershipVars
  <2>2. CallInv'
    BY <1>3, <1>8, <2>1, Finishes
  <2> QED BY <1>6, <2>1, <2>2
<1> QED BY <1>2, <1>7, <1>8

\* No write about a member makes one.
LEMMA RowWritten ==
  ASSUME CallInv, MembershipInv, NEW r \in Requests, Finish(r), UNCHANGED calls,
         NEW m \in Accounts, NEW row \in Rows \cup {None},
         members[m] # None \/ row = None,
         row # None => /\ row.grant \in 0..Len(grants)
                       /\ row.visibility = "public" => m \in consented,
         m = Founder /\ organization.state # "none" => row # None /\ row.role = "owner",
         members' = [members EXCEPT ![m] = row],
         UNCHANGED <<organization, invitations, grants, memberRecord, consented>>
  PROVE  CallInv' /\ MembershipInv' /\ SpendStep
<1>1. MembershipInv' /\ Steady /\ Lengths
  <2>1. invitations' \in Seq(Invitations) /\ Len(invitations) = Len(invitations')
    BY DEF MembershipInv, MembershipOK
  <2> QED BY <2>1, RowChanges
<1>2. CallInv'
  BY <1>1, Finishes
<1>3. \A a \in Accounts : members[a] = None => members'[a] = None
  BY DEF MembershipInv, MembershipOK
<1>4. SpendStep
  BY <1>3 DEF SpendStep
<1> QED BY <1>1, <1>2, <1>4

LEMMA NothingWritten ==
  ASSUME CallInv, MembershipInv, NEW r \in Requests, Finish(r), UNCHANGED calls,
         UNCHANGED membershipVars
  PROVE  CallInv' /\ MembershipInv' /\ SpendStep
<1>1. MembershipInv' /\ Steady /\ Lengths
  BY MembershipStays
<1>2. CallInv'
  BY <1>1, Finishes
<1>3. SpendStep
  BY DEF SpendStep, membershipVars
<1> QED BY <1>1, <1>2, <1>3

LEMMA UpdateVisibilityInv ==
  ASSUME CallInv, MembershipInv, NEW r \in Requests, UpdateVisibility(r)
  PROVE  CallInv' /\ MembershipInv' /\ SpendStep
<1>1. PICK c, m : c = call[r] /\ m = c.args.member
  OBVIOUS
<1>2. /\ Writes(r, "SetVisibility")
      /\ members' = IF members[m] = None THEN members
                    ELSE [members EXCEPT ![m].visibility = c.args.visibility,
                                         ![m].grant = c.new]
      /\ UNCHANGED <<organization, invitations, grants, memberRecord, consented>>
  BY <1>1 DEF UpdateVisibility
<1>3. CallOK(c) /\ c.op = "SetVisibility" /\ Finish(r) /\ UNCHANGED calls
  BY <1>1, <1>2, WriteFacts
<1>4. /\ m \in Accounts /\ c.args.visibility \in {"private", "public"}
      /\ c.new \in 0..Len(grants)
      /\ c.args.visibility = "public" => m \in consented
  BY <1>1, <1>3, MemberFacts DEF CallOK
<1>5. CASE members[m] = None
  BY <1>2, <1>3, <1>5, NothingWritten DEF membershipVars
<1>6. CASE members[m] # None
  <2>1. members[m] \in Rows
    BY <1>4, <1>6 DEF MembershipInv, MembershipOK
  <2>2. PICK row : row = [members[m] EXCEPT !.visibility = c.args.visibility, !.grant = c.new]
    OBVIOUS
  <2>3. c.new \in Nat
    BY <1>4
  <2>4. /\ row \in Rows /\ row.grant = c.new /\ row.visibility = c.args.visibility
        /\ row.role = members[m].role
    BY <1>4, <2>1, <2>2, <2>3 DEF Rows
  <2>5. members' = [members EXCEPT ![m] = row]
    BY <1>2, <1>6, <2>2 DEF MembershipInv, MembershipOK
  <2>6. m = Founder /\ organization.state # "none" => row # None /\ row.role = "owner"
    BY <2>4, FounderAssumption DEF MembershipInv, FounderOwns, Owners
  <2> QED BY <1>2, <1>3, <1>4, <1>6, <2>4, <2>5, <2>6, RowWritten
<1> QED BY <1>5, <1>6

LEMMA UpdateMemberRoleInv ==
  ASSUME CallInv, MembershipInv, NEW r \in Requests, UpdateMemberRole(r)
  PROVE  CallInv' /\ MembershipInv' /\ SpendStep
<1>1. PICK c, m : c = call[r] /\ m = c.args.member
  OBVIOUS
<1>2. /\ Writes(r, "ChangeRole")
      /\ members' = IF members[m] = None \/ (c.args.role # "owner" /\ Owners = {m}) THEN members
                    ELSE [members EXCEPT ![m].role = c.args.role, ![m].grant = c.new]
      /\ UNCHANGED <<organization, invitations, grants, memberRecord, consented>>
  BY <1>1 DEF UpdateMemberRole
<1>3. CallOK(c) /\ c.op = "ChangeRole" /\ Finish(r) /\ UNCHANGED calls
  BY <1>1, <1>2, WriteFacts
<1>4. /\ m \in Accounts /\ c.args.role \in OrganizationRoles /\ c.new \in 0..Len(grants)
      /\ m # Founder
  BY <1>1, <1>3, MemberFacts DEF CallOK
<1>5. CASE members[m] = None \/ (c.args.role # "owner" /\ Owners = {m})
  BY <1>2, <1>3, <1>5, NothingWritten DEF membershipVars
<1>6. CASE ~(members[m] = None \/ (c.args.role # "owner" /\ Owners = {m}))
  <2>1. members[m] \in Rows
    BY <1>4, <1>6 DEF MembershipInv, MembershipOK
  <2>2. PICK row : row = [members[m] EXCEPT !.role = c.args.role, !.grant = c.new]
    OBVIOUS
  <2>3. c.new \in Nat
    BY <1>4
  <2>4. row \in Rows /\ row.grant = c.new /\ row.visibility = members[m].visibility
    BY <1>4, <2>1, <2>2, <2>3 DEF Rows
  <2>5. row.visibility = "public" => m \in consented
    BY <1>4, <1>6, <2>4 DEF MembershipInv, RowsInv
  <2>6. members' = [members EXCEPT ![m] = row]
    BY <1>2, <1>6, <2>2 DEF MembershipInv, MembershipOK
  <2> QED BY <1>2, <1>3, <1>4, <1>6, <2>4, <2>5, <2>6, RowWritten
<1> QED BY <1>5, <1>6

LEMMA RemoveMemberInv ==
  ASSUME CallInv, MembershipInv, NEW r \in Requests, RemoveMember(r)
  PROVE  CallInv' /\ MembershipInv' /\ SpendStep
<1>1. PICK c, m : c = call[r] /\ m = c.args.member
  OBVIOUS
<1>2. /\ Writes(r, "Remove")
      /\ members' = IF Owners = {m} THEN members ELSE [members EXCEPT ![m] = None]
      /\ UNCHANGED <<organization, invitations, grants, memberRecord, consented>>
  BY <1>1 DEF RemoveMember
<1>3. CallOK(c) /\ c.op = "Remove" /\ Finish(r) /\ UNCHANGED calls
  BY <1>1, <1>2, WriteFacts
<1>4. m \in Accounts /\ m # Founder
  BY <1>1, <1>3, MemberFacts DEF CallOK
<1>5. CASE Owners = {m}
  BY <1>2, <1>3, <1>5, NothingWritten DEF membershipVars
<1>6. CASE Owners # {m}
  <2>1. members' = [members EXCEPT ![m] = None]
    BY <1>2, <1>6
  <2>2. PICK row : row = None
    OBVIOUS
  <2> QED BY <1>2, <1>3, <1>4, <2>1, <2>2, RowWritten
<1> QED BY <1>5, <1>6

-----------------------------------------------------------------------------
\* Membership as a whole: what any call or step of it leaves.

LEMMA MembershipCallInv ==
  ASSUME CallInv, MembershipInv, NEW r \in Requests, Ready(r), MembershipCall(r)
  PROVE  CallInv' /\ MembershipInv' /\ SpendStep
<1>1. CASE Create(r)
  <2>1. SpendStep
    BY <1>1 DEF Create, SpendStep, MembershipInv, MembershipOK
  <2> QED BY <1>1, <2>1, CreateInv
<1>2. CASE \E a \in Accounts : \/ \E base \in BasePermissions : Update(r, a, base)
                               \/ \E i \in 1..MaxInvitations : Accept(r, a, i) \/ Revoke(r, a, i)
                               \/ \E b \in Accounts, role \in OrganizationRoles :
                                    Invite(r, a, b, role)
  <2>1. UNCHANGED <<members, invitations>>
    BY <1>2 DEF Update, Accept, Revoke, Invite, membershipVars
  <2>2. SpendStep
    BY <2>1 DEF SpendStep
  <2> QED BY <1>2, <2>2, WriteCallInv
<1>3. CASE \E a \in Accounts, v \in {"private", "public"} : SetVisibility(r, a, v)
  <2>1. SpendStep
    BY <1>3 DEF SpendStep, SetVisibility
  <2> QED BY <1>3, <2>1, SetVisibilityInv
<1>4. CASE \E a, b \in Accounts : \/ Remove(r, a, b)
                                  \/ \E role \in OrganizationRoles : ChangeRole(r, a, b, role)
  <2>1. UNCHANGED <<members, invitations>>
    BY <1>4 DEF Remove, ChangeRole, membershipVars
  <2>2. SpendStep
    BY <2>1 DEF SpendStep
  <2> QED BY <1>4, <2>2, RemoveInv, ChangeRoleInv
<1> QED BY <1>1, <1>2, <1>3, <1>4 DEF MembershipCall

LEMMA MembershipStepInv ==
  ASSUME CallInv, MembershipInv, NEW r \in Requests, MembershipStep(r)
  PROVE  CallInv' /\ MembershipInv' /\ SpendStep
BY ActivateInv, UpdateOrganizationInv, CreateInvitationInv, AcceptInvitationInv,
   RevokeInvitationInv, PublishGrantInv, PublishMembershipInv, PublishRevocationInv,
   DeleteMembershipInv, UpdateVisibilityInv, UpdateMemberRoleInv, RemoveMemberInv
   DEF MembershipStep

LEMMA MembershipNextInv ==
  ASSUME CallInv, MembershipInv, MembershipNext
  PROVE  CallInv' /\ MembershipInv' /\ SpendStep
BY MembershipCallInv, MembershipStepInv, ExpireInv DEF MembershipNext

\* No step of the membership begins a deletion.
LEMMA NoDeletionBegins ==
  ASSUME CallInv, MembershipNext
  PROVE  \A r \in Requests : call'[r].op = "DeleteTeam" => call[r].op = "DeleteTeam"
<1> DEFINE Goal == \A r \in Requests : call'[r].op = "DeleteTeam" => call[r].op = "DeleteTeam"
<1>1. DOMAIN call = Requests /\ \A r \in Requests : IsCall(call[r])
  BY DEF CallInv, CallOK
<1>2. ASSUME NEW q \in Requests, NEW op, NEW args, NEW old, NEW plan, op # "DeleteTeam",
             Begin(q, op, args, old, plan)
      PROVE  Goal
  BY <1>1, <1>2 DEF Begin
<1>3. ASSUME NEW q \in Requests, Finish(q)
      PROVE  Goal
  BY <1>1, <1>3 DEF Finish, Idle
<1>4. ASSUME NEW q \in Requests, Proceed(q)
      PROVE  Goal
  <2>1. /\ call'[q] = [call[q] EXCEPT !.plan = Tail(@)]
        /\ \A r \in Requests \ {q} : call'[r] = call[r]
    BY <1>1, <1>4 DEF Proceed
  <2>2. call'[q].op = call[q].op
    BY <1>1, <2>1 DEF IsCall
  <2> QED BY <2>1, <2>2
<1>5. ASSUME NEW q \in Requests, PublishGrant(q)
      PROVE  Goal
  <2>1. /\ call'[q] = [call[q] EXCEPT !.new = Len(grants'), !.plan = Tail(@)]
        /\ \A r \in Requests \ {q} : call'[r] = call[r]
    BY <1>1, <1>5 DEF PublishGrant
  <2>2. call'[q].op = call[q].op
    BY <1>1, <2>1 DEF IsCall
  <2> QED BY <2>1, <2>2
<1> HIDE DEF Goal
<1>6. ASSUME NEW q \in Requests, MembershipCall(q)
      PROVE  Goal
  <2>1. CASE Create(q)
    BY <1>2, <2>1 DEF Create
  <2>2. CASE \E a \in Accounts, base \in BasePermissions : Update(q, a, base)
    BY <1>2, <2>2 DEF Update
  <2>3. CASE \E a \in Accounts, i \in 1..MaxInvitations : Accept(q, a, i) \/ Revoke(q, a, i)
    BY <1>2, <2>3 DEF Accept, Revoke
  <2>4. CASE \E a \in Accounts, v \in {"private", "public"} : SetVisibility(q, a, v)
    BY <1>2, <2>4 DEF SetVisibility
  <2>5. CASE \E a, b \in Accounts : Remove(q, a, b)
    BY <1>2, <2>5 DEF Remove
  <2>6. CASE \E a, b \in Accounts, role \in OrganizationRoles :
               Invite(q, a, b, role) \/ ChangeRole(q, a, b, role)
    BY <1>2, <2>6 DEF Invite, ChangeRole
  <2> QED BY <1>6, <2>1, <2>2, <2>3, <2>4, <2>5, <2>6 DEF MembershipCall
<1>7. ASSUME NEW q \in Requests, MembershipStep(q)
      PROVE  Goal
  <2>1. Finish(q) \/ Proceed(q) \/ PublishGrant(q)
    BY <1>7 DEF MembershipStep, Activate, Fail, UpdateOrganization, CreateInvitation,
       AcceptInvitation, RevokeInvitation, PublishMembership, PublishRevocation,
       DeleteMembership, UpdateVisibility, UpdateMemberRole, RemoveMember, Writes
  <2> QED BY <1>3, <1>4, <1>5, <2>1
<1>8. ASSUME NEW i \in 1..MaxInvitations, Expire(i)
      PROVE  Goal
  BY <1>8 DEF Expire, callVars, Goal
<1>9. Goal
  BY <1>6, <1>7, <1>8 DEF MembershipNext
<1> QED BY <1>9 DEF Goal

-----------------------------------------------------------------------------
\* Calls of teams and collaborators.

\* What deletions have selected stays, and teams once created do too.
LEMMA FoundKept ==
  ASSUME FoundInv, \A t \in Teams : teams[t] # None => teams'[t] # None,
         \A r \in Requests : call'[r].op = "DeleteTeam" => call[r].op = "DeleteTeam",
         UNCHANGED found, TeamsOK
  PROVE  FoundInv'
<1> SUFFICES ASSUME NEW r \in Requests, call'[r].op = "DeleteTeam", NEW t \in found[r]
             PROVE  teams'[t] # None
  BY DEF FoundInv
<1>1. t \in Teams /\ teams[t] # None
  BY DEF FoundInv, TeamsOK
<1> QED BY <1>1

\* A call begins with nothing selected.
LEMMA TeamCallInv ==
  ASSUME Inv, NEW r \in Requests, NEW op, NEW args,
         args \in Arguments(op), TeamCall(r, op, args),
         op \notin {"SetVisibility", "ChangeRole", "Remove", "Accept", "Revoke"}
  PROVE  Inv' /\ SpendStep /\ UNCHANGED teams
<1> DEFINE plan == IF op \in Selecting THEN <<"select", "write">> ELSE <<"write">>
<1>1. /\ Begin(r, op, args, 0, plan) /\ UNCHANGED membershipVars
      /\ found' = [found EXCEPT ![r] = {}]
      /\ UNCHANGED <<teams, teamMembers, assignments, collaborators>>
  BY DEF TeamCall, tables
<1>2. CallInv /\ MembershipInv /\ TeamsOK /\ FoundInv
  BY DEF Inv
<1>3. MembershipInv' /\ Steady /\ Lengths
  BY <1>1, <1>2, MembershipStays
<1>4. plan \in {<<"write">>, <<"select", "write">>}
  OBVIOUS
<1> HIDE DEF plan
<1>5. CallInv'
  BY <1>1, <1>2, <1>3, <1>4, BeginsWrite
<1>6. SpendStep
  BY <1>1 DEF SpendStep, membershipVars
<1>7. TeamsOK'
  BY <1>1, <1>2 DEF TeamsOK
<1>8. FoundInv'
  <2> SUFFICES ASSUME NEW q \in Requests, call'[q].op = "DeleteTeam", NEW t \in found'[q]
               PROVE  teams'[t] # None
    BY DEF FoundInv
  <2>1. q # r /\ found'[q] = found[q]
    BY <1>1, <1>2 DEF TeamsOK
  <2>2. call'[q] = call[q]
    BY <1>1, <1>2, <2>1 DEF Begin, CallInv
  <2> QED BY <1>1, <1>2, <2>1, <2>2 DEF FoundInv
<1> QED BY <1>1, <1>3, <1>5, <1>6, <1>7, <1>8 DEF Inv

LEMMA TeamServiceCallInv ==
  ASSUME Inv, NEW r \in Requests, TeamServiceCall(r)
  PROVE  Inv' /\ SpendStep /\ UNCHANGED teams
<1>1. PICK t \in Teams :
        \/ \E op \in {"CreateTeam", "UpdateTeam"}, parent \in Teams \cup {None},
              secret \in BOOLEAN :
             TeamCall(r, op, [team |-> t, parent |-> parent, secret |-> secret])
        \/ \E op \in {"DeleteTeam", "RemoveRepository"} : TeamCall(r, op, [team |-> t])
        \/ \E role \in RepositoryRoles :
             TeamCall(r, "PutRepository", [team |-> t, role |-> role])
        \/ \E m \in Accounts : TeamCall(r, "RemoveMember", [team |-> t, member |-> m])
        \/ \E m \in Accounts, role \in TeamRoles :
             TeamCall(r, "PutMember", [team |-> t, member |-> m, role |-> role])
  <2>1. PICK actor \in Accounts, t \in Teams :
          \/ \E parent \in Teams \cup {None}, secret \in BOOLEAN :
               CreateTeam(r, actor, t, parent, secret) \/ UpdateTeam(r, actor, t, parent, secret)
          \/ ManageTeam(r, actor, "DeleteTeam", [team |-> t])
          \/ ManageTeam(r, actor, "RemoveRepository", [team |-> t])
          \/ \E role \in RepositoryRoles :
               ManageTeam(r, actor, "PutRepository", [team |-> t, role |-> role])
          \/ \E m \in Accounts :
               \/ ManageTeam(r, actor, "RemoveMember", [team |-> t, member |-> m])
               \/ \E role \in TeamRoles :
                    ManageTeam(r, actor, "PutMember", [team |-> t, member |-> m, role |-> role])
    BY DEF TeamServiceCall
  <2>2. ASSUME NEW parent \in Teams \cup {None}, NEW secret \in BOOLEAN,
               CreateTeam(r, actor, t, parent, secret) \/ UpdateTeam(r, actor, t, parent, secret)
        PROVE  \E op \in {"CreateTeam", "UpdateTeam"} :
                 TeamCall(r, op, [team |-> t, parent |-> parent, secret |-> secret])
    BY <2>2 DEF CreateTeam, UpdateTeam
  <2>3. \A op, args : ManageTeam(r, actor, op, args) => TeamCall(r, op, args)
    BY DEF ManageTeam
  <2>4. CASE \E parent \in Teams \cup {None}, secret \in BOOLEAN :
               CreateTeam(r, actor, t, parent, secret) \/ UpdateTeam(r, actor, t, parent, secret)
    BY <2>2, <2>4, Zenon
  <2>5. CASE \/ ManageTeam(r, actor, "DeleteTeam", [team |-> t])
             \/ ManageTeam(r, actor, "RemoveRepository", [team |-> t])
    BY <2>3, <2>5, Zenon
  <2>6. CASE \E role \in RepositoryRoles :
               ManageTeam(r, actor, "PutRepository", [team |-> t, role |-> role])
    BY <2>3, <2>6, Zenon
  <2>7. CASE \E m \in Accounts :
               \/ ManageTeam(r, actor, "RemoveMember", [team |-> t, member |-> m])
               \/ \E role \in TeamRoles :
                    ManageTeam(r, actor, "PutMember", [team |-> t, member |-> m, role |-> role])
    BY <2>3, <2>7, Zenon
  <2> QED BY <2>1, <2>4, <2>5, <2>6, <2>7
<1>2. CASE \E op \in {"CreateTeam", "UpdateTeam"}, parent \in Teams \cup {None},
              secret \in BOOLEAN :
             TeamCall(r, op, [team |-> t, parent |-> parent, secret |-> secret])
  <2>1. PICK op \in {"CreateTeam", "UpdateTeam"}, parent \in Teams \cup {None},
             secret \in BOOLEAN :
               TeamCall(r, op, [team |-> t, parent |-> parent, secret |-> secret])
    BY <1>2
  <2>2. PICK args : args = [team |-> t, parent |-> parent, secret |-> secret]
    OBVIOUS
  <2>3. args \in [team : Teams, parent : Teams \cup {None}, secret : BOOLEAN]
    BY <2>2
  <2>4. args \in Arguments(op) /\ TeamCall(r, op, args)
    BY <2>1, <2>2, <2>3, TeamArguments
  <2> QED BY <2>4, TeamCallInv
<1>3. CASE \E op \in {"DeleteTeam", "RemoveRepository"} : TeamCall(r, op, [team |-> t])
  <2>1. PICK op \in {"DeleteTeam", "RemoveRepository"} : TeamCall(r, op, [team |-> t])
    BY <1>3
  <2>2. PICK args : args = [team |-> t]
    OBVIOUS
  <2>3. args \in Arguments(op) /\ TeamCall(r, op, args)
    BY <2>1, <2>2, TeamArguments
  <2> QED BY <2>3, TeamCallInv
<1>4. CASE \E role \in RepositoryRoles :
             TeamCall(r, "PutRepository", [team |-> t, role |-> role])
  <2>1. PICK role \in RepositoryRoles : TeamCall(r, "PutRepository", [team |-> t, role |-> role])
    BY <1>4
  <2>2. PICK args : args = [team |-> t, role |-> role]
    OBVIOUS
  <2>3. args \in Arguments("PutRepository") /\ TeamCall(r, "PutRepository", args)
    BY <2>1, <2>2, TeamArguments
  <2> QED BY <2>3, TeamCallInv
<1>5. CASE \E m \in Accounts : TeamCall(r, "RemoveMember", [team |-> t, member |-> m])
  <2>1. PICK m \in Accounts : TeamCall(r, "RemoveMember", [team |-> t, member |-> m])
    BY <1>5
  <2>2. PICK args : args = [team |-> t, member |-> m]
    OBVIOUS
  <2>3. args \in Arguments("RemoveMember") /\ TeamCall(r, "RemoveMember", args)
    BY <2>1, <2>2, TeamArguments
  <2> QED BY <2>3, TeamCallInv
<1>6. CASE \E m \in Accounts, role \in TeamRoles :
             TeamCall(r, "PutMember", [team |-> t, member |-> m, role |-> role])
  <2>1. PICK m \in Accounts, role \in TeamRoles :
          TeamCall(r, "PutMember", [team |-> t, member |-> m, role |-> role])
    BY <1>6
  <2>2. PICK args : args = [team |-> t, member |-> m, role |-> role]
    OBVIOUS
  <2>3. args \in Arguments("PutMember") /\ TeamCall(r, "PutMember", args)
    BY <2>1, <2>2, TeamArguments
  <2> QED BY <2>3, TeamCallInv
<1> QED BY <1>1, <1>2, <1>3, <1>4, <1>5, <1>6

LEMMA CollaboratorServiceCallInv ==
  ASSUME Inv, NEW r \in Requests, CollaboratorServiceCall(r)
  PROVE  Inv' /\ SpendStep /\ UNCHANGED teams
<1>1. PICK m \in Accounts :
        \/ TeamCall(r, "RemoveCollaborator", [member |-> m])
        \/ \E role \in RepositoryRoles :
             TeamCall(r, "PutCollaborator", [member |-> m, role |-> role])
  BY DEF CollaboratorServiceCall, ManageCollaborator
<1>2. CASE TeamCall(r, "RemoveCollaborator", [member |-> m])
  <2>1. PICK args : args = [member |-> m]
    OBVIOUS
  <2>2. args \in Arguments("RemoveCollaborator") /\ TeamCall(r, "RemoveCollaborator", args)
    BY <1>2, <2>1, TeamArguments
  <2> QED BY <2>2, TeamCallInv
<1>3. CASE \E role \in RepositoryRoles :
             TeamCall(r, "PutCollaborator", [member |-> m, role |-> role])
  <2>1. PICK role \in RepositoryRoles :
          TeamCall(r, "PutCollaborator", [member |-> m, role |-> role])
    BY <1>3
  <2>2. PICK args : args = [member |-> m, role |-> role]
    OBVIOUS
  <2>3. args \in Arguments("PutCollaborator") /\ TeamCall(r, "PutCollaborator", args)
    BY <2>1, <2>2, TeamArguments
  <2> QED BY <2>3, TeamCallInv
<1> QED BY <1>1, <1>2, <1>3

-----------------------------------------------------------------------------
\* The team hierarchy.

\* The teams beneath t have all their children among them.
LEMMA DescendantsClosed ==
  ASSUME NEW t
  PROVE  /\ Descendants(t) \subseteq LiveTeams
         /\ Children(Descendants(t) \cup {t}) \subseteq Descendants(t)
<1>1. Descendants(t) \subseteq LiveTeams
  BY DEF Descendants
<1>2. ASSUME NEW u \in Children(Descendants(t) \cup {t}) PROVE u \in Descendants(t)
  <2>1. u \in LiveTeams /\ teams[u].parent \in Descendants(t) \cup {t}
    BY <1>2 DEF Children
  <2>2. ASSUME NEW S \in SUBSET LiveTeams, Children(S \cup {t}) \subseteq S
        PROVE  u \in S
    <3>1. teams[u].parent \in S \cup {t}
      BY <2>1, <2>2 DEF Descendants
    <3> QED BY <2>1, <2>2, <3>1 DEF Children
  <2> QED BY <2>1, <2>2 DEF Descendants
<1> QED BY <1>1, <1>2

\* The live teams that are neither t nor beneath it.
Others(t) == LiveTeams \ (Descendants(t) \cup {t})

\* Nothing among the others hangs on t or beneath it.
LEMMA OthersClosed ==
  ASSUME Nested, NEW t
  PROVE  \A v \in Others(t) : teams[v].parent \in Others(t) \cup {None}
<1> SUFFICES ASSUME NEW v \in Others(t), teams[v].parent # None
             PROVE  teams[v].parent \in Others(t)
  OBVIOUS
<1>1. v \in LiveTeams /\ v \notin Descendants(t) /\ teams[v].parent \in LiveTeams
  BY DEF Others, Nested
<1>2. teams[v].parent \notin Descendants(t) \cup {t}
  BY <1>1, DescendantsClosed DEF Children
<1> QED BY <1>1, <1>2 DEF Others

LEMMA HierarchyStays ==
  ASSUME UNCHANGED teams, Nested, Acyclic
  PROVE  Nested' /\ Acyclic'
<1>1. LiveTeams' = LiveTeams
  BY DEF LiveTeams
<1> QED BY <1>1 DEF Nested, Acyclic, ParentsIn

LEMMA ForestStays ==
  ASSUME UNCHANGED teams
  PROVE  ForestStep
BY HierarchyStays DEF ForestStep

\* A new team hangs on a live one or on none, and no team hangs on it.
LEMMA TeamInserted ==
  ASSUME TeamsOK, Nested, Acyclic, NEW t \in Teams, NEW row \in TeamRows, teams[t] = None, row.live,
         Nestable(row.parent, row.secret), teams' = [teams EXCEPT ![t] = row]
  PROVE  Nested' /\ Acyclic'
<1>1. TeamsOK /\ Nested /\ Acyclic
  OBVIOUS
<1>2. teams \in [Teams -> TeamRows \cup {None}]
  BY <1>1 DEF TeamsOK
<1>3. /\ teams' \in [Teams -> TeamRows \cup {None}] /\ teams'[t] = row /\ row # None
      /\ \A u \in Teams \ {t} : teams'[u] = teams[u]
  BY <1>2, TeamsAssumption
<1>5. LiveTeams' = LiveTeams \cup {t} /\ t \notin LiveTeams /\ LiveTeams \subseteq Teams
  BY <1>3 DEF LiveTeams
<1>6. \A u \in LiveTeams : teams'[u] = teams[u]
  BY <1>3, <1>5
<1>7. Nested'
  <2> SUFFICES ASSUME NEW u \in LiveTeams', teams'[u].parent # None
               PROVE  /\ teams'[u].parent \in LiveTeams'
                      /\ ~teams'[u].secret /\ ~teams'[teams'[u].parent].secret
    BY DEF Nested
  <2>1. CASE u = t
    BY <1>3, <1>5, <1>6, <2>1 DEF Nestable
  <2>2. CASE u # t
    <3>1. u \in LiveTeams /\ teams'[u] = teams[u]
      BY <1>5, <1>6, <2>2
    <3>2. /\ teams[u].parent \in LiveTeams /\ ~teams[u].secret
          /\ ~teams[teams[u].parent].secret
      BY <1>1, <3>1 DEF Nested
    <3> QED BY <1>5, <1>6, <3>1, <3>2
  <2> QED BY <2>1, <2>2
<1>8. Acyclic'
  <2> SUFFICES ASSUME NEW u \in LiveTeams'
               PROVE  \E S \in SUBSET LiveTeams' : u \notin S /\ ParentsIn(S, u)'
    BY DEF Acyclic
  <2>1. CASE u = t
    <3>1. PICK S : S = LiveTeams
      OBVIOUS
    <3>2. \A v \in S \cup {t} : teams'[v].parent \in S \cup {None}
      BY <1>1, <1>3, <1>6, <3>1 DEF Nested, Nestable
    <3> QED BY <1>5, <2>1, <3>1, <3>2 DEF ParentsIn
  <2>2. CASE u # t
    <3>1. PICK S \in SUBSET LiveTeams : u \notin S /\ ParentsIn(S, u)
      BY <1>1, <1>5, <2>2 DEF Acyclic
    <3>2. \A v \in S \cup {u} : teams'[v].parent \in S \cup {None}
      BY <1>5, <1>6, <2>2, <3>1 DEF ParentsIn
    <3> QED BY <1>5, <3>1, <3>2 DEF ParentsIn
  <2> QED BY <2>1, <2>2
<1> QED BY <1>7, <1>8

\* A team moves only to a team that is neither itself nor beneath it.
LEMMA TeamMoved ==
  ASSUME TeamsOK, Nested, Acyclic, NEW t \in LiveTeams, NEW row \in TeamRows, row.live,
         Nestable(row.parent, row.secret), row.parent \notin Descendants(t) \cup {t},
         row.secret => Descendants(t) = {}, teams' = [teams EXCEPT ![t] = row]
  PROVE  Nested' /\ Acyclic'
<1>1. TeamsOK /\ Nested /\ Acyclic
  OBVIOUS
<1>2. teams \in [Teams -> TeamRows \cup {None}] /\ t \in Teams /\ LiveTeams \subseteq Teams
  BY <1>1 DEF TeamsOK, LiveTeams
<1>3. /\ teams' \in [Teams -> TeamRows \cup {None}] /\ teams'[t] = row /\ row # None
      /\ \A u \in Teams \ {t} : teams'[u] = teams[u]
  BY <1>2, TeamsAssumption
<1>5. LiveTeams' = LiveTeams
  BY <1>2, <1>3 DEF LiveTeams
<1>6. Nested'
  <2> SUFFICES ASSUME NEW u \in LiveTeams, teams'[u].parent # None
               PROVE  /\ teams'[u].parent \in LiveTeams
                      /\ ~teams'[u].secret /\ ~teams'[teams'[u].parent].secret
    BY <1>5 DEF Nested
  <2>1. CASE u = t
    BY <1>2, <1>3, <2>1 DEF Nestable
  <2>2. CASE u # t
    <3>1. teams'[u] = teams[u]
      BY <1>2, <1>3, <2>2
    <3>2. /\ teams[u].parent \in LiveTeams /\ ~teams[u].secret
          /\ ~teams[teams[u].parent].secret
      BY <1>1, <3>1 DEF Nested
    <3>3. CASE teams[u].parent = t
      <4>1. u \in Descendants(t)
        BY <3>3, DescendantsClosed DEF Children
      <4> QED BY <1>3, <3>1, <3>2, <3>3, <4>1
    <3>4. CASE teams[u].parent # t
      BY <1>2, <1>3, <3>1, <3>2, <3>4
    <3> QED BY <3>3, <3>4
  <2> QED BY <2>1, <2>2
<1>7. Acyclic'
  <2> SUFFICES ASSUME NEW u \in LiveTeams
               PROVE  \E S \in SUBSET LiveTeams : u \notin S /\ ParentsIn(S, u)'
    BY <1>5 DEF Acyclic
  <2>1. PICK U : U = Others(t)
    OBVIOUS
  <2>2. /\ U \subseteq LiveTeams /\ t \notin U
        /\ \A v \in U : teams[v].parent \in U \cup {None}
    BY <1>1, <2>1, OthersClosed DEF Others
  <2>3. /\ \A v \in U : teams'[v].parent \in U \cup {None}
        /\ teams'[t].parent \in U \cup {None}
    <3>1. \A v \in U : teams'[v] = teams[v]
      BY <1>2, <1>3, <2>2
    <3>2. row.parent \in U \cup {None}
      BY <2>1 DEF Nestable, Others
    <3> QED BY <1>3, <2>2, <3>1, <3>2
  <2>4. PICK S \in SUBSET LiveTeams : u \notin S /\ ParentsIn(S, u)
    BY <1>1 DEF Acyclic
  <2>5. \A v \in (S \cup {u}) \ {t} : teams'[v].parent \in S \cup {None}
    BY <1>2, <1>3, <2>4 DEF ParentsIn
  <2>6. CASE u = t
    BY <2>2, <2>3, <2>6 DEF ParentsIn
  <2>7. CASE u # t /\ u \in U
    <3>1. PICK T : T = S \cap U
      OBVIOUS
    <3>2. \A v \in T \cup {u} : teams'[v].parent \in T \cup {None}
      BY <2>2, <2>3, <2>5, <2>7, <3>1
    <3> QED BY <2>2, <2>4, <3>1, <3>2 DEF ParentsIn
  <2>8. CASE u # t /\ u \notin U
    <3>1. PICK T : T = S \cup U
      OBVIOUS
    <3>2. \A v \in T \cup {u} : teams'[v].parent \in T \cup {None}
      BY <2>3, <2>5, <2>8, <3>1
    <3> QED BY <2>2, <2>4, <2>8, <3>1, <3>2 DEF ParentsIn
  <2> QED BY <2>6, <2>7, <2>8
<1> QED BY <1>6, <1>7

\* A team goes with all that is beneath it.
LEMMA TeamsDeleted ==
  ASSUME TeamsOK, Nested, Acyclic, NEW t \in LiveTeams, NEW gone, gone = {t} \cup Descendants(t),
         teams' = [u \in Teams |-> IF u \in gone THEN [teams[u] EXCEPT !.live = FALSE]
                                                 ELSE teams[u]]
  PROVE  Nested' /\ Acyclic'
<1>1. TeamsOK /\ Nested /\ Acyclic
  OBVIOUS
<1>2. /\ teams \in [Teams -> TeamRows \cup {None}] /\ LiveTeams \subseteq Teams
      /\ gone \subseteq LiveTeams /\ \A u \in LiveTeams : teams[u] \in TeamRows
  BY <1>1, DescendantsClosed DEF TeamsOK, LiveTeams
<1>3. ASSUME NEW u \in gone
      PROVE  teams'[u] \in TeamRows /\ ~teams'[u].live
  <2>1. teams[u] \in TeamRows /\ teams'[u] = [teams[u] EXCEPT !.live = FALSE]
    BY <1>2
  <2> QED BY <2>1 DEF TeamRows
<1>4. \A u \in Teams \ gone : teams'[u] = teams[u]
  OBVIOUS
<1>7. LiveTeams' = LiveTeams \ gone /\ LiveTeams \ gone = Others(t)
  BY <1>2, <1>3, <1>4 DEF LiveTeams, Others
<1>8. \A v \in Others(t) : teams'[v] = teams[v] /\ teams[v].parent \in Others(t) \cup {None}
  BY <1>1, <1>2, <1>4, <1>7, OthersClosed
<1>9. Nested'
  <2> SUFFICES ASSUME NEW u \in Others(t), teams'[u].parent # None
               PROVE  /\ teams'[u].parent \in Others(t)
                      /\ ~teams'[u].secret /\ ~teams'[teams'[u].parent].secret
    BY <1>7 DEF Nested
  <2>1. teams'[u] = teams[u] /\ teams[u].parent \in Others(t)
    BY <1>8
  <2>2. ~teams[u].secret /\ ~teams[teams[u].parent].secret
    BY <1>1, <1>7, <2>1 DEF Nested
  <2> QED BY <1>8, <2>1, <2>2
<1>10. Acyclic'
  <2> SUFFICES ASSUME NEW u \in Others(t)
               PROVE  \E S \in SUBSET Others(t) : u \notin S /\ ParentsIn(S, u)'
    BY <1>7 DEF Acyclic
  <2>1. PICK S \in SUBSET LiveTeams : u \notin S /\ ParentsIn(S, u)
    BY <1>1, <1>7 DEF Acyclic
  <2>2. PICK T : T = S \cap Others(t)
    OBVIOUS
  <2>3. \A v \in T \cup {u} : teams'[v].parent \in T \cup {None}
    <3> SUFFICES ASSUME NEW v \in T \cup {u} PROVE teams'[v].parent \in T \cup {None}
      OBVIOUS
    <3>1. v \in Others(t) /\ teams'[v] = teams[v] /\ teams[v].parent \in Others(t) \cup {None}
      BY <1>8, <2>2
    <3>2. teams[v].parent \in S \cup {None}
      BY <2>1, <2>2 DEF ParentsIn
    <3> QED BY <2>2, <3>1, <3>2
  <2> QED BY <2>1, <2>2, <2>3 DEF ParentsIn
<1> QED BY <1>9, <1>10

-----------------------------------------------------------------------------
\* The steps of team calls.

LEMMA TeamWriteFacts ==
  ASSUME Inv, NEW r \in Requests, NEW op, TeamWrites(r, op)
  PROVE  /\ CallInv' /\ MembershipInv' /\ SpendStep
         /\ call[r].op = op /\ call[r].args \in Arguments(op)
         /\ call[r].plan # <<>> /\ Head(call[r].plan) = "write" /\ call'[r] = Idle
         /\ UNCHANGED found
         /\ found[r] \subseteq Teams
         /\ \A q \in Requests : call'[q].op = "DeleteTeam" => call[q].op = "DeleteTeam"
<1>1. Writes(r, op) /\ UNCHANGED membershipVars /\ UNCHANGED found
  BY DEF TeamWrites
<1>2. CallInv /\ MembershipInv /\ TeamsOK
  BY DEF Inv
<1>3. Finish(r) /\ UNCHANGED calls /\ call[r].args \in Arguments(op)
  BY <1>1, <1>2, WriteFacts
<1>4. CallInv' /\ MembershipInv' /\ SpendStep
  BY <1>1, <1>2, <1>3, NothingWritten
<1>5. call[r].op = op /\ call[r].plan # <<>> /\ Head(call[r].plan) = "write"
  BY <1>1 DEF Writes, Step
<1>6. call'[r] = Idle /\ \A q \in Requests \ {r} : call'[q] = call[q]
  BY <1>2, <1>3 DEF Finish, CallInv
<1>7. Idle.op = "idle"
  BY DEF Idle
<1> QED BY <1>1, <1>2, <1>3, <1>4, <1>5, <1>6, <1>7 DEF TeamsOK

\* A statement selects; its call goes on.
LEMMA SelectInv ==
  ASSUME Inv, NEW r \in Requests, Select(r)
  PROVE  Inv' /\ SpendStep /\ ForestStep
<1>1. /\ Step(r, "select") /\ Proceed(r) /\ found' = [found EXCEPT ![r] = Finds(r)]
      /\ UNCHANGED membershipVars /\ UNCHANGED <<teams, teamMembers, assignments, collaborators>>
  BY DEF Select, tables
<1>2. CallInv /\ MembershipInv /\ TeamsOK /\ FoundInv
  BY DEF Inv
<1>3. MembershipInv' /\ Steady /\ Lengths
  BY <1>1, <1>2, MembershipStays
<1>4. CallInv'
  BY <1>1, <1>2, <1>3, Proceeds
<1>5. SpendStep
  BY <1>1 DEF SpendStep, membershipVars
<1>6. call[r].args \in Arguments(call[r].op)
  BY <1>2 DEF CallInv, CallOK
<1>7. Finds(r) \subseteq Teams
  <2>1. CASE call[r].op = "CreateTeam"
    <3>1. call[r].args \in [team : Teams, parent : Teams \cup {None}, secret : BOOLEAN]
      BY <1>6, <2>1, TeamArguments
    <3>2. Finds(r) = CreateTeamFinds(call[r].args)
      BY <2>1 DEF Finds
    <3> QED BY <3>1, <3>2 DEF CreateTeamFinds
  <2>2. CASE call[r].op # "CreateTeam"
    <3>1. Finds(r) \subseteq LiveTeams
      BY <2>2, DescendantsClosed
         DEF Finds, UpdateTeamFinds, DeleteTeamFinds, AddMemberFinds
    <3> QED BY <3>1 DEF LiveTeams
  <2> QED BY <2>1, <2>2
<1>8. TeamsOK'
  BY <1>1, <1>2, <1>7 DEF TeamsOK
<1>9. FoundInv'
  <2> SUFFICES ASSUME NEW q \in Requests, call'[q].op = "DeleteTeam", NEW t \in found'[q]
               PROVE  teams'[t] # None
    BY DEF FoundInv
  <2>1. CASE q = r
    <3>1. call'[r].op = call[r].op
      <4>1. call'[r] = [call[r] EXCEPT !.plan = Tail(@)] /\ IsCall(call[r])
        BY <1>1, <1>2 DEF Proceed, CallInv, CallOK
      <4> QED BY <4>1 DEF IsCall
    <3>2. t \in DeleteTeamFinds(call[r].args)
      BY <1>1, <1>2, <2>1, <3>1 DEF Finds, TeamsOK
    <3> QED BY <1>1, <3>2, DescendantsClosed DEF DeleteTeamFinds, LiveTeams
  <2>2. CASE q # r
    <3>1. call'[q] = call[q] /\ found'[q] = found[q]
      BY <1>1, <1>2, <2>2 DEF Proceed, CallInv, TeamsOK
    <3> QED BY <1>1, <1>2, <3>1 DEF FoundInv
  <2> QED BY <2>1, <2>2
<1> QED BY <1>1, <1>3, <1>4, <1>5, <1>8, <1>9, ForestStays DEF Inv

LEMMA InsertTeamInv ==
  ASSUME Inv, NEW r \in Requests, InsertTeam(r)
  PROVE  Inv' /\ SpendStep /\ ForestStep
<1>1. PICK c, row : /\ c = call[r].args
                    /\ row = [live |-> TRUE, parent |-> c.parent, secret |-> c.secret]
  OBVIOUS
<1>2. /\ TeamWrites(r, "CreateTeam")
      /\ teams' = [t \in Teams |-> IF t \in found[r] /\ teams[t] = None THEN row ELSE teams[t]]
      /\ UNCHANGED <<teamMembers, assignments, collaborators>>
  BY <1>1 DEF InsertTeam
<1>3. TeamsOK /\ FoundInv
  BY DEF Inv
<1>4. c \in [team : Teams, parent : Teams \cup {None}, secret : BOOLEAN]
  BY <1>1, <1>2, TeamWriteFacts, TeamArguments
<1>5. row \in TeamRows /\ row.live /\ row.parent = c.parent /\ row.secret = c.secret
  BY <1>1, <1>4 DEF TeamRows
<1>6. TeamsOK'
  BY <1>2, <1>3, <1>5, TeamWriteFacts DEF TeamsOK
<1>7. FoundInv'
  <2>1. \A t \in Teams : teams[t] # None => teams'[t] # None
    BY <1>2, <1>3 DEF TeamsOK
  <2> QED BY <1>2, <1>3, <2>1, TeamWriteFacts, FoundKept
<1>8. ForestStep
  <2> SUFFICES ASSUME Nested, Acyclic, ~Overtaken(r) PROVE Nested' /\ Acyclic'
    BY <1>2, TeamWriteFacts DEF ForestStep
  <2>1. call[r].op = "CreateTeam" /\ Head(call[r].plan) = "write"
    BY <1>2, TeamWriteFacts
  <2>2. found[r] = CreateTeamFinds(c)
    BY <1>1, <2>1 DEF Overtaken, Finds
  <2>3. CASE teams[c.team] = None /\ Nestable(c.parent, c.secret)
    <3>1. teams' = [teams EXCEPT ![c.team] = row]
      BY <1>2, <1>3, <1>4, <2>2, <2>3 DEF TeamsOK, CreateTeamFinds
    <3> QED BY <1>3, <1>4, <1>5, <2>3, <3>1, TeamInserted
  <2>4. CASE ~(teams[c.team] = None /\ Nestable(c.parent, c.secret))
    <3>1. teams' = teams
      BY <1>2, <1>3, <2>2, <2>4 DEF TeamsOK, CreateTeamFinds
    <3> QED BY <3>1, HierarchyStays
  <2> QED BY <2>3, <2>4
<1> QED BY <1>2, <1>6, <1>7, <1>8, TeamWriteFacts DEF Inv

LEMMA UpdateTeamRowInv ==
  ASSUME Inv, NEW r \in Requests, UpdateTeamRow(r)
  PROVE  Inv' /\ SpendStep /\ ForestStep
<1>1. PICK c : c = call[r].args
  OBVIOUS
<1>2. /\ TeamWrites(r, "UpdateTeam")
      /\ teams' = [t \in Teams |->
                     IF t \in found[r] \cap LiveTeams
                       THEN [teams[t] EXCEPT !.parent = c.parent, !.secret = c.secret]
                       ELSE teams[t]]
      /\ UNCHANGED <<teamMembers, assignments, collaborators>>
  BY <1>1 DEF UpdateTeamRow
<1>3. TeamsOK /\ FoundInv
  BY DEF Inv
<1>4. c \in [team : Teams, parent : Teams \cup {None}, secret : BOOLEAN]
  BY <1>1, <1>2, TeamWriteFacts, TeamArguments
<1>5. \A t \in LiveTeams : t \in Teams /\ teams[t] \in TeamRows /\ teams[t].live
  BY <1>3 DEF TeamsOK, LiveTeams
<1>6. ASSUME NEW t \in LiveTeams, NEW row,
             row = [teams[t] EXCEPT !.parent = c.parent, !.secret = c.secret]
      PROVE  row \in TeamRows /\ row.live /\ row.parent = c.parent /\ row.secret = c.secret
  <2>1. teams[t] \in TeamRows /\ teams[t].live
    BY <1>5
  <2> QED BY <1>4, <1>6, <2>1 DEF TeamRows
<1>7. TeamsOK' /\ \A t \in Teams : teams[t] # None => teams'[t] # None
  <2>1. \A t \in Teams : /\ t \in LiveTeams => teams'[t] \in TeamRows
                         /\ t \notin LiveTeams => teams'[t] = teams[t]
    <3> SUFFICES ASSUME NEW t \in Teams
                 PROVE  /\ t \in LiveTeams => teams'[t] \in TeamRows
                        /\ t \notin LiveTeams => teams'[t] = teams[t]
      OBVIOUS
    <3>1. CASE t \in found[r] \cap LiveTeams
      <4>1. teams'[t] = [teams[t] EXCEPT !.parent = c.parent, !.secret = c.secret]
        BY <1>2, <3>1
      <4> QED BY <1>6, <3>1, <4>1
    <3>2. CASE t \notin found[r] \cap LiveTeams
      <4>1. teams'[t] = teams[t]
        BY <1>2, <3>2
      <4> QED BY <1>5, <4>1
    <3> QED BY <3>1, <3>2
  <2>2. DOMAIN teams' = Teams /\ teams' = [t \in Teams |-> teams'[t]]
    BY <1>2
  <2>3. teams' \in [Teams -> TeamRows \cup {None}]
    BY <1>3, <2>1, <2>2 DEF TeamsOK
  <2>4. \A t \in Teams : teams[t] # None => teams'[t] # None
    BY <2>1, TeamsAssumption
  <2> QED BY <1>2, <1>3, <2>3, <2>4, TeamWriteFacts DEF TeamsOK
<1>8. FoundInv'
  BY <1>2, <1>3, <1>7, TeamWriteFacts, FoundKept
<1>9. ForestStep
  <2> SUFFICES ASSUME Nested, Acyclic, ~Overtaken(r) PROVE Nested' /\ Acyclic'
    BY <1>2, TeamWriteFacts DEF ForestStep
  <2>1. call[r].op = "UpdateTeam" /\ Head(call[r].plan) = "write"
    BY <1>2, TeamWriteFacts
  <2>2. found[r] = UpdateTeamFinds(c)
    BY <1>1, <2>1 DEF Overtaken, Finds
  <2>3. CASE found[r] = {}
    <3>1. teams' = teams
      BY <1>2, <1>3, <2>3 DEF TeamsOK
    <3> QED BY <3>1, HierarchyStays
  <2>4. CASE found[r] # {}
    <3>1. /\ found[r] = {c.team} /\ c.team \in LiveTeams /\ Nestable(c.parent, c.secret)
          /\ c.parent \notin Descendants(c.team) \cup {c.team}
          /\ c.secret => Descendants(c.team) = {}
      BY <2>2, <2>4 DEF UpdateTeamFinds
    <3>2. PICK row : row = [teams[c.team] EXCEPT !.parent = c.parent, !.secret = c.secret]
      OBVIOUS
    <3>3. row \in TeamRows /\ row.live /\ row.parent = c.parent /\ row.secret = c.secret
      BY <1>6, <3>1, <3>2
    <3>4. teams' = [teams EXCEPT ![c.team] = row]
      BY <1>2, <1>3, <3>1, <3>2 DEF TeamsOK
    <3> QED BY <1>3, <3>1, <3>3, <3>4, TeamMoved
  <2> QED BY <2>3, <2>4
<1> QED BY <1>2, <1>7, <1>8, <1>9, TeamWriteFacts DEF Inv

LEMMA DeleteTeamInv ==
  ASSUME Inv, NEW r \in Requests, DeleteTeam(r)
  PROVE  Inv' /\ SpendStep /\ ForestStep
<1>1. PICK c, gone : c = call[r].args /\ gone = found[r]
  OBVIOUS
<1>2. /\ TeamWrites(r, "DeleteTeam")
      /\ teams' = [u \in Teams |-> IF u \in gone THEN [teams[u] EXCEPT !.live = FALSE]
                                                 ELSE teams[u]]
      /\ UNCHANGED <<teamMembers, assignments, collaborators>>
  BY <1>1 DEF DeleteTeam
<1>3. TeamsOK /\ FoundInv
  BY DEF Inv
<1>4. call[r].op = "DeleteTeam" /\ Head(call[r].plan) = "write"
  BY <1>2, TeamWriteFacts
<1>5. ASSUME NEW t \in gone
      PROVE  t \in Teams /\ teams[t] \in TeamRows
  BY <1>1, <1>3, <1>4 DEF FoundInv, TeamsOK
<1>6. TeamsOK' /\ \A t \in Teams : teams[t] # None => teams'[t] # None
  <2>1. \A t \in Teams : /\ t \in gone => teams'[t] \in TeamRows
                         /\ t \notin gone => teams'[t] = teams[t]
    <3> SUFFICES ASSUME NEW t \in Teams
                 PROVE  /\ t \in gone => teams'[t] \in TeamRows
                        /\ t \notin gone => teams'[t] = teams[t]
      OBVIOUS
    <3>1. CASE t \in gone
      <4>1. teams'[t] = [teams[t] EXCEPT !.live = FALSE] /\ teams[t] \in TeamRows
        BY <1>2, <1>5, <3>1
      <4> QED BY <3>1, <4>1 DEF TeamRows
    <3>2. CASE t \notin gone
      BY <1>2, <3>2
    <3> QED BY <3>1, <3>2
  <2>2. DOMAIN teams' = Teams /\ teams' = [t \in Teams |-> teams'[t]]
    BY <1>2
  <2>3. teams' \in [Teams -> TeamRows \cup {None}]
    BY <1>3, <2>1, <2>2 DEF TeamsOK
  <2>4. \A t \in Teams : teams[t] # None => teams'[t] # None
    BY <2>1, TeamsAssumption
  <2> QED BY <1>2, <1>3, <2>3, <2>4, TeamWriteFacts DEF TeamsOK
<1>7. FoundInv'
  BY <1>2, <1>3, <1>6, TeamWriteFacts, FoundKept
<1>8. ForestStep
  <2> SUFFICES ASSUME Nested, Acyclic, ~Overtaken(r) PROVE Nested' /\ Acyclic'
    BY <1>2, TeamWriteFacts DEF ForestStep
  <2>1. gone = DeleteTeamFinds(c)
    BY <1>1, <1>4 DEF Overtaken, Finds
  <2>2. CASE c.team \in LiveTeams
    BY <1>2, <1>3, <2>1, <2>2, TeamsDeleted DEF DeleteTeamFinds
  <2>3. CASE c.team \notin LiveTeams
    <3>1. teams' = teams
      BY <1>2, <1>3, <2>1, <2>3 DEF TeamsOK, DeleteTeamFinds
    <3> QED BY <3>1, HierarchyStays
  <2> QED BY <2>2, <2>3
<1> QED BY <1>2, <1>6, <1>7, <1>8, TeamWriteFacts DEF Inv

\* A write that leaves the teams themselves alone.
LEMMA TeamsStay ==
  ASSUME Inv, NEW r \in Requests, NEW op, TeamWrites(r, op), UNCHANGED teams,
         teamMembers' \in [Teams -> [Accounts -> TeamRoles \cup {None}]],
         assignments' \in [Teams -> RepositoryRoles \cup {None}],
         collaborators' \in [Accounts -> RepositoryRoles \cup {None}]
  PROVE  Inv' /\ SpendStep /\ ForestStep
<1>1. TeamsOK /\ FoundInv
  BY DEF Inv
<1>2. TeamsOK'
  BY <1>1, TeamWriteFacts DEF TeamsOK
<1>3. FoundInv'
  BY <1>1, TeamWriteFacts, FoundKept
<1> QED BY <1>2, <1>3, TeamWriteFacts, ForestStays DEF Inv

\* The writes that leave the hierarchy alone.
LEMMA TeamMemberInv ==
  ASSUME Inv, NEW r \in Requests, AddTeamMember(r) \/ RemoveTeamMember(r)
  PROVE  Inv' /\ SpendStep /\ ForestStep
<1>1. PICK c : c = call[r].args
  OBVIOUS
<1>2. /\ UNCHANGED <<teams, assignments, collaborators>>
      /\ teamMembers \in [Teams -> [Accounts -> TeamRoles \cup {None}]]
      /\ assignments \in [Teams -> RepositoryRoles \cup {None}]
      /\ collaborators \in [Accounts -> RepositoryRoles \cup {None}]
  BY DEF AddTeamMember, RemoveTeamMember, Inv, TeamsOK
<1>3. CASE AddTeamMember(r)
  <2>1. /\ TeamWrites(r, "PutMember")
        /\ teamMembers' = [t \in Teams |->
                             IF t \in found[r] THEN [teamMembers[t] EXCEPT ![c.member] = c.role]
                                              ELSE teamMembers[t]]
    BY <1>1, <1>3 DEF AddTeamMember
  <2>2. c \in [team : Teams, member : Accounts, role : TeamRoles]
    BY <1>1, <2>1, TeamWriteFacts, TeamArguments
  <2>3. c.role \in TeamRoles \cup {None} /\ c.member \in Accounts
    BY <2>2
  <2>4. teamMembers' \in [Teams -> [Accounts -> TeamRoles \cup {None}]]
    BY <1>2, <2>1, <2>3
  <2> QED BY <1>2, <2>1, <2>4, TeamsStay
<1>4. CASE RemoveTeamMember(r)
  <2>1. /\ TeamWrites(r, "RemoveMember")
        /\ teamMembers' = [teamMembers EXCEPT ![c.team][c.member] = None]
    BY <1>1, <1>4 DEF RemoveTeamMember
  <2>2. c \in [team : Teams, member : Accounts]
    BY <1>1, <2>1, TeamWriteFacts, TeamArguments
  <2>3. PICK f : f = [teamMembers[c.team] EXCEPT ![c.member] = None]
    OBVIOUS
  <2>4. f \in [Accounts -> TeamRoles \cup {None}] /\ teamMembers' = [teamMembers EXCEPT ![c.team] = f]
    BY <1>2, <2>1, <2>2, <2>3
  <2>5. teamMembers' \in [Teams -> [Accounts -> TeamRoles \cup {None}]]
    BY <1>2, <2>2, <2>4
  <2> QED BY <1>2, <2>1, <2>5, TeamsStay
<1> QED BY <1>3, <1>4

LEMMA TeamRepositoryInv ==
  ASSUME Inv, NEW r \in Requests, PutTeamRepository(r) \/ RemoveTeamRepository(r)
  PROVE  Inv' /\ SpendStep /\ ForestStep
<1>1. PICK c : c = call[r].args
  OBVIOUS
<1>2. /\ UNCHANGED <<teams, teamMembers, collaborators>>
      /\ teamMembers \in [Teams -> [Accounts -> TeamRoles \cup {None}]]
      /\ assignments \in [Teams -> RepositoryRoles \cup {None}]
      /\ collaborators \in [Accounts -> RepositoryRoles \cup {None}]
  BY DEF PutTeamRepository, RemoveTeamRepository, Inv, TeamsOK
<1>3. CASE PutTeamRepository(r)
  <2>1. /\ TeamWrites(r, "PutRepository")
        /\ assignments' = [t \in Teams |-> IF t \in found[r] THEN c.role ELSE assignments[t]]
    BY <1>1, <1>3 DEF PutTeamRepository
  <2>2. c \in [team : Teams, role : RepositoryRoles]
    BY <1>1, <2>1, TeamWriteFacts, TeamArguments
  <2>3. c.role \in RepositoryRoles \cup {None}
    BY <2>2
  <2>4. assignments' \in [Teams -> RepositoryRoles \cup {None}]
    BY <1>2, <2>1, <2>3
  <2> QED BY <1>2, <2>1, <2>4, TeamsStay
<1>4. CASE RemoveTeamRepository(r)
  <2>1. TeamWrites(r, "RemoveRepository") /\ assignments' = [assignments EXCEPT ![c.team] = None]
    BY <1>1, <1>4 DEF RemoveTeamRepository
  <2>2. assignments' \in [Teams -> RepositoryRoles \cup {None}]
    BY <1>2, <2>1
  <2> QED BY <1>2, <2>1, <2>2, TeamsStay
<1> QED BY <1>3, <1>4

LEMMA CollaboratorInv ==
  ASSUME Inv, NEW r \in Requests,
         PutRepositoryCollaborator(r) \/ RemoveRepositoryCollaborator(r)
  PROVE  Inv' /\ SpendStep /\ ForestStep
<1>1. PICK c : c = call[r].args
  OBVIOUS
<1>2. /\ UNCHANGED <<teams, teamMembers, assignments>>
      /\ teamMembers \in [Teams -> [Accounts -> TeamRoles \cup {None}]]
      /\ assignments \in [Teams -> RepositoryRoles \cup {None}]
      /\ collaborators \in [Accounts -> RepositoryRoles \cup {None}]
  BY DEF PutRepositoryCollaborator, RemoveRepositoryCollaborator, Inv, TeamsOK
<1>3. CASE PutRepositoryCollaborator(r)
  <2>1. /\ TeamWrites(r, "PutCollaborator")
        /\ collaborators' = [collaborators EXCEPT ![c.member] = c.role]
    BY <1>1, <1>3 DEF PutRepositoryCollaborator
  <2>2. c \in [member : Accounts, role : RepositoryRoles]
    BY <1>1, <2>1, TeamWriteFacts, TeamArguments
  <2>3. c.role \in RepositoryRoles \cup {None}
    BY <2>2
  <2>4. collaborators' \in [Accounts -> RepositoryRoles \cup {None}]
    BY <1>2, <2>1, <2>3
  <2> QED BY <1>2, <2>1, <2>4, TeamsStay
<1>4. CASE RemoveRepositoryCollaborator(r)
  <2>1. /\ TeamWrites(r, "RemoveCollaborator")
        /\ collaborators' = [collaborators EXCEPT ![c.member] = None]
    BY <1>1, <1>4 DEF RemoveRepositoryCollaborator
  <2>2. collaborators' \in [Accounts -> RepositoryRoles \cup {None}]
    BY <1>2, <2>1
  <2> QED BY <1>2, <2>1, <2>2, TeamsStay
<1> QED BY <1>3, <1>4
-----------------------------------------------------------------------------
\* The specification.

LEMMA InitInv ==
  ASSUME Init
  PROVE  Inv
<1>1. CallInv
  <2>1. /\ Idle.op = "idle" /\ Idle.args = None /\ Idle.old = 0 /\ Idle.new = 0
        /\ Idle.plan = <<>> /\ IsCall(Idle)
    BY DEF Idle, IsCall
  <2>2. 0 \in 0..Len(grants)
    BY DEF Init, MembershipInit
  <2>3. <<>> \in Seq({s \in PlanSteps : StepOK(Idle, s)})
    OBVIOUS
  <2>4. CallOK(Idle)
    BY <2>1, <2>2, <2>3, MembershipArguments DEF CallOK
  <2>5. call = [r \in Requests |-> Idle] /\ calls = 0
    BY DEF Init, MembershipInit
  <2>6. /\ DOMAIN call = Requests /\ call = [r \in Requests |-> call[r]]
        /\ \A r \in Requests : call[r] = Idle
    BY <2>5
  <2> QED BY <2>4, <2>5, <2>6 DEF CallInv
<1>2. MembershipInv
  <2>1. /\ organization = [state |-> "none", base |-> "read"]
        /\ members = [a \in Accounts |-> None] /\ invitations = <<>> /\ grants = <<>>
        /\ memberRecord = [a \in Accounts |-> 0] /\ consented = {}
    BY DEF Init, MembershipInit
  <2>2. organization \in [state : {"none", "creating", "active", "failed"},
                          base : BasePermissions]
    BY <2>1 DEF BasePermissions
  <2>3. /\ invitations \in Seq(Invitations) /\ grants \in Seq(Grants)
        /\ Len(invitations) = 0 /\ Len(grants) = 0
    BY <2>1
  <2>4. Len(invitations) <= MaxInvitations /\ 0 \in 0..Len(grants)
    BY <2>3, BoundsAssumption
  <2>5. members \in [Accounts -> Rows \cup {None}]
    BY <2>1
  <2>6. memberRecord \in [Accounts -> 0..Len(grants)]
    BY <2>1, <2>4
  <2>7. MembershipOK
    BY <2>1, <2>2, <2>3, <2>4, <2>5, <2>6 DEF MembershipOK
  <2>8. RowsInv /\ FounderOwns /\ PublicByConsent
    BY <2>1 DEF RowsInv, FounderOwns, PublicByConsent
  <2> QED BY <2>7, <2>8 DEF MembershipInv
<1>3. TeamsOK /\ FoundInv
  <2>1. /\ teams = [t \in Teams |-> None]
        /\ teamMembers = [t \in Teams |-> [a \in Accounts |-> None]]
        /\ assignments = [t \in Teams |-> None] /\ collaborators = [a \in Accounts |-> None]
        /\ found = [r \in Requests |-> {}]
    BY DEF Init
  <2> QED BY <2>1 DEF TeamsOK, FoundInv
<1> QED BY <1>1, <1>2, <1>3 DEF Inv

LEMMA StepInv ==
  ASSUME Inv, [Next]_vars
  PROVE  Inv' /\ SpendStep /\ ForestStep
<1> USE DEF tables
<1>1. ASSUME UNCHANGED teamVars,
             \A r \in Requests : call'[r].op = "DeleteTeam" => call[r].op = "DeleteTeam"
      PROVE  TeamsOK' /\ FoundInv' /\ ForestStep
  <2>1. UNCHANGED <<teams, teamMembers, assignments, collaborators, found>>
    BY <1>1 DEF teamVars
  <2>2. TeamsOK /\ FoundInv
    BY DEF Inv
  <2>3. TeamsOK'
    BY <2>1, <2>2 DEF TeamsOK
  <2>4. FoundInv'
    BY <1>1, <2>1, <2>2, FoundKept
  <2> QED BY <2>1, <2>3, <2>4, ForestStays
<1>2. CASE MembershipNext /\ UNCHANGED teamVars
  <2>1. CallInv' /\ MembershipInv' /\ SpendStep
    BY <1>2, MembershipNextInv DEF Inv
  <2>2. \A r \in Requests : call'[r].op = "DeleteTeam" => call[r].op = "DeleteTeam"
    BY <1>2, NoDeletionBegins DEF Inv
  <2> QED BY <1>1, <1>2, <2>1, <2>2 DEF Inv
<1>3. ASSUME NEW r \in Requests, Stop(r), UNCHANGED teamVars
      PROVE  Inv' /\ SpendStep /\ ForestStep
  <2>1. Finish(r) /\ UNCHANGED calls /\ UNCHANGED membershipVars
    BY <1>3 DEF Stop
  <2>2. CallInv' /\ MembershipInv' /\ SpendStep
    BY <2>1, NothingWritten DEF Inv
  <2>3. \A q \in Requests : call'[q].op = "DeleteTeam" => call[q].op = "DeleteTeam"
    BY <2>1 DEF Finish, Idle, Inv, CallInv
  <2> QED BY <1>1, <1>3, <2>2, <2>3 DEF Inv
<1>4. ASSUME NEW r \in Requests, TeamServiceCall(r) \/ CollaboratorServiceCall(r)
      PROVE  Inv' /\ SpendStep /\ ForestStep
  <2>1. Inv' /\ SpendStep /\ UNCHANGED teams
    BY <1>4, TeamServiceCallInv, CollaboratorServiceCallInv
  <2> QED BY <2>1, ForestStays
<1>5. ASSUME NEW r \in Requests, TeamStep(r)
      PROVE  Inv' /\ SpendStep /\ ForestStep
  BY <1>5, SelectInv, InsertTeamInv, UpdateTeamRowInv, DeleteTeamInv, TeamMemberInv,
     TeamRepositoryInv, CollaboratorInv DEF TeamStep
<1>6. CASE UNCHANGED vars
  <2>1. UNCHANGED membershipVars /\ UNCHANGED callVars /\ UNCHANGED teamVars
    BY <1>6 DEF vars
  <2>2. MembershipInv' /\ Steady /\ Lengths
    BY <2>1, MembershipStays DEF Inv
  <2>3. CallInv'
    BY <2>1, <2>2, CallsKept DEF Inv
  <2>4. SpendStep
    BY <2>1 DEF SpendStep, membershipVars
  <2>5. UNCHANGED call
    BY <2>1 DEF callVars
  <2> QED BY <1>1, <2>1, <2>2, <2>3, <2>4, <2>5 DEF Inv
<1> QED BY <1>2, <1>3, <1>4, <1>5, <1>6 DEF Next

\* The inductive invariant holds throughout.
THEOREM Invariance == Spec => []Inv
<1>1. Init => Inv
  BY InitInv
<1>2. Inv /\ [Next]_vars => Inv'
  BY StepInv
<1> QED BY <1>1, <1>2, PTL DEF Spec

\* Every variable keeps its type, whatever calls run between the reads, the
\* publications and the writes of another.
THEOREM TypeCorrect == Spec => []TypeOK
<1>1. Inv => TypeOK
  <2> SUFFICES ASSUME Inv PROVE TypeOK
    OBVIOUS
  <2>1. MembershipOK /\ TeamsOK
    BY DEF Inv, MembershipInv
  <2>2. \A a \in Accounts : members[a] # None => members[a] \in Rows
    BY <2>1 DEF MembershipOK
  <2>3. \A r \in Requests : {call[r].old, call[r].new} \subseteq 0..Len(grants)
    BY DEF Inv, CallInv, CallOK
  <2>4. \A t \in Teams : teams[t] # None => teams[t] \in TeamRows
    BY <2>1 DEF TeamsOK
  <2> QED BY <2>1, <2>2, <2>3, <2>4 DEF TypeOK, MembershipOK, TeamsOK
<1> QED BY <1>1, Invariance, PTL

\* The founding owner stays an owner: no invitation, role change, removal or race
\* between them takes the founder's row or its role.
THEOREM FounderStays == Spec => []FounderOwns
<1>1. Inv => FounderOwns
  BY DEF Inv, MembershipInv
<1> QED BY <1>1, Invariance, PTL

\* What is published of a member was asked for by that member, although rows are
\* read, published and written in separate steps.
THEOREM ConsentRespected == Spec => []PublicByConsent
<1>1. Inv => PublicByConsent
  BY DEF Inv, MembershipInv
<1> QED BY <1>1, Invariance, PTL

\* A member joins by spending a pending invitation in the same step, and what was
\* spent or revoked stays so.
THEOREM InvitationsSpent == Spec => InvitationSpentOnce
<1>1. Inv /\ [Next]_vars =>
        [/\ \A a \in Accounts \ {Founder} :
              (members[a] = None /\ members'[a] # None) =>
                \E i \in DOMAIN invitations :
                  /\ invitations[i].to = a /\ invitations[i].status = "pending"
                  /\ invitations'[i].status = "accepted"
         /\ \A i \in DOMAIN invitations :
              invitations[i].status # "pending" =>
                invitations'[i].status = invitations[i].status]_<<members, invitations>>
  <2> SUFFICES ASSUME Inv, [Next]_vars PROVE SpendStep
    BY DEF SpendStep
  <2> QED BY StepInv
<1> QED BY <1>1, Invariance, PTL DEF Spec, InvitationSpentOnce

LEMMA ForestIs == TeamForest <=> Nested /\ Acyclic
<1>1. None \notin LiveTeams
  BY TeamsAssumption DEF LiveTeams
<1>2. ASSUME Nested, NEW S \in SUBSET LiveTeams, NEW t \in LiveTeams
      PROVE  ParentsIn(S, t) <=>
               \A v \in S \cup {t} : teams[v].parent \in LiveTeams => teams[v].parent \in S
  <2>1. \A v \in S \cup {t} : teams[v].parent \in LiveTeams \cup {None}
    BY <1>2 DEF Nested
  <2> QED BY <1>1, <2>1 DEF ParentsIn
<1>3. Nested => (Acyclic <=> \A t \in LiveTeams : ~Above(t, t))
  <2> SUFFICES ASSUME Nested, NEW t \in LiveTeams
               PROVE  ~Above(t, t) <=> \E S \in SUBSET LiveTeams : t \notin S /\ ParentsIn(S, t)
    BY DEF Acyclic
  <2> QED BY <1>2 DEF Above
<1> QED BY <1>3 DEF TeamForest, Nested

\* However stale the checks of the services are, only the write of a statement that another
\* one overtook after its snapshot makes something else of a forest: the statement that moves
\* a team checks again what the service checked, and deletion takes everything beneath.
THEOREM TeamsNested == Spec => TeamForestKept
<1>1. Inv /\ [Next]_vars =>
        [TeamForest /\ ~TeamForest' =>
           \E r \in Requests : Overtaken(r) /\ call'[r] = Idle]_teams
  <2> SUFFICES ASSUME Inv, [Next]_vars, TeamForest, ~TeamForest'
               PROVE  \E r \in Requests : Overtaken(r) /\ call'[r] = Idle
    OBVIOUS
  <2>1. Nested /\ Acyclic
    BY ForestIs
  <2>2. TeamForest' <=> Nested' /\ Acyclic'
    BY ForestIs, PTL
  <2> QED BY <2>1, <2>2, StepInv DEF ForestStep
<1> QED BY <1>1, Invariance, PTL DEF Spec, TeamForestKept
-----------------------------------------------------------------------------
\* The permissions.

\* The account's teams and the teams above any one of them.
Lineages(a) ==
  {u \in LiveTeams : \E v \in LiveTeams : teamMembers[v][a] # None /\ (u = v \/ Above(v, u))}

\* The query climbs from all teams of the account at once; a team is reached exactly if it
\* is one of them or above one of them.
LEMMA LineageIsLineages ==
  ASSUME NEW a \in Accounts
  PROVE  TeamLineage(a) = Lineages(a)
<1>2. ASSUME NEW u \in Lineages(a) PROVE u \in TeamLineage(a)
  <2>1. PICK v \in LiveTeams : teamMembers[v][a] # None /\ (u = v \/ Above(v, u))
    BY <1>2 DEF Lineages
  <2>2. ASSUME NEW S \in SUBSET LiveTeams,
               \A w \in LiveTeams : teamMembers[w][a] # None => w \in S,
               \A w \in S : teams[w].parent \in LiveTeams => teams[w].parent \in S
        PROVE  u \in S
    <3>1. v \in S
      BY <2>1, <2>2
    <3>2. \A w \in S \cup {v} : teams[w].parent \in LiveTeams => teams[w].parent \in S
      BY <2>2, <3>1
    <3> QED BY <2>1, <3>1, <3>2 DEF Above
  <2> QED BY <1>2, <2>2 DEF TeamLineage, Lineages
<1>3. ASSUME NEW u \in TeamLineage(a) PROVE u \in Lineages(a)
  <2>1. Lineages(a) \in SUBSET LiveTeams
    BY DEF Lineages
  <2>2. \A w \in LiveTeams : teamMembers[w][a] # None => w \in Lineages(a)
    BY DEF Lineages
  <2>3. ASSUME NEW w \in Lineages(a), teams[w].parent \in LiveTeams
        PROVE  teams[w].parent \in Lineages(a)
    <3>1. PICK v \in LiveTeams : teamMembers[v][a] # None /\ (w = v \/ Above(v, w))
      BY DEF Lineages
    <3>2. Above(v, teams[w].parent)
      <4> SUFFICES ASSUME NEW S \in SUBSET LiveTeams,
                          \A x \in S \cup {v} :
                            teams[x].parent \in LiveTeams => teams[x].parent \in S
                   PROVE  teams[w].parent \in S
        BY DEF Above
      <4>1. w \in S \cup {v}
        BY <3>1 DEF Above
      <4> QED BY <2>3, <4>1
    <3> QED BY <2>3, <3>1, <3>2 DEF Lineages
  <2> QED BY <1>3, <2>1, <2>2, <2>3 DEF TeamLineage
<1> QED BY <1>2, <1>3

\* The roles by their level.
LEMMA Levels ==
  /\ Level("admin") = 5 /\ Level("maintain") = 4 /\ Level("write") = 3
  /\ Level("triage") = 2 /\ Level("read") = 1 /\ Level("none") = 0
  /\ Level(None) = 0
  /\ \A role \in RepositoryRoles \cup {None} :
       /\ Level(role) >= 5 <=> role \in {"admin"}
       /\ Level(role) >= 3 <=> role \in {"write", "maintain", "admin"}
       /\ Level(role) >= 2 <=> role \in {"triage", "write", "maintain", "admin"}
       /\ Level(role) >= 1 <=> role \in {"read", "triage", "write", "maintain", "admin"}
<1>1. /\ Level("admin") = 5 /\ Level("maintain") = 4 /\ Level("write") = 3
      /\ Level("triage") = 2 /\ Level("read") = 1 /\ Level("none") = 0
  BY DEF Level
<1>2. Level(None) = 0
  BY RolesAssumption
<1>3. \A role : Level(role) > 0 => role \in {"read", "triage", "write", "maintain", "admin"}
  BY DEF Level
<1>4. None \notin {"read", "triage", "write", "maintain", "admin"}
  BY <1>1, <1>2
<1>5. \A role \in RepositoryRoles : role \in {"read", "triage", "write", "maintain", "admin"}
  BY <1>3, RolesAssumption
<1> QED BY <1>1, <1>2, <1>4, <1>5

\* Holding a role of a level at least n, by the four ways a query looks at.
LEMMA HeldRoles ==
  ASSUME Inv, NEW a \in Accounts, NEW n \in 1 .. 5, NEW roles,
         \A role \in RepositoryRoles \cup {None} : Level(role) >= n <=> role \in roles
  PROVE  (\E held \in EffectiveRoles(a) : Level(held) >= n) <=>
           \/ a \in Owners
           \/ IsMember(a) /\ Level(organization.base) >= n
           \/ ByTeam(a, roles)
           \/ collaborators[a] \in roles
<1>1. /\ assignments \in [Teams -> RepositoryRoles \cup {None}]
      /\ collaborators \in [Accounts -> RepositoryRoles \cup {None}]
  BY DEF Inv, TeamsOK
<1>2. TeamLineage(a) = Lineages(a)
  BY LineageIsLineages
<1>3. TeamLineage(a) \subseteq Teams
  BY DEF TeamLineage, LiveTeams
<1>4. EffectiveRoles(a) = (IF a \in Owners THEN {"admin"} ELSE {})
                            \cup (IF IsMember(a) THEN {organization.base} ELSE {})
                            \cup {collaborators[a]}
                            \cup {assignments[t] : t \in TeamLineage(a)}
  BY <1>2 DEF EffectiveRoles, Lineages
<1>5. Level("admin") >= n
  BY Levels
<1>6. Level(collaborators[a]) >= n <=> collaborators[a] \in roles
  BY <1>1
<1>7. (\E t \in TeamLineage(a) : Level(assignments[t]) >= n) <=> ByTeam(a, roles)
  <2>1. \A t \in TeamLineage(a) : assignments[t] \in RepositoryRoles \cup {None}
    BY <1>1, <1>3
  <2> QED BY <2>1 DEF ByTeam
<1> HIDE DEF EffectiveRoles
<1>8. (\E held \in EffectiveRoles(a) : Level(held) >= n) <=>
        \/ a \in Owners /\ Level("admin") >= n
        \/ IsMember(a) /\ Level(organization.base) >= n
        \/ Level(collaborators[a]) >= n
        \/ \E t \in TeamLineage(a) : Level(assignments[t]) >= n
  BY <1>4, Zenon
<1> QED BY <1>5, <1>6, <1>7, <1>8

\* The base permission of members grants reading or writing and nothing above.
LEMMA BaseLevels ==
  ASSUME Inv
  PROVE  /\ ~(Level(organization.base) >= 5)
         /\ Level(organization.base) >= 3 <=> organization.base = "write"
         /\ Level(organization.base) >= 2 <=> organization.base = "write"
         /\ Level(organization.base) >= 1 <=> organization.base \in {"read", "write"}
<1>1. organization.base \in {"none", "read", "write"}
  BY DEF Inv, MembershipInv, MembershipOK, BasePermissions
<1> QED BY <1>1, Levels

\* The four queries that authorize requests on a repository, each climbing the hierarchy of
\* teams for itself, decide as the strongest role the account holds or inherits does.
THEOREM PermissionsAgree == Spec => []PermissionsResolved
<1>1. Inv => PermissionsResolved
  <2> SUFFICES ASSUME Inv, NEW a \in Accounts
               PROVE  LET roles == EffectiveRoles(a)
                          atLeast(role) == \E held \in roles : Level(held) >= Level(role)
                      IN /\ CanAdminRepository(a) = atLeast("admin")
                         /\ CanWriteRepository(a) = atLeast("write")
                         /\ CanTriageRepository(a) = atLeast("triage")
                         /\ CanReadRepository(a) = atLeast("read")
    BY DEF PermissionsResolved
  <2>1. CanAdminRepository(a) <=> \E held \in EffectiveRoles(a) : Level(held) >= 5
    <3>1. \A role \in RepositoryRoles \cup {None} : Level(role) >= 5 <=> role \in {"admin"}
      BY Levels
    <3>2. (\E held \in EffectiveRoles(a) : Level(held) >= 5) <=>
            \/ a \in Owners
            \/ IsMember(a) /\ Level(organization.base) >= 5
            \/ ByTeam(a, {"admin"})
            \/ collaborators[a] \in {"admin"}
      BY <3>1, HeldRoles
    <3> QED BY <3>2, BaseLevels DEF CanAdminRepository
  <2>2. CanWriteRepository(a) <=> \E held \in EffectiveRoles(a) : Level(held) >= 3
    <3> DEFINE roles == {"write", "maintain", "admin"}
    <3>1. \A role \in RepositoryRoles \cup {None} : Level(role) >= 3 <=> role \in roles
      BY Levels
    <3> HIDE DEF roles
    <3>2. (\E held \in EffectiveRoles(a) : Level(held) >= 3) <=>
            \/ a \in Owners
            \/ IsMember(a) /\ Level(organization.base) >= 3
            \/ ByTeam(a, roles)
            \/ collaborators[a] \in roles
      BY <3>1, HeldRoles
    <3> QED BY <3>2, BaseLevels DEF CanWriteRepository, roles
  <2>3. CanTriageRepository(a) <=> \E held \in EffectiveRoles(a) : Level(held) >= 2
    <3> DEFINE roles == {"triage", "write", "maintain", "admin"}
    <3>1. \A role \in RepositoryRoles \cup {None} : Level(role) >= 2 <=> role \in roles
      BY Levels
    <3> HIDE DEF roles
    <3>2. (\E held \in EffectiveRoles(a) : Level(held) >= 2) <=>
            \/ a \in Owners
            \/ IsMember(a) /\ Level(organization.base) >= 2
            \/ ByTeam(a, roles)
            \/ collaborators[a] \in roles
      BY <3>1, HeldRoles
    <3> QED BY <3>2, BaseLevels DEF CanTriageRepository, roles
  <2>4. CanReadRepository(a) <=> \E held \in EffectiveRoles(a) : Level(held) >= 1
    <3> DEFINE roles == {"read", "triage", "write", "maintain", "admin"}
    <3>1. \A role \in RepositoryRoles \cup {None} : Level(role) >= 1 <=> role \in roles
      BY Levels
    <3> HIDE DEF roles
    <3>2. (\E held \in EffectiveRoles(a) : Level(held) >= 1) <=>
            \/ a \in Owners
            \/ IsMember(a) /\ Level(organization.base) >= 1
            \/ ByTeam(a, roles)
            \/ collaborators[a] \in roles
      BY <3>1, HeldRoles
    <3> QED BY <3>2, BaseLevels DEF CanReadRepository, roles
  <2>5. Level("admin") = 5 /\ Level("write") = 3 /\ Level("triage") = 2 /\ Level("read") = 1
    BY Levels
  <2> DEFINE held(n) == \E role \in EffectiveRoles(a) : Level(role) >= n
  <2>6. /\ CanAdminRepository(a) \in BOOLEAN /\ CanWriteRepository(a) \in BOOLEAN
        /\ CanTriageRepository(a) \in BOOLEAN /\ CanReadRepository(a) \in BOOLEAN
    BY DEF CanAdminRepository, CanWriteRepository, CanTriageRepository, CanReadRepository
  <2>7. CanAdminRepository(a) = held(5)
    BY <2>1, <2>6
  <2>8. CanWriteRepository(a) = held(3)
    BY <2>2, <2>6
  <2>9. CanTriageRepository(a) = held(2)
    BY <2>3, <2>6
  <2>10. CanReadRepository(a) = held(1)
    BY <2>4, <2>6
  <2> QED BY <2>5, <2>7, <2>8, <2>9, <2>10
<1> QED BY <1>1, Invariance, PTL
=============================================================================
