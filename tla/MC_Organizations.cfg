SPECIFICATION EstablishedSpec
CONSTANTS
  Accounts = {founder, member, guest}
  Founder = founder
  Member = member
  Guest = guest
  Teams = {t1, t2}
  t1 = t1
  t2 = t2
  RepositoryRoles = {"triage", "maintain", "admin"}
  Requests = {r1, r2}
  MaxCalls = 2
  MaxInvitations = 3
  None = None
SYMMETRY Symmetric
INVARIANTS TypeOK FounderOwns PublicByConsent PermissionsResolved
PROPERTIES InvitationSpentOnce TeamForestKept
CHECK_DEADLOCK FALSE
