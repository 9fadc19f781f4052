SPECIFICATION Spec
CONSTANTS
  Users = {ann, bob}
  First = ann
  MaxOrgs = 3
  MaxOrgsPerUser = 2
  MaxMembersPerOrg = 2
  MaxCalls = 3
  MaxOpen = 2
INVARIANTS
  MembershipSound
  OwnChangesShown
CHECK_DEADLOCK FALSE
