SPECIFICATION RepoSpec
CONSTANTS
  Bead = {b1, b2}
  Summary = Summary
  Graph = Graph
  Approval = Approval
  User = User
  MaxRequests = 2
PROPERTY ApprovalIsCommitted
CHECK_DEADLOCK FALSE
