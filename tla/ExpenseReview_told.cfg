SPECIFICATION Spec
CONSTANTS
  Expenses = {e1}
  Users = {u1, u2, u3}
  Approvers = {u1, u2, u3}
  Calls = {k1, k2}
  Ids = {n1, n2, n3}
INVARIANTS TypeOK RequesterToldTheVerdict VerdictIsHeard NobodySkipped
PROPERTIES IsAnInbox ApproversAreAsked
