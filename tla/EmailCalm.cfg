SPECIFICATION CalmEmailSpec
CONSTANTS
  RecordIds = {r1, r2}
  EmailRequests = {q1, q2}
INVARIANTS
  EmailTypeOK
  NoFalseSent
  MailedOnce
PROPERTIES
  LegalTransitions
  LeavesDraft
