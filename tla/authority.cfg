SPECIFICATION Spec
CONSTANTS
  ToolSpec <- MCToolSpec
  Yielding <- MCYielding
  Call <- AuthorityCall
  Reply <- AuthorityReply
  Request = {r1}
  Confirm = {c1}
  Session = {s1}
  NoSession = NoSession
  NoCall = NoCall
  MaxConcurrent = 1
  MaxToolIters = 2
  MaxMessages = 40
  PidModulus = 4
  OwnPid = 3
INVARIANTS
  TypeOK
  DeniedNeverRuns
  RunsAreAuthorised
  CausesExplain
  ClosedTrail
  RunsOnRecord
  ReplayTruthful
PROPERTIES
  ImplementsSupervision
  NoStepWasted
