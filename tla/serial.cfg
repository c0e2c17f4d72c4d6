SPECIFICATION FairSpec
CONSTANTS
  ToolSpec <- MCToolSpec
  Yielding <- MCYielding
  Call <- ChatCall
  Reply <- ChatReply
  Request = {r1, r2, r3}
  Confirm = {}
  Session = {s1}
  NoSession = NoSession
  NoCall = NoCall
  MaxConcurrent = 1
  MaxToolIters = 1
  MaxMessages = 4
  PidModulus = 4
  OwnPid = 3
INVARIANTS
  NoOrphanResult
PROPERTIES
  TurnsKept
  AdmittedEnds
