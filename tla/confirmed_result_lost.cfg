SPECIFICATION FairSpec
CONSTANTS
  ToolSpec <- MCToolSpec
  Yielding <- MCYielding
  Call <- ChatCall
  Reply <- ChatReply
  Request = {r1}
  Confirm = {c1}
  Session = {s1}
  NoSession = NoSession
  NoCall = NoCall
  MaxConcurrent = 1
  MaxToolIters = 1
  MaxMessages = 40
  PidModulus = 4
  OwnPid = 3
PROPERTIES
  ConfirmedResultKept
