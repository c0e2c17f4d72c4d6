SPECIFICATION Spec
CONSTANTS
  Unset = Unset
  Typo = Typo
  remote = remote
  local = local
  Mock = Mock
  Damaged = Damaged
  Remote <- remote
  Local <- local
  Provider <- MCProvider
  Word <- MCWord
  Scripts <- MCScripts
  MaxCall = 0
  HttpTimeout = 2
  MaxIters = 2
  Files <- MCFiles
  Envs <- MCEnvs
  Clis <- MCClis
INVARIANTS
  TypeOK
  MockStaysOffline
  AutoAnswers
  ReplyAsSent
  AnswerShownLast
CHECK_DEADLOCK FALSE
