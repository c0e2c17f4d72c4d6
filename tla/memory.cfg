SPECIFICATION Spec
CONSTANTS
  c1 = c1
  c2 = c2
  k1 = k1
  k2 = k2
  v1 = v1
  v2 = v2
  Client <- MCClient
  Key <- MCKey
  Value <- MCValue
  Document <- MCDocument
  Garbage = Garbage
  NoText = NoText
  NoFact = NoFact
  Absent = Absent
  Limit = 1
  MaxLines = 3
SYMMETRY Symmetry
INVARIANTS
  TypeOK
  UnreadableOnlyAfterFault
  ForgottenStaysForgotten
PROPERTIES
  ImplementsFacts
  ReadErrorsExplained
