SPECIFICATION Spec
CONSTANTS
  d1 = d1
  d2 = d2
  r1 = r1
  tA = tA
  tAAAA = tAAAA
  Domains = {d1, d2}
  Types = {tA, tAAAA}
  Records = {r1}
  MaxLines = 5
  MaxUnread = 1
SYMMETRY Symmetric
INVARIANTS
  AnswersMatchOutput
  CountsMatchAnswers
  OutcomeMatchesOutput
CHECK_DEADLOCK FALSE
