SPECIFICATION Spec
CONSTANTS
  MaxReplies = 2
  NoCard = NoCard
  q1 = q1 m1 = m1 m2 = m2
  QuestionOf <- SayThenAsk
  Ids = {m1}
  Ladder = 1
  ConsumeChunk = 1
  Refusals = FALSE
INVARIANTS AnsweredCardsClose
CHECK_DEADLOCK FALSE
