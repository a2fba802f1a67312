SPECIFICATION FairSpec
CONSTANTS
  MaxReplies = 2
  NoCard = NoCard
  q1 = q1 m1 = m1 m2 = m2
  QuestionOf <- SayThenAsk
  Ids = {m1, m2}
  Ladder = 1
  ConsumeChunk = 1
  Refusals = TRUE
INVARIANTS TypeOK InOrder EndOwesTheRest ResolvedFirstStaysShut UnansweredReadsOpen
PROPERTIES KeepsPromise RepliesDrain CloseEnds ConsumesLand
CHECK_DEADLOCK FALSE
