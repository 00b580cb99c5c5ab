SPECIFICATION NetworkFairSpec
CONSTANTS
  Callers = {c1, c2, c3}
  RandomCallers = {c1}
  NoCaller = NoCaller
  MaxFetches = 2
INVARIANTS
  PathKnowsNode
PROPERTIES
  AnswersAreNewest
  ErrorsOnlyAfterForce
  RetriesArePaced
  CallersServed
