SPECIFICATION Spec
CONSTANTS
  a = a
  b = b
  Peers = {a, b}
  MaxInc = 2
  SpanUses <- MCSpanUses
INVARIANTS TypeOK NoDanglingState NoTransError NothingAfterEOF AgreeAtRest FailureNeverStuck
PROPERTY Implements
