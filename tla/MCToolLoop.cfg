CONSTANTS
  Words = {word}
  Args = {none, some}
  Broken = Broken
  NoArgs = none
  Pictures = {web, plain}
  Plain = {plain}
  Served <- AllPairs
  MaxRequests = 2
  MaxCalls = 2
SPECIFICATION Spec
INVARIANTS TypeOK HeardBesides CallsDelivered RequestsUnderstood
