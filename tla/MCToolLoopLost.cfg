CONSTANTS
  Words = {word}
  Args = {none}
  Broken = Broken
  NoArgs = none
  Pictures = {web, plain}
  Plain = {plain}
  Served <- SameDialect
  MaxRequests = 2
  MaxCalls = 1
SPECIFICATION Spec
INVARIANT HeardIsSaid
