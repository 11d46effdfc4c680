CONSTANTS
  alice = alice
  bob = bob
  carol = carol
  dave = dave
  erin = erin
  Callers = {c1, c2, c3}
  Consumers <- SomeCapped
  Cap <- ThreeCaps
  GlobalCap = 4
  MaxConsumers = 2
  MaxCost = 2
  None = None
SPECIFICATION Spec
SYMMETRY CallerSymmetry
INVARIANTS TypeOK SpendingKept TrackedBounded OvershootBounded
