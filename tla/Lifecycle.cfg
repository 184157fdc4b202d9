\* Two slots, two lifecycle operations after one another, one manual request,
\* two failed writes and a crash.
SPECIFICATION Spec
CONSTANTS
  Slot = {s1, s2}
  NoSlot = NoSlot
  Worker = {w1, w2}
  MaxOps = 2
  MaxManual = 1
  MaxFailures = 2
  MaxCrashes = 1
SYMMETRY Symmetry
INVARIANTS TypeOK OneRoundAtATime QuietWhenQuiesced NoStaleJob
PROPERTIES ImplementsLedger
CHECK_DEADLOCK FALSE
