\* Three entries and four callsigns, one's own neither first nor last in the alphabet:
\* every station but one's own can be evicted and come back.  The least callsign is the
\* empty one, which an entry never used holds as well.
SPECIFICATION Spec
CONSTANTS
  Size = 3
  Callsigns = {0, 1, 2, 3}
  Self = 2
  NoCall = 0
  Deltas = {0, 1}
  MaxTime = 2
INVARIANTS TypeOK CallsignsDistinct ListComplete
PROPERTIES SortSorts ImplementsMap
