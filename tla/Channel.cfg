\* A full pipe with a sender blocked behind it and two messages that could be
\* swapped is in reach; no symmetry, because of the liveness property.
CONSTANTS
  Callers = {c1, c2}
  Values = {m1, m2}
  Capacity = 2
  MaxSent = 4
SPECIFICATION FairSpec
INVARIANTS
  EndOfStream
PROPERTY ImplementsLog
PROPERTY Released
