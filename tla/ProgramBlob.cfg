\* Programs that await: the loop reads back something else.
CONSTANTS
  SerBeyond = {"await"}
  SerMaxCount = 4
SPECIFICATION SerSpec
CHECK_DEADLOCK FALSE
INVARIANT RoundTrips
