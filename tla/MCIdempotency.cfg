\* Three requests with one key and one with another.
SPECIFICATION FairSpec
\* Handlers return: a behaviour may end.
CHECK_DEADLOCK FALSE
CONSTANTS
  r1 = r1
  r2 = r2
  r3 = r3
  q1 = q1
  k1 = k1
  k2 = k2
  Requests <- MCRequests
  Keys <- MCKeys
  KeyOf <- MCKeyOf
  NoEntry = NoEntry
INVARIANTS
  TypeOK
  SingleFlight
  SharedOutcome
PROPERTIES
  RequestsEnd
