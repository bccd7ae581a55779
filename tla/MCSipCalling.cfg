\* The calls are finite in number: everything may be over.
CONSTANTS
  o1 = o1
  o2 = o2
  Outgoing = {o1, o2}
  i1 = i1
  i2 = i2
  Incoming = {i1, i2}
  NoCall = NoCall
  Networks <- MCNetworks
SPECIFICATION FairSpec
INVARIANTS
  MediaFollowsCall
  DialogsAgree
PROPERTIES
  CallsEndForCause
  AttemptsEnd
CHECK_DEADLOCK FALSE
