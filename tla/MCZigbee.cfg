SPECIFICATION FairRadioSpec
CONSTANTS
  n1 = n1
  n2 = n2
  Nodes = {n1, n2}
  Master = master
  Default = default
  Chain <- MCChain
  Pollers = {task}
  ReplyMax = 1
INVARIANTS
  TypeOK
PROPERTIES
  DestinationSet
  PollEnds
  SlavesReached
