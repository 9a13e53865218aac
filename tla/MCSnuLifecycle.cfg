SPECIFICATION FairSpec
CONSTANTS
  w1 = w1
  w2 = w2
  s1 = s1
  Commands = {w1, s1}
  Ask <- AskOf
  MaxBrokers = 2
  MaxLinks = 3
INVARIANTS LifecycleTypeOK AtMostOneLate
PROPERTIES IdleOutUnserved EveryoneEnds
CHECK_DEADLOCK FALSE
