SPECIFICATION FairSpec
CONSTANTS
  main = main
  starter = starter
  Others = {o1, o2, o3, o4}
INVARIANTS
  TypeOK
  NeverKilledBySignal
PROPERTIES
  AnswerIsSeen
  BootGoesOn
