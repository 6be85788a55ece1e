SPECIFICATION FairSpec
CONSTANTS
  main = main
  t1 = t1
  t2 = t2
  t3 = t3
  Tasks <- ThreeTasks
  Owners <- MainOnly
  Commands <- Drained
INVARIANTS PollersAccounted StopIsFinal
PROPERTIES PollsWhenStarted FallsSilent
CONSTRAINT TwoGivenUp
