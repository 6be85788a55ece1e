\* The wallet client's three tasks, the relay and SNTP.
SPECIFICATION FairSpec
CONSTANTS
  p = p
  q = q
  Payments <- MCPayments
  QueueCapacity = 1
  RingSize = 2
  MaxExchanges = 1
  Encryptions <- Both
  Clocks <- NotSet
INVARIANTS TypeOK NoticeKept
PROPERTIES AnnouncesOnce BalanceCatchesUp
CONSTRAINT Bounds
