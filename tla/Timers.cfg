SPECIFICATION FairSpec
CONSTANTS
  t1 = t1
  t2 = t2
  Timer = {t1, t2}
  Kinds <- Both
  Bucket = {b1}
  None = None
  Delays = {0, 1, 2}
  MaxGen = 2
  Horizon = 3
  MaxHeap = 10
  HeapTimes = {0, 1, 2}
INVARIANTS NoDeadlineMissed FiresOnceOrIsStopped DeliveriesAreSound
PROPERTIES EveryTimerFires
CHECK_DEADLOCK FALSE
