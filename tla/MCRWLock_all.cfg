\* Three threads, room for two waiting writers: the ring wraps and overflows.
CONSTANTS
  w1 = w1
  w2 = w2
  w3 = w3
  NoThread = NoThread
  Threads = {w1, w2, w3}
  RingSize = 3
SPECIFICATION VersionsSpec
INVARIANTS TypeOK MutualExclusion RingHoldsWaiters NoLostWakeup EarlierLockSound
PROPERTIES ImplementsPromise WaitersProgress
