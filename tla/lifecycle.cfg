SPECIFICATION FairLifecycle
CONSTANTS
  NoThread = NoThread
  NoReference = NoReference
  Threads = {t1, t2}
  References = {r1, r2, r3}
  Together <- Pipeline
  AfterShutdown <- ShutdownIsFinal
  EventCalls = {"queue", "get"}
  Memory <- LuckyMemory
INVARIANTS TypeOK ContextUndisturbed EventQueueAlive DestroyedLast
PROPERTIES LockFreed NoLeak
CHECK_DEADLOCK FALSE
