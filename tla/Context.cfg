SPECIFICATION MCSpec
CONSTANTS
  t1 = t1
  t2 = t2
  c1 = c1
  c2 = c2
  Threads = {t1, t2}
  Coroutines = {c1, c2}
  Schedulers = {c1, c2}
  Backend = "iocp"
  BufferSize <- OneAndTwo
  MaxCalls = 1
  Nil = Nil
  Note = Note
INVARIANTS
  TypeOK
  StopNeverForgotten
  EntriesSuspended
  LoopForgetsNobody
PROPERTIES
  StopEndsRun
  LoopResumesQueued
CHECK_DEADLOCK FALSE
