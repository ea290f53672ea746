SPECIFICATION FairSpec
CONSTANTS
  WaitN = 3
  Args <- MCArgs
  Absent = 1000
  StopSignals = {19, 20}
  KillSignals = {3, 9}
  Creators = {c1, c2}
  Writers = {w1}
  Readers = {r1}
  Unlinkers = {u1}
  len = 2
  CreateSize = 5
  Page = 4
  Specs <- MCSpecs
  Clocks <- MCClocks
  MaxLoops = {0, 1, 3}
  IntMax = 3
  MaxExpired = 6
  Length = 11
  Garbage = {0, 7}
  Failing = {"fork", "wait", "waitpid", "sigprocmask", "sigaction", "on_exit", "atexit",
             "shm_open", "ftruncate", "fstat", "mmap", "close", "shm_unlink",
             "timerfd_create", "timerfd_settime", "clock_gettime", "read",
             "pthread_create", "pthread_cancel", "pthread_join"}
INVARIANTS Handshake ExitHandlers NoFault ReadsWhatWasWritten Parsed PrintsRight Results
PROPERTIES Implements Reports Terminates
