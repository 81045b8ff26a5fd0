SPECIFICATION RuntimeSpec
CONSTANTS
  Request = {q1}
  Worker = {w1}
  NoWorker = NoWorker
  Attempts = 3
  Concurrency = 1
  MaxJobs = 2
  MaxFaults = 1
  Deadline = 1
  NoTimer = NoTimer
INVARIANTS RuntimeTypeOK OutcomesHonest RepeatedOnlyAfterFault
PROPERTIES KeepsPromise CleanExitAnswersAll RequestsAnswered JobsFinish ShutdownEnds
\* Once every process started in the instance has ended and its jobs are done.
CHECK_DEADLOCK FALSE
