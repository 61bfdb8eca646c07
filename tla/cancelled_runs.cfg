SPECIFICATION Spec
CONSTANTS
  MaxFaults = 0
  MaxJobs = 1
  QueueName = {"default"}
  JobType = {"process"}
  Registered = {"process"}
  BatchLimit = 2
  StaleLimit = 2
  MaxRetryCount = 2
  queues <- OneQueue
  MaxCopies = 1
  Worker = {w1}
  Instance = {i1}
  Client = {c1}
  Endpoint = {"create", "cancel", "retry", "delete"}
  Request <- BasicRequests
PROPERTIES CancelledNeverRuns
CHECK_DEADLOCK FALSE
