SPECIFICATION RecoverySpec
CONSTANTS
  MaxFaults = 1
  MaxJobs = 2
  QueueName = {"default", "email", "bulk"}
  JobType = {"process", "unknown"}
  Registered = {"process"}
  BatchLimit = 1
  StaleLimit = 2
  MaxRetryCount = 1
  queues <- TwoQueues
  MaxCopies = 1
  Worker = {w1}
  Instance = {i1}
  Client = {c1}
  Endpoint = {"create", "retry"}
  Request <- ImmediateRequests
 
PROPERTIES NoStuckRunning ImmediateDelivered
CHECK_DEADLOCK FALSE
