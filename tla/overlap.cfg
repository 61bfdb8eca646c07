SPECIFICATION Spec
CONSTANTS
  MaxFaults = 3
  MaxJobs = 1
  QueueName = {"default", "email"}
  JobType = {"process", "unknown"}
  Registered = {"process"}
  BatchLimit = 2
  StaleLimit = 2
  MaxRetryCount = 2
  queues <- TwoQueues
  MaxCopies = 2
  Worker = {w1, w2}
  Instance = {i1, i2}
  Client = {c1}
  Endpoint = {"create", "cancel", "retry", "delete"}
  Request <- MixedRequests
SYMMETRY Symmetry
INVARIANTS TypeOK Custody SingleCustody RetryBudget AttemptLeft NeverEarly
PROPERTIES DeliveryKept
CHECK_DEADLOCK FALSE
