SPECIFICATION MCSpec
CONSTANTS
    Deliveries = {d1, d2}
    Workers = {w1, w2}
    BatchSize = 2
    StepTime = 1
    Lease = 3
    RetrySchedule <- Retries
    None = None
    MaxCrashes = 1
    u1 = u1
    v1 = v1
    MaxTries = 3
    MaxChanges = 1
INVARIANTS NoSharedDelivery SendsAccounted
PROPERTIES EveryDeliveryFinishes EveryRowFinishes
