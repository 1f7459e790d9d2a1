CONSTANTS
    Workers = {w1, w2}
    Producer = producer
    QueueSize = 1
    MaxTasks = 4
    MaxStarts = 2
SPECIFICATION FairSpec
INVARIANTS
    NoLostWakeup
    TasksSettled
PROPERTIES
    StoredTasksRun
CHECK_DEADLOCK FALSE
