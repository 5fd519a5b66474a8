\* Four forks and two calls of rpi_thread_start: blocks are reused, queues
\* empty and fill again, and the client takes part as a task.
CONSTANTS
    MaxThreads = 4
    MaxStarts = 2
SPECIFICATION FairSpec
INVARIANTS TypeOK BlocksApart
PROPERTIES RoundRobin EveryThreadRuns
CHECK_DEADLOCK FALSE
