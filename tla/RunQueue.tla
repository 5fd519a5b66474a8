------------------------------ MODULE RunQueue ------------------------------
(* What the thread package promises: cooperative round-robin.  Tasks are the *)
(* client (the code that calls rpi_thread_start) and numbered threads.       *)
EXTENDS Integers, Sequences

CONSTANTS MaxThreads    \* bound on forks

VARIABLES queue,      \* tasks waiting for the processor, first come first served
          running,    \* the task that has it
          forked,     \* number of threads created
          inStart     \* the client waits in rpi_thread_start

Client == -1
rvars == <<queue, running, forked, inStart>>

Init == queue = <<>> /\ running = Client /\ forked = 0 /\ inStart = FALSE

Fork ==
    /\ forked < MaxThreads
    /\ queue' = Append(queue, forked)
    /\ forked' = forked + 1
    /\ UNCHANGED <<running, inStart>>

\* The client gives the processor away until every thread is done.
Start ==
    /\ running = Client /\ queue # <<>>
    /\ running' = Head(queue)
    /\ queue' = Tail(queue)
    /\ inStart' = TRUE
    /\ UNCHANGED forked

Yield ==
    /\ queue # <<>>
    /\ running' = Head(queue)
    /\ queue' = Append(Tail(queue), running)
    /\ UNCHANGED <<forked, inStart>>

\* The last thread to exit lets rpi_thread_start return.
Exit ==
    /\ running # Client
    /\ IF queue = <<>>
       THEN running' = Client /\ inStart' = FALSE /\ UNCHANGED queue
       ELSE running' = Head(queue) /\ queue' = Tail(queue) /\ UNCHANGED inStart
    /\ UNCHANGED forked

Next == Fork \/ Start \/ Yield \/ Exit

Spec == Init /\ [][Next]_rvars
=============================================================================
