------------------------------- MODULE Threads -------------------------------
(* pi-side/kernel/rpi-thread.c with the queue of Q.h: thread blocks linked   *)
(* through their next fields, a run queue, a cache of free blocks, and the   *)
(* context switch.  ctx says whose execution the saved stack of a block      *)
(* holds (None after rpi_exit has cleared the block).                        *)
(* Operators whose names begin with M and a capital are faulty variants of   *)
(* the definition that follows them: they test the properties.               *)
EXTENDS Integers, Sequences, FiniteSets

CONSTANTS
    MaxThreads,    \* bound on forks
    MaxStarts      \* bound on calls of rpi_thread_start

ASSUME BoundAssumption == MaxThreads \in Nat /\ MaxStarts \in Nat

VARIABLES
    next,                 \* t->next
    ctx,                  \* what the block's saved stack will resume
    runq, freeq,          \* [head, tail]
    cur_thread, scheduler_thread,
    nthreads,             \* tids given out
    nblocks,              \* blocks taken from kmalloc
    executing,            \* the task whose code runs
    starts,               \* calls of rpi_thread_start so far
    inStart               \* the client is inside rpi_thread_start

vars == <<next, ctx, runq, freeq, cur_thread, scheduler_thread, nthreads, nblocks,
          executing, starts, inStart>>

NULL   == 0
Blocks == 1 .. MaxThreads + MaxStarts
Client == -1
None   == -2
Tasks  == {Client} \cup (0 .. MaxThreads - 1)
EmptyQ == [head |-> NULL, tail |-> NULL]
-----------------------------------------------------------------------------
(* Q.h *)

MPopKeepTail(q, nx) == [head |-> nx[q.head], tail |-> q.tail]
PopRest(q, nx) == [head |-> nx[q.head],
                   tail |-> IF nx[q.head] = NULL THEN NULL ELSE q.tail]

Q_pop(q, nx) == IF q.head = NULL THEN q ELSE PopRest(q, nx)

MPush(q, e) == IF q.tail = NULL THEN [head |-> e, tail |-> e] ELSE [q EXCEPT !.head = e]
Q_append(q, e) == IF q.tail = NULL THEN [head |-> e, tail |-> e]
                  ELSE [q EXCEPT !.tail = e]

\* The links after Q_append(q, e).
Linked(q, nx, e) == [b \in Blocks |->
                       IF b = e THEN NULL
                       ELSE IF b = q.tail THEN e ELSE nx[b]]
-----------------------------------------------------------------------------
(* rpi-thread.c *)

\* mk_thread: the block it returns, and its effect.
NewBlock == IF freeq.head # NULL THEN freeq.head ELSE nblocks + 1

mk_thread ==
    /\ freeq' = Q_pop(freeq, next)
    /\ nblocks' = IF freeq.head # NULL THEN nblocks ELSE nblocks + 1

\* rpi_cswitch: save the running task in block from, resume what block to holds.
MCswitchNoSave(from, to) == /\ executing' = ctx[to]
                            /\ UNCHANGED ctx
rpi_cswitch(from, to) ==
    /\ executing' = ctx[to]
    /\ ctx' = [ctx EXCEPT ![from] = executing]

rpi_fork ==
    /\ nthreads < MaxThreads
    /\ mk_thread
    /\ nthreads' = nthreads + 1
    /\ ctx' = [ctx EXCEPT ![NewBlock] = nthreads]
    /\ next' = Linked(runq, next, NewBlock)
    /\ runq' = Q_append(runq, NewBlock)
    /\ UNCHANGED <<cur_thread, scheduler_thread, executing, starts, inStart>>

\* Only the client starts the threads.  With an empty run queue the call
\* returns at once, but what Q_pop answered has become the current thread.
StartEmpty ==
    /\ executing = Client /\ runq.head = NULL
    /\ cur_thread' = NULL
    /\ UNCHANGED <<next, ctx, runq, freeq, scheduler_thread, nthreads, nblocks,
                   executing, starts, inStart>>

rpi_thread_start ==
    /\ executing = Client /\ starts < MaxStarts
    /\ runq.head # NULL
    /\ mk_thread
    /\ cur_thread' = runq.head
    /\ runq' = Q_pop(runq, next)
    /\ scheduler_thread' = NewBlock
    /\ rpi_cswitch(NewBlock, runq.head)
    /\ starts' = starts + 1 /\ inStart' = TRUE
    /\ UNCHANGED <<next, nthreads>>

\* With an empty run queue rpi_yield returns at once.  A client that has no
\* block (cur_thread is NULL) must not yield: Q_append would write through NULL.
rpi_yield ==
    /\ cur_thread # NULL /\ runq.head # NULL
    /\ cur_thread' = runq.head
    /\ next' = Linked(Q_pop(runq, next), next, cur_thread)
    /\ runq' = Q_append(Q_pop(runq, next), cur_thread)
    /\ rpi_cswitch(cur_thread, runq.head)
    /\ UNCHANGED <<freeq, scheduler_thread, nthreads, nblocks, starts, inStart>>

\* The block is cleared and cached, and its stack is abandoned; the next
\* thread runs, or else the scheduler's block is resumed.
Successor == IF runq.head # NULL THEN runq.head ELSE scheduler_thread

rpi_exit ==
    /\ executing # Client
    /\ next' = Linked(freeq, next, cur_thread)
    /\ freeq' = Q_append(freeq, cur_thread)
    /\ cur_thread' = Successor
    /\ runq' = Q_pop(runq, next)
    /\ executing' = ctx[Successor]
    /\ ctx' = [ctx EXCEPT ![cur_thread] = None]
    /\ inStart' = (inStart /\ ctx[Successor] # Client)
    /\ UNCHANGED <<scheduler_thread, nthreads, nblocks, starts>>

Init ==
    /\ next = [b \in Blocks |-> NULL] /\ ctx = [b \in Blocks |-> None]
    /\ runq = EmptyQ /\ freeq = EmptyQ
    /\ cur_thread = NULL /\ scheduler_thread = NULL
    /\ nthreads = 0 /\ nblocks = 0
    /\ executing = Client /\ starts = 0 /\ inStart = FALSE

Next == rpi_fork \/ StartEmpty \/ rpi_thread_start \/ rpi_yield \/ rpi_exit

Spec == Init /\ [][Next]_vars

\* Threads are cooperative: each one that runs yields or exits in the end.
FairSpec == Spec /\ WF_vars((rpi_yield \/ rpi_exit) /\ executing # Client)
-----------------------------------------------------------------------------
(* Properties *)

\* The blocks of a queue, in order: follow next from the head, at most as
\* many steps as there are blocks.
Nth(q, nx) == LET f[n \in 0 .. MaxThreads + MaxStarts] ==
                      IF n = 0 THEN q.head
                      ELSE IF f[n - 1] = NULL THEN NULL ELSE nx[f[n - 1]]
              IN  f
Size(q, nx) == Cardinality({n \in 0 .. MaxThreads + MaxStarts : Nth(q, nx)[n] # NULL})
Chain(q, nx) == [i \in 1 .. Size(q, nx) |-> Nth(q, nx)[i - 1]]

Items(q) == Chain(q, next)
Elems(q) == {Items(q)[i] : i \in DOMAIN Items(q)}

\* A queue is empty exactly when it has no tail (Q_pop's demand), its tail is
\* its last element, and it is not a cycle.
WellFormed(q) ==
    /\ (q.head = NULL) = (q.tail = NULL)
    /\ Len(Items(q)) <= MaxThreads + MaxStarts
    /\ q.tail # NULL => Items(q)[Len(Items(q))] = q.tail

\* Every variable has its type, and both queues are well formed lists.
TypeOK ==
    /\ next \in [Blocks -> Blocks \cup {NULL}]
    /\ ctx \in [Blocks -> Tasks \cup {None}]
    /\ {runq, freeq} \subseteq [head : Blocks \cup {NULL}, tail : Blocks \cup {NULL}]
    /\ {cur_thread, scheduler_thread} \subseteq Blocks \cup {NULL}
    /\ nthreads \in 0 .. MaxThreads /\ nblocks \in 0 .. MaxThreads + MaxStarts
    /\ executing \in Tasks /\ starts \in 0 .. MaxStarts /\ inStart \in BOOLEAN
    /\ WellFormed(runq) /\ WellFormed(freeq)

\* No block is in two places and none is lost: a cached block is not runnable,
\* the running thread's block is in no queue, every block in the run queue holds
\* a saved execution, each a different one and none of them the running one, and
\* what has been allocated is in use, cached, or was the scheduler's block of
\* some call of rpi_thread_start.
BlocksApart ==
    /\ Elems(runq) \cap Elems(freeq) = {}
    /\ cur_thread \notin Elems(runq) \cup Elems(freeq)
    /\ \A b \in Elems(runq) : ctx[b] \notin {None, executing}
    /\ \A b, c \in Elems(runq) : ctx[b] = ctx[c] => b = c
    /\ nblocks <= Cardinality(Elems(runq)) + Cardinality(Elems(freeq)) + starts
                  + (IF executing # Client THEN 1 ELSE 0)

\* The linked queues and the saved contexts implement round-robin scheduling.
Abstract == INSTANCE RunQueue WITH
                queue <- [i \in DOMAIN Items(runq) |-> ctx[Items(runq)[i]]],
                running <- executing, forked <- nthreads
RoundRobin == Abstract!Spec

\* While rpi_thread_start is in progress, every runnable thread gets the
\* processor, however often the others yield and fork.
Queued(t) == inStart /\ \E b \in Elems(runq) : ctx[b] = t
EveryThreadRuns == \A t \in 0 .. MaxThreads - 1 : Queued(t) ~> executing = t
==============================================================================
