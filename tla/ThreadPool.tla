----------------------------- MODULE ThreadPool -----------------------------
(***************************************************************************)
(* sys::thread_pool (src/sys2/thread_pool.hpp).  A worker tests            *)
(* m_shutdown, takes m_conditional_mutex, tests the queue and waits on the *)
(* condition variable without a predicate.  submit() and shutdown() change *)
(* what the worker tested without holding m_conditional_mutex, so each of  *)
(* their statements is a step that may fall between the worker's test and  *)
(* its wait.                                                               *)
(***************************************************************************)
EXTENDS Integers, Sequences, FiniteSets

CONSTANTS Workers,  \* the threads of m_threads
          Tasks     \* the functions submitted, each by a thread of its own

None == "none"

ASSUME NoneAssumption == None \notin Tasks \union Workers

VARIABLES
    shutdown,   \* m_shutdown
    queue,      \* m_queue
    mutex,      \* the worker that holds m_conditional_mutex, or None
    pc,         \* pc[w]: where worker w is
    held,       \* held[w]: the task in w's local func, or None
    submitter,  \* submitter[t]: where the submit() of t is
    closer,     \* where the thread that calls shutdown() is
    enqueued,   \* history: the tasks in the order they were enqueued
    finished    \* history: finished[t]: how often t was run to the end

vars == <<shutdown, queue, mutex, pc, held, submitter, closer, enqueued, finished>>

WorkerPCs == {"loop", "lock", "test", "wait", "asleep", "woken", "dequeue", "run", "exited"}

Init ==
    /\ shutdown = FALSE
    /\ queue = <<>>
    /\ mutex = None
    /\ pc = [w \in Workers |-> "loop"]
    /\ held = [w \in Workers |-> None]
    /\ submitter = [t \in Tasks |-> "start"]
    /\ closer = "start"
    /\ enqueued = <<>>
    /\ finished = [t \in Tasks |-> 0]

Goto(w, l) == pc' = [pc EXCEPT ![w] = l]

-----------------------------------------------------------------------------
(* thread_worker::operator()                                               *)

\* while (!m_pool->m_shutdown)
WorkerLoop(w) ==
    /\ pc[w] = "loop"
    /\ Goto(w, IF shutdown THEN "exited" ELSE "lock")
    /\ UNCHANGED <<shutdown, queue, mutex, held, submitter, closer, enqueued, finished>>

WorkerLock(w) ==
    /\ pc[w] = "lock"
    /\ mutex = None
    /\ mutex' = w
    /\ Goto(w, "test")
    /\ UNCHANGED <<shutdown, queue, held, submitter, closer, enqueued, finished>>

\* if (m_queue.empty()): the worker has decided to wait but does not wait yet.
WorkerTest(w) ==
    /\ pc[w] = "test"
    /\ Goto(w, IF queue = <<>> THEN "wait" ELSE "dequeue")
    /\ UNCHANGED <<shutdown, queue, mutex, held, submitter, closer, enqueued, finished>>

\* m_conditional_lock.wait(lock): gives the mutex up and sleeps.  pc = "asleep"
\* is the condition variable's wait set.
WorkerWait(w) ==
    /\ pc[w] = "wait"
    /\ mutex' = None
    /\ Goto(w, "asleep")
    /\ UNCHANGED <<shutdown, queue, held, submitter, closer, enqueued, finished>>

Asleep == {w \in Workers : pc[w] = "asleep"}

\* A condition variable may wake a thread without being notified.
SpuriousWakeup(w) ==
    /\ w \in Asleep
    /\ Goto(w, "woken")
    /\ UNCHANGED <<shutdown, queue, mutex, held, submitter, closer, enqueued, finished>>

WorkerRelock(w) ==
    /\ pc[w] = "woken"
    /\ mutex = None
    /\ mutex' = w
    /\ Goto(w, "dequeue")
    /\ UNCHANGED <<shutdown, queue, held, submitter, closer, enqueued, finished>>

\* safe_queue::dequeue: front() and pop().  The variants named _M are wrong on
\* purpose, for the mutation runs.
Front == Head(queue)

Rest_M1 == queue
Rest_M2 == SubSeq(queue, 1, Len(queue) - 1)
Rest == Tail(queue)

\* m_queue.dequeue(func), and the end of the locked block.  The queue may be
\* empty here: another worker took the task, or the wakeup was spurious.
WorkerDequeue(w) ==
    /\ pc[w] = "dequeue"
    /\ mutex' = None
    /\ IF queue = <<>>
         THEN /\ Goto(w, "loop")
              /\ UNCHANGED <<queue, held>>
         ELSE /\ queue' = Rest
              /\ held' = [held EXCEPT ![w] = Front]
              /\ Goto(w, "run")
    /\ UNCHANGED <<shutdown, submitter, closer, enqueued, finished>>

\* func()
WorkerRun(w) ==
    /\ pc[w] = "run"
    /\ finished' = [finished EXCEPT ![held[w]] = @ + 1]
    /\ held' = [held EXCEPT ![w] = None]
    /\ Goto(w, "loop")
    /\ UNCHANGED <<shutdown, queue, mutex, submitter, closer, enqueued>>

-----------------------------------------------------------------------------
(* submit() and shutdown()                                                 *)

SubmitEnqueue(t) ==
    /\ submitter[t] = "start"
    /\ queue' = Append(queue, t)
    /\ enqueued' = Append(enqueued, t)
    /\ submitter' = [submitter EXCEPT ![t] = "notify"]
    /\ UNCHANGED <<shutdown, mutex, pc, held, closer, finished>>

\* m_conditional_lock.notify_one(): one of the threads asleep now, if any.
SubmitNotify(t) ==
    /\ submitter[t] = "notify"
    /\ submitter' = [submitter EXCEPT ![t] = "done"]
    /\ \/ \E w \in Asleep : Goto(w, "woken")
       \/ Asleep = {} /\ UNCHANGED pc
    /\ UNCHANGED <<shutdown, queue, mutex, held, closer, enqueued, finished>>

ShutdownFlag ==
    /\ closer = "start"
    /\ shutdown' = TRUE
    /\ closer' = "notify"
    /\ UNCHANGED <<queue, mutex, pc, held, submitter, enqueued, finished>>

\* m_conditional_lock.notify_all()
ShutdownNotify ==
    /\ closer = "notify"
    /\ closer' = "join"
    /\ pc' = [w \in Workers |-> IF w \in Asleep THEN "woken" ELSE pc[w]]
    /\ UNCHANGED <<shutdown, queue, mutex, held, submitter, enqueued, finished>>

\* join() on every thread returns when all have left operator().
Joinable_M == \E w \in Workers : pc[w] = "exited"
Joinable == \A w \in Workers : pc[w] = "exited"

ShutdownJoin ==
    /\ closer = "join"
    /\ Joinable
    /\ closer' = "returned"
    /\ UNCHANGED <<shutdown, queue, mutex, pc, held, submitter, enqueued, finished>>

WorkerStep(w) ==
    \/ WorkerLoop(w) \/ WorkerTest(w) \/ WorkerWait(w)
    \/ WorkerDequeue(w) \/ WorkerRun(w)
AcquireStep(w) == WorkerLock(w) \/ WorkerRelock(w)

Next ==
    \/ \E w \in Workers : WorkerStep(w) \/ AcquireStep(w) \/ SpuriousWakeup(w)
    \/ \E t \in Tasks : SubmitEnqueue(t) \/ SubmitNotify(t)
    \/ ShutdownFlag \/ ShutdownNotify \/ ShutdownJoin

Spec == Init /\ [][Next]_vars

\* Threads run, the mutex is granted to whoever keeps asking for it, tasks end;
\* nobody is obliged to call submit() or shutdown(), and no spurious wakeup is
\* promised.
FairSpec ==
    /\ Spec
    /\ \A w \in Workers : WF_vars(WorkerStep(w)) /\ SF_vars(AcquireStep(w))
    /\ \A t \in Tasks : WF_vars(SubmitNotify(t))
    /\ WF_vars(ShutdownNotify \/ ShutdownJoin)

-----------------------------------------------------------------------------
\* The members of thread_pool keep their types: only submitted functions are queued.
TypeOK ==
    /\ shutdown \in BOOLEAN
    /\ queue \in Seq(Tasks)
    /\ mutex \in Workers \union {None}
    /\ pc \in [Workers -> WorkerPCs]
    /\ held \in [Workers -> Tasks \union {None}]
    /\ submitter \in [Tasks -> {"start", "notify", "done"}]
    /\ closer \in {"start", "notify", "join", "returned"}
    /\ enqueued \in Seq(Tasks)
    /\ finished \in [Tasks -> Nat]

\* The number of places an enqueued task is in: queued, in a worker's hands, or
\* run.  It is always exactly one, so no task is lost, run twice, or run by two
\* workers, however the workers race for it.
Places(t) ==
    Cardinality({i \in DOMAIN queue : queue[i] = t})
      + Cardinality({w \in Workers : held[w] = t}) + finished[t]
TaskInOnePlace ==
    \A t \in Tasks : Places(t) = IF submitter[t] = "start" THEN 0 ELSE 1

\* The queue hands tasks out in the order they were enqueued: what is still
\* queued is always the end of that order.
QueueIsRestOfEnqueued ==
    \A i \in DOMAIN queue : queue[i] = enqueued[Len(enqueued) - Len(queue) + i]

\* When shutdown() has returned no worker is running a task or ever will be.
NothingRunsAfterShutdown ==
    closer = "returned" => \A w \in Workers : pc[w] = "exited" /\ held[w] = None

\* "Submit a function to be executed asynchronously by the pool": a task that was
\* submitted is executed, unless the pool is shut down.
SubmittedTaskRuns ==
    \A t \in Tasks : submitter[t] = "done" ~> (finished[t] = 1 \/ shutdown)

\* "Waits until threads finish their current task and shutdowns the pool": since
\* every task ends, shutdown() returns.
ShutdownReturns == closer = "notify" ~> closer = "returned"
=============================================================================
