-------------------------- MODULE ThreadPoolProofs --------------------------
(***************************************************************************)
(* For any number of workers and tasks: the workers of sys::thread_pool    *)
(* share the tasks out without losing or doubling one, in the order they   *)
(* were submitted, and none runs after shutdown() has returned.            *)
(***************************************************************************)
EXTENDS ThreadPool, FiniteSetTheorems, TLAPS

\* The worker's local func holds a task exactly while it is run, and join() has seen
\* every worker leave.
WorkerState ==
    /\ \A w \in Workers : held[w] # None <=> pc[w] = "run"
    /\ closer = "returned" => \A w \in Workers : pc[w] = "exited"

Inv == TypeOK /\ WorkerState

\* No worker runs and nothing is queued initially.
LEMMA InitInv == Init => Inv
<1> SUFFICES ASSUME Init PROVE Inv
  OBVIOUS
<1>1. TypeOK
  <2>1. pc \in [Workers -> WorkerPCs] /\ held \in [Workers -> Tasks \union {None}]
    BY DEF Init, WorkerPCs
  <2>2. submitter \in [Tasks -> {"start", "notify", "done"}] /\ finished \in [Tasks -> Nat]
    BY DEF Init
  <2>3. queue \in Seq(Tasks) /\ enqueued \in Seq(Tasks)
    BY DEF Init
  <2>4. shutdown \in BOOLEAN /\ mutex \in Workers \union {None} /\ closer \in {"start", "notify", "join", "returned"}
    BY DEF Init
  <2>5. QED
    BY <2>1, <2>2, <2>3, <2>4 DEF TypeOK
<1>2. WorkerState
  BY DEF Init, WorkerState
<1>3. QED
  BY <1>1, <1>2 DEF Inv

\* A worker that neither takes a task nor ends one moves from one place to another.
LEMMA MoveInv ==
    ASSUME Inv, NEW w \in Workers, NEW l \in WorkerPCs \ {"run"},
           pc[w] # "run", pc[w] # "exited", pc' = [pc EXCEPT ![w] = l],
           UNCHANGED <<held, closer>>
    PROVE  WorkerState' /\ pc' \in [Workers -> WorkerPCs]
  <1>1. pc \in [Workers -> WorkerPCs]
    BY DEF Inv, TypeOK
  <1>2. pc' \in [Workers -> WorkerPCs] /\ \A v \in Workers : pc'[v] = IF v = w THEN l ELSE pc[v]
    BY <1>1
  <1>3. closer # "returned"
    BY DEF Inv, WorkerState
  <1>4. QED
    BY <1>2, <1>3 DEF Inv, WorkerState

\* The worker's own steps.
LEMMA WorkerInv ==
    ASSUME Inv, NEW w \in Workers, WorkerStep(w) \/ AcquireStep(w) \/ SpuriousWakeup(w)
    PROVE  Inv'
  <1>0. /\ pc \in [Workers -> WorkerPCs] /\ held \in [Workers -> Tasks \union {None}]
        /\ queue \in Seq(Tasks) /\ finished \in [Tasks -> Nat]
    BY DEF Inv, TypeOK
  <1>1. CASE WorkerLoop(w)
    <2>1. PICK l \in {"exited", "lock"} : pc' = [pc EXCEPT ![w] = l]
      BY <1>1 DEF WorkerLoop, Goto
    <2>2. WorkerState' /\ pc' \in [Workers -> WorkerPCs]
      BY <1>1, <2>1, MoveInv DEF WorkerLoop, WorkerPCs
    <2>3. QED
      BY <1>1, <2>2 DEF Inv, TypeOK, WorkerLoop
  <1>2. CASE WorkerLock(w)
    <2>1. WorkerState' /\ pc' \in [Workers -> WorkerPCs]
      BY <1>2, MoveInv DEF WorkerLock, Goto, WorkerPCs
    <2>2. QED
      BY <1>2, <2>1 DEF Inv, TypeOK, WorkerLock
  <1>3. CASE WorkerTest(w)
    <2>1. PICK l \in {"wait", "dequeue"} : pc' = [pc EXCEPT ![w] = l]
      BY <1>3 DEF WorkerTest, Goto
    <2>2. WorkerState' /\ pc' \in [Workers -> WorkerPCs]
      BY <1>3, <2>1, MoveInv DEF WorkerTest, WorkerPCs
    <2>3. QED
      BY <1>3, <2>2 DEF Inv, TypeOK, WorkerTest
  <1>4. CASE WorkerWait(w)
    <2>1. WorkerState' /\ pc' \in [Workers -> WorkerPCs]
      BY <1>4, MoveInv DEF WorkerWait, Goto, WorkerPCs
    <2>2. QED
      BY <1>4, <2>1 DEF Inv, TypeOK, WorkerWait
  <1>5. CASE SpuriousWakeup(w)
    <2>1. WorkerState' /\ pc' \in [Workers -> WorkerPCs]
      BY <1>5, MoveInv DEF SpuriousWakeup, Asleep, Goto, WorkerPCs
    <2>2. QED
      BY <1>5, <2>1 DEF Inv, TypeOK, SpuriousWakeup
  <1>6. CASE WorkerRelock(w)
    <2>1. WorkerState' /\ pc' \in [Workers -> WorkerPCs]
      BY <1>6, MoveInv DEF WorkerRelock, Goto, WorkerPCs
    <2>2. QED
      BY <1>6, <2>1 DEF Inv, TypeOK, WorkerRelock
  <1>7. CASE WorkerDequeue(w) /\ queue = <<>>
    <2>1. WorkerState' /\ pc' \in [Workers -> WorkerPCs]
      BY <1>7, MoveInv DEF WorkerDequeue, Goto, WorkerPCs
    <2>2. QED
      BY <1>7, <2>1 DEF Inv, TypeOK, WorkerDequeue
  <1>8. CASE WorkerDequeue(w) /\ queue # <<>>
    <2>1. /\ pc[w] = "dequeue" /\ pc' = [pc EXCEPT ![w] = "run"] /\ queue' = Tail(queue)
          /\ held' = [held EXCEPT ![w] = Head(queue)] /\ mutex' = None
          /\ UNCHANGED <<shutdown, submitter, closer, enqueued, finished>>
      BY <1>8 DEF WorkerDequeue, Goto, Rest, Front
    <2>2. Head(queue) \in Tasks /\ Head(queue) # None /\ Tail(queue) \in Seq(Tasks)
      BY <1>0, <1>8, NoneAssumption
    <2>3. TypeOK'
      BY <2>1, <2>2 DEF Inv, TypeOK, WorkerPCs
    <2>4. closer # "returned"
      BY <2>1 DEF Inv, WorkerState
    <2>5. \A v \in Workers : /\ pc'[v] = IF v = w THEN "run" ELSE pc[v]
                             /\ held'[v] = IF v = w THEN Head(queue) ELSE held[v]
      BY <1>0, <2>1
    <2>6. WorkerState'
      BY <2>1, <2>2, <2>4, <2>5 DEF Inv, WorkerState
    <2>7. QED
      BY <2>3, <2>6 DEF Inv
  <1>9. CASE WorkerRun(w)
    <2>1. /\ pc[w] = "run" /\ pc' = [pc EXCEPT ![w] = "loop"]
          /\ held' = [held EXCEPT ![w] = None]
          /\ finished' = [finished EXCEPT ![held[w]] = @ + 1]
          /\ UNCHANGED <<shutdown, queue, mutex, submitter, closer, enqueued>>
      BY <1>9 DEF WorkerRun, Goto
    <2>2. held[w] \in Tasks
      BY <1>0, <2>1 DEF Inv, WorkerState
    <2>3. finished' \in [Tasks -> Nat]
      BY <1>0, <2>1, <2>2
    <2>4. TypeOK'
      BY <2>1, <2>3 DEF Inv, TypeOK, WorkerPCs
    <2>5. closer # "returned"
      BY <2>1 DEF Inv, WorkerState
    <2>6. \A v \in Workers : /\ pc'[v] = IF v = w THEN "loop" ELSE pc[v]
                             /\ held'[v] = IF v = w THEN None ELSE held[v]
      BY <1>0, <2>1
    <2>7. WorkerState'
      BY <2>1, <2>5, <2>6 DEF Inv, WorkerState
    <2>8. QED
      BY <2>4, <2>7 DEF Inv
  <1>10. QED
    BY <1>1, <1>2, <1>3, <1>4, <1>5, <1>6, <1>7, <1>8, <1>9 DEF WorkerStep, AcquireStep

\* The callers of submit() and shutdown() preserve the invariant as well.
LEMMA NextInv == Inv /\ [Next]_vars => Inv'
<1> SUFFICES ASSUME Inv, [Next]_vars PROVE Inv'
  OBVIOUS
<1>1. ASSUME NEW w \in Workers, WorkerStep(w) \/ AcquireStep(w) \/ SpuriousWakeup(w)
      PROVE  Inv'
  BY <1>1, WorkerInv
<1>2. ASSUME NEW t \in Tasks, SubmitEnqueue(t) PROVE Inv'
  BY <1>2 DEF SubmitEnqueue, Inv, TypeOK, WorkerState
<1>3. ASSUME NEW t \in Tasks, SubmitNotify(t) PROVE Inv'
  <2>1. submitter' \in [Tasks -> {"start", "notify", "done"}]
    BY <1>3 DEF SubmitNotify, Inv, TypeOK
  <2>2. CASE UNCHANGED pc
    BY <1>3, <2>1, <2>2 DEF SubmitNotify, Inv, TypeOK, WorkerState
  <2>3. CASE \E w \in Asleep : Goto(w, "woken")
    <3>1. PICK w \in Workers : pc[w] = "asleep" /\ pc' = [pc EXCEPT ![w] = "woken"]
      BY <2>3 DEF Asleep, Goto
    <3>2. WorkerState' /\ pc' \in [Workers -> WorkerPCs]
      BY <1>3, <3>1, MoveInv DEF SubmitNotify, WorkerPCs
    <3>3. QED
      BY <1>3, <2>1, <3>2 DEF SubmitNotify, Inv, TypeOK
  <2>4. QED
    BY <1>3, <2>2, <2>3 DEF SubmitNotify
<1>4. CASE ShutdownFlag
  BY <1>4 DEF ShutdownFlag, Inv, TypeOK, WorkerState
<1>5. CASE ShutdownNotify
  <2>1. \A w \in Workers : pc'[w] = IF pc[w] = "asleep" THEN "woken" ELSE pc[w]
    BY <1>5 DEF ShutdownNotify, Asleep
  <2>2. pc' \in [Workers -> WorkerPCs]
    BY <1>5, <2>1 DEF ShutdownNotify, Inv, TypeOK, WorkerPCs
  <2>3. WorkerState'
    BY <1>5, <2>1 DEF ShutdownNotify, Inv, WorkerState
  <2>4. QED
    BY <1>5, <2>2, <2>3 DEF ShutdownNotify, Inv, TypeOK
<1>6. CASE ShutdownJoin
  BY <1>6 DEF ShutdownJoin, Joinable, Inv, TypeOK, WorkerState
<1>7. CASE UNCHANGED vars
  BY <1>7 DEF vars, Inv, TypeOK, WorkerState
<1>8. QED
  BY <1>1, <1>2, <1>3, <1>4, <1>5, <1>6, <1>7 DEF Next

\* Type correctness of the pool: only submitted tasks are queued and held.
THEOREM TypeCorrect == Spec => []TypeOK
  BY InitInv, NextInv, PTL DEF Spec, Inv

\* When shutdown() has returned, every worker has left its loop, holds no task, and
\* never takes one again.
THEOREM NothingRunsAfterShutdownAlways == Spec => []NothingRunsAfterShutdown
<1>1. Inv => NothingRunsAfterShutdown
  BY DEF Inv, WorkerState, NothingRunsAfterShutdown
<1>2. QED
  BY <1>1, InitInv, NextInv, PTL DEF Spec

-----------------------------------------------------------------------------
(* Where the tasks are                                                     *)

Queued(t) == \E i \in DOMAIN queue : queue[i] = t
Held(t) == \E w \in Workers : held[w] = t
Ran(t) == finished[t] = 1

\* No task is twice in the same place.
Once ==
    /\ \A i, j \in DOMAIN queue : queue[i] = queue[j] => i = j
    /\ \A v, w \in Workers : held[v] = held[w] /\ held[v] # None => v = w
    /\ \A t \in Tasks : finished[t] \in {0, 1}
\* No task is in two places.
Apart ==
    \A t \in Tasks : ~(Queued(t) /\ Held(t)) /\ ~(Queued(t) /\ Ran(t)) /\ ~(Held(t) /\ Ran(t))
\* The tasks that are somewhere are those that were enqueued.
Somewhere == \A t \in Tasks : submitter[t] # "start" <=> Queued(t) \/ Held(t) \/ Ran(t)

PlaceInv == Once /\ Apart /\ Somewhere /\ QueueIsRestOfEnqueued /\ Len(queue) <= Len(enqueued)

\* Taking the front out of a queue without repetitions.
LEMMA TailQueued ==
    ASSUME TypeOK, Once, queue # <<>>, queue' = Tail(queue)
    PROVE  /\ \A i, j \in DOMAIN queue' : queue'[i] = queue'[j] => i = j
           /\ \A t : Queued(t)' <=> Queued(t) /\ t # Head(queue)
  <1>1. queue \in Seq(Tasks) /\ Len(queue) \in Nat /\ Len(queue) > 0 /\ Head(queue) = queue[1]
    BY DEF TypeOK
  <1>2. /\ DOMAIN queue = 1..Len(queue) /\ DOMAIN queue' = 1..(Len(queue) - 1)
        /\ \A i \in DOMAIN queue' : queue'[i] = queue[i + 1]
    BY <1>1
  <1>3. \A i \in DOMAIN queue' : i \in Nat /\ i + 1 \in DOMAIN queue /\ i + 1 # 1
    BY <1>1, <1>2
  <1>4. \A i, j \in DOMAIN queue' : queue'[i] = queue'[j] => i = j
    <2> SUFFICES ASSUME NEW i \in DOMAIN queue', NEW j \in DOMAIN queue', queue'[i] = queue'[j]
                 PROVE  i = j
      OBVIOUS
    <2>1. i + 1 = j + 1
      BY <1>2, <1>3 DEF Once
    <2>2. QED
      BY <1>3, <2>1
  <1>5. ASSUME NEW t PROVE Queued(t)' <=> Queued(t) /\ t # Head(queue)
    <2>1. ASSUME NEW i \in DOMAIN queue', queue'[i] = t PROVE Queued(t) /\ t # queue[1]
      <3>1. i + 1 \in DOMAIN queue /\ queue[i + 1] = t /\ 1 \in DOMAIN queue
        BY <1>1, <1>2, <1>3, <2>1
      <3>2. QED
        BY <1>3, <3>1 DEF Queued, Once
    <2>2. ASSUME NEW i \in DOMAIN queue, queue[i] = t, t # queue[1] PROVE Queued(t)'
      <3>1. i - 1 \in DOMAIN queue' /\ (i - 1) + 1 = i
        BY <1>1, <1>2, <2>2
      <3>2. QED
        BY <1>2, <2>2, <3>1 DEF Queued
    <2>3. QED
      BY <1>1, <2>1, <2>2 DEF Queued
  <1>6. QED
    BY <1>4, <1>5

\* WorkerDequeue moves the front from the queue to the worker.
LEMMA DequeuePlace ==
    ASSUME Inv, PlaceInv, NEW w \in Workers, WorkerDequeue(w), queue # <<>>
    PROVE  PlaceInv'
  <1>0. /\ pc \in [Workers -> WorkerPCs] /\ held \in [Workers -> Tasks \union {None}]
        /\ queue \in Seq(Tasks) /\ enqueued \in Seq(Tasks) /\ TypeOK
    BY DEF Inv, TypeOK
  <1>1. /\ queue' = Tail(queue) /\ held' = [held EXCEPT ![w] = Head(queue)]
        /\ UNCHANGED <<submitter, enqueued, finished>>
    BY DEF WorkerDequeue, Rest, Front
  <1>2. held[w] = None
    BY DEF WorkerDequeue, Inv, WorkerState
  <1> DEFINE h == Head(queue)
  <1>3. h \in Tasks /\ h # None /\ Queued(h)
    BY <1>0, NoneAssumption DEF Queued
  <1>4. ~Held(h) /\ ~Ran(h)
    BY <1>3 DEF PlaceInv, Apart
  <1>5. /\ \A i, j \in DOMAIN queue' : queue'[i] = queue'[j] => i = j
        /\ \A t : Queued(t)' <=> Queued(t) /\ t # h
    BY <1>0, <1>1, TailQueued DEF PlaceInv
  <1>6. \A v \in Workers : held'[v] = IF v = w THEN h ELSE held[v]
    BY <1>0, <1>1
  <1> HIDE DEF h
  <1>7. \A t \in Tasks : Held(t)' <=> Held(t) \/ t = h
    BY <1>2, <1>6, NoneAssumption DEF Held
  <1>8. \A t \in Tasks : Ran(t)' <=> Ran(t)
    BY <1>1 DEF Ran
  <1>9. Once'
    BY <1>1, <1>4, <1>5, <1>6 DEF PlaceInv, Once, Held
  <1>10. Apart'
    BY <1>4, <1>5, <1>7, <1>8 DEF PlaceInv, Apart
  <1>11. Somewhere'
    BY <1>1, <1>3, <1>5, <1>7, <1>8 DEF PlaceInv, Somewhere
  <1>12. QueueIsRestOfEnqueued' /\ Len(queue') <= Len(enqueued')
    <2>1. /\ Len(queue) \in Nat /\ Len(enqueued) \in Nat /\ Len(queue') = Len(queue) - 1
          /\ DOMAIN queue = 1..Len(queue) /\ DOMAIN queue' = 1..(Len(queue) - 1)
          /\ \A i \in DOMAIN queue' : queue'[i] = queue[i + 1]
      BY <1>0, <1>1
    <2>2. ASSUME NEW i \in DOMAIN queue'
          PROVE  queue'[i] = enqueued[Len(enqueued) - Len(queue') + i]
      <3>1. i + 1 \in DOMAIN queue
        BY <2>1
      <3>2. queue[i + 1] = enqueued[Len(enqueued) - Len(queue) + (i + 1)]
        BY <3>1 DEF PlaceInv, QueueIsRestOfEnqueued
      <3>3. Len(enqueued) - Len(queue) + (i + 1) = Len(enqueued) - Len(queue') + i
        BY <2>1
      <3>4. QED
        BY <2>1, <3>2, <3>3
    <2>3. QED
      BY <1>1, <2>1, <2>2 DEF PlaceInv, QueueIsRestOfEnqueued
  <1>13. QED
    BY <1>9, <1>10, <1>11, <1>12 DEF PlaceInv

\* WorkerRun ends the task that the worker holds.
LEMMA RunPlace ==
    ASSUME Inv, PlaceInv, NEW w \in Workers, WorkerRun(w)
    PROVE  PlaceInv'
  <1>0. held \in [Workers -> Tasks \union {None}] /\ finished \in [Tasks -> Nat]
    BY DEF Inv, TypeOK
  <1> DEFINE h == held[w]
  <1>1. /\ held' = [held EXCEPT ![w] = None] /\ finished' = [finished EXCEPT ![h] = @ + 1]
        /\ UNCHANGED <<submitter, enqueued, queue>>
    BY DEF WorkerRun
  <1>2. h \in Tasks /\ h # None /\ Held(h)
    BY <1>0 DEF WorkerRun, Inv, WorkerState, Held
  <1>3. ~Queued(h) /\ finished[h] = 0
    BY <1>2 DEF PlaceInv, Apart, Once, Ran
  <1>4. \A v \in Workers : held'[v] = IF v = w THEN None ELSE held[v]
    BY <1>0, <1>1
  <1>5. \A t \in Tasks : finished'[t] = IF t = h THEN 1 ELSE finished[t]
    BY <1>0, <1>1, <1>2, <1>3
  <1>6. \A v \in Workers : held[v] = h => v = w
    BY <1>2 DEF PlaceInv, Once
  <1>7. \A t \in Tasks : Held(t)' <=> Held(t) /\ t # h
    BY <1>4, <1>6, NoneAssumption DEF Held
  <1> HIDE DEF h
  <1>8. \A t \in Tasks : Ran(t)' <=> Ran(t) \/ t = h
    BY <1>5 DEF Ran
  <1>9. \A t \in Tasks : Queued(t)' <=> Queued(t)
    BY <1>1 DEF Queued
  <1>10. Once'
    BY <1>1, <1>4, <1>5 DEF PlaceInv, Once
  <1>11. Apart'
    BY <1>3, <1>7, <1>8, <1>9 DEF PlaceInv, Apart
  <1>12. Somewhere'
    BY <1>1, <1>2, <1>7, <1>8, <1>9 DEF PlaceInv, Somewhere
  <1>13. QED
    BY <1>1, <1>10, <1>11, <1>12 DEF PlaceInv, QueueIsRestOfEnqueued

\* SubmitEnqueue puts a task that was nowhere at the end of the queue.
LEMMA EnqueuePlace ==
    ASSUME Inv, PlaceInv, NEW s \in Tasks, SubmitEnqueue(s)
    PROVE  PlaceInv'
  <1>0. queue \in Seq(Tasks) /\ enqueued \in Seq(Tasks) /\ submitter \in [Tasks -> {"start", "notify", "done"}]
    BY DEF Inv, TypeOK
  <1>1. /\ queue' = Append(queue, s) /\ enqueued' = Append(enqueued, s)
        /\ submitter' = [submitter EXCEPT ![s] = "notify"] /\ submitter[s] = "start"
        /\ UNCHANGED <<held, finished>>
    BY DEF SubmitEnqueue
  <1>2. ~Queued(s) /\ ~Held(s) /\ ~Ran(s)
    BY <1>1 DEF PlaceInv, Somewhere
  <1>3. /\ Len(queue) \in Nat /\ DOMAIN queue = 1..Len(queue)
        /\ Len(queue') = Len(queue) + 1 /\ DOMAIN queue' = 1..(Len(queue) + 1)
        /\ \A i \in DOMAIN queue : queue'[i] = queue[i]
        /\ queue'[Len(queue) + 1] = s
    BY <1>0, <1>1
  <1>4. /\ Len(enqueued) \in Nat /\ Len(enqueued') = Len(enqueued) + 1
        /\ \A i \in 1..Len(enqueued) : enqueued'[i] = enqueued[i]
        /\ enqueued'[Len(enqueued) + 1] = s
    BY <1>0, <1>1
  <1>5. \A t \in Tasks : Queued(t)' <=> Queued(t) \/ t = s
    BY <1>3 DEF Queued
  <1>6. \A t \in Tasks : (Held(t)' <=> Held(t)) /\ (Ran(t)' <=> Ran(t))
    BY <1>1 DEF Held, Ran
  <1>7. \A t \in Tasks : submitter'[t] # "start" <=> submitter[t] # "start" \/ t = s
    BY <1>0, <1>1
  <1>8. Once'
    <2>1. ASSUME NEW i \in DOMAIN queue', NEW j \in DOMAIN queue', queue'[i] = queue'[j]
          PROVE  i = j
      BY <1>2, <1>3, <2>1 DEF PlaceInv, Once, Queued
    <2>2. QED
      BY <1>1, <2>1 DEF PlaceInv, Once
  <1>9. Apart'
    BY <1>2, <1>5, <1>6 DEF PlaceInv, Apart
  <1>10. Somewhere'
    BY <1>5, <1>6, <1>7 DEF PlaceInv, Somewhere
  <1>11. QueueIsRestOfEnqueued'
    <2> SUFFICES ASSUME NEW i \in DOMAIN queue'
                 PROVE  queue'[i] = enqueued'[Len(enqueued') - Len(queue') + i]
      BY DEF QueueIsRestOfEnqueued
    <2>1. Len(enqueued') - Len(queue') + i = Len(enqueued) - Len(queue) + i
      BY <1>3, <1>4
    <2>2. CASE i = Len(queue) + 1
      BY <1>3, <1>4, <2>1, <2>2
    <2>3. CASE i \in DOMAIN queue
      <3>1. Len(enqueued) - Len(queue) + i \in 1..Len(enqueued)
        BY <1>3, <1>4, <2>3 DEF PlaceInv
      <3>2. QED
        BY <1>3, <1>4, <2>1, <2>3, <3>1 DEF PlaceInv, QueueIsRestOfEnqueued
    <2>4. QED
      BY <1>3, <2>2, <2>3
  <1>12. Len(queue') <= Len(enqueued')
    BY <1>3, <1>4 DEF PlaceInv
  <1>13. QED
    BY <1>8, <1>9, <1>10, <1>11, <1>12 DEF PlaceInv

\* Every other step leaves the tasks where they are.
LEMMA NextPlaceInv == Inv /\ PlaceInv /\ [Next]_vars => PlaceInv'
<1> SUFFICES ASSUME Inv, PlaceInv, [Next]_vars PROVE PlaceInv'
  OBVIOUS
<1>1. ASSUME UNCHANGED <<queue, held, enqueued, finished>>,
             \A t \in Tasks : submitter'[t] = "start" <=> submitter[t] = "start"
      PROVE  PlaceInv'
  <2>1. \A t : (Queued(t)' <=> Queued(t)) /\ (Held(t)' <=> Held(t)) /\ (Ran(t)' <=> Ran(t))
    BY <1>1 DEF Queued, Held, Ran
  <2>2. QED
    BY <1>1, <2>1 DEF PlaceInv, Once, Apart, Somewhere, QueueIsRestOfEnqueued
<1>2. ASSUME NEW w \in Workers, WorkerStep(w) \/ AcquireStep(w) \/ SpuriousWakeup(w)
      PROVE  PlaceInv'
  <2>1. CASE WorkerDequeue(w) /\ queue # <<>>
    BY <2>1, DequeuePlace
  <2>2. CASE WorkerRun(w)
    BY <2>2, RunPlace
  <2>3. CASE ~(WorkerDequeue(w) /\ queue # <<>>) /\ ~WorkerRun(w)
    BY <1>1, <1>2, <2>3 DEF WorkerStep, AcquireStep, WorkerLoop, WorkerLock, WorkerTest, WorkerWait,
       WorkerRelock, WorkerDequeue, SpuriousWakeup
  <2>4. QED
    BY <2>1, <2>2, <2>3
<1>3. ASSUME NEW t \in Tasks, SubmitEnqueue(t) PROVE PlaceInv'
  BY <1>3, EnqueuePlace
<1>4. ASSUME NEW t \in Tasks, SubmitNotify(t) PROVE PlaceInv'
  <2>1. submitter \in [Tasks -> {"start", "notify", "done"}]
    BY DEF Inv, TypeOK
  <2>2. QED
    BY <1>1, <1>4, <2>1 DEF SubmitNotify
<1>5. CASE ShutdownFlag \/ ShutdownNotify \/ ShutdownJoin
  BY <1>1, <1>5 DEF ShutdownFlag, ShutdownNotify, ShutdownJoin
<1>6. CASE UNCHANGED vars
  BY <1>1, <1>6 DEF vars
<1>7. QED
  BY <1>2, <1>3, <1>4, <1>5, <1>6 DEF Next

\* Nothing is anywhere initially.
LEMMA InitPlaceInv == Init => PlaceInv
  BY NoneAssumption DEF Init, PlaceInv, Once, Apart, Somewhere, Queued, Held, Ran, QueueIsRestOfEnqueued

\* A set all of whose elements are equal has at most one.
LEMMA AtMostOne ==
    ASSUME NEW S, \A x, y \in S : x = y
    PROVE  Cardinality(S) = IF S = {} THEN 0 ELSE 1
  <1>1. CASE S = {}
    BY <1>1, FS_EmptySet
  <1>2. CASE S # {}
    <2>1. PICK x : S = {x}
      BY <1>2
    <2>2. QED
      BY <1>2, <2>1, FS_Singleton
  <1>3. QED
    BY <1>1, <1>2

\* Counting the places of a task.
LEMMA PlacesCount == Inv /\ PlaceInv => TaskInOnePlace
<1> SUFFICES ASSUME Inv, PlaceInv, NEW t \in Tasks
             PROVE  Places(t) = IF submitter[t] = "start" THEN 0 ELSE 1
  BY DEF TaskInOnePlace
<1> DEFINE Q == {i \in DOMAIN queue : queue[i] = t}
           H == {w \in Workers : held[w] = t}
<1>1. (Q = {} <=> ~Queued(t)) /\ (H = {} <=> ~Held(t))
  BY DEF Queued, Held
<1>2. Cardinality(Q) = IF Queued(t) THEN 1 ELSE 0
  <2>1. \A x, y \in Q : x = y
    BY DEF PlaceInv, Once
  <2> HIDE DEF Q
  <2>2. QED
    BY <1>1, <2>1, AtMostOne
<1>3. Cardinality(H) = IF Held(t) THEN 1 ELSE 0
  <2>1. \A x, y \in H : x = y
    BY NoneAssumption DEF PlaceInv, Once
  <2> HIDE DEF H
  <2>2. QED
    BY <1>1, <2>1, AtMostOne
<1>4. finished[t] = IF Ran(t) THEN 1 ELSE 0
  BY DEF PlaceInv, Once, Ran
<1>5. Places(t) = Cardinality(Q) + Cardinality(H) + finished[t]
  BY DEF Places
<1> HIDE DEF Q, H
<1>6. QED
  BY <1>2, <1>3, <1>4, <1>5 DEF PlaceInv, Apart, Somewhere

\* However the workers race for them, every submitted task is queued, in the hands of
\* one worker, or has run once, and never two of these.
THEOREM TaskInOnePlaceAlways == Spec => []TaskInOnePlace
  BY InitInv, NextInv, InitPlaceInv, NextPlaceInv, PlacesCount, PTL DEF Spec

\* Tasks leave the queue in the order in which they were enqueued.
THEOREM QueueOrderAlways == Spec => []QueueIsRestOfEnqueued
<1>1. PlaceInv => QueueIsRestOfEnqueued
  BY DEF PlaceInv
<1>2. QED
  BY <1>1, InitInv, NextInv, InitPlaceInv, NextPlaceInv, PTL DEF Spec
=============================================================================
