--------------------------- MODULE WorkerPoolProofs ---------------------------
(* Safety of WorkerPool for any set of tasks and any finite set of threads. *)
EXTENDS WorkerPool, FiniteSetTheorems, TLAPS

(* The number of threads in a state is a natural number, zero only if no    *)
(* thread is in it.                                                         *)
LEMMA CountNat ==
    ASSUME NEW s
    PROVE  /\ IsFiniteSet(In(s))
           /\ Count(s) \in Nat
           /\ Count(s) = 0 <=> In(s) = {}
<1>1. IsFiniteSet(In(s))
  BY ThreadsFinite, FS_Subset DEF In
<1>2. QED
  BY <1>1, FS_CardinalityType, FS_EmptySet DEF Count

(* The same holds after a step. *)
LEMMA CountNatPrime ==
    ASSUME NEW s
    PROVE  Count(s)' \in Nat
<1>1. IsFiniteSet(In(s)')
  BY ThreadsFinite, FS_Subset DEF In
<1>2. QED
  BY <1>1, FS_CardinalityType DEF Count

(* A thread that goes from state a to state b moves one unit between their  *)
(* counts and leaves the others alone.                                      *)
LEMMA CountMove ==
    ASSUME TypeOK,
           NEW w \in Threads, NEW a \in ThreadState, NEW b \in ThreadState,
           a # b, pc[w] = a, pc' = [pc EXCEPT ![w] = b]
    PROVE  /\ Count(a)' = Count(a) - 1
           /\ Count(b)' = Count(b) + 1
           /\ \A s \in ThreadState \ {a, b} : Count(s)' = Count(s)
           /\ pc' \in [Threads -> ThreadState]
<1>1. pc \in [Threads -> ThreadState]
  BY DEF TypeOK
<1>2. /\ In(a)' = In(a) \ {w}
      /\ w \in In(a)
  BY <1>1 DEF In
<1>3. /\ In(b)' = In(b) \cup {w}
      /\ w \notin In(b)
  BY <1>1 DEF In
<1>4. \A s \in ThreadState \ {a, b} : In(s)' = In(s)
  BY <1>1 DEF In
<1>5. Count(a)' = Count(a) - 1
  BY <1>2, CountNat, FS_RemoveElement, ZenonT(60) DEF Count
<1>6. Count(b)' = Count(b) + 1
  BY <1>3, CountNat, FS_AddElement DEF Count
<1>7. QED
  BY <1>1, <1>4, <1>5, <1>6 DEF Count

(* The set of live threads is finite; it loses or gains a thread exactly    *)
(* when that thread goes to or leaves the state "none".                     *)
LEMMA LiveMove ==
    ASSUME TypeOK, NEW w \in Threads, NEW b \in ThreadState,
           pc' = [pc EXCEPT ![w] = b]
    PROVE  /\ Cardinality(Live) \in Nat
           /\ Cardinality(Live)' \in Nat
           /\ pc[w] # "none" /\ b = "none" =>
                  Cardinality(Live)' = Cardinality(Live) - 1
           /\ pc[w] = "none" /\ b # "none" =>
                  Cardinality(Live)' = Cardinality(Live) + 1
           /\ pc[w] # "none" /\ b # "none" => Live' = Live
<1>1. pc \in [Threads -> ThreadState]
  BY DEF TypeOK
<1>2. IsFiniteSet(Live) /\ IsFiniteSet(Live')
  BY ThreadsFinite, FS_Subset DEF Live
<1>3. /\ Cardinality(Live) \in Nat
      /\ Cardinality(Live') \in Nat
  BY <1>2, FS_CardinalityType
<1>4. ASSUME pc[w] # "none", b = "none"
      PROVE  Cardinality(Live)' = Cardinality(Live) - 1
  <2>1. Live' = Live \ {w} /\ w \in Live
    BY <1>1, <1>4 DEF Live
  <2>2. QED
    BY <1>2, <2>1, FS_RemoveElement
<1>5. ASSUME pc[w] = "none", b # "none"
      PROVE  Cardinality(Live)' = Cardinality(Live) + 1
  <2>1. Live' = Live \cup {w} /\ w \notin Live
    BY <1>1, <1>5 DEF Live
  <2>2. QED
    BY <1>2, <2>1, FS_AddElement
<1>6. ASSUME pc[w] # "none", b # "none"
      PROVE  Live' = Live
  BY <1>1, <1>6 DEF Live
<1>7. QED
  BY <1>3, <1>4, <1>5, <1>6

(* The owner holds at most one reference, and one until it lets go of it. *)
LEMMA OwnerRefsType ==
    /\ OwnerRefs \in {0, 1}
    /\ owner # "released" => OwnerRefs = 1
    /\ UNCHANGED owner => OwnerRefs' = OwnerRefs
BY DEF OwnerRefs

(* The counters are natural numbers. *)
LEMMA CountersNat ==
    ASSUME TypeOK
    PROVE  refs \in Nat /\ create_failures \in Nat /\ num_idle_threads \in Nat
BY DEF TypeOK

(***************************************************************************)
(* AddTask: the thread signalled or created covers the task.  When nobody  *)
(* is blocked every idle thread is already on its way, and there are as    *)
(* many of them as tasks.                                                  *)
(***************************************************************************)
LEMMA AddTaskInv ==
    ASSUME IInv, NEW t \in Tasks, AddTask(t)
    PROVE  IInv'
<1> USE DEF ThreadState
<1>1. TypeOK /\ IdleCountExact /\ RefCountExact /\ PendingCovered
  BY DEF IInv
<1>2. /\ Len(pending_tasks)' = Len(pending_tasks) + 1
      /\ Len(pending_tasks) \in Nat
      /\ pending_tasks' \in Seq(Tasks)
      /\ unposted' \in SUBSET Tasks
  BY <1>1 DEF AddTask, TypeOK
<1>3. UNCHANGED <<num_idle_threads, terminated, destroyed, owner, running>>
  BY DEF AddTask
<1>4. owner # "released" /\ (terminated <=> owner # "open")'
  BY <1>3 DEF IInv, AddTask
<1>5. SUFFICES /\ pc' \in [Threads -> ThreadState]
               /\ refs' \in Nat /\ create_failures' \in Nat
               /\ IdleCountExact' /\ PendingCovered' /\ RefCountExact'
  BY <1>1, <1>2, <1>3, <1>4 DEF IInv, TypeOK
<1>6. CASE /\ num_idle_threads >= Len(pending_tasks')
           /\ SignalWorker
           /\ UNCHANGED <<refs, create_failures>>
  <2>1. ASSUME NEW w \in Threads, pc[w] = "waiting", pc' = [pc EXCEPT ![w] = "woken"]
        PROVE  /\ pc' \in [Threads -> ThreadState]
               /\ IdleCountExact' /\ PendingCovered' /\ RefCountExact'
    <3>1. /\ Count("waiting")' = Count("waiting") - 1
          /\ Count("woken")' = Count("woken") + 1
          /\ Count("ready")' = Count("ready")
          /\ pc' \in [Threads -> ThreadState]
      BY <1>1, <2>1, CountMove
    <3>2. Live' = Live
      BY <1>1, <2>1, LiveMove
    <3>3. IdleCountExact'
      BY <1>1, <1>3, <3>1, CountNat DEF IdleCountExact
    <3>4. PendingCovered'
      BY <1>1, <1>2, <1>3, <1>6, <3>1, CountNat, CountersNat DEF PendingCovered
    <3>5. RefCountExact'
      BY <1>1, <1>3, <1>6, <3>2, OwnerRefsType DEF RefCountExact
    <3>6. QED
      BY <3>1, <3>3, <3>4, <3>5
  <2>2. ASSUME In("waiting") = {}, UNCHANGED pc
        PROVE  /\ pc' \in [Threads -> ThreadState]
               /\ IdleCountExact' /\ PendingCovered' /\ RefCountExact'
    <3>1. /\ Count("waiting") = 0
          /\ \A s : Count(s)' = Count(s)
          /\ Live' = Live
      BY <2>2, CountNat DEF Count, In, Live
    <3>2. IdleCountExact'
      BY <1>1, <1>3, <3>1 DEF IdleCountExact
    <3>3. PendingCovered'
      BY <1>1, <1>2, <1>3, <1>6, <3>1, CountNat, CountersNat
      DEF PendingCovered, IdleCountExact
    <3>4. RefCountExact'
      BY <1>1, <1>3, <1>6, <3>1, OwnerRefsType DEF RefCountExact
    <3>5. QED
      BY <1>1, <2>2, <3>2, <3>3, <3>4 DEF TypeOK
  <2>3. QED
    BY <1>1, <1>6, <2>1, <2>2, CountersNat DEF SignalWorker, In
<1>7. CASE CreateWorker
  <2>1. refs' = refs + 1
    BY <1>7 DEF CreateWorker
  <2>2. ASSUME NEW w \in Threads, pc[w] = "none", pc' = [pc EXCEPT ![w] = "ready"],
               UNCHANGED create_failures
        PROVE  /\ pc' \in [Threads -> ThreadState]
               /\ IdleCountExact' /\ PendingCovered' /\ RefCountExact'
    <3>1. /\ Count("waiting")' = Count("waiting")
          /\ Count("woken")' = Count("woken")
          /\ Count("ready")' = Count("ready") + 1
          /\ pc' \in [Threads -> ThreadState]
      BY <1>1, <2>2, CountMove
    <3>2. Cardinality(Live)' = Cardinality(Live) + 1 /\ Cardinality(Live) \in Nat
      BY <1>1, <2>2, LiveMove
    <3>3. IdleCountExact'
      BY <1>1, <1>3, <3>1 DEF IdleCountExact
    <3>4. PendingCovered'
      BY <1>1, <1>2, <1>3, <2>2, <3>1, CountNat, CountersNat DEF PendingCovered
    <3>5. RefCountExact'
      BY <1>1, <1>3, <1>4, <2>1, <2>2, <3>2, OwnerRefsType, CountersNat
      DEF RefCountExact
    <3>6. QED
      BY <3>1, <3>3, <3>4, <3>5
  <2>3. ASSUME create_failures' = create_failures + 1, UNCHANGED pc
        PROVE  /\ pc' \in [Threads -> ThreadState]
               /\ IdleCountExact' /\ PendingCovered' /\ RefCountExact'
    <3>1. /\ \A s : Count(s)' = Count(s)
          /\ Live' = Live
      BY <2>3 DEF Count, In, Live
    <3>2. IdleCountExact'
      BY <1>1, <1>3, <3>1 DEF IdleCountExact
    <3>3. PendingCovered'
      BY <1>1, <1>2, <1>3, <2>3, <3>1, CountNat, CountersNat DEF PendingCovered
    <3>4. Cardinality(Live) \in Nat
      BY ThreadsFinite, FS_Subset, FS_CardinalityType DEF Live
    <3>5. RefCountExact'
      BY <1>1, <1>3, <1>4, <2>1, <2>3, <3>1, <3>4, OwnerRefsType, CountersNat
      DEF RefCountExact
    <3>6. QED
      BY <1>1, <2>3, <3>2, <3>3, <3>5 DEF TypeOK
  <2>4. refs' \in Nat /\ create_failures' \in Nat
    BY <1>1, <1>7, <2>1, CountersNat DEF CreateWorker
  <2>5. QED
    BY <1>7, <2>2, <2>3, <2>4 DEF CreateWorker, In
<1>8. QED
  BY <1>6, <1>7 DEF AddTask

(***************************************************************************)
(* A reference that someone still holds is given up: the count stays       *)
(* exact and the destructor runs exactly at zero.                          *)
(***************************************************************************)
LEMMA ReleaseInv ==
    ASSUME TypeOK, RefCountExact, Release, refs # 0,
           NEW live \in Nat, live = Cardinality(Live)',
           refs - 1 = live + create_failures' + OwnerRefs'
    PROVE  /\ RefCountExact'
           /\ refs' \in Nat
           /\ destroyed' \in BOOLEAN
           /\ pending_tasks' \in Seq(Tasks)
           /\ pending_tasks' = pending_tasks \/ pending_tasks' = <<>>
<1>1. refs \in Nat
  BY CountersNat
<1>2. refs' = refs - 1
  BY DEF Release
<1>3. destroyed' <=> refs' = 0
  <2>1. CASE refs = 1
    BY <1>2, <2>1 DEF Release
  <2>2. CASE refs # 1
    <3>1. ~destroyed /\ destroyed' = destroyed
      BY <2>2 DEF Release, RefCountExact
    <3>2. refs' # 0
      BY <1>1, <1>2, <2>2
    <3>3. QED
      BY <3>1, <3>2
  <2>3. QED
    BY <2>1, <2>2
<1>4. /\ destroyed' \in BOOLEAN
      /\ pending_tasks' \in Seq(Tasks)
      /\ pending_tasks' = pending_tasks \/ pending_tasks' = <<>>
  <2>1. CASE refs = 1
    <3>1. destroyed' = TRUE /\ pending_tasks' = <<>>
      BY <2>1 DEF Release
    <3>2. <<>> \in Seq(Tasks)
      OBVIOUS
    <3>3. QED
      BY <3>1, <3>2
  <2>2. CASE refs # 1
    BY <2>2 DEF Release, TypeOK
  <2>3. QED
    BY <2>1, <2>2
<1>5. QED
  BY <1>1, <1>2, <1>3, <1>4 DEF RefCountExact

(***************************************************************************)
(* A thread leaves because the pool is terminated or because it found no   *)
(* work: nobody counted on it.                                             *)
(***************************************************************************)
LEMMA ExitThreadInv ==
    ASSUME IInv, NEW w \in Threads, ExitThread(w),
           NEW a \in {"ready", "woken"}, pc[w] = a,
           terminated \/ pending_tasks = <<>>,
           num_idle_threads' = IF a = "woken" THEN num_idle_threads - 1
                                              ELSE num_idle_threads,
           UNCHANGED <<terminated, owner, unposted, create_failures>>
    PROVE  IInv'
<1> USE DEF ThreadState
<1>1. TypeOK /\ IdleCountExact /\ RefCountExact
  BY DEF IInv
<1>2. pc' = [pc EXCEPT ![w] = "none"]
  BY DEF ExitThread
<1>3. /\ Count(a)' = Count(a) - 1
      /\ \A s \in ThreadState \ {a, "none"} : Count(s)' = Count(s)
      /\ pc' \in [Threads -> ThreadState]
  BY <1>1, <1>2, CountMove
<1>4. /\ Cardinality(Live)' = Cardinality(Live) - 1
      /\ Cardinality(Live) \in Nat
      /\ Cardinality(Live)' \in Nat
  BY <1>1, <1>2, LiveMove
<1>5. /\ RefCountExact'
      /\ refs' \in Nat
      /\ destroyed' \in BOOLEAN
      /\ pending_tasks' \in Seq(Tasks)
      /\ pending_tasks' = pending_tasks \/ pending_tasks' = <<>>
  <2>1. refs # 0 /\ refs - 1 = Cardinality(Live)' + create_failures' + OwnerRefs'
    BY <1>1, <1>4, CountersNat, OwnerRefsType DEF RefCountExact
  <2>2. QED
    BY <1>1, <1>4, <2>1, ReleaseInv DEF ExitThread
<1>6. IdleCountExact' /\ num_idle_threads' \in Nat
  <2>1. CASE a = "ready"
    BY <1>1, <1>3, <2>1, CountersNat DEF IdleCountExact
  <2>2. CASE a = "woken"
    <3>1. /\ Count("woken")' = Count("woken") - 1
          /\ Count("waiting")' = Count("waiting")
          /\ num_idle_threads' = num_idle_threads - 1
      BY <1>3, <2>2
    <3>2. Count("woken") # 0
      BY <2>2, CountNat DEF In
    <3>3. QED
      BY <1>1, <3>1, <3>2, CountNat DEF IdleCountExact
  <2>3. QED
    BY <2>1, <2>2
<1>7. PendingCovered'
  <2>1. Len(pending_tasks') = 0 \/ terminated'
    BY <1>5
  <2>2. Count("ready")' \in Nat /\ Count("woken")' \in Nat
    BY CountNatPrime
  <2>3. create_failures' \in Nat
    BY <1>1, CountersNat
  <2>4. QED
    BY <2>1, <2>2, <2>3 DEF PendingCovered
<1>8. TypeOK'
  BY <1>1, <1>3, <1>5, <1>6 DEF TypeOK, ExitThread
<1>9. (terminated <=> owner # "open")'
  BY DEF IInv
<1>10. QED
  BY <1>5, <1>6, <1>7, <1>8, <1>9 DEF IInv

(***************************************************************************)
(* A thread takes the front task: one task and one of the threads that     *)
(* cover the queue leave together.                                         *)
(***************************************************************************)
LEMMA TakeTaskInv ==
    ASSUME IInv, NEW w \in Threads, TakeTask(w), pending_tasks # <<>>,
           NEW a \in {"ready", "woken"}, pc[w] = a,
           num_idle_threads' = IF a = "woken" THEN num_idle_threads - 1
                                              ELSE num_idle_threads,
           UNCHANGED <<terminated, owner, unposted, create_failures>>
    PROVE  IInv'
<1> USE DEF ThreadState
<1>1. TypeOK /\ IdleCountExact /\ RefCountExact /\ PendingCovered
  BY DEF IInv
<1>2. pc' = [pc EXCEPT ![w] = "running"] /\ UNCHANGED <<refs, destroyed>>
  BY DEF TakeTask
<1>3. /\ Count(a)' = Count(a) - 1
      /\ \A s \in ThreadState \ {a, "running"} : Count(s)' = Count(s)
      /\ pc' \in [Threads -> ThreadState]
  BY <1>1, <1>2, CountMove
<1>4. Live' = Live
  BY <1>1, <1>2, LiveMove
<1>5. /\ pending_tasks' \in Seq(Tasks)
      /\ Len(pending_tasks)' = Len(pending_tasks) - 1
      /\ Len(pending_tasks) \in Nat
      /\ Head(pending_tasks) \in Tasks
  BY <1>1 DEF TakeTask, TypeOK
<1>6. running' \in [Threads -> Tasks \cup {NoTask}]
  BY <1>1, <1>5 DEF TakeTask, TypeOK
<1>7. /\ IdleCountExact'
      /\ num_idle_threads' \in Nat
      /\ Count("ready")' + Count("woken")' = Count("ready") + Count("woken") - 1
  <2>1. CASE a = "ready"
    BY <1>1, <1>3, <2>1, CountNat, CountersNat DEF IdleCountExact
  <2>2. CASE a = "woken"
    <3>1. /\ Count("woken")' = Count("woken") - 1
          /\ Count("waiting")' = Count("waiting")
          /\ Count("ready")' = Count("ready")
          /\ num_idle_threads' = num_idle_threads - 1
      BY <1>3, <2>2
    <3>2. Count("woken") # 0
      BY <2>2, CountNat DEF In
    <3>3. QED
      BY <1>1, <3>1, <3>2, CountNat DEF IdleCountExact
  <2>3. QED
    BY <2>1, <2>2
<1>8. PendingCovered'
  BY <1>1, <1>5, <1>7, CountNat, CountersNat DEF PendingCovered
<1>9. RefCountExact'
  BY <1>1, <1>2, <1>4, OwnerRefsType DEF RefCountExact
<1>10. TypeOK'
  BY <1>1, <1>2, <1>3, <1>5, <1>6, <1>7 DEF TypeOK
<1>11. (terminated <=> owner # "open")'
  BY DEF IInv
<1>12. QED
  BY <1>7, <1>8, <1>9, <1>10, <1>11 DEF IInv

(* A thread at the entry of WaitForTask leaves, blocks on an empty queue or *)
(* takes a task.                                                            *)
LEMMA WaitForTaskInv ==
    ASSUME IInv, NEW w \in Threads, WaitForTask(w)
    PROVE  IInv'
<1> USE DEF ThreadState
<1>1. TypeOK /\ IdleCountExact /\ RefCountExact /\ PendingCovered
  BY DEF IInv
<1>2. /\ pc[w] = "ready"
      /\ UNCHANGED <<terminated, owner, unposted, create_failures>>
  BY DEF WaitForTask
<1>3. CASE terminated /\ ExitThread(w) /\ UNCHANGED num_idle_threads
  BY <1>2, <1>3, ExitThreadInv
<1>4. CASE /\ pending_tasks = <<>>
           /\ num_idle_threads' = num_idle_threads + 1
           /\ pc' = [pc EXCEPT ![w] = "waiting"]
           /\ UNCHANGED <<pending_tasks, refs, destroyed, running>>
  <2>1. /\ Count("ready")' = Count("ready") - 1
        /\ Count("waiting")' = Count("waiting") + 1
        /\ Count("woken")' = Count("woken")
        /\ pc' \in [Threads -> ThreadState]
    BY <1>1, <1>2, <1>4, CountMove
  <2>2. Live' = Live
    BY <1>1, <1>2, <1>4, LiveMove
  <2>3. IdleCountExact' /\ num_idle_threads' \in Nat
    BY <1>1, <1>4, <2>1, CountNat, CountersNat DEF IdleCountExact
  <2>4. PendingCovered'
    <3>1. Len(pending_tasks') = 0
      BY <1>4
    <3>2. Count("ready")' \in Nat /\ Count("woken")' \in Nat
      BY CountNatPrime
    <3>3. create_failures' \in Nat
      BY <1>1, <1>2, CountersNat
    <3>4. QED
      BY <3>1, <3>2, <3>3 DEF PendingCovered
  <2>5. RefCountExact'
    BY <1>1, <1>2, <1>4, <2>2, OwnerRefsType DEF RefCountExact
  <2>6. TypeOK'
    BY <1>1, <1>2, <1>4, <2>1, <2>3 DEF TypeOK
  <2>7. (terminated <=> owner # "open")'
    BY <1>2 DEF IInv
  <2>8. QED
    BY <2>3, <2>4, <2>5, <2>6, <2>7 DEF IInv
<1>5. CASE pending_tasks # <<>> /\ TakeTask(w) /\ UNCHANGED num_idle_threads
  BY <1>2, <1>5, TakeTaskInv
<1>6. QED
  BY <1>3, <1>4, <1>5 DEF WaitForTask

(* TimedWait comes back: the thread only moves from waiting to woken. *)
LEMMA WakeUpInv ==
    ASSUME IInv, NEW w \in Threads, WakeUp(w)
    PROVE  IInv'
<1> USE DEF ThreadState
<1>1. TypeOK /\ IdleCountExact /\ RefCountExact /\ PendingCovered
  BY DEF IInv
<1>2. /\ pc[w] = "waiting"
      /\ pc' = [pc EXCEPT ![w] = "woken"]
      /\ UNCHANGED <<pending_tasks, num_idle_threads, terminated, refs,
                     destroyed, owner, running, unposted, create_failures>>
  BY DEF WakeUp
<1>3. /\ Count("waiting")' = Count("waiting") - 1
      /\ Count("woken")' = Count("woken") + 1
      /\ Count("ready")' = Count("ready")
      /\ pc' \in [Threads -> ThreadState]
  BY <1>1, <1>2, CountMove
<1>4. Live' = Live
  BY <1>1, <1>2, LiveMove
<1>5. IdleCountExact'
  BY <1>1, <1>2, <1>3, CountNat DEF IdleCountExact
<1>6. Len(pending_tasks) \in Nat
  BY <1>1 DEF TypeOK
<1>7. PendingCovered'
  BY <1>1, <1>2, <1>3, <1>6, CountNat, CountersNat DEF PendingCovered
<1>8. RefCountExact'
  BY <1>1, <1>2, <1>4, OwnerRefsType DEF RefCountExact
<1>9. TypeOK'
  BY <1>1, <1>2, <1>3 DEF TypeOK
<1>10. QED
  BY <1>2, <1>5, <1>7, <1>8, <1>9 DEF IInv

(* A woken thread takes a task or, with nothing to do, leaves. *)
LEMMA AfterTimedWaitInv ==
    ASSUME IInv, NEW w \in Threads, AfterTimedWait(w)
    PROVE  IInv'
<1>1. /\ pc[w] = "woken"
      /\ num_idle_threads' = num_idle_threads - 1
      /\ UNCHANGED <<terminated, owner, unposted, create_failures>>
  BY DEF AfterTimedWait
<1>2. CASE pending_tasks = <<>> /\ ExitThread(w)
  BY <1>1, <1>2, ExitThreadInv
<1>3. CASE pending_tasks # <<>> /\ TakeTask(w)
  BY <1>1, <1>3, TakeTaskInv
<1>4. QED
  BY <1>2, <1>3 DEF AfterTimedWait

(* A thread whose task ended comes back as one more that covers the queue. *)
LEMMA FinishTaskInv ==
    ASSUME IInv, NEW w \in Threads, FinishTask(w)
    PROVE  IInv'
<1> USE DEF ThreadState
<1>1. TypeOK /\ IdleCountExact /\ RefCountExact /\ PendingCovered
  BY DEF IInv
<1>2. /\ pc[w] = "running"
      /\ pc' = [pc EXCEPT ![w] = "ready"]
      /\ UNCHANGED <<pending_tasks, num_idle_threads, terminated, refs,
                     destroyed, owner, unposted, create_failures>>
  BY DEF FinishTask
<1>3. /\ Count("waiting")' = Count("waiting")
      /\ Count("woken")' = Count("woken")
      /\ Count("ready")' = Count("ready") + 1
      /\ pc' \in [Threads -> ThreadState]
  BY <1>1, <1>2, CountMove
<1>4. Live' = Live
  BY <1>1, <1>2, LiveMove
<1>5. IdleCountExact'
  BY <1>1, <1>2, <1>3 DEF IdleCountExact
<1>6. Len(pending_tasks) \in Nat
  BY <1>1 DEF TypeOK
<1>7. PendingCovered'
  BY <1>1, <1>2, <1>3, <1>6, CountNat, CountersNat DEF PendingCovered
<1>8. RefCountExact'
  BY <1>1, <1>2, <1>4, OwnerRefsType DEF RefCountExact
<1>9. running' \in [Threads -> Tasks \cup {NoTask}]
  BY <1>1 DEF TypeOK, FinishTask
<1>10. TypeOK'
  BY <1>1, <1>2, <1>3, <1>9 DEF TypeOK
<1>11. QED
  BY <1>2, <1>5, <1>7, <1>8, <1>10 DEF IInv

(* Terminate() sets the flag, which only weakens what PendingCovered asks. *)
LEMMA TerminateInv ==
    ASSUME IInv, Terminate
    PROVE  IInv'
<1>1. TypeOK /\ IdleCountExact /\ RefCountExact
  BY DEF IInv
<1>2. /\ terminated' = TRUE /\ owner = "open" /\ owner' = "terminated"
      /\ UNCHANGED <<pending_tasks, num_idle_threads, refs, destroyed, pc,
                     running, unposted, create_failures>>
  BY DEF Terminate
<1>3. OwnerRefs' = OwnerRefs
  BY <1>2 DEF OwnerRefs
<1>4. (\A s : Count(s)' = Count(s)) /\ Live' = Live
  BY <1>2 DEF Count, In, Live
<1>5. IdleCountExact'
  BY <1>1, <1>2, <1>4 DEF IdleCountExact
<1>6. RefCountExact'
  BY <1>1, <1>2, <1>3, <1>4 DEF RefCountExact
<1>7. TypeOK'
  BY <1>1, <1>2 DEF TypeOK, OwnerState
<1>8. PendingCovered' /\ (terminated <=> owner # "open")'
  BY <1>2 DEF PendingCovered
<1>9. QED
  BY <1>5, <1>6, <1>7, <1>8 DEF IInv

(* The broadcast turns every waiting thread into a woken one. *)
LEMMA TerminateBroadcastInv ==
    ASSUME IInv, TerminateBroadcast
    PROVE  IInv'
<1> USE DEF ThreadState
<1>1. TypeOK /\ IdleCountExact /\ RefCountExact /\ terminated
  BY DEF IInv, TerminateBroadcast
<1>2. /\ pc' = [w \in Threads |-> IF pc[w] = "waiting" THEN "woken" ELSE pc[w]]
      /\ owner = "terminated" /\ owner' = "broadcast"
      /\ UNCHANGED <<pending_tasks, num_idle_threads, terminated, refs,
                     destroyed, running, unposted, create_failures>>
  BY DEF TerminateBroadcast
<1>3. pc \in [Threads -> ThreadState] /\ pc' \in [Threads -> ThreadState]
  BY <1>1, <1>2 DEF TypeOK
<1>4. OwnerRefs' = OwnerRefs
  BY <1>2 DEF OwnerRefs
<1>5. Live' = Live
  BY <1>2, <1>3 DEF Live
<1>6. IdleCountExact'
  <2>1. /\ In("waiting")' = {}
        /\ In("woken")' = In("woken") \cup In("waiting")
        /\ In("woken") \cap In("waiting") = {}
    BY <1>2, <1>3 DEF In
  <2>2. IsFiniteSet(In("woken")) /\ IsFiniteSet(In("waiting"))
    BY CountNat
  <2>3. Cardinality(In("woken") \cup In("waiting")) =
          Cardinality(In("woken")) + Cardinality(In("waiting")) - Cardinality({})
    BY <2>1, <2>2, FS_Union
  <2>4. Cardinality({}) = 0
    BY FS_EmptySet
  <2>5. Count("waiting")' = 0
    BY <2>1, <2>4 DEF Count
  <2>6. Count("woken")' = Count("woken") + Count("waiting")
    BY <2>1, <2>3, <2>4, CountNat DEF Count
  <2>7. QED
    BY <1>1, <1>2, <2>5, <2>6, CountNat DEF IdleCountExact
<1>7. RefCountExact'
  BY <1>1, <1>2, <1>4, <1>5 DEF RefCountExact
<1>8. TypeOK'
  BY <1>1, <1>2, <1>3 DEF TypeOK, OwnerState
<1>9. PendingCovered' /\ (terminated <=> owner # "open")'
  BY <1>1, <1>2 DEF PendingCovered
<1>10. QED
  BY <1>6, <1>7, <1>8, <1>9 DEF IInv

(* The owner drops its reference to a pool that is already terminated. *)
LEMMA OwnerReleaseInv ==
    ASSUME IInv, OwnerRelease
    PROVE  IInv'
<1>1. TypeOK /\ IdleCountExact /\ RefCountExact /\ terminated
  BY DEF IInv, OwnerRelease
<1>2. /\ owner = "broadcast" /\ owner' = "released" /\ Release
      /\ UNCHANGED <<num_idle_threads, terminated, pc, running, unposted,
                     create_failures>>
  BY DEF OwnerRelease
<1>3. OwnerRefs = 1 /\ OwnerRefs' = 0
  BY <1>2 DEF OwnerRefs
<1>4. (\A s : Count(s)' = Count(s)) /\ Live' = Live
  BY <1>2 DEF Count, In, Live
<1>5. Cardinality(Live) \in Nat
  BY ThreadsFinite, FS_Subset, FS_CardinalityType DEF Live
<1>6. refs # 0 /\ refs - 1 = Cardinality(Live) + create_failures' + OwnerRefs'
  BY <1>1, <1>2, <1>3, <1>5, CountersNat DEF RefCountExact
<1>7. /\ RefCountExact'
      /\ refs' \in Nat
      /\ destroyed' \in BOOLEAN
      /\ pending_tasks' \in Seq(Tasks)
  BY <1>1, <1>2, <1>4, <1>5, <1>6, ReleaseInv
<1>8. IdleCountExact'
  BY <1>1, <1>2, <1>4 DEF IdleCountExact
<1>9. TypeOK'
  BY <1>1, <1>2, <1>7 DEF TypeOK, OwnerState
<1>10. PendingCovered' /\ (terminated <=> owner # "open")'
  BY <1>1, <1>2 DEF PendingCovered
<1>11. QED
  BY <1>7, <1>8, <1>9, <1>10 DEF IInv

(* A fresh pool: no thread, no task, one reference. *)
LEMMA InitInv == Init => IInv
<1> SUFFICES ASSUME Init PROVE IInv
  OBVIOUS
<1>1. TypeOK
  <2>1. pending_tasks \in Seq(Tasks)
    BY DEF Init
  <2>2. /\ pc \in [Threads -> ThreadState]
        /\ running \in [Threads -> Tasks \cup {NoTask}]
    BY DEF Init, ThreadState
  <2>3. terminated \in BOOLEAN /\ destroyed \in BOOLEAN
    BY DEF Init
  <2>4. QED
    BY <2>1, <2>2, <2>3 DEF Init, TypeOK, OwnerState
<1>2. Live = {} /\ \A s \in {"ready", "waiting", "woken"} : In(s) = {}
  BY DEF Init, Live, In
<1>3. /\ Cardinality(Live) = 0
      /\ Count("ready") = 0 /\ Count("waiting") = 0 /\ Count("woken") = 0
  BY <1>2, FS_EmptySet, CountNat
<1>4. IdleCountExact /\ PendingCovered
  BY <1>3 DEF Init, IdleCountExact, PendingCovered
<1>5. OwnerRefs = 1
  BY DEF OwnerRefs, Init
<1>6. refs = Cardinality(Live) + create_failures + OwnerRefs
  BY <1>3, <1>5 DEF Init
<1>7. destroyed <=> refs = 0
  BY DEF Init
<1>8. QED
  BY <1>1, <1>4, <1>6, <1>7 DEF IInv, RefCountExact, Init

(* Every step of the pool, its threads and its owner keeps the invariant. *)
LEMMA NextInv == IInv /\ [Next]_vars => IInv'
<1> SUFFICES ASSUME IInv, [Next]_vars PROVE IInv'
  OBVIOUS
<1>1. CASE \E t \in Tasks : AddTask(t)
  BY <1>1, AddTaskInv
<1>2. CASE \E w \in Threads : WaitForTask(w)
  BY <1>2, WaitForTaskInv
<1>3. CASE \E w \in Threads : WakeUp(w)
  BY <1>3, WakeUpInv
<1>4. CASE \E w \in Threads : AfterTimedWait(w)
  BY <1>4, AfterTimedWaitInv
<1>5. CASE \E w \in Threads : FinishTask(w)
  BY <1>5, FinishTaskInv
<1>6. CASE Terminate
  BY <1>6, TerminateInv
<1>7. CASE TerminateBroadcast
  BY <1>7, TerminateBroadcastInv
<1>8. CASE OwnerRelease
  BY <1>8, OwnerReleaseInv
<1>9. CASE UNCHANGED vars
  BY <1>9 DEF vars, IInv, TypeOK, IdleCountExact, RefCountExact,
              PendingCovered, OwnerRefs, Count, In, Live
<1>10. QED
  BY <1>1, <1>2, <1>3, <1>4, <1>5, <1>6, <1>7, <1>8, <1>9 DEF Next

-----------------------------------------------------------------------------
(* The conjunction of the pool's safety properties is invariant, for every  *)
(* set of tasks and every finite set of threads.                            *)
THEOREM PoolInvariant == Spec => []IInv
BY InitInv, NextInv, PTL DEF Spec

(* AddTask's choice between Signal and a new thread never leaves a task of  *)
(* an open pool without a thread of its own on the way to the queue.        *)
THEOREM PendingCoveredThm == Spec => []PendingCovered
<1>1. IInv => PendingCovered
  BY DEF IInv
<1>2. QED
  BY PoolInvariant, <1>1, PTL

(* num_idle_threads_ is exactly the number of threads inside TimedWait or   *)
(* on their way out of it.                                                  *)
THEOREM IdleCountThm == Spec => []IdleCountExact
<1>1. IInv => IdleCountExact
  BY DEF IInv
<1>2. QED
  BY PoolInvariant, <1>1, PTL

(* ~PosixDynamicThreadPool runs only when the owner has let go of the pool  *)
(* and no worker thread is left to use lock_ or the queue.                  *)
THEOREM PoolLifetimeThm == Spec => []PoolOutlivesThreads
<1>1. IInv => PoolOutlivesThreads
  <2> SUFFICES ASSUME IInv, destroyed
               PROVE  owner = "released" /\ \A w \in Threads : pc[w] = "none"
    BY DEF PoolOutlivesThreads
  <2>1. TypeOK /\ refs = 0 /\ refs = Cardinality(Live) + create_failures + OwnerRefs
    BY DEF IInv, RefCountExact
  <2>2. IsFiniteSet(Live)
    BY ThreadsFinite, FS_Subset DEF Live
  <2>3. Cardinality(Live) \in Nat
    BY <2>2, FS_CardinalityType
  <2>4. Cardinality(Live) = 0 /\ OwnerRefs = 0
    BY <2>1, <2>3, CountersNat, OwnerRefsType
  <2>5. owner = "released"
    BY <2>4 DEF OwnerRefs
  <2>6. Live = {}
    BY <2>2, <2>4, FS_EmptySet
  <2>7. QED
    BY <2>5, <2>6 DEF Live
<1>2. QED
  BY PoolInvariant, <1>1, PTL
=============================================================================
