------------------------------ MODULE WorkerPool ------------------------------
(***************************************************************************)
(* base::PosixDynamicThreadPool (base/threading/worker_pool_posix.{h,cc}), *)
(* the thread pool behind base::WorkerPool on POSIX, together with its     *)
(* owner WorkerPoolImpl and the WorkerThread objects that serve it.        *)
(*                                                                         *)
(* One action per critical section of lock_: everything between an         *)
(* AutoLock and its end is atomic, and pending_tasks_available_cv_ splits  *)
(* WaitForTask where TimedWait gives the lock up.  The condition variable  *)
(* is the one of POSIX: Signal revives one blocked thread if there is any, *)
(* Broadcast revives all, and a blocked thread may also come back because  *)
(* its time is up or spuriously.                                           *)
(***************************************************************************)
EXTENDS Naturals, Sequences, FiniteSets

CONSTANTS
    Tasks,          \* the closures that may be posted, each at most once
    Threads,        \* identities of worker threads; one that exited is reused
    NoTask,         \* what a thread holds while it runs no task
    CreateCanFail   \* may pthread_create fail (its result is ignored)

ASSUME ThreadsFinite == IsFiniteSet(Threads)
ASSUME NoTaskNotATask == NoTask \notin Tasks
ASSUME CreateCanFailBool == CreateCanFail \in BOOLEAN

VARIABLES
    pending_tasks,      \* std::queue<PendingTask>
    num_idle_threads,   \* threads between ++ and -- around TimedWait
    terminated,         \* terminated_
    refs,               \* reference count of the RefCountedThreadSafe pool
    destroyed,          \* ~PosixDynamicThreadPool has run
    owner,              \* progress of WorkerPoolImpl::~WorkerPoolImpl
    pc,                 \* where each worker thread is
    running,            \* the task each worker thread runs
    unposted,           \* tasks nobody has posted yet
    create_failures     \* threads AddTask asked for and did not get

vars == <<pending_tasks, num_idle_threads, terminated, refs, destroyed,
          owner, pc, running, unposted, create_failures>>

(***************************************************************************)
(* none    : no thread, or it left ThreadMain                              *)
(* ready   : about to call WaitForTask (just created, or its task ended)   *)
(* waiting : blocked in pending_tasks_available_cv_.TimedWait              *)
(* woken   : TimedWait is over, the thread still has to take lock_         *)
(* running : in pending_task.task.Run()                                    *)
(***************************************************************************)
ThreadState == {"none", "ready", "waiting", "woken", "running"}
OwnerState  == {"open", "terminated", "broadcast", "released"}

In(state)    == {w \in Threads : pc[w] = state}
Count(state) == Cardinality(In(state))
Live         == {w \in Threads : pc[w] # "none"}

(***************************************************************************)
(* scoped_refptr<PosixDynamicThreadPool>::Release; the last one runs the   *)
(* destructor, which empties the queue.                                    *)
(***************************************************************************)
Release ==
    /\ refs' = refs - 1
    /\ IF refs = 1
       THEN destroyed' = TRUE /\ pending_tasks' = <<>>
       ELSE UNCHANGED <<destroyed, pending_tasks>>

Init ==
    /\ pending_tasks = <<>>
    /\ num_idle_threads = 0
    /\ terminated = FALSE
    /\ refs = 1
    /\ destroyed = FALSE
    /\ owner = "open"
    /\ pc = [w \in Threads |-> "none"]
    /\ running = [w \in Threads |-> NoTask]
    /\ unposted = Tasks
    /\ create_failures = 0

-----------------------------------------------------------------------------
(* pending_tasks_available_cv_.Signal() *)
SignalWorker ==
    \/ \E w \in In("waiting") : pc' = [pc EXCEPT ![w] = "woken"]
    \/ In("waiting") = {} /\ UNCHANGED pc

(* Mutant: the WorkerThread keeps a plain pointer to the pool. *)
CreateWorkerNoRef ==
    /\ UNCHANGED <<refs, create_failures>>
    /\ \E w \in In("none") : pc' = [pc EXCEPT ![w] = "ready"]

(* CreateNonJoinable of a WorkerThread, which holds a reference to the pool. *)
(* A WorkerThread whose thread was never created is leaked with it.          *)
CreateWorker ==
    /\ refs' = refs + 1
    /\ \/ /\ \E w \in In("none") : pc' = [pc EXCEPT ![w] = "ready"]
          /\ UNCHANGED create_failures
       \/ /\ CreateCanFail
          /\ create_failures' = create_failures + 1
          /\ UNCHANGED pc

(* Mutant: the queue's length is read before the task is pushed. *)
AddTaskLengthBeforePush(t) ==
    /\ ~terminated
    /\ t \in unposted
    /\ unposted' = unposted \ {t}
    /\ pending_tasks' = Append(pending_tasks, t)
    /\ \/ /\ num_idle_threads >= Len(pending_tasks)
          /\ SignalWorker
          /\ UNCHANGED <<refs, create_failures>>
       \/ /\ num_idle_threads < Len(pending_tasks)
          /\ CreateWorker
    /\ UNCHANGED <<num_idle_threads, terminated, destroyed, owner, running>>

AddTask(t) ==
    /\ ~terminated
    /\ t \in unposted
    /\ unposted' = unposted \ {t}
    /\ pending_tasks' = Append(pending_tasks, t)
    /\ \/ /\ num_idle_threads >= Len(pending_tasks')
          /\ SignalWorker
          /\ UNCHANGED <<refs, create_failures>>
       \/ /\ num_idle_threads < Len(pending_tasks')
          /\ CreateWorker
    /\ UNCHANGED <<num_idle_threads, terminated, destroyed, owner, running>>

(* ThreadMain gets a null closure from WaitForTask and deletes the thread. *)
ExitThread(w) ==
    /\ pc' = [pc EXCEPT ![w] = "none"]
    /\ Release
    /\ UNCHANGED running

(* WaitForTask returns the front of the queue and ThreadMain runs it. *)
TakeTask(w) ==
    /\ pending_tasks' = Tail(pending_tasks)
    /\ running' = [running EXCEPT ![w] = Head(pending_tasks)]
    /\ pc' = [pc EXCEPT ![w] = "running"]
    /\ UNCHANGED <<refs, destroyed>>

(* WaitForTask from its entry to its return or to TimedWait. *)
WaitForTask(w) ==
    /\ pc[w] = "ready"
    /\ \/ /\ terminated
          /\ ExitThread(w)
          /\ UNCHANGED num_idle_threads
       \/ /\ ~terminated
          /\ pending_tasks = <<>>
          /\ num_idle_threads' = num_idle_threads + 1
          /\ pc' = [pc EXCEPT ![w] = "waiting"]
          /\ UNCHANGED <<pending_tasks, refs, destroyed, running>>
       \/ /\ ~terminated
          /\ pending_tasks # <<>>
          /\ TakeTask(w)
          /\ UNCHANGED num_idle_threads
    /\ UNCHANGED <<terminated, owner, unposted, create_failures>>

(* TimedWait comes back by itself: idle_seconds_before_exit_ are over, or a *)
(* spurious wakeup.                                                         *)
WakeUp(w) ==
    /\ pc[w] = "waiting"
    /\ pc' = [pc EXCEPT ![w] = "woken"]
    /\ UNCHANGED <<pending_tasks, num_idle_threads, terminated, refs,
                   destroyed, owner, running, unposted, create_failures>>

(* Mutant: a thread that found nothing after TimedWait stays counted as idle. *)
AfterTimedWaitStaysIdle(w) ==
    /\ pc[w] = "woken"
    /\ \/ /\ pending_tasks = <<>>
          /\ ExitThread(w)
          /\ UNCHANGED num_idle_threads
       \/ /\ pending_tasks # <<>>
          /\ TakeTask(w)
          /\ num_idle_threads' = num_idle_threads - 1
    /\ UNCHANGED <<terminated, owner, unposted, create_failures>>

(* WaitForTask from the end of TimedWait to its return. *)
AfterTimedWait(w) ==
    /\ pc[w] = "woken"
    /\ num_idle_threads' = num_idle_threads - 1
    /\ \/ pending_tasks = <<>> /\ ExitThread(w)
       \/ pending_tasks # <<>> /\ TakeTask(w)
    /\ UNCHANGED <<terminated, owner, unposted, create_failures>>

(* pending_task.task.Run() returns. *)
FinishTask(w) ==
    /\ pc[w] = "running"
    /\ pc' = [pc EXCEPT ![w] = "ready"]
    /\ running' = [running EXCEPT ![w] = NoTask]
    /\ UNCHANGED <<pending_tasks, num_idle_threads, terminated, refs,
                   destroyed, owner, unposted, create_failures>>

(* Terminate(): the flag is set under lock_, the broadcast comes after it. *)
Terminate ==
    /\ owner = "open"
    /\ terminated' = TRUE
    /\ owner' = "terminated"
    /\ UNCHANGED <<pending_tasks, num_idle_threads, refs, destroyed, pc,
                   running, unposted, create_failures>>

(* Mutant: Signal() where Broadcast() is meant. *)
TerminateSignal ==
    /\ owner = "terminated"
    /\ SignalWorker
    /\ owner' = "broadcast"
    /\ UNCHANGED <<pending_tasks, num_idle_threads, terminated, refs,
                   destroyed, running, unposted, create_failures>>

TerminateBroadcast ==
    /\ owner = "terminated"
    /\ pc' = [w \in Threads |-> IF pc[w] = "waiting" THEN "woken" ELSE pc[w]]
    /\ owner' = "broadcast"
    /\ UNCHANGED <<pending_tasks, num_idle_threads, terminated, refs,
                   destroyed, running, unposted, create_failures>>

(* ~WorkerPoolImpl drops its reference after Terminate(). *)
OwnerRelease ==
    /\ owner = "broadcast"
    /\ owner' = "released"
    /\ Release
    /\ UNCHANGED <<num_idle_threads, terminated, pc, running, unposted,
                   create_failures>>

Next ==
    \/ \E t \in Tasks : AddTask(t)
    \/ \E w \in Threads : \/ WaitForTask(w)
                          \/ WakeUp(w)
                          \/ AfterTimedWait(w)
                          \/ FinishTask(w)
    \/ Terminate
    \/ TerminateBroadcast
    \/ OwnerRelease

(***************************************************************************)
(* The operating system schedules every thread that can run, so a thread   *)
(* that needs only lock_ gets on.  No fairness for the end of a task, for  *)
(* wakeups nobody caused, or for posting and terminating.                  *)
(***************************************************************************)
Fairness ==
    /\ \A w \in Threads : WF_vars(WaitForTask(w)) /\ WF_vars(AfterTimedWait(w))
    /\ WF_vars(TerminateBroadcast)
    /\ WF_vars(OwnerRelease)

Spec == Init /\ [][Next]_vars
FairSpec == Spec /\ Fairness

-----------------------------------------------------------------------------
(* Type correctness of the pool's fields and of the threads' control state. *)
TypeOK ==
    /\ pending_tasks \in Seq(Tasks)
    /\ num_idle_threads \in Nat
    /\ terminated \in BOOLEAN
    /\ refs \in Nat
    /\ destroyed \in BOOLEAN
    /\ owner \in OwnerState
    /\ pc \in [Threads -> ThreadState]
    /\ running \in [Threads -> Tasks \cup {NoTask}]
    /\ unposted \in SUBSET Tasks
    /\ create_failures \in Nat

(***************************************************************************)
(* No posted task depends on another task's end: while the pool is open,   *)
(* there are at least as many threads on their way to the queue (created   *)
(* or back from a task, or woken) as there are tasks in it, save for the   *)
(* threads pthread_create refused.  This is what the comparison of         *)
(* num_idle_threads_ with the queue's length in AddTask is for; it must    *)
(* survive lost signals, timeouts, spurious wakeups and busy threads that  *)
(* come back and take a task an idle thread was woken for.                 *)
(***************************************************************************)
PendingCovered ==
    ~terminated =>
        Len(pending_tasks) <=
            Count("ready") + Count("woken") + create_failures

(* num_idle_threads_, changed before and after TimedWait, is the number of *)
(* threads between the two.                                                *)
IdleCountExact == num_idle_threads = Count("waiting") + Count("woken")

(***************************************************************************)
(* The references held by the owner and by every WorkerThread (a leaked    *)
(* one included) keep the pool alive: once ~PosixDynamicThreadPool ran no  *)
(* thread is left that could touch lock_ or the queue.                     *)
(***************************************************************************)
PoolOutlivesThreads ==
    destroyed => owner = "released" /\ \A w \in Threads : pc[w] = "none"

OwnerRefs == IF owner = "released" THEN 0 ELSE 1

(* The reference count is the number of scoped_refptrs to the pool: one per *)
(* WorkerThread, leaked or not, and the owner's.                            *)
RefCountExact ==
    /\ refs = Cardinality(Live) + create_failures + OwnerRefs
    /\ destroyed <=> refs = 0

(* The inductive invariant behind the safety properties. *)
IInv ==
    /\ TypeOK
    /\ IdleCountExact
    /\ RefCountExact
    /\ PendingCovered
    /\ terminated <=> owner # "open"

(***************************************************************************)
(* Every task posted to an open pool is started, even if no running task   *)
(* ever ends (tasks may wait for one another): PostTask needs no thread to *)
(* become free.  Nothing is promised once pthread_create has failed.       *)
(***************************************************************************)
EveryTaskStarts ==
    \A t \in Tasks :
        (\E i \in DOMAIN pending_tasks : pending_tasks[i] = t)
            ~> (terminated \/ create_failures > 0 \/ \E w \in Threads : running[w] = t)

(***************************************************************************)
(* "Wakes up all the idle threads to let them exit": after Terminate() no  *)
(* thread stays blocked, although the flag is set before the broadcast and *)
(* outside its critical section.                                           *)
(***************************************************************************)
IdleThreadsWakeOnTerminate ==
    terminated ~> [](In("waiting") = {})
=============================================================================
