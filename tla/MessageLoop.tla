----------------------------- MODULE MessageLoop -----------------------------
(***************************************************************************)
(* base::Thread running a MessageLoop on a MessagePumpDefault: the owner   *)
(* of the Thread starts and stops it, other threads post tasks through the *)
(* MessageLoopProxy, and the tasks post more tasks, run nested loops and   *)
(* quit them (base/message_loop.cc, base/message_pump_default.cc,          *)
(* base/message_loop_proxy_impl.cc, base/threading/thread.cc).             *)
(*                                                                         *)
(* Shared between threads are incoming_queue_ (under its lock), the pump's *)
(* event_, the proxy's pointer (under its lock) and the fields of Thread.  *)
(* Everything else belongs to the loop's thread, so one action of that     *)
(* thread runs from one shared access, or one decision of the client's     *)
(* task, to the next.  A TimeTicks is a number and 0 is the null time.     *)
(* Tasks are numbered in the order in which they are posted.               *)
(***************************************************************************)
EXTENDS Naturals, Sequences, SequencesExt

CONSTANTS
  MaxTasks,    \* bound on the tasks ever posted, the quit tasks included
  Delays,      \* the delays clients ask for; 0 is PostTask
  MaxTime,     \* bound on the clock
  MaxDepth,    \* bound on the nesting of Run
  MaxStarts    \* bound on the times the Thread is started

ASSUME BoundsAssumption ==
  /\ MaxTasks \in Nat /\ MaxTime \in Nat \ {0} /\ MaxDepth \in Nat \ {0}
  /\ MaxStarts \in Nat /\ Delays \subseteq Nat

VARIABLES
  incoming,    \* incoming_queue_
  work,        \* work_queue_
  delayed,     \* delayed_work_queue_, in the order of sequence_num
  deferred,    \* deferred_non_nestable_work_queue_
  runs,        \* the Run calls on the stack of the loop's thread, outermost first
  nestable_tasks_allowed,
  recent_time, \* recent_time_
  keep_running,\* keep_running_ of the MessagePumpDefault ...
  event,       \* ... its event_ is signaled ...
  delayed_work_time, \* ... and its delayed_work_time_
  now,         \* TimeTicks::Now()
  proxy,       \* target_message_loop_ is set
  proxy_locked,\* a poster holds message_loop_lock_ and has ScheduleWork to call
  thread,      \* where ThreadMain is
  owner,       \* where the owner of the Thread is
  started_event, \* startup_data_->event
  message_loop,\* Thread::message_loop_ is not NULL
  stopping,    \* Thread::stopping_
  starts,      \* how often the Thread was started
  posted,      \* how many tasks were posted
  ran,         \* history: the tasks that were started
  deleted,     \* history: the tasks that were deleted with a loop
  quit_task    \* history: the ThreadQuitTask of this start, 0 before StopSoon

loopVars == <<work, delayed, deferred, runs, nestable_tasks_allowed, recent_time>>
pumpVars == <<keep_running, event, delayed_work_time>>
threadVars == <<thread, owner, started_event, message_loop, stopping, starts>>
proxyVars == <<proxy, proxy_locked>>
vars == <<incoming, loopVars, pumpVars, now, proxyVars, threadVars, posted, ran, deleted, quit_task>>

NoTask == 0

Task == [id : 1..MaxTasks, time : 0..MaxTime, nestable : BOOLEAN, quit : BOOLEAN]

\* One MessageLoop::Run: its RunState, where MessagePumpDefault::Run is, its
\* did_work, the task RunTask is running and whether that task has already run
\* a nested loop (a task does so at most once).  Between: no task is running.
Between(quit, pc, did_work) ==
  [quit_received |-> quit, pc |-> pc, did_work |-> did_work,
   task |-> NoTask, is_quit |-> FALSE, nested |-> FALSE]

Within(r, quit, task, is_quit, nested) ==
  [quit_received |-> quit, pc |-> r.pc, did_work |-> r.did_work,
   task |-> task, is_quit |-> is_quit, nested |-> nested]

NewRun(quit) == Between(quit, "DoWork", FALSE)

Top == runs[Len(runs)]

SetTop(r) == runs' = [runs EXCEPT ![Len(runs)] = r]

InTask == Top.task # NoTask

Init ==
  /\ incoming = <<>> /\ work = <<>> /\ delayed = <<>> /\ deferred = <<>>
  /\ runs = <<>> /\ nestable_tasks_allowed = TRUE /\ recent_time = 0
  /\ keep_running = TRUE /\ event = FALSE /\ delayed_work_time = 0 /\ now = 1
  /\ proxy = FALSE /\ proxy_locked = FALSE
  /\ thread = "none" /\ owner = "idle" /\ started_event = FALSE
  /\ message_loop = FALSE /\ stopping = FALSE /\ starts = 0
  /\ posted = 0 /\ ran = {} /\ deleted = {} /\ quit_task = NoTask

-----------------------------------------------------------------------------
(* Posting.                                                                *)

CalculateDelayedRuntime(delay_ms) == IF delay_ms > 0 THEN now + delay_ms ELSE 0

\* The locked part of AddToIncomingQueue.  The caller has ScheduleWork to call
\* if the queue was empty.
AddToIncomingQueue(delay, nestable, quit) ==
  /\ posted < MaxTasks
  /\ CalculateDelayedRuntime(delay) <= MaxTime
  /\ posted' = posted + 1
  /\ incoming' = Append(incoming, [id |-> posted + 1, time |-> CalculateDelayedRuntime(delay),
                                   nestable |-> nestable, quit |-> quit])

\* Mutant: the condition is swapped.
MustScheduleWorkSwapped == incoming # <<>>

\* event_ belongs to the pump, and is signaled only if the queue was empty.
MustScheduleWork == incoming = <<>>

ScheduleWork == event' = TRUE /\ UNCHANGED <<keep_running, delayed_work_time>>

\* MessageLoopProxyImpl::PostTaskHelper holds the proxy's lock until
\* ScheduleWork has returned; it refuses the task if the loop is gone.
ProxyPost(delay, nestable) ==
  /\ proxy /\ ~proxy_locked
  /\ AddToIncomingQueue(delay, nestable, FALSE)
  /\ proxy_locked' = MustScheduleWork
  /\ UNCHANGED <<loopVars, pumpVars, now, proxy, threadVars, ran, deleted, quit_task>>

ProxyScheduleWork ==
  /\ proxy_locked
  /\ proxy_locked' = FALSE
  /\ ScheduleWork
  /\ UNCHANGED <<incoming, loopVars, now, proxy, threadVars, posted, ran, deleted, quit_task>>

-----------------------------------------------------------------------------
(* The owner of the Thread.                                                *)

\* StartWithOptions, up to the wait for the new thread.
Start ==
  /\ owner = "idle" /\ starts < MaxStarts
  /\ owner' = "starting" /\ thread' = "created" /\ starts' = starts + 1
  /\ started_event' = FALSE /\ quit_task' = NoTask
  /\ UNCHANGED <<incoming, loopVars, pumpVars, now, proxyVars, message_loop, stopping,
                 posted, ran, deleted>>

StartWaited ==
  /\ owner = "starting" /\ started_event
  /\ owner' = "started"
  /\ UNCHANGED <<incoming, loopVars, pumpVars, now, proxyVars, thread, started_event, message_loop,
                 stopping, starts, posted, ran, deleted, quit_task>>

\* The owner posts to message_loop_ itself, without the proxy.  It has no need
\* of delays or of non-nestable tasks, which others post.
OwnerPost ==
  /\ owner = "started" /\ ~stopping
  /\ AddToIncomingQueue(0, TRUE, FALSE)
  /\ owner' = IF MustScheduleWork THEN "signal" ELSE "started"
  /\ UNCHANGED <<loopVars, pumpVars, now, proxyVars, thread, started_event, message_loop,
                 stopping, starts, ran, deleted, quit_task>>

\* Mutant: the quit task is queued without waking the pump.
StopSoonNoWake ==
  /\ owner = "started" /\ ~stopping /\ message_loop
  /\ stopping' = TRUE
  /\ AddToIncomingQueue(0, TRUE, TRUE)
  /\ quit_task' = posted + 1
  /\ UNCHANGED <<loopVars, pumpVars, now, proxyVars, thread, owner, started_event, message_loop,
                 starts, ran, deleted>>

StopSoon ==
  /\ owner = "started" /\ ~stopping /\ message_loop
  /\ stopping' = TRUE
  /\ AddToIncomingQueue(0, TRUE, TRUE)
  /\ quit_task' = posted + 1
  /\ owner' = IF MustScheduleWork THEN "signal" ELSE "started"
  /\ UNCHANGED <<loopVars, pumpVars, now, proxyVars, thread, started_event, message_loop,
                 starts, ran, deleted>>

OwnerScheduleWork ==
  /\ owner = "signal"
  /\ owner' = "started"
  /\ ScheduleWork
  /\ UNCHANGED <<incoming, loopVars, now, proxyVars, thread, started_event, message_loop,
                 stopping, starts, posted, ran, deleted, quit_task>>

\* Stop after its StopSoon, or after one of the client's: PlatformThread::Join
\* and the reset of the Thread.
Stop ==
  /\ owner = "started" /\ stopping
  /\ owner' = "join"
  /\ UNCHANGED <<incoming, loopVars, pumpVars, now, proxyVars, thread, started_event, message_loop,
                 stopping, starts, posted, ran, deleted, quit_task>>

Joined ==
  /\ owner = "join" /\ thread = "exited"
  /\ owner' = "idle" /\ thread' = "none" /\ stopping' = FALSE
  /\ UNCHANGED <<incoming, loopVars, pumpVars, now, proxyVars, started_event, message_loop,
                 starts, posted, ran, deleted, quit_task>>

-----------------------------------------------------------------------------
(* ThreadMain before and after Run.                                        *)

NewPump == keep_running' = TRUE /\ event' = FALSE /\ delayed_work_time' = 0

\* The constructor of the MessageLoop and of its pump, and message_loop_.
ThreadMain ==
  /\ thread = "created"
  /\ thread' = "init" /\ message_loop' = TRUE /\ proxy' = TRUE
  /\ nestable_tasks_allowed' = TRUE /\ recent_time' = 0 /\ NewPump
  /\ UNCHANGED <<incoming, work, delayed, deferred, runs, now, proxy_locked, owner, started_event,
                 stopping, starts, posted, ran, deleted, quit_task>>

\* Init() is done: wake the starter and enter Run.
ThreadRun ==
  /\ thread = "init"
  /\ thread' = "run" /\ started_event' = TRUE /\ runs' = <<NewRun(FALSE)>>
  /\ UNCHANGED <<incoming, work, delayed, deferred, nestable_tasks_allowed, recent_time, pumpVars, now,
                 proxyVars, owner, message_loop, stopping, starts, posted, ran, deleted, quit_task>>

\* Run has returned: CleanUp(), then message_loop_ = NULL.
ThreadCleanUp ==
  /\ thread = "cleanup"
  /\ thread' = "destroy" /\ message_loop' = FALSE
  /\ UNCHANGED <<incoming, loopVars, pumpVars, now, proxyVars, owner, started_event, stopping, starts,
                 posted, ran, deleted, quit_task>>

Ids(q) == {q[i].id : i \in DOMAIN q}

\* One round of the loop in ~MessageLoop; it ends when there was nothing to reload.
DeletePendingTasks ==
  /\ thread = "destroy"
  /\ deleted' = deleted \cup Ids(work) \cup Ids(deferred) \cup Ids(delayed) \cup Ids(incoming)
  /\ work' = <<>> /\ deferred' = <<>> /\ delayed' = <<>> /\ incoming' = <<>>
  /\ thread' = IF incoming = <<>> THEN "orphan" ELSE "destroy"
  /\ UNCHANGED <<runs, nestable_tasks_allowed, recent_time, pumpVars, now, proxyVars, owner, started_event,
                 message_loop, stopping, starts, posted, ran, quit_task>>

\* Mutant: the proxy's pointer is cleared without its lock.
DestroyLoopNoLock ==
  /\ thread = "orphan"
  /\ proxy' = FALSE /\ thread' = "exited"
  /\ deleted' = deleted \cup Ids(incoming) /\ incoming' = <<>>
  /\ UNCHANGED <<loopVars, pumpVars, now, proxy_locked, owner, started_event, message_loop, stopping,
                 starts, posted, ran, quit_task>>

\* WillDestroyCurrentMessageLoop of the proxy, under its lock, and the end of
\* the MessageLoop, whose queues go with it.
DestroyLoop ==
  /\ thread = "orphan" /\ ~proxy_locked
  /\ proxy' = FALSE /\ thread' = "exited"
  /\ deleted' = deleted \cup Ids(incoming) /\ incoming' = <<>>
  /\ UNCHANGED <<loopVars, pumpVars, now, proxy_locked, owner, started_event, message_loop, stopping,
                 starts, posted, ran, quit_task>>

-----------------------------------------------------------------------------
(* MessagePumpDefault::Run and the Delegate's methods.                     *)

\* Run returns: into the task that called it, which takes back the permission
\* to nest (ScopedNestableTaskAllower), or into ThreadMain.
LeaveRun ==
  /\ runs' = Front(runs)
  /\ thread' = IF Len(runs) = 1 THEN "cleanup" ELSE thread
  /\ nestable_tasks_allowed' = (Len(runs) = 1)
  /\ keep_running' = TRUE
  /\ UNCHANGED <<event, delayed_work_time>>

\* What the pump does after the Delegate's method at r.pc returned did.  If the
\* method ran a ThreadQuitTask, that has called Quit.
AfterMethod(r, did) ==
  LET quit == r.quit_received \/ r.is_quit
  IN CASE r.pc = "DoWork" -> Between(quit, "DoDelayedWork", did)
       [] r.pc = "DoDelayedWork" ->
            Between(quit, IF r.did_work \/ did THEN "DoWork" ELSE "DoIdleWork", FALSE)
       [] r.pc = "DoIdleWork" -> Between(quit, IF did THEN "DoWork" ELSE "Wait", FALSE)

Returned(did) == SetTop(AfterMethod(Top, did)) /\ UNCHANGED thread

\* Called with the task at the front of a queue: RunTask.
RunTask(t) ==
  /\ SetTop(Within(Top, Top.quit_received, t.id, t.quit, FALSE))
  /\ nestable_tasks_allowed' = FALSE
  /\ ran' = ran \cup {t.id}
  /\ UNCHANGED thread

\* Mutant: the depth is not looked at.
CanRunAlways(t) == TRUE

CanRun(t) == t.nestable \/ Len(runs) = 1

\* The task delayed_work_queue_ has on top: the first of those due first.
TopIndex(q) == CHOOSE i \in DOMAIN q : \A j \in DOMAIN q :
                 q[i].time < q[j].time \/ (q[i].time = q[j].time /\ i <= j)

AtMethod(pc) == thread = "run" /\ ~InTask /\ Top.pc = pc

\* Mutant: incoming_queue_ is cleared although it was not loaded.
ReloadedAlways == <<>>

\* ReloadWorkQueue if work_queue_ is empty.
ReloadWorkQueue == IF work = <<>> THEN incoming ELSE work
Reloaded == IF work = <<>> THEN <<>> ELSE incoming

DoWorkNothing ==
  /\ ~nestable_tasks_allowed \/ ReloadWorkQueue = <<>>
  /\ Returned(FALSE)
  /\ UNCHANGED <<incoming, work, delayed, deferred, nestable_tasks_allowed, pumpVars, ran>>

\* One turn of the loop over work_queue_: the task is moved to the delayed
\* queue, run, or deferred.
DoWorkTask(t) ==
  /\ work' = Tail(ReloadWorkQueue)
  /\ incoming' = Reloaded
  /\ \/ /\ t.time # 0
        /\ delayed' = Append(delayed, t)
        /\ delayed_work_time' = IF TopIndex(delayed') = Len(delayed')
                                THEN t.time ELSE delayed_work_time
        /\ UNCHANGED <<deferred, runs, nestable_tasks_allowed, keep_running, event, thread, ran>>
     \/ /\ t.time = 0 /\ CanRun(t)
        /\ RunTask(t)
        /\ UNCHANGED <<delayed, deferred, pumpVars>>
     \/ /\ t.time = 0 /\ ~CanRun(t)
        /\ deferred' = Append(deferred, t)
        /\ UNCHANGED <<delayed, runs, nestable_tasks_allowed, pumpVars, thread, ran>>

DoWork ==
  /\ AtMethod("DoWork")
  /\ \/ DoWorkNothing
     \/ /\ nestable_tasks_allowed /\ ReloadWorkQueue # <<>>
        /\ DoWorkTask(Head(ReloadWorkQueue))
  /\ UNCHANGED <<recent_time, now, proxyVars, owner, started_event, message_loop, stopping, starts,
                 posted, deleted, quit_task>>

\* recent_time_ after the comparison with the time of the task on top.
RecentTime(next_run_time) == IF next_run_time > recent_time THEN now ELSE recent_time

DelayedQueueEmpty ==
  /\ recent_time' = 0 /\ delayed_work_time' = 0
  /\ Returned(FALSE)
  /\ UNCHANGED <<delayed, deferred, nestable_tasks_allowed, ran>>

\* *next_delayed_work_time when a task was taken off the queue and rest is left.
NextDelayedWorkTime(rest) ==
  IF rest = <<>> THEN delayed_work_time ELSE rest[TopIndex(rest)].time

DelayedTask(i) ==
  LET t == delayed[i] rest == RemoveAt(delayed, i)
  IN /\ recent_time' = RecentTime(t.time)
     /\ IF t.time > recent_time'
        THEN /\ delayed_work_time' = t.time
             /\ Returned(FALSE)
             /\ UNCHANGED <<delayed, deferred, nestable_tasks_allowed, ran>>
        ELSE /\ delayed' = rest
             /\ delayed_work_time' = NextDelayedWorkTime(rest)
             /\ \/ CanRun(t) /\ RunTask(t) /\ UNCHANGED deferred
                \/ /\ ~CanRun(t)
                   /\ deferred' = Append(deferred, t)
                   /\ Returned(FALSE)
                   /\ UNCHANGED <<nestable_tasks_allowed, ran>>

DoDelayedWork ==
  /\ AtMethod("DoDelayedWork")
  /\ \/ (~nestable_tasks_allowed \/ delayed = <<>>) /\ DelayedQueueEmpty
     \/ nestable_tasks_allowed /\ delayed # <<>> /\ DelayedTask(TopIndex(delayed))
  /\ UNCHANGED <<incoming, work, keep_running, event, now, proxyVars, owner, started_event, message_loop, stopping,
                 starts, posted, deleted, quit_task>>

\* Mutant: quit_received is tested before the deferred tasks have run.
DoIdleWorkQuitFirst ==
  /\ AtMethod("DoIdleWork")
  /\ \/ /\ Len(runs) = 1 /\ deferred # <<>> /\ ~Top.quit_received
        /\ deferred' = Tail(deferred)
        /\ RunTask(Head(deferred))
        /\ UNCHANGED pumpVars
     \/ /\ Top.quit_received \/ Len(runs) > 1 \/ deferred = <<>>
        /\ \/ Top.quit_received /\ LeaveRun
           \/ ~Top.quit_received /\ Returned(FALSE) /\ UNCHANGED <<nestable_tasks_allowed, pumpVars>>
        /\ UNCHANGED <<deferred, ran>>
  /\ UNCHANGED <<incoming, work, delayed, recent_time, now, proxyVars, owner, started_event,
                 message_loop, stopping, starts, posted, deleted, quit_task>>

\* ProcessNextDelayedNonNestableTask, or Quit of the pump.
DoIdleWork ==
  /\ AtMethod("DoIdleWork")
  /\ \/ /\ Len(runs) = 1 /\ deferred # <<>>
        /\ deferred' = Tail(deferred)
        /\ RunTask(Head(deferred))
        /\ UNCHANGED pumpVars
     \/ /\ ~(Len(runs) = 1 /\ deferred # <<>>)
        /\ \/ Top.quit_received /\ LeaveRun
           \/ ~Top.quit_received /\ Returned(FALSE) /\ UNCHANGED <<nestable_tasks_allowed, pumpVars>>
        /\ UNCHANGED <<deferred, ran>>
  /\ UNCHANGED <<incoming, work, delayed, recent_time, now, proxyVars, owner, started_event,
                 message_loop, stopping, starts, posted, deleted, quit_task>>

MoveTo(pc) == SetTop(Between(Top.quit_received, pc, FALSE))

\* Mutant: event_ is reset before the pump waits for it.
PumpWaitResets ==
  /\ AtMethod("Wait")
  /\ IF delayed_work_time # 0 /\ delayed_work_time <= now
     THEN delayed_work_time' = 0 /\ UNCHANGED event /\ MoveTo("DoWork")
     ELSE event' = FALSE /\ UNCHANGED delayed_work_time /\ MoveTo("Sleep")
  /\ UNCHANGED keep_running
  /\ UNCHANGED <<incoming, work, delayed, deferred, nestable_tasks_allowed, recent_time, now,
                 proxyVars, threadVars, posted, ran, deleted, quit_task>>

\* Decide whether to sleep, and how long.
PumpWait ==
  /\ AtMethod("Wait")
  /\ IF delayed_work_time # 0 /\ delayed_work_time <= now
     THEN delayed_work_time' = 0 /\ UNCHANGED <<keep_running, event>> /\ MoveTo("DoWork")
     ELSE UNCHANGED pumpVars /\ MoveTo("Sleep")
  /\ UNCHANGED <<incoming, work, delayed, deferred, nestable_tasks_allowed, recent_time, now,
                 proxyVars, threadVars, posted, ran, deleted, quit_task>>

\* event_ was signaled, or TimedWait timed out.
PumpWakeUp ==
  /\ AtMethod("Sleep")
  /\ \/ event /\ event' = FALSE
     \/ delayed_work_time # 0 /\ now >= delayed_work_time /\ UNCHANGED event
  /\ MoveTo("DoWork")
  /\ UNCHANGED <<keep_running, delayed_work_time>>
  /\ UNCHANGED <<incoming, work, delayed, deferred, nestable_tasks_allowed, recent_time, now,
                 proxyVars, threadVars, posted, ran, deleted, quit_task>>

-----------------------------------------------------------------------------
(* What a running task does.                                               *)

Running == thread = "run" /\ InTask

TaskPost(delay, nestable) ==
  /\ Running /\ ~Top.is_quit
  /\ AddToIncomingQueue(delay, nestable, FALSE)
  /\ IF MustScheduleWork THEN ScheduleWork ELSE UNCHANGED pumpVars
  /\ UNCHANGED <<loopVars, now, proxyVars, threadVars, ran, deleted, quit_task>>

\* The task runs a nested loop, with Run or RunAllPending, after
\* SetNestableTasksAllowed(true) or without it.  Only RunAllPending makes sense
\* without it: Run could then never be left.
RunNested(allow, all_pending) ==
  /\ Running /\ ~Top.is_quit /\ ~Top.nested /\ keep_running
  /\ Len(runs) < MaxDepth
  /\ allow \/ all_pending
  /\ LET caller == Within(Top, Top.quit_received, Top.task, FALSE, TRUE)
     IN runs' = Append([runs EXCEPT ![Len(runs)] = caller], NewRun(all_pending))
  /\ nestable_tasks_allowed' = allow
  /\ IF allow THEN ScheduleWork ELSE UNCHANGED pumpVars
  /\ UNCHANGED <<incoming, work, delayed, deferred, recent_time, now, proxyVars, threadVars,
                 posted, ran, deleted, quit_task>>

\* A task in a nested loop ends that loop.  Ending the outermost loop is for
\* Thread::Stop.
Quit ==
  /\ Running /\ ~Top.is_quit /\ Len(runs) > 1
  /\ SetTop(Within(Top, TRUE, Top.task, FALSE, Top.nested))
  /\ UNCHANGED <<incoming, work, delayed, deferred, nestable_tasks_allowed, recent_time, pumpVars, now,
                 proxyVars, threadVars, posted, ran, deleted, quit_task>>

QuitNow ==
  /\ Running /\ ~Top.is_quit /\ Len(runs) > 1
  /\ keep_running' = FALSE
  /\ UNCHANGED <<incoming, loopVars, event, delayed_work_time, now, proxyVars, threadVars, posted, ran, deleted, quit_task>>

\* The task returns into RunTask.
TaskReturn ==
  /\ Running
  /\ \/ /\ keep_running
        /\ nestable_tasks_allowed' = TRUE
        /\ Returned(TRUE)
        /\ UNCHANGED pumpVars
     \/ ~keep_running /\ LeaveRun
  /\ UNCHANGED <<incoming, work, delayed, deferred, recent_time, now, proxyVars, owner,
                 started_event, message_loop, stopping, starts, posted, ran, deleted, quit_task>>

Tick ==
  /\ now < MaxTime
  /\ now' = now + 1
  /\ UNCHANGED <<incoming, loopVars, pumpVars, proxyVars, threadVars, posted, ran, deleted, quit_task>>

-----------------------------------------------------------------------------
LoopStep ==
  \/ DoWork \/ DoDelayedWork \/ DoIdleWork \/ PumpWait \/ PumpWakeUp \/ TaskReturn

ThreadStep ==
  \/ ThreadMain \/ ThreadRun \/ ThreadCleanUp \/ DeletePendingTasks \/ DestroyLoop

OwnerStep == StartWaited \/ OwnerScheduleWork \/ Stop \/ Joined

Next ==
  \/ \E d \in Delays, n \in BOOLEAN : ProxyPost(d, n) \/ TaskPost(d, n)
  \/ ProxyScheduleWork
  \/ Start \/ OwnerPost \/ StopSoon \/ OwnerStep
  \/ ThreadStep
  \/ LoopStep
  \/ \E allow, all_pending \in BOOLEAN : RunNested(allow, all_pending)
  \/ Quit \/ QuitNow
  \/ Tick

Spec == Init /\ [][Next]_vars

(***************************************************************************)
(* The threads run whenever they can, a task returns in the end, and time  *)
(* goes on.  Nobody has to post, to start or to stop anything.             *)
(***************************************************************************)
FairSpec ==
  /\ Spec
  /\ WF_vars(LoopStep) /\ WF_vars(ThreadStep) /\ WF_vars(OwnerStep)
  /\ WF_vars(ProxyScheduleWork) /\ WF_vars(Tick)

-----------------------------------------------------------------------------
Run == [quit_received : BOOLEAN, pc : {"DoWork", "DoDelayedWork", "DoIdleWork", "Wait", "Sleep"},
        did_work : BOOLEAN, task : 0..MaxTasks, is_quit : BOOLEAN, nested : BOOLEAN]

(***************************************************************************)
(* Type correctness; only delayed tasks are in delayed_work_queue_ and     *)
(* only non-nestable ones in deferred_non_nestable_work_queue_, and        *)
(* nestable_tasks_allowed_ is false exactly while the innermost loop may   *)
(* not run tasks (DCHECK in RunTask).                                      *)
(***************************************************************************)
TypeOK ==
  /\ incoming \in Seq(Task) /\ work \in Seq(Task)
  /\ delayed \in Seq({t \in Task : t.time # 0})
  /\ deferred \in Seq({t \in Task : ~t.nestable})
  /\ runs \in Seq(Run) /\ Len(runs) <= MaxDepth
  /\ nestable_tasks_allowed \in BOOLEAN
  /\ recent_time \in 0..MaxTime /\ now \in 1..MaxTime
  /\ keep_running \in BOOLEAN /\ event \in BOOLEAN /\ delayed_work_time \in 0..MaxTime
  /\ proxy \in BOOLEAN /\ proxy_locked \in BOOLEAN
  /\ thread \in {"none", "created", "init", "run", "cleanup", "destroy", "orphan", "exited"}
  /\ owner \in {"idle", "starting", "started", "signal", "join"}
  /\ started_event \in BOOLEAN /\ message_loop \in BOOLEAN /\ stopping \in BOOLEAN
  /\ starts \in 0..MaxStarts /\ posted \in 0..MaxTasks
  /\ ran \subseteq 1..posted /\ deleted \subseteq 1..posted
  /\ quit_task \in 0..MaxTasks
  /\ (thread = "run") = (runs # <<>>)
  /\ (thread = "run" /\ InTask) => ~nestable_tasks_allowed

Queued == <<Ids(incoming), Ids(work), Ids(delayed), Ids(deferred), ran, deleted>>

(***************************************************************************)
(* Every posted task is in exactly one place: in one of the four queues,   *)
(* started, or deleted with its loop.  None is lost, doubled or run twice  *)
(* by the swap of the queues, by nested loops or by the destructor.        *)
(***************************************************************************)
TasksConserved ==
  /\ UNION Range(Queued) = 1..posted
  /\ \A i, j \in DOMAIN Queued : i # j => Queued[i] \cap Queued[j] = {}
  /\ \A q \in {incoming, work, delayed, deferred} : \A i, j \in DOMAIN q :
       q[i].id = q[j].id => i = j

(* The four queues are well-formed and hold every task that is still to run. *)
QueuesConsistent == TypeOK /\ TasksConserved

Asleep == thread = "run" /\ ~InTask /\ Top.pc = "Sleep"

(***************************************************************************)
(* No lost wake-up: AddToIncomingQueue signals only for the first task of  *)
(* an empty queue, and still a pump that sleeps over a queued task has its *)
(* event_ signaled or about to be, however nested loops shared the event.  *)
(***************************************************************************)
NoLostWakeup ==
  (Asleep /\ nestable_tasks_allowed /\ (incoming # <<>> \/ work # <<>>))
    => event \/ proxy_locked \/ owner = "signal"

(***************************************************************************)
(* A pump that sleeps wakes up for the next delayed task: delayed_work_time_ *)
(* is shared by all nested Runs and rewritten by each, and is still never  *)
(* null or too late when the innermost one goes to sleep.                  *)
(***************************************************************************)
WakesForDelayedTask ==
  (Asleep /\ nestable_tasks_allowed /\ delayed # <<>>)
    => delayed_work_time \in 1..delayed[TopIndex(delayed)].time

(* The pump does not sleep over work: not over posted tasks, and not past the *)
(* time of a delayed one.                                                     *)
PumpWakesUp == NoLostWakeup /\ WakesForDelayedTask

(***************************************************************************)
(* When Run has returned into ThreadMain, the ThreadQuitTask has run, and  *)
(* so has every task posted without a delay before it, deferred ones too.  *)
(***************************************************************************)
DrainedBeforeExit ==
  thread = "cleanup" =>
    /\ quit_task \in ran
    /\ \A q \in {incoming, work, deferred} : \A i \in DOMAIN q :
         q[i].time = 0 => q[i].id > quit_task

(***************************************************************************)
(* The handshake: whoever posts, or calls ScheduleWork under the proxy's   *)
(* lock, finds the loop alive, and Join leaves no loop behind (DCHECKs of  *)
(* StartWithOptions and Stop).  So does the owner that calls ScheduleWork  *)
(* after a post to message_loop_ itself, up to StopSoon: the task StopSoon *)
(* queues may have ended the loop by then, and nothing else can have.  The *)
(* pump, of which AddToIncomingQueue holds a reference for this case, is   *)
(* still the one of that loop: no other thread has been started.           *)
(***************************************************************************)
LoopOutlivesPosts ==
  /\ proxy => thread \in {"init", "run", "cleanup", "destroy", "orphan"}
  /\ proxy_locked => proxy
  /\ (owner \in {"started", "signal"} /\ ~stopping) => (thread = "run" /\ message_loop)
  /\ (owner = "signal" /\ thread # "run") =>
       /\ thread \in {"cleanup", "destroy", "orphan", "exited"}
       /\ quit_task \in ran
  /\ owner = "idle" => ~message_loop /\ ~proxy

Started(t) == t.id \in ran' \ ran

QueuedTasks == Range(incoming) \cup Range(work) \cup Range(delayed) \cup Range(deferred)

(***************************************************************************)
(* message_loop.h: tasks posted without a delay run in FIFO order; a       *)
(* nestable task never overtakes an older nestable one, on whichever level *)
(* of nesting it runs, and no non-nestable task runs on an inner level.    *)
(***************************************************************************)
RunInOrder ==
  [][\A t \in QueuedTasks : Started(t) =>
       /\ ~t.nestable => Len(runs) = 1
       /\ (t.nestable /\ t.time = 0) =>
            \A u \in QueuedTasks : (u.nestable /\ u.time = 0) => u.id >= t.id]_vars

(***************************************************************************)
(* A delayed task never runs before its time, although recent_time_ is a   *)
(* cached clock, nor while one due earlier is in the queue; of two due at  *)
(* the same time the one that was queued first runs first.                 *)
(***************************************************************************)
NeverEarly ==
  [][\A i \in DOMAIN delayed : Started(delayed[i]) =>
       /\ delayed[i].time <= now
       /\ \A j \in DOMAIN delayed :
            \/ delayed[i].time < delayed[j].time
            \/ delayed[i].time = delayed[j].time /\ i <= j]_vars

(* Tasks start in the order the interface promises: first in, first out, and *)
(* delayed ones by their time and never before it.                           *)
TasksInOrder == RunInOrder /\ NeverEarly

(***************************************************************************)
(* Every posted task is run or goes with its loop: the queues empty again  *)
(* and again of the nestable tasks, which nested loops run too, and of all *)
(* tasks unless a nested Run that nobody quits keeps the rest waiting.     *)
(***************************************************************************)
EveryTaskRuns ==
  /\ []<>(\A t \in QueuedTasks : ~t.nestable)
  /\ []<>(QueuedTasks = {} \/ Len(runs) > 1)

\* The ThreadQuitTask has ended a nested Run instead of the outermost one.
QuitSpent == thread = "run" /\ quit_task \in ran /\ ~runs[1].quit_received

(***************************************************************************)
(* Thread::Stop does not wait forever, unless a nested Run got in its way: *)
(* the ThreadQuitTask ends whichever Run is the innermost, and a nested    *)
(* Run that nobody quits is never left.                                    *)
(***************************************************************************)
StopReturns == []<>(~stopping \/ QuitSpent \/ Len(runs) > 1)
=============================================================================
