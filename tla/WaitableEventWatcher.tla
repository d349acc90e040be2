-------------------------- MODULE WaitableEventWatcher --------------------------
(***************************************************************************)
(* base::WaitableEventWatcher on POSIX (base/synchronization/              *)
(* waitable_event_watcher_posix.cc): asynchronous waits on WaitableEvents, *)
(* delivered by the MessageLoop that started them.                         *)
(*                                                                         *)
(* The watchers belong to one MessageLoop and are used on its thread only. *)
(* Signal comes from other threads, in several steps, with the event's     *)
(* lock held from the first to the last.  AsyncWaiters and Flags live on   *)
(* the heap: the address of one that was freed may be given to the next,   *)
(* while a watcher's waiter_ and kernel_ keep what they were set to by an  *)
(* earlier watch.                                                          *)
(***************************************************************************)
EXTENDS Naturals, Sequences, FiniteSets, SequencesExt

CONSTANTS
    Watchers,       \* WaitableEventWatchers of the loop
    Events,         \* WaitableEvents, each with its kernel
    ManualReset,    \* those constructed with manual_reset = true
    Addresses,      \* heap addresses for AsyncWaiters
    Flags,          \* heap addresses for Flags
    None            \* NULL

ASSUME ManualResetEvents == ManualReset \subseteq Events
ASSUME NoneIsNull ==
    None \notin Events \cup Addresses \cup Flags
                \cup [flag : Flags, watcher : Watchers, event : Events]

VARIABLES
    watcher,        \* the fields of each watcher
    flag,           \* the value of each Flag
    heap,           \* the AsyncWaiter at each address
    waiters,        \* kernel_->waiters_ of each event, by address
    signaled,       \* kernel_->signaled_ of each event
    signaler,       \* how far the thread in Signal of each event is
    alive,          \* events not deleted; a kernel lives on in kernel_
    queue,          \* AsyncCallbackTasks on the MessageLoop
    loop            \* running, or how far ~MessageLoop is

vars == <<watcher, flag, heap, waiters, signaled, signaler, alive, queue, loop>>

(***************************************************************************)
(* observing: message_loop_ is set, and the watcher observes its           *)
(* destruction.  A task is owned by its AsyncWaiter until Fire posts it;   *)
(* the two and the watcher share the Flag.                                 *)
(***************************************************************************)
NewWatcher == [observing |-> FALSE, cancel_flag |-> None, waiter |-> None,
               kernel |-> None, event |-> None]
Task == [flag : Flags, watcher : Watchers, event : Events]
Locked(e) == signaler[e] # "none"

Init ==
    /\ watcher = [w \in Watchers |-> NewWatcher]
    /\ flag = [f \in Flags |-> FALSE]
    /\ heap = [a \in Addresses |-> None]
    /\ waiters = [e \in Events |-> <<>>]
    /\ signaled \in [Events -> BOOLEAN]
    /\ signaler = [e \in Events |-> "none"]
    /\ alive = Events
    /\ queue = <<>>
    /\ loop = "running"

-----------------------------------------------------------------------------
(* Flags somebody has a reference to. *)
Referenced ==
    {watcher[w].cancel_flag : w \in Watchers}
        \cup {heap[a].flag : a \in {x \in Addresses : heap[x] # None}}
        \cup {queue[i].flag : i \in DOMAIN queue}

(* The watch of w is over: its flag was set when the delegate was called. *)
Completed(w) ==
    watcher[w].cancel_flag # None /\ flag[watcher[w].cancel_flag]

(* DCHECK: not while still watching.  A signaled event gets no waiter, and *)
(* leaves kernel_ and waiter_ as they are.                                 *)
StartWatching(w, e) ==
    /\ loop = "running"
    /\ watcher[w].cancel_flag = None \/ Completed(w)
    /\ e \in alive
    /\ ~Locked(e)
    /\ \E f \in Flags \ Referenced :
        LET task == [flag |-> f, watcher |-> w, event |-> e]
        IN  /\ flag' = [flag EXCEPT ![f] = FALSE]
            /\ \/ /\ signaled[e]
                  /\ signaled' = [signaled EXCEPT ![e] = e \in ManualReset]
                  /\ queue' = Append(queue, task)
                  /\ watcher' = [watcher EXCEPT
                                   ![w] = [observing |-> FALSE, cancel_flag |-> f,
                                           waiter |-> @.waiter, kernel |-> @.kernel,
                                           event |-> e]]
                  /\ UNCHANGED <<heap, waiters>>
               \/ /\ ~signaled[e]
                  /\ \E a \in {x \in Addresses : heap[x] = None} :
                      /\ heap' = [heap EXCEPT ![a] = task]
                      /\ waiters' = [waiters EXCEPT ![e] = Append(@, a)]
                      /\ watcher' = [watcher EXCEPT
                                       ![w] = [observing |-> TRUE, cancel_flag |-> f,
                                               waiter |-> a, kernel |-> e,
                                               event |-> e]]
                  /\ UNCHANGED <<signaled, queue>>
    /\ UNCHANGED <<signaler, alive, loop>>

(* Mutant: a waiter is recognised by its address alone. *)
MatchAddress(a, waiter, tag) == a = waiter

(* Dequeue's test of the waiter at address a: Compare(tag) looks at its flag. *)
Match(a, waiter, tag) == a = waiter /\ heap[a].flag = tag

(* Mutant: the flag is left alone when the waiter was already fired. *)
CancelFiredNot(f) == UNCHANGED flag

(* Case 3 of StopWatching, and the case without a kernel_: the task may be *)
(* posted and must not call the delegate.                                  *)
CancelFired(f) == flag' = [flag EXCEPT ![f] = TRUE]

(***************************************************************************)
(* StopWatching of w, which has the fields `after' afterwards.             *)
(***************************************************************************)
Stop(w, after) ==
    LET f == watcher[w].cancel_flag
        k == watcher[w].kernel
        matching == {i \in DOMAIN waiters[k] :
                        Match(waiters[k][i], watcher[w].waiter, f)}
    IN  /\ \/ /\ f = None \/ Completed(w)
              /\ UNCHANGED <<flag, heap, waiters>>
           \/ /\ f # None /\ ~Completed(w) /\ k = None
              /\ CancelFired(f)
              /\ UNCHANGED <<heap, waiters>>
           \/ /\ f # None /\ ~Completed(w) /\ k # None
              /\ ~Locked(k)
              /\ matching = {}
              /\ CancelFired(f)
              /\ UNCHANGED <<heap, waiters>>
           \/ /\ f # None /\ ~Completed(w) /\ k # None
              /\ ~Locked(k)
              /\ matching # {}
              /\ waiters' = [waiters EXCEPT
                               ![k] = RemoveFirst(@, watcher[w].waiter)]
              /\ heap' = [heap EXCEPT ![watcher[w].waiter] = None]
              /\ UNCHANGED flag
        /\ watcher' = [watcher EXCEPT ![w] = after]

(* What StopWatching leaves of the watcher. *)
Stopped(w) ==
    [observing |-> FALSE, cancel_flag |-> None, waiter |-> watcher[w].waiter,
     kernel |-> watcher[w].kernel, event |-> watcher[w].event]

(* By the client, which may delete the watcher and make a new one. *)
StopWatching(w) ==
    /\ loop # "dying"
    /\ watcher[w] # NewWatcher
    /\ \/ Stop(w, Stopped(w))
       \/ Stop(w, NewWatcher)
    /\ UNCHANGED <<signaled, signaler, alive, queue, loop>>

(* AsyncCallbackTask::Run; the delegate is called if the flag is not set. *)
RunTask ==
    /\ loop = "running"
    /\ queue # <<>>
    /\ flag' = [flag EXCEPT ![Head(queue).flag] = TRUE]
    /\ queue' = Tail(queue)
    /\ UNCHANGED <<watcher, heap, waiters, signaled, signaler, alive, loop>>

-----------------------------------------------------------------------------
(* Signal takes the lock and finds the event not signaled. *)
Signal(e) ==
    /\ e \in alive
    /\ ~Locked(e)
    /\ ~signaled[e]
    /\ signaler' = [signaler EXCEPT ![e] = "next"]
    /\ UNCHANGED <<watcher, flag, heap, waiters, signaled, alive, queue, loop>>

(* Fire looks at the flag of the next waiter ... *)
FireTest(e) ==
    /\ signaler[e] = "next"
    /\ waiters[e] # <<>>
    /\ signaler' = [signaler EXCEPT
                      ![e] = IF flag[heap[Head(waiters[e])].flag]
                             THEN "drop" ELSE "post"]
    /\ UNCHANGED <<watcher, flag, heap, waiters, signaled, alive, queue, loop>>

(* ... posts its task or drops it, and deletes itself. *)
FirePost(e) ==
    /\ signaler[e] \in {"post", "drop"}
    /\ queue' = IF signaler[e] = "post" THEN Append(queue, heap[Head(waiters[e])])
                                        ELSE queue
    /\ heap' = [heap EXCEPT ![Head(waiters[e])] = None]
    /\ waiters' = [waiters EXCEPT ![e] = Tail(@)]
    /\ signaler' = [signaler EXCEPT ![e] = IF e \in ManualReset THEN "next"
                                                                ELSE "none"]
    /\ UNCHANGED <<watcher, flag, signaled, alive, loop>>

SignalEnd(e) ==
    /\ signaler[e] = "next"
    /\ waiters[e] = <<>>
    /\ signaled' = [signaled EXCEPT ![e] = TRUE]
    /\ signaler' = [signaler EXCEPT ![e] = "none"]
    /\ UNCHANGED <<watcher, flag, heap, waiters, alive, queue, loop>>

Reset(e) ==
    /\ e \in alive
    /\ ~Locked(e)
    /\ signaled[e]
    /\ signaled' = [signaled EXCEPT ![e] = FALSE]
    /\ UNCHANGED <<watcher, flag, heap, waiters, signaler, alive, queue, loop>>

(* "you /are/ allowed to delete the WaitableEvent while still waiting". *)
DeleteEvent(e) ==
    /\ e \in alive
    /\ ~Locked(e)
    /\ alive' = alive \ {e}
    /\ UNCHANGED <<watcher, flag, heap, waiters, signaled, signaler, queue, loop>>

-----------------------------------------------------------------------------
(* ~MessageLoop deletes the tasks it has, ... *)
DeletePendingTasks ==
    /\ loop = "running"
    /\ loop' = "dying"
    /\ queue' = <<>>
    /\ UNCHANGED <<watcher, flag, heap, waiters, signaled, signaler, alive>>

Observers == {w \in Watchers : watcher[w].observing}

(* Mutant: only message_loop_ is forgotten. *)
WillDestroyForgetsLoop(w) ==
    /\ loop = "dying"
    /\ w \in Observers
    /\ watcher' = [watcher EXCEPT ![w].observing = FALSE]
    /\ UNCHANGED <<flag, heap, waiters, signaled, signaler, alive, queue, loop>>

(* ... then calls its observers, which stop watching, ... *)
WillDestroyCurrentMessageLoop(w) ==
    /\ loop = "dying"
    /\ w \in Observers
    /\ Stop(w, Stopped(w))
    /\ UNCHANGED <<signaled, signaler, alive, queue, loop>>

(* ... and is gone, with what was posted in the meantime. *)
DestroyLoop ==
    /\ loop = "dying"
    /\ Observers = {}
    /\ loop' = "dead"
    /\ queue' = <<>>
    /\ UNCHANGED <<watcher, flag, heap, waiters, signaled, signaler, alive>>

Next ==
    \/ \E w \in Watchers : \/ \E e \in Events : StartWatching(w, e)
                           \/ StopWatching(w)
                           \/ WillDestroyCurrentMessageLoop(w)
    \/ \E e \in Events : \/ Signal(e) \/ FireTest(e) \/ FirePost(e)
                         \/ SignalEnd(e) \/ Reset(e) \/ DeleteEvent(e)
    \/ RunTask \/ DeletePendingTasks \/ DestroyLoop

Spec == Init /\ [][Next]_vars

-----------------------------------------------------------------------------
(* Type correctness. *)
TypeOK ==
    /\ watcher \in [Watchers -> [observing : BOOLEAN,
                                 cancel_flag : Flags \cup {None},
                                 waiter : Addresses \cup {None},
                                 kernel : Events \cup {None},
                                 event : Events \cup {None}]]
    /\ flag \in [Flags -> BOOLEAN]
    /\ heap \in [Addresses -> Task \cup {None}]
    /\ waiters \in [Events -> Seq(Addresses)]
    /\ signaled \in [Events -> BOOLEAN]
    /\ signaler \in [Events -> {"none", "next", "post", "drop"}]
    /\ alive \subseteq Events
    /\ queue \in Seq(Task)
    /\ loop \in {"running", "dying", "dead"}

Listed(e) == {waiters[e][i] : i \in DOMAIN waiters[e]}

(***************************************************************************)
(* No watch is lost: as long as w watches and the delegate was not called, *)
(* its waiter is in the wait list of the watched event or its task is on   *)
(* the loop.  Another watcher's StopWatching, with a stale waiter_ whose   *)
(* address is now w's, must not take it away: the ABA case the tag of      *)
(* Dequeue is for.                                                         *)
(***************************************************************************)
WatchTracked ==
    loop = "running" =>
        \A w \in Watchers :
            watcher[w].cancel_flag # None /\ ~Completed(w) =>
                LET task == [flag |-> watcher[w].cancel_flag, watcher |-> w,
                             event |-> watcher[w].event]
                IN  \/ \E i \in DOMAIN queue : queue[i] = task
                    \/ \E a \in Listed(watcher[w].event) : heap[a] = task

(***************************************************************************)
(* "The delegate will *not* be called for the current watch after this     *)
(* function returns": a task whose flag is not set belongs to the watch    *)
(* its watcher is in, however many cancelled tasks are still on the loop.  *)
(***************************************************************************)
NoCallAfterStop ==
    \A i \in DOMAIN queue :
        loop = "running" /\ ~flag[queue[i].flag] =>
            LET w == queue[i].watcher
            IN  /\ watcher[w].cancel_flag = queue[i].flag
                /\ watcher[w].event = queue[i].event

(***************************************************************************)
(* The waiters in the wait lists are allocated, in one list each, and not  *)
(* cancelled: Fire never meets a freed AsyncWaiter nor one whose flag is   *)
(* set, although StopWatching may work with a kernel_ of an earlier watch. *)
(***************************************************************************)
ListedWaitersValid ==
    /\ \A e \in Events : \A i \in DOMAIN waiters[e] :
          LET a == waiters[e][i]
          IN  /\ heap[a] # None
              /\ heap[a].event = e
              /\ ~flag[heap[a].flag]
              /\ \A j \in DOMAIN waiters[e] : waiters[e][j] = a => j = i
    /\ \A a \in Addresses : heap[a] # None => a \in Listed(heap[a].event)

(***************************************************************************)
(* Once the MessageLoop is gone no waiter is left that could post to it,   *)
(* and no watcher would still deregister from it.                          *)
(***************************************************************************)
NoPostToDeadLoop ==
    loop = "dead" =>
        /\ \A e \in Events : waiters[e] = <<>>
        /\ Observers = {}

(* What Fire, Dequeue and the destructors follow is valid: the waiters in  *)
(* the lists are allocated and know a loop that is alive.  The waiter_ of  *)
(* an earlier watch, which StopWatching only compares, and the event of a  *)
(* posted task, which may be deleted, are not meant.                       *)
PointersValid == TypeOK /\ ListedWaitersValid /\ NoPostToDeadLoop
=============================================================================
