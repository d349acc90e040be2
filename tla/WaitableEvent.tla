---------------------------- MODULE WaitableEvent ----------------------------
(***************************************************************************)
(* base::WaitableEvent on POSIX (base/synchronization/waitable_event.h and *)
(* waitable_event_posix.cc): Signal, Reset, IsSignaled, Wait, TimedWait    *)
(* and WaitMany, called by any thread on any event at any time.            *)
(*                                                                         *)
(* Two kinds of locks are at work.  lock[e] is kernel_->lock_ of event e.  *)
(* The SyncWaiter a waiting thread keeps on its stack has a lock_ of its   *)
(* own, which that thread holds exactly while pc = "loop"; Fire takes it   *)
(* for one step.  An action runs from one acquisition to the next, or to   *)
(* the point where locks are given up.                                     *)
(***************************************************************************)
EXTENDS Naturals, Sequences, FiniteSets, SequencesExt

CONSTANTS
    Events,         \* the events, each given by its address
    ManualReset,    \* those constructed with manual_reset = true
    Threads,        \* the threads that use them
    None            \* no thread, no event

ASSUME EventsFinite == Events \subseteq Nat /\ IsFiniteSet(Events)
ASSUME ThreadsFinite == IsFiniteSet(Threads)
ASSUME ManualResetEvents == ManualReset \subseteq Events
ASSUME NoneIsNone == None \notin Threads /\ None \notin Events

VARIABLES
    signaled,       \* kernel_->signaled_
    waiters,        \* kernel_->waiters_, each waiter named by its thread
    lock,           \* the thread that holds kernel_->lock_
    sw,             \* fields of the SyncWaiter on each thread's stack
    pc,             \* where each thread is
    call,           \* the call each thread is in
    undelivered     \* history: signals of an auto-reset event nobody got yet

vars == <<signaled, waiters, lock, sw, pc, call, undelivered>>

(***************************************************************************)
(* idle    : outside of this code                                          *)
(* signal  : in Signal, holding the event's lock, waking waiters           *)
(* lock    : in EnqueueMany, collecting the locks of all its events        *)
(* loop    : holding sw.lock_, about to test fired_                        *)
(* blocked : in sw.cv_.Wait or sw.cv_.TimedWait                            *)
(* woken   : the wait is over, sw.lock_ has to be taken again              *)
(* dequeue : sw.lock_ released for good, leaving the wait lists            *)
(***************************************************************************)
Position == {"idle", "signal", "lock", "loop", "blocked", "woken", "dequeue"}
Operation == {"none", "Signal", "Wait", "TimedWait", "WaitMany"}

SyncWaiter == [fired |-> FALSE, signaling_event |-> None]
NoCall == [op |-> "none", events |-> {}, result |-> FALSE, woke |-> {}]

Init ==
    /\ signaled \in [Events -> BOOLEAN]
    /\ waiters = [e \in Events |-> <<>>]
    /\ lock = [e \in Events |-> None]
    /\ sw = [p \in Threads |-> SyncWaiter]
    /\ pc = [p \in Threads |-> "idle"]
    /\ call = [p \in Threads |-> NoCall]
    /\ undelivered = [e \in Events |->
                        IF signaled[e] /\ e \notin ManualReset THEN 1 ELSE 0]

-----------------------------------------------------------------------------
(* Bookkeeping of the history variable: a signal of e comes, or is used up. *)
Produced(e) ==
    undelivered' = IF e \in ManualReset THEN undelivered
                   ELSE [undelivered EXCEPT ![e] = @ + 1]
Consumed(e) ==
    undelivered' = IF e \in ManualReset THEN undelivered
                   ELSE [undelivered EXCEPT ![e] = @ - 1]

(* A signal found on arrival is taken; an auto-reset event is thus reset. *)
ConsumeSignaled(e) ==
    /\ signaled[e]
    /\ signaled' = [signaled EXCEPT ![e] = e \in ManualReset]
    /\ Consumed(e)

Enter(p, op, events, position) ==
    /\ call' = [call EXCEPT ![p] = [op |-> op, events |-> events,
                                    result |-> FALSE, woke |-> {}]]
    /\ pc' = [pc EXCEPT ![p] = position]

(* The locks p holds once it has released all of its own. *)
ReleaseAll(p) == [e \in Events |-> IF lock[e] = p THEN None ELSE lock[e]]

-----------------------------------------------------------------------------
Reset(e) ==
    /\ lock[e] = None
    /\ signaled[e]
    /\ signaled' = [signaled EXCEPT ![e] = FALSE]
    /\ Consumed(e)
    /\ UNCHANGED <<waiters, lock, sw, pc, call>>

(* A test that finds the event signaled; one that does not changes nothing. *)
IsSignaled(e) ==
    /\ lock[e] = None
    /\ ConsumeSignaled(e)
    /\ UNCHANGED <<waiters, lock, sw, pc, call>>

(* Signal of an event that is not signaled; it keeps the lock to the end. *)
Signal(p, e) ==
    /\ pc[p] = "idle"
    /\ lock[e] = None
    /\ ~signaled[e]
    /\ lock' = [lock EXCEPT ![e] = p]
    /\ Enter(p, "Signal", {e}, "signal")
    /\ Produced(e)
    /\ UNCHANGED <<signaled, waiters, sw>>

(* Mutant of Broadcast: nobody is woken. *)
BroadcastLost(position) == position

(* cv_.Broadcast() of a SyncWaiter, seen from the only thread that waits on it. *)
Broadcast(position) == IF position = "blocked" THEN "woken" ELSE position

(* SignalOne is done with the first waiter that accepts, SignalAll goes on. *)
SignalDone(p, e) ==
    waiters[e] = <<>> \/ (e \notin ManualReset /\ call[p].woke # {})

(***************************************************************************)
(* SyncWaiter::Fire by signaler p, for the next waiter of the list.  It    *)
(* needs sw.lock_, refuses if fired_ is set, and otherwise wakes the       *)
(* thread if it is blocked.  The code takes the waiter off the list a      *)
(* little later (pop_front, or clear at the end), but lock[e] is still     *)
(* held then and the pointer is not followed again.                        *)
(***************************************************************************)
Fire(p, e) ==
    LET w == Head(waiters[e])
    IN  /\ pc[p] = "signal"
        /\ call[p].events = {e}
        /\ ~SignalDone(p, e)
        /\ pc[w] # "loop"
        /\ waiters' = [waiters EXCEPT ![e] = Tail(@)]
        /\ \/ /\ sw[w].fired
              /\ UNCHANGED <<sw, pc, call>>
           \/ /\ ~sw[w].fired
              /\ sw' = [sw EXCEPT ![w] = [fired |-> TRUE, signaling_event |-> e]]
              /\ pc' = [pc EXCEPT ![w] = Broadcast(@)]
              /\ call' = [call EXCEPT ![p].woke = @ \cup {w}]
        /\ UNCHANGED <<signaled, lock, undelivered>>

(* The event stays signaled unless it is auto-reset and a waiter accepted. *)
SignalEnd(p, e) ==
    /\ pc[p] = "signal"
    /\ call[p].events = {e}
    /\ SignalDone(p, e)
    /\ signaled' = [signaled EXCEPT ![e] = @ \/ e \in ManualReset
                                              \/ call[p].woke = {}]
    /\ lock' = ReleaseAll(p)
    /\ pc' = [pc EXCEPT ![p] = "idle"]
    /\ call' = [call EXCEPT ![p] = NoCall]
    /\ UNCHANGED <<waiters, sw, undelivered>>

-----------------------------------------------------------------------------
(* Enqueue of p's SyncWaiter in the wait list of each of the events. *)
Enqueue(p, events) ==
    waiters' = [f \in Events |-> IF f \in events THEN Append(waiters[f], p)
                                                 ELSE waiters[f]]

(* Wait (op = "Wait", no time limit) and TimedWait up to the wait loop. *)
TimedWait(p, e, op) ==
    /\ pc[p] = "idle"
    /\ lock[e] = None
    /\ \/ /\ ConsumeSignaled(e)
          /\ UNCHANGED <<waiters, pc, call>>
       \/ /\ ~signaled[e]
          /\ Enqueue(p, {e})
          /\ Enter(p, op, {e}, "loop")
          /\ UNCHANGED <<signaled, undelivered>>
    /\ UNCHANGED <<lock, sw>>

WaitMany(p, events) ==
    /\ pc[p] = "idle"
    /\ Enter(p, "WaitMany", events, "lock")
    /\ UNCHANGED <<signaled, waiters, lock, sw, undelivered>>

(* Mutant of NextToLock: the locks are taken in the caller's order. *)
NextToLockUnsorted(p) == {e \in call[p].events : lock[e] # p}

(* The event EnqueueMany locks next: by address, whatever the caller's order. *)
NextToLock(p) ==
    LET left == {e \in call[p].events : lock[e] # p}
    IN  {e \in left : \A f \in left : e <= f}

(***************************************************************************)
(* One level of EnqueueMany's recursion.  An event that is signaled ends   *)
(* the call; when the last lock is taken and no event was signaled the     *)
(* waiter enters every wait list, takes its own lock and only then gives   *)
(* the others back.                                                        *)
(***************************************************************************)
EnqueueMany(p) ==
    /\ pc[p] = "lock"
    /\ \E e \in NextToLock(p) :
        /\ lock[e] = None
        /\ \/ /\ ConsumeSignaled(e)
              /\ lock' = ReleaseAll(p)
              /\ pc' = [pc EXCEPT ![p] = "idle"]
              /\ call' = [call EXCEPT ![p] = NoCall]
              /\ UNCHANGED waiters
           \/ /\ ~signaled[e]
              /\ \E f \in call[p].events : lock[f] # p /\ f # e
              /\ lock' = [lock EXCEPT ![e] = p]
              /\ UNCHANGED <<signaled, waiters, pc, call, undelivered>>
           \/ /\ ~signaled[e]
              /\ \A f \in call[p].events : lock[f] = p \/ f = e
              /\ Enqueue(p, call[p].events)
              /\ lock' = ReleaseAll(p)
              /\ pc' = [pc EXCEPT ![p] = "loop"]
              /\ UNCHANGED <<signaled, call, undelivered>>
    /\ UNCHANGED sw

(* Mutant of LeaveFired: WaitMany stays in the wait lists of the other events. *)
LeaveFiredNoDequeue(p) ==
    /\ pc[p] = "loop"
    /\ sw[p].fired
    /\ call' = [call EXCEPT ![p].result = TRUE,
                            ![p].events = IF call[p].op = "WaitMany" THEN {}
                                          ELSE @]
    /\ pc' = [pc EXCEPT ![p] = "dequeue"]
    /\ UNCHANGED <<signaled, waiters, lock, sw, undelivered>>

(* Mutant of LeaveFired: TimedWait does not take the event's lock again. *)
LeaveFiredNoRelock(p) ==
    /\ pc[p] = "loop"
    /\ sw[p].fired
    /\ call' = [call EXCEPT ![p].result = TRUE,
                            ![p].events = @ \ {sw[p].signaling_event}]
    /\ pc' = [pc EXCEPT ![p] = "dequeue"]
    /\ UNCHANGED <<signaled, waiters, lock, sw, undelivered>>

(***************************************************************************)
(* The wait loop found fired_ set.  TimedWait takes the event's lock once  *)
(* more to leave its wait list; WaitMany leaves out the event that fired.  *)
(***************************************************************************)
LeaveFired(p) ==
    /\ pc[p] = "loop"
    /\ sw[p].fired
    /\ call' = [call EXCEPT ![p] =
                   [op |-> @.op, result |-> TRUE, woke |-> @.woke,
                    events |-> IF @.op = "WaitMany"
                               THEN @.events \ {sw[p].signaling_event}
                               ELSE @.events]]
    /\ pc' = [pc EXCEPT ![p] = "dequeue"]
    /\ UNCHANGED <<signaled, waiters, lock, sw, undelivered>>

(* Mutant of LeaveTimedOut: no Disable() before sw.lock_ is released. *)
LeaveTimedOutNoDisable(p) ==
    /\ pc[p] = "loop"
    /\ call[p].op = "TimedWait"
    /\ ~sw[p].fired
    /\ pc' = [pc EXCEPT ![p] = "dequeue"]
    /\ UNCHANGED <<signaled, waiters, lock, sw, call, undelivered>>

(* The time is up before anybody fired: Disable() makes Fire fail from now on. *)
LeaveTimedOut(p) ==
    /\ pc[p] = "loop"
    /\ call[p].op = "TimedWait"
    /\ ~sw[p].fired
    /\ sw' = [sw EXCEPT ![p].fired = TRUE]
    /\ pc' = [pc EXCEPT ![p] = "dequeue"]
    /\ UNCHANGED <<signaled, waiters, lock, call, undelivered>>

Block(p) ==
    /\ pc[p] = "loop"
    /\ ~sw[p].fired
    /\ pc' = [pc EXCEPT ![p] = "blocked"]
    /\ UNCHANGED <<signaled, waiters, lock, sw, call, undelivered>>

(* The condition variable times out or wakes up spuriously. *)
WakeUp(p) ==
    /\ pc[p] = "blocked"
    /\ pc' = [pc EXCEPT ![p] = "woken"]
    /\ UNCHANGED <<signaled, waiters, lock, sw, call, undelivered>>

Reacquire(p) ==
    /\ pc[p] = "woken"
    /\ pc' = [pc EXCEPT ![p] = "loop"]
    /\ UNCHANGED <<signaled, waiters, lock, sw, call, undelivered>>

(* Leave one wait list, if still in it. *)
Dequeue(p) ==
    /\ pc[p] = "dequeue"
    /\ \E e \in call[p].events :
        /\ lock[e] = None
        /\ waiters' = [waiters EXCEPT ![e] = RemoveFirst(@, p)]
        /\ call' = [call EXCEPT ![p].events = @ \ {e}]
    /\ UNCHANGED <<signaled, lock, sw, pc, undelivered>>

(* The call returns and the SyncWaiter goes out of scope. *)
Return(p) ==
    /\ pc[p] = "dequeue"
    /\ call[p].events = {}
    /\ pc' = [pc EXCEPT ![p] = "idle"]
    /\ call' = [call EXCEPT ![p] = NoCall]
    /\ sw' = [sw EXCEPT ![p] = SyncWaiter]
    /\ IF call[p].result THEN Consumed(sw[p].signaling_event)
                         ELSE UNCHANGED undelivered
    /\ UNCHANGED <<signaled, waiters, lock>>

-----------------------------------------------------------------------------
(* Steps inside a call that need nothing but a free lock. *)
Step(p) ==
    \/ \E e \in Events : Fire(p, e) \/ SignalEnd(p, e)
    \/ EnqueueMany(p)
    \/ LeaveFired(p) \/ LeaveTimedOut(p) \/ Block(p)
    \/ Reacquire(p) \/ Dequeue(p) \/ Return(p)

Next ==
    \/ \E e \in Events : Reset(e) \/ IsSignaled(e)
    \/ \E p \in Threads :
        \/ \E e \in Events : \/ Signal(p, e)
                             \/ TimedWait(p, e, "Wait")
                             \/ TimedWait(p, e, "TimedWait")
        \/ \E events \in SUBSET Events \ {{}} : WaitMany(p, events)
        \/ WakeUp(p)
        \/ Step(p)

(***************************************************************************)
(* A thread that can run does run, and one that tries to take a mutex that *)
(* is free again and again gets it.  Nothing makes a thread call Signal.   *)
(***************************************************************************)
Fairness == \A p \in Threads : SF_vars(Step(p))

Spec == Init /\ [][Next]_vars
FairSpec == Spec /\ Fairness

-----------------------------------------------------------------------------
(* Type correctness. *)
TypeOK ==
    /\ signaled \in [Events -> BOOLEAN]
    /\ waiters \in [Events -> Seq(Threads)]
    /\ lock \in [Events -> Threads \cup {None}]
    /\ sw \in [Threads -> [fired : BOOLEAN,
                           signaling_event : Events \cup {None}]]
    /\ pc \in [Threads -> Position]
    /\ call \in [Threads -> [op : Operation, events : SUBSET Events,
                             result : BOOLEAN, woke : SUBSET Threads]]
    /\ undelivered \in [Events -> Nat]

Got(e)       == {p \in Threads : sw[p].signaling_event = e}
Signaling(e) == {p \in Threads : /\ pc[p] = "signal"
                                 /\ call[p].events = {e} /\ call[p].woke = {}}

(***************************************************************************)
(* No signal of an auto-reset event is lost and none releases two threads: *)
(* every signal not yet used up is in signaled_, in the one SyncWaiter     *)
(* that accepted it and whose wait will return it, or in the hands of a    *)
(* signaler.  Timeouts that race with Fire (Disable) and waiters that sit  *)
(* in several wait lists (a Fire that is refused) are what could break it. *)
(***************************************************************************)
SignalsConserved ==
    \A e \in Events \ ManualReset :
        undelivered[e] = (IF signaled[e] THEN 1 ELSE 0)
                         + Cardinality(Got(e)) + Cardinality(Signaling(e))

(***************************************************************************)
(* Fire only ever meets living SyncWaiters: a thread outside the wait      *)
(* functions is in no wait list, although WaitMany does not take the lock  *)
(* of the event that fired before its SyncWaiter goes out of scope.        *)
(***************************************************************************)
WaitersAlive ==
    \A e \in Events : \A i \in DOMAIN waiters[e] :
        LET p == waiters[e][i]
        IN  /\ pc[p] \in {"loop", "blocked", "woken", "dequeue"}
            /\ e \in call[p].events

(***************************************************************************)
(* The return of Wait and of TimedWait comes after the end of the Signal   *)
(* that caused it, so the waiter may delete the event: Signal works on     *)
(* kernel_ after Fire.  WaitMany, which does not take the lock of the      *)
(* event that fired, does not promise this.                                *)
(***************************************************************************)
SignalDoneBeforeReturn ==
    \A p \in Threads :
        pc[p] = "dequeue" /\ call[p].op # "WaitMany" /\ call[p].events = {} =>
            \A q \in Threads :
                pc[q] = "signal" /\ p \in call[q].woke =>
                    sw[p].signaling_event \notin call[q].events

(***************************************************************************)
(* Nobody sleeps on a signaled event: its wait list is empty, so whoever   *)
(* comes finds the signal and whoever was there has been fired.            *)
(***************************************************************************)
SignaledMeansNoWaiters ==
    \A e \in Events : signaled[e] => waiters[e] = <<>>

(***************************************************************************)
(* A thread that blocks without having been fired is in the wait list of   *)
(* every event it waits for, once in each: the next Signal finds it.       *)
(***************************************************************************)
SleepersEnqueued ==
    \A p \in Threads :
        pc[p] \in {"loop", "blocked", "woken"} /\ ~sw[p].fired =>
            \A e \in call[p].events :
                \E i \in DOMAIN waiters[e] :
                    \A j \in DOMAIN waiters[e] : waiters[e][j] = p <=> j = i

(* The wait lists of all events hold exactly the waiters that can still be *)
(* fired: none that is gone, none of a signaled event, and all that sleep. *)
WaitListsOK == TypeOK /\ WaitersAlive /\ SignaledMeansNoWaiters /\ SleepersEnqueued

(***************************************************************************)
(* Threads that need only locks never wait for each other in a circle:     *)
(* some thread inside a call can always go on.  WaitMany holds several     *)
(* kernel locks at once, Signal a kernel lock while it takes a SyncWaiter  *)
(* lock, and the wait loop the SyncWaiter lock alone.                      *)
(***************************************************************************)
NoDeadlock ==
    LET busy == {p \in Threads : pc[p] \notin {"idle", "blocked"}}
    IN  busy # {} => \E p \in busy : ENABLED Step(p)

(* A wait that was given a signal returns, and so does every Signal. *)
CallsReturn ==
    \A p \in Threads :
        (pc[p] = "signal" \/ sw[p].signaling_event # None) ~> pc[p] = "idle"
=============================================================================
