---------------------- MODULE WaitableEventWatcherProofs ----------------------
(***************************************************************************)
(* Safety of WaitableEventWatcher for any sets of watchers and events and  *)
(* any heap.                                                               *)
(***************************************************************************)
EXTENDS WaitableEventWatcher, ListLemmas

(* A waiter on the heap is the one of the watch its watcher is in. *)
Owned(a) ==
    LET t == heap[a]
        w == watcher[t.watcher]
    IN  /\ w.observing
        /\ w.cancel_flag = t.flag
        /\ w.waiter = a
        /\ w.kernel = t.event
        /\ w.event = t.event
HeapOwned == \A a \in Addresses : heap[a] # None => Owned(a) /\ ~flag[heap[a].flag]

(* No two watchers share a Flag: whoever finds its own Flag in a waiter    *)
(* has found its own waiter, wherever the address comes from.              *)
FlagsDistinct ==
    \A v, w \in Watchers :
        watcher[v].cancel_flag = watcher[w].cancel_flag
            /\ watcher[v].cancel_flag # None => v = w

(* A waiter on the heap is in the list of its event, and in no other. *)
HeapListed ==
    \A e \in Events :
        /\ NoDup(waiters[e])
        /\ \A a \in Addresses :
              a \in ToSet(waiters[e]) <=> heap[a] # None /\ heap[a].event = e

(* A task is posted once, when its waiter is gone. *)
PostedNotListed ==
    loop = "running" =>
        \A t \in ToSet(queue) : \A a \in Addresses :
            heap[a] # None => heap[a].flag # t.flag

(* A task that will call the delegate is the one of its watcher's watch. *)
PostedOwned ==
    loop = "running" =>
        \A t \in ToSet(queue) : ~flag[t.flag] =>
            /\ watcher[t.watcher].cancel_flag = t.flag
            /\ watcher[t.watcher].event = t.event

(* A watch that goes on has its task on the loop or in a waiter. *)
TaskOf(w) == [flag |-> watcher[w].cancel_flag, watcher |-> w, event |-> watcher[w].event]
WatchesTracked ==
    loop = "running" =>
        \A w \in Watchers : watcher[w].cancel_flag # None /\ ~Completed(w) =>
            TaskOf(w) \in ToSet(queue) \/ \E a \in Addresses : heap[a] # None /\ heap[a] = TaskOf(w)

(* Fire, between its test and its end, has a waiter and posts its task. *)
SignalerOK ==
    \A e \in Events : /\ signaler[e] # "drop"
                      /\ signaler[e] = "post" => waiters[e] # <<>>

IInv ==
    /\ TypeOK
    /\ HeapOwned /\ FlagsDistinct /\ HeapListed /\ SignalerOK
    /\ PostedNotListed /\ PostedOwned /\ WatchesTracked
    /\ NoPostToDeadLoop

-----------------------------------------------------------------------------
(* What is where. *)
LEMMA Types ==
    ASSUME TypeOK
    PROVE  /\ ToSet(queue) \subseteq Task
           /\ \A e \in Events : /\ waiters[e] \in Seq(Addresses)
                                /\ ToSet(waiters[e]) \subseteq Addresses
           /\ \A a \in Addresses : heap[a] # None => heap[a] \in Task
BY DEF TypeOK, ToSet

(* Steps of a signaler or of the owner of an event that leave watchers,    *)
(* waiters and tasks alone.                                                *)
LEMMA EventInv ==
    ASSUME IInv, NEW e \in Events,
           \/ Signal(e) \/ FireTest(e) \/ SignalEnd(e) \/ Reset(e) \/ DeleteEvent(e)
    PROVE  IInv'
<1>1. TypeOK /\ HeapListed /\ HeapOwned /\ SignalerOK
  BY DEF IInv
<1>2. UNCHANGED <<watcher, flag, heap, waiters, queue, loop>>
  BY DEF Signal, FireTest, SignalEnd, Reset, DeleteEvent
<1>3. TypeOK' /\ SignalerOK'
  <2>1. CASE Signal(e)
    BY <1>1, <2>1 DEF Signal, TypeOK, SignalerOK, Locked
  <2>2. CASE FireTest(e)
    <3>1. Head(waiters[e]) \in Addresses /\ heap[Head(waiters[e])] # None
      BY <1>1, <2>2, Types, TailList DEF FireTest, HeapListed
    <3>2. signaler' = [signaler EXCEPT ![e] = "post"] /\ waiters[e] # <<>>
      BY <1>1, <2>2, <3>1 DEF FireTest, HeapOwned
    <3>3. UNCHANGED <<watcher, flag, heap, waiters, queue, loop, signaled, alive>>
      BY <2>2 DEF FireTest
    <3>4. QED
      BY <1>1, <3>2, <3>3 DEF TypeOK, SignalerOK
  <2>3. CASE SignalEnd(e)
    BY <1>1, <2>3 DEF SignalEnd, TypeOK, SignalerOK
  <2>4. CASE Reset(e)
    BY <1>1, <2>4 DEF Reset, TypeOK, SignalerOK
  <2>5. CASE DeleteEvent(e)
    BY <1>1, <2>5 DEF DeleteEvent, TypeOK, SignalerOK
  <2>6. QED
    BY <2>1, <2>2, <2>3, <2>4, <2>5
<1>4. HeapOwned' /\ FlagsDistinct' /\ HeapListed'
  BY <1>2 DEF IInv, HeapOwned, Owned, FlagsDistinct, HeapListed
<1>5. PostedNotListed' /\ PostedOwned' /\ WatchesTracked'
  BY <1>2 DEF IInv, PostedNotListed, PostedOwned, WatchesTracked, Completed, TaskOf
<1>6. NoPostToDeadLoop'
  BY <1>2 DEF IInv, NoPostToDeadLoop, Observers
<1>7. QED
  BY <1>3, <1>4, <1>5, <1>6 DEF IInv

(* The task of a fired waiter goes to the loop and the waiter is freed. *)
LEMMA FirePostInv ==
    ASSUME IInv, NEW e \in Events, FirePost(e)
    PROVE  IInv'
<1> DEFINE a == Head(waiters[e])
<1>1. /\ TypeOK /\ HeapListed /\ HeapOwned /\ SignalerOK /\ FlagsDistinct
      /\ NoPostToDeadLoop /\ PostedNotListed /\ PostedOwned /\ WatchesTracked
  BY DEF IInv
<1>2. signaler[e] = "post" /\ waiters[e] # <<>>
  BY <1>1 DEF FirePost, SignalerOK
<1>3. /\ queue' = Append(queue, heap[a])
      /\ heap' = [heap EXCEPT ![a] = None]
      /\ waiters' = [waiters EXCEPT ![e] = Tail(@)]
      /\ signaler' = [signaler EXCEPT ![e] = IF e \in ManualReset THEN "next" ELSE "none"]
      /\ UNCHANGED <<watcher, flag, signaled, alive, loop>>
  BY <1>2 DEF FirePost
<1>4. /\ a \in ToSet(waiters[e]) /\ a \in Addresses
      /\ waiters'[e] \in Seq(Addresses) /\ NoDup(waiters'[e])
      /\ ToSet(waiters'[e]) = ToSet(waiters[e]) \ {a}
      /\ \A f \in Events : f # e => waiters'[f] = waiters[f]
  <2>1. waiters'[e] = Tail(waiters[e]) /\ \A f \in Events : f # e => waiters'[f] = waiters[f]
    BY <1>1, <1>3 DEF TypeOK
  <2>2. QED
    BY <1>1, <1>2, <2>1, Types, TailList DEF HeapListed
<1>5. heap[a] # None /\ heap[a].event = e /\ heap[a] \in Task
  BY <1>1, <1>4, Types DEF HeapListed
<1> HIDE DEF a
<1>6. /\ ToSet(queue') = ToSet(queue) \cup {heap[a]}
      /\ queue' \in Seq(Task)
  <2>1. queue \in Seq(Task)
    BY <1>1 DEF TypeOK
  <2>2. QED
    BY <1>3, <1>5, <2>1, AppendList
<1>7. heap'[a] = None /\ \A b \in Addresses : b # a => heap'[b] = heap[b]
  BY <1>1, <1>3, <1>4 DEF TypeOK
<1>8. TypeOK'
  <2>1. waiters' \in [Events -> Seq(Addresses)]
    BY <1>1, <1>3, <1>4 DEF TypeOK
  <2>2. heap' \in [Addresses -> Task \cup {None}]
    BY <1>1, <1>3, <1>4 DEF TypeOK
  <2>3. signaler' \in [Events -> {"none", "next", "post", "drop"}]
    BY <1>1, <1>3 DEF TypeOK
  <2>4. QED
    BY <1>1, <1>3, <1>6, <2>1, <2>2, <2>3 DEF TypeOK
<1>9. HeapOwned' /\ FlagsDistinct'
  <2>1. HeapOwned'
    BY <1>1, <1>3, <1>7 DEF HeapOwned, Owned
  <2>2. FlagsDistinct'
    BY <1>1, <1>3 DEF FlagsDistinct
  <2>3. QED
    BY <2>1, <2>2
<1>10. HeapListed'
  BY <1>1, <1>4, <1>5, <1>7 DEF HeapListed
<1>11. SignalerOK'
  BY <1>1, <1>3, <1>4 DEF SignalerOK, TypeOK
<1>12. PostedNotListed'
  <2>1. ASSUME NEW b \in Addresses, heap'[b] # None
        PROVE  heap'[b].flag # heap[a].flag
    <3>1. b # a /\ heap[b] # None /\ heap'[b] = heap[b]
      BY <1>7, <2>1
    <3>2. heap[b] \in Task
      BY <1>1, <3>1, Types
    <3>3. SUFFICES ASSUME heap[b].flag = heap[a].flag PROVE FALSE
      BY <3>1
    <3>4. /\ watcher[heap[a].watcher].cancel_flag = heap[a].flag
          /\ watcher[heap[b].watcher].cancel_flag = heap[b].flag
          /\ watcher[heap[a].watcher].waiter = a
          /\ watcher[heap[b].watcher].waiter = b
      BY <1>1, <1>4, <1>5, <3>1 DEF HeapOwned, Owned
    <3>5. heap[a].flag # None /\ heap[a].watcher \in Watchers /\ heap[b].watcher \in Watchers
      BY <1>5, <3>2, NoneIsNull DEF Task
    <3>6. heap[a].watcher = heap[b].watcher
      BY <1>1, <3>3, <3>4, <3>5 DEF FlagsDistinct
    <3>7. QED
      BY <3>1, <3>4, <3>6
  <2>2. QED
    BY <1>1, <1>3, <1>6, <1>7, <2>1 DEF PostedNotListed
<1>13. PostedOwned'
  <2>1. /\ watcher[heap[a].watcher].cancel_flag = heap[a].flag
        /\ watcher[heap[a].watcher].event = heap[a].event
    BY <1>1, <1>4, <1>5 DEF HeapOwned, Owned
  <2>2. QED
    BY <1>1, <1>3, <1>6, <2>1 DEF PostedOwned
<1>14. WatchesTracked'
  BY <1>1, <1>3, <1>6, <1>7 DEF WatchesTracked, Completed, TaskOf
<1>15. NoPostToDeadLoop'
  BY <1>1, <1>2, <1>3 DEF NoPostToDeadLoop
<1>16. QED
  BY <1>8, <1>9, <1>10, <1>11, <1>12, <1>13, <1>14, <1>15 DEF IInv

(* The task sets the flag, which no waiter shares. *)
LEMMA RunTaskInv ==
    ASSUME IInv, RunTask
    PROVE  IInv'
<1> DEFINE t == Head(queue)
<1>1. /\ TypeOK /\ HeapListed /\ HeapOwned /\ SignalerOK /\ FlagsDistinct
      /\ NoPostToDeadLoop /\ PostedNotListed /\ PostedOwned /\ WatchesTracked
  BY DEF IInv
<1>2. /\ loop = "running" /\ queue # <<>>
      /\ flag' = [flag EXCEPT ![t.flag] = TRUE]
      /\ queue' = Tail(queue)
      /\ UNCHANGED <<watcher, heap, waiters, signaled, signaler, alive, loop>>
  BY DEF RunTask
<1>3. /\ t \in ToSet(queue) /\ t \in Task
      /\ queue' \in Seq(Task)
      /\ ToSet(queue') \subseteq ToSet(queue)
      /\ ToSet(queue) \ {t} \subseteq ToSet(queue')
  <2>1. queue \in Seq(Task)
    BY <1>1 DEF TypeOK
  <2>2. QED
    BY <1>2, <2>1, TailList
<1> HIDE DEF t
<1>4. t.flag \in Flags /\ flag'[t.flag] /\ \A f \in Flags : f # t.flag => flag'[f] = flag[f]
  BY <1>1, <1>2, <1>3 DEF TypeOK, Task
<1>5. TypeOK'
  BY <1>1, <1>2, <1>3 DEF TypeOK
<1>6. HeapOwned'
  <2>1. ASSUME NEW a \in Addresses, heap[a] # None
        PROVE  heap[a].flag # t.flag /\ heap[a].flag \in Flags
    BY <1>1, <1>2, <1>3, <2>1, Types DEF PostedNotListed, Task
  <2>2. QED
    BY <1>1, <1>2, <1>4, <2>1 DEF HeapOwned, Owned
<1>7. FlagsDistinct' /\ HeapListed' /\ SignalerOK'
  BY <1>1, <1>2 DEF FlagsDistinct, HeapListed, SignalerOK
<1>8. PostedNotListed'
  BY <1>1, <1>2, <1>3 DEF PostedNotListed
<1>9. PostedOwned'
  <2>1. \A u \in ToSet(queue) : u.flag \in Flags
    BY <1>1, Types DEF Task
  <2>2. QED
    BY <1>1, <1>2, <1>3, <1>4, <2>1 DEF PostedOwned
<1>10. WatchesTracked'
  <2>1. ASSUME NEW w \in Watchers, watcher[w].cancel_flag # None, ~flag'[watcher[w].cancel_flag]
        PROVE  TaskOf(w) \in ToSet(queue') \/ \E a \in Addresses : heap[a] # None /\ heap[a] = TaskOf(w)
    <3>1. watcher[w].cancel_flag \in Flags
      BY <1>1, <2>1 DEF TypeOK
    <3>2. watcher[w].cancel_flag # t.flag /\ ~flag[watcher[w].cancel_flag]
      BY <1>4, <2>1, <3>1
    <3>3. TaskOf(w) # t
      BY <3>2 DEF TaskOf
    <3>4. QED
      BY <1>1, <1>2, <1>3, <2>1, <3>2, <3>3 DEF WatchesTracked, Completed
  <2>2. QED
    BY <1>2, <2>1 DEF WatchesTracked, Completed, TaskOf
<1>11. NoPostToDeadLoop'
  BY <1>1, <1>2 DEF NoPostToDeadLoop
<1>12. QED
  BY <1>5, <1>6, <1>7, <1>8, <1>9, <1>10, <1>11 DEF IInv

(* ~MessageLoop: once no watcher observes it no waiter is left. *)
LEMMA LoopInv ==
    ASSUME IInv, DeletePendingTasks \/ DestroyLoop
    PROVE  IInv'
<1>1. TypeOK /\ HeapListed /\ HeapOwned
  BY DEF IInv
<1>2. /\ UNCHANGED <<watcher, flag, heap, waiters, signaled, signaler, alive>>
      /\ queue' = <<>> /\ loop' \in {"dying", "dead"}
  BY DEF DeletePendingTasks, DestroyLoop
<1>3. TypeOK'
  BY <1>1, <1>2 DEF TypeOK
<1>4. HeapOwned' /\ FlagsDistinct' /\ HeapListed' /\ SignalerOK'
  BY <1>2 DEF IInv, HeapOwned, Owned, FlagsDistinct, HeapListed, SignalerOK
<1>5. PostedNotListed' /\ PostedOwned' /\ WatchesTracked'
  BY <1>2 DEF PostedNotListed, PostedOwned, WatchesTracked
<1>6. NoPostToDeadLoop'
  <2>1. CASE DeletePendingTasks
    BY <2>1 DEF DeletePendingTasks, NoPostToDeadLoop
  <2>2. CASE DestroyLoop
    <3>1. Observers = {} /\ Observers' = {}
      BY <1>2, <2>2 DEF DestroyLoop, Observers
    <3>2. ASSUME NEW a \in Addresses PROVE heap[a] = None
      <4>1. SUFFICES ASSUME heap[a] # None PROVE FALSE
        OBVIOUS
      <4>2. heap[a].watcher \in Watchers /\ watcher[heap[a].watcher].observing
        BY <1>1, <4>1, Types DEF HeapOwned, Owned, Task
      <4>3. QED
        BY <3>1, <4>2 DEF Observers
    <3>3. ASSUME NEW e \in Events PROVE waiters[e] = <<>>
      <4>1. ToSet(waiters[e]) = {}
        BY <1>1, <3>2, Types DEF HeapListed
      <4>2. QED
        BY <1>1, <4>1, Types, NothingInList
    <3>4. QED
      BY <1>2, <3>1, <3>3 DEF NoPostToDeadLoop
  <2>3. QED
    BY <2>1, <2>2
<1>7. QED
  BY <1>3, <1>4, <1>5, <1>6 DEF IInv

(* A watch starts with a Flag nobody refers to. *)
LEMMA StartWatchingInv ==
    ASSUME IInv, NEW w \in Watchers, NEW e \in Events, StartWatching(w, e)
    PROVE  IInv'
<1>1. /\ TypeOK /\ HeapListed /\ HeapOwned /\ SignalerOK /\ FlagsDistinct
      /\ NoPostToDeadLoop /\ PostedNotListed /\ PostedOwned /\ WatchesTracked
  BY DEF IInv
<1>2. /\ loop = "running" /\ loop' = loop
      /\ watcher[w].cancel_flag = None \/ Completed(w)
      /\ ~Locked(e)
      /\ UNCHANGED <<signaler, alive>>
  BY DEF StartWatching
<1>3. PICK f \in Flags \ Referenced :
        /\ flag' = [flag EXCEPT ![f] = FALSE]
        /\ \/ /\ signaled[e]
              /\ signaled' = [signaled EXCEPT ![e] = e \in ManualReset]
              /\ queue' = Append(queue, [flag |-> f, watcher |-> w, event |-> e])
              /\ watcher' = [watcher EXCEPT
                               ![w] = [observing |-> FALSE, cancel_flag |-> f,
                                       waiter |-> @.waiter, kernel |-> @.kernel,
                                       event |-> e]]
              /\ UNCHANGED <<heap, waiters>>
           \/ /\ ~signaled[e]
              /\ \E a \in {x \in Addresses : heap[x] = None} :
                  /\ heap' = [heap EXCEPT ![a] = [flag |-> f, watcher |-> w, event |-> e]]
                  /\ waiters' = [waiters EXCEPT ![e] = Append(@, a)]
                  /\ watcher' = [watcher EXCEPT
                                   ![w] = [observing |-> TRUE, cancel_flag |-> f,
                                           waiter |-> a, kernel |-> e, event |-> e]]
              /\ UNCHANGED <<signaled, queue>>
  BY Zenon DEF StartWatching
<1> DEFINE task == [flag |-> f, watcher |-> w, event |-> e]
<1>4. task \in Task /\ task # None /\ f # None
  BY NoneIsNull DEF Task
<1>5. /\ task.flag = f /\ task.watcher = w /\ task.event = e
  OBVIOUS
<1>6. /\ \A v \in Watchers : watcher[v].cancel_flag # f
      /\ \A a \in Addresses : heap[a] # None => heap[a].flag # f /\ heap[a].flag \in Flags
      /\ \A t \in ToSet(queue) : t.flag # f /\ t.flag \in Flags
  <2>1. \A v \in Watchers : watcher[v].cancel_flag # f
    BY <1>3 DEF Referenced
  <2>2. \A a \in Addresses : heap[a] # None => heap[a].flag # f
    BY <1>3 DEF Referenced
  <2>3. \A t \in ToSet(queue) : t.flag # f
    BY <1>3 DEF Referenced, ToSet
  <2>4. QED
    BY <1>1, <2>1, <2>2, <2>3, Types DEF Task
<1>7. ~flag'[f] /\ flag' \in [Flags -> BOOLEAN] /\ \A g \in Flags : g # f => flag'[g] = flag[g]
  BY <1>1, <1>3 DEF TypeOK
<1>8. /\ \A a \in Addresses : heap[a] # None => heap[a].watcher # w
      /\ \A t \in ToSet(queue) : ~flag[t.flag] => t.watcher # w
  <2>1. \A a \in Addresses : heap[a] # None => heap[a].watcher # w
    BY <1>1, <1>2, <1>6, NoneIsNull DEF HeapOwned, Owned, Completed
  <2>2. \A t \in ToSet(queue) : ~flag[t.flag] => t.watcher # w
    BY <1>1, <1>2, <1>6, NoneIsNull DEF PostedOwned, Completed
  <2>3. QED
    BY <2>1, <2>2
<1>9. PICK o \in BOOLEAN, a \in Addresses \cup {None}, k \in Events \cup {None} :
        watcher' = [watcher EXCEPT ![w] = [observing |-> o, cancel_flag |-> f,
                                           waiter |-> a, kernel |-> k, event |-> e]]
  <2>1. watcher[w].waiter \in Addresses \cup {None} /\ watcher[w].kernel \in Events \cup {None}
    BY <1>1 DEF TypeOK
  <2>2. QED
    BY <1>3, <2>1
<1>10. /\ watcher'[w].cancel_flag = f /\ watcher'[w].event = e
       /\ \A v \in Watchers : v # w => watcher'[v] = watcher[v]
       /\ watcher' \in [Watchers -> [observing : BOOLEAN,
                                 cancel_flag : Flags \cup {None},
                                 waiter : Addresses \cup {None},
                                 kernel : Events \cup {None},
                                 event : Events \cup {None}]]
  BY <1>1, <1>9 DEF TypeOK
<1>11. FlagsDistinct'
  BY <1>1, <1>6, <1>10 DEF FlagsDistinct
<1>12. NoPostToDeadLoop'
  BY <1>2 DEF NoPostToDeadLoop
<1>13. CASE /\ signaled' = [signaled EXCEPT ![e] = e \in ManualReset]
            /\ queue' = Append(queue, task)
            /\ UNCHANGED <<heap, waiters>>
  <2>1. /\ ToSet(queue') = ToSet(queue) \cup {task}
        /\ queue' \in Seq(Task)
    <3>1. queue \in Seq(Task)
      BY <1>1 DEF TypeOK
    <3>2. QED
      BY <1>4, <1>13, <3>1, AppendList
  <2>2. TypeOK'
    BY <1>1, <1>2, <1>7, <1>10, <1>13, <2>1 DEF TypeOK
  <2>3. HeapOwned'
    <3>1. \A b \in Addresses : heap[b] # None => heap[b].watcher \in Watchers
      BY <1>1, Types DEF Task
    <3>2. QED
      BY <1>1, <1>6, <1>7, <1>8, <1>10, <1>13, <3>1 DEF HeapOwned, Owned
  <2>4. HeapListed' /\ SignalerOK'
    BY <1>1, <1>2, <1>13 DEF HeapListed, SignalerOK
  <2>5. PostedNotListed'
    BY <1>1, <1>2, <1>5, <1>6, <1>13, <2>1 DEF PostedNotListed
  <2>6. PostedOwned'
    <3>1. \A t \in ToSet(queue) : t.watcher \in Watchers
      BY <1>1, Types DEF Task
    <3>2. QED
      BY <1>1, <1>2, <1>5, <1>6, <1>7, <1>8, <1>10, <2>1, <3>1 DEF PostedOwned
  <2>7. WatchesTracked'
    <3>1. ASSUME NEW v \in Watchers, watcher'[v].cancel_flag # None,
                 ~flag'[watcher'[v].cancel_flag]
          PROVE  TaskOf(v)' \in ToSet(queue') \/ \E b \in Addresses : heap'[b] # None /\ heap'[b] = TaskOf(v)'
      <4>1. CASE v = w
        BY <1>4, <1>10, <2>1, <4>1 DEF TaskOf
      <4>2. CASE v # w
        <5>1. watcher'[v] = watcher[v] /\ watcher[v].cancel_flag \in Flags
          BY <1>1, <1>10, <3>1, <4>2 DEF TypeOK
        <5>2. ~flag[watcher[v].cancel_flag]
          BY <1>6, <1>7, <3>1, <5>1
        <5>3. TaskOf(v)' = TaskOf(v)
          BY <5>1 DEF TaskOf
        <5>4. TaskOf(v) \in ToSet(queue) \/ \E b \in Addresses : heap[b] # None /\ heap[b] = TaskOf(v)
          BY <1>1, <1>2, <3>1, <5>1, <5>2 DEF WatchesTracked, Completed
        <5>5. QED
          BY <1>13, <2>1, <5>3, <5>4
      <4>3. QED
        BY <4>1, <4>2
    <3>2. QED
      BY <3>1 DEF WatchesTracked, Completed
  <2>8. QED
    BY <1>11, <1>12, <2>2, <2>3, <2>4, <2>5, <2>6, <2>7 DEF IInv
<1>14. ASSUME NEW b \in Addresses, heap[b] = None,
              heap' = [heap EXCEPT ![b] = task],
              waiters' = [waiters EXCEPT ![e] = Append(@, b)],
              watcher' = [watcher EXCEPT
                            ![w] = [observing |-> TRUE, cancel_flag |-> f,
                                    waiter |-> b, kernel |-> e, event |-> e]],
              UNCHANGED <<signaled, queue>>
       PROVE  IInv'
  <2>1. heap'[b] = task /\ \A c \in Addresses : c # b => heap'[c] = heap[c]
    BY <1>1, <1>14 DEF TypeOK
  <2>2. /\ waiters'[e] \in Seq(Addresses) /\ NoDup(waiters'[e])
        /\ ToSet(waiters'[e]) = ToSet(waiters[e]) \cup {b}
        /\ \A g \in Events : g # e => waiters'[g] = waiters[g]
    <3>1. /\ waiters'[e] = Append(waiters[e], b)
          /\ \A g \in Events : g # e => waiters'[g] = waiters[g]
      BY <1>1, <1>14 DEF TypeOK
    <3>2. NoDup(waiters[e]) /\ b \notin ToSet(waiters[e])
      BY <1>1, <1>14 DEF HeapListed
    <3>3. QED
      BY <1>1, <3>1, <3>2, Types, AppendList
  <2>3. TypeOK'
    <3>1. waiters' \in [Events -> Seq(Addresses)]
      BY <1>1, <1>14, <2>2 DEF TypeOK
    <3>2. heap' \in [Addresses -> Task \cup {None}]
      BY <1>1, <1>4, <1>14 DEF TypeOK
    <3>3. QED
      BY <1>1, <1>2, <1>7, <1>10, <1>14, <3>1, <3>2 DEF TypeOK
  <2>4. HeapOwned'
    <3>1. \A c \in Addresses : heap[c] # None => heap[c].watcher \in Watchers
      BY <1>1, Types DEF Task
    <3>2. watcher'[w] = [observing |-> TRUE, cancel_flag |-> f,
                         waiter |-> b, kernel |-> e, event |-> e]
      BY <1>1, <1>14 DEF TypeOK
    <3>3. ASSUME NEW c \in Addresses, heap'[c] # None
          PROVE  Owned(c)' /\ ~flag'[heap'[c].flag]
      <4>1. CASE c = b
        BY <1>5, <1>7, <2>1, <3>2, <4>1 DEF Owned
      <4>2. CASE c # b
        <5>1. heap'[c] = heap[c] /\ heap[c].watcher \in Watchers /\ heap[c].watcher # w
          BY <1>8, <2>1, <3>1, <3>3, <4>2
        <5>2. watcher'[heap[c].watcher] = watcher[heap[c].watcher]
          BY <1>10, <5>1
        <5>3. Owned(c) /\ ~flag[heap[c].flag]
          BY <1>1, <3>3, <5>1 DEF HeapOwned
        <5>4. QED
          BY <1>6, <1>7, <3>3, <5>1, <5>2, <5>3 DEF Owned
      <4>3. QED
        BY <4>1, <4>2
    <3>4. QED
      BY <3>3 DEF HeapOwned
  <2>5. HeapListed'
    BY <1>1, <1>4, <1>5, <1>14, <2>1, <2>2 DEF HeapListed
  <2>6. SignalerOK'
    BY <1>1, <1>2, <2>2 DEF SignalerOK, Locked
  <2>7. PostedNotListed'
    BY <1>1, <1>2, <1>5, <1>6, <1>14, <2>1 DEF PostedNotListed
  <2>8. PostedOwned'
    <3>1. \A t \in ToSet(queue) : t.watcher \in Watchers
      BY <1>1, Types DEF Task
    <3>2. QED
      BY <1>1, <1>2, <1>6, <1>7, <1>8, <1>10, <1>14, <3>1 DEF PostedOwned
  <2>9. WatchesTracked'
    <3>1. ASSUME NEW v \in Watchers, watcher'[v].cancel_flag # None,
                 ~flag'[watcher'[v].cancel_flag]
          PROVE  TaskOf(v)' \in ToSet(queue') \/ \E c \in Addresses : heap'[c] # None /\ heap'[c] = TaskOf(v)'
      <4>1. CASE v = w
        BY <1>4, <1>10, <2>1, <4>1 DEF TaskOf
      <4>2. CASE v # w
        <5>1. watcher'[v] = watcher[v] /\ watcher[v].cancel_flag \in Flags
          BY <1>1, <1>10, <3>1, <4>2 DEF TypeOK
        <5>2. ~flag[watcher[v].cancel_flag]
          BY <1>6, <1>7, <3>1, <5>1
        <5>3. TaskOf(v)' = TaskOf(v)
          BY <5>1 DEF TaskOf
        <5>4. TaskOf(v) \in ToSet(queue) \/ \E c \in Addresses : heap[c] # None /\ heap[c] = TaskOf(v)
          BY <1>1, <1>2, <3>1, <5>1, <5>2 DEF WatchesTracked, Completed
        <5>5. QED
          BY <1>14, <2>1, <5>3, <5>4, <1>4
      <4>3. QED
        BY <4>1, <4>2
    <3>2. QED
      BY <3>1 DEF WatchesTracked, Completed
  <2>10. QED
    BY <1>11, <1>12, <2>3, <2>4, <2>5, <2>6, <2>7, <2>8, <2>9 DEF IInv
<1>15. QED
  BY <1>3, <1>13, <1>14

(* StopWatching removes the waiter it finds with its own Flag, and sets    *)
(* the Flag when there is none.                                            *)
LEMMA StopInv ==
    ASSUME IInv, NEW w \in Watchers, NEW after,
           after \in {Stopped(w), NewWatcher}, Stop(w, after),
           UNCHANGED <<signaled, signaler, alive, queue, loop>>
    PROVE  IInv'
<1> DEFINE f == watcher[w].cancel_flag
           k == watcher[w].kernel
           b == watcher[w].waiter
<1>1. /\ TypeOK /\ HeapListed /\ HeapOwned /\ SignalerOK /\ FlagsDistinct
      /\ NoPostToDeadLoop /\ PostedNotListed /\ PostedOwned /\ WatchesTracked
  BY DEF IInv
<1>2. /\ f \in Flags \cup {None} /\ k \in Events \cup {None} /\ b \in Addresses \cup {None}
      /\ watcher[w].event \in Events \cup {None}
  BY <1>1 DEF TypeOK
<1>3. /\ watcher' = [watcher EXCEPT ![w] = after]
      /\ after.cancel_flag = None /\ ~after.observing
      /\ after \in [observing : BOOLEAN,
                    cancel_flag : Flags \cup {None},
                    waiter : Addresses \cup {None},
                    kernel : Events \cup {None},
                    event : Events \cup {None}]
  <2>1. watcher' = [watcher EXCEPT ![w] = after]
    BY DEF Stop
  <2>2. CASE after = NewWatcher
    BY <2>1, <2>2 DEF NewWatcher
  <2>3. CASE after = Stopped(w)
    BY <1>2, <2>1, <2>3 DEF Stopped
  <2>4. QED
    BY <2>2, <2>3
<1>4. /\ watcher'[w].cancel_flag = None /\ ~watcher'[w].observing
      /\ \A v \in Watchers : v # w => watcher'[v] = watcher[v]
      /\ watcher' \in [Watchers -> [observing : BOOLEAN,
                                 cancel_flag : Flags \cup {None},
                                 waiter : Addresses \cup {None},
                                 kernel : Events \cup {None},
                                 event : Events \cup {None}]]
  BY <1>1, <1>3 DEF TypeOK
<1>5. FlagsDistinct'
  BY <1>1, <1>4 DEF FlagsDistinct
<1>6. \A a \in Addresses : heap[a] # None => heap[a] \in Task
  BY <1>1, Types
\* The waiter of w, if it has one, is where kernel_ and waiter_ say.
<1>7. ASSUME NEW a \in Addresses, heap[a] # None, heap[a].watcher = w
      PROVE  /\ f = heap[a].flag /\ k = heap[a].event /\ b = a
             /\ f # None /\ ~Completed(w) /\ k # None
             /\ \E i \in DOMAIN waiters[k] : Match(waiters[k][i], b, f)
  <2>1. f = heap[a].flag /\ k = heap[a].event /\ b = a /\ ~flag[heap[a].flag]
    BY <1>1, <1>7 DEF HeapOwned, Owned
  <2>2. heap[a].flag \in Flags /\ heap[a].event \in Events
    BY <1>6, <1>7 DEF Task
  <2>3. a \in ToSet(waiters[k])
    BY <1>1, <1>7, <2>1, <2>2 DEF HeapListed
  <2>4. QED
    BY <2>1, <2>2, <2>3, NoneIsNull DEF ToSet, Match, Completed
<1>8. \A a \in Addresses : heap[a] # None /\ heap[a].flag = f => heap[a].watcher = w
  <2>1. ASSUME NEW a \in Addresses, heap[a] # None, heap[a].flag = f
        PROVE  heap[a].watcher = w
    <3>1. /\ heap[a].watcher \in Watchers /\ heap[a].flag # None
          /\ watcher[heap[a].watcher].cancel_flag = heap[a].flag
      BY <1>1, <1>6, <2>1, NoneIsNull DEF HeapOwned, Owned, Task
    <3>2. QED
      BY <1>1, <2>1, <3>1 DEF FlagsDistinct
  <2>2. QED
    BY <2>1
<1> HIDE DEF f, k, b
\* Nothing was found: w has no waiter, and its flag is set if it has one.
<1>9. ASSUME UNCHANGED <<heap, waiters>>,
             \A a \in Addresses : heap[a] # None => heap[a].watcher # w,
             flag' \in [Flags -> BOOLEAN],
             \A g \in Flags : g # f => flag'[g] = flag[g],
             f # None => flag'[f]
      PROVE  IInv'
  <2>1. TypeOK'
    BY <1>1, <1>4, <1>9 DEF TypeOK
  <2>2. HeapOwned'
    BY <1>1, <1>4, <1>6, <1>8, <1>9 DEF HeapOwned, Owned, Task
  <2>3. HeapListed' /\ SignalerOK'
    BY <1>1, <1>9 DEF HeapListed, SignalerOK
  <2>4. PostedNotListed'
    BY <1>1, <1>9 DEF PostedNotListed
  <2>5. PostedOwned'
    <3>1. ASSUME loop = "running", NEW t \in ToSet(queue), ~flag'[t.flag]
          PROVE  /\ watcher'[t.watcher].cancel_flag = t.flag
                 /\ watcher'[t.watcher].event = t.event
      <4>1. t.flag \in Flags /\ t.watcher \in Watchers
        BY <1>1, Types DEF Task
      <4>2. t.flag # f /\ ~flag[t.flag]
        BY <1>9, <3>1, <4>1, NoneIsNull
      <4>3. /\ watcher[t.watcher].cancel_flag = t.flag
            /\ watcher[t.watcher].event = t.event
        BY <1>1, <3>1, <4>2 DEF PostedOwned
      <4>4. QED
        BY <1>4, <4>1, <4>2, <4>3 DEF f
    <3>2. QED
      BY <3>1 DEF PostedOwned
  <2>6. WatchesTracked'
    <3>1. ASSUME loop = "running", NEW v \in Watchers, watcher'[v].cancel_flag # None,
                 ~flag'[watcher'[v].cancel_flag]
          PROVE  TaskOf(v)' \in ToSet(queue') \/ \E c \in Addresses : heap'[c] # None /\ heap'[c] = TaskOf(v)'
      <4>1. v # w /\ watcher'[v] = watcher[v] /\ watcher[v].cancel_flag \in Flags
        BY <1>1, <1>4, <3>1 DEF TypeOK
      <4>2. watcher[v].cancel_flag # f
        BY <1>1, <3>1, <4>1 DEF FlagsDistinct, f
      <4>3. ~flag[watcher[v].cancel_flag]
        BY <1>9, <3>1, <4>1, <4>2
      <4>4. TaskOf(v)' = TaskOf(v)
        BY <4>1 DEF TaskOf
      <4>5. TaskOf(v) \in ToSet(queue) \/ \E c \in Addresses : heap[c] # None /\ heap[c] = TaskOf(v)
        BY <1>1, <3>1, <4>1, <4>3 DEF WatchesTracked, Completed
      <4>6. QED
        BY <1>9, <4>4, <4>5
    <3>2. QED
      BY <3>1 DEF WatchesTracked, Completed
  <2>7. NoPostToDeadLoop'
    BY <1>1, <1>4, <1>9 DEF NoPostToDeadLoop, Observers
  <2>8. QED
    BY <1>5, <2>1, <2>2, <2>3, <2>4, <2>5, <2>6, <2>7 DEF IInv
<1>10. CASE (f = None \/ Completed(w)) /\ UNCHANGED <<flag, heap, waiters>>
  BY <1>1, <1>7, <1>9, <1>10 DEF TypeOK, Completed, f
<1>11. CASE /\ f # None /\ UNCHANGED <<heap, waiters>>
            /\ k = None \/ \A i \in DOMAIN waiters[k] : ~Match(waiters[k][i], b, f)
            /\ flag' = [flag EXCEPT ![f] = TRUE]
  BY <1>1, <1>2, <1>7, <1>9, <1>11 DEF TypeOK
<1>12. ASSUME f # None, ~Completed(w), k # None, ~Locked(k),
              NEW i \in DOMAIN waiters[k], Match(waiters[k][i], b, f),
              waiters' = [waiters EXCEPT ![k] = RemoveFirst(@, b)],
              heap' = [heap EXCEPT ![b] = None],
              UNCHANGED flag
       PROVE  IInv'
  <2>1. k \in Events /\ b \in ToSet(waiters[k]) /\ b \in Addresses /\ heap[b].flag = f
    BY <1>1, <1>2, <1>12, Types DEF Match, ToSet
  <2>2. heap[b] # None /\ heap[b].event = k /\ heap[b].watcher = w
    BY <1>1, <1>8, <2>1 DEF HeapListed
  <2>3. /\ waiters'[k] \in Seq(Addresses) /\ NoDup(waiters'[k])
        /\ ToSet(waiters'[k]) = ToSet(waiters[k]) \ {b}
        /\ \A g \in Events : g # k => waiters'[g] = waiters[g]
    <3>1. /\ waiters'[k] = RemoveFirst(waiters[k], b)
          /\ \A g \in Events : g # k => waiters'[g] = waiters[g]
      BY <1>1, <1>12, <2>1 DEF TypeOK
    <3>2. NoDup(waiters[k]) /\ waiters[k] \in Seq(Addresses)
      BY <1>1, <2>1, Types DEF HeapListed
    <3>3. QED
      BY <3>1, <3>2, RemoveFirstList
  <2>4. heap'[b] = None /\ \A c \in Addresses : c # b => heap'[c] = heap[c]
    BY <1>1, <1>12, <2>1 DEF TypeOK
  <2>5. TypeOK'
    <3>1. waiters' \in [Events -> Seq(Addresses)]
      BY <1>1, <1>12, <2>3 DEF TypeOK
    <3>2. heap' \in [Addresses -> Task \cup {None}]
      BY <1>1, <1>12, <2>1 DEF TypeOK
    <3>3. QED
      BY <1>1, <1>4, <1>12, <3>1, <3>2 DEF TypeOK
  <2>6. HeapOwned'
    <3>1. \A c \in Addresses : heap[c] # None /\ c # b => heap[c].watcher # w
      BY <1>7
    <3>2. QED
      BY <1>1, <1>4, <1>6, <1>12, <2>4, <3>1 DEF HeapOwned, Owned, Task
  <2>7. HeapListed'
    BY <1>1, <2>1, <2>2, <2>3, <2>4 DEF HeapListed
  <2>8. SignalerOK'
    BY <1>1, <1>12, <2>1, <2>3 DEF SignalerOK, Locked
  <2>9. PostedNotListed'
    BY <1>1, <2>4 DEF PostedNotListed
  <2>10. PostedOwned'
    <3>1. ASSUME loop = "running", NEW t \in ToSet(queue), ~flag'[t.flag]
          PROVE  /\ watcher'[t.watcher].cancel_flag = t.flag
                 /\ watcher'[t.watcher].event = t.event
      <4>1. t.flag \in Flags /\ t.watcher \in Watchers
        BY <1>1, Types DEF Task
      <4>2. t.flag # f
        BY <1>1, <2>1, <2>2, <3>1 DEF PostedNotListed
      <4>3. /\ watcher[t.watcher].cancel_flag = t.flag
            /\ watcher[t.watcher].event = t.event
        BY <1>1, <1>12, <3>1 DEF PostedOwned
      <4>4. QED
        BY <1>4, <4>1, <4>2, <4>3 DEF f
    <3>2. QED
      BY <3>1 DEF PostedOwned
  <2>11. WatchesTracked'
    <3>1. ASSUME loop = "running", NEW v \in Watchers, watcher'[v].cancel_flag # None,
                 ~flag'[watcher'[v].cancel_flag]
          PROVE  TaskOf(v)' \in ToSet(queue') \/ \E c \in Addresses : heap'[c] # None /\ heap'[c] = TaskOf(v)'
      <4>1. v # w /\ watcher'[v] = watcher[v]
        BY <1>4, <3>1
      <4>2. TaskOf(v)' = TaskOf(v) /\ TaskOf(v).watcher # w
        BY <4>1 DEF TaskOf
      <4>3. TaskOf(v) \in ToSet(queue) \/ \E c \in Addresses : heap[c] # None /\ heap[c] = TaskOf(v)
        BY <1>1, <1>12, <3>1, <4>1 DEF WatchesTracked, Completed
      <4>4. QED
        BY <2>2, <2>4, <4>2, <4>3
    <3>2. QED
      BY <3>1 DEF WatchesTracked, Completed
  <2>12. NoPostToDeadLoop'
    <3>1. loop # "dead"
      BY <1>1, <2>1, EmptyList DEF NoPostToDeadLoop
    <3>2. QED
      BY <3>1 DEF NoPostToDeadLoop
  <2>13. QED
    BY <1>5, <2>5, <2>6, <2>7, <2>8, <2>9, <2>10, <2>11, <2>12 DEF IInv
<1>13. QED
  BY <1>10, <1>11, <1>12 DEF Stop, CancelFired, f, k, b

-----------------------------------------------------------------------------
(* The invariant holds at the start. *)
LEMMA InitInv == Init => IInv
<1> SUFFICES ASSUME Init PROVE IInv
  OBVIOUS
<1>1. TypeOK
  BY DEF Init, TypeOK, NewWatcher
<1>2. HeapOwned /\ FlagsDistinct /\ SignalerOK
  BY DEF Init, HeapOwned, FlagsDistinct, SignalerOK, NewWatcher
<1>3. HeapListed
  BY EmptyList DEF Init, HeapListed
<1>4. PostedNotListed /\ PostedOwned /\ WatchesTracked
  BY EmptyList DEF Init, PostedNotListed, PostedOwned, WatchesTracked, NewWatcher
<1>5. NoPostToDeadLoop
  BY DEF Init, NoPostToDeadLoop
<1>6. QED
  BY <1>1, <1>2, <1>3, <1>4, <1>5 DEF IInv

(* Every step keeps it. *)
LEMMA NextInv == IInv /\ [Next]_vars => IInv'
<1> SUFFICES ASSUME IInv, [Next]_vars PROVE IInv'
  OBVIOUS
<1>1. ASSUME NEW w \in Watchers, NEW e \in Events, StartWatching(w, e) PROVE IInv'
  BY <1>1, StartWatchingInv
<1>2. ASSUME NEW w \in Watchers, StopWatching(w) PROVE IInv'
  BY <1>2, StopInv DEF StopWatching
<1>3. ASSUME NEW w \in Watchers, WillDestroyCurrentMessageLoop(w) PROVE IInv'
  BY <1>3, StopInv DEF WillDestroyCurrentMessageLoop
<1>4. ASSUME NEW e \in Events,
             \/ Signal(e) \/ FireTest(e) \/ FirePost(e)
             \/ SignalEnd(e) \/ Reset(e) \/ DeleteEvent(e)
      PROVE  IInv'
  BY <1>4, EventInv, FirePostInv
<1>5. CASE RunTask \/ DeletePendingTasks \/ DestroyLoop
  BY <1>5, RunTaskInv, LoopInv
<1>6. CASE UNCHANGED vars
  <2>1. TypeOK' /\ HeapOwned' /\ FlagsDistinct' /\ HeapListed' /\ SignalerOK'
    BY <1>6 DEF vars, IInv, TypeOK, HeapOwned, Owned, FlagsDistinct, HeapListed, SignalerOK
  <2>2. PostedNotListed' /\ PostedOwned' /\ WatchesTracked' /\ NoPostToDeadLoop'
    BY <1>6 DEF vars, IInv, PostedNotListed, PostedOwned, WatchesTracked, TaskOf,
                Completed, NoPostToDeadLoop, Observers
  <2>3. QED
    BY <2>1, <2>2 DEF IInv
<1>7. QED
  BY <1>1, <1>2, <1>3, <1>4, <1>5, <1>6 DEF Next

(* The invariant holds in every reachable state. *)
LEMMA Invariance == Spec => []IInv
BY InitInv, NextInv, PTL DEF Spec

(***************************************************************************)
(* Fire, Dequeue and the destructors follow valid pointers only: what is   *)
(* in kernel_->waiters_ is allocated, in one list, not cancelled, and      *)
(* knows a MessageLoop that is alive.  Nothing is said of a waiter_ left   *)
(* from an earlier watch or of the event of a posted task.                 *)
(***************************************************************************)
THEOREM PointersValidThm == Spec => []PointersValid
<1>1. IInv => PointersValid
  <2> SUFFICES ASSUME IInv PROVE PointersValid
    OBVIOUS
  <2>1. TypeOK /\ HeapListed /\ HeapOwned /\ NoPostToDeadLoop
    BY DEF IInv
  <2>2. ASSUME NEW e \in Events, NEW i \in DOMAIN waiters[e]
        PROVE  /\ heap[waiters[e][i]] # None
               /\ heap[waiters[e][i]].event = e
               /\ ~flag[heap[waiters[e][i]].flag]
               /\ \A j \in DOMAIN waiters[e] : waiters[e][j] = waiters[e][i] => j = i
    <3>1. waiters[e][i] \in ToSet(waiters[e]) /\ waiters[e][i] \in Addresses
      BY <2>1, Types DEF ToSet
    <3>2. QED
      BY <2>1, <3>1 DEF HeapListed, HeapOwned, NoDup
  <2>3. ASSUME NEW a \in Addresses, heap[a] # None
        PROVE  a \in Listed(heap[a].event)
    <3>1. heap[a].event \in Events
      BY <2>1, <2>3, Types DEF Task
    <3>2. QED
      BY <2>1, <2>3, <3>1 DEF HeapListed, Listed, ToSet
  <2>4. ListedWaitersValid
    BY <2>2, <2>3 DEF ListedWaitersValid
  <2>5. QED
    BY <2>1, <2>4 DEF PointersValid
<1>2. QED
  BY <1>1, Invariance, PTL

(***************************************************************************)
(* A watch that was started and is neither stopped nor completed can still *)
(* end in a call of the delegate: nobody else's StopWatching, with a stale *)
(* waiter_ and kernel_, takes its waiter away.                             *)
(***************************************************************************)
THEOREM WatchTrackedThm == Spec => []WatchTracked
<1>1. IInv => WatchTracked
  <2> SUFFICES ASSUME IInv, loop = "running", NEW w \in Watchers,
                      watcher[w].cancel_flag # None, ~Completed(w)
               PROVE  \/ \E i \in DOMAIN queue : queue[i] = TaskOf(w)
                      \/ \E a \in Listed(watcher[w].event) : heap[a] = TaskOf(w)
    BY DEF WatchTracked, TaskOf
  <2>1. TaskOf(w) \in ToSet(queue) \/ \E a \in Addresses : heap[a] # None /\ heap[a] = TaskOf(w)
    BY DEF IInv, WatchesTracked
  <2>2. ASSUME NEW a \in Addresses, heap[a] # None, heap[a] = TaskOf(w)
        PROVE  a \in Listed(watcher[w].event)
    <3>1. heap[a].event \in Events /\ heap[a].event = watcher[w].event
      BY <2>2, Types DEF IInv, Task, TaskOf
    <3>2. QED
      BY <2>2, <3>1 DEF IInv, HeapListed, Listed, ToSet
  <2>3. QED
    BY <2>1, <2>2 DEF ToSet
<1>2. QED
  BY <1>1, Invariance, PTL

(***************************************************************************)
(* The delegate is not called for a watch that was stopped: a task on the  *)
(* loop whose flag is not set is the one of the watch under way.           *)
(***************************************************************************)
THEOREM NoCallAfterStopThm == Spec => []NoCallAfterStop
<1>1. IInv => NoCallAfterStop
  BY DEF IInv, PostedOwned, NoCallAfterStop, ToSet
<1>2. QED
  BY <1>1, Invariance, PTL
=============================================================================
