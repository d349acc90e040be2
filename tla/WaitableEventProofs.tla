------------------------- MODULE WaitableEventProofs -------------------------
(***************************************************************************)
(* Safety of WaitableEvent for any finite set of events, of any mixture of *)
(* manual and automatic reset, and any finite set of threads.              *)
(***************************************************************************)
EXTENDS WaitableEvent, ListLemmas, FiniteSetTheorems

(* The positions in which a thread has a SyncWaiter others may know of. *)
Waiting == {"loop", "blocked", "woken", "dequeue"}

(* Who signals e holds its lock, and e is not signaled until it is done. *)
SignalerHoldsLock ==
    \A p \in Threads : pc[p] = "signal" =>
        \E e \in Events : call[p].events = {e} /\ lock[e] = p /\ ~signaled[e]

(* A lock is kept across steps by Signal and by EnqueueMany alone, which   *)
(* found the event not signaled; nobody can have signaled it since.        *)
LockedNotSignaled ==
    \A p \in Threads, e \in Events :
        lock[e] = p => pc[p] \in {"signal", "lock"} /\ ~signaled[e]

(* The wait lists as sets: who is in one is waiting for that event, and    *)
(* who sleeps is in all that it waits for.                                 *)
ListsHoldWaiters ==
    \A e \in Events : \A p \in ToSet(waiters[e]) :
        pc[p] \in Waiting /\ e \in call[p].events
SleepersInLists ==
    \A p \in Threads :
        pc[p] \in {"loop", "blocked", "woken"} /\ ~sw[p].fired =>
            \A e \in call[p].events : p \in ToSet(waiters[e])
ListsNoDup == \A e \in Events : NoDup(waiters[e])

(* The event that fired has dropped the waiter: WaitMany may skip its lock. *)
FiredOffList ==
    \A e \in Events : \A p \in ToSet(waiters[e]) : sw[p].signaling_event # e

(* What the SyncWaiter says at each position.  fired_ without an event is  *)
(* a waiter that was disabled, which happens on the way out only.          *)
SyncWaiterOK ==
    \A p \in Threads :
        /\ pc[p] \notin Waiting => sw[p] = SyncWaiter
        /\ pc[p] = "lock" => call[p].op = "WaitMany" /\ ~call[p].result
        /\ pc[p] \in {"loop", "blocked", "woken"} =>
              /\ sw[p].fired <=> sw[p].signaling_event # None
              /\ ~call[p].result
        /\ pc[p] = "dequeue" =>
              /\ sw[p].fired
              /\ call[p].result <=> sw[p].signaling_event # None

(* Wait and TimedWait wait for one event and only that one can fire them. *)
OneEvent ==
    \A p \in Threads : pc[p] \in Waiting /\ call[p].op # "WaitMany" =>
        \E e \in Events : /\ sw[p].signaling_event \in {None, e}
                          /\ \/ call[p].events = {e}
                             \/ pc[p] = "dequeue" /\ call[p].events = {}

Lists ==
    /\ ListsHoldWaiters /\ ListsNoDup /\ FiredOffList
    /\ SignaledMeansNoWaiters /\ SleepersInLists

IInv ==
    /\ TypeOK
    /\ SignalsConserved
    /\ SignalerHoldsLock /\ LockedNotSignaled
    /\ Lists
    /\ SyncWaiterOK /\ OneEvent
    /\ SignalDoneBeforeReturn

-----------------------------------------------------------------------------
(* The threads that got a signal, and the signalers, can be counted. *)
LEMMA CountsNat ==
    ASSUME NEW e
    PROVE  /\ IsFiniteSet(Got(e)) /\ Cardinality(Got(e)) \in Nat
           /\ IsFiniteSet(Signaling(e)) /\ Cardinality(Signaling(e)) \in Nat
<1>1. IsFiniteSet(Got(e)) /\ IsFiniteSet(Signaling(e))
  BY ThreadsFinite, FS_Subset DEF Got, Signaling
<1>2. QED
  BY <1>1, FS_CardinalityType

(* What a wait list is made of. *)
LEMMA ListTypes ==
    ASSUME TypeOK, NEW e \in Events
    PROVE  waiters[e] \in Seq(Threads) /\ ToSet(waiters[e]) \subseteq Threads
BY DEF TypeOK, ToSet

(* A signal that is found set is used up: Reset, IsSignaled and a wait that *)
(* need not block.                                                         *)
LEMMA ConsumedInv ==
    ASSUME IInv, NEW e \in Events, signaled[e], Consumed(e),
           NEW v \in BOOLEAN, v => e \in ManualReset,
           signaled' = [signaled EXCEPT ![e] = v],
           UNCHANGED <<sw>>,
           \A f \in Events : Signaling(f)' = Signaling(f)
    PROVE  /\ SignalsConserved'
           /\ signaled' \in [Events -> BOOLEAN]
           /\ undelivered' \in [Events -> Nat]
           /\ \A f \in Events : signaled'[f] => signaled[f]
<1>1. /\ undelivered \in [Events -> Nat] /\ signaled \in [Events -> BOOLEAN]
      /\ SignalsConserved
  BY DEF IInv, TypeOK
<1>2. \A f \in Events : Got(f)' = Got(f)
  BY DEF Got
<1>3. e \notin ManualReset => undelivered[e] > 0
  BY <1>1, CountsNat DEF SignalsConserved
<1>4. undelivered' \in [Events -> Nat]
  BY <1>1, <1>3 DEF Consumed
<1>5. ASSUME NEW f \in Events \ ManualReset
      PROVE  undelivered'[f] = (IF signaled'[f] THEN 1 ELSE 0)
                         + Cardinality(Got(f)') + Cardinality(Signaling(f)')
  <2>1. /\ Got(f)' = Got(f) /\ Signaling(f)' = Signaling(f)
        /\ Cardinality(Got(f)) \in Nat /\ Cardinality(Signaling(f)) \in Nat
        /\ undelivered[f] = (IF signaled[f] THEN 1 ELSE 0)
                         + Cardinality(Got(f)) + Cardinality(Signaling(f))
    BY <1>1, <1>2, CountsNat DEF SignalsConserved
  <2>2. CASE f = e
    BY <1>1, <2>1, <2>2 DEF Consumed
  <2>3. CASE f # e
    <3>1. undelivered'[f] = undelivered[f] /\ signaled'[f] = signaled[f]
      BY <1>1, <2>3 DEF Consumed
    <3>2. QED
      BY <2>1, <3>1
  <2>4. QED
    BY <2>2, <2>3
<1>6. QED
  BY <1>1, <1>4, <1>5 DEF SignalsConserved

(* Reset and IsSignaled. *)
LEMMA ResetInv ==
    ASSUME IInv, NEW e \in Events, Reset(e) \/ IsSignaled(e)
    PROVE  IInv'
<1>1. PICK v \in BOOLEAN : /\ v => e \in ManualReset
                           /\ signaled' = [signaled EXCEPT ![e] = v]
  <2>1. CASE Reset(e)
    BY <2>1, Zenon DEF Reset
  <2>2. CASE IsSignaled(e)
    <3>1. (e \in ManualReset) \in BOOLEAN
      OBVIOUS
    <3>2. signaled' = [signaled EXCEPT ![e] = e \in ManualReset]
      BY <2>2 DEF IsSignaled, ConsumeSignaled
    <3>3. QED
      BY <3>1, <3>2, Zenon
  <2>3. QED
    BY <2>1, <2>2
<1>2. /\ signaled[e] /\ Consumed(e)
      /\ UNCHANGED <<waiters, lock, sw, pc, call>>
  BY DEF Reset, IsSignaled, ConsumeSignaled
<1>3. \A f \in Events : Signaling(f)' = Signaling(f)
  BY <1>2 DEF Signaling
<1>4. /\ SignalsConserved'
      /\ signaled' \in [Events -> BOOLEAN]
      /\ undelivered' \in [Events -> Nat]
      /\ \A f \in Events : signaled'[f] => signaled[f]
  BY <1>1, <1>2, <1>3, ConsumedInv
<1>5. TypeOK'
  BY <1>2, <1>4 DEF IInv, TypeOK
<1>6. SignalerHoldsLock'
  BY <1>2, <1>4 DEF IInv, SignalerHoldsLock
<1>7. LockedNotSignaled'
  BY <1>2, <1>4 DEF IInv, TypeOK, LockedNotSignaled
<1>8. Lists'
  BY <1>2, <1>4 DEF IInv, Lists, ListsHoldWaiters, ListsNoDup, FiredOffList,
                    SignaledMeansNoWaiters, SleepersInLists
<1>9. SyncWaiterOK' /\ OneEvent' /\ SignalDoneBeforeReturn'
  BY <1>2 DEF IInv, SyncWaiterOK, OneEvent, SignalDoneBeforeReturn
<1>10. QED
  BY <1>4, <1>5, <1>6, <1>7, <1>8, <1>9 DEF IInv

(* Signal up to its first Fire: the signal is in the signaler's hands. *)
LEMMA SignalInv ==
    ASSUME IInv, NEW p \in Threads, NEW e \in Events, Signal(p, e)
    PROVE  IInv'
<1>1. /\ pc[p] = "idle" /\ lock[e] = None /\ ~signaled[e]
      /\ lock' = [lock EXCEPT ![e] = p]
      /\ call' = [call EXCEPT ![p] = [op |-> "Signal", events |-> {e},
                                      result |-> FALSE, woke |-> {}]]
      /\ pc' = [pc EXCEPT ![p] = "signal"]
      /\ UNCHANGED <<signaled, waiters, sw>>
  BY DEF Signal, Enter
<1>2. TypeOK
  BY DEF IInv
<1>3. /\ undelivered' = IF e \in ManualReset THEN undelivered
                        ELSE [undelivered EXCEPT ![e] = @ + 1]
      /\ undelivered' \in [Events -> Nat]
  BY <1>2 DEF Signal, Produced, TypeOK
<1>4. TypeOK'
  BY <1>1, <1>2, <1>3 DEF TypeOK, Position, Operation
<1>5. SignalsConserved'
  <2>1. \A f \in Events : Got(f)' = Got(f)
    BY <1>1 DEF Got
  <2>2. Signaling(e)' = Signaling(e) \cup {p} /\ p \notin Signaling(e)
    BY <1>1, <1>2 DEF Signaling, TypeOK
  <2>3. \A f \in Events : f # e => Signaling(f)' = Signaling(f)
    BY <1>1, <1>2 DEF Signaling, TypeOK
  <2>4. Cardinality(Signaling(e)') = Cardinality(Signaling(e)) + 1
    BY <2>2, CountsNat, FS_AddElement
  <2>5. ASSUME NEW f \in Events \ ManualReset
        PROVE  undelivered'[f] = (IF signaled'[f] THEN 1 ELSE 0)
                         + Cardinality(Got(f)') + Cardinality(Signaling(f)')
    <3>1. /\ Cardinality(Got(f)) \in Nat /\ Cardinality(Signaling(f)) \in Nat
          /\ undelivered[f] = (IF signaled[f] THEN 1 ELSE 0)
                         + Cardinality(Got(f)) + Cardinality(Signaling(f))
          /\ undelivered[f] \in Nat
      BY <1>2, CountsNat DEF IInv, SignalsConserved, TypeOK
    <3>2. CASE f = e
      BY <1>1, <1>2, <1>3, <2>1, <2>4, <3>1, <3>2 DEF TypeOK
    <3>3. CASE f # e
      <4>1. undelivered'[f] = undelivered[f]
        BY <1>2, <1>3, <3>3 DEF TypeOK
      <4>2. QED
        BY <1>1, <2>1, <2>3, <3>1, <3>3, <4>1
    <3>4. QED
      BY <3>2, <3>3
  <2>6. QED
    BY <2>5 DEF SignalsConserved
<1>6. SignalerHoldsLock'
  <2>1. ASSUME NEW q \in Threads, pc'[q] = "signal"
        PROVE  \E f \in Events : call'[q].events = {f} /\ lock'[f] = q /\ ~signaled'[f]
    <3>1. CASE q = p
      BY <1>1, <1>2, <3>1 DEF TypeOK
    <3>2. CASE q # p
      <4>1. pc[q] = "signal" /\ call'[q] = call[q]
        BY <1>1, <1>2, <2>1, <3>2 DEF TypeOK
      <4>2. PICK f \in Events : call[q].events = {f} /\ lock[f] = q /\ ~signaled[f]
        BY <4>1 DEF IInv, SignalerHoldsLock
      <4>3. lock'[f] = q /\ ~signaled'[f]
        BY <1>1, <1>2, <4>2, NoneIsNone DEF TypeOK
      <4>4. QED
        BY <4>1, <4>2, <4>3
    <3>3. QED
      BY <3>1, <3>2
  <2>2. QED
    BY <2>1 DEF SignalerHoldsLock
<1>7. LockedNotSignaled'
  BY <1>1, <1>2, NoneIsNone DEF IInv, LockedNotSignaled, TypeOK
<1>8. ListsHoldWaiters' /\ SleepersInLists'
  BY <1>1, <1>2, ListTypes DEF IInv, Lists, ListsHoldWaiters, SleepersInLists, TypeOK, Waiting
<1>9. ListsNoDup' /\ FiredOffList' /\ SignaledMeansNoWaiters'
  BY <1>1 DEF IInv, Lists, ListsNoDup, FiredOffList, SignaledMeansNoWaiters
<1>10. SyncWaiterOK' /\ OneEvent'
  <2>1. /\ pc'[p] = "signal"
        /\ \A q \in Threads : q # p => pc'[q] = pc[q] /\ call'[q] = call[q]
    BY <1>1, <1>2 DEF TypeOK
  <2>2. QED
    BY <1>1, <2>1 DEF IInv, SyncWaiterOK, OneEvent, Waiting
<1>11. SignalDoneBeforeReturn'
  BY <1>1, <1>2 DEF IInv, SignalDoneBeforeReturn, TypeOK
<1>12. QED
  BY <1>4, <1>5, <1>6, <1>7, <1>8, <1>9, <1>10, <1>11 DEF IInv, Lists

(* Fire hands the signal over to a waiter that has none yet, or is refused *)
(* and drops the waiter from the list.                                     *)
LEMMA FireInv ==
    ASSUME IInv, NEW p \in Threads, NEW e \in Events, Fire(p, e)
    PROVE  IInv'
<1> DEFINE w == Head(waiters[e])
<1>1. TypeOK /\ Lists /\ SyncWaiterOK /\ OneEvent
  BY DEF IInv
<1>2. /\ pc[p] = "signal" /\ call[p].events = {e}
      /\ waiters[e] # <<>> /\ (e \in ManualReset \/ call[p].woke = {})
      /\ pc[w] # "loop"
      /\ waiters' = [waiters EXCEPT ![e] = Tail(@)]
      /\ UNCHANGED <<signaled, lock, undelivered>>
      /\ \/ sw[w].fired /\ UNCHANGED <<sw, pc, call>>
         \/ /\ ~sw[w].fired
            /\ sw' = [sw EXCEPT ![w] = [fired |-> TRUE, signaling_event |-> e]]
            /\ pc' = [pc EXCEPT ![w] = IF @ = "blocked" THEN "woken" ELSE @]
            /\ call' = [call EXCEPT ![p].woke = @ \cup {w}]
  BY DEF Fire, SignalDone, Broadcast
<1>3. /\ w \in ToSet(waiters[e]) /\ w \in Threads
      /\ waiters'[e] \in Seq(Threads)
      /\ NoDup(waiters'[e])
      /\ ToSet(waiters'[e]) = ToSet(waiters[e]) \ {w}
      /\ \A f \in Events : f # e => waiters'[f] = waiters[f]
  <2>1. waiters'[e] = Tail(waiters[e]) /\ \A f \in Events : f # e => waiters'[f] = waiters[f]
    BY <1>1, <1>2 DEF TypeOK
  <2>2. QED
    BY <1>1, <1>2, <2>1, ListTypes, TailList DEF Lists, ListsNoDup
<1>4. pc[w] \in Waiting /\ e \in call[w].events /\ w # p
  BY <1>1, <1>2, <1>3 DEF Lists, ListsHoldWaiters, Waiting
<1> HIDE DEF w
<1>5. /\ ListsNoDup'
      /\ SignaledMeansNoWaiters'
      /\ waiters' \in [Events -> Seq(Threads)]
  <2>1. ListsNoDup'
    BY <1>1, <1>3 DEF Lists, ListsNoDup
  <2>2. ~signaled[e]
    BY <1>1, <1>2 DEF Lists, SignaledMeansNoWaiters
  <2>3. SignaledMeansNoWaiters'
    BY <1>1, <1>2, <1>3, <2>2 DEF Lists, SignaledMeansNoWaiters
  <2>4. waiters' \in [Events -> Seq(Threads)]
    BY <1>1, <1>2, <1>3 DEF TypeOK
  <2>5. QED
    BY <2>1, <2>3, <2>4
<1>6. \A f \in Events : ToSet(waiters'[f]) \subseteq ToSet(waiters[f])
  BY <1>3
<1>7. CASE sw[w].fired /\ UNCHANGED <<sw, pc, call>>
  <2>1. TypeOK'
    BY <1>1, <1>2, <1>5, <1>7 DEF TypeOK
  <2>2. SignalsConserved'
    BY <1>2, <1>7 DEF IInv, SignalsConserved, Got, Signaling
  <2>3. SignalerHoldsLock' /\ LockedNotSignaled' /\ SignalDoneBeforeReturn'
    BY <1>2, <1>7 DEF IInv, SignalerHoldsLock, LockedNotSignaled, SignalDoneBeforeReturn
  <2>4. SyncWaiterOK' /\ OneEvent'
    BY <1>1, <1>7 DEF SyncWaiterOK, OneEvent
  <2>5. ListsHoldWaiters' /\ FiredOffList'
    BY <1>1, <1>6, <1>7 DEF Lists, ListsHoldWaiters, FiredOffList
  <2>6. SleepersInLists'
    BY <1>1, <1>3, <1>7 DEF Lists, SleepersInLists, TypeOK
  <2>7. QED
    BY <1>5, <2>1, <2>2, <2>3, <2>4, <2>5, <2>6 DEF IInv, Lists
<1>8. CASE /\ ~sw[w].fired
           /\ sw' = [sw EXCEPT ![w] = [fired |-> TRUE, signaling_event |-> e]]
           /\ pc' = [pc EXCEPT ![w] = IF @ = "blocked" THEN "woken" ELSE @]
           /\ call' = [call EXCEPT ![p].woke = @ \cup {w}]
  <2>1. /\ pc[w] \in {"blocked", "woken"} /\ pc'[w] = "woken"
        /\ sw[w].signaling_event = None
        /\ sw'[w].signaling_event = e /\ sw'[w].fired /\ ~call[w].result
        /\ \A q \in Threads \ {w} : pc'[q] = pc[q] /\ sw'[q] = sw[q]
    BY <1>1, <1>2, <1>3, <1>4, <1>8 DEF SyncWaiterOK, TypeOK, Waiting
  <2>2. /\ \A q \in Threads : /\ call'[q].events = call[q].events
                              /\ call'[q].op = call[q].op
                              /\ call'[q].result = call[q].result
        /\ \A q \in Threads \ {p} : call'[q] = call[q]
        /\ call'[p].woke = call[p].woke \cup {w}
    BY <1>1, <1>8 DEF TypeOK
  <2>3. TypeOK'
    <3>1. pc' \in [Threads -> Position] /\ sw' \in [Threads -> [fired : BOOLEAN,
                           signaling_event : Events \cup {None}]]
      BY <1>1, <1>3, <1>8 DEF TypeOK, Position
    <3>2. call' \in [Threads -> [op : Operation, events : SUBSET Events,
                             result : BOOLEAN, woke : SUBSET Threads]]
      BY <1>1, <1>3, <1>8, ZenonT(60) DEF TypeOK
    <3>3. QED
      BY <1>1, <1>2, <1>5, <3>1, <3>2 DEF TypeOK
  <2>4. SignalsConserved'
    <3>1. ASSUME NEW f \in Events \ ManualReset, f # e
          PROVE  Got(f)' = Got(f) /\ Signaling(f)' = Signaling(f)
      <4>1. None \notin Events
        BY NoneIsNone
      <4>2. Got(f)' = Got(f)
        BY <2>1, <3>1, <4>1 DEF Got
      <4>3. \A q \in Threads : q \in Signaling(f)' <=> q \in Signaling(f)
        <5>1. ASSUME NEW q \in Threads, q # p, q # w
              PROVE  pc'[q] = pc[q] /\ call'[q] = call[q]
          BY <2>1, <2>2, <5>1
        <5>2. call[p].events # {f}
          BY <1>2, <3>1
        <5>3. QED
          BY <1>2, <1>3, <2>1, <2>2, <5>1, <5>2 DEF Signaling
      <4>4. QED
        BY <4>2, <4>3 DEF Signaling
    <3>2. ASSUME NEW f \in Events \ ManualReset, f = e
          PROVE  /\ Got(f)' = Got(f) \cup {w} /\ w \notin Got(f)
                 /\ Signaling(f)' = Signaling(f) \ {p} /\ p \in Signaling(f)
      <4>1. Got(f)' = Got(f) \cup {w} /\ w \notin Got(f)
        BY <1>3, <2>1, <3>2, NoneIsNone DEF Got
      <4>2. p \in Signaling(f) /\ p \notin Signaling(f)'
        BY <1>2, <2>2, <3>2 DEF Signaling
      <4>3. ASSUME NEW q \in Threads, q # p
            PROVE  q \in Signaling(f)' <=> q \in Signaling(f)
        BY <1>2, <2>1, <2>2, <3>2, <4>3 DEF Signaling
      <4>4. QED
        BY <4>1, <4>2, <4>3 DEF Signaling
    <3>3. ASSUME NEW f \in Events \ ManualReset
          PROVE  undelivered'[f] = (IF signaled'[f] THEN 1 ELSE 0)
                         + Cardinality(Got(f)') + Cardinality(Signaling(f)')
      <4>1. /\ Cardinality(Got(f)) \in Nat /\ Cardinality(Signaling(f)) \in Nat
            /\ undelivered[f] = (IF signaled[f] THEN 1 ELSE 0)
                         + Cardinality(Got(f)) + Cardinality(Signaling(f))
        BY CountsNat DEF IInv, SignalsConserved
      <4>2. CASE f = e
        <5>1. /\ Cardinality(Got(f)') = Cardinality(Got(f)) + 1
              /\ Cardinality(Signaling(f)') = Cardinality(Signaling(f)) - 1
          BY <3>2, <4>2, CountsNat, FS_AddElement, FS_RemoveElement
        <5>2. undelivered'[f] = undelivered[f] /\ signaled'[f] = signaled[f]
          BY <1>2
        <5>3. QED
          BY <4>1, <5>1, <5>2
      <4>3. CASE f # e
        BY <1>2, <3>1, <4>1, <4>3
      <4>4. QED
        BY <4>2, <4>3
    <3>4. QED
      BY <3>3 DEF SignalsConserved
  <2>5. SignalerHoldsLock' /\ LockedNotSignaled'
    <3>1. \A q \in Threads : pc'[q] = "signal" => pc[q] = "signal"
      BY <2>1
    <3>2. \A q \in Threads : pc[q] \in {"signal", "lock"} => pc'[q] = pc[q]
      BY <2>1
    <3>3. QED
      BY <1>2, <2>2, <3>1, <3>2 DEF IInv, SignalerHoldsLock, LockedNotSignaled
  <2>6. ListsHoldWaiters' /\ FiredOffList'
    <3>1. ListsHoldWaiters'
      BY <1>1, <1>3, <1>6, <2>1, <2>2, ListTypes DEF Lists, ListsHoldWaiters, Waiting
    <3>2. FiredOffList'
      BY <1>1, <1>3, <1>6, <2>1, ListTypes DEF Lists, FiredOffList
    <3>3. QED
      BY <3>1, <3>2
  <2>7. SleepersInLists'
    <3>1. ASSUME NEW q \in Threads, pc'[q] \in {"loop", "blocked", "woken"}, ~sw'[q].fired,
                 NEW f \in call'[q].events
          PROVE  q \in ToSet(waiters'[f])
      <4>1. q # w /\ pc[q] = pc'[q] /\ sw[q] = sw'[q]
        BY <2>1, <3>1
      <4>2. f \in call[q].events /\ f \in Events
        BY <1>1, <2>2 DEF TypeOK
      <4>3. q \in ToSet(waiters[f])
        BY <1>1, <3>1, <4>1, <4>2 DEF Lists, SleepersInLists
      <4>4. QED
        BY <1>3, <4>1, <4>2, <4>3
    <3>2. QED
      BY <3>1 DEF SleepersInLists
  <2>8. SyncWaiterOK'
    BY <1>1, <1>3, <2>1, <2>2, NoneIsNone DEF SyncWaiterOK, Waiting
  <2>9. OneEvent'
    <3>1. ASSUME NEW q \in Threads, pc'[q] \in Waiting, call'[q].op # "WaitMany"
          PROVE  \E f \in Events : /\ sw'[q].signaling_event \in {None, f}
                                   /\ \/ call'[q].events = {f}
                                      \/ pc'[q] = "dequeue" /\ call'[q].events = {}
      <4>1. pc[q] \in Waiting
        BY <1>4, <2>1, <3>1
      <4>2. PICK f \in Events : /\ sw[q].signaling_event \in {None, f}
                                /\ \/ call[q].events = {f}
                                   \/ pc[q] = "dequeue" /\ call[q].events = {}
        BY <1>1, <2>2, <3>1, <4>1 DEF OneEvent
      <4>3. q = w => f = e
        BY <1>4, <4>2
      <4>4. QED
        BY <2>1, <2>2, <4>2, <4>3
    <3>2. QED
      BY <3>1 DEF OneEvent
  <2>10. SignalDoneBeforeReturn'
    <3>1. \A q \in Threads : pc'[q] = "dequeue" => pc[q] = "dequeue" /\ q # w /\ sw'[q] = sw[q]
      BY <2>1
    <3>2. \A q \in Threads : pc'[q] = "signal" => pc[q] = "signal"
      BY <2>1
    <3>3. \A q, r \in Threads : q # w /\ q \in call'[r].woke => q \in call[r].woke
      BY <2>2
    <3>4. QED
      BY <2>2, <3>1, <3>2, <3>3 DEF IInv, SignalDoneBeforeReturn
  <2>11. QED
    BY <1>5, <2>3, <2>4, <2>5, <2>6, <2>7, <2>8, <2>9, <2>10 DEF IInv, Lists
<1>9. QED
  BY <1>2, <1>7, <1>8

(* The end of Signal: a signal nobody took stays in signaled_. *)
LEMMA SignalEndInv ==
    ASSUME IInv, NEW p \in Threads, NEW e \in Events, SignalEnd(p, e)
    PROVE  IInv'
<1>1. TypeOK /\ Lists /\ SyncWaiterOK /\ OneEvent
  BY DEF IInv
<1>2. /\ pc[p] = "signal" /\ call[p].events = {e}
      /\ waiters[e] = <<>> \/ (e \notin ManualReset /\ call[p].woke # {})
      /\ lock' = [f \in Events |-> IF lock[f] = p THEN None ELSE lock[f]]
      /\ pc' = [pc EXCEPT ![p] = "idle"]
      /\ call' = [call EXCEPT ![p] = NoCall]
      /\ UNCHANGED <<waiters, sw, undelivered>>
  BY DEF SignalEnd, SignalDone, ReleaseAll
<1>3. lock[e] = p /\ ~signaled[e]
  BY <1>2 DEF IInv, SignalerHoldsLock
<1>4. /\ signaled' \in [Events -> BOOLEAN]
      /\ signaled'[e] <=> e \in ManualReset \/ call[p].woke = {}
      /\ \A f \in Events : f # e => signaled'[f] = signaled[f]
  <2>1. signaled' = [signaled EXCEPT ![e] = @ \/ e \in ManualReset \/ call[p].woke = {}]
    BY DEF SignalEnd
  <2>2. QED
    BY <1>1, <1>3, <2>1 DEF TypeOK
<1>5. \A q \in Threads : q # p => pc'[q] = pc[q] /\ call'[q] = call[q]
  BY <1>1, <1>2 DEF TypeOK
<1>6. pc'[p] = "idle" /\ call'[p] = NoCall
  BY <1>1, <1>2 DEF TypeOK
<1>7. TypeOK'
  BY <1>1, <1>2, <1>4 DEF TypeOK, Position, NoCall, Operation
<1>8. SignalsConserved'
  <2>1. ASSUME NEW f \in Events \ ManualReset
        PROVE  undelivered'[f] = (IF signaled'[f] THEN 1 ELSE 0)
                         + Cardinality(Got(f)') + Cardinality(Signaling(f)')
    <3>1. /\ Cardinality(Got(f)) \in Nat /\ Cardinality(Signaling(f)) \in Nat
          /\ undelivered[f] = (IF signaled[f] THEN 1 ELSE 0)
                         + Cardinality(Got(f)) + Cardinality(Signaling(f))
      BY CountsNat DEF IInv, SignalsConserved
    <3>2. Got(f)' = Got(f) /\ undelivered'[f] = undelivered[f]
      BY <1>2 DEF Got
    <3>3. CASE f = e /\ call[p].woke = {}
      <4>1. Signaling(f)' = Signaling(f) \ {p} /\ p \in Signaling(f)
        BY <1>2, <1>5, <1>6, <3>3 DEF Signaling
      <4>2. Cardinality(Signaling(f)') = Cardinality(Signaling(f)) - 1
        BY <4>1, CountsNat, FS_RemoveElement
      <4>3. signaled'[f] /\ ~signaled[f]
        BY <1>3, <1>4, <3>3
      <4>4. QED
        BY <3>1, <3>2, <4>2, <4>3
    <3>4. CASE f # e \/ call[p].woke # {}
      <4>1. Signaling(f)' = Signaling(f)
        BY <1>2, <1>5, <1>6, <3>4 DEF Signaling
      <4>2. signaled'[f] <=> signaled[f]
        BY <1>3, <1>4, <3>4
      <4>3. QED
        BY <3>1, <3>2, <4>1, <4>2
    <3>5. QED
      BY <3>3, <3>4
  <2>2. QED
    BY <2>1 DEF SignalsConserved
<1>9. \A f \in Events, q \in Threads : q # p /\ lock'[f] = q => f # e /\ lock[f] = q
  BY <1>1, <1>2, <1>3, NoneIsNone DEF TypeOK
<1>10. SignalerHoldsLock'
  <2>1. ASSUME NEW q \in Threads, pc'[q] = "signal"
        PROVE  \E f \in Events : call'[q].events = {f} /\ lock'[f] = q /\ ~signaled'[f]
    <3>1. q # p /\ pc[q] = "signal" /\ call'[q] = call[q]
      BY <1>5, <1>6, <2>1
    <3>2. PICK f \in Events : call[q].events = {f} /\ lock[f] = q /\ ~signaled[f]
      BY <3>1 DEF IInv, SignalerHoldsLock
    <3>3. f # e /\ lock'[f] = q
      BY <1>1, <1>2, <1>3, <3>1, <3>2 DEF TypeOK
    <3>4. QED
      BY <1>4, <3>1, <3>2, <3>3
  <2>2. QED
    BY <2>1 DEF SignalerHoldsLock
<1>11. LockedNotSignaled'
  <2>1. \A f \in Events : lock'[f] # p
    BY <1>1, <1>2, NoneIsNone DEF TypeOK
  <2>2. QED
    BY <1>4, <1>5, <1>9, <2>1 DEF IInv, LockedNotSignaled
<1>12. Lists'
  <2>1. ListsHoldWaiters'
    BY <1>1, <1>2, <1>5, ListTypes DEF Lists, ListsHoldWaiters, Waiting
  <2>2. ListsNoDup' /\ FiredOffList'
    BY <1>1, <1>2 DEF Lists, ListsNoDup, FiredOffList
  <2>3. SignaledMeansNoWaiters'
    BY <1>1, <1>2, <1>4 DEF Lists, SignaledMeansNoWaiters
  <2>4. SleepersInLists'
    BY <1>1, <1>2, <1>5, <1>6 DEF Lists, SleepersInLists
  <2>5. QED
    BY <2>1, <2>2, <2>3, <2>4 DEF Lists
<1>13. SyncWaiterOK' /\ OneEvent'
  BY <1>1, <1>2, <1>5, <1>6 DEF SyncWaiterOK, OneEvent, Waiting
<1>14. SignalDoneBeforeReturn'
  BY <1>2, <1>5, <1>6 DEF IInv, SignalDoneBeforeReturn
<1>15. QED
  BY <1>7, <1>8, <1>10, <1>11, <1>12, <1>13, <1>14 DEF IInv

(* A call that does not touch the wait lists or the signals: WaitMany's    *)
(* start, the steps of the wait loop up to the way out.                    *)
LEMMA WaitLoopInv ==
    ASSUME IInv, NEW p \in Threads,
           \/ Block(p) \/ WakeUp(p) \/ Reacquire(p)
           \/ LeaveFired(p) \/ LeaveTimedOut(p)
    PROVE  IInv'
<1>1. TypeOK /\ Lists /\ SyncWaiterOK /\ OneEvent
  BY DEF IInv
<1>2. UNCHANGED <<signaled, waiters, lock, undelivered>>
  BY DEF Block, WakeUp, Reacquire, LeaveFired, LeaveTimedOut
<1>3. /\ TypeOK'
      /\ pc[p] \in {"loop", "blocked", "woken"} /\ pc'[p] \in Waiting
      /\ pc'[p] # "dequeue" => sw'[p] = sw[p] /\ call'[p] = call[p]
      /\ pc'[p] = "dequeue" => sw'[p].fired
      /\ sw'[p].signaling_event = sw[p].signaling_event
      /\ call'[p].op = call[p].op /\ call'[p].woke = call[p].woke
      /\ \A q \in Threads : q # p => pc'[q] = pc[q] /\ call'[q] = call[q] /\ sw'[q] = sw[q]
  <2>1. CASE Block(p) \/ WakeUp(p) \/ Reacquire(p)
    BY <1>1, <2>1 DEF TypeOK, Position, Waiting, Block, WakeUp, Reacquire
  <2>2. CASE LeaveFired(p)
    <3>1. /\ pc[p] = "loop" /\ sw[p].fired /\ pc' = [pc EXCEPT ![p] = "dequeue"]
          /\ UNCHANGED sw
      BY <2>2 DEF LeaveFired
    <3>2. PICK E \in SUBSET Events :
             call' = [call EXCEPT ![p] = [op |-> @.op, result |-> TRUE, woke |-> @.woke,
                                          events |-> E]]
      BY <1>1, <2>2 DEF LeaveFired, TypeOK
    <3>3. /\ call' \in [Threads -> [op : Operation, events : SUBSET Events,
                                    result : BOOLEAN, woke : SUBSET Threads]]
          /\ call'[p].op = call[p].op /\ call'[p].woke = call[p].woke
          /\ \A q \in Threads : q # p => call'[q] = call[q]
      BY <1>1, <3>2 DEF TypeOK
    <3>4. TypeOK'
      BY <1>1, <1>2, <3>1, <3>3 DEF TypeOK, Position
    <3>5. QED
      BY <1>1, <3>1, <3>3, <3>4 DEF TypeOK, Waiting
  <2>3. CASE LeaveTimedOut(p)
    BY <1>1, <2>3, ZenonT(60) DEF TypeOK, Position, Waiting, LeaveTimedOut
  <2>4. QED
    BY <2>1, <2>2, <2>3
<1>4. /\ call'[p].events \subseteq call[p].events
      /\ \A e \in Events : e \in call[p].events /\ e \notin call'[p].events =>
                              /\ call[p].op = "WaitMany"
                              /\ sw[p].signaling_event = e /\ sw[p].fired
      /\ pc'[p] = "dequeue" => (call'[p].result <=> sw[p].signaling_event # None)
  <2>1. CASE Block(p) \/ WakeUp(p) \/ Reacquire(p)
    BY <1>1, <2>1 DEF TypeOK, Block, WakeUp, Reacquire
  <2>2. CASE LeaveFired(p)
    BY <1>1, <2>2 DEF TypeOK, SyncWaiterOK, LeaveFired
  <2>3. CASE LeaveTimedOut(p)
    BY <1>1, <2>3 DEF TypeOK, SyncWaiterOK, LeaveTimedOut
  <2>4. QED
    BY <2>1, <2>2, <2>3
<1>5. SignalsConserved'
  <2>1. \A e \in Events : Got(e)' = Got(e)
    BY <1>3 DEF Got
  <2>2. \A e \in Events : Signaling(e)' = Signaling(e)
    BY <1>3 DEF Signaling, Waiting
  <2>3. QED
    BY <1>2, <2>1, <2>2 DEF IInv, SignalsConserved
<1>6. SignalerHoldsLock' /\ LockedNotSignaled'
  <2>1. pc'[p] \notin {"signal", "lock"} /\ pc[p] \notin {"signal", "lock"}
    BY <1>3 DEF Waiting
  <2>2. QED
    BY <1>2, <1>3, <2>1 DEF IInv, SignalerHoldsLock, LockedNotSignaled
<1>7. Lists'
  <2>1. ListsHoldWaiters'
    BY <1>1, <1>2, <1>3, <1>4, ListTypes DEF Lists, ListsHoldWaiters, FiredOffList, Waiting
  <2>2. ListsNoDup' /\ FiredOffList' /\ SignaledMeansNoWaiters'
    BY <1>1, <1>2, <1>3, ListTypes DEF Lists, ListsNoDup, FiredOffList, SignaledMeansNoWaiters
  <2>3. SleepersInLists'
    BY <1>1, <1>2, <1>3 DEF Lists, SleepersInLists, Waiting
  <2>4. QED
    BY <2>1, <2>2, <2>3 DEF Lists
<1>8. SyncWaiterOK'
  BY <1>1, <1>3, <1>4 DEF SyncWaiterOK, Waiting
<1>9. OneEvent'
  BY <1>1, <1>3, <1>4 DEF OneEvent, Waiting
<1>10. SignalDoneBeforeReturn'
  <2>1. ~(pc'[p] = "dequeue" /\ call'[p].op # "WaitMany" /\ call'[p].events = {})
    BY <1>1, <1>3, <1>4 DEF OneEvent, Waiting
  <2>2. pc'[p] # "signal"
    BY <1>3 DEF Waiting
  <2>3. QED
    BY <1>3, <2>1, <2>2 DEF IInv, SignalDoneBeforeReturn
<1>11. QED
  BY <1>3, <1>5, <1>6, <1>7, <1>8, <1>9, <1>10 DEF IInv

(* The waiter enters the lists of events that are not signaled. *)
LEMMA EnqueueInv ==
    ASSUME IInv, NEW p \in Threads, NEW E \in SUBSET Events,
           pc[p] \in {"idle", "lock"}, \A e \in E : ~signaled[e],
           Enqueue(p, E),
           UNCHANGED <<signaled, sw>>,
           pc' = [pc EXCEPT ![p] = "loop"], call'[p].events = E,
           \A q \in Threads : q # p => call'[q] = call[q]
    PROVE  waiters' \in [Events -> Seq(Threads)] /\ Lists'
<1>1. TypeOK /\ Lists /\ SyncWaiterOK
  BY DEF IInv
<1>2. sw[p].signaling_event = None
  BY <1>1 DEF SyncWaiterOK, SyncWaiter, Waiting
<1>3. \A q \in Threads : q # p => pc'[q] = pc[q]
  BY <1>1 DEF TypeOK
<1>4. pc'[p] = "loop"
  BY <1>1 DEF TypeOK
<1>5. ASSUME NEW e \in Events
      PROVE  /\ waiters'[e] \in Seq(Threads)
             /\ NoDup(waiters'[e])
             /\ e \in E => ToSet(waiters'[e]) = ToSet(waiters[e]) \cup {p}
             /\ e \notin E => waiters'[e] = waiters[e]
  <2>1. waiters'[e] = IF e \in E THEN Append(waiters[e], p) ELSE waiters[e]
    BY DEF Enqueue
  <2>2. NoDup(waiters[e]) /\ p \notin ToSet(waiters[e])
    BY <1>1 DEF Lists, ListsNoDup, ListsHoldWaiters, Waiting
  <2>3. QED
    BY <1>1, <2>1, <2>2, AppendList, ListTypes
<1>6. waiters' \in [Events -> Seq(Threads)]
  <2>1. waiters' = [e \in Events |-> waiters'[e]]
    BY DEF Enqueue
  <2>2. QED
    BY <1>5, <2>1
<1>7. ListsHoldWaiters'
  <2>1. ASSUME NEW e \in Events, NEW q \in ToSet(waiters'[e])
        PROVE  pc'[q] \in Waiting /\ e \in call'[q].events
    <3>1. CASE q = p
      <4>1. e \in E
        BY <1>1, <1>5, <2>1, <3>1 DEF Lists, ListsHoldWaiters, Waiting
      <4>2. QED
        BY <1>4, <3>1, <4>1 DEF Waiting
    <3>2. CASE q # p
      <4>1. q \in ToSet(waiters[e]) /\ q \in Threads
        BY <1>1, <1>5, <2>1, <3>2, ListTypes
      <4>2. QED
        BY <1>1, <1>3, <3>2, <4>1 DEF Lists, ListsHoldWaiters
    <3>3. QED
      BY <3>1, <3>2
  <2>2. QED
    BY <2>1 DEF ListsHoldWaiters
<1>8. ListsNoDup'
  BY <1>5 DEF ListsNoDup
<1>9. FiredOffList'
  BY <1>1, <1>2, <1>5, NoneIsNone DEF Lists, FiredOffList
<1>10. SignaledMeansNoWaiters'
  BY <1>1, <1>5 DEF Lists, SignaledMeansNoWaiters
<1>11. SleepersInLists'
  <2>1. ASSUME NEW q \in Threads, pc'[q] \in {"loop", "blocked", "woken"}, ~sw'[q].fired,
               NEW e \in call'[q].events
        PROVE  q \in ToSet(waiters'[e])
    <3>1. CASE q = p
      BY <1>5, <3>1
    <3>2. CASE q # p
      <4>1. e \in call[q].events /\ e \in Events /\ pc[q] = pc'[q]
        BY <1>1, <1>3, <3>2 DEF TypeOK
      <4>2. q \in ToSet(waiters[e])
        BY <1>1, <2>1, <4>1 DEF Lists, SleepersInLists
      <4>3. QED
        BY <1>5, <4>1, <4>2
    <3>3. QED
      BY <3>1, <3>2
  <2>2. QED
    BY <2>1 DEF SleepersInLists
<1>12. QED
  BY <1>6, <1>7, <1>8, <1>9, <1>10, <1>11 DEF Lists

(* Wait and TimedWait: the event is signaled and the call is over, or the  *)
(* waiter goes to sleep.                                                   *)
LEMMA TimedWaitInv ==
    ASSUME IInv, NEW p \in Threads, NEW e \in Events, NEW op \in {"Wait", "TimedWait"},
           TimedWait(p, e, op)
    PROVE  IInv'
<1>1. TypeOK /\ Lists /\ SyncWaiterOK /\ OneEvent
  BY DEF IInv
<1>2. pc[p] = "idle" /\ lock[e] = None /\ UNCHANGED <<lock, sw>>
  BY DEF TimedWait
<1>3. CASE ConsumeSignaled(e) /\ UNCHANGED <<waiters, pc, call>>
  <2>1. IsSignaled(e)
    BY <1>2, <1>3 DEF IsSignaled
  <2>2. QED
    BY <2>1, ResetInv
<1>4. CASE /\ ~signaled[e]
           /\ Enqueue(p, {e})
           /\ Enter(p, op, {e}, "loop")
           /\ UNCHANGED <<signaled, undelivered>>
  <2>1. /\ pc' = [pc EXCEPT ![p] = "loop"]
        /\ call' = [call EXCEPT ![p] = [op |-> op, events |-> {e},
                                        result |-> FALSE, woke |-> {}]]
    BY <1>4 DEF Enter
  <2>2. /\ call'[p] = [op |-> op, events |-> {e}, result |-> FALSE, woke |-> {}]
        /\ pc'[p] = "loop"
        /\ \A q \in Threads : q # p => pc'[q] = pc[q] /\ call'[q] = call[q]
    BY <1>1, <2>1 DEF TypeOK
  <2>3. waiters' \in [Events -> Seq(Threads)] /\ Lists'
    <3>1. /\ {e} \in SUBSET Events /\ call'[p].events = {e}
          /\ pc[p] \in {"idle", "lock"} /\ \A f \in {e} : ~signaled[f]
          /\ \A q \in Threads : q # p => call'[q] = call[q]
          /\ UNCHANGED <<signaled, sw>>
      BY <1>2, <1>4, <2>2
    <3>2. QED
      BY <1>4, <2>1, <3>1, EnqueueInv
  <2>4. TypeOK'
    BY <1>1, <1>2, <1>4, <2>1, <2>3 DEF TypeOK, Position, Operation
  <2>5. SignalsConserved'
    <3>1. \A f \in Events : Got(f)' = Got(f)
      BY <1>2 DEF Got
    <3>2. \A f \in Events : Signaling(f)' = Signaling(f)
      BY <1>2, <2>2 DEF Signaling
    <3>3. QED
      BY <1>4, <3>1, <3>2 DEF IInv, SignalsConserved
  <2>6. SignalerHoldsLock' /\ LockedNotSignaled'
    BY <1>2, <1>4, <2>2 DEF IInv, SignalerHoldsLock, LockedNotSignaled
  <2>7. SyncWaiterOK'
    <3>1. ~sw'[p].fired /\ sw'[p].signaling_event = None
      BY <1>1, <1>2 DEF SyncWaiterOK, SyncWaiter, Waiting
    <3>2. QED
      BY <1>1, <1>2, <2>2, <3>1 DEF SyncWaiterOK, Waiting
  <2>8. OneEvent'
    BY <1>1, <1>2, <2>2, <2>7 DEF OneEvent, SyncWaiterOK, SyncWaiter, Waiting
  <2>9. SignalDoneBeforeReturn'
    BY <1>2, <2>2 DEF IInv, SignalDoneBeforeReturn
  <2>10. QED
    BY <2>3, <2>4, <2>5, <2>6, <2>7, <2>8, <2>9 DEF IInv
<1>5. QED
  BY <1>3, <1>4 DEF TimedWait

(* WaitMany starts: it holds no lock yet. *)
LEMMA WaitManyInv ==
    ASSUME IInv, NEW p \in Threads, NEW events \in SUBSET Events, WaitMany(p, events)
    PROVE  IInv'
<1>1. TypeOK /\ Lists /\ SyncWaiterOK /\ OneEvent
  BY DEF IInv
<1>2. /\ pc[p] = "idle"
      /\ pc' = [pc EXCEPT ![p] = "lock"]
      /\ call' = [call EXCEPT ![p] = [op |-> "WaitMany", events |-> events,
                                      result |-> FALSE, woke |-> {}]]
      /\ UNCHANGED <<signaled, waiters, lock, sw, undelivered>>
  BY DEF WaitMany, Enter
<1>3. /\ pc'[p] = "lock" /\ call'[p].op = "WaitMany" /\ ~call'[p].result
      /\ \A q \in Threads : q # p => pc'[q] = pc[q] /\ call'[q] = call[q]
  BY <1>1, <1>2 DEF TypeOK
<1>4. TypeOK'
  BY <1>1, <1>2 DEF TypeOK, Position, Operation
<1>5. SignalsConserved'
  <2>1. \A f \in Events : Got(f)' = Got(f)
    BY <1>2 DEF Got
  <2>2. \A f \in Events : Signaling(f)' = Signaling(f)
    BY <1>2, <1>3 DEF Signaling
  <2>3. QED
    BY <1>2, <2>1, <2>2 DEF IInv, SignalsConserved
<1>6. SignalerHoldsLock' /\ LockedNotSignaled'
  BY <1>2, <1>3 DEF IInv, SignalerHoldsLock, LockedNotSignaled
<1>7. ListsHoldWaiters' /\ SleepersInLists'
  BY <1>1, <1>2, <1>3, ListTypes DEF Lists, ListsHoldWaiters, SleepersInLists, Waiting
<1>8. ListsNoDup' /\ FiredOffList' /\ SignaledMeansNoWaiters'
  BY <1>1, <1>2 DEF Lists, ListsNoDup, FiredOffList, SignaledMeansNoWaiters
<1>9. SyncWaiterOK' /\ OneEvent'
  BY <1>1, <1>2, <1>3 DEF SyncWaiterOK, OneEvent, Waiting
<1>10. SignalDoneBeforeReturn'
  BY <1>2, <1>3 DEF IInv, SignalDoneBeforeReturn
<1>11. QED
  BY <1>4, <1>5, <1>6, <1>7, <1>8, <1>9, <1>10 DEF IInv, Lists

(* One lock of EnqueueMany: a signaled event ends the call, the last lock  *)
(* lets the waiter into all lists.                                         *)
LEMMA EnqueueManyInv ==
    ASSUME IInv, NEW p \in Threads, EnqueueMany(p)
    PROVE  IInv'
<1>1. TypeOK /\ Lists /\ SyncWaiterOK /\ OneEvent
  BY DEF IInv
<1>2. pc[p] = "lock" /\ UNCHANGED sw
  BY DEF EnqueueMany
<1>3. PICK e \in call[p].events :
        /\ lock[e] = None
        /\ \/ /\ ConsumeSignaled(e)
              /\ lock' = ReleaseAll(p)
              /\ pc' = [pc EXCEPT ![p] = "idle"]
              /\ call' = [call EXCEPT ![p] = NoCall]
              /\ UNCHANGED waiters
           \/ /\ ~signaled[e]
              /\ lock' = [lock EXCEPT ![e] = p]
              /\ UNCHANGED <<signaled, waiters, pc, call, undelivered>>
           \/ /\ ~signaled[e]
              /\ \A f \in call[p].events : lock[f] = p \/ f = e
              /\ Enqueue(p, call[p].events)
              /\ lock' = ReleaseAll(p)
              /\ pc' = [pc EXCEPT ![p] = "loop"]
              /\ UNCHANGED <<signaled, call, undelivered>>
  BY DEF EnqueueMany, NextToLock
<1>4. e \in Events /\ call[p].events \in SUBSET Events
  BY <1>1, <1>3 DEF TypeOK
<1>5. ASSUME lock' = ReleaseAll(p)
      PROVE  /\ lock' \in [Events -> Threads \cup {None}]
             /\ \A f \in Events, q \in Threads : lock'[f] = q <=> lock[f] = q /\ q # p
  BY <1>1, <1>5, NoneIsNone DEF ReleaseAll, TypeOK
<1>6. CASE /\ ConsumeSignaled(e)
           /\ lock' = ReleaseAll(p)
           /\ pc' = [pc EXCEPT ![p] = "idle"]
           /\ call' = [call EXCEPT ![p] = NoCall]
           /\ UNCHANGED waiters
  <2>1. /\ pc'[p] = "idle"
        /\ \A q \in Threads : q # p => pc'[q] = pc[q] /\ call'[q] = call[q]
    BY <1>1, <1>6 DEF TypeOK
  <2>2. \A f \in Events : Signaling(f)' = Signaling(f)
    BY <1>2, <2>1 DEF Signaling
  <2>3. /\ SignalsConserved'
        /\ signaled' \in [Events -> BOOLEAN]
        /\ undelivered' \in [Events -> Nat]
        /\ \A f \in Events : signaled'[f] => signaled[f]
    <3> DEFINE v == e \in ManualReset
    <3>1. /\ signaled[e] /\ Consumed(e) /\ v \in BOOLEAN /\ (v => e \in ManualReset)
          /\ signaled' = [signaled EXCEPT ![e] = v]
      BY <1>6 DEF ConsumeSignaled
    <3> HIDE DEF v
    <3>2. QED
      BY <1>2, <1>4, <2>2, <3>1, ConsumedInv
  <2>4. TypeOK'
    BY <1>1, <1>2, <1>5, <1>6, <2>3 DEF TypeOK, Position, NoCall, Operation
  <2>5. LockedNotSignaled'
    BY <1>5, <1>6, <2>1, <2>3 DEF IInv, LockedNotSignaled
  <2>6. SignalerHoldsLock'
    BY <1>5, <1>6, <2>1, <2>3 DEF IInv, SignalerHoldsLock
  <2>7. ListsHoldWaiters' /\ SleepersInLists'
    BY <1>1, <1>2, <1>6, <2>1, ListTypes DEF Lists, ListsHoldWaiters, SleepersInLists, Waiting
  <2>8. ListsNoDup' /\ FiredOffList' /\ SignaledMeansNoWaiters'
    BY <1>1, <1>2, <1>6, <2>3 DEF Lists, ListsNoDup, FiredOffList, SignaledMeansNoWaiters
  <2>9. SyncWaiterOK' /\ OneEvent'
    BY <1>1, <1>2, <2>1 DEF SyncWaiterOK, OneEvent, Waiting
  <2>10. SignalDoneBeforeReturn'
    BY <1>2, <2>1 DEF IInv, SignalDoneBeforeReturn
  <2>11. QED
    BY <2>3, <2>4, <2>5, <2>6, <2>7, <2>8, <2>9, <2>10 DEF IInv, Lists
<1>7. CASE /\ ~signaled[e]
           /\ lock' = [lock EXCEPT ![e] = p]
           /\ UNCHANGED <<signaled, waiters, pc, call, undelivered>>
  <2>1. \A f \in Events : lock'[f] = IF f = e THEN p ELSE lock[f]
    BY <1>1, <1>7 DEF TypeOK
  <2>2. TypeOK'
    BY <1>1, <1>2, <1>4, <1>7 DEF TypeOK
  <2>3. SignalsConserved'
    BY <1>2, <1>7 DEF IInv, SignalsConserved, Got, Signaling
  <2>4. SignalerHoldsLock'
    BY <1>3, <1>7, <2>1, NoneIsNone DEF IInv, SignalerHoldsLock
  <2>5. LockedNotSignaled'
    BY <1>2, <1>7, <2>1 DEF IInv, LockedNotSignaled
  <2>6. Lists'
    BY <1>1, <1>2, <1>7 DEF Lists, ListsHoldWaiters, ListsNoDup, FiredOffList,
                            SignaledMeansNoWaiters, SleepersInLists
  <2>7. SyncWaiterOK' /\ OneEvent' /\ SignalDoneBeforeReturn'
    BY <1>2, <1>7 DEF IInv, SyncWaiterOK, OneEvent, SignalDoneBeforeReturn
  <2>8. QED
    BY <2>2, <2>3, <2>4, <2>5, <2>6, <2>7 DEF IInv
<1>8. CASE /\ ~signaled[e]
           /\ \A f \in call[p].events : lock[f] = p \/ f = e
           /\ Enqueue(p, call[p].events)
           /\ lock' = ReleaseAll(p)
           /\ pc' = [pc EXCEPT ![p] = "loop"]
           /\ UNCHANGED <<signaled, call, undelivered>>
  <2>1. /\ pc'[p] = "loop"
        /\ \A q \in Threads : q # p => pc'[q] = pc[q]
    BY <1>1, <1>8 DEF TypeOK
  <2>2. waiters' \in [Events -> Seq(Threads)] /\ Lists'
    <3>1. \A f \in call[p].events : ~signaled[f]
      BY <1>4, <1>8 DEF IInv, LockedNotSignaled
    <3>2. QED
      BY <1>2, <1>4, <1>8, <3>1, EnqueueInv
  <2>3. TypeOK'
    BY <1>1, <1>2, <1>5, <1>8, <2>2 DEF TypeOK, Position
  <2>4. SignalsConserved'
    <3>1. \A f \in Events : Got(f)' = Got(f)
      BY <1>2 DEF Got
    <3>2. \A f \in Events : Signaling(f)' = Signaling(f)
      BY <1>2, <1>8, <2>1 DEF Signaling
    <3>3. QED
      BY <1>8, <3>1, <3>2 DEF IInv, SignalsConserved
  <2>5. SignalerHoldsLock'
    BY <1>5, <1>8, <2>1 DEF IInv, SignalerHoldsLock
  <2>6. LockedNotSignaled'
    BY <1>5, <1>8, <2>1 DEF IInv, LockedNotSignaled
  <2>7. SyncWaiterOK'
    <3>1. ~sw'[p].fired /\ sw'[p].signaling_event = None /\ ~call'[p].result
      BY <1>1, <1>2, <1>8 DEF SyncWaiterOK, SyncWaiter, Waiting
    <3>2. QED
      BY <1>1, <1>2, <1>8, <2>1, <3>1 DEF SyncWaiterOK, Waiting
  <2>8. OneEvent'
    <3>1. call[p].op = "WaitMany"
      BY <1>1, <1>2 DEF SyncWaiterOK
    <3>2. QED
      BY <1>1, <1>2, <1>8, <2>1, <3>1 DEF OneEvent, Waiting
  <2>9. SignalDoneBeforeReturn'
    BY <1>2, <1>8, <2>1 DEF IInv, SignalDoneBeforeReturn
  <2>10. QED
    BY <2>2, <2>3, <2>4, <2>5, <2>6, <2>7, <2>8, <2>9 DEF IInv
<1>9. QED
  BY <1>3, <1>6, <1>7, <1>8

(* Leaving one wait list.  Wait and TimedWait hold the event's lock here,  *)
(* so the Signal that woke them is over.                                   *)
LEMMA DequeueInv ==
    ASSUME IInv, NEW p \in Threads, Dequeue(p)
    PROVE  IInv'
<1>1. TypeOK /\ Lists /\ SyncWaiterOK /\ OneEvent
  BY DEF IInv
<1>2. pc[p] = "dequeue" /\ UNCHANGED <<signaled, lock, sw, pc, undelivered>>
  BY DEF Dequeue
<1>3. PICK e \in call[p].events :
        /\ lock[e] = None
        /\ waiters' = [waiters EXCEPT ![e] = RemoveFirst(@, p)]
        /\ call' = [call EXCEPT ![p].events = @ \ {e}]
  BY DEF Dequeue
<1>4. e \in Events
  BY <1>1 DEF TypeOK
<1>5. /\ call' \in [Threads -> [op : Operation, events : SUBSET Events,
                                result : BOOLEAN, woke : SUBSET Threads]]
      /\ call'[p].events = call[p].events \ {e}
      /\ \A q \in Threads : /\ call'[q].op = call[q].op
                            /\ call'[q].result = call[q].result
                            /\ call'[q].woke = call[q].woke
                            /\ q # p => call'[q].events = call[q].events
  <2>1. call \in [Threads -> [op : Operation, events : SUBSET Events,
                              result : BOOLEAN, woke : SUBSET Threads]]
    BY <1>1 DEF TypeOK
  <2>2. call' = [call EXCEPT ![p].events = @ \ {e}]
    BY <1>3
  <2>3. call' \in [Threads -> [op : Operation, events : SUBSET Events,
                               result : BOOLEAN, woke : SUBSET Threads]]
    BY <2>1, <2>2
  <2>4. \A q \in Threads : q # p => call'[q] = call[q]
    BY <2>1, <2>2
  <2>5. /\ call'[p].events = call[p].events \ {e} /\ call'[p].op = call[p].op
        /\ call'[p].result = call[p].result /\ call'[p].woke = call[p].woke
    BY <2>1, <2>2
  <2>6. QED
    BY <2>3, <2>4, <2>5
<1>6. /\ waiters'[e] \in Seq(Threads) /\ NoDup(waiters'[e])
      /\ ToSet(waiters'[e]) = ToSet(waiters[e]) \ {p}
      /\ \A f \in Events : f # e => waiters'[f] = waiters[f]
  <2>1. /\ waiters'[e] = RemoveFirst(waiters[e], p)
        /\ \A f \in Events : f # e => waiters'[f] = waiters[f]
    BY <1>1, <1>3, <1>4 DEF TypeOK
  <2>2. NoDup(waiters[e]) /\ waiters[e] \in Seq(Threads)
    BY <1>1, <1>4, ListTypes DEF Lists, ListsNoDup
  <2>3. QED
    BY <2>1, <2>2, RemoveFirstList
<1>7. TypeOK'
  <2>1. waiters' \in [Events -> Seq(Threads)]
    BY <1>1, <1>3, <1>6 DEF TypeOK
  <2>2. QED
    BY <1>1, <1>2, <1>5, <2>1 DEF TypeOK
<1>8. SignalsConserved'
  <2>1. \A f \in Events : Got(f)' = Got(f)
    BY <1>2 DEF Got
  <2>2. \A f \in Events : Signaling(f)' = Signaling(f)
    BY <1>2, <1>5 DEF Signaling
  <2>3. QED
    BY <1>2, <2>1, <2>2 DEF IInv, SignalsConserved
<1>9. SignalerHoldsLock' /\ LockedNotSignaled'
  BY <1>2, <1>5 DEF IInv, SignalerHoldsLock, LockedNotSignaled
<1>10. ListsHoldWaiters'
  BY <1>1, <1>2, <1>5, <1>6, ListTypes DEF Lists, ListsHoldWaiters
<1>11. ListsNoDup' /\ FiredOffList'
  BY <1>1, <1>2, <1>6 DEF Lists, ListsNoDup, FiredOffList
<1>12. SignaledMeansNoWaiters'
  <2>1. signaled[e] => waiters'[e] = <<>>
    <3>1. ASSUME signaled[e] PROVE waiters'[e] = <<>>
      <4>1. ToSet(waiters[e]) = {}
        BY <1>1, <1>4, <3>1, EmptyList DEF Lists, SignaledMeansNoWaiters
      <4>2. QED
        BY <1>6, <4>1, NothingInList
    <3>2. QED
      BY <3>1
  <2>2. QED
    BY <1>1, <1>2, <1>6, <2>1 DEF Lists, SignaledMeansNoWaiters
<1>13. SleepersInLists'
  <2>1. ASSUME NEW q \in Threads, pc'[q] \in {"loop", "blocked", "woken"}, ~sw'[q].fired,
               NEW f \in call'[q].events
        PROVE  q \in ToSet(waiters'[f])
    <3>1. q # p /\ f \in call[q].events /\ f \in Events
      BY <1>1, <1>2, <1>5, <2>1 DEF TypeOK
    <3>2. q \in ToSet(waiters[f])
      BY <1>1, <1>2, <2>1, <3>1 DEF Lists, SleepersInLists
    <3>3. QED
      BY <1>6, <3>1, <3>2
  <2>2. QED
    BY <2>1 DEF SleepersInLists
<1>14. SyncWaiterOK'
  BY <1>1, <1>2, <1>5 DEF SyncWaiterOK
<1>15. OneEvent'
  <2>1. ASSUME NEW q \in Threads, pc'[q] \in Waiting, call'[q].op # "WaitMany"
        PROVE  \E f \in Events : /\ sw'[q].signaling_event \in {None, f}
                                 /\ \/ call'[q].events = {f}
                                    \/ pc'[q] = "dequeue" /\ call'[q].events = {}
    <3>1. PICK f \in Events : /\ sw[q].signaling_event \in {None, f}
                              /\ \/ call[q].events = {f}
                                 \/ pc[q] = "dequeue" /\ call[q].events = {}
      BY <1>1, <1>2, <1>5, <2>1 DEF OneEvent
    <3>2. CASE q = p
      <4>1. call[q].events = {e} /\ f = e
        BY <1>3, <3>1, <3>2
      <4>2. QED
        BY <1>2, <1>5, <3>1, <3>2, <4>1
    <3>3. CASE q # p
      BY <1>2, <1>5, <3>1, <3>3
    <3>4. QED
      BY <3>2, <3>3
  <2>2. QED
    BY <2>1 DEF OneEvent
<1>16. SignalDoneBeforeReturn'
  <2>1. ASSUME call'[p].op # "WaitMany", NEW q \in Threads, pc'[q] = "signal"
        PROVE  sw'[p].signaling_event \notin call'[q].events
    <3>1. sw[p].signaling_event \in {None, e}
      BY <1>1, <1>2, <1>3, <1>5, <2>1 DEF OneEvent, Waiting
    <3>2. PICK f \in Events : call[q].events = {f} /\ lock[f] = q
      BY <1>2, <2>1 DEF IInv, SignalerHoldsLock
    <3>3. f # e /\ f # None
      BY <1>3, <3>2, NoneIsNone
    <3>4. q # p
      BY <1>2, <2>1
    <3>5. QED
      BY <1>2, <1>5, <3>1, <3>2, <3>3, <3>4
  <2>2. QED
    BY <1>2, <1>5, <2>1 DEF IInv, SignalDoneBeforeReturn
<1>17. QED
  BY <1>7, <1>8, <1>9, <1>10, <1>11, <1>12, <1>13, <1>14, <1>15, <1>16 DEF IInv, Lists

(* The return of a wait uses up the signal its SyncWaiter had accepted. *)
LEMMA ReturnInv ==
    ASSUME IInv, NEW p \in Threads, Return(p)
    PROVE  IInv'
<1>1. TypeOK /\ Lists /\ SyncWaiterOK /\ OneEvent
  BY DEF IInv
<1>2. /\ pc[p] = "dequeue" /\ call[p].events = {}
      /\ pc' = [pc EXCEPT ![p] = "idle"]
      /\ call' = [call EXCEPT ![p] = NoCall]
      /\ sw' = [sw EXCEPT ![p] = SyncWaiter]
      /\ IF call[p].result THEN Consumed(sw[p].signaling_event) ELSE UNCHANGED undelivered
      /\ UNCHANGED <<signaled, waiters, lock>>
  BY DEF Return
<1>3. /\ pc'[p] = "idle" /\ sw'[p] = SyncWaiter
      /\ \A q \in Threads : q # p => pc'[q] = pc[q] /\ call'[q] = call[q] /\ sw'[q] = sw[q]
  BY <1>1, <1>2 DEF TypeOK
<1>4. \A e \in Events : Signaling(e)' = Signaling(e)
  BY <1>2, <1>3 DEF Signaling
<1>5. /\ call[p].result <=> sw[p].signaling_event # None
      /\ sw[p].signaling_event \in Events \cup {None}
  BY <1>1, <1>2 DEF SyncWaiterOK, TypeOK
<1>6. undelivered' \in [Events -> Nat] /\ SignalsConserved'
  <2>1. ASSUME NEW e \in Events
        PROVE  /\ Cardinality(Got(e)) \in Nat /\ Cardinality(Signaling(e)) \in Nat
               /\ undelivered[e] \in Nat
               /\ e \notin ManualReset =>
                     undelivered[e] = (IF signaled[e] THEN 1 ELSE 0)
                         + Cardinality(Got(e)) + Cardinality(Signaling(e))
    BY <1>1, CountsNat DEF IInv, SignalsConserved, TypeOK
  <2>2. ASSUME NEW e \in Events, sw[p].signaling_event # e
        PROVE  Got(e)' = Got(e)
    BY <1>3, <2>2, NoneIsNone DEF Got, SyncWaiter
  <2>3. ASSUME NEW e \in Events, sw[p].signaling_event = e
        PROVE  Cardinality(Got(e)') = Cardinality(Got(e)) - 1 /\ Cardinality(Got(e)) > 0
    <3>1. Got(e)' = Got(e) \ {p} /\ p \in Got(e)
      BY <1>3, <2>3, NoneIsNone DEF Got, SyncWaiter
    <3>2. Cardinality(Got(e)') = Cardinality(Got(e)) - 1
      BY <3>1, CountsNat, FS_RemoveElement
    <3>3. Cardinality(Got(e)) # 0
      BY <3>1, CountsNat, FS_EmptySet
    <3>4. QED
      BY <2>1, <3>2, <3>3
  <2>4. CASE sw[p].signaling_event = None
    <3>1. undelivered' = undelivered
      BY <1>2, <1>5, <2>4
    <3>2. \A e \in Events : Got(e)' = Got(e)
      BY <2>2, <2>4, NoneIsNone
    <3>3. QED
      BY <1>1, <1>2, <1>4, <3>1, <3>2 DEF IInv, SignalsConserved, TypeOK
  <2>5. CASE sw[p].signaling_event # None
    <3> DEFINE s == sw[p].signaling_event
    <3>1. s \in Events /\ Consumed(s)
      BY <1>2, <1>5, <2>5
    <3> HIDE DEF s
    <3>2. /\ undelivered \in [Events -> Nat]
          /\ undelivered' = IF s \in ManualReset THEN undelivered
                            ELSE [undelivered EXCEPT ![s] = @ - 1]
      BY <1>1, <3>1 DEF TypeOK, Consumed
    <3>3. s \notin ManualReset => undelivered[s] > 0
      BY <2>1, <2>3, <3>1 DEF s
    <3>4. undelivered' \in [Events -> Nat]
      BY <3>1, <3>2, <3>3
    <3>5. ASSUME NEW e \in Events \ ManualReset
          PROVE  undelivered'[e] = (IF signaled'[e] THEN 1 ELSE 0)
                         + Cardinality(Got(e)') + Cardinality(Signaling(e)')
      <4>1. signaled'[e] = signaled[e] /\ Signaling(e)' = Signaling(e)
        BY <1>2, <1>4
      <4>2. CASE e = s
        <5>1. undelivered'[e] = undelivered[e] - 1
          BY <3>2, <4>2
        <5>2. Cardinality(Got(e)') = Cardinality(Got(e)) - 1
          BY <2>3, <4>2 DEF s
        <5>3. QED
          BY <2>1, <4>1, <5>1, <5>2
      <4>3. CASE e # s
        <5>1. undelivered'[e] = undelivered[e]
          BY <3>1, <3>2, <4>3
        <5>2. Got(e)' = Got(e)
          BY <2>2, <4>3 DEF s
        <5>3. QED
          BY <2>1, <4>1, <5>1, <5>2
      <4>4. QED
        BY <4>2, <4>3
    <3>6. QED
      BY <3>4, <3>5 DEF SignalsConserved
  <2>6. QED
    BY <2>4, <2>5
<1>7. TypeOK'
  BY <1>1, <1>2, <1>6 DEF TypeOK, Position, NoCall, Operation, SyncWaiter
<1>8. SignalerHoldsLock' /\ LockedNotSignaled'
  BY <1>2, <1>3 DEF IInv, SignalerHoldsLock, LockedNotSignaled
<1>9. ListsHoldWaiters' /\ SleepersInLists'
  BY <1>1, <1>2, <1>3, ListTypes DEF Lists, ListsHoldWaiters, SleepersInLists
<1>10. FiredOffList'
  BY <1>1, <1>2, <1>3, ListTypes, NoneIsNone DEF Lists, FiredOffList, SyncWaiter
<1>11. ListsNoDup' /\ SignaledMeansNoWaiters'
  BY <1>1, <1>2 DEF Lists, ListsNoDup, SignaledMeansNoWaiters
<1>12. SyncWaiterOK' /\ OneEvent'
  BY <1>1, <1>3 DEF SyncWaiterOK, OneEvent, Waiting
<1>13. SignalDoneBeforeReturn'
  BY <1>2, <1>3 DEF IInv, SignalDoneBeforeReturn
<1>14. QED
  BY <1>6, <1>7, <1>8, <1>9, <1>10, <1>11, <1>12, <1>13 DEF IInv, Lists

-----------------------------------------------------------------------------
(* The invariant holds at the start. *)
LEMMA InitInv == Init => IInv
<1> SUFFICES ASSUME Init PROVE IInv
  OBVIOUS
<1>1. TypeOK
  <2>1. waiters \in [Events -> Seq(Threads)] /\ lock \in [Events -> Threads \cup {None}]
    BY DEF Init
  <2>2. undelivered \in [Events -> Nat]
    BY DEF Init
  <2>3. QED
    BY <2>1, <2>2 DEF Init, TypeOK, SyncWaiter, NoCall, Position, Operation
<1>2. SignalsConserved
  <2>1. \A e \in Events : Got(e) = {} /\ Signaling(e) = {}
    BY NoneIsNone DEF Init, Got, Signaling, SyncWaiter
  <2>2. Cardinality({}) = 0
    BY FS_EmptySet
  <2>3. ASSUME NEW e \in Events \ ManualReset
        PROVE  undelivered[e] = (IF signaled[e] THEN 1 ELSE 0)
                         + Cardinality(Got(e)) + Cardinality(Signaling(e))
    <3>1. undelivered[e] = IF signaled[e] THEN 1 ELSE 0
      BY DEF Init
    <3>2. QED
      BY <2>1, <2>2, <3>1
  <2>4. QED
    BY <2>3 DEF SignalsConserved
<1>3. SignalerHoldsLock /\ LockedNotSignaled
  BY NoneIsNone DEF Init, SignalerHoldsLock, LockedNotSignaled
<1>4. Lists
  BY EmptyList DEF Init, Lists, ListsHoldWaiters, ListsNoDup, FiredOffList,
                   SignaledMeansNoWaiters, SleepersInLists
<1>5. SyncWaiterOK /\ OneEvent /\ SignalDoneBeforeReturn
  BY DEF Init, SyncWaiterOK, OneEvent, SignalDoneBeforeReturn, Waiting
<1>6. QED
  BY <1>1, <1>2, <1>3, <1>4, <1>5 DEF IInv

(* Every step keeps it. *)
LEMMA NextInv == IInv /\ [Next]_vars => IInv'
<1> SUFFICES ASSUME IInv, [Next]_vars PROVE IInv'
  OBVIOUS
<1>1. ASSUME NEW e \in Events, Reset(e) \/ IsSignaled(e) PROVE IInv'
  BY <1>1, ResetInv
<1>2. ASSUME NEW p \in Threads, NEW e \in Events, Signal(p, e) PROVE IInv'
  BY <1>2, SignalInv
<1>3. ASSUME NEW p \in Threads, NEW e \in Events,
             TimedWait(p, e, "Wait") \/ TimedWait(p, e, "TimedWait")
      PROVE  IInv'
  BY <1>3, TimedWaitInv
<1>4. ASSUME NEW p \in Threads, NEW events \in SUBSET Events \ {{}}, WaitMany(p, events)
      PROVE  IInv'
  BY <1>4, WaitManyInv
<1>5. ASSUME NEW p \in Threads, NEW e \in Events, Fire(p, e) \/ SignalEnd(p, e)
      PROVE  IInv'
  BY <1>5, FireInv, SignalEndInv
<1>6. ASSUME NEW p \in Threads, EnqueueMany(p) \/ Dequeue(p) \/ Return(p) PROVE IInv'
  BY <1>6, EnqueueManyInv, DequeueInv, ReturnInv
<1>7. ASSUME NEW p \in Threads, \/ Block(p) \/ WakeUp(p) \/ Reacquire(p)
                                \/ LeaveFired(p) \/ LeaveTimedOut(p)
      PROVE  IInv'
  BY <1>7, WaitLoopInv
<1>8. CASE UNCHANGED vars
  <2>1. TypeOK' /\ SignalsConserved'
    BY <1>8 DEF vars, IInv, TypeOK, SignalsConserved, Got, Signaling
  <2>2. SignalerHoldsLock' /\ LockedNotSignaled' /\ SignalDoneBeforeReturn'
    BY <1>8 DEF vars, IInv, SignalerHoldsLock, LockedNotSignaled, SignalDoneBeforeReturn
  <2>3. Lists'
    BY <1>8 DEF vars, IInv, Lists, ListsHoldWaiters, ListsNoDup, FiredOffList,
                SignaledMeansNoWaiters, SleepersInLists
  <2>4. SyncWaiterOK' /\ OneEvent'
    BY <1>8 DEF vars, IInv, SyncWaiterOK, OneEvent
  <2>5. QED
    BY <2>1, <2>2, <2>3, <2>4 DEF IInv
<1>9. QED
  BY <1>1, <1>2, <1>3, <1>4, <1>5, <1>6, <1>7, <1>8 DEF Next, Step

(* The invariant holds in every reachable state. *)
LEMMA Invariance == Spec => []IInv
BY InitInv, NextInv, PTL DEF Spec

(***************************************************************************)
(* Signal is not lost and releases one thread only: of an auto-reset event *)
(* there are as many signals under way as were given and not used up,      *)
(* whatever timeouts (Disable) and refused Fires come in between.          *)
(***************************************************************************)
THEOREM SignalsConservedThm == Spec => []SignalsConserved
<1>1. IInv => SignalsConserved
  BY DEF IInv
<1>2. QED
  BY <1>1, Invariance, PTL

(***************************************************************************)
(* kernel_->waiters_ of every event holds no dead SyncWaiter, is empty     *)
(* when the event is signaled, and holds every sleeper exactly once.       *)
(***************************************************************************)
THEOREM WaitListsOKThm == Spec => []WaitListsOK
<1>1. IInv => WaitListsOK
  <2> SUFFICES ASSUME IInv PROVE WaitListsOK
    OBVIOUS
  <2>1. TypeOK /\ Lists
    BY DEF IInv
  <2>2. WaitersAlive
    BY <2>1 DEF Lists, ListsHoldWaiters, WaitersAlive, ToSet, Waiting
  <2>3. SleepersEnqueued
    <3>1. ASSUME NEW p \in Threads, pc[p] \in {"loop", "blocked", "woken"}, ~sw[p].fired,
                 NEW e \in call[p].events
          PROVE  \E i \in DOMAIN waiters[e] :
                    \A j \in DOMAIN waiters[e] : waiters[e][j] = p <=> j = i
      <4>1. p \in ToSet(waiters[e]) /\ e \in Events
        BY <2>1, <3>1 DEF Lists, SleepersInLists, TypeOK
      <4>2. PICK i \in DOMAIN waiters[e] : waiters[e][i] = p
        BY <4>1 DEF ToSet
      <4>3. \A j \in DOMAIN waiters[e] : waiters[e][j] = p => j = i
        BY <2>1, <4>1, <4>2 DEF Lists, ListsNoDup, NoDup
      <4>4. QED
        BY <4>2, <4>3
    <3>2. QED
      BY <3>1 DEF SleepersEnqueued
  <2>4. QED
    BY <2>1, <2>2, <2>3 DEF WaitListsOK, Lists
<1>2. QED
  BY <1>1, Invariance, PTL

(***************************************************************************)
(* When Wait or TimedWait is about to return, the Signal that released it  *)
(* has given up the event for good: the caller may delete it.              *)
(***************************************************************************)
THEOREM SignalDoneBeforeReturnThm == Spec => []SignalDoneBeforeReturn
<1>1. IInv => SignalDoneBeforeReturn
  BY DEF IInv
<1>2. QED
  BY <1>1, Invariance, PTL
=============================================================================
