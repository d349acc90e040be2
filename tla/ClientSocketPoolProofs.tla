----------------------- MODULE ClientSocketPoolProofs -----------------------
(***************************************************************************)
(* Proofs about ClientSocketPool, for any groups, handles, limits and      *)
(* number of flushes: the counters are exact, the limits are kept, no      *)
(* socket is in two hands or outlives a Flush in an idle list, no Group is *)
(* used after it was deleted, and every answered request has its task.     *)
(*                                                                         *)
(* The inductive invariant is made of parts that depend on few variables   *)
(* each, so that an action has to be looked at only for the parts it can   *)
(* disturb.                                                                *)
(***************************************************************************)
EXTENDS ClientSocketPool, ListLemmas, FiniteSetTheorems

(* n is the size of S. *)
Counts(n, S) == IsFiniteSet(S) /\ n = Cardinality(S)

(* The handles that hold a socket. *)
Owners == {h \in Handles : socket[h] # None}

(***************************************************************************)
(* The sockets, idle or handed out, and their two counters.  A socket      *)
(* handed out carries the generation it was made in, which is what         *)
(* ReleaseSocket compares.                                                 *)
(***************************************************************************)
SocketTypes ==
    /\ idle \in [Groups -> SUBSET Socket]
    /\ socket \in [Handles -> Socket \cup {None}]
    /\ pool_id \in [Handles -> Int]
    /\ generation \in 0..MaxFlushes
    /\ idle_count \in Nat
    /\ handed_out \in Nat

SocketBornInPool ==
    \A h \in Handles : socket[h] # None => socket[h].born = pool_id[h]

SocketsOK ==
    /\ SocketTypes
    /\ SocketHasOneOwner
    /\ NoStaleReuse
    /\ SocketBornInPool
    /\ Counts(idle_count, IdleSockets)
    /\ Counts(handed_out, Owners)

(* The ConnectJobs, their counter and the backup timers that need one. *)
JobsOK ==
    /\ jobs \in [Groups -> Nat]
    /\ preconnects \in [Groups -> Nat]
    /\ backup \in [Groups -> BOOLEAN]
    /\ connecting \in Nat
    /\ \A g \in Groups : preconnects[g] <= jobs[g]
    /\ BackupTimerHasJob
    /\ Counts(connecting, ConnectJobs(Groups))

(* active_socket_count_ of the groups. *)
ActiveOK ==
    /\ active \in [Groups -> Nat]
    /\ \A g \in Groups : Counts(active[g], Holders(g))

(* The queues hold the requests that are pending, each once. *)
QueuesOK ==
    /\ pending \in [Groups -> Seq(Handles)]
    /\ \A g \in Groups : NoDup(pending[g])
    /\ \A g \in Groups, h \in Handles :
          h \in ToSet(pending[g]) <=> request[h].state = "pending" /\ request[h].group = g

RequestTypes ==
    request \in [Handles -> [state : {"free", "pending", "callback", "initialized"},
                             group : Groups \cup {None},
                             priority : Priorities \cup {0},
                             result : Results]]

(* A pending request has a socket only between RequestSocketInternal and the *)
(* rest of ProcessPendingRequest, which looks at the head of the queue.      *)
RequestsOK ==
    \A h \in Handles :
        /\ request[h].state = "free" => socket[h] = None
        /\ request[h].state # "free" => request[h].group \in Groups
        /\ request[h].state = "initialized" => socket[h] # None
        /\ request[h].state = "pending" /\ socket[h] # None =>
              /\ Running("ProcessPendingRequest")
              /\ request[h].group = Head(calls).group
              /\ h = Head(pending[request[h].group])

(* What an entry point may still have to do, and on which groups. *)
CallsOK ==
    \/ calls = <<>> \/ calls = <<Stalled>>
    \/ \E g \in group_map :
        \/ calls = <<Slot(g)>> \/ calls = <<Slot(g), Stalled>>
        \/ calls = <<Head(calls)>> /\ Running("RequestSockets") /\ Head(calls).group = g
        \/ \E rv \in {"OK", "ERROR"} :
            \/ calls = <<Complete(g, rv)>>
            \/ /\ pending[g] # <<>>
               /\ calls = <<Processed(g, rv)>> \/ calls = <<Processed(g, rv), Stalled>>

(* A group without Group object is empty. *)
GroupsOK ==
    /\ group_map \subseteq Groups
    /\ \A g \in Groups \ group_map :
          /\ active[g] = 0 /\ idle[g] = {} /\ jobs[g] = 0
          /\ pending[g] = <<>> /\ ~backup[g]

PostedOK ==
    /\ posted \in [Handles -> Nat]
    /\ CallbacksScheduled

(* The inductive invariant. *)
IInv ==
    /\ SocketsOK /\ JobsOK /\ ActiveOK
    /\ RequestTypes /\ QueuesOK /\ RequestsOK
    /\ CallsOK /\ GroupsOK /\ PostedOK
    /\ LimitsRespected
-----------------------------------------------------------------------------
(* Counting. *)

(* A slot that is given back, kept, or moved from one count to another. *)
LEMMA SlotMoved ==
    ASSUME NEW a \in Nat, NEW b \in Nat, NEW c \in Nat, NEW m \in Nat, a + b + c <= m
    PROVE  (a - 1) + b + c <= m /\ a + (b - 1) + (c + 1) <= m
OBVIOUS

LEMMA CountAdd ==
    ASSUME NEW n, NEW S, NEW x, Counts(n, S), x \notin S
    PROVE  n \in Nat /\ Counts(n + 1, S \cup {x})
BY FS_AddElement, FS_CardinalityType DEF Counts

LEMMA CountRemove ==
    ASSUME NEW n, NEW S, NEW x, Counts(n, S), x \in S
    PROVE  n - 1 \in Nat /\ Counts(n - 1, S \ {x})
<1>1. IsFiniteSet(S \ {x}) /\ Cardinality(S \ {x}) = n - 1
  BY FS_RemoveElement DEF Counts
<1>2. QED
  BY <1>1, FS_CardinalityType DEF Counts

LEMMA CountLose ==
    ASSUME NEW n, NEW S, NEW T, Counts(n, S), T \subseteq S
    PROVE  /\ IsFiniteSet(T) /\ Cardinality(T) \in Nat /\ n \in Nat
           /\ n - Cardinality(T) \in Nat
           /\ Counts(n - Cardinality(T), S \ T)
<1>1. IsFiniteSet(T) /\ Cardinality(T) <= n
  BY FS_Subset DEF Counts
<1>2. S \cap T = T
  OBVIOUS
<1>3. IsFiniteSet(S \ T) /\ Cardinality(S \ T) = n - Cardinality(T)
  BY <1>2, FS_Difference DEF Counts
<1>4. Cardinality(T) \in Nat /\ n \in Nat
  BY <1>1, FS_CardinalityType DEF Counts
<1>5. QED
  BY <1>1, <1>3, <1>4 DEF Counts

-----------------------------------------------------------------------------
(* What the operations do to sockets. *)

(* The idle lists without the sockets that are gone. *)
Left(gone) == [g \in Groups |-> idle[g] \ gone]

(* A new socket has an identity that no other has. *)
LEMMA NewSocketIsNew ==
    ASSUME SocketsOK, NEW s \in NewSockets
    PROVE  /\ s \in Socket /\ s.born = generation
           /\ \A h \in Handles : socket[h] # None => socket[h].id # s.id
           /\ \A g \in Groups : \A t \in idle[g] : t.id # s.id
<1>1. PICK i \in SocketIds : /\ s = [id |-> i, born |-> generation]
                            /\ i \notin {socket[h].id : h \in {x \in Handles : socket[x] # None}}
                            /\ i \notin {t.id : t \in IdleSockets}
  BY DEF NewSockets
<1>2. s \in Socket
  BY <1>1 DEF SocketsOK, SocketTypes, Socket
<1>3. \A g \in Groups : \A t \in idle[g] : t.id # i
  BY <1>1 DEF IdleSockets
<1>4. QED
  BY <1>1, <1>2, <1>3

(* Idle sockets are closed. *)
LEMMA LoseSockets ==
    ASSUME SocketsOK, NEW gone \in SUBSET IdleSockets,
           idle' = Left(gone), idle_count' = idle_count - Cardinality(gone),
           UNCHANGED <<socket, pool_id, generation, handed_out>>
    PROVE  SocketsOK'
<1>1. \A g \in Groups : idle'[g] = idle[g] \ gone
  BY DEF Left
<1>2. IdleSockets' = IdleSockets \ gone
  BY <1>1 DEF IdleSockets
<1>3. idle_count' \in Nat /\ Counts(idle_count', IdleSockets')
  BY <1>2, CountLose DEF SocketsOK
<1>4. SocketTypes'
  <2>1. idle' \in [Groups -> SUBSET Socket]
    BY DEF Left, SocketsOK, SocketTypes
  <2>2. QED
    BY <1>3, <2>1 DEF SocketsOK, SocketTypes
<1>5. SocketHasOneOwner' /\ NoStaleReuse'
  BY <1>1 DEF SocketsOK, SocketHasOneOwner, NoStaleReuse
<1>6. SocketBornInPool' /\ Counts(handed_out, Owners)'
  BY DEF SocketsOK, SocketBornInPool, Owners
<1>7. QED
  BY <1>3, <1>4, <1>5, <1>6 DEF SocketsOK

(* A socket is handed out: a new one, or one that was idle. *)
LEMMA HandOutSockets ==
    ASSUME SocketsOK, NEW gone \in SUBSET IdleSockets,
           NEW h \in Handles, socket[h] = None, NEW s \in NewSockets \cup gone,
           idle' = Left(gone), idle_count' = idle_count - Cardinality(gone),
           socket' = [socket EXCEPT ![h] = s],
           pool_id' = [pool_id EXCEPT ![h] = generation],
           handed_out' = handed_out + 1, UNCHANGED generation
    PROVE  SocketsOK' /\ s # None /\ s \in Socket
<1>1. /\ s \in Socket /\ s # None /\ s.born = generation
      /\ \A k \in Handles : socket[k] # None => socket[k].id # s.id
      /\ \A g \in Groups : \A t \in idle[g] \ gone : t.id # s.id
  <2>1. CASE s \in NewSockets
    BY <2>1, NewSocketIsNew, NoneIsNull
  <2>2. CASE s \in gone
    <3>1. PICK x \in Groups : s \in idle[x]
      BY <2>2 DEF IdleSockets
    <3>2. s \in Socket /\ s.born = generation
      BY <3>1 DEF SocketsOK, SocketTypes, NoStaleReuse
    <3>3. \A k \in Handles : socket[k] # None => socket[k].id # s.id
      BY <3>1 DEF SocketsOK, SocketHasOneOwner
    <3>4. \A g \in Groups : \A t \in idle[g] : t.id = s.id => t = s
      BY <3>1 DEF SocketsOK, SocketHasOneOwner
    <3>5. QED
      BY <2>2, <3>2, <3>3, <3>4, NoneIsNull
  <2>3. QED
    BY <2>1, <2>2
<1>2. \A g \in Groups : idle'[g] = idle[g] \ gone
  BY DEF Left
<1>3. IdleSockets' = IdleSockets \ gone
  BY <1>2 DEF IdleSockets
<1>4. idle_count' \in Nat /\ Counts(idle_count', IdleSockets')
  BY <1>3, CountLose DEF SocketsOK
<1>5. /\ socket'[h] = s /\ pool_id'[h] = generation
      /\ \A k \in Handles \ {h} : socket'[k] = socket[k] /\ pool_id'[k] = pool_id[k]
  BY DEF SocketsOK, SocketTypes
<1>6. Owners' = Owners \cup {h} /\ h \notin Owners
  BY <1>1, <1>5 DEF Owners
<1>7. handed_out' \in Nat /\ Counts(handed_out', Owners')
  BY <1>6, CountAdd DEF SocketsOK
<1>8. SocketTypes'
  <2>1. idle' \in [Groups -> SUBSET Socket]
    BY DEF Left, SocketsOK, SocketTypes
  <2>2. socket' \in [Handles -> Socket \cup {None}]
    BY <1>1 DEF SocketsOK, SocketTypes
  <2>3. pool_id' \in [Handles -> Int]
    BY DEF SocketsOK, SocketTypes
  <2>4. QED
    BY <1>4, <1>7, <2>1, <2>2, <2>3 DEF SocketsOK, SocketTypes
<1>9. SocketHasOneOwner'
  <2>1. \A g, x \in Groups : \A t \in idle'[g], u \in idle'[x] : t.id = u.id => g = x /\ t = u
    BY <1>2 DEF SocketsOK, SocketHasOneOwner
  <2>2. \A j, k \in Handles : j # k /\ socket'[j] # None /\ socket'[k] # None =>
           socket'[j].id # socket'[k].id
    BY <1>1, <1>5 DEF SocketsOK, SocketHasOneOwner
  <2>3. \A g \in Groups : \A t \in idle'[g] : \A k \in Handles :
           socket'[k] # None => socket'[k].id # t.id
    BY <1>1, <1>2, <1>5 DEF SocketsOK, SocketHasOneOwner
  <2>4. QED
    BY <2>1, <2>2, <2>3 DEF SocketHasOneOwner
<1>10. NoStaleReuse'
  BY <1>2 DEF SocketsOK, NoStaleReuse
<1>11. SocketBornInPool'
  BY <1>1, <1>5 DEF SocketsOK, SocketBornInPool
<1>12. QED
  BY <1>1, <1>4, <1>7, <1>8, <1>9, <1>10, <1>11 DEF SocketsOK

(* A socket of the current generation becomes idle: a new one, or one that *)
(* h gives back; gone are idle sockets closed before.                      *)
LEMMA AddIdleSockets ==
    ASSUME SocketsOK, NEW gone \in SUBSET IdleSockets,
           NEW g \in Groups, NEW s \in Socket, s.born = generation,
           \A x \in Groups : \A t \in idle[x] : t.id # s.id,
           \A k \in Handles : socket'[k] # None =>
              socket'[k].id # s.id /\ socket'[k] = socket[k] /\ pool_id'[k] = pool_id[k],
           socket' \in [Handles -> Socket \cup {None}], pool_id' \in [Handles -> Int],
           idle' = [x \in Groups |-> IF x = g THEN (idle[x] \ gone) \cup {s} ELSE idle[x] \ gone],
           idle_count' = (idle_count - Cardinality(gone)) + 1,
           handed_out' \in Nat, Counts(handed_out, Owners)', UNCHANGED generation
    PROVE  SocketsOK'
<1>1. /\ \A x \in Groups : x # g => idle'[x] = idle[x] \ gone
      /\ idle'[g] = (idle[g] \ gone) \cup {s}
  OBVIOUS
<1>2. IdleSockets' = (IdleSockets \ gone) \cup {s} /\ s \notin IdleSockets
  <2>1. s \notin IdleSockets
    BY DEF IdleSockets
  <2>2. IdleSockets' \subseteq (IdleSockets \ gone) \cup {s}
    BY <1>1 DEF IdleSockets
  <2>3. (IdleSockets \ gone) \cup {s} \subseteq IdleSockets'
    BY <1>1 DEF IdleSockets
  <2>4. QED
    BY <2>1, <2>2, <2>3
<1>3. idle_count' \in Nat /\ Counts(idle_count', IdleSockets')
  <2>1. Counts(idle_count - Cardinality(gone), IdleSockets \ gone)
        /\ idle_count - Cardinality(gone) \in Nat
    BY CountLose DEF SocketsOK
  <2>2. s \notin IdleSockets \ gone
    BY <1>2
  <2>3. Counts((idle_count - Cardinality(gone)) + 1, (IdleSockets \ gone) \cup {s})
    BY <2>1, <2>2, CountAdd
  <2>4. QED
    BY <1>2, <2>1, <2>3
<1>4. SocketTypes'
  <2>1. idle' \in [Groups -> SUBSET Socket]
    BY DEF SocketsOK, SocketTypes
  <2>2. QED
    BY <1>3, <2>1 DEF SocketsOK, SocketTypes
<1>5. SocketHasOneOwner'
  <2>1. \A y, x \in Groups : \A t \in idle'[y], u \in idle'[x] : t.id = u.id => y = x /\ t = u
    BY <1>1 DEF SocketsOK, SocketHasOneOwner
  <2>2. \A j, k \in Handles : j # k /\ socket'[j] # None /\ socket'[k] # None =>
           socket'[j].id # socket'[k].id
    BY DEF SocketsOK, SocketHasOneOwner
  <2>3. \A x \in Groups : \A t \in idle'[x] : \A k \in Handles :
           socket'[k] # None => socket'[k].id # t.id
    BY <1>1 DEF SocketsOK, SocketHasOneOwner
  <2>4. QED
    BY <2>1, <2>2, <2>3 DEF SocketHasOneOwner
<1>6. NoStaleReuse'
  BY <1>1 DEF SocketsOK, NoStaleReuse
<1>7. SocketBornInPool'
  BY DEF SocketsOK, SocketBornInPool
<1>8. QED
  BY <1>3, <1>4, <1>5, <1>6, <1>7 DEF SocketsOK

-----------------------------------------------------------------------------
(* What the operations do to ConnectJobs. *)

LEMMA JobElements ==
    ASSUME NEW G, NEW t
    PROVE  t \in ConnectJobs(G) <=> \E g \in G : \E i \in 1..jobs[g] : t = <<g, i>>
BY DEF ConnectJobs

LEMMA JobElementsPrime ==
    ASSUME NEW G, NEW t
    PROVE  t \in ConnectJobs(G)' <=> \E g \in G : \E i \in 1..jobs'[g] : t = <<g, i>>
BY DEF ConnectJobs

LEMMA AddJob ==
    ASSUME JobsOK, NEW g \in Groups,
           jobs' = [jobs EXCEPT ![g] = @ + 1], connecting' = connecting + 1,
           preconnects' \in [Groups -> Nat],
           \A x \in Groups : preconnects'[x] <= jobs'[x],
           backup' \in [Groups -> BOOLEAN],
           \A x \in Groups \ {g} : backup'[x] => backup[x]
    PROVE  JobsOK'
<1>1. /\ jobs'[g] = jobs[g] + 1 /\ \A x \in Groups \ {g} : jobs'[x] = jobs[x]
      /\ \A x \in Groups : jobs[x] \in Nat
  BY DEF JobsOK
<1>2. DEFINE new == <<g, jobs[g] + 1>>
<1>3. new \notin ConnectJobs(Groups)
  BY <1>1, JobElements
<1>4. ConnectJobs(Groups)' = ConnectJobs(Groups) \cup {new}
  <2>1. 1..(jobs[g] + 1) = (1..jobs[g]) \cup {jobs[g] + 1}
    BY <1>1
  <2>2. \A t : t \in ConnectJobs(Groups)' <=> t \in ConnectJobs(Groups) \cup {new}
    BY <1>1, <2>1, JobElements, JobElementsPrime
  <2>3. QED
    BY <2>2
<1>5. connecting' \in Nat /\ Counts(connecting', ConnectJobs(Groups)')
  <2> HIDE DEF new
  <2>1. QED
    BY <1>3, <1>4, CountAdd DEF JobsOK
<1>6. BackupTimerHasJob'
  BY <1>1 DEF JobsOK, BackupTimerHasJob
<1>7. jobs' \in [Groups -> Nat]
  BY <1>1 DEF JobsOK
<1>8. QED
  BY <1>5, <1>6, <1>7 DEF JobsOK

LEMMA RemoveJob ==
    ASSUME JobsOK, NEW g \in Groups, NEW unused \in BOOLEAN, RemoveConnectJob(g, unused),
           backup' \in [Groups -> BOOLEAN],
           \A x \in Groups : backup'[x] => backup[x],
           jobs'[g] = 0 => ~backup'[g]
    PROVE  JobsOK' /\ jobs'[g] = jobs[g] - 1 /\ jobs[g] > 0
           /\ connecting' = connecting - 1
           /\ \A x \in Groups \ {g} : jobs'[x] = jobs[x]
<1>1. /\ jobs'[g] = jobs[g] - 1 /\ \A x \in Groups \ {g} : jobs'[x] = jobs[x]
      /\ \A x \in Groups : jobs[x] \in Nat /\ preconnects[x] \in Nat /\ preconnects[x] <= jobs[x]
  BY DEF JobsOK, RemoveConnectJob
<1>2. jobs[g] > 0
  BY <1>1 DEF RemoveConnectJob
<1>3. jobs' \in [Groups -> Nat]
  BY <1>1, <1>2 DEF JobsOK, RemoveConnectJob
<1>4. preconnects' \in [Groups -> Nat] /\ \A x \in Groups : preconnects'[x] <= jobs'[x]
  <2>1. CASE unused
    <3>1. preconnects[g] > 0 /\ preconnects' = [preconnects EXCEPT ![g] = @ - 1]
      BY <2>1 DEF RemoveConnectJob, JobsOK
    <3>2. QED
      BY <1>1, <3>1 DEF JobsOK
  <2>2. CASE ~unused
    <3>1. jobs[g] > preconnects[g] /\ preconnects' = [preconnects EXCEPT ![g] = @]
      BY <2>2 DEF RemoveConnectJob, JobsOK
    <3>2. QED
      BY <1>1, <3>1 DEF JobsOK
  <2>3. QED
    BY <2>1, <2>2
<1>5. DEFINE last == <<g, jobs[g]>>
<1>6. last \in ConnectJobs(Groups)
  BY <1>1, <1>2, JobElements
<1>7. ConnectJobs(Groups)' = ConnectJobs(Groups) \ {last}
  <2>1. 1..(jobs[g] - 1) = (1..jobs[g]) \ {jobs[g]}
    BY <1>1
  <2>2. \A t : t \in ConnectJobs(Groups)' <=> t \in ConnectJobs(Groups) \ {last}
    BY <1>1, <2>1, JobElements, JobElementsPrime
  <2>3. QED
    BY <2>2
<1>8. connecting' \in Nat /\ Counts(connecting', ConnectJobs(Groups)')
  <2>1. connecting' = connecting - 1
    BY DEF RemoveConnectJob
  <2> HIDE DEF last
  <2>2. connecting - 1 \in Nat /\ Counts(connecting - 1, ConnectJobs(Groups) \ {last})
    BY <1>6, CountRemove DEF JobsOK
  <2>3. QED
    BY <1>7, <2>1, <2>2
<1>9. BackupTimerHasJob'
  BY <1>1, <1>3 DEF JobsOK, BackupTimerHasJob
<1>10. QED
  BY <1>1, <1>2, <1>3, <1>4, <1>8, <1>9 DEF JobsOK, RemoveConnectJob

LEMMA KeepJobs ==
    ASSUME JobsOK, UNCHANGED <<jobs, connecting>>,
           preconnects' \in [Groups -> Nat],
           \A x \in Groups : preconnects'[x] <= preconnects[x],
           backup' \in [Groups -> BOOLEAN],
           \A x \in Groups : backup'[x] => backup[x]
    PROVE  JobsOK'
<1>1. Counts(connecting, ConnectJobs(Groups))'
  BY DEF JobsOK, ConnectJobs
<1>2. BackupTimerHasJob'
  BY DEF JobsOK, BackupTimerHasJob
<1>3. \A g \in Groups : preconnects'[g] <= jobs'[g]
  BY DEF JobsOK
<1>4. QED
  BY <1>1, <1>2, <1>3 DEF JobsOK

-----------------------------------------------------------------------------
(* What the operations do to the active sockets of the groups. *)

(* h holds a socket for the same group as before, or none as before. *)
SameHold(h) ==
    /\ socket'[h] # None <=> socket[h] # None
    /\ socket[h] # None => request'[h].group = request[h].group

LEMMA KeepActive ==
    ASSUME ActiveOK, UNCHANGED active, \A h \in Handles : SameHold(h)
    PROVE  ActiveOK'
<1>1. ASSUME NEW g \in Groups PROVE Holders(g)' = Holders(g)
  BY DEF Holders, SameHold
<1>2. QED
  BY <1>1 DEF ActiveOK

LEMMA AddActive ==
    ASSUME ActiveOK, NEW g \in Groups, NEW h \in Handles,
           active' = [active EXCEPT ![g] = @ + 1],
           socket[h] = None, socket'[h] # None, request'[h].group = g,
           \A k \in Handles \ {h} : SameHold(k)
    PROVE  ActiveOK'
<1>1. Holders(g)' = Holders(g) \cup {h} /\ h \notin Holders(g)
  BY DEF Holders, SameHold
<1>2. active'[g] \in Nat /\ Counts(active'[g], Holders(g)')
  <2>1. Counts(active[g] + 1, Holders(g) \cup {h}) /\ active[g] \in Nat
    BY <1>1, CountAdd DEF ActiveOK
  <2>2. active'[g] = active[g] + 1
    BY DEF ActiveOK
  <2>3. QED
    BY <1>1, <2>1, <2>2
<1>3. ASSUME NEW x \in Groups, x # g
      PROVE  active'[x] = active[x] /\ Holders(x)' = Holders(x)
  BY <1>3 DEF Holders, SameHold, ActiveOK
<1>4. active' \in [Groups -> Nat]
  BY DEF ActiveOK
<1>5. \A x \in Groups : Counts(active'[x], Holders(x)')
  BY <1>2, <1>3 DEF ActiveOK
<1>6. QED
  BY <1>4, <1>5 DEF ActiveOK

LEMMA RemoveActive ==
    ASSUME ActiveOK, NEW g \in Groups, NEW h \in Handles,
           active' = [active EXCEPT ![g] = @ - 1],
           socket[h] # None, request[h].group = g, socket'[h] = None,
           \A k \in Handles \ {h} : SameHold(k)
    PROVE  ActiveOK' /\ active'[g] = active[g] - 1
<1>1. Holders(g)' = Holders(g) \ {h} /\ h \in Holders(g)
  BY DEF Holders, SameHold
<1>2. active'[g] \in Nat /\ Counts(active'[g], Holders(g)') /\ active'[g] = active[g] - 1
  <2>1. Counts(active[g] - 1, Holders(g) \ {h}) /\ active[g] - 1 \in Nat
    BY <1>1, CountRemove DEF ActiveOK
  <2>2. active'[g] = active[g] - 1
    BY DEF ActiveOK
  <2>3. QED
    BY <1>1, <2>1, <2>2
<1>3. ASSUME NEW x \in Groups, x # g
      PROVE  active'[x] = active[x] /\ Holders(x)' = Holders(x)
  BY <1>3 DEF Holders, SameHold, ActiveOK
<1>4. active' \in [Groups -> Nat]
  BY <1>2, <1>3 DEF ActiveOK
<1>5. \A x \in Groups : Counts(active'[x], Holders(x)')
  BY <1>2, <1>3 DEF ActiveOK
<1>6. QED
  BY <1>2, <1>4, <1>5 DEF ActiveOK

-----------------------------------------------------------------------------
(* RequestSocketInternal. *)

(* The idle list of a group is finite. *)
LEMMA IdleSizes ==
    ASSUME SocketsOK, NEW g \in Groups, NEW gone
    PROVE  /\ IsFiniteSet(idle[g]) /\ Cardinality(idle[g]) \in Nat
           /\ Cardinality(idle[g] \ gone) \in Nat
           /\ Cardinality(idle[g] \ gone) <= Cardinality(idle[g])
<1>1. idle[g] \subseteq IdleSockets
  BY DEF IdleSockets
<1>2. IsFiniteSet(idle[g])
  BY <1>1, FS_Subset DEF SocketsOK, Counts
<1>3. idle[g] \ gone \in SUBSET idle[g]
  OBVIOUS
<1>4. IsFiniteSet(idle[g] \ gone) /\ Cardinality(idle[g] \ gone) <= Cardinality(idle[g])
  BY <1>2, <1>3, FS_Subset
<1>5. QED
  BY <1>2, <1>4, FS_CardinalityType

(* Only the idle list of the sockets' own group changes. *)
LEMMA LoseInGroup ==
    ASSUME SocketsOK, NEW g \in Groups, NEW gone \in SUBSET idle[g]
    PROVE  /\ gone \in SUBSET IdleSockets
           /\ [idle EXCEPT ![g] = @ \ gone] = Left(gone)
           /\ IsFiniteSet(gone) /\ Cardinality(gone) \in Nat
           /\ Cardinality(idle[g] \ gone) = Cardinality(idle[g]) - Cardinality(gone)
<1>1. gone \in SUBSET IdleSockets
  BY DEF IdleSockets
<1>2. \A x \in Groups \ {g} : idle[x] \ gone = idle[x]
  BY DEF SocketsOK, SocketHasOneOwner
<1>3. [idle EXCEPT ![g] = @ \ gone] = Left(gone)
  BY <1>2 DEF SocketsOK, SocketTypes, Left
<1>4. IsFiniteSet(idle[g])
  BY IdleSizes
<1>5. Counts(Cardinality(idle[g]), idle[g])
  BY <1>4 DEF Counts
<1>6. QED
  BY <1>1, <1>3, <1>5, CountLose DEF Counts

(* The parts of the invariant RequestSocketInternal relies on. *)
PoolOK == SocketsOK /\ JobsOK /\ ActiveOK /\ GroupsOK /\ LimitsRespected

(* Each number that is added up is one. *)
LEMMA Numbers ==
    ASSUME PoolOK
    PROVE  /\ idle_count \in Nat /\ connecting \in Nat /\ handed_out \in Nat
           /\ \A x \in Groups : active[x] \in Nat /\ jobs[x] \in Nat /\ Cardinality(idle[x]) \in Nat
           /\ MaxSockets \in Nat /\ MaxSocketsPerGroup \in Nat
BY IdleSizes, LimitsNat DEF PoolOK, SocketsOK, SocketTypes, JobsOK, ActiveOK

(* Without limits ignored: the limits hold of the pool and of g afterwards, *)
(* if they do, and the other groups have not grown.                         *)
LEMMA KeepLimits ==
    ASSUME PoolOK, NEW g \in Groups,
           IgnoreLimits = {} => /\ handed_out' + connecting' + idle_count' <= MaxSockets
                                /\ active'[g] + jobs'[g] + Cardinality(idle'[g]) <= MaxSocketsPerGroup,
           \A x \in Groups \ {g} : /\ active'[x] = active[x] /\ jobs'[x] = jobs[x]
                                    /\ Cardinality(idle'[x]) \in Nat
                                    /\ Cardinality(idle'[x]) <= Cardinality(idle[x])
    PROVE  LimitsRespected'
<1>1. IgnoreLimits = {} => \A x \in Groups :
         active[x] + jobs[x] + Cardinality(idle[x]) <= MaxSocketsPerGroup
  BY DEF PoolOK, LimitsRespected, NumActiveSocketSlots
<1>2. ASSUME IgnoreLimits = {}, NEW x \in Groups
      PROVE  active'[x] + jobs'[x] + Cardinality(idle'[x]) <= MaxSocketsPerGroup
  <2>1. CASE x = g
    BY <1>2, <2>1
  <2>2. CASE x # g
    BY <1>1, <1>2, <2>2, Numbers
  <2>3. QED
    BY <2>1, <2>2
<1>3. QED
  BY <1>2 DEF LimitsRespected, TotalSockets, NumActiveSocketSlots

(***************************************************************************)
(* What a caller of RequestSocketInternal(g, h, rv) may rely on: everything *)
(* but the requests is in order, h got a socket or nobody did, and g still  *)
(* has its Group unless an error left the group empty.                      *)
(***************************************************************************)
Outcome(g, h, rv) ==
    /\ SocketsOK' /\ JobsOK' /\ LimitsRespected'
    /\ group_map' \subseteq Groups
    /\ \A x \in Groups \ group_map' :
          /\ active'[x] = 0 /\ idle'[x] = {} /\ jobs'[x] = 0
          /\ pending[x] = <<>> /\ ~backup'[x]
    /\ g \in group_map' \/ rv = "ERROR"
    /\ \/ UNCHANGED <<socket, active>>
       \/ /\ h # None /\ rv # "PENDING"
          /\ active' = [active EXCEPT ![g] = @ + 1]
          /\ \E s \in Socket : s # None /\ socket' = [socket EXCEPT ![h] = s]

LEMMA AssignIdleOutcome ==
    ASSUME PoolOK, NEW g \in Groups, NEW h \in Handles, socket[h] = None,
           NEW rv, NEW dead \in SUBSET idle[g],
           AssignIdleSocketToGroup(g, h, dead, rv), UNCHANGED generation
    PROVE  Outcome(g, h, rv)
<1>1. PICK s \in idle[g] \ dead :
         /\ idle' = [idle EXCEPT ![g] = @ \ (dead \cup {s})]
         /\ idle_count' = idle_count - Cardinality(dead) - 1
         /\ HandOutSocket(g, h, s)
  BY DEF AssignIdleSocketToGroup
<1> DEFINE gone == dead \cup {s}
<1>2. gone \in SUBSET idle[g]
  OBVIOUS
<1>3. IsFiniteSet(dead) /\ Cardinality(dead) \in Nat
  BY LoseInGroup DEF PoolOK
<1>4. Cardinality(gone) = Cardinality(dead) + 1
  BY <1>3, FS_AddElement
<1> HIDE DEF gone
<1>5. /\ gone \in SUBSET IdleSockets /\ idle' = Left(gone)
      /\ Cardinality(idle[g] \ gone) = Cardinality(idle[g]) - Cardinality(gone)
  BY <1>1, <1>2, LoseInGroup DEF PoolOK, gone
<1>6. idle_count' = idle_count - Cardinality(gone)
  BY <1>1, <1>3, <1>4, Numbers
<1>7. SocketsOK' /\ s # None /\ s \in Socket
  <2>1. s \in NewSockets \cup gone
    BY DEF gone
  <2>2. QED
    BY <1>1, <1>5, <1>6, <2>1, HandOutSockets DEF PoolOK, HandOutSocket
<1>8. UNCHANGED <<jobs, preconnects, backup, connecting>>
  BY DEF AssignIdleSocketToGroup
<1>9. JobsOK'
  BY <1>8 DEF PoolOK, JobsOK, BackupTimerHasJob, ConnectJobs
<1>10. active'[g] = active[g] + 1 /\ \A x \in Groups \ {g} : active'[x] = active[x]
  BY <1>1 DEF HandOutSocket, PoolOK, ActiveOK
<1>11. \A x \in Groups : idle'[x] = idle[x] \ gone
  BY <1>5 DEF Left
<1>12. LimitsRespected'
  <2>1. IgnoreLimits = {} => /\ handed_out + connecting + idle_count <= MaxSockets
                             /\ active[g] + jobs[g] + Cardinality(idle[g]) <= MaxSocketsPerGroup
    BY DEF PoolOK, LimitsRespected, TotalSockets, NumActiveSocketSlots
  <2>2. handed_out' = handed_out + 1
    BY <1>1 DEF HandOutSocket
  <2>3. IgnoreLimits = {} => handed_out' + connecting' + idle_count' <= MaxSockets
    BY <1>3, <1>4, <1>6, <1>8, <2>1, <2>2, Numbers
  <2>4. Cardinality(idle'[g]) = Cardinality(idle[g]) - (Cardinality(dead) + 1)
    BY <1>4, <1>5, <1>11
  <2>5. IgnoreLimits = {} => active'[g] + jobs'[g] + Cardinality(idle'[g]) <= MaxSocketsPerGroup
    BY <1>3, <1>8, <1>10, <2>1, <2>4, Numbers
  <2>6. \A x \in Groups \ {g} : /\ Cardinality(idle'[x]) \in Nat
                                 /\ Cardinality(idle'[x]) <= Cardinality(idle[x])
    BY <1>11, IdleSizes DEF PoolOK
  <2>7. QED
    BY <1>8, <1>10, <2>3, <2>5, <2>6, KeepLimits
<1>13. group_map' = group_map \cup {g}
  BY DEF AssignIdleSocketToGroup
<1>14. \A x \in Groups \ group_map' :
          /\ active'[x] = 0 /\ idle'[x] = {} /\ jobs'[x] = 0
          /\ pending[x] = <<>> /\ ~backup'[x]
  BY <1>8, <1>10, <1>11, <1>13 DEF PoolOK, GroupsOK
<1>15. h # None /\ rv # "PENDING"
  BY HandlesOk DEF AssignIdleSocketToGroup
<1>16. QED
  BY <1>1, <1>7, <1>9, <1>12, <1>13, <1>14, <1>15 DEF Outcome, HandOutSocket, PoolOK, GroupsOK

LEMMA OnlyCleanedUpOutcome ==
    ASSUME PoolOK, NEW g \in Groups, NEW h, NEW rv, NEW dead \in SUBSET idle[g],
           OnlyCleanedUp(g, dead), UNCHANGED generation,
           preconnects' \in [Groups -> Nat],
           \A x \in Groups : preconnects'[x] <= preconnects[x]
    PROVE  Outcome(g, h, rv)
<1>1. UNCHANGED <<jobs, active, backup, connecting, handed_out, socket, pool_id>>
  BY DEF OnlyCleanedUp
<1>2. /\ dead \in SUBSET IdleSockets /\ idle' = Left(dead)
      /\ Cardinality(dead) \in Nat
      /\ idle_count' = idle_count - Cardinality(dead)
  BY LoseInGroup DEF PoolOK, OnlyCleanedUp
<1>3. SocketsOK'
  BY <1>1, <1>2, LoseSockets DEF PoolOK
<1>4. JobsOK'
  <2>1. backup' \in [Groups -> BOOLEAN] /\ \A x \in Groups : backup'[x] => backup[x]
    BY <1>1 DEF PoolOK, JobsOK
  <2>2. QED
    BY <1>1, <2>1, KeepJobs DEF PoolOK
<1>5. \A x \in Groups : idle'[x] = idle[x] \ dead
  BY <1>2 DEF Left
<1>6. \A x \in Groups : Cardinality(idle'[x]) \in Nat /\ Cardinality(idle'[x]) <= Cardinality(idle[x])
  BY <1>5, IdleSizes DEF PoolOK
<1>7. LimitsRespected'
  <2>1. IgnoreLimits = {} => /\ handed_out + connecting + idle_count <= MaxSockets
                             /\ active[g] + jobs[g] + Cardinality(idle[g]) <= MaxSocketsPerGroup
    BY DEF PoolOK, LimitsRespected, TotalSockets, NumActiveSocketSlots
  <2>2. IgnoreLimits = {} => handed_out' + connecting' + idle_count' <= MaxSockets
    BY <1>1, <1>2, <2>1, Numbers
  <2>3. IgnoreLimits = {} => active'[g] + jobs'[g] + Cardinality(idle'[g]) <= MaxSocketsPerGroup
    BY <1>1, <1>6, <2>1, Numbers
  <2>4. QED
    BY <1>1, <1>6, <2>2, <2>3, KeepLimits
<1>8. group_map' = group_map \cup {g}
  BY DEF OnlyCleanedUp
<1>9. \A x \in Groups \ group_map' :
          /\ active'[x] = 0 /\ idle'[x] = {} /\ jobs'[x] = 0
          /\ pending[x] = <<>> /\ ~backup'[x]
  BY <1>1, <1>5, <1>8 DEF PoolOK, GroupsOK
<1>10. QED
  BY <1>1, <1>3, <1>4, <1>7, <1>8, <1>9 DEF Outcome, PoolOK, GroupsOK

LEMMA ConnectOutcome ==
    ASSUME PoolOK, NEW g \in Groups, NEW h \in Handles \cup {None}, h # None => socket[h] = None,
           NEW rv, NEW dead \in SUBSET idle[g], NEW closed \in Closable(g, h, dead),
           h \in IgnoreLimits \/
              NumActiveSocketSlots(g) - Cardinality(dead) < MaxSocketsPerGroup,
           Connect(g, h, dead, closed, rv), UNCHANGED generation
    PROVE  Outcome(g, h, rv)
<1> DEFINE gone    == dead \cup closed
           left    == Left(gone)
           count   == idle_count - Cardinality(gone)
           empty(x) == IsEmpty(x, left[x], pending[x])
           groups  == (group_map \cup {g})
                        \ {x \in Groups \ {g} : idle[x] \cap closed # {} /\ empty(x)}
(* The sockets that are closed. *)
<1>1. closed = {} \/ \E x \in Groups \ {g} : \E s \in idle[x] : closed = {s}
  BY DEF Closable
<1>2. IgnoreLimits = {} => \/ closed = {} /\ TotalSockets - Cardinality(dead) < MaxSockets
                           \/ \E x \in Groups \ {g} : \E s \in idle[x] : closed = {s}
  BY DEF Closable
<1>3. IsFiniteSet(dead) /\ Cardinality(dead) \in Nat
      /\ Cardinality(idle[g] \ dead) = Cardinality(idle[g]) - Cardinality(dead)
  BY LoseInGroup DEF PoolOK
<1>4. gone \in SUBSET IdleSockets
  BY <1>1 DEF IdleSockets
<1>5. closed \cap idle[g] = {}
  BY <1>1 DEF PoolOK, SocketsOK, SocketHasOneOwner
<1>6. /\ closed = {} => Cardinality(gone) = Cardinality(dead)
      /\ closed # {} => Cardinality(gone) = Cardinality(dead) + 1
  <2>1. CASE closed = {}
    <3>1. gone = dead
      BY <2>1
    <3>2. QED
      BY <2>1, <3>1
  <2>2. CASE closed # {}
    <3>1. PICK s : closed = {s} /\ s \notin dead
      BY <1>1, <1>5, <2>2
    <3>2. QED
      BY <1>3, <2>2, <3>1, FS_AddElement
  <2>3. QED
    BY <2>1, <2>2
<1>7. idle[g] \ gone = idle[g] \ dead
  BY <1>5
<1> HIDE DEF gone
<1>8. \A x \in Groups : left[x] = idle[x] \ gone
  BY DEF Left
(* The room for one more. *)
<1>9. Cardinality(gone) \in Nat
  BY <1>3, <1>6
<1>10. IgnoreLimits = {} => handed_out + connecting + (idle_count - Cardinality(gone)) < MaxSockets
  <2>1. IgnoreLimits = {} => handed_out + connecting + idle_count <= MaxSockets
    BY DEF PoolOK, LimitsRespected, TotalSockets
  <2>2. CASE closed = {}
    BY <1>2, <1>3, <1>6, <2>2, Numbers DEF TotalSockets
  <2>3. CASE closed # {}
    BY <1>3, <1>6, <2>1, <2>3, Numbers
  <2>4. QED
    BY <2>2, <2>3
<1>11. IgnoreLimits = {} => active[g] + jobs[g] + Cardinality(left[g]) < MaxSocketsPerGroup
  <2>1. Cardinality(left[g]) = Cardinality(idle[g]) - Cardinality(dead)
    BY <1>3, <1>7, <1>8
  <2>2. IgnoreLimits = {} => (active[g] + jobs[g] + Cardinality(idle[g])) - Cardinality(dead)
                                 < MaxSocketsPerGroup
    BY DEF NumActiveSocketSlots
  <2> HIDE DEF left
  <2>3. QED
    BY <1>3, <2>1, <2>2, Numbers
<1>12. \A x \in Groups : Cardinality(left[x]) \in Nat /\ Cardinality(left[x]) <= Cardinality(idle[x])
  BY <1>8, IdleSizes DEF PoolOK
(* The groups that are left. *)
<1>13. groups \subseteq Groups /\ g \in groups
  BY DEF PoolOK, GroupsOK
<1>14. \A x \in Groups \ groups : /\ x # g /\ active[x] = 0 /\ left[x] = {} /\ jobs[x] = 0
                                  /\ pending[x] = <<>> /\ ~backup[x]
  <2>1. SUFFICES ASSUME NEW x \in Groups \ groups
                 PROVE  /\ x # g /\ active[x] = 0 /\ left[x] = {} /\ jobs[x] = 0
                        /\ pending[x] = <<>> /\ ~backup[x]
    OBVIOUS
  <2>2. CASE x \notin group_map
    BY <1>8, <1>13, <2>2 DEF PoolOK, GroupsOK
  <2>3. CASE x \in group_map
    <3>1. x # g /\ empty(x)
      BY <1>13, <2>3
    <3>2. jobs[x] = 0 => ~backup[x]
      BY DEF PoolOK, JobsOK, BackupTimerHasJob
    <3>3. QED
      BY <3>1, <3>2 DEF IsEmpty
  <2>4. QED
    BY <2>2, <2>3
<1>15. ASSUME empty(g) PROVE active[g] = 0 /\ left[g] = {} /\ jobs[g] = 0 /\ pending[g] = <<>> /\ ~backup[g]
  BY <1>15 DEF IsEmpty, PoolOK, JobsOK, BackupTimerHasJob
(* The ways in which the call ends. *)
<1>16. \/ /\ rv \in {"OK", "ERROR"} /\ h # None
          /\ \E s \in NewSockets : HandOutSocket(g, h, s)
          /\ idle' = left /\ idle_count' = count /\ group_map' = groups
          /\ UNCHANGED <<jobs, preconnects, backup, connecting>>
       \/ /\ rv = "OK"
          /\ \E s \in NewSockets : AddIdleSocket(left, count, g, s)
          /\ group_map' = groups
          /\ UNCHANGED <<jobs, preconnects, active, backup, connecting,
                         handed_out, socket, pool_id>>
       \/ /\ rv = "PENDING"
          /\ backup' = [backup EXCEPT ![g] = @ \/ empty(g)]
          /\ connecting' = connecting + 1
          /\ jobs' = [jobs EXCEPT ![g] = @ + 1]
          /\ preconnects' = [preconnects EXCEPT ![g] = IF h = None THEN @ + 1 ELSE @]
          /\ idle' = left /\ idle_count' = count /\ group_map' = groups
          /\ UNCHANGED <<active, handed_out, socket, pool_id>>
       \/ /\ rv = "ERROR"
          /\ idle' = left /\ idle_count' = count
          /\ group_map' = IF empty(g) THEN groups \ {g} ELSE groups
          /\ UNCHANGED <<jobs, preconnects, active, backup, connecting,
                         handed_out, socket, pool_id>>
  BY DEF Connect, gone, Left
<1> DEFINE Ends(sockets) ==
      /\ handed_out' + connecting' + idle_count' = handed_out + connecting + (idle_count - Cardinality(gone)) + sockets
      /\ active'[g] + jobs'[g] + Cardinality(idle'[g]) = active[g] + jobs[g] + Cardinality(left[g]) + sockets
      /\ \A x \in Groups \ {g} : active'[x] = active[x] /\ jobs'[x] = jobs[x] /\ idle'[x] = left[x]
<1>17. ASSUME NEW n \in {0, 1}, Ends(n) PROVE LimitsRespected'
  <2>1. IgnoreLimits = {} => handed_out' + connecting' + idle_count' <= MaxSockets
    BY <1>9, <1>10, <1>17, Numbers
  <2>2. IgnoreLimits = {} => active'[g] + jobs'[g] + Cardinality(idle'[g]) <= MaxSocketsPerGroup
    BY <1>11, <1>12, <1>17, Numbers
  <2>3. \A x \in Groups \ {g} : /\ active'[x] = active[x] /\ jobs'[x] = jobs[x]
                                 /\ Cardinality(idle'[x]) \in Nat
                                 /\ Cardinality(idle'[x]) <= Cardinality(idle[x])
    BY <1>12, <1>17
  <2>4. QED
    BY <2>1, <2>2, <2>3, KeepLimits
<1> HIDE DEF left, empty, groups
<1>18. CASE /\ rv \in {"OK", "ERROR"} /\ h # None
            /\ \E s \in NewSockets : HandOutSocket(g, h, s)
            /\ idle' = left /\ idle_count' = count /\ group_map' = groups
            /\ UNCHANGED <<jobs, preconnects, backup, connecting>>
  <2>1. PICK s \in NewSockets : HandOutSocket(g, h, s)
    BY <1>18
  <2>2. h \in Handles /\ socket[h] = None
    BY <1>18
  <2>3. SocketsOK' /\ s # None /\ s \in Socket
    BY <1>4, <1>18, <2>1, <2>2, HandOutSockets DEF PoolOK, HandOutSocket, left
  <2>4. JobsOK'
    BY <1>18 DEF PoolOK, JobsOK, BackupTimerHasJob, ConnectJobs
  <2>5. active'[g] = active[g] + 1 /\ \A x \in Groups \ {g} : active'[x] = active[x]
    BY <2>1 DEF HandOutSocket, PoolOK, ActiveOK
  <2>6. handed_out' = handed_out + 1
    BY <2>1 DEF HandOutSocket
  <2>7. Ends(1)
    BY <1>9, <1>12, <1>18, <2>5, <2>6, Numbers
  <2>8. LimitsRespected'
    BY <1>17, <2>7
  <2>9. \A x \in Groups \ group_map' :
          /\ active'[x] = 0 /\ idle'[x] = {} /\ jobs'[x] = 0
          /\ pending[x] = <<>> /\ ~backup'[x]
    BY <1>14, <1>18, <2>5
  <2>10. QED
    BY <1>13, <1>18, <2>1, <2>3, <2>4, <2>8, <2>9 DEF Outcome, HandOutSocket
<1>19. CASE /\ rv = "OK"
            /\ \E s \in NewSockets : AddIdleSocket(left, count, g, s)
            /\ group_map' = groups
            /\ UNCHANGED <<jobs, preconnects, active, backup, connecting,
                           handed_out, socket, pool_id>>
  <2>1. PICK s \in NewSockets : AddIdleSocket(left, count, g, s)
    BY <1>19
  <2>2. /\ s \in Socket /\ s.born = generation
        /\ \A k \in Handles : socket[k] # None => socket[k].id # s.id
        /\ \A x \in Groups : \A t \in idle[x] : t.id # s.id
    BY NewSocketIsNew DEF PoolOK
  <2>3. idle' = [x \in Groups |-> IF x = g THEN (idle[x] \ gone) \cup {s} ELSE idle[x] \ gone]
    BY <2>1 DEF AddIdleSocket, left, Left
  <2>4. idle_count' = (idle_count - Cardinality(gone)) + 1
    BY <2>1 DEF AddIdleSocket
  <2>5. SocketsOK'
    <3>1. socket' \in [Handles -> Socket \cup {None}] /\ pool_id' \in [Handles -> Int]
          /\ handed_out' \in Nat /\ Counts(handed_out, Owners)'
      BY <1>19 DEF PoolOK, SocketsOK, SocketTypes, Owners
    <3>2. \A k \in Handles : socket'[k] # None =>
              socket'[k].id # s.id /\ socket'[k] = socket[k] /\ pool_id'[k] = pool_id[k]
      BY <1>19, <2>2
    <3>3. QED
      BY <1>4, <2>2, <2>3, <2>4, <3>1, <3>2, AddIdleSockets DEF PoolOK
  <2>6. JobsOK'
    BY <1>19 DEF PoolOK, JobsOK, BackupTimerHasJob, ConnectJobs
  <2>7. idle'[g] = left[g] \cup {s} /\ s \notin left[g] /\ \A x \in Groups \ {g} : idle'[x] = left[x]
    BY <1>8, <2>2, <2>3
  <2>8. Cardinality(idle'[g]) = Cardinality(left[g]) + 1
    <3>1. IsFiniteSet(left[g])
      <4>1. IsFiniteSet(idle[g])
        BY IdleSizes DEF PoolOK
      <4>2. IsFiniteSet(idle[g] \ gone)
        BY <4>1, FS_Difference
      <4>3. QED
        BY <1>8, <4>2
    <3>2. QED
      BY <2>7, <3>1, FS_AddElement
  <2>9. Ends(1)
    BY <1>9, <1>12, <1>19, <2>4, <2>7, <2>8, Numbers
  <2>10. LimitsRespected'
    BY <1>17, <2>9
  <2>11. \A x \in Groups \ group_map' :
          /\ active'[x] = 0 /\ idle'[x] = {} /\ jobs'[x] = 0
          /\ pending[x] = <<>> /\ ~backup'[x]
    BY <1>14, <1>19, <2>7
  <2>12. QED
    BY <1>13, <1>19, <2>5, <2>6, <2>10, <2>11 DEF Outcome
<1>20. CASE /\ rv = "PENDING"
            /\ backup' = [backup EXCEPT ![g] = @ \/ empty(g)]
            /\ connecting' = connecting + 1
            /\ jobs' = [jobs EXCEPT ![g] = @ + 1]
            /\ preconnects' = [preconnects EXCEPT ![g] = IF h = None THEN @ + 1 ELSE @]
            /\ idle' = left /\ idle_count' = count /\ group_map' = groups
            /\ UNCHANGED <<active, handed_out, socket, pool_id>>
  <2>1. SocketsOK'
    BY <1>4, <1>20, LoseSockets DEF PoolOK, left
  <2>2. jobs'[g] = jobs[g] + 1 /\ \A x \in Groups \ {g} : jobs'[x] = jobs[x]
    BY <1>20 DEF PoolOK, JobsOK
  <2>3. \A x \in Groups \ {g} : backup'[x] = backup[x]
    BY <1>20, Zenon DEF PoolOK, JobsOK
  <2>4. JobsOK'
    <3>1. preconnects' \in [Groups -> Nat] /\ \A x \in Groups : preconnects'[x] <= jobs'[x]
      BY <1>20, <2>2 DEF PoolOK, JobsOK
    <3>2. backup' \in [Groups -> BOOLEAN]
      <4>1. empty(g) \in BOOLEAN
        BY DEF empty, IsEmpty
      <4>2. QED
        BY <1>20, <4>1, Zenon DEF PoolOK, JobsOK
    <3>3. QED
      BY <1>20, <2>3, <3>1, <3>2, AddJob DEF PoolOK
  <2>5. Ends(1)
    BY <1>9, <1>12, <1>20, <2>2, Numbers
  <2>6. LimitsRespected'
    BY <1>17, <2>5
  <2>7. \A x \in Groups \ group_map' :
          /\ active'[x] = 0 /\ idle'[x] = {} /\ jobs'[x] = 0
          /\ pending[x] = <<>> /\ ~backup'[x]
    BY <1>14, <1>20, <2>2, <2>3
  <2>8. QED
    BY <1>13, <1>20, <2>1, <2>4, <2>6, <2>7 DEF Outcome
<1>21. CASE /\ rv = "ERROR"
            /\ idle' = left /\ idle_count' = count
            /\ group_map' = IF empty(g) THEN groups \ {g} ELSE groups
            /\ UNCHANGED <<jobs, preconnects, active, backup, connecting,
                           handed_out, socket, pool_id>>
  <2>1. SocketsOK'
    BY <1>4, <1>21, LoseSockets DEF PoolOK, left
  <2>2. JobsOK'
    BY <1>21 DEF PoolOK, JobsOK, BackupTimerHasJob, ConnectJobs
  <2>3. Ends(0)
    BY <1>9, <1>12, <1>21, Numbers
  <2>4. LimitsRespected'
    BY <1>17, <2>3
  <2>5. \A x \in Groups \ group_map' :
          /\ active'[x] = 0 /\ idle'[x] = {} /\ jobs'[x] = 0
          /\ pending[x] = <<>> /\ ~backup'[x]
    BY <1>14, <1>15, <1>21
  <2>6. QED
    BY <1>13, <1>21, <2>1, <2>2, <2>4, <2>5 DEF Outcome
<1>22. QED
  BY <1>16, <1>18, <1>19, <1>20, <1>21

LEMMA RequestSocketOutcome ==
    ASSUME PoolOK, NEW g \in Groups, NEW h \in Handles \cup {None}, h # None => socket[h] = None,
           NEW rv, RequestSocketInternal(g, h, rv), UNCHANGED generation
    PROVE  Outcome(g, h, rv)
<1>1. PICK dead \in SUBSET idle[g] :
         \/ AssignIdleSocketToGroup(g, h, dead, rv)
         \/ TryToUsePreconnectConnectJob(g, h, dead, rv)
         \/ NoSlot(g, h, dead, rv)
         \/ /\ h \in IgnoreLimits \/
                 NumActiveSocketSlots(g) - Cardinality(dead) < MaxSocketsPerGroup
            /\ \E closed \in Closable(g, h, dead) : Connect(g, h, dead, closed, rv)
  BY DEF RequestSocketInternal
<1>2. CASE AssignIdleSocketToGroup(g, h, dead, rv)
  <2>1. h \in Handles
    BY <1>2 DEF AssignIdleSocketToGroup
  <2>2. QED
    BY <1>2, <2>1, HandlesOk, AssignIdleOutcome
<1>3. CASE TryToUsePreconnectConnectJob(g, h, dead, rv)
  <2>1. preconnects' \in [Groups -> Nat] /\ \A x \in Groups : preconnects'[x] <= preconnects[x]
    BY <1>3 DEF TryToUsePreconnectConnectJob, PoolOK, JobsOK
  <2>2. OnlyCleanedUp(g, dead)
    BY <1>3 DEF TryToUsePreconnectConnectJob
  <2>3. QED
    BY <2>1, <2>2, OnlyCleanedUpOutcome
<1>4. CASE NoSlot(g, h, dead, rv)
  <2>1. OnlyCleanedUp(g, dead) /\ preconnects' = preconnects
    BY <1>4 DEF NoSlot
  <2>2. preconnects' \in [Groups -> Nat] /\ \A x \in Groups : preconnects'[x] <= preconnects[x]
    BY <2>1 DEF PoolOK, JobsOK
  <2>3. QED
    BY <2>1, <2>2, OnlyCleanedUpOutcome
<1>5. CASE /\ h \in IgnoreLimits \/
                 NumActiveSocketSlots(g) - Cardinality(dead) < MaxSocketsPerGroup
           /\ \E closed \in Closable(g, h, dead) : Connect(g, h, dead, closed, rv)
  BY <1>5, ConnectOutcome
<1>6. QED
  BY <1>1, <1>2, <1>3, <1>4, <1>5

-----------------------------------------------------------------------------
(* The actions.  PoolOK' follows from the parts that are left out here. *)

LEMMA GroupsFromOutcome ==
    ASSUME NEW g, NEW h, NEW rv, Outcome(g, h, rv),
           \A x \in Groups \ group_map' : pending'[x] = pending[x]
    PROVE  GroupsOK'
BY DEF Outcome, GroupsOK

LEMMA RequestSocketStep ==
    ASSUME IInv, NEW h \in Handles, NEW g \in Groups, NEW p \in Priorities, RequestSocket(h, g, p)
    PROVE  IInv'
<1>1. PICK rv \in {"OK", "PENDING", "ERROR"} :
        /\ RequestSocketInternal(g, h, rv)
        /\ \/ /\ rv = "PENDING"
              /\ request' = [request EXCEPT ![h] = Request("pending", g, p)]
              /\ pending' = [pending EXCEPT ![g] = InsertRequestIntoQueue(h, p, @)]
           \/ /\ rv # "PENDING"
              /\ request' = IF socket'[h] = None THEN request
                            ELSE [request EXCEPT ![h] = Request("initialized", g, p)]
              /\ UNCHANGED pending
  BY DEF RequestSocket
<1>2. /\ calls = <<>> /\ calls' = <<>> /\ UNCHANGED <<generation, posted>>
      /\ request[h].state = "free"
  BY DEF RequestSocket
<1>3. socket[h] = None
  BY <1>2 DEF IInv, RequestsOK
<1>4. Outcome(g, h, rv)
  BY <1>1, <1>2, <1>3, HandlesOk, RequestSocketOutcome DEF IInv, PoolOK
<1>5. SocketsOK' /\ JobsOK' /\ LimitsRespected'
  BY <1>4 DEF Outcome
<1>6. \A k \in Handles \ {h} : socket'[k] = socket[k]
  BY <1>4 DEF Outcome, IInv, SocketsOK, SocketTypes
<1>7. CASE rv = "PENDING"
  <2>1. /\ request' = [request EXCEPT ![h] = Request("pending", g, p)]
        /\ pending' = [pending EXCEPT ![g] = InsertRequestIntoQueue(h, p, @)]
        /\ UNCHANGED <<socket, active>>
        /\ g \in group_map'
    BY <1>1, <1>4, <1>7 DEF Outcome
  <2>2. /\ request'[h] = Request("pending", g, p)
        /\ \A k \in Handles \ {h} : request'[k] = request[k]
    BY <2>1 DEF IInv, RequestTypes
  <2>3. RequestTypes'
    <3>1. Request("pending", g, p) \in
             [state : {"free", "pending", "callback", "initialized"}, group : Groups \cup {None},
              priority : Priorities \cup {0}, result : Results]
      BY DEF Request, Results
    <3>2. QED
      BY <2>1, <3>1 DEF IInv, RequestTypes
  <2>4. ActiveOK'
    <3>1. \A k \in Handles : SameHold(k)
      BY <1>3, <2>1, <2>2 DEF SameHold
    <3>2. QED
      BY <2>1, <3>1, KeepActive DEF IInv
  <2>5. /\ pending'[g] \in Seq(Handles) /\ NoDup(pending'[g])
        /\ ToSet(pending'[g]) = ToSet(pending[g]) \cup {h}
    <3>1. pending[g] \in Seq(Handles) /\ NoDup(pending[g]) /\ h \notin ToSet(pending[g])
      BY <1>2 DEF IInv, QueuesOK
    <3> DEFINE before == {i \in DOMAIN pending[g] : request[pending[g][i]].priority <= p}
               n == Cardinality(before)
    <3>2. n \in 0..Len(pending[g])
      <4>1. DOMAIN pending[g] = 1..Len(pending[g]) /\ Len(pending[g]) \in Nat
        BY <3>1
      <4>2. before \in SUBSET (1..Len(pending[g]))
        BY <4>1
      <4>3. IsFiniteSet(1..Len(pending[g])) /\ Cardinality(1..Len(pending[g])) = Len(pending[g])
        BY <4>1, FS_Interval
      <4> HIDE DEF before
      <4>4. IsFiniteSet(before) /\ n <= Len(pending[g])
        BY <4>2, <4>3, FS_Subset
      <4>5. QED
        BY <4>1, <4>4, FS_CardinalityType
    <3>3. pending'[g] = InsertAt(pending[g], n + 1, h)
      BY <2>1 DEF InsertRequestIntoQueue, IInv, QueuesOK
    <3> HIDE DEF n
    <3>4. n + 1 \in 1..(Len(pending[g]) + 1)
      BY <3>1, <3>2
    <3>5. QED
      BY <3>1, <3>3, <3>4, InsertAtList
  <2>6. \A x \in Groups \ {g} : pending'[x] = pending[x]
    BY <2>1 DEF IInv, QueuesOK
  <2>7. QueuesOK'
    <3>1. pending' \in [Groups -> Seq(Handles)]
      BY <2>1, <2>5, <2>6 DEF IInv, QueuesOK
    <3>2. \A x \in Groups : NoDup(pending'[x])
      BY <2>5, <2>6 DEF IInv, QueuesOK
    <3>3. \A x \in Groups, k \in Handles :
             k \in ToSet(pending'[x]) <=> request'[k].state = "pending" /\ request'[k].group = x
      <4>1. \A x \in Groups : x # g => h \notin ToSet(pending'[x])
        BY <1>2, <2>6 DEF IInv, QueuesOK
      <4>2. request'[h].state = "pending" /\ request'[h].group = g
        BY <2>2 DEF Request
      <4>3. QED
        BY <2>2, <2>5, <2>6, <4>1, <4>2 DEF IInv, QueuesOK
    <3>4. QED
      BY <3>1, <3>2, <3>3 DEF QueuesOK
  <2>8. RequestsOK'
    <3>1. ~Running("ProcessPendingRequest")
      BY <1>2 DEF Running
    <3>2. \A k \in Handles \ {h} : ~(request[k].state = "pending" /\ socket[k] # None)
      BY <3>1 DEF IInv, RequestsOK
    <3>3. QED
      BY <1>3, <2>1, <2>2, <3>2 DEF IInv, RequestsOK, Request
  <2>9. GroupsOK'
    BY <1>4, <2>1, <2>6, GroupsFromOutcome
  <2>10. PostedOK'
    BY <1>2, <2>2 DEF IInv, PostedOK, CallbacksScheduled, Request
  <2>11. CallsOK'
    BY <1>2 DEF CallsOK
  <2>12. QED
    BY <1>5, <2>3, <2>4, <2>7, <2>8, <2>9, <2>10, <2>11 DEF IInv
<1>8. CASE rv # "PENDING"
  <2>1. /\ request' = IF socket'[h] = None THEN request
                      ELSE [request EXCEPT ![h] = Request("initialized", g, p)]
        /\ UNCHANGED pending
    BY <1>1, <1>8
  <2>2. GroupsOK'
    BY <1>4, <2>1, GroupsFromOutcome
  <2>3. CallsOK'
    BY <1>2 DEF CallsOK
  <2>4. ~Running("ProcessPendingRequest")
    BY <1>2 DEF Running
  <2>5. CASE UNCHANGED <<socket, active>>
    <3>1. UNCHANGED request
      BY <1>3, <2>1, <2>5
    <3>2. RequestTypes' /\ QueuesOK' /\ PostedOK'
      BY <1>2, <2>1, <3>1 DEF IInv, RequestTypes, QueuesOK, PostedOK, CallbacksScheduled
    <3>3. ActiveOK'
      BY <2>5, <3>1, KeepActive DEF IInv, SameHold
    <3>4. RequestsOK'
      BY <2>4, <2>5, <3>1 DEF IInv, RequestsOK
    <3>5. QED
      BY <1>5, <2>2, <2>3, <3>2, <3>3, <3>4 DEF IInv
  <2>6. CASE /\ active' = [active EXCEPT ![g] = @ + 1]
             /\ \E s \in Socket : s # None /\ socket' = [socket EXCEPT ![h] = s]
    <3>1. socket'[h] # None
      BY <2>6 DEF IInv, SocketsOK, SocketTypes
    <3>2. request' = [request EXCEPT ![h] = Request("initialized", g, p)]
      BY <2>1, <3>1
    <3>3. /\ request'[h] = Request("initialized", g, p)
          /\ \A k \in Handles \ {h} : request'[k] = request[k]
      BY <3>2 DEF IInv, RequestTypes
    <3>4. RequestTypes'
      <4>1. Request("initialized", g, p) \in
               [state : {"free", "pending", "callback", "initialized"}, group : Groups \cup {None},
                priority : Priorities \cup {0}, result : Results]
        BY DEF Request, Results
      <4>2. QED
        BY <3>2, <4>1 DEF IInv, RequestTypes
    <3>5. request'[h].state = "initialized" /\ request'[h].group = g
      BY <3>3 DEF Request
    <3>6. ActiveOK'
      <4>1. \A k \in Handles \ {h} : SameHold(k)
        BY <1>6, <3>3 DEF SameHold
      <4>2. QED
        BY <1>3, <2>6, <3>1, <3>5, <4>1, AddActive DEF IInv
    <3>7. QueuesOK'
      BY <1>2, <2>1, <3>3, <3>5 DEF IInv, QueuesOK
    <3>8. RequestsOK'
      BY <1>6, <2>4, <3>1, <3>3, <3>5 DEF IInv, RequestsOK
    <3>9. PostedOK'
      BY <1>2, <3>3, <3>5 DEF IInv, PostedOK, CallbacksScheduled
    <3>10. QED
      BY <1>5, <2>2, <2>3, <3>4, <3>6, <3>7, <3>8, <3>9 DEF IInv
  <2>7. QED
    BY <1>4, <2>5, <2>6 DEF Outcome
<1>9. QED
  BY <1>7, <1>8

(* The calls left over, by the one that is next. *)
LEMMA CallShapes ==
    ASSUME CallsOK
    PROVE  /\ Running("OnAvailableSocketSlot") =>
                 /\ Head(calls).group \in group_map
                 /\ Tail(calls) = <<>> \/ Tail(calls) = <<Stalled>>
           /\ Running("ProcessPendingRequest") =>
                 /\ Head(calls).group \in group_map
                 /\ Head(calls).rv \in {"OK", "ERROR"}
                 /\ pending[Head(calls).group] # <<>>
                 /\ Tail(calls) = <<>> \/ Tail(calls) = <<Stalled>>
           /\ Running("CheckForStalledSocketGroups") => Tail(calls) = <<>>
           /\ Running("RequestSockets") => Head(calls).group \in group_map
           /\ Running("OnConnectJobComplete") =>
                 /\ Head(calls).group \in group_map
                 /\ Head(calls).rv \in {"OK", "ERROR"}
                 /\ Tail(calls) = <<>>
<1>1. CASE calls = <<>>
  BY <1>1 DEF Running
<1>2. CASE calls = <<Stalled>>
  BY <1>2 DEF Running, Stalled
<1>3. ASSUME NEW g \in group_map, calls = <<Slot(g)>> \/ calls = <<Slot(g), Stalled>>
      PROVE  /\ Head(calls) = Slot(g)
             /\ Tail(calls) = <<>> \/ Tail(calls) = <<Stalled>>
  <2>1. CASE calls = <<Slot(g)>>
    BY <2>1, SplitSmall
  <2>2. CASE calls = <<Slot(g), Stalled>>
    BY <2>2, SplitSmall
  <2>3. QED
    BY <1>3, <2>1, <2>2
<1>4. ASSUME NEW g \in group_map, NEW rv,
             calls = <<Processed(g, rv)>> \/ calls = <<Processed(g, rv), Stalled>>
      PROVE  /\ Head(calls) = Processed(g, rv)
             /\ Tail(calls) = <<>> \/ Tail(calls) = <<Stalled>>
  <2>1. CASE calls = <<Processed(g, rv)>>
    BY <2>1, SplitSmall
  <2>2. CASE calls = <<Processed(g, rv), Stalled>>
    BY <2>2, SplitSmall
  <2>3. QED
    BY <1>4, <2>1, <2>2
<1>5. ASSUME NEW g \in group_map, NEW rv, calls = <<Complete(g, rv)>>
      PROVE  Head(calls) = Complete(g, rv) /\ Tail(calls) = <<>>
  BY <1>5
<1>6. \A g : Slot(g).op = "OnAvailableSocketSlot" /\ Slot(g).group = g
  BY DEF Slot
<1>7. \A g, rv : /\ Processed(g, rv).op = "ProcessPendingRequest"
                 /\ Processed(g, rv).group = g /\ Processed(g, rv).rv = rv
  BY DEF Processed
<1>8. \A g, rv : /\ Complete(g, rv).op = "OnConnectJobComplete"
                 /\ Complete(g, rv).group = g /\ Complete(g, rv).rv = rv
  BY DEF Complete
<1>9. QED
  BY <1>1, <1>2, <1>3, <1>4, <1>5, <1>6, <1>7, <1>8 DEF CallsOK, Running

(* Steps that leave the requests and who holds a socket alone. *)
LEMMA QuietClients ==
    ASSUME IInv, UNCHANGED <<pending, request, posted, socket, active>>,
           ~Running("ProcessPendingRequest")
    PROVE  RequestTypes' /\ QueuesOK' /\ RequestsOK' /\ PostedOK' /\ ActiveOK'
<1>1. RequestTypes' /\ QueuesOK' /\ PostedOK' /\ ActiveOK'
  BY DEF IInv, RequestTypes, QueuesOK, PostedOK, CallbacksScheduled, ActiveOK, Holders
<1>2. RequestsOK'
  BY DEF IInv, RequestsOK
<1>3. QED
  BY <1>1, <1>2

(* Steps that leave sockets and jobs alone. *)
LEMMA QuietPool ==
    ASSUME IInv, UNCHANGED <<jobs, preconnects, idle, active, backup, idle_count, connecting,
                             handed_out, socket, pool_id, generation>>
    PROVE  SocketsOK' /\ JobsOK' /\ LimitsRespected'
BY DEF IInv, SocketsOK, SocketTypes, SocketHasOneOwner, NoStaleReuse, SocketBornInPool,
       IdleSockets, Owners, JobsOK, BackupTimerHasJob, ConnectJobs, LimitsRespected,
       TotalSockets, NumActiveSocketSlots

(* Deleting a group that is empty. *)
LEMMA DeleteEmptyGroup ==
    ASSUME IInv, NEW g \in Groups, UNCHANGED <<active, idle, jobs, pending, backup>>,
           group_map' = IF IsEmpty(g, idle[g], pending[g]) THEN group_map \ {g} ELSE group_map
    PROVE  GroupsOK'
<1>1. jobs[g] = 0 => ~backup[g]
  BY DEF IInv, JobsOK, BackupTimerHasJob
<1>2. QED
  BY <1>1 DEF IInv, GroupsOK, IsEmpty

LEMMA LoopCall ==
    ASSUME NEW g \in group_map', NEW n, NEW left, calls' = <<Loop(g, n, left)>>
    PROVE  CallsOK'
<1>1. Head(calls') = Loop(g, n, left) /\ calls' # <<>>
  OBVIOUS
<1>2. Loop(g, n, left).op = "RequestSockets" /\ Loop(g, n, left).group = g
  BY DEF Loop
<1>3. QED
  BY <1>1, <1>2 DEF CallsOK, Running

LEMMA RequestSocketsStep ==
    ASSUME IInv, NEW g \in Groups, NEW n, RequestSockets(g, n)
    PROVE  IInv'
<1> DEFINE num == IF n > MaxSocketsPerGroup THEN MaxSocketsPerGroup ELSE n
<1>1. /\ calls = <<>> /\ group_map' = group_map \cup {g} /\ calls' = <<Loop(g, num, num)>>
      /\ UNCHANGED <<pending, generation, request, posted, jobs, preconnects, idle, active, backup,
                     idle_count, connecting, handed_out, socket, pool_id>>
  BY DEF RequestSockets, clientVars
<1> HIDE DEF num
<1>2. SocketsOK' /\ JobsOK' /\ LimitsRespected'
  BY <1>1, QuietPool
<1>3. ~Running("ProcessPendingRequest")
  BY <1>1 DEF Running
<1>4. RequestTypes' /\ QueuesOK' /\ RequestsOK' /\ PostedOK' /\ ActiveOK'
  BY <1>1, <1>3, QuietClients
<1>5. GroupsOK'
  BY <1>1 DEF IInv, GroupsOK
<1>6. CallsOK'
  BY <1>1, LoopCall
<1>7. QED
  BY <1>2, <1>4, <1>5, <1>6 DEF IInv

LEMMA RequestSocketsLoopStep ==
    ASSUME IInv, RequestSocketsLoop
    PROVE  IInv'
<1> DEFINE c == Head(calls)
           g == c.group
           more == NumActiveSocketSlots(g) < c.num /\ c.left > 0
<1>1. Running("RequestSockets") /\ UNCHANGED <<pending, generation, request, posted>>
  BY DEF RequestSocketsLoop, clientVars
<1>2. ~Running("ProcessPendingRequest")
  BY <1>1 DEF Running
<1>3. g \in group_map /\ g \in Groups
  BY <1>1, CallShapes DEF IInv, GroupsOK
<1>4. CASE more
  <2>1. PICK rv \in {"OK", "PENDING", "ERROR"} :
           /\ RequestSocketInternal(g, None, rv)
           /\ calls' = IF rv # "ERROR" THEN <<Loop(g, c.num, c.left - 1)>>
                       ELSE IF g \in group_map' THEN <<Loop(g, c.num, 0)>>
                       ELSE <<>>
    BY <1>4 DEF RequestSocketsLoop
  <2> HIDE DEF g, c
  <2>2. Outcome(g, None, rv)
    BY <1>1, <1>3, <2>1, RequestSocketOutcome DEF IInv, PoolOK
  <2>3. SocketsOK' /\ JobsOK' /\ LimitsRespected' /\ UNCHANGED <<socket, active>>
    BY <2>2 DEF Outcome
  <2>4. RequestTypes' /\ QueuesOK' /\ RequestsOK' /\ PostedOK' /\ ActiveOK'
    BY <1>1, <1>2, <2>3, QuietClients
  <2>5. GroupsOK'
    BY <1>1, <2>2, GroupsFromOutcome
  <2>6. CallsOK'
    <3>1. CASE g \in group_map'
      BY <2>1, <3>1, LoopCall
    <3>2. CASE g \notin group_map'
      <4>1. rv = "ERROR"
        BY <2>2, <3>2 DEF Outcome
      <4>2. QED
        BY <2>1, <3>2, <4>1 DEF CallsOK
    <3>3. QED
      BY <3>1, <3>2
  <2>7. QED
    BY <2>3, <2>4, <2>5, <2>6 DEF IInv
<1>5. CASE ~more
  <2>1. /\ group_map' = IF IsEmpty(g, idle[g], pending[g]) THEN group_map \ {g} ELSE group_map
        /\ calls' = <<>>
        /\ UNCHANGED <<jobs, preconnects, idle, active, backup,
                       idle_count, connecting, handed_out, socket, pool_id>>
    BY <1>5 DEF RequestSocketsLoop
  <2> HIDE DEF g, c
  <2>2. SocketsOK' /\ JobsOK' /\ LimitsRespected'
    BY <1>1, <2>1, QuietPool
  <2>3. RequestTypes' /\ QueuesOK' /\ RequestsOK' /\ PostedOK' /\ ActiveOK'
    BY <1>1, <1>2, <2>1, QuietClients
  <2>4. GroupsOK'
    BY <1>1, <1>3, <2>1, DeleteEmptyGroup
  <2>5. CallsOK'
    BY <2>1 DEF CallsOK
  <2>6. QED
    BY <2>2, <2>3, <2>4, <2>5 DEF IInv
<1>6. QED
  BY <1>4, <1>5

LEMMA OnAvailableSocketSlotStep ==
    ASSUME IInv, OnAvailableSocketSlot
    PROVE  IInv'
<1> DEFINE g == Head(calls).group
<1>1. Running("OnAvailableSocketSlot") /\ UNCHANGED <<pending, generation, request, posted>>
  BY DEF OnAvailableSocketSlot, clientVars
<1>2. ~Running("ProcessPendingRequest")
  BY <1>1 DEF Running
<1>3. g \in group_map /\ g \in Groups /\ (Tail(calls) = <<>> \/ Tail(calls) = <<Stalled>>)
  BY <1>1, CallShapes DEF IInv, GroupsOK
<1>4. CASE pending[g] = <<>>
  <2>1. /\ calls' = Tail(calls)
        /\ group_map' = IF IsEmpty(g, idle[g], pending[g]) THEN group_map \ {g} ELSE group_map
        /\ UNCHANGED <<jobs, preconnects, idle, active, backup,
                       idle_count, connecting, handed_out, socket, pool_id>>
    BY <1>4 DEF OnAvailableSocketSlot, groupVars
  <2> HIDE DEF g
  <2>2. SocketsOK' /\ JobsOK' /\ LimitsRespected'
    BY <1>1, <2>1, QuietPool
  <2>3. RequestTypes' /\ QueuesOK' /\ RequestsOK' /\ PostedOK' /\ ActiveOK'
    BY <1>1, <1>2, <2>1, QuietClients
  <2>4. GroupsOK'
    BY <1>1, <1>3, <2>1, DeleteEmptyGroup
  <2>5. CallsOK'
    BY <1>3, <2>1 DEF CallsOK
  <2>6. QED
    BY <2>2, <2>3, <2>4, <2>5 DEF IInv
<1>5. CASE pending[g] # <<>>
  <2> DEFINE h == Head(pending[g])
  <2>1. PICK rv \in {"OK", "PENDING", "ERROR"} :
           /\ RequestSocketInternal(g, h, rv)
           /\ calls' = IF rv = "PENDING" THEN Tail(calls) ELSE <<Processed(g, rv)>> \o Tail(calls)
    BY <1>5 DEF OnAvailableSocketSlot, IsEmpty
  <2> HIDE DEF g
  <2>2. h \in Handles /\ request[h].state = "pending" /\ request[h].group = g
    BY <1>3, <1>5, TailList DEF IInv, QueuesOK
  <2>3. socket[h] = None
    BY <1>2, <2>2 DEF IInv, RequestsOK
  <2> HIDE DEF h
  <2>4. Outcome(g, h, rv)
    BY <1>1, <1>3, <2>1, <2>2, <2>3, HandlesOk, RequestSocketOutcome DEF IInv, PoolOK
  <2>5. SocketsOK' /\ JobsOK' /\ LimitsRespected'
    BY <2>4 DEF Outcome
  <2>6. GroupsOK'
    BY <1>1, <2>4, GroupsFromOutcome
  <2>7. g \in group_map' /\ pending'[g] # <<>>
    BY <1>1, <1>3, <1>5, <2>4 DEF Outcome
  <2>8. CallsOK' /\ (rv # "PENDING" => calls' # <<>> /\ Head(calls') = Processed(g, rv))
    <3>1. CASE rv = "PENDING"
      BY <1>3, <2>1, <3>1 DEF CallsOK
    <3>2. CASE rv # "PENDING"
      <4>1. calls' = <<Processed(g, rv)>> \/ calls' = <<Processed(g, rv), Stalled>>
        BY <1>3, <2>1, <3>2, JoinSmall
      <4>2. rv \in {"OK", "ERROR"}
        BY <2>1, <3>2
      <4>3. CallsOK'
        BY <2>7, <4>1, <4>2 DEF CallsOK
      <4>4. calls' # <<>> /\ Head(calls') = Processed(g, rv)
        BY <4>1, SplitSmall
      <4>5. QED
        BY <4>3, <4>4
    <3>3. QED
      BY <3>1, <3>2
  <2>9. CASE UNCHANGED <<socket, active>>
    <3>1. RequestTypes' /\ QueuesOK' /\ RequestsOK' /\ PostedOK' /\ ActiveOK'
      BY <1>1, <1>2, <2>9, QuietClients
    <3>2. QED
      BY <2>5, <2>6, <2>8, <3>1 DEF IInv
  <2>10. CASE /\ rv # "PENDING"
              /\ active' = [active EXCEPT ![g] = @ + 1]
              /\ \E s \in Socket : s # None /\ socket' = [socket EXCEPT ![h] = s]
    <3>1. socket'[h] # None /\ \A k \in Handles \ {h} : socket'[k] = socket[k]
      BY <2>2, <2>10 DEF IInv, SocketsOK, SocketTypes
    <3>2. ActiveOK'
      <4>1. \A k \in Handles \ {h} : SameHold(k)
        BY <1>1, <3>1 DEF SameHold
      <4>2. request'[h].group = g
        BY <1>1, <2>2
      <4>3. QED
        BY <1>3, <2>2, <2>3, <2>10, <3>1, <4>1, <4>2, AddActive DEF IInv
    <3>3. RequestTypes' /\ QueuesOK' /\ PostedOK'
      BY <1>1 DEF IInv, RequestTypes, QueuesOK, PostedOK, CallbacksScheduled
    <3>4. Running("ProcessPendingRequest")' /\ Head(calls').group = g
      BY <2>8, <2>10 DEF Running, Processed
    <3>5. h = Head(pending'[g])
      BY <1>1 DEF h
    <3>6. RequestsOK'
      <4>1. ASSUME NEW k \in Handles
            PROVE  /\ request'[k].state = "free" => socket'[k] = None
                   /\ request'[k].state # "free" => request'[k].group \in Groups
                   /\ request'[k].state = "initialized" => socket'[k] # None
                   /\ request'[k].state = "pending" /\ socket'[k] # None =>
                         /\ Running("ProcessPendingRequest")'
                         /\ request'[k].group = Head(calls').group
                         /\ k = Head(pending'[request'[k].group])
        <5>1. CASE k = h
          BY <1>1, <1>3, <2>2, <3>1, <3>4, <3>5, <5>1
        <5>2. CASE k # h
          BY <1>1, <1>2, <3>1, <5>2 DEF IInv, RequestsOK
        <5>3. QED
          BY <5>1, <5>2
      <4>2. QED
        BY <4>1 DEF RequestsOK
    <3>7. QED
      BY <2>5, <2>6, <2>8, <3>2, <3>3, <3>6 DEF IInv
  <2>11. QED
    BY <2>4, <2>9, <2>10 DEF Outcome
<1>6. QED
  BY <1>4, <1>5

(***************************************************************************)
(* A pending request h leaves the queue of g and becomes what its handle   *)
(* has next: nothing, or an answer.                                        *)
(***************************************************************************)
NotPending == [state : {"free", "callback"}, group : Groups \cup {None},
               priority : Priorities \cup {0}, result : Results]

LEMMA LeaveQueue ==
    ASSUME IInv, NEW g \in Groups, NEW h \in Handles,
           request[h].state = "pending", request[h].group = g,
           RemoveRequestFromQueue(g, h),
           NEW r \in NotPending,
           request' = [request EXCEPT ![h] = r]
    PROVE  /\ RequestTypes' /\ QueuesOK'
           /\ request'[h] = r /\ \A k \in Handles \ {h} : request'[k] = request[k]
           /\ \A x \in Groups \ {g} : pending'[x] = pending[x]
<1>1. request'[h] = r /\ \A k \in Handles \ {h} : request'[k] = request[k]
  BY DEF IInv, RequestTypes
<1>2. RequestTypes'
  <2>1. r \in [state : {"free", "pending", "callback", "initialized"}, group : Groups \cup {None},
               priority : Priorities \cup {0}, result : Results]
    BY DEF NotPending
  <2>2. QED
    BY <2>1 DEF IInv, RequestTypes
<1>3. /\ pending'[g] = RemoveFirst(pending[g], h)
      /\ \A x \in Groups \ {g} : pending'[x] = pending[x]
  BY DEF RemoveRequestFromQueue, IInv, QueuesOK
<1>4. /\ pending'[g] \in Seq(Handles) /\ NoDup(pending'[g])
      /\ ToSet(pending'[g]) = ToSet(pending[g]) \ {h}
  <2>1. pending[g] \in Seq(Handles) /\ NoDup(pending[g])
    BY DEF IInv, QueuesOK
  <2>2. QED
    BY <1>3, <2>1, RemoveFirstList
<1>5. QueuesOK'
  <2>1. pending' \in [Groups -> Seq(Handles)]
    BY <1>3, <1>4 DEF RemoveRequestFromQueue, IInv, QueuesOK
  <2>2. \A x \in Groups : NoDup(pending'[x])
    BY <1>3, <1>4 DEF IInv, QueuesOK
  <2>3. \A x \in Groups, k \in Handles :
           k \in ToSet(pending'[x]) <=> request'[k].state = "pending" /\ request'[k].group = x
    <3>1. r.state # "pending"
      BY DEF NotPending
    <3>2. \A x \in Groups : h \notin ToSet(pending'[x])
      BY <1>3, <1>4 DEF IInv, QueuesOK
    <3>3. \A x \in Groups : \A k \in Handles \ {h} : k \in ToSet(pending'[x]) <=> k \in ToSet(pending[x])
      BY <1>3, <1>4
    <3>4. \A x \in Groups : \A k \in Handles \ {h} :
             k \in ToSet(pending'[x]) <=> request'[k].state = "pending" /\ request'[k].group = x
      BY <1>1, <3>3 DEF IInv, QueuesOK
    <3>5. request'[h].state # "pending"
      BY <1>1, <3>1
    <3>6. QED
      BY <3>2, <3>4, <3>5
  <2>4. QED
    BY <2>1, <2>2, <2>3 DEF QueuesOK
<1>6. QED
  BY <1>1, <1>2, <1>3, <1>5

LEMMA CallbackResultType ==
    ASSUME IInv, NEW h \in Handles, NEW rv \in Results
    PROVE  /\ CallbackResult(request[h], rv) \in NotPending
           /\ CallbackResult(request[h], rv).state = "callback"
           /\ CallbackResult(request[h], rv).group = request[h].group
BY DEF CallbackResult, NotPending, IInv, RequestTypes

LEMMA ProcessPendingRequestStep ==
    ASSUME IInv, ProcessPendingRequest
    PROVE  IInv'
<1> DEFINE c == Head(calls)
           g == c.group
           h == Head(pending[g])
           r == CallbackResult(request[h], c.rv)
<1>1. /\ RemoveRequestFromQueue(g, h)
      /\ CleanupBackupJob(g, pending'[g] = <<>>)
      /\ group_map' = IF IsEmpty(g, idle[g], pending'[g]) THEN group_map \ {g} ELSE group_map
      /\ InvokeUserCallbackLater(h, c.rv)
      /\ calls' = Tail(calls)
      /\ Running("ProcessPendingRequest")
      /\ UNCHANGED <<jobs, preconnects, idle, active, idle_count, connecting,
                     handed_out, generation, socket, pool_id>>
  BY DEF ProcessPendingRequest
<1>2. /\ g \in group_map /\ g \in Groups /\ c.rv \in {"OK", "ERROR"} /\ pending[g] # <<>>
      /\ Tail(calls) = <<>> \/ Tail(calls) = <<Stalled>>
  BY <1>1, CallShapes DEF IInv, GroupsOK
<1> HIDE DEF g, c
<1>3. h \in Handles /\ request[h].state = "pending" /\ request[h].group = g
  BY <1>2, TailList DEF IInv, QueuesOK
<1>4. /\ request' = [request EXCEPT ![h] = r]
      /\ posted' = [posted EXCEPT ![h] = @ + 1]
  BY <1>1, <1>3 DEF InvokeUserCallbackLater, IInv, RequestTypes
<1>5. r \in NotPending /\ r.state = "callback" /\ r.group = g
  BY <1>2, <1>3, CallbackResultType DEF Results
<1> HIDE DEF h, r
<1>6. /\ RequestTypes' /\ QueuesOK'
      /\ request'[h] = r /\ \A k \in Handles \ {h} : request'[k] = request[k]
      /\ \A x \in Groups \ {g} : pending'[x] = pending[x]
  BY <1>1, <1>2, <1>3, <1>4, <1>5, LeaveQueue
<1>7. SocketsOK' /\ LimitsRespected'
  BY <1>1 DEF IInv, SocketsOK, SocketTypes, SocketHasOneOwner, NoStaleReuse, SocketBornInPool,
              IdleSockets, Owners, LimitsRespected, TotalSockets, NumActiveSocketSlots
<1>8. backup' \in [Groups -> BOOLEAN] /\ \A x \in Groups : backup'[x] => backup[x]
  BY <1>1, Zenon DEF CleanupBackupJob, IInv, JobsOK
<1>9. JobsOK'
  <2>1. preconnects' \in [Groups -> Nat] /\ \A x \in Groups : preconnects'[x] <= preconnects[x]
    BY <1>1 DEF IInv, JobsOK
  <2>2. QED
    BY <1>1, <1>8, <2>1, KeepJobs DEF IInv
<1>10. ActiveOK'
  <2>1. \A k \in Handles : SameHold(k)
    BY <1>1, <1>3, <1>5, <1>6 DEF SameHold
  <2>2. QED
    BY <1>1, <2>1, KeepActive DEF IInv
<1>11. RequestsOK'
  <2>1. \A k \in Handles : request[k].state = "pending" /\ socket[k] # None => k = h
    BY DEF IInv, RequestsOK, h, g, c
  <2>2. ASSUME NEW k \in Handles
        PROVE  /\ request'[k].state = "free" => socket'[k] = None
               /\ request'[k].state # "free" => request'[k].group \in Groups
               /\ request'[k].state = "initialized" => socket'[k] # None
               /\ ~(request'[k].state = "pending" /\ socket'[k] # None)
    <3>1. CASE k = h
      BY <1>2, <1>5, <1>6, <3>1
    <3>2. CASE k # h
      BY <1>1, <1>6, <2>1, <3>2 DEF IInv, RequestsOK
    <3>3. QED
      BY <3>1, <3>2
  <2>3. QED
    BY <2>2 DEF RequestsOK
<1>12. PostedOK'
  <2>1. posted' \in [Handles -> Nat] /\ posted'[h] = posted[h] + 1
        /\ \A k \in Handles \ {h} : posted'[k] = posted[k]
    BY <1>3, <1>4 DEF IInv, PostedOK
  <2>2. posted[h] \in Nat
    BY <1>3 DEF IInv, PostedOK
  <2>3. CallbacksScheduled'
    BY <1>6, <2>1, <2>2 DEF IInv, PostedOK, CallbacksScheduled
  <2>4. QED
    BY <2>1, <2>3 DEF PostedOK
<1>13. CallsOK'
  BY <1>1, <1>2 DEF CallsOK
<1>14. GroupsOK'
  <2>1. group_map' \subseteq Groups
    BY <1>1 DEF IInv, GroupsOK
  <2>2. ASSUME NEW x \in Groups \ group_map'
        PROVE  /\ active'[x] = 0 /\ idle'[x] = {} /\ jobs'[x] = 0
               /\ pending'[x] = <<>> /\ ~backup'[x]
    <3>1. CASE x = g
      <4>1. IsEmpty(g, idle[g], pending'[g])
        BY <1>1, <1>2, <2>2, <3>1
      <4>2. jobs[g] = 0 => ~backup[g]
        BY <1>2 DEF IInv, JobsOK, BackupTimerHasJob
      <4>3. QED
        BY <1>1, <1>2, <1>8, <3>1, <4>1, <4>2 DEF IsEmpty
    <3>2. CASE x # g
      <4>1. x \notin group_map
        BY <1>1, <2>2, <3>2
      <4>2. QED
        BY <1>1, <1>6, <1>8, <3>2, <4>1 DEF IInv, GroupsOK
    <3>3. QED
      BY <3>1, <3>2
  <2>3. QED
    BY <2>1, <2>2 DEF GroupsOK
<1>15. QED
  BY <1>6, <1>7, <1>9, <1>10, <1>11, <1>12, <1>13, <1>14 DEF IInv

LEMMA CheckForStalledStep ==
    ASSUME IInv, CheckForStalledSocketGroups
    PROVE  IInv'
<1>1. /\ Running("CheckForStalledSocketGroups")
      /\ UNCHANGED <<pending, generation, request, posted>>
  BY DEF CheckForStalledSocketGroups, clientVars
<1>2. ~Running("ProcessPendingRequest") /\ Tail(calls) = <<>>
  BY <1>1, CallShapes DEF Running, IInv
<1>3. CASE UNCHANGED groupVars /\ (calls' = Tail(calls) \/ \E g \in group_map : calls' = <<Slot(g)>> \o Tail(calls))
  <2>1. UNCHANGED <<group_map, jobs, preconnects, idle, active, backup,
                    idle_count, connecting, handed_out, socket, pool_id>>
    BY <1>3 DEF groupVars
  <2>2. SocketsOK' /\ JobsOK' /\ LimitsRespected'
    BY <1>1, <2>1, QuietPool
  <2>3. RequestTypes' /\ QueuesOK' /\ RequestsOK' /\ PostedOK' /\ ActiveOK'
    BY <1>1, <1>2, <2>1, QuietClients
  <2>4. GroupsOK'
    BY <1>1, <2>1 DEF IInv, GroupsOK
  <2>5. calls' = <<>> \/ \E g \in group_map' : calls' = <<Slot(g)>>
    BY <1>2, <1>3, <2>1, JoinSmall
  <2>6. CallsOK'
    BY <2>5 DEF CallsOK
  <2>7. QED
    BY <2>2, <2>3, <2>4, <2>6 DEF IInv
<1>4. CASE \E g \in TopStalledGroups, x \in Groups : \E s \in idle[x] :
              /\ ReachedMaxSocketsLimit
              /\ idle' = [idle EXCEPT ![x] = @ \ {s}]
              /\ idle_count' = idle_count - 1
              /\ group_map' = IF IsEmpty(x, idle'[x], pending[x]) THEN group_map \ {x} ELSE group_map
              /\ calls' = <<Slot(g)>> \o Tail(calls)
              /\ UNCHANGED <<jobs, preconnects, active, backup, connecting,
                             handed_out, socket, pool_id>>
  <2>0. PICK g \in TopStalledGroups, x \in Groups : \E s \in idle[x] :
              /\ idle' = [idle EXCEPT ![x] = @ \ {s}]
              /\ idle_count' = idle_count - 1
              /\ group_map' = IF IsEmpty(x, idle'[x], pending[x]) THEN group_map \ {x} ELSE group_map
              /\ calls' = <<Slot(g)>> \o Tail(calls)
              /\ UNCHANGED <<jobs, preconnects, active, backup, connecting,
                             handed_out, socket, pool_id>>
    BY <1>4
  <2>1. PICK s \in idle[x] :
              /\ idle' = [idle EXCEPT ![x] = @ \ {s}]
              /\ idle_count' = idle_count - 1
              /\ group_map' = IF IsEmpty(x, idle'[x], pending[x]) THEN group_map \ {x} ELSE group_map
              /\ calls' = <<Slot(g)>> \o Tail(calls)
              /\ UNCHANGED <<jobs, preconnects, active, backup, connecting,
                             handed_out, socket, pool_id>>
    BY <2>0
  <2>2. g \in group_map /\ pending[g] # <<>>
    BY DEF TopStalledGroups, StalledGroups
  <2>3. g \in group_map'
    BY <2>1, <2>2 DEF IsEmpty
  <2>4. /\ {s} \in SUBSET IdleSockets /\ idle' = Left({s}) /\ Cardinality({s}) = 1
    <3>1. {s} \in SUBSET idle[x]
      OBVIOUS
    <3>2. QED
      BY <2>1, <3>1, LoseInGroup, FS_Singleton DEF IInv
  <2>5. SocketsOK'
    BY <1>1, <2>1, <2>4, LoseSockets DEF IInv
  <2>6. JobsOK'
    BY <2>1 DEF IInv, JobsOK, BackupTimerHasJob, ConnectJobs
  <2>7. RequestTypes' /\ QueuesOK' /\ RequestsOK' /\ PostedOK' /\ ActiveOK'
    BY <1>1, <1>2, <2>1, QuietClients
  <2>8. \A y \in Groups : idle'[y] = idle[y] \ {s}
    BY <2>4 DEF Left
  <2>9. LimitsRespected'
    <3>1. PoolOK
      BY DEF IInv, PoolOK
    <3>2. \A y \in Groups : Cardinality(idle'[y]) \in Nat /\ Cardinality(idle'[y]) <= Cardinality(idle[y])
      BY <2>8, IdleSizes DEF IInv
    <3>3. IgnoreLimits = {} => /\ handed_out + connecting + idle_count <= MaxSockets
                               /\ active[x] + jobs[x] + Cardinality(idle[x]) <= MaxSocketsPerGroup
      BY DEF IInv, LimitsRespected, TotalSockets, NumActiveSocketSlots
    <3>4. IgnoreLimits = {} => /\ handed_out' + connecting' + idle_count' <= MaxSockets
                               /\ active'[x] + jobs'[x] + Cardinality(idle'[x]) <= MaxSocketsPerGroup
      <4>1. UNCHANGED <<handed_out, connecting, active, jobs>> /\ idle_count' = idle_count - 1
        BY <2>1
      <4>2. handed_out \in Nat /\ connecting \in Nat /\ idle_count \in Nat /\ MaxSockets \in Nat
            /\ active[x] \in Nat /\ jobs[x] \in Nat /\ Cardinality(idle[x]) \in Nat
            /\ MaxSocketsPerGroup \in Nat
        BY <3>1, Numbers
      <4>3. Cardinality(idle'[x]) \in Nat /\ Cardinality(idle'[x]) <= Cardinality(idle[x])
        BY <3>2
      <4>4. QED
        BY <3>3, <4>1, <4>2, <4>3
    <3>5. QED
      BY <2>1, <3>1, <3>2, <3>4, KeepLimits
  <2>10. GroupsOK'
    <3>1. jobs[x] = 0 => ~backup[x]
      BY DEF IInv, JobsOK, BackupTimerHasJob
    <3>2. QED
      BY <1>1, <2>1, <2>8, <3>1 DEF IInv, GroupsOK, IsEmpty
  <2>11. CallsOK'
    <3>1. calls' = <<Slot(g)>>
      BY <1>2, <2>1, JoinSmall
    <3>2. QED
      BY <2>3, <3>1 DEF CallsOK
  <2>12. QED
    BY <2>5, <2>6, <2>7, <2>9, <2>10, <2>11 DEF IInv
<1>5. TopStalledGroups \subseteq group_map
  BY DEF TopStalledGroups, StalledGroups
<1>6. QED
  BY <1>3, <1>4, <1>5 DEF CheckForStalledSocketGroups

(* A request that was answered, or a socket in use, is given up or told. *)
LEMMA LeaveAnswered ==
    ASSUME IInv, NEW h \in Handles, request[h].state \in {"callback", "initialized"}, UNCHANGED pending,
           NEW r \in [state : {"free", "initialized"}, group : Groups \cup {None},
                      priority : Priorities \cup {0}, result : Results],
           request' = [request EXCEPT ![h] = r]
    PROVE  /\ RequestTypes' /\ QueuesOK'
           /\ request'[h] = r /\ \A k \in Handles \ {h} : request'[k] = request[k]
<1>1. request'[h] = r /\ \A k \in Handles \ {h} : request'[k] = request[k]
  BY DEF IInv, RequestTypes
<1>2. RequestTypes'
  <2>1. r \in [state : {"free", "pending", "callback", "initialized"}, group : Groups \cup {None},
               priority : Priorities \cup {0}, result : Results]
    OBVIOUS
  <2>2. QED
    BY <2>1 DEF IInv, RequestTypes
<1>3. r.state # "pending"
  OBVIOUS
<1>4. QueuesOK'
  BY <1>1, <1>3 DEF IInv, QueuesOK
<1>5. QED
  BY <1>1, <1>2, <1>4

LEMMA FreeType ==
    /\ Free \in [state : {"free", "initialized"}, group : Groups \cup {None},
                 priority : Priorities \cup {0}, result : Results]
    /\ Free \in NotPending
    /\ Free.state = "free"
BY DEF Free, Request, NotPending, Results

LEMMA ReleaseSocketStep ==
    ASSUME IInv, NEW h \in Handles, NEW connected \in BOOLEAN, calls = <<>>,
           request[h].state \in {"callback", "initialized"}, socket[h] # None,
           ReleaseSocket(h, connected)
    PROVE  IInv'
<1> DEFINE g == request[h].group
           s == socket[h]
           can_reuse == CanReuse(h, connected)
<1>1. /\ handed_out' = handed_out - 1
      /\ active' = [active EXCEPT ![g] = @ - 1]
      /\ can_reuse => AddIdleSocket(idle, idle_count, g, s)
      /\ ~can_reuse => UNCHANGED <<idle, idle_count>>
      /\ calls' = AfterRelease(g, can_reuse)
      /\ request' = [request EXCEPT ![h] = Free]
      /\ socket' = [socket EXCEPT ![h] = None]
      /\ pool_id' = [pool_id EXCEPT ![h] = -1]
      /\ UNCHANGED <<group_map, pending, jobs, preconnects, backup, connecting, generation, posted>>
  BY DEF ReleaseSocket
<1>2. g \in Groups
  BY DEF IInv, RequestsOK
<1>3. can_reuse => pool_id[h] = generation
  BY DEF CanReuse
<1>4. s \in Socket /\ s.born = pool_id[h]
  BY DEF IInv, SocketsOK, SocketTypes, SocketBornInPool
<1> HIDE DEF g, s, can_reuse
<1>5. /\ RequestTypes' /\ QueuesOK'
      /\ request'[h] = Free /\ \A k \in Handles \ {h} : request'[k] = request[k]
  BY <1>1, FreeType, LeaveAnswered
<1>6. /\ socket'[h] = None
      /\ \A k \in Handles \ {h} : socket'[k] = socket[k] /\ pool_id'[k] = pool_id[k]
  BY <1>1 DEF IInv, SocketsOK, SocketTypes
<1>7. socket' \in [Handles -> Socket \cup {None}] /\ pool_id' \in [Handles -> Int]
  <2>1. -1 \in Int
    OBVIOUS
  <2>2. QED
    BY <1>1, <2>1 DEF IInv, SocketsOK, SocketTypes
<1>8. handed_out' \in Nat /\ Counts(handed_out, Owners)'
  <2>1. Owners' = Owners \ {h} /\ h \in Owners
    BY <1>6 DEF Owners
  <2>2. handed_out - 1 \in Nat /\ Counts(handed_out - 1, Owners \ {h})
    BY <2>1, CountRemove DEF IInv, SocketsOK
  <2>3. QED
    BY <1>1, <2>1, <2>2
<1>9. ActiveOK' /\ active'[g] = active[g] - 1 /\ \A x \in Groups \ {g} : active'[x] = active[x]
  <2>1. \A k \in Handles \ {h} : SameHold(k)
    BY <1>5, <1>6 DEF SameHold
  <2>2. ActiveOK' /\ active'[g] = active[g] - 1
    BY <1>1, <1>2, <1>6, <2>1, RemoveActive DEF IInv, g
  <2>3. QED
    BY <1>1, <1>2, <2>2 DEF IInv, ActiveOK
<1>10. g \in group_map
  <2>1. active[g] # 0
    BY <1>2, <1>9 DEF IInv, ActiveOK
  <2>2. QED
    BY <1>2, <2>1 DEF IInv, GroupsOK
<1>11. JobsOK' /\ PostedOK'
  <2>1. JobsOK'
    BY <1>1 DEF IInv, JobsOK, BackupTimerHasJob, ConnectJobs
  <2>2. PostedOK'
    BY <1>1, <1>5, FreeType DEF IInv, PostedOK, CallbacksScheduled
  <2>3. QED
    BY <2>1, <2>2
<1>12. RequestsOK'
  <2>1. ~Running("ProcessPendingRequest")
    BY DEF Running
  <2>2. \A k \in Handles \ {h} : ~(request[k].state = "pending" /\ socket[k] # None)
    BY <2>1 DEF IInv, RequestsOK
  <2>3. request'[h].state = "free"
    BY <1>5, FreeType
  <2>4. QED
    BY <1>5, <1>6, <2>2, <2>3 DEF IInv, RequestsOK
<1>13. PoolOK
  BY DEF IInv, PoolOK
<1>14. IgnoreLimits = {} => /\ handed_out + connecting + idle_count <= MaxSockets
                            /\ active[g] + jobs[g] + Cardinality(idle[g]) <= MaxSocketsPerGroup
  BY <1>2 DEF IInv, LimitsRespected, TotalSockets, NumActiveSocketSlots
<1> DEFINE none == {}
<1>15. /\ handed_out \in Nat /\ connecting \in Nat /\ idle_count \in Nat /\ MaxSockets \in Nat
       /\ active[g] \in Nat /\ jobs[g] \in Nat /\ Cardinality(idle[g]) \in Nat
       /\ MaxSocketsPerGroup \in Nat
       /\ handed_out' = handed_out - 1 /\ connecting' = connecting /\ jobs' = jobs
       /\ active'[g] = active[g] - 1
  BY <1>1, <1>2, <1>9, <1>13, Numbers
<1>16. CASE can_reuse
  <2>1. AddIdleSocket(idle, idle_count, g, s)
    BY <1>1, <1>16
  <2>2. idle' = [x \in Groups |-> IF x = g THEN (idle[x] \ none) \cup {s} ELSE idle[x] \ none]
    BY <1>2, <2>1 DEF AddIdleSocket, IInv, SocketsOK, SocketTypes
  <2>3. idle_count' = (idle_count - Cardinality(none)) + 1 /\ idle_count' = idle_count + 1
    BY <1>13, <2>1, Numbers, FS_EmptySet DEF AddIdleSocket
  <2>4. \A x \in Groups : \A t \in idle[x] : t.id # s.id
    BY DEF IInv, SocketsOK, SocketHasOneOwner, s
  <2>5. \A k \in Handles : socket'[k] # None =>
           socket'[k].id # s.id /\ socket'[k] = socket[k] /\ pool_id'[k] = pool_id[k]
    BY <1>6 DEF IInv, SocketsOK, SocketHasOneOwner, s
  <2>6. SocketsOK'
    <3>1. none \in SUBSET IdleSockets /\ s.born = generation /\ generation' = generation
      BY <1>1, <1>3, <1>4, <1>16
    <3> HIDE DEF none
    <3>2. QED
      BY <1>2, <1>4, <1>7, <1>8, <2>2, <2>3, <2>4, <2>5, <3>1, AddIdleSockets DEF IInv
  <2>7. idle'[g] = idle[g] \cup {s} /\ s \notin idle[g] /\ \A x \in Groups \ {g} : idle'[x] = idle[x]
    BY <1>2, <2>2, <2>4
  <2>8. Cardinality(idle'[g]) = Cardinality(idle[g]) + 1
    <3>1. IsFiniteSet(idle[g])
      BY <1>2, IdleSizes DEF IInv
    <3>2. QED
      BY <2>7, <3>1, FS_AddElement
  <2>9. LimitsRespected'
    <3>1. IgnoreLimits = {} => /\ handed_out' + connecting' + idle_count' <= MaxSockets
                               /\ active'[g] + jobs'[g] + Cardinality(idle'[g]) <= MaxSocketsPerGroup
      BY <1>14, <1>15, <2>3, <2>8, SMTT(30)
    <3>2. \A x \in Groups \ {g} : /\ active'[x] = active[x] /\ jobs'[x] = jobs[x]
                                   /\ Cardinality(idle'[x]) \in Nat
                                   /\ Cardinality(idle'[x]) <= Cardinality(idle[x])
      BY <1>1, <1>9, <1>13, <2>7, Numbers
    <3>3. QED
      BY <1>2, <1>13, <3>1, <3>2, KeepLimits
  <2>10. GroupsOK'
    BY <1>1, <1>9, <1>10, <2>7 DEF IInv, GroupsOK
  <2>11. CallsOK'
    <3>1. calls' = <<Slot(g), Stalled>>
      BY <1>1, <1>16 DEF AfterRelease
    <3>2. QED
      BY <1>1, <1>10, <3>1 DEF CallsOK
  <2>12. QED
    BY <1>5, <1>9, <1>11, <1>12, <2>6, <2>9, <2>10, <2>11 DEF IInv
<1>17. CASE ~can_reuse
  <2>1. UNCHANGED <<idle, idle_count>>
    BY <1>1, <1>17
  <2>2. SocketsOK'
    <3>1. SocketTypes'
      BY <1>1, <1>7, <1>8, <2>1 DEF IInv, SocketsOK, SocketTypes
    <3>2. SocketHasOneOwner'
      BY <1>6, <2>1 DEF IInv, SocketsOK, SocketHasOneOwner
    <3>3. NoStaleReuse' /\ SocketBornInPool' /\ Counts(idle_count, IdleSockets)'
      BY <1>1, <1>6, <2>1 DEF IInv, SocketsOK, NoStaleReuse, SocketBornInPool, IdleSockets
    <3>4. QED
      BY <1>8, <3>1, <3>2, <3>3 DEF SocketsOK
  <2>3. LimitsRespected'
    <3>1. IgnoreLimits = {} => /\ handed_out' + connecting' + idle_count' <= MaxSockets
                               /\ active'[g] + jobs'[g] + Cardinality(idle'[g]) <= MaxSocketsPerGroup
      <4>1. /\ idle_count' = idle_count /\ Cardinality(idle'[g]) = Cardinality(idle[g])
            /\ jobs'[g] = jobs[g]
        BY <1>15, <2>1
      <4>2. IgnoreLimits = {} => /\ (handed_out - 1) + connecting + idle_count <= MaxSockets
                                 /\ (active[g] - 1) + jobs[g] + Cardinality(idle[g]) <= MaxSocketsPerGroup
        BY <1>14, <1>15, SlotMoved
      <4>3. QED
        BY <1>15, <4>1, <4>2
    <3>2. \A x \in Groups \ {g} : /\ active'[x] = active[x] /\ jobs'[x] = jobs[x]
                                   /\ Cardinality(idle'[x]) \in Nat
                                   /\ Cardinality(idle'[x]) <= Cardinality(idle[x])
      BY <1>1, <1>9, <1>13, <2>1, Numbers
    <3>3. QED
      BY <1>2, <1>13, <3>1, <3>2, KeepLimits
  <2>4. GroupsOK'
    BY <1>1, <1>9, <1>10, <2>1 DEF IInv, GroupsOK
  <2>5. CallsOK'
    <3>1. calls' = <<Stalled>>
      BY <1>1, <1>17 DEF AfterRelease
    <3>2. QED
      BY <3>1 DEF CallsOK
  <2>6. QED
    BY <1>5, <1>9, <1>11, <1>12, <2>2, <2>3, <2>4, <2>5 DEF IInv
<1>18. QED
  BY <1>16, <1>17

LEMMA ResetInitializedStep ==
    ASSUME IInv, NEW h \in Handles, ResetInitialized(h)
    PROVE  IInv'
BY ReleaseSocketStep DEF ResetInitialized, IInv, RequestsOK

LEMMA CancelCallbackStep ==
    ASSUME IInv, NEW h \in Handles, CancelCallback(h)
    PROVE  IInv'
<1>1. calls = <<>> /\ request[h].state = "callback"
  BY DEF CancelCallback
<1>2. CASE socket[h] # None
  <2>1. PICK connected \in BOOLEAN : ReleaseSocket(h, connected /\ request[h].result = "OK")
    BY <1>2 DEF CancelCallback
  <2>2. QED
    BY <1>1, <1>2, <2>1, ReleaseSocketStep
<1>3. CASE socket[h] = None
  <2>1. /\ request' = [request EXCEPT ![h] = Free]
        /\ UNCHANGED <<group_map, jobs, preconnects, idle, active, backup, idle_count, connecting,
                       handed_out, socket, pool_id, pending, generation, posted, calls>>
    BY <1>3 DEF CancelCallback, groupVars
  <2>2. /\ RequestTypes' /\ QueuesOK'
        /\ request'[h] = Free /\ \A k \in Handles \ {h} : request'[k] = request[k]
    BY <1>1, <2>1, FreeType, LeaveAnswered
  <2>3. SocketsOK' /\ JobsOK' /\ LimitsRespected'
    BY <2>1, QuietPool
  <2>4. ActiveOK'
    <3>1. \A k \in Handles : SameHold(k)
      BY <1>3, <2>1, <2>2 DEF SameHold
    <3>2. QED
      BY <2>1, <3>1, KeepActive DEF IInv
  <2>5. RequestsOK'
    <3>1. ~Running("ProcessPendingRequest")
      BY <1>1 DEF Running
    <3>2. QED
      BY <1>3, <2>1, <2>2, <3>1, FreeType DEF IInv, RequestsOK
  <2>6. PostedOK'
    BY <2>1, <2>2, FreeType DEF IInv, PostedOK, CallbacksScheduled
  <2>7. GroupsOK' /\ CallsOK'
    BY <1>1, <2>1 DEF IInv, GroupsOK, CallsOK
  <2>8. QED
    BY <2>2, <2>3, <2>4, <2>5, <2>6, <2>7 DEF IInv
<1>4. QED
  BY <1>2, <1>3

LEMMA CancelPendingStep ==
    ASSUME IInv, NEW h \in Handles, CancelPending(h)
    PROVE  IInv'
<1> DEFINE g == request[h].group
<1>1. /\ calls = <<>> /\ request[h].state = "pending"
      /\ RemoveRequestFromQueue(g, h)
      /\ request' = [request EXCEPT ![h] = Free]
      /\ \/ /\ \E unused \in BOOLEAN : RemoveConnectJob(g, unused)
            /\ CleanupBackupJob(g, pending'[g] = <<>> \/ jobs'[g] = 0)
            /\ calls' = <<Stalled>>
         \/ /\ CleanupBackupJob(g, pending'[g] = <<>>)
            /\ UNCHANGED <<jobs, preconnects, connecting, calls>>
      /\ UNCHANGED <<group_map, idle, active, idle_count, handed_out,
                     generation, socket, pool_id, posted>>
  BY DEF CancelPending
<1>2. g \in Groups
  BY <1>1 DEF IInv, RequestsOK
<1>3. request[h].group = g
  OBVIOUS
<1> HIDE DEF g
<1>4. /\ RequestTypes' /\ QueuesOK'
      /\ request'[h] = Free /\ \A k \in Handles \ {h} : request'[k] = request[k]
      /\ \A x \in Groups \ {g} : pending'[x] = pending[x]
      /\ pending[g] # <<>>
  <2>1. Free \in NotPending
    BY FreeType
  <2>2. RemoveRequestFromQueue(g, h) /\ request' = [request EXCEPT ![h] = Free]
        /\ request[h].state = "pending"
    BY <1>1
  <2>3. /\ RequestTypes' /\ QueuesOK'
        /\ request'[h] = Free /\ \A k \in Handles \ {h} : request'[k] = request[k]
        /\ \A x \in Groups \ {g} : pending'[x] = pending[x]
    BY <1>2, <1>3, <2>1, <2>2, LeaveQueue, ZenonT(60)
  <2>4. h \in ToSet(pending[g])
    BY <1>2, <1>3, <2>2 DEF IInv, QueuesOK
  <2>5. pending[g] # <<>>
    BY <2>4, EmptyList
  <2>6. QED
    BY <2>3, <2>5
<1>5. ~Running("ProcessPendingRequest")
  BY <1>1 DEF Running
<1>6. socket[h] = None
  BY <1>1, <1>5 DEF IInv, RequestsOK
<1>7. g \in group_map
  BY <1>2, <1>4 DEF IInv, GroupsOK
<1>8. SocketsOK'
  BY <1>1 DEF IInv, SocketsOK, SocketTypes, SocketHasOneOwner, NoStaleReuse, SocketBornInPool,
              IdleSockets, Owners
<1>9. ActiveOK'
  <2>1. \A k \in Handles : SameHold(k)
    BY <1>1, <1>4, <1>6 DEF SameHold
  <2>2. QED
    BY <1>1, <2>1, KeepActive DEF IInv
<1>10. RequestsOK'
  BY <1>1, <1>4, <1>5, <1>6, FreeType DEF IInv, RequestsOK
<1>11. PostedOK'
  BY <1>1, <1>4, FreeType DEF IInv, PostedOK, CallbacksScheduled
<1>12. CallsOK'
  BY <1>1 DEF CallsOK
<1>13. PoolOK
  BY DEF IInv, PoolOK
<1>14. IgnoreLimits = {} => /\ handed_out + connecting + idle_count <= MaxSockets
                            /\ active[g] + jobs[g] + Cardinality(idle[g]) <= MaxSocketsPerGroup
  BY <1>2 DEF IInv, LimitsRespected, TotalSockets, NumActiveSocketSlots
<1>15. \A x \in Groups : Cardinality(idle'[x]) \in Nat /\ Cardinality(idle'[x]) <= Cardinality(idle[x])
  BY <1>1, <1>13, Numbers
<1>16. CASE /\ \E unused \in BOOLEAN : RemoveConnectJob(g, unused)
            /\ CleanupBackupJob(g, pending'[g] = <<>> \/ jobs'[g] = 0)
  <2>1. PICK unused \in BOOLEAN : RemoveConnectJob(g, unused)
    BY <1>16
  <2>2. backup' = [backup EXCEPT ![g] = @ /\ ~(pending'[g] = <<>> \/ jobs'[g] = 0)]
    BY <1>16 DEF CleanupBackupJob
  <2>3. /\ backup' \in [Groups -> BOOLEAN] /\ \A x \in Groups : backup'[x] => backup[x]
        /\ jobs'[g] = 0 => ~backup'[g]
    BY <1>2, <2>2, Zenon DEF IInv, JobsOK
  <2>4. JobsOK' /\ jobs'[g] = jobs[g] - 1 /\ connecting' = connecting - 1
        /\ \A x \in Groups \ {g} : jobs'[x] = jobs[x]
    BY <1>2, <2>1, <2>3, RemoveJob DEF IInv
  <2>5. LimitsRespected'
    <3>1. /\ handed_out \in Nat /\ connecting \in Nat /\ idle_count \in Nat /\ MaxSockets \in Nat
          /\ active[g] \in Nat /\ jobs[g] \in Nat /\ Cardinality(idle[g]) \in Nat
          /\ MaxSocketsPerGroup \in Nat
      BY <1>2, <1>13, Numbers
    <3>2. UNCHANGED <<handed_out, idle_count, active, idle>>
      BY <1>1
    <3>3. IgnoreLimits = {} => /\ handed_out' + connecting' + idle_count' <= MaxSockets
                               /\ active'[g] + jobs'[g] + Cardinality(idle'[g]) <= MaxSocketsPerGroup
      BY <1>14, <2>4, <3>1, <3>2
    <3>4. QED
      BY <1>2, <1>13, <1>15, <2>4, <3>2, <3>3, KeepLimits
  <2>6. GroupsOK'
    BY <1>1, <1>4, <1>7, <2>3, <2>4 DEF IInv, GroupsOK
  <2>7. QED
    BY <1>4, <1>8, <1>9, <1>10, <1>11, <1>12, <2>4, <2>5, <2>6 DEF IInv
<1>17. CASE /\ CleanupBackupJob(g, pending'[g] = <<>>)
            /\ UNCHANGED <<jobs, preconnects, connecting, calls>>
  <2>1. backup' = [backup EXCEPT ![g] = @ /\ ~(pending'[g] = <<>>)]
    BY <1>17 DEF CleanupBackupJob
  <2>2. backup' \in [Groups -> BOOLEAN] /\ \A x \in Groups : backup'[x] => backup[x]
    BY <1>2, <2>1, Zenon DEF IInv, JobsOK
  <2>3. JobsOK'
    <3>1. preconnects' \in [Groups -> Nat] /\ \A x \in Groups : preconnects'[x] <= preconnects[x]
      BY <1>17 DEF IInv, JobsOK
    <3>2. QED
      BY <1>17, <2>2, <3>1, KeepJobs DEF IInv
  <2>4. LimitsRespected'
    BY <1>1, <1>17 DEF IInv, LimitsRespected, TotalSockets, NumActiveSocketSlots
  <2>5. GroupsOK'
    BY <1>1, <1>4, <1>7, <1>17, <2>2 DEF IInv, GroupsOK
  <2>6. QED
    BY <1>4, <1>8, <1>9, <1>10, <1>11, <1>12, <2>3, <2>4, <2>5 DEF IInv
<1>18. QED
  BY <1>1, <1>16, <1>17

(***************************************************************************)
(* OnConnectJobComplete, called with nothing left to do afterwards: the    *)
(* socket goes to the first request of the group's queue or becomes idle.  *)
(***************************************************************************)
LEMMA ConnectJobCompleteStep ==
    ASSUME IInv, NEW g \in Groups, NEW unused \in BOOLEAN, NEW result \in {"OK", "ERROR"},
           ~Running("ProcessPendingRequest"),
           OnConnectJobComplete(g, unused, result, <<>>)
    PROVE  IInv'
<1>1. RemoveConnectJob(g, unused) /\ UNCHANGED <<group_map, generation>>
  BY DEF OnConnectJobComplete
<1>2. PoolOK
  BY DEF IInv, PoolOK
<1>3. IgnoreLimits = {} => /\ handed_out + connecting + idle_count <= MaxSockets
                           /\ active[g] + jobs[g] + Cardinality(idle[g]) <= MaxSocketsPerGroup
  BY DEF IInv, LimitsRespected, TotalSockets, NumActiveSocketSlots
<1>4. /\ handed_out \in Nat /\ connecting \in Nat /\ idle_count \in Nat /\ MaxSockets \in Nat
      /\ active[g] \in Nat /\ jobs[g] \in Nat /\ Cardinality(idle[g]) \in Nat
      /\ MaxSocketsPerGroup \in Nat
  BY <1>2, Numbers
<1>5. g \in group_map
  <2>1. jobs[g] # 0
    BY <1>1, <1>4 DEF RemoveConnectJob, IInv, JobsOK
  <2>2. QED
    BY <2>1 DEF IInv, GroupsOK
<1>6. CASE pending[g] # <<>>
  <2> DEFINE h == Head(pending[g])
             r == CallbackResult(request[h], result)
  <2>1. /\ RemoveRequestFromQueue(g, h)
        /\ CleanupBackupJob(g, pending'[g] = <<>> \/ jobs'[g] = 0)
        /\ InvokeUserCallbackLater(h, result)
        /\ \/ /\ \E s \in NewSockets : HandOutSocket(g, h, s)
              /\ calls' = <<>>
           \/ /\ calls' = <<Slot(g), Stalled>> \o <<>>
              /\ UNCHANGED <<active, handed_out, socket, pool_id>>
        /\ UNCHANGED <<idle, idle_count>>
    BY <1>6 DEF OnConnectJobComplete
  <2>2. h \in Handles /\ request[h].state = "pending" /\ request[h].group = g
    BY <1>6, TailList DEF IInv, QueuesOK
  <2>3. /\ request' = [request EXCEPT ![h] = r] /\ posted' = [posted EXCEPT ![h] = @ + 1]
    BY <2>1, <2>2 DEF InvokeUserCallbackLater, IInv, RequestTypes
  <2>4. r \in NotPending /\ r.state = "callback" /\ r.group = g
    BY <2>2, CallbackResultType DEF Results
  <2> HIDE DEF h, r
  <2>5. /\ RequestTypes' /\ QueuesOK'
        /\ request'[h] = r /\ \A k \in Handles \ {h} : request'[k] = request[k]
        /\ \A x \in Groups \ {g} : pending'[x] = pending[x]
    BY <2>1, <2>2, <2>3, <2>4, LeaveQueue
  <2>6. socket[h] = None
    BY <2>2 DEF IInv, RequestsOK
  <2>7. backup' = [backup EXCEPT ![g] = @ /\ ~(pending'[g] = <<>> \/ jobs'[g] = 0)]
    BY <2>1 DEF CleanupBackupJob
  <2>8. /\ backup' \in [Groups -> BOOLEAN] /\ \A x \in Groups : backup'[x] => backup[x]
        /\ jobs'[g] = 0 => ~backup'[g]
    BY <2>7, Zenon DEF IInv, JobsOK
  <2>9. JobsOK' /\ jobs'[g] = jobs[g] - 1 /\ connecting' = connecting - 1
        /\ \A x \in Groups \ {g} : jobs'[x] = jobs[x]
    BY <1>1, <2>8, RemoveJob DEF IInv
  <2>10. PostedOK'
    <3>1. posted' \in [Handles -> Nat] /\ posted'[h] = posted[h] + 1 /\ posted[h] \in Nat
          /\ \A k \in Handles \ {h} : posted'[k] = posted[k]
      BY <2>2, <2>3 DEF IInv, PostedOK
    <3>2. CallbacksScheduled'
      BY <2>5, <3>1 DEF IInv, PostedOK, CallbacksScheduled
    <3>3. QED
      BY <3>1, <3>2 DEF PostedOK
  <2>11. \A x \in Groups \ {g} : /\ jobs'[x] = jobs[x] /\ Cardinality(idle'[x]) \in Nat
                                  /\ Cardinality(idle'[x]) <= Cardinality(idle[x])
    BY <1>2, <2>1, <2>9, Numbers
  <2>12. CASE \E s \in NewSockets : HandOutSocket(g, h, s) /\ calls' = <<>>
    <3>1. PICK s \in NewSockets : HandOutSocket(g, h, s)
      BY <2>12
    <3> DEFINE none == {}
    <3>2. /\ none \in SUBSET IdleSockets /\ s \in NewSockets \cup none
          /\ idle' = Left(none) /\ idle_count' = idle_count - Cardinality(none)
      <4>1. idle' = Left(none)
        BY <2>1 DEF Left, IInv, SocketsOK, SocketTypes
      <4>2. QED
        BY <1>4, <2>1, <4>1, FS_EmptySet
    <3> HIDE DEF none
    <3>3. SocketsOK' /\ s # None
      BY <1>1, <2>2, <2>6, <3>1, <3>2, HandOutSockets DEF IInv, HandOutSocket
    <3>4. socket'[h] # None /\ \A k \in Handles \ {h} : socket'[k] = socket[k]
      BY <2>2, <3>1, <3>3 DEF HandOutSocket, IInv, SocketsOK, SocketTypes
    <3>5. /\ active' = [active EXCEPT ![g] = @ + 1] /\ handed_out' = handed_out + 1
          /\ active'[g] = active[g] + 1 /\ \A x \in Groups \ {g} : active'[x] = active[x]
      BY <3>1 DEF HandOutSocket, IInv, ActiveOK
    <3>6. ActiveOK'
      <4>1. \A k \in Handles \ {h} : SameHold(k)
        BY <2>5, <3>4 DEF SameHold
      <4>2. request'[h].group = g
        BY <2>4, <2>5
      <4>3. QED
        BY <2>2, <2>6, <3>4, <3>5, <4>1, <4>2, AddActive DEF IInv
    <3>7. RequestsOK'
      BY <2>4, <2>5, <3>4 DEF IInv, RequestsOK
    <3>8. LimitsRespected'
      <4>1. UNCHANGED <<idle, idle_count>>
        BY <2>1
      <4>2. IgnoreLimits = {} => /\ handed_out' + connecting' + idle_count' <= MaxSockets
                                 /\ active'[g] + jobs'[g] + Cardinality(idle'[g]) <= MaxSocketsPerGroup
        BY <1>3, <1>4, <2>9, <3>5, <4>1
      <4>3. QED
        BY <1>2, <2>11, <3>5, <4>2, KeepLimits
    <3>9. GroupsOK'
      BY <1>1, <1>5, <2>1, <2>5, <2>8, <2>9, <3>5 DEF IInv, GroupsOK
    <3>10. CallsOK'
      BY <2>12 DEF CallsOK
    <3>11. QED
      BY <2>5, <2>9, <2>10, <3>3, <3>6, <3>7, <3>8, <3>9, <3>10 DEF IInv
  <2>13. CASE /\ calls' = <<Slot(g), Stalled>> \o <<>>
              /\ UNCHANGED <<active, handed_out, socket, pool_id>>
    <3>1. SocketsOK'
      BY <1>1, <2>1, <2>13 DEF IInv, SocketsOK, SocketTypes, SocketHasOneOwner, NoStaleReuse,
                               SocketBornInPool, IdleSockets, Owners
    <3>2. ActiveOK'
      <4>1. \A k \in Handles : SameHold(k)
        BY <2>5, <2>6, <2>13 DEF SameHold
      <4>2. QED
        BY <2>13, <4>1, KeepActive DEF IInv
    <3>3. RequestsOK'
      BY <2>4, <2>5, <2>13 DEF IInv, RequestsOK
    <3>4. LimitsRespected'
      <4>1. UNCHANGED <<idle, idle_count, active, handed_out>>
        BY <2>1, <2>13
      <4>2. IgnoreLimits = {} => /\ handed_out' + connecting' + idle_count' <= MaxSockets
                                 /\ active'[g] + jobs'[g] + Cardinality(idle'[g]) <= MaxSocketsPerGroup
        BY <1>3, <1>4, <2>9, <4>1
      <4>3. QED
        BY <1>2, <2>11, <4>1, <4>2, KeepLimits
    <3>5. GroupsOK'
      BY <1>1, <1>5, <2>1, <2>5, <2>8, <2>9, <2>13 DEF IInv, GroupsOK
    <3>6. CallsOK'
      <4>1. calls' = <<Slot(g), Stalled>>
        BY <2>13, JoinSmall
      <4>2. QED
        BY <1>1, <1>5, <4>1 DEF CallsOK
    <3>7. QED
      BY <2>5, <2>9, <2>10, <3>1, <3>2, <3>3, <3>4, <3>5, <3>6 DEF IInv
  <2>14. QED
    BY <2>1, <2>12, <2>13
<1>7. CASE pending[g] = <<>>
  <2>1. /\ CleanupBackupJob(g, jobs'[g] = 0)
        /\ IF result = "OK"
           THEN \E s \in NewSockets : AddIdleSocket(idle, idle_count, g, s)
           ELSE UNCHANGED <<idle, idle_count>>
        /\ calls' = <<Slot(g), Stalled>> \o <<>>
        /\ UNCHANGED <<pending, active, handed_out, socket, pool_id, request, posted>>
    BY <1>7 DEF OnConnectJobComplete
  <2>2. backup' = [backup EXCEPT ![g] = @ /\ ~(jobs'[g] = 0)]
    BY <2>1 DEF CleanupBackupJob
  <2>3. /\ backup' \in [Groups -> BOOLEAN] /\ \A x \in Groups : backup'[x] => backup[x]
        /\ jobs'[g] = 0 => ~backup'[g]
    BY <2>2, Zenon DEF IInv, JobsOK
  <2>4. JobsOK' /\ jobs'[g] = jobs[g] - 1 /\ connecting' = connecting - 1
        /\ \A x \in Groups \ {g} : jobs'[x] = jobs[x]
    BY <1>1, <2>3, RemoveJob DEF IInv
  <2>5. RequestTypes' /\ QueuesOK' /\ RequestsOK' /\ PostedOK' /\ ActiveOK'
    BY <2>1, QuietClients
  <2>6. CallsOK'
    <3>1. calls' = <<Slot(g), Stalled>>
      BY <2>1, JoinSmall
    <3>2. QED
      BY <1>1, <1>5, <3>1 DEF CallsOK
  <2>7. CASE UNCHANGED <<idle, idle_count>>
    <3>1. SocketsOK'
      BY <1>1, <2>1, <2>7 DEF IInv, SocketsOK, SocketTypes, SocketHasOneOwner, NoStaleReuse,
                              SocketBornInPool, IdleSockets, Owners
    <3>2. LimitsRespected'
      <4>1. IgnoreLimits = {} => /\ handed_out' + connecting' + idle_count' <= MaxSockets
                                 /\ active'[g] + jobs'[g] + Cardinality(idle'[g]) <= MaxSocketsPerGroup
        <5>1. UNCHANGED <<idle, idle_count, active, handed_out>>
          BY <2>1, <2>7
        <5>2. QED
          BY <1>3, <1>4, <2>4, <5>1
      <4>2. \A x \in Groups \ {g} : /\ active'[x] = active[x] /\ Cardinality(idle'[x]) \in Nat
                                     /\ Cardinality(idle'[x]) <= Cardinality(idle[x])
        BY <1>2, <2>1, <2>7, Numbers
      <4>3. QED
        BY <1>2, <2>4, <4>1, <4>2, KeepLimits
    <3>3. GroupsOK'
      BY <1>1, <1>5, <2>1, <2>3, <2>4, <2>7 DEF IInv, GroupsOK
    <3>4. QED
      BY <2>4, <2>5, <2>6, <3>1, <3>2, <3>3 DEF IInv
  <2>8. CASE \E s \in NewSockets : AddIdleSocket(idle, idle_count, g, s)
    <3>1. PICK s \in NewSockets : AddIdleSocket(idle, idle_count, g, s)
      BY <2>8
    <3>2. /\ s \in Socket /\ s.born = generation
          /\ \A k \in Handles : socket[k] # None => socket[k].id # s.id
          /\ \A x \in Groups : \A t \in idle[x] : t.id # s.id
      BY NewSocketIsNew DEF IInv
    <3> DEFINE none == {}
    <3>3. /\ none \in SUBSET IdleSockets
          /\ idle' = [x \in Groups |-> IF x = g THEN (idle[x] \ none) \cup {s} ELSE idle[x] \ none]
      BY <3>1 DEF AddIdleSocket, IInv, SocketsOK, SocketTypes
    <3>4. idle_count' = (idle_count - Cardinality(none)) + 1 /\ idle_count' = idle_count + 1
      BY <1>4, <3>1, FS_EmptySet DEF AddIdleSocket
    <3>5. idle'[g] = idle[g] \cup {s} /\ s \notin idle[g] /\ \A x \in Groups \ {g} : idle'[x] = idle[x]
      BY <3>2, <3>3
    <3> HIDE DEF none
    <3>6. SocketsOK'
      <4>1. socket' \in [Handles -> Socket \cup {None}] /\ pool_id' \in [Handles -> Int]
            /\ handed_out' \in Nat /\ Counts(handed_out, Owners)'
        BY <2>1 DEF IInv, SocketsOK, SocketTypes, Owners
      <4>2. \A k \in Handles : socket'[k] # None =>
              socket'[k].id # s.id /\ socket'[k] = socket[k] /\ pool_id'[k] = pool_id[k]
        BY <2>1, <3>2
      <4>3. generation' = generation
        BY <1>1
      <4>4. QED
        BY <3>2, <3>3, <3>4, <4>1, <4>2, <4>3, AddIdleSockets DEF IInv
    <3>7. Cardinality(idle'[g]) = Cardinality(idle[g]) + 1
      <4>1. IsFiniteSet(idle[g])
        BY IdleSizes DEF IInv
      <4>2. QED
        BY <3>5, <4>1, FS_AddElement, ZenonT(60)
    <3>8. LimitsRespected'
      <4>1. IgnoreLimits = {} => /\ handed_out' + connecting' + idle_count' <= MaxSockets
                                 /\ active'[g] + jobs'[g] + Cardinality(idle'[g]) <= MaxSocketsPerGroup
        <5>1. handed_out' = handed_out /\ active'[g] = active[g]
          BY <2>1
        <5>2. IgnoreLimits = {} =>
                /\ handed_out + (connecting - 1) + (idle_count + 1) <= MaxSockets
                /\ active[g] + (jobs[g] - 1) + (Cardinality(idle[g]) + 1) <= MaxSocketsPerGroup
          BY <1>3, <1>4, SlotMoved
        <5>3. QED
          BY <2>4, <3>4, <3>7, <5>1, <5>2
      <4>2. \A x \in Groups \ {g} : /\ active'[x] = active[x] /\ Cardinality(idle'[x]) \in Nat
                                     /\ Cardinality(idle'[x]) <= Cardinality(idle[x])
        BY <1>2, <2>1, <3>5, Numbers
      <4>3. QED
        BY <1>2, <2>4, <4>1, <4>2, KeepLimits
    <3>9. GroupsOK'
      BY <1>1, <1>5, <2>1, <2>3, <2>4, <3>5 DEF IInv, GroupsOK
    <3>10. QED
      BY <2>4, <2>5, <2>6, <3>6, <3>8, <3>9 DEF IInv
  <2>9. QED
    BY <2>1, <2>7, <2>8
<1>8. QED
  BY <1>6, <1>7

LEMMA ConnectJobCompletesStep ==
    ASSUME IInv, NEW g \in Groups, ConnectJobCompletes(g)
    PROVE  IInv'
<1>1. ~Running("ProcessPendingRequest")
  BY DEF ConnectJobCompletes, Running
<1>2. QED
  BY <1>1, ConnectJobCompleteStep DEF ConnectJobCompletes

LEMMA BackupJobCompletesStep ==
    ASSUME IInv, BackupJobCompletes
    PROVE  IInv'
<1>1. ~Running("ProcessPendingRequest")
  BY DEF BackupJobCompletes, Running
<1>2. /\ Head(calls).group \in Groups /\ Head(calls).rv \in {"OK", "ERROR"} /\ Tail(calls) = <<>>
  BY CallShapes DEF BackupJobCompletes, IInv, GroupsOK
<1>3. OnConnectJobComplete(Head(calls).group, FALSE, Head(calls).rv, <<>>)
  BY <1>2 DEF BackupJobCompletes
<1>4. QED
  BY <1>1, <1>2, <1>3, ConnectJobCompleteStep

LEMMA BackupTimerStep ==
    ASSUME IInv, NEW g \in Groups, OnBackupSocketTimerFired(g)
    PROVE  IInv'
<1>1. /\ calls = <<>> /\ backup[g]
      /\ UNCHANGED <<group_map, preconnects, idle, active, idle_count,
                     handed_out, socket, pool_id, pending, generation, request, posted>>
      /\ backup' = [backup EXCEPT ![g] = FALSE]
  BY DEF OnBackupSocketTimerFired, RestartBackupSocketTimer, clientVars
<1>2. backup' \in [Groups -> BOOLEAN] /\ \A x \in Groups : backup'[x] => backup[x]
  BY <1>1, Zenon DEF IInv, JobsOK
<1>3. ~Running("ProcessPendingRequest")
  BY <1>1 DEF Running
<1>4. RequestTypes' /\ QueuesOK' /\ RequestsOK' /\ PostedOK' /\ ActiveOK'
  BY <1>1, <1>3, QuietClients
<1>5. SocketsOK'
  BY <1>1 DEF IInv, SocketsOK, SocketTypes, SocketHasOneOwner, NoStaleReuse,
              SocketBornInPool, IdleSockets, Owners
<1>6. preconnects' \in [Groups -> Nat] /\ \A x \in Groups : preconnects'[x] <= preconnects[x]
  BY <1>1 DEF IInv, JobsOK
<1>7. g \in group_map
  <2>1. jobs[g] # 0
    BY <1>1 DEF IInv, JobsOK, BackupTimerHasJob
  <2>2. QED
    BY <2>1 DEF IInv, GroupsOK
<1>8. CASE UNCHANGED <<jobs, connecting, calls>>
  <2>1. JobsOK'
    BY <1>2, <1>6, <1>8, KeepJobs DEF IInv
  <2>2. LimitsRespected' /\ GroupsOK' /\ CallsOK'
    BY <1>1, <1>2, <1>8 DEF IInv, LimitsRespected, TotalSockets, NumActiveSocketSlots,
                            GroupsOK, CallsOK
  <2>3. QED
    BY <1>4, <1>5, <2>1, <2>2 DEF IInv
<1>9. CASE /\ ~ReachedMaxSocketsLimit /\ HasAvailableSocketSlot(g)
           /\ connecting' = connecting + 1
           /\ jobs' = [jobs EXCEPT ![g] = @ + 1]
           /\ calls' \in {<<>>, <<Complete(g, "OK")>>}
                         \cup (IF SyncErrors THEN {<<Complete(g, "ERROR")>>} ELSE {})
  <2>1. jobs'[g] = jobs[g] + 1 /\ \A x \in Groups \ {g} : jobs'[x] = jobs[x]
    BY <1>9 DEF IInv, JobsOK
  <2>2. JobsOK'
    <3>1. \A x \in Groups : preconnects'[x] <= jobs'[x]
      BY <1>1, <2>1 DEF IInv, JobsOK
    <3>2. QED
      BY <1>2, <1>6, <1>9, <3>1, AddJob DEF IInv
  <2>3. LimitsRespected'
    <3>1. PoolOK
      BY DEF IInv, PoolOK
    <3>2. handed_out + connecting + idle_count < MaxSockets
      BY <1>9, <3>1, Numbers DEF ReachedMaxSocketsLimit, TotalSockets
    <3>3. active[g] + jobs[g] + Cardinality(idle[g]) < MaxSocketsPerGroup
      BY <1>9 DEF HasAvailableSocketSlot, NumActiveSocketSlots
    <3>4. /\ handed_out \in Nat /\ connecting \in Nat /\ idle_count \in Nat /\ MaxSockets \in Nat
          /\ active[g] \in Nat /\ jobs[g] \in Nat /\ Cardinality(idle[g]) \in Nat
          /\ MaxSocketsPerGroup \in Nat
      BY <3>1, Numbers
    <3>5. UNCHANGED <<handed_out, idle_count, active, idle>> /\ connecting' = connecting + 1
      BY <1>1, <1>9
    <3>6. /\ handed_out' + connecting' + idle_count' <= MaxSockets
          /\ active'[g] + jobs'[g] + Cardinality(idle'[g]) <= MaxSocketsPerGroup
      BY <2>1, <3>2, <3>3, <3>4, <3>5
    <3>7. \A x \in Groups \ {g} : /\ active'[x] = active[x] /\ Cardinality(idle'[x]) \in Nat
                                   /\ Cardinality(idle'[x]) <= Cardinality(idle[x])
      BY <3>1, <3>5, Numbers
    <3>8. QED
      BY <2>1, <3>1, <3>6, <3>7, KeepLimits
  <2>4. GroupsOK'
    BY <1>1, <1>2, <1>7, <2>1 DEF IInv, GroupsOK
  <2>5. CallsOK'
    <3>1. calls' = <<>> \/ \E rv \in {"OK", "ERROR"} : calls' = <<Complete(g, rv)>>
      BY <1>9
    <3>2. QED
      BY <1>1, <1>7, <3>1 DEF CallsOK
  <2>6. QED
    BY <1>4, <1>5, <2>2, <2>3, <2>4, <2>5 DEF IInv
<1>10. QED
  BY <1>8, <1>9 DEF OnBackupSocketTimerFired

LEMMA CleanupIdleSocketsStep ==
    ASSUME IInv, CleanupIdleSockets
    PROVE  IInv'
<1>1. PICK gone \in SUBSET IdleSockets :
        /\ idle' = [g \in Groups |-> idle[g] \ gone]
        /\ idle_count' = idle_count - Cardinality(gone)
        /\ group_map' = {g \in group_map : ~IsEmpty(g, idle'[g], pending[g])}
  BY DEF CleanupIdleSockets
<1>2. /\ calls = <<>>
      /\ UNCHANGED <<jobs, preconnects, active, backup, connecting, handed_out,
                     socket, pool_id, pending, generation, request, posted, calls>>
  BY DEF CleanupIdleSockets, clientVars
<1>3. SocketsOK'
  BY <1>1, <1>2, LoseSockets DEF IInv, Left
<1>4. ~Running("ProcessPendingRequest")
  BY <1>2 DEF Running
<1>5. RequestTypes' /\ QueuesOK' /\ RequestsOK' /\ PostedOK' /\ ActiveOK'
  BY <1>2, <1>4, QuietClients
<1>6. JobsOK'
  BY <1>2 DEF IInv, JobsOK, BackupTimerHasJob, ConnectJobs
<1>7. \A x \in Groups : idle'[x] = idle[x] \ gone
  BY <1>1
<1>8. PoolOK
  BY DEF IInv, PoolOK
<1>9. LimitsRespected'
  <2>1. \A x \in Groups : Cardinality(idle'[x]) \in Nat /\ Cardinality(idle'[x]) <= Cardinality(idle[x])
    BY <1>7, IdleSizes DEF IInv
  <2>2. Cardinality(gone) \in Nat
    BY CountLose DEF IInv, SocketsOK
  <2>3. IgnoreLimits = {} => handed_out' + connecting' + idle_count' <= MaxSockets
    <3>1. IgnoreLimits = {} => handed_out + connecting + idle_count <= MaxSockets
      BY DEF IInv, LimitsRespected, TotalSockets
    <3>2. QED
      BY <1>1, <1>2, <1>8, <2>2, <3>1, Numbers
  <2>4. ASSUME IgnoreLimits = {}, NEW x \in Groups
        PROVE  active'[x] + jobs'[x] + Cardinality(idle'[x]) <= MaxSocketsPerGroup
    <3>1. active[x] + jobs[x] + Cardinality(idle[x]) <= MaxSocketsPerGroup
      BY <2>4 DEF IInv, LimitsRespected, NumActiveSocketSlots
    <3>2. QED
      BY <1>2, <1>8, <2>1, <3>1, Numbers, SMTT(30)
  <2>5. QED
    BY <2>3, <2>4 DEF LimitsRespected, TotalSockets, NumActiveSocketSlots
<1>10. GroupsOK'
  <2>1. group_map' \subseteq Groups
    BY <1>1 DEF IInv, GroupsOK
  <2>2. \A x \in Groups : jobs[x] = 0 => ~backup[x]
    BY DEF IInv, JobsOK, BackupTimerHasJob
  <2>3. QED
    BY <1>1, <1>2, <1>7, <2>1, <2>2 DEF IInv, GroupsOK, IsEmpty
<1>11. CallsOK'
  BY <1>2 DEF CallsOK
<1>12. QED
  BY <1>3, <1>5, <1>6, <1>9, <1>10, <1>11 DEF IInv

LEMMA FlushStep ==
    ASSUME IInv, Flush
    PROVE  IInv'
<1>1. /\ calls = <<>> /\ calls' = <<>>
      /\ generation < MaxFlushes /\ generation' = generation + 1
      /\ idle' = [g \in Groups |-> {}] /\ idle_count' = 0
      /\ group_map' = {g \in group_map : active[g] > 0}
      /\ UNCHANGED <<active, handed_out, socket, pool_id>>
  BY DEF Flush
<1>2. /\ connecting' = connecting - Cardinality(ConnectJobs(group_map))
      /\ jobs' = [g \in Groups |-> IF g \in group_map THEN 0 ELSE jobs[g]]
      /\ preconnects' = [g \in Groups |-> IF g \in group_map THEN 0 ELSE preconnects[g]]
      /\ backup' = [g \in Groups |-> backup[g] /\ g \notin group_map]
  BY DEF Flush, CancelAllConnectJobs
<1> DEFINE aborted == {h \in Handles : request[h].state = "pending"}
<1>3. /\ pending' = [g \in Groups |-> <<>>]
      /\ request' = [h \in Handles |-> IF h \in aborted THEN CallbackResult(request[h], "ABORTED")
                                        ELSE request[h]]
      /\ posted' = [h \in Handles |-> IF h \in aborted THEN posted[h] + 1 ELSE posted[h]]
  BY DEF Flush, AbortAllRequests
<1>4. \A h \in Handles :
        /\ h \in aborted => request'[h] = CallbackResult(request[h], "ABORTED") /\ posted'[h] = posted[h] + 1
        /\ h \notin aborted => request'[h] = request[h] /\ posted'[h] = posted[h]
  BY <1>3
<1>5. \A h \in Handles :
        /\ CallbackResult(request[h], "ABORTED") \in NotPending
        /\ CallbackResult(request[h], "ABORTED").state = "callback"
        /\ CallbackResult(request[h], "ABORTED").group = request[h].group
  BY CallbackResultType DEF Results
<1>6. \A h \in Handles : request'[h].state # "pending" /\ request'[h].group = request[h].group
  BY <1>4, <1>5
<1>7. SocketsOK'
  <2>1. idle' \in [Groups -> SUBSET Socket]
    BY <1>1
  <2>2. generation' \in 0..MaxFlushes
    BY <1>1, LimitsNat DEF IInv, SocketsOK, SocketTypes
  <2>3. SocketTypes'
    BY <1>1, <2>1, <2>2 DEF IInv, SocketsOK, SocketTypes
  <2>4. \A g \in Groups : idle'[g] = {}
    BY <1>1
  <2>5. SocketHasOneOwner' /\ NoStaleReuse'
    BY <1>1, <2>4 DEF IInv, SocketsOK, SocketHasOneOwner, NoStaleReuse
  <2>6. IdleSockets' = {}
    BY <2>4 DEF IdleSockets
  <2>7. Counts(idle_count, IdleSockets)'
    BY <1>1, <2>6, FS_EmptySet DEF Counts
  <2>8. SocketBornInPool' /\ Counts(handed_out, Owners)'
    BY <1>1 DEF IInv, SocketsOK, SocketBornInPool, Owners
  <2>9. QED
    BY <2>3, <2>5, <2>7, <2>8 DEF SocketsOK
<1>8. \A g \in Groups : jobs'[g] = 0 /\ ~backup'[g]
  BY <1>2 DEF IInv, GroupsOK
<1>9. JobsOK'
  <2>1. ConnectJobs(group_map) = ConnectJobs(Groups)
    <3>1. group_map \subseteq Groups /\ \A g \in Groups \ group_map : 1..jobs[g] = {}
      BY DEF IInv, GroupsOK
    <3>2. \A t : t \in ConnectJobs(group_map) <=> t \in ConnectJobs(Groups)
      BY <3>1, JobElements
    <3>3. QED
      BY <3>2
  <2>2. connecting' = 0
    BY <1>2, <2>1 DEF IInv, JobsOK, Counts
  <2>3. ConnectJobs(Groups)' = {}
    <3>1. \A g \in Groups : 1..jobs'[g] = {}
      BY <1>8
    <3>2. \A t : t \notin ConnectJobs(Groups)'
      BY <3>1, JobElementsPrime
    <3>3. QED
      BY <3>2
  <2>4. Counts(connecting, ConnectJobs(Groups))'
    BY <2>2, <2>3, FS_EmptySet DEF Counts
  <2>5. jobs' \in [Groups -> Nat] /\ preconnects' \in [Groups -> Nat]
    BY <1>2 DEF IInv, JobsOK
  <2>6. backup' \in [Groups -> BOOLEAN]
    BY <1>2, Zenon DEF IInv, JobsOK
  <2>7. \A g \in Groups : preconnects'[g] <= jobs'[g]
    BY <1>2 DEF IInv, JobsOK
  <2>8. BackupTimerHasJob'
    BY <1>8 DEF BackupTimerHasJob
  <2>9. QED
    BY <2>2, <2>4, <2>5, <2>6, <2>7, <2>8 DEF JobsOK
<1>10. ActiveOK'
  <2>1. \A h \in Handles : SameHold(h)
    BY <1>1, <1>6 DEF SameHold
  <2>2. QED
    BY <1>1, <2>1, KeepActive DEF IInv
<1>11. RequestTypes'
  <2>1. \A h \in Handles : request'[h] \in [state : {"free", "pending", "callback", "initialized"},
                             group : Groups \cup {None},
                             priority : Priorities \cup {0},
                             result : Results]
    BY <1>4, <1>5 DEF NotPending, IInv, RequestTypes
  <2>2. QED
    BY <1>3, <2>1 DEF RequestTypes
<1>12. QueuesOK'
  <2>1. \A g \in Groups : pending'[g] = <<>>
    BY <1>3
  <2>2. pending' \in [Groups -> Seq(Handles)]
    BY <1>3
  <2>3. QED
    BY <1>6, <2>1, <2>2, EmptyList DEF QueuesOK
<1>13. RequestsOK'
  <2>1. \A h \in Handles : h \in aborted => request[h].group \in Groups
    BY DEF IInv, RequestsOK
  <2>2. \A h \in Handles : h \notin aborted => request'[h] = request[h]
    BY <1>4
  <2>3. \A h \in Handles : h \in aborted => request'[h].state = "callback"
    BY <1>4, <1>5
  <2>4. QED
    BY <1>1, <1>6, <2>1, <2>2, <2>3 DEF IInv, RequestsOK
<1>14. PostedOK'
  <2>1. posted' \in [Handles -> Nat] /\ \A h \in Handles : posted[h] \in Nat
    BY <1>3 DEF IInv, PostedOK
  <2>2. CallbacksScheduled'
    BY <1>4, <2>1 DEF IInv, PostedOK, CallbacksScheduled
  <2>3. QED
    BY <2>1, <2>2 DEF PostedOK
<1>15. CallsOK'
  BY <1>1 DEF CallsOK
<1>16. GroupsOK'
  <2>1. \A g \in Groups : active[g] \in Nat
    BY DEF IInv, ActiveOK
  <2>2. QED
    BY <1>1, <1>3, <1>8, <2>1 DEF IInv, GroupsOK
<1>17. LimitsRespected'
  <2>1. PoolOK
    BY DEF IInv, PoolOK
  <2>2. connecting' \in Nat /\ connecting' <= connecting
    <3>1. connecting' = 0 \/ connecting' \in Nat
      BY <1>9 DEF JobsOK
    <3>2. ConnectJobs(group_map) \subseteq ConnectJobs(Groups)
      BY JobElements DEF IInv, GroupsOK
    <3>3. Cardinality(ConnectJobs(group_map)) \in Nat
      BY <3>2, CountLose DEF IInv, JobsOK
    <3>4. QED
      BY <1>2, <1>9, <2>1, <3>3, Numbers DEF JobsOK
  <2>3. IgnoreLimits = {} => handed_out' + connecting' + idle_count' <= MaxSockets
    <3>1. IgnoreLimits = {} => handed_out + connecting + idle_count <= MaxSockets
      BY DEF IInv, LimitsRespected, TotalSockets
    <3>2. QED
      BY <1>1, <2>1, <2>2, <3>1, Numbers
  <2>4. ASSUME IgnoreLimits = {}, NEW x \in Groups
        PROVE  active'[x] + jobs'[x] + Cardinality(idle'[x]) <= MaxSocketsPerGroup
    <3>1. active[x] + jobs[x] + Cardinality(idle[x]) <= MaxSocketsPerGroup
      BY <2>4 DEF IInv, LimitsRespected, NumActiveSocketSlots
    <3>2. idle'[x] = {} /\ Cardinality({}) = 0
      BY <1>1, FS_EmptySet
    <3>3. QED
      BY <1>1, <1>8, <2>1, <3>1, <3>2, Numbers
  <2>5. QED
    BY <2>3, <2>4 DEF LimitsRespected, TotalSockets, NumActiveSocketSlots
<1>18. QED
  BY <1>7, <1>9, <1>10, <1>11, <1>12, <1>13, <1>14, <1>15, <1>16, <1>17 DEF IInv

LEMMA InvokeUserCallbackStep ==
    ASSUME IInv, NEW h \in Handles, InvokeUserCallback(h)
    PROVE  IInv'
<1>1. /\ calls = <<>> /\ posted[h] > 0 /\ posted' = [posted EXCEPT ![h] = @ - 1]
      /\ UNCHANGED <<group_map, jobs, preconnects, idle, active, backup, idle_count, connecting,
                     handed_out, socket, pool_id, pending, generation, calls>>
  BY DEF InvokeUserCallback, groupVars
<1>2. /\ posted' \in [Handles -> Nat]
      /\ \A k \in Handles \ {h} : posted'[k] = posted[k]
  BY <1>1 DEF IInv, PostedOK
<1>3. SocketsOK' /\ JobsOK' /\ LimitsRespected'
  BY <1>1, QuietPool
<1>4. GroupsOK' /\ CallsOK'
  BY <1>1 DEF IInv, GroupsOK, CallsOK
<1>5. ~Running("ProcessPendingRequest")
  BY <1>1 DEF Running
<1>6. CASE request[h].state # "callback"
  <2>1. UNCHANGED request
    BY <1>6 DEF InvokeUserCallback
  <2>2. RequestTypes' /\ QueuesOK' /\ ActiveOK'
    BY <1>1, <2>1 DEF IInv, RequestTypes, QueuesOK, ActiveOK, Holders
  <2>3. RequestsOK'
    BY <1>1, <1>5, <2>1 DEF IInv, RequestsOK
  <2>4. PostedOK'
    BY <1>2, <1>6, <2>1 DEF IInv, PostedOK, CallbacksScheduled
  <2>5. QED
    BY <1>3, <1>4, <2>2, <2>3, <2>4 DEF IInv
<1>7. CASE request[h].state = "callback"
  <2> DEFINE r == IF socket[h] = None THEN Free
                  ELSE Request("initialized", request[h].group, request[h].priority)
  <2>1. request' = [request EXCEPT ![h] = r]
    BY <1>7 DEF InvokeUserCallback, IInv, RequestTypes
  <2>2. /\ r \in [state : {"free", "initialized"}, group : Groups \cup {None},
                  priority : Priorities \cup {0}, result : Results]
        /\ socket[h] = None => r.state = "free"
        /\ socket[h] # None => r.state = "initialized" /\ r.group = request[h].group
    <3>1. request[h].group \in Groups \cup {None} /\ request[h].priority \in Priorities \cup {0}
      BY DEF IInv, RequestTypes
    <3>2. QED
      BY <3>1, FreeType DEF Request, Results
  <2> HIDE DEF r
  <2>3. /\ RequestTypes' /\ QueuesOK'
        /\ request'[h] = r /\ \A k \in Handles \ {h} : request'[k] = request[k]
    BY <1>1, <1>7, <2>1, <2>2, LeaveAnswered
  <2>4. ActiveOK'
    <3>1. \A k \in Handles : SameHold(k)
      BY <1>1, <2>2, <2>3 DEF SameHold
    <3>2. QED
      BY <1>1, <3>1, KeepActive DEF IInv
  <2>5. RequestsOK'
    <3>1. request[h].group \in Groups
      BY <1>7 DEF IInv, RequestsOK
    <3>2. r.state \in {"free", "initialized"}
      BY <2>2
    <3>3. QED
      BY <1>1, <1>5, <2>2, <2>3, <3>1, <3>2 DEF IInv, RequestsOK
  <2>6. PostedOK'
    <3>1. request'[h].state # "callback"
      BY <2>2, <2>3
    <3>2. QED
      BY <1>2, <2>3, <3>1 DEF IInv, PostedOK, CallbacksScheduled
  <2>7. QED
    BY <1>3, <1>4, <2>3, <2>4, <2>5, <2>6 DEF IInv
<1>8. QED
  BY <1>6, <1>7

-----------------------------------------------------------------------------
(* The invariant holds at first and in every step. *)

LEMMA InitInv ==
    ASSUME Init
    PROVE  IInv
<1>1. /\ group_map = {} /\ calls = <<>>
      /\ idle_count = 0 /\ connecting = 0 /\ handed_out = 0 /\ generation = 0
      /\ idle \in [Groups -> SUBSET Socket] /\ pending \in [Groups -> Seq(Handles)]
      /\ jobs \in [Groups -> Nat] /\ preconnects \in [Groups -> Nat] /\ active \in [Groups -> Nat]
      /\ socket \in [Handles -> Socket \cup {None}] /\ pool_id \in [Handles -> Int]
      /\ posted \in [Handles -> Nat]
  BY DEF Init
<1>2. backup \in [Groups -> BOOLEAN] /\ \A g \in Groups : ~backup[g]
  BY Zenon DEF Init
<1>3. \A g \in Groups : /\ idle[g] = {} /\ pending[g] = <<>>
                        /\ jobs[g] = 0 /\ preconnects[g] = 0 /\ active[g] = 0
  BY DEF Init
<1>4. \A h \in Handles : request[h] = Free /\ socket[h] = None
  BY DEF Init
<1>5. SocketsOK
  <2>1. IdleSockets = {} /\ Owners = {}
    BY <1>3, <1>4 DEF IdleSockets, Owners
  <2>2. Counts(idle_count, IdleSockets) /\ Counts(handed_out, Owners)
    BY <1>1, <2>1, FS_EmptySet DEF Counts
  <2>3. SocketTypes
    BY <1>1, LimitsNat DEF SocketTypes
  <2>4. SocketHasOneOwner /\ NoStaleReuse /\ SocketBornInPool
    BY <1>3, <1>4 DEF SocketHasOneOwner, NoStaleReuse, SocketBornInPool
  <2>5. QED
    BY <2>2, <2>3, <2>4 DEF SocketsOK
<1>6. JobsOK
  <2>1. ConnectJobs(Groups) = {}
    <3>1. \A g \in Groups : 1..jobs[g] = {}
      BY <1>3
    <3>2. \A t : t \notin ConnectJobs(Groups)
      BY <3>1, JobElements
    <3>3. QED
      BY <3>2
  <2>2. Counts(connecting, ConnectJobs(Groups))
    BY <1>1, <2>1, FS_EmptySet DEF Counts
  <2>3. BackupTimerHasJob
    BY <1>2 DEF BackupTimerHasJob
  <2>4. QED
    BY <1>1, <1>2, <1>3, <2>2, <2>3 DEF JobsOK
<1>7. ActiveOK
  <2>1. \A g \in Groups : Holders(g) = {}
    BY <1>4 DEF Holders
  <2>2. \A g \in Groups : Counts(active[g], Holders(g))
    BY <1>3, <2>1, FS_EmptySet DEF Counts
  <2>3. QED
    BY <1>1, <2>2 DEF ActiveOK
<1>8. RequestTypes
  <2>1. Free \in [state : {"free", "pending", "callback", "initialized"},
                  group : Groups \cup {None}, priority : Priorities \cup {0}, result : Results]
    BY FreeType
  <2>2. QED
    BY <2>1 DEF Init, RequestTypes
<1>9. QueuesOK
  BY <1>1, <1>3, <1>4, FreeType, EmptyList DEF QueuesOK
<1>10. RequestsOK
  BY <1>4, FreeType DEF RequestsOK
<1>11. PostedOK
  BY <1>1, <1>4, FreeType DEF PostedOK, CallbacksScheduled
<1>12. CallsOK /\ GroupsOK
  BY <1>1, <1>2, <1>3 DEF CallsOK, GroupsOK
<1>13. LimitsRespected
  <2>1. TotalSockets <= MaxSockets
    BY <1>1, LimitsNat DEF TotalSockets
  <2>2. ASSUME NEW g \in Groups PROVE NumActiveSocketSlots(g) <= MaxSocketsPerGroup
    <3>1. active[g] = 0 /\ jobs[g] = 0 /\ Cardinality(idle[g]) = 0
      BY <1>3, FS_EmptySet
    <3>2. QED
      BY <3>1, LimitsNat DEF NumActiveSocketSlots
  <2>3. QED
    BY <2>1, <2>2 DEF LimitsRespected
<1>14. QED
  BY <1>5, <1>6, <1>7, <1>8, <1>9, <1>10, <1>11, <1>12, <1>13 DEF IInv

LEMMA StutterInv ==
    ASSUME IInv, UNCHANGED vars
    PROVE  IInv'
<1>1. UNCHANGED <<group_map, jobs, preconnects, idle, active, backup, idle_count, connecting,
                  handed_out, socket, pool_id, pending, generation, request, posted, calls>>
  BY DEF vars, groupVars, clientVars
<1>2. SocketsOK' /\ JobsOK' /\ LimitsRespected'
  BY <1>1, QuietPool
<1>3. RequestTypes' /\ QueuesOK' /\ ActiveOK' /\ PostedOK'
  BY <1>1 DEF IInv, RequestTypes, QueuesOK, ActiveOK, Holders, PostedOK, CallbacksScheduled
<1>4. RequestsOK'
  BY <1>1 DEF IInv, RequestsOK, Running
<1>5. GroupsOK' /\ CallsOK'
  BY <1>1 DEF IInv, GroupsOK, CallsOK, Running
<1>6. QED
  BY <1>2, <1>3, <1>4, <1>5 DEF IInv

LEMMA NextInv ==
    ASSUME IInv, [Next]_vars
    PROVE  IInv'
<1>1. CASE Continue
  BY <1>1, RequestSocketsLoopStep, OnAvailableSocketSlotStep, ProcessPendingRequestStep,
     CheckForStalledStep, BackupJobCompletesStep DEF Continue
<1>2. CASE \E h \in Handles : \/ \E g \in Groups, p \in Priorities : RequestSocket(h, g, p)
                              \/ ResetInitialized(h)
                              \/ CancelCallback(h)
                              \/ CancelPending(h)
                              \/ InvokeUserCallback(h)
  BY <1>2, RequestSocketStep, ResetInitializedStep, CancelCallbackStep, CancelPendingStep,
     InvokeUserCallbackStep
<1>3. CASE \E g \in Groups : \/ \E n \in Preconnects : RequestSockets(g, n)
                             \/ ConnectJobCompletes(g)
                             \/ OnBackupSocketTimerFired(g)
  BY <1>3, RequestSocketsStep, ConnectJobCompletesStep, BackupTimerStep
<1>4. CASE CleanupIdleSockets
  BY <1>4, CleanupIdleSocketsStep
<1>5. CASE Flush
  BY <1>5, FlushStep
<1>6. CASE UNCHANGED vars
  BY <1>6, StutterInv
<1>7. QED
  BY <1>1, <1>2, <1>3, <1>4, <1>5, <1>6 DEF Next

(* The inductive invariant holds in every behaviour of the pool. *)
THEOREM InvariantThm == Spec => []IInv
<1>1. Init => IInv
  BY InitInv
<1>2. IInv /\ [Next]_vars => IInv'
  BY NextInv
<1>3. QED
  BY <1>1, <1>2, PTL DEF Spec

(***************************************************************************)
(* handed_out_socket_count_, connecting_socket_count_, idle_socket_count_  *)
(* and the active_socket_count_ of every group are what they count, for    *)
(* any number of groups, handles and sockets and for every order of        *)
(* requests, cancellations, flushes, completions and releases.             *)
(***************************************************************************)
THEOREM CountersExactThm == Spec => []CountersExact
<1>1. IInv => CountersExact
  BY DEF IInv, SocketsOK, JobsOK, ActiveOK, Counts, Owners, CountersExact
<1>2. QED
  BY <1>1, InvariantThm, PTL

(***************************************************************************)
(* max_sockets_ and max_sockets_per_group_ are kept at every moment if no  *)
(* request ignores them, whatever their values (no bound on the jobs is    *)
(* used: MaxJobs only has to be at least max_sockets_per_group_).          *)
(***************************************************************************)
THEOREM LimitsRespectedThm == Spec => []LimitsRespected
<1>1. IInv => LimitsRespected
  BY DEF IInv
<1>2. QED
  BY <1>1, InvariantThm, PTL

(* No connection made before a Flush is in an idle list after it, however late *)
(* its user gives it back to ReleaseSocket.                                    *)
THEOREM NoStaleReuseThm == Spec => []NoStaleReuse
<1>1. IInv => NoStaleReuse
  BY DEF IInv, SocketsOK
<1>2. QED
  BY <1>1, InvariantThm, PTL

(* An answer in pending_callback_map_ has an InvokeUserCallback task that will *)
(* deliver it, also when the handle cancelled and asked again before.          *)
THEOREM CallbacksScheduledThm == Spec => []CallbacksScheduled
<1>1. IInv => CallbacksScheduled
  BY DEF IInv, PostedOK
<1>2. QED
  BY <1>1, InvariantThm, PTL

(* The calls that are still to be made are on groups that exist. *)
LEMMA CallsOnGroups ==
    ASSUME CallsOK
    PROVE  \A i \in DOMAIN calls :
             calls[i].op # "CheckForStalledSocketGroups" => calls[i].group \in group_map
<1>1. Stalled.op = "CheckForStalledSocketGroups"
  BY DEF Stalled
<1>2. CASE calls = <<>> \/ calls = <<Stalled>>
  BY <1>1, <1>2
<1>3. ASSUME NEW g \in group_map, calls = <<Slot(g)>> \/ calls = <<Slot(g), Stalled>>
      PROVE  \A i \in DOMAIN calls :
               calls[i].op # "CheckForStalledSocketGroups" => calls[i].group \in group_map
  <2>1. Slot(g).group = g
    BY DEF Slot
  <2>2. QED
    BY <1>1, <1>3, <2>1
<1>4. ASSUME NEW g \in group_map, calls = <<Head(calls)>>, Head(calls).group = g
      PROVE  \A i \in DOMAIN calls :
               calls[i].op # "CheckForStalledSocketGroups" => calls[i].group \in group_map
  <2>1. DOMAIN calls = {1} /\ Head(calls) = calls[1]
    BY <1>4
  <2>2. QED
    BY <1>4, <2>1
<1>5. ASSUME NEW g \in group_map, NEW rv,
             \/ calls = <<Complete(g, rv)>>
             \/ calls = <<Processed(g, rv)>> \/ calls = <<Processed(g, rv), Stalled>>
      PROVE  \A i \in DOMAIN calls :
               calls[i].op # "CheckForStalledSocketGroups" => calls[i].group \in group_map
  <2>1. Complete(g, rv).group = g /\ Processed(g, rv).group = g
    BY DEF Complete, Processed
  <2>2. QED
    BY <1>1, <1>5, <2>1
<1>6. QED
  BY <1>2, <1>3, <1>4, <1>5 DEF CallsOK

(***************************************************************************)
(* Every socket has one owner, no Group is asked for after it was deleted  *)
(* from group_map_ (neither by a pending call nor by a request, job, timer *)
(* or active socket), and no backup timer is pending without a job.        *)
(***************************************************************************)
THEOREM GroupsConsistentThm == Spec => []GroupsConsistent
<1>1. IInv => TypeOK
  BY LimitsNat DEF IInv, SocketsOK, SocketTypes, JobsOK, ActiveOK, RequestTypes, QueuesOK, GroupsOK,
                   PostedOK, TypeOK
<1>2. IInv => SocketHasOneOwner /\ BackupTimerHasJob
  BY DEF IInv, SocketsOK, JobsOK
<1>3. ASSUME IInv PROVE GroupsExistWhileUsed
  <2>1. ASSUME NEW h \in Handles, request[h].state = "pending"
        PROVE  \E i \in DOMAIN pending[request[h].group] : pending[request[h].group][i] = h
    <3>1. h \in ToSet(pending[request[h].group])
      BY <1>3, <2>1 DEF IInv, RequestsOK, QueuesOK
    <3>2. QED
      BY <3>1 DEF ToSet
  <2>2. QED
    BY <1>3, <2>1, CallsOnGroups DEF IInv, GroupsOK, GroupsExistWhileUsed
<1>4. IInv => GroupsConsistent
  BY <1>1, <1>2, <1>3 DEF GroupsConsistent
<1>5. QED
  BY <1>4, InvariantThm, PTL
=============================================================================
