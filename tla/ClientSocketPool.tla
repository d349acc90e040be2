--------------------------- MODULE ClientSocketPool ---------------------------
(***************************************************************************)
(* net::internal::ClientSocketPoolBaseHelper (net/socket/                  *)
(* client_socket_pool_base.{h,cc}) and the ClientSocketHandles of its      *)
(* clients (net/socket/client_socket_handle.{h,cc}).                       *)
(*                                                                         *)
(* The pool lives on one thread.  An entry point (a client's call, the end *)
(* of a ConnectJob, a timer, a posted callback) starts only when the one   *)
(* before has returned.  What an entry point still has to call, in order,  *)
(* is in calls; while calls is not empty nothing else happens.             *)
(***************************************************************************)
EXTENDS Integers, Sequences, FiniteSets, SequencesExt

CONSTANTS
    Groups,             \* group names
    Handles,            \* ClientSocketHandles of the clients
    IgnoreLimits,       \* the handles whose requests ignore the limits, and
                        \* None if the preconnects do
    SocketIds,          \* identities for sockets; one that was closed is reused
    MaxSockets,         \* max_sockets_
    MaxSocketsPerGroup, \* max_sockets_per_group_
    Priorities,         \* RequestPriority, 0 is the highest
    Preconnects,        \* num_sockets arguments of RequestSockets
    SyncErrors,         \* may ConnectJob::Connect fail without blocking
    MaxJobs,            \* bound: ConnectJobs of a group, for IgnoreLimits
    MaxFlushes,         \* bound: how often the pool is flushed
    MaxPosted,          \* bound: InvokeUserCallback tasks per handle
    None

ASSUME LimitsNat ==
    /\ MaxSockets \in Nat /\ MaxSocketsPerGroup \in Nat
    /\ MaxSocketsPerGroup <= MaxSockets
    /\ MaxJobs \in Nat /\ MaxJobs >= MaxSocketsPerGroup
    /\ MaxFlushes \in Nat
ASSUME HandlesOk == None \notin Handles /\ IgnoreLimits \subseteq Handles \cup {None}

VARIABLES
    group_map,      \* the groups that have a Group object
    pending,        \* Group::pending_requests_, each request by its handle
    jobs,           \* number of ConnectJobs in Group::jobs_ ...
    preconnects,    \* ... and how many of them are unused preconnects
    idle,           \* Group::idle_sockets_
    active,         \* Group::active_socket_count_
    backup,         \* a backup socket timer is pending in the group
    idle_count,     \* idle_socket_count_
    connecting,     \* connecting_socket_count_
    handed_out,     \* handed_out_socket_count_
    generation,     \* pool_generation_number_
    request,        \* what each handle asked for and how far it got
    socket,         \* ClientSocketHandle::socket_
    pool_id,        \* ClientSocketHandle::pool_id_
    posted,         \* InvokeUserCallback tasks on the message loop
    calls           \* calls the running entry point has still to make

groupVars == <<group_map, jobs, preconnects, idle, active, backup,
               idle_count, connecting, handed_out, socket, pool_id>>
clientVars == <<pending, generation, request, posted>>
vars == <<groupVars, clientVars, calls>>

(***************************************************************************)
(* State of a handle: free (not initialized, nothing asked for), pending   *)
(* (its request is in a group's queue), callback (in                       *)
(* pending_callback_map_), initialized (the client uses the socket).       *)
(***************************************************************************)
Request(state, g, p) == [state |-> state, group |-> g, priority |-> p, result |-> "OK"]
Free == Request("free", None, 0)
Results == {"OK", "ERROR", "ABORTED"}
Socket == [id : SocketIds, born : 0..MaxFlushes]

ASSUME NoneIsNull == None \notin Socket

Init ==
    /\ group_map = {}
    /\ pending = [g \in Groups |-> <<>>]
    /\ jobs = [g \in Groups |-> 0]
    /\ preconnects = [g \in Groups |-> 0]
    /\ idle = [g \in Groups |-> {}]
    /\ active = [g \in Groups |-> 0]
    /\ backup = [g \in Groups |-> FALSE]
    /\ idle_count = 0 /\ connecting = 0 /\ handed_out = 0 /\ generation = 0
    /\ request = [h \in Handles |-> Free]
    /\ socket = [h \in Handles |-> None]
    /\ pool_id = [h \in Handles |-> -1]
    /\ posted = [h \in Handles |-> 0]
    /\ calls = <<>>

-----------------------------------------------------------------------------
(* The calls an entry point may leave for later. *)
Slot(g)         == [op |-> "OnAvailableSocketSlot", group |-> g]
Stalled         == [op |-> "CheckForStalledSocketGroups"]
Processed(g, rv) == [op |-> "ProcessPendingRequest", group |-> g, rv |-> rv]
Loop(g, n, left) == [op |-> "RequestSockets", group |-> g, num |-> n, left |-> left]
Complete(g, rv) == [op |-> "OnConnectJobComplete", group |-> g, rv |-> rv]

Running(op) == calls # <<>> /\ Head(calls).op = op

NumActiveSocketSlots(g) == active[g] + jobs[g] + Cardinality(idle[g])
HasAvailableSocketSlot(g) == NumActiveSocketSlots(g) < MaxSocketsPerGroup
IsStalled(g) == HasAvailableSocketSlot(g) /\ Len(pending[g]) > jobs[g]

(* Group::IsEmpty, given the idle sockets and the queue of the moment. *)
IsEmpty(g, sockets, queue) ==
    active[g] = 0 /\ sockets = {} /\ jobs[g] = 0 /\ queue = <<>>

TotalSockets == handed_out + connecting + idle_count
ReachedMaxSocketsLimit == TotalSockets >= MaxSockets

(* The idle sockets of all groups. *)
IdleSockets == UNION {idle[g] : g \in Groups}

(* A socket that Connect has just made. *)
NewSockets ==
    LET used == {socket[h].id : h \in {x \in Handles : socket[x] # None}}
                \cup {s.id : s \in IdleSockets}
    IN  {[id |-> i, born |-> generation] : i \in SocketIds \ used}

(* Mutant: handed_out_socket_count_ is not increased. *)
HandOutSocketUncounted(g, h, s) ==
    /\ socket' = [socket EXCEPT ![h] = s]
    /\ pool_id' = [pool_id EXCEPT ![h] = generation]
    /\ active' = [active EXCEPT ![g] = @ + 1]
    /\ UNCHANGED handed_out

HandOutSocket(g, h, s) ==
    /\ socket' = [socket EXCEPT ![h] = s]
    /\ pool_id' = [pool_id EXCEPT ![h] = generation]
    /\ handed_out' = handed_out + 1
    /\ active' = [active EXCEPT ![g] = @ + 1]

(* AddIdleSocket, where sockets and count are idle and idle_count by now. *)
AddIdleSocket(sockets, count, g, s) ==
    /\ idle' = [sockets EXCEPT ![g] = @ \cup {s}]
    /\ idle_count' = count + 1

(* Older requests first among those of equal priority. *)
InsertRequestIntoQueue(h, p, queue) ==
    LET n == Cardinality({i \in DOMAIN queue : request[queue[i]].priority <= p})
    IN  InsertAt(queue, n + 1, h)

(* RemoveRequestFromQueue without its CleanupBackupJob. *)
RemoveRequestFromQueue(g, h) ==
    pending' = [pending EXCEPT ![g] = RemoveFirst(@, h)]

(* Mutant: the backup timer survives. *)
CleanupBackupJobNever(g, condition) == UNCHANGED backup

(* CleanupBackupJob of g if the caller's condition holds: RemoveRequestFromQueue *)
(* calls it when no request is left, RemoveConnectJob when no job is.            *)
CleanupBackupJob(g, condition) ==
    backup' = [backup EXCEPT ![g] = @ /\ ~condition]

-----------------------------------------------------------------------------
(***************************************************************************)
(* RequestSocketInternal for handle h (None: a preconnect, which does not  *)
(* take idle sockets), returning rv.  It changes groupVars only.  dead is  *)
(* the set of idle sockets AssignIdleSocketToGroup found disconnected and  *)
(* deleted; closed is empty or one idle socket of another group given up   *)
(* for the new connection.                                                 *)
(***************************************************************************)

(* Any idle socket may be the one the scoring of the code prefers. *)
AssignIdleSocketToGroup(g, h, dead, rv) ==
    /\ h # None
    /\ rv = "OK"
    /\ \E s \in idle[g] \ dead :
        /\ idle' = [idle EXCEPT ![g] = @ \ (dead \cup {s})]
        /\ idle_count' = idle_count - Cardinality(dead) - 1
        /\ HandOutSocket(g, h, s)
    /\ group_map' = group_map \cup {g}
    /\ UNCHANGED <<jobs, preconnects, backup, connecting>>

(* What is left when the call returns without a socket or a job. *)
OnlyCleanedUp(g, dead) ==
    /\ idle' = [idle EXCEPT ![g] = @ \ dead]
    /\ idle_count' = idle_count - Cardinality(dead)
    /\ group_map' = group_map \cup {g}
    /\ UNCHANGED <<jobs, active, backup, connecting, handed_out, socket, pool_id>>

TryToUsePreconnectConnectJob(g, h, dead, rv) ==
    /\ h # None
    /\ preconnects[g] > 0
    /\ rv = "PENDING"
    /\ preconnects' = [preconnects EXCEPT ![g] = @ - 1]
    /\ OnlyCleanedUp(g, dead)

(* No slot in the group or none in the pool.  A preconnect gives up when    *)
(* the only idle sockets are its own group's.                               *)
NoSlot(g, h, dead, rv) ==
    LET full == NumActiveSocketSlots(g) - Cardinality(dead) >= MaxSocketsPerGroup
        limit == TotalSockets - Cardinality(dead) >= MaxSockets
    IN  /\ h \notin IgnoreLimits
        /\ \/ full /\ rv = "PENDING"
           \/ /\ ~full /\ limit
              /\ idle_count = Cardinality(dead)
              /\ rv = "PENDING"
           \/ /\ ~full /\ limit
              /\ idle_count > Cardinality(dead)
              /\ \A x \in Groups \ {g} : idle[x] = {}
              /\ h = None /\ rv = "ERROR"
        /\ UNCHANGED preconnects
        /\ OnlyCleanedUp(g, dead)

(* Mutant: the connection is made without closing an idle socket for it. *)
ClosableNone(g, h, dead) == {{}}

(* The idle sockets CloseOneIdleSocketExceptInGroup may close, if it is called; *)
(* which group of the hash map comes first is left open.                        *)
Closable(g, h, dead) ==
    LET others == UNION {idle[x] : x \in Groups \ {g}}
    IN  IF h \in IgnoreLimits \/ TotalSockets - Cardinality(dead) < MaxSockets
        THEN {{}}
        ELSE {{s} : s \in others}

Connect(g, h, dead, closed, rv) ==
    LET left    == [x \in Groups |-> idle[x] \ (dead \cup closed)]
        count   == idle_count - Cardinality(dead \cup closed)
        empty(x) == IsEmpty(x, left[x], pending[x])
        groups  == (group_map \cup {g})
                     \ {x \in Groups \ {g} : idle[x] \cap closed # {} /\ empty(x)}
    IN  \/ /\ rv = "OK" /\ h # None
           /\ \E s \in NewSockets : HandOutSocket(g, h, s)
           /\ idle' = left /\ idle_count' = count
           /\ group_map' = groups
           /\ UNCHANGED <<jobs, preconnects, backup, connecting>>
        \/ /\ rv = "OK" /\ h = None
           /\ \E s \in NewSockets : AddIdleSocket(left, count, g, s)
           /\ group_map' = groups
           /\ UNCHANGED <<jobs, preconnects, active, backup, connecting,
                          handed_out, socket, pool_id>>
        \/ /\ rv = "PENDING"
           /\ jobs[g] < MaxJobs
           /\ backup' = [backup EXCEPT ![g] = @ \/ empty(g)]
           /\ connecting' = connecting + 1
           /\ jobs' = [jobs EXCEPT ![g] = @ + 1]
           /\ preconnects' = [preconnects EXCEPT
                                ![g] = IF h = None THEN @ + 1 ELSE @]
           /\ idle' = left /\ idle_count' = count
           /\ group_map' = groups
           /\ UNCHANGED <<active, handed_out, socket, pool_id>>
        \/ /\ rv = "ERROR" /\ SyncErrors /\ h # None
           /\ \E s \in NewSockets : HandOutSocket(g, h, s)
           /\ idle' = left /\ idle_count' = count
           /\ group_map' = groups
           /\ UNCHANGED <<jobs, preconnects, backup, connecting>>
        \/ /\ rv = "ERROR" /\ SyncErrors
           /\ idle' = left /\ idle_count' = count
           /\ group_map' = IF empty(g) THEN groups \ {g} ELSE groups
           /\ UNCHANGED <<jobs, preconnects, active, backup, connecting,
                          handed_out, socket, pool_id>>

RequestSocketInternal(g, h, rv) ==
    \E dead \in SUBSET idle[g] :
        /\ h = None => dead = {}
        /\ \/ AssignIdleSocketToGroup(g, h, dead, rv)
           \/ /\ h # None => dead = idle[g]
              /\ \/ TryToUsePreconnectConnectJob(g, h, dead, rv)
                 \/ /\ h = None \/ preconnects[g] = 0
                    /\ \/ NoSlot(g, h, dead, rv)
                       \/ /\ \/ h \in IgnoreLimits
                             \/ NumActiveSocketSlots(g) - Cardinality(dead)
                                    < MaxSocketsPerGroup
                          /\ \E closed \in Closable(g, h, dead) :
                                Connect(g, h, dead, closed, rv)

-----------------------------------------------------------------------------
(* ClientSocketHandle::Init and RequestSocket.  HandleInitCompletion keeps  *)
(* the handle if it got a socket, with an error or without.                 *)
RequestSocket(h, g, p) ==
    /\ calls = <<>>
    /\ request[h].state = "free"
    /\ posted[h] < MaxPosted
    /\ \E rv \in {"OK", "PENDING", "ERROR"} :
        /\ RequestSocketInternal(g, h, rv)
        /\ \/ /\ rv = "PENDING"
              /\ request' = [request EXCEPT ![h] = Request("pending", g, p)]
              /\ pending' = [pending EXCEPT ![g] = InsertRequestIntoQueue(h, p, @)]
           \/ /\ rv # "PENDING"
              /\ request' = IF socket'[h] = None THEN request
                            ELSE [request EXCEPT ![h] = Request("initialized", g, p)]
              /\ UNCHANGED pending
    /\ UNCHANGED <<generation, posted, calls>>

(* RequestSockets up to its loop. *)
RequestSockets(g, n) ==
    LET num == IF n > MaxSocketsPerGroup THEN MaxSocketsPerGroup ELSE n
    IN  /\ calls = <<>>
        /\ group_map' = group_map \cup {g}
        /\ calls' = <<Loop(g, num, num)>>
        /\ UNCHANGED <<clientVars, jobs, preconnects, idle, active, backup,
                       idle_count, connecting, handed_out, socket, pool_id>>

RequestSocketsLoop ==
    /\ Running("RequestSockets")
    /\ LET c == Head(calls)
           more == NumActiveSocketSlots(c.group) < c.num /\ c.left > 0
       IN  \/ /\ more
              /\ \E rv \in {"OK", "PENDING", "ERROR"} :
                  /\ RequestSocketInternal(c.group, None, rv)
                  /\ calls' = IF rv # "ERROR"
                              THEN <<Loop(c.group, c.num, c.left - 1)>>
                              ELSE IF c.group \in group_map'
                              THEN <<Loop(c.group, c.num, 0)>>
                              ELSE <<>>
           \/ /\ ~more
              /\ group_map' = IF IsEmpty(c.group, idle[c.group], pending[c.group])
                              THEN group_map \ {c.group} ELSE group_map
              /\ calls' = <<>>
              /\ UNCHANGED <<jobs, preconnects, idle, active, backup,
                             idle_count, connecting, handed_out, socket, pool_id>>
    /\ UNCHANGED clientVars

-----------------------------------------------------------------------------
OnAvailableSocketSlot ==
    /\ Running("OnAvailableSocketSlot")
    /\ LET g == Head(calls).group
           empty == IsEmpty(g, idle[g], pending[g])
       IN  \/ /\ empty
              /\ group_map' = group_map \ {g}
              /\ calls' = Tail(calls)
              /\ UNCHANGED <<jobs, preconnects, idle, active, backup,
                             idle_count, connecting, handed_out, socket, pool_id>>
           \/ /\ ~empty /\ pending[g] = <<>>
              /\ calls' = Tail(calls)
              /\ UNCHANGED groupVars
           \/ /\ pending[g] # <<>>
              /\ \E rv \in {"OK", "PENDING", "ERROR"} :
                  /\ RequestSocketInternal(g, Head(pending[g]), rv)
                  /\ calls' = IF rv = "PENDING" THEN Tail(calls)
                              ELSE <<Processed(g, rv)>> \o Tail(calls)
    /\ UNCHANGED clientVars

(* The entry of pending_callback_map_ for a request r that was answered. *)
CallbackResult(r, rv) ==
    [state |-> "callback", group |-> r.group, priority |-> r.priority, result |-> rv]

(* Mutant: entered in pending_callback_map_, but no task is posted. *)
InvokeUserCallbackNever(h, rv) ==
    /\ request' = [request EXCEPT ![h] = CallbackResult(@, rv)]
    /\ UNCHANGED posted

InvokeUserCallbackLater(h, rv) ==
    /\ request' = [request EXCEPT ![h] = CallbackResult(@, rv)]
    /\ posted' = [posted EXCEPT ![h] = @ + 1]

(* ProcessPendingRequest after RequestSocketInternal returned at once. *)
ProcessPendingRequest ==
    /\ Running("ProcessPendingRequest")
    /\ LET c == Head(calls)
           g == c.group
           h == Head(pending[g])
       IN  /\ RemoveRequestFromQueue(g, h)
           /\ CleanupBackupJob(g, pending'[g] = <<>>)
           /\ group_map' = IF IsEmpty(g, idle[g], pending'[g])
                           THEN group_map \ {g} ELSE group_map
           /\ InvokeUserCallbackLater(h, c.rv)
    /\ calls' = Tail(calls)
    /\ UNCHANGED <<jobs, preconnects, idle, active, idle_count, connecting,
                   handed_out, generation, socket, pool_id>>

StalledGroups == {g \in group_map : pending[g] # <<>> /\ IsStalled(g)}
TopPendingPriority(g) == request[Head(pending[g])].priority

(* FindTopStalledGroup; which of several groups is found is left open. *)
TopStalledGroups ==
    {g \in StalledGroups : \A x \in StalledGroups :
        TopPendingPriority(g) <= TopPendingPriority(x)}

CheckForStalledSocketGroups ==
    /\ Running("CheckForStalledSocketGroups")
    /\ \/ /\ \/ StalledGroups = {}
             \/ ReachedMaxSocketsLimit /\ idle_count = 0
          /\ calls' = Tail(calls)
          /\ UNCHANGED groupVars
       \/ \E g \in TopStalledGroups :
          /\ ~ReachedMaxSocketsLimit
          /\ calls' = <<Slot(g)>> \o Tail(calls)
          /\ UNCHANGED groupVars
       \/ \E g \in TopStalledGroups, x \in Groups : \E s \in idle[x] :
          /\ ReachedMaxSocketsLimit
          /\ idle' = [idle EXCEPT ![x] = @ \ {s}]
          /\ idle_count' = idle_count - 1
          /\ group_map' = IF IsEmpty(x, idle'[x], pending[x])
                          THEN group_map \ {x} ELSE group_map
          /\ calls' = <<Slot(g)>> \o Tail(calls)
          /\ UNCHANGED <<jobs, preconnects, active, backup, connecting,
                         handed_out, socket, pool_id>>
    /\ UNCHANGED clientVars

-----------------------------------------------------------------------------
(* Mutant: the generation is not compared. *)
CanReuseAnyGeneration(h, connected) == connected

(* can_reuse of ReleaseSocket; connected: IsConnectedAndIdle(). *)
CanReuse(h, connected) == connected /\ pool_id[h] = generation

(* Mutant: stalled groups are looked for only if the socket can be reused. *)
AfterReleaseNoStalled(g, can_reuse) ==
    IF can_reuse THEN <<Slot(g), Stalled>> ELSE <<>>

(* What ReleaseSocket calls at its end. *)
AfterRelease(g, can_reuse) ==
    IF can_reuse THEN <<Slot(g), Stalled>> ELSE <<Stalled>>

(* ReleaseSocket of the socket h holds. *)
ReleaseSocket(h, connected) ==
    LET g == request[h].group
        can_reuse == CanReuse(h, connected)
    IN  /\ handed_out' = handed_out - 1
        /\ active' = [active EXCEPT ![g] = @ - 1]
        /\ IF can_reuse THEN AddIdleSocket(idle, idle_count, g, socket[h])
                        ELSE UNCHANGED <<idle, idle_count>>
        /\ calls' = AfterRelease(g, can_reuse)
        /\ request' = [request EXCEPT ![h] = Free]
        /\ socket' = [socket EXCEPT ![h] = None]
        /\ pool_id' = [pool_id EXCEPT ![h] = -1]
        /\ UNCHANGED <<group_map, pending, jobs, preconnects, backup,
                       connecting, generation, posted>>

(* ClientSocketHandle::Reset of an initialized handle. *)
ResetInitialized(h) ==
    /\ calls = <<>>
    /\ request[h].state = "initialized"
    /\ \E connected \in BOOLEAN : ReleaseSocket(h, connected)

(* CancelRequest of a handle whose callback has been posted.  A socket that *)
(* came with an error is disconnected first.                                *)
CancelCallback(h) ==
    /\ calls = <<>>
    /\ request[h].state = "callback"
    /\ \/ /\ socket[h] # None
          /\ \E connected \in BOOLEAN :
                ReleaseSocket(h, connected /\ request[h].result = "OK")
       \/ /\ socket[h] = None
          /\ request' = [request EXCEPT ![h] = Free]
          /\ UNCHANGED <<groupVars, pending, generation, posted, calls>>

(* RemoveConnectJob; unused: the job is a preconnect nobody uses. *)
RemoveConnectJob(g, unused) ==
    /\ IF unused THEN preconnects[g] > 0 ELSE jobs[g] > preconnects[g]
    /\ connecting' = connecting - 1
    /\ jobs' = [jobs EXCEPT ![g] = @ - 1]
    /\ preconnects' = [preconnects EXCEPT ![g] = IF unused THEN @ - 1 ELSE @]

(* CancelRequest of a handle that is still in its group's queue. *)
CancelPending(h) ==
    LET g == request[h].group
    IN  /\ calls = <<>>
        /\ request[h].state = "pending"
        /\ RemoveRequestFromQueue(g, h)
        /\ request' = [request EXCEPT ![h] = Free]
        /\ \/ /\ jobs[g] > 0 /\ ReachedMaxSocketsLimit
              /\ \E unused \in BOOLEAN : RemoveConnectJob(g, unused)
              /\ CleanupBackupJob(g, pending'[g] = <<>> \/ jobs'[g] = 0)
              /\ calls' = <<Stalled>>
           \/ /\ jobs[g] = 0 \/ ~ReachedMaxSocketsLimit
              /\ CleanupBackupJob(g, pending'[g] = <<>>)
              /\ UNCHANGED <<jobs, preconnects, connecting, calls>>
        /\ UNCHANGED <<group_map, idle, active, idle_count, handed_out,
                       generation, socket, pool_id, posted>>

(***************************************************************************)
(* OnConnectJobComplete.  rest: what the caller has still to do.           *)
(***************************************************************************)
OnConnectJobComplete(g, unused, result, rest) ==
    LET h == Head(pending[g])
    IN  /\ RemoveConnectJob(g, unused)
        /\ \/ /\ pending[g] # <<>>
              /\ RemoveRequestFromQueue(g, h)
              /\ CleanupBackupJob(g, pending'[g] = <<>> \/ jobs'[g] = 0)
              /\ InvokeUserCallbackLater(h, result)
              /\ \/ /\ \E s \in NewSockets : HandOutSocket(g, h, s)
                    /\ calls' = rest
                 \/ /\ result = "ERROR"
                    /\ calls' = <<Slot(g), Stalled>> \o rest
                    /\ UNCHANGED <<active, handed_out, socket, pool_id>>
              /\ UNCHANGED <<idle, idle_count>>
           \/ /\ pending[g] = <<>>
              /\ CleanupBackupJob(g, jobs'[g] = 0)
              /\ IF result = "OK"
                 THEN \E s \in NewSockets : AddIdleSocket(idle, idle_count, g, s)
                 ELSE UNCHANGED <<idle, idle_count>>
              /\ calls' = <<Slot(g), Stalled>> \o rest
              /\ UNCHANGED <<pending, active, handed_out, socket, pool_id,
                             request, posted>>
        /\ UNCHANGED <<group_map, generation>>

ConnectJobCompletes(g) ==
    /\ calls = <<>>
    /\ \E unused \in BOOLEAN, result \in {"OK", "ERROR"} :
        OnConnectJobComplete(g, unused, result, <<>>)

(* The backup job connected, or failed, without blocking. *)
BackupJobCompletes ==
    /\ Running("OnConnectJobComplete")
    /\ OnConnectJobComplete(Head(calls).group, FALSE, Head(calls).rv, Tail(calls))

(***************************************************************************)
(* Group::StartBackupSocketTimer called from the timer's own task.  That   *)
(* task still holds the weak pointer method_factory_ gave it, so the       *)
(* factory is not empty, and no new timer is posted.                       *)
(***************************************************************************)
RestartBackupSocketTimer(g) == backup' = [backup EXCEPT ![g] = FALSE]

OnBackupSocketTimerFired(g) ==
    /\ calls = <<>>
    /\ backup[g]
    /\ \/ /\ RestartBackupSocketTimer(g)
          /\ UNCHANGED <<jobs, connecting, calls>>
       \/ /\ ~ReachedMaxSocketsLimit /\ HasAvailableSocketSlot(g)
          /\ pending[g] = <<>>
          /\ backup' = [backup EXCEPT ![g] = FALSE]
          /\ UNCHANGED <<jobs, connecting, calls>>
       \/ /\ ~ReachedMaxSocketsLimit /\ HasAvailableSocketSlot(g)
          /\ pending[g] # <<>>
          /\ backup' = [backup EXCEPT ![g] = FALSE]
          /\ connecting' = connecting + 1
          /\ jobs' = [jobs EXCEPT ![g] = @ + 1]
          /\ calls' \in {<<>>, <<Complete(g, "OK")>>}
                        \cup (IF SyncErrors THEN {<<Complete(g, "ERROR")>>} ELSE {})
    /\ UNCHANGED <<group_map, preconnects, idle, active, idle_count,
                   handed_out, socket, pool_id, clientVars>>

-----------------------------------------------------------------------------
(* CleanupIdleSockets: the timer removes the sockets that timed out or were *)
(* disconnected, CloseIdleSockets all of them.                              *)
CleanupIdleSockets ==
    /\ calls = <<>>
    /\ idle_count > 0
    /\ \E gone \in SUBSET IdleSockets :
        /\ idle' = [g \in Groups |-> idle[g] \ gone]
        /\ idle_count' = idle_count - Cardinality(gone)
        /\ group_map' = {g \in group_map : ~IsEmpty(g, idle'[g], pending[g])}
    /\ UNCHANGED <<jobs, preconnects, active, backup, connecting, handed_out,
                   socket, pool_id, clientVars, calls>>

(* One element for each ConnectJob of the groups G, to count them. *)
ConnectJobs(G) == UNION {{g} \X (1..jobs[g]) : g \in G}

CancelAllConnectJobs ==
    /\ connecting' = connecting - Cardinality(ConnectJobs(group_map))
    /\ jobs' = [g \in Groups |-> IF g \in group_map THEN 0 ELSE jobs[g]]
    /\ preconnects' = [g \in Groups |-> IF g \in group_map THEN 0 ELSE preconnects[g]]
    /\ backup' = [g \in Groups |-> backup[g] /\ g \notin group_map]

AbortAllRequests ==
    LET aborted == {h \in Handles : request[h].state = "pending"}
    IN  /\ pending' = [g \in Groups |-> <<>>]
        /\ request' = [h \in Handles |->
                        IF h \in aborted
                        THEN CallbackResult(request[h], "ABORTED")
                        ELSE request[h]]
        /\ posted' = [h \in Handles |-> IF h \in aborted THEN posted[h] + 1
                                        ELSE posted[h]]

(* Flush, on a change of the IP address or by request.  A group is deleted as *)
(* soon as one of its three loops finds it empty: what is left has sockets in *)
(* use.                                                                       *)
Flush ==
    /\ calls = <<>>
    /\ generation < MaxFlushes
    /\ generation' = generation + 1
    /\ CancelAllConnectJobs
    /\ idle' = [g \in Groups |-> {}]
    /\ idle_count' = 0
    /\ AbortAllRequests
    /\ group_map' = {g \in group_map : active[g] > 0}
    /\ UNCHANGED <<active, handed_out, socket, pool_id, calls>>

(* A posted task; it finds nothing if the request was cancelled. *)
InvokeUserCallback(h) ==
    /\ calls = <<>>
    /\ posted[h] > 0
    /\ posted' = [posted EXCEPT ![h] = @ - 1]
    /\ request' = IF request[h].state # "callback" THEN request
                  ELSE [request EXCEPT ![h] = IF socket[h] = None THEN Free
                                              ELSE Request("initialized", @.group, @.priority)]
    /\ UNCHANGED <<groupVars, pending, generation, calls>>

-----------------------------------------------------------------------------
Continue ==
    \/ RequestSocketsLoop
    \/ OnAvailableSocketSlot
    \/ ProcessPendingRequest
    \/ CheckForStalledSocketGroups
    \/ BackupJobCompletes

Next ==
    \/ Continue
    \/ \E h \in Handles : \/ \E g \in Groups, p \in Priorities : RequestSocket(h, g, p)
                          \/ ResetInitialized(h)
                          \/ CancelCallback(h)
                          \/ CancelPending(h)
                          \/ InvokeUserCallback(h)
    \/ \E g \in Groups : \/ \E n \in Preconnects : RequestSockets(g, n)
                         \/ ConnectJobCompletes(g)
                         \/ OnBackupSocketTimerFired(g)
    \/ CleanupIdleSockets
    \/ Flush

(***************************************************************************)
(* What has begun goes on; a posted task runs; every ConnectJob ends, by   *)
(* its own timeout timer at the latest; and clients give back the sockets  *)
(* they were given.  Strong fairness, because another entry point may      *)
(* always come first.  Nobody has to make, cancel or flush requests.       *)
(***************************************************************************)
Fairness ==
    /\ WF_vars(Continue)
    /\ \A h \in Handles : /\ SF_vars(InvokeUserCallback(h))
                          /\ SF_vars(ResetInitialized(h))
    /\ \A g \in Groups : SF_vars(ConnectJobCompletes(g))

Spec == Init /\ [][Next]_vars
FairSpec == Spec /\ Fairness

-----------------------------------------------------------------------------
(* Type correctness. *)
TypeOK ==
    /\ group_map \subseteq Groups
    /\ pending \in [Groups -> Seq(Handles)]
    /\ jobs \in [Groups -> Nat] /\ preconnects \in [Groups -> Nat]
    /\ idle \in [Groups -> SUBSET Socket]
    /\ active \in [Groups -> Nat]
    /\ backup \in [Groups -> BOOLEAN]
    /\ idle_count \in Nat /\ connecting \in Nat /\ handed_out \in Nat
    /\ generation \in Nat
    /\ request \in [Handles -> [state : {"free", "pending", "callback", "initialized"},
                                group : Groups \cup {None},
                                priority : Priorities \cup {0},
                                result : Results]]
    /\ socket \in [Handles -> Socket \cup {None}]
    /\ pool_id \in [Handles -> Int]
    /\ posted \in [Handles -> Nat]

Holders(g) == {h \in Handles : socket[h] # None /\ request[h].group = g}

(***************************************************************************)
(* The pool's counters are what they count, in every group and in total,   *)
(* whatever was cancelled, flushed, released late or failed on the way.    *)
(* All CHECK_GT(count, 0) of the code follow.                              *)
(***************************************************************************)
CountersExact ==
    /\ connecting = Cardinality(ConnectJobs(Groups))
    /\ idle_count = Cardinality(IdleSockets)
    /\ handed_out = Cardinality({h \in Handles : socket[h] # None})
    /\ \A g \in Groups : active[g] = Cardinality(Holders(g))

(* max_sockets_ and max_sockets_per_group_ hold at every moment, unless some *)
(* requests may ignore them.                                                 *)
LimitsRespected ==
    IgnoreLimits = {} =>
        /\ TotalSockets <= MaxSockets
        /\ \A g \in Groups : NumActiveSocketSlots(g) <= MaxSocketsPerGroup

(***************************************************************************)
(* Connections made before a Flush are never reused after it: every idle   *)
(* socket is of the current generation, although active sockets come back  *)
(* at any time later.                                                      *)
(***************************************************************************)
NoStaleReuse == \A g \in Groups : \A s \in idle[g] : s.born = generation

(* A socket has one owner: a group's idle list or one handle. *)
SocketHasOneOwner ==
    /\ \A g, x \in Groups : \A s \in idle[g], t \in idle[x] :
          s.id = t.id => g = x /\ s = t
    /\ \A h, k \in Handles : h # k /\ socket[h] # None /\ socket[k] # None =>
          socket[h].id # socket[k].id
    /\ \A g \in Groups : \A s \in idle[g] : \A h \in Handles :
          socket[h] # None => socket[h].id # s.id

(***************************************************************************)
(* A Group object exists as long as somebody will ask for it: clients with *)
(* sockets or queued requests, jobs that will complete, timers, and the    *)
(* calls the running entry point has still to make.                        *)
(***************************************************************************)
GroupsExistWhileUsed ==
    /\ \A g \in Groups \ group_map :
          /\ active[g] = 0 /\ idle[g] = {} /\ jobs[g] = 0
          /\ pending[g] = <<>> /\ ~backup[g]
    /\ \A i \in DOMAIN calls :
          calls[i].op # "CheckForStalledSocketGroups" => calls[i].group \in group_map
    /\ \A h \in Handles : request[h].state = "pending" =>
          \E i \in DOMAIN pending[request[h].group] :
              pending[request[h].group][i] = h

(* A backup timer is pending only in a group with a job: the NOTREACHED() of *)
(* OnBackupSocketTimerFired is not reached.                                  *)
BackupTimerHasJob == \A g \in Groups : backup[g] => jobs[g] > 0

(* Groups, sockets and timers fit together: no socket in two hands, no use  *)
(* of a deleted Group (CHECK(ContainsKey(group_map_, ...))), no timer        *)
(* without a job.                                                            *)
GroupsConsistent ==
    TypeOK /\ SocketHasOneOwner /\ GroupsExistWhileUsed /\ BackupTimerHasJob

(* Every entry of pending_callback_map_ has a task that will deliver it, even *)
(* if tasks of cancelled requests of the same handle are around.              *)
CallbacksScheduled ==
    \A h \in Handles : request[h].state = "callback" => posted[h] > 0

(***************************************************************************)
(* No request waits without reason: between entry points, a group that     *)
(* could have another connection for a request of its own has it, unless   *)
(* the pool is full and nothing is idle.  It is meant for preconnects that *)
(* keep to the limits and for connections that do not fail at once.        *)
(***************************************************************************)
NoNeedlessStall ==
    calls = <<>> =>
        \A g \in Groups : IsStalled(g) => ReachedMaxSocketsLimit /\ idle_count = 0

(***************************************************************************)
(* "there is no starvation", client_socket_pool_base.cc:753-756, of the    *)
(* decision not to loop over stalled groups: a request that waits in its   *)
(* group's queue gets an answer.                                           *)
(***************************************************************************)
NoStarvation ==
    \A h \in Handles :
        request[h].state = "pending" ~> request[h].state # "pending"
=============================================================================
