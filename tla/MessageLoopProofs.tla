------------------------- MODULE MessageLoopProofs -------------------------
(***************************************************************************)
(* Proofs about MessageLoop, for any number of tasks, nested loops, delays *)
(* and starts of the Thread: no task is lost or run twice, the pump does   *)
(* not sleep over work, tasks run in order and not early, what was posted  *)
(* before Stop runs before the thread ends, and nobody posts to a loop     *)
(* that is gone.                                                           *)
(***************************************************************************)
EXTENDS MessageLoop, ListLemmas

(* The tasks of the four queues and their types. *)
DelayedTasks == {t \in Task : t.time # 0}
NonNestable == {t \in Task : t.nestable = FALSE}

QueueTypes ==
  /\ incoming \in Seq(Task) /\ work \in Seq(Task)
  /\ delayed \in Seq(DelayedTasks) /\ deferred \in Seq(NonNestable)
  /\ posted \in 0..MaxTasks

(* Ids grow along a queue. *)
Increasing(q) == \A i, j \in DOMAIN q : i < j => q[i].id < q[j].id

(* work_queue_ followed by incoming_queue_ is in the order of posting. *)
OrderOK ==
  /\ Increasing(incoming) /\ Increasing(work)
  /\ \A t \in ToSet(work), u \in ToSet(incoming) : t.id < u.id

(* The tasks in the queues, each in one of them and once. *)
AllQueued == ToSet(incoming) \cup ToSet(work) \cup ToSet(delayed) \cup ToSet(deferred)

Apart ==
  /\ NoDup(delayed) /\ NoDup(deferred)
  /\ ToSet(incoming) \cap ToSet(work) = {} /\ ToSet(incoming) \cap ToSet(delayed) = {}
  /\ ToSet(incoming) \cap ToSet(deferred) = {} /\ ToSet(work) \cap ToSet(delayed) = {}
  /\ ToSet(work) \cap ToSet(deferred) = {} /\ ToSet(delayed) \cap ToSet(deferred) = {}

(* Every task that was posted is queued, was started or was deleted. *)
TasksOK ==
  /\ Apart
  /\ \A t, u \in AllQueued : t.id = u.id => t = u
  /\ \A t \in AllQueued : t.id \in 1..posted /\ t.id \notin ran /\ t.id \notin deleted
  /\ ran \subseteq 1..posted /\ deleted \subseteq 1..posted /\ ran \cap deleted = {}
  /\ \A n \in 1..posted : n \notin ran /\ n \notin deleted => \E t \in AllQueued : t.id = n

Methods == {"DoWork", "DoDelayedWork", "DoIdleWork"}

(* The Run calls on the stack: each but the innermost is in a task that runs a *)
(* nested loop, and QuitNow is pending only in a nested one.                   *)
RunsOK ==
  /\ runs \in Seq(Run) /\ Len(runs) <= MaxDepth
  /\ thread = "run" <=> runs # <<>>
  /\ \A i \in DOMAIN runs : /\ i < Len(runs) => runs[i].task # NoTask /\ runs[i].is_quit = FALSE
                            /\ runs[i].task # NoTask => runs[i].pc \in Methods
                            /\ runs[i].task = NoTask => runs[i].is_quit = FALSE
  /\ nestable_tasks_allowed \in BOOLEAN /\ keep_running \in BOOLEAN /\ event \in BOOLEAN
  /\ thread = "run" /\ InTask => nestable_tasks_allowed = FALSE
  /\ keep_running = FALSE => Len(runs) > 1

TimesOK ==
  /\ recent_time \in 0..MaxTime /\ now \in 1..MaxTime /\ recent_time <= now
  /\ delayed_work_time \in 0..MaxTime

(* The Thread, its owner and the proxy. *)
HandshakeOK ==
  /\ proxy \in BOOLEAN /\ proxy_locked \in BOOLEAN /\ started_event \in BOOLEAN
  /\ message_loop \in BOOLEAN /\ stopping \in BOOLEAN /\ starts \in 0..MaxStarts
  /\ thread \in {"none", "created", "init", "run", "cleanup", "destroy", "orphan", "exited"}
  /\ owner \in {"idle", "starting", "started", "signal", "join"}
  /\ proxy = TRUE <=> thread \in {"init", "run", "cleanup", "destroy", "orphan"}
  /\ proxy_locked = TRUE => proxy = TRUE
  /\ message_loop = TRUE <=> thread \in {"init", "run", "cleanup"}
  /\ owner = "idle" <=> thread = "none"
  /\ owner = "idle" => stopping = FALSE
  /\ owner = "starting" => /\ stopping = FALSE /\ thread \in {"created", "init", "run"}
                           /\ started_event = TRUE => thread = "run"
  /\ owner \in {"started", "signal"} /\ stopping = FALSE => thread = "run"
  /\ owner = "join" => stopping = TRUE
  /\ thread \in {"created", "init"} => owner = "starting" /\ started_event = FALSE

(* The queues of a loop that is not there are empty. *)
QueuesGone ==
  /\ thread \in {"none", "created", "init", "orphan", "exited"} =>
       work = <<>> /\ delayed = <<>> /\ deferred = <<>>
  /\ thread \in {"none", "created", "exited"} => incoming = <<>>

(* The ThreadQuitTask: it is queued, or it has run, and then so has every task *)
(* posted before it without a delay, up to the deferred ones.                  *)
QuitQueues ==
  /\ \A t \in AllQueued :
       /\ t.quit = TRUE => t.id = quit_task
       /\ t.id = quit_task => stopping = TRUE /\ t.time = 0 /\ t.nestable = TRUE
  /\ quit_task \in ran => \A t \in ToSet(incoming) \cup ToSet(work) :
       t.time = 0 => t.id > quit_task

(* The outermost Run is quit by it alone. *)
QuitRuns ==
  /\ \A i \in DOMAIN runs : runs[i].is_quit = TRUE => stopping = TRUE /\ quit_task \in ran
  /\ runs # <<>> /\ runs[1].quit_received = TRUE => stopping = TRUE /\ quit_task \in ran

QuitOK ==
  /\ quit_task \in 0..posted
  /\ QuitQueues /\ QuitRuns
  /\ thread \in {"cleanup", "destroy", "orphan", "exited"} => quit_task \in ran
  /\ thread = "cleanup" => deferred = <<>>

(* The innermost Run is between tasks and has found no work to do. *)
FoundNoWork ==
  /\ thread = "run" /\ ~InTask
  /\ Top.pc \in {"DoIdleWork", "Wait", "Sleep"} \/ (Top.pc = "DoDelayedWork" /\ Top.did_work = FALSE)

WakeOK ==
  FoundNoWork /\ nestable_tasks_allowed = TRUE /\ (incoming # <<>> \/ work # <<>>)
    => event = TRUE \/ proxy_locked = TRUE \/ owner = "signal"

DueOK ==
  (/\ thread = "run" /\ ~InTask /\ Top.pc \in {"DoIdleWork", "Wait", "Sleep"}
   /\ nestable_tasks_allowed = TRUE /\ delayed # <<>>)
    => delayed_work_time \in 1..delayed[TopIndex(delayed)].time

(* The inductive invariant. *)
IInv ==
  /\ QueueTypes /\ OrderOK /\ TasksOK
  /\ RunsOK /\ TimesOK /\ HandshakeOK /\ QueuesGone
  /\ QuitOK /\ WakeOK /\ DueOK
-----------------------------------------------------------------------------
(* The stack of Run calls. *)

LEMMA NoTaskTyped == NoTask \in 0..MaxTasks
BY BoundsAssumption DEF NoTask

LEMMA RunTypes ==
  /\ \A quit \in BOOLEAN, did \in BOOLEAN, pc \in Methods \cup {"Wait", "Sleep"} :
       /\ Between(quit, pc, did) \in Run
       /\ Between(quit, pc, did).quit_received = quit /\ Between(quit, pc, did).pc = pc
       /\ Between(quit, pc, did).did_work = did /\ Between(quit, pc, did).task = NoTask
       /\ Between(quit, pc, did).is_quit = FALSE
  /\ \A r \in Run, quit \in BOOLEAN, task \in 0..MaxTasks, is_quit \in BOOLEAN, nested \in BOOLEAN :
       /\ Within(r, quit, task, is_quit, nested) \in Run
       /\ Within(r, quit, task, is_quit, nested).quit_received = quit
       /\ Within(r, quit, task, is_quit, nested).pc = r.pc
       /\ Within(r, quit, task, is_quit, nested).task = task
       /\ Within(r, quit, task, is_quit, nested).is_quit = is_quit
BY NoTaskTyped DEF Between, Within, Run, Methods

LEMMA TopRun ==
  ASSUME RunsOK, thread = "run"
  PROVE  /\ Len(runs) \in Nat /\ Len(runs) >= 1 /\ DOMAIN runs = 1..Len(runs)
         /\ Top \in Run /\ Top = runs[Len(runs)]
         /\ \A i \in DOMAIN runs : runs[i] \in Run
<1>1. runs \in Seq(Run) /\ runs # <<>>
  BY DEF RunsOK
<1>2. Len(runs) \in Nat /\ Len(runs) >= 1 /\ DOMAIN runs = 1..Len(runs)
  BY <1>1
<1>3. \A i \in DOMAIN runs : runs[i] \in Run
  BY <1>1
<1>4. QED
  BY <1>2, <1>3 DEF Top

LEMMA ReplaceLast ==
  ASSUME NEW S, NEW s \in Seq(S), NEW e \in S, Len(s) >= 1, NEW t, t = [s EXCEPT ![Len(s)] = e]
  PROVE  /\ t \in Seq(S) /\ Len(t) = Len(s) /\ t[Len(s)] = e
         /\ \A i \in 1..Len(s) : i < Len(s) => t[i] = s[i]
<1>1. Len(s) \in Nat /\ Len(s) \in 1..Len(s)
  OBVIOUS
<1>2. QED
  BY <1>1

LEMMA PushLast ==
  ASSUME NEW S, NEW s \in Seq(S), NEW e \in S, NEW n \in S, Len(s) >= 1,
         NEW t, t = Append([s EXCEPT ![Len(s)] = e], n)
  PROVE  /\ t \in Seq(S) /\ Len(t) = Len(s) + 1 /\ t[Len(s) + 1] = n /\ t[Len(s)] = e
         /\ \A i \in 1..Len(s) : i < Len(s) => t[i] = s[i]
<1>1. PICK r : r = [s EXCEPT ![Len(s)] = e]
  OBVIOUS
<1>2. /\ r \in Seq(S) /\ Len(r) = Len(s) /\ r[Len(s)] = e
      /\ \A i \in 1..Len(s) : i < Len(s) => r[i] = s[i]
  BY <1>1, ReplaceLast
<1>3. t = Append(r, n)
  BY <1>1
<1>4. Len(s) \in Nat
  OBVIOUS
<1>5. QED
  BY <1>2, <1>3, <1>4, AppendProperties

(* SetTop replaces the innermost Run. *)
LEMMA SetTopRuns ==
  ASSUME RunsOK, thread = "run", NEW r \in Run, SetTop(r)
  PROVE  /\ runs' \in Seq(Run) /\ Len(runs') = Len(runs) /\ runs' # <<>>
         /\ DOMAIN runs' = 1..Len(runs) /\ Top' = r /\ runs'[Len(runs)] = r
         /\ \A i \in 1..Len(runs) : i < Len(runs) => runs'[i] = runs[i]
<1>1. Len(runs) \in Nat /\ Len(runs) >= 1 /\ runs \in Seq(Run)
  BY TopRun DEF RunsOK
<1>2. runs' = [runs EXCEPT ![Len(runs)] = r]
  BY DEF SetTop
<1>3. /\ runs' \in Seq(Run) /\ Len(runs') = Len(runs) /\ runs'[Len(runs)] = r
      /\ \A i \in 1..Len(runs) : i < Len(runs) => runs'[i] = runs[i]
  BY <1>1, <1>2, ReplaceLast
<1>4. DOMAIN runs' = 1..Len(runs) /\ runs' # <<>>
  BY <1>1, <1>3
<1>5. QED
  BY <1>3, <1>4 DEF Top

(* LeaveRun drops it. *)
LEMMA FrontRuns ==
  ASSUME RunsOK, thread = "run", runs' = Front(runs)
  PROVE  /\ runs' \in Seq(Run) /\ Len(runs') = Len(runs) - 1
         /\ DOMAIN runs' = 1..(Len(runs) - 1)
         /\ \A i \in 1..(Len(runs) - 1) : runs'[i] = runs[i]
         /\ Len(runs) = 1 <=> runs' = <<>>
<1>1. /\ Len(runs) \in Nat /\ Len(runs) >= 1 /\ DOMAIN runs = 1..Len(runs)
      /\ runs \in Seq(Run)
  BY TopRun DEF RunsOK
<1>2. runs' = SubSeq(runs, 1, Len(runs) - 1)
  BY DEF Front
<1>3. /\ runs' \in Seq(Run) /\ Len(runs') = Len(runs) - 1
      /\ \A i \in 1..(Len(runs) - 1) : runs'[i] = runs[i]
  BY <1>1, <1>2
<1>4. QED
  BY <1>1, <1>3

(* RunNested pushes a new one. *)
LEMMA PushRuns ==
  ASSUME RunsOK, thread = "run", NEW r \in Run, NEW n \in Run,
         runs' = Append([runs EXCEPT ![Len(runs)] = r], n)
  PROVE  /\ runs' \in Seq(Run) /\ Len(runs') = Len(runs) + 1 /\ runs' # <<>>
         /\ DOMAIN runs' = 1..(Len(runs) + 1) /\ Top' = n
         /\ runs'[Len(runs)] = r
         /\ \A i \in 1..Len(runs) : i < Len(runs) => runs'[i] = runs[i]
<1>1. Len(runs) \in Nat /\ Len(runs) >= 1 /\ runs \in Seq(Run)
  BY TopRun DEF RunsOK
<1>2. /\ runs' \in Seq(Run) /\ Len(runs') = Len(runs) + 1
      /\ runs'[Len(runs) + 1] = n /\ runs'[Len(runs)] = r
      /\ \A i \in 1..Len(runs) : i < Len(runs) => runs'[i] = runs[i]
  BY <1>1, PushLast
<1>3. DOMAIN runs' = 1..(Len(runs) + 1) /\ runs'[Len(runs')] = n /\ runs' # <<>>
  BY <1>1, <1>2
<1>4. QED
  BY <1>1, <1>2, <1>3 DEF Top

-----------------------------------------------------------------------------
(* The task on top of delayed_work_queue_. *)

(* TopIndex finds a task that is due first and, of those, was queued first. *)
LEMMA TopIndexFound ==
  ASSUME NEW q \in Seq(DelayedTasks), q # <<>>
  PROVE  /\ TopIndex(q) \in DOMAIN q
         /\ \A j \in DOMAIN q : \/ q[TopIndex(q)].time < q[j].time
                                \/ q[TopIndex(q)].time = q[j].time /\ TopIndex(q) <= j
<1>1. /\ Len(q) \in Nat /\ Len(q) >= 1 /\ DOMAIN q = 1..Len(q)
      /\ \A i \in DOMAIN q : q[i] \in DelayedTasks
  OBVIOUS
<1>2. \A i \in DOMAIN q : q[i].time \in Nat
  BY <1>1 DEF DelayedTasks, Task
<1> DEFINE T == {q[i].time : i \in DOMAIN q}
<1>3. T \subseteq Nat /\ T # {}
  BY <1>1, <1>2
<1>4. PICK x \in T : \A y \in T : x <= y
  BY <1>3, LeastNumber
<1>4a. \A j \in DOMAIN q : x <= q[j].time
  BY <1>4
<1> DEFINE I == {i \in DOMAIN q : q[i].time = x}
<1>5. I \subseteq Nat /\ I # {}
  BY <1>1, <1>4
<1>6. PICK i \in I : \A j \in I : i <= j
  BY <1>5, LeastNumber
<1>7. i \in DOMAIN q /\ \A j \in DOMAIN q : \/ q[i].time < q[j].time
                                            \/ q[i].time = q[j].time /\ i <= j
  <2>1. i \in DOMAIN q /\ q[i].time = x
    BY <1>6
  <2>2. ASSUME NEW j \in DOMAIN q
        PROVE  q[i].time < q[j].time \/ (q[i].time = q[j].time /\ i <= j)
    <3>1. x \in Nat /\ q[j].time \in Nat /\ x <= q[j].time
      BY <1>2, <1>3, <1>4a
    <3>2. q[j].time = x => i <= j
      BY <1>6
    <3>3. QED
      BY <2>1, <3>1, <3>2
  <2>3. QED
    BY <2>1, <2>2
<1>8. QED
  BY <1>7 DEF TopIndex
-----------------------------------------------------------------------------
(* The queues. *)

(* A task leaves the queues and is started. *)
LEMMA TaskStarts ==
  ASSUME TasksOK, NEW t \in AllQueued, AllQueued' = AllQueued \ {t}, Apart',
         ran' = ran \cup {t.id}, UNCHANGED <<posted, deleted>>
  PROVE  TasksOK'
<1>1. \A u, v \in AllQueued' : u.id = v.id => u = v
  BY DEF TasksOK
<1>2. t.id \in 1..posted /\ t.id \notin deleted
  BY DEF TasksOK
<1>3. \A u \in AllQueued' : u.id \in 1..posted' /\ u.id \notin ran' /\ u.id \notin deleted'
  BY DEF TasksOK
<1>4. ran' \subseteq 1..posted' /\ deleted' \subseteq 1..posted' /\ ran' \cap deleted' = {}
  BY <1>2 DEF TasksOK
<1>5. \A n \in 1..posted' : n \notin ran' /\ n \notin deleted' => \E u \in AllQueued' : u.id = n
  BY DEF TasksOK
<1>6. QED
  BY <1>1, <1>3, <1>4, <1>5 DEF TasksOK

(* A task changes queues. *)
LEMMA TaskMoves ==
  ASSUME TasksOK, AllQueued' = AllQueued, Apart', UNCHANGED <<posted, ran, deleted>>
  PROVE  TasksOK'
BY DEF TasksOK

(* AddToIncomingQueue. *)
LEMMA PostTask ==
  ASSUME QueueTypes, OrderOK, TasksOK, TimesOK,
         NEW delay \in Nat, NEW nestable \in BOOLEAN, NEW quit \in BOOLEAN,
         AddToIncomingQueue(delay, nestable, quit),
         UNCHANGED <<work, delayed, deferred, ran, deleted>>
  PROVE  /\ QueueTypes' /\ OrderOK' /\ TasksOK' /\ incoming' # <<>> /\ posted' = posted + 1
         /\ \E t \in Task : /\ t.id = posted + 1 /\ t.nestable = nestable /\ t.quit = quit
                            /\ t.time = CalculateDelayedRuntime(delay)
                            /\ ToSet(incoming') = ToSet(incoming) \cup {t}
                            /\ AllQueued' = AllQueued \cup {t}
<1> DEFINE t == [id |-> posted + 1, time |-> CalculateDelayedRuntime(delay),
                 nestable |-> nestable, quit |-> quit]
<1>1. /\ posted < MaxTasks /\ CalculateDelayedRuntime(delay) <= MaxTime
      /\ posted' = posted + 1 /\ incoming' = Append(incoming, t)
  BY DEF AddToIncomingQueue
<1>2. posted \in Nat /\ MaxTasks \in Nat /\ posted + 1 \in 1..MaxTasks
  BY <1>1, BoundsAssumption DEF QueueTypes
<1>3. CalculateDelayedRuntime(delay) \in 0..MaxTime
  BY <1>1, BoundsAssumption DEF CalculateDelayedRuntime, TimesOK
<1>4. /\ t \in Task /\ t.id = posted + 1 /\ t.time = CalculateDelayedRuntime(delay)
      /\ t.nestable = nestable /\ t.quit = quit
  BY <1>2, <1>3 DEF Task
<1> HIDE DEF t
<1>5. incoming \in Seq(Task) /\ incoming' \in Seq(Task)
  BY <1>1, <1>4 DEF QueueTypes
<1>6. ToSet(incoming') = ToSet(incoming) \cup {t}
  BY <1>1, <1>4, <1>5, AppendList
<1>7. AllQueued' = AllQueued \cup {t}
  BY <1>6 DEF AllQueued
<1>8. QueueTypes'
  BY <1>1, <1>2, <1>5 DEF QueueTypes
<1>9. \A u \in AllQueued : u.id \in 1..posted
  BY DEF TasksOK
<1>10. t \notin AllQueued
  BY <1>2, <1>4, <1>9
<1>11. OrderOK'
  <2>1. \A u \in ToSet(incoming) : u.id < t.id
    BY <1>2, <1>4, <1>9 DEF AllQueued
  <2>2. \A u \in ToSet(work) : u.id < t.id
    BY <1>2, <1>4, <1>9 DEF AllQueued
  <2>3. Increasing(incoming')
    <3>1. \A i \in DOMAIN incoming : incoming[i].id < t.id
      BY <2>1 DEF ToSet
    <3>2. /\ Len(incoming') = Len(incoming) + 1 /\ incoming'[Len(incoming) + 1] = t
          /\ \A i \in 1..Len(incoming) : incoming'[i] = incoming[i]
      BY <1>1, <1>4, <1>5, AppendProperties
    <3>3. DOMAIN incoming' = 1..(Len(incoming) + 1) /\ Len(incoming) \in Nat
          /\ DOMAIN incoming = 1..Len(incoming)
      BY <1>5, <3>2
    <3>4. ASSUME NEW i \in DOMAIN incoming', NEW j \in DOMAIN incoming', i < j
          PROVE  incoming'[i].id < incoming'[j].id
      <4>1. i \in 1..Len(incoming)
        BY <3>3, <3>4
      <4>2. CASE j = Len(incoming) + 1
        BY <3>1, <3>2, <3>3, <4>1, <4>2
      <4>3. CASE j \in 1..Len(incoming)
        BY <3>2, <3>3, <3>4, <4>1, <4>3 DEF OrderOK, Increasing
      <4>4. QED
        BY <3>3, <4>2, <4>3
    <3>5. QED
      BY <3>4 DEF Increasing
  <2>4. QED
    BY <1>6, <2>2, <2>3 DEF OrderOK
<1>12. TasksOK'
  <2>1. Apart'
    BY <1>6, <1>10 DEF TasksOK, Apart, AllQueued
  <2>2. \A u, v \in AllQueued' : u.id = v.id => u = v
    BY <1>2, <1>4, <1>7, <1>9 DEF TasksOK
  <2>3. \A u \in AllQueued' : u.id \in 1..posted' /\ u.id \notin ran' /\ u.id \notin deleted'
    <3>1. posted + 1 \notin ran /\ posted + 1 \notin deleted
      BY <1>2 DEF TasksOK
    <3>2. QED
      BY <1>1, <1>2, <1>4, <1>7, <3>1 DEF TasksOK
  <2>4. ran' \subseteq 1..posted' /\ deleted' \subseteq 1..posted' /\ ran' \cap deleted' = {}
    BY <1>1, <1>2 DEF TasksOK
  <2>5. \A n \in 1..posted' : n \notin ran' /\ n \notin deleted' => \E u \in AllQueued' : u.id = n
    <3>1. \A n \in 1..posted' : n \in 1..posted \/ n = posted + 1
      BY <1>1, <1>2
    <3>2. QED
      BY <1>4, <1>7, <3>1 DEF TasksOK
  <2>6. QED
    BY <2>1, <2>2, <2>3, <2>4, <2>5 DEF TasksOK
<1>13. incoming' # <<>>
  BY <1>1, <1>4, <1>5, AppendProperties
<1>14. QED
  BY <1>1, <1>4, <1>6, <1>7, <1>8, <1>11, <1>12, <1>13

(* The head of an ordered queue is its oldest task. *)
LEMMA TailIncreasing ==
  ASSUME NEW q \in Seq(Task), Increasing(q), q # <<>>
  PROVE  /\ Head(q) \in Task /\ Head(q) \in ToSet(q)
         /\ Tail(q) \in Seq(Task) /\ Increasing(Tail(q))
         /\ ToSet(Tail(q)) = ToSet(q) \ {Head(q)}
         /\ \A t \in ToSet(Tail(q)) : Head(q).id < t.id
<1>1. /\ Len(q) \in Nat /\ Len(q) >= 1 /\ Head(q) = q[1] /\ DOMAIN q = 1..Len(q)
      /\ \A i \in 1..Len(q) : q[i] \in Task /\ q[i].id \in Nat
  <2>1. Len(q) \in Nat /\ Len(q) >= 1 /\ Head(q) = q[1] /\ DOMAIN q = 1..Len(q)
        /\ \A i \in 1..Len(q) : q[i] \in Task
    OBVIOUS
  <2>2. \A t \in Task : t.id \in Nat
    BY DEF Task
  <2>3. QED
    BY <2>1, <2>2
<1>2. NoDup(q)
  BY <1>1 DEF NoDup, Increasing
<1>3. /\ Head(q) \in Task /\ Head(q) \in ToSet(q) /\ Tail(q) \in Seq(Task)
      /\ ToSet(Tail(q)) = ToSet(q) \ {Head(q)}
  BY <1>2, TailList
<1>4. /\ Len(Tail(q)) = Len(q) - 1 /\ \A i \in 1..(Len(q) - 1) : Tail(q)[i] = q[i + 1]
  BY <1>1
<1>5. Increasing(Tail(q))
  <2>1. DOMAIN Tail(q) = 1..(Len(q) - 1)
    BY <1>1, <1>3, <1>4
  <2>2. ASSUME NEW i \in 1..(Len(q) - 1), NEW j \in 1..(Len(q) - 1), i < j
        PROVE  Tail(q)[i].id < Tail(q)[j].id
    <3>1. i + 1 \in DOMAIN q /\ j + 1 \in DOMAIN q /\ i + 1 < j + 1
      BY <1>1, <2>2
    <3>2. q[i + 1].id < q[j + 1].id
      BY <3>1 DEF Increasing
    <3>3. QED
      BY <1>4, <3>2
  <2>3. QED
    BY <2>1, <2>2 DEF Increasing
<1>6. \A t \in ToSet(q) \ {Head(q)} : Head(q).id < t.id
  BY <1>1 DEF ToSet, Increasing
<1>7. QED
  BY <1>3, <1>5, <1>6

(* ReloadWorkQueue, and the task at the front of work_queue_ is taken. *)
LEMMA TakeWork ==
  ASSUME QueueTypes, OrderOK, TasksOK, ReloadWorkQueue # <<>>,
         work' = Tail(ReloadWorkQueue), incoming' = Reloaded,
         NEW t, t = Head(ReloadWorkQueue)
  PROVE  /\ t \in Task /\ t \in ToSet(incoming) \cup ToSet(work)
         /\ t \notin ToSet(delayed) /\ t \notin ToSet(deferred)
         /\ work' \in Seq(Task) /\ incoming' \in Seq(Task)
         /\ ToSet(work') \cup ToSet(incoming') = (ToSet(work) \cup ToSet(incoming)) \ {t}
         /\ ToSet(work') \cap ToSet(incoming') = {}
         /\ \A u \in ToSet(work') \cup ToSet(incoming') : t.id < u.id
         /\ OrderOK'
<1>1. CASE work = <<>>
  <2>1. ReloadWorkQueue = incoming /\ incoming' = <<>>
    BY <1>1 DEF ReloadWorkQueue, Reloaded
  <2>2. incoming \in Seq(Task) /\ Increasing(incoming)
    BY DEF QueueTypes, OrderOK
  <2>3. /\ t \in Task /\ t \in ToSet(incoming) /\ work' \in Seq(Task) /\ Increasing(work')
        /\ ToSet(work') = ToSet(incoming) \ {t} /\ \A u \in ToSet(work') : t.id < u.id
    BY <2>1, <2>2, TailIncreasing
  <2>4. ToSet(incoming') = {} /\ ToSet(work) = {} /\ incoming' \in Seq(Task) /\ Increasing(incoming')
    BY <1>1, <2>1, EmptyList DEF Increasing
  <2>5. t \notin ToSet(delayed) /\ t \notin ToSet(deferred)
    BY <2>3 DEF TasksOK, Apart
  <2>6. OrderOK'
    BY <2>3, <2>4 DEF OrderOK
  <2>7. QED
    BY <2>3, <2>4, <2>5, <2>6
<1>2. CASE work # <<>>
  <2>1. ReloadWorkQueue = work /\ incoming' = incoming
    BY <1>2 DEF ReloadWorkQueue, Reloaded
  <2>2. work \in Seq(Task) /\ Increasing(work)
    BY DEF QueueTypes, OrderOK
  <2>3. /\ t \in Task /\ t \in ToSet(work) /\ work' \in Seq(Task) /\ Increasing(work')
        /\ ToSet(work') = ToSet(work) \ {t} /\ \A u \in ToSet(work') : t.id < u.id
    BY <1>2, <2>1, <2>2, TailIncreasing
  <2>4. \A u \in ToSet(incoming) : t.id < u.id
    BY <2>3 DEF OrderOK
  <2>5. t \notin ToSet(delayed) /\ t \notin ToSet(deferred) /\ t \notin ToSet(incoming)
        /\ ToSet(incoming) \cap ToSet(work) = {}
    BY <2>3 DEF TasksOK, Apart
  <2>6. OrderOK'
    BY <2>1, <2>3 DEF OrderOK
  <2>7. incoming' \in Seq(Task)
    BY <2>1 DEF QueueTypes
  <2>8. QED
    BY <2>1, <2>3, <2>4, <2>5, <2>6, <2>7
<1>3. QED
  BY <1>1, <1>2
-----------------------------------------------------------------------------
(* What a step leaves alone. *)

LEMMA QuietQueues ==
  ASSUME QueueTypes, OrderOK, TasksOK,
         UNCHANGED <<incoming, work, delayed, deferred, posted, ran, deleted>>
  PROVE  QueueTypes' /\ OrderOK' /\ TasksOK'
BY DEF QueueTypes, OrderOK, TasksOK, Apart, AllQueued

LEMMA QuietRuns ==
  ASSUME RunsOK, UNCHANGED <<runs, nestable_tasks_allowed, keep_running>>, event' \in BOOLEAN,
         thread' = "run" <=> thread = "run"
  PROVE  RunsOK'
BY DEF RunsOK, InTask, Top

LEMMA QuietTimes ==
  ASSUME TimesOK, UNCHANGED <<recent_time, now, delayed_work_time>>
  PROVE  TimesOK'
BY DEF TimesOK

LEMMA QuietHandshake ==
  ASSUME HandshakeOK, UNCHANGED <<proxy, proxy_locked, threadVars>>
  PROVE  HandshakeOK'
BY DEF HandshakeOK, threadVars

LEMMA QuietQuit ==
  ASSUME QuitOK, UNCHANGED <<incoming, work, delayed, deferred, runs, quit_task, stopping, ran,
                              posted>>,
         thread' = "cleanup" => thread = "cleanup",
         thread' \in {"cleanup", "destroy", "orphan", "exited"} =>
           thread \in {"cleanup", "destroy", "orphan", "exited"}
  PROVE  QuitOK'
BY DEF QuitOK, QuitQueues, QuitRuns, AllQueued

LEMMA QuietGone ==
  ASSUME QueuesGone, UNCHANGED <<incoming, work, delayed, deferred, thread>>
  PROVE  QueuesGone'
BY DEF QueuesGone

LEMMA QuietWake ==
  ASSUME WakeOK, UNCHANGED <<incoming, work, runs, thread, nestable_tasks_allowed>>,
         event = TRUE \/ proxy_locked = TRUE \/ owner = "signal" =>
           event' = TRUE \/ proxy_locked' = TRUE \/ owner' = "signal"
  PROVE  WakeOK'
BY DEF WakeOK, FoundNoWork, InTask, Top

LEMMA QuietDue ==
  ASSUME DueOK, UNCHANGED <<delayed, runs, thread, nestable_tasks_allowed, delayed_work_time>>
  PROVE  DueOK'
BY DEF DueOK, InTask, Top

LEMMA NotRunning ==
  ASSUME thread' # "run"
  PROVE  WakeOK' /\ DueOK'
BY DEF WakeOK, DueOK, FoundNoWork

-----------------------------------------------------------------------------
(* The owner of the Thread, and the thread outside of Run. *)

LEMMA StartStep ==
  ASSUME IInv, Start PROVE IInv'
<1>1. /\ owner = "idle" /\ starts < MaxStarts
      /\ owner' = "starting" /\ thread' = "created" /\ starts' = starts + 1
      /\ started_event' = FALSE /\ quit_task' = NoTask
      /\ UNCHANGED <<incoming, work, delayed, deferred, runs, nestable_tasks_allowed, recent_time,
                     keep_running, event, delayed_work_time, now, proxy, proxy_locked, message_loop,
                     stopping, posted, ran, deleted>>
  BY DEF Start, loopVars, pumpVars, proxyVars
<1>2. thread = "none" /\ stopping = FALSE
  BY <1>1 DEF IInv, HandshakeOK
<1>3. QueueTypes' /\ OrderOK' /\ TasksOK'
  BY <1>1, QuietQueues DEF IInv
<1>4. RunsOK'
  BY <1>1, <1>2, QuietRuns DEF IInv, RunsOK
<1>5. TimesOK' /\ WakeOK' /\ DueOK'
  BY <1>1, QuietTimes, NotRunning DEF IInv
<1>6. HandshakeOK'
  <2>1. starts' \in 0..MaxStarts
    <3>1. starts \in 0..MaxStarts /\ MaxStarts \in Nat
      BY BoundsAssumption DEF IInv, HandshakeOK
    <3>2. QED
      BY <1>1, <3>1
  <2>2. HandshakeOK
    BY DEF IInv
  <2>3. QED
    BY <1>1, <1>2, <2>1, <2>2 DEF HandshakeOK
<1>7. QueuesGone'
  BY <1>1, <1>2 DEF IInv, QueuesGone
<1>8. QuitOK'
  <2>1. AllQueued' = {}
    BY <1>1, <1>2, EmptyList DEF AllQueued, IInv, QueuesGone
  <2>2. NoTask \in 0..posted /\ NoTask \notin ran
    BY BoundsAssumption DEF NoTask, IInv, TasksOK, QueueTypes
  <2>3. runs = <<>>
    BY <1>2 DEF IInv, RunsOK
  <2>4. QED
    BY <1>1, <2>1, <2>2, <2>3 DEF QuitOK, QuitQueues, QuitRuns
<1>9. QED
  BY <1>3, <1>4, <1>5, <1>6, <1>7, <1>8 DEF IInv

LEMMA StartWaitedStep ==
  ASSUME IInv, StartWaited PROVE IInv'
<1>1. /\ owner = "starting" /\ started_event /\ owner' = "started"
      /\ UNCHANGED <<incoming, work, delayed, deferred, runs, nestable_tasks_allowed, recent_time,
                     keep_running, event, delayed_work_time, now, proxy, proxy_locked, thread,
                     started_event, message_loop, stopping, starts, posted, ran, deleted, quit_task>>
  BY DEF StartWaited, loopVars, pumpVars, proxyVars
<1>2. HandshakeOK'
  BY <1>1 DEF IInv, HandshakeOK
<1>3. WakeOK'
  BY <1>1, QuietWake DEF IInv
<1>4. event' \in BOOLEAN
  BY <1>1 DEF IInv, RunsOK
<1>5. QED
  BY <1>1, <1>2, <1>3, <1>4, QuietQueues, QuietRuns, QuietTimes, QuietQuit, QuietGone, QuietDue DEF IInv

LEMMA StopStep ==
  ASSUME IInv, Stop PROVE IInv'
<1>1. /\ owner = "started" /\ stopping /\ owner' = "join"
      /\ UNCHANGED <<incoming, work, delayed, deferred, runs, nestable_tasks_allowed, recent_time,
                     keep_running, event, delayed_work_time, now, proxy, proxy_locked, thread,
                     started_event, message_loop, stopping, starts, posted, ran, deleted, quit_task>>
  BY DEF Stop, loopVars, pumpVars, proxyVars
<1>2. HandshakeOK'
  BY <1>1 DEF IInv, HandshakeOK
<1>3. WakeOK'
  BY <1>1, QuietWake DEF IInv
<1>4. event' \in BOOLEAN
  BY <1>1 DEF IInv, RunsOK
<1>5. QED
  BY <1>1, <1>2, <1>3, <1>4, QuietQueues, QuietRuns, QuietTimes, QuietQuit, QuietGone, QuietDue DEF IInv

LEMMA JoinedStep ==
  ASSUME IInv, Joined PROVE IInv'
<1>1. /\ owner = "join" /\ thread = "exited"
      /\ owner' = "idle" /\ thread' = "none" /\ stopping' = FALSE
      /\ UNCHANGED <<incoming, work, delayed, deferred, runs, nestable_tasks_allowed, recent_time,
                     keep_running, event, delayed_work_time, now, proxy, proxy_locked,
                     started_event, message_loop, starts, posted, ran, deleted, quit_task>>
  BY DEF Joined, loopVars, pumpVars, proxyVars
<1>2. HandshakeOK'
  BY <1>1 DEF IInv, HandshakeOK
<1>3. QueuesGone'
  BY <1>1 DEF IInv, QueuesGone
<1>4. RunsOK' /\ runs = <<>>
  BY <1>1, QuietRuns DEF IInv, RunsOK
<1>5. QuitOK'
  <2>1. AllQueued' = {}
    BY <1>1, EmptyList DEF AllQueued, IInv, QueuesGone
  <2>2. QED
    BY <1>1, <1>4, <2>1 DEF IInv, QuitOK, QuitQueues, QuitRuns
<1>6. QueueTypes' /\ OrderOK' /\ TasksOK' /\ TimesOK' /\ WakeOK' /\ DueOK'
  BY <1>1, QuietQueues, QuietTimes, NotRunning DEF IInv
<1>7. QED
  BY <1>2, <1>3, <1>4, <1>5, <1>6 DEF IInv

LEMMA ScheduleWorkStep ==
  ASSUME IInv, ProxyScheduleWork \/ OwnerScheduleWork PROVE IInv'
<1>1. /\ event' = TRUE
      /\ UNCHANGED <<incoming, work, delayed, deferred, runs, nestable_tasks_allowed, recent_time,
                     keep_running, delayed_work_time, now, proxy, thread, started_event,
                     message_loop, stopping, starts, posted, ran, deleted, quit_task>>
  BY DEF ProxyScheduleWork, OwnerScheduleWork, ScheduleWork, loopVars, proxyVars, threadVars
<1>2. HandshakeOK'
  BY DEF IInv, HandshakeOK, ProxyScheduleWork, OwnerScheduleWork, threadVars, proxyVars
<1>3. WakeOK'
  BY <1>1, QuietWake DEF IInv
<1>4. event' \in BOOLEAN
  BY <1>1
<1>5. QED
  BY <1>1, <1>2, <1>3, <1>4, QuietQueues, QuietRuns, QuietTimes, QuietQuit, QuietGone, QuietDue DEF IInv

LEMMA TickStep ==
  ASSUME IInv, Tick PROVE IInv'
<1>1. /\ now < MaxTime /\ now' = now + 1
      /\ UNCHANGED <<incoming, work, delayed, deferred, runs, nestable_tasks_allowed, recent_time,
                     keep_running, event, delayed_work_time, proxy, proxy_locked, threadVars, thread,
                     owner, stopping, posted, ran, deleted, quit_task>>
  BY DEF Tick, loopVars, pumpVars, proxyVars, threadVars
<1>2. TimesOK'
  BY <1>1, BoundsAssumption DEF IInv, TimesOK
<1>3. WakeOK'
  BY <1>1, QuietWake DEF IInv
<1>4. event' \in BOOLEAN
  BY <1>1 DEF IInv, RunsOK
<1>5. QED
  BY <1>1, <1>2, <1>3, <1>4, QuietQueues, QuietRuns, QuietHandshake, QuietQuit, QuietGone, QuietDue DEF IInv

LEMMA ThreadMainStep ==
  ASSUME IInv, ThreadMain PROVE IInv'
<1>1. /\ thread = "created" /\ thread' = "init" /\ message_loop' = TRUE /\ proxy' = TRUE
      /\ nestable_tasks_allowed' = TRUE /\ recent_time' = 0
      /\ keep_running' = TRUE /\ event' = FALSE /\ delayed_work_time' = 0
      /\ UNCHANGED <<incoming, work, delayed, deferred, runs, now, proxy_locked, owner,
                     started_event, stopping, starts, posted, ran, deleted, quit_task>>
  BY DEF ThreadMain, NewPump
<1>2. HandshakeOK'
  <2>1. HandshakeOK
    BY DEF IInv
  <2>2. QED
    BY <1>1, <2>1 DEF HandshakeOK
<1>3. TimesOK'
  BY <1>1, BoundsAssumption DEF IInv, TimesOK
<1>4. RunsOK'
  BY <1>1 DEF IInv, RunsOK
<1>5. QueuesGone'
  BY <1>1 DEF IInv, QueuesGone
<1>6. QED
  BY <1>1, <1>2, <1>3, <1>4, <1>5, QuietQueues, QuietQuit, NotRunning DEF IInv

(* A stack of one Run. *)
LEMMA SingleList ==
  ASSUME NEW S, NEW e \in S
  PROVE  <<e>> \in Seq(S) /\ Len(<<e>>) = 1 /\ DOMAIN <<e>> = {1} /\ <<e>>[1] = e /\ <<e>> # <<>>
OBVIOUS

LEMMA ThreadRunStep ==
  ASSUME IInv, ThreadRun PROVE IInv'
<1>1. /\ thread = "init" /\ thread' = "run" /\ started_event' = TRUE /\ runs' = <<NewRun(FALSE)>>
      /\ UNCHANGED <<incoming, work, delayed, deferred, nestable_tasks_allowed, recent_time,
                     keep_running, event, delayed_work_time, now, proxy, proxy_locked, owner,
                     message_loop, stopping, starts, posted, ran, deleted, quit_task>>
  BY DEF ThreadRun, pumpVars, proxyVars
<1>2. HandshakeOK'
  <2>1. HandshakeOK
    BY DEF IInv
  <2>2. QED
    BY <1>1, <2>1 DEF HandshakeOK
<1>3. QueuesGone'
  BY <1>1 DEF QueuesGone
<1>4. /\ NewRun(FALSE) \in Run /\ NewRun(FALSE).task = NoTask /\ NewRun(FALSE).is_quit = FALSE
      /\ NewRun(FALSE).quit_received = FALSE /\ NewRun(FALSE).pc = "DoWork"
  BY RunTypes DEF NewRun, Methods
<1>5. /\ runs' \in Seq(Run) /\ Len(runs') = 1 /\ DOMAIN runs' = {1} /\ runs'[1] = NewRun(FALSE)
      /\ runs' # <<>> /\ Top' = NewRun(FALSE)
  BY <1>1, <1>4, SingleList DEF Top
<1>6. RunsOK'
  <2>1. runs = <<>> /\ Len(runs) = 0
    BY <1>1 DEF IInv, RunsOK
  <2>2. keep_running' \in BOOLEAN /\ keep_running' # FALSE
    <3>1. keep_running \in BOOLEAN /\ (keep_running = FALSE => Len(runs) > 1)
      BY DEF IInv, RunsOK
    <3>2. ~(Len(runs) > 1)
      BY <2>1
    <3>3. QED
      BY <1>1, <3>1, <3>2
  <2>3. Len(runs') <= MaxDepth
    BY <1>5, BoundsAssumption
  <2>4. \A i \in DOMAIN runs' : ~(i < Len(runs'))
    BY <1>5
  <2>5. nestable_tasks_allowed' \in BOOLEAN /\ event' \in BOOLEAN
    BY <1>1 DEF IInv, RunsOK
  <2>6. QED
    BY <1>1, <1>4, <1>5, <2>2, <2>3, <2>4, <2>5 DEF RunsOK, InTask
<1>7. QuitOK'
  <2>1. QuitRuns'
    BY <1>4, <1>5 DEF QuitRuns
  <2>2. QED
    BY <1>1, <2>1 DEF IInv, QuitOK, QuitQueues, AllQueued
<1>8. WakeOK' /\ DueOK'
  BY <1>4, <1>5 DEF WakeOK, DueOK, FoundNoWork
<1>9. QED
  BY <1>1, <1>2, <1>3, <1>6, <1>7, <1>8, QuietQueues, QuietTimes DEF IInv

LEMMA ThreadCleanUpStep ==
  ASSUME IInv, ThreadCleanUp PROVE IInv'
<1>1. /\ thread = "cleanup" /\ thread' = "destroy" /\ message_loop' = FALSE
      /\ UNCHANGED <<incoming, work, delayed, deferred, runs, nestable_tasks_allowed, recent_time,
                     keep_running, event, delayed_work_time, now, proxy, proxy_locked, owner,
                     started_event, stopping, starts, posted, ran, deleted, quit_task>>
  BY DEF ThreadCleanUp, loopVars, pumpVars, proxyVars
<1>2. HandshakeOK'
  <2>1. HandshakeOK
    BY DEF IInv
  <2>2. QED
    BY <1>1, <2>1 DEF HandshakeOK
<1>3. QueuesGone'
  BY <1>1 DEF QueuesGone
<1>4. RunsOK'
  BY <1>1 DEF IInv, RunsOK
<1>5. QED
  BY <1>1, <1>2, <1>3, <1>4, QuietQueues, QuietTimes, QuietQuit, NotRunning DEF IInv

(* Ids gives the ids of the tasks in a queue. *)
LEMMA IdsOf ==
  ASSUME NEW q PROVE Ids(q) = {t.id : t \in ToSet(q)}
BY DEF Ids, ToSet

(* The destructor deletes the tasks of some queues. *)
LEMMA TasksDeleted ==
  ASSUME TasksOK, NEW D, AllQueued' = AllQueued \ D, Apart', D \subseteq AllQueued,
         deleted' = deleted \cup {t.id : t \in D}, UNCHANGED <<posted, ran>>
  PROVE  TasksOK'
<1>1. \A u, v \in AllQueued' : u.id = v.id => u = v
  BY DEF TasksOK
<1>2. \A t \in D : t.id \in 1..posted /\ t.id \notin ran
  BY DEF TasksOK
<1>3. \A u \in AllQueued' : u.id \in 1..posted' /\ u.id \notin ran' /\ u.id \notin deleted'
  BY DEF TasksOK
<1>4. ran' \subseteq 1..posted' /\ deleted' \subseteq 1..posted' /\ ran' \cap deleted' = {}
  <2>1. \A n \in deleted' : n \in deleted \/ \E t \in D : n = t.id
    OBVIOUS
  <2>2. \A n \in deleted' : n \in 1..posted /\ n \notin ran
    BY <1>2, <2>1 DEF TasksOK
  <2>3. QED
    BY <2>2 DEF TasksOK
<1>5. \A n \in 1..posted' : n \notin ran' /\ n \notin deleted' => \E u \in AllQueued' : u.id = n
  BY DEF TasksOK
<1>6. QED
  BY <1>1, <1>3, <1>4, <1>5 DEF TasksOK

LEMMA DeletePendingTasksStep ==
  ASSUME IInv, DeletePendingTasks PROVE IInv'
<1>1. /\ thread = "destroy"
      /\ deleted' = deleted \cup Ids(work) \cup Ids(deferred) \cup Ids(delayed) \cup Ids(incoming)
      /\ work' = <<>> /\ deferred' = <<>> /\ delayed' = <<>> /\ incoming' = <<>>
      /\ thread' \in {"orphan", "destroy"}
      /\ UNCHANGED <<runs, nestable_tasks_allowed, recent_time,
                     keep_running, event, delayed_work_time, now, proxy, proxy_locked, owner,
                     started_event, message_loop, stopping, starts, posted, ran, quit_task>>
  BY DEF DeletePendingTasks, pumpVars, proxyVars
<1>2. HandshakeOK'
  <2>1. HandshakeOK
    BY DEF IInv
  <2>2. QED
    BY <1>1, <2>1 DEF HandshakeOK
<1>3. QueuesGone'
  BY <1>1 DEF QueuesGone
<1>4. RunsOK' /\ runs = <<>>
  BY <1>1 DEF IInv, RunsOK
<1>5. /\ ToSet(work') = {} /\ ToSet(deferred') = {} /\ ToSet(delayed') = {} /\ ToSet(incoming') = {}
      /\ NoDup(deferred') /\ NoDup(delayed') /\ AllQueued' = {}
  BY <1>1, EmptyList DEF AllQueued
<1>6. QueueTypes' /\ OrderOK'
  BY <1>1, <1>5 DEF IInv, QueueTypes, OrderOK, Increasing
<1>7. TasksOK'
  <2>1. deleted' = deleted \cup {t.id : t \in AllQueued}
    BY <1>1, IdsOf DEF AllQueued
  <2>2. Apart'
    BY <1>5 DEF Apart
  <2>3. AllQueued' = AllQueued \ AllQueued
    BY <1>5
  <2>4. QED
    BY <1>1, <2>1, <2>2, <2>3, TasksDeleted DEF IInv
<1>8. QuitOK'
  BY <1>1, <1>4, <1>5 DEF IInv, QuitOK, QuitQueues, QuitRuns
<1>9. QED
  BY <1>1, <1>2, <1>3, <1>4, <1>6, <1>7, <1>8, QuietTimes, NotRunning DEF IInv

LEMMA DestroyLoopStep ==
  ASSUME IInv, DestroyLoop PROVE IInv'
<1>1. /\ thread = "orphan" /\ proxy_locked = FALSE /\ proxy' = FALSE /\ thread' = "exited"
      /\ deleted' = deleted \cup Ids(incoming) /\ incoming' = <<>>
      /\ UNCHANGED <<work, delayed, deferred, runs, nestable_tasks_allowed, recent_time,
                     keep_running, event, delayed_work_time, now, proxy_locked, owner,
                     started_event, message_loop, stopping, starts, posted, ran, quit_task>>
  BY DEF DestroyLoop, loopVars, pumpVars, proxyVars, IInv, HandshakeOK
<1>2. HandshakeOK'
  <2>1. HandshakeOK
    BY DEF IInv
  <2>2. QED
    BY <1>1, <2>1 DEF HandshakeOK
<1>3. work = <<>> /\ delayed = <<>> /\ deferred = <<>>
  BY <1>1 DEF IInv, QueuesGone
<1>4. RunsOK' /\ runs = <<>>
  BY <1>1 DEF IInv, RunsOK
<1>5. /\ ToSet(work) = {} /\ ToSet(deferred) = {} /\ ToSet(delayed) = {} /\ ToSet(incoming') = {}
      /\ AllQueued' = {} /\ AllQueued = ToSet(incoming)
  BY <1>1, <1>3, EmptyList DEF AllQueued
<1>6. QueueTypes' /\ OrderOK'
  BY <1>1, <1>5 DEF IInv, QueueTypes, OrderOK, Increasing
<1>7. TasksOK'
  <2>1. deleted' = deleted \cup {t.id : t \in AllQueued}
    BY <1>1, <1>5, IdsOf
  <2>2. Apart'
    BY <1>1, <1>3, <1>5, EmptyList DEF Apart
  <2>3. AllQueued' = AllQueued \ AllQueued
    BY <1>5
  <2>4. QED
    BY <1>1, <2>1, <2>2, <2>3, TasksDeleted DEF IInv
<1>8. QuitOK'
  BY <1>1, <1>4, <1>5 DEF IInv, QuitOK, QuitQueues, QuitRuns
<1>9. QueuesGone'
  BY <1>1, <1>3 DEF QueuesGone
<1>10. QED
  BY <1>1, <1>2, <1>4, <1>6, <1>7, <1>8, <1>9, QuietTimes, NotRunning DEF IInv

-----------------------------------------------------------------------------
(* Posting. *)

(* A task is posted: everything but the handshake. *)
LEMMA Posts ==
  ASSUME IInv, NEW delay \in Nat, NEW nestable \in BOOLEAN, NEW quit \in BOOLEAN,
         AddToIncomingQueue(delay, nestable, quit),
         UNCHANGED <<work, delayed, deferred, runs, nestable_tasks_allowed, recent_time,
                     keep_running, delayed_work_time, now, thread, ran, deleted>>,
         event' \in BOOLEAN, thread \notin {"none", "created", "exited"},
         incoming = <<>> => event' = TRUE \/ proxy_locked' = TRUE \/ owner' = "signal",
         incoming # <<>> => (event = TRUE \/ proxy_locked = TRUE \/ owner = "signal" =>
                             event' = TRUE \/ proxy_locked' = TRUE \/ owner' = "signal"),
         \/ quit = FALSE /\ UNCHANGED <<quit_task, stopping>>
         \/ /\ quit = TRUE /\ delay = 0 /\ nestable = TRUE /\ thread = "run"
            /\ stopping = FALSE /\ stopping' = TRUE /\ quit_task' = posted + 1
  PROVE  /\ QueueTypes' /\ OrderOK' /\ TasksOK' /\ RunsOK' /\ TimesOK'
         /\ QueuesGone' /\ QuitOK' /\ WakeOK' /\ DueOK'
<1>1. /\ QueueTypes' /\ OrderOK' /\ TasksOK' /\ posted' = posted + 1
  BY PostTask DEF IInv
<1>2. PICK t \in Task : /\ t.id = posted + 1 /\ t.nestable = nestable /\ t.quit = quit
                        /\ t.time = CalculateDelayedRuntime(delay)
                        /\ ToSet(incoming') = ToSet(incoming) \cup {t}
                        /\ AllQueued' = AllQueued \cup {t}
  BY PostTask DEF IInv
<1>3. RunsOK' /\ TimesOK' /\ DueOK'
  BY QuietRuns, QuietTimes, QuietDue DEF IInv
<1>4. QueuesGone'
  BY DEF IInv, QueuesGone
<1>5. WakeOK'
  BY DEF IInv, WakeOK, FoundNoWork, InTask, Top
<1>6. QuitOK'
  <2>1. posted \in Nat /\ quit_task \in 0..posted /\ quit_task \in 0..posted'
    BY <1>1, BoundsAssumption DEF IInv, QueueTypes, QuitOK
  <2>2. ran \subseteq 1..posted /\ ran' = ran
    BY DEF IInv, TasksOK
  <2>3. CASE quit = FALSE /\ UNCHANGED <<quit_task, stopping>>
    <3>1. posted + 1 > quit_task /\ t.id # quit_task
      BY <1>2, <2>1
    <3>2. QuitQueues'
      BY <1>2, <2>2, <2>3, <3>1 DEF IInv, QuitOK, QuitQueues
    <3>3. QED
      BY <2>1, <2>2, <2>3, <3>2 DEF IInv, QuitOK, QuitRuns
  <2>4. CASE /\ quit = TRUE /\ delay = 0 /\ nestable = TRUE /\ thread = "run"
             /\ stopping = FALSE /\ stopping' = TRUE /\ quit_task' = posted + 1
    <3>1. quit_task' \notin ran' /\ quit_task' \in 0..posted'
      BY <1>1, <2>1, <2>2, <2>4
    <3>2. t.time = 0
      BY <1>2, <2>4 DEF CalculateDelayedRuntime
    <3>3. \A u \in AllQueued : u.quit # TRUE /\ u.id # quit_task'
      <4>1. \A u \in AllQueued : u.id \in 1..posted
        BY DEF IInv, TasksOK
      <4>2. \A u \in AllQueued : u.id # quit_task'
        BY <2>1, <2>4, <4>1
      <4>3. QED
        BY <2>4, <4>2 DEF IInv, QuitOK, QuitQueues
    <3>4. QuitQueues'
      BY <1>2, <2>4, <3>1, <3>2, <3>3 DEF QuitQueues
    <3>5. QuitRuns'
      BY <2>4 DEF IInv, QuitOK, QuitRuns
    <3>6. QED
      BY <2>4, <3>1, <3>4, <3>5 DEF QuitOK
  <2>5. QED
    BY <2>3, <2>4
<1>7. QED
  BY <1>1, <1>3, <1>4, <1>5, <1>6

LEMMA ProxyPostStep ==
  ASSUME IInv, NEW d \in Delays, NEW n \in BOOLEAN, ProxyPost(d, n) PROVE IInv'
<1>1. /\ proxy = TRUE /\ proxy_locked = FALSE /\ AddToIncomingQueue(d, n, FALSE)
      /\ proxy_locked' = (incoming = <<>>)
      /\ UNCHANGED <<work, delayed, deferred, runs, nestable_tasks_allowed, recent_time,
                     keep_running, event, delayed_work_time, now, proxy, thread, owner, started_event,
                     message_loop, stopping, starts, ran, deleted, quit_task>>
  BY DEF ProxyPost, MustScheduleWork, loopVars, pumpVars, threadVars, IInv, HandshakeOK
<1>2. thread \in {"init", "run", "cleanup", "destroy", "orphan"}
  BY <1>1 DEF IInv, HandshakeOK
<1>3. HandshakeOK'
  <2>1. HandshakeOK
    BY DEF IInv
  <2>2. proxy_locked' \in BOOLEAN
    BY <1>1
  <2>3. QED
    BY <1>1, <2>1, <2>2 DEF HandshakeOK
<1>4. d \in Nat
  BY BoundsAssumption
<1>5. event' \in BOOLEAN
  BY <1>1 DEF IInv, RunsOK
<1>6. incoming = <<>> => proxy_locked' = TRUE
  BY <1>1
<1>7. QED
  BY <1>1, <1>2, <1>3, <1>4, <1>5, <1>6, Posts DEF IInv

LEMMA TaskPostStep ==
  ASSUME IInv, NEW d \in Delays, NEW n \in BOOLEAN, TaskPost(d, n) PROVE IInv'
<1>1. /\ thread = "run" /\ AddToIncomingQueue(d, n, FALSE)
      /\ incoming = <<>> => event' = TRUE
      /\ incoming # <<>> => event' = event
      /\ UNCHANGED <<work, delayed, deferred, runs, nestable_tasks_allowed, recent_time,
                     keep_running, delayed_work_time, now, proxy, proxy_locked, threadVars, thread,
                     owner, stopping, ran, deleted, quit_task>>
  BY DEF TaskPost, Running, MustScheduleWork, ScheduleWork, loopVars, pumpVars, proxyVars, threadVars
<1>2. d \in Nat
  BY BoundsAssumption
<1>3. event' \in BOOLEAN
  BY <1>1 DEF IInv, RunsOK
<1>4. QED
  BY <1>1, <1>2, <1>3, Posts, QuietHandshake DEF IInv

LEMMA OwnerPostStep ==
  ASSUME IInv, OwnerPost PROVE IInv'
<1>1. /\ owner = "started" /\ stopping = FALSE /\ AddToIncomingQueue(0, TRUE, FALSE)
      /\ owner' = IF incoming = <<>> THEN "signal" ELSE "started"
      /\ UNCHANGED <<work, delayed, deferred, runs, nestable_tasks_allowed, recent_time,
                     keep_running, event, delayed_work_time, now, proxy, proxy_locked, thread,
                     started_event, message_loop, stopping, starts, ran, deleted, quit_task>>
  BY DEF OwnerPost, MustScheduleWork, loopVars, pumpVars, proxyVars, IInv, HandshakeOK
<1>2. thread = "run"
  BY <1>1 DEF IInv, HandshakeOK
<1>3. HandshakeOK'
  <2>1. HandshakeOK
    BY DEF IInv
  <2>2. owner' \in {"started", "signal"}
    BY <1>1
  <2>3. QED
    BY <1>1, <1>2, <2>1, <2>2 DEF HandshakeOK
<1>4. event' \in BOOLEAN
  BY <1>1 DEF IInv, RunsOK
<1>5. QED
  BY <1>1, <1>2, <1>3, <1>4, Posts DEF IInv

LEMMA StopSoonStep ==
  ASSUME IInv, StopSoon PROVE IInv'
<1>1. /\ owner = "started" /\ stopping = FALSE /\ stopping' = TRUE
      /\ AddToIncomingQueue(0, TRUE, TRUE) /\ quit_task' = posted + 1
      /\ owner' = IF incoming = <<>> THEN "signal" ELSE "started"
      /\ UNCHANGED <<work, delayed, deferred, runs, nestable_tasks_allowed, recent_time,
                     keep_running, event, delayed_work_time, now, proxy, proxy_locked, thread,
                     started_event, message_loop, starts, ran, deleted>>
  BY DEF StopSoon, MustScheduleWork, loopVars, pumpVars, proxyVars, IInv, HandshakeOK
<1>2. thread = "run"
  BY <1>1 DEF IInv, HandshakeOK
<1>3. HandshakeOK'
  <2>1. HandshakeOK
    BY DEF IInv
  <2>2. owner' \in {"started", "signal"}
    BY <1>1
  <2>3. QED
    BY <1>1, <1>2, <2>1, <2>2 DEF HandshakeOK
<1>4. event' \in BOOLEAN
  BY <1>1 DEF IInv, RunsOK
<1>5. QED
  BY <1>1, <1>2, <1>3, <1>4, Posts DEF IInv

-----------------------------------------------------------------------------
(* The innermost Run. *)

LEMMA TopSet ==
  ASSUME RunsOK, thread = "run", NEW r \in Run, SetTop(r), UNCHANGED <<thread, keep_running>>,
         nestable_tasks_allowed' \in BOOLEAN, event' \in BOOLEAN,
         r.task # NoTask => r.pc \in Methods /\ nestable_tasks_allowed' = FALSE,
         r.task = NoTask => r.is_quit = FALSE
  PROVE  RunsOK' /\ Top' = r
<1>1. Len(runs) \in Nat /\ Len(runs) >= 1 /\ DOMAIN runs = 1..Len(runs)
  BY TopRun
<1>2. /\ runs' \in Seq(Run) /\ Len(runs') = Len(runs) /\ runs' # <<>>
      /\ DOMAIN runs' = 1..Len(runs) /\ Top' = r /\ runs'[Len(runs)] = r
      /\ \A i \in 1..Len(runs) : i < Len(runs) => runs'[i] = runs[i]
  BY SetTopRuns
<1>3. Len(runs') <= MaxDepth /\ keep_running' \in BOOLEAN
  BY <1>2 DEF RunsOK
<1>4. keep_running' = FALSE => Len(runs') > 1
  BY <1>2 DEF RunsOK
<1>5. ASSUME NEW i \in DOMAIN runs'
      PROVE  /\ i < Len(runs') => runs'[i].task # NoTask /\ runs'[i].is_quit = FALSE
             /\ runs'[i].task # NoTask => runs'[i].pc \in Methods
             /\ runs'[i].task = NoTask => runs'[i].is_quit = FALSE
  <2>1. CASE i < Len(runs)
    BY <1>1, <1>2, <2>1 DEF RunsOK
  <2>2. CASE i = Len(runs)
    BY <1>1, <1>2, <2>2
  <2>3. i < Len(runs) \/ i = Len(runs)
    BY <1>1, <1>2
  <2>4. QED
    BY <2>1, <2>2, <2>3
<1>6. InTask' => nestable_tasks_allowed' = FALSE
  BY <1>2 DEF InTask
<1>7. QED
  BY <1>2, <1>3, <1>4, <1>5, <1>6 DEF RunsOK

LEMMA TopSetQuit ==
  ASSUME RunsOK, QuitRuns, thread = "run", NEW r \in Run, SetTop(r),
         UNCHANGED <<quit_task, stopping>>, ran \subseteq ran',
         r.is_quit = TRUE => stopping = TRUE /\ quit_task \in ran',
         Len(runs) = 1 /\ r.quit_received = TRUE =>
           Top.quit_received = TRUE \/ (stopping = TRUE /\ quit_task \in ran')
  PROVE  QuitRuns'
<1>1. Len(runs) \in Nat /\ Len(runs) >= 1 /\ DOMAIN runs = 1..Len(runs) /\ Top = runs[Len(runs)]
  BY TopRun
<1>2. /\ Len(runs') = Len(runs) /\ runs # <<>>
      /\ DOMAIN runs' = 1..Len(runs) /\ runs'[Len(runs)] = r
      /\ \A i \in 1..Len(runs) : i < Len(runs) => runs'[i] = runs[i]
  BY SetTopRuns DEF RunsOK
<1>3. ASSUME NEW i \in DOMAIN runs', runs'[i].is_quit = TRUE
      PROVE  stopping' = TRUE /\ quit_task' \in ran'
  <2>1. CASE i < Len(runs)
    BY <1>1, <1>2, <1>3, <2>1 DEF QuitRuns
  <2>2. CASE i = Len(runs)
    BY <1>1, <1>2, <1>3, <2>2
  <2>3. i < Len(runs) \/ i = Len(runs)
    BY <1>1, <1>2
  <2>4. QED
    BY <2>1, <2>2, <2>3
<1>4. ASSUME runs'[1].quit_received = TRUE
      PROVE  stopping' = TRUE /\ quit_task' \in ran'
  <2>1. CASE Len(runs) = 1
    BY <1>1, <1>2, <1>4, <2>1 DEF QuitRuns
  <2>2. CASE Len(runs) > 1
    BY <1>1, <1>2, <1>4, <2>2 DEF QuitRuns
  <2>3. Len(runs) = 1 \/ Len(runs) > 1
    BY <1>1
  <2>4. QED
    BY <2>1, <2>2, <2>3
<1>5. QED
  BY <1>3, <1>4 DEF QuitRuns

(* What the pump does next. *)
LEMMA AfterMethodRun ==
  ASSUME NEW r \in Run, r.pc \in Methods, NEW did \in BOOLEAN, NEW a, a = AfterMethod(r, did)
  PROVE  /\ a \in Run /\ a.task = NoTask /\ a.is_quit = FALSE
         /\ a.quit_received = TRUE => r.quit_received = TRUE \/ r.is_quit = TRUE
         /\ r.pc = "DoWork" => a.pc = "DoDelayedWork" /\ a.did_work = did
         /\ r.pc = "DoDelayedWork" /\ r.did_work = FALSE /\ did = FALSE => a.pc = "DoIdleWork"
         /\ r.pc = "DoDelayedWork" /\ (r.did_work = TRUE \/ did = TRUE) => a.pc = "DoWork"
         /\ r.pc = "DoIdleWork" /\ did = FALSE => a.pc = "Wait"
         /\ r.pc = "DoIdleWork" /\ did = TRUE => a.pc = "DoWork"
<1>1. r.quit_received \in BOOLEAN /\ r.is_quit \in BOOLEAN /\ r.did_work \in BOOLEAN
  BY DEF Run
<1>2. PICK q \in BOOLEAN : q = (r.quit_received \/ r.is_quit)
  BY <1>1
<1>3. q = TRUE => r.quit_received = TRUE \/ r.is_quit = TRUE
  BY <1>1, <1>2
<1>4. CASE r.pc = "DoWork"
  <2>1. a = Between(q, "DoDelayedWork", did)
    BY <1>2, <1>4 DEF AfterMethod
  <2>2. QED
    BY <1>3, <1>4, <2>1, RunTypes DEF Methods
<1>5. CASE r.pc = "DoDelayedWork"
  <2>1. a = Between(q, IF r.did_work \/ did THEN "DoWork" ELSE "DoIdleWork", FALSE)
    BY <1>2, <1>5 DEF AfterMethod
  <2>2. CASE r.did_work = TRUE \/ did = TRUE
    <3>1. a = Between(q, "DoWork", FALSE)
      BY <2>1, <2>2
    <3>2. /\ a \in Run /\ a.task = NoTask /\ a.is_quit = FALSE
          /\ a.quit_received = q /\ a.pc = "DoWork"
      BY <3>1, NoTaskTyped DEF Between, Run
    <3>3. QED
      BY <1>3, <1>5, <2>2, <3>2
  <2>3. CASE r.did_work = FALSE /\ did = FALSE
    <3>1. a = Between(q, "DoIdleWork", FALSE)
      BY <2>1, <2>3
    <3>2. /\ a \in Run /\ a.task = NoTask /\ a.is_quit = FALSE
          /\ a.quit_received = q /\ a.pc = "DoIdleWork"
      BY <3>1, NoTaskTyped DEF Between, Run
    <3>3. QED
      BY <1>3, <1>5, <2>3, <3>2
  <2>4. QED
    BY <1>1, <2>2, <2>3
<1>6. CASE r.pc = "DoIdleWork"
  <2>1. a = Between(q, IF did THEN "DoWork" ELSE "Wait", FALSE)
    BY <1>2, <1>6 DEF AfterMethod
  <2>2. CASE did = TRUE
    <3>1. a = Between(q, "DoWork", FALSE)
      BY <2>1, <2>2
    <3>2. /\ a \in Run /\ a.task = NoTask /\ a.is_quit = FALSE
          /\ a.quit_received = q /\ a.pc = "DoWork"
      BY <3>1, NoTaskTyped DEF Between, Run
    <3>3. QED
      BY <1>3, <1>6, <2>2, <3>2
  <2>3. CASE did = FALSE
    <3>1. a = Between(q, "Wait", FALSE)
      BY <2>1, <2>3
    <3>2. /\ a \in Run /\ a.task = NoTask /\ a.is_quit = FALSE
          /\ a.quit_received = q /\ a.pc = "Wait"
      BY <3>1, NoTaskTyped DEF Between, Run
    <3>3. QED
      BY <1>3, <1>6, <2>3, <3>2
  <2>4. QED
    BY <2>2, <2>3
<1>7. QED
  BY <1>4, <1>5, <1>6 DEF Methods

(* A method of the Delegate returns to the pump. *)
LEMMA ReturnedRuns ==
  ASSUME RunsOK, QuitRuns, thread = "run", Top.pc \in Methods, NEW did \in BOOLEAN, Returned(did),
         UNCHANGED <<keep_running, event, quit_task, stopping, ran>>,
         nestable_tasks_allowed' \in BOOLEAN
  PROVE  RunsOK' /\ QuitRuns' /\ thread' = "run" /\ Top' = AfterMethod(Top, did)
<1>1. SetTop(AfterMethod(Top, did)) /\ thread' = thread
  BY DEF Returned
<1>2. Top \in Run /\ Len(runs) \in Nat /\ Len(runs) >= 1 /\ DOMAIN runs = 1..Len(runs)
      /\ Top = runs[Len(runs)]
  BY TopRun
<1>3. PICK r : r = AfterMethod(Top, did)
  OBVIOUS
<1>4. /\ r \in Run /\ r.task = NoTask /\ r.is_quit = FALSE
      /\ r.quit_received = TRUE => Top.quit_received = TRUE \/ Top.is_quit = TRUE
  BY <1>2, <1>3, AfterMethodRun, ZenonT(60)
<1>5. event' \in BOOLEAN
  BY DEF RunsOK
<1>6. RunsOK' /\ Top' = r
  BY <1>1, <1>3, <1>4, <1>5, TopSet
<1>7. Top.is_quit = TRUE => stopping = TRUE /\ quit_task \in ran
  BY <1>2 DEF QuitRuns
<1>8. QuitRuns'
  BY <1>1, <1>3, <1>4, <1>7, TopSetQuit
<1>9. QED
  BY <1>1, <1>3, <1>6, <1>8

(* A method of the Delegate starts a task. *)
LEMMA RunTaskRuns ==
  ASSUME RunsOK, QuitRuns, thread = "run", Top.pc \in Methods, NEW t \in Task, RunTask(t),
         t.quit = TRUE => t.id = quit_task /\ stopping = TRUE,
         UNCHANGED <<keep_running, event, quit_task, stopping>>
  PROVE  RunsOK' /\ QuitRuns' /\ thread' = "run" /\ WakeOK' /\ DueOK'
<1>1. /\ SetTop(Within(Top, Top.quit_received, t.id, t.quit, FALSE))
      /\ nestable_tasks_allowed' = FALSE /\ ran' = ran \cup {t.id} /\ thread' = thread
  BY DEF RunTask
<1>2. Top \in Run
  BY TopRun
<1>3. /\ Top.quit_received \in BOOLEAN /\ t.quit \in BOOLEAN /\ t.id \in 0..MaxTasks /\ t.id # NoTask
  <2>1. Top.quit_received \in BOOLEAN
    BY <1>2 DEF Run
  <2>2. t.quit \in BOOLEAN /\ t.id \in 1..MaxTasks
    BY DEF Task
  <2>3. QED
    BY <2>1, <2>2, BoundsAssumption DEF NoTask
<1>4. PICK r : r = Within(Top, Top.quit_received, t.id, t.quit, FALSE)
  OBVIOUS
<1>5. /\ r \in Run /\ r.task = t.id /\ r.is_quit = t.quit /\ r.pc = Top.pc
      /\ r.quit_received = Top.quit_received
  BY <1>2, <1>3, <1>4 DEF Within, Run
<1>6. event' \in BOOLEAN
  BY DEF RunsOK
<1>7. RunsOK' /\ Top' = r
  BY <1>1, <1>3, <1>4, <1>5, <1>6, TopSet
<1>8. QuitRuns'
  BY <1>1, <1>4, <1>5, TopSetQuit
<1>9. InTask'
  BY <1>3, <1>5, <1>7 DEF InTask
<1>10. QED
  BY <1>1, <1>7, <1>8, <1>9 DEF WakeOK, DueOK, FoundNoWork

(* A task leaves its queue for another, or is started. *)
LEMMA QuitQueuesMoved ==
  ASSUME QuitQueues, AllQueued' \subseteq AllQueued,
         ToSet(incoming') \cup ToSet(work') \subseteq ToSet(incoming) \cup ToSet(work),
         UNCHANGED <<quit_task, stopping, ran>>
  PROVE  QuitQueues'
BY DEF QuitQueues

LEMMA QuitQueuesStarted ==
  ASSUME QuitQueues, NEW t \in AllQueued, AllQueued' \subseteq AllQueued,
         ToSet(incoming') \cup ToSet(work') \subseteq ToSet(incoming) \cup ToSet(work),
         UNCHANGED <<quit_task, stopping>>, ran' = ran \cup {t.id},
         t.id = quit_task => \A u \in ToSet(incoming') \cup ToSet(work') : u.id > t.id
  PROVE  QuitQueues'
BY DEF QuitQueues

(* In Run, and back in Run: what is left to show. *)
LEMMA StillRunning ==
  ASSUME IInv, thread = "run", thread' = "run",
         QueueTypes' /\ OrderOK' /\ TasksOK' /\ RunsOK' /\ TimesOK',
         QuitQueues' /\ QuitRuns' /\ WakeOK' /\ DueOK',
         UNCHANGED <<proxy, proxy_locked, owner, started_event, message_loop, stopping, starts,
                     posted, quit_task>>
  PROVE  IInv'
<1>1. HandshakeOK'
  BY QuietHandshake DEF IInv, threadVars
<1>2. QueuesGone'
  BY DEF QueuesGone
<1>3. QuitOK'
  BY DEF IInv, QuitOK
<1>4. QED
  BY <1>1, <1>2, <1>3 DEF IInv
-----------------------------------------------------------------------------
(* The pump. *)

LEMMA DoWorkNothingStep ==
  ASSUME IInv, DoWork, DoWorkNothing PROVE IInv'
<1>1. /\ thread = "run" /\ Top.pc = "DoWork" /\ Returned(FALSE)
      /\ ~nestable_tasks_allowed \/ ReloadWorkQueue = <<>>
      /\ UNCHANGED <<incoming, work, delayed, deferred, nestable_tasks_allowed, keep_running, event,
                     delayed_work_time, ran, recent_time, now, proxy, proxy_locked, owner,
                     started_event, message_loop, stopping, starts, posted, deleted, quit_task>>
  BY DEF DoWork, DoWorkNothing, AtMethod, pumpVars, proxyVars
<1>2. nestable_tasks_allowed' \in BOOLEAN /\ Top \in Run /\ Top.pc \in Methods
  BY <1>1, TopRun DEF IInv, RunsOK, Methods
<1>3. RunsOK' /\ QuitRuns' /\ thread' = "run" /\ Top' = AfterMethod(Top, FALSE)
  BY <1>1, <1>2, ReturnedRuns DEF IInv, QuitOK
<1>4. Top'.pc = "DoDelayedWork"
  BY <1>1, <1>2, <1>3, AfterMethodRun
<1>5. WakeOK'
  BY <1>1 DEF WakeOK, ReloadWorkQueue
<1>6. DueOK'
  BY <1>4 DEF DueOK
<1>7. QueueTypes' /\ OrderOK' /\ TasksOK' /\ TimesOK'
  BY <1>1, QuietQueues, QuietTimes DEF IInv
<1>8. QuitQueues'
  BY <1>1 DEF IInv, QuitOK, QuitQueues, AllQueued
<1>9. QED
  BY <1>1, <1>3, <1>5, <1>6, <1>7, <1>8, StillRunning

LEMMA DoWorkTaskStep ==
  ASSUME IInv, DoWork, ReloadWorkQueue # <<>>, DoWorkTask(Head(ReloadWorkQueue)) PROVE IInv'
<1> DEFINE t == Head(ReloadWorkQueue)
<1>1. /\ thread = "run" /\ Top.pc = "DoWork"
      /\ UNCHANGED <<recent_time, now, proxy, proxy_locked, owner, started_event, message_loop,
                     stopping, starts, posted, deleted, quit_task>>
  BY DEF DoWork, AtMethod, proxyVars
<1>2. work' = Tail(ReloadWorkQueue) /\ incoming' = Reloaded
  BY DEF DoWorkTask
<1>3. /\ t \in Task /\ t \in ToSet(incoming) \cup ToSet(work)
      /\ t \notin ToSet(delayed) /\ t \notin ToSet(deferred)
      /\ work' \in Seq(Task) /\ incoming' \in Seq(Task)
      /\ ToSet(work') \cup ToSet(incoming') = (ToSet(work) \cup ToSet(incoming)) \ {t}
      /\ ToSet(work') \cap ToSet(incoming') = {}
      /\ \A u \in ToSet(work') \cup ToSet(incoming') : t.id < u.id
      /\ OrderOK'
  BY <1>2, TakeWork DEF IInv
<1>4. t \in AllQueued /\ t.time \in 0..MaxTime /\ t.nestable \in BOOLEAN /\ t.id \in Nat
  BY <1>3 DEF AllQueued, Task
<1>5. Top.pc \in Methods
  BY <1>1 DEF Methods
<1>6. /\ NoDup(delayed) /\ NoDup(deferred) /\ ToSet(delayed) \cap ToSet(deferred) = {}
      /\ (ToSet(work) \cup ToSet(incoming)) \cap (ToSet(delayed) \cup ToSet(deferred)) = {}
      /\ delayed \in Seq(DelayedTasks) /\ deferred \in Seq(NonNestable)
  BY DEF IInv, TasksOK, Apart, QueueTypes
<1>7. CASE /\ t.time # 0 /\ delayed' = Append(delayed, t)
           /\ delayed_work_time' \in {t.time, delayed_work_time}
           /\ UNCHANGED <<deferred, runs, nestable_tasks_allowed, keep_running, event, thread, ran>>
  <2>1. t \in DelayedTasks
    BY <1>3, <1>7 DEF DelayedTasks
  <2> HIDE DEF t
  <2>2. delayed' \in Seq(DelayedTasks) /\ ToSet(delayed') = ToSet(delayed) \cup {t} /\ NoDup(delayed')
    BY <1>3, <1>6, <1>7, <2>1, AppendList
  <2>3. AllQueued' = AllQueued
    BY <1>3, <1>7, <2>2 DEF AllQueued
  <2>4. Apart'
    BY <1>3, <1>6, <1>7, <2>2 DEF Apart
  <2>5. TasksOK'
    BY <1>1, <1>7, <2>3, <2>4, TaskMoves DEF IInv
  <2>6. QueueTypes'
    BY <1>1, <1>3, <1>7, <2>2 DEF IInv, QueueTypes
  <2>7. TimesOK'
    BY <1>1, <1>4, <1>7 DEF IInv, TimesOK
  <2>8. QuitQueues'
    BY <1>1, <1>3, <1>7, <2>3, QuitQueuesMoved DEF IInv, QuitOK
  <2>9. event' \in BOOLEAN
    BY <1>7 DEF IInv, RunsOK
  <2>10. RunsOK' /\ QuitRuns' /\ thread' = "run"
    BY <1>1, <1>7, <2>9, QuietRuns DEF IInv, QuitOK, QuitRuns
  <2>11. WakeOK' /\ DueOK'
    BY <1>1, <1>7 DEF WakeOK, DueOK, FoundNoWork, Top
  <2>12. QED
    BY <1>1, <1>3, <2>5, <2>6, <2>7, <2>8, <2>10, <2>11, StillRunning
<1>8. CASE /\ t.time = 0 /\ RunTask(t)
           /\ UNCHANGED <<delayed, deferred, keep_running, event, delayed_work_time>>
  <2> HIDE DEF t
  <2>1. ran' = ran \cup {t.id}
    BY <1>8 DEF RunTask
  <2>2. AllQueued' = AllQueued \ {t}
    BY <1>3, <1>8 DEF AllQueued
  <2>3. Apart'
    BY <1>3, <1>6, <1>8 DEF Apart
  <2>4. TasksOK'
    BY <1>1, <1>4, <2>1, <2>2, <2>3, TaskStarts DEF IInv
  <2>5. QueueTypes' /\ TimesOK'
    BY <1>1, <1>3, <1>8 DEF IInv, QueueTypes, TimesOK
  <2>6. QuitQueues'
    <3>1. \A u \in ToSet(incoming') \cup ToSet(work') : u.id > t.id
      <4>1. \A u \in Task : u.id \in Nat
        BY DEF Task
      <4>2. \A u \in ToSet(incoming') \cup ToSet(work') : u \in Task
        BY <1>3 DEF ToSet
      <4>3. QED
        BY <1>3, <1>4, <4>1, <4>2
    <3>2. QED
      BY <1>1, <1>3, <1>4, <2>1, <2>2, <3>1, QuitQueuesStarted DEF IInv, QuitOK
  <2>7. t.quit = TRUE => t.id = quit_task /\ stopping = TRUE
    BY <1>4 DEF IInv, QuitOK, QuitQueues
  <2>8. RunsOK' /\ QuitRuns' /\ thread' = "run" /\ WakeOK' /\ DueOK'
    BY <1>1, <1>3, <1>5, <1>8, <2>7, RunTaskRuns DEF IInv, QuitOK
  <2>9. QED
    BY <1>1, <1>3, <2>4, <2>5, <2>6, <2>8, StillRunning
<1>9. CASE /\ t.time = 0 /\ t.nestable = FALSE /\ deferred' = Append(deferred, t)
           /\ UNCHANGED <<delayed, runs, nestable_tasks_allowed, keep_running, event,
                          delayed_work_time, thread, ran>>
  <2>1. t \in NonNestable
    BY <1>3, <1>9 DEF NonNestable
  <2> HIDE DEF t
  <2>2. deferred' \in Seq(NonNestable) /\ ToSet(deferred') = ToSet(deferred) \cup {t} /\ NoDup(deferred')
    BY <1>3, <1>6, <1>9, <2>1, AppendList
  <2>3. AllQueued' = AllQueued
    BY <1>3, <1>9, <2>2 DEF AllQueued
  <2>4. Apart'
    BY <1>3, <1>6, <1>9, <2>2 DEF Apart
  <2>5. TasksOK'
    BY <1>1, <1>9, <2>3, <2>4, TaskMoves DEF IInv
  <2>6. QueueTypes' /\ TimesOK'
    BY <1>1, <1>3, <1>9, <2>2 DEF IInv, QueueTypes, TimesOK
  <2>7. QuitQueues'
    BY <1>1, <1>3, <1>9, <2>3, QuitQueuesMoved DEF IInv, QuitOK
  <2>8. event' \in BOOLEAN
    BY <1>9 DEF IInv, RunsOK
  <2>9. RunsOK' /\ QuitRuns' /\ thread' = "run"
    BY <1>1, <1>9, <2>8, QuietRuns DEF IInv, QuitOK, QuitRuns
  <2>10. WakeOK' /\ DueOK'
    BY <1>1, <1>9 DEF WakeOK, DueOK, FoundNoWork, Top
  <2>11. QED
    BY <1>1, <1>3, <2>5, <2>6, <2>7, <2>9, <2>10, StillRunning
<1>10. ~CanRun(t) => t.nestable = FALSE
  BY <1>4 DEF CanRun
<1>11. QED
  BY <1>7, <1>8, <1>9, <1>10 DEF DoWorkTask, pumpVars

(* DoDelayedWork found nothing to run: the pump goes on to DoIdleWork only if *)
(* DoWork found nothing either.                                               *)
LEMMA DelayedWorkReturns ==
  ASSUME IInv, AtMethod("DoDelayedWork"), Returned(FALSE),
         UNCHANGED <<incoming, work, nestable_tasks_allowed, keep_running, event, quit_task,
                     stopping, ran, proxy_locked, owner>>
  PROVE  RunsOK' /\ QuitRuns' /\ thread' = "run" /\ WakeOK'
<1>1. thread = "run" /\ Top.pc = "DoDelayedWork" /\ ~InTask
  BY DEF AtMethod
<1>2. nestable_tasks_allowed' \in BOOLEAN /\ Top \in Run /\ Top.pc \in Methods
  BY <1>1, TopRun DEF IInv, RunsOK, Methods
<1>3. RunsOK' /\ QuitRuns' /\ thread' = "run" /\ Top' = AfterMethod(Top, FALSE)
  BY <1>2, <1>1, ReturnedRuns DEF IInv, QuitOK
<1>4. Top.did_work \in BOOLEAN
  BY <1>2 DEF Run
<1>5. CASE Top.did_work = TRUE
  <2>1. Top'.pc = "DoWork"
    BY <1>1, <1>2, <1>3, <1>5, AfterMethodRun
  <2>2. QED
    BY <1>3, <2>1 DEF WakeOK, FoundNoWork
<1>6. CASE Top.did_work = FALSE
  <2>1. FoundNoWork
    BY <1>1, <1>6 DEF FoundNoWork
  <2>2. WakeOK
    BY DEF IInv
  <2>3. QED
    BY <1>3, <2>1, <2>2 DEF WakeOK
<1>7. QED
  BY <1>4, <1>5, <1>6

LEMMA DelayedQueueEmptyStep ==
  ASSUME IInv, DoDelayedWork, DelayedQueueEmpty, ~nestable_tasks_allowed \/ delayed = <<>>
  PROVE  IInv'
<1>1. /\ AtMethod("DoDelayedWork") /\ thread = "run" /\ recent_time' = 0 /\ delayed_work_time' = 0
      /\ Returned(FALSE)
      /\ UNCHANGED <<incoming, work, delayed, deferred, nestable_tasks_allowed, keep_running, event,
                     ran, now, proxy, proxy_locked, owner, started_event, message_loop, stopping,
                     starts, posted, deleted, quit_task>>
  BY DEF DoDelayedWork, DelayedQueueEmpty, AtMethod, proxyVars
<1>2. RunsOK' /\ QuitRuns' /\ thread' = "run" /\ WakeOK'
  BY <1>1, DelayedWorkReturns
<1>3. DueOK'
  BY <1>1 DEF DueOK
<1>4. TimesOK'
  BY <1>1, BoundsAssumption DEF IInv, TimesOK
<1>5. QueueTypes' /\ OrderOK' /\ TasksOK'
  BY <1>1, QuietQueues DEF IInv
<1>6. QuitQueues'
  BY <1>1 DEF IInv, QuitOK, QuitQueues, AllQueued
<1>7. QED
  BY <1>1, <1>2, <1>3, <1>4, <1>5, <1>6, StillRunning

LEMMA DelayedTaskStep ==
  ASSUME IInv, DoDelayedWork, delayed # <<>>, DelayedTask(TopIndex(delayed)) PROVE IInv'
<1> DEFINE k == TopIndex(delayed)
           t == delayed[k]
           rest == RemoveAt(delayed, k)
<1>1. /\ AtMethod("DoDelayedWork") /\ thread = "run" /\ Top.pc \in Methods
      /\ UNCHANGED <<incoming, work, keep_running, event, now, proxy, proxy_locked, owner,
                     started_event, message_loop, stopping, starts, posted, deleted, quit_task>>
  BY DEF DoDelayedWork, AtMethod, proxyVars, Methods
<1>2. delayed \in Seq(DelayedTasks) /\ deferred \in Seq(NonNestable)
  BY DEF IInv, QueueTypes
<1>3. k \in DOMAIN delayed /\ t \in ToSet(delayed) /\ t \in DelayedTasks
  <2>1. k \in DOMAIN delayed
    BY <1>2, TopIndexFound
  <2>2. QED
    BY <1>2, <2>1 DEF ToSet
<1>4. t \in Task /\ t.time \in 1..MaxTime /\ t.nestable \in BOOLEAN /\ t.id \in Nat /\ t \in AllQueued
  <2>1. t \in Task /\ t.time # 0 /\ t \in AllQueued
    BY <1>3 DEF DelayedTasks, AllQueued
  <2>2. t.time \in 0..MaxTime /\ t.nestable \in BOOLEAN /\ t.id \in Nat
    BY <2>1 DEF Task
  <2>3. QED
    BY <2>1, <2>2
<1>5. /\ rest \in Seq(DelayedTasks) /\ NoDup(rest) /\ ToSet(rest) = ToSet(delayed) \ {t}
  <2>1. NoDup(delayed)
    BY DEF IInv, TasksOK, Apart
  <2>2. QED
    BY <1>2, <1>3, <2>1, RemoveAtList
<1>6. recent_time' \in {now, recent_time}
  BY DEF DelayedTask, RecentTime
<1>7. t.quit # TRUE /\ t.id # quit_task
  <2>1. t.time # 0 /\ t \in AllQueued
    BY <1>4
  <2> HIDE DEF t
  <2>2. QED
    BY <2>1 DEF IInv, QuitOK, QuitQueues
<1>8. rest # <<>> => rest[TopIndex(rest)].time \in 1..MaxTime
  <2>1. rest # <<>> => rest[TopIndex(rest)] \in DelayedTasks
    <3> HIDE DEF rest
    <3>1. QED
      BY <1>5, TopIndexFound
  <2>2. \A u \in DelayedTasks : u.time \in 0..MaxTime /\ u.time # 0
    BY DEF DelayedTasks, Task
  <2>3. QED
    BY <2>1, <2>2
<1>9. CASE /\ delayed_work_time' = t.time /\ Returned(FALSE)
           /\ UNCHANGED <<delayed, deferred, nestable_tasks_allowed, ran>>
  <2>1. RunsOK' /\ QuitRuns' /\ thread' = "run" /\ WakeOK'
    BY <1>1, <1>9, DelayedWorkReturns
  <2>2. DueOK'
    <3>1. delayed_work_time' \in 1..t.time
      BY <1>4, <1>9
    <3>2. delayed'[TopIndex(delayed')].time = t.time
      BY <1>9
    <3>3. QED
      BY <3>1, <3>2 DEF DueOK
  <2> HIDE DEF t
  <2>3. TimesOK'
    BY <1>1, <1>4, <1>6, <1>9, BoundsAssumption DEF IInv, TimesOK
  <2>4. QueueTypes' /\ OrderOK' /\ TasksOK'
    BY <1>1, <1>9, QuietQueues DEF IInv
  <2>5. QuitQueues'
    BY <1>1, <1>9 DEF IInv, QuitOK, QuitQueues, AllQueued
  <2>6. QED
    BY <1>1, <2>1, <2>2, <2>3, <2>4, <2>5, StillRunning
<1>10. ASSUME delayed' = rest, delayed_work_time' = NextDelayedWorkTime(rest)
       PROVE  /\ TimesOK' /\ OrderOK'
              /\ rest # <<>> => delayed_work_time' \in 1..delayed'[TopIndex(delayed')].time
  <2> HIDE DEF rest
  <2>1. /\ rest = <<>> => delayed_work_time' = delayed_work_time
        /\ rest # <<>> => delayed_work_time' = rest[TopIndex(rest)].time
    BY <1>10 DEF NextDelayedWorkTime
  <2>2. delayed_work_time' \in 0..MaxTime
    BY <1>8, <2>1 DEF IInv, TimesOK
  <2>3. TimesOK'
    BY <1>1, <1>6, <2>2, BoundsAssumption DEF IInv, TimesOK
  <2>4. OrderOK'
    BY <1>1 DEF IInv, OrderOK
  <2>5. QED
    BY <1>8, <1>10, <2>1, <2>3, <2>4
<1>11. CASE delayed' = rest /\ delayed_work_time' = NextDelayedWorkTime(rest) /\ RunTask(t)
            /\ UNCHANGED deferred
  <2>1. ran' = ran \cup {t.id}
    BY <1>11 DEF RunTask
  <2>2. TimesOK' /\ OrderOK'
    BY <1>10, <1>11
  <2> HIDE DEF t, rest
  <2>3. AllQueued' = AllQueued \ {t}
    BY <1>1, <1>3, <1>5, <1>11 DEF AllQueued, IInv, TasksOK, Apart
  <2>4. Apart'
    BY <1>1, <1>5, <1>11 DEF Apart, IInv, TasksOK
  <2>5. TasksOK'
    BY <1>1, <1>4, <2>1, <2>3, <2>4, TaskStarts DEF IInv
  <2>6. QueueTypes'
    BY <1>1, <1>5, <1>11 DEF IInv, QueueTypes
  <2>7. QuitQueues'
    BY <1>1, <1>4, <1>7, <2>1, <2>3, QuitQueuesStarted DEF IInv, QuitOK
  <2>8. RunsOK' /\ QuitRuns' /\ thread' = "run" /\ WakeOK' /\ DueOK'
    BY <1>1, <1>4, <1>7, <1>11, RunTaskRuns DEF IInv, QuitOK
  <2>9. QED
    BY <1>1, <2>2, <2>5, <2>6, <2>7, <2>8, StillRunning
<1>12. CASE /\ delayed' = rest /\ delayed_work_time' = NextDelayedWorkTime(rest)
            /\ t.nestable = FALSE /\ deferred' = Append(deferred, t) /\ Returned(FALSE)
            /\ UNCHANGED <<nestable_tasks_allowed, ran>>
  <2>1. RunsOK' /\ QuitRuns' /\ thread' = "run" /\ WakeOK'
    BY <1>1, <1>12, DelayedWorkReturns
  <2>2. /\ TimesOK' /\ OrderOK'
        /\ rest # <<>> => delayed_work_time' \in 1..delayed'[TopIndex(delayed')].time
    BY <1>10, <1>12
  <2>3. DueOK'
    BY <1>12, <2>2 DEF DueOK
  <2> HIDE DEF t, rest
  <2>4. t \in NonNestable /\ t \notin ToSet(deferred) /\ NoDup(deferred)
    BY <1>3, <1>4, <1>12 DEF NonNestable, IInv, TasksOK, Apart
  <2>5. deferred' \in Seq(NonNestable) /\ ToSet(deferred') = ToSet(deferred) \cup {t} /\ NoDup(deferred')
    BY <1>2, <1>12, <2>4, AppendList
  <2>6. AllQueued' = AllQueued
    BY <1>1, <1>3, <1>5, <1>12, <2>5 DEF AllQueued
  <2>7. Apart'
    BY <1>1, <1>3, <1>5, <1>12, <2>5 DEF Apart, IInv, TasksOK
  <2>8. TasksOK'
    BY <1>1, <1>12, <2>6, <2>7, TaskMoves DEF IInv
  <2>9. QueueTypes'
    BY <1>1, <1>5, <1>12, <2>5 DEF IInv, QueueTypes
  <2>10. QuitQueues'
    BY <1>1, <1>12, <2>6, QuitQueuesMoved DEF IInv, QuitOK
  <2>11. QED
    BY <1>1, <2>1, <2>2, <2>3, <2>8, <2>9, <2>10, StillRunning
<1>13. ~CanRun(t) => t.nestable = FALSE
  BY <1>4 DEF CanRun
<1>14. QED
  BY <1>9, <1>11, <1>12, <1>13 DEF DelayedTask

LEMMA DoIdleWorkTaskStep ==
  ASSUME IInv, DoIdleWork, deferred # <<>>, deferred' = Tail(deferred),
         RunTask(Head(deferred)), UNCHANGED pumpVars
  PROVE  IInv'
<1> DEFINE t == Head(deferred)
<1>1. /\ thread = "run" /\ Top.pc \in Methods
      /\ UNCHANGED <<incoming, work, delayed, recent_time, keep_running, event, delayed_work_time,
                     now, proxy, proxy_locked, owner, started_event, message_loop, stopping, starts,
                     posted, deleted, quit_task>>
  BY DEF DoIdleWork, AtMethod, proxyVars, pumpVars, Methods
<1>2. deferred \in Seq(NonNestable) /\ NoDup(deferred)
  BY DEF IInv, QueueTypes, TasksOK, Apart
<1>3. /\ t \in ToSet(deferred) /\ t \in NonNestable
      /\ deferred' \in Seq(NonNestable) /\ NoDup(deferred') /\ ToSet(deferred') = ToSet(deferred) \ {t}
  BY <1>2, TailList
<1>4. ran' = ran \cup {t.id}
  BY DEF RunTask
<1>5. RunTask(t)
  OBVIOUS
<1> HIDE DEF t
<1>6. t \in Task /\ t \in AllQueued /\ t.nestable = FALSE
  BY <1>3 DEF NonNestable, AllQueued
<1>7. t.quit # TRUE /\ t.id # quit_task
  BY <1>6 DEF IInv, QuitOK, QuitQueues
<1>8. AllQueued' = AllQueued \ {t}
  BY <1>1, <1>3 DEF AllQueued, IInv, TasksOK, Apart
<1>9. Apart'
  BY <1>1, <1>3 DEF Apart, IInv, TasksOK
<1>10. TasksOK'
  BY <1>1, <1>4, <1>6, <1>8, <1>9, TaskStarts DEF IInv
<1>11. QueueTypes' /\ OrderOK' /\ TimesOK'
  BY <1>1, <1>3, QuietTimes DEF IInv, QueueTypes, OrderOK
<1>12. QuitQueues'
  BY <1>1, <1>4, <1>6, <1>7, <1>8, QuitQueuesStarted DEF IInv, QuitOK
<1>13. RunsOK' /\ QuitRuns' /\ thread' = "run" /\ WakeOK' /\ DueOK'
  BY <1>1, <1>5, <1>6, <1>7, RunTaskRuns DEF IInv, QuitOK
<1>14. QED
  BY <1>1, <1>10, <1>11, <1>12, <1>13, StillRunning

LEMMA DoIdleWorkNothingStep ==
  ASSUME IInv, DoIdleWork, Returned(FALSE), UNCHANGED <<nestable_tasks_allowed, pumpVars>>,
         UNCHANGED <<deferred, ran>>
  PROVE  IInv'
<1>1. /\ thread = "run" /\ ~InTask /\ Top.pc = "DoIdleWork"
      /\ UNCHANGED <<incoming, work, delayed, recent_time, keep_running, event, delayed_work_time,
                     now, proxy, proxy_locked, owner, started_event, message_loop, stopping, starts,
                     posted, deleted, quit_task>>
  BY DEF DoIdleWork, AtMethod, proxyVars, pumpVars
<1>2. nestable_tasks_allowed' \in BOOLEAN /\ Top.pc \in Methods
  BY <1>1 DEF IInv, RunsOK, Methods
<1>3. RunsOK' /\ QuitRuns' /\ thread' = "run"
  BY <1>1, <1>2, ReturnedRuns DEF IInv, QuitOK
<1>4. WakeOK'
  <2>1. WakeOK /\ FoundNoWork
    BY <1>1 DEF IInv, FoundNoWork
  <2>2. QED
    BY <1>1, <2>1 DEF WakeOK
<1>5. DueOK'
  <2>1. DueOK
    BY DEF IInv
  <2>2. QED
    BY <1>1, <2>1 DEF DueOK
<1>6. QueueTypes' /\ OrderOK' /\ TasksOK' /\ TimesOK'
  BY <1>1, QuietQueues, QuietTimes DEF IInv
<1>7. QuitQueues'
  BY <1>1 DEF IInv, QuitOK, QuitQueues, AllQueued
<1>8. QED
  BY <1>1, <1>3, <1>4, <1>5, <1>6, <1>7, StillRunning

(* Run returns into the task that called it. *)
LEMMA LeaveNested ==
  ASSUME IInv, thread = "run", LeaveRun, Len(runs) > 1,
         UNCHANGED <<incoming, work, delayed, deferred, recent_time, now, proxy, proxy_locked, owner,
                     started_event, message_loop, stopping, starts, posted, ran, deleted, quit_task>>
  PROVE  IInv'
<1>2. Len(runs) \in Nat /\ DOMAIN runs = 1..Len(runs) /\ runs # <<>>
  BY TopRun DEF IInv, RunsOK
<1>2a. Len(runs) # 1
  BY <1>2
<1>1. /\ runs' = Front(runs) /\ thread' = "run" /\ nestable_tasks_allowed' = FALSE
      /\ keep_running' = TRUE /\ UNCHANGED <<event, delayed_work_time>>
  BY <1>2a DEF LeaveRun
<1>3. /\ runs' \in Seq(Run) /\ Len(runs') = Len(runs) - 1 /\ DOMAIN runs' = 1..(Len(runs) - 1)
      /\ \A i \in 1..(Len(runs) - 1) : runs'[i] = runs[i]
      /\ runs' # <<>>
  BY <1>1, <1>2a, FrontRuns DEF IInv
<1>4. \A i \in DOMAIN runs' : i \in DOMAIN runs /\ i < Len(runs) /\ runs'[i] = runs[i]
  BY <1>2, <1>3
<1>5. Len(runs') \in DOMAIN runs' /\ 1 \in DOMAIN runs' /\ Len(runs') <= MaxDepth
  BY <1>2, <1>3, BoundsAssumption DEF IInv, RunsOK
<1>6. InTask'
  BY <1>4, <1>5 DEF IInv, RunsOK, InTask, Top
<1>7. RunsOK'
  <2>1. \A i \in DOMAIN runs' : /\ runs'[i].task # NoTask /\ runs'[i].is_quit = FALSE
                                /\ runs'[i].pc \in Methods
    BY <1>4 DEF IInv, RunsOK
  <2>2. event' \in BOOLEAN
    BY <1>1 DEF IInv, RunsOK
  <2>3. QED
    BY <1>1, <1>3, <1>5, <2>1, <2>2 DEF RunsOK
<1>8. QuitRuns'
  BY <1>2, <1>4, <1>5 DEF IInv, QuitOK, QuitRuns
<1>9. WakeOK' /\ DueOK'
  BY <1>6 DEF WakeOK, DueOK, FoundNoWork
<1>10. QueueTypes' /\ OrderOK' /\ TasksOK' /\ TimesOK'
  BY <1>1, QuietQueues, QuietTimes DEF IInv
<1>11. QuitQueues'
  BY DEF IInv, QuitOK, QuitQueues, AllQueued
<1>12. QED
  BY <1>1, <1>7, <1>8, <1>9, <1>10, <1>11, StillRunning

(* The outermost Run returns into ThreadMain. *)
LEMMA LeaveOutermost ==
  ASSUME IInv, thread = "run", LeaveRun, Len(runs) = 1, deferred = <<>>,
         Top.quit_received = TRUE,
         UNCHANGED <<incoming, work, delayed, deferred, recent_time, now, proxy, proxy_locked, owner,
                     started_event, message_loop, stopping, starts, posted, ran, deleted, quit_task>>
  PROVE  IInv'
<1>1. /\ runs' = Front(runs) /\ thread' = "cleanup" /\ nestable_tasks_allowed' = TRUE
      /\ keep_running' = TRUE /\ UNCHANGED <<event, delayed_work_time>>
  BY DEF LeaveRun
<1>2. runs' = <<>> /\ Top = runs[1]
  BY <1>1, FrontRuns DEF IInv, Top
<1>3. stopping = TRUE /\ quit_task \in ran
  BY <1>2 DEF IInv, RunsOK, QuitOK, QuitRuns
<1>4. RunsOK'
  <2>1. Len(runs') = 0 /\ runs' \in Seq(Run) /\ DOMAIN runs' = {}
    BY <1>2
  <2>2. event' \in BOOLEAN
    BY <1>1 DEF IInv, RunsOK
  <2>3. QED
    BY <1>1, <1>2, <2>1, <2>2, BoundsAssumption DEF RunsOK
<1>5. HandshakeOK'
  <2>1. HandshakeOK
    BY DEF IInv
  <2>2. QED
    BY <1>1, <1>3, <2>1 DEF HandshakeOK
<1>6. QueuesGone'
  BY <1>1 DEF QueuesGone
<1>7. QuitOK'
  <2>1. QuitRuns'
    BY <1>2 DEF QuitRuns
  <2>2. QED
    BY <1>3, <2>1 DEF IInv, QuitOK, QuitQueues, AllQueued
<1>8. QED
  BY <1>1, <1>4, <1>5, <1>6, <1>7, QuietQueues, QuietTimes, NotRunning DEF IInv

LEMMA DoIdleWorkStep ==
  ASSUME IInv, DoIdleWork PROVE IInv'
<1>1. /\ thread = "run"
      /\ UNCHANGED <<incoming, work, delayed, recent_time, now, proxy, proxy_locked, owner,
                     started_event, message_loop, stopping, starts, posted, deleted, quit_task>>
  BY DEF DoIdleWork, AtMethod, proxyVars
<1>2. Top.quit_received \in BOOLEAN
  <2>1. Top \in Run
    BY <1>1, TopRun DEF IInv
  <2>2. QED
    BY <2>1 DEF Run
<1>2a. Len(runs) = 1 \/ Len(runs) > 1
  BY <1>1, TopRun DEF IInv
<1>3. CASE deferred # <<>> /\ deferred' = Tail(deferred) /\ RunTask(Head(deferred)) /\ UNCHANGED pumpVars
  BY <1>3, DoIdleWorkTaskStep
<1>4. CASE /\ ~(Len(runs) = 1 /\ deferred # <<>>) /\ Top.quit_received = TRUE /\ LeaveRun
           /\ UNCHANGED <<deferred, ran>>
  <2>1. CASE Len(runs) = 1
    BY <1>1, <1>4, <2>1, LeaveOutermost
  <2>2. CASE Len(runs) > 1
    BY <1>1, <1>4, <2>2, LeaveNested
  <2>3. QED
    BY <1>2a, <2>1, <2>2
<1>5. CASE /\ Returned(FALSE) /\ UNCHANGED <<nestable_tasks_allowed, pumpVars>>
           /\ UNCHANGED <<deferred, ran>>
  BY <1>5, DoIdleWorkNothingStep
<1>6. QED
  BY <1>2, <1>3, <1>4, <1>5 DEF DoIdleWork

(* The pump waits, or goes round again. *)
LEMMA MoveToRuns ==
  ASSUME RunsOK, QuitRuns, thread = "run", NEW pc \in {"DoWork", "Sleep"}, MoveTo(pc),
         UNCHANGED <<thread, keep_running, nestable_tasks_allowed, quit_task, stopping, ran>>,
         event' \in BOOLEAN
  PROVE  RunsOK' /\ QuitRuns' /\ Top'.pc = pc
<1>1. Top \in Run
  BY TopRun
<1>2. Top.quit_received \in BOOLEAN
  BY <1>1 DEF Run
<1>3. PICK r : r = Between(Top.quit_received, pc, FALSE)
  OBVIOUS
<1>4. /\ r \in Run /\ r.task = NoTask /\ r.is_quit = FALSE /\ r.pc = pc
      /\ r.quit_received = Top.quit_received
  BY <1>2, <1>3, NoTaskTyped DEF Between, Run
<1>5. SetTop(r) /\ nestable_tasks_allowed' \in BOOLEAN
  BY <1>3 DEF MoveTo, RunsOK
<1>6. RunsOK' /\ Top' = r
  BY <1>4, <1>5, TopSet
<1>7. QuitRuns'
  BY <1>4, <1>5, TopSetQuit
<1>8. QED
  BY <1>4, <1>6, <1>7

LEMMA PumpWaitStep ==
  ASSUME IInv, PumpWait PROVE IInv'
<1>1. /\ thread = "run" /\ ~InTask /\ Top.pc = "Wait"
      /\ UNCHANGED <<incoming, work, delayed, deferred, nestable_tasks_allowed, recent_time, now,
                     keep_running, event, proxy, proxy_locked, thread, owner, started_event,
                     message_loop, stopping, starts, posted, ran, deleted, quit_task>>
  BY DEF PumpWait, AtMethod, proxyVars, threadVars, pumpVars
<1>2. event' \in BOOLEAN
  BY <1>1 DEF IInv, RunsOK
<1>3. QueueTypes' /\ OrderOK' /\ TasksOK'
  BY <1>1, QuietQueues DEF IInv
<1>4. QuitQueues'
  BY <1>1 DEF IInv, QuitOK, QuitQueues, AllQueued
<1>5. CASE delayed_work_time' = 0 /\ MoveTo("DoWork")
  <2>1. RunsOK' /\ QuitRuns' /\ Top'.pc = "DoWork"
    BY <1>1, <1>2, <1>5, MoveToRuns DEF IInv, QuitOK
  <2>2. WakeOK' /\ DueOK'
    BY <2>1 DEF WakeOK, DueOK, FoundNoWork
  <2>3. TimesOK'
    BY <1>1, <1>5, BoundsAssumption DEF IInv, TimesOK
  <2>4. QED
    BY <1>1, <1>3, <1>4, <2>1, <2>2, <2>3, StillRunning
<1>6. CASE delayed_work_time' = delayed_work_time /\ MoveTo("Sleep")
  <2>1. RunsOK' /\ QuitRuns' /\ Top'.pc = "Sleep"
    BY <1>1, <1>2, <1>6, MoveToRuns DEF IInv, QuitOK
  <2>2. WakeOK'
    <3>1. WakeOK /\ FoundNoWork
      BY <1>1 DEF IInv, FoundNoWork
    <3>2. QED
      BY <1>1, <3>1 DEF WakeOK
  <2>3. DueOK'
    <3>1. DueOK
      BY DEF IInv
    <3>2. QED
      BY <1>1, <1>6, <3>1 DEF DueOK
  <2>4. TimesOK'
    BY <1>1, <1>6, QuietTimes DEF IInv
  <2>5. QED
    BY <1>1, <1>3, <1>4, <2>1, <2>2, <2>3, <2>4, StillRunning
<1>7. QED
  BY <1>5, <1>6 DEF PumpWait, pumpVars

LEMMA PumpWakeUpStep ==
  ASSUME IInv, PumpWakeUp PROVE IInv'
<1>1. /\ thread = "run" /\ MoveTo("DoWork") /\ event' \in {FALSE, event}
      /\ UNCHANGED <<incoming, work, delayed, deferred, nestable_tasks_allowed, recent_time, now,
                     keep_running, delayed_work_time, proxy, proxy_locked, thread, owner,
                     started_event, message_loop, stopping, starts, posted, ran, deleted, quit_task>>
  BY DEF PumpWakeUp, AtMethod, proxyVars, threadVars
<1>2. event' \in BOOLEAN
  BY <1>1 DEF IInv, RunsOK
<1>3. QueueTypes' /\ OrderOK' /\ TasksOK' /\ TimesOK'
  BY <1>1, QuietQueues, QuietTimes DEF IInv
<1>4. QuitQueues'
  BY <1>1 DEF IInv, QuitOK, QuitQueues, AllQueued
<1>5. RunsOK' /\ QuitRuns' /\ Top'.pc = "DoWork"
  BY <1>1, <1>2, MoveToRuns DEF IInv, QuitOK
<1>6. WakeOK' /\ DueOK'
  BY <1>5 DEF WakeOK, DueOK, FoundNoWork
<1>7. QED
  BY <1>1, <1>3, <1>4, <1>5, <1>6, StillRunning
-----------------------------------------------------------------------------
(* What a running task does. *)

LEMMA RunNestedStep ==
  ASSUME IInv, NEW allow \in BOOLEAN, NEW all_pending \in BOOLEAN, RunNested(allow, all_pending)
  PROVE  IInv'
<1> DEFINE caller == Within(Top, Top.quit_received, Top.task, FALSE, TRUE)
           new == NewRun(all_pending)
<1>1. /\ thread = "run" /\ Top.task # NoTask /\ keep_running = TRUE /\ Len(runs) < MaxDepth
      /\ runs' = Append([runs EXCEPT ![Len(runs)] = caller], new)
      /\ nestable_tasks_allowed' = allow
      /\ event' \in {TRUE, event}
      /\ UNCHANGED <<incoming, work, delayed, deferred, recent_time, keep_running,
                     delayed_work_time, now, proxy, proxy_locked, thread, owner, started_event,
                     message_loop, stopping, starts, posted, ran, deleted, quit_task>>
  BY DEF RunNested, Running, InTask, ScheduleWork, pumpVars, proxyVars, threadVars, IInv, RunsOK
<1>2. Top \in Run /\ Len(runs) \in Nat /\ Len(runs) >= 1 /\ DOMAIN runs = 1..Len(runs)
      /\ Top = runs[Len(runs)]
  BY <1>1, TopRun DEF IInv
<1>3. Top.pc \in Methods
  BY <1>1, <1>2 DEF IInv, RunsOK
<1>4. /\ caller \in Run /\ caller.task = Top.task /\ caller.is_quit = FALSE /\ caller.pc = Top.pc
      /\ caller.quit_received = Top.quit_received
  BY <1>2 DEF Within, Run
<1>5. /\ new \in Run /\ new.task = NoTask /\ new.is_quit = FALSE /\ new.pc = "DoWork"
  BY NoTaskTyped DEF NewRun, Between, Run
<1> HIDE DEF caller, new
<1>6. /\ runs' \in Seq(Run) /\ Len(runs') = Len(runs) + 1 /\ runs' # <<>>
      /\ DOMAIN runs' = 1..(Len(runs) + 1) /\ Top' = new /\ runs'[Len(runs)] = caller
      /\ \A i \in 1..Len(runs) : i < Len(runs) => runs'[i] = runs[i]
  BY <1>1, <1>4, <1>5, PushRuns DEF IInv
<1>7. runs'[Len(runs) + 1] = new
  BY <1>6 DEF Top
<1>8. \A i \in DOMAIN runs' : (i \in 1..Len(runs) /\ i < Len(runs)) \/ i = Len(runs) \/ i = Len(runs) + 1
  BY <1>2, <1>6
<1>9. RunsOK'
  <2>1. ASSUME NEW i \in DOMAIN runs'
        PROVE  /\ i < Len(runs') => runs'[i].task # NoTask /\ runs'[i].is_quit = FALSE
               /\ runs'[i].task # NoTask => runs'[i].pc \in Methods
               /\ runs'[i].task = NoTask => runs'[i].is_quit = FALSE
    <3>1. CASE i \in 1..Len(runs) /\ i < Len(runs)
      BY <1>2, <1>6, <3>1 DEF IInv, RunsOK
    <3>2. CASE i = Len(runs)
      BY <1>1, <1>3, <1>4, <1>6, <3>2
    <3>3. CASE i = Len(runs) + 1
      <4>1. ~(i < Len(runs'))
        BY <1>2, <1>6, <3>3
      <4>2. QED
        BY <1>5, <1>7, <3>3, <4>1
    <3>4. QED
      BY <1>8, <3>1, <3>2, <3>3
  <2>2. Len(runs') <= MaxDepth
    <3>1. Len(runs) < MaxDepth /\ MaxDepth \in Nat
      BY BoundsAssumption DEF RunNested
    <3>2. Len(runs) \in Nat /\ Len(runs') = Len(runs) + 1
      BY <1>2, <1>6
    <3>3. QED
      BY <3>1, <3>2
  <2>3. ~InTask'
    BY <1>5, <1>6 DEF InTask
  <2>4. event' \in BOOLEAN /\ nestable_tasks_allowed' \in BOOLEAN
    BY <1>1 DEF IInv, RunsOK
  <2>5. QED
    BY <1>1, <1>6, <2>1, <2>2, <2>3, <2>4 DEF RunsOK
<1>10. QuitRuns'
  <2>1. ASSUME NEW i \in DOMAIN runs', runs'[i].is_quit = TRUE
        PROVE  stopping' = TRUE /\ quit_task' \in ran'
    <3>1. i \in 1..Len(runs) /\ i < Len(runs)
      BY <1>4, <1>5, <1>6, <1>7, <1>8, <2>1
    <3>2. QED
      BY <1>1, <1>2, <1>6, <2>1, <3>1 DEF IInv, QuitOK, QuitRuns
  <2>2. runs'[1].quit_received = runs[1].quit_received
    <3>1. 1 < Len(runs) \/ 1 = Len(runs)
      BY <1>2
    <3>2. CASE 1 = Len(runs)
      BY <1>2, <1>4, <1>6, <3>2
    <3>3. CASE 1 < Len(runs)
      BY <1>2, <1>6, <3>3
    <3>4. QED
      BY <3>1, <3>2, <3>3
  <2>3. QED
    BY <1>1, <2>1, <2>2 DEF IInv, RunsOK, QuitOK, QuitRuns
<1>11. WakeOK' /\ DueOK'
  BY <1>5, <1>6 DEF WakeOK, DueOK, FoundNoWork
<1>12. QueueTypes' /\ OrderOK' /\ TasksOK' /\ TimesOK'
  BY <1>1, QuietQueues, QuietTimes DEF IInv
<1>13. QuitQueues'
  BY <1>1 DEF IInv, QuitOK, QuitQueues, AllQueued
<1>14. QED
  BY <1>1, <1>9, <1>10, <1>11, <1>12, <1>13, StillRunning

LEMMA QuitStep ==
  ASSUME IInv, Quit PROVE IInv'
<1>1. /\ thread = "run" /\ Top.task # NoTask /\ Len(runs) > 1
      /\ SetTop(Within(Top, TRUE, Top.task, FALSE, Top.nested))
      /\ UNCHANGED <<incoming, work, delayed, deferred, nestable_tasks_allowed, recent_time,
                     keep_running, event, delayed_work_time, now, proxy, proxy_locked, thread, owner,
                     started_event, message_loop, stopping, starts, posted, ran, deleted, quit_task>>
  BY DEF Quit, Running, InTask, pumpVars, proxyVars, threadVars
<1>2. Top \in Run /\ Len(runs) \in Nat /\ Len(runs) >= 1 /\ DOMAIN runs = 1..Len(runs)
      /\ Top = runs[Len(runs)]
  BY <1>1, TopRun DEF IInv
<1>3. Top.pc \in Methods
  BY <1>1, <1>2 DEF IInv, RunsOK
<1>4. PICK r : r = Within(Top, TRUE, Top.task, FALSE, Top.nested)
  OBVIOUS
<1>5. /\ r \in Run /\ r.task = Top.task /\ r.is_quit = FALSE /\ r.pc = Top.pc
  BY <1>2, <1>4 DEF Within, Run
<1>6. nestable_tasks_allowed' = FALSE /\ event' \in BOOLEAN
  BY <1>1 DEF IInv, RunsOK, InTask
<1>7. RunsOK' /\ Top' = r
  BY <1>1, <1>3, <1>4, <1>5, <1>6, TopSet DEF IInv
<1>8. Len(runs) # 1
  BY <1>1, <1>2
<1>9. QuitRuns'
  BY <1>1, <1>4, <1>5, <1>8, TopSetQuit DEF IInv, QuitOK
<1>10. WakeOK' /\ DueOK'
  BY <1>6 DEF WakeOK, DueOK
<1>11. QueueTypes' /\ OrderOK' /\ TasksOK' /\ TimesOK'
  BY <1>1, QuietQueues, QuietTimes DEF IInv
<1>12. QuitQueues'
  BY <1>1 DEF IInv, QuitOK, QuitQueues, AllQueued
<1>13. QED
  BY <1>1, <1>7, <1>9, <1>10, <1>11, <1>12, StillRunning

LEMMA QuitNowStep ==
  ASSUME IInv, QuitNow PROVE IInv'
<1>1. /\ thread = "run" /\ Len(runs) > 1 /\ keep_running' = FALSE
      /\ UNCHANGED <<incoming, work, delayed, deferred, runs, nestable_tasks_allowed, recent_time,
                     event, delayed_work_time, now, proxy, proxy_locked, thread, owner,
                     started_event, message_loop, stopping, starts, posted, ran, deleted, quit_task>>
  BY DEF QuitNow, Running, loopVars, proxyVars, threadVars
<1>2. RunsOK'
  BY <1>1 DEF IInv, RunsOK, InTask, Top
<1>3. QuitRuns' /\ QuitQueues'
  BY <1>1 DEF IInv, QuitOK, QuitRuns, QuitQueues, AllQueued
<1>4. QED
  BY <1>1, <1>2, <1>3, QuietQueues, QuietTimes, QuietWake, QuietDue, StillRunning DEF IInv

LEMMA TaskReturnStep ==
  ASSUME IInv, TaskReturn PROVE IInv'
<1>1. /\ thread = "run" /\ Top.task # NoTask
      /\ UNCHANGED <<incoming, work, delayed, deferred, recent_time, now, proxy, proxy_locked, owner,
                     started_event, message_loop, stopping, starts, posted, ran, deleted, quit_task>>
  BY DEF TaskReturn, Running, InTask, proxyVars
<1>2. keep_running \in BOOLEAN /\ (keep_running = FALSE => Len(runs) > 1)
  BY DEF IInv, RunsOK
<1>3. CASE keep_running = FALSE /\ LeaveRun
  BY <1>1, <1>2, <1>3, LeaveNested
<1>4. CASE nestable_tasks_allowed' = TRUE /\ Returned(TRUE) /\ UNCHANGED pumpVars
  <2>1. UNCHANGED <<keep_running, event, delayed_work_time>>
    BY <1>4 DEF pumpVars
  <2>2. Top \in Run /\ Len(runs) \in DOMAIN runs /\ Top = runs[Len(runs)]
    BY <1>1, TopRun DEF IInv
  <2>3. Top.pc \in Methods
    BY <1>1, <2>2 DEF IInv, RunsOK
  <2>4. nestable_tasks_allowed' \in BOOLEAN
    BY <1>4
  <2>5. RunsOK' /\ QuitRuns' /\ thread' = "run" /\ Top' = AfterMethod(Top, TRUE)
    BY <1>1, <1>4, <2>1, <2>3, <2>4, ReturnedRuns DEF IInv, QuitOK
  <2>6. Top'.pc = "DoWork" \/ (Top'.pc = "DoDelayedWork" /\ Top'.did_work = TRUE)
    <3>1. PICK did \in BOOLEAN : did = TRUE
      OBVIOUS
    <3>2. Top' = AfterMethod(Top, did)
      BY <2>5, <3>1
    <3>3. QED
      BY <2>2, <2>3, <3>1, <3>2, AfterMethodRun, ZenonT(60) DEF Methods
  <2>7. WakeOK' /\ DueOK'
    BY <2>6 DEF WakeOK, DueOK, FoundNoWork
  <2>8. QueueTypes' /\ OrderOK' /\ TasksOK' /\ TimesOK'
    BY <1>1, <2>1, QuietQueues, QuietTimes DEF IInv
  <2>9. QuitQueues'
    BY <1>1 DEF IInv, QuitOK, QuitQueues, AllQueued
  <2>10. QED
    BY <1>1, <2>5, <2>7, <2>8, <2>9, StillRunning
<1>5. QED
  BY <1>2, <1>3, <1>4 DEF TaskReturn

-----------------------------------------------------------------------------
LEMMA DoWorkStep ==
  ASSUME IInv, DoWork PROVE IInv'
BY DoWorkNothingStep, DoWorkTaskStep DEF DoWork

LEMMA DoDelayedWorkStep ==
  ASSUME IInv, DoDelayedWork PROVE IInv'
BY DelayedQueueEmptyStep, DelayedTaskStep DEF DoDelayedWork

LEMMA InitInv ==
  ASSUME Init PROVE IInv
<1>1. /\ ToSet(incoming) = {} /\ ToSet(work) = {} /\ ToSet(delayed) = {} /\ ToSet(deferred) = {}
      /\ NoDup(delayed) /\ NoDup(deferred) /\ AllQueued = {}
  BY EmptyList DEF Init, AllQueued
<1>2. QueueTypes
  BY BoundsAssumption DEF Init, QueueTypes
<1>3. OrderOK
  BY <1>1 DEF Init, OrderOK, Increasing
<1>4. TasksOK
  BY <1>1 DEF Init, TasksOK, Apart
<1>5. RunsOK
  <2>1. Len(runs) = 0 /\ runs \in Seq(Run) /\ runs = <<>> /\ DOMAIN runs = {}
    BY DEF Init
  <2>2. Len(runs) <= MaxDepth
    BY <2>1, BoundsAssumption
  <2>3. /\ nestable_tasks_allowed = TRUE /\ keep_running = TRUE /\ event = FALSE /\ thread = "none"
    BY DEF Init
  <2>4. QED
    BY <2>1, <2>2, <2>3 DEF RunsOK
<1>6. TimesOK
  BY BoundsAssumption DEF Init, TimesOK
<1>7. HandshakeOK /\ QueuesGone
  <2>1. starts \in 0..MaxStarts
    BY BoundsAssumption DEF Init
  <2>2. HandshakeOK
    BY <2>1 DEF Init, HandshakeOK
  <2>3. QED
    BY <2>2 DEF Init, QueuesGone
<1>8. QuitOK
  BY <1>1 DEF Init, QuitOK, QuitQueues, QuitRuns, NoTask
<1>9. WakeOK /\ DueOK
  BY DEF Init, WakeOK, DueOK, FoundNoWork
<1>10. QED
  BY <1>2, <1>3, <1>4, <1>5, <1>6, <1>7, <1>8, <1>9 DEF IInv

LEMMA StutterInv ==
  ASSUME IInv, UNCHANGED vars PROVE IInv'
<1>1. UNCHANGED <<incoming, work, delayed, deferred, runs, nestable_tasks_allowed, recent_time,
                  keep_running, event, delayed_work_time, now, proxy, proxy_locked, threadVars, thread,
                  owner, stopping, posted, ran, deleted, quit_task>>
  BY DEF vars, loopVars, pumpVars, proxyVars, threadVars
<1>2. event' \in BOOLEAN
  BY <1>1 DEF IInv, RunsOK
<1>3. QED
  BY <1>1, <1>2, QuietQueues, QuietRuns, QuietTimes, QuietHandshake, QuietQuit, QuietGone,
     QuietWake, QuietDue DEF IInv

LEMMA NextInv ==
  ASSUME IInv, [Next]_vars PROVE IInv'
<1>1. CASE UNCHANGED vars
  BY <1>1, StutterInv
<1>2. CASE \E d \in Delays, n \in BOOLEAN : ProxyPost(d, n) \/ TaskPost(d, n)
  BY <1>2, ProxyPostStep, TaskPostStep
<1>3. CASE ProxyScheduleWork
  BY <1>3, ScheduleWorkStep
<1>4. CASE Start \/ OwnerPost \/ StopSoon
  BY <1>4, StartStep, OwnerPostStep, StopSoonStep
<1>5. CASE OwnerStep
  BY <1>5, StartWaitedStep, ScheduleWorkStep, StopStep, JoinedStep DEF OwnerStep
<1>6. CASE ThreadStep
  BY <1>6, ThreadMainStep, ThreadRunStep, ThreadCleanUpStep, DeletePendingTasksStep, DestroyLoopStep
     DEF ThreadStep
<1>7. CASE LoopStep
  BY <1>7, DoWorkStep, DoDelayedWorkStep, DoIdleWorkStep, PumpWaitStep, PumpWakeUpStep,
     TaskReturnStep DEF LoopStep
<1>8. CASE \E allow, all_pending \in BOOLEAN : RunNested(allow, all_pending)
  BY <1>8, RunNestedStep
<1>9. CASE Quit \/ QuitNow \/ Tick
  BY <1>9, QuitStep, QuitNowStep, TickStep
<1>10. QED
  BY <1>1, <1>2, <1>3, <1>4, <1>5, <1>6, <1>7, <1>8, <1>9 DEF Next
-----------------------------------------------------------------------------
(* The inductive invariant holds in every reachable state: the queues, the *)
(* stack of Run calls, the clock, the handshake of the Thread with its     *)
(* owner and its proxy, the ThreadQuitTask and the pump's two wake-ups.    *)
THEOREM InvariantThm == Spec => []IInv
<1>1. Init => IInv
  BY InitInv
<1>2. IInv /\ [Next]_vars => IInv'
  BY NextInv
<1>3. QED
  BY <1>1, <1>2, PTL DEF Spec

(* PumpWakesUp: the pump does not sleep over a posted task without a signal *)
(* on its way, nor past the time of the next delayed task, in any nesting   *)
(* of Run calls and whoever posts.                                          *)
THEOREM PumpWakesUpThm == Spec => []PumpWakesUp
<1>1. IInv => PumpWakesUp
  <2>1. SUFFICES ASSUME IInv PROVE NoLostWakeup /\ WakesForDelayedTask
    BY DEF PumpWakesUp
  <2>2. nestable_tasks_allowed \in BOOLEAN /\ event \in BOOLEAN /\ proxy_locked \in BOOLEAN
    BY <2>1 DEF IInv, RunsOK, HandshakeOK
  <2>3. Asleep => FoundNoWork
    BY DEF Asleep, FoundNoWork
  <2>4. NoLostWakeup
    BY <2>1, <2>2, <2>3 DEF IInv, WakeOK, NoLostWakeup
  <2>5. WakesForDelayedTask
    BY <2>1, <2>2 DEF IInv, DueOK, WakesForDelayedTask, Asleep
  <2>6. QED
    BY <2>4, <2>5
<1>2. QED
  BY <1>1, InvariantThm, PTL

(* DrainedBeforeExit: when the outermost Run returns into ThreadMain, the  *)
(* ThreadQuitTask has run and so has every task posted before it without a *)
(* delay.                                                                  *)
THEOREM DrainedBeforeExitThm == Spec => []DrainedBeforeExit
<1>1. IInv => DrainedBeforeExit
  <2>1. SUFFICES ASSUME IInv, thread = "cleanup"
                 PROVE  /\ quit_task \in ran
                        /\ \A q \in {incoming, work, deferred} : \A i \in DOMAIN q :
                             q[i].time = 0 => q[i].id > quit_task
    BY DEF DrainedBeforeExit
  <2>2. quit_task \in ran /\ deferred = <<>>
    BY <2>1 DEF IInv, QuitOK
  <2>3. \A t \in ToSet(incoming) \cup ToSet(work) : t.time = 0 => t.id > quit_task
    BY <2>1, <2>2 DEF IInv, QuitOK, QuitQueues
  <2>4. /\ \A i \in DOMAIN incoming : incoming[i] \in ToSet(incoming)
        /\ \A i \in DOMAIN work : work[i] \in ToSet(work)
    BY DEF ToSet
  <2>5. QED
    BY <2>2, <2>3, <2>4
<1>2. QED
  BY <1>1, InvariantThm, PTL

(* LoopOutlivesPosts: whoever posts, or calls ScheduleWork under the       *)
(* proxy's lock, finds the loop alive, and Join leaves none behind; the    *)
(* owner that calls ScheduleWork after its own post finds the loop alive   *)
(* or ended by the ThreadQuitTask, and then the pump is still that loop's. *)
THEOREM LoopOutlivesPostsThm == Spec => []LoopOutlivesPosts
<1>1. IInv => LoopOutlivesPosts
  <2>1. SUFFICES ASSUME HandshakeOK, QuitOK PROVE LoopOutlivesPosts
    BY DEF IInv
  <2>2. QED
    BY <2>1 DEF HandshakeOK, QuitOK, LoopOutlivesPosts
<1>2. QED
  BY <1>1, InvariantThm, PTL

LEMMA TypesFromInv ==
  ASSUME IInv PROVE TypeOK
<1>1. /\ incoming \in Seq(Task) /\ work \in Seq(Task)
      /\ delayed \in Seq({t \in Task : t.time # 0})
      /\ posted \in 0..MaxTasks
  BY DEF IInv, QueueTypes, DelayedTasks
<1>2. deferred \in Seq({t \in Task : ~t.nestable})
  <2>1. \A t \in Task : t.nestable \in BOOLEAN
    BY DEF Task
  <2>2. {t \in Task : ~t.nestable} = NonNestable
    BY <2>1 DEF NonNestable
  <2>3. QED
    BY <2>2 DEF IInv, QueueTypes
<1>3. /\ runs \in Seq(Run) /\ Len(runs) <= MaxDepth
      /\ nestable_tasks_allowed \in BOOLEAN /\ keep_running \in BOOLEAN /\ event \in BOOLEAN
      /\ (thread = "run") = (runs # <<>>)
      /\ (thread = "run" /\ InTask) => ~nestable_tasks_allowed
  BY DEF IInv, RunsOK
<1>4. recent_time \in 0..MaxTime /\ now \in 1..MaxTime /\ delayed_work_time \in 0..MaxTime
  BY DEF IInv, TimesOK
<1>5. /\ proxy \in BOOLEAN /\ proxy_locked \in BOOLEAN
      /\ thread \in {"none", "created", "init", "run", "cleanup", "destroy", "orphan", "exited"}
      /\ owner \in {"idle", "starting", "started", "signal", "join"}
      /\ started_event \in BOOLEAN /\ message_loop \in BOOLEAN /\ stopping \in BOOLEAN
      /\ starts \in 0..MaxStarts
  BY DEF IInv, HandshakeOK
<1>6. ran \subseteq 1..posted /\ deleted \subseteq 1..posted
  BY DEF IInv, TasksOK
<1>7. quit_task \in 0..MaxTasks
  <2>1. quit_task \in 0..posted
    BY DEF IInv, QuitOK
  <2>2. QED
    BY <1>1, <2>1, BoundsAssumption
<1>8. QED
  BY <1>1, <1>2, <1>3, <1>4, <1>5, <1>6, <1>7 DEF TypeOK

LEMMA ConservedFromInv ==
  ASSUME IInv PROVE TasksConserved
<1> DEFINE a == Ids(incoming)
           b == Ids(work)
           c == Ids(delayed)
           d == Ids(deferred)
<1>1. /\ a = {t.id : t \in ToSet(incoming)} /\ b = {t.id : t \in ToSet(work)}
      /\ c = {t.id : t \in ToSet(delayed)} /\ d = {t.id : t \in ToSet(deferred)}
  BY IdsOf
<1> HIDE DEF a, b, c, d
<1>2. a \cup b \cup c \cup d = {t.id : t \in AllQueued}
  BY <1>1 DEF AllQueued
<1>3. a \cup b \cup c \cup d \cup ran \cup deleted = 1..posted
  <2>1. a \cup b \cup c \cup d \cup ran \cup deleted \subseteq 1..posted
    <3>1. \A t \in AllQueued : t.id \in 1..posted
      BY DEF IInv, TasksOK
    <3>2. a \cup b \cup c \cup d \subseteq 1..posted
      BY <1>2, <3>1
    <3>3. ran \subseteq 1..posted /\ deleted \subseteq 1..posted
      BY DEF IInv, TasksOK
    <3>4. QED
      BY <3>2, <3>3
  <2>2. 1..posted \subseteq a \cup b \cup c \cup d \cup ran \cup deleted
    BY <1>2 DEF IInv, TasksOK
  <2>3. QED
    BY <2>1, <2>2
<1>4. /\ ToSet(incoming) \subseteq AllQueued /\ ToSet(work) \subseteq AllQueued
      /\ ToSet(delayed) \subseteq AllQueued /\ ToSet(deferred) \subseteq AllQueued
  BY DEF AllQueued
<1>5. ASSUME NEW X, NEW Y, X \subseteq AllQueued, Y \subseteq AllQueued, X \cap Y = {}
      PROVE  {t.id : t \in X} \cap {t.id : t \in Y} = {}
  BY <1>5 DEF IInv, TasksOK
<1>6. Apart
  BY DEF IInv, TasksOK
<1>7. /\ a \cap b = {} /\ a \cap c = {} /\ a \cap d = {} /\ b \cap c = {} /\ b \cap d = {} /\ c \cap d = {}
  <2>1. a \cap b = {} /\ a \cap c = {} /\ a \cap d = {}
    BY <1>1, <1>4, <1>5, <1>6 DEF Apart
  <2>2. b \cap c = {} /\ b \cap d = {} /\ c \cap d = {}
    BY <1>1, <1>4, <1>5, <1>6 DEF Apart
  <2>3. QED
    BY <2>1, <2>2
<1>8. (a \cup b \cup c \cup d) \cap (ran \cup deleted) = {} /\ ran \cap deleted = {}
  BY <1>2 DEF IInv, TasksOK
<1>9. Queued = <<a, b, c, d, ran, deleted>>
  BY DEF Queued, a, b, c, d
<1>10. /\ DOMAIN Queued = 1..6 /\ Queued[1] = a /\ Queued[2] = b /\ Queued[3] = c /\ Queued[4] = d
       /\ Queued[5] = ran /\ Queued[6] = deleted
  BY <1>9
<1>11. UNION Range(Queued) = 1..posted
  <2>1. Range(Queued) = {a, b, c, d, ran, deleted}
    BY <1>10 DEF Range
  <2>2. QED
    BY <1>3, <2>1
<1>12. \A i, j \in DOMAIN Queued : i # j => Queued[i] \cap Queued[j] = {}
  <2>1. SUFFICES ASSUME NEW i \in 1..6, NEW j \in 1..6, i # j PROVE Queued[i] \cap Queued[j] = {}
    BY <1>10
  <2>2. /\ i = 1 \/ i = 2 \/ i = 3 \/ i = 4 \/ i = 5 \/ i = 6
        /\ j = 1 \/ j = 2 \/ j = 3 \/ j = 4 \/ j = 5 \/ j = 6
    OBVIOUS
  <2>3. QED
    BY <1>7, <1>8, <1>10, <2>1, <2>2
<1>13. \A q \in {incoming, work, delayed, deferred} : \A i, j \in DOMAIN q : q[i].id = q[j].id => i = j
  <2>1. ASSUME NEW q \in {incoming, work}, NEW i \in DOMAIN q, NEW j \in DOMAIN q, q[i].id = q[j].id
        PROVE  i = j
    <3>1. q \in Seq(Task) /\ Increasing(q)
      BY DEF IInv, QueueTypes, OrderOK
    <3>2. i \in Nat /\ j \in Nat /\ q[i] \in Task
      BY <3>1
    <3>3. q[i].id \in Nat
      BY <3>2 DEF Task
    <3>4. ~(i < j) /\ ~(j < i)
      BY <2>1, <3>1, <3>3 DEF Increasing
    <3>5. QED
      BY <3>2, <3>4
  <2>2. ASSUME NEW q \in {delayed, deferred}, NEW i \in DOMAIN q, NEW j \in DOMAIN q, q[i].id = q[j].id
        PROVE  i = j
    <3>1. NoDup(q) /\ ToSet(q) \subseteq AllQueued
      BY <1>4, <1>6 DEF Apart
    <3>2. q[i] \in ToSet(q) /\ q[j] \in ToSet(q)
      BY DEF ToSet
    <3>3. q[i] = q[j]
      BY <2>2, <3>1, <3>2 DEF IInv, TasksOK
    <3>4. QED
      BY <3>1, <3>3 DEF NoDup
  <2>3. QED
    BY <2>1, <2>2
<1>14. QED
  BY <1>11, <1>12, <1>13 DEF TasksConserved

(* QueuesConsistent: every posted task is in exactly one place, in one of  *)
(* the four queues, started or deleted with its loop, however the swap of  *)
(* the queues, nested loops and the destructor interleave.                 *)
THEOREM QueuesConsistentThm == Spec => []QueuesConsistent
<1>1. IInv => QueuesConsistent
  BY TypesFromInv, ConservedFromInv DEF QueuesConsistent
<1>2. QED
  BY <1>1, InvariantThm, PTL

-----------------------------------------------------------------------------
(* The order in which tasks are started. *)

(* What RunInOrder and NeverEarly say of a step. *)
OrderStep ==
  \A t \in QueuedTasks : Started(t) =>
    /\ ~t.nestable => Len(runs) = 1
    /\ (t.nestable /\ t.time = 0) =>
         \A u \in QueuedTasks : (u.nestable /\ u.time = 0) => u.id >= t.id

EarlyStep ==
  \A i \in DOMAIN delayed : Started(delayed[i]) =>
    /\ delayed[i].time <= now
    /\ \A j \in DOMAIN delayed :
         \/ delayed[i].time < delayed[j].time
         \/ delayed[i].time = delayed[j].time /\ i <= j

LEMMA QueuedAll ==
  QueuedTasks = AllQueued
BY DEF QueuedTasks, AllQueued, Range, ToSet

LEMMA DelayedQueued ==
  \A i \in DOMAIN delayed : delayed[i] \in AllQueued /\ delayed[i] \in ToSet(delayed)
BY DEF AllQueued, ToSet

(* Only the task that RunTask was called with is started. *)
LEMMA StartedOne ==
  ASSUME IInv, NEW t \in AllQueued, ran' = ran \cup {t.id}
  PROVE  \A u \in AllQueued : Started(u) => u = t
BY DEF IInv, TasksOK, Started

LEMMA NoneStarted ==
  ASSUME ran' = ran PROVE OrderStep /\ EarlyStep
BY DEF OrderStep, EarlyStep, Started

LEMMA DoWorkOrder ==
  ASSUME IInv, DoWork PROVE OrderStep /\ EarlyStep
<1>1. CASE ran' = ran
  BY <1>1, NoneStarted
<1>2. CASE ran' # ran
  <2> DEFINE t == Head(ReloadWorkQueue)
  <2>1. /\ ReloadWorkQueue # <<>> /\ work' = Tail(ReloadWorkQueue) /\ incoming' = Reloaded
        /\ CanRun(t) /\ RunTask(t)
    BY <1>2 DEF DoWork, DoWorkNothing, DoWorkTask
  <2>2. ran' = ran \cup {t.id}
    BY <2>1 DEF RunTask
  <2>3. /\ t \in Task /\ t \in ToSet(incoming) \cup ToSet(work) /\ t \notin ToSet(delayed)
        /\ ToSet(work') \cup ToSet(incoming') = (ToSet(work) \cup ToSet(incoming)) \ {t}
        /\ \A u \in ToSet(work') \cup ToSet(incoming') : t.id < u.id
    BY <2>1, TakeWork DEF IInv
  <2> HIDE DEF t
  <2>4. t \in AllQueued
    BY <2>3 DEF AllQueued
  <2>5. \A u \in AllQueued : Started(u) => u = t
    BY <2>2, <2>4, StartedOne
  <2>6. ~t.nestable => Len(runs) = 1
    BY <2>1 DEF CanRun
  <2>7. ASSUME NEW u \in AllQueued, u.nestable, u.time = 0 PROVE u.id >= t.id
    <3>1. u \in ToSet(work) \cup ToSet(incoming)
      <4>1. u \notin ToSet(delayed)
        BY <2>7 DEF IInv, QueueTypes, DelayedTasks, ToSet
      <4>2. u \notin ToSet(deferred)
        BY <2>7 DEF IInv, QueueTypes, NonNestable, ToSet
      <4>3. QED
        BY <4>1, <4>2 DEF AllQueued
    <3>2. u = t \/ t.id < u.id
      BY <2>3, <3>1
    <3>3. u.id \in Nat /\ t.id \in Nat
      <4>1. u.id \in 1..posted /\ t.id \in 1..posted /\ posted \in 0..MaxTasks
        BY <2>4 DEF IInv, TasksOK, QueueTypes
      <4>2. QED
        BY <4>1
    <3>4. QED
      BY <3>2, <3>3
  <2>8. OrderStep
    BY <2>5, <2>6, <2>7, QueuedAll DEF OrderStep
  <2>9. EarlyStep
    BY <2>3, <2>5, DelayedQueued DEF EarlyStep
  <2>10. QED
    BY <2>8, <2>9
<1>3. QED
  BY <1>1, <1>2

LEMMA DoDelayedWorkOrder ==
  ASSUME IInv, DoDelayedWork PROVE OrderStep /\ EarlyStep
<1>1. CASE ran' = ran
  BY <1>1, NoneStarted
<1>2. CASE ran' # ran
  <2> DEFINE k == TopIndex(delayed)
             t == delayed[k]
  <2>1. delayed # <<>> /\ DelayedTask(k)
    BY <1>2 DEF DoDelayedWork, DelayedQueueEmpty
  <2>2. /\ CanRun(t) /\ RunTask(t) /\ ~(t.time > recent_time') /\ recent_time' \in {now, recent_time}
    BY <1>2, <2>1 DEF DelayedTask, RecentTime
  <2>3. ran' = ran \cup {t.id}
    BY <2>2 DEF RunTask
  <2>4. delayed \in Seq(DelayedTasks) /\ NoDup(delayed)
    BY DEF IInv, QueueTypes, TasksOK, Apart
  <2>5. /\ k \in DOMAIN delayed
        /\ \A j \in DOMAIN delayed : \/ t.time < delayed[j].time
                                     \/ t.time = delayed[j].time /\ k <= j
    BY <2>1, <2>4, TopIndexFound
  <2>6. t \in AllQueued /\ t \in DelayedTasks
    BY <2>4, <2>5, DelayedQueued
  <2>7. t.time \in Nat /\ t.time # 0
    BY <2>6 DEF DelayedTasks, Task
  <2>8. t.time <= now
    <3>1. recent_time' \in Nat /\ now \in Nat /\ recent_time' <= now
      BY <2>2 DEF IInv, TimesOK
    <3>2. QED
      BY <2>2, <2>7, <3>1
  <2>9. \A u \in AllQueued : Started(u) => u = t
    BY <2>3, <2>6, StartedOne
  <2>10. ~t.nestable => Len(runs) = 1
    BY <2>2 DEF CanRun
  <2>11. \A i \in DOMAIN delayed : delayed[i] = t => i = k
    BY <2>4, <2>5 DEF NoDup
  <2> HIDE DEF t, k
  <2>12. OrderStep
    BY <2>7, <2>9, <2>10, QueuedAll DEF OrderStep
  <2>13. EarlyStep
    <3>1. ASSUME NEW i \in DOMAIN delayed, Started(delayed[i])
          PROVE  /\ delayed[i].time <= now
                 /\ \A j \in DOMAIN delayed :
                      \/ delayed[i].time < delayed[j].time
                      \/ delayed[i].time = delayed[j].time /\ i <= j
      <4>1. delayed[i] = t /\ i = k
        BY <2>9, <2>11, <3>1, DelayedQueued
      <4>2. QED
        BY <2>5, <2>8, <4>1
    <3>2. QED
      BY <3>1 DEF EarlyStep
  <2>14. QED
    BY <2>12, <2>13
<1>3. QED
  BY <1>1, <1>2

LEMMA DoIdleWorkOrder ==
  ASSUME IInv, DoIdleWork PROVE OrderStep /\ EarlyStep
<1>1. CASE ran' = ran
  BY <1>1, NoneStarted
<1>2. CASE ran' # ran
  <2> DEFINE t == Head(deferred)
  <2>1. deferred # <<>> /\ Len(runs) = 1 /\ RunTask(t)
    BY <1>2 DEF DoIdleWork
  <2>2. ran' = ran \cup {t.id}
    BY <2>1 DEF RunTask
  <2>3. deferred \in Seq(NonNestable) /\ ToSet(delayed) \cap ToSet(deferred) = {}
    BY DEF IInv, QueueTypes, TasksOK, Apart
  <2>4. t \in ToSet(deferred) /\ t \in NonNestable
    BY <2>1, <2>3, TailList
  <2> HIDE DEF t
  <2>5. t \in AllQueued /\ ~t.nestable /\ t \notin ToSet(delayed)
    BY <2>3, <2>4 DEF AllQueued, NonNestable
  <2>6. \A u \in AllQueued : Started(u) => u = t
    BY <2>2, <2>5, StartedOne
  <2>7. OrderStep
    BY <2>1, <2>5, <2>6, QueuedAll DEF OrderStep
  <2>8. EarlyStep
    BY <2>5, <2>6, DelayedQueued DEF EarlyStep
  <2>9. QED
    BY <2>7, <2>8
<1>3. QED
  BY <1>1, <1>2

(* TasksInOrder: tasks start in the order in which they were posted, on    *)
(* whichever level of nesting, non-nestable ones on the outermost only,    *)
(* and delayed ones by their time and never before it.                     *)
THEOREM TasksInOrderThm == Spec => TasksInOrder
<1>1. IInv /\ [Next]_vars => [OrderStep /\ EarlyStep]_vars
  <2>1. SUFFICES ASSUME IInv, Next PROVE OrderStep /\ EarlyStep
    OBVIOUS
  <2>2. CASE DoWork \/ DoDelayedWork \/ DoIdleWork
    BY <2>1, <2>2, DoWorkOrder, DoDelayedWorkOrder, DoIdleWorkOrder
  <2>3. CASE PumpWait \/ PumpWakeUp \/ TaskReturn \/ Quit \/ QuitNow \/ Tick
    BY <2>3, NoneStarted DEF PumpWait, PumpWakeUp, TaskReturn, Quit, QuitNow, Tick
  <2>4. CASE ThreadStep
    BY <2>4, NoneStarted
       DEF ThreadStep, ThreadMain, ThreadRun, ThreadCleanUp, DeletePendingTasks, DestroyLoop
  <2>5. CASE Start \/ OwnerPost \/ StopSoon \/ OwnerStep \/ ProxyScheduleWork
    BY <2>5, NoneStarted
       DEF OwnerStep, Start, OwnerPost, StopSoon, StartWaited, OwnerScheduleWork, Stop, Joined,
           ProxyScheduleWork
  <2>6. CASE \E d \in Delays, n \in BOOLEAN : ProxyPost(d, n) \/ TaskPost(d, n)
    BY <2>6, NoneStarted DEF ProxyPost, TaskPost
  <2>7. CASE \E allow, all_pending \in BOOLEAN : RunNested(allow, all_pending)
    BY <2>7, NoneStarted DEF RunNested
  <2>8. QED
    BY <2>1, <2>2, <2>3, <2>4, <2>5, <2>6, <2>7 DEF Next, LoopStep
<1>2. [OrderStep /\ EarlyStep]_vars => [OrderStep]_vars /\ [EarlyStep]_vars
  OBVIOUS
<1>3. Spec => [][OrderStep]_vars /\ [][EarlyStep]_vars
  BY <1>1, <1>2, InvariantThm, PTL DEF Spec
<1>4. [][OrderStep]_vars => RunInOrder
  BY DEF OrderStep, RunInOrder
<1>5. [][EarlyStep]_vars => NeverEarly
  BY DEF EarlyStep, NeverEarly
<1>6. QED
  BY <1>3, <1>4, <1>5, PTL DEF TasksInOrder
=============================================================================
