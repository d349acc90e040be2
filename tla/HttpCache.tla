----------------------------- MODULE HttpCache -----------------------------
(***************************************************************************)
(* net::HttpCache as one key sees it: the ActiveEntry objects that arbitrate *)
(* between the transactions of that key, the PendingOp that serialises the  *)
(* requests to the disk cache, the PendingOp of the empty key that waits    *)
(* for the backend to be built, and the part of every                       *)
(* HttpCache::Transaction that talks to them.                               *)
(*                                                                          *)
(* Everything runs on one message loop, but a notification runs the         *)
(* transaction it notifies at once, and that transaction may call back into *)
(* the cache, which may notify others.  The calls in progress are therefore *)
(* explicit: `stack' holds, innermost last, the transactions that are       *)
(* executing DoLoop and the two loops of the cache that notify a list of    *)
(* transactions (OnIOComplete and DoneWritingToEntry).  Only the innermost  *)
(* call takes steps; timers, the disk and the users act when it is empty.   *)
(***************************************************************************)
EXTENDS Naturals, Sequences, SequencesExt, FiniteSets

CONSTANTS MaxTrans,   \* bound on the transactions that ask for the key
          Entries,    \* the addresses ActiveEntry objects may have
          None        \* NULL

ASSUME MaxTransAssumption == MaxTrans \in Nat \ {0}

\* The transactions, numbered in the order they start.
Trans == 1..MaxTrans

\* The posted OnBackendCreated; every other task is the entry that
\* OnProcessPendingQueue is posted for.
BackendTask == "OnBackendCreated"

\* NULL, the addresses and what stands beside them in a variable differ.
ASSUME NullAssumption ==
  /\ None \notin Trans /\ None \notin Entries /\ None \notin {"backend", "op"}
  /\ {BackendTask, "backend", "op"} \cap Entries = {}

VARIABLES
  active,        \* active_entries_[key]
  live,          \* which ActiveEntry objects exist, and of each ...
  writer,        \* ... its writer,
  readers,       \* readers,
  pending_queue, \* pending_queue,
  will_process,  \* will_process_pending_queue,
  doomed,        \* and whether it is doomed
  tasks,         \* the posted tasks
  op,            \* pending_ops_[key]
  backend,       \* disk_cache_, backend_factory_, building_backend_
  backend_writer,\* pending_ops_[""]: the transaction to be told next ...
  backend_queue, \* ... and the ones after it
  trans,         \* the transactions
  stack,         \* the calls in progress
  sync           \* does the backend answer synchronously (the memory cache does)?

lockVars == <<writer, readers, pending_queue, will_process, tasks>>
entryVars == <<active, live, doomed, lockVars>>
backendVars == <<backend, backend_writer, backend_queue>>
vars == <<entryVars, op, backendVars, trans, stack, sync>>

Modes == {"READ", "WRITE", "READ_WRITE", "UPDATE"}

Writes(mode) == mode \in {"WRITE", "READ_WRITE", "UPDATE"}

Waits == {"backend_wait", "open_wait", "create_wait", "doom_wait", "add_wait"}

Waiting(t) == trans[t].state \in Waits

WorkItem(operation, t) == [op |-> operation, trans |-> t]

ItemType == [op : {"OPEN", "CREATE", "DOOM"}, trans : Trans \cup {None}]

PendingOp == [writer : ItemType, queue : Seq(ItemType)]

ASSUME NoneNotAnOp == None \notin PendingOp

\* next_state_, mode_, entry_ and new_entry_ of a Transaction.
Transaction(state, mode, entry, new_entry) ==
  [state |-> state, mode |-> mode, entry |-> entry, new_entry |-> new_entry]

\* creating: the factory has still to call back.
Backend(ready, factory, building, creating) ==
  [ready |-> ready, factory |-> factory, building |-> building, creating |-> creating]

Init ==
  /\ active = None /\ op = None /\ tasks = <<>>
  /\ live = [e \in Entries |-> FALSE] /\ doomed = [e \in Entries |-> FALSE]
  /\ writer = [e \in Entries |-> None] /\ readers = [e \in Entries |-> {}]
  /\ pending_queue = [e \in Entries |-> <<>>] /\ will_process = [e \in Entries |-> FALSE]
  /\ backend = Backend(FALSE, TRUE, FALSE, FALSE)
  /\ backend_writer = None /\ backend_queue = <<>>
  /\ trans = [t \in Trans |-> Transaction("idle", "NONE", None, None)]
  /\ stack = <<>>
  /\ sync \in BOOLEAN

----------------------------------------------------------------------------
(* The calls in progress.                                                   *)

Running(t) == [kind |-> "DoLoop", trans |-> t]

NotifyItems(operation, result, fail, items) ==
  [kind |-> "OnIOComplete", op |-> operation, result |-> result, fail |-> fail, items |-> items]

\* DoneWritingToEntry(entry, false), called by `by', which goes on in `then'.
NotifyRace(queue, by, then) ==
  [kind |-> "DoneWritingToEntry", queue |-> queue, by |-> by, then |-> then]

Top == Last(stack)

IsTop(kind) == stack # <<>> /\ Top.kind = kind

Runs(t, state) == IsTop("DoLoop") /\ Top.trans = t /\ trans[t].state = state

\* A message loop task, or a step of t's DoLoop that did not have to wait.
Acts(t) == stack = <<>> \/ (IsTop("DoLoop") /\ Top.trans = t)

\* The stack once t executes DoLoop, whether it already did or not.
Entered(t) == IF stack = <<>> THEN <<Running(t)>> ELSE stack

----------------------------------------------------------------------------
(* HttpCache's operations on the entries of the key.                        *)

PostProcessPendingQueue(e, posted) ==
  /\ will_process' = [will_process EXCEPT ![e] = TRUE]
  /\ tasks' = Append(posted, e)

ProcessPendingQueue(e) ==
  IF will_process[e] THEN UNCHANGED <<will_process, tasks>>
  ELSE PostProcessPendingQueue(e, tasks)

NewEntry == CHOOSE e \in Entries : ~live[e]

\* The fields of a new entry have the values that the ones of a freed address
\* have here.  As a bound there is an address left.
ActivateEntry ==
  /\ \E e \in Entries : ~live[e]
  /\ active' = NewEntry
  /\ live' = [live EXCEPT ![NewEntry] = TRUE]

\* FinalizeDoomedEntry or DeactivateEntry; `dooms' and `listed' are doomed and
\* active when it is called.
DestroyEntry(e, dooms, listed) ==
  /\ live' = [live EXCEPT ![e] = FALSE]
  /\ writer' = [writer EXCEPT ![e] = None]
  /\ readers' = [readers EXCEPT ![e] = {}]
  /\ pending_queue' = [pending_queue EXCEPT ![e] = <<>>]
  /\ will_process' = [will_process EXCEPT ![e] = FALSE]
  /\ doomed' = [dooms EXCEPT ![e] = FALSE]
  /\ active' = IF dooms[e] THEN listed ELSE None

\* The doomed entries once the active one is among them.
WithActive == IF active = None THEN doomed ELSE [doomed EXCEPT ![active] = TRUE]

\* Mutant: the doomed entry is still found.
DoomActiveStaysListed == doomed' = WithActive /\ UNCHANGED active

DoomActive == doomed' = WithActive /\ active' = None

\* The request becomes the writer of the key's PendingOp or joins its queue.
Submitted(operation, t) ==
  IF op = None THEN [writer |-> WorkItem(operation, t), queue |-> <<>>]
  ELSE [writer |-> op.writer, queue |-> Append(op.queue, WorkItem(operation, t))]

\* DoomEntry(key, NULL) asks the disk if there is no active entry: nobody waits
\* for the answer.
AskToDoom == op' = IF active # None \/ sync THEN op ELSE Submitted("DOOM", None)

\* Mutant: a writer does not wait for the readers.
MayAddIgnoresReaders(e, mode, posted) == writer[e] = None /\ ~posted

\* May a transaction have the entry at once?  posted: its task is posted.
MayAdd(e, mode, posted) ==
  /\ writer[e] = None
  /\ ~posted
  /\ Writes(mode) => readers[e] = {}

\* `queue', `posted' and `left' are the entry's pending_queue and will_process
\* and the posted tasks when it is called.
AddTransactionToEntry(e, t, mode, queue, posted, left) ==
  \/ /\ ~MayAdd(e, mode, posted)
     /\ pending_queue' = [pending_queue EXCEPT ![e] = Append(queue, t)]
     /\ will_process' = [will_process EXCEPT ![e] = posted]
     /\ tasks' = left
     /\ UNCHANGED <<writer, readers>>
  \/ /\ MayAdd(e, mode, posted) /\ Writes(mode)
     /\ writer' = [writer EXCEPT ![e] = t]
     /\ pending_queue' = [pending_queue EXCEPT ![e] = queue]
     /\ will_process' = [will_process EXCEPT ![e] = posted]
     /\ tasks' = left
     /\ UNCHANGED readers
  \/ /\ MayAdd(e, mode, posted) /\ ~Writes(mode)
     /\ readers' = [readers EXCEPT ![e] = readers[e] \cup {t}]
     /\ pending_queue' = [pending_queue EXCEPT ![e] = queue]
     /\ IF queue = <<>>
        THEN will_process' = [will_process EXCEPT ![e] = posted] /\ tasks' = left
        ELSE PostProcessPendingQueue(e, left)
     /\ UNCHANGED writer

DoneReadingFromEntry(e, t) ==
  /\ readers' = [readers EXCEPT ![e] = readers[e] \ {t}]
  /\ ProcessPendingQueue(e)
  /\ UNCHANGED <<writer, pending_queue>>

ConvertWriterToReader(e) ==
  /\ writer' = [writer EXCEPT ![e] = None]
  /\ readers' = [readers EXCEPT ![e] = readers[e] \cup {writer[e]}]
  /\ ProcessPendingQueue(e)
  /\ UNCHANGED pending_queue

\* DoneWritingToEntry(entry, true).
DoneWriting(e) ==
  /\ writer' = [writer EXCEPT ![e] = None]
  /\ ProcessPendingQueue(e)
  /\ UNCHANGED <<readers, pending_queue>>

InQueue(e, t) == e # None /\ t \in ToSet(pending_queue[e])

InPendingOp(pending, t) ==
  /\ pending # None
  /\ pending.writer.trans = t \/ \E i \in DOMAIN pending.queue : pending.queue[i].trans = t

WithoutPendingOp(t) ==
  IF op.writer.trans = t THEN [writer |-> WorkItem(op.writer.op, None), queue |-> op.queue]
  ELSE LET i == SelectInSeq(op.queue, LAMBDA item : item.trans = t)
       IN [writer |-> op.writer, queue |-> RemoveAt(op.queue, i)]

InBackendOp(t) == backend_writer = t \/ t \in ToSet(backend_queue)

DoomedEntries == {e \in Entries : live[e] /\ doomed[e]}

\* Mutant: the doomed entries are not searched.
PlaceOfActiveOnly(t) ==
  IF InQueue(active, t) THEN active
  ELSE IF backend.building /\ InBackendOp(t) THEN "backend"
  ELSE IF InPendingOp(op, t) THEN "op"
  ELSE None

\* Where RemovePendingTransaction finds t: an entry, a PendingOp, or nowhere.
PlaceOf(t) ==
  IF InQueue(active, t) THEN active
  ELSE IF backend.building /\ InBackendOp(t) THEN "backend"
  ELSE IF InPendingOp(op, t) THEN "op"
  ELSE IF \E e \in DoomedEntries : InQueue(e, t)
       THEN CHOOSE e \in DoomedEntries : InQueue(e, t)
  ELSE None

----------------------------------------------------------------------------
(* HttpCache::Transaction: what it does with the result it waited for.      *)

\* The transaction goes on in another state; entry_ and new_entry_ stay.
Moved(tr, state) == Transaction(state, tr.mode, tr.entry, tr.new_entry)

DoInitEntry(tr) == Moved(tr, IF tr.mode = "WRITE" THEN "doom" ELSE "open")

\* The transaction has no more business with the cache: it goes on in mode NONE,
\* it reports an error or the end of the data, or its user has deleted it.
Done == Transaction("done", "NONE", None, None)

DoGetBackendComplete(tr, result) ==
  IF result = "OK" THEN DoInitEntry(tr) ELSE Done

\* On a miss an UPDATE transaction goes on without the cache and a READ one
\* reports ERR_CACHE_MISS.
DoOpenEntryComplete(tr, result) ==
  CASE result = "OK" -> Moved(tr, "add")
    [] result = "RACE" -> DoInitEntry(tr)
    [] result = "FAILED" /\ tr.mode = "READ_WRITE" ->
         Transaction("create", "WRITE", tr.entry, tr.new_entry)
    [] OTHER -> Done

DoCreateEntryComplete(tr, result) ==
  CASE result = "OK" -> Moved(tr, "add")
    [] result = "RACE" -> DoInitEntry(tr)
    [] OTHER -> Done

DoDoomEntryComplete(tr, result) ==
  IF result = "RACE" THEN DoInitEntry(tr) ELSE Moved(tr, "create")

DoAddToEntryComplete(tr, result) ==
  IF result = "RACE" THEN DoInitEntry(Transaction(tr.state, tr.mode, tr.entry, None))
  ELSE Transaction("attached", tr.mode, tr.new_entry, None)

\* io_callback()->Run(result), up to the next request of the transaction.
IOComplete(tr, result) ==
  CASE tr.state = "backend_wait" -> DoGetBackendComplete(tr, result)
    [] tr.state = "open_wait" -> DoOpenEntryComplete(tr, result)
    [] tr.state = "create_wait" -> DoCreateEntryComplete(tr, result)
    [] tr.state = "doom_wait" -> DoDoomEntryComplete(tr, result)
    [] tr.state = "add_wait" -> DoAddToEntryComplete(tr, result)

\* The request has set new_entry_.
Told(tr, e) == Transaction(tr.state, tr.mode, tr.entry, e)

Becomes(t, tr) == trans' = [trans EXCEPT ![t] = tr]

\* The transaction waits: DoLoop returns ERR_IO_PENDING.
Wait(t, state) == Becomes(t, Moved(trans[t], state)) /\ stack' = Front(stack)

Continue(t, tr) == Becomes(t, tr) /\ UNCHANGED stack

\* WorkItem::NotifyTransaction on top of the calls `below'.
NotifyTransaction(below, item, result, e) ==
  IF item.trans = None THEN stack' = below /\ UNCHANGED trans
  ELSE LET tr == trans[item.trans]
       IN /\ Becomes(item.trans,
                     IOComplete(IF item.op \in {"OPEN", "CREATE"} THEN Told(tr, e) ELSE tr,
                                result))
          /\ stack' = Append(below, Running(item.trans))

----------------------------------------------------------------------------
(* The backend: CreateBackend, GetBackendForTransaction, OnBackendCreated.   *)

Result(ok) == IF ok THEN "OK" ELSE "FAILED"

\* CreateTransaction's lazy CreateBackend(NULL, NULL).  The memory backend is
\* created before the call returns.
CreateBackend ==
  IF backend.ready \/ ~backend.factory \/ backend.creating THEN {backend}
  ELSE IF sync THEN {Backend(ok, FALSE, FALSE, FALSE) : ok \in BOOLEAN}
  ELSE {Backend(FALSE, TRUE, TRUE, TRUE)}

\* A user creates a transaction and calls Start.
Start(t) ==
  /\ stack = <<>>
  /\ trans[t].state = "idle"
  /\ t > 1 => trans[t - 1].state # "idle"
  /\ \E mode \in Modes, b \in CreateBackend :
       LET tr == Transaction("backend_wait", mode, None, None)
       IN /\ backend' = b
          /\ IF b.ready \/ ~b.building
             THEN /\ Becomes(t, DoGetBackendComplete(tr, Result(b.ready)))
                  /\ stack' = <<Running(t)>>
                  /\ UNCHANGED backend_queue
             ELSE /\ backend_queue' = Append(backend_queue, t)
                  /\ Becomes(t, tr)
                  /\ UNCHANGED stack
  /\ UNCHANGED <<entryVars, op, backend_writer, sync>>

\* Mutant: only the first waiting transaction is notified.
NotifyBackendOnce(ok, left) ==
  /\ backend' = Backend(ok, FALSE, FALSE, FALSE)
  /\ backend_writer' = None /\ tasks' = left
  /\ NotifyTransaction(<<>>, WorkItem("BACKEND", backend_writer), Result(ok), None)
  /\ UNCHANGED backend_queue

\* One waiting transaction is notified; the next one gets a task of its own.
NotifyBackend(ok, left) ==
  /\ \/ /\ backend_queue = <<>>
        /\ backend' = Backend(ok, FALSE, FALSE, FALSE)
        /\ backend_writer' = None /\ tasks' = left
        /\ UNCHANGED backend_queue
     \/ /\ backend_queue # <<>>
        /\ backend' = Backend(ok, FALSE, TRUE, FALSE)
        /\ backend_writer' = Head(backend_queue) /\ backend_queue' = Tail(backend_queue)
        /\ tasks' = Append(left, BackendTask)
  /\ NotifyTransaction(<<>>, WorkItem("BACKEND", backend_writer), Result(ok), None)

\* The backend's constructor calls back: the first OnBackendCreated.
BackendCreated ==
  /\ stack = <<>>
  /\ backend.creating
  /\ \E ok \in BOOLEAN : NotifyBackend(ok, tasks)
  /\ UNCHANGED <<active, live, doomed, writer, readers, pending_queue, will_process, op, sync>>

\* A posted OnBackendCreated runs.
OnBackendCreated ==
  /\ stack = <<>>
  /\ tasks # <<>> /\ Head(tasks) = BackendTask
  /\ NotifyBackend(backend.ready, Tail(tasks))
  /\ UNCHANGED <<active, live, doomed, writer, readers, pending_queue, will_process, op, sync>>

----------------------------------------------------------------------------
(* A transaction asks for the entry.                                        *)

\* The backend answers in the call: a new entry is active if `ok'.
Answered(ok) ==
  /\ sync
  /\ \/ ok /\ ActivateEntry
     \/ ~ok /\ UNCHANGED <<active, live>>

DoOpenEntry(t) ==
  /\ Runs(t, "open")
  /\ \/ /\ active # None
        /\ Continue(t, DoOpenEntryComplete(Told(trans[t], active), "OK"))
        /\ UNCHANGED <<active, live, op>>
     \/ /\ active = None
        /\ \E ok \in BOOLEAN :
             /\ Answered(ok)
             /\ Continue(t, DoOpenEntryComplete(Told(trans[t], active'), Result(ok)))
        /\ UNCHANGED op
     \/ /\ active = None /\ ~sync
        /\ op' = Submitted("OPEN", t)
        /\ Wait(t, "open_wait")
        /\ UNCHANGED <<active, live>>
  /\ UNCHANGED <<doomed, lockVars, backendVars, sync>>

DoCreateEntry(t) ==
  /\ Runs(t, "create")
  /\ \/ /\ \E ok \in BOOLEAN :
             /\ Answered(ok)
             /\ Continue(t, DoCreateEntryComplete(Told(trans[t], active'), Result(ok)))
        /\ UNCHANGED op
     \/ /\ ~sync
        /\ op' = Submitted("CREATE", t)
        /\ Wait(t, "create_wait")
        /\ UNCHANGED <<active, live>>
  /\ UNCHANGED <<doomed, lockVars, backendVars, sync>>

DoDoomEntry(t) ==
  /\ Runs(t, "doom")
  /\ \/ /\ active # None
        /\ DoomActive
        /\ Continue(t, DoDoomEntryComplete(trans[t], "OK"))
        /\ UNCHANGED op
     \/ /\ active = None /\ sync
        /\ Continue(t, DoDoomEntryComplete(trans[t], "OK"))
        /\ UNCHANGED <<active, doomed, op>>
     \/ /\ active = None /\ ~sync
        /\ op' = Submitted("DOOM", t)
        /\ Wait(t, "doom_wait")
        /\ UNCHANGED <<active, doomed>>
  /\ UNCHANGED <<live, lockVars, backendVars, sync>>

DoAddToEntry(t) ==
  /\ Runs(t, "add")
  /\ LET e == trans[t].new_entry
         mode == trans[t].mode
     IN /\ AddTransactionToEntry(e, t, mode, pending_queue[e], will_process[e], tasks)
        /\ IF MayAdd(e, mode, will_process[e])
           THEN Continue(t, DoAddToEntryComplete(trans[t], "OK"))
           ELSE Wait(t, "add_wait")
  /\ UNCHANGED <<active, live, doomed, op, backendVars, sync>>

\* DoLoop returns: the transaction waits for the network, for the entry's data
\* or for its user.
Return(t) ==
  /\ Runs(t, "attached") \/ Runs(t, "done")
  /\ stack' = Front(stack)
  /\ UNCHANGED <<entryVars, op, backendVars, trans, sync>>

----------------------------------------------------------------------------
(* The disk cache answers: OnIOComplete.                                    *)

\* Mutant: the entry is activated for a transaction that is gone.
OpenedAnyway(item, ok) == ok /\ item.op # "DOOM"

\* The answer makes an entry active: its transaction still waits for it.
Opened(item, ok) == ok /\ item.op # "DOOM" /\ item.trans # None

\* The part before the loop, for the writer of the PendingOp.
OnIOComplete ==
  /\ stack = <<>>
  /\ op # None
  /\ op' = None
  /\ \E ok \in BOOLEAN :
       LET item == op.writer
           opened == Opened(item, ok)
           loop == NotifyItems(item.op, Result(ok), ok /\ ~opened, op.queue)
       IN \/ opened /\ ActivateEntry /\ NotifyTransaction(<<loop>>, item, "OK", active')
          \/ /\ ~opened /\ UNCHANGED <<active, live>>
             /\ NotifyTransaction(<<loop>>, item, Result(ok), None)
  /\ UNCHANGED <<doomed, lockVars, backendVars, sync>>

\* What the loop of OnIOComplete tells the item at the head of its list.
FailsFrom(frame, item) ==
  frame.fail \/ item.op = "DOOM" \/ (frame.result = "OK" /\ active = None)

RacesWith(frame, item) ==
  frame.result # "OK" /\ (item.op = "CREATE") # (frame.op = "CREATE")

ItemEntry(frame) == IF frame.result = "OK" THEN active ELSE None

NotifyNextItem ==
  /\ IsTop("OnIOComplete")
  /\ \/ Top.items = <<>> /\ stack' = Front(stack) /\ UNCHANGED trans
     \/ /\ Top.items # <<>>
        /\ LET item == Head(Top.items)
               failed == FailsFrom(Top, item)
               races == ~failed /\ RacesWith(Top, item)
               second == item.op = "CREATE" /\ Top.result = "OK"
               loop == NotifyItems(Top.op, Top.result, failed \/ races, Tail(Top.items))
               below == Append(Front(stack), loop)
           IN \/ (failed \/ races) /\ NotifyTransaction(below, item, "RACE", None)
              \/ ~failed /\ second /\ NotifyTransaction(below, item, "FAILED", None)
              \/ /\ ~failed /\ ~races /\ ~second
                 /\ NotifyTransaction(below, item, Top.result, ItemEntry(Top))
  /\ UNCHANGED <<entryVars, op, backendVars, sync>>

----------------------------------------------------------------------------
(* The posted OnProcessPendingQueue.                                        *)

\* Nobody waits for the entry.
ProcessEmptyQueue(e) ==
  /\ pending_queue[e] = <<>>
  /\ tasks' = Tail(tasks)
  /\ \/ readers[e] = {} /\ DestroyEntry(e, doomed, active)
     \/ /\ readers[e] # {}
        /\ will_process' = [will_process EXCEPT ![e] = FALSE]
        /\ UNCHANGED <<active, live, doomed, writer, readers, pending_queue>>
  /\ UNCHANGED <<trans, stack>>

ProcessHeadOfQueue(e) ==
  LET next == Head(pending_queue[e])
      mode == trans[next].mode
  IN /\ pending_queue[e] # <<>>
     /\ \/ /\ Writes(mode) /\ readers[e] # {}
           /\ tasks' = Tail(tasks)
           /\ will_process' = [will_process EXCEPT ![e] = FALSE]
           /\ UNCHANGED <<writer, readers, pending_queue, trans, stack>>
        \/ /\ ~(Writes(mode) /\ readers[e] # {})
           /\ AddTransactionToEntry(e, next, mode, Tail(pending_queue[e]), FALSE, Tail(tasks))
           /\ IF MayAdd(e, mode, FALSE)
              THEN NotifyTransaction(<<>>, WorkItem("ADD", next), "OK", None)
              ELSE UNCHANGED <<trans, stack>>
     /\ UNCHANGED <<active, live, doomed>>

OnProcessPendingQueue ==
  /\ stack = <<>>
  /\ tasks # <<>> /\ Head(tasks) # BackendTask
  /\ ProcessEmptyQueue(Head(tasks)) \/ ProcessHeadOfQueue(Head(tasks))
  /\ UNCHANGED <<op, backendVars, sync>>

----------------------------------------------------------------------------
(* A transaction that has the entry.                                        *)

\* HttpCache::DoneWritingToEntry(entry, false): the entry is doomed and
\* destroyed, and the transactions in its queue will be told.
FailWriting(e, dooms, listed, t, then) ==
  /\ DestroyEntry(e, dooms, listed)
  /\ stack' = Append(Entered(t), NotifyRace(pending_queue[e], t, then))
  /\ UNCHANGED tasks

Has(t, modes) == Acts(t) /\ trans[t].state = "attached" /\ trans[t].mode \in modes

\* Transaction::DoneWritingToEntry(success).
DoneWritingToEntry(t) ==
  /\ Has(t, {"WRITE", "READ_WRITE", "UPDATE"})
  /\ LET e == trans[t].entry
     IN \/ /\ DoneWriting(e)
           /\ Continue(t, Done)
           /\ UNCHANGED <<active, live, doomed>>
        \/ /\ FailWriting(e, doomed, active, t, Done)
           /\ Becomes(t, Moved(trans[t], "closing"))
  /\ UNCHANGED <<op, backendVars, sync>>

\* The loop of HttpCache::DoneWritingToEntry: each waiting transaction starts
\* again; then the caller goes on.
NotifyNextRace ==
  /\ IsTop("DoneWritingToEntry")
  /\ \/ /\ Top.queue = <<>>
        /\ Becomes(Top.by, Top.then)
        /\ stack' = Front(stack)
     \/ /\ Top.queue # <<>>
        /\ NotifyTransaction(Append(Front(stack), NotifyRace(Tail(Top.queue), Top.by, Top.then)),
                             WorkItem("ADD", Head(Top.queue)), "RACE", None)
  /\ UNCHANGED <<entryVars, op, backendVars, sync>>

\* The end of the cached data.
DoneReading(t) ==
  /\ Has(t, {"READ"})
  /\ DoneReadingFromEntry(trans[t].entry, t)
  /\ Continue(t, Done)
  /\ UNCHANGED <<active, live, doomed, op, backendVars, sync>>

InMode(tr, mode) == Transaction(tr.state, mode, tr.entry, tr.new_entry)

\* The stored response is valid: it needs no validation, or the server said 304.
ServeFromCache(t) ==
  /\ Has(t, {"READ_WRITE"})
  /\ ConvertWriterToReader(trans[t].entry)
  /\ Continue(t, InMode(trans[t], "READ"))
  /\ UNCHANGED <<active, live, doomed, op, backendVars, sync>>

\* The server sent a new response, or the request cannot be made conditional.
Overwrite(t) ==
  /\ Has(t, {"READ_WRITE", "UPDATE"})
  /\ Continue(t, InMode(trans[t], "WRITE"))
  /\ UNCHANGED <<entryVars, op, backendVars, sync>>

\* DoUpdateCachedResponse with a no-store response, and its completion.  A
\* range request that has more ranges to read stays the writer; as a bound it
\* does so only while its entry is not doomed, so that it happens once.
UpdateNoStore(t) ==
  /\ Has(t, {"READ_WRITE", "UPDATE"})
  /\ DoomActive /\ AskToDoom
  /\ LET e == trans[t].entry
     IN \/ /\ trans[t].mode = "UPDATE"
           /\ DoneWriting(e)
           /\ Continue(t, Done)
        \/ /\ trans[t].mode = "READ_WRITE"
           /\ ConvertWriterToReader(e)
           /\ Continue(t, InMode(trans[t], "READ"))
        \/ /\ trans[t].mode = "READ_WRITE" /\ ~doomed[e]
           /\ UNCHANGED <<lockVars, trans, stack>>
  /\ UNCHANGED <<live, backendVars, sync>>

\* DoomPartialEntry: the stored ranges cannot be used.  The transaction starts
\* again with a new entry, or goes on without the cache.
DoomPartialEntry(t) ==
  /\ Has(t, {"READ_WRITE", "WRITE"})
  /\ AskToDoom
  /\ \E then \in {Done, DoInitEntry(Transaction("closing", "WRITE", None, trans[t].new_entry))} :
       /\ trans[t].mode = "WRITE" => then = Done
       /\ FailWriting(trans[t].entry, WithActive, None, t, then)
  /\ Becomes(t, Moved(trans[t], "closing"))
  /\ UNCHANGED <<backendVars, sync>>

----------------------------------------------------------------------------
(* The user deletes the transaction: ~Transaction.                          *)

\* RemovePendingTransaction.
RemovePending(t) ==
  LET place == PlaceOf(t)
  IN \/ /\ place = "backend"
        /\ \/ backend_writer = t /\ backend_writer' = None /\ UNCHANGED backend_queue
           \/ /\ backend_writer # t
              /\ backend_queue' = RemoveFirst(backend_queue, t)
              /\ UNCHANGED backend_writer
        /\ UNCHANGED <<pending_queue, op>>
     \/ /\ place = "op"
        /\ op' = WithoutPendingOp(t)
        /\ UNCHANGED <<pending_queue, backend_writer, backend_queue>>
     \/ /\ place \in Entries
        /\ pending_queue' = [pending_queue EXCEPT ![place] = RemoveFirst(pending_queue[place], t)]
        /\ UNCHANGED <<op, backend_writer, backend_queue>>
     \/ /\ place = None
        /\ UNCHANGED <<pending_queue, op, backend_writer, backend_queue>>

CancelWaiting(t) ==
  /\ stack = <<>>
  /\ Waiting(t)
  /\ RemovePending(t)
  /\ Continue(t, Done)
  /\ UNCHANGED <<active, live, doomed, writer, readers, will_process, tasks, backend, sync>>

\* AddTruncatedFlag's own DoneWritingToEntry(false) has destroyed `e', and it
\* returns true: DoneWithEntry goes on with the deleted entry.  What follows is
\* undefined; no step of the model does, so that nothing is claimed beyond.
Dangling(e) == Transaction("dangling", "NONE", e, None)

\* May AddTruncatedFlag fail to write the response?  The memory cache may refuse
\* the data in the call (the disk cache answers later, to nobody); of a range
\* request that has doomed its entry the response may be no-store.
FailsToTruncate(t) == sync \/ (doomed[trans[t].entry] /\ trans[t].mode = "READ_WRITE")

\* DoneWithEntry.  A writer may keep what it wrote, flagged as truncated; it may
\* also fail to flag it and destroy the entry on the way.
DoneWithEntry(t) ==
  LET e == trans[t].entry
      cancelled == will_process[e] /\ readers[e] = {}
      unlisted == UNCHANGED <<active, live, doomed>>
  IN \/ cancelled /\ unlisted /\ UNCHANGED <<lockVars, stack>>
     \/ ~cancelled /\ writer[e] = None /\ DoneReadingFromEntry(e, t) /\ unlisted /\ UNCHANGED stack
     \/ ~cancelled /\ writer[e] # None /\ DoneWriting(e) /\ unlisted /\ UNCHANGED stack
     \/ ~cancelled /\ writer[e] # None /\ FailWriting(e, doomed, active, t, Done)
     \/ ~cancelled /\ writer[e] # None /\ FailsToTruncate(t)
          /\ FailWriting(e, doomed, active, t, Dangling(e))

DestroyAttached(t) ==
  /\ Acts(t) /\ trans[t].state = "attached"
  /\ DoneWithEntry(t)
  /\ Becomes(t, Done)
  /\ UNCHANGED <<op, backendVars, sync>>

----------------------------------------------------------------------------
Asks(t) == DoOpenEntry(t) \/ DoCreateEntry(t) \/ DoDoomEntry(t) \/ DoAddToEntry(t)

Uses(t) ==
  \/ ServeFromCache(t) \/ Overwrite(t)
  \/ UpdateNoStore(t) \/ DoomPartialEntry(t)

Leaves(t) == DoneWritingToEntry(t) \/ DoneReading(t) \/ DestroyAttached(t)

\* What the message loop does without the users: finish DoLoop, answer, notify.
Proceeds(t) == Asks(t) \/ Return(t)

Answers == BackendCreated \/ OnIOComplete

Tasks == OnBackendCreated \/ OnProcessPendingQueue

Notifies == NotifyNextItem \/ NotifyNextRace

Next ==
  \/ Answers \/ Tasks \/ Notifies
  \/ \E t \in Trans : Start(t) \/ Proceeds(t) \/ Uses(t) \/ Leaves(t)
                      \/ CancelWaiting(t)

Spec == Init /\ [][Next]_vars

FairSpec ==
  /\ Spec
  /\ WF_vars(Answers) /\ WF_vars(Tasks) /\ WF_vars(Notifies)
  /\ \A t \in Trans : WF_vars(Proceeds(t)) /\ WF_vars(Leaves(t))

----------------------------------------------------------------------------
(* Properties.                                                              *)

\* Every field holds what the C++ types allow, a PendingOp always has a writer,
\* and no transaction is in two places of a queue.
TypeOK ==
  /\ active \in Entries \cup {None}
  /\ op \in PendingOp \cup {None}
  /\ ToSet(tasks) \subseteq Entries \cup {BackendTask}
  /\ writer \in [Entries -> Trans \cup {None}]
  /\ readers \in [Entries -> SUBSET Trans]
  /\ \A e \in Entries : ToSet(pending_queue[e]) \subseteq Trans /\ IsInjective(pending_queue[e])
  /\ {live, will_process, doomed} \subseteq [Entries -> BOOLEAN]
  /\ backend_writer \in Trans \cup {None}
  /\ ToSet(backend_queue) \subseteq Trans /\ IsInjective(backend_queue)
  /\ \A t \in Trans :
       /\ trans[t].state \in Waits \cup {"idle", "open", "create", "doom", "add", "attached",
                                          "closing", "dangling", "done"}
       /\ trans[t].mode \in Modes \cup {"NONE"}
       /\ {trans[t].entry, trans[t].new_entry} \subseteq Entries \cup {None}
  /\ sync \in BOOLEAN

\* "We implement a basic reader/writer lock for the disk cache entry"
\* (AddTransactionToEntry): an entry with a writer has no reader and no posted
\* task, and the transactions it lists are exactly those whose entry_ points to
\* it, writers with a mode that writes and readers with one that does not; also
\* after a writer became a reader, failed, or was deleted.
EntryLocked ==
  /\ \A e \in Entries : writer[e] # None => readers[e] = {} /\ ~will_process[e]
  /\ \A t \in Trans, e \in Entries :
       LET holds == trans[t].state = "attached" /\ trans[t].entry = e
       IN /\ writer[e] = t <=> holds /\ Writes(trans[t].mode)
          /\ t \in readers[e] <=> holds /\ ~Writes(trans[t].mode)

\* The lists that OnIOComplete and DoneWritingToEntry are notifying from.
NotifiedBy(frame, t) ==
  \/ frame.kind = "DoneWritingToEntry" /\ t \in ToSet(frame.queue)
  \/ frame.kind = "OnIOComplete" /\ \E i \in DOMAIN frame.items : frame.items[i].trans = t

BeingNotified(t) == \E i \in DOMAIN stack : NotifiedBy(stack[i], t)

\* The queue a transaction that waits for `state' is in.
Queued(t) == InPendingOp(op, t) \/ InBackendOp(t) \/ \E e \in Entries : InQueue(e, t)

\* DCHECK(found) in RemovePendingTransaction, and its converse: a transaction
\* that waits can always be found by it (or is about to be notified), and one
\* that does not wait, above all a deleted one, is in no list that the cache
\* will notify from.
WaitersFound ==
  \A t \in Trans :
    /\ Waiting(t) => (PlaceOf(t) # None) # BeingNotified(t)
    /\ ~Waiting(t) => ~Queued(t) /\ ~BeingNotified(t)

\* No pointer outlives an ActiveEntry: entry_ and new_entry_ of a transaction
\* that may still use them, active_entries_, and the argument of every posted
\* OnProcessPendingQueue, of which an entry has one exactly while
\* will_process_pending_queue is set.  There is one exception, which the code
\* has too: the argument of a DoneWithEntry whose AddTruncatedFlag destroyed the
\* entry ("dangling"), in which the run of the program is given up.
NoDanglingEntry ==
  /\ active # None => live[active]
  /\ \A t \in Trans :
       /\ trans[t].state = "attached" => live[trans[t].entry]
       /\ trans[t].state \in {"add", "add_wait"} /\ ~BeingNotified(t) => live[trans[t].new_entry]
  /\ \A e \in Entries :
       /\ live[e] /\ will_process[e] <=> e \in ToSet(tasks)
       /\ \A i, j \in DOMAIN tasks : tasks[i] = e /\ tasks[j] = e => i = j

\* "otherwise the cache will end up with an active entry without any transaction
\* attached" (DoOpenEntryComplete): when no call is in progress every entry is
\* the active one or a doomed one, and somebody will release it and move its
\* queue on: a writer, a reader, or a posted OnProcessPendingQueue.
NoOrphanEntry ==
  \A e \in Entries :
    live[e] =>
      /\ doomed[e] <=> active # e
      /\ stack = <<>> => writer[e] # None \/ readers[e] # {} \/ will_process[e]

\* The DCHECKs of ActivateEntry, CreateEntry and GetPendingOp: no request to
\* the disk cache is outstanding for a key that has an active entry, so that no
\* answer can activate a second entry for it.
OneEntryPerKey == op # None => active = None

\* The ActiveEntry objects and who points to them agree, whatever was cancelled,
\* doomed or notified on the way.
EntriesConsistent == TypeOK /\ OneEntryPerKey /\ NoDanglingEntry /\ NoOrphanEntry

Joined(e) == ToSet(pending_queue[e]) \cup readers[e] \cup {writer[e]}

\* "Dooming an entry only means that it will no longer be returned by
\* FindActiveEntry" (DoomEntry): nobody joins a doomed entry that was not
\* already waiting for it, although requests for the key are answered from
\* lists made before the entry was doomed.
DoomedNotJoined ==
  [][\A e \in Entries :
       live[e] /\ doomed[e] /\ doomed'[e] => Joined(e)' \subseteq Joined(e) \cup {None}]_vars

\* If the disk answers and the transactions that have the entry finish with it,
\* nobody waits for ever: every transaction that waits for the backend, for the
\* disk or for the entry, restarts after ERR_CACHE_RACE included, gets the entry
\* or goes on without the cache (or is deleted), unless some DoneWithEntry uses
\* a deleted entry, after which nothing is known.
WaitersServed ==
  \A t \in Trans :
    Waiting(t) ~> trans[t].state \in {"attached", "done"}
                  \/ \E u \in Trans : trans[u].state = "dangling"

============================================================================
