# Formal models of Chromium's threads, sockets, caches and command buffer

This directory holds TLA+ models of parts of Chromium 16 (the tree under
`src/src/`), the TLC configurations that check them on small instances, and
proofs checked by TLAPS. `PROJECT.json` maps every definition to the source
lines it stands for and lists the runs, the mutants, the hazards and the
theorems.

## 1. Inventory

Chromium is far larger than what can be modelled. The parts with a protocol of
their own, small enough to be stated exactly and hard enough to need it, are
these. The last column says where they stand; "proved" means the safety
properties, section 5.

| Component | State | Operations | Hard behaviour | Correct if | |
|---|---|---|---|---|---|
| Worker pool, `base/threading/worker_pool_posix.*` | task queue, idle count, terminated flag, reference count | `PostTask`/`AddTask`, `WaitForTask`, `ThreadMain`, `Terminate` | lost and spurious wakeups, timeouts, failed thread creation, shutdown of non-joinable threads | no posted task waits for another task; the pool outlives its threads; everybody wakes at the end | modelled, proved |
| `WaitableEvent`, `base/synchronization/waitable_event_posix.cc` | signaled flag, wait list, two kinds of locks | `Signal`, `Reset`, `IsSignaled`, `Wait`, `TimedWait`, `WaitMany` | timeouts racing with signals, one waiter in many lists, stack-allocated waiters, lock order | a signal of an auto-reset event releases exactly one thread; no deadlock; no dangling waiter | modelled, proved |
| `WaitableEventWatcher`, `base/synchronization/waitable_event_watcher_posix.cc` | flag, waiter and kernel pointers, posted tasks | `StartWatching`, `StopWatching`, `Fire`, task `Run`, loop destruction | cancellation racing with delivery, reused heap addresses, deleted events | no call after `StopWatching`; no watch lost; nothing posted to a dead loop | modelled, proved |
| Message loop and threads, `base/message_loop.cc`, `message_pump_default.cc`, `message_loop_proxy_impl.cc`, `threading/thread.cc` | incoming, work, delayed and deferred queues, nesting, pump, thread and its owner | `PostTask`, `Run`, `RunAllPending`, `Quit`, `QuitNow`, `Thread::Start/Stop` | nested loops sharing one pump, wakeups from other threads, cached clock, start and stop | tasks run once, in order and not early; no wakeup is lost; `Stop` runs what was posted | partly: the default pump; proved |
| Client socket pool, `net/socket/client_socket_pool_base.*`, `client_socket_handle.*` | groups (queue, jobs, idle sockets, active count), three counters, generation, pending callbacks, backup timers | `RequestSocket(s)`, `ReleaseSocket`, `CancelRequest`, `OnConnectJobComplete`, timers, `Flush` | re-entrant calls, two limits, late releases, stale callbacks, stalled groups | counters exact, limits kept, nothing stale reused, nobody waits without need | partly: all but the destructor; proved |
| HTTP cache, `net/http/http_cache.cc`, `http_cache_transaction.cc` | active and doomed entries, pending operations, posted tasks, transaction states | open, create, doom, add and remove a transaction, build the backend | notifications that call back, writers failing under waiters, dooming while creating, cancelling | one writer or many readers; nobody forgotten, nothing dangling | partly: one key, no data; proved |
| Disk cache rankings, `net/disk_cache/rankings.cc` | LRU lists in a mapped file, transaction record | insert, remove, update, enumerate, recover | crash between two writes, also during recovery | the lists are consistent after recovery | partly: no dirty marks, no time stamps |
| GPU command buffer, `gpu/command_buffer/client`, `content/common/gpu`, `gpu/command_buffer/service` | ring, offsets, tokens, messages, deferred messages | issue, wait, flush, finish, allocate, free; parse, schedule, update | overtaking messages, old states, wrap of ring and of tokens, loss of the context | commands carried out once and in order; memory reused only when read | partly: one stub; proved |
| Host resolver, proxy resolver threads | jobs, requests, thread state | resolve, cancel, completion | cancellation racing with a worker thread | each request answered at most once | not modelled |
| IPC sync channel, `ipc/ipc_sync_channel.cc` | stack of outstanding sends, queued messages | `Send`, dispatch, close | nested synchronous calls in both directions | no deadlock between two processes | not modelled |

They interact like this. Threads run message loops; a loop is given work by
`PostTask` from any thread and by the worker pool's tasks. `WaitableEvent` is
what threads block on (the pump of a message loop too), and
`WaitableEventWatcher` turns a signal into a posted task. The network stack
lives on one loop (the IO thread): the socket pool is called by transactions, by
its connect jobs and by its timers, and answers its clients through posted
tasks. The HTTP cache sits above it and asks the disk cache, whose backend
thread owns the rankings. The command buffer connects a renderer, where the
client writes, with the GPU process, where a message loop runs the scheduler.

Section 7 says what is not modelled and why.

## 2. Modules

| Module | Models | Checked by |
|---|---|---|
| `WorkerPool` | worker pool | `MCWorkerPool`, one configuration |
| `WorkerPoolProofs` | theorems about `WorkerPool` | TLAPS |
| `WaitableEvent` | events with synchronous waits | `MCWaitableEvent`, two configurations |
| `WaitableEventProofs` | theorems about `WaitableEvent` | TLAPS |
| `WaitableEventWatcher` | asynchronous waits | `MCWaitableEventWatcher` |
| `WaitableEventWatcherProofs` | theorems about `WaitableEventWatcher` | TLAPS |
| `MessageLoop` | loop, default pump, proxy and `Thread` together | `MCMessageLoop` |
| `MessageLoopProofs` | theorems about `MessageLoop` | TLAPS |
| `ClientSocketPool` | socket pool and its handles | `MCClientSocketPool`, four configurations |
| `ClientSocketPoolProofs` | theorems about `ClientSocketPool` | TLAPS |
| `ListLemmas` | lists: insertion, removal, elements that occur once; the least number of a set | TLAPS |
| `HttpCache` | cache, entries and transactions of one key | `MCHttpCache` |
| `HttpCacheProofs` | theorems about `HttpCache` | TLAPS |
| `LruLists` | abstract: lists that change atomically | implemented by `Rankings` |
| `Rankings` | the lists in the file, write by write | `MCRankings` |
| `CommandStream` | abstract: a queue of commands that may be lost | implemented by `CommandBuffer` |
| `CommandBuffer` | helper, proxy, channel, scheduler, parser and fenced memory | `MCCommandBuffer` |
| `CommandBufferProofs` | theorems about `CommandBuffer` | TLAPS |

`MessageLoop` and `CommandBuffer` are compositions: several components with
state of their own, that interact only by what the code shares between them.
Definitions named "Mutant" in their comment are plausible bugs: each takes the
place of the definition after it in a run that must then fail. They show that
the property in question depends on that code.

### WorkerPool

An action is a critical section of `lock_`. `WaitForTask` is split where
`TimedWait` gives the lock up (`WaitForTask`, then `AfterTimedWait`); a thread
in between is *waiting* or *woken*. The condition variable is POSIX's: `Signal`
wakes one waiting thread if there is one, `WakeUp` is a timeout or a spurious
wakeup. `Terminate` and its broadcast are two steps, because the broadcast is
outside the lock. `refs` is the reference count: the owner's reference and one
per `WorkerThread`. With `CreateCanFail`, `pthread_create` may fail, which the
code ignores: the `WorkerThread` and its reference leak, counted in
`create_failures`.

### WaitableEvent

`lock[e]` is the kernel lock of event `e`. The lock of a `SyncWaiter` is held
by its thread exactly while that thread is at `loop`, and by `Fire` for one
step. `EnqueueMany` takes one lock per step, by address, so that all
interleavings of lock acquisition are explored; `Signal` fires one waiter per
step with the event's lock held to the end. The history variable `undelivered`
counts signals of auto-reset events that were raised and not yet used up by a
return, an `IsSignaled` or a `Reset`. The code removes a fired waiter from the
list just after `Fire`, the model together with it: nobody else can see the
list in between. Waiters of `WaitableEventWatcher` are not in this module.

### WaitableEventWatcher

The loop's thread runs `StartWatching`, `StopWatching` and posted tasks, other
threads run `Signal`, whose `Fire` is split between reading the flag and
posting. Addresses of freed `AsyncWaiter`s and `Flag`s are reused. `kernel_`
and `waiter_` keep stale values as in the code, where a watch of an event that
is already signaled does not touch them. Calling `StartWatching` while watching
is excluded, as the `DCHECK` says.

### MessageLoop

Three sides post: the owner of the `Thread` (through `message_loop_`), any
other thread (through the proxy, whose lock is held until `ScheduleWork` is
done), and the loop's own tasks. A post is two steps, the queue under
`incoming_queue_lock_` and the signal of the pump's event after it. `runs` is
the stack of `Run` calls on the loop's thread, each with the method of
`MessagePumpDefault::Run` it is in; `keep_running_`, `event_` and
`delayed_work_time_` are shared by all levels, as in the code. A task may post,
quit, call `SetNestableTasksAllowed` and run a nested loop, once; a nested loop
without permission to run tasks is only entered by `RunAllPending`, which
returns by itself. `Start` waits for the thread, which publishes its loop and
signals; `Stop` posts `ThreadQuitTask` and joins. `~MessageLoop` deletes what
is left in the queues, then the proxy learns that the loop is gone.

The clock is a counter that may advance at any time. `delayed` is in the order
of `sequence_num`, and its front is picked by time as the priority queue does.
Left out are the UI and IO pumps, destruction and task observers, histograms,
and the limit of 100 rounds in `~MessageLoop`, which only matters for tasks
whose deletion posts tasks.

### ClientSocketPool

The pool runs on one thread. Entry points are the client's calls
(`RequestSocket` through `ClientSocketHandle::Init`, `RequestSockets`,
`ResetInitialized`, `CancelCallback`, `CancelPending`), the end of a connect
job, the backup and cleanup timers, `Flush`, and posted callbacks. Where an
entry point makes several calls that each depend on the state the one before
left (`OnAvailableSocketSlot`, `CheckForStalledSocketGroups`, the loop of
`RequestSockets`, a backup job that completes at once), the remaining calls are
in `calls` and run before anything else. `RequestSocketInternal` is an action
formula with its result as a parameter. A connect job may end at any time with
any result, with or without a socket for the error; jobs are counted, with the
number of unused preconnects among them. Which idle socket the scoring prefers,
which are found disconnected, and which group of the hash map comes first is
left open. Backup jobs are enabled, as the transport pool does.

`IgnoreLimits` are the handles whose requests ignore the limits, and `None` if
preconnects do (`RequestSockets` passes `params->ignore_limits()` on). Such a
request gets another connect job each time its group has a free slot, without
limit; `MaxJobs` bounds that.

### HttpCache

Everything happens on one thread, and still the order of things is not obvious:
a notification runs the transaction it notifies, which may call the cache again
and so notify others. `stack` holds the calls in progress, innermost last: the
`DoLoop` of a transaction, or one of the two loops of the cache that notify a
list (`OnIOComplete` and `DoneWritingToEntry`). Only the innermost call takes
steps; the disk, posted tasks and users come when the stack is empty.

`active` is the entry of the key in `active_entries_`. An `ActiveEntry` is an
address (which may be used again) with a value in each of `live`, `writer`,
`readers`, `pending_queue`, `will_process` and `doomed`. `op` is the key's
`PendingOp`; the one of the empty key, in which transactions wait for the
backend, is `backend_writer` and `backend_queue`. `tasks` are the posted tasks.
`Init` chooses whether the backend answers at once (the memory cache) or later
(the disk cache); what it answers is open. A transaction asks for the backend,
opens, creates or dooms, joins the entry, and then reads, writes, becomes a
reader (`ServeFromCache`), fails, dooms (`Overwrite`, `DoomPartialEntry`) or is
deleted. The end of its dealings with the cache is one state, `done`, for going
on without the cache, for an error and for being deleted.

Left out are the network and the data, several keys (they share only the
creation of the backend), `GetBackend` with a callback, `~HttpCache`, the
playback and record modes and `MetadataWriter`. A user that deletes another
transaction inside a notification is excluded: the comment at
`http_cache.cc:1070-1080` says that this is not handled. The early return of
`DoneWithEntry` for a transaction that was cancelled before it got the entry
does not occur: a transaction whose `entry_` is set is the writer or a reader,
by `EntryLocked`, and an entry with a writer has no posted task. A transaction
that keeps its entry while it finds that it must not be stored does so only
while the entry is not doomed.

`DoneWithEntry` of a deleted writer calls `AddTruncatedFlag`, which runs `DoLoop`
to write the response. If that write fails in the call, or if the response has
become no-store, `DoLoop` itself calls `DoneWritingToEntry(false)`, which
destroys the entry and notifies its queue, and `AddTruncatedFlag` still returns
true. `DoneWithEntry` then has a deleted `ActiveEntry` in its hand
(`http_cache.cc:864-867`). The model takes this path up to that point: the
transaction becomes `dangling`, and nothing further happens in that behaviour,
because what the code does next is undefined.

### Rankings and LruLists

An operation reads what it needs and then makes a sequence of writes to the
mapped file: blocks, heads and tails, sizes, and the transaction record. `todo`
is what is left of that sequence. `Step` makes one write, `Crash` forgets the
rest, `Restart` runs `Rankings::Init`, whose recovery is such a sequence itself
and may be cut short too. The enumeration of `BackendImpl` keeps a node and a
copy of its links, which other operations must keep up to date
(`UpdateIterators`); an entry found unreadable is removed by it.

`LruLists` has no file, no links and no crashes. `Rankings` implements it under
the mapping that takes the lists of the file as the recovery due would leave
them (`Settled`): so each operation takes effect at one single write, and a
crash has no effect at all.

`CrashInFinishInsert` is `FALSE`: a crash between the moment `FinishInsert`
clears the transaction record and the moment the `Insert` it calls opens its
own is excluded. With `TRUE`, TLC finds `ListsRecovered` violated after eight
states: the head may already point to a node whose links were cleared, and no
record tells. Callers pass the list that the node is in; the window of
`OnOpenEntryV2` in which a crash leaves an entry's state disagreeing with its
list is not modelled, nor are time stamps and the dirty marks. The sizes are
not covered by the transaction, so they may drift with every crash
(`SizesWithinFaults`).

### CommandBuffer and CommandStream

The client writes commands into a ring in shared memory and tells the service
by messages how far; it knows the reader only by `last_state_`. Updates are
posted to the client's loop, so they are seen only between two calls, and the
reply to a synchronous `GetState` overtakes them; the proxy takes the newer of
two states by its generation. `GetStateFast` overtakes deferred messages in
`GpuChannel`, flushes included. Generations are counted from `last_state_`,
which keeps the state space finite and changes no comparison: `last_state_` has
generation 0, and every older state on its way, which the proxy will drop when
it arrives, counts as -1. Old states are forgotten once nothing else is on the
way (`Relevant`); otherwise a client that waits, and reads nothing but replies,
would see them pile up.

An entry that was read becomes garbage: the code leaves it in place, but then
no property could see a command that is read twice. The commands between the
reader and `put_`, as the reader will meet them (`Walk`, a reader that goes on
by itself), are the abstract state of `CommandStream`, a plain queue.

Memory is a set of blocks that are free, in use, or pending a token, as in
`FencedAllocator`; splitting, merging and freeing a block without a token are
left out, as is the layout of `RingBuffer`. `TokenModulus` stands for 2^31.

The context is lost in a command, in `MakeCurrent`, or because the channel is
closed. `service.error` is the service's side of it and `lost` the client's: an
error in `last_state_`, from an answer, an update, `OnDestroyed` or a failed
`Send`. The one assumption about clients is that one that has been told of the
loss starts no more commands ("they should delete this CommandBufferProxy",
`command_buffer_proxy.cc:72-73`); it may still allocate, free, wait and finish.
A call that is under way goes on as the code does:

* `GetSpaceLost`: `WaitForAvailableEntries` returns at once after a failed
  `FlushSync`, so that the command is placed without room, possibly beyond the
  end of the ring. Only the entries that are part of the ring are written in the
  model; `put` may pass `Usable`.
* `WaitForTokenFatal`: `WaitForToken` compares `get` and `put_` and logs FATAL,
  which ends the client (`call.pc = "fatal"`), before `FlushSync` has a chance
  to report the error.
* `MakeCurrentFails`: the message is dropped, but `RouteMessage` reports that it
  was routed, so that a `GetStateFast` gets no reply. The client waits until the
  channel is closed (`SendFails`).
* `SendFails` sets the error that an older `UpdateState`, still queued on the
  client's loop, may take back; `lost` remembers it.

## 3. Runs

An invariant whose name a configuration lists may be a conjunction of named
parts; the type invariant of each module is one of them. `PROJECT.json` has a
mutant for every property.

Passing runs:

* `pool`: four tasks, four threads, failing creation. `PendingCovered` is the
  reason why tasks may wait for one another; `IInv` is the inductive invariant
  of the proofs. Four of each allow two idle, one busy and one new thread at
  once. `EveryTaskStarts` holds although no task is assumed to end; nothing is
  promised once creation has failed. `IdleThreadsWakeOnTerminate` is the end.
* `event_safety`: two auto-reset events and a manual-reset one, three threads:
  two waiters with lists in common and a signaler, or two signalers and one
  waiter in several lists. `WaitListsOK` says that the lists hold exactly the
  waiters that can still be fired, `SignalsConserved` that a signal releases
  one thread, `SignalDoneBeforeReturn` that a waiter may delete the event.
* `event_liveness`: the same events and two threads, without symmetry.
* `watcher_safety`: two watchers, two events, two waiter addresses and three
  flags, so that a watcher with stale pointers meets another one's waiter at
  the same address.
* `message_loop`: three tasks, of which one may be the quit task, delays of 0
  and 1, two levels of loops and two starts of the thread. With three tasks a
  nested loop can meet a deferred and a delayed task at once, and a second
  start can meet what the first one left. `PumpWakesUp` and `EveryTaskRuns` are
  about wakeups, `QueuesConsistent` and `TasksInOrder` about the four queues,
  `DrainedBeforeExit`, `LoopOutlivesPosts` and `StopReturns` about the end.
* `sockets_safety`: two groups that may each use both slots, three clients,
  preconnects of two, a flush, errors with and without blocking. One socket
  identity more than slots, since a socket may be closed and another made in
  one step. Two tasks per handle allow a stale callback beside a current one.
* `sockets_stall`: one slot per group, two priorities, preconnects of one, and a
  client whose requests ignore the limits, so that the counters pass them.
  `NoNeedlessStall` is checked without errors that do not block; with them it
  fails, see below. Preconnects keep to the limits in all runs: with `None` in
  `IgnoreLimits` the theorems about the pool still hold, `NoNeedlessStall` does
  not, also described below. A flush is left to `sockets_safety` and
  `sockets_liveness`.
* `sockets_liveness`: one group with one slot and three clients.
* `http_cache`: three transactions of any mode and three entry addresses: one
  active entry and two doomed ones, or one transaction that fails with two
  waiting behind it. `EntryLocked` is the reader/writer lock,
  `EntriesConsistent` and `WaitersFound` exclude dangling and forgotten
  pointers, `DoomedNotJoined` and `WaitersServed` are about dooming and
  progress. The behaviours that end in a `dangling` transaction are exempt from
  `WaitersServed`, and `EntriesConsistent` holds up to their end.
* `rankings`: three nodes, two lists, two faults. Three nodes make a head, a
  tail and one in between, two faults a crash of the recovery. Nodes are
  symmetric; the refinement is a safety property, which symmetry does not
  disturb.
* `command_buffer`: a ring of six usable entries, commands of three entries and
  tokens of two: 3 + 3 and 2 + 2 + 2 end exactly at the end of the ring, after
  3 + 2 nothing fits and a jump is needed. One block, tokens modulo two, so that
  every second token wraps, at most one message under way when a call starts and
  any number that the call itself makes. `ClientViewSafe` says that acting on
  an old state does no harm, and that an answer is missing (`Unanswered`) only
  with a lost context. `CallsReturn` has two exceptions, both the code's: the
  FATAL of `WaitForToken`, which `NoFatalWait` confines to clients that have
  been told of the loss, and the `GetStateFast` that a failed `MakeCurrent` has
  dropped, for as long as the channel stays open.

The run that shows a disagreement between a comment and the code:

* `sockets_starvation`: "there is no starvation". A request that is woken and
  fails at once leaves the next one of its group without a job and without
  anybody to wake it.

Observations that TLC makes on these models and that have no run of their own:

* `worker_pool_posix.h:76`, "Stops handing out tasks": a thread woken by
  `AddTask` takes its task after `Terminate` set the flag.
* `waitable_event_watcher.h:59-60`, a deleted event "will act as if the event
  was never signaled": if the signal came first and the task has not run, the
  delegate gets a pointer to the deleted event.
* `client_socket_pool_base.cc:1099-1100`, at a limit "just reset the timer": the
  timer's own task still counts as pending, so that no new one is posted.
* A preconnect that ignores the limits and connects at once leaves its socket
  idle in its group, even if a request of the group is queued; with the group's
  slot taken the request does not count as stalled, and when the idle socket
  has timed out nobody looks for it (`NoNeedlessStall` with `None` in
  `IgnoreLimits`).
* Releasing a socket that cannot be reused leaves an empty group in the map
  until the pool is cleaned up.
* The return of `WaitMany`, unlike that of `Wait` and `TimedWait`, may come
  before the end of the `Signal` that caused it.
* At the pool's limit a group may be served again and again before another one
  of the same priority, because ties go by hash order and a released socket
  stays in its group. This is why `NoStarvation` is stated for one group.
* `message_loop.h:245-248` warns that quitting ends the innermost `Run`. For
  `ThreadQuitTask` this means that a thread inside a nested `Run` never leaves
  the outermost one, and `Stop` waits forever; `StopReturns` excludes it. A
  deferred non-nestable task may be overtaken by later ones.
* `rankings.cc:27-33`, a transaction record covers each operation: see
  `CrashInFinishInsert` above.
* `http_cache.cc:624`, `DCHECK(entry->writer || !entry->readers.empty())`: does
  not hold if the last reader has left, the queue is to be processed by a
  posted task, and a transaction in WRITE mode dooms the entry first.
* `http_cache_transaction.cc:1022` and `2007`, `DCHECK_EQ(OK, ret)`: if the
  transaction's own entry was doomed by another one, `DoomEntry(key, NULL)`
  asks the disk (without a transaction to notify) or dooms the entry that
  another transaction has made since.
* `http_cache.cc:864-867`: a transaction that is `dangling` is reached in five
  steps with the memory cache (start, open, join, be deleted, notify), and with
  the disk cache through a range request whose response becomes no-store.
  `DoneWritingToEntry(entry, true)` then writes to the deleted entry and posts
  `OnProcessPendingQueue` for it; a transaction notified in between may already
  have made a new entry at the same address.
* `http_cache.cc:840-842`, "ensures FIFO ordering": a reader overtakes a writer
  that waits in the queue when it arrives while other readers read.
* `cmd_buffer_helper.cc:177`, `GPU_DCHECK_LE(put_, usable_entry_count_)`: does
  not hold after a failed `FlushSync` in front of the end of the ring; the
  caller writes its command beyond the end. For this reason `TypeOK` bounds
  `put` only until the client has been told of the loss.
* `cmd_buffer_helper.cc:108-116`: a client whose context was lost may log "Empty
  command buffer while waiting on a token" as FATAL, although nothing is wrong
  on its side and the next line would have ended the loop. With `~lost` taken
  out of `NoFatalWait` it fails.
* `gpu_channel.cc:261`, "Respond to sync messages even if router failed to
  route": after a failed `MakeCurrent` the router has not failed, the stub's
  `false` is lost in `message_router.cc:46`, and a client in `FlushSync` waits
  for as long as the channel is open.
* `command_buffer_proxy.cc:447-450`, "Flag the command buffer as lost": an
  `UpdateState` from before, dispatched after the failed `Send`, overwrites the
  flag until `OnChannelError` sets it again.

Deadlock checking is on except where the modelled system may end: a destroyed
worker pool, a dead message loop with its events deleted, a thread that its
owner does not start again, a cache whose transactions are all done, and a
command buffer whose client has logged the FATAL or, told of the loss, has
nothing left to do.

## 4. Fairness

* `WorkerPool`: weak fairness of steps that need only `lock_`. None for tasks
  ending, for wakeups nobody caused, or for posting and terminating.
* `WaitableEvent`: strong fairness of the steps inside a call, because a mutex
  others take and release is free infinitely often, not forever. None for
  calling `Signal`.
* `MessageLoop`: weak fairness of the loop's thread (a task returns in the
  end), of the thread's start and end, of an owner or a poster that is inside a
  call, and of the clock. None for posting, starting, stopping and quitting: a
  nested `Run` that nobody quits stays.
* `ClientSocketPool`: weak fairness of going on with a call; strong fairness of
  posted callbacks (the message loop runs what was posted), of connect jobs
  ending (each has a timeout timer) and of clients returning their sockets,
  since other entry points may come first. The last one is an assumption about
  clients: a slot that is never returned can be given to nobody.
* `HttpCache`: weak fairness of the disk's answers, of posted tasks, of going on
  with a call, and of each transaction finishing with its entry, again an
  assumption about users. None for starting or cancelling one.
* `CommandBuffer`: weak fairness of the client inside a call, which includes
  that the channel hands it the reply or, when it is closed, cancels the call,
  and of the service (whose scheduler is rescheduled in the end). None for new
  calls, for updates, for the loss of the context or for closing the channel.

## 5. Proofs

Each proof module shows `Spec => []IInv` for an inductive invariant `IInv` and
concludes the properties of the runs from it, for every value of the constants
that the named assumptions of the component's module allow: any number of
threads, events, tasks, groups or handles, where the runs have two or three.
`IInv` was checked by TLC on the instance of the run first. The proof that a
step keeps `IInv` has one lemma per action (per action and part where the parts
use different variables).

### WorkerPoolProofs

Theorems: `PoolInvariant`, `PendingCoveredThm`, `IdleCountThm`,
`PoolLifetimeThm`. Assumptions: finitely many threads, `NoTask` is not a task.

`PendingCovered` is not inductive. `AddTask` signals instead of creating a
thread when `num_idle_threads_` is at least the length of the queue, and that
one more thread is then on its way follows only if the idle count is the number
of waiting and woken threads (`IdleCountExact`): if no thread is waiting, all
counted ones are woken and there are enough already; otherwise one of the
waiting is woken. `PoolOutlivesThreads` needs `RefCountExact`: the count is one
for the owner, one for each live thread and one for each leaked `WorkerThread`,
so that it is zero only when all are gone.

### WaitableEventProofs

Theorems: `SignalsConservedThm`, `WaitListsOKThm`, `SignalDoneBeforeReturnThm`.
Assumptions: finitely many threads and events, events are ordered (the code
sorts them by address), `None` is neither.

The strengthening is the lock discipline and what the wait lists mean. An event
whose lock is kept across steps is not signaled (`LockedNotSignaled`), and who
signals has the lock (`SignalerHoldsLock`): without these the signal that
`Signal` is about to store could meet one already there. Who is in a list is
waiting for that event, once, and not fired by it (`ListsHoldWaiters`,
`ListsNoDup`, `FiredOffList`); who sleeps unfired is in all lists of its call
(`SleepersInLists`). `SyncWaiterOK` says at which position of a call `fired_` may
be set and by whom. `SignalsConserved` is then a count that each step moves by
one on both sides.

### WaitableEventWatcherProofs

Theorems: `PointersValidThm`, `WatchTrackedThm`, `NoCallAfterStopThm`.
`PointersValid` is about the waiters in the wait lists and the loop they post
to. The `waiter_` a watcher keeps from an earlier watch may be
stale, and the event of a posted task may be deleted; the code allows both.

The heart is that a pointer comparison identifies a watch although addresses are
reused. A waiter on the heap belongs to the watch its watcher is in
(`HeapOwned`), no two watchers share a `Flag` (`FlagsDistinct`), and each waiter
is in the list of its own event only (`HeapListed`). So the pair of waiter and
flag that `StopWatching` compares can only match its own waiter, and a task with
an unset flag belongs to the current watch (`PostedOwned`).

### ClientSocketPoolProofs

Theorems: `CountersExactThm`, `LimitsRespectedThm`, `NoStaleReuseThm`,
`GroupsConsistentThm`, `CallbacksScheduledThm`. Assumptions: the limits are
numbers and the limit of a group is at most the pool's, which is a `DCHECK` in
the constructor of the pool.

`IInv` is cut into parts that depend on few variables each: sockets, jobs,
active counts, queues, requests, groups, posted callbacks, and the calls the
running entry point has still to make. The last (`CallsOK`) says on which groups
they will be made and that these still exist, which is what the code relies on
when it keeps a `Group*` across a call. `RequestsOK` allows a pending request a
socket in the middle of `ProcessPendingRequest` alone. `NoStaleReuse` needs that
a socket handed out has the generation its handle remembers
(`SocketBornInPool`), since that is what `ReleaseSocket` compares. The counters
are cardinalities; the lemmas `CountAdd`, `CountRemove` and their like say how
these change.

### MessageLoopProofs

Theorems: `PumpWakesUpThm`, `DrainedBeforeExitThm`, `LoopOutlivesPostsThm`,
`QueuesConsistentThm`, and the action property `TasksInOrderThm`. Assumptions:
the bounds are numbers, at least one level and one tick.

* `TasksOK` and `OrderOK` say where a task is and that `work_queue_` followed by
  `incoming_queue_` is in the order of posting; this gives conservation and
  FIFO order.
* `WakeOK` extends "no lost wakeup" from the sleeping pump to all points after
  `DoWork` found nothing. `DueOK` does the same for `delayed_work_time_`: it is
  set by `DoDelayedWork` on its way to sleep, whatever a nested loop left there.
* `QuitOK` says that the outermost `Run` is quit by the `ThreadQuitTask` alone,
  that it has run whenever `Run` has returned, and that once it has run nothing
  older is in the queues.
* `HandshakeOK` relates owner, thread, proxy and `message_loop_`, and
  `QueuesGone` that a loop that is not there has no tasks.

`TopIndex`, the front of the priority queue, is a `CHOOSE`; that it exists is
shown with the well-founded order of the numbers (`LeastNumber` in
`ListLemmas`, `TopIndexFound`).

### HttpCacheProofs

Theorems: `InvariantThm`, `EntryLockedThm`, `WaitersFoundThm`,
`EntriesConsistentThm`, and the action property `DoomedNotJoinedThm`.
Assumptions: there is a transaction; `None` is none of the things that stand
beside it (a transaction, an entry, a `PendingOp`), and no entry is called
`OnBackendCreated`, `backend` or `op`.

A transaction keeps `new_entry_` from the answer that set it to the call of
`AddTransactionToEntry`, and creates an entry after it saw that there is none.
That nothing came in between is what most of the proof is about.

* `BetweenOK`: the only transaction between two such requests is the one in the
  innermost `DoLoop`, and what it was told about the active entry is still true.
* `CallsOK` is about the rest of the stack: a `DoLoop` further down is giving up
  its entry or has done so, each loop of `DoneWritingToEntry` sits on the
  `DoLoop` that called it, `OnIOComplete` can only be the outermost call and, if
  the disk had nothing, nothing becomes active while it runs, and the lists that
  are being notified share no transaction with each other or with a list of the
  cache.
* `BackendOK`, `OpOK` and `QueuesOK` say that whoever is in a list waits for
  what that list gives, once; `Placed` is the converse.
* `LockOK` is the reader/writer lock; `Held` says who will release an entry, the
  transaction about to join it included; `Posted`, `Freed` and `Listed` relate
  the posted tasks, the heap and `active_entries_`.

`DoomedNotJoined` follows because a transaction joins the active entry
(`BetweenOK`) or is promoted from the entry's own queue.

### CommandBufferProofs

Theorems: `InvariantThm`, `ClientViewSafeThm`, the action property
`ReusedAfterTokenThm`, and the refinement `ImplementsCommandStreamThm`.
Assumptions: the ring has at least five entries (a token command fits without
filling it), a command that reads memory fits in it likewise, there are at
least two tokens, and `None` is no block and no command. The bounds of the runs
are not used: any number of messages may be on their way.

The client acts on a `get` the reader had some time ago, from which it knows
nothing of the reader but that it is between there and `put_`. So all positions
are compared by their distance from `last.get` (`Dist`), the one point that
client and reader agree to be behind both. `IInv` claims this of the ring
(`Core`) as long as the client has not been told of the loss of the context;
afterwards a command may be placed without room, and the properties about the
ring hold because `lost` implies an error of the service:

* `RingOK`: between the reader and `put_` there are whole commands, each of
  which leads to the next or to `put_` (`HeadOK`), and nothing elsewhere; a jump
  has nothing behind it. This is what `CommandsIntact` needs to be inductive.
* `ViewsOK`: `last_state_`, the states on their way that are newer, and the
  service itself are ordered by generation, and a later one has the reader
  farther on. It is what makes it harmless that replies overtake updates.
* `FlushesOK`: the service was never told to stop where there is no command, and
  flushes arrive in order although `GetStateFast` overtakes them.
* `TokensInOrder`, `NewestToken`: the tokens in the ring rise, and the newest
  one written is the last one to be read. They say so outside a wrap only
  (`Wrapping`): from the insertion of token 0 until `Finish` has seen the reader
  pass it, the tokens do not rise, and no block is let go.
* `FreeUnread`, `PendingFenced`: no command to come reads a free block, and
  behind each that reads a pending one stands the token of that block.
* `Errors`: the client is told of an error only when the service has one, be it
  by a state, by `Destroyed`, or because the channel is closed. An older state
  may take the error back, but not `lost`.
* `SyncOK`: one `GetStateFast` is on its way at most, and its reply cannot meet
  another one; while the client waits and the context is there, one of the two
  is on its way. This gives `AnsweredOrLost`.

`NoFatalWait` follows from `NewestToken` and `ViewsOK`: if the reader is at
`put_` as far as the client knows, it has read every token (`CaughtUp`), so
that only a client that has been told of the loss meets the FATAL
(`FatalIsLost`).

For the refinement, `WalkReaches` shows that a walk over such a ring ends at
`put_` and meets no corrupt command, `WalkAppend` that a command written at
`put_` is appended to what the walk meets, and `WalkRead` that carrying out the
first one takes it off; a jump changes nothing. `Walk` is a recursive function
of the number of steps. What it computes is shown by the least number of steps
for which a claim fails (`UpTo`, from `LeastNumber`), since the library's
induction rules are out of reach. Under an error the queue of `CommandStream`
is empty and lost, so whatever is then written to the ring is a stutter.

### Only model-checked

* All liveness (`EveryTaskStarts`, `IdleThreadsWakeOnTerminate`, `CallsReturn`,
  `NoStarvation`, `EveryTaskRuns`, `StopReturns`, `WaitersServed` and the like):
  fairness is out of the prover's reach, and `NoDeadlock` is about `ENABLED`.
* `NoNeedlessStall`: an invariant about every request at once and the stalled
  groups that its run checks under restrictions; no inductive form was found.
* `Rankings`: its invariants and its refinement compare the lists in the file
  with the abstract ones at every write of an operation and of its recovery.
  The recursive function that follows the pointers could be treated like `Walk`
  above; an inductive invariant for all the points of a crash is still to be
  written.

## 6. Plan

Done: the modules of section 2 and the proofs of section 5. Left, in this order:

1. An inductive invariant for `Rankings`, for the writes of one operation first
   and then for recovery.
2. An abstract auto-reset event (tokens given to threads) that `WaitableEvent`
   implements, with a proof of the refinement.
3. The host resolver and the IPC sync channel.

## 7. Not modelled

* Host resolver, multi-threaded proxy resolver, IPC sync channel: each has a
  protocol that would suit a model; they come after the parts above.
* The backend and the entries of the disk cache (index, block files, sparse
  entries): mostly file layout and I/O. The enumeration of `BackendImpl` and the
  calls of `Eviction` are in `Rankings`.
* SPDY and HTTP network transactions: large state machines, most of whose states
  format, parse or forward data.
* In the modelled parts, what section 2 names as left out.
* User interface, rendering, platform code, vendored and generated code, the
  packaging scripts: no protocol of their own that is small enough to check.
