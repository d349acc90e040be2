-------------------------- MODULE HttpCacheProofs --------------------------
(***************************************************************************)
(* Proofs about HttpCache, for any number of transactions and entries: the *)
(* reader/writer lock of an entry, no dangling or orphaned entry, no       *)
(* transaction forgotten by or left in a list, and none that joins an      *)
(* entry after it was doomed.                                              *)
(*                                                                         *)
(* The inductive invariant is made of parts that depend on few variables   *)
(* each.  What makes it work is that of all transactions only the one in   *)
(* the innermost DoLoop is between two requests, so that what it was told  *)
(* about the active entry is still true when it acts on it.                *)
(***************************************************************************)
EXTENDS HttpCache, ListLemmas

States == Waits \cup {"idle", "open", "create", "doom", "add", "attached", "closing", "dangling",
                      "done"}

TransType == [state : States, mode : Modes \cup {"NONE"},
              entry : Entries \cup {None}, new_entry : Entries \cup {None}]

Frame ==
  [kind : {"DoLoop"}, trans : Trans]
    \cup [kind : {"OnIOComplete"}, op : {"OPEN", "CREATE", "DOOM"}, result : {"OK", "FAILED"},
          fail : BOOLEAN, items : Seq(ItemType)]
    \cup [kind : {"DoneWritingToEntry"}, queue : Seq(Trans), by : Trans, then : TransType]

Types ==
  /\ active \in Entries \cup {None} /\ sync \in BOOLEAN
  /\ live \in [Entries -> BOOLEAN] /\ doomed \in [Entries -> BOOLEAN]
  /\ writer \in [Entries -> Trans \cup {None}] /\ readers \in [Entries -> SUBSET Trans]
  /\ pending_queue \in [Entries -> Seq(Trans)] /\ will_process \in [Entries -> BOOLEAN]
  /\ tasks \in Seq(Entries \cup {BackendTask})
  /\ op \in PendingOp \cup {None}
  /\ backend \in [ready : BOOLEAN, factory : BOOLEAN, building : BOOLEAN, creating : BOOLEAN]
  /\ backend_writer \in Trans \cup {None} /\ backend_queue \in Seq(Trans)
  /\ trans \in [Trans -> TransType] /\ stack \in Seq(Frame)

(* A freed ActiveEntry has nothing, a live one is the active or a doomed one. *)
Freed ==
  \A e \in Entries : live[e] = FALSE =>
    /\ writer[e] = None /\ readers[e] = {} /\ pending_queue[e] = <<>>
    /\ will_process[e] = FALSE /\ doomed[e] = FALSE

Listed ==
  /\ active # None => live[active] = TRUE
  /\ \A e \in Entries : live[e] = TRUE => (doomed[e] = TRUE <=> active # e)

(* Of the tasks an entry has one, exactly while will_process is set. *)
Posted ==
  /\ NoDup(tasks)
  /\ \A e \in Entries : e \in ToSet(tasks) <=> will_process[e] = TRUE
  /\ BackendTask \in ToSet(tasks) => backend.factory = FALSE
  /\ backend.creating = TRUE => backend.factory = TRUE

(* The transactions that wait for the backend, each once. *)
BackendOK ==
  /\ NoDup(backend_queue) /\ backend_writer \notin ToSet(backend_queue)
  /\ \A t \in Trans : InBackendOp(t) => trans[t].state = "backend_wait" /\ backend.building = TRUE
  /\ backend.building = TRUE => backend.creating = TRUE \/ backend.factory = FALSE

(* The request of the item is what its transaction waits for. *)
Asked(item, ts) ==
  \/ item.op = "OPEN" /\ ts[item.trans].state = "open_wait"
  \/ item.op = "CREATE" /\ ts[item.trans].state = "create_wait"
  \/ item.op = "DOOM" /\ ts[item.trans].state = "doom_wait"

ItemsOK(items, ts) ==
  /\ \A i, j \in DOMAIN items : items[i].trans = items[j].trans /\ items[i].trans # None => i = j
  /\ \A i \in DOMAIN items : items[i].trans # None => Asked(items[i], ts)

OpOK ==
  op # None =>
    /\ sync = FALSE /\ active = None
    /\ ItemsOK(op.queue, trans)
    /\ op.writer.trans # None =>
         /\ Asked(op.writer, trans)
         /\ \A i \in DOMAIN op.queue : op.queue[i].trans # op.writer.trans

(* The transactions that wait for an entry, each once. *)
QueuesOK ==
  \A e \in Entries :
    /\ NoDup(pending_queue[e])
    /\ \A t \in ToSet(pending_queue[e]) : trans[t].state = "add_wait" /\ trans[t].new_entry = e

(* Whoever waits is in a list of the cache or in one that is being notified. *)
Placed == \A t \in Trans : Waiting(t) => Queued(t) \/ BeingNotified(t)

(* The calls in progress; st, ts, act and sy are stack, trans, active and sync,
   and queued are the transactions in a list of the cache. *)

(* The lists the loops of the cache notify from, and what comes after. *)
FrameOK(frame, ts) ==
  /\ frame.kind = "OnIOComplete" => ItemsOK(frame.items, ts)
  /\ frame.kind = "DoneWritingToEntry" =>
       /\ NoDup(frame.queue)
       /\ \A t \in ToSet(frame.queue) : ts[t].state = "add_wait"
       /\ frame.then.state \in {"doom", "done", "dangling"}

FramesOK(st, ts) == \A i \in DOMAIN st : FrameOK(st[i], ts)

(* Without an answer from the disk nothing is active while OnIOComplete runs. *)
IOLoopOK(st, act, sy) ==
  \A i \in DOMAIN st : st[i].kind = "OnIOComplete" =>
    i = 1 /\ sy = FALSE /\ (st[i].result = "FAILED" => act = None)

(* Whoever is about to be notified is in that list only. *)
NotifiedOnce(st, queued) ==
  \A i \in DOMAIN st : \A t \in Trans : NotifiedBy(st[i], t) =>
    t \notin queued /\ \A j \in DOMAIN st : NotifiedBy(st[j], t) => i = j

(* Whoever runs DoLoop does not wait; below the top it is giving up an entry. *)
LoopsOK(st, ts) ==
  \A i \in DOMAIN st : st[i].kind = "DoLoop" =>
    /\ ts[st[i].trans].state \notin Waits
    /\ i < Len(st) => ts[st[i].trans].state \in {"closing", "done"}
    /\ \A j \in DOMAIN st : st[j].kind = "DoLoop" /\ st[j].trans = st[i].trans => i = j

CallersOK(st) ==
  \A i \in DOMAIN st : st[i].kind = "DoneWritingToEntry" =>
    \E j \in DOMAIN st : i = j + 1 /\ st[j] = Running(st[i].by)

StackOK(st, ts, queued, act, sy) ==
  /\ FramesOK(st, ts) /\ IOLoopOK(st, act, sy) /\ NotifiedOnce(st, queued)
  /\ LoopsOK(st, ts) /\ CallersOK(st)

QueuedTrans == {t \in Trans : Queued(t)}

CallsOK == StackOK(stack, trans, QueuedTrans, active, sync)

(* What the transaction in the innermost DoLoop was told is still true. *)
BetweenOK ==
  \A t \in Trans :
    /\ trans[t].state \in {"add", "create"} => IsTop("DoLoop") /\ Top.trans = t
    /\ trans[t].state = "add" => active # None /\ trans[t].new_entry = active
    /\ trans[t].state = "create" => active = None

(* Every entry has somebody who will release it. *)
Held ==
  \A e \in Entries : live[e] = TRUE =>
    \/ writer[e] # None \/ readers[e] # {} \/ will_process[e] = TRUE
    \/ \E t \in Trans : trans[t].state = "add" /\ trans[t].new_entry = e

LockOK ==
  /\ \A e \in Entries : writer[e] # None => readers[e] = {} /\ will_process[e] = FALSE
  /\ \A t \in Trans, e \in Entries :
       LET holds == trans[t].state = "attached" /\ trans[t].entry = e
       IN /\ writer[e] = t <=> holds /\ Writes(trans[t].mode)
          /\ t \in readers[e] <=> holds /\ ~Writes(trans[t].mode)
  /\ \A t \in Trans : trans[t].state = "attached" => trans[t].entry \in Entries

(* The inductive invariant. *)
IInv ==
  /\ Types /\ Freed /\ Listed /\ Posted /\ Held /\ LockOK
  /\ BackendOK /\ OpOK /\ QueuesOK /\ Placed
  /\ CallsOK /\ BetweenOK
-----------------------------------------------------------------------------
(* Records and frames. *)

LEMMA TransactionFields ==
  \A s \in States, m \in Modes \cup {"NONE"}, e, n \in Entries \cup {None} :
    /\ Transaction(s, m, e, n) \in TransType
    /\ Transaction(s, m, e, n).state = s /\ Transaction(s, m, e, n).mode = m
    /\ Transaction(s, m, e, n).entry = e /\ Transaction(s, m, e, n).new_entry = n
BY DEF Transaction, TransType

LEMMA TransFields ==
  ASSUME NEW tr \in TransType
  PROVE  /\ tr.state \in States /\ tr.mode \in Modes \cup {"NONE"}
         /\ tr.entry \in Entries \cup {None} /\ tr.new_entry \in Entries \cup {None}
BY DEF TransType

LEMMA MovedFields ==
  ASSUME NEW tr \in TransType, NEW s \in States
  PROVE  /\ Moved(tr, s) \in TransType /\ Moved(tr, s).state = s
         /\ Moved(tr, s).mode = tr.mode /\ Moved(tr, s).entry = tr.entry
         /\ Moved(tr, s).new_entry = tr.new_entry
<1>1. /\ tr.mode \in Modes \cup {"NONE"}
      /\ tr.entry \in Entries \cup {None} /\ tr.new_entry \in Entries \cup {None}
  BY TransFields
<1>2. QED
  BY <1>1, TransactionFields DEF Moved

LEMMA InModeFields ==
  ASSUME NEW tr \in TransType, NEW m \in Modes
  PROVE  /\ InMode(tr, m) \in TransType /\ InMode(tr, m).state = tr.state
         /\ InMode(tr, m).mode = m /\ InMode(tr, m).entry = tr.entry
<1>1. /\ tr.state \in States /\ m \in Modes \cup {"NONE"}
      /\ tr.entry \in Entries \cup {None} /\ tr.new_entry \in Entries \cup {None}
  BY TransFields
<1>2. PICK s, d, n : s = tr.state /\ d = tr.entry /\ n = tr.new_entry
  OBVIOUS
<1>3. s \in States /\ d \in Entries \cup {None} /\ n \in Entries \cup {None}
  BY <1>1, <1>2
<1>4. /\ Transaction(s, m, d, n) \in TransType /\ Transaction(s, m, d, n).state = s
      /\ Transaction(s, m, d, n).mode = m /\ Transaction(s, m, d, n).entry = d
  BY <1>1, <1>3, TransactionFields
<1>5. QED
  BY <1>2, <1>4 DEF InMode

LEMMA DoneFields == Done \in TransType /\ Done.state = "done"
<1>1. "done" \in States /\ "NONE" \in Modes \cup {"NONE"} /\ None \in Entries \cup {None}
  BY DEF States
<1>2. QED
  BY <1>1, TransactionFields DEF Done

LEMMA DoInitEntryFields ==
  ASSUME NEW tr \in TransType
  PROVE  DoInitEntry(tr) \in TransType /\ DoInitEntry(tr).state \in {"doom", "open"}
<1>1. "doom" \in States /\ "open" \in States
  BY DEF States
<1>2. CASE tr.mode = "WRITE"
  BY <1>1, <1>2, MovedFields DEF DoInitEntry
<1>3. CASE tr.mode # "WRITE"
  BY <1>1, <1>3, MovedFields DEF DoInitEntry
<1>4. QED
  BY <1>2, <1>3

LEMMA LoopFrame ==
  ASSUME NEW t \in Trans
  PROVE  /\ Running(t) \in Frame /\ Running(t).kind = "DoLoop" /\ Running(t).trans = t
         /\ \A u : ~NotifiedBy(Running(t), u)
         /\ \A ts : FrameOK(Running(t), ts)
BY DEF Running, Frame, NotifiedBy, FrameOK

LEMMA RaceFrame ==
  ASSUME NEW queue \in Seq(Trans), NEW t \in Trans, NEW then \in TransType
  PROVE  /\ NotifyRace(queue, t, then) \in Frame
         /\ NotifyRace(queue, t, then).kind = "DoneWritingToEntry"
         /\ NotifyRace(queue, t, then).queue = queue
         /\ NotifyRace(queue, t, then).by = t /\ NotifyRace(queue, t, then).then = then
         /\ \A u : NotifiedBy(NotifyRace(queue, t, then), u) <=> u \in ToSet(queue)
BY DEF NotifyRace, Frame, NotifiedBy

LEMMA ItemsFrame ==
  ASSUME NEW o \in {"OPEN", "CREATE", "DOOM"}, NEW result \in {"OK", "FAILED"},
         NEW fail \in BOOLEAN, NEW items \in Seq(ItemType)
  PROVE  /\ NotifyItems(o, result, fail, items) \in Frame
         /\ NotifyItems(o, result, fail, items).kind = "OnIOComplete"
         /\ NotifyItems(o, result, fail, items).items = items
         /\ NotifyItems(o, result, fail, items).result = result
         /\ \A u : NotifiedBy(NotifyItems(o, result, fail, items), u)
                    <=> \E i \in DOMAIN items : items[i].trans = u
BY DEF NotifyItems, Frame, NotifiedBy

LEMMA FrameFields ==
  ASSUME NEW f \in Frame
  PROVE  /\ f.kind \in {"DoLoop", "OnIOComplete", "DoneWritingToEntry"}
         /\ f.kind = "DoLoop" => f.trans \in Trans /\ f = Running(f.trans)
         /\ f.kind = "OnIOComplete" => /\ f.items \in Seq(ItemType) /\ f.fail \in BOOLEAN
                                       /\ f.result \in {"OK", "FAILED"}
                                       /\ f.op \in {"OPEN", "CREATE", "DOOM"}
         /\ f.kind = "DoneWritingToEntry" => /\ f.queue \in Seq(Trans) /\ f.by \in Trans
                                             /\ f.then \in TransType
BY DEF Frame, Running

(* A list whose last element is dropped, replaced or followed by another. *)
LEMMA PopLast ==
  ASSUME NEW S, NEW s \in Seq(S), s # <<>>
  PROVE  /\ Front(s) \in Seq(S) /\ Len(s) \in Nat /\ Len(s) >= 1 /\ Len(Front(s)) = Len(s) - 1
         /\ \A i \in 1..(Len(s) - 1) : Front(s)[i] = s[i]
         /\ Last(s) = s[Len(s)] /\ Last(s) \in S
<1>1. Len(s) \in Nat /\ Len(s) >= 1
  OBVIOUS
<1>2. /\ SubSeq(s, 1, Len(s) - 1) \in Seq(S) /\ Len(SubSeq(s, 1, Len(s) - 1)) = Len(s) - 1
      /\ \A i \in 1..(Len(s) - 1) : SubSeq(s, 1, Len(s) - 1)[i] = s[i]
  <2>1. Len(s) - 1 \in Nat /\ \A i \in 1..(Len(s) - 1) : s[i] \in S
    BY <1>1
  <2>2. PICK n : n = Len(s) - 1
    OBVIOUS
  <2>3. n \in Nat /\ \A i \in 1..n : s[i] \in S
    BY <2>1, <2>2
  <2>4. /\ SubSeq(s, 1, n) \in Seq(S) /\ Len(SubSeq(s, 1, n)) = n
        /\ \A i \in 1..n : SubSeq(s, 1, n)[i] = s[i]
    BY <2>3
  <2>5. QED
    BY <2>2, <2>4
<1>3. QED
  BY <1>1, <1>2 DEF Front, Last

LEMMA Push ==
  ASSUME NEW S, NEW s \in Seq(S), NEW x \in S
  PROVE  /\ Append(s, x) \in Seq(S) /\ Len(Append(s, x)) = Len(s) + 1 /\ Len(s) \in Nat
         /\ \A i \in 1..Len(s) : Append(s, x)[i] = s[i]
         /\ Append(s, x)[Len(s) + 1] = x
         /\ Append(s, x) # <<>>
BY AppendProperties

(* The innermost call. *)
LEMMA TopFrame ==
  ASSUME Types, stack # <<>>
  PROVE  /\ Len(stack) \in Nat /\ Len(stack) >= 1 /\ DOMAIN stack = 1..Len(stack)
         /\ Len(stack) \in DOMAIN stack /\ Top = stack[Len(stack)] /\ Top \in Frame
<1>1. stack \in Seq(Frame)
  BY DEF Types
<1>2. QED
  BY <1>1, PopLast DEF Top

-----------------------------------------------------------------------------
(* A transaction that does not wait is in no list. *)

LEMMA ItemTrans ==
  ASSUME NEW ts, NEW t \in Trans, NEW item, item.trans = t, Asked(item, ts)
  PROVE  ts[t].state \in Waits
BY DEF Asked, Waits

LEMMA NotListed ==
  ASSUME IInv, NEW t \in Trans, trans[t].state \notin Waits
  PROVE  /\ ~InPendingOp(op, t) /\ ~InBackendOp(t)
         /\ \A e \in Entries : t \notin ToSet(pending_queue[e])
         /\ \A i \in DOMAIN stack : ~NotifiedBy(stack[i], t)
         /\ ~Queued(t) /\ ~BeingNotified(t)
<1>1. t # None /\ "add_wait" \in Waits /\ "backend_wait" \in Waits
  BY NullAssumption DEF Waits
<1>2. ~InPendingOp(op, t)
  BY <1>1, ItemTrans DEF IInv, OpOK, ItemsOK, InPendingOp
<1>3. ~InBackendOp(t)
  BY <1>1 DEF IInv, BackendOK
<1>4. \A e \in Entries : t \notin ToSet(pending_queue[e])
  BY <1>1 DEF IInv, QueuesOK
<1>5. ASSUME NEW i \in DOMAIN stack PROVE ~NotifiedBy(stack[i], t)
  <2>1. FrameOK(stack[i], trans)
    BY DEF IInv, CallsOK, StackOK, FramesOK
  <2>2. QED
    BY <1>1, <2>1, ItemTrans DEF FrameOK, ItemsOK, NotifiedBy
<1>6. QED
  BY <1>2, <1>3, <1>4, <1>5 DEF Queued, BeingNotified, InQueue
-----------------------------------------------------------------------------
(* Steps that change one transaction. *)

Only(t) ==
  /\ trans' \in [Trans -> TransType]
  /\ \A u \in Trans \ {t} : trans'[u] = trans[u]

LEMMA BecomesOnly ==
  ASSUME Types, NEW t \in Trans, NEW tr \in TransType, Becomes(t, tr)
  PROVE  Only(t) /\ trans'[t] = tr
BY DEF Types, Becomes, Only

(* The parts that do not see t, because it does not wait. *)
LEMMA BackendKept ==
  ASSUME IInv, NEW t \in Trans, ~InBackendOp(t), Only(t), UNCHANGED backendVars
  PROVE  BackendOK'
BY DEF IInv, BackendOK, InBackendOp, Only, backendVars

LEMMA ItemsKept ==
  ASSUME NEW items \in Seq(ItemType), NEW ts, NEW us, NEW t, ItemsOK(items, ts),
         \A i \in DOMAIN items : items[i].trans # t, \A u \in Trans \ {t} : us[u] = ts[u]
  PROVE  ItemsOK(items, us)
<1>0. \A i \in DOMAIN items : items[i] \in ItemType
  OBVIOUS
<1>1. \A i \in DOMAIN items : items[i].trans # None => us[items[i].trans] = ts[items[i].trans]
  BY <1>0 DEF ItemType
<1>2. QED
  BY <1>1 DEF ItemsOK, Asked

LEMMA OpFields ==
  ASSUME NEW o \in PendingOp
  PROVE  /\ o.writer \in ItemType /\ o.queue \in Seq(ItemType) /\ o # None
         /\ o.writer.trans \in Trans \cup {None} /\ o.writer.op \in {"OPEN", "CREATE", "DOOM"}
BY NoneNotAnOp DEF PendingOp, ItemType

LEMMA OpKept ==
  ASSUME IInv, NEW t \in Trans, ~InPendingOp(op, t), Only(t), UNCHANGED op,
         sync' = sync, op # None => active' = None
  PROVE  OpOK'
<1>1. SUFFICES ASSUME op # None PROVE OpOK'
  BY DEF OpOK
<1>2. op \in PendingOp /\ op.queue \in Seq(ItemType) /\ op.writer.trans \in Trans \cup {None}
  BY <1>1, OpFields DEF IInv, Types
<1>4. op.writer.trans # t /\ \A i \in DOMAIN op.queue : op.queue[i].trans # t
  BY <1>1 DEF InPendingOp
<1>5. ItemsOK(op.queue, trans')
  <2>1. PICK q, us, ts : q = op.queue /\ us = trans' /\ ts = trans
    OBVIOUS
  <2>2. /\ ItemsOK(q, ts) /\ \A u \in Trans \ {t} : us[u] = ts[u]
        /\ q \in Seq(ItemType) /\ \A i \in DOMAIN q : q[i].trans # t
    BY <1>1, <1>2, <1>4, <2>1 DEF IInv, OpOK, Only
  <2>3. ItemsOK(q, us)
    BY <2>2, ItemsKept
  <2>4. QED
    BY <2>1, <2>3
<1>6. op.writer.trans # None => Asked(op.writer, trans')
  BY <1>1, <1>2, <1>4 DEF IInv, OpOK, Only, Asked
<1>7. QED
  BY <1>1, <1>5, <1>6 DEF IInv, OpOK

LEMMA QueuesKept ==
  ASSUME IInv, NEW t \in Trans, \A e \in Entries : t \notin ToSet(pending_queue[e]), Only(t),
         UNCHANGED pending_queue
  PROVE  QueuesOK'
<1>1. \A e \in Entries : ToSet(pending_queue[e]) \subseteq Trans
  BY DEF IInv, Types, ToSet
<1>2. QED
  BY <1>1 DEF IInv, QueuesOK, Only

LEMMA Unlisted ==
  ASSUME IInv, NEW t \in Trans, ~Queued(t)
  PROVE  /\ ~InPendingOp(op, t) /\ ~InBackendOp(t)
         /\ \A e \in Entries : t \notin ToSet(pending_queue[e])
BY NullAssumption DEF Queued, InQueue

LEMMA FrameKept ==
  ASSUME NEW f \in Frame, NEW ts, NEW us, NEW t, FrameOK(f, ts), ~NotifiedBy(f, t),
         \A u \in Trans \ {t} : us[u] = ts[u]
  PROVE  FrameOK(f, us)
<1>1. CASE f.kind = "OnIOComplete"
  <2>1. f.items \in Seq(ItemType) /\ ItemsOK(f.items, ts)
    BY <1>1, FrameFields DEF FrameOK
  <2>2. \A i \in DOMAIN f.items : f.items[i].trans # t
    BY <1>1 DEF NotifiedBy
  <2>3. PICK q : q = f.items
    OBVIOUS
  <2>4. ItemsOK(q, ts) /\ q \in Seq(ItemType) /\ \A i \in DOMAIN q : q[i].trans # t
    BY <2>1, <2>2, <2>3
  <2>5. ItemsOK(q, us)
    BY <2>4, ItemsKept
  <2>6. QED
    BY <1>1, <2>3, <2>5 DEF FrameOK
<1>2. CASE f.kind = "DoneWritingToEntry"
  <2>1. ToSet(f.queue) \subseteq Trans
    BY <1>2, FrameFields DEF ToSet
  <2>2. QED
    BY <1>2, <2>1 DEF FrameOK, NotifiedBy
<1>3. QED
  BY <1>1, <1>2 DEF FrameOK

-----------------------------------------------------------------------------
(* Changes of the calls in progress. *)

LEMMA StackEmpty ==
  ASSUME NEW ts, NEW queued, NEW act, NEW sy
  PROVE  StackOK(<<>>, ts, queued, act, sy)
BY DEF StackOK, FramesOK, IOLoopOK, NotifiedOnce, LoopsOK, CallersOK

(* Transaction t changes, and the lists and the active entry may. *)
OneChanges(st, t, ts, us, queued, queued2, act, act2, sy) ==
  /\ \A u \in Trans \ {t} : us[u] = ts[u]
  /\ \A i \in DOMAIN st : ~NotifiedBy(st[i], t)
  /\ \A i \in DOMAIN st : \A u \in Trans : NotifiedBy(st[i], u) /\ u \in queued2 => u \in queued
  /\ sy = FALSE /\ act = None => act2 = None
  /\ \A i \in DOMAIN st : st[i].kind = "DoLoop" /\ st[i].trans = t =>
       us[t].state \notin Waits /\ (i < Len(st) => us[t].state \in {"closing", "done"})

LEMMA StackTrans ==
  ASSUME NEW st \in Seq(Frame), NEW ts, NEW us, NEW t, NEW queued, NEW queued2,
         NEW act, NEW act2, NEW sy,
         StackOK(st, ts, queued, act, sy),
         OneChanges(st, t, ts, us, queued, queued2, act, act2, sy)
  PROVE  StackOK(st, us, queued2, act2, sy)
<1> USE DEF OneChanges
<1>1. \A i \in DOMAIN st : st[i] \in Frame
  OBVIOUS
<1>2. FramesOK(st, us)
  <2>1. ASSUME NEW i \in DOMAIN st PROVE FrameOK(st[i], us)
    <3>1. PICK f : f = st[i]
      OBVIOUS
    <3>2. f \in Frame /\ FrameOK(f, ts) /\ ~NotifiedBy(f, t)
      BY <1>1, <3>1 DEF StackOK, FramesOK
    <3>3. FrameOK(f, us)
      BY <3>2, FrameKept
    <3>4. QED
      BY <3>1, <3>3
  <2>2. QED
    BY <2>1 DEF FramesOK
<1>3. IOLoopOK(st, act2, sy)
  BY DEF StackOK, IOLoopOK
<1>4. NotifiedOnce(st, queued2)
  BY DEF StackOK, NotifiedOnce
<1>5. LoopsOK(st, us)
  <2>1. ASSUME NEW i \in DOMAIN st, st[i].kind = "DoLoop"
        PROVE  /\ us[st[i].trans].state \notin Waits
               /\ i < Len(st) => us[st[i].trans].state \in {"closing", "done"}
    <3>1. st[i].trans \in Trans
      BY <1>1, <2>1, FrameFields
    <3>2. /\ ts[st[i].trans].state \notin Waits
          /\ i < Len(st) => ts[st[i].trans].state \in {"closing", "done"}
      BY <2>1 DEF StackOK, LoopsOK
    <3>3. CASE st[i].trans = t
      BY <2>1, <3>3
    <3>4. CASE st[i].trans # t
      BY <3>1, <3>2, <3>4
    <3>5. QED
      BY <3>3, <3>4
  <2>2. QED
    BY <2>1 DEF StackOK, LoopsOK
<1>6. CallersOK(st)
  BY DEF StackOK
<1>7. QED
  BY <1>2, <1>3, <1>4, <1>5, <1>6 DEF StackOK

(* The innermost call returns. *)
LEMMA StackPop ==
  ASSUME NEW st \in Seq(Frame), st # <<>>, NEW ts, NEW queued, NEW act, NEW sy,
         StackOK(st, ts, queued, act, sy)
  PROVE  StackOK(Front(st), ts, queued, act, sy)
<1>1. PICK n : n = Len(st) - 1
  OBVIOUS
<1>2. /\ Front(st) \in Seq(Frame) /\ n \in Nat /\ Len(Front(st)) = n /\ Len(st) = n + 1
      /\ \A i \in 1..n : Front(st)[i] = st[i]
  BY <1>1, PopLast
<1>3. PICK r : r = Front(st)
  OBVIOUS
<1>4. /\ DOMAIN r = 1..n /\ DOMAIN st = 1..(n + 1) /\ Len(r) = n /\ n \in Nat
      /\ \A i \in 1..n : r[i] = st[i] /\ i \in 1..(n + 1) /\ i < Len(st)
  BY <1>2, <1>3
<1>5. FramesOK(r, ts) /\ IOLoopOK(r, act, sy)
  BY <1>4 DEF StackOK, FramesOK, IOLoopOK
<1>6. NotifiedOnce(r, queued)
  BY <1>4 DEF StackOK, NotifiedOnce
<1>7. LoopsOK(r, ts)
  BY <1>4 DEF StackOK, LoopsOK
<1>8. CallersOK(r)
  <2>1. ASSUME NEW i \in 1..n, r[i].kind = "DoneWritingToEntry"
        PROVE  \E j \in 1..n : i = j + 1 /\ r[j] = Running(r[i].by)
    <3>1. PICK j \in 1..(n + 1) : i = j + 1 /\ st[j] = Running(st[i].by)
      BY <1>4, <2>1 DEF StackOK, CallersOK
    <3>2. j \in 1..n
      BY <1>4, <3>1
    <3>3. QED
      BY <1>4, <3>1, <3>2
  <2>2. QED
    BY <1>4, <2>1 DEF CallersOK
<1>9. QED
  BY <1>3, <1>5, <1>6, <1>7, <1>8 DEF StackOK

(* Append(st, f), entry by entry. *)
LEMMA Pushed ==
  ASSUME NEW st \in Seq(Frame), NEW f \in Frame
  PROVE  /\ Append(st, f) \in Seq(Frame) /\ Append(st, f) # <<>> /\ Len(st) \in Nat
         /\ Len(Append(st, f)) = Len(st) + 1
         /\ DOMAIN Append(st, f) = 1..(Len(st) + 1) /\ DOMAIN st = 1..Len(st)
         /\ \A i \in 1..Len(st) : Append(st, f)[i] = st[i]
         /\ Append(st, f)[Len(st) + 1] = f
         /\ Last(Append(st, f)) = f /\ Front(Append(st, f)) = st
<1>1. PICK r : r = Append(st, f)
  OBVIOUS
<1>2. /\ r \in Seq(Frame) /\ Len(r) = Len(st) + 1 /\ Len(st) \in Nat /\ r # <<>>
      /\ \A i \in 1..Len(st) : r[i] = st[i]
      /\ r[Len(st) + 1] = f
  BY <1>1, Push
<1>3. DOMAIN r = 1..(Len(st) + 1) /\ DOMAIN st = 1..Len(st)
  BY <1>2
<1>4. /\ Last(r) = r[Len(r)] /\ Front(r) \in Seq(Frame) /\ Len(Front(r)) = Len(r) - 1
      /\ \A i \in 1..(Len(r) - 1) : Front(r)[i] = r[i]
  BY <1>2, PopLast
<1>5. Len(r) - 1 = Len(st)
  BY <1>2
<1>6. Front(r) = st
  <2>1. PICK q : q = Front(r)
    OBVIOUS
  <2>2. q \in Seq(Frame) /\ Len(q) = Len(st) /\ \A i \in 1..Len(st) : q[i] = st[i]
    BY <1>2, <1>4, <1>5, <2>1
  <2>3. q = st
    BY <2>2, SeqEqual
  <2>4. QED
    BY <2>1, <2>3
<1>7. QED
  BY <1>1, <1>2, <1>3, <1>4, <1>6

(* A notified transaction starts to run. *)
LEMMA StackPushLoop ==
  ASSUME NEW st \in Seq(Frame), NEW ts, NEW queued, NEW act, NEW sy, NEW t \in Trans,
         StackOK(st, ts, queued, act, sy), ts[t].state \notin Waits,
         \A i \in DOMAIN st : st[i].kind = "DoLoop" =>
           st[i].trans # t /\ ts[st[i].trans].state \in {"closing", "done"}
  PROVE  StackOK(Append(st, Running(t)), ts, queued, act, sy)
<1>1. PICK r, n, f : r = Append(st, Running(t)) /\ n = Len(st) /\ f = Running(t)
  OBVIOUS
<1>2. /\ f \in Frame /\ f.kind = "DoLoop" /\ f.trans = t /\ (\A u : ~NotifiedBy(f, u))
      /\ FrameOK(f, ts)
  BY <1>1, LoopFrame
<1>3. /\ DOMAIN r = 1..(n + 1) /\ DOMAIN st = 1..n /\ Len(r) = n + 1 /\ n \in Nat
      /\ r[n + 1] = f /\ \A i \in 1..n : r[i] = st[i]
  BY <1>1, <1>2, Pushed
<1>4. \A i \in 1..(n + 1) : i \in 1..n \/ i = n + 1
  BY <1>3
<1>5. FramesOK(r, ts)
  BY <1>2, <1>3, <1>4 DEF StackOK, FramesOK
<1>6. IOLoopOK(r, act, sy)
  BY <1>2, <1>3, <1>4 DEF StackOK, IOLoopOK
<1>7. NotifiedOnce(r, queued)
  BY <1>2, <1>3, <1>4 DEF StackOK, NotifiedOnce
<1>8. LoopsOK(r, ts)
  <2>1. ASSUME NEW i \in 1..(n + 1), r[i].kind = "DoLoop"
        PROVE  /\ ts[r[i].trans].state \notin Waits
               /\ i < n + 1 => ts[r[i].trans].state \in {"closing", "done"}
               /\ \A j \in 1..(n + 1) : r[j].kind = "DoLoop" /\ r[j].trans = r[i].trans => i = j
    <3>1. CASE i = n + 1
      BY <1>2, <1>3, <1>4, <3>1
    <3>2. CASE i \in 1..n
      <4>1. st[i].kind = "DoLoop" /\ r[i] = st[i]
        BY <1>3, <2>1, <3>2
      <4>2. /\ ts[st[i].trans].state \notin Waits /\ st[i].trans # t
            /\ ts[st[i].trans].state \in {"closing", "done"}
            /\ \A j \in 1..n : st[j].kind = "DoLoop" /\ st[j].trans = st[i].trans => i = j
        BY <1>3, <3>2, <4>1 DEF StackOK, LoopsOK
      <4>3. QED
        BY <1>2, <1>3, <1>4, <4>1, <4>2
    <3>3. QED
      BY <1>4, <3>1, <3>2
  <2>2. QED
    BY <1>3, <2>1 DEF LoopsOK
<1>9. CallersOK(r)
  <2>1. ASSUME NEW i \in 1..(n + 1), r[i].kind = "DoneWritingToEntry"
        PROVE  \E j \in 1..(n + 1) : i = j + 1 /\ r[j] = Running(r[i].by)
    <3>1. i \in 1..n /\ r[i] = st[i]
      BY <1>2, <1>3, <1>4, <2>1
    <3>2. PICK j \in 1..n : i = j + 1 /\ st[j] = Running(st[i].by)
      BY <1>3, <2>1, <3>1 DEF StackOK, CallersOK
    <3>3. j \in 1..(n + 1)
      BY <1>3
    <3>4. QED
      BY <1>3, <3>1, <3>2, <3>3
  <2>2. QED
    BY <1>3, <2>1 DEF CallersOK
<1>10. QED
  BY <1>1, <1>5, <1>6, <1>7, <1>8, <1>9 DEF StackOK

(* The innermost DoLoop gives up an entry whose queue is to be told. *)
LEMMA StackPushRace ==
  ASSUME NEW st \in Seq(Frame), NEW ts, NEW queued, NEW act, NEW sy, NEW t \in Trans,
         StackOK(st, ts, queued, act, sy), st # <<>>, Last(st) = Running(t),
         ts[t].state \in {"closing", "done"},
         NEW q \in Seq(Trans), NEW then \in TransType,
         then.state \in {"doom", "done", "dangling"}, NoDup(q),
         \A u \in ToSet(q) : /\ ts[u].state = "add_wait" /\ u \notin queued
                             /\ \A i \in DOMAIN st : ~NotifiedBy(st[i], u)
  PROVE  StackOK(Append(st, NotifyRace(q, t, then)), ts, queued, act, sy)
<1>1. PICK r, n, f : r = Append(st, NotifyRace(q, t, then)) /\ n = Len(st) /\ f = NotifyRace(q, t, then)
  OBVIOUS
<1>2. /\ f \in Frame /\ f.kind = "DoneWritingToEntry" /\ f.by = t /\ f.queue = q /\ f.then = then
      /\ \A u : NotifiedBy(f, u) <=> u \in ToSet(q)
  BY <1>1, RaceFrame
<1>3. /\ DOMAIN r = 1..(n + 1) /\ DOMAIN st = 1..n /\ Len(r) = n + 1 /\ n \in Nat
      /\ r[n + 1] = f /\ \A i \in 1..n : r[i] = st[i]
  BY <1>1, <1>2, Pushed
<1>4. \A i \in 1..(n + 1) : i \in 1..n \/ i = n + 1
  BY <1>3
<1>5. n >= 1 /\ n \in 1..n /\ st[n] = Running(t)
  <2>1. Len(st) >= 1 /\ Last(st) = st[Len(st)]
    BY PopLast
  <2>2. QED
    BY <1>1, <1>3, <2>1
<1>6. FrameOK(f, ts)
  BY <1>2 DEF FrameOK
<1>7. FramesOK(r, ts)
  BY <1>3, <1>4, <1>6 DEF StackOK, FramesOK
<1>8. IOLoopOK(r, act, sy)
  BY <1>2, <1>3, <1>4 DEF StackOK, IOLoopOK
<1>9. NotifiedOnce(r, queued)
  <2>1. ASSUME NEW i \in 1..(n + 1), NEW u \in Trans, NotifiedBy(r[i], u)
        PROVE  u \notin queued /\ \A j \in 1..(n + 1) : NotifiedBy(r[j], u) => i = j
    <3>1. CASE i = n + 1
      BY <1>2, <1>3, <1>4, <2>1, <3>1
    <3>2. CASE i \in 1..n
      <4>1. NotifiedBy(st[i], u)
        BY <1>3, <2>1, <3>2
      <4>2. u \notin queued /\ \A j \in 1..n : NotifiedBy(st[j], u) => i = j
        BY <1>3, <3>2, <4>1 DEF StackOK, NotifiedOnce
      <4>3. u \notin ToSet(q)
        BY <1>3, <3>2, <4>1
      <4>4. QED
        BY <1>2, <1>3, <1>4, <4>2, <4>3
    <3>3. QED
      BY <1>4, <3>1, <3>2
  <2>2. QED
    BY <1>3, <2>1 DEF NotifiedOnce
<1>10. LoopsOK(r, ts)
  <2>1. ASSUME NEW i \in 1..(n + 1), r[i].kind = "DoLoop"
        PROVE  /\ ts[r[i].trans].state \notin Waits
               /\ i < n + 1 => ts[r[i].trans].state \in {"closing", "done"}
               /\ \A j \in 1..(n + 1) : r[j].kind = "DoLoop" /\ r[j].trans = r[i].trans => i = j
    <3>1. i \in 1..n /\ r[i] = st[i]
      BY <1>2, <1>3, <1>4, <2>1
    <3>2. /\ ts[st[i].trans].state \notin Waits
          /\ i < n => ts[st[i].trans].state \in {"closing", "done"}
          /\ \A j \in 1..n : st[j].kind = "DoLoop" /\ st[j].trans = st[i].trans => i = j
      BY <1>1, <1>3, <2>1, <3>1, SMTT(30) DEF StackOK, LoopsOK
    <3>3. i = n => st[i].trans = t
      BY <1>5, LoopFrame
    <3>4. i < n \/ i = n
      BY <1>3, <3>1
    <3>5. \A j \in 1..(n + 1) : r[j].kind = "DoLoop" => j \in 1..n /\ r[j] = st[j]
      BY <1>2, <1>3, <1>4
    <3>6. QED
      BY <3>1, <3>2, <3>3, <3>4, <3>5
  <2>2. QED
    BY <1>3, <2>1 DEF LoopsOK
<1>11. CallersOK(r)
  <2>1. ASSUME NEW i \in 1..(n + 1), r[i].kind = "DoneWritingToEntry"
        PROVE  \E j \in 1..(n + 1) : i = j + 1 /\ r[j] = Running(r[i].by)
    <3>1. CASE i = n + 1
      BY <1>2, <1>3, <1>5, <3>1
    <3>2. CASE i \in 1..n
      <4>1. PICK j \in 1..n : i = j + 1 /\ st[j] = Running(st[i].by)
        BY <1>3, <2>1, <3>2 DEF StackOK, CallersOK
      <4>2. j \in 1..(n + 1)
        BY <1>3
      <4>3. QED
        BY <1>3, <3>2, <4>1, <4>2
    <3>3. QED
      BY <1>4, <3>1, <3>2
  <2>2. QED
    BY <1>3, <2>1 DEF CallersOK
<1>12. QED
  BY <1>1, <1>7, <1>8, <1>9, <1>10, <1>11 DEF StackOK

(* A loop of the cache takes an item off its list. *)
LEMMA StackReplaceTop ==
  ASSUME NEW st \in Seq(Frame), NEW ts, NEW queued, NEW act, NEW sy, NEW f \in Frame,
         StackOK(st, ts, queued, act, sy), st # <<>>,
         f.kind = Last(st).kind, f.kind # "DoLoop",
         f.kind = "OnIOComplete" => f.result = Last(st).result,
         f.kind = "DoneWritingToEntry" => f.by = Last(st).by,
         \A u \in Trans : NotifiedBy(f, u) => NotifiedBy(Last(st), u), FrameOK(f, ts)
  PROVE  StackOK(Append(Front(st), f), ts, queued, act, sy)
<1>1. PICK r, n, g : r = Append(Front(st), f) /\ n = Len(st) - 1 /\ g = Last(st)
  OBVIOUS
<1>2. /\ Front(st) \in Seq(Frame) /\ Len(Front(st)) = n /\ Len(st) \in Nat /\ Len(st) >= 1
      /\ \A i \in 1..n : Front(st)[i] = st[i]
      /\ g = st[Len(st)]
  BY <1>1, PopLast
<1>3. n \in Nat /\ Len(st) = n + 1 /\ DOMAIN st = 1..(n + 1)
  BY <1>1, <1>2
<1>4. /\ DOMAIN r = 1..(n + 1) /\ Len(r) = n + 1 /\ r[n + 1] = f
      /\ \A i \in 1..n : r[i] = st[i]
  BY <1>1, <1>2, Pushed
<1>5. \A i \in 1..(n + 1) : i \in 1..n \/ i = n + 1
  BY <1>3
<1>6. st[n + 1] = g /\ n + 1 \in 1..(n + 1)
  BY <1>2, <1>3
<1>7. \A i \in 1..(n + 1) : r[i].kind = st[i].kind
  BY <1>1, <1>4, <1>5, <1>6
<1>8. FramesOK(r, ts)
  BY <1>3, <1>4, <1>5 DEF StackOK, FramesOK
<1>9. IOLoopOK(r, act, sy)
  <2>1. ASSUME NEW i \in 1..(n + 1), r[i].kind = "OnIOComplete"
        PROVE  st[i].kind = "OnIOComplete" /\ r[i].result = st[i].result
    BY <1>1, <1>4, <1>5, <1>6, <1>7, <2>1
  <2>2. QED
    BY <1>3, <1>4, <2>1 DEF StackOK, IOLoopOK
<1>10. NotifiedOnce(r, queued)
  <2>1. \A i \in 1..(n + 1) : \A u \in Trans : NotifiedBy(r[i], u) => NotifiedBy(st[i], u)
    BY <1>1, <1>4, <1>5, <1>6
  <2>2. QED
    BY <1>3, <1>4, <2>1 DEF StackOK, NotifiedOnce
<1>11. LoopsOK(r, ts)
  <2>1. \A i \in 1..(n + 1) : r[i].kind = "DoLoop" => r[i] = st[i]
    BY <1>4, <1>5
  <2>2. QED
    BY <1>3, <1>4, <1>7, <2>1 DEF StackOK, LoopsOK
<1>12. CallersOK(r)
  <2>1. ASSUME NEW i \in 1..(n + 1), r[i].kind = "DoneWritingToEntry"
        PROVE  \E j \in 1..(n + 1) : i = j + 1 /\ r[j] = Running(r[i].by)
    <3>1. st[i].kind = "DoneWritingToEntry" /\ r[i].by = st[i].by
      BY <1>1, <1>4, <1>5, <1>6, <1>7, <2>1
    <3>2. PICK j \in 1..(n + 1) : i = j + 1 /\ st[j] = Running(st[i].by)
      BY <1>3, <3>1 DEF StackOK, CallersOK
    <3>3. j \in 1..n
      BY <1>3, <3>2
    <3>4. QED
      BY <1>4, <3>1, <3>2, <3>3
  <2>2. QED
    BY <1>4, <2>1 DEF CallersOK
<1>13. QED
  BY <1>1, <1>8, <1>9, <1>10, <1>11, <1>12 DEF StackOK
-----------------------------------------------------------------------------
(* The calls in progress and the waiting transactions, by kind of step. *)

StaysUnlisted == sync' = sync /\ (sync = FALSE /\ active = None => active' = None)

OthersQueued(t) == \A u \in Trans \ {t} : Queued(u)' <=> Queued(u)

LEMMA PlacedKept ==
  ASSUME IInv, NEW t \in Trans, Only(t),
         \A u \in Trans \ {t} : Queued(u) \/ BeingNotified(u) => Queued(u)' \/ BeingNotified(u)',
         trans'[t].state \in Waits => Queued(t)'
  PROVE  Placed'
BY DEF IInv, Placed, Waiting, Only

(* The innermost DoLoop is t's. *)
LEMMA TopLoop ==
  ASSUME IInv, NEW t \in Trans, IsTop("DoLoop"), Top.trans = t
  PROVE  /\ stack # <<>> /\ Len(stack) \in DOMAIN stack /\ Len(stack) \in Nat
         /\ stack[Len(stack)] = Running(t) /\ Top = Running(t)
         /\ trans[t].state \notin Waits
         /\ \A i \in DOMAIN stack : stack[i].kind = "DoLoop" /\ stack[i].trans = t => i = Len(stack)
         /\ \A u : ~NotifiedBy(stack[Len(stack)], u)
<1>1. /\ stack # <<>> /\ Top.kind = "DoLoop" /\ Top = stack[Len(stack)] /\ Top \in Frame
      /\ Len(stack) \in DOMAIN stack /\ Len(stack) \in Nat
  BY TopFrame DEF IsTop, IInv
<1>2. Top = Running(t)
  BY <1>1, FrameFields
<1>3. LoopsOK(stack, trans)
  BY DEF IInv, CallsOK, StackOK
<1>4. QED
  BY <1>1, <1>2, <1>3, LoopFrame DEF LoopsOK

(* Nobody is in the lists of the calls but who waits for it. *)
LEMMA NotNotified ==
  ASSUME IInv, NEW t \in Trans, trans[t].state \notin Waits \/ Queued(t)
  PROVE  \A i \in DOMAIN stack : ~NotifiedBy(stack[i], t)
<1>1. CASE trans[t].state \notin Waits
  BY <1>1, NotListed
<1>2. CASE Queued(t)
  BY <1>2 DEF IInv, CallsOK, StackOK, NotifiedOnce, QueuedTrans
<1>3. QED
  BY <1>1, <1>2

(* A step of the transaction that acts, which does not wait after it either. *)
LEMMA CallsQuiet ==
  ASSUME IInv, NEW t \in Trans, Only(t), Acts(t), UNCHANGED stack,
         trans[t].state \notin Waits, trans'[t].state \notin Waits,
         OthersQueued(t), StaysUnlisted
  PROVE  CallsOK' /\ Placed'
<1>1. stack \in Seq(Frame) /\ \A i \in DOMAIN stack : ~NotifiedBy(stack[i], t)
  BY NotNotified DEF IInv, Types
<1>2. \A i \in DOMAIN stack : stack[i].kind = "DoLoop" /\ stack[i].trans = t => i = Len(stack)
  <2>1. CASE stack = <<>>
    BY <2>1
  <2>2. CASE stack # <<>>
    BY <2>2, TopLoop DEF Acts
  <2>3. QED
    BY <2>1, <2>2
<1>3. Len(stack) \in Nat
  BY <1>1
<1>4. \A i \in DOMAIN stack : stack[i].kind = "DoLoop" /\ stack[i].trans = t =>
        /\ trans'[t].state \notin Waits
        /\ i < Len(stack) => trans'[t].state \in {"closing", "done"}
  BY <1>2, <1>3
<1>5. \A i \in DOMAIN stack : \A u \in Trans :
        NotifiedBy(stack[i], u) /\ u \in QueuedTrans' => u \in QueuedTrans
  BY <1>1 DEF OthersQueued, QueuedTrans
<1>6. StackOK(stack, trans, QueuedTrans, active, sync)
  BY DEF IInv, CallsOK
<1>7. OneChanges(stack, t, trans, trans', QueuedTrans, QueuedTrans', active, active', sync)
  BY <1>1, <1>4, <1>5 DEF Only, StaysUnlisted, OneChanges
<1>7b. StackOK(stack, trans', QueuedTrans', active', sync)
  BY <1>1, <1>6, <1>7, StackTrans
<1>8. CallsOK'
  BY <1>7b DEF CallsOK, StaysUnlisted
<1>9. Placed'
  BY PlacedKept DEF OthersQueued, BeingNotified
<1>10. QED
  BY <1>8, <1>9

(* DoLoop returns ERR_IO_PENDING. *)
LEMMA CallsWait ==
  ASSUME IInv, NEW t \in Trans, Only(t), IsTop("DoLoop"), Top.trans = t,
         stack' = Front(stack), OthersQueued(t), Queued(t)', StaysUnlisted
  PROVE  CallsOK' /\ Placed' /\ stack' \in Seq(Frame)
<1>1. /\ stack \in Seq(Frame) /\ stack # <<>>
      /\ \A i \in DOMAIN stack : stack[i].kind = "DoLoop" /\ stack[i].trans = t => i = Len(stack)
      /\ \A u : ~NotifiedBy(stack[Len(stack)], u)
      /\ trans[t].state \notin Waits
  BY TopLoop DEF IInv, Types
<1>2. \A i \in DOMAIN stack : ~NotifiedBy(stack[i], t)
  BY <1>1, NotNotified
<1>3. PICK st, n : st = Front(stack) /\ n = Len(stack) - 1
  OBVIOUS
<1>4. /\ st \in Seq(Frame) /\ Len(st) = n /\ Len(stack) \in Nat /\ Len(stack) >= 1
      /\ \A i \in 1..n : st[i] = stack[i]
  BY <1>1, <1>3, PopLast
<1>5. /\ n \in Nat /\ DOMAIN st = 1..n /\ DOMAIN stack = 1..Len(stack) /\ Len(stack) = n + 1
      /\ \A i \in 1..n : i \in DOMAIN stack /\ i # Len(stack)
      /\ \A i \in DOMAIN stack : i \in 1..n \/ i = Len(stack)
  BY <1>1, <1>3, <1>4
<1>6. StackOK(st, trans, QueuedTrans, active, sync)
  BY <1>1, <1>3, StackPop DEF IInv, CallsOK
<1>7. /\ \A i \in DOMAIN st : ~NotifiedBy(st[i], t)
      /\ \A i \in DOMAIN st : st[i].kind = "DoLoop" /\ st[i].trans = t =>
           /\ trans'[t].state \notin Waits
           /\ i < Len(st) => trans'[t].state \in {"closing", "done"}
  BY <1>1, <1>2, <1>4, <1>5
<1>8. \A i \in DOMAIN st : \A u \in Trans :
        NotifiedBy(st[i], u) /\ u \in QueuedTrans' => u \in QueuedTrans
  BY <1>7 DEF OthersQueued, QueuedTrans
<1>9. StackOK(st, trans', QueuedTrans', active', sync)
  <2>1. OneChanges(st, t, trans, trans', QueuedTrans, QueuedTrans', active, active', sync)
    BY <1>7, <1>8 DEF Only, StaysUnlisted, OneChanges
  <2>2. QED
    BY <1>4, <1>6, <2>1, StackTrans
<1>10. CallsOK'
  BY <1>3, <1>9 DEF CallsOK, StaysUnlisted
<1>11. \A u \in Trans : BeingNotified(u) => BeingNotified(u)'
  BY <1>1, <1>3, <1>4, <1>5 DEF BeingNotified
<1>12. Placed'
  BY <1>11, PlacedKept DEF OthersQueued
<1>13. QED
  BY <1>3, <1>4, <1>10, <1>12

(* A call that has nobody to notify returns, and its caller t goes on. *)
LEMMA CallsPop ==
  ASSUME IInv, NEW t \in Trans, Only(t), stack # <<>>, stack' = Front(stack),
         \A u \in Trans : ~NotifiedBy(Top, u),
         UNCHANGED <<op, backend_writer, backend_queue, pending_queue, active, sync>>,
         trans' = trans \/ /\ trans[t].state \notin Waits /\ trans'[t].state \notin Waits
                           /\ \A i \in DOMAIN stack : i < Len(stack) - 1 =>
                                ~(stack[i].kind = "DoLoop" /\ stack[i].trans = t)
  PROVE  CallsOK' /\ Placed' /\ stack' \in Seq(Frame)
<1>1. PICK st, n : st = Front(stack) /\ n = Len(stack) - 1
  OBVIOUS
<1>2. /\ st \in Seq(Frame) /\ Len(st) = n /\ Len(stack) \in Nat /\ Len(stack) >= 1
      /\ (\A i \in 1..n : st[i] = stack[i]) /\ stack \in Seq(Frame) /\ Top = stack[Len(stack)]
  BY <1>1, PopLast DEF IInv, Types, Top
<1>3. /\ n \in Nat /\ DOMAIN st = 1..n /\ DOMAIN stack = 1..Len(stack) /\ Len(stack) = n + 1
      /\ \A i \in 1..n : i \in DOMAIN stack
      /\ \A i \in DOMAIN stack : i \in 1..n \/ i = Len(stack)
  BY <1>1, <1>2
<1>4. StackOK(st, trans, QueuedTrans, active, sync)
  BY <1>1, <1>2, StackPop DEF IInv, CallsOK
<1>5. \A u \in Trans : Queued(u)' <=> Queued(u)
  BY DEF Queued, InBackendOp, InQueue
<1>6. QueuedTrans' = QueuedTrans
  BY <1>5 DEF QueuedTrans
<1>7. StackOK(st, trans', QueuedTrans, active, sync)
  <2>1. CASE trans' = trans
    BY <1>4, <2>1
  <2>2. CASE trans[t].state \notin Waits /\ trans'[t].state \notin Waits /\ trans' # trans
    <3>1. \A i \in DOMAIN st : ~NotifiedBy(st[i], t)
      BY <1>2, <1>3, <2>2, NotNotified
    <3>2. \A i \in DOMAIN st : st[i].kind = "DoLoop" /\ st[i].trans = t =>
            /\ trans'[t].state \notin Waits
            /\ i < Len(st) => trans'[t].state \in {"closing", "done"}
      <4>1. \A i \in DOMAIN stack : i < Len(stack) - 1 =>
              ~(stack[i].kind = "DoLoop" /\ stack[i].trans = t)
        BY <2>2
      <4>2. ASSUME NEW i \in DOMAIN st, st[i].kind = "DoLoop", st[i].trans = t
            PROVE  ~(i < Len(st))
        BY <1>1, <1>2, <1>3, <4>1, <4>2
      <4>3. QED
        BY <2>2, <4>2
    <3>3. OneChanges(st, t, trans, trans', QueuedTrans, QueuedTrans, active, active, sync)
      BY <3>1, <3>2 DEF Only, OneChanges
    <3>4. QED
      BY <1>2, <1>4, <3>3, StackTrans
  <2>3. QED
    BY <2>1, <2>2
<1>8. CallsOK'
  BY <1>1, <1>6, <1>7 DEF CallsOK
<1>9. \A u \in Trans : BeingNotified(u) => BeingNotified(u)'
  BY <1>1, <1>2, <1>3 DEF BeingNotified
<1>10. Placed'
  <2>1. CASE trans' = trans
    BY <1>5, <1>9, <2>1 DEF IInv, Placed, Waiting
  <2>2. CASE trans'[t].state \notin Waits
    BY <1>5, <1>9, <2>2, PlacedKept
  <2>3. QED
    BY <2>1, <2>2
<1>11. QED
  BY <1>1, <1>2, <1>8, <1>10

(* A message loop task that leaves nobody running. *)
LEMMA CallsIdle ==
  ASSUME IInv, NEW t \in Trans, Only(t), stack = <<>>, UNCHANGED stack,
         \A u \in Trans \ {t} : Queued(u) => Queued(u)',
         trans'[t].state \in Waits => Queued(t)'
  PROVE  CallsOK' /\ Placed'
<1>1. CallsOK'
  BY StackEmpty DEF CallsOK
<1>2. Placed'
  BY PlacedKept DEF BeingNotified
<1>3. QED
  BY <1>1, <1>2

(* A message loop task that starts t's DoLoop. *)
LEMMA CallsStart ==
  ASSUME IInv, NEW t \in Trans, Only(t), stack = <<>>, stack' = <<Running(t)>>,
         \A u \in Trans \ {t} : Queued(u) => Queued(u)', trans'[t].state \notin Waits
  PROVE  CallsOK' /\ Placed' /\ stack' \in Seq(Frame)
<1>1. Running(t) \in Frame /\ <<>> \in Seq(Frame) /\ <<Running(t)>> = Append(<<>>, Running(t))
  BY LoopFrame
<1>2. StackOK(<<>>, trans', QueuedTrans', active', sync')
  BY StackEmpty
<1>3. \A i \in DOMAIN <<>> : <<>>[i].kind = "DoLoop" =>
        <<>>[i].trans # t /\ trans'[<<>>[i].trans].state \in {"closing", "done"}
  OBVIOUS
<1>4. StackOK(Append(<<>>, Running(t)), trans', QueuedTrans', active', sync')
  BY <1>1, <1>2, <1>3, StackPushLoop
<1>5. CallsOK'
  BY <1>1, <1>4 DEF CallsOK
<1>6. Placed'
  BY PlacedKept DEF BeingNotified
<1>7. QED
  BY <1>1, <1>5, <1>6

(* A loop of the cache whose frame becomes f has taken t off its list. *)
TakenOff(f, t) ==
  /\ stack # <<>> /\ Top.kind # "DoLoop" /\ f \in Frame /\ f.kind = Top.kind
  /\ f.kind = "OnIOComplete" => f.result = Top.result
  /\ f.kind = "DoneWritingToEntry" => f.by = Top.by
  /\ \A u \in Trans : NotifiedBy(f, u) <=> NotifiedBy(Top, u) /\ u # t
  /\ FrameOK(f, trans)

Replaced(f) == Append(Front(stack), f)

LEMMA CallsTakenOff ==
  ASSUME IInv, NEW f, NEW t, TakenOff(f, t)
  PROVE  /\ Replaced(f) \in Seq(Frame)
         /\ StackOK(Replaced(f), trans, QueuedTrans, active, sync)
         /\ DOMAIN Replaced(f) = DOMAIN stack
         /\ \A i \in DOMAIN stack : \A u \in Trans :
              NotifiedBy(Replaced(f)[i], u) <=> NotifiedBy(stack[i], u) /\ (u = t => i # Len(stack))
         /\ \A i \in DOMAIN stack : Replaced(f)[i].kind = stack[i].kind
         /\ \A i \in DOMAIN stack : i # Len(stack) => Replaced(f)[i] = stack[i]
<1>1. PICK n : n = Len(stack) - 1
  OBVIOUS
<1>2. /\ stack \in Seq(Frame) /\ stack # <<>> /\ Front(stack) \in Seq(Frame)
      /\ Len(Front(stack)) = n /\ Len(stack) \in Nat /\ Len(stack) >= 1
      /\ \A i \in 1..n : Front(stack)[i] = stack[i]
      /\ Top = stack[Len(stack)]
  BY <1>1, PopLast DEF IInv, Types, TakenOff, Top
<1>3. PICK st : st = Replaced(f)
  OBVIOUS
<1>4. /\ st \in Seq(Frame) /\ DOMAIN st = 1..(n + 1) /\ st[n + 1] = f
      /\ \A i \in 1..n : st[i] = Front(stack)[i]
  BY <1>2, <1>3, Pushed DEF TakenOff, Replaced
<1>5. /\ n \in Nat /\ Len(stack) = n + 1 /\ DOMAIN stack = 1..(n + 1)
      /\ \A i \in 1..(n + 1) : i \in 1..n \/ i = n + 1
      /\ \A i \in 1..n : i # n + 1
  BY <1>1, <1>2
<1>6. f.kind # "DoLoop" /\ f \in Frame /\ FrameOK(f, trans)
  BY DEF TakenOff
<1>7. StackOK(stack, trans, QueuedTrans, active, sync)
  BY DEF IInv, CallsOK
<1>8. StackOK(Append(Front(stack), f), trans, QueuedTrans, active, sync)
  <2>1. /\ f.kind = Last(stack).kind
        /\ f.kind = "OnIOComplete" => f.result = Last(stack).result
        /\ f.kind = "DoneWritingToEntry" => f.by = Last(stack).by
        /\ \A u \in Trans : NotifiedBy(f, u) => NotifiedBy(Last(stack), u)
    BY DEF TakenOff, Top
  <2>2. QED
    BY <1>2, <1>6, <1>7, <2>1, StackReplaceTop
<1>9. ASSUME NEW i \in DOMAIN stack, NEW u \in Trans
      PROVE  NotifiedBy(st[i], u) <=> NotifiedBy(stack[i], u) /\ (u = t => i # Len(stack))
  <2>1. CASE i = n + 1
    BY <1>2, <1>4, <1>5, <2>1 DEF TakenOff
  <2>2. CASE i \in 1..n
    BY <1>2, <1>4, <1>5, <2>2
  <2>3. QED
    BY <1>5, <2>1, <2>2
<1>10. \A i \in DOMAIN stack : st[i].kind = stack[i].kind
  BY <1>2, <1>4, <1>5 DEF TakenOff
<1>11. \A i \in DOMAIN stack : i # Len(stack) => st[i] = stack[i]
  BY <1>2, <1>4, <1>5
<1>12. DOMAIN st = DOMAIN stack
  BY <1>4, <1>5
<1>13. QED
  BY <1>3, <1>4, <1>8, <1>9, <1>10, <1>11, <1>12 DEF Replaced

(* Its item has no transaction any more. *)
LEMMA CallsSkip ==
  ASSUME IInv, NEW f, TakenOff(f, None), stack' = Replaced(f), UNCHANGED trans,
         UNCHANGED <<op, backend_writer, backend_queue, pending_queue, active, sync>>
  PROVE  CallsOK' /\ Placed' /\ stack' \in Seq(Frame)
<1>1. \A u \in Trans : (Queued(u)' <=> Queued(u)) /\ u # None
  BY NullAssumption DEF Queued, InBackendOp, InQueue
<1>2. QueuedTrans' = QueuedTrans
  BY <1>1 DEF QueuedTrans
<1>3. /\ Replaced(f) \in Seq(Frame) /\ DOMAIN Replaced(f) = DOMAIN stack
      /\ StackOK(Replaced(f), trans, QueuedTrans, active, sync)
  BY CallsTakenOff
<1>4. \A i \in DOMAIN stack : \A u \in Trans : NotifiedBy(Replaced(f)[i], u) <=> NotifiedBy(stack[i], u)
  BY <1>1, CallsTakenOff
<1>5. CallsOK'
  BY <1>2, <1>3 DEF CallsOK
<1>6. Placed'
  BY <1>1, <1>3, <1>4 DEF IInv, Placed, Waiting, BeingNotified
<1>7. QED
  BY <1>3, <1>5, <1>6

(* Its item's transaction runs. *)
LEMMA CallsNotify ==
  ASSUME IInv, NEW f, NEW t \in Trans, TakenOff(f, t), NotifiedBy(Top, t), Only(t),
         stack' = Append(Replaced(f), Running(t)), trans'[t].state \notin Waits,
         UNCHANGED <<op, backend_writer, backend_queue, pending_queue, active, sync>>
  PROVE  CallsOK' /\ Placed' /\ stack' \in Seq(Frame) /\ ~Queued(t)
<1>1. \A u \in Trans : Queued(u)' <=> Queued(u)
  BY DEF Queued, InBackendOp, InQueue
<1>2. QueuedTrans' = QueuedTrans
  BY <1>1 DEF QueuedTrans
<1>3. PICK st : st = Replaced(f)
  OBVIOUS
<1>4. /\ st \in Seq(Frame) /\ DOMAIN st = DOMAIN stack
      /\ StackOK(st, trans, QueuedTrans, active, sync)
      /\ \A i \in DOMAIN stack : \A u \in Trans :
           NotifiedBy(st[i], u) <=> NotifiedBy(stack[i], u) /\ (u = t => i # Len(stack))
      /\ \A i \in DOMAIN stack : st[i].kind = stack[i].kind
      /\ \A i \in DOMAIN stack : i # Len(stack) => st[i] = stack[i]
  BY <1>3, CallsTakenOff
<1>5. /\ Len(stack) \in DOMAIN stack /\ Top = stack[Len(stack)] /\ DOMAIN stack = 1..Len(stack)
      /\ Len(stack) \in Nat
  BY TopFrame DEF TakenOff, IInv
<1>6. ~Queued(t) /\ \A i \in DOMAIN stack : NotifiedBy(stack[i], t) => i = Len(stack)
  BY <1>5 DEF IInv, CallsOK, StackOK, NotifiedOnce, QueuedTrans
<1>7. \A i \in DOMAIN st : ~NotifiedBy(st[i], t)
  BY <1>4, <1>6
<1>8. trans[t].state \in Waits
  <2>1. CASE trans[t].state \notin Waits
    BY <1>5, <2>1, NotListed
  <2>2. QED
    BY <2>1
<1>9. ASSUME NEW i \in DOMAIN st, st[i].kind = "DoLoop"
      PROVE  st[i].trans # t /\ st[i].trans \in Trans
             /\ trans[st[i].trans].state \in {"closing", "done"}
  <2>1. i \in DOMAIN stack /\ i # Len(stack) /\ st[i] = stack[i]
    BY <1>4, <1>5, <1>9 DEF TakenOff
  <2>2. i < Len(stack)
    BY <1>5, <2>1
  <2>3. trans[stack[i].trans].state \in {"closing", "done"}
    BY <1>9, <2>1, <2>2 DEF IInv, CallsOK, StackOK, LoopsOK
  <2>4. stack[i].trans \in Trans
    BY <1>9, <2>1, FrameFields DEF IInv, Types
  <2>5. QED
    BY <1>8, <2>1, <2>3, <2>4 DEF Waits
<1>10. OneChanges(st, t, trans, trans', QueuedTrans, QueuedTrans, active, active, sync)
  BY <1>7, <1>9 DEF OneChanges, Only
<1>11. StackOK(st, trans', QueuedTrans, active, sync)
  BY <1>4, <1>10, StackTrans
<1>12. \A i \in DOMAIN st : st[i].kind = "DoLoop" =>
         st[i].trans # t /\ trans'[st[i].trans].state \in {"closing", "done"}
  BY <1>9 DEF Only
<1>13. StackOK(Append(st, Running(t)), trans', QueuedTrans, active, sync)
  BY <1>4, <1>11, <1>12, StackPushLoop
<1>14. CallsOK'
  BY <1>2, <1>3, <1>13 DEF CallsOK
<1>15. /\ stack' \in Seq(Frame) /\ DOMAIN stack' = 1..(Len(st) + 1) /\ DOMAIN st = 1..Len(st)
       /\ Len(st) \in Nat /\ \A i \in 1..Len(st) : stack'[i] = st[i]
  BY <1>3, <1>4, LoopFrame, Pushed
<1>16. ASSUME NEW u \in Trans \ {t}, BeingNotified(u) PROVE BeingNotified(u)'
  <2>1. PICK i \in DOMAIN st : NotifiedBy(st[i], u)
    BY <1>4, <1>16 DEF BeingNotified
  <2>2. i \in DOMAIN stack' /\ stack'[i] = st[i]
    BY <1>15
  <2>3. QED
    BY <2>1, <2>2 DEF BeingNotified
<1>17. Placed'
  BY <1>1, <1>16, PlacedKept
<1>18. QED
  BY <1>6, <1>14, <1>15, <1>17

(* A transaction that waits for an entry is in that queue only. *)
LEMMA QueueMember ==
  ASSUME IInv, NEW e \in Entries, NEW u \in ToSet(pending_queue[e])
  PROVE  /\ u \in Trans /\ trans[u].state = "add_wait" /\ trans[u].new_entry = e /\ Queued(u)
         /\ ~InPendingOp(op, u) /\ ~InBackendOp(u)
         /\ \A d \in Entries \ {e} : u \notin ToSet(pending_queue[d])
<1>1. u \in Trans
  BY DEF IInv, Types, ToSet
<1>2. trans[u].state = "add_wait" /\ trans[u].new_entry = e
  BY DEF IInv, QueuesOK
<1>3. u # None /\ e # None
  BY <1>1, NullAssumption
<1>4. ~InPendingOp(op, u)
  BY <1>2, <1>3 DEF IInv, OpOK, ItemsOK, Asked, InPendingOp
<1>5. ~InBackendOp(u)
  BY <1>1, <1>2 DEF IInv, BackendOK
<1>6. \A d \in Entries \ {e} : u \notin ToSet(pending_queue[d])
  BY <1>2 DEF IInv, QueuesOK
<1>7. QED
  BY <1>1, <1>2, <1>3, <1>4, <1>5, <1>6 DEF Queued, InQueue

(* The transaction that acts gives up its entry. *)
LEMMA CallsFail ==
  ASSUME IInv, NEW t \in Trans, NEW e \in Entries, NEW then \in TransType,
         Only(t), Acts(t), trans[t].state \notin Waits, trans'[t].state \in {"closing", "done"},
         then.state \in {"doom", "done", "dangling"}, StaysUnlisted,
         stack' = Append(Entered(t), NotifyRace(pending_queue[e], t, then)),
         pending_queue' = [pending_queue EXCEPT ![e] = <<>>],
         UNCHANGED <<backend_writer, backend_queue>>,
         \A u \in Trans : InPendingOp(op', u) <=> InPendingOp(op, u)
  PROVE  CallsOK' /\ Placed' /\ stack' \in Seq(Frame)
<1>1. PICK q, st : q = pending_queue[e] /\ st = Entered(t)
  OBVIOUS
<1>2. q \in Seq(Trans) /\ stack \in Seq(Frame) /\ pending_queue \in [Entries -> Seq(Trans)]
  BY <1>1 DEF IInv, Types
<1>3. \A i \in DOMAIN stack : ~NotifiedBy(stack[i], t)
  BY NotNotified
<1>4. /\ st \in Seq(Frame) /\ st # <<>> /\ Last(st) = Running(t)
      /\ StackOK(st, trans, QueuedTrans, active, sync)
      /\ \A i \in DOMAIN st : st[i].kind = "DoLoop" /\ st[i].trans = t => i = Len(st)
      /\ \A i \in DOMAIN st : \A u \in Trans : NotifiedBy(st[i], u) =>
           i \in DOMAIN stack /\ st[i] = stack[i]
      /\ \A i \in DOMAIN stack : i \in DOMAIN st /\ st[i] = stack[i]
  <2>1. CASE stack = <<>>
    <3>1. Running(t) \in Frame /\ <<>> \in Seq(Frame) /\ st = Append(<<>>, Running(t))
      BY <1>1, <2>1, LoopFrame DEF Entered
    <3>2. StackOK(<<>>, trans, QueuedTrans, active, sync)
      BY StackEmpty
    <3>3. \A i \in DOMAIN <<>> : <<>>[i].kind = "DoLoop" =>
            <<>>[i].trans # t /\ trans[<<>>[i].trans].state \in {"closing", "done"}
      OBVIOUS
    <3>4. StackOK(st, trans, QueuedTrans, active, sync)
      BY <3>1, <3>2, <3>3, StackPushLoop
    <3>5. /\ st \in Seq(Frame) /\ st # <<>> /\ Last(st) = Running(t)
          /\ DOMAIN st = 1..1 /\ Len(st) = 1 /\ st[1] = Running(t)
      <4>1. PICK z : z = <<>>
        OBVIOUS
      <4>2. z \in Seq(Frame) /\ Len(z) = 0 /\ st = Append(z, Running(t)) /\ Running(t) \in Frame
        BY <3>1, <4>1
      <4>3. /\ st \in Seq(Frame) /\ st # <<>> /\ Last(st) = Running(t)
            /\ DOMAIN st = 1..(Len(z) + 1) /\ Len(st) = Len(z) + 1 /\ st[Len(z) + 1] = Running(t)
        BY <4>2, Pushed
      <4>4. Len(z) + 1 = 1
        BY <4>2
      <4>5. QED
        BY <4>3, <4>4
    <3>6. QED
      BY <2>1, <3>4, <3>5, LoopFrame
  <2>2. CASE stack # <<>>
    <3>1. st = stack /\ IsTop("DoLoop") /\ Top.trans = t
      BY <1>1, <2>2 DEF Entered, Acts
    <3>2. /\ Last(stack) = Running(t)
          /\ \A i \in DOMAIN stack : stack[i].kind = "DoLoop" /\ stack[i].trans = t => i = Len(stack)
      BY <3>1, TopLoop DEF Top
    <3>3. QED
      BY <1>2, <2>2, <3>1, <3>2 DEF IInv, CallsOK
  <2>3. QED
    BY <2>1, <2>2
<1>5. \A u \in ToSet(q) : /\ u \in Trans /\ trans[u].state = "add_wait" /\ Queued(u)
                          /\ ~InPendingOp(op, u) /\ ~InBackendOp(u)
                          /\ \A d \in Entries \ {e} : u \notin ToSet(pending_queue[d])
  BY <1>1, QueueMember
<1>6. /\ pending_queue'[e] = <<>> /\ ToSet(<<>>) = {}
      /\ \A d \in Entries \ {e} : pending_queue'[d] = pending_queue[d]
  BY <1>2, EmptyList
<1>7. \A u \in Trans : Queued(u)' <=> Queued(u) /\ u \notin ToSet(q)
  <2>1. ASSUME NEW u \in Trans PROVE Queued(u)' <=> Queued(u) /\ u \notin ToSet(q)
    <3>1. (\E d \in Entries : u \in ToSet(pending_queue'[d]))
            <=> \E d \in Entries \ {e} : u \in ToSet(pending_queue[d])
      BY <1>6
    <3>2. InBackendOp(u)' <=> InBackendOp(u)
      BY DEF InBackendOp
    <3>3. Queued(u)' <=> \/ InPendingOp(op, u) \/ InBackendOp(u)
                         \/ \E d \in Entries \ {e} : u \in ToSet(pending_queue[d])
      BY <3>1, <3>2, NullAssumption DEF Queued, InQueue
    <3>4. Queued(u) <=> \/ InPendingOp(op, u) \/ InBackendOp(u)
                        \/ \E d \in Entries : u \in ToSet(pending_queue[d])
      BY NullAssumption DEF Queued, InQueue
    <3>5. QED
      BY <1>1, <1>5, <3>3, <3>4
  <2>2. QED
    BY <2>1
<1>8. "closing" \notin Waits /\ "done" \notin Waits /\ t \notin ToSet(q)
  BY <1>5 DEF Waits
<1>9. OneChanges(st, t, trans, trans', QueuedTrans, QueuedTrans', active, active', sync)
  BY <1>3, <1>4, <1>7, <1>8 DEF OneChanges, Only, StaysUnlisted, QueuedTrans
<1>10. StackOK(st, trans', QueuedTrans', active', sync)
  BY <1>4, <1>9, StackTrans
<1>11. NoDup(q)
  BY <1>1 DEF IInv, QueuesOK
<1>12. ASSUME NEW u \in ToSet(q)
       PROVE  /\ trans'[u].state = "add_wait" /\ u \notin QueuedTrans'
              /\ \A i \in DOMAIN st : ~NotifiedBy(st[i], u)
  <2>1. u \in Trans /\ u # t /\ Queued(u)
    BY <1>5, <1>8
  <2>2. \A i \in DOMAIN stack : ~NotifiedBy(stack[i], u)
    BY <2>1, NotNotified
  <2>3. QED
    BY <1>4, <1>5, <1>7, <2>1, <2>2 DEF Only, QueuedTrans
<1>13. StackOK(Append(st, NotifyRace(q, t, then)), trans', QueuedTrans', active', sync)
  BY <1>2, <1>4, <1>10, <1>11, <1>12, StackPushRace
<1>14. CallsOK'
  BY <1>1, <1>13 DEF CallsOK, StaysUnlisted
<1>15. PICK f : f = NotifyRace(q, t, then)
  OBVIOUS
<1>16. f \in Frame /\ \A u : NotifiedBy(f, u) <=> u \in ToSet(q)
  BY <1>2, <1>15, RaceFrame
<1>17. /\ stack' \in Seq(Frame) /\ DOMAIN stack' = 1..(Len(st) + 1) /\ DOMAIN st = 1..Len(st)
       /\ Len(st) \in Nat /\ stack'[Len(st) + 1] = f /\ \A i \in 1..Len(st) : stack'[i] = st[i]
  BY <1>1, <1>4, <1>15, <1>16, Pushed
<1>18. ASSUME NEW u \in Trans, Queued(u) \/ BeingNotified(u) PROVE Queued(u)' \/ BeingNotified(u)'
  <2>1. CASE u \in ToSet(q)
    <3>1. Len(st) + 1 \in DOMAIN stack'
      BY <1>17
    <3>2. QED
      BY <1>16, <1>17, <2>1, <3>1 DEF BeingNotified
  <2>2. CASE Queued(u) /\ u \notin ToSet(q)
    BY <1>7, <2>2
  <2>3. CASE BeingNotified(u)
    <3>1. PICK i \in DOMAIN stack : NotifiedBy(stack[i], u)
      BY <2>3 DEF BeingNotified
    <3>2. i \in 1..Len(st) /\ st[i] = stack[i]
      BY <1>4, <1>17
    <3>3. i \in DOMAIN stack' /\ stack'[i] = stack[i]
      BY <1>17, <3>2
    <3>4. QED
      BY <3>1, <3>3 DEF BeingNotified
  <2>4. QED
    BY <1>18, <2>1, <2>2, <2>3
<1>19. Placed'
  BY <1>8, <1>18, PlacedKept
<1>20. QED
  BY <1>14, <1>17, <1>19

(* Only the innermost DoLoop is between a request and the next. *)
LEMMA BetweenKept ==
  ASSUME IInv, NEW t \in Trans, Only(t), Acts(t) \/ ~IsTop("DoLoop"),
         trans'[t].state \in {"add", "create"} => IsTop("DoLoop")' /\ Top' = Running(t),
         trans'[t].state = "add" => active' # None /\ trans'[t].new_entry = active',
         trans'[t].state = "create" => active' = None
  PROVE  BetweenOK'
<1>1. \A u \in Trans \ {t} : trans[u].state \notin {"add", "create"} /\ trans'[u] = trans[u]
  BY DEF IInv, BetweenOK, Acts, IsTop, Only
<1>2. Running(t).trans = t
  BY LoopFrame
<1>3. QED
  BY <1>1, <1>2 DEF BetweenOK
-----------------------------------------------------------------------------
(* What a transaction does with the result it waited for. *)

LEMMA InitEntryStates ==
  ASSUME NEW tr \in TransType
  PROVE  /\ DoInitEntry(tr) \in TransType
         /\ DoInitEntry(tr).state \notin Waits \cup {"attached", "add", "create", "idle"}
<1>1. DoInitEntry(tr) \in TransType /\ DoInitEntry(tr).state \in {"doom", "open"}
  BY DoInitEntryFields
<1>2. QED
  BY <1>1 DEF Waits

LEMMA DoneStates ==
  Done \in TransType /\ Done.state \notin Waits \cup {"attached", "add", "create", "idle"}
<1>1. Done \in TransType /\ Done.state = "done"
  BY DoneFields
<1>2. QED
  BY <1>1 DEF Waits

(* Between two requests with nothing learnt, or done. *)
Plain(tr) == tr \in TransType /\ tr.state \notin Waits \cup {"attached", "add", "create"}

LEMMA PlainStates ==
  /\ Plain(Done)
  /\ \A tr \in TransType : Plain(DoInitEntry(tr))
BY InitEntryStates, DoneStates DEF Plain

LEMMA BackendCompleteStates ==
  ASSUME NEW tr \in TransType, NEW result
  PROVE  Plain(DoGetBackendComplete(tr, result))
BY PlainStates DEF DoGetBackendComplete

(* A transaction that was told about an entry goes on to add itself. *)
Adds(tr, e) == tr \in TransType /\ tr.state = "add" /\ tr.new_entry = e

Creates(tr) == tr \in TransType /\ tr.state = "create"

LEMMA MovedStates ==
  ASSUME NEW tr \in TransType
  PROVE  Adds(Moved(tr, "add"), tr.new_entry) /\ Creates(Moved(tr, "create"))
<1>1. "add" \in States /\ "create" \in States
  BY DEF States
<1>2. QED
  BY <1>1, MovedFields DEF Adds, Creates

LEMMA OpenCompleteStates ==
  ASSUME NEW tr \in TransType, NEW result
  PROVE  LET new == DoOpenEntryComplete(tr, result)
         IN  \/ result # "OK" /\ Plain(new)
             \/ result = "OK" /\ Adds(new, tr.new_entry)
             \/ result = "FAILED" /\ Creates(new)
<1>1. CASE result = "OK"
  BY <1>1, MovedStates DEF DoOpenEntryComplete
<1>2. CASE result = "RACE"
  BY <1>2, PlainStates DEF DoOpenEntryComplete
<1>3. CASE result = "FAILED" /\ tr.mode = "READ_WRITE"
  <2>1. DoOpenEntryComplete(tr, result) = Transaction("create", "WRITE", tr.entry, tr.new_entry)
    BY <1>3 DEF DoOpenEntryComplete
  <2>2. /\ "create" \in States /\ "WRITE" \in Modes \cup {"NONE"}
        /\ tr.entry \in Entries \cup {None} /\ tr.new_entry \in Entries \cup {None}
    BY TransFields DEF States, Modes
  <2>3. Creates(DoOpenEntryComplete(tr, result))
    BY <2>1, <2>2, TransactionFields DEF Creates
  <2>4. QED
    BY <1>3, <2>3
<1>4. CASE result # "OK" /\ result # "RACE" /\ ~(result = "FAILED" /\ tr.mode = "READ_WRITE")
  BY <1>4, PlainStates DEF DoOpenEntryComplete
<1>5. QED
  BY <1>1, <1>2, <1>3, <1>4

LEMMA CreateCompleteStates ==
  ASSUME NEW tr \in TransType, NEW result
  PROVE  LET new == DoCreateEntryComplete(tr, result)
         IN  \/ result # "OK" /\ Plain(new)
             \/ result = "OK" /\ Adds(new, tr.new_entry)
<1>1. CASE result = "OK"
  BY <1>1, MovedStates DEF DoCreateEntryComplete
<1>2. CASE result = "RACE"
  BY <1>2, PlainStates DEF DoCreateEntryComplete
<1>3. CASE result # "OK" /\ result # "RACE"
  BY <1>3, PlainStates DEF DoCreateEntryComplete
<1>4. QED
  BY <1>1, <1>2, <1>3

LEMMA DoomCompleteStates ==
  ASSUME NEW tr \in TransType, NEW result
  PROVE  LET new == DoDoomEntryComplete(tr, result)
         IN  Plain(new) \/ (result # "RACE" /\ Creates(new))
<1>1. CASE result = "RACE"
  BY <1>1, PlainStates DEF DoDoomEntryComplete
<1>2. CASE result # "RACE"
  BY <1>2, MovedStates DEF DoDoomEntryComplete
<1>3. QED
  BY <1>1, <1>2

(* The transaction has the entry it was told about. *)
Attached(new, tr) ==
  /\ new \in TransType /\ new.state = "attached"
  /\ new.entry = tr.new_entry /\ new.mode = tr.mode

LEMMA AddCompleteStates ==
  ASSUME NEW tr \in TransType, NEW result
  PROVE  /\ result = "RACE" => Plain(DoAddToEntryComplete(tr, result))
         /\ result # "RACE" => Attached(DoAddToEntryComplete(tr, result), tr)
<1>1. /\ tr.state \in States /\ tr.mode \in Modes \cup {"NONE"} /\ tr.entry \in Entries \cup {None}
      /\ tr.new_entry \in Entries \cup {None} /\ None \in Entries \cup {None}
      /\ "attached" \in States
  BY TransFields DEF States
<1>2. CASE result = "RACE"
  <2>1. Transaction(tr.state, tr.mode, tr.entry, None) \in TransType
    BY <1>1, TransactionFields
  <2>2. QED
    BY <1>2, <2>1, PlainStates DEF DoAddToEntryComplete
<1>3. CASE result # "RACE"
  <2>1. DoAddToEntryComplete(tr, result) = Transaction("attached", tr.mode, tr.new_entry, None)
    BY <1>3 DEF DoAddToEntryComplete
  <2>2. QED
    BY <1>1, <1>3, <2>1, TransactionFields DEF Attached
<1>4. QED
  BY <1>2, <1>3

LEMMA ToldFields ==
  ASSUME NEW tr \in TransType, NEW e \in Entries \cup {None}
  PROVE  Told(tr, e) \in TransType /\ Told(tr, e).state = tr.state /\ Told(tr, e).new_entry = e
<1>1. /\ tr.state \in States /\ tr.mode \in Modes \cup {"NONE"} /\ tr.entry \in Entries \cup {None}
  BY TransFields
<1>2. PICK s, m, d : s = tr.state /\ m = tr.mode /\ d = tr.entry
  OBVIOUS
<1>3. Told(tr, e) = Transaction(s, m, d, e)
  BY <1>2 DEF Told
<1>4. s \in States /\ m \in Modes \cup {"NONE"} /\ d \in Entries \cup {None}
  BY <1>1, <1>2
<1>5. /\ Transaction(s, m, d, e) \in TransType
      /\ Transaction(s, m, d, e).state = s /\ Transaction(s, m, d, e).new_entry = e
  BY <1>4, TransactionFields
<1>6. QED
  BY <1>2, <1>3, <1>5

(* NotifyTransaction of a transaction that waits for what the item asked. *)
LEMMA NotifiedTrans ==
  ASSUME Types, NEW below, NEW item, NEW result, NEW e \in Entries \cup {None},
         item.trans \in Trans, Asked(item, trans), NotifyTransaction(below, item, result, e)
  PROVE  /\ stack' = Append(below, Running(item.trans)) /\ Only(item.trans)
         /\ LET new == trans'[item.trans]
            IN  \/ (result # "OK" \/ item.op = "DOOM") /\ Plain(new)
                \/ result = "OK" /\ item.op # "DOOM" /\ Adds(new, e)
                \/ result = "FAILED" /\ item.op = "OPEN" /\ Creates(new)
                \/ result # "RACE" /\ item.op = "DOOM" /\ Creates(new)
<1>1. PICK t, tr : t = item.trans /\ tr = trans[item.trans]
  OBVIOUS
<1>2. t \in Trans /\ tr \in TransType /\ t # None /\ tr = trans[t]
  BY <1>1, NullAssumption DEF Types
<1>3. PICK to : to = IF item.op \in {"OPEN", "CREATE"} THEN Told(tr, e) ELSE tr
  OBVIOUS
<1>4. PICK new : new = IOComplete(to, result)
  OBVIOUS
<1>5. Becomes(t, new) /\ stack' = Append(below, Running(t))
  BY <1>1, <1>2, <1>3, <1>4 DEF NotifyTransaction
<1>6. \/ item.op = "OPEN" /\ tr.state = "open_wait"
      \/ item.op = "CREATE" /\ tr.state = "create_wait"
      \/ item.op = "DOOM" /\ tr.state = "doom_wait"
  BY <1>1 DEF Asked
<1>7. /\ to \in TransType /\ to.state = tr.state
      /\ item.op # "DOOM" => to.new_entry = e
  BY <1>2, <1>3, <1>6, ToldFields
<1>8. /\ new \in TransType
      /\ \/ (result # "OK" \/ item.op = "DOOM") /\ Plain(new)
         \/ result = "OK" /\ item.op # "DOOM" /\ Adds(new, e)
         \/ result = "FAILED" /\ item.op = "OPEN" /\ Creates(new)
         \/ result # "RACE" /\ item.op = "DOOM" /\ Creates(new)
  <2>1. CASE item.op = "OPEN" /\ tr.state = "open_wait"
    <3>1. new = DoOpenEntryComplete(to, result)
      BY <1>4, <1>7, <2>1 DEF IOComplete
    <3>2. QED
      BY <1>7, <2>1, <3>1, OpenCompleteStates DEF Plain, Adds, Creates
  <2>2. CASE item.op = "CREATE" /\ tr.state = "create_wait"
    <3>1. new = DoCreateEntryComplete(to, result)
      BY <1>4, <1>7, <2>2 DEF IOComplete
    <3>2. QED
      BY <1>7, <2>2, <3>1, CreateCompleteStates DEF Plain, Adds, Creates
  <2>3. CASE item.op = "DOOM" /\ tr.state = "doom_wait"
    <3>1. new = DoDoomEntryComplete(to, result)
      BY <1>4, <1>7, <2>3 DEF IOComplete
    <3>2. QED
      BY <1>7, <2>3, <3>1, DoomCompleteStates DEF Plain, Adds, Creates
  <2>4. QED
    BY <1>6, <2>1, <2>2, <2>3
<1>9. Only(t) /\ trans'[t] = new
  BY <1>2, <1>5, <1>8, BecomesOnly
<1>10. QED
  BY <1>1, <1>5, <1>8, <1>9

(* NotifyTransaction of a transaction that waits for the backend. *)
LEMMA NotifiedOfBackend ==
  ASSUME Types, NEW below, NEW t \in Trans, NEW result, NEW e,
         trans[t].state = "backend_wait",
         NotifyTransaction(below, WorkItem("BACKEND", t), result, e)
  PROVE  stack' = Append(below, Running(t)) /\ Only(t) /\ Plain(trans'[t])
<1>1. PICK tr, new : tr = trans[t] /\ new = DoGetBackendComplete(tr, result)
  OBVIOUS
<1>2. tr \in TransType /\ t # None /\ new = IOComplete(tr, result)
  BY <1>1, NullAssumption DEF Types, IOComplete
<1>3. Becomes(t, new) /\ stack' = Append(below, Running(t))
  BY <1>1, <1>2 DEF NotifyTransaction, WorkItem
<1>4. Plain(new)
  BY <1>1, <1>2, BackendCompleteStates
<1>5. QED
  BY <1>3, <1>4, BecomesOnly DEF Plain

(* NotifyTransaction of a transaction that waits for the entry. *)
LEMMA NotifiedOfEntry ==
  ASSUME Types, NEW below, NEW t \in Trans, NEW result, NEW e,
         trans[t].state = "add_wait",
         NotifyTransaction(below, WorkItem("ADD", t), result, e)
  PROVE  /\ stack' = Append(below, Running(t)) /\ Only(t)
         /\ result = "RACE" => Plain(trans'[t])
         /\ result # "RACE" => Attached(trans'[t], trans[t])
<1>1. PICK tr, new : tr = trans[t] /\ new = DoAddToEntryComplete(tr, result)
  OBVIOUS
<1>2. tr \in TransType /\ t # None /\ new = IOComplete(tr, result)
  BY <1>1, NullAssumption DEF Types, IOComplete
<1>3. Becomes(t, new) /\ stack' = Append(below, Running(t))
  BY <1>1, <1>2 DEF NotifyTransaction, WorkItem
<1>4. /\ result = "RACE" => Plain(new)
      /\ result # "RACE" => Attached(new, tr)
  BY <1>1, <1>2, AddCompleteStates
<1>4b. new \in TransType
  BY <1>4 DEF Plain, Attached
<1>5. Only(t) /\ trans'[t] = new
  BY <1>3, <1>4b, BecomesOnly
<1>6. QED
  BY <1>1, <1>3, <1>4, <1>5
-----------------------------------------------------------------------------
(* The entries. *)

(* What a step may do with the users of a doomed entry. *)
Joins ==
  \A e \in Entries :
    live[e] /\ doomed[e] /\ doomed'[e] => Joined(e)' \subseteq Joined(e) \cup {None}

LEMMA JoinsKept ==
  ASSUME UNCHANGED <<writer, readers>>,
         \A e \in Entries : ToSet(pending_queue'[e]) \subseteq ToSet(pending_queue[e])
  PROVE  Joins
BY DEF Joins, Joined

(* Steps of a transaction that has no entry, before or after. *)
LEMMA LockKept ==
  ASSUME IInv, NEW t \in Trans, Only(t), UNCHANGED <<writer, readers, will_process>>,
         trans[t].state # "attached", trans'[t].state # "attached"
  PROVE  LockOK'
BY DEF IInv, LockOK, Only

LEMMA LocksKept ==
  ASSUME IInv, NEW t \in Trans, Only(t), UNCHANGED <<live, writer, readers, will_process>>,
         trans[t].state \notin {"attached", "add"}, trans'[t].state # "attached"
  PROVE  Held' /\ LockOK'
<1>1. Held'
  BY DEF IInv, Held, Only
<1>2. LockOK'
  BY DEF IInv, LockOK, Only
<1>3. QED
  BY <1>1, <1>2

LEMMA EntriesKept ==
  ASSUME IInv, NEW t \in Trans, Only(t),
         UNCHANGED <<active, live, doomed, writer, readers, will_process>>,
         \A e \in Entries : live[e] = FALSE => pending_queue'[e] = pending_queue[e],
         trans[t].state \notin {"attached", "add"}, trans'[t].state # "attached"
  PROVE  Freed' /\ Listed' /\ Held' /\ LockOK'
<1>1. Freed' /\ Listed'
  BY DEF IInv, Freed, Listed
<1>2. QED
  BY <1>1, LocksKept

LEMMA PostedKept ==
  ASSUME IInv, UNCHANGED <<tasks, will_process, backend>>
  PROVE  Posted'
BY DEF IInv, Posted

(* A request is added to the PendingOp, or a doom that nobody waits for. *)
LEMMA SubmitOp ==
  ASSUME IInv, NEW o \in {"OPEN", "CREATE", "DOOM"}, NEW x \in Trans, NEW t \in {x, None},
         op' = Submitted(o, t), Only(x), ~InPendingOp(op, x),
         t = x => Asked(WorkItem(o, x), trans'), sync = FALSE, sync' = sync, active' = None
  PROVE  /\ OpOK' /\ op' \in PendingOp
         /\ \A u \in Trans : InPendingOp(op', u) <=> InPendingOp(op, u) \/ u = t
<1>1. PICK item : item = WorkItem(o, t)
  OBVIOUS
<1>2. /\ item \in ItemType /\ item.trans = t /\ x # None
      /\ t # None => Asked(item, trans')
  BY <1>1, NullAssumption DEF WorkItem, ItemType
<1>3. CASE op = None
  <2>1. /\ op' = [writer |-> item, queue |-> <<>>] /\ <<>> \in Seq(ItemType)
        /\ op'.writer = item /\ op'.queue = <<>>
    BY <1>1, <1>3 DEF Submitted
  <2>2. op' \in PendingOp
    BY <1>2, <2>1 DEF PendingOp
  <2>3. op' # None
    BY <2>2, OpFields
  <2>4. ItemsOK(<<>>, trans')
    BY DEF ItemsOK
  <2>5. OpOK'
    BY <1>2, <2>1, <2>4 DEF OpOK
  <2>6. \A u \in Trans : InPendingOp(op', u) <=> u = t
    BY <1>2, <2>1, <2>3 DEF InPendingOp
  <2>7. QED
    BY <1>3, <2>2, <2>5, <2>6 DEF InPendingOp
<1>4. CASE op # None
  <2>1. op \in PendingOp /\ op.queue \in Seq(ItemType) /\ op.writer \in ItemType
        /\ op.writer.trans \in Trans \cup {None}
    BY <1>4, OpFields DEF IInv, Types
  <2>2. PICK w, q, r, us, ts, n :
          /\ w = op.writer /\ q = op.queue /\ r = Append(op.queue, item)
          /\ us = trans' /\ ts = trans /\ n = Len(op.queue)
    OBVIOUS
  <2>3. /\ r \in Seq(ItemType) /\ n \in Nat /\ DOMAIN r = 1..(n + 1) /\ DOMAIN q = 1..n
        /\ (\A i \in 1..n : r[i] = q[i]) /\ r[n + 1] = item
        /\ \A i \in 1..(n + 1) : i \in 1..n \/ i = n + 1
        /\ \A i \in 1..n : i \in 1..(n + 1)
        /\ n + 1 \in 1..(n + 1)
    <3>1. /\ r \in Seq(ItemType) /\ n \in Nat /\ Len(r) = n + 1
          /\ (\A i \in 1..n : r[i] = q[i]) /\ r[n + 1] = item
      BY <1>2, <2>1, <2>2, Push
    <3>2. DOMAIN r = 1..(n + 1) /\ DOMAIN q = 1..n
      BY <2>1, <2>2, <3>1
    <3>3. QED
      BY <3>1, <3>2
  <2>4. /\ op' = [writer |-> w, queue |-> r] /\ op'.writer = w /\ op'.queue = r
    BY <1>1, <1>4, <2>2 DEF Submitted
  <2>5. op' \in PendingOp /\ op' # None
    <3>1. op' \in PendingOp
      BY <2>1, <2>2, <2>3, <2>4 DEF PendingOp
    <3>2. QED
      BY <3>1, OpFields
  <2>6. w.trans # x /\ \A i \in 1..n : q[i].trans # x
    BY <1>4, <2>2, <2>3 DEF InPendingOp
  <2>7. ItemsOK(q, us)
    <3>1. /\ ItemsOK(q, ts) /\ \A u \in Trans \ {x} : us[u] = ts[u]
          /\ q \in Seq(ItemType) /\ \A i \in DOMAIN q : q[i].trans # x
      BY <1>4, <2>1, <2>2, <2>3, <2>6 DEF IInv, OpOK, Only
    <3>2. QED
      BY <3>1, ItemsKept
  <2>8. ItemsOK(r, us)
    BY <1>2, <2>2, <2>3, <2>6, <2>7 DEF ItemsOK
  <2>9. w.trans # None => Asked(w, us) /\ \A i \in 1..(n + 1) : r[i].trans # w.trans
    <3>1. w.trans # None => Asked(w, ts) /\ \A i \in 1..n : q[i].trans # w.trans
      BY <1>4, <2>2, <2>3 DEF IInv, OpOK
    <3>2. w.trans # None => us[w.trans] = ts[w.trans]
      BY <2>1, <2>2, <2>6 DEF Only
    <3>3. QED
      BY <1>2, <2>3, <2>6, <3>1, <3>2 DEF Asked
  <2>10. OpOK'
    BY <2>2, <2>3, <2>4, <2>8, <2>9 DEF OpOK
  <2>11. ASSUME NEW u \in Trans PROVE InPendingOp(op', u) <=> InPendingOp(op, u) \/ u = t
    <3>1. InPendingOp(op, u) <=> w.trans = u \/ \E i \in 1..n : q[i].trans = u
      BY <1>4, <2>2, <2>3 DEF InPendingOp
    <3>2. InPendingOp(op', u) <=> w.trans = u \/ \E i \in 1..(n + 1) : r[i].trans = u
      BY <2>3, <2>4, <2>5 DEF InPendingOp
    <3>3. QED
      BY <1>2, <2>3, <3>1, <3>2
  <2>12. QED
    BY <2>5, <2>10, <2>11
<1>5. QED
  BY <1>3, <1>4

(* A new entry is active, and the transaction that was told adds itself. *)
LEMMA EntryActivated ==
  ASSUME IInv, NEW t \in Trans, Only(t), active = None, ActivateEntry,
         trans[t].state \notin {"attached", "add"}, Adds(trans'[t], active'),
         UNCHANGED <<doomed, lockVars>>
  PROVE  /\ Freed' /\ Listed' /\ Held' /\ LockOK' /\ Joins
         /\ active' \in Entries /\ live' \in [Entries -> BOOLEAN]
<1>1. PICK n : n = NewEntry
  OBVIOUS
<1>2. n \in Entries /\ ~live[n]
  BY <1>1 DEF ActivateEntry, NewEntry
<1>3. /\ active' = n /\ live' = [live EXCEPT ![n] = TRUE] /\ live \in [Entries -> BOOLEAN]
  BY <1>1 DEF ActivateEntry, IInv, Types
<1>4. live[n] = FALSE /\ n # None
  BY <1>2, <1>3, NullAssumption
<1>5. live' \in [Entries -> BOOLEAN] /\ live'[n] = TRUE /\ \A e \in Entries \ {n} : live'[e] = live[e]
  BY <1>2, <1>3
<1>6. Freed'
  BY <1>3, <1>5 DEF IInv, Freed, lockVars
<1>7. Listed'
  <2>1. doomed' = doomed /\ doomed[n] = FALSE
    BY <1>2, <1>4 DEF IInv, Freed
  <2>2. \A e \in Entries \ {n} : live[e] = TRUE => doomed[e] = TRUE
    BY NullAssumption DEF IInv, Listed
  <2>3. QED
    BY <1>2, <1>3, <1>5, <2>1, <2>2 DEF Listed
<1>8. Held'
  <2>1. ASSUME NEW e \in Entries, live'[e] = TRUE
        PROVE  \/ writer[e] # None \/ readers[e] # {} \/ will_process[e] = TRUE
               \/ \E u \in Trans : trans'[u].state = "add" /\ trans'[u].new_entry = e
    <3>1. CASE e = n
      BY <1>3, <3>1 DEF Adds
    <3>2. CASE e # n
      BY <1>5, <2>1, <3>2 DEF IInv, Held, Only
    <3>3. QED
      BY <3>1, <3>2
  <2>2. QED
    BY <2>1 DEF Held, lockVars
<1>9. LockOK'
  BY DEF IInv, LockOK, Only, lockVars, Adds
<1>10. Joins
  BY JoinsKept DEF lockVars
<1>11. QED
  BY <1>2, <1>3, <1>5, <1>6, <1>7, <1>8, <1>9, <1>10

(* The lists and the calls when the acting transaction goes on. *)
LEMMA QuietLists ==
  ASSUME IInv, NEW t \in Trans, Only(t), Acts(t),
         UNCHANGED <<stack, pending_queue, backendVars, op>>,
         trans[t].state \notin Waits, trans'[t].state \notin Waits, StaysUnlisted,
         op # None => active' = None
  PROVE  BackendOK' /\ OpOK' /\ QueuesOK' /\ CallsOK' /\ Placed'
<1>1. /\ ~InPendingOp(op, t) /\ ~InBackendOp(t)
      /\ \A e \in Entries : t \notin ToSet(pending_queue[e])
  BY NotListed
<1>2. BackendOK'
  BY <1>1, BackendKept
<1>3. OpOK'
  BY <1>1, OpKept DEF StaysUnlisted
<1>4. QueuesOK'
  BY <1>1, QueuesKept
<1>5. OthersQueued(t)
  BY DEF OthersQueued, Queued, InBackendOp, InQueue, backendVars
<1>6. QED
  BY <1>2, <1>3, <1>4, <1>5, CallsQuiet

(* A transaction asks the disk and waits. *)
LEMMA AskStep ==
  ASSUME IInv, NEW t \in Trans, NEW o \in {"OPEN", "CREATE", "DOOM"}, NEW w \in Waits,
         IsTop("DoLoop"), Top.trans = t, trans[t].state \in {"open", "create", "doom"},
         \/ o = "OPEN" /\ w = "open_wait"
         \/ o = "CREATE" /\ w = "create_wait"
         \/ o = "DOOM" /\ w = "doom_wait",
         op' = Submitted(o, t), Wait(t, w), active = None, sync = FALSE,
         UNCHANGED <<entryVars, backendVars, sync>>
  PROVE  IInv' /\ Joins
<1>1. /\ trans[t] \in TransType /\ w \in States
  BY DEF IInv, Types, States
<1>2. Moved(trans[t], w) \in TransType /\ Moved(trans[t], w).state = w
  BY <1>1, MovedFields
<1>3. Only(t) /\ trans'[t].state = w /\ stack' = Front(stack)
  BY <1>2, BecomesOnly DEF Wait, IInv
<1>4. trans[t].state \notin Waits /\ trans[t].state \notin {"attached", "add"} /\ w # "attached"
  BY DEF Waits
<1>5. /\ ~InPendingOp(op, t) /\ ~InBackendOp(t)
      /\ \A e \in Entries : t \notin ToSet(pending_queue[e])
  BY <1>4, NotListed
<1>6. Freed' /\ Listed' /\ Held' /\ LockOK' /\ Joins
  BY <1>3, <1>4, EntriesKept, JoinsKept DEF entryVars, lockVars
<1>7. Posted'
  BY PostedKept DEF entryVars, lockVars, backendVars
<1>8. BackendOK'
  BY <1>3, <1>5, BackendKept
<1>9. QueuesOK'
  BY <1>3, <1>5, QueuesKept DEF entryVars, lockVars
<1>10. Asked(WorkItem(o, t), trans')
  <2>1. WorkItem(o, t).op = o /\ WorkItem(o, t).trans = t
    BY DEF WorkItem
  <2>2. QED
    BY <1>3, <2>1 DEF Asked
<1>11. /\ OpOK' /\ op' \in PendingOp
       /\ \A u \in Trans : InPendingOp(op', u) <=> InPendingOp(op, u) \/ u = t
  BY <1>3, <1>5, <1>10, SubmitOp DEF entryVars
<1>12. OthersQueued(t) /\ Queued(t)'
  BY <1>11 DEF OthersQueued, Queued, InBackendOp, InQueue, backendVars, entryVars, lockVars
<1>13. StaysUnlisted
  BY DEF StaysUnlisted, entryVars
<1>14. CallsOK' /\ Placed' /\ stack' \in Seq(Frame)
  BY <1>3, <1>12, <1>13, CallsWait
<1>15. Types'
  BY <1>3, <1>11, <1>14 DEF IInv, Types, Only, entryVars, lockVars, backendVars
<1>16. BetweenOK'
  BY <1>3, BetweenKept DEF Acts, Waits
<1>17. QED
  BY <1>6, <1>7, <1>8, <1>9, <1>11, <1>14, <1>15, <1>16 DEF IInv

(* An entry is doomed: it is no longer found. *)
LEMMA EntryDoomed ==
  ASSUME IInv, doomed' = WithActive, active' = None,
         UNCHANGED <<live, writer, readers, pending_queue, will_process>>
  PROVE  Freed' /\ Listed' /\ doomed' \in [Entries -> BOOLEAN]
<1>1. /\ doomed \in [Entries -> BOOLEAN] /\ active \in Entries \cup {None}
      /\ Listed /\ Freed /\ None \notin Entries
  BY NullAssumption DEF IInv, Types
<1>2. CASE active = None
  <2>1. doomed' = doomed
    BY <1>2 DEF WithActive
  <2>2. QED
    BY <1>1, <1>2, <2>1 DEF Freed, Listed
<1>3. CASE active # None
  <2>1. doomed' = [doomed EXCEPT ![active] = TRUE] /\ active \in Entries
    BY <1>1, <1>3 DEF WithActive
  <2>2. /\ doomed' \in [Entries -> BOOLEAN] /\ doomed'[active] = TRUE
        /\ \A e \in Entries \ {active} : doomed'[e] = doomed[e]
    BY <1>1, <2>1
  <2>3. live[active] = TRUE
    BY <1>1, <1>3 DEF Listed
  <2>4. Freed'
    BY <1>1, <2>2, <2>3 DEF Freed
  <2>5. Listed'
    BY <1>1, <2>1, <2>2 DEF Listed
  <2>6. QED
    BY <2>2, <2>4, <2>5
<1>4. QED
  BY <1>2, <1>3

(* What a transaction between two requests is told. *)
ToldRight(new) ==
  /\ new \in TransType /\ new.state \notin Waits \cup {"attached"}
  /\ new.state = "add" => active' # None /\ new.new_entry = active'
  /\ new.state = "create" => active' = None

LEMMA GoesOn ==
  ASSUME IInv, NEW t \in Trans, NEW new, IsTop("DoLoop"), Top.trans = t,
         Continue(t, new), ToldRight(new),
         UNCHANGED <<op, lockVars, backendVars, sync>>,
         active' \in Entries \cup {None}, live' \in [Entries -> BOOLEAN],
         doomed' \in [Entries -> BOOLEAN], StaysUnlisted, op # None => active' = None,
         Freed', Listed', Held', LockOK'
  PROVE  IInv' /\ Joins
<1>1. Only(t) /\ trans'[t] = new /\ stack' = stack
  BY BecomesOnly DEF Continue, IInv, ToldRight
<1>2. Acts(t) /\ trans[t].state \notin Waits
  BY TopLoop DEF Acts
<1>3. BackendOK' /\ OpOK' /\ QueuesOK' /\ CallsOK' /\ Placed'
  BY <1>1, <1>2, QuietLists DEF ToldRight, lockVars
<1>4. Posted'
  BY PostedKept DEF lockVars, backendVars
<1>5. Top = Running(t) /\ Top' = Top /\ IsTop("DoLoop")'
  BY <1>1, TopLoop DEF Top, IsTop
<1>6. BetweenOK'
  BY <1>1, <1>2, <1>5, BetweenKept DEF ToldRight
<1>7. Types'
  BY <1>1 DEF IInv, Types, Only, lockVars, backendVars
<1>8. Joins
  BY JoinsKept DEF lockVars
<1>9. QED
  BY <1>3, <1>4, <1>6, <1>7, <1>8 DEF IInv

LEMMA RunsTop ==
  ASSUME NEW t, NEW s, Runs(t, s)
  PROVE  IsTop("DoLoop") /\ Top.trans = t /\ trans[t].state = s
BY DEF Runs

(* The backend's answer in the call. *)
LEMMA AnsweredStep ==
  ASSUME IInv, NEW t \in Trans, NEW ok \in BOOLEAN, NEW new, Answered(ok), active = None,
         IsTop("DoLoop"), Top.trans = t, trans[t].state \in {"open", "create"},
         Continue(t, new), UNCHANGED <<op, doomed, lockVars, backendVars, sync>>,
         ok => Adds(new, active'), ~ok => Plain(new) \/ Creates(new)
  PROVE  IInv' /\ Joins
<1>1. sync = TRUE /\ op = None
  BY DEF Answered, IInv, Types, OpOK
<1>2. new \in TransType /\ new.state \notin Waits \cup {"attached"}
  BY DEF Adds, Plain, Creates, Waits
<1>3. Only(t) /\ trans'[t] = new
  BY <1>2, BecomesOnly DEF Continue, IInv
<1>4. CASE ok
  <2>1. /\ Freed' /\ Listed' /\ Held' /\ LockOK'
        /\ active' \in Entries /\ live' \in [Entries -> BOOLEAN]
    BY <1>3, <1>4, EntryActivated DEF Answered
  <2>2. ToldRight(new)
    BY <1>2, <1>4, <2>1, NullAssumption DEF ToldRight, Adds
  <2>3. QED
    BY <1>1, <2>1, <2>2, GoesOn DEF StaysUnlisted, IInv, Types
<1>5. CASE ~ok
  <2>1. UNCHANGED <<active, live>>
    BY <1>5 DEF Answered
  <2>2. Freed' /\ Listed' /\ Held' /\ LockOK'
    BY <1>2, <1>3, <2>1, EntriesKept DEF lockVars
  <2>3. ToldRight(new)
    BY <1>2, <1>5, <2>1 DEF ToldRight, Plain, Creates
  <2>4. QED
    BY <1>1, <2>1, <2>2, <2>3, GoesOn DEF StaysUnlisted, IInv, Types
<1>6. QED
  BY <1>4, <1>5

LEMMA DoOpenEntryStep ==
  ASSUME IInv, NEW t \in Trans, DoOpenEntry(t)
  PROVE  IInv' /\ Joins
<1>1. IsTop("DoLoop") /\ Top.trans = t /\ trans[t].state = "open" /\ trans[t] \in TransType
  BY RunsTop DEF DoOpenEntry, IInv, Types
<1>2. active \in Entries \cup {None} /\ sync \in BOOLEAN
  BY DEF IInv, Types
<1>3. CASE active # None /\ Continue(t, DoOpenEntryComplete(Told(trans[t], active), "OK"))
           /\ UNCHANGED <<active, live, op>>
  <2>1. PICK new : new = DoOpenEntryComplete(Told(trans[t], active), "OK")
    OBVIOUS
  <2>2. Adds(new, active)
    BY <1>1, <1>2, <2>1, ToldFields, OpenCompleteStates
  <2>3. Only(t) /\ trans'[t] = new /\ Continue(t, new)
    BY <1>3, <2>1, <2>2, BecomesOnly DEF Continue, IInv, Adds
  <2>4. Freed' /\ Listed' /\ Held' /\ LockOK'
    BY <1>1, <1>3, <2>2, <2>3, EntriesKept DEF DoOpenEntry, lockVars, Adds
  <2>5. ToldRight(new)
    BY <1>3, <2>2 DEF ToldRight, Adds, Waits
  <2>6. op = None
    BY <1>3 DEF IInv, OpOK
  <2>7. QED
    BY <1>1, <1>3, <2>3, <2>4, <2>5, <2>6, GoesOn DEF DoOpenEntry, StaysUnlisted, IInv, Types
<1>4. CASE active = None /\ (\E ok \in BOOLEAN :
                /\ Answered(ok)
                /\ Continue(t, DoOpenEntryComplete(Told(trans[t], active'), Result(ok))))
           /\ UNCHANGED op
  <2>1. PICK ok \in BOOLEAN :
          /\ Answered(ok)
          /\ Continue(t, DoOpenEntryComplete(Told(trans[t], active'), Result(ok)))
    BY <1>4
  <2>2. active' \in Entries \cup {None}
    BY <1>2, <2>1 DEF Answered, ActivateEntry, NewEntry
  <2>3. PICK new, to : new = DoOpenEntryComplete(to, Result(ok)) /\ to = Told(trans[t], active')
    OBVIOUS
  <2>4. to \in TransType /\ to.new_entry = active'
    BY <1>1, <2>2, <2>3, ToldFields
  <2>5. (ok => Adds(new, active')) /\ (~ok => Plain(new) \/ Creates(new))
    BY <2>3, <2>4, OpenCompleteStates DEF Result
  <2>6. QED
    BY <1>1, <1>4, <2>1, <2>3, <2>5, AnsweredStep DEF DoOpenEntry
<1>5. CASE active = None /\ ~sync /\ op' = Submitted("OPEN", t) /\ Wait(t, "open_wait")
           /\ UNCHANGED <<active, live>>
  <2>1. sync = FALSE /\ "open_wait" \in Waits
    BY <1>2, <1>5 DEF Waits
  <2>2. UNCHANGED <<entryVars, backendVars, sync>>
    BY <1>5 DEF DoOpenEntry, entryVars
  <2>3. QED
    BY <1>1, <1>5, <2>1, <2>2, AskStep
<1>6. QED
  BY <1>3, <1>4, <1>5 DEF DoOpenEntry

LEMMA DoCreateEntryStep ==
  ASSUME IInv, NEW t \in Trans, DoCreateEntry(t)
  PROVE  IInv' /\ Joins
<1>1. IsTop("DoLoop") /\ Top.trans = t /\ trans[t].state = "create" /\ trans[t] \in TransType
  BY RunsTop DEF DoCreateEntry, IInv, Types
<1>2. active = None /\ sync \in BOOLEAN
  BY <1>1 DEF IInv, Types, BetweenOK
<1>3. CASE (\E ok \in BOOLEAN :
                /\ Answered(ok)
                /\ Continue(t, DoCreateEntryComplete(Told(trans[t], active'), Result(ok))))
           /\ UNCHANGED op
  <2>1. PICK ok \in BOOLEAN :
          /\ Answered(ok)
          /\ Continue(t, DoCreateEntryComplete(Told(trans[t], active'), Result(ok)))
    BY <1>3
  <2>2. active' \in Entries \cup {None}
    BY <1>2, <2>1 DEF Answered, ActivateEntry, NewEntry
  <2>3. PICK new, to : new = DoCreateEntryComplete(to, Result(ok)) /\ to = Told(trans[t], active')
    OBVIOUS
  <2>4. to \in TransType /\ to.new_entry = active'
    BY <1>1, <2>2, <2>3, ToldFields
  <2>5. (ok => Adds(new, active')) /\ (~ok => Plain(new) \/ Creates(new))
    BY <2>3, <2>4, CreateCompleteStates DEF Result
  <2>6. QED
    BY <1>1, <1>2, <1>3, <2>1, <2>3, <2>5, AnsweredStep DEF DoCreateEntry
<1>4. CASE ~sync /\ op' = Submitted("CREATE", t) /\ Wait(t, "create_wait")
           /\ UNCHANGED <<active, live>>
  <2>1. sync = FALSE /\ "create_wait" \in Waits
    BY <1>2, <1>4 DEF Waits
  <2>2. UNCHANGED <<entryVars, backendVars, sync>>
    BY <1>4 DEF DoCreateEntry, entryVars
  <2>3. QED
    BY <1>1, <1>2, <1>4, <2>1, <2>2, AskStep
<1>5. QED
  BY <1>3, <1>4 DEF DoCreateEntry

LEMMA DoDoomEntryStep ==
  ASSUME IInv, NEW t \in Trans, DoDoomEntry(t)
  PROVE  IInv' /\ Joins
<1>1. IsTop("DoLoop") /\ Top.trans = t /\ trans[t].state = "doom" /\ trans[t] \in TransType
  BY RunsTop DEF DoDoomEntry, IInv, Types
<1>2. sync \in BOOLEAN /\ active \in Entries \cup {None}
  BY DEF IInv, Types
<1>3. CASE active = None /\ ~sync /\ op' = Submitted("DOOM", t) /\ Wait(t, "doom_wait")
           /\ UNCHANGED <<active, doomed>>
  <2>1. sync = FALSE /\ "doom_wait" \in Waits
    BY <1>2, <1>3 DEF Waits
  <2>2. UNCHANGED <<entryVars, backendVars, sync>>
    BY <1>3 DEF DoDoomEntry, entryVars
  <2>3. QED
    BY <1>1, <1>3, <2>1, <2>2, AskStep
<1>4. CASE /\ doomed' = WithActive /\ active' = None
           /\ Continue(t, DoDoomEntryComplete(trans[t], "OK")) /\ UNCHANGED op
  <2>1. PICK new : new = DoDoomEntryComplete(trans[t], "OK")
    OBVIOUS
  <2>2. Plain(new) \/ Creates(new)
    BY <1>1, <2>1, DoomCompleteStates
  <2>3. Only(t) /\ trans'[t] = new /\ Continue(t, new)
    BY <1>4, <2>1, <2>2, BecomesOnly DEF Continue, IInv, Plain, Creates
  <2>4. Freed' /\ Listed' /\ doomed' \in [Entries -> BOOLEAN]
    BY <1>4, EntryDoomed DEF DoDoomEntry, lockVars
  <2>5. Held' /\ LockOK'
    BY <1>1, <2>2, <2>3, LocksKept DEF DoDoomEntry, lockVars, Plain, Creates
  <2>6. ToldRight(new)
    BY <1>4, <2>2 DEF ToldRight, Plain, Creates, Waits
  <2>7. QED
    BY <1>1, <1>4, <2>3, <2>4, <2>5, <2>6, GoesOn DEF DoDoomEntry, StaysUnlisted, IInv, Types
<1>5. CASE active = None /\ UNCHANGED <<active, doomed>>
  BY <1>1, <1>3, <1>4, <1>5 DEF DoDoomEntry, WithActive
<1>6. QED
  BY <1>3, <1>4, <1>5 DEF DoDoomEntry, DoomActive

LEMMA ReturnStep ==
  ASSUME IInv, NEW t \in Trans, Return(t)
  PROVE  IInv' /\ Joins
<1>1. /\ IsTop("DoLoop") /\ Top.trans = t /\ trans[t].state \in {"attached", "done"}
      /\ stack' = Front(stack) /\ UNCHANGED <<entryVars, op, backendVars, trans, sync>>
  BY RunsTop DEF Return
<1>2. UNCHANGED <<active, live, doomed, writer, readers, pending_queue, will_process, tasks,
                  op, backend, backend_writer, backend_queue, trans, sync>>
  BY <1>1 DEF entryVars, lockVars, backendVars
<1>3. stack # <<>> /\ \A u : ~NotifiedBy(Top, u)
  <2>1. stack # <<>> /\ Top = Running(t)
    BY <1>1, TopLoop
  <2>2. QED
    BY <2>1, LoopFrame
<1>4. Only(t)
  BY <1>2 DEF Only, IInv, Types
<1>5. CallsOK' /\ Placed' /\ stack' \in Seq(Frame)
  BY <1>1, <1>2, <1>3, <1>4, CallsPop
<1>6. Freed' /\ Listed' /\ Held' /\ LockOK' /\ Posted'
  BY <1>2 DEF IInv, Freed, Listed, Held, LockOK, Posted
<1>7. BackendOK' /\ OpOK' /\ QueuesOK'
  BY <1>2 DEF IInv, BackendOK, InBackendOp, OpOK, QueuesOK
<1>8. BetweenOK'
  BY <1>1, <1>2, <1>4, BetweenKept DEF Acts
<1>9. Types'
  BY <1>2, <1>5 DEF IInv, Types
<1>10. QED
  BY <1>2, <1>5, <1>6, <1>7, <1>8, <1>9, JoinsKept DEF IInv
-----------------------------------------------------------------------------
(* The backend. *)

LEMMA BackendFields ==
  ASSUME NEW a \in BOOLEAN, NEW b \in BOOLEAN, NEW c \in BOOLEAN, NEW d \in BOOLEAN
  PROVE  /\ Backend(a, b, c, d) \in [ready : BOOLEAN, factory : BOOLEAN, building : BOOLEAN,
                                     creating : BOOLEAN]
         /\ Backend(a, b, c, d).ready = a /\ Backend(a, b, c, d).factory = b
         /\ Backend(a, b, c, d).building = c /\ Backend(a, b, c, d).creating = d
BY DEF Backend

(* Nobody waits for a backend that nobody has asked for. *)
LEMMA CreatedBackend ==
  ASSUME IInv, NEW b \in CreateBackend
  PROVE  /\ b \in [ready : BOOLEAN, factory : BOOLEAN, building : BOOLEAN, creating : BOOLEAN]
         /\ b = backend \/ (backend.factory = TRUE /\ backend.building = FALSE)
         /\ b.creating = TRUE => b.factory = TRUE
         /\ b.building = TRUE => b.creating = TRUE \/ b.factory = FALSE
<1>1. /\ backend \in [ready : BOOLEAN, factory : BOOLEAN, building : BOOLEAN, creating : BOOLEAN]
      /\ backend.creating = TRUE => backend.factory = TRUE
      /\ backend.building = TRUE => backend.creating = TRUE \/ backend.factory = FALSE
  BY DEF IInv, Types, Posted, BackendOK
<1>2. CASE backend.ready \/ ~backend.factory \/ backend.creating
  <2>1. b = backend
    BY <1>2 DEF CreateBackend
  <2>2. QED
    BY <1>1, <2>1
<1>3. CASE ~(backend.ready \/ ~backend.factory \/ backend.creating)
  <2>1. backend.factory = TRUE /\ backend.building = FALSE
    BY <1>1, <1>3
  <2>2. CASE sync
    <3>1. PICK ok \in BOOLEAN : b = Backend(ok, FALSE, FALSE, FALSE)
      BY <1>3, <2>2 DEF CreateBackend
    <3>2. QED
      BY <2>1, <3>1, BackendFields
  <2>3. CASE ~sync
    <3>1. b = Backend(FALSE, TRUE, TRUE, TRUE)
      BY <1>3, <2>3 DEF CreateBackend
    <3>2. QED
      BY <2>1, <3>1, BackendFields
  <2>4. QED
    BY <2>2, <2>3
<1>4. QED
  BY <1>2, <1>3

LEMMA StartStep ==
  ASSUME IInv, NEW t \in Trans, Start(t)
  PROVE  IInv' /\ Joins
<1>1. PICK mode \in Modes, b \in CreateBackend :
        LET tr == Transaction("backend_wait", mode, None, None)
        IN /\ backend' = b
           /\ IF b.ready \/ ~b.building
              THEN /\ Becomes(t, DoGetBackendComplete(tr, Result(b.ready)))
                   /\ stack' = <<Running(t)>>
                   /\ UNCHANGED backend_queue
              ELSE /\ backend_queue' = Append(backend_queue, t)
                   /\ Becomes(t, tr)
                   /\ UNCHANGED stack
  BY DEF Start
<1>2. /\ stack = <<>> /\ trans[t].state = "idle"
      /\ UNCHANGED <<entryVars, op, backend_writer, sync>>
  BY DEF Start
<1>3. UNCHANGED <<active, live, doomed, writer, readers, pending_queue, will_process, tasks,
                  op, backend_writer, sync>>
  BY <1>2 DEF entryVars, lockVars
<1>4. PICK tr : tr = Transaction("backend_wait", mode, None, None)
  OBVIOUS
<1>5. tr \in TransType /\ tr.state = "backend_wait"
  <2>1. "backend_wait" \in States /\ mode \in Modes \cup {"NONE"} /\ None \in Entries \cup {None}
    BY DEF States, Waits
  <2>2. QED
    BY <1>4, <2>1, TransactionFields
<1>6. /\ b \in [ready : BOOLEAN, factory : BOOLEAN, building : BOOLEAN, creating : BOOLEAN]
      /\ b = backend \/ (backend.factory = TRUE /\ backend.building = FALSE)
      /\ b.creating = TRUE => b.factory = TRUE
      /\ b.building = TRUE => b.creating = TRUE \/ b.factory = FALSE
      /\ backend' = b
  BY <1>1, CreatedBackend
<1>7. trans[t].state \notin Waits /\ trans[t].state \notin {"attached", "add"}
  BY <1>2 DEF Waits
<1>8. /\ ~InPendingOp(op, t) /\ ~InBackendOp(t)
      /\ \A e \in Entries : t \notin ToSet(pending_queue[e])
  BY <1>7, NotListed
<1>9. Posted'
  BY <1>3, <1>6 DEF IInv, Posted
<1>10. \A u \in Trans : InBackendOp(u) => trans[u].state = "backend_wait" /\ backend'.building = TRUE
  BY <1>6 DEF IInv, BackendOK
<1>11. CASE b.ready \/ ~b.building
  <2>1. PICK new : new = DoGetBackendComplete(tr, Result(b.ready))
    OBVIOUS
  <2>2. Plain(new)
    BY <1>5, <2>1, BackendCompleteStates
  <2>3. Becomes(t, new) /\ stack' = <<Running(t)>> /\ UNCHANGED backend_queue
    BY <1>1, <1>4, <1>11, <2>1
  <2>4. Only(t) /\ trans'[t] = new
    BY <2>2, <2>3, BecomesOnly DEF Plain, IInv
  <2>5. new.state \notin Waits /\ new.state \notin {"attached", "add", "create"}
    BY <2>2 DEF Plain
  <2>6. BackendOK'
    BY <1>3, <1>6, <1>8, <1>10, <2>3, <2>4 DEF IInv, BackendOK, InBackendOp, Only
  <2>7. \A u \in Trans : Queued(u)' <=> Queued(u)
    BY <1>3, <2>3 DEF Queued, InBackendOp, InQueue
  <2>8. CallsOK' /\ Placed' /\ stack' \in Seq(Frame)
    BY <1>2, <2>3, <2>4, <2>5, <2>7, CallsStart
  <2>9. Freed' /\ Listed' /\ Held' /\ LockOK'
    BY <1>3, <1>7, <2>4, <2>5, EntriesKept
  <2>10. OpOK'
    BY <1>3, <1>8, <2>4, OpKept DEF IInv, OpOK
  <2>11. QueuesOK'
    BY <1>3, <1>8, <2>4, QueuesKept
  <2>12. BetweenOK'
    BY <1>2, <2>4, <2>5, BetweenKept DEF Acts
  <2>13. Types'
    BY <1>3, <1>6, <2>3, <2>4, <2>8 DEF IInv, Types, Only
  <2>14. QED
    BY <1>3, <1>9, <2>6, <2>8, <2>9, <2>10, <2>11, <2>12, <2>13, JoinsKept DEF IInv
<1>12. CASE ~(b.ready \/ ~b.building)
  <2>1. Becomes(t, tr) /\ stack' = stack /\ backend_queue' = Append(backend_queue, t)
    BY <1>1, <1>4, <1>12
  <2>2. Only(t) /\ trans'[t] = tr
    BY <1>5, <2>1, BecomesOnly DEF IInv
  <2>3. b.building = TRUE /\ backend_queue \in Seq(Trans)
    BY <1>6, <1>12 DEF IInv, Types
  <2>4. /\ backend_queue' \in Seq(Trans) /\ ToSet(backend_queue') = ToSet(backend_queue) \cup {t}
        /\ NoDup(backend_queue) /\ t \notin ToSet(backend_queue) => NoDup(backend_queue')
    BY <2>1, <2>3, AppendList
  <2>5. backend_writer # t /\ t \notin ToSet(backend_queue)
    BY <1>8 DEF InBackendOp
  <2>6. \A u \in Trans : InBackendOp(u)' <=> InBackendOp(u) \/ u = t
    BY <1>3, <2>4 DEF InBackendOp
  <2>7. BackendOK'
    <3>1. NoDup(backend_queue') /\ backend_writer' \notin ToSet(backend_queue')
      BY <1>3, <2>4, <2>5 DEF IInv, BackendOK
    <3>2. \A u \in Trans : InBackendOp(u)' => trans'[u].state = "backend_wait" /\ backend'.building = TRUE
      BY <1>5, <1>6, <1>10, <2>2, <2>3, <2>6 DEF Only
    <3>3. QED
      BY <1>6, <3>1, <3>2 DEF BackendOK
  <2>8. \A u \in Trans : Queued(u)' <=> Queued(u) \/ u = t
    BY <1>3, <2>6 DEF Queued, InQueue
  <2>9. CallsOK' /\ Placed'
    BY <1>2, <2>1, <2>2, <2>8, CallsIdle
  <2>10. Freed' /\ Listed' /\ Held' /\ LockOK'
    BY <1>3, <1>5, <1>7, <2>2, EntriesKept
  <2>11. OpOK'
    BY <1>3, <1>8, <2>2, OpKept DEF IInv, OpOK
  <2>12. QueuesOK'
    BY <1>3, <1>8, <2>2, QueuesKept
  <2>13. BetweenOK'
    BY <1>2, <1>5, <2>2, BetweenKept DEF Acts
  <2>14. Types'
    BY <1>3, <1>6, <2>1, <2>2, <2>4 DEF IInv, Types, Only
  <2>15. QED
    BY <1>3, <1>9, <2>7, <2>9, <2>10, <2>11, <2>12, <2>13, <2>14, JoinsKept DEF IInv
<1>13. QED
  BY <1>11, <1>12

(* OnBackendCreated, with `left' the tasks that are left. *)
LEMMA NotifyBackendStep ==
  ASSUME IInv, NEW ok \in BOOLEAN, NEW left \in Seq(Entries \cup {BackendTask}), stack = <<>>,
         NoDup(left), BackendTask \notin ToSet(left),
         \A e \in Entries : e \in ToSet(left) <=> e \in ToSet(tasks),
         NotifyBackend(ok, left),
         UNCHANGED <<active, live, doomed, writer, readers, pending_queue, will_process, op, sync>>
  PROVE  IInv' /\ Joins
<1>1. PICK w, q, n : w = backend_writer /\ q = backend_queue /\ n = (backend_queue # <<>>)
  OBVIOUS
<1>2. /\ w \in Trans \cup {None} /\ q \in Seq(Trans) /\ NoDup(q) /\ w \notin ToSet(q)
      /\ \A u \in Trans : u = w \/ u \in ToSet(q) => trans[u].state = "backend_wait"
  BY <1>1 DEF IInv, Types, BackendOK, InBackendOp
<1>3. /\ backend' \in [ready : BOOLEAN, factory : BOOLEAN, building : BOOLEAN, creating : BOOLEAN]
      /\ backend'.factory = FALSE /\ backend'.creating = FALSE
      /\ q # <<>> => backend'.building = TRUE
  <2>1. PICK c \in BOOLEAN : backend' = Backend(ok, FALSE, c, FALSE) /\ (q # <<>> => c = TRUE)
    BY <1>1 DEF NotifyBackend
  <2>2. /\ Backend(ok, FALSE, c, FALSE) \in [ready : BOOLEAN, factory : BOOLEAN,
                                             building : BOOLEAN, creating : BOOLEAN]
        /\ Backend(ok, FALSE, c, FALSE).factory = FALSE
        /\ Backend(ok, FALSE, c, FALSE).building = c
        /\ Backend(ok, FALSE, c, FALSE).creating = FALSE
    BY DEF Backend
  <2>3. QED
    BY <2>1, <2>2
<1>4. /\ backend_writer' \in Trans \cup {None} /\ backend_queue' \in Seq(Trans)
      /\ NoDup(backend_queue') /\ backend_writer' \notin ToSet(backend_queue')
      /\ \A u \in Trans : u = backend_writer' \/ u \in ToSet(backend_queue') <=> u \in ToSet(q)
  <2>1. CASE q = <<>>
    <3>1. backend_writer' = None /\ backend_queue' = <<>>
      BY <1>1, <2>1 DEF NotifyBackend
    <3>2. QED
      BY <2>1, <3>1, EmptyList, NullAssumption
  <2>2. CASE q # <<>>
    <3>1. backend_writer' = Head(q) /\ backend_queue' = Tail(q)
      BY <1>1, <2>2 DEF NotifyBackend
    <3>2. /\ Head(q) \in ToSet(q) /\ Head(q) \in Trans /\ Tail(q) \in Seq(Trans)
          /\ NoDup(Tail(q)) /\ ToSet(Tail(q)) = ToSet(q) \ {Head(q)}
      BY <1>2, <2>2, TailList
    <3>3. QED
      BY <3>1, <3>2
  <2>3. QED
    BY <2>1, <2>2
<1>5. tasks' \in Seq(Entries \cup {BackendTask}) /\ Posted'
  <2>1. tasks' = left \/ tasks' = Append(left, BackendTask)
    BY DEF NotifyBackend
  <2>2. /\ Append(left, BackendTask) \in Seq(Entries \cup {BackendTask})
        /\ ToSet(Append(left, BackendTask)) = ToSet(left) \cup {BackendTask}
        /\ NoDup(Append(left, BackendTask))
    BY AppendList
  <2>3. BackendTask \notin Entries
    BY NullAssumption
  <2>4. tasks' \in Seq(Entries \cup {BackendTask}) /\ NoDup(tasks')
    BY <2>1, <2>2
  <2>5. \A e \in Entries : e \in ToSet(tasks') <=> e \in ToSet(tasks)
    BY <2>1, <2>2, <2>3
  <2>6. QED
    BY <1>3, <2>4, <2>5 DEF IInv, Posted
<1>6. \A u \in Trans : InBackendOp(u)' <=> u \in ToSet(q)
  BY <1>4 DEF InBackendOp
<1>7. \A u \in Trans : u # w => (Queued(u)' <=> Queued(u))
  BY <1>1, <1>6 DEF Queued, InQueue, InBackendOp
<1>8. ToSet(q) # {} => q # <<>>
  BY <1>2, NothingInList
<1>9. NotifyTransaction(<<>>, WorkItem("BACKEND", w), Result(ok), None)
  BY <1>1 DEF NotifyBackend
<1>10. CASE w = None
  <2>1. UNCHANGED <<trans, stack>>
    BY <1>9, <1>10 DEF NotifyTransaction, WorkItem
  <2>2. BackendOK'
    BY <1>2, <1>3, <1>4, <1>6, <1>8, <2>1 DEF BackendOK
  <2>3. CallsOK'
    BY <2>1, StackEmpty DEF CallsOK
  <2>4. Placed'
    BY <1>7, <1>10, <2>1, NullAssumption DEF IInv, Placed, Waiting, BeingNotified
  <2>5. Freed' /\ Listed' /\ Held' /\ LockOK'
    BY <2>1 DEF IInv, Freed, Listed, Held, LockOK
  <2>6. OpOK' /\ QueuesOK' /\ BetweenOK'
    BY <2>1 DEF IInv, OpOK, QueuesOK, BetweenOK, IsTop, Top
  <2>7. Types'
    BY <1>3, <1>4, <1>5, <2>1 DEF IInv, Types
  <2>8. QED
    BY <1>5, <2>2, <2>3, <2>4, <2>5, <2>6, <2>7, JoinsKept DEF IInv
<1>11. CASE w # None
  <2>1. w \in Trans /\ trans[w].state = "backend_wait"
    BY <1>2, <1>11
  <2>2. stack' = Append(<<>>, Running(w)) /\ Only(w) /\ Plain(trans'[w])
    BY <1>9, <2>1, NotifiedOfBackend DEF IInv
  <2>3. stack' = <<Running(w)>>
    BY <2>2
  <2>4. trans'[w].state \notin Waits /\ trans'[w].state \notin {"attached", "add", "create"}
    BY <2>2 DEF Plain
  <2>5. BackendOK'
    <3>1. \A u \in Trans : InBackendOp(u)' => trans'[u].state = "backend_wait" /\ backend'.building = TRUE
      BY <1>2, <1>3, <1>6, <1>8, <2>2 DEF Only
    <3>2. QED
      BY <1>3, <1>4, <3>1 DEF BackendOK
  <2>6. CallsOK' /\ Placed' /\ stack' \in Seq(Frame)
    BY <1>7, <2>1, <2>2, <2>3, <2>4, CallsStart
  <2>7. Freed' /\ Listed' /\ Held' /\ LockOK'
    BY <2>1, <2>2, <2>4, EntriesKept
  <2>8. ~InPendingOp(op, w) /\ \A e \in Entries : w \notin ToSet(pending_queue[e])
    <3>1. w # None
      BY <1>11
    <3>2. ~InPendingOp(op, w)
      BY <2>1, <3>1 DEF IInv, OpOK, ItemsOK, Asked, InPendingOp
    <3>3. \A e \in Entries : w \notin ToSet(pending_queue[e])
      BY <2>1 DEF IInv, QueuesOK
    <3>4. QED
      BY <3>2, <3>3
  <2>9. OpOK'
    BY <2>1, <2>2, <2>8, OpKept DEF IInv, OpOK
  <2>10. QueuesOK'
    BY <2>1, <2>2, <2>8, QueuesKept
  <2>11. BetweenOK'
    BY <2>1, <2>2, <2>4, BetweenKept DEF Acts
  <2>12. Types'
    BY <1>3, <1>4, <1>5, <2>2, <2>6 DEF IInv, Types, Only
  <2>13. QED
    BY <1>5, <2>5, <2>6, <2>7, <2>9, <2>10, <2>11, <2>12, JoinsKept DEF IInv
<1>12. QED
  BY <1>10, <1>11

LEMMA BackendCreatedStep ==
  ASSUME IInv, BackendCreated
  PROVE  IInv' /\ Joins
<1>1. tasks \in Seq(Entries \cup {BackendTask}) /\ NoDup(tasks) /\ BackendTask \notin ToSet(tasks)
  <2>1. backend.creating = TRUE
    BY DEF BackendCreated, IInv, Types
  <2>2. QED
    BY <2>1 DEF IInv, Types, Posted
<1>2. QED
  BY <1>1, NotifyBackendStep DEF BackendCreated

LEMMA OnBackendCreatedStep ==
  ASSUME IInv, OnBackendCreated
  PROVE  IInv' /\ Joins
<1>1. tasks \in Seq(Entries \cup {BackendTask}) /\ NoDup(tasks) /\ tasks # <<>>
      /\ Head(tasks) = BackendTask
  BY DEF OnBackendCreated, IInv, Types, Posted
<1>2. PICK left : left = Tail(tasks)
  OBVIOUS
<1>3. /\ left \in Seq(Entries \cup {BackendTask}) /\ NoDup(left)
      /\ ToSet(left) = ToSet(tasks) \ {BackendTask}
  BY <1>1, <1>2, TailList
<1>4. BackendTask \notin Entries /\ backend.ready \in BOOLEAN
  BY NullAssumption DEF IInv, Types
<1>5. \A e \in Entries : e \in ToSet(left) <=> e \in ToSet(tasks)
  BY <1>3, <1>4
<1>6. QED
  BY <1>2, <1>3, <1>4, <1>5, NotifyBackendStep DEF OnBackendCreated
-----------------------------------------------------------------------------
(* The loops that notify. *)

(* Whoever waits to be notified has no entry. *)
LEMMA WaitsNotAttached ==
  \A s \in Waits : s \notin {"attached", "add", "create"}
BY DEF Waits

LEMMA NotifiedStep ==
  ASSUME IInv, NEW t \in Trans, NEW f, TakenOff(f, t), NotifiedBy(Top, t), Only(t),
         ToldRight(trans'[t]), stack' = Append(Replaced(f), Running(t)),
         UNCHANGED <<entryVars, op, backendVars, sync>>
  PROVE  IInv' /\ Joins
<1>1. UNCHANGED <<active, live, doomed, writer, readers, pending_queue, will_process, tasks,
                  op, backend, backend_writer, backend_queue, sync>>
  BY DEF entryVars, lockVars, backendVars
<1>2. trans'[t].state \notin Waits /\ trans'[t].state # "attached"
  BY DEF ToldRight
<1>3. CallsOK' /\ Placed' /\ stack' \in Seq(Frame) /\ ~Queued(t)
  BY <1>1, <1>2, CallsNotify
<1>4. stack # <<>> /\ Top.kind # "DoLoop" /\ Len(stack) \in DOMAIN stack /\ Top = stack[Len(stack)]
  BY TopFrame DEF TakenOff, IInv
<1>5. trans[t].state \in Waits
  <2>1. CASE trans[t].state \notin Waits
    BY <1>4, <2>1, NotListed
  <2>2. QED
    BY <2>1
<1>6. trans[t].state \notin {"attached", "add"}
  BY <1>5, WaitsNotAttached
<1>7. Freed' /\ Listed' /\ Held' /\ LockOK'
  BY <1>1, <1>2, <1>6, EntriesKept
<1>8. /\ ~InPendingOp(op, t) /\ ~InBackendOp(t)
      /\ \A e \in Entries : t \notin ToSet(pending_queue[e])
  BY <1>3, Unlisted
<1>9. BackendOK' /\ QueuesOK'
  BY <1>1, <1>8, BackendKept, QueuesKept DEF backendVars
<1>10. OpOK'
  BY <1>1, <1>8, OpKept DEF IInv, OpOK
<1>11. IsTop("DoLoop")' /\ Top' = Running(t)
  <2>1. Replaced(f) \in Seq(Frame) /\ Running(t) \in Frame /\ Running(t).kind = "DoLoop"
    BY CallsTakenOff, LoopFrame
  <2>2. stack' # <<>> /\ Last(stack') = Running(t)
    BY <2>1, Pushed
  <2>3. QED
    BY <2>1, <2>2 DEF IsTop, Top
<1>12. BetweenOK'
  BY <1>4, <1>11, BetweenKept DEF ToldRight, IsTop
<1>13. Posted' /\ Joins
  BY <1>1, PostedKept, JoinsKept
<1>14. Types'
  BY <1>1, <1>3 DEF IInv, Types, Only
<1>15. QED
  BY <1>3, <1>7, <1>9, <1>10, <1>12, <1>13, <1>14 DEF IInv

(* Steps that change nothing but the calls. *)
LEMMA CallsOnly ==
  ASSUME IInv, CallsOK', Placed', stack' \in Seq(Frame), BetweenOK',
         UNCHANGED <<entryVars, op, backendVars, trans, sync>>
  PROVE  IInv' /\ Joins
<1>1. UNCHANGED <<active, live, doomed, writer, readers, pending_queue, will_process, tasks,
                  op, backend, backend_writer, backend_queue, trans, sync>>
  BY DEF entryVars, lockVars, backendVars
<1>2. Freed' /\ Listed' /\ Held' /\ LockOK' /\ Posted'
  BY <1>1 DEF IInv, Freed, Listed, Held, LockOK, Posted
<1>3. BackendOK' /\ OpOK' /\ QueuesOK'
  BY <1>1 DEF IInv, BackendOK, InBackendOp, OpOK, QueuesOK
<1>4. Types'
  BY <1>1 DEF IInv, Types
<1>5. QED
  BY <1>1, <1>2, <1>3, <1>4, JoinsKept DEF IInv

(* No transaction is between two requests while a loop of the cache runs. *)
LEMMA NobodyBetween ==
  ASSUME IInv, ~IsTop("DoLoop"), UNCHANGED trans
  PROVE  BetweenOK'
BY DEF IInv, BetweenOK

(* The list of a loop without its head. *)
LEMMA ItemsTail ==
  ASSUME NEW items \in Seq(ItemType), items # <<>>, NEW ts, ItemsOK(items, ts)
  PROVE  /\ Head(items) \in ItemType /\ Tail(items) \in Seq(ItemType)
         /\ ItemsOK(Tail(items), ts)
         /\ Head(items).trans # None => Asked(Head(items), ts)
         /\ \E i \in DOMAIN items : items[i] = Head(items)
         /\ \A u : u # None =>
              ((\E i \in DOMAIN Tail(items) : Tail(items)[i].trans = u)
                 <=> (\E i \in DOMAIN items : items[i].trans = u) /\ u # Head(items).trans)
<1>1. PICK h, r, n : h = Head(items) /\ r = Tail(items) /\ n = Len(items)
  OBVIOUS
<1>2. /\ n \in Nat /\ n >= 1 /\ DOMAIN items = 1..n /\ h = items[1] /\ h \in ItemType
  BY <1>1
<1>3. r \in Seq(ItemType) /\ Len(r) = n - 1 /\ \A i \in 1..(n - 1) : r[i] = items[i + 1]
  BY <1>1, <1>2
<1>4. DOMAIN r = 1..(n - 1)
  BY <1>3
<1>5. /\ \A i \in 1..(n - 1) : i + 1 \in 1..n /\ i + 1 # 1
      /\ \A i \in 1..n : i # 1 => i - 1 \in 1..(n - 1) /\ (i - 1) + 1 = i
      /\ \A i, j \in 1..(n - 1) : i + 1 = j + 1 => i = j
      /\ 1 \in 1..n
  BY <1>2
<1>6. /\ \A i, j \in 1..n : items[i].trans = items[j].trans /\ items[i].trans # None => i = j
      /\ \A i \in 1..n : items[i].trans # None => Asked(items[i], ts)
  BY <1>2 DEF ItemsOK
<1>7. ItemsOK(r, ts)
  <2>1. ASSUME NEW i \in 1..(n - 1), NEW j \in 1..(n - 1), r[i].trans = r[j].trans, r[i].trans # None
        PROVE  i = j
    <3>1. i + 1 \in 1..n /\ j + 1 \in 1..n /\ r[i] = items[i + 1] /\ r[j] = items[j + 1]
      BY <1>3, <1>5
    <3>2. i + 1 = j + 1
      BY <1>6, <2>1, <3>1
    <3>3. QED
      BY <1>5, <3>2
  <2>2. \A i \in 1..(n - 1) : r[i].trans # None => Asked(r[i], ts)
    BY <1>3, <1>5, <1>6
  <2>3. QED
    BY <1>4, <2>1, <2>2 DEF ItemsOK
<1>8. ASSUME NEW u, u # None
      PROVE  (\E i \in 1..(n - 1) : r[i].trans = u)
               <=> (\E i \in 1..n : items[i].trans = u) /\ u # h.trans
  <2>1. ASSUME NEW i \in 1..(n - 1), r[i].trans = u
        PROVE  (\E j \in 1..n : items[j].trans = u) /\ u # h.trans
    <3>1. i + 1 \in 1..n /\ i + 1 # 1 /\ items[i + 1].trans = u
      BY <1>3, <1>5, <2>1
    <3>2. QED
      BY <1>2, <1>5, <1>6, <1>8, <3>1
  <2>2. ASSUME NEW i \in 1..n, items[i].trans = u, u # h.trans
        PROVE  \E j \in 1..(n - 1) : r[j].trans = u
    <3>1. i - 1 \in 1..(n - 1) /\ r[i - 1] = items[i]
      <4>1. i # 1
        BY <1>2, <2>2
      <4>2. i - 1 \in 1..(n - 1) /\ (i - 1) + 1 = i
        BY <1>5, <4>1
      <4>3. QED
        BY <1>3, <4>2
    <3>2. QED
      BY <2>2, <3>1
  <2>3. QED
    BY <2>1, <2>2
<1>9. /\ \E i \in 1..n : items[i] = h
      /\ h.trans # None => Asked(h, ts)
  BY <1>2, <1>5, <1>6
<1>10. QED
  BY <1>1, <1>2, <1>3, <1>4, <1>7, <1>8, <1>9

LEMMA NotifyNextItemStep ==
  ASSUME IInv, NotifyNextItem
  PROVE  IInv' /\ Joins
<1>1. PICK top : top = Top
  OBVIOUS
<1>2. /\ stack # <<>> /\ top.kind = "OnIOComplete" /\ top \in Frame
      /\ Len(stack) \in DOMAIN stack /\ top = stack[Len(stack)]
  BY <1>1, TopFrame DEF NotifyNextItem, IsTop, IInv
<1>3. PICK items : items = top.items
  OBVIOUS
<1>4. /\ items \in Seq(ItemType) /\ top.result \in {"OK", "FAILED"}
      /\ top.op \in {"OPEN", "CREATE", "DOOM"} /\ top.fail \in BOOLEAN
  BY <1>2, <1>3, FrameFields
<1>5. ItemsOK(items, trans) /\ (top.result = "FAILED" => active = None)
  BY <1>2, <1>3 DEF IInv, CallsOK, StackOK, FramesOK, FrameOK, IOLoopOK
<1>6. \A u : NotifiedBy(top, u) <=> \E i \in DOMAIN items : items[i].trans = u
  BY <1>2, <1>3 DEF NotifiedBy
<1>7. ~IsTop("DoLoop") /\ UNCHANGED <<entryVars, op, backendVars, sync>>
  BY <1>1, <1>2 DEF IsTop, NotifyNextItem
<1>8. CASE items = <<>>
  <2>1. stack' = Front(stack) /\ UNCHANGED trans
    BY <1>1, <1>3, <1>8 DEF NotifyNextItem
  <2>2. \A u \in Trans : ~NotifiedBy(Top, u)
    BY <1>1, <1>6, <1>8
  <2>3. 1 \in Trans /\ Only(1)
    BY <2>1, MaxTransAssumption DEF Only, IInv, Types, Trans
  <2>4. UNCHANGED <<op, backend_writer, backend_queue, pending_queue, active, sync>>
    BY <1>7 DEF entryVars, lockVars, backendVars
  <2>5. CallsOK' /\ Placed' /\ stack' \in Seq(Frame)
    BY <1>2, <2>1, <2>2, <2>3, <2>4, CallsPop
  <2>6. BetweenOK'
    BY <1>7, <2>1, NobodyBetween
  <2>7. QED
    BY <1>7, <2>1, <2>5, <2>6, CallsOnly
<1>9. CASE items # <<>>
  <2>1. PICK item, fails : item = Head(items) /\ fails = (FailsFrom(top, item) \/ RacesWith(top, item))
    OBVIOUS
  <2>2. PICK t, f : t = item.trans /\ f = NotifyItems(top.op, top.result, fails, Tail(items))
    OBVIOUS
  <2>3. /\ item \in ItemType /\ Tail(items) \in Seq(ItemType) /\ ItemsOK(Tail(items), trans)
        /\ t # None => Asked(item, trans) /\ NotifiedBy(top, t)
        /\ \A u : u # None =>
             ((\E i \in DOMAIN Tail(items) : Tail(items)[i].trans = u) <=> NotifiedBy(top, u) /\ u # t)
    BY <1>4, <1>5, <1>6, <1>9, <2>1, <2>2, ItemsTail
  <2>4. fails \in BOOLEAN
    BY <2>1
  <2>5. /\ f \in Frame /\ f.kind = "OnIOComplete" /\ f.result = top.result /\ f.items = Tail(items)
        /\ \A u : NotifiedBy(f, u) <=> \E i \in DOMAIN Tail(items) : Tail(items)[i].trans = u
    <3>1. PICK o, res, rest : o = top.op /\ res = top.result /\ rest = Tail(items)
      OBVIOUS
    <3>2. /\ o \in {"OPEN", "CREATE", "DOOM"} /\ res \in {"OK", "FAILED"}
          /\ rest \in Seq(ItemType) /\ f = NotifyItems(o, res, fails, rest)
      BY <1>4, <2>2, <2>3, <3>1
    <3>3. /\ f \in Frame /\ f.kind = "OnIOComplete" /\ f.result = res /\ f.items = rest
          /\ \A u : NotifiedBy(f, u) <=> \E i \in DOMAIN rest : rest[i].trans = u
      BY <2>4, <3>2, ItemsFrame
    <3>4. QED
      BY <3>1, <3>3
  <2>6. TakenOff(f, t)
    <3>1. \A u \in Trans : NotifiedBy(f, u) <=> NotifiedBy(Top, u) /\ u # t
      BY <1>1, <2>3, <2>5, NullAssumption
    <3>2. FrameOK(f, trans)
      BY <2>3, <2>5 DEF FrameOK
    <3>3. QED
      BY <1>1, <1>2, <2>5, <3>1, <3>2 DEF TakenOff
  <2>7. PICK r, e :
          /\ NotifyTransaction(Replaced(f), item, r, e) /\ e \in Entries \cup {None}
          /\ r = "OK" => item.op = "OPEN" /\ active # None /\ e = active
          /\ r = "FAILED" /\ item.op = "OPEN" => active = None
          /\ item.op = "DOOM" => r = "RACE"
    <3>1. PICK failed, races :
            failed = FailsFrom(top, item) /\ races = (~failed /\ RacesWith(top, item))
      OBVIOUS
    <3>2. Replaced(f) = Append(Front(stack), NotifyItems(top.op, top.result, failed \/ races, Tail(items)))
      BY <2>1, <2>2, <3>1 DEF Replaced
    <3>3. item.op \in {"OPEN", "CREATE", "DOOM"} /\ active \in Entries \cup {None}
      BY <2>3 DEF ItemType, IInv, Types
    <3>4. ~failed => item.op # "DOOM" /\ (top.result = "OK" => active # None)
      BY <3>1 DEF FailsFrom
    <3>5. \/ NotifyTransaction(Replaced(f), item, "RACE", None)
          \/ ~failed /\ item.op = "CREATE" /\ NotifyTransaction(Replaced(f), item, "FAILED", None)
          \/ /\ ~failed /\ ~(item.op = "CREATE" /\ top.result = "OK")
             /\ NotifyTransaction(Replaced(f), item, top.result, ItemEntry(top))
      BY <1>1, <1>3, <1>9, <2>1, <3>1, <3>2 DEF NotifyNextItem
    <3>6. CASE NotifyTransaction(Replaced(f), item, "RACE", None)
      BY <3>6
    <3>7. CASE ~failed /\ item.op = "CREATE" /\ NotifyTransaction(Replaced(f), item, "FAILED", None)
      BY <3>7
    <3>8. CASE /\ ~failed /\ ~(item.op = "CREATE" /\ top.result = "OK")
               /\ NotifyTransaction(Replaced(f), item, top.result, ItemEntry(top))
      <4>1. ItemEntry(top) \in Entries \cup {None} /\ (top.result = "OK" => ItemEntry(top) = active)
        BY <3>3 DEF ItemEntry
      <4>2. QED
        BY <1>4, <1>5, <3>3, <3>4, <3>8, <4>1
    <3>9. QED
      BY <3>5, <3>6, <3>7, <3>8
  <2>8. CASE t = None
    <3>1. stack' = Replaced(f) /\ UNCHANGED trans
      BY <2>2, <2>7, <2>8 DEF NotifyTransaction
    <3>2. UNCHANGED <<op, backend_writer, backend_queue, pending_queue, active, sync>>
      BY <1>7 DEF entryVars, lockVars, backendVars
    <3>3. CallsOK' /\ Placed' /\ stack' \in Seq(Frame)
      BY <2>6, <2>8, <3>1, <3>2, CallsSkip
    <3>4. BetweenOK'
      BY <1>7, <3>1, NobodyBetween
    <3>5. QED
      BY <1>7, <3>1, <3>3, <3>4, CallsOnly
  <2>9. CASE t # None
    <3>1. t \in Trans
      BY <2>2, <2>3, <2>9 DEF ItemType
    <3>2. /\ stack' = Append(Replaced(f), Running(t)) /\ Only(t)
          /\ \/ Plain(trans'[t])
             \/ r = "OK" /\ item.op # "DOOM" /\ Adds(trans'[t], e)
             \/ r = "FAILED" /\ item.op = "OPEN" /\ Creates(trans'[t])
             \/ r # "RACE" /\ item.op = "DOOM" /\ Creates(trans'[t])
      BY <2>2, <2>3, <2>7, <2>9, <3>1, NotifiedTrans DEF IInv
    <3>3. active' = active
      BY <1>7 DEF entryVars
    <3>4. ToldRight(trans'[t])
      BY <2>7, <3>2, <3>3 DEF ToldRight, Plain, Adds, Creates, Waits
    <3>5. NotifiedBy(Top, t)
      BY <1>1, <2>3, <2>9
    <3>6. QED
      BY <1>7, <2>6, <3>1, <3>2, <3>4, <3>5, NotifiedStep
  <2>10. QED
    BY <2>8, <2>9
<1>10. QED
  BY <1>8, <1>9

LEMMA NotifyNextRaceStep ==
  ASSUME IInv, NotifyNextRace
  PROVE  IInv' /\ Joins
<1>1. PICK top, q, by, then : top = Top /\ q = top.queue /\ by = top.by /\ then = top.then
  OBVIOUS
<1>2. /\ stack # <<>> /\ top.kind = "DoneWritingToEntry" /\ top \in Frame
      /\ Len(stack) \in DOMAIN stack /\ top = stack[Len(stack)]
      /\ DOMAIN stack = 1..Len(stack) /\ Len(stack) \in Nat
  BY <1>1, TopFrame DEF NotifyNextRace, IsTop, IInv
<1>3. q \in Seq(Trans) /\ by \in Trans /\ then \in TransType
  BY <1>1, <1>2, FrameFields
<1>4. /\ NoDup(q) /\ \A t \in ToSet(q) : trans[t].state = "add_wait"
      /\ then.state \in {"doom", "done", "dangling"}
  BY <1>1, <1>2 DEF IInv, CallsOK, StackOK, FramesOK, FrameOK
<1>5. \A u : NotifiedBy(top, u) <=> u \in ToSet(q)
  BY <1>1, <1>2 DEF NotifiedBy
<1>6. ~IsTop("DoLoop") /\ UNCHANGED <<entryVars, op, backendVars, sync>>
  BY <1>1, <1>2 DEF IsTop, NotifyNextRace
<1>7. UNCHANGED <<active, live, doomed, writer, readers, pending_queue, will_process, tasks,
                  op, backend, backend_writer, backend_queue, sync>>
  BY <1>6 DEF entryVars, lockVars, backendVars
<1>8. CASE q = <<>>
  <2>1. Becomes(by, then) /\ stack' = Front(stack)
    BY <1>1, <1>8 DEF NotifyNextRace
  <2>2. Only(by) /\ trans'[by] = then
    BY <1>3, <2>1, BecomesOnly DEF IInv
  <2>3. PICK j \in DOMAIN stack : Len(stack) = j + 1 /\ stack[j] = Running(by)
    BY <1>1, <1>2 DEF IInv, CallsOK, StackOK, CallersOK
  <2>4. stack[j].kind = "DoLoop" /\ stack[j].trans = by
    BY <1>3, <2>3, LoopFrame
  <2>5. j < Len(stack) /\ j = Len(stack) - 1
    BY <1>2, <2>3
  <2>6. /\ trans[by].state \in {"closing", "done"}
        /\ \A i \in DOMAIN stack : stack[i].kind = "DoLoop" /\ stack[i].trans = by => i = j
    BY <2>4, <2>5 DEF IInv, CallsOK, StackOK, LoopsOK
  <2>7. /\ trans[by].state \notin Waits /\ trans'[by].state \notin Waits
        /\ trans[by].state \notin {"attached", "add"}
        /\ trans'[by].state \notin {"attached", "add", "create"}
    BY <1>4, <2>2, <2>6 DEF Waits
  <2>8. \A i \in DOMAIN stack : i < Len(stack) - 1 =>
          ~(stack[i].kind = "DoLoop" /\ stack[i].trans = by)
    BY <1>2, <2>5, <2>6
  <2>9. \A u \in Trans : ~NotifiedBy(Top, u)
    BY <1>1, <1>5, <1>8, EmptyList
  <2>10. CallsOK' /\ Placed' /\ stack' \in Seq(Frame)
    BY <1>2, <1>3, <1>7, <2>1, <2>2, <2>7, <2>8, <2>9, CallsPop
  <2>11. Freed' /\ Listed' /\ Held' /\ LockOK' /\ Posted' /\ Joins
    BY <1>3, <1>7, <2>2, <2>7, EntriesKept, PostedKept, JoinsKept
  <2>12. /\ ~InPendingOp(op, by) /\ ~InBackendOp(by)
         /\ \A e \in Entries : by \notin ToSet(pending_queue[e])
    BY <1>3, <2>7, NotListed
  <2>13. BackendOK' /\ QueuesOK'
    BY <1>3, <1>7, <2>2, <2>12, BackendKept, QueuesKept DEF backendVars
  <2>14. OpOK'
    BY <1>3, <1>7, <2>2, <2>12, OpKept DEF IInv, OpOK
  <2>15. BetweenOK'
    BY <1>3, <1>6, <2>2, <2>7, BetweenKept
  <2>16. Types'
    BY <1>7, <2>2, <2>10 DEF IInv, Types, Only
  <2>17. QED
    BY <2>10, <2>11, <2>13, <2>14, <2>15, <2>16 DEF IInv
<1>9. CASE q # <<>>
  <2>1. PICK t, f : t = Head(q) /\ f = NotifyRace(Tail(q), by, then)
    OBVIOUS
  <2>2. /\ t \in ToSet(q) /\ t \in Trans /\ Tail(q) \in Seq(Trans) /\ NoDup(Tail(q))
        /\ ToSet(Tail(q)) = ToSet(q) \ {t}
    BY <1>3, <1>4, <1>9, <2>1, TailList
  <2>3. /\ f \in Frame /\ f.kind = "DoneWritingToEntry" /\ f.queue = Tail(q) /\ f.by = by
        /\ f.then = then /\ \A u : NotifiedBy(f, u) <=> u \in ToSet(Tail(q))
    <3>1. PICK rest : rest = Tail(q)
      OBVIOUS
    <3>2. rest \in Seq(Trans) /\ f = NotifyRace(rest, by, then)
      BY <2>1, <2>2, <3>1
    <3>3. /\ f \in Frame /\ f.kind = "DoneWritingToEntry" /\ f.queue = rest /\ f.by = by
          /\ f.then = then /\ \A u : NotifiedBy(f, u) <=> u \in ToSet(rest)
      BY <1>3, <3>2, RaceFrame
    <3>4. QED
      BY <3>1, <3>3
  <2>4. TakenOff(f, t)
    <3>1. \A u \in Trans : NotifiedBy(f, u) <=> NotifiedBy(Top, u) /\ u # t
      BY <1>1, <1>5, <2>2, <2>3
    <3>2. FrameOK(f, trans)
      BY <1>4, <2>2, <2>3 DEF FrameOK
    <3>3. QED
      BY <1>1, <1>2, <2>3, <3>1, <3>2 DEF TakenOff
  <2>5. NotifyTransaction(Replaced(f), WorkItem("ADD", t), "RACE", None)
    BY <1>1, <1>9, <2>1 DEF NotifyNextRace, Replaced
  <2>6. stack' = Append(Replaced(f), Running(t)) /\ Only(t) /\ Plain(trans'[t])
    BY <1>4, <2>2, <2>5, NotifiedOfEntry DEF IInv
  <2>7. ToldRight(trans'[t])
    BY <2>6 DEF ToldRight, Plain
  <2>8. NotifiedBy(Top, t)
    BY <1>1, <1>5, <2>2
  <2>9. QED
    BY <1>6, <2>2, <2>4, <2>6, <2>7, <2>8, NotifiedStep
<1>10. QED
  BY <1>8, <1>9

(* OnIOComplete begins. *)
LEMMA StackOneLoop ==
  ASSUME NEW f \in Frame, f.kind = "OnIOComplete", NEW ts, NEW queued, NEW act,
         FrameOK(f, ts), f.result = "FAILED" => act = None,
         \A u \in Trans : NotifiedBy(f, u) => u \notin queued
  PROVE  StackOK(<<f>>, ts, queued, act, FALSE) /\ <<f>> \in Seq(Frame)
<1>1. PICK r : r = <<f>>
  OBVIOUS
<1>2. r \in Seq(Frame) /\ DOMAIN r = {1} /\ r[1] = f /\ Len(r) = 1
  BY <1>1
<1>3. FramesOK(r, ts) /\ IOLoopOK(r, act, FALSE) /\ NotifiedOnce(r, queued)
  BY <1>2 DEF FramesOK, IOLoopOK, NotifiedOnce
<1>4. LoopsOK(r, ts) /\ CallersOK(r)
  BY <1>2 DEF LoopsOK, CallersOK
<1>5. QED
  BY <1>1, <1>2, <1>3, <1>4 DEF StackOK

LEMMA OpMember ==
  ASSUME IInv, NEW u \in Trans, InPendingOp(op, u)
  PROVE  /\ trans[u].state \in {"open_wait", "create_wait", "doom_wait"} /\ ~InBackendOp(u)
         /\ \A e \in Entries : u \notin ToSet(pending_queue[e])
<1>1. trans[u].state \in {"open_wait", "create_wait", "doom_wait"}
  BY NullAssumption DEF IInv, OpOK, ItemsOK, Asked, InPendingOp
<1>2. QED
  BY <1>1 DEF IInv, BackendOK, QueuesOK

LEMMA OnIOCompleteStep ==
  ASSUME IInv, OnIOComplete
  PROVE  IInv' /\ Joins
<1>1. PICK ok \in BOOLEAN :
        LET item == op.writer
            opened == Opened(item, ok)
            loop == NotifyItems(item.op, Result(ok), ok /\ ~opened, op.queue)
        IN \/ opened /\ ActivateEntry /\ NotifyTransaction(<<loop>>, item, "OK", active')
           \/ /\ ~opened /\ UNCHANGED <<active, live>>
              /\ NotifyTransaction(<<loop>>, item, Result(ok), None)
  BY DEF OnIOComplete
<1>2. /\ stack = <<>> /\ op # None /\ op' = None
      /\ UNCHANGED <<doomed, writer, readers, pending_queue, will_process, tasks, backend,
                     backend_writer, backend_queue, sync>>
  BY DEF OnIOComplete, lockVars, backendVars
<1>3. PICK item, q, opened, o, res, fail :
        /\ item = op.writer /\ q = op.queue /\ opened = Opened(item, ok)
        /\ o = item.op /\ res = Result(ok) /\ fail = (ok /\ ~opened)
  OBVIOUS
<1>4. PICK t, f : t = item.trans /\ f = NotifyItems(o, res, fail, q)
  OBVIOUS
<1>5. /\ op \in PendingOp /\ q \in Seq(ItemType) /\ t \in Trans \cup {None}
      /\ o \in {"OPEN", "CREATE", "DOOM"} /\ res \in {"OK", "FAILED"} /\ fail \in BOOLEAN
      /\ res = "OK" <=> ok
  <2>1. op \in PendingOp
    BY <1>2 DEF IInv, Types
  <2>2. QED
    BY <1>3, <1>4, <2>1, OpFields DEF Result
<1>6. /\ f \in Frame /\ f.kind = "OnIOComplete" /\ f.items = q /\ f.result = res
      /\ \A u : NotifiedBy(f, u) <=> \E i \in DOMAIN q : q[i].trans = u
  BY <1>4, <1>5, ItemsFrame
<1>7. /\ sync = FALSE /\ active = None /\ ItemsOK(q, trans)
      /\ t # None => Asked(item, trans) /\ \A i \in DOMAIN q : q[i].trans # t
  BY <1>2, <1>3, <1>4 DEF IInv, OpOK
<1>8. opened <=> ok /\ o # "DOOM" /\ t # None
  BY <1>3, <1>4 DEF Opened
<1>9. \A u \in Trans : InPendingOp(op, u) <=> u = t \/ NotifiedBy(f, u)
  BY <1>2, <1>3, <1>4, <1>6 DEF InPendingOp
<1>10. \A u \in Trans : /\ InPendingOp(op, u) => ~Queued(u)'
                        /\ Queued(u) => InPendingOp(op, u) \/ Queued(u)'
  BY <1>2, OpMember DEF Queued, InQueue, InBackendOp, InPendingOp
<1>11. OpOK' /\ Posted' /\ Joins
  <2>1. Posted' /\ Joins
    BY <1>2, PostedKept, JoinsKept
  <2>2. QED
    BY <1>2, <2>1 DEF OpOK
<1>12. CASE t = None
  <2>1. /\ ~opened /\ UNCHANGED <<active, live>> /\ stack' = <<f>> /\ UNCHANGED trans
    BY <1>1, <1>3, <1>4, <1>8, <1>12 DEF NotifyTransaction
  <2>2. FrameOK(f, trans) /\ \A u \in Trans : NotifiedBy(f, u) => u \notin QueuedTrans'
    BY <1>6, <1>7, <1>9, <1>10 DEF FrameOK, QueuedTrans
  <2>3. StackOK(<<f>>, trans, QueuedTrans', active, FALSE) /\ <<f>> \in Seq(Frame)
    BY <1>6, <1>7, <2>2, StackOneLoop
  <2>4. CallsOK'
    BY <1>2, <1>7, <2>1, <2>3 DEF CallsOK
  <2>5. ASSUME NEW u \in Trans, trans[u].state \in Waits PROVE Queued(u)' \/ BeingNotified(u)'
    <3>1. Queued(u)
      BY <1>2, <2>5 DEF IInv, Placed, Waiting, BeingNotified
    <3>2. CASE InPendingOp(op, u)
      <4>1. NotifiedBy(f, u)
        BY <1>9, <1>12, <3>2, NullAssumption
      <4>2. 1 \in DOMAIN stack' /\ stack'[1] = f
        BY <2>1
      <4>3. QED
        BY <4>1, <4>2 DEF BeingNotified
    <3>3. QED
      BY <1>10, <3>1, <3>2
  <2>6. Placed'
    BY <2>1, <2>5 DEF Placed, Waiting
  <2>7. Freed' /\ Listed' /\ Held' /\ LockOK'
    BY <1>2, <2>1 DEF IInv, Freed, Listed, Held, LockOK
  <2>8. BackendOK' /\ QueuesOK'
    BY <1>2, <2>1 DEF IInv, BackendOK, InBackendOp, QueuesOK
  <2>9. BetweenOK'
    BY <1>2, <2>1, NobodyBetween DEF IsTop
  <2>10. Types'
    BY <1>2, <2>1, <2>3 DEF IInv, Types
  <2>11. QED
    BY <1>11, <2>4, <2>6, <2>7, <2>8, <2>9, <2>10 DEF IInv
<1>13. CASE t # None
  <2>1. t \in Trans /\ InPendingOp(op, t) /\ ~NotifiedBy(f, t)
    BY <1>5, <1>6, <1>7, <1>9, <1>13
  <2>2. PICK r, e :
          /\ NotifyTransaction(<<f>>, item, r, e) /\ e \in Entries \cup {None}
          /\ r = res
          /\ r = "OK" /\ o # "DOOM" => ActivateEntry /\ e = active'
          /\ ~(r = "OK" /\ o # "DOOM") => UNCHANGED <<active, live>>
    <3>1. CASE opened
      <4>1. ActivateEntry /\ NotifyTransaction(<<f>>, item, "OK", active') /\ res = "OK"
        BY <1>1, <1>3, <1>4, <1>5, <1>8, <3>1
      <4>2. active' \in Entries
        BY <4>1 DEF ActivateEntry, NewEntry
      <4>3. QED
        BY <1>8, <3>1, <4>1, <4>2
    <3>2. CASE ~opened
      <4>1. UNCHANGED <<active, live>> /\ NotifyTransaction(<<f>>, item, res, None)
        BY <1>1, <1>3, <1>4, <3>2
      <4>2. ~(res = "OK" /\ o # "DOOM")
        BY <1>5, <1>8, <1>13, <3>2
      <4>3. QED
        BY <4>1, <4>2
    <3>3. QED
      BY <3>1, <3>2
  <2>3. /\ stack' = Append(<<f>>, Running(t)) /\ Only(t)
        /\ \/ (r # "OK" \/ o = "DOOM") /\ Plain(trans'[t])
           \/ r = "OK" /\ o # "DOOM" /\ Adds(trans'[t], e)
           \/ r = "FAILED" /\ o = "OPEN" /\ Creates(trans'[t])
           \/ r # "RACE" /\ o = "DOOM" /\ Creates(trans'[t])
    BY <1>3, <1>4, <1>7, <1>13, <2>1, <2>2, NotifiedTrans DEF IInv
  <2>4. trans[t].state \in {"open_wait", "create_wait", "doom_wait"} /\ ~InBackendOp(t)
        /\ \A d \in Entries : t \notin ToSet(pending_queue[d])
    BY <2>1, OpMember
  <2>5. trans[t].state \notin {"attached", "add"}
    BY <2>4
  <2>6. /\ Freed' /\ Listed' /\ Held' /\ LockOK'
        /\ active' \in Entries \cup {None} /\ live' \in [Entries -> BOOLEAN]
        /\ ToldRight(trans'[t])
        /\ res = "FAILED" => active' = None
    <3>1. CASE r = "OK" /\ o # "DOOM"
      <4>1. Adds(trans'[t], active') /\ ActivateEntry
        BY <2>2, <2>3, <3>1
      <4>2. UNCHANGED <<doomed, lockVars>>
        BY <1>2 DEF lockVars
      <4>3. /\ Freed' /\ Listed' /\ Held' /\ LockOK'
            /\ active' \in Entries /\ live' \in [Entries -> BOOLEAN]
        BY <1>7, <2>1, <2>3, <2>5, <4>1, <4>2, EntryActivated
      <4>4. ToldRight(trans'[t])
        BY <4>1, <4>3, NullAssumption DEF ToldRight, Adds, Waits
      <4>5. QED
        BY <2>2, <3>1, <4>3, <4>4
    <3>2. CASE ~(r = "OK" /\ o # "DOOM")
      <4>1. UNCHANGED <<active, live>> /\ (Plain(trans'[t]) \/ Creates(trans'[t]))
        BY <2>2, <2>3, <3>2
      <4>2. trans'[t].state # "attached"
        BY <4>1 DEF Plain, Creates
      <4>3. Freed' /\ Listed' /\ Held' /\ LockOK'
        BY <1>2, <2>1, <2>3, <2>5, <4>1, <4>2, EntriesKept
      <4>4. ToldRight(trans'[t])
        BY <1>7, <4>1 DEF ToldRight, Plain, Creates, Waits
      <4>5. QED
        BY <1>7, <4>1, <4>3, <4>4 DEF IInv, Types
    <3>3. QED
      BY <3>1, <3>2
  <2>7. ItemsOK(q, trans')
    <3>1. PICK us, ts : us = trans' /\ ts = trans
      OBVIOUS
    <3>2. ItemsOK(q, ts) /\ \A u \in Trans \ {t} : us[u] = ts[u]
      BY <1>7, <2>3, <3>1 DEF Only
    <3>3. ItemsOK(q, us)
      BY <1>5, <1>7, <1>13, <3>2, ItemsKept
    <3>4. QED
      BY <3>1, <3>3
  <2>8. FrameOK(f, trans') /\ \A u \in Trans : NotifiedBy(f, u) => u \notin QueuedTrans'
    BY <1>6, <1>9, <1>10, <2>7 DEF FrameOK, QueuedTrans
  <2>9. StackOK(<<f>>, trans', QueuedTrans', active', FALSE) /\ <<f>> \in Seq(Frame)
    BY <1>6, <2>6, <2>8, StackOneLoop
  <2>10. PICK st : st = <<f>>
    OBVIOUS
  <2>11. /\ st \in Seq(Frame) /\ StackOK(st, trans', QueuedTrans', active', FALSE)
         /\ DOMAIN st = {1} /\ st[1] = f /\ Len(st) = 1
    <3>1. st \in Seq(Frame) /\ StackOK(st, trans', QueuedTrans', active', FALSE)
      BY <2>9, <2>10
    <3>2. DOMAIN st = {1} /\ st[1] = f /\ Len(st) = 1
      BY <2>10
    <3>3. QED
      BY <3>1, <3>2
  <2>12. trans'[t].state \notin Waits
    BY <2>6 DEF ToldRight
  <2>13. \A i \in DOMAIN st : st[i].kind = "DoLoop" =>
           st[i].trans # t /\ trans'[st[i].trans].state \in {"closing", "done"}
    BY <1>6, <2>11
  <2>14. StackOK(Append(st, Running(t)), trans', QueuedTrans', active', FALSE)
    BY <2>1, <2>11, <2>12, <2>13, StackPushLoop
  <2>15. CallsOK'
    BY <1>2, <1>7, <2>3, <2>10, <2>14 DEF CallsOK
  <2>16. /\ stack' \in Seq(Frame) /\ stack' # <<>> /\ Last(stack') = Running(t)
         /\ DOMAIN stack' = 1..(Len(st) + 1) /\ \A i \in 1..Len(st) : stack'[i] = st[i]
    BY <2>1, <2>3, <2>10, <2>11, Pushed, LoopFrame
  <2>17. ASSUME NEW u \in Trans \ {t}, Queued(u) \/ BeingNotified(u) PROVE Queued(u)' \/ BeingNotified(u)'
    <3>1. Queued(u)
      BY <1>2, <2>17 DEF BeingNotified
    <3>2. CASE InPendingOp(op, u)
      <4>1. NotifiedBy(f, u)
        BY <1>9, <3>2
      <4>2. 1 \in 1..Len(st) /\ 1 \in 1..(Len(st) + 1)
        BY <2>11
      <4>3. 1 \in DOMAIN stack' /\ stack'[1] = f
        BY <2>11, <2>16, <4>2
      <4>4. QED
        BY <4>1, <4>3 DEF BeingNotified
    <3>3. QED
      BY <1>10, <3>1, <3>2
  <2>18. Placed'
    BY <2>1, <2>3, <2>12, <2>17, PlacedKept
  <2>19. BackendOK' /\ QueuesOK'
    BY <1>2, <2>1, <2>3, <2>4, BackendKept, QueuesKept DEF backendVars
  <2>20. IsTop("DoLoop")' /\ Top' = Running(t)
    BY <2>1, <2>16, LoopFrame DEF IsTop, Top
  <2>21. BetweenOK'
    BY <1>2, <2>1, <2>3, <2>6, <2>20, BetweenKept DEF Acts, ToldRight
  <2>22. Types'
    BY <1>2, <2>3, <2>6, <2>16 DEF IInv, Types, Only
  <2>23. QED
    BY <1>11, <2>6, <2>15, <2>18, <2>19, <2>21, <2>22 DEF IInv
<1>14. QED
  BY <1>12, <1>13
-----------------------------------------------------------------------------
(* A waiting transaction is deleted. *)

(* RemovePendingTransaction finds every transaction that is in a list. *)
LEMMA PlaceFound ==
  ASSUME IInv, NEW t \in Trans
  PROVE  /\ PlaceOf(t) = "backend" => InBackendOp(t)
         /\ PlaceOf(t) = "op" => InPendingOp(op, t)
         /\ PlaceOf(t) \in Entries => t \in ToSet(pending_queue[PlaceOf(t)])
         /\ PlaceOf(t) = None <=> ~Queued(t)
<1>1. /\ None \notin Entries /\ "backend" \notin Entries /\ "op" \notin Entries
      /\ None # "backend" /\ None # "op" /\ active \in Entries \cup {None}
      /\ live \in [Entries -> BOOLEAN] /\ doomed \in [Entries -> BOOLEAN]
  BY NullAssumption DEF IInv, Types
<1>2. InQueue(active, t) => active \in Entries
  BY <1>1 DEF InQueue
<1>3. \A e \in Entries : InQueue(e, t) => live[e] /\ (e = active \/ doomed[e])
  <2>1. \A e \in Entries : InQueue(e, t) => pending_queue[e] # <<>>
    BY EmptyList DEF InQueue
  <2>2. QED
    BY <1>1, <2>1 DEF IInv, Freed, Listed
<1>4. InBackendOp(t) => backend.building
  BY DEF IInv, BackendOK
<1>5. \A e \in Entries : InQueue(e, t) => e = active \/ e \in DoomedEntries
  BY <1>3 DEF DoomedEntries
<1>6. CASE InQueue(active, t)
  <2>1. PlaceOf(t) = active
    BY <1>6 DEF PlaceOf
  <2>2. QED
    BY <1>1, <1>2, <1>6, <2>1 DEF InQueue, Queued
<1>7. CASE ~InQueue(active, t) /\ backend.building /\ InBackendOp(t)
  <2>1. PlaceOf(t) = "backend"
    BY <1>7 DEF PlaceOf
  <2>2. QED
    BY <1>1, <1>7, <2>1 DEF Queued
<1>8. CASE ~InQueue(active, t) /\ ~(backend.building /\ InBackendOp(t)) /\ InPendingOp(op, t)
  <2>1. PlaceOf(t) = "op"
    BY <1>8 DEF PlaceOf
  <2>2. QED
    BY <1>1, <1>8, <2>1 DEF Queued
<1>9. CASE ~InQueue(active, t) /\ ~(backend.building /\ InBackendOp(t)) /\ ~InPendingOp(op, t)
  <2>1. CASE \E e \in DoomedEntries : InQueue(e, t)
    <3>1. PlaceOf(t) = CHOOSE e \in DoomedEntries : InQueue(e, t)
      BY <1>9, <2>1 DEF PlaceOf
    <3>2. PlaceOf(t) \in DoomedEntries /\ InQueue(PlaceOf(t), t)
      BY <2>1, <3>1
    <3>3. QED
      BY <1>1, <3>2 DEF DoomedEntries, InQueue, Queued
  <2>2. CASE ~\E e \in DoomedEntries : InQueue(e, t)
    <3>1. PlaceOf(t) = None
      BY <1>9, <2>2 DEF PlaceOf
    <3>2. ~Queued(t)
      BY <1>4, <1>5, <1>9, <2>2 DEF Queued
    <3>3. QED
      BY <1>1, <3>1, <3>2
  <2>3. QED
    BY <2>1, <2>2
<1>10. QED
  BY <1>6, <1>7, <1>8, <1>9

(* The item of t is taken out of the queue of a PendingOp. *)
Without(items, t) == RemoveAt(items, SelectInSeq(items, LAMBDA item : item.trans = t))

LEMMA ItemRemoved ==
  ASSUME NEW items \in Seq(ItemType), NEW ts, ItemsOK(items, ts), NEW t \in Trans,
         NEW k \in DOMAIN items, items[k].trans = t, NEW r,
         r = Without(items, t)
  PROVE  /\ r \in Seq(ItemType) /\ ItemsOK(r, ts)
         /\ \A i \in DOMAIN r : r[i].trans # t /\ \E j \in DOMAIN items : r[i] = items[j]
         /\ \A j \in DOMAIN items : items[j].trans # t => \E i \in DOMAIN r : r[i] = items[j]
<1>1. DOMAIN items = 1..Len(items) /\ Len(items) \in Nat /\ t # None /\ k \in 1..Len(items)
  BY NullAssumption
<1>2. {i \in 1..Len(items) : items[i].trans = t} = {k}
  BY <1>1 DEF ItemsOK
<1>3. SelectInSeq(items, LAMBDA item : item.trans = t) = Min({k})
  BY <1>2 DEF SelectInSeq
<1>4. Min({k}) = k
  BY <1>1 DEF Min
<1>5. r = RemoveAt(items, k)
  BY <1>3, <1>4 DEF Without
<1>6. /\ r \in Seq(ItemType) /\ Len(r) = Len(items) - 1
      /\ ToSet(r) \subseteq ToSet(items) /\ ToSet(items) \ {items[k]} \subseteq ToSet(r)
      /\ \A i \in 1..(Len(items) - 1) : r[i] = IF i < k THEN items[i] ELSE items[i + 1]
  <2>1. PICK l \in DOMAIN items : l = k
    OBVIOUS
  <2>2. /\ RemoveAt(items, l) \in Seq(ItemType) /\ Len(RemoveAt(items, l)) = Len(items) - 1
        /\ ToSet(RemoveAt(items, l)) \subseteq ToSet(items)
        /\ ToSet(items) \ {items[l]} \subseteq ToSet(RemoveAt(items, l))
        /\ \A i \in 1..(Len(items) - 1) :
             RemoveAt(items, l)[i] = IF i < l THEN items[i] ELSE items[i + 1]
    BY RemoveAtList
  <2>3. r = RemoveAt(items, l)
    BY <1>5, <2>1
  <2>4. QED
    BY <2>1, <2>2, <2>3
<1>7. DOMAIN r = 1..(Len(items) - 1)
  BY <1>1, <1>6
<1>8. PICK g : g = [i \in DOMAIN r |-> IF i < k THEN i ELSE i + 1]
  OBVIOUS
<1>9. \A i \in DOMAIN r : g[i] \in DOMAIN items /\ r[i] = items[g[i]] /\ g[i] # k
  <2>1. ASSUME NEW i \in DOMAIN r PROVE g[i] \in DOMAIN items /\ r[i] = items[g[i]] /\ g[i] # k
    <3>1. CASE i < k
      <4>1. g[i] = i /\ i \in 1..Len(items) /\ r[i] = items[i]
        BY <1>1, <1>6, <1>7, <1>8, <3>1
      <4>2. QED
        BY <1>1, <1>7, <3>1, <4>1
    <3>2. CASE ~(i < k)
      <4>1. g[i] = i + 1 /\ i + 1 \in 1..Len(items) /\ i + 1 # k /\ r[i] = items[i + 1]
        BY <1>1, <1>6, <1>7, <1>8, <3>2
      <4>2. QED
        BY <1>1, <4>1
    <3>3. QED
      BY <3>1, <3>2
  <2>2. QED
    BY <2>1
<1>10. \A i, j \in DOMAIN r : g[i] = g[j] => i = j
  BY <1>1, <1>7, <1>8
<1>12. \A i \in DOMAIN r : r[i].trans # t
  BY <1>1, <1>9 DEF ItemsOK
<1>13. ItemsOK(r, ts)
  BY <1>9, <1>10 DEF ItemsOK
<1>14. \A j \in DOMAIN items : items[j].trans # t => \E i \in DOMAIN r : r[i] = items[j]
  BY <1>6, ZenonT(60) DEF ToSet
<1>15. QED
  BY <1>6, <1>9, <1>12, <1>13, <1>14

LEMMA OpRemoved ==
  ASSUME IInv, NEW t \in Trans, InPendingOp(op, t), op' = WithoutPendingOp(t), Only(t),
         UNCHANGED <<active, sync>>
  PROVE  /\ OpOK' /\ op' \in PendingOp
         /\ \A u \in Trans \ {t} : InPendingOp(op, u) => InPendingOp(op', u)
<1>1. PICK w, q, ts, us : w = op.writer /\ q = op.queue /\ ts = trans /\ us = trans'
  OBVIOUS
<1>2. /\ op # None /\ op \in PendingOp /\ w \in ItemType /\ q \in Seq(ItemType)
      /\ w.op \in {"OPEN", "CREATE", "DOOM"} /\ w.trans \in Trans \cup {None} /\ t # None
  BY <1>1, OpFields, NullAssumption DEF IInv, Types, InPendingOp
<1>3. /\ sync = FALSE /\ active = None /\ ItemsOK(q, ts)
      /\ w.trans # None => Asked(w, ts) /\ \A i \in DOMAIN q : q[i].trans # w.trans
  BY <1>1, <1>2 DEF IInv, OpOK
<1>4. \A u \in Trans \ {t} : us[u] = ts[u]
  BY <1>1 DEF Only
<1>5. CASE w.trans = t
  <2>1. PICK v : v = WorkItem(w.op, None)
    OBVIOUS
  <2>2. v \in ItemType /\ v.trans = None
    BY <1>2, <2>1 DEF WorkItem, ItemType
  <2>3. op' = [writer |-> v, queue |-> q] /\ op'.writer = v /\ op'.queue = q
    BY <1>1, <1>5, <2>1 DEF WithoutPendingOp
  <2>4. op' \in PendingOp
    BY <1>2, <2>2, <2>3 DEF PendingOp
  <2>5. op' # None
    BY <2>4, OpFields
  <2>6. ItemsOK(q, us)
    BY <1>2, <1>3, <1>4, <1>5, ItemsKept
  <2>7. OpOK'
    BY <1>1, <1>3, <2>2, <2>3, <2>6 DEF OpOK
  <2>8. \A u \in Trans \ {t} : InPendingOp(op, u) => InPendingOp(op', u)
    BY <1>1, <1>2, <1>5, <2>3, <2>5 DEF InPendingOp
  <2>9. QED
    BY <2>4, <2>7, <2>8
<1>6. CASE w.trans # t
  <2>1. PICK k \in DOMAIN q : q[k].trans = t
    BY <1>1, <1>6 DEF InPendingOp
  <2>2. PICK r : r = Without(q, t)
    OBVIOUS
  <2>3. op' = [writer |-> w, queue |-> r] /\ op'.writer = w /\ op'.queue = r
    BY <1>1, <1>6, <2>2 DEF WithoutPendingOp, Without
  <2>4. /\ r \in Seq(ItemType) /\ ItemsOK(r, ts)
        /\ \A i \in DOMAIN r : r[i].trans # t /\ \E j \in DOMAIN q : r[i] = q[j]
        /\ \A j \in DOMAIN q : q[j].trans # t => \E i \in DOMAIN r : r[i] = q[j]
    BY <1>2, <1>3, <2>1, <2>2, ItemRemoved
  <2>5. op' \in PendingOp
    BY <1>2, <2>3, <2>4 DEF PendingOp
  <2>6. op' # None
    BY <2>5, OpFields
  <2>7. ItemsOK(r, us)
    <3>1. \A i \in DOMAIN r : r[i].trans # t
      BY <2>4
    <3>2. r \in Seq(ItemType) /\ ItemsOK(r, ts)
      BY <2>4
    <3>3. QED
      BY <1>4, <3>1, <3>2, ItemsKept
  <2>8. w.trans # None => Asked(w, us) /\ \A i \in DOMAIN r : r[i].trans # w.trans
    <3>1. w.trans # None => us[w.trans] = ts[w.trans]
      BY <1>2, <1>4, <1>6
    <3>2. QED
      BY <1>3, <2>4, <3>1 DEF Asked
  <2>9. OpOK'
    BY <1>1, <1>3, <2>3, <2>7, <2>8 DEF OpOK
  <2>10. \A u \in Trans \ {t} : InPendingOp(op, u) => InPendingOp(op', u)
    BY <1>1, <1>2, <2>3, <2>4, <2>6 DEF InPendingOp
  <2>11. QED
    BY <2>5, <2>9, <2>10
<1>7. QED
  BY <1>5, <1>6

LEMMA BackendMember ==
  ASSUME IInv, NEW u \in Trans, InBackendOp(u)
  PROVE  /\ trans[u].state = "backend_wait" /\ ~InPendingOp(op, u)
         /\ \A e \in Entries : u \notin ToSet(pending_queue[e])
<1>1. trans[u].state = "backend_wait"
  BY DEF IInv, BackendOK
<1>2. ~InPendingOp(op, u)
  BY <1>1, OpMember
<1>3. QED
  BY <1>1, <1>2 DEF IInv, QueuesOK

(* t is in none of the lists any more, and everybody else still is. *)
Forgotten(t) ==
  /\ pending_queue' \in [Entries -> Seq(Trans)]
  /\ \A e \in Entries : /\ NoDup(pending_queue'[e])
                        /\ ToSet(pending_queue'[e]) = ToSet(pending_queue[e]) \ {t}
                        /\ live[e] = FALSE => pending_queue'[e] = pending_queue[e]
  /\ backend_writer' \in Trans \cup {None} /\ backend_queue' \in Seq(Trans)
  /\ NoDup(backend_queue') /\ backend_writer' \notin ToSet(backend_queue')
  /\ \A u \in Trans : InBackendOp(u)' <=> InBackendOp(u) /\ u # t
  /\ OpOK' /\ op' \in PendingOp \cup {None}
  /\ \A u \in Trans \ {t} : InPendingOp(op, u) => InPendingOp(op', u)

LEMMA PendingRemoved ==
  ASSUME IInv, NEW t \in Trans, RemovePending(t), Only(t), UNCHANGED <<active, sync>>
  PROVE  Forgotten(t)
<1>1. PICK place : place = PlaceOf(t)
  OBVIOUS
<1>2. /\ place = "backend" => InBackendOp(t)
      /\ place = "op" => InPendingOp(op, t)
      /\ place \in Entries => t \in ToSet(pending_queue[place])
      /\ place = None => ~Queued(t)
  BY <1>1, PlaceFound
<1>3. /\ pending_queue \in [Entries -> Seq(Trans)] /\ \A e \in Entries : NoDup(pending_queue[e])
      /\ backend_writer \in Trans \cup {None} /\ backend_queue \in Seq(Trans)
      /\ NoDup(backend_queue) /\ backend_writer \notin ToSet(backend_queue)
      /\ op \in PendingOp \cup {None} /\ None \notin Trans
  BY NullAssumption DEF IInv, Types, QueuesOK, BackendOK
<1>4. CASE /\ place = "backend"
           /\ \/ backend_writer = t /\ backend_writer' = None /\ UNCHANGED backend_queue
              \/ /\ backend_writer # t
                 /\ backend_queue' = RemoveFirst(backend_queue, t)
                 /\ UNCHANGED backend_writer
           /\ UNCHANGED <<pending_queue, op>>
  <2>1. InBackendOp(t) /\ ~InPendingOp(op, t) /\ \A e \in Entries : t \notin ToSet(pending_queue[e])
    BY <1>2, <1>4, BackendMember
  <2>2. OpOK'
    BY <1>4, <2>1, OpKept DEF IInv, OpOK
  <2>3. CASE backend_writer = t /\ backend_writer' = None /\ UNCHANGED backend_queue
    <3>1. ToSet(backend_queue) \subseteq Trans
      BY <1>3 DEF ToSet
    <3>2. \A u \in Trans : InBackendOp(u)' <=> InBackendOp(u) /\ u # t
      BY <1>3, <2>3 DEF InBackendOp
    <3>3. QED
      BY <1>3, <1>4, <2>1, <2>2, <2>3, <3>1, <3>2 DEF Forgotten
  <2>4. CASE /\ backend_writer # t /\ backend_queue' = RemoveFirst(backend_queue, t)
             /\ UNCHANGED backend_writer
    <3>1. /\ backend_queue' \in Seq(Trans) /\ NoDup(backend_queue')
          /\ ToSet(backend_queue') = ToSet(backend_queue) \ {t}
      BY <1>3, <2>4, RemoveFirstList
    <3>2. \A u \in Trans : InBackendOp(u)' <=> InBackendOp(u) /\ u # t
      BY <2>4, <3>1 DEF InBackendOp
    <3>3. QED
      BY <1>3, <1>4, <2>1, <2>2, <2>4, <3>1, <3>2 DEF Forgotten
  <2>5. QED
    BY <1>4, <2>3, <2>4
<1>5. CASE /\ place = "op" /\ op' = WithoutPendingOp(t)
           /\ UNCHANGED <<pending_queue, backend_writer, backend_queue>>
  <2>1. InPendingOp(op, t) /\ ~InBackendOp(t) /\ \A e \in Entries : t \notin ToSet(pending_queue[e])
    BY <1>2, <1>5, OpMember
  <2>2. /\ OpOK' /\ op' \in PendingOp
        /\ \A u \in Trans \ {t} : InPendingOp(op, u) => InPendingOp(op', u)
    BY <1>5, <2>1, OpRemoved
  <2>3. \A u \in Trans : InBackendOp(u)' <=> InBackendOp(u) /\ u # t
    BY <1>5, <2>1 DEF InBackendOp
  <2>4. QED
    BY <1>3, <1>5, <2>1, <2>2, <2>3 DEF Forgotten
<1>6. CASE /\ place \in Entries
           /\ pending_queue' = [pending_queue EXCEPT ![place] = RemoveFirst(pending_queue[place], t)]
           /\ UNCHANGED <<op, backend_writer, backend_queue>>
  <2>1. /\ t \in ToSet(pending_queue[place]) /\ ~InPendingOp(op, t) /\ ~InBackendOp(t)
        /\ \A d \in Entries \ {place} : t \notin ToSet(pending_queue[d])
    BY <1>2, <1>6, QueueMember
  <2>2. PICK q : q = pending_queue[place]
    OBVIOUS
  <2>3. q \in Seq(Trans) /\ NoDup(q)
    BY <1>3, <1>6, <2>2
  <2>4. /\ RemoveFirst(q, t) \in Seq(Trans) /\ NoDup(RemoveFirst(q, t))
        /\ ToSet(RemoveFirst(q, t)) = ToSet(q) \ {t}
    BY <2>3, RemoveFirstList
  <2>5. /\ pending_queue'[place] = RemoveFirst(q, t)
        /\ \A d \in Entries \ {place} : pending_queue'[d] = pending_queue[d]
        /\ pending_queue' \in [Entries -> Seq(Trans)]
    BY <1>3, <1>6, <2>2, <2>4
  <2>6. live[place] # FALSE
    BY <1>6, <2>1, EmptyList DEF IInv, Freed
  <2>7. \A e \in Entries : /\ NoDup(pending_queue'[e])
                           /\ ToSet(pending_queue'[e]) = ToSet(pending_queue[e]) \ {t}
                           /\ live[e] = FALSE => pending_queue'[e] = pending_queue[e]
    BY <1>3, <2>1, <2>2, <2>4, <2>5, <2>6
  <2>8. OpOK'
    BY <1>6, <2>1, OpKept DEF IInv, OpOK
  <2>9. \A u \in Trans : InBackendOp(u)' <=> InBackendOp(u) /\ u # t
    BY <1>6, <2>1 DEF InBackendOp
  <2>10. QED
    BY <1>3, <1>6, <2>5, <2>7, <2>8, <2>9 DEF Forgotten
<1>7. CASE place = None /\ UNCHANGED <<pending_queue, op, backend_writer, backend_queue>>
  <2>1. /\ ~InPendingOp(op, t) /\ ~InBackendOp(t)
        /\ \A e \in Entries : t \notin ToSet(pending_queue[e])
    BY <1>2, <1>7, Unlisted
  <2>2. OpOK'
    BY <1>7, <2>1, OpKept DEF IInv, OpOK
  <2>3. \A u \in Trans : InBackendOp(u)' <=> InBackendOp(u) /\ u # t
    BY <1>7, <2>1 DEF InBackendOp
  <2>4. QED
    BY <1>3, <1>7, <2>1, <2>2, <2>3 DEF Forgotten
<1>8. QED
  BY <1>1, <1>4, <1>5, <1>6, <1>7 DEF RemovePending

LEMMA CancelWaitingStep ==
  ASSUME IInv, NEW t \in Trans, CancelWaiting(t)
  PROVE  IInv' /\ Joins
<1>1. /\ stack = <<>> /\ stack' = <<>> /\ trans[t].state \in Waits
      /\ RemovePending(t) /\ Becomes(t, Done)
      /\ UNCHANGED <<active, live, doomed, writer, readers, will_process, tasks, backend, sync>>
  BY DEF CancelWaiting, Waiting, Continue
<1>2. Only(t) /\ trans'[t].state = "done"
  BY <1>1, DoneFields, BecomesOnly DEF IInv
<1>3. trans[t].state \notin {"attached", "add"} /\ trans'[t].state \notin Waits
      /\ trans'[t].state \notin {"attached", "add", "create"}
  BY <1>1, <1>2 DEF Waits
<1>4. Forgotten(t)
  BY <1>1, <1>2, PendingRemoved
<1>5. Freed' /\ Listed' /\ Held' /\ LockOK'
  BY <1>1, <1>2, <1>3, <1>4, EntriesKept DEF Forgotten
<1>6. Posted' /\ Joins
  <2>1. \A e \in Entries : ToSet(pending_queue'[e]) \subseteq ToSet(pending_queue[e])
    BY <1>4 DEF Forgotten
  <2>2. QED
    BY <1>1, <2>1, PostedKept, JoinsKept
<1>7. BackendOK'
  <2>1. ASSUME NEW u \in Trans, InBackendOp(u)'
        PROVE  trans'[u].state = "backend_wait" /\ backend'.building = TRUE
    <3>1. InBackendOp(u) /\ u # t
      BY <1>4, <2>1 DEF Forgotten
    <3>2. QED
      BY <1>1, <1>2, <3>1 DEF IInv, BackendOK, Only
  <2>2. backend.building = TRUE => backend.creating = TRUE \/ backend.factory = FALSE
    BY DEF IInv, BackendOK
  <2>3. QED
    BY <1>1, <1>4, <2>1, <2>2 DEF BackendOK, Forgotten
<1>8. QueuesOK'
  <2>1. \A e \in Entries : ToSet(pending_queue[e]) \subseteq Trans
    BY DEF IInv, Types, ToSet
  <2>2. QED
    BY <1>2, <1>4, <2>1 DEF IInv, QueuesOK, Forgotten, Only
<1>9. \A u \in Trans \ {t} : Queued(u) => Queued(u)'
  BY <1>4 DEF Queued, InQueue, Forgotten
<1>10. CallsOK' /\ Placed'
  BY <1>1, <1>2, <1>3, <1>9, CallsIdle
<1>11. BetweenOK'
  BY <1>1, <1>2, <1>3, BetweenKept DEF Acts
<1>12. Types'
  BY <1>1, <1>2, <1>4 DEF IInv, Types, Only, Forgotten
<1>13. QED
  BY <1>4, <1>5, <1>6, <1>7, <1>8, <1>10, <1>11, <1>12 DEF IInv, Forgotten
-----------------------------------------------------------------------------
(* A transaction gets an entry. *)

(* The tasks once those of e are gone. *)
TasksLeft(e, left) ==
  /\ left \in Seq(Entries \cup {BackendTask}) /\ NoDup(left)
  /\ ToSet(left) = ToSet(tasks) \ {e}

LEMMA TasksLeftAlone ==
  ASSUME IInv, NEW e \in Entries, will_process[e] = FALSE
  PROVE  TasksLeft(e, tasks)
<1>1. tasks \in Seq(Entries \cup {BackendTask}) /\ NoDup(tasks) /\ e \notin ToSet(tasks)
  BY DEF IInv, Types, Posted
<1>2. QED
  BY <1>1 DEF TasksLeft

LEMMA TasksLeftTail ==
  ASSUME IInv, tasks # <<>>, Head(tasks) # BackendTask
  PROVE  /\ Head(tasks) \in Entries /\ TasksLeft(Head(tasks), Tail(tasks))
         /\ will_process[Head(tasks)] = TRUE
<1>1. tasks \in Seq(Entries \cup {BackendTask}) /\ NoDup(tasks)
  BY DEF IInv, Types, Posted
<1>2. /\ Head(tasks) \in ToSet(tasks) /\ Head(tasks) \in Entries \cup {BackendTask}
      /\ Tail(tasks) \in Seq(Entries \cup {BackendTask})
      /\ NoDup(Tail(tasks)) /\ ToSet(Tail(tasks)) = ToSet(tasks) \ {Head(tasks)}
  BY <1>1, TailList
<1>3. QED
  BY <1>2 DEF TasksLeft, IInv, Posted

(* Afterwards e has a task or not. *)
LEMMA TaskPosted ==
  ASSUME IInv, NEW e \in Entries, NEW left, TasksLeft(e, left),
         PostProcessPendingQueue(e, left), UNCHANGED backend
  PROVE  /\ Posted' /\ tasks' \in Seq(Entries \cup {BackendTask})
         /\ will_process' \in [Entries -> BOOLEAN] /\ will_process'[e] = TRUE
         /\ \A d \in Entries \ {e} : will_process'[d] = will_process[d]
<1>1. /\ will_process' \in [Entries -> BOOLEAN] /\ will_process'[e] = TRUE
      /\ \A d \in Entries \ {e} : will_process'[d] = will_process[d]
  BY DEF PostProcessPendingQueue, IInv, Types
<1>2. left \in Seq(Entries \cup {BackendTask}) /\ NoDup(left) /\ ToSet(left) = ToSet(tasks) \ {e}
      /\ e \in Entries \cup {BackendTask} /\ e # BackendTask /\ tasks' = Append(left, e)
  BY NullAssumption DEF TasksLeft, PostProcessPendingQueue
<1>3. /\ Append(left, e) \in Seq(Entries \cup {BackendTask})
      /\ ToSet(Append(left, e)) = ToSet(left) \cup {e}
      /\ NoDup(Append(left, e))
  BY <1>2, AppendList
<1>4. Posted'
  BY <1>1, <1>2, <1>3 DEF IInv, Posted
<1>5. QED
  BY <1>1, <1>2, <1>3, <1>4

LEMMA TaskTaken ==
  ASSUME IInv, NEW e \in Entries, NEW left, TasksLeft(e, left),
         will_process' = [will_process EXCEPT ![e] = FALSE], tasks' = left, UNCHANGED backend
  PROVE  /\ Posted' /\ tasks' \in Seq(Entries \cup {BackendTask})
         /\ will_process' \in [Entries -> BOOLEAN] /\ will_process'[e] = FALSE
         /\ \A d \in Entries \ {e} : will_process'[d] = will_process[d]
<1>1. /\ will_process' \in [Entries -> BOOLEAN] /\ will_process'[e] = FALSE
      /\ \A d \in Entries \ {e} : will_process'[d] = will_process[d]
  BY DEF IInv, Types
<1>2. left \in Seq(Entries \cup {BackendTask}) /\ NoDup(left) /\ ToSet(left) = ToSet(tasks) \ {e}
      /\ e # BackendTask
  BY NullAssumption DEF TasksLeft
<1>3. Posted'
  BY <1>1, <1>2 DEF IInv, Posted
<1>4. QED
  BY <1>1, <1>2, <1>3

(* The users of the entries when t is one of e's from now on. *)
LEMMA EntryTaken ==
  ASSUME IInv, NEW t \in Trans, NEW e \in Entries, Only(t), live[e] = TRUE,
         trans[t].state # "attached", trans[t].state = "add" => trans[t].new_entry = e,
         trans'[t].state = "attached", trans'[t].entry = e, writer[e] = None,
         \/ /\ Writes(trans'[t].mode) /\ readers[e] = {} /\ will_process'[e] = FALSE
            /\ writer' = [writer EXCEPT ![e] = t] /\ UNCHANGED readers
         \/ /\ ~Writes(trans'[t].mode)
            /\ readers' = [readers EXCEPT ![e] = readers[e] \cup {t}] /\ UNCHANGED writer,
         \A d \in Entries \ {e} : /\ will_process'[d] = will_process[d]
                                  /\ pending_queue'[d] = pending_queue[d],
         UNCHANGED <<active, live, doomed>>
  PROVE  /\ Freed' /\ Listed' /\ Held' /\ LockOK'
         /\ writer' \in [Entries -> Trans \cup {None}] /\ readers' \in [Entries -> SUBSET Trans]
<1>1. /\ writer \in [Entries -> Trans \cup {None}] /\ readers \in [Entries -> SUBSET Trans]
      /\ live \in [Entries -> BOOLEAN] /\ None \notin Trans
  BY NullAssumption DEF IInv, Types
<1>2. /\ writer' \in [Entries -> Trans \cup {None}] /\ readers' \in [Entries -> SUBSET Trans]
      /\ \A d \in Entries \ {e} : writer'[d] = writer[d] /\ readers'[d] = readers[d]
      /\ \/ /\ Writes(trans'[t].mode) /\ readers'[e] = {} /\ will_process'[e] = FALSE
            /\ writer'[e] = t /\ readers[e] = {}
         \/ /\ ~Writes(trans'[t].mode) /\ readers'[e] = readers[e] \cup {t} /\ writer'[e] = None
  BY <1>1
<1>3. Freed' /\ Listed'
  BY <1>1, <1>2 DEF IInv, Freed, Listed
<1>4. Held'
  <2>1. ASSUME NEW d \in Entries, live[d] = TRUE
        PROVE  \/ writer'[d] # None \/ readers'[d] # {} \/ will_process'[d] = TRUE
               \/ \E u \in Trans : trans'[u].state = "add" /\ trans'[u].new_entry = d
    <3>1. CASE d = e
      BY <1>1, <1>2, <3>1
    <3>2. CASE d # e
      BY <1>2, <2>1, <3>2 DEF IInv, Held, Only
    <3>3. QED
      BY <3>1, <3>2
  <2>2. QED
    BY <2>1 DEF Held
<1>5. LockOK'
  <2>1. \A d \in Entries : writer'[d] # None => readers'[d] = {} /\ will_process'[d] = FALSE
    BY <1>2 DEF IInv, LockOK
  <2>2. ASSUME NEW u \in Trans, NEW d \in Entries
        PROVE  LET holds == trans'[u].state = "attached" /\ trans'[u].entry = d
               IN /\ writer'[d] = u <=> holds /\ Writes(trans'[u].mode)
                  /\ u \in readers'[d] <=> holds /\ ~Writes(trans'[u].mode)
    <3>1. LET holds == trans[u].state = "attached" /\ trans[u].entry = d
          IN /\ writer[d] = u <=> holds /\ Writes(trans[u].mode)
             /\ u \in readers[d] <=> holds /\ ~Writes(trans[u].mode)
      BY DEF IInv, LockOK
    <3>2. CASE u = t
      BY <1>1, <1>2, <3>1, <3>2
    <3>3. CASE u # t
      <4>1. trans'[u] = trans[u]
        BY <3>3 DEF Only
      <4>2. CASE d = e
        BY <1>1, <1>2, <3>1, <3>3, <4>1, <4>2
      <4>3. CASE d # e
        BY <1>2, <3>1, <4>1, <4>3
      <4>4. QED
        BY <4>2, <4>3
    <3>4. QED
      BY <3>2, <3>3
  <2>3. \A u \in Trans : trans'[u].state = "attached" => trans'[u].entry \in Entries
    BY DEF IInv, LockOK, Only
  <2>4. QED
    BY <2>1, <2>2, <2>3 DEF LockOK
<1>6. QED
  BY <1>2, <1>3, <1>4, <1>5

(* AddTransactionToEntry when the transaction need not wait. *)
Adding(e, t, mode, queue, left) ==
  /\ Only(t) /\ live[e] = TRUE
  /\ trans[t].state # "attached" /\ (trans[t].state = "add" => trans[t].new_entry = e)
  /\ trans'[t].state = "attached" /\ trans'[t].entry = e /\ trans'[t].mode = mode
  /\ TasksLeft(e, left) /\ MayAdd(e, mode, FALSE)
  /\ AddTransactionToEntry(e, t, mode, queue, FALSE, left)
  /\ UNCHANGED <<active, live, doomed, backend>>

Added(e, t, queue) ==
  /\ Freed' /\ Listed' /\ Held' /\ LockOK' /\ Posted'
  /\ writer' \in [Entries -> Trans \cup {None}] /\ readers' \in [Entries -> SUBSET Trans]
  /\ will_process' \in [Entries -> BOOLEAN] /\ tasks' \in Seq(Entries \cup {BackendTask})
  /\ pending_queue' = [pending_queue EXCEPT ![e] = queue]
  /\ pending_queue' \in [Entries -> Seq(Trans)]
  /\ \A d \in Entries \ {e} : /\ writer'[d] = writer[d] /\ readers'[d] = readers[d]
                              /\ pending_queue'[d] = pending_queue[d]
  /\ pending_queue'[e] = queue
  /\ writer'[e] \in {t, None} /\ readers'[e] \subseteq readers[e] \cup {t}

LEMMA TransactionAdded ==
  ASSUME IInv, NEW t \in Trans, NEW e \in Entries, NEW mode, NEW queue \in Seq(Trans), NEW left,
         Adding(e, t, mode, queue, left)
  PROVE  Added(e, t, queue)
<1> USE DEF Adding
<1>1. writer[e] = None /\ (Writes(mode) => readers[e] = {})
  BY DEF MayAdd
<1>2. /\ pending_queue' = [pending_queue EXCEPT ![e] = queue]
      /\ \/ /\ Writes(mode) /\ writer' = [writer EXCEPT ![e] = t] /\ UNCHANGED readers
            /\ will_process' = [will_process EXCEPT ![e] = FALSE] /\ tasks' = left
         \/ /\ ~Writes(mode) /\ readers' = [readers EXCEPT ![e] = readers[e] \cup {t}]
            /\ UNCHANGED writer
            /\ \/ will_process' = [will_process EXCEPT ![e] = FALSE] /\ tasks' = left
               \/ PostProcessPendingQueue(e, left)
  BY DEF AddTransactionToEntry
<1>3. /\ Posted' /\ tasks' \in Seq(Entries \cup {BackendTask})
      /\ will_process' \in [Entries -> BOOLEAN]
      /\ \A d \in Entries \ {e} : will_process'[d] = will_process[d]
      /\ Writes(mode) => will_process'[e] = FALSE
  BY <1>2, TaskPosted, TaskTaken
<1>4. /\ pending_queue' \in [Entries -> Seq(Trans)] /\ pending_queue'[e] = queue
      /\ \A d \in Entries \ {e} : pending_queue'[d] = pending_queue[d]
  BY <1>2 DEF IInv, Types
<1>5. /\ Freed' /\ Listed' /\ Held' /\ LockOK'
      /\ writer' \in [Entries -> Trans \cup {None}] /\ readers' \in [Entries -> SUBSET Trans]
  BY <1>1, <1>2, <1>3, <1>4, EntryTaken
<1>6. /\ \A d \in Entries \ {e} : writer'[d] = writer[d] /\ readers'[d] = readers[d]
      /\ writer'[e] \in {t, None} /\ readers'[e] \subseteq readers[e] \cup {t}
  BY <1>1, <1>2 DEF IInv, Types
<1>7. QED
  BY <1>2, <1>3, <1>4, <1>5, <1>6 DEF Added

LEMMA DoAddToEntryStep ==
  ASSUME IInv, NEW t \in Trans, DoAddToEntry(t)
  PROVE  IInv' /\ Joins
<1>1. PICK e, mode, posted :
        /\ e = trans[t].new_entry /\ mode = trans[t].mode /\ posted = will_process[e]
  OBVIOUS
<1>2. /\ IsTop("DoLoop") /\ Top.trans = t /\ trans[t].state = "add" /\ trans[t] \in TransType
      /\ AddTransactionToEntry(e, t, mode, pending_queue[e], posted, tasks)
      /\ IF MayAdd(e, mode, posted) THEN Continue(t, DoAddToEntryComplete(trans[t], "OK"))
                                    ELSE Wait(t, "add_wait")
      /\ UNCHANGED <<active, live, doomed, op, backendVars, sync>>
  BY <1>1, RunsTop DEF DoAddToEntry, IInv, Types
<1>3. /\ e \in Entries /\ e = active /\ live[e] = TRUE /\ doomed[e] = FALSE /\ op = None
      /\ doomed \in [Entries -> BOOLEAN] /\ posted \in BOOLEAN
  <2>1. e = active /\ active # None
    BY <1>1, <1>2 DEF IInv, BetweenOK
  <2>2. QED
    BY <1>1, <2>1 DEF IInv, Types, Listed, OpOK
<1>4. /\ trans[t].state \notin Waits /\ trans[t].state # "attached"
      /\ pending_queue \in [Entries -> Seq(Trans)] /\ pending_queue[e] \in Seq(Trans)
  BY <1>2, <1>3 DEF Waits, IInv, Types
<1>5. /\ ~InPendingOp(op, t) /\ ~InBackendOp(t)
      /\ \A d \in Entries : t \notin ToSet(pending_queue[d])
  BY <1>4, NotListed
<1>6. Acts(t)
  BY <1>2 DEF Acts
<1>7. StaysUnlisted
  BY <1>2 DEF StaysUnlisted
<1>8. CASE MayAdd(e, mode, posted)
  <2>1. PICK new : new = DoAddToEntryComplete(trans[t], "OK")
    OBVIOUS
  <2>2. Attached(new, trans[t])
    BY <1>2, <2>1, AddCompleteStates
  <2>3. /\ Only(t) /\ trans'[t] = new /\ UNCHANGED stack
        /\ trans'[t].state = "attached" /\ trans'[t].entry = e /\ trans'[t].mode = mode
    BY <1>1, <1>2, <1>8, <2>1, <2>2, BecomesOnly DEF Continue, Attached, IInv
  <2>4. posted = FALSE
    BY <1>3, <1>8 DEF MayAdd
  <2>5. /\ MayAdd(e, mode, FALSE) /\ will_process[e] = FALSE
        /\ AddTransactionToEntry(e, t, mode, pending_queue[e], FALSE, tasks)
    BY <1>1, <1>2, <1>8, <2>4
  <2>6. TasksLeft(e, tasks)
    BY <1>3, <2>5, TasksLeftAlone
  <2>7. PICK q : q = pending_queue[e]
    OBVIOUS
  <2>8. /\ Freed' /\ Listed' /\ Held' /\ LockOK' /\ Posted'
        /\ writer' \in [Entries -> Trans \cup {None}] /\ readers' \in [Entries -> SUBSET Trans]
        /\ will_process' \in [Entries -> BOOLEAN] /\ tasks' \in Seq(Entries \cup {BackendTask})
        /\ pending_queue' = [pending_queue EXCEPT ![e] = q]
        /\ \A d \in Entries \ {e} : writer'[d] = writer[d] /\ readers'[d] = readers[d]
    <3>1. AddTransactionToEntry(e, t, mode, q, FALSE, tasks) /\ q \in Seq(Trans)
      BY <1>4, <2>5, <2>7
    <3>2. trans[t].state = "add" => trans[t].new_entry = e
      BY <1>1
    <3>3. UNCHANGED <<active, live, doomed, backend>>
      BY <1>2 DEF backendVars
    <3>4. PICK left : left = tasks
      OBVIOUS
    <3>5. Adding(e, t, mode, q, left)
      BY <1>3, <1>4, <2>3, <2>5, <2>6, <3>1, <3>2, <3>3, <3>4 DEF Adding
    <3>6. Added(e, t, q)
      BY <1>3, <3>1, <3>5, TransactionAdded
    <3>7. QED
      BY <3>6 DEF Added
  <2>9. UNCHANGED pending_queue
    BY <1>4, <2>7, <2>8
  <2>10. trans'[t].state \notin Waits
    BY <2>3 DEF Waits
  <2>11. BackendOK' /\ OpOK' /\ QueuesOK' /\ CallsOK' /\ Placed'
    BY <1>2, <1>3, <1>4, <1>6, <1>7, <2>3, <2>9, <2>10, QuietLists
  <2>12. BetweenOK'
    BY <1>6, <2>3, BetweenKept
  <2>13. Joins
    BY <1>3, <2>8, <2>9 DEF Joins, Joined
  <2>14. Types'
    BY <1>2, <2>3, <2>8, <2>9 DEF IInv, Types, Only, backendVars
  <2>15. QED
    BY <2>8, <2>11, <2>12, <2>13, <2>14 DEF IInv
<1>9. CASE ~MayAdd(e, mode, posted)
  <2>1. /\ pending_queue' = [pending_queue EXCEPT ![e] = Append(pending_queue[e], t)]
        /\ will_process' = [will_process EXCEPT ![e] = posted] /\ tasks' = tasks
        /\ UNCHANGED <<writer, readers>>
    BY <1>2, <1>9 DEF AddTransactionToEntry
  <2>2. UNCHANGED will_process
    BY <1>1, <1>3, <2>1 DEF IInv, Types
  <2>3. "add_wait" \in States /\ "add_wait" \in Waits
    BY DEF States, Waits
  <2>4. /\ Moved(trans[t], "add_wait") \in TransType
        /\ Moved(trans[t], "add_wait").state = "add_wait"
        /\ Moved(trans[t], "add_wait").new_entry = e
    BY <1>1, <1>2, <2>3, MovedFields
  <2>5. /\ Only(t) /\ trans'[t].state = "add_wait" /\ trans'[t].new_entry = e
        /\ stack' = Front(stack)
    BY <1>2, <1>9, <2>4, BecomesOnly DEF Wait, IInv
  <2>6. /\ Append(pending_queue[e], t) \in Seq(Trans)
        /\ ToSet(Append(pending_queue[e], t)) = ToSet(pending_queue[e]) \cup {t}
        /\ NoDup(Append(pending_queue[e], t))
    <3>1. NoDup(pending_queue[e]) /\ t \notin ToSet(pending_queue[e])
      BY <1>3, <1>5 DEF IInv, QueuesOK
    <3>2. QED
      BY <1>4, <3>1, AppendList
  <2>7. /\ pending_queue' \in [Entries -> Seq(Trans)]
        /\ pending_queue'[e] = Append(pending_queue[e], t)
        /\ \A d \in Entries \ {e} : pending_queue'[d] = pending_queue[d]
    BY <1>3, <1>4, <2>1, <2>6
  <2>8. QueuesOK'
    <3>1. \A d \in Entries : ToSet(pending_queue[d]) \subseteq Trans
      BY DEF IInv, Types, ToSet
    <3>2. \A d \in Entries : \A u \in ToSet(pending_queue[d]) :
            trans'[u].state = "add_wait" /\ trans'[u].new_entry = d
      BY <1>5, <2>5, <3>1 DEF IInv, QueuesOK, Only
    <3>3. \A d \in Entries \ {e} :
            NoDup(pending_queue'[d]) /\ ToSet(pending_queue'[d]) = ToSet(pending_queue[d])
      BY <2>7 DEF IInv, QueuesOK
    <3>4. /\ NoDup(pending_queue'[e])
          /\ ToSet(pending_queue'[e]) = ToSet(pending_queue[e]) \cup {t}
      BY <2>6, <2>7
    <3>5. QED
      BY <2>5, <3>2, <3>3, <3>4 DEF QueuesOK
  <2>9. Freed' /\ Listed'
    BY <1>2, <1>3, <2>1, <2>2, <2>7 DEF IInv, Freed, Listed
  <2>10. Held'
    <3>1. writer[e] # None \/ readers[e] # {} \/ will_process[e] = TRUE
      BY <1>1, <1>3, <1>9 DEF MayAdd
    <3>2. ASSUME NEW d \in Entries, live[d] = TRUE
          PROVE  \/ writer[d] # None \/ readers[d] # {} \/ will_process[d] = TRUE
                 \/ \E u \in Trans : trans'[u].state = "add" /\ trans'[u].new_entry = d
      BY <1>1, <2>5, <3>1, <3>2 DEF IInv, Held, Only
    <3>3. QED
      BY <1>2, <2>1, <2>2, <3>2 DEF Held
  <2>11. LockOK'
    <3>1. trans'[t].state # "attached" /\ UNCHANGED <<writer, readers, will_process>>
      BY <2>1, <2>2, <2>5
    <3>2. QED
      BY <1>4, <2>5, <3>1, LockKept
  <2>12. Posted'
    BY <1>2, <2>1, <2>2, PostedKept DEF backendVars
  <2>13. BackendOK'
    BY <1>2, <1>5, <2>5, BackendKept
  <2>14. OpOK'
    BY <1>2, <1>3 DEF OpOK
  <2>15. OthersQueued(t) /\ Queued(t)'
    <3>1. \A u \in Trans \ {t} : \A d \in Entries : InQueue(d, u)' <=> InQueue(d, u)
      BY <2>6, <2>7 DEF InQueue
    <3>2. InQueue(e, t)'
      BY <1>3, <2>6, <2>7, NullAssumption DEF InQueue
    <3>3. QED
      BY <1>2, <1>3, <3>1, <3>2 DEF OthersQueued, Queued, InBackendOp, backendVars
  <2>16. CallsOK' /\ Placed' /\ stack' \in Seq(Frame)
    BY <1>2, <1>7, <2>5, <2>15, CallsWait
  <2>17. BetweenOK'
    BY <1>6, <2>5, BetweenKept
  <2>18. Joins
    BY <1>3, <2>1, <2>7 DEF Joins, Joined
  <2>19. Types'
    BY <1>2, <2>1, <2>2, <2>5, <2>7, <2>16 DEF IInv, Types, Only, backendVars
  <2>20. QED
    BY <2>8, <2>9, <2>10, <2>11, <2>12, <2>13, <2>14, <2>16, <2>17, <2>18, <2>19 DEF IInv
<1>10. QED
  BY <1>8, <1>9
-----------------------------------------------------------------------------
(* An entry is destroyed. *)

(* `dooms' and `listed' are doomed and active, maybe after the active entry was
   doomed. *)
Unlists(dooms, listed) ==
  /\ dooms \in [Entries -> BOOLEAN] /\ listed \in {active, None}
  /\ \A d \in Entries : live[d] = TRUE => (dooms[d] = TRUE <=> listed # d)
  /\ \A d \in Entries : live[d] = FALSE => dooms[d] = FALSE

LEMMA UnlistsNothing ==
  ASSUME IInv
  PROVE  Unlists(doomed, active)
BY DEF Unlists, IInv, Types, Listed, Freed

LEMMA UnlistsActive ==
  ASSUME IInv
  PROVE  Unlists(WithActive, None)
<1>1. /\ doomed \in [Entries -> BOOLEAN] /\ active \in Entries \cup {None}
      /\ Listed /\ Freed /\ None \notin Entries
  BY NullAssumption DEF IInv, Types
<1>2. CASE active = None
  <2>1. WithActive = doomed
    BY <1>2 DEF WithActive
  <2>2. QED
    BY <1>1, <1>2, <2>1 DEF Unlists, Listed, Freed
<1>3. CASE active # None
  <2>1. WithActive = [doomed EXCEPT ![active] = TRUE] /\ active \in Entries
    BY <1>1, <1>3 DEF WithActive
  <2>2. /\ WithActive \in [Entries -> BOOLEAN] /\ WithActive[active] = TRUE
        /\ \A e \in Entries \ {active} : WithActive[e] = doomed[e]
    BY <1>1, <2>1
  <2>3. live[active] = TRUE
    BY <1>1, <1>3 DEF Listed
  <2>4. QED
    BY <1>1, <2>1, <2>2, <2>3 DEF Unlists, Listed, Freed
<1>4. QED
  BY <1>2, <1>3

Destroyed(e) ==
  /\ active' \in Entries \cup {None} /\ active' \in {active, None}
  /\ live' \in [Entries -> BOOLEAN] /\ doomed' \in [Entries -> BOOLEAN]
  /\ writer' \in [Entries -> Trans \cup {None}] /\ readers' \in [Entries -> SUBSET Trans]
  /\ pending_queue' \in [Entries -> Seq(Trans)] /\ will_process' \in [Entries -> BOOLEAN]
  /\ live'[e] = FALSE /\ writer'[e] = None /\ readers'[e] = {} /\ pending_queue'[e] = <<>>
  /\ will_process'[e] = FALSE /\ doomed'[e] = FALSE
  /\ \A d \in Entries \ {e} : /\ live'[d] = live[d] /\ writer'[d] = writer[d]
                              /\ readers'[d] = readers[d] /\ will_process'[d] = will_process[d]
                              /\ pending_queue'[d] = pending_queue[d]
  /\ Freed' /\ Listed' /\ Joins

LEMMA EntryDestroyed ==
  ASSUME IInv, NEW e \in Entries, live[e] = TRUE, NEW dooms, NEW listed,
         Unlists(dooms, listed), DestroyEntry(e, dooms, listed)
  PROVE  Destroyed(e)
<1>1. /\ active \in Entries \cup {None} /\ live \in [Entries -> BOOLEAN]
      /\ writer \in [Entries -> Trans \cup {None}] /\ readers \in [Entries -> SUBSET Trans]
      /\ pending_queue \in [Entries -> Seq(Trans)] /\ will_process \in [Entries -> BOOLEAN]
      /\ <<>> \in Seq(Trans) /\ None \notin Entries
  BY NullAssumption DEF IInv, Types
<1>2. /\ dooms \in [Entries -> BOOLEAN] /\ listed \in {active, None}
      /\ (\A d \in Entries : live[d] = TRUE => (dooms[d] = TRUE <=> listed # d))
      /\ \A d \in Entries : live[d] = FALSE => dooms[d] = FALSE
  BY DEF Unlists
<1>3. /\ live' \in [Entries -> BOOLEAN] /\ live'[e] = FALSE
      /\ writer' \in [Entries -> Trans \cup {None}] /\ writer'[e] = None
      /\ readers' \in [Entries -> SUBSET Trans] /\ readers'[e] = {}
      /\ \A d \in Entries \ {e} : /\ live'[d] = live[d] /\ writer'[d] = writer[d]
                                  /\ readers'[d] = readers[d]
  BY <1>1 DEF DestroyEntry
<1>4. /\ pending_queue' \in [Entries -> Seq(Trans)] /\ pending_queue'[e] = <<>>
      /\ will_process' \in [Entries -> BOOLEAN] /\ will_process'[e] = FALSE
      /\ \A d \in Entries \ {e} : /\ will_process'[d] = will_process[d]
                                  /\ pending_queue'[d] = pending_queue[d]
  BY <1>1 DEF DestroyEntry
<1>5. /\ doomed' \in [Entries -> BOOLEAN] /\ doomed'[e] = FALSE
      /\ \A d \in Entries \ {e} : doomed'[d] = dooms[d]
  BY <1>2 DEF DestroyEntry
<1>6. /\ active' \in {active, None} /\ active' \in Entries \cup {None}
      /\ dooms[e] = TRUE => active' = listed
      /\ dooms[e] = FALSE => active' = None /\ listed = e
  BY <1>1, <1>2 DEF DestroyEntry
<1>7. Freed'
  <2>1. ASSUME NEW d \in Entries \ {e}, live'[d] = FALSE
        PROVE  /\ writer'[d] = None /\ readers'[d] = {} /\ pending_queue'[d] = <<>>
               /\ will_process'[d] = FALSE /\ doomed'[d] = FALSE
    <3>1. live[d] = FALSE
      BY <1>3, <2>1
    <3>2. /\ writer[d] = None /\ readers[d] = {} /\ pending_queue[d] = <<>>
          /\ will_process[d] = FALSE /\ dooms[d] = FALSE
      BY <1>2, <3>1 DEF IInv, Freed
    <3>3. QED
      BY <1>3, <1>4, <1>5, <3>2
  <2>2. QED
    BY <1>3, <1>4, <1>5, <2>1 DEF Freed
<1>8. Listed'
  <2>1. active # None => live[active] = TRUE
    BY DEF IInv, Listed
  <2>2. dooms[e] \in BOOLEAN
    BY <1>2
  <2>3. active' # e
    BY <1>1, <1>2, <1>6, <2>2
  <2>4. active' # None => live'[active'] = TRUE
    BY <1>1, <1>3, <1>6, <2>1, <2>3
  <2>5. \A d \in Entries \ {e} : live[d] = TRUE => (dooms[d] = TRUE <=> active' # d)
    BY <1>1, <1>2, <1>6, <2>2
  <2>6. QED
    BY <1>3, <1>5, <2>4, <2>5 DEF Listed
<1>9. Joins
  <2>1. Joined(e)' \subseteq {None}
    BY <1>3, <1>4, EmptyList DEF Joined
  <2>2. \A d \in Entries \ {e} : Joined(d)' = Joined(d)
    BY <1>3, <1>4 DEF Joined
  <2>3. QED
    BY <2>1, <2>2 DEF Joins
<1>10. QED
  BY <1>3, <1>4, <1>5, <1>6, <1>7, <1>8, <1>9 DEF Destroyed

(* Nobody uses the destroyed entry, its writer t least of all. *)
LEMMA UsersGone ==
  ASSUME IInv, NEW t \in Trans, NEW e \in Entries, Only(t), Destroyed(e), readers[e] = {},
         \/ writer[e] = None /\ trans' = trans
         \/ writer[e] = t /\ trans'[t].state # "attached"
  PROVE  Held' /\ LockOK'
<1>1. /\ live'[e] = FALSE /\ writer'[e] = None /\ readers'[e] = {} /\ None \notin Trans
      /\ will_process'[e] = FALSE
      /\ \A d \in Entries \ {e} : /\ live'[d] = live[d] /\ writer'[d] = writer[d]
                                  /\ readers'[d] = readers[d] /\ will_process'[d] = will_process[d]
  BY NullAssumption DEF Destroyed
<1>2. writer[e] = t => trans[t].state = "attached" /\ trans[t].entry = e
  BY DEF IInv, LockOK
<1>3. \A u \in Trans : u = writer[e] \/ trans'[u] = trans[u]
  BY DEF Only
<1>4. Held'
  <2>1. ASSUME NEW d \in Entries, live'[d] = TRUE
        PROVE  \/ writer'[d] # None \/ readers'[d] # {} \/ will_process'[d] = TRUE
               \/ \E u \in Trans : trans'[u].state = "add" /\ trans'[u].new_entry = d
    <3>1. d # e /\ live[d] = TRUE
      BY <1>1, <2>1
    <3>2. \/ writer[d] # None \/ readers[d] # {} \/ will_process[d] = TRUE
          \/ \E u \in Trans : trans[u].state = "add" /\ trans[u].new_entry = d
      BY <3>1 DEF IInv, Held
    <3>3. \A u \in Trans : trans[u].state = "add" => trans'[u] = trans[u]
      BY <1>2, <1>3
    <3>4. QED
      BY <1>1, <3>1, <3>2, <3>3
  <2>2. QED
    BY <2>1 DEF Held
<1>5. LockOK'
  <2>1. \A d \in Entries : writer'[d] # None => readers'[d] = {} /\ will_process'[d] = FALSE
    BY <1>1 DEF IInv, LockOK
  <2>2. ASSUME NEW u \in Trans, NEW d \in Entries
        PROVE  LET holds == trans'[u].state = "attached" /\ trans'[u].entry = d
               IN /\ writer'[d] = u <=> holds /\ Writes(trans'[u].mode)
                  /\ u \in readers'[d] <=> holds /\ ~Writes(trans'[u].mode)
    <3>1. \A c \in Entries :
            LET holds == trans[u].state = "attached" /\ trans[u].entry = c
            IN /\ writer[c] = u <=> holds /\ Writes(trans[u].mode)
               /\ u \in readers[c] <=> holds /\ ~Writes(trans[u].mode)
      BY DEF IInv, LockOK
    <3>2. CASE u = writer[e]
      <4>1. trans'[u].state # "attached" /\ trans[u].entry = e
        BY <1>1, <1>2, <3>2
      <4>2. CASE d = e
        BY <1>1, <4>1, <4>2
      <4>3. CASE d # e
        BY <1>1, <3>1, <4>1, <4>3
      <4>4. QED
        BY <4>2, <4>3
    <3>3. CASE u # writer[e]
      <4>1. trans'[u] = trans[u]
        BY <1>3, <3>3
      <4>2. CASE d = e
        BY <1>1, <3>1, <3>3, <4>1, <4>2
      <4>3. CASE d # e
        BY <1>1, <3>1, <4>1, <4>3
      <4>4. QED
        BY <4>2, <4>3
    <3>4. QED
      BY <3>2, <3>3
  <2>3. \A u \in Trans : trans'[u].state = "attached" => trans'[u].entry \in Entries
    BY <1>3 DEF IInv, LockOK
  <2>4. QED
    BY <2>1, <2>2, <2>3 DEF LockOK
<1>6. QED
  BY <1>4, <1>5

(* Nobody waits for the entry and nobody has it. *)
LEMMA LastUserGone ==
  ASSUME IInv, NEW e \in Entries, stack = <<>>, UNCHANGED <<trans, stack, op, backendVars, sync>>,
         writer[e] = None, readers[e] = {}, pending_queue[e] = <<>>, live[e] = TRUE,
         NEW left, TasksLeft(e, left), tasks' = left, DestroyEntry(e, doomed, active)
  PROVE  IInv' /\ Joins
<1>1. Destroyed(e)
  <2>1. PICK dooms, listed : dooms = doomed /\ listed = active
    OBVIOUS
  <2>2. Unlists(dooms, listed) /\ DestroyEntry(e, dooms, listed)
    BY <2>1, UnlistsNothing
  <2>3. QED
    BY <2>2, EntryDestroyed
<1>2. /\ Posted' /\ tasks' \in Seq(Entries \cup {BackendTask})
  <2>1. will_process' = [will_process EXCEPT ![e] = FALSE]
    BY DEF DestroyEntry
  <2>2. QED
    BY <2>1, TaskTaken DEF backendVars
<1>3. Held' /\ LockOK'
  <2>1. 1 \in Trans
    BY MaxTransAssumption DEF Trans
  <2>2. Only(1)
    BY DEF Only, IInv, Types
  <2>3. QED
    BY <1>1, <2>1, <2>2, UsersGone
<1>4. UNCHANGED pending_queue
  <2>1. \A d \in Entries : pending_queue'[d] = pending_queue[d]
    BY <1>1 DEF Destroyed
  <2>2. QED
    BY <1>1, <2>1 DEF Destroyed, IInv, Types
<1>5. OpOK'
  BY <1>1 DEF IInv, OpOK, Destroyed
<1>6. BackendOK' /\ QueuesOK'
  BY <1>4 DEF IInv, BackendOK, InBackendOp, QueuesOK, backendVars
<1>7. CallsOK'
  BY StackEmpty DEF CallsOK
<1>8. Placed'
  BY <1>4 DEF IInv, Placed, Waiting, Queued, InBackendOp, InQueue, BeingNotified, backendVars
<1>9. BetweenOK'
  BY NobodyBetween DEF IsTop
<1>10. Types'
  BY <1>1, <1>2 DEF IInv, Types, Destroyed, backendVars
<1>11. QED
  BY <1>1, <1>2, <1>3, <1>5, <1>6, <1>7, <1>8, <1>9, <1>10 DEF IInv, Destroyed

(* The entry's task finds nothing to do: it has readers. *)
LEMMA NothingToProcess ==
  ASSUME IInv, NEW e \in Entries, stack = <<>>, writer[e] = None, readers[e] # {},
         NEW left, TasksLeft(e, left), tasks' = left,
         will_process' = [will_process EXCEPT ![e] = FALSE],
         UNCHANGED <<active, live, doomed, writer, readers, pending_queue, trans, stack, op,
                     backendVars, sync>>
  PROVE  IInv' /\ Joins
<1>1. /\ Posted' /\ tasks' \in Seq(Entries \cup {BackendTask})
      /\ will_process' \in [Entries -> BOOLEAN] /\ will_process'[e] = FALSE
      /\ \A d \in Entries \ {e} : will_process'[d] = will_process[d]
  BY TaskTaken DEF backendVars
<1>2. Freed' /\ Listed'
  BY <1>1 DEF IInv, Freed, Listed
<1>3. Held'
  BY <1>1 DEF IInv, Held
<1>4. LockOK'
  BY <1>1 DEF IInv, LockOK
<1>5. OpOK' /\ BackendOK' /\ QueuesOK'
  BY DEF IInv, OpOK, BackendOK, InBackendOp, QueuesOK, backendVars
<1>6. CallsOK'
  BY StackEmpty DEF CallsOK
<1>7. Placed'
  BY DEF IInv, Placed, Waiting, Queued, InBackendOp, InQueue, BeingNotified, backendVars
<1>8. BetweenOK'
  BY NobodyBetween DEF IsTop
<1>9. Types'
  BY <1>1 DEF IInv, Types, backendVars
<1>10. Joins
  BY JoinsKept
<1>11. QED
  BY <1>1, <1>2, <1>3, <1>4, <1>5, <1>6, <1>7, <1>8, <1>9, <1>10 DEF IInv

(* The transaction at the head of the queue gets the entry and goes on. *)
LEMMA HeadOfQueueAdded ==
  ASSUME IInv, NEW e \in Entries, stack = <<>>, writer[e] = None, live[e] = TRUE,
         NEW queue, queue = pending_queue[e], queue # <<>>, NEW t, t = Head(queue),
         NEW left, TasksLeft(e, left), ~(Writes(trans[t].mode) /\ readers[e] # {}),
         AddTransactionToEntry(e, t, trans[t].mode, Tail(queue), FALSE, left),
         NotifyTransaction(<<>>, WorkItem("ADD", t), "OK", None),
         UNCHANGED <<active, live, doomed, op, backendVars, sync>>
  PROVE  IInv' /\ Joins
<1>1. PICK rest, mode : rest = Tail(queue) /\ mode = trans[t].mode
  OBVIOUS
<1>2. queue \in Seq(Trans) /\ NoDup(queue)
  BY DEF IInv, Types, QueuesOK
<1>3. /\ t \in ToSet(queue) /\ rest \in Seq(Trans)
      /\ NoDup(rest) /\ ToSet(rest) = ToSet(queue) \ {t}
  BY <1>1, <1>2, TailList
<1>4. /\ t \in Trans /\ trans[t].state = "add_wait" /\ trans[t].new_entry = e
      /\ ~InPendingOp(op, t) /\ ~InBackendOp(t)
      /\ \A d \in Entries \ {e} : t \notin ToSet(pending_queue[d])
  BY <1>3, QueueMember
<1>5. /\ stack' = Append(<<>>, Running(t)) /\ Only(t) /\ Attached(trans'[t], trans[t])
  <2>1. PICK below, r, d : below = <<>> /\ r = "OK" /\ d = None
    OBVIOUS
  <2>2. NotifyTransaction(below, WorkItem("ADD", t), r, d) /\ r # "RACE" /\ Types
    BY <2>1 DEF IInv
  <2>3. stack' = Append(below, Running(t)) /\ Only(t) /\ Attached(trans'[t], trans[t])
    BY <1>4, <2>2, NotifiedOfEntry
  <2>4. QED
    BY <2>1, <2>3
<1>6. /\ stack' = <<Running(t)>>
      /\ trans'[t].state = "attached" /\ trans'[t].entry = e /\ trans'[t].mode = mode
  BY <1>1, <1>4, <1>5 DEF Attached
<1>7. Adding(e, t, mode, rest, left)
  <2>1. MayAdd(e, mode, FALSE)
    BY <1>1 DEF MayAdd
  <2>2. QED
    BY <1>1, <1>4, <1>5, <1>6, <2>1 DEF Adding, backendVars
<1>8. Added(e, t, rest)
  BY <1>3, <1>4, <1>7, TransactionAdded
<1>9. /\ pending_queue'[e] = rest
      /\ \A d \in Entries \ {e} : pending_queue'[d] = pending_queue[d]
  BY <1>8 DEF Added
<1>10. \A d \in Entries : /\ ToSet(pending_queue'[d]) = ToSet(pending_queue[d]) \ {t}
                          /\ NoDup(pending_queue'[d])
  BY <1>2, <1>3, <1>4, <1>9 DEF IInv, QueuesOK
<1>11. QueuesOK'
  <2>1. \A d \in Entries : ToSet(pending_queue[d]) \subseteq Trans
    BY DEF IInv, Types, ToSet
  <2>2. QED
    BY <1>5, <1>10, <2>1, SMTT(30) DEF IInv, QueuesOK, Only
<1>12. BackendOK' /\ OpOK'
  BY <1>4, <1>5, BackendKept, OpKept DEF IInv, OpOK
<1>13. \A u \in Trans \ {t} : Queued(u) => Queued(u)'
  BY <1>10 DEF Queued, InQueue, InBackendOp, backendVars
<1>14. CallsOK' /\ Placed' /\ stack' \in Seq(Frame)
  <2>1. trans'[t].state \notin Waits
    BY <1>6 DEF Waits
  <2>2. QED
    BY <1>4, <1>5, <1>6, <1>13, <2>1, CallsStart
<1>15. BetweenOK'
  BY <1>4, <1>5, <1>6, BetweenKept DEF Acts
<1>16. Types'
  BY <1>5, <1>8, <1>14 DEF IInv, Types, Only, Added, backendVars
<1>17. Joins
  <2>1. \A d \in Entries : Joined(d)' \subseteq Joined(d) \cup {None}
    BY <1>3, <1>8, <1>10 DEF Joined, Added
  <2>2. QED
    BY <2>1 DEF Joins
<1>18. QED
  BY <1>8, <1>11, <1>12, <1>14, <1>15, <1>16, <1>17 DEF IInv, Added

LEMMA OnProcessPendingQueueStep ==
  ASSUME IInv, OnProcessPendingQueue
  PROVE  IInv' /\ Joins
<1>1. PICK e, left, queue : e = Head(tasks) /\ left = Tail(tasks) /\ queue = pending_queue[e]
  OBVIOUS
<1>2. /\ stack = <<>> /\ tasks # <<>> /\ Head(tasks) # BackendTask
      /\ ProcessEmptyQueue(e) \/ ProcessHeadOfQueue(e)
      /\ UNCHANGED <<op, backendVars, sync>>
  BY <1>1 DEF OnProcessPendingQueue
<1>3. e \in Entries /\ TasksLeft(e, left) /\ will_process[e] = TRUE
  BY <1>1, <1>2, TasksLeftTail
<1>4. writer[e] = None /\ live[e] = TRUE
  BY <1>3 DEF IInv, LockOK, Freed, Types
<1>5. CASE ProcessEmptyQueue(e)
  <2>1. CASE readers[e] = {} /\ DestroyEntry(e, doomed, active)
    BY <1>1, <1>2, <1>3, <1>4, <1>5, <2>1, LastUserGone DEF ProcessEmptyQueue
  <2>2. CASE readers[e] # {}
    BY <1>1, <1>2, <1>3, <1>4, <1>5, <2>2, NothingToProcess DEF ProcessEmptyQueue
  <2>3. QED
    BY <1>5, <2>1, <2>2 DEF ProcessEmptyQueue
<1>6. CASE ProcessHeadOfQueue(e)
  <2>1. PICK t, mode : t = Head(queue) /\ mode = trans[t].mode
    OBVIOUS
  <2>2. CASE Writes(mode) /\ readers[e] # {}
    BY <1>1, <1>2, <1>3, <1>4, <1>6, <2>1, <2>2, NothingToProcess DEF ProcessHeadOfQueue
  <2>3. CASE ~(Writes(mode) /\ readers[e] # {})
    <3>1. MayAdd(e, mode, FALSE)
      BY <1>4, <2>3 DEF MayAdd
    <3>2. /\ queue # <<>> /\ AddTransactionToEntry(e, t, mode, Tail(queue), FALSE, left)
          /\ NotifyTransaction(<<>>, WorkItem("ADD", t), "OK", None)
          /\ UNCHANGED <<active, live, doomed>>
      BY <1>1, <1>6, <2>1, <2>3, <3>1 DEF ProcessHeadOfQueue
    <3>3. QED
      BY <1>1, <1>2, <1>3, <1>4, <2>1, <2>3, <3>2, HeadOfQueueAdded
  <2>4. QED
    BY <2>2, <2>3
<1>7. QED
  BY <1>2, <1>5, <1>6
-----------------------------------------------------------------------------
(* A transaction that has an entry. *)

UserOf(e, t) ==
  /\ e \in Entries /\ live[e] = TRUE /\ trans[t] \in TransType /\ trans[t].state \notin Waits
  /\ Writes(trans[t].mode) <=> writer[e] = t
  /\ ~Writes(trans[t].mode) <=> t \in readers[e]
  /\ writer[e] = t => readers[e] = {} /\ will_process[e] = FALSE
  /\ writer[e] # t => writer[e] = None

LEMMA HasEntry ==
  ASSUME IInv, NEW t \in Trans, trans[t].state = "attached", NEW e, trans[t].entry = e
  PROVE  UserOf(e, t)
<1>1. e \in Entries /\ t # None /\ trans[t] \in TransType /\ trans[t].state \notin Waits
  BY NullAssumption DEF IInv, LockOK, Types, Waits
<1>2. /\ Writes(trans[t].mode) <=> writer[e] = t
      /\ ~Writes(trans[t].mode) <=> t \in readers[e]
  BY <1>1 DEF IInv, LockOK
<1>3. writer[e] # None => readers[e] = {} /\ will_process[e] = FALSE
  BY <1>1 DEF IInv, LockOK
<1>4. live[e] = TRUE
  <2>1. writer[e] # None \/ readers[e] # {}
    BY <1>1, <1>2
  <2>2. live[e] \in BOOLEAN
    BY <1>1 DEF IInv, Types
  <2>3. QED
    BY <1>1, <2>1, <2>2 DEF IInv, Freed
<1>5. QED
  BY <1>1, <1>2, <1>3, <1>4 DEF UserOf

(* What a step may do with the users of the entries while the queues stay. *)
Relocked ==
  /\ writer' \in [Entries -> Trans \cup {None}] /\ readers' \in [Entries -> SUBSET Trans]
  /\ will_process' \in [Entries -> BOOLEAN] /\ tasks' \in Seq(Entries \cup {BackendTask})
  /\ \A d \in Entries : live[d] = FALSE => /\ writer'[d] = writer[d] /\ readers'[d] = readers[d]
                                           /\ will_process'[d] = will_process[d]
  /\ \A d \in Entries : /\ readers'[d] \subseteq readers[d] \cup {writer[d]}
                        /\ writer'[d] \in {writer[d], None}
  /\ Held' /\ LockOK' /\ Posted'

LEMMA QueueProcessed ==
  ASSUME IInv, NEW e \in Entries, ProcessPendingQueue(e), UNCHANGED backend
  PROVE  /\ Posted' /\ tasks' \in Seq(Entries \cup {BackendTask})
         /\ will_process' \in [Entries -> BOOLEAN] /\ will_process'[e] = TRUE
         /\ \A d \in Entries \ {e} : will_process'[d] = will_process[d]
<1>1. will_process \in [Entries -> BOOLEAN] /\ tasks \in Seq(Entries \cup {BackendTask})
  BY DEF IInv, Types
<1>2. CASE will_process[e] = TRUE
  <2>1. UNCHANGED <<will_process, tasks>>
    BY <1>2 DEF ProcessPendingQueue
  <2>2. QED
    BY <1>1, <1>2, <2>1, PostedKept
<1>3. CASE will_process[e] = FALSE
  <2>1. PostProcessPendingQueue(e, tasks) /\ TasksLeft(e, tasks)
    BY <1>3, TasksLeftAlone DEF ProcessPendingQueue
  <2>2. QED
    BY <2>1, TaskPosted
<1>4. QED
  BY <1>1, <1>2, <1>3

(* The lock of e when its user t leaves it, or shares it from now on. *)
LEMMA UserMoves ==
  ASSUME IInv, NEW t \in Trans, NEW e, trans[t].state = "attached", trans[t].entry = e, Only(t),
         ProcessPendingQueue(e), UNCHANGED <<live, backend>>,
         \/ /\ Writes(trans[t].mode) /\ trans'[t].state # "attached"
            /\ writer' = [writer EXCEPT ![e] = None] /\ UNCHANGED readers
         \/ /\ ~Writes(trans[t].mode) /\ trans'[t].state # "attached"
            /\ readers' = [readers EXCEPT ![e] = readers[e] \ {t}] /\ UNCHANGED writer
         \/ /\ Writes(trans[t].mode)
            /\ trans'[t].state = "attached" /\ trans'[t].entry = e /\ ~Writes(trans'[t].mode)
            /\ writer' = [writer EXCEPT ![e] = None]
            /\ readers' = [readers EXCEPT ![e] = readers[e] \cup {writer[e]}]
  PROVE  Relocked
<1>1. /\ e \in Entries /\ live[e] = TRUE
      /\ Writes(trans[t].mode) <=> writer[e] = t
      /\ ~Writes(trans[t].mode) <=> t \in readers[e]
      /\ writer[e] = t => readers[e] = {} /\ will_process[e] = FALSE
      /\ writer[e] # t => writer[e] = None
  <2>1. UserOf(e, t)
    BY HasEntry
  <2>2. QED
    BY <2>1 DEF UserOf
<1>2. /\ Posted' /\ tasks' \in Seq(Entries \cup {BackendTask})
      /\ will_process' \in [Entries -> BOOLEAN] /\ will_process'[e] = TRUE
      /\ \A d \in Entries \ {e} : will_process'[d] = will_process[d]
  BY <1>1, QueueProcessed
<1>3. /\ writer \in [Entries -> Trans \cup {None}] /\ readers \in [Entries -> SUBSET Trans]
      /\ None \notin Trans
  BY NullAssumption DEF IInv, Types
<1>4. /\ writer' \in [Entries -> Trans \cup {None}] /\ readers' \in [Entries -> SUBSET Trans]
      /\ writer'[e] = None
      /\ \A d \in Entries \ {e} : writer'[d] = writer[d] /\ readers'[d] = readers[d]
  BY <1>1, <1>3
<1>5. /\ readers'[e] \ {t} = readers[e] \ {t}
      /\ t \in readers'[e] <=> /\ trans'[t].state = "attached" /\ trans'[t].entry = e
                               /\ ~Writes(trans'[t].mode)
      /\ trans'[t].state = "attached" => trans'[t].entry = e /\ ~Writes(trans'[t].mode)
      /\ readers'[e] \subseteq readers[e] \cup {writer[e]}
  BY <1>1, <1>3
<1>6. Held'
  <2>1. ASSUME NEW d \in Entries, live[d] = TRUE
        PROVE  \/ writer'[d] # None \/ readers'[d] # {} \/ will_process'[d] = TRUE
               \/ \E u \in Trans : trans'[u].state = "add" /\ trans'[u].new_entry = d
    <3>1. CASE d = e
      BY <1>2, <3>1
    <3>2. CASE d # e
      BY <1>2, <1>4, <2>1, <3>2 DEF IInv, Held, Only
    <3>3. QED
      BY <3>1, <3>2
  <2>2. QED
    BY <2>1 DEF Held
<1>7. LockOK'
  <2>1. \A d \in Entries : writer'[d] # None => readers'[d] = {} /\ will_process'[d] = FALSE
    BY <1>2, <1>4 DEF IInv, LockOK
  <2>2. ASSUME NEW u \in Trans, NEW d \in Entries
        PROVE  LET holds == trans'[u].state = "attached" /\ trans'[u].entry = d
               IN /\ writer'[d] = u <=> holds /\ Writes(trans'[u].mode)
                  /\ u \in readers'[d] <=> holds /\ ~Writes(trans'[u].mode)
    <3>1. LET holds == trans[u].state = "attached" /\ trans[u].entry = d
          IN /\ writer[d] = u <=> holds /\ Writes(trans[u].mode)
             /\ u \in readers[d] <=> holds /\ ~Writes(trans[u].mode)
      BY DEF IInv, LockOK
    <3>2. CASE u = t
      <4>1. CASE d = e
        BY <1>3, <1>4, <1>5, <3>2, <4>1
      <4>2. CASE d # e
        BY <1>4, <1>5, <3>1, <3>2, <4>2
      <4>3. QED
        BY <4>1, <4>2
    <3>3. CASE u # t
      <4>1. trans'[u] = trans[u]
        BY <3>3 DEF Only
      <4>2. CASE d = e
        <5>1. writer[e] # u /\ writer'[e] # u
          BY <1>1, <1>3, <1>4, <3>3
        <5>2. u \in readers'[e] <=> u \in readers[e]
          BY <1>5, <3>3
        <5>3. QED
          BY <3>1, <4>1, <4>2, <5>1, <5>2
      <4>3. CASE d # e
        BY <1>4, <3>1, <4>1, <4>3
      <4>4. QED
        BY <4>2, <4>3
    <3>4. QED
      BY <3>2, <3>3
  <2>3. \A u \in Trans : trans'[u].state = "attached" => trans'[u].entry \in Entries
    BY <1>1, <1>5 DEF IInv, LockOK, Only
  <2>4. QED
    BY <2>1, <2>2, <2>3 DEF LockOK
<1>8. \A d \in Entries : live[d] = FALSE => /\ writer'[d] = writer[d] /\ readers'[d] = readers[d]
                                            /\ will_process'[d] = will_process[d]
  BY <1>1, <1>2, <1>4
<1>9. \A d \in Entries : /\ readers'[d] \subseteq readers[d] \cup {writer[d]}
                         /\ writer'[d] \in {writer[d], None}
  BY <1>4, <1>5
<1>10. QED
  BY <1>2, <1>4, <1>6, <1>7, <1>8, <1>9 DEF Relocked

(* t keeps the lock as it has it. *)
LEMMA UserStays ==
  ASSUME IInv, NEW t \in Trans, NEW e, trans[t].state = "attached", trans[t].entry = e, Only(t),
         trans'[t].state = "attached", trans'[t].entry = e,
         Writes(trans'[t].mode) <=> Writes(trans[t].mode),
         UNCHANGED <<live, writer, readers, will_process, tasks, backend>>
  PROVE  Relocked
<1>1. Held'
  BY DEF IInv, Held, Only
<1>2. LockOK'
  <2>1. \A u \in Trans : /\ trans'[u].state = "attached" <=> trans[u].state = "attached"
                         /\ trans[u].state = "attached" =>
                              /\ trans'[u].entry = trans[u].entry
                              /\ Writes(trans'[u].mode) <=> Writes(trans[u].mode)
    BY DEF Only
  <2>2. QED
    BY <2>1 DEF IInv, LockOK
<1>3. Posted'
  BY PostedKept
<1>4. QED
  BY <1>1, <1>2, <1>3 DEF Relocked, IInv, Types

(* A step of a transaction that has an entry, up to the locks. *)
LEMMA AttachedStep ==
  ASSUME IInv, NEW t \in Trans, Acts(t), trans[t].state = "attached", Only(t),
         trans'[t].state \in {"attached", "done"}, Relocked, Unlists(doomed', active'),
         OpOK', op' \in PendingOp \cup {None},
         \A u \in Trans : InPendingOp(op', u) <=> InPendingOp(op, u),
         UNCHANGED <<live, pending_queue, backendVars, stack, sync>>
  PROVE  IInv' /\ Joins
<1>1. trans[t].state \notin Waits /\ trans'[t].state \notin Waits
  BY DEF Waits
<1>2. ~InBackendOp(t) /\ \A e \in Entries : t \notin ToSet(pending_queue[e])
  BY <1>1, NotListed
<1>3. /\ active \in Entries \cup {None} /\ doomed' \in [Entries -> BOOLEAN]
      /\ active' \in {active, None} /\ live \in [Entries -> BOOLEAN]
      /\ (\A d \in Entries : live[d] = TRUE => (doomed'[d] = TRUE <=> active' # d))
      /\ \A d \in Entries : live[d] = FALSE => doomed'[d] = FALSE
  BY DEF Unlists, IInv, Types
<1>4. Listed'
  BY <1>3 DEF IInv, Listed
<1>5. Freed'
  BY <1>3 DEF IInv, Freed, Relocked
<1>6. BackendOK' /\ QueuesOK'
  BY <1>2, BackendKept, QueuesKept
<1>7. OthersQueued(t)
  BY DEF OthersQueued, Queued, InBackendOp, InQueue, backendVars
<1>8. StaysUnlisted
  BY <1>3 DEF StaysUnlisted
<1>9. CallsOK' /\ Placed'
  BY <1>1, <1>7, <1>8, CallsQuiet
<1>10. BetweenOK'
  BY BetweenKept
<1>11. Types'
  BY <1>3 DEF IInv, Types, Only, Relocked, backendVars
<1>12. Joins
  BY DEF Joins, Joined, Relocked
<1>13. QED
  BY <1>4, <1>5, <1>6, <1>9, <1>10, <1>11, <1>12 DEF IInv, Relocked

(* Such a step that dooms nothing. *)
LEMMA AttachedUndoomed ==
  ASSUME IInv, NEW t \in Trans, Acts(t), trans[t].state = "attached", Only(t),
         trans'[t].state \in {"attached", "done"}, Relocked,
         UNCHANGED <<active, live, doomed, pending_queue, op, backendVars, stack, sync>>
  PROVE  IInv' /\ Joins
<1>1. trans[t].state \notin Waits
  BY DEF Waits
<1>2. ~InPendingOp(op, t)
  BY <1>1, NotListed
<1>3. OpOK' /\ op' \in PendingOp \cup {None}
  BY <1>2, OpKept DEF IInv, OpOK, Types
<1>4. PICK dooms, listed : dooms = doomed' /\ listed = active'
  OBVIOUS
<1>5. Unlists(dooms, listed)
  BY <1>4, UnlistsNothing
<1>6. QED
  BY <1>3, <1>4, <1>5, AttachedStep

LEMMA ServeFromCacheStep ==
  ASSUME IInv, NEW t \in Trans, ServeFromCache(t)
  PROVE  IInv' /\ Joins
<1>1. PICK e, tr, new : e = trans[t].entry /\ tr = trans[t] /\ new = InMode(tr, "READ")
  OBVIOUS
<1>2. /\ Acts(t) /\ trans[t].state = "attached" /\ trans[t].mode = "READ_WRITE"
      /\ ConvertWriterToReader(e) /\ Becomes(t, new)
      /\ UNCHANGED <<active, live, doomed, op, backendVars, stack, sync>>
  BY <1>1 DEF ServeFromCache, Has, Continue
<1>3. tr \in TransType
  BY <1>1 DEF IInv, Types
<1>4. new \in TransType /\ new.state = tr.state /\ new.mode = "READ" /\ new.entry = tr.entry
  BY <1>1, <1>3, InModeFields DEF Modes
<1>5. /\ Only(t) /\ trans'[t].state = "attached" /\ trans'[t].entry = e
      /\ ~Writes(trans'[t].mode) /\ Writes(trans[t].mode)
  BY <1>1, <1>2, <1>4, BecomesOnly DEF IInv, Writes
<1>6. Relocked
  BY <1>1, <1>2, <1>5, UserMoves DEF ConvertWriterToReader, backendVars
<1>7. QED
  BY <1>2, <1>5, <1>6, AttachedUndoomed DEF ConvertWriterToReader

LEMMA OverwriteStep ==
  ASSUME IInv, NEW t \in Trans, Overwrite(t)
  PROVE  IInv' /\ Joins
<1>1. PICK e, tr, new : e = trans[t].entry /\ tr = trans[t] /\ new = InMode(tr, "WRITE")
  OBVIOUS
<1>2. /\ Acts(t) /\ trans[t].state = "attached" /\ trans[t].mode \in {"READ_WRITE", "UPDATE"}
      /\ Becomes(t, new) /\ UNCHANGED <<entryVars, op, backendVars, stack, sync>>
  BY <1>1 DEF Overwrite, Has, Continue
<1>3. tr \in TransType
  BY <1>1 DEF IInv, Types
<1>4. new \in TransType /\ new.state = tr.state /\ new.mode = "WRITE" /\ new.entry = tr.entry
  BY <1>1, <1>3, InModeFields DEF Modes
<1>5. /\ Only(t) /\ trans'[t].state = "attached" /\ trans'[t].entry = e
      /\ Writes(trans'[t].mode) /\ Writes(trans[t].mode)
  BY <1>1, <1>2, <1>4, BecomesOnly DEF IInv, Writes
<1>6. Relocked
  BY <1>1, <1>2, <1>5, UserStays DEF entryVars, lockVars, backendVars
<1>7. QED
  BY <1>2, <1>5, <1>6, AttachedUndoomed DEF entryVars, lockVars

LEMMA DoneReadingStep ==
  ASSUME IInv, NEW t \in Trans, DoneReading(t)
  PROVE  IInv' /\ Joins
<1>1. PICK e : e = trans[t].entry
  OBVIOUS
<1>2. /\ Acts(t) /\ trans[t].state = "attached" /\ trans[t].mode = "READ"
      /\ DoneReadingFromEntry(e, t) /\ Becomes(t, Done)
      /\ UNCHANGED <<active, live, doomed, op, backendVars, stack, sync>>
  BY <1>1 DEF DoneReading, Has, Continue
<1>3. /\ Only(t) /\ trans'[t].state = "done" /\ ~Writes(trans[t].mode)
  BY <1>2, DoneFields, BecomesOnly DEF IInv, Writes
<1>4. Relocked
  BY <1>1, <1>2, <1>3, UserMoves DEF DoneReadingFromEntry, backendVars
<1>5. QED
  BY <1>2, <1>3, <1>4, AttachedUndoomed DEF DoneReadingFromEntry

(* DoomEntry(key, NULL): the request that nobody waits for. *)
LEMMA DoomAsked ==
  ASSUME IInv, NEW t \in Trans, Only(t), ~InPendingOp(op, t), AskToDoom, active' = None,
         sync' = sync
  PROVE  /\ OpOK' /\ op' \in PendingOp \cup {None}
         /\ \A u \in Trans : InPendingOp(op', u) <=> InPendingOp(op, u)
<1>1. CASE active # None \/ sync
  <2>1. op' = op
    BY <1>1 DEF AskToDoom
  <2>2. QED
    BY <2>1, OpKept DEF IInv, Types
<1>2. CASE ~(active # None \/ sync)
  <2>1. op' = Submitted("DOOM", None) /\ sync = FALSE /\ None \notin Trans
    BY <1>2, NullAssumption DEF AskToDoom, IInv, Types
  <2>2. PICK o, x : o = "DOOM" /\ x = None
    OBVIOUS
  <2>3. /\ o \in {"OPEN", "CREATE", "DOOM"} /\ x \in {t, None} /\ op' = Submitted(o, x)
        /\ x = t => Asked(WorkItem(o, t), trans')
    BY <2>1, <2>2
  <2>4. /\ OpOK' /\ op' \in PendingOp
        /\ \A u \in Trans : InPendingOp(op', u) <=> InPendingOp(op, u) \/ u = x
    BY <2>1, <2>3, SubmitOp
  <2>5. QED
    BY <2>1, <2>2, <2>4
<1>3. QED
  BY <1>1, <1>2

LEMMA UpdateNoStoreStep ==
  ASSUME IInv, NEW t \in Trans, UpdateNoStore(t)
  PROVE  IInv' /\ Joins
<1>1. PICK e, tr, new : e = trans[t].entry /\ tr = trans[t] /\ new = InMode(tr, "READ")
  OBVIOUS
<1>2. /\ Acts(t) /\ trans[t].state = "attached" /\ trans[t].mode \in {"READ_WRITE", "UPDATE"}
      /\ DoomActive /\ AskToDoom /\ UNCHANGED <<live, backendVars, sync>>
      /\ \/ DoneWriting(e) /\ Continue(t, Done)
         \/ ConvertWriterToReader(e) /\ Continue(t, new)
         \/ UNCHANGED <<lockVars, trans, stack>>
  BY <1>1 DEF UpdateNoStore, Has
<1>3. /\ active' = None /\ doomed' = WithActive /\ Writes(trans[t].mode)
      /\ trans[t].state \notin Waits /\ tr \in TransType
  BY <1>1, <1>2 DEF DoomActive, Writes, Waits, IInv, Types
<1>4. new \in TransType /\ new.state = tr.state /\ new.mode = "READ" /\ new.entry = tr.entry
  BY <1>1, <1>3, InModeFields DEF Modes
<1>5. /\ Only(t) /\ Relocked /\ trans'[t].state \in {"attached", "done"}
      /\ UNCHANGED <<pending_queue, stack>>
  <2>1. CASE DoneWriting(e) /\ Continue(t, Done)
    <3>1. Only(t) /\ trans'[t].state = "done" /\ UNCHANGED <<pending_queue, stack>>
      BY <2>1, DoneFields, BecomesOnly DEF Continue, DoneWriting, IInv
    <3>2. Relocked
      BY <1>1, <1>2, <1>3, <2>1, <3>1, UserMoves DEF DoneWriting, backendVars
    <3>3. QED
      BY <3>1, <3>2
  <2>2. CASE ConvertWriterToReader(e) /\ Continue(t, new)
    <3>1. /\ Only(t) /\ trans'[t].state = "attached" /\ trans'[t].entry = e
          /\ ~Writes(trans'[t].mode) /\ UNCHANGED <<pending_queue, stack>>
      BY <1>1, <1>2, <1>4, <2>2, BecomesOnly DEF Continue, ConvertWriterToReader, IInv, Writes
    <3>2. Relocked
      BY <1>1, <1>2, <1>3, <2>2, <3>1, UserMoves DEF ConvertWriterToReader, backendVars
    <3>3. QED
      BY <3>1, <3>2
  <2>3. CASE UNCHANGED <<lockVars, trans, stack>>
    <3>1. Only(t) /\ UNCHANGED <<pending_queue, stack, trans>>
      BY <2>3 DEF Only, lockVars, IInv, Types
    <3>2. Relocked
      BY <1>1, <1>2, <2>3, <3>1, UserStays DEF lockVars, backendVars
    <3>3. QED
      BY <1>2, <3>1, <3>2
  <2>4. QED
    BY <1>2, <2>1, <2>2, <2>3
<1>6. ~InPendingOp(op, t)
  BY <1>3, NotListed
<1>7. /\ OpOK' /\ op' \in PendingOp \cup {None}
      /\ \A u \in Trans : InPendingOp(op', u) <=> InPendingOp(op, u)
  BY <1>2, <1>3, <1>5, <1>6, DoomAsked
<1>8. Unlists(doomed', active')
  BY <1>3, UnlistsActive
<1>9. QED
  BY <1>2, <1>5, <1>7, <1>8, AttachedStep

-----------------------------------------------------------------------------
(* A writer gives up its entry and the transactions in the queue are told. *)
LEMMA FailWritingStep ==
  ASSUME IInv, NEW t \in Trans, Acts(t), trans[t].state = "attached", NEW e, trans[t].entry = e,
         writer[e] = t, NEW dooms, NEW listed, Unlists(dooms, listed), NEW then \in TransType,
         then.state \in {"doom", "done", "dangling"},
         FailWriting(e, dooms, listed, t, then), Only(t),
         trans'[t].state \in {"closing", "done"}, OpOK', op' \in PendingOp \cup {None},
         \A u \in Trans : InPendingOp(op', u) <=> InPendingOp(op, u),
         UNCHANGED <<backendVars, sync>>
  PROVE  IInv' /\ Joins
<1>1. UserOf(e, t)
  BY HasEntry
<1>2. /\ e \in Entries /\ live[e] = TRUE /\ readers[e] = {} /\ will_process[e] = FALSE
      /\ trans[t].state \notin Waits
  BY <1>1 DEF UserOf
<1>3. /\ DestroyEntry(e, dooms, listed) /\ UNCHANGED tasks
      /\ stack' = Append(Entered(t), NotifyRace(pending_queue[e], t, then))
      /\ pending_queue' = [pending_queue EXCEPT ![e] = <<>>]
  BY DEF FailWriting, DestroyEntry
<1>4. Destroyed(e)
  BY <1>2, <1>3, EntryDestroyed
<1>5. Held' /\ LockOK'
  <2>1. trans'[t].state # "attached"
    OBVIOUS
  <2>2. QED
    BY <1>2, <1>4, <2>1, UsersGone
<1>6. UNCHANGED will_process
  <2>1. \A d \in Entries : will_process'[d] = will_process[d]
    BY <1>2, <1>4, ZenonT(60) DEF Destroyed
  <2>2. QED
    BY <1>4, <2>1 DEF Destroyed, IInv, Types
<1>7. Posted'
  BY <1>3, <1>6, PostedKept DEF backendVars
<1>8. ~InBackendOp(t) /\ \A d \in Entries : t \notin ToSet(pending_queue[d])
  BY <1>2, NotListed
<1>9. BackendOK'
  BY <1>8, BackendKept
<1>10. QueuesOK'
  <2>1. \A d \in Entries : ToSet(pending_queue[d]) \subseteq Trans
    BY DEF IInv, Types, ToSet
  <2>2. pending_queue'[e] = <<>> /\ \A d \in Entries \ {e} : pending_queue'[d] = pending_queue[d]
    BY <1>4 DEF Destroyed
  <2>3. QED
    BY <1>8, <2>1, <2>2, EmptyList DEF IInv, QueuesOK, Only
<1>11. StaysUnlisted
  BY <1>4 DEF StaysUnlisted, Destroyed
<1>12. CallsOK' /\ Placed' /\ stack' \in Seq(Frame)
  BY <1>2, <1>3, <1>11, CallsFail DEF backendVars
<1>13. BetweenOK'
  <2>1. trans'[t].state \notin {"add", "create"}
    OBVIOUS
  <2>2. QED
    BY <2>1, BetweenKept
<1>14. Types'
  BY <1>3, <1>4, <1>12 DEF IInv, Types, Only, Destroyed, backendVars
<1>15. QED
  BY <1>4, <1>5, <1>7, <1>9, <1>10, <1>12, <1>13, <1>14 DEF IInv, Destroyed

(* The failing writer of an entry that is not doomed by the way. *)
LEMMA FailUndoomed ==
  ASSUME IInv, NEW t \in Trans, Acts(t), trans[t].state = "attached", NEW e, trans[t].entry = e,
         writer[e] = t, NEW then \in TransType, then.state \in {"doom", "done", "dangling"},
         FailWriting(e, doomed, active, t, then), Only(t),
         trans'[t].state \in {"closing", "done"}, UNCHANGED <<op, backendVars, sync>>
  PROVE  IInv' /\ Joins
<1>1. trans[t].state \notin Waits
  BY DEF Waits
<1>2. ~InPendingOp(op, t)
  BY <1>1, NotListed
<1>3. PICK dooms, listed : dooms = doomed /\ listed = active
  OBVIOUS
<1>4. Unlists(dooms, listed) /\ FailWriting(e, dooms, listed, t, then)
  BY <1>3, UnlistsNothing
<1>5. active' \in {active, None}
  BY <1>3, <1>4 DEF FailWriting, DestroyEntry
<1>6. OpOK' /\ op' \in PendingOp \cup {None}
  <2>1. op # None => active' = None
    BY <1>5 DEF IInv, OpOK
  <2>2. QED
    BY <1>2, <2>1, OpKept DEF IInv, Types
<1>7. QED
  BY <1>4, <1>6, FailWritingStep

LEMMA DoneWritingToEntryStep ==
  ASSUME IInv, NEW t \in Trans, DoneWritingToEntry(t)
  PROVE  IInv' /\ Joins
<1>1. PICK e, tr, new : e = trans[t].entry /\ tr = trans[t] /\ new = Moved(tr, "closing")
  OBVIOUS
<1>2. /\ Acts(t) /\ trans[t].state = "attached" /\ Writes(trans[t].mode)
      /\ \/ DoneWriting(e) /\ Continue(t, Done) /\ UNCHANGED <<active, live, doomed>>
         \/ FailWriting(e, doomed, active, t, Done) /\ Becomes(t, new)
      /\ UNCHANGED <<op, backendVars, sync>>
  BY <1>1 DEF DoneWritingToEntry, Has, Writes
<1>3. CASE DoneWriting(e) /\ Continue(t, Done) /\ UNCHANGED <<active, live, doomed>>
  <2>1. Only(t) /\ trans'[t].state = "done" /\ UNCHANGED <<pending_queue, stack>>
    BY <1>3, DoneFields, BecomesOnly DEF Continue, DoneWriting, IInv
  <2>2. Relocked
    BY <1>1, <1>2, <1>3, <2>1, UserMoves DEF DoneWriting, backendVars
  <2>3. QED
    BY <1>2, <1>3, <2>1, <2>2, AttachedUndoomed
<1>4. CASE FailWriting(e, doomed, active, t, Done) /\ Becomes(t, new)
  <2>1. tr \in TransType /\ "closing" \in States
    BY <1>1 DEF IInv, Types, States
  <2>2. new \in TransType /\ new.state = "closing"
    BY <1>1, <2>1, MovedFields
  <2>3. Only(t) /\ trans'[t].state = "closing"
    BY <1>4, <2>2, BecomesOnly DEF IInv
  <2>4. UserOf(e, t)
    BY <1>1, <1>2, HasEntry
  <2>5. writer[e] = t
    BY <1>2, <2>4 DEF UserOf
  <2>6. PICK then : then = Done
    OBVIOUS
  <2>7. then \in TransType /\ then.state = "done" /\ FailWriting(e, doomed, active, t, then)
    BY <1>4, <2>6, DoneFields
  <2>8. QED
    BY <1>1, <1>2, <2>3, <2>5, <2>7, FailUndoomed
<1>5. QED
  BY <1>2, <1>3, <1>4

LEMMA DestroyAttachedStep ==
  ASSUME IInv, NEW t \in Trans, DestroyAttached(t)
  PROVE  IInv' /\ Joins
<1>1. PICK e : e = trans[t].entry
  OBVIOUS
<1>2. /\ Acts(t) /\ trans[t].state = "attached" /\ DoneWithEntry(t) /\ Becomes(t, Done)
      /\ UNCHANGED <<op, backendVars, sync>>
  BY DEF DestroyAttached
<1>3. Only(t) /\ trans'[t].state = "done"
  BY <1>2, DoneFields, BecomesOnly DEF IInv
<1>4. UserOf(e, t)
  BY <1>1, <1>2, HasEntry
<1>5. /\ Writes(trans[t].mode) <=> writer[e] = t
      /\ ~Writes(trans[t].mode) <=> t \in readers[e]
      /\ writer[e] = t => will_process[e] = FALSE
      /\ writer[e] # t => writer[e] = None
      /\ t # None
  BY <1>4, NullAssumption DEF UserOf
<1>6. \/ will_process[e] /\ readers[e] = {}
      \/ /\ writer[e] = None /\ DoneReadingFromEntry(e, t)
         /\ UNCHANGED <<active, live, doomed, stack>>
      \/ writer[e] # None /\ DoneWriting(e) /\ UNCHANGED <<active, live, doomed, stack>>
      \/ /\ writer[e] # None
         /\ \E then \in {Done, Dangling(e)} : FailWriting(e, doomed, active, t, then)
  BY <1>1, <1>2 DEF DoneWithEntry
<1>7. CASE will_process[e] /\ readers[e] = {}
  BY <1>5, <1>7
<1>8. CASE /\ writer[e] = None /\ DoneReadingFromEntry(e, t)
           /\ UNCHANGED <<active, live, doomed, stack>>
  <2>1. ~Writes(trans[t].mode)
    BY <1>5, <1>8
  <2>2. Relocked
    BY <1>1, <1>2, <1>3, <1>8, <2>1, UserMoves DEF DoneReadingFromEntry, backendVars
  <2>3. QED
    BY <1>2, <1>3, <1>8, <2>2, AttachedUndoomed DEF DoneReadingFromEntry
<1>9. CASE writer[e] # None /\ DoneWriting(e) /\ UNCHANGED <<active, live, doomed, stack>>
  <2>1. Writes(trans[t].mode)
    BY <1>5, <1>9
  <2>2. Relocked
    BY <1>1, <1>2, <1>3, <1>9, <2>1, UserMoves DEF DoneWriting, backendVars
  <2>3. QED
    BY <1>2, <1>3, <1>9, <2>2, AttachedUndoomed DEF DoneWriting
<1>10. CASE /\ writer[e] # None
            /\ \E then \in {Done, Dangling(e)} : FailWriting(e, doomed, active, t, then)
  <2>1. writer[e] = t
    BY <1>5, <1>10
  <2>2. PICK then \in {Done, Dangling(e)} : FailWriting(e, doomed, active, t, then)
    BY <1>10
  <2>3. then \in TransType /\ then.state \in {"done", "dangling"}
    <3>1. Dangling(e) \in TransType /\ Dangling(e).state = "dangling"
      <4>1. "dangling" \in States /\ "NONE" \in Modes \cup {"NONE"} /\ e \in Entries
        BY <1>4 DEF UserOf, States
      <4>2. QED
        BY <4>1, TransactionFields DEF Dangling
    <3>2. QED
      BY <2>2, <3>1, DoneFields
  <2>4. QED
    BY <1>1, <1>2, <1>3, <2>1, <2>2, <2>3, FailUndoomed
<1>11. QED
  BY <1>6, <1>7, <1>8, <1>9, <1>10

LEMMA DoomPartialEntryStep ==
  ASSUME IInv, NEW t \in Trans, DoomPartialEntry(t)
  PROVE  IInv' /\ Joins
<1>1. PICK e, tr, new, again, dooms, listed :
        /\ e = trans[t].entry /\ tr = trans[t] /\ new = Moved(tr, "closing")
        /\ again = DoInitEntry(Transaction("closing", "WRITE", None, tr.new_entry))
        /\ dooms = WithActive /\ listed = None
  OBVIOUS
<1>2. PICK then \in {Done, again} : FailWriting(e, dooms, listed, t, then)
  BY <1>1 DEF DoomPartialEntry
<1>3. /\ Acts(t) /\ trans[t].state = "attached" /\ Writes(trans[t].mode) /\ AskToDoom
      /\ Becomes(t, new) /\ UNCHANGED <<backendVars, sync>>
  BY <1>1 DEF DoomPartialEntry, Has, Writes
<1>4. tr \in TransType /\ "closing" \in States /\ "WRITE" \in Modes \cup {"NONE"}
      /\ None \in Entries \cup {None} /\ trans[t].state \notin Waits
  BY <1>1, <1>3 DEF IInv, Types, States, Modes, Waits
<1>5. new \in TransType /\ new.state = "closing"
  BY <1>1, <1>4, MovedFields
<1>6. Only(t) /\ trans'[t].state = "closing"
  BY <1>3, <1>5, BecomesOnly DEF IInv
<1>7. then \in TransType /\ then.state \in {"doom", "done", "dangling"}
  <2>1. again \in TransType /\ again.state = "doom"
    <3>1. PICK n : n = tr.new_entry
      OBVIOUS
    <3>2. n \in Entries \cup {None}
      BY <1>4, <3>1, TransFields
    <3>3. PICK first : first = Transaction("closing", "WRITE", None, n)
      OBVIOUS
    <3>4. first \in TransType /\ first.mode = "WRITE"
      BY <1>4, <3>2, <3>3, TransactionFields
    <3>5. again = Moved(first, "doom") /\ "doom" \in States
      BY <1>1, <3>1, <3>3, <3>4 DEF DoInitEntry, States
    <3>6. QED
      BY <3>4, <3>5, MovedFields
  <2>2. QED
    BY <1>2, <2>1, DoneFields
<1>8. UserOf(e, t)
  BY <1>1, <1>3, HasEntry
<1>9. writer[e] = t
  BY <1>3, <1>8 DEF UserOf
<1>10. Unlists(dooms, listed)
  BY <1>1, UnlistsActive
<1>11. active' = None
  BY <1>1, <1>2 DEF FailWriting, DestroyEntry
<1>12. ~InPendingOp(op, t)
  BY <1>4, NotListed
<1>13. /\ OpOK' /\ op' \in PendingOp \cup {None}
       /\ \A u \in Trans : InPendingOp(op', u) <=> InPendingOp(op, u)
  BY <1>3, <1>6, <1>11, <1>12, DoomAsked
<1>14. QED
  BY <1>1, <1>2, <1>3, <1>6, <1>7, <1>9, <1>10, <1>13, FailWritingStep
-----------------------------------------------------------------------------
(* The invariant. *)

LEMMA InitInv ==
  ASSUME Init
  PROVE  IInv
<1>1. None \notin Trans /\ None \notin Entries /\ None \notin PendingOp /\ <<>> \in Seq(Trans)
  BY NullAssumption, NoneNotAnOp
<1>2. PICK tr : tr = Transaction("idle", "NONE", None, None)
  OBVIOUS
<1>3. tr \in TransType /\ tr.state = "idle" /\ tr.entry = None
  <2>1. "idle" \in States /\ "NONE" \in Modes \cup {"NONE"} /\ None \in Entries \cup {None}
    BY DEF States
  <2>2. QED
    BY <1>2, <2>1, TransactionFields
<1>4. trans \in [Trans -> TransType] /\ \A t \in Trans : trans[t] = tr
  BY <1>2, <1>3 DEF Init
<1>5. /\ backend \in [ready : BOOLEAN, factory : BOOLEAN, building : BOOLEAN, creating : BOOLEAN]
      /\ backend.factory = TRUE /\ backend.building = FALSE /\ backend.creating = FALSE
  BY DEF Init, Backend
<1>6. Types
  <2>1. /\ active \in Entries \cup {None} /\ sync \in BOOLEAN /\ op \in PendingOp \cup {None}
        /\ tasks \in Seq(Entries \cup {BackendTask})
        /\ backend_writer \in Trans \cup {None} /\ backend_queue \in Seq(Trans)
        /\ stack \in Seq(Frame)
    BY <1>1 DEF Init
  <2>2. /\ live \in [Entries -> BOOLEAN] /\ doomed \in [Entries -> BOOLEAN]
        /\ will_process \in [Entries -> BOOLEAN]
    BY DEF Init
  <2>3. /\ writer \in [Entries -> Trans \cup {None}] /\ readers \in [Entries -> SUBSET Trans]
        /\ pending_queue \in [Entries -> Seq(Trans)]
    BY <1>1 DEF Init
  <2>4. QED
    BY <1>4, <1>5, <2>1, <2>2, <2>3 DEF Types
<1>7. Freed /\ Listed
  BY DEF Init, Freed, Listed
<1>8. Posted
  BY <1>5, EmptyList DEF Init, Posted
<1>9. Held
  BY DEF Init, Held
<1>10. LockOK
  BY <1>1, <1>3, <1>4 DEF Init, LockOK
<1>11. \A t \in Trans : ~InBackendOp(t)
  BY <1>1, EmptyList DEF Init, InBackendOp
<1>12. BackendOK
  BY <1>5, <1>11, EmptyList DEF Init, BackendOK
<1>13. OpOK
  BY DEF Init, OpOK
<1>14. QueuesOK
  BY EmptyList DEF Init, QueuesOK
<1>15. \A t \in Trans : trans[t].state \notin Waits \cup {"add", "create"}
  BY <1>3, <1>4 DEF Waits
<1>16. Placed /\ BetweenOK
  BY <1>15 DEF Placed, Waiting, BetweenOK
<1>17. CallsOK
  BY StackEmpty DEF Init, CallsOK
<1>18. QED
  BY <1>6, <1>7, <1>8, <1>9, <1>10, <1>12, <1>13, <1>14, <1>16, <1>17 DEF IInv

LEMMA StutterInv ==
  ASSUME IInv, UNCHANGED vars
  PROVE  IInv'
<1>1. UNCHANGED <<active, live, writer, readers, pending_queue, will_process, doomed, tasks, op,
                  backend, backend_writer, backend_queue, trans, stack, sync>>
  BY DEF vars, entryVars, lockVars, backendVars
<1>2. Types' /\ Freed' /\ Listed' /\ Posted' /\ Held' /\ LockOK'
  <2>1. Types'
    BY <1>1 DEF IInv, Types
  <2>2. Freed' /\ Listed' /\ Posted'
    BY <1>1 DEF IInv, Freed, Listed, Posted
  <2>3. Held' /\ LockOK'
    BY <1>1 DEF IInv, Held, LockOK
  <2>4. QED
    BY <2>1, <2>2, <2>3
<1>3. BackendOK' /\ OpOK' /\ QueuesOK'
  BY <1>1 DEF IInv, BackendOK, InBackendOp, OpOK, QueuesOK
<1>4. Placed' /\ BetweenOK'
  BY <1>1 DEF IInv, Placed, Waiting, Queued, InBackendOp, InQueue, BeingNotified, BetweenOK,
              IsTop, Top
<1>5. QueuedTrans' = QueuedTrans
  BY <1>1 DEF QueuedTrans, Queued, InBackendOp, InQueue
<1>6. CallsOK'
  BY <1>1, <1>5 DEF IInv, CallsOK
<1>7. QED
  BY <1>2, <1>3, <1>4, <1>6 DEF IInv

LEMMA NextInv ==
  ASSUME IInv, Next
  PROVE  IInv' /\ Joins
<1>1. CASE Answers
  BY <1>1, BackendCreatedStep, OnIOCompleteStep DEF Answers
<1>2. CASE Tasks
  BY <1>2, OnBackendCreatedStep, OnProcessPendingQueueStep DEF Tasks
<1>3. CASE Notifies
  BY <1>3, NotifyNextItemStep, NotifyNextRaceStep DEF Notifies
<1>4. ASSUME NEW t \in Trans, Start(t) PROVE IInv' /\ Joins
  BY <1>4, StartStep
<1>5. ASSUME NEW t \in Trans, Proceeds(t) PROVE IInv' /\ Joins
  BY <1>5, DoOpenEntryStep, DoCreateEntryStep, DoDoomEntryStep, DoAddToEntryStep, ReturnStep
     DEF Proceeds, Asks
<1>6. ASSUME NEW t \in Trans, Uses(t) PROVE IInv' /\ Joins
  BY <1>6, ServeFromCacheStep, OverwriteStep, UpdateNoStoreStep, DoomPartialEntryStep DEF Uses
<1>7. ASSUME NEW t \in Trans, Leaves(t) PROVE IInv' /\ Joins
  BY <1>7, DoneWritingToEntryStep, DoneReadingStep, DestroyAttachedStep DEF Leaves
<1>8. ASSUME NEW t \in Trans, CancelWaiting(t) PROVE IInv' /\ Joins
  BY <1>8, CancelWaitingStep
<1>9. QED
  BY <1>1, <1>2, <1>3, <1>4, <1>5, <1>6, <1>7, <1>8 DEF Next

(* The inductive invariant holds in every reachable state, whatever the number
   of transactions and of ActiveEntry objects. *)
THEOREM InvariantThm == Spec => []IInv
<1>1. Init => IInv
  BY InitInv
<1>2. IInv /\ [Next]_vars => IInv'
  BY NextInv, StutterInv
<1>3. QED
  BY <1>1, <1>2, PTL DEF Spec

(* The reader/writer lock of AddTransactionToEntry: no reader and no posted task
   beside a writer, and an entry lists exactly the transactions that have it. *)
THEOREM EntryLockedThm == Spec => []EntryLocked
<1>1. IInv => EntryLocked
  BY DEF IInv, LockOK, EntryLocked
<1>2. QED
  BY <1>1, InvariantThm, PTL

(* RemovePendingTransaction finds every transaction that waits, unless it is
   about to be notified, and nobody else is in a list of the cache. *)
THEOREM WaitersFoundThm == Spec => []WaitersFound
<1>1. ASSUME IInv PROVE WaitersFound
  <2>1. ASSUME NEW t \in Trans, Waiting(t) PROVE (PlaceOf(t) # None) # BeingNotified(t)
    <3>1. PlaceOf(t) = None <=> ~Queued(t)
      BY <1>1, PlaceFound
    <3>2. Queued(t) \/ BeingNotified(t)
      BY <1>1, <2>1 DEF IInv, Placed
    <3>3. ~(Queued(t) /\ BeingNotified(t))
      BY <1>1 DEF IInv, CallsOK, StackOK, NotifiedOnce, QueuedTrans, BeingNotified
    <3>4. QED
      BY <3>1, <3>2, <3>3
  <2>2. ASSUME NEW t \in Trans, ~Waiting(t) PROVE ~Queued(t) /\ ~BeingNotified(t)
    BY <1>1, <2>2, NotListed DEF Waiting
  <2>3. QED
    BY <2>1, <2>2 DEF WaitersFound
<1>2. QED
  BY <1>1, InvariantThm, PTL

(* No pointer outlives an ActiveEntry, every entry has somebody who will release
   it, and a key with a request at the disk cache has no active entry: what the
   DCHECKs of ActivateEntry, DestroyEntry and GetPendingOp say.  The argument of
   a DoneWithEntry whose AddTruncatedFlag destroyed the entry is the exception:
   there a behaviour of the model ends. *)
THEOREM EntriesConsistentThm == Spec => []EntriesConsistent
<1>1. ASSUME IInv PROVE EntriesConsistent
  <2>1. TypeOK
    <3>1. /\ ToSet(tasks) \subseteq Entries \cup {BackendTask}
          /\ ToSet(backend_queue) \subseteq Trans
          /\ \A e \in Entries : ToSet(pending_queue[e]) \subseteq Trans
      BY <1>1 DEF IInv, Types, ToSet
    <3>2. /\ IsInjective(backend_queue) /\ \A e \in Entries : IsInjective(pending_queue[e])
      BY <1>1 DEF IInv, BackendOK, QueuesOK, NoDup, IsInjective
    <3>3. ASSUME NEW t \in Trans
          PROVE  /\ trans[t].state \in Waits \cup {"idle", "open", "create", "doom", "add",
                                                   "attached", "closing", "dangling", "done"}
                 /\ trans[t].mode \in Modes \cup {"NONE"}
                 /\ {trans[t].entry, trans[t].new_entry} \subseteq Entries \cup {None}
      <4>1. trans[t] \in TransType
        BY <1>1 DEF IInv, Types
      <4>2. QED
        BY <4>1, TransFields DEF States
    <3>4. QED
      BY <1>1, <3>1, <3>2, <3>3 DEF IInv, Types, TypeOK
  <2>2. OneEntryPerKey
    BY <1>1 DEF IInv, OpOK, OneEntryPerKey
  <2>3. NoDanglingEntry
    <3>1. active # None => live[active]
      BY <1>1 DEF IInv, Listed
    <3>2. ASSUME NEW t \in Trans, trans[t].state = "attached" PROVE live[trans[t].entry]
      <4>1. PICK e : trans[t].entry = e
        OBVIOUS
      <4>2. UserOf(e, t)
        BY <1>1, <3>2, <4>1, HasEntry
      <4>3. QED
        BY <4>1, <4>2 DEF UserOf
    <3>3. ASSUME NEW t \in Trans, trans[t].state \in {"add", "add_wait"}, ~BeingNotified(t)
          PROVE  live[trans[t].new_entry]
      <4>1. CASE trans[t].state = "add"
        BY <1>1, <3>1, <4>1 DEF IInv, BetweenOK
      <4>2. CASE trans[t].state = "add_wait"
        <5>1. Queued(t)
          BY <1>1, <3>3, <4>2 DEF IInv, Placed, Waiting, Waits
        <5>2. ~InPendingOp(op, t) /\ ~InBackendOp(t)
          BY <1>1, <4>2, OpMember, BackendMember
        <5>3. PICK e \in Entries : t \in ToSet(pending_queue[e])
          BY <5>1, <5>2 DEF Queued, InQueue
        <5>4. trans[t].new_entry = e
          BY <1>1, <5>3 DEF IInv, QueuesOK
        <5>5. live[e] # FALSE /\ live[e] \in BOOLEAN
          BY <1>1, <5>3, EmptyList DEF IInv, Freed, Types
        <5>6. QED
          BY <5>4, <5>5
      <4>3. QED
        BY <3>3, <4>1, <4>2
    <3>4. ASSUME NEW e \in Entries
          PROVE  /\ live[e] /\ will_process[e] <=> e \in ToSet(tasks)
                 /\ \A i, j \in DOMAIN tasks : tasks[i] = e /\ tasks[j] = e => i = j
      <4>1. live[e] \in BOOLEAN /\ will_process[e] \in BOOLEAN
        BY <1>1 DEF IInv, Types
      <4>2. live[e] = FALSE => will_process[e] = FALSE
        BY <1>1 DEF IInv, Freed
      <4>3. e \in ToSet(tasks) <=> will_process[e] = TRUE
        BY <1>1 DEF IInv, Posted
      <4>4. NoDup(tasks)
        BY <1>1 DEF IInv, Posted
      <4>5. QED
        BY <4>1, <4>2, <4>3, <4>4 DEF NoDup
    <3>5. QED
      BY <3>1, <3>2, <3>3, <3>4 DEF NoDanglingEntry
  <2>4. NoOrphanEntry
    <3>1. ASSUME NEW e \in Entries, live[e]
          PROVE  /\ doomed[e] <=> active # e
                 /\ stack = <<>> => writer[e] # None \/ readers[e] # {} \/ will_process[e]
      <4>1. live[e] = TRUE /\ doomed[e] \in BOOLEAN
        BY <1>1, <3>1 DEF IInv, Types
      <4>2. doomed[e] = TRUE <=> active # e
        BY <1>1, <4>1 DEF IInv, Listed
      <4>3. stack = <<>> => \A t \in Trans : trans[t].state # "add"
        BY <1>1 DEF IInv, BetweenOK, IsTop
      <4>4. stack = <<>> => writer[e] # None \/ readers[e] # {} \/ will_process[e] = TRUE
        BY <1>1, <4>1, <4>3 DEF IInv, Held
      <4>5. QED
        BY <4>1, <4>2, <4>4
    <3>2. QED
      BY <3>1 DEF NoOrphanEntry
  <2>5. QED
    BY <2>1, <2>2, <2>3, <2>4 DEF EntriesConsistent
<1>2. QED
  BY <1>1, InvariantThm, PTL

(* DoomEntry: from then on nobody joins the entry who was not waiting for it
   already, although answers and notifications for the key are still under way. *)
THEOREM DoomedNotJoinedThm == Spec => DoomedNotJoined
<1>1. IInv /\ [Next]_vars =>
        [\A e \in Entries :
           live[e] /\ doomed[e] /\ doomed'[e] => Joined(e)' \subseteq Joined(e) \cup {None}]_vars
  BY NextInv DEF Joins
<1>2. QED
  BY <1>1, InvariantThm, PTL DEF Spec, DoomedNotJoined
=============================================================================
