------------------------------ MODULE Rankings ------------------------------
(***************************************************************************)
(* disk_cache::Rankings (net/disk_cache/rankings.{h,cc}): the LRU lists of *)
(* the disk cache, doubly linked in a file, with the transaction record    *)
(* that lets Init finish or undo what a crash interrupted.                 *)
(*                                                                         *)
(* disk is what survives a crash of the process.  All of it is written by  *)
(* one thread, and every operation reads what it needs before its first    *)
(* write to the same place, so an operation is the sequence todo of its    *)
(* writes, carried out one by one; a crash forgets the rest.  heads_ and   *)
(* tails_ differ from their copies on disk only inside an operation.       *)
(* A node whose entry is open shares its data with that entry.             *)
(***************************************************************************)
EXTENDS Integers, Sequences, FiniteSets

CONSTANTS
    Nodes,                  \* addresses of rankings blocks
    Lists,                  \* NO_USE, LOW_USE, ...
    None,                   \* address 0
    CrashInFinishInsert,    \* may a crash hit FinishInsert between two records
    MaxFaults               \* bound: crashes and unreadable entries

ASSUME NoneNotANode == None \notin Nodes
ASSUME NodesFinite  == IsFiniteSet(Nodes)
ASSUME BoundsOk     == MaxFaults \in Nat /\ CrashInFinishInsert \in BOOLEAN

VARIABLES
    disk,       \* the blocks and the LruData of the index file
    todo,       \* writes the current operation has still to make
    reinsert,   \* [node, list]: an Insert that follows the current Remove
    process,    \* "running", "recovering" (in Init) or "down"
    iter,       \* the node of an enumeration and its copy of the links
    critical,   \* CriticalError was called
    faults      \* crashes, and entries that could not be read

vars == <<disk, todo, reinsert, process, iter, critical, faults>>

Address == Nodes \cup {None}
Link    == [next : Address, prev : Address]
NoLink  == [next |-> None, prev |-> None]
Idle    == [node |-> None, operation |-> "NONE", list |-> None]
NoIter  == [node |-> None, list |-> None, has_data |-> FALSE, data |-> NoLink]
Nothing == [node |-> None, list |-> None]

Init ==
    /\ disk = [links       |-> [n \in Nodes |-> NoLink],
               heads       |-> [l \in Lists |-> None],
               tails       |-> [l \in Lists |-> None],
               sizes       |-> [l \in Lists |-> 0],
               transaction |-> Idle]
    /\ todo = <<>> /\ reinsert = Nothing
    /\ process = "running"
    /\ iter = NoIter
    /\ critical = FALSE
    /\ faults = 0

-----------------------------------------------------------------------------
(* Writes to the file. *)

Store(n, link)   == [field |-> "links", at |-> n, value |-> link]
WriteHead(l, n)  == [field |-> "heads", at |-> l, value |-> n]
WriteTail(l, n)  == [field |-> "tails", at |-> l, value |-> n]
WriteSize(l, k)  == [field |-> "sizes", at |-> l, value |-> k]
Begin(n, op, l)  == [field |-> "transaction",
                     value |-> [node |-> n, operation |-> op, list |-> l]]
End              == [field |-> "transaction", value |-> Idle]

Write(w, d) ==
    IF w.field = "transaction"
    THEN [d EXCEPT !.transaction = w.value]
    ELSE [d EXCEPT ![w.field][w.at] = w.value]

After(d, writes) ==
    LET done[i \in 0..Len(writes)] ==
            IF i = 0 THEN d ELSE Write(writes[i], done[i - 1])
    IN  done[Len(writes)]

-----------------------------------------------------------------------------
(* Insert, Remove and the recovery, as sequences of writes. *)

IsHead(d, n) == \E l \in Lists : d.heads[l] = n
IsTail(d, n) == \E l \in Lists : d.tails[l] = n

(* Rankings::SanityCheck of a node that comes from a list. *)
SanityCheck(d, n) ==
    /\ d.links[n].next # None /\ d.links[n].prev # None
    /\ d.links[n].prev = n => IsHead(d, n)
    /\ d.links[n].next = n => IsTail(d, n)

(* Insert finds the head it has to link to as it should be. *)
HeadOk(d, n, l) ==
    LET h == d.heads[l]
    IN  h # None => SanityCheck(d, h) /\ d.links[h].prev \in {h, n}

(* Mutant: the head moves before the node it points to is stored. *)
InsertWritesHeadFirst(d, n, l) ==
    LET h    == d.heads[l]
        only == d.tails[l] \in {None, n}
    IN  <<Begin(n, "INSERT", l)>>
        \o (IF h = None THEN <<>> ELSE <<Store(h, [d.links[h] EXCEPT !.prev = n])>>)
        \o (IF only THEN <<WriteTail(l, n)>> ELSE <<>>)
        \o <<WriteHead(l, n),
             Store(n, [next |-> IF only THEN n ELSE h, prev |-> n]),
             WriteSize(l, d.sizes[l] + 1),
             End>>

(* Mutant: the tail always moves to the new node. *)
InsertWritesMovesTail(d, n, l) ==
    LET h == d.heads[l]
    IN  <<Begin(n, "INSERT", l)>>
        \o (IF h = None THEN <<>> ELSE <<Store(h, [d.links[h] EXCEPT !.prev = n])>>)
        \o <<WriteTail(l, n),
             Store(n, [next |-> n, prev |-> n]),
             WriteHead(l, n),
             WriteSize(l, d.sizes[l] + 1),
             End>>

InsertWrites(d, n, l) ==
    LET h    == d.heads[l]
        only == d.tails[l] \in {None, n}
    IN  <<Begin(n, "INSERT", l)>>
        \o (IF h = None THEN <<>> ELSE <<Store(h, [d.links[h] EXCEPT !.prev = n])>>)
        \o (IF only THEN <<WriteTail(l, n)>> ELSE <<>>)
        \o <<Store(n, [next |-> IF only THEN n ELSE h, prev |-> n]),
             WriteHead(l, n),
             WriteSize(l, d.sizes[l] + 1),
             End>>

(* Rankings::CheckLinks: may n be unlinked from its neighbours? *)
CheckLinks(d, n) ==
    LET p == d.links[n].prev
        x == d.links[n].next
    IN  \/ d.links[p].next = n /\ d.links[x].prev = n
        \/ d.links[x].prev = n /\ IsHead(d, n)
        \/ d.links[p].next = n /\ IsTail(d, n)

(* The list CheckLinks corrects |list| to: that of the end n is, if one of
   its links does not come back. *)
ListFor(d, n, l) ==
    LET p == d.links[n].prev
        x == d.links[n].next
    IN  CASE d.links[p].next # n /\ IsHead(d, n) -> CHOOSE m \in Lists : d.heads[m] = n
          [] d.links[x].prev # n /\ IsTail(d, n) -> CHOOSE m \in Lists : d.tails[m] = n
          [] OTHER -> l

(* The lists are fine and only the node is wrong: CheckLinks clears it. *)
OutOfList(d, n) ==
    LET p == d.links[n].prev
        x == d.links[n].next
    IN  n \notin {p, x} /\ d.links[p].next = x /\ d.links[x].prev = p

(* What Remove leaves in the blocks |next| and |prev|.  A block that is the
   node itself holds what node->Data() holds at the time it is stored if it
   shares its data, and a copy of the old links otherwise. *)
NextLink(d, n, l, shared) ==
    LET x == d.links[n].next
    IN  IF x = n THEN IF shared THEN NoLink ELSE d.links[n]
        ELSE [d.links[x] EXCEPT
                  !.prev = IF n = d.heads[l] THEN x ELSE d.links[n].prev]

PrevLink(d, n, l, shared) ==
    LET p == d.links[n].prev
    IN  IF p = n THEN IF shared THEN NoLink ELSE d.links[n]
        ELSE [d.links[p] EXCEPT
                  !.next = IF n = d.tails[l] THEN p ELSE d.links[n].next]

(* Head and tail of the list leave the node. *)
MoveEnds(d, n, l, shared) ==
    LET p    == d.links[n].prev
        head == d.heads[l] = n
        tail == d.tails[l] = n
    IN  CASE head /\ tail   -> <<WriteHead(l, None), WriteTail(l, None)>>
          [] head /\ ~tail  -> <<WriteHead(l, d.links[n].next)>>
          [] ~head /\ tail  -> <<WriteTail(l, p), Store(p, PrevLink(d, n, l, shared))>>
          [] ~head /\ ~tail -> <<>>

(* Mutant: the counter is not decremented. *)
DecrementCounterForgotten(d, l) == <<>>

DecrementCounter(d, l) ==
    IF d.sizes[l] > 0 THEN <<WriteSize(l, d.sizes[l] - 1)>> ELSE <<>>

RemoveWrites(d, n, l, shared) ==
    <<Begin(n, "REMOVE", l)>>
    \o MoveEnds(d, n, l, shared)
    \o <<Store(d.links[n].next, NextLink(d, n, l, shared)),
         Store(d.links[n].prev, PrevLink(d, n, l, shared)),
         Store(n, NoLink)>>
    \o DecrementCounter(d, l)
    \o <<End>>

(* FinishInsert closes the transaction before Insert opens its own. *)
FinishInsert(d, n, l) ==
    <<End>> \o IF d.heads[l] = n THEN <<>> ELSE InsertWrites(d, n, l)

(* RevertRemove; the blocks it loads are copies of their own. *)
RevertRemove(d, n, l) ==
    LET x  == d.links[n].next
        p  == d.links[n].prev
        ln == IF x = n THEN d.links[n] ELSE [d.links[x] EXCEPT !.prev = n]
        lp == IF p = n THEN d.links[n] ELSE [d.links[p] EXCEPT !.next = n]
        gone  == d.heads[l] = None \/ d.tails[l] = None
        first == ~gone /\ d.heads[l] = x
        last  == ~gone /\ ~first /\ d.tails[l] = p
    IN  IF None \in {x, p} THEN <<End>>
        ELSE (IF gone  THEN <<WriteHead(l, n), WriteTail(l, n)>> ELSE <<>>)
             \o (IF first THEN <<WriteHead(l, n)>> ELSE <<>>)
             \o (IF last  THEN <<WriteTail(l, n)>> ELSE <<>>)
             \o <<Store(x, IF last  THEN [ln EXCEPT !.prev = p] ELSE ln),
                  Store(p, IF first THEN [lp EXCEPT !.next = x] ELSE lp),
                  End>>

CompleteTransaction(d) ==
    LET t == d.transaction
    IN  CASE t.operation = "NONE"   -> <<>>
          [] t.operation = "INSERT" -> FinishInsert(d, t.node, t.list)
          [] t.operation = "REMOVE" -> RevertRemove(d, t.node, t.list)

-----------------------------------------------------------------------------
(* The lists as CheckList walks them. *)

(* The nodes met from the head of l, cut after as many as there are. *)
Walk(d, l) ==
    LET from[k \in 0..Cardinality(Nodes)] ==
            IF k = 0 \/ d.heads[l] = None THEN <<>>
            ELSE IF k = 1 THEN <<d.heads[l]>>
            ELSE LET before == from[k - 1]
                     last   == before[Len(before)]
                     next   == d.links[last].next
                 IN  IF Len(before) < k - 1 \/ next \in {last, None} THEN before
                     ELSE Append(before, next)
    IN  from[Cardinality(Nodes)]

ListOf(d, n) == {l \in Lists : \E i \in DOMAIN Walk(d, l) : Walk(d, l)[i] = n}

(* Rankings::CheckList finds no error, and the tail is where it ends. *)
CheckList(d, l) ==
    LET s == Walk(d, l)
    IN  /\ d.heads[l] = None <=> d.tails[l] = None
        /\ \A i \in DOMAIN s :
              /\ d.links[s[i]].prev = s[IF i = 1 THEN 1 ELSE i - 1]
              /\ d.links[s[i]].next = s[IF i = Len(s) THEN i ELSE i + 1]
        /\ s # <<>> => d.tails[l] = s[Len(s)]

-----------------------------------------------------------------------------
(* Iterators: BackendImpl keeps the block GetNext or GetPrev returned. *)

(* Mutant: iterators keep the links they loaded. *)
UpdateIteratorsNothing(it, n, link) == it

UpdateIterators(it, n, link) ==
    IF it.node = n /\ it.has_data THEN [it EXCEPT !.data = link] ELSE it

InvalidateIterators(it, n) ==
    IF it.node = n THEN [it EXCEPT !.has_data = FALSE, !.data = NoLink] ELSE it

-----------------------------------------------------------------------------
(* Operations. *)

Ready == process = "running" /\ ~critical /\ todo = <<>> /\ reinsert = Nothing

(* The body of Insert. *)
StartInsert(n, l) ==
    IF HeadOk(disk, n, l)
    THEN LET h == disk.heads[l]
         IN  /\ todo' = InsertWrites(disk, n, l)
             /\ iter' = IF h = None THEN iter
                        ELSE UpdateIterators(iter, h, [disk.links[h] EXCEPT !.prev = n])
             /\ critical' = critical
    ELSE critical' = TRUE /\ UNCHANGED <<todo, iter>>

(* The body of Remove for a node with links; it is the iterator left. *)
StartRemove(n, list, shared, it) ==
    LET x == disk.links[n].next
        p == disk.links[n].prev
        l == ListFor(disk, n, list)
        neighboursOk == SanityCheck(disk, x) /\ SanityCheck(disk, p)
    IN  CASE neighboursOk /\ CheckLinks(disk, n) ->
                /\ todo' = RemoveWrites(disk, n, l, shared)
                /\ iter' = UpdateIterators(
                              UpdateIterators(it, x, NextLink(disk, n, l, shared)),
                              p, PrevLink(disk, n, l, shared))
                /\ critical' = critical
          [] neighboursOk /\ ~CheckLinks(disk, n) /\ OutOfList(disk, n) ->
                todo' = <<Store(n, NoLink)>> /\ iter' = it /\ critical' = critical
          [] OTHER -> critical' = TRUE /\ UNCHANGED <<todo, iter>>

(* A new entry, or one that the index still had although it is in no list. *)
Insert(n, l) ==
    /\ Ready
    /\ ListOf(disk, n) = {}
    /\ StartInsert(n, l)
    /\ UNCHANGED <<disk, reinsert, process, faults>>

(* An entry is deleted. *)
Remove(n, l, shared) ==
    /\ Ready
    /\ l \in ListOf(disk, n)
    /\ StartRemove(n, l, shared, InvalidateIterators(iter, n))
    /\ UNCHANGED <<disk, reinsert, process, faults>>

(* UpdateRank, and the moves between lists of Eviction. *)
Move(n, l, m, shared) ==
    /\ Ready
    /\ l \in ListOf(disk, n)
    /\ ~(l = m /\ disk.heads[l] = n)
    /\ StartRemove(n, l, shared, InvalidateIterators(iter, n))
    /\ reinsert' = [node |-> n, list |-> m]
    /\ UNCHANGED <<disk, process, faults>>

Reinsert ==
    /\ process = "running" /\ ~critical /\ todo = <<>> /\ reinsert # Nothing
    /\ StartInsert(reinsert.node, reinsert.list)
    /\ reinsert' = Nothing
    /\ UNCHANGED <<disk, process, faults>>

(* The links the iterator works with: a discarded block is loaded again. *)
IterData == IF iter.has_data THEN iter.data ELSE disk.links[iter.node]

(* The node GetNext or GetPrev moves to, None at the end of the list. *)
Following(forward, l) ==
    IF iter.node = None THEN IF forward THEN disk.heads[l] ELSE disk.tails[l]
    ELSE LET end == IF forward THEN disk.tails[l] ELSE disk.heads[l]
             to  == IF forward THEN IterData.next ELSE IterData.prev
         IN  IF end \in {None, iter.node} \/ to = iter.node THEN None ELSE to

(* Rankings::CheckSingleLink between the iterator and the node it moves to. *)
CheckSingleLink(forward, m) ==
    iter.node # None =>
        IF forward THEN IterData.next = m /\ disk.links[m].prev = iter.node
                   ELSE IterData.prev = m /\ disk.links[m].next = iter.node

(* BackendImpl::OpenFollowingEntryFromList; an entry that cannot be opened
   is removed from its list and the enumeration ends. *)
OpenFollowingEntry(forward, l, broken) ==
    LET m == Following(forward, l)
    IN  /\ Ready
        /\ iter.node # None => iter.list = l
        /\ broken => m # None /\ faults < MaxFaults
        /\ CASE m = None ->
                  /\ iter' = NoIter
                  /\ UNCHANGED <<todo, critical>>
             [] m # None /\ ~(SanityCheck(disk, m) /\ CheckSingleLink(forward, m)) ->
                  critical' = TRUE /\ UNCHANGED <<todo, iter>>
             [] m # None /\ SanityCheck(disk, m) /\ CheckSingleLink(forward, m) ->
                  IF broken THEN StartRemove(m, l, FALSE, NoIter)
                  ELSE /\ iter' = [node |-> m, list |-> l, has_data |-> TRUE,
                                   data |-> disk.links[m]]
                       /\ UNCHANGED <<todo, critical>>
        /\ faults' = IF broken THEN faults + 1 ELSE faults
        /\ UNCHANGED <<disk, reinsert, process>>

(* The next write of the operation, or of Init. *)
Step ==
    /\ process # "down" /\ todo # <<>>
    /\ disk' = Write(Head(todo), disk)
    /\ todo' = Tail(todo)
    /\ process' = IF todo' = <<>> THEN "running" ELSE process
    /\ UNCHANGED <<reinsert, iter, critical, faults>>

(* Between the end of the old transaction and the start of the new one. *)
InFinishInsert == process = "recovering" /\ disk.transaction = Idle

(* The process dies: what is not on disk is lost. *)
Crash ==
    /\ process # "down" /\ ~critical /\ faults < MaxFaults
    /\ CrashInFinishInsert \/ ~InFinishInsert
    /\ process' = "down"
    /\ todo' = <<>> /\ reinsert' = Nothing /\ iter' = NoIter
    /\ faults' = faults + 1
    /\ UNCHANGED <<disk, critical>>

(* Rankings::Init. *)
Restart ==
    /\ process = "down"
    /\ todo' = CompleteTransaction(disk)
    /\ process' = IF todo' = <<>> THEN "running" ELSE "recovering"
    /\ UNCHANGED <<disk, reinsert, iter, critical, faults>>

Next ==
    \/ \E n \in Nodes, l \in Lists : Insert(n, l)
    \/ \E n \in Nodes, l \in Lists, shared \in BOOLEAN : Remove(n, l, shared)
    \/ \E n \in Nodes, l, m \in Lists, shared \in BOOLEAN : Move(n, l, m, shared)
    \/ Reinsert
    \/ \E forward, broken \in BOOLEAN, l \in Lists :
          OpenFollowingEntry(forward, l, broken)
    \/ Step
    \/ Crash
    \/ Restart

Spec == Init /\ [][Next]_vars

-----------------------------------------------------------------------------
(* Properties. *)

TypeOK ==
    /\ disk.links \in [Nodes -> Link]
    /\ disk.heads \in [Lists -> Address] /\ disk.tails \in [Lists -> Address]
    /\ disk.sizes \in [Lists -> Nat]
    /\ disk.transaction.node \in Address
    /\ process \in {"running", "recovering", "down"}
    /\ iter.node \in Address /\ iter.data \in Link
    /\ reinsert = Nothing \/ reinsert \in [node : Nodes, list : Lists]
    /\ critical \in BOOLEAN /\ faults \in 0..MaxFaults

(* What the file holds once the recovery that is due has run. *)
Settled ==
    IF process = "recovering" THEN After(disk, todo)
    ELSE After(disk, CompleteTransaction(disk))

(* However far an operation or a recovery got when the process dies, Init
   leaves lists that are linked both ways from head to tail, and no node is
   in two of them: the transaction record and the order of the writes in
   Insert and Remove are for that.  A crash in FinishInsert, between the clearing
   of the record and its last writing, is excluded (CrashInFinishInsert). *)
ListsRecovered ==
    /\ \A l \in Lists : CheckList(Settled, l)
    /\ \A n \in Nodes : Cardinality(ListOf(Settled, n)) <= 1

(* CriticalError(ERR_INVALID_LINKS), which throws the cache away, is not
   called: no operation and no enumeration meets links that disagree,
   whatever was moved or removed between two steps of the enumeration. *)
NoCriticalError == ~critical

(* The counters of the lists, which Eviction steers by, drift from the lengths
   by at most one for each crash and for each entry that an enumeration could
   not read (it may have followed an entry into another list). *)
SizesWithinFaults ==
    Ready => \A l \in Lists :
                /\ disk.sizes[l] - Len(Walk(disk, l)) <= faults
                /\ Len(Walk(disk, l)) - disk.sizes[l] <= faults

(* "Nodes out of the list can be identified by invalid pointers": when no
   operation is under way, a node has links exactly if it is in a list. *)
LinksTellMembership ==
    Ready => \A n \in Nodes : ListOf(disk, n) = {} <=> disk.links[n] = NoLink

(* Between operations the file is what its readers take it for: links tell
   which nodes are in a list, and counters are off by the faults at most. *)
FileConsistent == TypeOK /\ LinksTellMembership /\ SizesWithinFaults

(* The lists of that file. *)
SettledLists ==
    CHOOSE s \in {[l \in Lists |-> Walk(d, l)] : d \in {Settled}} : TRUE

LruLists == INSTANCE LruLists WITH lists <- SettledLists

(* Each write of Insert, Remove and of the recovery, and each crash, is an
   atomic insertion at the front, an atomic removal, or nothing: readers of
   the file after any crash see a list before or after the operation. *)
ImplementsLruLists == LruLists!Spec
=============================================================================
