------------------------ MODULE CommandBufferProofs ------------------------
(***************************************************************************)
(* Proofs about CommandBuffer, for a ring of any size, any commands,       *)
(* blocks and token modulus: what the client does by an old state is safe, *)
(* memory is reused only behind its token, and the ring implements the     *)
(* queue CommandStream.                                                    *)
(*                                                                         *)
(* Positions are measured as distances from last.get, the oldest position  *)
(* of the reader that the client may still go by.  Once the client knows   *)
(* of the loss of the context nothing is claimed about the ring.           *)
(***************************************************************************)
EXTENDS CommandBuffer, ListLemmas

Offsets == 0..(Total - 1)
TokenValues == 0..(TokenModulus - 1)

Cell == [cmd : Commands \cup {Jump, None}, part : Offsets]

StateMessage == [kind : {"state"}, get : Offsets, token : TokenValues, error : BOOLEAN,
                 generation : Nat \cup {-1}]

ServiceMessage ==
    [kind : {"flush"}, put : Nat] \cup [kind : {"fast", "rescheduled"}]

CallStates == {"idle", "space", "wait", "waiting", "fatal", "finish", "finishing"}

Types ==
    /\ ring \in [Offsets -> Cell]
    /\ put \in Nat /\ sent \in Nat /\ token \in TokenValues
    /\ last \in [get : Offsets, token : TokenValues, error : BOOLEAN]
    /\ call \in [pc : CallStates, cmd : Commands \cup {None}, block : Blocks \cup {None}]
    /\ sync \in BOOLEAN /\ fast \in BOOLEAN /\ lost \in BOOLEAN /\ open \in BOOLEAN
    /\ blocks \in [Blocks -> [state : {"FREE", "IN_USE", "PENDING"}, token : TokenValues]]
    /\ wire \in Seq(ServiceMessage) /\ deferred \in Seq(ServiceMessage)
    /\ service \in [get : Offsets, put : Nat, token : TokenValues, error : BOOLEAN,
                    busy : BOOLEAN, scheduled : BOOLEAN]
    /\ replies \in Seq(StateMessage) /\ Len(replies) <= 1
    /\ updates \in Seq(StateMessage \cup {Destroyed})
    /\ generation \in Nat

(* The states on their way to the client that it will look at. *)
StatesIn(reps, upds) == {m \in ToSet(upds) \cup ToSet(reps) : m.kind = "state" /\ m.generation >= 0}

States == StatesIn(replies, updates)

(* The client is told of an error, and the channel closed, only when there is
   one.  A state of before may still take back what a failed Send has said. *)
Errors ==
    /\ last.error = TRUE => lost = TRUE
    /\ lost = TRUE => service.error = TRUE
    /\ open = FALSE => service.error = TRUE
    /\ Destroyed \in ToSet(updates) => service.error = TRUE
    /\ \A m \in States : m.generation <= generation /\ (m.error = TRUE => service.error = TRUE)
    /\ service.error = TRUE => service.busy = FALSE

(* At most one GetStateFast is on its way, or its reply, and none between the
   calls of the client; but while the client waits there is one, unless the
   context is lost. *)
HasFast(msgs) == \E i \in DOMAIN msgs : msgs[i].kind = "fast"

OneFast(msgs) ==
    \A i, j \in DOMAIN msgs : msgs[i].kind = "fast" /\ msgs[j].kind = "fast" => i = j

SyncOK ==
    /\ call.pc = "idle" => sync = FALSE
    /\ sync = FALSE => replies = <<>> /\ ~HasFast(wire) /\ ~HasFast(deferred)
    /\ replies # <<>> => ~HasFast(wire) /\ ~HasFast(deferred)
    /\ HasFast(deferred) => ~HasFast(wire)
    /\ OneFast(wire) /\ OneFast(deferred)
    /\ open = FALSE => ~HasFast(wire) /\ ~HasFast(deferred)
    /\ sync = TRUE /\ service.error = FALSE =>
         replies # <<>> \/ HasFast(wire) \/ HasFast(deferred)

(* What the call under way is about. *)
CallOK ==
    /\ call.pc = "space" =>
         /\ call.cmd \in Commands
         /\ call.cmd.op = "use" =>
              call.block = None /\ blocks[call.cmd.arg].state = "IN_USE"
         /\ call.cmd.op = "token" => call.cmd.arg = token
         /\ call.block # None => blocks[call.block].state = "IN_USE"
    /\ call.pc \in {"wait", "waiting"} =>
         call.block \in Blocks /\ blocks[call.block].state = "PENDING"
    /\ call.pc = "fatal" => lost = TRUE

-----------------------------------------------------------------------------
(* The ring r, with the reader at s and put_ at p, for a client that knows the
   reader at g. *)

Dist(g, x) == IF x >= g THEN x - g ELSE x - g + Total

HeadAt(r, i) == i \in Offsets /\ r[i].cmd # None /\ r[i].part = 0

Boundary(r, p, x) == x = p \/ HeadAt(r, x)

(* Whole commands that follow each other. *)
HeadOK(r, g, p, h) ==
    LET c == r[h].cmd
    IN  /\ Intact(r, h)
        /\ c = Jump => \A j \in Offsets : j >= h + JumpEntries => r[j].cmd = None
        /\ c # Jump => h + c.size <= Usable
        /\ Boundary(r, p, After(h, c))
        /\ Dist(g, h) < Dist(g, After(h, c)) /\ Dist(g, After(h, c)) <= Dist(g, p)

RingOK(r, g, s, p) ==
    /\ r \in [Offsets -> Cell]
    /\ g \in 0..Usable /\ s \in 0..Usable /\ p \in 0..Usable
    /\ Dist(g, s) <= Dist(g, p)
    /\ Boundary(r, p, s)
    /\ \A i \in Offsets : r[i].cmd # None => Dist(g, s) <= Dist(g, i) /\ Dist(g, i) < Dist(g, p)
    /\ \A h \in Offsets : HeadAt(r, h) => HeadOK(r, g, p, h)

(* What the client knows, what it is going to learn, and what there is. *)
View(get, t, at) == [get |-> get, token |-> t, at |-> at]

ViewsOf(l, s, gen, M) ==
    {View(l.get, l.token, -1), View(s.get, s.token, gen + 1)}
        \cup {View(m.get, m.token, m.generation) : m \in M}

Views == ViewsOf(last, service, generation, States)

(* A later one is of a reader that is no less far on. *)
ViewsOK(V, g) ==
    /\ \A u \in V : u.get \in 0..Usable
    /\ \A u, v \in V : u.at <= v.at => Dist(g, u.get) <= Dist(g, v.get)
    /\ \A u, v \in V : u.get = v.get => u.token = v.token

TokensRise(V) == \A u, v \in V : u.at <= v.at => u.token <= v.token

(* Where the service was told to stop, in the order it will be. *)
IsFlush(m) == m.kind = "flush"

FlushesInOrder(g, msgs) ==
    \A i, j \in DOMAIN msgs : i <= j /\ IsFlush(msgs[i]) /\ IsFlush(msgs[j]) =>
        Dist(g, msgs[i].put) <= Dist(g, msgs[j].put)

Flushes(msgs) == {m.put : m \in {n \in ToSet(msgs) : IsFlush(n)}}

(* stop is the put of the service, d and w are its messages. *)
FlushesOK(r, g, s, p, stop, d, w) ==
    /\ Boundary(r, p, stop) /\ Dist(g, s) <= Dist(g, stop)
    /\ \A x \in Flushes(d) \cup Flushes(w) : Boundary(r, p, x) /\ Dist(g, stop) <= Dist(g, x)
    /\ \A x \in Flushes(d), y \in Flushes(w) : Dist(g, x) <= Dist(g, y)
    /\ FlushesInOrder(g, d) /\ FlushesInOrder(g, w)

TokenAt(r, h) == HeadAt(r, h) /\ r[h].cmd.op = "token"
UseAt(r, h, b) == HeadAt(r, h) /\ r[h].cmd.op = "use" /\ r[h].cmd.arg = b

WritesToken == call.pc = "space" /\ call.cmd.op = "token"

(* From the wrap of the token until the reader has passed it. *)
Wrapping == token = 0 /\ (WritesToken \/ call.pc \in {"finish", "finishing"})

(* t, the newest token that was written, is the last one the reader will meet,
   or the one it has, read, if it will meet none. *)
NewestToken(r, g, read, t) ==
    \/ read = t /\ \A h \in Offsets : ~TokenAt(r, h)
    \/ \E h \in Offsets :
         /\ TokenAt(r, h) /\ r[h].cmd.arg = t
         /\ \A k \in Offsets : TokenAt(r, k) => Dist(g, k) <= Dist(g, h)

(* The tokens to come are greater than the one read, and rise up to t. *)
TokensInOrder(r, g, read, t) ==
    /\ read <= t
    /\ \A h \in Offsets : TokenAt(r, h) =>
         /\ read < r[h].cmd.arg /\ r[h].cmd.arg <= t
         /\ \A k \in Offsets : TokenAt(r, k) /\ Dist(g, h) < Dist(g, k) =>
              r[h].cmd.arg < r[k].cmd.arg

(* The last token that was written. *)
Written == IF WritesToken THEN token - 1 ELSE token

(* No command to come reads a free block, and behind each that reads a pending
   one is its token. *)
FreeUnread(r, B) ==
    \A b \in Blocks : B[b].state = "FREE" => \A h \in Offsets : ~UseAt(r, h, b)

PendingFenced(r, g, B) ==
    \A b \in Blocks : B[b].state = "PENDING" =>
        \A h \in Offsets : UseAt(r, h, b) =>
            \E k \in Offsets : /\ TokenAt(r, k) /\ r[k].cmd.arg = B[b].token
                               /\ Dist(g, h) < Dist(g, k)

Core ==
    /\ RingOK(ring, last.get, service.get, put) /\ put # Usable
    /\ ViewsOK(Views, last.get)
    /\ FlushesOK(ring, last.get, service.get, put, service.put, deferred, wire)
    /\ service.busy = TRUE => service.get # service.put
    /\ ~WritesToken => NewestToken(ring, last.get, service.token, token)
    /\ FreeUnread(ring, blocks)
    /\ ~Wrapping => /\ TokensRise(Views)
                    /\ TokensInOrder(ring, last.get, service.token, Written)
                    /\ PendingFenced(ring, last.get, blocks)

IInv == Types /\ Errors /\ SyncOK /\ CallOK /\ (lost = FALSE => Core)

-----------------------------------------------------------------------------
(* Numbers. *)

(* A set of numbers with 0 and the successor of each of its members holds all
   numbers up to a bound. *)
LEMMA UpTo ==
  ASSUME NEW n \in Nat, NEW S, 0 \in S, \A k \in 0..(n - 1) : k \in S => k + 1 \in S
  PROVE  \A k \in 0..n : k \in S
<1> DEFINE T == {k \in 0..n : k \notin S}
<1>1. SUFFICES ASSUME T # {} PROVE FALSE
  OBVIOUS
<1>2. T \subseteq Nat
  OBVIOUS
<1>3. PICK x \in T : \A y \in T : x <= y
  BY <1>1, <1>2, LeastNumber
<1>4. x \in 1..n /\ x - 1 \notin T
  BY <1>3
<1>5. QED
  BY <1>3, <1>4

(* Remainders of numbers below twice the modulus. *)
LEMMA SmallMod ==
  ASSUME NEW n \in Nat \ {0}, NEW a \in 0..(2 * n - 1)
  PROVE  a % n = IF a < n THEN a ELSE a - n
OBVIOUS

(* What AvailableEntries is without the remainder. *)
LEMMA AvailableIs ==
  ASSUME NEW g \in 0..Usable, NEW p \in 0..(Usable - 1)
  PROVE  AvailableEntries(g, p) =
           IF g = Usable THEN Usable - p - 1
           ELSE IF g > p THEN g - p - 1 ELSE g - p - 1 + Usable
<1> DEFINE a == g - p - 1 + Usable
<1>1. Usable \in Nat \ {0} /\ a \in 0..(2 * Usable - 1)
  BY RingOk DEF Usable, JumpEntries, TokenEntries
<1>2. a % Usable = IF a < Usable THEN a ELSE a - Usable
  <2> HIDE DEF a
  <2>1. QED
    BY <1>1, SmallMod
<1>3. QED
  BY <1>1, <1>2 DEF AvailableEntries

(* The commands of the client. *)
LEMMA CommandIs ==
  ASSUME NEW c \in Commands
  PROVE  /\ c.size \in 1..(Usable - 1) /\ c # None /\ c # Jump
         /\ c.op \in {"use", "token"} /\ c # Corrupt
         /\ c.op = "token" => c.arg \in TokenValues
         /\ c.op = "use" => c.arg \in Blocks
<1>1. c # None
  BY NoneNotACommand
<1>2. Usable \in Nat /\ Usable > 2
  BY RingOk DEF Usable, JumpEntries, TokenEntries
<1>3. CASE \E b \in Blocks, n \in Sizes : c = Use(b, n)
  BY <1>1, <1>2, <1>3, SizesOk DEF Use, Jump, Corrupt
<1>4. CASE \E t \in 0..(TokenModulus - 1) : c = SetToken(t)
  BY <1>1, <1>2, <1>4 DEF SetToken, TokenEntries, Jump, TokenValues, Corrupt
<1>5. QED
  BY <1>3, <1>4 DEF Commands

(* The command that leads back to 0. *)
LEMMA JumpIs ==
    Jump # None /\ Jump.size = 2 /\ Jump.op = "jump" /\ Jump \notin Commands
BY NoneNotACommand, CommandIs DEF Jump, JumpEntries

(* The size of the ring. *)
LEMMA TotalIs ==
    Total \in Nat /\ Usable \in Nat /\ Total = Usable + 2 /\ Usable > 2 /\ 0 \in Offsets
BY RingOk DEF Usable, JumpEntries, TokenEntries, Offsets

(* The reader goes to the next entry, or back to 0. *)
LEMMA AfterIs ==
  ASSUME NEW h \in Nat, NEW c \in Commands \cup {Jump}, c # Jump => h + c.size <= Usable
  PROVE  After(h, c) = IF c = Jump THEN 0 ELSE h + c.size
<1>1. CASE c = Jump
  BY <1>1, JumpIs DEF After
<1>2. CASE c # Jump
  <2>1. c \in Commands /\ c.size \in Nat /\ c.op # "jump"
    BY <1>2, CommandIs, TotalIs
  <2>2. h + c.size \in 0..(Total - 1) /\ Total \in Nat \ {0}
    BY <1>2, <2>1, TotalIs
  <2>3. (h + c.size) % Total = h + c.size
    BY <2>2, SmallMod
  <2>4. QED
    BY <1>2, <2>1, <2>3 DEF After
<1>3. QED
  BY <1>1, <1>2

-----------------------------------------------------------------------------
(* Positions in the ring. *)

(* Distances from a position tell positions apart. *)
LEMMA DistIs ==
  ASSUME NEW g \in Offsets, NEW x \in Offsets, NEW y \in Offsets
  PROVE  /\ Dist(g, x) \in Offsets /\ Dist(g, g) = 0
         /\ Dist(g, x) = Dist(g, y) => x = y
BY TotalIs DEF Dist, Offsets

(* What RingOK says of a command. *)
LEMMA HeadIs ==
  ASSUME NEW r, NEW g, NEW s, NEW p, RingOK(r, g, s, p), NEW h \in Offsets, HeadAt(r, h)
  PROVE  LET c == r[h].cmd
             a == After(h, c)
         IN  /\ c \in Commands \cup {Jump} /\ c # None /\ c.size \in 1..Usable
             /\ h + c.size <= Total
             /\ \A k \in 0..(c.size - 1) : r[h + k] = [cmd |-> c, part |-> k]
             /\ c = Jump => \A j \in Offsets : j >= h + 2 => r[j].cmd = None
             /\ c # Jump => h + c.size <= Usable
             /\ a = IF c = Jump THEN 0 ELSE h + c.size
             /\ a \in 0..Usable /\ Boundary(r, p, a)
             /\ Dist(g, h) < Dist(g, a) /\ Dist(g, a) <= Dist(g, p)
             /\ Dist(g, s) <= Dist(g, h) /\ Dist(g, h) < Dist(g, p)
<1> DEFINE c == r[h].cmd
           a == After(h, c)
<1>1. r[h] \in Cell /\ c # None /\ HeadOK(r, g, p, h)
  BY DEF RingOK, HeadAt
<1>2. c \in Commands \cup {Jump} /\ c.size \in 1..Usable
  BY <1>1, CommandIs, JumpIs, TotalIs DEF Cell
<1>3. /\ h + c.size <= Total
      /\ \A k \in 0..(c.size - 1) : r[h + k] = [cmd |-> c, part |-> k]
  BY <1>1 DEF HeadOK, Intact
<1>4. /\ c = Jump => \A j \in Offsets : j >= h + 2 => r[j].cmd = None
      /\ c # Jump => h + c.size <= Usable
      /\ Boundary(r, p, a)
      /\ Dist(g, h) < Dist(g, a) /\ Dist(g, a) <= Dist(g, p)
  BY <1>1 DEF HeadOK, JumpEntries
<1>5. a = (IF c = Jump THEN 0 ELSE h + c.size)
  BY <1>2, <1>4, AfterIs DEF Offsets
<1>6. a \in 0..Usable
  BY <1>2, <1>4, <1>5, TotalIs DEF Offsets
<1>7. Dist(g, s) <= Dist(g, h) /\ Dist(g, h) < Dist(g, p)
  BY <1>1 DEF RingOK
<1>8. QED
  BY <1>1, <1>2, <1>3, <1>4, <1>5, <1>6, <1>7

(* Every boundary lies between the reader and put_. *)
LEMMA BoundaryIs ==
  ASSUME NEW r, NEW g, NEW s, NEW p, RingOK(r, g, s, p), NEW x, Boundary(r, p, x)
  PROVE  /\ x \in Offsets /\ g \in Offsets /\ s \in Offsets /\ p \in Offsets
         /\ Dist(g, s) <= Dist(g, x) /\ Dist(g, x) <= Dist(g, p)
         /\ x # p => HeadAt(r, x) /\ Dist(g, x) < Dist(g, p)
<1>1. g \in Offsets /\ s \in Offsets /\ p \in Offsets /\ Dist(g, s) <= Dist(g, p)
  BY TotalIs DEF RingOK, Offsets
<1>2. CASE x = p
  BY <1>1, <1>2, DistIs DEF Offsets
<1>3. CASE x # p
  <2>1. HeadAt(r, x) /\ x \in Offsets
    BY <1>3 DEF Boundary, HeadAt
  <2>2. QED
    BY <1>1, <1>3, <2>1, HeadIs, DistIs DEF Offsets
<1>4. QED
  BY <1>2, <1>3

(* There is room for c at p, and p2 is behind it. *)
Room(g, p, c, p2) ==
    /\ c = Jump => p2 = 0 /\ 0 < g /\ g <= p
    /\ c # Jump => p2 = p + c.size /\ p2 <= Usable /\ (g <= p \/ p2 < g)

(* A command placed at put_, with room for it. *)
LEMMA RingAppend ==
  ASSUME NEW r, NEW g, NEW s, NEW p, RingOK(r, g, s, p),
         NEW c \in Commands \cup {Jump}, NEW p2, Room(g, p, c, p2)
  PROVE  LET r2 == WriteCommand(r, p, c)
         IN  /\ RingOK(r2, g, s, p2)
             /\ Dist(g, p) < Dist(g, p2)
             /\ HeadAt(r2, p) /\ r2[p].cmd = c /\ ~HeadAt(r, p)
             /\ \A i \in Offsets : HeadAt(r2, i) <=> HeadAt(r, i) \/ i = p
             /\ \A i \in Offsets : HeadAt(r, i) => r2[i] = r[i] /\ (Intact(r2, i) <=> Intact(r, i))
             /\ Intact(r2, p) /\ After(p, c) = p2
<1> DEFINE r2 == WriteCommand(r, p, c)
           n == c.size
<1>1. /\ r \in [Offsets -> Cell] /\ g \in 0..Usable /\ s \in 0..Usable /\ p \in 0..Usable
      /\ Dist(g, s) <= Dist(g, p) /\ Boundary(r, p, s)
      /\ \A i \in Offsets : r[i].cmd # None => Dist(g, s) <= Dist(g, i) /\ Dist(g, i) < Dist(g, p)
      /\ c = Jump => p2 = 0 /\ 0 < g /\ g <= p
      /\ c # Jump => p2 = p + c.size /\ p2 <= Usable /\ (g <= p \/ p2 < g)
  BY DEF RingOK, Room
<1>2. n \in 1..Usable /\ c # None /\ p + n <= Total /\ (c = Jump => n = 2)
  BY <1>1, CommandIs, JumpIs, TotalIs
<1>3. ASSUME NEW j \in p..(p + n - 1) PROVE j \in Offsets /\ r[j].cmd = None
  <2>1. /\ j \in Offsets /\ Dist(g, j) >= Dist(g, p)
        /\ Dist(g, j) \in Int /\ Dist(g, p) \in Int
    <3>1. j \in Offsets /\ j >= p /\ j \in Int /\ p \in Int /\ g \in Int /\ Total \in Int
      BY <1>1, <1>2, TotalIs DEF Offsets
    <3>2. g <= p \/ j < g
      BY <1>1, <1>2
    <3>3. QED
      BY <3>1, <3>2 DEF Dist
  <2>2. ~(Dist(g, j) < Dist(g, p))
    BY <2>1
  <2>3. QED
    BY <1>1, <2>1, <2>2
<1>4. /\ DOMAIN r2 = Offsets
      /\ \A i \in Offsets : r2[i] = IF i \in p..(p + n - 1) THEN [cmd |-> c, part |-> i - p]
                                    ELSE r[i]
  BY <1>1 DEF WriteCommand
<1> HIDE DEF r2
<1>5. r2 \in [Offsets -> Cell]
  <2>1. ASSUME NEW i \in p..(p + n - 1) PROVE [cmd |-> c, part |-> i - p] \in Cell
    <3>1. i - p \in Offsets
      BY <1>1, <1>2, TotalIs, SMTT(30) DEF Offsets
    <3>2. QED
      BY <3>1 DEF Cell
  <2>2. r2 = [i \in Offsets |-> r2[i]]
    BY <1>4 DEF WriteCommand, r2
  <2>3. \A i \in Offsets : r2[i] \in Cell
    BY <1>1, <1>4, <2>1
  <2>4. QED
    BY <2>2, <2>3
<1>6. p2 \in 0..Usable /\ Dist(g, p) < Dist(g, p2) /\ After(p, c) = p2
  <2>1. p2 \in 0..Usable /\ Dist(g, p) < Dist(g, p2)
    BY <1>1, <1>2, TotalIs DEF Dist
  <2>2. After(p, c) = p2
    BY <1>1, AfterIs
  <2>3. QED
    BY <2>1, <2>2
<1>7. \A i \in Offsets : r[i].cmd # None => i \notin p..(p + n - 1) /\ r2[i] = r[i]
  BY <1>3, <1>4
<1>8. HeadAt(r2, p) /\ r2[p].cmd = c /\ ~HeadAt(r, p) /\ Intact(r2, p)
  <2>1. p \in p..(p + n - 1) /\ p \in Offsets /\ r[p].cmd = None
    BY <1>1, <1>2, <1>3
  <2>2. r2[p] = [cmd |-> c, part |-> 0]
    BY <1>1, <1>4, <2>1
  <2>3. ASSUME NEW k \in 0..(n - 1) PROVE r2[p + k] = [cmd |-> c, part |-> k]
    <3>1. p + k \in p..(p + n - 1) /\ (p + k) - p = k
      BY <1>1, <1>2
    <3>2. QED
      BY <1>3, <1>4, <3>1
  <2>4. QED
    BY <1>2, <2>1, <2>2, <2>3 DEF HeadAt, Intact
<1>9. \A i \in Offsets : HeadAt(r2, i) <=> HeadAt(r, i) \/ i = p
  <2>1. ASSUME NEW i \in Offsets, HeadAt(r2, i), i # p PROVE HeadAt(r, i)
    <3>1. i \notin p..(p + n - 1)
      <4>1. CASE i \in p..(p + n - 1)
        <5>1. r2[i].part = i - p
          BY <1>4, <4>1
        <5>2. i - p = 0
          BY <2>1, <5>1 DEF HeadAt
        <5>3. QED
          BY <1>1, <2>1, <4>1, <5>2
      <4>2. QED
        BY <4>1
    <3>2. QED
      BY <1>4, <2>1, <3>1 DEF HeadAt
  <2>2. \A i \in Offsets : HeadAt(r, i) => HeadAt(r2, i)
    BY <1>7 DEF HeadAt
  <2>3. QED
    BY <1>8, <2>1, <2>2
<1>10. ASSUME NEW h \in Offsets, HeadAt(r, h) PROVE Intact(r2, h) /\ Intact(r, h)
  <2>1. /\ r[h].cmd # None /\ r[h].cmd.size \in 1..Usable /\ h + r[h].cmd.size <= Total
        /\ \A k \in 0..(r[h].cmd.size - 1) : r[h + k] = [cmd |-> r[h].cmd, part |-> k]
    BY <1>10, HeadIs
  <2>2. ASSUME NEW k \in 0..(r[h].cmd.size - 1) PROVE r2[h + k] = [cmd |-> r[h].cmd, part |-> k]
    <3>1. h + k \in Offsets
      BY <2>1, TotalIs DEF Offsets
    <3>2. QED
      BY <1>7, <2>1, <3>1
  <2>3. r2[h] = r[h]
    BY <1>7, <2>1
  <2>4. QED
    BY <2>1, <2>2, <2>3 DEF Intact
<1>11. \A x : Boundary(r, p, x) => Boundary(r2, p2, x)
  BY <1>8, <1>9 DEF Boundary, HeadAt
<1>12. Dist(g, s) <= Dist(g, p2) /\ Boundary(r2, p2, s)
  BY <1>1, <1>6, <1>11, TotalIs DEF Dist
<1>13. ASSUME NEW i \in Offsets, r2[i].cmd # None
       PROVE  Dist(g, s) <= Dist(g, i) /\ Dist(g, i) < Dist(g, p2)
  <2>1. CASE i \in p..(p + n - 1)
    <3>1. Dist(g, p) <= Dist(g, i) /\ Dist(g, i) < Dist(g, p2)
      <4>1. i \in p..(p + n - 1) /\ n \in Nat
        BY <1>2, <2>1
      <4>2. CASE c = Jump
        BY <1>1, <1>2, <4>1, <4>2, TotalIs DEF Dist
      <4>3. CASE c # Jump
        BY <1>1, <1>2, <4>1, <4>3, TotalIs DEF Dist
      <4>4. QED
        BY <4>2, <4>3
    <3>2. QED
      BY <1>1, <1>6, <3>1, TotalIs DEF Dist, Offsets
  <2>2. CASE i \notin p..(p + n - 1)
    <3>1. Dist(g, s) <= Dist(g, i) /\ Dist(g, i) < Dist(g, p)
      BY <1>1, <1>4, <1>13, <2>2
    <3>2. QED
      BY <1>1, <1>6, <3>1, TotalIs DEF Dist, Offsets
  <2>3. QED
    BY <2>1, <2>2
<1>14. HeadOK(r2, g, p2, p)
  <2>1. ASSUME c = Jump, NEW j \in Offsets, j >= p + 2 PROVE r2[j].cmd = None
    <3>1. r[j].cmd = None
      BY <1>1, <2>1, TotalIs DEF Dist, Offsets
    <3>2. j \notin p..(p + n - 1)
      BY <1>1, <1>2, <2>1 DEF Offsets
    <3>3. QED
      BY <1>4, <3>1, <3>2
  <2>2. Boundary(r2, p2, p2)
    BY DEF Boundary
  <2>3. Dist(g, p2) <= Dist(g, p2)
    BY <1>1, <1>6, TotalIs DEF Dist
  <2>4. QED
    BY <1>1, <1>6, <1>8, <2>1, <2>2, <2>3 DEF HeadOK, JumpEntries
<1>15. ASSUME NEW h \in Offsets, HeadAt(r, h) PROVE HeadOK(r2, g, p2, h)
  <2> DEFINE d == r[h].cmd
             a == After(h, d)
  <2>1. /\ d \in Commands \cup {Jump} /\ d # None /\ d.size \in 1..Usable
        /\ d = Jump => \A j \in Offsets : j >= h + 2 => r[j].cmd = None
        /\ d # Jump => h + d.size <= Usable
        /\ a = IF d = Jump THEN 0 ELSE h + d.size
        /\ a \in 0..Usable /\ Boundary(r, p, a)
        /\ Dist(g, h) < Dist(g, a) /\ Dist(g, a) <= Dist(g, p)
    BY <1>15, HeadIs
  <2> HIDE DEF d, a
  <2>2. r2[h] = r[h]
    BY <1>7, <1>15 DEF HeadAt
  <2>3. Dist(g, a) <= Dist(g, p2)
    BY <1>1, <1>6, <2>1, TotalIs DEF Dist
  <2>4. ASSUME d = Jump, NEW j \in Offsets, j >= h + 2 PROVE r2[j].cmd = None
    <3>1. r[j].cmd = None
      BY <2>1, <2>4
    <3>2. j \notin p..(p + n - 1)
      <4>1. a = 0
        BY <2>1, <2>4
      <4>2. QED
        BY <1>1, <1>2, <2>1, <2>4, <4>1, TotalIs DEF Dist, Offsets
    <3>3. QED
      BY <1>4, <3>1, <3>2
  <2>5. QED
    BY <1>10, <1>11, <1>15, <2>1, <2>2, <2>3, <2>4 DEF HeadOK, d, a, JumpEntries
<1>16. RingOK(r2, g, s, p2)
  <2>1. \A h \in Offsets : HeadAt(r2, h) => HeadOK(r2, g, p2, h)
    BY <1>9, <1>14, <1>15
  <2>2. QED
    BY <1>1, <1>5, <1>6, <1>12, <1>13, <2>1 DEF RingOK
<1>17. \A i \in Offsets : HeadAt(r, i) => r2[i] = r[i] /\ (Intact(r2, i) <=> Intact(r, i))
  BY <1>7, <1>10 DEF HeadAt
<1>18. QED
  BY <1>6, <1>8, <1>9, <1>16, <1>17 DEF r2

(* The reader erases the command it has carried out. *)
Erase(r, s, c) ==
    [i \in DOMAIN r |-> IF c # None /\ i \in s..(s + c.size - 1) THEN Garbage ELSE r[i]]

(* A reader that is not at put_ finds a whole command, and is behind it then. *)
LEMMA RingRead ==
  ASSUME NEW r, NEW g, NEW s, NEW p, RingOK(r, g, s, p), s # p
  PROVE  LET c == r[s].cmd
             r2 == Erase(r, s, c)
             s2 == After(s, c)
         IN  /\ HeadAt(r, s) /\ Intact(r, s)
             /\ RingOK(r2, g, s2, p)
             /\ Dist(g, s) < Dist(g, s2)
             /\ \A i \in Offsets : HeadAt(r2, i) <=> HeadAt(r, i) /\ i # s
             /\ \A i \in Offsets : HeadAt(r2, i) => r2[i] = r[i] /\ Intact(r2, i)
             /\ \A x : Boundary(r, p, x) /\ x # s => Boundary(r2, p, x) /\ Dist(g, s2) <= Dist(g, x)
<1> DEFINE c == r[s].cmd
           r2 == Erase(r, s, c)
           s2 == After(s, c)
           n == c.size
<1>1. /\ r \in [Offsets -> Cell] /\ g \in 0..Usable /\ s \in 0..Usable /\ p \in 0..Usable
      /\ s \in Offsets /\ g \in Offsets /\ p \in Offsets
      /\ \A i \in Offsets : r[i].cmd # None => Dist(g, s) <= Dist(g, i) /\ Dist(g, i) < Dist(g, p)
  BY TotalIs DEF RingOK, Offsets
<1>2. HeadAt(r, s)
  BY DEF RingOK, Boundary
<1>3. /\ c \in Commands \cup {Jump} /\ c # None /\ n \in 1..Usable
      /\ s + n <= Total
      /\ \A k \in 0..(n - 1) : r[s + k] = [cmd |-> c, part |-> k]
      /\ c = Jump => \A j \in Offsets : j >= s + 2 => r[j].cmd = None
      /\ c # Jump => s + n <= Usable
      /\ s2 = IF c = Jump THEN 0 ELSE s + n
      /\ s2 \in 0..Usable /\ Boundary(r, p, s2)
      /\ Dist(g, s) < Dist(g, s2) /\ Dist(g, s2) <= Dist(g, p)
      /\ Intact(r, s)
  BY <1>1, <1>2, HeadIs DEF RingOK, HeadOK
<1>4. /\ DOMAIN r2 = Offsets
      /\ \A i \in Offsets : r2[i] = IF i \in s..(s + n - 1) THEN Garbage ELSE r[i]
  BY <1>1, <1>3 DEF Erase
<1>5. r2 \in [Offsets -> Cell]
  <2>1. Garbage \in Cell
    BY TotalIs DEF Garbage, Cell
  <2>2. r2 = [i \in Offsets |-> r2[i]]
    BY <1>4 DEF Erase
  <2>3. \A i \in Offsets : r2[i] \in Cell
    BY <1>1, <1>4, <2>1
  <2>4. QED
    BY <2>2, <2>3
<1> HIDE DEF c, r2, s2, n
<1>6. \A i \in Offsets : r2[i].cmd # None => i \notin s..(s + n - 1) /\ r2[i] = r[i]
  BY <1>4 DEF Garbage
<1>7. ASSUME NEW i \in Offsets, r2[i].cmd # None
      PROVE  Dist(g, s2) <= Dist(g, i) /\ Dist(g, i) < Dist(g, p)
  <2>1. /\ i \notin s..(s + n - 1) /\ r[i].cmd # None
        /\ Dist(g, s) <= Dist(g, i) /\ Dist(g, i) < Dist(g, p)
    BY <1>1, <1>6, <1>7
  <2>2. CASE c = Jump
    <3>1. i < s + 2 /\ n = 2
      <4>1. ~(i >= s + 2)
        BY <1>3, <2>1, <2>2
      <4>2. QED
        BY <1>1, <2>2, <4>1, JumpIs DEF Offsets, n, c
    <3>2. i < s
      BY <1>1, <2>1, <3>1 DEF Offsets
    <3>3. QED
      BY <1>1, <1>3, <2>1, <2>2, <3>2, TotalIs DEF Dist, Offsets
  <2>3. CASE c # Jump
    <3>1. i < s \/ i >= s + n
      BY <1>1, <1>3, <2>1 DEF Offsets
    <3>2. s2 = s + n /\ n \in Nat
      BY <1>3, <2>3
    <3>3. QED
      BY <1>1, <1>3, <2>1, <3>1, <3>2, TotalIs DEF Dist, Offsets
  <2>4. QED
    BY <2>2, <2>3
<1>8. \A i \in Offsets : HeadAt(r2, i) => HeadAt(r, i) /\ i # s /\ r2[i] = r[i]
  <2>1. s \in s..(s + n - 1)
    BY <1>1, <1>3
  <2>2. QED
    BY <1>6, <2>1 DEF HeadAt
<1>9. ASSUME NEW h \in Offsets, HeadAt(r, h), h # s
      PROVE  r2[h] = r[h] /\ Intact(r2, h) /\ HeadAt(r2, h)
  <2> DEFINE d == r[h].cmd
  <2>1. /\ d # None /\ d.size \in 1..Usable /\ h + d.size <= Total
        /\ \A k \in 0..(d.size - 1) : r[h + k] = [cmd |-> d, part |-> k]
    BY <1>9, HeadIs
  <2> HIDE DEF d
  <2>2. ASSUME NEW k \in 0..(d.size - 1)
        PROVE  h + k \in Offsets /\ r2[h + k] = [cmd |-> d, part |-> k]
    <3>1. h + k \in Offsets
      BY <2>1, TotalIs DEF Offsets
    <3>2. CASE h + k \in s..(s + n - 1)
      <4>1. h + k - s \in 0..(n - 1) /\ s + (h + k - s) = h + k
        BY <1>1, <1>3, <3>1, <3>2 DEF Offsets
      <4>2. r[h + k] = [cmd |-> c, part |-> h + k - s]
        BY <1>3, <4>1
      <4>3. h + k - s = k
        <5>1. r[h + k] = [cmd |-> d, part |-> k]
          BY <2>1
        <5>2. r[h + k].part = k /\ r[h + k].part = h + k - s
          BY <4>2, <5>1
        <5>3. QED
          BY <5>2
      <4>4. QED
        BY <1>1, <1>9, <4>3 DEF Offsets
    <3>3. CASE h + k \notin s..(s + n - 1)
      BY <1>4, <2>1, <3>1, <3>3
    <3>4. QED
      BY <3>2, <3>3
  <2>3. r2[h] = [cmd |-> d, part |-> 0] /\ r[h] = [cmd |-> d, part |-> 0]
    <3>1. 0 \in 0..(d.size - 1) /\ h + 0 = h
      BY <2>1 DEF Offsets
    <3>2. QED
      BY <2>1, <2>2, <3>1
  <2>4. QED
    BY <1>9, <2>1, <2>2, <2>3 DEF HeadAt, Intact
<1>10. \A i \in Offsets : HeadAt(r2, i) <=> HeadAt(r, i) /\ i # s
  BY <1>8, <1>9
<1>11. ASSUME NEW x, Boundary(r, p, x), x # s
       PROVE  Boundary(r2, p, x) /\ Dist(g, s2) <= Dist(g, x)
  <2>1. CASE x = p
    BY <1>3, <2>1 DEF Boundary
  <2>2. CASE HeadAt(r, x)
    <3>1. x \in Offsets /\ HeadAt(r2, x)
      BY <1>9, <1>11, <2>2 DEF HeadAt
    <3>2. QED
      BY <1>7, <3>1 DEF Boundary, HeadAt
  <2>3. QED
    BY <1>11, <2>1, <2>2 DEF Boundary
<1>12. Boundary(r2, p, s2)
  <2>1. s2 # s
    <3>1. Dist(g, s) \in Int
      BY <1>1, DistIs DEF Offsets
    <3>2. QED
      BY <1>3, <3>1
  <2>2. QED
    BY <1>3, <1>11, <2>1
<1>13. ASSUME NEW h \in Offsets, HeadAt(r2, h) PROVE HeadOK(r2, g, p, h)
  <2> DEFINE d == r[h].cmd
             a == After(h, d)
  <2>1. HeadAt(r, h) /\ h # s /\ r2[h] = r[h] /\ Intact(r2, h)
    BY <1>8, <1>9, <1>13
  <2>2. /\ d = Jump => \A j \in Offsets : j >= h + 2 => r[j].cmd = None
        /\ d # Jump => h + d.size <= Usable
        /\ Boundary(r, p, a)
        /\ Dist(g, h) < Dist(g, a) /\ Dist(g, a) <= Dist(g, p)
        /\ Dist(g, s) <= Dist(g, h) /\ a \in 0..Usable
    BY <2>1, HeadIs
  <2> HIDE DEF d, a
  <2>3. a # s
    BY <1>1, <2>2, TotalIs DEF Dist, Offsets
  <2>4. d = Jump => \A j \in Offsets : j >= h + 2 => r2[j].cmd = None
    BY <1>4, <2>2 DEF Garbage
  <2>5. QED
    BY <1>11, <2>1, <2>2, <2>3, <2>4 DEF HeadOK, d, a, JumpEntries
<1>14. RingOK(r2, g, s2, p)
  BY <1>1, <1>3, <1>5, <1>7, <1>12, <1>13 DEF RingOK
<1>15. QED
  BY <1>2, <1>3, <1>8, <1>9, <1>10, <1>11, <1>14 DEF c, r2, s2

(* Distances from a position further on. *)
LEMMA DistFrom ==
  ASSUME NEW g \in Offsets, NEW g2 \in Offsets, NEW x \in Offsets, Dist(g, g2) <= Dist(g, x)
  PROVE  Dist(g2, x) = Dist(g, x) - Dist(g, g2)
BY TotalIs DEF Dist, Offsets

(* The client learns that the reader is further on. *)
LEMMA RingLook ==
  ASSUME NEW r, NEW g, NEW s, NEW p, RingOK(r, g, s, p),
         NEW g2 \in 0..Usable, Dist(g, g2) <= Dist(g, s)
  PROVE  RingOK(r, g2, s, p)
<1>1. /\ g \in Offsets /\ g2 \in Offsets /\ s \in Offsets /\ p \in Offsets
      /\ Dist(g, s) <= Dist(g, p)
  BY TotalIs DEF RingOK, Offsets
<1>2. ASSUME NEW x \in Offsets, Dist(g, s) <= Dist(g, x)
      PROVE  Dist(g2, x) = Dist(g, x) - Dist(g, g2) /\ Dist(g, x) \in Int /\ Dist(g, g2) \in Int
  <2>1. Dist(g, x) \in Int /\ Dist(g, g2) \in Int /\ Dist(g, s) \in Int
    BY <1>1, DistIs DEF Offsets
  <2>2. Dist(g, g2) <= Dist(g, x)
    BY <1>2, <2>1
  <2>3. QED
    BY <1>1, <2>1, <2>2, DistFrom
<1>3. Dist(g, s) \in Int
  BY <1>1, DistIs DEF Offsets
<1>4. Dist(g2, s) <= Dist(g2, p)
  BY <1>1, <1>2, <1>3
<1>5. ASSUME NEW i \in Offsets, r[i].cmd # None
      PROVE  Dist(g2, s) <= Dist(g2, i) /\ Dist(g2, i) < Dist(g2, p)
  <2>1. Dist(g, s) <= Dist(g, i) /\ Dist(g, i) < Dist(g, p)
    BY <1>5 DEF RingOK
  <2>2. QED
    BY <1>1, <1>2, <1>3, <2>1
<1>6. ASSUME NEW h \in Offsets, HeadAt(r, h) PROVE HeadOK(r, g2, p, h)
  <2> DEFINE a == After(h, r[h].cmd)
  <2>1. /\ HeadOK(r, g, p, h) /\ a \in Offsets
        /\ Dist(g, h) < Dist(g, a) /\ Dist(g, a) <= Dist(g, p) /\ Dist(g, s) <= Dist(g, h)
    BY <1>6, HeadIs, TotalIs DEF RingOK, Offsets
  <2> HIDE DEF a
  <2>2. Dist(g, h) \in Int /\ Dist(g, a) \in Int
    BY <1>1, <2>1, DistIs DEF Offsets
  <2>3. Dist(g, s) <= Dist(g, a)
    BY <1>3, <2>1, <2>2
  <2>4. Dist(g2, h) < Dist(g2, a) /\ Dist(g2, a) <= Dist(g2, p)
    BY <1>1, <1>2, <1>3, <2>1, <2>2, <2>3
  <2>5. QED
    BY <2>1, <2>4 DEF HeadOK, a
<1>7. QED
  BY <1>4, <1>5, <1>6 DEF RingOK

-----------------------------------------------------------------------------
(* The walk of a reader. *)

(* f is the walk up to its n-th step. *)
WalkTo(r, p, get, n, f) ==
    f = [k \in 0..n |->
            IF k = 0 THEN [at |-> get, met |-> <<>>]
            ELSE CHOOSE q \in {Advance(r, p, reader) : reader \in {f[k - 1]}} : TRUE]

(* The only element of a set is the chosen one. *)
LEMMA OneChoice ==
  ASSUME NEW a
  PROVE  (CHOOSE q \in {a} : TRUE) = a
OBVIOUS

(* So the choice in Walk is no choice. *)
LEMMA AdvanceChosen ==
  ASSUME NEW r, NEW p, NEW a
  PROVE  (CHOOSE q \in {Advance(r, p, reader) : reader \in {a}} : TRUE) = Advance(r, p, a)
<1> DEFINE b == Advance(r, p, a)
<1>1. {Advance(r, p, reader) : reader \in {a}} = {b}
  OBVIOUS
<1> HIDE DEF b
<1>2. (CHOOSE q \in {b} : TRUE) = b
  BY OneChoice
<1>3. QED
  BY <1>1, <1>2 DEF b

(* The walk is what Walk defines if there is one. *)
LEMMA WalkIsOne ==
  ASSUME NEW r, NEW p, NEW get, \E f : WalkTo(r, p, get, Total, f)
  PROVE  WalkTo(r, p, get, Total, Walk(r, get, p))
BY Zenon DEF Walk, WalkTo

(* There is one of every length. *)
LEMMA WalkExists ==
  ASSUME NEW r, NEW p, NEW get
  PROVE  \E f : WalkTo(r, p, get, Total, f)
<1> DEFINE S == {n \in 0..Total : \E f : WalkTo(r, p, get, n, f)}
<1>1. 0 \in S
  <2> DEFINE f == [k \in 0..0 |-> [at |-> get, met |-> <<>>]]
  <2>1. f = [k \in 0..0 |-> IF k = 0 THEN [at |-> get, met |-> <<>>]
               ELSE CHOOSE q \in {Advance(r, p, reader) : reader \in {f[k - 1]}} : TRUE]
    <3>1. \A k \in 0..0 : k = 0
      OBVIOUS
    <3>2. QED
      BY <3>1, Zenon
  <2>2. WalkTo(r, p, get, 0, f)
    BY <2>1, Zenon DEF WalkTo
  <2>3. QED
    BY <2>2, TotalIs
<1>2. ASSUME NEW k \in 0..(Total - 1), k \in S PROVE k + 1 \in S
  <2>1. PICK f : WalkTo(r, p, get, k, f)
    BY <1>2
  <2> DEFINE next(g, j) ==
               IF j = 0 THEN [at |-> get, met |-> <<>>]
               ELSE CHOOSE q \in {Advance(r, p, reader) : reader \in {g[j - 1]}} : TRUE
             f2 == [j \in 0..(k + 1) |-> IF j <= k THEN f[j] ELSE Advance(r, p, f[k])]
  <2>2. f = [j \in 0..k |-> next(f, j)]
    BY <2>1, Zenon DEF WalkTo
  <2>3. ASSUME NEW j \in 0..(k + 1) PROVE f2[j] = next(f2, j)
    <3>1. k \in Nat /\ 0 <= k
      BY <1>2, TotalIs
    <3>2. CASE j = 0
      <4>1. j \in 0..k /\ j <= k
        BY <3>1, <3>2
      <4>2. f[j] = next(f, j)
        BY <2>2, <4>1, Zenon
      <4>3. f2[j] = f[j]
        BY <4>1, <2>3
      <4>4. QED
        BY <3>2, <4>2, <4>3, Zenon
    <3>3. CASE j \in 1..k
      <4>1. j \in 0..k /\ j <= k /\ j # 0 /\ j - 1 \in 0..(k + 1) /\ j - 1 <= k
        BY <3>1, <3>3
      <4>2. f2[j] = f[j] /\ f2[j - 1] = f[j - 1]
        BY <4>1, <2>3
      <4>3. f[j] = next(f, j)
        BY <2>2, <4>1, Zenon
      <4>4. QED
        BY <4>1, <4>2, <4>3, Zenon
    <3>4. CASE j = k + 1
      <4>1. ~(j <= k) /\ j # 0 /\ k \in 0..(k + 1) /\ j - 1 = k /\ k <= k
        BY <3>1, <3>4
      <4>2. f2[j] = Advance(r, p, f[k]) /\ f2[j - 1] = f[k]
        BY <4>1, <2>3
      <4>3. next(f2, j) = Advance(r, p, f2[j - 1])
        BY <4>1, AdvanceChosen, Zenon
      <4> HIDE DEF f2, next
      <4>4. QED
        BY <4>2, <4>3
    <3>5. QED
      BY <3>1, <3>2, <3>3, <3>4
  <2>4. f2 = [j \in 0..(k + 1) |-> next(f2, j)]
    BY <2>3, Zenon
  <2>5. WalkTo(r, p, get, k + 1, f2)
    BY <2>4, Zenon DEF WalkTo
  <2>6. QED
    BY <2>5, TotalIs
<1>3. Total \in S
  <2> HIDE DEF S
  <2>1. QED
    BY <1>1, <1>2, UpTo, TotalIs
<1>4. QED
  BY <1>3

(* The walk starts at the reader and advances one command a step. *)
LEMMA WalkIs ==
  ASSUME NEW r, NEW p, NEW get
  PROVE  LET W == Walk(r, get, p)
         IN  /\ W[0] = [at |-> get, met |-> <<>>]
             /\ \A k \in 0..(Total - 1) : W[k + 1] = Advance(r, p, W[k])
<1> DEFINE W == Walk(r, get, p)
           next(j) == IF j = 0 THEN [at |-> get, met |-> <<>>]
                      ELSE CHOOSE q \in {Advance(r, p, reader) : reader \in {W[j - 1]}} : TRUE
<1>1. WalkTo(r, p, get, Total, W)
  BY WalkIsOne, WalkExists, Zenon
<1> HIDE DEF W
<1>2. W = [k \in 0..Total |-> next(k)]
  BY <1>1, Zenon DEF WalkTo
<1>3. W[0] = [at |-> get, met |-> <<>>]
  <2>1. 0 \in 0..Total
    BY TotalIs
  <2>2. W[0] = next(0)
    BY <1>2, <2>1, Zenon
  <2>3. QED
    BY <2>2, Zenon
<1>4. ASSUME NEW k \in 0..(Total - 1) PROVE W[k + 1] = Advance(r, p, W[k])
  <2>1. k + 1 \in 0..Total /\ k + 1 # 0 /\ (k + 1) - 1 = k
    BY TotalIs
  <2>2. W[k + 1] = next(k + 1)
    BY <1>2, <2>1, Zenon
  <2>3. next(k + 1) = Advance(r, p, W[(k + 1) - 1])
    BY <2>1, AdvanceChosen, Zenon
  <2>4. QED
    BY <2>1, <2>2, <2>3, Zenon
<1>5. QED
  BY <1>3, <1>4 DEF W

(* What a reader meets: the commands at the heads of the ring. *)
Walker(r, p, w) ==
    /\ w \in [at : Offsets, met : Seq(Commands)]
    /\ Boundary(r, p, w.at)
    /\ \A i \in DOMAIN w.met : \E h \in Offsets : HeadAt(r, h) /\ w.met[i] = r[h].cmd

(* Jumps are not met. *)
Meet(met, c) == IF c = Jump THEN met ELSE Append(met, c)

(* Each step takes it behind one more whole command. *)
LEMMA AdvanceIs ==
  ASSUME NEW r, NEW g, NEW s, NEW p, RingOK(r, g, s, p), NEW w, Walker(r, p, w)
  PROVE  LET c == r[w.at].cmd
             a == After(w.at, c)
         IN  /\ w.at = p => Advance(r, p, w) = w
             /\ w.at # p =>
                  /\ HeadAt(r, w.at) /\ c \in Commands \cup {Jump}
                  /\ Advance(r, p, w) = [at |-> a, met |-> Meet(w.met, c)]
                  /\ Walker(r, p, Advance(r, p, w))
                  /\ Dist(g, w.at) < Dist(g, a)
<1> DEFINE c == r[w.at].cmd
           a == After(w.at, c)
<1>1. w.at = p => Advance(r, p, w) = w
  BY DEF Advance
<1>2. ASSUME w.at # p
      PROVE  /\ HeadAt(r, w.at) /\ c \in Commands \cup {Jump}
             /\ Advance(r, p, w) = [at |-> a, met |-> Meet(w.met, c)]
             /\ Walker(r, p, Advance(r, p, w))
             /\ Dist(g, w.at) < Dist(g, a)
  <2>1. HeadAt(r, w.at) /\ w.at \in Offsets /\ Intact(r, w.at)
    BY <1>2 DEF Walker, Boundary, HeadAt, RingOK, HeadOK
  <2>2. /\ c \in Commands \cup {Jump} /\ a \in 0..Usable /\ Boundary(r, p, a)
        /\ Dist(g, w.at) < Dist(g, a)
    BY <2>1, HeadIs
  <2>3. c.op = "jump" <=> c = Jump
    BY <2>2, CommandIs, JumpIs
  <2> HIDE DEF a
  <2>4. Advance(r, p, w) = [at |-> a, met |-> Meet(w.met, c)]
    BY <1>2, <2>1, <2>3 DEF Advance, Meet, a
  <2>5. a \in Offsets
    BY <2>2, TotalIs DEF Offsets
  <2>6. /\ Meet(w.met, c) \in Seq(Commands)
        /\ \A i \in DOMAIN Meet(w.met, c) :
              \E h \in Offsets : HeadAt(r, h) /\ Meet(w.met, c)[i] = r[h].cmd
    <3>1. /\ w.met \in Seq(Commands)
          /\ \A i \in DOMAIN w.met : \E h \in Offsets : HeadAt(r, h) /\ w.met[i] = r[h].cmd
      BY DEF Walker
    <3>2. CASE c = Jump
      BY <3>1, <3>2 DEF Meet
    <3>3. CASE c # Jump
      <4>1. c \in Commands /\ Meet(w.met, c) = Append(w.met, c)
        BY <2>2, <3>3 DEF Meet
      <4>2. /\ Append(w.met, c) \in Seq(Commands)
            /\ Len(Append(w.met, c)) = Len(w.met) + 1
            /\ \A i \in 1..Len(w.met) : Append(w.met, c)[i] = w.met[i]
            /\ Append(w.met, c)[Len(w.met) + 1] = c
        BY <3>1, <4>1, AppendProperties
      <4>3. ASSUME NEW i \in DOMAIN Append(w.met, c)
            PROVE  \E h \in Offsets : HeadAt(r, h) /\ Append(w.met, c)[i] = r[h].cmd
        <5>1. i \in 1..Len(w.met) \/ i = Len(w.met) + 1
          BY <3>1, <4>2, <4>3
        <5>2. CASE i \in 1..Len(w.met)
          <6>1. i \in DOMAIN w.met /\ Append(w.met, c)[i] = w.met[i]
            BY <3>1, <4>2, <5>2
          <6>2. QED
            BY <3>1, <6>1
        <5>3. CASE i = Len(w.met) + 1
          BY <2>1, <4>2, <5>3
        <5>4. QED
          BY <5>1, <5>2, <5>3
      <4>4. QED
        BY <4>1, <4>2, <4>3
    <3>4. QED
      BY <3>2, <3>3
  <2> DEFINE m == Meet(w.met, c)
  <2> HIDE DEF m
  <2>7. /\ m \in Seq(Commands)
        /\ \A i \in DOMAIN m : \E h \in Offsets : HeadAt(r, h) /\ m[i] = r[h].cmd
    BY <2>6 DEF m
  <2>8. Walker(r, p, [at |-> a, met |-> m])
    BY <2>2, <2>5, <2>7 DEF Walker
  <2>9. QED
    BY <2>1, <2>2, <2>4, <2>8 DEF a, m
<1>3. QED
  BY <1>1, <1>2

(* A reader meets only whole commands on its way, and gets to put_. *)
LEMMA WalkReaches ==
  ASSUME NEW r, NEW g, NEW s, NEW p, RingOK(r, g, s, p)
  PROVE  LET W == Walk(r, s, p)
         IN  /\ \A k \in 0..Total : Walker(r, p, W[k])
             /\ W[Total - 1].at = p /\ W[Total] = W[Total - 1]
<1> DEFINE W == Walk(r, s, p)
           Late(k) == W[k].at = p \/ Dist(g, W[k].at) >= k
           S == {k \in 0..Total : Walker(r, p, W[k]) /\ Late(k)}
<1>1. /\ g \in Offsets /\ s \in Offsets /\ p \in Offsets
      /\ Boundary(r, p, s) /\ Total \in Nat /\ Total > 2
  BY TotalIs DEF RingOK, Offsets
<1>2. /\ W[0] = [at |-> s, met |-> <<>>]
      /\ \A k \in 0..(Total - 1) : W[k + 1] = Advance(r, p, W[k])
  BY WalkIs
<1> HIDE DEF W
<1>3. 0 \in S
  <2>1. Walker(r, p, [at |-> s, met |-> <<>>])
    BY <1>1 DEF Walker
  <2>2. Dist(g, s) >= 0
    BY <1>1, DistIs DEF Offsets
  <2>3. QED
    BY <1>1, <1>2, <2>1, <2>2
<1>4. ASSUME NEW k \in 0..(Total - 1), k \in S PROVE k + 1 \in S
  <2> DEFINE w == W[k]
             v == W[k + 1]
  <2>1. /\ Walker(r, p, w) /\ Late(k) /\ v = Advance(r, p, w)
        /\ k + 1 \in 0..Total /\ w.at \in Offsets
    BY <1>1, <1>2, <1>4 DEF Walker
  <2>2. CASE w.at = p
    <3>1. v = w
      BY <2>1, <2>2, AdvanceIs
    <3>2. QED
      BY <2>1, <2>2, <3>1
  <2>3. CASE w.at # p
    <3>1. Walker(r, p, v) /\ Dist(g, w.at) < Dist(g, v.at)
      <4> HIDE DEF v, w
      <4>1. QED
        BY <2>1, <2>3, AdvanceIs
    <3>2. Dist(g, w.at) \in Int /\ Dist(g, v.at) \in Int /\ Dist(g, w.at) >= k
      <4>1. v.at \in Offsets
        BY <3>1 DEF Walker
      <4>2. Dist(g, w.at) \in Offsets /\ Dist(g, v.at) \in Offsets
        BY <1>1, <2>1, <4>1, DistIs
      <4>3. QED
        BY <2>1, <2>3, <4>2 DEF Offsets
    <3>3. Dist(g, v.at) >= k + 1
      BY <3>1, <3>2
    <3>4. QED
      BY <2>1, <3>1, <3>3
  <2>4. QED
    BY <2>2, <2>3
<1>5. \A k \in 0..Total : k \in S
  <2> HIDE DEF S
  <2>1. QED
    BY <1>1, <1>3, <1>4, UpTo
<1>6. Total - 1 \in 0..Total /\ Total - 1 \in 0..(Total - 1) /\ (Total - 1) + 1 = Total
  BY <1>1
<1>7. W[Total - 1].at = p
  <2> DEFINE a == W[Total - 1].at
  <2>1. Walker(r, p, W[Total - 1]) /\ Late(Total - 1)
    BY <1>5, <1>6
  <2>2. Boundary(r, p, a)
    BY <2>1 DEF Walker
  <2> HIDE DEF a
  <2>3. a \in Offsets /\ (a # p => Dist(g, a) < Dist(g, p))
    BY <2>2, BoundaryIs
  <2>4. Dist(g, p) \in 0..(Total - 1) /\ Dist(g, a) \in 0..(Total - 1)
    BY <1>1, <2>3, DistIs DEF Offsets
  <2>5. QED
    BY <1>1, <2>1, <2>3, <2>4 DEF a
<1>8. W[Total] = W[Total - 1]
  <2>1. W[Total] = Advance(r, p, W[Total - 1])
    BY <1>2, <1>6
  <2>2. Walker(r, p, W[Total - 1])
    BY <1>5, <1>6
  <2>3. QED
    BY <1>7, <2>1, <2>2, AdvanceIs
<1>9. QED
  BY <1>5, <1>7, <1>8 DEF W

(* A command placed at put_ is the last one the reader will meet. *)
LEMMA WalkAppend ==
  ASSUME NEW r, NEW g, NEW s, NEW p, RingOK(r, g, s, p),
         NEW c \in Commands \cup {Jump}, NEW p2, Room(g, p, c, p2)
  PROVE  Walk(WriteCommand(r, p, c), s, p2)[Total].met = Meet(Walk(r, s, p)[Total].met, c)
<1> DEFINE r2 == WriteCommand(r, p, c)
           W == Walk(r, s, p)
           W2 == Walk(r2, s, p2)
           Both(k) == \/ W2[k] = W[k]
                      \/ W[k].at = p /\ W2[k] = [at |-> p2, met |-> Meet(W[k].met, c)]
           S == {k \in 0..Total : Both(k)}
<1>1. /\ RingOK(r2, g, s, p2)
      /\ Dist(g, p) < Dist(g, p2)
      /\ HeadAt(r2, p) /\ r2[p].cmd = c /\ Intact(r2, p) /\ After(p, c) = p2
      /\ \A i \in Offsets : HeadAt(r2, i) <=> HeadAt(r, i) \/ i = p
      /\ \A i \in Offsets : HeadAt(r, i) => r2[i] = r[i] /\ (Intact(r2, i) <=> Intact(r, i))
  BY RingAppend
<1> HIDE DEF r2
<1>2. /\ g \in Offsets /\ p \in Offsets /\ p2 \in Offsets /\ Total \in Nat /\ Total > 2
      /\ Dist(g, p) \in Int /\ Dist(g, p2) \in Int
  <2>1. g \in 0..Usable /\ p \in 0..Usable /\ p2 \in 0..Usable
    BY <1>1 DEF RingOK
  <2>2. g \in Offsets /\ p \in Offsets /\ p2 \in Offsets
    BY <2>1, TotalIs DEF Offsets
  <2>3. QED
    BY <2>2, TotalIs, DistIs DEF Offsets
<1>3. /\ W[0] = [at |-> s, met |-> <<>>] /\ W2[0] = [at |-> s, met |-> <<>>]
      /\ \A k \in 0..(Total - 1) : W[k + 1] = Advance(r, p, W[k])
      /\ \A k \in 0..(Total - 1) : W2[k + 1] = Advance(r2, p2, W2[k])
  BY WalkIs
<1>4. /\ \A k \in 0..Total : Walker(r, p, W[k])
      /\ W[Total - 1].at = p /\ W[Total] = W[Total - 1]
      /\ W2[Total - 1].at = p2 /\ W2[Total] = W2[Total - 1]
  BY <1>1, WalkReaches
<1> HIDE DEF W, W2
<1>5. 0 \in S
  BY <1>2, <1>3
<1>6. ASSUME NEW k \in 0..(Total - 1), k \in S PROVE k + 1 \in S
  <2>1. /\ Walker(r, p, W[k]) /\ Both(k) /\ k + 1 \in 0..Total
        /\ W[k + 1] = Advance(r, p, W[k]) /\ W2[k + 1] = Advance(r2, p2, W2[k])
    BY <1>2, <1>3, <1>4, <1>6
  <2>2. CASE W[k].at = p /\ W2[k] = [at |-> p2, met |-> Meet(W[k].met, c)]
    <3>1. W[k + 1] = W[k] /\ W2[k + 1] = W2[k]
      BY <2>1, <2>2 DEF Advance
    <3>2. QED
      BY <2>1, <2>2, <3>1
  <2>3. CASE W2[k] = W[k] /\ W[k].at = p
    <3>1. p # p2
      BY <1>2, <1>1
    <3>2. c.op = "jump" <=> c = Jump
      BY CommandIs, JumpIs
    <3>3. W[k + 1] = W[k]
      BY <2>1, <2>3 DEF Advance
    <3>4. W2[k + 1] = [at |-> p2, met |-> Meet(W[k].met, c)]
      BY <1>1, <2>1, <2>3, <3>1, <3>2 DEF Advance, Meet
    <3>5. QED
      BY <2>1, <2>3, <3>3, <3>4
  <2>4. CASE W2[k] = W[k] /\ W[k].at # p
    <3> DEFINE a == W[k].at
    <3>1. Boundary(r, p, a)
      BY <2>1 DEF Walker
    <3>2. HeadAt(r, a) /\ a \in Offsets /\ Dist(g, a) < Dist(g, p)
      <4> HIDE DEF a
      <4>1. QED
        BY <2>4, <3>1, BoundaryIs DEF a
    <3>3. a # p2
      <4>1. Dist(g, a) \in Int
        <5>1. Dist(g, a) \in Offsets
          BY <1>2, <3>2, DistIs
        <5>2. QED
          BY <5>1 DEF Offsets
      <4>2. QED
        BY <1>1, <1>2, <3>2, <4>1
    <3>4. r2[a] = r[a] /\ (Intact(r2, a) <=> Intact(r, a))
      BY <1>1, <3>2
    <3>5. W2[k + 1] = W[k + 1]
      BY <2>1, <2>4, <3>3, <3>4, HeadIs, <3>2 DEF Advance, RingOK, HeadOK
    <3>6. QED
      BY <2>1, <3>5
  <2>5. QED
    BY <2>1, <2>2, <2>3, <2>4
<1>7. \A k \in 0..Total : k \in S
  <2> HIDE DEF S
  <2>1. QED
    BY <1>2, <1>5, <1>6, UpTo
<1>8. Both(Total)
  BY <1>2, <1>7
<1>9. p # p2
  BY <1>2, <1>1
<1>10. W2[Total].met = Meet(W[Total].met, c)
  BY <1>4, <1>8, <1>9
<1>11. QED
  BY <1>10 DEF W, W2, r2

(* The command that was carried out was the first one. *)
LEMMA WalkRead ==
  ASSUME NEW r, NEW g, NEW s, NEW p, RingOK(r, g, s, p), s # p
  PROVE  LET c  == r[s].cmd
             m  == Walk(r, s, p)[Total].met
             m2 == Walk(Erase(r, s, c), After(s, c), p)[Total].met
         IN  /\ m2 \in Seq(Commands)
             /\ m = IF c = Jump THEN m2 ELSE <<c>> \o m2
<1> DEFINE c == r[s].cmd
           r2 == Erase(r, s, c)
           s2 == After(s, c)
           Before(m) == IF c = Jump THEN m ELSE <<c>> \o m
           W == Walk(r, s, p)
           W2 == Walk(r2, s2, p)
           Both(k) == W[k + 1] = [at |-> W2[k].at, met |-> Before(W2[k].met)]
           S == {k \in 0..(Total - 1) : Both(k)}
<1>1. /\ HeadAt(r, s) /\ Intact(r, s)
      /\ RingOK(r2, g, s2, p)
      /\ \A i \in Offsets : HeadAt(r2, i) => r2[i] = r[i] /\ Intact(r2, i)
      /\ \A i \in Offsets : HeadAt(r2, i) <=> HeadAt(r, i) /\ i # s
  BY RingRead
<1>2. /\ s \in Offsets /\ c \in Commands \cup {Jump} /\ (c.op = "jump" <=> c = Jump)
      /\ Total \in Nat /\ Total > 2
  <2>1. s \in Offsets /\ c \in Commands \cup {Jump}
    BY <1>1, HeadIs DEF HeadAt
  <2>2. c.op = "jump" <=> c = Jump
    BY <2>1, CommandIs, JumpIs
  <2>3. QED
    BY <2>1, <2>2, TotalIs
<1>3. /\ W[0] = [at |-> s, met |-> <<>>] /\ W2[0] = [at |-> s2, met |-> <<>>]
      /\ \A k \in 0..(Total - 1) : W[k + 1] = Advance(r, p, W[k])
      /\ \A k \in 0..(Total - 1) : W2[k + 1] = Advance(r2, p, W2[k])
  BY WalkIs
<1>4. /\ \A k \in 0..Total : Walker(r2, p, W2[k])
      /\ W2[Total - 1].at = p /\ W2[Total] = W2[Total - 1]
  BY <1>1, WalkReaches
<1> HIDE DEF W, W2, r2, s2, c
<1>5. 0 \in S
  <2>1. W[1] = Advance(r, p, W[0])
    <3>1. 0 \in 0..(Total - 1) /\ 0 + 1 = 1
      BY <1>2
    <3>2. QED
      BY <1>3, <3>1
  <2>2. Advance(r, p, W[0]) = [at |-> s2, met |-> IF c = Jump THEN <<>> ELSE Append(<<>>, c)]
    BY <1>1, <1>2, <1>3 DEF Advance, s2, c
  <2>3. Before(<<>>) = IF c = Jump THEN <<>> ELSE Append(<<>>, c)
    OBVIOUS
  <2>4. 0 \in 0..(Total - 1) /\ 0 + 1 = 1
    BY <1>2
  <2>5. QED
    BY <1>3, <2>1, <2>2, <2>3, <2>4
<1>6. ASSUME NEW k \in 0..(Total - 2), k \in S PROVE k + 1 \in S
  <2> DEFINE w == W2[k]
             v == W[k + 1]
             u == Advance(r2, p, w)
  <2>1. /\ Walker(r2, p, w) /\ v = [at |-> w.at, met |-> Before(w.met)]
        /\ k + 1 \in 0..(Total - 1) /\ w.met \in Seq(Commands)
        /\ W[(k + 1) + 1] = Advance(r, p, v) /\ W2[k + 1] = u
    BY <1>2, <1>3, <1>4, <1>6, SMTT(30) DEF Walker
  <2> HIDE DEF w, v
  <2>2. Advance(r, p, v) = [at |-> u.at, met |-> Before(u.met)]
    <3>1. CASE w.at = p
      BY <2>1, <3>1 DEF Advance
    <3>2. CASE w.at # p
      <4> DEFINE a == w.at
                 d == r2[a].cmd
      <4>1. /\ HeadAt(r2, a) /\ d \in Commands \cup {Jump}
            /\ u = [at |-> After(a, d), met |-> Meet(w.met, d)]
        BY <1>1, <2>1, <3>2, AdvanceIs
      <4>2. a \in Offsets /\ HeadAt(r, a) /\ r2[a] = r[a]
        BY <1>1, <4>1 DEF HeadAt
      <4>3. Intact(r, a)
        BY <4>2 DEF RingOK, HeadOK
      <4>4. d.op = "jump" <=> d = Jump
        BY <4>1, CommandIs, JumpIs
      <4>5. Advance(r, p, v) = [at |-> After(a, d), met |-> Meet(v.met, d)]
        BY <2>1, <3>2, <4>2, <4>3, <4>4 DEF Advance, Meet
      <4> HIDE DEF d, a
      <4>6. Meet(Before(w.met), d) = Before(Meet(w.met, d))
        <5>1. CASE c # Jump /\ d # Jump
          <6>1. c \in Commands /\ d \in Commands
            BY <1>2, <4>1, <5>1
          <6>2. <<c>> \o Append(w.met, d) = Append(<<c>> \o w.met, d)
            BY <2>1, <6>1
          <6>3. QED
            BY <5>1, <6>2 DEF Meet
        <5>2. CASE c = Jump \/ d = Jump
          BY <5>2 DEF Meet
        <5>3. QED
          BY <5>1, <5>2
      <4>7. v.met = Before(w.met) /\ u.at = After(a, d) /\ u.met = Meet(w.met, d)
        BY <2>1, <4>1
      <4> HIDE DEF u
      <4>8. QED
        BY <4>5, <4>6, <4>7
    <3>3. QED
      BY <3>1, <3>2
  <2>3. QED
    BY <2>1, <2>2
<1>7. \A k \in 0..(Total - 1) : k \in S
  <2>1. Total - 1 \in Nat /\ (Total - 1) - 1 = Total - 2
    BY <1>2
  <2> HIDE DEF S
  <2>2. QED
    BY <2>1, <1>5, <1>6, UpTo
<1>8. W[Total].met = Before(W2[Total].met)
  <2>1. Total - 1 \in 0..(Total - 1) /\ (Total - 1) + 1 = Total
    BY <1>2
  <2>2. Both(Total - 1)
    BY <1>7, <2>1
  <2> HIDE DEF Before
  <2>3. W[Total] = [at |-> W2[Total - 1].at, met |-> Before(W2[Total - 1].met)]
    BY <2>1, <2>2
  <2>4. QED
    BY <1>4, <2>3
<1>9. W2[Total].met \in Seq(Commands)
  BY <1>2, <1>4 DEF Walker
<1>10. QED
  BY <1>8, <1>9 DEF W, W2, r2, s2, c

-----------------------------------------------------------------------------
(* Flushes. *)

(* Flushes of a list with one message more. *)
LEMMA FlushesInsert ==
  ASSUME NEW g, NEW d \in Seq(ServiceMessage), NEW m \in ServiceMessage,
         NEW k \in 1..(Len(d) + 1), FlushesInOrder(g, d),
         IsFlush(m) => /\ k = Len(d) + 1
                       /\ \A x \in Flushes(d) \cup {m.put} : Dist(g, x) <= Dist(g, m.put)
  PROVE  /\ InsertAt(d, k, m) \in Seq(ServiceMessage)
         /\ FlushesInOrder(g, InsertAt(d, k, m))
         /\ Flushes(InsertAt(d, k, m)) = Flushes(d) \cup (IF IsFlush(m) THEN {m.put} ELSE {})
<1> DEFINE e == InsertAt(d, k, m)
<1>1. /\ e \in Seq(ServiceMessage) /\ ToSet(e) = ToSet(d) \cup {m}
      /\ Len(e) = Len(d) + 1 /\ Len(d) \in Nat /\ DOMAIN d = 1..Len(d)
      /\ \A i \in 1..(Len(d) + 1) :
            e[i] = IF i < k THEN d[i] ELSE IF i = k THEN m ELSE d[i - 1]
  BY InsertAtList, InsertAtCells
<1> HIDE DEF e
<1>2. Flushes(e) = Flushes(d) \cup (IF IsFlush(m) THEN {m.put} ELSE {})
  BY <1>1 DEF Flushes
<1>3. ASSUME NEW i \in DOMAIN e, NEW j \in DOMAIN e, i <= j, IsFlush(e[i]), IsFlush(e[j])
      PROVE  Dist(g, e[i].put) <= Dist(g, e[j].put)
  <2>0. i \in 1..(Len(d) + 1) /\ j \in 1..(Len(d) + 1)
    BY <1>1, <1>3
  <2>1. CASE IsFlush(m)
    <3>1. k = Len(d) + 1
      BY <2>1
    <3>2. CASE j <= Len(d)
      <4>1. i \in DOMAIN d /\ j \in DOMAIN d /\ e[i] = d[i] /\ e[j] = d[j]
        BY <1>1, <1>3, <2>0, <3>1, <3>2
      <4>2. QED
        BY <1>3, <4>1 DEF FlushesInOrder
    <3>3. CASE j = Len(d) + 1 /\ i <= Len(d)
      <4>1. i \in DOMAIN d /\ e[i] = d[i] /\ e[j] = m
        BY <1>1, <1>3, <2>0, <3>1, <3>3
      <4>2. d[i].put \in Flushes(d)
        BY <1>3, <4>1 DEF Flushes, ToSet
      <4>3. QED
        BY <2>1, <4>1, <4>2
    <3>4. CASE j = Len(d) + 1 /\ i = Len(d) + 1
      <4>1. e[i] = m /\ e[j] = m
        BY <1>1, <2>0, <3>1, <3>4
      <4>2. QED
        BY <2>1, <4>1
    <3>5. QED
      BY <1>1, <2>0, <3>2, <3>3, <3>4
  <2>2. CASE ~IsFlush(m)
    <3> DEFINE old(n) == IF n < k THEN n ELSE n - 1
    <3>1. i # k /\ j # k
      BY <1>1, <1>3, <2>0, <2>2
    <3>2. /\ old(i) \in DOMAIN d /\ old(j) \in DOMAIN d /\ old(i) <= old(j)
          /\ e[i] = d[old(i)] /\ e[j] = d[old(j)]
      BY <1>1, <1>3, <2>0, <3>1
    <3> HIDE DEF old
    <3>3. QED
      BY <1>3, <3>2 DEF FlushesInOrder
  <2>3. QED
    BY <2>1, <2>2
<1>4. FlushesInOrder(g, e)
  BY <1>3 DEF FlushesInOrder
<1>5. QED
  BY <1>1, <1>2, <1>4 DEF e

(* Flushes of a list without its first message. *)
LEMMA FlushesTail ==
  ASSUME NEW g, NEW d \in Seq(ServiceMessage), d # <<>>, FlushesInOrder(g, d)
  PROVE  /\ Tail(d) \in Seq(ServiceMessage) /\ Head(d) \in ServiceMessage
         /\ FlushesInOrder(g, Tail(d))
         /\ Flushes(Tail(d)) \subseteq Flushes(d)
         /\ IsFlush(Head(d)) =>
              /\ Head(d).put \in Flushes(d)
              /\ \A x \in Flushes(Tail(d)) : Dist(g, Head(d).put) <= Dist(g, x)
<1>1. /\ Head(d) \in ToSet(d) /\ Head(d) \in ServiceMessage
      /\ Tail(d) \in Seq(ServiceMessage) /\ ToSet(Tail(d)) \subseteq ToSet(d)
  BY TailList
<1>2. /\ Len(d) \in Nat /\ Len(d) >= 1 /\ DOMAIN d = 1..Len(d) /\ DOMAIN Tail(d) = 1..(Len(d) - 1)
      /\ Head(d) = d[1] /\ \A i \in 1..(Len(d) - 1) : Tail(d)[i] = d[i + 1]
  OBVIOUS
<1>3. ASSUME NEW i \in DOMAIN Tail(d)
      PROVE  i + 1 \in DOMAIN d /\ Tail(d)[i] = d[i + 1] /\ i \in Nat
  BY <1>2
<1>4. FlushesInOrder(g, Tail(d))
  <2>1. ASSUME NEW i \in DOMAIN Tail(d), NEW j \in DOMAIN Tail(d), i <= j,
               IsFlush(Tail(d)[i]), IsFlush(Tail(d)[j])
        PROVE  Dist(g, Tail(d)[i].put) <= Dist(g, Tail(d)[j].put)
    <3>1. i + 1 <= j + 1
      BY <1>3, <2>1
    <3>2. QED
      BY <1>3, <2>1, <3>1 DEF FlushesInOrder
  <2>2. QED
    BY <2>1 DEF FlushesInOrder
<1>5. Flushes(Tail(d)) \subseteq Flushes(d)
  BY <1>1 DEF Flushes
<1>6. ASSUME IsFlush(Head(d))
      PROVE  /\ Head(d).put \in Flushes(d)
             /\ \A x \in Flushes(Tail(d)) : Dist(g, Head(d).put) <= Dist(g, x)
  <2>1. ASSUME NEW x \in Flushes(Tail(d)) PROVE Dist(g, Head(d).put) <= Dist(g, x)
    <3>1. PICK m \in ToSet(Tail(d)) : IsFlush(m) /\ x = m.put
      BY <2>1 DEF Flushes
    <3>2. PICK i \in DOMAIN Tail(d) : m = Tail(d)[i]
      BY <3>1 DEF ToSet
    <3>3. 1 \in DOMAIN d /\ 1 <= i + 1
      BY <1>2, <1>3
    <3>4. QED
      BY <1>2, <1>3, <1>6, <3>1, <3>2, <3>3 DEF FlushesInOrder
  <2>2. QED
    BY <1>1, <1>6, <2>1 DEF Flushes
<1>7. QED
  BY <1>1, <1>4, <1>5, <1>6

(* A client that flushes, asking for the state or not. *)
LEMMA FlushSent ==
  ASSUME NEW r, NEW g, NEW s, NEW p, NEW stop, RingOK(r, g, s, p),
         NEW d \in Seq(ServiceMessage), NEW w \in Seq(ServiceMessage),
         FlushesOK(r, g, s, p, stop, d, w),
         NEW more \in {<<>>, <<GetStateFast>>}
  PROVE  LET w2 == w \o <<FlushMessage(p)>> \o more
         IN  w2 \in Seq(ServiceMessage) /\ FlushesOK(r, g, s, p, stop, d, w2)
<1> DEFINE f == FlushMessage(p)
           w1 == Append(w, f)
           w2 == w \o <<FlushMessage(p)>> \o more
<1>0. p \in Offsets /\ p \in Nat /\ g \in Offsets
  BY TotalIs DEF RingOK, Offsets
<1>1. /\ f \in ServiceMessage /\ IsFlush(f) /\ f.put = p
      /\ GetStateFast \in ServiceMessage /\ ~IsFlush(GetStateFast)
  BY <1>0 DEF ServiceMessage, FlushMessage, GetStateFast, IsFlush
<1>2. /\ Boundary(r, p, stop) /\ Dist(g, s) <= Dist(g, stop)
      /\ \A x \in Flushes(d) \cup Flushes(w) : Boundary(r, p, x) /\ Dist(g, stop) <= Dist(g, x)
      /\ \A x \in Flushes(d), y \in Flushes(w) : Dist(g, x) <= Dist(g, y)
      /\ FlushesInOrder(g, d) /\ FlushesInOrder(g, w)
  BY DEF FlushesOK
<1>3. /\ \A x \in Flushes(d) \cup Flushes(w) : Dist(g, x) <= Dist(g, p)
      /\ Boundary(r, p, p) /\ Dist(g, p) <= Dist(g, p) /\ Dist(g, stop) <= Dist(g, p)
  BY <1>0, <1>2, BoundaryIs, DistIs DEF Boundary, Offsets
<1> HIDE DEF f
<1>4. /\ w1 \in Seq(ServiceMessage) /\ w1 = w \o <<f>>
      /\ FlushesInOrder(g, w1) /\ Flushes(w1) = Flushes(w) \cup {p}
  <2>1. Len(w) + 1 \in 1..(Len(w) + 1)
    OBVIOUS
  <2>2. w1 = InsertAt(w, Len(w) + 1, f) /\ w1 = w \o <<f>>
    BY <1>1, InsertAtEnd
  <2>3. IsFlush(f) => /\ Len(w) + 1 = Len(w) + 1
                      /\ \A x \in Flushes(w) \cup {f.put} : Dist(g, x) <= Dist(g, f.put)
    BY <1>1, <1>3
  <2>4. /\ FlushesInOrder(g, InsertAt(w, Len(w) + 1, f))
        /\ Flushes(InsertAt(w, Len(w) + 1, f)) = Flushes(w) \cup {f.put}
    BY <1>1, <1>2, <2>1, <2>3, FlushesInsert
  <2>5. w1 \in Seq(ServiceMessage)
    BY <1>1
  <2>6. QED
    BY <1>1, <2>2, <2>4, <2>5
<1> HIDE DEF w1
<1>5. ASSUME NEW v \in Seq(ServiceMessage), FlushesInOrder(g, v), Flushes(v) = Flushes(w) \cup {p}
      PROVE  FlushesOK(r, g, s, p, stop, d, v)
  BY <1>2, <1>3, <1>5 DEF FlushesOK
<1>6. CASE more = <<>>
  <2>1. w2 = w1
    BY <1>4, <1>6, ConcatEmptySeq DEF f
  <2>2. QED
    BY <1>4, <1>5, <2>1
<1>7. CASE more = <<GetStateFast>>
  <2>1. w2 = w1 \o <<GetStateFast>>
    BY <1>4, <1>7 DEF f
  <2>2. Len(w1) + 1 \in 1..(Len(w1) + 1)
    BY <1>4
  <2>3. w2 = InsertAt(w1, Len(w1) + 1, GetStateFast)
    BY <1>1, <1>4, <2>1, InsertAtEnd, ZenonT(60)
  <2>4. /\ w2 \in Seq(ServiceMessage)
        /\ FlushesInOrder(g, w2) /\ Flushes(w2) = Flushes(w1)
    <3> HIDE DEF w2
    <3> DEFINE m == GetStateFast
               w3 == InsertAt(w1, Len(w1) + 1, m)
    <3>0. w1 \in Seq(ServiceMessage) /\ FlushesInOrder(g, w1)
      BY <1>4
    <3>1. m \in ServiceMessage /\ ~IsFlush(m)
      BY <1>1
    <3> HIDE DEF m
    <3>2. IsFlush(m) => /\ Len(w1) + 1 = Len(w1) + 1
                        /\ \A x \in Flushes(w1) \cup {m.put} : Dist(g, x) <= Dist(g, m.put)
      BY <3>1
    <3>3. /\ InsertAt(w1, Len(w1) + 1, m) \in Seq(ServiceMessage)
          /\ FlushesInOrder(g, InsertAt(w1, Len(w1) + 1, m))
          /\ Flushes(InsertAt(w1, Len(w1) + 1, m))
               = Flushes(w1) \cup (IF IsFlush(m) THEN {m.put} ELSE {})
      BY <2>2, <3>0, <3>1, <3>2, FlushesInsert
    <3>4. QED
      BY <1>4, <2>3, <3>0, <3>1, <3>3 DEF m
  <2>5. QED
    BY <1>4, <1>5, <2>4
<1>8. QED
  BY <1>6, <1>7

(* A command placed at put_ leaves the boundaries where they are. *)
LEMMA FlushPlaced ==
  ASSUME NEW r, NEW g, NEW s, NEW p, NEW stop, NEW d, NEW w, FlushesOK(r, g, s, p, stop, d, w),
         NEW r2, NEW p2, \A x : Boundary(r, p, x) => Boundary(r2, p2, x)
  PROVE  FlushesOK(r2, g, s, p2, stop, d, w)
BY DEF FlushesOK

(* A command carried out. *)
LEMMA FlushRead ==
  ASSUME NEW r, NEW g, NEW s, NEW p, NEW stop, NEW d, NEW w, RingOK(r, g, s, p),
         FlushesOK(r, g, s, p, stop, d, w), s # stop
  PROVE  FlushesOK(Erase(r, s, r[s].cmd), g, After(s, r[s].cmd), p, stop, d, w) /\ s # p
<1> DEFINE r2 == Erase(r, s, r[s].cmd)
           s2 == After(s, r[s].cmd)
<1>1. /\ Boundary(r, p, stop) /\ Dist(g, s) <= Dist(g, stop)
      /\ \A x \in Flushes(d) \cup Flushes(w) : Boundary(r, p, x) /\ Dist(g, stop) <= Dist(g, x)
      /\ \A x \in Flushes(d), y \in Flushes(w) : Dist(g, x) <= Dist(g, y)
      /\ FlushesInOrder(g, d) /\ FlushesInOrder(g, w)
  BY DEF FlushesOK
<1>2. /\ s \in Offsets /\ stop \in Offsets /\ g \in Offsets /\ p \in Offsets
      /\ Dist(g, stop) <= Dist(g, p)
  BY <1>1, BoundaryIs
<1>3. \A x \in Offsets : Dist(g, x) \in Int /\ \A y \in Offsets : Dist(g, x) = Dist(g, y) => x = y
  BY <1>2, DistIs DEF Offsets
<1>4. Dist(g, s) < Dist(g, stop)
  BY <1>1, <1>2, <1>3
<1>5. s # p
  BY <1>2, <1>3, <1>4
<1>6. \A x : Boundary(r, p, x) /\ x # s => Boundary(r2, p, x) /\ Dist(g, s2) <= Dist(g, x)
  BY <1>5, RingRead
<1>7. ASSUME NEW x \in Flushes(d) \cup Flushes(w) PROVE Boundary(r2, p, x)
  <2>1. Boundary(r, p, x) /\ Dist(g, stop) <= Dist(g, x)
    BY <1>1
  <2>2. x \in Offsets
    BY <2>1, BoundaryIs
  <2>3. x # s
    BY <1>2, <1>3, <1>4, <2>1, <2>2
  <2>4. QED
    BY <1>6, <2>1, <2>3
<1> HIDE DEF r2, s2
<1>8. QED
  BY <1>1, <1>5, <1>6, <1>7 DEF FlushesOK, r2, s2

(* A client that learns that the reader is further on. *)
LEMMA FlushLooked ==
  ASSUME NEW r, NEW g, NEW s, NEW p, NEW stop, NEW d, NEW w, RingOK(r, g, s, p),
         FlushesOK(r, g, s, p, stop, d, w), NEW g2 \in 0..Usable, Dist(g, g2) <= Dist(g, s)
  PROVE  FlushesOK(r, g2, s, p, stop, d, w)
<1>1. /\ Boundary(r, p, stop) /\ Dist(g, s) <= Dist(g, stop)
      /\ \A x \in Flushes(d) \cup Flushes(w) : Boundary(r, p, x) /\ Dist(g, stop) <= Dist(g, x)
      /\ \A x \in Flushes(d), y \in Flushes(w) : Dist(g, x) <= Dist(g, y)
      /\ FlushesInOrder(g, d) /\ FlushesInOrder(g, w)
  BY DEF FlushesOK
<1>2. g \in Offsets /\ s \in Offsets /\ g2 \in Offsets /\ Boundary(r, p, s)
  BY TotalIs DEF RingOK, Offsets
<1>3. ASSUME NEW x, Boundary(r, p, x), NEW y, Boundary(r, p, y), Dist(g, x) <= Dist(g, y)
      PROVE  Dist(g2, x) <= Dist(g2, y)
  <2>1. x \in Offsets /\ y \in Offsets /\ Dist(g, s) <= Dist(g, x) /\ Dist(g, s) <= Dist(g, y)
    BY <1>3, BoundaryIs
  <2>2. /\ Dist(g, x) \in Int /\ Dist(g, y) \in Int /\ Dist(g, s) \in Int /\ Dist(g, g2) \in Int
    BY <1>2, <2>1, DistIs DEF Offsets
  <2>3. Dist(g, g2) <= Dist(g, x) /\ Dist(g, g2) <= Dist(g, y)
    BY <2>1, <2>2
  <2>4. Dist(g2, x) = Dist(g, x) - Dist(g, g2) /\ Dist(g2, y) = Dist(g, y) - Dist(g, g2)
    BY <1>2, <2>1, <2>3, DistFrom
  <2>5. QED
    BY <1>3, <2>2, <2>4
<1>4. ASSUME NEW e, FlushesInOrder(g, e), \A x \in Flushes(e) : Boundary(r, p, x)
      PROVE  FlushesInOrder(g2, e)
  <2>1. \A i \in DOMAIN e : IsFlush(e[i]) => e[i].put \in Flushes(e)
    BY DEF Flushes, ToSet
  <2>2. QED
    BY <1>3, <1>4, <2>1 DEF FlushesInOrder
<1>5. FlushesInOrder(g2, d) /\ FlushesInOrder(g2, w)
  BY <1>1, <1>4
<1>6. QED
  BY <1>1, <1>2, <1>3, <1>5 DEF FlushesOK

(* A message arrives at the channel of the service. *)
LEMMA FlushDelivered ==
  ASSUME NEW r, NEW g, NEW s, NEW p, NEW stop, RingOK(r, g, s, p),
         NEW d \in Seq(ServiceMessage), NEW w \in Seq(ServiceMessage), w # <<>>,
         FlushesOK(r, g, s, p, stop, d, w),
         NEW k \in 1..(Len(d) + 1), Head(w).kind # "fast" => k = Len(d) + 1
  PROVE  /\ Tail(w) \in Seq(ServiceMessage)
         /\ InsertAt(d, k, Head(w)) \in Seq(ServiceMessage)
         /\ FlushesOK(r, g, s, p, stop, InsertAt(d, k, Head(w)), Tail(w))
<1> DEFINE m == Head(w)
           d2 == InsertAt(d, k, m)
           w2 == Tail(w)
<1>1. /\ Boundary(r, p, stop) /\ Dist(g, s) <= Dist(g, stop)
      /\ \A x \in Flushes(d) \cup Flushes(w) : Boundary(r, p, x) /\ Dist(g, stop) <= Dist(g, x)
      /\ \A x \in Flushes(d), y \in Flushes(w) : Dist(g, x) <= Dist(g, y)
      /\ FlushesInOrder(g, d) /\ FlushesInOrder(g, w)
  BY DEF FlushesOK
<1>2. /\ w2 \in Seq(ServiceMessage) /\ m \in ServiceMessage
      /\ FlushesInOrder(g, w2) /\ Flushes(w2) \subseteq Flushes(w)
      /\ IsFlush(m) => /\ m.put \in Flushes(w)
                       /\ \A x \in Flushes(w2) : Dist(g, m.put) <= Dist(g, x)
  BY <1>1, FlushesTail
<1> HIDE DEF m, w2
<1>3. ASSUME IsFlush(m) PROVE \A x \in Flushes(d) \cup {m.put} : Dist(g, x) <= Dist(g, m.put)
  <2>1. g \in Offsets /\ m.put \in Offsets
    BY <1>1, <1>2, <1>3, BoundaryIs
  <2>2. Dist(g, m.put) \in Int
    BY <2>1, DistIs DEF Offsets
  <2>3. QED
    BY <1>1, <1>2, <1>3, <2>2
<1>4. IsFlush(m) => /\ k = Len(d) + 1
                    /\ \A x \in Flushes(d) \cup {m.put} : Dist(g, x) <= Dist(g, m.put)
  <2>1. IsFlush(m) => m.kind # "fast"
    BY DEF IsFlush
  <2>2. QED
    BY <1>3, <2>1 DEF m
<1>5. /\ InsertAt(d, k, m) \in Seq(ServiceMessage)
      /\ FlushesInOrder(g, InsertAt(d, k, m))
      /\ Flushes(InsertAt(d, k, m)) = Flushes(d) \cup (IF IsFlush(m) THEN {m.put} ELSE {})
  BY <1>1, <1>2, <1>4, FlushesInsert
<1> HIDE DEF d2
<1>6. d2 \in Seq(ServiceMessage) /\ FlushesInOrder(g, d2)
      /\ Flushes(d2) = Flushes(d) \cup (IF IsFlush(m) THEN {m.put} ELSE {})
  BY <1>5 DEF d2
<1>7. FlushesOK(r, g, s, p, stop, d2, w2)
  BY <1>1, <1>2, <1>6 DEF FlushesOK
<1>8. QED
  BY <1>2, <1>6, <1>7 DEF d2, w2, m

(* The service handles a message. *)
LEMMA FlushHandled ==
  ASSUME NEW r, NEW g, NEW s, NEW p, NEW stop, RingOK(r, g, s, p),
         NEW d \in Seq(ServiceMessage), NEW w, d # <<>>,
         FlushesOK(r, g, s, p, stop, d, w)
  PROVE  /\ Tail(d) \in Seq(ServiceMessage) /\ Head(d) \in ServiceMessage
         /\ FlushesOK(r, g, s, p, IF Head(d).kind = "flush" THEN Head(d).put ELSE stop, Tail(d), w)
<1> DEFINE m == Head(d)
           d2 == Tail(d)
           stop2 == IF m.kind = "flush" THEN m.put ELSE stop
<1>1. /\ Boundary(r, p, stop) /\ Dist(g, s) <= Dist(g, stop)
      /\ \A x \in Flushes(d) \cup Flushes(w) : Boundary(r, p, x) /\ Dist(g, stop) <= Dist(g, x)
      /\ \A x \in Flushes(d), y \in Flushes(w) : Dist(g, x) <= Dist(g, y)
      /\ FlushesInOrder(g, d) /\ FlushesInOrder(g, w)
  BY DEF FlushesOK
<1>2. /\ d2 \in Seq(ServiceMessage) /\ m \in ServiceMessage
      /\ FlushesInOrder(g, d2) /\ Flushes(d2) \subseteq Flushes(d)
      /\ IsFlush(m) => /\ m.put \in Flushes(d)
                       /\ \A x \in Flushes(d2) : Dist(g, m.put) <= Dist(g, x)
  BY <1>1, FlushesTail
<1> HIDE DEF m, d2
<1>3. CASE IsFlush(m)
  <2>1. Boundary(r, p, m.put) /\ Dist(g, stop) <= Dist(g, m.put) /\ stop2 = m.put
    BY <1>1, <1>2, <1>3 DEF IsFlush
  <2>2. Dist(g, s) <= Dist(g, m.put)
    <3>1. /\ g \in Offsets /\ s \in Offsets /\ stop \in Offsets /\ m.put \in Offsets
      BY <1>1, <2>1, BoundaryIs
    <3>2. Dist(g, s) \in Int /\ Dist(g, stop) \in Int /\ Dist(g, m.put) \in Int
      <4>1. Dist(g, s) \in Offsets /\ Dist(g, stop) \in Offsets /\ Dist(g, m.put) \in Offsets
        BY <3>1, DistIs
      <4>2. QED
        BY <4>1 DEF Offsets
    <3>3. QED
      BY <1>1, <2>1, <3>2
  <2>3. FlushesOK(r, g, s, p, m.put, d2, w)
    BY <1>1, <1>2, <1>3, <2>1, <2>2 DEF FlushesOK
  <2>4. QED
    BY <1>2, <2>1, <2>3 DEF m, d2
<1>4. CASE ~IsFlush(m)
  <2>1. FlushesOK(r, g, s, p, stop, d2, w) /\ stop2 = stop
    BY <1>1, <1>2, <1>4 DEF FlushesOK, IsFlush
  <2>2. QED
    BY <1>2, <2>1 DEF m, d2
<1>5. QED
  BY <1>3, <1>4

(* The service leaves a message to itself, first in the queue. *)
LEMMA FlushLeft ==
  ASSUME NEW r, NEW g, NEW s, NEW p, NEW stop, NEW w,
         NEW d \in Seq(ServiceMessage), FlushesOK(r, g, s, p, stop, d, w)
  PROVE  /\ <<Rescheduled>> \o d \in Seq(ServiceMessage)
         /\ FlushesOK(r, g, s, p, stop, <<Rescheduled>> \o d, w)
<1> DEFINE m == Rescheduled
           d2 == <<Rescheduled>> \o d
<1>1. m \in ServiceMessage /\ ~IsFlush(m) /\ 1 \in 1..(Len(d) + 1)
  BY DEF ServiceMessage, Rescheduled, IsFlush
<1>2. d2 = InsertAt(d, 1, m)
  BY ConcatEmptySeq DEF InsertAt
<1> HIDE DEF m, d2
<1>3. IsFlush(m) => /\ 1 = Len(d) + 1
                    /\ \A x \in Flushes(d) \cup {m.put} : Dist(g, x) <= Dist(g, m.put)
  BY <1>1
<1>4. FlushesInOrder(g, d)
  BY DEF FlushesOK
<1>5. /\ InsertAt(d, 1, m) \in Seq(ServiceMessage)
      /\ FlushesInOrder(g, InsertAt(d, 1, m))
      /\ Flushes(InsertAt(d, 1, m)) = Flushes(d) \cup (IF IsFlush(m) THEN {m.put} ELSE {})
  BY <1>1, <1>3, <1>4, FlushesInsert
<1>6. d2 \in Seq(ServiceMessage) /\ FlushesInOrder(g, d2) /\ Flushes(d2) = Flushes(d)
  BY <1>1, <1>2, <1>5
<1>7. FlushesOK(r, g, s, p, stop, d2, w)
  BY <1>6 DEF FlushesOK
<1>8. QED
  BY <1>6, <1>7 DEF d2

-----------------------------------------------------------------------------
(* What the client knows and is going to learn. *)

(* Fewer views. *)
LEMMA ViewsFewer ==
  ASSUME NEW g, NEW V, NEW U, U \subseteq V
  PROVE  /\ ViewsOK(V, g) => ViewsOK(U, g)
         /\ TokensRise(V) => TokensRise(U)
BY DEF ViewsOK, TokensRise

(* The service reports what it has reached. *)
LEMMA ViewsReported ==
  ASSUME NEW g, NEW V, NEW n \in Int, NEW v \in V, v.at = n,
         \A u \in V : u.at \in Int /\ u.at <= n,
         g \in Offsets, v.get \in Offsets, v.token \in Int,
         NEW w, w = View(v.get, v.token, n + 1)
  PROVE  /\ ViewsOK(V, g) => ViewsOK(V \cup {w}, g)
         /\ TokensRise(V) => TokensRise(V \cup {w})
<1>1. w.get = v.get /\ w.token = v.token /\ w.at = n + 1
  BY DEF View
<1>2. \A u \in V : ~(w.at <= u.at) /\ u.at <= v.at
  BY <1>1
<1>3. Dist(g, v.get) <= Dist(g, v.get) /\ v.token <= v.token
  BY DistIs, SMTT(30) DEF Offsets
<1>4. ViewsOK(V, g) => ViewsOK(V \cup {w}, g)
  BY <1>1, <1>2, <1>3 DEF ViewsOK
<1>5. TokensRise(V) => TokensRise(V \cup {w})
  BY <1>1, <1>2, <1>3 DEF TokensRise
<1>6. QED
  BY <1>4, <1>5

(* The reader gets further. *)
LEMMA ViewsAdvanced ==
  ASSUME NEW g, NEW V, NEW n \in Int, NEW v \in V, v.at = n,
         NEW U, U \subseteq V, \A u \in U : u.at \in Int /\ u.at < n,
         g \in Offsets, NEW w, w = View(w.get, w.token, n),
         w.get \in 0..Usable, Dist(g, v.get) < Dist(g, w.get), ViewsOK(V, g)
  PROVE  /\ ViewsOK(U \cup {w}, g)
         /\ (/\ TokensRise(V) /\ v.token <= w.token /\ w.token \in TokenValues
             /\ \A u \in V : u.token \in TokenValues)
              => TokensRise(U \cup {w})
<1>1. w.at = n
  BY DEF View
<1>2. \A u \in U : u.at <= v.at /\ ~(w.at <= u.at)
  BY <1>1
<1>3. \A u \in V : u.get \in Offsets
  BY TotalIs DEF ViewsOK, Offsets
<1>4. \A u \in V : Dist(g, u.get) \in Int
  BY <1>3, DistIs DEF Offsets
<1>5. w.get \in Offsets /\ Dist(g, w.get) \in Int
  BY TotalIs, DistIs DEF Offsets
<1>6. \A u \in U : Dist(g, u.get) <= Dist(g, v.get)
  BY <1>2 DEF ViewsOK
<1>7. \A u \in U : Dist(g, u.get) < Dist(g, w.get) /\ u.get # w.get
  BY <1>4, <1>5, <1>6
<1>8. ViewsOK(U \cup {w}, g)
  BY <1>2, <1>4, <1>5, <1>7 DEF ViewsOK
<1>9. ASSUME TokensRise(V), v.token <= w.token, w.token \in TokenValues,
             \A u \in V : u.token \in TokenValues
      PROVE  TokensRise(U \cup {w})
  <2>1. w.token <= w.token /\ \A u \in U : u.token <= v.token /\ u.token <= w.token
    BY <1>2, <1>9 DEF TokensRise, TokenValues
  <2>2. QED
    BY <1>2, <1>9, <2>1 DEF TokensRise
<1>10. QED
  BY <1>8, <1>9

(* The client looks at the state of some view m: the older ones are forgotten. *)
LEMMA ViewsLooked ==
  ASSUME NEW g \in Offsets, NEW V, NEW m \in V, m.at \in Nat, NEW U,
         \A u \in V : u.at \in Int /\ u.at >= -1,
         ViewsOK(V, g),
         \A u \in U : \/ u = View(m.get, m.token, -1)
                      \/ \E v \in V : m.at <= v.at /\ u = View(v.get, v.token, v.at - m.at)
  PROVE  /\ ViewsOK(U, m.get)
         /\ TokensRise(V) => TokensRise(U)
<1>1. ASSUME NEW u \in U
      PROVE  \E v \in V : /\ u.get = v.get /\ u.token = v.token /\ m.at <= v.at /\ v.at \in Int
                          /\ (u.at = v.at - m.at \/ (v = m /\ u.at = -1))
  <2>1. CASE u = View(m.get, m.token, -1)
    <3>1. u.get = m.get /\ u.token = m.token /\ u.at = -1 /\ m.at <= m.at /\ m.at \in Int
      BY <2>1 DEF View
    <3>2. QED
      BY <3>1
  <2>2. CASE \E v \in V : m.at <= v.at /\ u = View(v.get, v.token, v.at - m.at)
    <3>1. PICK v \in V : m.at <= v.at /\ u = View(v.get, v.token, v.at - m.at)
      BY <2>2
    <3>2. u.get = v.get /\ u.token = v.token /\ u.at = v.at - m.at
      BY <3>1 DEF View
    <3>3. v.at \in Int
      OBVIOUS
    <3>4. /\ u.get = v.get /\ u.token = v.token /\ m.at <= v.at /\ v.at \in Int
          /\ (u.at = v.at - m.at \/ (v = m /\ u.at = -1))
      BY <3>1, <3>2, <3>3
    <3>5. QED
      BY <3>4
  <2>3. QED
    BY <1>1, <2>1, <2>2
<1>2. ASSUME NEW u \in U, NEW v \in U, u.at <= v.at
      PROVE  \E x, y \in V : /\ u.get = x.get /\ u.token = x.token /\ m.at <= x.at
                             /\ v.get = y.get /\ v.token = y.token /\ m.at <= y.at
                             /\ x.at <= y.at
  <2>1. PICK x \in V : /\ u.get = x.get /\ u.token = x.token /\ m.at <= x.at /\ x.at \in Int
                       /\ (u.at = x.at - m.at \/ (x = m /\ u.at = -1))
    BY <1>1
  <2>2. PICK y \in V : /\ v.get = y.get /\ v.token = y.token /\ m.at <= y.at /\ y.at \in Int
                       /\ (v.at = y.at - m.at \/ (y = m /\ v.at = -1))
    BY <1>1
  <2>3. x.at <= y.at
    BY <1>2, <2>1, <2>2
  <2>4. QED
    BY <2>1, <2>2, <2>3
<1>3. ASSUME TokensRise(V) PROVE TokensRise(U)
  BY <1>2, <1>3 DEF TokensRise
<1>4. m.get \in Offsets /\ \A v \in V : v.get \in Offsets
  BY TotalIs DEF ViewsOK, Offsets
<1>5. ASSUME NEW u \in U, NEW v \in U, u.at <= v.at
      PROVE  Dist(m.get, u.get) <= Dist(m.get, v.get)
  <2>1. PICK x \in V, y \in V : /\ u.get = x.get /\ m.at <= x.at
                                /\ v.get = y.get /\ m.at <= y.at /\ x.at <= y.at
    BY <1>2, <1>5
  <2>2. /\ Dist(g, m.get) <= Dist(g, x.get) /\ Dist(g, m.get) <= Dist(g, y.get)
        /\ Dist(g, x.get) <= Dist(g, y.get)
    BY <2>1 DEF ViewsOK
  <2>3. /\ Dist(m.get, x.get) = Dist(g, x.get) - Dist(g, m.get)
        /\ Dist(m.get, y.get) = Dist(g, y.get) - Dist(g, m.get)
    BY <1>4, <2>2, DistFrom
  <2>4. Dist(g, m.get) \in Int /\ Dist(g, x.get) \in Int /\ Dist(g, y.get) \in Int
    <3>1. Dist(g, m.get) \in Offsets /\ Dist(g, x.get) \in Offsets /\ Dist(g, y.get) \in Offsets
      BY <1>4, <2>1, DistIs
    <3>2. QED
      BY <3>1 DEF Offsets
  <2>5. QED
    BY <2>1, <2>2, <2>3, <2>4
<1>6. \A u \in U : u.get \in 0..Usable
  BY <1>1 DEF ViewsOK
<1>7. \A u, v \in U : u.get = v.get => u.token = v.token
  BY <1>1 DEF ViewsOK
<1>8. ViewsOK(U, m.get)
  BY <1>5, <1>6, <1>7 DEF ViewsOK
<1>9. QED
  BY <1>3, <1>8

-----------------------------------------------------------------------------
(* Tokens and the memory they fence. *)

(* A command that reads memory, or a jump, is placed at put_. *)
LEMMA TokensPlaced ==
  ASSUME NEW r, NEW g, NEW p \in Offsets, NEW r2, NEW c, r2[p].cmd = c,
         \A i \in Offsets : HeadAt(r2, i) <=> HeadAt(r, i) \/ i = p,
         \A i \in Offsets : HeadAt(r, i) => r2[i] = r[i], ~HeadAt(r, p)
  PROVE  /\ c.op # "token" => \A h \in Offsets : TokenAt(r2, h) <=> TokenAt(r, h)
         /\ c.op = "token" => \A h \in Offsets : TokenAt(r2, h) <=> TokenAt(r, h) \/ h = p
         /\ \A h \in Offsets : TokenAt(r, h) => r2[h] = r[h]
         /\ \A b : \A h \in Offsets : UseAt(r, h, b) => UseAt(r2, h, b)
         /\ \A b : \A h \in Offsets : UseAt(r2, h, b) =>
              UseAt(r, h, b) \/ (h = p /\ c.op = "use" /\ c.arg = b)
BY DEF TokenAt, UseAt, HeadAt

(* A command is placed that is no token. *)
LEMMA OrderPlaced ==
  ASSUME NEW r, NEW g, NEW p \in Offsets, NEW r2, NEW c, r2[p].cmd = c,
         \A i \in Offsets : HeadAt(r2, i) <=> HeadAt(r, i) \/ i = p,
         \A i \in Offsets : HeadAt(r, i) => r2[i] = r[i], ~HeadAt(r, p),
         NEW read, NEW t, NEW B, c.op # "token"
  PROVE  /\ NewestToken(r, g, read, t) => NewestToken(r2, g, read, t)
         /\ TokensInOrder(r, g, read, t) => TokensInOrder(r2, g, read, t)
         /\ (c.op = "use" => B[c.arg].state = "IN_USE") =>
              /\ FreeUnread(r, B) => FreeUnread(r2, B)
              /\ PendingFenced(r, g, B) => PendingFenced(r2, g, B)
<1>1. /\ \A h \in Offsets : TokenAt(r2, h) <=> TokenAt(r, h)
      /\ \A h \in Offsets : TokenAt(r, h) => r2[h] = r[h]
      /\ \A b : \A h \in Offsets : UseAt(r2, h, b) =>
              UseAt(r, h, b) \/ (h = p /\ c.op = "use" /\ c.arg = b)
  BY TokensPlaced
<1>2. NewestToken(r, g, read, t) => NewestToken(r2, g, read, t)
  BY <1>1 DEF NewestToken
<1>3. TokensInOrder(r, g, read, t) => TokensInOrder(r2, g, read, t)
  BY <1>1 DEF TokensInOrder
<1>4. ASSUME FreeUnread(r, B), c.op = "use" => B[c.arg].state = "IN_USE" PROVE FreeUnread(r2, B)
  BY <1>1, <1>4 DEF FreeUnread
<1>5. ASSUME PendingFenced(r, g, B), c.op = "use" => B[c.arg].state = "IN_USE"
      PROVE  PendingFenced(r2, g, B)
  BY <1>1, <1>5 DEF PendingFenced
<1>6. QED
  BY <1>2, <1>3, <1>4, <1>5

(* The block x, if it is one, waits for the token t from now on. *)
NowPending(B, B2, x, t) ==
    \A b \in Blocks : IF b = x THEN B2[b].state = "PENDING" /\ B2[b].token = t
                      ELSE B2[b] = B[b]

(* The token t is placed, for the block x or for none. *)
LEMMA OrderTokenPlaced ==
  ASSUME NEW r, NEW g, NEW s, NEW p \in Offsets, NEW r2, NEW c, NEW p2, r2[p].cmd = c,
         RingOK(r, g, s, p), RingOK(r2, g, s, p2),
         \A i \in Offsets : HeadAt(r2, i) <=> HeadAt(r, i) \/ i = p,
         \A i \in Offsets : HeadAt(r, i) => r2[i] = r[i], ~HeadAt(r, p),
         NEW read \in TokenValues, NEW t \in TokenValues, c.op = "token", c.arg = t,
         NEW B, NEW x, NEW B2, NowPending(B, B2, x, t)
  PROVE  /\ NewestToken(r2, g, read, t)
         /\ TokensInOrder(r, g, read, t - 1) => TokensInOrder(r2, g, read, t)
         /\ FreeUnread(r, B) => FreeUnread(r2, B2)
         /\ PendingFenced(r, g, B) => PendingFenced(r2, g, B2)
<1>1. /\ \A h \in Offsets : TokenAt(r2, h) <=> TokenAt(r, h) \/ h = p
      /\ \A h \in Offsets : TokenAt(r, h) => r2[h] = r[h]
      /\ \A b : \A h \in Offsets : UseAt(r2, h, b) => UseAt(r, h, b)
  BY TokensPlaced
<1>2. /\ g \in Offsets
      /\ \A h \in Offsets : TokenAt(r, h) \/ HeadAt(r, h) => Dist(g, h) < Dist(g, p)
      /\ \A h \in Offsets : Dist(g, h) \in Int
  <2>1. g \in Offsets
    BY TotalIs DEF RingOK, Offsets
  <2>2. \A h \in Offsets : HeadAt(r, h) => Dist(g, h) < Dist(g, p)
    BY HeadIs
  <2>3. QED
    BY <2>1, <2>2, DistIs DEF Offsets, TokenAt
<1>3. NewestToken(r2, g, read, t)
  BY <1>1, <1>2 DEF NewestToken
<1>4. ASSUME TokensInOrder(r, g, read, t - 1) PROVE TokensInOrder(r2, g, read, t)
  <2>1. /\ read <= t - 1
        /\ \A h \in Offsets : TokenAt(r, h) =>
             /\ read < r[h].cmd.arg /\ r[h].cmd.arg <= t - 1
             /\ \A k \in Offsets : TokenAt(r, k) /\ Dist(g, h) < Dist(g, k) =>
                  r[h].cmd.arg < r[k].cmd.arg
    BY <1>4 DEF TokensInOrder
  <2>2. read < t /\ read <= t /\ t <= t
    BY <2>1 DEF TokenValues
  <2>3. ASSUME NEW h \in Offsets, TokenAt(r, h)
        PROVE  r[h].cmd.arg < t /\ r[h].cmd.arg <= t /\ r2[h].cmd.arg = r[h].cmd.arg
    <3>1. r[h].cmd \in Commands
      <4>1. HeadAt(r, h) /\ r[h].cmd.op = "token"
        BY <2>3 DEF TokenAt
      <4>2. r[h].cmd \in Commands \cup {Jump}
        BY <4>1, HeadIs
      <4>3. QED
        BY <4>1, <4>2, JumpIs
    <3>2. r[h].cmd.arg \in Int
      BY <2>3, <3>1, CommandIs DEF TokenAt, TokenValues
    <3>3. QED
      BY <1>1, <2>1, <2>3, <3>2 DEF TokenValues
  <2>4. ASSUME NEW h \in Offsets, TokenAt(r2, h)
        PROVE  /\ read < r2[h].cmd.arg /\ r2[h].cmd.arg <= t
               /\ \A k \in Offsets : TokenAt(r2, k) /\ Dist(g, h) < Dist(g, k) =>
                    r2[h].cmd.arg < r2[k].cmd.arg
    <3>1. CASE h = p
      <4>1. \A k \in Offsets : TokenAt(r2, k) => ~(Dist(g, h) < Dist(g, k))
        BY <1>1, <1>2, <3>1
      <4>2. QED
        BY <2>2, <3>1, <4>1
    <3>2. CASE h # p
      <4>1. TokenAt(r, h) /\ r2[h].cmd.arg = r[h].cmd.arg
        BY <1>1, <2>3, <2>4, <3>2
      <4>2. ASSUME NEW k \in Offsets, TokenAt(r2, k), Dist(g, h) < Dist(g, k)
            PROVE  r2[h].cmd.arg < r2[k].cmd.arg
        <5>1. CASE k = p
          BY <2>3, <4>1, <5>1
        <5>2. CASE k # p
          BY <1>1, <2>1, <2>3, <4>1, <4>2, <5>2
        <5>3. QED
          BY <5>1, <5>2
      <4>3. QED
        BY <2>1, <2>3, <4>1, <4>2
    <3>3. QED
      BY <3>1, <3>2
  <2>5. QED
    BY <2>2, <2>4 DEF TokensInOrder
<1>5. ASSUME FreeUnread(r, B) PROVE FreeUnread(r2, B2)
  BY <1>1, <1>5 DEF FreeUnread, NowPending
<1>6. ASSUME PendingFenced(r, g, B) PROVE PendingFenced(r2, g, B2)
  <2>1. SUFFICES ASSUME NEW b \in Blocks, B2[b].state = "PENDING",
                        NEW h \in Offsets, UseAt(r2, h, b)
                 PROVE  \E k \in Offsets : /\ TokenAt(r2, k) /\ r2[k].cmd.arg = B2[b].token
                                           /\ Dist(g, h) < Dist(g, k)
    BY DEF PendingFenced
  <2>2. UseAt(r, h, b) /\ Dist(g, h) < Dist(g, p)
    BY <1>1, <1>2, <2>1 DEF UseAt
  <2>3. CASE b = x
    <3>1. TokenAt(r2, p) /\ r2[p].cmd.arg = B2[b].token
      BY <1>1, <2>3 DEF NowPending
    <3>2. QED
      BY <2>2, <3>1
  <2>4. CASE b # x
    <3>1. B2[b] = B[b]
      BY <2>4 DEF NowPending
    <3>2. PICK k \in Offsets : /\ TokenAt(r, k) /\ r[k].cmd.arg = B[b].token
                               /\ Dist(g, h) < Dist(g, k)
      BY <1>6, <2>1, <2>2, <3>1 DEF PendingFenced
    <3>3. QED
      BY <1>1, <3>1, <3>2
  <2>5. QED
    BY <2>3, <2>4
<1>7. QED
  BY <1>3, <1>4, <1>5, <1>6

(* The first command is carried out. *)
LEMMA OrderRead ==
  ASSUME NEW r, NEW g, NEW s, NEW p, RingOK(r, g, s, p), s # p, NEW read, NEW t, NEW B,
         NEW read2, read2 = IF r[s].cmd.op = "token" THEN r[s].cmd.arg ELSE read
  PROVE  LET r2 == Erase(r, s, r[s].cmd)
         IN  /\ NewestToken(r, g, read, t) => NewestToken(r2, g, read2, t)
             /\ TokensInOrder(r, g, read, t) => TokensInOrder(r2, g, read2, t)
             /\ TokensInOrder(r, g, read, t) => (read2 = read \/ read < read2)
             /\ FreeUnread(r, B) => FreeUnread(r2, B)
             /\ PendingFenced(r, g, B) => PendingFenced(r2, g, B)
<1> DEFINE r2 == Erase(r, s, r[s].cmd)
<1>1. /\ HeadAt(r, s) /\ s \in Offsets
      /\ \A i \in Offsets : HeadAt(r2, i) <=> HeadAt(r, i) /\ i # s
      /\ \A i \in Offsets : HeadAt(r2, i) => r2[i] = r[i]
  BY RingRead DEF HeadAt
<1>2. /\ g \in Offsets
      /\ \A h \in Offsets : Dist(g, h) \in Int
      /\ \A h \in Offsets : HeadAt(r, h) /\ h # s => Dist(g, s) < Dist(g, h)
  <2>1. g \in Offsets
    BY TotalIs DEF RingOK, Offsets
  <2>2. \A h \in Offsets : HeadAt(r, h) => Dist(g, s) <= Dist(g, h)
    BY HeadIs
  <2>3. \A h \in Offsets : Dist(g, h) \in Int /\ (Dist(g, h) = Dist(g, s) => h = s)
    BY <1>1, <2>1, DistIs DEF Offsets
  <2>4. QED
    BY <1>1, <2>1, <2>2, <2>3
<1> HIDE DEF r2
<1>3. /\ \A h \in Offsets : TokenAt(r2, h) <=> TokenAt(r, h) /\ h # s
      /\ \A h \in Offsets : TokenAt(r2, h) => r2[h] = r[h]
      /\ \A b : \A h \in Offsets : UseAt(r2, h, b) => UseAt(r, h, b) /\ h # s
      /\ TokenAt(r, s) <=> r[s].cmd.op = "token"
  BY <1>1 DEF TokenAt, UseAt
<1>4. ASSUME NewestToken(r, g, read, t) PROVE NewestToken(r2, g, read2, t)
  <2>1. CASE read = t /\ \A h \in Offsets : ~TokenAt(r, h)
    BY <1>1, <1>3, <2>1 DEF NewestToken
  <2>2. ASSUME NEW h \in Offsets, TokenAt(r, h), r[h].cmd.arg = t,
               \A k \in Offsets : TokenAt(r, k) => Dist(g, k) <= Dist(g, h)
        PROVE  NewestToken(r2, g, read2, t)
    <3>1. CASE h = s
      <4>1. \A k \in Offsets : ~TokenAt(r2, k)
        BY <1>2, <1>3, <2>2, <3>1 DEF TokenAt
      <4>2. read2 = t
        BY <1>3, <2>2, <3>1
      <4>3. QED
        BY <4>1, <4>2 DEF NewestToken
    <3>2. CASE h # s
      BY <1>3, <2>2, <3>2 DEF NewestToken
    <3>3. QED
      BY <3>1, <3>2
  <2>3. QED
    BY <1>4, <2>1, <2>2 DEF NewestToken
<1>5. ASSUME TokensInOrder(r, g, read, t)
      PROVE  TokensInOrder(r2, g, read2, t) /\ (read2 = read \/ read < read2)
  <2>1. /\ read <= t
        /\ \A h \in Offsets : TokenAt(r, h) =>
             /\ read < r[h].cmd.arg /\ r[h].cmd.arg <= t
             /\ \A k \in Offsets : TokenAt(r, k) /\ Dist(g, h) < Dist(g, k) =>
                  r[h].cmd.arg < r[k].cmd.arg
    BY <1>5 DEF TokensInOrder
  <2>2. CASE r[s].cmd.op = "token"
    <3>1. read2 = r[s].cmd.arg /\ TokenAt(r, s) /\ read < read2 /\ read2 <= t
      BY <1>1, <1>3, <2>1, <2>2
    <3>2. \A h \in Offsets : TokenAt(r2, h) => TokenAt(r, h) /\ Dist(g, s) < Dist(g, h)
                                               /\ r2[h] = r[h]
      BY <1>2, <1>3 DEF TokenAt
    <3>3. QED
      BY <1>1, <2>1, <3>1, <3>2 DEF TokensInOrder
  <2>3. CASE r[s].cmd.op # "token"
    BY <1>3, <2>1, <2>3 DEF TokensInOrder
  <2>4. QED
    BY <2>2, <2>3
<1>6. ASSUME FreeUnread(r, B) PROVE FreeUnread(r2, B)
  BY <1>3, <1>6 DEF FreeUnread
<1>7. ASSUME PendingFenced(r, g, B) PROVE PendingFenced(r2, g, B)
  <2>1. SUFFICES ASSUME NEW b \in Blocks, B[b].state = "PENDING",
                        NEW h \in Offsets, UseAt(r2, h, b)
                 PROVE  \E k \in Offsets : /\ TokenAt(r2, k) /\ r2[k].cmd.arg = B[b].token
                                           /\ Dist(g, h) < Dist(g, k)
    BY DEF PendingFenced
  <2>2. UseAt(r, h, b) /\ Dist(g, s) < Dist(g, h)
    BY <1>2, <1>3, <2>1 DEF UseAt
  <2>3. PICK k \in Offsets : /\ TokenAt(r, k) /\ r[k].cmd.arg = B[b].token
                             /\ Dist(g, h) < Dist(g, k)
    BY <1>7, <2>1, <2>2 DEF PendingFenced
  <2>4. k # s
    BY <1>1, <1>2, <2>2, <2>3
  <2>5. QED
    BY <1>3, <2>3, <2>4
<1>8. QED
  BY <1>4, <1>5, <1>6, <1>7 DEF r2

(* The order of the commands does not depend on what the client knows. *)
LEMMA OrderLooked ==
  ASSUME NEW r, NEW g, NEW s, NEW p, RingOK(r, g, s, p), NEW read, NEW t, NEW B,
         NEW g2 \in 0..Usable, Dist(g, g2) <= Dist(g, s)
  PROVE  /\ NewestToken(r, g, read, t) => NewestToken(r, g2, read, t)
         /\ TokensInOrder(r, g, read, t) => TokensInOrder(r, g2, read, t)
         /\ PendingFenced(r, g, B) => PendingFenced(r, g2, B)
<1>1. ASSUME NEW h \in Offsets, HeadAt(r, h), NEW k \in Offsets, HeadAt(r, k)
      PROVE  /\ Dist(g2, h) < Dist(g2, k) <=> Dist(g, h) < Dist(g, k)
             /\ Dist(g2, h) <= Dist(g2, k) <=> Dist(g, h) <= Dist(g, k)
  <2>1. g \in Offsets /\ g2 \in Offsets /\ s \in Offsets
    BY TotalIs DEF RingOK, Offsets
  <2>2. Dist(g, s) <= Dist(g, h) /\ Dist(g, s) <= Dist(g, k)
    BY <1>1, HeadIs
  <2>3. /\ Dist(g, h) \in Offsets /\ Dist(g, k) \in Offsets
        /\ Dist(g, s) \in Offsets /\ Dist(g, g2) \in Offsets
    BY <2>1, DistIs
  <2>4. Dist(g, g2) <= Dist(g, h) /\ Dist(g, g2) <= Dist(g, k)
    BY <2>2, <2>3 DEF Offsets
  <2>5. Dist(g2, h) = Dist(g, h) - Dist(g, g2) /\ Dist(g2, k) = Dist(g, k) - Dist(g, g2)
    BY <2>1, <2>4, DistFrom
  <2>6. QED
    BY <2>3, <2>5 DEF Offsets
<1>2. NewestToken(r, g, read, t) => NewestToken(r, g2, read, t)
  BY <1>1 DEF NewestToken, TokenAt
<1>3. TokensInOrder(r, g, read, t) => TokensInOrder(r, g2, read, t)
  BY <1>1 DEF TokensInOrder, TokenAt
<1>4. PendingFenced(r, g, B) => PendingFenced(r, g2, B)
  BY <1>1 DEF PendingFenced, TokenAt, UseAt
<1>5. QED
  BY <1>2, <1>3, <1>4

-----------------------------------------------------------------------------
(* The invariant, step by step. *)

(* What the client can tell of the views it is going to have. *)
LEMMA ViewBounds ==
  ASSUME Types, Errors
  PROVE  /\ \A u \in Views : /\ u.at \in Int /\ u.at >= -1 /\ u.at <= generation + 1
                             /\ u.token \in TokenValues
         /\ \A m \in States : /\ m \in StateMessage /\ m.generation \in Nat
                              /\ m.generation <= generation
         /\ generation \in Nat
<1>1. ASSUME NEW m \in States
      PROVE  m \in StateMessage /\ m.generation \in Nat /\ m.generation <= generation
  <2>1. m \in ToSet(updates) \/ m \in ToSet(replies)
    BY DEF States, StatesIn
  <2>2. m.kind = "state" /\ m.generation >= 0
    BY DEF States, StatesIn
  <2>3. m \in StateMessage \cup {Destroyed}
    BY <2>1 DEF Types, ToSet
  <2>4. m \in StateMessage
    BY <2>2, <2>3 DEF Destroyed
  <2>5. m.generation \in Nat
    BY <2>2, <2>4 DEF StateMessage
  <2>6. QED
    BY <2>4, <2>5 DEF Errors
<1>2. generation \in Nat /\ last.token \in TokenValues /\ service.token \in TokenValues
  BY DEF Types
<1>3. ASSUME NEW u \in Views
      PROVE  /\ u.at \in Int /\ u.at >= -1 /\ u.at <= generation + 1 /\ u.token \in TokenValues
  <2>1. CASE u = View(last.get, last.token, -1)
    BY <1>2, <2>1 DEF View
  <2>2. CASE u = View(service.get, service.token, generation + 1)
    BY <1>2, <2>2 DEF View
  <2>3. ASSUME NEW m \in States, u = View(m.get, m.token, m.generation)
        PROVE  /\ u.at \in Int /\ u.at >= -1 /\ u.at <= generation + 1 /\ u.token \in TokenValues
    <3>1. m.token \in TokenValues
      BY <1>1 DEF StateMessage
    <3>2. QED
      BY <1>1, <1>2, <2>3, <3>1 DEF View
  <2>4. QED
    BY <2>1, <2>2, <2>3 DEF Views, ViewsOf
<1>4. QED
  BY <1>1, <1>2, <1>3

(* A step of the client alone. *)
LEMMA ClientMoves ==
  ASSUME IInv, Types', CallOK', SyncOK',
         last' = last, lost' = lost, open' = open, service' = service,
         deferred' = deferred, replies' = replies, updates' = updates,
         generation' = generation,
         lost = FALSE =>
           /\ RingOK(ring', last.get, service.get, put') /\ put' # Usable
           /\ FlushesOK(ring', last.get, service.get, put', service.put, deferred, wire')
           /\ ~WritesToken' => NewestToken(ring', last.get, service.token, token')
           /\ FreeUnread(ring', blocks')
           /\ ~Wrapping' => /\ TokensRise(Views)
                            /\ TokensInOrder(ring', last.get, service.token, Written')
                            /\ PendingFenced(ring', last.get, blocks')
  PROVE  IInv'
<1>1. States' = States
  BY DEF States
<1>2. Views' = Views
  BY <1>1 DEF Views
<1>3. Errors'
  BY <1>1 DEF IInv, Errors
<1>4. ASSUME lost = FALSE PROVE Core'
  <2>1. ViewsOK(Views, last.get) /\ (service.busy = TRUE => service.get # service.put)
    BY <1>4 DEF IInv, Core
  <2>2. QED
    BY <1>2, <1>4, <2>1 DEF Core
<1>5. QED
  BY <1>3, <1>4 DEF IInv

(* Initially. *)
LEMMA InitIInv == Init => IInv
<1> SUFFICES ASSUME Init PROVE IInv
  OBVIOUS
<1>2. 0 \in Offsets /\ 0 \in TokenValues /\ Offsets \subseteq Nat
  BY TotalIs, TokensOk DEF Offsets, TokenValues
<1>3. Garbage \in Cell /\ Garbage.cmd = None
  BY <1>2 DEF Garbage, Cell
<1>4. Types
  <2>1. ring \in [Offsets -> Cell]
    BY <1>3 DEF Init, Offsets
  <2>2. call \in [pc : CallStates, cmd : Commands \cup {None}, block : Blocks \cup {None}]
    BY DEF Init, Idle, CallStates
  <2>3. blocks \in [Blocks -> [state : {"FREE", "IN_USE", "PENDING"}, token : TokenValues]]
    BY <1>2 DEF Init
  <2>4. service \in [get : Offsets, put : Nat, token : TokenValues, error : BOOLEAN,
                     busy : BOOLEAN, scheduled : BOOLEAN]
    BY <1>2 DEF Init
  <2>5. last \in [get : Offsets, token : TokenValues, error : BOOLEAN]
    BY <1>2 DEF Init
  <2>6. /\ wire = <<>> /\ deferred = <<>> /\ replies = <<>> /\ updates = <<>>
        /\ put = 0 /\ sent = 0 /\ token = 0 /\ generation = 0 /\ sync = FALSE /\ fast = FALSE
        /\ lost = FALSE /\ open = TRUE
    BY DEF Init
  <2>7. /\ <<>> \in Seq(ServiceMessage) /\ <<>> \in Seq(StateMessage) /\ Len(<<>>) = 0
        /\ <<>> \in Seq(StateMessage \cup {Destroyed})
    OBVIOUS
  <2>8. /\ put \in Nat /\ sent \in Nat /\ token \in TokenValues /\ generation \in Nat
        /\ sync \in BOOLEAN /\ fast \in BOOLEAN /\ lost \in BOOLEAN /\ open \in BOOLEAN
    BY <1>2, <2>6
  <2>9. /\ wire \in Seq(ServiceMessage) /\ deferred \in Seq(ServiceMessage)
        /\ replies \in Seq(StateMessage) /\ Len(replies) <= 1
        /\ updates \in Seq(StateMessage \cup {Destroyed})
    BY <2>6, <2>7
  <2>10. QED
    BY <2>1, <2>2, <2>3, <2>4, <2>5, <2>8, <2>9 DEF Types
<1>5. States = {}
  BY EmptyList DEF Init, States, StatesIn
<1>6. Errors
  BY <1>5, EmptyList DEF Init, Errors
<1>7. CallOK /\ SyncOK
  <2>1. \A i : i \notin DOMAIN <<>>
    OBVIOUS
  <2>2. /\ call.pc = "idle" /\ wire = <<>> /\ deferred = <<>> /\ replies = <<>>
        /\ (sync = FALSE) /\ (open = TRUE)
    BY DEF Init, Idle
  <2>3. QED
    BY <2>1, <2>2 DEF CallOK, SyncOK, HasFast, OneFast
<1>8. Core
  <2>1. /\ last.get = 0 /\ service.get = 0 /\ put = 0 /\ service.put = 0 /\ token = 0
        /\ last.token = 0 /\ service.token = 0 /\ service.busy = FALSE /\ generation = 0
        /\ wire = <<>> /\ deferred = <<>> /\ call.pc = "idle"
    BY DEF Init, Idle
  <2>2. \A h \in Offsets : ring[h].cmd = None
    BY <1>3 DEF Init, Offsets
  <2>3. \A h : ~HeadAt(ring, h)
    BY <2>2 DEF HeadAt
  <2>4. Dist(0, 0) = 0
    BY DEF Dist
  <2>5. RingOK(ring, 0, 0, 0) /\ put # Usable
    <3>1. ring \in [Offsets -> Cell]
      BY <1>4 DEF Types
    <3>2. Boundary(ring, 0, 0)
      BY DEF Boundary
    <3>3. QED
      BY <2>1, <2>2, <2>3, <2>4, <3>1, <3>2, TotalIs DEF RingOK
  <2>6. Views = {View(0, 0, -1), View(0, 0, 1)}
    BY <1>5, <2>1 DEF Views, ViewsOf
  <2>7. \A u \in Views : u.get = 0 /\ u.token = 0
    BY <2>6 DEF View
  <2>8. ViewsOK(Views, 0)
    BY <2>4, <2>7, TotalIs DEF ViewsOK
  <2>9. TokensRise(Views)
    BY <2>7 DEF TokensRise
  <2>10. FlushesOK(ring, 0, 0, 0, 0, <<>>, <<>>)
    <3>1. Flushes(<<>>) = {} /\ FlushesInOrder(0, <<>>)
      BY EmptyList DEF Flushes, FlushesInOrder
    <3>2. QED
      BY <2>4, <3>1 DEF FlushesOK, Boundary
  <2>11. NewestToken(ring, 0, 0, 0) /\ FreeUnread(ring, blocks)
    BY <2>3 DEF NewestToken, FreeUnread, TokenAt, UseAt
  <2>12. TokensInOrder(ring, 0, 0, Written) /\ PendingFenced(ring, 0, blocks)
    BY <2>1, <2>3 DEF TokensInOrder, PendingFenced, TokenAt, UseAt, Written, WritesToken
  <2>13. QED
    BY <2>1, <2>5, <2>8, <2>9, <2>10, <2>11, <2>12 DEF Core
<1>9. QED
  BY <1>4, <1>6, <1>7, <1>8 DEF IInv

(* The client starts to write a command that reads a block. *)
LEMMA IssueUseInv ==
  ASSUME IInv, NEW b \in Blocks, NEW n \in Sizes, IssueUse(b, n)
  PROVE  IInv'
<1> DEFINE c == Use(b, n)
<1>1. /\ call' = [pc |-> "space", cmd |-> c, block |-> None]
      /\ call = Idle /\ blocks[b].state = "IN_USE"
      /\ UNCHANGED <<ring, put, sent, token, last, lost, sync, open, blocks, wire, deferred,
                     fast, service, replies, updates, generation>>
  BY DEF IssueUse, StartCall
<1>2. c \in Commands /\ c.op = "use" /\ c.arg = b
  BY DEF Commands, Use
<1> HIDE DEF c
<1>3. Types /\ CallOK
  BY DEF IInv
<1>4. Types'
  BY <1>1, <1>2, <1>3 DEF Types, CallStates
<1>5. CallOK' /\ SyncOK'
  BY <1>1, <1>2 DEF CallOK, IInv, SyncOK, Idle
<1>6. ~WritesToken /\ ~WritesToken' /\ ~Wrapping /\ ~Wrapping' /\ Written' = Written
  BY <1>1, <1>2 DEF WritesToken, Wrapping, Idle, Written
<1>7. ASSUME lost = FALSE PROVE Core
  BY <1>7 DEF IInv
<1>8. QED
  BY <1>1, <1>4, <1>5, <1>6, <1>7, ClientMoves DEF Core

(* The client starts to write a token. *)
LEMMA InsertTokenInv ==
  ASSUME IInv, NEW b \in Blocks \cup {None}, InsertToken(b)
  PROVE  IInv'
<1> DEFINE c == SetToken(token')
<1>1. /\ call' = [pc |-> "space", cmd |-> c, block |-> b]
      /\ call = Idle /\ (b # None => blocks[b].state = "IN_USE")
      /\ token' = (token + 1) % TokenModulus
      /\ UNCHANGED <<ring, put, sent, last, lost, sync, open, blocks, wire, deferred, fast, service,
                     replies, updates, generation>>
  BY DEF InsertToken, StartCall
<1>2. Types /\ CallOK
  BY DEF IInv
<1>3. token' = (IF token + 1 < TokenModulus THEN token + 1 ELSE 0) /\ token' \in TokenValues
  <2>1. token \in 0..(TokenModulus - 1) /\ TokenModulus \in Nat \ {0} /\ TokenModulus >= 2
    BY <1>2, TokensOk DEF Types, TokenValues
  <2>2. token + 1 \in 0..(2 * TokenModulus - 1)
    BY <2>1
  <2>3. token' = IF token + 1 < TokenModulus THEN token + 1 ELSE token + 1 - TokenModulus
    BY <1>1, <2>1, <2>2, SmallMod, SMTT(30)
  <2>4. QED
    BY <2>1, <2>3 DEF TokenValues
<1>4. c \in Commands /\ c.op = "token" /\ c.arg = token'
  BY <1>3 DEF Commands, SetToken, TokenValues
<1> HIDE DEF c
<1>5. Types'
  BY <1>1, <1>2, <1>3, <1>4 DEF Types, CallStates
<1>6. CallOK' /\ SyncOK'
  BY <1>1, <1>4 DEF CallOK, IInv, SyncOK, Idle
<1>7. ~WritesToken /\ WritesToken' /\ ~Wrapping /\ (Wrapping' <=> token' = 0)
  BY <1>1, <1>4 DEF WritesToken, Wrapping, Idle
<1>8. token \in Int
  BY <1>2 DEF Types, TokenValues
<1>9. token' # 0 => Written' = Written
  BY <1>3, <1>7, <1>8 DEF Written
<1>10. ASSUME lost = FALSE PROVE Core
  BY <1>10 DEF IInv
<1>11. QED
  BY <1>1, <1>5, <1>6, <1>7, <1>9, <1>10, ClientMoves DEF Core

(* The client starts to wait for the end of all commands. *)
LEMMA StartFinishInv ==
  ASSUME IInv, StartFinish
  PROVE  IInv'
<1>1. /\ call' = [pc |-> "finish", cmd |-> None, block |-> None] /\ call = Idle
      /\ UNCHANGED <<ring, put, sent, token, last, lost, sync, open, blocks, wire, deferred,
                     fast, service, replies, updates, generation>>
  BY DEF StartFinish, StartCall
<1>2. Types'
  BY <1>1 DEF IInv, Types, CallStates
<1>3. CallOK' /\ SyncOK'
  BY <1>1 DEF CallOK, IInv, SyncOK, Idle
<1>4. ~WritesToken /\ ~WritesToken' /\ ~Wrapping /\ Written' = Written
  BY <1>1 DEF WritesToken, Wrapping, Idle, Written
<1>5. ASSUME lost = FALSE PROVE Core
  BY <1>5 DEF IInv
<1>6. QED
  BY <1>1, <1>2, <1>3, <1>4, <1>5, ClientMoves DEF Core

(* The client takes a free block. *)
LEMMA AllocFreeInv ==
  ASSUME IInv, NEW b \in Blocks, AllocFree(b)
  PROVE  IInv'
<1>1. /\ blocks' = [blocks EXCEPT ![b].state = "IN_USE"] /\ call = Idle
      /\ UNCHANGED <<ring, put, sent, token, last, lost, call, sync, open, wire, deferred, fast,
                     service, replies, updates, generation>>
  BY DEF AllocFree
<1>2. blocks \in [Blocks -> [state : {"FREE", "IN_USE", "PENDING"}, token : TokenValues]]
  BY DEF IInv, Types
<1>3. /\ blocks' \in [Blocks -> [state : {"FREE", "IN_USE", "PENDING"}, token : TokenValues]]
      /\ \A a \in Blocks : blocks'[a] = blocks[a] \/ blocks'[a].state = "IN_USE"
  BY <1>1, <1>2
<1>4. Types'
  BY <1>1, <1>3 DEF IInv, Types
<1>5. CallOK' /\ SyncOK'
  BY <1>1 DEF CallOK, Idle, IInv, SyncOK
<1>6. WritesToken' = WritesToken /\ Wrapping' = Wrapping /\ Written' = Written
  BY <1>1 DEF WritesToken, Wrapping, Written
<1>7. ASSUME lost = FALSE PROVE Core
  BY <1>7 DEF IInv
<1>8. FreeUnread(ring, blocks) => FreeUnread(ring, blocks')
  BY <1>3 DEF FreeUnread
<1>9. PendingFenced(ring, last.get, blocks) => PendingFenced(ring, last.get, blocks')
  BY <1>3 DEF PendingFenced
<1>10. QED
  BY <1>1, <1>4, <1>5, <1>6, <1>7, <1>8, <1>9, ClientMoves DEF Core

(* The client starts to wait for a pending block. *)
LEMMA AllocPendingInv ==
  ASSUME IInv, NEW b \in Blocks, AllocPending(b)
  PROVE  IInv'
<1>1. /\ call' = [pc |-> "wait", cmd |-> None, block |-> b] /\ call = Idle
      /\ blocks[b].state = "PENDING"
      /\ UNCHANGED <<ring, put, sent, token, last, lost, sync, open, blocks, wire, deferred,
                     fast, service, replies, updates, generation>>
  BY DEF AllocPending, StartCall
<1>2. Types'
  BY <1>1 DEF IInv, Types, CallStates
<1>3. CallOK' /\ SyncOK'
  BY <1>1 DEF CallOK, IInv, SyncOK, Idle
<1>4. ~WritesToken /\ ~WritesToken' /\ ~Wrapping /\ ~Wrapping' /\ Written' = Written
  BY <1>1 DEF WritesToken, Wrapping, Idle, Written
<1>5. ASSUME lost = FALSE PROVE Core
  BY <1>5 DEF IInv
<1>6. QED
  BY <1>1, <1>2, <1>3, <1>4, <1>5, ClientMoves DEF Core

(* A block whose token has passed is read by no command to come. *)
LEMMA PassedUnread ==
  ASSUME IInv, lost = FALSE, ~Wrapping, NEW b \in Blocks, blocks[b].state = "PENDING",
         blocks[b].token <= last.token \/ blocks[b].token > token, ~WritesToken
  PROVE  \A h \in Offsets : ~UseAt(ring, h, b)
<1>1. /\ TokensRise(Views)
      /\ TokensInOrder(ring, last.get, service.token, token)
      /\ PendingFenced(ring, last.get, blocks)
  BY DEF IInv, Core, Written
<1>2. Types /\ Errors
  BY DEF IInv
<1>3. last.token <= service.token
  <2> DEFINE u == View(last.get, last.token, -1)
             v == View(service.get, service.token, generation + 1)
  <2>1. u \in Views /\ v \in Views
    BY DEF Views, ViewsOf
  <2>2. generation \in Nat
    BY <1>2 DEF Types
  <2>3. u.at <= v.at /\ u.token = last.token /\ v.token = service.token
    BY <2>2 DEF View
  <2> HIDE DEF u, v
  <2>4. QED
    BY <1>1, <2>1, <2>3 DEF TokensRise
<1>4. SUFFICES ASSUME NEW h \in Offsets, UseAt(ring, h, b) PROVE FALSE
  OBVIOUS
<1>5. PICK k \in Offsets : TokenAt(ring, k) /\ ring[k].cmd.arg = blocks[b].token
  BY <1>1, <1>4 DEF PendingFenced
<1>6. service.token < blocks[b].token /\ blocks[b].token <= token
  BY <1>1, <1>5 DEF TokensInOrder
<1>7. /\ service.token \in Int /\ last.token \in Int /\ token \in Int
      /\ blocks[b].token \in Int
  <2>1. blocks[b].token \in TokenValues
    BY <1>2 DEF Types
  <2>2. QED
    BY <1>2, <2>1 DEF Types, TokenValues
<1>8. QED
  BY <1>3, <1>6, <1>7

(* The client frees the blocks whose token has passed. *)
LEMMA FreeUnusedInv ==
  ASSUME IInv, FreeUnused
  PROVE  IInv'
<1>1. /\ call = Idle
      /\ blocks' = [b \in Blocks |->
                     IF blocks[b].state = "PENDING" /\ Passed(blocks[b].token, last.token)
                     THEN [blocks[b] EXCEPT !.state = "FREE"] ELSE blocks[b]]
      /\ UNCHANGED <<ring, put, sent, token, last, lost, call, sync, open, wire, deferred, fast,
                     service, replies, updates, generation>>
  BY DEF FreeUnused
<1>2. blocks \in [Blocks -> [state : {"FREE", "IN_USE", "PENDING"}, token : TokenValues]]
  BY DEF IInv, Types
<1>3. ASSUME NEW b \in Blocks
      PROVE  /\ blocks'[b] \in [state : {"FREE", "IN_USE", "PENDING"}, token : TokenValues]
             /\ blocks'[b] = blocks[b] \/
                (/\ blocks[b].state = "PENDING" /\ blocks[b].token <= last.token
                 /\ blocks'[b].state = "FREE")
  BY <1>1, <1>2 DEF Passed
<1>4. Types'
  <2>1. blocks' \in [Blocks -> [state : {"FREE", "IN_USE", "PENDING"}, token : TokenValues]]
    BY <1>1, <1>3
  <2>2. QED
    BY <1>1, <2>1 DEF IInv, Types
<1>5. CallOK' /\ SyncOK'
  BY <1>1 DEF CallOK, Idle, IInv, SyncOK
<1>6. /\ ~WritesToken /\ ~Wrapping
      /\ WritesToken' = WritesToken /\ Wrapping' = Wrapping /\ Written' = Written
  BY <1>1 DEF WritesToken, Wrapping, Written, Idle
<1>7. ASSUME lost = FALSE PROVE Core
  BY <1>7 DEF IInv
<1>8. ASSUME lost = FALSE PROVE FreeUnread(ring, blocks')
  <2>1. SUFFICES ASSUME NEW b \in Blocks, blocks'[b].state = "FREE"
                 PROVE  \A h \in Offsets : ~UseAt(ring, h, b)
    BY DEF FreeUnread
  <2>2. CASE blocks'[b] = blocks[b]
    BY <1>7, <1>8, <2>1, <2>2 DEF Core, FreeUnread
  <2>3. CASE blocks[b].state = "PENDING" /\ blocks[b].token <= last.token
    BY <1>6, <1>8, <2>3, PassedUnread
  <2>4. QED
    BY <1>3, <2>2, <2>3
<1>9. PendingFenced(ring, last.get, blocks) => PendingFenced(ring, last.get, blocks')
  BY <1>3 DEF PendingFenced
<1>10. QED
  BY <1>1, <1>4, <1>5, <1>6, <1>7, <1>8, <1>9, ClientMoves DEF Core

(* What the invariant says of the ring. *)
LEMMA CoreIs ==
  ASSUME IInv, lost = FALSE
  PROVE  /\ Core /\ Types /\ Errors /\ CallOK /\ last.error = FALSE
         /\ RingOK(ring, last.get, service.get, put)
         /\ put \in 0..(Usable - 1) /\ put \in Offsets
         /\ last.get \in 0..Usable /\ last.get \in Offsets
         /\ service.get \in 0..Usable /\ service.get \in Offsets
         /\ FlushesOK(ring, last.get, service.get, put, service.put, deferred, wire)
         /\ wire \in Seq(ServiceMessage) /\ deferred \in Seq(ServiceMessage)
<1>1. Core /\ Types /\ Errors /\ CallOK
  BY DEF IInv
<1>0. last.error = FALSE
  BY <1>1 DEF Types, Errors
<1>2. /\ RingOK(ring, last.get, service.get, put) /\ put # Usable
      /\ FlushesOK(ring, last.get, service.get, put, service.put, deferred, wire)
  BY <1>1 DEF Core
<1>3. put \in 0..Usable /\ last.get \in 0..Usable /\ service.get \in 0..Usable
  BY <1>2 DEF RingOK
<1>4. QED
  BY <1>0, <1>1, <1>2, <1>3, TotalIs DEF Types, Offsets

(* A flush asks for the state once. *)
LEMMA FastSent ==
  ASSUME NEW w \in Seq(ServiceMessage), ~HasFast(w), NEW p \in Nat
  PROVE  /\ ~HasFast(w \o <<FlushMessage(p)>> \o <<>>)
         /\ OneFast(w \o <<FlushMessage(p)>> \o <<GetStateFast>>)
         /\ HasFast(w \o <<FlushMessage(p)>> \o <<GetStateFast>>)
<1> DEFINE f == FlushMessage(p)
           w1 == Append(w, f)
           w2 == Append(w1, GetStateFast)
<1>1. /\ f \in ServiceMessage /\ GetStateFast \in ServiceMessage /\ f.kind # "fast"
  BY DEF ServiceMessage, FlushMessage, GetStateFast
<1> HIDE DEF f
<1>2. /\ w1 = w \o <<f>> /\ w1 \in Seq(ServiceMessage) /\ Len(w1) = Len(w) + 1
      /\ \A i \in 1..Len(w) : w1[i] = w[i]
      /\ w1[Len(w) + 1] = f /\ DOMAIN w1 = 1..(Len(w) + 1)
      /\ DOMAIN w = 1..Len(w) /\ Len(w) \in Nat
  <2>1. w1 = w \o <<f>>
    BY <1>1, InsertAtEnd
  <2>2. /\ w1 \in Seq(ServiceMessage) /\ Len(w1) = Len(w) + 1
        /\ \A i \in 1..Len(w) : w1[i] = w[i]
        /\ w1[Len(w) + 1] = f
    BY <1>1, AppendProperties
  <2>3. DOMAIN w = 1..Len(w) /\ Len(w) \in Nat
    OBVIOUS
  <2> HIDE DEF w1
  <2>4. DOMAIN w1 = 1..(Len(w) + 1)
    BY <2>2
  <2>5. QED
    BY <2>1, <2>2, <2>3, <2>4
<1>3. ~HasFast(w1)
  BY <1>1, <1>2 DEF HasFast
<1> HIDE DEF w1
<1>4. w1 \o <<>> = w1
  BY <1>2, ConcatEmptySeq
<1>5. /\ w2 = w1 \o <<GetStateFast>>
      /\ DOMAIN w2 = 1..(Len(w1) + 1) /\ \A i \in 1..Len(w1) : w2[i] = w1[i]
      /\ w2[Len(w1) + 1] = GetStateFast /\ GetStateFast.kind = "fast"
      /\ DOMAIN w1 = 1..Len(w1) /\ Len(w1) \in Nat
  BY <1>1, <1>2, InsertAtEnd, AppendProperties DEF GetStateFast
<1> HIDE DEF w2
<1>6. OneFast(w2) /\ HasFast(w2)
  BY <1>3, <1>5, SMTT(30) DEF OneFast, HasFast
<1>7. QED
  BY <1>2, <1>3, <1>4, <1>5, <1>6 DEF f

(* A flush in one of the loops of the helper. *)
LEMMA LoopInv ==
  ASSUME IInv, Loop, ~last.error, ~sync, call.pc # "idle",
         \/ call' = call
         \/ /\ call.pc \in {"finish", "finishing"}
            /\ call' = [call EXCEPT !.pc = "finishing"]
         \/ /\ call.pc \in {"wait", "waiting"}
            /\ call' = [call EXCEPT !.pc = "waiting"]
  PROVE  IInv'
<1>0. last.error = FALSE
  BY DEF IInv, Types
<1> DEFINE w2 == wire \o <<FlushMessage(put)>> \o <<GetStateFast>>
<1>1. /\ wire' = (IF open = TRUE THEN w2 ELSE wire) /\ sent' = put /\ sync' = TRUE
      /\ UNCHANGED <<ring, put, token, last, lost, open, blocks, deferred, fast, service,
                     replies, updates, generation>>
  BY <1>0 DEF Loop, FlushSync, Flush, IInv, Types
<1>2. /\ wire' \in Seq(ServiceMessage)
      /\ lost = FALSE =>
           FlushesOK(ring, last.get, service.get, put, service.put, deferred, wire')
  <2>1. CASE open = FALSE
    BY <1>1, <2>1, CoreIs DEF IInv, Types
  <2>2. CASE open = TRUE
    <3>1. wire' = w2 /\ w2 \in Seq(ServiceMessage)
      BY <1>1, <2>2 DEF IInv, Types, ServiceMessage, FlushMessage, GetStateFast
    <3>2. ASSUME lost = FALSE
          PROVE  FlushesOK(ring, last.get, service.get, put, service.put, deferred, w2)
      BY <3>2, CoreIs, FlushSent
    <3> HIDE DEF w2
    <3>3. QED
      BY <3>1, <3>2
  <2>3. QED
    BY <2>1, <2>2 DEF IInv, Types
<1> HIDE DEF w2
<1>3. /\ call' \in [pc : CallStates, cmd : Commands \cup {None}, block : Blocks \cup {None}]
      /\ call'.cmd = call.cmd /\ call'.block = call.block
      /\ \/ call'.pc = call.pc
         \/ {call.pc, call'.pc} \subseteq {"finish", "finishing"}
         \/ {call.pc, call'.pc} \subseteq {"wait", "waiting"}
  <2>1. call \in [pc : CallStates, cmd : Commands \cup {None}, block : Blocks \cup {None}]
    BY DEF IInv, Types
  <2>2. CASE call' = call
    BY <2>1, <2>2
  <2>3. CASE call.pc \in {"finish", "finishing"} /\ call' = [call EXCEPT !.pc = "finishing"]
    BY <2>1, <2>3 DEF CallStates
  <2>4. CASE call.pc \in {"wait", "waiting"} /\ call' = [call EXCEPT !.pc = "waiting"]
    BY <2>1, <2>4 DEF CallStates
  <2>5. QED
    BY <2>2, <2>3, <2>4
<1>4. Types'
  BY <1>1, <1>2, <1>3 DEF IInv, Types
<1>5. CallOK'
  BY <1>1, <1>3 DEF IInv, CallOK
<1>6. SyncOK'
  <2>1. call'.pc # "idle"
    BY <1>3
  <2>2. /\ wire \in Seq(ServiceMessage) /\ replies = <<>> /\ ~HasFast(wire) /\ ~HasFast(deferred)
        /\ OneFast(wire) /\ OneFast(deferred)
    BY DEF IInv, SyncOK, Types
  <2>3. OneFast(w2) /\ HasFast(w2)
    <3>1. put \in Nat
      BY DEF IInv, Types
    <3>2. QED
      BY <2>2, <3>1, FastSent DEF w2
  <2>4. service.error = FALSE => open = TRUE
    BY DEF IInv, Types, Errors
  <2>5. QED
    BY <1>1, <2>1, <2>2, <2>3, <2>4 DEF SyncOK
<1>7. WritesToken' <=> WritesToken
  BY <1>3 DEF WritesToken
<1>8. (Wrapping' <=> Wrapping) /\ Written' = Written
  BY <1>1, <1>3, <1>7 DEF Wrapping, Written
<1>9. QED
  BY <1>1, <1>2, <1>4, <1>5, <1>6, <1>7, <1>8, CoreIs, ClientMoves DEF Core

(* The wait for the reader to leave the end of the ring. *)
LEMMA GetSpaceWrapWaitInv ==
  ASSUME IInv, GetSpaceWrapWait PROVE IInv'
BY LoopInv DEF GetSpaceWrapWait, Waiting

(* The wait for entries. *)
LEMMA GetSpaceWaitInv ==
  ASSUME IInv, GetSpaceWait PROVE IInv'
BY LoopInv DEF GetSpaceWait, Waiting

(* The wait for a token. *)
LEMMA WaitForTokenLoopInv ==
  ASSUME IInv, WaitForTokenLoop PROVE IInv'
BY LoopInv DEF WaitForTokenLoop, WaitsForToken

(* The wait for the end of all commands. *)
LEMMA FinishLoopInv ==
  ASSUME IInv, FinishLoop PROVE IInv'
BY LoopInv DEF FinishLoop

(* Writing a command leaves a ring. *)
LEMMA WriteType ==
  ASSUME NEW r \in [Offsets -> Cell], NEW at \in Nat, NEW c \in Commands \cup {Jump}
  PROVE  WriteCommand(r, at, c) \in [Offsets -> Cell]
<1>1. c.size \in Nat
  BY CommandIs, JumpIs, TotalIs
<1>2. ASSUME NEW i \in Offsets, i \in at..(at + c.size - 1)
      PROVE  [cmd |-> c, part |-> i - at] \in Cell
  <2>1. i - at \in Offsets
    BY <1>1, <1>2, TotalIs DEF Offsets
  <2>2. QED
    BY <2>1 DEF Cell
<1>3. QED
  BY <1>2 DEF WriteCommand

(* A jump is placed at p. *)
LEMMA JumpPlaced ==
  ASSUME NEW r, NEW g, NEW s, NEW p, RingOK(r, g, s, p), Room(g, p, Jump, 0),
         NEW r2, r2 = WriteCommand(r, p, Jump)
  PROVE  /\ RingOK(r2, g, s, 0)
         /\ \A x : Boundary(r, p, x) => Boundary(r2, 0, x)
         /\ \A read, t : NewestToken(r, g, read, t) => NewestToken(r2, g, read, t)
         /\ \A read, t : TokensInOrder(r, g, read, t) => TokensInOrder(r2, g, read, t)
         /\ \A B : FreeUnread(r, B) => FreeUnread(r2, B)
         /\ \A B : PendingFenced(r, g, B) => PendingFenced(r2, g, B)
<1>1. Jump \in Commands \cup {Jump} /\ Jump.op # "token" /\ Jump.op # "use" /\ p \in Offsets
  BY JumpIs, TotalIs DEF RingOK, Offsets
<1>2. /\ RingOK(r2, g, s, 0)
      /\ HeadAt(r2, p) /\ r2[p].cmd = Jump /\ ~HeadAt(r, p)
      /\ \A i \in Offsets : HeadAt(r2, i) <=> HeadAt(r, i) \/ i = p
      /\ \A i \in Offsets : HeadAt(r, i) => r2[i] = r[i]
  BY <1>1, RingAppend
<1>3. \A x : Boundary(r, p, x) => Boundary(r2, 0, x)
  BY <1>2 DEF Boundary, HeadAt
<1>4. ASSUME NEW read, NEW t, NEW B
      PROVE  /\ NewestToken(r, g, read, t) => NewestToken(r2, g, read, t)
             /\ TokensInOrder(r, g, read, t) => TokensInOrder(r2, g, read, t)
             /\ FreeUnread(r, B) => FreeUnread(r2, B)
             /\ PendingFenced(r, g, B) => PendingFenced(r2, g, B)
  BY <1>1, <1>2, OrderPlaced
<1>5. QED
  BY <1>2, <1>3, <1>4

(* The rest of the ring is skipped. *)
LEMMA GetSpaceJumpInv ==
  ASSUME IInv, GetSpaceJump
  PROVE  IInv'
<1>1. /\ call.pc = "space" /\ put + call.cmd.size > Usable
      /\ ~(last.get > put \/ last.get = 0)
      /\ ring' = WriteCommand(ring, put, Jump) /\ put' = 0
      /\ UNCHANGED <<sent, token, last, lost, call, sync, open, blocks, wire, deferred, fast,
                     service, replies, updates, generation>>
  BY DEF GetSpaceJump, Waiting, NoRoomAtEnd, WrapBlocked
<1>2. /\ CallOK' /\ SyncOK'
      /\ WritesToken' = WritesToken /\ Wrapping' = Wrapping /\ Written' = Written
  BY <1>1 DEF IInv, CallOK, SyncOK, WritesToken, Wrapping, Written
<1>3. ring' \in [Offsets -> Cell] /\ put' \in Nat
  BY <1>1, WriteType DEF IInv, Types
<1>4. Types'
  BY <1>1, <1>3 DEF IInv, Types
<1>5. ASSUME lost = FALSE
      PROVE  /\ RingOK(ring', last.get, service.get, put') /\ put' # Usable
             /\ FlushesOK(ring', last.get, service.get, put', service.put, deferred, wire')
             /\ ~WritesToken' => NewestToken(ring', last.get, service.token, token')
             /\ FreeUnread(ring', blocks')
             /\ ~Wrapping' => /\ TokensRise(Views)
                              /\ TokensInOrder(ring', last.get, service.token, Written')
                              /\ PendingFenced(ring', last.get, blocks')
  <2>1. put \in 0..(Usable - 1) /\ last.get \in 0..Usable /\ Usable \in Nat
    BY <1>5, CoreIs, TotalIs
  <2>2. Room(last.get, put, Jump, 0)
    BY <1>1, <2>1 DEF Room
  <2>3. /\ RingOK(ring', last.get, service.get, 0)
        /\ \A x : Boundary(ring, put, x) => Boundary(ring', 0, x)
        /\ \A read, t :
             NewestToken(ring, last.get, read, t) => NewestToken(ring', last.get, read, t)
        /\ \A read, t :
             TokensInOrder(ring, last.get, read, t) => TokensInOrder(ring', last.get, read, t)
        /\ \A B : FreeUnread(ring, B) => FreeUnread(ring', B)
        /\ \A B : PendingFenced(ring, last.get, B) => PendingFenced(ring', last.get, B)
    BY <1>1, <1>5, <2>2, CoreIs, JumpPlaced
  <2>4. FlushesOK(ring', last.get, service.get, put', service.put, deferred, wire')
    BY <1>1, <1>5, <2>3, CoreIs, FlushPlaced
  <2>5. put' # Usable
    BY <1>1, TotalIs
  <2>6. QED
    BY <1>1, <1>2, <1>5, <2>3, <2>4, <2>5, CoreIs DEF Core
<1>6. QED
  BY <1>1, <1>2, <1>4, <1>5, ClientMoves

(* Writing the command ends the call, or makes it wait if the token wraps. *)
LEMMA PlaceTypes ==
  ASSUME IInv, call.pc = "space", PlaceCommand, UNCHANGED token
  PROVE  /\ ring' \in [Offsets -> Cell] /\ put' \in Nat
         /\ blocks' \in [Blocks -> [state : {"FREE", "IN_USE", "PENDING"}, token : TokenValues]]
         /\ call' \in [pc : CallStates, cmd : Commands \cup {None}, block : Blocks \cup {None}]
         /\ CallOK' /\ ~WritesToken'
         /\ ~Wrapping' => ~Wrapping
         /\ WritesToken => NowPending(blocks, blocks', call.block, token)
         /\ ~WritesToken => blocks' = blocks
<1> DEFINE c == call.cmd
           end == put + call.cmd.size
           with == WriteCommand(ring, put, call.cmd)
<1>1. Types /\ CallOK
  BY DEF IInv
<1>2. /\ c \in Commands /\ c.size \in Nat
      /\ c.op = "use" => call.block = None
      /\ c.op = "token" => c.arg = token
      /\ c.op \in {"use", "token"}
  BY <1>1, CommandIs, TotalIs DEF CallOK
<1>3. /\ ring' = IF end = Usable THEN WriteCommand(with, end, Jump) ELSE with
      /\ put' = IF end = Usable THEN 0 ELSE end
      /\ blocks' = IF call.block # None
                   THEN [blocks EXCEPT ![call.block] = [state |-> "PENDING", token |-> c.arg]]
                   ELSE blocks
      /\ call' = IF c.op = "token" /\ Wraps(c.arg) THEN [Idle EXCEPT !.pc = "finish"] ELSE Idle
  BY DEF PlaceCommand, Finished
<1>4. with \in [Offsets -> Cell] /\ end \in Nat
  BY <1>1, <1>2, WriteType, SMTT(30) DEF Types
<1> HIDE DEF with, end, c
<1>5. ring' \in [Offsets -> Cell] /\ put' \in Nat
  <2>1. WriteCommand(with, end, Jump) \in [Offsets -> Cell]
    BY <1>4, WriteType
  <2>2. QED
    BY <1>3, <1>4, <2>1
<1>6. blocks' \in [Blocks -> [state : {"FREE", "IN_USE", "PENDING"}, token : TokenValues]]
  <2>1. call.block \in Blocks \cup {None} /\ token \in TokenValues
    BY <1>1 DEF Types
  <2>2. blocks \in [Blocks -> [state : {"FREE", "IN_USE", "PENDING"}, token : TokenValues]]
    BY <1>1 DEF Types
  <2>3. CASE call.block = None
    BY <1>3, <2>2, <2>3
  <2>4. CASE call.block # None
    BY <1>2, <1>3, <2>1, <2>2, <2>4
  <2>5. QED
    BY <2>3, <2>4
<1>7. /\ call' \in [pc : CallStates, cmd : Commands \cup {None}, block : Blocks \cup {None}]
      /\ call'.pc = IF c.op = "token" /\ c.arg = 0 THEN "finish" ELSE "idle"
  BY <1>3 DEF Idle, Wraps, CallStates
<1>8. CallOK' /\ ~WritesToken'
  BY <1>7 DEF CallOK, WritesToken
<1>9. ~Wrapping' => ~Wrapping
  BY <1>2, <1>7 DEF Wrapping, WritesToken, c
<1>10. ASSUME WritesToken PROVE NowPending(blocks, blocks', call.block, token)
  <2>1. c.arg = token /\ blocks \in [Blocks -> [state : {"FREE", "IN_USE", "PENDING"},
                                                token : TokenValues]]
    BY <1>1, <1>2, <1>10 DEF WritesToken, c, Types
  <2>2. \A b \in Blocks : b # None
    BY NoneOk
  <2>3. QED
    BY <1>3, <2>1, <2>2 DEF NowPending
<1>11. ~WritesToken => blocks' = blocks
  BY <1>2, <1>3 DEF WritesToken, c
<1>12. QED
  BY <1>5, <1>6, <1>7, <1>8, <1>9, <1>10, <1>11

(* After a failed FlushSync the command is written, wherever it goes. *)
LEMMA GetSpaceLostInv ==
  ASSUME IInv, GetSpaceLost
  PROVE  IInv'
<1>1. /\ call.pc = "space" /\ lost = TRUE /\ sync = FALSE /\ PlaceCommand
      /\ UNCHANGED <<sent, token, last, lost, sync, open, wire, deferred, fast, service, replies,
                     updates, generation>>
  BY DEF GetSpaceLost, IInv, Types, Errors
<1>2. Types'
  BY <1>1, PlaceTypes DEF IInv, Types
<1>3. CallOK' /\ SyncOK'
  BY <1>1, PlaceTypes DEF IInv, SyncOK
<1>4. QED
  BY <1>1, <1>2, <1>3, ClientMoves

(* AvailableEntries says no more than there is room for. *)
LEMMA RoomFound ==
  ASSUME NEW g \in 0..Usable, NEW p \in 0..(Usable - 1), NEW c \in Commands,
         ~(p + c.size > Usable), AvailableEntries(g, p) >= c.size
  PROVE  /\ Room(g, p, c, p + c.size) /\ p + c.size \in 0..Usable
         /\ p + c.size = Usable => Room(g, Usable, Jump, 0)
<1>1. c \in Commands /\ c # Jump /\ c.size \in 1..(Usable - 1) /\ Usable \in Nat
  BY CommandIs, TotalIs
<1> DEFINE a == AvailableEntries(g, p)
<1>2. a = IF g = Usable THEN Usable - p - 1
           ELSE IF g > p THEN g - p - 1 ELSE g - p - 1 + Usable
  BY AvailableIs
<1>3. a >= c.size
  OBVIOUS
<1> HIDE DEF a
<1>4. g <= p \/ p + c.size < g
  BY <1>1, <1>2, <1>3
<1>5. p + c.size = Usable => 0 < g
  BY <1>1, <1>2, <1>3
<1>6. QED
  BY <1>1, <1>4, <1>5 DEF Room

(* The command is placed, and the jump behind it at the end of the ring. *)
LEMMA PlaceOK ==
  ASSUME IInv, lost = FALSE, call.pc = "space", ~NoRoomAtEnd,
         AvailableEntries(last.get, put) >= call.cmd.size,
         PlaceCommand, UNCHANGED token
  PROVE  /\ RingOK(ring', last.get, service.get, put') /\ put' # Usable
         /\ \A x : Boundary(ring, put, x) => Boundary(ring', put', x)
         /\ NewestToken(ring', last.get, service.token, token)
         /\ FreeUnread(ring', blocks')
         /\ ~Wrapping => /\ TokensInOrder(ring', last.get, service.token, token)
                         /\ PendingFenced(ring', last.get, blocks')
<1> DEFINE c == call.cmd
           end == put + call.cmd.size
           with == WriteCommand(ring, put, call.cmd)
           g == last.get
           s == service.get
           t == service.token
<1>1. /\ Core /\ Types /\ CallOK /\ RingOK(ring, g, s, put)
      /\ put \in 0..(Usable - 1) /\ put \in Offsets /\ g \in 0..Usable
  BY CoreIs
<1>2. c \in Commands /\ ~(put + c.size > Usable)
      /\ t \in TokenValues /\ token \in TokenValues
      /\ (c.op = "use" => blocks[c.arg].state = "IN_USE")
      /\ (c.op = "token" => c.arg = token) /\ c.op \in {"use", "token"}
      /\ call.block \in Blocks \cup {None}
  BY <1>1, CommandIs DEF NoRoomAtEnd, CallOK, Types
<1>3. /\ Room(g, put, c, end) /\ end \in 0..Usable
      /\ end = Usable => Room(g, Usable, Jump, 0)
  BY <1>1, <1>2, RoomFound
<1>4. /\ RingOK(with, g, s, end)
      /\ HeadAt(with, put) /\ with[put].cmd = c /\ ~HeadAt(ring, put)
      /\ \A i \in Offsets : HeadAt(with, i) <=> HeadAt(ring, i) \/ i = put
      /\ \A i \in Offsets : HeadAt(ring, i) => with[i] = ring[i]
  <2>1. c \in Commands \cup {Jump}
    BY <1>2
  <2> HIDE DEF c, end, g, s
  <2>2. QED
    BY <1>1, <1>3, <2>1, RingAppend DEF c
<1>5. /\ ring' = IF end = Usable THEN WriteCommand(with, end, Jump) ELSE with
      /\ put' = IF end = Usable THEN 0 ELSE end
  BY DEF PlaceCommand, Finished
<1> HIDE DEF with, end, c, g, s, t
<1>6. \A x : Boundary(ring, put, x) => Boundary(with, end, x)
  BY <1>4 DEF Boundary, HeadAt
<1>7. /\ NewestToken(with, g, t, token)
      /\ FreeUnread(with, blocks')
      /\ ~Wrapping => /\ TokensInOrder(with, g, t, token)
                      /\ PendingFenced(with, g, blocks')
  <2>1. /\ ~WritesToken => NewestToken(ring, g, t, token)
        /\ FreeUnread(ring, blocks)
        /\ ~Wrapping => /\ TokensInOrder(ring, g, t, Written)
                        /\ PendingFenced(ring, g, blocks)
    BY <1>1 DEF Core, g, t
  <2>2. CASE c.op = "token"
    <3>1. WritesToken /\ Written = token - 1 /\ c.arg = token
      BY <1>2, <2>2 DEF WritesToken, Written, c
    <3> DEFINE B2 == blocks'
               x == call.block
    <3>2. NowPending(blocks, B2, x, token)
      BY <3>1, PlaceTypes
    <3> HIDE DEF B2, x
    <3>3. /\ NewestToken(with, g, t, token)
          /\ TokensInOrder(ring, g, t, token - 1) => TokensInOrder(with, g, t, token)
          /\ FreeUnread(ring, blocks) => FreeUnread(with, B2)
          /\ PendingFenced(ring, g, blocks) => PendingFenced(with, g, B2)
      <4>1. put \in Offsets /\ t \in TokenValues /\ token \in TokenValues /\ c.arg = token
        BY <1>1, <1>2, <3>1
      <4>2. RingOK(ring, g, s, put) /\ RingOK(with, g, s, end) /\ with[put].cmd = c
        BY <1>1, <1>4
      <4>3. /\ \A i \in Offsets : HeadAt(with, i) <=> HeadAt(ring, i) \/ i = put
            /\ \A i \in Offsets : HeadAt(ring, i) => with[i] = ring[i]
            /\ ~HeadAt(ring, put)
        BY <1>4
      <4>4. QED
        BY <2>2, <3>2, <4>1, <4>2, <4>3, OrderTokenPlaced
    <3>4. QED
      BY <2>1, <3>1, <3>3 DEF B2
  <2>3. CASE c.op # "token"
    <3>1. ~WritesToken /\ Written = token /\ blocks' = blocks
      BY <2>3, PlaceTypes DEF WritesToken, Written, c
    <3>2. /\ NewestToken(ring, g, t, token) => NewestToken(with, g, t, token)
          /\ TokensInOrder(ring, g, t, token) => TokensInOrder(with, g, t, token)
          /\ FreeUnread(ring, blocks) => FreeUnread(with, blocks)
          /\ PendingFenced(ring, g, blocks) => PendingFenced(with, g, blocks)
      BY <1>1, <1>2, <1>4, <2>3, OrderPlaced
    <3>3. QED
      BY <2>1, <3>1, <3>2
  <2>4. QED
    BY <2>2, <2>3
<1>8. CASE end # Usable
  BY <1>4, <1>5, <1>6, <1>7, <1>8 DEF g, s, t
<1>9. CASE end = Usable
  <2>1. /\ RingOK(ring', g, s, 0)
        /\ \A x : Boundary(with, end, x) => Boundary(ring', 0, x)
        /\ \A read, u : NewestToken(with, g, read, u) => NewestToken(ring', g, read, u)
        /\ \A read, u : TokensInOrder(with, g, read, u) => TokensInOrder(ring', g, read, u)
        /\ \A B : FreeUnread(with, B) => FreeUnread(ring', B)
        /\ \A B : PendingFenced(with, g, B) => PendingFenced(ring', g, B)
    BY <1>3, <1>4, <1>5, <1>9, JumpPlaced
  <2>2. put' = 0 /\ put' # Usable
    BY <1>5, <1>9, TotalIs
  <2>3. QED
    BY <1>6, <1>7, <2>1, <2>2 DEF g, s, t
<1>10. QED
  BY <1>8, <1>9

(* There is room, and the command is written. *)
LEMMA GetSpaceInv ==
  ASSUME IInv, NEW late \in BOOLEAN, GetSpace(late)
  PROVE  IInv'
<1>1. /\ call.pc = "space" /\ ~NoRoomAtEnd
      /\ AvailableEntries(last.get, put) >= call.cmd.size
      /\ PlaceCommand
      /\ UNCHANGED <<token, last, lost, sync, open, deferred, fast, service, replies, updates,
                     generation>>
  BY DEF GetSpace, Waiting
<1>2. Flush(<<>>) \/ UNCHANGED <<sent, wire>>
  BY DEF GetSpace
<1>3. sent' \in Nat
  BY <1>2 DEF Flush, IInv, Types
<1>4. /\ wire' \in Seq(ServiceMessage)
      /\ lost = FALSE =>
           FlushesOK(ring, last.get, service.get, put, service.put, deferred, wire')
  <2>1. CASE wire' = wire
    BY <2>1, CoreIs DEF IInv, Types
  <2>2. CASE wire' = wire \o <<FlushMessage(put)>> \o <<>>
    <3> DEFINE w2 == wire \o <<FlushMessage(put)>> \o <<>>
    <3>1. w2 \in Seq(ServiceMessage)
      BY DEF IInv, Types, ServiceMessage, FlushMessage
    <3>2. ASSUME lost = FALSE
          PROVE  FlushesOK(ring, last.get, service.get, put, service.put, deferred, w2)
      BY <3>2, CoreIs, FlushSent
    <3> HIDE DEF w2
    <3>3. QED
      BY <2>2, <3>1, <3>2 DEF w2
  <2>3. QED
    BY <1>2, <2>1, <2>2 DEF Flush
<1>5. Types'
  BY <1>1, <1>3, <1>4, PlaceTypes DEF IInv, Types
<1>6. CallOK' /\ ~WritesToken' /\ (~Wrapping' => ~Wrapping) /\ Written' = token
  BY <1>1, PlaceTypes DEF Written
<1>9. SyncOK'
  <2>1. put \in Nat /\ wire \in Seq(ServiceMessage) /\ OneFast(wire)
    BY DEF IInv, Types, SyncOK
  <2>2. ~HasFast(wire) /\ ~HasFast(deferred) /\ replies = <<>> /\ ~sync /\ OneFast(deferred)
    BY DEF GetSpace, Waiting, IInv, SyncOK, Types
  <2>3. ~HasFast(wire')
    BY <1>2, <2>1, <2>2, FastSent DEF Flush
  <2>4. OneFast(wire')
    BY <2>3 DEF HasFast, OneFast
  <2>5. QED
    BY <1>1, <2>2, <2>3, <2>4 DEF SyncOK
<1>7. ASSUME lost = FALSE
      PROVE  /\ RingOK(ring', last.get, service.get, put') /\ put' # Usable
             /\ FlushesOK(ring', last.get, service.get, put', service.put, deferred, wire')
             /\ NewestToken(ring', last.get, service.token, token')
             /\ FreeUnread(ring', blocks')
             /\ ~Wrapping' => /\ TokensRise(Views)
                              /\ TokensInOrder(ring', last.get, service.token, Written')
                              /\ PendingFenced(ring', last.get, blocks')
  <2>1. /\ RingOK(ring', last.get, service.get, put') /\ put' # Usable
        /\ \A x : Boundary(ring, put, x) => Boundary(ring', put', x)
        /\ NewestToken(ring', last.get, service.token, token)
        /\ FreeUnread(ring', blocks')
        /\ ~Wrapping => /\ TokensInOrder(ring', last.get, service.token, token)
                        /\ PendingFenced(ring', last.get, blocks')
    BY <1>1, <1>7, PlaceOK
  <2>2. FlushesOK(ring', last.get, service.get, put', service.put, deferred, wire')
    BY <1>4, <1>7, <2>1, FlushPlaced
  <2>3. ~Wrapping => TokensRise(Views)
    BY <1>7, CoreIs DEF Core
  <2>4. QED
    BY <1>1, <1>6, <2>1, <2>2, <2>3
<1>8. QED
  BY <1>1, <1>5, <1>6, <1>7, <1>9, ClientMoves

(* Every view is of a reader between the one the client knows and the one
   there is. *)
LEMMA ViewsBetween ==
  ASSUME IInv, lost = FALSE, NEW u \in Views
  PROVE  /\ u.get \in 0..Usable /\ u.get \in Offsets
         /\ Dist(last.get, u.get) <= Dist(last.get, service.get)
         /\ ~Wrapping => last.token <= u.token /\ u.token <= service.token
         /\ u.get = last.get => u.token = last.token
<1> DEFINE l == View(last.get, last.token, -1)
           v == View(service.get, service.token, generation + 1)
<1>1. Types /\ Errors /\ ViewsOK(Views, last.get) /\ (~Wrapping => TokensRise(Views))
  BY CoreIs DEF Core
<1>2. l \in Views /\ v \in Views
  BY DEF Views, ViewsOf
<1>3. l.at <= u.at /\ u.at <= v.at
  BY <1>1, ViewBounds DEF View
<1>4. l.get = last.get /\ l.token = last.token /\ v.get = service.get /\ v.token = service.token
  BY DEF View
<1> HIDE DEF l, v
<1>5. /\ u.get \in 0..Usable /\ Dist(last.get, u.get) <= Dist(last.get, service.get)
      /\ u.get = last.get => u.token = last.token
  BY <1>1, <1>2, <1>3, <1>4 DEF ViewsOK
<1>6. ~Wrapping => last.token <= u.token /\ u.token <= service.token
  BY <1>1, <1>2, <1>3, <1>4 DEF TokensRise
<1>7. u.get \in Offsets
  BY <1>5, TotalIs DEF Offsets
<1>8. QED
  BY <1>5, <1>6, <1>7

(* A client that knows the reader at put_ knows all there is to know. *)
LEMMA CaughtUp ==
  ASSUME IInv, lost = FALSE, last.get = put, ~WritesToken
  PROVE  /\ service.get = put
         /\ \A h \in Offsets : ~HeadAt(ring, h)
         /\ \A u \in Views : u.get = last.get /\ u.token = last.token
         /\ service.token = token /\ last.token = token
<1>1. /\ RingOK(ring, last.get, service.get, put)
      /\ put \in Offsets /\ service.get \in Offsets /\ last.get \in Offsets
  BY CoreIs
<1>2. Dist(put, put) = 0
  BY <1>1, DistIs
<1>3. \A x \in Offsets : Dist(put, x) \in Offsets /\ (Dist(put, x) = 0 => x = put)
  BY <1>1, <1>2, DistIs
<1>4. service.get = put
  <2>1. Dist(put, service.get) <= 0
    BY <1>1, <1>2 DEF RingOK
  <2>2. Dist(put, service.get) = 0
    BY <1>1, <1>3, <2>1 DEF Offsets
  <2>3. QED
    BY <1>1, <1>3, <2>2
<1>5. ASSUME NEW h \in Offsets, HeadAt(ring, h) PROVE FALSE
  <2>1. Dist(put, h) < 0
    BY <1>1, <1>2, <1>5 DEF RingOK, HeadAt
  <2>2. QED
    BY <1>3, <2>1 DEF Offsets
<1>6. ASSUME NEW u \in Views PROVE u.get = last.get /\ u.token = last.token
  <2>1. u.get \in Offsets /\ Dist(put, u.get) <= 0 /\ (u.get = last.get => u.token = last.token)
    BY <1>2, <1>4, ViewsBetween
  <2>2. Dist(put, u.get) = 0
    BY <1>3, <2>1 DEF Offsets
  <2>3. QED
    BY <1>3, <2>1, <2>2
<1>7. service.token = token
  <2>1. NewestToken(ring, last.get, service.token, token)
    BY CoreIs DEF Core
  <2>2. QED
    BY <1>5, <2>1 DEF NewestToken, TokenAt
<1>8. last.token = service.token
  <2> DEFINE v == View(service.get, service.token, generation + 1)
  <2>1. v \in Views /\ v.token = service.token
    BY DEF Views, ViewsOf, View
  <2> HIDE DEF v
  <2>2. QED
    BY <1>6, <2>1
<1>9. QED
  BY <1>4, <1>5, <1>6, <1>7, <1>8

(* The reader is at put_: after a wrap the tokens rise again. *)
LEMMA FinishReturnInv ==
  ASSUME IInv, FinishReturn
  PROVE  IInv'
<1>1. /\ call.pc \in {"finish", "finishing"} /\ sync = FALSE /\ call' = Idle
      /\ lost = FALSE => put = last.get
      /\ UNCHANGED <<ring, put, sent, token, last, lost, sync, open, blocks, wire, deferred,
                     fast, service, replies, updates, generation>>
  BY DEF FinishReturn, IInv, Types, Errors
<1>2. Types'
  BY <1>1 DEF IInv, Types, Idle, CallStates
<1>3. CallOK' /\ SyncOK'
  BY <1>1 DEF IInv, CallOK, SyncOK, Idle
<1>4. ~WritesToken /\ ~WritesToken' /\ Written' = token'
  BY <1>1 DEF WritesToken, Written, Idle
<1>5. ASSUME lost = FALSE
      PROVE  /\ TokensRise(Views)
             /\ TokensInOrder(ring, last.get, service.token, token)
             /\ PendingFenced(ring, last.get, blocks)
  <2>1. /\ \A h \in Offsets : ~HeadAt(ring, h)
        /\ \A u \in Views : u.token = last.token
        /\ service.token = token
    BY <1>1, <1>4, <1>5, CaughtUp
  <2>2. last.token <= last.token /\ token <= token
    BY DEF IInv, Types, TokenValues
  <2>3. QED
    BY <2>1, <2>2 DEF TokensRise, TokensInOrder, PendingFenced, TokenAt, UseAt
<1>6. QED
  BY <1>1, <1>2, <1>3, <1>4, <1>5, CoreIs, ClientMoves DEF Core

(* The token of the block has passed. *)
LEMMA WaitForTokenReturnInv ==
  ASSUME IInv, WaitForTokenReturn
  PROVE  IInv'
<1>1. /\ call.pc \in {"wait", "waiting"} /\ sync = FALSE /\ call' = Idle
      /\ blocks' = [blocks EXCEPT ![call.block].state = "IN_USE"]
      /\ UNCHANGED <<ring, put, sent, token, last, lost, sync, open, wire, deferred,
                     fast, service, replies, updates, generation>>
  BY DEF WaitForTokenReturn, IInv, Types
<1>2. blocks \in [Blocks -> [state : {"FREE", "IN_USE", "PENDING"}, token : TokenValues]]
  BY DEF IInv, Types
<1>3. ASSUME NEW b \in Blocks
      PROVE  /\ blocks'[b] \in [state : {"FREE", "IN_USE", "PENDING"}, token : TokenValues]
             /\ blocks'[b] = blocks[b] \/ blocks'[b].state = "IN_USE"
  BY <1>1, <1>2
<1>4. Types'
  <2>1. blocks' \in [Blocks -> [state : {"FREE", "IN_USE", "PENDING"}, token : TokenValues]]
    BY <1>1, <1>2, <1>3
  <2>2. QED
    BY <1>1, <2>1 DEF IInv, Types, Idle, CallStates
<1>5. CallOK' /\ SyncOK'
  BY <1>1 DEF IInv, CallOK, SyncOK, Idle
<1>6. /\ ~WritesToken /\ ~Wrapping /\ ~WritesToken' /\ Written' = token' /\ Written = token
  BY <1>1 DEF WritesToken, Wrapping, Written, Idle
<1>7. FreeUnread(ring, blocks) => FreeUnread(ring, blocks')
  BY <1>3 DEF FreeUnread
<1>8. PendingFenced(ring, last.get, blocks) => PendingFenced(ring, last.get, blocks')
  BY <1>3 DEF PendingFenced
<1>9. QED
  BY <1>1, <1>4, <1>5, <1>6, <1>7, <1>8, CoreIs, ClientMoves DEF Core

(* A client that has not been told of the loss of the context waits for a token
   only while there are commands to come. *)
LEMMA FatalIsLost ==
  ASSUME IInv, WaitForTokenFatal
  PROVE  lost = TRUE
<1>1. call.pc \in {"wait", "waiting"} /\ ~TokenPassed /\ last.get = put
  BY DEF WaitForTokenFatal, WaitsForToken
<1>2. /\ blocks[call.block].token \in Nat /\ token \in Nat
  <2>1. call.block \in Blocks
    BY <1>1 DEF IInv, CallOK
  <2>2. blocks[call.block].token \in TokenValues /\ token \in TokenValues
    BY <2>1 DEF IInv, Types
  <2>3. QED
    BY <2>2 DEF TokenValues
<1>3. last.token # token
  BY <1>1, <1>2 DEF TokenPassed, Passed
<1>4. ~WritesToken
  BY <1>1 DEF WritesToken
<1>5. lost # FALSE
  BY <1>1, <1>3, <1>4, CaughtUp
<1>6. QED
  BY <1>5 DEF IInv, Types

(* The client gives up. *)
LEMMA WaitForTokenFatalInv ==
  ASSUME IInv, WaitForTokenFatal
  PROVE  IInv'
<1>1. /\ call.pc \in {"wait", "waiting"} /\ call' = [call EXCEPT !.pc = "fatal"]
      /\ UNCHANGED <<ring, put, sent, token, last, lost, sync, open, blocks, wire, deferred,
                     fast, service, replies, updates, generation>>
  BY DEF WaitForTokenFatal, WaitsForToken
<1>2. call'.pc = "fatal" /\ Types'
  BY <1>1 DEF IInv, Types, CallStates
<1>3. CallOK' /\ SyncOK'
  BY <1>1, <1>2, FatalIsLost DEF IInv, CallOK, SyncOK
<1>4. QED
  BY <1>1, <1>2, <1>3, FatalIsLost, ClientMoves

(* The wait for a reply is cancelled. *)
LEMMA SendFailsInv ==
  ASSUME IInv, SendFails
  PROVE  IInv'
<1>1. /\ open = FALSE /\ replies = <<>> /\ sync' = FALSE /\ lost' = TRUE
      /\ last' = [last EXCEPT !.error = TRUE]
      /\ UNCHANGED <<ring, put, sent, token, call, blocks, open, wire, deferred, fast, service,
                     replies, updates, generation>>
  BY DEF SendFails, client, IInv, Types
<1>2. service.error = TRUE
  BY <1>1 DEF IInv, Errors
<1>3. Types' /\ CallOK' /\ States' = States
  BY <1>1 DEF IInv, Types, CallOK, States
<1>4. Errors'
  BY <1>1, <1>2, <1>3 DEF IInv, Errors
<1>5. ~HasFast(wire) /\ ~HasFast(deferred)
  BY <1>1 DEF IInv, SyncOK
<1>6. SyncOK'
  BY <1>1, <1>5 DEF IInv, SyncOK
<1>7. QED
  BY <1>1, <1>3, <1>4, <1>6 DEF IInv

UpdateMessage == StateMessage \cup {Destroyed}

(* Only the generation of a message depends on what the client knows. *)
LEMMA RebaseIs ==
  ASSUME NEW msgs \in Seq(UpdateMessage), NEW g \in Nat
  PROVE  LET R == Rebase(msgs, g)
         IN  /\ R \in Seq(UpdateMessage) /\ DOMAIN R = DOMAIN msgs
             /\ \A i \in DOMAIN msgs :
                  LET m == msgs[i]
                  IN  /\ m.kind = "state" =>
                           /\ m \in StateMessage /\ R[i] \in StateMessage
                           /\ R[i].kind = "state" /\ R[i].get = m.get
                           /\ R[i].token = m.token /\ R[i].error = m.error
                           /\ R[i].generation = IF m.generation < g THEN -1
                                                ELSE m.generation - g
                      /\ m.kind # "state" => m = Destroyed /\ R[i] = Destroyed
<1> DEFINE R == Rebase(msgs, g)
<1>1. /\ R = [i \in 1..Len(msgs) |-> R[i]] /\ Len(msgs) \in Nat
      /\ DOMAIN R = DOMAIN msgs /\ DOMAIN msgs = 1..Len(msgs)
  BY DEF Rebase
<1>2. ASSUME NEW i \in DOMAIN msgs
      PROVE  LET m == msgs[i]
             IN  /\ m.kind = "state" =>
                      /\ m \in StateMessage /\ R[i] \in StateMessage
                      /\ R[i].kind = "state" /\ R[i].get = m.get
                      /\ R[i].token = m.token /\ R[i].error = m.error
                      /\ R[i].generation = IF m.generation < g THEN -1
                                           ELSE m.generation - g
                 /\ m.kind # "state" => m = Destroyed /\ R[i] = Destroyed
  <2> DEFINE m == msgs[i]
             k == IF m.generation < g THEN -1 ELSE m.generation - g
  <2>1. m \in UpdateMessage
    OBVIOUS
  <2>2. R[i] = IF m.kind = "state" THEN [m EXCEPT !.generation = k] ELSE m
    BY DEF Rebase
  <2> HIDE DEF m, R
  <2>3. CASE m.kind = "state"
    <3>1. m \in StateMessage
      BY <2>1, <2>3 DEF UpdateMessage, Destroyed
    <3>2. k \in Nat \cup {-1}
      BY <3>1 DEF StateMessage
    <3> HIDE DEF k
    <3>3. /\ R[i] \in StateMessage /\ R[i].kind = "state" /\ R[i].get = m.get
          /\ R[i].token = m.token /\ R[i].error = m.error /\ R[i].generation = k
      BY <2>2, <2>3, <3>1, <3>2 DEF StateMessage
    <3>4. QED
      BY <2>3, <3>1, <3>3 DEF m, k
  <2>4. CASE m.kind # "state"
    BY <2>1, <2>2, <2>4 DEF UpdateMessage, StateMessage, m
  <2>5. QED
    BY <2>3, <2>4 DEF m
<1> HIDE DEF R
<1>3. \A i \in 1..Len(msgs) : R[i] \in UpdateMessage
  BY <1>1, <1>2 DEF UpdateMessage
<1>4. R \in Seq(UpdateMessage)
  BY <1>1, <1>3
<1>5. QED
  BY <1>1, <1>2, <1>4 DEF R

(* The client looks at m; upds are the messages it has not looked at. *)
Looks(m, upds) ==
    /\ m \in ToSet(updates) \cup ToSet(replies)
    /\ upds \in Seq(UpdateMessage) /\ ToSet(upds) \subseteq ToSet(updates)
    /\ OnUpdateState(m, <<>>, upds)
    /\ lost' = (lost \/ last'.error)
    /\ sync' = FALSE /\ ~HasFast(wire) /\ ~HasFast(deferred)
    /\ UNCHANGED <<ring, client, open, wire, deferred, fast, service>>

(* What the client is told it does not forget. *)
LEMMA LooksTells ==
  ASSUME IInv, NEW m, NEW upds, Looks(m, upds), last'.error \in BOOLEAN
  PROVE  /\ lost' \in BOOLEAN
         /\ lost = TRUE => lost' = TRUE
         /\ last'.error = TRUE => lost' = TRUE
         /\ lost' = TRUE => lost = TRUE \/ last'.error = TRUE
<1>1. lost \in BOOLEAN /\ lost' = (lost \/ last'.error)
  BY DEF Looks, IInv, Types
<1>2. QED
  BY <1>1

(* What does not depend on what the message says. *)
LEMMA LooksAnyway ==
  ASSUME IInv, NEW m, NEW upds, Looks(m, upds), replies' = <<>>, last'.error \in BOOLEAN
  PROVE  /\ m \in UpdateMessage
         /\ (m = Destroyed \/ (m \in StateMessage /\ m.kind = "state"))
         /\ \A x \in ToSet(upds) : x \in UpdateMessage
         /\ StatesIn(<<>>, upds) \subseteq States
         /\ CallOK' /\ SyncOK'
         /\ WritesToken' = WritesToken /\ Wrapping' = Wrapping /\ Written' = Written
<1>1. updates \in Seq(UpdateMessage) /\ replies \in Seq(StateMessage)
  BY DEF IInv, Types, UpdateMessage
<1>2. m \in UpdateMessage
  BY <1>1 DEF Looks, ToSet, UpdateMessage
<1>3. (m = Destroyed \/ (m \in StateMessage /\ m.kind = "state"))
  BY <1>2 DEF UpdateMessage, StateMessage
<1>4. \A x \in ToSet(upds) : x \in UpdateMessage
  BY DEF Looks, ToSet
<1>5. StatesIn(<<>>, upds) \subseteq States
  BY EmptyList DEF Looks, States, StatesIn
<1>6. CallOK' /\ SyncOK'
  <2>1. lost = TRUE => lost' = TRUE
    BY LooksTells
  <2>2. QED
    BY <2>1 DEF Looks, IInv, CallOK, SyncOK, client
<1>7. WritesToken' = WritesToken /\ Wrapping' = Wrapping /\ Written' = Written
  BY DEF Looks, client, WritesToken, Wrapping, Written
<1>8. QED
  BY <1>2, <1>3, <1>4, <1>5, <1>6, <1>7

(* The error that ends all waiting. *)
LEMMA LooksAtDestroyed ==
  ASSUME IInv, NEW upds, Looks(Destroyed, upds)
  PROVE  IInv'
<1>1. /\ last' = [last EXCEPT !.error = TRUE] /\ replies' = <<>> /\ updates' = upds
      /\ generation' = generation
  BY DEF Looks, OnUpdateState, Destroyed
<1>3. States' = StatesIn(<<>>, upds)
  BY <1>1 DEF States
<1>4. last \in [get : Offsets, token : TokenValues, error : BOOLEAN] /\ last'.error = TRUE
      /\ last' \in [get : Offsets, token : TokenValues, error : BOOLEAN]
  BY <1>1 DEF IInv, Types
<1>2. StatesIn(<<>>, upds) \subseteq States /\ CallOK' /\ SyncOK' /\ lost' = TRUE
  BY <1>1, <1>4, LooksAnyway, LooksTells
<1>5. Types'
  <2>1. updates' \in Seq(StateMessage \cup {Destroyed})
    BY <1>1 DEF Looks, UpdateMessage
  <2>2. replies' \in Seq(StateMessage) /\ Len(replies') <= 1
    BY <1>1
  <2>3. UNCHANGED <<ring, put, sent, token, call, blocks, open, wire, deferred, fast, service>>
        /\ sync' = FALSE
    BY DEF Looks, client
  <2>4. QED
    BY <1>1, <1>2, <1>4, <2>1, <2>2, <2>3 DEF IInv, Types
<1>6. service.error = TRUE
  <2>1. Destroyed \in ToSet(updates)
    <3>1. Destroyed \notin ToSet(replies)
      BY DEF IInv, Types, ToSet, StateMessage, Destroyed
    <3>2. QED
      BY <3>1 DEF Looks
  <2>2. QED
    BY <2>1 DEF IInv, Errors
<1>7. Errors'
  BY <1>1, <1>2, <1>3, <1>6 DEF IInv, Errors, Looks, client
<1>8. QED
  BY <1>2, <1>5, <1>7 DEF IInv

(* A state older than the one the client knows changes nothing. *)
LEMMA LooksAtStale ==
  ASSUME IInv, NEW m, NEW upds, Looks(m, upds), m.kind = "state", ~Newer(m)
  PROVE  IInv'
<1>1. /\ last' = last /\ replies' = <<>> /\ updates' = upds /\ generation' = generation
      /\ last'.error \in BOOLEAN
  BY DEF Looks, OnUpdateState, IInv, Types
<1>2. /\ StatesIn(<<>>, upds) \subseteq States /\ CallOK' /\ SyncOK'
      /\ WritesToken' = WritesToken /\ Wrapping' = Wrapping /\ Written' = Written
  BY <1>1, LooksAnyway
<1>3. States' \subseteq States /\ lost' = lost
  <2>1. last.error = TRUE => lost = TRUE
    BY DEF IInv, Errors
  <2>2. /\ lost' \in BOOLEAN /\ (lost = TRUE => lost' = TRUE)
        /\ lost' = TRUE => lost = TRUE \/ last'.error = TRUE
    BY <1>1, LooksTells
  <2>3. lost' = lost
    BY <1>1, <2>1, <2>2 DEF IInv, Types
  <2>4. QED
    BY <1>1, <1>2, <2>3 DEF States
<1>4. Types'
  <2>1. updates' \in Seq(StateMessage \cup {Destroyed})
    BY <1>1 DEF Looks, UpdateMessage
  <2>2. replies' \in Seq(StateMessage) /\ Len(replies') <= 1
    BY <1>1
  <2>3. UNCHANGED <<ring, put, sent, token, call, blocks, open, wire, deferred, fast, service>>
        /\ sync' = FALSE
    BY DEF Looks, client
  <2>4. QED
    BY <1>1, <1>3, <2>1, <2>2, <2>3 DEF IInv, Types
<1>5. Errors'
  BY <1>1, <1>3 DEF IInv, Errors, Looks, client
<1>6. Views' \subseteq Views
  BY <1>1, <1>3 DEF Views, ViewsOf, Looks
<1>7. ASSUME lost = FALSE PROVE Core'
  <2>1. /\ ViewsOK(Views, last.get) => ViewsOK(Views', last.get)
        /\ TokensRise(Views) => TokensRise(Views')
    BY <1>6, ViewsFewer
  <2>2. Core
    BY <1>7 DEF IInv
  <2>3. UNCHANGED <<ring, put, token, blocks, wire, deferred, service>>
    BY DEF Looks, client
  <2>4. QED
    BY <1>1, <1>2, <2>1, <2>2, <2>3 DEF Core
<1>8. QED
  BY <1>1, <1>2, <1>3, <1>4, <1>5, <1>7 DEF IInv

(* What a newer state leaves on the way: the states as new as itself. *)
LEMMA LooksOn ==
  ASSUME IInv, NEW m, NEW upds, Looks(m, upds), m.kind = "state", Newer(m)
  PROVE  /\ m \in States /\ m \in StateMessage /\ m.generation \in Nat
         /\ m.generation <= generation
         /\ last' = [get |-> m.get, token |-> m.token, error |-> m.error]
         /\ replies' = <<>>
         /\ updates' = Rebase(upds, m.generation) \/ updates' = <<>>
         /\ generation' = generation - m.generation
         /\ updates' \in Seq(UpdateMessage)
         /\ \A x \in States' : \E n \in States :
              /\ m.generation <= n.generation /\ x.generation = n.generation - m.generation
              /\ x.get = n.get /\ x.token = n.token /\ x.error = n.error
         /\ Destroyed \in ToSet(updates') => Destroyed \in ToSet(updates)
<1>1. /\ last' = [get |-> m.get, token |-> m.token, error |-> m.error]
      /\ replies' = Rebase(<<>>, m.generation)
      /\ updates' = Relevant(Rebase(upds, m.generation))
      /\ generation' = generation - m.generation
  BY DEF Looks, OnUpdateState
<1>2. m \in States
  <2>1. m.generation >= 0
    BY DEF Newer
  <2>2. QED
    BY <2>1 DEF Looks, States, StatesIn
<1>3. m \in StateMessage /\ m.generation \in Nat /\ m.generation <= generation
  BY <1>2, ViewBounds DEF IInv
<1>4. replies' = <<>>
  BY <1>1 DEF Rebase
<1> DEFINE g == m.generation
           R == Rebase(upds, g)
<1>5. upds \in Seq(UpdateMessage)
  BY DEF Looks
<1>6. /\ R \in Seq(UpdateMessage) /\ DOMAIN R = DOMAIN upds
      /\ \A i \in DOMAIN upds :
           /\ upds[i].kind = "state" =>
                /\ upds[i] \in StateMessage /\ R[i] \in StateMessage
                /\ R[i].kind = "state" /\ R[i].get = upds[i].get
                /\ R[i].token = upds[i].token /\ R[i].error = upds[i].error
                /\ R[i].generation = IF upds[i].generation < g THEN -1
                                     ELSE upds[i].generation - g
           /\ upds[i].kind # "state" => upds[i] = Destroyed /\ R[i] = Destroyed
  BY <1>3, <1>5, RebaseIs
<1> HIDE DEF R, g
<1>7. \A i \in DOMAIN upds : upds[i] \in ToSet(updates)
  BY DEF Looks, ToSet
<1>8. updates' = R \/ updates' = <<>>
  BY <1>1 DEF Relevant, R, g
<1>9. ToSet(updates') \subseteq ToSet(R) /\ updates' \in Seq(UpdateMessage)
  <2>1. <<>> \in Seq(UpdateMessage)
    OBVIOUS
  <2>2. QED
    BY <1>6, <1>8, <2>1, EmptyList
<1>10. ASSUME NEW x \in States'
      PROVE  \E n \in States :
              /\ g <= n.generation /\ x.generation = n.generation - g
              /\ x.get = n.get /\ x.token = n.token /\ x.error = n.error
  <2>1. x \in ToSet(R) /\ x.kind = "state" /\ x.generation >= 0
    BY <1>4, <1>9, EmptyList DEF States, StatesIn
  <2>2. PICK i \in DOMAIN upds : x = R[i]
    BY <1>6, <2>1 DEF ToSet
  <2>3. upds[i].kind = "state"
    BY <1>6, <2>1, <2>2 DEF Destroyed
  <2>4. /\ upds[i] \in StateMessage
        /\ x.get = upds[i].get /\ x.token = upds[i].token /\ x.error = upds[i].error
        /\ x.generation = IF upds[i].generation < g THEN -1 ELSE upds[i].generation - g
    BY <1>6, <2>2, <2>3
  <2>5. upds[i].generation \in Int /\ g \in Nat
    BY <1>3, <2>4 DEF StateMessage, g
  <2>6. g <= upds[i].generation /\ x.generation = upds[i].generation - g
    BY <2>1, <2>4, <2>5
  <2>7. upds[i] \in States
    <3>1. upds[i].generation >= 0
      BY <2>5, <2>6
    <3>2. QED
      BY <1>7, <2>3, <3>1 DEF States, StatesIn
  <2>8. QED
    BY <2>4, <2>6, <2>7
<1>11. ASSUME Destroyed \in ToSet(R) PROVE Destroyed \in ToSet(updates)
  <2>1. PICK i \in DOMAIN upds : R[i] = Destroyed
    BY <1>6, <1>11 DEF ToSet
  <2>2. upds[i].kind # "state"
    BY <1>6, <2>1 DEF Destroyed
  <2>3. QED
    BY <1>6, <1>7, <2>2
<1>12. QED
  BY <1>1, <1>2, <1>3, <1>4, <1>10, <1>11, <1>8, <1>9 DEF R, g

(* The views of a client that has looked at a newer state. *)
LEMMA LooksViews ==
  ASSUME IInv, lost = FALSE, NEW m, NEW upds, Looks(m, upds), m.kind = "state", Newer(m)
  PROVE  /\ ViewsOK(Views', m.get)
         /\ TokensRise(Views) => TokensRise(Views')
<1> DEFINE v == View(m.get, m.token, m.generation)
           l == View(m.get, m.token, -1)
           V == Views
           U == Views'
<1>1. /\ m \in States /\ m \in StateMessage /\ m.generation \in Nat /\ m.generation <= generation
      /\ last' = [get |-> m.get, token |-> m.token, error |-> m.error]
      /\ generation' = generation - m.generation
      /\ \A x \in States' : \E n \in States :
              /\ m.generation <= n.generation /\ x.generation = n.generation - m.generation
              /\ x.get = n.get /\ x.token = n.token /\ x.error = n.error
  BY LooksOn
<1>2. /\ v \in V /\ v.at \in Nat /\ l = View(v.get, v.token, -1)
      /\ v.get = m.get /\ v.at = m.generation
  BY <1>1 DEF Views, ViewsOf, View
<1>3. ViewsOK(V, last.get) /\ last.get \in Offsets /\ generation \in Nat
  BY CoreIs, ViewBounds DEF Core
<1>4. \A u \in V : u.at \in Int /\ u.at >= -1
  BY ViewBounds DEF IInv
<1>5. ASSUME NEW u \in U
      PROVE  u = l \/ \E w \in V : v.at <= w.at /\ u = View(w.get, w.token, w.at - v.at)
  <2>1. service' = service
    BY DEF Looks
  <2>2. CASE u = View(last'.get, last'.token, -1)
    BY <1>1, <2>2
  <2>3. CASE u = View(service'.get, service'.token, generation' + 1)
    <3> DEFINE w == View(service.get, service.token, generation + 1)
    <3>1. w \in V
      BY DEF Views, ViewsOf
    <3>2. w.at = generation + 1 /\ w.get = service.get /\ w.token = service.token
      BY DEF View
    <3>3. v.at <= w.at /\ generation' + 1 = w.at - v.at
      BY <1>1, <1>2, <1>3, <3>2
    <3> HIDE DEF w
    <3>4. QED
      BY <2>1, <2>3, <3>1, <3>2, <3>3
  <2>4. ASSUME NEW x \in States', u = View(x.get, x.token, x.generation)
        PROVE  \E w \in V : v.at <= w.at /\ u = View(w.get, w.token, w.at - v.at)
    <3>1. PICK n \in States :
              /\ m.generation <= n.generation /\ x.generation = n.generation - m.generation
              /\ x.get = n.get /\ x.token = n.token
      BY <1>1
    <3> DEFINE w == View(n.get, n.token, n.generation)
    <3>2. w \in V /\ w.at = n.generation /\ w.get = n.get /\ w.token = n.token
      BY DEF Views, ViewsOf, View
    <3> HIDE DEF w
    <3>3. QED
      BY <1>2, <2>4, <3>1, <3>2
  <2>5. QED
    BY <2>2, <2>3, <2>4 DEF Views, ViewsOf
<1> HIDE DEF v, l, U, V
<1>6. ViewsOK(U, v.get) /\ (TokensRise(V) => TokensRise(U))
  <2>1. \A u \in U : \/ u = View(v.get, v.token, -1)
                     \/ \E w \in V : v.at <= w.at /\ u = View(w.get, w.token, w.at - v.at)
    BY <1>2, <1>5
  <2>2. v \in V /\ v.at \in Nat
    BY <1>2
  <2>3. last.get \in Offsets /\ ViewsOK(V, last.get)
    BY <1>3
  <2>4. QED
    BY <2>1, <2>2, <2>3, <1>4, ViewsLooked, ZenonT(60)
<1>7. QED
  BY <1>2, <1>6 DEF U, V

(* A newer state becomes what the client knows. *)
LEMMA LooksAtNewer ==
  ASSUME IInv, NEW m, NEW upds, Looks(m, upds), m.kind = "state", Newer(m)
  PROVE  IInv'
<1>1. /\ m \in States /\ m \in StateMessage /\ m.generation \in Nat
      /\ m.generation <= generation
      /\ last' = [get |-> m.get, token |-> m.token, error |-> m.error]
      /\ replies' = <<>>
      /\ updates' = Rebase(upds, m.generation) \/ updates' = <<>>
      /\ generation' = generation - m.generation
      /\ updates' \in Seq(UpdateMessage)
      /\ \A x \in States' : \E n \in States :
           /\ m.generation <= n.generation /\ x.generation = n.generation - m.generation
           /\ x.get = n.get /\ x.token = n.token /\ x.error = n.error
      /\ Destroyed \in ToSet(updates') => Destroyed \in ToSet(updates)
  BY LooksOn
<1>0. /\ last'.error \in BOOLEAN /\ last'.error = m.error
      /\ last' \in [get : Offsets, token : TokenValues, error : BOOLEAN]
  BY <1>1 DEF StateMessage
<1>2. /\ CallOK' /\ SyncOK'
      /\ WritesToken' = WritesToken /\ Wrapping' = Wrapping /\ Written' = Written
      /\ lost' \in BOOLEAN
      /\ lost = TRUE => lost' = TRUE
      /\ last'.error = TRUE => lost' = TRUE
      /\ lost' = TRUE => lost = TRUE \/ m.error = TRUE
  BY <1>0, <1>1, LooksAnyway, LooksTells
<1>3. UNCHANGED <<ring, put, sent, token, call, blocks, open, wire, deferred, fast, service>>
      /\ sync' = FALSE
  BY DEF Looks, client
<1>4. generation \in Nat
  BY DEF IInv, Types
<1>5. Types'
  <2>1. replies' \in Seq(StateMessage) /\ Len(replies') <= 1
    BY <1>1
  <2>2. updates' \in Seq(StateMessage \cup {Destroyed})
    BY <1>1 DEF UpdateMessage
  <2>3. generation' \in Nat
    BY <1>1, <1>4
  <2>4. QED
    BY <1>0, <1>2, <1>3, <2>1, <2>2, <2>3 DEF IInv, Types
<1>6. Errors'
  <2>1. /\ lost = TRUE => service.error = TRUE
        /\ open = FALSE => service.error = TRUE
        /\ Destroyed \in ToSet(updates) => service.error = TRUE
        /\ \A n \in States : n.generation <= generation /\ (n.error = TRUE => service.error = TRUE)
        /\ service.error = TRUE => service.busy = FALSE
    BY DEF IInv, Errors
  <2>2. \A n \in States : n.generation \in Nat
    BY ViewBounds DEF IInv
  <2>3. lost' = TRUE => service.error = TRUE
    BY <1>1, <1>2, <2>1
  <2>4. ASSUME NEW x \in States'
        PROVE  x.generation <= generation' /\ (x.error = TRUE => service.error = TRUE)
    <3>1. PICK n \in States : x.generation = n.generation - m.generation /\ x.error = n.error
      BY <1>1
    <3>2. QED
      BY <1>1, <1>4, <2>1, <2>2, <3>1
  <2>5. QED
    BY <1>1, <1>2, <1>3, <2>1, <2>3, <2>4 DEF Errors
<1>7. ASSUME lost' = FALSE PROVE Core'
  <2>1. lost = FALSE
    BY <1>2, <1>7 DEF IInv, Types
  <2>2. /\ Core /\ RingOK(ring, last.get, service.get, put)
        /\ FlushesOK(ring, last.get, service.get, put, service.put, deferred, wire)
    BY <2>1, CoreIs
  <2>3. m.get \in 0..Usable /\ Dist(last.get, m.get) <= Dist(last.get, service.get)
    <3> DEFINE v == View(m.get, m.token, m.generation)
    <3>1. v \in Views /\ v.get = m.get
      BY <1>1 DEF Views, ViewsOf, View
    <3> HIDE DEF v
    <3>2. QED
      BY <2>1, <3>1, ViewsBetween
  <2>4. RingOK(ring, m.get, service.get, put)
    BY <2>2, <2>3, RingLook
  <2>5. FlushesOK(ring, m.get, service.get, put, service.put, deferred, wire)
    BY <2>2, <2>3, FlushLooked
  <2>6. ASSUME NEW t
        PROVE  /\ NewestToken(ring, last.get, service.token, t) =>
                    NewestToken(ring, m.get, service.token, t)
               /\ TokensInOrder(ring, last.get, service.token, t) =>
                    TokensInOrder(ring, m.get, service.token, t)
               /\ PendingFenced(ring, last.get, blocks) => PendingFenced(ring, m.get, blocks)
    BY <2>2, <2>3, OrderLooked
  <2>7. ViewsOK(Views', m.get) /\ (TokensRise(Views) => TokensRise(Views'))
    BY <2>1, LooksViews
  <2>8. last'.get = m.get
    BY <1>1
  <2>9. QED
    BY <1>2, <1>3, <2>2, <2>4, <2>5, <2>6, <2>7, <2>8 DEF Core
<1>8. QED
  BY <1>2, <1>5, <1>6, <1>7 DEF IInv

(* The client looks at a message. *)
LEMMA LooksInv ==
  ASSUME IInv, NEW m, NEW upds, Looks(m, upds)
  PROVE  IInv'
<1>1. updates \in Seq(UpdateMessage) /\ replies \in Seq(StateMessage)
  BY DEF IInv, Types, UpdateMessage
<1>2. m \in UpdateMessage
  BY <1>1 DEF Looks, ToSet, UpdateMessage
<1>3. m = Destroyed \/ m.kind = "state"
  BY <1>2 DEF UpdateMessage, StateMessage
<1>4. QED
  BY <1>3, LooksAtDestroyed, LooksAtStale, LooksAtNewer

(* A message that has come on its own. *)
LEMMA ReceiveUpdateInv ==
  ASSUME IInv, ReceiveUpdate
  PROVE  IInv'
<1> DEFINE m == Head(updates)
           upds == Tail(updates)
<1>1. /\ call.pc = "idle" /\ updates # <<>> /\ OnUpdateState(m, replies, upds)
      /\ lost' = (lost \/ last'.error)
      /\ UNCHANGED <<ring, client, sync, open, wire, deferred, fast, service>>
  BY DEF ReceiveUpdate
<1>2. /\ sync = FALSE /\ replies = <<>> /\ ~HasFast(wire) /\ ~HasFast(deferred)
  BY <1>1 DEF IInv, SyncOK
<1>3. updates \in Seq(UpdateMessage)
  BY DEF IInv, Types, UpdateMessage
<1>4. /\ m \in ToSet(updates) /\ upds \in Seq(UpdateMessage) /\ ToSet(upds) \subseteq ToSet(updates)
  BY <1>1, <1>3, TailList
<1> HIDE DEF m, upds
<1>5. Looks(m, upds)
  BY <1>1, <1>2, <1>4 DEF Looks
<1>6. QED
  BY <1>5, LooksInv

(* The reply for which the client waits. *)
LEMMA ReceiveReplyInv ==
  ASSUME IInv, ReceiveReply
  PROVE  IInv'
<1> DEFINE m == Head(replies)
<1>1. /\ replies # <<>> /\ OnUpdateState(m, <<>>, updates) /\ sync' = FALSE
      /\ lost' = (lost \/ last'.error)
      /\ UNCHANGED <<ring, client, open, wire, deferred, fast, service>>
  BY DEF ReceiveReply
<1>2. ~HasFast(wire) /\ ~HasFast(deferred)
  BY <1>1 DEF IInv, SyncOK
<1>3. updates \in Seq(UpdateMessage) /\ replies \in Seq(StateMessage)
  BY DEF IInv, Types, UpdateMessage
<1>4. m \in ToSet(replies) /\ m \in StateMessage
  BY <1>1, <1>3, TailList
<1> HIDE DEF m
<1>5. Looks(m, updates)
  BY <1>1, <1>2, <1>3, <1>4 DEF Looks
<1>6. QED
  BY <1>5, LooksInv

(* Requests for the state in a list without its first message. *)
LEMMA FastTail ==
  ASSUME NEW d \in Seq(ServiceMessage), d # <<>>, OneFast(d)
  PROVE  /\ OneFast(Tail(d)) /\ (HasFast(Tail(d)) => HasFast(d))
         /\ Head(d).kind = "fast" => HasFast(d) /\ ~HasFast(Tail(d))
         /\ Head(d).kind # "fast" /\ HasFast(d) => HasFast(Tail(d))
<1>1. /\ Len(d) \in Nat \ {0} /\ DOMAIN d = 1..Len(d) /\ Head(d) = d[1]
      /\ DOMAIN Tail(d) = 1..(Len(d) - 1)
      /\ \A i \in 1..(Len(d) - 1) : Tail(d)[i] = d[i + 1]
  OBVIOUS
<1>2. \A i \in DOMAIN Tail(d) :
         i \in Int /\ i + 1 \in DOMAIN d /\ Tail(d)[i] = d[i + 1] /\ i + 1 # 1
  BY <1>1
<1>3. OneFast(Tail(d))
  BY <1>2 DEF OneFast
<1>4. HasFast(Tail(d)) => HasFast(d)
  BY <1>2 DEF HasFast
<1>5. 1 \in DOMAIN d /\ Head(d) = d[1]
  BY <1>1
<1>6. Head(d).kind = "fast" => HasFast(d) /\ ~HasFast(Tail(d))
  BY <1>2, <1>5 DEF HasFast, OneFast
<1>7. ASSUME Head(d).kind # "fast", HasFast(d) PROVE HasFast(Tail(d))
  <2>1. PICK i \in DOMAIN d : d[i].kind = "fast"
    BY <1>7 DEF HasFast
  <2>2. i # 1
    BY <1>1, <1>7, <2>1
  <2>3. i - 1 \in DOMAIN Tail(d) /\ Tail(d)[i - 1] = d[i]
    BY <1>1, <2>2
  <2>4. QED
    BY <2>1, <2>3 DEF HasFast
<1>8. QED
  BY <1>3, <1>4, <1>6, <1>7

(* Requests for the state in a list with one message more. *)
LEMMA FastInsert ==
  ASSUME NEW d \in Seq(ServiceMessage), NEW k \in 1..(Len(d) + 1), NEW m \in ServiceMessage,
         OneFast(d), m.kind = "fast" => ~HasFast(d)
  PROVE  /\ OneFast(InsertAt(d, k, m))
         /\ HasFast(InsertAt(d, k, m)) <=> HasFast(d) \/ m.kind = "fast"
<1> DEFINE r == InsertAt(d, k, m)
<1>1. /\ Len(r) = Len(d) + 1 /\ r \in Seq(ServiceMessage)
      /\ \A i \in 1..(Len(d) + 1) :
            r[i] = IF i < k THEN d[i] ELSE IF i = k THEN m ELSE d[i - 1]
  <2>1. r \in Seq(ServiceMessage)
    BY InsertAtList
  <2>2. /\ Len(r) = Len(d) + 1
        /\ \A i \in 1..(Len(d) + 1) :
            r[i] = IF i < k THEN d[i] ELSE IF i = k THEN m ELSE d[i - 1]
    BY InsertAtCells
  <2>3. QED
    BY <2>1, <2>2
<1> HIDE DEF r
<1>2. DOMAIN r = 1..(Len(d) + 1) /\ DOMAIN d = 1..Len(d) /\ Len(d) \in Nat
  BY <1>1
<1> DEFINE From(i) == IF i < k THEN i ELSE i - 1
<1>3. \A i \in DOMAIN r : i # k => From(i) \in DOMAIN d /\ r[i] = d[From(i)]
  BY <1>1, <1>2
<1>4. \A i, j \in DOMAIN r : i # k /\ j # k /\ From(i) = From(j) => i = j
  BY <1>2
<1>5. r[k] = m
  BY <1>1
<1> HIDE DEF From
<1>6. HasFast(r) <=> HasFast(d) \/ m.kind = "fast"
  <2>1. HasFast(r) => HasFast(d) \/ m.kind = "fast"
    BY <1>3, <1>5 DEF HasFast
  <2>2. m.kind = "fast" => HasFast(r)
    BY <1>2, <1>5 DEF HasFast
  <2>3. ASSUME HasFast(d) PROVE HasFast(r)
    <3>1. PICK i \in DOMAIN d : d[i].kind = "fast"
      BY <2>3 DEF HasFast
    <3> DEFINE j == IF i < k THEN i ELSE i + 1
    <3>2. j \in DOMAIN r /\ r[j] = d[i]
      BY <1>1, <1>2
    <3>3. QED
      BY <3>1, <3>2 DEF HasFast
  <2>4. QED
    BY <2>1, <2>2, <2>3
<1>7. OneFast(r)
  BY <1>3, <1>4, <1>5 DEF HasFast, OneFast
<1>8. QED
  BY <1>6, <1>7 DEF r

(* A step of the service, or of a message on its way to it, that carries
   nothing out and tells of nothing but a loss. *)
LEMMA QuietStep ==
  ASSUME IInv, Types', SyncOK', States' = States,
         UNCHANGED <<ring, client, last, lost, generation>>,
         service'.get = service.get, service'.token = service.token,
         service.error = TRUE => service'.error = TRUE,
         service'.error = TRUE => service'.busy = FALSE,
         service'.busy = TRUE => service.get # service'.put,
         open' = open \/ service'.error = TRUE,
         Destroyed \in ToSet(updates') => Destroyed \in ToSet(updates) \/ service'.error = TRUE,
         lost = FALSE =>
           FlushesOK(ring, last.get, service.get, put, service'.put, deferred', wire')
  PROVE  IInv'
<1>1. Views' = Views
  BY DEF Views, ViewsOf
<1>2. Errors'
  <2>1. Errors
    BY DEF IInv
  <2>2. \A m \in States' : m.generation <= generation' /\ (m.error = TRUE => service'.error = TRUE)
    BY <2>1 DEF Errors
  <2>3. QED
    BY <2>1, <2>2 DEF Errors
<1>3. CallOK' /\ WritesToken' = WritesToken /\ Wrapping' = Wrapping /\ Written' = Written
  BY DEF IInv, CallOK, client, WritesToken, Wrapping, Written
<1>4. ASSUME lost = FALSE PROVE Core'
  BY <1>1, <1>3, <1>4 DEF IInv, Core, client
<1>5. QED
  BY <1>2, <1>3, <1>4 DEF IInv

(* A request for the state goes to a place in the queue. *)
LEMMA FastPositionIs ==
  ASSUME NEW d \in Seq(ServiceMessage)
  PROVE  FastPosition(d) \in 1..(Len(d) + 1)
<1>1. DOMAIN d = 1..Len(d) /\ Len(d) \in Nat
  OBVIOUS
<1>2. CASE fast /\ \E i \in DOMAIN d : d[i].kind # "fast"
  <2> DEFINE T == {i \in DOMAIN d : d[i].kind # "fast"}
             First(i) == d[i].kind # "fast" /\ \A j \in 1..(i - 1) : d[j].kind = "fast"
  <2>1. PICK x \in T : \A y \in T : x <= y
    <3>1. T \subseteq Nat /\ T # {}
      BY <1>1, <1>2
    <3>2. QED
      BY <3>1, LeastNumber
  <2>2. x \in DOMAIN d /\ First(x)
    BY <1>1, <2>1
  <2>3. (CHOOSE i \in DOMAIN d : First(i)) \in DOMAIN d
    BY <2>2
  <2>4. FastPosition(d) = 1 + CHOOSE i \in DOMAIN d : First(i)
    BY <1>2 DEF FastPosition
  <2> HIDE DEF First
  <2>5. QED
    BY <1>1, <2>3, <2>4
<1>3. CASE ~(fast /\ \E i \in DOMAIN d : d[i].kind # "fast")
  BY <1>1, <1>3 DEF FastPosition
<1>4. QED
  BY <1>2, <1>3

(* A message arrives. *)
LEMMA OnMessageReceivedInv ==
  ASSUME IInv, OnMessageReceived
  PROVE  IInv'
<1> DEFINE m == Head(wire)
           k == IF m.kind = "fast" THEN FastPosition(deferred) ELSE Len(deferred) + 1
           d2 == InsertAt(deferred, k, m)
<1>1. /\ wire # <<>> /\ wire' = Tail(wire) /\ deferred' = d2
      /\ UNCHANGED <<ring, client, last, lost, sync, open, fast, service, replies, updates,
                     generation>>
  BY DEF OnMessageReceived, InsertAt
<1>2. wire \in Seq(ServiceMessage) /\ deferred \in Seq(ServiceMessage) /\ Len(deferred) \in Nat
  BY DEF IInv, Types
<1>3. m \in ServiceMessage /\ Tail(wire) \in Seq(ServiceMessage)
  BY <1>1, <1>2, TailList
<1>4. k \in 1..(Len(deferred) + 1) /\ (m.kind # "fast" => k = Len(deferred) + 1)
  BY <1>2, FastPositionIs
<1> HIDE DEF k
<1>5. d2 \in Seq(ServiceMessage)
  BY <1>2, <1>3, <1>4, InsertAtList
<1>6. Types'
  BY <1>1, <1>3, <1>5 DEF IInv, Types, client
<1>7. SyncOK'
  <2>1. OneFast(wire) /\ OneFast(deferred) /\ (HasFast(deferred) => ~HasFast(wire))
    BY DEF IInv, SyncOK
  <2>2. /\ OneFast(Tail(wire)) /\ (HasFast(Tail(wire)) => HasFast(wire))
        /\ m.kind = "fast" => HasFast(wire) /\ ~HasFast(Tail(wire))
        /\ m.kind # "fast" /\ HasFast(wire) => HasFast(Tail(wire))
    BY <1>1, <1>2, <2>1, FastTail
  <2>3. /\ OneFast(d2) /\ (HasFast(d2) <=> HasFast(deferred) \/ m.kind = "fast")
    BY <1>2, <1>3, <1>4, <2>1, <2>2, FastInsert
  <2> HIDE DEF m, d2
  <2>4. QED
    BY <1>1, <2>1, <2>2, <2>3 DEF IInv, SyncOK, client
<1>8. ASSUME lost = FALSE
      PROVE  FlushesOK(ring, last.get, service.get, put, service.put, deferred', wire')
  BY <1>1, <1>2, <1>4, <1>8, CoreIs, FlushDelivered
<1>9. /\ service.busy = TRUE => service.get # service.put
      /\ service.error = TRUE => service.busy = FALSE
  BY DEF IInv, Types, Errors, Core
<1>10. States' = States
  BY <1>1 DEF States
<1>11. QED
  BY <1>1, <1>6, <1>7, <1>8, <1>9, <1>10, QuietStep

(* The message that tells of a loss is no state. *)
LEMMA LossTold ==
  ASSUME IInv
  PROVE  /\ Append(updates, Destroyed) \in Seq(UpdateMessage)
         /\ \A reps : StatesIn(reps, Append(updates, Destroyed)) = StatesIn(reps, updates)
<1> DEFINE u == Append(updates, Destroyed)
<1>1. updates \in Seq(UpdateMessage)
  BY DEF IInv, Types, UpdateMessage
<1>2. Destroyed \in UpdateMessage /\ Destroyed.kind # "state"
  BY DEF UpdateMessage, Destroyed
<1>3. u \in Seq(UpdateMessage) /\ ToSet(u) = ToSet(updates) \cup {Destroyed}
  BY <1>1, <1>2, AppendList
<1> HIDE DEF u
<1>4. ASSUME NEW reps PROVE StatesIn(reps, u) = StatesIn(reps, updates)
  BY <1>2, <1>3 DEF StatesIn
<1>5. QED
  BY <1>3, <1>4 DEF u

(* The first error is announced, and no state. *)
LEMMA AnnouncedIs ==
  ASSUME IInv, NEW error \in BOOLEAN, service.error = TRUE => error = TRUE,
         NEW u, u = updates \o (IF error /\ ~service.error THEN <<Destroyed>> ELSE <<>>)
  PROVE  /\ u \in Seq(UpdateMessage)
         /\ Destroyed \in ToSet(u) => error = TRUE
         /\ \A reps : StatesIn(reps, u) = StatesIn(reps, updates)
<1>1. /\ updates \in Seq(UpdateMessage) /\ service.error \in BOOLEAN
      /\ Destroyed \in ToSet(updates) => service.error = TRUE
  BY DEF IInv, Types, UpdateMessage, Errors
<1>2. CASE error = TRUE /\ service.error = FALSE
  <2>1. u = updates \o <<Destroyed>>
    BY <1>2
  <2>2. Destroyed \in UpdateMessage
    BY DEF UpdateMessage
  <2>3. u = Append(updates, Destroyed)
    BY <1>1, <2>1, <2>2, InsertAtEnd
  <2>4. QED
    BY <1>2, <2>3, LossTold
<1>3. CASE ~(error = TRUE /\ service.error = FALSE)
  <2>1. u = updates \o <<>>
    BY <1>1, <1>3
  <2>2. u = updates
    BY <1>1, <2>1, ConcatEmptySeq
  <2>3. QED
    BY <1>1, <2>2
<1>4. QED
  BY <1>1, <1>2, <1>3

(* The service may go on. *)
LEMMA SetScheduledInv ==
  ASSUME IInv, SetScheduled
  PROVE  IInv'
<1>1. /\ service' = [service EXCEPT !.scheduled = TRUE]
      /\ UNCHANGED <<ring, client, last, lost, sync, open, wire, deferred, fast, replies,
                     updates, generation>>
  BY DEF SetScheduled
<1>2. Types'
  BY <1>1 DEF IInv, Types, client
<1>3. SyncOK'
  BY <1>1 DEF IInv, SyncOK, client
<1>4. /\ service'.get = service.get /\ service'.token = service.token
      /\ service'.error = service.error /\ service'.put = service.put
      /\ service'.busy = service.busy
  BY <1>1 DEF IInv, Types
<1>5. /\ service.busy = TRUE => service.get # service.put
      /\ service.error = TRUE => service.busy = FALSE
  BY DEF IInv, Types, Errors, Core
<1>6. States' = States
  BY <1>1 DEF States
<1>7. QED
  BY <1>1, <1>2, <1>3, <1>4, <1>5, <1>6, CoreIs, QuietStep

(* The channel is closed: whatever was on its way to the service is gone. *)
LEMMA CloseChannelInv ==
  ASSUME IInv, CloseChannel
  PROVE  IInv'
<1>1. /\ open' = FALSE /\ wire' = <<>> /\ deferred' = <<>> /\ fast' = FALSE
      /\ service' = [service EXCEPT !.error = TRUE, !.busy = FALSE, !.scheduled = TRUE]
      /\ updates' = Append(updates, Destroyed)
      /\ UNCHANGED <<ring, client, last, lost, sync, replies, generation>>
  BY DEF CloseChannel
<1>2. service \in [get : Offsets, put : Nat, token : TokenValues, error : BOOLEAN,
                   busy : BOOLEAN, scheduled : BOOLEAN]
  BY DEF IInv, Types
<1>3. /\ service'.get = service.get /\ service'.token = service.token
      /\ service'.error = TRUE /\ service'.put = service.put /\ service'.busy = FALSE
      /\ service' \in [get : Offsets, put : Nat, token : TokenValues, error : BOOLEAN,
                       busy : BOOLEAN, scheduled : BOOLEAN]
  BY <1>1, <1>2
<1>4. updates' \in Seq(UpdateMessage) /\ States' = States
  BY <1>1, LossTold DEF States
<1>5. Types'
  <2>1. <<>> \in Seq(ServiceMessage)
    OBVIOUS
  <2>2. QED
    BY <1>1, <1>3, <1>4, <2>1 DEF IInv, Types, client, UpdateMessage
<1>6. SyncOK'
  <2>1. \A i : i \notin DOMAIN <<>>
    OBVIOUS
  <2>2. ~HasFast(<<>>) /\ OneFast(<<>>)
    BY <2>1 DEF HasFast, OneFast
  <2>3. QED
    BY <1>1, <1>3, <2>2 DEF IInv, SyncOK, client
<1>7. ASSUME lost = FALSE
      PROVE  FlushesOK(ring, last.get, service.get, put, service.put, <<>>, <<>>)
  <2>1. Flushes(<<>>) = {} /\ FlushesInOrder(last.get, <<>>)
    BY EmptyList DEF Flushes, FlushesInOrder
  <2>2. QED
    BY <1>7, <2>1, CoreIs DEF FlushesOK
<1>8. QED
  BY <1>1, <1>3, <1>4, <1>5, <1>6, <1>7, QuietStep

(* The context cannot be made current: a message is dropped unseen. *)
LEMMA MakeCurrentFailsInv ==
  ASSUME IInv, MakeCurrentFails
  PROVE  IInv'
<1>1. /\ deferred # <<>> /\ service.busy = FALSE /\ deferred' = Tail(deferred)
      /\ fast' \in BOOLEAN /\ service' = [service EXCEPT !.error = TRUE]
      /\ updates' = updates \o (IF service'.error /\ ~service.error THEN <<Destroyed>> ELSE <<>>)
      /\ UNCHANGED <<ring, client, last, lost, sync, open, wire, replies, generation>>
  BY DEF MakeCurrentFails, Announced, IInv, Types
<1>2. service \in [get : Offsets, put : Nat, token : TokenValues, error : BOOLEAN,
                   busy : BOOLEAN, scheduled : BOOLEAN]
  BY DEF IInv, Types
<1>3. /\ service'.get = service.get /\ service'.token = service.token
      /\ service'.error = TRUE /\ service'.put = service.put /\ service'.busy = FALSE
      /\ service' \in [get : Offsets, put : Nat, token : TokenValues, error : BOOLEAN,
                       busy : BOOLEAN, scheduled : BOOLEAN]
  BY <1>1, <1>2
<1>4. updates' \in Seq(UpdateMessage) /\ States' = States
  BY <1>1, AnnouncedIs DEF States
<1>5. /\ deferred' \in Seq(ServiceMessage) /\ OneFast(deferred')
      /\ HasFast(deferred') => HasFast(deferred)
  BY <1>1, TailList, FastTail DEF IInv, Types, SyncOK
<1>6. Types'
  BY <1>1, <1>3, <1>4, <1>5 DEF IInv, Types, client, UpdateMessage
<1>7. SyncOK'
  BY <1>1, <1>3, <1>5 DEF IInv, SyncOK, client
<1>8. ASSUME lost = FALSE
      PROVE  FlushesOK(ring, last.get, service.get, put, service.put, deferred', wire)
  <2>1. /\ FlushesOK(ring, last.get, service.get, put, service.put, deferred, wire)
        /\ deferred \in Seq(ServiceMessage)
    BY <1>8, CoreIs
  <2>2. /\ FlushesInOrder(last.get, deferred')
        /\ Flushes(deferred') \subseteq Flushes(deferred)
    BY <1>1, <2>1, FlushesTail DEF FlushesOK
  <2>3. QED
    BY <2>1, <2>2 DEF FlushesOK
<1>9. QED
  BY <1>1, <1>3, <1>4, <1>6, <1>7, <1>8, QuietStep

(* The messages of a report. *)
LEMMA Reported ==
  ASSUME IInv, NEW s, Report(s), s.get \in Offsets, s.token \in TokenValues, s.error \in BOOLEAN,
         service.error = TRUE => s.error = TRUE
  PROVE  /\ generation' = generation + 1
         /\ updates' \in Seq(UpdateMessage)
         /\ Destroyed \in ToSet(updates') => s.error = TRUE
         /\ \A reps : StatesIn(reps, updates')
                        = StatesIn(reps, updates) \cup {State(s, generation + 1)}
<1> DEFINE x == State(s, generation + 1)
           u1 == updates \o (IF s.error /\ ~service.error THEN <<Destroyed>> ELSE <<>>)
           u2 == Append(u1, x)
<1>1. generation \in Nat
  BY DEF IInv, Types
<1>2. generation' = generation + 1 /\ updates' = u2
  BY DEF Report, Announced
<1>3. /\ x \in StateMessage /\ x.kind = "state" /\ x.generation >= 0
  BY <1>1 DEF State, StateMessage
<1>4. x \in UpdateMessage /\ x # Destroyed
  BY <1>3 DEF UpdateMessage, Destroyed
<1> HIDE DEF x
<1>5. /\ u1 \in Seq(UpdateMessage)
      /\ Destroyed \in ToSet(u1) => s.error = TRUE
      /\ \A reps : StatesIn(reps, u1) = StatesIn(reps, updates)
  BY AnnouncedIs
<1> HIDE DEF u1
<1>6. u2 \in Seq(UpdateMessage) /\ ToSet(u2) = ToSet(u1) \cup {x}
  BY <1>4, <1>5, AppendList
<1> HIDE DEF u2
<1>7. ASSUME NEW reps PROVE StatesIn(reps, u2) = StatesIn(reps, updates) \cup {x}
  <2>1. StatesIn(reps, u2) = StatesIn(reps, u1) \cup {x}
    BY <1>3, <1>6 DEF StatesIn
  <2>2. QED
    BY <1>5, <2>1
<1>8. QED
  BY <1>2, <1>4, <1>5, <1>6, <1>7 DEF x

(* The views of a client before the service reports, and after. *)
LaterViews == ViewsOf(last, service', generation, States)

ReportedViews == LaterViews \cup {View(service'.get, service'.token, generation + 2)}

(* If the views before the report are those of a reader that only gets further,
   so are the views after it. *)
LEMMA ViewsGrown ==
  ASSUME IInv, lost = FALSE, service'.get \in Offsets, service'.token \in TokenValues
  PROVE  /\ ViewsOK(LaterViews, last.get) => ViewsOK(ReportedViews, last.get)
         /\ TokensRise(LaterViews) => TokensRise(ReportedViews)
<1> DEFINE V == LaterViews
           v == View(service'.get, service'.token, generation + 1)
           w == View(service'.get, service'.token, generation + 2)
           n == generation + 1
<1>1. /\ generation \in Nat
      /\ \A m \in States : m.generation \in Nat /\ m.generation <= generation
      /\ last.get \in Offsets
  BY ViewBounds, CoreIs DEF IInv
<1>2. v \in V
  BY DEF LaterViews, ViewsOf
<1>3. v.at = n /\ v.get \in Offsets /\ v.token \in Int /\ w = View(v.get, v.token, n + 1)
  BY <1>1 DEF View, TokenValues
<1>4. \A u \in V : u.at \in Int /\ u.at <= n
  BY <1>1 DEF LaterViews, ViewsOf, View
<1>5. n \in Int
  BY <1>1
<1>6. ReportedViews = V \cup {w}
  BY DEF ReportedViews
<1> HIDE DEF V, v, w, n
<1>7. /\ ViewsOK(V, last.get) => ViewsOK(V \cup {w}, last.get)
      /\ TokensRise(V) => TokensRise(V \cup {w})
  BY <1>1, <1>2, <1>3, <1>4, <1>5, ViewsReported
<1>8. QED
  BY <1>6, <1>7 DEF V

(* What holds of the ring when the service has made its step. *)
ServiceCore ==
    /\ RingOK(ring', last.get, service'.get, put)
    /\ ViewsOK(LaterViews, last.get)
    /\ FlushesOK(ring', last.get, service'.get, put, service'.put, deferred', wire)
    /\ service'.busy = TRUE => service'.get # service'.put
    /\ ~WritesToken => NewestToken(ring', last.get, service'.token, token)
    /\ FreeUnread(ring', blocks)
    /\ ~Wrapping => /\ TokensRise(LaterViews)
                    /\ TokensInOrder(ring', last.get, service'.token, Written)
                    /\ PendingFenced(ring', last.get, blocks)

(* A step of the service that reports nothing. *)
LEMMA ServiceSilent ==
  ASSUME IInv, Types', SyncOK', UNCHANGED <<client, last, lost, open, wire, replies, updates,
                                            generation>>,
         service.error = FALSE, service'.error = FALSE, ServiceCore
  PROVE  IInv'
<1>1. States' = States /\ lost = FALSE /\ last.error # TRUE
  BY DEF States, IInv, Types, Errors
<1>2. Views' = LaterViews
  BY <1>1 DEF Views, LaterViews, ViewsOf
<1>3. Errors'
  BY <1>1 DEF IInv, Types, Errors
<1>4. CallOK' /\ WritesToken' = WritesToken /\ Wrapping' = Wrapping /\ Written' = Written
  BY DEF IInv, CallOK, client, WritesToken, Wrapping, Written
<1>5. Core'
  <2>1. put # Usable
    BY <1>1 DEF IInv, Core
  <2>2. QED
    BY <1>2, <1>4, <2>1 DEF Core, ServiceCore, client
<1>6. QED
  BY <1>3, <1>4, <1>5 DEF IInv

(* A step of the service that tells of the state s, on its own or in a reply. *)
LEMMA ServiceTells ==
  ASSUME IInv, Types', SyncOK', UNCHANGED <<client, last, lost, open, wire>>,
         NEW s, s.get = service'.get, s.token = service'.token, s.error = service'.error,
         generation' = generation + 1, States' = States \cup {State(s, generation + 1)},
         Destroyed \in ToSet(updates') => s.error = TRUE,
         service.error = TRUE => s.error = TRUE,
         service'.error = TRUE => service'.busy = FALSE,
         lost = FALSE => ServiceCore
  PROVE  IInv'
<1> DEFINE x == State(s, generation + 1)
<1>1. /\ x.kind = "state" /\ x.get = s.get /\ x.token = s.token /\ x.error = s.error
      /\ x.generation = generation + 1
  BY DEF State
<1>2. /\ generation \in Nat
      /\ \A m \in States : m.generation \in Nat /\ m.generation <= generation
  BY ViewBounds DEF IInv
<1>3. Errors'
  <2>1. Errors
    BY DEF IInv
  <2>2. States' = States \cup {x} /\ generation' = generation + 1
    OBVIOUS
  <2> HIDE DEF x
  <2>3. \A m \in States' : m.generation <= generation' /\ (m.error = TRUE => service'.error = TRUE)
    BY <1>1, <1>2, <2>1, <2>2 DEF Errors
  <2>4. QED
    BY <2>1, <2>3 DEF Errors
<1>4. CallOK' /\ WritesToken' = WritesToken /\ Wrapping' = Wrapping /\ Written' = Written
  BY DEF IInv, CallOK, client, WritesToken, Wrapping, Written
<1>5. Views' = ReportedViews
  <2>1. View(x.get, x.token, x.generation) = View(service'.get, service'.token, generation + 1)
    BY <1>1
  <2>2. generation' + 1 = generation + 2
    BY <1>2
  <2>3. States' = States \cup {x} /\ last' = last
    OBVIOUS
  <2> HIDE DEF x
  <2>4. {View(m.get, m.token, m.generation) : m \in States'}
          = {View(m.get, m.token, m.generation) : m \in States}
              \cup {View(service'.get, service'.token, generation + 1)}
    BY <2>1, <2>3
  <2>5. QED
    BY <2>2, <2>3, <2>4 DEF Views, ReportedViews, LaterViews, ViewsOf
<1>6. ASSUME lost = FALSE PROVE Core'
  <2>1. put # Usable /\ ServiceCore
    BY <1>6 DEF IInv, Core
  <2>2. service'.get \in Offsets /\ service'.token \in TokenValues
    BY DEF Types
  <2>3. /\ ViewsOK(LaterViews, last.get) => ViewsOK(Views', last.get)
        /\ TokensRise(LaterViews) => TokensRise(Views')
    BY <1>5, <1>6, <2>2, ViewsGrown
  <2>4. QED
    BY <1>4, <2>1, <2>3 DEF Core, ServiceCore, client
<1>7. QED
  BY <1>3, <1>4, <1>6 DEF IInv

(* What the service takes from the queue. *)
LEMMA HandledMessage ==
  ASSUME IInv, HandleMessage
  PROVE  /\ deferred # <<>> /\ service.busy = FALSE /\ deferred' = Tail(deferred)
         /\ Tail(deferred) \in Seq(ServiceMessage) /\ Head(deferred) \in ServiceMessage
         /\ fast' \in BOOLEAN /\ UNCHANGED <<ring, client, last, lost, sync, open, wire>>
         /\ OneFast(deferred') /\ (HasFast(deferred') => HasFast(deferred))
         /\ Head(deferred).kind = "fast" =>
              HasFast(deferred) /\ ~HasFast(deferred') /\ ~HasFast(wire) /\ replies = <<>>
         /\ Head(deferred).kind # "fast" /\ HasFast(deferred) => HasFast(deferred')
<1>1. /\ deferred # <<>> /\ service.busy = FALSE /\ deferred' = Tail(deferred)
      /\ fast' = (Head(deferred).kind = "fast") /\ UNCHANGED <<ring, client, last, lost, sync,
                                                               open, wire>>
  BY DEF HandleMessage, IInv, Types
<1>2. deferred \in Seq(ServiceMessage) /\ OneFast(deferred)
  BY DEF IInv, Types, SyncOK
<1>3. Tail(deferred) \in Seq(ServiceMessage) /\ Head(deferred) \in ServiceMessage
  BY <1>1, <1>2, TailList
<1>4. /\ OneFast(deferred') /\ (HasFast(deferred') => HasFast(deferred))
      /\ Head(deferred).kind = "fast" => HasFast(deferred) /\ ~HasFast(deferred')
      /\ Head(deferred).kind # "fast" /\ HasFast(deferred) => HasFast(deferred')
  BY <1>1, <1>2, FastTail
<1>5. HasFast(deferred) => replies = <<>> /\ ~HasFast(wire)
  BY DEF IInv, SyncOK
<1>6. QED
  BY <1>1, <1>3, <1>4, <1>5

(* A request for the state is answered. *)
LEMMA HandleFastInv ==
  ASSUME IInv, HandleMessage, Head(deferred).kind = "fast"
  PROVE  IInv'
<1> DEFINE x == State(service, generation + 1)
<1>1. /\ generation' = generation + 1 /\ replies' = <<x>>
      /\ UNCHANGED <<service, updates>>
  BY DEF HandleMessage
<1>2. /\ deferred # <<>> /\ deferred' = Tail(deferred) /\ service.busy = FALSE
      /\ deferred' \in Seq(ServiceMessage) /\ fast' \in BOOLEAN
      /\ UNCHANGED <<ring, client, last, lost, sync, open, wire>>
      /\ OneFast(deferred') /\ ~HasFast(deferred') /\ ~HasFast(wire) /\ replies = <<>>
      /\ HasFast(deferred)
  BY HandledMessage
<1>3. generation \in Nat /\ service.get \in Offsets /\ service.token \in TokenValues
      /\ service.error \in BOOLEAN
  BY DEF IInv, Types
<1>4. x \in StateMessage /\ x.kind = "state" /\ x.generation >= 0
  BY <1>3 DEF State, StateMessage
<1>5. States' = States \cup {x}
  <2>1. ToSet(<<x>>) = {x}
    BY DEF ToSet
  <2> HIDE DEF x
  <2>2. QED
    BY <1>1, <1>2, <1>4, <2>1, EmptyList DEF States, StatesIn
<1> HIDE DEF x
<1>6. Types'
  <2>1. replies' \in Seq(StateMessage) /\ Len(replies') <= 1 /\ generation' \in Nat
    BY <1>1, <1>3, <1>4
  <2>2. UNCHANGED <<ring, put, sent, token, last, lost, call, sync, open, blocks, wire, service,
                    updates>>
    BY <1>1, <1>2 DEF client
  <2>3. QED
    BY <1>2, <2>1, <2>2 DEF IInv, Types
<1>7. SyncOK'
  <2>1. sync # FALSE /\ OneFast(wire) /\ call.pc # "idle"
    BY <1>2 DEF IInv, SyncOK
  <2>2. QED
    BY <1>1, <1>2, <2>1 DEF SyncOK, client
<1>8. Destroyed \in ToSet(updates') => service.error = TRUE
  BY <1>1 DEF IInv, Errors
<1>9. ASSUME lost = FALSE PROVE ServiceCore
  <2>1. Core
    BY <1>9 DEF IInv
  <2>2. LaterViews = Views
    BY <1>1 DEF LaterViews, Views
  <2>3. FlushesOK(ring, last.get, service.get, put, service.put, Tail(deferred), wire)
    <3>1. deferred \in Seq(ServiceMessage) /\ ~(Head(deferred).kind = "flush")
      BY DEF IInv, Types
    <3>2. QED
      BY <1>2, <1>9, <3>1, CoreIs, FlushHandled
  <2>4. QED
    BY <1>1, <1>2, <2>1, <2>2, <2>3 DEF Core, ServiceCore
<1>10. QED
  BY <1>1, <1>2, <1>5, <1>6, <1>7, <1>8, <1>9, ServiceTells DEF x

(* Any other message makes the service look at its put. *)
LEMMA HandleFlushInv ==
  ASSUME IInv, HandleMessage, Head(deferred).kind # "fast"
  PROVE  IInv'
<1> DEFINE m == Head(deferred)
           stop == IF m.kind = "flush" THEN m.put ELSE service.put
           s == [service EXCEPT !.put = IF m.kind = "flush" THEN m.put ELSE @]
           work == s.get # s.put /\ ~s.error
<1>1. /\ service' = [s EXCEPT !.busy = work]
      /\ IF work THEN UNCHANGED <<updates, generation>> ELSE Report(s)
      /\ replies' = replies
  BY DEF HandleMessage
<1>2. /\ deferred # <<>> /\ deferred' = Tail(deferred) /\ service.busy = FALSE
      /\ deferred' \in Seq(ServiceMessage) /\ m \in ServiceMessage /\ fast' \in BOOLEAN
      /\ UNCHANGED <<ring, client, last, lost, sync, open, wire>>
      /\ OneFast(deferred') /\ (HasFast(deferred') <=> HasFast(deferred))
  BY HandledMessage
<1>3. service \in [get : Offsets, put : Nat, token : TokenValues, error : BOOLEAN,
                   busy : BOOLEAN, scheduled : BOOLEAN]
  BY DEF IInv, Types
<1>4. stop \in Nat
  BY <1>2, <1>3 DEF ServiceMessage
<1>5. /\ s \in [get : Offsets, put : Nat, token : TokenValues, error : BOOLEAN,
                busy : BOOLEAN, scheduled : BOOLEAN]
      /\ s.get = service.get /\ s.token = service.token /\ s.error = service.error
      /\ s.put = stop
  BY <1>3, <1>4
<1>6. work \in BOOLEAN /\ (work <=> s.get # s.put /\ s.error = FALSE)
  BY <1>5
<1> HIDE DEF s, stop, work, m
<1>7. /\ service' \in [get : Offsets, put : Nat, token : TokenValues, error : BOOLEAN,
                       busy : BOOLEAN, scheduled : BOOLEAN]
      /\ service'.get = s.get /\ service'.token = s.token /\ service'.error = s.error
      /\ service'.put = stop /\ service'.busy = work
  BY <1>1, <1>5, <1>6
<1>8. SyncOK'
  BY <1>1, <1>2, <1>5, <1>7 DEF IInv, SyncOK, client
<1>9. updates \in Seq(UpdateMessage) /\ generation \in Nat
  BY DEF IInv, Types, UpdateMessage
<1>10. ASSUME lost = FALSE
       PROVE  FlushesOK(ring, last.get, service.get, put, service'.put, deferred', wire)
  <2>1. deferred \in Seq(ServiceMessage)
    BY DEF IInv, Types
  <2>2. FlushesOK(ring, last.get, service.get, put, stop, Tail(deferred), wire)
    BY <1>2, <1>10, <2>1, CoreIs, FlushHandled DEF stop, m
  <2>3. QED
    BY <1>2, <1>7, <2>2
<1>11. CASE work
  <2>1. UNCHANGED <<updates, generation>>
    BY <1>1, <1>11
  <2>2. Types'
    BY <1>1, <1>2, <1>7, <2>1 DEF IInv, Types, client
  <2>3. service.error = FALSE /\ service.get # service'.put
    BY <1>5, <1>6, <1>7, <1>11
  <2>4. States' = States
    BY <1>1, <2>1 DEF States
  <2>5. QED
    BY <1>1, <1>2, <1>5, <1>7, <1>8, <1>10, <2>1, <2>2, <2>3, <2>4, QuietStep
<1>12. CASE ~work
  <2>1. Report(s)
    BY <1>1, <1>12
  <2>2. /\ generation' = generation + 1
        /\ updates' \in Seq(UpdateMessage)
        /\ Destroyed \in ToSet(updates') => s.error = TRUE
        /\ \A reps : StatesIn(reps, updates')
                       = StatesIn(reps, updates) \cup {State(s, generation + 1)}
    BY <1>5, <2>1, Reported
  <2>3. States' = States \cup {State(s, generation + 1)}
    BY <1>1, <2>2 DEF States
  <2>4. Types'
    <3>1. updates' \in Seq(StateMessage \cup {Destroyed}) /\ generation' \in Nat
      BY <1>9, <2>2 DEF UpdateMessage
    <3>2. QED
      BY <1>1, <1>2, <1>7, <3>1 DEF IInv, Types, client
  <2>5. ASSUME lost = FALSE PROVE ServiceCore
    <3>1. Core
      BY <2>5 DEF IInv
    <3>2. LaterViews = Views
      BY <1>5, <1>7 DEF LaterViews, Views, ViewsOf
    <3>3. service'.busy # TRUE
      BY <1>7, <1>12
    <3>4. QED
      BY <1>2, <1>5, <1>7, <1>10, <2>5, <3>1, <3>2, <3>3 DEF Core, ServiceCore
  <2>6. service'.error = TRUE => service'.busy = FALSE
    BY <1>6, <1>7, <1>12
  <2>7. QED
    BY <1>2, <1>5, <1>7, <1>8, <2>2, <2>3, <2>4, <2>5, <2>6, ServiceTells
<1>13. QED
  BY <1>11, <1>12

(* The service handles a message. *)
LEMMA HandleMessageInv ==
  ASSUME IInv, HandleMessage
  PROVE  IInv'
BY HandleFastInv, HandleFlushInv

(* The service at the command it is about to carry out. *)
LEMMA BusyIs ==
  ASSUME IInv, service.busy = TRUE
  PROVE  /\ service.error = FALSE /\ lost = FALSE /\ Core
         /\ service.get # service.put /\ service.get # put
         /\ HeadAt(ring, service.get) /\ Intact(ring, service.get)
         /\ ring[service.get].cmd \in Commands \cup {Jump}
         /\ service.get \in Offsets
<1>1. service.error = FALSE /\ lost = FALSE
  BY DEF IInv, Types, Errors
<1>2. Core /\ service.get # service.put /\ service.get \in Offsets
  BY <1>1, CoreIs DEF Core
<1>3. service.get # put
  BY <1>1, <1>2, CoreIs, FlushRead
<1>4. HeadAt(ring, service.get) /\ Intact(ring, service.get)
  BY <1>1, <1>3, CoreIs, RingRead
<1>5. ring[service.get].cmd \in Commands \cup {Jump}
  BY <1>1, <1>2, <1>4, CoreIs, HeadIs
<1>6. QED
  BY <1>1, <1>2, <1>3, <1>4, <1>5

(* What carrying out a command does to the ring and to the service. *)
LEMMA CarriedOut ==
  ASSUME IInv, NEW fails \in BOOLEAN, NEW unschedules \in BOOLEAN,
         ProcessCommand(fails, unschedules)
  PROVE  LET c == ring[service.get].cmd
             s == [service EXCEPT
                    !.get   = After(service.get, c),
                    !.token = IF c.op = "token" THEN c.arg ELSE service.token,
                    !.error = fails,
                    !.scheduled = ~unschedules]
             done == s.error \/ unschedules \/ s.get = s.put
         IN  /\ service.busy = TRUE
             /\ ring' = Erase(ring, service.get, c)
             /\ service' = [s EXCEPT !.busy = ~done]
             /\ IF done THEN Report(s) ELSE UNCHANGED <<updates, generation>>
             /\ deferred' = IF unschedules THEN <<Rescheduled>> \o deferred ELSE deferred
             /\ UNCHANGED <<client, last, lost, sync, open, wire, fast, replies>>
<1>1. service.busy = TRUE
  BY DEF ProcessCommand, IInv, Types
<1>2. Intact(ring, service.get)
  BY <1>1, BusyIs
<1>3. (fails \/ ~Intact(ring, service.get)) = fails
  BY <1>2
<1>4. QED
  BY <1>1, <1>2, <1>3 DEF ProcessCommand, Erase

(* The ring and the views behind the command. *)
LEMMA AdvanceCore ==
  ASSUME IInv, service.busy = TRUE,
         ring' = Erase(ring, service.get, ring[service.get].cmd),
         service'.get = After(service.get, ring[service.get].cmd),
         service'.token = IF ring[service.get].cmd.op = "token" THEN ring[service.get].cmd.arg
                          ELSE service.token,
         service'.put = service.put,
         service'.busy = TRUE => service'.get # service'.put,
         deferred' = deferred \/ deferred' = <<Rescheduled>> \o deferred
  PROVE  ServiceCore /\ service'.get \in Offsets /\ service'.token \in TokenValues
<1> DEFINE c == ring[service.get].cmd
           s2 == After(service.get, c)
           t == service.token
           t2 == IF c.op = "token" THEN c.arg ELSE service.token
           g == last.get
           r2 == Erase(ring, service.get, c)
<1>1. /\ lost = FALSE /\ Core /\ service.get # service.put /\ service.get # put
      /\ c \in Commands \cup {Jump} /\ service.get \in Offsets
  BY BusyIs
<1>2. /\ RingOK(ring, g, service.get, put) /\ deferred \in Seq(ServiceMessage)
      /\ FlushesOK(ring, g, service.get, put, service.put, deferred, wire)
  BY <1>1, CoreIs
<1>3. service.token \in TokenValues
  BY DEF IInv, Types
<1>4. t2 \in TokenValues
  BY <1>1, <1>3, CommandIs, JumpIs
<1>5. RingOK(r2, g, s2, put) /\ Dist(g, service.get) < Dist(g, s2)
  BY <1>1, <1>2, RingRead
<1>6. s2 \in 0..Usable /\ s2 \in Offsets /\ g \in Offsets
  BY <1>5, TotalIs DEF RingOK, Offsets
<1>7. FlushesOK(r2, g, s2, put, service.put, deferred, wire)
  BY <1>1, <1>2, FlushRead
<1>8. FlushesOK(r2, g, s2, put, service.put, deferred', wire)
  BY <1>2, <1>7, FlushLeft
<1>9. ASSUME NEW u
      PROVE  /\ NewestToken(ring, g, t, u) => NewestToken(r2, g, t2, u)
             /\ TokensInOrder(ring, g, t, u) => TokensInOrder(r2, g, t2, u)
             /\ TokensInOrder(ring, g, t, u) => (t2 = t \/ t < t2)
             /\ FreeUnread(ring, blocks) => FreeUnread(r2, blocks)
             /\ PendingFenced(ring, g, blocks) => PendingFenced(r2, g, blocks)
  BY <1>1, <1>2, OrderRead, ZenonT(60)
<1> HIDE DEF c, s2, t2, r2
<1>10. /\ ViewsOK(LaterViews, g)
       /\ TokensRise(Views) /\ t <= t2 => TokensRise(LaterViews)
  <2> DEFINE n == generation + 1
             v == View(service.get, service.token, n)
             w == View(s2, t2, n)
             U == {View(last.get, last.token, -1)}
                    \cup {View(m.get, m.token, m.generation) : m \in States}
             V == Views
  <2>1. /\ generation \in Nat
        /\ \A m \in States : m.generation \in Nat /\ m.generation <= generation
        /\ \A u \in V : u.token \in TokenValues
    BY ViewBounds DEF IInv
  <2>2. v \in V /\ v.at = n /\ v.get = service.get /\ v.token = t /\ n \in Int
    BY <2>1 DEF Views, ViewsOf, View
  <2>3. U \subseteq V
    BY DEF Views, ViewsOf
  <2>4. \A u \in U : u.at \in Int /\ u.at < n
    BY <2>1 DEF View
  <2>5. w.get = s2 /\ w.token = t2 /\ w = View(w.get, w.token, n)
    BY DEF View
  <2>6. LaterViews = U \cup {w}
    BY DEF LaterViews, ViewsOf, c, s2, t2
  <2>7. ViewsOK(V, g)
    BY <1>1 DEF Core
  <2> HIDE DEF n, v, w, U, V
  <2>8. w.get \in 0..Usable /\ Dist(g, v.get) < Dist(g, w.get)
    BY <1>5, <1>6, <2>2, <2>5
  <2>9. /\ ViewsOK(U \cup {w}, g)
        /\ (/\ TokensRise(V) /\ v.token <= w.token /\ w.token \in TokenValues
            /\ \A u \in V : u.token \in TokenValues) => TokensRise(U \cup {w})
    BY <1>6, <2>2, <2>3, <2>4, <2>5, <2>7, <2>8, ViewsAdvanced
  <2>10. QED
    BY <1>4, <2>1, <2>2, <2>5, <2>6, <2>9 DEF V
<1>11. ring' = r2 /\ service'.get = s2 /\ service'.token = t2
  BY DEF c, s2, t2, r2
<1>12. ASSUME ~Wrapping
       PROVE  /\ TokensRise(LaterViews)
              /\ TokensInOrder(r2, g, t2, Written) /\ PendingFenced(r2, g, blocks)
  <2>1. TokensRise(Views) /\ TokensInOrder(ring, g, t, Written) /\ PendingFenced(ring, g, blocks)
    BY <1>1, <1>12 DEF Core
  <2>2. t <= t2
    <3>1. t2 = t \/ t < t2
      BY <1>9, <2>1
    <3>2. QED
      BY <1>3, <1>4, <3>1 DEF TokenValues
  <2>3. QED
    BY <1>9, <1>10, <2>1, <2>2
<1>13. /\ ~WritesToken => NewestToken(r2, g, t2, token)
       /\ FreeUnread(r2, blocks)
  BY <1>1, <1>9 DEF Core
<1>14. QED
  BY <1>4, <1>5, <1>6, <1>8, <1>10, <1>11, <1>12, <1>13 DEF ServiceCore

(* A command is carried out. *)
LEMMA ProcessCommandInv ==
  ASSUME IInv, NEW fails \in BOOLEAN, NEW unschedules \in BOOLEAN,
         ProcessCommand(fails, unschedules)
  PROVE  IInv'
<1> DEFINE c == ring[service.get].cmd
           get2 == After(service.get, c)
           token2 == IF c.op = "token" THEN c.arg ELSE service.token
           s == [service EXCEPT !.get = get2, !.token = token2, !.error = fails,
                                !.scheduled = ~unschedules]
           done == s.error \/ unschedules \/ s.get = s.put
<1>1. /\ service.busy = TRUE /\ ring' = Erase(ring, service.get, c)
      /\ service' = [s EXCEPT !.busy = ~done]
      /\ IF done THEN Report(s) ELSE UNCHANGED <<updates, generation>>
      /\ deferred' = IF unschedules THEN <<Rescheduled>> \o deferred ELSE deferred
      /\ UNCHANGED <<client, last, lost, sync, open, wire, fast, replies>>
  BY CarriedOut, ZenonT(60)
<1>2. service.error = FALSE /\ lost = FALSE
  BY <1>1, BusyIs
<1>3. service \in [get : Offsets, put : Nat, token : TokenValues, error : BOOLEAN,
                   busy : BOOLEAN, scheduled : BOOLEAN]
  BY DEF IInv, Types
<1> HIDE DEF get2, token2
<1>4. /\ s.get = get2 /\ s.token = token2 /\ s.error = fails /\ s.put = service.put
      /\ s.scheduled = ~unschedules /\ s.busy = service.busy
      /\ s = [s EXCEPT !.busy = s.busy]
  BY <1>3
<1>5. done \in BOOLEAN /\ (done <=> fails = TRUE \/ unschedules = TRUE \/ s.get = s.put)
  BY <1>4
<1> HIDE DEF done
<1>6. /\ service'.get = get2 /\ service'.token = token2 /\ service'.error = fails
      /\ service'.put = service.put /\ service'.busy = ~done
      /\ service'.scheduled = ~unschedules
  BY <1>1, <1>3
<1>7. deferred' = deferred \/ deferred' = <<Rescheduled>> \o deferred
  BY <1>1
<1>8. ServiceCore /\ service'.get \in Offsets /\ service'.token \in TokenValues
  <2>1. service'.busy = TRUE => service'.get # service'.put
    BY <1>4, <1>5, <1>6
  <2>2. QED
    BY <1>1, <1>6, <1>7, <2>1, AdvanceCore DEF get2, token2, c
<1>9. service' \in [get : Offsets, put : Nat, token : TokenValues, error : BOOLEAN,
                    busy : BOOLEAN, scheduled : BOOLEAN]
  BY <1>1, <1>3, <1>6, <1>8
<1>10. /\ deferred \in Seq(ServiceMessage) /\ deferred' \in Seq(ServiceMessage)
       /\ OneFast(deferred') /\ (HasFast(deferred') <=> HasFast(deferred))
  <2>1. deferred \in Seq(ServiceMessage) /\ OneFast(deferred)
    BY DEF IInv, Types, SyncOK
  <2>2. CASE deferred' = deferred
    BY <2>1, <2>2
  <2>3. CASE deferred' = <<Rescheduled>> \o deferred
    <3> DEFINE m == Rescheduled
    <3>1. m \in ServiceMessage /\ m.kind # "fast" /\ 1 \in 1..(Len(deferred) + 1)
      BY DEF ServiceMessage, Rescheduled
    <3>2. deferred' = InsertAt(deferred, 1, m)
      BY <2>1, <2>3, ConcatEmptySeq DEF InsertAt
    <3> HIDE DEF m
    <3>3. QED
      BY <2>1, <3>1, <3>2, FastInsert, InsertAtList
  <2>4. QED
    BY <1>7, <2>2, <2>3
<1>11. SyncOK'
  BY <1>1, <1>2, <1>10 DEF IInv, SyncOK, client
<1>12. updates \in Seq(UpdateMessage) /\ generation \in Nat
  BY DEF IInv, Types, UpdateMessage
<1>13. ring' \in [Offsets -> Cell]
  BY <1>8 DEF ServiceCore, RingOK
<1> HIDE DEF s, c
<1>14. CASE ~done
  <2>1. UNCHANGED <<updates, generation>>
    BY <1>1, <1>14
  <2>2. Types'
    BY <1>1, <1>9, <1>10, <1>13, <2>1 DEF IInv, Types, client
  <2>3. service'.error = FALSE
    BY <1>5, <1>6, <1>14
  <2>4. QED
    BY <1>1, <1>2, <1>8, <1>11, <2>1, <2>2, <2>3, ServiceSilent
<1>15. CASE done
  <2>1. Report(s)
    BY <1>1, <1>15
  <2>2. /\ generation' = generation + 1
        /\ updates' \in Seq(UpdateMessage)
        /\ Destroyed \in ToSet(updates') => s.error = TRUE
        /\ \A reps : StatesIn(reps, updates')
                       = StatesIn(reps, updates) \cup {State(s, generation + 1)}
    BY <1>2, <1>4, <1>6, <1>8, <2>1, Reported
  <2>3. States' = States \cup {State(s, generation + 1)}
    BY <1>1, <2>2 DEF States
  <2>4. Types'
    <3>1. updates' \in Seq(StateMessage \cup {Destroyed}) /\ generation' \in Nat
      BY <1>12, <2>2 DEF UpdateMessage
    <3>2. QED
      BY <1>1, <1>9, <1>10, <1>13, <3>1 DEF IInv, Types, client
  <2>5. service'.error = TRUE => service'.busy = FALSE
    BY <1>5, <1>6, <1>15
  <2>6. s.get = service'.get /\ s.token = service'.token /\ s.error = service'.error
    BY <1>4, <1>6
  <2>7. QED
    BY <1>1, <1>2, <1>8, <1>11, <2>2, <2>3, <2>4, <2>5, <2>6, ServiceTells
<1>16. QED
  BY <1>14, <1>15

(* Every step keeps the invariant. *)
LEMMA NextIInv ==
  ASSUME IInv, [Next]_vars
  PROVE  IInv'
<1>1. CASE UNCHANGED vars
  <2>1. UNCHANGED <<ring, put, sent, token, last, lost, call, sync, open, blocks, wire, deferred,
                    fast, service, replies, updates, generation>>
    BY <1>1 DEF vars, client
  <2>2. Types' /\ CallOK' /\ SyncOK'
    BY <2>1 DEF IInv, Types, CallOK, SyncOK
  <2>3. ASSUME lost = FALSE
        PROVE  /\ RingOK(ring', last.get, service.get, put') /\ put' # Usable
               /\ FlushesOK(ring', last.get, service.get, put', service.put, deferred, wire')
               /\ ~WritesToken' => NewestToken(ring', last.get, service.token, token')
               /\ FreeUnread(ring', blocks')
               /\ ~Wrapping' => /\ TokensRise(Views)
                                /\ TokensInOrder(ring', last.get, service.token, Written')
                                /\ PendingFenced(ring', last.get, blocks')
    BY <2>1, <2>3 DEF IInv, Core, WritesToken, Wrapping, Written
  <2>4. QED
    BY <2>1, <2>2, <2>3, ClientMoves
<1>2. CASE CallStep
  BY <1>2, GetSpaceWrapWaitInv, GetSpaceJumpInv, GetSpaceWaitInv, GetSpaceLostInv, GetSpaceInv,
     FinishLoopInv, FinishReturnInv, WaitForTokenLoopInv, WaitForTokenFatalInv,
     WaitForTokenReturnInv DEF CallStep
<1>3. CASE ServiceStep
  BY <1>3, OnMessageReceivedInv, HandleMessageInv, MakeCurrentFailsInv, ProcessCommandInv,
     SetScheduledInv DEF ServiceStep
<1>4. CASE \E b \in Blocks, n \in Sizes : IssueUse(b, n)
  BY <1>4, IssueUseInv
<1>5. CASE \E b \in Blocks \cup {None} : InsertToken(b)
  BY <1>5, InsertTokenInv
<1>6. CASE \E b \in Blocks : AllocFree(b) \/ AllocPending(b)
  BY <1>6, AllocFreeInv, AllocPendingInv
<1>7. CASE StartFinish \/ FreeUnused
  BY <1>7, StartFinishInv, FreeUnusedInv
<1>8. CASE ReceiveUpdate \/ ReceiveReply \/ SendFails \/ CloseChannel
  BY <1>8, ReceiveUpdateInv, ReceiveReplyInv, SendFailsInv, CloseChannelInv
<1>9. QED
  BY <1>1, <1>2, <1>3, <1>4, <1>5, <1>6, <1>7, <1>8 DEF Next, ClientStep

(* The invariant holds at all times: the ring holds whole commands between the
   reader and put_, and every state on its way to the client is of a reader
   that is no further on than the next one. *)
THEOREM InvariantThm == Spec => []IInv
BY InitIInv, NextIInv, PTL DEF Spec

-----------------------------------------------------------------------------
(* What the client does by the state it knows. *)

(* The commands to come are those in the ring. *)
LEMMA PendingIs ==
  ASSUME IInv, service.error = FALSE
  PROVE  /\ lost = FALSE /\ Pending \in Seq(Commands)
         /\ \A i \in DOMAIN Pending : \E h \in Offsets : HeadAt(ring, h) /\ Pending[i] = ring[h].cmd
<1>1. lost = FALSE
  BY DEF IInv, Types, Errors
<1>2. RingOK(ring, last.get, service.get, put)
  BY <1>1, CoreIs
<1>3. Walker(ring, put, Walk(ring, service.get, put)[Total])
  BY <1>2, WalkReaches, TotalIs
<1>4. QED
  BY <1>1, <1>3 DEF Walker, Pending

(* A block no command reads. *)
LEMMA UnreadIs ==
  ASSUME IInv, service.error = FALSE, NEW b, \A h \in Offsets : ~UseAt(ring, h, b)
  PROVE  \A i \in DOMAIN Pending : ~(Pending[i].op = "use" /\ Pending[i].arg = b)
BY PendingIs DEF UseAt

(* Every variable has its type. *)
LEMMA TypeIs == IInv => TypeOK
<1> SUFFICES ASSUME IInv PROVE TypeOK
  OBVIOUS
<1>1. /\ Types /\ last.error \in BOOLEAN
  BY DEF IInv, Types
<1>2. ASSUME ~lost PROVE put < Usable
  <2>1. lost = FALSE
    BY <1>1, <1>2 DEF Types
  <2>2. put \in 0..(Usable - 1) /\ Usable \in Nat
    BY <2>1, CoreIs, TotalIs
  <2>3. QED
    BY <2>2
<1>3. \A b \in Blocks : blocks[b].state \in {"FREE", "IN_USE", "PENDING"}
  BY <1>1 DEF Types
<1>4. QED
  BY <1>1, <1>2, <1>3 DEF Types, TypeOK, Offsets, TokenValues, Cell

(* No command that is still to be read was overwritten. *)
LEMMA IntactIs == IInv => CommandsIntact
<1> SUFFICES ASSUME IInv, ~service.error, NEW i \in DOMAIN Pending PROVE Pending[i] # Corrupt
  BY DEF CommandsIntact
<1>1. service.error = FALSE
  BY DEF IInv, Types
<1>2. Pending[i] \in Commands
  <2>1. Pending \in Seq(Commands) /\ i \in DOMAIN Pending
    BY <1>1, PendingIs
  <2>2. QED
    BY <2>1
<1>3. QED
  BY <1>2, CommandIs

(* No command to come reads a free block. *)
LEMMA FencedIs == IInv => MemoryFenced
<1> SUFFICES ASSUME IInv, NEW b \in Blocks, blocks[b].state = "FREE", ~service.error
             PROVE  \A i \in DOMAIN Pending : ~(Pending[i].op = "use" /\ Pending[i].arg = b)
  BY DEF MemoryFenced
<1>1. service.error = FALSE /\ lost = FALSE
  BY DEF IInv, Types, Errors
<1>2. \A h \in Offsets : ~UseAt(ring, h, b)
  BY <1>1, CoreIs DEF Core, FreeUnread
<1>3. QED
  BY <1>1, <1>2, UnreadIs

(* Only a client that knows of the loss gives up. *)
LEMMA WaitIs == IInv => NoFatalWait
BY DEF IInv, CallOK, NoFatalWait

(* A request is dropped only when the context is lost. *)
LEMMA AnswerIs == IInv => AnsweredOrLost
<1> SUFFICES ASSUME IInv, Unanswered PROVE service.error
  BY DEF AnsweredOrLost
<1>1. sync = TRUE /\ replies = <<>> /\ ~HasFast(wire) /\ ~HasFast(deferred)
  BY DEF Unanswered, HasFast, IInv, Types
<1>2. service.error # FALSE
  BY <1>1 DEF IInv, SyncOK
<1>3. QED
  BY <1>2 DEF IInv, Types

(* What the client does by the last_state_ it knows, however old, is right:
   CommandBufferHelper overwrites no command that GpuScheduler is still to
   read, FencedAllocator frees no memory that is still to be read, and, until
   the client is told of the loss of its context, WaitForToken waits for no
   token that cannot come; an answer is lost with the context only. *)
THEOREM ClientViewSafeThm == Spec => []ClientViewSafe
<1>1. IInv => ClientViewSafe
  BY TypeIs, IntactIs, FencedIs, WaitIs, AnswerIs DEF ClientViewSafe
<1>2. QED
  BY <1>1, InvariantThm, PTL

(* Who hands out memory. *)
LEMMA WhoReuses ==
  ASSUME IInv, Next, NEW b \in Blocks, blocks[b].state # "IN_USE", blocks'[b].state = "IN_USE"
  PROVE  AllocFree(b) \/ (WaitForTokenReturn /\ b = call.block)
<1>1. blocks \in [Blocks -> [state : {"FREE", "IN_USE", "PENDING"}, token : TokenValues]]
  BY DEF IInv, Types
<1>2. blocks' # blocks
  OBVIOUS
<1>3. ASSUME \/ \E d \in Blocks, n \in Sizes : IssueUse(d, n)
             \/ \E d \in Blocks \cup {None} : InsertToken(d)
             \/ \E d \in Blocks : AllocPending(d)
             \/ StartFinish
      PROVE  FALSE
  BY <1>2, <1>3 DEF IssueUse, InsertToken, AllocPending, StartFinish
<1>4. ASSUME FreeUnused PROVE FALSE
  <2>1. blocks'[b] = IF blocks[b].state = "PENDING" /\ Passed(blocks[b].token, last.token)
                     THEN [blocks[b] EXCEPT !.state = "FREE"] ELSE blocks[b]
    BY <1>4 DEF FreeUnused
  <2>2. blocks[b] \in [state : {"FREE", "IN_USE", "PENDING"}, token : TokenValues]
    BY <1>1
  <2>3. [blocks[b] EXCEPT !.state = "FREE"].state = "FREE"
    BY <2>2
  <2>4. QED
    BY <2>1, <2>3
<1>5. ASSUME NEW d \in Blocks, AllocFree(d) PROVE d = b
  BY <1>1, <1>5 DEF AllocFree
<1>6. ASSUME GetSpaceLost \/ \E late \in BOOLEAN : GetSpace(late) PROVE FALSE
  <2>1. call.pc = "space" /\ PlaceCommand /\ UNCHANGED token
    BY <1>6 DEF GetSpaceLost, GetSpace, Waiting
  <2>2. WritesToken => NowPending(blocks, blocks', call.block, token)
    BY <2>1, PlaceTypes
  <2>3. ~WritesToken => blocks' = blocks
    BY <2>1, PlaceTypes
  <2>4. QED
    BY <1>2, <2>2, <2>3 DEF NowPending
<1>7. ASSUME GetSpaceWrapWait \/ GetSpaceJump \/ GetSpaceWait \/ FinishLoop \/ FinishReturn
               \/ WaitForTokenLoop \/ WaitForTokenFatal
      PROVE  FALSE
  BY <1>2, <1>7 DEF GetSpaceWrapWait, GetSpaceJump, GetSpaceWait, FinishLoop, FinishReturn,
                    WaitForTokenLoop, WaitForTokenFatal, Loop
<1>8. ASSUME WaitForTokenReturn PROVE b = call.block
  BY <1>1, <1>8 DEF WaitForTokenReturn
<1>9. ASSUME ReceiveUpdate \/ ReceiveReply \/ SendFails \/ CloseChannel PROVE FALSE
  BY <1>2, <1>9 DEF ReceiveUpdate, ReceiveReply, SendFails, CloseChannel, client
<1>10. ASSUME ServiceStep PROVE FALSE
  BY <1>2, <1>10 DEF ServiceStep, OnMessageReceived, HandleMessage, MakeCurrentFails,
                     ProcessCommand, SetScheduled, client
<1>11. QED
  BY <1>3, <1>4, <1>5, <1>6, <1>7, <1>8, <1>9, <1>10 DEF Next, ClientStep, CallStep

(* The block a client waited for is read by no command to come. *)
LEMMA WaitedUnread ==
  ASSUME IInv, lost = FALSE, WaitForTokenReturn
  PROVE  \A h \in Offsets : ~UseAt(ring, h, call.block)
<1>1. call.pc \in {"wait", "waiting"} /\ TokenPassed
  BY CoreIs DEF WaitForTokenReturn, FlushFailed
<1>2. call.block \in Blocks /\ blocks[call.block].state = "PENDING"
  BY <1>1 DEF IInv, CallOK
<1>3. ~Wrapping /\ ~WritesToken
  BY <1>1 DEF Wrapping, WritesToken
<1>4. blocks[call.block].token <= last.token \/ blocks[call.block].token > token
  BY <1>1 DEF TokenPassed, Passed
<1>5. QED
  BY <1>2, <1>3, <1>4, PassedUnread

(* FencedAllocator hands a block out again, from the free ones or after the
   wait for its token, only when no command to come reads it. *)
THEOREM ReusedAfterTokenThm == Spec => ReusedAfterToken
<1>1. ASSUME IInv, [Next]_vars, NEW b \in Blocks, blocks[b].state # "IN_USE",
             blocks'[b].state = "IN_USE", ~service.error
      PROVE  \A i \in DOMAIN Pending : ~(Pending[i].op = "use" /\ Pending[i].arg = b)
  <2>1. service.error = FALSE /\ lost = FALSE
    BY <1>1 DEF IInv, Types, Errors
  <2>2. Next
    BY <1>1 DEF vars, client
  <2>3. \A h \in Offsets : ~UseAt(ring, h, b)
    <3>1. CASE AllocFree(b)
      BY <1>1, <2>1, <3>1, CoreIs DEF AllocFree, Core, FreeUnread
    <3>2. CASE WaitForTokenReturn /\ b = call.block
      BY <1>1, <2>1, <3>2, WaitedUnread
    <3>3. QED
      BY <1>1, <2>2, <3>1, <3>2, WhoReuses
  <2>4. QED
    BY <1>1, <2>1, <2>3, UnreadIs
<1>2. IInv /\ [Next]_vars =>
        [\A b \in Blocks :
           (blocks[b].state # "IN_USE" /\ blocks'[b].state = "IN_USE" /\ ~service.error)
           => \A i \in DOMAIN Pending : ~(Pending[i].op = "use" /\ Pending[i].arg = b)]_vars
  BY <1>1
<1>3. QED
  BY <1>2, InvariantThm, PTL DEF Spec, ReusedAfterToken

-----------------------------------------------------------------------------
(* The ring is a queue of commands. *)

(* Nothing the queue depends on changes. *)
LEMMA QueueStays ==
  ASSUME UNCHANGED <<ring, put>>, service'.get = service.get, service'.error = service.error
  PROVE  UNCHANGED Stream!vars
<1>1. Pending' = Pending
  BY DEF Pending
<1>2. QED
  BY <1>1 DEF Stream!vars

(* Nothing is in the queue of an empty ring. *)
LEMMA InitQueue == Init => Stream!Init
<1> SUFFICES ASSUME Init PROVE Stream!Init
  OBVIOUS
<1>1. IInv /\ service.error = FALSE
  BY InitIInv DEF Init
<1>2. /\ Pending \in Seq(Commands)
      /\ \A i \in DOMAIN Pending : \E h \in Offsets : HeadAt(ring, h) /\ Pending[i] = ring[h].cmd
  BY <1>1, PendingIs
<1>3. \A h \in Offsets : ~HeadAt(ring, h)
  BY DEF Init, HeadAt, Garbage, Offsets
<1>4. ToSet(Pending) = {}
  BY <1>2, <1>3 DEF ToSet
<1>5. Pending = <<>>
  BY <1>2, <1>4, NothingInList
<1>6. QED
  BY <1>1, <1>5 DEF Stream!Init

(* A command is issued when it is in the ring, and a jump is none. *)
LEMMA GetSpaceQueue ==
  ASSUME IInv, NEW late \in BOOLEAN, GetSpace(late), service.error = FALSE
  PROVE  Stream!Issue
<1> DEFINE c == call.cmd
           end == put + call.cmd.size
           with == WriteCommand(ring, put, call.cmd)
           g == last.get
           s == service.get
           P == Walk(ring, s, put)[Total].met
<1>1. /\ call.pc = "space" /\ ~(end > Usable) /\ AvailableEntries(g, put) >= c.size
      /\ ring' = IF end = Usable THEN WriteCommand(with, end, Jump) ELSE with
      /\ put' = IF end = Usable THEN 0 ELSE end
      /\ service' = service
  BY DEF GetSpace, Waiting, NoRoomAtEnd, PlaceCommand, Finished
<1>2. lost = FALSE
  BY PendingIs
<1>3. /\ RingOK(ring, g, s, put) /\ put \in 0..(Usable - 1) /\ g \in 0..Usable
      /\ c \in Commands
  BY <1>1, <1>2, CoreIs DEF CallOK
<1>4. Room(g, put, c, end) /\ (end = Usable => Room(g, Usable, Jump, 0))
  BY <1>1, <1>3, RoomFound
<1> HIDE DEF c, end, g, s
<1>5. c \in Commands \cup {Jump} /\ Jump \in Commands \cup {Jump} /\ c # Jump
  BY <1>3, CommandIs
<1>6. RingOK(with, g, s, end)
  BY <1>3, <1>4, <1>5, RingAppend DEF c
<1>7. Walk(with, s, end)[Total].met = Append(P, c)
  <2>1. Walk(WriteCommand(ring, put, c), s, end)[Total].met = Meet(P, c)
    <3>1. RingOK(ring, g, s, put) /\ Room(g, put, c, end) /\ c \in Commands \cup {Jump}
      BY <1>3, <1>4, <1>5
    <3>2. QED
      BY <3>1, WalkAppend
  <2>2. with = WriteCommand(ring, put, c)
    BY DEF c
  <2>3. QED
    BY <1>5, <2>1, <2>2 DEF Meet
<1> HIDE DEF with, P
<1>8. Walk(ring', s, put')[Total].met = Append(P, c)
  <2>1. CASE end # Usable
    BY <1>1, <1>7, <2>1
  <2>2. CASE end = Usable
    <3>1. Walk(WriteCommand(with, end, Jump), s, 0)[Total].met
            = Meet(Walk(with, s, end)[Total].met, Jump)
      BY <1>4, <1>5, <1>6, <2>2, WalkAppend
    <3>2. QED
      BY <1>1, <1>7, <2>2, <3>1 DEF Meet
  <2>3. QED
    BY <2>1, <2>2
<1>9. Pending = P /\ Pending' = Append(P, c)
  BY <1>1, <1>8 DEF Pending, P, s
<1>10. QED
  BY <1>1, <1>3, <1>9 DEF Stream!Issue

(* The jump back to 0 is no command of the client. *)
LEMMA GetSpaceJumpQueue ==
  ASSUME IInv, GetSpaceJump, service.error = FALSE
  PROVE  UNCHANGED Stream!vars
<1>1. /\ ~(last.get > put \/ last.get = 0)
      /\ ring' = WriteCommand(ring, put, Jump) /\ put' = 0 /\ service' = service
  BY DEF GetSpaceJump, WrapBlocked
<1>2. lost = FALSE
  BY PendingIs
<1>3. /\ RingOK(ring, last.get, service.get, put) /\ put \in 0..(Usable - 1)
      /\ last.get \in 0..Usable /\ Usable \in Nat
  BY <1>2, CoreIs, TotalIs
<1>4. Room(last.get, put, Jump, 0)
  BY <1>1, <1>3 DEF Room
<1>5. Walk(WriteCommand(ring, put, Jump), service.get, 0)[Total].met
        = Meet(Walk(ring, service.get, put)[Total].met, Jump)
  BY <1>3, <1>4, WalkAppend
<1>6. Pending' = Pending
  BY <1>1, <1>5 DEF Pending, Meet
<1>7. QED
  BY <1>1, <1>6 DEF Stream!vars

(* A command is executed when the reader takes it from the ring. *)
LEMMA ProcessCommandQueue ==
  ASSUME IInv, NEW fails \in BOOLEAN, NEW unschedules \in BOOLEAN,
         ProcessCommand(fails, unschedules)
  PROVE  Stream!Next \/ UNCHANGED Stream!vars
<1> DEFINE c == ring[service.get].cmd
           get2 == After(service.get, c)
           m == Walk(ring, service.get, put)[Total].met
           m2 == Walk(Erase(ring, service.get, c), get2, put)[Total].met
<1>1. /\ service.busy = TRUE /\ ring' = Erase(ring, service.get, c)
      /\ put' = put /\ service'.get = get2 /\ service'.error = fails
  <2>1. /\ service.busy = TRUE /\ ring' = Erase(ring, service.get, c) /\ UNCHANGED client
    BY CarriedOut, ZenonT(60)
  <2>2. service'.get = get2 /\ service'.error = fails
    <3> DEFINE s == [service EXCEPT
                      !.get   = get2,
                      !.token = IF c.op = "token" THEN c.arg ELSE service.token,
                      !.error = fails,
                      !.scheduled = ~unschedules]
               done == s.error \/ unschedules \/ s.get = s.put
    <3>1. service' = [s EXCEPT !.busy = ~done]
      BY CarriedOut, ZenonT(60)
    <3>2. service \in [get : Offsets, put : Nat, token : TokenValues, error : BOOLEAN,
                       busy : BOOLEAN, scheduled : BOOLEAN]
      BY DEF IInv, Types
    <3> HIDE DEF done, get2
    <3>3. s.get = get2 /\ s.error = fails /\ s = [s EXCEPT !.busy = s.busy]
      BY <3>2
    <3>4. QED
      BY <3>1, <3>2, <3>3
  <2>3. QED
    BY <2>1, <2>2 DEF client
<1>2. /\ service.error = FALSE /\ lost = FALSE /\ service.get # put
      /\ c \in Commands \cup {Jump}
  BY <1>1, BusyIs
<1>3. m2 \in Seq(Commands) /\ m = IF c = Jump THEN m2 ELSE <<c>> \o m2
  <2>1. RingOK(ring, last.get, service.get, put) /\ service.get # put
    BY <1>2, CoreIs
  <2>2. QED
    BY <2>1, WalkRead
<1>4. Pending = m /\ Pending' = m2
  BY <1>1 DEF Pending
<1> HIDE DEF c, get2, m, m2
<1>5. CASE fails = TRUE
  BY <1>1, <1>5 DEF Stream!Next, Stream!Lose
<1>6. CASE fails = FALSE /\ c = Jump
  BY <1>1, <1>2, <1>3, <1>4, <1>6 DEF Stream!vars
<1>7. CASE fails = FALSE /\ c # Jump
  <2>1. c \in Commands
    BY <1>2, <1>7
  <2>2. <<c>> \o m2 # <<>> /\ Tail(<<c>> \o m2) = m2
    BY <1>3, <2>1
  <2>3. QED
    BY <1>1, <1>2, <1>3, <1>4, <1>7, <2>2 DEF Stream!Next, Stream!Execute
<1>8. QED
  BY <1>5, <1>6, <1>7

(* Handling a message does not move the reader. *)
LEMMA HandleKeeps ==
  ASSUME IInv, HandleMessage
  PROVE  service'.get = service.get /\ service'.error = service.error /\ UNCHANGED <<ring, put>>
<1> DEFINE m == Head(deferred)
           stop == IF m.kind = "flush" THEN m.put ELSE service.put
           s == [service EXCEPT !.put = IF m.kind = "flush" THEN m.put ELSE @]
           work == s.get # s.put /\ ~s.error
<1>1. service' = service \/ service' = [s EXCEPT !.busy = work]
  BY DEF HandleMessage
<1>2. UNCHANGED <<ring, put>>
  BY DEF HandleMessage, client
<1>3. service \in [get : Offsets, put : Nat, token : TokenValues, error : BOOLEAN,
                   busy : BOOLEAN, scheduled : BOOLEAN]
  BY DEF IInv, Types
<1>4. s = [service EXCEPT !.put = stop]
  BY <1>3
<1> HIDE DEF stop, work, s
<1>5. [s EXCEPT !.busy = work].get = service.get /\ [s EXCEPT !.busy = work].error = service.error
  BY <1>3, <1>4
<1>6. QED
  BY <1>1, <1>2, <1>5

(* Every other step leaves the ring, put_ and the reader where they are. *)
LEMMA OtherSteps ==
  ASSUME IInv, [Next]_vars, ~GetSpaceJump, ~GetSpaceLost, ~(\E late \in BOOLEAN : GetSpace(late)),
         ~(\E fails, unschedules \in BOOLEAN : ProcessCommand(fails, unschedules)),
         ~MakeCurrentFails, ~CloseChannel
  PROVE  UNCHANGED <<ring, put>> /\ service'.get = service.get /\ service'.error = service.error
<1>1. CASE UNCHANGED vars
  BY <1>1 DEF vars, client
<1>2. CASE \/ \E b \in Blocks, n \in Sizes : IssueUse(b, n)
           \/ \E b \in Blocks \cup {None} : InsertToken(b)
           \/ \E b \in Blocks : AllocPending(b)
           \/ StartFinish
  BY <1>2 DEF IssueUse, InsertToken, AllocPending, StartFinish, StartCall
<1>3. CASE FreeUnused \/ \E b \in Blocks : AllocFree(b)
  BY <1>3 DEF FreeUnused, AllocFree
<1>4. CASE GetSpaceWrapWait \/ GetSpaceWait \/ FinishLoop \/ FinishReturn
             \/ WaitForTokenLoop \/ WaitForTokenFatal \/ WaitForTokenReturn
  BY <1>4 DEF GetSpaceWrapWait, GetSpaceWait, FinishLoop, FinishReturn, WaitForTokenLoop,
              WaitForTokenFatal, WaitForTokenReturn, Loop
<1>5. CASE ReceiveUpdate \/ ReceiveReply \/ SendFails
  BY <1>5 DEF ReceiveUpdate, ReceiveReply, SendFails, client
<1>6. CASE HandleMessage
  BY <1>6, HandleKeeps
<1>7. CASE OnMessageReceived
  BY <1>7 DEF OnMessageReceived, client
<1>8. CASE SetScheduled
  <2>1. service \in [get : Offsets, put : Nat, token : TokenValues, error : BOOLEAN,
                     busy : BOOLEAN, scheduled : BOOLEAN]
    BY DEF IInv, Types
  <2>2. QED
    BY <1>8, <2>1 DEF SetScheduled, client
<1>9. QED
  BY <1>1, <1>2, <1>3, <1>4, <1>5, <1>6, <1>7, <1>8
     DEF Next, ClientStep, CallStep, ServiceStep

(* Writing to the ring after the loss of the context is no step of the queue. *)
LEMMA LostQueue ==
  ASSUME IInv, service.error # FALSE, service' = service
  PROVE  UNCHANGED Stream!vars
<1>1. service.error = TRUE /\ service'.error = TRUE
  BY DEF IInv, Types
<1>2. QED
  BY <1>1 DEF Stream!vars

(* Each step is one of the queue, or does not touch it. *)
LEMMA NextQueue ==
  ASSUME IInv, [Next]_vars
  PROVE  [Stream!Next]_(Stream!vars)
<1>1. CASE \E late \in BOOLEAN : GetSpace(late)
  <2>1. CASE service.error = FALSE
    BY <1>1, <2>1, GetSpaceQueue DEF Stream!Next
  <2>2. CASE service.error # FALSE
    <3>1. service' = service
      BY <1>1 DEF GetSpace
    <3>2. QED
      BY <2>2, <3>1, LostQueue
  <2>3. QED
    BY <2>1, <2>2
<1>2. CASE GetSpaceJump
  <2>1. CASE service.error = FALSE
    BY <1>2, <2>1, GetSpaceJumpQueue
  <2>2. CASE service.error # FALSE
    <3>1. service' = service
      BY <1>2 DEF GetSpaceJump
    <3>2. QED
      BY <2>2, <3>1, LostQueue
  <2>3. QED
    BY <2>1, <2>2
<1>3. CASE GetSpaceLost
  <2>1. service.error # FALSE /\ service' = service
    BY <1>3 DEF GetSpaceLost, IInv, Types, Errors
  <2>2. QED
    BY <2>1, LostQueue
<1>4. CASE \E fails, unschedules \in BOOLEAN : ProcessCommand(fails, unschedules)
  BY <1>4, ProcessCommandQueue
<1>5. CASE /\ ~GetSpaceJump /\ ~GetSpaceLost /\ ~(\E late \in BOOLEAN : GetSpace(late))
           /\ ~(\E fails, unschedules \in BOOLEAN : ProcessCommand(fails, unschedules))
           /\ ~MakeCurrentFails /\ ~CloseChannel
  BY <1>5, OtherSteps, QueueStays
<1>6. CASE MakeCurrentFails \/ CloseChannel
  <2>1. UNCHANGED <<ring, put>> /\ service'.error = TRUE
    BY <1>6 DEF MakeCurrentFails, CloseChannel, client, IInv, Types
  <2>2. QED
    BY <2>1 DEF IInv, Types, Stream!Next, Stream!Lose, Stream!vars
<1>7. QED
  BY <1>1, <1>2, <1>3, <1>4, <1>5, <1>6

(* The ring, with its jumps and wraps, carries the commands out in the order in
   which they were issued, each once, until the context is lost. *)
THEOREM ImplementsCommandStreamThm == Spec => ImplementsCommandStream
BY InitQueue, NextQueue, InvariantThm, PTL DEF Spec, ImplementsCommandStream, Stream!Spec
=============================================================================
