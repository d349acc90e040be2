--------------------------- MODULE CommandBuffer ---------------------------
(***************************************************************************)
(* The GPU command buffer: CommandBufferHelper writes commands into a ring *)
(* in shared memory, CommandBufferProxy and GpuChannel carry flushes and   *)
(* states between the processes, GpuScheduler and CommandParser carry the  *)
(* commands out, and FencedAllocator and RingBuffer reuse memory that a    *)
(* command reads once the token behind the command has passed.             *)
(*                                                                         *)
(* The client knows the reader only by last_state_.  The contents of       *)
(* commands are the memory block they read; entries that were carried out  *)
(* count as garbage, which is what makes a wrong read visible.             *)
(***************************************************************************)
EXTENDS Integers, Sequences, FiniteSets

CONSTANTS
    Total,          \* total_entry_count_
    Sizes,          \* entries of the commands that read memory
    Blocks,         \* blocks of memory
    None,
    TokenModulus,   \* tokens are counted modulo this (2^31 in the code)
    MaxInFlight,    \* bound: messages on the way when a call starts
    ContextLoss     \* may the context be lost or the channel be closed

JumpEntries  == 2
TokenEntries == 2
Usable == Total - JumpEntries    \* usable_entry_count_

ASSUME RingOk   == Total \in Nat /\ Usable > TokenEntries
ASSUME SizesOk  == Sizes \subseteq 1..(Usable - 1)
ASSUME TokensOk == TokenModulus \in Nat \ {0, 1}
ASSUME NoneOk   == None \notin Blocks
ASSUME BoundOk  == MaxInFlight \in Nat /\ ContextLoss \in BOOLEAN

VARIABLES
    ring,       \* the shared memory: [cmd, part] at every entry
    put,        \* put_
    sent,       \* last_put_sent_
    token,      \* token_
    last,       \* last_state_ of the proxy
    lost,       \* an error in last_state_ has told the client of the loss
    call,       \* the call of the client that is under way
    sync,       \* the client waits for the reply to a GetStateFast
    open,       \* the channel between the processes
    blocks,     \* state of the memory blocks
    wire,       \* messages to the service that have not arrived
    deferred,   \* deferred_messages_
    fast,       \* processed_get_state_fast_
    service,    \* CommandBufferService, CommandParser and GpuScheduler
    replies,    \* the reply to GetStateFast on its way
    updates,    \* UpdateState and Destroyed messages on their way
    generation  \* generation_, counted from last_state_.generation

client == <<put, sent, token, call, blocks>>
vars == <<ring, client, last, lost, sync, open, wire, deferred, fast, service,
          replies, updates, generation>>

Use(b, n)   == [op |-> "use", arg |-> b, size |-> n]
SetToken(t) == [op |-> "token", arg |-> t, size |-> TokenEntries]
Jump        == [op |-> "jump", arg |-> 0, size |-> JumpEntries]
Garbage     == [cmd |-> None, part |-> 0]
Corrupt     == [op |-> "corrupt", arg |-> None, size |-> 0]

Commands == {Use(b, n) : b \in Blocks, n \in Sizes}
            \cup {SetToken(t) : t \in 0..(TokenModulus - 1)}

ASSUME NoneNotACommand == None \notin Commands \cup {Jump, Corrupt}

Idle == [pc |-> "idle", cmd |-> None, block |-> None]

Init ==
    /\ ring = [i \in 0..(Total - 1) |-> Garbage]
    /\ put = 0 /\ sent = 0 /\ token = 0
    /\ last = [get |-> 0, token |-> 0, error |-> FALSE]
    /\ call = Idle /\ sync = FALSE /\ lost = FALSE /\ open = TRUE
    /\ blocks = [b \in Blocks |-> [state |-> "FREE", token |-> 0]]
    /\ wire = <<>> /\ deferred = <<>> /\ fast = FALSE
    /\ service = [get |-> 0, put |-> 0, token |-> 0, error |-> FALSE,
                  busy |-> FALSE, scheduled |-> TRUE]
    /\ replies = <<>> /\ updates = <<>> /\ generation = 0

-----------------------------------------------------------------------------
(* The ring. *)

(* Entries outside the ring are not part of the model; only a command that is
   placed without room (GetSpaceLost) has any. *)
WriteCommand(r, at, c) ==
    [i \in DOMAIN r |-> IF i \in at..(at + c.size - 1)
                        THEN [cmd |-> c, part |-> i - at] ELSE r[i]]

(* The command whose entries are all there. *)
Intact(r, at) ==
    /\ r[at].cmd # None
    /\ at + r[at].cmd.size <= Total
    /\ \A k \in 0..(r[at].cmd.size - 1) : r[at + k] = [cmd |-> r[at].cmd, part |-> k]

(* Where the reader goes from a command: CommandParser::ProcessCommand. *)
After(at, c) == IF c.op = "jump" THEN 0 ELSE (at + c.size) % Total

(* Mutants: the entry that tells a full ring from an empty one is used up, or
   the empty ring is taken for a full one. *)
AvailableEntriesOneMore(get, p) == 1 + ((get - p - 1 + Usable) % Usable)
AvailableEntriesNoneIfEmpty(get, p) == (get - p + Usable) % Usable

AvailableEntries(get, p) == (get - p - 1 + Usable) % Usable

-----------------------------------------------------------------------------
(* Messages. *)

State(s, g) == [kind |-> "state", get |-> s.get, token |-> s.token,
                error |-> s.error, generation |-> g]
Destroyed   == [kind |-> "destroyed"]

FlushMessage(p) == [kind |-> "flush", put |-> p]
GetStateFast    == [kind |-> "fast"]
Rescheduled     == [kind |-> "rescheduled"]

InFlight == Len(wire) + Len(deferred) + Len(updates)

(* Proxy::Flush; sent is set by the helper whether or not the proxy sends.  A
   closed channel drops the messages. *)
Flush(more) ==
    /\ sent' = put
    /\ wire' = IF last.error \/ ~open THEN wire ELSE wire \o <<FlushMessage(put)>> \o more

(* The helper's FlushSync without an error: nothing can have changed the
   state since get_offset() was read, so the proxy always asks for it. *)
FlushSync == Flush(<<GetStateFast>>) /\ sync' = TRUE

(* Mutant: the generation is not looked at. *)
NewerAlways(m) == TRUE

(* Newer than last_state_, or not a state at all. *)
Newer(m) == m.kind = "state" => m.generation >= 0

(* Generations relative to the new last_state_; any older one counts as -1. *)
Rebase(msgs, g) ==
    [i \in DOMAIN msgs |->
        IF msgs[i].kind = "state"
        THEN [msgs[i] EXCEPT !.generation = IF @ < g THEN -1 ELSE @ - g]
        ELSE msgs[i]]

(* Old states are forgotten as soon as nothing else is on the way: to receive
   them would change nothing. *)
Relevant(msgs) == IF \E i \in DOMAIN msgs : Newer(msgs[i]) THEN msgs ELSE <<>>

(* CommandBufferProxy::OnUpdateState and OnDestroyed. *)
OnUpdateState(m, reps, upds) ==
    IF m.kind = "destroyed"
    THEN /\ last' = [last EXCEPT !.error = TRUE]
         /\ replies' = reps /\ updates' = upds
         /\ UNCHANGED generation
    ELSE IF Newer(m)
    THEN /\ last' = [get |-> m.get, token |-> m.token, error |-> m.error]
         /\ replies' = Rebase(reps, m.generation)
         /\ updates' = Relevant(Rebase(upds, m.generation))
         /\ generation' = generation - m.generation
    ELSE /\ replies' = reps /\ updates' = upds
         /\ UNCHANGED <<last, generation>>

(* GpuChannelHost's filter posts these messages to the client's loop, so none
   is seen before the current call returns; a reply overtakes them. *)
ReceiveUpdate ==
    /\ call.pc = "idle"
    /\ updates # <<>>
    /\ OnUpdateState(Head(updates), replies, Tail(updates))
    /\ lost' = (lost \/ last'.error)
    /\ UNCHANGED <<ring, client, sync, open, wire, deferred, fast, service>>

ReceiveReply ==
    /\ replies # <<>>
    /\ OnUpdateState(Head(replies), <<>>, updates)
    /\ lost' = (lost \/ last'.error)
    /\ sync' = FALSE
    /\ UNCHANGED <<ring, client, open, wire, deferred, fast, service>>

(* Proxy::Send of a GetStateFast fails: the channel was closed before the reply
   was sent.  An older UpdateState may still take this error back. *)
SendFails ==
    /\ sync /\ ~open /\ replies = <<>>
    /\ sync' = FALSE
    /\ last' = [last EXCEPT !.error = TRUE]
    /\ lost' = TRUE
    /\ UNCHANGED <<ring, client, open, wire, deferred, fast, service, replies,
                   updates, generation>>

-----------------------------------------------------------------------------
(* The client. *)

StartCall(c) ==
    /\ call = Idle /\ InFlight <= MaxInFlight
    /\ call' = c
    /\ UNCHANGED <<ring, put, sent, last, lost, sync, open, wire, deferred, fast,
                   service, replies, updates, generation>>

(* A command that reads an allocated block.  A client that has been told of the
   loss issues no more commands: "When the client sees that the context is lost,
   they should delete this CommandBufferProxy". *)
IssueUse(b, n) ==
    /\ ~lost
    /\ blocks[b].state = "IN_USE"
    /\ StartCall([pc |-> "space", cmd |-> Use(b, n), block |-> None])
    /\ UNCHANGED <<token, blocks>>

(* Mutant: the token wraps without waiting for the ones before. *)
WrapsNever(t) == FALSE

Wraps(t) == t = 0

(* FreePendingToken(block, InsertToken()), or a token for something else. *)
InsertToken(b) ==
    /\ ~lost
    /\ b # None => blocks[b].state = "IN_USE"
    /\ token' = (token + 1) % TokenModulus
    /\ StartCall([pc |-> "space", cmd |-> SetToken(token'), block |-> b])
    /\ UNCHANGED blocks

StartFinish ==
    /\ StartCall([pc |-> "finish", cmd |-> None, block |-> None])
    /\ UNCHANGED <<token, blocks>>

Passed(t, read) == t <= read

(* FencedAllocator::Alloc takes a free block ... *)
AllocFree(b) ==
    /\ call = Idle
    /\ blocks[b].state = "FREE"
    /\ blocks' = [blocks EXCEPT ![b].state = "IN_USE"]
    /\ UNCHANGED <<ring, put, sent, token, last, lost, call, sync, open, wire,
                   deferred, fast, service, replies, updates, generation>>

(* ... or waits for one that is pending. *)
AllocPending(b) ==
    /\ \A a \in Blocks : blocks[a].state # "FREE"
    /\ blocks[b].state = "PENDING"
    /\ StartCall([pc |-> "wait", cmd |-> None, block |-> b])
    /\ UNCHANGED <<token, blocks>>

FreeUnused ==
    /\ call = Idle
    /\ blocks' = [b \in Blocks |->
                    IF blocks[b].state = "PENDING" /\ Passed(blocks[b].token, last.token)
                    THEN [blocks[b] EXCEPT !.state = "FREE"] ELSE blocks[b]]
    /\ blocks' # blocks
    /\ UNCHANGED <<ring, put, sent, token, last, lost, call, sync, open, wire,
                   deferred, fast, service, replies, updates, generation>>

(* Wait for the reader: FlushSync in one of the loops of the helper. *)
Loop ==
    /\ FlushSync
    /\ UNCHANGED <<ring, put, token, last, lost, open, blocks, deferred, fast,
                   service, replies, updates, generation>>

(* GetSpace returned: the command is written and the ends of the calls. *)
Finished(p) ==
    /\ put' = p
    /\ blocks' = IF call.block # None
                 THEN [blocks EXCEPT ![call.block] =
                          [state |-> "PENDING", token |-> call.cmd.arg]]
                 ELSE blocks
    /\ call' = IF call.cmd.op = "token" /\ Wraps(call.cmd.arg)
               THEN [Idle EXCEPT !.pc = "finish"] ELSE Idle

(* The command at put_, and a jump behind it if it reaches the end. *)
PlaceCommand ==
    LET end  == put + call.cmd.size
        with == WriteCommand(ring, put, call.cmd)
    IN  /\ ring' = IF end = Usable THEN WriteCommand(with, end, Jump) ELSE with
        /\ Finished(IF end = Usable THEN 0 ELSE end)

(* GetSpace tests whether it must wait.  No call starts with an error, so that
   an error here is the one of the FlushSync that has just returned. *)
Waiting == call.pc = "space" /\ ~sync /\ ~last.error
NoRoomAtEnd == put + call.cmd.size > Usable

WrapBlocked == last.get > put \/ last.get = 0

(* GetSpace: WaitForAvailableEntries, first part. *)
GetSpaceWrapWait == Waiting /\ NoRoomAtEnd /\ WrapBlocked /\ Loop /\ UNCHANGED call

GetSpaceJump ==
    /\ Waiting /\ NoRoomAtEnd /\ ~WrapBlocked
    /\ ring' = WriteCommand(ring, put, Jump)
    /\ put' = 0
    /\ UNCHANGED <<sent, token, last, lost, call, sync, open, blocks, wire, deferred,
                   fast, service, replies, updates, generation>>

(* Second part. *)
GetSpaceWait ==
    /\ Waiting /\ ~NoRoomAtEnd
    /\ AvailableEntries(last.get, put) < call.cmd.size
    /\ Loop
    /\ UNCHANGED call

(* FlushSync failed: WaitForAvailableEntries returns at once, and the command is
   placed at put_, with or without room, perhaps beyond the end of the ring. *)
GetSpaceLost ==
    /\ call.pc = "space" /\ ~sync /\ last.error
    /\ PlaceCommand
    /\ UNCHANGED <<sent, token, last, lost, sync, open, wire, deferred, fast,
                   service, replies, updates, generation>>

(* There is room; flush if much is unsent or the last flush is long ago. *)
GetSpace(late) ==
    LET unsent == (put + Usable - sent) % Usable
        limit  == Usable \div (IF last.get = sent THEN 16 ELSE 2)
    IN  /\ Waiting /\ ~NoRoomAtEnd
        /\ AvailableEntries(last.get, put) >= call.cmd.size
        /\ IF unsent > limit \/ late THEN Flush(<<>>) ELSE UNCHANGED <<sent, wire>>
        /\ PlaceCommand
        /\ UNCHANGED <<token, last, lost, sync, open, deferred, fast, service,
                       replies, updates, generation>>

(* Finish: at least one FlushSync, until the reader is at put_. *)
FinishLoop ==
    /\ call.pc \in {"finish", "finishing"} /\ ~sync
    /\ call.pc = "finish" \/ put # last.get
    /\ ~last.error
    /\ Loop
    /\ call' = [call EXCEPT !.pc = "finishing"]

FinishReturn ==
    /\ call.pc \in {"finish", "finishing"} /\ ~sync
    /\ last.error \/ (call.pc = "finishing" /\ put = last.get)
    /\ call' = Idle
    /\ UNCHANGED <<ring, put, sent, token, last, lost, sync, open, blocks, wire,
                   deferred, fast, service, replies, updates, generation>>

(* WaitForToken(block.token) returns at once for a token of before a wrap. *)
TokenPassed ==
    LET t == blocks[call.block].token
    IN  t > token \/ Passed(t, last.token)

(* The FlushSync of WaitForToken has failed. *)
FlushFailed == call.pc = "waiting" /\ last.error

(* The token has not come: is there anything in the ring that could bring it? *)
WaitsForToken == call.pc \in {"wait", "waiting"} /\ ~sync /\ ~FlushFailed /\ ~TokenPassed

WaitForTokenLoop ==
    /\ WaitsForToken
    /\ last.get # put
    /\ ~last.error
    /\ Loop
    /\ call' = [call EXCEPT !.pc = "waiting"]

(* "Empty command buffer while waiting on a token" ends the client's process,
   and is looked for before FlushSync has a chance to report an error. *)
WaitForTokenFatal ==
    /\ WaitsForToken
    /\ last.get = put
    /\ call' = [call EXCEPT !.pc = "fatal"]
    /\ UNCHANGED <<ring, put, sent, token, last, lost, sync, open, blocks, wire,
                   deferred, fast, service, replies, updates, generation>>

(* The end of Alloc: the block is freed and taken.  With an error FlushSync
   fails without sending anything. *)
WaitForTokenReturn ==
    /\ call.pc \in {"wait", "waiting"} /\ ~sync
    /\ FlushFailed \/ TokenPassed \/ (last.error /\ last.get # put)
    /\ blocks' = [blocks EXCEPT ![call.block].state = "IN_USE"]
    /\ call' = Idle
    /\ UNCHANGED <<ring, put, sent, token, last, lost, sync, open, wire, deferred,
                   fast, service, replies, updates, generation>>

-----------------------------------------------------------------------------
(* The service. *)

(* Where GpuChannel puts a GetStateFast: first, unless the last message
   handled was one too; then behind the first other message. *)
FastPosition(queue) ==
    IF fast /\ \E i \in DOMAIN queue : queue[i].kind # "fast"
    THEN 1 + CHOOSE i \in DOMAIN queue :
                queue[i].kind # "fast" /\ \A j \in 1..(i - 1) : queue[j].kind = "fast"
    ELSE 1

OnMessageReceived ==
    LET m == Head(wire)
        i == IF m.kind = "fast" THEN FastPosition(deferred) ELSE Len(deferred) + 1
    IN  /\ wire # <<>>
        /\ wire' = Tail(wire)
        /\ deferred' = SubSeq(deferred, 1, i - 1) \o <<m>>
                       \o SubSeq(deferred, i, Len(deferred))
        /\ UNCHANGED <<ring, client, last, lost, sync, open, fast, service, replies,
                       updates, generation>>

(* The first parse error is announced at once: OnParseError. *)
Announced(s) == updates \o (IF s.error /\ ~service.error THEN <<Destroyed>> ELSE <<>>)

(* ReportState, after the Destroyed message of a failed command. *)
Report(s) ==
    /\ generation' = generation + 1
    /\ updates' = Append(Announced(s), State(s, generation + 1))

(* GpuChannel::HandleMessage: the reply to GetStateFast, or the flush with
   which the scheduler starts to process commands. *)
HandleMessage ==
    LET m == Head(deferred)
        s == [service EXCEPT !.put = IF m.kind = "flush" THEN m.put ELSE @]
        work == s.get # s.put /\ ~s.error
    IN  /\ deferred # <<>> /\ ~service.busy /\ service.scheduled
        /\ deferred' = Tail(deferred)
        /\ fast' = (m.kind = "fast")
        /\ IF m.kind = "fast"
           THEN /\ generation' = generation + 1
                /\ replies' = <<State(service, generation + 1)>>
                /\ UNCHANGED <<service, updates>>
           ELSE /\ service' = [s EXCEPT !.busy = work]
                /\ IF work THEN UNCHANGED <<updates, generation>> ELSE Report(s)
                /\ UNCHANGED replies
        /\ UNCHANGED <<ring, client, last, lost, sync, open, wire>>

(* MakeCurrent fails before a message is looked at: the context is lost and the
   message dropped.  Nobody answers it, because RouteMessage reports success. *)
MakeCurrentFails ==
    /\ ContextLoss
    /\ deferred # <<>> /\ ~service.busy /\ service.scheduled
    /\ deferred' = Tail(deferred)
    /\ fast' = (Head(deferred).kind = "fast")
    /\ service' = [service EXCEPT !.error = TRUE]
    /\ updates' = Announced(service')
    /\ UNCHANGED <<ring, client, last, lost, sync, open, wire, replies, generation>>

(* One round of the loop in GpuScheduler::PutChanged.  The decoder may fail,
   or unschedule the command buffer; HandleMessage then leaves a message to
   itself. *)
ProcessCommand(fails, unschedules) ==
    LET c == ring[service.get].cmd
        s == [service EXCEPT
                !.get   = IF Intact(ring, @) THEN After(@, c) ELSE @,
                !.token = IF Intact(ring, service.get) /\ c.op = "token" THEN c.arg ELSE @,
                !.error = fails \/ ~Intact(ring, service.get),
                !.scheduled = ~unschedules]
        done == s.error \/ unschedules \/ s.get = s.put
    IN  /\ service.busy
        /\ fails => ContextLoss
        /\ fails \/ unschedules => Intact(ring, service.get) /\ c.op = "use"
        /\ ring' = [i \in DOMAIN ring |->
                      IF c # None /\ i \in service.get..(service.get + c.size - 1)
                      THEN Garbage ELSE ring[i]]
        /\ service' = [s EXCEPT !.busy = ~done]
        /\ IF done THEN Report(s) ELSE UNCHANGED <<updates, generation>>
        /\ deferred' = IF unschedules THEN <<Rescheduled>> \o deferred ELSE deferred
        /\ UNCHANGED <<client, last, lost, sync, open, wire, fast, replies>>

(* SetScheduled(true), for instance when a swap has completed. *)
SetScheduled ==
    /\ ~service.scheduled
    /\ service' = [service EXCEPT !.scheduled = TRUE]
    /\ UNCHANGED <<ring, client, last, lost, sync, open, wire, deferred, fast,
                   replies, updates, generation>>

(* The channel is closed and the service gone.  What it has sent is still
   received; the task of the proxy's OnChannelError comes after that. *)
CloseChannel ==
    /\ ContextLoss /\ open
    /\ open' = FALSE
    /\ service' = [service EXCEPT !.error = TRUE, !.busy = FALSE, !.scheduled = TRUE]
    /\ wire' = <<>> /\ deferred' = <<>> /\ fast' = FALSE
    /\ updates' = Append(updates, Destroyed)
    /\ UNCHANGED <<ring, client, last, lost, sync, replies, generation>>

-----------------------------------------------------------------------------
CallStep ==
    \/ GetSpaceWrapWait \/ GetSpaceJump \/ GetSpaceWait \/ GetSpaceLost
    \/ \E late \in BOOLEAN : GetSpace(late)
    \/ FinishLoop \/ FinishReturn
    \/ WaitForTokenLoop \/ WaitForTokenFatal \/ WaitForTokenReturn

ClientStep == CallStep \/ ReceiveReply \/ SendFails

ServiceStep ==
    \/ OnMessageReceived
    \/ HandleMessage
    \/ MakeCurrentFails
    \/ \E fails, unschedules \in BOOLEAN : ProcessCommand(fails, unschedules)
    \/ SetScheduled

Next ==
    \/ \E b \in Blocks, n \in Sizes : IssueUse(b, n)
    \/ \E b \in Blocks \cup {None} : InsertToken(b)
    \/ \E b \in Blocks : AllocFree(b) \/ AllocPending(b)
    \/ StartFinish
    \/ FreeUnused
    \/ ClientStep
    \/ ReceiveUpdate
    \/ ServiceStep
    \/ CloseChannel

Spec == Init /\ [][Next]_vars

(* The client runs its own code, which includes the end of a wait for a reply:
   the channel delivers it or, when it is closed, cancels the call.  The service
   handles its messages and is scheduled again some time. *)
FairSpec == Spec /\ WF_vars(ClientStep) /\ WF_vars(ServiceStep)

-----------------------------------------------------------------------------
(* Properties. *)

TypeOK ==
    /\ ring \in [0..(Total - 1) -> [cmd : Commands \cup {Jump, None}, part : 0..(Total - 1)]]
    /\ put \in Nat /\ (~lost => put < Usable)
    /\ token \in 0..(TokenModulus - 1)
    /\ last \in [get : 0..(Total - 1), token : 0..(TokenModulus - 1), error : BOOLEAN]
    /\ \A b \in Blocks : blocks[b].state \in {"FREE", "IN_USE", "PENDING"}
    /\ Len(replies) <= 1
    /\ {lost, sync, open} \subseteq BOOLEAN

(* One step of a reader that goes on until p: the offset, and the commands met. *)
Advance(r, p, reader) ==
    LET at == reader.at
        c  == r[at].cmd
    IN  IF at = p THEN reader
        ELSE IF ~Intact(r, at) THEN [at |-> p, met |-> Append(reader.met, Corrupt)]
        ELSE [at  |-> After(at, c),
              met |-> IF c.op = "jump" THEN reader.met ELSE Append(reader.met, c)]

Walk(r, get, p) ==
    LET walk[k \in 0..Total] ==
            IF k = 0 THEN [at |-> get, met |-> <<>>]
            ELSE CHOOSE q \in {Advance(r, p, reader) : reader \in {walk[k - 1]}} : TRUE
    IN  walk

(* The commands between the reader and put_, as the reader will meet them. *)
Pending == Walk(ring, service.get, put)[Total].met

(* Nothing between the reader and put_ was overwritten before it was read,
   whatever the age of the state the client went by, and the walk meets only
   whole commands: the arithmetic of AvailableEntries, of the jump and of
   the reserved entries at the end keeps writer and reader apart. *)
CommandsIntact ==
    ~service.error => \A i \in DOMAIN Pending : Pending[i] # Corrupt

(* Memory is reused only after every command that reads it: the token wait of
   FencedAllocator and RingBuffer and FreeUnused let a block go only when its
   token has passed, also when token_ wraps. *)
MemoryFenced ==
    \A b \in Blocks :
        (blocks[b].state = "FREE" /\ ~service.error)
            => \A i \in DOMAIN Pending : ~(Pending[i].op = "use" /\ Pending[i].arg = b)

(* "Empty command buffer while waiting on a token" is logged by no client that
   has not been told of the loss of its context.  With a lost context it may
   be: GetSpace places a command without room and put_ comes to meet get. *)
NoFatalWait == call.pc = "fatal" => lost

(* A client waits for a reply that nobody will send: the GetStateFast was
   dropped, and only the closing of the channel would end the wait. *)
Unanswered ==
    /\ sync /\ open /\ replies = <<>>
    /\ \A queue \in {wire, deferred} : \A i \in DOMAIN queue : queue[i].kind # "fast"

(* This happens only where MakeCurrent has failed. *)
AnsweredOrLost == Unanswered => service.error

(* What the client does by the last_state_ it knows, however old, is right:
   it overwrites no command that is still to be read, lets no memory go that
   is still to be read, and, until it is told of a lost context, waits for no
   token that cannot come; an answer it waits for is lost with the context only. *)
ClientViewSafe ==
    TypeOK /\ CommandsIntact /\ MemoryFenced /\ NoFatalWait /\ AnsweredOrLost

(* Memory is handed out again, from the free blocks or after a wait for the
   token of a pending one, only when no command to come reads it. *)
ReusedAfterToken ==
    [][\A b \in Blocks :
         (blocks[b].state # "IN_USE" /\ blocks'[b].state = "IN_USE" /\ ~service.error)
         => \A i \in DOMAIN Pending : ~(Pending[i].op = "use" /\ Pending[i].arg = b)]_vars

Stream == INSTANCE CommandStream WITH
              pending <- IF service.error THEN <<>> ELSE Pending,
              lost <- service.error

(* The ring, with its jumps and wraps, is a queue of commands. *)
ImplementsCommandStream == Stream!Spec

(* Every call of the helper returns: a GetStateFast that overtakes the flush
   it goes with does not keep the flush from being handled, and an error ends
   the loops.  The exceptions are the code's: the FATAL of WaitForToken, and a
   GetStateFast that is dropped because MakeCurrent fails. *)
CallsReturn ==
    (call # Idle) ~> (call = Idle \/ call.pc = "fatal" \/ Unanswered)
=============================================================================
