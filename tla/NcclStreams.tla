---------------------------- MODULE NcclStreams -----------------------------
(***************************************************************************)
(* One rank's GPU during an optimizer step: what the host has launched,    *)
(* and what the device makes of it.  The host runs ahead.  Kernels go to   *)
(* the current stream, an operation of NcclCollectives to the stream of    *)
(* its communicator; each stream is a FIFO, and events make one stream     *)
(* wait for a point of another.  Memory comes from PyTorch's caching       *)
(* allocator: a block is free as soon as the host has dropped the tensor,  *)
(* although what was launched may still be using it, since the kernels of  *)
(* the next owner come later on the same stream.                           *)
(*                                                                         *)
(* The host's program is the 1F1B schedule of the rank's stage, then the   *)
(* synchronization of the gradients, and, once the host has waited for the *)
(* norms, the update and the broadcast of the parameters by their owners.  *)
(* All tensors have one size.                                              *)
(***************************************************************************)
EXTENDS Schedule1F1B, SequencesExt

CONSTANTS
    Owners,     \* ranks of the data group
    Buckets,    \* buckets of parameters each of them owns
    MaxBlocks   \* of memory, as many as are ever needed

ASSUME StreamsAssumption ==
    /\ ScheduleParameters
    /\ Owners \in Nat \ {0}
    /\ Buckets \in Nat \ {0}
    /\ MaxBlocks \in Nat \ {0}

Blocks == 1..MaxBlocks
Current == "current"
Comms == {"full", "data"}
Streams == Comms \cup {Current}

-----------------------------------------------------------------------------
(* The host's program                                                      *)

Tensor(kind, n) == [kind |-> kind, n |-> n]
In(mb)      == Tensor("stage_input", mb)
Out(mb)     == Tensor("stage_output", mb)
OutGrad(mb) == Tensor("grad", mb)
InGrad(mb)  == Tensor("stage_input.grad", mb)

(* A call, the tensors it reads and returns, and those the host drops      *)
(* afterwards.  A kernel may stand for many.                               *)
Call(name, on, reads, returns, drops) ==
    [name |-> name, on |-> on, reads |-> reads, returns |-> returns, drops |-> drops]
Kernel(reads, returns, drops) == Call("kernel", Current, reads, returns, drops)

ForwardCalls(s, mb) ==
    << IF IsFirst(s) THEN Kernel({}, {In(mb)}, {})
                     ELSE Call("recv_like", "full", {}, {In(mb)}, {}),
       Kernel({In(mb)}, {Out(mb)}, {}) >>
    \o IF IsLast(s) THEN <<>> ELSE << Call("send", "full", {Out(mb)}, {}, {}) >>

(* backward() releases what the forward pass had saved.                    *)
BackwardCalls(s, mb) ==
    LET slots == {In(mb), InGrad(mb), Out(mb), OutGrad(mb)}
        pass(drops) == Kernel({In(mb), Out(mb), OutGrad(mb)}, {InGrad(mb)}, drops)
    IN  << IF IsLast(s) THEN Kernel({Out(mb)}, {OutGrad(mb)}, {})
                        ELSE Call("recv_like", "full", {}, {OutGrad(mb)}, {}) >>
        \o IF IsFirst(s) THEN << pass(slots) >>
           ELSE << pass({OutGrad(mb)}),
                   Call("send", "full", {InGrad(mb)}, {}, slots \ {OutGrad(mb)}) >>

(* A bucket of gradients: flattened, reduced, copied back; the sums over   *)
(* the other groups, and those of the norm, are of the same kind.          *)
SyncCalls ==
    LET flat == Tensor("flat", 0)  synced == Tensor("synced", 0)
    IN  << Kernel({}, {flat}, {}),
           Call("all_reduce", "data", {flat}, {synced}, {}),
           Kernel({synced}, {}, {flat, synced}) >>

(* Each parameter is updated by way of a temporary.                        *)
UpdateCalls ==
    << Kernel({}, {Tensor("denom", 0)}, {}),
       Kernel({Tensor("denom", 0)}, {}, {Tensor("denom", 0)}) >>

(* Bucket by bucket and owner by owner, then a barrier.                    *)
ShareCalls(me) ==
    LET payload(k) == Tensor("payload", k)  shared(k) == Tensor("shared", k)
        bucket(k) ==
            LET root == (k - 1) \div Buckets = me
            IN  << Kernel({}, {payload(k)}, {}),
                   Call(IF root THEN "broadcast_root" ELSE "broadcast", "data",
                        {payload(k)}, {shared(k)}, {}),
                   Kernel({shared(k)}, {}, {payload(k), shared(k)}) >>
    IN  FlattenSeq([k \in 1..(Owners * Buckets) |-> bucket(k)])
        \o << Call("barrier", "data", {}, {}, {}) >>

(* From the first micro-batch until the norms are copied to the host: then *)
(* the device is done with everything; and from there to the end.          *)
GradientCalls(s) ==
    FlattenSeq([k \in 1..(2 * M) |->
        LET entry == Schedule(s)[k]
        IN  IF entry.op = "forward" THEN ForwardCalls(s, entry.mb)
                                    ELSE BackwardCalls(s, entry.mb)])
    \o SyncCalls \o << Call("to_cpu", Current, {}, {}, {}) >>
ParameterCalls(me) == UpdateCalls \o ShareCalls(me)

-----------------------------------------------------------------------------
VARIABLES
    program,  \* the host's calls
    sync,     \* synchronize_after_collective
    cursor,   \* the next of them
    waiting,  \* the streams the host waits for
    held,     \* the block of each tensor the host holds
    used,     \* how many blocks have ever been in use
    pending,  \* pending_ops of the communicators
    queue,    \* what each stream has still to do, the head under way
    done,     \* how much it has done
    started,  \* whether the head of a stream is work that has begun
    mem,      \* tensors whose values, or parts of them, a block holds
    finished  \* history: tensors that have been written

host == <<cursor, waiting, held, used, pending>>
device == <<queue, done, started, mem, finished>>
gpu == <<program, sync, host, device>>

InitStreams ==
    /\ \/ \E s \in Stages : program = GradientCalls(s)
       \/ \E me \in 0..(Owners - 1) : program = ParameterCalls(me)
    /\ sync \in BOOLEAN
    /\ cursor = 1
    /\ waiting = {}
    /\ held = <<>>
    /\ used = 0
    /\ pending = {}
    /\ queue = [s \in Streams |-> <<>>]
    /\ done = [s \in Streams |-> 0]
    /\ started = [s \in Streams |-> FALSE]
    /\ mem = [b \in Blocks |-> {}]
    /\ finished = {}

-----------------------------------------------------------------------------
(* The host                                                                *)

Here == program[cursor]
Ready(names) == waiting = {} /\ cursor <= Len(program) /\ Here.name \in names

(* The allocator: any block it has that is free, or a new one.             *)
Free(b) == /\ \A t \in DOMAIN held : held[t] # b
           /\ \A op \in pending : b \notin op.keep_alive
Allocatable == {b \in Blocks : b <= used + 1 /\ Free(b)}

(* The blocks of the tensors the host holds once the call has its own.     *)
Holding(f) ==
    [t \in Here.returns \cup DOMAIN held |-> IF t \in Here.returns THEN f[t] ELSE held[t]]

(* What a call reads and writes, and where.  A broadcast reads at its root *)
(* only, whatever it is given elsewhere.                                   *)
Work(c, blocks) ==
    [wait |-> "none", at |-> 0,
     reads |-> {<<t, blocks[t]>> : t \in {u \in c.reads : c.name # "broadcast"}},
     writes |-> {<<t, blocks[t]>> : t \in c.returns}]

(* The tensors the host holds from here on.                                *)
Goes(blocks) ==
    /\ held' = [t \in DOMAIN blocks \ Here.drops |-> blocks[t]]
    /\ used' = IF \E t \in Here.returns : blocks[t] > used THEN used + 1 ELSE used
    /\ cursor' = cursor + 1
    /\ UNCHANGED <<program, sync, done, started, mem, finished>>

Launch ==
    /\ Ready({"kernel"})
    /\ \E f \in [Here.returns -> Allocatable] :
          LET blocks == Holding(f)
          IN  /\ queue' = [queue EXCEPT ![Current] = Append(@, Work(Here, blocks))]
              /\ Goes(blocks)
    /\ UNCHANGED <<waiting, pending>>

(* The value is copied to the host, which waits for the current stream.    *)
ToCpu ==
    /\ Ready({"to_cpu"})
    /\ waiting' = {Current}
    /\ Goes(held)
    /\ UNCHANGED <<queue, pending>>

(* An event recorded now, and the operation that waits for it.             *)
EventOn(s, q) == [wait |-> s, at |-> done[s] + Len(q[s]), reads |-> {}, writes |-> {}]

WaitCurrentStreamBeforeNccl(comm) ==
    [queue EXCEPT ![comm] = Append(@, EventOn(Current, queue))]

CollectFinishedPendingOps == {op \in pending : done[op.comm] < op.at}

(* Mutant: the current stream goes on at once.                             *)
FinishNcclOp_unseen(comm, keep_alive, q) ==
    IF sync
    THEN /\ waiting' = {comm}
         /\ queue' = q
         /\ UNCHANGED pending
    ELSE /\ pending' = CollectFinishedPendingOps
               \cup {[comm |-> comm, at |-> EventOn(comm, q).at, keep_alive |-> keep_alive]}
         /\ queue' = q
         /\ UNCHANGED waiting

(* Either the host waits for the operation, or the current stream does.    *)
FinishNcclOp(comm, keep_alive, q) ==
    IF sync
    THEN /\ waiting' = {comm}
         /\ queue' = q
         /\ UNCHANGED pending
    ELSE /\ pending' = CollectFinishedPendingOps
               \cup {[comm |-> comm, at |-> EventOn(comm, q).at, keep_alive |-> keep_alive]}
         /\ queue' = [q EXCEPT ![Current] = Append(@, EventOn(comm, q))]
         /\ UNCHANGED waiting

(* recv_like, and a broadcast on a rank that is not its root, begin without *)
(* waiting for the current stream.                                         *)
Fenced == {"send", "all_reduce", "broadcast_root"}
Unfenced == {"recv_like", "broadcast"}

Collective ==
    /\ Ready(Fenced \cup Unfenced)
    /\ \E f \in [Here.returns -> Allocatable] :
          LET blocks == Holding(f)
              comm   == Here.on
              before == IF Here.name \in Fenced THEN WaitCurrentStreamBeforeNccl(comm)
                                                ELSE queue
          IN  /\ FinishNcclOp(comm, {blocks[t] : t \in Here.reads \cup Here.returns},
                              [before EXCEPT ![comm] = Append(@, Work(Here, blocks))])
              /\ Goes(blocks)

(* barrier: an all_reduce of a token, and in any mode the host waits.      *)
Barrier ==
    /\ Ready({"barrier"})
    /\ queue' = WaitCurrentStreamBeforeNccl(Here.on)
    /\ waiting' = {Here.on}
    /\ UNCHANGED pending
    /\ Goes(held)

(* synchronize(), and the end of a copy to the host.                       *)
Synchronized(s) ==
    /\ s \in waiting
    /\ queue[s] = <<>>
    /\ waiting' = waiting \ {s}
    /\ pending' = {op \in pending : op.comm # s}
    /\ UNCHANGED <<program, sync, cursor, held, used, device>>

Host == Launch \/ ToCpu \/ Collective \/ Barrier \/ \E s \in Streams : Synchronized(s)

-----------------------------------------------------------------------------
(* The device                                                              *)

Retire(s) ==
    /\ queue' = [queue EXCEPT ![s] = Tail(@)]
    /\ done' = [done EXCEPT ![s] = @ + 1]

(* The tensors an operation writes into a block, and those being written.  *)
Into(b, work) == {w[1] : w \in {v \in work.writes : v[2] = b}}
Writing(b) == UNION {Into(b, Head(queue[s])) : s \in {r \in Streams : started[r]}}

Passes(s) ==
    /\ queue[s] # <<>>
    /\ LET e == Head(queue[s])
       IN  e.wait # "none" /\ done[e.wait] >= e.at
    /\ Retire(s)
    /\ UNCHANGED <<program, sync, host, started, mem, finished>>

Begins(s) ==
    /\ queue[s] # <<>> /\ Head(queue[s]).wait = "none" /\ ~started[s]
    /\ started' = [started EXCEPT ![s] = TRUE]
    /\ mem' = [b \in Blocks |->
          LET mine == Into(b, Head(queue[s]))
          IN  IF mine = {} THEN mem[b] ELSE mine \cup Writing(b)]
    /\ UNCHANGED <<program, sync, host, queue, done, finished>>

Ends(s) ==
    /\ started[s]
    /\ started' = [started EXCEPT ![s] = FALSE]
    /\ finished' = finished \cup {w[1] : w \in Head(queue[s]).writes}
    /\ Retire(s)
    /\ UNCHANGED <<program, sync, host, mem>>

Device == \E s \in Streams : Passes(s) \/ Begins(s) \/ Ends(s)

NextStreams == Host \/ Device
SpecStreams == InitStreams /\ [][NextStreams]_gpu

-----------------------------------------------------------------------------
(* Properties                                                              *)

(* A receive or broadcast that may begin before an earlier kernel is over: *)
(* nothing on its stream has waited for the current stream since.          *)
Exposed(i) ==
    /\ program[i].name \in Unfenced
    /\ \E j \in 1..(i - 1) :
          /\ program[j].on = Current /\ program[j].name = "kernel"
          /\ \A k \in (j + 1)..(i - 1) :
                ~(program[k].name \in Fenced /\ program[k].on = program[i].on)

(* Reads of t under way that find, in its block, something of u.           *)
Found(t, b) == IF t \notin finished THEN {t} ELSE (mem[b] \cup Writing(b)) \ {t}
Misreads ==
    UNION {UNION {{<<r[1], u>> : u \in Found(r[1], r[2])} : r \in Head(queue[s]).reads} :
              s \in {r \in Streams : started[r]}}

(* Whatever a kernel or an operation reads is what was written for it, all *)
(* the time it reads it, with one exception: the output of an exposed      *)
(* receive or broadcast may be in memory that is still being used, to the  *)
(* harm of either.                                                         *)
ReadsAsWritten ==
    \A h \in Misreads :
        /\ h[1] # h[2]
        /\ \E i \in DOMAIN program : Exposed(i) /\ {h[1], h[2]} \cap program[i].returns # {}
=============================================================================
