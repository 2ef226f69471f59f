--------------------------- MODULE AirCpuChannel ---------------------------
(***************************************************************************)
(* The CPU runtime's channels (runtime_lib/aircpu/channel.cpp,             *)
(* runtime_lib/airhost/include/air_channel.h) as called by the code that   *)
(* mlir/lib/Conversion/AIRToAsyncPass.cpp emits.  One AIR channel          *)
(* declaration is a global memref of 64-bit pointers, all 0 at start; the  *)
(* first put allocates a channel_t per element, without synchronisation.   *)
(* Every channel_t is a mutex, a condition variable, a token count and a   *)
(* buffer.  Threads run straight-line programs of puts and gets; a step is *)
(* one access to shared memory.                                            *)
(***************************************************************************)
EXTENDS Integers, Sequences, FiniteSets

CONSTANTS
    Thread,         \* the threads of the async runtime
    Prog,           \* Prog[t]: the puts and gets thread t executes, in order
    Size,           \* the size list of the air.channel declaration
    BroadcastShape, \* its broadcast_shape attribute, or NoBroadcast
    NoBroadcast, NoThread, Null, NoMsg

(***************************************************************************)
(* The lowering.  Size is padded to rank 2; a put also passes the padded   *)
(* shape and the broadcast shape, <<1, 1>> when there is none.  shape[0]   *)
(* arrives as chnl_size1 and shape[1] as chnl_size0, so element i of a     *)
(* pair here is index 2 - i of the runtime's arrays.                       *)
(***************************************************************************)
Shape == [i \in 1..2 |-> IF i <= Len(Size) THEN Size[i] ELSE 1]
ChannelPutOpBcast == IF BroadcastShape = NoBroadcast THEN <<1, 1>>
                                                     ELSE BroadcastShape
NCells == Shape[1] * Shape[2]
Cells  == 0..(NCells - 1)

\* chnl_bcast_size[i] / chnl_size[i], and the check in front of it.
Divisible == \A i \in 1..2 : ChannelPutOpBcast[i] % Shape[i] = 0
Ratio     == [i \in 1..2 |-> ChannelPutOpBcast[i] \div Shape[i]]
Fanout    == Ratio[1] * Ratio[2]

Ops == [kind : {"put", "get"}, at : Nat \X Nat]

ASSUME SizeAssumption == /\ Size \in Seq(Nat \ {0})
                         /\ Len(Size) <= 2
ASSUME BroadcastAssumption ==
    BroadcastShape # NoBroadcast => BroadcastShape \in (Nat \ {0}) \X (Nat \ {0})
ASSUME ProgAssumption == Prog \in [Thread -> Seq(Ops)]
ASSUME NoThreadAssumption == NoThread \notin Thread

\* The channel_t that thread t allocates for element i, and the transfer
\* of the k-th operation of thread t.
Obj  == Thread \X Cells
Inst == UNION {{t} \X (1..Len(Prog[t])) : t \in Thread}
Msg     == {m \in Inst : Prog[m[1]][m[2]].kind = "put"}
GetInst == {m \in Inst : Prog[m[1]][m[2]].kind = "get"}

ASSUME NullAssumption  == Null \notin Obj
ASSUME NoMsgAssumption == NoMsg \notin Inst

VARIABLES
    data,   \* channel->data: [Cells -> Obj or Null]
    token,  \* channel_t::token
    buf,    \* channel_t::data, the transfer it was last filled from
    mtx,    \* channel_t::mtx, the owner or NoThread
    pc,     \* where thread t is in its current operation
    ip,     \* the operation thread t executes; past the end when finished
    ai,     \* loop variable of thread t's allocation loop
    chan,   \* local variable chan
    dst,    \* the transfer a get has copied out of the buffer
    rcv,    \* history: rcv[m] is the set of gets that received m
    status  \* "running", or how the process died: "exit" or "crash"

objVars == <<token, buf, mtx>>
vars == <<data, token, buf, mtx, pc, ip, ai, chan, dst, rcv, status>>

Labels == {"start", "alloc", "resolve", "lock", "test", "wait", "copy", "finish"}

TypeOK ==
    /\ data \in [Cells -> Obj \cup {Null}]
    /\ token \in [Obj -> 0..Fanout]
    /\ buf \in [Obj -> Msg \cup {NoMsg}]
    /\ mtx \in [Obj -> Thread \cup {NoThread}]
    /\ pc \in [Thread -> Labels]
    /\ ip \in [Thread -> Nat \ {0}]
    /\ ai \in [Thread -> 0..NCells]
    /\ chan \in [Thread -> Obj \cup {Null}]
    /\ dst \in [Thread -> Msg \cup {NoMsg}]
    /\ rcv \in [Msg -> SUBSET GetInst]
    /\ status \in {"running", "exit", "crash"}

Init ==
    /\ data = [i \in Cells |-> Null]
    /\ token = [o \in Obj |-> 0]
    /\ buf = [o \in Obj |-> NoMsg]
    /\ mtx = [o \in Obj |-> NoThread]
    /\ pc = [t \in Thread |-> "start"]
    /\ ip = [t \in Thread |-> 1]
    /\ ai = [t \in Thread |-> 0]
    /\ chan = [t \in Thread |-> Null]
    /\ dst = [t \in Thread |-> NoMsg]
    /\ rcv = [m \in Msg |-> {}]
    /\ status = "running"

Finished(t) == ip[t] > Len(Prog[t])
Op(t)    == Prog[t][ip[t]]
IsPut(t) == Op(t).kind = "put"
IsGet(t) == Op(t).kind = "get"

At(t, label) == status = "running" /\ ~Finished(t) /\ pc[t] = label
Goto(t, label) == pc' = [pc EXCEPT ![t] = label]

\* Mutant of GetIdx: the broadcast ratio forgotten.
MutGetIdxNoRatio(at) == at[1] * Shape[2] + at[2]
\* Mutant of PutIdx: the second index forgotten.
MutPutIdxFirstOnly(at) == at[1] * Shape[1]

\* The element a put and a get address.  The put multiplies by chnl_size[1],
\* which is shape[0]; the get by channel->shape[1].
PutIdx(at) == at[1] * Shape[1] + at[2]
GetIdx(at) == (at[1] \div Ratio[1]) * Shape[2] + at[2] \div Ratio[2]
Idx(t) == IF IsPut(t) THEN PutIdx(Op(t).at) ELSE GetIdx(Op(t).at)

-----------------------------------------------------------------------------
\* Mutant of PutStart: allocates without looking at data[0].
MutPutStartAlways(t) ==
    /\ At(t, "start") /\ IsPut(t)
    /\ pc' = [pc EXCEPT ![t] = "alloc"]
    /\ ai' = [ai EXCEPT ![t] = 0]
    /\ UNCHANGED <<data, objVars, ip, chan, dst, rcv, status>>

\* A put checks divisibility, then looks at data[0] to decide on allocation.
PutStart(t) ==
    /\ At(t, "start") /\ IsPut(t)
    /\ IF ~Divisible
       THEN status' = "exit" /\ UNCHANGED pc
       ELSE /\ Goto(t, IF data[0] = Null THEN "alloc" ELSE "resolve")
            /\ UNCHANGED status
    /\ UNCHANGED <<data, objVars, ip, ai, chan, dst, rcv>>

\* One turn of the allocation loop: new channel_t, then data[i] = pointer.
PutAlloc(t) ==
    /\ At(t, "alloc")
    /\ LET i == ai[t] IN
         /\ data' = [data EXCEPT ![i] = <<t, i>>]
         /\ token' = [token EXCEPT ![<<t, i>>] = 0]
         /\ ai' = [ai EXCEPT ![t] = i + 1]
         /\ Goto(t, IF i + 1 = NCells THEN "resolve" ELSE "alloc")
    /\ UNCHANGED <<buf, mtx, ip, chan, dst, rcv, status>>

\* A get spins until data[0] is set (the spinning itself changes nothing).
GetStart(t) ==
    /\ At(t, "start") /\ IsGet(t)
    /\ data[0] # Null
    /\ Goto(t, "resolve")
    /\ UNCHANGED <<data, objVars, ip, ai, chan, dst, rcv, status>>

\* chan = data[idx].  An index past the array or a pointer still 0 is
\* dereferenced a statement later; that is modelled as a crash.
Resolve(t) ==
    /\ At(t, "resolve")
    /\ IF Idx(t) \in Cells /\ data[Idx(t)] # Null
       THEN /\ chan' = [chan EXCEPT ![t] = data[Idx(t)]]
            /\ Goto(t, "lock")
            /\ UNCHANGED status
       ELSE status' = "crash" /\ UNCHANGED <<chan, pc>>
    /\ UNCHANGED <<data, objVars, ip, ai, dst, rcv>>

\* Mutant of Lock: enters without waiting for the mutex.
MutLockNoWait(t) ==
    /\ At(t, "lock")
    /\ mtx' = [mtx EXCEPT ![chan[t]] = t]
    /\ Goto(t, "test")
    /\ UNCHANGED <<data, token, buf, ip, ai, chan, dst, rcv, status>>

\* unique_lock, and the re-acquisition inside cv.wait.
Lock(t) ==
    /\ At(t, "lock")
    /\ mtx[chan[t]] = NoThread
    /\ mtx' = [mtx EXCEPT ![chan[t]] = t]
    /\ Goto(t, "test")
    /\ UNCHANGED <<data, token, buf, ip, ai, chan, dst, rcv, status>>

\* Mutants of MayProceed: a put, or a get, that does not wait.
MutMayProceedPut(t) == IsPut(t) \/ token[chan[t]] > 0
MutMayProceedGet(t) == IsPut(t) => token[chan[t]] = 0

\* The predicate of cv.wait: an empty channel for a put, tokens for a get.
MayProceed(t) == IF IsPut(t) THEN token[chan[t]] = 0 ELSE token[chan[t]] > 0

\* cv.wait evaluates its predicate, and blocks and unlocks in one step.
Test(t) ==
    /\ At(t, "test")
    /\ IF MayProceed(t)
       THEN Goto(t, "copy") /\ UNCHANGED mtx
       ELSE Goto(t, "wait") /\ mtx' = [mtx EXCEPT ![chan[t]] = NoThread]
    /\ UNCHANGED <<data, token, buf, ip, ai, chan, dst, rcv, status>>

\* A blocked thread may also wake without having been notified.
SpuriousWake(t) ==
    /\ At(t, "wait")
    /\ Goto(t, "lock")
    /\ UNCHANGED <<data, objVars, ip, ai, chan, dst, rcv, status>>

\* The four copy loops, under the mutex.
Copy(t) ==
    /\ At(t, "copy")
    /\ Goto(t, "finish")
    /\ IF IsPut(t)
       THEN buf' = [buf EXCEPT ![chan[t]] = <<t, ip[t]>>] /\ UNCHANGED dst
       ELSE dst' = [dst EXCEPT ![t] = buf[chan[t]]] /\ UNCHANGED buf
    /\ UNCHANGED <<data, token, mtx, ip, ai, chan, rcv, status>>

\* Mutant of NotifyAllAndReturn: wakes nobody.
MutNoNotify(t) == Goto(t, "start")

\* notify_all on the channel's condition variable, as thread t returns.
NotifyAllAndReturn(t) ==
    pc' = [u \in Thread |->
             IF u = t THEN "start"
             ELSE IF pc[u] = "wait" /\ chan[u] = chan[t] THEN "lock" ELSE pc[u]]

\* Mutant of PutFinish: one token whatever the broadcast.
MutPutFinishOneToken(t) ==
    /\ At(t, "finish") /\ IsPut(t)
    /\ token' = [token EXCEPT ![chan[t]] = 1]
    /\ NotifyAllAndReturn(t)
    /\ mtx' = [mtx EXCEPT ![chan[t]] = NoThread]
    /\ ip' = [ip EXCEPT ![t] = @ + 1]
    /\ UNCHANGED <<data, buf, ai, chan, dst, rcv, status>>

\* Token update, notify_all and the unlock at the end of the scope.
PutFinish(t) ==
    /\ At(t, "finish") /\ IsPut(t)
    /\ token' = [token EXCEPT ![chan[t]] = Fanout]
    /\ NotifyAllAndReturn(t)
    /\ mtx' = [mtx EXCEPT ![chan[t]] = NoThread]
    /\ ip' = [ip EXCEPT ![t] = @ + 1]
    /\ UNCHANGED <<data, buf, ai, chan, dst, rcv, status>>

GetFinish(t) ==
    /\ At(t, "finish") /\ IsGet(t)
    /\ token' = [token EXCEPT ![chan[t]] = @ - 1]
    /\ rcv' = [rcv EXCEPT ![dst[t]] = @ \cup {<<t, ip[t]>>}]
    /\ NotifyAllAndReturn(t)
    /\ mtx' = [mtx EXCEPT ![chan[t]] = NoThread]
    /\ ip' = [ip EXCEPT ![t] = @ + 1]
    /\ UNCHANGED <<data, buf, ai, chan, dst, status>>

\* The program is over: every thread finished, or the process died.
Over == status # "running" \/ \A t \in Thread : Finished(t)
Terminated == Over /\ UNCHANGED vars

Step(t) == \/ PutStart(t) \/ PutAlloc(t) \/ GetStart(t) \/ Resolve(t)
           \/ Test(t) \/ Copy(t) \/ PutFinish(t) \/ GetFinish(t)

Next == \/ \E t \in Thread : Step(t) \/ Lock(t) \/ SpuriousWake(t)
        \/ Terminated

Spec == Init /\ [][Next]_vars

(***************************************************************************)
(* Fairness.  A thread that can run eventually runs; a thread blocked on a *)
(* mutex that is released over and over eventually gets it (strong         *)
(* fairness: a waiter woken spuriously may take it in between).  Spurious  *)
(* wake-ups themselves are never required to happen.                       *)
(***************************************************************************)
Fairness == \A t \in Thread : WF_vars(Step(t)) /\ SF_vars(Lock(t))
FairSpec == Spec /\ Fairness

-----------------------------------------------------------------------------
(***************************************************************************)
(* The refinement: each channel_t is a channel of AirChannel.              *)
(***************************************************************************)
AbsSlot == [o \in Obj |-> IF token[o] > 0 THEN buf[o] ELSE NoMsg]
AbsSent == {m \in Msg : m[2] < ip[m[1]]}

A == INSTANCE AirChannel WITH
       Chan <- Obj, Msg <- Msg, GetInst <- GetInst, Fanout <- Fanout,
       NoMsg <- NoMsg,
       slot <- AbsSlot, left <- token, sent <- AbsSent, rcv <- rcv

\* Every behaviour of the runtime, with its mutexes, condition variables and
\* racing allocation, is a behaviour of one-place broadcast channels.
ImplementsAirChannel == A!Spec

\* At most one thread is inside a channel_t's critical section, it is the
\* one that owns the mutex, and what it waited for still holds there: a put
\* writes only an empty channel and a get reads only a full one.
CriticalSection ==
    /\ \A t \in Thread : pc[t] \in {"test", "copy", "finish"} => mtx[chan[t]] = t
    /\ \A t \in Thread : pc[t] \in {"copy", "finish"} => MayProceed(t)

\* No transfer is lost, overwritten before it is read, or read more often
\* than the broadcast allows, on whichever channel_t it was put.
ExactFanout == A!ExactFanout

\* The process neither dereferences a missing channel_t nor exits.
StaysUp == status = "running"

\* A transfer that is waiting to be read waits in a channel_t the channel
\* array still points to, so that later gets can find it.
UnreadIsReachable == \A o \in Obj : token[o] > 0 => data[o[2]] = o

\* A get receives what was put on the element its indices select: the one
\* its indices map to when each is divided by the broadcast ratio.
SelectsElement ==
    \A m \in Msg : \A g \in rcv[m] :
        LET put == Prog[m[1]][m[2]].at
            get == Prog[g[1]][g[2]].at
        IN  put = <<get[1] \div Ratio[1], get[2] \div Ratio[2]>>

\* Every destination receives every transfer: two gets at the same indices
\* never receive the same transfer.
EveryDestinationOnce ==
    \A m \in Msg : \A g, h \in rcv[m] :
        g # h => Prog[g[1]][g[2]].at # Prog[h[1]][h[2]].at

\* A program that balances puts and gets runs to its end.
AllFinish == <>(\A t \in Thread : Finished(t))

-----------------------------------------------------------------------------
(***************************************************************************)
(* The inductive invariant behind the theorems of AirCpuChannelProofs.     *)
(***************************************************************************)
\* A thread allocates at most once; nobody uses a channel_t before that, so
\* the constructor never resets a channel_t in use.
AllocInv ==
    /\ \A t \in Thread : pc[t] = "alloc" => ai[t] < NCells
    /\ \A t \in Thread : ai[t] > 0 => data[0] # Null
    /\ \A i \in Cells : data[i] # Null => i = data[i][2] /\ i < ai[data[i][1]]
    /\ \A t \in Thread : chan[t] # Null => chan[t][2] < ai[chan[t][1]]
    /\ \A t \in Thread, i \in Cells : i >= ai[t] => token[<<t, i>>] = 0

\* Where a thread is, what it holds and what it has copied.
FlowInv ==
    \A t \in Thread :
      /\ pc[t] # "start" => ~Finished(t) /\ (IsPut(t) => Divisible)
      /\ pc[t] = "alloc" => IsPut(t)
      /\ pc[t] \in {"lock", "test", "wait", "copy", "finish"} => chan[t] # Null
      /\ pc[t] = "finish" =>
           IF IsPut(t) THEN buf[chan[t]] = <<t, ip[t]>> ELSE dst[t] = buf[chan[t]]

\* An unread transfer was sent, and a get that received one is over.
HistoryInv ==
    /\ \A o \in Obj : token[o] > 0 => buf[o] \in AbsSent
    /\ \A m \in Msg : \A g \in rcv[m] : g[2] < ip[g[1]]

IndInv == TypeOK /\ AllocInv /\ FlowInv /\ CriticalSection /\ HistoryInv
=============================================================================
