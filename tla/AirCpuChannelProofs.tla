------------------------ MODULE AirCpuChannelProofs ------------------------
(***************************************************************************)
(* Proofs about the CPU channel runtime for every set of threads, every    *)
(* program of puts and gets and every channel shape: the inductive         *)
(* invariant, mutual exclusion inside a channel_t and the refinement of    *)
(* AirChannel.  None of them excludes the allocation race.                 *)
(***************************************************************************)
EXTENDS AirCpuChannel, TLAPS

USE NoThreadAssumption, NullAssumption, NoMsgAssumption

LEMMA ShapeType == Shape \in [1..2 -> Nat \ {0}]
  BY SizeAssumption DEF Shape

LEMMA BcastType == ChannelPutOpBcast[1] \in Nat \ {0} /\ ChannelPutOpBcast[2] \in Nat \ {0}
  BY BroadcastAssumption DEF ChannelPutOpBcast

LEMMA PositiveProduct ==
  ASSUME NEW a \in Nat \ {0}, NEW b \in Nat \ {0} PROVE a * b \in Nat \ {0}
  OBVIOUS

LEMMA NCellsType == NCells \in Nat \ {0}
<1>1. Shape[1] \in Nat \ {0} /\ Shape[2] \in Nat \ {0}
  BY ShapeType
<1> QED
  BY <1>1, PositiveProduct DEF NCells

\* A quotient is positive when the division is exact.
LEMMA ExactQuotient ==
  ASSUME NEW b \in Nat \ {0}, NEW s \in Nat \ {0}
  PROVE  b \div s \in Nat /\ (b % s = 0 => b \div s # 0)
<1>1. b \div s \in Nat /\ b = s * (b \div s) + (b % s)
  OBVIOUS
<1>2. ASSUME b % s = 0, b \div s = 0 PROVE FALSE
  BY <1>1, <1>2
<1> QED
  BY <1>1, <1>2

LEMMA FanoutType == Fanout \in Nat /\ (Divisible => Fanout > 0)
<1>1. Ratio[1] \in Nat /\ Ratio[2] \in Nat
  BY ShapeType, BcastType, ExactQuotient DEF Ratio
<1>2. Divisible => Ratio[1] # 0 /\ Ratio[2] # 0
  BY ShapeType, BcastType, ExactQuotient DEF Ratio, Divisible
<1>3. ASSUME NEW a \in Nat, NEW b \in Nat PROVE a * b \in Nat
  OBVIOUS
<1> QED
  BY <1>1, <1>2, <1>3, PositiveProduct DEF Fanout

\* The current operation of an unfinished thread.
LEMMA CurrentOp ==
  ASSUME NEW t \in Thread, ip[t] \in Nat \ {0}, ~Finished(t)
  PROVE  /\ <<t, ip[t]>> \in Inst
         /\ IsPut(t) => <<t, ip[t]>> \in Msg
         /\ IsGet(t) => <<t, ip[t]>> \in GetInst
         /\ IsPut(t) \/ IsGet(t)
         /\ ~(IsPut(t) /\ IsGet(t))
<1>1. Len(Prog[t]) \in Nat /\ ip[t] \in 1..Len(Prog[t]) /\ Op(t) \in Ops
  BY ProgAssumption DEF Finished, Op
<1>2. <<t, ip[t]>> \in Inst
  BY <1>1 DEF Inst
<1>3. Op(t).kind \in {"put", "get"}
  BY <1>1 DEF Ops
<1> QED
  BY <1>2, <1>3 DEF Msg, GetInst, IsPut, IsGet, Op

-----------------------------------------------------------------------------
LEMMA InitIndInv == Init => IndInv
<1> SUFFICES ASSUME Init PROVE IndInv
  OBVIOUS
<1> USE NCellsType, FanoutType DEF Init
<1>1. TypeOK
  BY DEF TypeOK, Labels, Cells
<1>2. AllocInv
  BY DEF AllocInv, Cells, Obj
<1>3. FlowInv
  BY DEF FlowInv
<1>4. CriticalSection
  BY DEF CriticalSection
<1>5. HistoryInv
  BY DEF HistoryInv
<1> QED
  BY <1>1, <1>2, <1>3, <1>4, <1>5 DEF IndInv

\* The fields of a channel_t pointer.
LEMMA ObjFields ==
  /\ \A o \in Obj : o[1] \in Thread /\ o[2] \in Cells /\ o = <<o[1], o[2]>>
  /\ \A t \in Thread, i \in Cells : <<t, i>> \in Obj
  /\ 0 \in Cells
  BY NCellsType DEF Obj, Cells

LEMMA PutStartInv == ASSUME IndInv, NEW t \in Thread, PutStart(t) PROVE IndInv'
<1> USE DEF IndInv, PutStart, At, Goto, objVars
<1>1. TypeOK'
  BY DEF TypeOK, Labels
<1>2. AllocInv'
  BY NCellsType DEF AllocInv, TypeOK
<1>3. FlowInv'
  BY DEF FlowInv, TypeOK, Finished, IsPut, Op
<1>4. CriticalSection'
  BY DEF CriticalSection, TypeOK, MayProceed, IsPut, Op
<1>5. HistoryInv'
  BY DEF HistoryInv, AbsSent
<1> QED
  BY <1>1, <1>2, <1>3, <1>4, <1>5

LEMMA PutAllocInv ==
  ASSUME IndInv, NEW t \in Thread, PutAlloc(t)
  PROVE  IndInv' /\ token' = token
<1> USE DEF IndInv, PutAlloc, At, Goto
<1>0. PICK i : i = ai[t]
  OBVIOUS
<1>1. i \in Cells /\ <<t, i>> \in Obj /\ i \in 0..NCells /\ i < NCells
  BY <1>0, NCellsType, ObjFields DEF AllocInv, TypeOK, Cells
<1>2. token' = token
  BY <1>0, <1>1, ObjFields DEF AllocInv, TypeOK
<1>3. TypeOK'
  BY <1>0, <1>1, <1>2, NCellsType DEF TypeOK, Labels
<1>4. AllocInv'
  <2>1. ai' = [ai EXCEPT ![t] = i + 1] /\ data' = [data EXCEPT ![i] = <<t, i>>]
    BY <1>0
  <2>2. \A u \in Thread : ai[u] \in Nat /\ ai'[u] \in Nat /\ ai'[u] >= ai[u]
    BY <1>0, <1>1, <2>1, NCellsType DEF TypeOK
  <2>3. \A u \in Thread : pc'[u] = "alloc" => ai'[u] < NCells
    <3>1. pc'[t] = "alloc" => i + 1 < NCells
      BY <1>0, <1>1, NCellsType DEF TypeOK
    <3>2. ai'[t] = i + 1
      BY <2>1 DEF TypeOK
    <3>3. \A u \in Thread : u # t => pc'[u] = pc[u] /\ ai'[u] = ai[u]
      BY <2>1 DEF TypeOK
    <3> QED
      BY <3>1, <3>2, <3>3 DEF AllocInv
  <2>4. data'[0] # Null
    <3>1. CASE i = 0
      BY <3>1, <2>1, <1>1, NullAssumption DEF TypeOK
    <3>2. CASE i # 0
      BY <3>2, <2>1, <1>0, <1>1, ObjFields DEF TypeOK, AllocInv
    <3> QED
      BY <3>1, <3>2
  <2>5. ASSUME NEW j \in Cells, data'[j] # Null
        PROVE  j = data'[j][2] /\ j < ai'[data'[j][1]]
    <3>1. CASE j = i
      BY <3>1, <2>1, <1>1, NCellsType DEF TypeOK
    <3>2. CASE j # i
      <4>1. data'[j] = data[j] /\ data[j] \in Obj
        BY <3>2, <2>1, <2>5 DEF TypeOK
      <4>2. data[j][1] \in Thread
        BY <4>1, ObjFields
      <4>3. j = data[j][2] /\ j < ai[data[j][1]] /\ j \in Nat
        BY <4>1, <2>5, NCellsType DEF AllocInv, Cells
      <4> QED
        BY <4>1, <4>2, <4>3, <2>2
    <3> QED
      BY <3>1, <3>2
  <2>6. ASSUME NEW u \in Thread, chan'[u] # Null
        PROVE  chan'[u][2] < ai'[chan'[u][1]]
    <3>1. chan'[u] = chan[u] /\ chan[u] \in Obj
      BY <2>6 DEF TypeOK
    <3>2. chan[u][1] \in Thread /\ chan[u][2] \in Nat
      BY <3>1, ObjFields DEF Cells
    <3>3. chan[u][2] < ai[chan[u][1]]
      BY <3>1, <2>6 DEF AllocInv
    <3> QED
      BY <3>1, <3>2, <3>3, <2>2
  <2>7. \A u \in Thread, j \in Cells : j >= ai'[u] => token'[<<u, j>>] = 0
    BY <1>2, <2>2, NCellsType DEF AllocInv, Cells
  <2> QED
    BY <2>3, <2>4, <2>5, <2>6, <2>7 DEF AllocInv
<1>5. FlowInv'
  BY DEF FlowInv, TypeOK, Finished, IsPut, Op
<1>6. CriticalSection'
  BY <1>2 DEF CriticalSection, TypeOK, MayProceed, IsPut, Op
<1>7. HistoryInv'
  BY <1>2 DEF HistoryInv, AbsSent
<1> QED
  BY <1>2, <1>3, <1>4, <1>5, <1>6, <1>7

LEMMA GetStartInv == ASSUME IndInv, NEW t \in Thread, GetStart(t) PROVE IndInv'
<1> USE DEF IndInv, GetStart, At, Goto, objVars
<1>1. TypeOK'
  BY DEF TypeOK, Labels
<1>2. AllocInv'
  BY DEF AllocInv, TypeOK
<1>3. FlowInv'
  BY DEF FlowInv, TypeOK, Finished, IsPut, IsGet, Op
<1>4. CriticalSection'
  BY DEF CriticalSection, TypeOK, MayProceed, IsPut, Op
<1>5. HistoryInv'
  BY DEF HistoryInv, AbsSent
<1> QED
  BY <1>1, <1>2, <1>3, <1>4, <1>5

LEMMA ResolveInv == ASSUME IndInv, NEW t \in Thread, Resolve(t) PROVE IndInv'
<1> USE DEF IndInv, Resolve, At, Goto, objVars
<1>1. TypeOK'
  BY DEF TypeOK, Labels
<1>2. AllocInv'
  <2>1. ASSUME NEW u \in Thread, chan'[u] # Null
        PROVE  chan'[u][2] < ai'[chan'[u][1]]
    BY <2>1 DEF AllocInv, TypeOK
  <2> QED
    BY <2>1 DEF AllocInv, TypeOK
<1>3. FlowInv'
  BY DEF FlowInv, TypeOK, Finished, IsPut, Op
<1>4. CriticalSection'
  BY DEF CriticalSection, TypeOK, MayProceed, IsPut, Op
<1>5. HistoryInv'
  BY DEF HistoryInv, AbsSent
<1> QED
  BY <1>1, <1>2, <1>3, <1>4, <1>5

LEMMA LockInv == ASSUME IndInv, NEW t \in Thread, Lock(t) PROVE IndInv'
<1> USE DEF IndInv, Lock, At, Goto
<1>0. chan[t] \in Obj
  BY DEF FlowInv, TypeOK
<1>1. TypeOK'
  BY DEF TypeOK, Labels
<1>2. AllocInv'
  BY DEF AllocInv, TypeOK
<1>3. FlowInv'
  BY DEF FlowInv, TypeOK, Finished, IsPut, Op
<1>4. CriticalSection'
  <2>1. \A u \in Thread : u # t /\ pc'[u] \in {"test", "copy", "finish"}
                           => chan[u] # chan[t] /\ mtx'[chan[u]] = u
    BY <1>0, NoThreadAssumption DEF CriticalSection, FlowInv, TypeOK
  <2>2. mtx'[chan[t]] = t /\ pc'[t] = "test"
    BY <1>0 DEF TypeOK
  <2> QED
    BY <2>1, <2>2 DEF CriticalSection, TypeOK, MayProceed, IsPut, Op
<1>5. HistoryInv'
  BY DEF HistoryInv, AbsSent
<1> QED
  BY <1>1, <1>2, <1>3, <1>4, <1>5

\* Two threads inside critical sections are inside different channel_ts.
LEMMA Exclusive ==
  ASSUME IndInv, NEW t \in Thread, NEW u \in Thread, t # u,
         pc[t] \in {"test", "copy", "finish"}, pc[u] \in {"test", "copy", "finish"}
  PROVE  chan[t] # chan[u]
  BY DEF IndInv, CriticalSection

LEMMA TestInv == ASSUME IndInv, NEW t \in Thread, Test(t) PROVE IndInv'
<1> USE DEF IndInv, Test, At, Goto
<1>0. chan[t] \in Obj
  BY DEF FlowInv, TypeOK
<1>1. TypeOK'
  BY DEF TypeOK, Labels
<1>2. AllocInv'
  BY DEF AllocInv, TypeOK
<1>3. FlowInv'
  BY DEF FlowInv, TypeOK, Finished, IsPut, Op
<1>4. CriticalSection'
  <2>1. \A u \in Thread : u # t /\ pc[u] \in {"test", "copy", "finish"}
                           => chan[u] # chan[t] /\ chan[u] \in Obj
    BY Exclusive DEF FlowInv, TypeOK
  <2>2. \A u \in Thread : u # t => pc'[u] = pc[u]
    BY DEF TypeOK
  <2>3. \A u \in Thread : u # t /\ pc[u] \in {"test", "copy", "finish"}
                           => mtx'[chan[u]] = mtx[chan[u]]
    BY <1>0, <2>1 DEF TypeOK
  <2>4. /\ pc'[t] = "copy" => MayProceed(t) /\ mtx'[chan[t]] = t
        /\ pc'[t] \in {"copy", "wait"}
    BY <1>0 DEF CriticalSection, TypeOK
  <2> QED
    BY <2>2, <2>3, <2>4 DEF CriticalSection, MayProceed, IsPut, Op
<1>5. HistoryInv'
  BY DEF HistoryInv, AbsSent
<1> QED
  BY <1>1, <1>2, <1>3, <1>4, <1>5

LEMMA SpuriousWakeInv == ASSUME IndInv, NEW t \in Thread, SpuriousWake(t) PROVE IndInv'
<1> USE DEF IndInv, SpuriousWake, At, Goto, objVars
<1>1. TypeOK'
  BY DEF TypeOK, Labels
<1>2. AllocInv'
  BY DEF AllocInv, TypeOK
<1>3. FlowInv'
  BY DEF FlowInv, TypeOK, Finished, IsPut, Op
<1>4. CriticalSection'
  BY DEF CriticalSection, TypeOK, MayProceed, IsPut, Op
<1>5. HistoryInv'
  BY DEF HistoryInv, AbsSent
<1> QED
  BY <1>1, <1>2, <1>3, <1>4, <1>5

LEMMA CopyInv == ASSUME IndInv, NEW t \in Thread, Copy(t) PROVE IndInv'
<1> USE DEF IndInv, Copy, At, Goto
<1>0. chan[t] \in Obj
  BY DEF FlowInv, TypeOK
<1>1. IsPut(t) => <<t, ip[t]>> \in Msg
  BY CurrentOp DEF TypeOK
<1>2. TypeOK'
  BY <1>0, <1>1 DEF TypeOK, Labels
<1>3. AllocInv'
  BY DEF AllocInv, TypeOK
<1>4. FlowInv'
  <2> SUFFICES ASSUME NEW u \in Thread
      PROVE ( /\ pc[u] # "start" => ~Finished(u) /\ (IsPut(u) => Divisible)
              /\ pc[u] = "alloc" => IsPut(u)
              /\ pc[u] \in {"lock", "test", "wait", "copy", "finish"} => chan[u] # Null
              /\ pc[u] = "finish" =>
                   IF IsPut(u) THEN buf[chan[u]] = <<u, ip[u]>>
                               ELSE dst[u] = buf[chan[u]])'
    BY DEF FlowInv
  <2>1. CASE u = t
    BY <2>1, <1>0 DEF FlowInv, TypeOK, Finished, IsPut, Op
  <2>2. CASE u # t
    <3>1. pc'[u] = pc[u] /\ dst'[u] = dst[u]
      BY <2>2 DEF TypeOK
    <3>2. pc[u] = "finish" => buf'[chan[u]] = buf[chan[u]]
      <4>1. pc[u] = "finish" => chan[u] # chan[t] /\ chan[u] \in Obj
        BY <2>2, Exclusive DEF FlowInv, TypeOK
      <4> QED
        BY <4>1, <1>0 DEF TypeOK
    <3> QED
      BY <3>1, <3>2 DEF FlowInv, Finished, IsPut, Op
  <2> QED
    BY <2>1, <2>2
<1>5. CriticalSection'
  BY DEF CriticalSection, TypeOK, MayProceed, IsPut, Op
<1>6. HistoryInv'
  <2>1. IsPut(t) => token[chan[t]] = 0
    BY DEF CriticalSection, MayProceed
  <2>2. \A o \in Obj : token[o] > 0 => buf'[o] = buf[o]
    BY <1>0, <2>1 DEF TypeOK
  <2> QED
    BY <2>2 DEF HistoryInv, AbsSent
<1> QED
  BY <1>2, <1>3, <1>4, <1>5, <1>6

\* What the two finishing actions have in common: thread t leaves its
\* critical section, and everybody else stays where it was or wakes up.
LEMMA FinishFrame ==
  ASSUME IndInv, NEW t \in Thread, At(t, "finish"), NotifyAllAndReturn(t),
         mtx' = [mtx EXCEPT ![chan[t]] = NoThread],
         ip' = [ip EXCEPT ![t] = @ + 1], chan' = chan, buf' = buf, dst' = dst
  PROVE  /\ chan[t] \in Obj
         /\ pc'[t] = "start"
         /\ pc' \in [Thread -> Labels] /\ mtx' \in [Obj -> Thread \cup {NoThread}]
         /\ ip' \in [Thread -> Nat \ {0}] /\ ip'[t] = ip[t] + 1
         /\ \A u \in Thread : u # t =>
              /\ pc'[u] = pc[u] \/ (pc[u] = "wait" /\ pc'[u] = "lock")
              /\ ip'[u] = ip[u]
              /\ pc[u] \in {"test", "copy", "finish"} =>
                    chan[u] # chan[t] /\ mtx'[chan[u]] = u
         /\ FlowInv'
<1> USE DEF IndInv, At, NotifyAllAndReturn
<1>1. chan[t] \in Obj
  BY DEF FlowInv, TypeOK
<1>2. pc'[t] = "start" /\ pc' \in [Thread -> Labels]
  BY DEF TypeOK, Labels
<1>3. /\ mtx' \in [Obj -> Thread \cup {NoThread}]
      /\ ip' \in [Thread -> Nat \ {0}] /\ ip'[t] = ip[t] + 1
  <2>1. mtx' \in [Obj -> Thread \cup {NoThread}]
    BY <1>1 DEF TypeOK
  <2>2. ip[t] + 1 \in Nat \ {0}
    BY DEF TypeOK
  <2> QED
    BY <2>1, <2>2 DEF TypeOK
<1>4. ASSUME NEW u \in Thread, u # t
      PROVE  /\ pc'[u] = pc[u] \/ (pc[u] = "wait" /\ pc'[u] = "lock")
             /\ ip'[u] = ip[u]
             /\ pc[u] \in {"test", "copy", "finish"} =>
                    chan[u] # chan[t] /\ mtx'[chan[u]] = u
  <2>1. pc'[u] = pc[u] \/ (pc[u] = "wait" /\ pc'[u] = "lock")
    BY <1>4
  <2>2. ip'[u] = ip[u]
    BY <1>4 DEF TypeOK
  <2>3. pc[u] \in {"test", "copy", "finish"} => chan[u] # chan[t] /\ chan[u] \in Obj
    BY <1>4, Exclusive DEF FlowInv, TypeOK
  <2> QED
    BY <2>1, <2>2, <2>3, <1>1 DEF CriticalSection, TypeOK
<1>5. FlowInv'
  <2>1. \A u \in Thread : u # t => (IsPut(u)' <=> IsPut(u)) /\ (Finished(u)' <=> Finished(u))
    BY <1>4 DEF Finished, IsPut, Op
  <2>2. \A u \in Thread : u # t =>
          /\ pc'[u] = "finish" => pc[u] = "finish"
          /\ pc'[u] # "start" => pc[u] # "start"
          /\ pc'[u] = "alloc" => pc[u] = "alloc"
          /\ pc'[u] \in {"lock", "test", "wait", "copy", "finish"} =>
               pc[u] \in {"lock", "test", "wait", "copy", "finish"}
    BY <1>4
  <2> QED
    BY <1>2, <1>4, <2>1, <2>2 DEF FlowInv
<1> QED
  BY <1>1, <1>2, <1>3, <1>4, <1>5

LEMMA PutFinishInv == ASSUME IndInv, NEW t \in Thread, PutFinish(t) PROVE IndInv'
<1> USE DEF IndInv, PutFinish
<1>0. /\ chan[t] \in Obj /\ pc'[t] = "start" /\ FlowInv'
      /\ pc' \in [Thread -> Labels] /\ mtx' \in [Obj -> Thread \cup {NoThread}]
      /\ ip' \in [Thread -> Nat \ {0}] /\ ip'[t] = ip[t] + 1
      /\ \A u \in Thread : u # t =>
           /\ pc'[u] = pc[u] \/ (pc[u] = "wait" /\ pc'[u] = "lock")
           /\ ip'[u] = ip[u]
           /\ pc[u] \in {"test", "copy", "finish"} =>
                 chan[u] # chan[t] /\ mtx'[chan[u]] = u
  BY FinishFrame
<1>1. Fanout \in Nat
  BY FanoutType
<1>2. token'[chan[t]] = Fanout /\ \A o \in Obj : o # chan[t] => token'[o] = token[o]
  BY <1>0 DEF TypeOK
<1>3. TypeOK'
  BY <1>0, <1>1 DEF TypeOK
<1>4. AllocInv'
  <2>1. \A u \in Thread, i \in Cells : i >= ai[u] => <<u, i>> # chan[t]
    <3>1. chan[t] # Null
      BY <1>0, NullAssumption
    <3>2. chan[t][1] \in Thread /\ chan[t][2] < ai[chan[t][1]]
      BY <1>0, <3>1, ObjFields DEF AllocInv
    <3>3. SUFFICES ASSUME NEW u \in Thread, NEW i \in Cells, i >= ai[u],
                          <<u, i>> = chan[t]
                   PROVE  FALSE
      OBVIOUS
    <3>4. i < ai[u] /\ i \in Int /\ ai[u] \in Int
      BY <3>2, <3>3, NCellsType DEF Cells, TypeOK
    <3> QED
      BY <3>3, <3>4
  <2> QED
    BY <1>0, <1>2, <2>1, ObjFields DEF AllocInv, TypeOK
<1>5. CriticalSection'
  <2> SUFFICES ASSUME NEW u \in Thread, pc'[u] \in {"test", "copy", "finish"}
      PROVE  /\ mtx'[chan[u]] = u
             /\ pc'[u] \in {"copy", "finish"} => MayProceed(u)'
    BY DEF CriticalSection
  <2>1. /\ u # t /\ pc'[u] = pc[u] /\ chan[u] # chan[t] /\ mtx'[chan[u]] = u
        /\ chan[u] \in Obj
    BY <1>0 DEF FlowInv, TypeOK
  <2>2. token'[chan[u]] = token[chan[u]] /\ ip'[u] = ip[u]
    BY <1>0, <1>2, <2>1
  <2> QED
    BY <2>1, <2>2 DEF CriticalSection, MayProceed, IsPut, Op
<1>6. HistoryInv'
  <2>0. <<t, ip[t]>> \in Msg /\ buf[chan[t]] = <<t, ip[t]>>
    BY CurrentOp DEF At, FlowInv, TypeOK
  <2>1. \A u \in Thread : ip'[u] \in Nat /\ ip[u] \in Nat /\ ip'[u] >= ip[u]
    BY <1>0 DEF TypeOK
  <2>2. \A m \in Inst : m[1] \in Thread /\ m[2] \in Nat
    BY ProgAssumption DEF Inst
  <2>3. \A m \in Msg : m[2] < ip[m[1]] => m[2] < ip'[m[1]]
    BY <2>1, <2>2 DEF Msg
  <2>4. \A o \in Obj : token'[o] > 0 => buf'[o] \in AbsSent'
    <3> SUFFICES ASSUME NEW o \in Obj, token'[o] > 0 PROVE buf[o] \in AbsSent'
      OBVIOUS
    <3>1. CASE o = chan[t]
      BY <3>1, <2>0, <2>1, <1>0 DEF AbsSent
    <3>2. CASE o # chan[t]
      BY <3>2, <2>3, <1>2 DEF HistoryInv, AbsSent
    <3> QED
      BY <3>1, <3>2
  <2>5. \A m \in Msg : \A g \in rcv[m] : g[2] < ip'[g[1]]
    BY <2>1, <2>2 DEF HistoryInv, TypeOK, GetInst
  <2> QED
    BY <2>4, <2>5 DEF HistoryInv
<1> QED
  BY <1>0, <1>3, <1>4, <1>5, <1>6

LEMMA GetFinishInv == ASSUME IndInv, NEW t \in Thread, GetFinish(t) PROVE IndInv'
<1> USE DEF IndInv, GetFinish
<1>0. /\ chan[t] \in Obj /\ pc'[t] = "start" /\ FlowInv'
      /\ pc' \in [Thread -> Labels] /\ mtx' \in [Obj -> Thread \cup {NoThread}]
      /\ ip' \in [Thread -> Nat \ {0}] /\ ip'[t] = ip[t] + 1
      /\ \A u \in Thread : u # t =>
           /\ pc'[u] = pc[u] \/ (pc[u] = "wait" /\ pc'[u] = "lock")
           /\ ip'[u] = ip[u]
           /\ pc[u] \in {"test", "copy", "finish"} =>
                 chan[u] # chan[t] /\ mtx'[chan[u]] = u
  BY FinishFrame
<1>1. /\ <<t, ip[t]>> \in GetInst /\ ~IsPut(t)
      /\ token[chan[t]] > 0 /\ token[chan[t]] \in 0..Fanout /\ Fanout \in Nat
      /\ dst[t] = buf[chan[t]] /\ dst[t] \in Msg
  <2>1. <<t, ip[t]>> \in GetInst /\ ~IsPut(t)
    BY CurrentOp DEF At, TypeOK
  <2>2. token[chan[t]] > 0 /\ dst[t] = buf[chan[t]]
    BY <2>1 DEF At, CriticalSection, MayProceed, FlowInv
  <2>3. buf[chan[t]] \in Msg
    BY <1>0, <2>2 DEF HistoryInv, AbsSent
  <2> QED
    BY <2>1, <2>2, <2>3, <1>0, FanoutType DEF TypeOK
<1>2. /\ token'[chan[t]] = token[chan[t]] - 1
      /\ \A o \in Obj : o # chan[t] => token'[o] = token[o]
  BY <1>0 DEF TypeOK
<1>3. TypeOK'
  <2>1. token' \in [Obj -> 0..Fanout]
    BY <1>0, <1>1 DEF TypeOK
  <2>2. rcv' \in [Msg -> SUBSET GetInst]
    BY <1>1 DEF TypeOK
  <2> QED
    BY <1>0, <2>1, <2>2 DEF TypeOK
<1>4. AllocInv'
  <2>1. \A u \in Thread, i \in Cells : i >= ai[u] => <<u, i>> # chan[t]
    BY <1>1, ObjFields DEF AllocInv
  <2> QED
    BY <1>0, <1>2, <2>1, ObjFields DEF AllocInv, TypeOK
<1>5. CriticalSection'
  <2> SUFFICES ASSUME NEW u \in Thread, pc'[u] \in {"test", "copy", "finish"}
      PROVE  /\ mtx'[chan[u]] = u
             /\ pc'[u] \in {"copy", "finish"} => MayProceed(u)'
    BY DEF CriticalSection
  <2>1. /\ u # t /\ pc'[u] = pc[u] /\ chan[u] # chan[t] /\ mtx'[chan[u]] = u
        /\ chan[u] \in Obj
    BY <1>0 DEF FlowInv, TypeOK
  <2>2. token'[chan[u]] = token[chan[u]] /\ ip'[u] = ip[u]
    BY <1>0, <1>2, <2>1
  <2> QED
    BY <2>1, <2>2 DEF CriticalSection, MayProceed, IsPut, Op
<1>6. HistoryInv'
  <2>1. \A u \in Thread : ip'[u] \in Nat /\ ip[u] \in Nat /\ ip'[u] >= ip[u]
    BY <1>0 DEF TypeOK
  <2>2. \A m \in Inst : m[1] \in Thread /\ m[2] \in Nat
    BY ProgAssumption DEF Inst
  <2>3. \A m \in Msg : m[2] < ip[m[1]] => m[2] < ip'[m[1]]
    BY <2>1, <2>2 DEF Msg
  <2>4. \A o \in Obj : token'[o] > 0 => token[o] > 0
    BY <1>1, <1>2 DEF TypeOK
  <2>5. \A o \in Obj : token'[o] > 0 => buf'[o] \in AbsSent'
    BY <2>3, <2>4 DEF HistoryInv, AbsSent
  <2>6. ASSUME NEW m \in Msg, NEW g \in rcv'[m] PROVE g[2] < ip'[g[1]]
    <3>1. CASE g = <<t, ip[t]>>
      BY <3>1, <1>0 DEF TypeOK
    <3>2. CASE g # <<t, ip[t]>>
      <4>1. g \in rcv[m] /\ g \in GetInst
        BY <3>2, <2>6 DEF TypeOK
      <4> QED
        BY <4>1, <2>1, <2>2 DEF HistoryInv, GetInst
    <3> QED
      BY <3>1, <3>2
  <2> QED
    BY <2>5, <2>6 DEF HistoryInv
<1> QED
  BY <1>0, <1>3, <1>4, <1>5, <1>6

LEMMA StutterIndInv == ASSUME IndInv, UNCHANGED vars PROVE IndInv'
  BY DEF vars, IndInv, TypeOK, AllocInv, FlowInv, CriticalSection, HistoryInv,
         Finished, IsPut, Op, MayProceed, AbsSent

LEMMA NextIndInv == IndInv /\ [Next]_vars => IndInv'
<1> SUFFICES ASSUME IndInv, [Next]_vars PROVE IndInv'
  OBVIOUS
<1>1. ASSUME NEW t \in Thread, Step(t) \/ Lock(t) \/ SpuriousWake(t) PROVE IndInv'
  BY <1>1, PutStartInv, PutAllocInv, GetStartInv, ResolveInv, LockInv, TestInv,
     SpuriousWakeInv, CopyInv, PutFinishInv, GetFinishInv DEF Step
<1>2. CASE UNCHANGED vars
  BY <1>2, StutterIndInv
<1> QED
  BY <1>1, <1>2 DEF Next, Terminated

\* The allocation loop never resets a channel_t in use, a thread between lock
\* and unlock holds a channel_t that exists, and every unread transfer was
\* sent: the invariant of air_channel_put and air_channel_get, whatever the
\* threads, their programs and the races of their first puts.
THEOREM CpuChannelInvariant == Spec => []IndInv
  BY InitIndInv, NextIndInv, PTL DEF Spec

\* For every program, every channel shape and every schedule, the racing
\* allocation included, the runtime's state stays well typed, and a thread
\* inside a channel_t's critical section owns its mutex and still sees the
\* channel empty (a put) or full (a get).
THEOREM CpuChannelSafe == Spec => [](TypeOK /\ CriticalSection)
<1>1. IndInv => TypeOK /\ CriticalSection
  BY DEF IndInv
<1> QED
  BY <1>1, CpuChannelInvariant, PTL

-----------------------------------------------------------------------------
LEMMA InitRefines == Init => A!Init
<1> SUFFICES ASSUME Init PROVE A!Init
  OBVIOUS
<1>1. AbsSlot = [o \in Obj |-> NoMsg]
  BY DEF Init, AbsSlot
<1>2. AbsSent = {}
  <2>1. \A m \in Inst : m[1] \in Thread /\ m[2] \in Nat \ {0}
    BY ProgAssumption DEF Inst
  <2> QED
    BY <2>1 DEF Init, AbsSent, Msg
<1> QED
  BY <1>1, <1>2 DEF A!Init, Init

\* A finishing put is a Put of the abstract channel.
LEMMA PutFinishRefines ==
  ASSUME IndInv, NEW t \in Thread, PutFinish(t)
  PROVE  A!Put(chan[t], <<t, ip[t]>>) /\ chan[t] \in Obj /\ <<t, ip[t]>> \in Msg
<1> USE DEF IndInv
<1>1. chan[t] \in Obj /\ ~Finished(t) /\ Divisible
  BY DEF PutFinish, At, FlowInv, TypeOK
<1>2. /\ <<t, ip[t]>> \in Msg /\ buf[chan[t]] = <<t, ip[t]>>
      /\ token[chan[t]] = 0
  BY <1>1, CurrentOp DEF PutFinish, At, FlowInv, CriticalSection, MayProceed, TypeOK
<1>3. <<t, ip[t]>> \notin AbsSent
  BY DEF AbsSent, TypeOK
<1>4. AbsSlot' = [AbsSlot EXCEPT ![chan[t]] = <<t, ip[t]>>]
  BY <1>1, <1>2, FanoutType DEF PutFinish, AbsSlot, TypeOK
<1>5. AbsSent' = AbsSent \cup {<<t, ip[t]>>}
  <2>1. \A m \in Inst : m[1] \in Thread /\ m[2] \in Nat /\ m = <<m[1], m[2]>>
    BY ProgAssumption DEF Inst
  <2>2. \A m \in Msg : m[2] < ip'[m[1]] <=> m[2] < ip[m[1]] \/ m = <<t, ip[t]>>
    BY <2>1 DEF Msg, PutFinish, TypeOK
  <2> QED
    BY <1>2, <2>2 DEF AbsSent
<1> QED
  BY <1>1, <1>2, <1>3, <1>4, <1>5 DEF A!Put, PutFinish

\* A finishing get is a Get of the abstract channel.
LEMMA GetFinishRefines ==
  ASSUME IndInv, NEW t \in Thread, GetFinish(t)
  PROVE  A!Get(chan[t], <<t, ip[t]>>) /\ chan[t] \in Obj /\ <<t, ip[t]>> \in GetInst
<1> USE DEF IndInv
<1>1. chan[t] \in Obj /\ ~Finished(t)
  BY DEF GetFinish, At, FlowInv, TypeOK
<1>2. <<t, ip[t]>> \in GetInst /\ ~IsPut(t) /\ <<t, ip[t]>> \notin Msg
  BY <1>1, CurrentOp DEF GetFinish, TypeOK, Msg, IsPut, IsGet, Op
<1>3. token[chan[t]] > 0 /\ dst[t] = buf[chan[t]]
  BY <1>2 DEF GetFinish, At, FlowInv, CriticalSection, MayProceed
<1>4. \A m \in Msg : <<t, ip[t]>> \notin rcv[m]
  BY DEF HistoryInv, TypeOK
<1>5. AbsSlot[chan[t]] = dst[t]
  BY <1>1, <1>3 DEF AbsSlot
<1>6. AbsSlot' = [AbsSlot EXCEPT ![chan[t]] = IF token[chan[t]] = 1 THEN NoMsg ELSE @]
  <2>1. token[chan[t]] \in Nat
    BY <1>1, FanoutType DEF TypeOK
  <2>2. \A o \in Obj : /\ o # chan[t] => token'[o] = token[o]
                       /\ o = chan[t] => token'[o] = token[o] - 1
    BY <1>1 DEF GetFinish, TypeOK
  <2>3. ASSUME NEW o \in Obj
        PROVE  (IF token'[o] > 0 THEN buf[o] ELSE NoMsg) =
               (IF o = chan[t] /\ token[o] = 1 THEN NoMsg
                ELSE IF token[o] > 0 THEN buf[o] ELSE NoMsg)
    <3>1. CASE o = chan[t]
      BY <3>1, <1>3, <2>1, <2>2
    <3>2. CASE o # chan[t]
      BY <3>2, <2>2
    <3> QED
      BY <3>1, <3>2
  <2>4. buf' = buf
    BY DEF GetFinish
  <2> QED
    BY <1>1, <2>3, <2>4 DEF AbsSlot
<1>7. AbsSent' = AbsSent
  <2>1. \A m \in Inst : m[1] \in Thread /\ m[2] \in Nat /\ m = <<m[1], m[2]>>
    BY ProgAssumption DEF Inst
  <2>2. \A m \in Msg : m[2] < ip'[m[1]] <=> m[2] < ip[m[1]]
    <3> SUFFICES ASSUME NEW m \in Msg
                 PROVE  m[2] < ip'[m[1]] <=> m[2] < ip[m[1]]
      OBVIOUS
    <3>1. m # <<t, ip[t]>> /\ m[1] \in Thread /\ m[2] \in Nat /\ m = <<m[1], m[2]>>
      BY <1>2, <2>1 DEF Msg
    <3>2. m[1] = t => m[2] # ip[t] /\ ip'[t] = ip[t] + 1
      BY <3>1 DEF GetFinish, TypeOK
    <3>3. m[1] # t => ip'[m[1]] = ip[m[1]]
      BY <3>1 DEF GetFinish, TypeOK
    <3> QED
      BY <3>1, <3>2, <3>3 DEF TypeOK
  <2> QED
    BY <2>2 DEF AbsSent
<1> QED
  BY <1>1, <1>2, <1>3, <1>4, <1>5, <1>6, <1>7 DEF A!Get, GetFinish

\* No other step shows: a put fills the buffer while the token is 0, and a
\* constructor runs on a channel_t nobody uses.
LEMMA HiddenStep ==
  ASSUME IndInv, NEW t \in Thread,
         \/ PutStart(t) \/ PutAlloc(t) \/ GetStart(t) \/ Resolve(t)
         \/ Test(t) \/ Copy(t) \/ Lock(t) \/ SpuriousWake(t)
  PROVE  UNCHANGED <<AbsSlot, token, AbsSent, rcv>>
<1>1. token' = token /\ rcv' = rcv /\ ip' = ip
  BY PutAllocInv DEF PutStart, PutAlloc, GetStart, Resolve, Test, Copy, Lock,
                     SpuriousWake, objVars
<1>2. \A o \in Obj : token[o] > 0 => buf'[o] = buf[o]
  <2>1. CASE Copy(t)
    BY <2>1 DEF Copy, At, IndInv, CriticalSection, MayProceed, TypeOK
  <2>2. CASE ~Copy(t)
    BY <2>2 DEF PutStart, PutAlloc, GetStart, Resolve, Test, Lock, SpuriousWake,
                objVars
  <2> QED
    BY <2>1, <2>2
<1> QED
  BY <1>1, <1>2 DEF AbsSlot, AbsSent

LEMMA NextRefines == IndInv /\ [Next]_vars => [A!Next]_(A!vars)
<1> SUFFICES ASSUME IndInv, [Next]_vars PROVE [A!Next]_(A!vars)
  OBVIOUS
<1>1. ASSUME NEW t \in Thread, PutFinish(t) PROVE A!Next
  BY <1>1, PutFinishRefines DEF A!Next
<1>2. ASSUME NEW t \in Thread, GetFinish(t) PROVE A!Next
  BY <1>2, GetFinishRefines DEF A!Next
<1>3. CASE UNCHANGED vars
  BY <1>3 DEF vars, A!vars, AbsSlot, AbsSent
<1>4. ASSUME NEW t \in Thread,
             \/ PutStart(t) \/ PutAlloc(t) \/ GetStart(t) \/ Resolve(t)
             \/ Test(t) \/ Copy(t) \/ Lock(t) \/ SpuriousWake(t)
      PROVE  UNCHANGED A!vars
  BY <1>4, HiddenStep DEF A!vars
<1> QED
  BY <1>1, <1>2, <1>3, <1>4 DEF Next, Step, Terminated

\* The thread-level runtime implements the one-place broadcast channel: each
\* channel_t, whichever put allocated it, behaves as one AirChannel channel.
THEOREM CpuChannelRefines == Spec => ImplementsAirChannel
  BY CpuChannelInvariant, InitRefines, NextRefines, PTL DEF Spec, ImplementsAirChannel, A!Spec

AP == INSTANCE AirChannelProofs WITH
        Chan <- Obj, Msg <- Msg, GetInst <- GetInst, Fanout <- Fanout,
        NoMsg <- NoMsg,
        slot <- AbsSlot, left <- token, sent <- AbsSent, rcv <- rcv

\* On every channel the runtime accepts (the broadcast shape a multiple of
\* the channel shape), no transfer is lost, overwritten before it is read or
\* read too often: one that is no longer in its channel_t was received by
\* exactly Fanout gets.
THEOREM CpuChannelDelivers == ASSUME Divisible PROVE Spec => []ExactFanout
<1>1. Fanout \in Nat \ {0}
  BY FanoutType
<1>2. AP!Sizes
  BY <1>1 DEF AP!Sizes, Msg
<1>3. AP!Spec => [](AP!TypeOK /\ AP!HeldOnce /\ AP!ExactFanout)
  BY <1>2, AP!ChannelDeliversExactly
<1>4. AP!ExactFanout => ExactFanout
  <2>1. ASSUME NEW S PROVE AP!Cardinality(S) = A!Cardinality(S)
    BY DEF AP!Cardinality, A!Cardinality
  <2> QED
    BY <2>1 DEF AP!ExactFanout, ExactFanout, A!ExactFanout
<1>5. ImplementsAirChannel => AP!Spec
  BY DEF ImplementsAirChannel, A!Spec, A!Init, A!Next, A!vars, A!Put, A!Get,
         AP!Spec, AP!Init, AP!Next, AP!vars, AP!Put, AP!Get
<1> QED
  BY <1>3, <1>4, <1>5, CpuChannelRefines, PTL

-----------------------------------------------------------------------------
(* Programs whose puts are all executed by one thread.                     *)

OnePutter == \A m, n \in Msg : m[1] = n[1]

\* The channel array is filled once.
ArrayInv ==
    /\ \A i \in Cells : data[i] # Null => \E m \in Msg : m[1] = data[i][1]
    /\ \A t \in Thread : chan[t] # Null => data[chan[t][2]] = chan[t]
    /\ UnreadIsReachable

LEMMA ArrayStep ==
    ASSUME OnePutter, IndInv, ArrayInv, [Next]_vars PROVE ArrayInv'
<1> USE DEF IndInv
<1>0. /\ data \in [Cells -> Obj \cup {Null}] /\ chan \in [Thread -> Obj \cup {Null}]
      /\ token \in [Obj -> 0..Fanout] /\ ip \in [Thread -> Nat \ {0}] /\ ai \in [Thread -> 0..NCells]
  BY DEF TypeOK
<1>1. CASE UNCHANGED <<data, chan, token>>
  BY <1>1 DEF ArrayInv, UnreadIsReachable
<1>2. ASSUME NEW t \in Thread, PutAlloc(t) PROVE ArrayInv'
  <2> DEFINE i == ai[t]
  <2>1. /\ data' = [data EXCEPT ![i] = <<t, i>>] /\ token' = [token EXCEPT ![<<t, i>>] = 0]
        /\ chan' = chan /\ pc[t] = "alloc" /\ ~Finished(t)
    BY <1>2 DEF PutAlloc, At
  <2>2. i \in Cells /\ i \in Nat
    BY <1>0, <2>1, NCellsType DEF AllocInv, Cells
  <2>3. <<t, ip[t]>> \in Msg /\ <<t, i>> \in Obj
    BY <1>0, <2>1, <2>2, CurrentOp DEF FlowInv, Obj
  <2>4. data[i] = Null
    <3> SUFFICES ASSUME data[i] # Null PROVE FALSE
      OBVIOUS
    <3>1. PICK m \in Msg : m[1] = data[i][1]
      BY <2>2 DEF ArrayInv
    <3>2. data[i][1] = t
      BY <2>3, <3>1 DEF OnePutter
    <3>3. i < ai[data[i][1]]
      BY <2>2 DEF AllocInv
    <3> QED
      BY <2>2, <3>2, <3>3
  <2> HIDE DEF i
  <2>5. /\ data'[i] = <<t, i>> /\ \A j \in Cells : j # i => data'[j] = data[j]
        /\ \A o \in Obj : token'[o] > 0 => token[o] > 0
    BY <1>0, <2>1, <2>2, <2>3
  <2>6. \A j \in Cells : data'[j] # Null => \E m \in Msg : m[1] = data'[j][1]
    BY <2>3, <2>5 DEF ArrayInv
  <2>7. \A o \in Obj : data[o[2]] = o => data'[o[2]] = o
    <3>1. \A o \in Obj : o[2] \in Cells
      BY ObjFields
    <3> QED
      BY <2>4, <2>5, <3>1
  <2> QED
    BY <1>0, <2>1, <2>5, <2>6, <2>7 DEF ArrayInv, UnreadIsReachable
<1>3. ASSUME NEW t \in Thread, Resolve(t) PROVE ArrayInv'
  <2>1. CASE status' = "crash"
    <3>1. status = "running"
      BY <1>3 DEF Resolve, At
    <3>2. UNCHANGED <<data, chan, token>>
      BY <1>3, <2>1, <3>1 DEF Resolve, objVars
    <3> QED
      BY <1>1, <3>2
  <2>2. CASE status' # "crash"
    <3> DEFINE k == Idx(t)
    <3>1. k \in Cells /\ data[k] # Null /\ chan' = [chan EXCEPT ![t] = data[k]]
      BY <1>3, <2>2 DEF Resolve
    <3>2. UNCHANGED <<data, token>>
      BY <1>3 DEF Resolve, objVars
    <3>3. k = data[k][2]
      BY <3>1 DEF AllocInv
    <3> HIDE DEF k
    <3>4. \A u \in Thread : chan'[u] # Null => data[chan'[u][2]] = chan'[u]
      BY <1>0, <3>1, <3>3 DEF ArrayInv
    <3> QED
      BY <3>2, <3>4 DEF ArrayInv, UnreadIsReachable
  <2> QED
    BY <2>1, <2>2
<1>4. ASSUME NEW t \in Thread, PutFinish(t) \/ GetFinish(t) PROVE ArrayInv'
  <2>1. UNCHANGED <<data, chan>> /\ pc[t] = "finish"
    BY <1>4 DEF PutFinish, GetFinish, At
  <2>2. chan[t] \in Obj /\ chan[t] # Null
    BY <1>0, <2>1 DEF FlowInv
  <2>3. data[chan[t][2]] = chan[t]
    BY <2>2 DEF ArrayInv
  <2>4. \A o \in Obj : o # chan[t] => token'[o] = token[o]
    BY <1>0, <1>4, <2>2 DEF PutFinish, GetFinish
  <2> QED
    BY <2>1, <2>3, <2>4 DEF ArrayInv, UnreadIsReachable
<1>5. ASSUME NEW t \in Thread,
             PutStart(t) \/ GetStart(t) \/ Test(t) \/ Copy(t) \/ Lock(t) \/ SpuriousWake(t)
      PROVE  UNCHANGED <<data, chan, token>>
  BY <1>5 DEF PutStart, GetStart, Test, Copy, Lock, SpuriousWake, objVars
<1>6. ASSUME UNCHANGED vars PROVE UNCHANGED <<data, chan, token>>
  BY <1>6 DEF vars
<1> QED
  BY <1>1, <1>2, <1>3, <1>4, <1>5, <1>6 DEF Next, Step, Terminated

\* When one thread executes all the puts, the unsynchronised allocation of
\* air_channel_put loses nothing: an unread transfer always sits in a
\* channel_t that the array still points to.  Two threads that put at the
\* same time can lose one.
THEOREM OnePutterReachable == ASSUME OnePutter PROVE Spec => []UnreadIsReachable
<1>1. Init => ArrayInv
  BY DEF Init, ArrayInv, UnreadIsReachable
<1>2. IndInv /\ ArrayInv /\ [Next]_vars => ArrayInv'
  BY ArrayStep
<1>3. ArrayInv => UnreadIsReachable
  BY DEF ArrayInv
<1> QED
  BY <1>1, <1>2, <1>3, CpuChannelInvariant, PTL DEF Spec

-----------------------------------------------------------------------------
(* Which element a put and a get address.                                  *)

\* The indices of the program are those of the declaration.
InBounds ==
    /\ \A m \in Msg : \A i \in 1..2 : Prog[m[1]][m[2]].at[i] < Shape[i]
    /\ \A g \in GetInst : \A i \in 1..2 : Prog[g[1]][g[2]].at[i] < ChannelPutOpBcast[i]

PutAt(m) == PutIdx(Prog[m[1]][m[2]].at)
GetAt(g) == GetIdx(Prog[g[1]][g[2]].at)

\* A thread works on the channel_t of its element; a channel_t holds, and
\* has delivered, transfers of its element only.
ElementInv ==
    /\ \A t \in Thread : pc[t] \in {"lock", "test", "wait", "copy", "finish"} => chan[t][2] = Idx(t)
    /\ \A o \in Obj : buf[o] # NoMsg => PutAt(buf[o]) = o[2]
    /\ \A m \in Msg : \A g \in rcv[m] : PutAt(m) = GetAt(g)

LEMMA ElementStep == ASSUME IndInv, ElementInv, [Next]_vars PROVE ElementInv'
<1> USE DEF IndInv
<1>0. /\ data \in [Cells -> Obj \cup {Null}] /\ chan \in [Thread -> Obj \cup {Null}]
      /\ buf \in [Obj -> Msg \cup {NoMsg}] /\ pc \in [Thread -> Labels]
      /\ rcv \in [Msg -> SUBSET GetInst] /\ ip \in [Thread -> Nat \ {0}]
  BY DEF TypeOK
<1>1. ASSUME ip' = ip, chan' = chan, buf' = buf, rcv' = rcv,
             \A t \in Thread : pc'[t] \in {"lock", "test", "wait", "copy", "finish"} =>
                                  pc[t] \in {"lock", "test", "wait", "copy", "finish"}
      PROVE  ElementInv'
  <2>1. \A t \in Thread : Idx(t)' = Idx(t)
    BY <1>1 DEF Idx, IsPut, Op
  <2> QED
    BY <1>1, <2>1 DEF ElementInv
<1>2. ASSUME NEW t \in Thread,
             PutStart(t) \/ PutAlloc(t) \/ GetStart(t) \/ Test(t) \/ Lock(t) \/ SpuriousWake(t)
      PROVE  ElementInv'
  <2>1. UNCHANGED <<ip, chan, buf, rcv>>
    BY <1>2 DEF PutStart, PutAlloc, GetStart, Test, Lock, SpuriousWake, objVars
  <2>2. ASSUME NEW u \in Thread, pc'[u] \in {"lock", "test", "wait", "copy", "finish"}
        PROVE  pc[u] \in {"lock", "test", "wait", "copy", "finish"}
    BY <1>0, <1>2, <2>2 DEF PutStart, PutAlloc, GetStart, Test, Lock, SpuriousWake, Goto, At
  <2> QED
    BY <1>1, <2>1, <2>2
<1>3. ASSUME NEW t \in Thread, Resolve(t) PROVE ElementInv'
  <2>0. UNCHANGED <<ip, buf, rcv, data>> /\ status = "running"
    BY <1>3 DEF Resolve, objVars, At
  <2>1. CASE status' = "crash"
    <3>1. UNCHANGED <<chan, pc>>
      BY <1>3, <2>0, <2>1 DEF Resolve
    <3> QED
      BY <1>1, <2>0, <3>1
  <2>2. CASE status' # "crash"
    <3> DEFINE k == Idx(t)
    <3>1. k \in Cells /\ data[k] # Null /\ chan' = [chan EXCEPT ![t] = data[k]]
          /\ pc' = [pc EXCEPT ![t] = "lock"]
      BY <1>3, <2>2 DEF Resolve, Goto
    <3>2. k = data[k][2]
      BY <3>1 DEF AllocInv
    <3>3. \A u \in Thread : Idx(u)' = Idx(u)
      BY <2>0 DEF Idx, IsPut, Op
    <3>4. \A u \in Thread : u # t => chan'[u] = chan[u] /\ pc'[u] = pc[u]
      BY <1>0, <3>1
    <3>5. chan'[t] = data[k]
      BY <1>0, <3>1
    <3>6. \A u \in Thread : pc'[u] \in {"lock", "test", "wait", "copy", "finish"} => chan'[u][2] = Idx(u)'
      BY <3>2, <3>3, <3>4, <3>5 DEF ElementInv
    <3> QED
      BY <2>0, <3>6 DEF ElementInv
  <2> QED
    BY <2>1, <2>2
<1>4. ASSUME NEW t \in Thread, Copy(t) PROVE ElementInv'
  <2>1. /\ UNCHANGED <<ip, chan, rcv>> /\ pc[t] = "copy" /\ pc' = [pc EXCEPT ![t] = "finish"]
        /\ \/ IsPut(t) /\ buf' = [buf EXCEPT ![chan[t]] = <<t, ip[t]>>]
           \/ buf' = buf
    BY <1>4 DEF Copy, At, Goto
  <2>2. chan[t] \in Obj
    BY <1>0, <2>1 DEF FlowInv
  <2>3. \A u \in Thread : pc'[u] \in {"lock", "test", "wait", "copy", "finish"} =>
                             pc[u] \in {"lock", "test", "wait", "copy", "finish"}
    BY <1>0, <2>1
  <2>4. CASE buf' = buf
    BY <1>1, <2>1, <2>3, <2>4
  <2>5. CASE IsPut(t) /\ buf' = [buf EXCEPT ![chan[t]] = <<t, ip[t]>>]
    <3>1. \A u \in Thread : Idx(u)' = Idx(u)
      BY <2>1 DEF Idx, IsPut, Op
    <3>2. PutAt(<<t, ip[t]>>) = chan[t][2]
      BY <2>1, <2>5 DEF ElementInv, PutAt, Idx, Op
    <3>3. \A o \in Obj : buf'[o] # NoMsg => PutAt(buf'[o]) = o[2]
      BY <1>0, <2>2, <2>5, <3>2 DEF ElementInv
    <3> QED
      BY <2>1, <2>3, <3>1, <3>3 DEF ElementInv
  <2> QED
    BY <2>1, <2>4, <2>5
<1>5. ASSUME NEW t \in Thread, PutFinish(t) \/ GetFinish(t) PROVE ElementInv'
  <2>1. /\ chan' = chan /\ buf' = buf /\ dst' = dst /\ At(t, "finish") /\ NotifyAllAndReturn(t)
        /\ mtx' = [mtx EXCEPT ![chan[t]] = NoThread] /\ ip' = [ip EXCEPT ![t] = @ + 1]
    BY <1>5 DEF PutFinish, GetFinish
  <2>2. /\ chan[t] \in Obj /\ pc'[t] = "start"
        /\ \A u \in Thread : u # t =>
             (pc'[u] = pc[u] \/ (pc[u] = "wait" /\ pc'[u] = "lock")) /\ ip'[u] = ip[u]
    <3> HIDE DEF IndInv
    <3>1. IndInv
      OBVIOUS
    <3> QED
      BY <2>1, <3>1, FinishFrame, ZenonT(20)
  <2>3. \A u \in Thread : u # t => Idx(u)' = Idx(u)
    BY <2>2 DEF Idx, IsPut, Op
  <2>4. \A u \in Thread : pc'[u] \in {"lock", "test", "wait", "copy", "finish"} => chan'[u][2] = Idx(u)'
    BY <2>1, <2>2, <2>3 DEF ElementInv
  <2>5. \A m \in Msg : \A g \in rcv'[m] : PutAt(m) = GetAt(g)
    <3>1. CASE rcv' = rcv
      BY <3>1 DEF ElementInv
    <3>2. CASE rcv' # rcv
      <4>1. GetFinish(t)
        BY <1>5, <3>2 DEF PutFinish
      <4>2. rcv' = [rcv EXCEPT ![dst[t]] = @ \cup {<<t, ip[t]>>}] /\ IsGet(t) /\ pc[t] = "finish"
            /\ ~IsPut(t)
        BY <4>1 DEF GetFinish, At, IsGet, IsPut
      <4>3. dst[t] = buf[chan[t]] /\ token[chan[t]] > 0
        BY <4>2 DEF FlowInv, CriticalSection, MayProceed
      <4>4. dst[t] \in Msg
        BY <2>2, <4>3 DEF HistoryInv, AbsSent
      <4>5. dst[t] # NoMsg
        BY <4>4 DEF Msg
      <4>6. PutAt(dst[t]) = chan[t][2]
        BY <2>2, <4>3, <4>5 DEF ElementInv
      <4>7. chan[t][2] = GetAt(<<t, ip[t]>>)
        BY <4>2 DEF ElementInv, Idx, GetAt, Op
      <4> QED
        BY <1>0, <4>2, <4>4, <4>6, <4>7 DEF ElementInv
    <3> QED
      BY <3>1, <3>2
  <2> QED
    BY <2>1, <2>4, <2>5 DEF ElementInv
<1>6. ASSUME UNCHANGED vars PROVE ElementInv'
  <2>1. UNCHANGED <<ip, chan, buf, rcv, pc>>
    BY <1>6 DEF vars
  <2> QED
    BY <1>1, <2>1
<1> QED
  BY <1>2, <1>3, <1>4, <1>5, <1>6 DEF Next, Step, Terminated

\* Row and column of an index are unique when columns fit in a row.
LEMMA RowColumn ==
    ASSUME NEW s \in Nat \ {0}, NEW a \in Nat, NEW b \in Nat, NEW c \in Nat, NEW d \in Nat,
           b < s, d < s, a * s + b = c * s + d
    PROVE  a = c /\ b = d
<1>1. CASE a = c
  BY <1>1
<1>2. ASSUME NEW x \in Nat, NEW y \in Nat, NEW e \in Nat, NEW f \in Nat, x < y, e < s, f < s,
             x * s + e = y * s + f
      PROVE  FALSE
  <2> DEFINE k == y - x
  <2>1. k \in Nat /\ k >= 1 /\ y = x + k
    BY <1>2
  <2> HIDE DEF k
  <2>2. y * s = x * s + k * s /\ k * s \in Nat /\ x * s \in Nat
    BY <2>1
  <2>3. k * s >= s
    <3>1. k - 1 \in Nat /\ (k - 1) * s \in Nat
      BY <2>1
    <3>2. k * s = (k - 1) * s + s
      BY <2>1
    <3> QED
      BY <3>1, <3>2
  <2> QED
    BY <1>2, <2>2, <2>3
<1>3. CASE a < c
  BY <1>2, <1>3
<1>4. CASE c < a
  BY <1>2, <1>4
<1> QED
  BY <1>1, <1>3, <1>4

\* Dividing a destination index by the broadcast ratio gives an element.
LEMMA QuotientBound ==
    ASSUME NEW b \in Nat \ {0}, NEW s \in Nat \ {0}, b % s = 0, NEW x \in Nat, x < b
    PROVE  b \div s \in Nat \ {0} /\ x \div (b \div s) \in Nat /\ x \div (b \div s) < s
<1> DEFINE r == b \div s
           q == x \div r
<1>1. r \in Nat \ {0} /\ b = s * r
  <2>1. b \div s \in Nat /\ b = s * (b \div s) + (b % s)
    OBVIOUS
  <2> QED
    BY <2>1, ExactQuotient
<1> HIDE DEF r
<1>2. q \in Nat /\ x = r * q + (x % r) /\ x % r \in Nat
  BY <1>1
<1> HIDE DEF q
<1>3. q < s
  <2> SUFFICES ASSUME ~(q < s) PROVE FALSE
    OBVIOUS
  <2>1. q - s \in Nat /\ r * (q - s) \in Nat
    BY <1>1, <1>2
  <2>2. r * q = r * s + r * (q - s) /\ s * r = r * s
    BY <1>1, <1>2
  <2>3. r * s \in Nat /\ r * q \in Nat
    BY <1>1, <1>2
  <2> QED
    BY <1>1, <1>2, <2>1, <2>2, <2>3
<1> QED
  BY <1>1, <1>2, <1>3 DEF q, r

LEMMA InRange ==
    ASSUME Divisible, NEW i \in 1..2, NEW x \in Nat, x < ChannelPutOpBcast[i]
    PROVE  x \div Ratio[i] \in Nat /\ x \div Ratio[i] < Shape[i]
<1> DEFINE b == ChannelPutOpBcast[i]
           s == Shape[i]
<1>1. b \in Nat \ {0} /\ s \in Nat \ {0} /\ b % s = 0
  <2>1. b % s = 0
    BY DEF Divisible
  <2>2. b \in Nat \ {0}
    BY BcastType
  <2> QED
    BY <2>1, <2>2, ShapeType
<1>2. Ratio[i] = b \div s
  BY DEF Ratio
<1>3. x < b
  OBVIOUS
<1> HIDE DEF b, s
<1>4. x \div (b \div s) \in Nat /\ x \div (b \div s) < s
  BY <1>1, <1>3, QuotientBound
<1> QED
  BY <1>2, <1>4 DEF s

\* A put and a get that address the same cell address the same element: in a
\* square array, or one with a single row.
LEMMA SameElement ==
    ASSUME Divisible, InBounds, Shape[1] = Shape[2] \/ Shape[1] = 1,
           NEW m \in Msg, NEW g \in GetInst, PutAt(m) = GetAt(g)
    PROVE  Prog[m[1]][m[2]].at = <<Prog[g[1]][g[2]].at[1] \div Ratio[1],
                                   Prog[g[1]][g[2]].at[2] \div Ratio[2]>>
<1> DEFINE p == Prog[m[1]][m[2]].at
           h == Prog[g[1]][g[2]].at
           c == h[1] \div Ratio[1]
           d == h[2] \div Ratio[2]
<1>1. /\ p \in Nat \X Nat /\ h \in Nat \X Nat
  <2>1. ASSUME NEW n \in Inst PROVE Prog[n[1]][n[2]] \in Ops
    <3>1. n[1] \in Thread /\ n[2] \in 1..Len(Prog[n[1]])
      BY <2>1 DEF Inst
    <3>2. Prog[n[1]] \in Seq(Ops)
      BY <3>1, ProgAssumption
    <3> QED
      BY <3>1, <3>2
  <2> QED
    BY <2>1 DEF Ops, Msg, GetInst
<1>2. /\ Shape[1] \in Nat \ {0} /\ Shape[2] \in Nat \ {0}
      /\ p[1] < Shape[1] /\ p[2] < Shape[2]
      /\ h[1] < ChannelPutOpBcast[1] /\ h[2] < ChannelPutOpBcast[2]
  BY ShapeType DEF InBounds
<1>3. c \in Nat /\ c < Shape[1] /\ d \in Nat /\ d < Shape[2]
  <2>1. h[1] \in Nat /\ h[2] \in Nat /\ 1 \in 1..2 /\ 2 \in 1..2
    BY <1>1
  <2>2. c \in Nat /\ c < Shape[1]
    BY <1>2, <2>1, InRange
  <2>3. d \in Nat /\ d < Shape[2]
    BY <1>2, <2>1, InRange
  <2> QED
    BY <2>2, <2>3
<1>4. p[1] * Shape[1] + p[2] = c * Shape[2] + d
  BY DEF PutAt, GetAt, PutIdx, GetIdx
<1>5. p = <<p[1], p[2]>> /\ p[1] \in Nat /\ p[2] \in Nat
  BY <1>1
<1> HIDE DEF p, c, d
<1>6. CASE Shape[1] = Shape[2]
  <2> DEFINE s == Shape[1]
             x == p[1]
             y == p[2]
  <2>1. /\ s \in Nat \ {0} /\ x \in Nat /\ y \in Nat /\ c \in Nat /\ d \in Nat
        /\ y < s /\ d < s /\ x * s + y = c * s + d
    BY <1>2, <1>3, <1>4, <1>5, <1>6
  <2> HIDE DEF s, x, y
  <2>2. x = c /\ y = d
    BY <2>1, RowColumn
  <2> QED
    BY <1>5, <2>2 DEF p, c, d, x, y
<1>7. CASE Shape[1] = 1
  <2>1. p[1] = 0 /\ c = 0
    BY <1>2, <1>3, <1>5, <1>7
  <2>2. p[2] = d
    BY <1>2, <1>3, <1>4, <1>5, <1>7, <2>1
  <2> QED
    BY <1>5, <2>1, <2>2 DEF p, c, d
<1> QED
  BY <1>6, <1>7

\* On square and one-row channel arrays the index arithmetic of the lowering
\* and of the runtime agree: whatever the threads and the broadcast, a get
\* receives only what was put on the element its indices select.  On other
\* arrays the put's row stride is the wrong one.
THEOREM SquareArraysSelect ==
    ASSUME Divisible, InBounds, Shape[1] = Shape[2] \/ Shape[1] = 1
    PROVE  Spec => []SelectsElement
<1>1. Init => ElementInv
  BY DEF Init, ElementInv
<1>2. IndInv /\ ElementInv /\ [Next]_vars => ElementInv'
  BY ElementStep
<1>3. IndInv /\ ElementInv => SelectsElement
  <2> SUFFICES ASSUME IndInv, ElementInv, NEW m \in Msg, NEW g \in rcv[m]
               PROVE  Prog[m[1]][m[2]].at = <<Prog[g[1]][g[2]].at[1] \div Ratio[1],
                                              Prog[g[1]][g[2]].at[2] \div Ratio[2]>>
    BY DEF SelectsElement
  <2>1. g \in GetInst
    BY DEF IndInv, TypeOK
  <2>2. PutAt(m) = GetAt(g)
    BY DEF ElementInv
  <2> QED
    BY <2>1, <2>2, SameElement
<1> QED
  BY <1>1, <1>2, <1>3, CpuChannelInvariant, PTL DEF Spec

-----------------------------------------------------------------------------
(* Channels of one element.                                                *)

\* Nobody is about to read the array before it is filled.
FilledInv == StaysUp /\ \A t \in Thread : pc[t] = "resolve" => data[0] # Null

LEMMA OneElement ==
    ASSUME Divisible, InBounds, NCells = 1, IndInv, NEW t \in Thread, ~Finished(t)
    PROVE  Idx(t) = 0
<1>1. Shape[1] = 1 /\ Shape[2] = 1
  <2>1. ASSUME NEW a \in Nat \ {0}, NEW b \in Nat \ {0}, a * b = 1 PROVE a = 1 /\ b = 1
    <3>1. CASE a > 1
      <4>1. a - 2 \in Nat /\ b - 1 \in Nat /\ (a - 2) * b \in Nat /\ a * b = (a - 2) * b + 2 * b
        BY <3>1
      <4> QED
        BY <2>1, <4>1
    <3>2. CASE a = 1
      BY <2>1, <3>2
    <3> QED
      BY <3>1, <3>2
  <2> QED
    BY <2>1, ShapeType DEF NCells
<1>2. /\ IsPut(t) => <<t, ip[t]>> \in Msg /\ ~IsGet(t)
      /\ ~IsPut(t) => <<t, ip[t]>> \in GetInst
  BY CurrentOp DEF IndInv, TypeOK
<1>3. Op(t).at[1] \in Nat /\ Op(t).at[2] \in Nat
  <2>1. ip[t] \in 1..Len(Prog[t]) /\ Prog[t] \in Seq(Ops)
    BY ProgAssumption DEF IndInv, TypeOK, Finished
  <2>2. Op(t) \in Ops
    BY <2>1 DEF Op
  <2> QED
    BY <2>2 DEF Ops
<1>4. CASE IsPut(t)
  <2>1. Op(t).at[1] < 1 /\ Op(t).at[2] < 1
    BY <1>1, <1>2, <1>4 DEF InBounds, Op
  <2>2. Op(t).at[1] = 0 /\ Op(t).at[2] = 0
    BY <1>3, <2>1
  <2> QED
    BY <1>1, <1>4, <2>2 DEF Idx, PutIdx
<1>5. CASE ~IsPut(t)
  <2>1. Op(t).at[1] < ChannelPutOpBcast[1] /\ Op(t).at[2] < ChannelPutOpBcast[2]
    BY <1>2, <1>5 DEF InBounds, Op
  <2>2. /\ Op(t).at[1] \div Ratio[1] \in Nat /\ Op(t).at[1] \div Ratio[1] < 1
        /\ Op(t).at[2] \div Ratio[2] \in Nat /\ Op(t).at[2] \div Ratio[2] < 1
    BY <1>1, <1>3, <2>1, InRange
  <2>3. Op(t).at[1] \div Ratio[1] = 0 /\ Op(t).at[2] \div Ratio[2] = 0
    BY <2>2
  <2> QED
    BY <1>1, <1>5, <2>3 DEF Idx, GetIdx
<1> QED
  BY <1>4, <1>5

LEMMA FilledStep ==
    ASSUME Divisible, InBounds, NCells = 1, IndInv, FilledInv, [Next]_vars PROVE FilledInv'
<1>0. /\ data \in [Cells -> Obj \cup {Null}] /\ pc \in [Thread -> Labels] /\ 0 \in Cells
      /\ Cells = {0} /\ status = "running"
  BY ObjFields DEF IndInv, TypeOK, Cells, FilledInv, StaysUp
<1>1. ASSUME NEW t \in Thread, PutAlloc(t) PROVE FilledInv'
  <2>1. /\ data' = [data EXCEPT ![ai[t]] = <<t, ai[t]>>] /\ status' = status /\ pc[t] = "alloc"
    BY <1>1 DEF PutAlloc, At
  <2>2. ai[t] = 0
    BY <2>1 DEF IndInv, AllocInv, TypeOK
  <2>3. data'[0] # Null
    BY <1>0, <2>1, <2>2, ObjFields
  <2> QED
    BY <1>0, <2>1, <2>3 DEF FilledInv, StaysUp
<1>2. ASSUME NEW t \in Thread, PutStart(t) \/ GetStart(t) PROVE FilledInv'
  <2>1. /\ data' = data /\ status' = status /\ \A u \in Thread : u # t => pc'[u] = pc[u]
        /\ pc'[t] = "resolve" => data[0] # Null
    BY <1>0, <1>2 DEF PutStart, GetStart, Goto
  <2> QED
    BY <1>0, <2>1 DEF FilledInv, StaysUp
<1>3. ASSUME NEW t \in Thread, Resolve(t) PROVE FilledInv'
  <2>1. Idx(t) = 0 /\ data[0] # Null
    BY <1>3, OneElement DEF Resolve, At, FilledInv
  <2>2. data' = data /\ status' = status /\ pc' = [pc EXCEPT ![t] = "lock"]
    BY <1>0, <1>3, <2>1 DEF Resolve, Goto
  <2> QED
    BY <1>0, <2>2 DEF FilledInv, StaysUp
<1>4. ASSUME NEW t \in Thread, Test(t) \/ Copy(t) \/ Lock(t) \/ SpuriousWake(t) PROVE FilledInv'
  <2>1. /\ data' = data /\ status' = status
        /\ \A u \in Thread : pc'[u] = "resolve" => pc[u] = "resolve"
    BY <1>0, <1>4 DEF Test, Copy, Lock, SpuriousWake, Goto
  <2> QED
    BY <2>1 DEF FilledInv, StaysUp
<1>5. ASSUME NEW t \in Thread, PutFinish(t) \/ GetFinish(t) PROVE FilledInv'
  <2>1. /\ data' = data /\ status' = status
        /\ \A u \in Thread : pc'[u] = "resolve" => pc[u] = "resolve"
    BY <1>5 DEF PutFinish, GetFinish, NotifyAllAndReturn
  <2> QED
    BY <2>1 DEF FilledInv, StaysUp
<1>6. ASSUME UNCHANGED vars PROVE FilledInv'
  BY <1>6 DEF vars, FilledInv, StaysUp
<1> QED
  BY <1>1, <1>2, <1>3, <1>4, <1>5, <1>6 DEF Next, Step, Terminated

\* A channel of one element, broadcast or not, is safe to use from any number
\* of threads: no get reads a pointer that is still 0 and no put exits, even
\* when several first puts race.  In larger arrays a get may arrive between
\* two turns of the allocation loop.
THEOREM OneElementStaysUp ==
    ASSUME Divisible, InBounds, NCells = 1 PROVE Spec => []StaysUp
<1>1. Init => FilledInv
  BY DEF Init, FilledInv, StaysUp
<1>2. IndInv /\ FilledInv /\ [Next]_vars => FilledInv'
  BY FilledStep
<1>3. FilledInv => StaysUp
  BY DEF FilledInv
<1> QED
  BY <1>1, <1>2, <1>3, CpuChannelInvariant, PTL DEF Spec
=============================================================================
