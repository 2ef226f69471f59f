------------------------ MODULE AirGpuBarrierProofs ------------------------
(***************************************************************************)
(* Proof that SymmetricHeap::barrier() is a barrier for every number of    *)
(* ranks and every pattern of crashes.  The inductive invariant counts the *)
(* tokens of each pair: those in the socket are exactly those sent in this *)
(* and earlier barriers and not received yet.                              *)
(***************************************************************************)
EXTENDS AirGpuBarrier, TLAPS

LEMMA RankType == \A r \in Ranks : r \in Nat /\ r < N
  BY NAssumption DEF Ranks

LEMMA AfterType ==
  ASSUME NEW r \in Ranks, NEW c \in -1..(N - 1)
  PROVE  After(r, c) \in 0..(N + 1) /\ After(r, c) # r /\ After(r, c) > c
         /\ (\A q \in Ranks : q # r => (After(r, c) > q <=> c >= q))
  BY NAssumption, RankType DEF After

LEMMA FirstPeer ==
  ASSUME NEW r \in Ranks
  PROVE  After(r, -1) \in 0..(N + 1) /\ After(r, -1) # r
         /\ (\A q \in Ranks : q # r => ~(After(r, -1) > q))
  BY NAssumption, RankType DEF After

LEMMA InitIndInv == Init => IndInv
<1> SUFFICES ASSUME Init PROVE IndInv
  OBVIOUS
<1>1. TypeOK
  BY FirstPeer DEF Init, TypeOK
<1>2. TokensInFlight
  BY DEF Init, TokensInFlight, SentTo, RecvdFrom
<1> QED
  BY <1>1, <1>2 DEF IndInv

\* A rank that is not r, at a step of r, keeps its counters.
LEMMA OthersKeepCounts ==
  ASSUME NEW p \in Ranks, NEW q \in Ranks,
         calls'[p] = calls[p], where'[p] = where[p], cur'[p] = cur[p],
         half'[p] = half[p]
  PROVE  SentTo(p, q)' = SentTo(p, q) /\ RecvdFrom(p, q)' = RecvdFrom(p, q)
  BY DEF SentTo, RecvdFrom

\* Entering the barrier sends and receives nothing.
LEMMA CallInv == ASSUME IndInv, NEW r \in Ranks, Call(r) PROVE IndInv'
<1> USE DEF IndInv, Call
<1>1. TypeOK'
  BY FirstPeer DEF TypeOK
<1>2. ASSUME NEW p \in Ranks, NEW q \in Ranks, p # q
      PROVE  SentTo(p, q)' = SentTo(p, q) /\ RecvdFrom(p, q)' = RecvdFrom(p, q)
  <2>1. CASE p = r
    <3>1. /\ calls'[r] = calls[r] /\ where'[r] = "inside" /\ where[r] = "outside"
          /\ cur'[r] = After(r, -1) /\ half'[r] = 0
      BY DEF TypeOK
    <3>2. ~(After(r, -1) > q)
      BY <1>2, <2>1, FirstPeer
    <3> QED
      BY <2>1, <3>1, <3>2 DEF SentTo, RecvdFrom
  <2>2. CASE p # r
    BY <2>2, OthersKeepCounts DEF TypeOK
  <2> QED
    BY <2>1, <2>2
<1>3. TokensInFlight'
  BY <1>2 DEF TokensInFlight
<1> QED
  BY <1>1, <1>3

\* Returning turns the tokens of this barrier into those of a past one.
LEMMA ReturnInv == ASSUME IndInv, NEW r \in Ranks, Return(r) PROVE IndInv'
<1> USE DEF IndInv, Return
<1>1. TypeOK'
  <2>1. calls[r] + 1 \in Nat
    BY DEF TypeOK
  <2> QED
    BY <2>1 DEF TypeOK
<1>2. ASSUME NEW p \in Ranks, NEW q \in Ranks, p # q
      PROVE  SentTo(p, q)' = SentTo(p, q) /\ RecvdFrom(p, q)' = RecvdFrom(p, q)
  <2>1. CASE p = r
    <3>1. /\ calls'[r] = calls[r] + 1 /\ calls[r] \in Nat
          /\ where'[r] = "outside" /\ where[r] = "inside"
      BY DEF TypeOK
    <3>2. cur[r] > q
      BY RankType, NAssumption DEF TypeOK
    <3> QED
      BY <2>1, <3>1, <3>2 DEF SentTo, RecvdFrom
  <2>2. CASE p # r
    BY <2>2, OthersKeepCounts DEF TypeOK
  <2> QED
    BY <2>1, <2>2
<1>3. TokensInFlight'
  BY <1>2 DEF TokensInFlight
<1> QED
  BY <1>1, <1>3

\* Steps that leave the counters alone: an abort, a crash, the destructor.
LEMMA StateOnlyInv ==
  ASSUME IndInv, UNCHANGED <<calls, where, cur, half, net>>,
         state' \in [Ranks -> {"up", "aborted", "crashed", "closed"}]
  PROVE  IndInv'
  BY DEF IndInv, TypeOK, TokensInFlight, SentTo, RecvdFrom

LEMMA AbortInv == ASSUME IndInv, NEW r \in Ranks, Abort(r) PROVE IndInv'
<1>1. state' \in [Ranks -> {"up", "aborted", "crashed", "closed"}]
  BY DEF IndInv, TypeOK, Abort
<1> QED
  BY <1>1, StateOnlyInv DEF Abort

\* Half an exchange changes one counter, that of the peer c the loop is at.
LEMMA AdvanceCounts ==
  ASSUME IndInv, NEW r \in Ranks, Looping(r), Advance(r),
         UNCHANGED <<calls, where>>, NEW c, c = cur[r]
  PROVE  /\ c \in Ranks /\ c # r
         /\ half' \in [Ranks -> {0, 1}] /\ cur' \in [Ranks -> 0..(N + 1)]
         /\ \A s \in Ranks : cur'[s] # s
         /\ SentTo(r, c)' = SentTo(r, c) + (IF SendsNow(r) THEN 1 ELSE 0)
         /\ RecvdFrom(r, c)' = RecvdFrom(r, c) + (IF SendsNow(r) THEN 0 ELSE 1)
         /\ \A p, q \in Ranks : p # q /\ ~(p = r /\ q = c) =>
              SentTo(p, q)' = SentTo(p, q) /\ RecvdFrom(p, q)' = RecvdFrom(p, q)
<1> USE DEF IndInv, Looping, Advance
<1>1. c \in Ranks /\ c # r /\ where[r] = "inside" /\ where'[r] = "inside"
      /\ calls'[r] = calls[r] /\ calls[r] \in Nat /\ half[r] \in {0, 1}
  <2>1. c \in 0..(N + 1) /\ c < N /\ c # r
    BY DEF TypeOK
  <2>2. c \in Ranks
    BY <2>1, NAssumption DEF Ranks
  <2>3. /\ where[r] = "inside" /\ where'[r] = "inside"
        /\ calls'[r] = calls[r] /\ calls[r] \in Nat /\ half[r] \in {0, 1}
    BY DEF TypeOK
  <2> QED
    BY <2>1, <2>2, <2>3
<1>2. /\ After(r, c) \in 0..(N + 1) /\ After(r, c) # r /\ After(r, c) > c
      /\ \A q \in Ranks : q # r => (After(r, c) > q <=> c >= q)
  BY <1>1, AfterType, NAssumption DEF Ranks
<1>3. /\ half'[r] = 1 - half[r]
      /\ cur'[r] = IF half[r] = 1 THEN After(r, c) ELSE c
      /\ \A s \in Ranks : s # r => half'[s] = half[s] /\ cur'[s] = cur[s]
  BY DEF TypeOK
<1>4. /\ half' \in [Ranks -> {0, 1}] /\ cur' \in [Ranks -> 0..(N + 1)]
      /\ \A s \in Ranks : cur'[s] # s
  <2>1. 1 - half[r] \in {0, 1}
    BY <1>1
  <2> QED
    BY <2>1, <1>1, <1>2, <1>3 DEF TypeOK
<1>5. r \in Nat /\ c \in Nat /\ After(r, c) \in Nat
  BY <1>1, <1>2, RankType
<1>6. /\ SentTo(r, c)' = SentTo(r, c) + (IF SendsNow(r) THEN 1 ELSE 0)
      /\ RecvdFrom(r, c)' = RecvdFrom(r, c) + (IF SendsNow(r) THEN 0 ELSE 1)
  <2>1. CASE half[r] = 0
    <3>1. half'[r] = 1 /\ cur'[r] = c /\ (SendsNow(r) <=> r < c)
      BY <2>1, <1>3 DEF SendsNow
    <3> QED
      BY <2>1, <3>1, <1>1, <1>5 DEF SentTo, RecvdFrom
  <2>2. CASE half[r] = 1
    <3>1. half'[r] = 0 /\ cur'[r] = After(r, c) /\ (SendsNow(r) <=> ~(r < c))
      BY <2>2, <1>3 DEF SendsNow
    <3> QED
      BY <2>2, <3>1, <1>1, <1>2, <1>5 DEF SentTo, RecvdFrom
  <2> QED
    BY <2>1, <2>2, <1>1
<1>7. ASSUME NEW p \in Ranks, NEW q \in Ranks, p # q, ~(p = r /\ q = c)
      PROVE  SentTo(p, q)' = SentTo(p, q) /\ RecvdFrom(p, q)' = RecvdFrom(p, q)
  <2>1. CASE p = r
    <3>1. q # c /\ q \in Nat
      BY <2>1, <1>2, <1>3, <1>5, <1>7, RankType
    <3>2. cur'[r] > q \/ (cur'[r] = q /\ half'[r] = 1) <=> c > q
      BY <2>1, <1>1, <1>2, <1>3, <1>5, <1>7, RankType
    <3> QED
      BY <2>1, <3>1, <3>2, <1>1, <1>2, <1>3, <1>5, <1>7, RankType DEF SentTo, RecvdFrom
  <2>2. CASE p # r
    BY <2>2, <1>3, OthersKeepCounts DEF TypeOK
  <2> QED
    BY <2>1, <2>2
<1> QED
  BY <1>1, <1>4, <1>6, <1>7

\* A counter is a number, and no more than one ahead of the returned calls.
LEMMA CountType ==
  ASSUME IndInv, NEW p \in Ranks, NEW q \in Ranks
  PROVE  /\ SentTo(p, q) \in Nat /\ RecvdFrom(p, q) \in Nat
         /\ SentTo(p, q) <= Entered(p) /\ RecvdFrom(p, q) >= calls[p]
<1>1. calls[p] \in Nat
  BY DEF IndInv, TypeOK
<1> QED
  BY <1>1 DEF SentTo, RecvdFrom, Entered

LEMMA SendInv == ASSUME IndInv, NEW r \in Ranks, Send(r) PROVE IndInv'
<1>1. CASE Gone(cur[r])
  BY <1>1, AbortInv DEF Send
<1>2. CASE ~Gone(cur[r])
  <2>1. PICK c : c = cur[r]
    OBVIOUS
  <2>2. /\ net' = [net EXCEPT ![r][c] = @ + 1] /\ Advance(r) /\ Looping(r)
        /\ SendsNow(r) /\ UNCHANGED <<calls, where, state>>
    BY <1>2, <2>1 DEF Send
  <2>3. /\ c \in Ranks /\ c # r
        /\ half' \in [Ranks -> {0, 1}] /\ cur' \in [Ranks -> 0..(N + 1)]
        /\ \A s \in Ranks : cur'[s] # s
        /\ SentTo(r, c)' = SentTo(r, c) + 1 /\ RecvdFrom(r, c)' = RecvdFrom(r, c)
        /\ \A p, q \in Ranks : p # q /\ ~(p = r /\ q = c) =>
             SentTo(p, q)' = SentTo(p, q) /\ RecvdFrom(p, q)' = RecvdFrom(p, q)
    <3>1. SentTo(r, c) \in Int /\ RecvdFrom(r, c) \in Int /\ c \in Ranks
      BY <2>1, <2>2, AdvanceCounts, CountType
    <3> QED
      BY <2>1, <2>2, <3>1, AdvanceCounts
  <2>4. net[r][c] + 1 \in Nat
    BY <2>3 DEF IndInv, TypeOK
  <2>5. TypeOK'
    BY <2>2, <2>3, <2>4 DEF IndInv, TypeOK
  <2>6. ASSUME NEW p \in Ranks, NEW q \in Ranks, p # q
        PROVE  net'[p][q] = SentTo(p, q)' - RecvdFrom(q, p)'
    <3>0. net[p][q] = SentTo(p, q) - RecvdFrom(q, p) /\ net[p][q] \in Nat
          /\ SentTo(p, q) \in Nat /\ RecvdFrom(q, p) \in Nat
      BY <2>6, CountType DEF IndInv, TokensInFlight, TypeOK
    <3>1. CASE p = r /\ q = c
      <4>1. net'[p][q] = net[p][q] + 1
        BY <3>1, <2>2, <2>3 DEF IndInv, TypeOK
      <4>2. RecvdFrom(q, p)' = RecvdFrom(q, p) /\ SentTo(p, q)' = SentTo(p, q) + 1
        BY <3>1, <2>3, <2>6
      <4> QED
        BY <4>1, <4>2, <3>0
    <3>2. CASE ~(p = r /\ q = c)
      <4>1. net'[p][q] = net[p][q]
        BY <3>2, <2>2, <2>3 DEF IndInv, TypeOK
      <4>2. SentTo(p, q)' = SentTo(p, q)
        BY <3>2, <2>3, <2>6
      <4>3. RecvdFrom(q, p)' = RecvdFrom(q, p)
        BY <2>3, <2>6
      <4> QED
        BY <4>1, <4>2, <4>3, <3>0
    <3> QED
      BY <3>1, <3>2
  <2> QED
    BY <2>5, <2>6 DEF IndInv, TokensInFlight
<1> QED
  BY <1>1, <1>2

LEMMA RecvInv == ASSUME IndInv, NEW r \in Ranks, Recv(r) PROVE IndInv'
<1>1. CASE Abort(r)
  BY <1>1, AbortInv
<1>2. CASE ~Abort(r)
  <2>1. PICK c : c = cur[r]
    OBVIOUS
  <2>2. /\ net[c][r] > 0 /\ net' = [net EXCEPT ![c][r] = @ - 1] /\ Advance(r)
        /\ Looping(r) /\ ~SendsNow(r) /\ UNCHANGED <<calls, where, state>>
    BY <1>2, <2>1 DEF Recv
  <2>3. /\ c \in Ranks /\ c # r
        /\ half' \in [Ranks -> {0, 1}] /\ cur' \in [Ranks -> 0..(N + 1)]
        /\ \A s \in Ranks : cur'[s] # s
        /\ SentTo(r, c)' = SentTo(r, c) /\ RecvdFrom(r, c)' = RecvdFrom(r, c) + 1
        /\ \A p, q \in Ranks : p # q /\ ~(p = r /\ q = c) =>
             SentTo(p, q)' = SentTo(p, q) /\ RecvdFrom(p, q)' = RecvdFrom(p, q)
    <3>1. SentTo(r, c) \in Int /\ RecvdFrom(r, c) \in Int /\ c \in Ranks
      BY <2>1, <2>2, AdvanceCounts, CountType
    <3> QED
      BY <2>1, <2>2, <3>1, AdvanceCounts
  <2>4. net[c][r] - 1 \in Nat
    BY <2>2, <2>3 DEF IndInv, TypeOK
  <2>5. TypeOK'
    BY <2>2, <2>3, <2>4 DEF IndInv, TypeOK
  <2>6. ASSUME NEW p \in Ranks, NEW q \in Ranks, p # q
        PROVE  net'[p][q] = SentTo(p, q)' - RecvdFrom(q, p)'
    <3>0. net[p][q] = SentTo(p, q) - RecvdFrom(q, p) /\ net[p][q] \in Nat
          /\ SentTo(p, q) \in Nat /\ RecvdFrom(q, p) \in Nat
      BY <2>6, CountType DEF IndInv, TokensInFlight, TypeOK
    <3>1. CASE p = c /\ q = r
      <4>1. net'[p][q] = net[p][q] - 1
        BY <3>1, <2>2, <2>3 DEF IndInv, TypeOK
      <4>2. RecvdFrom(q, p)' = RecvdFrom(q, p) + 1 /\ SentTo(p, q)' = SentTo(p, q)
        BY <3>1, <2>3, <2>6
      <4> QED
        BY <4>1, <4>2, <3>0
    <3>2. CASE ~(p = c /\ q = r)
      <4>1. net'[p][q] = net[p][q]
        BY <3>2, <2>2, <2>3 DEF IndInv, TypeOK
      <4>2. SentTo(p, q)' = SentTo(p, q)
        BY <2>3, <2>6
      <4>3. RecvdFrom(q, p)' = RecvdFrom(q, p)
        BY <3>2, <2>3, <2>6
      <4> QED
        BY <4>1, <4>2, <4>3, <3>0
    <3> QED
      BY <3>1, <3>2
  <2> QED
    BY <2>5, <2>6 DEF IndInv, TokensInFlight
<1> QED
  BY <1>1, <1>2

LEMMA DestroyInv == ASSUME IndInv, NEW r \in Ranks, Destroy(r) PROVE IndInv'
<1>1. state' \in [Ranks -> {"up", "aborted", "crashed", "closed"}]
  BY DEF IndInv, TypeOK, Destroy
<1> QED
  BY <1>1, StateOnlyInv DEF Destroy

LEMMA CrashInv == ASSUME IndInv, NEW r \in Ranks, Crash(r) PROVE IndInv'
<1>1. state' \in [Ranks -> {"up", "aborted", "crashed", "closed"}]
  BY DEF IndInv, TypeOK, Crash
<1> QED
  BY <1>1, StateOnlyInv DEF Crash

LEMMA NextIndInv == IndInv /\ [Next]_vars => IndInv'
<1> SUFFICES ASSUME IndInv, [Next]_vars PROVE IndInv'
  OBVIOUS
<1>1. CASE UNCHANGED vars
  <2>1. state' \in [Ranks -> {"up", "aborted", "crashed", "closed"}]
    BY <1>1 DEF IndInv, TypeOK, vars
  <2> QED
    BY <1>1, <2>1, StateOnlyInv DEF vars
<1>2. ASSUME NEW r \in Ranks, Step(r) PROVE IndInv'
  BY <1>2, CallInv, SendInv, RecvInv, ReturnInv, DestroyInv DEF Step
<1>3. ASSUME NEW r \in Ranks, Crash(r) PROVE IndInv'
  BY <1>3, CrashInv
<1> QED
  BY <1>1, <1>2, <1>3 DEF Next, Terminated

\* A rank has received a token of each of its returned calls from every
\* peer, which had sent it by then, and so had called barrier().
LEMMA IndInvBarrier == IndInv => BarrierHolds
<1> SUFFICES ASSUME IndInv, NEW p \in Ranks, NEW q \in Ranks
             PROVE  calls[p] <= Entered(q)
  BY DEF BarrierHolds
<1>0. calls[p] \in Nat
  BY DEF IndInv, TypeOK
<1>1. CASE p = q
  BY <1>0, <1>1 DEF Entered
<1>2. CASE p # q
  <2>1. net[q][p] = SentTo(q, p) - RecvdFrom(p, q) /\ net[q][p] \in Nat
    BY <1>2 DEF IndInv, TokensInFlight, TypeOK
  <2>2. /\ SentTo(q, p) \in Nat /\ RecvdFrom(p, q) \in Nat
        /\ SentTo(q, p) <= Entered(q) /\ RecvdFrom(p, q) >= calls[p]
    BY CountType
  <2>3. Entered(q) \in Nat
    BY DEF Entered, IndInv, TypeOK
  <2> QED
    BY <1>0, <2>1, <2>2, <2>3
<1> QED
  BY <1>1, <1>2

\* For every number of ranks, every number of calls and whichever ranks
\* crash: barrier() returns only after every rank has called it.
THEOREM BarrierIsBarrier == Spec => [](TypeOK /\ BarrierHolds)
<1>1. IndInv => TypeOK /\ BarrierHolds
  BY IndInvBarrier DEF IndInv
<1> QED
  BY <1>1, InitIndInv, NextIndInv, PTL DEF Spec

-----------------------------------------------------------------------------
(* Destructors do not synchronise, and need not.                           *)

\* Where a rank can be in its program: the destructor runs after MaxCalls
\* calls have returned.
LifeInv ==
    \A r \in Ranks :
        /\ calls[r] <= MaxCalls
        /\ where[r] = "inside" => calls[r] < MaxCalls
        /\ state[r] = "closed" => where[r] = "outside" /\ calls[r] = MaxCalls

QuietInv == IndInv /\ LifeInv /\ NobodyAborts

LEMMA LifeStep == ASSUME IndInv, LifeInv, [Next]_vars PROVE LifeInv'
<1> USE DEF LifeInv
<1>1. ASSUME NEW r \in Ranks, Call(r) PROVE LifeInv'
  BY <1>1 DEF Call, IndInv, TypeOK
<1>2. ASSUME NEW r \in Ranks, Abort(r) PROVE LifeInv'
  BY <1>2 DEF Abort, IndInv, TypeOK
<1>3. ASSUME NEW r \in Ranks, Send(r) \/ Recv(r) PROVE LifeInv'
  <2>1. CASE Abort(r)
    BY <1>2, <2>1
  <2>2. CASE UNCHANGED <<calls, where, state>>
    BY <2>2
  <2> QED
    BY <1>3, <2>1, <2>2 DEF Send, Recv
<1>4. ASSUME NEW r \in Ranks, Return(r) PROVE LifeInv'
  <2>1. calls[r] + 1 <= MaxCalls /\ calls[r] \in Nat
    BY <1>4, NAssumption DEF Return, IndInv, TypeOK
  <2> QED
    BY <1>4, <2>1 DEF Return, IndInv, TypeOK
<1>5. ASSUME NEW r \in Ranks, Destroy(r) \/ Crash(r) PROVE LifeInv'
  BY <1>5 DEF Destroy, Crash, IndInv, TypeOK
<1>6. CASE UNCHANGED vars
  BY <1>6 DEF vars
<1> QED
  BY <1>1, <1>3, <1>4, <1>5, <1>6 DEF Next, Step, Terminated

\* A rank that still has to send to, or to receive from, peer c in its
\* current call has exchanged only the tokens of its returned calls with c.
LEMMA PendingCounts ==
  ASSUME IndInv, NEW r \in Ranks, Looping(r), NEW c, c = cur[r]
  PROVE  /\ c \in Ranks /\ c # r
         /\ SendsNow(r) => SentTo(r, c) = calls[r]
         /\ ~SendsNow(r) => RecvdFrom(r, c) = calls[r]
<1>1. c \in Ranks /\ c # r
  BY NAssumption DEF IndInv, TypeOK, Looping, Ranks
<1>2. r \in Nat /\ c \in Nat /\ calls[r] \in Nat /\ half[r] \in {0, 1}
  BY <1>1, RankType DEF IndInv, TypeOK
<1> QED
  BY <1>1, <1>2 DEF SentTo, RecvdFrom, SendsNow, Looping

\* A closed rank has returned from its last call, so it has received every
\* token its peers will ever send and has sent every token they will need.
LEMMA ClosedNeedsNothing ==
  ASSUME IndInv, LifeInv, NEW r \in Ranks, Looping(r), NEW c, c = cur[r],
         state[c] = "closed"
  PROVE  ~SendsNow(r) /\ net[c][r] > 0
<1>1. c \in Ranks /\ c # r
  BY PendingCounts
<1>2. calls[r] < MaxCalls /\ calls[c] = MaxCalls /\ where[c] = "outside"
  BY <1>1 DEF LifeInv, Looping
<1>3. calls[r] \in Nat /\ calls[c] \in Nat
  BY <1>1 DEF IndInv, TypeOK
<1>4. SentTo(c, r) = calls[c] /\ RecvdFrom(c, r) = calls[c]
  BY <1>2, <1>3 DEF SentTo, RecvdFrom
<1>5. /\ net[r][c] = SentTo(r, c) - RecvdFrom(c, r) /\ net[r][c] \in Nat
      /\ net[c][r] = SentTo(c, r) - RecvdFrom(r, c) /\ net[c][r] \in Nat
  BY <1>1 DEF IndInv, TokensInFlight, TypeOK
<1>6. ~SendsNow(r)
  BY <1>2, <1>3, <1>4, <1>5, PendingCounts
<1> QED
  BY <1>2, <1>3, <1>4, <1>5, <1>6, PendingCounts

\* Hence nobody meets a closed socket unless somebody has crashed.
LEMMA NoAbortStep ==
  ASSUME QuietInv, NEW r \in Ranks, Send(r) \/ Recv(r), ~UNCHANGED state
  PROVE  \E s \in Ranks : state'[s] = "crashed"
<1> USE DEF QuietInv
<1> SUFFICES ASSUME \A s \in Ranks : state'[s] # "crashed" PROVE FALSE
  OBVIOUS
<1>0. state \in [Ranks -> {"up", "aborted", "crashed", "closed"}]
  BY DEF IndInv, TypeOK
<1>1. /\ Looping(r) /\ Gone(cur[r]) /\ state' = [state EXCEPT ![r] = "aborted"]
      /\ SendsNow(r) \/ net[cur[r]][r] = 0
  BY DEF Send, Recv, Abort
<1>2. cur[r] \in Ranks /\ cur[r] # r
  BY <1>1, PendingCounts
<1>3. \A s \in Ranks : state[s] # "crashed"
  BY <1>0, <1>1 DEF Looping
<1>4. state[cur[r]] = "closed"
  BY <1>0, <1>1, <1>2, <1>3 DEF NobodyAborts, Gone
<1> QED
  BY <1>1, <1>4, ClosedNeedsNothing

LEMMA QuietStep == ASSUME QuietInv, [Next]_vars PROVE NobodyAborts'
<1> USE DEF QuietInv
<1>0. state \in [Ranks -> {"up", "aborted", "crashed", "closed"}]
  BY DEF IndInv, TypeOK
<1>1. ASSUME NEW r \in Ranks, Send(r) \/ Recv(r) PROVE NobodyAborts'
  <2>1. CASE UNCHANGED state
    BY <2>1 DEF NobodyAborts
  <2>2. CASE ~UNCHANGED state
    BY <1>1, <2>2, NoAbortStep DEF NobodyAborts
  <2> QED
    BY <2>1, <2>2
<1>2. ASSUME NEW r \in Ranks, Destroy(r) PROVE NobodyAborts'
  BY <1>0, <1>2 DEF Destroy, NobodyAborts
<1>3. ASSUME NEW r \in Ranks, Crash(r) PROVE NobodyAborts'
  BY <1>0, <1>3 DEF Crash, NobodyAborts
<1>4. CASE UNCHANGED state
  BY <1>4 DEF NobodyAborts
<1> QED
  BY <1>1, <1>2, <1>3, <1>4 DEF Next, Step, Call, Return, Terminated, vars

\* The tokens in the sockets are those of the running calls, for every number
\* of ranks, calls and crashes: barrier() leaves none behind and takes none
\* that belongs to another call.
THEOREM TokensExact == Spec => []IndInv
  BY InitIndInv, NextIndInv, PTL DEF Spec

\* Although ~SymmetricHeap closes its sockets without a barrier, it never
\* makes a slower peer abort: a rank aborts only if some rank has crashed.
THEOREM DestructorsAreSafe == Spec => []NobodyAborts
<1>1. Init => QuietInv
  <2>1. Init => LifeInv /\ NobodyAborts
    BY NAssumption DEF Init, LifeInv, NobodyAborts
  <2> QED
    BY <2>1, InitIndInv DEF QuietInv
<1>2. QuietInv /\ [Next]_vars => QuietInv'
  BY NextIndInv, LifeStep, QuietStep DEF QuietInv
<1>3. QuietInv => NobodyAborts
  BY DEF QuietInv
<1> QED
  BY <1>1, <1>2, <1>3, PTL DEF Spec
=============================================================================
