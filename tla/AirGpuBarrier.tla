--------------------------- MODULE AirGpuBarrier ---------------------------
(***************************************************************************)
(* SymmetricHeap::barrier() of the multi-process GPU runtime               *)
(* (runtime_lib/airgpu/symmetric_heap.cpp) over the socket mesh of         *)
(* fd_passing.cpp: each rank walks its peers in ascending order and        *)
(* exchanges a one-byte token with each, the lower rank of a pair sending  *)
(* first.  Ranks may crash; a rank that meets a closed socket aborts.      *)
(***************************************************************************)
EXTENDS Integers

CONSTANTS
    N,          \* WORLD_SIZE
    MaxCalls,   \* how often the program calls barrier() on each rank
    Faulty      \* the ranks that may crash

ASSUME NAssumption == N \in Nat \ {0} /\ MaxCalls \in Nat

Ranks == 0..(N - 1)

VARIABLES
    calls,      \* how many calls of barrier() have returned
    where,      \* "inside" or "outside" barrier()
    cur,        \* the peer its loop is at; N or more when the loop is done
    half,       \* 0 or 1: how much of the exchange with cur is done
    net,        \* net[p][q]: tokens p has sent q that q has not received
    state       \* "up", "aborted", "crashed", "closed" by the destructor

vars == <<calls, where, cur, half, net, state>>

TypeOK ==
    /\ calls \in [Ranks -> Nat]
    /\ where \in [Ranks -> {"inside", "outside"}]
    /\ cur \in [Ranks -> 0..(N + 1)]
    /\ half \in [Ranks -> {0, 1}]
    /\ net \in [Ranks -> [Ranks -> Nat]]
    /\ state \in [Ranks -> {"up", "aborted", "crashed", "closed"}]
    /\ \A r \in Ranks : cur[r] # r

\* The next key of fd_mesh_, an ordered map over all ranks but r.
After(r, c) == IF c + 1 = r THEN c + 2 ELSE c + 1

Init ==
    /\ calls = [r \in Ranks |-> 0]
    /\ where = [r \in Ranks |-> "outside"]
    /\ cur = [r \in Ranks |-> After(r, -1)]
    /\ half = [r \in Ranks |-> 0]
    /\ net = [p \in Ranks |-> [q \in Ranks |-> 0]]
    /\ state = [r \in Ranks |-> "up"]

Looping(r) == state[r] = "up" /\ where[r] = "inside" /\ cur[r] < N

\* if (rank_ < peer) send then receive, else receive then send.
SendsNow(r) == r < cur[r] <=> half[r] = 0
Gone(r) == state[r] # "up"

\* Mutant of Advance: the loop goes on after the first half.
MutAdvanceEarly(r) ==
    /\ half' = half
    /\ cur' = [cur EXCEPT ![r] = After(r, @)]

\* One half of the exchange with cur is over.
Advance(r) ==
    /\ half' = [half EXCEPT ![r] = 1 - @]
    /\ cur' = [cur EXCEPT ![r] = IF half[r] = 1 THEN After(r, @) ELSE @]

Call(r) ==
    /\ state[r] = "up" /\ where[r] = "outside" /\ calls[r] < MaxCalls
    /\ where' = [where EXCEPT ![r] = "inside"]
    /\ cur' = [cur EXCEPT ![r] = After(r, -1)]
    /\ half' = [half EXCEPT ![r] = 0]
    /\ UNCHANGED <<calls, net, state>>

Abort(r) ==
    /\ state' = [state EXCEPT ![r] = "aborted"]
    /\ UNCHANGED <<calls, where, cur, half, net>>

\* sendAll(sock, &token, 1); a closed peer makes it fail.
Send(r) ==
    /\ Looping(r) /\ SendsNow(r)
    /\ IF Gone(cur[r])
       THEN Abort(r)
       ELSE /\ net' = [net EXCEPT ![r][cur[r]] = @ + 1]
            /\ Advance(r)
            /\ UNCHANGED <<calls, where, state>>

\* Mutant of Recv: a failed receive is ignored.
MutRecvIgnoresFailure(r) ==
    /\ Looping(r) /\ ~SendsNow(r)
    /\ net[cur[r]][r] > 0 \/ Gone(cur[r])
    /\ net' = [net EXCEPT ![cur[r]][r] = IF @ > 0 THEN @ - 1 ELSE 0]
    /\ Advance(r)
    /\ UNCHANGED <<calls, where, state>>

\* Mutant of Recv: no end-of-file check, a dead peer is waited for.
MutRecvNoEof(r) ==
    /\ Looping(r) /\ ~SendsNow(r)
    /\ net[cur[r]][r] > 0
    /\ net' = [net EXCEPT ![cur[r]][r] = @ - 1]
    /\ Advance(r)
    /\ UNCHANGED <<calls, where, state>>

\* recvAll(sock, &token, 1): what is in the socket is received even if the
\* peer is gone; with nothing in it, a gone peer makes it fail.
Recv(r) ==
    /\ Looping(r) /\ ~SendsNow(r)
    /\ \/ /\ net[cur[r]][r] > 0
          /\ net' = [net EXCEPT ![cur[r]][r] = @ - 1]
          /\ Advance(r)
          /\ UNCHANGED <<calls, where, state>>
       \/ /\ net[cur[r]][r] = 0 /\ Gone(cur[r])
          /\ Abort(r)

Return(r) ==
    /\ state[r] = "up" /\ where[r] = "inside" /\ cur[r] >= N
    /\ where' = [where EXCEPT ![r] = "outside"]
    /\ calls' = [calls EXCEPT ![r] = @ + 1]
    /\ UNCHANGED <<cur, half, net, state>>

\* Mutant of Destroy: the sockets are closed while the last barrier runs.
MutDestroyInside(r) ==
    /\ state[r] = "up" /\ calls[r] = MaxCalls - 1 /\ where[r] = "inside" /\ half[r] = 1
    /\ state' = [state EXCEPT ![r] = "closed"]
    /\ UNCHANGED <<calls, where, cur, half, net>>

\* ~SymmetricHeap: teardownFdMesh closes the sockets, with no barrier first.
Destroy(r) ==
    /\ state[r] = "up" /\ where[r] = "outside" /\ calls[r] = MaxCalls
    /\ state' = [state EXCEPT ![r] = "closed"]
    /\ UNCHANGED <<calls, where, cur, half, net>>

\* The process of a faulty rank dies between two steps of the protocol.
Crash(r) ==
    /\ r \in Faulty /\ state[r] = "up"
    /\ state' = [state EXCEPT ![r] = "crashed"]
    /\ UNCHANGED <<calls, where, cur, half, net>>

Stopped == \A r \in Ranks : Gone(r)
Terminated == Stopped /\ UNCHANGED vars

Step(r) == Call(r) \/ Send(r) \/ Recv(r) \/ Return(r) \/ Destroy(r)
Next == \/ \E r \in Ranks : Step(r) \/ Crash(r)
        \/ Terminated

Spec == Init /\ [][Next]_vars
\* Every process keeps running; nobody has to crash.
FairSpec == Spec /\ \A r \in Ranks : WF_vars(Step(r))

-----------------------------------------------------------------------------
Entered(r) == calls[r] + (IF where[r] = "inside" THEN 1 ELSE 0)

\* "All ranks synchronize": no rank returns from its k-th barrier() before
\* every rank has called it, whichever ranks crash.
BarrierHolds == \A p, q \in Ranks : calls[p] <= Entered(q)

\* No rank waits for ever: it gets through all its barriers or it aborts.
NobodyHangs == <>Stopped

\* Unless a rank has crashed, nobody is aborted: a peer that destroys its
\* heap early has left behind all the tokens that slower ranks still need.
NobodyAborts == (\A r \in Ranks : state[r] # "crashed") => \A r \in Ranks : state[r] # "aborted"

\* How many tokens p has sent q, and q has received from p.
SentTo(p, q) == calls[p] +
    (IF where[p] = "inside" /\ (cur[p] > q \/ (cur[p] = q /\ p < q /\ half[p] = 1)) THEN 1 ELSE 0)
RecvdFrom(q, p) == calls[q] +
    (IF where[q] = "inside" /\ (cur[q] > p \/ (cur[q] = p /\ p < q /\ half[q] = 1)) THEN 1 ELSE 0)

\* Tokens are neither lost nor left over from an earlier barrier.
TokensInFlight ==
    \A p, q \in Ranks : p # q => net[p][q] = SentTo(p, q) - RecvdFrom(q, p)

IndInv == TypeOK /\ TokensInFlight
=============================================================================
