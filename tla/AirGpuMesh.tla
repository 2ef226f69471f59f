----------------------------- MODULE AirGpuMesh -----------------------------
(***************************************************************************)
(* The collective constructor of SymmetricHeap: every rank builds its      *)
(* socket mesh (setupFdMesh, fd_passing.cpp), then exchanges base          *)
(* addresses, meets the others in a barrier, exchanges one heap record     *)
(* with each peer, and meets them again (establishPeerAccess,              *)
(* symmetric_heap.cpp).  Ranks start at any time, may give up connecting   *)
(* and may crash.                                                          *)
(*                                                                         *)
(* Between two processes there is one socket at most, so a socket is       *)
(* named by the process at its other end.  What matters of a message is    *)
(* its kind; a heap record (offset, size and fd) is one message, because   *)
(* a receiver that gets a part of it only aborts, as if it got none.       *)
(***************************************************************************)
EXTENDS Integers, Sequences, FiniteSets

CONSTANTS
    N,          \* WORLD_SIZE
    MaxAttempts,\* attempts to connect before a rank gives up (1000)
    Faulty,     \* the ranks that may crash
    None        \* no socket, no heap

ASSUME MeshAssumption == N \in Nat /\ N >= 2 /\ MaxAttempts \in Nat /\ None \notin Int

Ranks == 0..(N - 1)

VARIABLES
    pc,         \* where the constructor is, or how the process ended
    cur,        \* the peer its loop is at (in accept: connections accepted)
    i,          \* steps done with that peer
    attempts,   \* failed attempts to connect to cur
    backlog,    \* backlog[r]: processes connected to r's listener, unaccepted
    client,     \* the process whose connection was just accepted
    conns,      \* fd_mesh_: from a rank to the process at the socket's end
    net,        \* net[p][q]: messages p has sent q, unreceived
    mapped,     \* peer_mappings_: whose heap is mapped as that of a rank
    count       \* peer_count of the exchange going on

vars == <<pc, cur, i, attempts, backlog, client, conns, net, mapped, count>>

Phases == <<"base", "barrier1", "records", "barrier2", "done">>
Ended == {"timedout", "dead", "crashed"}

TypeOK ==
    /\ pc \in [Ranks -> {"start", "connect", "accept"} \cup Ended
                        \cup {Phases[k] : k \in 1..5}]
    /\ cur \in [Ranks -> 0..N] /\ i \in [Ranks -> 0..4]
    /\ attempts \in [Ranks -> 0..MaxAttempts]
    /\ \A r \in Ranks : \A k \in 1..Len(backlog[r]) : backlog[r][k] \in Ranks
    /\ client \in [Ranks -> Ranks \cup {None}]
    /\ conns \in [Ranks -> [Ranks -> Ranks \cup {None}]]
    /\ \A p, q \in Ranks : \A k \in 1..Len(net[p][q]) :
          net[p][q][k] \in {"rank", "base", "count", "record", "token"}
    /\ mapped \in [Ranks -> [Ranks -> Ranks \cup {None}]]
    /\ count \in [Ranks -> {0, 1}]

Init ==
    /\ pc = [r \in Ranks |-> "start"]
    /\ cur = [r \in Ranks |-> 0] /\ i = [r \in Ranks |-> 0]
    /\ attempts = [r \in Ranks |-> 0]
    /\ backlog = [r \in Ranks |-> <<>>]
    /\ client = [r \in Ranks |-> None]
    /\ conns = [r \in Ranks |-> [k \in Ranks |-> None]]
    /\ net = [p \in Ranks |-> [q \in Ranks |-> <<>>]]
    /\ mapped = [r \in Ranks |-> [k \in Ranks |-> IF k = r THEN r ELSE None]]
    /\ count = [r \in Ranks |-> 0]

Gone(r) == pc[r] \in Ended
Listening(r) == pc[r] \in {"connect", "accept"}

Die(r, how) ==
    /\ pc' = [pc EXCEPT ![r] = how]
    /\ UNCHANGED <<cur, i, attempts, backlog, client, conns, net, mapped, count>>

-----------------------------------------------------------------------------
(* setupFdMesh *)

\* bind() and listen().
Listen(r) ==
    /\ pc[r] = "start"
    /\ pc' = [pc EXCEPT ![r] = "connect"]
    /\ UNCHANGED <<cur, i, attempts, backlog, client, conns, net, mapped, count>>

\* Mutant of Connect: the attempts are not limited.
MutConnectForever(r) ==
    /\ pc[r] = "connect" /\ cur[r] < r /\ i[r] = 0
    /\ IF Listening(cur[r])
       THEN /\ backlog' = [backlog EXCEPT ![cur[r]] = Append(@, r)]
            /\ i' = [i EXCEPT ![r] = 1]
            /\ UNCHANGED attempts
       ELSE /\ attempts' = [attempts EXCEPT ![r] = @ + 1]
            /\ UNCHANGED <<i, backlog>>
    /\ UNCHANGED <<pc, cur, client, conns, net, mapped, count>>

\* connect() to the lower rank cur succeeds once its listener is bound.
Connect(r) ==
    /\ pc[r] = "connect" /\ cur[r] < r /\ i[r] = 0
    /\ IF Listening(cur[r])
       THEN /\ backlog' = [backlog EXCEPT ![cur[r]] = Append(@, r)]
            /\ i' = [i EXCEPT ![r] = 1]
            /\ UNCHANGED <<pc, attempts>>
       ELSE /\ attempts[r] < MaxAttempts
            /\ attempts' = [attempts EXCEPT ![r] = @ + 1]
            /\ UNCHANGED <<pc, i, backlog>>
    /\ UNCHANGED <<cur, client, conns, net, mapped, count>>

\* The last attempt has failed.
GiveUp(r) ==
    /\ pc[r] = "connect" /\ cur[r] < r /\ i[r] = 0 /\ attempts[r] = MaxAttempts
    /\ Die(r, "timedout")

\* Mutant of Identify: the connecting rank does not say who it is.
MutIdentifySilent(r) ==
    /\ pc[r] = "connect" /\ i[r] = 1
    /\ net' = net
    /\ conns' = [conns EXCEPT ![r][cur[r]] = cur[r]]
    /\ cur' = [cur EXCEPT ![r] = @ + 1]
    /\ i' = [i EXCEPT ![r] = 0] /\ attempts' = [attempts EXCEPT ![r] = 0]
    /\ UNCHANGED <<pc, backlog, client, mapped, count>>

\* sendAll(s, &my_rank), the result unchecked; conns[peer] = s.  Sending to
\* a process that is gone raises SIGPIPE, unless the host process ignores it.
Identify(r) ==
    /\ pc[r] = "connect" /\ i[r] = 1
    /\ \/ Gone(cur[r]) /\ Die(r, "dead")
       \/ /\ net' = IF Gone(cur[r]) THEN net
                    ELSE [net EXCEPT ![r][cur[r]] = Append(@, "rank")]
          /\ conns' = [conns EXCEPT ![r][cur[r]] = cur[r]]
          /\ cur' = [cur EXCEPT ![r] = @ + 1]
          /\ i' = [i EXCEPT ![r] = 0] /\ attempts' = [attempts EXCEPT ![r] = 0]
          /\ UNCHANGED <<pc, backlog, client, mapped, count>>

StartAccepting(r) ==
    /\ pc[r] = "connect" /\ cur[r] = r
    /\ pc' = [pc EXCEPT ![r] = "accept"]
    /\ cur' = [cur EXCEPT ![r] = 0]
    /\ UNCHANGED <<i, attempts, backlog, client, conns, net, mapped, count>>

Higher(r) == N - 1 - r

\* accept(), without a timeout.
Accept(r) ==
    /\ pc[r] = "accept" /\ cur[r] < Higher(r) /\ i[r] = 0
    /\ backlog[r] # <<>>
    /\ client' = [client EXCEPT ![r] = Head(backlog[r])]
    /\ backlog' = [backlog EXCEPT ![r] = Tail(@)]
    /\ i' = [i EXCEPT ![r] = 1]
    /\ UNCHANGED <<pc, cur, attempts, conns, net, mapped, count>>

\* peer_rank is 0 when the client died without sending it: the result of
\* recvAll is not checked.
PeerRank(r, c) == IF net[c][r] = <<>> THEN 0 ELSE c

\* recvAll(client, &peer_rank); conns[peer_rank] = client.
ReadRank(r) ==
    /\ pc[r] = "accept" /\ i[r] = 1
    /\ LET c == client[r] IN
       /\ net[c][r] # <<>> \/ Gone(c)
       /\ conns' = [conns EXCEPT ![r][PeerRank(r, c)] = c]
       /\ net' = [net EXCEPT ![c][r] = IF @ = <<>> THEN @ ELSE Tail(@)]
    /\ cur' = [cur EXCEPT ![r] = @ + 1]
    /\ i' = [i EXCEPT ![r] = 0]
    /\ client' = [client EXCEPT ![r] = None]
    /\ UNCHANGED <<pc, attempts, backlog, mapped, count>>

-----------------------------------------------------------------------------
(* establishPeerAccess: loops over the keys of fd_mesh_ in ascending order *)

\* The keys at or above k, and the first of them, N when there is none.
KeysFrom(r, k) == {p \in Ranks : p >= k /\ conns[r][p] # None}
FirstKey(r, k) ==
    IF KeysFrom(r, k) = {} THEN N
    ELSE CHOOSE p \in KeysFrom(r, k) : \A q \in KeysFrom(r, k) : p <= q

\* close(listener) and unlink(): the mesh is complete.
CloseListener(r) ==
    /\ pc[r] = "accept" /\ cur[r] = Higher(r)
    /\ pc' = [pc EXCEPT ![r] = "base"]
    /\ cur' = [cur EXCEPT ![r] = FirstKey(r, 0)]
    /\ UNCHANGED <<i, attempts, backlog, client, conns, net, mapped, count>>

\* Mutant of Sends: both ends of every exchange receive first.
MutSendsBothReceive(r) == i[r] \in {1, 3}

\* In a barrier the lower rank of a pair sends first, elsewhere the higher.
Sends(r) ==
    LET first == IF pc[r] \in {"barrier1", "barrier2"} THEN r < cur[r] ELSE cur[r] < r
    IN  first <=> i[r] \in {0, 2}

Kind(r) == CASE pc[r] = "base" -> "base"
             [] pc[r] \in {"barrier1", "barrier2"} -> "token"
             [] pc[r] = "records" -> IF i[r] < 2 THEN "count" ELSE "record"

Steps(r) == IF pc[r] = "records" THEN 4 ELSE 2
Exchanging(r) == pc[r] \in {Phases[k] : k \in 1..4} /\ cur[r] < N /\ i[r] < Steps(r)
\* Only barrier() looks at the result of a send or a receive.
Checked(r) == pc[r] \in {"barrier1", "barrier2"}

Advance(r) == i' = [i EXCEPT ![r] = @ + 1]
\* The process at the other end of the socket in use.
Peer(r) == conns[r][cur[r]]

Send(r) ==
    /\ Exchanging(r) /\ Sends(r)
    /\ IF Gone(Peer(r))
       THEN \/ Die(r, "dead")
            \/ /\ ~Checked(r)
               /\ Advance(r)
               /\ UNCHANGED <<pc, cur, attempts, backlog, client, conns, net, mapped, count>>
       ELSE /\ net' = [net EXCEPT ![r][Peer(r)] = Append(@, Kind(r))]
            /\ Advance(r)
            /\ UNCHANGED <<pc, cur, attempts, backlog, client, conns, mapped, count>>

\* A record is received only if the peer's count has been: i < peer_count.
Skips(r) == Kind(r) = "record" /\ count[r] = 0

\* What arrives is stored: the count, or the peer's heap, imported and mapped.
Recv(r) ==
    /\ Exchanging(r) /\ ~Sends(r) /\ ~Skips(r)
    /\ net[Peer(r)][r] # <<>>
    /\ net' = [net EXCEPT ![Peer(r)][r] = Tail(@)]
    /\ count' = [count EXCEPT ![r] = IF Kind(r) = "count" THEN 1 ELSE @]
    /\ mapped' = [mapped EXCEPT ![r][cur[r]] = IF Kind(r) = "record" THEN Peer(r) ELSE @]
    /\ Advance(r)
    /\ UNCHANGED <<pc, cur, attempts, backlog, client, conns>>

\* Mutant of RecvFails: barrier() does not look at the result either.
MutRecvFailsUnchecked(r) ==
    /\ Exchanging(r) /\ ~Sends(r) /\ ~Skips(r)
    /\ net[Peer(r)][r] = <<>> /\ Gone(Peer(r))
    /\ Advance(r)
    /\ UNCHANGED <<pc, cur, attempts, backlog, client, conns, net, mapped, count>>

\* Mutant of RecvFails: recv() returning 0 is taken for progress.
MutRecvFailsRetry(r) ==
    /\ Exchanging(r) /\ ~Sends(r) /\ ~Skips(r)
    /\ net[Peer(r)][r] = <<>> /\ Gone(Peer(r))
    /\ UNCHANGED vars

\* The peer is gone and has left nothing.  barrier() aborts, and so does the
\* import of a heap whose fd has not come; a base or a count is ignored.
RecvFails(r) ==
    /\ Exchanging(r) /\ ~Sends(r) /\ ~Skips(r)
    /\ net[Peer(r)][r] = <<>> /\ Gone(Peer(r))
    /\ IF Checked(r) \/ Kind(r) = "record"
       THEN Die(r, "dead")
       ELSE /\ Advance(r)
            /\ UNCHANGED <<pc, cur, attempts, backlog, client, conns, net, mapped, count>>

\* if (i < peer_count) fails: there is no record to receive.
Skip(r) ==
    /\ Exchanging(r) /\ ~Sends(r) /\ Skips(r)
    /\ Advance(r)
    /\ UNCHANGED <<pc, cur, attempts, backlog, client, conns, net, mapped, count>>

\* The exchange with this peer is complete.
NextPeer(r) ==
    /\ pc[r] \in {Phases[k] : k \in 1..4} /\ cur[r] < N /\ i[r] = Steps(r)
    /\ cur' = [cur EXCEPT ![r] = FirstKey(r, @ + 1)]
    /\ i' = [i EXCEPT ![r] = 0] /\ count' = [count EXCEPT ![r] = 0]
    /\ UNCHANGED <<pc, attempts, backlog, client, conns, net, mapped>>

\* A loop over the peers is over: on to the next one.
NextPhase(r) ==
    \E k \in 1..4 :
        /\ pc[r] = Phases[k] /\ cur[r] = N
        /\ pc' = [pc EXCEPT ![r] = Phases[k + 1]]
        /\ cur' = [cur EXCEPT ![r] = FirstKey(r, 0)]
        /\ UNCHANGED <<i, attempts, backlog, client, conns, net, mapped, count>>

Crash(r) == r \in Faulty /\ ~Gone(r) /\ Die(r, "crashed")

Step(r) ==
    \/ Listen(r) \/ Connect(r) \/ GiveUp(r) \/ Identify(r)
    \/ StartAccepting(r) \/ Accept(r) \/ ReadRank(r) \/ CloseListener(r)
    \/ Send(r) \/ Recv(r) \/ RecvFails(r) \/ Skip(r) \/ NextPeer(r) \/ NextPhase(r)

\* The ranks that may still connect to r.
Coming(r) ==
    {h \in Ranks : h > r /\ (pc[h] = "start" \/ (pc[h] = "connect" /\ cur[h] + i[h] <= r))}

\* r accepts, and the connections it has got, has waiting or may still get are
\* fewer than the loop counts to: once true, until r crashes.
Abandoned(r) ==
    pc[r] = "accept" /\ cur[r] + i[r] + Len(backlog[r]) + Cardinality(Coming(r)) < Higher(r)

\* r is in a receive from the live process p, which has sent nothing.
WaitsFor(r, p) ==
    /\ ~Gone(p) /\ net[p][r] = <<>>
    /\ \/ Exchanging(r) /\ ~Sends(r) /\ ~Skips(r) /\ p = Peer(r)
       \/ pc[r] = "accept" /\ i[r] = 1 /\ p = client[r]

\* r is abandoned, waits for an abandoned rank, or for one that waits for one.
Hangs(r) ==
    \E n \in 1..N : \E path \in [1..n -> Ranks] :
        /\ path[1] = r /\ Abandoned(path[n])
        /\ \A k \in 1..(n - 1) : WaitsFor(path[k], path[k + 1])

\* Nothing is left to do.
Over == \A r \in Ranks : pc[r] = "done" \/ Gone(r) \/ Hangs(r)
Rest == Over /\ UNCHANGED vars

Next == (\E r \in Ranks : Step(r) \/ Crash(r)) \/ Rest

Spec == Init /\ [][Next]_vars
\* Every process keeps running until it ends or blocks.
FairSpec == Spec /\ \A r \in Ranks : WF_vars(Step(r))

-----------------------------------------------------------------------------
\* A rank whose constructor has returned has each peer's heap mapped at that
\* peer's base, and each peer has mapped its heap: kernels may now write to
\* any rank's heap.  Holds whichever ranks crash on the way, although only
\* barrier() checks for errors.
AllMapped ==
    \A r \in Ranks : pc[r] = "done" =>
        \A p \in Ranks : mapped[r][p] = p /\ mapped[p][r] = r

\* The byte streams stay in step: what a rank is about to receive is of the
\* kind it expects, through all phases and after ignored failures.
InStep ==
    \A r \in Ranks :
        /\ Exchanging(r) /\ ~Sends(r) /\ ~Skips(r) /\ net[Peer(r)][r] # <<>>
              => Head(net[Peer(r)][r]) = Kind(r)
        /\ pc[r] = "accept" /\ i[r] = 1 /\ net[client[r]][r] # <<>>
              => Head(net[client[r]][r]) = "rank"

\* Every constructor returns, unless a rank crashes or gives up connecting
\* to one that started too late.
Established ==
    <>((\A r \in Ranks : pc[r] = "done") \/ \E r \in Ranks : pc[r] \in {"timedout", "crashed"})

\* In the end every process has returned or ended, or waits for ever because
\* of an accept() short of a rank that died or gave up before connecting: in
\* that accept(), or in a chain of receives from live ranks that leads to it.
\* accept() has no timeout and is the only root of such waits: the receives of
\* setupFdMesh and establishPeerAccess by themselves never close a cycle, and
\* never miss the end of a peer.
OnlyAcceptHangs == <>[]Over
=============================================================================
