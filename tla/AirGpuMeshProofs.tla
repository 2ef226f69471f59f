------------------------- MODULE AirGpuMeshProofs --------------------------
(***************************************************************************)
(* Proofs about AirGpuMesh: for every number of ranks and every pattern of *)
(* crashes, a constructor that returns leaves all heaps mapped on both     *)
(* sides, and every receive finds the message it expects.                  *)
(***************************************************************************)
EXTENDS AirGpuMesh, TLAPS, FiniteSetTheorems, SequenceTheorems,
        WellFoundedInduction, NaturalsInduction

-----------------------------------------------------------------------------
(***************************************************************************)
(* The inductive invariant.  All that a process ever sends another is a    *)
(* prefix of Stream, whose first message only the higher rank sends.       *)
(***************************************************************************)
Stream == <<"rank", "base", "token", "count", "record", "token">>
Kinds == {"rank", "base", "count", "record", "token"}

Loops == {"base", "barrier1", "records", "barrier2"}
SetUp == {"start", "connect", "accept"}

\* Whether rank r sends first to the peer its loop is at.
First(r) == IF pc[r] \in {"barrier1", "barrier2"} THEN r < cur[r] ELSE cur[r] < r

\* The messages received from, and sent to, the peer the loop is at.
GotHere(r)  == IF First(r) THEN i[r] \div 2 ELSE (i[r] + 1) \div 2
SentHere(r) == IF First(r) THEN (i[r] + 1) \div 2 ELSE i[r] \div 2

\* The messages of Stream that the loops before the present one cover.
Offset(r) == CASE pc[r] \in SetUp -> 1
               [] pc[r] = "base" -> 1
               [] pc[r] = "barrier1" -> 2
               [] pc[r] = "records" -> 3
               [] pc[r] = "barrier2" -> 5
               [] OTHER -> 6
Width(r) == IF pc[r] \in Loops THEN Steps(r) \div 2 ELSE 0

\* How far in Stream rank r is with peer p, which is h messages into the
\* present loop if the loop is at p.
Place(r, p, h) ==
    Offset(r) + (IF pc[r] \notin Loops THEN 0
                 ELSE IF p < cur[r] THEN Width(r) ELSE IF p = cur[r] THEN h ELSE 0)

\* The messages of Stream rank r has dealt with as receiver from p, and, if
\* it lives, as sender to p.
Rcvd(r, p) == IF conns[r][p] = p THEN Place(r, p, GotHere(r)) ELSE IF p < r THEN 1 ELSE 0
Sent(r, p) == IF conns[r][p] = p THEN Place(r, p, SentHere(r))
              ELSE IF p < r /\ conns[r][p] = None THEN 0 ELSE 1

\* What is in the socket from p to r continues what r has received; the last
\* token says that the sender has mapped the receiver's heap.
Pair(r, p) ==
    ~Gone(r) =>
      /\ Rcvd(r, p) + Len(net[p][r]) <= 6
      /\ \A j \in 1..Len(net[p][r]) : net[p][r][j] = Stream[Rcvd(r, p) + j]
      /\ ~Gone(p) => Rcvd(r, p) + Len(net[p][r]) = Sent(p, r)
      /\ Rcvd(r, p) + Len(net[p][r]) = 6 => mapped[p][r] = r
      /\ Rcvd(r, p) >= 5 =>
            \/ mapped[r][p] = p
            \/ Rcvd(r, p) = 5 /\ Gone(p) /\ net[p][r] = <<>>

PairInv == \A r, p \in Ranks : r # p => Pair(r, p)

MeshTypes ==
    /\ pc \in [Ranks -> SetUp \cup Ended \cup Loops \cup {"done"}]
    /\ cur \in [Ranks -> 0..N] /\ i \in [Ranks -> 0..4]
    /\ attempts \in [Ranks -> 0..MaxAttempts]
    /\ backlog \in [Ranks -> Seq(Ranks)]
    /\ client \in [Ranks -> Ranks \cup {None}]
    /\ conns \in [Ranks -> [Ranks -> Ranks \cup {None}]]
    /\ net \in [Ranks -> [Ranks -> Seq(Kinds)]]
    /\ mapped \in [Ranks -> [Ranks -> Ranks \cup {None}]]
    /\ count \in [Ranks -> {0, 1}]

\* Where the loops of a rank may be.
LoopAt(r) ==
    /\ pc[r] = "start" => cur[r] = 0 /\ i[r] = 0
    /\ pc[r] = "connect" => cur[r] <= r /\ i[r] \in {0, 1} /\ (i[r] = 1 => cur[r] < r)
    /\ pc[r] = "accept" =>
          /\ cur[r] <= Higher(r) /\ i[r] \in {0, 1}
          /\ i[r] = 1 => cur[r] < Higher(r) /\ client[r] # None
    /\ pc[r] \in Loops =>
          /\ i[r] <= Steps(r) /\ (cur[r] = N => i[r] = 0)
          /\ cur[r] < N => conns[r][cur[r]] # None
    /\ pc[r] = "done" => i[r] = 0

\* A socket is filed under the rank of the process at its end, or, if that
\* died before it sent its rank, under 0; then the rank gets no further than
\* its first barrier.
Misfiled(r) == conns[r][0] # None /\ conns[r][0] # 0

KeyAt(r) ==
    /\ \A k \in Ranks : conns[r][k] # None /\ conns[r][k] # k => k = 0
    /\ conns[r][r] # r
    /\ ~Gone(r) => \A k \in Ranks : k < r =>
          (conns[r][k] = None <=> pc[r] = "start" \/ (pc[r] = "connect" /\ k >= cur[r]))
    /\ Misfiled(r) =>
          /\ Gone(conns[r][0]) /\ net[conns[r][0]][r] = <<>>
          /\ \/ Gone(r) \/ pc[r] \in {"accept", "base"}
             \/ pc[r] = "barrier1" /\ cur[r] = 0 /\ i[r] = 0

\* The higher ranks whose sockets r has filed.
Known(r) == {p \in Ranks : p > r /\ conns[r][p] = p}

\* c is past its connect() to r.
Connected(c, r) ==
    /\ c > r
    /\ pc[c] # "start"
    /\ pc[c] = "connect" => cur[c] > r \/ (cur[c] = r /\ i[c] = 1)

\* Every connection is in one place: waiting, just accepted, or filed.
AcceptAt(r) ==
    /\ \A j \in 1..Len(backlog[r]) : Connected(backlog[r][j], r)
    /\ \A j, k \in 1..Len(backlog[r]) : j # k => backlog[r][j] # backlog[r][k]
    /\ \A j \in 1..Len(backlog[r]) :
          backlog[r][j] \notin Known(r) /\ backlog[r][j] # client[r]
    /\ client[r] # None => Connected(client[r], r) /\ client[r] \notin Known(r)
    /\ \A p \in Known(r) : Connected(p, r)
    /\ pc[r] \in {"start", "connect"} => Known(r) = {} /\ ~Misfiled(r)
    /\ ~Misfiled(r) =>
          /\ pc[r] = "accept" => Cardinality(Known(r)) = cur[r]
          /\ pc[r] \in Loops \cup {"done"} => Known(r) = (r + 1)..(N - 1)

\* A record is skipped only if the peer died before it sent its count.
CountAt(r) ==
    pc[r] = "records" /\ cur[r] < N /\ GotHere(r) >= 1 /\ count[r] = 0 =>
        Gone(cur[r]) /\ net[cur[r]][r] = <<>>

RankInv(r) == LoopAt(r) /\ KeyAt(r) /\ AcceptAt(r) /\ CountAt(r) /\ mapped[r][r] = r

IndInv == MeshTypes /\ PairInv /\ \A r \in Ranks : RankInv(r)

-----------------------------------------------------------------------------
(* Numbers, loops and places in the stream.                                *)

\* Every set of numbers has a least element.
LEMMA LeastElement ==
    ASSUME NEW T \in SUBSET Nat, T # {}
    PROVE  \E x \in T : \A y \in T : x <= y
<1> DEFINE R == {ss \in Nat \X Nat : ss[1] < ss[2]}
<1>0. OpToRel(<, Nat) = R
  BY DEF OpToRel
<1>1. IsWellFoundedOn(R, Nat)
  BY <1>0, NatLessThanWellFounded, Zenon
<1>2. \A a, b \in Nat : a < b => <<a, b>> \in R
  OBVIOUS
<1> HIDE DEF R
<1>3. PICK x \in T : \A y \in T : ~(<<y, x>> \in R)
  BY <1>1, WFMin
<1>4. ASSUME NEW y \in T PROVE x <= y
  <2>1. x \in Nat /\ y \in Nat /\ ~(y < x)
    BY <1>2, <1>3, <1>4
  <2> QED
    BY <2>1
<1> QED
  BY <1>4

LEMMA RanksFacts == N \in Nat /\ 0 \in Ranks /\ Ranks \subseteq Nat /\ N \notin Ranks
                    /\ None \notin Ranks /\ \A r \in Ranks : r < N
  BY MeshAssumption DEF Ranks

LEMMA CurFacts == 0 \in 0..N /\ N \in 0..N /\ Ranks \subseteq 0..N /\ 0..N \subseteq Int
                  /\ \A c \in 0..N : c < N => c \in Ranks
  BY MeshAssumption DEF Ranks

LEMMA PhaseFacts ==
    /\ {Phases[k] : k \in 1..4} = Loops
    /\ {Phases[k] : k \in 1..5} = Loops \cup {"done"}
    /\ Phases[1] = "base" /\ Phases[2] = "barrier1" /\ Phases[3] = "records"
    /\ Phases[4] = "barrier2" /\ Phases[5] = "done"
<1>1. /\ Phases[1] = "base" /\ Phases[2] = "barrier1" /\ Phases[3] = "records"
      /\ Phases[4] = "barrier2" /\ Phases[5] = "done"
  BY DEF Phases
<1>2. 1..4 = {1, 2, 3, 4} /\ 1..5 = {1, 2, 3, 4, 5}
  OBVIOUS
<1> QED
  BY <1>1, <1>2 DEF Loops

\* FirstKey is the least key of fd_mesh_ from k on.
LEMMA FirstKeyFacts ==
    ASSUME NEW r \in Ranks, NEW k \in Nat
    PROVE  /\ FirstKey(r, k) \in 0..N
           /\ FirstKey(r, k) < N => FirstKey(r, k) >= k /\ conns[r][FirstKey(r, k)] # None
           /\ \A p \in Ranks : p >= k /\ conns[r][p] # None => FirstKey(r, k) <= p
<1>1. CASE KeysFrom(r, k) = {}
  BY <1>1, RanksFacts DEF FirstKey, KeysFrom
<1>2. CASE KeysFrom(r, k) # {}
  <2>1. KeysFrom(r, k) \in SUBSET Nat
    BY RanksFacts DEF KeysFrom
  <2>2. FirstKey(r, k) \in KeysFrom(r, k) /\ \A q \in KeysFrom(r, k) : FirstKey(r, k) <= q
    BY <1>2, <2>1, LeastElement DEF FirstKey
  <2> QED
    BY <2>2, RanksFacts DEF KeysFrom, Ranks
<1> QED
  BY <1>1, <1>2

LEMMA HereFacts ==
    ASSUME MeshTypes, NEW r \in Ranks
    PROVE  /\ i[r] = 0 => GotHere(r) = 0 /\ SentHere(r) = 0
           /\ i[r] = 1 => IF First(r) THEN GotHere(r) = 0 /\ SentHere(r) = 1
                                      ELSE GotHere(r) = 1 /\ SentHere(r) = 0
           /\ i[r] = 2 => GotHere(r) = 1 /\ SentHere(r) = 1
           /\ i[r] = 3 => IF First(r) THEN GotHere(r) = 1 /\ SentHere(r) = 2
                                      ELSE GotHere(r) = 2 /\ SentHere(r) = 1
           /\ i[r] = 4 => GotHere(r) = 2 /\ SentHere(r) = 2
           /\ i[r] \in {0, 1, 2, 3, 4}
  BY DEF MeshTypes, GotHere, SentHere

LEMMA PlaceFacts ==
    ASSUME MeshTypes, NEW r \in Ranks, NEW p \in Ranks
    PROVE  /\ Rcvd(r, p) \in Nat /\ Sent(r, p) \in Nat
           /\ Offset(r) \in 1..6 /\ Width(r) \in {0, 1, 2}
           /\ GotHere(r) \in 0..2 /\ SentHere(r) \in 0..2
<1>1. Offset(r) \in 1..6
  BY DEF Offset, SetUp
<1>2. Width(r) \in {0, 1, 2}
  BY DEF Width, Steps
<1>3. GotHere(r) \in 0..2 /\ SentHere(r) \in 0..2
  BY HereFacts
<1> QED
  BY <1>1, <1>2, <1>3 DEF Rcvd, Sent, Place


\* One more step with the peer the loop is at: a message sent or received.
LEMMA AdvanceFacts ==
    ASSUME MeshTypes, NEW a \in Ranks, Exchanging(a), Advance(a),
           pc' = pc, cur' = cur, conns' = conns
    PROVE  /\ Offset(a)' = Offset(a)
           /\ Sends(a) => /\ SentHere(a)' = SentHere(a) + 1 /\ GotHere(a)' = GotHere(a)
                          /\ Kind(a) = Stream[Offset(a) + SentHere(a) + 1]
           /\ ~Sends(a) => /\ GotHere(a)' = GotHere(a) + 1 /\ SentHere(a)' = SentHere(a)
                           /\ Kind(a) = Stream[Offset(a) + GotHere(a) + 1]
           /\ Offset(a) + SentHere(a)' <= 6 /\ Offset(a) + GotHere(a)' <= 6
           /\ i'[a] = i[a] + 1 /\ i'[a] \in 0..4 /\ i'[a] <= Steps(a)
<1>1. /\ pc[a] \in Loops /\ i[a] < Steps(a) /\ cur[a] < N
      /\ i' = [i EXCEPT ![a] = @ + 1] /\ i \in [Ranks -> 0..4]
  BY PhaseFacts DEF Exchanging, Advance, MeshTypes
<1>2. /\ i[a] \in {0, 1, 2, 3} /\ i'[a] = i[a] + 1
      /\ pc[a] # "records" => i[a] \in {0, 1} /\ Steps(a) = 2
      /\ pc[a] = "records" => Steps(a) = 4
  BY <1>1 DEF Steps
<1>3. First(a)' = First(a) /\ (Sends(a) <=> (First(a) <=> i[a] \in {0, 2}))
  BY DEF First, Sends
<1>4. /\ i[a] = 0 => GotHere(a) = 0 /\ SentHere(a) = 0
                     /\ GotHere(a)' = (IF First(a) THEN 0 ELSE 1)
                     /\ SentHere(a)' = (IF First(a) THEN 1 ELSE 0)
      /\ i[a] = 1 => GotHere(a) = (IF First(a) THEN 0 ELSE 1)
                     /\ SentHere(a) = (IF First(a) THEN 1 ELSE 0)
                     /\ GotHere(a)' = 1 /\ SentHere(a)' = 1
      /\ i[a] = 2 => GotHere(a) = 1 /\ SentHere(a) = 1
                     /\ GotHere(a)' = (IF First(a) THEN 1 ELSE 2)
                     /\ SentHere(a)' = (IF First(a) THEN 2 ELSE 1)
      /\ i[a] = 3 => GotHere(a) = (IF First(a) THEN 1 ELSE 2)
                     /\ SentHere(a) = (IF First(a) THEN 2 ELSE 1)
                     /\ GotHere(a)' = 2 /\ SentHere(a)' = 2
  BY <1>2, <1>3 DEF GotHere, SentHere
<1>5. Offset(a)' = Offset(a)
  BY DEF Offset
<1>6. /\ pc[a] = "base" => Offset(a) = 1 /\ Kind(a) = "base"
      /\ pc[a] = "barrier1" => Offset(a) = 2 /\ Kind(a) = "token"
      /\ pc[a] = "records" => Offset(a) = 3 /\ Kind(a) = (IF i[a] < 2 THEN "count" ELSE "record")
      /\ pc[a] = "barrier2" => Offset(a) = 5 /\ Kind(a) = "token"
  BY DEF Offset, Kind, SetUp
<1>7. /\ Stream[2] = "base" /\ Stream[3] = "token" /\ Stream[4] = "count"
      /\ Stream[5] = "record" /\ Stream[6] = "token"
  BY DEF Stream
<1>8. CASE i[a] = 0
  BY <1>1, <1>2, <1>3, <1>4, <1>5, <1>6, <1>7, <1>8 DEF Loops
<1>9. CASE i[a] = 1
  BY <1>1, <1>2, <1>3, <1>4, <1>5, <1>6, <1>7, <1>9 DEF Loops
<1>10. CASE i[a] = 2
  BY <1>1, <1>2, <1>3, <1>4, <1>5, <1>6, <1>7, <1>10 DEF Loops
<1>11. CASE i[a] = 3
  BY <1>1, <1>2, <1>3, <1>4, <1>5, <1>6, <1>7, <1>11 DEF Loops
<1> QED
  BY <1>2, <1>8, <1>9, <1>10, <1>11

-----------------------------------------------------------------------------
(* What a step of one rank leaves alone.                                   *)

\* A step of rank a: nobody else's variables, nothing from a dead process,
\* no connection undone.
Aside(a) ==
    /\ \A r \in Ranks \ {a} :
          /\ pc'[r] = pc[r] /\ cur'[r] = cur[r] /\ i'[r] = i[r] /\ conns'[r] = conns[r]
          /\ client'[r] = client[r] /\ count'[r] = count[r] /\ mapped'[r] = mapped[r]
    /\ \A x \in Ranks : Gone(x) => Gone(x)'
    /\ \A x, r \in Ranks : Gone(x) /\ net[x][r] = <<>> => net'[x][r] = <<>>
    /\ \A c, r \in Ranks : Connected(c, r) => Connected(c, r)'

LEMMA OtherRanks ==
    ASSUME IndInv, NEW a \in Ranks, Aside(a), NEW r \in Ranks \ {a}
    PROVE  /\ LoopAt(r)' /\ KeyAt(r)' /\ CountAt(r)' /\ mapped'[r][r] = r
           /\ backlog'[r] = backlog[r] => AcceptAt(r)'
           /\ \A p \in Ranks : Rcvd(r, p)' = Rcvd(r, p) /\ Sent(r, p)' = Sent(r, p)
           /\ Known(r)' = Known(r) /\ (Gone(r) <=> Gone(r)')
<1>1. /\ pc'[r] = pc[r] /\ cur'[r] = cur[r] /\ i'[r] = i[r] /\ conns'[r] = conns[r]
      /\ client'[r] = client[r] /\ count'[r] = count[r] /\ mapped'[r] = mapped[r]
  BY DEF Aside
<1>2. LoopAt(r) /\ KeyAt(r) /\ CountAt(r) /\ AcceptAt(r) /\ mapped[r][r] = r
  BY DEF IndInv, RankInv
<1>3. Gone(r)' <=> Gone(r)
  BY <1>1 DEF Gone
<1>4. LoopAt(r)'
  BY <1>1, <1>2 DEF LoopAt, Steps
<1>5. Misfiled(r)' <=> Misfiled(r)
  BY <1>1 DEF Misfiled
<1>6. conns[r][0] \in Ranks \cup {None} /\ cur[r] \in 0..N
  BY RanksFacts DEF IndInv, MeshTypes
<1>7. KeyAt(r)'
  <2>1. Misfiled(r) => Gone(conns[r][0])' /\ net'[conns[r][0]][r] = <<>>
    BY <1>2, <1>6 DEF KeyAt, Misfiled, Aside
  <2> QED
    BY <1>1, <1>2, <1>3, <1>5, <2>1 DEF KeyAt
<1>8. First(r)' = First(r)
  BY <1>1 DEF First
<1>9. GotHere(r)' = GotHere(r) /\ SentHere(r)' = SentHere(r)
  BY <1>1, <1>8 DEF GotHere, SentHere
<1>10. CountAt(r)'
  BY <1>1, <1>2, <1>6, <1>9, RanksFacts DEF CountAt, Aside, Ranks
<1>11. Known(r)' = Known(r)
  BY <1>1 DEF Known
<1>12. ASSUME backlog'[r] = backlog[r] PROVE AcceptAt(r)'
  <2>1. /\ \A j \in 1..Len(backlog[r]) : backlog[r][j] \in Ranks
        /\ client[r] \in Ranks \cup {None} /\ Known(r) \subseteq Ranks
    BY DEF IndInv, MeshTypes, Known
  <2>2. \A c \in Ranks : Connected(c, r) => Connected(c, r)'
    BY DEF Aside
  <2>3. /\ \A j \in 1..Len(backlog[r]) : Connected(backlog[r][j], r)'
        /\ client[r] # None => Connected(client[r], r)'
        /\ \A p \in Known(r) : Connected(p, r)'
    BY <1>1, <1>2, <1>12, <2>1, <2>2 DEF AcceptAt, Connected
  <2> QED
    BY <1>1, <1>2, <1>5, <1>11, <1>12, <2>3 DEF AcceptAt
<1>13. Offset(r)' = Offset(r) /\ Width(r)' = Width(r)
  BY <1>1 DEF Offset, Width, Steps
<1>14. ASSUME NEW p \in Ranks PROVE Rcvd(r, p)' = Rcvd(r, p) /\ Sent(r, p)' = Sent(r, p)
  BY <1>1, <1>9, <1>13 DEF Rcvd, Sent, Place
<1> QED
  BY <1>1, <1>2, <1>3, <1>4, <1>7, <1>10, <1>11, <1>12, <1>14

\* A pair of ranks that the step does not concern.
LEMMA PairKept ==
    ASSUME NEW r \in Ranks, NEW p \in Ranks, Pair(r, p),
           Gone(r) => Gone(r)', Gone(p) => Gone(p)',
           net'[p][r] = net[p][r],
           mapped[p][r] = r => mapped'[p][r] = r, mapped[r][p] = p => mapped'[r][p] = p,
           ~Gone(r)' => Rcvd(r, p)' = Rcvd(r, p),
           ~Gone(p)' => Sent(p, r)' = Sent(p, r)
    PROVE  Pair(r, p)'
  BY DEF Pair

LEMMA PairsAside ==
    ASSUME IndInv, NEW a \in Ranks, Aside(a),
           \A p \in Ranks \ {a} : Pair(a, p)' /\ Pair(p, a)',
           \A r, p \in Ranks \ {a} : net'[p][r] = net[p][r]
    PROVE  PairInv'
<1> SUFFICES ASSUME NEW r \in Ranks, NEW p \in Ranks, r # p PROVE Pair(r, p)'
  BY DEF PairInv
<1>1. CASE r = a \/ p = a
  BY <1>1
<1>2. CASE r # a /\ p # a
  <2>1. Pair(r, p)
    BY DEF IndInv, PairInv
  <2>2. mapped'[r] = mapped[r] /\ mapped'[p] = mapped[p]
    BY <1>2 DEF Aside
  <2>3. /\ Rcvd(r, p)' = Rcvd(r, p) /\ Sent(p, r)' = Sent(p, r)
        /\ (Gone(r) => Gone(r)') /\ (Gone(p) => Gone(p)')
    BY <1>2, OtherRanks DEF Aside
  <2> QED
    BY <1>2, <2>1, <2>2, <2>3, PairKept
<1> QED
  BY <1>1, <1>2

\* A step of rank a that sends and receives nothing.
LEMMA QuietStep ==
    ASSUME IndInv, NEW a \in Ranks, Aside(a), net' = net,
           \A k \in Ranks : mapped[a][k] = k => mapped'[a][k] = k,
           ~Gone(a)' => \A p \in Ranks \ {a} : Rcvd(a, p)' = Rcvd(a, p) /\ Sent(a, p)' = Sent(a, p)
    PROVE  PairInv'
<1>1. ASSUME NEW p \in Ranks \ {a} PROVE Pair(a, p)' /\ Pair(p, a)'
  <2>1. Pair(a, p) /\ Pair(p, a)
    BY DEF IndInv, PairInv
  <2>2. mapped'[p] = mapped[p] /\ (Gone(a) => Gone(a)') /\ (Gone(p) => Gone(p)')
    BY DEF Aside
  <2>3. Rcvd(p, a)' = Rcvd(p, a) /\ Sent(p, a)' = Sent(p, a)
    BY OtherRanks
  <2> QED
    BY <2>1, <2>2, <2>3, PairKept
<1> QED
  BY <1>1, PairsAside

LEMMA AsideIntro ==
    ASSUME MeshTypes, NEW a \in Ranks, ~Gone(a),
           \A r \in Ranks \ {a} :
             /\ pc'[r] = pc[r] /\ cur'[r] = cur[r] /\ i'[r] = i[r] /\ conns'[r] = conns[r]
             /\ client'[r] = client[r] /\ count'[r] = count[r] /\ mapped'[r] = mapped[r],
           \A x \in Ranks \ {a} : \A r \in Ranks : net[x][r] = <<>> => net'[x][r] = <<>>,
           pc[a] # "start" => pc'[a] # "start",
           pc'[a] = "connect" => pc[a] \in {"start", "connect"},
           pc[a] = "connect" /\ pc'[a] = "connect" =>
              cur'[a] > cur[a] \/ (cur'[a] = cur[a] /\ (i[a] = 1 => i'[a] = 1)),
           cur'[a] \in Int
    PROVE  Aside(a)
<1>1. \A x \in Ranks : Gone(x) => Gone(x)'
  BY DEF Gone
<1>2. \A x, r \in Ranks : Gone(x) /\ net[x][r] = <<>> => net'[x][r] = <<>>
  OBVIOUS
<1>3. ASSUME NEW c \in Ranks, NEW r \in Ranks, Connected(c, r) PROVE Connected(c, r)'
  <2>1. CASE c = a
    <3>1. r \in Int /\ cur[a] \in Int
      BY CurFacts DEF MeshTypes
    <3> QED
      BY <1>3, <2>1, <3>1 DEF Connected
  <2>2. CASE c # a
    BY <1>3, <2>2 DEF Connected
  <2> QED
    BY <2>1, <2>2
<1> QED
  BY <1>1, <1>2, <1>3 DEF Aside

LEMMA IndInvIntro ==
    ASSUME IndInv, NEW a \in Ranks, Aside(a), MeshTypes', PairInv', RankInv(a)',
           \A r \in Ranks \ {a} : backlog'[r] = backlog[r]
    PROVE  IndInv'
<1>1. ASSUME NEW r \in Ranks \ {a} PROVE RankInv(r)'
  BY OtherRanks DEF RankInv
<1> QED
  BY <1>1 DEF IndInv

\* The sockets filed and the connections waiting, when rank a changes none.
LEMMA SameSockets ==
    ASSUME IndInv, NEW a \in Ranks, Aside(a), conns'[a] = conns[a], backlog'[a] = backlog[a],
           client'[a] = client[a]
    PROVE  /\ Known(a)' = Known(a) /\ (Misfiled(a)' <=> Misfiled(a))
           /\ Misfiled(a) => Gone(conns[a][0])' /\ net'[conns[a][0]][a] = <<>>
           /\ \A j \in 1..Len(backlog'[a]) : Connected(backlog[a][j], a)'
           /\ \A j, k \in 1..Len(backlog'[a]) : j # k => backlog'[a][j] # backlog'[a][k]
           /\ \A j \in 1..Len(backlog'[a]) :
                 backlog'[a][j] \notin Known(a)' /\ backlog'[a][j] # client'[a]
           /\ client'[a] # None => Connected(client[a], a)' /\ client'[a] \notin Known(a)'
           /\ \A p \in Known(a)' : Connected(p, a)'
<1>1. AcceptAt(a) /\ KeyAt(a)
  BY DEF IndInv, RankInv
<1>2. Known(a)' = Known(a) /\ (Misfiled(a)' <=> Misfiled(a))
  BY DEF Known, Misfiled
<1>3. /\ \A j \in 1..Len(backlog[a]) : backlog[a][j] \in Ranks
      /\ client[a] \in Ranks \cup {None} /\ Known(a) \subseteq Ranks
      /\ conns[a][0] \in Ranks \cup {None}
  <2>1. MeshTypes
    BY DEF IndInv
  <2>2. backlog[a] \in Seq(Ranks) /\ client[a] \in Ranks \cup {None}
    BY <2>1 DEF MeshTypes
  <2>3. conns[a][0] \in Ranks \cup {None}
    BY <2>1, RanksFacts DEF MeshTypes
  <2>4. Known(a) \subseteq Ranks
    BY DEF Known
  <2> QED
    BY <2>2, <2>3, <2>4
<1>4. \A c \in Ranks : Connected(c, a) => Connected(c, a)'
  BY DEF Aside
<1>5. /\ \A j \in 1..Len(backlog'[a]) : Connected(backlog[a][j], a)'
      /\ client'[a] # None => Connected(client[a], a)'
      /\ \A p \in Known(a) : Connected(p, a)'
  BY <1>1, <1>3, <1>4 DEF AcceptAt, Connected
<1>6. Misfiled(a) => Gone(conns[a][0])' /\ net'[conns[a][0]][a] = <<>>
  BY <1>1, <1>3 DEF KeyAt, Misfiled, Aside, Gone
<1> QED
  BY <1>1, <1>2, <1>5, <1>6 DEF AcceptAt

-----------------------------------------------------------------------------
(* The steps that neither send nor receive.                                *)

\* A process ends: crash, abort, SIGPIPE or giving up.
LEMMA DieInv ==
    ASSUME IndInv, NEW a \in Ranks, ~Gone(a), NEW how \in Ended, Die(a, how) PROVE IndInv'
<1>1. MeshTypes'
  BY DEF IndInv, MeshTypes, Die
<1>2. pc'[a] = how /\ Gone(a)'
  BY DEF IndInv, MeshTypes, Die, Gone
<1>3. Aside(a)
  <2>1. cur'[a] \in Int
    BY <1>1, RanksFacts DEF MeshTypes
  <2> QED
    BY <1>2, <2>1, AsideIntro DEF Die, IndInv, MeshTypes, Ended
<1>4. PairInv'
  BY <1>2, <1>3, QuietStep DEF Die
<1>5. RankInv(a)'
  <2>1. RankInv(a)
    BY DEF IndInv
  <2>2. LoopAt(a)' /\ CountAt(a)' /\ mapped'[a][a] = a
    BY <1>2, <2>1 DEF LoopAt, CountAt, RankInv, Die, Ended, Loops
  <2>3. KeyAt(a)'
    BY <1>2, <1>3, <2>1, SameSockets DEF KeyAt, RankInv, Die
  <2>4. AcceptAt(a)'
    BY <1>2, <1>3, SameSockets DEF AcceptAt, Die, Ended, Loops
  <2> QED
    BY <2>2, <2>3, <2>4 DEF RankInv
<1> QED
  BY <1>1, <1>3, <1>4, <1>5, IndInvIntro DEF Die

LEMMA ListenInv == ASSUME IndInv, NEW a \in Ranks, Listen(a) PROVE IndInv'
<1>0. /\ pc[a] = "start" /\ pc'[a] = "connect" /\ RankInv(a) /\ ~Gone(a) /\ ~Gone(a)'
      /\ \A r \in Ranks \ {a} : pc'[r] = pc[r]
  BY DEF IndInv, MeshTypes, Listen, Gone, Ended
<1>1. MeshTypes'
  BY DEF IndInv, MeshTypes, Listen, SetUp
<1>2. cur'[a] = cur[a] /\ cur[a] = 0 /\ i[a] = 0 /\ i'[a] = 0 /\ conns' = conns
  BY <1>0 DEF Listen, RankInv, LoopAt
<1>3. Aside(a)
  BY <1>0, <1>2, AsideIntro DEF Listen, IndInv
<1>4. \A p \in Ranks : Rcvd(a, p)' = Rcvd(a, p) /\ Sent(a, p)' = Sent(a, p)
  BY <1>0, <1>2 DEF Rcvd, Sent, Place, Offset, SetUp, Loops
<1>5. PairInv'
  BY <1>3, <1>4, QuietStep DEF Listen
<1>6. RankInv(a)'
  <2>1. LoopAt(a)' /\ CountAt(a)' /\ mapped'[a][a] = a
    BY <1>0, <1>2, RanksFacts DEF LoopAt, CountAt, RankInv, Listen, Loops
  <2>2. KeyAt(a)'
    BY <1>0, <1>2, <1>3, SameSockets, RanksFacts DEF KeyAt, RankInv, AcceptAt, Listen
  <2>3. AcceptAt(a)'
    BY <1>0, <1>3, SameSockets DEF AcceptAt, RankInv, Listen, Loops
  <2> QED
    BY <2>1, <2>2, <2>3 DEF RankInv
<1> QED
  BY <1>1, <1>3, <1>5, <1>6, IndInvIntro DEF Listen

LEMMA StartAcceptingInv == ASSUME IndInv, NEW a \in Ranks, StartAccepting(a) PROVE IndInv'
<1>0. /\ pc[a] = "connect" /\ pc'[a] = "accept" /\ RankInv(a) /\ ~Gone(a) /\ ~Gone(a)'
      /\ \A r \in Ranks \ {a} : pc'[r] = pc[r] /\ cur'[r] = cur[r]
  BY DEF IndInv, MeshTypes, StartAccepting, Gone, Ended
<1>1. MeshTypes'
  BY CurFacts DEF IndInv, MeshTypes, StartAccepting, SetUp
<1>2. cur'[a] = 0 /\ cur[a] = a /\ i[a] = 0 /\ i'[a] = 0 /\ conns' = conns /\ a \in Nat
  BY <1>0, RanksFacts DEF StartAccepting, RankInv, LoopAt, IndInv, MeshTypes
<1>3. Aside(a)
  BY <1>0, <1>2, AsideIntro DEF StartAccepting, IndInv
<1>4. \A p \in Ranks : Rcvd(a, p)' = Rcvd(a, p) /\ Sent(a, p)' = Sent(a, p)
  BY <1>0, <1>2 DEF Rcvd, Sent, Place, Offset, SetUp, Loops
<1>5. PairInv'
  BY <1>3, <1>4, QuietStep DEF StartAccepting
<1>6. RankInv(a)'
  <2>1. LoopAt(a)' /\ CountAt(a)' /\ mapped'[a][a] = a
    <3>1. Higher(a) >= 0
      BY RanksFacts DEF Higher
    <3> QED
      BY <1>0, <1>2, <3>1, RanksFacts DEF LoopAt, CountAt, RankInv, StartAccepting, Loops, Higher
  <2>2. KeyAt(a)'
    BY <1>0, <1>2, <1>3, SameSockets, RanksFacts DEF KeyAt, RankInv, AcceptAt, StartAccepting
  <2>3. AcceptAt(a)'
    <3>1. Cardinality(Known(a)) = 0
      BY <1>0, FS_EmptySet DEF RankInv, AcceptAt
    <3> QED
      BY <1>0, <1>2, <1>3, <3>1, SameSockets DEF AcceptAt, RankInv, StartAccepting, Loops
  <2> QED
    BY <2>1, <2>2, <2>3 DEF RankInv
<1> QED
  BY <1>1, <1>3, <1>5, <1>6, IndInvIntro DEF StartAccepting

\* A connection that begins to wait.
LEMMA BacklogGrows ==
    ASSUME IndInv, NEW a \in Ranks, NEW b \in Ranks, Aside(a), a # b,
           ~Connected(a, b), Connected(a, b)', backlog'[b] = Append(backlog[b], a)
    PROVE  AcceptAt(b)'
<1>1. AcceptAt(b) /\ backlog[b] \in Seq(Ranks) /\ client[b] \in Ranks \cup {None}
  BY DEF IndInv, RankInv, MeshTypes
<1>2. /\ pc'[b] = pc[b] /\ cur'[b] = cur[b] /\ conns'[b] = conns[b] /\ client'[b] = client[b]
      /\ \A c \in Ranks : Connected(c, b) => Connected(c, b)'
  BY DEF Aside
<1>3. Known(b)' = Known(b) /\ (Misfiled(b)' <=> Misfiled(b)) /\ Known(b) \subseteq Ranks
  BY <1>2 DEF Known, Misfiled
<1>4. /\ Len(backlog'[b]) = Len(backlog[b]) + 1 /\ backlog'[b][Len(backlog[b]) + 1] = a
      /\ Len(backlog[b]) \in Nat
      /\ \A j \in 1..Len(backlog[b]) : backlog'[b][j] = backlog[b][j] /\ backlog[b][j] \in Ranks
  BY <1>1
<1>5. /\ a \notin Known(b) /\ a # client[b]
      /\ \A j \in 1..Len(backlog[b]) : backlog[b][j] # a
  BY <1>1, RanksFacts DEF AcceptAt
<1>6. \A j \in 1..Len(backlog'[b]) :
         \/ j \in 1..Len(backlog[b])
         \/ j = Len(backlog[b]) + 1 /\ backlog'[b][j] = a
  BY <1>4
<1>7. \A j \in 1..Len(backlog'[b]) : Connected(backlog[b][j], b)'
  <2> SUFFICES ASSUME NEW j \in 1..Len(backlog'[b]) PROVE Connected(backlog[b][j], b)'
    OBVIOUS
  <2>1. CASE j \in 1..Len(backlog[b])
    <3>1. Connected(backlog[b][j], b)
      BY <1>1, <2>1 DEF AcceptAt
    <3> DEFINE c == backlog[b][j]
    <3>2. c \in Ranks /\ backlog'[b][j] = c
      BY <1>4, <2>1
    <3>3. \A d \in Ranks : Connected(d, b) /\ backlog'[b][j] = d => Connected(backlog[b][j], b)'
      BY <1>2 DEF Connected
    <3> QED
      BY <3>1, <3>2, <3>3
  <2>2. CASE j = Len(backlog[b]) + 1
    BY <1>4, <2>2 DEF Connected
  <2> QED
    BY <1>6, <2>1, <2>2
<1>8. \A j, k \in 1..Len(backlog'[b]) : j # k => backlog'[b][j] # backlog'[b][k]
  BY <1>1, <1>4, <1>5, <1>6 DEF AcceptAt
<1>9. \A j \in 1..Len(backlog'[b]) :
         backlog'[b][j] \notin Known(b)' /\ backlog'[b][j] # client'[b]
  BY <1>1, <1>2, <1>3, <1>4, <1>5, <1>6 DEF AcceptAt
<1>10. /\ client'[b] # None => Connected(client[b], b)' /\ client'[b] \notin Known(b)'
       /\ \A p \in Known(b)' : Connected(p, b)'
  BY <1>1, <1>2, <1>3 DEF AcceptAt, Connected
<1> QED
  BY <1>1, <1>2, <1>3, <1>7, <1>8, <1>9, <1>10 DEF AcceptAt

LEMMA ConnectInv == ASSUME IndInv, NEW a \in Ranks, Connect(a) PROVE IndInv'
<1>0. /\ pc[a] = "connect" /\ cur[a] < a /\ i[a] = 0 /\ RankInv(a) /\ ~Gone(a) /\ MeshTypes
      /\ cur' = cur /\ client' = client /\ conns' = conns /\ net' = net
      /\ mapped' = mapped /\ count' = count /\ pc' = pc
  BY DEF Connect, IndInv, Gone, Ended
<1>b. PICK b \in Ranks : b = cur[a] /\ b # a
  BY <1>0, CurFacts, RanksFacts DEF MeshTypes
<1>g. \/ /\ Listening(b)
         /\ backlog' = [backlog EXCEPT ![b] = Append(@, a)]
         /\ i' = [i EXCEPT ![a] = 1] /\ attempts' = attempts
      \/ /\ attempts[a] < MaxAttempts /\ attempts' = [attempts EXCEPT ![a] = @ + 1]
         /\ i' = i /\ backlog' = backlog
  <2>1. CASE Listening(cur[a])
    BY <1>b, <2>1 DEF Connect
  <2>2. CASE ~Listening(cur[a])
    BY <2>2 DEF Connect
  <2> QED
    BY <2>1, <2>2
<1>1. /\ i' \in [Ranks -> 0..4] /\ i'[a] \in {0, 1}
      /\ \A r \in Ranks \ {a} : i'[r] = i[r]
  <2>1. i \in [Ranks -> 0..4] /\ (i' = i \/ i' = [i EXCEPT ![a] = 1])
    BY <1>0, <1>g DEF MeshTypes
  <2> QED
    BY <1>0, <2>1
<1>2. MeshTypes'
  <2>1. backlog' \in [Ranks -> Seq(Ranks)]
    <3>1. backlog \in [Ranks -> Seq(Ranks)] /\ Append(backlog[b], a) \in Seq(Ranks)
      BY <1>0 DEF MeshTypes
    <3> QED
      BY <1>g, <3>1
  <2>2. attempts' \in [Ranks -> 0..MaxAttempts]
    <3>1. attempts \in [Ranks -> 0..MaxAttempts]
      BY <1>0 DEF MeshTypes
    <3>2. attempts[a] < MaxAttempts => attempts[a] + 1 \in 0..MaxAttempts
      BY <3>1, MeshAssumption
    <3> QED
      BY <1>g, <3>1, <3>2
  <2> QED
    BY <1>0, <1>1, <2>1, <2>2 DEF MeshTypes
<1>3. Aside(a)
  <2>1. cur[a] \in Int
    BY <1>0, CurFacts DEF MeshTypes
  <2> QED
    BY <1>0, <1>1, <2>1, AsideIntro
<1>4. \A p \in Ranks : Rcvd(a, p)' = Rcvd(a, p) /\ Sent(a, p)' = Sent(a, p)
  BY <1>0 DEF Rcvd, Sent, Place, Offset, SetUp, Loops
<1>5. PairInv'
  BY <1>0, <1>3, <1>4, QuietStep
<1>6. RankInv(a)'
  <2>1. LoopAt(a)' /\ CountAt(a)' /\ mapped'[a][a] = a
    BY <1>0, <1>1, RanksFacts DEF LoopAt, CountAt, RankInv, Loops
  <2>2. backlog'[a] = backlog[a]
    BY <1>0, <1>b, <1>g DEF MeshTypes
  <2>3. KeyAt(a)'
    BY <1>0, <1>3, <2>2, SameSockets DEF KeyAt, RankInv, AcceptAt
  <2>4. AcceptAt(a)'
    BY <1>0, <1>3, <2>2, SameSockets DEF AcceptAt, RankInv, Loops
  <2> QED
    BY <2>1, <2>3, <2>4 DEF RankInv
<1>7. CASE /\ backlog' = [backlog EXCEPT ![b] = Append(@, a)] /\ i' = [i EXCEPT ![a] = 1]
  <2>1. /\ backlog'[b] = Append(backlog[b], a) /\ i'[a] = 1
        /\ \A r \in Ranks \ {b} : backlog'[r] = backlog[r]
    BY <1>0, <1>7 DEF MeshTypes
  <2>2. ~Connected(a, b) /\ Connected(a, b)'
    BY <1>0, <1>b, <2>1, RanksFacts DEF Connected
  <2>3. AcceptAt(b)'
    BY <1>b, <1>3, <2>1, <2>2, BacklogGrows
  <2>4. ASSUME NEW r \in Ranks \ {a} PROVE RankInv(r)'
    <3>1. LoopAt(r)' /\ KeyAt(r)' /\ CountAt(r)' /\ mapped'[r][r] = r
      BY <1>3, OtherRanks
    <3>2. AcceptAt(r)'
      BY <1>3, <2>1, <2>3, OtherRanks
    <3> QED
      BY <3>1, <3>2 DEF RankInv
  <2>5. \A r \in Ranks : RankInv(r)'
    BY <1>6, <2>4
  <2> QED
    BY <1>2, <1>5, <2>5 DEF IndInv
<1>8. CASE backlog' = backlog
  BY <1>2, <1>3, <1>5, <1>6, <1>8, IndInvIntro
<1> QED
  BY <1>g, <1>7, <1>8

LEMMA AcceptInv == ASSUME IndInv, NEW a \in Ranks, Accept(a) PROVE IndInv'
<1>0. /\ pc[a] = "accept" /\ i[a] = 0 /\ RankInv(a) /\ ~Gone(a) /\ MeshTypes
      /\ cur[a] < Higher(a) /\ backlog[a] # <<>> /\ backlog[a] \in Seq(Ranks)
      /\ cur' = cur /\ conns' = conns /\ net' = net /\ mapped' = mapped /\ count' = count
      /\ pc' = pc /\ attempts' = attempts
  BY DEF Accept, IndInv, Gone, Ended, MeshTypes
<1>1. /\ client' = [client EXCEPT ![a] = Head(backlog[a])]
      /\ backlog' = [backlog EXCEPT ![a] = Tail(@)] /\ i' = [i EXCEPT ![a] = 1]
  BY DEF Accept
<1>2. /\ Len(backlog[a]) \in Nat \ {0} /\ Head(backlog[a]) = backlog[a][1]
      /\ backlog[a][1] \in Ranks /\ Tail(backlog[a]) \in Seq(Ranks)
      /\ Len(Tail(backlog[a])) = Len(backlog[a]) - 1
      /\ \A j \in 1..(Len(backlog[a]) - 1) : Tail(backlog[a])[j] = backlog[a][j + 1]
  BY <1>0
<1>3. /\ client'[a] = backlog[a][1] /\ backlog'[a] = Tail(backlog[a]) /\ i'[a] = 1
      /\ \A r \in Ranks \ {a} : client'[r] = client[r] /\ backlog'[r] = backlog[r] /\ i'[r] = i[r]
  BY <1>0, <1>1, <1>2 DEF MeshTypes
<1>4. MeshTypes'
  <2>1. client' \in [Ranks -> Ranks \cup {None}] /\ backlog' \in [Ranks -> Seq(Ranks)]
        /\ i' \in [Ranks -> 0..4]
    <3>1. /\ client \in [Ranks -> Ranks \cup {None}] /\ backlog \in [Ranks -> Seq(Ranks)]
          /\ i \in [Ranks -> 0..4]
      BY <1>0 DEF MeshTypes
    <3> QED
      BY <1>1, <1>2, <3>1
  <2> QED
    BY <1>0, <2>1 DEF MeshTypes
<1>5. Aside(a)
  <2>1. cur[a] \in Int
    BY <1>0, CurFacts DEF MeshTypes
  <2> QED
    BY <1>0, <1>3, <2>1, AsideIntro
<1>6. \A p \in Ranks : Rcvd(a, p)' = Rcvd(a, p) /\ Sent(a, p)' = Sent(a, p)
  BY <1>0 DEF Rcvd, Sent, Place, Offset, SetUp, Loops
<1>7. PairInv'
  BY <1>0, <1>5, <1>6, QuietStep
<1>8. RankInv(a)'
  <2>1. LoopAt(a)' /\ CountAt(a)' /\ mapped'[a][a] = a
    BY <1>0, <1>2, <1>3, RanksFacts DEF LoopAt, CountAt, RankInv, Loops, Higher
  <2>2. KeyAt(a)'
    BY <1>0 DEF KeyAt, RankInv, Gone, Misfiled
  <2>3. AcceptAt(a)'
    <3>1. AcceptAt(a)
      BY <1>0 DEF RankInv
    <3>2. Known(a)' = Known(a) /\ (Misfiled(a)' <=> Misfiled(a)) /\ Known(a) \subseteq Ranks
      BY <1>0 DEF Known, Misfiled
    <3>3. \A c \in Ranks : Connected(c, a) => Connected(c, a)'
      BY <1>5 DEF Aside
    <3>4. /\ \A j \in 1..Len(backlog'[a]) : backlog'[a][j] = backlog[a][j + 1]
                                            /\ j + 1 \in 1..Len(backlog[a]) /\ j + 1 # 1
          /\ 1 \in 1..Len(backlog[a])
      BY <1>2, <1>3
    <3>5. \A j \in 1..Len(backlog[a]) : backlog[a][j] \in Ranks /\ Connected(backlog[a][j], a)
      BY <1>0, <3>1 DEF AcceptAt
    <3>6. \A j \in 1..Len(backlog'[a]) : Connected(backlog[a][j], a)'
      <4> SUFFICES ASSUME NEW j \in 1..Len(backlog'[a]) PROVE Connected(backlog[a][j], a)'
        OBVIOUS
      <4>1. PICK c \in Ranks : c = backlog[a][j + 1] /\ c = backlog'[a][j]
        BY <3>4, <3>5
      <4>2. Connected(c, a)'
        BY <3>3, <3>4, <3>5, <4>1
      <4> QED
        BY <4>1, <4>2 DEF Connected
    <3>7. Connected(client[a], a)' /\ client'[a] \notin Known(a)'
      BY <1>3, <3>1, <3>2, <3>3, <3>4, <3>5 DEF Connected, AcceptAt
    <3>8. \A j, k \in 1..Len(backlog'[a]) : j # k => backlog'[a][j] # backlog'[a][k]
      <4> SUFFICES ASSUME NEW j \in 1..Len(backlog'[a]), NEW k \in 1..Len(backlog'[a]), j # k
                   PROVE  backlog'[a][j] # backlog'[a][k]
        OBVIOUS
      <4>1. j + 1 # k + 1
        OBVIOUS
      <4> QED
        BY <3>1, <3>4, <4>1 DEF AcceptAt
    <3>9. \A j \in 1..Len(backlog'[a]) :
             backlog'[a][j] \notin Known(a)' /\ backlog'[a][j] # client'[a]
      BY <1>3, <3>1, <3>2, <3>4 DEF AcceptAt
    <3>10. \A p \in Known(a)' : Connected(p, a)'
      BY <3>1, <3>2, <3>3 DEF AcceptAt
    <3> QED
      BY <1>0, <3>1, <3>2, <3>6, <3>7, <3>8, <3>9, <3>10 DEF AcceptAt
  <2> QED
    BY <2>1, <2>2, <2>3 DEF RankInv
<1> QED
  BY <1>3, <1>4, <1>5, <1>7, <1>8, IndInvIntro

\* A loop over the peers begins: nothing has been exchanged in it.
LEMMA LoopBegins ==
    ASSUME MeshTypes, MeshTypes', NEW a \in Ranks, pc'[a] \in Loops \cup {"done"}, i'[a] = 0,
           cur'[a] = FirstKey(a, 0), conns' = conns
    PROVE  /\ \A p \in Ranks : conns[a][p] = p =>
                 Rcvd(a, p)' = Offset(a)' /\ Sent(a, p)' = Offset(a)'
           /\ \A p \in Ranks : conns[a][p] # p =>
                 Rcvd(a, p)' = Rcvd(a, p) /\ Sent(a, p)' = Sent(a, p)
<1>1. GotHere(a)' = 0 /\ SentHere(a)' = 0
  BY DEF GotHere, SentHere
<1>2. Offset(a)' \in Nat
  BY DEF Offset, SetUp
<1>3. ASSUME NEW p \in Ranks, conns[a][p] = p
      PROVE  Rcvd(a, p)' = Offset(a)' /\ Sent(a, p)' = Offset(a)'
  <2>0. p \in Nat /\ p >= 0 /\ p # None /\ 0 \in Nat
    BY RanksFacts
  <2>1. FirstKey(a, 0) <= p /\ FirstKey(a, 0) \in Int /\ p \in Nat
    <3>1. FirstKey(a, 0) \in 0..N /\ FirstKey(a, 0) <= p
      BY <1>3, <2>0, FirstKeyFacts
    <3> QED
      BY <2>0, <3>1, CurFacts
  <2>2. ~(p < cur'[a])
    BY <2>1
  <2> QED
    BY <1>1, <1>2, <1>3, <2>2 DEF Rcvd, Sent, Place
<1> QED
  BY <1>3 DEF Rcvd, Sent

LEMMA CloseListenerInv == ASSUME IndInv, NEW a \in Ranks, CloseListener(a) PROVE IndInv'
<1>0. /\ pc[a] = "accept" /\ cur[a] = Higher(a) /\ RankInv(a) /\ ~Gone(a) /\ MeshTypes
      /\ i' = i /\ conns' = conns /\ net' = net /\ mapped' = mapped /\ count' = count
      /\ attempts' = attempts /\ backlog' = backlog /\ client' = client
      /\ pc' = [pc EXCEPT ![a] = "base"] /\ cur' = [cur EXCEPT ![a] = FirstKey(a, 0)]
  BY DEF CloseListener, IndInv, Gone, Ended
<1>1. /\ FirstKey(a, 0) \in 0..N
      /\ FirstKey(a, 0) < N => conns[a][FirstKey(a, 0)] # None
  BY FirstKeyFacts
<1>2. /\ pc'[a] = "base" /\ cur'[a] = FirstKey(a, 0) /\ cur'[a] \in Int /\ i'[a] = 0 /\ i[a] = 0
      /\ \A r \in Ranks \ {a} : pc'[r] = pc[r] /\ cur'[r] = cur[r]
  <2>1. i[a] = 0
    BY <1>0, RanksFacts DEF RankInv, LoopAt, Higher
  <2> QED
    BY <1>0, <1>1, <2>1, CurFacts DEF MeshTypes
<1>3. MeshTypes'
  BY <1>0, <1>1 DEF MeshTypes, Loops
<1>4. Aside(a)
  BY <1>0, <1>2, AsideIntro
<1>5. \A p \in Ranks : Rcvd(a, p)' = Rcvd(a, p) /\ Sent(a, p)' = Sent(a, p)
  <2>1. Offset(a)' = 1
    BY <1>2 DEF Offset, SetUp
  <2>2. \A p \in Ranks : conns[a][p] = p => Rcvd(a, p) = 1 /\ Sent(a, p) = 1
    BY <1>0 DEF Rcvd, Sent, Place, Offset, SetUp, Loops
  <2>3. pc'[a] \in Loops \cup {"done"}
    BY <1>2 DEF Loops
  <2> QED
    BY <1>0, <1>2, <1>3, <2>1, <2>2, <2>3, LoopBegins
<1>6. PairInv'
  BY <1>0, <1>4, <1>5, QuietStep
<1>7. RankInv(a)'
  <2>1. LoopAt(a)' /\ CountAt(a)' /\ mapped'[a][a] = a
    BY <1>0, <1>1, <1>2 DEF LoopAt, CountAt, RankInv, Loops, Steps
  <2>2. KeyAt(a)'
    BY <1>0, <1>2, <1>4, SameSockets DEF KeyAt, RankInv
  <2>3. ~Misfiled(a) => Known(a) = (a + 1)..(N - 1)
    <3> SUFFICES ASSUME ~Misfiled(a) PROVE Known(a) = (a + 1)..(N - 1)
      OBVIOUS
    <3>1. a \in Nat /\ N \in Nat /\ a < N
      BY RanksFacts
    <3>2. Cardinality(Known(a)) = N - 1 - a
      BY <1>0 DEF RankInv, AcceptAt, Higher
    <3>3. Known(a) \subseteq (a + 1)..(N - 1)
      BY <3>1 DEF Known, Ranks
    <3>4. IsFiniteSet((a + 1)..(N - 1)) /\ Cardinality((a + 1)..(N - 1)) = N - 1 - a
      BY <3>1, FS_Interval
    <3> QED
      BY <3>2, <3>3, <3>4, FS_Subset
  <2>4. AcceptAt(a)'
    BY <1>0, <1>2, <1>4, <2>3, SameSockets DEF AcceptAt
  <2> QED
    BY <2>1, <2>2, <2>4 DEF RankInv
<1> QED
  BY <1>0, <1>3, <1>4, <1>6, <1>7, IndInvIntro

LEMMA NextPeerInv == ASSUME IndInv, NEW a \in Ranks, NextPeer(a) PROVE IndInv'
<1>0. /\ pc[a] \in Loops /\ cur[a] < N /\ i[a] = Steps(a) /\ RankInv(a) /\ MeshTypes
      /\ conns' = conns /\ net' = net /\ mapped' = mapped /\ pc' = pc
      /\ attempts' = attempts /\ backlog' = backlog /\ client' = client
      /\ cur' = [cur EXCEPT ![a] = FirstKey(a, @ + 1)]
      /\ i' = [i EXCEPT ![a] = 0] /\ count' = [count EXCEPT ![a] = 0]
  BY PhaseFacts DEF NextPeer, IndInv
<1>1. cur[a] + 1 \in Nat /\ cur[a] \in Nat /\ ~Gone(a)
  BY <1>0, CurFacts DEF MeshTypes, Gone, Loops, Ended
<1> DEFINE f == FirstKey(a, cur[a] + 1)
<1>2. /\ f \in 0..N /\ (f < N => f >= cur[a] + 1 /\ conns[a][f] # None)
      /\ \A p \in Ranks : p >= cur[a] + 1 /\ conns[a][p] # None => f <= p
  BY <1>1, FirstKeyFacts
<1>3. cur'[a] = f
  BY <1>0 DEF MeshTypes
<1> HIDE DEF f
<1>4. /\ cur'[a] \in Int /\ i'[a] = 0 /\ count'[a] = 0
      /\ \A r \in Ranks \ {a} : i'[r] = i[r] /\ cur'[r] = cur[r] /\ count'[r] = count[r]
  BY <1>0, <1>2, <1>3, CurFacts DEF MeshTypes
<1>5. MeshTypes'
  <2>1. cur' \in [Ranks -> 0..N]
    BY <1>0, <1>2, <1>3 DEF MeshTypes, f
  <2> QED
    BY <1>0, <2>1 DEF MeshTypes
<1>6. Aside(a)
  BY <1>0, <1>1, <1>4, AsideIntro DEF Loops
<1>7. Offset(a)' = Offset(a) /\ Width(a)' = Width(a) /\ Steps(a)' = Steps(a)
  BY <1>0 DEF Offset, Width, Steps
<1>8. /\ GotHere(a) = Width(a) /\ SentHere(a) = Width(a) /\ GotHere(a)' = 0 /\ SentHere(a)' = 0
      /\ Width(a) \in Nat /\ Offset(a) \in Nat
  BY <1>0, <1>4, HereFacts, PlaceFacts DEF Width, Steps, GotHere, SentHere
<1>9. \A p \in Ranks : Rcvd(a, p)' = Rcvd(a, p) /\ Sent(a, p)' = Sent(a, p)
  <2> SUFFICES ASSUME NEW p \in Ranks, conns[a][p] = p
               PROVE  Rcvd(a, p)' = Rcvd(a, p) /\ Sent(a, p)' = Sent(a, p)
    BY <1>0 DEF Rcvd, Sent
  <2>1. p \in Nat /\ p < N /\ f \in Int /\ p # None /\ N \in Nat
    BY <1>2, RanksFacts, CurFacts
  <2>2. CASE p < cur[a] \/ p = cur[a]
    <3>1. p < f
      BY <1>1, <1>2, <2>1, <2>2
    <3> QED
      BY <1>0, <1>3, <1>7, <1>8, <2>1, <2>2, <3>1 DEF Rcvd, Sent, Place
  <2>3. CASE p > cur[a]
    <3>1. f <= p
      BY <1>1, <1>2, <2>1, <2>3
    <3> QED
      BY <1>0, <1>1, <1>3, <1>7, <1>8, <2>1, <2>3, <3>1 DEF Rcvd, Sent, Place
  <2> QED
    BY <1>1, <2>1, <2>2, <2>3
<1>10. PairInv'
  BY <1>0, <1>6, <1>9, QuietStep
<1>11. RankInv(a)'
  <2>1. LoopAt(a)' /\ CountAt(a)' /\ mapped'[a][a] = a
    BY <1>0, <1>2, <1>3, <1>4, <1>7, <1>8 DEF LoopAt, CountAt, RankInv, Loops, Steps
  <2>2. pc[a] = "barrier1" => i[a] = 2
    BY <1>0 DEF Steps
  <2>3. KeyAt(a)'
    BY <1>0, <1>1, <1>6, <2>2, SameSockets DEF KeyAt, RankInv, Loops, Gone
  <2>4. AcceptAt(a)'
    BY <1>0, <1>6, SameSockets DEF AcceptAt, RankInv, Loops
  <2> QED
    BY <2>1, <2>3, <2>4 DEF RankInv
<1> QED
  BY <1>0, <1>5, <1>6, <1>10, <1>11, IndInvIntro

LEMMA NextPhaseInv == ASSUME IndInv, NEW a \in Ranks, NextPhase(a) PROVE IndInv'
<1>0. /\ cur[a] = N /\ RankInv(a) /\ MeshTypes /\ pc[a] \in Loops /\ i[a] = 0 /\ ~Gone(a)
      /\ conns' = conns /\ net' = net /\ mapped' = mapped /\ count' = count /\ i' = i
      /\ attempts' = attempts /\ backlog' = backlog /\ client' = client
      /\ cur' = [cur EXCEPT ![a] = FirstKey(a, 0)]
      /\ \E q \in Loops \cup {"done"} : pc' = [pc EXCEPT ![a] = q]
  <2>1. RankInv(a) /\ MeshTypes
    BY DEF IndInv
  <2>2. PICK k \in 1..4 : /\ pc[a] = Phases[k] /\ cur[a] = N
                          /\ pc' = [pc EXCEPT ![a] = Phases[k + 1]]
                          /\ cur' = [cur EXCEPT ![a] = FirstKey(a, 0)]
                          /\ UNCHANGED <<i, attempts, backlog, client, conns, net, mapped, count>>
    BY DEF NextPhase
  <2>3. pc[a] \in Loops /\ Phases[k + 1] \in Loops \cup {"done"}
    BY <2>2, PhaseFacts
  <2> QED
    BY <2>1, <2>2, <2>3 DEF RankInv, LoopAt, Gone, Ended, Loops
<1>1. /\ pc[a] = "base" => pc'[a] = "barrier1"
      /\ pc[a] = "barrier1" => pc'[a] = "records"
      /\ pc[a] = "records" => pc'[a] = "barrier2"
      /\ pc[a] = "barrier2" => pc'[a] = "done"
  <2>1. PICK k \in 1..4 : pc[a] = Phases[k] /\ pc' = [pc EXCEPT ![a] = Phases[k + 1]]
    BY DEF NextPhase
  <2>2. k \in {1, 2, 3, 4} /\ pc'[a] = Phases[k + 1]
    BY <1>0, <2>1 DEF MeshTypes
  <2> QED
    BY <2>1, <2>2, PhaseFacts
<1>2. /\ FirstKey(a, 0) \in 0..N
      /\ FirstKey(a, 0) < N => conns[a][FirstKey(a, 0)] # None
      /\ conns[a][0] # None => FirstKey(a, 0) = 0
  BY FirstKeyFacts, RanksFacts, CurFacts
<1>3. /\ cur'[a] = FirstKey(a, 0) /\ cur'[a] \in Int /\ i'[a] = 0
      /\ pc'[a] \in Loops \cup {"done"}
      /\ \A r \in Ranks \ {a} : pc'[r] = pc[r] /\ cur'[r] = cur[r]
  BY <1>0, <1>2, CurFacts DEF MeshTypes
<1>4. MeshTypes'
  <2>1. cur' \in [Ranks -> 0..N] /\ pc' \in [Ranks -> SetUp \cup Ended \cup Loops \cup {"done"}]
    BY <1>0, <1>2 DEF MeshTypes
  <2> QED
    BY <1>0, <2>1 DEF MeshTypes
<1>5. Aside(a)
  BY <1>0, <1>3, AsideIntro DEF Loops
<1>6. \A p \in Ranks : Rcvd(a, p)' = Rcvd(a, p) /\ Sent(a, p)' = Sent(a, p)
  <2>1. Offset(a)' = Offset(a) + Width(a)
    BY <1>0, <1>1 DEF Offset, Width, Steps, SetUp, Loops
  <2>2. \A p \in Ranks : conns[a][p] = p =>
           Rcvd(a, p) = Offset(a) + Width(a) /\ Sent(a, p) = Offset(a) + Width(a)
    BY <1>0, RanksFacts DEF Rcvd, Sent, Place
  <2> QED
    BY <1>0, <1>3, <1>4, <2>1, <2>2, LoopBegins
<1>7. PairInv'
  BY <1>0, <1>5, <1>6, QuietStep
<1>8. RankInv(a)'
  <2>1. LoopAt(a)' /\ mapped'[a][a] = a
    BY <1>0, <1>2, <1>3 DEF LoopAt, RankInv, Loops, Steps
  <2>2. CountAt(a)'
    BY <1>3 DEF CountAt, GotHere
  <2>3. Misfiled(a) => pc[a] = "base"
    BY <1>0, MeshAssumption DEF KeyAt, RankInv, Loops, Gone
  <2>4. KeyAt(a)'
    BY <1>0, <1>1, <1>2, <1>3, <1>5, <2>3, SameSockets DEF KeyAt, RankInv, Loops, Misfiled
  <2>5. AcceptAt(a)'
    BY <1>0, <1>3, <1>5, SameSockets DEF AcceptAt, RankInv, Loops
  <2> QED
    BY <2>1, <2>2, <2>4, <2>5 DEF RankInv
<1> QED
  BY <1>0, <1>4, <1>5, <1>7, <1>8, IndInvIntro

-----------------------------------------------------------------------------
(* What a message sent, received or missed does to a pair of ranks.        *)

LEMMA StreamFacts ==
    /\ Stream[1] = "rank" /\ Stream[2] = "base" /\ Stream[3] = "token"
    /\ Stream[4] = "count" /\ Stream[5] = "record" /\ Stream[6] = "token"
  BY DEF Stream

LEMMA PairSend ==
    ASSUME NEW r \in Ranks, NEW p \in Ranks, Pair(r, p), ~Gone(r), ~Gone(p),
           net[p][r] \in Seq(Kinds), Rcvd(r, p) \in Nat, NEW m,
           net'[p][r] = Append(net[p][r], m), Rcvd(r, p)' = Rcvd(r, p),
           Sent(p, r) < 6, Sent(p, r)' = Sent(p, r) + 1, m = Stream[Sent(p, r) + 1],
           mapped'[p][r] = mapped[p][r], mapped'[r][p] = mapped[r][p],
           Sent(p, r) = 5 => mapped[p][r] = r
    PROVE  Pair(r, p)'
<1> DEFINE k == Rcvd(r, p)
           l == Len(net[p][r])
<1>1. /\ k \in Nat /\ l \in Nat /\ k + l = Sent(p, r) /\ Len(net'[p][r]) = l + 1
      /\ \A j \in 1..l : net'[p][r][j] = net[p][r][j] /\ net[p][r][j] = Stream[k + j]
      /\ net'[p][r][l + 1] = m
  BY DEF Pair
<1>2. \A j \in 1..Len(net'[p][r]) : net'[p][r][j] = Stream[k + j]
  <2> SUFFICES ASSUME NEW j \in 1..(l + 1) PROVE net'[p][r][j] = Stream[k + j]
    BY <1>1
  <2>1. CASE j \in 1..l
    BY <1>1, <2>1
  <2>2. CASE j = l + 1
    <3>1. k + j = Sent(p, r) + 1
      BY <1>1, <2>2
    <3> QED
      BY <1>1, <2>2, <3>1
  <2> QED
    BY <1>1, <2>1, <2>2
<1>3. k >= 5 => mapped[r][p] = p
  BY DEF Pair
<1>4. /\ Rcvd(r, p)' + Len(net'[p][r]) = Sent(p, r)' /\ Sent(p, r)' <= 6
      /\ Sent(p, r)' = 6 => mapped'[p][r] = r
  <2> HIDE DEF k, l
  <2>1. Sent(p, r) \in Nat
    BY <1>1
  <2>2. Rcvd(r, p)' = k
    BY DEF k
  <2> QED
    BY <1>1, <2>1, <2>2
<1> QED
  BY <1>2, <1>3, <1>4 DEF Pair

LEMMA PairRecv ==
    ASSUME NEW r \in Ranks, NEW p \in Ranks, Pair(r, p), ~Gone(r),
           net[p][r] \in Seq(Kinds), Rcvd(r, p) \in Nat, net[p][r] # <<>>,
           net'[p][r] = Tail(net[p][r]), Rcvd(r, p)' = Rcvd(r, p) + 1,
           Gone(p)' <=> Gone(p), Sent(p, r)' = Sent(p, r),
           mapped[p][r] = r => mapped'[p][r] = r, mapped[r][p] = p => mapped'[r][p] = p,
           Rcvd(r, p) = 4 => mapped'[r][p] = p
    PROVE  Pair(r, p)' /\ Head(net[p][r]) = Stream[Rcvd(r, p) + 1]
<1> DEFINE k == Rcvd(r, p)
           l == Len(net[p][r])
<1>1. /\ k \in Nat /\ l \in Nat \ {0} /\ k + l <= 6 /\ Len(net'[p][r]) = l - 1
      /\ \A j \in 1..l : net[p][r][j] = Stream[k + j]
      /\ \A j \in 1..(l - 1) : net'[p][r][j] = net[p][r][j + 1]
      /\ Head(net[p][r]) = net[p][r][1]
  BY DEF Pair
<1>3. k + 1 >= 5 => mapped'[r][p] = p
  BY <1>1 DEF Pair
<1>5. /\ ~Gone(p) => k + l = Sent(p, r)
      /\ k + l = 6 => mapped[p][r] = r
  BY DEF Pair
<1>7. Rcvd(r, p)' = k + 1
  OBVIOUS
<1> HIDE DEF k, l
<1>2. \A j \in 1..Len(net'[p][r]) : net'[p][r][j] = Stream[(k + 1) + j]
  <2> SUFFICES ASSUME NEW j \in 1..(l - 1) PROVE net'[p][r][j] = Stream[(k + 1) + j]
    BY <1>1
  <2>1. j + 1 \in 1..l /\ k + (j + 1) = (k + 1) + j
    BY <1>1
  <2> QED
    BY <1>1, <2>1
<1>4. (k + 1) + (l - 1) = k + l /\ 1 \in 1..l
  BY <1>1
<1>6. Head(net[p][r]) = Stream[k + 1]
  BY <1>1, <1>4
<1>8. Rcvd(r, p)' + Len(net'[p][r]) = k + l
  BY <1>1, <1>4, <1>7
<1>9. Pair(r, p)'
  BY <1>1, <1>2, <1>3, <1>5, <1>7, <1>8 DEF Pair
<1> QED
  BY <1>6, <1>9 DEF k

LEMMA PairMiss ==
    ASSUME NEW r \in Ranks, NEW p \in Ranks, Gone(p)', net'[p][r] = <<>>,
           Rcvd(r, p)' \in 0..5
    PROVE  Pair(r, p)'
<1>1. Len(net'[p][r]) = 0 /\ Rcvd(r, p)' + 0 = Rcvd(r, p)' /\ Rcvd(r, p)' <= 5
      /\ (Rcvd(r, p)' >= 5 => Rcvd(r, p)' = 5) /\ 1..0 = {}
  OBVIOUS
<1> QED
  BY <1>1 DEF Pair

-----------------------------------------------------------------------------
(* setupFdMesh: the ranks exchange their names.                            *)

LEMMA IdentifyInv == ASSUME IndInv, NEW a \in Ranks, Identify(a) PROVE IndInv'
<1>0. /\ pc[a] = "connect" /\ i[a] = 1 /\ RankInv(a) /\ ~Gone(a) /\ MeshTypes
  BY DEF Identify, IndInv, Gone, Ended
<1>b. PICK b \in Ranks : b = cur[a] /\ b < a /\ b # a
  BY <1>0, CurFacts, RanksFacts DEF MeshTypes, RankInv, LoopAt
<1>1. CASE Gone(b) /\ Die(a, "dead")
  BY <1>0, <1>1, DieInv DEF Ended
<1>2. CASE /\ net' = IF Gone(b) THEN net ELSE [net EXCEPT ![a][b] = Append(@, "rank")]
           /\ conns' = [conns EXCEPT ![a][b] = b]
           /\ cur' = [cur EXCEPT ![a] = @ + 1]
           /\ i' = [i EXCEPT ![a] = 0] /\ attempts' = [attempts EXCEPT ![a] = 0]
           /\ UNCHANGED <<pc, backlog, client, mapped, count>>
  <2>0. /\ pc' = pc /\ backlog' = backlog /\ client' = client
        /\ mapped' = mapped /\ count' = count
    BY <1>2
  <2>1. /\ conns'[a][b] = b /\ cur'[a] = b + 1 /\ i'[a] = 0 /\ b \in Nat /\ a \in Nat
        /\ \A k \in Ranks \ {b} : conns'[a][k] = conns[a][k]
        /\ \A r \in Ranks \ {a} : conns'[r] = conns[r] /\ cur'[r] = cur[r] /\ i'[r] = i[r]
    BY <1>0, <1>b, <1>2, RanksFacts DEF MeshTypes
  <2>2. /\ ~Gone(b) => net'[a][b] = Append(net[a][b], "rank")
        /\ \A x, r \in Ranks : x # a \/ r # b => net'[x][r] = net[x][r]
    BY <1>0, <1>2 DEF MeshTypes
  <2>3. MeshTypes'
    <3>1. net' \in [Ranks -> [Ranks -> Seq(Kinds)]]
      <4>1. net \in [Ranks -> [Ranks -> Seq(Kinds)]] /\ Append(net[a][b], "rank") \in Seq(Kinds)
        BY <1>0 DEF MeshTypes, Kinds
      <4> QED
        BY <1>2, <4>1
    <3>2. conns' \in [Ranks -> [Ranks -> Ranks \cup {None}]]
      BY <1>0, <1>2 DEF MeshTypes
    <3>3. cur' \in [Ranks -> 0..N]
      <4>1. b + 1 \in 0..N
        BY <1>b, RanksFacts
      <4> QED
        BY <1>0, <1>b, <1>2, <4>1 DEF MeshTypes
    <3>4. i' \in [Ranks -> 0..4] /\ attempts' \in [Ranks -> 0..MaxAttempts]
      <4>1. /\ i \in [Ranks -> 0..4] /\ attempts \in [Ranks -> 0..MaxAttempts]
            /\ i' = [i EXCEPT ![a] = 0] /\ attempts' = [attempts EXCEPT ![a] = 0]
        BY <1>0, <1>2 DEF MeshTypes
      <4> QED
        BY <4>1, MeshAssumption
    <3> QED
      BY <1>0, <2>0, <3>1, <3>2, <3>3, <3>4 DEF MeshTypes
  <2>4. Aside(a)
    <3>1. cur'[a] > cur[a] /\ cur'[a] \in Int
      BY <1>b, <2>1
    <3> QED
      BY <1>0, <1>2, <2>1, <2>2, <3>1, AsideIntro
  <2>5. conns[a][b] = None /\ Known(a) = {} /\ ~Misfiled(a)
    BY <1>0, <1>b, <2>1 DEF RankInv, KeyAt, AcceptAt
  <2>6. \A p \in Ranks : /\ Rcvd(a, p)' = Rcvd(a, p)
                         /\ p # b => Sent(a, p)' = Sent(a, p)
    <3>1. Offset(a) = 1 /\ Offset(a)' = 1 /\ pc[a] \notin Loops /\ pc'[a] \notin Loops
      BY <1>0, <1>2 DEF Offset, SetUp, Loops
    <3>2. Rcvd(a, b)' = Rcvd(a, b)
      BY <1>b, <2>1, <3>1 DEF Rcvd, Place
    <3> QED
      BY <2>1, <3>1, <3>2 DEF Rcvd, Sent, Place
  <2>7. Sent(a, b) = 0 /\ Sent(a, b)' = 1
    <3>1. Offset(a)' = 1 /\ pc'[a] \notin Loops
      BY <1>0, <1>2 DEF Offset, SetUp, Loops
    <3>2. b # None
      BY RanksFacts
    <3> QED
      BY <1>b, <2>1, <2>5, <3>1, <3>2 DEF Sent, Place
  <2>8. ASSUME NEW p \in Ranks \ {a} PROVE Pair(a, p)' /\ Pair(p, a)'
    <3>1. Pair(a, p) /\ Pair(p, a) /\ mapped' = mapped
      BY <1>2 DEF IndInv, PairInv
    <3>2. /\ Rcvd(p, a)' = Rcvd(p, a) /\ Sent(p, a)' = Sent(p, a)
          /\ Gone(p) => Gone(p)' /\ (~Gone(p) => ~Gone(p)')
      BY <2>4, OtherRanks
    <3>3. (Gone(a) => Gone(a)') /\ (Gone(p) => Gone(p)')
      BY <2>4 DEF Aside
    <3>4. Pair(a, p)'
      BY <2>2, <2>6, <3>1, <3>2, <3>3, PairKept
    <3>5. CASE p # b
      BY <2>2, <2>6, <3>1, <3>2, <3>3, <3>4, <3>5, PairKept
    <3>6. CASE p = b /\ Gone(b)
      <4>1. Gone(p)'
        BY <3>3, <3>6
      <4> QED
        BY <3>4, <4>1 DEF Pair
    <3>7. CASE p = b /\ ~Gone(b)
      <4>1. net[a][b] \in Seq(Kinds) /\ Rcvd(b, a) \in Nat
        <5>1. net[a][b] \in Seq(Kinds)
          BY <1>0 DEF MeshTypes
        <5> QED
          BY <1>0, <5>1, PlaceFacts
      <4>2. /\ Sent(a, b) < 6 /\ Sent(a, b)' = Sent(a, b) + 1 /\ Sent(a, b) # 5
            /\ Stream[Sent(a, b) + 1] = "rank"
        BY <2>7, StreamFacts
      <4> QED
        BY <1>0, <2>2, <3>1, <3>2, <3>4, <3>7, <4>1, <4>2, PairSend
    <3> QED
      BY <3>4, <3>5, <3>6, <3>7
  <2>9. PairInv'
    BY <2>2, <2>4, <2>8, PairsAside
  <2>10. RankInv(a)'
    <3>1. LoopAt(a)' /\ CountAt(a)' /\ mapped'[a][a] = a
      <4>1. pc'[a] = "connect" /\ cur'[a] <= a /\ i'[a] = 0
        BY <1>0, <1>b, <2>0, <2>1
      <4>2. LoopAt(a)' /\ CountAt(a)'
        BY <4>1 DEF LoopAt, CountAt, Loops
      <4> QED
        BY <1>0, <2>0, <4>2 DEF RankInv
    <3>2. ~Misfiled(a)'
      BY <1>b, <2>1, <2>5, RanksFacts DEF Misfiled
    <3>3. KeyAt(a)'
      <4>1. \A k \in Ranks : k < a => (conns'[a][k] = None <=> k >= cur'[a])
        <5> SUFFICES ASSUME NEW k \in Ranks, k < a PROVE conns'[a][k] = None <=> k >= cur'[a]
          OBVIOUS
        <5>1. conns[a][k] = None <=> k >= cur[a]
          BY <1>0 DEF RankInv, KeyAt
        <5>2. CASE k = b
          BY <1>b, <2>1, <5>2, RanksFacts
        <5>3. CASE k # b
          <6>1. k \in Nat /\ (k >= b <=> k >= b + 1)
            BY <2>1, <5>3, RanksFacts
          <6> QED
            BY <1>b, <2>1, <5>1, <5>3, <6>1
        <5> QED
          BY <5>2, <5>3
      <4>2. /\ \A k \in Ranks : conns'[a][k] # None /\ conns'[a][k] # k => k = 0
            /\ conns'[a][a] # a
        BY <1>0, <1>b, <2>1 DEF RankInv, KeyAt
      <4> QED
        BY <1>0, <1>2, <3>2, <4>1, <4>2 DEF KeyAt
    <3>4. Known(a)' = {}
      BY <1>b, <2>1, <2>5 DEF Known
    <3>5. AcceptAt(a)'
      <4>1. AcceptAt(a) /\ backlog' = backlog /\ client' = client /\ pc' = pc
        BY <1>0, <1>2 DEF RankInv
      <4>2. /\ \A j \in 1..Len(backlog[a]) : backlog[a][j] \in Ranks
            /\ client[a] \in Ranks \cup {None}
        BY <1>0 DEF MeshTypes
      <4>3. \A c \in Ranks : Connected(c, a) => Connected(c, a)'
        BY <2>4 DEF Aside
      <4>4. \A j \in 1..Len(backlog'[a]) : Connected(backlog[a][j], a)'
        BY <4>1, <4>2, <4>3 DEF AcceptAt, Connected
      <4>5. client'[a] # None => Connected(client[a], a)'
        BY <4>1, <4>2, <4>3 DEF AcceptAt, Connected
      <4> QED
        BY <1>0, <3>2, <3>4, <4>1, <4>4, <4>5 DEF AcceptAt, Loops
    <3> QED
      BY <3>1, <3>3, <3>5 DEF RankInv
  <2> QED
    BY <1>2, <2>3, <2>4, <2>9, <2>10, IndInvIntro
<1> QED
  BY <1>b, <1>1, <1>2 DEF Identify

LEMMA ReadRankInv == ASSUME IndInv, NEW a \in Ranks, ReadRank(a) PROVE IndInv'
<1>0. /\ pc[a] = "accept" /\ i[a] = 1 /\ RankInv(a) /\ ~Gone(a) /\ MeshTypes
      /\ cur' = [cur EXCEPT ![a] = @ + 1] /\ i' = [i EXCEPT ![a] = 0]
      /\ client' = [client EXCEPT ![a] = None]
      /\ pc' = pc /\ attempts' = attempts /\ backlog' = backlog /\ mapped' = mapped
      /\ count' = count
  BY DEF ReadRank, IndInv, Gone, Ended
<1>c. PICK c \in Ranks : c = client[a]
  BY <1>0 DEF RankInv, LoopAt, MeshTypes
<1>1. /\ net[c][a] # <<>> \/ Gone(c)
      /\ conns' = [conns EXCEPT ![a][PeerRank(a, c)] = c]
      /\ net' = [net EXCEPT ![c][a] = IF @ = <<>> THEN @ ELSE Tail(@)]
  BY <1>c DEF ReadRank
<1>2. /\ a \in Nat /\ c \in Nat /\ c > a /\ c # 0 /\ c # a /\ c # None /\ 0 \in Ranks
      /\ Connected(c, a) /\ c \notin Known(a) /\ conns[a][c] = None
  <2>1. Connected(c, a) /\ c \notin Known(a) /\ c # None
    BY <1>0, <1>c, RanksFacts DEF RankInv, AcceptAt
  <2>2. a \in Nat /\ c \in Nat /\ c > a /\ c # 0 /\ c # a
    BY <2>1, RanksFacts DEF Connected
  <2>3. conns[a][c] # c
    BY <2>1, <2>2 DEF Known
  <2> QED
    BY <1>0, <2>1, <2>2, <2>3, RanksFacts DEF RankInv, KeyAt
<1>3. /\ cur'[a] = cur[a] + 1 /\ i'[a] = 0 /\ client'[a] = None /\ cur[a] < Higher(a)
      /\ cur[a] \in Nat /\ Higher(a) \in Int /\ Higher(a) < N
      /\ \A r \in Ranks \ {a} : cur'[r] = cur[r] /\ i'[r] = i[r] /\ client'[r] = client[r]
  <2>1. cur[a] < Higher(a)
    BY <1>0 DEF RankInv, LoopAt
  <2>2. cur[a] \in Nat /\ Higher(a) \in Int /\ Higher(a) < N
    BY <1>0, RanksFacts DEF MeshTypes, Higher
  <2> QED
    BY <1>0, <2>1, <2>2 DEF MeshTypes
<1>k. PICK k \in Ranks : k = PeerRank(a, c) /\ k = (IF net[c][a] = <<>> THEN 0 ELSE c)
  BY <1>2 DEF PeerRank
<1>4. /\ conns'[a][k] = c /\ \A q \in Ranks \ {k} : conns'[a][q] = conns[a][q]
      /\ \A r \in Ranks \ {a} : conns'[r] = conns[r]
  BY <1>0, <1>1, <1>k DEF MeshTypes
<1>5. /\ net'[c][a] = (IF net[c][a] = <<>> THEN <<>> ELSE Tail(net[c][a]))
      /\ \A x, r \in Ranks : x # c \/ r # a => net'[x][r] = net[x][r]
  BY <1>0, <1>1 DEF MeshTypes
<1>6. MeshTypes'
  <2>1. net' \in [Ranks -> [Ranks -> Seq(Kinds)]]
    <3>1. net \in [Ranks -> [Ranks -> Seq(Kinds)]]
      BY <1>0 DEF MeshTypes
    <3>2. net[c][a] \in Seq(Kinds)
      BY <3>1
    <3>3. net[c][a] # <<>> => Tail(net[c][a]) \in Seq(Kinds)
      BY <3>2
    <3> QED
      BY <1>1, <3>1, <3>2, <3>3
  <2>2. conns' \in [Ranks -> [Ranks -> Ranks \cup {None}]]
    BY <1>0, <1>1, <1>k DEF MeshTypes
  <2>3. cur' \in [Ranks -> 0..N]
    <3>1. cur[a] + 1 \in 0..N
      BY <1>3, RanksFacts
    <3> QED
      BY <1>0, <3>1 DEF MeshTypes
  <2>4. i' \in [Ranks -> 0..4] /\ client' \in [Ranks -> Ranks \cup {None}]
    <3>1. i \in [Ranks -> 0..4] /\ client \in [Ranks -> Ranks \cup {None}]
      BY <1>0 DEF MeshTypes
    <3> QED
      BY <1>0, <3>1
  <2> QED
    BY <1>0, <2>1, <2>2, <2>3, <2>4 DEF MeshTypes
<1>7. Aside(a)
  <2>1. cur'[a] \in Int
    BY <1>3
  <2>2. \A x \in Ranks \ {a} : \A r \in Ranks : net[x][r] = <<>> => net'[x][r] = <<>>
    BY <1>5
  <2> QED
    BY <1>0, <1>3, <1>4, <2>1, <2>2, AsideIntro
<1>8. /\ \A p \in Ranks : p # k => Rcvd(a, p)' = Rcvd(a, p) /\ Sent(a, p)' = Sent(a, p)
      /\ Offset(a) = 1 /\ Offset(a)' = 1 /\ pc[a] \notin Loops /\ pc'[a] \notin Loops
  <2>1. Offset(a) = 1 /\ Offset(a)' = 1 /\ pc[a] \notin Loops /\ pc'[a] \notin Loops
    BY <1>0 DEF Offset, SetUp, Loops
  <2> QED
    BY <1>4, <2>1 DEF Rcvd, Sent, Place
<1>9. /\ \A q \in Ranks : q < a => conns[a][q] # None
      /\ \A q \in Ranks : conns[a][q] # None /\ conns[a][q] # q => q = 0
      /\ conns[a][a] # a
  BY <1>0, RanksFacts DEF RankInv, KeyAt
<1>10. LoopAt(a)' /\ CountAt(a)' /\ mapped'[a][a] = a
  <2>1. pc'[a] = "accept" /\ cur'[a] <= Higher(a) /\ i'[a] = 0
    BY <1>0, <1>3
  <2>2. LoopAt(a)' /\ CountAt(a)'
    BY <2>1 DEF LoopAt, CountAt, Loops, Higher
  <2> QED
    BY <1>0, <2>2 DEF RankInv
<1>11. /\ \A c1 \in Ranks : Connected(c1, a) => Connected(c1, a)'
       /\ AcceptAt(a) /\ KeyAt(a) /\ Known(a) \subseteq Ranks
       /\ \A j \in 1..Len(backlog[a]) : backlog[a][j] \in Ranks
  <2>1. \A c1 \in Ranks : Connected(c1, a) => Connected(c1, a)'
    BY <1>7 DEF Aside
  <2>2. AcceptAt(a) /\ KeyAt(a)
    BY <1>0 DEF RankInv
  <2>3. Known(a) \subseteq Ranks
    BY DEF Known
  <2>4. backlog[a] \in Seq(Ranks)
    BY <1>0 DEF MeshTypes
  <2> QED
    BY <2>1, <2>2, <2>3, <2>4
<1>12. \A j \in 1..Len(backlog'[a]) : Connected(backlog[a][j], a)'
  BY <1>0, <1>11 DEF AcceptAt, Connected
<1>13. CASE net[c][a] # <<>>
  <2>1. /\ k = c /\ net'[c][a] = Tail(net[c][a])
    BY <1>k, <1>5, <1>13
  <2>2. /\ Rcvd(a, c) = 0 /\ Rcvd(a, c)' = 1 /\ Sent(a, c) = 1 /\ Sent(a, c)' = 1
    BY <1>2, <1>4, <1>8, <2>1 DEF Rcvd, Sent, Place
  <2>3. ASSUME NEW p \in Ranks \ {a} PROVE Pair(a, p)' /\ Pair(p, a)'
    <3>1. Pair(a, p) /\ Pair(p, a)
      BY DEF IndInv, PairInv
    <3>2. /\ Rcvd(p, a)' = Rcvd(p, a) /\ Sent(p, a)' = Sent(p, a) /\ (Gone(p)' <=> Gone(p))
      BY <1>7, OtherRanks
    <3>3. (Gone(a) => Gone(a)') /\ Sent(a, p)' = Sent(a, p) /\ net'[a][p] = net[a][p]
      BY <1>2, <1>5, <1>7, <1>8, <2>1, <2>2 DEF Aside
    <3>4. Pair(p, a)'
      BY <1>0, <3>1, <3>2, <3>3, PairKept
    <3>5. CASE p # c
      BY <1>0, <1>5, <1>8, <2>1, <3>1, <3>2, <3>3, <3>4, <3>5, PairKept
    <3>6. CASE p = c
      <4>1. net[c][a] \in Seq(Kinds)
        BY <1>0 DEF MeshTypes
      <4>2. Rcvd(a, c) \in Nat /\ Rcvd(a, c)' = Rcvd(a, c) + 1 /\ Rcvd(a, c) # 4
        BY <2>2
      <4>3. Pair(a, c)'
        BY <1>0, <1>13, <2>1, <3>1, <3>2, <3>6, <4>1, <4>2, PairRecv
      <4> QED
        BY <3>4, <3>6, <4>3
    <3> QED
      BY <3>5, <3>6
  <2>4. PairInv'
    <3>1. \A r, p \in Ranks \ {a} : net'[p][r] = net[p][r]
      BY <1>5
    <3> QED
      BY <1>7, <2>3, <3>1, PairsAside
  <2>5. /\ Misfiled(a)' <=> Misfiled(a)
        /\ conns'[a][0] = conns[a][0]
    BY <1>2, <1>4, <2>1 DEF Misfiled
  <2>6. KeyAt(a)'
    <3>1. Misfiled(a) => /\ conns[a][0] \in Ranks /\ Gone(conns[a][0])
                         /\ net[conns[a][0]][a] = <<>>
      BY <1>0, <1>2, <1>11 DEF KeyAt, Misfiled, MeshTypes
    <3>2. Misfiled(a) => Gone(conns[a][0])' /\ net'[conns[a][0]][a] = <<>>
      BY <1>7, <2>5, <3>1 DEF Aside, Gone
    <3> QED
      BY <1>0, <1>2, <1>4, <1>9, <2>1, <2>5, <3>2, RanksFacts DEF KeyAt
  <2>7. Known(a)' = Known(a) \cup {c}
    BY <1>2, <1>4, <2>1 DEF Known
  <2>8. AcceptAt(a)'
    <3>1. Connected(c, a)' /\ \A p \in Known(a)' : Connected(p, a)'
      BY <1>2, <1>11, <2>7 DEF AcceptAt
    <3>2. \A j \in 1..Len(backlog'[a]) :
             backlog'[a][j] \notin Known(a)' /\ backlog'[a][j] # client'[a]
      BY <1>0, <1>c, <1>3, <1>11, <2>7, RanksFacts DEF AcceptAt
    <3>3. ~Misfiled(a) => Cardinality(Known(a)') = cur'[a]
      <4>1. IsFiniteSet(Known(a))
        <5>1. IsFiniteSet(Ranks)
          BY MeshAssumption, FS_Interval DEF Ranks
        <5> QED
          BY <1>11, <5>1, FS_Subset
      <4>2. Cardinality(Known(a) \cup {c}) = Cardinality(Known(a)) + 1
        BY <1>2, <4>1, FS_AddElement
      <4> QED
        BY <1>0, <1>3, <1>11, <2>7, <4>2 DEF AcceptAt
    <3>4. /\ pc'[a] = "accept" /\ client'[a] = None /\ backlog'[a] = backlog[a]
          /\ \A j, l \in 1..Len(backlog[a]) : j # l => backlog[a][j] # backlog[a][l]
      BY <1>0, <1>3, <1>11 DEF AcceptAt
    <3> QED
      BY <1>12, <2>5, <3>1, <3>2, <3>3, <3>4 DEF AcceptAt, Loops
  <2>9. RankInv(a)'
    BY <1>10, <2>6, <2>8 DEF RankInv
  <2> QED
    BY <1>0, <1>6, <1>7, <2>4, <2>9, IndInvIntro
<1>14. CASE net[c][a] = <<>>
  <2>1. k = 0 /\ Gone(c) /\ \A x, r \in Ranks : net'[x][r] = net[x][r]
    BY <1>k, <1>1, <1>5, <1>14
  <2>2. a # 0 => Rcvd(a, 0)' = Rcvd(a, 0) /\ Sent(a, 0)' = Sent(a, 0)
    <3> SUFFICES ASSUME a # 0 PROVE Rcvd(a, 0)' = Rcvd(a, 0) /\ Sent(a, 0)' = Sent(a, 0)
      OBVIOUS
    <3>1. 0 < a /\ conns[a][0] # None
      BY <1>2, <1>9
    <3> QED
      BY <1>2, <1>4, <1>8, <2>1, <3>1 DEF Rcvd, Sent, Place
  <2>3. \A p \in Ranks \ {a} : Rcvd(a, p)' = Rcvd(a, p) /\ Sent(a, p)' = Sent(a, p)
    BY <1>8, <2>1, <2>2
  <2>4. PairInv'
    <3>1. net' = net
      <4>1. net \in [Ranks -> [Ranks -> Seq(Kinds)]] /\ net' = [net EXCEPT ![c][a] = net[c][a]]
        BY <1>0, <1>1, <1>14 DEF MeshTypes
      <4> QED
        BY <4>1
    <3> QED
      BY <1>0, <1>7, <2>3, <3>1, QuietStep
  <2>5. Misfiled(a)' /\ conns'[a][0] = c
    BY <1>2, <1>4, <2>1 DEF Misfiled
  <2>6. KeyAt(a)'
    <3>1. Gone(c)' /\ net'[c][a] = <<>>
      BY <1>7, <1>14, <2>1 DEF Aside
    <3>2. Gone(conns[a][0])' /\ net'[conns'[a][0]][a] = <<>>
      BY <2>5, <3>1 DEF Gone
    <3>3. conns'[a][a] # a
      BY <1>2, <1>4, <1>9, <2>1
    <3>4. \A q \in Ranks : conns'[a][q] # None /\ conns'[a][q] # q => q = 0
      BY <1>4, <1>9, <2>1
    <3>5. \A q \in Ranks : q < a => conns'[a][q] # None
      BY <1>2, <1>4, <1>9, <2>1
    <3>6. pc'[a] = "accept"
      BY <1>0
    <3> QED
      BY <3>2, <3>3, <3>4, <3>5, <3>6 DEF KeyAt
  <2>7. Known(a)' = Known(a)
    <3>1. \A p \in Ranks : p > a => p # 0
      BY <1>2, RanksFacts
    <3> QED
      BY <1>4, <2>1, <3>1 DEF Known
  <2>8. AcceptAt(a)'
    <3>1. \A p \in Known(a)' : Connected(p, a)'
      BY <1>11, <2>7 DEF AcceptAt
    <3>3. /\ pc'[a] = "accept" /\ client'[a] = None /\ backlog'[a] = backlog[a]
          /\ \A j, l \in 1..Len(backlog[a]) : j # l => backlog[a][j] # backlog[a][l]
          /\ \A j \in 1..Len(backlog[a]) : backlog[a][j] \notin Known(a)
      BY <1>0, <1>3, <1>11 DEF AcceptAt
    <3>2. \A j \in 1..Len(backlog'[a]) :
             backlog'[a][j] \notin Known(a)' /\ backlog'[a][j] # client'[a]
      BY <1>11, <2>7, <3>3, RanksFacts
    <3> QED
      BY <1>12, <2>5, <3>1, <3>2, <3>3 DEF AcceptAt, Loops
  <2>9. RankInv(a)'
    BY <1>10, <2>6, <2>8 DEF RankInv
  <2> QED
    BY <1>0, <1>6, <1>7, <2>4, <2>9, IndInvIntro
<1> QED
  BY <1>13, <1>14

-----------------------------------------------------------------------------
(* establishPeerAccess: an exchange with one peer.                         *)

\* The process at the end of the socket in use is the peer the loop is at,
\* or one that died before it sent its rank.
LEMMA PeerFacts ==
    ASSUME IndInv, NEW a \in Ranks, Exchanging(a)
    PROVE  /\ cur[a] \in Ranks /\ pc[a] \in Loops /\ ~Gone(a)
           /\ Peer(a) \in Ranks /\ Peer(a) # a
           /\ Peer(a) # cur[a] => Misfiled(a) /\ Gone(Peer(a)) /\ net[Peer(a)][a] = <<>>
           /\ Misfiled(a) /\ pc[a] # "base" =>
                 pc[a] = "barrier1" /\ Gone(Peer(a)) /\ net[Peer(a)][a] = <<>>
<1>1. MeshTypes /\ LoopAt(a) /\ KeyAt(a)
  BY DEF IndInv, RankInv
<1>2. pc[a] \in Loops /\ cur[a] < N
  BY PhaseFacts DEF Exchanging
<1>3. ~Gone(a)
  BY <1>2 DEF Gone, Loops, Ended
<1>4. cur[a] \in Ranks
  BY <1>1, <1>2, CurFacts DEF MeshTypes
<1>5. Peer(a) # None /\ Peer(a) \in Ranks \cup {None}
  BY <1>1, <1>2, <1>4 DEF LoopAt, MeshTypes, Peer
<1>6. Peer(a) # cur[a] => cur[a] = 0 /\ Misfiled(a)
  BY <1>1, <1>4, <1>5 DEF KeyAt, Peer, Misfiled
<1>7. Misfiled(a) => /\ Gone(conns[a][0]) /\ net[conns[a][0]][a] = <<>>
                     /\ pc[a] = "base" \/ (pc[a] = "barrier1" /\ cur[a] = 0)
  BY <1>1, <1>2, <1>3 DEF KeyAt, Loops
<1>8. Peer(a) # a
  BY <1>1, <1>3, <1>6, <1>7 DEF KeyAt, Peer
<1> QED
  BY <1>2, <1>3, <1>4, <1>5, <1>6, <1>7, <1>8 DEF Peer

\* Rank a takes one step of the exchange with its peer.
Exchanges(a) ==
    /\ Exchanging(a) /\ Advance(a)
    /\ pc' = pc /\ cur' = cur /\ attempts' = attempts /\ backlog' = backlog
    /\ client' = client /\ conns' = conns
    /\ net' \in [Ranks -> [Ranks -> Seq(Kinds)]] /\ count' \in [Ranks -> {0, 1}]
    /\ mapped' \in [Ranks -> [Ranks -> Ranks \cup {None}]]
    /\ \A r \in Ranks \ {a} : count'[r] = count[r] /\ mapped'[r] = mapped[r]
    /\ \A k \in Ranks : mapped[a][k] = k => mapped'[a][k] = k
    /\ \A x, r \in Ranks : net'[x][r] = net[x][r] \/ (x = a /\ r = Peer(a))
                                                  \/ (x = Peer(a) /\ r = a)
    /\ net[Peer(a)][a] = <<>> => net'[Peer(a)][a] = <<>>
    /\ Peer(a) # cur[a] => net' = net
    /\ Misfiled(a) => pc[a] = "base"
    /\ CountAt(a)'

LEMMA ExchangeFacts ==
    ASSUME IndInv, NEW a \in Ranks, Exchanges(a)
    PROVE  /\ MeshTypes' /\ Aside(a) /\ RankInv(a)'
           /\ \A p \in Ranks : p # cur[a] \/ conns[a][p] # p =>
                 Rcvd(a, p)' = Rcvd(a, p) /\ Sent(a, p)' = Sent(a, p)
           /\ \A b \in Ranks : b = cur[a] /\ conns[a][b] = b =>
                 /\ Rcvd(a, b) = Offset(a) + GotHere(a) /\ Sent(a, b) = Offset(a) + SentHere(a)
                 /\ Rcvd(a, b)' = Offset(a) + GotHere(a)' /\ Sent(a, b)' = Offset(a) + SentHere(a)'
<1>0. /\ Exchanging(a) /\ Advance(a) /\ pc' = pc /\ cur' = cur /\ attempts' = attempts
      /\ backlog' = backlog /\ client' = client /\ conns' = conns
  BY DEF Exchanges
<1>1. MeshTypes /\ RankInv(a)
  BY DEF IndInv
<1>2. cur[a] \in Ranks /\ pc[a] \in Loops /\ ~Gone(a) /\ Peer(a) \in Ranks /\ Peer(a) # a
  BY <1>0, PeerFacts
<1>3. /\ Offset(a)' = Offset(a) /\ i'[a] = i[a] + 1 /\ i'[a] \in 0..4 /\ i'[a] <= Steps(a)
  BY <1>0, <1>1, AdvanceFacts
<1>4. i' \in [Ranks -> 0..4] /\ \A r \in Ranks \ {a} : i'[r] = i[r]
  <2>1. i \in [Ranks -> 0..4] /\ i' = [i EXCEPT ![a] = @ + 1]
    BY <1>0, <1>1 DEF MeshTypes, Advance
  <2> QED
    BY <1>3, <2>1
<1>5. MeshTypes'
  BY <1>0, <1>1, <1>4 DEF MeshTypes, Exchanges
<1>6. Aside(a)
  <2>1. cur[a] \in Int
    BY <1>1, CurFacts DEF MeshTypes
  <2>2. \A x \in Ranks \ {a} : \A r \in Ranks : net[x][r] = <<>> => net'[x][r] = <<>>
    BY DEF Exchanges
  <2>3. pc[a] # "connect" /\ pc[a] # "start"
    BY <1>2 DEF Loops
  <2>4. \A r \in Ranks \ {a} : count'[r] = count[r] /\ mapped'[r] = mapped[r]
    BY DEF Exchanges
  <2> QED
    BY <1>0, <1>1, <1>2, <1>4, <2>1, <2>2, <2>3, <2>4, AsideIntro
<1>7. RankInv(a)'
  <2>1. LoopAt(a)'
    <3>1. Steps(a)' = Steps(a) /\ cur[a] < N /\ cur[a] # N
      BY <1>0, <1>2, RanksFacts DEF Steps
    <3> QED
      BY <1>0, <1>1, <1>2, <1>3, <3>1 DEF LoopAt, RankInv, Loops
  <2>2. KeyAt(a)'
    <3>1. Misfiled(a) => pc[a] = "base"
      BY DEF Exchanges
    <3> QED
      BY <1>0, <1>1, <1>2, <1>6, <3>1, SameSockets DEF KeyAt, RankInv, Gone
  <2>3. AcceptAt(a)'
    BY <1>0, <1>1, <1>2, <1>6, SameSockets DEF AcceptAt, RankInv, Loops
  <2>4. CountAt(a)' /\ mapped'[a][a] = a
    BY <1>1 DEF Exchanges, RankInv
  <2> QED
    BY <2>1, <2>2, <2>3, <2>4 DEF RankInv
<1>8. \A p \in Ranks : p # cur[a] \/ conns[a][p] # p =>
         Rcvd(a, p)' = Rcvd(a, p) /\ Sent(a, p)' = Sent(a, p)
  <2>1. Width(a)' = Width(a)
    BY <1>0 DEF Width, Steps
  <2> QED
    BY <1>0, <1>3, <2>1 DEF Rcvd, Sent, Place
<1>9. ASSUME NEW b \in Ranks, b = cur[a], conns[a][b] = b
      PROVE  /\ Rcvd(a, b) = Offset(a) + GotHere(a) /\ Sent(a, b) = Offset(a) + SentHere(a)
             /\ Rcvd(a, b)' = Offset(a) + GotHere(a)' /\ Sent(a, b)' = Offset(a) + SentHere(a)'
  <2>1. ~(b < cur[a]) /\ pc'[a] \in Loops
    BY <1>0, <1>2, <1>9, RanksFacts
  <2> QED
    BY <1>0, <1>2, <1>3, <1>9, <2>1 DEF Rcvd, Sent, Place
<1> QED
  BY <1>5, <1>6, <1>7, <1>8, <1>9

LEMMA ExchangeInv ==
    ASSUME IndInv, NEW a \in Ranks, Exchanges(a),
           \A b \in Ranks : b = cur[a] /\ conns[a][b] = b => Pair(a, b)' /\ Pair(b, a)'
    PROVE  IndInv'
<1>1. MeshTypes' /\ Aside(a) /\ RankInv(a)'
  BY ExchangeFacts
<1>2. /\ \A p \in Ranks : p # cur[a] \/ conns[a][p] # p =>
            Rcvd(a, p)' = Rcvd(a, p) /\ Sent(a, p)' = Sent(a, p)
  BY ExchangeFacts
<1>3. /\ Exchanging(a) /\ backlog' = backlog
      /\ \A k \in Ranks : mapped[a][k] = k => mapped'[a][k] = k
      /\ \A x, r \in Ranks : net'[x][r] = net[x][r] \/ (x = a /\ r = Peer(a))
                                                    \/ (x = Peer(a) /\ r = a)
      /\ Peer(a) # cur[a] => net' = net
  BY DEF Exchanges
<1>4. cur[a] \in Ranks /\ Peer(a) = conns[a][cur[a]] /\ Peer(a) # a
  BY <1>3, PeerFacts DEF Peer
<1>5. CASE Peer(a) # cur[a]
  <2>1. \A p \in Ranks \ {a} : Rcvd(a, p)' = Rcvd(a, p) /\ Sent(a, p)' = Sent(a, p)
    BY <1>2, <1>4, <1>5
  <2>2. PairInv'
    BY <1>1, <1>3, <1>5, <2>1, QuietStep
  <2> QED
    BY <1>1, <1>3, <2>2, IndInvIntro
<1>6. CASE Peer(a) = cur[a]
  <2>1. ASSUME NEW p \in Ranks \ {a} PROVE Pair(a, p)' /\ Pair(p, a)'
    <3>1. CASE p = cur[a]
      BY <1>4, <1>6, <3>1
    <3>2. CASE p # cur[a]
      <4>1. Pair(a, p) /\ Pair(p, a)
        BY DEF IndInv, PairInv
      <4>2. Rcvd(a, p)' = Rcvd(a, p) /\ Sent(a, p)' = Sent(a, p)
        BY <1>2, <3>2
      <4>3. Rcvd(p, a)' = Rcvd(p, a) /\ Sent(p, a)' = Sent(p, a)
        BY <1>1, OtherRanks
      <4>4. (Gone(a) => Gone(a)') /\ (Gone(p) => Gone(p)') /\ mapped'[p] = mapped[p]
        BY <1>1 DEF Aside
      <4>5. net'[a][p] = net[a][p] /\ net'[p][a] = net[p][a]
        BY <1>3, <1>4, <1>6, <3>2
      <4> QED
        BY <1>3, <4>1, <4>2, <4>3, <4>4, <4>5, PairKept
    <3> QED
      BY <3>1, <3>2
  <2>2. \A r, p \in Ranks \ {a} : net'[p][r] = net[p][r]
    BY <1>3
  <2>3. PairInv'
    BY <1>1, <2>1, <2>2, PairsAside
  <2> QED
    BY <1>1, <1>3, <2>3, IndInvIntro
<1> QED
  BY <1>5, <1>6

\* The two ends of the socket in use, before and after the step.
LEMMA ExchangeEnds ==
    ASSUME IndInv, NEW a \in Ranks, Exchanges(a), NEW b \in Ranks, b = cur[a], conns[a][b] = b
    PROVE  /\ Pair(a, b) /\ Pair(b, a) /\ a # b /\ Peer(a) = b
           /\ ~Gone(a) /\ ~Gone(a)' /\ (Gone(b)' <=> Gone(b))
           /\ Rcvd(b, a)' = Rcvd(b, a) /\ Sent(b, a)' = Sent(b, a) /\ Rcvd(b, a) \in Nat
           /\ mapped'[b] = mapped[b] /\ (mapped[a][b] = b => mapped'[a][b] = b)
           /\ net[a][b] \in Seq(Kinds) /\ net[b][a] \in Seq(Kinds)
           /\ Rcvd(a, b) \in Nat /\ Sent(a, b) \in Nat /\ Rcvd(a, b)' <= 6 /\ Sent(a, b)' <= 6
           /\ Sends(a) => /\ Sent(a, b)' = Sent(a, b) + 1 /\ Rcvd(a, b)' = Rcvd(a, b)
                          /\ Kind(a) = Stream[Sent(a, b) + 1]
           /\ ~Sends(a) => /\ Rcvd(a, b)' = Rcvd(a, b) + 1 /\ Sent(a, b)' = Sent(a, b)
                           /\ Kind(a) = Stream[Rcvd(a, b) + 1]
<1>0. /\ Exchanging(a) /\ Advance(a) /\ pc' = pc /\ cur' = cur /\ conns' = conns
      /\ mapped[a][b] = b => mapped'[a][b] = b
  BY DEF Exchanges
<1>1. MeshTypes /\ Aside(a)
  BY ExchangeFacts DEF IndInv
<1>2. ~Gone(a) /\ a # b /\ Peer(a) = b
  BY <1>0, PeerFacts DEF Peer
<1>3. Pair(a, b) /\ Pair(b, a)
  BY <1>2 DEF IndInv, PairInv
<1>4. ~Gone(a)'
  BY <1>0, <1>2 DEF Gone
<1>5. Rcvd(b, a)' = Rcvd(b, a) /\ Sent(b, a)' = Sent(b, a) /\ (Gone(b)' <=> Gone(b))
  BY <1>1, <1>2, OtherRanks
<1>6. mapped'[b] = mapped[b]
  BY <1>1, <1>2 DEF Aside
<1>7. net[a][b] \in Seq(Kinds) /\ net[b][a] \in Seq(Kinds)
  BY <1>1 DEF MeshTypes
<1>8. Rcvd(a, b) \in Nat /\ Sent(a, b) \in Nat /\ Rcvd(b, a) \in Nat
  BY <1>1, PlaceFacts
<1>9. /\ Sends(a) => /\ SentHere(a)' = SentHere(a) + 1 /\ GotHere(a)' = GotHere(a)
                     /\ Kind(a) = Stream[Offset(a) + SentHere(a) + 1]
      /\ ~Sends(a) => /\ GotHere(a)' = GotHere(a) + 1 /\ SentHere(a)' = SentHere(a)
                      /\ Kind(a) = Stream[Offset(a) + GotHere(a) + 1]
      /\ Offset(a) + SentHere(a)' <= 6 /\ Offset(a) + GotHere(a)' <= 6
  BY <1>0, <1>1, AdvanceFacts
<1>10. Offset(a) \in Nat /\ GotHere(a) \in Nat /\ SentHere(a) \in Nat
  BY <1>1, PlaceFacts
<1>11. /\ Rcvd(a, b) = Offset(a) + GotHere(a) /\ Sent(a, b) = Offset(a) + SentHere(a)
       /\ Rcvd(a, b)' = Offset(a) + GotHere(a)' /\ Sent(a, b)' = Offset(a) + SentHere(a)'
  BY ExchangeFacts
<1>12. /\ Rcvd(a, b)' <= 6 /\ Sent(a, b)' <= 6
       /\ Sends(a) => /\ Sent(a, b)' = Sent(a, b) + 1 /\ Rcvd(a, b)' = Rcvd(a, b)
                      /\ Kind(a) = Stream[Sent(a, b) + 1]
       /\ ~Sends(a) => /\ Rcvd(a, b)' = Rcvd(a, b) + 1 /\ Sent(a, b)' = Sent(a, b)
                       /\ Kind(a) = Stream[Rcvd(a, b) + 1]
  BY <1>9, <1>10, <1>11
<1> QED
  BY <1>0, <1>2, <1>3, <1>4, <1>5, <1>6, <1>7, <1>8, <1>12

\* The kinds of message say where in Stream an exchange is.
LEMMA KindFacts ==
    ASSUME MeshTypes, NEW a \in Ranks, pc[a] \in Loops
    PROVE  /\ Kind(a) \in Kinds \ {"rank"}
           /\ Kind(a) = "record" => pc[a] = "records" /\ i[a] >= 2
           /\ Kind(a) = "token" => Checked(a) /\ pc[a] # "records"
           /\ pc[a] = "records" => Kind(a) \in {"count", "record"}
           /\ Checked(a) => Kind(a) = "token"
<1>1. i[a] \in 0..4
  BY DEF MeshTypes
<1>2. /\ pc[a] = "base" => Kind(a) = "base"
      /\ pc[a] \in {"barrier1", "barrier2"} => Kind(a) = "token"
      /\ pc[a] = "records" => Kind(a) = (IF i[a] < 2 THEN "count" ELSE "record")
  BY DEF Kind
<1> QED
  BY <1>1, <1>2 DEF Checked, Loops, Kinds

\* A step that stores nothing, and sends nothing.
LEMMA MissedStep ==
    ASSUME IndInv, NEW a \in Ranks, Exchanging(a), Advance(a), Misfiled(a) => pc[a] = "base",
           UNCHANGED <<pc, cur, attempts, backlog, client, conns, net, mapped, count>>,
           CountAt(a)'
    PROVE  Exchanges(a)
<1>1. MeshTypes
  BY DEF IndInv
<1>2. /\ net' \in [Ranks -> [Ranks -> Seq(Kinds)]] /\ count' \in [Ranks -> {0, 1}]
      /\ mapped' \in [Ranks -> [Ranks -> Ranks \cup {None}]]
  BY <1>1 DEF MeshTypes
<1> QED
  BY <1>2 DEF Exchanges

LEMMA SendInv == ASSUME IndInv, NEW a \in Ranks, Send(a) PROVE IndInv'
<1>0. Exchanging(a) /\ Sends(a) /\ MeshTypes /\ RankInv(a)
  BY DEF Send, IndInv
<1>1. /\ cur[a] \in Ranks /\ pc[a] \in Loops /\ ~Gone(a) /\ Peer(a) \in Ranks /\ Peer(a) # a
      /\ Peer(a) # cur[a] => Misfiled(a) /\ Gone(Peer(a)) /\ net[Peer(a)][a] = <<>>
      /\ Misfiled(a) /\ pc[a] # "base" => pc[a] = "barrier1" /\ Gone(Peer(a))
  BY <1>0, PeerFacts
<1>2. CASE Die(a, "dead")
  BY <1>1, <1>2, DieInv DEF Ended
<1>3. CASE /\ Gone(Peer(a)) /\ ~Checked(a) /\ Advance(a)
           /\ UNCHANGED <<pc, cur, attempts, backlog, client, conns, net, mapped, count>>
  <2>1. Misfiled(a) => pc[a] = "base"
    BY <1>1, <1>3 DEF Checked
  <2>2. GotHere(a)' = GotHere(a)
    BY <1>0, <1>3, AdvanceFacts
  <2>3. CountAt(a)'
    BY <1>0, <1>3, <2>2 DEF CountAt, RankInv, Gone
  <2>4. Exchanges(a)
    BY <1>0, <1>3, <2>1, <2>3, MissedStep
  <2>5. ASSUME NEW b \in Ranks, b = cur[a], conns[a][b] = b PROVE Pair(a, b)' /\ Pair(b, a)'
    <3>1. /\ Pair(a, b) /\ Pair(b, a) /\ Peer(a) = b /\ (Gone(b)' <=> Gone(b))
          /\ Sent(b, a)' = Sent(b, a) /\ Rcvd(a, b)' = Rcvd(a, b)
          /\ ~Gone(a)
      BY <1>0, <2>4, <2>5, ExchangeEnds
    <3>2. Pair(a, b)'
      BY <1>3, <3>1, PairKept
    <3>3. Pair(b, a)'
      BY <1>3, <3>1 DEF Pair
    <3> QED
      BY <3>2, <3>3
  <2> QED
    BY <2>4, <2>5, ExchangeInv
<1>4. CASE /\ ~Gone(Peer(a)) /\ Advance(a)
           /\ net' = [net EXCEPT ![a][Peer(a)] = Append(@, Kind(a))]
           /\ UNCHANGED <<pc, cur, attempts, backlog, client, conns, mapped, count>>
  <2>1. PICK b \in Ranks : b = cur[a] /\ conns[a][b] = b /\ Peer(a) = b /\ ~Gone(b) /\ b # a
    BY <1>1, <1>4 DEF Peer
  <2>2. /\ net'[a][b] = Append(net[a][b], Kind(a))
        /\ \A x, r \in Ranks : x # a \/ r # b => net'[x][r] = net[x][r]
    BY <1>0, <1>4, <2>1 DEF MeshTypes
  <2>3. Misfiled(a) => pc[a] = "base"
    BY <1>1, <1>4
  <2>4. GotHere(a)' = GotHere(a)
    BY <1>0, <1>4, AdvanceFacts
  <2>5. CountAt(a)'
    BY <1>0, <1>4, <2>1, <2>2, <2>4 DEF CountAt, RankInv, Gone
  <2>6. Exchanges(a)
    <3>1. /\ net \in [Ranks -> [Ranks -> Seq(Kinds)]] /\ count' \in [Ranks -> {0, 1}]
          /\ mapped' \in [Ranks -> [Ranks -> Ranks \cup {None}]] /\ Kind(a) \in Kinds
      BY <1>0, <1>1, <1>4, KindFacts DEF MeshTypes
    <3>2. net[a][b] \in Seq(Kinds) /\ Append(net[a][b], Kind(a)) \in Seq(Kinds)
      BY <3>1
    <3>3. net' \in [Ranks -> [Ranks -> Seq(Kinds)]]
      BY <1>4, <2>1, <3>1, <3>2
    <3>4. /\ \A x, r \in Ranks : net'[x][r] = net[x][r] \/ (x = a /\ r = Peer(a))
                                                        \/ (x = Peer(a) /\ r = a)
          /\ net[Peer(a)][a] = <<>> => net'[Peer(a)][a] = <<>>
      BY <2>1, <2>2
    <3> QED
      BY <1>0, <1>4, <2>1, <2>3, <2>5, <3>1, <3>3, <3>4 DEF Exchanges
  <2>7. /\ Pair(a, b) /\ Pair(b, a) /\ ~Gone(a) /\ ~Gone(a)' /\ (Gone(b)' <=> Gone(b))
        /\ Rcvd(b, a)' = Rcvd(b, a) /\ Sent(b, a)' = Sent(b, a) /\ Rcvd(b, a) \in Nat
        /\ net[a][b] \in Seq(Kinds) /\ Sent(a, b) \in Nat /\ Sent(a, b)' <= 6
        /\ Sent(a, b)' = Sent(a, b) + 1 /\ Rcvd(a, b)' = Rcvd(a, b)
        /\ Kind(a) = Stream[Sent(a, b) + 1] /\ mapped' = mapped
    BY <1>0, <1>4, <2>1, <2>6, ExchangeEnds
  <2>8. Sent(a, b) = 5 => mapped[a][b] = b
    <3> SUFFICES ASSUME Sent(a, b) = 5 PROVE mapped[a][b] = b
      OBVIOUS
    <3>1. Kind(a) = "token"
      BY <2>7, StreamFacts
    <3>2. pc[a] \in {"barrier1", "barrier2"}
      BY <1>0, <1>1, <3>1, KindFacts DEF Checked
    <3>3. Sent(a, b) = Offset(a) + SentHere(a) /\ Rcvd(a, b) = Offset(a) + GotHere(a)
      BY <2>1, <2>6, ExchangeFacts
    <3>4. Offset(a) \in 1..6 /\ SentHere(a) \in 0..2 /\ GotHere(a) \in 0..2
      BY <1>0, PlaceFacts
    <3>5. Offset(a) = 5
      BY <3>2, <3>3, <3>4 DEF Offset, SetUp
    <3>6. Rcvd(a, b) >= 5
      BY <3>3, <3>4, <3>5
    <3> QED
      BY <2>1, <2>7, <3>6 DEF Pair
  <2>9. Pair(a, b)'
    BY <2>1, <2>2, <2>7, PairKept
  <2>10. Pair(b, a)'
    <3>1. Sent(a, b) < 6
      BY <2>7
    <3> QED
      BY <2>1, <2>2, <2>7, <2>8, <3>1, PairSend
  <2> QED
    BY <2>1, <2>6, <2>9, <2>10, ExchangeInv
<1> QED
  BY <1>2, <1>3, <1>4 DEF Send

LEMMA RecvInv == ASSUME IndInv, NEW a \in Ranks, Recv(a) PROVE IndInv'
<1>0. /\ Exchanging(a) /\ ~Sends(a) /\ ~Skips(a) /\ MeshTypes /\ RankInv(a) /\ Advance(a)
      /\ net[Peer(a)][a] # <<>>
      /\ net' = [net EXCEPT ![Peer(a)][a] = Tail(@)]
      /\ count' = [count EXCEPT ![a] = IF Kind(a) = "count" THEN 1 ELSE @]
      /\ mapped' = [mapped EXCEPT ![a][cur[a]] = IF Kind(a) = "record" THEN Peer(a) ELSE @]
      /\ pc' = pc /\ cur' = cur /\ attempts' = attempts /\ backlog' = backlog
      /\ client' = client /\ conns' = conns
  BY DEF Recv, IndInv
<1>1. /\ cur[a] \in Ranks /\ pc[a] \in Loops /\ ~Gone(a)
      /\ Peer(a) = cur[a] /\ Peer(a) # a /\ (Misfiled(a) => pc[a] = "base")
  BY <1>0, PeerFacts
<1>2. PICK b \in Ranks : b = cur[a] /\ conns[a][b] = b /\ Peer(a) = b /\ b # a
  BY <1>1 DEF Peer
<1>3. net[b][a] \in Seq(Kinds) /\ net[b][a] # <<>> /\ Tail(net[b][a]) \in Seq(Kinds)
  <2>1. net[b][a] \in Seq(Kinds) /\ net[b][a] # <<>>
    BY <1>0, <1>2 DEF MeshTypes
  <2> QED
    BY <2>1
<1>4. /\ net'[b][a] = Tail(net[b][a]) /\ net' \in [Ranks -> [Ranks -> Seq(Kinds)]]
      /\ \A x, r \in Ranks : x # b \/ r # a => net'[x][r] = net[x][r]
  <2>1. net \in [Ranks -> [Ranks -> Seq(Kinds)]] /\ net' = [net EXCEPT ![b][a] = Tail(net[b][a])]
    BY <1>0, <1>2 DEF MeshTypes
  <2> QED
    BY <1>3, <2>1
<1>5. /\ count' \in [Ranks -> {0, 1}] /\ (Kind(a) = "count" => count'[a] = 1)
      /\ Kind(a) # "count" => count'[a] = count[a]
      /\ \A r \in Ranks \ {a} : count'[r] = count[r]
  BY <1>0 DEF MeshTypes
<1>6. /\ mapped' \in [Ranks -> [Ranks -> Ranks \cup {None}]]
      /\ Kind(a) = "record" => mapped'[a][b] = b
      /\ \A k \in Ranks : mapped[a][k] = k => mapped'[a][k] = k
      /\ \A r \in Ranks \ {a} : mapped'[r] = mapped[r]
  <2>1. /\ mapped \in [Ranks -> [Ranks -> Ranks \cup {None}]]
        /\ mapped' = [mapped EXCEPT ![a][b] = IF Kind(a) = "record" THEN b ELSE @]
    BY <1>0, <1>2 DEF MeshTypes
  <2> QED
    BY <2>1
<1>7. CountAt(a)'
  <2>1. pc[a] = "records" => count'[a] = 1
    <3>1. pc[a] = "records" => Kind(a) \in {"count", "record"}
      BY <1>0, <1>1, KindFacts
    <3>2. count[a] \in {0, 1}
      BY <1>0 DEF MeshTypes
    <3> QED
      BY <1>0, <1>5, <3>1, <3>2 DEF Skips
  <2> QED
    BY <1>0, <2>1 DEF CountAt
<1>8. Exchanges(a)
  BY <1>0, <1>1, <1>2, <1>4, <1>5, <1>6, <1>7 DEF Exchanges
<1>9. /\ Pair(a, b) /\ Pair(b, a) /\ ~Gone(a) /\ ~Gone(a)' /\ (Gone(b)' <=> Gone(b))
      /\ Rcvd(b, a)' = Rcvd(b, a) /\ Sent(b, a)' = Sent(b, a)
      /\ mapped'[b] = mapped[b] /\ (mapped[a][b] = b => mapped'[a][b] = b)
      /\ Rcvd(a, b) \in Nat /\ Rcvd(a, b)' = Rcvd(a, b) + 1 /\ Sent(a, b)' = Sent(a, b)
      /\ Kind(a) = Stream[Rcvd(a, b) + 1]
  BY <1>0, <1>2, <1>8, ExchangeEnds
<1>10. Pair(b, a)'
  <2>1. net'[a][b] = net[a][b]
    BY <1>2, <1>4
  <2> QED
    BY <1>9, <2>1, PairKept
<1>11. Pair(a, b)'
  <2>1. Rcvd(a, b) = 4 => mapped'[a][b] = b
    BY <1>6, <1>9, StreamFacts
  <2> QED
    BY <1>3, <1>4, <1>9, <2>1, PairRecv
<1> QED
  BY <1>2, <1>8, <1>10, <1>11, ExchangeInv

\* A message that will not come, because the peer is gone.
LEMMA MissInv ==
    ASSUME IndInv, NEW a \in Ranks, Exchanging(a), ~Sends(a), Advance(a),
           Gone(Peer(a)), net[Peer(a)][a] = <<>>, ~Checked(a),
           UNCHANGED <<pc, cur, attempts, backlog, client, conns, net, mapped, count>>
    PROVE  IndInv'
<1>0. MeshTypes /\ RankInv(a)
  BY DEF IndInv
<1>1. /\ cur[a] \in Ranks /\ pc[a] \in Loops /\ ~Gone(a) /\ Peer(a) \in Ranks /\ Peer(a) # a
      /\ Peer(a) # cur[a] => Misfiled(a)
      /\ Misfiled(a) /\ pc[a] # "base" => pc[a] = "barrier1"
  BY PeerFacts
<1>2. Misfiled(a) => pc[a] = "base"
  BY <1>1 DEF Checked
<1>3. CountAt(a)'
  <2>1. pc[a] = "records" => Peer(a) = cur[a]
    BY <1>1, <1>2
  <2> QED
    BY <2>1 DEF CountAt, Gone
<1>4. Exchanges(a)
  BY <1>2, <1>3, MissedStep
<1>5. ASSUME NEW b \in Ranks, b = cur[a], conns[a][b] = b PROVE Pair(a, b)' /\ Pair(b, a)'
  <2>1. /\ Peer(a) = b /\ (Gone(b)' <=> Gone(b)) /\ Rcvd(a, b) \in Nat
        /\ Rcvd(a, b)' = Rcvd(a, b) + 1 /\ Kind(a) = Stream[Rcvd(a, b) + 1] /\ Rcvd(a, b)' <= 6
    BY <1>4, <1>5, ExchangeEnds
  <2>2. Kind(a) # "token"
    BY <1>0, <1>1, KindFacts
  <2>3. Rcvd(a, b)' \in 0..5
    BY <2>1, <2>2, StreamFacts
  <2>4. Pair(a, b)'
    BY <2>1, <2>3, PairMiss
  <2>5. Pair(b, a)'
    BY <2>1 DEF Pair
  <2> QED
    BY <2>4, <2>5
<1> QED
  BY <1>4, <1>5, ExchangeInv

LEMMA RecvFailsInv == ASSUME IndInv, NEW a \in Ranks, RecvFails(a) PROVE IndInv'
<1>1. ~Gone(a)
  BY PeerFacts DEF RecvFails
<1>2. CASE Checked(a) \/ Kind(a) = "record"
  BY <1>1, <1>2, DieInv DEF RecvFails, Ended
<1>3. CASE ~(Checked(a) \/ Kind(a) = "record")
  BY <1>3, MissInv DEF RecvFails
<1> QED
  BY <1>2, <1>3

LEMMA SkipInv == ASSUME IndInv, NEW a \in Ranks, Skip(a) PROVE IndInv'
<1>0. /\ Exchanging(a) /\ ~Sends(a) /\ Kind(a) = "record" /\ count[a] = 0
      /\ MeshTypes /\ RankInv(a)
  BY DEF Skip, Skips, IndInv
<1>1. /\ cur[a] \in Ranks /\ pc[a] \in Loops /\ (Peer(a) # cur[a] => Misfiled(a))
      /\ Misfiled(a) /\ pc[a] # "base" => pc[a] = "barrier1"
  BY <1>0, PeerFacts
<1>2. pc[a] = "records" /\ i[a] >= 2 /\ ~Checked(a)
  BY <1>0, <1>1, KindFacts DEF Checked
<1>3. Peer(a) = cur[a]
  BY <1>1, <1>2
<1>4. GotHere(a) >= 1
  BY <1>0, <1>2, HereFacts
<1>5. Gone(cur[a]) /\ net[cur[a]][a] = <<>>
  BY <1>0, <1>1, <1>2, <1>4, RanksFacts DEF RankInv, CountAt
<1> QED
  BY <1>0, <1>2, <1>3, <1>5, MissInv DEF Skip

-----------------------------------------------------------------------------
(* The invariant holds in every state.                                     *)

LEMMA InitIndInv == Init => IndInv
<1> SUFFICES ASSUME Init PROVE IndInv
  OBVIOUS
<1>1. MeshTypes
  <2>1. /\ pc \in [Ranks -> SetUp \cup Ended \cup Loops \cup {"done"}]
        /\ cur \in [Ranks -> 0..N] /\ i \in [Ranks -> 0..4]
        /\ attempts \in [Ranks -> 0..MaxAttempts]
    BY MeshAssumption DEF Init, SetUp
  <2>2. /\ backlog \in [Ranks -> Seq(Ranks)] /\ net \in [Ranks -> [Ranks -> Seq(Kinds)]]
        /\ client \in [Ranks -> Ranks \cup {None}]
    BY DEF Init
  <2>3. /\ conns \in [Ranks -> [Ranks -> Ranks \cup {None}]]
        /\ mapped \in [Ranks -> [Ranks -> Ranks \cup {None}]] /\ count \in [Ranks -> {0, 1}]
    BY DEF Init
  <2> QED
    BY <2>1, <2>2, <2>3 DEF MeshTypes
<1>2. ASSUME NEW r \in Ranks, NEW p \in Ranks
      PROVE  pc[r] = "start" /\ conns[r][p] = None /\ net[p][r] = <<>> /\ backlog[r] = <<>>
             /\ client[r] = None /\ cur[r] = 0 /\ i[r] = 0 /\ mapped[r][r] = r /\ ~Gone(r)
  BY DEF Init, Gone, Ended
<1>3. ASSUME NEW r \in Ranks, NEW p \in Ranks, r # p PROVE Pair(r, p)
  <2>1. r \in Nat /\ p \in Nat /\ None # r /\ None # p
    BY RanksFacts
  <2>2. Rcvd(r, p) = (IF p < r THEN 1 ELSE 0) /\ Sent(p, r) = (IF r < p THEN 0 ELSE 1)
    BY <1>2, <2>1 DEF Rcvd, Sent
  <2>3. Rcvd(r, p) = Sent(p, r) /\ Rcvd(r, p) \in {0, 1}
    BY <1>3, <2>1, <2>2
  <2>4. Len(net[p][r]) = 0
    BY <1>2
  <2> QED
    BY <2>3, <2>4 DEF Pair
<1>4. ASSUME NEW r \in Ranks PROVE RankInv(r)
  <2>1. LoopAt(r) /\ CountAt(r) /\ mapped[r][r] = r
    BY <1>2 DEF LoopAt, CountAt, Loops
  <2>2. ~Misfiled(r) /\ Known(r) = {}
    BY <1>2, RanksFacts DEF Misfiled, Known
  <2>3. KeyAt(r)
    BY <1>2, <2>2, RanksFacts DEF KeyAt
  <2>4. Len(backlog[r]) = 0 /\ client[r] = None /\ pc[r] = "start"
    BY <1>2
  <2>5. AcceptAt(r)
    BY <2>2, <2>4 DEF AcceptAt, Loops
  <2> QED
    BY <2>1, <2>3, <2>5 DEF RankInv
<1> QED
  BY <1>1, <1>3, <1>4 DEF IndInv, PairInv

LEMMA NextIndInv == IndInv /\ [Next]_vars => IndInv'
<1> SUFFICES ASSUME IndInv, [Next]_vars PROVE IndInv'
  OBVIOUS
<1>1. CASE UNCHANGED vars
  <2>1. /\ pc' = pc /\ cur' = cur /\ i' = i /\ attempts' = attempts /\ backlog' = backlog
        /\ client' = client /\ conns' = conns /\ net' = net /\ mapped' = mapped /\ count' = count
    BY <1>1 DEF vars
  <2>2. MeshTypes' /\ \A r \in Ranks : Gone(r)' <=> Gone(r)
    BY <2>1 DEF IndInv, MeshTypes, Gone
  <2>3. Aside(0) /\ 0 \in Ranks
    BY <2>1, RanksFacts DEF Aside, Gone, Connected
  <2>4. ASSUME NEW r \in Ranks, NEW p \in Ranks PROVE Rcvd(r, p)' = Rcvd(r, p) /\ Sent(r, p)' = Sent(r, p)
    BY <2>1 DEF Rcvd, Sent, Place, Offset, Width, Steps, GotHere, SentHere, First
  <2>5. PairInv'
    BY <2>1, <2>3, <2>4, QuietStep
  <2>6. ASSUME NEW r \in Ranks PROVE RankInv(r)'
    <3>1. Aside(r)
      BY <2>1 DEF Aside, Gone, Connected
    <3>2. LoopAt(r)' /\ CountAt(r)' /\ mapped'[r][r] = r
      BY <2>1, <2>2 DEF IndInv, RankInv, LoopAt, CountAt, Steps, Higher, GotHere, First, Gone
    <3>3. KeyAt(r)'
      BY <2>1 DEF IndInv, RankInv, KeyAt, Misfiled, Gone
    <3>4. AcceptAt(r)'
      BY <2>1, <3>1, SameSockets DEF IndInv, RankInv, AcceptAt
    <3> QED
      BY <3>2, <3>3, <3>4 DEF RankInv
  <2> QED
    BY <2>2, <2>5, <2>6 DEF IndInv
<1>2. ASSUME NEW a \in Ranks, Step(a) PROVE IndInv'
  <2>1. CASE GiveUp(a)
    <3>1. ~Gone(a) /\ Die(a, "timedout") /\ "timedout" \in Ended
      BY <2>1 DEF GiveUp, Gone, Ended
    <3> QED
      BY <3>1, DieInv
  <2> QED
    BY <1>2, <2>1, ListenInv, ConnectInv, IdentifyInv, StartAcceptingInv, AcceptInv, ReadRankInv,
       CloseListenerInv, SendInv, RecvInv, RecvFailsInv, SkipInv, NextPeerInv, NextPhaseInv
    DEF Step
<1>3. ASSUME NEW a \in Ranks, Crash(a) PROVE IndInv'
  BY <1>3, DieInv DEF Crash, Ended
<1>4. CASE Rest
  BY <1>1, <1>4 DEF Rest
<1> QED
  BY <1>1, <1>2, <1>3, <1>4 DEF Next

LEMMA MeshInvariant == Spec => []IndInv
  BY InitIndInv, NextIndInv, PTL DEF Spec

-----------------------------------------------------------------------------
(* What the invariant says of the code.                                    *)

\* The constructor's state keeps its types, whichever processes die: indices
\* into fd_mesh_ and peer_mappings_ are ranks, and loops stay in bounds.
THEOREM MeshTypesHold == Spec => []TypeOK
<1>1. ASSUME IndInv PROVE TypeOK
  <2>1. MeshTypes
    BY <1>1 DEF IndInv
  <2>2. pc \in [Ranks -> {"start", "connect", "accept"} \cup Ended \cup {Phases[k] : k \in 1..5}]
    BY <2>1, PhaseFacts DEF MeshTypes, SetUp
  <2>3. \A r \in Ranks : \A k \in 1..Len(backlog[r]) : backlog[r][k] \in Ranks
    BY <2>1 DEF MeshTypes
  <2>4. \A p, q \in Ranks : \A k \in 1..Len(net[p][q]) :
           net[p][q][k] \in {"rank", "base", "count", "record", "token"}
    <3> SUFFICES ASSUME NEW p \in Ranks, NEW q \in Ranks, NEW k \in 1..Len(net[p][q])
                 PROVE  net[p][q][k] \in Kinds
      BY DEF Kinds
    <3>1. net[p][q] \in Seq(Kinds)
      BY <2>1 DEF MeshTypes
    <3> QED
      BY <3>1
  <2> QED
    BY <2>1, <2>2, <2>3, <2>4 DEF TypeOK, MeshTypes
<1> QED
  BY <1>1, MeshInvariant, PTL

\* When a constructor returns, each peer's heap is mapped at the peer's rank
\* and the peer has mapped this one's, for any number of ranks and any crashes.
THEOREM HeapsAllMapped == Spec => []AllMapped
<1>1. ASSUME IndInv PROVE AllMapped
  <2> SUFFICES ASSUME NEW r \in Ranks, pc[r] = "done", NEW p \in Ranks
               PROVE  mapped[r][p] = p /\ mapped[p][r] = r
    BY DEF AllMapped
  <2>1. MeshTypes /\ RankInv(r) /\ ~Gone(r)
    BY <1>1 DEF IndInv, Gone, Ended
  <2>2. CASE p = r
    BY <2>1, <2>2 DEF RankInv
  <2>3. CASE p # r
    <3>1. Pair(r, p) /\ r \in Nat /\ p \in Nat /\ p < N /\ N \in Nat
      BY <1>1, <2>3, RanksFacts DEF IndInv, PairInv
    <3>2. ~Misfiled(r) /\ Known(r) = (r + 1)..(N - 1)
      BY <2>1 DEF RankInv, KeyAt, AcceptAt
    <3>3. conns[r][p] = p
      <4>1. CASE p > r
        <5>1. p \in Known(r)
          BY <3>1, <3>2, <4>1
        <5> QED
          BY <5>1 DEF Known
      <4>2. CASE p < r
        <5>1. conns[r][p] # None /\ (conns[r][p] # p => p = 0)
          BY <2>1, <4>2 DEF RankInv, KeyAt
        <5> QED
          BY <3>2, <5>1 DEF Misfiled
      <4> QED
        BY <2>3, <3>1, <4>1, <4>2
    <3>4. Rcvd(r, p) = 6
      BY <3>3 DEF Rcvd, Place, Offset, SetUp, Loops
    <3>5. Len(net[p][r]) \in Nat
      BY <2>1 DEF MeshTypes
    <3>6. Rcvd(r, p) + Len(net[p][r]) = 6
      BY <2>1, <3>1, <3>4, <3>5 DEF Pair
    <3> QED
      BY <2>1, <3>1, <3>4, <3>6 DEF Pair
  <2> QED
    BY <2>2, <2>3
<1> QED
  BY <1>1, MeshInvariant, PTL

\* What a rank that is about to receive expects.
LEMMA KindAt ==
    ASSUME MeshTypes, NEW a \in Ranks, Exchanging(a), ~Sends(a)
    PROVE  Kind(a) = Stream[Offset(a) + GotHere(a) + 1]
<1>1. pc[a] \in Loops /\ i[a] < Steps(a) /\ i[a] \in 0..4
  BY PhaseFacts DEF Exchanging, MeshTypes
<1>2. /\ i[a] \in {0, 1, 2, 3} /\ (pc[a] # "records" => i[a] \in {0, 1})
  BY <1>1 DEF Steps
<1>3. ~(First(a) <=> i[a] \in {0, 2})
  BY DEF First, Sends
<1>4. i[a] \in {0, 1} => GotHere(a) = 0
  BY <1>2, <1>3, HereFacts
<1>5. i[a] \in {2, 3} => GotHere(a) = 1
  BY <1>2, <1>3, HereFacts
<1>6. /\ pc[a] = "base" => Offset(a) = 1 /\ Kind(a) = "base"
      /\ pc[a] = "barrier1" => Offset(a) = 2 /\ Kind(a) = "token"
      /\ pc[a] = "records" => Offset(a) = 3 /\ Kind(a) = (IF i[a] < 2 THEN "count" ELSE "record")
      /\ pc[a] = "barrier2" => Offset(a) = 5 /\ Kind(a) = "token"
  BY DEF Offset, Kind, SetUp
<1> QED
  BY <1>1, <1>2, <1>4, <1>5, <1>6, StreamFacts DEF Loops

\* What a rank is about to receive is what it expects: reading rank, base,
\* count, record or token, no receive takes the bytes of another message,
\* although failures of all but barrier() are ignored.
THEOREM StreamsInStep == Spec => []InStep
<1>1. ASSUME IndInv PROVE InStep
  <2> SUFFICES ASSUME NEW r \in Ranks
               PROVE  /\ Exchanging(r) /\ ~Sends(r) /\ ~Skips(r) /\ net[Peer(r)][r] # <<>>
                            => Head(net[Peer(r)][r]) = Kind(r)
                      /\ pc[r] = "accept" /\ i[r] = 1 /\ net[client[r]][r] # <<>>
                            => Head(net[client[r]][r]) = "rank"
    BY DEF InStep
  <2>1. MeshTypes /\ RankInv(r)
    BY <1>1 DEF IndInv
  <2>2. ASSUME NEW b \in Ranks, b # r, ~Gone(r), net[b][r] # <<>>
        PROVE  Head(net[b][r]) = Stream[Rcvd(r, b) + 1]
    <3>1. Pair(r, b)
      BY <1>1, <2>2 DEF IndInv, PairInv
    <3>2. net[b][r] \in Seq(Kinds)
      BY <2>1 DEF MeshTypes
    <3>3. 1 \in 1..Len(net[b][r]) /\ Head(net[b][r]) = net[b][r][1]
      BY <2>2, <3>2
    <3> QED
      BY <2>2, <3>1, <3>3 DEF Pair
  <2>3. ASSUME Exchanging(r), ~Sends(r), net[Peer(r)][r] # <<>>
        PROVE  Head(net[Peer(r)][r]) = Kind(r)
    <3>1. /\ cur[r] \in Ranks /\ pc[r] \in Loops /\ ~Gone(r) /\ Peer(r) # r /\ Peer(r) = cur[r]
      BY <1>1, <2>3, PeerFacts
    <3>2. PICK b \in Ranks : b = cur[r] /\ b = Peer(r) /\ conns[r][b] = b /\ ~(b < cur[r])
      BY <3>1, RanksFacts DEF Peer
    <3>3. Rcvd(r, b) = Offset(r) + GotHere(r)
      BY <3>1, <3>2 DEF Rcvd, Place
    <3>4. Kind(r) = Stream[Rcvd(r, b) + 1]
      BY <2>1, <2>3, <3>3, KindAt
    <3> QED
      BY <2>2, <2>3, <3>1, <3>2, <3>4
  <2>4. ASSUME pc[r] = "accept", i[r] = 1, net[client[r]][r] # <<>>
        PROVE  Head(net[client[r]][r]) = "rank"
    <3>1. PICK c \in Ranks : c = client[r] /\ c # None
      BY <2>1, <2>4 DEF RankInv, LoopAt, MeshTypes
    <3>2. Connected(c, r) /\ c \notin Known(r)
      BY <2>1, <3>1 DEF RankInv, AcceptAt
    <3>3. c > r /\ c # r /\ ~(c < r) /\ conns[r][c] # c
      BY <3>2, RanksFacts DEF Connected, Known
    <3>4. Rcvd(r, c) = 0 /\ ~Gone(r)
      BY <2>4, <3>3 DEF Rcvd, Gone, Ended
    <3> QED
      BY <2>2, <2>4, <3>1, <3>3, <3>4, StreamFacts
  <2> QED
    BY <2>3, <2>4
<1> QED
  BY <1>1, MeshInvariant, PTL
=============================================================================
