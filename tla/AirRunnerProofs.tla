-------------------------- MODULE AirRunnerProofs --------------------------
(***************************************************************************)
(* Proofs about AirRunner, for every program: however many nodes, herds,   *)
(* vertices, channels and tiles it has.                                    *)
(***************************************************************************)
EXTENDS AirRunner, FiniteSetTheorems, SequenceTheorems, WellFoundedInduction, TLAPS

Distinct(s) == \A i, j \in 1..Len(s) : s[i] = s[j] => i = j

\* The types of the variables the arguments are about.
Typed ==
    /\ prog \in Programs /\ time \in Nat \ {0}
    /\ diagnosed \in BOOLEAN /\ blocked \in BOOLEAN
    /\ outcome \in {"running", "latency", "stalled", "unrun", "error", "assertion"}
    /\ phase \in {"begin", "free", "exec", "push"}
    /\ pass \in 1..(2 * Len(prog.nodes) + 1)
    /\ queue \in Seq(V) /\ wave \in [Nodes -> Seq(V)] /\ processed \in SUBSET V
    /\ started \in [V -> Nat] /\ released \in [V -> Nat] /\ ended \in [V -> Nat]
    /\ freed \in [V -> BOOLEAN] /\ ready \in [V -> Nat] /\ sent \in [V -> Nat]
    /\ taken \in SUBSET Tiles /\ hiers \in [Nodes -> SUBSET Tiles]
    /\ tokens \in [Chans -> Int] /\ moved \in [Chans -> [put : Nat, get : Nat]]

\* A wavefront lists ops of its node, each once, started and not processed.
WaveInv ==
    \A n \in Nodes :
        /\ Distinct(wave[n])
        /\ \A v \in V : Contains(wave[n], v) =>
              Op(v).node = n /\ started[v] # 0 /\ v \notin processed

\* Occupancy ends before latency, and a channel op dispatches its own
\* instances only.
TimesInv ==
    \A v \in V : /\ started[v] <= released[v] /\ released[v] <= ended[v]
                 /\ sent[v] <= Op(v).width

\* What has started: only ops of nodes that have; an op that is not a channel
\* op is on the wavefront or processed from then on; a node starts when its
\* hierarchy op is processed.
StartInv ==
    /\ \A v \in V : started[v] # 0 => started[StartOf(Op(v).node)] # 0
    /\ \A v \in processed : started[v] # 0
    /\ \A v \in V : (started[v] # 0 /\ Op(v).kind \notin {"put", "get"}) =>
          v \in processed \/ Contains(wave[Op(v).node], v)
    /\ \A v \in V : (/\ Op(v).kind \in {"segment", "herd"}
                     /\ started[StartOf(Op(v).sub)] # 0) => v \in processed

\* What a phase has still to look at: members of the wavefront, or ops that
\* may join it.
QueueInv ==
    /\ Distinct(queue)
    /\ phase # "begin" => pass <= 2 * Len(prog.nodes)
    /\ phase \in {"free", "exec"} =>
          \A v \in V : Contains(queue, v) => Contains(wave[node], v)
    /\ phase = "push" =>
          \A v \in V : Contains(queue, v) =>
             /\ Op(v).node = node /\ Op(v).kind # "start"
             /\ v \notin processed /\ ~Contains(wave[node], v)
             /\ started[StartOf(node)] # 0

Core == Typed /\ WaveInv /\ TimesInv /\ StartInv /\ QueueInv

\* The tiles: nodes that are no herds or have not started have none.
TilesInv ==
    /\ outcome # "assertion"
    /\ \A n \in Nodes : n \notin HerdNodes \/ started[StartOf(n)] = 0 => hiers[n] = {}
    /\ \A n \in HerdNodes : Holds(n) =>
          /\ hiers[n] \subseteq taken /\ Cardinality(hiers[n]) = prog.herdTiles[n]
          /\ \A m \in HerdNodes : m # n /\ Holds(m) => hiers[m] \cap hiers[n] = {}
    /\ \A n \in Nodes : Promised(n) <= Cardinality(Tiles \ taken)

\* No herd depends on a put or get itself, whose completion several rounds
\* may undo.
HerdsWaitForOps ==
    \A p \in Programs : \A i \in DOMAIN p.ops :
        p.ops[i].kind = "herd" =>
            \A j \in p.ops[i].deps : p.ops[j].kind \notin {"put", "get"}

\* A herd that has been found ready stays ready until it starts; while herds
\* may be admitted every ready one is in the queue, in the order of waiting.
OrderInv ==
    /\ \A u \in Herds : ready[u] # 0 =>
          /\ started[u] = 0 /\ Op(u).deps \cap processed # {}
          /\ \A d \in DependsOn(u) : IsStarted(d) /\ IsDone(d)
    /\ phase = "push" /\ ~blocked =>
          \A u \in Herds : Op(u).node = node /\ ready[u] # 0 => Contains(queue, u)
    /\ phase = "push" =>
          \A i, j \in 1..Len(queue) :
             (i < j /\ queue[i] \in Herds /\ queue[j] \in Herds) =>
                Before(queue[i], queue[j], ready)

-----------------------------------------------------------------------------
(* Numbers and sets.                                                       *)

\* Every set of numbers has a least element: the induction of this module.
LEMMA LeastElement ==
    ASSUME NEW T \in SUBSET Nat, T # {}
    PROVE  \E x \in T : \A y \in T : x <= y
<1> DEFINE R == {ss \in Nat \X Nat : ss[1] < ss[2]}
<1>0. OpToRel(<, Nat) = R
  BY DEF OpToRel
<1>1. IsWellFoundedOn(R, Nat)
  BY <1>0, NatLessThanWellFounded, Zenon
<1>2. \A a, b \in Nat : a < b => <<a, b>> \in R
  OBVIOUS
<1> HIDE DEF R
<1>3. PICK x \in T : \A y \in T : ~(<<y, x>> \in R)
  BY <1>1, WFMin
<1>4. ASSUME NEW y \in T PROVE x <= y
  <2>1. x \in Nat /\ y \in Nat /\ ~(y < x)
    BY <1>2, <1>3, <1>4
  <2> QED
    BY <2>1
<1> QED
  BY <1>4

\* The members of S up to x; FirstOf counts them.
UpTo(S, x) == {y \in S : y <= x}

LEMMA UpToFacts ==
    ASSUME NEW S \in SUBSET Nat, IsFiniteSet(S), NEW x \in S
    PROVE  /\ UpTo(S, x) \in SUBSET S /\ x \in UpTo(S, x)
           /\ IsFiniteSet(UpTo(S, x)) /\ Cardinality(UpTo(S, x)) \in Nat \ {0}
<1>1. UpTo(S, x) \in SUBSET S /\ x \in UpTo(S, x)
  BY DEF UpTo
<1>2. IsFiniteSet(UpTo(S, x)) /\ Cardinality(UpTo(S, x)) \in Nat
  BY <1>1, FS_Subset, FS_CardinalityType
<1>3. Cardinality(UpTo(S, x)) # 0
  BY <1>1, <1>2, FS_EmptySet
<1> QED
  BY <1>1, <1>2, <1>3

\* The counts grow along S.
LEMMA UpToGrows ==
    ASSUME NEW S \in SUBSET Nat, IsFiniteSet(S), NEW x \in S, NEW z \in S, x < z
    PROVE  Cardinality(UpTo(S, x)) + 1 <= Cardinality(UpTo(S, z))
<1>1. IsFiniteSet(UpTo(S, x)) /\ IsFiniteSet(UpTo(S, z))
  BY UpToFacts
<1>2. z \notin UpTo(S, x)
  BY DEF UpTo
<1>3. ASSUME NEW y \in UpTo(S, x) PROVE y \in UpTo(S, z)
  <2>1. y \in S /\ y \in Nat /\ x \in Nat /\ z \in Nat /\ y <= x
    BY <1>3 DEF UpTo
  <2>2. y <= z
    BY <2>1
  <2> QED
    BY <2>1, <2>2 DEF UpTo
<1>4. UpTo(S, x) \union {z} \in SUBSET UpTo(S, z)
  BY <1>3, UpToFacts
<1>5. Cardinality(UpTo(S, x) \union {z}) = Cardinality(UpTo(S, x)) + 1
  BY <1>1, <1>2, FS_AddElement
<1>6. Cardinality(UpTo(S, x) \union {z}) <= Cardinality(UpTo(S, z))
  BY <1>1, <1>4, FS_Subset
<1> QED
  BY <1>5, <1>6

\* One more element: the least of those left.
LEMMA FirstOfStep ==
    ASSUME NEW S \in SUBSET Nat, IsFiniteSet(S), NEW k \in Nat, k < Cardinality(S),
           Cardinality(FirstOf(S, k)) = k
    PROVE  Cardinality(FirstOf(S, k + 1)) = k + 1
<1> DEFINE F == FirstOf(S, k)
<1>0. F \in SUBSET S /\ \A j : FirstOf(S, j) = {x \in S : Cardinality(UpTo(S, x)) <= j}
  BY DEF FirstOf, UpTo
<1>1. F # S
  OBVIOUS
<1>2. PICK x \in S \ F : \A y \in S \ F : x <= y
  <2>1. S \ F \in SUBSET Nat /\ S \ F # {}
    BY <1>0, <1>1
  <2> QED
    BY <2>1, LeastElement
<1>3. \A z \in S : Cardinality(UpTo(S, z)) \in Nat
  BY UpToFacts
<1>4. \A z \in S : z \in F <=> Cardinality(UpTo(S, z)) <= k
  BY <1>0
<1>f. IsFiniteSet(F) /\ Cardinality(F) = k
  BY <1>0, FS_Subset
<1> HIDE DEF F
<1>5. UpTo(S, x) = F \union {x}
  <2>1. ASSUME NEW y \in S, y <= x, y # x PROVE y \in F
    <3>1. x \in Nat /\ y \in Nat
      OBVIOUS
    <3>2. ~(x <= y)
      BY <2>1, <3>1
    <3> QED
      BY <1>2, <2>1, <3>2
  <2>2. ASSUME NEW y \in F PROVE y <= x
    <3>1. x \in Nat /\ y \in Nat /\ y \in S /\ x \in S
      BY <1>0, <2>2
    <3>2. CASE x < y
      <4>1. Cardinality(UpTo(S, x)) + 1 <= Cardinality(UpTo(S, y))
        BY <3>1, <3>2, UpToGrows
      <4>2. Cardinality(UpTo(S, y)) <= k /\ ~(Cardinality(UpTo(S, x)) <= k)
        BY <1>2, <1>4, <2>2, <3>1
      <4> QED
        BY <1>3, <3>1, <4>1, <4>2
    <3> QED
      BY <3>1, <3>2
  <2>3. x <= x /\ F \subseteq S
    BY <1>0
  <2> QED
    BY <2>1, <2>2, <2>3 DEF UpTo
<1>6. Cardinality(UpTo(S, x)) = k + 1
  <2>1. Cardinality(F \union {x}) = k + 1
    BY <1>f, <1>2, FS_AddElement
  <2> QED
    BY <1>5, <2>1
<1>7. ASSUME NEW z \in S, z # x, z \notin F PROVE ~(Cardinality(UpTo(S, z)) <= k + 1)
  <2>1. x \in Nat /\ z \in Nat /\ x <= z
    BY <1>2, <1>7
  <2>2. x < z
    BY <1>7, <2>1
  <2>3. Cardinality(UpTo(S, x)) + 1 <= Cardinality(UpTo(S, z))
    BY <2>2, UpToGrows
  <2> QED
    BY <1>3, <1>6, <2>3
<1>8. FirstOf(S, k + 1) = F \union {x}
  <2>1. ASSUME NEW z \in S PROVE Cardinality(UpTo(S, z)) <= k + 1 <=> z \in F \union {x}
    <3>1. CASE z \in F
      BY <1>3, <1>4, <2>1, <3>1
    <3>2. CASE z = x
      BY <1>6, <3>2
    <3>3. CASE z # x /\ z \notin F
      BY <1>7, <2>1, <3>3
    <3> QED
      BY <3>1, <3>2, <3>3
  <2> QED
    BY <1>0, <2>1
<1> QED
  BY <1>5, <1>6, <1>8

\* FirstOf takes as many as it is asked for, when there are as many.
LEMMA FirstOfCardinality ==
    ASSUME NEW S \in SUBSET Nat, IsFiniteSet(S), NEW k \in Nat, k <= Cardinality(S)
    PROVE  /\ FirstOf(S, k) \subseteq S
           /\ Cardinality(FirstOf(S, k)) = k
<1> DEFINE Bad == {n \in Nat : n <= Cardinality(S) /\ Cardinality(FirstOf(S, n)) # n}
<1>1. Cardinality(S) \in Nat
  BY FS_CardinalityType
<1>2. Cardinality(FirstOf(S, 0)) = 0
  <2>1. \A x \in S : ~(Cardinality(UpTo(S, x)) <= 0)
    BY UpToFacts
  <2>2. FirstOf(S, 0) = {}
    BY <2>1 DEF FirstOf, UpTo
  <2> QED
    BY <2>2, FS_EmptySet
<1>3. ASSUME Bad # {} PROVE FALSE
  <2>1. PICK n \in Bad : \A m \in Bad : n <= m
    <3>1. Bad \in SUBSET Nat
      OBVIOUS
    <3> QED
      BY <1>3, <3>1, LeastElement
  <2>2. n - 1 \in Nat /\ n - 1 \notin Bad
    BY <1>2, <2>1
  <2>3. n - 1 < Cardinality(S) /\ Cardinality(FirstOf(S, n - 1)) = n - 1
    BY <1>1, <2>1, <2>2
  <2>4. Cardinality(FirstOf(S, (n - 1) + 1)) = (n - 1) + 1
    BY <2>2, <2>3, FirstOfStep
  <2> QED
    BY <2>1, <2>4
<1>4. k \notin Bad
  BY <1>3
<1> QED
  BY <1>4 DEF FirstOf
-----------------------------------------------------------------------------
(* Wavefronts and queues.                                                  *)

\* Taking an op off a wavefront that lists it once.
LEMMA WithoutFacts ==
    ASSUME NEW S, NEW s \in Seq(S), NEW v, Contains(s, v), Distinct(s)
    PROVE  /\ Without(s, v) \in Seq(S) /\ Distinct(Without(s, v))
           /\ \A u : Contains(Without(s, v), u) <=> Contains(s, u) /\ u # v
<1> DEFINE p == Position(s, v)
           n == Len(s)
           t == Without(s, v)
<1>1. p \in 1..n /\ s[p] = v
  BY DEF Contains, Position
<1> HIDE DEF p
<1>2. /\ SubSeq(s, 1, p - 1) \in Seq(S) /\ Len(SubSeq(s, 1, p - 1)) = p - 1
      /\ \A j \in 1..(p - 1) : SubSeq(s, 1, p - 1)[j] = s[j]
  BY <1>1
<1>3. /\ SubSeq(s, p + 1, n) \in Seq(S) /\ Len(SubSeq(s, p + 1, n)) = n - p
      /\ \A j \in 1..(n - p) : SubSeq(s, p + 1, n)[j] = s[p + j]
  BY <1>1
<1>4. /\ t \in Seq(S) /\ Len(t) = n - 1
      /\ \A j \in 1..(n - 1) : t[j] = IF j < p THEN s[j] ELSE s[j + 1]
  <2>1. t = SubSeq(s, 1, p - 1) \o SubSeq(s, p + 1, n)
    BY DEF Without, RemoveAt, p
  <2> DEFINE a == SubSeq(s, 1, p - 1)
             b == SubSeq(s, p + 1, n)
  <2>2. a \in Seq(S) /\ b \in Seq(S) /\ Len(a) = p - 1 /\ Len(b) = n - p
    BY <1>2, <1>3
  <2>3. \A j \in 1..(p - 1) : a[j] = s[j]
    BY <1>2
  <2>4. \A j \in 1..(n - p) : b[j] = s[p + j]
    BY <1>3
  <2>5. t = a \o b
    BY <2>1
  <2> HIDE DEF a, b, t
  <2>6. /\ t \in Seq(S) /\ Len(t) = Len(a) + Len(b)
        /\ \A j \in 1..(Len(a) + Len(b)) : t[j] = IF j <= Len(a) THEN a[j] ELSE b[j - Len(a)]
    BY <2>2, <2>5, ConcatProperties
  <2>7. Len(a) + Len(b) = n - 1 /\ n \in Nat
    BY <1>1, <2>2
  <2>8. ASSUME NEW j \in 1..(n - 1) PROVE t[j] = IF j < p THEN s[j] ELSE s[j + 1]
    <3>1. CASE j < p
      <4>1. j <= p - 1 /\ j \in 1..(p - 1)
        BY <1>1, <3>1
      <4>2. t[j] = a[j]
        BY <2>2, <2>6, <2>7, <4>1
      <4> QED
        BY <2>3, <3>1, <4>1, <4>2
    <3>2. CASE ~(j < p)
      <4>1. /\ ~(j <= p - 1) /\ j - (p - 1) \in 1..(n - p) /\ p + (j - (p - 1)) = j + 1
        BY <1>1, <2>7, <3>2
      <4>2. t[j] = b[j - (p - 1)]
        BY <2>2, <2>6, <2>7, <4>1
      <4>3. b[j - (p - 1)] = s[p + (j - (p - 1))]
        BY <2>4, <4>1
      <4> QED
        BY <3>2, <4>1, <4>2, <4>3
    <3> QED
      BY <3>1, <3>2
  <2> QED
    BY <2>6, <2>7, <2>8
<1> HIDE DEF t
<1>5. Distinct(t)
  <2> SUFFICES ASSUME NEW a \in 1..Len(t), NEW b \in 1..Len(t), t[a] = t[b]
               PROVE  a = b
    BY DEF Distinct
  <2>0. a \in 1..(n - 1) /\ b \in 1..(n - 1) /\ n \in Nat /\ p \in Nat
    BY <1>1, <1>4
  <2>1. CASE a < p /\ b < p
    BY <1>4, <2>0, <2>1 DEF Distinct
  <2>2. CASE a < p /\ ~(b < p)
    BY <1>4, <2>0, <2>2 DEF Distinct
  <2>3. CASE ~(a < p) /\ b < p
    BY <1>4, <2>0, <2>3 DEF Distinct
  <2>4. CASE ~(a < p) /\ ~(b < p)
    BY <1>4, <2>0, <2>4 DEF Distinct
  <2> QED
    BY <2>1, <2>2, <2>3, <2>4
<1>6. ASSUME NEW u, Contains(t, u) PROVE Contains(s, u) /\ u # v
  <2>1. PICK j \in 1..Len(t) : t[j] = u
    BY <1>6 DEF Contains
  <2>2. CASE j < p
    BY <1>1, <1>4, <2>1, <2>2 DEF Contains, Distinct
  <2>3. CASE ~(j < p)
    BY <1>1, <1>4, <2>1, <2>3 DEF Contains, Distinct
  <2> QED
    BY <2>2, <2>3
<1>7. ASSUME NEW u, Contains(s, u), u # v PROVE Contains(t, u)
  <2>1. PICK j \in 1..n : s[j] = u
    BY <1>7 DEF Contains
  <2>2. CASE j < p
    BY <1>1, <1>4, <2>1, <2>2 DEF Contains
  <2>3. CASE j > p
    <3>1. j - 1 \in 1..(n - 1) /\ ~(j - 1 < p) /\ (j - 1) + 1 = j
      BY <1>1, <2>3
    <3> QED
      BY <1>4, <2>1, <3>1 DEF Contains
  <2> QED
    BY <1>1, <1>7, <2>1, <2>2, <2>3
<1> QED
  BY <1>4, <1>5, <1>6, <1>7 DEF t

\* Admitting an op that is not on the wavefront.
LEMMA AppendFacts ==
    ASSUME NEW S, NEW s \in Seq(S), NEW v \in S, ~Contains(s, v), Distinct(s)
    PROVE  /\ Append(s, v) \in Seq(S) /\ Distinct(Append(s, v))
           /\ \A u : Contains(Append(s, v), u) <=> Contains(s, u) \/ u = v
<1> DEFINE t == Append(s, v)
<1>1. /\ t \in Seq(S) /\ Len(t) = Len(s) + 1 /\ Len(s) \in Nat
      /\ \A j \in 1..Len(s) : t[j] = s[j]
      /\ t[Len(s) + 1] = v
  OBVIOUS
<1> HIDE DEF t
<1>2. Distinct(t)
  <2> SUFFICES ASSUME NEW a \in 1..Len(t), NEW b \in 1..Len(t), t[a] = t[b]
               PROVE  a = b
    BY DEF Distinct
  <2>1. CASE a <= Len(s) /\ b <= Len(s)
    BY <1>1, <2>1 DEF Distinct
  <2>2. CASE a = Len(s) + 1 \/ b = Len(s) + 1
    BY <1>1, <2>2 DEF Contains
  <2> QED
    BY <1>1, <2>1, <2>2
<1>3. \A u : Contains(t, u) <=> Contains(s, u) \/ u = v
  BY <1>1 DEF Contains
<1> QED
  BY <1>1, <1>2, <1>3 DEF t

\* A queue made of a set lists it, each element once.
LEMMA SetToSeqsFacts ==
    ASSUME NEW S, IsFiniteSet(S), NEW q \in SetToSeqs(S)
    PROVE  /\ q \in Seq(S) /\ Distinct(q)
           /\ \A u : Contains(q, u) <=> u \in S
<1> DEFINE D == 1..Cardinality(S)
<1>1. Cardinality(S) \in Nat
  BY FS_CardinalityType
<1>2. q \in [D -> S] /\ \A i, j \in D : i # j => q[i] # q[j]
  BY DEF SetToSeqs
<1>3. q \in Seq(S) /\ Len(q) = Cardinality(S)
  BY <1>1, <1>2
<1>4. Distinct(q)
  BY <1>2, <1>3 DEF Distinct
<1>5. q \in Injection(D, S)
  BY <1>2 DEF Injection, IsInjective
<1>6. IsFiniteSet(D) /\ Cardinality(D) = Cardinality(S)
  BY <1>1, FS_Interval
<1>7. q \in Surjection(D, S)
  BY <1>5, <1>6, FS_Injection
<1>8. \A u \in S : \E i \in D : q[i] = u
  BY <1>7 DEF Surjection
<1> QED
  BY <1>2, <1>3, <1>4, <1>8 DEF Contains

-----------------------------------------------------------------------------
(* The program.                                                            *)

\* What ProgramOK says of the program being simulated.
LEMMA ProgramFacts ==
    ASSUME prog \in Programs
    PROVE  /\ V \in SUBSET Nat /\ IsFiniteSet(V)
           /\ Len(prog.nodes) \in Nat \ {0} /\ Nodes = 1..Len(prog.nodes)
           /\ prog.tiles \in Nat
           /\ \A v \in V : /\ Op(v).kind \in Kinds /\ Op(v).node \in Nodes
                           /\ Op(v).deps \subseteq V /\ (Op(v).deps = {} <=> Op(v).kind = "start")
                           /\ \A u \in Op(v).deps : Op(u).node = Op(v).node
                           /\ Op(v).width \in Nat /\ Op(v).cost \in Nat /\ Op(v).flight \in Nat
<1>1. ProgramOK(prog)
  BY RunnerAssumption
<1>2. V = 1..Len(prog.ops) /\ Len(prog.ops) \in Nat
  BY <1>1 DEF ProgramOK, V
<1>3. V \in SUBSET Nat /\ IsFiniteSet(V)
  BY <1>2, FS_Interval
<1>4. Len(prog.nodes) \in Nat \ {0} /\ Nodes = 1..Len(prog.nodes) /\ prog.tiles \in Nat
  BY <1>1 DEF ProgramOK, Nodes
<1>5. ASSUME NEW v \in V
      PROVE  /\ Op(v).kind \in Kinds /\ Op(v).node \in Nodes
             /\ Op(v).deps \subseteq 1..(v - 1) /\ (Op(v).deps = {} <=> Op(v).kind = "start")
             /\ \A u \in Op(v).deps : Op(u).node = Op(v).node
             /\ Op(v).width \in Nat /\ Op(v).cost \in Nat /\ Op(v).flight \in Nat
  BY <1>1, <1>4, <1>5 DEF ProgramOK, V, Op
<1>6. \A v \in V : 1..(v - 1) \subseteq V
  BY <1>2
<1> QED
  BY <1>3, <1>4, <1>5, <1>6

\* Hierarchy ops, herds and channel ops.
LEMMA KindFacts ==
    ASSUME prog \in Programs, NEW v \in V
    PROVE  /\ Op(v).kind \in {"segment", "herd"} => Op(v).sub \in Nodes /\ Op(v).sub # Op(v).node
           /\ v \in Herds => TilesOf(v) \in Nat
           /\ Op(v).kind \in {"put", "get"} =>
                 Op(v).chan \in Chans /\ prog.fanout[Op(v).chan] \in Nat \ {0}
           /\ \A w \in V : (/\ Op(v).kind \in {"segment", "herd"}
                            /\ Op(w).kind \in {"segment", "herd"}
                            /\ Op(v).sub = Op(w).sub) => v = w
           /\ \A w \in V : v \in Herds /\ w \in Herds => Op(v).node = Op(w).node
<1>1. ProgramOK(prog)
  BY RunnerAssumption
<1>2. Nodes = 1..Len(prog.nodes) /\ Op(v).node \in Nodes /\ Len(prog.nodes) \in Nat
  BY ProgramFacts
<1>3. Op(v).kind \in {"segment", "herd"} => Op(v).sub \in (Op(v).node + 1)..Len(prog.nodes)
  BY <1>1 DEF ProgramOK, V, Op
<1>4. Op(v).kind \in {"segment", "herd"} => Op(v).sub \in Nodes /\ Op(v).sub # Op(v).node
  BY <1>2, <1>3
<1>5. Op(v).kind = "herd" => prog.herdTiles[Op(v).sub] \in Nat
  BY <1>1 DEF ProgramOK, V, Op
<1>6. Op(v).kind \in {"put", "get"} => Op(v).chan \in Chans /\ prog.fanout[Op(v).chan] \in Nat \ {0}
  BY <1>1 DEF ProgramOK, V, Op, Chans
<1>7. ASSUME NEW w \in V
      PROVE  /\ (/\ Op(v).kind \in {"segment", "herd"} /\ Op(w).kind \in {"segment", "herd"}
                 /\ Op(v).sub = Op(w).sub) => v = w
             /\ Op(v).kind = "herd" /\ Op(w).kind = "herd" => Op(v).node = Op(w).node
  BY <1>1 DEF ProgramOK, V, Op
<1> QED
  BY <1>4, <1>5, <1>6, <1>7 DEF Herds, TilesOf

\* Every node has its start vertex and its terminator.
LEMMA StartFacts ==
    ASSUME prog \in Programs, NEW n \in Nodes
    PROVE  /\ StartOf(n) \in V /\ Op(StartOf(n)).node = n /\ Op(StartOf(n)).kind = "start"
           /\ EndOf(n) \in V /\ Op(EndOf(n)).node = n /\ Op(EndOf(n)).kind = "end"
           /\ \A v \in V : Op(v).node = n /\ Op(v).kind = "start" => v = StartOf(n)
           /\ \A v \in V : Op(v).node = n /\ Op(v).kind = "end" => v = EndOf(n)
<1>1. ProgramOK(prog)
  BY RunnerAssumption
<1>2. ASSUME NEW k \in {"start", "end"}
      PROVE  \E v \in V : \A w \in V : (Op(w).node = n /\ Op(w).kind = k) <=> w = v
  <2>1. \A m \in 1..Len(prog.nodes), l \in {"start", "end"} :
           \E i \in DOMAIN prog.ops : \A j \in DOMAIN prog.ops :
              (prog.ops[j].node = m /\ prog.ops[j].kind = l) <=> j = i
    BY <1>1, Zenon DEF ProgramOK
  <2> QED
    BY <1>2, <2>1 DEF V, Op, Nodes
<1>3. PICK s \in V : \A w \in V : (Op(w).node = n /\ Op(w).kind = "start") <=> w = s
  BY <1>2
<1>4. PICK e \in V : \A w \in V : (Op(w).node = n /\ Op(w).kind = "end") <=> w = e
  BY <1>2
<1>5. StartOf(n) = s
  BY <1>3 DEF StartOf
<1>6. EndOf(n) = e
  BY <1>4 DEF EndOf
<1> QED
  BY <1>3, <1>4, <1>5, <1>6

\* The program does not change, nor what is derived from it.
LEMMA SameProgram ==
    ASSUME prog' = prog
    PROVE  /\ V' = V /\ Nodes' = Nodes /\ Chans' = Chans /\ Tiles' = Tiles
           /\ Herds' = Herds /\ HerdNodes' = HerdNodes
           /\ \A v : Op(v)' = Op(v) /\ TilesOf(v)' = TilesOf(v)
           /\ \A n : StartOf(n)' = StartOf(n) /\ EndOf(n)' = EndOf(n)
<1>1. V' = V /\ Nodes' = Nodes /\ Chans' = Chans /\ Tiles' = Tiles
  BY DEF V, Nodes, Chans, Tiles
<1>2. \A v : Op(v)' = Op(v) /\ TilesOf(v)' = TilesOf(v)
  BY DEF Op, TilesOf
<1>3. Herds' = Herds /\ HerdNodes' = HerdNodes
  BY DEF Herds, HerdNodes, V, Op
<1>4. \A n : StartOf(n)' = StartOf(n) /\ EndOf(n)' = EndOf(n)
  BY DEF StartOf, EndOf, V, Op
<1> QED
  BY <1>1, <1>2, <1>3, <1>4

\* The node a phase is about.
LEMMA NodeFacts ==
    ASSUME Typed, pass <= 2 * Len(prog.nodes) PROVE node \in Nodes
<1>1. Len(prog.nodes) \in Nat \ {0} /\ Nodes = 1..Len(prog.nodes)
  BY ProgramFacts DEF Typed
<1> QED
  BY <1>1 DEF node, Typed

\* Looking at the head of the queue.
LEMMA TailFacts ==
    ASSUME NEW S, NEW q \in Seq(S), q # <<>>, Distinct(q)
    PROVE  /\ Head(q) \in S /\ Contains(q, Head(q))
           /\ Tail(q) \in Seq(S) /\ Distinct(Tail(q))
           /\ \A u : Contains(Tail(q), u) <=> Contains(q, u) /\ u # Head(q)
           /\ Len(Tail(q)) = Len(q) - 1 /\ \A i \in 1..Len(Tail(q)) : Tail(q)[i] = q[i + 1]
<1>1. /\ Head(q) = q[1] /\ Head(q) \in S /\ 1 \in 1..Len(q) /\ Len(q) \in Nat
      /\ Tail(q) \in Seq(S) /\ Len(Tail(q)) = Len(q) - 1
      /\ \A i \in 1..(Len(q) - 1) : Tail(q)[i] = q[i + 1]
  OBVIOUS
<1>2. Distinct(Tail(q))
  <2> SUFFICES ASSUME NEW a \in 1..(Len(q) - 1), NEW b \in 1..(Len(q) - 1),
                      Tail(q)[a] = Tail(q)[b]
               PROVE  a = b
    BY <1>1 DEF Distinct
  <2>1. q[a + 1] = q[b + 1] /\ a + 1 \in 1..Len(q) /\ b + 1 \in 1..Len(q)
    BY <1>1
  <2> QED
    BY <2>1 DEF Distinct
<1>3. ASSUME NEW u, Contains(Tail(q), u) PROVE Contains(q, u) /\ u # Head(q)
  <2>1. PICK i \in 1..(Len(q) - 1) : Tail(q)[i] = u
    BY <1>1, <1>3 DEF Contains
  <2>2. q[i + 1] = u /\ i + 1 \in 1..Len(q) /\ i + 1 # 1
    BY <1>1, <2>1
  <2> QED
    BY <1>1, <2>2 DEF Contains, Distinct
<1>4. ASSUME NEW u, Contains(q, u), u # Head(q) PROVE Contains(Tail(q), u)
  <2>1. PICK i \in 1..Len(q) : q[i] = u
    BY <1>4 DEF Contains
  <2>2. i - 1 \in 1..(Len(q) - 1) /\ (i - 1) + 1 = i
    BY <1>1, <1>4, <2>1
  <2>3. Tail(q)[i - 1] = u
    BY <1>1, <2>1, <2>2
  <2> QED
    BY <1>1, <2>2, <2>3 DEF Contains
<1>5. Contains(q, Head(q))
  BY <1>1 DEF Contains
<1> QED
  BY <1>1, <1>2, <1>3, <1>4, <1>5

LEMMA ContainsType ==
    ASSUME NEW S, NEW q \in Seq(S), NEW u, Contains(q, u) PROVE u \in S
  BY DEF Contains

LEMMA EmptyFacts == Distinct(<<>>) /\ \A u : ~Contains(<<>>, u)
  BY DEF Distinct, Contains

-----------------------------------------------------------------------------
(* What steps do to the wavefronts and queues.                             *)

\* A step that leaves the graphs alone.
LEMMA StillStep ==
    ASSUME Core, UNCHANGED <<prog, wave, processed, started, released, ended, sent>>
    PROVE  WaveInv' /\ TimesInv' /\ StartInv'
<1> USE DEF Core
<1>0. prog \in Programs
  BY DEF Typed
<1>1. V' = V /\ Nodes' = Nodes /\ \A v : Op(v)' = Op(v)
  BY SameProgram
<1>2. \A n : StartOf(n)' = StartOf(n)
  BY SameProgram
<1>3. WaveInv'
  BY <1>1 DEF WaveInv, Distinct, Contains
<1>4. TimesInv'
  BY <1>1 DEF TimesInv
<1>5. StartInv'
  BY <1>1, <1>2 DEF StartInv, Contains
<1> QED
  BY <1>3, <1>4, <1>5

\* The queue loses its head and nothing else changes.
LEMMA QueueTail ==
    ASSUME Core, UNCHANGED <<prog, pass, phase, wave, processed, started>>,
           queue # <<>>, queue' = Tail(queue)
    PROVE  QueueInv'
<1> USE DEF Core
<1>1. V' = V /\ \A v : Op(v)' = Op(v)
  BY SameProgram
<1>2. \A n : StartOf(n)' = StartOf(n)
  BY SameProgram
<1>3. queue \in Seq(V) /\ Distinct(queue)
  BY DEF Typed, QueueInv
<1>4. Distinct(queue') /\ \A u : Contains(queue', u) => Contains(queue, u)
  BY <1>3, TailFacts
<1>5. node' = node
  BY DEF node
<1>6. \A v : Contains(wave[node], v)' = Contains(wave[node], v)
  BY <1>5 DEF Contains
<1> QED
  BY <1>1, <1>2, <1>4, <1>5, <1>6 DEF QueueInv

\* Executing an op takes it off the wavefront; only a channel op may go
\* without being processed.
LEMMA RemoveStep ==
    ASSUME Core, UNCHANGED <<prog, pass, phase, started>>, phase = "exec",
           queue # <<>>, queue' = Tail(queue),
           wave' = [wave EXCEPT ![node] = Without(@, Head(queue))],
           \/ processed' = processed \union {Head(queue)}
           \/ processed' = processed /\ Op(Head(queue)).kind \in {"put", "get"}
    PROVE  WaveInv' /\ StartInv' /\ QueueInv'
<1> USE DEF Core
<1> DEFINE v == Head(queue)
<1>0. node \in Nodes /\ wave[node] \in Seq(V) /\ wave \in [Nodes -> Seq(V)] /\ processed \subseteq V
  BY NodeFacts DEF QueueInv, Typed
<1>1. V' = V /\ Nodes' = Nodes /\ \A u : Op(u)' = Op(u)
  BY SameProgram
<1>2. node' = node /\ \A n : StartOf(n)' = StartOf(n)
  BY SameProgram DEF node
<1>3. queue \in Seq(V) /\ Distinct(queue)
  BY DEF Typed, QueueInv
<1>4. /\ v \in V /\ Contains(queue, v) /\ Distinct(queue')
      /\ \A u : Contains(queue', u) <=> Contains(queue, u) /\ u # v
  BY <1>3, TailFacts
<1>5. Contains(wave[node], v) /\ Distinct(wave[node])
  BY <1>0, <1>4 DEF QueueInv, WaveInv
<1> HIDE DEF v
<1>6. /\ Distinct(Without(wave[node], v))
      /\ \A u : Contains(Without(wave[node], v), u) <=> Contains(wave[node], u) /\ u # v
  BY <1>0, <1>5, WithoutFacts
<1>7. wave'[node] = Without(wave[node], v) /\ \A n \in Nodes : n # node => wave'[n] = wave[n]
  BY <1>0 DEF v
<1>8. Op(v).node = node /\ started[v] # 0
  BY <1>0, <1>4, <1>5 DEF WaveInv
<1>9. \A u \in V : u # v => (u \in processed' <=> u \in processed)
  BY DEF v
<1>10. processed' \subseteq V /\ processed \subseteq processed'
  BY <1>0, <1>4 DEF v
<1>11. WaveInv'
  <2> SUFFICES ASSUME NEW n \in Nodes
               PROVE  /\ Distinct(wave'[n])
                      /\ \A u \in V : Contains(wave'[n], u) =>
                            Op(u).node = n /\ started[u] # 0 /\ u \notin processed'
    BY <1>1 DEF WaveInv, Distinct, Contains
  <2>1. CASE n = node
    BY <1>6, <1>7, <1>9, <2>1 DEF WaveInv
  <2>2. CASE n # node
    BY <1>7, <1>8, <1>9, <2>2 DEF WaveInv
  <2> QED
    BY <2>1, <2>2
<1>12. StartInv'
  <2>1. \A u \in V : started[u] # 0 => started[StartOf(Op(u).node)] # 0
    BY DEF StartInv
  <2>2. \A u \in processed' : started[u] # 0
    BY <1>8, <1>9, <1>10 DEF StartInv
  <2>3. ASSUME NEW u \in V, started[u] # 0, Op(u).kind \notin {"put", "get"}
        PROVE  u \in processed' \/ Contains(wave'[Op(u).node], u)
    <3>0. Op(u).node \in Nodes
      BY <2>3, ProgramFacts DEF Typed
    <3>1. u \in processed \/ Contains(wave[Op(u).node], u)
      BY <2>3 DEF StartInv
    <3>2. CASE u = v
      BY <2>3, <3>2 DEF v
    <3>3. CASE u # v
      BY <1>6, <1>7, <1>10, <3>0, <3>1, <3>3
    <3> QED
      BY <3>2, <3>3
  <2>4. \A u \in V : (/\ Op(u).kind \in {"segment", "herd"}
                      /\ started[StartOf(Op(u).sub)] # 0) => u \in processed'
    BY <1>10 DEF StartInv
  <2> QED
    BY <1>1, <1>2, <2>1, <2>2, <2>3, <2>4 DEF StartInv, Contains
<1>13. QueueInv'
  <2>1. ASSUME NEW u \in V, Contains(queue', u) PROVE Contains(wave'[node], u)
    BY <1>4, <1>6, <1>7, <2>1 DEF QueueInv
  <2> QED
    BY <1>1, <1>2, <1>4, <2>1 DEF QueueInv, Contains
<1> QED
  BY <1>11, <1>12, <1>13

\* Admitting the head of the queue: an op that was neither on the wavefront
\* nor processed, so that one that is no channel op starts only once.
LEMMA AdmitStep ==
    ASSUME Core, UNCHANGED <<prog, pass, phase, processed>>, phase = "push",
           queue # <<>>, queue' = Tail(queue), Admit(Head(queue))
    PROVE  /\ WaveInv' /\ StartInv' /\ QueueInv'
           /\ \A u \in V : started'[u] <= released'[u] /\ released'[u] <= ended'[u]
           /\ Op(Head(queue)).kind \notin {"put", "get"} => started[Head(queue)] = 0
           /\ Head(queue) \in V /\ Op(Head(queue)).node = node /\ node \in Nodes
           /\ Op(Head(queue)).kind # "start" /\ started[StartOf(node)] # 0
           /\ wave' \in [Nodes -> Seq(V)]
           /\ \A n \in Nodes : \A u \in V : Contains(wave'[n], u) <=>
                 Contains(wave[n], u) \/ (n = node /\ u = Head(queue))
<1> USE DEF Core
<1> DEFINE v == Head(queue)
<1>0. node \in Nodes /\ wave[node] \in Seq(V) /\ wave \in [Nodes -> Seq(V)] /\ processed \subseteq V
  BY NodeFacts DEF QueueInv, Typed
<1>1. V' = V /\ Nodes' = Nodes /\ \A u : Op(u)' = Op(u)
  BY SameProgram
<1>2. node' = node /\ \A n : StartOf(n)' = StartOf(n)
  BY SameProgram DEF node
<1>3. queue \in Seq(V) /\ Distinct(queue)
  BY DEF Typed, QueueInv
<1>4. /\ v \in V /\ Contains(queue, v) /\ Distinct(queue')
      /\ \A u : Contains(queue', u) <=> Contains(queue, u) /\ u # v
  BY <1>3, TailFacts
<1>5. /\ Op(v).node = node /\ Op(v).kind # "start" /\ v \notin processed
      /\ ~Contains(wave[node], v) /\ started[StartOf(node)] # 0
  BY <1>4 DEF QueueInv
<1>6. /\ started' = [started EXCEPT ![v] = time] /\ released' = [released EXCEPT ![v] = time + Op(v).cost]
      /\ ended' = [ended EXCEPT ![v] = time + Op(v).cost + Op(v).flight]
      /\ wave' = [wave EXCEPT ![node] = Append(@, v)]
  BY DEF Admit
<1> HIDE DEF v
<1>7. /\ Append(wave[node], v) \in Seq(V) /\ Distinct(Append(wave[node], v))
      /\ \A u : Contains(Append(wave[node], v), u) <=> Contains(wave[node], u) \/ u = v
  <2>1. Distinct(wave[node])
    BY <1>0 DEF WaveInv
  <2> QED
    BY <1>0, <1>4, <1>5, <2>1, AppendFacts
<1>8. wave'[node] = Append(wave[node], v) /\ \A n \in Nodes : n # node => wave'[n] = wave[n]
  BY <1>0, <1>6
<1>9. /\ time \in Nat \ {0} /\ Op(v).cost \in Nat /\ Op(v).flight \in Nat
      /\ started \in [V -> Nat] /\ released \in [V -> Nat] /\ ended \in [V -> Nat]
  BY <1>4, ProgramFacts DEF Typed
<1>10. /\ started'[v] = time /\ \A u \in V : u # v => started'[u] = started[u]
       /\ released'[v] = time + Op(v).cost /\ \A u \in V : u # v => released'[u] = released[u]
       /\ ended'[v] = time + Op(v).cost + Op(v).flight /\ \A u \in V : u # v => ended'[u] = ended[u]
  BY <1>4, <1>6, <1>9
<1>11. \A u \in V : started[u] # 0 => started'[u] # 0
  BY <1>9, <1>10
<1>12. ASSUME NEW u \in V
       PROVE  started'[u] <= released'[u] /\ released'[u] <= ended'[u]
  <2>1. CASE u = v
    BY <1>9, <1>10, <2>1
  <2>2. CASE u # v
    BY <1>10, <2>2 DEF TimesInv
  <2> QED
    BY <2>1, <2>2
<1>13. \A n \in Nodes : \A u \in V : Contains(wave'[n], u) <=>
          Contains(wave[n], u) \/ (n = node /\ u = v)
  BY <1>0, <1>7, <1>8
<1>14. WaveInv'
  <2> SUFFICES ASSUME NEW n \in Nodes
               PROVE  /\ Distinct(wave'[n])
                      /\ \A u \in V : Contains(wave'[n], u) =>
                            Op(u).node = n /\ started'[u] # 0 /\ u \notin processed
    BY <1>1 DEF WaveInv, Distinct, Contains
  <2>1. Distinct(wave'[n])
    <3>1. n = node \/ (wave'[n] = wave[n] /\ Distinct(wave[n]))
      BY <1>8 DEF WaveInv
    <3> QED
      BY <1>7, <1>8, <3>1
  <2>2. ASSUME NEW u \in V, Contains(wave'[n], u)
        PROVE  Op(u).node = n /\ started'[u] # 0 /\ u \notin processed
    <3>1. CASE Contains(wave[n], u)
      BY <1>11, <3>1 DEF WaveInv
    <3>2. CASE n = node /\ u = v
      BY <1>5, <1>9, <1>10, <3>2
    <3> QED
      BY <1>13, <2>2, <3>1, <3>2
  <2> QED
    BY <2>1, <2>2
<1>15. \A n \in Nodes : StartOf(n) \in V /\ Op(StartOf(n)).kind = "start"
  BY StartFacts DEF Typed
<1>16. \A n \in Nodes : started'[StartOf(n)] = started[StartOf(n)]
  BY <1>5, <1>10, <1>15
<1>17. StartInv'
  <2>1. ASSUME NEW u \in V, started'[u] # 0 PROVE started'[StartOf(Op(u).node)] # 0
    <3>1. Op(u).node \in Nodes
      BY <2>1, ProgramFacts DEF Typed
    <3>2. CASE u = v
      BY <1>0, <1>5, <1>16, <3>2
    <3>3. CASE u # v
      BY <1>10, <1>16, <2>1, <3>1, <3>3 DEF StartInv
    <3> QED
      BY <3>2, <3>3
  <2>2. \A u \in processed : started'[u] # 0
    BY <1>0, <1>11 DEF StartInv
  <2>3. ASSUME NEW u \in V, started'[u] # 0, Op(u).kind \notin {"put", "get"}
        PROVE  u \in processed \/ Contains(wave'[Op(u).node], u)
    <3>0. Op(u).node \in Nodes
      BY <2>3, ProgramFacts DEF Typed
    <3>1. CASE u = v
      BY <1>0, <1>5, <1>13, <3>1
    <3>2. CASE u # v
      BY <1>10, <1>13, <2>3, <3>0, <3>2 DEF StartInv
    <3> QED
      BY <3>1, <3>2
  <2>4. ASSUME NEW u \in V, Op(u).kind \in {"segment", "herd"},
               started'[StartOf(Op(u).sub)] # 0
        PROVE  u \in processed
    <3>1. Op(u).sub \in Nodes
      BY <2>4, KindFacts DEF Typed
    <3> QED
      BY <1>16, <2>4, <3>1 DEF StartInv
  <2> QED
    BY <1>1, <1>2, <2>1, <2>2, <2>3, <2>4 DEF StartInv, Contains
<1>18. QueueInv'
  <2>1. ASSUME NEW u \in V, Contains(queue', u)
        PROVE  /\ Op(u).node = node /\ Op(u).kind # "start"
               /\ u \notin processed /\ ~Contains(wave'[node], u)
               /\ started'[StartOf(node)] # 0
    BY <1>0, <1>4, <1>5, <1>13, <1>16, <2>1 DEF QueueInv
  <2> QED
    BY <1>1, <1>2, <1>4, <2>1 DEF QueueInv, Contains
<1>19. Op(v).kind \notin {"put", "get"} => started[v] = 0
  BY <1>4, <1>5 DEF StartInv
<1>20. wave' \in [Nodes -> Seq(V)]
  BY <1>0, <1>6, <1>7
<1> QED
  BY <1>0, <1>4, <1>5, <1>12, <1>13, <1>14, <1>17, <1>18, <1>19, <1>20 DEF v

\* A segment or herd op starts its node: it had not started before.
LEMMA HierarchyStep ==
    ASSUME Core, ExecuteHierarchy, outcome' # "assertion"
    PROVE  LET v == Head(queue)
               n == Op(v).sub
           IN  /\ WaveInv' /\ StartInv' /\ QueueInv' /\ TimesInv'
               /\ v \in V /\ n \in Nodes /\ node \in Nodes /\ n # node
               /\ Op(v).kind \in {"segment", "herd"}
               /\ Contains(wave[node], v) /\ started[StartOf(n)] = 0
               /\ started' \in [V -> Nat] /\ released' \in [V -> Nat] /\ ended' \in [V -> Nat]
               /\ started'[StartOf(n)] # 0
               /\ \A u \in V : u # StartOf(n) => started'[u] = started[u] /\ ended'[u] = ended[u]
               /\ wave' \in [Nodes -> Seq(V)] /\ processed' = processed \union {v}
               /\ \A m \in Nodes : \A u \in V : Contains(wave'[m], u) <=>
                     \/ Contains(wave[m], u) /\ u # v
                     \/ m = n /\ u = StartOf(n)
<1> USE DEF Core
<1> DEFINE v == Head(queue)
           n == Op(v).sub
           s == StartOf(n)
<1>0. /\ phase = "exec" /\ queue # <<>> /\ queue' = Tail(queue)
      /\ UNCHANGED <<prog, time, pass, phase, sent>>
      /\ Op(v).kind \in {"segment", "herd"}
  BY DEF ExecuteHierarchy, Execute, Running, links
<1>1. /\ wave' = [wave EXCEPT ![node] = Without(@, v), ![n] = <<s>>]
      /\ processed' = processed \union {v}
      /\ started' = [started EXCEPT ![s] = time]
      /\ released' = [released EXCEPT ![s] = time]
      /\ ended' = [ended EXCEPT ![s] = time]
      /\ wave[n] = <<>>
  BY DEF ExecuteHierarchy
<1>2. node \in Nodes /\ wave[node] \in Seq(V) /\ wave \in [Nodes -> Seq(V)] /\ processed \subseteq V
  BY <1>0, NodeFacts DEF QueueInv, Typed
<1>3. V' = V /\ Nodes' = Nodes /\ \A u : Op(u)' = Op(u)
  BY <1>0, SameProgram
<1>4. node' = node /\ \A m : StartOf(m)' = StartOf(m)
  BY <1>0, SameProgram DEF node
<1>5. queue \in Seq(V) /\ Distinct(queue)
  BY DEF Typed, QueueInv
<1>6. /\ v \in V /\ Contains(queue, v) /\ Distinct(queue')
      /\ \A u : Contains(queue', u) <=> Contains(queue, u) /\ u # v
  BY <1>0, <1>5, TailFacts
<1>7. Contains(wave[node], v) /\ Distinct(wave[node])
  BY <1>0, <1>2, <1>6 DEF QueueInv, WaveInv
<1>8. Op(v).node = node /\ started[v] # 0 /\ v \notin processed
  BY <1>2, <1>6, <1>7 DEF WaveInv
<1>9. n \in Nodes /\ n # node
  BY <1>0, <1>6, <1>8, KindFacts DEF Typed
<1>10. s \in V /\ Op(s).node = n /\ Op(s).kind = "start"
  BY <1>9, StartFacts DEF Typed
<1>11. started[s] = 0
  BY <1>0, <1>6, <1>8 DEF StartInv
<1> HIDE DEF v, n, s
<1>12. /\ Without(wave[node], v) \in Seq(V) /\ Distinct(Without(wave[node], v))
       /\ \A u : Contains(Without(wave[node], v), u) <=> Contains(wave[node], u) /\ u # v
  BY <1>2, <1>7, WithoutFacts
<1>13. /\ wave'[node] = Without(wave[node], v) /\ wave'[n] = <<s>>
       /\ \A m \in Nodes : m # node /\ m # n => wave'[m] = wave[m]
       /\ wave' \in [Nodes -> Seq(V)]
  <2> DEFINE w == Without(wave[node], v)
             one == <<s>>
  <2>1. wave' = [[wave EXCEPT ![node] = w] EXCEPT ![n] = one]
    BY <1>1
  <2>2. w \in Seq(V)
    BY <1>12
  <2>3. one \in Seq(V)
    BY <1>10
  <2> HIDE DEF w, one
  <2>4. /\ wave'[node] = w /\ wave'[n] = one
        /\ \A m \in Nodes : m # node /\ m # n => wave'[m] = wave[m]
        /\ wave' \in [Nodes -> Seq(V)]
    BY <1>2, <1>9, <2>1, <2>2, <2>3
  <2> QED
    BY <2>4 DEF w, one
<1>14. Distinct(<<s>>) /\ \A u : Contains(<<s>>, u) <=> u = s
  BY DEF Distinct, Contains
<1>15. \A u : ~Contains(wave[n], u)
  BY <1>1, EmptyFacts
<1>16. \A m \in Nodes : \A u \in V : Contains(wave[m], u) => Op(u).node = m
  BY DEF WaveInv
<1>17. ASSUME NEW m \in Nodes, NEW u \in V
       PROVE  Contains(wave'[m], u) <=> (Contains(wave[m], u) /\ u # v) \/ (m = n /\ u = s)
  <2>1. CASE m = node
    BY <1>9, <1>12, <1>13, <2>1
  <2>2. CASE m = n
    BY <1>13, <1>14, <1>15, <2>2
  <2>3. CASE m # node /\ m # n
    BY <1>8, <1>13, <1>16, <1>17, <2>3
  <2> QED
    BY <2>1, <2>2, <2>3
<1>18. /\ time \in Nat \ {0} /\ started \in [V -> Nat] /\ released \in [V -> Nat]
       /\ ended \in [V -> Nat]
  BY DEF Typed
<1>19. /\ started'[s] = time /\ \A u \in V : u # s => started'[u] = started[u]
       /\ released'[s] = time /\ \A u \in V : u # s => released'[u] = released[u]
       /\ ended'[s] = time /\ \A u \in V : u # s => ended'[u] = ended[u]
       /\ started' \in [V -> Nat] /\ released' \in [V -> Nat] /\ ended' \in [V -> Nat]
  BY <1>1, <1>10, <1>18
<1>20. \A u \in V : started[u] # 0 => started'[u] # 0
  BY <1>18, <1>19
<1>21. TimesInv'
  <2>1. ASSUME NEW u \in V
        PROVE  started'[u] <= released'[u] /\ released'[u] <= ended'[u] /\ sent[u] <= Op(u).width
    BY <1>18, <1>19 DEF TimesInv
  <2> QED
    BY <1>0, <1>3, <2>1 DEF TimesInv
<1>22. WaveInv'
  <2> SUFFICES ASSUME NEW m \in Nodes
               PROVE  /\ Distinct(wave'[m])
                      /\ \A u \in V : Contains(wave'[m], u) =>
                            Op(u).node = m /\ started'[u] # 0 /\ u \notin processed'
    BY <1>3 DEF WaveInv, Distinct, Contains
  <2>1. Distinct(wave'[m])
    BY <1>12, <1>13, <1>14 DEF WaveInv
  <2>2. ASSUME NEW u \in V, Contains(wave'[m], u)
        PROVE  Op(u).node = m /\ started'[u] # 0 /\ u \notin processed'
    <3>1. CASE Contains(wave[m], u) /\ u # v
      BY <1>1, <1>20, <3>1 DEF WaveInv
    <3>2. CASE m = n /\ u = s
      <4>1. s \notin processed /\ s # v
        BY <1>8, <1>10, <1>11 DEF StartInv
      <4> QED
        BY <1>1, <1>10, <1>18, <1>19, <3>2, <4>1
    <3> QED
      BY <1>17, <2>2, <3>1, <3>2
  <2> QED
    BY <2>1, <2>2
<1>23. StartInv'
  <2>1. ASSUME NEW u \in V, started'[u] # 0 PROVE started'[StartOf(Op(u).node)] # 0
    <3>1. Op(u).node \in Nodes /\ StartOf(Op(u).node) \in V
      BY <2>1, ProgramFacts, StartFacts DEF Typed
    <3>2. CASE u = s
      BY <1>10, <2>1, <3>2 DEF s
    <3>3. CASE u # s
      BY <1>19, <1>20, <2>1, <3>1, <3>3 DEF StartInv
    <3> QED
      BY <3>2, <3>3
  <2>2. \A u \in processed' : started'[u] # 0
    BY <1>1, <1>2, <1>6, <1>8, <1>20 DEF StartInv
  <2>3. ASSUME NEW u \in V, started'[u] # 0, Op(u).kind \notin {"put", "get"}
        PROVE  u \in processed' \/ Contains(wave'[Op(u).node], u)
    <3>0. Op(u).node \in Nodes
      BY <2>3, ProgramFacts DEF Typed
    <3>1. CASE u = s
      BY <1>9, <1>10, <1>17, <3>1
    <3>2. CASE u # s
      BY <1>1, <1>17, <1>19, <2>3, <3>0, <3>2 DEF StartInv
    <3> QED
      BY <3>1, <3>2
  <2>4. ASSUME NEW u \in V, Op(u).kind \in {"segment", "herd"},
               started'[StartOf(Op(u).sub)] # 0
        PROVE  u \in processed'
    <3>1. Op(u).sub \in Nodes
      BY <2>4, KindFacts DEF Typed
    <3>2. StartOf(Op(u).sub) \in V /\ Op(StartOf(Op(u).sub)).node = Op(u).sub
      BY <3>1, StartFacts DEF Typed
    <3>3. CASE StartOf(Op(u).sub) = s
      <4>1. Op(u).sub = Op(v).sub
        BY <1>10, <3>2, <3>3 DEF n
      <4>2. u = v
        BY <1>0, <1>6, <2>4, <4>1, KindFacts DEF Typed, v
      <4> QED
        BY <1>1, <4>2
    <3>4. CASE StartOf(Op(u).sub) # s
      BY <1>1, <1>19, <2>4, <3>2, <3>4 DEF StartInv
    <3> QED
      BY <3>3, <3>4
  <2> QED
    BY <1>3, <1>4, <2>1, <2>2, <2>3, <2>4 DEF StartInv, Contains
<1>24. QueueInv'
  <2>1. ASSUME NEW u \in V, Contains(queue', u) PROVE Contains(wave'[node], u)
    BY <1>0, <1>2, <1>6, <1>17, <2>1 DEF QueueInv
  <2> QED
    BY <1>0, <1>3, <1>4, <1>6, <2>1 DEF QueueInv, Contains
<1>25. started'[s] # 0
  BY <1>18, <1>19
<1> QED
  BY <1>0, <1>1, <1>2, <1>6, <1>7, <1>9, <1>11, <1>13, <1>17, <1>19, <1>21, <1>22, <1>23,
     <1>24, <1>25 DEF v, n, s

-----------------------------------------------------------------------------
(* Core is inductive: one lemma per action.                                *)

\* A phase begins with some of the ops of the wavefront.
LEMMA InOrderFacts ==
    ASSUME Core, node \in Nodes, NEW S, S \subseteq ToSet(wave[node]),
           NEW q \in InOrder(S, wave[node])
    PROVE  q \in Seq(V) /\ Distinct(q) /\ \A u : Contains(q, u) => Contains(wave[node], u)
<1>1. wave[node] \in Seq(V) /\ IsFiniteSet(V)
  BY ProgramFacts DEF Core, Typed
<1>2. \A u \in S : Contains(wave[node], u)
  BY <1>1 DEF ToSet, Contains
<1>3. S \subseteq V
  BY <1>1, <1>2, ContainsType
<1>4. IsFiniteSet(S)
  BY <1>1, <1>3, FS_Subset
<1>5. q \in Seq(S) /\ Distinct(q) /\ \A u : Contains(q, u) <=> u \in S
  BY <1>4, SetToSeqsFacts DEF InOrder
<1>6. q \in Seq(V)
  BY <1>3, <1>5
<1> QED
  BY <1>2, <1>5, <1>6

LEMMA BeginFreeCore == ASSUME Core, BeginFree PROVE Core'
<1>1. /\ queue' \in InOrder(Landing, wave[node]) /\ phase' = "free" /\ pass <= 2 * Len(prog.nodes)
      /\ UNCHANGED <<prog, time, pass, blocked, wave, processed, taken, hiers, diagnosed, outcome>>
      /\ UNCHANGED <<started, released, ended, freed, ready, sent, tokens, moved>>
  BY DEF BeginFree, Running, timing, links
<1>2. node \in Nodes /\ Landing \subseteq ToSet(wave[node])
  BY <1>1, NodeFacts DEF Core, Landing
<1>3. queue' \in Seq(V) /\ Distinct(queue') /\ \A u : Contains(queue', u) => Contains(wave[node], u)
  BY <1>1, <1>2, InOrderFacts
<1>4. V' = V /\ Nodes' = Nodes /\ Chans' = Chans /\ Tiles' = Tiles /\ node' = node
  BY <1>1, SameProgram DEF node
<1>5. Typed'
  BY <1>1, <1>3, <1>4 DEF Core, Typed
<1>6. QueueInv'
  BY <1>1, <1>3, <1>4 DEF QueueInv, Contains
<1> QED
  BY <1>1, <1>5, <1>6, StillStep DEF Core

LEMMA BeginExecCore == ASSUME Core, BeginExec PROVE Core'
<1>1. /\ queue' \in InOrder(Finished, wave[node]) /\ phase' = "exec" /\ pass <= 2 * Len(prog.nodes)
      /\ UNCHANGED <<prog, time, pass, blocked, wave, processed, taken, hiers, diagnosed, outcome>>
      /\ UNCHANGED <<started, released, ended, freed, ready, sent, tokens, moved>>
  BY DEF BeginExec, Running, timing, links
<1>2. node \in Nodes /\ Finished \subseteq ToSet(wave[node])
  BY <1>1, NodeFacts DEF Core, Finished
<1>3. queue' \in Seq(V) /\ Distinct(queue') /\ \A u : Contains(queue', u) => Contains(wave[node], u)
  BY <1>1, <1>2, InOrderFacts
<1>4. V' = V /\ Nodes' = Nodes /\ Chans' = Chans /\ Tiles' = Tiles /\ node' = node
  BY <1>1, SameProgram DEF node
<1>5. Typed'
  BY <1>1, <1>3, <1>4 DEF Core, Typed
<1>6. QueueInv'
  BY <1>1, <1>3, <1>4 DEF QueueInv, Contains
<1> QED
  BY <1>1, <1>5, <1>6, StillStep DEF Core

\* What a push offers: ops that follow a processed one.
LEMMA CandidateFacts ==
    ASSUME Core, node \in Nodes, NEW v \in Candidates
    PROVE  /\ v \in V /\ Op(v).node = node /\ Op(v).kind # "start"
           /\ v \notin processed /\ ~Contains(wave[node], v)
           /\ started[StartOf(node)] # 0
<1>1. /\ v \in V /\ Op(v).node = node /\ v \notin processed /\ Op(v).deps \cap processed # {}
      /\ ~Contains(wave[node], v)
  BY DEF Candidates
<1>2. PICK u \in Op(v).deps : u \in processed
  BY <1>1
<1>3. u \in V /\ Op(u).node = node /\ Op(v).kind # "start"
  BY <1>1, <1>2, ProgramFacts DEF Core, Typed
<1>4. started[u] # 0
  BY <1>2 DEF Core, StartInv
<1> QED
  BY <1>1, <1>3, <1>4 DEF Core, StartInv

LEMMA BeginPushCore == ASSUME Core, BeginPush PROVE Core'
<1> DEFINE able == {v \in Candidates : Fulfilled(v)}
           age == [v \in V |-> IF v \in able \cap Herds /\ ready[v] = 0 THEN time ELSE ready[v]]
<1>0. able \subseteq Candidates
  OBVIOUS
<1>1. /\ queue' \in SetToSeqs(able) /\ ready' = age /\ phase' = "push" /\ blocked' = FALSE
      /\ UNCHANGED <<prog, time, pass, wave, processed, taken, hiers, diagnosed, outcome>>
      /\ UNCHANGED <<started, released, ended, freed, sent, tokens, moved>>
  BY DEF BeginPush, Orders, links
<1>2. pass <= 2 * Len(prog.nodes)
  BY DEF BeginPush, Running
<1>3. node \in Nodes /\ prog \in Programs /\ IsFiniteSet(V)
  BY <1>2, NodeFacts, ProgramFacts DEF Core, Typed
<1>4. age \in [V -> Nat]
  BY DEF Core, Typed
<1> HIDE DEF able, age
<1>5. able \subseteq V /\ IsFiniteSet(able)
  <2>1. able \subseteq V
    BY <1>0 DEF Candidates
  <2> QED
    BY <1>3, <2>1, FS_Subset
<1>6. queue' \in Seq(able) /\ Distinct(queue') /\ \A u : Contains(queue', u) <=> u \in able
  BY <1>1, <1>5, SetToSeqsFacts
<1>7. queue' \in Seq(V)
  BY <1>5, <1>6
<1>8. V' = V /\ Nodes' = Nodes /\ Chans' = Chans /\ Tiles' = Tiles /\ node' = node
  BY <1>1, SameProgram DEF node
<1>9. (\A u : Op(u)' = Op(u)) /\ \A n : StartOf(n)' = StartOf(n)
  BY <1>1, SameProgram
<1>10. Typed'
  BY <1>1, <1>4, <1>7, <1>8 DEF Core, Typed
<1>11. \A u \in V : Contains(queue', u) =>
          /\ Op(u).node = node /\ Op(u).kind # "start"
          /\ u \notin processed /\ ~Contains(wave[node], u)
          /\ started[StartOf(node)] # 0
  BY <1>0, <1>3, <1>6, CandidateFacts
<1>12. QueueInv'
  BY <1>1, <1>2, <1>6, <1>8, <1>9, <1>11 DEF QueueInv, Contains
<1> QED
  BY <1>1, <1>10, <1>12, StillStep DEF Core

LEMMA EndPushCore == ASSUME Core, EndPush PROVE Core'
<1>1. /\ pass' = pass + 1 /\ phase' = "begin" /\ queue = <<>> /\ queue' = queue
      /\ pass <= 2 * Len(prog.nodes)
      /\ UNCHANGED <<prog, time, blocked, wave, processed, taken, hiers, diagnosed, outcome>>
      /\ UNCHANGED <<started, released, ended, freed, ready, sent, tokens, moved>>
  BY DEF EndPush, Running, timing, links
<1>2. V' = V /\ Nodes' = Nodes /\ Chans' = Chans /\ Tiles' = Tiles
  BY <1>1, SameProgram
<1>3. Len(prog.nodes) \in Nat /\ pass \in 1..(2 * Len(prog.nodes) + 1)
  BY ProgramFacts DEF Core, Typed
<1>4. pass' \in 1..(2 * Len(prog.nodes) + 1)
  BY <1>1, <1>3
<1>5. Typed'
  BY <1>1, <1>2, <1>4 DEF Core, Typed
<1>6. QueueInv'
  BY <1>1, EmptyFacts DEF QueueInv, Distinct, Contains
<1> QED
  BY <1>1, <1>5, <1>6, StillStep DEF Core

LEMMA FreeLinkCore == ASSUME Core, FreeLink PROVE Core'
<1>1. /\ freed' = [freed EXCEPT ![Head(queue)] = TRUE] /\ queue # <<>> /\ queue' = Tail(queue)
      /\ UNCHANGED <<prog, time, pass, phase, blocked, wave, processed, taken, hiers, diagnosed, outcome>>
      /\ UNCHANGED <<started, released, ended, ready, sent, tokens, moved>>
  BY DEF FreeLink
<1>2. V' = V /\ Nodes' = Nodes /\ Chans' = Chans /\ Tiles' = Tiles
  BY <1>1, SameProgram
<1>3. freed' \in [V -> BOOLEAN] /\ queue' \in Seq(V)
  BY <1>1 DEF Core, Typed
<1>4. Typed'
  BY <1>1, <1>2, <1>3 DEF Core, Typed
<1> QED
  BY <1>1, <1>4, StillStep, QueueTail DEF Core

\* The wavefront without the head of the queue is a wavefront.
LEMMA RemoveTyped ==
    ASSUME Core, phase \in {"free", "exec"}, queue # <<>>
    PROVE  /\ node \in Nodes /\ Head(queue) \in V /\ Tail(queue) \in Seq(V)
           /\ Contains(wave[node], Head(queue))
           /\ [wave EXCEPT ![node] = Without(@, Head(queue))] \in [Nodes -> Seq(V)]
<1> USE DEF Core
<1>1. node \in Nodes /\ wave[node] \in Seq(V) /\ wave \in [Nodes -> Seq(V)]
  BY NodeFacts DEF QueueInv, Typed
<1>2. Head(queue) \in V /\ Contains(queue, Head(queue)) /\ Tail(queue) \in Seq(V)
  BY TailFacts DEF Typed, QueueInv
<1>3. Contains(wave[node], Head(queue)) /\ Distinct(wave[node])
  BY <1>1, <1>2 DEF QueueInv, WaveInv
<1>4. Without(wave[node], Head(queue)) \in Seq(V)
  BY <1>1, <1>3, WithoutFacts
<1> QED
  BY <1>1, <1>2, <1>3, <1>4

LEMMA ExecuteOtherCore == ASSUME Core, ExecuteOther PROVE Core'
<1>1. /\ queue # <<>> /\ queue' = Tail(queue) /\ phase = "exec"
      /\ wave' = [wave EXCEPT ![node] = Without(@, Head(queue))]
      /\ processed' = processed \union {Head(queue)}
      /\ UNCHANGED <<prog, time, pass, phase, blocked, taken, hiers, diagnosed, outcome>>
      /\ UNCHANGED <<started, released, ended, freed, ready, sent, tokens, moved>>
  BY DEF ExecuteOther, Execute, Running, timing, links
<1>2. V' = V /\ Nodes' = Nodes /\ Chans' = Chans /\ Tiles' = Tiles /\ \A v : Op(v)' = Op(v)
  BY <1>1, SameProgram
<1>3. queue' \in Seq(V) /\ wave' \in [Nodes -> Seq(V)] /\ processed' \in SUBSET V
  BY <1>1, RemoveTyped DEF Core, Typed
<1>4. Typed'
  BY <1>1, <1>2, <1>3 DEF Core, Typed
<1>5. TimesInv'
  BY <1>1, <1>2 DEF Core, TimesInv
<1>6. WaveInv' /\ StartInv' /\ QueueInv'
  BY <1>1, RemoveStep
<1> QED
  BY <1>4, <1>5, <1>6 DEF Core

LEMMA ExecuteHierarchyCore == ASSUME Core, ExecuteHierarchy PROVE Core'
<1>1. CASE outcome' = "assertion"
  <2>1. /\ queue # <<>> /\ queue' = Tail(queue) /\ phase = "exec"
        /\ UNCHANGED <<prog, time, pass, phase, blocked, diagnosed>>
        /\ UNCHANGED <<sent, tokens, moved>>
    BY DEF ExecuteHierarchy, Execute, Running, links
  <2>2. outcome = "running"
    BY DEF ExecuteHierarchy, Execute, Running
  <2>3. UNCHANGED <<wave, processed, taken, hiers, started, released, ended, freed, ready>>
    BY <1>1, <2>2 DEF ExecuteHierarchy, timing
  <2>4. V' = V /\ Nodes' = Nodes /\ Chans' = Chans /\ Tiles' = Tiles
    BY <2>1, SameProgram
  <2>5. queue' \in Seq(V)
    BY <2>1, RemoveTyped
  <2>6. Typed'
    BY <1>1, <2>1, <2>3, <2>4, <2>5 DEF Core, Typed
  <2> QED
    BY <2>1, <2>3, <2>6, StillStep, QueueTail DEF Core
<1>2. CASE outcome' # "assertion"
  <2> DEFINE v == Head(queue)
             n == Op(v).sub
             got == FirstOf(Tiles \ taken, IF v \in Herds THEN TilesOf(v) ELSE 0)
  <2>1. /\ queue # <<>> /\ queue' = Tail(queue) /\ phase = "exec"
        /\ UNCHANGED <<prog, time, pass, phase, blocked, diagnosed>>
        /\ UNCHANGED <<sent, tokens, moved>>
    BY DEF ExecuteHierarchy, Execute, Running, links
  <2>2. /\ taken' = taken \union got /\ hiers' = [hiers EXCEPT ![n] = @ \union got]
        /\ UNCHANGED <<freed, ready, outcome>>
    BY <1>2 DEF ExecuteHierarchy
  <2>3. got \subseteq Tiles
    BY DEF FirstOf
  <2> HIDE DEF got
  <2>4. /\ n \in Nodes /\ v \in V /\ processed' = processed \union {v} /\ wave' \in [Nodes -> Seq(V)]
        /\ started' \in [V -> Nat] /\ released' \in [V -> Nat] /\ ended' \in [V -> Nat]
        /\ WaveInv' /\ StartInv' /\ QueueInv' /\ TimesInv'
    BY <1>2, HierarchyStep
  <2>5. taken' \in SUBSET Tiles /\ hiers' \in [Nodes -> SUBSET Tiles]
    BY <2>2, <2>3, <2>4 DEF Core, Typed
  <2>6. V' = V /\ Nodes' = Nodes /\ Chans' = Chans /\ Tiles' = Tiles
    BY <2>1, SameProgram
  <2>7. queue' \in Seq(V)
    BY <2>1, RemoveTyped
  <2>8. Typed'
    BY <2>1, <2>2, <2>4, <2>5, <2>6, <2>7 DEF Core, Typed
  <2> QED
    BY <2>4, <2>8 DEF Core
<1> QED
  BY <1>1, <1>2

\* A channel op leaves the wavefront, retired or to be offered again.
LEMMA RetireCore ==
    ASSUME Core, phase = "exec", queue # <<>>, queue' = Tail(queue),
           Op(Head(queue)).kind \in {"put", "get"}, NEW STATE r, Retire(Head(queue), r),
           moved' \in [Chans -> [put : Nat, get : Nat]],
           UNCHANGED <<prog, time, pass, phase, blocked, taken, hiers, diagnosed, outcome>>,
           UNCHANGED <<started, released, ended, freed, ready, tokens>>
    PROVE  Core'
<1>1. /\ wave' = [wave EXCEPT ![node] = Without(@, Head(queue))]
      /\ processed' = processed \union {Head(queue)} \/ processed' = processed
      /\ sent' = [sent EXCEPT ![Head(queue)] = 0] \/ sent' = sent
  BY DEF Retire
<1>2. V' = V /\ Nodes' = Nodes /\ Chans' = Chans /\ Tiles' = Tiles /\ \A v : Op(v)' = Op(v)
  BY SameProgram
<1>3. queue' \in Seq(V) /\ wave' \in [Nodes -> Seq(V)] /\ processed' \in SUBSET V
  BY <1>1, RemoveTyped DEF Core, Typed
<1>4. sent' \in [V -> Nat] /\ \A u \in V : sent'[u] <= Op(u).width
  <2>1. \A u \in V : Op(u).width \in Nat /\ sent[u] <= Op(u).width
    BY ProgramFacts DEF Core, Typed, TimesInv
  <2>2. sent \in [V -> Nat] /\ Head(queue) \in V
    BY RemoveTyped DEF Core, Typed
  <2>3. CASE sent' = sent
    BY <2>1, <2>2, <2>3
  <2>4. CASE sent' = [sent EXCEPT ![Head(queue)] = 0]
    <3>1. sent' \in [V -> Nat]
      BY <2>2, <2>4
    <3>2. ASSUME NEW u \in V PROVE sent'[u] = 0 \/ sent'[u] = sent[u]
      BY <2>2, <2>4, <3>2
    <3>3. ASSUME NEW u \in V PROVE sent'[u] <= Op(u).width
      <4> DEFINE w == Op(u).width
      <4>1. w \in Nat /\ sent[u] <= w /\ (sent'[u] = 0 \/ sent'[u] = sent[u])
        BY <2>1, <3>2
      <4> HIDE DEF w
      <4>2. sent'[u] <= w
        BY <4>1
      <4> QED
        BY <4>2 DEF w
    <3> QED
      BY <3>1, <3>3
  <2> QED
    BY <1>1, <2>3, <2>4
<1>5. Typed'
  BY <1>2, <1>3, <1>4 DEF Core, Typed
<1>6. TimesInv'
  BY <1>2, <1>4 DEF Core, TimesInv
<1>7. WaveInv' /\ StartInv' /\ QueueInv'
  BY <1>1, RemoveStep
<1> QED
  BY <1>5, <1>6, <1>7 DEF Core

LEMMA ExecutePutCore == ASSUME Core, ExecutePut PROVE Core'
<1>1. /\ phase = "exec" /\ queue # <<>> /\ queue' = Tail(queue)
      /\ Op(Head(queue)).kind \in {"put", "get"}
      /\ Retire(Head(queue), PutComplete(Head(queue)))
      /\ UNCHANGED <<prog, time, pass, phase, blocked, taken, hiers, diagnosed, outcome>>
      /\ UNCHANGED <<started, released, ended, freed, ready, tokens, moved>>
  BY DEF ExecutePut, Execute, Running, timing
<1>2. moved' \in [Chans -> [put : Nat, get : Nat]]
  BY <1>1 DEF Core, Typed
<1> QED
  BY <1>1, <1>2, RetireCore

LEMMA ExecuteGetCore == ASSUME Core, ExecuteGet PROVE Core'
<1>1. /\ phase = "exec" /\ queue # <<>> /\ queue' = Tail(queue)
      /\ Op(Head(queue)).kind \in {"put", "get"}
      /\ Retire(Head(queue), GetRetires(Head(queue)))
      /\ UNCHANGED <<prog, time, pass, phase, blocked, taken, hiers, diagnosed, outcome>>
      /\ UNCHANGED <<started, released, ended, freed, ready, tokens>>
      /\ \/ moved' = [moved EXCEPT ![Op(Head(queue)).chan] = [put |-> 0, get |-> 0]]
         \/ moved' = moved
  BY DEF ExecuteGet, Execute, Running, timing
<1>2. moved' \in [Chans -> [put : Nat, get : Nat]]
  <2> DEFINE z == [put |-> 0, get |-> 0]
             c == Op(Head(queue)).chan
  <2>1. z \in [put : Nat, get : Nat]
    OBVIOUS
  <2>2. moved \in [Chans -> [put : Nat, get : Nat]]
    BY DEF Core, Typed
  <2>3. moved' = [moved EXCEPT ![c] = z] \/ moved' = moved
    BY <1>1
  <2> HIDE DEF z, c
  <2> QED
    BY <2>1, <2>2, <2>3
<1> QED
  BY <1>1, <1>2, RetireCore

\* Admitting an op keeps the types of the variables it changes.
LEMMA AdmitTyped ==
    ASSUME Core, phase = "push", queue # <<>>, queue' = Tail(queue), Admit(Head(queue)),
           UNCHANGED <<prog, pass, phase, processed>>
    PROVE  /\ queue' \in Seq(V) /\ wave' \in [Nodes -> Seq(V)]
           /\ started' \in [V -> Nat] /\ released' \in [V -> Nat] /\ ended' \in [V -> Nat]
           /\ freed' \in [V -> BOOLEAN] /\ ready' \in [V -> Nat]
<1> DEFINE v == Head(queue)
<1>1. v \in V /\ wave' \in [Nodes -> Seq(V)]
  BY AdmitStep
<1>2. queue' \in Seq(V)
  BY TailFacts DEF Core, Typed, QueueInv
<1>3. time \in Nat /\ Op(v).cost \in Nat /\ Op(v).flight \in Nat
  BY <1>1, ProgramFacts DEF Core, Typed
<1> DEFINE r == time + Op(v).cost
           e == time + Op(v).cost + Op(v).flight
<1>4. r \in Nat /\ e \in Nat
  BY <1>3
<1>5. /\ started' = [started EXCEPT ![v] = time] /\ released' = [released EXCEPT ![v] = r]
      /\ ended' = [ended EXCEPT ![v] = e] /\ freed' = [freed EXCEPT ![v] = FALSE]
      /\ ready' = [ready EXCEPT ![v] = 0]
  BY DEF Admit
<1>6. /\ started \in [V -> Nat] /\ released \in [V -> Nat] /\ ended \in [V -> Nat]
      /\ freed \in [V -> BOOLEAN] /\ ready \in [V -> Nat]
  BY DEF Core, Typed
<1> HIDE DEF r, e, v
<1>7. /\ started' \in [V -> Nat] /\ released' \in [V -> Nat] /\ ended' \in [V -> Nat]
      /\ freed' \in [V -> BOOLEAN] /\ ready' \in [V -> Nat]
  BY <1>3, <1>4, <1>5, <1>6
<1> QED
  BY <1>1, <1>2, <1>7

\* An op that is admitted without touching the channels.
LEMMA AdmitCore ==
    ASSUME Core, phase = "push", queue # <<>>, queue' = Tail(queue), Admit(Head(queue)),
           taken' \in SUBSET Tiles,
           UNCHANGED <<prog, time, pass, phase, blocked, processed, hiers, diagnosed, outcome>>,
           UNCHANGED <<tokens, moved, sent>>
    PROVE  Core'
<1>1. V' = V /\ Nodes' = Nodes /\ Chans' = Chans /\ Tiles' = Tiles /\ \A v : Op(v)' = Op(v)
  BY SameProgram
<1>2. /\ queue' \in Seq(V) /\ wave' \in [Nodes -> Seq(V)]
      /\ started' \in [V -> Nat] /\ released' \in [V -> Nat] /\ ended' \in [V -> Nat]
      /\ freed' \in [V -> BOOLEAN] /\ ready' \in [V -> Nat]
  BY AdmitTyped
<1>3. Typed'
  BY <1>1, <1>2 DEF Core, Typed
<1>4. /\ WaveInv' /\ StartInv' /\ QueueInv'
      /\ \A u \in V : started'[u] <= released'[u] /\ released'[u] <= ended'[u]
  BY AdmitStep
<1>5. TimesInv'
  BY <1>1, <1>4 DEF Core, TimesInv
<1> QED
  BY <1>3, <1>4, <1>5 DEF Core

LEMMA OfferOtherCore == ASSUME Core, OfferOther PROVE Core'
<1>1. /\ phase = "push" /\ queue # <<>> /\ queue' = Tail(queue) /\ Admit(Head(queue))
      /\ UNCHANGED <<prog, time, pass, phase, blocked, processed, hiers, diagnosed, outcome>>
      /\ UNCHANGED <<tokens, moved, sent>> /\ taken' = taken
  BY DEF OfferOther, Offer, Running, links
<1>2. taken' \in SUBSET Tiles
  BY <1>1 DEF Core, Typed
<1> QED
  BY <1>1, <1>2, AdmitCore

LEMMA OfferEndCore == ASSUME Core, OfferEnd PROVE Core'
<1>1. /\ phase = "push" /\ queue # <<>> /\ queue' = Tail(queue) /\ Admit(Head(queue))
      /\ UNCHANGED <<prog, time, pass, phase, blocked, processed, hiers, diagnosed, outcome>>
      /\ UNCHANGED <<tokens, moved, sent>> /\ taken' = taken \ hiers[node]
  BY DEF OfferEnd, Offer, Running, links
<1>2. taken' \in SUBSET Tiles
  BY <1>1 DEF Core, Typed
<1> QED
  BY <1>1, <1>2, AdmitCore

LEMMA AdmitHerdCore == ASSUME Core, AdmitHerd PROVE Core'
<1>1. /\ phase = "push" /\ queue # <<>> /\ queue' = Tail(queue) /\ Admit(Head(queue))
      /\ UNCHANGED <<prog, time, pass, phase, blocked, processed, hiers, diagnosed, outcome>>
      /\ UNCHANGED <<tokens, moved, sent>> /\ taken' = taken
  BY DEF AdmitHerd, Offer, Running, links
<1>2. taken' \in SUBSET Tiles
  BY <1>1 DEF Core, Typed
<1> QED
  BY <1>1, <1>2, AdmitCore

\* An op that is not admitted in this pass.
LEMMA SkipCore ==
    ASSUME Core, queue # <<>>, queue' = Tail(queue),
           blocked' \in BOOLEAN, diagnosed' \in BOOLEAN,
           UNCHANGED <<prog, time, pass, phase, wave, processed, taken, hiers, outcome>>,
           UNCHANGED <<started, released, ended, freed, ready, sent, tokens, moved>>
    PROVE  Core'
<1>1. V' = V /\ Nodes' = Nodes /\ Chans' = Chans /\ Tiles' = Tiles
  BY SameProgram
<1>2. queue' \in Seq(V)
  BY TailFacts DEF Core, Typed, QueueInv
<1>3. Typed'
  BY <1>1, <1>2 DEF Core, Typed
<1> QED
  BY <1>3, StillStep, QueueTail DEF Core

LEMMA RefuseHerdCore == ASSUME Core, RefuseHerd PROVE Core'
<1>1. /\ queue # <<>> /\ queue' = Tail(queue) /\ blocked' = TRUE
      /\ diagnosed' = (diagnosed \/ (~blocked /\ TilesOf(Head(queue)) > prog.tiles))
      /\ UNCHANGED <<prog, time, pass, phase, wave, processed, taken, hiers, outcome>>
      /\ UNCHANGED <<started, released, ended, freed, ready, sent, tokens, moved>>
  BY DEF RefuseHerd, Offer, timing, links
<1>2. blocked' \in BOOLEAN /\ diagnosed' \in BOOLEAN
  BY <1>1, Zenon
<1> QED
  BY <1>1, <1>2, SkipCore

LEMMA DeferCore == ASSUME Core, Defer PROVE Core'
<1>1. /\ queue # <<>> /\ queue' = Tail(queue)
      /\ UNCHANGED <<prog, time, pass, phase, blocked, wave, processed, taken, hiers, diagnosed, outcome>>
      /\ UNCHANGED <<started, released, ended, freed, ready, sent, tokens, moved>>
  BY DEF Defer, Offer, timing, links
<1>2. blocked' \in BOOLEAN /\ diagnosed' \in BOOLEAN
  BY <1>1 DEF Core, Typed
<1> QED
  BY <1>1, <1>2, SkipCore

-----------------------------------------------------------------------------
(* Dispatching, and the end of a pass.                                     *)

\* A node has finitely many ports.
LEMMA PortsFinite ==
    ASSUME Typed, NEW n \in Nodes, NEW d
    PROVE  IsFiniteSet(PortsPool(n, d)) /\ Cardinality(PortsPool(n, d)) \in Nat
<1> DEFINE T == hiers[n]
           I == 1..(IF n \in DOMAIN prog.ports THEN prog.ports[n] ELSE 0)
           A == {<<d, t, 0>> : t \in T}
           B == {<<d, -n, i>> : i \in I}
<1>1. IsFiniteSet(T)
  <2>1. prog.tiles \in Nat /\ hiers[n] \in SUBSET Tiles
    BY ProgramFacts DEF Typed
  <2>2. IsFiniteSet(Tiles)
    BY <2>1, FS_Interval DEF Tiles
  <2> QED
    BY <2>1, <2>2, FS_Subset
<1>2. IsFiniteSet(I)
  <2>1. \A m \in DOMAIN prog.ports : prog.ports[m] \in Nat
    BY RunnerAssumption DEF ProgramOK, Typed
  <2> QED
    BY <2>1, FS_Interval
<1>3. PortsOf(n, d) = A \union B
  BY DEF PortsOf
<1> HIDE DEF T, I
<1>4. IsFiniteSet(A)
  <2>1. [t \in T |-> <<d, t, 0>>] \in Surjection(T, A)
    BY DEF Surjection
  <2> QED
    BY <1>1, <2>1, FS_Surjection
<1>5. IsFiniteSet(B)
  <2>1. [i \in I |-> <<d, -n, i>>] \in Surjection(I, B)
    BY DEF Surjection
  <2> QED
    BY <1>2, <2>1, FS_Surjection
<1>6. IsFiniteSet(A \union B)
  BY <1>4, <1>5, FS_Union
<1>7. PortsPool(n, d) \in SUBSET (A \union B)
  BY <1>3 DEF PortsPool
<1> QED
  BY <1>6, <1>7, FS_Subset, FS_CardinalityType

\* What is dispatched: no more than the channel, the op and the ports allow.
LEMMA DispatchableFacts ==
    ASSUME Typed, TimesInv, node \in Nodes, NEW v \in V, Op(v).kind \in {"put", "get"},
           Dispatchable(v) > 0
    PROVE  /\ Dispatchable(v) \in Nat \ {0}
           /\ sent[v] + Dispatchable(v) <= Op(v).width
           /\ Dispatchable(v) <= Remaining(v)
<1> DEFINE P == Cardinality(PortsPool(node, IF Op(v).kind = "put" THEN "out" ELSE "in"))
           R == Remaining(v)
           O == OwnRemaining(v)
           c == Op(v).chan
<1>1. P \in Nat
  BY PortsFinite
<1>2. sent[v] \in Nat /\ Op(v).width \in Nat /\ sent[v] <= Op(v).width
  BY ProgramFacts DEF Typed, TimesInv
<1>3. O \in Nat /\ sent[v] + O = Op(v).width
  BY <1>2 DEF OwnRemaining, Max2
<1>4. /\ c \in Chans /\ prog.fanout[c] \in Nat /\ moved[c].put \in Nat /\ moved[c].get \in Nat
      /\ UIntMod \in Nat \ {0}
  BY KindFacts, RunnerAssumption DEF Typed
<1>5. R \in Nat
  <2>1. Op(v).width - moved[c].put \in Int /\ (Op(v).width - moved[c].put) % UIntMod \in Nat
    BY <1>2, <1>4
  <2>2. moved[c].put * prog.fanout[c] - moved[c].get \in Int
    BY <1>4
  <2>3. Max2(moved[c].put * prog.fanout[c] - moved[c].get, 0) \in Nat
    BY <2>2 DEF Max2
  <2> QED
    BY <2>1, <2>3 DEF Remaining
<1>6. Dispatchable(v) = Min2(Min2(R, O), P)
  BY DEF Dispatchable
<1> HIDE DEF P, R, O
<1>7. /\ Min2(Min2(R, O), P) \in Nat /\ Min2(Min2(R, O), P) <= R /\ Min2(Min2(R, O), P) <= O
  BY <1>1, <1>3, <1>5 DEF Min2
<1>8. Dispatchable(v) \in Nat \ {0} /\ Dispatchable(v) <= R /\ Dispatchable(v) <= O
  BY <1>6, <1>7
<1> QED
  BY <1>2, <1>3, <1>8 DEF R

\* What a dispatch does to the books of its channel.
LEMMA DispatchFacts ==
    ASSUME Core, Dispatch
    PROVE  LET v == Head(queue)
               c == Op(v).chan
               n == Dispatchable(v)
               put == Op(v).kind = "put"
           IN  /\ node \in Nodes /\ v \in V /\ c \in Chans /\ Op(v).kind \in {"put", "get"}
               /\ n \in Nat \ {0} /\ n <= Remaining(v)
               /\ moved' \in [Chans -> [put : Nat, get : Nat]]
               /\ moved'[c] = [put |-> moved[c].put + (IF put THEN n ELSE 0),
                               get |-> moved[c].get + (IF put THEN 0 ELSE n)]
               /\ \A d \in Chans : d # c => moved'[d] = moved[d]
               /\ tokens' \in [Chans -> Int]
               /\ tokens'[c] = tokens[c] + (IF put THEN n * prog.fanout[c] ELSE -n)
               /\ \A d \in Chans : d # c => tokens'[d] = tokens[d]
               /\ sent' \in [V -> Nat] /\ \A u \in V : sent'[u] <= Op(u).width
<1> DEFINE v == Head(queue)
           c == Op(v).chan
           n == Dispatchable(v)
           p == IF Op(v).kind = "put" THEN n ELSE 0
           g == IF Op(v).kind = "put" THEN 0 ELSE n
           k == IF Op(v).kind = "put" THEN n * prog.fanout[c] ELSE -n
<1>1. /\ phase = "push" /\ pass <= 2 * Len(prog.nodes) /\ queue # <<>>
      /\ Op(v).kind \in {"put", "get"} /\ n > 0
      /\ sent' = [sent EXCEPT ![v] = @ + n]
  BY DEF Dispatch, Offer, Running
<1>2. moved' = [moved EXCEPT ![c] = [put |-> @.put + p, get |-> @.get + g]]
  BY DEF Dispatch
<1>3. tokens' = [tokens EXCEPT ![c] = @ + k]
  BY DEF Dispatch
<1>4. node \in Nodes /\ v \in V
  BY <1>1, NodeFacts, TailFacts DEF Core, Typed, QueueInv
<1>5. n \in Nat \ {0} /\ n <= Remaining(v) /\ sent[v] + n <= Op(v).width
  BY <1>1, <1>4, DispatchableFacts DEF Core
<1>6. c \in Chans /\ prog.fanout[c] \in Nat
  BY <1>1, <1>4, KindFacts DEF Core, Typed
<1>7. p \in Nat /\ g \in Nat /\ k \in Int
  BY <1>5, <1>6
<1>8. /\ moved \in [Chans -> [put : Nat, get : Nat]] /\ tokens \in [Chans -> Int]
      /\ sent \in [V -> Nat] /\ \A u \in V : sent[u] <= Op(u).width
  BY DEF Core, Typed, TimesInv
<1> HIDE DEF v, c, n, p, g, k
<1>9. /\ moved' \in [Chans -> [put : Nat, get : Nat]]
      /\ moved'[c] = [put |-> moved[c].put + p, get |-> moved[c].get + g]
      /\ \A d \in Chans : d # c => moved'[d] = moved[d]
  <2> DEFINE r == [put |-> moved[c].put + p, get |-> moved[c].get + g]
  <2>1. moved[c].put \in Nat /\ moved[c].get \in Nat
    BY <1>6, <1>8
  <2>2. r \in [put : Nat, get : Nat]
    BY <1>7, <2>1
  <2>3. moved' = [moved EXCEPT ![c] = r]
    BY <1>2
  <2> HIDE DEF r
  <2>4. moved' \in [Chans -> [put : Nat, get : Nat]] /\ moved'[c] = r
    BY <1>6, <1>8, <2>2, <2>3
  <2>5. \A d \in Chans : d # c => moved'[d] = moved[d]
    BY <1>6, <1>8, <2>3
  <2> QED
    BY <2>4, <2>5 DEF r
<1>10. /\ tokens' \in [Chans -> Int] /\ tokens'[c] = tokens[c] + k
       /\ \A d \in Chans : d # c => tokens'[d] = tokens[d]
  BY <1>3, <1>6, <1>7, <1>8
<1>11. sent' \in [V -> Nat] /\ sent'[v] = sent[v] + n /\ \A u \in V : u # v => sent'[u] = sent[u]
  BY <1>1, <1>4, <1>5, <1>8
<1>12. \A u \in V : sent'[u] <= Op(u).width
  BY <1>5, <1>8, <1>11
<1> QED
  BY <1>1, <1>4, <1>5, <1>6, <1>9, <1>10, <1>11, <1>12 DEF v, c, n, p, g, k

LEMMA DispatchCore == ASSUME Core, Dispatch PROVE Core'
<1>1. /\ phase = "push" /\ queue # <<>> /\ queue' = Tail(queue) /\ Admit(Head(queue))
      /\ UNCHANGED <<prog, time, pass, phase, blocked, processed, taken, hiers, diagnosed, outcome>>
  BY DEF Dispatch, Offer, Running
<1>2. V' = V /\ Nodes' = Nodes /\ Chans' = Chans /\ Tiles' = Tiles /\ \A v : Op(v)' = Op(v)
  BY <1>1, SameProgram
<1>3. /\ queue' \in Seq(V) /\ wave' \in [Nodes -> Seq(V)]
      /\ started' \in [V -> Nat] /\ released' \in [V -> Nat] /\ ended' \in [V -> Nat]
      /\ freed' \in [V -> BOOLEAN] /\ ready' \in [V -> Nat]
  BY <1>1, AdmitTyped
<1>4. /\ moved' \in [Chans -> [put : Nat, get : Nat]] /\ tokens' \in [Chans -> Int]
      /\ sent' \in [V -> Nat] /\ \A u \in V : sent'[u] <= Op(u).width
  BY DispatchFacts
<1>5. Typed'
  BY <1>1, <1>2, <1>3, <1>4 DEF Core, Typed
<1>6. /\ WaveInv' /\ StartInv' /\ QueueInv'
      /\ \A u \in V : started'[u] <= released'[u] /\ released'[u] <= ended'[u]
  BY <1>1, AdmitStep
<1>7. TimesInv'
  BY <1>2, <1>4, <1>6 DEF TimesInv
<1> QED
  BY <1>5, <1>6, <1>7 DEF Core

\* An op on a wavefront has started and has an end.
LEMMA OnWaveStarted ==
    ASSUME Core, NEW n \in Nodes, NEW v \in V, Contains(wave[n], v)
    PROVE  IsStarted(v)
<1>1. /\ started[v] \in Nat /\ released[v] \in Nat /\ ended[v] \in Nat /\ started[v] # 0
      /\ started[v] <= released[v] /\ released[v] <= ended[v]
  BY DEF Core, Typed, TimesInv, WaveInv
<1>2. ended[v] # 0
  BY <1>1
<1> QED
  BY <1>1, <1>2 DEF IsStarted

LEMMA AdvanceCore == ASSUME Core, Advance PROVE Core'
<1> DEFINE least == CHOOSE t \in NextTimes : \A u \in NextTimes : t <= u
<1>1. /\ time' = Max2(time + 1, least) /\ OnWave # {}
      /\ pass' = 1 /\ phase' = "begin" /\ queue' = <<>>
      /\ UNCHANGED <<prog, blocked, wave, processed, taken, hiers, diagnosed, outcome>>
      /\ UNCHANGED <<started, released, ended, freed, ready, sent, tokens, moved>>
  BY DEF Advance, timing, links
<1>2. NextTimes \in SUBSET Nat
  <2>1. \A v \in V : ended[v] \in Nat /\ released[v] \in Nat
    BY DEF Core, Typed
  <2> QED
    BY <2>1 DEF NextTimes, OnWave
<1>3. NextTimes # {}
  <2>1. PICK v \in V : \E n \in Nodes : Contains(wave[n], v)
    BY <1>1 DEF OnWave
  <2>2. v \in OnWave /\ IsStarted(v)
    BY <2>1, OnWaveStarted DEF OnWave
  <2>3. ended[v] \in NextTimes
    BY <2>2 DEF NextTimes
  <2> QED
    BY <2>3
<1>4. least \in Nat
  <2>1. \E t \in NextTimes : \A u \in NextTimes : t <= u
    BY <1>2, <1>3, LeastElement
  <2>2. least \in NextTimes
    BY <2>1
  <2> QED
    BY <1>2, <2>2
<1> HIDE DEF least
<1>5. time' \in Nat \ {0}
  <2>1. time \in Nat
    BY DEF Core, Typed
  <2> QED
    BY <1>1, <1>4, <2>1 DEF Max2
<1>6. V' = V /\ Nodes' = Nodes /\ Chans' = Chans /\ Tiles' = Tiles
  BY <1>1, SameProgram
<1>7. pass' \in 1..(2 * Len(prog.nodes) + 1)
  BY <1>1, ProgramFacts DEF Core, Typed
<1>8. Typed'
  BY <1>1, <1>5, <1>6, <1>7 DEF Core, Typed
<1>9. QueueInv'
  BY <1>1, EmptyFacts DEF QueueInv, Distinct, Contains
<1> QED
  BY <1>1, <1>8, <1>9, StillStep DEF Core

\* Nothing but the outcome changes, or nothing at all.
LEMMA QuietCore ==
    ASSUME Core,
           outcome' \in {"running", "latency", "stalled", "unrun", "error", "assertion"},
           UNCHANGED <<prog, time, pass, phase, queue, blocked, wave, processed, taken, hiers,
                       diagnosed, timing, links>>
    PROVE  Core'
<1>1. UNCHANGED <<started, released, ended, freed, ready, sent, tokens, moved>>
  BY DEF timing, links
<1>2. V' = V /\ Nodes' = Nodes /\ Chans' = Chans /\ Tiles' = Tiles /\ \A v : Op(v)' = Op(v)
  BY SameProgram
<1>3. \A n : StartOf(n)' = StartOf(n)
  BY SameProgram
<1>4. Typed'
  BY <1>1, <1>2 DEF Core, Typed
<1>5. node' = node
  BY DEF node
<1>6. QueueInv'
  BY <1>1, <1>2, <1>3, <1>5 DEF Core, QueueInv, Distinct, Contains
<1> QED
  BY <1>1, <1>4, <1>6, StillStep DEF Core

LEMMA FinishCore == ASSUME Core, Finish PROVE Core'
<1>1. outcome' \in {"running", "latency", "stalled", "unrun", "error", "assertion"}
  BY DEF Finish, Verdict
<1> QED
  BY <1>1, QuietCore DEF Finish

LEMMA StutterCore == ASSUME Core, UNCHANGED vars PROVE Core'
<1>1. UNCHANGED <<prog, time, pass, phase, queue, blocked, wave, processed, taken, hiers,
                  diagnosed, timing, links>> /\ outcome' = outcome
  BY DEF vars
<1>2. outcome' \in {"running", "latency", "stalled", "unrun", "error", "assertion"}
  BY <1>1 DEF Core, Typed
<1> QED
  BY <1>1, <1>2, QuietCore

LEMMA CoreStep == ASSUME Core, [Next]_vars PROVE Core'
  BY BeginFreeCore, BeginExecCore, BeginPushCore, EndPushCore, FreeLinkCore, ExecuteOtherCore,
     ExecuteHierarchyCore, ExecutePutCore, ExecuteGetCore, OfferOtherCore, OfferEndCore,
     AdmitHerdCore, RefuseHerdCore, DispatchCore, DeferCore, AdvanceCore, FinishCore,
     StutterCore, Zenon DEF Next

LEMMA CoreInit == Init => Core
<1> SUFFICES ASSUME Init PROVE Core
  OBVIOUS
<1> DEFINE s == StartOf(1)
<1>1. /\ prog \in Programs /\ time = 1 /\ outcome = "running" /\ diagnosed = FALSE
      /\ pass = 1 /\ phase = "begin" /\ queue = <<>> /\ blocked = FALSE
      /\ wave = [n \in Nodes |-> IF n = 1 THEN <<s>> ELSE <<>>]
      /\ started = [v \in V |-> IF v = s THEN 1 ELSE 0]
      /\ released = started /\ ended = started
      /\ freed = [v \in V |-> FALSE] /\ ready = [v \in V |-> 0]
      /\ processed = {} /\ taken = {} /\ hiers = [n \in Nodes |-> {}]
      /\ tokens = [c \in Chans |-> 0]
      /\ moved = [c \in Chans |-> [put |-> 0, get |-> 0]]
      /\ sent = [v \in V |-> 0]
  BY DEF Init
<1>2. Len(prog.nodes) \in Nat \ {0} /\ 1 \in Nodes /\ \A v \in V : Op(v).width \in Nat
  BY <1>1, ProgramFacts
<1>3. s \in V /\ Op(s).node = 1 /\ Op(s).kind = "start"
  BY <1>1, <1>2, StartFacts
<1>4. ASSUME NEW v \in V, NEW n \in Nodes, v = StartOf(n) PROVE Op(v).node = n
  BY <1>1, <1>4, StartFacts
<1>5. \A v \in V : Op(v).kind \in {"segment", "herd"} =>
          Op(v).sub \in Nodes /\ StartOf(Op(v).sub) \in V /\ Op(v).sub # 1
  <2>1. \A v \in V : Op(v).kind \in {"segment", "herd"} => Op(v).sub \in Nodes
    BY <1>1, KindFacts
  <2>2. \A v \in V : Op(v).kind \in {"segment", "herd"} => Op(v).sub # 1
    <3> SUFFICES ASSUME NEW v \in V, Op(v).kind \in {"segment", "herd"} PROVE Op(v).sub # 1
      OBVIOUS
    <3>1. Op(v).sub \in (Op(v).node + 1)..Len(prog.nodes) /\ Op(v).node \in 1..Len(prog.nodes)
      BY <1>1, RunnerAssumption DEF ProgramOK, V, Op
    <3> QED
      BY <1>2, <3>1
  <2> QED
    BY <1>1, <2>1, <2>2, StartFacts
<1> HIDE DEF s
<1>6. /\ Distinct(<<s>>) /\ \A u : Contains(<<s>>, u) <=> u = s
      /\ Distinct(<<>>) /\ \A u : ~Contains(<<>>, u)
  BY EmptyFacts DEF Distinct, Contains
<1>7. wave[1] = <<s>> /\ (\A n \in Nodes : n # 1 => wave[n] = <<>>) /\ wave \in [Nodes -> Seq(V)]
  BY <1>1, <1>2, <1>3
<1>8. /\ started \in [V -> Nat] /\ started[s] = 1 /\ \A v \in V : v # s => started[v] = 0
  BY <1>1, <1>3
<1>9. Typed
  <2>1. /\ queue \in Seq(V) /\ processed \in SUBSET V /\ taken \in SUBSET Tiles
        /\ hiers \in [Nodes -> SUBSET Tiles] /\ tokens \in [Chans -> Int]
        /\ freed \in [V -> BOOLEAN] /\ ready \in [V -> Nat] /\ sent \in [V -> Nat]
    BY <1>1
  <2>2. moved \in [Chans -> [put : Nat, get : Nat]]
    BY <1>1
  <2>3. pass \in 1..(2 * Len(prog.nodes) + 1)
    BY <1>1, <1>2
  <2>4. released \in [V -> Nat] /\ ended \in [V -> Nat]
    BY <1>1, <1>8
  <2>5. diagnosed \in BOOLEAN /\ blocked \in BOOLEAN
    BY <1>1, Zenon
  <2>6. /\ prog \in Programs /\ time \in Nat \ {0}
        /\ outcome \in {"running", "latency", "stalled", "unrun", "error", "assertion"}
        /\ phase \in {"begin", "free", "exec", "push"}
    <3>1. prog \in Programs /\ time = 1 /\ outcome = "running" /\ phase = "begin"
      BY <1>1
    <3> QED
      BY <3>1
  <2> QED
    BY <1>7, <1>8, <2>1, <2>2, <2>3, <2>4, <2>5, <2>6 DEF Typed
<1>10. WaveInv
  BY <1>1, <1>3, <1>6, <1>7, <1>8 DEF WaveInv
<1>11. TimesInv
  <2>1. ASSUME NEW v \in V
        PROVE  started[v] <= released[v] /\ released[v] <= ended[v] /\ sent[v] <= Op(v).width
    BY <1>1, <1>2, <1>8
  <2> QED
    BY <2>1 DEF TimesInv
<1>12. StartInv
  <2>1. \A v \in V : started[v] # 0 => v = s
    BY <1>8
  <2>2. started[StartOf(1)] # 0
    BY <1>8 DEF s
  <2>3. \A n \in Nodes : n # 1 => started[StartOf(n)] = 0
    <3> SUFFICES ASSUME NEW n \in Nodes, n # 1 PROVE started[StartOf(n)] = 0
      OBVIOUS
    <3>1. StartOf(n) \in V /\ Op(StartOf(n)).node = n
      BY <1>1, StartFacts
    <3> QED
      BY <1>3, <1>8, <3>1
  <2>4. processed = {} /\ Contains(wave[1], s)
    BY <1>1, <1>6, <1>7
  <2>5. \A v \in V : started[v] # 0 => Op(v).node = 1 /\ Contains(wave[Op(v).node], v)
    BY <1>3, <2>1, <2>4
  <2>6. \A v \in V : Op(v).kind \in {"segment", "herd"} => started[StartOf(Op(v).sub)] = 0
    BY <1>5, <2>3
  <2> QED
    BY <2>2, <2>4, <2>5, <2>6 DEF StartInv
<1>13. QueueInv
  BY <1>1, <1>6 DEF QueueInv
<1> QED
  BY <1>9, <1>10, <1>11, <1>12, <1>13 DEF Core

\* The wavefronts are sound in every state of every program.
LEMMA CoreHolds == Spec => []Core
<1>1. Core /\ [Next]_vars => Core'
  BY CoreStep
<1> QED
  BY CoreInit, <1>1, PTL DEF Spec

\* Every wavefront lists ops of its own node that have started and are not
\* processed yet, occupancy ends before latency, and a channel op dispatches
\* no more than its own instances (pushToWavefront, executeOpsFromWavefront,
\* dispatchChannelOp), whatever the program and the order of candidates.
THEOREM RunnerTypesHold == Spec => []RunnerTypeOK
<1>1. Core => RunnerTypeOK
  <2> SUFFICES ASSUME Core PROVE RunnerTypeOK
    OBVIOUS
  <2>1. ASSUME NEW n \in Nodes, NEW v \in ToSet(wave[n])
        PROVE  Op(v).node = n /\ IsStarted(v) /\ v \notin processed
    <3>1. wave[n] \in Seq(V)
      BY DEF Core, Typed
    <3>2. Contains(wave[n], v)
      BY <2>1, <3>1 DEF ToSet, Contains
    <3>3. v \in V
      BY <3>1, <3>2, ContainsType
    <3> QED
      BY <3>2, <3>3, OnWaveStarted DEF Core, WaveInv
  <2> QED
    BY <2>1 DEF RunnerTypeOK, Core, Typed, TimesInv
<1> QED
  BY <1>1, CoreHolds, PTL

-----------------------------------------------------------------------------
(* The two books of a channel.                                             *)

LEMMA BooksStep == ASSUME Core, BooksAgree, [Next]_vars PROVE BooksAgree'
<1>0. \A c \in Chans : prog.fanout[c] \in Nat
  BY RunnerAssumption DEF ProgramOK, Core, Typed, Chans
<1>1. CASE UNCHANGED <<prog, tokens, moved>>
  BY <1>1 DEF BooksAgree, Chans
<1>2. CASE Dispatch
  <2> DEFINE v == Head(queue)
             c == Op(v).chan
             n == Dispatchable(v)
             f == prog.fanout[c]
  <2>0. prog' = prog /\ Chans' = Chans
    BY <1>2, SameProgram DEF Dispatch
  <2>1. /\ c \in Chans /\ n \in Nat \ {0} /\ n <= Remaining(v) /\ v \in V
        /\ Op(v).kind \in {"put", "get"} /\ f \in Nat
        /\ \A d \in Chans : d # c => moved'[d] = moved[d]
        /\ \A d \in Chans : d # c => tokens'[d] = tokens[d]
    BY <1>0, <1>2, DispatchFacts
  <2>2. /\ moved'[c] = [put |-> moved[c].put + (IF Op(v).kind = "put" THEN n ELSE 0),
                        get |-> moved[c].get + (IF Op(v).kind = "put" THEN 0 ELSE n)]
        /\ tokens'[c] = tokens[c] + (IF Op(v).kind = "put" THEN n * f ELSE -n)
    BY <1>2, DispatchFacts
  <2>3. /\ moved[c].put \in Nat /\ moved[c].get \in Nat /\ tokens[c] \in Int
        /\ tokens[c] = moved[c].put * f - moved[c].get /\ tokens[c] >= 0
    BY <2>1 DEF Core, Typed, BooksAgree
  <2>4. CASE Op(v).kind = "put"
    <3>1. /\ moved'[c].put = moved[c].put + n /\ moved'[c].get = moved[c].get
          /\ tokens'[c] = tokens[c] + n * f
      BY <2>1, <2>2, <2>3, <2>4
    <3> HIDE DEF n, f, c
    <3>2. (moved[c].put + n) * f = moved[c].put * f + n * f /\ n * f \in Nat
      BY <2>1, <2>3
    <3>3. tokens'[c] = moved'[c].put * f - moved'[c].get /\ tokens'[c] >= 0
      BY <2>1, <2>3, <3>1, <3>2
    <3> QED
      BY <2>0, <2>1, <3>3 DEF BooksAgree, f
  <2>5. CASE Op(v).kind = "get"
    <3>1. /\ moved'[c].put = moved[c].put /\ moved'[c].get = moved[c].get + n
          /\ tokens'[c] = tokens[c] - n
      BY <2>1, <2>2, <2>3, <2>5
    <3>2. Remaining(v) = Max2(moved[c].put * f - moved[c].get, 0)
      BY <2>5 DEF Remaining
    <3> HIDE DEF n, f, c
    <3>3. moved[c].put * f \in Nat
      BY <2>1, <2>3
    <3>4. n <= moved[c].put * f - moved[c].get
      BY <2>1, <2>3, <3>2, <3>3 DEF Max2
    <3>5. tokens'[c] = moved'[c].put * f - moved'[c].get /\ tokens'[c] >= 0
      BY <2>1, <2>3, <3>1, <3>3, <3>4
    <3> QED
      BY <2>0, <2>1, <3>5 DEF BooksAgree, f
  <2> QED
    BY <2>1, <2>4, <2>5
<1>3. CASE ExecuteGet
  <2> DEFINE v == Head(queue)
             c == Op(v).chan
             f == prog.fanout[c]
             z == [put |-> 0, get |-> 0]
  <2>0. prog' = prog /\ Chans' = Chans /\ tokens' = tokens
    BY <1>3, SameProgram DEF ExecuteGet
  <2>1. CASE moved' = moved
    BY <1>1, <2>0, <2>1
  <2>2. CASE moved' # moved
    <3>1. moved' = [moved EXCEPT ![c] = z] /\ ChannelComplete(v)
      BY <1>3, <2>2 DEF ExecuteGet
    <3>2. v \in V /\ Op(v).kind \in {"put", "get"}
      BY <1>3, RemoveTyped DEF ExecuteGet, Execute, Running
    <3>3. c \in Chans /\ f \in Nat
      BY <1>0, <3>2, KindFacts DEF Core, Typed
    <3>4. /\ moved \in [Chans -> [put : Nat, get : Nat]] /\ tokens[c] \in Int
          /\ tokens[c] = moved[c].put * f - moved[c].get
      BY <3>3 DEF Core, Typed, BooksAgree
    <3>5. moved[c].put * f = moved[c].get
      BY <3>1 DEF ChannelComplete
    <3>6. tokens[c] = 0
      BY <3>3, <3>4, <3>5
    <3>7. moved'[c] = z /\ z.put = 0 /\ z.get = 0
      BY <3>1, <3>3, <3>4
    <3> HIDE DEF z
    <3>8. tokens'[c] = moved'[c].put * f - moved'[c].get /\ tokens'[c] >= 0
      BY <2>0, <3>3, <3>6, <3>7
    <3>9. \A d \in Chans : d # c => moved'[d] = moved[d]
      BY <3>1, <3>3, <3>4
    <3> QED
      BY <2>0, <3>8, <3>9 DEF BooksAgree
  <2> QED
    BY <2>1, <2>2
<1>4. ASSUME ~Dispatch, ~ExecuteGet PROVE UNCHANGED <<prog, tokens, moved>>
  BY <1>4 DEF Next, vars, links, BeginFree, BeginExec, BeginPush, EndPush, FreeLink, ExecuteOther,
     ExecuteHierarchy, ExecutePut, OfferOther, OfferEnd, AdmitHerd, RefuseHerd, Defer,
     Advance, Finish
<1> QED
  BY <1>1, <1>2, <1>3, <1>4

\* The tokens gets wait for are the instances put and not yet got, for every
\* program: through partial dispatches, broadcasts to any number of receivers
\* and the clearing of completed rounds, so the count never goes negative
\* (channel_token_counts against channel_ops_in_progress).
THEOREM ChannelBooksAgree == Spec => []BooksAgree
<1>1. Init => BooksAgree
  <2> SUFFICES ASSUME Init PROVE BooksAgree
    OBVIOUS
  <2>1. \A c \in Chans : prog.fanout[c] \in Nat
    BY RunnerAssumption DEF ProgramOK, Init, Chans
  <2>2. \A c \in Chans : tokens[c] = 0 /\ moved[c].put = 0 /\ moved[c].get = 0
    BY DEF Init
  <2> QED
    BY <2>1, <2>2 DEF BooksAgree
<1>2. Core /\ BooksAgree /\ [Next]_vars => BooksAgree'
  BY BooksStep
<1> QED
  BY <1>1, <1>2, CoreHolds, PTL DEF Spec

-----------------------------------------------------------------------------
(* The tiles of the segment.                                               *)

\* The tiles promised to one herd.
Batch(v) == {v} \X (1..TilesOf(v))

LEMMA BatchFacts ==
    ASSUME prog \in Programs, NEW v \in Herds
    PROVE  IsFiniteSet(Batch(v)) /\ Cardinality(Batch(v)) = TilesOf(v) /\ TilesOf(v) \in Nat
<1> DEFINE I == 1..TilesOf(v)
<1>1. TilesOf(v) \in Nat
  BY KindFacts DEF Herds
<1>2. IsFiniteSet(I) /\ Cardinality(I) = TilesOf(v)
  BY <1>1, FS_Interval
<1>3. IsFiniteSet({v}) /\ Cardinality({v}) = 1
  BY FS_Singleton
<1>4. Batch(v) = {v} \X I
  BY DEF Batch
<1> HIDE DEF I
<1>5. IsFiniteSet({v} \X I) /\ Cardinality({v} \X I) = 1 * Cardinality(I)
  BY <1>2, <1>3, FS_Product
<1> QED
  BY <1>1, <1>2, <1>4, <1>5

LEMMA PromisedFacts ==
    ASSUME prog \in Programs, NEW n \in Nodes
    PROVE  /\ IsFiniteSet(PromisedTiles(n)) /\ Promised(n) \in Nat
           /\ \A x : x \in PromisedTiles(n) <=>
                 \E v \in Herds : Contains(wave[n], v) /\ x \in Batch(v)
<1> DEFINE H == {u \in Herds : Contains(wave[n], u)}
           U == {Batch(v) : v \in H}
<1>1. PromisedTiles(n) = UNION U
  BY DEF PromisedTiles, Batch
<1>2. IsFiniteSet(H)
  <2>1. H \in SUBSET V /\ IsFiniteSet(V)
    BY ProgramFacts DEF Herds
  <2> QED
    BY <2>1, FS_Subset
<1>3. IsFiniteSet(U)
  <2>1. [v \in H |-> Batch(v)] \in Surjection(H, U)
    BY DEF Surjection
  <2> QED
    BY <1>2, <2>1, FS_Surjection
<1>4. \A T \in U : IsFiniteSet(T)
  BY BatchFacts
<1>5. IsFiniteSet(UNION U)
  BY <1>3, <1>4, FS_UNION
<1>6. Cardinality(UNION U) \in Nat
  BY <1>5, FS_CardinalityType
<1> QED
  BY <1>1, <1>5, <1>6 DEF Promised

LEMMA FreeFacts ==
    ASSUME prog \in Programs, NEW T
    PROVE  /\ Tiles \ T \in SUBSET Nat /\ IsFiniteSet(Tiles \ T) /\ Cardinality(Tiles \ T) \in Nat
<1>1. prog.tiles \in Nat
  BY ProgramFacts
<1>2. IsFiniteSet(Tiles) /\ Tiles \in SUBSET Nat
  BY <1>1, FS_Interval DEF Tiles
<1>3. Tiles \ T \in SUBSET Tiles
  OBVIOUS
<1> QED
  BY <1>2, <1>3, FS_Subset, FS_CardinalityType

\* The promise depends only on the herds on the wavefront.
LEMMA PromisedSame ==
    ASSUME prog' = prog, NEW n \in Nodes,
           \A u \in Herds : Contains(wave'[n], u) <=> Contains(wave[n], u)
    PROVE  PromisedTiles(n)' = PromisedTiles(n) /\ Promised(n)' = Promised(n)
<1>1. Herds' = Herds /\ \A u : TilesOf(u)' = TilesOf(u)
  BY SameProgram
<1>2. \A u : Contains(wave[n], u)' <=> Contains(wave'[n], u)
  BY DEF Contains
<1>3. {u \in Herds : Contains(wave[n], u)}' = {u \in Herds : Contains(wave[n], u)}
  BY <1>1, <1>2
<1>4. PromisedTiles(n)' = PromisedTiles(n)
  BY <1>1, <1>3 DEF PromisedTiles
<1> QED
  BY <1>4 DEF Promised

\* A step that neither takes nor promises tiles, and starts or ends no node.
LEMMA TilesKept ==
    ASSUME Core, TilesInv, prog' = prog, outcome' # "assertion", taken' = taken, hiers' = hiers,
           \A n \in Nodes : started'[StartOf(n)] = 0 <=> started[StartOf(n)] = 0,
           \A n \in Nodes : started'[EndOf(n)] = 0 <=> started[EndOf(n)] = 0,
           \A n \in Nodes : Promised(n)' <= Cardinality(Tiles \ taken)
    PROVE  TilesInv'
<1>1. /\ Nodes' = Nodes /\ HerdNodes' = HerdNodes /\ Tiles' = Tiles
      /\ \A n : StartOf(n)' = StartOf(n) /\ EndOf(n)' = EndOf(n)
  BY SameProgram
<1>2. HerdNodes \subseteq Nodes
  BY KindFacts DEF HerdNodes, Herds, Core, Typed
<1>3. \A n \in HerdNodes : Holds(n)' <=> Holds(n)
  BY <1>1, <1>2 DEF Holds
<1>4. \A n \in Nodes : Promised(n)' <= Cardinality(Tiles \ taken)'
  BY <1>1
<1> QED
  BY <1>1, <1>2, <1>3, <1>4 DEF TilesInv

\* The same when the herds on the wavefronts stay.
LEMMA TilesStill ==
    ASSUME Core, TilesInv, prog' = prog, outcome' # "assertion", taken' = taken, hiers' = hiers,
           \A n \in Nodes : started'[StartOf(n)] = 0 <=> started[StartOf(n)] = 0,
           \A n \in Nodes : started'[EndOf(n)] = 0 <=> started[EndOf(n)] = 0,
           \A n \in Nodes : \A u \in Herds : Contains(wave'[n], u) <=> Contains(wave[n], u)
    PROVE  TilesInv'
<1>1. \A n \in Nodes : Promised(n)' = Promised(n)
  BY PromisedSame
<1>2. \A n \in Nodes : Promised(n)' <= Cardinality(Tiles \ taken)
  BY <1>1 DEF TilesInv
<1> QED
  BY <1>2, TilesKept

\* Taking an op that is no herd off the wavefront.
LEMMA TilesRemove ==
    ASSUME Core, TilesInv, prog' = prog, outcome' # "assertion", taken' = taken, hiers' = hiers,
           started' = started, phase = "exec", queue # <<>>, Op(Head(queue)).kind # "herd",
           wave' = [wave EXCEPT ![node] = Without(@, Head(queue))]
    PROVE  TilesInv'
<1> DEFINE v == Head(queue)
<1>1. node \in Nodes /\ v \in V /\ Contains(wave[node], v) /\ wave \in [Nodes -> Seq(V)]
  BY RemoveTyped DEF Core, Typed
<1>2. \A u : Contains(Without(wave[node], v), u) <=> Contains(wave[node], u) /\ u # v
  BY <1>1, WithoutFacts DEF Core, WaveInv
<1>3. \A n \in Nodes : \A u \in Herds : Contains(wave'[n], u) <=> Contains(wave[n], u)
  BY <1>1, <1>2 DEF Herds
<1> QED
  BY <1>3, TilesStill

\* Admitting an op that is neither a herd nor a terminator.
LEMMA TilesAdmitOther ==
    ASSUME Core, TilesInv, UNCHANGED <<prog, pass, phase, processed>>, outcome' # "assertion",
           taken' = taken, hiers' = hiers,
           phase = "push", queue # <<>>, queue' = Tail(queue), Admit(Head(queue)),
           Op(Head(queue)).kind \notin {"herd", "end"}
    PROVE  TilesInv'
<1> DEFINE v == Head(queue)
<1>1. /\ v \in V /\ Op(v).kind # "start"
      /\ \A n \in Nodes : \A u \in V : Contains(wave'[n], u) <=>
            Contains(wave[n], u) \/ (n = node /\ u = v)
  BY AdmitStep
<1>2. started' = [started EXCEPT ![v] = time] /\ started \in [V -> Nat]
  BY DEF Admit, Core, Typed
<1>3. \A n \in Nodes : /\ StartOf(n) \in V /\ Op(StartOf(n)).kind = "start"
                       /\ EndOf(n) \in V /\ Op(EndOf(n)).kind = "end"
  BY StartFacts DEF Core, Typed
<1>4. \A n \in Nodes : started'[StartOf(n)] = started[StartOf(n)] /\ started'[EndOf(n)] = started[EndOf(n)]
  BY <1>1, <1>2, <1>3
<1>5. \A n \in Nodes : \A u \in Herds : Contains(wave'[n], u) <=> Contains(wave[n], u)
  BY <1>1 DEF Herds
<1> QED
  BY <1>4, <1>5, TilesStill

\* A herd is admitted only when it fits beside the herds promised tiles.
LEMMA TilesAdmitHerd ==
    ASSUME Core, TilesInv, AdmitHerd PROVE TilesInv'
<1> DEFINE v == Head(queue)
<1>0. /\ UNCHANGED <<prog, pass, phase, processed, taken, hiers, outcome>> /\ phase = "push"
      /\ queue # <<>> /\ queue' = Tail(queue) /\ Admit(v) /\ Op(v).kind = "herd" /\ HerdFits(v)
  BY DEF AdmitHerd, Offer, Running
<1>1. /\ v \in V /\ node \in Nodes
      /\ \A n \in Nodes : \A u \in V : Contains(wave'[n], u) <=>
            Contains(wave[n], u) \/ (n = node /\ u = v)
  BY <1>0, AdmitStep
<1>2. started' = [started EXCEPT ![v] = time] /\ started \in [V -> Nat] /\ prog \in Programs
  BY <1>0 DEF Admit, Core, Typed
<1>3. \A n \in Nodes : /\ StartOf(n) \in V /\ Op(StartOf(n)).kind = "start"
                       /\ EndOf(n) \in V /\ Op(EndOf(n)).kind = "end"
  BY <1>2, StartFacts
<1>4. \A n \in Nodes : started'[StartOf(n)] = started[StartOf(n)] /\ started'[EndOf(n)] = started[EndOf(n)]
  BY <1>0, <1>1, <1>2, <1>3
<1>5. v \in Herds /\ Herds \subseteq V
  BY <1>0, <1>1 DEF Herds
<1> HIDE DEF v
<1>6. \A n \in Nodes : n # node => Promised(n)' = Promised(n)
  BY <1>0, <1>1, <1>5, PromisedSame
<1>7. PromisedTiles(node)' = PromisedTiles(node) \union Batch(v)
  <2>1. Herds' = Herds /\ \A u : TilesOf(u)' = TilesOf(u)
    BY <1>0, SameProgram
  <2>2. node' = node
    BY <1>0 DEF node
  <2>3. PromisedTiles(node)' = UNION {Batch(u) : u \in {w \in Herds : Contains(wave'[node], w)}}
    BY <2>1, <2>2 DEF PromisedTiles, Batch, Contains
  <2>4. {w \in Herds : Contains(wave'[node], w)} = {w \in Herds : Contains(wave[node], w)} \union {v}
    BY <1>1, <1>5
  <2>5. PromisedTiles(node) = UNION {Batch(u) : u \in {w \in Herds : Contains(wave[node], w)}}
    BY DEF PromisedTiles, Batch
  <2> QED
    BY <2>3, <2>4, <2>5
<1>8. Promised(node)' <= Promised(node) + TilesOf(v)
  <2> DEFINE P == PromisedTiles(node)
             B == Batch(v)
  <2>1. IsFiniteSet(P) /\ IsFiniteSet(B) /\ Cardinality(B) = TilesOf(v)
    BY <1>1, <1>2, <1>5, PromisedFacts, BatchFacts
  <2>2. Promised(node)' = Cardinality(P \union B) /\ Promised(node) = Cardinality(P)
    BY <1>7 DEF Promised
  <2> HIDE DEF P, B
  <2>3. Cardinality(P \union B) = Cardinality(P) + Cardinality(B) - Cardinality(P \cap B)
    BY <2>1, FS_Union
  <2>4. Cardinality(P) \in Nat /\ Cardinality(B) \in Nat /\ Cardinality(P \cap B) \in Nat
    BY <2>1, FS_Intersection, FS_CardinalityType
  <2> QED
    BY <2>1, <2>2, <2>3, <2>4
<1>9. Promised(node)' <= Cardinality(Tiles \ taken)
  <2>1. Promised(node) \in Nat /\ TilesOf(v) \in Nat /\ Cardinality(Tiles \ taken) \in Nat
    BY <1>1, <1>2, <1>5, PromisedFacts, BatchFacts, FreeFacts
  <2>2. TilesOf(v) + Promised(node) <= Cardinality(Tiles \ taken)
    BY <1>0 DEF HerdFits
  <2>3. Promised(node)' \in Nat
    <3>1. prog' \in Programs /\ node' \in Nodes'
      BY <1>0, <1>1, <1>2 DEF node, Nodes
    <3> QED
      BY <1>5, <1>2, <1>1, <1>7, PromisedFacts, BatchFacts, FS_Union, FS_CardinalityType DEF Promised
  <2> QED
    BY <1>8, <2>1, <2>2, <2>3
<1>10. \A n \in Nodes : Promised(n)' <= Cardinality(Tiles \ taken)
  <2> SUFFICES ASSUME NEW n \in Nodes PROVE Promised(n)' <= Cardinality(Tiles \ taken)
    OBVIOUS
  <2>1. CASE n = node
    <3>1. node' = node
      BY <1>0 DEF node
    <3> QED
      BY <1>9, <2>1, <3>1 DEF Promised, PromisedTiles
  <2>2. CASE n # node
    BY <1>6, <2>2 DEF TilesInv
  <2> QED
    BY <2>1, <2>2
<1>11. outcome' # "assertion" /\ taken' = taken /\ hiers' = hiers /\ prog' = prog
  BY <1>0 DEF TilesInv
<1> QED
  BY <1>4, <1>10, <1>11, TilesKept

\* The terminator of a herd gives back the herd's own tiles and no others.
LEMMA TilesOfferEnd ==
    ASSUME Core, TilesInv, OfferEnd PROVE TilesInv'
<1> DEFINE v == Head(queue)
<1>0. /\ UNCHANGED <<prog, pass, phase, processed, hiers, outcome>> /\ phase = "push"
      /\ queue # <<>> /\ queue' = Tail(queue) /\ Admit(v) /\ Op(v).kind = "end"
      /\ taken' = taken \ hiers[node]
  BY DEF OfferEnd, Offer, Running
<1>1. /\ v \in V /\ node \in Nodes /\ Op(v).node = node /\ started[v] = 0 /\ started[StartOf(node)] # 0
      /\ \A n \in Nodes : \A u \in V : Contains(wave'[n], u) <=>
            Contains(wave[n], u) \/ (n = node /\ u = v)
  BY <1>0, AdmitStep
<1>2. /\ started' = [started EXCEPT ![v] = time] /\ started \in [V -> Nat] /\ prog \in Programs
      /\ time \in Nat \ {0} /\ taken \in SUBSET Tiles
  BY <1>0 DEF Admit, Core, Typed
<1>3. \A n \in Nodes : /\ StartOf(n) \in V /\ Op(StartOf(n)).kind = "start"
                       /\ EndOf(n) \in V /\ Op(EndOf(n)).node = n
  BY <1>2, StartFacts
<1>4. v = EndOf(node)
  BY <1>0, <1>1, <1>2, StartFacts
<1> HIDE DEF v
<1>5. /\ \A n \in Nodes : started'[StartOf(n)] = started[StartOf(n)]
      /\ \A n \in Nodes : n # node => started'[EndOf(n)] = started[EndOf(n)]
      /\ started'[EndOf(node)] # 0
  BY <1>0, <1>1, <1>2, <1>3, <1>4
<1>6. \A n \in Nodes : Promised(n)' = Promised(n)
  <2>1. \A n \in Nodes : \A u \in Herds : Contains(wave'[n], u) <=> Contains(wave[n], u)
    BY <1>0, <1>1 DEF Herds
  <2> QED
    BY <1>0, <2>1, PromisedSame
<1>7. /\ Nodes' = Nodes /\ HerdNodes' = HerdNodes /\ Tiles' = Tiles
      /\ \A n : StartOf(n)' = StartOf(n) /\ EndOf(n)' = EndOf(n)
  BY <1>0, SameProgram
<1>8. HerdNodes \subseteq Nodes
  BY KindFacts DEF HerdNodes, Herds, Core, Typed
<1>9. \A n \in HerdNodes : Holds(n)' => n # node /\ Holds(n)
  BY <1>5, <1>7, <1>8 DEF Holds
<1>10. node \in HerdNodes => Holds(node)
  BY <1>1, <1>4 DEF Holds
<1>11. ASSUME NEW n \in HerdNodes, Holds(n)'
       PROVE  /\ hiers[n] \subseteq taken' /\ Cardinality(hiers[n]) = prog.herdTiles[n]
              /\ \A m \in HerdNodes : m # n /\ Holds(m)' => hiers[m] \cap hiers[n] = {}
  <2>1. n # node /\ Holds(n)
    BY <1>9, <1>11
  <2>2. hiers[node] \cap hiers[n] = {}
    <3>1. CASE node \in HerdNodes
      BY <1>10, <2>1, <3>1 DEF TilesInv
    <3>2. CASE node \notin HerdNodes
      BY <1>1, <3>2 DEF TilesInv
    <3> QED
      BY <3>1, <3>2
  <2> QED
    BY <1>0, <1>9, <2>1, <2>2 DEF TilesInv
<1>12. ASSUME NEW n \in Nodes PROVE Promised(n)' <= Cardinality(Tiles \ taken')
  <2> DEFINE A == Tiles \ taken
             B == Tiles \ taken'
  <2>1. A \in SUBSET B
    BY <1>0
  <2>2. /\ IsFiniteSet(A) /\ IsFiniteSet(B) /\ Cardinality(A) \in Nat /\ Cardinality(B) \in Nat
        /\ Promised(n) \in Nat
    BY <1>2, FreeFacts, PromisedFacts
  <2>3. Promised(n) <= Cardinality(A)
    BY DEF TilesInv
  <2> HIDE DEF A, B
  <2>4. Cardinality(A) <= Cardinality(B)
    BY <2>1, <2>2, FS_Subset
  <2>5. Promised(n)' <= Cardinality(B)
    BY <1>6, <2>2, <2>3, <2>4
  <2> QED
    BY <2>5 DEF B
<1>13. \A n \in Nodes : n \notin HerdNodes \/ started'[StartOf(n)] = 0 => hiers[n] = {}
  BY <1>5 DEF TilesInv
<1>14. outcome' # "assertion"
  BY <1>0 DEF TilesInv
<1> QED
  BY <1>0, <1>7, <1>11, <1>12, <1>13, <1>14 DEF TilesInv

\* A segment or herd op never trips the assertion: its node has not started,
\* and the tiles promised to it are free.
LEMMA NoAssertion ==
    ASSUME Core, TilesInv, ExecuteHierarchy PROVE outcome' # "assertion"
<1> DEFINE v == Head(queue)
           n == Op(v).sub
           t == IF v \in Herds THEN TilesOf(v) ELSE 0
<1>0. /\ phase = "exec" /\ queue # <<>> /\ Op(v).kind \in {"segment", "herd"} /\ outcome = "running"
  BY DEF ExecuteHierarchy, Execute, Running
<1>1. v \in V /\ node \in Nodes /\ Contains(wave[node], v) /\ prog \in Programs
  BY <1>0, RemoveTyped DEF Core, Typed
<1>2. n \in Nodes
  BY <1>0, <1>1, KindFacts
<1>3. v \notin processed
  BY <1>1 DEF Core, WaveInv
<1>4. started[StartOf(n)] = 0
  BY <1>0, <1>1, <1>3 DEF Core, StartInv
<1>5. wave[n] = <<>>
  <2>1. wave[n] \in Seq(V)
    BY <1>2 DEF Core, Typed
  <2>2. ASSUME wave[n] # <<>> PROVE FALSE
    <3>1. wave[n][1] \in V /\ Contains(wave[n], wave[n][1])
      BY <2>1, <2>2 DEF Contains
    <3>2. Op(wave[n][1]).node = n /\ started[wave[n][1]] # 0
      BY <1>2, <3>1 DEF Core, WaveInv
    <3> QED
      BY <1>4, <3>1, <3>2 DEF Core, StartInv
  <2> QED
    BY <2>2
<1>6. /\ Cardinality(Tiles \ taken) \in Nat /\ Promised(node) \in Nat
      /\ Promised(node) <= Cardinality(Tiles \ taken)
  BY <1>1, FreeFacts, PromisedFacts DEF TilesInv
<1>7. ~(Cardinality(Tiles \ taken) < t)
  <2>1. CASE v \in Herds
    <3> HIDE DEF v
    <3>1. Batch(v) \in SUBSET PromisedTiles(node)
      BY <1>1, <2>1, PromisedFacts
    <3>2. IsFiniteSet(PromisedTiles(node)) /\ Cardinality(Batch(v)) = TilesOf(v) /\ TilesOf(v) \in Nat
      BY <1>1, <2>1, PromisedFacts, BatchFacts
    <3>3. TilesOf(v) <= Promised(node)
      BY <3>1, <3>2, FS_Subset DEF Promised
    <3> QED
      BY <1>6, <2>1, <3>2, <3>3
  <2>2. CASE v \notin Herds
    BY <1>6, <2>2
  <2> QED
    BY <2>1, <2>2
<1> QED
  BY <1>0, <1>5, <1>7 DEF ExecuteHierarchy

\* A node that starts takes tiles that were free, those promised to it.
LEMMA TilesHierarchy ==
    ASSUME Core, TilesInv, ExecuteHierarchy PROVE TilesInv'
<1> DEFINE v == Head(queue)
           n == Op(v).sub
           t == IF v \in Herds THEN TilesOf(v) ELSE 0
           free == Tiles \ taken
           got == FirstOf(free, t)
<1>0. outcome' # "assertion" /\ prog \in Programs /\ taken \in SUBSET Tiles
      /\ hiers \in [Nodes -> SUBSET Tiles]
  BY NoAssertion DEF Core, Typed
<1>1. /\ prog' = prog /\ ~(Cardinality(free) < t)
      /\ taken' = taken \union got /\ hiers' = [hiers EXCEPT ![n] = @ \union got]
  BY <1>0 DEF ExecuteHierarchy
<1>2. /\ v \in V /\ n \in Nodes /\ node \in Nodes /\ n # node
      /\ Op(v).kind \in {"segment", "herd"}
      /\ Contains(wave[node], v) /\ started[StartOf(n)] = 0
      /\ started'[StartOf(n)] # 0
      /\ \A u \in V : u # StartOf(n) => started'[u] = started[u]
      /\ \A m \in Nodes : \A u \in V : Contains(wave'[m], u) <=>
            \/ Contains(wave[m], u) /\ u # v
            \/ m = n /\ u = StartOf(n)
  BY <1>0, HierarchyStep
<1>3. v \in Herds => t = TilesOf(v) /\ TilesOf(v) \in Nat /\ TilesOf(v) = prog.herdTiles[n]
  BY <1>0, BatchFacts DEF TilesOf
<1>4. v \notin Herds => t = 0
  OBVIOUS
<1>5. v \in Herds => n \in HerdNodes
  BY DEF HerdNodes
<1>6. v \notin Herds => n \notin HerdNodes
  BY <1>0, <1>2, KindFacts DEF HerdNodes, Herds
<1>7. v \in Herds => \A u \in Herds : Op(u).node = Op(v).node
  BY <1>0, <1>2, KindFacts DEF Herds
<1>7a. Op(v).node = node
  BY <1>2 DEF Core, WaveInv
<1> HIDE DEF v, n, t
<1>8. t \in Nat
  BY <1>3, <1>4
<1>9. free \in SUBSET Nat /\ IsFiniteSet(free) /\ Cardinality(free) \in Nat
  BY <1>0, FreeFacts
<1>10. got \subseteq free /\ Cardinality(got) = t
  <2>1. t <= Cardinality(free)
    BY <1>1, <1>8, <1>9
  <2> HIDE DEF free
  <2> QED
    BY <1>8, <1>9, <2>1, FirstOfCardinality
<1>11. Cardinality(Tiles \ taken') = Cardinality(free) - t
  <2>1. Tiles \ taken' = free \ got /\ free \cap got = got
    BY <1>1, <1>10
  <2> HIDE DEF free, got
  <2>2. Cardinality(free \ got) = Cardinality(free) - Cardinality(free \cap got)
    BY <1>9, FS_Difference
  <2> QED
    BY <1>10, <2>1, <2>2
<1>12. got \cap taken = {} /\ (v \notin Herds => got = {})
  <2>1. got \cap taken = {}
    BY <1>10
  <2>2. ASSUME v \notin Herds PROVE got = {}
    <3>1. IsFiniteSet(got) /\ Cardinality(got) = 0
      BY <1>4, <1>9, <1>10, <2>2, FS_Subset
    <3> QED
      BY <3>1, FS_EmptySet
  <2> QED
    BY <2>1, <2>2
<1> HIDE DEF got, free
<1>13. \A m \in Nodes : /\ StartOf(m) \in V /\ Op(StartOf(m)).node = m /\ Op(StartOf(m)).kind = "start"
                        /\ EndOf(m) \in V /\ Op(EndOf(m)).kind = "end"
  BY <1>0, StartFacts
<1>14. /\ \A m \in Nodes : m # n => started'[StartOf(m)] = started[StartOf(m)]
       /\ \A m \in Nodes : started'[EndOf(m)] = started[EndOf(m)]
  BY <1>2, <1>13
<1>15. /\ Nodes' = Nodes /\ HerdNodes' = HerdNodes /\ Tiles' = Tiles /\ Herds' = Herds
       /\ \A m : StartOf(m)' = StartOf(m) /\ EndOf(m)' = EndOf(m)
  BY <1>1, SameProgram
<1>16. HerdNodes \subseteq Nodes
  BY KindFacts DEF HerdNodes, Herds, Core, Typed
<1>17. \A m \in HerdNodes : m # n => (Holds(m)' <=> Holds(m))
  BY <1>14, <1>15, <1>16 DEF Holds
<1>18. hiers'[n] = hiers[n] \union got /\ \A m \in Nodes : m # n => hiers'[m] = hiers[m]
  BY <1>0, <1>1, <1>2
<1>19. hiers[n] = {}
  BY <1>2 DEF TilesInv
<1>20. ASSUME NEW m \in Nodes, m \notin HerdNodes \/ started'[StartOf(m)] = 0
       PROVE  hiers'[m] = {}
  <2>1. CASE m = n
    BY <1>2, <1>5, <1>12, <1>18, <1>19, <1>20, <2>1
  <2>2. CASE m # n
    BY <1>14, <1>18, <1>20, <2>2 DEF TilesInv
  <2> QED
    BY <2>1, <2>2
<1>21. ASSUME NEW m \in HerdNodes, Holds(m)'
       PROVE  /\ hiers'[m] \subseteq taken' /\ Cardinality(hiers'[m]) = prog.herdTiles[m]
  <2>1. CASE m = n
    <3>1. hiers'[m] = got /\ v \in Herds
      BY <1>6, <1>18, <1>19, <2>1
    <3> QED
      BY <1>1, <1>3, <1>10, <2>1, <3>1
  <2>2. CASE m # n
    <3>1. Holds(m) /\ hiers'[m] = hiers[m]
      BY <1>16, <1>17, <1>18, <1>21, <2>2
    <3> QED
      BY <1>1, <3>1 DEF TilesInv
  <2> QED
    BY <2>1, <2>2
<1>22. ASSUME NEW m \in HerdNodes, m # n, Holds(m)'
       PROVE  hiers'[m] \cap hiers'[n] = {} /\ hiers'[m] = hiers[m] /\ Holds(m)
  <2>1. Holds(m) /\ hiers'[m] = hiers[m] /\ hiers[m] \subseteq taken
    BY <1>16, <1>17, <1>18, <1>22 DEF TilesInv
  <2>2. hiers'[n] = got
    BY <1>18, <1>19
  <2> QED
    BY <1>12, <2>1, <2>2
<1>23. ASSUME NEW m \in HerdNodes, NEW k \in HerdNodes, m # k, Holds(m)', Holds(k)'
       PROVE  hiers'[k] \cap hiers'[m] = {}
  <2>1. CASE m = n
    BY <1>22, <1>23, <2>1
  <2>2. CASE k = n
    BY <1>22, <1>23, <2>2
  <2>3. CASE m # n /\ k # n
    BY <1>22, <1>23, <2>3 DEF TilesInv
  <2> QED
    BY <2>1, <2>2, <2>3
<1>24. ASSUME NEW m \in Nodes PROVE Promised(m)' <= Cardinality(Tiles \ taken')
  <2>0. Promised(m) \in Nat /\ Promised(m) <= Cardinality(free)
    BY <1>0, PromisedFacts DEF TilesInv, free
  <2>1. CASE v \notin Herds
    <3>1. \A u \in Herds : Contains(wave'[m], u) <=> Contains(wave[m], u)
      BY <1>2, <1>13, <2>1 DEF Herds
    <3>2. Promised(m)' = Promised(m)
      BY <1>1, <3>1, PromisedSame
    <3> QED
      BY <1>4, <1>9, <1>11, <2>0, <2>1, <3>2
  <2>2. CASE v \in Herds
    <3> DEFINE P == PromisedTiles(m)
               Q == UNION {Batch(u) : u \in {w \in Herds : Contains(wave'[m], w)}}
    <3>1. PromisedTiles(m)' = Q
      <4>1. Herds' = Herds /\ \A u : TilesOf(u)' = TilesOf(u)
        BY <1>1, SameProgram
      <4> QED
        BY <4>1 DEF PromisedTiles, Batch, Contains
    <3>2. P = UNION {Batch(u) : u \in {w \in Herds : Contains(wave[m], w)}}
      BY DEF PromisedTiles, Batch
    <3>3. \A u \in Herds : Contains(wave'[m], u) <=> Contains(wave[m], u) /\ u # v
      BY <1>2, <1>13 DEF Herds
    <3>4. CASE m = node
      <4>1. Q = P \ Batch(v)
        BY <3>2, <3>3 DEF Batch
      <4>2. Batch(v) \subseteq P
        BY <1>2, <2>2, <3>2, <3>4
      <4>3. P \cap Batch(v) = Batch(v)
        BY <4>2
      <4>4. IsFiniteSet(P) /\ Cardinality(Batch(v)) = TilesOf(v)
        BY <1>0, <2>2, PromisedFacts, BatchFacts
      <4>5. Promised(m) = Cardinality(P) /\ Promised(m)' = Cardinality(Q)
        BY <3>1 DEF Promised
      <4> HIDE DEF P, Q
      <4>6. Cardinality(P \ Batch(v)) = Cardinality(P) - Cardinality(P \cap Batch(v))
        BY <4>4, FS_Difference
      <4>7. Promised(m)' = Promised(m) - t
        BY <1>3, <2>2, <4>1, <4>3, <4>4, <4>5, <4>6
      <4> QED
        BY <1>8, <1>9, <1>11, <2>0, <4>7
    <3>5. CASE m # node
      <4>1. \A u \in Herds : ~Contains(wave[m], u)
        BY <1>7, <1>7a, <2>2, <3>5 DEF Core, WaveInv, Herds
      <4>2. Q = {}
        BY <3>3, <4>1
      <4>3. Promised(m)' = 0
        BY <3>1, <4>2, FS_EmptySet DEF Promised
      <4>4. Cardinality(Tiles \ taken') \in Nat
        BY <1>0, FreeFacts
      <4> QED
        BY <4>3, <4>4
    <3> QED
      BY <3>4, <3>5
  <2> QED
    BY <2>1, <2>2
<1> QED
  BY <1>0, <1>1, <1>15, <1>20, <1>21, <1>23, <1>24 DEF TilesInv

LEMMA TilesStep == ASSUME Core, TilesInv, [Next]_vars PROVE TilesInv'
<1>1. CASE ExecuteHierarchy
  BY <1>1, TilesHierarchy
<1>2. CASE OfferEnd
  BY <1>2, TilesOfferEnd
<1>3. CASE AdmitHerd
  BY <1>3, TilesAdmitHerd
<1>4. CASE ExecuteOther \/ ExecutePut \/ ExecuteGet
  <2>1. /\ prog' = prog /\ outcome' = outcome /\ taken' = taken /\ hiers' = hiers
        /\ started' = started /\ phase = "exec" /\ queue # <<>> /\ Op(Head(queue)).kind # "herd"
        /\ wave' = [wave EXCEPT ![node] = Without(@, Head(queue))]
    BY <1>4 DEF ExecuteOther, ExecutePut, ExecuteGet, Retire, Execute, Running, timing
  <2> QED
    BY <2>1, TilesRemove DEF TilesInv
<1>5. CASE OfferOther \/ Dispatch
  <2>1. /\ UNCHANGED <<prog, pass, phase, processed, outcome>> /\ taken' = taken /\ hiers' = hiers
        /\ phase = "push" /\ queue # <<>> /\ queue' = Tail(queue) /\ Admit(Head(queue))
        /\ Op(Head(queue)).kind \notin {"herd", "end"}
    BY <1>5 DEF OfferOther, Dispatch, Offer, Running
  <2> QED
    BY <2>1, TilesAdmitOther DEF TilesInv
<1>6. CASE /\ UNCHANGED <<prog, taken, hiers, started, wave>>
           /\ outcome' # "assertion"
  BY <1>6, TilesStill
<1>7. ASSUME BeginFree \/ BeginExec \/ BeginPush \/ EndPush \/ FreeLink \/ RefuseHerd \/ Defer
             \/ Advance \/ Finish \/ UNCHANGED vars
      PROVE  UNCHANGED <<prog, taken, hiers, started, wave>> /\ outcome' # "assertion"
  <2>1. CASE Finish
    BY <2>1 DEF Finish, Verdict, timing
  <2>2. CASE ~Finish
    BY <1>7, <2>2 DEF BeginFree, BeginExec, BeginPush, EndPush, FreeLink, RefuseHerd, Defer,
       Advance, vars, timing, TilesInv
  <2> QED
    BY <2>1, <2>2
<1> QED
  BY <1>1, <1>2, <1>3, <1>4, <1>5, <1>6, <1>7 DEF Next

LEMMA TilesHold == Spec => []TilesInv
<1>1. Init => TilesInv
  <2> SUFFICES ASSUME Init PROVE TilesInv
    OBVIOUS
  <2>1. /\ prog \in Programs /\ outcome = "running" /\ taken = {} /\ hiers = [n \in Nodes |-> {}]
        /\ wave = [n \in Nodes |-> IF n = 1 THEN <<StartOf(1)>> ELSE <<>>]
        /\ started = [v \in V |-> IF v = StartOf(1) THEN 1 ELSE 0]
    BY DEF Init
  <2>2. 1 \in Nodes
    BY <2>1, ProgramFacts
  <2>3. Op(StartOf(1)).kind = "start" /\ Op(StartOf(1)).node = 1
    BY <2>1, <2>2, StartFacts
  <2>4. ASSUME NEW n \in HerdNodes PROVE ~Holds(n)
    <3>1. PICK v \in V : v \in Herds /\ n = Op(v).sub
      BY <2>4 DEF HerdNodes, Herds
    <3>2. n \in Nodes /\ n # 1
      <4>1. /\ Op(v).sub \in (Op(v).node + 1)..Len(prog.nodes) /\ Op(v).node \in 1..Len(prog.nodes)
            /\ Len(prog.nodes) \in Nat
        BY <2>1, <3>1, RunnerAssumption DEF ProgramOK, V, Op, Herds
      <4> QED
        BY <3>1, <4>1 DEF Nodes
    <3>3. StartOf(n) \in V /\ Op(StartOf(n)).node = n
      BY <2>1, <3>2, StartFacts
    <3>4. started[StartOf(n)] = 0
      BY <2>1, <2>3, <3>2, <3>3
    <3> QED
      BY <3>4 DEF Holds
  <2>5. ASSUME NEW n \in Nodes PROVE Promised(n) <= Cardinality(Tiles \ taken)
    <3>1. \A u \in Herds : ~Contains(wave[n], u)
      <4>1. \A u : Contains(<<StartOf(1)>>, u) => u = StartOf(1)
        BY DEF Contains
      <4>2. wave[n] = <<StartOf(1)>> \/ wave[n] = <<>>
        BY <2>1
      <4> QED
        BY <2>3, <4>1, <4>2, EmptyFacts DEF Herds
    <3>2. PromisedTiles(n) = {}
      BY <3>1 DEF PromisedTiles
    <3>3. Promised(n) = 0
      BY <3>2, FS_EmptySet DEF Promised
    <3>4. Cardinality(Tiles \ taken) \in Nat
      BY <2>1, FreeFacts
    <3> QED
      BY <3>3, <3>4
  <2> QED
    BY <2>1, <2>4, <2>5 DEF TilesInv
<1>2. Core /\ TilesInv /\ [Next]_vars => TilesInv'
  BY TilesStep
<1> QED
  BY <1>1, <1>2, CoreHolds, PTL DEF Spec

\* No tile is ever offered twice, whatever the program: a herd that runs owns
\* all the tiles it asked for and shares none, the tiles promised to admitted
\* herds stay free until those herds start (getTilesPromisedToWavefront), and
\* the assertion of allocateRunnerNodeToResourceHiers cannot trip.
THEOREM TilesNeverShared == Spec => []TilesSound
<1>1. TilesInv => TilesSound
  BY DEF TilesInv, TilesSound
<1> QED
  BY <1>1, TilesHold, PTL

-----------------------------------------------------------------------------
(* The order in which herds are admitted.                                  *)

\* A herd all of whose dependencies are fulfilled.
WaitsForTiles(u) ==
    /\ Op(u).deps \cap processed # {}
    /\ \A d \in DependsOn(u) : IsStarted(d) /\ IsDone(d)

\* What a herd depends on: nothing that is dispatched in rounds.
LEMMA DependsFacts ==
    ASSUME HerdsWaitForOps, prog \in Programs, NEW u \in Herds, NEW d \in DependsOn(u)
    PROVE  d \in V /\ Op(d).kind \notin {"put", "get"}
<1>1. u \in V /\ Op(u).kind = "herd"
  BY DEF Herds
<1>2. PICK w \in Op(u).deps : d = IF Op(w).kind \in {"segment", "herd"} THEN EndOf(Op(w).sub) ELSE w
  BY DEF DependsOn
<1>3. w \in V
  BY <1>1, <1>2, ProgramFacts
<1>4. Op(w).kind \notin {"put", "get"}
  BY <1>1, <1>2 DEF HerdsWaitForOps, V, Op
<1>5. CASE Op(w).kind \in {"segment", "herd"}
  <2>1. Op(w).sub \in Nodes
    BY <1>3, <1>5, KindFacts
  <2> QED
    BY <1>2, <1>5, <2>1, StartFacts
<1>6. CASE Op(w).kind \notin {"segment", "herd"}
  BY <1>2, <1>3, <1>4, <1>6
<1> QED
  BY <1>5, <1>6

\* Such a herd keeps waiting for tiles only: what it depends on is done for
\* good.
LEMMA WaitsOn ==
    ASSUME HerdsWaitForOps, Core, prog' = prog, processed \subseteq processed', time' >= time,
           time' \in Nat, NEW u \in Herds, WaitsForTiles(u),
           \A d \in V : (started[d] # 0 /\ Op(d).kind \notin {"put", "get"}) =>
                           started'[d] = started[d] /\ ended'[d] = ended[d]
    PROVE  WaitsForTiles(u)'
<1>1. \A v : Op(v)' = Op(v) /\ EndOf(v)' = EndOf(v)
  BY SameProgram
<1>2. DependsOn(u)' = DependsOn(u)
  BY <1>1 DEF DependsOn
<1>3. ASSUME NEW d \in DependsOn(u) PROVE IsStarted(d)' /\ IsDone(d)'
  <2>1. d \in V /\ Op(d).kind \notin {"put", "get"}
    BY <1>3, DependsFacts DEF Core, Typed
  <2>2. started[d] # 0 /\ ended[d] # 0 /\ time >= ended[d]
    BY <1>3 DEF WaitsForTiles, IsStarted, IsDone
  <2>3. started'[d] = started[d] /\ ended'[d] = ended[d]
    BY <2>1, <2>2
  <2>4. time \in Nat /\ ended[d] \in Nat
    BY <2>1 DEF Core, Typed
  <2>5. time' >= ended'[d]
    BY <2>2, <2>3, <2>4
  <2> QED
    BY <2>2, <2>3, <2>5 DEF IsStarted, IsDone
<1>4. Op(u)'.deps \cap processed' # {}
  BY <1>1 DEF WaitsForTiles
<1> QED
  BY <1>2, <1>3, <1>4 DEF WaitsForTiles

\* The parts of OrderInv.
OrderReady == \A u \in Herds : ready[u] # 0 => started[u] = 0 /\ WaitsForTiles(u)

OrderQueued ==
    phase = "push" /\ ~blocked =>
        \A u \in Herds : Op(u).node = node /\ ready[u] # 0 => Contains(queue, u)

OrderSorted ==
    phase = "push" =>
        \A i, j \in 1..Len(queue) :
            (i < j /\ queue[i] \in Herds /\ queue[j] \in Herds) =>
               Before(queue[i], queue[j], ready)

LEMMA OrderParts == OrderInv <=> OrderReady /\ OrderQueued /\ OrderSorted
  BY DEF OrderInv, OrderReady, OrderQueued, OrderSorted, WaitsForTiles

\* Steps outside a push phase.
LEMMA OrderOutside ==
    ASSUME HerdsWaitForOps, Core, OrderInv, prog' = prog, phase' # "push", ready' = ready,
           processed \subseteq processed', time' >= time, time' \in Nat,
           \A d \in V : (started[d] # 0 /\ Op(d).kind \notin {"put", "get"}) =>
                           started'[d] = started[d] /\ ended'[d] = ended[d],
           \A u \in Herds : started'[u] = started[u]
    PROVE  OrderInv'
<1>1. Herds' = Herds
  BY SameProgram
<1>2. ASSUME NEW u \in Herds, ready'[u] # 0 PROVE started'[u] = 0 /\ WaitsForTiles(u)'
  <2>1. started[u] = 0 /\ WaitsForTiles(u)
    BY <1>2, OrderParts DEF OrderReady
  <2> QED
    BY <2>1, WaitsOn
<1>3. OrderReady'
  BY <1>1, <1>2 DEF OrderReady
<1>4. OrderQueued' /\ OrderSorted'
  BY DEF OrderQueued, OrderSorted
<1> QED
  BY <1>3, <1>4, OrderParts DEF OrderInv, OrderReady, OrderQueued, OrderSorted, WaitsForTiles

\* A push finds every herd that waits for tiles, in the order of waiting.
LEMMA OrderBeginPush ==
    ASSUME HerdsWaitForOps, Core, OrderInv, BeginPush PROVE OrderInv'
<1> DEFINE able == {v \in Candidates : Fulfilled(v)}
           age == [v \in V |-> IF v \in able \cap Herds /\ ready[v] = 0 THEN time ELSE ready[v]]
<1>1. /\ queue' \in Orders(able, age) /\ ready' = age /\ phase' = "push"
      /\ UNCHANGED <<prog, time, pass, wave, processed, started, ended>>
  BY DEF BeginPush
<1>2. pass <= 2 * Len(prog.nodes)
  BY DEF BeginPush, Running
<1>3. node \in Nodes /\ prog \in Programs /\ IsFiniteSet(V) /\ Herds \subseteq V /\ time \in Nat
  BY <1>2, NodeFacts, ProgramFacts DEF Core, Typed, Herds
<1>4. Herds' = Herds /\ node' = node /\ \A v : Op(v)' = Op(v)
  BY <1>1, SameProgram DEF node
<1>5. \A u \in Herds : u \in able \/ ready[u] # 0 => WaitsForTiles(u) /\ started[u] = 0
  <2>1. ASSUME NEW u \in Herds, u \in able PROVE WaitsForTiles(u) /\ started[u] = 0
    <3>1. WaitsForTiles(u)
      BY <2>1 DEF WaitsForTiles, Candidates, Fulfilled
    <3>2. Op(u).node = node /\ u \notin processed /\ ~Contains(wave[node], u) /\ u \in V
      BY <1>3, <2>1, CandidateFacts
    <3>3. Op(u).kind \notin {"put", "get"}
      BY DEF Herds
    <3> QED
      BY <3>1, <3>2, <3>3 DEF Core, StartInv
  <2> QED
    BY <2>1, OrderParts DEF OrderReady
<1>6. ASSUME NEW u \in Herds, Op(u).node = node, ready[u] # 0 PROVE u \in able
  <2>1. started[u] = 0 /\ WaitsForTiles(u) /\ u \in V /\ Op(u).kind = "herd"
    BY <1>5, <1>6 DEF Herds
  <2>2. u \notin processed
    BY <2>1 DEF Core, StartInv
  <2>3. ~Contains(wave[node], u)
    BY <1>3, <2>1 DEF Core, WaveInv
  <2> QED
    BY <1>6, <2>1, <2>2, <2>3 DEF Candidates, Fulfilled, WaitsForTiles
<1>7. \A u \in Herds : age[u] # 0 => u \in able \/ ready[u] # 0
  BY <1>3
<1>8. able \subseteq V
  BY DEF Candidates
<1> HIDE DEF able, age
<1>9. \A u : Contains(queue', u) <=> u \in able
  <2>1. IsFiniteSet(able)
    BY <1>3, <1>8, FS_Subset
  <2> QED
    BY <1>1, <2>1, SetToSeqsFacts DEF Orders
<1>10. OrderReady'
  <2>1. ASSUME NEW u \in Herds, ready'[u] # 0 PROVE started'[u] = 0 /\ WaitsForTiles(u)'
    <3>1. WaitsForTiles(u) /\ started[u] = 0
      BY <1>1, <1>5, <1>7, <2>1
    <3>2. time' >= time /\ time' \in Nat /\ processed \subseteq processed'
      BY <1>1, <1>3
    <3>3. WaitsForTiles(u)'
      BY <1>1, <3>1, <3>2, WaitsOn
    <3> QED
      BY <1>1, <3>1, <3>3
  <2> QED
    BY <1>4, <2>1 DEF OrderReady
<1>11. OrderQueued'
  <2>1. \A u \in Herds : Op(u).node = node /\ ready'[u] # 0 => Contains(queue', u)
    BY <1>1, <1>6, <1>7, <1>9
  <2> QED
    BY <1>4, <2>1 DEF OrderQueued, Contains
<1>12. OrderSorted'
  <2>1. /\ queue' \in SetToSeqs(able)
        /\ \A i, j \in DOMAIN queue' :
              (i < j /\ queue'[i] \in Herds /\ queue'[j] \in Herds) => Before(queue'[i], queue'[j], age)
    BY <1>1 DEF Orders
  <2>2. DOMAIN queue' = 1..Len(queue')
    <3>1. IsFiniteSet(able)
      BY <1>3, <1>8, FS_Subset
    <3>2. queue' \in Seq(able)
      BY <2>1, <3>1, SetToSeqsFacts
    <3> QED
      BY <3>2
  <2> QED
    BY <1>1, <1>4, <2>1, <2>2 DEF OrderSorted, Before
<1> QED
  BY <1>10, <1>11, <1>12, OrderParts DEF OrderInv, OrderReady, OrderQueued, OrderSorted, WaitsForTiles

\* The head of the queue is looked at: admitted, in which case its waiting is
\* over, or left to a later pass.
LEMMA OrderTail ==
    ASSUME HerdsWaitForOps, Core, OrderInv, UNCHANGED <<prog, time, pass, phase, processed>>,
           phase = "push", queue # <<>>, queue' = Tail(queue),
           blocked' \/ (~blocked /\ (Head(queue) \in Herds => ready'[Head(queue)] = 0)),
           \A u \in V : u # Head(queue) =>
              ready'[u] = ready[u] /\ started'[u] = started[u] /\ ended'[u] = ended[u],
           \/ Admit(Head(queue))
           \/ UNCHANGED <<started, ended, ready>>
    PROVE  OrderInv'
<1> DEFINE v == Head(queue)
<1>1. Herds' = Herds /\ node' = node /\ \A u : Op(u)' = Op(u)
  BY SameProgram DEF node
<1>2. queue \in Seq(V) /\ Distinct(queue) /\ Herds \subseteq V /\ time \in Nat
  BY DEF Core, Typed, QueueInv, Herds
<1>3. /\ v \in V /\ Tail(queue) \in Seq(V) /\ Len(queue') = Len(queue) - 1
      /\ \A u : Contains(queue', u) <=> Contains(queue, u) /\ u # v
      /\ \A i \in 1..Len(queue') : queue'[i] = queue[i + 1]
  BY <1>2, TailFacts
<1>4. \A d \in V : (started[d] # 0 /\ Op(d).kind \notin {"put", "get"}) =>
          started'[d] = started[d] /\ ended'[d] = ended[d]
  <2>1. CASE Admit(v)
    <3>1. Op(v).kind \notin {"put", "get"} => started[v] = 0
      BY <2>1, AdmitStep
    <3> QED
      BY <3>1
  <2>2. CASE UNCHANGED <<started, ended, ready>>
    BY <2>2
  <2> QED
    BY <2>1, <2>2
<1>5. Admit(v) => ready'[v] = 0
  <2>1. ready \in [V -> Nat]
    BY DEF Core, Typed
  <2> QED
    BY <1>3, <2>1 DEF Admit
<1> HIDE DEF v
<1>6. OrderReady'
  <2>1. ASSUME NEW u \in Herds, ready'[u] # 0 PROVE started'[u] = 0 /\ WaitsForTiles(u)'
    <3>1. ready'[u] = ready[u] /\ started'[u] = started[u]
      BY <1>2, <1>5, <2>1 DEF v
    <3>2. started[u] = 0 /\ WaitsForTiles(u)
      BY <2>1, <3>1, OrderParts DEF OrderReady
    <3>3. time' >= time /\ time' \in Nat /\ processed \subseteq processed'
      BY <1>2
    <3>4. WaitsForTiles(u)'
      BY <1>4, <3>2, <3>3, WaitsOn
    <3> QED
      BY <3>1, <3>2, <3>4
  <2> QED
    BY <1>1, <2>1 DEF OrderReady
<1>7. OrderQueued'
  <2>1. ASSUME ~blocked', NEW u \in Herds, Op(u).node = node, ready'[u] # 0
        PROVE  Contains(queue', u)
    <3>1. ~blocked /\ u # v
      BY <2>1 DEF v
    <3>2. ready[u] # 0
      BY <1>2, <2>1, <3>1 DEF v
    <3>3. Contains(queue, u)
      BY <2>1, <3>1, <3>2, OrderParts DEF OrderQueued
    <3> QED
      BY <1>3, <3>1, <3>3
  <2> QED
    BY <1>1, <2>1 DEF OrderQueued, Contains
<1>8. OrderSorted'
  <2>1. ASSUME NEW i \in 1..Len(queue'), NEW j \in 1..Len(queue'), i < j,
               queue'[i] \in Herds, queue'[j] \in Herds
        PROVE  Before(queue'[i], queue'[j], ready')
    <3>1. /\ i + 1 \in 1..Len(queue) /\ j + 1 \in 1..Len(queue) /\ i + 1 < j + 1
          /\ queue'[i] = queue[i + 1] /\ queue'[j] = queue[j + 1]
      <4>1. Len(queue) \in Nat /\ i \in 1..(Len(queue) - 1) /\ j \in 1..(Len(queue) - 1)
        BY <1>2, <1>3, <2>1
      <4>2. i + 1 \in 1..Len(queue) /\ j + 1 \in 1..Len(queue) /\ i + 1 < j + 1
        BY <2>1, <4>1
      <4> QED
        BY <1>3, <2>1, <4>2
    <3>2. Before(queue[i + 1], queue[j + 1], ready)
      BY <2>1, <3>1, OrderParts DEF OrderSorted
    <3>3. Contains(queue', queue'[i]) /\ Contains(queue', queue'[j])
      BY <2>1 DEF Contains
    <3>4. queue'[i] # v /\ queue'[j] # v
      BY <1>3, <3>3
    <3>5. ready'[queue'[i]] = ready[queue'[i]] /\ ready'[queue'[j]] = ready[queue'[j]]
      BY <1>2, <2>1, <3>4 DEF v
    <3> QED
      BY <3>1, <3>2, <3>5 DEF Before
  <2> QED
    BY <1>1, <2>1 DEF OrderSorted, Before
<1> QED
  BY <1>6, <1>7, <1>8, OrderParts DEF OrderInv, OrderReady, OrderQueued, OrderSorted, WaitsForTiles

LEMMA OrderStep ==
    ASSUME HerdsWaitForOps, Core, Core', OrderInv, [Next]_vars PROVE OrderInv'
<1> DEFINE v == Head(queue)
<1>0. time \in Nat /\ time' \in Nat /\ Herds \subseteq V /\ started \in [V -> Nat] /\ ready \in [V -> Nat]
  BY DEF Core, Typed, Herds
<1>1. CASE BeginPush
  BY <1>1, OrderBeginPush
<1>2. CASE /\ UNCHANGED <<prog, ready, started, ended>> /\ phase' # "push"
           /\ processed \subseteq processed' /\ time' >= time
  BY <1>0, <1>2, OrderOutside
<1>3. CASE BeginFree \/ BeginExec \/ EndPush \/ FreeLink \/ ExecuteOther \/ ExecutePut \/ ExecuteGet
  <2>1. UNCHANGED <<prog, ready, started, ended, time>> /\ phase' # "push"
    BY <1>3 DEF BeginFree, BeginExec, EndPush, FreeLink, ExecuteOther, ExecutePut, ExecuteGet,
       Execute, Running, timing
  <2>2. processed \subseteq processed'
    BY <1>3 DEF BeginFree, BeginExec, EndPush, FreeLink, ExecuteOther, ExecutePut, ExecuteGet, Retire
  <2> QED
    BY <1>0, <1>2, <2>1, <2>2
<1>4. CASE Advance
  <2>1. /\ UNCHANGED <<prog, ready, started, ended, processed>> /\ phase' # "push"
        /\ \E t : time' = Max2(time + 1, t)
    BY <1>4 DEF Advance, timing
  <2>2. time' >= time
    <3>1. PICK t : time' = Max2(time + 1, t)
      BY <2>1
    <3>2. CASE time + 1 > t
      BY <1>0, <3>1, <3>2 DEF Max2
    <3>3. CASE ~(time + 1 > t)
      <4>1. time' = t /\ t \in Nat
        BY <1>0, <3>1, <3>3 DEF Max2
      <4> QED
        BY <1>0, <3>3, <4>1
    <3> QED
      BY <3>2, <3>3
  <2> QED
    BY <1>2, <2>1, <2>2
<1>5. CASE ExecuteHierarchy /\ outcome' = "assertion"
  <2>1. outcome = "running" /\ phase' # "push" /\ UNCHANGED <<prog, time>>
    BY <1>5 DEF ExecuteHierarchy, Execute, Running
  <2>2. UNCHANGED <<ready, started, ended, processed>>
    BY <1>5, <2>1 DEF ExecuteHierarchy, timing
  <2> QED
    BY <1>0, <1>2, <2>1, <2>2
<1>6. CASE ExecuteHierarchy /\ outcome' # "assertion"
  <2> DEFINE s == StartOf(Op(v).sub)
  <2>1. phase' # "push" /\ UNCHANGED <<prog, time>>
    BY <1>6 DEF ExecuteHierarchy, Execute, Running
  <2>2. ready' = ready
    BY <1>6 DEF ExecuteHierarchy
  <2>3. /\ started[s] = 0 /\ processed' = processed \union {v} /\ Op(v).sub \in Nodes
        /\ \A u \in V : u # s => started'[u] = started[u] /\ ended'[u] = ended[u]
    BY <1>6, HierarchyStep
  <2>4. Op(s).kind = "start"
    BY <2>3, StartFacts DEF Core, Typed
  <2> HIDE DEF s, v
  <2>5. \A u \in Herds : started'[u] = started[u]
    BY <2>3, <2>4 DEF Herds
  <2> QED
    BY <1>0, <2>1, <2>2, <2>3, <2>5, OrderOutside
<1>7. CASE OfferOther \/ OfferEnd \/ AdmitHerd \/ Dispatch
  <2>1. /\ UNCHANGED <<prog, time, pass, phase, processed, blocked>> /\ phase = "push" /\ queue # <<>>
        /\ queue' = Tail(queue) /\ Admit(v)
    BY <1>7 DEF OfferOther, OfferEnd, AdmitHerd, Dispatch, Offer, Running
  <2>2. v \in V
    BY <2>1, AdmitStep
  <2>3. /\ ready'[v] = 0 /\ \A u \in V : u # v =>
              ready'[u] = ready[u] /\ started'[u] = started[u] /\ ended'[u] = ended[u]
    <3>1. ended \in [V -> Nat]
      BY DEF Core, Typed
    <3>2. /\ ready' = [ready EXCEPT ![v] = 0] /\ started' = [started EXCEPT ![v] = time]
          /\ \E e : ended' = [ended EXCEPT ![v] = e]
      BY <2>1 DEF Admit
    <3> HIDE DEF v
    <3> QED
      BY <1>0, <2>2, <3>1, <3>2
  <2> QED
    BY <2>1, <2>3, OrderTail
<1>8. CASE RefuseHerd
  <2>1. /\ UNCHANGED <<prog, time, pass, phase, processed, started, ended, ready>> /\ blocked'
        /\ phase = "push" /\ queue # <<>> /\ queue' = Tail(queue)
    BY <1>8 DEF RefuseHerd, Offer, Running, timing
  <2> QED
    BY <2>1, OrderTail
<1>9. CASE Defer
  <2>1. /\ UNCHANGED <<prog, time, pass, phase, processed, blocked, started, ended, ready>>
        /\ phase = "push" /\ queue # <<>> /\ queue' = Tail(queue) /\ v \notin Herds
    BY <1>9 DEF Defer, Offer, Running, timing, Herds
  <2> QED
    BY <2>1, OrderTail
<1>10. CASE Finish \/ UNCHANGED vars
  <2>1. UNCHANGED <<prog, time, pass, phase, processed, blocked, queue, started, ended, ready>>
    BY <1>10 DEF Finish, vars, timing
  <2>2. Herds' = Herds /\ node' = node /\ \A u : Op(u)' = Op(u) /\ EndOf(u)' = EndOf(u)
    BY <2>1, SameProgram DEF node
  <2>3. \A u : WaitsForTiles(u)' <=> WaitsForTiles(u)
    BY <2>1, <2>2 DEF WaitsForTiles, DependsOn, IsStarted, IsDone
  <2>4. OrderReady' /\ OrderQueued' /\ OrderSorted'
    BY <2>1, <2>2, <2>3, OrderParts DEF OrderReady, OrderQueued, OrderSorted, Contains, Before
  <2> QED
    BY <2>4 DEF OrderInv, OrderReady, OrderQueued, OrderSorted, WaitsForTiles
<1> QED
  BY <1>1, <1>3, <1>4, <1>5, <1>6, <1>7, <1>8, <1>9, <1>10 DEF Next

\* The herd that starts is the one that has waited longest.
LEMMA AdmitsOldest ==
    ASSUME Core, OrderInv, [Next]_vars, NEW v \in Herds, started[v] = 0, started'[v] # 0,
           NEW u \in Herds, Op(u).node = Op(v).node, u # v, ready[u] # 0
    PROVE  Before(v, u, ready)
<1>0. started \in [V -> Nat] /\ v \in V /\ u \in V /\ Op(v).kind = "herd"
  BY DEF Core, Typed, Herds
<1>1. started' # started
  OBVIOUS
<1>2. CASE ExecuteHierarchy
  <2>1. outcome' # "assertion"
    <3>1. outcome = "running"
      BY <1>2 DEF ExecuteHierarchy, Execute, Running
    <3> QED
      BY <1>1, <1>2, <3>1 DEF ExecuteHierarchy, timing
  <2>2. /\ Op(Head(queue)).sub \in Nodes
        /\ \A w \in V : w # StartOf(Op(Head(queue)).sub) => started'[w] = started[w]
    BY <1>2, <2>1, HierarchyStep
  <2>3. Op(StartOf(Op(Head(queue)).sub)).kind = "start"
    BY <2>2, StartFacts DEF Core, Typed
  <2> QED
    BY <1>0, <2>2, <2>3
<1>3. CASE OfferOther \/ OfferEnd \/ AdmitHerd \/ Dispatch
  <2>1. /\ UNCHANGED <<prog, pass, phase, processed>> /\ phase = "push" /\ queue # <<>>
        /\ queue' = Tail(queue) /\ Admit(Head(queue))
    BY <1>3 DEF OfferOther, OfferEnd, AdmitHerd, Dispatch, Offer, Running
  <2>2. Head(queue) \in V /\ Op(Head(queue)).node = node
    BY <2>1, AdmitStep
  <2>3. v = Head(queue)
    BY <1>0, <2>1, <2>2 DEF Admit
  <2>4. ~blocked
    BY <1>0, <1>3, <2>3 DEF OfferOther, OfferEnd, AdmitHerd, Dispatch, Offer
  <2>5. Contains(queue, u)
    BY <2>1, <2>2, <2>3, <2>4, OrderParts DEF OrderQueued
  <2>6. PICK j \in 1..Len(queue) : queue[j] = u
    BY <2>5 DEF Contains
  <2>7. queue \in Seq(V)
    BY DEF Core, Typed
  <2>8. 1 \in 1..Len(queue) /\ queue[1] = v /\ 1 < j
    BY <2>1, <2>3, <2>6, <2>7
  <2> QED
    BY <2>1, <2>6, <2>8, OrderParts DEF OrderSorted
<1>4. ASSUME ~ExecuteHierarchy, ~(OfferOther \/ OfferEnd \/ AdmitHerd \/ Dispatch)
      PROVE  started' = started
  BY <1>4 DEF Next, vars, timing, BeginFree, BeginExec, BeginPush, EndPush, FreeLink, ExecuteOther,
     ExecutePut, ExecuteGet, RefuseHerd, Defer, Advance, Finish
<1> QED
  BY <1>1, <1>2, <1>3, <1>4

\* In every program whose herds wait for hierarchy ops, allocations and other
\* ops that run once, no herd is admitted to the tiles of the segment past one
\* that has waited longer (first_ready_time, herd_blocked): a herd found ready
\* is offered in every later push until it starts, oldest first, and the first
\* that does not fit blocks those behind it.
THEOREM HerdsKeepTheirPlace ==
    ASSUME HerdsWaitForOps PROVE Spec => NoOvertaking
<1>1. Init => OrderInv
  <2> SUFFICES ASSUME Init PROVE OrderInv
    OBVIOUS
  <2>1. phase = "begin" /\ \A u \in Herds : ready[u] = 0
    BY DEF Init, Herds
  <2> QED
    BY <2>1 DEF OrderInv
<1>2. Core /\ Core' /\ OrderInv /\ [Next]_vars => OrderInv'
  BY OrderStep
<1>3. Core /\ OrderInv /\ [Next]_vars =>
        [\A v \in Herds : started[v] = 0 /\ started'[v] # 0 =>
            \A u \in Herds : (/\ Op(u).node = Op(v).node /\ u # v
                              /\ started[u] = 0 /\ ready[u] # 0) => Before(v, u, ready)]_vars
  BY AdmitsOldest
<1>4. Spec => []OrderInv
  BY <1>1, <1>2, CoreHolds, PTL DEF Spec
<1> QED
  BY <1>3, <1>4, CoreHolds, PTL DEF Spec, NoOvertaking


-----------------------------------------------------------------------------
(* Programs whose channel ops move one instance each: what a latency says. *)

\* The ops of kind k on channel c.
Uses(p, c, k) == {i \in DOMAIN p.ops : p.ops[i].kind = k /\ p.ops[i].chan = c}

\* Every put and get moves one instance; a channel in use has one put and as
\* many gets as its fan-out: point to point, or a broadcast to several ops.
Scalar(p) ==
    /\ \A i \in DOMAIN p.ops : p.ops[i].kind \in {"put", "get"} => p.ops[i].width = 1
    /\ \A c \in DOMAIN p.fanout :
          \/ Uses(p, c, "put") = {} /\ Uses(p, c, "get") = {}
          \/ /\ Cardinality(Uses(p, c, "put")) = 1
             /\ Cardinality(Uses(p, c, "get")) = p.fanout[c]

\* The links of the program have no time of flight after their occupancy.
NoFlight(p) == \A i \in DOMAIN p.ops : p.ops[i].kind = "get" => p.ops[i].flight = 0

\* A channel op is dispatched once: from then on it is on the wavefront, with
\* its instance on record, or processed.
OpsInv ==
    /\ total \in [V -> Nat]
    /\ \A v \in V : Op(v).kind \in {"put", "get"} =>
          /\ started[v] = 0 => total[v] = 0 /\ sent[v] = 0
          /\ started[v] # 0 =>
                /\ total[v] = 1
                /\ v \in processed \/ (Contains(wave[Op(v).node], v) /\ sent[v] = 1)

\* The ops of a channel that have been dispatched.
Dispatched(c, k) == {v \in Uses(prog, c, k) : started[v] # 0}

\* A channel is unused or completed and cleared...
Idle(c) ==
    /\ moved[c] = [put |-> 0, get |-> 0]
    /\ \A k \in {"put", "get"} : \A v \in Uses(prog, c, k) : started[v] # 0

\* ... or its progress counts the ops dispatched, one of its gets is still to
\* be executed.
Open(c) ==
    /\ moved[c].put = Cardinality(Dispatched(c, "put"))
    /\ moved[c].get = Cardinality(Dispatched(c, "get"))
    /\ \E g \in Uses(prog, c, "get") : g \notin processed

ChanInv == \A c \in Chans : Idle(c) \/ Open(c)

LEMMA UsesFacts ==
    ASSUME prog \in Programs, Scalar(prog), NEW c \in Chans, NEW k
    PROVE  /\ Uses(prog, c, k) \subseteq V /\ IsFiniteSet(Uses(prog, c, k))
           /\ Dispatched(c, k) \subseteq Uses(prog, c, k)
           /\ IsFiniteSet(Dispatched(c, k)) /\ Cardinality(Dispatched(c, k)) \in Nat
           /\ prog.fanout[c] \in Nat \ {0}
           /\ \A v \in V : v \in Uses(prog, c, k) <=> Op(v).kind = k /\ Op(v).chan = c
<1>1. Uses(prog, c, k) \subseteq V /\ Dispatched(c, k) \subseteq Uses(prog, c, k)
  BY DEF Uses, V, Dispatched
<1>2. IsFiniteSet(V)
  BY ProgramFacts
<1>3. IsFiniteSet(Uses(prog, c, k)) /\ IsFiniteSet(Dispatched(c, k))
  BY <1>1, <1>2, FS_Subset
<1>4. prog.fanout[c] \in Nat \ {0}
  BY RunnerAssumption DEF ProgramOK, Chans
<1>5. \A v \in V : v \in Uses(prog, c, k) <=> Op(v).kind = k /\ Op(v).chan = c
  BY DEF Uses, V, Op
<1> QED
  BY <1>1, <1>3, <1>4, <1>5, FS_CardinalityType

\* The channel of an op of such a program.
LEMMA ScalarOp ==
    ASSUME prog \in Programs, Scalar(prog), NEW v \in V, Op(v).kind \in {"put", "get"}
    PROVE  LET c == Op(v).chan
           IN  /\ c \in Chans /\ Op(v).width = 1 /\ v \in Uses(prog, c, Op(v).kind)
               /\ Cardinality(Uses(prog, c, "put")) = 1
               /\ Cardinality(Uses(prog, c, "get")) = prog.fanout[c]
<1> DEFINE c == Op(v).chan
<1>1. c \in Chans
  BY KindFacts
<1>2. Op(v).width = 1 /\ v \in Uses(prog, c, Op(v).kind)
  BY DEF Scalar, Op, V, Uses
<1>3. \/ Uses(prog, c, "put") = {} /\ Uses(prog, c, "get") = {}
      \/ /\ Cardinality(Uses(prog, c, "put")) = 1
         /\ Cardinality(Uses(prog, c, "get")) = prog.fanout[c]
  BY <1>1, Zenon DEF Scalar, Chans
<1> QED
  BY <1>1, <1>2, <1>3

\* A step that does nothing to the channel ops.
LEMMA OpsStill ==
    ASSUME Core, OpsInv, ChanInv, UNCHANGED <<prog, moved, sent, total>>,
           \A u \in V : Op(u).kind \in {"put", "get"} =>
              /\ started'[u] = started[u] /\ (u \in processed' <=> u \in processed)
              /\ Contains(wave[Op(u).node], u) => Contains(wave'[Op(u).node], u)
    PROVE  OpsInv' /\ ChanInv'
<1>1. V' = V /\ Chans' = Chans /\ \A u : Op(u)' = Op(u)
  BY SameProgram
<1>2. \A c, k : Uses(prog, c, k)' = Uses(prog, c, k)
  BY DEF Uses
<1>3. \A c : \A k \in {"put", "get"} : \A u \in Uses(prog, c, k) :
         u \in V /\ Op(u).kind = k
  BY DEF Uses, V, Op
<1>4. \A c : \A k \in {"put", "get"} : Dispatched(c, k)' = Dispatched(c, k)
  BY <1>2, <1>3 DEF Dispatched
<1>5. OpsInv'
  BY <1>1 DEF OpsInv, Contains
<1>6. ASSUME NEW c \in Chans, Idle(c) PROVE Idle(c)'
  BY <1>2, <1>3, <1>6 DEF Idle
<1>7. ASSUME NEW c \in Chans, Open(c) PROVE Open(c)'
  <2>1. PICK g \in Uses(prog, c, "get") : g \notin processed
    BY <1>7 DEF Open
  <2>2. g \in Uses(prog, c, "get")' /\ g \notin processed'
    BY <1>2, <1>3, <2>1
  <2> QED
    BY <1>4, <1>7, <2>2 DEF Open
<1> QED
  BY <1>1, <1>5, <1>6, <1>7 DEF ChanInv


\* An op on the wavefront has its instance on record.
LEMMA OnRecord ==
    ASSUME Core, OpsInv, NEW v \in V, Op(v).kind \in {"put", "get"}, NEW n \in Nodes,
           Contains(wave[n], v)
    PROVE  started[v] # 0 /\ v \notin processed /\ sent[v] = 1 /\ Op(v).node = n
<1>1. started[v] # 0 /\ v \notin processed /\ Op(v).node = n
  BY DEF Core, WaveInv
<1> QED
  BY <1>1 DEF OpsInv

\* Of a set of size n, a subset of size n is all of it.
LEMMA SameSize ==
    ASSUME NEW S, NEW T, IsFiniteSet(S), T \subseteq S, Cardinality(T) = Cardinality(S)
    PROVE  T = S
  BY FS_Subset

\* A put is complete whenever it is executed, its channel cleared or not.
LEMMA PutRetires ==
    ASSUME Core, Scalar(prog), OpsInv, ChanInv, NEW v \in V, Op(v).kind = "put",
           NEW n \in Nodes, Contains(wave[n], v)
    PROVE  PutComplete(v)
<1> DEFINE c == Op(v).chan
           D == Dispatched(c, "put")
           U == Uses(prog, c, "put")
<1>0. prog \in Programs
  BY DEF Core, Typed
<1>1. started[v] # 0 /\ sent[v] = 1
  BY OnRecord
<1>2. c \in Chans /\ Op(v).width = 1 /\ v \in U /\ Cardinality(U) = 1
  BY <1>0, ScalarOp
<1>3. CASE Idle(c)
  <2>1. moved[c].put = 0
    BY <1>3 DEF Idle
  <2> QED
    BY <1>1, <2>1 DEF PutComplete
<1>4. CASE Open(c)
  <2>1. D \subseteq U /\ IsFiniteSet(U) /\ IsFiniteSet(D) /\ Cardinality(D) \in Nat /\ v \in D
    BY <1>0, <1>1, <1>2, UsesFacts DEF Dispatched
  <2>2. Cardinality(D) <= 1 /\ Cardinality(D) # 0
    BY <1>2, <2>1, FS_Subset, FS_EmptySet
  <2>3. moved[c].put = 1
    BY <1>4, <2>1, <2>2 DEF Open
  <2> QED
    BY <1>2, <2>3 DEF PutComplete
<1> QED
  BY <1>2, <1>3, <1>4 DEF ChanInv

\* A get retires whenever it is executed: its channel was cleared before, or
\* this get completes it, or it is one of several receivers and others are
\* still to be dispatched.
LEMMA GetCases ==
    ASSUME Core, BooksAgree, Scalar(prog), OpsInv, ChanInv, NEW v \in V, Op(v).kind = "get",
           NEW n \in Nodes, Contains(wave[n], v)
    PROVE  LET c == Op(v).chan
               f == prog.fanout[c]
           IN  /\ c \in Chans /\ f \in Nat \ {0} /\ GetRetires(v)
               /\ \/ Idle(c) /\ ~ChannelComplete(v)
                  \/ /\ Open(c) /\ ChannelComplete(v) /\ moved[c].put = 1 /\ moved[c].get = f
                     /\ \A k \in {"put", "get"} : \A u \in Uses(prog, c, k) : started[u] # 0
                  \/ /\ Open(c) /\ ~ChannelComplete(v) /\ moved[c].put = 1 /\ moved[c].get < f
                     /\ \E g \in Uses(prog, c, "get") : started[g] = 0
<1> DEFINE c == Op(v).chan
           f == prog.fanout[c]
           D(k) == Dispatched(c, k)
           U(k) == Uses(prog, c, k)
<1>0. prog \in Programs
  BY DEF Core, Typed
<1>1. started[v] # 0 /\ sent[v] = 1
  BY OnRecord
<1>2. /\ c \in Chans /\ Op(v).width = 1 /\ v \in U("get")
      /\ Cardinality(U("put")) = 1 /\ Cardinality(U("get")) = f
  BY <1>0, ScalarOp
<1>3. /\ f \in Nat \ {0}
      /\ \A k : /\ D(k) \subseteq U(k) /\ IsFiniteSet(U(k)) /\ IsFiniteSet(D(k))
                /\ Cardinality(D(k)) \in Nat
  BY <1>0, <1>2, UsesFacts
<1>4. Max2(Op(v).width, f) = f
  BY <1>2, <1>3 DEF Max2
<1>5. ChannelComplete(v) <=> moved[c].put * f = f /\ moved[c].get = f
  BY <1>4 DEF ChannelComplete
<1>6. ASSUME Idle(c) PROVE ~ChannelComplete(v) /\ GetRetires(v)
  <2>1. moved[c].put = 0 /\ moved[c].get = 0
    BY <1>6 DEF Idle
  <2> QED
    BY <1>3, <1>5, <2>1 DEF GetRetires
<1>7. ASSUME Open(c)
      PROVE  /\ GetRetires(v) /\ moved[c].put = 1
             /\ \/ /\ ChannelComplete(v) /\ moved[c].get = f
                   /\ \A k \in {"put", "get"} : \A u \in Uses(prog, c, k) : started[u] # 0
                \/ /\ ~ChannelComplete(v) /\ moved[c].get < f
                   /\ \E g \in Uses(prog, c, "get") : started[g] = 0
  <2>1. moved[c].put = Cardinality(D("put")) /\ moved[c].get = Cardinality(D("get"))
    BY <1>7 DEF Open
  <2>2. v \in D("get") /\ Cardinality(D("get")) # 0
    BY <1>1, <1>2, <1>3, FS_EmptySet DEF Dispatched
  <2>3. Cardinality(D("put")) <= 1 /\ Cardinality(D("get")) <= f
    BY <1>2, <1>3, FS_Subset
  <2>4. moved[c].put # 0
    <3>1. moved[c].put * f - moved[c].get >= 0
      BY <1>2 DEF BooksAgree
    <3> QED
      BY <1>3, <2>1, <2>2, <3>1
  <2>5. moved[c].put = 1 /\ moved[c].get \in 1..f
    BY <1>3, <2>1, <2>2, <2>3, <2>4
  <2>6. \A u \in U("put") : started[u] # 0
    <3>1. D("put") = U("put")
      BY <1>2, <1>3, <2>1, <2>5, SameSize
    <3> QED
      BY <3>1 DEF Dispatched
  <2>7. CASE moved[c].get = f
    <3>1. D("get") = U("get")
      BY <1>2, <1>3, <2>1, <2>7, SameSize
    <3>2. \A u \in U("get") : started[u] # 0
      BY <3>1 DEF Dispatched
    <3>3. ChannelComplete(v)
      BY <1>3, <1>5, <2>5, <2>7
    <3> QED
      BY <2>5, <2>6, <2>7, <3>2, <3>3 DEF GetRetires
  <2>8. CASE moved[c].get # f
    <3>1. moved[c].get < f /\ f > 1 /\ ~ChannelComplete(v)
      BY <1>3, <1>5, <2>5, <2>8
    <3>2. D("get") # U("get")
      BY <1>2, <2>1, <2>8
    <3>3. \E g \in U("get") : started[g] = 0
      BY <1>3, <3>2 DEF Dispatched
    <3>4. GetRetires(v)
      BY <1>1, <1>2, <3>1 DEF GetRetires
    <3> QED
      BY <2>5, <3>1, <3>3, <3>4
  <2> QED
    BY <2>7, <2>8
<1> QED
  BY <1>2, <1>3, <1>6, <1>7 DEF ChanInv

\* What retiring an op does to the channel ops.
LEMMA OpsRetire ==
    ASSUME Core, OpsInv, phase = "exec", queue # <<>>, Op(Head(queue)).kind \in {"put", "get"},
           NEW STATE r, r, Retire(Head(queue), r), UNCHANGED <<prog, started, total>>
    PROVE  /\ OpsInv' /\ processed' = processed \union {Head(queue)}
           /\ Head(queue) \in V /\ node \in Nodes /\ Contains(wave[node], Head(queue))
<1> DEFINE v == Head(queue)
<1>1. /\ wave' = [wave EXCEPT ![node] = Without(@, v)] /\ processed' = processed \union {v}
      /\ sent' = [sent EXCEPT ![v] = 0]
  BY DEF Retire
<1>2. node \in Nodes /\ v \in V /\ Contains(wave[node], v)
  BY RemoveTyped
<1>3. wave \in [Nodes -> Seq(V)] /\ sent \in [V -> Nat] /\ Distinct(wave[node])
  BY <1>2 DEF Core, Typed, WaveInv
<1> HIDE DEF v
<1>4. \A u : Contains(wave'[node], u) <=> Contains(wave[node], u) /\ u # v
  BY <1>1, <1>2, <1>3, WithoutFacts
<1>5. ASSUME NEW m \in Nodes, NEW u \in V, u # v, Contains(wave[m], u) PROVE Contains(wave'[m], u)
  <2>1. CASE m = node
    BY <1>4, <1>5, <2>1
  <2>2. CASE m # node
    BY <1>1, <1>2, <1>3, <1>5, <2>2
  <2> QED
    BY <2>1, <2>2
<1>6. V' = V /\ \A u : Op(u)' = Op(u)
  BY SameProgram
<1>7. \A u \in V : Op(u).node \in Nodes
  BY ProgramFacts DEF Core, Typed
<1>8. \A u \in V : sent'[u] = IF u = v THEN 0 ELSE sent[u]
  BY <1>1, <1>2, <1>3
<1>9. v \in processed' /\ started[v] # 0
  BY <1>1, <1>2 DEF Core, WaveInv
<1>10. ASSUME NEW u \in V, Op(u).kind \in {"put", "get"}
       PROVE  /\ started[u] = 0 => total[u] = 0 /\ sent'[u] = 0
              /\ started[u] # 0 =>
                    /\ total[u] = 1
                    /\ u \in processed' \/ (Contains(wave'[Op(u).node], u) /\ sent'[u] = 1)
  <2>1. CASE u = v
    BY <1>9, <1>10, <2>1 DEF OpsInv
  <2>2. CASE u # v
    BY <1>1, <1>5, <1>7, <1>8, <1>10, <2>2 DEF OpsInv
  <2> QED
    BY <2>1, <2>2
<1>11. OpsInv'
  BY <1>6, <1>10 DEF OpsInv
<1> QED
  BY <1>1, <1>2, <1>11 DEF v


\* A channel a step does not touch stays as it was.
LEMMA ChanStill ==
    ASSUME NEW c \in Chans, UNCHANGED prog, moved'[c] = moved[c],
           \A k \in {"put", "get"} : \A u \in Uses(prog, c, k) : started'[u] = started[u],
           Idle(c) \/ (Open(c) /\ \E g \in Uses(prog, c, "get") : g \notin processed')
    PROVE  Idle(c)' \/ Open(c)'
<1>1. \A k : Uses(prog, c, k)' = Uses(prog, c, k)
  BY DEF Uses
<1>2. \A k \in {"put", "get"} : Dispatched(c, k)' = Dispatched(c, k)
  BY <1>1 DEF Dispatched
<1>3. ASSUME Idle(c) PROVE Idle(c)'
  BY <1>1, <1>3 DEF Idle
<1>4. ASSUME Open(c), \E g \in Uses(prog, c, "get") : g \notin processed' PROVE Open(c)'
  BY <1>1, <1>2, <1>4 DEF Open
<1> QED
  BY <1>3, <1>4

LEMMA OpsExecutePut ==
    ASSUME Core, Scalar(prog), OpsInv, ChanInv, ExecutePut PROVE OpsInv' /\ ChanInv'
<1> DEFINE v == Head(queue)
<1>1. /\ phase = "exec" /\ queue # <<>> /\ Op(v).kind = "put" /\ Retire(v, PutComplete(v))
      /\ UNCHANGED <<prog, started, total, moved>>
  BY DEF ExecutePut, Execute, Running, timing
<1>2. v \in V /\ node \in Nodes /\ Contains(wave[node], v)
  BY <1>1, RemoveTyped
<1>3. PutComplete(v)
  BY <1>1, <1>2, PutRetires
<1>4. OpsInv' /\ processed' = processed \union {v}
  BY <1>1, <1>3, OpsRetire
<1>5. ASSUME NEW c \in Chans PROVE Idle(c)' \/ Open(c)'
  <2>1. \A g \in Uses(prog, c, "get") : g # v
    BY <1>1 DEF Uses, Op
  <2>2. Idle(c) \/ (Open(c) /\ \E g \in Uses(prog, c, "get") : g \notin processed')
    BY <1>4, <1>5, <2>1 DEF ChanInv, Open
  <2> QED
    BY <1>1, <1>5, <2>2, ChanStill
<1>6. Chans' = Chans
  BY <1>1, SameProgram
<1> QED
  BY <1>4, <1>5, <1>6 DEF ChanInv

LEMMA OpsExecuteGet ==
    ASSUME Core, BooksAgree, Scalar(prog), OpsInv, ChanInv, ExecuteGet PROVE OpsInv' /\ ChanInv'
<1> DEFINE v == Head(queue)
           z == [put |-> 0, get |-> 0]
<1>1. /\ phase = "exec" /\ queue # <<>> /\ Op(v).kind = "get" /\ Retire(v, GetRetires(v))
      /\ UNCHANGED <<prog, started, total>>
      /\ moved' = IF ChannelComplete(v) THEN [moved EXCEPT ![Op(v).chan] = z] ELSE moved
  BY DEF ExecuteGet, Execute, Running, timing
<1>2. v \in V /\ node \in Nodes /\ Contains(wave[node], v)
  BY <1>1, RemoveTyped
<1>0. PICK c \in Chans : c = Op(v).chan
  BY <1>1, <1>2, KindFacts DEF Core, Typed
<1>3. /\ c \in Chans /\ GetRetires(v)
      /\ \/ Idle(c) /\ ~ChannelComplete(v)
         \/ /\ Open(c) /\ ChannelComplete(v)
            /\ \A k \in {"put", "get"} : \A u \in Uses(prog, c, k) : started[u] # 0
         \/ /\ Open(c) /\ ~ChannelComplete(v)
            /\ \E g \in Uses(prog, c, "get") : started[g] = 0
  BY <1>0, <1>1, <1>2, GetCases
<1>4. OpsInv' /\ processed' = processed \union {v}
  BY <1>1, <1>3, OpsRetire
<1>5. started[v] # 0 /\ moved \in [Chans -> [put : Nat, get : Nat]]
  BY <1>2 DEF Core, WaveInv, Typed
<1>6. \A k : Uses(prog, c, k)' = Uses(prog, c, k)
  BY <1>1 DEF Uses
<1>7. \A u \in processed : started[u] # 0
  BY DEF Core, StartInv
<1> HIDE DEF v
<1>8. Idle(c)' \/ Open(c)'
  <2>1. CASE Idle(c) /\ ~ChannelComplete(v)
    BY <1>1, <1>3, <2>1, ChanStill
  <2>2. CASE /\ ChannelComplete(v)
             /\ \A k \in {"put", "get"} : \A u \in Uses(prog, c, k) : started[u] # 0
    <3>1. moved'[c] = z
      BY <1>0, <1>1, <1>5, <2>2
    <3> QED
      BY <1>1, <1>6, <2>2, <3>1 DEF Idle
  <2>3. CASE /\ Open(c) /\ ~ChannelComplete(v)
             /\ \E g \in Uses(prog, c, "get") : started[g] = 0
    <3>1. \E g \in Uses(prog, c, "get") : g \notin processed'
      BY <1>4, <1>5, <1>7, <2>3
    <3> QED
      BY <1>1, <1>3, <2>3, <3>1, ChanStill
  <2> QED
    BY <1>3, <2>1, <2>2, <2>3
<1>9. ASSUME NEW d \in Chans, d # c PROVE Idle(d)' \/ Open(d)'
  <2>1. \A g \in Uses(prog, d, "get") : g # v
    BY <1>0, <1>9 DEF Uses, Op
  <2>2. Idle(d) \/ (Open(d) /\ \E g \in Uses(prog, d, "get") : g \notin processed')
    BY <1>4, <1>9, <2>1 DEF ChanInv, Open
  <2>3. moved'[d] = moved[d]
    BY <1>0, <1>1, <1>5, <1>9
  <2> QED
    BY <1>1, <1>9, <2>2, <2>3, ChanStill
<1>10. Chans' = Chans
  BY <1>1, SameProgram
<1> QED
  BY <1>4, <1>8, <1>9, <1>10 DEF ChanInv

\* A dispatch moves the only instance of an op that has not started.
LEMMA DispatchOnce ==
    ASSUME Core, Scalar(prog), OpsInv, Dispatch
    PROVE  LET v == Head(queue)
               c == Op(v).chan
           IN  /\ v \in V /\ Op(v).kind \in {"put", "get"} /\ c \in Chans /\ node \in Nodes
               /\ started[v] = 0 /\ Dispatchable(v) = 1
               /\ UNCHANGED <<prog, processed>> /\ started'[v] # 0
               /\ \A u \in V : u # v => started'[u] = started[u]
               /\ moved'[c].put = moved[c].put + (IF Op(v).kind = "put" THEN 1 ELSE 0)
               /\ moved'[c].get = moved[c].get + (IF Op(v).kind = "put" THEN 0 ELSE 1)
               /\ \A d \in Chans : d # c => moved'[d] = moved[d]
               /\ OpsInv'
<1> DEFINE v == Head(queue)
           c == Op(v).chan
           n == Dispatchable(v)
<1>0. prog \in Programs /\ time \in Nat \ {0} /\ started \in [V -> Nat] /\ sent \in [V -> Nat]
      /\ moved \in [Chans -> [put : Nat, get : Nat]]
  BY DEF Core, Typed
<1>1. /\ phase = "push" /\ queue # <<>> /\ queue' = Tail(queue) /\ Admit(v) /\ n > 0
      /\ Op(v).kind \in {"put", "get"}
      /\ UNCHANGED <<prog, pass, phase, processed>>
      /\ sent' = [sent EXCEPT ![v] = @ + n] /\ total' = [total EXCEPT ![v] = @ + n]
  BY DEF Dispatch, Offer, Running
<1>2. /\ v \in V /\ Op(v).node = node /\ node \in Nodes
      /\ \A m \in Nodes : \A u \in V : Contains(wave'[m], u) <=>
            Contains(wave[m], u) \/ (m = node /\ u = v)
  BY <1>1, AdmitStep
<1>3. v \notin processed /\ ~Contains(wave[node], v)
  <2>1. Contains(queue, v)
    BY <1>1, TailFacts DEF Core, Typed, QueueInv
  <2> QED
    BY <1>1, <1>2, <2>1 DEF Core, QueueInv
<1>4. started[v] = 0 /\ sent[v] = 0 /\ total[v] = 0
  BY <1>1, <1>2, <1>3 DEF OpsInv
<1>5. c \in Chans /\ Op(v).width = 1
  BY <1>0, <1>1, <1>2, ScalarOp
<1>6. n = 1
  <2>1. n \in Nat \ {0} /\ sent[v] + n <= Op(v).width
    BY <1>1, <1>2, DispatchableFacts DEF Core
  <2> QED
    BY <1>4, <1>5, <2>1
<1>7. /\ moved'[c] = [put |-> moved[c].put + (IF Op(v).kind = "put" THEN n ELSE 0),
                      get |-> moved[c].get + (IF Op(v).kind = "put" THEN 0 ELSE n)]
      /\ \A d \in Chans : d # c => moved'[d] = moved[d]
  BY DispatchFacts
<1>8. started' = [started EXCEPT ![v] = time]
  BY <1>1 DEF Admit
<1> HIDE DEF v, n
<1>9. started'[v] # 0 /\ \A u \in V : u # v => started'[u] = started[u]
  BY <1>0, <1>2, <1>8
<1>10. /\ total' \in [V -> Nat] /\ total'[v] = 1 /\ sent'[v] = 1
       /\ \A u \in V : u # v => total'[u] = total[u] /\ sent'[u] = sent[u]
  BY <1>0, <1>1, <1>2, <1>4, <1>6 DEF OpsInv
<1>11. V' = V /\ \A u : Op(u)' = Op(u)
  BY <1>1, SameProgram
<1>12. \A u \in V : Op(u).node \in Nodes
  BY <1>0, ProgramFacts
<1>13. ASSUME NEW u \in V, Op(u).kind \in {"put", "get"}
       PROVE  /\ started'[u] = 0 => total'[u] = 0 /\ sent'[u] = 0
              /\ started'[u] # 0 =>
                    /\ total'[u] = 1
                    /\ u \in processed \/ (Contains(wave'[Op(u).node], u) /\ sent'[u] = 1)
  <2>1. CASE u = v
    BY <1>2, <1>9, <1>10, <2>1
  <2>2. CASE u # v
    BY <1>2, <1>9, <1>10, <1>12, <1>13, <2>2 DEF OpsInv
  <2> QED
    BY <2>1, <2>2
<1>14. OpsInv'
  BY <1>1, <1>10, <1>11, <1>13 DEF OpsInv
<1>15. /\ moved'[c].put = moved[c].put + (IF Op(v).kind = "put" THEN 1 ELSE 0)
       /\ moved'[c].get = moved[c].get + (IF Op(v).kind = "put" THEN 0 ELSE 1)
  BY <1>6, <1>7
<1> QED
  BY <1>1, <1>2, <1>4, <1>5, <1>6, <1>7, <1>9, <1>14, <1>15 DEF v, n

LEMMA OpsDispatch ==
    ASSUME Core, Scalar(prog), OpsInv, ChanInv, Dispatch PROVE OpsInv' /\ ChanInv'
<1> DEFINE v == Head(queue)
<1>0. PICK c \in Chans : c = Op(v).chan
  BY DispatchOnce
<1> DEFINE D(k) == Dispatched(c, k)
           U(k) == Uses(prog, c, k)
<1>1. /\ v \in V /\ Op(v).kind \in {"put", "get"} /\ c \in Chans /\ started[v] = 0
      /\ UNCHANGED <<prog, processed>> /\ started'[v] # 0
      /\ \A u \in V : u # v => started'[u] = started[u]
      /\ moved'[c].put = moved[c].put + (IF Op(v).kind = "put" THEN 1 ELSE 0)
      /\ moved'[c].get = moved[c].get + (IF Op(v).kind = "put" THEN 0 ELSE 1)
      /\ \A d \in Chans : d # c => moved'[d] = moved[d]
      /\ OpsInv'
  BY <1>0, DispatchOnce
<1>2. prog \in Programs
  BY DEF Core, Typed
<1>3. /\ v \in U(Op(v).kind) /\ \A k \in {"put", "get"} : v \in U(k) => k = Op(v).kind
  BY <1>0, <1>1, <1>2, UsesFacts
<1>4. \A k : /\ U(k) \subseteq V /\ D(k) \subseteq U(k) /\ IsFiniteSet(D(k))
             /\ Cardinality(D(k)) \in Nat
  BY <1>1, <1>2, UsesFacts
<1>5. \A d, k : Uses(prog, d, k)' = Uses(prog, d, k)
  BY <1>1 DEF Uses
<1> HIDE DEF v
<1>6. Open(c) /\ ~Idle(c)
  BY <1>1, <1>3 DEF ChanInv, Idle
<1>7. ASSUME NEW k \in {"put", "get"}
      PROVE  Cardinality(D(k)') = Cardinality(D(k)) + (IF Op(v).kind = k THEN 1 ELSE 0)
  <2>1. CASE Op(v).kind = k
    <3>0. v \in U(k) /\ U(k) \subseteq V /\ Uses(prog, c, k)' = U(k)
      BY <1>3, <1>4, <1>5, <2>1
    <3>1. D(k)' = D(k) \union {v} /\ v \notin D(k)
      BY <1>1, <3>0 DEF Dispatched
    <3> QED
      BY <1>4, <2>1, <3>1, FS_AddElement
  <2>2. CASE Op(v).kind # k
    <3>1. D(k)' = D(k)
      BY <1>1, <1>3, <1>4, <1>5, <1>7, <2>2 DEF Dispatched
    <3> QED
      BY <1>4, <2>2, <3>1
  <2> QED
    BY <2>1, <2>2
<1>8. Open(c)'
  <2>1. /\ moved[c].put = Cardinality(D("put")) /\ moved[c].get = Cardinality(D("get"))
        /\ \E g \in U("get") : g \notin processed
    BY <1>6 DEF Open
  <2>2. moved'[c].put = Cardinality(D("put")') /\ moved'[c].get = Cardinality(D("get")')
    BY <1>1, <1>4, <1>7, <2>1
  <2> QED
    BY <1>1, <1>5, <2>1, <2>2 DEF Open
<1>9. ASSUME NEW d \in Chans, d # c PROVE Idle(d)' \/ Open(d)'
  <2>1. \A k : \A u \in Uses(prog, d, k) : u # v /\ u \in V
    BY <1>0, <1>9 DEF Uses, Op, V
  <2>2. \A k \in {"put", "get"} : \A u \in Uses(prog, d, k) : started'[u] = started[u]
    BY <1>1, <2>1
  <2>3. Idle(d) \/ (Open(d) /\ \E g \in Uses(prog, d, "get") : g \notin processed')
    BY <1>1, <1>9 DEF ChanInv, Open
  <2> QED
    BY <1>1, <1>9, <2>2, <2>3, ChanStill
<1>10. Chans' = Chans
  BY <1>1, SameProgram
<1> QED
  BY <1>1, <1>8, <1>9, <1>10 DEF ChanInv


LEMMA OpsStep ==
    ASSUME Core, TilesInv, BooksAgree, Scalar(prog), OpsInv, ChanInv, [Next]_vars
    PROVE  OpsInv' /\ ChanInv'
<1>0. /\ prog \in Programs /\ wave \in [Nodes -> Seq(V)] /\ started \in [V -> Nat]
      /\ \A u \in V : Op(u).node \in Nodes
  BY ProgramFacts DEF Core, Typed
<1>1. CASE ExecutePut
  BY <1>1, OpsExecutePut
<1>2. CASE ExecuteGet
  BY <1>2, OpsExecuteGet
<1>3. CASE Dispatch
  BY <1>3, OpsDispatch
<1>4. CASE ExecuteOther
  <2> DEFINE v == Head(queue)
  <2>1. /\ UNCHANGED <<prog, moved, sent, total, started>> /\ phase = "exec" /\ queue # <<>>
        /\ Op(v).kind \in {"start", "op", "end"}
        /\ wave' = [wave EXCEPT ![node] = Without(@, v)] /\ processed' = processed \union {v}
    BY <1>4 DEF ExecuteOther, Execute, Running, timing, links
  <2>2. node \in Nodes /\ Contains(wave[node], v)
    BY <2>1, RemoveTyped
  <2>3. \A u : Contains(wave'[node], u) <=> Contains(wave[node], u) /\ u # v
    BY <1>0, <2>1, <2>2, WithoutFacts DEF Core, WaveInv
  <2> HIDE DEF v
  <2>4. ASSUME NEW u \in V, Op(u).kind \in {"put", "get"}, Contains(wave[Op(u).node], u)
        PROVE  Contains(wave'[Op(u).node], u)
    <3>1. u # v /\ Op(u).node \in Nodes
      BY <1>0, <2>1, <2>4
    <3>2. CASE Op(u).node = node
      BY <2>3, <2>4, <3>1, <3>2
    <3>3. CASE Op(u).node # node
      BY <1>0, <2>1, <2>2, <2>4, <3>1, <3>3
    <3> QED
      BY <3>2, <3>3
  <2>5. \A u \in V : Op(u).kind \in {"put", "get"} => (u \in processed' <=> u \in processed)
    BY <2>1
  <2> QED
    BY <2>1, <2>4, <2>5, OpsStill
<1>5. CASE ExecuteHierarchy
  <2> DEFINE v == Head(queue)
             n == Op(v).sub
  <2>1. UNCHANGED <<prog, moved, sent, total>> /\ outcome' # "assertion"
    BY <1>5, NoAssertion DEF ExecuteHierarchy, links
  <2>2. /\ v \in V /\ n \in Nodes /\ Op(v).kind \in {"segment", "herd"}
        /\ \A u \in V : u # StartOf(n) => started'[u] = started[u]
        /\ processed' = processed \union {v}
        /\ \A m \in Nodes : \A u \in V : Contains(wave'[m], u) <=>
              \/ Contains(wave[m], u) /\ u # v
              \/ m = n /\ u = StartOf(n)
    BY <1>5, <2>1, HierarchyStep
  <2>3. Op(StartOf(n)).kind = "start"
    BY <1>0, <2>2, StartFacts
  <2>4. ASSUME NEW u \in V, Op(u).kind \in {"put", "get"} PROVE u # v /\ u # StartOf(n)
    BY <2>2, <2>3, <2>4
  <2> HIDE DEF v, n
  <2>5. \A u \in V : Op(u).kind \in {"put", "get"} =>
           /\ started'[u] = started[u] /\ (u \in processed' <=> u \in processed)
           /\ Contains(wave[Op(u).node], u) => Contains(wave'[Op(u).node], u)
    BY <1>0, <2>2, <2>4
  <2> QED
    BY <2>1, <2>5, OpsStill
<1>6. CASE OfferOther \/ OfferEnd \/ AdmitHerd
  <2> DEFINE v == Head(queue)
  <2>1. /\ UNCHANGED <<prog, pass, phase, processed, moved, sent, total>> /\ phase = "push"
        /\ queue # <<>> /\ queue' = Tail(queue) /\ Admit(v)
        /\ Op(v).kind \notin {"put", "get"}
    BY <1>6 DEF OfferOther, OfferEnd, AdmitHerd, Offer, Running, links
  <2>2. /\ v \in V
        /\ \A m \in Nodes : \A u \in V : Contains(wave'[m], u) <=>
              Contains(wave[m], u) \/ (m = node /\ u = v)
    BY <2>1, AdmitStep
  <2>3. started' = [started EXCEPT ![v] = time]
    BY <2>1 DEF Admit
  <2> HIDE DEF v
  <2>4. \A u \in V : Op(u).kind \in {"put", "get"} =>
           /\ started'[u] = started[u] /\ (u \in processed' <=> u \in processed)
           /\ Contains(wave[Op(u).node], u) => Contains(wave'[Op(u).node], u)
    BY <1>0, <2>1, <2>2, <2>3
  <2> QED
    BY <2>1, <2>4, OpsStill
<1>7. ASSUME BeginFree \/ BeginExec \/ BeginPush \/ EndPush \/ FreeLink \/ RefuseHerd \/ Defer
             \/ Advance \/ Finish \/ UNCHANGED vars
      PROVE  UNCHANGED <<prog, moved, sent, total, started, processed, wave>>
  BY <1>7 DEF BeginFree, BeginExec, BeginPush, EndPush, FreeLink, RefuseHerd, Defer,
     Advance, Finish, vars, timing, links
<1>8. CASE UNCHANGED <<prog, moved, sent, total, started, processed, wave>>
  BY <1>8, OpsStill
<1> QED
  BY <1>1, <1>2, <1>3, <1>4, <1>5, <1>6, <1>7, <1>8 DEF Next

LEMMA OpsInit == ASSUME Init, Scalar(prog) PROVE OpsInv /\ ChanInv
<1> DEFINE s == StartOf(1)
<1>1. /\ prog \in Programs /\ started = [v \in V |-> IF v = s THEN 1 ELSE 0]
      /\ processed = {} /\ sent = [v \in V |-> 0] /\ total = sent
      /\ moved = [c \in Chans |-> [put |-> 0, get |-> 0]]
  BY DEF Init
<1>2. 1 \in Nodes
  BY <1>1, ProgramFacts
<1>3. Op(s).kind = "start"
  BY <1>1, <1>2, StartFacts
<1>4. \A v \in V : Op(v).kind \in {"put", "get"} => started[v] = 0
  BY <1>1, <1>3
<1>5. OpsInv
  BY <1>1, <1>4 DEF OpsInv
<1>6. ASSUME NEW c \in Chans PROVE Idle(c) \/ Open(c)
  <2>1. \A k \in {"put", "get"} : \A v \in Uses(prog, c, k) : v \in V /\ Op(v).kind = k
    BY DEF Uses, V, Op
  <2>2. moved[c] = [put |-> 0, get |-> 0] /\ moved[c].put = 0 /\ moved[c].get = 0
    BY <1>1, <1>6
  <2>3. \/ Uses(prog, c, "put") = {} /\ Uses(prog, c, "get") = {}
        \/ Cardinality(Uses(prog, c, "get")) = prog.fanout[c]
    BY <1>6, Zenon DEF Scalar, Chans
  <2>4. CASE Uses(prog, c, "put") = {} /\ Uses(prog, c, "get") = {}
    BY <2>2, <2>4 DEF Idle
  <2>5. CASE Cardinality(Uses(prog, c, "get")) = prog.fanout[c]
    <3>1. Uses(prog, c, "get") # {}
      BY <1>1, <1>6, <2>5, UsesFacts, FS_EmptySet
    <3>2. Dispatched(c, "put") = {} /\ Dispatched(c, "get") = {}
      BY <1>4, <2>1 DEF Dispatched
    <3> QED
      BY <1>1, <2>2, <3>1, <3>2, FS_EmptySet DEF Open
  <2> QED
    BY <2>3, <2>4, <2>5
<1> QED
  BY <1>5, <1>6 DEF ChanInv

\* Every reserved tile belongs to a herd that runs.
TakenInv == \A t \in taken : \E n \in HerdNodes : Holds(n) /\ t \in hiers[n]

LEMMA TakenStep ==
    ASSUME Core, TilesInv, TakenInv, [Next]_vars PROVE TakenInv'
<1>0. /\ prog \in Programs /\ started \in [V -> Nat] /\ time \in Nat \ {0}
      /\ taken \in SUBSET Tiles /\ hiers \in [Nodes -> SUBSET Tiles]
      /\ HerdNodes \subseteq Nodes
  BY KindFacts DEF Core, Typed, HerdNodes, Herds
<1>1. \A n \in Nodes : /\ StartOf(n) \in V /\ Op(StartOf(n)).kind = "start"
                       /\ EndOf(n) \in V /\ Op(EndOf(n)).kind = "end" /\ Op(EndOf(n)).node = n
  BY <1>0, StartFacts
<1>2. CASE ExecuteHierarchy
  <2> DEFINE v == Head(queue)
             m == Op(v).sub
             t == IF v \in Herds THEN TilesOf(v) ELSE 0
             got == FirstOf(Tiles \ taken, t)
  <2>1. /\ prog' = prog /\ outcome' # "assertion" /\ ~(Cardinality(Tiles \ taken) < t)
        /\ taken' = taken \union got /\ hiers' = [hiers EXCEPT ![m] = @ \union got]
    BY <1>2, NoAssertion DEF ExecuteHierarchy
  <2>2. /\ v \in V /\ m \in Nodes /\ started[StartOf(m)] = 0 /\ started'[StartOf(m)] # 0
        /\ \A u \in V : u # StartOf(m) => started'[u] = started[u]
    BY <1>2, <2>1, HierarchyStep
  <2>3. HerdNodes' = HerdNodes /\ \A n : StartOf(n)' = StartOf(n) /\ EndOf(n)' = EndOf(n)
    BY <2>1, SameProgram
  <2>4. ASSUME NEW x \in taken PROVE \E n \in HerdNodes : Holds(n)' /\ x \in hiers'[n]
    <3>1. PICK n \in HerdNodes : Holds(n) /\ x \in hiers[n]
      BY <2>4 DEF TakenInv
    <3>2. n # m
      BY <2>2, <3>1 DEF Holds
    <3>3. StartOf(n) # StartOf(m) /\ EndOf(n) # StartOf(m)
      <4>1. Op(StartOf(n)).node = n /\ Op(StartOf(m)).node = m
        BY <1>0, <2>2, StartFacts
      <4> QED
        BY <1>0, <1>1, <2>2, <3>2, <4>1
    <3>4. Holds(n)'
      BY <1>0, <1>1, <2>2, <2>3, <3>1, <3>3 DEF Holds
    <3> QED
      BY <1>0, <2>1, <3>1, <3>2, <3>4
  <2>5. ASSUME NEW x \in got PROVE \E n \in HerdNodes : Holds(n)' /\ x \in hiers'[n]
    <3>1. v \in Herds
      <4> SUFFICES ASSUME v \notin Herds PROVE FALSE
        OBVIOUS
      <4>1. got = FirstOf(Tiles \ taken, 0)
        OBVIOUS
      <4>2. Tiles \ taken \in SUBSET Nat /\ IsFiniteSet(Tiles \ taken) /\ Cardinality(Tiles \ taken) \in Nat
        BY <1>0, FreeFacts
      <4>3. got \subseteq Tiles \ taken /\ Cardinality(got) = 0
        BY <4>1, <4>2, FirstOfCardinality
      <4>4. got = {}
        BY <4>2, <4>3, FS_Subset, FS_EmptySet
      <4> QED
        BY <2>5, <4>4
    <3>2. m \in HerdNodes
      BY <3>1 DEF HerdNodes
    <3>3. started'[EndOf(m)] = started[EndOf(m)]
      <4>1. EndOf(m) # StartOf(m) /\ EndOf(m) \in V
        BY <1>1, <2>2
      <4> QED
        BY <2>2, <4>1
    <3>4. started[EndOf(m)] = 0
      BY <1>1, <2>2 DEF Core, StartInv
    <3>5. PICK n \in HerdNodes : n = m
      BY <3>2
    <3>6. Holds(n)'
      BY <2>2, <2>3, <3>3, <3>4, <3>5 DEF Holds
    <3>7. x \in hiers'[n]
      BY <1>0, <2>1, <2>2, <2>5, <3>5
    <3> QED
      BY <3>6, <3>7
  <2> QED
    BY <2>1, <2>3, <2>4, <2>5 DEF TakenInv
<1>3. CASE OfferOther \/ OfferEnd \/ AdmitHerd \/ Dispatch
  <2> DEFINE v == Head(queue)
  <2>1. /\ UNCHANGED <<prog, pass, phase, processed, hiers>> /\ phase = "push"
        /\ queue # <<>> /\ queue' = Tail(queue) /\ Admit(v)
        /\ taken' = IF Op(v).kind = "end" THEN taken \ hiers[node] ELSE taken
        /\ Op(v).kind # "start"
    BY <1>3 DEF OfferOther, OfferEnd, AdmitHerd, Dispatch, Offer, Running
  <2>2. v \in V /\ node \in Nodes /\ Op(v).node = node /\ started' = [started EXCEPT ![v] = time]
    BY <2>1, AdmitStep DEF Admit
  <2>3. HerdNodes' = HerdNodes /\ \A n : StartOf(n)' = StartOf(n) /\ EndOf(n)' = EndOf(n)
    BY <2>1, SameProgram
  <2> HIDE DEF v
  <2>4. ASSUME NEW x \in taken' PROVE \E n \in HerdNodes : Holds(n)' /\ x \in hiers[n]
    <3>1. PICK n \in HerdNodes : Holds(n) /\ x \in hiers[n]
      BY <2>1, <2>4 DEF TakenInv
    <3>2. v # EndOf(n) /\ v # StartOf(n)
      BY <1>0, <1>1, <2>1, <2>2, <2>4, <3>1
    <3>3. Holds(n)'
      BY <1>0, <1>1, <2>2, <2>3, <3>1, <3>2 DEF Holds
    <3> QED
      BY <3>1, <3>3
  <2> QED
    BY <2>1, <2>3, <2>4 DEF TakenInv
<1>4. ASSUME ~ExecuteHierarchy, ~OfferOther, ~OfferEnd, ~AdmitHerd, ~Dispatch
      PROVE  UNCHANGED <<prog, taken, hiers, started>>
  BY <1>4 DEF Next, vars, timing, BeginFree, BeginExec, BeginPush, EndPush, FreeLink,
     ExecuteOther, ExecutePut, ExecuteGet, RefuseHerd, Defer, Advance, Finish
<1>5. CASE UNCHANGED <<prog, taken, hiers, started>>
  <2>1. HerdNodes' = HerdNodes /\ \A n : StartOf(n)' = StartOf(n) /\ EndOf(n)' = EndOf(n)
    BY <1>5, SameProgram
  <2> QED
    BY <1>5, <2>1 DEF TakenInv, Holds
<1> QED
  BY <1>2, <1>3, <1>4, <1>5


\* A latency is reported when nothing is left on a wavefront and every op has
\* started.
LatencyInv ==
    outcome = "latency" =>
        /\ \A n \in Nodes : \A v \in V : ~Contains(wave[n], v)
        /\ \A v \in V : Op(v).kind # "start" => started[v] # 0

LEMMA LatencyStep == ASSUME Core, LatencyInv, [Next]_vars PROVE LatencyInv'
<1>1. CASE outcome # "running"
  <2>1. ASSUME Next PROVE FALSE
    BY <1>1, <2>1 DEF Next, BeginFree, BeginExec, BeginPush, EndPush, FreeLink, ExecuteOther,
       ExecuteHierarchy, ExecutePut, ExecuteGet, OfferOther, OfferEnd, AdmitHerd, RefuseHerd,
       Dispatch, Defer, Advance, Finish, Execute, Offer, Running, LoopEnds
  <2>2. UNCHANGED <<outcome, prog, wave, started>>
    BY <2>1 DEF vars, timing
  <2> QED
    BY <2>2 DEF LatencyInv, V, Op, Nodes, Contains
<1>2. CASE outcome = "running"
  <2>1. CASE Finish
    <3>1. UNCHANGED <<prog, wave, started>> /\ OnWave = {} /\ outcome' = Verdict
      BY <2>1 DEF Finish, timing
    <3>2. \A n \in Nodes : \A v \in V : ~Contains(wave[n], v)
      BY <3>1 DEF OnWave
    <3>3. Verdict = "latency" => \A v \in V : Op(v).kind # "start" => started[v] # 0
      BY DEF Verdict, IsStarted
    <3> QED
      BY <3>1, <3>2, <3>3 DEF LatencyInv, V, Op, Nodes, Contains
  <2>2. CASE ~Finish
    <3>1. outcome' # "latency"
      BY <1>2, <2>2 DEF Next, vars, BeginFree, BeginExec, BeginPush, EndPush, FreeLink,
         ExecuteOther, ExecuteHierarchy, ExecutePut, ExecuteGet, OfferOther, OfferEnd,
         AdmitHerd, RefuseHerd, Dispatch, Defer, Advance
    <3> QED
      BY <3>1 DEF LatencyInv
  <2> QED
    BY <2>1, <2>2
<1> QED
  BY <1>1, <1>2

\* A latency is reported only for a simulation in which every op retired,
\* every put and get moved its instance, every channel is drained and no tile
\* is reserved.
Drained ==
    outcome = "latency" =>
        /\ V \subseteq processed
        /\ \A c \in Chans : moved[c] = [put |-> 0, get |-> 0]
        /\ \A v \in V : Op(v).kind \in {"put", "get"} => total[v] = Op(v).width
        /\ taken = {}

LEMMA LatencyDrained ==
    ASSUME Core, Scalar(prog), OpsInv, ChanInv, TakenInv, LatencyInv PROVE Drained
<1> SUFFICES ASSUME outcome = "latency" PROVE Drained!2
  BY DEF Drained
<1>1. /\ \A n \in Nodes : \A v \in V : ~Contains(wave[n], v)
      /\ \A v \in V : Op(v).kind # "start" => started[v] # 0
  BY DEF LatencyInv
<1>2. prog \in Programs /\ \A v \in V : Op(v).node \in Nodes
  BY ProgramFacts DEF Core, Typed
<1>3. \A n \in Nodes : /\ EndOf(n) \in V /\ Op(EndOf(n)).node = n /\ Op(EndOf(n)).kind = "end"
                       /\ \A v \in V : Op(v).node = n /\ Op(v).kind = "start" => v = StartOf(n)
  BY <1>2, StartFacts
<1>4. \A v \in V : started[v] # 0
  <2>1. \A n \in Nodes : started[EndOf(n)] # 0
    BY <1>1, <1>3
  <2>2. \A n \in Nodes : started[StartOf(n)] # 0
    BY <1>3, <2>1 DEF Core, StartInv
  <2> QED
    BY <1>1, <1>2, <1>3, <2>2
<1>5. ASSUME NEW v \in V PROVE v \in processed
  <2>1. ~Contains(wave[Op(v).node], v)
    BY <1>1, <1>2
  <2>2. CASE Op(v).kind \in {"put", "get"}
    BY <1>4, <2>1, <2>2 DEF OpsInv
  <2>3. CASE Op(v).kind \notin {"put", "get"}
    BY <1>4, <2>1, <2>3 DEF Core, StartInv
  <2> QED
    BY <2>2, <2>3
<1>6. ASSUME NEW c \in Chans PROVE moved[c] = [put |-> 0, get |-> 0]
  <2>1. ~Open(c)
    BY <1>5 DEF Open, Uses, V
  <2> QED
    BY <2>1 DEF ChanInv, Idle
<1>7. ASSUME NEW v \in V, Op(v).kind \in {"put", "get"} PROVE total[v] = Op(v).width
  <2>1. total[v] = 1 /\ Op(v).width = 1
    BY <1>2, <1>4, <1>7, ScalarOp DEF OpsInv
  <2> QED
    BY <2>1
<1>8. taken = {}
  <2>1. HerdNodes \subseteq Nodes
    BY <1>2, KindFacts DEF HerdNodes, Herds
  <2>2. \A n \in HerdNodes : ~Holds(n)
    BY <1>3, <1>4, <2>1 DEF Holds
  <2> QED
    BY <2>2 DEF TakenInv
<1> QED
  BY <1>5, <1>6, <1>7, <1>8

\* The invariant of such a program.
ScalarInv == Scalar(prog) => OpsInv /\ ChanInv


\* What every simulation keeps.
LEMMA ScalarHolds == Spec => [](TakenInv /\ LatencyInv /\ ScalarInv)
<1>1. Init => TakenInv /\ LatencyInv /\ ScalarInv
  BY OpsInit DEF Init, TakenInv, LatencyInv, ScalarInv
<1>2. /\ Core /\ TilesInv /\ BooksAgree /\ TakenInv /\ LatencyInv /\ ScalarInv /\ [Next]_vars
      => TakenInv' /\ LatencyInv' /\ ScalarInv'
  <2> SUFFICES ASSUME Core, TilesInv, BooksAgree, TakenInv, LatencyInv, ScalarInv, [Next]_vars
               PROVE  TakenInv' /\ LatencyInv' /\ ScalarInv'
    OBVIOUS
  <2>1. TakenInv' /\ LatencyInv'
    BY TakenStep, LatencyStep
  <2>2. prog' = prog
    BY DEF Next, vars, BeginFree, BeginExec, BeginPush, EndPush, FreeLink, ExecuteOther,
       ExecuteHierarchy, ExecutePut, ExecuteGet, OfferOther, OfferEnd, AdmitHerd, RefuseHerd,
       Dispatch, Defer, Advance, Finish
  <2>3. Scalar(prog)' = Scalar(prog)
    BY <2>2
  <2>4. ASSUME Scalar(prog) PROVE OpsInv' /\ ChanInv'
    BY <2>4, OpsStep DEF ScalarInv
  <2> QED
    BY <2>1, <2>3, <2>4 DEF ScalarInv
<1> QED
  BY <1>1, <1>2, CoreHolds, TilesHold, ChannelBooksAgree, PTL DEF Spec

\* In every program whose puts and gets move one instance each, one put and as
\* many gets as the fan-out on every channel in use, a latency is reported
\* only when every op has retired, every channel is drained and no tile is
\* reserved (scheduleLaunch, diagnoseVerticesThatNeverRan): whatever the
\* costs and latencies of the links, the ports, the tiles and the order in
\* which candidates are found.
THEOREM ScalarRunsDrain == Spec => [](Scalar(prog) => Drained)
<1>1. Core /\ TakenInv /\ LatencyInv /\ ScalarInv => (Scalar(prog) => Drained)
  BY LatencyDrained DEF ScalarInv
<1> QED
  BY <1>1, CoreHolds, ScalarHolds, PTL


-----------------------------------------------------------------------------
(* The ports, where links have no time of flight.                          *)

\* The ports there can be.
AnyPort == {"in", "out"} \X Int \X Nat

\* The ports a channel lists.
Listed(c) == ToSet(held[c].put) \union ToSet(held[c].get)

\* A channel lists one port per instance in progress; the listed ports are
\* the reserved ones, none listed twice.
PortsInv ==
    /\ held \in [Chans -> [put : Seq(AnyPort), get : Seq(AnyPort)]]
    /\ \A c \in Chans : /\ Len(held[c].put) = moved[c].put /\ Len(held[c].get) = moved[c].get
                        /\ Distinct(held[c].put) /\ Distinct(held[c].get)
    /\ busy = UNION {Listed(c) : c \in Chans}
    /\ \A c, d \in Chans : c # d => Listed(c) \cap Listed(d) = {}

\* Nothing lands before it ends.
FlightInv ==
    /\ \A v \in V : Op(v).kind = "get" => released[v] = ended[v]
    /\ phase = "free" => queue = <<>>

LEMMA FlightStep ==
    ASSUME Core, TilesInv, NoFlight(prog), FlightInv, [Next]_vars PROVE FlightInv'
<1>0. /\ prog \in Programs /\ released \in [V -> Nat] /\ ended \in [V -> Nat]
  BY DEF Core, Typed
<1>1. ~FreeLink
  BY DEF FreeLink, Running, FlightInv
<1>2. prog' = prog
  BY DEF Next, vars, BeginFree, BeginExec, BeginPush, EndPush, FreeLink, ExecuteOther,
     ExecuteHierarchy, ExecutePut, ExecuteGet, OfferOther, OfferEnd, AdmitHerd, RefuseHerd,
     Dispatch, Defer, Advance, Finish
<1>3. V' = V /\ \A v : Op(v)' = Op(v)
  BY <1>2, SameProgram
<1>4. CASE BeginFree
  <2>1. queue' \in InOrder(Landing, wave[node]) /\ UNCHANGED <<released, ended>> /\ node \in Nodes
    BY <1>4, NodeFacts DEF BeginFree, Running, timing, Core
  <2>2. Landing = {}
    <3>1. ASSUME NEW v \in Landing PROVE FALSE
      <4>1. v \in ToSet(wave[node]) /\ Op(v).kind = "get" /\ released[v] < ended[v]
        BY DEF Landing
      <4>2. wave[node] \in Seq(V)
        BY <2>1 DEF Core, Typed
      <4>3. v \in V
        BY <4>1, <4>2 DEF ToSet
      <4> QED
        BY <1>0, <4>1, <4>3 DEF FlightInv
    <3> QED
      BY <3>1
  <2>3. queue' = <<>>
    <3>1. queue' \in SetToSeqs({})
      BY <2>1, <2>2 DEF InOrder
    <3>2. queue' \in Seq({})
      BY <3>1, SetToSeqsFacts, FS_EmptySet
    <3> QED
      BY <3>2
  <2> QED
    BY <1>3, <2>1, <2>3 DEF FlightInv
<1>5. CASE ExecuteHierarchy
  <2> DEFINE s == StartOf(Op(Head(queue)).sub)
  <2>1. /\ phase' = "exec" /\ outcome' # "assertion"
    BY <1>5, NoAssertion DEF ExecuteHierarchy, Execute, Running
  <2>2. released' = [released EXCEPT ![s] = time] /\ ended' = [ended EXCEPT ![s] = time]
    BY <1>5, <2>1 DEF ExecuteHierarchy
  <2>3. Op(s).kind = "start"
    BY <1>0, <1>5, <2>1, HierarchyStep, StartFacts
  <2> HIDE DEF s
  <2>4. \A v \in V : Op(v).kind = "get" => released'[v] = released[v] /\ ended'[v] = ended[v]
    BY <1>0, <2>2, <2>3
  <2> QED
    BY <1>3, <2>1, <2>4 DEF FlightInv
<1>6. CASE OfferOther \/ OfferEnd \/ AdmitHerd \/ Dispatch
  <2> DEFINE v == Head(queue)
  <2>1. /\ UNCHANGED <<prog, pass, phase, processed>> /\ phase = "push" /\ queue # <<>>
        /\ queue' = Tail(queue) /\ Admit(v)
    BY <1>6 DEF OfferOther, OfferEnd, AdmitHerd, Dispatch, Offer, Running
  <2>2. v \in V
    BY <2>1, AdmitStep
  <2>3. /\ released' = [released EXCEPT ![v] = time + Op(v).cost]
        /\ ended' = [ended EXCEPT ![v] = time + Op(v).cost + Op(v).flight]
    BY <2>1 DEF Admit
  <2>4. /\ time \in Nat /\ Op(v).cost \in Nat /\ Op(v).flight \in Nat
        /\ Op(v).kind = "get" => Op(v).flight = 0
    BY <1>0, <2>2, ProgramFacts DEF NoFlight, Op, V, Core, Typed
  <2> HIDE DEF v
  <2>5. ASSUME NEW u \in V, Op(u).kind = "get" PROVE released'[u] = ended'[u]
    <3>1. CASE u = v
      BY <1>0, <2>2, <2>3, <2>4, <2>5, <3>1
    <3>2. CASE u # v
      BY <1>0, <2>3, <2>5, <3>2 DEF FlightInv
    <3> QED
      BY <3>1, <3>2
  <2> QED
    BY <1>3, <2>1, <2>5 DEF FlightInv
<1>7. ASSUME BeginExec \/ BeginPush \/ EndPush \/ ExecuteOther \/ ExecutePut \/ ExecuteGet
             \/ RefuseHerd \/ Defer \/ Advance \/ Finish \/ UNCHANGED vars
      PROVE  /\ UNCHANGED <<released, ended>>
             /\ phase' = "free" => phase = "free" /\ queue' = queue
  BY <1>7 DEF BeginExec, BeginPush, EndPush, ExecuteOther, ExecutePut, ExecuteGet, RefuseHerd,
     Defer, Advance, Finish, Execute, Offer, Running, vars, timing
<1>8. CASE /\ UNCHANGED <<released, ended>>
           /\ phase' = "free" => phase = "free" /\ queue' = queue
  BY <1>3, <1>8 DEF FlightInv
<1> QED
  BY <1>1, <1>4, <1>5, <1>6, <1>7, <1>8 DEF Next

\* One more port at the end of a list.
LEMMA ConcatOne ==
    ASSUME NEW S, NEW s \in Seq(S), NEW q \in S, Distinct(s), q \notin ToSet(s)
    PROVE  /\ s \o <<q>> \in Seq(S) /\ Len(s \o <<q>>) = Len(s) + 1
           /\ Distinct(s \o <<q>>) /\ ToSet(s \o <<q>>) = ToSet(s) \union {q}
<1> DEFINE t == s \o <<q>>
           n == Len(s)
<1>1. /\ n \in Nat /\ DOMAIN s = 1..n
      /\ t \in Seq(S) /\ Len(t) = n + 1 /\ \A i \in 1..n : t[i] = s[i]
      /\ t[n + 1] = q /\ DOMAIN t = 1..(n + 1)
  OBVIOUS
<1>2. \A i \in 1..n : s[i] # q
  BY <1>1 DEF ToSet
<1>3. \A i, j \in 1..n : s[i] = s[j] => i = j
  BY DEF Distinct
<1> HIDE DEF t, n
<1>4. \A i, j \in 1..(n + 1) : t[i] = t[j] => i = j
  BY <1>1, <1>2, <1>3
<1>5. ToSet(t) = ToSet(s) \union {q}
  <2>1. \A x \in ToSet(t) : x \in ToSet(s) \union {q}
    BY <1>1 DEF ToSet
  <2>2. \A x \in ToSet(s) : x \in ToSet(t)
    BY <1>1 DEF ToSet
  <2>3. q \in ToSet(t)
    BY <1>1 DEF ToSet
  <2> QED
    BY <2>1, <2>2, <2>3
<1> QED
  BY <1>1, <1>4, <1>5 DEF Distinct, t, n

LEMMA SeqOfOne == ASSUME NEW q PROVE SetToSeq({q}) = <<q>>
<1> DEFINE F == [1..1 -> {q}]
<1>1. Cardinality({q}) = 1
  BY FS_Singleton
<1>2. <<q>> \in F /\ \A f \in F : f = <<q>>
  OBVIOUS
<1>3. IsInjective(<<q>>)
  BY DEF IsInjective
<1>4. SetToSeq({q}) = CHOOSE f \in F : IsInjective(f)
  BY <1>1 DEF SetToSeq
<1> HIDE DEF F
<1> QED
  BY <1>2, <1>3, <1>4

\* A dispatch of one instance takes one free port.
LEMMA TakesOne ==
    ASSUME Core, NEW n \in Nodes, NEW d \in {"in", "out"}, Cardinality(PortsPool(n, d)) >= 1
    PROVE  \E q \in AnyPort \ busy :
              (CHOOSE s \in kSubset(1, PortsPool(n, d)) : TRUE) = {q}
<1> DEFINE P == PortsPool(n, d)
           K == kSubset(1, P)
           t == CHOOSE s \in K : TRUE
<1>1. IsFiniteSet(P) /\ Cardinality(P) \in Nat
  BY PortsFinite DEF Core
<1>2. P # {}
  BY <1>1, FS_EmptySet
<1>3. \E s \in K : TRUE
  <2>1. PICK q \in P : TRUE
    BY <1>2
  <2>2. {q} \in K
    BY <2>1, FS_Singleton DEF kSubset
  <2> QED
    BY <2>2
<1>4. t \in K
  BY <1>3
<1>5. t \in SUBSET P /\ Cardinality(t) = 1
  BY <1>4 DEF kSubset
<1>6. P \subseteq AnyPort \ busy
  <2>1. hiers[n] \subseteq Nat /\ n \in Nat
    <3>1. hiers[n] \subseteq Tiles /\ prog.tiles \in Nat /\ Nodes = 1..Len(prog.nodes)
      BY ProgramFacts DEF Core, Typed
    <3> QED
      BY <3>1 DEF Tiles
  <2>2. PortsOf(n, d) \subseteq AnyPort
    BY <2>1 DEF PortsOf, AnyPort
  <2> QED
    BY <2>2 DEF PortsPool
<1> HIDE DEF P, K, t
<1>7. IsFiniteSet(t)
  BY <1>1, <1>5, FS_Subset
<1>8. PICK q : t = {q}
  BY <1>5, <1>7, FS_Singleton
<1> QED
  BY <1>5, <1>6, <1>8 DEF t, K, P


\* A list of distinct reserved ports.
LEMMA AllReserved ==
    ASSUME NEW s \in Seq(AnyPort), Distinct(s), ToSet(s) \subseteq busy
    PROVE  /\ Reserved(s) = 1..Len(s) /\ ReservedCount(s) = Len(s)
           /\ FirstPorts(s, Len(s)) = ToSet(s) /\ FirstPorts(s, 0) = {}
<1> DEFINE n == Len(s)
           S == 1..Len(s)
<1>1. n \in Nat /\ DOMAIN s = S /\ S \subseteq Nat
  OBVIOUS
<1>2. \A i \in S : s[i] \in busy
  BY <1>1 DEF ToSet
<1>3. Reserved(s) = S
  BY <1>1, <1>2 DEF Reserved, Distinct
<1>4. IsFiniteSet(S) /\ Cardinality(S) = n
  BY <1>1, FS_Interval
<1>5. ReservedCount(s) = n
  <2>1. {i \in DOMAIN s : s[i] \in busy} = S
    BY <1>1, <1>2
  <2> QED
    BY <1>4, <2>1 DEF ReservedCount
<1> HIDE DEF n
<1>6. \A x \in S : /\ Cardinality({y \in S : y <= x}) \in Nat
                   /\ Cardinality({y \in S : y <= x}) <= n
                   /\ Cardinality({y \in S : y <= x}) # 0
  <2> SUFFICES ASSUME NEW x \in S
               PROVE  /\ Cardinality({y \in S : y <= x}) \in Nat
                      /\ Cardinality({y \in S : y <= x}) <= n
                      /\ Cardinality({y \in S : y <= x}) # 0
    OBVIOUS
  <2> DEFINE T == {y \in S : y <= x}
  <2>1. T \subseteq S /\ x \in T
    BY <1>1
  <2> HIDE DEF T, S
  <2>2. IsFiniteSet(T) /\ Cardinality(T) \in Nat /\ Cardinality(T) <= n
    BY <1>4, <2>1, FS_Subset, FS_CardinalityType
  <2>3. Cardinality(T) # 0
    BY <2>1, <2>2, FS_EmptySet
  <2> QED
    BY <2>2, <2>3 DEF T
<1>7. FirstOf(S, n) = S /\ FirstOf(S, 0) = {}
  BY <1>6 DEF FirstOf
<1>8. FirstPorts(s, n) = ToSet(s) /\ FirstPorts(s, 0) = {}
  BY <1>1, <1>3, <1>7 DEF FirstPorts, ToSet
<1> QED
  BY <1>3, <1>5, <1>8 DEF n

LEMMA SmallDiv == ASSUME NEW a \in Nat, NEW b \in Nat, a < b PROVE a \div b = 0
  OBVIOUS

\* What a get gives back: all ports of its channel once it is complete, none
\* before.
LEMMA UnpairedFacts ==
    ASSUME PortsInv, NEW c \in Chans, prog.fanout[c] \in Nat \ {0}
    PROVE  /\ moved[c].put = 1 /\ moved[c].get = prog.fanout[c] => Unpaired(c) = Listed(c)
           /\ moved[c].put = 1 /\ moved[c].get < prog.fanout[c] => Unpaired(c) = {}
           /\ moved[c].put = 0 /\ moved[c].get = 0 => Unpaired(c) = {}
<1> DEFINE p == held[c].put
           g == held[c].get
           f == prog.fanout[c]
           n == IF Len(p) * f > Len(g) THEN Len(g) \div f ELSE Len(p)
<1>1. /\ p \in Seq(AnyPort) /\ g \in Seq(AnyPort) /\ Distinct(p) /\ Distinct(g)
      /\ moved[c].put = Len(p) /\ moved[c].get = Len(g)
  BY DEF PortsInv
<1>2. ToSet(p) \subseteq busy /\ ToSet(g) \subseteq busy
  BY DEF PortsInv, Listed
<1>3. /\ ReservedCount(p) = Len(p) /\ FirstPorts(p, Len(p)) = ToSet(p) /\ FirstPorts(p, 0) = {}
      /\ ReservedCount(g) = Len(g) /\ FirstPorts(g, Len(g)) = ToSet(g) /\ FirstPorts(g, 0) = {}
  BY <1>1, <1>2, AllReserved
<1>4. Unpaired(c) = FirstPorts(p, n) \union FirstPorts(g, n * f)
  BY <1>3 DEF Unpaired
<1>5. Listed(c) = ToSet(p) \union ToSet(g) /\ Len(p) \in Nat /\ Len(g) \in Nat
  BY <1>1 DEF Listed
<1> HIDE DEF p, g, f
<1>6. ASSUME Len(p) = 1, Len(g) = f PROVE Unpaired(c) = Listed(c)
  <2>1. n = Len(p) /\ n * f = Len(g)
    BY <1>5, <1>6
  <2> HIDE DEF n
  <2> QED
    BY <1>3, <1>4, <1>5, <2>1
<1>7. ASSUME Len(p) = 1, Len(g) < f PROVE Unpaired(c) = {}
  <2>0. f \in Nat \ {0}
    BY DEF f
  <2>1. Len(g) \div f = 0
    BY <1>5, <1>7, <2>0, SmallDiv
  <2>2. n = 0 /\ n * f = 0
    BY <1>5, <1>7, <2>0, <2>1
  <2> HIDE DEF n
  <2> QED
    BY <1>3, <1>4, <2>2
<1>8. ASSUME Len(p) = 0, Len(g) = 0 PROVE Unpaired(c) = {}
  <2>0. f \in Nat \ {0}
    BY DEF f
  <2>1. n = 0 /\ n * f = 0
    BY <1>8, <2>0
  <2> HIDE DEF n
  <2> QED
    BY <1>3, <1>4, <2>1
<1> QED
  BY <1>1, <1>6, <1>7, <1>8 DEF f

\* A step that leaves the ports alone.
LEMMA PortsStill ==
    ASSUME PortsInv, UNCHANGED <<prog, held, moved, busy>> PROVE PortsInv'
<1>1. Chans' = Chans
  BY DEF Chans
<1>2. \A c : Listed(c)' = Listed(c)
  BY DEF Listed
<1> QED
  BY <1>1, <1>2 DEF PortsInv

LEMMA PortsExecuteGet ==
    ASSUME Core, BooksAgree, Scalar(prog), OpsInv, ChanInv, PortsInv, ExecuteGet PROVE PortsInv'
<1> DEFINE v == Head(queue)
           z == [put |-> 0, get |-> 0]
           e == [put |-> <<>>, get |-> <<>>]
<1>1. /\ phase = "exec" /\ queue # <<>> /\ Op(v).kind = "get" /\ prog' = prog
      /\ busy' = busy \ Unpaired(Op(v).chan)
      /\ moved' = IF ChannelComplete(v) THEN [moved EXCEPT ![Op(v).chan] = z] ELSE moved
      /\ held' = IF ChannelComplete(v) THEN [held EXCEPT ![Op(v).chan] = e] ELSE held
  BY DEF ExecuteGet, Execute, Running
<1>2. v \in V /\ node \in Nodes /\ Contains(wave[node], v)
  BY <1>1, RemoveTyped
<1>3. PICK c \in Chans : c = Op(v).chan
  BY <1>1, <1>2, KindFacts DEF Core, Typed
<1>4. /\ prog.fanout[c] \in Nat \ {0}
      /\ \/ Idle(c) /\ ~ChannelComplete(v)
         \/ ChannelComplete(v) /\ moved[c].put = 1 /\ moved[c].get = prog.fanout[c]
         \/ ~ChannelComplete(v) /\ moved[c].put = 1 /\ moved[c].get < prog.fanout[c]
  BY <1>1, <1>2, <1>3, GetCases
<1>5. CASE ~ChannelComplete(v)
  <2>1. Unpaired(c) = {}
    <3>1. Idle(c) => moved[c].put = 0 /\ moved[c].get = 0
      BY DEF Idle
    <3> QED
      BY <1>4, <1>5, <3>1, UnpairedFacts
  <2>2. UNCHANGED <<prog, held, moved, busy>>
    BY <1>1, <1>3, <1>5, <2>1
  <2> QED
    BY <2>2, PortsStill
<1>6. CASE ChannelComplete(v)
  <2>1. Unpaired(c) = Listed(c)
    <3>1. moved[c].put = 1 /\ moved[c].get = prog.fanout[c]
      BY <1>4, <1>6 DEF Idle
    <3> QED
      BY <1>4, <3>1, UnpairedFacts
  <2>2. busy' = busy \ Listed(c) /\ moved' = [moved EXCEPT ![c] = z] /\ held' = [held EXCEPT ![c] = e]
    BY <1>1, <1>3, <1>6, <2>1
  <2>3. /\ moved \in [Chans -> [put : Nat, get : Nat]]
        /\ held \in [Chans -> [put : Seq(AnyPort), get : Seq(AnyPort)]]
    BY DEF Core, Typed, PortsInv
  <2>4. e \in [put : Seq(AnyPort), get : Seq(AnyPort)] /\ e.put = <<>> /\ e.get = <<>>
        /\ z.put = 0 /\ z.get = 0
    OBVIOUS
  <2> HIDE DEF e, z
  <2>5. /\ held' \in [Chans -> [put : Seq(AnyPort), get : Seq(AnyPort)]]
        /\ held'[c] = e /\ moved'[c] = z
        /\ \A d \in Chans : d # c => held'[d] = held[d] /\ moved'[d] = moved[d]
    BY <2>2, <2>3, <2>4
  <2>6. /\ Listed(c)' = {} /\ \A d \in Chans : d # c => Listed(d)' = Listed(d)
    <3>1. Listed(c)' = {}
      BY <2>4, <2>5 DEF Listed, ToSet
    <3> QED
      BY <2>5, <3>1 DEF Listed
  <2>7. ASSUME NEW d \in Chans
        PROVE  /\ Len(held'[d].put) = moved'[d].put /\ Len(held'[d].get) = moved'[d].get
               /\ Distinct(held'[d].put) /\ Distinct(held'[d].get)
    <3>1. CASE d = c
      BY <2>4, <2>5, <3>1, EmptyFacts
    <3>2. CASE d # c
      BY <2>5, <3>2 DEF PortsInv
    <3> QED
      BY <3>1, <3>2
  <2>8. Chans' = Chans
    BY <1>1, SameProgram
  <2>9. \A a, b \in Chans : a # b => Listed(a)' \cap Listed(b)' = {}
    BY <2>6 DEF PortsInv
  <2>10. busy' = UNION {Listed(d)' : d \in Chans}
    <3>1. ASSUME NEW q \in busy' PROVE \E d \in Chans : q \in Listed(d)'
      <4>1. q \in busy /\ q \notin Listed(c)
        BY <2>2, <3>1
      <4>2. PICK d \in Chans : q \in Listed(d)
        BY <4>1 DEF PortsInv
      <4>3. d # c
        BY <4>1, <4>2
      <4> QED
        BY <2>6, <4>2, <4>3
    <3>2. \A d \in Chans : Listed(d)' \subseteq busy'
      <4>1. ASSUME NEW d \in Chans, d # c PROVE Listed(d)' \subseteq busy'
        <5>1. Listed(d) \subseteq busy /\ Listed(d) \cap Listed(c) = {}
          BY <4>1 DEF PortsInv
        <5> QED
          BY <2>2, <2>6, <4>1, <5>1
      <4> QED
        BY <2>6, <4>1
    <3> QED
      BY <3>1, <3>2
  <2> QED
    BY <2>5, <2>7, <2>8, <2>9, <2>10 DEF PortsInv
<1> QED
  BY <1>5, <1>6


LEMMA PortsDispatch ==
    ASSUME Core, Scalar(prog), OpsInv, PortsInv, Dispatch PROVE PortsInv'
<1> DEFINE v == Head(queue)
           put == Op(v).kind = "put"
           dir == IF put THEN "out" ELSE "in"
           taking == CHOOSE s \in kSubset(Dispatchable(v), PortsPool(node, dir)) : TRUE
<1>1. /\ v \in V /\ node \in Nodes /\ Dispatchable(v) = 1 /\ prog' = prog
      /\ moved'[Op(v).chan].put = moved[Op(v).chan].put + (IF put THEN 1 ELSE 0)
      /\ moved'[Op(v).chan].get = moved[Op(v).chan].get + (IF put THEN 0 ELSE 1)
      /\ \A d \in Chans : d # Op(v).chan => moved'[d] = moved[d]
  BY DispatchOnce
<1>2. PICK c \in Chans : c = Op(v).chan
  BY DispatchOnce
<1>3. Cardinality(PortsPool(node, dir)) >= 1
  <2> DEFINE P == Cardinality(PortsPool(node, dir))
             M == Min2(Remaining(v), OwnRemaining(v))
  <2>1. P \in Nat
    BY <1>1, PortsFinite DEF Core
  <2>2. Min2(M, P) = 1
    BY <1>1 DEF Dispatchable
  <2> HIDE DEF P, M
  <2>3. P >= 1
    BY <2>1, <2>2 DEF Min2
  <2> QED
    BY <2>3 DEF P
<1>4. PICK q \in AnyPort \ busy : taking = {q}
  <2>1. dir \in {"in", "out"}
    OBVIOUS
  <2>2. taking = CHOOSE s \in kSubset(1, PortsPool(node, dir)) : TRUE
    BY <1>1
  <2> HIDE DEF dir, taking
  <2>3. \E x \in AnyPort \ busy : (CHOOSE s \in kSubset(1, PortsPool(node, dir)) : TRUE) = {x}
    BY <1>1, <1>3, <2>1, TakesOne
  <2> QED
    BY <2>2, <2>3
<1>5. /\ busy' = busy \union taking
      /\ held' = [held EXCEPT ![c] =
                     [put |-> IF put THEN @.put \o SetToSeq(taking) ELSE @.put,
                      get |-> IF put THEN @.get ELSE @.get \o SetToSeq(taking)]]
  <2>1. /\ busy' = busy \union taking
        /\ held' = [held EXCEPT ![Op(v).chan] =
                       [put |-> IF put THEN @.put \o SetToSeq(taking) ELSE @.put,
                        get |-> IF put THEN @.get ELSE @.get \o SetToSeq(taking)]]
    BY Zenon DEF Dispatch
  <2> HIDE DEF put, taking
  <2> QED
    BY <1>2, <2>1
<1> DEFINE p1 == IF put THEN held[c].put \o <<q>> ELSE held[c].put
           g1 == IF put THEN held[c].get ELSE held[c].get \o <<q>>
           r == [put |-> p1, get |-> g1]
<1>6. SetToSeq(taking) = <<q>>
  BY <1>4, SeqOfOne
<1>7. busy' = busy \union {q} /\ held' = [held EXCEPT ![c] = r]
  BY <1>4, <1>5, <1>6
<1>8. /\ held \in [Chans -> [put : Seq(AnyPort), get : Seq(AnyPort)]]
      /\ held[c].put \in Seq(AnyPort) /\ held[c].get \in Seq(AnyPort)
      /\ Distinct(held[c].put) /\ Distinct(held[c].get)
      /\ Len(held[c].put) = moved[c].put /\ Len(held[c].get) = moved[c].get
      /\ moved[c].put \in Nat /\ moved[c].get \in Nat
  BY DEF PortsInv, Core, Typed
<1>9. \A d \in Chans : Listed(d) \subseteq busy /\ q \notin Listed(d)
  BY DEF PortsInv
<1>10. q \notin ToSet(held[c].put) /\ q \notin ToSet(held[c].get)
  BY <1>9 DEF Listed
<1>11. /\ p1 \in Seq(AnyPort) /\ g1 \in Seq(AnyPort) /\ Distinct(p1) /\ Distinct(g1)
       /\ Len(p1) = moved[c].put + (IF put THEN 1 ELSE 0)
       /\ Len(g1) = moved[c].get + (IF put THEN 0 ELSE 1)
       /\ ToSet(p1) \union ToSet(g1) = Listed(c) \union {q}
  <2>1. LET s == held[c].put IN
           /\ s \o <<q>> \in Seq(AnyPort) /\ Len(s \o <<q>>) = Len(s) + 1
           /\ Distinct(s \o <<q>>) /\ ToSet(s \o <<q>>) = ToSet(s) \union {q}
    BY <1>8, <1>10, ConcatOne
  <2>2. LET s == held[c].get IN
           /\ s \o <<q>> \in Seq(AnyPort) /\ Len(s \o <<q>>) = Len(s) + 1
           /\ Distinct(s \o <<q>>) /\ ToSet(s \o <<q>>) = ToSet(s) \union {q}
    BY <1>8, <1>10, ConcatOne
  <2> HIDE DEF put
  <2>3. CASE put
    BY <1>8, <2>1, <2>3 DEF Listed
  <2>4. CASE ~put
    BY <1>8, <2>2, <2>4 DEF Listed
  <2> QED
    BY <2>3, <2>4
<1>12. r \in [put : Seq(AnyPort), get : Seq(AnyPort)] /\ r.put = p1 /\ r.get = g1
  <2> HIDE DEF p1, g1
  <2> QED
    BY <1>11
<1> HIDE DEF r, p1, g1, put
<1>13. /\ held' \in [Chans -> [put : Seq(AnyPort), get : Seq(AnyPort)]] /\ held'[c] = r
       /\ \A d \in Chans : d # c => held'[d] = held[d]
  BY <1>7, <1>8, <1>12
<1>14. Listed(c)' = Listed(c) \union {q} /\ \A d \in Chans : d # c => Listed(d)' = Listed(d)
  BY <1>11, <1>12, <1>13 DEF Listed
<1>15. ASSUME NEW d \in Chans
       PROVE  /\ Len(held'[d].put) = moved'[d].put /\ Len(held'[d].get) = moved'[d].get
              /\ Distinct(held'[d].put) /\ Distinct(held'[d].get)
  <2>1. CASE d = c
    BY <1>1, <1>2, <1>11, <1>12, <1>13, <2>1
  <2>2. CASE d # c
    BY <1>1, <1>2, <1>13, <2>2 DEF PortsInv
  <2> QED
    BY <2>1, <2>2
<1>16. ASSUME NEW a \in Chans, NEW b \in Chans, a # b PROVE Listed(a)' \cap Listed(b)' = {}
  <2>1. Listed(a) \cap Listed(b) = {}
    BY <1>16 DEF PortsInv
  <2>2. CASE a # c /\ b # c
    BY <1>14, <2>1, <2>2
  <2>3. CASE a = c
    BY <1>9, <1>14, <1>16, <2>1, <2>3
  <2>4. CASE b = c
    BY <1>9, <1>14, <1>16, <2>1, <2>4
  <2> QED
    BY <2>2, <2>3, <2>4
<1>17. busy' = UNION {Listed(d)' : d \in Chans}
  <2>1. \A x \in busy' : \E d \in Chans : x \in Listed(d)'
    BY <1>7, <1>14 DEF PortsInv
  <2>2. \A d \in Chans : Listed(d)' \subseteq busy'
    BY <1>7, <1>9, <1>14
  <2> QED
    BY <2>1, <2>2
<1>18. Chans' = Chans
  BY <1>1, SameProgram
<1> QED
  BY <1>13, <1>15, <1>16, <1>17, <1>18 DEF PortsInv

LEMMA PortsStep ==
    ASSUME Core, BooksAgree, Scalar(prog), OpsInv, ChanInv, FlightInv, PortsInv, [Next]_vars
    PROVE  PortsInv'
<1>1. CASE ExecuteGet
  BY <1>1, PortsExecuteGet
<1>2. CASE Dispatch
  BY <1>2, PortsDispatch
<1>3. ~FreeLink
  BY DEF FreeLink, Running, FlightInv
<1>4. ASSUME ~ExecuteGet, ~Dispatch PROVE UNCHANGED <<prog, held, moved, busy>>
  BY <1>3, <1>4 DEF Next, vars, links, BeginFree, BeginExec, BeginPush, EndPush, ExecuteOther,
     ExecuteHierarchy, ExecutePut, OfferOther, OfferEnd, AdmitHerd, RefuseHerd, Defer, Advance,
     Finish
<1> QED
  BY <1>1, <1>2, <1>4, PortsStill

\* The invariant of a program whose links have no time of flight.
LinkInv == NoFlight(prog) => FlightInv /\ (Scalar(prog) => PortsInv)

LEMMA LinkInit == Init => LinkInv
<1> SUFFICES ASSUME Init PROVE FlightInv /\ PortsInv
  BY DEF LinkInv
<1>1. /\ phase = "begin" /\ released = started /\ ended = started /\ busy = {}
      /\ moved = [c \in Chans |-> [put |-> 0, get |-> 0]]
      /\ held = [c \in Chans |-> [put |-> <<>>, get |-> <<>>]]
  BY DEF Init
<1>2. FlightInv
  BY <1>1 DEF FlightInv
<1>3. \A c \in Chans : /\ held[c].put = <<>> /\ held[c].get = <<>>
                       /\ moved[c].put = 0 /\ moved[c].get = 0
  BY <1>1
<1>4. \A c \in Chans : Listed(c) = {}
  BY <1>3 DEF Listed, ToSet
<1>5. held \in [Chans -> [put : Seq(AnyPort), get : Seq(AnyPort)]]
  <2> DEFINE e == [put |-> <<>>, get |-> <<>>]
  <2>1. e \in [put : Seq(AnyPort), get : Seq(AnyPort)]
    OBVIOUS
  <2> HIDE DEF e
  <2>2. held = [c \in Chans |-> e]
    BY <1>1 DEF e
  <2> QED
    BY <2>1, <2>2
<1>6. PortsInv
  BY <1>1, <1>3, <1>4, <1>5, EmptyFacts DEF PortsInv
<1> QED
  BY <1>2, <1>6

\* In the same programs, where links have no time of flight after their
\* occupancy, the reserved ports are at every step those the channels list,
\* each once (channel_ops_in_progress): so a latency is reported only when
\* all ports are given back as well.  With a time of flight ports are given
\* back while they are still listed, another channel may reserve them, and
\* releaseChannelPortsForGet at the end of the flight takes them from it.
THEOREM LatencyOfScalarPrograms ==
    Spec => [](Scalar(prog) /\ NoFlight(prog) => LatencyHonest)
<1>1. /\ Core /\ TilesInv /\ BooksAgree /\ ScalarInv /\ LinkInv /\ [Next]_vars
      => LinkInv'
  <2> SUFFICES ASSUME Core, TilesInv, BooksAgree, ScalarInv, LinkInv, [Next]_vars
               PROVE  LinkInv'
    OBVIOUS
  <2>1. prog' = prog
    BY DEF Next, vars, BeginFree, BeginExec, BeginPush, EndPush, FreeLink, ExecuteOther,
       ExecuteHierarchy, ExecutePut, ExecuteGet, OfferOther, OfferEnd, AdmitHerd, RefuseHerd,
       Dispatch, Defer, Advance, Finish
  <2>2. Scalar(prog)' = Scalar(prog) /\ NoFlight(prog)' = NoFlight(prog)
    BY <2>1
  <2>3. ASSUME NoFlight(prog) PROVE FlightInv'
    BY <2>3, FlightStep DEF LinkInv
  <2>4. ASSUME NoFlight(prog), Scalar(prog) PROVE PortsInv'
    BY <2>4, PortsStep DEF LinkInv, ScalarInv
  <2> QED
    BY <2>2, <2>3, <2>4 DEF LinkInv
<1>2. Spec => []LinkInv
  BY <1>1, LinkInit, CoreHolds, TilesHold, ChannelBooksAgree, ScalarHolds, PTL DEF Spec
<1>3. LinkInv /\ (Scalar(prog) => Drained) => (Scalar(prog) /\ NoFlight(prog) => LatencyHonest)
  <2> SUFFICES ASSUME PortsInv, Drained, outcome = "latency" PROVE LatencyHonest!2
    BY DEF LinkInv, LatencyHonest
  <2>1. \A c \in Chans : moved[c] = [put |-> 0, get |-> 0]
    BY DEF Drained
  <2>2. \A c \in Chans : Listed(c) = {}
    <3> SUFFICES ASSUME NEW c \in Chans PROVE Listed(c) = {}
      OBVIOUS
    <3>1. moved[c].put = 0 /\ moved[c].get = 0
      BY <2>1
    <3>2. held[c].put = <<>> /\ held[c].get = <<>>
      BY <3>1 DEF PortsInv
    <3> QED
      BY <3>2 DEF Listed, ToSet
  <2>3. busy = {}
    BY <2>2 DEF PortsInv
  <2> QED
    BY <2>3 DEF Drained
<1> QED
  BY <1>2, <1>3, ScalarRunsDrain, PTL
=============================================================================
