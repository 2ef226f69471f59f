----------------------------- MODULE AirRunner -----------------------------
(***************************************************************************)
(* air-runner, the performance simulator (mlir/lib/Util/Runner.cpp and     *)
(* Runner/RunnerNode.cpp): runner nodes (the launch, its segment, their    *)
(* herds) pass over their dependency graphs, executing what has finished   *)
(* and admitting what is ready to the wavefront, under contention for      *)
(* tiles, ports and channel tokens.  One launch, herd granularity, no      *)
(* loops; the order in which a graph walk finds candidates is left open.   *)
(***************************************************************************)
EXTENDS Integers, Sequences, FiniteSets, FiniteSetsExt, SequencesExt

CONSTANTS
    Programs,  \* the simulated programs, see ProgramOK
    UIntMod    \* unsigned arithmetic wraps here

Kinds == {"start", "op", "segment", "herd", "put", "get", "end"}

(***************************************************************************)
(* A program: its runner nodes in the order of the scheduling loop (the    *)
(* first is the launch), the vertices of their graphs in program order,    *)
(* tiles of the segment, ports of the launch, of the segment and of one    *)
(* tile, fan-out of each channel.  A vertex v has predecessors v.deps, and *)
(* by kind: the node it starts (sub), its channel (chan) and spatial       *)
(* factor (width), its occupancy (cost) and link latency (flight).         *)
(***************************************************************************)
ProgramOK(p) ==
    /\ p.tiles \in Nat /\ Len(p.nodes) \in Nat \ {0}
    /\ Len(p.ops) \in Nat /\ DOMAIN p.ops = 1..Len(p.ops)
    /\ \A n \in DOMAIN p.ports : p.ports[n] \in Nat
    /\ \A c \in DOMAIN p.fanout : p.fanout[c] \in Nat \ {0}
    /\ \A i \in DOMAIN p.ops : LET v == p.ops[i] IN
        /\ v.kind \in Kinds /\ v.node \in 1..Len(p.nodes)
        /\ v.deps \subseteq 1..(i - 1) /\ (v.deps = {} <=> v.kind = "start")
        /\ \A j \in v.deps : p.ops[j].node = v.node
        /\ v.kind \in {"segment", "herd"} => v.sub \in (v.node + 1)..Len(p.nodes)
        /\ v.kind = "herd" => p.herdTiles[v.sub] \in Nat
        /\ v.kind \in {"put", "get"} => v.width > 0 /\ v.chan \in DOMAIN p.fanout
        /\ v.width \in Nat /\ v.cost \in Nat /\ v.flight \in Nat
    \* one start vertex and one terminator per graph
    /\ \A n \in 1..Len(p.nodes), k \in {"start", "end"} :
          \E i \in DOMAIN p.ops : \A j \in DOMAIN p.ops :
              (p.ops[j].node = n /\ p.ops[j].kind = k) <=> j = i
    \* a runner node per hierarchy op; the herds share one segment's tiles
    /\ \A i, j \in DOMAIN p.ops :
          LET v == p.ops[i]
              w == p.ops[j]
          IN  /\ {v.kind, w.kind} \subseteq {"segment", "herd"} /\ v.sub = w.sub => i = j
              /\ v.kind = "herd" /\ w.kind = "herd" => v.node = w.node

ASSUME RunnerAssumption == UIntMod \in Nat /\ UIntMod > 1000 /\ \A p \in Programs : ProgramOK(p)

VARIABLES
    prog, time,
    pass,       \* 1..N: processGraph of node pass; N+1..2N: the second push
    phase,      \* "begin", "free", "exec" or "push" within a pass
    queue,      \* the vertices the phase still has to look at
    blocked,    \* herd_blocked
    wave,       \* wavefront of each node
    started, released, ended,   \* start_time, release_time, end_time
    freed,      \* resources_released
    processed,  \* processed_vertices of all nodes
    ready,      \* first_ready_time, 0 when absent
    taken,      \* reserved tiles
    hiers,      \* resource_hiers of the herds: their tiles
    busy,       \* reserved ports
    moved,      \* channel_ops_in_progress: instances dispatched
    held,       \* channel_ops_in_progress: ports, in order of reservation
    tokens,     \* channel_token_counts
    sent,       \* dispatched_count
    total,      \* history: instances a vertex ever dispatched
    diagnosed,  \* diagnosticEmitted: an op reported an error
    outcome     \* how the simulation ended

timing == <<started, released, ended, freed, ready>>
links == <<busy, moved, held, tokens, sent, total>>
vars == <<prog, time, pass, phase, queue, blocked, wave, processed, taken,
          hiers, diagnosed, outcome, timing, links>>

Nodes == 1..Len(prog.nodes)
V == DOMAIN prog.ops
Op(v) == prog.ops[v]
Chans == DOMAIN prog.fanout
Tiles == 1..prog.tiles
node == IF pass > Len(prog.nodes) THEN pass - Len(prog.nodes) ELSE pass
StartOf(n) == CHOOSE v \in V : Op(v).node = n /\ Op(v).kind = "start"
EndOf(n) == CHOOSE v \in V : Op(v).node = n /\ Op(v).kind = "end"

Init ==
    /\ prog \in Programs /\ time = 1 /\ outcome = "running" /\ diagnosed = FALSE
    /\ pass = 1 /\ phase = "begin" /\ queue = <<>> /\ blocked = FALSE
    /\ wave = [n \in Nodes |-> IF n = 1 THEN <<StartOf(1)>> ELSE <<>>]
    /\ started = [v \in V |-> IF v = StartOf(1) THEN 1 ELSE 0]
    /\ released = started /\ ended = started
    /\ freed = [v \in V |-> FALSE] /\ ready = [v \in V |-> 0]
    /\ processed = {} /\ taken = {} /\ hiers = [n \in Nodes |-> {}]
    /\ busy = {} /\ tokens = [c \in Chans |-> 0]
    /\ moved = [c \in Chans |-> [put |-> 0, get |-> 0]]
    /\ held = [c \in Chans |-> [put |-> <<>>, get |-> <<>>]]
    /\ sent = [v \in V |-> 0] /\ total = sent

IsStarted(v) == started[v] # 0 /\ ended[v] # 0
IsDone(v) == time >= ended[v]

-----------------------------------------------------------------------------
\* Candidates and what they wait for.

\* getCandidateVerticesForWavefront: next to a processed vertex.
Candidates ==
    {v \in V : /\ Op(v).node = node /\ v \notin processed
               /\ Op(v).deps \cap processed # {}
               /\ ~Contains(wave[node], v)}

\* buildVertexDependencyList: a hierarchy op stands for its terminator.
DependsOn(v) ==
    {IF Op(u).kind \in {"segment", "herd"} THEN EndOf(Op(u).sub) ELSE u : u \in Op(v).deps}

\* checkAllDependenciesFulfillment
Fulfilled(v) ==
    /\ \A u \in DependsOn(v) : IsStarted(u) /\ IsDone(u)
    /\ Op(v).kind = "get" => tokens[Op(v).chan] >= 1

Min2(a, b) == IF a < b THEN a ELSE b
Max2(a, b) == IF a > b THEN a ELSE b

\* The ports of a node: of its tiles for a herd, its own for the others.
PortsOf(n, d) ==
    {<<d, t, 0>> : t \in hiers[n]} \union
    {<<d, -n, i>> : i \in 1..(IF n \in DOMAIN prog.ports THEN prog.ports[n] ELSE 0)}

PortsPool(n, d) == PortsOf(n, d) \ busy

\* getRemainingDispatchesForDynamicDispatch
Remaining(v) ==
    LET m == moved[Op(v).chan] IN
    IF Op(v).kind = "put" THEN (Op(v).width - m.put) % UIntMod
    ELSE Max2(m.put * prog.fanout[Op(v).chan] - m.get, 0)

OwnRemaining(v) == Max2(Op(v).width - sent[v], 0)

\* Mutant of Dispatchable: an op may dispatch all its channel allows.
MutDispatchableUncapped(v) ==
    Min2(Remaining(v),
         Cardinality(PortsPool(node, IF Op(v).kind = "put" THEN "out" ELSE "in")))

\* How many instances of a channel op can be dispatched now.
Dispatchable(v) ==
    Min2(Min2(Remaining(v), OwnRemaining(v)),
         Cardinality(PortsPool(node, IF Op(v).kind = "put" THEN "out" ELSE "in")))

TilesOf(v) == prog.herdTiles[Op(v).sub]

Herds == {v \in V : Op(v).kind = "herd"}

\* The tiles promised to the herds on the wavefront of a node, each tile a
\* herd and a number; a herd leaves the wavefront when its own node starts.
PromisedTiles(n) ==
    UNION {{v} \X (1..TilesOf(v)) : v \in {u \in Herds : Contains(wave[n], u)}}

\* getTilesPromisedToWavefront
Promised(n) == Cardinality(PromisedTiles(n))

\* Mutant of HerdFits: the tiles promised to the wavefront are not counted.
MutHerdFitsFreeOnly(v) == TilesOf(v) <= Cardinality(Tiles \ taken)

HerdFits(v) == TilesOf(v) + Promised(node) <= Cardinality(Tiles \ taken)

\* The first k elements of a set of numbers.
FirstOf(S, k) == {x \in S : Cardinality({y \in S : y <= x}) <= k}

\* Herds are offered the tiles in the order of their waiting.
Before(u, v, age) == age[u] < age[v] \/ (age[u] = age[v] /\ u < v)

\* The orders in which ready vertices may be offered.
Orders(S, age) ==
    {s \in SetToSeqs(S) :
        \A i, j \in DOMAIN s :
            (i < j /\ s[i] \in Herds /\ s[j] \in Herds) => Before(s[i], s[j], age)}

-----------------------------------------------------------------------------
\* The scheduling loop: which vertices a phase looks at.

Running(p) == outcome = "running" /\ pass <= 2 * Len(prog.nodes) /\ phase = p

Position(s, e) == CHOOSE i \in 1..Len(s) : s[i] = e

\* The members of S in the order of the wavefront s.
InOrder(S, s) ==
    {q \in SetToSeqs(S) :
        \A i, j \in DOMAIN q : i < j => Position(s, q[i]) < Position(s, q[j])}

\* has_link_latency, at the end of the occupancy.
Landing ==
    {v \in ToSet(wave[node]) :
        /\ Op(v).kind = "get" /\ released[v] < ended[v]
        /\ ~freed[v] /\ IsStarted(v) /\ time >= released[v]}

Finished == {v \in ToSet(wave[node]) : IsStarted(v) /\ IsDone(v)}

\* processGraph frees links...
BeginFree ==
    /\ Running("begin") /\ pass <= Len(prog.nodes)
    /\ phase' = "free" /\ queue' \in InOrder(Landing, wave[node])
    /\ UNCHANGED <<prog, time, pass, blocked, wave, processed, taken, hiers, diagnosed, outcome, timing, links>>

\* ... executes the ops of the wavefront that have finished...
BeginExec ==
    /\ Running("free") /\ queue = <<>>
    /\ phase' = "exec" /\ queue' \in InOrder(Finished, wave[node])
    /\ UNCHANGED <<prog, time, pass, blocked, wave, processed, taken, hiers, diagnosed, outcome, timing, links>>

\* ... and offers the candidates whose dependencies are fulfilled.
BeginPush ==
    /\ \/ Running("exec") /\ queue = <<>>
       \/ Running("begin") /\ pass > Len(prog.nodes)
    /\ LET able == {v \in Candidates : Fulfilled(v)}
           age == [v \in V |-> IF v \in able \cap Herds /\ ready[v] = 0 THEN time ELSE ready[v]]
       IN  ready' = age /\ queue' \in Orders(able, age)
    /\ phase' = "push" /\ blocked' = FALSE
    /\ UNCHANGED <<prog, time, pass, wave, processed, taken, hiers, diagnosed, outcome,
                   started, released, ended, freed, links>>

\* The node is done: processGraph of the next one, or the second push pass.
EndPush ==
    /\ Running("push") /\ queue = <<>>
    /\ pass' = pass + 1 /\ phase' = "begin"
    /\ UNCHANGED <<prog, time, queue, blocked, wave, processed, taken, hiers, diagnosed, outcome, timing, links>>

-----------------------------------------------------------------------------
\* Executing what has finished.

\* The ports of a list that are reserved, each at its first occurrence.
Reserved(s) == {i \in DOMAIN s : s[i] \in busy /\ \A j \in 1..(i - 1) : s[j] # s[i]}

\* The reservations of a list, a port listed twice counting twice.
ReservedCount(s) == Cardinality({i \in DOMAIN s : s[i] \in busy})

FirstPorts(s, k) == {s[i] : i \in FirstOf(Reserved(s), k)}

\* releaseChannelPortsForGet: matched pairs give up both their ports.
Unpaired(c) ==
    LET b == prog.fanout[c]
        puts == ReservedCount(held[c].put)
        gets == ReservedCount(held[c].get)
        n == IF puts * b > gets THEN gets \div b ELSE puts
    IN  FirstPorts(held[c].put, n) \union FirstPorts(held[c].get, n * b)

\* releaseCompletedLinkOccupancy
FreeLink ==
    /\ Running("free") /\ queue # <<>>
    /\ LET v == Head(queue) IN
         /\ busy' = busy \ Unpaired(Op(v).chan)
         /\ freed' = [freed EXCEPT ![v] = TRUE]
    /\ queue' = Tail(queue)
    /\ UNCHANGED <<prog, time, pass, phase, blocked, wave, processed, taken, hiers, diagnosed, outcome,
                   started, released, ended, ready, moved, held, tokens, sent, total>>

\* The wavefront s without v.
Without(s, v) == RemoveAt(s, Position(s, v))

\* Executing the head of the queue takes it off the wavefront.
Execute(kinds) ==
    /\ Running("exec") /\ queue # <<>> /\ Op(Head(queue)).kind \in kinds
    /\ queue' = Tail(queue)

ExecuteOther ==
    /\ Execute({"start", "op", "end"})
    /\ wave' = [wave EXCEPT ![node] = Without(@, Head(queue))]
    /\ processed' = processed \union {Head(queue)}
    /\ UNCHANGED <<prog, time, pass, phase, blocked, taken, hiers, diagnosed, outcome, timing, links>>

\* A segment or herd op starts its runner node, which reserves its tiles.
ExecuteHierarchy ==
    /\ Execute({"segment", "herd"})
    /\ LET v == Head(queue)
           n == Op(v).sub
           tiles == IF v \in Herds THEN TilesOf(v) ELSE 0
           got == FirstOf(Tiles \ taken, tiles)
       IN  IF wave[n] # <<>> \/ Cardinality(Tiles \ taken) < tiles
           THEN outcome' = "assertion" /\ UNCHANGED <<wave, processed, taken, hiers, timing>>
           ELSE /\ wave' = [wave EXCEPT ![node] = Without(@, v), ![n] = <<StartOf(n)>>]
                /\ processed' = processed \union {v}
                /\ taken' = taken \union got
                /\ hiers' = [hiers EXCEPT ![n] = @ \union got]
                /\ started' = [started EXCEPT ![StartOf(n)] = time]
                /\ released' = [released EXCEPT ![StartOf(n)] = time]
                /\ ended' = [ended EXCEPT ![StartOf(n)] = time]
                /\ UNCHANGED <<freed, ready, outcome>>
    /\ UNCHANGED <<prog, time, pass, phase, blocked, diagnosed, links>>

\* retireChannelOp, or the op is to be offered again.
Retire(v, retires) ==
    /\ wave' = [wave EXCEPT ![node] = Without(@, v)]
    /\ processed' = IF retires THEN processed \union {v} ELSE processed
    /\ sent' = IF retires THEN [sent EXCEPT ![v] = 0] ELSE sent

\* Mutant of PutComplete: a put whose channel was cleared never retires.
MutPutCompleteCounter(v) == moved[Op(v).chan].put = Op(v).width

\* A put has dispatched all, or its channel completed and was cleared.
PutComplete(v) ==
    LET n == moved[Op(v).chan].put IN n = Op(v).width \/ (n = 0 /\ sent[v] > 0)

ExecutePut ==
    /\ Execute({"put"})
    /\ Retire(Head(queue), PutComplete(Head(queue)))
    /\ UNCHANGED <<prog, time, pass, phase, blocked, taken, hiers, diagnosed, outcome, timing,
                   busy, moved, held, tokens, total>>

\* Mutant of ChannelComplete: complete whenever gets have caught up.
MutChannelCompletePaired(v) ==
    LET c == Op(v).chan IN moved[c].put * prog.fanout[c] = moved[c].get

\* Mutant of ChannelComplete: complete as soon as everything was put.
MutChannelCompletePut(v) ==
    LET c == Op(v).chan IN moved[c].put * prog.fanout[c] = Max2(Op(v).width, prog.fanout[c])

\* Everything the channel instance expects was put and got.
ChannelComplete(v) ==
    LET c == Op(v).chan
        expected == Max2(Op(v).width, prog.fanout[c])
    IN  moved[c].put * prog.fanout[c] = expected /\ moved[c].get = expected

\* A get retires with its channel, after it, or as one receiver of several.
GetRetires(v) ==
    LET c == Op(v).chan IN
    \/ ChannelComplete(v)
    \/ moved[c].put = 0 /\ moved[c].get = 0
    \/ prog.fanout[c] > 1 /\ Op(v).width < prog.fanout[c] /\ sent[v] >= Op(v).width

ExecuteGet ==
    /\ Execute({"get"})
    /\ LET v == Head(queue)
           c == Op(v).chan
       IN  /\ busy' = busy \ Unpaired(c)
           /\ Retire(v, GetRetires(v))
           /\ IF ChannelComplete(v)
              THEN /\ moved' = [moved EXCEPT ![c] = [put |-> 0, get |-> 0]]
                   /\ held' = [held EXCEPT ![c] = [put |-> <<>>, get |-> <<>>]]
              ELSE UNCHANGED <<moved, held>>
    /\ UNCHANGED <<prog, time, pass, phase, blocked, taken, hiers, diagnosed, outcome, timing, tokens, total>>

-----------------------------------------------------------------------------
\* Offering the hardware to what is ready.

Offer(kinds) ==
    /\ Running("push") /\ queue # <<>> /\ Op(Head(queue)).kind \in kinds
    /\ queue' = Tail(queue)

\* pushToWavefront, and the times modelOp gives.
Admit(v) ==
    /\ wave' = [wave EXCEPT ![node] = Append(@, v)]
    /\ started' = [started EXCEPT ![v] = time]
    /\ released' = [released EXCEPT ![v] = time + Op(v).cost]
    /\ ended' = [ended EXCEPT ![v] = time + Op(v).cost + Op(v).flight]
    /\ freed' = [freed EXCEPT ![v] = FALSE]
    /\ ready' = [ready EXCEPT ![v] = 0]

OfferOther ==
    /\ Offer({"op", "segment"})
    /\ Admit(Head(queue))
    /\ UNCHANGED <<prog, time, pass, phase, blocked, processed, taken, hiers, diagnosed, outcome, links>>

\* The terminator of a herd gives its tiles back as it is admitted.
OfferEnd ==
    /\ Offer({"end"})
    /\ Admit(Head(queue))
    /\ taken' = taken \ hiers[node]
    /\ UNCHANGED <<prog, time, pass, phase, blocked, processed, hiers, diagnosed, outcome, links>>

AdmitHerd ==
    /\ Offer({"herd"}) /\ ~blocked /\ HerdFits(Head(queue))
    /\ Admit(Head(queue))
    /\ UNCHANGED <<prog, time, pass, phase, blocked, processed, taken, hiers, diagnosed, outcome, links>>

\* Mutant of RefuseHerd: the herds behind may slip past.
MutRefuseHerdOnly ==
    /\ Offer({"herd"}) /\ ~HerdFits(Head(queue))
    /\ diagnosed' = (diagnosed \/ TilesOf(Head(queue)) > prog.tiles)
    /\ UNCHANGED <<prog, time, pass, phase, blocked, wave, processed, taken, hiers, outcome, timing, links>>

\* A herd that does not fit, or stands behind one, waits.  One that can never
\* fit is an error.
RefuseHerd ==
    /\ Offer({"herd"}) /\ (blocked \/ ~HerdFits(Head(queue)))
    /\ blocked' = TRUE
    /\ diagnosed' = (diagnosed \/ (~blocked /\ TilesOf(Head(queue)) > prog.tiles))
    /\ UNCHANGED <<prog, time, pass, phase, wave, processed, taken, hiers, outcome, timing, links>>

\* A put or get takes ports, as many as there are, and moves its tokens.
Dispatch ==
    /\ Offer({"put", "get"}) /\ Dispatchable(Head(queue)) > 0
    /\ LET v == Head(queue)
           c == Op(v).chan
           n == Dispatchable(v)
           put == Op(v).kind = "put"
           taking == CHOOSE s \in kSubset(n, PortsPool(node, IF put THEN "out" ELSE "in")) : TRUE
       IN  /\ Admit(v)
           /\ busy' = busy \union taking
           /\ moved' = [moved EXCEPT ![c] = [put |-> @.put + (IF put THEN n ELSE 0),
                                             get |-> @.get + (IF put THEN 0 ELSE n)]]
           /\ held' = [held EXCEPT ![c] =
                          [put |-> IF put THEN @.put \o SetToSeq(taking) ELSE @.put,
                           get |-> IF put THEN @.get ELSE @.get \o SetToSeq(taking)]]
           /\ tokens' = [tokens EXCEPT ![c] = @ + (IF put THEN n * prog.fanout[c] ELSE -n)]
           /\ sent' = [sent EXCEPT ![v] = @ + n]
           /\ total' = [total EXCEPT ![v] = @ + n]
    /\ UNCHANGED <<prog, time, pass, phase, blocked, processed, taken, hiers, diagnosed, outcome>>

\* No port, or nothing to move yet.
Defer ==
    /\ Offer({"put", "get"}) /\ Dispatchable(Head(queue)) = 0
    /\ UNCHANGED <<prog, time, pass, phase, blocked, wave, processed, taken, hiers, diagnosed, outcome, timing, links>>

-----------------------------------------------------------------------------
\* The end of a pass over all nodes.

OnWave == {v \in V : \E n \in Nodes : Contains(wave[n], v)}

\* getTimeStampsFromWavefront
NextTimes ==
    {ended[v] : v \in {u \in OnWave : IsStarted(u)}} \union
    {released[v] : v \in {u \in OnWave : IsStarted(u) /\ released[u] < ended[u] /\ ~freed[u]}}

LoopEnds == outcome = "running" /\ pass > 2 * Len(prog.nodes)

Advance ==
    /\ LoopEnds /\ OnWave # {}
    /\ time' = Max2(time + 1, CHOOSE t \in NextTimes : \A u \in NextTimes : t <= u)
    /\ pass' = 1 /\ phase' = "begin" /\ queue' = <<>>
    /\ UNCHANGED <<prog, blocked, wave, processed, taken, hiers, diagnosed, outcome, timing, links>>

\* scheduleLaunch and diagnoseVerticesThatNeverRan
Verdict ==
    IF diagnosed THEN "error"
    ELSE IF ~IsStarted(EndOf(1)) THEN "stalled"
    ELSE IF \E v \in V : Op(v).kind # "start" /\ ~IsStarted(v) THEN "unrun"
    ELSE "latency"

Finish ==
    /\ LoopEnds /\ OnWave = {}
    /\ outcome' = Verdict
    /\ UNCHANGED <<prog, time, pass, phase, queue, blocked, wave, processed, taken, hiers,
                   diagnosed, timing, links>>

Next ==
    \/ BeginFree \/ BeginExec \/ BeginPush \/ EndPush
    \/ FreeLink \/ ExecuteOther \/ ExecuteHierarchy \/ ExecutePut \/ ExecuteGet
    \/ OfferOther \/ OfferEnd \/ AdmitHerd \/ RefuseHerd \/ Dispatch \/ Defer
    \/ Advance \/ Finish

\* The simulator is one thread that runs until it returns.
Spec == Init /\ [][Next]_vars /\ WF_vars(Next)

-----------------------------------------------------------------------------
\* Types, and what every wavefront keeps: its members belong to the node, are
\* started and not yet processed, their occupancy ends before their latency,
\* and no channel op dispatches more than its own instances.
RunnerTypeOK ==
    /\ prog \in Programs /\ time \in Nat /\ diagnosed \in BOOLEAN /\ blocked \in BOOLEAN
    /\ outcome \in {"running", "latency", "stalled", "unrun", "error", "assertion"}
    /\ phase \in {"begin", "free", "exec", "push"}
    /\ \A v \in V : started[v] <= released[v] /\ released[v] <= ended[v] /\ sent[v] <= Op(v).width
    /\ \A n \in Nodes : \A v \in ToSet(wave[n]) : Op(v).node = n /\ IsStarted(v) /\ v \notin processed

\* A herd holds its tiles from its start to its terminator.
Holds(n) == started[StartOf(n)] # 0 /\ started[EndOf(n)] = 0

HerdNodes == {Op(v).sub : v \in Herds}

\* No tile is offered twice: running herds own disjoint tiles, all they asked
\* for, the tiles still promised are free, and the reservation of an admitted
\* herd never trips the assertion of allocateRunnerNodeToResourceHiers.
TilesSound ==
    /\ outcome # "assertion"
    /\ \A n \in HerdNodes : Holds(n) =>
          /\ hiers[n] \subseteq taken /\ Cardinality(hiers[n]) = prog.herdTiles[n]
          /\ \A m \in HerdNodes : m # n /\ Holds(m) => hiers[m] \cap hiers[n] = {}
    /\ \A n \in Nodes : Promised(n) <= Cardinality(Tiles \ taken)

\* A herd is never admitted past one that has waited longer for the tiles of
\* the same segment, or as long and precedes it in the program.
NoOvertaking ==
    [][\A v \in Herds : started[v] = 0 /\ started'[v] # 0 =>
          \A u \in Herds : (/\ Op(u).node = Op(v).node /\ u # v
                            /\ started[u] = 0 /\ ready[u] # 0) => Before(v, u, ready)]_vars

\* The two books the runner keeps of a channel agree: the tokens gets wait for
\* (channel_token_counts) are the instances put and not yet got
\* (channel_ops_in_progress), through partial dispatches, several receivers
\* and the clearing of a completed round.
BooksAgree ==
    \A c \in Chans : /\ tokens[c] = moved[c].put * prog.fanout[c] - moved[c].get
                     /\ tokens[c] >= 0

\* A latency is reported only for a simulation in which every op retired and
\* every channel is drained with all its ports given back.
LatencyHonest ==
    outcome = "latency" =>
        /\ V \subseteq processed
        /\ \A c \in Chans : moved[c] = [put |-> 0, get |-> 0]
        /\ \A v \in V : Op(v).kind \in {"put", "get"} => total[v] = Op(v).width
        /\ busy = {} /\ taken = {}

\* Every simulation ends, with the verdict its program calls for: balanced
\* programs whose herds fit complete whatever the order of candidates, an
\* unbalanced channel stalls and says so, a herd that never fits is an error.
EndsAsExpected == <>(outcome = prog.expect)
=============================================================================
