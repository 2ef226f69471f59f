---------------------------- MODULE MCAirRunner ----------------------------
(***************************************************************************)
(* TLC instances of AirRunner, after the programs of mlir/test/Util/Runner.*)
(***************************************************************************)
EXTENDS AirRunner

Base == [sub |-> 0, chan |-> 0, width |-> 0, cost |-> 1, flight |-> 0]
Vx(kind, n, deps) == [kind |-> kind, node |-> n, deps |-> deps] @@ Base
Hier(kind, n, deps, sub) == [Vx(kind, n, deps) EXCEPT !.sub = sub]
Link(kind, n, deps, chan, width) == [Vx(kind, n, deps) EXCEPT !.chan = chan, !.width = width]
Priced(v, cost, flight) == [v EXCEPT !.cost = cost, !.flight = flight]

Program(nodes, ops, tiles, herdTiles, ports, fanout, expect) ==
    [nodes |-> nodes, ops |-> ops, tiles |-> tiles, herdTiles |-> herdTiles,
     ports |-> ports, fanout |-> fanout, expect |-> expect]

\* Launch (node 1) and segment (node 2) around the vertices of a segment,
\* which start at 5: the segment starts at 4.
Around(body) ==
    <<Vx("start", 1, {}), Hier("segment", 1, {1}, 2), Vx("end", 1, {2}), Vx("start", 2, {})>> \o body

\* Three stages chained by broadcasts on a hierarchy of two to four tiles,
\* the allocations in reverse order (herd_admission_order).
Pipeline(cost, flight, tiles) ==
    Program(<<"launch", "segment", "h1", "h2", "h3">>,
        Around(<<Vx("op", 2, {4}), Priced(Vx("op", 2, {4}), 1, 0), Vx("op", 2, {4}),
                 Hier("herd", 2, {7}, 3), Hier("herd", 2, {6}, 4), Hier("herd", 2, {5}, 5),
                 Vx("end", 2, {8, 9, 10}),
                 Vx("start", 3, {}), Link("put", 3, {12}, 1, 1), Vx("end", 3, {13}),
                 Vx("start", 4, {}), Priced(Link("get", 4, {15}, 1, 2), cost, flight),
                 Priced(Vx("op", 4, {16}), cost, 0), Link("put", 4, {17}, 2, 2), Vx("end", 4, {18}),
                 Vx("start", 5, {}), Priced(Link("get", 5, {20}, 2, 2), cost, flight), Vx("end", 5, {21})>>),
        tiles, [n \in 3..5 |-> IF n = 3 THEN 1 ELSE 2], [n \in {1, 2} |-> 1], <<2, 1>>, "latency")

\* A herd puts to a segment with fewer ports, in rounds, and once more on the
\* same channel (bandwidth_contention, channel_put_retire).
Gather(cost, flight, width, ports) ==
    Program(<<"launch", "segment", "h">>,
        Around(<<Hier("herd", 2, {4}, 3), Vx("op", 2, {4}),
                 Priced(Link("get", 2, {6}, 1, width), cost, flight),
                 Priced(Link("get", 2, {7}, 1, width), cost, flight),
                 Vx("end", 2, {5, 8}),
                 Vx("start", 3, {}), Link("put", 3, {10}, 1, width), Link("put", 3, {11}, 1, width),
                 Vx("end", 3, {12})>>),
        width, [n \in {3} |-> width], [n \in {1, 2} |-> ports], <<1>>, "latency")

\* A segment with few ports puts to a herd, in rounds (bandwidth_contention).
\* What follows in the herd waits for an allocation as well.
Scatter(cost, flight, width, ports) ==
    Program(<<"launch", "segment", "h">>,
        Around(<<Vx("op", 2, {4}), Link("put", 2, {5}, 1, width), Hier("herd", 2, {4}, 3),
                 Vx("end", 2, {6, 7}),
                 Vx("start", 3, {}), Vx("op", 3, {9}), Priced(Link("get", 3, {10}, 1, width), cost, flight),
                 Priced(Vx("op", 3, {10, 11}), cost, 0), Vx("end", 3, {12})>>),
        width, [n \in {3} |-> width], [n \in {1, 2} |-> ports], <<1>>, "latency")

\* One put in the launch, received by two herds (channel_broadcast_across_segments).
Broadcast(cost, flight, tiles) ==
    Program(<<"launch", "segment", "h1", "h2">>,
        <<Vx("start", 1, {}), Link("put", 1, {1}, 1, 1), Hier("segment", 1, {1}, 2), Vx("end", 1, {2, 3}),
          Vx("start", 2, {}), Hier("herd", 2, {5}, 3), Hier("herd", 2, {5}, 4), Vx("end", 2, {6, 7}),
          Vx("start", 3, {}), Priced(Link("get", 3, {9}, 1, 1), cost, flight), Vx("end", 3, {10}),
          Vx("start", 4, {}), Priced(Link("get", 4, {12}, 1, 1), 1, 0), Vx("end", 4, {13})>>,
        tiles, [n \in {3, 4} |-> 1], [n \in {1, 2} |-> 1], <<2>>, "latency")

\* A long herd, and behind it a big one that a small one must not pass
\* (herd_tile_contention, no_bypass); of three tiles it never fits.
Contention(cost, big) ==
    Program(<<"launch", "segment", "h1", "h2", "h3">>,
        Around(<<Priced(Vx("op", 2, {4}), cost, 0), Hier("herd", 2, {4}, 3), Hier("herd", 2, {5}, 4),
                 Hier("herd", 2, {5}, 5), Vx("end", 2, {6, 7, 8}),
                 Vx("start", 3, {}), Priced(Vx("op", 3, {10}), cost + 2, 0), Vx("end", 3, {11}),
                 Vx("start", 4, {}), Vx("end", 4, {13}),
                 Vx("start", 5, {}), Priced(Vx("op", 5, {15}), 2, 0), Vx("end", 5, {16})>>),
        2, [n \in 3..5 |-> IF n = 4 THEN big ELSE 1], [n \in {1, 2} |-> 1], <<1>>,
        IF big > 2 THEN "error" ELSE "latency")

\* A herd of two puts, one get: unbalanced.  What follows the get waits for it
\* alone (stalled_simulation) or for another operand too.
Unbalanced(operands) ==
    Program(<<"launch", "segment", "h">>,
        Around(<<Hier("herd", 2, {4}, 3), Vx("op", 2, {4}), Link("get", 2, {6}, 1, 1),
                 Vx("op", 2, operands), Vx("end", 2, {5, 8}),
                 Vx("start", 3, {}), Link("put", 3, {10}, 1, 2), Vx("end", 3, {11})>>),
        2, [n \in {3} |-> 2], [n \in {1, 2} |-> 1], <<1>>, "stalled")

MCPrograms ==
    {Pipeline(c, f, t) : c \in {1, 3}, f \in {0, 2}, t \in 2..4}
    \union {Gather(c, f, w, p) : c \in {1, 3}, f \in {0, 2}, w \in 2..3, p \in {2}}
    \union {Gather(c, f, 2, 1) : c \in {1, 3}, f \in {0, 2}}
    \union {Scatter(c, f, w, 1) : c \in {1, 3}, f \in {0, 2}, w \in 2..3}
    \union {Broadcast(c, f, t) : c \in {1, 3}, f \in {0, 2}, t \in {2, 3}}
    \union {Contention(c, b) : c \in {1, 3}, b \in {2, 3}} \union {Unbalanced({7})}

MCUnbalanced == {Unbalanced({6, 7})}
=============================================================================
