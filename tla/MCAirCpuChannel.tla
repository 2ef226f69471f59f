-------------------------- MODULE MCAirCpuChannel --------------------------
(***************************************************************************)
(* Small programs for AirCpuChannel: a producer thread p and consumers.    *)
(***************************************************************************)
EXTENDS AirCpuChannel, TLC

CONSTANTS p, q, g, h

put(x, y) == [kind |-> "put", at |-> <<x, y>>]
get(x, y) == [kind |-> "get", at |-> <<x, y>>]

Size11 == <<1, 1>>
Size12 == <<1, 2>>
Size22 == <<2, 2>>
Size23 == <<2, 3>>
Bcast12 == <<1, 2>>
Bcast22 == <<2, 2>>
Bcast23 == <<2, 3>>

ThreadPG  == {p, g}
ThreadPGH == {p, g, h}
ThreadPQ  == {p, q}

\* A pair of two-way broadcasts used back and forth: h puts only after it
\* has received p's first transfer, so that no get can take another's share.
ProgPairs == p :> <<put(0, 0), get(0, 1), put(0, 0)>>
          @@ g :> <<get(0, 0), get(1, 1), get(0, 0)>>
          @@ h :> <<get(1, 0), put(0, 1), get(1, 0)>>

\* One producer, two consumers of a two-way broadcast, two rounds.
ProgBroadcast == p :> <<put(0, 0), put(0, 0)>>
              @@ g :> <<get(0, 0), get(0, 0)>>
              @@ h :> <<get(0, 1), get(0, 1)>>

\* A 2 x 3 array.
ProgOblong == p :> <<put(0, 0), put(1, 0), put(0, 2)>>
           @@ g :> <<get(0, 0), get(0, 2), get(1, 0)>>

\* One transfer through the last element of a square array.
ProgLast == p :> <<put(1, 1)>> @@ g :> <<get(1, 1)>>

\* Two producers on two elements of a square array.
ProgTwoPutters == p :> <<put(0, 0)>> @@ q :> <<put(1, 1)>>
=============================================================================
