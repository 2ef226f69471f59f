-------------------------- MODULE AirChannelProofs --------------------------
(***************************************************************************)
(* Proof that the one-place broadcast channel delivers every transfer to   *)
(* exactly Fanout gets, for every set of channels and every Fanout > 0.    *)
(***************************************************************************)
EXTENDS AirChannel, FiniteSetTheorems, TLAPS

USE DEF Sizes

LEMMA InitIndInv == ASSUME Sizes PROVE Init => IndInv
<1> SUFFICES ASSUME Init PROVE IndInv
  OBVIOUS
<1>1. TypeOK
  BY DEF Init, TypeOK
<1>2. HeldOnce
  BY DEF Init, HeldOnce
<1>3. ExactFanout
  BY DEF Init, ExactFanout
<1>4. Unread
  BY FS_EmptySet DEF Init, Unread
<1> QED
  BY <1>1, <1>2, <1>3, <1>4 DEF IndInv

\* A put fills an empty channel with a transfer nobody has read.
LEMMA PutIndInv ==
  ASSUME Sizes, IndInv, NEW c \in Chan, NEW m \in Msg, Put(c, m)
  PROVE  IndInv'
<1> USE DEF IndInv
<1>0. Cardinality({}) = 0
  BY FS_EmptySet
<1>1. slot[c] = NoMsg /\ rcv[m] = {} /\ (\A d \in Chan : slot[d] # m)
  BY DEF Put, TypeOK, HeldOnce, Unread
<1>2. TypeOK'
  BY DEF Put, TypeOK
<1>3. HeldOnce'
  <2>1. \A d \in Chan : d # c => slot'[d] = slot[d] /\ left'[d] = left[d]
    BY DEF Put, TypeOK
  <2>2. slot'[c] = m /\ left'[c] = Fanout /\ rcv' = rcv /\ sent' = sent \cup {m}
    BY DEF Put, TypeOK
  <2>3. \A d \in Chan : left'[d] > 0 <=> slot'[d] # NoMsg
    BY <2>1, <2>2 DEF HeldOnce
  <2>4. \A d \in Chan : slot'[d] # NoMsg =>
          slot'[d] \in sent' /\ Cardinality(rcv'[slot'[d]]) + left'[d] = Fanout
    BY <1>0, <1>1, <2>1, <2>2 DEF HeldOnce
  <2>5. \A d, e \in Chan : slot'[d] = slot'[e] /\ slot'[d] # NoMsg => d = e
    BY <1>1, <2>1, <2>2 DEF HeldOnce
  <2> QED
    BY <2>3, <2>4, <2>5 DEF HeldOnce
<1>4. ExactFanout'
  <2> SUFFICES ASSUME NEW n \in sent', \A d \in Chan : slot'[d] # n
               PROVE  Cardinality(rcv'[n]) = Fanout
    BY DEF ExactFanout
  <2>1. n # m /\ n \in sent
    BY DEF Put, TypeOK
  <2>2. \A d \in Chan : slot[d] # n
    BY <1>1, <2>1 DEF Put, TypeOK
  <2> QED
    BY <2>1, <2>2 DEF Put, ExactFanout
<1>5. Unread'
  BY DEF Put, Unread
<1> QED
  BY <1>2, <1>3, <1>4, <1>5

\* A get adds itself to the readers of the transfer and takes one token.
LEMMA GetIndInv ==
  ASSUME Sizes, IndInv, NEW c \in Chan, NEW g \in GetInst, Get(c, g)
  PROVE  IndInv'
<1> USE DEF IndInv
<1>0. PICK m : m = slot[c]
  OBVIOUS
<1>1. m \in Msg /\ m \in sent /\ left[c] \in 1..Fanout
      /\ Cardinality(rcv[m]) + left[c] = Fanout /\ IsFiniteSet(rcv[m])
  BY <1>0 DEF Get, TypeOK, HeldOnce, Unread
<1>2. g \notin rcv[m] /\ rcv' = [rcv EXCEPT ![m] = @ \cup {g}]
  BY <1>0, <1>1 DEF Get
<1>3. IsFiniteSet(rcv'[m]) /\ Cardinality(rcv'[m]) = Cardinality(rcv[m]) + 1
  <2>1. rcv'[m] = rcv[m] \cup {g}
    BY <1>1, <1>2 DEF TypeOK
  <2>2. g \notin rcv[m] /\ IsFiniteSet(rcv[m])
    BY <1>1, <1>2
  <2> QED
    BY <2>1, <2>2, FS_AddElement
<1>4. \A n \in Msg : n # m => rcv'[n] = rcv[n]
  BY <1>2 DEF TypeOK
<1>5. Cardinality(rcv[m]) \in Nat
  BY <1>1, FS_CardinalityType
<1>6. TypeOK'
  BY <1>0, <1>1 DEF Get, TypeOK
<1>7. HeldOnce'
  <2>1. \A d \in Chan : d # c => slot'[d] = slot[d] /\ left'[d] = left[d]
    BY DEF Get, TypeOK
  <2>2. /\ left'[c] = left[c] - 1
        /\ slot'[c] = IF left[c] = 1 THEN NoMsg ELSE m
    BY <1>0 DEF Get, TypeOK
  <2>3. \A d \in Chan : d # c => slot[d] # m
    BY <1>0, <1>1 DEF HeldOnce
  <2>4. \A d \in Chan : left'[d] > 0 <=> slot'[d] # NoMsg
    BY <1>1, <2>1, <2>2 DEF HeldOnce, TypeOK
  <2>5. ASSUME NEW d \in Chan, slot'[d] # NoMsg
        PROVE  slot'[d] \in sent' /\ Cardinality(rcv'[slot'[d]]) + left'[d] = Fanout
    <3>1. CASE d = c
      <4>1. slot'[c] = m /\ left'[c] = left[c] - 1
        BY <2>2, <2>5, <3>1
      <4>2. Cardinality(rcv'[m]) + (left[c] - 1) = Fanout
        BY <1>1, <1>3, <1>5
      <4>3. sent' = sent
        BY DEF Get
      <4> QED
        BY <3>1, <4>1, <4>2, <4>3, <1>1
    <3>2. CASE d # c
      BY <3>2, <1>4, <2>1, <2>3, <2>5 DEF Get, HeldOnce, TypeOK
    <3> QED
      BY <3>1, <3>2
  <2>6. \A d, e \in Chan : slot'[d] = slot'[e] /\ slot'[d] # NoMsg => d = e
    BY <1>0, <2>1, <2>2 DEF HeldOnce
  <2> QED
    BY <2>4, <2>5, <2>6 DEF HeldOnce
<1>8. ExactFanout'
  <2> SUFFICES ASSUME NEW n \in sent, \A d \in Chan : slot'[d] # n
               PROVE  Cardinality(rcv'[n]) = Fanout
    BY DEF ExactFanout, Get
  <2>1. CASE n = m
    <3>1. left[c] = 1
      BY <2>1, <1>0, <1>1 DEF Get, TypeOK
    <3> QED
      BY <3>1, <2>1, <1>1, <1>3, <1>5
  <2>2. CASE n # m
    <3>1. \A d \in Chan : slot[d] # n
      BY <2>2, <1>0 DEF Get, TypeOK
    <3> QED
      BY <3>1, <2>2, <1>4 DEF ExactFanout, TypeOK
  <2> QED
    BY <2>1, <2>2
<1>9. Unread'
  BY <1>1, <1>3, <1>4 DEF Get, Unread
<1> QED
  BY <1>6, <1>7, <1>8, <1>9

LEMMA NextIndInv == ASSUME Sizes PROVE IndInv /\ [Next]_vars => IndInv'
<1>1. ASSUME IndInv, Next PROVE IndInv'
  BY <1>1, PutIndInv, GetIndInv DEF Next
<1>2. ASSUME IndInv, UNCHANGED vars PROVE IndInv'
  BY <1>2 DEF vars, IndInv, TypeOK, HeldOnce, ExactFanout, Unread
<1> QED
  BY <1>1, <1>2

\* A channel never loses, overwrites or over-delivers a transfer: each one
\* that has left the channel was received by exactly Fanout gets, and each
\* one still held has Fanout minus its remaining tokens readers.
THEOREM ChannelDeliversExactly ==
    ASSUME Sizes PROVE Spec => [](TypeOK /\ HeldOnce /\ ExactFanout)
<1>1. Spec => []IndInv
  BY InitIndInv, NextIndInv, PTL DEF Spec
<1>2. IndInv => TypeOK /\ HeldOnce /\ ExactFanout
  BY DEF IndInv
<1> QED
  BY <1>1, <1>2, PTL
=============================================================================
