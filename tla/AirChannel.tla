----------------------------- MODULE AirChannel -----------------------------
(***************************************************************************)
(* What an AIR channel promises (docs/AIRComputeModel.md, "Capacity and    *)
(* depth" and "Flow control semantics", depth 1): a put stalls while the   *)
(* previous transfer is unread, a get stalls while there is none, and a    *)
(* transfer is read by exactly Fanout gets.  AirCpuChannel implements this *)
(* specification, one Chan per channel_t object.                           *)
(***************************************************************************)
EXTENDS Naturals, FiniteSets

CONSTANTS
    Chan,       \* the channels
    Msg,        \* the transfers: one element per put the program executes
    GetInst,    \* one element per get the program executes
    Fanout,     \* how many gets read one transfer
    NoMsg       \* "the channel holds nothing"

\* What the specification needs of its constants; AirCpuChannel, which gives
\* them their values, meets it.
Sizes == Fanout \in Nat \ {0} /\ NoMsg \notin Msg

VARIABLES
    slot,       \* slot[c]: the transfer the channel holds, or NoMsg
    left,       \* left[c]: how many gets may still read it
    sent,       \* the transfers that have been put
    rcv         \* rcv[m]: the gets that received m

vars == <<slot, left, sent, rcv>>

TypeOK ==
    /\ slot \in [Chan -> Msg \cup {NoMsg}]
    /\ left \in [Chan -> 0..Fanout]
    /\ sent \subseteq Msg
    /\ rcv \in [Msg -> SUBSET GetInst]

Init ==
    /\ slot = [c \in Chan |-> NoMsg]
    /\ left = [c \in Chan |-> 0]
    /\ sent = {}
    /\ rcv = [m \in Msg |-> {}]

Put(c, m) ==
    /\ left[c] = 0
    /\ m \notin sent
    /\ slot' = [slot EXCEPT ![c] = m]
    /\ left' = [left EXCEPT ![c] = Fanout]
    /\ sent' = sent \cup {m}
    /\ UNCHANGED rcv

Get(c, g) ==
    /\ left[c] > 0
    /\ \A m \in Msg : g \notin rcv[m]
    /\ rcv' = [rcv EXCEPT ![slot[c]] = @ \cup {g}]
    /\ left' = [left EXCEPT ![c] = @ - 1]
    /\ slot' = [slot EXCEPT ![c] = IF left[c] = 1 THEN NoMsg ELSE @]
    /\ UNCHANGED sent

Next == \E c \in Chan : \/ \E m \in Msg : Put(c, m)
                        \/ \E g \in GetInst : Get(c, g)

Spec == Init /\ [][Next]_vars

-----------------------------------------------------------------------------
\* A transfer sits in one channel at most, and the reads it has had and the
\* reads it may still have add up to Fanout.
HeldOnce ==
    /\ \A c \in Chan : left[c] > 0 <=> slot[c] # NoMsg
    /\ \A c \in Chan : slot[c] # NoMsg =>
         /\ slot[c] \in sent
         /\ Cardinality(rcv[slot[c]]) + left[c] = Fanout
    /\ \A c, d \in Chan : slot[c] = slot[d] /\ slot[c] # NoMsg => c = d

\* No transfer is lost, overwritten or read too often: once a transfer has
\* left its channel, exactly Fanout gets have received it.
ExactFanout ==
    \A m \in sent : (\A c \in Chan : slot[c] # m) => Cardinality(rcv[m]) = Fanout

\* What the two need beside them to be inductive.
Unread == \A m \in Msg : /\ IsFiniteSet(rcv[m])
                         /\ m \notin sent => rcv[m] = {}

IndInv == TypeOK /\ HeldOnce /\ ExactFanout /\ Unread
=============================================================================
