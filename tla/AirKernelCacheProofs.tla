------------------------ MODULE AirKernelCacheProofs ------------------------
(***************************************************************************)
(* Proofs about AirKernelCache, for any caches, kernels, device limit and  *)
(* cap.  The inductive invariant is CacheInv.                              *)
(***************************************************************************)
EXTENDS AirKernelCache, TLAPS

Distinct(s) == \A i, j \in 1..Len(s) : s[i] = s[j] => i = j

\* Taking one entry out of an ordered dictionary (OrderedDict.pop): the
\* entries before it stay, those after it move up.
LEMMA DropAtSeq ==
    ASSUME NEW S, NEW s \in Seq(S), NEW i \in 1..Len(s)
    PROVE  /\ DropAt(s, i) \in Seq(S)
           /\ Len(DropAt(s, i)) = Len(s) - 1
           /\ \A j \in 1..(Len(s) - 1) :
                 DropAt(s, i)[j] = IF j < i THEN s[j] ELSE s[j + 1]
<1> DEFINE n == Len(s) - 1
           t == [j \in 1..n |-> IF j < i THEN s[j] ELSE s[j + 1]]
<1>1. n \in Nat
  OBVIOUS
<1>2. \A j \in 1..n : t[j] \in S
  OBVIOUS
<1>3. t \in [1..n -> S]
  BY <1>2
<1>4. t \in Seq(S) /\ Len(t) = n
  BY <1>1, <1>3
<1> QED
  BY <1>4 DEF DropAt

\* What is left are the other entries, still distinct.
LEMMA DropAtHolds ==
    ASSUME NEW S, NEW s \in Seq(S), NEW i \in 1..Len(s), Distinct(s)
    PROVE  /\ Distinct(DropAt(s, i))
           /\ \A f : Holds(DropAt(s, i), f) <=> Holds(s, f) /\ f # s[i]
<1> DEFINE t == DropAt(s, i)
<1>1. /\ t \in Seq(S) /\ Len(t) = Len(s) - 1
      /\ \A j \in 1..(Len(s) - 1) : t[j] = IF j < i THEN s[j] ELSE s[j + 1]
  BY DropAtSeq
<1> HIDE DEF t
<1>2. Distinct(t)
  <2> SUFFICES ASSUME NEW a \in 1..Len(t), NEW b \in 1..Len(t), t[a] = t[b]
               PROVE  a = b
    BY DEF Distinct
  <2>1. CASE a < i /\ b < i
    BY <1>1, <2>1 DEF Distinct
  <2>2. CASE a < i /\ ~(b < i)
    BY <1>1, <2>2 DEF Distinct
  <2>3. CASE ~(a < i) /\ b < i
    BY <1>1, <2>3 DEF Distinct
  <2>4. CASE ~(a < i) /\ ~(b < i)
    BY <1>1, <2>4 DEF Distinct
  <2> QED
    BY <2>1, <2>2, <2>3, <2>4
<1>3. ASSUME NEW f, Holds(t, f)
      PROVE  Holds(s, f) /\ f # s[i]
  <2>1. PICK j \in 1..Len(t) : t[j] = f
    BY <1>3 DEF Holds
  <2>2. CASE j < i
    BY <1>1, <2>1, <2>2 DEF Holds, Distinct
  <2>3. CASE ~(j < i)
    BY <1>1, <2>1, <2>3 DEF Holds, Distinct
  <2> QED
    BY <2>2, <2>3
<1>4. ASSUME NEW f, Holds(s, f), f # s[i]
      PROVE  Holds(t, f)
  <2>1. PICK j \in 1..Len(s) : s[j] = f
    BY <1>4 DEF Holds
  <2>2. CASE j < i
    BY <1>1, <2>1, <2>2 DEF Holds
  <2>3. CASE j > i
    <3>1. j - 1 \in 1..(Len(s) - 1) /\ ~(j - 1 < i) /\ (j - 1) + 1 = j
      BY <2>3
    <3> QED
      BY <1>1, <2>1, <3>1 DEF Holds
  <2> QED
    BY <1>4, <2>1, <2>2, <2>3
<1> QED
  BY <1>2, <1>3, <1>4 DEF t

\* A new entry at the end.
LEMMA AppendHolds ==
    ASSUME NEW S, NEW s \in Seq(S), NEW e \in S, Distinct(s), ~Holds(s, e)
    PROVE  /\ Append(s, e) \in Seq(S) /\ Len(Append(s, e)) = Len(s) + 1
           /\ Distinct(Append(s, e))
           /\ \A f : Holds(Append(s, e), f) <=> Holds(s, f) \/ f = e
<1> DEFINE t == Append(s, e)
<1>1. /\ t \in Seq(S) /\ Len(t) = Len(s) + 1 /\ Len(s) \in Nat
      /\ \A j \in 1..Len(s) : t[j] = s[j]
      /\ t[Len(s) + 1] = e
  OBVIOUS
<1> HIDE DEF t
<1>2. Distinct(t)
  <2> SUFFICES ASSUME NEW a \in 1..Len(t), NEW b \in 1..Len(t), t[a] = t[b]
               PROVE  a = b
    BY DEF Distinct
  <2>1. CASE a <= Len(s) /\ b <= Len(s)
    BY <1>1, <2>1 DEF Distinct
  <2>2. CASE a = Len(s) + 1 \/ b = Len(s) + 1
    BY <1>1, <2>2 DEF Holds
  <2> QED
    BY <1>1, <2>1, <2>2
<1>3. \A f : Holds(t, f) <=> Holds(s, f) \/ f = e
  BY <1>1 DEF Holds
<1> QED
  BY <1>1, <1>2, <1>3 DEF t

\* A hit only changes the order of the contexts.
LEMMA TouchHolds ==
    ASSUME NEW S, NEW s \in Seq(S), NEW e \in S, Distinct(s), Holds(s, e)
    PROVE  /\ Touch(s, e) \in Seq(S) /\ Len(Touch(s, e)) = Len(s)
           /\ Distinct(Touch(s, e))
           /\ \A f : Holds(Touch(s, e), f) <=> Holds(s, f)
<1> DEFINE p == Position(s, e)
           t == DropAt(s, p)
<1>1. p \in 1..Len(s) /\ s[p] = e
  BY DEF Holds, Position
<1> HIDE DEF p
<1>2. t \in Seq(S) /\ Len(t) = Len(s) - 1
  BY <1>1, DropAtSeq
<1>3. Distinct(t) /\ \A f : Holds(t, f) <=> Holds(s, f) /\ f # e
  BY <1>1, DropAtHolds
<1>4. Touch(s, e) = Append(t, e)
  BY DEF Touch, MoveToEnd, p
<1> HIDE DEF t
<1>5. /\ Append(t, e) \in Seq(S) /\ Len(Append(t, e)) = Len(t) + 1
      /\ Distinct(Append(t, e))
      /\ \A f : Holds(Append(t, e), f) <=> Holds(t, f) \/ f = e
  BY <1>2, <1>3, AppendHolds
<1> QED
  BY <1>2, <1>3, <1>4, <1>5

\* Eviction takes the first entry.
LEMMA TailHolds ==
    ASSUME NEW S, NEW s \in Seq(S), s # <<>>, Distinct(s)
    PROVE  /\ Tail(s) \in Seq(S) /\ Len(Tail(s)) = Len(s) - 1
           /\ Head(s) \in S
           /\ Distinct(Tail(s))
           /\ \A f : Holds(Tail(s), f) <=> Holds(s, f) /\ f # Head(s)
<1>1. /\ 1 \in 1..Len(s) /\ Head(s) = s[1] /\ Head(s) \in S
      /\ Tail(s) \in Seq(S) /\ Len(Tail(s)) = Len(s) - 1
      /\ \A j \in 1..(Len(s) - 1) : Tail(s)[j] = s[j + 1]
  OBVIOUS
<1>2. /\ DropAt(s, 1) \in Seq(S) /\ Len(DropAt(s, 1)) = Len(s) - 1
      /\ \A j \in 1..(Len(s) - 1) :
            DropAt(s, 1)[j] = IF j < 1 THEN s[j] ELSE s[j + 1]
  BY <1>1, DropAtSeq
<1>3. \A j \in 1..(Len(s) - 1) : DropAt(s, 1)[j] = Tail(s)[j]
  BY <1>1, <1>2
<1>4. Tail(s) = DropAt(s, 1)
  BY <1>1, <1>2, <1>3
<1>5. /\ Distinct(DropAt(s, 1))
      /\ \A f : Holds(DropAt(s, 1), f) <=> Holds(s, f) /\ f # s[1]
  BY <1>1, DropAtHolds
<1>6. Distinct(Tail(s)) /\ \A f : Holds(Tail(s), f) <=> Holds(s, f) /\ f # s[1]
  BY <1>4, <1>5
<1> QED
  BY <1>1, <1>6

-----------------------------------------------------------------------------
\* What the invariant says of the list, apart from its type.
LEMMA AgreeFacts ==
    ASSUME CacheTypeOK, ContextsAgree
    PROVE  /\ ctx \in Seq(Contexts) /\ Distinct(ctx)
           /\ \A c \in alive : \A k \in Names :
                 k \in loaded[c] <=> Holds(ctx, <<c, k>>) \/ <<c, k>> \in lost \union Between
           /\ \A e \in lost \union Between : e[1] \in alive /\ ~Holds(ctx, e)
           /\ \A c \in Caches \ alive : loaded[c] = {}
  BY DEF CacheTypeOK, ContextsAgree, Distinct

\* The entry popped last, while its cache is held.
LEMMA VictimType ==
    ASSUME CacheInv, pc = "unload"
    PROVE  /\ victim \in Contexts /\ victim[1] \in Caches /\ victim[2] \in Names
           /\ victim = <<victim[1], victim[2]>> /\ victim[1] \in alive
           /\ victim[2] \in loaded[victim[1]] /\ ~Holds(ctx, victim) /\ victim \notin lost
<1>1. victim \in Contexts
  BY DEF CacheInv, CacheTypeOK, CallInv
<1>2. victim[1] \in Caches /\ victim[2] \in Names /\ victim = <<victim[1], victim[2]>>
  BY <1>1 DEF Contexts
<1>3. Between = {victim}
  BY DEF Between
<1>4. victim[1] \in alive /\ ~Holds(ctx, victim) /\ victim \notin lost
  BY <1>3, AgreeFacts DEF CacheInv, CallInv
<1> QED
  BY <1>1, <1>2, <1>3, <1>4, AgreeFacts DEF CacheInv

\* The kernel of the call in progress.
LEMMA CurType ==
    ASSUME CacheInv, pc # "idle"
    PROVE  /\ cur \in Contexts /\ cur[1] \in alive /\ cur[1] \in Caches /\ cur[2] \in Names
           /\ cur = <<cur[1], cur[2]>> /\ cur # NoContext
<1>1. cur # NoContext /\ cur \in Contexts /\ cur[1] \in alive
  BY DEF CacheInv, CallInv, CacheTypeOK
<1> QED
  BY <1>1 DEF Contexts

\* Steps that change neither the list, nor the backends, nor what is between.
LEMMA SameAgree ==
    ASSUME ContextsAgree, ctx' = ctx, loaded' = loaded, alive' = alive,
           lost' \union Between' = lost \union Between
    PROVE  ContextsAgree'
  BY DEF ContextsAgree, Holds

LEMMA CacheInitInv == CacheInit => CacheInv
<1> SUFFICES ASSUME CacheInit PROVE CacheInv
  OBVIOUS
<1>1. CacheTypeOK
  <2>1. ctx \in Seq(Contexts) /\ cap \in Caps
    BY DEF CacheInit
  <2>2. loaded \in [Caches -> SUBSET Names] /\ alive \in SUBSET Caches
    BY DEF CacheInit
  <2>3. pc = "idle" /\ back = "load" /\ cur = NoContext /\ victim = NoContext
    BY DEF CacheInit
  <2>4. freed \in BOOLEAN /\ older = {} /\ lost = {}
    BY DEF CacheInit
  <2> QED
    BY <2>1, <2>2, <2>3, <2>4 DEF CacheTypeOK
<1>2. ContextsAgree
  BY DEF CacheInit, ContextsAgree, Holds, Between
<1>3. Capped /\ Launchable
  BY CacheAssumption DEF CacheInit, Capped, Launchable
<1>4. CallInv
  BY DEF CacheInit, CallInv
<1> QED
  BY <1>1, <1>2, <1>3, <1>4 DEF CacheInv

LEMMA UsedType ==
    ASSUME CacheTypeOK, NEW e \in Contexts
    PROVE  Used(e) \subseteq Contexts \X Contexts
  BY DEF CacheTypeOK, Used, Open

LEMMA BeginInv ==
    ASSUME CacheInv, NEW c \in Caches, NEW k \in Names, Begin(c, k)
    PROVE  CacheInv'
<1> USE DEF CacheInv, Begin
<1> DEFINE e == <<c, k>>
<1>0. e \in Contexts /\ e # NoContext /\ e[1] = c /\ e[2] = k
  BY CacheAssumption DEF Contexts
<1>t. older' \subseteq Contexts \X Contexts
  BY <1>0, UsedType
<1>b. Between = {} /\ Between' = {}
  BY DEF Between
<1>v. victim' = NoContext
  BY DEF CallInv
<1>1. CASE k \in loaded[c]
  <2>1. Holds(ctx, e)
    BY <1>1 DEF Unlisted
  <2>2. /\ ctx' \in Seq(Contexts) /\ Len(ctx') = Len(ctx) /\ Distinct(ctx')
        /\ \A f : Holds(ctx', f) <=> Holds(ctx, f)
    <3>1. ctx' = Touch(ctx, e) /\ ctx \in Seq(Contexts) /\ Distinct(ctx)
      BY <1>1, AgreeFacts
    <3> QED
      BY <1>0, <2>1, <3>1, TouchHolds
  <2>3. CacheTypeOK'
    BY <1>0, <1>t, <1>1, <2>2 DEF CacheTypeOK
  <2>4. ContextsAgree'
    BY <1>b, <2>2 DEF ContextsAgree, Distinct
  <2>5. Capped' /\ Launchable'
    BY <1>0, <1>1, <2>2 DEF Capped, Launchable, Open, Contexts
  <2>6. CallInv'
    BY <1>0, <1>1, <1>b, <1>v, <2>2 DEF CallInv
  <2> QED
    BY <2>3, <2>4, <2>5, <2>6
<1>2. CASE k \notin loaded[c]
  <2>1. CacheTypeOK'
    BY <1>0, <1>t, <1>2 DEF CacheTypeOK
  <2>2. /\ ctx' = ctx /\ pc' = "cap" /\ loaded' = loaded /\ alive' = alive /\ cap' = cap
        /\ lost' = lost
    BY <1>2
  <2>3. ContextsAgree'
    BY <1>b, <2>2, SameAgree
  <2>4. Capped' /\ Launchable'
    BY <2>2 DEF Capped, Launchable
  <2>5. CallInv'
    BY <1>0, <1>2, <1>b, <1>v DEF CallInv, Open
  <2> QED
    BY <2>1, <2>3, <2>4, <2>5
<1> QED
  BY <1>1, <1>2

LEMMA KeepUnderCapInv == ASSUME CacheInv, KeepUnderCap PROVE CacheInv'
<1> USE DEF CacheInv, KeepUnderCap
<1>b. Between = {} /\ Between' = {}
  BY DEF Between, EnterRelease
<1>1. CacheTypeOK'
  BY DEF CacheTypeOK, EnterRelease
<1>2. ContextsAgree'
  BY <1>b, SameAgree
<1>3. Capped' /\ Launchable'
  BY DEF Capped, Launchable, EnterRelease
<1>4. CallInv'
  <2>1. Len(ctx) \in Nat /\ cap \in Nat
    BY CacheAssumption DEF CacheTypeOK
  <2> QED
    BY <1>b, <2>1 DEF CallInv, Open, AtCap, EnterRelease
<1> QED
  BY <1>1, <1>2, <1>3, <1>4

\* The first entry is popped: of a dead cache it is gone, of a live one its
\* backend is loaded and, for the moment, not listed.
LEMMA ReleaseInv == ASSUME CacheInv, Release PROVE CacheInv'
<1> USE DEF CacheInv, Release
<1> DEFINE h == Head(ctx)
<1>1. /\ ctx' \in Seq(Contexts) /\ Len(ctx') = Len(ctx) - 1
      /\ h \in Contexts /\ Distinct(ctx')
      /\ \A f : Holds(ctx', f) <=> Holds(ctx, f) /\ f # h
  BY AgreeFacts, TailHolds
<1>2. h[1] \in Caches /\ h[2] \in Names /\ h = <<h[1], h[2]>> /\ h # NoContext
  BY <1>1, CacheAssumption DEF Contexts
<1>3. Len(ctx) \in Nat /\ cap \in Nat /\ Len(ctx') < Len(ctx)
  BY <1>1, CacheAssumption DEF CacheTypeOK
<1>h. Holds(ctx, h)
  <2>1. ctx \in Seq(Contexts) /\ ctx # <<>>
    BY DEF CacheTypeOK
  <2>2. 1 \in 1..Len(ctx) /\ ctx[1] = h
    BY <2>1
  <2> QED
    BY <2>2 DEF Holds
<1> HIDE DEF h
<1>4. \/ h[1] \notin alive /\ pc' = pc /\ victim' = victim /\ freed' = TRUE
      \/ h[1] \in alive /\ pc' = "unload" /\ victim' = h /\ freed' = freed
  BY DEF h
<1>b. Between = {} /\ Between' = IF h[1] \in alive THEN {h} ELSE {}
  BY <1>4 DEF Between
<1>5. CacheTypeOK'
  BY <1>1, <1>4 DEF CacheTypeOK
<1>6. ContextsAgree'
  <2>1. \A i, j \in 1..Len(ctx') : ctx'[i] = ctx'[j] => i = j
    BY <1>1 DEF Distinct
  <2>2. ASSUME NEW c \in alive, NEW k \in Names
        PROVE  k \in loaded[c] <=> Holds(ctx', <<c, k>>) \/ <<c, k>> \in lost \union Between'
    <3>1. k \in loaded[c] <=> Holds(ctx, <<c, k>>) \/ <<c, k>> \in lost
      BY <1>b, <2>2, AgreeFacts
    <3>2. <<c, k>> = h => h[1] \in alive
      BY <2>2
    <3> QED
      BY <1>1, <1>b, <1>h, <3>1, <3>2
  <2>3. \A e \in lost \union Between' : e[1] \in alive /\ ~Holds(ctx', e)
    BY <1>1, <1>b, AgreeFacts
  <2> QED
    BY <2>1, <2>2, <2>3, AgreeFacts DEF ContextsAgree
<1>7. Capped' /\ Launchable'
  BY <1>3, <1>4 DEF Capped, Launchable, CacheTypeOK
<1>8. CallInv'
  <2>1. cur' \notin Open' /\ cur' = cur /\ alive' = alive /\ cur # NoContext /\ cur[1] \in alive
    BY DEF Open, CallInv
  <2>2. pc' \in {"evict", "unload"} /\ (pc' = "unload" <=> victim' # NoContext)
    BY <1>2, <1>4 DEF CallInv
  <2>3. cap' > 0 /\ back' = "load" => Len(ctx') < cap'
    BY <1>3 DEF CallInv
  <2>4. lost' \intersect Between' = {}
    BY <1>b, <1>h, AgreeFacts
  <2> QED
    BY <2>1, <2>2, <2>3, <2>4 DEF CallInv
<1> QED
  BY <1>5, <1>6, <1>7, <1>8

\* Its backend leaves _loaded: nothing is between any more.
LEMMA UnloadInv == ASSUME CacheInv, Unload PROVE CacheInv'
<1> USE DEF CacheInv, Unload
<1>1. /\ victim \in Contexts /\ victim[1] \in Caches /\ victim[2] \in Names
      /\ victim = <<victim[1], victim[2]>> /\ victim[1] \in alive
      /\ victim[2] \in loaded[victim[1]] /\ ~Holds(ctx, victim) /\ victim \notin lost
  BY VictimType
<1>2. /\ loaded' = [loaded EXCEPT ![victim[1]] = @ \ {victim[2]}] /\ pc' = back
      /\ back' = "load" /\ freed' = FALSE /\ victim' = NoContext
      /\ ctx' = ctx /\ alive' = alive /\ cap' = cap /\ cur' = cur /\ lost' = lost
  BY <1>1 DEF LeaveRelease
<1>b. Between = {victim} /\ Between' = {}
  BY <1>2 DEF Between, CacheTypeOK
<1>3. loaded' \in [Caches -> SUBSET Names]
  BY <1>2 DEF CacheTypeOK
<1>4. CacheTypeOK'
  BY <1>2, <1>3 DEF CacheTypeOK
<1>5. ContextsAgree'
  <2>1. ASSUME NEW c \in alive, NEW k \in Names
        PROVE  k \in loaded'[c] <=> Holds(ctx, <<c, k>>) \/ <<c, k>> \in lost
    <3>1. k \in loaded[c] <=> Holds(ctx, <<c, k>>) \/ <<c, k>> \in lost \/ <<c, k>> = victim
      BY <1>b, <2>1, AgreeFacts
    <3>2. k \in loaded'[c] <=> k \in loaded[c] /\ <<c, k>> # victim
      BY <1>1, <1>2, <2>1 DEF CacheTypeOK
    <3> QED
      BY <1>1, <3>1, <3>2
  <2>2. \A e \in lost : e[1] \in alive /\ ~Holds(ctx, e)
    BY AgreeFacts
  <2>3. \A c \in Caches \ alive : loaded'[c] = {}
    BY <1>1, <1>2, AgreeFacts DEF CacheTypeOK
  <2>4. \A f : Holds(ctx', f) <=> Holds(ctx, f)
    BY <1>2 DEF Holds
  <2>5. \A i, j \in 1..Len(ctx') : ctx'[i] = ctx'[j] => i = j
    BY <1>2 DEF ContextsAgree
  <2> QED
    BY <1>2, <1>b, <2>1, <2>2, <2>3, <2>4, <2>5 DEF ContextsAgree
<1>6. Capped' /\ Launchable'
  BY <1>2 DEF Capped, Launchable, CacheTypeOK
<1>7. CallInv'
  <2>1. cur \notin Open'
    BY <1>1, <1>2 DEF Open, CallInv, CacheTypeOK
  <2>2. back \in {"cap", "load"} /\ cur # NoContext /\ cur[1] \in alive
    BY DEF CallInv, CacheTypeOK
  <2> QED
    BY <1>2, <1>b, <2>1, <2>2 DEF CallInv
<1> QED
  BY <1>4, <1>5, <1>6, <1>7

LEMMA ReleaseNothingInv == ASSUME CacheInv, ReleaseNothing PROVE CacheInv'
<1> USE DEF CacheInv, ReleaseNothing, LeaveRelease
<1>b. Between = {} /\ Between' = {}
  BY DEF Between, CacheTypeOK
<1>1. CacheTypeOK'
  BY DEF CacheTypeOK
<1>2. ContextsAgree'
  BY <1>b, SameAgree
<1>3. Capped' /\ Launchable'
  BY DEF Capped, Launchable, CacheTypeOK
<1>4. CallInv'
  <2>1. cap \in Nat /\ Len(ctx) = 0
    BY CacheAssumption DEF CacheTypeOK
  <2> QED
    BY <1>b, <2>1 DEF CallInv, Open, CacheTypeOK
<1> QED
  BY <1>1, <1>2, <1>3, <1>4

\* The new backend is in _loaded, its entry is still to come.
LEMMA LoadSucceedsInv == ASSUME CacheInv, LoadSucceeds PROVE CacheInv'
<1> USE DEF CacheInv, LoadSucceeds
<1>1. /\ cur \in Contexts /\ cur[1] \in alive /\ cur[1] \in Caches /\ cur[2] \in Names
      /\ cur = <<cur[1], cur[2]>> /\ cur # NoContext
  BY CurType
<1>b. Between = {} /\ Between' = {cur}
  BY DEF Between
<1>2. cur[2] \notin loaded[cur[1]]
  BY <1>1 DEF CallInv, Open
<1>3. ~Holds(ctx, cur) /\ cur \notin lost
  BY <1>1, <1>2, AgreeFacts
<1>4. \A f : Holds(ctx', f) <=> Holds(ctx, f)
  BY DEF Holds
<1>5. loaded' \in [Caches -> SUBSET Names]
  BY <1>1 DEF CacheTypeOK
<1>6. CacheTypeOK'
  BY <1>5 DEF CacheTypeOK
<1>7. ContextsAgree'
  <2>1. \A i, j \in 1..Len(ctx') : ctx'[i] = ctx'[j] => i = j
    BY DEF ContextsAgree
  <2>2. ASSUME NEW c \in alive, NEW k \in Names
        PROVE  k \in loaded'[c] <=> Holds(ctx, <<c, k>>) \/ <<c, k>> \in lost \union {cur}
    <3>1. k \in loaded[c] <=> Holds(ctx, <<c, k>>) \/ <<c, k>> \in lost
      BY <1>b, <2>2, AgreeFacts
    <3>2. k \in loaded'[c] <=> k \in loaded[c] \/ <<c, k>> = cur
      BY <1>1, <2>2 DEF CacheTypeOK
    <3> QED
      BY <3>1, <3>2
  <2>3. \A c \in Caches \ alive : loaded'[c] = {}
    BY <1>1, AgreeFacts DEF CacheTypeOK
  <2>4. \A e \in lost \union {cur} : e[1] \in alive /\ ~Holds(ctx, e)
    BY <1>1, <1>3, AgreeFacts
  <2> QED
    BY <1>b, <1>4, <2>1, <2>2, <2>3, <2>4 DEF ContextsAgree
<1>8. Capped' /\ Launchable'
  BY DEF Capped, Launchable
<1>9. CallInv'
  BY <1>1, <1>3, <1>b DEF CallInv
<1> QED
  BY <1>6, <1>7, <1>8, <1>9

\* Its entry joins the list, and both sides agree on it.
LEMMA ListContextInv == ASSUME CacheInv, ListContext PROVE CacheInv'
<1> USE DEF CacheInv, ListContext
<1>1. /\ cur \in Contexts /\ cur[1] \in alive /\ cur[1] \in Caches /\ cur[2] \in Names
      /\ cur = <<cur[1], cur[2]>> /\ cur # NoContext
  BY CurType
<1>b. Between = {cur} /\ Between' = {}
  BY DEF Between
<1>3. ~Holds(ctx, cur) /\ cur \notin lost /\ cur[2] \in loaded[cur[1]]
  BY <1>1, <1>b, AgreeFacts DEF CallInv
<1>4. /\ ctx' \in Seq(Contexts) /\ Len(ctx') = Len(ctx) + 1 /\ Distinct(ctx')
      /\ \A f : Holds(ctx', f) <=> Holds(ctx, f) \/ f = cur
  <2>1. ctx \in Seq(Contexts) /\ Distinct(ctx) /\ ctx' = Append(ctx, cur)
    BY AgreeFacts
  <2> QED
    BY <1>1, <1>3, <2>1, AppendHolds
<1>5. CacheTypeOK'
  BY <1>4 DEF CacheTypeOK
<1>6. ContextsAgree'
  <2>1. \A i, j \in 1..Len(ctx') : ctx'[i] = ctx'[j] => i = j
    BY <1>4 DEF Distinct
  <2>2. \A c \in alive : \A k \in Names :
           k \in loaded[c] <=> Holds(ctx', <<c, k>>) \/ <<c, k>> \in lost
    BY <1>4, <1>b, AgreeFacts
  <2>3. \A e \in lost : e[1] \in alive /\ ~Holds(ctx', e)
    BY <1>3, <1>4, AgreeFacts
  <2> QED
    BY <1>b, <2>1, <2>2, <2>3, AgreeFacts DEF ContextsAgree
<1>7. Capped'
  <2>1. Len(ctx) \in Nat /\ cap \in Nat
    BY CacheAssumption DEF CacheTypeOK
  <2> QED
    BY <1>4, <2>1 DEF Capped, CallInv
<1>8. Launchable' /\ CallInv'
  BY <1>1, <1>3, <1>b DEF Launchable, CallInv, Open
<1> QED
  BY <1>5, <1>6, <1>7, <1>8

LEMMA LoadFailsInv == ASSUME CacheInv, LoadFails PROVE CacheInv'
<1> USE DEF CacheInv, LoadFails, EnterRelease
<1>b. Between = {} /\ Between' = {}
  BY DEF Between
<1>1. CacheTypeOK'
  BY DEF CacheTypeOK
<1>2. ContextsAgree'
  BY <1>b, SameAgree
<1>3. Capped' /\ Launchable'
  BY DEF Capped, Launchable
<1>4. CallInv'
  BY <1>b DEF CallInv, Open
<1> QED
  BY <1>1, <1>2, <1>3, <1>4

\* The ends of a call: the error, the return, and the interrupt, which
\* leaves what was between the two updates behind.
LEMMA EndInv == ASSUME CacheInv, LoadRaises \/ Return \/ Interrupt PROVE CacheInv'
<1>1. /\ pc' = "idle" /\ cur' = NoContext /\ ctx' = ctx /\ loaded' = loaded
      /\ alive' = alive /\ cap' = cap /\ older' = older
  BY DEF LoadRaises, Return, Interrupt
<1>2. victim' = NoContext /\ lost' = lost \union Between /\ Between' = {}
  BY <1>1 DEF LoadRaises, Return, Interrupt, Between, CacheInv, CallInv
<1>3. back' \in {"cap", "load"} /\ freed' \in BOOLEAN
  BY DEF LoadRaises, Return, Interrupt, LeaveRelease, CacheInv, CacheTypeOK
<1>4. Between \subseteq Contexts
  BY CurType, VictimType DEF Between
<1>5. CacheTypeOK'
  BY <1>1, <1>2, <1>3, <1>4 DEF CacheInv, CacheTypeOK
<1>6. ContextsAgree'
  BY <1>1, <1>2, SameAgree DEF CacheInv
<1>7. Capped' /\ Launchable'
  BY <1>1 DEF CacheInv, Capped, Launchable
<1>8. CallInv'
  BY <1>1, <1>2 DEF CallInv
<1> QED
  BY <1>5, <1>6, <1>7, <1>8 DEF CacheInv

LEMMA CollectInv == ASSUME CacheInv, NEW c \in Caches, Collect(c) PROVE CacheInv'
<1> USE DEF CacheInv, Collect
<1>1. loaded' \in [Caches -> SUBSET Names] /\ alive' \in SUBSET Caches
  BY DEF CacheTypeOK
<1>b. Between' = Between /\ \A e \in Between : e[1] # c
  BY DEF Between
<1>2. CacheTypeOK'
  BY <1>1 DEF CacheTypeOK
<1>3. ContextsAgree'
  <2>1. \A f : Holds(ctx', f) <=> Holds(ctx, f)
    BY DEF Holds
  <2>2. ASSUME NEW d \in alive', NEW k \in Names
        PROVE  k \in loaded'[d] <=> Holds(ctx, <<d, k>>) \/ <<d, k>> \in lost' \union Between
    <3>1. d \in alive /\ d # c /\ loaded'[d] = loaded[d] /\ <<d, k>>[1] = d
      BY <2>2 DEF CacheTypeOK
    <3>2. k \in loaded[d] <=> Holds(ctx, <<d, k>>) \/ <<d, k>> \in lost \union Between
      BY <3>1, AgreeFacts
    <3> QED
      BY <3>1, <3>2
  <2>3. \A e \in lost' \union Between : e[1] \in alive' /\ ~Holds(ctx, e)
    BY <1>b, AgreeFacts
  <2>4. \A d \in Caches \ alive' : loaded'[d] = {}
    BY AgreeFacts DEF CacheTypeOK
  <2>5. \A i, j \in 1..Len(ctx') : ctx'[i] = ctx'[j] => i = j
    BY DEF ContextsAgree
  <2> QED
    BY <1>b, <2>1, <2>2, <2>3, <2>4, <2>5 DEF ContextsAgree
<1>4. Capped'
  BY DEF Capped
<1>5. Launchable' /\ CallInv'
  BY <1>b DEF Launchable, CallInv, Open, CacheTypeOK
<1> QED
  BY <1>2, <1>3, <1>4, <1>5

LEMMA PurgeInv == ASSUME CacheInv, Purge PROVE CacheInv'
<1> USE DEF CacheInv, Purge
<1>1. PICK i \in 1..Len(ctx) : ctx[i][1] \notin alive /\ ctx' = DropAt(ctx, i)
  OBVIOUS
<1>2. ctx \in Seq(Contexts) /\ Distinct(ctx)
  BY AgreeFacts
<1>3. ctx' \in Seq(Contexts) /\ Len(ctx') = Len(ctx) - 1
  BY <1>1, <1>2, DropAtSeq
<1>4. Distinct(ctx') /\ \A f : Holds(ctx', f) <=> Holds(ctx, f) /\ f # ctx[i]
  BY <1>1, <1>2, DropAtHolds
<1>5. \A c \in alive, k \in Names : <<c, k>> # ctx[i]
  BY <1>1
<1>b. Between' = Between
  BY DEF Between
<1>6. CacheTypeOK'
  BY <1>3 DEF CacheTypeOK
<1>7. ContextsAgree'
  BY <1>4, <1>5, <1>b DEF ContextsAgree, Distinct
<1>8. Capped' /\ Launchable' /\ CallInv'
  <2>1. Len(ctx) \in Nat /\ Len(ctx') < Len(ctx) /\ cap \in Nat
    BY <1>3, CacheAssumption DEF CacheTypeOK
  <2> QED
    BY <1>b, <2>1 DEF Capped, Launchable, CallInv, Open
<1> QED
  BY <1>6, <1>7, <1>8

LEMMA RestartInv == ASSUME Restart PROVE CacheInv'
<1>1. CacheTypeOK'
  <2>1. ctx' \in Seq(Contexts) /\ cap' \in Caps
    BY DEF Restart
  <2>2. loaded' \in [Caches -> SUBSET Names] /\ alive' \in SUBSET Caches
    BY DEF Restart
  <2>3. pc' = "idle" /\ back' = "load" /\ cur' = NoContext /\ victim' = NoContext
    BY DEF Restart
  <2>4. freed' \in BOOLEAN /\ older' = {} /\ lost' = {}
    BY DEF Restart
  <2> QED
    BY <2>1, <2>2, <2>3, <2>4 DEF CacheTypeOK
<1>2. ContextsAgree'
  BY DEF Restart, ContextsAgree, Holds, Between
<1>3. Capped' /\ Launchable'
  BY CacheAssumption DEF Restart, Capped, Launchable
<1>4. CallInv'
  BY DEF Restart, CallInv
<1> QED
  BY <1>1, <1>2, <1>3, <1>4 DEF CacheInv

\* CacheInv is inductive: no step of load_and_run, of the collector or of the
\* end of the process breaks it.
LEMMA CacheStepInv == CacheInv /\ [CacheNext]_cacheVars => CacheInv'
<1> SUFFICES ASSUME CacheInv, [CacheNext]_cacheVars PROVE CacheInv'
  OBVIOUS
<1>1. CASE \E c \in Caches, k \in Names : Begin(c, k)
  BY <1>1, BeginInv
<1>2. CASE KeepUnderCap
  BY <1>2, KeepUnderCapInv
<1>3. CASE Release
  BY <1>3, ReleaseInv
<1>4. CASE Unload
  BY <1>4, UnloadInv
<1>5. CASE ReleaseNothing
  BY <1>5, ReleaseNothingInv
<1>6. CASE LoadSucceeds
  BY <1>6, LoadSucceedsInv
<1>7. CASE ListContext
  BY <1>7, ListContextInv
<1>8. CASE LoadFails
  BY <1>8, LoadFailsInv
<1>9. CASE LoadRaises \/ Return \/ Interrupt
  BY <1>9, EndInv
<1>10. CASE \E c \in Caches : Collect(c)
  BY <1>10, CollectInv
<1>11. CASE Purge
  BY <1>11, PurgeInv
<1>12. CASE Restart
  BY <1>12, RestartInv
<1>13. CASE UNCHANGED cacheVars
  <2> USE <1>13 DEF cacheVars, CacheInv
  <2>b. Between' = Between
    BY DEF Between
  <2>1. CacheTypeOK'
    BY DEF CacheTypeOK
  <2>2. ContextsAgree'
    BY <2>b, SameAgree
  <2>3. Capped' /\ Launchable' /\ CallInv'
    BY <2>b DEF Capped, Launchable, CallInv, Open
  <2> QED
    BY <2>1, <2>2, <2>3
<1> QED
  BY <1>1, <1>2, <1>3, <1>4, <1>5, <1>6, <1>7, <1>8, <1>9, <1>10, <1>11, <1>12, <1>13
     DEF CacheNext

\* For any number of caches, kernels and contexts: the list of contexts and
\* the loaded backends agree but for what a Ctrl-C left between their two
\* updates, AIR_MAX_HW_CONTEXTS holds, and the kernel about to be launched
\* has its context, whatever is evicted, collected, purged or interrupted
\* (KernelCache._load_backend, _release_lru_context).
THEOREM ContextsSafe ==
    CacheSpec => [](CacheTypeOK /\ ContextsAgree /\ Capped /\ Launchable)
<1>1. CacheInv => CacheTypeOK /\ ContextsAgree /\ Capped /\ Launchable
  BY DEF CacheInv
<1> QED
  BY <1>1, CacheInitInv, CacheStepInv, PTL DEF CacheSpec

\* AIR_MAX_HW_CONTEXTS is never exceeded, by whichever caches the process
\* uses and however many of them have been collected.
THEOREM CapHolds == CacheSpec => []Capped
  BY ContextsSafe, PTL

\* No kernel is launched through a context that an eviction has closed.
THEOREM LaunchHasContext == CacheSpec => []Launchable
  BY ContextsSafe, PTL

-----------------------------------------------------------------------------
(* The order of eviction.                                                  *)

\* The list orders the open contexts by last use, the kernel of the call in
\* progress was used after all the others, and the entry popped before all
\* those that are listed.
OrderInv ==
    /\ \A i, j \in 1..Len(ctx) :
          (i < j /\ ctx[i] \in Open /\ ctx[j] \in Open) => <<ctx[i], ctx[j]>> \in older
    /\ pc # "idle" => \A f \in Open \ {cur} : <<f, cur>> \in older
    /\ pc = "unload" => \A f \in Open \ ({victim} \union lost) : <<victim, f>> \in older

\* Sub-lists in order: taking an entry out keeps the order of the others.
LEMMA DropAtOrder ==
    ASSUME NEW S, NEW s \in Seq(S), NEW i \in 1..Len(s),
           NEW a \in 1..(Len(s) - 1), NEW b \in 1..(Len(s) - 1), a < b
    PROVE  \E x, y \in 1..Len(s) :
              /\ x < y /\ x # i /\ y # i
              /\ DropAt(s, i)[a] = s[x] /\ DropAt(s, i)[b] = s[y]
<1>1. /\ DropAt(s, i)[a] = IF a < i THEN s[a] ELSE s[a + 1]
      /\ DropAt(s, i)[b] = IF b < i THEN s[b] ELSE s[b + 1]
  BY DropAtSeq
<1>2. CASE a < i /\ b < i
  BY <1>1, <1>2
<1>3. CASE a < i /\ ~(b < i)
  BY <1>1, <1>3
<1>4. CASE ~(a < i) /\ ~(b < i)
  BY <1>1, <1>4
<1> QED
  BY <1>2, <1>3, <1>4

\* A list whose entries come from the old one, in the old order.
LEMMA SubListOrder ==
    ASSUME OrderInv, older' = older, cur' = cur \/ pc' = "idle",
           Open' \subseteq Open, pc' # "idle" => pc # "idle",
           pc' = "unload" => \A f \in Open' \ ({victim'} \union lost') : <<victim', f>> \in older,
           \A a, b \in 1..Len(ctx') : a < b =>
              \E x, y \in 1..Len(ctx) : x < y /\ ctx'[a] = ctx[x] /\ ctx'[b] = ctx[y]
    PROVE  OrderInv'
<1>1. ASSUME NEW a \in 1..Len(ctx'), NEW b \in 1..Len(ctx'),
             a < b, ctx'[a] \in Open', ctx'[b] \in Open'
      PROVE  <<ctx'[a], ctx'[b]>> \in older'
  <2>1. PICK x \in 1..Len(ctx), y \in 1..Len(ctx) :
           x < y /\ ctx'[a] = ctx[x] /\ ctx'[b] = ctx[y]
    BY <1>1
  <2> QED
    BY <1>1, <2>1 DEF OrderInv
<1>2. ASSUME pc' # "idle", NEW f \in Open' \ {cur'} PROVE <<f, cur'>> \in older'
  BY <1>2 DEF OrderInv
<1> QED
  BY <1>1, <1>2 DEF OrderInv

\* A call makes its kernel the last used one; a hit moves it to the end.
LEMMA BeginOrder ==
    ASSUME CacheInv, OrderInv, NEW c \in Caches, NEW k \in Names, Begin(c, k)
    PROVE  OrderInv'
<1> DEFINE e == <<c, k>>
<1>0. /\ e \in Contexts /\ cur' = e /\ older' = Used(e) /\ c \in alive
      /\ loaded' = loaded /\ alive' = alive
      /\ ctx' = IF k \in loaded[c] THEN Touch(ctx, e) ELSE ctx
  BY DEF Begin, Contexts
<1>1. Open' = Open
  BY <1>0 DEF Open
<1>2. \A f \in Open \ {e} : <<f, e>> \in older'
  BY <1>0 DEF Used
<1>3. \A f, g \in Open \ {e} : <<f, g>> \in older => <<f, g>> \in older'
  BY <1>0 DEF Used
<1>4. ctx \in Seq(Contexts) /\ Distinct(ctx)
  BY AgreeFacts DEF CacheInv
<1> HIDE DEF e
<1>5. ASSUME NEW i \in 1..Len(ctx'), NEW j \in 1..Len(ctx'),
             i < j, ctx'[i] \in Open, ctx'[j] \in Open
      PROVE  <<ctx'[i], ctx'[j]>> \in older'
  <2>1. CASE k \in loaded[c]
    <3> DEFINE p == Position(ctx, e)
               t == DropAt(ctx, p)
    <3>1. p \in 1..Len(ctx) /\ ctx[p] = e
      <4>1. Holds(ctx, e)
        BY <2>1 DEF Begin, Unlisted, e
      <4> QED
        BY <4>1 DEF Holds, Position
    <3>2. ctx' = Append(t, e)
      <4>1. Holds(ctx, e)
        BY <3>1 DEF Holds
      <4> QED
        BY <4>1, <1>0, <2>1 DEF Touch, MoveToEnd
    <3> HIDE DEF p
    <3>3. t \in Seq(Contexts) /\ Len(t) = Len(ctx) - 1
      BY <1>4, <3>1, DropAtSeq
    <3>4. ASSUME NEW a \in 1..Len(t) PROVE t[a] # e
      <4>1. Distinct(t) /\ \A f : Holds(t, f) <=> Holds(ctx, f) /\ f # e
        BY <1>4, <3>1, DropAtHolds
      <4> QED
        BY <3>4, <4>1 DEF Holds
    <3>5. ASSUME NEW a \in 1..Len(t), NEW b \in 1..Len(t), a < b,
                 t[a] \in Open, t[b] \in Open
          PROVE  <<t[a], t[b]>> \in older
      <4>1. PICK x \in 1..Len(ctx), y \in 1..Len(ctx) :
               x < y /\ t[a] = ctx[x] /\ t[b] = ctx[y]
        <5>1. a \in 1..(Len(ctx) - 1) /\ b \in 1..(Len(ctx) - 1) /\ a < b
          BY <3>3, <3>5
        <5> HIDE DEF t
        <5>2. \E x, y \in 1..Len(ctx) :
                 /\ x < y /\ x # p /\ y # p
                 /\ DropAt(ctx, p)[a] = ctx[x] /\ DropAt(ctx, p)[b] = ctx[y]
          BY <1>4, <3>1, <5>1, DropAtOrder
        <5> QED
          BY <5>2 DEF t
      <4> QED
        BY <3>5, <4>1 DEF OrderInv
    <3> HIDE DEF t
    <3>6. /\ Len(ctx') = Len(t) + 1 /\ ctx'[Len(t) + 1] = e
          /\ \A a \in 1..Len(t) : ctx'[a] = t[a]
      BY <1>0, <3>2, <3>3
    <3>7. i \in 1..Len(t) /\ ctx'[i] = t[i] /\ ctx'[i] # e
      BY <1>5, <3>3, <3>4, <3>6
    <3>8. CASE j = Len(t) + 1
      BY <1>2, <1>5, <3>6, <3>7, <3>8
    <3>9. CASE j \in 1..Len(t)
      BY <1>3, <1>5, <3>4, <3>5, <3>6, <3>7, <3>9
    <3>10. j = Len(t) + 1 \/ j \in 1..Len(t)
      BY <1>5, <3>3, <3>6
    <3> QED
      BY <3>8, <3>9, <3>10
  <2>2. CASE k \notin loaded[c]
    <3>1. e \notin Open /\ ctx' = ctx
      BY <1>0, <2>2 DEF Open, e
    <3> QED
      BY <1>3, <1>5, <3>1 DEF OrderInv
  <2> QED
    BY <2>1, <2>2
<1>6. pc' # "unload"
  BY DEF Begin
<1> QED
  BY <1>0, <1>1, <1>2, <1>5, <1>6 DEF OrderInv, e

\* A loaded kernel is the last used one, and not yet in the list.
LEMMA LoadOrder == ASSUME CacheInv, OrderInv, LoadSucceeds PROVE OrderInv'
<1>1. /\ pc = "load" /\ cur \in Contexts /\ cur[1] \in alive /\ pc' = "list"
      /\ ctx' = ctx /\ cur' = cur /\ older' = older /\ alive' = alive
      /\ loaded' = [loaded EXCEPT ![cur[1]] = @ \union {cur[2]}]
  BY CurType DEF LoadSucceeds
<1>2. ~Holds(ctx, cur)
  BY <1>1, CurType, AgreeFacts DEF CacheInv, CallInv, Open
<1>3. ASSUME NEW f \in Open', f # cur PROVE f \in Open
  <2>1. f \in Contexts /\ f[1] \in alive /\ f[2] \in loaded'[f[1]]
    BY <1>1, <1>3 DEF Open
  <2>2. \E c \in Caches, k \in Names : f = <<c, k>>
    BY <2>1 DEF Contexts
  <2>3. \E c \in Caches, k \in Names : cur = <<c, k>>
    BY <1>1 DEF Contexts
  <2> QED
    BY <1>1, <1>3, <2>1, <2>2, <2>3 DEF Open, CacheInv, CacheTypeOK
<1>4. \A f \in Open' \ {cur} : <<f, cur>> \in older
  BY <1>1, <1>3 DEF OrderInv
<1>5. \A i \in 1..Len(ctx) : ctx[i] # cur
  BY <1>2 DEF Holds
<1> QED
  BY <1>1, <1>3, <1>4, <1>5 DEF OrderInv

\* It joins the list at its end.
LEMMA ListOrder == ASSUME CacheInv, OrderInv, ListContext PROVE OrderInv'
<1>1. /\ pc = "list" /\ cur \in Contexts /\ ctx \in Seq(Contexts) /\ pc' = "run"
      /\ ctx' = Append(ctx, cur) /\ cur' = cur /\ older' = older
  BY CurType DEF ListContext, CacheInv, CacheTypeOK
<1>2. Open' = Open
  BY DEF ListContext, Open
<1>3. /\ Len(ctx') = Len(ctx) + 1 /\ ctx'[Len(ctx) + 1] = cur /\ Len(ctx) \in Nat
      /\ \A a \in 1..Len(ctx) : ctx'[a] = ctx[a]
  BY <1>1
<1>4. \A a \in 1..Len(ctx) : ctx[a] # cur
  <2>1. cur \in Between
    BY <1>1 DEF Between
  <2> QED
    BY <2>1, AgreeFacts DEF CacheInv, Holds
<1>5. ASSUME NEW i \in 1..Len(ctx'), NEW j \in 1..Len(ctx'),
             i < j, ctx'[i] \in Open, ctx'[j] \in Open
      PROVE  <<ctx'[i], ctx'[j]>> \in older
  <2>1. i \in 1..Len(ctx) /\ ctx'[i] = ctx[i]
    BY <1>3, <1>5
  <2>2. CASE j = Len(ctx) + 1
    BY <1>1, <1>3, <1>4, <1>5, <2>1, <2>2 DEF OrderInv
  <2>3. CASE j \in 1..Len(ctx)
    BY <1>3, <1>5, <2>1, <2>3 DEF OrderInv
  <2> QED
    BY <1>3, <1>5, <2>2, <2>3
<1> QED
  BY <1>1, <1>2, <1>5 DEF OrderInv

\* _release_lru_context takes the first entry, which every other one that is
\* open and listed follows.
LEMMA ReleaseOrder == ASSUME CacheInv, OrderInv, Release PROVE OrderInv'
<1>1. /\ ctx \in Seq(Contexts) /\ ctx # <<>> /\ ctx' = Tail(ctx) /\ lost' = lost
      /\ alive' = alive /\ older' = older /\ cur' = cur /\ pc = "evict"
  BY DEF Release, CacheInv, CacheTypeOK
<1>2. Open' = Open
  BY DEF Release, Open
<1>3. \A a, b \in 1..Len(ctx') : a < b =>
         \E x, y \in 1..Len(ctx) : x < y /\ ctx'[a] = ctx[x] /\ ctx'[b] = ctx[y]
  <2>1. Len(ctx') = Len(ctx) - 1 /\ \A a \in 1..Len(ctx') : ctx'[a] = ctx[a + 1]
    BY <1>1
  <2> SUFFICES ASSUME NEW a \in 1..Len(ctx'), NEW b \in 1..Len(ctx'), a < b
               PROVE  \E x, y \in 1..Len(ctx) :
                         x < y /\ ctx'[a] = ctx[x] /\ ctx'[b] = ctx[y]
    OBVIOUS
  <2>2. a + 1 \in 1..Len(ctx) /\ b + 1 \in 1..Len(ctx) /\ a + 1 < b + 1
    BY <1>1, <2>1
  <2> QED
    BY <2>1, <2>2
<1>4. ASSUME pc' = "unload", NEW f \in Open \ ({victim'} \union lost)
      PROVE  <<victim', f>> \in older
  <2>1. victim' = ctx[1] /\ 1 \in 1..Len(ctx) /\ ctx[1] \in Contexts /\ ctx[1][1] \in alive
    BY <1>1, <1>4 DEF Release
  <2>2. Holds(ctx, ctx[1]) /\ ctx[1] = <<ctx[1][1], ctx[1][2]>> /\ ctx[1][2] \in Names
    BY <2>1 DEF Holds, Contexts
  <2>3. ctx[1] \in Open
    BY <2>1, <2>2, AgreeFacts DEF CacheInv, Open
  <2>4. f \in Contexts /\ f[1] \in alive /\ f[2] \in loaded[f[1]] /\ Between = {}
    BY <1>1 DEF Open, Between
  <2>5. f = <<f[1], f[2]>> /\ f[2] \in Names
    BY <2>4 DEF Contexts
  <2>6. Holds(ctx, <<f[1], f[2]>>)
    BY <1>4, <2>4, <2>5, AgreeFacts DEF CacheInv
  <2>7. PICK j \in 1..Len(ctx) : ctx[j] = f
    BY <2>5, <2>6 DEF Holds
  <2>8. 1 < j
    BY <1>1, <1>4, <2>1, <2>7
  <2> QED
    BY <2>1, <2>3, <2>7, <2>8 DEF OrderInv
<1> QED
  BY <1>1, <1>2, <1>3, <1>4, SubListOrder

\* The steps that only close contexts.
LEMMA FewerOpen ==
    ASSUME alive' \subseteq alive, loaded \in [Caches -> SUBSET Names],
           \A c \in Caches : loaded'[c] \subseteq loaded[c]
    PROVE  Open' \subseteq Open
  BY DEF Open, Contexts

\* The callback of a dead entry takes it out of the list.
LEMMA PurgeOrder == ASSUME CacheInv, OrderInv, Purge PROVE OrderInv'
<1>1. PICK i \in 1..Len(ctx) : ctx' = DropAt(ctx, i)
  BY DEF Purge
<1>2. ctx \in Seq(Contexts)
  BY DEF CacheInv, CacheTypeOK
<1>3. /\ older' = older /\ cur' = cur /\ pc' = pc /\ Open' = Open
      /\ victim' = victim /\ lost' = lost
  BY DEF Purge, Open
<1>4. Len(ctx') = Len(ctx) - 1
  BY <1>1, <1>2, DropAtSeq
<1>5. ASSUME NEW a \in 1..Len(ctx'), NEW b \in 1..Len(ctx'), a < b
      PROVE  \E x, y \in 1..Len(ctx) : x < y /\ ctx'[a] = ctx[x] /\ ctx'[b] = ctx[y]
  <2>1. a \in 1..(Len(ctx) - 1) /\ b \in 1..(Len(ctx) - 1)
    BY <1>4, <1>5
  <2>2. \E x, y \in 1..Len(ctx) :
           /\ x < y /\ x # i /\ y # i
           /\ DropAt(ctx, i)[a] = ctx[x] /\ DropAt(ctx, i)[b] = ctx[y]
    BY <1>2, <1>5, <2>1, DropAtOrder
  <2> QED
    BY <1>1, <2>2
<1>6. pc' = "unload" => \A f \in Open' \ ({victim'} \union lost') : <<victim', f>> \in older
  BY <1>3 DEF OrderInv
<1> QED
  BY <1>3, <1>5, <1>6, SubListOrder

\* Steps that leave the list alone and open nothing.
LEMMA SameListOrder ==
    ASSUME OrderInv, ctx' = ctx, older' = older, cur' = cur \/ pc' = "idle",
           Open' \subseteq Open, pc' # "idle" => pc # "idle",
           pc' = "unload" => /\ pc = "unload" /\ victim' = victim
                             /\ Open' \intersect lost \subseteq lost'
    PROVE  OrderInv'
  BY DEF OrderInv

LEMMA OrderInit == CacheInit => OrderInv
  BY DEF CacheInit, OrderInv

\* Every step keeps the order.
LEMMA OrderStep == CacheInv /\ OrderInv /\ [CacheNext]_cacheVars => OrderInv'
<1> SUFFICES ASSUME CacheInv, OrderInv, [CacheNext]_cacheVars PROVE OrderInv'
  OBVIOUS
<1>1. CASE \E c \in Caches, k \in Names : Begin(c, k)
  BY <1>1, BeginOrder
<1>2. CASE KeepUnderCap
  BY <1>2, SameListOrder DEF KeepUnderCap, EnterRelease, Open
<1>3. CASE Release
  BY <1>3, ReleaseOrder
<1>4. CASE Unload
  <2>1. Open' \subseteq Open
    <3>1. \A c \in Caches : loaded'[c] \subseteq loaded[c]
      BY <1>4, VictimType DEF Unload, CacheInv, CacheTypeOK
    <3> QED
      BY <1>4, <3>1, FewerOpen DEF Unload, CacheInv, CacheTypeOK
  <2>2. pc' # "unload"
    BY <1>4 DEF Unload, CacheInv, CacheTypeOK
  <2> QED
    BY <1>4, <2>1, <2>2, SameListOrder DEF Unload
<1>5. CASE ReleaseNothing
  <2>1. pc' # "unload"
    BY <1>5 DEF ReleaseNothing, CacheInv, CacheTypeOK
  <2> QED
    BY <1>5, <2>1, SameListOrder DEF ReleaseNothing, Open
<1>6. CASE LoadSucceeds
  BY <1>6, LoadOrder
<1>7. CASE ListContext
  BY <1>7, ListOrder
<1>8. CASE LoadFails
  BY <1>8, SameListOrder DEF LoadFails, EnterRelease, Open
<1>9. CASE LoadRaises \/ Return \/ Interrupt
  BY <1>9, SameListOrder DEF LoadRaises, Return, Interrupt, Open
<1>10. CASE \E c \in Caches : Collect(c)
  <2>1. PICK c \in Caches : Collect(c)
    BY <1>10
  <2>2. \A d \in Caches : loaded'[d] \subseteq loaded[d]
    BY <2>1 DEF Collect, CacheInv, CacheTypeOK
  <2>3. Open' \subseteq Open
    BY <2>1, <2>2, FewerOpen DEF Collect, CacheInv, CacheTypeOK
  <2>4. Open' \intersect lost \subseteq lost'
    BY <2>1 DEF Collect, Open
  <2> QED
    BY <2>1, <2>3, <2>4, SameListOrder DEF Collect
<1>11. CASE Purge
  BY <1>11, PurgeOrder
<1>12. CASE Restart
  BY <1>12 DEF Restart, OrderInv
<1>13. CASE UNCHANGED cacheVars
  BY <1>13, SameListOrder DEF cacheVars, Open
<1> QED
  BY <1>1, <1>2, <1>3, <1>4, <1>5, <1>6, <1>7, <1>8, <1>9, <1>10, <1>11, <1>12, <1>13
     DEF CacheNext

\* What a call closes is the entry it has popped, which every other listed
\* context follows.
LEMMA EvictStep ==
    ASSUME CacheInv, OrderInv, [CacheNext]_cacheVars, pc # "idle", cur' = cur,
           NEW e \in Open, e[1] \in alive', e[2] \notin loaded'[e[1]],
           NEW f \in Open \ ({e} \union lost)
    PROVE  <<e, f>> \in older
<1>1. cur # NoContext /\ e \in Contexts /\ e[1] \in alive /\ e[2] \in loaded[e[1]]
  BY DEF CacheInv, CallInv, Open
<1>2. e = <<e[1], e[2]>> /\ e[1] \in Caches /\ e[2] \in Names
  BY <1>1 DEF Contexts
<1>3. Unload
  <2>1. loaded' # loaded
    BY <1>1
  <2>2. ~(LoadRaises \/ Return \/ Interrupt \/ Restart)
    BY <1>1 DEF LoadRaises, Return, Interrupt, Restart
  <2>3. ~\E c \in Caches : Collect(c)
    BY <1>1, <1>2 DEF Collect, CacheInv, CacheTypeOK
  <2>4. ~\E c \in Caches, k \in Names : Begin(c, k)
    BY DEF Begin
  <2>5. ~(KeepUnderCap \/ Release \/ ReleaseNothing \/ ListContext \/ LoadFails \/ Purge)
    BY <2>1 DEF KeepUnderCap, Release, ReleaseNothing, ListContext, LoadFails, Purge
  <2>6. ~LoadSucceeds
    BY <1>1, <1>2, CurType DEF LoadSucceeds, CacheInv, CacheTypeOK
  <2>7. ~UNCHANGED cacheVars
    BY <2>1 DEF cacheVars
  <2> QED
    BY <2>2, <2>3, <2>4, <2>5, <2>6, <2>7 DEF CacheNext
<1>4. pc = "unload" /\ victim = <<victim[1], victim[2]>> /\ victim[1] \in Caches
  BY <1>3, VictimType DEF Unload
<1>5. e = victim
  <2>1. loaded' = [loaded EXCEPT ![victim[1]] = @ \ {victim[2]}]
    BY <1>3, <1>4, VictimType DEF Unload
  <2>2. e[1] = victim[1] /\ e[2] = victim[2]
    BY <1>1, <1>2, <1>4, <2>1 DEF CacheInv, CacheTypeOK
  <2> QED
    BY <1>2, <1>4, <2>2
<1> QED
  BY <1>4, <1>5 DEF OrderInv

\* CacheInv holds in every reachable state, whatever the constants.
THEOREM CacheInvariant == CacheSpec => []CacheInv
  BY CacheInitInv, CacheStepInv, PTL DEF CacheSpec

\* For any number of caches and kernels, _release_lru_context closes the
\* least recently used listed context of the whole process: entries purged,
\* caches collected and calls interrupted in between do not disturb the order.
THEOREM EvictsLeastRecentlyUsed == CacheSpec => EvictsOldest
<1>1. CacheInv /\ OrderInv /\ [CacheNext]_cacheVars =>
        [pc # "idle" /\ cur' = cur =>
          \A e \in Open : (e[1] \in alive' /\ e[2] \notin loaded'[e[1]]) =>
             \A f \in Open \ ({e} \union lost) : <<e, f>> \in older]_cacheVars
  BY EvictStep
<1>2. CacheSpec => [](CacheInv /\ OrderInv)
  BY CacheInitInv, CacheStepInv, OrderInit, OrderStep, PTL DEF CacheSpec
<1> QED
  BY <1>1, <1>2, PTL DEF CacheSpec, EvictsOldest
=============================================================================
