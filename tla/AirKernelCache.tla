--------------------------- MODULE AirKernelCache ---------------------------
(***************************************************************************)
(* The hardware contexts of KernelCache                                    *)
(* (programming_examples/llms/shared/infra/cache.py): load_and_run keeps   *)
(* one XRT context open per kernel, the class-level OrderedDict _contexts  *)
(* orders the contexts of ALL caches of the process by last use, and a     *)
(* load that finds no room closes the least recently used one and tries    *)
(* again.  Other processes hold contexts of the same device, a cache may   *)
(* be garbage collected and a Ctrl-C may arrive between any two steps.     *)
(* _loaded and _contexts are updated one after the other: when a context   *)
(* is closed (Release, Unload) and when one is opened (LoadSucceeds,       *)
(* ListContext).                                                           *)
(***************************************************************************)
EXTENDS Integers, Sequences, FiniteSets

CONSTANTS
    Caches,       \* the KernelCache objects of the process
    Names,        \* kernel names
    DeviceLimit,  \* how many contexts the device holds for all processes
    Caps,         \* the values AIR_MAX_HW_CONTEXTS may have; 0: no cap
    NoContext     \* no call in progress, no entry popped

Contexts == Caches \X Names

ASSUME CacheAssumption ==
    /\ DeviceLimit \in Nat /\ Caps \subseteq Nat
    /\ IsFiniteSet(Caches) /\ IsFiniteSet(Names)
    /\ NoContext \notin Contexts

VARIABLES
    ctx,       \* KernelCache._contexts, least recently used first
    loaded,    \* loaded[c]: the keys of c._loaded
    alive,     \* the caches that have not been collected
    cap,       \* max_contexts
    pc,        \* where the call of load_and_run is
    cur,       \* the cache and kernel it is about
    back,      \* where _release_lru_context was called from
    freed,     \* its local variable
    victim,    \* the entry it has popped, while its cache is referenced
    lost,      \* history: what a Ctrl-C left in _loaded and not in _contexts
    older      \* history: <<e, f>> when e was last used before f, of the open
               \* contexts and the last call's

cacheVars == <<ctx, loaded, alive, cap, pc, cur, back, freed, victim, lost, older>>

CacheTypeOK ==
    /\ ctx \in Seq(Contexts)
    /\ loaded \in [Caches -> SUBSET Names]
    /\ alive \in SUBSET Caches
    /\ cap \in Caps
    /\ pc \in {"idle", "cap", "evict", "unload", "load", "list", "run"}
    /\ cur \in Contexts \union {NoContext}
    /\ back \in {"cap", "load"}
    /\ freed \in BOOLEAN
    /\ victim \in Contexts \union {NoContext}
    /\ lost \subseteq Contexts
    /\ older \subseteq Contexts \X Contexts

CacheInit ==
    /\ ctx = <<>> /\ older = {}
    /\ loaded = [c \in Caches |-> {}]
    /\ alive = Caches
    /\ cap \in Caps
    /\ pc = "idle" /\ cur = NoContext
    /\ back = "load" /\ freed = FALSE
    /\ victim = NoContext /\ lost = {}

\* dict.pop(key) on an ordered dictionary.
DropAt(s, i) == [j \in 1..(Len(s) - 1) |-> IF j < i THEN s[j] ELSE s[j + 1]]
Holds(s, e) == \E i \in 1..Len(s) : s[i] = e
Position(s, e) == CHOOSE i \in 1..Len(s) : s[i] = e

\* OrderedDict.move_to_end(key), or insertion of a new key.
MoveToEnd(s, e) == Append(IF Holds(s, e) THEN DropAt(s, Position(s, e)) ELSE s, e)

\* Mutant of Touch: a hit does not refresh the entry's position.
MutTouchKeeps(s, e) == s

\* A hit of load_and_run refreshes the kernel's place in the eviction order.
Touch(s, e) == MoveToEnd(s, e)

Open == {e \in Contexts : e[1] \in alive /\ e[2] \in loaded[e[1]]}

\* Whether the device can have a context left: other processes, which come
\* and go, hold an unknown number of them.
Room == Cardinality(Open) < DeviceLimit

\* The history after a use of e.
Used(e) ==
    LET others == Open \ {e}
    IN  {p \in older : p[1] \in others /\ p[2] \in others} \union {<<f, e>> : f \in others}

\* Loaded, with no entry in _contexts: move_to_end raises KeyError, and the
\* call ends there with nothing changed.
Unlisted(c, k) == k \in loaded[c] /\ ~Holds(ctx, <<c, k>>)

\* Mutant of Begin: _loaded is not looked at, every call loads.
MutBeginLoads(c, k) ==
    /\ pc = "idle" /\ c \in alive
    /\ cur' = <<c, k>>
    /\ older' = Used(<<c, k>>)
    /\ pc' = "cap"
    /\ UNCHANGED <<ctx, loaded, alive, cap, back, freed, victim, lost>>

\* load_and_run up to the first use of the backend: a hit, or a miss that
\* goes on to _load_backend.
Begin(c, k) ==
    /\ pc = "idle" /\ c \in alive /\ ~Unlisted(c, k)
    /\ cur' = <<c, k>>
    /\ older' = Used(<<c, k>>)
    /\ IF k \in loaded[c]
       THEN ctx' = Touch(ctx, <<c, k>>) /\ pc' = "run"
       ELSE ctx' = ctx /\ pc' = "cap"
    /\ UNCHANGED <<loaded, alive, cap, back, freed, victim, lost>>

EnterRelease(from) == pc' = "evict" /\ back' = from /\ freed' = FALSE

\* _release_lru_context is left, its locals go.
LeaveRelease == back' = "load" /\ freed' = FALSE

\* Mutant of AtCap: the cap is compared after the new context is counted out.
MutAtCapLate == cap > 0 /\ Len(ctx) > cap

\* while self.max_contexts and len(_contexts) >= self.max_contexts
AtCap == cap > 0 /\ Len(ctx) >= cap

KeepUnderCap ==
    /\ pc = "cap"
    /\ IF AtCap THEN EnterRelease("cap")
                ELSE pc' = "load" /\ UNCHANGED <<back, freed>>
    /\ UNCHANGED <<ctx, loaded, alive, cap, cur, victim, lost, older>>

\* One turn of the loop of _release_lru_context, up to the test of the weak
\* reference: an entry of a dead cache counts as room freed, a live cache is
\* held by a local variable from here on.
Release ==
    /\ pc = "evict" /\ ctx # <<>>
    /\ ctx' = Tail(ctx)
    /\ IF Head(ctx)[1] \in alive
       THEN victim' = Head(ctx) /\ pc' = "unload" /\ UNCHANGED freed
       ELSE freed' = TRUE /\ UNCHANGED <<victim, pc>>
    /\ UNCHANGED <<loaded, alive, cap, cur, back, lost, older>>

\* Mutant of Unload: the backend is unloaded but stays in _loaded.
MutUnloadKeepsLoaded ==
    /\ pc = "unload"
    /\ pc' = back /\ victim' = NoContext
    /\ LeaveRelease
    /\ UNCHANGED <<ctx, loaded, alive, cap, cur, lost, older>>

\* The rest of the turn: the backend leaves _loaded and is unloaded, an entry
\* without backend is skipped.  A Ctrl-C between the two drops the backend,
\* whose __del__ unloads it.
Unload ==
    /\ pc = "unload"
    /\ victim' = NoContext
    /\ LET c == victim[1]
           k == victim[2]
       IN  IF k \in loaded[c]
           THEN loaded' = [loaded EXCEPT ![c] = @ \ {k}] /\ pc' = back /\ LeaveRelease
           ELSE pc' = "evict" /\ UNCHANGED <<loaded, back, freed>>
    /\ UNCHANGED <<ctx, alive, cap, cur, lost, older>>

\* Nothing is left to release: the cap loop stops unless something was
\* freed, the load loop tries again whatever the result.
ReleaseNothing ==
    /\ pc = "evict" /\ ctx = <<>>
    /\ pc' = IF back = "cap" /\ ~freed THEN "load" ELSE back
    /\ LeaveRelease
    /\ UNCHANGED <<ctx, loaded, alive, cap, cur, victim, lost, older>>

\* backend.load succeeds and the backend is recorded in _loaded.
LoadSucceeds ==
    /\ pc = "load" /\ Room
    /\ loaded' = [loaded EXCEPT ![cur[1]] = @ \union {cur[2]}]
    /\ pc' = "list"
    /\ UNCHANGED <<ctx, alive, cap, cur, back, freed, victim, lost, older>>

\* Its entry is added to _contexts.
ListContext ==
    /\ pc = "list"
    /\ ctx' = Append(ctx, cur)
    /\ pc' = "run"
    /\ UNCHANGED <<loaded, alive, cap, cur, back, freed, victim, lost, older>>

\* Mutant of LoadFails: the exception is swallowed and the loop left.
MutLoadFailsBreaks ==
    /\ pc = "load" /\ ctx # <<>>
    /\ pc' = "run"
    /\ UNCHANGED <<ctx, loaded, alive, cap, cur, back, freed, victim, lost, older>>

\* Mutant of LoadFails: the load is tried again without making room.
MutLoadFailsRetries ==
    /\ pc = "load" /\ ctx # <<>>
    /\ UNCHANGED cacheVars

\* backend.load raises (the device has no context left, or the binary is
\* broken) and another context can be given up for it.
LoadFails ==
    /\ pc = "load" /\ ctx # <<>>
    /\ EnterRelease("load")
    /\ UNCHANGED <<ctx, loaded, alive, cap, cur, victim, lost, older>>

\* backend.load raises with no context left to give up: so does the call.
LoadRaises ==
    /\ pc = "load" /\ ctx = <<>>
    /\ pc' = "idle" /\ cur' = NoContext
    /\ UNCHANGED <<ctx, loaded, alive, cap, back, freed, victim, lost, older>>

\* The kernel has run and its outputs are read back.
Return ==
    /\ pc = "run"
    /\ pc' = "idle" /\ cur' = NoContext
    /\ UNCHANGED <<ctx, loaded, alive, cap, back, freed, victim, lost, older>>

\* What is loaded but not listed for the moment: the entry popped and not
\* yet unloaded, the backend recorded and not yet listed.
Between == IF pc = "unload" THEN {victim} ELSE IF pc = "list" THEN {cur} ELSE {}

\* A KeyboardInterrupt leaves load_and_run; repl_loop catches it.
Interrupt ==
    /\ pc # "idle"
    /\ pc' = "idle" /\ cur' = NoContext
    /\ victim' = NoContext /\ LeaveRelease
    /\ lost' = lost \union Between
    /\ UNCHANGED <<ctx, loaded, alive, cap, older>>

\* A cache nobody refers to is collected, its backends with it.
Collect(c) ==
    /\ c \in alive /\ (pc # "idle" => cur[1] # c) /\ (pc = "unload" => victim[1] # c)
    /\ alive' = alive \ {c}
    /\ loaded' = [loaded EXCEPT ![c] = {}]
    /\ lost' = {e \in lost : e[1] # c}
    /\ UNCHANGED <<ctx, cap, pc, cur, back, freed, victim, older>>

\* The weakref callback of an entry whose cache is gone.
Purge ==
    /\ \E i \in 1..Len(ctx) : ctx[i][1] \notin alive /\ ctx' = DropAt(ctx, i)
    /\ UNCHANGED <<loaded, alive, cap, pc, cur, back, freed, victim, lost, older>>

\* The process ends, with its contexts and class variables; a new one starts.
Restart ==
    /\ ctx' = <<>> /\ older' = {}
    /\ loaded' = [c \in Caches |-> {}]
    /\ alive' = Caches
    /\ cap' \in Caps
    /\ pc' = "idle" /\ cur' = NoContext
    /\ back' = "load" /\ freed' = FALSE
    /\ victim' = NoContext /\ lost' = {}

CacheNext ==
    \/ \E c \in Caches, k \in Names : Begin(c, k)
    \/ KeepUnderCap \/ Release \/ Unload \/ ReleaseNothing
    \/ LoadSucceeds \/ ListContext \/ LoadFails \/ LoadRaises
    \/ Return \/ Interrupt
    \/ \E c \in Caches : Collect(c)
    \/ Purge \/ Restart

CacheSpec == CacheInit /\ [][CacheNext]_cacheVars

-----------------------------------------------------------------------------
\* _contexts lists the open contexts of the caches that live, each once,
\* and no other: otherwise a hit raises KeyError in move_to_end, or an open
\* context can never be evicted.  The code breaks this only by a Ctrl-C
\* between its two updates, and for good: what was lost that way stays loaded
\* and unlisted as long as its cache lives.
ContextsAgree ==
    /\ \A i, j \in 1..Len(ctx) : ctx[i] = ctx[j] => i = j
    /\ \A c \in alive : \A k \in Names :
          k \in loaded[c] <=> Holds(ctx, <<c, k>>) \/ <<c, k>> \in lost \union Between
    /\ \A e \in lost \union Between : e[1] \in alive /\ ~Holds(ctx, e)
    /\ \A c \in Caches \ alive : loaded[c] = {}

\* AIR_MAX_HW_CONTEXTS bounds the entries of _contexts, those of collected
\* caches included; a context a Ctrl-C made unlisted is not counted.
Capped == cap > 0 => Len(ctx) <= cap

\* The kernel about to be launched still has its context: unload() would
\* have set backend.kernel to None.
Launchable == pc = "run" => cur \in Open

\* What a call that is not idle knows of its kernel and of the room it made.
CallInv ==
    /\ pc = "idle" <=> cur = NoContext
    /\ pc # "idle" => cur[1] \in alive
    /\ pc \in {"cap", "evict", "unload", "load"} => cur \notin Open
    /\ cap > 0 /\ (pc \in {"load", "list"} \/ (pc \in {"evict", "unload"} /\ back = "load"))
          => Len(ctx) < cap
    /\ pc = "unload" <=> victim # NoContext
    /\ lost \intersect Between = {}

\* The inductive invariant of the proofs.
CacheInv == CacheTypeOK /\ ContextsAgree /\ Capped /\ Launchable /\ CallInv

\* A context closed to make room is the least recently used of all the
\* listed contexts of the process (_release_lru_context).
EvictsOldest ==
    [][pc # "idle" /\ cur' = cur =>
         \A e \in Open : (e[1] \in alive' /\ e[2] \notin loaded'[e[1]]) =>
             \A f \in Open \ ({e} \union lost) : <<e, f>> \in older]_cacheVars
=============================================================================
