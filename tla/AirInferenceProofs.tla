------------------------- MODULE AirInferenceProofs -------------------------
(***************************************************************************)
(* Proofs about AirInference, for any number of layers, requests, tokens,  *)
(* caches and kernels: an inference session is a behaviour of each of the  *)
(* two components it is composed of, so what is proved of the hardware     *)
(* contexts and of the kernels on disk holds inside it.                    *)
(***************************************************************************)
EXTENDS AirInference, AirKernelCacheProofs, AirKernelStoreProofs, FiniteSetTheorems

\* Opening the caches, the disk and the toolchain.
LEMMA StoreSide == ASSUME [Next]_vars PROVE [StoreNext]_storeVars
<1>1. CASE OpenCaches
  BY <1>1 DEF OpenCaches, StoreNext
<1>2. CASE OpenFails \/ StartApp \/ DisturbStore
  BY <1>2 DEF OpenFails, StartApp, DisturbStore, StoreNext
<1>3. CASE Die \/ DispatchFails \/ LoadDies
  BY <1>3 DEF Die, DispatchFails, LoadDies, StoreNext
<1>4. CASE BeginWork \/ Dispatch \/ UseOther \/ OtherReturns
  BY <1>4 DEF BeginWork, Dispatch, UseOther, OtherReturns
<1>5. CASE MakeRoom \/ Evict \/ CloseContext \/ LoadKernel \/ ListKernel
  BY <1>5 DEF MakeRoom, Evict, CloseContext, LoadKernel, ListKernel
<1>6. CASE Bind \/ WriteInputs
  BY <1>6 DEF Bind, WriteInputs
<1>7. CASE Launch
  BY <1>7 DEF Launch
<1>8. CASE CtrlC \/ CollectOther \/ Warmup \/ \E t \in {"prefill", "chain", "cpu"} : Request(t)
  BY <1>8 DEF CtrlC, CollectOther, Warmup, Request
<1>9. CASE UNCHANGED vars
  BY <1>9 DEF vars
<1> QED
  BY <1>1, <1>2, <1>3, <1>4, <1>5, <1>6, <1>7, <1>8, <1>9 DEF Next, Work

-----------------------------------------------------------------------------
\* The program counter of a task points at one of its calls, and a call of
\* the program's caches is in progress only inside a task.
TaskInv ==
    /\ task \in Tasks \union {"idle", "down"}
    /\ ip \in Nat \ {0}
    /\ task \in Tasks => ip <= Len(Program(task))
    /\ task \in {"idle", "down"} => ip = 1
    /\ pc # "idle" /\ cur[1] # "other" => task \in Tasks
    /\ dstep # "bind" => task \in Tasks

LEMMA TaskInit == Init => TaskInv
  BY DEF Init, SessionInit, CacheInit, TaskInv, Tasks

\* Launch is the only step that moves on: to the next call, or to the first
\* one of the next task.
LEMMA LaunchTask == ASSUME TaskInv, Launch PROVE TaskInv'
<1>1. \/ ip # Len(Program(task)) /\ ip' = ip + 1 /\ task' = task
      \/ task' = "idle" /\ ip' = 1
      \/ task' = "decode" /\ ip' = 1
  BY DEF Launch, Finish, GoIdle
<1>0. pc' = "idle" /\ dstep' = "bind"
  BY DEF Launch, Return
<1>2. task \in Tasks /\ Len(Program(task)) \in Nat /\ Len(Program("decode")) \in Nat \ {0}
  BY ProgramsValid DEF Tasks, Launch, TaskInv
<1>3. CASE ip # Len(Program(task)) /\ ip' = ip + 1 /\ task' = task
  <2>1. Program(task)' = Program(task)
    BY <1>3 DEF Program
  <2> HIDE DEF Program
  <2> QED
    BY <1>0, <1>2, <1>3, <2>1 DEF TaskInv, Tasks
<1>4. CASE task' = "idle" /\ ip' = 1
  BY <1>0, <1>4 DEF TaskInv, Tasks
<1>5. CASE task' = "decode" /\ ip' = 1
  BY <1>0, <1>2, <1>5 DEF TaskInv, Tasks
<1> QED
  BY <1>1, <1>3, <1>4, <1>5

\* A step that stays at the same call.
LEMMA SameTask ==
    ASSUME TaskInv, task' = task, ip' = ip, dstep' = "bind" \/ task \in Tasks,
           pc' # "idle" /\ cur'[1] # "other" => task \in Tasks
    PROVE  TaskInv'
<1>1. Program(task)' = Program(task)
  BY DEF Program
<1> HIDE DEF Program
<1> QED
  BY <1>1 DEF TaskInv, Tasks

\* The process ends.
LEMMA DieTask == ASSUME Die PROVE TaskInv'
  BY DEF Die, SessionEnds, Restart, TaskInv, Tasks

LEMMA TaskStep == ASSUME TaskInv, [Next]_vars PROVE TaskInv'
<1> USE DEF sessionVars, cacheVars
<1>0. \A t \in Tasks : Len(Program(t)) \in Nat \ {0}
  BY ProgramsValid
<1>1. CASE OpenCaches \/ OpenFails \/ StartApp \/ DisturbStore
  BY <1>1, SameTask DEF OpenCaches, OpenFails, StartApp, DisturbStore, TaskInv
<1>2. CASE Die \/ DispatchFails \/ LoadDies
  BY <1>2, DieTask DEF DispatchFails, LoadDies
<1>3. CASE BeginWork
  <2>1. /\ ip' = ip /\ ip = 1 /\ task' \in {"prepare", "idle"} /\ UNCHANGED <<pc, cur, dstep>>
        /\ task = "down"
    BY <1>3 DEF BeginWork, TaskInv
  <2>2. task' \in Tasks => Len(Program(task')) \in Nat \ {0}
    BY <1>0
  <2> HIDE DEF Program
  <2> QED
    BY <2>1, <2>2 DEF TaskInv, Tasks
<1>4. CASE Warmup \/ \E t \in {"prefill", "chain", "cpu"} : Request(t)
  <2>1. /\ ip' = ip /\ ip = 1 /\ task' \in {"prefill", "chain", "cpu"}
        /\ UNCHANGED <<pc, cur, dstep>>
    BY <1>4 DEF Warmup, Request, TaskInv
  <2>2. task' \in Tasks /\ Len(Program(task')) \in Nat \ {0}
    BY <1>0, <2>1 DEF Tasks
  <2> QED
    BY <2>1, <2>2 DEF TaskInv, Tasks
<1>5. CASE Dispatch
  <2>1. task \in Tasks
    BY <1>5 DEF Dispatch, TaskInv
  <2> QED
    BY <1>5, <2>1, SameTask DEF Dispatch
<1>6. CASE UseOther
  <2>1. cur'[1] = "other" /\ task' = task /\ ip' = ip /\ dstep' = dstep
    BY <1>6 DEF UseOther, Begin
  <2> QED
    BY <2>1, SameTask DEF TaskInv
<1>7. CASE OtherReturns
  BY <1>7, SameTask DEF OtherReturns, Return, TaskInv
<1>8. CASE MakeRoom
  BY <1>8, SameTask
     DEF MakeRoom, KeepUnderCap, ReleaseNothing, LoadFails, EnterRelease, TaskInv
<1>9. CASE Evict
  BY <1>9, SameTask DEF Evict, Release, TaskInv
<1>10. CASE LoadKernel \/ ListKernel
  BY <1>10, SameTask DEF LoadKernel, LoadSucceeds, ListKernel, ListContext, TaskInv
<1>11. CASE Bind
  BY <1>11, SameTask DEF Bind, TaskInv
<1>12. CASE WriteInputs
  BY <1>12, SameTask DEF WriteInputs, TaskInv
<1>13. CASE Launch
  BY <1>13, LaunchTask
<1>14. CASE CtrlC
  <2>1. task' = "idle" /\ ip' = 1 /\ dstep' = "bind" /\ pc' = "idle"
    BY <1>14 DEF CtrlC, GoIdle, Interrupt
  <2> QED
    BY <2>1 DEF TaskInv, Tasks
<1>15. CASE CollectOther
  BY <1>15, SameTask DEF CollectOther, Collect, Purge, TaskInv
<1>16. CASE UNCHANGED vars
  BY <1>16, SameTask DEF vars, TaskInv
<1>17. CASE CloseContext
  <2>1. UNCHANGED <<task, ip, dstep, cur>> /\ pc # "idle"
    BY <1>17 DEF CloseContext, Unload
  <2> QED
    BY <2>1, SameTask DEF TaskInv
<1> QED
  BY <1>1, <1>2, <1>3, <1>4, <1>5, <1>6, <1>7, <1>8, <1>9, <1>10, <1>11, <1>12,
     <1>13, <1>14, <1>15, <1>16, <1>17 DEF Next, Work

-----------------------------------------------------------------------------
\* The hardware contexts: the kernel a task calls is one of its cache's.
LEMMA CacheSide == ASSUME TaskInv, [Next]_vars PROVE [CacheNext]_cacheVars
<1>1. CASE OpenCaches \/ OpenFails \/ StartApp \/ DisturbStore
  BY <1>1 DEF OpenCaches, OpenFails, StartApp, DisturbStore
<1>2. CASE Die \/ DispatchFails \/ LoadDies
  BY <1>2 DEF DispatchFails, LoadDies, Die, CacheNext
<1>3. CASE BeginWork \/ Warmup \/ \E t \in {"prefill", "chain", "cpu"} : Request(t)
  BY <1>3 DEF BeginWork, Warmup, Request
<1>4. CASE Dispatch
  <2>1. task \in Tasks /\ ip \in 1..Len(Program(task))
    BY <1>4, ProgramsValid DEF Dispatch, TaskInv
  <2>2. Now.c \in Caches /\ Now.k \in Names
    BY <2>1, ProgramsValid, SessionAssumption DEF Now
  <2>3. Begin(Now.c, Now.k)
    BY <1>4 DEF Dispatch
  <2> QED
    BY <2>2, <2>3 DEF CacheNext
<1>5. CASE UseOther
  <2>1. "other" \in Caches /\ "side" \in Names
    BY SessionAssumption DEF Contexts
  <2> QED
    BY <1>5, <2>1 DEF UseOther, CacheNext
<1>6. CASE OtherReturns \/ MakeRoom \/ Evict \/ CloseContext \/ LoadKernel \/ ListKernel
  BY <1>6 DEF OtherReturns, MakeRoom, Evict, CloseContext, LoadKernel, ListKernel, CacheNext
<1>7. CASE Bind \/ WriteInputs
  BY <1>7 DEF Bind, WriteInputs
<1>8. CASE Launch
  BY <1>8 DEF Launch, CacheNext
<1>9. CASE CtrlC
  BY <1>9 DEF CtrlC, CacheNext
<1>10. CASE CollectOther
  <2>1. "other" \in Caches
    BY SessionAssumption DEF Contexts
  <2> QED
    BY <1>10, <2>1 DEF CollectOther, CacheNext
<1>11. CASE UNCHANGED vars
  BY <1>11 DEF vars
<1> QED
  BY <1>1, <1>2, <1>3, <1>4, <1>5, <1>6, <1>7, <1>8, <1>9, <1>10, <1>11
     DEF Next, Work

\* An inference session uses its hardware contexts as KernelCache lets any
\* program use them: whatever is proved of CacheSpec holds of the sessions of
\* the Llama and SmolVLA programs.
THEOREM SessionRefinesCache == Spec => CacheSpec
<1>1. Spec => []TaskInv
  <2>1. TaskInv /\ [Next]_vars => TaskInv'
    BY TaskStep
  <2> QED
    BY <2>1, TaskInit, PTL DEF Spec
<1>2. TaskInv /\ [Next]_vars => [CacheNext]_cacheVars
  BY CacheSide
<1>3. Init => CacheInit
  BY DEF Init
<1> QED
  BY <1>1, <1>2, <1>3, PTL DEF Spec, CacheSpec

\* And its binaries as KernelCache lets any program use them.
THEOREM SessionRefinesStore == Spec => StoreSpec
<1>1. [Next]_vars => [StoreNext]_storeVars
  BY StoreSide
<1>2. Init => StoreInit
  BY DEF Init
<1> QED
  BY <1>1, <1>2, PTL DEF Spec, StoreSpec

\* Inside a session of any length: the list of contexts agrees with the loaded
\* backends but for what a Ctrl-C left between their two updates, the cap
\* holds and every launched kernel has its context.
THEOREM SessionContexts == Spec => []CacheInv
  BY SessionRefinesCache, CacheInvariant, PTL

\* Inside a session the least recently used listed context of the process
\* goes first, the contexts of the other caches included.
THEOREM SessionEvictsOldest == Spec => EvictsOldest
  BY SessionRefinesCache, EvictsLeastRecentlyUsed, PTL

\* A session never launches a kernel that another toolchain compiled.
THEOREM SessionServesFresh == ASSUME ~Rollback PROVE Spec => []ServesFresh
  BY SessionRefinesStore, ServedKernelsFresh, PTL

-----------------------------------------------------------------------------
(* Where the two components meet: which binary an open context runs.       *)

\* Contexts are used only while the process is up, and the kernel being
\* loaded or run is one load_manifest or compile_and_cache recorded.
MeetInv ==
    /\ proc # "up" => task = "down" /\ pc = "idle" /\ Open = {}
    /\ (pc # "idle" /\ cur[1] \in Dirs) => cur[2] \in artifacts[cur[1]]

MeetAll == CacheInv /\ StoreInv /\ TaskInv /\ MeetInv /\ OpenFresh

LEMMA MeetInit == Init => MeetInv /\ OpenFresh
<1> SUFFICES ASSUME Init PROVE MeetInv /\ OpenFresh
  OBVIOUS
<1>1. Open = {}
  BY DEF Init, CacheInit, Open, Contexts
<1>2. task = "down" /\ pc = "idle"
  BY DEF Init, CacheInit, SessionInit
<1> QED
  BY <1>1, <1>2 DEF MeetInv, OpenFresh

\* The process is gone: no context is open.
LEMMA DieMeets == ASSUME Die PROVE MeetInv' /\ OpenFresh'
<1>1. Open' = {}
  BY DEF Die, Restart, Open, Contexts
<1>2. task' = "down" /\ pc' = "idle"
  BY DEF Die, Restart, SessionEnds
<1> QED
  BY <1>1, <1>2 DEF MeetInv, OpenFresh

\* While a process is up nothing touches its binaries.
LEMMA OpenKept ==
    ASSUME OpenFresh, UNCHANGED storeVars, Open' \subseteq Open PROVE OpenFresh'
  BY DEF OpenFresh, storeVars

LEMMA StoreStepMeets ==
    ASSUME MeetInv, OpenFresh, UNCHANGED <<cacheVars, sessionVars>>, proc # "up"
    PROVE  MeetInv' /\ OpenFresh'
<1>1. Open' = Open /\ Open = {} /\ task' = "down" /\ pc' = "idle"
  BY DEF MeetInv, Open, cacheVars, sessionVars
<1> QED
  BY <1>1 DEF MeetInv, OpenFresh

\* A step of the contexts that opens none and keeps its call.
LEMMA CallStepMeets ==
    ASSUME MeetInv, OpenFresh, UNCHANGED storeVars, Open' \subseteq Open,
           task' = task \/ proc = "up",
           pc' = "idle" \/ (pc # "idle" /\ cur' = cur)
    PROVE  MeetInv' /\ OpenFresh'
<1>1. OpenFresh'
  BY OpenKept
<1>2. MeetInv'
  BY DEF MeetInv, storeVars
<1> QED
  BY <1>1, <1>2

LEMMA MeetStep ==
    ASSUME MeetAll, [Next]_vars PROVE MeetInv' /\ OpenFresh'
<1> USE DEF MeetAll
<1>1. CASE OpenCaches \/ OpenFails \/ StartApp \/ DisturbStore
  <2>1. proc # "up" /\ UNCHANGED <<cacheVars, sessionVars>>
    BY <1>1 DEF OpenCaches, OpenFails, StartApp, DisturbStore, OpenRunOnly, OpenReuse,
       OpenCompile, CopyBegin, CopyEnd, SaveBegin, SaveEnd, OpenRaises, Start, Switch,
       DeleteBinary
  <2> QED
    BY <2>1, StoreStepMeets
<1>2. CASE Die \/ DispatchFails \/ LoadDies
  BY <1>2, DieMeets DEF DispatchFails, LoadDies
<1>3. CASE BeginWork \/ Warmup \/ \E t \in {"prefill", "chain", "cpu"} : Request(t)
  <2>1. proc = "up" /\ UNCHANGED <<cacheVars, storeVars>>
    BY <1>3 DEF BeginWork, Warmup, Request, MeetInv
  <2>2. Open' = Open
    BY <2>1 DEF Open, cacheVars
  <2> QED
    BY <2>1, <2>2, CallStepMeets DEF cacheVars, MeetInv
<1>4. CASE Dispatch
  <2>1. proc = "up" /\ UNCHANGED storeVars
    BY <1>4 DEF Dispatch, MeetInv
  <2>2. Open' = Open /\ cur' = <<Now.c, Now.k>> /\ Now.k \in artifacts[Now.c]
    BY <1>4 DEF Dispatch, Begin, Open
  <2>3. OpenFresh'
    BY <2>1, <2>2, OpenKept
  <2> HIDE DEF Now
  <2> QED
    BY <2>1, <2>2, <2>3 DEF MeetInv, storeVars
<1>5. CASE UseOther
  <2>1. proc = "up" /\ UNCHANGED storeVars
    BY <1>5 DEF UseOther, MeetInv
  <2>2. Open' = Open /\ cur'[1] = "other"
    BY <1>5 DEF UseOther, Begin, Open
  <2>3. OpenFresh'
    BY <2>1, <2>2, OpenKept
  <2> QED
    BY <2>1, <2>2, <2>3, SessionAssumption DEF MeetInv, storeVars
<1>6. CASE MakeRoom
  <2>1. UNCHANGED <<storeVars, sessionVars, cur>> /\ pc # "idle"
    BY <1>6 DEF MakeRoom, KeepUnderCap, ReleaseNothing, LoadFails
  <2>2. Open' = Open
    BY <1>6 DEF MakeRoom, KeepUnderCap, ReleaseNothing, LoadFails, Open
  <2> QED
    BY <2>1, <2>2, CallStepMeets DEF sessionVars
<1>7. CASE Evict \/ ListKernel
  <2>1. UNCHANGED <<storeVars, task, cur>> /\ pc # "idle"
    BY <1>7 DEF Evict, Release, ListKernel, ListContext, sessionVars
  <2>2. Open' = Open
    BY <1>7 DEF Evict, Release, ListKernel, ListContext, Open
  <2> QED
    BY <2>1, <2>2, CallStepMeets
<1>14. CASE CloseContext
  <2>1. UNCHANGED <<storeVars, task, cur, alive>> /\ pc # "idle" /\ Unload
    BY <1>14 DEF CloseContext, Unload
  <2>2. Open' \subseteq Open
    <3>1. \A c \in Caches : loaded'[c] \subseteq loaded[c]
      BY <2>1, VictimType DEF Unload, CacheInv, CacheTypeOK
    <3> QED
      BY <2>1, <3>1, FewerOpen DEF CacheInv, CacheTypeOK
  <2> QED
    BY <2>1, <2>2, CallStepMeets
<1>8. CASE LoadKernel
  <2>1. UNCHANGED <<storeVars, sessionVars, cur>> /\ LoadSucceeds /\ Intact(cur) /\ pc # "idle"
    BY <1>8 DEF LoadKernel, LoadSucceeds
  <2>2. cur \in Contexts /\ proc = "up"
    BY <2>1 DEF CacheInv, CacheTypeOK, CallInv, MeetInv
  <2>3. \A e \in Open' : e = cur \/ e \in Open
    <3>1. /\ alive' = alive
          /\ loaded' = [loaded EXCEPT ![cur[1]] = @ \union {cur[2]}]
      BY <2>1 DEF LoadSucceeds
    <3>2. cur = <<cur[1], cur[2]>> /\ \A e \in Contexts : e = <<e[1], e[2]>> /\ e[1] \in Caches
      BY <2>2 DEF Contexts
    <3>3. ASSUME NEW e \in Open', e # cur PROVE e \in Open
      <4>1. e \in Contexts /\ e[1] \in alive /\ e[2] \in loaded'[e[1]]
        BY <3>1, <3>3 DEF Open
      <4>2. e[1] # cur[1] \/ e[2] # cur[2]
        BY <3>2, <3>3, <4>1
      <4>3. e[2] \in loaded[e[1]]
        BY <3>1, <3>2, <4>1, <4>2 DEF CacheInv, CacheTypeOK
      <4> QED
        BY <4>1, <4>3 DEF Open
    <3> QED
      BY <3>3
  <2>4. cur[1] \in Dirs => bin[cur[1]][cur[2]] = tool
    <3> SUFFICES ASSUME cur[1] \in Dirs PROVE bin[cur[1]][cur[2]] = tool
      OBVIOUS
    <3>1. cur[2] \in artifacts[cur[1]]
      BY <2>1 DEF MeetInv
    <3>2. bin[cur[1]][cur[2]] \in {Torn, tool}
      BY <2>2, <3>1 DEF StoreInv, Current
    <3> QED
      BY <2>1, <3>2 DEF Intact, Torn
  <2>5. OpenFresh'
    BY <2>1, <2>3, <2>4 DEF OpenFresh, storeVars
  <2> QED
    BY <2>1, <2>2, <2>5 DEF MeetInv, storeVars, sessionVars
<1>9. CASE OtherReturns \/ Launch
  <2>1. UNCHANGED storeVars /\ Return /\ proc = "up"
    BY <1>9 DEF OtherReturns, Launch, Return, MeetInv
  <2>2. Open' = Open /\ pc' = "idle"
    BY <2>1 DEF Return, Open
  <2> QED
    BY <2>1, <2>2, CallStepMeets
<1>10. CASE Bind \/ WriteInputs
  <2>1. UNCHANGED <<cacheVars, storeVars, task>>
    BY <1>10 DEF Bind, WriteInputs
  <2>2. Open' = Open
    BY <2>1 DEF Open, cacheVars
  <2> QED
    BY <2>1, <2>2, CallStepMeets DEF cacheVars
<1>11. CASE CtrlC
  <2>1. UNCHANGED storeVars /\ proc = "up" /\ pc' = "idle"
    BY <1>11 DEF CtrlC, Interrupt, MeetInv, cacheVars
  <2>2. Open' = Open
    BY <1>11 DEF CtrlC, Interrupt, Open, cacheVars
  <2> QED
    BY <2>1, <2>2, CallStepMeets
<1>12. CASE CollectOther
  <2>1. UNCHANGED <<storeVars, sessionVars, pc, cur>> /\ proc = "up"
    BY <1>12 DEF CollectOther, Collect, Purge
  <2>2. Open' \subseteq Open
    <3>1. CASE Collect("other")
      <4>1. "other" \in Caches
        BY SessionAssumption DEF Contexts
      <4> QED
        BY <3>1, <4>1 DEF Collect, Open, CacheInv, CacheTypeOK, Contexts
    <3>2. CASE Purge
      BY <3>2 DEF Purge, Open
    <3> QED
      BY <1>12, <3>1, <3>2 DEF CollectOther
  <2> QED
    BY <2>1, <2>2, CallStepMeets DEF sessionVars
<1>13. CASE UNCHANGED vars
  <2>1. Open' = Open /\ UNCHANGED <<storeVars, sessionVars, pc, cur>>
    BY <1>13 DEF vars, cacheVars, Open
  <2> QED
    BY <2>1, CallStepMeets DEF sessionVars
<1> QED
  BY <1>1, <1>2, <1>3, <1>4, <1>5, <1>6, <1>7, <1>8, <1>9, <1>10, <1>11, <1>12, <1>13, <1>14
     DEF Next, Work

\* In a session every open context of the program's caches runs a whole
\* binary that the toolchain in use compiled, whatever was deleted, torn by a
\* crash or left by an older toolchain before it was loaded (load_manifest,
\* _load_backend).
THEOREM SessionOpensFresh == ASSUME ~Rollback PROVE Spec => []OpenFresh
<1>1. Init => MeetAll
  BY CacheInitInv, StoreInitInv, TaskInit, MeetInit DEF Init, MeetAll
<1>2. MeetAll /\ [Next]_vars => MeetAll'
  <2> SUFFICES ASSUME MeetAll, [Next]_vars PROVE MeetAll'
    OBVIOUS
  <2>1. [CacheNext]_cacheVars /\ [StoreNext]_storeVars
    BY CacheSide, StoreSide DEF MeetAll
  <2>2. CacheInv' /\ StoreInv' /\ TaskInv'
    BY <2>1, CacheStepInv, StoreStepInv, TaskStep DEF MeetAll
  <2> QED
    BY <2>2, MeetStep DEF MeetAll
<1>3. MeetAll => OpenFresh
  BY DEF MeetAll
<1> QED
  BY <1>1, <1>2, <1>3, PTL DEF Spec

-----------------------------------------------------------------------------
(* The data: what every buffer and host array holds at every point of a    *)
(* task.                                                                   *)

Pool(k, i) == <<"prefill", "pool", k, 0, i>>
Own(c, k, l, i) == <<c, "own", k, l, i>>
Alias(p) == <<"vision", "alias", p, 0, 0>>

\* The place of the weights among the arguments of kernel k; 0: none.
Slot(k) == CASE k = "flash_attn" -> 0 [] k = "o_gemv_ffn" -> 1 [] OTHER -> 2

\* The BOs of key q, whichever call binds it.
Layout(q) ==
    LET own(i) == Own(q[1], q[2], q[3], i)
        pool(i) == Pool(q[2], i)
    IN  CASE q[2] = "rms_gemms_rope" -> <<pool(1), own(2), pool(3)>>
          [] q[2] = "o_ffn" -> <<pool(1), own(2), pool(3), pool(4)>>
          [] q[2] = "o_gemv_ffn" -> <<own(1), own(2), own(3), own(4)>>
          [] q[2] = "vit_ln_qkv" -> <<Alias(XPool(q[3] - 1)), own(2), Alias("vit_qkv")>>
          [] q[2] = "vit_o_ffn" ->
                <<Alias("vit_attn"), own(2), Alias(XPool(q[3] - 1)), Alias(XPool(q[3]))>>
          [] q = <<"vision", "flash_attn", 0>> -> <<Alias("vit_qkv"), Alias("vit_attn")>>
          [] q = <<"prefill", "flash_attn", 0>> -> <<own(1), own(2)>>
          [] OTHER -> <<own(1), own(2), own(3)>>

\* Key q is that of a call of the programs.
IsKey(q) == \E t \in Tasks : \E j \in 1..Len(Program(t)) : q = Key(Program(t)[j])

\* A key is bound to its own BOs, and they are there.
BindInv ==
    /\ \A q \in DOMAIN bos :
          /\ IsKey(q) /\ DOMAIN bos[q] = DOMAIN Layout(q)
          /\ \A i \in DOMAIN Layout(q) :
                bos[q][i] = Layout(q)[i] /\ Layout(q)[i] \in DOMAIN mem
    /\ dstep # "bind" => Key(Now) \in DOMAIN bos

\* The first n calls of task t have bound their keys.
Bound(t, n) == \A j \in 1..n : Key(Program(t)[j]) \in DOMAIN bos

\* The preload binds every key with weights before the first prompt, and the
\* first chained image before any image takes the host-attention path.
ReadyInv ==
    /\ task \in {"prepare", "prefill", "decode"} => app = "llama"
    /\ task \in {"chain", "cpu"} => app # "llama"
    /\ task \in {"prepare", "chain"} => Bound(task, ip - 1)
    /\ task \in {"idle", "prefill", "decode"} /\ app = "llama" =>
          Bound("prepare", Len(Program("prepare")))
    /\ app # "llama" /\ warmed => Bound("chain", Len(Program("chain")))
    /\ task = "cpu" => warmed

\* The host weights of a kernel are freed only once all its keys are bound.
DropInv ==
    /\ \A t \in Tasks : \A j \in 1..Len(Program(t)) :
          Program(t)[j].k \in dropped => Key(Program(t)[j]) \in DOMAIN bos
    /\ dstep = "first" => Now.k \notin dropped

\* Every bound key holds its own weights, but while its first call writes them;
\* that call is never one that Ctrl-C can end and survive.
WeightInv ==
    /\ \A q \in DOMAIN bos :
          Slot(q[2]) # 0 /\ ~(dstep = "first" /\ q = Key(Now)) =>
              mem[Layout(q)[Slot(q[2])]] = WeightOf(q[2], q[3])
    /\ dstep = "first" /\ task \in {"prefill", "decode"} => Slot(Now.k) = 0

V(stage, l) == <<stage, req, tok, l>>
At(b, v) == b \in DOMAIN mem /\ mem[b] = v
Launching(b, v) == dstep = "launch" => At(b, v)
\* Array r is a view of b, which holds v.
Shows(r, b, v) == regs[r] = View(b) /\ At(b, v)

\* K and V of every position so far, in the first l layers that of this token.
Cached(l, n) == [t \in 1..n |-> <<"qkv", req, t - 1, l>>]
KvDone(l) == [k \in 1..NLayers |-> Cached(k, IF k <= l THEN tok + 1 ELSE tok)]

\* The input of layer l + 1 in run_npu_prefill and in the host-attention vision
\* path: the caller's array, then a view of the output of layer l.
LayerInput(l, b) == IF l = 0 THEN regs["x"] = Val(V("x", 0)) ELSE Shows("x", b, V("x", l))

PrefillAt(l) ==
    /\ ip \in {3*l - 2, 3*l - 1, 3*l} => LayerInput(l - 1, Pool("o_ffn", 4)) /\ kv = KvDone(l - 1)
    /\ ip \in {3*l - 1, 3*l} => Shows("qkv", Pool("rms_gemms_rope", 3), V("qkv", l))
    /\ ip = 3*l => Shows("attn", Own("prefill", "flash_attn", 0, 2), V("attn", l))
    /\ ip = 3*l - 2 => Launching(Pool("rms_gemms_rope", 1), V("x", l - 1))
    /\ ip = 3*l - 1 => Launching(Own("prefill", "flash_attn", 0, 1), V("qkv", l))
    /\ ip = 3*l => /\ Launching(Pool("o_ffn", 1), V("attn", l))
                   /\ Launching(Pool("o_ffn", 3), V("x", l - 1))

PrefillFlow ==
    /\ tok = 0
    /\ \A l \in 1..NLayers : PrefillAt(l)
    /\ ip = 3*NLayers + 1 =>
          /\ LayerInput(NLayers, Pool("o_ffn", 4)) /\ kv = KvDone(NLayers)
          /\ Launching(Own("decode", "lm_head_gemv", 0, 1), V("x", NLayers))

DecodeAt(l) ==
    /\ ip \in {2*l - 1, 2*l} => regs["x"] = Val(V("x", l - 1))
    /\ ip = 2*l - 1 =>
          /\ kv = KvDone(l - 1)
          /\ Launching(Own("decode", "rms_gemv_rope", l, 1), V("x", l - 1))
    /\ ip = 2*l =>
          /\ kv = KvDone(l) /\ regs["attn"] = Val(V("attn", l))
          /\ Launching(Own("decode", "o_gemv_ffn", l, 2), V("attn", l))
          /\ Launching(Own("decode", "o_gemv_ffn", l, 3), V("x", l - 1))

DecodeFlow ==
    /\ tok \in 1..MaxTokens
    /\ \A l \in 1..NLayers : DecodeAt(l)
    /\ ip = 2*NLayers + 1 =>
          /\ regs["x"] = Val(V("x", NLayers)) /\ kv = KvDone(NLayers)
          /\ Launching(Own("decode", "lm_head_gemv", 0, 1), V("x", NLayers))

\* The connector after n calls of the layers.
ConnectorAt(n) ==
    /\ ip = n + 1 => Launching(Own("vision", "layer_norm", 0, 1), V("x", NLayers))
    /\ ip = n + 2 => /\ regs["norm"] = Val(V("norm", NLayers))
                     /\ Launching(Own("vision", "gemm_connector", 0, 1), V("norm", NLayers))

ChainAt(l) ==
    /\ ip = 3*l - 2 =>
          IF l = 1 THEN regs["x"] = Val(V("x", 0)) /\ Launching(Alias(XPool(0)), V("x", 0))
                   ELSE At(Alias(XPool(l - 1)), V("x", l - 1))
    /\ ip \in {3*l - 1, 3*l} => At(Alias(XPool(l - 1)), V("x", l - 1))
    /\ ip = 3*l - 1 => At(Alias("vit_qkv"), V("qkv", l))
    /\ ip = 3*l => At(Alias("vit_attn"), V("attn", l))

ChainFlow ==
    /\ tok = 0
    /\ \A l \in 1..NLayers : ChainAt(l)
    /\ ip = 3*NLayers + 1 => regs["x"] = Val(V("x", NLayers))
    /\ ConnectorAt(3*NLayers)

CpuAt(l) ==
    /\ ip \in {2*l - 1, 2*l} =>
          /\ LayerInput(l - 1, Alias(XPool(l - 1)))
          /\ Launching(Alias(XPool(l - 1)), V("x", l - 1))
    /\ ip = 2*l => regs["attn"] = Val(V("attn", l)) /\ Launching(Alias("vit_attn"), V("attn", l))

CpuFlow ==
    /\ tok = 0
    /\ \A l \in 1..NLayers : CpuAt(l)
    /\ ip = 2*NLayers + 1 => LayerInput(NLayers, Alias(XPool(NLayers)))
    /\ ConnectorAt(2*NLayers)

FlowInv ==
    /\ task = "prefill" => PrefillFlow
    /\ task = "decode" => DecodeFlow
    /\ task = "chain" => ChainFlow
    /\ task = "cpu" => CpuFlow

RestInv ==
    /\ req \in Nat /\ tok \in Nat
    /\ DOMAIN regs = {"x", "qkv", "attn", "norm", "out"}
    /\ task = "down" => req = 0 /\ tok = 0
    /\ task \in {"idle", "down"} => kv = NoKv

-----------------------------------------------------------------------------
(* The calls of the programs.                                              *)

LEMMA ThirdsOfIndex ==
    ASSUME NEW l \in Nat \ {0}
    PROVE  /\ ((3*l - 2 - 1) \div 3) + 1 = l /\ ((3*l - 2 - 1) % 3) + 1 = 1
           /\ ((3*l - 1 - 1) \div 3) + 1 = l /\ ((3*l - 1 - 1) % 3) + 1 = 2
           /\ ((3*l - 1) \div 3) + 1 = l /\ ((3*l - 1) % 3) + 1 = 3
  OBVIOUS

LEMMA HalvesOfIndex ==
    ASSUME NEW l \in Nat \ {0}
    PROVE  /\ ((2*l - 1 - 1) \div 2) + 1 = l /\ ((2*l - 1 - 1) % 2) + 1 = 1
           /\ ((2*l - 1) \div 2) + 1 = l /\ ((2*l - 1) % 2) + 1 = 2
  OBVIOUS

\* Every place of a loop over the layers belongs to one layer.
LEMMA ThirdsCover ==
    ASSUME NEW i \in 1..(3*NLayers)
    PROVE  \E l \in 1..NLayers : i \in {3*l - 2, 3*l - 1, 3*l}
<1> DEFINE l == ((i - 1) \div 3) + 1
<1>1. l \in 1..NLayers /\ i \in {3*l - 2, 3*l - 1, 3*l}
  BY SizesAssumption
<1> QED
  BY <1>1

LEMMA HalvesCover ==
    ASSUME NEW i \in 1..(2*NLayers)
    PROVE  \E l \in 1..NLayers : i \in {2*l - 1, 2*l}
<1> DEFINE l == ((i - 1) \div 2) + 1
<1>1. l \in 1..NLayers /\ i \in {2*l - 1, 2*l}
  BY SizesAssumption
<1> QED
  BY <1>1

LEMMA PrefillCalls ==
    /\ Len(Program("prefill")) = 3*NLayers + 1
    /\ \A l \in 1..NLayers :
          /\ Program("prefill")[3*l - 2] = PrefillBlock(l)[1]
          /\ Program("prefill")[3*l - 1] = PrefillBlock(l)[2]
          /\ Program("prefill")[3*l] = PrefillBlock(l)[3]
    /\ Program("prefill")[3*NLayers + 1] = LmHead
<1> DEFINE f == Program("prefill")
<1>1. Len(<<LmHead>>) = 1 /\ <<LmHead>>[1] = LmHead
  OBVIOUS
<1>2. Len(f) = 3*NLayers + 1
  BY <1>1, SizesAssumption DEF Program, Prefill, LayersThen
<1>3. \A i \in 1..(3*NLayers) : f[i] = PrefillBlock(((i - 1) \div 3) + 1)[((i - 1) % 3) + 1]
  BY <1>1, SizesAssumption DEF Program, Prefill, LayersThen
<1>4. \A i \in 1..1 : f[3*NLayers + i] = <<LmHead>>[i]
  BY <1>1, SizesAssumption DEF Program, Prefill, LayersThen
<1> HIDE DEF f
<1>5. ASSUME NEW l \in 1..NLayers
      PROVE  /\ f[3*l - 2] = PrefillBlock(l)[1]
             /\ f[3*l - 1] = PrefillBlock(l)[2]
             /\ f[3*l] = PrefillBlock(l)[3]
  <2>1. 3*l - 2 \in 1..(3*NLayers) /\ 3*l - 1 \in 1..(3*NLayers) /\ 3*l \in 1..(3*NLayers)
    BY SizesAssumption
  <2>2. /\ f[3*l - 2] = PrefillBlock(((3*l - 2 - 1) \div 3) + 1)[((3*l - 2 - 1) % 3) + 1]
        /\ f[3*l - 1] = PrefillBlock(((3*l - 1 - 1) \div 3) + 1)[((3*l - 1 - 1) % 3) + 1]
        /\ f[3*l] = PrefillBlock(((3*l - 1) \div 3) + 1)[((3*l - 1) % 3) + 1]
    BY <1>3, <2>1
  <2>3. l \in Nat \ {0}
    BY SizesAssumption
  <2> QED
    BY <2>2, <2>3, ThirdsOfIndex
<1> QED
  BY <1>1, <1>2, <1>4, <1>5 DEF f

LEMMA DecodeCalls ==
    /\ Len(Program("decode")) = 2*NLayers + 1
    /\ \A l \in 1..NLayers :
          /\ Program("decode")[2*l - 1] = DecodeBlock(l)[1]
          /\ Program("decode")[2*l] = DecodeBlock(l)[2]
    /\ Program("decode")[2*NLayers + 1] = LmHead
<1> DEFINE f == Program("decode")
<1>1. Len(<<LmHead>>) = 1 /\ <<LmHead>>[1] = LmHead
  OBVIOUS
<1>2. Len(f) = 2*NLayers + 1
  BY <1>1, SizesAssumption DEF Program, DecodeStep, LayersThen
<1>3. \A i \in 1..(2*NLayers) : f[i] = DecodeBlock(((i - 1) \div 2) + 1)[((i - 1) % 2) + 1]
  BY <1>1, SizesAssumption DEF Program, DecodeStep, LayersThen
<1>4. \A i \in 1..1 : f[2*NLayers + i] = <<LmHead>>[i]
  BY <1>1, SizesAssumption DEF Program, DecodeStep, LayersThen
<1> HIDE DEF f
<1>5. ASSUME NEW l \in 1..NLayers
      PROVE  /\ f[2*l - 1] = DecodeBlock(l)[1]
             /\ f[2*l] = DecodeBlock(l)[2]
  <2>1. 2*l - 1 \in 1..(2*NLayers) /\ 2*l \in 1..(2*NLayers)
    BY SizesAssumption
  <2>2. /\ f[2*l - 1] = DecodeBlock(((2*l - 1 - 1) \div 2) + 1)[((2*l - 1 - 1) % 2) + 1]
        /\ f[2*l] = DecodeBlock(((2*l - 1) \div 2) + 1)[((2*l - 1) % 2) + 1]
    BY <1>3, <2>1
  <2>3. l \in Nat \ {0}
    BY SizesAssumption
  <2> QED
    BY <2>2, <2>3, HalvesOfIndex
<1> QED
  BY <1>1, <1>2, <1>4, <1>5 DEF f

LEMMA ChainCalls ==
    /\ Len(Program("chain")) = 3*NLayers + 2
    /\ \A l \in 1..NLayers :
          /\ Program("chain")[3*l - 2] = ChainBlock(l)[1]
          /\ Program("chain")[3*l - 1] = ChainBlock(l)[2]
          /\ Program("chain")[3*l] = ChainBlock(l)[3]
    /\ Program("chain")[3*NLayers + 1] = Connector[1]
    /\ Program("chain")[3*NLayers + 2] = Connector[2]
<1> DEFINE f == Program("chain")
<1>1. Len(Connector) = 2
  BY DEF Connector
<1>2. Len(f) = 3*NLayers + 2
  BY <1>1, SizesAssumption DEF Program, EncodeChained, LayersThen
<1>3. \A i \in 1..(3*NLayers) : f[i] = ChainBlock(((i - 1) \div 3) + 1)[((i - 1) % 3) + 1]
  BY <1>1, SizesAssumption DEF Program, EncodeChained, LayersThen
<1>4. \A i \in 1..2 : f[3*NLayers + i] = Connector[i]
  BY <1>1, SizesAssumption DEF Program, EncodeChained, LayersThen
<1> HIDE DEF f
<1>5. ASSUME NEW l \in 1..NLayers
      PROVE  /\ f[3*l - 2] = ChainBlock(l)[1]
             /\ f[3*l - 1] = ChainBlock(l)[2]
             /\ f[3*l] = ChainBlock(l)[3]
  <2>1. 3*l - 2 \in 1..(3*NLayers) /\ 3*l - 1 \in 1..(3*NLayers) /\ 3*l \in 1..(3*NLayers)
    BY SizesAssumption
  <2>2. /\ f[3*l - 2] = ChainBlock(((3*l - 2 - 1) \div 3) + 1)[((3*l - 2 - 1) % 3) + 1]
        /\ f[3*l - 1] = ChainBlock(((3*l - 1 - 1) \div 3) + 1)[((3*l - 1 - 1) % 3) + 1]
        /\ f[3*l] = ChainBlock(((3*l - 1) \div 3) + 1)[((3*l - 1) % 3) + 1]
    BY <1>3, <2>1
  <2>3. l \in Nat \ {0}
    BY SizesAssumption
  <2> QED
    BY <2>2, <2>3, ThirdsOfIndex
<1> QED
  BY <1>1, <1>2, <1>4, <1>5 DEF f

LEMMA CpuCalls ==
    /\ Len(Program("cpu")) = 2*NLayers + 2
    /\ \A l \in 1..NLayers :
          /\ Program("cpu")[2*l - 1] = CpuBlock(l)[1]
          /\ Program("cpu")[2*l] = CpuBlock(l)[2]
    /\ Program("cpu")[2*NLayers + 1] = Connector[1]
    /\ Program("cpu")[2*NLayers + 2] = Connector[2]
<1> DEFINE f == Program("cpu")
<1>1. Len(Connector) = 2
  BY DEF Connector
<1>2. Len(f) = 2*NLayers + 2
  BY <1>1, SizesAssumption DEF Program, EncodeCpu, LayersThen
<1>3. \A i \in 1..(2*NLayers) : f[i] = CpuBlock(((i - 1) \div 2) + 1)[((i - 1) % 2) + 1]
  BY <1>1, SizesAssumption DEF Program, EncodeCpu, LayersThen
<1>4. \A i \in 1..2 : f[2*NLayers + i] = Connector[i]
  BY <1>1, SizesAssumption DEF Program, EncodeCpu, LayersThen
<1> HIDE DEF f
<1>5. ASSUME NEW l \in 1..NLayers
      PROVE  /\ f[2*l - 1] = CpuBlock(l)[1]
             /\ f[2*l] = CpuBlock(l)[2]
  <2>1. 2*l - 1 \in 1..(2*NLayers) /\ 2*l \in 1..(2*NLayers)
    BY SizesAssumption
  <2>2. /\ f[2*l - 1] = CpuBlock(((2*l - 1 - 1) \div 2) + 1)[((2*l - 1 - 1) % 2) + 1]
        /\ f[2*l] = CpuBlock(((2*l - 1) \div 2) + 1)[((2*l - 1) % 2) + 1]
    BY <1>3, <2>1
  <2>3. l \in Nat \ {0}
    BY SizesAssumption
  <2> QED
    BY <2>2, <2>3, HalvesOfIndex
<1> QED
  BY <1>1, <1>2, <1>4, <1>5 DEF f

LEMMA PreloadDecodeCalls ==
    LET g == LayersThen(PreloadDecode, 2, <<Preload(LmHead)>>)
    IN  /\ Len(g) = 2*NLayers + 1
        /\ \A l \in 1..NLayers : g[2*l - 1] = PreloadDecode(l)[1] /\ g[2*l] = PreloadDecode(l)[2]
        /\ g[2*NLayers + 1] = Preload(LmHead)
<1> DEFINE f == LayersThen(PreloadDecode, 2, <<Preload(LmHead)>>)
<1>1. Len(<<Preload(LmHead)>>) = 1 /\ <<Preload(LmHead)>>[1] = Preload(LmHead)
  OBVIOUS
<1>2. Len(f) = 2*NLayers + 1
  BY <1>1, SizesAssumption DEF LayersThen
<1>3. \A i \in 1..(2*NLayers) : f[i] = PreloadDecode(((i - 1) \div 2) + 1)[((i - 1) % 2) + 1]
  BY <1>1, SizesAssumption DEF LayersThen
<1>4. \A i \in 1..1 : f[2*NLayers + i] = <<Preload(LmHead)>>[i]
  BY <1>1, SizesAssumption DEF LayersThen
<1> HIDE DEF f
<1>5. ASSUME NEW l \in 1..NLayers
      PROVE  /\ f[2*l - 1] = PreloadDecode(l)[1]
             /\ f[2*l] = PreloadDecode(l)[2]
  <2>1. 2*l - 1 \in 1..(2*NLayers) /\ 2*l \in 1..(2*NLayers)
    BY SizesAssumption
  <2>2. /\ f[2*l - 1] = PreloadDecode(((2*l - 1 - 1) \div 2) + 1)[((2*l - 1 - 1) % 2) + 1]
        /\ f[2*l] = PreloadDecode(((2*l - 1) \div 2) + 1)[((2*l - 1) % 2) + 1]
    BY <1>3, <2>1
  <2>3. l \in Nat \ {0}
    BY SizesAssumption
  <2> QED
    BY <2>2, <2>3, HalvesOfIndex
<1>6. f[2*NLayers + 1] = Preload(LmHead)
  BY <1>1, <1>4
<1> QED
  BY <1>2, <1>5, <1>6 DEF f

LEMMA PrepareCalls ==
    /\ Len(Program("prepare")) = 4*NLayers + 1
    /\ \A l \in 1..NLayers :
          /\ Program("prepare")[2*l - 1] = Preload(PrefillBlock(l)[1])
          /\ Program("prepare")[2*l] = Preload(PrefillBlock(l)[3])
          /\ Program("prepare")[2*NLayers + 2*l - 1] = Preload(DecodeBlock(l)[1])
          /\ Program("prepare")[2*NLayers + 2*l] = Preload(DecodeBlock(l)[2])
    /\ Program("prepare")[4*NLayers + 1] = Preload(LmHead)
<1> DEFINE f == Program("prepare")
           g == LayersThen(PreloadDecode, 2, <<Preload(LmHead)>>)
<1>1. Len(g) = 2*NLayers + 1
  BY PreloadDecodeCalls
<1>0. f = LayersThen(PreloadPrefill, 2, g)
  BY DEF Program, PrepareRuntime
<1> HIDE DEF f, g
<1>2. Len(f) = 4*NLayers + 1
  BY <1>0, <1>1, SizesAssumption DEF LayersThen
<1>3. \A i \in 1..(2*NLayers) : f[i] = PreloadPrefill(((i - 1) \div 2) + 1)[((i - 1) % 2) + 1]
  BY <1>0, <1>1, SizesAssumption DEF LayersThen
<1>4. \A i \in 1..(2*NLayers + 1) : f[2*NLayers + i] = g[i]
  <2> SUFFICES ASSUME NEW i \in 1..(2*NLayers + 1) PROVE f[2*NLayers + i] = g[i]
    OBVIOUS
  <2>1. /\ 2*NLayers + i \in 1..(2*NLayers + Len(g))
        /\ ~(2*NLayers + i <= 2*NLayers) /\ 2*NLayers + i - 2*NLayers = i
    BY <1>1, SizesAssumption
  <2>2. \A j \in 1..(2*NLayers + Len(g)) : ~(j <= 2*NLayers) => f[j] = g[j - 2*NLayers]
    BY <1>0 DEF LayersThen
  <2>3. f[2*NLayers + i] = g[2*NLayers + i - 2*NLayers]
    BY <1>1, <2>1, <2>2, SizesAssumption
  <2> QED
    BY <2>1, <2>3
<1>5. ASSUME NEW l \in 1..NLayers
      PROVE  /\ f[2*l - 1] = PreloadPrefill(l)[1]
             /\ f[2*l] = PreloadPrefill(l)[2]
  <2>1. 2*l - 1 \in 1..(2*NLayers) /\ 2*l \in 1..(2*NLayers)
    BY SizesAssumption
  <2>2. /\ f[2*l - 1] = PreloadPrefill(((2*l - 1 - 1) \div 2) + 1)[((2*l - 1 - 1) % 2) + 1]
        /\ f[2*l] = PreloadPrefill(((2*l - 1) \div 2) + 1)[((2*l - 1) % 2) + 1]
    BY <1>3, <2>1
  <2>3. l \in Nat \ {0}
    BY SizesAssumption
  <2> QED
    BY <2>2, <2>3, HalvesOfIndex
<1>6. ASSUME NEW l \in 1..NLayers
      PROVE  f[2*NLayers + 2*l - 1] = PreloadDecode(l)[1] /\ f[2*NLayers + 2*l] = PreloadDecode(l)[2]
  <2>1. g[2*l - 1] = PreloadDecode(l)[1] /\ g[2*l] = PreloadDecode(l)[2]
    BY PreloadDecodeCalls DEF g
  <2>2. 2*l - 1 \in 1..(2*NLayers + 1) /\ 2*l \in 1..(2*NLayers + 1)
    BY SizesAssumption
  <2>3. 2*NLayers + 2*l - 1 = 2*NLayers + (2*l - 1)
    BY SizesAssumption
  <2> QED
    BY <1>4, <2>1, <2>2, <2>3
<1>7. f[4*NLayers + 1] = Preload(LmHead)
  <2>1. g[2*NLayers + 1] = Preload(LmHead)
    BY PreloadDecodeCalls DEF g
  <2>2. 2*NLayers + 1 \in 1..(2*NLayers + 1) /\ 4*NLayers + 1 = 2*NLayers + (2*NLayers + 1)
    BY SizesAssumption
  <2> QED
    BY <1>4, <2>1, <2>2
<1>8. \A l \in 1..NLayers :
         /\ PreloadPrefill(l)[1] = Preload(PrefillBlock(l)[1])
         /\ PreloadPrefill(l)[2] = Preload(PrefillBlock(l)[3])
         /\ PreloadDecode(l)[1] = Preload(DecodeBlock(l)[1])
         /\ PreloadDecode(l)[2] = Preload(DecodeBlock(l)[2])
  BY DEF PreloadPrefill, PreloadDecode
<1> QED
  BY <1>2, <1>5, <1>6, <1>7, <1>8 DEF f


-----------------------------------------------------------------------------
(* What the calls have in common.                                          *)

IsWeightBo(b) == b[2] = "own" /\ b[5] = Slot(b[3])

\* Call d has its weights in the slot of its kernel, no other BO of its key
\* ever holds weights, and no two of its arguments share a BO.
Fits(d) ==
    /\ Len(d.args) \in 2..4 /\ DOMAIN d.args = 1..Len(d.args)
    /\ DOMAIN Layout(Key(d)) = 1..Len(d.args)
    /\ d.k # "empty" /\ Slot(d.k) \in 0..(Len(d.args) - 1)
    /\ \A i \in 1..Len(d.args) : d.args[i].role = "static" <=> i = Slot(d.k)
    /\ Slot(d.k) # 0 =>
          /\ d.args[Slot(d.k)].src = "weight"
          /\ Layout(Key(d))[Slot(d.k)] = Own(d.c, d.k, d.l, Slot(d.k))
    /\ \A i \in 1..Len(d.args) : i # Slot(d.k) => ~IsWeightBo(Layout(Key(d))[i])
    /\ \A i, j \in 1..Len(d.args) : i # j => Layout(Key(d))[i] # Layout(Key(d))[j]

\* If call d is the first of its key it binds the BOs of Layout.
Binds(d) == \A i \in 1..Len(d.args) : BoFor(d, i) = Layout(Key(d))[i]

LEMMA ShapeRmsGemms ==
    ASSUME NEW l \in 1..NLayers PROVE Fits(PrefillBlock(l)[1]) /\ Binds(PrefillBlock(l)[1])
<1> DEFINE d == PrefillBlock(l)[1]
           L == Layout(Key(d))
<1>1. /\ d.c = "prefill" /\ d.k = "rms_gemms_rope" /\ d.l = l /\ d.shared = TRUE
      /\ d.args = <<In("x"), Weight, Out("qkv")>>
  BY DEF PrefillBlock, Call
<1>2. L = <<Pool(d.k, 1), Own(d.c, d.k, d.l, 2), Pool(d.k, 3)>>
  BY <1>1 DEF Layout, Key
<1> HIDE DEF d, L
<1>3. Len(d.args) = 3 /\ DOMAIN d.args = 1..3 /\ DOMAIN L = 1..3 /\ Slot(d.k) = 2
  BY <1>1, <1>2 DEF Slot
<1>4. /\ d.args[1].role # "static"
      /\ d.args[2].role = "static" /\ d.args[2].src = "weight"
      /\ d.args[3].role # "static"
  BY <1>1 DEF In, Weight, Out, Resident, Arg
<1>5. /\ L[1] = Pool(d.k, 1) /\ ~IsWeightBo(L[1])
      /\ L[2] = Own(d.c, d.k, d.l, 2)
      /\ L[3] = Pool(d.k, 3) /\ ~IsWeightBo(L[3])
  BY <1>2 DEF IsWeightBo, Pool, Own, Alias, Slot
<1>6. L[1] # L[2] /\ L[1] # L[3] /\ L[2] # L[3]
  BY <1>2 DEF Pool, Own, Alias
<1>7. Fits(d)
  BY <1>1, <1>3, <1>4, <1>5, <1>6 DEF Fits, L
<1>8. /\ d.args[1].alias = "none"
      /\ d.args[2].alias = "none"
      /\ d.args[3].alias = "none"
  BY <1>1 DEF In, Weight, Out, Resident, Arg
<1>9. Binds(d)
  BY <1>1, <1>3, <1>4, <1>5, <1>8 DEF Binds, BoFor, Pool, Own, Alias, L
<1> QED
  BY <1>7, <1>9 DEF d

LEMMA ShapeFlash ==
    ASSUME NEW l \in 1..NLayers PROVE Fits(PrefillBlock(l)[2]) /\ Binds(PrefillBlock(l)[2])
<1> DEFINE d == PrefillBlock(l)[2]
           L == Layout(Key(d))
<1>1. /\ d.c = "prefill" /\ d.k = "flash_attn" /\ d.l = 0 /\ d.shared = FALSE
      /\ d.args = <<In("qkv"), Arg("plain", "zeros", "attn", "none")>>
  BY DEF PrefillBlock, Call
<1>2. L = <<Own(d.c, d.k, d.l, 1), Own(d.c, d.k, d.l, 2)>>
  BY <1>1 DEF Layout, Key
<1> HIDE DEF d, L
<1>3. Len(d.args) = 2 /\ DOMAIN d.args = 1..2 /\ DOMAIN L = 1..2 /\ Slot(d.k) = 0
  BY <1>1, <1>2 DEF Slot
<1>4. /\ d.args[1].role # "static"
      /\ d.args[2].role # "static"
  BY <1>1 DEF In, Weight, Out, Resident, Arg
<1>5. /\ L[1] = Own(d.c, d.k, d.l, 1) /\ ~IsWeightBo(L[1])
      /\ L[2] = Own(d.c, d.k, d.l, 2) /\ ~IsWeightBo(L[2])
  BY <1>1, <1>2 DEF IsWeightBo, Pool, Own, Alias, Slot
<1>6. L[1] # L[2]
  BY <1>2 DEF Pool, Own, Alias
<1>7. Fits(d)
  BY <1>1, <1>3, <1>4, <1>5, <1>6 DEF Fits, L
<1>8. /\ d.args[1].alias = "none"
      /\ d.args[2].alias = "none"
  BY <1>1 DEF In, Weight, Out, Resident, Arg
<1>9. Binds(d)
  BY <1>1, <1>3, <1>4, <1>5, <1>8 DEF Binds, BoFor, Pool, Own, Alias, L
<1> QED
  BY <1>7, <1>9 DEF d

LEMMA ShapeOFfn ==
    ASSUME NEW l \in 1..NLayers PROVE Fits(PrefillBlock(l)[3]) /\ Binds(PrefillBlock(l)[3])
<1> DEFINE d == PrefillBlock(l)[3]
           L == Layout(Key(d))
<1>1. /\ d.c = "prefill" /\ d.k = "o_ffn" /\ d.l = l /\ d.shared = TRUE
      /\ d.args = <<In("attn"),
                    Weight,
                    In("x"),
                    Out("x")>>
  BY DEF PrefillBlock, Call
<1>2. L = <<Pool(d.k, 1), Own(d.c, d.k, d.l, 2), Pool(d.k, 3), Pool(d.k, 4)>>
  BY <1>1 DEF Layout, Key
<1> HIDE DEF d, L
<1>3. Len(d.args) = 4 /\ DOMAIN d.args = 1..4 /\ DOMAIN L = 1..4 /\ Slot(d.k) = 2
  BY <1>1, <1>2 DEF Slot
<1>4. /\ d.args[1].role # "static"
      /\ d.args[2].role = "static" /\ d.args[2].src = "weight"
      /\ d.args[3].role # "static"
      /\ d.args[4].role # "static"
  BY <1>1 DEF In, Weight, Out, Resident, Arg
<1>5. /\ L[1] = Pool(d.k, 1) /\ ~IsWeightBo(L[1])
      /\ L[2] = Own(d.c, d.k, d.l, 2)
      /\ L[3] = Pool(d.k, 3) /\ ~IsWeightBo(L[3])
      /\ L[4] = Pool(d.k, 4) /\ ~IsWeightBo(L[4])
  BY <1>2 DEF IsWeightBo, Pool, Own, Alias, Slot
<1>6. /\ L[1] # L[2] /\ L[1] # L[3] /\ L[1] # L[4]
      /\ L[2] # L[3] /\ L[2] # L[4] /\ L[3] # L[4]
  BY <1>2 DEF Pool, Own, Alias
<1>7. Fits(d)
  BY <1>1, <1>3, <1>4, <1>5, <1>6 DEF Fits, L
<1>8. /\ d.args[1].alias = "none"
      /\ d.args[2].alias = "none"
      /\ d.args[3].alias = "none"
      /\ d.args[4].alias = "none"
  BY <1>1 DEF In, Weight, Out, Resident, Arg
<1>9. Binds(d)
  BY <1>1, <1>3, <1>4, <1>5, <1>8 DEF Binds, BoFor, Pool, Own, Alias, L
<1> QED
  BY <1>7, <1>9 DEF d

LEMMA ShapeRmsGemv ==
    ASSUME NEW l \in 1..NLayers PROVE Fits(DecodeBlock(l)[1]) /\ Binds(DecodeBlock(l)[1])
<1> DEFINE d == DecodeBlock(l)[1]
           L == Layout(Key(d))
<1>1. /\ d.c = "decode" /\ d.k = "rms_gemv_rope" /\ d.l = l /\ d.shared = FALSE
      /\ d.args = <<In("x"), Weight, Out("qkv")>>
  BY DEF DecodeBlock, Call
<1>2. L = <<Own(d.c, d.k, d.l, 1), Own(d.c, d.k, d.l, 2), Own(d.c, d.k, d.l, 3)>>
  BY <1>1 DEF Layout, Key
<1> HIDE DEF d, L
<1>3. Len(d.args) = 3 /\ DOMAIN d.args = 1..3 /\ DOMAIN L = 1..3 /\ Slot(d.k) = 2
  BY <1>1, <1>2 DEF Slot
<1>4. /\ d.args[1].role # "static"
      /\ d.args[2].role = "static" /\ d.args[2].src = "weight"
      /\ d.args[3].role # "static"
  BY <1>1 DEF In, Weight, Out, Resident, Arg
<1>5. /\ L[1] = Own(d.c, d.k, d.l, 1) /\ ~IsWeightBo(L[1])
      /\ L[2] = Own(d.c, d.k, d.l, 2)
      /\ L[3] = Own(d.c, d.k, d.l, 3) /\ ~IsWeightBo(L[3])
  BY <1>1, <1>2 DEF IsWeightBo, Pool, Own, Alias, Slot
<1>6. L[1] # L[2] /\ L[1] # L[3] /\ L[2] # L[3]
  BY <1>2 DEF Pool, Own, Alias
<1>7. Fits(d)
  BY <1>1, <1>3, <1>4, <1>5, <1>6 DEF Fits, L
<1>8. /\ d.args[1].alias = "none"
      /\ d.args[2].alias = "none"
      /\ d.args[3].alias = "none"
  BY <1>1 DEF In, Weight, Out, Resident, Arg
<1>9. Binds(d)
  BY <1>1, <1>3, <1>4, <1>5, <1>8 DEF Binds, BoFor, Pool, Own, Alias, L
<1> QED
  BY <1>7, <1>9 DEF d

LEMMA ShapeOGemv ==
    ASSUME NEW l \in 1..NLayers PROVE Fits(DecodeBlock(l)[2]) /\ Binds(DecodeBlock(l)[2])
<1> DEFINE d == DecodeBlock(l)[2]
           L == Layout(Key(d))
<1>1. /\ d.c = "decode" /\ d.k = "o_gemv_ffn" /\ d.l = l /\ d.shared = FALSE
      /\ d.args = <<Weight,
                    In("attn"),
                    In("x"),
                    Out("x")>>
  BY DEF DecodeBlock, Call
<1>2. L = <<Own(d.c, d.k, d.l, 1), Own(d.c, d.k, d.l, 2), Own(d.c, d.k, d.l, 3), Own(d.c, d.k, d.l, 4)>>
  BY <1>1 DEF Layout, Key
<1> HIDE DEF d, L
<1>3. Len(d.args) = 4 /\ DOMAIN d.args = 1..4 /\ DOMAIN L = 1..4 /\ Slot(d.k) = 1
  BY <1>1, <1>2 DEF Slot
<1>4. /\ d.args[1].role = "static" /\ d.args[1].src = "weight"
      /\ d.args[2].role # "static"
      /\ d.args[3].role # "static"
      /\ d.args[4].role # "static"
  BY <1>1 DEF In, Weight, Out, Resident, Arg
<1>5. /\ L[1] = Own(d.c, d.k, d.l, 1)
      /\ L[2] = Own(d.c, d.k, d.l, 2) /\ ~IsWeightBo(L[2])
      /\ L[3] = Own(d.c, d.k, d.l, 3) /\ ~IsWeightBo(L[3])
      /\ L[4] = Own(d.c, d.k, d.l, 4) /\ ~IsWeightBo(L[4])
  BY <1>1, <1>2 DEF IsWeightBo, Pool, Own, Alias, Slot
<1>6. /\ L[1] # L[2] /\ L[1] # L[3] /\ L[1] # L[4]
      /\ L[2] # L[3] /\ L[2] # L[4] /\ L[3] # L[4]
  BY <1>2 DEF Pool, Own, Alias
<1>7. Fits(d)
  BY <1>1, <1>3, <1>4, <1>5, <1>6 DEF Fits, L
<1>8. /\ d.args[1].alias = "none"
      /\ d.args[2].alias = "none"
      /\ d.args[3].alias = "none"
      /\ d.args[4].alias = "none"
  BY <1>1 DEF In, Weight, Out, Resident, Arg
<1>9. Binds(d)
  BY <1>1, <1>3, <1>4, <1>5, <1>8 DEF Binds, BoFor, Pool, Own, Alias, L
<1> QED
  BY <1>7, <1>9 DEF d

LEMMA ShapeLmHead ==
    Fits(LmHead) /\ Binds(LmHead)
<1> DEFINE d == LmHead
           L == Layout(Key(d))
<1>1. /\ d.c = "decode" /\ d.k = "lm_head_gemv" /\ d.l = 0 /\ d.shared = FALSE
      /\ d.args = <<In("x"), Weight, Out("out")>>
  BY DEF LmHead, Call
<1>2. L = <<Own(d.c, d.k, d.l, 1), Own(d.c, d.k, d.l, 2), Own(d.c, d.k, d.l, 3)>>
  BY <1>1 DEF Layout, Key
<1> HIDE DEF d, L
<1>3. Len(d.args) = 3 /\ DOMAIN d.args = 1..3 /\ DOMAIN L = 1..3 /\ Slot(d.k) = 2
  BY <1>1, <1>2 DEF Slot
<1>4. /\ d.args[1].role # "static"
      /\ d.args[2].role = "static" /\ d.args[2].src = "weight"
      /\ d.args[3].role # "static"
  BY <1>1 DEF In, Weight, Out, Resident, Arg
<1>5. /\ L[1] = Own(d.c, d.k, d.l, 1) /\ ~IsWeightBo(L[1])
      /\ L[2] = Own(d.c, d.k, d.l, 2)
      /\ L[3] = Own(d.c, d.k, d.l, 3) /\ ~IsWeightBo(L[3])
  BY <1>1, <1>2 DEF IsWeightBo, Pool, Own, Alias, Slot
<1>6. L[1] # L[2] /\ L[1] # L[3] /\ L[2] # L[3]
  BY <1>2 DEF Pool, Own, Alias
<1>7. Fits(d)
  BY <1>1, <1>3, <1>4, <1>5, <1>6 DEF Fits, L
<1>8. /\ d.args[1].alias = "none"
      /\ d.args[2].alias = "none"
      /\ d.args[3].alias = "none"
  BY <1>1 DEF In, Weight, Out, Resident, Arg
<1>9. Binds(d)
  BY <1>1, <1>3, <1>4, <1>5, <1>8 DEF Binds, BoFor, Pool, Own, Alias, L
<1> QED
  BY <1>7, <1>9 DEF d

LEMMA ShapeLnQkv ==
    ASSUME NEW l \in 1..NLayers PROVE Fits(ChainBlock(l)[1]) /\ Binds(ChainBlock(l)[1])
<1> DEFINE d == ChainBlock(l)[1]
           L == Layout(Key(d))
<1>1. /\ d.c = "vision" /\ d.k = "vit_ln_qkv" /\ d.l = l /\ d.shared = FALSE
      /\ d.args = <<IF l = 1 THEN Arg("plain", "x", "none", XPool(0)) ELSE Resident(XPool(l - 1)),
                    Weight,
                    Resident("vit_qkv")>>
  BY DEF ChainBlock, Call
<1>2. L = <<Alias(XPool(l - 1)), Own(d.c, d.k, d.l, 2), Alias("vit_qkv")>>
  BY <1>1 DEF Layout, Key
<1> HIDE DEF d, L
<1>3. Len(d.args) = 3 /\ DOMAIN d.args = 1..3 /\ DOMAIN L = 1..3 /\ Slot(d.k) = 2
  BY <1>1, <1>2 DEF Slot
<1>4. /\ d.args[1].role # "static"
      /\ d.args[2].role = "static" /\ d.args[2].src = "weight"
      /\ d.args[3].role # "static"
  BY <1>1 DEF In, Weight, Out, Resident, Arg
<1>5. /\ L[1] = Alias(XPool(l - 1)) /\ ~IsWeightBo(L[1])
      /\ L[2] = Own(d.c, d.k, d.l, 2)
      /\ L[3] = Alias("vit_qkv") /\ ~IsWeightBo(L[3])
  BY <1>2 DEF IsWeightBo, Pool, Own, Alias, Slot
<1>6. L[1] # L[2] /\ L[1] # L[3] /\ L[2] # L[3]
  BY <1>2 DEF Pool, Own, Alias, XPool
<1>7. Fits(d)
  BY <1>1, <1>3, <1>4, <1>5, <1>6 DEF Fits, L
<1>8. /\ d.args[1].alias = XPool(l - 1)
      /\ d.args[2].alias = "none"
      /\ d.args[3].alias = "vit_qkv"
  BY <1>1 DEF In, Weight, Out, Resident, Arg
<1>9. Binds(d)
  BY <1>1, <1>3, <1>4, <1>5, <1>8 DEF Binds, BoFor, Pool, Own, Alias, L, XPool
<1> QED
  BY <1>7, <1>9 DEF d

LEMMA ShapeVitFlash ==
    ASSUME NEW l \in 1..NLayers PROVE Fits(ChainBlock(l)[2]) /\ Binds(ChainBlock(l)[2])
<1> DEFINE d == ChainBlock(l)[2]
           L == Layout(Key(d))
<1>1. /\ d.c = "vision" /\ d.k = "flash_attn" /\ d.l = 0 /\ d.shared = FALSE
      /\ d.args = <<Resident("vit_qkv"), Resident("vit_attn")>>
  BY DEF ChainBlock, Call
<1>2. L = <<Alias("vit_qkv"), Alias("vit_attn")>>
  BY <1>1 DEF Layout, Key
<1> HIDE DEF d, L
<1>3. Len(d.args) = 2 /\ DOMAIN d.args = 1..2 /\ DOMAIN L = 1..2 /\ Slot(d.k) = 0
  BY <1>1, <1>2 DEF Slot
<1>4. /\ d.args[1].role # "static"
      /\ d.args[2].role # "static"
  BY <1>1 DEF In, Weight, Out, Resident, Arg
<1>5. /\ L[1] = Alias("vit_qkv") /\ ~IsWeightBo(L[1])
      /\ L[2] = Alias("vit_attn") /\ ~IsWeightBo(L[2])
  BY <1>2 DEF IsWeightBo, Pool, Own, Alias, Slot
<1>6. L[1] # L[2]
  BY <1>2 DEF Pool, Own, Alias
<1>7. Fits(d)
  BY <1>1, <1>3, <1>4, <1>5, <1>6 DEF Fits, L
<1>8. /\ d.args[1].alias = "vit_qkv"
      /\ d.args[2].alias = "vit_attn"
  BY <1>1 DEF In, Weight, Out, Resident, Arg
<1>9. Binds(d)
  BY <1>1, <1>3, <1>4, <1>5, <1>8 DEF Binds, BoFor, Pool, Own, Alias, L
<1> QED
  BY <1>7, <1>9 DEF d

LEMMA ShapeVitOFfn ==
    ASSUME NEW l \in 1..NLayers PROVE Fits(ChainBlock(l)[3]) /\ Binds(ChainBlock(l)[3])
<1> DEFINE d == ChainBlock(l)[3]
           L == Layout(Key(d))
<1>1. /\ d.c = "vision" /\ d.k = "vit_o_ffn" /\ d.l = l /\ d.shared = FALSE
      /\ d.args = <<Resident("vit_attn"),
                    Weight,
                    Resident(XPool(l - 1)),
                    [Resident(XPool(l)) EXCEPT !.dst = IF l = NLayers THEN "x" ELSE "none"]>>
  BY DEF ChainBlock, Call
<1>2. L = <<Alias("vit_attn"), Own(d.c, d.k, d.l, 2), Alias(XPool(l - 1)), Alias(XPool(l))>>
  BY <1>1 DEF Layout, Key
<1> HIDE DEF d, L
<1>3. Len(d.args) = 4 /\ DOMAIN d.args = 1..4 /\ DOMAIN L = 1..4 /\ Slot(d.k) = 2
  BY <1>1, <1>2 DEF Slot
<1>4. /\ d.args[1].role # "static"
      /\ d.args[2].role = "static" /\ d.args[2].src = "weight"
      /\ d.args[3].role # "static"
      /\ d.args[4].role # "static"
  BY <1>1 DEF In, Weight, Out, Resident, Arg
<1>5. /\ L[1] = Alias("vit_attn") /\ ~IsWeightBo(L[1])
      /\ L[2] = Own(d.c, d.k, d.l, 2)
      /\ L[3] = Alias(XPool(l - 1)) /\ ~IsWeightBo(L[3])
      /\ L[4] = Alias(XPool(l)) /\ ~IsWeightBo(L[4])
  BY <1>2 DEF IsWeightBo, Pool, Own, Alias, Slot
<1>6. /\ L[1] # L[2] /\ L[1] # L[3] /\ L[1] # L[4]
      /\ L[2] # L[3] /\ L[2] # L[4] /\ L[3] # L[4]
  BY <1>2 DEF Pool, Own, Alias, XPool
<1>7. Fits(d)
  BY <1>1, <1>3, <1>4, <1>5, <1>6 DEF Fits, L
<1>8. /\ d.args[1].alias = "vit_attn"
      /\ d.args[2].alias = "none"
      /\ d.args[3].alias = XPool(l - 1)
      /\ d.args[4].alias = XPool(l)
  BY <1>1 DEF In, Weight, Out, Resident, Arg
<1>9. Binds(d)
  BY <1>1, <1>3, <1>4, <1>5, <1>8 DEF Binds, BoFor, Pool, Own, Alias, L, XPool
<1> QED
  BY <1>7, <1>9 DEF d

LEMMA ShapeCpuQkv ==
    ASSUME NEW l \in 1..NLayers PROVE Fits(CpuBlock(l)[1])
<1> DEFINE d == CpuBlock(l)[1]
           L == Layout(Key(d))
<1>1. /\ d.c = "vision" /\ d.k = "vit_ln_qkv" /\ d.l = l /\ d.shared = FALSE
      /\ d.args = <<In("x"), Weight, Out("qkv")>>
  BY DEF CpuBlock, Call
<1>2. L = <<Alias(XPool(l - 1)), Own(d.c, d.k, d.l, 2), Alias("vit_qkv")>>
  BY <1>1 DEF Layout, Key
<1> HIDE DEF d, L
<1>3. Len(d.args) = 3 /\ DOMAIN d.args = 1..3 /\ DOMAIN L = 1..3 /\ Slot(d.k) = 2
  BY <1>1, <1>2 DEF Slot
<1>4. /\ d.args[1].role # "static"
      /\ d.args[2].role = "static" /\ d.args[2].src = "weight"
      /\ d.args[3].role # "static"
  BY <1>1 DEF In, Weight, Out, Resident, Arg
<1>5. /\ L[1] = Alias(XPool(l - 1)) /\ ~IsWeightBo(L[1])
      /\ L[2] = Own(d.c, d.k, d.l, 2)
      /\ L[3] = Alias("vit_qkv") /\ ~IsWeightBo(L[3])
  BY <1>2 DEF IsWeightBo, Pool, Own, Alias, Slot
<1>6. L[1] # L[2] /\ L[1] # L[3] /\ L[2] # L[3]
  BY <1>2 DEF Pool, Own, Alias, XPool
<1>7. Fits(d)
  BY <1>1, <1>3, <1>4, <1>5, <1>6 DEF Fits, L
<1> QED
  BY <1>7 DEF d

LEMMA ShapeCpuFfn ==
    ASSUME NEW l \in 1..NLayers PROVE Fits(CpuBlock(l)[2])
<1> DEFINE d == CpuBlock(l)[2]
           L == Layout(Key(d))
<1>1. /\ d.c = "vision" /\ d.k = "vit_o_ffn" /\ d.l = l /\ d.shared = FALSE
      /\ d.args = <<In("attn"),
                    Weight,
                    In("x"),
                    Out("x")>>
  BY DEF CpuBlock, Call
<1>2. L = <<Alias("vit_attn"), Own(d.c, d.k, d.l, 2), Alias(XPool(l - 1)), Alias(XPool(l))>>
  BY <1>1 DEF Layout, Key
<1> HIDE DEF d, L
<1>3. Len(d.args) = 4 /\ DOMAIN d.args = 1..4 /\ DOMAIN L = 1..4 /\ Slot(d.k) = 2
  BY <1>1, <1>2 DEF Slot
<1>4. /\ d.args[1].role # "static"
      /\ d.args[2].role = "static" /\ d.args[2].src = "weight"
      /\ d.args[3].role # "static"
      /\ d.args[4].role # "static"
  BY <1>1 DEF In, Weight, Out, Resident, Arg
<1>5. /\ L[1] = Alias("vit_attn") /\ ~IsWeightBo(L[1])
      /\ L[2] = Own(d.c, d.k, d.l, 2)
      /\ L[3] = Alias(XPool(l - 1)) /\ ~IsWeightBo(L[3])
      /\ L[4] = Alias(XPool(l)) /\ ~IsWeightBo(L[4])
  BY <1>2 DEF IsWeightBo, Pool, Own, Alias, Slot
<1>6. /\ L[1] # L[2] /\ L[1] # L[3] /\ L[1] # L[4]
      /\ L[2] # L[3] /\ L[2] # L[4] /\ L[3] # L[4]
  BY <1>2 DEF Pool, Own, Alias, XPool
<1>7. Fits(d)
  BY <1>1, <1>3, <1>4, <1>5, <1>6 DEF Fits, L
<1> QED
  BY <1>7 DEF d

LEMMA ShapeNorm ==
    Fits(Connector[1]) /\ Binds(Connector[1])
<1> DEFINE d == Connector[1]
           L == Layout(Key(d))
<1>1. /\ d.c = "vision" /\ d.k = "layer_norm" /\ d.l = 0 /\ d.shared = FALSE
      /\ d.args = <<In("x"), Weight, Out("norm")>>
  BY DEF Connector, Call
<1>2. L = <<Own(d.c, d.k, d.l, 1), Own(d.c, d.k, d.l, 2), Own(d.c, d.k, d.l, 3)>>
  BY <1>1 DEF Layout, Key
<1> HIDE DEF d, L
<1>3. Len(d.args) = 3 /\ DOMAIN d.args = 1..3 /\ DOMAIN L = 1..3 /\ Slot(d.k) = 2
  BY <1>1, <1>2 DEF Slot
<1>4. /\ d.args[1].role # "static"
      /\ d.args[2].role = "static" /\ d.args[2].src = "weight"
      /\ d.args[3].role # "static"
  BY <1>1 DEF In, Weight, Out, Resident, Arg
<1>5. /\ L[1] = Own(d.c, d.k, d.l, 1) /\ ~IsWeightBo(L[1])
      /\ L[2] = Own(d.c, d.k, d.l, 2)
      /\ L[3] = Own(d.c, d.k, d.l, 3) /\ ~IsWeightBo(L[3])
  BY <1>1, <1>2 DEF IsWeightBo, Pool, Own, Alias, Slot
<1>6. L[1] # L[2] /\ L[1] # L[3] /\ L[2] # L[3]
  BY <1>2 DEF Pool, Own, Alias
<1>7. Fits(d)
  BY <1>1, <1>3, <1>4, <1>5, <1>6 DEF Fits, L
<1>8. /\ d.args[1].alias = "none"
      /\ d.args[2].alias = "none"
      /\ d.args[3].alias = "none"
  BY <1>1 DEF In, Weight, Out, Resident, Arg
<1>9. Binds(d)
  BY <1>1, <1>3, <1>4, <1>5, <1>8 DEF Binds, BoFor, Pool, Own, Alias, L
<1> QED
  BY <1>7, <1>9 DEF d

LEMMA ShapeConnector ==
    Fits(Connector[2]) /\ Binds(Connector[2])
<1> DEFINE d == Connector[2]
           L == Layout(Key(d))
<1>1. /\ d.c = "vision" /\ d.k = "gemm_connector" /\ d.l = 0 /\ d.shared = FALSE
      /\ d.args = <<In("norm"), Weight, Out("out")>>
  BY DEF Connector, Call
<1>2. L = <<Own(d.c, d.k, d.l, 1), Own(d.c, d.k, d.l, 2), Own(d.c, d.k, d.l, 3)>>
  BY <1>1 DEF Layout, Key
<1> HIDE DEF d, L
<1>3. Len(d.args) = 3 /\ DOMAIN d.args = 1..3 /\ DOMAIN L = 1..3 /\ Slot(d.k) = 2
  BY <1>1, <1>2 DEF Slot
<1>4. /\ d.args[1].role # "static"
      /\ d.args[2].role = "static" /\ d.args[2].src = "weight"
      /\ d.args[3].role # "static"
  BY <1>1 DEF In, Weight, Out, Resident, Arg
<1>5. /\ L[1] = Own(d.c, d.k, d.l, 1) /\ ~IsWeightBo(L[1])
      /\ L[2] = Own(d.c, d.k, d.l, 2)
      /\ L[3] = Own(d.c, d.k, d.l, 3) /\ ~IsWeightBo(L[3])
  BY <1>1, <1>2 DEF IsWeightBo, Pool, Own, Alias, Slot
<1>6. L[1] # L[2] /\ L[1] # L[3] /\ L[2] # L[3]
  BY <1>2 DEF Pool, Own, Alias
<1>7. Fits(d)
  BY <1>1, <1>3, <1>4, <1>5, <1>6 DEF Fits, L
<1>8. /\ d.args[1].alias = "none"
      /\ d.args[2].alias = "none"
      /\ d.args[3].alias = "none"
  BY <1>1 DEF In, Weight, Out, Resident, Arg
<1>9. Binds(d)
  BY <1>1, <1>3, <1>4, <1>5, <1>8 DEF Binds, BoFor, Pool, Own, Alias, L
<1> QED
  BY <1>7, <1>9 DEF d

ArgFields == {"role", "src", "dst", "alias"}

\* Call d is a record whose arguments are records.
IsCall(d) ==
    /\ DOMAIN d = {"c", "k", "l", "shared", "args"}
    /\ \A i \in DOMAIN d.args : DOMAIN d.args[i] = ArgFields

LEMMA AreCalls ==
    /\ \A l \in 1..NLayers : /\ IsCall(PrefillBlock(l)[1]) /\ IsCall(PrefillBlock(l)[3])
                             /\ IsCall(DecodeBlock(l)[1]) /\ IsCall(DecodeBlock(l)[2])
    /\ IsCall(LmHead)
<1>1. \A r : DOMAIN In(r) = ArgFields /\ DOMAIN Out(r) = ArgFields /\ DOMAIN Weight = ArgFields
  BY DEF In, Out, Weight, Arg, ArgFields
<1>2. ASSUME NEW c, NEW k, NEW l, NEW sh, NEW a1, NEW a2, NEW a3,
             DOMAIN a1 = ArgFields, DOMAIN a2 = ArgFields, DOMAIN a3 = ArgFields
      PROVE  IsCall(Call(c, k, l, sh, <<a1, a2, a3>>))
  BY <1>2 DEF Call, IsCall
<1>3. ASSUME NEW c, NEW k, NEW l, NEW sh, NEW a1, NEW a2, NEW a3, NEW a4,
             DOMAIN a1 = ArgFields, DOMAIN a2 = ArgFields, DOMAIN a3 = ArgFields,
             DOMAIN a4 = ArgFields
      PROVE  IsCall(Call(c, k, l, sh, <<a1, a2, a3, a4>>))
  BY <1>3 DEF Call, IsCall
<1> QED
  BY <1>1, <1>2, <1>3 DEF PrefillBlock, DecodeBlock, LmHead

\* A preload call differs from the call it stands for only in the arrays of
\* the arguments that are not weights.
LEMMA PreloadFields ==
    ASSUME NEW d, IsCall(d)
    PROVE  LET p == Preload(d)
           IN  /\ p.c = d.c /\ p.k = d.k /\ p.l = d.l /\ p.shared = d.shared
               /\ DOMAIN p.args = DOMAIN d.args
               /\ \A i \in DOMAIN d.args :
                     /\ p.args[i].role = d.args[i].role /\ p.args[i].alias = d.args[i].alias
                     /\ p.args[i].role = "static" => p.args[i] = d.args[i]
                     /\ p.args[i].role # "static" =>
                           p.args[i].src = "zeros" /\ p.args[i].dst = "none"
<1> DEFINE p == Preload(d)
           F(i) == IF d.args[i].role = "static" THEN d.args[i]
                   ELSE [d.args[i] EXCEPT !.src = "zeros", !.dst = "none"]
<1>1. p = [d EXCEPT !.args = [i \in DOMAIN d.args |-> F(i)]]
  BY DEF Preload
<1>2. ASSUME NEW i \in DOMAIN d.args
      PROVE  /\ F(i).role = d.args[i].role /\ F(i).alias = d.args[i].alias
             /\ F(i).role = "static" => F(i) = d.args[i]
             /\ F(i).role # "static" => F(i).src = "zeros" /\ F(i).dst = "none"
  BY DEF IsCall, ArgFields
<1> HIDE DEF F, p
<1>3. /\ p.c = d.c /\ p.k = d.k /\ p.l = d.l /\ p.shared = d.shared
      /\ DOMAIN p.args = DOMAIN d.args /\ \A i \in DOMAIN d.args : p.args[i] = F(i)
  BY <1>1 DEF IsCall
<1> QED
  BY <1>2, <1>3 DEF p

LEMMA PreloadShape ==
    ASSUME NEW d, IsCall(d), Fits(d), Binds(d) PROVE Fits(Preload(d)) /\ Binds(Preload(d))
<1> DEFINE p == Preload(d)
<1>1. /\ p.c = d.c /\ p.k = d.k /\ p.l = d.l /\ p.shared = d.shared
      /\ DOMAIN p.args = DOMAIN d.args
      /\ \A i \in DOMAIN d.args :
            /\ p.args[i].role = d.args[i].role /\ p.args[i].alias = d.args[i].alias
            /\ p.args[i].role = "static" => p.args[i] = d.args[i]
  BY PreloadFields
<1>2. Key(p) = Key(d)
  BY <1>1 DEF Key
<1>3. DOMAIN p.args = 1..Len(d.args) /\ Len(d.args) \in 2..4
  BY <1>1 DEF Fits
<1>4. Len(p.args) = Len(d.args)
  <2>1. p.args = [i \in 1..Len(d.args) |-> p.args[i]]
    BY <1>1, <1>3 DEF Preload, IsCall
  <2> HIDE DEF p
  <2> QED
    BY <1>3, <2>1
<1> HIDE DEF p
<1>5. Fits(p)
  <2> DEFINE n == Len(d.args)
             L == Layout(Key(d))
  <2>1. /\ DOMAIN L = 1..n /\ d.k # "empty" /\ Slot(d.k) \in 0..(n - 1)
        /\ \A i \in 1..n : d.args[i].role = "static" <=> i = Slot(d.k)
        /\ Slot(d.k) # 0 => /\ d.args[Slot(d.k)].src = "weight"
                            /\ L[Slot(d.k)] = Own(d.c, d.k, d.l, Slot(d.k))
        /\ \A i \in 1..n : i # Slot(d.k) => ~IsWeightBo(L[i])
        /\ \A i, j \in 1..n : i # j => L[i] # L[j]
    BY DEF Fits
  <2>2. Len(p.args) = n /\ Layout(Key(p)) = L /\ p.c = d.c /\ p.k = d.k /\ p.l = d.l
    BY <1>1, <1>2, <1>4
  <2>3. \A i \in 1..n : p.args[i].role = "static" <=> i = Slot(d.k)
    BY <1>1, <1>3, <2>1
  <2>4. Slot(d.k) # 0 => p.args[Slot(d.k)].src = "weight"
    <3>1. Slot(d.k) # 0 => Slot(d.k) \in 1..n
      BY <1>3, <2>1
    <3> QED
      BY <1>1, <1>3, <2>1, <2>3, <3>1
  <2> HIDE DEF n, L
  <2>5. n \in 2..4 /\ DOMAIN p.args = 1..n
    BY <1>3 DEF n
  <2> QED
    BY <2>1, <2>2, <2>3, <2>4, <2>5 DEF Fits
<1>6. \A i \in 1..Len(d.args) : BoFor(p, i) = BoFor(d, i)
  BY <1>1, <1>3 DEF BoFor
<1>7. Binds(p)
  BY <1>2, <1>4, <1>6 DEF Binds
<1> QED
  BY <1>5, <1>7 DEF p

LEMMA PrefillShapes ==
    \A j \in 1..Len(Program("prefill")) : Fits(Program("prefill")[j]) /\ Binds(Program("prefill")[j])
<1> SUFFICES ASSUME NEW j \in 1..(3*NLayers + 1)
             PROVE  Fits(Program("prefill")[j]) /\ Binds(Program("prefill")[j])
  BY PrefillCalls
<1>1. CASE j = 3*NLayers + 1
  BY <1>1, PrefillCalls, ShapeLmHead
<1>2. CASE j \in 1..(3*NLayers)
  <2>1. PICK l \in 1..NLayers : j \in {3*l - 2, 3*l - 1, 3*l}
    BY <1>2, ThirdsCover
  <2> QED
    BY <2>1, PrefillCalls, ShapeRmsGemms, ShapeFlash, ShapeOFfn
<1> QED
  BY <1>1, <1>2, SizesAssumption

LEMMA DecodeShapes ==
    \A j \in 1..Len(Program("decode")) : Fits(Program("decode")[j]) /\ Binds(Program("decode")[j])
<1> SUFFICES ASSUME NEW j \in 1..(2*NLayers + 1)
             PROVE  Fits(Program("decode")[j]) /\ Binds(Program("decode")[j])
  BY DecodeCalls
<1>1. CASE j = 2*NLayers + 1
  BY <1>1, DecodeCalls, ShapeLmHead
<1>2. CASE j \in 1..(2*NLayers)
  <2>1. PICK l \in 1..NLayers : j \in {2*l - 1, 2*l}
    BY <1>2, HalvesCover
  <2> QED
    BY <2>1, DecodeCalls, ShapeRmsGemv, ShapeOGemv
<1> QED
  BY <1>1, <1>2, SizesAssumption

LEMMA ChainShapes ==
    \A j \in 1..Len(Program("chain")) : Fits(Program("chain")[j]) /\ Binds(Program("chain")[j])
<1> SUFFICES ASSUME NEW j \in 1..(3*NLayers + 2)
             PROVE  Fits(Program("chain")[j]) /\ Binds(Program("chain")[j])
  BY ChainCalls
<1>1. CASE j \in {3*NLayers + 1, 3*NLayers + 2}
  BY <1>1, ChainCalls, ShapeNorm, ShapeConnector
<1>2. CASE j \in 1..(3*NLayers)
  <2>1. PICK l \in 1..NLayers : j \in {3*l - 2, 3*l - 1, 3*l}
    BY <1>2, ThirdsCover
  <2> QED
    BY <2>1, ChainCalls, ShapeLnQkv, ShapeVitFlash, ShapeVitOFfn
<1> QED
  BY <1>1, <1>2, SizesAssumption

LEMMA CpuShapes == \A j \in 1..Len(Program("cpu")) : Fits(Program("cpu")[j])
<1> SUFFICES ASSUME NEW j \in 1..(2*NLayers + 2) PROVE Fits(Program("cpu")[j])
  BY CpuCalls
<1>1. CASE j \in {2*NLayers + 1, 2*NLayers + 2}
  BY <1>1, CpuCalls, ShapeNorm, ShapeConnector
<1>2. CASE j \in 1..(2*NLayers)
  <2>1. PICK l \in 1..NLayers : j \in {2*l - 1, 2*l}
    BY <1>2, HalvesCover
  <2> QED
    BY <2>1, CpuCalls, ShapeCpuQkv, ShapeCpuFfn
<1> QED
  BY <1>1, <1>2, SizesAssumption

LEMMA PrepareCover ==
    ASSUME NEW j \in 1..(4*NLayers + 1)
    PROVE  \/ j = 4*NLayers + 1
           \/ \E l \in 1..NLayers : \/ j \in {2*l - 1, 2*l}
                                    \/ j \in {2*NLayers + 2*l - 1, 2*NLayers + 2*l}
<1>1. CASE j \in 1..(2*NLayers)
  BY <1>1, HalvesCover
<1>2. CASE j \in (2*NLayers + 1)..(4*NLayers)
  <2>1. j - 2*NLayers \in 1..(2*NLayers)
    BY <1>2, SizesAssumption
  <2>2. PICK l \in 1..NLayers : j - 2*NLayers \in {2*l - 1, 2*l}
    BY <2>1, HalvesCover
  <2>3. j \in {2*NLayers + 2*l - 1, 2*NLayers + 2*l}
    BY <2>2, SizesAssumption
  <2> QED
    BY <2>3
<1> QED
  BY <1>1, <1>2, SizesAssumption

LEMMA PrepareShapes ==
    \A j \in 1..Len(Program("prepare")) : Fits(Program("prepare")[j]) /\ Binds(Program("prepare")[j])
<1> SUFFICES ASSUME NEW j \in 1..(4*NLayers + 1)
             PROVE  Fits(Program("prepare")[j]) /\ Binds(Program("prepare")[j])
  BY PrepareCalls
<1>1. CASE j = 4*NLayers + 1
  BY <1>1, PrepareCalls, ShapeLmHead, AreCalls, PreloadShape
<1>2. ASSUME NEW l \in 1..NLayers
      PROVE  /\ Fits(Preload(PrefillBlock(l)[1])) /\ Binds(Preload(PrefillBlock(l)[1]))
             /\ Fits(Preload(PrefillBlock(l)[3])) /\ Binds(Preload(PrefillBlock(l)[3]))
             /\ Fits(Preload(DecodeBlock(l)[1])) /\ Binds(Preload(DecodeBlock(l)[1]))
             /\ Fits(Preload(DecodeBlock(l)[2])) /\ Binds(Preload(DecodeBlock(l)[2]))
  BY AreCalls, PreloadShape, ShapeRmsGemms, ShapeOFfn, ShapeRmsGemv, ShapeOGemv
<1>3. ASSUME NEW l \in 1..NLayers, \/ j \in {2*l - 1, 2*l}
                                   \/ j \in {2*NLayers + 2*l - 1, 2*NLayers + 2*l}
      PROVE  Fits(Program("prepare")[j]) /\ Binds(Program("prepare")[j])
  BY <1>2, <1>3, PrepareCalls
<1> QED
  BY <1>1, <1>3, PrepareCover

LEMMA Shapes ==
    ASSUME NEW t \in Tasks, NEW j \in 1..Len(Program(t))
    PROVE  Fits(Program(t)[j]) /\ (t # "cpu" => Binds(Program(t)[j]))
  BY PrefillShapes, DecodeShapes, ChainShapes, CpuShapes, PrepareShapes DEF Tasks

\* What the weights of a key are bound to.
LEMMA KeyShape ==
    ASSUME NEW q, IsKey(q)
    PROVE  /\ q = <<q[1], q[2], q[3]>> /\ q[2] # "empty"
           /\ \E n \in 2..4 : DOMAIN Layout(q) = 1..n /\ Slot(q[2]) \in 0..(n - 1)
           /\ Slot(q[2]) # 0 =>
                 Layout(q)[Slot(q[2])] = Own(q[1], q[2], q[3], Slot(q[2]))
           /\ \A i \in DOMAIN Layout(q) : i # Slot(q[2]) => ~IsWeightBo(Layout(q)[i])
<1>0. PICK t \in Tasks : \E j \in 1..Len(Program(t)) : q = Key(Program(t)[j])
  BY DEF IsKey
<1>1. PICK j \in 1..Len(Program(t)) : q = Key(Program(t)[j])
  BY <1>0
<1> DEFINE d == Program(t)[j]
<1>2. Fits(d) /\ q = Key(d)
  BY <1>1, Shapes
<1> HIDE DEF d
<1>3. q = <<d.c, d.k, d.l>>
  BY <1>2 DEF Key
<1>4. q[1] = d.c /\ q[2] = d.k /\ q[3] = d.l
  BY <1>3
<1> QED
  BY <1>2, <1>3, <1>4 DEF Fits

-----------------------------------------------------------------------------
(* Which call binds which key.                                             *)

LEMMA BlockKeys ==
    ASSUME NEW l
    PROVE  /\ Key(PrefillBlock(l)[1]) = <<"prefill", "rms_gemms_rope", l>>
           /\ Key(PrefillBlock(l)[2]) = <<"prefill", "flash_attn", 0>>
           /\ Key(PrefillBlock(l)[3]) = <<"prefill", "o_ffn", l>>
           /\ Key(DecodeBlock(l)[1]) = <<"decode", "rms_gemv_rope", l>>
           /\ Key(DecodeBlock(l)[2]) = <<"decode", "o_gemv_ffn", l>>
           /\ Key(ChainBlock(l)[1]) = <<"vision", "vit_ln_qkv", l>>
           /\ Key(ChainBlock(l)[2]) = <<"vision", "flash_attn", 0>>
           /\ Key(ChainBlock(l)[3]) = <<"vision", "vit_o_ffn", l>>
           /\ Key(CpuBlock(l)[1]) = <<"vision", "vit_ln_qkv", l>>
           /\ Key(CpuBlock(l)[2]) = <<"vision", "vit_o_ffn", l>>
           /\ Key(LmHead) = <<"decode", "lm_head_gemv", 0>>
           /\ Key(Connector[1]) = <<"vision", "layer_norm", 0>>
           /\ Key(Connector[2]) = <<"vision", "gemm_connector", 0>>
  BY DEF PrefillBlock, DecodeBlock, ChainBlock, CpuBlock, LmHead, Connector, Call, Key

LEMMA KeyKernel == ASSUME NEW d, NEW c, NEW k, NEW l, Key(d) = <<c, k, l>> PROVE d.c = c /\ d.k = k /\ d.l = l
  BY DEF Key

LEMMA PreloadKey == ASSUME NEW d, IsCall(d) PROVE Key(Preload(d)) = Key(d)
  BY PreloadFields DEF Key

LEMMA PrepareKeys ==
    /\ \A l \in 1..NLayers :
          /\ Key(Program("prepare")[2*l - 1]) = <<"prefill", "rms_gemms_rope", l>>
          /\ Key(Program("prepare")[2*l]) = <<"prefill", "o_ffn", l>>
          /\ Key(Program("prepare")[2*NLayers + 2*l - 1]) = <<"decode", "rms_gemv_rope", l>>
          /\ Key(Program("prepare")[2*NLayers + 2*l]) = <<"decode", "o_gemv_ffn", l>>
    /\ Key(Program("prepare")[4*NLayers + 1]) = <<"decode", "lm_head_gemv", 0>>
  BY PrepareCalls, PreloadKey, BlockKeys, AreCalls

\* The keys of a call of each program.
LEMMA LlamaKeys ==
    ASSUME NEW t \in {"prepare", "prefill", "decode"}, NEW j \in 1..Len(Program(t))
    PROVE  LET q == Key(Program(t)[j])
           IN  \/ q = <<"prefill", "flash_attn", 0>> \/ q = <<"decode", "lm_head_gemv", 0>>
               \/ \E l \in 1..NLayers : q \in {<<"prefill", "rms_gemms_rope", l>>,
                                               <<"prefill", "o_ffn", l>>,
                                               <<"decode", "rms_gemv_rope", l>>,
                                               <<"decode", "o_gemv_ffn", l>>}
<1>1. CASE t = "prepare"
  <2>1. j \in 1..(4*NLayers + 1)
    BY <1>1, PrepareCalls
  <2>2. CASE j = 4*NLayers + 1
    BY <1>1, <2>2, PrepareKeys
  <2>3. CASE j # 4*NLayers + 1
    <3>1. PICK l \in 1..NLayers : \/ j \in {2*l - 1, 2*l}
                                  \/ j \in {2*NLayers + 2*l - 1, 2*NLayers + 2*l}
      BY <2>1, <2>3, PrepareCover
    <3>2. /\ Key(Program("prepare")[2*l - 1]) = <<"prefill", "rms_gemms_rope", l>>
          /\ Key(Program("prepare")[2*l]) = <<"prefill", "o_ffn", l>>
          /\ Key(Program("prepare")[2*NLayers + 2*l - 1]) = <<"decode", "rms_gemv_rope", l>>
          /\ Key(Program("prepare")[2*NLayers + 2*l]) = <<"decode", "o_gemv_ffn", l>>
      BY PrepareKeys
    <3> QED
      BY <1>1, <3>1, <3>2
  <2> QED
    BY <2>2, <2>3
<1>2. CASE t = "prefill"
  <2>1. j \in 1..(3*NLayers + 1)
    BY <1>2, PrefillCalls
  <2>2. CASE j = 3*NLayers + 1
    BY <1>2, <2>2, PrefillCalls, BlockKeys
  <2>3. CASE j \in 1..(3*NLayers)
    <3>1. PICK l \in 1..NLayers : j \in {3*l - 2, 3*l - 1, 3*l}
      BY <2>3, ThirdsCover
    <3>2. /\ Key(Program("prefill")[3*l - 2]) = <<"prefill", "rms_gemms_rope", l>>
          /\ Key(Program("prefill")[3*l - 1]) = <<"prefill", "flash_attn", 0>>
          /\ Key(Program("prefill")[3*l]) = <<"prefill", "o_ffn", l>>
      BY PrefillCalls, BlockKeys
    <3> QED
      BY <1>2, <3>1, <3>2
  <2> QED
    BY <2>1, <2>2, <2>3, SizesAssumption
<1>3. CASE t = "decode"
  <2>1. j \in 1..(2*NLayers + 1)
    BY <1>3, DecodeCalls
  <2>2. CASE j = 2*NLayers + 1
    BY <1>3, <2>2, DecodeCalls, BlockKeys
  <2>3. CASE j \in 1..(2*NLayers)
    <3>1. PICK l \in 1..NLayers : j \in {2*l - 1, 2*l}
      BY <2>3, HalvesCover
    <3>2. /\ Key(Program("decode")[2*l - 1]) = <<"decode", "rms_gemv_rope", l>>
          /\ Key(Program("decode")[2*l]) = <<"decode", "o_gemv_ffn", l>>
      BY DecodeCalls, BlockKeys
    <3> QED
      BY <1>3, <3>1, <3>2
  <2> QED
    BY <2>1, <2>2, <2>3, SizesAssumption
<1> QED
  BY <1>1, <1>2, <1>3

LEMMA VisionKeys ==
    ASSUME NEW t \in {"chain", "cpu"}, NEW j \in 1..Len(Program(t))
    PROVE  LET q == Key(Program(t)[j])
           IN  \/ q \in {<<"vision", "layer_norm", 0>>, <<"vision", "gemm_connector", 0>>,
                         <<"vision", "flash_attn", 0>>}
               \/ \E l \in 1..NLayers :
                     q \in {<<"vision", "vit_ln_qkv", l>>, <<"vision", "vit_o_ffn", l>>}
<1>1. CASE t = "chain"
  <2>1. j \in 1..(3*NLayers + 2)
    BY <1>1, ChainCalls
  <2>2. CASE j \in {3*NLayers + 1, 3*NLayers + 2}
    BY <1>1, <2>2, ChainCalls, BlockKeys
  <2>3. CASE j \in 1..(3*NLayers)
    <3>1. PICK l \in 1..NLayers : j \in {3*l - 2, 3*l - 1, 3*l}
      BY <2>3, ThirdsCover
    <3>2. /\ Key(Program("chain")[3*l - 2]) = <<"vision", "vit_ln_qkv", l>>
          /\ Key(Program("chain")[3*l - 1]) = <<"vision", "flash_attn", 0>>
          /\ Key(Program("chain")[3*l]) = <<"vision", "vit_o_ffn", l>>
      BY ChainCalls, BlockKeys
    <3> QED
      BY <1>1, <3>1, <3>2
  <2> QED
    BY <2>1, <2>2, <2>3, SizesAssumption
<1>2. CASE t = "cpu"
  <2>1. j \in 1..(2*NLayers + 2)
    BY <1>2, CpuCalls
  <2>2. CASE j \in {2*NLayers + 1, 2*NLayers + 2}
    BY <1>2, <2>2, CpuCalls, BlockKeys
  <2>3. CASE j \in 1..(2*NLayers)
    <3>1. PICK l \in 1..NLayers : j \in {2*l - 1, 2*l}
      BY <2>3, HalvesCover
    <3>2. /\ Key(Program("cpu")[2*l - 1]) = <<"vision", "vit_ln_qkv", l>>
          /\ Key(Program("cpu")[2*l]) = <<"vision", "vit_o_ffn", l>>
      BY CpuCalls, BlockKeys
    <3> QED
      BY <1>2, <3>1, <3>2
  <2> QED
    BY <2>1, <2>2, <2>3, SizesAssumption
<1> QED
  BY <1>1, <1>2

\* Once the first half of the preload is done every prefill kernel with weights
\* is bound in every layer, and once all of it is done every Llama kernel is.
LEMMA PreparedKeys ==
    ASSUME NEW n \in {2*NLayers, 4*NLayers + 1}, Bound("prepare", n), NEW l \in 1..NLayers
    PROVE  /\ <<"prefill", "rms_gemms_rope", l>> \in DOMAIN bos
           /\ <<"prefill", "o_ffn", l>> \in DOMAIN bos
           /\ n = 4*NLayers + 1 => /\ <<"decode", "rms_gemv_rope", l>> \in DOMAIN bos
                                   /\ <<"decode", "o_gemv_ffn", l>> \in DOMAIN bos
                                   /\ <<"decode", "lm_head_gemv", 0>> \in DOMAIN bos
<1>1. 2*l - 1 \in 1..n /\ 2*l \in 1..n
  BY SizesAssumption
<1>2. n = 4*NLayers + 1 => /\ 2*NLayers + 2*l - 1 \in 1..n /\ 2*NLayers + 2*l \in 1..n
                           /\ 4*NLayers + 1 \in 1..n
  BY SizesAssumption
<1>3. \A j \in 1..n : Key(Program("prepare")[j]) \in DOMAIN bos
  BY DEF Bound
<1> QED
  BY <1>1, <1>2, <1>3, PrepareKeys

LEMMA Preloaded ==
    ASSUME Bound("prepare", Len(Program("prepare"))),
           NEW t \in {"prepare", "prefill", "decode"}, NEW j \in 1..Len(Program(t)),
           Slot(Program(t)[j].k) # 0
    PROVE  Key(Program(t)[j]) \in DOMAIN bos
<1> DEFINE q == Key(Program(t)[j])
<1>1. Bound("prepare", 4*NLayers + 1)
  BY PrepareCalls
<1>2. q # <<"prefill", "flash_attn", 0>>
  BY KeyKernel DEF Slot
<1>3. 1 \in 1..NLayers
  BY SizesAssumption
<1>4. \/ q = <<"prefill", "flash_attn", 0>> \/ q = <<"decode", "lm_head_gemv", 0>>
      \/ \E l \in 1..NLayers : q \in {<<"prefill", "rms_gemms_rope", l>>,
                                      <<"prefill", "o_ffn", l>>,
                                      <<"decode", "rms_gemv_rope", l>>,
                                      <<"decode", "o_gemv_ffn", l>>}
  BY LlamaKeys
<1> HIDE DEF q
<1>5. \A l \in 1..NLayers : /\ <<"prefill", "rms_gemms_rope", l>> \in DOMAIN bos
                            /\ <<"prefill", "o_ffn", l>> \in DOMAIN bos
                            /\ <<"decode", "rms_gemv_rope", l>> \in DOMAIN bos
                            /\ <<"decode", "o_gemv_ffn", l>> \in DOMAIN bos
                            /\ <<"decode", "lm_head_gemv", 0>> \in DOMAIN bos
  BY <1>1, PreparedKeys
<1>6. q \in DOMAIN bos
  BY <1>2, <1>3, <1>4, <1>5
<1> QED
  BY <1>6 DEF q

\* The kernels whose host weights _free_original_weight_numpy and
\* _free_transposed_weight_numpy drop are bound everywhere by then.
LEMMA FreedBound ==
    ASSUME NEW n \in {2*NLayers, 4*NLayers + 1}, Bound("prepare", n),
           NEW t \in Tasks, NEW j \in 1..Len(Program(t)),
           Program(t)[j].k \in IF n = 2*NLayers THEN {"rms_gemms_rope", "o_ffn"}
                               ELSE {"rms_gemv_rope", "o_gemv_ffn"}
    PROVE  Key(Program(t)[j]) \in DOMAIN bos
<1> DEFINE d == Program(t)[j]
<1>1. n # 2*NLayers => n = 4*NLayers + 1
  OBVIOUS
<1>2. CASE t \in {"chain", "cpu"}
  <2>1. \/ Key(d) \in {<<"vision", "layer_norm", 0>>, <<"vision", "gemm_connector", 0>>,
                       <<"vision", "flash_attn", 0>>}
        \/ \E l \in 1..NLayers :
              Key(d) \in {<<"vision", "vit_ln_qkv", l>>, <<"vision", "vit_o_ffn", l>>}
    BY <1>2, VisionKeys
  <2> HIDE DEF d
  <2>2. d.k \in {"layer_norm", "gemm_connector", "flash_attn", "vit_ln_qkv", "vit_o_ffn"}
    BY <2>1, KeyKernel
  <2> QED
    BY <2>2 DEF d
<1>3. CASE t \in {"prepare", "prefill", "decode"}
  <2>1. \/ Key(d) = <<"prefill", "flash_attn", 0>> \/ Key(d) = <<"decode", "lm_head_gemv", 0>>
        \/ \E l \in 1..NLayers : Key(d) \in {<<"prefill", "rms_gemms_rope", l>>,
                                             <<"prefill", "o_ffn", l>>,
                                             <<"decode", "rms_gemv_rope", l>>,
                                             <<"decode", "o_gemv_ffn", l>>}
    BY <1>3, LlamaKeys
  <2>2. d.k \notin {"flash_attn", "lm_head_gemv"}
    OBVIOUS
  <2> HIDE DEF d
  <2>3. PICK l \in 1..NLayers : Key(d) \in {<<"prefill", "rms_gemms_rope", l>>,
                                            <<"prefill", "o_ffn", l>>,
                                            <<"decode", "rms_gemv_rope", l>>,
                                            <<"decode", "o_gemv_ffn", l>>}
    BY <2>1, <2>2, KeyKernel
  <2>4. d.k = Key(d)[2]
    BY DEF Key
  <2>5. \/ Key(d) \in {<<"prefill", "rms_gemms_rope", l>>, <<"prefill", "o_ffn", l>>}
        \/ n = 4*NLayers + 1
    BY <1>1, <2>3, <2>4 DEF d
  <2>6. Key(d) \in DOMAIN bos
    BY <2>3, <2>5, PreparedKeys
  <2> QED
    BY <2>6 DEF d
<1> QED
  BY <1>2, <1>3 DEF Tasks

\* The warm-up image binds every key of the vision encoder.
LEMMA Warmed ==
    ASSUME Bound("chain", Len(Program("chain"))),
           NEW t \in {"chain", "cpu"}, NEW j \in 1..Len(Program(t))
    PROVE  Key(Program(t)[j]) \in DOMAIN bos
<1> DEFINE q == Key(Program(t)[j])
<1>1. \A i \in 1..(3*NLayers + 2) : Key(Program("chain")[i]) \in DOMAIN bos
  BY ChainCalls DEF Bound
<1>2. 3*NLayers + 1 \in 1..(3*NLayers + 2) /\ 3*NLayers + 2 \in 1..(3*NLayers + 2)
  BY SizesAssumption
<1>3. \A l \in 1..NLayers : /\ 3*l - 2 \in 1..(3*NLayers + 2)
                            /\ 3*l - 1 \in 1..(3*NLayers + 2)
                            /\ 3*l \in 1..(3*NLayers + 2)
  BY SizesAssumption
<1>4. 1 \in 1..NLayers
  BY SizesAssumption
<1>5. \/ q \in {<<"vision", "layer_norm", 0>>, <<"vision", "gemm_connector", 0>>,
                <<"vision", "flash_attn", 0>>}
      \/ \E l \in 1..NLayers :
            q \in {<<"vision", "vit_ln_qkv", l>>, <<"vision", "vit_o_ffn", l>>}
  BY VisionKeys
<1> HIDE DEF q
<1>6. /\ <<"vision", "layer_norm", 0>> \in DOMAIN bos
      /\ <<"vision", "gemm_connector", 0>> \in DOMAIN bos
  BY <1>1, <1>2, ChainCalls, BlockKeys
<1>7. \A l \in 1..NLayers : /\ <<"vision", "vit_ln_qkv", l>> \in DOMAIN bos
                            /\ <<"vision", "flash_attn", 0>> \in DOMAIN bos
                            /\ <<"vision", "vit_o_ffn", l>> \in DOMAIN bos
  BY <1>1, <1>3, ChainCalls, BlockKeys
<1>8. q \in DOMAIN bos
  BY <1>4, <1>5, <1>6, <1>7
<1> QED
  BY <1>8 DEF q

-----------------------------------------------------------------------------
(* The steps of a call.                                                    *)

\* The call in progress.
LEMMA NowCall ==
    ASSUME TaskInv, task \in Tasks
    PROVE  /\ ip \in 1..Len(Program(task)) /\ Len(Program(task)) \in Nat
           /\ Now = Program(task)[ip] /\ Fits(Now) /\ IsKey(Key(Now))
           /\ task # "cpu" => Binds(Now)
<1>1. ip \in 1..Len(Program(task)) /\ Len(Program(task)) \in Nat
  BY ProgramsValid DEF TaskInv
<1>2. Now = Program(task)[ip]
  BY DEF Now
<1> HIDE DEF Now
<1> QED
  BY <1>1, <1>2, Shapes DEF IsKey

LEMMA SameNow == ASSUME task' = task, ip' = ip PROVE Now' = Now /\ Key(Now)' = Key(Now)
<1>1. Program(task)' = Program(task)
  BY DEF Program
<1>2. Now' = Now
  BY <1>1 DEF Now
<1> QED
  BY <1>2 DEF Key

\* Bind leaves what is bound and what the buffers hold; the key of a call of
\* the host-attention path is bound already.
LEMMA BindEffect ==
    ASSUME TaskInv, BindInv, ReadyInv, Bind
    PROVE  /\ task \in Tasks /\ UNCHANGED <<app, task, ip, req, tok, warmed, regs, kv, dropped, out>>
           /\ \A b \in DOMAIN mem : b \in DOMAIN mem' /\ mem'[b] = mem[b]
           /\ \A q \in DOMAIN bos : q \in DOMAIN bos' /\ bos'[q] = bos[q]
           /\ DOMAIN bos' = DOMAIN bos \union {Key(Now)}
           /\ \/ dstep' = "reuse" /\ bos' = bos /\ mem' = mem
              \/ /\ dstep' = "first" /\ Key(Now) \notin DOMAIN bos
                 /\ DOMAIN bos'[Key(Now)] = DOMAIN Layout(Key(Now))
                 /\ \A i \in DOMAIN Layout(Key(Now)) :
                       /\ bos'[Key(Now)][i] = Layout(Key(Now))[i]
                       /\ Layout(Key(Now))[i] \in DOMAIN mem'
<1> DEFINE d == Now
           q0 == Key(Now)
           new == {BoFor(d, i) : i \in DOMAIN d.args} \ DOMAIN mem
<1>1. task \in Tasks
  BY DEF Bind, TaskInv
<1>2. UNCHANGED <<app, task, ip, req, tok, warmed, regs, kv, dropped, out>>
  BY DEF Bind
<1>3. \/ q0 \in DOMAIN bos /\ dstep' = "reuse" /\ bos' = bos /\ mem' = mem
      \/ /\ q0 \notin DOMAIN bos /\ dstep' = "first"
         /\ bos' = [q \in DOMAIN bos \union {q0} |->
                      IF q = q0 THEN [i \in DOMAIN d.args |-> BoFor(d, i)] ELSE bos[q]]
         /\ mem' = [b \in DOMAIN mem \union new |-> IF b \in new THEN Undef ELSE mem[b]]
  BY DEF Bind
<1>4. /\ Fits(d) /\ (task # "cpu" => Binds(d))
      /\ ip \in 1..Len(Program(task)) /\ q0 = Key(Program(task)[ip])
  BY <1>1, NowCall
<1>5. q0 \notin DOMAIN bos => Binds(d)
  <2>1. task = "cpu" => q0 \in DOMAIN bos
    BY <1>4, Warmed DEF ReadyInv
  <2> QED
    BY <1>4, <2>1
<1> HIDE DEF d, q0, new
<1>6. CASE q0 \in DOMAIN bos
  BY <1>1, <1>2, <1>3, <1>6 DEF q0
<1>7. CASE q0 \notin DOMAIN bos
  <2>1. /\ DOMAIN d.args = 1..Len(d.args) /\ DOMAIN Layout(q0) = 1..Len(d.args)
        /\ \A i \in DOMAIN d.args : BoFor(d, i) = Layout(q0)[i]
    BY <1>4, <1>5, <1>7 DEF Fits, Binds, q0, d
  <2>2. DOMAIN bos' = DOMAIN bos \union {q0} /\ \A q \in DOMAIN bos : bos'[q] = bos[q]
    BY <1>3, <1>7
  <2>3. bos'[q0] = [i \in DOMAIN d.args |-> BoFor(d, i)]
    BY <1>3, <1>7
  <2>4. \A b \in DOMAIN mem : b \in DOMAIN mem' /\ mem'[b] = mem[b]
    BY <1>3, <1>7 DEF new
  <2>5. \A i \in DOMAIN d.args : BoFor(d, i) \in DOMAIN mem'
    BY <1>3, <1>7 DEF new
  <2> QED
    BY <1>1, <1>2, <1>3, <1>7, <2>1, <2>2, <2>3, <2>4, <2>5 DEF q0
<1> QED
  BY <1>6, <1>7

LEMMA PutEffect ==
    ASSUME NEW d, NEW first, NEW m, NEW i
    PROVE  /\ DOMAIN Put(d, first, m, i) = DOMAIN m
           /\ \A b \in DOMAIN m :
                 i \notin DOMAIN d.args \/ b # bos[Key(d)][i] \/ Skipped(d.args[i], first) =>
                    Put(d, first, m, i)[b] = m[b]
           /\ \A v : /\ i \in DOMAIN d.args /\ ~Skipped(d.args[i], first)
                     /\ HostArray(d, d.args[i], m) = v /\ v # EmptyArray
                     /\ bos[Key(d)][i] \in DOMAIN m
                     => Put(d, first, m, i)[bos[Key(d)][i]] = v
  BY DEF Put

\* The call that dstep says is in progress: its key is bound to Layout.
LEMMA CallBound ==
    ASSUME TaskInv, BindInv, dstep # "bind"
    PROVE  /\ task \in Tasks /\ Fits(Now) /\ Key(Now) \in DOMAIN bos
           /\ \A i \in 1..Len(Now.args) : /\ bos[Key(Now)][i] = Layout(Key(Now))[i]
                                          /\ Layout(Key(Now))[i] \in DOMAIN mem
<1>1. task \in Tasks
  BY DEF TaskInv
<1>2. Fits(Now) /\ Key(Now) \in DOMAIN bos
  BY <1>1, NowCall DEF BindInv
<1> HIDE DEF Now
<1>3. DOMAIN Layout(Key(Now)) = 1..Len(Now.args)
  BY <1>2 DEF Fits
<1> QED
  BY <1>1, <1>2, <1>3 DEF BindInv

\* A buffer that no argument of the call is copied to.
LEMMA WriteUntouched ==
    ASSUME TaskInv, BindInv, WriteInputs
    PROVE  /\ DOMAIN mem' = DOMAIN mem
           /\ \A b \in DOMAIN mem :
                 (\A j \in 1..Len(Now.args) : b # Layout(Key(Now))[j]
                                              \/ Skipped(Now.args[j], dstep = "first"))
                 => mem'[b] = mem[b]
<1> DEFINE d == Now
           f == (dstep = "first")
           m1 == Put(d, f, mem, 1)
           m2 == Put(d, f, m1, 2)
           m3 == Put(d, f, m2, 3)
           m4 == Put(d, f, m3, 4)
<1>1. mem' = m4
  BY DEF WriteInputs, Written
<1>2. /\ Fits(d)
      /\ \A i \in 1..Len(d.args) : bos[Key(d)][i] = Layout(Key(d))[i]
  BY CallBound DEF WriteInputs
<1>3. DOMAIN d.args = 1..Len(d.args)
  BY <1>2 DEF Fits
<1> HIDE DEF d, f
<1>4. /\ DOMAIN m1 = DOMAIN mem /\ DOMAIN m2 = DOMAIN m1 /\ DOMAIN m3 = DOMAIN m2
      /\ DOMAIN m4 = DOMAIN m3
  BY PutEffect
<1>5. ASSUME NEW b \in DOMAIN mem,
             \A j \in 1..Len(d.args) : b # Layout(Key(d))[j] \/ Skipped(d.args[j], f)
      PROVE  m4[b] = mem[b]
  <2>1. \A j : j \notin DOMAIN d.args \/ b # bos[Key(d)][j] \/ Skipped(d.args[j], f)
    BY <1>2, <1>3, <1>5
  <2> HIDE DEF m1, m2, m3, m4
  <2>2. m1[b] = mem[b]
    BY <2>1, PutEffect DEF m1
  <2>3. m2[b] = m1[b]
    BY <1>4, <2>1, PutEffect DEF m2
  <2>4. m3[b] = m2[b]
    BY <1>4, <2>1, PutEffect DEF m3
  <2>5. m4[b] = m3[b]
    BY <1>4, <2>1, PutEffect DEF m4
  <2> QED
    BY <2>2, <2>3, <2>4, <2>5
<1> QED
  BY <1>1, <1>4, <1>5 DEF d, f

\* Memory m, when argument i of the call is about to be copied.
BeforePut(i, m) ==
    /\ DOMAIN m = DOMAIN mem
    /\ \A b \in DOMAIN mem : (\A j \in 1..(i - 1) : b # Layout(Key(Now))[j]) => m[b] = mem[b]

\* An argument that is copied.
LEMMA WriteInput ==
    ASSUME TaskInv, BindInv, WriteInputs, NEW i \in 1..Len(Now.args),
           ~Skipped(Now.args[i], dstep = "first"), NEW v, v # EmptyArray,
           \A m : BeforePut(i, m) => HostArray(Now, Now.args[i], m) = v
    PROVE  mem'[Layout(Key(Now))[i]] = v
<1> DEFINE d == Now
           f == (dstep = "first")
           L == Layout(Key(Now))
           n == Len(Now.args)
           m1 == Put(d, f, mem, 1)
           m2 == Put(d, f, m1, 2)
           m3 == Put(d, f, m2, 3)
           m4 == Put(d, f, m3, 4)
<1>1. mem' = m4
  BY DEF WriteInputs, Written
<1>2. /\ Fits(d)
      /\ \A k \in 1..n : bos[Key(d)][k] = L[k] /\ L[k] \in DOMAIN mem
  BY CallBound DEF WriteInputs
<1>3. DOMAIN d.args = 1..n /\ n \in 2..4 /\ \A k, j \in 1..n : k # j => L[k] # L[j]
  BY <1>2 DEF Fits
<1>4. /\ i \in 1..n /\ i \in DOMAIN d.args /\ ~Skipped(d.args[i], f) /\ bos[Key(d)][i] = L[i]
      /\ L[i] \in DOMAIN mem
      /\ \A m : /\ DOMAIN m = DOMAIN mem
                /\ \A b \in DOMAIN mem : (\A j \in 1..(i - 1) : b # L[j]) => m[b] = mem[b]
                => HostArray(d, d.args[i], m) = v
  BY <1>2, <1>3 DEF BeforePut
<1> HIDE DEF d, f, L, n
<1>5. /\ DOMAIN m1 = DOMAIN mem /\ DOMAIN m2 = DOMAIN mem /\ DOMAIN m3 = DOMAIN mem
      /\ DOMAIN m4 = DOMAIN mem
  BY PutEffect
<1> HIDE DEF m1, m2, m3, m4
<1>6. /\ \A b \in DOMAIN mem : b # L[1] => m1[b] = mem[b]
      /\ \A b \in DOMAIN mem : b # L[2] => m2[b] = m1[b]
      /\ \A b \in DOMAIN mem : (3 \in 1..n => b # L[3]) => m3[b] = m2[b]
      /\ \A b \in DOMAIN mem : (4 \in 1..n => b # L[4]) => m4[b] = m3[b]
  <2>1. 1 \in 1..n /\ 2 \in 1..n
    BY <1>3
  <2> QED
    BY <1>2, <1>3, <1>5, <2>1, PutEffect DEF m1, m2, m3, m4
<1>7. CASE i = 1
  <2>1. HostArray(d, d.args[i], mem) = v
    BY <1>4
  <2>2. m1[L[i]] = v
    BY <1>4, <1>7, <2>1, PutEffect DEF m1
  <2>3. m4[L[i]] = m1[L[i]]
    BY <1>3, <1>4, <1>6, <1>7
  <2> QED
    BY <1>1, <2>2, <2>3 DEF L
<1>8. CASE i = 2
  <2>1. HostArray(d, d.args[i], m1) = v
    BY <1>4, <1>5, <1>6, <1>8
  <2>2. m2[L[i]] = v
    BY <1>4, <1>5, <1>8, <2>1, PutEffect DEF m2
  <2>3. m4[L[i]] = m2[L[i]]
    BY <1>3, <1>4, <1>6, <1>8
  <2> QED
    BY <1>1, <2>2, <2>3 DEF L
<1>9. CASE i = 3
  <2>1. HostArray(d, d.args[i], m2) = v
    BY <1>4, <1>5, <1>6, <1>9
  <2>2. m3[L[i]] = v
    BY <1>4, <1>5, <1>9, <2>1, PutEffect DEF m3
  <2>3. m4[L[i]] = m3[L[i]]
    BY <1>3, <1>4, <1>6, <1>9
  <2> QED
    BY <1>1, <2>2, <2>3 DEF L
<1>10. CASE i = 4
  <2>1. HostArray(d, d.args[i], m3) = v
    BY <1>4, <1>5, <1>6, <1>10
  <2>2. m4[L[i]] = v
    BY <1>4, <1>5, <1>10, <2>1, PutEffect DEF m4
  <2> QED
    BY <1>1, <2>2 DEF L
<1> QED
  BY <1>3, <1>4, <1>7, <1>8, <1>9, <1>10

LEMMA WriteVal ==
    ASSUME TaskInv, BindInv, WriteInputs, NEW i \in 1..Len(Now.args), Now.args[i].role = "plain",
           Now.args[i].src \notin {"zeros", "weight"},
           NEW v, v # EmptyArray, regs[Now.args[i].src] = Val(v)
    PROVE  mem'[Layout(Key(Now))[i]] = v
<1> HIDE DEF Now
<1>1. ~Skipped(Now.args[i], dstep = "first")
  BY DEF Skipped
<1>2. \A m : HostArray(Now, Now.args[i], m) = v
  BY DEF HostArray, Get, Val
<1> QED
  BY <1>1, <1>2, WriteInput

LEMMA WriteView ==
    ASSUME TaskInv, BindInv, WriteInputs, NEW i \in 1..Len(Now.args), Now.args[i].role = "plain",
           Now.args[i].src \notin {"zeros", "weight"},
           NEW v, v # EmptyArray, NEW b, b # NoBo, regs[Now.args[i].src] = View(b), At(b, v),
           \A j \in 1..(i - 1) : b # Layout(Key(Now))[j]
    PROVE  mem'[Layout(Key(Now))[i]] = v
<1> HIDE DEF Now
<1>1. ~Skipped(Now.args[i], dstep = "first")
  BY DEF Skipped
<1>2. \A m : HostArray(Now, Now.args[i], m) = m[b]
  BY DEF HostArray, Get, View
<1>3. \A m : BeforePut(i, m) => m[b] = v
  BY DEF BeforePut, At
<1>4. \A m : BeforePut(i, m) => HostArray(Now, Now.args[i], m) = v
  BY <1>2, <1>3
<1> HIDE <1>2, <1>3
<1> QED
  BY <1>1, <1>4, WriteInput

\* The first call of a key writes its weights if the host still has them.
LEMMA WriteWeight ==
    ASSUME TaskInv, BindInv, WriteInputs, Slot(Now.k) # 0, Now.k \notin dropped
    PROVE  dstep = "first" =>
              mem'[Layout(Key(Now))[Slot(Now.k)]] = WeightOf(Now.k, Now.l)
<1> DEFINE i == Slot(Now.k)
           w == WeightOf(Now.k, Now.l)
<1> HIDE DEF Now
<1>1. Fits(Now)
  BY CallBound DEF WriteInputs
<1>2. /\ i \in 1..Len(Now.args) /\ Now.args[i].role = "static" /\ Now.args[i].src = "weight"
      /\ Now.k # "empty"
  BY <1>1 DEF Fits
<1> HIDE DEF i
<1>3. \A m : HostArray(Now, Now.args[i], m) = w
  BY <1>2 DEF HostArray
<1>4. w # EmptyArray
  BY <1>2 DEF WeightOf, EmptyArray, Special
<1> HIDE DEF w
<1>5. ~Skipped(Now.args[i], dstep = "first") => mem'[Layout(Key(Now))[i]] = w
  BY <1>2, <1>3, <1>4, WriteInput
<1>6. dstep = "first" => ~Skipped(Now.args[i], dstep = "first")
  BY <1>2 DEF Skipped
<1> QED
  BY <1>5, <1>6 DEF i, w

\* A buffer that holds the weights of another key, or of this one when it was
\* bound before.
LEMMA WriteKeepsWeights ==
    ASSUME TaskInv, BindInv, WriteInputs, NEW q \in DOMAIN bos, Slot(q[2]) # 0,
           ~(dstep = "first" /\ q = Key(Now))
    PROVE  mem'[Layout(q)[Slot(q[2])]] = mem[Layout(q)[Slot(q[2])]]
<1> DEFINE b == Layout(q)[Slot(q[2])]
           p == Key(Now)
<1> HIDE DEF Now
<1>1. IsKey(q) /\ q = <<q[1], q[2], q[3]>> /\ b = Own(q[1], q[2], q[3], Slot(q[2])) /\ b \in DOMAIN mem
  <2>1. IsKey(q)
    BY DEF BindInv
  <2>2. Slot(q[2]) \in DOMAIN Layout(q)
    BY <2>1, KeyShape
  <2> QED
    BY <2>1, <2>2, KeyShape DEF BindInv
<1>2. IsWeightBo(b)
  BY <1>1 DEF IsWeightBo, Own
<1>3. Fits(Now)
  BY CallBound DEF WriteInputs
<1>4. ASSUME NEW j \in 1..Len(Now.args)
      PROVE  b # Layout(p)[j] \/ Skipped(Now.args[j], dstep = "first")
  <2>1. CASE j # Slot(Now.k)
    BY <1>2, <1>3, <2>1 DEF Fits
  <2>2. CASE j = Slot(Now.k) /\ q = p
    BY <1>3, <2>2 DEF Fits, Skipped, WriteInputs
  <2>3. CASE j = Slot(Now.k) /\ q # p
    <3>1. Layout(p)[j] = Own(Now.c, Now.k, Now.l, j)
      BY <1>3, <2>3 DEF Fits
    <3>2. p = <<Now.c, Now.k, Now.l>>
      BY DEF Key
    <3> QED
      BY <1>1, <2>3, <3>1, <3>2 DEF Own
  <2> QED
    BY <2>1, <2>2, <2>3
<1> QED
  BY <1>1, <1>4, WriteUntouched

-----------------------------------------------------------------------------
(* Which keys are bound, and their weights.                                *)

Books == BindInv /\ ReadyInv /\ DropInv /\ WeightInv

\* What the books say does not depend on more of the session than this.
LEMMA SameBooks ==
    ASSUME Books, UNCHANGED <<app, task, ip, dstep, warmed, bos, mem, dropped>> PROVE Books'
<1>1. Now' = Now /\ Key(Now)' = Key(Now)
  BY SameNow
<1>2. BindInv'
  BY <1>1 DEF Books, BindInv, IsKey
<1>3. ReadyInv'
  BY DEF Books, ReadyInv, Bound
<1>4. DropInv'
  BY <1>1 DEF Books, DropInv
<1>5. WeightInv'
  BY <1>1 DEF Books, WeightInv
<1> QED
  BY <1>2, <1>3, <1>4, <1>5 DEF Books

LEMMA BoundStays ==
    ASSUME ReadyInv, DOMAIN bos \subseteq DOMAIN bos', UNCHANGED <<app, task, ip, warmed>>
    PROVE  ReadyInv'
<1>1. \A t, n : Bound(t, n) => \A j \in 1..n : Key(Program(t)[j]) \in DOMAIN bos'
  BY DEF Bound
<1> QED
  BY <1>1 DEF ReadyInv, Bound

LEMMA BindBooks == ASSUME TaskInv, Books, Bind PROVE Books'
<1> USE DEF Books
<1> DEFINE p == Key(Now)
<1>1. /\ task \in Tasks /\ UNCHANGED <<app, task, ip, req, tok, warmed, regs, kv, dropped, out>>
      /\ \A b \in DOMAIN mem : b \in DOMAIN mem' /\ mem'[b] = mem[b]
      /\ \A q \in DOMAIN bos : q \in DOMAIN bos' /\ bos'[q] = bos[q]
      /\ DOMAIN bos' = DOMAIN bos \union {p}
      /\ \/ dstep' = "reuse" /\ bos' = bos /\ mem' = mem
         \/ /\ dstep' = "first" /\ p \notin DOMAIN bos
            /\ DOMAIN bos'[p] = DOMAIN Layout(p)
            /\ \A i \in DOMAIN Layout(p) : bos'[p][i] = Layout(p)[i] /\ Layout(p)[i] \in DOMAIN mem'
  BY BindEffect
<1>2. IsKey(p) /\ ip \in 1..Len(Program(task)) /\ p = Key(Program(task)[ip]) /\ Now = Program(task)[ip]
  BY <1>1, NowCall
<1>3. p' = p /\ Now' = Now
  BY <1>1, SameNow
<1> HIDE DEF p
<1>4. BindInv'
  <2>1. \A q \in DOMAIN bos' :
           /\ IsKey(q) /\ DOMAIN bos'[q] = DOMAIN Layout(q)
           /\ \A i \in DOMAIN Layout(q) : bos'[q][i] = Layout(q)[i] /\ Layout(q)[i] \in DOMAIN mem'
    BY <1>1, <1>2 DEF BindInv
  <2>2. Key(Now)' \in DOMAIN bos'
    BY <1>1, <1>3 DEF p
  <2> QED
    BY <2>1, <2>2 DEF BindInv, IsKey
<1>5. ReadyInv'
  BY <1>1, BoundStays
<1>6. DropInv'
  <2>1. dstep' = "first" => Now.k \notin dropped
    BY <1>1, <1>2 DEF DropInv
  <2>2. \A t \in Tasks : \A j \in 1..Len(Program(t)) :
           Program(t)[j].k \in dropped => Key(Program(t)[j]) \in DOMAIN bos'
    BY <1>1 DEF DropInv
  <2> QED
    BY <1>1, <1>3, <2>1, <2>2 DEF DropInv
<1>7. WeightInv'
  <2>1. ASSUME NEW q \in DOMAIN bos', Slot(q[2]) # 0, ~(dstep' = "first" /\ q = p)
        PROVE  mem'[Layout(q)[Slot(q[2])]] = WeightOf(q[2], q[3])
    <3>1. q \in DOMAIN bos
      BY <1>1, <2>1
    <3>2. Slot(q[2]) \in DOMAIN Layout(q)
      BY <2>1, <3>1, KeyShape DEF BindInv
    <3>3. dstep = "bind"
      BY DEF Bind
    <3>4. mem[Layout(q)[Slot(q[2])]] = WeightOf(q[2], q[3]) /\ Layout(q)[Slot(q[2])] \in DOMAIN mem
      BY <2>1, <3>1, <3>2, <3>3 DEF WeightInv, BindInv
    <3> QED
      BY <1>1, <3>4
  <2>2. ASSUME dstep' = "first", task \in {"prefill", "decode"} PROVE Slot(Now.k) = 0
    <3>1. Bound("prepare", Len(Program("prepare")))
      BY <2>2 DEF ReadyInv
    <3>2. p \notin DOMAIN bos
      BY <1>1, <2>2
    <3> QED
      BY <1>2, <2>2, <3>1, <3>2, Preloaded
  <2> QED
    BY <1>1, <1>3, <2>1, <2>2 DEF WeightInv, p
<1> QED
  BY <1>4, <1>5, <1>6, <1>7

LEMMA WriteBooks == ASSUME TaskInv, Books, WriteInputs PROVE Books'
<1> USE DEF Books
<1>1. /\ UNCHANGED <<app, task, ip, req, tok, warmed, regs, kv, dropped, bos, out>> /\ dstep' = "launch"
      /\ dstep \in {"first", "reuse"}
  BY DEF WriteInputs
<1>2. DOMAIN mem' = DOMAIN mem
  BY WriteUntouched
<1>3. Now' = Now /\ Key(Now)' = Key(Now)
  BY <1>1, SameNow
<1>4. BindInv'
  BY <1>1, <1>2, <1>3 DEF BindInv, IsKey
<1>5. ReadyInv'
  BY <1>1, BoundStays
<1>6. DropInv'
  BY <1>1 DEF DropInv
<1>7. WeightInv'
  <2>1. ASSUME NEW q \in DOMAIN bos, Slot(q[2]) # 0
        PROVE  mem'[Layout(q)[Slot(q[2])]] = WeightOf(q[2], q[3])
    <3>1. CASE ~(dstep = "first" /\ q = Key(Now))
      BY <2>1, <3>1, WriteKeepsWeights DEF WeightInv
    <3>2. CASE dstep = "first" /\ q = Key(Now)
      <4>1. Now.k \notin dropped
        BY <3>2 DEF DropInv
      <4>2. q[2] = Now.k /\ q[3] = Now.l
        BY <3>2 DEF Key
      <4> QED
        BY <2>1, <3>2, <4>1, <4>2, WriteWeight
    <3> QED
      BY <3>1, <3>2
  <2> QED
    BY <1>1, <2>1 DEF WeightInv
<1> QED
  BY <1>4, <1>5, <1>6, <1>7

\* The output of the call in progress.
Output == Layout(Key(Now))[Len(Now.args)]

\* The kernel writes its output and no other buffer.
LEMMA LaunchEffect ==
    ASSUME TaskInv, BindInv, Launch
    PROVE  /\ task \in Tasks /\ dstep = "launch" /\ dstep' = "bind" /\ UNCHANGED <<app, req, bos>>
           /\ dropped' = dropped \union Freed
           /\ Output \in DOMAIN mem /\ DOMAIN mem' = DOMAIN mem
           /\ mem' = [mem EXCEPT ![Output] = Computed(Now)]
           /\ mem'[Output] = Computed(Now)
           /\ \A b \in DOMAIN mem : b # Output => mem'[b] = mem[b]
<1>1. /\ dstep = "launch" /\ dstep' = "bind" /\ UNCHANGED <<app, req, bos>>
      /\ dropped' = dropped \union Freed
      /\ mem' = [mem EXCEPT ![bos[Key(Now)][Len(Now.args)]] = Computed(Now)]
  BY DEF Launch
<1>2. /\ task \in Tasks /\ Fits(Now)
      /\ \A i \in 1..Len(Now.args) : /\ bos[Key(Now)][i] = Layout(Key(Now))[i]
                                     /\ Layout(Key(Now))[i] \in DOMAIN mem
  BY <1>1, CallBound
<1> HIDE DEF Now
<1>3. Len(Now.args) \in 1..Len(Now.args)
  BY <1>2 DEF Fits
<1>4. bos[Key(Now)][Len(Now.args)] = Output /\ Output \in DOMAIN mem
  BY <1>2, <1>3 DEF Output
<1> HIDE DEF Output
<1> QED
  BY <1>1, <1>2, <1>4

\* Where the program goes after a call.
LEMMA LaunchMoves ==
    ASSUME Launch
    PROVE  \/ ip # Len(Program(task)) /\ ip' = ip + 1 /\ UNCHANGED <<task, tok, warmed, out>>
           \/ /\ ip = Len(Program(task)) /\ task = "prepare"
              /\ task' = "idle" /\ ip' = 1 /\ UNCHANGED <<tok, warmed, out>>
           \/ /\ ip = Len(Program(task)) /\ task \in {"chain", "cpu"}
              /\ task' = "idle" /\ ip' = 1 /\ UNCHANGED tok
           \/ /\ ip = Len(Program(task)) /\ task \in {"prefill", "decode"} /\ tok < MaxTokens
              /\ task' = "decode" /\ ip' = 1 /\ tok' = tok + 1 /\ UNCHANGED warmed
           \/ /\ ip = Len(Program(task)) /\ task = "decode"
              /\ task' = "idle" /\ ip' = 1 /\ UNCHANGED <<tok, warmed>>
  BY DEF Launch, Finish, GoIdle

LEMMA LaunchBooks == ASSUME TaskInv, Books, Launch PROVE Books'
<1> USE DEF Books
<1>1. /\ task \in Tasks /\ dstep = "launch" /\ dstep' = "bind" /\ UNCHANGED <<app, req, bos>>
      /\ dropped' = dropped \union Freed
      /\ Output \in DOMAIN mem /\ DOMAIN mem' = DOMAIN mem
      /\ \A b \in DOMAIN mem : b # Output => mem'[b] = mem[b]
  BY LaunchEffect
<1>2. BindInv'
  BY <1>1 DEF BindInv, IsKey
<1>3. /\ ip \in 1..Len(Program(task)) /\ Now = Program(task)[ip] /\ Fits(Now)
      /\ Key(Now) \in DOMAIN bos
  BY <1>1, NowCall, CallBound
<1> HIDE DEF Now
<1>4. task \in {"prepare", "chain"} => Bound(task, ip)
  <2>1. task \in {"prepare", "chain"} => \A j \in 1..(ip - 1) : Key(Program(task)[j]) \in DOMAIN bos
    BY DEF ReadyInv, Bound
  <2>2. \A j \in 1..ip : j \in 1..(ip - 1) \/ j = ip
    BY <1>3
  <2> QED
    BY <1>3, <2>1, <2>2 DEF Bound
<1>5. \A t, n : Bound(t, n) => \A j \in 1..n : Key(Program(t)[j]) \in DOMAIN bos'
  BY <1>1 DEF Bound
<1>6. ReadyInv'
  <2>1. CASE ip # Len(Program(task)) /\ ip' = ip + 1 /\ UNCHANGED <<task, warmed>>
    <3>1. ip' - 1 = ip
      BY <1>3, <2>1
    <3>2. task \in {"prepare", "chain"} => \A j \in 1..ip : Key(Program(task)[j]) \in DOMAIN bos'
      BY <1>4, <1>5, <2>1
    <3> QED
      BY <1>1, <1>5, <2>1, <3>1, <3>2 DEF ReadyInv, Bound
  <2>2. CASE ip = Len(Program(task)) /\ task = "prepare" /\ task' = "idle" /\ UNCHANGED warmed
    BY <1>1, <1>4, <1>5, <2>2 DEF ReadyInv, Bound
  <2>3. CASE ip = Len(Program(task)) /\ task \in {"chain", "cpu"} /\ task' = "idle"
    BY <1>1, <1>4, <1>5, <2>3 DEF ReadyInv, Bound
  <2>4. CASE task \in {"prefill", "decode"} /\ task' \in {"decode", "idle"} /\ UNCHANGED warmed
    BY <1>1, <1>5, <2>4 DEF ReadyInv, Bound
  <2> QED
    BY <2>1, <2>2, <2>3, <2>4, LaunchMoves
<1>7. DropInv'
  <2>1. ASSUME NEW t \in Tasks, NEW j \in 1..Len(Program(t)), Program(t)[j].k \in Freed
        PROVE  Key(Program(t)[j]) \in DOMAIN bos
    <3>1. CASE task = "prepare" /\ ip = 2*NLayers
      <4>1. Freed = {"rms_gemms_rope", "o_ffn"}
        BY <3>1, PrepareCalls, SizesAssumption DEF Freed
      <4> QED
        BY <1>4, <2>1, <3>1, <4>1, FreedBound
    <3>2. CASE task = "prepare" /\ ip = 4*NLayers + 1
      <4>1. 4*NLayers + 1 # 2*NLayers
        BY SizesAssumption
      <4>2. Freed = {"rms_gemv_rope", "o_gemv_ffn"}
        BY <3>2, <4>1, PrepareCalls DEF Freed
      <4> QED
        BY <1>4, <2>1, <3>2, <4>1, <4>2, FreedBound
    <3>3. CASE ~(task = "prepare" /\ ip \in {2*NLayers, 4*NLayers + 1})
      BY <2>1, <3>3, PrepareCalls DEF Freed
    <3> QED
      BY <3>1, <3>2, <3>3
  <2>2. \A t \in Tasks : \A j \in 1..Len(Program(t)) :
           Program(t)[j].k \in dropped' => Key(Program(t)[j]) \in DOMAIN bos
    BY <1>1, <2>1 DEF DropInv
  <2> QED
    BY <1>1, <2>2 DEF DropInv
<1>8. WeightInv'
  <2>1. ASSUME NEW q \in DOMAIN bos, Slot(q[2]) # 0
        PROVE  mem'[Layout(q)[Slot(q[2])]] = WeightOf(q[2], q[3])
    <3> DEFINE b == Layout(q)[Slot(q[2])]
    <3>1. IsKey(q)
      BY DEF BindInv
    <3>2. Slot(q[2]) \in DOMAIN Layout(q) /\ b = Own(q[1], q[2], q[3], Slot(q[2]))
      BY <2>1, <3>1, KeyShape
    <3>3. b \in DOMAIN mem /\ mem[b] = WeightOf(q[2], q[3])
      BY <1>1, <2>1, <3>2 DEF BindInv, WeightInv
    <3>4. IsWeightBo(b)
      BY <3>2 DEF IsWeightBo, Own
    <3>5. ~IsWeightBo(Output)
      <4>1. Len(Now.args) \in 1..Len(Now.args) /\ Len(Now.args) # Slot(Now.k)
        BY <1>3 DEF Fits
      <4> QED
        BY <1>3, <4>1 DEF Fits, Output
    <3> QED
      BY <1>1, <3>3, <3>4, <3>5
  <2> QED
    BY <1>1, <2>1 DEF WeightInv
<1> QED
  BY <1>2, <1>6, <1>7, <1>8

-----------------------------------------------------------------------------
(* What a kernel computes.                                                 *)

LEMMA SlotFits ==
    ASSUME NEW d, Fits(d) PROVE Slot(d.k) \in 0..2 /\ (Slot(d.k) = 1 => Len(d.args) = 4)
<1>1. Slot(d.k) \in 0..2 /\ (Slot(d.k) = 1 => d.k = "o_gemv_ffn")
  BY DEF Slot
<1>2. Key(d)[2] = d.k
  BY DEF Key
<1>3. d.k = "o_gemv_ffn" => DOMAIN Layout(Key(d)) = 1..4
  BY <1>2 DEF Layout
<1>4. Len(d.args) \in 2..4 /\ DOMAIN Layout(Key(d)) = 1..Len(d.args)
  BY DEF Fits
<1>5. d.k = "o_gemv_ffn" => 4 \in 1..Len(d.args)
  BY <1>3, <1>4
<1>6. \A n \in 2..4 : 4 \in 1..n => n = 4
  OBVIOUS
<1>7. d.k = "o_gemv_ffn" => Len(d.args) = 4
  BY <1>4, <1>5, <1>6
<1> QED
  BY <1>1, <1>7

\* The operands of the call in progress are its arguments without the weights,
\* and the weights are those of its own key.
LEMMA LaunchOperands ==
    ASSUME TaskInv, BindInv, WeightInv, dstep = "launch"
    PROVE  \E v, w :
              /\ Computed(Now) = Compute(Now.k, v, w)
              /\ v[1] = mem[Layout(Key(Now))[IF Slot(Now.k) = 1 THEN 2 ELSE 1]]
              /\ Len(Now.args) = 4 /\ Slot(Now.k) # 0 => v[2] = mem[Layout(Key(Now))[3]]
              /\ Slot(Now.k) # 0 => w = WeightOf(Now.k, Now.l)
<1> DEFINE d == Now
           L == Layout(Key(Now))
           s == Slot(Now.k)
           n == Len(Now.args)
           b == bos[Key(Now)]
           W == WeightSlots(Now)
           v == [i \in 1..(n - 1 - Cardinality(W)) |-> mem[b[Operand(d, i)]]]
           w == IF W = {} THEN Undef ELSE mem[b[CHOOSE x \in W : TRUE]]
<1>1. Computed(d) = Compute(d.k, v, w)
  BY DEF Computed
<1>2. /\ Fits(d) /\ Key(d) \in DOMAIN bos
      /\ \A i \in 1..n : b[i] = L[i] /\ L[i] \in DOMAIN mem
  BY CallBound
<1>3. n \in 2..4 /\ s \in 0..(n - 1) /\ \A i \in 1..n : d.args[i].role = "static" <=> i = s
  BY <1>2 DEF Fits
<1>0. s \in 0..2 /\ (s = 1 => n = 4)
  BY <1>2, SlotFits
<1>4. W = IF s = 0 THEN {} ELSE {s}
  <2> HIDE DEF d, s, n
  <2>1. \A i : i \in 1..(n - 1) => i \in 1..n
    BY <1>3
  <2>2. \A i \in 1..(n - 1) : d.args[i].role = "static" <=> i = s
    BY <1>3, <2>1
  <2>3. s # 0 => s \in 1..(n - 1)
    BY <1>3
  <2>4. W = {i \in 1..(n - 1) : d.args[i].role = "static"}
    BY DEF WeightSlots, d, n
  <2> QED
    BY <2>2, <2>3, <2>4
<1>5. Cardinality(W) = IF s = 0 THEN 0 ELSE 1
  BY <1>4, FS_EmptySet, FS_Singleton
<1>6. \A i : Operand(d, i) = IF s # 0 /\ s <= i THEN i + 1 ELSE i
  BY <1>4 DEF Operand
<1>7. s # 0 => mem[L[s]] = WeightOf(d.k, d.l)
  <2>1. Key(d)[2] = d.k /\ Key(d)[3] = d.l
    BY DEF Key
  <2> QED
    BY <1>2, <2>1 DEF WeightInv
<1>8. s # 0 => w = WeightOf(d.k, d.l)
  <2>1. s # 0 => (CHOOSE x \in W : TRUE) = s
    BY <1>4
  <2>2. s # 0 => s \in 1..n
    BY <1>3
  <2> QED
    BY <1>2, <1>4, <1>7, <2>1, <2>2
<1> HIDE DEF d, L, s, n, b, W, w
<1>9. v[1] = mem[L[IF s = 1 THEN 2 ELSE 1]]
  <2>0. 1 \in 1..n /\ 2 \in 1..n
    BY <1>3
  <2>1. 1 \in 1..(n - 1 - Cardinality(W))
    BY <1>0, <1>3, <1>5
  <2>2. v[1] = mem[b[Operand(d, 1)]]
    BY <2>1
  <2>3. Operand(d, 1) = IF s = 1 THEN 2 ELSE 1
    BY <1>3, <1>6
  <2> HIDE DEF v
  <2> QED
    BY <1>2, <2>0, <2>2, <2>3
<1>10. n = 4 /\ s # 0 => v[2] = mem[L[3]]
  <2> SUFFICES ASSUME n = 4, s # 0 PROVE v[2] = mem[L[3]]
    OBVIOUS
  <2>1. 2 \in 1..(n - 1 - Cardinality(W)) /\ 3 \in 1..n
    BY <1>3, <1>5
  <2>2. v[2] = mem[b[Operand(d, 2)]]
    BY <2>1
  <2>3. Operand(d, 2) = 3
    BY <1>0, <1>3, <1>6
  <2> HIDE DEF v
  <2> QED
    BY <1>2, <2>1, <2>2, <2>3
<1> HIDE DEF v
<1> QED
  BY <1>1, <1>8, <1>9, <1>10 DEF d, L, s, n

LEMMA ComputesQkv ==
    ASSUME NEW k, Kind(k) = "qkv", NEW v, NEW a, NEW c, NEW l, v[1] = <<"x", a, c, l>>
    PROVE  Compute(k, v, WeightOf(k, l + 1)) = <<"qkv", a, c, l + 1>>
<1>1. k # "lm_head_gemv" /\ k # "gemm_connector"
  BY DEF Kind
<1> QED
  BY <1>1 DEF Compute

LEMMA ComputesAttn ==
    ASSUME NEW v, NEW w, NEW a, NEW c, NEW l, v[1] = <<"qkv", a, c, l>>
    PROVE  Compute("flash_attn", v, w) = <<"attn", a, c, l>>
  BY DEF Compute, Kind

LEMMA ComputesFfn ==
    ASSUME NEW k, Kind(k) = "ffn", NEW v, NEW a, NEW c, NEW l,
           v[1] = <<"attn", a, c, l>>, v[2] = <<"x", a, c, l - 1>>
    PROVE  Compute(k, v, WeightOf(k, l)) = <<"x", a, c, l>>
  BY DEF Compute

LEMMA ComputesHead ==
    ASSUME NEW v, NEW a, NEW c
    PROVE  /\ v[1] = <<"x", a, c, NLayers>> =>
                 /\ Compute("layer_norm", v, WeightOf("layer_norm", 0)) = <<"norm", a, c, NLayers>>
                 /\ Compute("lm_head_gemv", v, WeightOf("lm_head_gemv", 0)) = <<"out", a, c, NLayers>>
           /\ v[1] = <<"norm", a, c, NLayers>> =>
                 Compute("gemm_connector", v, WeightOf("gemm_connector", 0)) = <<"out", a, c, NLayers>>
  BY DEF Compute, Kind

-----------------------------------------------------------------------------
(* The arguments of every call: role, host array, buffer.                  *)

Passes(d, i, role, src, b) ==
    d.args[i].role = role /\ d.args[i].src = src /\ Layout(Key(d))[i] = b
\* Argument i stays on the device.
Stays(d, i, b) ==
    d.args[i].role = "inter" /\ d.args[i].alias # "none" /\ Layout(Key(d))[i] = b
\* Call d is of kernel k in layer l and has n arguments; array dst gets its result.
Calls(d, k, l, n, dst) ==
    d.k = k /\ d.l = l /\ Len(d.args) = n /\ d.args[n].dst = dst

LEMMA CallsRmsGemms ==
    ASSUME NEW l \in Nat, NEW d, d = PrefillBlock(l)[1]
    PROVE  /\ Calls(d, "rms_gemms_rope", l, 3, "qkv")
           /\ Passes(d, 1, "plain", "x", Pool("rms_gemms_rope", 1))
           /\ Passes(d, 2, "static", "weight", Own("prefill", "rms_gemms_rope", l, 2))
           /\ Passes(d, 3, "inter", "zeros", Pool("rms_gemms_rope", 3))
<1>1. Key(d)[2] = "rms_gemms_rope" /\ Key(d)[1] = "prefill" /\ Key(d)[3] = l
  BY BlockKeys
<1>2. Layout(Key(d)) = <<Pool("rms_gemms_rope", 1),
                         Own("prefill", "rms_gemms_rope", l, 2),
                         Pool("rms_gemms_rope", 3)>>
  BY <1>1 DEF Layout
<1>3. Calls(d, "rms_gemms_rope", l, 3, "qkv")
  BY DEF Calls, PrefillBlock, Call, In, Out, Weight, Resident, Arg
<1> QED
  BY <1>2, <1>3 DEF Passes, Stays, PrefillBlock, Call, In, Out, Weight, Resident, Arg

LEMMA CallsFlash ==
    ASSUME NEW l \in Nat, NEW d, d = PrefillBlock(l)[2]
    PROVE  /\ Calls(d, "flash_attn", 0, 2, "attn")
           /\ Passes(d, 1, "plain", "qkv", Own("prefill", "flash_attn", 0, 1))
           /\ Passes(d, 2, "plain", "zeros", Own("prefill", "flash_attn", 0, 2))
<1>1. Key(d) = <<"prefill", "flash_attn", 0>> /\ Key(d)[2] = "flash_attn" /\ Key(d)[1] = "prefill" /\ Key(d)[3] = 0
  BY BlockKeys
<1>2. Layout(Key(d)) = <<Own("prefill", "flash_attn", 0, 1), Own("prefill", "flash_attn", 0, 2)>>
  BY <1>1 DEF Layout
<1>3. Calls(d, "flash_attn", 0, 2, "attn")
  BY DEF Calls, PrefillBlock, Call, In, Out, Weight, Resident, Arg
<1> QED
  BY <1>2, <1>3 DEF Passes, Stays, PrefillBlock, Call, In, Out, Weight, Resident, Arg

LEMMA CallsOFfn ==
    ASSUME NEW l \in Nat, NEW d, d = PrefillBlock(l)[3]
    PROVE  /\ Calls(d, "o_ffn", l, 4, "x")
           /\ Passes(d, 1, "plain", "attn", Pool("o_ffn", 1))
           /\ Passes(d, 2, "static", "weight", Own("prefill", "o_ffn", l, 2))
           /\ Passes(d, 3, "plain", "x", Pool("o_ffn", 3))
           /\ Passes(d, 4, "inter", "zeros", Pool("o_ffn", 4))
<1>1. Key(d)[2] = "o_ffn" /\ Key(d)[1] = "prefill" /\ Key(d)[3] = l
  BY BlockKeys
<1>2. Layout(Key(d)) = <<Pool("o_ffn", 1),
                         Own("prefill", "o_ffn", l, 2),
                         Pool("o_ffn", 3),
                         Pool("o_ffn", 4)>>
  BY <1>1 DEF Layout
<1>3. Calls(d, "o_ffn", l, 4, "x")
  BY DEF Calls, PrefillBlock, Call, In, Out, Weight, Resident, Arg
<1> QED
  BY <1>2, <1>3 DEF Passes, Stays, PrefillBlock, Call, In, Out, Weight, Resident, Arg

LEMMA CallsRmsGemv ==
    ASSUME NEW l \in Nat, NEW d, d = DecodeBlock(l)[1]
    PROVE  /\ Calls(d, "rms_gemv_rope", l, 3, "qkv")
           /\ Passes(d, 1, "plain", "x", Own("decode", "rms_gemv_rope", l, 1))
           /\ Passes(d, 2, "static", "weight", Own("decode", "rms_gemv_rope", l, 2))
           /\ Passes(d, 3, "inter", "zeros", Own("decode", "rms_gemv_rope", l, 3))
<1>1. Key(d)[2] = "rms_gemv_rope" /\ Key(d)[1] = "decode" /\ Key(d)[3] = l
  BY BlockKeys
<1>2. Layout(Key(d)) = <<Own("decode", "rms_gemv_rope", l, 1),
                         Own("decode", "rms_gemv_rope", l, 2),
                         Own("decode", "rms_gemv_rope", l, 3)>>
  BY <1>1 DEF Layout
<1>3. Calls(d, "rms_gemv_rope", l, 3, "qkv")
  BY DEF Calls, DecodeBlock, Call, In, Out, Weight, Resident, Arg
<1> QED
  BY <1>2, <1>3 DEF Passes, Stays, DecodeBlock, Call, In, Out, Weight, Resident, Arg

LEMMA CallsOGemv ==
    ASSUME NEW l \in Nat, NEW d, d = DecodeBlock(l)[2]
    PROVE  /\ Calls(d, "o_gemv_ffn", l, 4, "x")
           /\ Passes(d, 1, "static", "weight", Own("decode", "o_gemv_ffn", l, 1))
           /\ Passes(d, 2, "plain", "attn", Own("decode", "o_gemv_ffn", l, 2))
           /\ Passes(d, 3, "plain", "x", Own("decode", "o_gemv_ffn", l, 3))
           /\ Passes(d, 4, "inter", "zeros", Own("decode", "o_gemv_ffn", l, 4))
<1>1. Key(d)[2] = "o_gemv_ffn" /\ Key(d)[1] = "decode" /\ Key(d)[3] = l
  BY BlockKeys
<1>2. Layout(Key(d)) = <<Own("decode", "o_gemv_ffn", l, 1),
                         Own("decode", "o_gemv_ffn", l, 2),
                         Own("decode", "o_gemv_ffn", l, 3),
                         Own("decode", "o_gemv_ffn", l, 4)>>
  BY <1>1 DEF Layout
<1>3. Calls(d, "o_gemv_ffn", l, 4, "x")
  BY DEF Calls, DecodeBlock, Call, In, Out, Weight, Resident, Arg
<1> QED
  BY <1>2, <1>3 DEF Passes, Stays, DecodeBlock, Call, In, Out, Weight, Resident, Arg

LEMMA CallsLmHead ==
    ASSUME NEW d, d = LmHead
    PROVE  /\ Calls(d, "lm_head_gemv", 0, 3, "out")
           /\ Passes(d, 1, "plain", "x", Own("decode", "lm_head_gemv", 0, 1))
           /\ Passes(d, 2, "static", "weight", Own("decode", "lm_head_gemv", 0, 2))
           /\ Passes(d, 3, "inter", "zeros", Own("decode", "lm_head_gemv", 0, 3))
<1>1. Key(d)[2] = "lm_head_gemv" /\ Key(d)[1] = "decode" /\ Key(d)[3] = 0
  BY BlockKeys
<1>2. Layout(Key(d)) = <<Own("decode", "lm_head_gemv", 0, 1),
                         Own("decode", "lm_head_gemv", 0, 2),
                         Own("decode", "lm_head_gemv", 0, 3)>>
  BY <1>1 DEF Layout
<1>3. Calls(d, "lm_head_gemv", 0, 3, "out")
  BY DEF Calls, LmHead, Call, In, Out, Weight, Resident, Arg
<1> QED
  BY <1>2, <1>3 DEF Passes, Stays, LmHead, Call, In, Out, Weight, Resident, Arg

LEMMA CallsLnQkv ==
    ASSUME NEW l \in Nat, NEW d, d = ChainBlock(l)[1]
    PROVE  /\ Calls(d, "vit_ln_qkv", l, 3, "none")
           /\ IF l = 1 THEN Passes(d, 1, "plain", "x", Alias(XPool(0)))
                       ELSE Stays(d, 1, Alias(XPool(l - 1)))
           /\ Passes(d, 2, "static", "weight", Own("vision", "vit_ln_qkv", l, 2))
           /\ Stays(d, 3, Alias("vit_qkv"))
<1>1. Key(d)[2] = "vit_ln_qkv" /\ Key(d)[1] = "vision" /\ Key(d)[3] = l
  BY BlockKeys
<1>2. Layout(Key(d)) = <<Alias(XPool(l - 1)), Own("vision", "vit_ln_qkv", l, 2), Alias("vit_qkv")>>
  BY <1>1 DEF Layout
<1>3. Calls(d, "vit_ln_qkv", l, 3, "none")
  BY DEF Calls, ChainBlock, Call, In, Out, Weight, Resident, Arg
<1>4. XPool(l - 1) # "none"
  BY DEF XPool
<1>5. /\ Passes(d, 2, "static", "weight", Own("vision", "vit_ln_qkv", l, 2))
      /\ Stays(d, 3, Alias("vit_qkv"))
  BY <1>2 DEF Passes, Stays, ChainBlock, Call, Weight, Resident, Arg
<1>6. l = 1 => Passes(d, 1, "plain", "x", Alias(XPool(0)))
  <2>1. l = 1 => l - 1 = 0
    OBVIOUS
  <2> QED
    BY <1>2, <2>1 DEF Passes, ChainBlock, Call, Arg
<1>7. l # 1 => Stays(d, 1, Alias(XPool(l - 1)))
  BY <1>2, <1>4 DEF Stays, ChainBlock, Call, Resident, Arg
<1> QED
  BY <1>3, <1>5, <1>6, <1>7

LEMMA CallsVitFlash ==
    ASSUME NEW l \in Nat, NEW d, d = ChainBlock(l)[2]
    PROVE  /\ Calls(d, "flash_attn", 0, 2, "none")
           /\ Stays(d, 1, Alias("vit_qkv"))
           /\ Stays(d, 2, Alias("vit_attn"))
<1>1. Key(d) = <<"vision", "flash_attn", 0>> /\ Key(d)[2] = "flash_attn" /\ Key(d)[1] = "vision" /\ Key(d)[3] = 0
  BY BlockKeys
<1>2. Layout(Key(d)) = <<Alias("vit_qkv"), Alias("vit_attn")>>
  BY <1>1 DEF Layout
<1>3. Calls(d, "flash_attn", 0, 2, "none")
  BY DEF Calls, ChainBlock, Call, In, Out, Weight, Resident, Arg
<1> QED
  BY <1>2, <1>3 DEF Passes, Stays, ChainBlock, Call, In, Out, Weight, Resident, Arg, XPool

LEMMA CallsVitOFfn ==
    ASSUME NEW l \in Nat, NEW d, d = ChainBlock(l)[3]
    PROVE  /\ Calls(d, "vit_o_ffn", l, 4, IF l = NLayers THEN "x" ELSE "none")
           /\ Stays(d, 1, Alias("vit_attn"))
           /\ Passes(d, 2, "static", "weight", Own("vision", "vit_o_ffn", l, 2))
           /\ Stays(d, 3, Alias(XPool(l - 1)))
           /\ Stays(d, 4, Alias(XPool(l)))
<1>1. Key(d)[2] = "vit_o_ffn" /\ Key(d)[1] = "vision" /\ Key(d)[3] = l
  BY BlockKeys
<1>2. Layout(Key(d)) = <<Alias("vit_attn"),
                         Own("vision", "vit_o_ffn", l, 2),
                         Alias(XPool(l - 1)),
                         Alias(XPool(l))>>
  BY <1>1 DEF Layout
<1>3. Calls(d, "vit_o_ffn", l, 4, IF l = NLayers THEN "x" ELSE "none")
  BY DEF Calls, ChainBlock, Call, In, Out, Weight, Resident, Arg
<1> QED
  BY <1>2, <1>3 DEF Passes, Stays, ChainBlock, Call, In, Out, Weight, Resident, Arg, XPool

LEMMA CallsCpuQkv ==
    ASSUME NEW l \in Nat, NEW d, d = CpuBlock(l)[1]
    PROVE  /\ Calls(d, "vit_ln_qkv", l, 3, "qkv")
           /\ Passes(d, 1, "plain", "x", Alias(XPool(l - 1)))
           /\ Passes(d, 2, "static", "weight", Own("vision", "vit_ln_qkv", l, 2))
           /\ Passes(d, 3, "inter", "zeros", Alias("vit_qkv"))
<1>1. Key(d)[2] = "vit_ln_qkv" /\ Key(d)[1] = "vision" /\ Key(d)[3] = l
  BY BlockKeys
<1>2. Layout(Key(d)) = <<Alias(XPool(l - 1)), Own("vision", "vit_ln_qkv", l, 2), Alias("vit_qkv")>>
  BY <1>1 DEF Layout
<1>3. Calls(d, "vit_ln_qkv", l, 3, "qkv")
  BY DEF Calls, CpuBlock, Call, In, Out, Weight, Resident, Arg
<1> QED
  BY <1>2, <1>3 DEF Passes, Stays, CpuBlock, Call, In, Out, Weight, Resident, Arg

LEMMA CallsCpuFfn ==
    ASSUME NEW l \in Nat, NEW d, d = CpuBlock(l)[2]
    PROVE  /\ Calls(d, "vit_o_ffn", l, 4, "x")
           /\ Passes(d, 1, "plain", "attn", Alias("vit_attn"))
           /\ Passes(d, 2, "static", "weight", Own("vision", "vit_o_ffn", l, 2))
           /\ Passes(d, 3, "plain", "x", Alias(XPool(l - 1)))
           /\ Passes(d, 4, "inter", "zeros", Alias(XPool(l)))
<1>1. Key(d)[2] = "vit_o_ffn" /\ Key(d)[1] = "vision" /\ Key(d)[3] = l
  BY BlockKeys
<1>2. Layout(Key(d)) = <<Alias("vit_attn"),
                         Own("vision", "vit_o_ffn", l, 2),
                         Alias(XPool(l - 1)),
                         Alias(XPool(l))>>
  BY <1>1 DEF Layout
<1>3. Calls(d, "vit_o_ffn", l, 4, "x")
  BY DEF Calls, CpuBlock, Call, In, Out, Weight, Resident, Arg
<1> QED
  BY <1>2, <1>3 DEF Passes, Stays, CpuBlock, Call, In, Out, Weight, Resident, Arg

LEMMA CallsNorm ==
    ASSUME NEW d, d = Connector[1]
    PROVE  /\ Calls(d, "layer_norm", 0, 3, "norm")
           /\ Passes(d, 1, "plain", "x", Own("vision", "layer_norm", 0, 1))
           /\ Passes(d, 2, "static", "weight", Own("vision", "layer_norm", 0, 2))
           /\ Passes(d, 3, "inter", "zeros", Own("vision", "layer_norm", 0, 3))
<1>1. Key(d)[2] = "layer_norm" /\ Key(d)[1] = "vision" /\ Key(d)[3] = 0
  BY BlockKeys
<1>2. Layout(Key(d)) = <<Own("vision", "layer_norm", 0, 1),
                         Own("vision", "layer_norm", 0, 2),
                         Own("vision", "layer_norm", 0, 3)>>
  BY <1>1 DEF Layout
<1>3. Calls(d, "layer_norm", 0, 3, "norm")
  BY DEF Calls, Connector, Call, In, Out, Weight, Resident, Arg
<1> QED
  BY <1>2, <1>3 DEF Passes, Stays, Connector, Call, In, Out, Weight, Resident, Arg

LEMMA CallsConnector ==
    ASSUME NEW d, d = Connector[2]
    PROVE  /\ Calls(d, "gemm_connector", 0, 3, "out")
           /\ Passes(d, 1, "plain", "norm", Own("vision", "gemm_connector", 0, 1))
           /\ Passes(d, 2, "static", "weight", Own("vision", "gemm_connector", 0, 2))
           /\ Passes(d, 3, "inter", "zeros", Own("vision", "gemm_connector", 0, 3))
<1>1. Key(d)[2] = "gemm_connector" /\ Key(d)[1] = "vision" /\ Key(d)[3] = 0
  BY BlockKeys
<1>2. Layout(Key(d)) = <<Own("vision", "gemm_connector", 0, 1),
                         Own("vision", "gemm_connector", 0, 2),
                         Own("vision", "gemm_connector", 0, 3)>>
  BY <1>1 DEF Layout
<1>3. Calls(d, "gemm_connector", 0, 3, "out")
  BY DEF Calls, Connector, Call, In, Out, Weight, Resident, Arg
<1> QED
  BY <1>2, <1>3 DEF Passes, Stays, Connector, Call, In, Out, Weight, Resident, Arg

-----------------------------------------------------------------------------
(* The flow of the data, step by step.                                     *)

LEMMA Tensors ==
    /\ \A s, l : s # "empty" => V(s, l) # EmptyArray
    /\ UNCHANGED <<req, tok>> => /\ \A s, l : V(s, l)' = V(s, l)
                                 /\ \A l : KvDone(l)' = KvDone(l)
  BY DEF V, EmptyArray, Special, KvDone, Cached

LEMMA RealBos ==
    /\ \A k, i : Pool(k, i) # NoBo
    /\ \A k, l, i : /\ Own("prefill", k, l, i) # NoBo /\ Own("decode", k, l, i) # NoBo
                    /\ Own("vision", k, l, i) # NoBo
    /\ \A p : Alias(p) # NoBo
  BY DEF Pool, Own, Alias, NoBo

\* A step that leaves the program where it is, its arrays and what the buffers
\* hold leaves the flow.
LEMMA FlowKept ==
    ASSUME FlowInv, UNCHANGED <<task, ip, req, tok, regs, kv>>,
           dstep' # "launch" \/ UNCHANGED dstep,
           \A b \in DOMAIN mem : b \in DOMAIN mem' /\ mem'[b] = mem[b]
    PROVE  FlowInv'
<1>1. \A b, v : At(b, v) => b \in DOMAIN mem' /\ mem'[b] = v
  BY DEF At
<1>2. /\ \A s, l : V(s, l)' = V(s, l)
      /\ \A l : KvDone(l)' = KvDone(l)
  BY Tensors
<1>3. \A b, s, l : At(b, V(s, l)) => At(b, V(s, l))'
  BY <1>1, <1>2 DEF At
<1>4. \A b, s, l : Launching(b, V(s, l)) => Launching(b, V(s, l))'
  BY <1>3 DEF Launching
<1>5. \A r, b, s, l : Shows(r, b, V(s, l)) => Shows(r, b, V(s, l))'
  BY <1>3 DEF Shows
<1>6. \A l, b : LayerInput(l, b) => LayerInput(l, b)'
  BY <1>2, <1>5 DEF LayerInput
<1>7. task = "prefill" /\ PrefillFlow => PrefillFlow'
  BY <1>2, <1>4, <1>5, <1>6 DEF PrefillFlow, PrefillAt
<1>8. DecodeFlow => DecodeFlow'
  BY <1>2, <1>4 DEF DecodeFlow, DecodeAt
<1>9. \A n : ConnectorAt(n) => ConnectorAt(n)'
  BY <1>2, <1>4 DEF ConnectorAt
<1>10. ChainFlow => ChainFlow'
  BY <1>2, <1>3, <1>4, <1>9 DEF ChainFlow, ChainAt
<1>11. CpuFlow => CpuFlow'
  BY <1>2, <1>4, <1>6, <1>9 DEF CpuFlow, CpuAt
<1> QED
  BY <1>7, <1>8, <1>10, <1>11 DEF FlowInv

\* WriteInputs: an input that is an array or a view of a buffer.
LEMMA CopiesVal ==
    ASSUME TaskInv, BindInv, WriteInputs, NEW i, NEW r, NEW b, Passes(Now, i, "plain", r, b),
           i \in 1..Len(Now.args), r \notin {"zeros", "weight"},
           NEW s, NEW l, s # "empty", regs[r] = Val(V(s, l))
    PROVE  At(b, V(s, l))'
<1> HIDE DEF Now
<1>1. Layout(Key(Now))[i] = b /\ Now.args[i].role = "plain" /\ Now.args[i].src = r
  BY DEF Passes
<1>2. b \in DOMAIN mem'
  BY <1>1, CallBound, WriteUntouched DEF WriteInputs
<1>3. V(s, l) # EmptyArray
  BY Tensors
<1>4. V(s, l)' = V(s, l)
  BY Tensors DEF WriteInputs
<1> QED
  BY <1>1, <1>2, <1>3, <1>4, WriteVal DEF At

LEMMA CopiesView ==
    ASSUME TaskInv, BindInv, WriteInputs, NEW i, NEW r, NEW b, Passes(Now, i, "plain", r, b),
           i \in 1..Len(Now.args), r \notin {"zeros", "weight"},
           NEW s, NEW l, s # "empty", NEW a, a # NoBo, Shows(r, a, V(s, l)),
           \A j \in 1..(i - 1) : a # Layout(Key(Now))[j]
    PROVE  At(b, V(s, l))'
<1> HIDE DEF Now
<1>1. Layout(Key(Now))[i] = b /\ Now.args[i].role = "plain" /\ Now.args[i].src = r
  BY DEF Passes
<1>2. b \in DOMAIN mem'
  BY <1>1, CallBound, WriteUntouched DEF WriteInputs
<1>3. V(s, l) # EmptyArray
  BY Tensors
<1>4. regs[r] = View(a) /\ At(a, V(s, l))
  BY DEF Shows
<1>5. V(s, l)' = V(s, l)
  BY Tensors DEF WriteInputs
<1>6. mem'[b] = V(s, l)
  BY <1>1, <1>3, <1>4, WriteView
<1> QED
  BY <1>2, <1>5, <1>6 DEF At

LEMMA CopiesLayerInput ==
    ASSUME TaskInv, BindInv, WriteInputs, NEW i, NEW b, Passes(Now, i, "plain", "x", b),
           i \in 1..Len(Now.args), NEW l, NEW a, a # NoBo, LayerInput(l, a),
           \A j \in 1..(i - 1) : a # Layout(Key(Now))[j]
    PROVE  At(b, V("x", l))'
<1> HIDE DEF Now
<1>1. CASE l = 0
  <2>1. regs["x"] = Val(V("x", l))
    BY <1>1 DEF LayerInput
  <2> QED
    BY <2>1, CopiesVal
<1>2. CASE l # 0
  <2>1. Shows("x", a, V("x", l))
    BY <1>2 DEF LayerInput
  <2> QED
    BY <2>1, CopiesView
<1> QED
  BY <1>1, <1>2

\* A buffer no argument is copied to.
LEMMA KeepsAt ==
    ASSUME TaskInv, BindInv, WriteInputs, NEW b, NEW s, NEW l, At(b, V(s, l)),
           \A j \in 1..Len(Now.args) :
              b # Layout(Key(Now))[j] \/ Skipped(Now.args[j], dstep = "first")
    PROVE  At(b, V(s, l))'
<1> HIDE DEF Now
<1>1. b \in DOMAIN mem' /\ mem'[b] = V(s, l)
  BY WriteUntouched DEF At
<1>2. V(s, l)' = V(s, l)
  BY Tensors DEF WriteInputs
<1> QED
  BY <1>1, <1>2 DEF At

\* The place of the program within the layers, for a task with n calls in each.
LEMMA Thirds ==
    ASSUME NEW l \in 1..NLayers, NEW k \in 1..NLayers
    PROVE  /\ 3*l - 2 # 3*l - 1 /\ 3*l - 2 # 3*l /\ 3*l - 1 # 3*l
           /\ 3*l - 2 + 1 = 3*l - 1 /\ 3*l - 1 + 1 = 3*l
           /\ 3*l - 2 # 3*NLayers + 1 /\ 3*l - 1 # 3*NLayers + 1 /\ 3*l # 3*NLayers + 1
           /\ 3*l - 2 # 3*NLayers + 2 /\ 3*l - 1 # 3*NLayers + 2 /\ 3*l # 3*NLayers + 2
           /\ \A i \in {3*l - 2, 3*l - 1, 3*l} : i \in {3*k - 2, 3*k - 1, 3*k} => k = l
  BY SizesAssumption

LEMMA Halves ==
    ASSUME NEW l \in 1..NLayers, NEW k \in 1..NLayers
    PROVE  /\ 2*l - 1 # 2*l /\ 2*l - 1 + 1 = 2*l
           /\ 2*l - 1 # 2*NLayers + 1 /\ 2*l # 2*NLayers + 1
           /\ 2*l - 1 # 2*NLayers + 2 /\ 2*l # 2*NLayers + 2
           /\ \A i \in {2*l - 1, 2*l} : i \in {2*k - 1, 2*k} => k = l
  BY SizesAssumption

\* One layer at a time: elsewhere the flow after a step says nothing of it.
LEMMA PrefillPlace ==
    ASSUME NEW l \in 1..NLayers, ip' \in {3*l - 2, 3*l - 1, 3*l}, tok' = 0, PrefillAt(l)'
    PROVE  PrefillFlow'
<1>1. \A k \in 1..NLayers : ip' \in {3*k - 2, 3*k - 1, 3*k} => k = l
  BY Thirds
<1>2. ip' # 3*NLayers + 1
  BY Thirds
<1>3. \A k \in 1..NLayers : k # l => PrefillAt(k)'
  BY <1>1 DEF PrefillAt
<1> QED
  BY <1>2, <1>3 DEF PrefillFlow

LEMMA PrefillHere ==
    ASSUME TaskInv, task = "prefill"
    PROVE  \/ \E l \in 1..NLayers :
                 \/ ip = 3*l - 2 /\ Now = PrefillBlock(l)[1]
                 \/ ip = 3*l - 1 /\ Now = PrefillBlock(l)[2]
                 \/ ip = 3*l /\ Now = PrefillBlock(l)[3]
           \/ ip = 3*NLayers + 1 /\ Now = LmHead
<1>1. ip \in 1..Len(Program("prefill")) /\ Now = Program("prefill")[ip]
  BY NowCall DEF Tasks
<1> HIDE DEF Now
<1>2. ip \in 1..(3*NLayers) \/ ip = 3*NLayers + 1
  BY <1>1, PrefillCalls, SizesAssumption
<1> QED
  BY <1>1, <1>2, ThirdsCover, PrefillCalls

LEMMA PrefillWrite ==
    ASSUME TaskInv, Books, FlowInv, WriteInputs, task = "prefill"
    PROVE  PrefillFlow'
<1> USE DEF Books
<1>1. /\ UNCHANGED <<task, ip, req, tok, regs, kv>> /\ dstep' = "launch"
      /\ \A s, l : V(s, l)' = V(s, l)
      /\ \A l : KvDone(l)' = KvDone(l)
  BY Tensors DEF WriteInputs
<1>2. PrefillFlow /\ tok = 0
  BY DEF FlowInv, PrefillFlow
<1>3. dstep = "first" => Slot(Now.k) = 0
  BY DEF WeightInv
<1> HIDE DEF Now
<1>4. ASSUME NEW l \in 1..NLayers, ip = 3*l - 2, Now = PrefillBlock(l)[1]
      PROVE  PrefillAt(l)'
  <2>1. /\ Calls(Now, "rms_gemms_rope", l, 3, "qkv")
        /\ Passes(Now, 1, "plain", "x", Pool("rms_gemms_rope", 1))
        /\ Passes(Now, 2, "static", "weight", Own("prefill", "rms_gemms_rope", l, 2))
        /\ Passes(Now, 3, "inter", "zeros", Pool("rms_gemms_rope", 3))
    BY <1>4, CallsRmsGemms
  <2>2. LayerInput(l - 1, Pool("o_ffn", 4)) /\ kv = KvDone(l - 1)
    BY <1>2, <1>4, Thirds DEF PrefillFlow, PrefillAt
  <2>3. At(Pool("rms_gemms_rope", 1), V("x", l - 1))'
    BY <2>1, <2>2, RealBos, CopiesLayerInput DEF Calls
  <2>4. \A j \in 1..Len(Now.args) : Pool("o_ffn", 4) # Layout(Key(Now))[j]
    BY <2>1 DEF Calls, Passes, Pool, Own
  <2>5. LayerInput(l - 1, Pool("o_ffn", 4))'
    BY <1>1, <2>2, <2>4, KeepsAt DEF LayerInput, Shows
  <2> QED
    BY <1>1, <1>4, <2>2, <2>3, <2>5, Thirds DEF PrefillAt, Launching
<1>5. ASSUME NEW l \in 1..NLayers, ip = 3*l - 1, Now = PrefillBlock(l)[2]
      PROVE  PrefillAt(l)'
  <2>1. /\ Calls(Now, "flash_attn", 0, 2, "attn")
        /\ Passes(Now, 1, "plain", "qkv", Own("prefill", "flash_attn", 0, 1))
        /\ Passes(Now, 2, "plain", "zeros", Own("prefill", "flash_attn", 0, 2))
    BY <1>5, CallsFlash
  <2>2. /\ LayerInput(l - 1, Pool("o_ffn", 4)) /\ kv = KvDone(l - 1)
        /\ Shows("qkv", Pool("rms_gemms_rope", 3), V("qkv", l))
    BY <1>2, <1>5, Thirds DEF PrefillFlow, PrefillAt
  <2>3. At(Own("prefill", "flash_attn", 0, 1), V("qkv", l))'
    BY <2>1, <2>2, RealBos, CopiesView DEF Calls
  <2>4. \A k, i : \A j \in 1..Len(Now.args) : Pool(k, i) # Layout(Key(Now))[j]
    BY <2>1 DEF Calls, Passes, Pool, Own
  <2>5. LayerInput(l - 1, Pool("o_ffn", 4))'
    BY <1>1, <2>2, <2>4, KeepsAt DEF LayerInput, Shows
  <2>6. Shows("qkv", Pool("rms_gemms_rope", 3), V("qkv", l))'
    BY <1>1, <2>2, <2>4, KeepsAt DEF Shows
  <2> QED
    BY <1>1, <1>5, <2>2, <2>3, <2>5, <2>6, Thirds DEF PrefillAt, Launching
<1>6. ASSUME NEW l \in 1..NLayers, ip = 3*l, Now = PrefillBlock(l)[3]
      PROVE  PrefillAt(l)'
  <2>1. /\ Calls(Now, "o_ffn", l, 4, "x")
        /\ Passes(Now, 1, "plain", "attn", Pool("o_ffn", 1))
        /\ Passes(Now, 2, "static", "weight", Own("prefill", "o_ffn", l, 2))
        /\ Passes(Now, 3, "plain", "x", Pool("o_ffn", 3))
        /\ Passes(Now, 4, "inter", "zeros", Pool("o_ffn", 4))
    BY <1>6, CallsOFfn
  <2>2. /\ LayerInput(l - 1, Pool("o_ffn", 4)) /\ kv = KvDone(l - 1)
        /\ Shows("qkv", Pool("rms_gemms_rope", 3), V("qkv", l))
        /\ Shows("attn", Own("prefill", "flash_attn", 0, 2), V("attn", l))
    BY <1>2, <1>6, Thirds DEF PrefillFlow, PrefillAt
  <2>3. At(Pool("o_ffn", 1), V("attn", l))'
    BY <2>1, <2>2, RealBos, CopiesView DEF Calls
  <2>4. /\ \A j \in 1..Len(Now.args) : /\ Pool("rms_gemms_rope", 3) # Layout(Key(Now))[j]
                                       /\ Own("prefill", "flash_attn", 0, 2) # Layout(Key(Now))[j]
        /\ \A j \in 1..3 : Pool("o_ffn", 4) # Layout(Key(Now))[j]
    BY <2>1 DEF Calls, Passes, Pool, Own
  <2>5. At(Pool("o_ffn", 3), V("x", l - 1))'
    <3>1. \A j \in 1..(3 - 1) : Pool("o_ffn", 4) # Layout(Key(Now))[j]
      BY <2>4
    <3> QED
      BY <2>1, <2>2, <3>1, RealBos, CopiesLayerInput DEF Calls
  <2>6. Slot(Now.k) = 2
    BY <2>1 DEF Calls, Slot
  <2>7. \A j \in 1..Len(Now.args) :
           Pool("o_ffn", 4) # Layout(Key(Now))[j] \/ Skipped(Now.args[j], dstep = "first")
    BY <1>3, <2>1, <2>4, <2>6 DEF Calls, Passes, Skipped
  <2>8. LayerInput(l - 1, Pool("o_ffn", 4))'
    BY <1>1, <2>2, <2>7, KeepsAt DEF LayerInput, Shows
  <2>9. /\ Shows("qkv", Pool("rms_gemms_rope", 3), V("qkv", l))'
        /\ Shows("attn", Own("prefill", "flash_attn", 0, 2), V("attn", l))'
    BY <1>1, <2>2, <2>4, KeepsAt DEF Shows
  <2> QED
    BY <1>1, <1>6, <2>2, <2>3, <2>5, <2>8, <2>9, Thirds DEF PrefillAt, Launching
<1>7. ASSUME ip = 3*NLayers + 1, Now = LmHead
      PROVE  PrefillFlow'
  <2>1. /\ Calls(Now, "lm_head_gemv", 0, 3, "out")
        /\ Passes(Now, 1, "plain", "x", Own("decode", "lm_head_gemv", 0, 1))
        /\ Passes(Now, 2, "static", "weight", Own("decode", "lm_head_gemv", 0, 2))
        /\ Passes(Now, 3, "inter", "zeros", Own("decode", "lm_head_gemv", 0, 3))
    BY <1>7, CallsLmHead
  <2>2. LayerInput(NLayers, Pool("o_ffn", 4)) /\ kv = KvDone(NLayers)
    BY <1>2, <1>7 DEF PrefillFlow
  <2>3. At(Own("decode", "lm_head_gemv", 0, 1), V("x", NLayers))'
    BY <2>1, <2>2, RealBos, CopiesLayerInput DEF Calls
  <2>4. \A j \in 1..Len(Now.args) : Pool("o_ffn", 4) # Layout(Key(Now))[j]
    BY <2>1 DEF Calls, Passes, Pool, Own
  <2>5. LayerInput(NLayers, Pool("o_ffn", 4))'
    BY <1>1, <2>2, <2>4, KeepsAt DEF LayerInput, Shows
  <2>6. \A l \in 1..NLayers : ip \notin {3*l - 2, 3*l - 1, 3*l}
    BY <1>7, Thirds
  <2> QED
    BY <1>1, <1>2, <1>7, <2>2, <2>3, <2>5, <2>6 DEF PrefillFlow, PrefillAt, Launching
<1>8. \A l \in 1..NLayers : ip \in {3*l - 2, 3*l - 1, 3*l} /\ PrefillAt(l)' => PrefillFlow'
  BY <1>1, <1>2, PrefillPlace
<1> QED
  BY <1>4, <1>5, <1>6, <1>7, <1>8, PrefillHere

LEMMA DecodePlace ==
    ASSUME NEW l \in 1..NLayers, ip' \in {2*l - 1, 2*l}, tok' \in 1..MaxTokens, DecodeAt(l)'
    PROVE  DecodeFlow'
<1>1. \A k \in 1..NLayers : ip' \in {2*k - 1, 2*k} => k = l
  BY Halves
<1>2. ip' # 2*NLayers + 1
  BY Halves
<1>3. \A k \in 1..NLayers : k # l => DecodeAt(k)'
  BY <1>1 DEF DecodeAt
<1> QED
  BY <1>2, <1>3 DEF DecodeFlow

LEMMA DecodeHere ==
    ASSUME TaskInv, task = "decode"
    PROVE  \/ \E l \in 1..NLayers :
                 \/ ip = 2*l - 1 /\ Now = DecodeBlock(l)[1]
                 \/ ip = 2*l /\ Now = DecodeBlock(l)[2]
           \/ ip = 2*NLayers + 1 /\ Now = LmHead
<1>1. ip \in 1..Len(Program("decode")) /\ Now = Program("decode")[ip]
  BY NowCall DEF Tasks
<1> HIDE DEF Now
<1>2. ip \in 1..(2*NLayers) \/ ip = 2*NLayers + 1
  BY <1>1, DecodeCalls, SizesAssumption
<1> QED
  BY <1>1, <1>2, HalvesCover, DecodeCalls

LEMMA DecodeWrite ==
    ASSUME TaskInv, Books, FlowInv, WriteInputs, task = "decode"
    PROVE  DecodeFlow'
<1> USE DEF Books
<1>1. /\ UNCHANGED <<task, ip, req, tok, regs, kv>> /\ dstep' = "launch"
      /\ \A s, l : V(s, l)' = V(s, l)
      /\ \A l : KvDone(l)' = KvDone(l)
  BY Tensors DEF WriteInputs
<1>2. DecodeFlow /\ tok \in 1..MaxTokens
  BY DEF FlowInv, DecodeFlow
<1> HIDE DEF Now
<1>3. ASSUME NEW l \in 1..NLayers, ip = 2*l - 1, Now = DecodeBlock(l)[1]
      PROVE  DecodeAt(l)'
  <2>1. /\ Calls(Now, "rms_gemv_rope", l, 3, "qkv")
        /\ Passes(Now, 1, "plain", "x", Own("decode", "rms_gemv_rope", l, 1))
    BY <1>3, CallsRmsGemv
  <2>2. regs["x"] = Val(V("x", l - 1)) /\ kv = KvDone(l - 1)
    BY <1>2, <1>3, Halves DEF DecodeFlow, DecodeAt
  <2>3. At(Own("decode", "rms_gemv_rope", l, 1), V("x", l - 1))'
    BY <2>1, <2>2, CopiesVal DEF Calls
  <2> QED
    BY <1>1, <1>3, <2>2, <2>3, Halves DEF DecodeAt, Launching
<1>4. ASSUME NEW l \in 1..NLayers, ip = 2*l, Now = DecodeBlock(l)[2]
      PROVE  DecodeAt(l)'
  <2>1. /\ Calls(Now, "o_gemv_ffn", l, 4, "x")
        /\ Passes(Now, 2, "plain", "attn", Own("decode", "o_gemv_ffn", l, 2))
        /\ Passes(Now, 3, "plain", "x", Own("decode", "o_gemv_ffn", l, 3))
    BY <1>4, CallsOGemv
  <2>2. /\ regs["x"] = Val(V("x", l - 1)) /\ kv = KvDone(l)
        /\ regs["attn"] = Val(V("attn", l))
    BY <1>2, <1>4, Halves DEF DecodeFlow, DecodeAt
  <2>3. At(Own("decode", "o_gemv_ffn", l, 2), V("attn", l))'
    BY <2>1, <2>2, CopiesVal DEF Calls
  <2>4. At(Own("decode", "o_gemv_ffn", l, 3), V("x", l - 1))'
    BY <2>1, <2>2, CopiesVal DEF Calls
  <2> QED
    BY <1>1, <1>4, <2>2, <2>3, <2>4, Halves DEF DecodeAt, Launching
<1>5. ASSUME ip = 2*NLayers + 1, Now = LmHead
      PROVE  DecodeFlow'
  <2>1. /\ Calls(Now, "lm_head_gemv", 0, 3, "out")
        /\ Passes(Now, 1, "plain", "x", Own("decode", "lm_head_gemv", 0, 1))
    BY <1>5, CallsLmHead
  <2>2. regs["x"] = Val(V("x", NLayers)) /\ kv = KvDone(NLayers)
    BY <1>2, <1>5 DEF DecodeFlow
  <2>3. At(Own("decode", "lm_head_gemv", 0, 1), V("x", NLayers))'
    BY <2>1, <2>2, CopiesVal DEF Calls
  <2>4. \A l \in 1..NLayers : ip \notin {2*l - 1, 2*l}
    BY <1>5, Halves
  <2> QED
    BY <1>1, <1>2, <1>5, <2>2, <2>3, <2>4 DEF DecodeFlow, DecodeAt, Launching
<1>6. \A l \in 1..NLayers : ip \in {2*l - 1, 2*l} /\ DecodeAt(l)' => DecodeFlow'
  BY <1>1, <1>2, DecodePlace
<1> QED
  BY <1>3, <1>4, <1>5, <1>6, DecodeHere

LEMMA ChainPlace ==
    ASSUME NEW l \in 1..NLayers, ip' \in {3*l - 2, 3*l - 1, 3*l}, tok' = 0, ChainAt(l)'
    PROVE  ChainFlow'
<1>1. \A k \in 1..NLayers : ip' \in {3*k - 2, 3*k - 1, 3*k} => k = l
  BY Thirds
<1>2. ip' # 3*NLayers + 1 /\ ip' # 3*NLayers + 2
  BY Thirds
<1>3. \A k \in 1..NLayers : k # l => ChainAt(k)'
  BY <1>1 DEF ChainAt
<1> QED
  BY <1>2, <1>3 DEF ChainFlow, ConnectorAt

LEMMA ChainHere ==
    ASSUME TaskInv, task = "chain"
    PROVE  \/ \E l \in 1..NLayers :
                 \/ ip = 3*l - 2 /\ Now = ChainBlock(l)[1]
                 \/ ip = 3*l - 1 /\ Now = ChainBlock(l)[2]
                 \/ ip = 3*l /\ Now = ChainBlock(l)[3]
           \/ ip = 3*NLayers + 1 /\ Now = Connector[1]
           \/ ip = 3*NLayers + 2 /\ Now = Connector[2]
<1>1. ip \in 1..Len(Program("chain")) /\ Now = Program("chain")[ip]
  BY NowCall DEF Tasks
<1> HIDE DEF Now
<1>2. ip \in 1..(3*NLayers) \/ ip = 3*NLayers + 1 \/ ip = 3*NLayers + 2
  BY <1>1, ChainCalls, SizesAssumption
<1> QED
  BY <1>1, <1>2, ThirdsCover, ChainCalls

LEMMA PoolNames ==
    ASSUME NEW l \in 1..NLayers
    PROVE  /\ Alias(XPool(l - 1)) # Alias(XPool(l))
           /\ \A k : Alias(XPool(k)) # Alias("vit_qkv") /\ Alias(XPool(k)) # Alias("vit_attn")
           /\ \A p, c, k, i, n : Alias(p) # Own(c, k, i, n)
           /\ Alias("vit_qkv") # Alias("vit_attn")
<1>1. l \in Nat /\ ((l - 1) % 2 = 0 <=> l % 2 # 0)
  BY SizesAssumption
<1>2. XPool(l - 1) # XPool(l)
  BY <1>1 DEF XPool
<1> QED
  BY <1>2 DEF Alias, Own, XPool

LEMMA ChainWrite ==
    ASSUME TaskInv, Books, FlowInv, WriteInputs, task = "chain"
    PROVE  ChainFlow'
<1> USE DEF Books
<1>1. /\ UNCHANGED <<task, ip, req, tok, regs, kv>> /\ dstep' = "launch"
      /\ \A s, l : V(s, l)' = V(s, l)
  BY Tensors DEF WriteInputs
<1>2. ChainFlow /\ tok = 0
  BY DEF FlowInv, ChainFlow
<1> HIDE DEF Now
<1>3. ASSUME NEW l \in 1..NLayers, ip = 3*l - 2, Now = ChainBlock(l)[1]
      PROVE  ChainAt(l)'
  <2>1. /\ Calls(Now, "vit_ln_qkv", l, 3, "none")
        /\ IF l = 1 THEN Passes(Now, 1, "plain", "x", Alias(XPool(0)))
                    ELSE Stays(Now, 1, Alias(XPool(l - 1)))
        /\ Passes(Now, 2, "static", "weight", Own("vision", "vit_ln_qkv", l, 2))
        /\ Stays(Now, 3, Alias("vit_qkv"))
    BY <1>3, CallsLnQkv
  <2>2. IF l = 1 THEN regs["x"] = Val(V("x", 0)) ELSE At(Alias(XPool(l - 1)), V("x", l - 1))
    BY <1>2, <1>3, Thirds DEF ChainFlow, ChainAt
  <2>3. l = 1 => At(Alias(XPool(0)), V("x", 0))'
    BY <2>1, <2>2, CopiesVal DEF Calls
  <2>4. l # 1 => At(Alias(XPool(l - 1)), V("x", l - 1))'
    <3>1. l # 1 => \A j \in 1..Len(Now.args) :
             Alias(XPool(l - 1)) # Layout(Key(Now))[j] \/ Skipped(Now.args[j], dstep = "first")
      BY <2>1, PoolNames DEF Calls, Passes, Stays, Skipped
    <3> QED
      BY <2>2, <3>1, KeepsAt
  <2> QED
    BY <1>1, <1>3, <2>2, <2>3, <2>4, Thirds DEF ChainAt, Launching
<1>4. ASSUME NEW l \in 1..NLayers, ip = 3*l - 1, Now = ChainBlock(l)[2]
      PROVE  ChainAt(l)'
  <2>1. /\ Calls(Now, "flash_attn", 0, 2, "none")
        /\ Stays(Now, 1, Alias("vit_qkv")) /\ Stays(Now, 2, Alias("vit_attn"))
    BY <1>4, CallsVitFlash
  <2>2. At(Alias(XPool(l - 1)), V("x", l - 1)) /\ At(Alias("vit_qkv"), V("qkv", l))
    BY <1>2, <1>4, Thirds DEF ChainFlow, ChainAt
  <2>3. \A j \in 1..Len(Now.args) : Skipped(Now.args[j], dstep = "first")
    BY <2>1 DEF Calls, Stays, Skipped
  <2>4. At(Alias(XPool(l - 1)), V("x", l - 1))' /\ At(Alias("vit_qkv"), V("qkv", l))'
    BY <2>2, <2>3, KeepsAt
  <2> QED
    BY <1>1, <1>4, <2>4, Thirds DEF ChainAt
<1>5. ASSUME NEW l \in 1..NLayers, ip = 3*l, Now = ChainBlock(l)[3]
      PROVE  ChainAt(l)'
  <2>1. /\ Calls(Now, "vit_o_ffn", l, 4, IF l = NLayers THEN "x" ELSE "none")
        /\ Stays(Now, 1, Alias("vit_attn"))
        /\ Passes(Now, 2, "static", "weight", Own("vision", "vit_o_ffn", l, 2))
        /\ Stays(Now, 3, Alias(XPool(l - 1)))
        /\ Stays(Now, 4, Alias(XPool(l)))
    BY <1>5, CallsVitOFfn
  <2>2. At(Alias(XPool(l - 1)), V("x", l - 1)) /\ At(Alias("vit_attn"), V("attn", l))
    BY <1>2, <1>5, Thirds DEF ChainFlow, ChainAt
  <2>3. \A p : \A j \in 1..Len(Now.args) :
           Alias(p) # Layout(Key(Now))[j] \/ Skipped(Now.args[j], dstep = "first")
    BY <2>1, PoolNames DEF Calls, Passes, Stays, Skipped
  <2>4. At(Alias(XPool(l - 1)), V("x", l - 1))' /\ At(Alias("vit_attn"), V("attn", l))'
    BY <2>2, <2>3, KeepsAt
  <2> QED
    BY <1>1, <1>5, <2>4, Thirds DEF ChainAt
<1>6. ASSUME ip = 3*NLayers + 1, Now = Connector[1]
      PROVE  ChainFlow'
  <2>1. /\ Calls(Now, "layer_norm", 0, 3, "norm")
        /\ Passes(Now, 1, "plain", "x", Own("vision", "layer_norm", 0, 1))
    BY <1>6, CallsNorm
  <2>2. regs["x"] = Val(V("x", NLayers))
    BY <1>2, <1>6 DEF ChainFlow
  <2>3. At(Own("vision", "layer_norm", 0, 1), V("x", NLayers))'
    BY <2>1, <2>2, CopiesVal DEF Calls
  <2>4. (\A l \in 1..NLayers : ip \notin {3*l - 2, 3*l - 1, 3*l}) /\ ip # 3*NLayers + 2
    BY <1>6, Thirds, SizesAssumption
  <2> QED
    BY <1>1, <1>2, <1>6, <2>2, <2>3, <2>4 DEF ChainFlow, ChainAt, ConnectorAt, Launching
<1>7. ASSUME ip = 3*NLayers + 2, Now = Connector[2]
      PROVE  ChainFlow'
  <2>1. /\ Calls(Now, "gemm_connector", 0, 3, "out")
        /\ Passes(Now, 1, "plain", "norm", Own("vision", "gemm_connector", 0, 1))
    BY <1>7, CallsConnector
  <2>2. regs["norm"] = Val(V("norm", NLayers))
    BY <1>2, <1>7 DEF ChainFlow, ConnectorAt
  <2>3. At(Own("vision", "gemm_connector", 0, 1), V("norm", NLayers))'
    BY <2>1, <2>2, CopiesVal DEF Calls
  <2>4. (\A l \in 1..NLayers : ip \notin {3*l - 2, 3*l - 1, 3*l}) /\ ip # 3*NLayers + 1
    BY <1>7, Thirds, SizesAssumption
  <2> QED
    BY <1>1, <1>2, <1>7, <2>2, <2>3, <2>4 DEF ChainFlow, ChainAt, ConnectorAt, Launching
<1>8. \A l \in 1..NLayers : ip \in {3*l - 2, 3*l - 1, 3*l} /\ ChainAt(l)' => ChainFlow'
  BY <1>1, <1>2, ChainPlace
<1> QED
  BY <1>3, <1>4, <1>5, <1>6, <1>7, <1>8, ChainHere

LEMMA CpuPlace ==
    ASSUME NEW l \in 1..NLayers, ip' \in {2*l - 1, 2*l}, tok' = 0, CpuAt(l)'
    PROVE  CpuFlow'
<1>1. \A k \in 1..NLayers : ip' \in {2*k - 1, 2*k} => k = l
  BY Halves
<1>2. ip' # 2*NLayers + 1 /\ ip' # 2*NLayers + 2
  BY Halves
<1>3. \A k \in 1..NLayers : k # l => CpuAt(k)'
  BY <1>1 DEF CpuAt
<1> QED
  BY <1>2, <1>3 DEF CpuFlow, ConnectorAt

LEMMA CpuHere ==
    ASSUME TaskInv, task = "cpu"
    PROVE  \/ \E l \in 1..NLayers :
                 \/ ip = 2*l - 1 /\ Now = CpuBlock(l)[1]
                 \/ ip = 2*l /\ Now = CpuBlock(l)[2]
           \/ ip = 2*NLayers + 1 /\ Now = Connector[1]
           \/ ip = 2*NLayers + 2 /\ Now = Connector[2]
<1>1. ip \in 1..Len(Program("cpu")) /\ Now = Program("cpu")[ip]
  BY NowCall DEF Tasks
<1> HIDE DEF Now
<1>2. ip \in 1..(2*NLayers) \/ ip = 2*NLayers + 1 \/ ip = 2*NLayers + 2
  BY <1>1, CpuCalls, SizesAssumption
<1> QED
  BY <1>1, <1>2, HalvesCover, CpuCalls

LEMMA CpuWrite ==
    ASSUME TaskInv, Books, FlowInv, WriteInputs, task = "cpu"
    PROVE  CpuFlow'
<1> USE DEF Books
<1>1. /\ UNCHANGED <<task, ip, req, tok, regs, kv>> /\ dstep' = "launch"
      /\ \A s, l : V(s, l)' = V(s, l)
  BY Tensors DEF WriteInputs
<1>2. CpuFlow /\ tok = 0
  BY DEF FlowInv, CpuFlow
<1>3. \A l, b : LayerInput(l, b) /\ At(b, V("x", l))' => LayerInput(l, b)'
  BY <1>1 DEF LayerInput, Shows
<1> HIDE DEF Now
<1>4. ASSUME NEW l \in 1..NLayers, ip = 2*l - 1, Now = CpuBlock(l)[1]
      PROVE  CpuAt(l)'
  <2>1. /\ Calls(Now, "vit_ln_qkv", l, 3, "qkv")
        /\ Passes(Now, 1, "plain", "x", Alias(XPool(l - 1)))
    BY <1>4, CallsCpuQkv
  <2>2. LayerInput(l - 1, Alias(XPool(l - 1)))
    BY <1>2, <1>4, Halves DEF CpuFlow, CpuAt
  <2>3. At(Alias(XPool(l - 1)), V("x", l - 1))'
    BY <2>1, <2>2, RealBos, CopiesLayerInput DEF Calls
  <2> QED
    BY <1>1, <1>3, <1>4, <2>2, <2>3, Halves DEF CpuAt, Launching
<1>5. ASSUME NEW l \in 1..NLayers, ip = 2*l, Now = CpuBlock(l)[2]
      PROVE  CpuAt(l)'
  <2>1. /\ Calls(Now, "vit_o_ffn", l, 4, "x")
        /\ Passes(Now, 1, "plain", "attn", Alias("vit_attn"))
        /\ Passes(Now, 2, "static", "weight", Own("vision", "vit_o_ffn", l, 2))
        /\ Passes(Now, 3, "plain", "x", Alias(XPool(l - 1)))
    BY <1>5, CallsCpuFfn
  <2>2. LayerInput(l - 1, Alias(XPool(l - 1))) /\ regs["attn"] = Val(V("attn", l))
    BY <1>2, <1>5, Halves DEF CpuFlow, CpuAt
  <2>3. At(Alias("vit_attn"), V("attn", l))'
    BY <2>1, <2>2, CopiesVal DEF Calls
  <2>4. At(Alias(XPool(l - 1)), V("x", l - 1))'
    <3>1. \A j \in 1..(3 - 1) : Alias(XPool(l - 1)) # Layout(Key(Now))[j]
      BY <2>1, PoolNames DEF Passes
    <3> QED
      BY <2>1, <2>2, <3>1, RealBos, CopiesLayerInput DEF Calls
  <2> QED
    BY <1>1, <1>3, <1>5, <2>2, <2>3, <2>4, Halves DEF CpuAt, Launching
<1>6. ASSUME ip = 2*NLayers + 1, Now = Connector[1]
      PROVE  CpuFlow'
  <2>1. /\ Calls(Now, "layer_norm", 0, 3, "norm")
        /\ Passes(Now, 1, "plain", "x", Own("vision", "layer_norm", 0, 1))
        /\ Passes(Now, 2, "static", "weight", Own("vision", "layer_norm", 0, 2))
        /\ Passes(Now, 3, "inter", "zeros", Own("vision", "layer_norm", 0, 3))
    BY <1>6, CallsNorm
  <2>2. LayerInput(NLayers, Alias(XPool(NLayers)))
    BY <1>2, <1>6 DEF CpuFlow
  <2>3. At(Own("vision", "layer_norm", 0, 1), V("x", NLayers))'
    BY <2>1, <2>2, RealBos, CopiesLayerInput DEF Calls
  <2>4. \A j \in 1..Len(Now.args) : Alias(XPool(NLayers)) # Layout(Key(Now))[j]
    BY <2>1 DEF Calls, Passes, Alias, Own
  <2>5. LayerInput(NLayers, Alias(XPool(NLayers)))'
    BY <1>1, <2>2, <2>4, KeepsAt DEF LayerInput, Shows
  <2>6. (\A l \in 1..NLayers : ip \notin {2*l - 1, 2*l}) /\ ip # 2*NLayers + 2
    BY <1>6, Halves, SizesAssumption
  <2> QED
    BY <1>1, <1>2, <1>6, <2>3, <2>5, <2>6 DEF CpuFlow, CpuAt, ConnectorAt, Launching
<1>7. ASSUME ip = 2*NLayers + 2, Now = Connector[2]
      PROVE  CpuFlow'
  <2>1. /\ Calls(Now, "gemm_connector", 0, 3, "out")
        /\ Passes(Now, 1, "plain", "norm", Own("vision", "gemm_connector", 0, 1))
    BY <1>7, CallsConnector
  <2>2. regs["norm"] = Val(V("norm", NLayers))
    BY <1>2, <1>7 DEF CpuFlow, ConnectorAt
  <2>3. At(Own("vision", "gemm_connector", 0, 1), V("norm", NLayers))'
    BY <2>1, <2>2, CopiesVal DEF Calls
  <2>4. (\A l \in 1..NLayers : ip \notin {2*l - 1, 2*l}) /\ ip # 2*NLayers + 1
    BY <1>7, Halves, SizesAssumption
  <2> QED
    BY <1>1, <1>2, <1>7, <2>2, <2>3, <2>4 DEF CpuFlow, CpuAt, ConnectorAt, Launching
<1>8. \A l \in 1..NLayers : ip \in {2*l - 1, 2*l} /\ CpuAt(l)' => CpuFlow'
  BY <1>1, <1>2, CpuPlace
<1> QED
  BY <1>4, <1>5, <1>6, <1>7, <1>8, CpuHere

-----------------------------------------------------------------------------
(* Launch: the result, the arrays read back, K and V, the host's attention. *)

Read == ReadBack(Now, mem')
Past == Extracted(Now, mem', Read)
Held == Attended(Now, mem', Read, Past)

LEMMA LaunchHost ==
    ASSUME Launch
    PROVE  IF ip = Len(Program(task)) THEN Finish(Held, Past)
           ELSE ip' = ip + 1 /\ regs' = Held /\ kv' = Past /\ UNCHANGED <<task, tok, out>>
  BY DEF Launch, Held, Past, Read

LEMMA ReadIs ==
    ASSUME TaskInv, BindInv, RestInv, Launch, Output # NoBo,
           NEW o, o = Now.args[Len(Now.args)].dst
    PROVE  /\ o = "none" => Read = regs
           /\ o \in {"x", "qkv", "attn", "norm", "out"} =>
                 /\ Read[o] = IF o \in Copied THEN Val(mem'[Output]) ELSE View(Output)
                 /\ \A r \in {"x", "qkv", "attn", "norm", "out"} : r # o => Read[r] = regs[r]
                 /\ DOMAIN Read = DOMAIN regs
<1>1. bos[Key(Now)][Len(Now.args)] = Output
  <2>1. dstep = "launch"
    BY DEF Launch
  <2>2. Len(Now.args) \in 1..Len(Now.args)
    BY <2>1, CallBound DEF Fits
  <2> QED
    BY <2>1, <2>2, CallBound DEF Output
<1>2. Get(mem', View(Output)) = mem'[Output]
  BY DEF Get, View
<1> HIDE DEF Now, Output
<1>3. Read = IF o = "none" THEN regs
             ELSE [regs EXCEPT ![o] = IF o \in Copied THEN Val(mem'[Output]) ELSE View(Output)]
  BY <1>1, <1>2 DEF Read, ReadBack
<1>4. DOMAIN regs = {"x", "qkv", "attn", "norm", "out"}
  BY DEF RestInv
<1> QED
  BY <1>3, <1>4

\* The result of the kernels, each on the operands it is meant for.
LEMMA LaunchQkv ==
    ASSUME TaskInv, Books, Launch, Kind(Now.k) = "qkv", Slot(Now.k) = 2,
           NEW l \in 1..NLayers, Now.l = l,
           NEW b, Layout(Key(Now))[1] = b, At(b, V("x", l - 1))
    PROVE  Output \in DOMAIN mem' /\ mem'[Output] = V("qkv", l)
<1> USE DEF Books
<1>1. Output \in DOMAIN mem' /\ mem'[Output] = Computed(Now) /\ dstep = "launch"
  BY LaunchEffect
<1> HIDE DEF Now, Output
<1>2. PICK v, w : /\ Computed(Now) = Compute(Now.k, v, w)
                  /\ v[1] = mem[Layout(Key(Now))[IF Slot(Now.k) = 1 THEN 2 ELSE 1]]
                  /\ Slot(Now.k) # 0 => w = WeightOf(Now.k, Now.l)
  BY <1>1, LaunchOperands
<1>3. v[1] = <<"x", req, tok, l - 1>> /\ w = WeightOf(Now.k, l)
  BY <1>2 DEF At, V
<1>4. l = (l - 1) + 1
  OBVIOUS
<1>5. Compute(Now.k, v, w) = <<"qkv", req, tok, l>>
  BY <1>3, <1>4, ComputesQkv
<1> QED
  BY <1>1, <1>2, <1>5 DEF V

LEMMA LaunchAttn ==
    ASSUME TaskInv, Books, Launch, Now.k = "flash_attn", NEW l,
           NEW b, Layout(Key(Now))[1] = b, At(b, V("qkv", l))
    PROVE  Output \in DOMAIN mem' /\ mem'[Output] = V("attn", l)
<1> USE DEF Books
<1>1. Output \in DOMAIN mem' /\ mem'[Output] = Computed(Now) /\ dstep = "launch"
  BY LaunchEffect
<1>2. Slot(Now.k) = 0
  BY DEF Slot
<1> HIDE DEF Now, Output
<1>3. PICK v, w : /\ Computed(Now) = Compute(Now.k, v, w)
                  /\ v[1] = mem[Layout(Key(Now))[IF Slot(Now.k) = 1 THEN 2 ELSE 1]]
  BY <1>1, LaunchOperands
<1>4. v[1] = <<"qkv", req, tok, l>>
  BY <1>2, <1>3 DEF At, V
<1> QED
  BY <1>1, <1>3, <1>4, ComputesAttn DEF V

LEMMA LaunchFfn ==
    ASSUME TaskInv, Books, Launch, Kind(Now.k) = "ffn", Slot(Now.k) # 0, Len(Now.args) = 4,
           NEW l \in 1..NLayers, Now.l = l,
           NEW a, Layout(Key(Now))[IF Slot(Now.k) = 1 THEN 2 ELSE 1] = a, At(a, V("attn", l)),
           NEW b, Layout(Key(Now))[3] = b, At(b, V("x", l - 1))
    PROVE  Output \in DOMAIN mem' /\ mem'[Output] = V("x", l)
<1> USE DEF Books
<1>1. Output \in DOMAIN mem' /\ mem'[Output] = Computed(Now) /\ dstep = "launch"
  BY LaunchEffect
<1> HIDE DEF Now, Output
<1>2. PICK v, w : /\ Computed(Now) = Compute(Now.k, v, w)
                  /\ v[1] = mem[Layout(Key(Now))[IF Slot(Now.k) = 1 THEN 2 ELSE 1]]
                  /\ Len(Now.args) = 4 /\ Slot(Now.k) # 0 => v[2] = mem[Layout(Key(Now))[3]]
                  /\ Slot(Now.k) # 0 => w = WeightOf(Now.k, Now.l)
  BY <1>1, LaunchOperands
<1>3. /\ v[1] = <<"attn", req, tok, l>> /\ v[2] = <<"x", req, tok, l - 1>>
      /\ w = WeightOf(Now.k, l)
  BY <1>2 DEF At, V
<1>4. Compute(Now.k, v, w) = <<"x", req, tok, l>>
  BY <1>3, ComputesFfn
<1> QED
  BY <1>1, <1>2, <1>4 DEF V

LEMMA LaunchHead ==
    ASSUME TaskInv, Books, Launch, NEW k \in {"layer_norm", "lm_head_gemv", "gemm_connector"},
           Now.k = k, Now.l = 0, NEW b, Layout(Key(Now))[1] = b,
           At(b, V(IF k = "gemm_connector" THEN "norm" ELSE "x", NLayers))
    PROVE  Output \in DOMAIN mem' /\ mem'[Output] = V(IF k = "layer_norm" THEN "norm" ELSE "out", NLayers)
<1> USE DEF Books
<1>1. Output \in DOMAIN mem' /\ mem'[Output] = Computed(Now) /\ dstep = "launch"
  BY LaunchEffect
<1>2. Slot(Now.k) = 2
  BY DEF Slot
<1> HIDE DEF Now, Output
<1>3. PICK v, w : /\ Computed(Now) = Compute(Now.k, v, w)
                  /\ v[1] = mem[Layout(Key(Now))[IF Slot(Now.k) = 1 THEN 2 ELSE 1]]
                  /\ Slot(Now.k) # 0 => w = WeightOf(Now.k, Now.l)
  BY <1>1, LaunchOperands
<1>4. v[1] = <<IF k = "gemm_connector" THEN "norm" ELSE "x", req, tok, NLayers>>
  BY <1>2, <1>3 DEF At, V
<1>5. w = WeightOf(k, 0)
  BY <1>2, <1>3
<1>6. Compute(k, v, w) = <<IF k = "layer_norm" THEN "norm" ELSE "out", req, tok, NLayers>>
  <2>1. CASE k = "layer_norm"
    BY <1>4, <1>5, <2>1, ComputesHead
  <2>2. CASE k = "lm_head_gemv"
    BY <1>4, <1>5, <2>2, ComputesHead
  <2>3. CASE k = "gemm_connector"
    BY <1>4, <1>5, <2>3, ComputesHead
  <2> QED
    BY <2>1, <2>2, <2>3
<1> QED
  BY <1>1, <1>3, <1>6 DEF V

\* K and V: one more position in layer l.
LEMMA CacheGrows ==
    ASSUME tok \in Nat, NEW l \in 1..NLayers, kv = KvDone(l - 1)
    PROVE  /\ [kv EXCEPT ![l] = Append(@, V("qkv", l))] = KvDone(l)
           /\ \A t \in DOMAIN KvDone(l)[l] : KvDone(l)[l][t] = <<"qkv", req, t - 1, l>>
<1> DEFINE c == Cached(l, tok)
<1>1. /\ c = [t \in 1..tok |-> <<"qkv", req, t - 1, l>>]
      /\ Len(c) = tok /\ DOMAIN c = 1..tok
  BY DEF Cached
<1>2. Append(c, V("qkv", l)) = Cached(l, tok + 1)
  <2>1. V("qkv", l) = <<"qkv", req, (tok + 1) - 1, l>>
    BY DEF V
  <2>2. Append(c, V("qkv", l)) = [t \in 1..(tok + 1) |-> IF t = tok + 1 THEN V("qkv", l) ELSE c[t]]
    BY <1>1
  <2>3. \A t \in 1..(tok + 1) : (IF t = tok + 1 THEN V("qkv", l) ELSE c[t]) = <<"qkv", req, t - 1, l>>
    BY <1>1, <2>1
  <2> QED
    BY <2>2, <2>3 DEF Cached
<1>3. kv = [k \in 1..NLayers |-> Cached(k, IF k <= l - 1 THEN tok + 1 ELSE tok)]
  BY DEF KvDone
<1>4. kv[l] = c
  <2>1. ~(l <= l - 1)
    BY SizesAssumption
  <2> QED
    BY <1>3, <2>1
<1>5. \A k \in 1..NLayers : k # l => (k <= l - 1 <=> k <= l)
  BY SizesAssumption
<1> HIDE DEF c
<1>6. [kv EXCEPT ![l] = Append(@, V("qkv", l))] =
         [k \in 1..NLayers |-> IF k = l THEN Cached(l, tok + 1)
                               ELSE Cached(k, IF k <= l - 1 THEN tok + 1 ELSE tok)]
  BY <1>2, <1>3, <1>4
<1>7. [kv EXCEPT ![l] = Append(@, V("qkv", l))] = KvDone(l)
  <2>1. \A k \in 1..NLayers : (IF k = l THEN Cached(l, tok + 1)
                              ELSE Cached(k, IF k <= l - 1 THEN tok + 1 ELSE tok))
                             = Cached(k, IF k <= l THEN tok + 1 ELSE tok)
    <3>1. l <= l
      BY SizesAssumption
    <3> QED
      BY <1>5, <3>1
  <2> HIDE DEF Cached
  <2> QED
    BY <1>6, <2>1 DEF KvDone
<1>8. KvDone(l)[l] = Cached(l, tok + 1)
  BY DEF KvDone
<1> QED
  BY <1>7, <1>8 DEF Cached

LEMMA LaunchOn ==
    ASSUME TaskInv, BindInv, Launch, ip # Len(Program(task))
    PROVE  /\ ip' = ip + 1 /\ regs' = Held /\ kv' = Past /\ UNCHANGED <<task, tok, req, out>>
           /\ dstep' = "bind"
           /\ \A s, l : V(s, l)' = V(s, l)
           /\ \A l : KvDone(l)' = KvDone(l)
           /\ \A b, s, l : At(b, V(s, l)) /\ b # Output => At(b, V(s, l))'
           /\ \A b, s, l : b = Output /\ b \in DOMAIN mem' /\ mem'[b] = V(s, l) => At(b, V(s, l))'
<1>1. ip' = ip + 1 /\ regs' = Held /\ kv' = Past /\ UNCHANGED <<task, tok, out>>
  BY LaunchHost
<1>2. /\ UNCHANGED req /\ dstep' = "bind" /\ DOMAIN mem' = DOMAIN mem
      /\ \A b \in DOMAIN mem : b # Output => mem'[b] = mem[b]
  BY LaunchEffect
<1>3. /\ \A s, l : V(s, l)' = V(s, l)
      /\ \A l : KvDone(l)' = KvDone(l)
  BY <1>1, <1>2, Tensors
<1> HIDE DEF Output, Held, Past
<1>4. \A b, s, l : At(b, V(s, l)) /\ b # Output => At(b, V(s, l))'
  BY <1>2, <1>3 DEF At
<1>5. \A b, s, l : b \in DOMAIN mem' /\ mem'[b] = V(s, l) => At(b, V(s, l))'
  BY <1>3 DEF At
<1> QED
  BY <1>1, <1>2, <1>3, <1>4, <1>5

\* Outside the host-attention paths the host only reads back.
LEMMA NoAttention ==
    /\ task \notin {"decode", "cpu"} => Held = Read
    /\ Kind(Now.k) # "qkv" => Held = Read
    /\ <<task, Now.k>> \notin {<<"prefill", "o_ffn">>, <<"decode", "rms_gemv_rope">>} => Past = kv
  BY DEF Held, Past, Attended, Extracted

LEMMA PrefillLaunch ==
    ASSUME TaskInv, Books, FlowInv, RestInv, Launch, task = "prefill", ip # Len(Program(task))
    PROVE  PrefillFlow'
<1> USE DEF Books
<1>1. /\ ip' = ip + 1 /\ regs' = Held /\ kv' = Past /\ UNCHANGED <<task, tok, req, out>>
      /\ dstep' = "bind" /\ dstep = "launch"
      /\ \A s, l : V(s, l)' = V(s, l)
      /\ \A l : KvDone(l)' = KvDone(l)
      /\ \A b, s, l : At(b, V(s, l)) /\ b # Output => At(b, V(s, l))'
  BY LaunchOn DEF Launch
<1>2. PrefillFlow /\ tok = 0 /\ Held = Read
  BY NoAttention DEF FlowInv, PrefillFlow
<1>3. Copied = {"norm", "out"}
  BY DEF Copied
<1> HIDE DEF Now
<1>4. ASSUME NEW l \in 1..NLayers, ip = 3*l - 2, Now = PrefillBlock(l)[1]
      PROVE  PrefillFlow'
  <2>1. /\ Calls(Now, "rms_gemms_rope", l, 3, "qkv")
        /\ Passes(Now, 1, "plain", "x", Pool("rms_gemms_rope", 1))
        /\ Passes(Now, 3, "inter", "zeros", Pool("rms_gemms_rope", 3))
    BY <1>4, CallsRmsGemms
  <2>2. /\ LayerInput(l - 1, Pool("o_ffn", 4)) /\ kv = KvDone(l - 1)
        /\ At(Pool("rms_gemms_rope", 1), V("x", l - 1))
    BY <1>1, <1>2, <1>4, Thirds DEF PrefillFlow, PrefillAt, Launching
  <2>3. Output = Pool("rms_gemms_rope", 3) /\ Output # NoBo /\ Pool("o_ffn", 4) # Output
    BY <2>1, RealBos DEF Calls, Passes, Output, Pool
  <2>4. At(Pool("rms_gemms_rope", 3), V("qkv", l))'
    <3>1. Kind(Now.k) = "qkv" /\ Slot(Now.k) = 2 /\ Now.l = l
      BY <2>1 DEF Calls, Kind, Slot
    <3>2. Layout(Key(Now))[1] = Pool("rms_gemms_rope", 1)
      BY <2>1 DEF Passes
    <3> QED
      BY <2>2, <2>3, <3>1, <3>2, LaunchQkv, LaunchOn
  <2>5. /\ regs'["qkv"] = View(Output) /\ regs'["x"] = regs["x"]
        /\ kv' = kv
    <3>1. Now.args[Len(Now.args)].dst = "qkv" /\ Now.k = "rms_gemms_rope"
      BY <2>1 DEF Calls
    <3> QED
      BY <1>1, <1>2, <1>3, <2>3, <3>1, ReadIs, NoAttention
  <2>6. LayerInput(l - 1, Pool("o_ffn", 4))'
    BY <1>1, <2>2, <2>3, <2>5 DEF LayerInput, Shows
  <2>7. ip' = 3*l - 1
    BY <1>1, <1>4, Thirds
  <2>8. PrefillAt(l)'
    BY <1>1, <2>2, <2>3, <2>4, <2>5, <2>6, <2>7, Thirds DEF PrefillAt, Launching, Shows
  <2> QED
    BY <1>1, <1>2, <2>7, <2>8, PrefillPlace
<1>5. ASSUME NEW l \in 1..NLayers, ip = 3*l - 1, Now = PrefillBlock(l)[2]
      PROVE  PrefillFlow'
  <2>1. /\ Calls(Now, "flash_attn", 0, 2, "attn")
        /\ Passes(Now, 1, "plain", "qkv", Own("prefill", "flash_attn", 0, 1))
        /\ Passes(Now, 2, "plain", "zeros", Own("prefill", "flash_attn", 0, 2))
    BY <1>5, CallsFlash
  <2>2. /\ LayerInput(l - 1, Pool("o_ffn", 4)) /\ kv = KvDone(l - 1)
        /\ Shows("qkv", Pool("rms_gemms_rope", 3), V("qkv", l))
        /\ At(Own("prefill", "flash_attn", 0, 1), V("qkv", l))
    BY <1>1, <1>2, <1>5, Thirds DEF PrefillFlow, PrefillAt, Launching
  <2>3. /\ Output = Own("prefill", "flash_attn", 0, 2) /\ Output # NoBo
        /\ Pool("o_ffn", 4) # Output /\ Pool("rms_gemms_rope", 3) # Output
    BY <2>1, RealBos DEF Calls, Passes, Output, Pool, Own
  <2>4. At(Own("prefill", "flash_attn", 0, 2), V("attn", l))'
    <3>1. Now.k = "flash_attn" /\ Layout(Key(Now))[1] = Own("prefill", "flash_attn", 0, 1)
      BY <2>1 DEF Calls, Passes
    <3> QED
      BY <2>2, <2>3, <3>1, LaunchAttn, LaunchOn
  <2>5. /\ regs'["attn"] = View(Output) /\ regs'["x"] = regs["x"] /\ regs'["qkv"] = regs["qkv"]
        /\ kv' = kv
    <3>1. Now.args[Len(Now.args)].dst = "attn" /\ Now.k = "flash_attn"
      BY <2>1 DEF Calls
    <3> QED
      BY <1>1, <1>2, <1>3, <2>3, <3>1, ReadIs, NoAttention
  <2>6. /\ LayerInput(l - 1, Pool("o_ffn", 4))'
        /\ Shows("qkv", Pool("rms_gemms_rope", 3), V("qkv", l))'
    BY <1>1, <2>2, <2>3, <2>5 DEF LayerInput, Shows
  <2>7. ip' = 3*l
    BY <1>1, <1>5, Thirds
  <2>8. PrefillAt(l)'
    BY <1>1, <2>2, <2>3, <2>4, <2>5, <2>6, <2>7, Thirds DEF PrefillAt, Launching, Shows
  <2> QED
    BY <1>1, <1>2, <2>7, <2>8, PrefillPlace
<1>6. ASSUME NEW l \in 1..NLayers, ip = 3*l, Now = PrefillBlock(l)[3]
      PROVE  PrefillFlow'
  <2>1. /\ Calls(Now, "o_ffn", l, 4, "x")
        /\ Passes(Now, 1, "plain", "attn", Pool("o_ffn", 1))
        /\ Passes(Now, 3, "plain", "x", Pool("o_ffn", 3))
        /\ Passes(Now, 4, "inter", "zeros", Pool("o_ffn", 4))
    BY <1>6, CallsOFfn
  <2>2. /\ kv = KvDone(l - 1)
        /\ Shows("qkv", Pool("rms_gemms_rope", 3), V("qkv", l))
        /\ At(Pool("o_ffn", 1), V("attn", l)) /\ At(Pool("o_ffn", 3), V("x", l - 1))
    BY <1>1, <1>2, <1>6, Thirds DEF PrefillFlow, PrefillAt, Launching
  <2>3. /\ Output = Pool("o_ffn", 4) /\ Output # NoBo
        /\ Pool("rms_gemms_rope", 3) # Output /\ Pool("rms_gemms_rope", 3) # NoBo
    BY <2>1, RealBos DEF Calls, Passes, Output, Pool
  <2>4. At(Pool("o_ffn", 4), V("x", l))'
    <3>1. Kind(Now.k) = "ffn" /\ Slot(Now.k) = 2 /\ Now.l = l /\ Len(Now.args) = 4
      BY <2>1 DEF Calls, Kind, Slot
    <3>2. Layout(Key(Now))[1] = Pool("o_ffn", 1) /\ Layout(Key(Now))[3] = Pool("o_ffn", 3)
      BY <2>1 DEF Passes
    <3> QED
      BY <2>2, <2>3, <3>1, <3>2, LaunchFfn, LaunchOn
  <2>5. regs'["x"] = View(Output) /\ Read["qkv"] = regs["qkv"]
    <3>1. Now.args[Len(Now.args)].dst = "x"
      BY <2>1 DEF Calls
    <3> QED
      BY <1>1, <1>2, <1>3, <2>3, <3>1, ReadIs
  <2>6. kv' = KvDone(l)'
    <3>1. Get(mem', Read["qkv"]) = V("qkv", l)
      BY <1>1, <2>2, <2>3, <2>5 DEF Shows, Get, View, At
    <3>2. Now.k = "o_ffn" /\ Now.l = l
      BY <2>1 DEF Calls
    <3>3. kv' = [kv EXCEPT ![l] = Append(@, V("qkv", l))]
      BY <1>1, <3>1, <3>2 DEF Past, Extracted
    <3>4. kv' = KvDone(l)
      BY <1>2, <2>2, <3>3, CacheGrows
    <3> QED
      BY <1>1, <3>4
  <2>7. LayerInput(l, Pool("o_ffn", 4))'
    BY <2>3, <2>4, <2>5 DEF LayerInput, Shows
  <2>8. CASE l = NLayers
    <3>1. ip' = 3*NLayers + 1
      BY <1>1, <1>6, <2>8
    <3>2. \A k \in 1..NLayers : ip' \notin {3*k - 2, 3*k - 1, 3*k}
      BY <3>1, Thirds
    <3> QED
      BY <1>1, <1>2, <2>6, <2>7, <2>8, <3>1, <3>2 DEF PrefillFlow, PrefillAt, Launching
  <2>9. CASE l # NLayers
    <3>1. l + 1 \in 1..NLayers /\ ip' = 3*(l + 1) - 2 /\ (l + 1) - 1 = l
      BY <1>1, <1>6, <2>9, SizesAssumption
    <3> DEFINE k == l + 1
    <3>2. k \in 1..NLayers /\ ip' = 3*k - 2 /\ k - 1 = l
      BY <3>1
    <3> HIDE DEF k
    <3>3. PrefillAt(k)'
      BY <1>1, <2>6, <2>7, <3>2, Thirds DEF PrefillAt, Launching
    <3> QED
      BY <1>1, <1>2, <3>2, <3>3, PrefillPlace
  <2> QED
    BY <2>8, <2>9
<1> QED
  BY <1>4, <1>5, <1>6, PrefillHere, PrefillCalls

\* The attention of the host over a cache that holds every position.
LEMMA Attends ==
    ASSUME NEW l, NEW past, \A t \in DOMAIN past : past[t] = <<"qkv", req, t - 1, l>>
    PROVE  HostAttention(V("qkv", l), past) = V("attn", l)
  BY DEF HostAttention, V

LEMMA DecodeLaunch ==
    ASSUME TaskInv, Books, FlowInv, RestInv, Launch, task = "decode", ip # Len(Program(task))
    PROVE  DecodeFlow'
<1> USE DEF Books
<1>1. /\ ip' = ip + 1 /\ regs' = Held /\ kv' = Past /\ UNCHANGED <<task, tok, req, out>>
      /\ dstep' = "bind" /\ dstep = "launch"
      /\ \A s, l : V(s, l)' = V(s, l)
      /\ \A l : KvDone(l)' = KvDone(l)
  BY LaunchOn DEF Launch
<1>2. DecodeFlow /\ tok \in 1..MaxTokens /\ tok \in Nat
  BY DEF FlowInv, DecodeFlow, RestInv
<1>3. Copied = {"x", "qkv", "out"}
  BY DEF Copied
<1>4. DOMAIN regs = {"x", "qkv", "attn", "norm", "out"}
  BY DEF RestInv
<1> HIDE DEF Now
<1>5. ASSUME NEW l \in 1..NLayers, ip = 2*l - 1, Now = DecodeBlock(l)[1]
      PROVE  DecodeFlow'
  <2>1. /\ Calls(Now, "rms_gemv_rope", l, 3, "qkv")
        /\ Passes(Now, 1, "plain", "x", Own("decode", "rms_gemv_rope", l, 1))
        /\ Passes(Now, 3, "inter", "zeros", Own("decode", "rms_gemv_rope", l, 3))
    BY <1>5, CallsRmsGemv
  <2>2. /\ regs["x"] = Val(V("x", l - 1)) /\ kv = KvDone(l - 1)
        /\ At(Own("decode", "rms_gemv_rope", l, 1), V("x", l - 1))
    BY <1>1, <1>2, <1>5, Halves DEF DecodeFlow, DecodeAt, Launching
  <2>3. Output = Own("decode", "rms_gemv_rope", l, 3) /\ Output # NoBo
    BY <2>1, RealBos DEF Calls, Passes, Output
  <2>4. mem'[Output] = V("qkv", l)
    <3>1. Kind(Now.k) = "qkv" /\ Slot(Now.k) = 2 /\ Now.l = l
      BY <2>1 DEF Calls, Kind, Slot
    <3>2. Layout(Key(Now))[1] = Own("decode", "rms_gemv_rope", l, 1)
      BY <2>1 DEF Passes
    <3> QED
      BY <2>2, <3>1, <3>2, LaunchQkv
  <2>5. Read["qkv"] = Val(V("qkv", l)) /\ Read["x"] = regs["x"] /\ DOMAIN Read = DOMAIN regs
    <3>1. Now.args[Len(Now.args)].dst = "qkv"
      BY <2>1 DEF Calls
    <3> QED
      BY <1>3, <2>3, <2>4, <3>1, ReadIs
  <2>6. Get(mem', Read["qkv"]) = V("qkv", l)
    BY <2>5 DEF Get, Val
  <2>7. Past = KvDone(l)
    <3>1. Now.k = "rms_gemv_rope" /\ Now.l = l
      BY <2>1 DEF Calls
    <3>2. Past = [kv EXCEPT ![l] = Append(@, V("qkv", l))]
      BY <2>6, <3>1 DEF Past, Extracted
    <3> QED
      BY <1>2, <2>2, <3>2, CacheGrows
  <2>8. Held = [Read EXCEPT !["attn"] = Val(V("attn", l))]
    <3>1. Kind(Now.k) = "qkv" /\ Now.l = l
      BY <2>1 DEF Calls, Kind
    <3>2. HostAttention(V("qkv", l), KvDone(l)[l]) = V("attn", l)
      BY <1>2, <2>2, CacheGrows, Attends
    <3> QED
      BY <2>6, <2>7, <3>1, <3>2 DEF Held, Attended
  <2>9. regs'["x"] = Val(V("x", l - 1)) /\ regs'["attn"] = Val(V("attn", l))
    BY <1>1, <1>4, <2>2, <2>5, <2>8
  <2>10. ip' = 2*l
    BY <1>1, <1>5, Halves
  <2>11. DecodeAt(l)'
    BY <1>1, <2>7, <2>9, <2>10, Halves DEF DecodeAt, Launching
  <2> QED
    BY <1>1, <1>2, <2>10, <2>11, DecodePlace
<1>6. ASSUME NEW l \in 1..NLayers, ip = 2*l, Now = DecodeBlock(l)[2]
      PROVE  DecodeFlow'
  <2>1. /\ Calls(Now, "o_gemv_ffn", l, 4, "x")
        /\ Passes(Now, 2, "plain", "attn", Own("decode", "o_gemv_ffn", l, 2))
        /\ Passes(Now, 3, "plain", "x", Own("decode", "o_gemv_ffn", l, 3))
        /\ Passes(Now, 4, "inter", "zeros", Own("decode", "o_gemv_ffn", l, 4))
    BY <1>6, CallsOGemv
  <2>2. /\ kv = KvDone(l)
        /\ At(Own("decode", "o_gemv_ffn", l, 2), V("attn", l))
        /\ At(Own("decode", "o_gemv_ffn", l, 3), V("x", l - 1))
    BY <1>1, <1>2, <1>6, Halves DEF DecodeFlow, DecodeAt, Launching
  <2>3. Output = Own("decode", "o_gemv_ffn", l, 4) /\ Output # NoBo
    BY <2>1, RealBos DEF Calls, Passes, Output
  <2>4. mem'[Output] = V("x", l)
    <3>1. Kind(Now.k) = "ffn" /\ Slot(Now.k) = 1 /\ Now.l = l /\ Len(Now.args) = 4
      BY <2>1 DEF Calls, Kind, Slot
    <3>2. /\ Layout(Key(Now))[2] = Own("decode", "o_gemv_ffn", l, 2)
          /\ Layout(Key(Now))[3] = Own("decode", "o_gemv_ffn", l, 3)
      BY <2>1 DEF Passes
    <3> QED
      BY <2>2, <3>1, <3>2, LaunchFfn
  <2>5. regs'["x"] = Val(V("x", l)) /\ kv' = KvDone(l)
    <3>1. Now.args[Len(Now.args)].dst = "x" /\ Now.k = "o_gemv_ffn" /\ Kind(Now.k) # "qkv"
      BY <2>1 DEF Calls, Kind
    <3>2. Held = Read /\ Past = kv
      BY <3>1, NoAttention
    <3> QED
      BY <1>1, <1>3, <2>2, <2>3, <2>4, <3>1, <3>2, ReadIs
  <2>6. CASE l = NLayers
    <3>1. ip' = 2*NLayers + 1
      BY <1>1, <1>6, <2>6
    <3>2. \A k \in 1..NLayers : ip' \notin {2*k - 1, 2*k}
      BY <3>1, Halves
    <3> QED
      BY <1>1, <1>2, <2>5, <2>6, <3>1, <3>2 DEF DecodeFlow, DecodeAt, Launching
  <2>7. CASE l # NLayers
    <3>1. l + 1 \in 1..NLayers /\ ip' = 2*(l + 1) - 1 /\ (l + 1) - 1 = l
      BY <1>1, <1>6, <2>7, SizesAssumption
    <3> DEFINE k == l + 1
    <3>2. k \in 1..NLayers /\ ip' = 2*k - 1 /\ k - 1 = l
      BY <3>1
    <3> HIDE DEF k
    <3>3. DecodeAt(k)'
      BY <1>1, <2>5, <3>2, Halves DEF DecodeAt, Launching
    <3> QED
      BY <1>1, <1>2, <3>2, <3>3, DecodePlace
  <2> QED
    BY <2>6, <2>7
<1> QED
  BY <1>5, <1>6, DecodeHere, DecodeCalls

\* The logits: the result of the token, and the start of the next one.
LEMMA TokenEnds ==
    ASSUME TaskInv, Books, FlowInv, RestInv, Launch, task \in {"prefill", "decode"},
           ip = Len(Program(task))
    PROVE  /\ out' = Result(V("out", NLayers))
           /\ task' = "decode" => DecodeFlow' /\ DOMAIN regs' = DOMAIN regs
           /\ task' = "idle" => regs' = Fresh /\ kv' = NoKv
           /\ task' \in {"decode", "idle"}
<1> USE DEF Books
<1>1. /\ dstep = "launch" /\ dstep' = "bind" /\ UNCHANGED <<app, req>>
  BY LaunchEffect
<1>2. Finish(Held, Past)
  BY LaunchHost
<1>3. /\ Now = LmHead /\ kv = KvDone(NLayers) /\ tok \in 0..MaxTokens
      /\ At(Own("decode", "lm_head_gemv", 0, 1), V("x", NLayers))
  <2>1. CASE task = "prefill"
    <3>1. ip = 3*NLayers + 1 /\ Now = LmHead /\ PrefillFlow
      <4>1. ip = 3*NLayers + 1
        BY <2>1, PrefillCalls
      <4>2. \A l \in 1..NLayers : ip \notin {3*l - 2, 3*l - 1, 3*l}
        BY <4>1, Thirds
      <4> QED
        BY <2>1, <4>1, <4>2, PrefillHere DEF FlowInv
    <3> QED
      BY <1>1, <3>1, SizesAssumption DEF PrefillFlow, Launching
  <2>2. CASE task = "decode"
    <3>1. ip = 2*NLayers + 1 /\ Now = LmHead /\ DecodeFlow
      <4>1. ip = 2*NLayers + 1
        BY <2>2, DecodeCalls
      <4>2. \A l \in 1..NLayers : ip \notin {2*l - 1, 2*l}
        BY <4>1, Halves
      <4> QED
        BY <2>2, <4>1, <4>2, DecodeHere DEF FlowInv
    <3> QED
      BY <1>1, <3>1, SizesAssumption DEF DecodeFlow, Launching
  <2> QED
    BY <2>1, <2>2
<1> HIDE DEF Now
<1>4. /\ Calls(Now, "lm_head_gemv", 0, 3, "out")
      /\ Passes(Now, 1, "plain", "x", Own("decode", "lm_head_gemv", 0, 1))
      /\ Passes(Now, 3, "inter", "zeros", Own("decode", "lm_head_gemv", 0, 3))
  BY <1>3, CallsLmHead
<1>5. Output = Own("decode", "lm_head_gemv", 0, 3) /\ Output # NoBo
  BY <1>4, RealBos DEF Calls, Passes, Output
<1>6. /\ Now.k = "lm_head_gemv" /\ Now.l = 0 /\ Now.args[Len(Now.args)].dst = "out"
      /\ Layout(Key(Now))[1] = Own("decode", "lm_head_gemv", 0, 1)
  BY <1>4 DEF Calls, Passes
<1>7. mem'[Output] = V("out", NLayers)
  BY <1>3, <1>6, LaunchHead
<1>8. Held = Read /\ Past = kv
  BY <1>6, NoAttention DEF Kind
<1>9. Held["out"].val = V("out", NLayers)
  <2>1. "out" \in Copied
    BY DEF Copied
  <2>2. Read["out"] = Val(mem'[Output])
    BY <1>5, <1>6, <2>1, ReadIs
  <2> QED
    BY <1>7, <1>8, <2>2 DEF Val
<1>10. out' = Result(V("out", NLayers))
  BY <1>2, <1>9 DEF Finish
<1>11. task' = "idle" => regs' = Fresh /\ kv' = NoKv
  BY <1>2 DEF Finish, GoIdle
<1>12. ASSUME task' = "decode" PROVE DecodeFlow' /\ DOMAIN regs' = DOMAIN regs
  <2>1. /\ tok < MaxTokens /\ ip' = 1 /\ tok' = tok + 1
        /\ regs' = [Fresh EXCEPT !["x"] = Val(Embedding(V("out", NLayers)))] /\ kv' = kv
    BY <1>2, <1>8, <1>9, <1>12 DEF Finish, GoIdle
  <2>2. tok' \in 1..MaxTokens
    BY <1>3, <2>1, SizesAssumption
  <2>3. Embedding(V("out", NLayers)) = <<"x", req, tok + 1, 0>>
    BY DEF Embedding, V
  <2>4. regs'["x"] = Val(V("x", 0))' /\ DOMAIN regs' = DOMAIN regs
    <3>1. V("x", 0)' = <<"x", req, tok + 1, 0>>
      BY <1>1, <2>1 DEF V
    <3>2. DOMAIN regs = {"x", "qkv", "attn", "norm", "out"}
      BY DEF RestInv
    <3> QED
      BY <2>1, <2>3, <3>1, <3>2 DEF Fresh, Val
  <2>5. kv' = KvDone(0)'
    <3>1. KvDone(NLayers) = [k \in 1..NLayers |-> Cached(k, IF k <= NLayers THEN tok + 1 ELSE tok)]
      BY DEF KvDone
    <3>2. KvDone(0)' = [k \in 1..NLayers |-> Cached(k, IF k <= 0 THEN tok' + 1 ELSE tok')]
      BY <1>1 DEF KvDone, Cached
    <3>3. \A k \in 1..NLayers : k <= NLayers /\ ~(k <= 0)
      BY SizesAssumption
    <3> QED
      BY <1>3, <2>1, <3>1, <3>2, <3>3
  <2>6. 1 \in 1..NLayers /\ ip' = 2*1 - 1 /\ 1 - 1 = 0 /\ 2*1 - 1 # 2*1
    BY <2>1, SizesAssumption
  <2>7. DecodeAt(1)'
    BY <1>1, <2>4, <2>5, <2>6 DEF DecodeAt, Launching
  <2> QED
    BY <2>2, <2>4, <2>6, <2>7, DecodePlace
<1> QED
  BY <1>2, <1>10, <1>11, <1>12 DEF Finish, GoIdle

\* The first half of the connector, in either vision path.
LEMMA NormLaunch ==
    ASSUME TaskInv, Books, RestInv, Launch, Now = Connector[1], "norm" \in Copied,
           At(Own("vision", "layer_norm", 0, 1), V("x", NLayers)), regs' = Held
    PROVE  regs'["norm"] = Val(V("norm", NLayers))
<1> USE DEF Books
<1> HIDE DEF Now
<1>1. /\ Calls(Now, "layer_norm", 0, 3, "norm")
      /\ Passes(Now, 1, "plain", "x", Own("vision", "layer_norm", 0, 1))
      /\ Passes(Now, 3, "inter", "zeros", Own("vision", "layer_norm", 0, 3))
  BY CallsNorm
<1>2. Output = Own("vision", "layer_norm", 0, 3) /\ Output # NoBo
  BY <1>1, RealBos DEF Calls, Passes, Output
<1>3. /\ Now.k = "layer_norm" /\ Now.l = 0 /\ Now.args[Len(Now.args)].dst = "norm"
      /\ Layout(Key(Now))[1] = Own("vision", "layer_norm", 0, 1)
  BY <1>1 DEF Calls, Passes
<1>4. mem'[Output] = V("norm", NLayers)
  BY <1>3, LaunchHead
<1>5. Held = Read
  BY <1>3, NoAttention DEF Kind
<1> QED
  BY <1>2, <1>3, <1>4, <1>5, ReadIs

LEMMA ChainLaunch ==
    ASSUME TaskInv, Books, FlowInv, RestInv, Launch, task = "chain", ip # Len(Program(task))
    PROVE  ChainFlow'
<1> USE DEF Books
<1>1. /\ ip' = ip + 1 /\ regs' = Held /\ UNCHANGED <<task, tok, req, out>>
      /\ dstep' = "bind" /\ dstep = "launch"
      /\ \A s, l : V(s, l)' = V(s, l)
      /\ \A b, s, l : At(b, V(s, l)) /\ b # Output => At(b, V(s, l))'
  BY LaunchOn DEF Launch
<1>2. ChainFlow /\ tok = 0 /\ Held = Read
  BY NoAttention DEF FlowInv, ChainFlow
<1>3. Copied = {"x", "norm", "out"}
  BY DEF Copied
<1> HIDE DEF Now
<1>4. ASSUME NEW l \in 1..NLayers, ip = 3*l - 2, Now = ChainBlock(l)[1]
      PROVE  ChainFlow'
  <2>1. /\ Calls(Now, "vit_ln_qkv", l, 3, "none")
        /\ IF l = 1 THEN Passes(Now, 1, "plain", "x", Alias(XPool(0)))
                    ELSE Stays(Now, 1, Alias(XPool(l - 1)))
        /\ Stays(Now, 3, Alias("vit_qkv"))
    BY <1>4, CallsLnQkv
  <2>2. l = 1 => l - 1 = 0
    OBVIOUS
  <2>3. Layout(Key(Now))[1] = Alias(XPool(l - 1))
    BY <2>1, <2>2 DEF Passes, Stays
  <2>4. At(Alias(XPool(l - 1)), V("x", l - 1))
    BY <1>1, <1>2, <1>4, <2>2, Thirds DEF ChainFlow, ChainAt, Launching
  <2>5. Output = Alias("vit_qkv") /\ Output # NoBo /\ Alias(XPool(l - 1)) # Output
    BY <2>1, RealBos, PoolNames DEF Calls, Stays, Output
  <2>6. At(Alias("vit_qkv"), V("qkv", l))'
    <3>1. Kind(Now.k) = "qkv" /\ Slot(Now.k) = 2 /\ Now.l = l
      BY <2>1 DEF Calls, Kind, Slot
    <3> QED
      BY <2>3, <2>4, <2>5, <3>1, LaunchQkv, LaunchOn
  <2>7. At(Alias(XPool(l - 1)), V("x", l - 1))'
    BY <1>1, <2>4, <2>5
  <2>8. ip' = 3*l - 1
    BY <1>1, <1>4, Thirds
  <2>9. ChainAt(l)'
    BY <1>1, <2>6, <2>7, <2>8, Thirds DEF ChainAt
  <2> QED
    BY <1>1, <1>2, <2>8, <2>9, ChainPlace
<1>5. ASSUME NEW l \in 1..NLayers, ip = 3*l - 1, Now = ChainBlock(l)[2]
      PROVE  ChainFlow'
  <2>1. /\ Calls(Now, "flash_attn", 0, 2, "none")
        /\ Stays(Now, 1, Alias("vit_qkv")) /\ Stays(Now, 2, Alias("vit_attn"))
    BY <1>5, CallsVitFlash
  <2>2. At(Alias(XPool(l - 1)), V("x", l - 1)) /\ At(Alias("vit_qkv"), V("qkv", l))
    BY <1>2, <1>5, Thirds DEF ChainFlow, ChainAt
  <2>3. Output = Alias("vit_attn") /\ Alias(XPool(l - 1)) # Output
    BY <2>1, PoolNames DEF Calls, Stays, Output
  <2>4. At(Alias("vit_attn"), V("attn", l))'
    <3>1. Now.k = "flash_attn" /\ Layout(Key(Now))[1] = Alias("vit_qkv")
      BY <2>1 DEF Calls, Stays
    <3> QED
      BY <2>2, <2>3, <3>1, LaunchAttn, LaunchOn
  <2>5. At(Alias(XPool(l - 1)), V("x", l - 1))'
    BY <1>1, <2>2, <2>3
  <2>6. ip' = 3*l
    BY <1>1, <1>5, Thirds
  <2>7. ChainAt(l)'
    BY <1>1, <2>4, <2>5, <2>6, Thirds DEF ChainAt
  <2> QED
    BY <1>1, <1>2, <2>6, <2>7, ChainPlace
<1>6. ASSUME NEW l \in 1..NLayers, ip = 3*l, Now = ChainBlock(l)[3]
      PROVE  ChainFlow'
  <2>1. /\ Calls(Now, "vit_o_ffn", l, 4, IF l = NLayers THEN "x" ELSE "none")
        /\ Stays(Now, 1, Alias("vit_attn"))
        /\ Stays(Now, 3, Alias(XPool(l - 1)))
        /\ Stays(Now, 4, Alias(XPool(l)))
    BY <1>6, CallsVitOFfn
  <2>2. At(Alias(XPool(l - 1)), V("x", l - 1)) /\ At(Alias("vit_attn"), V("attn", l))
    BY <1>2, <1>6, Thirds DEF ChainFlow, ChainAt
  <2>3. Output = Alias(XPool(l)) /\ Output # NoBo
    BY <2>1, RealBos DEF Calls, Stays, Output
  <2>4. Output \in DOMAIN mem' /\ mem'[Output] = V("x", l)
    <3>1. Kind(Now.k) = "ffn" /\ Slot(Now.k) = 2 /\ Now.l = l /\ Len(Now.args) = 4
      BY <2>1 DEF Calls, Kind, Slot
    <3>2. /\ Layout(Key(Now))[1] = Alias("vit_attn")
          /\ Layout(Key(Now))[3] = Alias(XPool(l - 1))
      BY <2>1 DEF Stays
    <3> QED
      BY <2>2, <3>1, <3>2, LaunchFfn
  <2>5. At(Alias(XPool(l)), V("x", l))'
    BY <2>3, <2>4, LaunchOn
  <2>6. CASE l = NLayers
    <3>1. ip' = 3*NLayers + 1 /\ ip' # 3*NLayers + 2
      BY <1>1, <1>6, <2>6, SizesAssumption
    <3>2. \A k \in 1..NLayers : ip' \notin {3*k - 2, 3*k - 1, 3*k}
      BY <3>1, Thirds
    <3>3. Now.args[Len(Now.args)].dst = "x"
      BY <2>1, <2>6 DEF Calls
    <3>4. regs'["x"] = Val(V("x", l))
      BY <1>1, <1>2, <1>3, <2>3, <2>4, <3>3, ReadIs
    <3> QED
      BY <1>1, <1>2, <2>6, <3>1, <3>2, <3>4 DEF ChainFlow, ChainAt, ConnectorAt, Launching
  <2>7. CASE l # NLayers
    <3>1. l + 1 \in 1..NLayers /\ ip' = 3*(l + 1) - 2 /\ (l + 1) - 1 = l /\ l + 1 # 1
      BY <1>1, <1>6, <2>7, SizesAssumption
    <3> DEFINE k == l + 1
    <3>2. k \in 1..NLayers /\ ip' = 3*k - 2 /\ k - 1 = l /\ k # 1
      BY <3>1
    <3> HIDE DEF k
    <3>3. ChainAt(k)'
      BY <1>1, <2>5, <3>2, Thirds DEF ChainAt
    <3> QED
      BY <1>1, <1>2, <3>2, <3>3, ChainPlace
  <2> QED
    BY <2>6, <2>7
<1>7. ASSUME ip = 3*NLayers + 1, Now = Connector[1]
      PROVE  ChainFlow'
  <2>1. At(Own("vision", "layer_norm", 0, 1), V("x", NLayers))
    BY <1>1, <1>2, <1>7 DEF ChainFlow, ConnectorAt, Launching
  <2>2. regs'["norm"] = Val(V("norm", NLayers))
    BY <1>1, <1>2, <1>3, <1>7, <2>1, NormLaunch
  <2>3. ip' = 3*NLayers + 2 /\ ip' # 3*NLayers + 1
    BY <1>1, <1>7, SizesAssumption
  <2>4. \A k \in 1..NLayers : ip' \notin {3*k - 2, 3*k - 1, 3*k}
    BY <2>3, Thirds
  <2> QED
    BY <1>1, <1>2, <2>2, <2>3, <2>4 DEF ChainFlow, ChainAt, ConnectorAt, Launching
<1> QED
  BY <1>4, <1>5, <1>6, <1>7, ChainHere, ChainCalls

LEMMA CpuLaunch ==
    ASSUME TaskInv, Books, FlowInv, RestInv, Launch, task = "cpu", ip # Len(Program(task))
    PROVE  CpuFlow'
<1> USE DEF Books
<1>1. /\ ip' = ip + 1 /\ regs' = Held /\ UNCHANGED <<task, tok, req, out>>
      /\ dstep' = "bind" /\ dstep = "launch"
      /\ \A s, l : V(s, l)' = V(s, l)
      /\ \A b, s, l : At(b, V(s, l)) /\ b # Output => At(b, V(s, l))'
  BY LaunchOn DEF Launch
<1>2. CpuFlow /\ tok = 0
  BY DEF FlowInv, CpuFlow
<1>3. Copied = {"norm", "out"}
  BY DEF Copied
<1>4. DOMAIN regs = {"x", "qkv", "attn", "norm", "out"}
  BY DEF RestInv
<1> HIDE DEF Now
<1>5. ASSUME NEW l \in 1..NLayers, ip = 2*l - 1, Now = CpuBlock(l)[1]
      PROVE  CpuFlow'
  <2>1. /\ Calls(Now, "vit_ln_qkv", l, 3, "qkv")
        /\ Passes(Now, 1, "plain", "x", Alias(XPool(l - 1)))
        /\ Passes(Now, 3, "inter", "zeros", Alias("vit_qkv"))
    BY <1>5, CallsCpuQkv
  <2>2. /\ LayerInput(l - 1, Alias(XPool(l - 1)))
        /\ At(Alias(XPool(l - 1)), V("x", l - 1))
    BY <1>1, <1>2, <1>5, Halves DEF CpuFlow, CpuAt, Launching
  <2>3. Output = Alias("vit_qkv") /\ Output # NoBo /\ Alias(XPool(l - 1)) # Output
    BY <2>1, RealBos, PoolNames DEF Calls, Passes, Output
  <2>4. mem'[Output] = V("qkv", l)
    <3>1. Kind(Now.k) = "qkv" /\ Slot(Now.k) = 2 /\ Now.l = l
      BY <2>1 DEF Calls, Kind, Slot
    <3>2. Layout(Key(Now))[1] = Alias(XPool(l - 1))
      BY <2>1 DEF Passes
    <3> QED
      BY <2>2, <3>1, <3>2, LaunchQkv
  <2>5. Read["qkv"] = View(Output) /\ Read["x"] = regs["x"] /\ DOMAIN Read = DOMAIN regs
    <3>1. Now.args[Len(Now.args)].dst = "qkv"
      BY <2>1 DEF Calls
    <3> QED
      BY <1>3, <2>3, <3>1, ReadIs
  <2>6. Get(mem', Read["qkv"]) = V("qkv", l)
    BY <2>3, <2>4, <2>5 DEF Get, View
  <2>7. Held = [Read EXCEPT !["attn"] = Val(V("attn", l))]
    <3>1. Kind(Now.k) = "qkv"
      BY <2>1 DEF Calls, Kind
    <3>2. HostAttention(V("qkv", l), <<>>) = V("attn", l)
      BY Attends
    <3> QED
      BY <2>6, <3>1, <3>2 DEF Held, Attended
  <2>8. regs'["x"] = regs["x"] /\ regs'["attn"] = Val(V("attn", l))
    BY <1>1, <1>4, <2>5, <2>7
  <2>9. LayerInput(l - 1, Alias(XPool(l - 1)))'
    BY <1>1, <2>2, <2>3, <2>8 DEF LayerInput, Shows
  <2>10. ip' = 2*l
    BY <1>1, <1>5, Halves
  <2>11. CpuAt(l)'
    BY <1>1, <2>8, <2>9, <2>10, Halves DEF CpuAt, Launching
  <2> QED
    BY <1>1, <1>2, <2>10, <2>11, CpuPlace
<1>6. ASSUME NEW l \in 1..NLayers, ip = 2*l, Now = CpuBlock(l)[2]
      PROVE  CpuFlow'
  <2>1. /\ Calls(Now, "vit_o_ffn", l, 4, "x")
        /\ Passes(Now, 1, "plain", "attn", Alias("vit_attn"))
        /\ Passes(Now, 3, "plain", "x", Alias(XPool(l - 1)))
        /\ Passes(Now, 4, "inter", "zeros", Alias(XPool(l)))
    BY <1>6, CallsCpuFfn
  <2>2. At(Alias("vit_attn"), V("attn", l)) /\ At(Alias(XPool(l - 1)), V("x", l - 1))
    BY <1>1, <1>2, <1>6, Halves DEF CpuFlow, CpuAt, Launching
  <2>3. Output = Alias(XPool(l)) /\ Output # NoBo
    BY <2>1, RealBos DEF Calls, Passes, Output
  <2>4. At(Alias(XPool(l)), V("x", l))'
    <3>1. Kind(Now.k) = "ffn" /\ Slot(Now.k) = 2 /\ Now.l = l /\ Len(Now.args) = 4
      BY <2>1 DEF Calls, Kind, Slot
    <3>2. /\ Layout(Key(Now))[1] = Alias("vit_attn")
          /\ Layout(Key(Now))[3] = Alias(XPool(l - 1))
      BY <2>1 DEF Passes
    <3> QED
      BY <2>2, <2>3, <3>1, <3>2, LaunchFfn, LaunchOn
  <2>5. regs'["x"] = View(Output)
    <3>1. Now.args[Len(Now.args)].dst = "x" /\ Kind(Now.k) # "qkv"
      BY <2>1 DEF Calls, Kind
    <3>2. Held = Read
      BY <3>1, NoAttention
    <3> QED
      BY <1>1, <1>3, <2>3, <3>1, <3>2, ReadIs
  <2>6. LayerInput(l, Alias(XPool(l)))'
    BY <2>3, <2>4, <2>5 DEF LayerInput, Shows
  <2>7. CASE l = NLayers
    <3>1. ip' = 2*NLayers + 1 /\ ip' # 2*NLayers + 2
      BY <1>1, <1>6, <2>7, SizesAssumption
    <3>2. \A k \in 1..NLayers : ip' \notin {2*k - 1, 2*k}
      BY <3>1, Halves
    <3> QED
      BY <1>1, <1>2, <2>6, <2>7, <3>1, <3>2 DEF CpuFlow, CpuAt, ConnectorAt, Launching
  <2>8. CASE l # NLayers
    <3>1. l + 1 \in 1..NLayers /\ ip' = 2*(l + 1) - 1 /\ (l + 1) - 1 = l
      BY <1>1, <1>6, <2>8, SizesAssumption
    <3> DEFINE k == l + 1
    <3>2. k \in 1..NLayers /\ ip' = 2*k - 1 /\ k - 1 = l
      BY <3>1
    <3> HIDE DEF k
    <3>3. CpuAt(k)'
      BY <1>1, <2>6, <3>2, Halves DEF CpuAt, Launching
    <3> QED
      BY <1>1, <1>2, <3>2, <3>3, CpuPlace
  <2> QED
    BY <2>7, <2>8
<1>7. ASSUME ip = 2*NLayers + 1, Now = Connector[1]
      PROVE  CpuFlow'
  <2>1. At(Own("vision", "layer_norm", 0, 1), V("x", NLayers))
    BY <1>1, <1>2, <1>7 DEF CpuFlow, ConnectorAt, Launching
  <2>2. regs'["norm"] = Val(V("norm", NLayers))
    BY <1>1, <1>3, <1>7, <2>1, NormLaunch
  <2>3. ip' = 2*NLayers + 2 /\ ip' # 2*NLayers + 1
    BY <1>1, <1>7, SizesAssumption
  <2>4. \A k \in 1..NLayers : ip' \notin {2*k - 1, 2*k}
    BY <2>3, Halves
  <2> QED
    BY <1>1, <1>2, <2>2, <2>3, <2>4 DEF CpuFlow, CpuAt, ConnectorAt, Launching
<1> QED
  BY <1>5, <1>6, <1>7, CpuHere, CpuCalls

\* The connector's result: that of the image.
LEMMA ImageEnds ==
    ASSUME TaskInv, Books, FlowInv, RestInv, Launch, task \in {"chain", "cpu"},
           ip = Len(Program(task))
    PROVE  /\ out' = Result(V("out", NLayers)) /\ tok = 0
           /\ task' = "idle" /\ regs' = Fresh /\ kv' = NoKv
<1> USE DEF Books
<1>1. dstep = "launch"
  BY LaunchEffect
<1>2. Finish(Held, Past)
  BY LaunchHost
<1>3. /\ Now = Connector[2] /\ tok = 0
      /\ At(Own("vision", "gemm_connector", 0, 1), V("norm", NLayers))
  <2>1. CASE task = "chain"
    <3>1. ip = 3*NLayers + 2 /\ ip # 3*NLayers + 1
      BY <2>1, ChainCalls, SizesAssumption
    <3>2. \A l \in 1..NLayers : ip \notin {3*l - 2, 3*l - 1, 3*l}
      BY <3>1, Thirds
    <3>3. Now = Connector[2] /\ ChainFlow
      BY <2>1, <3>1, <3>2, ChainHere DEF FlowInv
    <3> QED
      BY <1>1, <3>1, <3>3 DEF ChainFlow, ConnectorAt, Launching
  <2>2. CASE task = "cpu"
    <3>1. ip = 2*NLayers + 2 /\ ip # 2*NLayers + 1
      BY <2>2, CpuCalls, SizesAssumption
    <3>2. \A l \in 1..NLayers : ip \notin {2*l - 1, 2*l}
      BY <3>1, Halves
    <3>3. Now = Connector[2] /\ CpuFlow
      BY <2>2, <3>1, <3>2, CpuHere DEF FlowInv
    <3> QED
      BY <1>1, <3>1, <3>3 DEF CpuFlow, ConnectorAt, Launching
  <2> QED
    BY <2>1, <2>2
<1> HIDE DEF Now
<1>4. /\ Calls(Now, "gemm_connector", 0, 3, "out")
      /\ Passes(Now, 1, "plain", "norm", Own("vision", "gemm_connector", 0, 1))
      /\ Passes(Now, 3, "inter", "zeros", Own("vision", "gemm_connector", 0, 3))
  BY <1>3, CallsConnector
<1>5. Output = Own("vision", "gemm_connector", 0, 3) /\ Output # NoBo
  BY <1>4, RealBos DEF Calls, Passes, Output
<1>6. /\ Now.k = "gemm_connector" /\ Now.l = 0 /\ Now.args[Len(Now.args)].dst = "out"
      /\ Layout(Key(Now))[1] = Own("vision", "gemm_connector", 0, 1)
  BY <1>4 DEF Calls, Passes
<1>7. mem'[Output] = V("out", NLayers)
  BY <1>3, <1>6, LaunchHead
<1>8. Held = Read
  BY <1>6, NoAttention DEF Kind
<1>9. Held["out"].val = V("out", NLayers)
  <2>1. "out" \in Copied
    BY DEF Copied
  <2>2. Read["out"] = Val(mem'[Output])
    BY <1>5, <1>6, <2>1, ReadIs
  <2> QED
    BY <1>7, <1>8, <2>2 DEF Val
<1> QED
  BY <1>2, <1>3, <1>9 DEF Finish, GoIdle

-----------------------------------------------------------------------------
(* The results.                                                            *)

\* The program is between two calls, in the same process, with what it bound.
LEMMA BooksMove ==
    ASSUME Books, dstep' = "bind", UNCHANGED <<app, bos, mem, dropped>>,
           dstep = "first" => Slot(Now.k) = 0, ReadyInv'
    PROVE  Books'
<1> USE DEF Books
<1>1. BindInv'
  BY DEF BindInv, IsKey
<1>2. DropInv'
  BY DEF DropInv
<1>3. WeightInv'
  <2>1. \A q \in DOMAIN bos : Slot(q[2]) # 0 => mem[Layout(q)[Slot(q[2])]] = WeightOf(q[2], q[3])
    <3>1. ASSUME NEW q \in DOMAIN bos, Slot(q[2]) # 0 PROVE ~(dstep = "first" /\ q = Key(Now))
      BY <3>1 DEF Key
    <3> QED
      BY <3>1 DEF WeightInv
  <2> QED
    BY <2>1 DEF WeightInv
<1> QED
  BY <1>1, <1>2, <1>3

\* The result is exactly that of its request and token.
Exact == out # NoResult => out.val = <<"out", out.req, out.tok, NLayers>>

LEMMA ExactResult == ASSUME out' = Result(V("out", NLayers)) PROVE Exact'
<1>1. Result(V("out", NLayers)) = [by |-> task, req |-> req, tok |-> tok,
                                   val |-> <<"out", req, tok, NLayers>>]
  BY DEF Result, V
<1> QED
  BY <1>1 DEF Exact

DataInv == Books /\ FlowInv /\ RestInv /\ Exact

LEMMA DataInit == Init => DataInv
<1> SUFFICES ASSUME Init PROVE DataInv
  OBVIOUS
<1>1. /\ task = "down" /\ dstep = "bind" /\ req = 0 /\ tok = 0 /\ regs = Fresh /\ kv = NoKv
      /\ dropped = {} /\ bos = << >> /\ out = NoResult /\ ~warmed
  BY DEF Init, SessionInit
<1>2. DOMAIN bos = {}
  BY <1>1
<1>3. Books
  BY <1>1, <1>2 DEF Books, BindInv, ReadyInv, DropInv, WeightInv
<1> QED
  BY <1>1, <1>3 DEF DataInv, FlowInv, RestInv, Exact, Fresh

LEMMA DieData == ASSUME Die PROVE DataInv'
<1>1. /\ task' = "down" /\ dstep' = "bind" /\ req' = 0 /\ tok' = 0 /\ regs' = Fresh /\ kv' = NoKv
      /\ dropped' = {} /\ bos' = << >> /\ out' = NoResult /\ ~warmed'
  BY DEF Die, SessionEnds
<1>2. DOMAIN bos' = {}
  BY <1>1
<1>3. Books'
  BY <1>1, <1>2 DEF Books, BindInv, ReadyInv, DropInv, WeightInv
<1> QED
  BY <1>1, <1>3 DEF DataInv, FlowInv, RestInv, Exact, Fresh, NoKv, Undef, Special

LEMMA SameData == ASSUME DataInv, UNCHANGED sessionVars PROVE DataInv'
<1>1. UNCHANGED <<app, task, ip, dstep, req, tok, warmed, regs, kv, dropped, bos, mem, out>>
  BY DEF sessionVars
<1>2. Books'
  BY <1>1, SameBooks DEF DataInv
<1>3. FlowInv'
  BY <1>1, FlowKept DEF DataInv
<1> QED
  BY <1>1, <1>2, <1>3 DEF DataInv, RestInv, Exact

LEMMA BindData == ASSUME TaskInv, DataInv, Bind PROVE DataInv'
<1>1. /\ UNCHANGED <<app, task, ip, req, tok, regs, kv, dropped, out>>
      /\ \A b \in DOMAIN mem : b \in DOMAIN mem' /\ mem'[b] = mem[b]
      /\ dstep' # "launch"
  BY BindEffect DEF DataInv, Books
<1>2. Books'
  BY BindBooks DEF DataInv
<1>3. FlowInv'
  BY <1>1, FlowKept DEF DataInv
<1> QED
  BY <1>1, <1>2, <1>3 DEF DataInv, RestInv, Exact

LEMMA WriteData == ASSUME TaskInv, DataInv, WriteInputs PROVE DataInv'
<1>1. UNCHANGED <<app, task, ip, req, tok, regs, kv, dropped, out>>
  BY DEF WriteInputs
<1>2. Books'
  BY WriteBooks DEF DataInv
<1>3. FlowInv'
  BY <1>1, PrefillWrite, DecodeWrite, ChainWrite, CpuWrite DEF DataInv, FlowInv
<1> QED
  BY <1>1, <1>2, <1>3 DEF DataInv, RestInv, Exact

LEMMA LaunchData == ASSUME TaskInv, DataInv, Launch PROVE DataInv'
<1> USE DEF DataInv
<1>1. task \in Tasks /\ dstep = "launch" /\ UNCHANGED <<app, req>>
  BY LaunchEffect DEF Books
<1>2. Books'
  BY LaunchBooks
<1>3. req \in Nat /\ tok \in Nat /\ DOMAIN regs = {"x", "qkv", "attn", "norm", "out"}
  BY DEF RestInv
<1>4. CASE ip # Len(Program(task))
  <2>1. regs' = Held /\ UNCHANGED <<task, tok, out>>
    BY <1>4, LaunchHost
  <2>2. FlowInv'
    BY <1>4, <2>1, PrefillLaunch, DecodeLaunch, ChainLaunch, CpuLaunch DEF FlowInv
  <2>3. DOMAIN regs' = DOMAIN regs
    BY <2>1 DEF Held, Attended, Read, ReadBack
  <2>4. RestInv' /\ Exact'
    BY <1>1, <1>3, <2>1, <2>3 DEF RestInv, Exact, Tasks
  <2> QED
    BY <1>2, <2>2, <2>4
<1>5. CASE ip = Len(Program(task)) /\ task = "prepare"
  <2>1. task' = "idle" /\ regs' = Fresh /\ kv' = NoKv /\ UNCHANGED <<tok, out>>
    BY <1>5, LaunchHost DEF Finish, GoIdle
  <2> QED
    BY <1>1, <1>2, <1>3, <2>1 DEF FlowInv, RestInv, Exact, Fresh
<1>6. CASE ip = Len(Program(task)) /\ task \in {"chain", "cpu"}
  <2>1. /\ out' = Result(V("out", NLayers)) /\ tok = 0
        /\ task' = "idle" /\ regs' = Fresh /\ kv' = NoKv
    BY <1>6, ImageEnds
  <2>2. UNCHANGED tok
    BY <1>6, LaunchMoves
  <2>3. Exact'
    BY <2>1, ExactResult
  <2> QED
    BY <1>1, <1>2, <1>3, <2>1, <2>2, <2>3 DEF FlowInv, RestInv, Fresh
<1>7. CASE ip = Len(Program(task)) /\ task \in {"prefill", "decode"}
  <2>1. /\ out' = Result(V("out", NLayers))
        /\ task' = "decode" => DecodeFlow' /\ DOMAIN regs' = DOMAIN regs
        /\ task' = "idle" => regs' = Fresh /\ kv' = NoKv
        /\ task' \in {"decode", "idle"}
    BY <1>7, TokenEnds
  <2>2. Exact'
    BY <2>1, ExactResult
  <2>3. tok' \in Nat
    BY <1>3, <1>7, LaunchMoves
  <2> QED
    BY <1>1, <1>2, <1>3, <2>1, <2>2, <2>3 DEF FlowInv, RestInv, Fresh
<1> QED
  BY <1>1, <1>4, <1>5, <1>6, <1>7 DEF Tasks

\* Before the first call.
LEMMA FirstCall ==
    ASSUME 1 \in 1..NLayers
    PROVE  /\ 1 = 3*1 - 2 /\ 1 # 3*1 - 1 /\ 1 # 3*1 /\ 1 = 2*1 - 1 /\ 1 # 2*1 /\ 1 - 1 = 0
  OBVIOUS

LEMMA BeginData == ASSUME TaskInv, DataInv, BeginWork PROVE DataInv'
<1> USE DEF DataInv
<1>1. /\ task = "down" /\ ip = 1 /\ dstep = "bind" /\ ~(app = "llama" /\ task' = "idle")
      /\ task' = IF app = "llama" THEN "prepare" ELSE "idle"
      /\ UNCHANGED <<app, ip, dstep, req, tok, warmed, regs, kv, dropped, bos, mem, out>>
  BY DEF BeginWork, TaskInv, Tasks
<1>2. ReadyInv'
  <2>1. 1..(ip' - 1) = {}
    BY <1>1
  <2> QED
    BY <1>1, <2>1 DEF Books, ReadyInv, Bound
<1>3. Books'
  BY <1>1, <1>2, BooksMove
<1> QED
  BY <1>1, <1>3 DEF FlowInv, RestInv, Exact

\* A prompt, an image, or the throwaway image of warmup.
LEMMA RequestData ==
    ASSUME TaskInv, DataInv, NEW t \in {"prefill", "chain", "cpu"},
           Request(t) \/ (Warmup /\ t = "chain"), t = "cpu" => warmed
    PROVE  DataInv'
<1> USE DEF DataInv
<1>1. /\ task = "idle" /\ ip = 1 /\ dstep = "bind" /\ kv = NoKv /\ req' \in Nat
      /\ t \in (IF app = "llama" THEN {"prefill"} ELSE {"chain", "cpu"})
      /\ task' = t /\ tok' = 0 /\ out' = NoResult
      /\ regs' = [Fresh EXCEPT !["x"] = Val(<<"x", req', 0, 0>>)]
      /\ UNCHANGED <<app, ip, dstep, warmed, kv, dropped, bos, mem>>
  BY DEF Request, Warmup, TaskInv, RestInv, Tasks
<1>2. regs'["x"] = Val(V("x", 0))' /\ DOMAIN regs' = {"x", "qkv", "attn", "norm", "out"}
  BY <1>1 DEF Fresh, V
<1>3. ReadyInv'
  <2>1. 1..(ip' - 1) = {}
    BY <1>1
  <2> QED
    BY <1>1, <2>1 DEF Books, ReadyInv, Bound
<1>4. Books'
  BY <1>1, <1>3, BooksMove
<1>5. 1 \in 1..NLayers
  BY SizesAssumption
<1>6. kv' = KvDone(0)'
  <2>1. \A k : Cached(k, 0)' = << >>
    BY DEF Cached
  <2>2. \A k \in 1..NLayers : ~(k <= 0)
    BY SizesAssumption
  <2> QED
    BY <1>1, <2>1, <2>2 DEF KvDone, NoKv
<1>7. \A b : LayerInput(0, b)'
  BY <1>2 DEF LayerInput
<1>8. t = "prefill" => PrefillFlow'
  <2>1. PrefillAt(1)'
    BY <1>1, <1>5, <1>6, <1>7, FirstCall DEF PrefillAt, Launching
  <2> QED
    BY <1>1, <1>5, <2>1, FirstCall, PrefillPlace
<1>9. t = "chain" => ChainFlow'
  <2>1. ChainAt(1)'
    BY <1>1, <1>2, <1>5, FirstCall DEF ChainAt, Launching
  <2> QED
    BY <1>1, <1>5, <2>1, FirstCall, ChainPlace
<1>10. t = "cpu" => CpuFlow'
  <2>1. CpuAt(1)'
    BY <1>1, <1>5, <1>7, FirstCall DEF CpuAt, Launching
  <2> QED
    BY <1>1, <1>5, <2>1, FirstCall, CpuPlace
<1> QED
  BY <1>1, <1>2, <1>4, <1>8, <1>9, <1>10 DEF FlowInv, RestInv, Exact

\* Ctrl-C finds no key with weights in its first call.
LEMMA InterruptData == ASSUME TaskInv, DataInv, CtrlC PROVE DataInv'
<1> USE DEF DataInv
<1>1. /\ task \in {"prefill", "decode"} /\ task' = "idle" /\ regs' = Fresh /\ kv' = NoKv
      /\ dstep' = "bind" /\ UNCHANGED <<app, req, tok, warmed, dropped, bos, mem, out>>
  BY DEF CtrlC, GoIdle
<1>2. dstep = "first" => Slot(Now.k) = 0
  BY <1>1 DEF Books, WeightInv
<1>3. ReadyInv'
  BY <1>1 DEF Books, ReadyInv, Bound
<1>4. Books'
  BY <1>1, <1>2, <1>3, BooksMove
<1> QED
  BY <1>1, <1>4 DEF FlowInv, RestInv, Exact, Fresh

\* The data of a process in which no image took the host-attention path
\* before the chain had bound its keys; a Llama process has no such image.
Settles == DataInv \/ (hostFirst /\ app # "llama")

\* In such a process the history variable stays until the process ends.
LEMMA HostFirst ==
    ASSUME [Next]_vars, ~Die
    PROVE  app' = app /\ (hostFirst => hostFirst')
<1>1. CASE Work
  <2>1. ~DispatchFails /\ ~LoadDies
    BY DEF DispatchFails, LoadDies
  <2>2. CASE OpenCaches \/ OpenFails \/ Dispatch \/ MakeRoom \/ Evict \/ LoadKernel
             \/ ListKernel \/ OtherReturns
    BY <2>2 DEF OpenCaches, OpenFails, Dispatch, MakeRoom, Evict, LoadKernel, ListKernel,
       OtherReturns, sessionVars
  <2>3. CASE BeginWork \/ CloseContext \/ Bind \/ WriteInputs \/ Launch
    BY <2>3 DEF BeginWork, CloseContext, Bind, WriteInputs, Launch
  <2> QED
    BY <1>1, <2>1, <2>2, <2>3 DEF Work
<1>2. CASE StartApp \/ DisturbStore \/ UseOther \/ CollectOther \/ UNCHANGED vars
  BY <1>2 DEF StartApp, DisturbStore, UseOther, CollectOther, sessionVars, vars
<1>3. CASE CtrlC \/ Warmup
  BY <1>3 DEF CtrlC, Warmup
<1>4. CASE \E t \in {"prefill", "chain", "cpu"} : Request(t)
  <2>1. PICK t \in {"prefill", "chain", "cpu"} : Request(t)
    BY <1>4
  <2>2. app' = app
    BY <2>1 DEF Request
  <2>3. hostFirst' = (hostFirst \/ (t = "cpu" /\ ~warmed))
    BY <2>1, Zenon DEF Request
  <2>4. hostFirst => hostFirst'
    BY <2>3, Zenon
  <2> QED
    BY <2>2, <2>4
<1> QED
  BY <1>1, <1>2, <1>3, <1>4 DEF Next

LEMMA DataStep == ASSUME TaskInv, Settles, [Next]_vars PROVE Settles'
<1>1. CASE Die
  BY <1>1, DieData DEF Settles
<1>2. CASE ~Die /\ hostFirst /\ app # "llama"
  BY <1>2, HostFirst DEF Settles
<1>3. CASE ~Die /\ DataInv
  <2> SUFFICES DataInv' \/ (hostFirst' /\ app' # "llama")
    BY DEF Settles
  <2> USE <1>3
  <2>1. ASSUME UNCHANGED sessionVars PROVE DataInv'
    BY <2>1, SameData
  <2>2. CASE UNCHANGED vars
    BY <2>1, <2>2 DEF vars
  <2>3. CASE OpenCaches \/ OpenFails \/ Dispatch \/ MakeRoom \/ Evict \/ OtherReturns
    BY <2>1, <2>3 DEF OpenCaches, OpenFails, Dispatch, MakeRoom, Evict, OtherReturns
  <2>4. CASE StartApp \/ DisturbStore \/ UseOther \/ CollectOther \/ LoadKernel \/ ListKernel
    BY <2>1, <2>4 DEF StartApp, DisturbStore, UseOther, CollectOther, LoadKernel, ListKernel
  <2>5. CASE CloseContext
    <3>1. UNCHANGED sessionVars
      BY <2>5 DEF CloseContext, AfterUnload, sessionVars
    <3> QED
      BY <2>1, <3>1
  <2>6. ~(DispatchFails \/ LoadDies)
    BY DEF DispatchFails, LoadDies
  <2>7. CASE Bind
    BY <2>7, BindData
  <2>8. CASE WriteInputs
    BY <2>8, WriteData
  <2>9. CASE Launch
    BY <2>9, LaunchData
  <2>10. CASE BeginWork
    BY <2>10, BeginData
  <2>11. CASE Warmup
    BY <2>11, RequestData
  <2>12. ASSUME NEW t \in {"prefill", "chain", "cpu"}, Request(t)
         PROVE  DataInv' \/ (hostFirst' /\ app' # "llama")
    <3>1. CASE t = "cpu" => warmed
      BY <2>12, <3>1, RequestData
    <3>2. CASE t = "cpu" /\ ~warmed
      BY <2>12, <3>2 DEF Request
    <3> QED
      BY <3>1, <3>2
  <2>13. CASE CtrlC
    BY <2>13, InterruptData
  <2> QED
    BY <2>2, <2>3, <2>4, <2>5, <2>6, <2>7, <2>8, <2>9, <2>10, <2>11, <2>12, <2>13
       DEF Next, Work
<1> QED
  BY <1>1, <1>2, <1>3 DEF Settles

\* Settles holds throughout a session.
LEMMA SessionSettles == Spec => []Settles
<1>1. Init => TaskInv /\ Settles
  BY TaskInit, DataInit DEF Settles
<1>2. TaskInv /\ Settles /\ [Next]_vars => TaskInv' /\ Settles'
  BY TaskStep, DataStep
<1> QED
  BY <1>1, <1>2, PTL DEF Spec

\* Every result of a Llama session, and of a vision process whose keys were
\* first bound by a chained image (warmup or encode), is that of its own
\* request and token, computed by every layer with its own weights
\* (load_and_run under prepare_runtime, run_npu_prefill, run_decode_block and
\* run_vit_encoder), for any number of layers, tokens, requests and cached
\* contexts.
THEOREM SessionResultsCorrect ==
    Spec => [](app = "llama" \/ ~hostFirst => ResultCorrect /\ EncodesRight)
<1>1. Settles => (app = "llama" \/ ~hostFirst => ResultCorrect /\ EncodesRight)
  BY DEF Settles, DataInv, Exact, ResultCorrect, EncodesRight, NoResult
<1> QED
  BY <1>1, SessionSettles, PTL

\* In the same processes a key of _cached_bos that is bound holds the weights
\* of its own kernel and layer, except while its first call writes them: no
\* later call, no request that shares its buffers, no interrupt and no freed
\* host copy changes them.
THEOREM SessionWeightsKept == Spec => [](app = "llama" \/ ~hostFirst => WeightInv)
<1>1. Settles => (app = "llama" \/ ~hostFirst => WeightInv)
  BY DEF Settles, DataInv, Books
<1> QED
  BY <1>1, SessionSettles, PTL
=============================================================================
