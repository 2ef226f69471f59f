------------------------ MODULE AirKernelStoreProofs ------------------------
(***************************************************************************)
(* Proof that the manifest keeps stale binaries out, for any directories,  *)
(* kernels, programs and crashes, as long as no earlier toolchain comes    *)
(* back into use.  The inductive invariant is StoreInv: a binary lies      *)
(* between the manifest that lists it and the toolchain in use.            *)
(***************************************************************************)
EXTENDS AirKernelStore, TLAPS

\* The directory and the kernels the process is at.
LEMMA DirType ==
    ASSUME StoreTypeOK, proc = "boot"
    PROVE  /\ dir \in Dirs /\ list \in Seq(Kernels) /\ Len(list) \in Nat
           /\ \A i \in 1..Len(list) : list[i] \in Kernels
<1>1. /\ plan.dirs \in Seq(Dirs) /\ plan.kernels \in [Dirs -> Seq(Kernels)]
      /\ at \in 1..Len(plan.dirs)
  BY StoreAssumption DEF StoreTypeOK
<1>2. dir \in Dirs
  BY <1>1 DEF dir
<1>3. list \in Seq(Kernels)
  BY <1>1, <1>2 DEF list
<1> QED
  BY <1>2, <1>3

\* The next directory, or the end of the start.
LEMMA NextDirType ==
    ASSUME StoreTypeOK, proc = "boot", NextDir, plan' = plan
    PROVE  /\ proc' \in {"boot", "up", "down"} /\ step' = "open" /\ next' = 1
           /\ at' \in Nat \ {0} /\ (proc' = "boot" => at' <= Len(plan'.dirs))
<1>1. plan.dirs \in Seq(Dirs) /\ Len(plan.dirs) \in Nat
  BY StoreAssumption DEF StoreTypeOK
<1> QED
  BY <1>1 DEF StoreTypeOK, NextDir

\* Nothing of the next directory is compiled yet.
LEMMA OpenedCompiled ==
    ASSUME StoreTypeOK, proc = "boot", NextDir, plan' = plan, StoreTypeOK'
    PROVE  Compiled'
<1>1. step' = "open" /\ next' = 1
  BY NextDirType
<1>2. ASSUME proc' = "boot" PROVE Len(list') \in Nat
  <2>1. /\ plan'.dirs \in Seq(Dirs) /\ plan'.kernels \in [Dirs -> Seq(Kernels)]
        /\ at' \in 1..Len(plan'.dirs)
    BY <1>2, StoreAssumption DEF StoreTypeOK
  <2>2. dir' \in Dirs
    BY <2>1 DEF dir
  <2> QED
    BY <2>1, <2>2 DEF list
<1> QED
  BY <1>1, <1>2 DEF Compiled

\* What load_manifest restores was compiled by the toolchain in use.
LEMMA ResolvedFresh ==
    ASSUME StoreTypeOK, Stamped, NEW d \in Dirs, Matches(manifest[d]), NEW k \in Resolved(d)
    PROVE  k \in Kernels /\ bin[d][k] \in {Torn, tool}
<1>1. PICK i \in 1..Len(manifest[d].names) :
          /\ k = manifest[d].names[i]
          /\ \A j \in 1..i : bin[d][manifest[d].names[j]] # NoBinary
  BY DEF Resolved
<1>2. /\ k \in Kernels /\ tool \in 1..MaxTool /\ MaxTool \in Nat
      /\ bin[d][k] \in {Torn, NoBinary} \union 1..MaxTool
  BY StoreAssumption DEF StoreTypeOK, Resolved
<1>3. i \in 1..i
  OBVIOUS
<1>4. bin[d][k] # NoBinary
  BY <1>1, <1>3
<1>5. bin[d][k] > 0 => bin[d][k] >= tool
  BY <1>1 DEF Stamped, Matches
<1>6. bin[d][k] <= tool
  BY <1>2 DEF Stamped
<1> QED
  BY <1>2, <1>4, <1>5, <1>6 DEF NoBinary, Torn

\* Overwriting a binary, or tearing it, keeps it between the manifest and the
\* toolchain.
LEMMA StampedKept ==
    ASSUME StoreTypeOK, Stamped, tool' = tool, manifest' = manifest,
           \A d \in Dirs : \A k \in Kernels : bin'[d][k] \in {Torn, tool, NoBinary, bin[d][k]}
    PROVE  Stamped'
<1> SUFFICES ASSUME NEW d \in Dirs
             PROVE  /\ manifest[d].state = "ok" =>
                          /\ manifest[d].tool <= tool
                          /\ \A i \in 1..Len(manifest[d].names) :
                                bin'[d][manifest[d].names[i]] > 0 =>
                                    bin'[d][manifest[d].names[i]] >= manifest[d].tool
                    /\ \A k \in Kernels : bin'[d][k] <= tool
  BY DEF Stamped
<1>1. tool \in 1..MaxTool /\ MaxTool \in Nat
  BY StoreAssumption DEF StoreTypeOK
<1>2. /\ manifest[d].names \in Seq(Kernels) /\ manifest[d].tool \in Int
      /\ \A i \in 1..Len(manifest[d].names) : manifest[d].names[i] \in Kernels
  BY DEF StoreTypeOK, Manifests
<1>3. \A k \in Kernels : bin'[d][k] <= tool
  BY <1>1 DEF Stamped, Torn, NoBinary
<1>4. ASSUME manifest[d].state = "ok", NEW i \in 1..Len(manifest[d].names),
             bin'[d][manifest[d].names[i]] > 0
      PROVE  bin'[d][manifest[d].names[i]] >= manifest[d].tool
  <2> DEFINE k == manifest[d].names[i]
  <2>1. k \in Kernels
    BY <1>2
  <2>2. bin'[d][k] \in {tool, bin[d][k]}
    BY <1>4, <2>1 DEF Torn, NoBinary
  <2>3. manifest[d].tool <= tool /\ (bin[d][k] > 0 => bin[d][k] >= manifest[d].tool)
    BY <1>4 DEF Stamped
  <2> QED
    BY <1>4, <2>2, <2>3
<1>5. manifest[d].state = "ok" => manifest[d].tool <= tool
  BY DEF Stamped
<1> QED
  BY <1>3, <1>4, <1>5

LEMMA StoreInitInv == StoreInit => StoreInv
<1> SUFFICES ASSUME StoreInit PROVE StoreInv
  OBVIOUS
<1> USE DEF StoreInit
<1>1. StoreTypeOK
  <2>1. /\ tool \in 1..MaxTool /\ plan \in Plans
        /\ at \in Nat \ {0} /\ next \in Nat \ {0}
    BY StoreAssumption
  <2>2. bin \in [Dirs -> [Kernels -> {Torn, NoBinary} \union 1..MaxTool]]
    OBVIOUS
  <2>3. [state |-> "none", tool |-> 0, names |-> <<>>] \in Manifests
    BY DEF Manifests
  <2>4. manifest \in [Dirs -> Manifests]
    BY <2>3
  <2>5. artifacts \in [Dirs -> SUBSET Kernels]
    OBVIOUS
  <2>6. proc = "down" /\ step = "open"
    OBVIOUS
  <2> QED
    BY <2>1, <2>2, <2>4, <2>5, <2>6 DEF StoreTypeOK
<1>2. Stamped
  <2>1. \A d \in Dirs : manifest[d].state # "ok"
    OBVIOUS
  <2>2. \A d \in Dirs : \A k \in Kernels : bin[d][k] <= tool
    BY DEF NoBinary
  <2> QED
    BY <2>1, <2>2 DEF Stamped
<1>3. Current /\ Compiled
  BY DEF Current, Compiled
<1> QED
  BY <1>1, <1>2, <1>3 DEF StoreInv

LEMMA StartInv == ASSUME StoreInv, Start PROVE StoreInv'
<1> USE DEF StoreInv, Start
<1>1. StoreTypeOK'
  <2>1. plan' \in Plans /\ plan'.dirs \in Seq(Dirs) /\ Len(plan'.dirs) > 0
    BY StoreAssumption
  <2>2. 1 <= Len(plan'.dirs)
    BY <2>1
  <2>3. artifacts' \in [Dirs -> SUBSET Kernels]
    OBVIOUS
  <2> QED
    BY <2>1, <2>2, <2>3 DEF StoreTypeOK
<1>2. Stamped'
  BY DEF Stamped
<1>3. Current'
  BY DEF Current
<1>4. Compiled'
  <2>1. Len(list') \in Nat
    <3>1. plan'.dirs \in Seq(Dirs) /\ Len(plan'.dirs) > 0 /\ plan'.kernels \in [Dirs -> Seq(Kernels)]
      BY StoreAssumption
    <3>2. dir' \in Dirs
      BY <3>1 DEF dir
    <3> QED
      BY <3>1, <3>2 DEF list
  <2> QED
    BY <2>1 DEF Compiled
<1> QED
  BY <1>1, <1>2, <1>3, <1>4

\* A directory opened from its manifest.
LEMMA OpenInv == ASSUME StoreInv, OpenRunOnly \/ OpenReuse PROVE StoreInv'
<1> USE DEF StoreInv
<1>1. /\ proc = "boot" /\ NextDir /\ UNCHANGED <<tool, bin, manifest, plan>>
      /\ dir \in Dirs
  BY DirType DEF OpenRunOnly, OpenReuse
<1>2. PICK new \in SUBSET Kernels :
         /\ artifacts' = [artifacts EXCEPT ![dir] = new]
         /\ \A k \in new : bin[dir][k] \in {Torn, tool}
  <2>1. CASE OpenReuse
    <3>1. Matches(manifest[dir]) /\ artifacts' = [artifacts EXCEPT ![dir] = Resolved(dir)]
      BY <2>1 DEF OpenReuse, Reusable
    <3> QED
      BY <1>1, <3>1, ResolvedFresh
  <2>2. CASE OpenRunOnly /\ Matches(manifest[dir])
    <3>1. artifacts' = [artifacts EXCEPT ![dir] = Resolved(dir)]
      BY <2>2 DEF OpenRunOnly
    <3> QED
      BY <1>1, <2>2, <3>1, ResolvedFresh
  <2>3. CASE OpenRunOnly /\ ~Matches(manifest[dir])
    <3>1. artifacts' = [artifacts EXCEPT ![dir] = {}]
      BY <2>3 DEF OpenRunOnly
    <3>2. {} \in SUBSET Kernels /\ \A k \in {} : bin[dir][k] \in {Torn, tool}
      OBVIOUS
    <3> QED
      BY <3>1, <3>2
  <2> QED
    BY <2>1, <2>2, <2>3
<1>3. StoreTypeOK'
  <2>1. artifacts' \in [Dirs -> SUBSET Kernels]
    BY <1>1, <1>2 DEF StoreTypeOK
  <2>2. next' \in Nat \ {0}
    BY <1>1, NextDirType
  <2> QED
    BY <1>1, <2>1, <2>2, NextDirType DEF StoreTypeOK
<1>4. Stamped'
  BY <1>1 DEF Stamped
<1>5. Current'
  BY <1>1, <1>2 DEF Current, StoreTypeOK
<1>6. Compiled'
  BY <1>1, <1>3, OpenedCompiled
<1> QED
  BY <1>3, <1>4, <1>5, <1>6

LEMMA OpenCompileInv == ASSUME StoreInv, OpenCompile PROVE StoreInv'
<1> USE DEF StoreInv
<1>1. /\ proc = "boot" /\ dir \in Dirs /\ Len(list) \in Nat /\ step' = "compile"
      /\ artifacts' = [artifacts EXCEPT ![dir] = {}]
      /\ UNCHANGED <<tool, bin, manifest, proc, plan, at, next>>
  BY DirType DEF OpenCompile
<1>2. step = "open"
  BY DEF OpenCompile
<1>3. StoreTypeOK'
  BY <1>1 DEF StoreTypeOK
<1>4. Stamped'
  BY <1>1 DEF Stamped
<1>5. Current'
  BY <1>1 DEF Current, StoreTypeOK
<1>6. Compiled'
  BY <1>1, <1>2 DEF Compiled, dir, list
<1> QED
  BY <1>3, <1>4, <1>5, <1>6

\* Steps at which the process ends, or the disk changes while it is down.
LEMMA DownInv ==
    ASSUME StoreInv, OpenRaises \/ Crash PROVE StoreInv'
<1> USE DEF StoreInv
<1>1. proc' = "down" /\ UNCHANGED <<tool, bin, manifest, artifacts, plan, at, next, step>>
  BY DEF OpenRaises, Crash
<1>2. StoreTypeOK'
  BY <1>1 DEF StoreTypeOK
<1>3. Stamped'
  BY <1>1 DEF Stamped
<1>4. Current' /\ Compiled'
  BY <1>1 DEF Current, Compiled
<1> QED
  BY <1>2, <1>3, <1>4

\* A binary is being overwritten.
LEMMA CopyBeginInv == ASSUME StoreInv, CopyBegin PROVE StoreInv'
<1> USE DEF StoreInv
<1>1. /\ proc = "boot" /\ dir \in Dirs /\ Len(list) \in Nat
      /\ \A i \in 1..Len(list) : list[i] \in Kernels
      /\ step' = "copy" /\ next <= Len(list) /\ next \in Nat \ {0}
      /\ bin' = [bin EXCEPT ![dir][list[next]] = Torn]
      /\ UNCHANGED <<tool, manifest, artifacts, proc, plan, at, next>>
  BY DirType DEF CopyBegin, StoreTypeOK
<1>2. list[next] \in Kernels
  BY <1>1
<1>3. bin' \in [Dirs -> [Kernels -> {Torn, NoBinary} \union 1..MaxTool]]
  BY <1>1, <1>2 DEF StoreTypeOK
<1>4. StoreTypeOK'
  BY <1>1, <1>3 DEF StoreTypeOK
<1>5. \A d \in Dirs : \A k \in Kernels : bin'[d][k] \in {Torn, bin[d][k]}
  BY <1>1, <1>2 DEF StoreTypeOK
<1>6. Stamped'
  BY <1>1, <1>5, StampedKept
<1>7. Current'
  BY <1>1, <1>5 DEF Current, StoreTypeOK
<1>8. Compiled'
  <2>1. dir' = dir /\ list' = list
    BY <1>1 DEF dir, list
  <2>2. \A i \in 1..(next - 1) : list[i] \in Kernels
    BY <1>1
  <2> QED
    BY <1>1, <1>5, <2>1, <2>2 DEF Compiled
<1> QED
  BY <1>4, <1>6, <1>7, <1>8

\* The binary of the toolchain in use is complete.
LEMMA CopyEndInv == ASSUME StoreInv, CopyEnd PROVE StoreInv'
<1> USE DEF StoreInv
<1>1. /\ proc = "boot" /\ dir \in Dirs /\ Len(list) \in Nat
      /\ \A i \in 1..Len(list) : list[i] \in Kernels
      /\ step' = "compile" /\ next <= Len(list) /\ next \in Nat \ {0} /\ next' = next + 1
      /\ bin' = [bin EXCEPT ![dir][list[next]] = tool]
      /\ artifacts' = [artifacts EXCEPT ![dir] = @ \union {list[next]}]
      /\ UNCHANGED <<tool, manifest, proc, plan, at>>
  BY DirType DEF CopyEnd, StoreTypeOK
<1>2. list[next] \in Kernels
  BY <1>1
<1>3. bin' \in [Dirs -> [Kernels -> {Torn, NoBinary} \union 1..MaxTool]]
  BY <1>1, <1>2 DEF StoreTypeOK
<1>4. StoreTypeOK'
  <2>1. artifacts' \in [Dirs -> SUBSET Kernels]
    BY <1>1, <1>2 DEF StoreTypeOK
  <2>2. next' \in Nat \ {0}
    BY <1>1
  <2> QED
    BY <1>1, <1>3, <2>1, <2>2 DEF StoreTypeOK
<1>5. /\ \A d \in Dirs : \A k \in Kernels : bin'[d][k] \in {tool, bin[d][k]}
      /\ bin'[dir][list[next]] = tool
  BY <1>1, <1>2 DEF StoreTypeOK
<1>6. Stamped'
  BY <1>1, <1>5, StampedKept
<1>7. Current'
  BY <1>1, <1>2, <1>5 DEF Current, StoreTypeOK
<1>8. Compiled'
  <2>1. dir' = dir /\ list' = list
    BY <1>1 DEF dir, list
  <2>2. \A i \in 1..next : list[i] \in Kernels
    BY <1>1
  <2>3. \A i \in 1..next : bin'[dir][list[i]] \in {Torn, tool}
    <3> TAKE i \in 1..next
    <3>1. CASE i = next
      BY <1>5, <3>1
    <3>2. CASE i \in 1..(next - 1)
      BY <1>1, <1>5, <2>2, <3>2 DEF Compiled
    <3> QED
      BY <1>1, <3>1, <3>2
  <2> QED
    BY <1>1, <2>1, <2>3 DEF Compiled
<1> QED
  BY <1>4, <1>6, <1>7, <1>8

\* The manifest is emptied before it is written.
LEMMA SaveBeginInv == ASSUME StoreInv, SaveBegin PROVE StoreInv'
<1> USE DEF StoreInv
<1> DEFINE empty == [state |-> "torn", tool |-> 0, names |-> <<>>]
<1>1. /\ proc = "boot" /\ dir \in Dirs /\ Len(list) \in Nat
      /\ step' = "write" /\ next > Len(list) /\ next \in Nat \ {0}
      /\ manifest' = [manifest EXCEPT ![dir] = empty]
      /\ UNCHANGED <<tool, bin, artifacts, proc, plan, at, next>>
  BY DirType DEF SaveBegin, StoreTypeOK
<1>2. StoreTypeOK'
  <2>1. empty \in Manifests
    BY DEF Manifests
  <2>2. manifest' \in [Dirs -> Manifests]
    BY <1>1, <2>1 DEF StoreTypeOK
  <2> QED
    BY <1>1, <2>2 DEF StoreTypeOK
<1>3. Stamped'
  <2>1. \A d \in Dirs : manifest'[d] = manifest[d] \/ manifest'[d].state # "ok"
    BY <1>1 DEF StoreTypeOK
  <2> QED
    BY <1>1, <2>1 DEF Stamped
<1>4. Current'
  BY <1>1 DEF Current
<1>5. Compiled'
  <2>1. dir' = dir /\ list' = list
    BY <1>1 DEF dir, list
  <2> QED
    BY <1>1, <2>1 DEF Compiled
<1> QED
  BY <1>2, <1>3, <1>4, <1>5

\* The manifest is stamped: every kernel it lists was compiled just before.
LEMMA SaveEndInv == ASSUME StoreInv, SaveEnd PROVE StoreInv'
<1> USE DEF StoreInv
<1> DEFINE full == [state |-> "ok", tool |-> tool, names |-> list]
<1>1. /\ proc = "boot" /\ step = "write" /\ dir \in Dirs /\ list \in Seq(Kernels)
      /\ Len(list) \in Nat /\ tool \in 1..MaxTool /\ MaxTool \in Nat
      /\ manifest' = [manifest EXCEPT ![dir] = full]
      /\ NextDir /\ UNCHANGED <<tool, bin, artifacts, plan>>
  BY DirType, StoreAssumption DEF SaveEnd, StoreTypeOK
<1>2. StoreTypeOK'
  <2>1. full \in Manifests
    BY <1>1 DEF Manifests
  <2>2. manifest' \in [Dirs -> Manifests]
    BY <1>1, <2>1 DEF StoreTypeOK
  <2>3. next' \in Nat \ {0}
    BY <1>1, NextDirType
  <2> QED
    BY <1>1, <2>2, <2>3, NextDirType DEF StoreTypeOK
<1>3. Stamped'
  <2>1. \A i \in 1..Len(list) : bin[dir][list[i]] \in {Torn, tool}
    BY <1>1 DEF Compiled
  <2>2. \A i \in 1..Len(list) : bin[dir][list[i]] > 0 => bin[dir][list[i]] >= tool
    BY <1>1, <2>1 DEF Torn
  <2>3. manifest'[dir] = full
    BY <1>1 DEF StoreTypeOK
  <2>4. \A d \in Dirs : d # dir => manifest'[d] = manifest[d]
    BY <1>1 DEF StoreTypeOK
  <2> SUFFICES ASSUME NEW d \in Dirs
               PROVE  /\ manifest'[d].state = "ok" =>
                            /\ manifest'[d].tool <= tool
                            /\ \A i \in 1..Len(manifest'[d].names) :
                                  bin[d][manifest'[d].names[i]] > 0 =>
                                      bin[d][manifest'[d].names[i]] >= manifest'[d].tool
                      /\ \A k \in Kernels : bin[d][k] <= tool
    BY <1>1 DEF Stamped
  <2>5. CASE d = dir
    <3>1. manifest'[d].tool = tool /\ manifest'[d].names = list
      BY <2>3, <2>5
    <3>2. tool <= tool
      BY <1>1
    <3>3. \A k \in Kernels : bin[d][k] <= tool
      BY DEF Stamped
    <3> QED
      BY <2>2, <2>5, <3>1, <3>2, <3>3
  <2>6. CASE d # dir
    BY <2>4, <2>6 DEF Stamped
  <2> QED
    BY <2>5, <2>6
<1>4. Current'
  BY <1>1, NextDirType DEF Current
<1>5. Compiled'
  BY <1>1, <1>2, OpenedCompiled
<1> QED
  BY <1>2, <1>3, <1>4, <1>5

\* A newer toolchain is installed while no process runs.
LEMMA SwitchInv == ASSUME StoreInv, Switch, ~Rollback PROVE StoreInv'
<1> USE DEF StoreInv
<1>1. /\ proc = "down" /\ tool' \in 1..MaxTool /\ tool' > tool
      /\ UNCHANGED <<bin, manifest, artifacts, proc, plan, at, next, step>>
  BY DEF Switch
<1>2. StoreTypeOK'
  BY <1>1 DEF StoreTypeOK
<1>3. Stamped'
  <2>1. MaxTool \in Nat /\ tool \in 1..MaxTool
    BY StoreAssumption DEF StoreTypeOK
  <2>2. \A d \in Dirs : manifest[d].tool \in Int
    BY DEF StoreTypeOK, Manifests
  <2>3. \A d \in Dirs : manifest[d].tool <= tool => manifest[d].tool <= tool'
    BY <1>1, <2>1, <2>2
  <2>4. \A d \in Dirs : \A k \in Kernels : bin[d][k] \in {Torn, NoBinary} \union 1..MaxTool
    BY DEF StoreTypeOK
  <2>5. \A d \in Dirs : \A k \in Kernels : bin[d][k] <= tool'
    BY <1>1, <2>1, <2>4 DEF Stamped, Torn, NoBinary
  <2> QED
    BY <1>1, <2>3, <2>5 DEF Stamped
<1>4. Current' /\ Compiled'
  BY <1>1 DEF Current, Compiled
<1> QED
  BY <1>2, <1>3, <1>4

\* A binary disappears while no process runs.
LEMMA DeleteBinaryInv == ASSUME StoreInv, DeleteBinary PROVE StoreInv'
<1> USE DEF StoreInv
<1>1. proc = "down" /\ UNCHANGED <<tool, manifest, artifacts, proc, plan, at, next, step>>
  BY DEF DeleteBinary
<1>2. PICK e \in Deletable : bin' = [bin EXCEPT ![e[1]][e[2]] = NoBinary]
  BY DEF DeleteBinary
<1>3. e[1] \in Dirs /\ e[2] \in Kernels
  BY <1>2, StoreAssumption
<1>4. bin' \in [Dirs -> [Kernels -> {Torn, NoBinary} \union 1..MaxTool]]
  BY <1>2, <1>3 DEF StoreTypeOK
<1>5. StoreTypeOK'
  BY <1>1, <1>4 DEF StoreTypeOK
<1>6. \A d \in Dirs : \A k \in Kernels : bin'[d][k] \in {NoBinary, bin[d][k]}
  BY <1>2, <1>3 DEF StoreTypeOK
<1>7. Stamped'
  BY <1>1, <1>6, StampedKept
<1>8. Current' /\ Compiled'
  BY <1>1 DEF Current, Compiled
<1> QED
  BY <1>5, <1>7, <1>8

LEMMA StoreStepInv ==
    ASSUME ~Rollback, StoreInv, [StoreNext]_storeVars PROVE StoreInv'
<1>1. CASE UNCHANGED storeVars
  <2>1. UNCHANGED <<dir, list>>
    BY <1>1 DEF storeVars, dir, list
  <2> QED
    BY <1>1, <2>1 DEF storeVars, StoreInv, StoreTypeOK, Stamped, Current, Compiled
<1>2. CASE StoreNext
  BY <1>2, StartInv, OpenInv, OpenCompileInv, DownInv, CopyBeginInv, CopyEndInv,
     SaveBeginInv, SaveEndInv, SwitchInv, DeleteBinaryInv DEF StoreNext
<1> QED
  BY <1>1, <1>2

\* StoreInv holds at every moment, crashes between any two steps of
\* compile_and_cache and _save_manifest included, while toolchains only move
\* forward.
THEOREM StoreConsistent == ASSUME ~Rollback PROVE StoreSpec => []StoreInv
<1>1. StoreInv /\ [StoreNext]_storeVars => StoreInv'
  BY StoreStepInv
<1> QED
  BY <1>1, StoreInitInv, PTL DEF StoreSpec

\* No program at work runs a kernel that another toolchain compiled: what
\* load_manifest restores and compile_and_cache records is the toolchain's own.
THEOREM ServedKernelsFresh == ASSUME ~Rollback PROVE StoreSpec => []ServesFresh
<1>1. StoreInv => ServesFresh
  BY DEF StoreInv, Current, ServesFresh
<1> QED
  BY <1>1, StoreConsistent, PTL
=============================================================================
