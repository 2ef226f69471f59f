--------------------------- MODULE AirKernelStore ---------------------------
(***************************************************************************)
(* The compiled kernels on disk: KernelCache.compile_and_cache copies one  *)
(* binary per kernel into the cache directory, _save_manifest stamps the   *)
(* directory with the identity of the toolchain, and load_manifest trusts  *)
(* the binaries when the stamp is that of the toolchain in use             *)
(* (programming_examples/llms/shared/infra/cache.py).  The process may die *)
(* between any two steps; the toolchain changes while it is down.          *)
(***************************************************************************)
EXTENDS Integers, Sequences

CONSTANTS
    Dirs,      \* cache directories, one per KernelCache
    Kernels,   \* kernel names
    Plans,     \* how the programs start: [mode, dirs, kernels]
    MaxTool,   \* toolchains are numbered 1..MaxTool
    Deletable, \* bound: the <<directory, kernel>> whose binary may be deleted
    Rollback   \* whether an earlier toolchain may come back into use

\* Binaries are written by a toolchain, or are one of:
NoBinary == 0
Torn == -1    \* the copy of the binary did not finish

Modes == {"compile", "compile_only", "run_only", "ensure"}
Compiling == {"compile", "compile_only"}

ASSUME StoreAssumption ==
    /\ MaxTool \in Nat \ {0}
    /\ Rollback \in BOOLEAN /\ Deletable \subseteq Dirs \X Kernels
    /\ \A p \in Plans :
          /\ p.mode \in Modes
          /\ p.dirs \in Seq(Dirs) /\ Len(p.dirs) > 0
          /\ p.kernels \in [Dirs -> Seq(Kernels)]

VARIABLES
    tool,       \* the toolchain _toolchain_id identifies
    bin,        \* bin[d][k]: the binary of k in directory d
    manifest,   \* manifest[d]: manifest.json
    artifacts,  \* artifacts[d]: the kernels in the artifacts of d's cache
    proc,       \* the process: "down", "boot" (opening its caches), "up"
    plan,       \* how it was started
    at,         \* which directory of the plan it is opening
    next,       \* which kernel of that directory it compiles next
    step        \* where it is in opening the directory

storeVars == <<tool, bin, manifest, artifacts, proc, plan, at, next, step>>

Manifests == [state : {"none", "torn", "ok"}, tool : Int, names : Seq(Kernels)]

StoreTypeOK ==
    /\ tool \in 1..MaxTool
    /\ bin \in [Dirs -> [Kernels -> {Torn, NoBinary} \union 1..MaxTool]]
    /\ manifest \in [Dirs -> Manifests]
    /\ artifacts \in [Dirs -> SUBSET Kernels]
    /\ proc \in {"down", "boot", "up"}
    /\ plan \in Plans
    /\ at \in Nat \ {0} /\ (proc = "boot" => at <= Len(plan.dirs))
    /\ next \in Nat \ {0}
    /\ step \in {"open", "compile", "copy", "write"}

StoreInit ==
    /\ tool = 1
    /\ bin = [d \in Dirs |-> [k \in Kernels |-> NoBinary]]
    /\ manifest = [d \in Dirs |-> [state |-> "none", tool |-> 0, names |-> <<>>]]
    /\ artifacts = [d \in Dirs |-> {}]
    /\ proc = "down" /\ plan \in Plans
    /\ at = 1 /\ next = 1 /\ step = "open"

dir == plan.dirs[at]
list == plan.kernels[dir]

\* A new process constructs its caches, with no artifacts.
Start ==
    /\ proc = "down"
    /\ proc' = "boot" /\ plan' \in Plans
    /\ artifacts' = [d \in Dirs |-> {}]
    /\ at' = 1 /\ next' = 1 /\ step' = "open"
    /\ UNCHANGED <<tool, bin, manifest>>

\* The directory is open: on to the next one, or to the program's work, if
\* it has any.
NextDir ==
    /\ step' = "open" /\ next' = 1
    /\ IF at < Len(plan.dirs) THEN at' = at + 1 /\ UNCHANGED proc
       ELSE /\ proc' = IF plan.mode = "compile_only" THEN "down" ELSE "up"
            /\ UNCHANGED at

\* Mutant of Matches: the manifest's toolchain is not compared.
MutMatchesAny(m) == m.state = "ok"

\* load_manifest: the manifest exists and its toolchain is the one in use.
Matches(m) == m.state = "ok" /\ m.tool = tool

\* The entries load_manifest restores before the first missing binary.
Resolved(d) ==
    {k \in Kernels : \E i \in 1..Len(manifest[d].names) :
        /\ k = manifest[d].names[i]
        /\ \A j \in 1..i : bin[d][manifest[d].names[j]] # NoBinary}

Complete(d) ==
    \A i \in 1..Len(manifest[d].names) : bin[d][manifest[d].names[i]] # NoBinary

\* load_manifest returns TRUE and has every expected kernel.
Reusable(d) ==
    /\ Matches(manifest[d]) /\ Complete(d)
    /\ \A i \in 1..Len(list) : list[i] \in Resolved(d)

\* --run-only: the result of load_manifest is not looked at.
OpenRunOnly ==
    /\ proc = "boot" /\ step = "open" /\ plan.mode = "run_only"
    /\ manifest[dir].state # "torn"
    /\ artifacts' = [artifacts EXCEPT ![dir] =
                        IF Matches(manifest[dir]) THEN Resolved(dir) ELSE {}]
    /\ NextDir
    /\ UNCHANGED <<tool, bin, manifest, plan>>

\* ensure_kernels finds the cache complete.
OpenReuse ==
    /\ proc = "boot" /\ step = "open" /\ plan.mode = "ensure"
    /\ Reusable(dir)
    /\ artifacts' = [artifacts EXCEPT ![dir] = Resolved(dir)]
    /\ NextDir
    /\ UNCHANGED <<tool, bin, manifest, plan>>

\* ensure_kernels does not, or the program compiles in any case.
OpenCompile ==
    /\ proc = "boot" /\ step = "open"
    /\ \/ plan.mode \in Compiling
       \/ plan.mode = "ensure" /\ manifest[dir].state # "torn" /\ ~Reusable(dir)
    /\ artifacts' = [artifacts EXCEPT ![dir] = {}]
    /\ step' = "compile"
    /\ UNCHANGED <<tool, bin, manifest, proc, plan, at, next>>

\* json.load raises on a manifest that was not written to its end.
OpenRaises ==
    /\ proc = "boot" /\ step = "open" /\ plan.mode \notin Compiling
    /\ manifest[dir].state = "torn"
    /\ proc' = "down"
    /\ UNCHANGED <<tool, bin, manifest, artifacts, plan, at, next, step>>

\* compile_and_cache has compiled and starts to copy the binary.
CopyBegin ==
    /\ proc = "boot" /\ step = "compile" /\ next <= Len(list)
    /\ bin' = [bin EXCEPT ![dir][list[next]] = Torn]
    /\ step' = "copy"
    /\ UNCHANGED <<tool, manifest, artifacts, proc, plan, at, next>>

\* The copy is complete and the artifact is recorded.
CopyEnd ==
    /\ proc = "boot" /\ step = "copy" /\ next <= Len(list)
    /\ bin' = [bin EXCEPT ![dir][list[next]] = tool]
    /\ artifacts' = [artifacts EXCEPT ![dir] = @ \union {list[next]}]
    /\ next' = next + 1 /\ step' = "compile"
    /\ UNCHANGED <<tool, manifest, proc, plan, at>>

\* Mutant of SaveBegin: the manifest is saved after every kernel.
MutSaveBeginEarly ==
    /\ proc = "boot" /\ step = "compile" /\ next > 1
    /\ manifest' = [manifest EXCEPT ![dir] =
                       [state |-> "torn", tool |-> 0, names |-> <<>>]]
    /\ step' = "write"
    /\ UNCHANGED <<tool, bin, artifacts, proc, plan, at, next>>

\* _save_manifest opens the file for writing, which empties it...
SaveBegin ==
    /\ proc = "boot" /\ step = "compile" /\ next > Len(list)
    /\ manifest' = [manifest EXCEPT ![dir] =
                       [state |-> "torn", tool |-> 0, names |-> <<>>]]
    /\ step' = "write"
    /\ UNCHANGED <<tool, bin, artifacts, proc, plan, at, next>>

\* ... and writes the entries with the toolchain's identity.
SaveEnd ==
    /\ proc = "boot" /\ step = "write"
    /\ manifest' = [manifest EXCEPT ![dir] =
                       [state |-> "ok", tool |-> tool, names |-> list]]
    /\ NextDir
    /\ UNCHANGED <<tool, bin, artifacts, plan>>

\* The process ends, or dies: at any point.
Crash ==
    /\ proc # "down"
    /\ proc' = "down"
    /\ UNCHANGED <<tool, bin, manifest, artifacts, plan, at, next, step>>

\* Another mlir-air, mlir-aie or Peano is installed or selected.
Switch ==
    /\ proc = "down"
    /\ tool' \in {t \in 1..MaxTool : t > tool \/ Rollback}
    /\ UNCHANGED <<bin, manifest, artifacts, proc, plan, at, next, step>>

\* Somebody deletes a binary of the cache.
DeleteBinary ==
    /\ proc = "down"
    /\ \E e \in Deletable : bin' = [bin EXCEPT ![e[1]][e[2]] = NoBinary]
    /\ UNCHANGED <<tool, manifest, artifacts, proc, plan, at, next, step>>

StoreNext ==
    \/ Start \/ OpenRunOnly \/ OpenReuse \/ OpenCompile \/ OpenRaises
    \/ CopyBegin \/ CopyEnd \/ SaveBegin \/ SaveEnd \/ Crash \/ Switch
    \/ DeleteBinary

StoreSpec == StoreInit /\ [][StoreNext]_storeVars

-----------------------------------------------------------------------------
\* As long as no earlier toolchain comes back (Rollback = FALSE), a program at
\* work never runs a kernel that another toolchain compiled (_toolchain_id:
\* "the failure mode is a run that passes on binaries nobody rebuilt").  A
\* torn binary does not load.  When one comes back, the stamp of a manifest it
\* wrote matches again although a compilation that died has replaced binaries
\* since: the run toolchain_back.
ServesFresh ==
    proc = "up" =>
        \A d \in Dirs : \A k \in artifacts[d] : bin[d][k] \in {Torn, tool}

\* A binary is never older than the manifest that lists it, nor newer than
\* the toolchain in use.
Stamped ==
    \A d \in Dirs :
        /\ manifest[d].state = "ok" =>
              /\ manifest[d].tool <= tool
              /\ \A i \in 1..Len(manifest[d].names) :
                    bin[d][manifest[d].names[i]] > 0 =>
                        bin[d][manifest[d].names[i]] >= manifest[d].tool
        /\ \A k \in Kernels : bin[d][k] <= tool

\* The artifacts of the running process are the current toolchain's.
Current ==
    proc # "down" =>
        \A d \in Dirs : \A k \in artifacts[d] : bin[d][k] \in {Torn, tool}

\* While a directory is compiled its artifacts are the kernels done so far.
Compiled ==
    proc = "boot" =>
        /\ next <= Len(list) + 1
        /\ step = "open" => next = 1
        /\ step = "copy" => next <= Len(list)
        /\ step = "write" => next = Len(list) + 1
        /\ \A i \in 1..(next - 1) : bin[dir][list[i]] \in {Torn, tool}

StoreInv == StoreTypeOK /\ Stamped /\ Current /\ Compiled
=============================================================================
