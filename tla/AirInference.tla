---------------------------- MODULE AirInference ----------------------------
(***************************************************************************)
(* Inference sessions on KernelCache: what load_and_run does with buffer   *)
(* objects (BOs), under the two programs that rely on it most: the Llama   *)
(* 3.2 1B session (llms/llama32_1b), which preloads its weights and frees  *)
(* the host copies, and the SmolVLA vision encoder (llms/smolvla), which   *)
(* chains its kernels through shared device buffers.  Composes the         *)
(* hardware contexts (AirKernelCache) and the compiled kernels on disk     *)
(* (AirKernelStore).                                                       *)
(*                                                                         *)
(* A tensor is abstracted to where it comes from: <<stage, request, token, *)
(* layer>>; a kernel given anything but the operands of one layer of one   *)
(* token computes Junk.                                                    *)
(***************************************************************************)
EXTENDS AirKernelCache, AirKernelStore

CONSTANTS
    NLayers,      \* transformer layers of either model
    MaxRequests,  \* bound: prompts or images per process
    MaxTokens,    \* n_tokens of generate
    Apps          \* which programs run: subset of {"llama", "vision"}

ASSUME SizesAssumption == NLayers \in Nat \ {0} /\ MaxTokens \in Nat /\ MaxRequests \in Nat

VARIABLES
    app,     \* the program
    task,    \* what it is doing: "prepare", "idle", "prefill", "decode",
             \* "chain", "cpu"
    ip,      \* the dispatch it is at
    dstep,   \* where load_and_run is once the backend is there
    req,     \* number of the request
    tok,     \* number of the token being decoded; 0: prefill
    warmed,  \* VisionRuntime.warmed
    hostFirst, \* history: the first image went through the host attention
    regs,    \* the arrays the host code holds
    kv,      \* kv[l]: k_cache and v_cache of layer l, per position
    dropped, \* kernels whose host weights were replaced by empty arrays
    bos,     \* _cached_bos: the BOs bound to a bo_key
    mem,     \* contents of the BOs
    out      \* the result of the last token or image, and what it was for

sessionVars ==
    <<app, task, ip, dstep, req, tok, warmed, hostFirst, regs, kv, dropped, bos, mem, out>>
vars == <<cacheVars, storeVars, sessionVars>>

-----------------------------------------------------------------------------
(* Contents of arrays and buffers.                                         *)

Special(n) == <<n, 0, 0, 0>>
Zeros == Special("zeros")
Undef == Special("undef")   \* a fresh BO
Junk == Special("junk")     \* what a kernel makes of operands that do not fit
EmptyArray == Special("empty")   \* the 0-element stand-in of a freed weight
WeightOf(k, l) == <<k, 0, 0, l>>

NoBo == <<"none", "none", "none", 0, 0>>
\* numpy arrays: with their own data, or a zero-copy view of a BO.
Val(v) == [bo |-> NoBo, val |-> v]
View(b) == [bo |-> b, val |-> Undef]
Get(m, r) == IF r.bo = NoBo THEN r.val ELSE m[r.bo]

-----------------------------------------------------------------------------
(* The programs: sequences of load_and_run calls.  An argument has a role  *)
(* (static, intermediate or plain), the array it is called with, the array *)
(* its read-back becomes, and its shared_alias, or "none"; the last one is *)
(* the output.                                                             *)

Arg(role, src, dst, alias) == [role |-> role, src |-> src, dst |-> dst, alias |-> alias]
In(r) == Arg("plain", r, "none", "none")
Weight == Arg("static", "weight", "none", "none")
Out(r) == Arg("inter", "zeros", r, "none")
Resident(p) == Arg("inter", "zeros", "none", p)

Call(c, k, l, shared, args) ==
    [c |-> c, k |-> k, l |-> l, shared |-> shared, args |-> args]

\* run_transformer_block, with the attention on the device.
PrefillBlock(l) == <<
    Call("prefill", "rms_gemms_rope", l, TRUE, <<In("x"), Weight, Out("qkv")>>),
    Call("prefill", "flash_attn", 0, FALSE, <<In("qkv"), Arg("plain", "zeros", "attn", "none")>>),
    Call("prefill", "o_ffn", l, TRUE, <<In("attn"), Weight, In("x"), Out("x")>>)>>

\* run_decode_block; the attention between its two calls is the host's.
DecodeBlock(l) == <<
    Call("decode", "rms_gemv_rope", l, FALSE, <<In("x"), Weight, Out("qkv")>>),
    Call("decode", "o_gemv_ffn", l, FALSE, <<Weight, In("attn"), In("x"), Out("x")>>)>>

LmHead == Call("decode", "lm_head_gemv", 0, FALSE, <<In("x"), Weight, Out("out")>>)

\* A preload call passes zeros for everything but the weights.
Preload(d) == [d EXCEPT !.args = [i \in DOMAIN d.args |->
    IF d.args[i].role = "static" THEN d.args[i]
                                 ELSE [d.args[i] EXCEPT !.src = "zeros", !.dst = "none"]]]

PreloadPrefill(l) == <<Preload(PrefillBlock(l)[1]), Preload(PrefillBlock(l)[3])>>
PreloadDecode(l) == <<Preload(DecodeBlock(l)[1]), Preload(DecodeBlock(l)[2])>>

\* pool_in and pool_out of run_vit_block_fused.
XPool(l) == IF l % 2 = 0 THEN "vit_x0" ELSE "vit_x1"

\* run_vit_block_fused with chain = (l = 1, l = NLayers).
ChainBlock(l) == <<
    Call("vision", "vit_ln_qkv", l, FALSE,
         <<IF l = 1 THEN Arg("plain", "x", "none", XPool(0)) ELSE Resident(XPool(l - 1)),
           Weight, Resident("vit_qkv")>>),
    Call("vision", "flash_attn", 0, FALSE, <<Resident("vit_qkv"), Resident("vit_attn")>>),
    Call("vision", "vit_o_ffn", l, FALSE,
         <<Resident("vit_attn"), Weight, Resident(XPool(l - 1)),
           [Resident(XPool(l)) EXCEPT !.dst = IF l = NLayers THEN "x" ELSE "none"]>>)>>

\* run_vit_block_fused with attn_mode = "cpu".
CpuBlock(l) == <<
    Call("vision", "vit_ln_qkv", l, FALSE, <<In("x"), Weight, Out("qkv")>>),
    Call("vision", "vit_o_ffn", l, FALSE, <<In("attn"), Weight, In("x"), Out("x")>>)>>

\* The end of run_vit_encoder, for one image.
Connector == <<
    Call("vision", "layer_norm", 0, FALSE, <<In("x"), Weight, Out("norm")>>),
    Call("vision", "gemm_connector", 0, FALSE, <<In("norm"), Weight, Out("out")>>)>>

\* The loop over the layers, with the n calls of Block(l) in layer l, and the
\* calls of rest after it.
LayersThen(Block(_), n, rest) ==
    [i \in 1..(n * NLayers + Len(rest)) |->
        IF i <= n * NLayers THEN Block(((i - 1) \div n) + 1)[((i - 1) % n) + 1]
                            ELSE rest[i - n * NLayers]]

PrepareRuntime ==
    LayersThen(PreloadPrefill, 2, LayersThen(PreloadDecode, 2, <<Preload(LmHead)>>))
Prefill == LayersThen(PrefillBlock, 3, <<LmHead>>)
DecodeStep == LayersThen(DecodeBlock, 2, <<LmHead>>)
EncodeChained == LayersThen(ChainBlock, 3, Connector)
EncodeCpu == LayersThen(CpuBlock, 2, Connector)

Program(t) ==
    CASE t = "prepare" -> PrepareRuntime
      [] t = "prefill" -> Prefill
      [] t = "decode" -> DecodeStep
      [] t = "chain" -> EncodeChained
      [] t = "cpu" -> EncodeCpu
      [] OTHER -> <<>>

Tasks == {"prepare", "prefill", "decode", "chain", "cpu"}

\* Every cache of the programs is one of the process's, every kernel they
\* compile has a name; the process has another cache besides.
ASSUME SessionAssumption ==
    /\ Dirs \subseteq Caches /\ Kernels \subseteq Names
    /\ <<"other", "side">> \in Contexts /\ "other" \notin Dirs

\* Every task calls some kernel, and only kernels of the programs' caches.
ASSUME ProgramsValid ==
    \A t \in Tasks :
        /\ Len(Program(t)) \in Nat \ {0}
        /\ \A i \in 1..Len(Program(t)) :
              Program(t)[i].c \in Dirs /\ Program(t)[i].k \in Kernels

\* The alias checks at the top of load_and_run pass in every call; the calls
\* have at most four arguments (see Written).
ASSUME AliasesValid ==
    \A t \in Tasks :
        \A i \in 1..Len(Program(t)) :
            /\ Len(Program(t)[i].args) <= 4
            /\ \A j \in DOMAIN Program(t)[i].args :
                  Program(t)[i].args[j].alias # "none" => Program(t)[i].args[j].role # "static"

-----------------------------------------------------------------------------
(* The kernels and the host code between them.                             *)

Kind(k) ==
    CASE k \in {"rms_gemms_rope", "rms_gemv_rope", "vit_ln_qkv"} -> "qkv"
      [] k \in {"o_ffn", "o_gemv_ffn", "vit_o_ffn"} -> "ffn"
      [] k = "flash_attn" -> "attn"
      [] k = "layer_norm" -> "norm"
      [] OTHER -> "head"

\* What kernel k computes from operands v and weights w.
Compute(k, v, w) ==
    LET e == v[1]
        Make(stage, l) == <<stage, e[2], e[3], l>>
    IN  CASE Kind(k) = "qkv" /\ e[1] = "x" /\ w = WeightOf(k, e[4] + 1) -> Make("qkv", e[4] + 1)
          [] Kind(k) = "attn" /\ e[1] = "qkv" -> Make("attn", e[4])
          [] Kind(k) = "ffn" /\ e[1] = "attn" /\ v[2] = Make("x", e[4] - 1)
                /\ w = WeightOf(k, e[4]) -> Make("x", e[4])
          [] Kind(k) = "norm" /\ e = Make("x", NLayers) /\ w = WeightOf(k, 0) -> Make("norm", NLayers)
          [] k = "lm_head_gemv" /\ e = Make("x", NLayers) /\ w = WeightOf(k, 0) -> Make("out", NLayers)
          [] k = "gemm_connector" /\ e[1] = "norm" /\ w = WeightOf(k, 0) -> Make("out", NLayers)
          [] OTHER -> Junk

\* mha_bidirectional; decode_attention_cpu over every position of the layer.
HostAttention(q, past) ==
    IF q[1] = "qkv" /\ \A t \in DOMAIN past : past[t] = <<"qkv", q[2], t - 1, q[4]>>
    THEN <<"attn", q[2], q[3], q[4]>> ELSE Junk

-----------------------------------------------------------------------------
(* load_and_run.                                                           *)

\* The call the program is at.
Now == Program(task)[ip]
Key(d) == <<d.c, d.k, d.l>>

\* The BO bound to argument i on the first call of the key: _pool_key and
\* shared_idx.  Sizes follow the alias, or the kernel and the argument.
BoFor(d, i) ==
    IF d.args[i].alias # "none" THEN <<d.c, "alias", d.args[i].alias, 0, 0>>
    ELSE IF d.shared /\ d.args[i].role # "static" THEN <<d.c, "pool", d.k, 0, i>>
    ELSE <<d.c, "own", d.k, d.l, i>>

\* Arguments whose host array is not written.  resident_alias is set in every
\* call that aliases an argument.
Skipped(a, first) ==
    \/ ~first /\ a.role \in {"static", "inter"}
    \/ a.role = "inter" /\ a.alias # "none"

HostArray(d, a, m) ==
    CASE a.src = "zeros" -> Zeros
      [] a.src = "weight" -> IF d.k \in dropped THEN EmptyArray ELSE WeightOf(d.k, d.l)
      [] OTHER -> Get(m, regs[a.src])

\* Argument i is copied into its BO; copying an empty array changes nothing.
Put(d, first, m, i) ==
    IF \/ i \notin DOMAIN d.args
       \/ Skipped(d.args[i], first) \/ HostArray(d, d.args[i], m) = EmptyArray
    THEN m
    ELSE [m EXCEPT ![bos[Key(d)][i]] = HostArray(d, d.args[i], m)]

\* The inputs are copied in order.  A source that is a view of a BO sees what
\* was copied before it.
Written(d, first) ==
    LET m1 == Put(d, first, mem, 1)
        m2 == Put(d, first, m1, 2)
        m3 == Put(d, first, m2, 3)
    IN  Put(d, first, m3, 4)

\* Mutant of AfterUnload: the buffers belong to the context's own device.
MutAfterUnload(e, m) ==
    [b \in DOMAIN m |-> IF b[1] = e[1] /\ b[3] = e[2] THEN Undef ELSE m[b]]

\* BOs belong to the shared device: they keep their contents when context e
\* is unloaded (get_shared_device).
AfterUnload(e, m) == m

\* Level 2: the BOs of the key are allocated on its first call.
Bind ==
    /\ pc = "run" /\ cur[1] # "other" /\ dstep = "bind"
    /\ LET d == Now
           new == {BoFor(d, i) : i \in DOMAIN d.args} \ DOMAIN mem
       IN  IF Key(d) \in DOMAIN bos
           THEN dstep' = "reuse" /\ UNCHANGED <<bos, mem>>
           ELSE /\ dstep' = "first"
                /\ bos' = [q \in DOMAIN bos \union {Key(d)} |->
                              IF q = Key(d) THEN [i \in DOMAIN d.args |-> BoFor(d, i)]
                                            ELSE bos[q]]
                /\ mem' = [b \in DOMAIN mem \union new |->
                              IF b \in new THEN Undef ELSE mem[b]]
    /\ UNCHANGED <<cacheVars, storeVars, app, task, ip, req, tok, warmed, hostFirst, regs, kv, dropped, out>>

\* Phase 1: the inputs.
WriteInputs ==
    /\ pc = "run" /\ dstep \in {"first", "reuse"}
    /\ mem' = Written(Now, dstep = "first")
    /\ dstep' = "launch"
    /\ UNCHANGED <<cacheVars, storeVars, app, task, ip, req, tok, warmed, hostFirst, regs, kv, dropped, bos, out>>

Fresh == [r \in {"x", "qkv", "attn", "norm", "out"} |-> Val(Undef)]
NoKv == [l \in 1..NLayers |-> <<>>]

\* Embedding of the token the logits in v select.
Embedding(v) == IF v = <<"out", req, tok, NLayers>> THEN <<"x", req, tok + 1, 0>> ELSE Junk

\* Arrays the program copies out of the BO as soon as the call returns.
Copied == CASE task = "decode" -> {"x", "qkv", "out"}
            [] task = "chain" -> {"x", "norm", "out"}
            [] OTHER -> {"norm", "out"}

\* The arrays the host holds once the call has returned.
ReadBack(d, m) ==
    LET o == d.args[Len(d.args)].dst
        v == View(bos[Key(d)][Len(d.args)])
    IN  IF o = "none" THEN regs
        ELSE [regs EXCEPT ![o] = IF o \in Copied THEN Val(Get(m, v)) ELSE v]

\* K and V of the layer: taken after o_ffn in run_npu_prefill, after
\* rms_gemv_rope in run_decode_block.
Extracted(d, m, r) ==
    IF <<task, d.k>> \in {<<"prefill", "o_ffn">>, <<"decode", "rms_gemv_rope">>}
    THEN [kv EXCEPT ![d.l] = Append(@, Get(m, r["qkv"]))] ELSE kv

\* The attention computed on the host.
Attended(d, m, r, past) ==
    IF Kind(d.k) # "qkv" \/ task \notin {"decode", "cpu"} THEN r
    ELSE [r EXCEPT !["attn"] = Val(HostAttention(Get(m, r["qkv"]),
                                       IF task = "decode" THEN past[d.l] ELSE <<>>))]

\* The host weights freed after the call: _free_original_weight_numpy after
\* the prefill preload, _free_transposed_weight_numpy after the decode one.
Freed ==
    CASE task = "prepare" /\ ip = 2 * NLayers -> {"rms_gemms_rope", "o_ffn"}
      [] task = "prepare" /\ ip = Len(Program("prepare")) -> {"rms_gemv_rope", "o_gemv_ffn"}
      [] OTHER -> {}

\* The function returns: its arrays go.
GoIdle == task' = "idle" /\ ip' = 1 /\ regs' = Fresh /\ kv' = NoKv

\* What the program hands out at the end of a task.
NoResult == [by |-> "none", req |-> 0, tok |-> 0, val |-> Undef]
Result(v) == [by |-> task, req |-> req, tok |-> tok, val |-> v]

\* The last call of a task: the result, and what the program does next.
Finish(r, past) ==
    \/ /\ task = "prepare"
       /\ GoIdle /\ UNCHANGED <<tok, warmed, out>>
    \/ /\ task \in {"chain", "cpu"}
       /\ GoIdle /\ out' = Result(r["out"].val) /\ warmed' = TRUE /\ UNCHANGED tok
    \/ /\ task \in {"prefill", "decode"} /\ tok < MaxTokens
       /\ task' = "decode" /\ ip' = 1 /\ tok' = tok + 1
       /\ out' = Result(r["out"].val)
       /\ regs' = [Fresh EXCEPT !["x"] = Val(Embedding(r["out"].val))]
       /\ kv' = past
       /\ UNCHANGED warmed
    \/ /\ task = "decode"   \* n_tokens reached, or an end-of-text token
       /\ GoIdle /\ out' = Result(r["out"].val) /\ UNCHANGED <<tok, warmed>>

\* The arguments of call d that are not its output, without the weights.
WeightSlots(d) == {i \in 1..(Len(d.args) - 1) : d.args[i].role = "static"}
Operand(d, i) == IF \E w \in WeightSlots(d) : w <= i THEN i + 1 ELSE i

\* What the kernel of call d leaves in its output.
Computed(d) ==
    LET b == bos[Key(d)]
    IN  Compute(d.k,
                [i \in 1..(Len(d.args) - 1 - Cardinality(WeightSlots(d))) |-> mem[b[Operand(d, i)]]],
                IF WeightSlots(d) = {} THEN Undef
                ELSE mem[b[CHOOSE w \in WeightSlots(d) : TRUE]])

\* Phases 2 and 3, and the host code up to the next call.
Launch ==
    /\ pc = "run" /\ dstep = "launch"
    /\ Return
    /\ LET d == Now
           m == [mem EXCEPT ![bos[Key(d)][Len(d.args)]] = Computed(d)]
           past == Extracted(d, m, ReadBack(d, m))
           r == Attended(d, m, ReadBack(d, m), past)
       IN  /\ mem' = m
           /\ dropped' = dropped \union Freed
           /\ IF ip = Len(Program(task)) THEN Finish(r, past)
              ELSE /\ ip' = ip + 1 /\ regs' = r /\ kv' = past
                   /\ UNCHANGED <<task, tok, warmed, out>>
    /\ dstep' = "bind"
    /\ UNCHANGED <<storeVars, app, req, hostFirst, bos>>

-----------------------------------------------------------------------------
(* The process.                                                            *)

SessionInit ==
    /\ app \in Apps
    /\ task = "down" /\ ip = 1 /\ dstep = "bind"
    /\ req = 0 /\ tok = 0 /\ warmed = FALSE /\ hostFirst = FALSE
    /\ regs = Fresh /\ kv = NoKv /\ dropped = {}
    /\ bos = << >> /\ mem = << >>
    /\ out = NoResult

Init == CacheInit /\ StoreInit /\ SessionInit

\* The process is gone, with its contexts and its buffers.
SessionEnds ==
    /\ task' = "down" /\ ip' = 1 /\ dstep' = "bind"
    /\ req' = 0 /\ tok' = 0 /\ warmed' = FALSE /\ hostFirst' = FALSE
    /\ regs' = Fresh /\ kv' = NoKv /\ dropped' = {}
    /\ bos' = << >> /\ mem' = << >> /\ out' = NoResult
    /\ UNCHANGED app

Die == Crash /\ Restart /\ SessionEnds

\* A process of the program is started in one of the ways it can be.
StartApp ==
    /\ Start
    /\ app = "vision" <=> plan'.dirs = <<"vision">>
    /\ UNCHANGED <<cacheVars, sessionVars>>

OpenCaches ==
    /\ OpenRunOnly \/ OpenReuse \/ OpenCompile \/ CopyBegin \/ CopyEnd \/ SaveBegin \/ SaveEnd
    /\ UNCHANGED <<cacheVars, sessionVars>>

OpenFails == OpenRaises /\ UNCHANGED <<cacheVars, sessionVars>>
\* The disk and the toolchain while the program does not run.
DisturbStore == (Switch \/ DeleteBinary) /\ UNCHANGED <<cacheVars, sessionVars>>

\* The caches are open: the Llama session prepares its runtime, the vision
\* runtime is constructed.
BeginWork ==
    /\ proc = "up" /\ task = "down"
    /\ task' = IF app = "llama" THEN "prepare" ELSE "idle"
    /\ UNCHANGED <<cacheVars, storeVars, app, ip, dstep, req, tok, warmed, hostFirst,
                   regs, kv, dropped, bos, mem, out>>

\* VisionRuntime.warmup, which the caller may leave out: a throwaway image.
Warmup ==
    /\ task = "idle" /\ pc = "idle" /\ app = "vision" /\ ~warmed
    /\ task' = "chain" /\ tok' = 0 /\ out' = NoResult
    /\ regs' = [Fresh EXCEPT !["x"] = Val(<<"x", req, 0, 0>>)]
    /\ UNCHANGED <<cacheVars, storeVars, app, ip, dstep, req, warmed, hostFirst,
                   kv, dropped, bos, mem>>

\* A prompt in repl_loop, or an image to VisionRuntime.encode.
Request(t) ==
    /\ task = "idle" /\ pc = "idle" /\ req < MaxRequests
    /\ t \in IF app = "llama" THEN {"prefill"} ELSE {"chain", "cpu"}
    /\ task' = t /\ req' = req + 1 /\ tok' = 0 /\ out' = NoResult
    /\ regs' = [Fresh EXCEPT !["x"] = Val(<<"x", req + 1, 0, 0>>)]
    /\ hostFirst' = (hostFirst \/ (t = "cpu" /\ ~warmed))
    /\ UNCHANGED <<cacheVars, storeVars, app, ip, dstep, warmed, kv, dropped, bos, mem>>

\* load_and_run is called: the kernel must be among the artifacts...
Dispatch ==
    /\ task \notin {"idle", "down"}
    /\ Now.k \in artifacts[Now.c]
    /\ Begin(Now.c, Now.k)
    /\ UNCHANGED <<storeVars, sessionVars>>

\* ... or RuntimeError ends the process; so does the KeyError of a kernel that
\* is loaded and not listed.
DispatchFails ==
    /\ pc = "idle" /\ task \notin {"idle", "down"}
    /\ Now.k \notin artifacts[Now.c] \/ Unlisted(Now.c, Now.k)
    /\ Die

\* Another cache of the process is used between requests.
UseOther ==
    /\ task = "idle"
    /\ Begin("other", "side")
    /\ UNCHANGED <<storeVars, sessionVars>>

OtherReturns == pc = "run" /\ cur[1] = "other" /\ Return /\ UNCHANGED <<storeVars, sessionVars>>

\* Mutant of Intact: a binary whose copy did not finish loads.
MutIntactTorn(e) == IF e[1] \in Dirs THEN bin[e[1]][e[2]] # NoBinary ELSE TRUE

Intact(e) == IF e[1] \in Dirs THEN bin[e[1]][e[2]] > 0 ELSE TRUE

\* _load_backend, with what the device and the binary make of the load.
MakeRoom ==
    /\ KeepUnderCap \/ ReleaseNothing \/ LoadFails
    /\ UNCHANGED <<storeVars, sessionVars>>

Evict == Release /\ UNCHANGED <<storeVars, sessionVars>>

CloseContext ==
    /\ Unload
    /\ mem' = AfterUnload(victim, mem)
    /\ UNCHANGED <<storeVars, app, task, ip, dstep, req, tok, warmed, hostFirst,
                   regs, kv, dropped, bos, out>>

LoadKernel == LoadSucceeds /\ Intact(cur) /\ UNCHANGED <<storeVars, sessionVars>>

ListKernel == ListContext /\ UNCHANGED <<storeVars, sessionVars>>

\* The call raises; nobody catches the error.
LoadDies == pc = "load" /\ ctx = <<>> /\ Die

\* Ctrl-C: repl_loop goes back to its prompt, anything else dies.
CtrlC ==
    /\ task \in {"prefill", "decode"}
    /\ IF pc = "idle" THEN UNCHANGED cacheVars ELSE Interrupt
    /\ GoIdle /\ dstep' = "bind"
    /\ UNCHANGED <<storeVars, app, req, tok, warmed, hostFirst, dropped, bos, mem, out>>

CollectOther ==
    /\ proc = "up" /\ (Collect("other") \/ Purge)
    /\ UNCHANGED <<storeVars, sessionVars>>

\* What the process does of itself.
Work ==
    \/ OpenCaches \/ OpenFails \/ BeginWork \/ Dispatch \/ DispatchFails
    \/ MakeRoom \/ Evict \/ CloseContext \/ LoadKernel \/ ListKernel \/ LoadDies
    \/ Bind \/ WriteInputs \/ Launch \/ OtherReturns

Next ==
    \/ Work \/ StartApp \/ Die \/ DisturbStore \/ CtrlC \/ UseOther
    \/ CollectOther \/ Warmup
    \/ \E t \in {"prefill", "chain", "cpu"} : Request(t)

Spec == Init /\ [][Next]_vars /\ WF_vars(Work)

-----------------------------------------------------------------------------
\* Every result the program hands out is that of its own request and token,
\* computed by every layer with its own weights, whatever was evicted,
\* reloaded, overwritten in a shared buffer or interrupted before.  The one
\* exception is a chained image in a process whose first image went through
\* the host attention (EncodesRight): the keys of the layers are bound to
\* their own BOs then, and flash_attn reads shared ones nobody writes.
ResultCorrect ==
    out # NoResult => \/ out.val = <<"out", out.req, out.tok, NLayers>>
                      \/ out.by = "chain" /\ hostFirst

\* VisionRuntime.encode: "Returns (N, 64, 960) f32 RAW connector output", of
\* the images it is given, in either attn_mode.
EncodesRight ==
    out.by \in {"chain", "cpu"} => out.val = <<"out", out.req, out.tok, NLayers>>

\* Every context the program's caches hold open runs a whole binary of the
\* toolchain in use, as long as no earlier toolchain comes back: what
\* load_manifest trusted is what _load_backend loads, and neither changes
\* while the context is open.
OpenFresh == \A e \in Open : e[1] \in Dirs => bin[e[1]][e[2]] = tool

\* A call and a request come to an end: answered, interrupted, or with the
\* process; neither the load loop nor a chain of evictions runs for ever.
RequestEnds ==
    (task \notin {"idle", "down"} \/ pc # "idle") ~> (task \in {"idle", "down"} /\ pc = "idle")
=============================================================================
