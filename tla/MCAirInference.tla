--------------------------- MODULE MCAirInference ---------------------------
(***************************************************************************)
(* TLC instance of AirInference: both programs, one or two layers, a       *)
(* device with room for few contexts.                                      *)
(***************************************************************************)
EXTENDS AirInference

MCKernels == {"rms_gemms_rope", "flash_attn", "o_ffn",
              "rms_gemv_rope", "o_gemv_ffn", "lm_head_gemv",
              "vit_ln_qkv", "vit_o_ffn", "layer_norm", "gemm_connector"}
MCNames == MCKernels \union {"side"}

MCLists == [d \in {"prefill", "decode", "vision"} |->
    CASE d = "prefill" -> <<"rms_gemms_rope", "o_ffn", "flash_attn">>
      [] d = "decode" -> <<"rms_gemv_rope", "o_gemv_ffn", "lm_head_gemv">>
      [] d = "vision" -> <<"vit_ln_qkv", "vit_o_ffn", "flash_attn", "layer_norm", "gemm_connector">>]

MCDeletable == {<<"vision", "flash_attn">>, <<"decode", "lm_head_gemv">>}

MCPlans ==
    {[mode |-> m, dirs |-> <<"prefill", "decode">>, kernels |-> MCLists] : m \in {"compile_only", "run_only"}}
    \union {[mode |-> m, dirs |-> <<"vision">>, kernels |-> MCLists] : m \in {"compile_only", "ensure"}}
=============================================================================
