------------------------------- MODULE Layer -------------------------------
(***************************************************************************)
(* One transformer layer (runtime/block.go): the kernels that              *)
(* ExecuteWithGPUKV, ExecuteWithPagedKV and Execute dispatch, in their     *)
(* order, on the named scratch buffers, for every architecture, weight     *)
(* format, cache format, fusion plan and LoRA adapter.                     *)
(*                                                                         *)
(* Numbers are terms: a kernel builds the term of what it computes, so two *)
(* dispatch sequences agree exactly when they leave the same term in x.    *)
(* A buffer keeps its format; a kernel that reads another format than its  *)
(* own computes from garbage, as does a kernel given weights of another    *)
(* quantisation. Scratch is not cleared between layers, so an unwritten    *)
(* buffer holds what the previous layer left. Rounding is abstracted, the  *)
(* rows of one pass are one term, the type assertions on the backend are   *)
(* resolved as Metal resolves them, and buffers come from the pool, at     *)
(* offset 0: the bump allocator (VEXEL_SCRATCH) is off by default.         *)
(***************************************************************************)
EXTENDS Naturals, Sequences, ModelConfig

CONSTANTS Caches,     \* formats of the single GPU cache: "f32", "f16", "q8"
          Adapters,   \* is a LoRA adapter attached: a subset of BOOLEAN
          Paths,      \* "gpu", "paged", "cpupaged", "plain"
          Passes      \* forward passes of one sequence

ASSUME PassesAssumption == Passes \in Nat \ {0}

VARIABLES c,      \* the configuration of the block
          pass,   \* number of the current pass
          many,   \* does the pass carry more than one token
          pc,     \* next stage of the layer; "idle" until the weights are loaded
          buf,    \* buffer -> <<format, term>>
          kv,     \* the layer's cache: one entry per pass
          fused   \* [rope, wo, w2] : which later stage was already done

layerVars == <<c, pass, many, pc, buf, kv, fused>>

-----------------------------------------------------------------------------
(* The configuration.                                                      *)

\* useSlidingWindow: an even layer of an alternating model whose context is
\* longer than the window.
MayWindow(a) == IF a = "gemma2" THEN BOOLEAN ELSE {FALSE}
\* Attached frequencies (Llama 3 and Phi-3 rope scaling).
MayFreqs(a) == IF a \in {"llama", "phi3"} THEN BOOLEAN ELSE {FALSE}

\* The block for architecture a with weights w: the formats qkv, wo, w13 and w2,
\* and the flags wqkv, w1w3 (the combined tensor is there, and Wk, Wv or W3 are
\* views into it) and ffnNorm. Only ExecuteWithGPUKV has fused kernels; the
\* other paths are followed for one format throughout.
Plain(w) == w.qkv = w.wo /\ w.wo = w.w13 /\ w.w13 = w.w2
Config(a, w) ==
  { [arch |-> Arch[a], w |-> w, window |-> win, freqs |-> f, lora |-> l,
     path |-> p, cache |-> k, fuseMLP |-> m, fuseAdd |-> r] :
    win \in MayWindow(a), f \in MayFreqs(a), l \in Adapters,
    p \in (IF Plain(w) THEN Paths ELSE Paths \cap {"gpu"}), k \in Caches, m \in BOOLEAN, r \in BOOLEAN }
Sensible(cf) == cf.path # "gpu" => cf.cache = "f32" /\ cf.fuseMLP /\ cf.fuseAdd

-----------------------------------------------------------------------------
(* Terms, kernels and buffers.                                             *)

X(p) == <<"x", p>>
\* RMSNorm and LayerNorm; the weight names the norm.
Norm(kind, w, t) == <<"norm", kind, w, t>>
\* MatMulTransposed and the quantised kernels: t @ w^T.
Mul(w, t) == <<"mul", w, t>>
AddBias(w, t) == <<"bias", w, t>>
LoRA(w, in, t) == <<"lora", w, in, t>>
Rope(neox, freqs, p, t) == <<"rope", neox, freqs, p, t>>
Attn(q, ks, vs, cap, win) == <<"attn", q, ks, vs, cap, win>>
Gelu(t) == <<"gelu", t>>
SiLUMul(g, u) == <<"silumul", g, u>>
GELUMul(g, u) == <<"gelumul", g, u>>
Sum2(s, t) == <<"add", s, t>>
Garbage(t) == <<"garbage", t>>

\* A view into a combined tensor begins at an offset of its buffer. A kernel that
\* is not given the offset reads the rows at the buffer's start: the fused
\* kernels, but for MatMulQ4_K_FusedMLP, AddBias, and among matMulTransposed's
\* those of Q4_0, Q6_K and F32.
Honours(fmt) == fmt \in {"q4_k", "q5_k", "q5_0", "q8_0", "bf16"}
IsView(w) == (w \in {"k", "v"} /\ c.w.wqkv) \/ (w = "w3" /\ c.w.w1w3)
MulView(honoured, w, t) == IF IsView(w) /\ ~honoured THEN Garbage(Mul(w, t)) ELSE Mul(w, t)

\* A Q4_0 or Q4_K kernel decodes the weight as its own format.
MulAs(quant, kernel, w, t) ==
  IF quant = kernel THEN Mul(w, t) ELSE Garbage(Mul(w, t))

Buffers == {"x", "normOut", "q", "k", "v", "attnOut", "gate", "up", "temp",
            "q16", "k16", "v16", "attn16"}

\* What a kernel of the given format reads from a buffer.
Get(b, name, fmt) == IF b[name][1] = fmt THEN b[name][2] ELSE Garbage(b[name][2])
Put(b, name, fmt, t) == [b EXCEPT ![name] = <<fmt, t>>]
F32(b, name) == Get(b, name, "f32")
F16(b, name) == Get(b, name, "f16")
PutF32(b, name, t) == Put(b, name, "f32", t)

\* Allocation at the head of a layer: x holds the layer's input, everything
\* else what an earlier layer left there.
Fresh(p) == [n \in Buffers |-> IF n = "x" THEN <<"f32", X(p)>> ELSE <<"f32", <<"stale", n>>>>]

NotFused == [rope |-> FALSE, wo |-> FALSE, w2 |-> FALSE]

-----------------------------------------------------------------------------
(* The reference: what the layer of this architecture computes, whatever   *)
(* the fusion, the formats and the path.                                   *)

WithBias(w, t) == IF w \in c.arch.bias THEN AddBias(w, t) ELSE t
WithLoRA(w, in, t) == IF c.lora THEN LoRA(w, in, t) ELSE t
Post(w, t) == IF c.arch.post THEN Norm("rms", w, t) ELSE t
Activate(g, u) == IF c.arch.mlp = "geglu" THEN GELUMul(g, u) ELSE SiLUMul(g, u)

RefProj(w, p) ==
  LET n == Norm(c.arch.norm, "AttnNorm", X(p))
  IN WithLoRA(w, n, WithBias(w, Mul(w, n)))
RefKey(p) == Rope(c.arch.neox, c.freqs, p, RefProj("k", p))
RefAttn(p) ==
  LET t == Attn(Rope(c.arch.neox, c.freqs, p, RefProj("q", p)),
                [i \in 1..p |-> RefKey(i)], [i \in 1..p |-> RefProj("v", i)],
                c.arch.softcap, c.window)
  IN Post("PostAttnNorm", WithLoRA("o", t, WithBias("o", Mul("o", t))))
RefMLP(n) ==
  Post("PostFFNNorm",
    IF c.arch.mlp = "gelu"
    THEN WithBias("w2", Mul("w2", Gelu(WithBias("w1", Mul("w1", n)))))
    ELSE Mul("w2", Activate(Mul("w1", n), Mul("w3", n))))
Reference(p) ==
  LET x1 == Sum2(X(p), RefAttn(p))
  IN IF c.arch.parallel
     THEN Sum2(x1, RefMLP(Norm(c.arch.norm, "AttnNorm", X(p))))
     ELSE Sum2(x1, RefMLP(Norm(c.arch.norm, "FFNNorm", x1)))

-----------------------------------------------------------------------------
(* The fusion decisions of ExecuteWithGPUKV.                               *)

Decode == ~many
Q4 == {"q4_0", "q4_k"}
CanFuseAttn == Decode /\ c.arch.norm = "rms" /\ c.w.qkv \in Q4
UseFP16Path == CanFuseAttn /\ c.cache = "f16"
CanFuseWoAdd ==
  /\ UseFP16Path /\ c.w.wo \in Q4
  /\ c.fuseAdd /\ ~c.arch.parallel /\ ~c.arch.post
CanFuseAdd1Norm ==
  c.fuseAdd /\ ~c.arch.parallel /\ c.arch.mlp # "gelu" /\ c.arch.norm = "rms"
CanFuseFFN ==
  /\ c.fuseMLP /\ Decode /\ c.arch.norm = "rms"
  /\ c.arch.mlp \in {"swiglu", "swiglufused"} /\ c.w.w13 \in Q4
CanFuseW2Add == Decode /\ ~c.arch.parallel /\ ~c.arch.post /\ c.w.w2 \in Q4
WoOutput == IF c.arch.parallel THEN "up" ELSE "normOut"

Goto(next) == pc' = next
Keep(v) == UNCHANGED <<c, pass, many>> /\ UNCHANGED v

-----------------------------------------------------------------------------
(* ExecuteWithGPUKV.                                                       *)

\* Fused RMSNorm+QKV: reads x, applies no bias and no adapter.
FusedProj(w) == MulView(FALSE, w, Norm("rms", "AttnNorm", F32(buf, "x")))

\* Fused QKV+RoPE+Scatter, for models without NEOX pairing: K and V go
\* straight to the reserved rows of the cache.
FusedQKVRoPEScatter ==
  /\ pc = "attn" /\ c.path = "gpu" /\ UseFP16Path /\ ~c.arch.neox
  /\ buf' = Put(buf, "q16", "f16", Rope(FALSE, FALSE, pass, FusedProj("q")))
  /\ kv' = Append(kv, [k |-> <<"f16", Rope(FALSE, FALSE, pass, FusedProj("k"))>>,
                       v |-> <<"f16", FusedProj("v")>>])
  /\ fused' = [fused EXCEPT !.rope = TRUE]
  /\ Goto("rope") /\ Keep(<<>>)

FusedQKV_F16 ==
  /\ pc = "attn" /\ c.path = "gpu" /\ UseFP16Path /\ c.arch.neox
  /\ buf' = [buf EXCEPT !["q16"] = <<"f16", FusedProj("q")>>,
                        !["k16"] = <<"f16", FusedProj("k")>>,
                        !["v16"] = <<"f16", FusedProj("v")>>]
  /\ Goto("rope") /\ Keep(<<kv, fused>>)

FusedQKV_F32 ==
  /\ pc = "attn" /\ c.path = "gpu" /\ CanFuseAttn /\ ~UseFP16Path /\ c.w.qkv = "q4_0"
  /\ buf' = [buf EXCEPT !["q"] = <<"f32", FusedProj("q")>>,
                        !["k"] = <<"f32", FusedProj("k")>>,
                        !["v"] = <<"f32", FusedProj("v")>>]
  /\ Goto("rope") /\ Keep(<<kv, fused>>)

\* applyLoRA on one projection: out += scale * B @ (A @ in). Only the branch
\* with separate weights of ExecuteWithGPUKV calls it.
ApplyLoRA(w, in, t) ==
  IF c.lora /\ c.path = "gpu" /\ ~c.w.wqkv THEN LoRA(w, in, t) ELSE t

\* Separate kernels. With a combined Wqkv on the GPU path the product goes to
\* gate and is split into Q, K and V.
StandardQKV ==
  /\ pc = "attn"
  /\ ~(c.path = "gpu" /\ (UseFP16Path \/ (CanFuseAttn /\ c.w.qkv = "q4_0")))
  /\ LET n == Norm(c.arch.norm, "AttnNorm", F32(buf, "x"))
         whole == c.w.wqkv /\ c.path = "gpu"
         biased(w, t) == IF w \in c.arch.bias /\ IsView(w) /\ ~whole
                         THEN Garbage(AddBias(w, t)) ELSE WithBias(w, t)
         proj(w) == ApplyLoRA(w, n, biased(w, MulView(whole \/ Honours(c.w.qkv), w, n)))
         b == [buf EXCEPT !["normOut"] = <<"f32", n>>, !["q"] = <<"f32", proj("q")>>,
                          !["k"] = <<"f32", proj("k")>>, !["v"] = <<"f32", proj("v")>>]
     IN buf' = IF whole THEN PutF32(b, "gate", <<"qkv", n>>) ELSE b
  /\ Goto("rope") /\ Keep(<<kv, fused>>)

\* RoPE (RoPEF16 has no frequency table), then the append to the cache in the
\* cache's format. FP16 and Q8_0 rows are converted from the FP32 buffers.
RoPE ==
  /\ pc = "rope" /\ ~fused.rope
  /\ LET turn(fmt, qn, kn, freqs) ==
           [buf EXCEPT ![qn] = <<fmt, Rope(c.arch.neox, freqs, pass, Get(buf, qn, fmt))>>,
                       ![kn] = <<fmt, Rope(c.arch.neox, freqs, pass, Get(buf, kn, fmt))>>]
     IN buf' = IF c.path = "gpu" /\ UseFP16Path
               THEN turn("f16", "q16", "k16", FALSE)
               ELSE turn("f32", "q", "k", c.freqs)
  /\ Goto("kv") /\ Keep(<<kv, fused>>)

RoPEDone ==
  /\ pc = "rope" /\ fused.rope
  /\ Goto("sdpa") /\ Keep(<<buf, kv, fused>>)

AppendKV ==
  /\ pc = "kv" /\ c.path = "gpu"
  /\ LET conv == [buf EXCEPT !["k16"] = <<"f16", F32(buf, "k")>>,
                             !["v16"] = <<"f16", F32(buf, "v")>>]
         b == IF c.cache = "f16" /\ ~UseFP16Path THEN conv ELSE buf
         row == CASE c.cache = "f16" -> [k |-> b["k16"], v |-> b["v16"]]
                  [] c.cache = "q8" -> [k |-> <<"q8", F32(b, "k")>>, v |-> <<"q8", F32(b, "v")>>]
                  [] OTHER -> [k |-> b["k"], v |-> b["v"]]
     IN buf' = b /\ kv' = Append(kv, row)
  /\ Goto("sdpa") /\ Keep(<<fused>>)

\* K and V as a kernel of the given format reads them from the cache.
Cached(part, fmt) ==
  [i \in 1..Len(kv) |-> LET r == kv[i][part]
                        IN IF r[1] = fmt THEN r[2] ELSE Garbage(r[2])]
AttnCache(q, fmt, cap, win) == Attn(q, Cached("k", fmt), Cached("v", fmt), cap, win)
\* SDPAPrefill: the pass's own keys and values, still in scratch.
AttnOwn(cap) == Attn(F32(buf, "q"), <<F32(buf, "k")>>, <<F32(buf, "v")>>, cap, FALSE)

\* The FP16 kernels and the Q8_0 kernel take neither a window nor, but for
\* SDPAF16SoftCap, a soft cap. For the F32 cache the layer passes K and V offset
\* to the window's first row, but Metal's SDPA, SDPAOffset and SDPASoftCap take
\* no offset of K and V: they read the oldest rows, as many as the window has.
SDPADecode ==
  /\ pc = "sdpa" /\ c.path = "gpu" /\ Decode
  /\ buf' = CASE UseFP16Path ->
                   Put(buf, "attn16", "f16", AttnCache(F16(buf, "q16"), "f16", FALSE, FALSE))
              [] c.cache = "f16" /\ ~UseFP16Path ->
                   LET t == AttnCache(F32(buf, "q"), "f16", c.arch.softcap, FALSE)
                   IN [buf EXCEPT !["q16"] = <<"f16", F32(buf, "q")>>,
                                  !["attn16"] = <<"f16", t>>, !["attnOut"] = <<"f32", t>>]
              [] c.cache = "q8" ->
                   PutF32(buf, "attnOut", AttnCache(F32(buf, "q"), "q8", FALSE, FALSE))
              [] c.cache = "f32" ->
                   LET t == AttnCache(F32(buf, "q"), "f32", c.arch.softcap, c.window)
                   IN PutF32(buf, "attnOut", IF c.window THEN Garbage(t) ELSE t)
  /\ Goto("wo") /\ Keep(<<kv, fused>>)

SDPAPrefill ==
  /\ pc = "sdpa" /\ c.path = "gpu" /\ many
  /\ buf' = PutF32(buf, "attnOut", AttnOwn(c.arch.softcap))
  /\ Goto("wo") /\ Keep(<<kv, fused>>)

\* Wo, the adapter's O matrices and the post-attention norm.
OutputProjection ==
  /\ pc = "wo" /\ c.path = "gpu"
  /\ LET f16in == UseFP16Path /\ c.w.wo \in Q4
         b1 == CASE CanFuseWoAdd ->
                      PutF32(buf, "x", Sum2(F32(buf, "x"), Mul("o", F16(buf, "attn16"))))
                 [] f16in /\ ~CanFuseWoAdd ->
                      PutF32(buf, WoOutput, Mul("o", F16(buf, "attn16")))
                 [] ~f16in ->
                      PutF32(buf, WoOutput, WithBias("o", Mul("o", F32(buf, "attnOut"))))
         b2 == IF c.lora
               THEN PutF32(b1, WoOutput, LoRA("o", F32(b1, "attnOut"), F32(b1, WoOutput)))
               ELSE b1
     IN buf' = PutF32(b2, WoOutput, Post("PostAttnNorm", F32(b2, WoOutput)))
  /\ fused' = [fused EXCEPT !.wo = CanFuseWoAdd]
  /\ Goto("add1") /\ Keep(<<kv>>)

\* Add1, unless it is left to AddRMSNorm, was done by Wo, or waits for the end
\* of a parallel block.
Add1 ==
  /\ pc = "add1"
  /\ buf' = IF c.arch.parallel \/ CanFuseAdd1Norm \/ fused.wo THEN buf
            ELSE PutF32(buf, "x", Sum2(F32(buf, "x"), F32(buf, "normOut")))
  /\ Goto("mlp") /\ Keep(<<kv, fused>>)

\* Norm of the FFN and the residual it may still have to add: AddRMSNorm does
\* x += normOut, normOut = RMSNorm(x); RMSNorm2 only the second.
FFNNormed(b) ==
  LET x1 == IF CanFuseAdd1Norm THEN Sum2(F32(b, "x"), F32(b, "normOut")) ELSE F32(b, "x")
  IN [b EXCEPT !["x"] = <<"f32", x1>>, !["normOut"] = <<"f32", Norm(c.arch.norm, "FFNNorm", x1)>>]

Gate(honoured, n) == Activate(Mul("w1", n), MulView(honoured, "w3", n))

\* GELU MLP; a parallel block reuses the norm of the attention, and without
\* an FFN norm W1 reads what Wo left in normOut.
MLPGelu ==
  /\ pc = "mlp" /\ c.path = "gpu" /\ c.arch.mlp = "gelu"
  /\ LET b == IF c.arch.parallel \/ ~c.w.ffnNorm THEN buf
              ELSE PutF32(buf, "normOut", Norm(c.arch.norm, "FFNNorm", F32(buf, "x")))
         h == Gelu(WithBias("w1", Mul("w1", F32(b, "normOut"))))
     IN buf' = [b EXCEPT !["gate"] = <<"f32", h>>,
                         !["normOut"] = <<"f32", WithBias("w2", Mul("w2", h))>>]
  /\ Goto("final") /\ Keep(<<kv, fused>>)

\* The residual is already in x: the MLP kernels normalise x themselves, and
\* with Q4_K throughout W2 adds its product to x as well.
MLPAfterWoAdd ==
  /\ pc = "mlp" /\ c.path = "gpu" /\ CanFuseFFN /\ fused.wo
  /\ LET g == Gate(FALSE, Norm("rms", "FFNNorm", F32(buf, "x")))
         deep == c.w.w13 = "q4_k" /\ c.w.w2 = "q4_k"
     IN /\ buf' = IF deep THEN PutF32(buf, "x", Sum2(F32(buf, "x"), Mul("w2", g)))
                  ELSE PutF32(buf, "gate", g)
        /\ fused' = [fused EXCEPT !.w2 = deep]
  /\ Goto("w2") /\ Keep(<<kv>>)

\* FusedAddRMSNormMLP, then W2+Add2+Residual: x = x + normOut + gate @ W2^T,
\* always with the Q4_0 kernel.
MLPDeferredAdd ==
  /\ pc = "mlp" /\ c.path = "gpu" /\ CanFuseFFN /\ ~fused.wo /\ CanFuseAdd1Norm
  /\ c.w.w13 = "q4_0"
  /\ LET x1 == Sum2(F32(buf, "x"), F32(buf, "normOut"))
         g == Gate(FALSE, Norm("rms", "FFNNorm", x1))
     IN buf' = [buf EXCEPT !["gate"] = <<"f32", g>>,
                           !["x"] = <<"f32", Sum2(x1, MulAs(c.w.w2, "q4_0", "w2", g))>>]
  /\ fused' = [fused EXCEPT !.w2 = TRUE]
  /\ Goto("w2") /\ Keep(<<kv>>)

\* FusedMLP, or W1W3 in one product for a prompt, or W1, W3 and the activation
\* one by one.
MLPGated ==
  /\ pc = "mlp" /\ c.path = "gpu" /\ c.arch.mlp # "gelu"
  /\ ~(CanFuseFFN /\ (fused.wo \/ (CanFuseAdd1Norm /\ c.w.w13 = "q4_0")))
  /\ LET b == FFNNormed(buf)
         n == F32(b, "normOut")
         h == (many /\ c.w.w1w3) \/ Honours(c.w.w13)
         g == PutF32(b, "gate", Gate(h, n))
     IN buf' = IF CanFuseFFN THEN g ELSE PutF32(g, "up", MulView(h, "w3", n))
  /\ Goto("w2") /\ Keep(<<kv, fused>>)

\* W2, fused with the last residual add where the formats allow.
W2 ==
  /\ pc = "w2"
  /\ IF fused.w2 THEN UNCHANGED <<buf, fused>>
     ELSE LET t == Mul("w2", F32(buf, "gate"))
          IN /\ buf' = IF CanFuseW2Add THEN PutF32(buf, "x", Sum2(F32(buf, "x"), t))
                       ELSE PutF32(buf, "normOut", t)
             /\ fused' = [fused EXCEPT !.w2 = CanFuseW2Add]
  /\ Goto("final") /\ Keep(<<kv>>)

\* Post-FFN norm and the last residual: both terms at once in a parallel block.
Final ==
  /\ pc = "final"
  /\ LET m == Post("PostFFNNorm", F32(buf, "normOut"))
         x1 == IF c.arch.parallel THEN Sum2(F32(buf, "x"), F32(buf, "up")) ELSE F32(buf, "x")
     IN buf' = IF fused.w2 THEN PutF32(buf, "normOut", m)
               ELSE [buf EXCEPT !["normOut"] = <<"f32", m>>, !["x"] = <<"f32", Sum2(x1, m)>>]
  /\ Goto("done") /\ Keep(<<kv, fused>>)

-----------------------------------------------------------------------------
(* ExecuteWithPagedKV with a GPU pool or with the CPU cache, and Execute.  *)

\* StoreKV in the pool or StoreKVBatch in the CPU cache; Execute keeps none.
StorePaged ==
  /\ pc = "kv" /\ c.path # "gpu"
  /\ kv' = IF c.path = "plain" THEN kv ELSE Append(kv, [k |-> buf["k"], v |-> buf["v"]])
  /\ Goto("sdpa") /\ Keep(<<buf, fused>>)

\* Paged SDPA has no window and no soft cap. The CPU cache hands over the rows
\* of the window; for a prompt longer than the window SDPAPrefill then reads
\* more rows than it was given.
AttendPaged ==
  /\ pc = "sdpa" /\ c.path # "gpu"
  /\ LET own == AttnOwn(c.arch.softcap)
         t == CASE c.path = "paged" /\ Decode -> AttnCache(F32(buf, "q"), "f32", FALSE, FALSE)
                [] c.path = "cpupaged" /\ Decode ->
                     AttnCache(F32(buf, "q"), "f32", c.arch.softcap, c.window)
                [] c.path = "cpupaged" /\ many /\ c.window -> Garbage(own)
                [] OTHER -> own
     IN buf' = PutF32(buf, "attnOut", t)
  /\ Goto("wo") /\ Keep(<<kv, fused>>)

\* Wo, post norm, Add1, FFN norm, MLP and W2, all with separate kernels.
OutputAndMLP ==
  /\ pc = "wo" /\ c.path # "gpu"
  /\ LET o == Post("PostAttnNorm", WithBias("o", Mul("o", F32(buf, "attnOut"))))
         b == PutF32(buf, WoOutput, o)
         x1 == IF c.arch.parallel THEN F32(b, "x") ELSE Sum2(F32(b, "x"), o)
         n == IF c.arch.parallel \/ ~c.w.ffnNorm THEN F32(b, "normOut")
              ELSE Norm(c.arch.norm, "FFNNorm", x1)
         m == IF c.arch.mlp = "gelu"
              THEN WithBias("w2", Mul("w2", Gelu(WithBias("w1", Mul("w1", n)))))
              ELSE Mul("w2", Gate(Honours(c.w.w13), n))
     IN buf' = [b EXCEPT !["x"] = <<"f32", x1>>, !["normOut"] = <<"f32", m>>]
  /\ Goto("final") /\ Keep(<<kv, fused>>)

-----------------------------------------------------------------------------

\* The next token of the sequence goes through the same layer.
NextPass ==
  /\ pc = "done" /\ pass < Passes
  /\ pass' = pass + 1 /\ many' = FALSE /\ pc' = "attn"
  /\ buf' = Fresh(pass + 1) /\ fused' = NotFused
  /\ UNCHANGED <<c, kv>>

LayerInit ==
  /\ c = <<>> /\ pass = 0 /\ many = FALSE /\ pc = "idle"
  /\ buf = Fresh(0) /\ kv = <<>> /\ fused = NotFused

\* The first pass carries the prompt, of one token or more.
Start(a, w) ==
  /\ pc = "idle"
  /\ c' \in {cf \in Config(a, w) : Sensible(cf)}
  /\ pass' = 1 /\ many' \in BOOLEAN /\ pc' = "attn"
  /\ buf' = Fresh(1) /\ UNCHANGED <<kv, fused>>

LayerNext ==
  \/ FusedQKVRoPEScatter \/ FusedQKV_F16 \/ FusedQKV_F32 \/ StandardQKV
  \/ RoPE \/ RoPEDone \/ AppendKV \/ SDPADecode \/ SDPAPrefill
  \/ OutputProjection \/ Add1
  \/ MLPGelu \/ MLPAfterWoAdd \/ MLPDeferredAdd \/ MLPGated \/ W2 \/ Final
  \/ StorePaged \/ AttendPaged \/ OutputAndMLP \/ NextPass

-----------------------------------------------------------------------------
(* Properties.                                                             *)

\* The fused projections have no operand for a bias, an adapter or rope
\* frequencies, and a combined Wqkv leaves no place for an adapter.
ProjectionDiffers ==
  \/ (UseFP16Path \/ (CanFuseAttn /\ c.w.qkv = "q4_0")) /\ (c.arch.bias # {} \/ c.lora)
  \/ c.w.wqkv /\ c.lora
  \/ UseFP16Path /\ c.freqs

\* The attention kernel lacks a feature of the model; none has the window: a
\* prompt attends to all of itself, and a decode pass to all rows or the oldest.
AttentionDiffers ==
  \/ c.window
  \/ c.arch.softcap /\ Decode /\ (UseFP16Path \/ c.cache = "q8")

\* Wo of another format reads attnOut, which the FP16 path did not write.
WoReadsStale == UseFP16Path /\ c.w.wo \notin Q4

\* The residual is in x but the MLP path taken adds normOut again.
ResidualTwice == CanFuseWoAdd /\ ~CanFuseFFN

\* W2 in another format than Q4_0 is given to the Q4_0 kernel.
W2Misread ==
  CanFuseFFN /\ ~CanFuseWoAdd /\ CanFuseAdd1Norm /\ c.w.w13 = "q4_0" /\ c.w.w2 # "q4_0"

\* K, V or W3 is a view, and the kernel reads from the start of its buffer.
OffsetIgnored ==
  \/ c.w.wqkv /\ (UseFP16Path \/ (CanFuseAttn /\ c.w.qkv = "q4_0"))
  \/ c.w.w1w3 /\ Decode /\ ((CanFuseFFN /\ CanFuseWoAdd) \/ ~Honours(c.w.w13))

\* The paged and plain paths.
PagedDiffers ==
  \/ c.lora
  \/ c.w.wqkv /\ (~Honours(c.w.qkv) \/ c.arch.bias # {})
  \/ c.w.w1w3 /\ ~Honours(c.w.w13)
  \/ c.path = "paged" /\ (c.window \/ (c.arch.softcap /\ Decode))
  \/ c.path = "cpupaged" /\ c.window /\ many
  \/ c.path = "plain" /\ (c.window \/ pass > 1)

\* A serial GELU block whose FFN norm was not loaded.
NormMissing == ~c.arch.parallel /\ ~c.w.ffnNorm

Differs ==
  \/ NormMissing
  \/ IF c.path = "gpu"
     THEN ProjectionDiffers \/ AttentionDiffers \/ WoReadsStale \/ ResidualTwice \/ W2Misread \/ OffsetIgnored
     ELSE PagedDiffers



=============================================================================
