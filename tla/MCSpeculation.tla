---------------------------- MODULE MCSpeculation ----------------------------
(* A small instance of Speculation: three tokens, one of them a stop token,*)
(* a target model whose choice depends on the whole context.               *)
EXTENDS Speculation

MCPrompts == {<<0>>, <<1, 0>>}

\* The greedy choice: it depends on the length and on two of the tokens.
MCTarget(ctx) ==
  LET n == Len(ctx)
  IN  (ctx[n] + ctx[(n + 1) \div 2] + n) % 3

=============================================================================
