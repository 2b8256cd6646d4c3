----------------------------- MODULE TokenStream -----------------------------
(***************************************************************************)
(* What a Sequence's token channel promises to the handler that ranges     *)
(* over it (scheduler/doc.go: "The caller reads tokens from TokenChan      *)
(* until the channel closes").  Tokens are numbered as they are made; the  *)
(* producer never blocks, so a token may be lost, but tokens arrive in the *)
(* order they were made, the stream is closed once, by a last token that   *)
(* is not delivered, and nothing is made after that.                       *)
(***************************************************************************)
EXTENDS Naturals, Sequences

CONSTANT Requests

VARIABLES
  made,    \* number of tokens made
  buf,     \* tokens on their way to the consumer
  closed,  \* the stream has ended
  got      \* tokens the consumer has taken

vars == <<made, buf, closed, got>>

Init ==
  /\ made = [r \in Requests |-> 0]
  /\ buf = [r \in Requests |-> <<>>]
  /\ closed = [r \in Requests |-> FALSE]
  /\ got = [r \in Requests |-> <<>>]

\* The producer makes a token, and offers or loses it.
Produce(r) ==
  /\ ~closed[r]
  /\ made' = [made EXCEPT ![r] = @ + 1]
  /\ \/ buf' = [buf EXCEPT ![r] = Append(@, made[r] + 1)]
     \/ UNCHANGED buf
  /\ UNCHANGED <<closed, got>>

\* The producer makes the last token and ends the stream.
Finish(r) ==
  /\ ~closed[r]
  /\ made' = [made EXCEPT ![r] = @ + 1]
  /\ closed' = [closed EXCEPT ![r] = TRUE]
  /\ UNCHANGED <<buf, got>>

\* The consumer takes the oldest token.
Take(r) ==
  /\ buf[r] # <<>>
  /\ got' = [got EXCEPT ![r] = Append(@, Head(buf[r]))]
  /\ buf' = [buf EXCEPT ![r] = Tail(@)]
  /\ UNCHANGED <<made, closed>>

Next == \E r \in Requests : Produce(r) \/ Finish(r) \/ Take(r)

Spec == Init /\ [][Next]_vars
=============================================================================
