----------------------------- MODULE TokenBucket -----------------------------
(***************************************************************************)
(* What the contact registry relies on of a rate limiter: whole tokens, at *)
(* most Burst of them, one taken by every call that goes on to a provider. *)
(* Time is abstract: it adds tokens whenever it passes.                    *)
(***************************************************************************)
EXTENDS Naturals

CONSTANT Burst   \* the tokens a full bucket holds

VARIABLES
  tokens,   \* whole tokens in the bucket
  taken     \* tokens taken so far

vars == <<tokens, taken>>

Init == tokens = Burst /\ taken = 0

Take == tokens > 0 /\ tokens' = tokens - 1 /\ taken' = taken + 1

Refill == \E n \in 0..Burst : n > tokens /\ tokens' = n /\ UNCHANGED taken

Next == Take \/ Refill

Spec == Init /\ [][Next]_vars
=============================================================================
