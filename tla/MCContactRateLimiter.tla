------------------------ MODULE MCContactRateLimiter ------------------------
(***************************************************************************)
(* An instance of the contact rate limiter for TLC.                        *)
(***************************************************************************)
EXTENDS ContactRateLimiter

CONSTANTS c1, c2
=============================================================================
