--------------------------- MODULE MCCredentialCache ---------------------------
(***************************************************************************)
(* An instance of the credential caches for TLC.                           *)
(***************************************************************************)
EXTENDS CredentialCache, TLC

CONSTANTS s1, s2, s3

Symmetry == Permutations(Senders)
=============================================================================
