-------------------------- MODULE MCContactIngestion --------------------------
(***************************************************************************)
(* An instance of the durable contact lane for TLC.                        *)
(***************************************************************************)
EXTENDS ContactIngestion

CONSTANTS j1, p1, p2

\* a clean envelope and one that fails a check
MCEnvelopes == { {}, { "envelope_authentication_failed" } }

MCAnswers == { "accepted", "throttled", "permanent_provider_failure" }

MCBurst == [p \in Providers |-> 1]
=============================================================================
