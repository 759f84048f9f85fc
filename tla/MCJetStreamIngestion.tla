------------------------ MODULE MCJetStreamIngestion ------------------------
(***************************************************************************)
(* Instances of the durable push lane for TLC.                             *)
(***************************************************************************)
EXTENDS JetStreamIngestionProperties, TLC

CONSTANTS j1, j2

\* a clean envelope, one that fails two envelope checks and carries a bad job, and one
\* that passes the envelope checks with a job that breaks the contract
MCEnvelopes ==
  { {},
    { "unsupported_envelope_schema", "envelope_authentication_failed", "contract_violation" },
    { "contract_violation" } }

\* one terminal success, one terminal failure and one retryable failure
MCAnswers ==
  { "accepted", "permanent_provider_failure", "transient_provider_failure" }

\* the least that tells a terminal outcome from a retryable one
TwoAnswers == { "accepted", "transient_provider_failure" }

CleanEnvelopes == { {} }

JobSymmetry == Permutations(Jobs)
=============================================================================
