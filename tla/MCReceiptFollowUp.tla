-------------------------- MODULE MCReceiptFollowUp --------------------------
(***************************************************************************)
(* An instance of ReceiptFollowUp: t1 and t2 are tickets of one job sent   *)
(* twice under its idempotency key.  Either is short enough for a provider *)
(* code, but t2 has a character that none may have.  The policy of the     *)
(* first worker ends with the attempts a receipt may count, that of the    *)
(* second goes on.                                                         *)
(***************************************************************************)
EXTENDS ReceiptFollowUp

MCTickets == { "t1", "t2" }
MCJobOf ==
  [t \in MCTickets |-> [job_id |-> t, tenant_id |-> "tenant", application_id |-> "application",
                        idempotency_key |-> "key", provider |-> "expo", target |-> "device"]]
MCIdOf == [t \in MCTickets |-> [len |-> 64, clean |-> TRUE, plain |-> t = "t1"]]

Lookup(status, code, header) ==
  [arrived |-> TRUE, status |-> status, header |-> header, readable |-> TRUE, json |-> TRUE,
   code |-> code]

MCLookupAnswers ==
  { Lookup(200, None, [form |-> None, value |-> 0]),
    Lookup(503, None, [form |-> "seconds", value |-> 100000]),
    Lookup(429, None, [form |-> "date", value |-> 1500]),
    Lookup(429, "TOO_MANY_REQUESTS", [form |-> "seconds", value |-> 100]),
    Lookup(401, None, [form |-> None, value |-> 0]) }

MCVerdicts == { "ok", "DeviceNotRegistered", "MessageRateExceeded" }
MCWorkers == { "w1", "w2" }
MCPolicyOf == [w \in MCWorkers |-> NewPolicy(1000, 1500, IF w = "w1" THEN 1 ELSE 2, 9999)]
MCEntropies == { 500 }
=============================================================================
