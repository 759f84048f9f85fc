---------------------------- MODULE ReceiptLedger ----------------------------
(***************************************************************************)
(* What the ledger of src/src/receipt.rs promises, whoever writes to it:   *)
(* under a key there is at most one receipt, a well-formed one, and the    *)
(* first stays for ever.                                                   *)
(***************************************************************************)
CONSTANTS Keys, Receipts, NoReceipt

VARIABLE ledger

Init == ledger = [key \in Keys |-> NoReceipt]

Record(key) ==
  /\ ledger[key] = NoReceipt
  /\ ledger'[key] \in Receipts
  /\ ledger' = [ledger EXCEPT ![key] = ledger'[key]]

Next == \E key \in Keys : Record(key)

Spec == Init /\ [][Next]_ledger
=============================================================================
