---------------------------- MODULE AtomicCommit ----------------------------
(***************************************************************************)
(* What COMMIT and ROLLBACK promise, whatever crashes in between: every    *)
(* transaction gets one outcome, the outcome never changes, and what the   *)
(* client is told is the outcome.                                          *)
(***************************************************************************)
CONSTANT Txn

VARIABLES
    outcome,  \* of each transaction: "none" as long as it is open
    told      \* the answer the client got

Init ==
    /\ outcome = [t \in Txn |-> "none"]
    /\ told = [t \in Txn |-> "none"]

Outcome == {"none", "commit", "abort"}

(* transactions are decided and clients are told *)
Next ==
    /\ outcome' \in [Txn -> Outcome]
    /\ told' \in [Txn -> Outcome]
    /\ \A t \in Txn :
         /\ outcome[t] # "none" => outcome'[t] = outcome[t]
         /\ told[t] # "none" => told'[t] = told[t]
         /\ told'[t] \in {told[t], outcome'[t]}

Spec == Init /\ [][Next]_<<outcome, told>>
=============================================================================
