---------------------------- MODULE DispatcherOrder ----------------------------
(***************************************************************************)
(* Dispatcher with a history of the order in which calls of add follow     *)
(* each other: add gives up Mu before it sends, so what arrives first in a *)
(* channel is not decided by who was first under Mu.                       *)
(***************************************************************************)
EXTENDS Dispatcher

VARIABLE earlier   \* pairs of payments: the first was accepted before the
                   \* call for the second took Mu

ovars == <<vars, earlier>>

Called(tx) == pc[tx] = "lock" /\ pc'[tx] # "lock"

OInit == Init /\ earlier = {}
ONext ==
  /\ Next
  /\ earlier' = earlier \cup
       {p \in TX \X TX : pc[p[1]] = "accepted" /\ Called(p[2])}
OSpec == OInit /\ [][ONext]_ovars /\ Fairness

Handed(tx) == fate[tx] \in {"processed", "failed"} \/ \E g \in TX : hand[g] = tx

(* A payment that was accepted before another one on the same account was even
   routed is handed to ProcessTX before it, through connections, re-checks and
   shutdown (paymentGroup.go:16, PaymentManagerService.go:117-203), unless its
   group was merged away or the shared account was taken out of it. *)
OvertakenOnlyInMerge ==
  \A p \in earlier :
    LET shared == Accounts(p[1]) \cap Accounts(p[2])
    IN  shared # {} /\ Handed(p[2]) =>
          \/ Handed(p[1])
          \/ merging[target[p[1]]]
          \/ shared \subseteq stolen
=============================================================================
