------------------------------ MODULE SerialQueue ------------------------------
(***************************************************************************)
(* What the queue manager makes of payments that all share one account,    *)
(* such as the payouts of one debtor (paymentGroup.go:16, 52,              *)
(* dispather.go:9-10): a PaymentQueue that is one bounded line, served one *)
(* by one in the order in which the sends reached it.                      *)
(***************************************************************************)
EXTENDS PaymentQueue, Sequences

CONSTANT Capacity
VARIABLE line

SInit == Init /\ line = <<>>

Arrive(tx) == Put(tx) /\ Len(line) < Capacity /\ line' = Append(line, tx)
Serve(tx) ==
  /\ Start(tx) /\ inflight = {}
  /\ line # <<>> /\ tx = Head(line) /\ line' = Tail(line)

SNext ==
  \E tx \in TX : \/ Arrive(tx) \/ Serve(tx)
                 \/ (Succeed(tx) \/ Fail(tx)) /\ UNCHANGED line

SSpec == SInit /\ [][SNext]_<<vars, line>>
=============================================================================
