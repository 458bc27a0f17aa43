------------------------------ MODULE MCPipeline ------------------------------
(* Small instances of PaymentPipeline. *)
EXTENDS PaymentPipeline
CONSTANTS p1, p2

OneTX == {p1}
TwoTX == {p1, p2}

(* two instructions; or one, sent a second time by its client *)
Distinct == [tx \in TX |-> tx]
Repeated == [tx \in TX |-> p1]
=============================================================================
