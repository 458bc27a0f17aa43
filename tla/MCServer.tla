------------------------------ MODULE MCServer ------------------------------
(* Two payments, and the environments of a deployment that meant well. *)
EXTENDS ServerLifecycle

CONSTANTS p1, p2

TwoTX == {p1, p2}
Distinct == [tx \in TwoTX |-> tx]

Unset == [required |-> TRUE, workers |-> {}, batch |-> {}, interval |-> {},
          shared |-> {}]
Deployments ==
  {Unset,
   [Unset EXCEPT !.required = FALSE],
   [Unset EXCEPT !.workers = {1}, !.batch = {1}],
   [Unset EXCEPT !.workers = {0}],
   [Unset EXCEPT !.workers = {-1}],
   [Unset EXCEPT !.batch = {0}],
   [Unset EXCEPT !.interval = {0}],
   [Unset EXCEPT !.shared = {p2}],
   [Unset EXCEPT !.shared = TwoTX]}
=============================================================================
