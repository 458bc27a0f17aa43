----------------------------- MODULE PaymentQueue -----------------------------
(***************************************************************************)
(* What the queue manager makes of the payments sent to it, without        *)
(* groups, channels, merges and slots (PaymentManagerService.go:180-236,   *)
(* README.md:113, 225): it holds each until it hands it to ProcessTX, and  *)
(* hands each over at most once, at most MaxWorkers at a time.             *)
(*                                                                         *)
(* Three promises of the README are missing because the code does not keep *)
(* them: that payments of one account never run at the same time (224),    *)
(* that each is handed over in the end (122), and that the ones in the     *)
(* queue manager when the service is stopped complete (117, 249, 253).     *)
(***************************************************************************)
EXTENDS Integers, FiniteSets

CONSTANTS TX, MaxWorkers
VARIABLES queue, inflight, processed, failed

Init == queue = {} /\ inflight = {} /\ processed = {} /\ failed = {}

Put(tx) ==
  /\ tx \notin queue \cup inflight \cup processed \cup failed
  /\ queue' = queue \cup {tx}
  /\ UNCHANGED <<inflight, processed, failed>>

Start(tx) ==
  /\ tx \in queue /\ Cardinality(inflight) < MaxWorkers
  /\ queue' = queue \ {tx}
  /\ inflight' = inflight \cup {tx}
  /\ UNCHANGED <<processed, failed>>

Succeed(tx) ==
  /\ tx \in inflight
  /\ inflight' = inflight \ {tx}
  /\ processed' = processed \cup {tx}
  /\ UNCHANGED <<queue, failed>>

(* The database refuses, or the root context is cancelled. *)
Fail(tx) ==
  /\ tx \in inflight
  /\ inflight' = inflight \ {tx}
  /\ failed' = failed \cup {tx}
  /\ UNCHANGED <<queue, processed>>

Next == \E tx \in TX : Put(tx) \/ Start(tx) \/ Succeed(tx) \/ Fail(tx)

vars == <<queue, inflight, processed, failed>>
Spec == Init /\ [][Next]_vars
=============================================================================
