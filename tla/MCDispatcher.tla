----------------------------- MODULE MCDispatcher -----------------------------
(***************************************************************************)
(* Instances of Dispatcher for TLC.                                        *)
(*                                                                         *)
(* A chain a -> b -> c -> d of three payments is the smallest conflict     *)
(* graph in which two groups can arise (the outer payments) and be joined  *)
(* (the middle one), by a merge or by the re-check.  A star of payments    *)
(* that share one account can never have two groups.                       *)
(***************************************************************************)
EXTENDS Dispatcher

CONSTANTS t1, t2, t3, t4, a, b, c, d

ChainTX == {t1, t2, t3}
ChainIBAN == {a, b, c, d}
ChainDeb == [tx \in ChainTX |-> CASE tx = t1 -> a [] tx = t2 -> b [] tx = t3 -> c]
ChainCred == [tx \in ChainTX |-> CASE tx = t1 -> b [] tx = t2 -> c [] tx = t3 -> d]

(* The chain closed to a ring: a fourth payment d -> a can arrive on an account
   of a group whose worker is being sent away by a merge. *)
RingTX == {t1, t2, t3, t4}
RingDeb == [tx \in RingTX |-> IF tx = t4 THEN d ELSE ChainDeb[tx]]
RingCred == [tx \in RingTX |-> IF tx = t4 THEN a ELSE ChainCred[tx]]

(* t1 credits the hub, t2 and t3 debit it. *)
StarDeb == [tx \in ChainTX |-> CASE tx = t1 -> b [] OTHER -> a]
StarCred == [tx \in ChainTX |-> CASE tx = t1 -> a [] tx = t2 -> c [] tx = t3 -> d]
=============================================================================
