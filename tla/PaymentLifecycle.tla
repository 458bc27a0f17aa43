--------------------------- MODULE PaymentLifecycle ---------------------------
(***************************************************************************)
(* What the payment service promises of every payment (README.md:114,      *)
(* 122, 140), without servers, queues, tables or topics: it is accepted    *)
(* once per end-to-end identification, put into processing, the processing *)
(* system is asked, and only a result that system gave becomes its status. *)
(*                                                                         *)
(* Two promises of the README are missing because the service does not     *)
(* keep them: a result may replace an earlier result, and nothing makes a  *)
(* payment reach a result.                                                 *)
(***************************************************************************)
CONSTANTS TX, Ete
VARIABLES status, asked, answers

Result == {"completed", "failed"}

Init ==
  /\ status = [tx \in TX |-> "absent"]
  /\ asked = {} /\ answers = {}

Accept(tx) ==
  /\ status[tx] = "absent"
  /\ \A u \in TX : status[u] # "absent" => Ete[u] # Ete[tx]
  /\ status' = [status EXCEPT ![tx] = "pending"]
  /\ UNCHANGED <<asked, answers>>

Begin(tx) ==
  /\ status[tx] = "pending"
  /\ status' = [status EXCEPT ![tx] = "processing"]
  /\ UNCHANGED <<asked, answers>>

Ask(tx) ==
  /\ status[tx] \notin {"absent", "pending"}
  /\ asked' = asked \cup {tx}
  /\ UNCHANGED <<status, answers>>

Answer(tx, result) ==
  /\ tx \in asked
  /\ answers' = answers \cup {<<tx, result>>}
  /\ UNCHANGED <<status, asked>>

Settle(tx, result) ==
  /\ <<tx, result>> \in answers
  /\ status' = [status EXCEPT ![tx] = result]
  /\ UNCHANGED <<asked, answers>>

Next ==
  \E tx \in TX :
    \/ Accept(tx) \/ Begin(tx) \/ Ask(tx)
    \/ \E result \in Result : Answer(tx, result) \/ Settle(tx, result)

Spec == Init /\ [][Next]_<<status, asked, answers>>
=============================================================================
