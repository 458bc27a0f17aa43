----------------------------- MODULE PaymentStore -----------------------------
(***************************************************************************)
(* The tables of the payment service that say what is still to be done for *)
(* a payment, and the SQL transactions on them (adapters/secondary/        *)
(* postgres, adapters/secondary/outbox, migrations).  Each operator is one *)
(* transaction: Postgres commits it as a whole or not at all, and the row  *)
(* locks make two transactions on one payment take turns.                  *)
(*                                                                         *)
(* A row of tx_history that does not exist is a status "absent".  Parties, *)
(* accounts and amounts are left out: nothing below depends on them.       *)
(***************************************************************************)
EXTENDS Naturals, FiniteSets

CONSTANTS
  TX,        \* transaction identifiers, one for every request of a client
  Ete        \* the end-to-end identification the client gave

VARIABLES
  status,    \* tx_history.status
  pending,   \* rows of the table pending
  outbox,    \* rows of the table outbox
  sentAt     \* rows of outbox whose sent_at is set

storeVars == <<status, pending, outbox, sentAt>>

StoreInit ==
  /\ status = [tx \in TX |-> "absent"]
  /\ pending = {} /\ outbox = {} /\ sentAt = {}

Recorded(tx) == status[tx] # "absent"

(* uq_tx_end_to_end_id *)
EteTaken(tx) == \E u \in TX \ {tx} : Recorded(u) /\ Ete[u] = Ete[tx]

(* mutant: the payment is not put into pending *)
InsertHistoryOnly(tx) ==
  /\ ~Recorded(tx) /\ ~EteTaken(tx)
  /\ status' = [status EXCEPT ![tx] = "pending"]
  /\ UNCHANGED <<pending, outbox, sentAt>>
InsertTX(tx) ==
  /\ ~Recorded(tx) /\ ~EteTaken(tx)
  /\ status' = [status EXCEPT ![tx] = "pending"]
  /\ pending' = pending \cup {tx}
  /\ UNCHANGED <<outbox, sentAt>>

LoadPendingPayments == {tx \in pending : Recorded(tx)}

(* The insert into outbox fails on its primary key if the payment was
   processed before: the other two statements are rolled back with it. *)
(* mutant: INSERT ... ON CONFLICT DO NOTHING *)
ProcessUpsert(tx) ==
  /\ status' = [status EXCEPT ![tx] = IF Recorded(tx) THEN "processing" ELSE @]
  /\ pending' = pending \ {tx}
  /\ outbox' = outbox \cup {tx}
  /\ UNCHANGED sentAt
(* mutant: the payment is completed before it is executed *)
ProcessCompletes(tx) ==
  /\ tx \notin outbox
  /\ status' = [status EXCEPT ![tx] = IF Recorded(tx) THEN "completed" ELSE @]
  /\ pending' = pending \ {tx}
  /\ outbox' = outbox \cup {tx}
  /\ UNCHANGED sentAt
ProcessTX(tx) ==
  IF tx \in outbox THEN UNCHANGED storeVars
  ELSE /\ status' = [status EXCEPT ![tx] = IF Recorded(tx) THEN "processing" ELSE @]
       /\ pending' = pending \ {tx}
       /\ outbox' = outbox \cup {tx}
       /\ UNCHANGED sentAt

(* ORDER BY created_at is left open; the row locks of FOR UPDATE SKIP LOCKED
   end with the statement, so they keep nobody out afterwards. *)
(* mutant: without WHERE sent_at IS NULL *)
AllRows == outbox
Unsent == outbox \ sentAt
FetchUnsent(limit) ==
  {S \in SUBSET Unsent :
     Cardinality(S) = IF Cardinality(Unsent) < limit THEN Cardinality(Unsent)
                                                     ELSE limit}

MarkSent(ids) ==
  /\ sentAt' = sentAt \cup (ids \cap outbox)
  /\ UNCHANGED <<status, pending, outbox>>

(* Unconditional: whatever the status was.  No row: an error. *)
PersistProcessResult(tx, result) ==
  /\ Recorded(tx)
  /\ status' = [status EXCEPT ![tx] = result]
  /\ UNCHANGED <<pending, outbox, sentAt>>

=============================================================================
