----------------------------- MODULE PaymentRecord -----------------------------
(***************************************************************************)
(* One payment's record through the whole service: the request becomes     *)
(* rows (AccountRegistry), an order in memory, an event in outbox; after a *)
(* crash the order is made anew from the rows; queries read the rows.      *)
(*                                                                         *)
(* The queue manager and the topics are left out: an order in memory is    *)
(* executed or lost, and a result comes for what is in outbox.  Orders     *)
(* executed late by a dead server are in PaymentPipeline.                  *)
(***************************************************************************)
EXTENDS AccountRegistry

CONSTANTS
  Followed,   \* bound: the payments that are followed beyond their insert
  Breaking,   \* bound: the calls whose statements may fail while the server lives
  After       \* bound: for each call, those that are over when its request comes

ASSUME FollowedAssumption ==
  Followed \cup Breaking \subseteq TX /\ After \in [TX -> SUBSET TX]

VARIABLES
  server,    \* down, or serving
  mine,      \* calls of InsertTX of the live server
  code,      \* the HTTP status the client of every payment got, 0 for none yet
  memory,    \* the entity the live server holds of every payment, or Nil
  status,    \* tx_history.status
  outbox     \* the payload of every payment's event, or Nil

rvars == <<vars, server, mine, code, memory, status, outbox>>

RInit ==
  /\ Init
  /\ server = "serving" /\ mine = {}
  /\ code = [tx \in TX |-> 0]
  /\ memory = [tx \in TX |-> Nil]
  /\ status = [tx \in TX |-> "absent"]
  /\ outbox = [tx \in TX |-> Nil]

Serving == server = "serving"
Answer(tx, c) == code[tx] = 0 /\ code' = [code EXCEPT ![tx] = c]

-----------------------------------------------------------------------------
(* Handler.CreatePayment and PaymentManagerService.PaymentCMD *)

Arrives(tx) == Serving /\ \A u \in After[tx] : outcome[u] # "none"

(* 400 if the JSON cannot be bound; a field that does not pass is a 500. *)
RefuseRequest(tx) ==
  /\ Arrives(tx) /\ at[tx] = 0 /\ ~Valid(tx)
  /\ Answer(tx, IF Bound(Request(tx)) THEN 500 ELSE 400)
  /\ UNCHANGED <<vars, server, mine, memory, status, outbox>>

CallInsert(tx) ==
  /\ Arrives(tx) /\ Begin(tx)
  /\ mine' = mine \cup {tx}
  /\ UNCHANGED <<server, code, memory, status, outbox>>

(* The statements of InsertTX; any of them may fail instead. *)
Statement(tx) ==
  /\ tx \in mine
  /\ Insert(tx) \/ DoNothing(tx) \/ Refused(tx) \/ Unfit(tx) \/ Aborted(tx)
  /\ UNCHANGED <<server, mine, code, memory, status, outbox>>
StatementFails(tx) ==
  /\ tx \in mine \cap Breaking /\ Fails(tx)
  /\ UNCHANGED <<server, mine, code, memory, status, outbox>>

(* What a dead server left open is rolled back, unless its COMMIT was sent. *)
OrphanEnds(tx) ==
  /\ tx \notin mine /\ Fails(tx)
  /\ UNCHANGED <<server, mine, code, memory, status, outbox>>
CommitInsert(tx) ==
  /\ Commits(tx)
  /\ status' = [status EXCEPT ![tx] = "pending"]
  /\ UNCHANGED <<server, mine, code, memory, outbox>>

(* add took the payment, or refused it (the server is shutting down): the
   payment is in the tables either way. *)
Accept(tx) ==
  /\ tx \in mine \cap Followed /\ outcome[tx] = "committed"
  /\ \/ Answer(tx, 201) /\ memory' = [memory EXCEPT ![tx] = NewTX(tx)]
     \/ Answer(tx, 500) /\ UNCHANGED memory
  /\ UNCHANGED <<vars, server, mine, status, outbox>>

InsertError(tx) ==
  /\ tx \in mine \cap Followed /\ outcome[tx] \notin {"none", "committed"}
  /\ Answer(tx, 500)
  /\ UNCHANGED <<vars, server, mine, memory, status, outbox>>

-----------------------------------------------------------------------------
(* A worker's ProcessTX: it commits, or it returns an error. *)

Execute(tx) ==
  /\ memory[tx] # Nil
  /\ memory' = [memory EXCEPT ![tx] = Nil]
  /\ outbox[tx] = Nil
  /\ outbox' = [outbox EXCEPT ![tx] = ToTxRequest(memory[tx])]
  /\ status' = [status EXCEPT ![tx] = "processing"]
  /\ UNCHANGED <<vars, server, mine, code>>

ExecuteFails(tx) ==
  /\ memory[tx] # Nil
  /\ memory' = [memory EXCEPT ![tx] = Nil]
  /\ UNCHANGED <<vars, server, mine, code, status, outbox>>

(* StorePaymentResult, for what the processing system was sent. *)
StoreResult(tx) ==
  /\ Serving /\ outbox[tx] # Nil
  /\ \E result \in {"completed", "failed"} :
       status' = [status EXCEPT ![tx] = result]
  /\ UNCHANGED <<vars, server, mine, code, memory, outbox>>

-----------------------------------------------------------------------------
(* Handler.GetPaymentInfo, PaymentAuditService, GetTXByID: one SELECT *)

(* What a query would answer.  A payment that is not there is answered as an
   error of the server. *)
Readable(tx) == outcome[tx] = "committed" /\ Found(tx)
Info(tx) == PaymentInfo(Loaded(tx, status[tx]))
Reading(tx) ==
  IF Readable(tx) THEN [code |-> 200, info |-> Info(tx)]
                  ELSE [code |-> 500, info |-> Nil]

-----------------------------------------------------------------------------
(* The server dies with what it holds. *)
Crash ==
  /\ Serving
  /\ server' = "down"
  /\ mine' = {}
  /\ memory' = [tx \in TX |-> Nil]
  /\ UNCHANGED <<vars, code, status, outbox>>

(* PandingRecovery, before the server listens. *)
Recover ==
  /\ server = "down"
  /\ server' = "serving"
  /\ memory' = [tx \in TX |->
       LET rec == Loaded(tx, status[tx]) IN
       IF /\ tx \in Followed
          /\ status[tx] = "pending" /\ Found(tx) /\ Recoverable(rec)
         THEN RecoverPaymentTXFromRec(rec) ELSE Nil]
  /\ UNCHANGED <<vars, mine, code, status, outbox>>

Pay(tx) ==
  \/ RefuseRequest(tx) \/ CallInsert(tx) \/ Statement(tx) \/ StatementFails(tx)
  \/ OrphanEnds(tx) \/ CommitInsert(tx) \/ Accept(tx) \/ InsertError(tx)
Work(tx) == Execute(tx) \/ ExecuteFails(tx) \/ StoreResult(tx)
RNext == (\E tx \in TX : Pay(tx) \/ Work(tx)) \/ Crash \/ Recover

(* The database answers every statement, and ends what a dead server left. *)
RFairness ==
  \A tx \in TX : WF_rvars(Statement(tx) \/ OrphanEnds(tx) \/ CommitInsert(tx))
RSpec == RInit /\ [][RNext]_rvars /\ RFairness

-----------------------------------------------------------------------------
(* Properties *)

(* Sent, shown or held, a record says of a payment what its request said, but
   for the columns' rounding of the amount and padding of the type. *)
SaysAsked(p, tx) ==
  /\ p.txid = tx
  /\ p.ete = Ete[tx] /\ p.currency = Currency[tx]
  /\ p.type \in {Type[tx], Char(3, Type[tx])}
  /\ p.amount \in {Amount[tx].value, Numeric(Amount[tx].value)}

(* The type of every variable of this module, and of the registries. *)
PaymentTypes ==
  /\ server \in {"down", "serving"} /\ mine \subseteq TX
  /\ code \in [TX -> {0, 201, 400, 500}]
  /\ \A tx \in TX : memory[tx] = Nil \/ SaysAsked(memory[tx], tx)
  /\ status \in [TX -> {"absent", "pending", "processing", "completed", "failed"}]
  /\ DOMAIN memory = TX /\ DOMAIN outbox = TX
RTypeOK == TypeOK /\ PaymentTypes

(* The processing system is told to move the amount of the request between the
   accounts of the request, by a worker that has the request's entity and by
   one that has an entity made anew from five joined tables, in which others
   have registered the accounts first (paymentTx.go:83-152,
   peymentRepo.go:129-228, 293-303). *)
SentAsAsked ==
  \A tx \in TX : outbox[tx] # Nil =>
    /\ SaysAsked(outbox[tx], tx)
    /\ outbox[tx].debtorIBAN = Debtor[tx].iban
    /\ outbox[tx].creditorIBAN = Creditor[tx].iban
    /\ outbox[tx].status = "pending"

(* Whoever was told 201 finds the payment at every later query, over crashes
   and whatever other calls do with the registries the query joins
   (handlers.go:34-47, 60-70; paymentAuditRepo.go:39-44). *)
Confirmed(tx) == code[tx] = 201
ConfirmedIsFound == \A tx \in TX : Confirmed(tx) => Reading(tx).code = 200

(* Two readings of a payment, by queries or by recovery, find the same accounts
   and the same parties behind them, and what was found once is found again,
   though it is read from rows that other calls register, over crashes and open
   transactions (paymentAuditRepo.go:15-44, peymentRepo.go:144-167).  It says
   nothing of the status: one result may replace the other (peymentRepo.go:230),
   which is for PaymentPipeline to show. *)
BothEnds(tx) == <<EndOf(Debtor[tx].iban), EndOf(Creditor[tx].iban)>>
AnswersAgree ==
  [][\A tx \in TX :
       Readable(tx) => Readable(tx)' /\ BothEnds(tx)' = BothEnds(tx)]_rvars
=============================================================================
