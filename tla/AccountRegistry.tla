---------------------------- MODULE AccountRegistry ----------------------------
(***************************************************************************)
(* Repository.InsertTX statement by statement, for calls that run at the   *)
(* same time: the registries of parties and accounts fill up as payments   *)
(* come in, and two calls may want to register the same party or account.  *)
(* It shows when the one step of PaymentStore!InsertTX is justified, and   *)
(* what recovery finds in the registries for a payment.                    *)
(*                                                                         *)
(* A row is known by the call that inserted it: what it says is what that  *)
(* call's request said.                                                    *)
(*                                                                         *)
(* External to src/: Postgres (read committed).  An INSERT whose key was   *)
(* inserted by an open transaction waits for that transaction's end; of    *)
(* transactions that wait for each other in a circle one is aborted.       *)
(***************************************************************************)
EXTENDS PaymentFields, FiniteSets

CONSTANTS
  TX,                 \* calls of InsertTX
  Debtor, Creditor,   \* for each call: the two ends of the payment
  Ete,                \* for each call: the end-to-end identification
  Amount, Currency, Type,   \* for each call: the other fields of its request
  Nil                 \* no row

ASSUME NilAssumption == Nil \notin TX
ASSUME RequestAssumption ==
  \A tx \in TX :
    /\ IsEnd(Debtor[tx]) /\ IsEnd(Creditor[tx])
    /\ IsText(Ete[tx]) /\ IsText(Currency[tx]) /\ IsText(Type[tx])
    /\ Amount[tx].given \in BOOLEAN /\ Amount[tx].isNumber \in BOOLEAN
    /\ Amount[tx].value \in Int

VARIABLES
  at,        \* the statement every call executes next
  outcome,   \* how it ended
  row        \* for each key: the call that inserted the row
vars == <<at, outcome, row>>

Request(tx) ==
  [amount |-> Amount[tx], currency |-> Currency[tx], ete |-> Ete[tx],
   type |-> Type[tx], debtor |-> Debtor[tx], creditor |-> Creditor[tx]]
NewTX(tx) == NewPaymentTXFromDTO(tx, Request(tx))

(* The seven statements, and the key each of the first six inserts. *)
Key(tx, n) ==
  CASE n = 1 -> <<"party", Debtor[tx].bic.is>>
    [] n = 2 -> <<"party", Creditor[tx].bic.is>>
    [] n = 3 -> <<"account", Debtor[tx].iban.is>>
    [] n = 4 -> <<"account", Creditor[tx].iban.is>>
    [] n = 5 -> <<"history", Ete[tx].is>>
    [] n = 6 -> <<"pending", tx>>
Commit == 7
Keys == {Key(tx, n) : tx \in TX, n \in 1..6}

Init ==
  /\ at = [tx \in TX |-> 0]
  /\ outcome = [tx \in TX |-> "none"]
  /\ row = [k \in Keys |-> Nil]

Running(tx) == at[tx] \in 1..Commit /\ outcome[tx] = "none"
Inserting(tx) == at[tx] < Commit /\ Running(tx)
Holder(tx) == row[Key(tx, at[tx])]
Committed(k) == row[k] # Nil /\ outcome[row[k]] = "committed"
Advance(tx) == at' = [at EXCEPT ![tx] = @ + 1]

(* defer tx.Rollback(ctx) *)
(* mutant: the transaction stays open *)
RollbackForgotten(tx) == UNCHANGED row
Rollback(tx) == row' = [k \in Keys |-> IF row[k] = tx THEN Nil ELSE row[k]]

Ends(tx, how) == outcome' = [outcome EXCEPT ![tx] = how] /\ UNCHANGED at

-----------------------------------------------------------------------------
(* A request that does not pass is refused before it gets here. *)
(* mutant: the currency of the payment is not looked at *)
ValidAnyCurrency(tx) ==
  /\ Bound(Request(tx))
  /\ PaymentAccount(Debtor[tx]) /\ PaymentAccount(Creditor[tx])
Valid(tx) == Bound(Request(tx)) /\ Accepts(Request(tx))

(* The columns take the values of the statement's row. *)
RowFits(tx, n) ==
  CASE n = 1 -> PartyFits(Debtor[tx])
    [] n = 2 -> PartyFits(Creditor[tx])
    [] n = 3 -> AccountFits(Debtor[tx])
    [] n = 4 -> AccountFits(Creditor[tx])
    [] n = 5 -> HistoryFits(NewTX(tx))
    [] OTHER -> TRUE

Begin(tx) ==
  /\ at[tx] = 0 /\ outcome[tx] = "none" /\ Valid(tx)
  /\ Advance(tx)
  /\ UNCHANGED <<outcome, row>>

Insert(tx) ==
  /\ Inserting(tx) /\ RowFits(tx, at[tx]) /\ Holder(tx) = Nil
  /\ row' = [row EXCEPT ![Key(tx, at[tx])] = tx]
  /\ Advance(tx)
  /\ UNCHANGED outcome

(* ON CONFLICT DO NOTHING, once the other transaction is over *)
(* mutant: without waiting for it *)
SkipUnsettled(tx) ==
  /\ Inserting(tx) /\ at[tx] \in 1..4 /\ Holder(tx) # Nil
  /\ UNCHANGED row
Skip(tx) ==
  /\ Inserting(tx) /\ at[tx] \in 1..4 /\ RowFits(tx, at[tx])
  /\ Holder(tx) = tx \/ Committed(Key(tx, at[tx]))
  /\ UNCHANGED row

DoNothing(tx) == Skip(tx) /\ Advance(tx) /\ UNCHANGED outcome

(* uq_tx_end_to_end_id *)
(* mutant: ON CONFLICT DO NOTHING here too *)
RefusedNot(tx) ==
  /\ Inserting(tx) /\ at[tx] = 5 /\ RowFits(tx, 5) /\ Committed(Key(tx, 5))
  /\ Advance(tx)
  /\ UNCHANGED <<outcome, row>>
Refused(tx) ==
  /\ Inserting(tx) /\ at[tx] = 5 /\ RowFits(tx, 5) /\ Committed(Key(tx, 5))
  /\ Rollback(tx) /\ Ends(tx, "refused")

(* A value is too long or too large for its column. *)
Unfit(tx) ==
  /\ Inserting(tx) /\ ~RowFits(tx, at[tx])
  /\ Rollback(tx) /\ Ends(tx, "unfit")

(* Calls that wait for each other in a circle. *)
Blocked(tx) == Inserting(tx) /\ Holder(tx) \notin {Nil, tx} /\ ~Committed(Key(tx, at[tx]))
Circle(S) == (\A tx \in S : Blocked(tx)) /\ {Holder(tx) : tx \in S} = S

Aborted(tx) ==
  /\ Blocked(tx) /\ \E S \in SUBSET TX : tx \in S /\ Circle(S)
  /\ Rollback(tx) /\ Ends(tx, "aborted")

(* A statement returns another error: the connection breaks, or the context
   of the request is done. *)
Fails(tx) == Running(tx) /\ Rollback(tx) /\ Ends(tx, "failed")

(* mutant: the registrations are ON CONFLICT DO UPDATE, seen at the commit *)
CommitsUpdates(tx) ==
  /\ Running(tx) /\ at[tx] = Commit
  /\ Ends(tx, "committed")
  /\ row' = [k \in Keys |-> IF \E n \in 1..4 : Key(tx, n) = k THEN tx ELSE row[k]]
Commits(tx) ==
  /\ Running(tx) /\ at[tx] = Commit
  /\ Ends(tx, "committed")
  /\ UNCHANGED row

Step(tx) ==
  Insert(tx) \/ DoNothing(tx) \/ Refused(tx) \/ Unfit(tx) \/ Aborted(tx)
    \/ Commits(tx)
Next == \E tx \in TX : Begin(tx) \/ Step(tx) \/ Fails(tx)

(* The database answers every statement. *)
Fairness == \A tx \in TX : WF_vars(Step(tx))
Spec == Init /\ [][Next]_vars /\ Fairness

-----------------------------------------------------------------------------
(* LoadPendingPayments, GetTXByID: what the joins find *)

Side(tx, field, value) ==
  IF Debtor[tx][field].is = value.is THEN Debtor[tx] ELSE Creditor[tx]

(* An account as the first call registered it, and its party as the first call
   registered that. *)
AccountRow(iban) == Side(row[<<"account", iban.is>>], "iban", iban)
PartyRow(bic) == Side(row[<<"party", bic.is>>], "bic", bic)
EndOf(iban) ==
  LET account == AccountRow(iban)
      party == PartyRow(account.bic)
  IN [iban |-> iban, currency |-> Char(3, account.currency), bic |-> account.bic,
      role |-> party.role, country |-> Char(2, party.country),
      name |-> party.name]
Joins(iban) ==
  /\ Committed(<<"account", iban.is>>)
  /\ Committed(<<"party", AccountRow(iban).bic.is>>)

(* The columns of tx_history, and both ends by their joins.  (The two times of
   a row that was never updated are equal, as RecoverPaymentTXFromRec asks.) *)
(* mutant: the ends are scanned the other way round *)
LoadedSwapped(tx, status) ==
  [txid |-> tx, status |-> status, amount |-> Numeric(Amount[tx].value),
   currency |-> Char(3, Currency[tx]), ete |-> Ete[tx], type |-> Char(3, Type[tx]),
   debtor |-> EndOf(Creditor[tx].iban), creditor |-> EndOf(Debtor[tx].iban)]
Loaded(tx, status) ==
  [txid |-> tx, status |-> status, amount |-> Numeric(Amount[tx].value),
   currency |-> Char(3, Currency[tx]), ete |-> Ete[tx], type |-> Char(3, Type[tx]),
   debtor |-> EndOf(Debtor[tx].iban), creditor |-> EndOf(Creditor[tx].iban)]
Found(tx) == Joins(Debtor[tx].iban) /\ Joins(Creditor[tx].iban)

-----------------------------------------------------------------------------
(* Properties *)

Outcomes == {"none", "refused", "unfit", "aborted", "failed", "committed"}
TypeOK ==
  /\ at \in [TX -> 0..Commit] /\ outcome \in [TX -> Outcomes]
  /\ row \in [Keys -> TX \cup {Nil}]

(* A call that ended without a commit has left no row behind, in no registry
   (peymentRepo.go:33). *)
NoTrace ==
  \A k \in Keys : row[k] # Nil => outcome[row[k]] \in {"none", "committed"}

(* Recovery finds every committed payment through all its joins, with the
   parties and accounts as whoever registered them, although the calls ran
   interleaved and some of them were undone; and what it finds passes the
   checks of the entities a second time, if every request gave its country in
   as many characters as bytes (peymentRepo.go:36-83, 162-167;
   paymentTx.go:83-126). *)
Plain(tx) == Debtor[tx].country.chars = 2 /\ Creditor[tx].country.chars = 2
PendingComesBack ==
  \A tx \in TX : outcome[tx] = "committed" =>
    /\ Found(tx)
    /\ (\A u \in TX : outcome[u] = "committed" => Plain(u))
         => Recoverable(Loaded(tx, "pending"))

(* While calls run, one of them can go on: it commits, its row does not fit,
   its key is free or its own or settled, or it waits in a circle, of which the
   database aborts one; a call that waits does not hold itself up, nor wait for
   one that has gone (peymentRepo.go:29-83). *)
CanStep(tx) ==
  \/ at[tx] = Commit
  \/ ~RowFits(tx, at[tx])
  \/ Holder(tx) = Nil
  \/ at[tx] \in 1..4 /\ Holder(tx) = tx
  \/ at[tx] \in 1..5 /\ Committed(Key(tx, at[tx]))
  \/ \E S \in SUBSET TX : tx \in S /\ Circle(S)
NoStandstill ==
  (\E tx \in TX : Running(tx)) => \E tx \in TX : Running(tx) /\ CanStep(tx)
(* What is registered stays as its first committed call gave it
   (peymentRepo.go:39, 54, 69, 82). *)
RegistrationStays ==
  [][\A k \in Keys : Committed(k) => Committed(k)' /\ row'[k] = row[k]]_vars

(* Calls that wait for each other's rows do not wait for ever: a call that has
   begun ends, whoever else ended how (peymentRepo.go:29-33). *)
EveryCallEnds == \A tx \in TX : at[tx] # 0 ~> outcome[tx] # "none"

(* Seen through what is committed, a call is one step, or none: the InsertTX
   of PaymentStore (peymentRepo.go:25-127). *)
Done == {tx \in TX : outcome[tx] = "committed"}
Store == INSTANCE PaymentStore WITH
  status <- [tx \in TX |-> IF tx \in Done THEN "pending" ELSE "absent"],
  pending <- Done, outbox <- {}, sentAt <- {}
InsertIsAtomic ==
  Store!StoreInit /\ [][\E tx \in TX : Store!InsertTX(tx)]_(Store!storeVars)
=============================================================================
