------------------------------ MODULE RecordProofs ------------------------------
(***************************************************************************)
(* What PaymentRecord keeps, for every number of payments and whatever     *)
(* their requests have in common.  Its calls of InsertTX are those of      *)
(* AccountRegistry, so what RegistryProofs shows of the rows holds here.   *)
(***************************************************************************)
EXTENDS PaymentRecord, RegistryProofs

(* A held entity is the request's, or one made of the rows. *)
Faithful(p, tx) ==
  /\ SaysAsked(p, tx)
  /\ p.debtor.iban = Debtor[tx].iban /\ p.creditor.iban = Creditor[tx].iban
  /\ p.status = "pending"
Held == \A tx \in TX : memory[tx] # Nil => Faithful(memory[tx], tx)

(* Nothing is held, sent or confirmed of a payment that is not inserted, and a
   result comes only for what was sent. *)
StatusTells ==
  \A tx \in TX :
    /\ memory[tx] # Nil \/ outbox[tx] # Nil \/ Confirmed(tx)
         => outcome[tx] = "committed"
    /\ status[tx] # "absent" <=> outcome[tx] = "committed"
    /\ status[tx] \in {"completed", "failed"} => outbox[tx] # Nil

RInv == Inv /\ PaymentTypes /\ Held /\ SentAsAsked /\ StatusTells

-----------------------------------------------------------------------------
(* The rows behind a payment *)

LEMMA RowStep == RNext => [Next]_vars
  BY DEF RNext, Pay, Work, RefuseRequest, CallInsert, Statement, StatementFails,
         OrphanEnds, CommitInsert, Accept, InsertError, Execute, ExecuteFails,
         StoreResult, Crash, Recover, Next, Step

(* What is made of the rows says what was asked, whoever wrote them. *)
LEMMA LoadedIsFaithful ==
  ASSUME NEW tx \in TX, Valid(tx)
  PROVE  Faithful(RecoverPaymentTXFromRec(Loaded(tx, "pending")), tx)
  <1> DEFINE rec == Loaded(tx, "pending")
             p == RecoverPaymentTXFromRec(rec)
  <1>1. /\ p.txid = rec.txid /\ p.ete = rec.ete /\ p.currency = rec.currency
        /\ p.type = rec.type /\ p.amount = rec.amount
        /\ p.debtor = rec.debtor /\ p.creditor = rec.creditor
        /\ p.status = "pending"
    BY DEF RecoverPaymentTXFromRec, Loaded, ValStatus
  <1>2. rec.currency = Currency[tx]
    <2>1. Currency[tx].chars = 3 /\ IsText(Currency[tx])
      BY ValidTexts DEF ParseCurrency, IsText
    <2>2. QED
      BY <2>1, CharKeeps DEF Loaded
  <1>3. /\ rec.debtor.iban = Debtor[tx].iban /\ rec.creditor.iban = Creditor[tx].iban
    BY DEF Loaded, EndOf
  <1>4. SaysAsked(p, tx)
    BY <1>1, <1>2 DEF SaysAsked, Loaded
  <1>5. QED
    BY <1>1, <1>3, <1>4 DEF Faithful

LEMMA NewIsFaithful == ASSUME NEW tx \in TX PROVE Faithful(NewTX(tx), tx)
  BY DEF Faithful, SaysAsked, NewTX, NewPaymentTXFromDTO, Request

Shown == \A tx \in TX : outcome[tx] = "committed" => Readable(tx)
LEMMA InvShows == Inv => Shown
  BY InvFinds DEF PendingComesBack, Shown, Readable

-----------------------------------------------------------------------------
LEMMA RecordInit == RInit => RInv
  BY InvInit
     DEF RInit, Init, RInv, PaymentTypes, Held, SentAsAsked, StatusTells, Confirmed

LEMMA RecordStep == RInv /\ [RNext]_rvars => RInv'
  <1> SUFFICES ASSUME RInv, [RNext]_rvars PROVE RInv'
    OBVIOUS
  <1>0. Inv'
    BY RowStep, InvStep DEF RInv, rvars, vars
  <1> DEFINE Rest == PaymentTypes /\ Held /\ SentAsAsked /\ StatusTells
  <1>1. CASE UNCHANGED rvars
    BY <1>0, <1>1 DEF RInv, rvars, vars, PaymentTypes, Held, SentAsAsked, StatusTells,
       Confirmed
  <1>2. ASSUME NEW tx \in TX, RefuseRequest(tx) \/ InsertError(tx) PROVE Rest'
    BY <1>2 DEF RInv, RefuseRequest, InsertError, Answer, vars, PaymentTypes, Held,
       SentAsAsked, StatusTells, Confirmed
  <1>3. ASSUME NEW tx \in TX,
               CallInsert(tx) \/ Statement(tx) \/ StatementFails(tx) \/ OrphanEnds(tx)
        PROVE  Rest'
    <2>1. /\ \A u \in TX : outcome[u] = "committed" <=> outcome'[u] = "committed"
          /\ mine' \subseteq TX
          /\ UNCHANGED <<server, code, memory, status, outbox>>
      BY <1>3 DEF RInv, PaymentTypes, Inv, TypeOK, CallInsert, Statement, StatementFails,
         OrphanEnds, Begin, Insert, DoNothing, Skip, Refused, Unfit, Aborted, Fails,
         Blocked, Inserting, Running, Ends
    <2>2. QED
      BY <2>1 DEF RInv, PaymentTypes, Held, SentAsAsked, StatusTells, Confirmed
  <1>4. ASSUME NEW tx \in TX, CommitInsert(tx) PROVE Rest'
    BY <1>4 DEF RInv, CommitInsert, Commits, Ends, Inv, TypeOK, PaymentTypes, Held,
       SentAsAsked, StatusTells, Confirmed
  <1>5. ASSUME NEW tx \in TX, Accept(tx) PROVE Rest'
    <2>1. /\ \A u \in TX : memory'[u] # Nil => memory'[u] = memory[u] \/ memory'[u] = NewTX(u)
          /\ \A u \in TX \ {tx} : memory'[u] = memory[u]
          /\ DOMAIN memory' = TX
          /\ code' \in [TX -> {0, 201, 400, 500}]
          /\ \A u \in TX \ {tx} : code'[u] = code[u]
          /\ outcome[tx] = "committed"
          /\ UNCHANGED <<vars, server, mine, status, outbox>>
      BY <1>5 DEF RInv, Accept, Answer, PaymentTypes
    <2>2. \A u \in TX : Faithful(NewTX(u), u) /\ SaysAsked(NewTX(u), u)
      BY NewIsFaithful DEF Faithful
    <2>3. PaymentTypes' /\ Held'
      BY <2>1, <2>2 DEF RInv, vars, PaymentTypes, Held
    <2>4. SentAsAsked' /\ StatusTells'
      BY <2>1 DEF RInv, vars, PaymentTypes, SentAsAsked, StatusTells, Confirmed
    <2>5. QED
      BY <2>3, <2>4
  <1>6. ASSUME NEW tx \in TX, Execute(tx) PROVE Rest'
    <2>1. Faithful(memory[tx], tx)
      BY <1>6 DEF RInv, Held, Execute
    <2>2. LET p == ToTxRequest(memory[tx]) IN
            /\ SaysAsked(p, tx) /\ p.status = "pending"
            /\ p.debtorIBAN = Debtor[tx].iban /\ p.creditorIBAN = Creditor[tx].iban
      BY <2>1 DEF Faithful, SaysAsked, ToTxRequest
    <2>3. QED
      BY <1>6, <2>2 DEF RInv, Execute, vars, PaymentTypes, Held, SentAsAsked, StatusTells,
         Confirmed
  <1>7. ASSUME NEW tx \in TX, ExecuteFails(tx) \/ StoreResult(tx) PROVE Rest'
    <2>1. ASSUME ExecuteFails(tx) PROVE Rest'
      BY <2>1 DEF RInv, ExecuteFails, vars, PaymentTypes, Held, SentAsAsked, StatusTells,
         Confirmed
    <2>2. ASSUME StoreResult(tx) PROVE Rest'
      <3>1. /\ \A u \in TX : 
                 status'[u] = status[u] \/ (outbox[u] # Nil /\ status'[u] # "absent")
            /\ UNCHANGED <<vars, server, mine, code, memory, outbox>>
            /\ status' \in [TX -> {"absent", "pending", "processing", "completed", "failed"}]
        BY <2>2 DEF RInv, PaymentTypes, StoreResult
      <3>2. PaymentTypes' /\ Held' /\ SentAsAsked'
        BY <3>1 DEF RInv, vars, PaymentTypes, Held, SentAsAsked
      <3>3. StatusTells'
        BY <3>1 DEF RInv, vars, StatusTells, Confirmed
      <3>4. QED
        BY <3>2, <3>3
    <2>3. QED
      BY <1>7, <2>1, <2>2
  <1>8. CASE Crash
    BY <1>0, <1>8 DEF RInv, Crash, vars, PaymentTypes, Held, SentAsAsked, StatusTells, Confirmed
  <1>9. CASE Recover
    <2>1. ASSUME NEW tx \in TX, memory'[tx] # Nil
          PROVE  outcome[tx] = "committed" /\ Faithful(memory'[tx], tx)
      <3>1. /\ status[tx] = "pending"
            /\ memory'[tx] = RecoverPaymentTXFromRec(Loaded(tx, status[tx]))
        BY <1>9, <2>1 DEF Recover
      <3>2. outcome[tx] = "committed" /\ Valid(tx)
        BY <3>1, CommittedIsValid DEF RInv, StatusTells
      <3>3. QED
        BY <3>1, <3>2, LoadedIsFaithful
    <2>2. QED
      <3>1. /\ server' = "serving" /\ DOMAIN memory' = TX
            /\ UNCHANGED <<vars, mine, code, status, outbox>>
        BY <1>9 DEF Recover
      <3>2. Held' /\ PaymentTypes'
        BY <2>1, <3>1 DEF RInv, vars, PaymentTypes, Held, Faithful
      <3>3. SentAsAsked' /\ StatusTells'
        BY <2>1, <3>1 DEF RInv, vars, SentAsAsked, StatusTells, Confirmed
      <3>4. QED
        BY <1>0, <3>2, <3>3 DEF RInv
  <1>10. QED
    BY <1>0, <1>1, <1>2, <1>3, <1>4, <1>5, <1>6, <1>7, <1>8, <1>9
       DEF RNext, Pay, Work, RInv

LEMMA RecordAlways == RSpec => []RInv
  <1>1. QED
    BY RecordInit, RecordStep, PTL DEF RSpec

-----------------------------------------------------------------------------
(* Every reachable state of the record is of the right type, and what is held
   of a payment says what was asked (PaymentRecord). *)
THEOREM RecordTypeCorrect == RSpec => []RTypeOK
  <1>1. RInv => RTypeOK
    BY DEF RInv, Inv, RTypeOK
  <1>2. QED
    BY <1>1, RecordAlways, PTL

(* Requests, workers, crashes and recovery use InsertTX and nothing else to
   write the registries: every behaviour of the record is one of the registry's
   calls, so what RegistryProofs shows of these holds here
   (PaymentManagerService.go:44-90, 212-224). *)
THEOREM RecordOnlyCallsInsert == RSpec => Init /\ [][Next]_vars
  <1>1. RInit => Init
    BY DEF RInit
  <1>2. [RNext]_rvars => [Next]_vars
    BY RowStep DEF rvars, vars
  <1>3. QED
    BY <1>1, <1>2, PTL DEF RSpec

(* In the whole record, too, one of the open calls can always go on, also when
   the server that began them is gone (peymentRepo.go:29-83). *)
THEOREM SomebodyCanStepAfterACrash ==
  ASSUME IsFiniteSet(TX) PROVE RSpec => []NoStandstill
  <1>1. Init => OwnRows
    BY DEF Init, OwnRows
  <1>2. Inv /\ OwnRows => NoStandstill
    BY NobodyStandsStill
  <1>3. RInv => Inv
    BY DEF RInv
  <1>4. QED
    BY <1>1, <1>2, <1>3, RecordAlways, RecordOnlyCallsInsert, OwnRowsStep, PTL

(* The processing system is told to move the amount of the request between the
   accounts of the request, before a crash and after it (paymentTx.go:83-152,
   peymentRepo.go:129-228, 293-303). *)
THEOREM OrderSaysWhatWasAsked == RSpec => []SentAsAsked
  <1>1. QED
    BY RecordAlways, PTL DEF RInv

LEMMA RoundIsClose ==
  ASSUME NEW n \in Int
  PROVE  /\ Round(n) \in Int
         /\ 2 * (Round(n) - n) <= Grain /\ 2 * (n - Round(n)) <= Grain
  BY AmountAssumption DEF Round

LEMMA NumericIsClose ==
  ASSUME NEW a \in Int
  PROVE  /\ Numeric(a) \in Int
         /\ 2 * (Numeric(a) - a) <= Grain /\ -2 * (Numeric(a) - a) <= Grain
  <1>1. CASE a >= 0
    <2>1. /\ Round(a) \in Int
          /\ 2 * (Round(a) - a) <= Grain /\ 2 * (a - Round(a)) <= Grain
      BY RoundIsClose
    <2>2. Numeric(a) = Round(a)
      BY <1>1 DEF Numeric
    <2>3. QED
      BY <2>1, <2>2, AmountAssumption
  <1>2. CASE a < 0
    <2>1. /\ Round(-a) \in Int
          /\ 2 * (Round(-a) - (-a)) <= Grain /\ 2 * ((-a) - Round(-a)) <= Grain
      BY RoundIsClose
    <2>2. Numeric(a) = -Round(-a)
      BY <1>2 DEF Numeric
    <2>3. QED
      BY <2>1, <2>2, AmountAssumption
  <1>3. QED
    BY <1>1, <1>2

(* The amount sent is the amount asked, give or take half a decimal. *)
AmountIsClose ==
  \A tx \in TX : outbox[tx] # Nil =>
    LET excess == outbox[tx].amount - Amount[tx].value
    IN 2 * excess <= Grain /\ -2 * excess <= Grain

(* What is moved differs from what was asked by half of the column's last
   decimal at most, for every amount and every width of the column
   (paymentTx.go:83-152, 000003_create_tx_history.up.sql:5). *)
THEOREM MovedIsCloseToAsked == RSpec => []AmountIsClose
  <1>1. RInv => AmountIsClose
    <2> SUFFICES ASSUME RInv, NEW tx \in TX, outbox[tx] # Nil
                 PROVE  /\ 2 * (outbox[tx].amount - Amount[tx].value) <= Grain
                        /\ -2 * (outbox[tx].amount - Amount[tx].value) <= Grain
      BY DEF AmountIsClose
    <2>1. outbox[tx].amount \in {Amount[tx].value, Numeric(Amount[tx].value)}
      BY DEF RInv, SentAsAsked, SaysAsked
    <2>2. Amount[tx].value \in Int /\ Grain \in Nat
      BY RequestAssumption, AmountAssumption
    <2>3. QED
      BY <2>1, <2>2, NumericIsClose
  <1>2. QED
    BY <1>1, RecordAlways, PTL

(* A payment whose client was told 201 is found by every later query
   (handlers.go:34-47, paymentAuditRepo.go:39-44). *)
THEOREM ConfirmedStaysFound == RSpec => []ConfirmedIsFound
  <1>1. RInv => ConfirmedIsFound
    <2> SUFFICES ASSUME RInv, NEW tx \in TX, Confirmed(tx) PROVE Reading(tx).code = 200
      BY DEF ConfirmedIsFound
    <2>1. outcome[tx] = "committed"
      BY DEF RInv, StatusTells
    <2>2. Readable(tx)
      BY <2>1, InvShows DEF RInv, Shown
    <2>3. QED
      BY <2>2 DEF Reading
  <1>2. QED
    BY <1>1, RecordAlways, PTL

(* What one end's joins found, they find again. *)
LEMMA EndStays ==
  ASSUME Inv, Stays, NEW tx \in TX, NEW iban, <<"account", iban.is>> \in Keys, Joins(iban)
  PROVE  EndOf(iban)' = EndOf(iban)
  <1> DEFINE k == <<"account", iban.is>>
             bic == AccountRow(iban).bic
             q == <<"party", bic.is>>
  <1>1. Committed(k) /\ Committed(q)
    BY DEF Joins
  <1>2. row[k] \in TX
    BY <1>1 DEF Committed, Inv, TypeOK
  <1>3. q = Key(row[k], 1) \/ q = Key(row[k], 2)
    BY <1>2 DEF AccountRow, Side, Key
  <1>4. q \in Keys
    BY <1>2, <1>3 DEF Keys
  <1>5. row'[k] = row[k] /\ row'[q] = row[q]
    BY <1>1, <1>4 DEF Stays
  <1>6. AccountRow(iban)' = AccountRow(iban)
    BY <1>5 DEF AccountRow, Side
  <1>7. PartyRow(bic)' = PartyRow(bic)
    BY <1>5, <1>6 DEF PartyRow, Side
  <1>8. QED
    BY <1>6, <1>7 DEF EndOf

(* What a query found, every later query finds, with the same accounts and the
   same parties behind them (paymentAuditRepo.go:15-44, peymentRepo.go:144-167). *)
THEOREM AnswersAlwaysAgree == RSpec => AnswersAgree
  <1> DEFINE Agree ==
        \A tx \in TX : Readable(tx) => Readable(tx)' /\ BothEnds(tx)' = BothEnds(tx)
  <1>1. RInv /\ Shown' /\ [RNext]_rvars => [Agree]_rvars
    <2> SUFFICES ASSUME RInv, Shown', RNext, NEW tx \in TX, Readable(tx)
                 PROVE  Readable(tx)' /\ BothEnds(tx)' = BothEnds(tx)
      OBVIOUS
    <2>1. Inv /\ Stays
      BY RowStep, RowsStay DEF RInv
    <2>2. outcome[tx] = "committed" /\ outcome'[tx] = "committed"
      <3>1. Commit = 7
        BY DEF Commit
      <3>2. QED
        BY DEF Readable, RNext, Pay, Work, RefuseRequest, CallInsert, Statement,
           StatementFails, OrphanEnds, CommitInsert, Accept, InsertError, Execute,
           ExecuteFails, StoreResult, Crash, Recover, RInv, Inv, TypeOK, vars,
           Begin, Insert, DoNothing, Skip, Refused, Unfit, Aborted, Fails,
           Blocked, Inserting, Running, Commits, Ends
    <2>3. Readable(tx)'
      BY <2>2 DEF Shown
    <2>4. Joins(Debtor[tx].iban) /\ Joins(Creditor[tx].iban)
      BY DEF Readable, Found
    <2>5. /\ <<"account", Debtor[tx].iban.is>> \in Keys
          /\ <<"account", Creditor[tx].iban.is>> \in Keys
      <3>1. /\ Key(tx, 3) = <<"account", Debtor[tx].iban.is>>
            /\ Key(tx, 4) = <<"account", Creditor[tx].iban.is>>
        BY DEF Key
      <3>2. QED
        BY <3>1 DEF Keys
    <2>6. BothEnds(tx)' = BothEnds(tx)
      BY <2>1, <2>4, <2>5, EndStays DEF BothEnds
    <2>7. QED
      BY <2>3, <2>6
  <1>2. RInv => Shown
    BY InvShows DEF RInv
  <1>3. QED
    BY <1>1, <1>2, RecordAlways, PTL DEF RSpec, AnswersAgree
=============================================================================
