---------------------------- MODULE RegistryProofs ----------------------------
(***************************************************************************)
(* What AccountRegistry keeps, for every number of calls at the same time, *)
(* whatever their requests have in common.                                 *)
(***************************************************************************)
EXTENDS AccountRegistry, FiniteSetTheorems, TLAPS

(* The keys of the statements behind a call are registered: by the call, or,
   as far as a conflict is ignored, by one that has committed. *)
Settled(tx) ==
  \A n \in 1..6 : n < at[tx] =>
    /\ row[Key(tx, n)] # Nil
    /\ row[Key(tx, n)] = tx \/ (n \in 1..4 /\ Committed(Key(tx, n)))
Progress ==
  \A tx \in TX :
    /\ outcome[tx] \in {"none", "committed"} => Settled(tx)
    /\ outcome[tx] = "committed" => at[tx] = Commit
    /\ at[tx] # 0 => Valid(tx)
Inv == TypeOK /\ NoTrace /\ Progress

(* Whoever holds a row has put it there with a statement behind it. *)
OwnRows ==
  \A k \in Keys : row[k] # Nil =>
    \E n \in 1..6 : n < at[row[k]] /\ Key(row[k], n) = k

-----------------------------------------------------------------------------
LEMMA KeyIsKey == ASSUME NEW tx \in TX, NEW n \in 1..6 PROVE Key(tx, n) \in Keys
  BY DEF Keys

LEMMA InvInit == Init => Inv
  BY NilAssumption
     DEF Init, Inv, TypeOK, NoTrace, Progress, Settled, Commit, Outcomes

(* A call that is rolled back takes only its own rows along, on which no other
   call has built. *)
LEMMA RollbackKeeps ==
  ASSUME Inv, NEW tx \in TX, Running(tx), Rollback(tx),
         NEW how \in {"refused", "unfit", "aborted", "failed"}, Ends(tx, how)
  PROVE  NoTrace' /\ Progress'
  <1> USE NilAssumption DEF Inv, TypeOK
  <1>1. /\ \A k \in Keys : row'[k] = IF row[k] = tx THEN Nil ELSE row[k]
        /\ at' = at /\ outcome' = [outcome EXCEPT ![tx] = how] /\ outcome[tx] = "none"
    BY DEF Rollback, Ends, Running
  <1>2. NoTrace'
    BY <1>1 DEF NoTrace
  <1>3. Progress'
    <2> SUFFICES ASSUME NEW u \in TX
                 PROVE  /\ outcome'[u] \in {"none", "committed"} => Settled(u)'
                        /\ outcome'[u] = "committed" => at'[u] = Commit
                        /\ at'[u] # 0 => Valid(u)
      BY DEF Progress, Valid
    <2>1. CASE u = tx
      BY <1>1, <2>1 DEF Progress
    <2>2. CASE u # tx
      <3>1. outcome'[u] = outcome[u]
        BY <1>1, <2>2
      <3>2. ASSUME outcome[u] \in {"none", "committed"}, NEW n \in 1..6, n < at[u]
            PROVE  /\ row'[Key(u, n)] # Nil
                   /\ row'[Key(u, n)] = u \/ (n \in 1..4 /\ Committed(Key(u, n))')
        <4>1. /\ row[Key(u, n)] # Nil
              /\ row[Key(u, n)] = u \/ (n \in 1..4 /\ Committed(Key(u, n)))
          BY <3>2 DEF Progress, Settled
        <4>2. row[Key(u, n)] # tx
          BY <1>1, <2>2, <4>1 DEF Committed
        <4>3. row'[Key(u, n)] = row[Key(u, n)]
          BY <1>1, <4>2, KeyIsKey
        <4>4. QED
          BY <1>1, <4>1, <4>2, <4>3, KeyIsKey DEF Committed
      <3>3. outcome[u] \in {"none", "committed"} => Settled(u)'
        BY <1>1, <3>2 DEF Settled
      <3>4. QED
        BY <1>1, <3>1, <3>3 DEF Progress
    <2>3. QED
      BY <2>1, <2>2
  <1>4. QED
    BY <1>2, <1>3

LEMMA InsertKeeps ==
  ASSUME Inv, NEW tx \in TX, Insert(tx) PROVE NoTrace' /\ Progress'
  <1> USE NilAssumption DEF Inv, TypeOK
  <1> DEFINE k == Key(tx, at[tx])
  <1>1. /\ at[tx] \in 1..6 /\ outcome[tx] = "none" /\ row[k] = Nil /\ k \in Keys
        /\ row' = [row EXCEPT ![k] = tx] /\ at' = [at EXCEPT ![tx] = @ + 1]
        /\ outcome' = outcome
    BY KeyIsKey DEF Insert, Inserting, Running, Commit, Holder, Advance
  <1>2. NoTrace'
    BY <1>1 DEF NoTrace
  <1>3. ASSUME NEW u \in TX, outcome[u] \in {"none", "committed"},
               NEW n \in 1..6, n < at'[u]
        PROVE  /\ row'[Key(u, n)] # Nil
               /\ row'[Key(u, n)] = u \/ (n \in 1..4 /\ Committed(Key(u, n))')
    <2>1. CASE u = tx /\ n = at[tx]
      BY <1>1, <2>1
    <2>2. CASE ~(u = tx /\ n = at[tx])
      <3>1. n < at[u]
        BY <1>1, <1>3, <2>2
      <3>2. /\ row[Key(u, n)] # Nil
            /\ row[Key(u, n)] = u \/ (n \in 1..4 /\ Committed(Key(u, n)))
        BY <1>3, <3>1 DEF Progress, Settled
      <3>3. row'[Key(u, n)] = row[Key(u, n)]
        BY <1>1, <3>2, KeyIsKey
      <3>4. QED
        BY <1>1, <3>2, <3>3 DEF Committed
    <2>3. QED
      BY <2>1, <2>2
  <1>4. Progress'
    BY <1>1, <1>3 DEF Progress, Settled, Valid
  <1>5. QED
    BY <1>2, <1>4

LEMMA DoNothingKeeps ==
  ASSUME Inv, NEW tx \in TX, DoNothing(tx) PROVE NoTrace' /\ Progress'
  <1> USE NilAssumption DEF Inv, TypeOK
  <1>1. /\ at[tx] \in 1..4 /\ outcome[tx] = "none"
        /\ row[Key(tx, at[tx])] = tx \/ Committed(Key(tx, at[tx]))
        /\ row' = row /\ at' = [at EXCEPT ![tx] = @ + 1] /\ outcome' = outcome
    BY DEF DoNothing, Skip, Inserting, Running, Holder, Advance
  <1>2. NoTrace'
    BY <1>1 DEF NoTrace
  <1>3. ASSUME NEW u \in TX, outcome[u] \in {"none", "committed"},
               NEW n \in 1..6, n < at'[u]
        PROVE  /\ row[Key(u, n)] # Nil
               /\ row[Key(u, n)] = u \/ (n \in 1..4 /\ Committed(Key(u, n)))
    <2>1. CASE u = tx /\ n = at[tx]
      BY <1>1, <2>1 DEF Committed
    <2>2. CASE ~(u = tx /\ n = at[tx])
      BY <1>1, <1>3, <2>2 DEF Progress, Settled
    <2>3. QED
      BY <2>1, <2>2
  <1>4. Progress'
    BY <1>1, <1>3 DEF Progress, Settled, Valid, Committed
  <1>5. QED
    BY <1>2, <1>4

LEMMA TypeStep == TypeOK /\ [Next]_vars => TypeOK'
  <1> SUFFICES ASSUME TypeOK, [Next]_vars PROVE TypeOK'
    OBVIOUS
  <1> USE DEF TypeOK, Outcomes, Commit
  <1>1. CASE UNCHANGED vars
    BY <1>1 DEF vars
  <1>2. ASSUME NEW tx \in TX, Begin(tx) \/ Insert(tx) \/ DoNothing(tx) PROVE TypeOK'
    BY <1>2, KeyIsKey DEF Begin, Insert, DoNothing, Skip, Inserting, Running, Advance
  <1>3. ASSUME NEW tx \in TX, Refused(tx) \/ Unfit(tx) \/ Aborted(tx) \/ Fails(tx) PROVE TypeOK'
    BY <1>3 DEF Refused, Unfit, Aborted, Fails, Rollback, Ends
  <1>4. ASSUME NEW tx \in TX, Commits(tx) PROVE TypeOK'
    BY <1>4 DEF Commits, Ends
  <1>5. QED
    BY <1>1, <1>2, <1>3, <1>4 DEF Next, Step

LEMMA InvStep == Inv /\ [Next]_vars => Inv'
  <1> SUFFICES ASSUME Inv, [Next]_vars PROVE NoTrace' /\ Progress'
    BY TypeStep DEF Inv
  <1>1. CASE UNCHANGED vars
    BY <1>1 DEF Inv, vars, NoTrace, Progress, Settled, Committed, Valid
  <1>2. ASSUME NEW tx \in TX, Begin(tx) PROVE NoTrace' /\ Progress'
    BY <1>2 DEF Begin, Advance, Inv, TypeOK, NoTrace, Progress, Settled, Committed, Valid
  <1>3. ASSUME NEW tx \in TX, Refused(tx) \/ Unfit(tx) \/ Aborted(tx) \/ Fails(tx)
        PROVE  NoTrace' /\ Progress'
    <2>1. Running(tx) /\ Rollback(tx)
      BY <1>3 DEF Refused, Unfit, Aborted, Fails, Circle, Blocked, Inserting
    <2>2. \E how \in {"refused", "unfit", "aborted", "failed"} : Ends(tx, how)
      BY <1>3 DEF Refused, Unfit, Aborted, Fails
    <2>3. QED
      BY <2>1, <2>2, RollbackKeeps
  <1>4. ASSUME NEW tx \in TX, Commits(tx) PROVE NoTrace' /\ Progress'
    <2>1. /\ row' = row /\ at' = at /\ at[tx] = Commit
          /\ outcome' = [outcome EXCEPT ![tx] = "committed"]
      BY <1>4 DEF Commits, Ends
    <2>2. \A k \in Keys : Committed(k) => Committed(k)'
      BY <2>1 DEF Inv, TypeOK, Committed
    <2>3. \A u \in TX : Settled(u) => Settled(u)'
      BY <2>1, <2>2, KeyIsKey DEF Settled
    <2>4. Progress'
      BY <1>4, <2>1, <2>3 DEF Inv, TypeOK, Progress, Valid, Commits, Running
    <2>5. NoTrace'
      BY <2>1 DEF Inv, TypeOK, NoTrace
    <2>6. QED
      BY <2>4, <2>5
  <1>5. QED
    BY <1>1, <1>2, <1>3, <1>4, InsertKeeps, DoNothingKeeps DEF Next, Step

LEMMA InvAlways == Spec => []Inv
  <1>1. QED
    BY InvInit, InvStep, PTL DEF Spec

(* Every reachable state is of the right type (AccountRegistry). *)
THEOREM RegistryTypeCorrect == Spec => []TypeOK
  <1>1. QED
    BY InvAlways, PTL DEF Inv

(* A call that did not commit leaves no row behind (peymentRepo.go:33). *)
THEOREM NothingLeftBehind == Spec => []NoTrace
  <1>1. QED
    BY InvAlways, PTL DEF Inv

-----------------------------------------------------------------------------
LEMMA OwnRowsStep == Inv /\ OwnRows /\ [Next]_vars => OwnRows'
  <1> SUFFICES ASSUME Inv, OwnRows, [Next]_vars, NEW k \in Keys, row'[k] # Nil
               PROVE  \E n \in 1..6 : n < at'[row'[k]] /\ Key(row'[k], n) = k
    BY DEF OwnRows
  <1> USE NilAssumption DEF Inv, TypeOK
  <1>1. ASSUME row'[k] = row[k], \A u \in TX : at'[u] >= at[u]
        PROVE  \E n \in 1..6 : n < at'[row'[k]] /\ Key(row'[k], n) = k
    <2>1. row[k] \in TX
      BY <1>1
    <2>2. PICK n \in 1..6 : n < at[row[k]] /\ Key(row[k], n) = k
      BY <1>1 DEF OwnRows
    <2>3. at'[row[k]] >= at[row[k]]
      BY <1>1, <2>1
    <2>4. n < at'[row[k]]
      <3>1. at[row[k]] \in Int /\ at'[row[k]] \in Int
        BY <2>1, TypeStep
      <3>2. QED
        BY <2>2, <2>3, <3>1
    <2>5. QED
      BY <1>1, <2>2, <2>4
  <1>2. ASSUME row' = row, \A u \in TX : at'[u] >= at[u]
        PROVE  \E n \in 1..6 : n < at'[row'[k]] /\ Key(row'[k], n) = k
    BY <1>1, <1>2
  <1>3. CASE UNCHANGED vars
    BY <1>2, <1>3 DEF vars
  <1>4. ASSUME NEW tx \in TX, Begin(tx) \/ DoNothing(tx) \/ Commits(tx)
        PROVE  \E n \in 1..6 : n < at'[row'[k]] /\ Key(row'[k], n) = k
    BY <1>2, <1>4 DEF Begin, DoNothing, Skip, Commits, Ends, Advance
  <1>5. ASSUME NEW tx \in TX, Refused(tx) \/ Unfit(tx) \/ Aborted(tx) \/ Fails(tx)
        PROVE  \E n \in 1..6 : n < at'[row'[k]] /\ Key(row'[k], n) = k
    BY <1>1, <1>5 DEF Refused, Unfit, Aborted, Fails, Rollback, Ends
  <1>6. ASSUME NEW tx \in TX, Insert(tx)
        PROVE  \E n \in 1..6 : n < at'[row'[k]] /\ Key(row'[k], n) = k
    <2>1. /\ at[tx] \in 1..6 /\ row' = [row EXCEPT ![Key(tx, at[tx])] = tx]
          /\ at' = [at EXCEPT ![tx] = @ + 1]
      BY <1>6 DEF Insert, Inserting, Running, Commit, Advance
    <2>2. CASE k = Key(tx, at[tx])
      BY <2>1, <2>2
    <2>3. CASE k # Key(tx, at[tx])
      BY <1>1, <2>1, <2>3
    <2>4. QED
      BY <2>2, <2>3
  <1>7. QED
    BY <1>3, <1>4, <1>5, <1>6 DEF Next, Step

(* A call that can do nothing waits for one that runs, other than itself. *)
LEMMA WaitsForRunning ==
  ASSUME Inv, OwnRows, NEW tx \in TX, Running(tx), ~CanStep(tx)
  PROVE  Blocked(tx) /\ Holder(tx) \in TX /\ Running(Holder(tx))
  <1> DEFINE h == Holder(tx)
             k == Key(tx, at[tx])
  <1>1. at[tx] \in 1..6 /\ outcome[tx] = "none" /\ h # Nil
    BY DEF Running, CanStep, Commit
  <1>2. k \in Keys /\ h = row[k] /\ h \in TX
    BY <1>1, KeyIsKey DEF Holder, Inv, TypeOK
  <1>3. PICK n \in 1..6 : n < at[h] /\ Key(h, n) = k
    BY <1>1, <1>2 DEF OwnRows
  <1>4. at[h] \in 0..7 /\ at[tx] \in 0..7
    BY <1>2 DEF Inv, TypeOK, Commit
  <1>5. at[tx] # 6
    <2> SUFFICES ASSUME at[tx] = 6 PROVE FALSE
      OBVIOUS
    <2>1. k = <<"pending", tx>> /\ Key(h, n) = k
      BY <1>3 DEF Key
    <2>2. n = 6
      BY <2>1 DEF Key
    <2>3. h = tx
      BY <2>1, <2>2 DEF Key
    <2>4. QED
      BY <1>3, <1>4, <2>2, <2>3
  <1>6. h # tx
    <2>1. CASE at[tx] \in 1..4
      BY <2>1 DEF CanStep
    <2>2. CASE at[tx] = 5
      BY <1>3, <2>2 DEF Key
    <2>3. QED
      BY <1>1, <1>5, <2>1, <2>2
  <1>7. ~Committed(k)
    BY <1>1, <1>5 DEF CanStep
  <1>8. outcome[h] = "none"
    BY <1>1, <1>2, <1>7 DEF Inv, NoTrace, Committed
  <1>9. Running(h)
    BY <1>3, <1>4, <1>8 DEF Running, Commit
  <1>10. Blocked(tx)
    BY <1>1, <1>2, <1>6, <1>7 DEF Blocked, Inserting, Running, Commit
  <1>11. QED
    BY <1>2, <1>9, <1>10

(* Of finitely many calls that all wait for one of them, some wait in a circle:
   the smallest set of them that waits for nobody outside. *)
LEMMA SomeWaitInACircle ==
  ASSUME IsFiniteSet(TX), NEW W \in SUBSET TX, W # {},
         \A tx \in W : Blocked(tx) /\ Holder(tx) \in W
  PROVE  \E S \in SUBSET W : S # {} /\ Circle(S)
  <1> DEFINE Closed == {S \in SUBSET W : S # {} /\ \A tx \in S : Holder(tx) \in S}
  <1>1. IsWellFoundedOn(StrictSubsetOrdering(TX), SUBSET TX)
    BY FS_StrictSubsetOrderingWellFounded, FS_FiniteSubsetsOfFinite
  <1>2. Closed \subseteq SUBSET TX /\ Closed # {}
    OBVIOUS
  <1>3. PICK S \in Closed : \A T \in Closed : <<T, S>> \notin StrictSubsetOrdering(TX)
    <2> HIDE DEF Closed
    <2>1. QED
      BY <1>1, <1>2, WFMin
  <1> DEFINE I == {Holder(tx) : tx \in S}
  <1>4. I \subseteq S /\ I \in Closed
    OBVIOUS
  <1>5. I = S
    BY <1>2, <1>3, <1>4 DEF StrictSubsetOrdering
  <1>6. QED
    BY <1>5 DEF Circle

LEMMA NobodyStandsStill ==
  ASSUME IsFiniteSet(TX), Inv, OwnRows PROVE NoStandstill
  <1> SUFFICES ASSUME NEW t \in TX, Running(t), \A u \in TX : Running(u) => ~CanStep(u)
               PROVE  FALSE
    BY DEF NoStandstill
  <1> DEFINE W == {u \in TX : Running(u)}
  <1>1. \A u \in W : Blocked(u) /\ Holder(u) \in W
    BY WaitsForRunning
  <1>2. W \in SUBSET TX /\ W # {}
    OBVIOUS
  <1>3. PICK S \in SUBSET W : S # {} /\ Circle(S)
    <2> HIDE DEF W
    <2>1. QED
      BY <1>1, <1>2, SomeWaitInACircle
  <1>4. PICK u \in S : TRUE
    BY <1>3
  <1>5. CanStep(u)
    BY <1>3, <1>4 DEF CanStep
  <1>6. QED
    BY <1>4, <1>5

(* Of any finite number of calls at once, one can always go on: the only wait
   that nobody inside it ends is a circle, which the database breaks
   (peymentRepo.go:29-83). *)
THEOREM SomebodyCanAlwaysStep ==
  ASSUME IsFiniteSet(TX) PROVE Spec => []NoStandstill
  <1>1. Init => OwnRows
    BY DEF Init, OwnRows
  <1>2. Inv /\ OwnRows => NoStandstill
    BY NobodyStandsStill
  <1>3. QED
    BY <1>1, <1>2, InvAlways, OwnRowsStep, PTL DEF Spec

-----------------------------------------------------------------------------
(* Padding leaves a text alone that fills its column. *)
LEMMA CharKeeps ==
  ASSUME NEW n \in Nat, NEW t, IsText(t), t.chars >= n PROVE Char(n, t) = t
  BY DEF Char, IsText

(* A text of letters is as many bytes as characters. *)
LEMMA CurrencyKeeps ==
  ASSUME NEW t, IsText(t), ParseCurrency(t) PROVE ParseCurrency(Char(3, t))
  <1>1. t.chars = 3
    BY DEF IsText, ParseCurrency
  <1>2. QED
    BY <1>1, CharKeeps

LEMMA ValidEnds ==
  ASSUME NEW u \in TX, Valid(u), NEW e \in {Debtor[u], Creditor[u]}
  PROVE  PaymentAccount(e) /\ IsText(e.currency) /\ IsText(e.country)
  <1>1. PaymentAccount(Debtor[u]) /\ PaymentAccount(Creditor[u])
    BY DEF Valid, Accepts, Request
  <1>2. \A d \in {Debtor[u], Creditor[u]} : IsText(d.currency) /\ IsText(d.country)
    BY RequestAssumption DEF IsEnd
  <1>3. QED
    BY <1>1, <1>2

LEMMA ValidTexts ==
  ASSUME NEW u \in TX, Valid(u)
  PROVE  /\ ParseCurrency(Currency[u]) /\ ParseEndToEndIdentification(Ete[u])
         /\ IsText(Currency[u])
  <1>1. ParseCurrency(Currency[u]) /\ ParseEndToEndIdentification(Ete[u])
    BY DEF Valid, Accepts, Request
  <1>2. QED
    BY <1>1, RequestAssumption

LEMMA CommittedIsValid ==
  ASSUME Inv, NEW u \in TX, outcome[u] = "committed" PROVE Valid(u)
  BY DEF Inv, Progress, Commit

LEMMA InvFinds == Inv => PendingComesBack
  <1> SUFFICES ASSUME Inv, NEW tx \in TX, outcome[tx] = "committed"
               PROVE  /\ Found(tx)
                      /\ (\A u \in TX : outcome[u] = "committed" => Plain(u))
                           => Recoverable(Loaded(tx, "pending"))
    BY DEF PendingComesBack
  <1>1. ASSUME NEW u \in TX, outcome[u] = "committed", NEW n \in 1..4
        PROVE  Committed(Key(u, n)) /\ row[Key(u, n)] \in TX
    BY <1>1, KeyIsKey, NilAssumption
       DEF Inv, TypeOK, Progress, Settled, Commit, Committed
  <1>2. ASSUME NEW u \in TX, outcome[u] = "committed"
        PROVE  /\ \A bic \in {Debtor[u].bic, Creditor[u].bic} :
                    Committed(<<"party", bic.is>>) /\ row[<<"party", bic.is>>] \in TX
               /\ \A iban \in {Debtor[u].iban, Creditor[u].iban} :
                    Committed(<<"account", iban.is>>) /\ row[<<"account", iban.is>>] \in TX
    <2>1. /\ Key(u, 1) = <<"party", Debtor[u].bic.is>>
          /\ Key(u, 2) = <<"party", Creditor[u].bic.is>>
          /\ Key(u, 3) = <<"account", Debtor[u].iban.is>>
          /\ Key(u, 4) = <<"account", Creditor[u].iban.is>>
      BY DEF Key
    <2>2. \A n \in 1..4 : Committed(Key(u, n)) /\ row[Key(u, n)] \in TX
      BY <1>1, <1>2
    <2>3. 1 \in 1..4 /\ 2 \in 1..4 /\ 3 \in 1..4 /\ 4 \in 1..4
      OBVIOUS
    <2>4. QED
      BY <2>1, <2>2, <2>3
  <1>3. ASSUME NEW u \in TX, outcome[u] = "committed", NEW e \in {Debtor[u], Creditor[u]}
        PROVE  PaymentAccount(e) /\ IsText(e.currency) /\ IsText(e.country)
    BY <1>3, CommittedIsValid, ValidEnds
  <1>4. ASSUME NEW iban \in {Debtor[tx].iban, Creditor[tx].iban}
        PROVE  /\ Joins(iban)
               /\ \E u \in TX : outcome[u] = "committed"
                               /\ AccountRow(iban) \in {Debtor[u], Creditor[u]}
               /\ \E v \in TX : outcome[v] = "committed"
                               /\ PartyRow(AccountRow(iban).bic) \in {Debtor[v], Creditor[v]}
    <2> DEFINE u == row[<<"account", iban.is>>]
    <2>1. Committed(<<"account", iban.is>>) /\ u \in TX /\ outcome[u] = "committed"
      BY <1>2 DEF Committed
    <2>2. AccountRow(iban) \in {Debtor[u], Creditor[u]}
      BY DEF AccountRow, Side
    <2> DEFINE bic == AccountRow(iban).bic
               v == row[<<"party", bic.is>>]
    <2>3. bic \in {Debtor[u].bic, Creditor[u].bic}
      BY <2>2
    <2>4. Committed(<<"party", bic.is>>) /\ v \in TX /\ outcome[v] = "committed"
      BY <1>2, <2>1, <2>3 DEF Committed
    <2>5. PartyRow(bic) \in {Debtor[v], Creditor[v]}
      BY DEF PartyRow, Side
    <2>6. QED
      BY <2>1, <2>2, <2>4, <2>5 DEF Joins
  <1>5. ASSUME \A u \in TX : outcome[u] = "committed" => Plain(u),
               NEW iban \in {Debtor[tx].iban, Creditor[tx].iban}
        PROVE  PaymentAccount(EndOf(iban))
    <2>1. PICK u \in TX : outcome[u] = "committed"
                          /\ AccountRow(iban) \in {Debtor[u], Creditor[u]}
      BY <1>4
    <2>2. PICK v \in TX : outcome[v] = "committed"
               /\ PartyRow(AccountRow(iban).bic) \in {Debtor[v], Creditor[v]}
      BY <1>4
    <2> DEFINE account == AccountRow(iban)
               party == PartyRow(account.bic)
               end == EndOf(iban)
    <2>3. /\ end.iban = iban /\ end.bic = account.bic /\ end.role = party.role
          /\ end.currency = Char(3, account.currency)
          /\ end.country = Char(2, party.country)
      BY DEF EndOf
    <2>4. validateIBAN(iban)
      BY <1>3 DEF PaymentAccount
    <2>5. /\ ParseCurrency(account.currency) /\ validateBIC(account.bic)
          /\ IsText(account.currency)
      BY <1>3, <2>1 DEF PaymentAccount, PaymentParty
    <2>6. /\ ParseCountryOfResidence(party.country) /\ ValRole(party.role)
          /\ IsText(party.country) /\ party.country.chars = 2
      BY <1>3, <1>5, <2>2 DEF PaymentAccount, PaymentParty, Plain
    <2>7. ParseCurrency(end.currency)
      BY <2>3, <2>5, CurrencyKeeps
    <2>8. ParseCountryOfResidence(end.country)
      BY <2>3, <2>6, CharKeeps
    <2>9. QED
      BY <2>3, <2>4, <2>5, <2>6, <2>7, <2>8 DEF PaymentAccount, PaymentParty
  <1>6. ParseCurrency(Char(3, Currency[tx])) /\ ParseEndToEndIdentification(Ete[tx])
    <2>1. /\ ParseCurrency(Currency[tx]) /\ ParseEndToEndIdentification(Ete[tx])
          /\ IsText(Currency[tx])
      BY CommittedIsValid, ValidTexts
    <2>2. QED
      BY <2>1, CurrencyKeeps
  <1>7. Found(tx)
    BY <1>4 DEF Found
  <1>8. ASSUME \A u \in TX : outcome[u] = "committed" => Plain(u)
        PROVE  Recoverable(Loaded(tx, "pending"))
    BY <1>5, <1>6, <1>8 DEF Recoverable, Loaded, IsStatus
  <1>9. QED
    BY <1>7, <1>8

(* Recovery finds every committed payment, and takes it up again unless a
   country is spelt in more bytes than characters (peymentRepo.go:129-228,
   paymentTx.go:83-126). *)
THEOREM EveryPendingComesBack == Spec => []PendingComesBack
  <1>1. QED
    BY InvFinds, InvAlways, PTL

Stays == \A k \in Keys : Committed(k) => Committed(k)' /\ row'[k] = row[k]
LEMMA RowsStay == Inv /\ [Next]_vars => Stays
  <1> SUFFICES ASSUME Inv, [Next]_vars PROVE Stays
    OBVIOUS
  <1> USE NilAssumption DEF Inv, TypeOK, Committed, Stays
  <1>1. ASSUME NEW tx \in TX, Begin(tx) \/ Insert(tx) \/ DoNothing(tx) PROVE Stays
    BY <1>1, KeyIsKey DEF Begin, Insert, DoNothing, Skip, Holder
  <1>2. ASSUME NEW tx \in TX, Refused(tx) \/ Unfit(tx) \/ Aborted(tx) \/ Fails(tx) PROVE Stays
    <2>1. Running(tx) /\ Rollback(tx)
      BY <1>2 DEF Refused, Unfit, Aborted, Fails, Circle, Blocked, Inserting
    <2>2. \E how \in {"refused", "unfit", "aborted", "failed"} : Ends(tx, how)
      BY <1>2 DEF Refused, Unfit, Aborted, Fails
    <2>3. QED
      BY <2>1, <2>2 DEF Running, Rollback, Ends
  <1>3. ASSUME NEW tx \in TX, Commits(tx) PROVE Stays
    BY <1>3 DEF Commits, Ends
  <1>4. CASE UNCHANGED vars
    BY <1>4 DEF vars
  <1>5. QED
    BY <1>1, <1>2, <1>3, <1>4 DEF Next, Step

(* What is registered stays as its first committed call gave it
   (peymentRepo.go:39, 54, 69, 82). *)
THEOREM RegistrationNeverChanges == Spec => RegistrationStays
  <1>1. Inv /\ [Next]_vars => [Stays]_vars
    BY RowsStay
  <1>2. QED
    BY <1>1, InvAlways, PTL DEF Spec, RegistrationStays, Stays

(* Seven statements of many calls at once come to one step per payment, the
   InsertTX of PaymentStore (peymentRepo.go:25-127). *)
THEOREM InsertIsOneStep == Spec => InsertIsAtomic
  <1> DEFINE Stored == [\E tx \in TX : Store!InsertTX(tx)]_(Store!storeVars)
  <1>1. Init => Store!StoreInit
    BY DEF Init, Store!StoreInit, Done
  <1>2. Inv /\ [Next]_vars => Stored
    <2> SUFFICES ASSUME Inv, [Next]_vars PROVE Stored
      OBVIOUS
    <2> USE DEF Inv, TypeOK
    <2>1. ASSUME UNCHANGED Done PROVE Stored
      BY <2>1 DEF Store!storeVars
    <2>2. ASSUME NEW tx \in TX, Begin(tx) \/ Insert(tx) \/ DoNothing(tx) PROVE Stored
      BY <2>1, <2>2 DEF Begin, Insert, DoNothing, Skip, Done
    <2>3. ASSUME NEW tx \in TX, Refused(tx) \/ Unfit(tx) \/ Aborted(tx) \/ Fails(tx) PROVE Stored
      <3>1. Running(tx)
        BY <2>3 DEF Refused, Unfit, Aborted, Fails, Circle, Blocked, Inserting
      <3>2. \E how \in {"refused", "unfit", "aborted", "failed"} : Ends(tx, how)
        BY <2>3 DEF Refused, Unfit, Aborted, Fails
      <3>3. QED
        BY <2>1, <3>1, <3>2 DEF Running, Ends, Done
    <2>4. ASSUME NEW tx \in TX, Commits(tx) PROVE Stored
      <3>1. Done' = Done \cup {tx} /\ tx \notin Done
        BY <2>4 DEF Commits, Ends, Running, Done
      <3>2. ASSUME NEW u \in TX, at[u] = Commit, outcome[u] \in {"none", "committed"}
            PROVE  row[<<"history", Ete[u].is>>] = u
        <4>1. Key(u, 5) = <<"history", Ete[u].is>>
          BY DEF Key
        <4>2. row[Key(u, 5)] = u
          BY <3>2 DEF Progress, Settled, Commit
        <4>3. QED
          BY <4>1, <4>2
      <3>3. \A u \in Done \ {tx} : Ete[u] # Ete[tx]
        BY <2>4, <3>2 DEF Done, Progress, Commits, Running
      <3>4. Store!InsertTX(tx)
        BY <3>1, <3>3 DEF Store!InsertTX, Store!Recorded, Store!EteTaken, Done
      <3>5. QED
        BY <3>4
    <2>5. QED
      BY <2>1, <2>2, <2>3, <2>4 DEF Next, Step, vars, Done
  <1>3. QED
    BY <1>1, <1>2, InvAlways, PTL DEF Spec, InsertIsAtomic
=============================================================================
