----------------------------- MODULE PaymentFields -----------------------------
(***************************************************************************)
(* What the fields of a payment become on their way: request, entity,      *)
(* record, columns, record again, order to the processing system, answer   *)
(* to a query (core/entity, core/valObj, ports, migrations).  No state.    *)
(*                                                                         *)
(* A text is known by what it says (is), its length as Go counts it        *)
(* (bytes) and as Postgres counts it (chars), and the narrowest alphabet   *)
(* it is written in: A-Z, that of the identifications, or UTF-8.  An       *)
(* amount is a whole number of grains, so fine that every amount of a      *)
(* request is one; Grain of them make the last decimal of the column.      *)
(***************************************************************************)
EXTENDS Integers

CONSTANTS
  Grain,     \* grains in 0.00001
  Limit      \* grains in 10^15: beyond NUMERIC(20,5)

ASSUME AmountAssumption == Grain \in Nat \ {0} /\ Limit \in Nat

IsText(t) ==
  /\ t.bytes \in Nat /\ t.chars \in Nat /\ t.chars <= t.bytes
  /\ t.in \in {"letters", "identifier", "any"}
  /\ t.in # "any" => t.chars = t.bytes

(* One end of a payment: an account and its party. *)
IsEnd(e) ==
  /\ e = [iban |-> e.iban, currency |-> e.currency, bic |-> e.bic,
          role |-> e.role, country |-> e.country, name |-> e.name]
  /\ \A t \in {e.iban, e.currency, e.bic, e.country, e.name} : IsText(t)

-----------------------------------------------------------------------------
(* Validation: value objects and entities *)

ParseCurrency(t) == t.bytes = 3 /\ t.in = "letters"
ParseEndToEndIdentification(t) == t.bytes \in 1..35 /\ t.in # "any"
ParseCountryOfResidence(t) == t.bytes = 2
ValRole(role) == role \in {"debtor", "creditor"}
validateBIC(t) == t.bytes \in {8, 11}
validateIBAN(t) == t.bytes \in 15..34

PaymentParty(e) ==
  ParseCountryOfResidence(e.country) /\ ValRole(e.role) /\ validateBIC(e.bic)
PaymentAccount(e) ==
  ParseCurrency(e.currency) /\ PaymentParty(e) /\ validateIBAN(e.iban)

(* Completed and failed are read as processing. *)
ValStatus(status) == IF status = "pending" THEN "pending" ELSE "processing"
IsStatus(status) == status \in {"pending", "processing", "completed", "failed"}

(* The binding of the request's JSON: every field is there. *)
Bound(req) ==
  req.amount.given /\ req.debtor.role # "" /\ req.creditor.role # "" /\
  \A t \in {req.currency, req.ete, req.type} \cup
           UNION {{e.iban, e.currency, e.bic, e.country, e.name} :
                    e \in {req.debtor, req.creditor}} : t.bytes > 0

(* No sign, size or precision is asked of an amount. *)
Accepts(req) ==
  /\ req.amount.isNumber
  /\ ParseCurrency(req.currency) /\ ParseEndToEndIdentification(req.ete)
  /\ PaymentAccount(req.creditor) /\ PaymentAccount(req.debtor)
(* mutant: the currency is the creditor's *)
NewPaymentTXFromDTOOther(txid, req) ==
  [txid |-> txid, status |-> "pending", amount |-> req.amount.value,
   currency |-> req.creditor.currency, ete |-> req.ete, type |-> req.type,
   debtor |-> req.debtor, creditor |-> req.creditor]
NewPaymentTXFromDTO(txid, req) ==
  [txid |-> txid, status |-> "pending", amount |-> req.amount.value,
   currency |-> req.currency, ete |-> req.ete, type |-> req.type,
   debtor |-> req.debtor, creditor |-> req.creditor]

-----------------------------------------------------------------------------
(* Columns *)

(* CHAR(n): padded with blanks.  (A text that is too long by blanks only is
   cut, which is left out: it counts as too long.) *)
Char(n, t) ==
  IF t.chars >= n THEN t
  ELSE [t EXCEPT !.chars = n, !.bytes = @ + (n - t.chars), !.in = "any"]
Fits(n, t) == t.chars <= n

(* NUMERIC(20,5): rounded, half away from zero. *)
Round(n) == ((2 * n + Grain) \div (2 * Grain)) * Grain
Numeric(a) == IF a >= 0 THEN Round(a) ELSE -Round(-a)
NumericFits(a) == Numeric(a) < Limit /\ -Numeric(a) < Limit

PartyFits(e) == Fits(11, e.bic) /\ Fits(2, e.country) /\ Fits(255, e.name)
AccountFits(e) == Fits(34, e.iban) /\ Fits(3, e.currency) /\ Fits(11, e.bic)
HistoryFits(p) ==
  /\ NumericFits(p.amount)
  /\ Fits(3, p.currency) /\ Fits(35, p.ete) /\ Fits(3, p.type)

-----------------------------------------------------------------------------
(* Records *)

(* RecoverPaymentTXFromRec: the same checks once more, on what comes back. *)
Recoverable(rec) ==
  /\ IsStatus(rec.status)
  /\ ParseCurrency(rec.currency) /\ ParseEndToEndIdentification(rec.ete)
  /\ PaymentAccount(rec.creditor) /\ PaymentAccount(rec.debtor)
RecoverPaymentTXFromRec(rec) == [rec EXCEPT !.status = ValStatus(@)]

(* The order a worker hands over; the payload of outbox is made of it. *)
ToTxRequest(p) ==
  [txid |-> p.txid, status |-> p.status, amount |-> p.amount,
   currency |-> p.currency, ete |-> p.ete, type |-> p.type,
   debtorIBAN |-> p.debtor.iban, creditorIBAN |-> p.creditor.iban]

(* What a query answers: status and accounts, nothing of the parties. *)
PaymentInfo(rec) ==
  [txid |-> rec.txid, status |-> rec.status,
   debtor |-> [iban |-> rec.debtor.iban, currency |-> rec.debtor.currency],
   creditor |-> [iban |-> rec.creditor.iban, currency |-> rec.creditor.currency]]
=============================================================================
