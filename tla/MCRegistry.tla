------------------------------- MODULE MCRegistry -------------------------------
(***************************************************************************)
(* An instance of PaymentRecord for TLC: t1 pays from a to b while t2 pays *)
(* from b to a and names other banks for the two accounts, so that the two *)
(* can wait for each other, and t1 may find its accounts registered under  *)
(* t2's banks.  When t1 is over, t3 asks for its payment once more, with a *)
(* country of one character of two bytes.  t4 has a name too long for its column, and t5  *)
(* a currency in small letters; they come when the others are over.        *)
(*                                                                         *)
(* A grain is a tenth of the last decimal: t1 pays half of it, t2 less.    *)
(***************************************************************************)
EXTENDS PaymentRecord, TLC

CONSTANTS t1, t2, t3, t4, t5, a, b, x, y, z, w, e1, e2, e3

Calls == {t1, t2, t3, t4, t5}
Word(is, n, in) == [is |-> is, bytes |-> n, chars |-> n, in |-> in]
Iban(i) == Word(i, 15, "identifier")
TwoLetters == Word("BY", 2, "letters")
OneLetter == [is |-> "one", bytes |-> 2, chars |-> 1, in |-> "any"]
End(iban, bic, country, currency, role) ==
  [iban |-> Iban(iban), bic |-> Word(bic, 8, "letters"), country |-> country,
   currency |-> Word(currency, 3, "letters"), role |-> role,
   name |-> Word("name", 4, "letters")]

TheDebtor == End(a, x, TwoLetters, "BYN", "debtor")
TheCreditor == End(b, y, TwoLetters, "USD", "creditor")
Debtors ==
  t1 :> TheDebtor @@ t2 :> End(b, w, TwoLetters, "EUR", "debtor")
    @@ t3 :> End(a, x, OneLetter, "BYN", "debtor")
    @@ t4 :> TheDebtor @@ t5 :> TheDebtor
Creditors ==
  t1 :> TheCreditor @@ t2 :> End(a, z, TwoLetters, "BYN", "debtor")
    @@ t3 :> TheCreditor @@ t5 :> TheCreditor
    @@ t4 :> [TheCreditor EXCEPT !.name = Word("long", 256, "letters")]

Same == Word(e1, 20, "identifier")
Instructions ==
  t1 :> Same @@ t2 :> Word(e2, 20, "identifier") @@ t3 :> Same
    @@ t4 :> Word(e3, 20, "identifier") @@ t5 :> Word(e3, 20, "identifier")
Number(n) == [given |-> TRUE, isNumber |-> TRUE, value |-> n]
Amounts ==
  t1 :> Number(1005) @@ t2 :> Number(-1003) @@ t3 :> Number(1000)
    @@ t4 :> Number(1000) @@ t5 :> Number(1000)
BYN == Word("BYN", 3, "letters")
Currencies ==
  t1 :> BYN @@ t2 :> BYN @@ t3 :> BYN @@ t4 :> BYN
    @@ t5 :> Word("byn", 3, "identifier")
One == Word("1", 1, "identifier")
Types == t1 :> One @@ t2 :> One @@ t3 :> One @@ t4 :> One @@ t5 :> One
Order == t1 :> {} @@ t2 :> {} @@ t3 :> {t1} @@ t4 :> {t1, t2, t3} @@ t5 :> {t1, t2, t3}
=============================================================================
