------------------------- MODULE DispatcherQueueProofs -------------------------
(***************************************************************************)
(* Where the payments are, for every set of payments: between its send and *)
(* the answer of ProcessTX a payment is in one place, and no merge, drain  *)
(* or shutdown doubles or drops it.                                        *)
(*                                                                         *)
(* And what Dispatcher does keep of the promises that merges break, if all *)
(* payments share one account, such as the payouts of one debtor: that     *)
(* account leads to every group there is, so there is one, nothing is      *)
(* merged, and no re-check takes an account away.                          *)
(***************************************************************************)
EXTENDS DispatcherProofs

(* A worker has a payment in its hands exactly while ProcessTX runs. *)
HandTold == \A g \in TX : hand[g] # Nil <=> worker[g] \in {"process", "drainProcess"}

Distinct(s) == \A j, k \in 1..Len(s) : s[j] = s[k] => j = k

(* No payment is in two places ... *)
Apart ==
  /\ \A g \in TX : Distinct(ch[g])
  /\ \A tx, g, h \in TX : Queued(ch[g], tx) /\ Queued(ch[h], tx) => g = h
  /\ \A tx, g, h \in TX : Queued(ch[g], tx) => hand[h] # tx /\ carry # tx
  /\ \A g, h \in TX : hand[g] # Nil /\ hand[g] = hand[h] => g = h
  /\ \A g \in TX : carry # Nil => hand[g] # carry

Present(tx) == carry = tx \/ \E g \in TX : Queued(ch[g], tx) \/ hand[g] = tx
Unanswered(tx) == Sent(tx) /\ fate[tx] \in {"none", "doomed"}

(* ... and every payment without an answer is in one. *)
Kept ==
  \A tx \in TX :
    /\ Present(tx) <=> Unanswered(tx)
    /\ ~Sent(tx) => fate[tx] = "none"

Hold == HandTold /\ Apart /\ Kept

-----------------------------------------------------------------------------
(* Queues without repetitions *)

LEMMA TailLacksHead ==
  ASSUME NEW s \in Seq(TX), s # <<>>, Distinct(s)
  PROVE  /\ Distinct(Tail(s))
         /\ \A e \in TX : Queued(Tail(s), e) <=> Queued(s, e) /\ e # Head(s)
  <1>1. /\ Len(s) \in Nat \ {0} /\ Len(Tail(s)) = Len(s) - 1
        /\ \A k \in 1..Len(Tail(s)) : Tail(s)[k] = s[k + 1]
        /\ Head(s) = s[1]
    OBVIOUS
  <1>2. Distinct(Tail(s))
    BY <1>1 DEF Distinct
  <1>3. ASSUME NEW e \in TX, Queued(Tail(s), e) PROVE Queued(s, e) /\ e # Head(s)
    <2>1. PICK k \in 1..Len(Tail(s)) : Tail(s)[k] = e
      BY <1>3 DEF Queued
    <2>2. k + 1 \in 1..Len(s) /\ s[k + 1] = e /\ 1 \in 1..Len(s) /\ k + 1 # 1
      BY <1>1, <2>1
    <2>3. QED
      BY <1>1, <2>2 DEF Queued, Distinct
  <1>4. ASSUME NEW e \in TX, Queued(s, e), e # Head(s) PROVE Queued(Tail(s), e)
    <2>1. PICK k \in 1..Len(s) : s[k] = e
      BY <1>4 DEF Queued
    <2>2. k - 1 \in 1..Len(Tail(s)) /\ Tail(s)[k - 1] = e
      BY <1>1, <1>4, <2>1
    <2>3. QED
      BY <2>2 DEF Queued
  <1>5. QED
    BY <1>2, <1>3, <1>4

LEMMA AppendAdds ==
  ASSUME NEW s \in Seq(TX), NEW x \in TX, Distinct(s), ~Queued(s, x)
  PROVE  /\ Distinct(Append(s, x))
         /\ \A e \in TX : Queued(Append(s, x), e) <=> Queued(s, e) \/ e = x
  <1>1. /\ Len(s) \in Nat /\ Len(Append(s, x)) = Len(s) + 1
        /\ \A k \in 1..Len(s) : Append(s, x)[k] = s[k]
        /\ Append(s, x)[Len(s) + 1] = x
    OBVIOUS
  <1>2. \A k \in 1..Len(Append(s, x)) : k \in 1..Len(s) \/ k = Len(s) + 1
    BY <1>1
  <1>3. Distinct(Append(s, x))
    BY <1>1, <1>2 DEF Distinct, Queued
  <1>4. ASSUME NEW e \in TX, Queued(s, e) PROVE Queued(Append(s, x), e)
    <2>1. PICK k \in 1..Len(s) : s[k] = e
      BY <1>4 DEF Queued
    <2>2. k \in 1..Len(Append(s, x)) /\ Append(s, x)[k] = e
      BY <1>1, <2>1
    <2>3. QED
      BY <2>2 DEF Queued
  <1>5. Queued(Append(s, x), x)
    <2>1. Len(s) + 1 \in 1..Len(Append(s, x))
      BY <1>1
    <2>2. QED
      BY <1>1, <2>1 DEF Queued
  <1>6. QED
    BY <1>3, <1>4, <1>5, QueuedAppend

-----------------------------------------------------------------------------
(* Hold is inductive *)

LEMMA HoldInit == Init => Hold
  <1> SUFFICES ASSUME Init PROVE Hold
    OBVIOUS
  <1>1. HandTold
    BY DEF Init, HandTold
  <1>2. \A g, tx \in TX : ~Queued(ch[g], tx) /\ hand[g] = Nil /\ Distinct(ch[g])
    BY DEF Init, Queued, Distinct
  <1>3. Apart
    BY <1>2 DEF Init, Apart
  <1>4. Kept
    BY <1>2, TXAssumption DEF Init, Kept, Present, Unanswered, Sent
  <1>5. QED
    BY <1>1, <1>3, <1>4 DEF Hold

LEMMA HoldStep == Typed /\ NotCreated /\ Hold /\ [Next]_vars => Hold'
  <1> SUFFICES ASSUME Typed, NotCreated, Hold, [Next]_vars PROVE Hold'
    OBVIOUS
  <1>t. /\ pc \in [TX -> {"lock", "slot", "recheck", "send", "count", "accepted",
                           "drainWait", "drain", "refused"}]
        /\ target \in [TX -> TX \cup {Nil}] /\ source \in [TX -> TX \cup {Nil}]
        /\ carry \in TX \cup {Nil} /\ hand \in [TX -> TX \cup {Nil}]
        /\ ch \in [TX -> Seq(TX)]
        /\ fate \in [TX -> {"none", "doomed", "processed", "failed"}]
        /\ worker \in [TX -> {"none", "select", "process", "drain",
                             "drainProcess", "exited"}]
        /\ \A tx \in TX : Merger(tx) \/ pc[tx] = "send" => target[tx] \in TX
        /\ \A tx \in TX : Merger(tx) => source[tx] \in TX
    BY DEF Typed, TypeOK, Bound
  <1>h. HandTold /\ Apart /\ Kept
    BY DEF Hold
  <1> USE <1>t, TXAssumption
      DEF Goto, adderVars, mapVars, groupVars, countVars, poolVars, procVars,
          endVars
  (* A step that moves no payment. *)
  <1>a. ASSUME UNCHANGED <<ch, hand, carry, fate>>,
               \A tx \in TX : Sent(tx)' <=> Sent(tx),
               \A g \in TX : worker'[g] \in {"process", "drainProcess"}
                               <=> worker[g] \in {"process", "drainProcess"}
        PROVE  Hold'
    BY <1>a, <1>h DEF Hold, HandTold, Apart, Kept, Present, Unanswered
  <1>1. ASSUME NEW tx \in TX,
               \/ AddRefused(tx) \/ AddSeesNoGroup(tx) \/ AddConnects(tx)
               \/ AddMerges(tx) \/ TakeSlot(tx) \/ DrainBegins(tx) \/ DrainEnds(tx)
               \/ GiveUp(tx)
        PROVE  Hold'
    BY <1>1, <1>a DEF Sent, AddRefused, AddSeesNoGroup, AddConnects, AddMerges,
                      TakeSlot, DrainBegins, DrainEnds, GiveUp
  <1>2. ASSUME NEW tx \in TX, RecheckJoins(tx) \/ Count(tx) PROVE Hold'
    BY <1>2, <1>a DEF Sent, RecheckJoins, Count
  <1>3. ASSUME NEW tx \in TX, RecheckCreates(tx) PROVE Hold'
    <2>1. worker[tx] = "none" /\ worker' = [worker EXCEPT ![tx] = "select"]
      BY <1>3 DEF RecheckCreates, NotCreated, Early
    <2>2. QED
      BY <1>3, <1>a, <2>1 DEF Sent, RecheckCreates
  <1>4. ASSUME NEW tx \in TX, Send(tx) PROVE Hold'
    <2> DEFINE to == target[tx]
    <2>1. /\ to \in TX /\ ~Sent(tx) /\ fate[tx] = "none" /\ ~Present(tx)
          /\ ch' = [ch EXCEPT ![to] = Append(@, tx)]
          /\ UNCHANGED <<hand, carry, fate, worker>>
          /\ Sent(tx)' /\ \A u \in TX \ {tx} : Sent(u)' <=> Sent(u)
      BY <1>4, <1>h DEF Send, Enqueue, Sent, Kept, Unanswered
    <2>2. /\ \A g \in TX : Distinct(ch'[g])
          /\ \A u, g \in TX : Queued(ch'[g], u) <=> Queued(ch[g], u) \/ (g = to /\ u = tx)
      BY <1>h, <2>1, AppendAdds DEF Apart, Present
    <2> HIDE DEF to
    <2>3. HandTold'
      BY <1>h, <2>1 DEF HandTold
    <2>4. Apart'
      BY <1>h, <2>1, <2>2 DEF Apart, Present
    <2>5. Kept'
      BY <1>h, <2>1, <2>2 DEF Kept, Present, Unanswered
    <2>6. QED
      BY <2>3, <2>4, <2>5 DEF Hold
  <1>5. ASSUME NEW tx \in TX, DrainTakes(tx) PROVE Hold'
    <2> DEFINE from == source[tx]  x == Head(ch[from])
    <2>1. /\ from \in TX /\ ch[from] # <<>> /\ x \in TX /\ carry = Nil /\ carry' = x
          /\ ch' = [ch EXCEPT ![from] = Tail(@)]
          /\ UNCHANGED <<hand, fate, worker, pc>>
      BY <1>5 DEF DrainTakes, Dequeued, Merger
    <2>2. /\ Queued(ch[from], x) /\ \A g \in TX : Distinct(ch'[g])
          /\ \A u, g \in TX : Queued(ch'[g], u) <=> Queued(ch[g], u) /\ ~(g = from /\ u = x)
      BY <1>h, <2>1, TailLacksHead, QueuedHead DEF Apart
    <2> HIDE DEF from, x
    <2>3. HandTold'
      BY <1>h, <2>1 DEF HandTold
    <2>4. Apart'
      BY <1>h, <2>1, <2>2 DEF Apart
    <2>5. Kept'
      BY <1>h, <2>1, <2>2 DEF Kept, Present, Unanswered, Sent
    <2>6. QED
      BY <2>3, <2>4, <2>5 DEF Hold
  <1>6. ASSUME NEW tx \in TX, DrainGives(tx) PROVE Hold'
    <2> DEFINE to == target[tx]
    <2>1. /\ to \in TX /\ carry \in TX /\ carry' = Nil
          /\ ch' = [ch EXCEPT ![to] = Append(@, carry)]
          /\ UNCHANGED <<hand, fate, worker, pc>>
      BY <1>6 DEF DrainGives, Enqueue, Merger
    <2>2. /\ \A g \in TX : Distinct(ch'[g])
          /\ \A u, g \in TX : Queued(ch'[g], u) <=> Queued(ch[g], u) \/ (g = to /\ u = carry)
      BY <1>h, <2>1, AppendAdds DEF Apart
    <2> HIDE DEF to
    <2>3. HandTold'
      BY <1>h, <2>1 DEF HandTold
    <2>4. Apart'
      BY <1>h, <2>1, <2>2 DEF Apart
    <2>5. Kept'
      BY <1>h, <2>1, <2>2 DEF Kept, Present, Unanswered, Sent
    <2>6. QED
      BY <2>3, <2>4, <2>5 DEF Hold
  <1>7. ASSUME NEW g \in TX, Receive(g) PROVE Hold'
    <2> DEFINE x == Head(ch[g])
    <2>1. /\ ch[g] # <<>> /\ x \in TX /\ hand[g] = Nil
          /\ ch' = [ch EXCEPT ![g] = Tail(@)]
          /\ hand' = [hand EXCEPT ![g] = x]
          /\ fate' = [fate EXCEPT ![x] = IF rootDone THEN "doomed" ELSE @]
          /\ worker' = [worker EXCEPT ![g] = IF @ = "select" THEN "process"
                                                            ELSE "drainProcess"]
          /\ UNCHANGED <<carry, pc>>
      <3>1. ch[g] # <<>> /\ x \in TX /\ worker[g] \in {"select", "drain"}
        BY <1>7 DEF Receive
      <3>2. hand[g] = Nil
        BY <1>h, <3>1 DEF HandTold
      <3>3. QED
        BY <1>7, <3>1, <3>2, Zenon DEF Receive, HandedOver, Dequeued
    <2>2. /\ Queued(ch[g], x) /\ \A h \in TX : Distinct(ch'[h])
          /\ \A u, h \in TX : Queued(ch'[h], u) <=> Queued(ch[h], u) /\ ~(h = g /\ u = x)
      BY <1>h, <2>1, TailLacksHead, QueuedHead DEF Apart
    <2> HIDE DEF x
    <2>3. HandTold'
      BY <1>h, <2>1 DEF HandTold
    <2>4. Apart'
      BY <1>h, <2>1, <2>2 DEF Apart
    <2>5. Kept'
      <3>1. Unanswered(x) /\ fate'[x] \in {"none", "doomed"}
        BY <1>h, <2>1, <2>2 DEF Kept, Present, Unanswered
      <3>2. \A u \in TX : Present(u)' <=> Present(u)
        BY <2>1, <2>2 DEF Present
      <3>3. QED
        BY <1>h, <2>1, <3>1, <3>2 DEF Kept, Unanswered, Sent
    <2>6. QED
      BY <2>3, <2>4, <2>5 DEF Hold
  <1>8. ASSUME NEW g \in TX, Finish(g) PROVE Hold'
    <2>0. PICK x \in TX : hand[g] = x
      BY <1>8, <1>h DEF Finish, HandTold
    <2>1. /\ hand' = [hand EXCEPT ![g] = Nil]
          /\ worker' = [worker EXCEPT ![g] = IF @ = "process" THEN "select" ELSE "drain"]
          /\ UNCHANGED <<ch, carry, pc>>
      BY <1>8 DEF Finish
    <2>2. PICK answer \in {"processed", "failed"} : fate' = [fate EXCEPT ![x] = answer]
      BY <1>8, <2>0 DEF Finish
    <2>3. HandTold'
      BY <1>h, <2>1 DEF HandTold
    <2>4. Apart'
      BY <1>h, <2>1 DEF Apart
    <2>5. Kept'
      <3>1. Present(x) /\ ~Present(x)'
        BY <1>h, <2>1, <2>0 DEF Present, Apart
      <3>2. \A u \in TX \ {x} : Present(u)' <=> Present(u)
        BY <2>1, <2>0 DEF Present
      <3>3. QED
        BY <1>h, <2>1, <2>2, <3>1, <3>2 DEF Kept, Unanswered, Sent
    <2>6. QED
      BY <2>3, <2>4, <2>5 DEF Hold
  <1>9. ASSUME NEW g \in TX, LeaveToMerge(g) \/ BeginDrain(g) \/ EndDrain(g)
        PROVE  Hold'
    BY <1>9, <1>a DEF Sent, LeaveToMerge, BeginDrain, EndDrain, Leave
  <1>10. ASSUME NEW g \in TX, Wait(g) PROVE Hold'
    BY <1>10, <1>a DEF Sent, Wait, CallWait, WaitReturns
  <1>11. CASE Cancel \/ ShutdownReturns \/ UNCHANGED vars
    BY <1>11, <1>a DEF Sent, Cancel, ShutdownReturns, vars
  <1>12. QED
    BY <1>1, <1>2, <1>3, <1>4, <1>5, <1>6, <1>7, <1>8, <1>9, <1>10, <1>11
       DEF Next, Add, Locked, RunWorker

LEMMA HoldAlways == Spec => []Hold
  <1>1. Merges => NotCreated
    BY DEF Merges
  <1>2. QED
    BY <1>1, TypedAlways, MergesAlways, HoldInit, HoldStep, PTL DEF Spec

(* A payment that was sent and not yet answered is in exactly one place, any
   other is nowhere: whatever merges, drains and shutdowns do, none is dropped
   and none is doubled (PaymentManagerService.go:180-188, 197-198, 212, 227). *)
THEOREM PaymentsAreHeldOnce == Spec => []HeldOnce
  <1>1. ASSUME Typed, Apart, NEW tx \in TX, NEW p \in Places(tx), NEW q \in Places(tx)
        PROVE  p = q
    <2> DEFINE Cell(l) ==
          \E g \in TX, k \in 1..ChanBuffer : l = <<g, k>> /\ k <= Len(ch[g]) /\ ch[g][k] = tx
        Hand(l) == \E g \in TX : l = <<g, 0>> /\ hand[g] = tx
        Carried(l) == l = <<tx, -1>> /\ carry = tx
    <2>1. \A l \in Places(tx) : Cell(l) \/ Hand(l) \/ Carried(l)
      BY DEF Places
    <2>2. \A g \in TX, k \in 1..ChanBuffer :
            k <= Len(ch[g]) /\ ch[g][k] = tx => k \in 1..Len(ch[g]) /\ Queued(ch[g], tx)
      BY <1>1, SizeAssumption DEF Queued, Typed, TypeOK
    <2>3. CASE Cell(p) /\ Cell(q)
      BY <1>1, <2>2, <2>3 DEF Apart, Distinct
    <2>4. CASE Hand(p) /\ Hand(q)
      BY <1>1, <2>4, TXAssumption DEF Apart
    <2>5. CASE Carried(p) /\ Carried(q)
      BY <2>5
    <2>6. ~(Cell(p) /\ Hand(q)) /\ ~(Cell(q) /\ Hand(p))
      BY <1>1, <2>2 DEF Apart
    <2>7. ~(Cell(p) /\ Carried(q)) /\ ~(Cell(q) /\ Carried(p))
      BY <1>1, <2>2 DEF Apart
    <2>8. ~(Hand(p) /\ Carried(q)) /\ ~(Hand(q) /\ Carried(p))
      BY <1>1, TXAssumption DEF Apart
    <2>9. (Cell(p) \/ Hand(p) \/ Carried(p)) /\ (Cell(q) \/ Hand(q) \/ Carried(q))
      BY <2>1
    <2>10. QED
      BY <2>3, <2>4, <2>5, <2>6, <2>7, <2>8, <2>9
  <1>2. ASSUME Typed, NEW tx \in TX PROVE Present(tx) <=> Places(tx) # {}
    <2>1. ASSUME NEW g \in TX, Queued(ch[g], tx) PROVE Places(tx) # {}
      <3>1. PICK k \in 1..Len(ch[g]) : ch[g][k] = tx
        BY <2>1 DEF Queued
      <3>2. k \in 1..ChanBuffer /\ k <= Len(ch[g])
        BY <1>2, <3>1, SizeAssumption DEF Typed, TypeOK
      <3>3. <<g, k>> \in Places(tx)
        BY <3>1, <3>2 DEF Places
      <3>4. QED
        BY <3>3
    <2>2. ASSUME NEW g \in TX, hand[g] = tx PROVE <<g, 0>> \in Places(tx)
      BY <2>2 DEF Places
    <2>3. carry = tx => <<tx, -1>> \in Places(tx)
      BY DEF Places
    <2>4. ASSUME NEW l \in Places(tx) PROVE Present(tx)
      BY <1>2, SizeAssumption DEF Places, Present, Queued, Typed, TypeOK
    <2>5. QED
      BY <2>1, <2>2, <2>3, <2>4 DEF Present
  <1>3. ASSUME Typed, Hold PROVE HeldOnce
    <2> SUFFICES ASSUME NEW tx \in TX
                 PROVE  Cardinality(Places(tx)) = IF Unanswered(tx) THEN 1 ELSE 0
      BY DEF HeldOnce, Unanswered
    <2>1. CASE Unanswered(tx)
      <3>1. PICK p : p \in Places(tx)
        BY <1>2, <1>3, <2>1 DEF Hold, Kept
      <3>2. Places(tx) = {p}
        BY <1>1, <1>3, <3>1 DEF Hold
      <3>3. QED
        BY <2>1, <3>2, FS_Singleton
    <2>2. CASE ~Unanswered(tx)
      BY <1>2, <1>3, <2>2, FS_EmptySet DEF Hold, Kept
    <2>3. QED
      BY <2>1, <2>2
  <1>4. QED
    BY <1>3, TypedAlways, HoldAlways, PTL

-----------------------------------------------------------------------------
(* Payments that all share one account *)

SharedBy(hub) == hub \in IBAN /\ \A tx \in TX : hub \in Accounts(tx)

(* Whatever account leads to a group, the shared one leads there too. *)
OneGroup(hub) ==
  /\ \A i \in IBAN : ibanToGroup[i] \in {Nil, ibanToGroup[hub]}
  /\ \A tx \in TX : ~Merger(tx)
  /\ \A g \in TX : ~merging[g]
  /\ stolen = {}

LEMMA OneGroupInit == ASSUME NEW hub, SharedBy(hub), Init PROVE OneGroup(hub)
  BY DEF SharedBy, Init, OneGroup, Merger

LEMMA OneGroupStep ==
  ASSUME NEW hub, SharedBy(hub), Typed, OneGroup(hub), [Next]_vars
  PROVE  OneGroup(hub)'
  <1>t. /\ pc \in [TX -> {"lock", "slot", "recheck", "send", "count", "accepted",
                           "drainWait", "drain", "refused"}]
        /\ ibanToGroup \in [IBAN -> TX \cup {Nil}]
    BY DEF Typed, TypeOK
  (* The two accounts of a payment never lead to two groups. *)
  <1>k. ASSUME NEW tx \in TX
        PROVE  /\ gA(tx) = Nil \/ gB(tx) = Nil \/ gA(tx) = gB(tx)
               /\ Known(tx) => FirstKnown(tx) = ibanToGroup[hub]
               /\ ~Known(tx) => ibanToGroup[hub] = Nil
               /\ \A i \in Accounts(tx) : ibanToGroup[i] \in {Nil, ibanToGroup[hub]}
    BY IbanAssumption, TXAssumption
       DEF SharedBy, OneGroup, Accounts, gA, gB, Known, FirstKnown
  <1> USE <1>t, IbanAssumption, TXAssumption
      DEF OneGroup, Merger, Goto, adderVars, mapVars, groupVars, countVars,
          poolVars, procVars, endVars
  <1>1. ASSUME NEW tx \in TX, AddConnects(tx) PROVE OneGroup(hub)'
    BY <1>1, <1>k DEF AddConnects, Pointed, SharedBy
  <1>2. ASSUME NEW tx \in TX, AddMerges(tx) PROVE FALSE
    BY <1>2, <1>k DEF AddMerges
  <1>3. ASSUME NEW tx \in TX, RecheckJoins(tx) PROVE OneGroup(hub)'
    <2>1. stolen' = {}
      BY <1>3, <1>k DEF RecheckJoins, StillUnknown
    <2>2. QED
      BY <1>3, <1>k, <2>1 DEF RecheckJoins, StillUnknown, Pointed, SharedBy
  <1>4. ASSUME NEW tx \in TX, RecheckCreates(tx) PROVE OneGroup(hub)'
    BY <1>4, <1>k DEF RecheckCreates, StillUnknown, Pointed, SharedBy
  <1>5. ASSUME NEW tx \in TX,
               DrainBegins(tx) \/ DrainTakes(tx) \/ DrainGives(tx) \/ DrainEnds(tx)
        PROVE  FALSE
    BY <1>5 DEF DrainBegins, DrainTakes, DrainGives, DrainEnds
  <1>6. ASSUME NEW tx \in TX,
               \/ AddRefused(tx) \/ AddSeesNoGroup(tx) \/ TakeSlot(tx) \/ Send(tx)
               \/ Count(tx) \/ GiveUp(tx)
        PROVE  OneGroup(hub)'
    BY <1>6 DEF AddRefused, AddSeesNoGroup, TakeSlot, Send, Count, GiveUp
  <1>7. ASSUME NEW g \in TX, RunWorker(g) \/ Wait(g) PROVE OneGroup(hub)'
    BY <1>7 DEF RunWorker, Wait, Receive, Finish, LeaveToMerge, BeginDrain,
                EndDrain, CallWait, WaitReturns
  <1>8. CASE Cancel \/ ShutdownReturns \/ UNCHANGED vars
    BY <1>8 DEF Cancel, ShutdownReturns, vars
  <1>9. QED
    BY <1>1, <1>2, <1>3, <1>4, <1>5, <1>6, <1>7, <1>8 DEF Next, Add, Locked

(* If all payments share an account, no two are ever processed at the same time
   (dispather.go:9-10), however many there are and whatever fails. *)
THEOREM SharedAccountIsSerial ==
  ASSUME NEW hub, SharedBy(hub)
  PROVE  Spec => []SerialPerAccount
  <1>1. Init => OneGroup(hub)
    BY OneGroupInit
  <1>2. Typed /\ OneGroup(hub) /\ [Next]_vars => OneGroup(hub)'
    BY OneGroupStep
  <1>3. OneGroup(hub) /\ ParallelOnlyByMergeOrSteal => SerialPerAccount
    BY DEF OneGroup, ParallelOnlyByMergeOrSteal, SerialPerAccount
  <1>4. QED
    BY <1>1, <1>2, <1>3, TypedAlways, ParallelNoThirdWay, PTL DEF Spec

(* The calls that have sent a payment to a group and not counted it yet. *)
Counting(g) == {tx \in TX : pc[tx] = "count" /\ target[tx] = g}

LEMMA WgInit == Init => WgAccountsForGroup
  <1> SUFFICES ASSUME Init, NEW g \in TX
               PROVE  wg[g] + Cardinality(Counting(g)) = Len(ch[g]) + InHand(g)
    BY DEF WgAccountsForGroup, Counting
  <1>1. Counting(g) = {} /\ wg[g] = 0 /\ ch[g] = <<>> /\ InHand(g) = 0
    BY DEF Init, Counting, InHand
  <1>2. QED
    BY <1>1, FS_EmptySet

LEMMA WgStep ==
  ASSUME NEW hub, Typed, OneGroup(hub), HandTold, WgAccountsForGroup, [Next]_vars
  PROVE  WgAccountsForGroup'
  <1>t. /\ pc \in [TX -> {"lock", "slot", "recheck", "send", "count", "accepted",
                           "drainWait", "drain", "refused"}]
        /\ target \in [TX -> TX \cup {Nil}] /\ hand \in [TX -> TX \cup {Nil}]
        /\ ch \in [TX -> Seq(TX)] /\ wg \in [TX -> Int]
        /\ worker \in [TX -> {"none", "select", "process", "drain",
                             "drainProcess", "exited"}]
        /\ \A tx \in TX : pc[tx] \in {"send", "count"} => target[tx] \in TX
    BY DEF Typed, TypeOK, Bound
  <1>n. \A g \in TX : Counting(g) \in SUBSET TX /\ Cardinality(Counting(g)) \in Nat
    BY CountsFinite DEF Counting
  <1>o. \A g \in TX : wg[g] + Cardinality(Counting(g)) = Len(ch[g]) + InHand(g)
    BY DEF WgAccountsForGroup, Counting
  <1>p. ASSUME \A g \in TX : wg'[g] + Cardinality(Counting(g)') = Len(ch'[g]) + InHand(g)'
        PROVE  WgAccountsForGroup'
    BY <1>p DEF WgAccountsForGroup, Counting
  (* A step that touches neither the channels nor the counts. *)
  <1>a. ASSUME UNCHANGED <<ch, hand, wg>>, \A g \in TX : Counting(g)' = Counting(g)
        PROVE  WgAccountsForGroup'
    BY <1>a, <1>o, <1>p DEF InHand
  <1> USE <1>t, TXAssumption
      DEF Goto, adderVars, mapVars, groupVars, countVars, poolVars, procVars,
          endVars
  <1>1. ASSUME NEW tx \in TX,
               \/ AddRefused(tx) \/ AddSeesNoGroup(tx) \/ AddConnects(tx)
               \/ TakeSlot(tx) \/ GiveUp(tx) \/ RecheckJoins(tx) \/ RecheckCreates(tx)
        PROVE  WgAccountsForGroup'
    BY <1>1, <1>a DEF Counting, AddRefused, AddSeesNoGroup, AddConnects,
                      TakeSlot, GiveUp, RecheckJoins, RecheckCreates
  <1>2. ASSUME NEW tx \in TX, Send(tx) PROVE WgAccountsForGroup'
    <2>0. PICK to \in TX : target[tx] = to
      BY <1>2 DEF Send
    <2>1. /\ ch' = [ch EXCEPT ![to] = Append(@, tx)]
          /\ UNCHANGED <<wg, hand>>
          /\ Counting(to)' = Counting(to) \cup {tx} /\ tx \notin Counting(to)
          /\ \A g \in TX \ {to} : Counting(g)' = Counting(g)
      BY <1>2, <2>0 DEF Send, Enqueue, Counting
    <2>2. Cardinality(Counting(to)') = Cardinality(Counting(to)) + 1
      BY <1>n, <2>1, CountAdded
    <2>3. Len(ch'[to]) = Len(ch[to]) + 1 /\ Len(ch[to]) \in Nat
      BY <2>1
    <2>4. \A g \in TX : InHand(g)' = InHand(g) /\ InHand(g) \in Nat
      BY <2>1 DEF InHand
    <2>5. ASSUME NEW g \in TX
          PROVE  wg'[g] + Cardinality(Counting(g)') = Len(ch'[g]) + InHand(g)'
      <3>1. wg'[g] = wg[g] /\ wg[g] + Cardinality(Counting(g)) = Len(ch[g]) + InHand(g)
        BY <1>o, <2>1
      <3>2. CASE g = to
        BY <1>n, <2>2, <2>3, <2>4, <3>1, <3>2
      <3>3. CASE g # to
        BY <2>1, <2>4, <3>1, <3>3
      <3>4. QED
        BY <3>2, <3>3
    <2>6. QED
      BY <1>p, <2>5
  <1>3. ASSUME NEW tx \in TX, Count(tx) PROVE WgAccountsForGroup'
    <2>0. PICK to \in TX : target[tx] = to
      BY <1>3 DEF Count
    <2>1. /\ wg' = [wg EXCEPT ![to] = @ + 1]
          /\ UNCHANGED <<ch, hand>>
          /\ Counting(to)' = Counting(to) \ {tx} /\ tx \in Counting(to)
          /\ \A g \in TX \ {to} : Counting(g)' = Counting(g)
      BY <1>3, <2>0 DEF Count, Counted, Counting
    <2>2. Cardinality(Counting(to)') = Cardinality(Counting(to)) - 1
      BY <1>n, <2>1, CountRemoved
    <2>3. \A g \in TX : InHand(g)' = InHand(g) /\ InHand(g) \in Nat /\ Len(ch'[g]) = Len(ch[g])
      BY <2>1 DEF InHand
    <2>4. ASSUME NEW g \in TX
          PROVE  wg'[g] + Cardinality(Counting(g)') = Len(ch'[g]) + InHand(g)'
      <3>1. wg[g] + Cardinality(Counting(g)) = Len(ch[g]) + InHand(g)
        BY <1>o
      <3>2. CASE g = to
        <4>1. wg'[g] = wg[g] + 1
          BY <2>1, <3>2
        <4>2. QED
          BY <1>n, <2>2, <2>3, <3>1, <3>2, <4>1
      <3>3. CASE g # to
        BY <2>1, <2>3, <3>1, <3>3
      <3>4. QED
        BY <3>2, <3>3
    <2>5. QED
      BY <1>p, <2>4
  <1>4. ASSUME NEW g \in TX, Receive(g) PROVE WgAccountsForGroup'
    <2>1. /\ ch[g] # <<>> /\ hand[g] = Nil /\ Head(ch[g]) \in TX
          /\ ch' = [ch EXCEPT ![g] = Tail(@)]
          /\ hand' = [hand EXCEPT ![g] = Head(ch[g])]
          /\ UNCHANGED <<wg, pc, target>>
      <3>1. ch[g] # <<>> /\ hand[g] = Nil
        BY <1>4 DEF Receive, HandTold
      <3>2. ch[g] \in Seq(TX)
        OBVIOUS
      <3>3. Head(ch[g]) \in TX
        BY <3>1, <3>2
      <3>4. QED
        BY <1>4, <3>1, <3>3 DEF Receive, Dequeued
    <2>2. Len(ch'[g]) = Len(ch[g]) - 1 /\ InHand(g) = 0 /\ InHand(g)' = 1
      <3>1. ch[g] \in Seq(TX) /\ ch'[g] = Tail(ch[g])
        BY <2>1
      <3>2. Len(ch'[g]) = Len(ch[g]) - 1
        BY <2>1, <3>1
      <3>3. hand'[g] \in TX /\ hand'[g] # Nil
        BY <2>1, TXAssumption
      <3>4. QED
        BY <2>1, <3>2, <3>3 DEF InHand
    <2>3. \A h \in TX : /\ Len(ch[h]) \in Nat /\ Counting(h)' = Counting(h)
                        /\ h # g => ch'[h] = ch[h] /\ InHand(h)' = InHand(h)
      BY <2>1 DEF Counting, InHand
    <2>4. ASSUME NEW h \in TX
          PROVE  wg'[h] + Cardinality(Counting(h)') = Len(ch'[h]) + InHand(h)'
      <3>1. /\ wg[h] + Cardinality(Counting(h)) = Len(ch[h]) + InHand(h)
            /\ wg[h] \in Int /\ Cardinality(Counting(h)) \in Nat
        BY <1>n, <1>o
      <3>2. CASE h = g
        BY <2>1, <2>2, <2>3, <3>1, <3>2
      <3>3. CASE h # g
        BY <2>1, <2>3, <3>1, <3>3
      <3>4. QED
        BY <3>2, <3>3
    <2>5. QED
      BY <1>p, <2>4
  <1>5. ASSUME NEW g \in TX, Finish(g) PROVE WgAccountsForGroup'
    <2>1. /\ hand[g] # Nil /\ hand' = [hand EXCEPT ![g] = Nil]
          /\ wg' = [wg EXCEPT ![g] = @ - 1]
          /\ UNCHANGED <<ch, pc, target>>
      BY <1>5 DEF Finish, Done, HandTold
    <2>2. InHand(g) = 1 /\ InHand(g)' = 0
      BY <2>1 DEF InHand
    <2>3. \A h \in TX : /\ Len(ch[h]) \in Nat /\ Counting(h)' = Counting(h)
                        /\ h # g => InHand(h)' = InHand(h)
      BY <2>1 DEF Counting, InHand
    <2>4. ASSUME NEW h \in TX
          PROVE  wg'[h] + Cardinality(Counting(h)') = Len(ch'[h]) + InHand(h)'
      <3>1. /\ wg[h] + Cardinality(Counting(h)) = Len(ch[h]) + InHand(h)
            /\ wg[h] \in Int /\ Cardinality(Counting(h)) \in Nat
        BY <1>n, <1>o
      <3>2. CASE h = g
        BY <2>1, <2>2, <2>3, <3>1, <3>2
      <3>3. CASE h # g
        BY <2>1, <2>3, <3>1, <3>3
      <3>4. QED
        BY <3>2, <3>3
    <2>5. QED
      BY <1>p, <2>4
  <1>6. ASSUME NEW g \in TX, LeaveToMerge(g) \/ BeginDrain(g) \/ EndDrain(g) \/ Wait(g)
        PROVE  WgAccountsForGroup'
    BY <1>6, <1>a DEF Counting, LeaveToMerge, BeginDrain, EndDrain, Leave, Wait,
                      CallWait, WaitReturns
  <1>7. CASE Cancel \/ ShutdownReturns \/ UNCHANGED vars
    BY <1>7, <1>a DEF Counting, Cancel, ShutdownReturns, vars
  <1>8. ASSUME NEW tx \in TX,
               DrainBegins(tx) \/ DrainTakes(tx) \/ DrainGives(tx) \/ DrainEnds(tx)
        PROVE  FALSE
    BY <1>8 DEF OneGroup, Merger, DrainBegins, DrainTakes, DrainGives, DrainEnds
  <1>9. ASSUME NEW tx \in TX, AddMerges(tx) PROVE WgAccountsForGroup'
    BY <1>9, <1>a DEF Counting, AddMerges
  <1>10. QED
    BY <1>1, <1>2, <1>3, <1>4, <1>5, <1>6, <1>7, <1>8, <1>9
       DEF Next, Add, Locked, RunWorker

(* If all payments share an account, a group's counter, with the payments that
   are sent and not counted yet, makes up what is in the group's channel and in
   its worker's hands (paymentGroup.go:43): the counter is negative only in the
   moment between a send and its count. *)
THEOREM SharedAccountIsCounted ==
  ASSUME NEW hub, SharedBy(hub)
  PROVE  Spec => []WgAccountsForGroup
  <1>1. Init => OneGroup(hub)
    BY OneGroupInit
  <1>2. Typed /\ OneGroup(hub) /\ [Next]_vars => OneGroup(hub)'
    BY OneGroupStep
  <1>3. Typed /\ OneGroup(hub) /\ Hold /\ WgAccountsForGroup /\ [Next]_vars
          => WgAccountsForGroup'
    BY WgStep DEF Hold
  <1>4. QED
    BY <1>1, <1>2, <1>3, TypedAlways, HoldAlways, WgInit, PTL DEF Spec
=============================================================================
