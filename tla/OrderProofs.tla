------------------------------ MODULE OrderProofs ------------------------------
(***************************************************************************)
(* OvertakenOnlyInMerge for every set of payments.  A payment that follows *)
(* an accepted one on an unstolen account is routed to the same group, if  *)
(* that is not merged away (Routing), and from then on stands behind it in *)
(* that group's channel or is not sent yet (InLine).                       *)
(***************************************************************************)
EXTENDS DispatcherOrder, ManagerProofs

(* A payment is away from the group it was routed to only if that is merged. *)
Placed ==
  \A tx \in TX :
    /\ \A g \in TX : Queued(ch[g], tx) \/ hand[g] = tx =>
         g = target[tx] \/ merging[target[tx]]
    /\ carry = tx => merging[target[tx]]

Before(s, t, u) == \A j, k \in 1..Len(s) : s[j] = t /\ s[k] = u => j < k

InLine(t, u) ==
  /\ ~Handed(u) /\ ~Early(u)
  /\ pc[u] = "refused" \/ target[u] = target[t]
  /\ Before(ch[target[t]], t, u)

Shared(t, u) == Accounts(t) \cap Accounts(u)
Excused(t, u) == merging[target[t]] \/ Shared(t, u) \subseteq stolen

Ordered ==
  /\ earlier \subseteq TX \X TX
  /\ \A t, u \in TX : <<t, u>> \in earlier =>
       /\ t # u /\ pc[t] = "accepted" /\ ~(pc[u] = "lock")
       /\ Handed(t) \/ Excused(t, u) \/ InLine(t, u)

-----------------------------------------------------------------------------
(* What a step can do to a call and to where the payments are *)

Stays(tx) ==
  /\ ~Early(tx) => ~Early(tx)' /\ target'[tx] = target[tx]
  /\ \A end \in {"accepted", "refused"} : pc[tx] = end => pc'[tx] = end
  /\ pc[tx] # "lock" => pc'[tx] # "lock"
  /\ merging[tx] => merging'[tx]
  /\ stolen \subseteq stolen'

LEMMA CallsStay == ASSUME Typed, [Next]_vars, NEW tx \in TX PROVE Stays(tx)
  <1> USE DEF Goto, Early, Stays, Typed, TypeOK, adderVars, mapVars, groupVars,
              countVars, poolVars, procVars, endVars
  <1>1. ASSUME NEW c \in TX,
               \/ AddRefused(c) \/ AddSeesNoGroup(c) \/ AddConnects(c) \/ TakeSlot(c)
               \/ AddMerges(c) \/ RecheckJoins(c) \/ RecheckCreates(c)
        PROVE  Stays(tx)
    BY <1>1 DEF AddRefused, AddSeesNoGroup, AddConnects, TakeSlot, AddMerges,
                RecheckJoins, RecheckCreates
  <1>2. ASSUME NEW c \in TX,
               \/ DrainBegins(c) \/ DrainTakes(c) \/ DrainGives(c) \/ DrainEnds(c)
               \/ Send(c) \/ Count(c) \/ GiveUp(c)
        PROVE  Stays(tx)
    BY <1>2 DEF DrainBegins, DrainTakes, DrainGives, DrainEnds, Send, Count, GiveUp
  <1>3. ASSUME NEW g \in TX, RunWorker(g) \/ Wait(g) PROVE Stays(tx)
    BY <1>3 DEF RunWorker, Receive, Finish, LeaveToMerge, BeginDrain, EndDrain,
                Wait, CallWait, WaitReturns
  <1>4. CASE Cancel \/ ShutdownReturns \/ UNCHANGED vars
    BY <1>4 DEF Cancel, ShutdownReturns, vars
  <1>5. QED
    BY <1>1, <1>2, <1>3, <1>4 DEF Next, Add, Locked

-----------------------------------------------------------------------------
(* Payments stay where they were routed *)

LEMMA PlacedStep ==
  ASSUME Typed, MergerRoots, Hold, Placed, [Next]_vars PROVE Placed'
  <1>t. ch \in [TX -> Seq(TX)] /\ hand \in [TX -> TX \cup {Nil}] /\ Apart
    BY DEF Typed, TypeOK, Hold
  <1>1. ASSUME NEW x \in TX, Sent(x) \/ pc[x] = "send"
        PROVE  target'[x] = target[x] /\ (merging[target[x]] => merging'[target[x]])
    <2>1. ~Early(x) /\ target[x] \in TX
      BY <1>1 DEF Sent, Early, Typed, Bound
    <2>2. QED
      BY <2>1, CallsStay DEF Stays
  <1>2. \A x \in TX : Present(x) => Sent(x)
    BY DEF Hold, Kept, Unanswered
  <1>3. ASSUME Resting PROVE Placed'
    BY <1>1, <1>2, <1>3 DEF Resting, Placed, Present
  (* Where a payment was, it was rightly; x alone may have moved. *)
  <1>a. ASSUME NEW x \in TX, Sent(x) \/ pc[x] = "send",
               \A y, h \in TX : Queued(ch'[h], y) \/ hand'[h] = y =>
                  \/ Queued(ch[h], y) \/ hand[h] = y
                  \/ y = x /\ (h = target[x] \/ merging[target[x]]),
               \A y \in TX : carry' = y =>
                  carry = y \/ (y = x /\ merging[target[x]])
        PROVE  Placed'
    BY <1>a, <1>1, <1>2 DEF Placed, Present
  <1>4. ASSUME NEW x \in TX, NEW g \in TX, Enters(x, g) PROVE Placed'
    <2>1. \A y, h \in TX : Queued(ch'[h], y) => Queued(ch[h], y) \/ (y = x /\ h = g)
      BY <1>4, <1>t, QueuedAppend DEF Enters, Enqueue
    <2>2. Sent(x) \/ pc[x] = "send"
      BY <1>2, <1>4 DEF Enters, Present
    <2>3. g = target[x] \/ merging[target[x]]
      BY <1>4 DEF Enters, Placed
    <2>4. hand' = hand /\ \A y \in TX : carry' = y => carry = y
      BY <1>4, TXAssumption DEF Enters
    <2>5. QED
      BY <1>a, <2>1, <2>2, <2>3, <2>4
  <1>5. ASSUME NEW x \in TX, NEW g \in TX, Departs(x, g) PROVE Placed'
    <2>1. Queued(ch[g], x) /\ \A y, h \in TX : Queued(ch'[h], y) => Queued(ch[h], y)
      BY <1>5, <1>t, QueuedHead, QueuedTail DEF Departs
    <2>2. Sent(x)
      BY <1>2, <2>1 DEF Present
    <2>3. g = target[x] \/ merging[target[x]]
      BY <2>1 DEF Placed
    <2>4. CASE merging[g] /\ carry' = x /\ hand' = hand
      BY <1>a, <2>1, <2>2, <2>3, <2>4
    <2>5. CASE hand' = [hand EXCEPT ![g] = x] /\ carry' = carry
      <3>1. \A y, h \in TX : hand'[h] = y => hand[h] = y \/ (y = x /\ h = g)
        BY <1>t, <2>5
      <3>2. QED
        BY <1>a, <2>1, <2>2, <2>3, <2>5, <3>1
    <2>6. QED
      BY <1>5, <2>4, <2>5 DEF Departs
  <1>6. ASSUME NEW x \in TX, NEW g \in TX, IsAnswered(x, g) PROVE Placed'
    <2>1. Sent(x)
      BY <1>2, <1>6 DEF IsAnswered, Present
    <2>2. \A y, h \in TX : hand'[h] = y => hand[h] = y
      BY <1>6, <1>t, TXAssumption DEF IsAnswered
    <2>3. QED
      BY <1>a, <1>6, <2>1, <2>2 DEF IsAnswered
  <1>7. QED
    BY <1>3, <1>4, <1>5, <1>6, PaymentsMove DEF Hold

-----------------------------------------------------------------------------
(* The order is inductive *)

LEMMA HandedStays ==
  ASSUME Typed, MergerRoots, Hold, [Next]_vars, NEW t \in TX, Handed(t)
  PROVE  Handed(t)'
  <1>t. /\ hand \in [TX -> TX \cup {Nil}] /\ ch \in [TX -> Seq(TX)] /\ Kept /\ Apart
        /\ fate \in [TX -> {"none", "doomed", "processed", "failed"}]
    BY DEF Typed, TypeOK, Hold
  <1>1. ASSUME NEW x \in TX, NEW g \in TX, Departs(x, g) PROVE Handed(t)'
    <2>1. Queued(ch[g], x)
      BY <1>1, <1>t, QueuedHead DEF Departs
    <2>2. fate[x] \in {"none", "doomed"}
      BY <1>t, <2>1 DEF Kept, Present, Unanswered
    <2>3. QED
      BY <1>1, <1>t, <2>2, TXAssumption DEF Departs, HandedOver, Handed
  <1>2. ASSUME NEW x \in TX, NEW g \in TX, IsAnswered(x, g) PROVE Handed(t)'
    BY <1>2, <1>t DEF IsAnswered, Handed
  <1>3. ASSUME NEW x \in TX, NEW g \in TX, Enters(x, g) PROVE Handed(t)'
    BY <1>3 DEF Enters, Handed
  <1>4. ASSUME Resting PROVE Handed(t)'
    BY <1>4 DEF Resting, Handed
  <1>5. QED
    BY <1>1, <1>2, <1>3, <1>4, PaymentsMove DEF Hold

(* An accepted payment waits in its group's channel, until it is handed over
   or the group is merged away. *)
LEMMA Waits ==
  ASSUME Typed, Hold, Placed, NEW t \in TX, pc[t] = "accepted",
         ~Handed(t), ~merging[target[t]]
  PROVE  target[t] \in TX /\ Queued(ch[target[t]], t)
  <1>1. Unanswered(t)
    BY DEF Handed, Unanswered, Sent, Typed, TypeOK
  <1>2. Present(t) /\ target[t] \in TX
    BY <1>1 DEF Hold, Kept, Typed, Bound
  <1>3. QED
    BY <1>2 DEF Present, Placed, Handed

LEMMA LineStays ==
  ASSUME Typed, MergerRoots, Hold, Placed, [Next]_vars,
         NEW t \in TX, NEW u \in TX, t # u, pc[t] = "accepted", InLine(t, u),
         ~Handed(t), ~merging[target[t]]
  PROVE  InLine(t, u)'
  <1> DEFINE g == target[t]
  <1>t. /\ ch \in [TX -> Seq(TX)] /\ hand \in [TX -> TX \cup {Nil}]
        /\ fate \in [TX -> {"none", "doomed", "processed", "failed"}]
        /\ Kept /\ HandTold
    BY DEF Typed, TypeOK, Hold
  <1>1. g \in TX /\ Queued(ch[g], t) /\ target'[t] = g
    BY Waits, CallsStay DEF Stays, Early
  <1>2. ~Early(u)' /\ (pc'[u] = "refused" \/ target'[u] = g)
    BY <1>1, CallsStay DEF Stays, InLine
  <1>3. Before(ch[g], t, u) /\ ~Handed(u)
    BY DEF InLine
  <1>a. ASSUME Before(ch'[g], t, u), ~Handed(u)' PROVE InLine(t, u)'
    BY <1>a, <1>1, <1>2 DEF InLine
  <1> HIDE DEF g
  <1>4. ASSUME Resting PROVE InLine(t, u)'
    BY <1>a, <1>3, <1>4 DEF Resting, Handed
  <1>5. ASSUME NEW x \in TX, NEW h \in TX, Enters(x, h) PROVE InLine(t, u)'
    <2>1. x # t
      BY <1>5 DEF Enters, Placed
    <2>2. Before(ch'[g], t, u)
      <3>1. CASE h = g
        <4>1. ch'[g] = Append(ch[g], x) /\ ch[g] \in Seq(TX)
          BY <1>1, <1>5, <1>t, <3>1 DEF Enters, Enqueue
        <4>2. /\ Len(ch'[g]) = Len(ch[g]) + 1 /\ Len(ch[g]) \in Nat
              /\ ch'[g][Len(ch[g]) + 1] = x
              /\ \A k \in 1..Len(ch[g]) : ch'[g][k] = ch[g][k]
          BY <4>1
        <4>3. \A k \in 1..Len(ch'[g]) : k \in 1..Len(ch[g]) \/ k = Len(ch[g]) + 1
          BY <4>2
        <4>4. SUFFICES ASSUME NEW j \in 1..Len(ch'[g]), NEW k \in 1..Len(ch'[g]),
                              ch'[g][j] = t, ch'[g][k] = u
                       PROVE  j < k
          BY DEF Before
        <4>5. j \in 1..Len(ch[g]) /\ ch[g][j] = t
          BY <2>1, <4>2, <4>3, <4>4
        <4>6. CASE k \in 1..Len(ch[g])
          BY <1>3, <4>2, <4>4, <4>5, <4>6 DEF Before
        <4>7. CASE k = Len(ch[g]) + 1
          BY <4>2, <4>5, <4>7
        <4>8. QED
          BY <4>3, <4>6, <4>7
      <3>2. CASE h # g
        BY <1>1, <1>3, <1>5, <1>t, <3>2 DEF Enters, Enqueue
      <3>3. QED
        BY <3>1, <3>2
    <2>3. QED
      BY <1>a, <1>3, <1>5, <2>2 DEF Enters, Handed
  <1>6. ASSUME NEW x \in TX, NEW h \in TX, Departs(x, h) PROVE InLine(t, u)'
    <2>1. Before(ch'[g], t, u)
      <3>1. CASE h = g
        <4>1. ch'[g] = Tail(ch[g]) /\ ch[g] \in Seq(TX) /\ ch[g] # <<>>
          BY <1>1, <1>6, <1>t, <3>1 DEF Departs
        <4>2. /\ Len(ch'[g]) = Len(ch[g]) - 1 /\ Len(ch[g]) \in Nat
              /\ \A k \in 1..Len(ch'[g]) : ch'[g][k] = ch[g][k + 1]
          BY <4>1
        <4>3. SUFFICES ASSUME NEW j \in 1..Len(ch'[g]), NEW k \in 1..Len(ch'[g]),
                              ch'[g][j] = t, ch'[g][k] = u
                       PROVE  j < k
          BY DEF Before
        <4>4. j + 1 \in 1..Len(ch[g]) /\ k + 1 \in 1..Len(ch[g])
          BY <4>2
        <4>5. j + 1 < k + 1
          BY <1>3, <4>2, <4>3, <4>4 DEF Before
        <4>6. QED
          BY <4>2, <4>5
      <3>2. CASE h # g
        BY <1>1, <1>3, <1>6, <1>t, <3>2 DEF Departs
      <3>3. QED
        BY <3>1, <3>2
    (* The second of the two is not the one that leaves the channel. *)
    <2>2. ASSUME hand' = [hand EXCEPT ![h] = x] PROVE x # u
      <3> SUFFICES ASSUME x = u PROVE FALSE
        OBVIOUS
      <3>1. Queued(ch[h], u) /\ Sent(u)
        BY <1>6, <1>t, QueuedHead DEF Departs, Kept, Present, Unanswered
      <3>2. target[u] = g
        BY <3>1 DEF InLine, Sent, g
      <3>3. h = g
        BY <3>1, <3>2 DEF Placed, g
      <3>4. 1 \in 1..Len(ch[g]) /\ ch[g][1] = u
        <4>1. ch[g] \in Seq(TX) /\ ch[g] # <<>> /\ Head(ch[g]) = u
          BY <1>1, <1>6, <1>t, <3>3 DEF Departs
        <4>2. QED
          BY <4>1
      <3>5. PICK j \in 1..Len(ch[g]) : ch[g][j] = t
        BY <1>1 DEF Queued
      <3>6. j < 1
        BY <1>3, <3>4, <3>5 DEF Before
      <3>7. QED
        BY <3>5, <3>6
    <2>3. ~Handed(u)'
      BY <1>3, <1>6, <1>t, <2>2, TXAssumption DEF Departs, HandedOver, Handed
    <2>4. QED
      BY <1>a, <2>1, <2>3
  <1>7. ASSUME NEW x \in TX, NEW h \in TX, IsAnswered(x, h) PROVE InLine(t, u)'
    <2>1. x # u
      BY <1>3, <1>7 DEF IsAnswered, Handed
    <2>2. ~Handed(u)'
      BY <1>3, <1>7, <1>t, <2>1, TXAssumption DEF IsAnswered, Handed
    <2>3. QED
      BY <1>a, <1>3, <1>7, <2>2 DEF IsAnswered
  <1>8. QED
    BY <1>4, <1>5, <1>6, <1>7, PaymentsMove DEF Hold

(* A call on an unstolen account of an accepted payment that still waits finds
   that payment's group, or merges it away. *)
LEMMA LineBegins ==
  ASSUME Typed, Merges, Routing, Hold, Placed, [Next]_vars,
         NEW t \in TX, NEW u \in TX, pc[t] = "accepted", Called(u),
         ~Handed(t), ~merging'[target[t]], ~(Shared(t, u) \subseteq stolen)
  PROVE  InLine(t, u)'
  <1> DEFINE g == target[t]
  <1>t. /\ pc \in [TX -> {"lock", "slot", "recheck", "send", "count", "accepted",
                           "drainWait", "drain", "refused"}]
        /\ target \in [TX -> TX \cup {Nil}] /\ merging \in [TX -> BOOLEAN]
        /\ ibanToGroup \in [IBAN -> TX \cup {Nil}]
        /\ fate \in [TX -> {"none", "doomed", "processed", "failed"}]
        /\ target[t] \in TX
    BY DEF Typed, TypeOK, Bound
  <1>1. ~merging[g]
    BY <1>t, CallsStay DEF Stays
  <1>2. Queued(ch[g], t)
    BY <1>1, Waits
  <1>3. PICK i \in Accounts(t) \cap Accounts(u) : i \notin stolen
    BY DEF Shared
  <1>4. ibanToGroup[i] = g /\ g # Nil
    BY <1>1, <1>2, <1>3, <1>t, TXAssumption DEF Routing, Held, Merges, MergerRoots
  <1>5. i = Deb[u] \/ i = Cred[u]
    BY <1>3 DEF Accounts
  <1>6. /\ t # u /\ target'[t] = g
        /\ fate[u] = "none" /\ ~Present(u)
    BY CallsStay DEF Called, Stays, Early, Hold, Kept, Unanswered, Sent
  <1> USE DEF Goto, adderVars, mapVars, groupVars, countVars, poolVars, procVars, endVars
  <1>7. AddRefused(u) \/ AddSeesNoGroup(u) \/ AddConnects(u) \/ AddMerges(u)
    <2>1. pc[u] = "lock" /\ pc'[u] # "lock"
      BY DEF Called
    <2>2. ASSUME NEW c \in TX,
                 AddRefused(c) \/ AddSeesNoGroup(c) \/ AddConnects(c) \/ AddMerges(c)
          PROVE  c = u
      BY <1>t, <2>1, <2>2 DEF AddRefused, AddSeesNoGroup, AddConnects, AddMerges
    <2>3. ASSUME NEW c \in TX,
                 \/ TakeSlot(c) \/ RecheckJoins(c) \/ RecheckCreates(c)
                 \/ DrainBegins(c) \/ DrainTakes(c) \/ DrainGives(c) \/ DrainEnds(c)
                 \/ Send(c) \/ Count(c) \/ GiveUp(c)
          PROVE  FALSE
      BY <1>t, <2>1, <2>3 DEF TakeSlot, RecheckJoins, RecheckCreates, DrainBegins,
         DrainTakes, DrainGives, DrainEnds, Send, Count, GiveUp
    <2>4. ASSUME NEW c \in TX, RunWorker(c) \/ Wait(c) PROVE FALSE
      BY <2>1, <2>4 DEF RunWorker, Receive, Finish, LeaveToMerge, BeginDrain,
         EndDrain, Wait, CallWait, WaitReturns
    <2>5. ~(Cancel \/ ShutdownReturns \/ UNCHANGED vars)
      BY <2>1 DEF Cancel, ShutdownReturns, vars
    <2>6. QED
      BY <2>2, <2>3, <2>4, <2>5 DEF Next, Add, Locked
  <1>8. UNCHANGED <<ch, hand, fate>>
    BY <1>7 DEF AddRefused, AddSeesNoGroup, AddConnects, AddMerges
  <1>9. ~Handed(u)' /\ Before(ch'[g], t, u)
    BY <1>6, <1>8, <1>t DEF Handed, Present, Before, Queued
  <1>10. ~Early(u)' /\ (pc'[u] = "refused" \/ target'[u] = g)
    <2>1. CASE AddRefused(u)
      BY <1>t, <2>1 DEF AddRefused, Early
    <2>2. CASE AddSeesNoGroup(u)
      BY <1>4, <1>5, <2>2 DEF AddSeesNoGroup, Known, gA, gB
    <2>3. CASE AddConnects(u)
      BY <1>4, <1>5, <1>t, <2>3 DEF AddConnects, FirstKnown, gA, gB, Early
    <2>4. CASE AddMerges(u)
      <3>1. g = gA(u)
        BY <1>4, <1>5, <1>t, <2>4 DEF AddMerges, gA, gB
      <3>2. QED
        BY <1>t, <2>4, <3>1 DEF AddMerges, Early
    <2>5. QED
      BY <1>7, <2>1, <2>2, <2>3, <2>4
  <1>11. QED
    BY <1>6, <1>9, <1>10 DEF InLine

LEMMA OrderedStep ==
  ASSUME Typed, Merges, Routing, Hold, Placed, Ordered, [ONext]_ovars
  PROVE  Ordered'
  <1>1. [Next]_vars /\ MergerRoots
    BY DEF ONext, ovars, Merges
  <1>2. earlier' \subseteq TX \X TX
    BY DEF Ordered, ONext, ovars
  <1> SUFFICES ASSUME NEW t \in TX, NEW u \in TX, <<t, u>> \in earlier'
               PROVE  /\ t # u /\ pc'[t] = "accepted" /\ pc'[u] # "lock"
                      /\ Handed(t)' \/ Excused(t, u)' \/ InLine(t, u)'
    BY <1>2 DEF Ordered
  <1>3. CASE <<t, u>> \in earlier
    <2>1. /\ t # u /\ pc[t] = "accepted" /\ pc[u] # "lock"
          /\ Handed(t) \/ Excused(t, u) \/ InLine(t, u)
      BY <1>3 DEF Ordered
    <2>2. /\ pc'[t] = "accepted" /\ pc'[u] # "lock" /\ target'[t] = target[t]
          /\ target[t] \in TX /\ stolen \subseteq stolen'
          /\ merging[target[t]] => merging'[target[t]]
      <3>1. target[t] \in TX
        BY <2>1 DEF Typed, Bound
      <3>2. QED
        BY <1>1, <2>1, <3>1, CallsStay DEF Stays, Early
    <2>3. CASE Handed(t)
      BY <1>1, <2>1, <2>2, <2>3, HandedStays
    <2>4. CASE Excused(t, u)
      BY <2>1, <2>2, <2>4 DEF Excused, Shared, Accounts
    <2>5. CASE InLine(t, u) /\ ~Handed(t) /\ ~Excused(t, u)
      BY <1>1, <2>1, <2>2, <2>5, LineStays DEF Excused
    <2>6. QED
      BY <2>1, <2>3, <2>4, <2>5
  <1>4. CASE pc[t] = "accepted" /\ Called(u) /\ Next
    <2>1. /\ t # u /\ pc'[t] = "accepted" /\ pc'[u] # "lock" /\ target'[t] = target[t]
          /\ stolen \subseteq stolen'
      BY <1>1, <1>4, CallsStay DEF Stays, Early, Called
    <2>2. CASE Handed(t)
      BY <1>1, <2>1, <2>2, HandedStays
    <2>3. CASE merging'[target[t]] \/ Shared(t, u) \subseteq stolen
      BY <2>1, <2>3 DEF Excused, Shared, Accounts
    <2>4. CASE ~Handed(t) /\ ~merging'[target[t]] /\ ~(Shared(t, u) \subseteq stolen)
      BY <1>1, <1>4, <2>1, <2>4, LineBegins
    <2>5. QED
      BY <2>2, <2>3, <2>4
  <1>5. QED
    BY <1>3, <1>4 DEF ONext, ovars

-----------------------------------------------------------------------------
LEMMA OrderAlways == OSpec => []Ordered
  <1>1. OInit => Init /\ Placed /\ Ordered
    BY TXAssumption DEF OInit, Init, Placed, Ordered, Queued
  <1>2. [ONext]_ovars => [Next]_vars
    BY DEF ONext, ovars
  <1>3. OSpec => Spec
    BY <1>1, <1>2, PTL DEF OSpec, Spec
  <1>4. Typed /\ Merges /\ Hold /\ Placed /\ [ONext]_ovars => Placed'
    BY <1>2, PlacedStep DEF Merges
  <1>5. QED
    BY <1>1, <1>3, <1>4, OrderedStep, TypedAlways, MergesAlways, RoutingAlways,
       HoldAlways, PTL DEF OSpec

(* A payment that was accepted before another one on the same account was
   routed is handed to ProcessTX before it, unless its group was merged away or
   the shared account was taken out of it (paymentGroup.go:16,
   PaymentManagerService.go:117-203). *)
THEOREM OrderIsKept == OSpec => []OvertakenOnlyInMerge
  <1>1. Ordered => OvertakenOnlyInMerge
    BY DEF Ordered, OvertakenOnlyInMerge, Excused, InLine, Shared
  <1>2. QED
    BY <1>1, OrderAlways, PTL

(* What was accepted first is handed over first. *)
InOrder == \A p \in earlier : Handed(p[2]) => Handed(p[1])

(* If all payments share an account, a payment accepted before the call for
   another one began is handed to ProcessTX before it, always
   (paymentGroup.go:16). *)
THEOREM SharedAccountKeepsOrder ==
  ASSUME NEW hub, SharedBy(hub)
  PROVE  OSpec => []InOrder
  <1>1. OInit => Init /\ OneGroup(hub)
    BY OneGroupInit DEF OInit
  <1>2. [ONext]_ovars => [Next]_vars
    BY DEF ONext, ovars
  <1>3. OSpec => Spec
    BY <1>1, <1>2, PTL DEF OSpec, Spec
  <1>4. Typed /\ OneGroup(hub) /\ [ONext]_ovars => OneGroup(hub)'
    BY <1>2, OneGroupStep
  <1>5. Typed /\ OneGroup(hub) /\ Ordered => InOrder
    <2> SUFFICES ASSUME Typed, OneGroup(hub), Ordered, NEW p \in earlier, Handed(p[2])
                 PROVE  Handed(p[1])
      BY DEF InOrder
    <2>1. p = <<p[1], p[2]>> /\ p[1] \in TX /\ p[2] \in TX
      BY DEF Ordered
    <2>2. hub \in Shared(p[1], p[2]) /\ hub \notin stolen
      BY <2>1 DEF SharedBy, Shared, OneGroup
    <2>3. pc[p[1]] = "accepted" /\ target[p[1]] \in TX
      BY <2>1 DEF Ordered, Typed, Bound
    <2>4. ~Excused(p[1], p[2]) /\ ~InLine(p[1], p[2])
      BY <2>2, <2>3 DEF Excused, InLine, OneGroup
    <2>5. QED
      BY <2>1, <2>4 DEF Ordered
  <1>6. QED
    BY <1>1, <1>3, <1>4, <1>5, OrderAlways, TypedAlways, PTL DEF OSpec
=============================================================================
