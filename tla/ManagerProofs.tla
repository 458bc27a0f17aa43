----------------------------- MODULE ManagerProofs -----------------------------
(***************************************************************************)
(* Dispatcher implements PaymentQueue, for every set of payments; and      *)
(* SerialQueue, if they all share an account.                              *)
(*                                                                         *)
(* A step of Dispatcher moves no payment, or moves one into a channel, out *)
(* of a channel or out of a worker's hands (PaymentsMove).                 *)
(***************************************************************************)
EXTENDS DispatcherQueueProofs

Resting == UNCHANGED <<ch, hand, carry, fate>>
Enters(x, g) ==
  /\ Enqueue(g, x) /\ UNCHANGED <<hand, fate>>
  /\ \/ pc[x] = "send" /\ target[x] = g /\ UNCHANGED carry
     \/ carry = x /\ carry' = Nil
Departs(x, g) ==
  /\ ch[g] # <<>> /\ x = Head(ch[g]) /\ ch' = [ch EXCEPT ![g] = Tail(@)]
  /\ \/ merging[g] /\ carry = Nil /\ carry' = x /\ UNCHANGED <<hand, fate>>
     \/ /\ Live(g) /\ hand[g] = Nil /\ hand' = [hand EXCEPT ![g] = x]
        /\ fate' = HandedOver(x) /\ UNCHANGED carry
IsAnswered(x, g) ==
  /\ hand[g] = x /\ hand' = [hand EXCEPT ![g] = Nil]
  /\ \E answer \in {"processed", "failed"} : fate' = [fate EXCEPT ![x] = answer]
  /\ UNCHANGED <<ch, carry>>

LEMMA PaymentsMove ==
  ASSUME Typed, MergerRoots, HandTold, [Next]_vars
  PROVE  Resting \/ \E x, g \in TX : Enters(x, g) \/ Departs(x, g) \/ IsAnswered(x, g)
  <1>t. /\ pc \in [TX -> {"lock", "slot", "recheck", "send", "count", "accepted",
                           "drainWait", "drain", "refused"}]
        /\ target \in [TX -> TX \cup {Nil}] /\ source \in [TX -> TX \cup {Nil}]
        /\ carry \in TX \cup {Nil} /\ hand \in [TX -> TX \cup {Nil}]
        /\ ch \in [TX -> Seq(TX)]
        /\ fate \in [TX -> {"none", "doomed", "processed", "failed"}]
        /\ \A tx \in TX : pc[tx] \in {"send", "drain"} => target[tx] \in TX
        /\ \A tx \in TX : pc[tx] = "drain" => source[tx] \in TX /\ merging[source[tx]]
    BY DEF Typed, TypeOK, Bound, Merger, MergerRoots
  <1> USE <1>t, TXAssumption
      DEF Goto, adderVars, mapVars, groupVars, countVars, poolVars, procVars,
          endVars
  <1>1. ASSUME NEW c \in TX,
               \/ AddRefused(c) \/ AddSeesNoGroup(c) \/ AddConnects(c) \/ TakeSlot(c)
               \/ AddMerges(c) \/ RecheckJoins(c) \/ RecheckCreates(c)
               \/ DrainBegins(c) \/ DrainEnds(c) \/ Count(c) \/ GiveUp(c)
        PROVE  Resting
    BY <1>1 DEF Resting, AddRefused, AddSeesNoGroup, AddConnects, TakeSlot, AddMerges,
                RecheckJoins, RecheckCreates, DrainBegins, DrainEnds, Count, GiveUp
  <1>2. ASSUME NEW c \in TX, Send(c) PROVE target[c] \in TX /\ Enters(c, target[c])
    BY <1>2 DEF Send, Enqueue, Enters
  <1>3. ASSUME NEW c \in TX, DrainTakes(c)
        PROVE  source[c] \in TX /\ carry' \in TX /\ Departs(carry', source[c])
    BY <1>3 DEF DrainTakes, Dequeued, Departs
  <1>4. ASSUME NEW c \in TX, DrainGives(c)
        PROVE  target[c] \in TX /\ carry \in TX /\ Enters(carry, target[c])
    BY <1>4 DEF DrainGives, Enqueue, Enters
  <1>5. ASSUME NEW g \in TX, Receive(g) PROVE \E x \in TX : Departs(x, g)
    <2>1. ch[g] # <<>> /\ hand[g] = Nil
      BY <1>5 DEF Receive, HandTold
    <2>2. ch[g] \in Seq(TX)
      OBVIOUS
    <2>3. PICK x \in TX : x = Head(ch[g])
      BY <2>1, <2>2
    <2>4. /\ ch' = [ch EXCEPT ![g] = Tail(@)] /\ hand' = [hand EXCEPT ![g] = x]
          /\ fate' = HandedOver(x) /\ UNCHANGED carry
      BY <1>5, <2>3, Zenon DEF Receive, Dequeued
    <2>5. Live(g)
      BY <1>5 DEF Receive, Live
    <2>6. QED
      BY <2>1, <2>3, <2>4, <2>5, Zenon DEF Departs
  <1>6. ASSUME NEW g \in TX, Finish(g) PROVE \E x \in TX : IsAnswered(x, g)
    <2>1. PICK x \in TX : hand[g] = x
      BY <1>6 DEF Finish, HandTold
    <2>2. \E answer \in {"processed", "failed"} : fate' = [fate EXCEPT ![x] = answer]
      BY <1>6, <2>1 DEF Finish
    <2>3. QED
      BY <1>6, <2>1, <2>2 DEF Finish, IsAnswered
  <1>7. ASSUME NEW g \in TX, LeaveToMerge(g) \/ BeginDrain(g) \/ EndDrain(g) \/ Wait(g)
        PROVE  Resting
    BY <1>7 DEF LeaveToMerge, BeginDrain, EndDrain, Leave, Wait, CallWait, WaitReturns,
                Resting
  <1>8. CASE Cancel \/ ShutdownReturns \/ UNCHANGED vars
    BY <1>8 DEF Cancel, ShutdownReturns, vars, Resting
  <1>9. QED
    BY <1>1, <1>2, <1>3, <1>4, <1>5, <1>6, <1>7, <1>8 DEF Next, Add, Locked, RunWorker

-----------------------------------------------------------------------------
(* PaymentQueue *)

LEMMA RangeIsQueued ==
  ASSUME NEW s \in Seq(TX), NEW tx \in TX
  PROVE  tx \in Range(s) <=> Queued(s, tx)
  <1>1. DOMAIN s = 1..Len(s)
    OBVIOUS
  <1>2. QED
    BY <1>1 DEF Queued, Range

LEMMA WaitingIsHeld ==
  /\ ch \in [TX -> Seq(TX)] =>
       \A tx \in TX : tx \in Waiting <=> carry = tx \/ \E g \in TX : Queued(ch[g], tx)
  /\ ch' \in [TX -> Seq(TX)] =>
       \A tx \in TX : tx \in Waiting' <=> carry' = tx \/ \E g \in TX : Queued(ch'[g], tx)
  BY RangeIsQueued DEF Waiting

(* What is about to enter a channel is in none. *)
LEMMA ComingIsNew ==
  ASSUME Hold, NEW x \in TX, pc[x] = "send" \/ carry = x, NEW g \in TX
  PROVE  Distinct(ch[g]) /\ ~Queued(ch[g], x)
  BY DEF Hold, Apart, Kept, Present, Unanswered, Sent

(* Whatever waits or is in a worker's hands was sent and has no answer. *)
LEMMA HeldOnesAreOpen ==
  ASSUME Typed, Hold
  PROVE  /\ Waiting \cup InHands \subseteq {tx \in TX : Unanswered(tx)}
         /\ Waiting \cap InHands = {}
  <1>1. ch \in [TX -> Seq(TX)]
    BY DEF Typed, TypeOK
  <1>2. Waiting \cup InHands \subseteq {tx \in TX : Unanswered(tx)}
    BY <1>1, WaitingIsHeld DEF Hold, Kept, Present, InHands, Waiting
  <1>3. Waiting \cap InHands = {}
    BY <1>1, WaitingIsHeld, TXAssumption DEF Hold, Apart, InHands
  <1>4. QED
    BY <1>2, <1>3

(* A worker with empty hands has a slot that no payment in other hands uses. *)
LEMMA HandsLeaveASlot ==
  ASSUME Typed, Hold, SlotsExact, NEW g \in TX, Live(g), hand[g] = Nil
  PROVE  Cardinality(InHands) < MaxWorkers
  <1> DEFINE others == LiveGroups \ {g}
             holder == [tx \in InHands |-> CHOOSE h \in TX : hand[h] = tx]
  <1>1. \A tx \in InHands : tx \in TX /\ holder[tx] \in TX /\ hand[holder[tx]] = tx
    BY DEF InHands
  <1>2. \A tx \in InHands : holder[tx] \in others
    BY <1>1, TXAssumption DEF LiveGroups, Live, Hold, HandTold
  <1>3. holder \in Injection(InHands, others)
    BY <1>1, <1>2 DEF Injection, IsInjective
  <1>4. /\ LiveGroups \in SUBSET TX /\ others \in SUBSET TX /\ g \in LiveGroups
        /\ Rechecking \in SUBSET TX /\ InHands \in SUBSET TX
    BY DEF LiveGroups, Rechecking, InHands
  <1> HIDE DEF others, holder
  <1>5. Cardinality(InHands) <= Cardinality(others)
    BY <1>3, <1>4, CountsFinite, FS_Injection
  <1>6. Cardinality(others) = Cardinality(LiveGroups) - 1
    BY <1>4, CountRemoved DEF others
  <1>7. /\ Cardinality(LiveGroups) \in Nat /\ Cardinality(Rechecking) \in Nat
        /\ Cardinality(InHands) \in Nat /\ Cardinality(others) \in Nat
    BY <1>4, CountsFinite
  <1>8. Cardinality(LiveGroups) + Cardinality(Rechecking) <= MaxWorkers
    BY SizeAssumption DEF SlotsExact
  <1>9. QED
    BY <1>5, <1>6, <1>7, <1>8, SizeAssumption

mvars == <<Waiting, InHands, Answered("processed"), Answered("failed")>>

LEMMA RestMovesNone == ASSUME Resting PROVE UNCHANGED mvars
  BY DEF Resting, mvars, Waiting, InHands, Answered

LEMMA SameCount == \A S : Manager!Cardinality(S) = Cardinality(S)
  BY DEF Manager!Cardinality, Cardinality

LEMMA SentIsPut ==
  ASSUME Typed, Hold, NEW x \in TX, NEW g \in TX, Enters(x, g), pc[x] = "send",
         UNCHANGED carry
  PROVE  Manager!Put(x)
  <1>1. /\ ch \in [TX -> Seq(TX)] /\ ch' \in [TX -> Seq(TX)]
        /\ ch' = [ch EXCEPT ![g] = Append(@, x)]
    BY DEF Typed, TypeOK, Enters, Enqueue
  <1>2. Waiting' = Waiting \cup {x}
    <2>1. \A u, h \in TX : Queued(ch'[h], u) <=> Queued(ch[h], u) \/ (u = x /\ h = g)
      BY <1>1, AppendAdds, ComingIsNew
    <2>2. \A u \in TX : u \in Waiting' <=> u \in Waiting \/ u = x
      BY <1>1, <2>1, WaitingIsHeld
    <2>3. QED
      BY <2>2 DEF Waiting
  <1>3. fate[x] = "none" /\ ~Unanswered(x)
    BY DEF Hold, Kept, Sent, Unanswered
  <1>4. x \notin Waiting \cup InHands \cup Answered("processed") \cup Answered("failed")
    BY <1>3, HeldOnesAreOpen DEF Answered
  <1>5. UNCHANGED <<InHands, Answered("processed"), Answered("failed")>>
    BY DEF Enters, InHands, Answered
  <1>6. QED
    BY <1>2, <1>4, <1>5 DEF Manager!Put

LEMMA ReturnedIsHeld ==
  ASSUME Typed, Hold, NEW x \in TX, NEW g \in TX, Enters(x, g), carry = x, carry' = Nil
  PROVE  UNCHANGED mvars
  <1>1. /\ ch \in [TX -> Seq(TX)] /\ ch' \in [TX -> Seq(TX)]
        /\ ch' = [ch EXCEPT ![g] = Append(@, x)]
    BY DEF Typed, TypeOK, Enters, Enqueue
  <1>2. \A u, h \in TX : Queued(ch'[h], u) <=> Queued(ch[h], u) \/ (u = x /\ h = g)
    BY <1>1, AppendAdds, ComingIsNew
  <1>3. \A u \in TX : u \in Waiting' <=> u \in Waiting
    BY <1>1, <1>2, WaitingIsHeld, TXAssumption
  <1>4. Waiting' = Waiting
    BY <1>3 DEF Waiting
  <1>5. QED
    BY <1>4 DEF Enters, mvars, InHands, Answered

LEMMA CarriedIsHeld ==
  ASSUME Typed, Hold, NEW x \in TX, NEW g \in TX, Departs(x, g), carry = Nil, carry' = x,
         UNCHANGED <<hand, fate>>
  PROVE  UNCHANGED mvars
  <1>1. /\ ch \in [TX -> Seq(TX)] /\ ch' \in [TX -> Seq(TX)] /\ Distinct(ch[g])
        /\ ch' = [ch EXCEPT ![g] = Tail(@)] /\ ch[g] # <<>> /\ Head(ch[g]) = x
    BY DEF Typed, TypeOK, Departs, Hold, Apart
  <1>2. \A u, h \in TX : Queued(ch'[h], u) <=> Queued(ch[h], u) /\ ~(u = x /\ h = g)
    BY <1>1, TailLacksHead
  <1>3. Queued(ch[g], x)
    BY <1>1, QueuedHead
  <1>4. \A u \in TX : u \in Waiting' <=> u \in Waiting
    BY <1>1, <1>2, <1>3, WaitingIsHeld, TXAssumption
  <1>5. Waiting' = Waiting
    BY <1>4 DEF Waiting
  <1>6. QED
    BY <1>5 DEF Departs, mvars, InHands, Answered

LEMMA HandedIsStarted ==
  ASSUME Typed, Hold, SlotsExact, NEW x \in TX, NEW g \in TX, Departs(x, g),
         Live(g), hand[g] = Nil, hand' = [hand EXCEPT ![g] = x],
         fate' = HandedOver(x), UNCHANGED carry
  PROVE  Manager!Start(x)
  <1>1. /\ ch \in [TX -> Seq(TX)] /\ ch' \in [TX -> Seq(TX)] /\ Apart
        /\ ch' = [ch EXCEPT ![g] = Tail(@)] /\ ch[g] # <<>> /\ Head(ch[g]) = x
        /\ hand \in [TX -> TX \cup {Nil}]
        /\ fate \in [TX -> {"none", "doomed", "processed", "failed"}]
    BY DEF Typed, TypeOK, Departs, Hold
  <1>2. \A u, h \in TX : Queued(ch'[h], u) <=> Queued(ch[h], u) /\ ~(u = x /\ h = g)
    BY <1>1, TailLacksHead DEF Apart
  <1>3. Queued(ch[g], x)
    BY <1>1, QueuedHead
  <1>4. Waiting' = Waiting \ {x} /\ x \in Waiting
    <2>1. \A u \in TX : u \in Waiting' <=> u \in Waiting /\ u # x
      BY <1>1, <1>2, <1>3, WaitingIsHeld DEF Apart
    <2>2. QED
      BY <1>1, <1>3, <2>1, WaitingIsHeld DEF Waiting
  <1>5. InHands' = InHands \cup {x}
    BY <1>1, TXAssumption DEF InHands
  <1>6. fate[x] \in {"none", "doomed"}
    BY <1>4, HeldOnesAreOpen DEF Unanswered
  <1>7. UNCHANGED <<Answered("processed"), Answered("failed")>>
    BY <1>1, <1>6 DEF Answered, HandedOver
  <1>8. QED
    BY <1>1, <1>4, <1>5, <1>7, HandsLeaveASlot, SameCount DEF Manager!Start

LEMMA AnswerEnds ==
  ASSUME Typed, Hold, NEW x \in TX, NEW g \in TX, IsAnswered(x, g)
  PROVE  Manager!Succeed(x) \/ Manager!Fail(x)
  <1>1. /\ hand \in [TX -> TX \cup {Nil}] /\ Apart
        /\ fate \in [TX -> {"none", "doomed", "processed", "failed"}]
    BY DEF Typed, TypeOK, Hold
  <1>2. InHands' = InHands \ {x} /\ x \in InHands
    BY <1>1, TXAssumption DEF IsAnswered, InHands, Apart
  <1>3. fate[x] \in {"none", "doomed"}
    BY <1>2, HeldOnesAreOpen DEF Unanswered
  <1>4. Waiting' = Waiting
    BY DEF IsAnswered, Waiting
  <1>5. CASE fate' = [fate EXCEPT ![x] = "processed"]
    <2>1. /\ Answered("processed")' = Answered("processed") \cup {x}
          /\ UNCHANGED Answered("failed")
      BY <1>1, <1>3, <1>5 DEF Answered
    <2>2. QED
      BY <1>2, <1>4, <2>1 DEF Manager!Succeed
  <1>6. CASE fate' = [fate EXCEPT ![x] = "failed"]
    <2>1. /\ Answered("failed")' = Answered("failed") \cup {x}
          /\ UNCHANGED Answered("processed")
      BY <1>1, <1>3, <1>6 DEF Answered
    <2>2. QED
      BY <1>2, <1>4, <1>6, <2>1 DEF Manager!Fail
  <1>7. QED
    BY <1>5, <1>6 DEF IsAnswered

(* Whatever merges, drains, failures and shutdown do to the payments sent, they
   are held until they are handed over, each at most once and at most MaxWorkers
   at a time (PaymentQueue; PaymentManagerService.go:180-236). *)
THEOREM ManagerKeepsQueue == Spec => QueueKept
  <1>1. Init => Manager!Init
    <2> SUFFICES ASSUME Init PROVE Manager!Init
      OBVIOUS
    <2>1. \A tx \in TX : tx \notin Waiting /\ tx \notin InHands
      BY TXAssumption DEF Init, Waiting, InHands, Range
    <2>2. /\ Waiting = {} /\ InHands = {}
          /\ \A end \in {"processed", "failed"} : Answered(end) = {}
      BY <2>1 DEF Waiting, InHands, Init, Answered
    <2>3. QED
      BY <2>2 DEF Init, Manager!Init
  <1>2. Typed /\ MergerRoots /\ Hold /\ SlotsExact /\ [Next]_vars => [Manager!Next]_mvars
    <2> SUFFICES ASSUME Typed, MergerRoots, Hold, SlotsExact, [Next]_vars
                 PROVE  [Manager!Next]_mvars
      OBVIOUS
    <2>1. CASE Resting
      BY <2>1, RestMovesNone
    <2>2. ASSUME NEW x \in TX, NEW g \in TX, Enters(x, g) PROVE [Manager!Next]_mvars
      BY <2>2, SentIsPut, ReturnedIsHeld DEF Enters, Manager!Next
    <2>3. ASSUME NEW x \in TX, NEW g \in TX, Departs(x, g) PROVE [Manager!Next]_mvars
      BY <2>3, CarriedIsHeld, HandedIsStarted DEF Departs, Manager!Next
    <2>4. ASSUME NEW x \in TX, NEW g \in TX, IsAnswered(x, g) PROVE [Manager!Next]_mvars
      BY <2>4, AnswerEnds DEF Manager!Next
    <2>5. QED
      BY <2>1, <2>2, <2>3, <2>4, PaymentsMove DEF Hold
  <1>3. Merges => MergerRoots
    BY DEF Merges
  <1>4. QED
    BY <1>1, <1>2, <1>3, TypedAlways, MergesAlways, HoldAlways, SlotsStayExact, PTL
       DEF Spec, QueueKept, Manager!Spec, Manager!vars, mvars

-----------------------------------------------------------------------------
(* SerialQueue *)

(* Only the group the shared account leads to holds payments. *)
LEMMA OneLine ==
  ASSUME NEW hub, SharedBy(hub), OneGroup(hub), MergerRoots, Routing,
         NEW tx \in TX, NEW g \in TX, Held(tx, g)
  PROVE  g = ibanToGroup[hub]
  BY DEF SharedBy, OneGroup, MergerRoots, Routing

LEMMA LineOf ==
  /\ \A g \in TX : (\A h \in TX : ch[h] # <<>> => h = g) => TheLine = ch[g]
  /\ \A g \in TX : (\A h \in TX : ch'[h] # <<>> => h = g) => TheLine' = ch'[g]
  <1>1. ASSUME NEW g \in TX, \A h \in TX : ch[h] # <<>> => h = g PROVE TheLine = ch[g]
    <2>1. NonEmpty = {} \/ NonEmpty = {g}
      BY <1>1 DEF NonEmpty
    <2>2. QED
      BY <2>1 DEF TheLine, NonEmpty
  <1>2. ASSUME NEW g \in TX, \A h \in TX : ch'[h] # <<>> => h = g PROVE TheLine' = ch'[g]
    <2>1. NonEmpty' = {} \/ NonEmpty' = {g}
      BY <1>2 DEF NonEmpty
    <2>2. QED
      BY <2>1 DEF TheLine, NonEmpty
  <1>3. QED
    BY <1>1, <1>2

LEMMA SerialStep ==
  ASSUME NEW hub, SharedBy(hub), OneGroup(hub), Typed, MergerRoots, Routing, DrainHolds,
         Hold, SlotsExact, [Next]_vars
  PROVE  [SharedLine!SNext]_<<mvars, TheLine>>
  <1>t. /\ ch \in [TX -> Seq(TX)] /\ hand \in [TX -> TX \cup {Nil}]
        /\ mu \in TX \cup {Nil}
    BY DEF Typed, TypeOK
  <1>1. \A g \in TX : ch[g] # <<>> \/ hand[g] # Nil => g = ibanToGroup[hub]
    <2>1. ASSUME NEW g \in TX, ch[g] # <<>> PROVE \E tx \in TX : Held(tx, g)
      <3>1. ch[g] \in Seq(TX)
        BY <1>t
      <3>2. Head(ch[g]) \in TX /\ Queued(ch[g], Head(ch[g]))
        BY <2>1, <3>1, QueuedHead
      <3>3. QED
        BY <3>2 DEF Held
    <2>2. ASSUME NEW g \in TX, hand[g] # Nil PROVE \E tx \in TX : Held(tx, g)
      BY <1>t, <2>2 DEF Held
    <2>3. QED
      BY <2>1, <2>2, OneLine
  <1>2. carry = Nil /\ \A g \in TX : ~merging[g]
    BY <1>t DEF DrainHolds, OneGroup, Merger
  <1>3. \A S : SharedLine!Cardinality(S) = Cardinality(S)
    BY DEF SharedLine!Cardinality, Cardinality
  <1>4. CASE Resting
    <2>1. TheLine' = TheLine
      BY <1>4 DEF Resting, TheLine, NonEmpty
    <2>2. QED
      BY <1>4, <2>1, RestMovesNone
  <1>5. ASSUME NEW x \in TX, NEW g \in TX, Enters(x, g) PROVE SharedLine!SNext
    <2>1. pc[x] = "send" /\ target[x] = g /\ UNCHANGED carry
      BY <1>2, <1>5, TXAssumption DEF Enters
    <2>2. g = ibanToGroup[hub]
      BY <2>1, OneLine DEF Held
    <2>3. /\ ch' = [ch EXCEPT ![g] = Append(@, x)] /\ Len(ch[g]) < ChanBuffer
      BY <1>5 DEF Enters, Enqueue, HasRoom
    <2>4. TheLine = ch[g] /\ TheLine' = Append(ch[g], x)
      BY <1>1, <1>t, <2>2, <2>3, LineOf
    <2>5. Manager!Put(x)
      BY <1>5, <2>1, SentIsPut
    <2>6. SharedLine!Arrive(x)
      BY <2>3, <2>4, <2>5 DEF SharedLine!Arrive, SharedLine!Put, Manager!Put
    <2>7. QED
      BY <2>6 DEF SharedLine!SNext
  <1>6. ASSUME NEW x \in TX, NEW g \in TX, Departs(x, g) PROVE SharedLine!SNext
    <2>1. /\ Live(g) /\ hand[g] = Nil /\ hand' = [hand EXCEPT ![g] = x]
          /\ fate' = HandedOver(x) /\ UNCHANGED carry
      BY <1>2, <1>6 DEF Departs
    <2>2. /\ ch' = [ch EXCEPT ![g] = Tail(@)] /\ ch[g] # <<>> /\ x = Head(ch[g])
          /\ g = ibanToGroup[hub]
      BY <1>1, <1>6 DEF Departs
    <2>3. TheLine = ch[g] /\ TheLine' = Tail(ch[g])
      BY <1>1, <1>t, <2>2, LineOf
    <2>4. InHands = {}
      BY <1>1, <2>1, <2>2, TXAssumption DEF InHands
    <2>5. Manager!Start(x)
      BY <1>6, <2>1, HandedIsStarted
    <2>6. SharedLine!Serve(x)
      BY <1>3, <2>2, <2>3, <2>4, <2>5, SameCount
         DEF SharedLine!Serve, SharedLine!Start, Manager!Start
    <2>7. QED
      BY <2>6 DEF SharedLine!SNext
  <1>7. ASSUME NEW x \in TX, NEW g \in TX, IsAnswered(x, g) PROVE SharedLine!SNext
    <2>1. TheLine' = TheLine
      BY <1>7 DEF IsAnswered, TheLine, NonEmpty
    <2>2. Manager!Succeed(x) \/ Manager!Fail(x)
      BY <1>7, AnswerEnds
    <2>3. SharedLine!Succeed(x) \/ SharedLine!Fail(x)
      BY <2>2 DEF SharedLine!Succeed, SharedLine!Fail, Manager!Succeed, Manager!Fail
    <2>4. QED
      BY <2>1, <2>3 DEF SharedLine!SNext
  <1>8. QED
    BY <1>4, <1>5, <1>6, <1>7, PaymentsMove DEF Hold

(* If all payments share an account, they form one line of the capacity of a
   channel and are handed over one at a time in the order of their sends, through
   re-checks, failures and shutdown (paymentGroup.go:16, 52, dispather.go:9-10). *)
THEOREM SharedAccountIsOneLine ==
  ASSUME NEW hub, SharedBy(hub)
  PROVE  Spec => OneLineKept
  <1>1. Init => SharedLine!SInit /\ OneGroup(hub)
    <2> SUFFICES ASSUME Init PROVE SharedLine!SInit
      BY OneGroupInit
    <2>1. \A tx \in TX : tx \notin Waiting /\ tx \notin InHands
      BY TXAssumption DEF Init, Waiting, InHands, Range
    <2>2. /\ Waiting = {} /\ InHands = {}
          /\ \A end \in {"processed", "failed"} : Answered(end) = {}
      BY <2>1 DEF Waiting, InHands, Init, Answered
    <2>3. TheLine = <<>>
      BY DEF Init, TheLine, NonEmpty
    <2>4. QED
      BY <2>2, <2>3 DEF Init, SharedLine!SInit, SharedLine!Init
  <1>2. Typed /\ OneGroup(hub) /\ [Next]_vars => OneGroup(hub)'
    BY OneGroupStep
  <1>3. OneGroup(hub) /\ Typed /\ MergerRoots /\ Routing /\ DrainHolds /\ Hold
          /\ SlotsExact /\ [Next]_vars => [SharedLine!SNext]_<<mvars, TheLine>>
    BY SerialStep
  <1>4. Merges => MergerRoots
    BY DEF Merges
  <1>5. QED
    BY <1>1, <1>2, <1>3, <1>4, TypedAlways, MergesAlways, RoutingAlways, DrainAlways,
       HoldAlways, SlotsStayExact, PTL
       DEF Spec, OneLineKept, SharedLine!SSpec, SharedLine!vars, mvars
=============================================================================
