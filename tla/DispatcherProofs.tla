--------------------------- MODULE DispatcherProofs ---------------------------
(***************************************************************************)
(* Invariants of Dispatcher, proved for every set of payments and accounts *)
(* and every capacity.                                                     *)
(*                                                                         *)
(* The slots, the drain and the routing are three arguments that share     *)
(* what the type invariant says of the variables.                          *)
(***************************************************************************)
EXTENDS Dispatcher, FiniteSetTheorems, TLAPS

Early(tx) == pc[tx] \in {"lock", "slot", "recheck"}
Merger(tx) == pc[tx] \in {"drainWait", "drain"}

(* A routed call has its group, a merging one its two groups. *)
Bound ==
  \A tx \in TX :
    /\ Merger(tx) \/ pc[tx] \in {"send", "count", "accepted"} => target[tx] \in TX
    /\ Merger(tx) => source[tx] \in TX

Typed == TypeOK /\ Bound

(* A group named by a payment not routed yet does not exist: no worker runs
   for it, no account leads to it and it was never merged. *)
NotCreated ==
  \A tx \in TX : Early(tx) =>
    /\ worker[tx] = "none" /\ ~merging[tx] /\ root[tx] = tx
    /\ \A i \in IBAN : ibanToGroup[i] # tx

(* A drain holds Mu, and waited until the worker of its source had left; only
   a drain holds Mu across steps, and only a drain carries a payment. *)
DrainHolds ==
  /\ mu # Nil => pc[mu] = "drain"
  /\ carry # Nil => mu # Nil
  /\ \A tx \in TX : pc[tx] = "drain" => mu = tx /\ drainReady[source[tx]]
  /\ \A g \in TX : drainReady[g] => worker[g] = "exited"

(* A merging call's source is marked, and both its groups have one root. *)
MergerRoots ==
  /\ \A tx \in TX : Merger(tx) =>
       merging[source[tx]] /\ root[source[tx]] = root[target[tx]]
  /\ \A g \in TX : ~merging[g] => root[g] = g

Queued(s, e) == \E k \in 1..Len(s) : s[k] = e

(* Where a payment is bound for, waits, or is processed. *)
Held(tx, g) ==
  \/ Queued(ch[g], tx)
  \/ hand[g] = tx
  \/ pc[tx] \in {"send", "drainWait", "drain"} /\ target[tx] = g
  \/ carry = tx /\ \E m \in TX : pc[m] = "drain" /\ target[m] = g

(* An account no re-check moved leads to the root of every group that holds a
   payment of it. *)
Routing ==
  \A tx, g \in TX : Held(tx, g) =>
    \A i \in Accounts(tx) \ stolen : ibanToGroup[i] = root[g]

(* No account leads to a merged group. *)
MergedUnreferenced == \A i \in IBAN : ibanToGroup[i] # Nil => ~merging[ibanToGroup[i]]

Merges == NotCreated /\ MergerRoots /\ MergedUnreferenced

-----------------------------------------------------------------------------
(* Types *)

LEMMA TypedInit == Init => Typed
  <1> SUFFICES ASSUME Init PROVE Typed
    OBVIOUS
  <1>1. ch \in [TX -> Seq(TX)] /\ \A g \in TX : Len(ch[g]) <= ChanBuffer
    BY SizeAssumption DEF Init
  <1>2. Bound
    BY DEF Init, Bound, Merger
  <1>3. QED
    <2>1. /\ pc \in [TX -> {"lock", "slot", "recheck", "send", "count", "accepted",
                           "drainWait", "drain", "refused"}]
          /\ fate \in [TX -> {"none", "doomed", "processed", "failed"}]
      BY DEF Init
    <2>2. /\ waiter \in [TX -> {"none", "start", "parked", "woken", "gone"}]
          /\ worker \in [TX -> {"none", "select", "process", "drain",
                               "drainProcess", "exited"}]
      BY DEF Init
    <2>3. /\ target \in [TX -> TX \cup {Nil}] /\ source \in [TX -> TX \cup {Nil}]
          /\ ibanToGroup \in [IBAN -> TX \cup {Nil}] /\ root \in [TX -> TX]
          /\ hand \in [TX -> TX \cup {Nil}]
      BY DEF Init
    <2>4. /\ cancelled \in [TX -> BOOLEAN] /\ merging \in [TX -> BOOLEAN]
          /\ drainReady \in [TX -> BOOLEAN] /\ wg \in [TX -> Int]
      BY DEF Init
    <2>5. /\ mu \in TX \cup {Nil} /\ carry \in TX \cup {Nil} /\ stolen \subseteq IBAN
          /\ semaphore \in Int /\ dWg \in Int
      BY DEF Init
    <2>6. rootDone \in BOOLEAN /\ stopped \in BOOLEAN /\ panicked \in BOOLEAN
      BY Zenon DEF Init
    <2>7. QED
      BY <1>1, <1>2, <2>1, <2>2, <2>3, <2>4, <2>5, <2>6 DEF Typed, TypeOK

LEMMA TypedStep == Typed /\ [Next]_vars => Typed'
  <1> SUFFICES ASSUME Typed, [Next]_vars PROVE Typed'
    OBVIOUS
  <1> USE TXAssumption, IbanAssumption, SizeAssumption
      DEF Typed, TypeOK, Bound, Merger, Goto, adderVars, mapVars,
          groupVars, countVars, poolVars, procVars, endVars
  <1>1. ASSUME NEW tx \in TX, AddRefused(tx) PROVE Typed'
    BY <1>1 DEF AddRefused
  <1>2. ASSUME NEW tx \in TX, AddSeesNoGroup(tx) PROVE Typed'
    BY <1>2 DEF AddSeesNoGroup
  <1>3. ASSUME NEW tx \in TX, AddConnects(tx) PROVE Typed'
    BY <1>3 DEF FirstKnown, Known, Pointed, gA, gB, AddConnects
  <1>4. ASSUME NEW tx \in TX, AddMerges(tx) PROVE Typed'
    BY <1>4 DEF Repointed, gA, gB, AddMerges
  <1>5. ASSUME NEW tx \in TX, TakeSlot(tx) PROVE Typed'
    BY <1>5 DEF TakeSlot
  <1>6. ASSUME NEW tx \in TX, RecheckJoins(tx) PROVE Typed'
    <2>1. FirstKnown(tx) \in TX
      BY <1>6 DEF FirstKnown, StillUnknown, Known, gA, gB, RecheckJoins
    <2>2. stolen' \subseteq IBAN
      BY <1>6 DEF RecheckJoins, Accounts
    <2>3. QED
      BY <1>6, <2>1, <2>2 DEF Pointed, ReleaseSlot, RecheckJoins
  <1>7. ASSUME NEW tx \in TX, RecheckCreates(tx) PROVE Typed'
    BY <1>7 DEF Pointed, RecheckCreates
  <1>8. ASSUME NEW tx \in TX, DrainBegins(tx) PROVE Typed'
    BY <1>8 DEF DrainBegins
  <1>9. ASSUME NEW tx \in TX, DrainTakes(tx) PROVE Typed'
    BY <1>9, SMTT(30) DEF Dequeued, DrainTakes
  <1>10. ASSUME NEW tx \in TX, DrainGives(tx) PROVE Typed'
    BY <1>10 DEF Enqueue, HasRoom, DrainGives
  <1>11. ASSUME NEW tx \in TX, DrainEnds(tx) PROVE Typed'
    BY <1>11 DEF Repointed, DrainEnds
  <1>12. ASSUME NEW tx \in TX, Send(tx) PROVE Typed'
    BY <1>12 DEF Enqueue, HasRoom, Send
  <1>13. ASSUME NEW tx \in TX, Count(tx) PROVE Typed'
    BY <1>13 DEF Counted, Count
  <1>14. ASSUME NEW tx \in TX, GiveUp(tx) PROVE Typed'
    BY <1>14 DEF GiveUp
  <1>15. ASSUME NEW g \in TX, Receive(g) PROVE Typed'
    BY <1>15 DEF Dequeued, Receive, HandedOver
  <1>16. ASSUME NEW g \in TX, Finish(g) PROVE Typed'
    <2>1. panicked' \in BOOLEAN
      BY <1>16, SMTT(20) DEF Finish, Done
    <2>2. fate' \in [TX -> {"none", "doomed", "processed", "failed"}]
      BY <1>16 DEF Finish
    <2>3. wg' \in [TX -> Int]
      BY <1>16 DEF Finish, Done
    <2>4. QED
      BY <1>16, <2>1, <2>2, <2>3 DEF Finish
  <1>17. ASSUME NEW g \in TX, LeaveToMerge(g) PROVE Typed'
    BY <1>17 DEF Leave, ReleaseSlot, WorkerDone, LeaveToMerge
  <1>18. ASSUME NEW g \in TX, BeginDrain(g) PROVE Typed'
    BY <1>18 DEF BeginDrain
  <1>19. ASSUME NEW g \in TX, EndDrain(g) PROVE Typed'
    <2>1. semaphore' \in Int /\ dWg' \in Int
      BY <1>19 DEF Leave, ReleaseSlot, WorkerDone, EndDrain
    <2>2. worker' \in [TX -> {"none", "select", "process", "drain",
                             "drainProcess", "exited"}]
      BY <1>19 DEF Leave, EndDrain
    <2>3. QED
      BY <1>19, <2>1, <2>2 DEF EndDrain
  <1>20. ASSUME NEW g \in TX, CallWait(g) PROVE Typed'
    BY <1>20 DEF CallWait
  <1>21. ASSUME NEW g \in TX, WaitReturns(g) PROVE Typed'
    <2>1. panicked' \in BOOLEAN
      BY <1>21, Zenon DEF WaitReturns
    <2>2. QED
      BY <1>21, <2>1 DEF WaitReturns
  <1>22. CASE Cancel
    BY <1>22 DEF Cancel
  <1>23. CASE ShutdownReturns
    BY <1>23 DEF ShutdownReturns
  <1>24. CASE UNCHANGED vars
    BY <1>24 DEF vars
  <1>25. QED
    BY <1>1, <1>2, <1>3, <1>4, <1>5, <1>6, <1>7, <1>8, <1>9, <1>10, <1>11, <1>12, <1>13, <1>14, <1>15, <1>16, <1>17, <1>18, <1>19, <1>20, <1>21, <1>22, <1>23, <1>24 DEF Next, Add, Locked,
       RunWorker, Wait

LEMMA TypedAlways == Spec => []Typed
  BY TypedInit, TypedStep, PTL DEF Spec

(* Every variable keeps its type, and no channel ever holds more than its
   capacity (paymentGroup.go:52). *)
THEOREM TypeCorrect == Spec => []TypeOK
  <1>1. Typed => TypeOK
    BY DEF Typed
  <1>2. QED
    BY <1>1, TypedAlways, PTL

-----------------------------------------------------------------------------
(* Merges *)

LEMMA MergesInit == Init => Merges
  BY TXAssumption DEF Init, Merges, NotCreated, MergerRoots, MergedUnreferenced, Early, Merger

LEMMA MergesStep == Typed /\ Merges /\ [Next]_vars => Merges'
  <1> SUFFICES ASSUME Typed, Merges, [Next]_vars PROVE Merges'
    OBVIOUS
  <1>t. /\ pc \in [TX -> {"lock", "slot", "recheck", "send", "count", "accepted",
                           "drainWait", "drain", "refused"}]
        /\ target \in [TX -> TX \cup {Nil}] /\ source \in [TX -> TX \cup {Nil}]
        /\ ibanToGroup \in [IBAN -> TX \cup {Nil}] /\ merging \in [TX -> BOOLEAN]
        /\ root \in [TX -> TX]
        /\ worker \in [TX -> {"none", "select", "process", "drain",
                             "drainProcess", "exited"}]
        /\ Bound
    BY DEF Typed, TypeOK
  <1> USE <1>t, TXAssumption, IbanAssumption
      DEF Bound, Merges, NotCreated, MergerRoots,
          MergedUnreferenced, Early, Merger, Goto, adderVars, mapVars,
          groupVars, countVars, poolVars, procVars, endVars
  <1>1. ASSUME NEW tx \in TX, AddRefused(tx) PROVE Merges'
    BY <1>1 DEF AddRefused
  <1>2. ASSUME NEW tx \in TX, AddSeesNoGroup(tx) PROVE Merges'
    BY <1>2 DEF AddSeesNoGroup
  <1>3. ASSUME NEW tx \in TX, AddConnects(tx) PROVE Merges'
    BY <1>3 DEF FirstKnown, Known, Pointed, gA, gB, AddConnects
  <1>4. ASSUME NEW tx \in TX, AddMerges(tx) PROVE Merges'
    <2> DEFINE old == gB(tx)  new == gA(tx)
    <2>1. /\ old \in TX /\ new \in TX /\ old # new
          /\ ~merging[old] /\ ~merging[new] /\ root[old] = old /\ root[new] = new
          /\ ~Early(old) /\ ~Early(new)
      BY <1>4 DEF gA, gB, AddMerges
    <2>2. /\ merging' = [merging EXCEPT ![old] = TRUE]
          /\ root' = [g \in TX |-> IF root[g] = old THEN new ELSE root[g]]
          /\ ibanToGroup' = [i \in IBAN |-> IF ibanToGroup[i] = old THEN new
                                           ELSE ibanToGroup[i]]
          /\ source' = [source EXCEPT ![tx] = old]
          /\ target' = [target EXCEPT ![tx] = new]
          /\ pc[tx] = "lock" /\ pc' = [pc EXCEPT ![tx] = "drainWait"]
          /\ worker' = worker
      BY <1>4 DEF AddMerges, Repointed
    <2> HIDE DEF old, new
    <2>3. NotCreated'
      <3> SUFFICES ASSUME NEW u \in TX, Early(u)'
                   PROVE  /\ worker'[u] = "none" /\ ~merging'[u] /\ root'[u] = u
                          /\ \A i \in IBAN : ibanToGroup'[i] # u
        BY Zenon DEF NotCreated
      <3>1. Early(u) /\ u # old /\ u # new
        BY <2>1, <2>2
      <3>2. QED
        BY <2>1, <2>2, <3>1
    <2>4. MergedUnreferenced'
      BY <2>1, <2>2
    <2>5. MergerRoots'
      <3>1. \A g \in TX : ~merging'[g] => root'[g] = g
        BY <2>1, <2>2
      <3>2. ASSUME NEW u \in TX, Merger(u)'
            PROVE  merging'[source'[u]] /\ root'[source'[u]] = root'[target'[u]]
        <4>1. CASE u = tx
          BY <2>1, <2>2, <4>1
        <4>2. CASE u # tx
          <5>1. /\ Merger(u) /\ source'[u] = source[u] /\ target'[u] = target[u]
                /\ source[u] \in TX /\ target[u] \in TX
            BY <2>2, <3>2, <4>2
          <5>2. merging[source[u]] /\ root[source[u]] = root[target[u]]
            BY <5>1
          <5>3. QED
            BY <2>1, <2>2, <5>1, <5>2
        <4>3. QED
          BY <4>1, <4>2
      <3>3. QED
        BY <3>1, <3>2, Zenon DEF MergerRoots
    <2>6. QED
      BY <2>3, <2>4, <2>5
  <1>5. ASSUME NEW tx \in TX, TakeSlot(tx) PROVE Merges'
    BY <1>5 DEF TakeSlot
  <1>6. ASSUME NEW tx \in TX, RecheckJoins(tx) PROVE Merges'
    BY <1>6 DEF FirstKnown, StillUnknown, Known, Pointed, gA, gB, RecheckJoins
  <1>7. ASSUME NEW tx \in TX, RecheckCreates(tx) PROVE Merges'
    BY <1>7 DEF Pointed, RecheckCreates
  <1>8. ASSUME NEW tx \in TX, DrainBegins(tx) PROVE Merges'
    BY <1>8 DEF DrainBegins
  <1>9. ASSUME NEW tx \in TX, DrainTakes(tx) PROVE Merges'
    BY <1>9 DEF DrainTakes
  <1>10. ASSUME NEW tx \in TX, DrainGives(tx) PROVE Merges'
    BY <1>10 DEF DrainGives
  <1>11. ASSUME NEW tx \in TX, DrainEnds(tx) PROVE Merges'
    BY <1>11 DEF Repointed, DrainEnds
  <1>12. ASSUME NEW tx \in TX, Send(tx) PROVE Merges'
    BY <1>12 DEF Send
  <1>13. ASSUME NEW tx \in TX, Count(tx) PROVE Merges'
    BY <1>13 DEF Count
  <1>14. ASSUME NEW tx \in TX, GiveUp(tx) PROVE Merges'
    BY <1>14 DEF GiveUp
  <1>15. ASSUME NEW g \in TX, Receive(g) PROVE Merges'
    BY <1>15 DEF Receive
  <1>16. ASSUME NEW g \in TX, Finish(g) PROVE Merges'
    BY <1>16 DEF Finish
  <1>17. ASSUME NEW g \in TX, LeaveToMerge(g) PROVE Merges'
    BY <1>17 DEF Leave, LeaveToMerge
  <1>18. ASSUME NEW g \in TX, BeginDrain(g) PROVE Merges'
    BY <1>18 DEF BeginDrain
  <1>19. ASSUME NEW g \in TX, EndDrain(g) PROVE Merges'
    BY <1>19 DEF Leave, EndDrain
  <1>20. ASSUME NEW g \in TX, CallWait(g) PROVE Merges'
    BY <1>20 DEF CallWait
  <1>21. ASSUME NEW g \in TX, WaitReturns(g) PROVE Merges'
    BY <1>21 DEF WaitReturns
  <1>22. CASE Cancel
    BY <1>22 DEF Cancel
  <1>23. CASE ShutdownReturns
    BY <1>23 DEF ShutdownReturns
  <1>24. CASE UNCHANGED vars
    BY <1>24 DEF vars
  <1>25. QED
    BY <1>1, <1>2, <1>3, <1>4, <1>5, <1>6, <1>7, <1>8, <1>9, <1>10, <1>11, <1>12,
       <1>13, <1>14, <1>15, <1>16, <1>17, <1>18, <1>19, <1>20, <1>21, <1>22, <1>23, <1>24 DEF Next, Add, Locked,
       RunWorker, Wait

LEMMA MergesAlways == Spec => []Merges
  BY TypedAlways, MergesInit, MergesStep, PTL DEF Spec

(* After a merge no account leads to the merged group any more, whatever other
   calls do while the merging call waits without Mu (dispather.go:17). *)
THEOREM MergedStaysUnreferenced == Spec => []MergedUnreferenced
  <1>1. Merges => MergedUnreferenced
    BY DEF Merges
  <1>2. QED
    BY <1>1, MergesAlways, PTL

-----------------------------------------------------------------------------
(* The drain *)

LEMMA DrainInit == Init => DrainHolds
  BY TXAssumption DEF Init, DrainHolds

LEMMA DrainStep == Typed /\ NotCreated /\ DrainHolds /\ [Next]_vars => DrainHolds'
  <1> SUFFICES ASSUME Typed, NotCreated, DrainHolds, [Next]_vars
               PROVE  DrainHolds'
    OBVIOUS
  <1>t. /\ pc \in [TX -> {"lock", "slot", "recheck", "send", "count", "accepted",
                           "drainWait", "drain", "refused"}]
        /\ source \in [TX -> TX \cup {Nil}] /\ drainReady \in [TX -> BOOLEAN]
        /\ mu \in TX \cup {Nil} /\ carry \in TX \cup {Nil}
        /\ worker \in [TX -> {"none", "select", "process", "drain",
                             "drainProcess", "exited"}]
        /\ Bound
    BY DEF Typed, TypeOK
  <1> USE <1>t, TXAssumption
      DEF Bound, NotCreated, DrainHolds, Early, Merger, Goto, adderVars,
          mapVars, groupVars, countVars, poolVars, procVars, endVars
  <1>1. ASSUME NEW tx \in TX, AddRefused(tx) PROVE DrainHolds'
    BY <1>1 DEF AddRefused
  <1>2. ASSUME NEW tx \in TX, AddSeesNoGroup(tx) PROVE DrainHolds'
    BY <1>2 DEF AddSeesNoGroup
  <1>3. ASSUME NEW tx \in TX, AddConnects(tx) PROVE DrainHolds'
    BY <1>3 DEF AddConnects
  <1>4. ASSUME NEW tx \in TX, AddMerges(tx) PROVE DrainHolds'
    BY <1>4 DEF AddMerges
  <1>5. ASSUME NEW tx \in TX, TakeSlot(tx) PROVE DrainHolds'
    BY <1>5 DEF TakeSlot
  <1>6. ASSUME NEW tx \in TX, RecheckJoins(tx) PROVE DrainHolds'
    BY <1>6 DEF RecheckJoins
  <1>7. ASSUME NEW tx \in TX, RecheckCreates(tx) PROVE DrainHolds'
    BY <1>7 DEF RecheckCreates
  <1>8. ASSUME NEW tx \in TX, DrainBegins(tx) PROVE DrainHolds'
    BY <1>8 DEF SourceLeft, DrainBegins
  <1>9. ASSUME NEW tx \in TX, DrainTakes(tx) PROVE DrainHolds'
    BY <1>9 DEF DrainTakes
  <1>10. ASSUME NEW tx \in TX, DrainGives(tx) PROVE DrainHolds'
    BY <1>10 DEF DrainGives
  <1>11. ASSUME NEW tx \in TX, DrainEnds(tx) PROVE DrainHolds'
    BY <1>11 DEF DrainEnds
  <1>12. ASSUME NEW tx \in TX, Send(tx) PROVE DrainHolds'
    BY <1>12 DEF Send
  <1>13. ASSUME NEW tx \in TX, Count(tx) PROVE DrainHolds'
    BY <1>13 DEF Count
  <1>14. ASSUME NEW tx \in TX, GiveUp(tx) PROVE DrainHolds'
    BY <1>14 DEF GiveUp
  <1>15. ASSUME NEW g \in TX, Receive(g) PROVE DrainHolds'
    BY <1>15 DEF Receive
  <1>16. ASSUME NEW g \in TX, Finish(g) PROVE DrainHolds'
    BY <1>16 DEF Finish
  <1>17. ASSUME NEW g \in TX, LeaveToMerge(g) PROVE DrainHolds'
    BY <1>17 DEF Leave, LeaveToMerge
  <1>18. ASSUME NEW g \in TX, BeginDrain(g) PROVE DrainHolds'
    BY <1>18 DEF BeginDrain
  <1>19. ASSUME NEW g \in TX, EndDrain(g) PROVE DrainHolds'
    BY <1>19 DEF Leave, EndDrain
  <1>20. ASSUME NEW g \in TX, CallWait(g) PROVE DrainHolds'
    BY <1>20 DEF CallWait
  <1>21. ASSUME NEW g \in TX, WaitReturns(g) PROVE DrainHolds'
    BY <1>21 DEF WaitReturns
  <1>22. CASE Cancel
    BY <1>22 DEF Cancel
  <1>23. CASE ShutdownReturns
    BY <1>23 DEF ShutdownReturns
  <1>24. CASE UNCHANGED vars
    BY <1>24 DEF vars
  <1>25. QED
    BY <1>1, <1>2, <1>3, <1>4, <1>5, <1>6, <1>7, <1>8, <1>9, <1>10, <1>11, <1>12,
       <1>13, <1>14, <1>15, <1>16, <1>17, <1>18, <1>19, <1>20, <1>21, <1>22, <1>23, <1>24 DEF Next, Add, Locked,
       RunWorker, Wait

LEMMA DrainAlways == Spec => []DrainHolds
  <1>1. Merges => NotCreated
    BY DEF Merges
  <1>2. QED
    BY <1>1, TypedAlways, MergesAlways, DrainInit, DrainStep, PTL DEF Spec

(* While a merge empties the channel of a group, the group's worker has left:
   the drain is the only reader (PaymentManagerService.go:173-188). *)
THEOREM DrainIsAlone == Spec => []DrainAlone
  <1>1. Typed /\ DrainHolds => DrainAlone
    BY DEF Typed, Bound, Merger, DrainHolds, DrainAlone
  <1>2. QED
    BY <1>1, TypedAlways, DrainAlways, PTL

-----------------------------------------------------------------------------
(* What the elements of a queue become *)

LEMMA QueuedTail ==
  ASSUME NEW s \in Seq(TX), s # <<>>, NEW e, Queued(Tail(s), e)
  PROVE  Queued(s, e)
  <1>1. PICK k \in 1..Len(Tail(s)) : Tail(s)[k] = e
    BY DEF Queued
  <1>2. k + 1 \in 1..Len(s) /\ s[k + 1] = e
    BY <1>1
  <1>3. QED
    BY <1>2 DEF Queued

LEMMA QueuedHead ==
  ASSUME NEW s \in Seq(TX), s # <<>>
  PROVE  Queued(s, Head(s))
  <1>1. 1 \in 1..Len(s) /\ s[1] = Head(s)
    OBVIOUS
  <1>2. QED
    BY <1>1 DEF Queued

LEMMA QueuedAppend ==
  ASSUME NEW s \in Seq(TX), NEW x \in TX, NEW e, Queued(Append(s, x), e)
  PROVE  Queued(s, e) \/ e = x
  <1>1. PICK k \in 1..Len(Append(s, x)) : Append(s, x)[k] = e
    BY DEF Queued
  <1>2. CASE k = Len(s) + 1
    BY <1>1, <1>2
  <1>3. CASE k \in 1..Len(s)
    BY <1>1, <1>3 DEF Queued
  <1>4. QED
    BY <1>1, <1>2, <1>3

-----------------------------------------------------------------------------
(* Routing *)

LEMMA RoutingInit == Init => Routing
  BY TXAssumption DEF Init, Routing, Held, Queued

LEMMA RoutingStep ==
    Typed /\ Merges /\ DrainHolds /\ Routing /\ [Next]_vars => Routing'
  <1> SUFFICES ASSUME Typed, Merges, DrainHolds, Routing, [Next]_vars
               PROVE  Routing'
    OBVIOUS
  <1>t. /\ pc \in [TX -> {"lock", "slot", "recheck", "send", "count", "accepted",
                           "drainWait", "drain", "refused"}]
        /\ target \in [TX -> TX \cup {Nil}] /\ source \in [TX -> TX \cup {Nil}]
        /\ mu \in TX \cup {Nil} /\ carry \in TX \cup {Nil}
        /\ hand \in [TX -> TX \cup {Nil}]
        /\ ibanToGroup \in [IBAN -> TX \cup {Nil}] /\ root \in [TX -> TX]
        /\ ch \in [TX -> Seq(TX)]
        /\ Bound
        /\ \A tx \in TX : Accounts(tx) \subseteq IBAN
    BY IbanAssumption DEF Typed, TypeOK, Accounts
  <1> USE <1>t, TXAssumption, IbanAssumption
      DEF Goto, adderVars, mapVars, groupVars, countVars, poolVars, procVars,
          endVars
  <1>a. ASSUME UNCHANGED <<ibanToGroup, root, stolen>>,
               \A u, h \in TX : Held(u, h)' =>
                  \E f \in TX : Held(u, f) /\ root[f] = root[h]
        PROVE  Routing'
    BY <1>a DEF Routing
  <1>b. ASSUME NEW tx \in TX, NEW n \in TX, root[n] = n,
               ibanToGroup' = Pointed(tx, n),
               root' = root, stolen \subseteq stolen',
               \A i \in Accounts(tx) \ stolen' : ibanToGroup[i] \in {Nil, n},
               \A u, h \in TX : Held(u, h)' => Held(u, h) \/ (u = tx /\ h = n)
        PROVE  Routing'
    <2> SUFFICES ASSUME NEW u \in TX, NEW h \in TX, Held(u, h)',
                        NEW i \in Accounts(u) \ stolen'
                 PROVE  ibanToGroup'[i] = root[h]
      BY <1>b DEF Routing
    <2>1. i \in IBAN /\ (ibanToGroup'[i] = IF i \in Accounts(tx) THEN n ELSE ibanToGroup[i])
      BY <1>b DEF Pointed
    <2>2. CASE u = tx /\ h = n
      BY <1>b, <2>1, <2>2
    <2>3. CASE Held(u, h)
      <3>1. ibanToGroup[i] = root[h] /\ root[h] # Nil
        BY <1>b, <2>3 DEF Routing
      <3>2. QED
        BY <1>b, <2>1, <3>1
    <2>4. QED
      BY <1>b, <2>2, <2>3
  <1>1. ASSUME NEW tx \in TX, AddRefused(tx) PROVE Routing'
    BY <1>1 DEF Routing, Held, AddRefused
  <1>2. ASSUME NEW tx \in TX, AddSeesNoGroup(tx) PROVE Routing'
    BY <1>2 DEF Routing, Held, AddSeesNoGroup
  <1>3. ASSUME NEW tx \in TX, AddConnects(tx) PROVE Routing'
    <2> DEFINE n == FirstKnown(tx)
    <2>1. n \in TX /\ root[n] = n
      <3>1. \E i \in IBAN : n = ibanToGroup[i] /\ n # Nil
        BY <1>3 DEF AddConnects, FirstKnown, StillUnknown, Known, gA, gB
      <3>2. QED
        BY <3>1 DEF Merges, MergedUnreferenced, MergerRoots
    <2>2. /\ ibanToGroup' = Pointed(tx, n)
          /\ root' = root /\ stolen \subseteq stolen'
      BY <1>3 DEF AddConnects
    <2>3. \A i \in Accounts(tx) \ stolen' : ibanToGroup[i] \in {Nil, n}
      BY <1>3 DEF AddConnects, FirstKnown, Known, Accounts, gA, gB
    <2>4. \A u, h \in TX : Held(u, h)' => Held(u, h) \/ (u = tx /\ h = n)
      BY <1>3 DEF AddConnects, Held
    <2>5. QED
      BY <1>b, <2>1, <2>2, <2>3, <2>4
  <1>4. ASSUME NEW tx \in TX, AddMerges(tx) PROVE Routing'
    <2> DEFINE old == gB(tx)  new == gA(tx)
    <2>1. /\ old \in TX /\ new \in TX /\ old # new /\ root[new] = new
          /\ \A i \in Accounts(tx) : ibanToGroup[i] \in {old, new}
      <3>1. old # Nil /\ new # Nil /\ old # new
        BY <1>4 DEF AddMerges
      <3>2. \A i \in Accounts(tx) : ibanToGroup[i] \in {old, new}
        BY DEF gA, gB, Accounts
      <3>3. old = ibanToGroup[Deb[tx]] /\ new = ibanToGroup[Cred[tx]]
        BY DEF gA, gB
      <3>4. old \in TX /\ new \in TX
        BY <3>1, <3>3
      <3>5. ~merging[new]
        BY <3>1, <3>3 DEF Merges, MergedUnreferenced
      <3>6. root[new] = new
        BY <3>4, <3>5 DEF Merges, MergerRoots
      <3>7. QED
        BY <3>1, <3>2, <3>4, <3>6
    <2>2. /\ \A i \in IBAN : ibanToGroup'[i] = IF ibanToGroup[i] = old THEN new
                                              ELSE ibanToGroup[i]
          /\ \A g \in TX : root'[g] = IF root[g] = old THEN new ELSE root[g]
          /\ stolen' = stolen
      BY <1>4 DEF AddMerges, Repointed
    <2>3. \A u, h \in TX : Held(u, h)' => Held(u, h) \/ (u = tx /\ h = new)
      BY <1>4 DEF AddMerges, Held
    <2> HIDE DEF old, new
    <2>4. ASSUME NEW u \in TX, NEW h \in TX, Held(u, h)', NEW i \in Accounts(u) \ stolen
          PROVE  ibanToGroup'[i] = root'[h]
      <3>1. CASE u = tx /\ h = new
        BY <2>1, <2>2, <3>1
      <3>2. CASE Held(u, h)
        <4>1. i \in IBAN /\ ibanToGroup[i] = root[h]
          BY <2>2, <2>4, <3>2 DEF Routing
        <4>2. QED
          BY <2>1, <2>2, <4>1
      <3>3. QED
        BY <2>3, <2>4, <3>1, <3>2
    <2>5. QED
      BY <2>2, <2>4 DEF Routing
  <1>5. ASSUME NEW tx \in TX, TakeSlot(tx) PROVE Routing'
    BY <1>5 DEF Routing, Held, TakeSlot
  <1>6. ASSUME NEW tx \in TX, RecheckJoins(tx) PROVE Routing'
    <2> DEFINE n == FirstKnown(tx)
    <2>1. n \in TX /\ root[n] = n
      <3>1. \E i \in IBAN : n = ibanToGroup[i] /\ n # Nil
        BY <1>6 DEF RecheckJoins, FirstKnown, StillUnknown, Known, gA, gB
      <3>2. QED
        BY <3>1 DEF Merges, MergedUnreferenced, MergerRoots
    <2>2. /\ ibanToGroup' = Pointed(tx, n)
          /\ root' = root /\ stolen \subseteq stolen'
      BY <1>6 DEF RecheckJoins
    <2>3. \A i \in Accounts(tx) \ stolen' : ibanToGroup[i] \in {Nil, n}
      BY <1>6 DEF RecheckJoins, FirstKnown, Accounts, gA, gB
    <2>4. \A u, h \in TX : Held(u, h)' => Held(u, h) \/ (u = tx /\ h = n)
      BY <1>6 DEF RecheckJoins, Held
    <2>5. QED
      BY <1>b, <2>1, <2>2, <2>3, <2>4
  <1>7. ASSUME NEW tx \in TX, RecheckCreates(tx) PROVE Routing'
    <2> DEFINE n == tx
    <2>1. n \in TX /\ root[n] = n
      BY <1>7 DEF RecheckCreates, Merges, NotCreated, Early
    <2>2. /\ ibanToGroup' = Pointed(tx, n)
          /\ root' = root /\ stolen \subseteq stolen'
      BY <1>7 DEF RecheckCreates
    <2>3. \A i \in Accounts(tx) \ stolen' : ibanToGroup[i] \in {Nil, n}
      BY <1>7 DEF RecheckCreates, StillUnknown, Known, Accounts, gA, gB
    <2>4. \A u, h \in TX : Held(u, h)' => Held(u, h) \/ (u = tx /\ h = n)
      BY <1>7 DEF RecheckCreates, Held
    <2>5. QED
      BY <1>b, <2>1, <2>2, <2>3, <2>4
  <1>8. ASSUME NEW tx \in TX, DrainBegins(tx) PROVE Routing'
    <2>1. UNCHANGED <<ibanToGroup, root, stolen>>
      BY <1>8 DEF DrainBegins
    <2>2. ASSUME NEW u \in TX, NEW h \in TX, Held(u, h)'
          PROVE  \E f \in TX : Held(u, f) /\ root[f] = root[h]
      BY <1>8, <2>2 DEF DrainBegins, Held, DrainHolds
    <2>3. QED
      BY <1>a, <2>1, <2>2
  <1>9. ASSUME NEW tx \in TX, DrainTakes(tx) PROVE Routing'
    <2>1. UNCHANGED <<ibanToGroup, root, stolen>>
      BY <1>9 DEF DrainTakes
    <2>2. ASSUME NEW u \in TX, NEW h \in TX, Held(u, h)'
          PROVE  \E f \in TX : Held(u, f) /\ root[f] = root[h]
      <3>1. /\ carry' = Head(ch[source[tx]]) /\ pc[tx] = "drain"
            /\ ch[source[tx]] # <<>> /\ source[tx] \in TX
            /\ \A f \in TX : ch'[f] = IF f = source[tx] THEN Tail(ch[f]) ELSE ch[f]
            /\ UNCHANGED <<pc, hand, target>>
        <4>1. /\ pc[tx] = "drain" /\ ch[source[tx]] # <<>>
              /\ carry' = Head(ch[source[tx]])
              /\ \A f \in TX : ch'[f] = IF f = source[tx] THEN Tail(ch[f]) ELSE ch[f]
              /\ UNCHANGED <<pc, hand, target>>
          BY <1>9, Zenon DEF DrainTakes, Dequeued
        <4>2. source[tx] \in TX
          BY <4>1 DEF Bound, Merger
        <4>3. QED
          BY <4>1, <4>2
      <3>2. CASE carry' = u /\ \E m \in TX : pc[m] = "drain" /\ target[m] = h
        <4>1. target[tx] = h
          BY <3>1, <3>2 DEF DrainHolds
        <4>2. Held(u, source[tx])
          BY <3>1, <3>2, QueuedHead DEF Held
        <4>3. root[source[tx]] = root[h]
          BY <3>1, <4>1 DEF Merges, MergerRoots, Merger
        <4>4. QED
          BY <3>1, <4>2, <4>3
      <3>3. CASE Queued(ch'[h], u)
        <4>1. Queued(ch[h], u)
          <5>1. CASE h = source[tx]
            <6>1. Queued(Tail(ch[h]), u) /\ ch[h] \in Seq(TX) /\ ch[h] # <<>>
              BY <3>1, <3>3, <5>1
            <6>2. QED
              BY <6>1, QueuedTail
          <5>2. CASE h # source[tx]
            BY <3>1, <3>3, <5>2
          <5>3. QED
            BY <5>1, <5>2
        <4>2. QED
          BY <4>1 DEF Held
      <3>4. CASE hand[h] = u \/ (pc[u] \in {"send", "drainWait", "drain"} /\ target[u] = h)
        BY <3>4 DEF Held
      <3>5. QED
        BY <2>2, <3>1, <3>2, <3>3, <3>4 DEF Held
    <2>3. QED
      BY <1>a, <2>1, <2>2
  <1>10. ASSUME NEW tx \in TX, DrainGives(tx) PROVE Routing'
    <2>1. UNCHANGED <<ibanToGroup, root, stolen>>
      BY <1>10 DEF DrainGives
    <2>2. ASSUME NEW u \in TX, NEW h \in TX, Held(u, h)'
          PROVE  \E f \in TX : Held(u, f) /\ root[f] = root[h]
      <3>1. /\ pc[tx] = "drain" /\ carry \in TX /\ target[tx] \in TX
            /\ \A f \in TX : ch'[f] = IF f = target[tx] THEN Append(ch[f], carry) ELSE ch[f]
            /\ carry' = Nil
            /\ UNCHANGED <<pc, hand, target>>
        <4>1. /\ pc[tx] = "drain" /\ carry # Nil /\ carry' = Nil
              /\ \A f \in TX : ch'[f] = IF f = target[tx] THEN Append(ch[f], carry) ELSE ch[f]
              /\ UNCHANGED <<pc, hand, target>>
          BY <1>10, Zenon DEF DrainGives, Enqueue
        <4>2. carry \in TX /\ target[tx] \in TX
          BY <4>1 DEF Bound, Merger
        <4>3. QED
          BY <4>1, <4>2
      <3>2. CASE Queued(ch'[h], u)
        <4>1. Queued(ch[h], u) \/ (h = target[tx] /\ u = carry)
          <5>1. CASE h = target[tx]
            <6>1. Queued(Append(ch[h], carry), u) /\ ch[h] \in Seq(TX) /\ carry \in TX
              BY <3>1, <3>2, <5>1
            <6>2. QED
              BY <5>1, <6>1, QueuedAppend
          <5>2. CASE h # target[tx]
            BY <3>1, <3>2, <5>2
          <5>3. QED
            BY <5>1, <5>2
        <4>2. QED
          BY <3>1, <4>1 DEF Held
      <3>3. QED
        BY <2>2, <3>1, <3>2 DEF Held
    <2>3. QED
      BY <1>a, <2>1, <2>2
  <1>11. ASSUME NEW tx \in TX, DrainEnds(tx) PROVE Routing'
    <2>1. UNCHANGED <<root, stolen>> /\ source[tx] \in TX /\ merging[source[tx]]
      BY <1>11 DEF DrainEnds, Merges, MergerRoots, Bound, Merger
    <2>2. \A i \in IBAN : ibanToGroup'[i] = ibanToGroup[i]
      BY <1>11, <2>1 DEF DrainEnds, Repointed, Merges, MergedUnreferenced
    <2>3. \A u, h \in TX : Held(u, h)' => Held(u, h)
      BY <1>11 DEF DrainEnds, Held
    <2>4. QED
      BY <2>1, <2>2, <2>3 DEF Routing
  <1>12. ASSUME NEW tx \in TX, Send(tx) PROVE Routing'
    <2>1. UNCHANGED <<ibanToGroup, root, stolen>>
      BY <1>12 DEF Send
    <2>2. ASSUME NEW u \in TX, NEW h \in TX, Held(u, h)'
          PROVE  \E f \in TX : Held(u, f) /\ root[f] = root[h]
      <3>1. /\ pc[tx] = "send" /\ pc' = [pc EXCEPT ![tx] = "count"]
            /\ target[tx] \in TX
            /\ \A f \in TX : ch'[f] = IF f = target[tx] THEN Append(ch[f], tx) ELSE ch[f]
            /\ UNCHANGED <<carry, hand, target>>
        <4>1. /\ pc[tx] = "send" /\ pc' = [pc EXCEPT ![tx] = "count"]
              /\ \A f \in TX : ch'[f] = IF f = target[tx] THEN Append(ch[f], tx) ELSE ch[f]
              /\ UNCHANGED <<carry, hand, target>>
          BY <1>12, Zenon DEF Send, Enqueue
        <4>2. target[tx] \in TX
          BY <4>1 DEF Bound
        <4>3. QED
          BY <4>1, <4>2
      <3>2. CASE Queued(ch'[h], u)
        <4>1. Queued(ch[h], u) \/ (h = target[tx] /\ u = tx)
          <5>1. CASE h = target[tx]
            <6>1. Queued(Append(ch[h], tx), u) /\ ch[h] \in Seq(TX) /\ tx \in TX
              BY <3>1, <3>2, <5>1
            <6>2. QED
              BY <5>1, <6>1, QueuedAppend
          <5>2. CASE h # target[tx]
            BY <3>1, <3>2, <5>2
          <5>3. QED
            BY <5>1, <5>2
        <4>2. QED
          BY <3>1, <4>1 DEF Held
      <3>3. QED
        BY <2>2, <3>1, <3>2 DEF Held
    <2>3. QED
      BY <1>a, <2>1, <2>2
  <1>13. ASSUME NEW tx \in TX, Count(tx) PROVE Routing'
    BY <1>13 DEF Routing, Held, Count
  <1>14. ASSUME NEW tx \in TX, GiveUp(tx) PROVE Routing'
    BY <1>14 DEF Routing, Held, GiveUp
  <1>15. ASSUME NEW g \in TX, Receive(g) PROVE Routing'
    <2>1. UNCHANGED <<ibanToGroup, root, stolen>>
      BY <1>15 DEF Receive
    <2>2. ASSUME NEW u \in TX, NEW h \in TX, Held(u, h)'
          PROVE  \E f \in TX : Held(u, f) /\ root[f] = root[h]
      <3>1. /\ ch[g] # <<>> /\ hand' = [hand EXCEPT ![g] = Head(ch[g])]
            /\ \A f \in TX : ch'[f] = IF f = g THEN Tail(ch[f]) ELSE ch[f]
            /\ UNCHANGED <<carry, pc, target>>
        <4>1. ch[g] # <<>> /\ hand' = [hand EXCEPT ![g] = Head(ch[g])]
          BY <1>15 DEF Receive
        <4>2. \A f \in TX : ch'[f] = IF f = g THEN Tail(ch[f]) ELSE ch[f]
          BY <1>15 DEF Receive, Dequeued
        <4>3. UNCHANGED <<carry, pc, target>>
          BY <1>15 DEF Receive
        <4>4. QED
          BY <4>1, <4>2, <4>3
      <3>2. CASE Queued(ch'[h], u)
        <4>1. Queued(ch[h], u)
          <5>1. CASE h = g
            <6>1. Queued(Tail(ch[h]), u) /\ ch[h] \in Seq(TX) /\ ch[h] # <<>>
              BY <3>1, <3>2, <5>1
            <6>2. QED
              BY <6>1, QueuedTail
          <5>2. CASE h # g
            BY <3>1, <3>2, <5>2
          <5>3. QED
            BY <5>1, <5>2
        <4>2. QED
          BY <4>1 DEF Held
      <3>3. CASE hand'[h] = u
        <4>1. hand[h] = u \/ Queued(ch[h], u)
          BY <3>1, <3>3, QueuedHead
        <4>2. QED
          BY <4>1 DEF Held
      <3>4. QED
        BY <2>2, <3>1, <3>2, <3>3 DEF Held
    <2>3. QED
      BY <1>a, <2>1, <2>2
  <1>16. ASSUME NEW g \in TX, Finish(g) PROVE Routing'
    BY <1>16 DEF Routing, Held, Finish
  <1>17. ASSUME NEW g \in TX, LeaveToMerge(g) PROVE Routing'
    BY <1>17 DEF Routing, Held, LeaveToMerge
  <1>18. ASSUME NEW g \in TX, BeginDrain(g) PROVE Routing'
    BY <1>18 DEF Routing, Held, BeginDrain
  <1>19. ASSUME NEW g \in TX, EndDrain(g) PROVE Routing'
    BY <1>19 DEF Routing, Held, EndDrain
  <1>20. ASSUME NEW g \in TX, CallWait(g) PROVE Routing'
    BY <1>20 DEF Routing, Held, CallWait
  <1>21. ASSUME NEW g \in TX, WaitReturns(g) PROVE Routing'
    BY <1>21 DEF Routing, Held, WaitReturns
  <1>22. CASE Cancel
    BY <1>22 DEF Cancel, Routing, Held
  <1>23. CASE ShutdownReturns
    BY <1>23 DEF ShutdownReturns, Routing, Held
  <1>24. CASE UNCHANGED vars
    BY <1>24 DEF vars, Routing, Held
  <1>25. QED
    BY <1>1, <1>2, <1>3, <1>4, <1>5, <1>6, <1>7, <1>8, <1>9, <1>10, <1>11, <1>12,
       <1>13, <1>14, <1>15, <1>16, <1>17, <1>18, <1>19, <1>20, <1>21, <1>22, <1>23, <1>24 DEF Next, Add, Locked,
       RunWorker, Wait

LEMMA RoutingAlways == Spec => []Routing
  BY TypedAlways, MergesAlways, DrainAlways, RoutingInit, RoutingStep, PTL DEF Spec

(* Two workers process payments of one account at the same time only if one of
   the two groups was merged away or a re-check moved the account: the routing
   under Mu (PaymentManagerService.go:104-195) leaves no third way. *)
THEOREM ParallelNoThirdWay == Spec => []ParallelOnlyByMergeOrSteal
  <1>1. Typed /\ Merges /\ Routing => ParallelOnlyByMergeOrSteal
    BY TXAssumption
    DEF Typed, TypeOK, Merges, MergerRoots, Routing, Held, Overlap,
        ParallelOnlyByMergeOrSteal
  <1>2. QED
    BY <1>1, TypedAlways, MergesAlways, RoutingAlways, PTL

-----------------------------------------------------------------------------
(* The slots *)

LEMMA CountsFinite ==
  ASSUME NEW S \in SUBSET TX
  PROVE  IsFiniteSet(S) /\ Cardinality(S) \in Nat
  BY TXAssumption, FS_Subset, FS_CardinalityType

LEMMA CountAdded ==
  ASSUME NEW S \in SUBSET TX, NEW x \in TX, x \notin S
  PROVE  Cardinality(S \cup {x}) = Cardinality(S) + 1
  BY CountsFinite, FS_AddElement

LEMMA CountRemoved ==
  ASSUME NEW S \in SUBSET TX, NEW x \in S
  PROVE  Cardinality(S \ {x}) = Cardinality(S) - 1
  BY CountsFinite, FS_RemoveElement

LEMMA SlotsInit == Init => SlotsExact
  <1> SUFFICES ASSUME Init PROVE SlotsExact
    OBVIOUS
  <1>1. LiveGroups = {} /\ Rechecking = {} /\ semaphore = 0 /\ dWg = 0
    BY DEF Init, LiveGroups, Live, Rechecking
  <1>2. QED
    BY <1>1, FS_EmptySet, SizeAssumption DEF SlotsExact

LEMMA SlotsStep == Typed /\ NotCreated /\ SlotsExact /\ [Next]_vars => SlotsExact'
  <1> SUFFICES ASSUME Typed, NotCreated, SlotsExact, [Next]_vars
               PROVE  SlotsExact'
    OBVIOUS
  <1>t. /\ pc \in [TX -> {"lock", "slot", "recheck", "send", "count", "accepted",
                           "drainWait", "drain", "refused"}]
        /\ worker \in [TX -> {"none", "select", "process", "drain",
                             "drainProcess", "exited"}]
    BY DEF Typed, TypeOK
  <1>c. /\ LiveGroups \in SUBSET TX /\ Rechecking \in SUBSET TX
        /\ Cardinality(LiveGroups) \in Nat /\ Cardinality(Rechecking) \in Nat
        /\ Cardinality(LiveGroups') \in Nat /\ Cardinality(Rechecking') \in Nat
    BY CountsFinite DEF LiveGroups, Rechecking
  <1>a. ASSUME UNCHANGED <<LiveGroups, Rechecking, semaphore, dWg>>
        PROVE  SlotsExact'
    BY <1>a DEF SlotsExact
  <1>l. ASSUME NEW g \in TX, Leave(g), pc' = pc, worker[g] \in {"select", "drain"}
        PROVE  SlotsExact'
    <2>1. LiveGroups' = LiveGroups \ {g} /\ g \in LiveGroups
      BY <1>t, <1>l DEF Leave, LiveGroups, Live
    <2>2. Rechecking' = Rechecking
      BY <1>l DEF Rechecking
    <2>3. semaphore' = semaphore - 1 /\ dWg' = dWg - 1
      BY <1>l DEF Leave, ReleaseSlot, WorkerDone
    <2>4. Cardinality(LiveGroups') = Cardinality(LiveGroups) - 1
      BY <1>c, <2>1, CountRemoved
    <2>5. QED
      BY <1>c, <2>2, <2>3, <2>4, SizeAssumption DEF SlotsExact
  <1> USE <1>t DEF Goto, adderVars, mapVars, groupVars, countVars, poolVars,
          procVars, endVars
  <1>1. ASSUME NEW tx \in TX, AddRefused(tx) PROVE SlotsExact'
    BY <1>1, <1>a DEF LiveGroups, Live, Rechecking, AddRefused
  <1>2. ASSUME NEW tx \in TX, AddSeesNoGroup(tx) PROVE SlotsExact'
    BY <1>2, <1>a DEF LiveGroups, Live, Rechecking, AddSeesNoGroup
  <1>3. ASSUME NEW tx \in TX, AddConnects(tx) PROVE SlotsExact'
    BY <1>3, <1>a DEF LiveGroups, Live, Rechecking, AddConnects
  <1>4. ASSUME NEW tx \in TX, AddMerges(tx) PROVE SlotsExact'
    BY <1>4, <1>a DEF LiveGroups, Live, Rechecking, AddMerges
  <1>5. ASSUME NEW tx \in TX, TakeSlot(tx) PROVE SlotsExact'
    <2>1. Rechecking' = Rechecking \cup {tx} /\ tx \notin Rechecking
      BY <1>5 DEF TakeSlot, Rechecking
    <2>2. LiveGroups' = LiveGroups
      BY <1>5 DEF TakeSlot, LiveGroups, Live
    <2>3. semaphore' = semaphore + 1 /\ semaphore < MaxWorkers /\ dWg' = dWg
      BY <1>5 DEF TakeSlot
    <2>4. Cardinality(Rechecking') = Cardinality(Rechecking) + 1
      BY <1>c, <2>1, CountAdded
    <2>5. QED
      BY <1>c, <2>2, <2>3, <2>4, SizeAssumption DEF SlotsExact
  <1>6. ASSUME NEW tx \in TX, RecheckJoins(tx) PROVE SlotsExact'
    <2>1. Rechecking' = Rechecking \ {tx} /\ tx \in Rechecking
      BY <1>6 DEF RecheckJoins, Rechecking
    <2>2. LiveGroups' = LiveGroups
      BY <1>6 DEF RecheckJoins, LiveGroups, Live
    <2>3. semaphore' = semaphore - 1 /\ dWg' = dWg
      BY <1>6 DEF RecheckJoins, ReleaseSlot
    <2>4. Cardinality(Rechecking') = Cardinality(Rechecking) - 1
      BY <1>c, <2>1, CountRemoved
    <2>5. QED
      BY <1>c, <2>2, <2>3, <2>4, SizeAssumption DEF SlotsExact
  <1>7. ASSUME NEW tx \in TX, RecheckCreates(tx) PROVE SlotsExact'
    <2>1. Rechecking' = Rechecking \ {tx} /\ tx \in Rechecking
      BY <1>7 DEF RecheckCreates, Rechecking
    <2>2. LiveGroups' = LiveGroups \cup {tx} /\ tx \notin LiveGroups
      BY <1>7 DEF RecheckCreates, LiveGroups, Live, NotCreated, Early
    <2>3. semaphore' = semaphore /\ dWg' = dWg + 1
      BY <1>7 DEF RecheckCreates
    <2>4. Cardinality(Rechecking') = Cardinality(Rechecking) - 1
      BY <1>c, <2>1, CountRemoved
    <2>5. Cardinality(LiveGroups') = Cardinality(LiveGroups) + 1
      BY <1>c, <2>2, CountAdded
    <2>6. QED
      BY <1>c, <2>3, <2>4, <2>5, SizeAssumption DEF SlotsExact
  <1>8. ASSUME NEW tx \in TX, DrainBegins(tx) PROVE SlotsExact'
    BY <1>8, <1>a DEF LiveGroups, Live, Rechecking, DrainBegins
  <1>9. ASSUME NEW tx \in TX, DrainTakes(tx) PROVE SlotsExact'
    BY <1>9, <1>a DEF LiveGroups, Live, Rechecking, DrainTakes
  <1>10. ASSUME NEW tx \in TX, DrainGives(tx) PROVE SlotsExact'
    BY <1>10, <1>a DEF LiveGroups, Live, Rechecking, DrainGives
  <1>11. ASSUME NEW tx \in TX, DrainEnds(tx) PROVE SlotsExact'
    BY <1>11, <1>a DEF LiveGroups, Live, Rechecking, DrainEnds
  <1>12. ASSUME NEW tx \in TX, Send(tx) PROVE SlotsExact'
    BY <1>12, <1>a DEF LiveGroups, Live, Rechecking, Send
  <1>13. ASSUME NEW tx \in TX, Count(tx) PROVE SlotsExact'
    BY <1>13, <1>a DEF LiveGroups, Live, Rechecking, Count
  <1>14. ASSUME NEW tx \in TX, GiveUp(tx) PROVE SlotsExact'
    BY <1>14, <1>a DEF LiveGroups, Live, Rechecking, GiveUp
  <1>15. ASSUME NEW g \in TX, Receive(g) PROVE SlotsExact'
    BY <1>15, <1>a DEF LiveGroups, Live, Rechecking, Receive
  <1>16. ASSUME NEW g \in TX, Finish(g) PROVE SlotsExact'
    BY <1>16, <1>a DEF LiveGroups, Live, Rechecking, Finish
  <1>17. ASSUME NEW g \in TX, LeaveToMerge(g) PROVE SlotsExact'
    BY <1>17, <1>l DEF LeaveToMerge
  <1>18. ASSUME NEW g \in TX, BeginDrain(g) PROVE SlotsExact'
    BY <1>18, <1>a DEF LiveGroups, Live, Rechecking, BeginDrain
  <1>19. ASSUME NEW g \in TX, EndDrain(g) PROVE SlotsExact'
    BY <1>19, <1>l DEF EndDrain
  <1>20. ASSUME NEW g \in TX, CallWait(g) PROVE SlotsExact'
    BY <1>20, <1>a DEF LiveGroups, Live, Rechecking, CallWait
  <1>21. ASSUME NEW g \in TX, WaitReturns(g) PROVE SlotsExact'
    BY <1>21, <1>a DEF LiveGroups, Live, Rechecking, WaitReturns
  <1>22. CASE Cancel
    BY <1>22, <1>a DEF LiveGroups, Live, Rechecking, Cancel
  <1>23. CASE ShutdownReturns
    BY <1>23, <1>a DEF LiveGroups, Live, Rechecking, ShutdownReturns
  <1>24. CASE UNCHANGED vars
    BY <1>24, <1>a DEF LiveGroups, Live, Rechecking, vars
  <1>25. QED
    BY <1>1, <1>2, <1>3, <1>4, <1>5, <1>6, <1>7, <1>8, <1>9, <1>10, <1>11, <1>12,
       <1>13, <1>14, <1>15, <1>16, <1>17, <1>18, <1>19, <1>20, <1>21, <1>22, <1>23, <1>24 DEF Next, Add, Locked,
       RunWorker, Wait

(* The semaphore counts the live workers and the calls at their re-check, and
   stays within its capacity; the dispatcher's WaitGroup counts the live
   workers (dispather.go:20-22, 27-28). *)
THEOREM SlotsStayExact == Spec => []SlotsExact
  <1>1. Merges => NotCreated
    BY DEF Merges
  <1>2. QED
    BY <1>1, TypedAlways, MergesAlways, SlotsInit, SlotsStep, PTL DEF Spec
=============================================================================
