------------------------------ MODULE Dispatcher ------------------------------
(***************************************************************************)
(* The queue manager of the payment service: PaymentManagerService.add,    *)
(* the group workers (runWorker), the goroutine NewGroup starts to wait on *)
(* the group's WaitGroup, and the shutdown of the dispatcher.              *)
(*                                                                         *)
(* Every payment of TX is submitted by one call of add, on a goroutine of  *)
(* its own (the HTTP handler's, or the recovery's).  A group is named by   *)
(* the payment whose call created it.  A section of add that runs under    *)
(* Mu without blocking is one action; the drain of a merge, which blocks   *)
(* on a channel while it holds Mu, is split at every channel operation.    *)
(*                                                                         *)
(* External to src/: sync.WaitGroup and the channels of Go 1.25.           *)
(***************************************************************************)
EXTENDS Integers, Sequences, FiniteSets, Functions

CONSTANTS
  TX,              \* the payments submitted
  IBAN,            \* account numbers
  Deb, Cred,       \* debtor and creditor IBAN of every payment
  MaxWorkers,      \* capacity of Dispatcher.Semaphore
  ChanBuffer,      \* capacity of Group.Ch
  Nil,             \* no group, no payment, nobody
  MayFail,         \* may ProcessTX return an error of the database?
  MayShutDown      \* may the server cancel the root context?

ASSUME TXAssumption == IsFiniteSet(TX) /\ Nil \notin TX
ASSUME IbanAssumption == Deb \in [TX -> IBAN] /\ Cred \in [TX -> IBAN]
ASSUME SizeAssumption == MaxWorkers \in Nat /\ ChanBuffer \in Nat \ {0}
ASSUME FlagAssumption == MayFail \in BOOLEAN /\ MayShutDown \in BOOLEAN

VARIABLES
  pc,              \* where the add call of every payment is
  target,          \* its local g: the group the payment is bound for
  source,          \* its local gB while it merges
  mu,              \* who holds Mu across a drain (Nil: Mu can be taken)
  carry,           \* the drain's local pending: out of gB.Ch, not yet in gA.Ch
  ibanToGroup, semaphore, rootDone, dWg,               \* Dispatcher
  ch, cancelled, merging, drainReady, wg,              \* Group
  waiter,          \* the goroutine of NewGroup
  worker, hand,    \* runWorker: its place in the loop, its local tx
  fate,            \* what ProcessTX answered for every payment
  panicked,        \* a WaitGroup panicked: the process is gone
  stopped,         \* Shutdown returned
  root, stolen     \* history: the group each group was merged into, and the
                   \* accounts a re-check took away from a group unmerged

adderVars == <<pc, target, source, mu, carry>>
mapVars   == <<ibanToGroup, root, stolen>>
groupVars == <<ch, cancelled, merging, drainReady>>
countVars == <<wg, waiter, panicked>>
poolVars  == <<semaphore, dWg, worker>>
procVars  == <<hand, fate>>
endVars   == <<rootDone, stopped>>
vars == <<adderVars, mapVars, groupVars, countVars, poolVars, procVars, endVars>>

Accounts(tx) == {Deb[tx], Cred[tx]}

Init ==
  /\ pc = [tx \in TX |-> "lock"]
  /\ target = [tx \in TX |-> Nil]
  /\ source = [tx \in TX |-> Nil]
  /\ mu = Nil /\ carry = Nil
  /\ ibanToGroup = [i \in IBAN |-> Nil]
  /\ semaphore = 0 /\ dWg = 0
  /\ rootDone = FALSE /\ stopped = FALSE /\ panicked = FALSE
  /\ ch = [g \in TX |-> <<>>]
  /\ cancelled = [g \in TX |-> FALSE]
  /\ merging = [g \in TX |-> FALSE]
  /\ drainReady = [g \in TX |-> FALSE]
  /\ wg = [g \in TX |-> 0]
  /\ waiter = [g \in TX |-> "none"]
  /\ worker = [g \in TX |-> "none"]
  /\ hand = [g \in TX |-> Nil]
  /\ fate = [tx \in TX |-> "none"]
  /\ root = [g \in TX |-> g]
  /\ stolen = {}

-----------------------------------------------------------------------------
(* What the code's statements do, by name. *)

gA(tx) == ibanToGroup[Cred[tx]]
gB(tx) == ibanToGroup[Deb[tx]]
Known(tx) == gA(tx) # Nil \/ gB(tx) # Nil
FirstKnown(tx) == IF gA(tx) # Nil THEN gA(tx) ELSE gB(tx)

(* IbanToGroup[tx.DebIBAN()] = g ; IbanToGroup[tx.CredIBAN()] = g *)
(* mutant: the second of the two is missing *)
PointedDebtor(tx, g) == [ibanToGroup EXCEPT ![Deb[tx]] = g]
Pointed(tx, g) == [i \in IBAN |-> IF i \in Accounts(tx) THEN g ELSE ibanToGroup[i]]

(* the loop over IbanToGroup that turns every key of one group to another *)
Repointed(old, new) ==
  [i \in IBAN |-> IF ibanToGroup[i] = old THEN new ELSE ibanToGroup[i]]

(* the re-check after the slot was taken *)
(* mutant: no re-check *)
RecheckSkipped(tx) == TRUE
StillUnknown(tx) == ~Known(tx)

(* <-Semaphore *)
(* mutant: the slot is kept *)
SlotKept == UNCHANGED semaphore
ReleaseSlot == semaphore' = semaphore - 1

(* g.Wg.Add(1), g.Wg.Done(), dispatcher.Wg.Done() *)
(* mutants: the call is missing *)
Uncounted(g) == wg[g]
Counted(g) == wg[g] + 1
Done(g) == wg[g] - 1
WorkerStays == dWg
WorkerDone == dWg - 1

Dequeued(g) == [ch EXCEPT ![g] = Tail(@)]
(* mutant: one too many *)
HasRoomOneMore(g) == Len(ch[g]) <= ChanBuffer
HasRoom(g) == Len(ch[g]) < ChanBuffer
(* mutant: at the front *)
EnqueueFirst(g, tx) == HasRoom(g) /\ ch' = [ch EXCEPT ![g] = <<tx>> \o @]
Enqueue(g, tx) == HasRoom(g) /\ ch' = [ch EXCEPT ![g] = Append(@, tx)]

(* g.GrCtx is a child of the root context *)
ContextDone(g) == cancelled[g] \/ rootDone

Goto(tx, from, to) == pc[tx] = from /\ pc' = [pc EXCEPT ![tx] = to]

-----------------------------------------------------------------------------
(* PaymentManagerService.add *)

(* Refused under the first lock: the root context is done. *)
AddRefused(tx) ==
  /\ mu = Nil /\ rootDone
  /\ Goto(tx, "lock", "refused")
  /\ UNCHANGED <<target, source, mu, carry, mapVars, groupVars, countVars,
                 poolVars, procVars, endVars>>

(* Neither account has a group: Mu is released to wait for a worker slot. *)
AddSeesNoGroup(tx) ==
  /\ mu = Nil /\ ~rootDone /\ ~Known(tx)
  /\ Goto(tx, "lock", "slot")
  /\ UNCHANGED <<target, source, mu, carry, mapVars, groupVars, countVars,
                 poolVars, procVars, endVars>>

(* One account has a group, or both have the same: the payment joins it. *)
AddConnects(tx) ==
  /\ mu = Nil /\ ~rootDone /\ Known(tx)
  /\ gA(tx) = Nil \/ gB(tx) = Nil \/ gA(tx) = gB(tx)
  /\ Goto(tx, "lock", "send")
  /\ target' = [target EXCEPT ![tx] = FirstKnown(tx)]
  /\ ibanToGroup' = Pointed(tx, FirstKnown(tx))
  /\ UNCHANGED <<source, mu, carry, root, stolen, groupVars, countVars,
                 poolVars, procVars, endVars>>

(* The accounts have two groups: gB is marked, its keys turned to gA, its
   worker cancelled; then Mu is released until gB's worker is out. *)
AddMerges(tx) ==
  /\ mu = Nil /\ ~rootDone
  /\ gA(tx) # Nil /\ gB(tx) # Nil /\ gA(tx) # gB(tx)
  /\ Goto(tx, "lock", "drainWait")
  /\ target' = [target EXCEPT ![tx] = gA(tx)]
  /\ source' = [source EXCEPT ![tx] = gB(tx)]
  /\ merging' = [merging EXCEPT ![gB(tx)] = TRUE]
  /\ cancelled' = [cancelled EXCEPT ![gB(tx)] = TRUE]
  /\ ibanToGroup' = Repointed(gB(tx), gA(tx))
  /\ root' = [g \in TX |-> IF root[g] = gB(tx) THEN gA(tx) ELSE root[g]]
  /\ UNCHANGED <<mu, carry, stolen, ch, drainReady, countVars,
                 poolVars, procVars, endVars>>

(* Semaphore <- struct{}{} *)
TakeSlot(tx) ==
  /\ semaphore < MaxWorkers
  /\ Goto(tx, "slot", "recheck")
  /\ semaphore' = semaphore + 1
  /\ UNCHANGED <<target, source, mu, carry, mapVars, groupVars, countVars,
                 dWg, worker, procVars, endVars>>

(* Re-check under Mu: meanwhile some account got a group.  The creditor's
   wins, BOTH keys are turned to it, and the slot is given back. *)
RecheckJoins(tx) ==
  /\ mu = Nil /\ ~StillUnknown(tx)
  /\ Goto(tx, "recheck", "send")
  /\ target' = [target EXCEPT ![tx] = FirstKnown(tx)]
  /\ ibanToGroup' = Pointed(tx, FirstKnown(tx))
  /\ stolen' = stolen \cup {i \in Accounts(tx) :
                              ibanToGroup[i] \notin {Nil, FirstKnown(tx)}}
  /\ ReleaseSlot
  /\ UNCHANGED <<source, mu, carry, root, groupVars, countVars, dWg, worker,
                 procVars, endVars>>

(* Re-check under Mu: still no group.  NewGroup, and its two goroutines. *)
RecheckCreates(tx) ==
  /\ mu = Nil /\ StillUnknown(tx)
  /\ Goto(tx, "recheck", "send")
  /\ target' = [target EXCEPT ![tx] = tx]
  /\ ibanToGroup' = Pointed(tx, tx)
  /\ dWg' = dWg + 1
  /\ worker' = [worker EXCEPT ![tx] = "select"]
  /\ waiter' = [waiter EXCEPT ![tx] = "start"]
  /\ UNCHANGED <<source, mu, carry, root, stolen, groupVars, wg, panicked,
                 semaphore, procVars, endVars>>

(* <-gB.DrainReady, then Mu again *)
(* mutant: does not wait *)
SourceAny(tx) == TRUE
SourceLeft(tx) == drainReady[source[tx]]
DrainBegins(tx) ==
  /\ mu = Nil /\ Goto(tx, "drainWait", "drain")
  /\ SourceLeft(tx)
  /\ mu' = tx
  /\ UNCHANGED <<target, source, carry, mapVars, groupVars, countVars,
                 poolVars, procVars, endVars>>

DrainTakes(tx) ==
  /\ pc[tx] = "drain" /\ carry = Nil /\ ch[source[tx]] # <<>>
  /\ carry' = Head(ch[source[tx]])
  /\ ch' = Dequeued(source[tx])
  /\ UNCHANGED <<pc, target, source, mu, mapVars, cancelled, merging,
                 drainReady, countVars, poolVars, procVars, endVars>>

(* mutant: a send that does not block, as the receive of the loop does not *)
DrainGivesOrDrops(tx) ==
  /\ pc[tx] = "drain" /\ carry # Nil
  /\ IF HasRoom(target[tx]) THEN Enqueue(target[tx], carry) ELSE UNCHANGED ch
  /\ carry' = Nil
  /\ UNCHANGED <<pc, target, source, mu, mapVars, cancelled, merging,
                 drainReady, countVars, poolVars, procVars, endVars>>

(* gA.Ch <- pending: blocks, holding Mu, while gA.Ch is full.  gA.Wg is left
   as it was, though gA's worker will call its Done. *)
DrainGives(tx) ==
  /\ pc[tx] = "drain" /\ carry # Nil
  /\ Enqueue(target[tx], carry)
  /\ carry' = Nil
  /\ UNCHANGED <<pc, target, source, mu, mapVars, cancelled, merging,
                 drainReady, countVars, poolVars, procVars, endVars>>

DrainEnds(tx) ==
  /\ Goto(tx, "drain", "send")
  /\ carry = Nil /\ ch[source[tx]] = <<>>
  /\ ibanToGroup' = Repointed(source[tx], target[tx])
  /\ mu' = Nil
  /\ UNCHANGED <<target, source, carry, root, stolen, groupVars, countVars,
                 poolVars, procVars, endVars>>

(* g.Ch <- tx *)
Send(tx) ==
  /\ Goto(tx, "send", "count")
  /\ Enqueue(target[tx], tx)
  /\ UNCHANGED <<target, source, mu, carry, mapVars, cancelled, merging,
                 drainReady, countVars, poolVars, procVars, endVars>>

(* g.Wg.Add(1), after the payment is already in the channel *)
Count(tx) ==
  /\ Goto(tx, "count", "accepted")
  /\ wg' = [wg EXCEPT ![target[tx]] = Counted(target[tx])]
  /\ UNCHANGED <<target, source, mu, carry, mapVars, groupVars, waiter,
                 panicked, poolVars, procVars, endVars>>

(* RootCtx.Done() chosen in one of the three selects of add *)
(* mutant: the last of them has no such case *)
GiveUpUnlessSending(tx) ==
  /\ rootDone
  /\ \E from \in {"slot", "drainWait"} : Goto(tx, from, "refused")
  /\ UNCHANGED <<target, source, mu, carry, mapVars, groupVars, countVars,
                 poolVars, procVars, endVars>>
GiveUp(tx) ==
  /\ rootDone
  /\ \E from \in {"slot", "drainWait", "send"} : Goto(tx, from, "refused")
  /\ UNCHANGED <<target, source, mu, carry, mapVars, groupVars, countVars,
                 poolVars, procVars, endVars>>

-----------------------------------------------------------------------------
(* PaymentManagerService.runWorker *)

(* The call of ProcessTX with the root context fails at once if that is done. *)
HandedOver(tx) == [fate EXCEPT ![tx] = IF rootDone THEN "doomed" ELSE @]

(* tx := <-g.Ch, in the main loop or in the drain loop *)
Receive(g) ==
  /\ worker[g] \in {"select", "drain"} /\ ch[g] # <<>>
  /\ worker' = [worker EXCEPT ![g] = IF @ = "select" THEN "process"
                                                     ELSE "drainProcess"]
  /\ hand' = [hand EXCEPT ![g] = Head(ch[g])]
  /\ ch' = Dequeued(g)
  /\ fate' = HandedOver(Head(ch[g]))
  /\ UNCHANGED <<adderVars, mapVars, cancelled, merging, drainReady,
                 countVars, semaphore, dWg, endVars>>

(* ProcessTX returns (the database may refuse, and a cancelled context may
   stop it half way), then g.Wg.Done(): a negative counter panics, zero
   wakes the waiting goroutine. *)
Finish(g) ==
  LET tx == hand[g] IN
  /\ worker[g] \in {"process", "drainProcess"}
  /\ worker' = [worker EXCEPT ![g] = IF @ = "process" THEN "select" ELSE "drain"]
  /\ hand' = [hand EXCEPT ![g] = Nil]
  /\ \E answer \in {"processed", "failed"} :
       /\ answer = "processed" => fate[tx] # "doomed"
       /\ answer = "failed" => rootDone \/ MayFail
       /\ fate' = [fate EXCEPT ![tx] = answer]
  /\ wg' = [wg EXCEPT ![g] = Done(g)]
  /\ panicked' = (Done(g) < 0)
  /\ waiter' = [waiter EXCEPT ![g] = IF Done(g) = 0 /\ @ = "parked" THEN "woken" ELSE @]
  /\ UNCHANGED <<adderVars, mapVars, groupVars, semaphore, dWg, endVars>>

(* the two deferred calls: the slot first, then dispatcher.Wg.Done() *)
Leave(g) ==
  /\ worker' = [worker EXCEPT ![g] = "exited"]
  /\ ReleaseSlot
  /\ dWg' = WorkerDone

(* GrCtx.Done() chosen, and the group is being merged: the queue is left to
   the merging call. *)
LeaveToMerge(g) ==
  /\ worker[g] = "select" /\ ContextDone(g) /\ merging[g]
  /\ drainReady' = [drainReady EXCEPT ![g] = TRUE]
  /\ Leave(g)
  /\ UNCHANGED <<adderVars, mapVars, ch, cancelled, merging, countVars,
                 procVars, endVars>>

(* GrCtx.Done() chosen otherwise: on to the drain loop. *)
BeginDrain(g) ==
  /\ worker[g] = "select" /\ ContextDone(g) /\ ~merging[g]
  /\ worker' = [worker EXCEPT ![g] = "drain"]
  /\ UNCHANGED <<adderVars, mapVars, groupVars, countVars, semaphore, dWg,
                 procVars, endVars>>

EndDrain(g) ==
  /\ worker[g] = "drain" /\ ch[g] = <<>>
  /\ Leave(g)
  /\ UNCHANGED <<adderVars, mapVars, groupVars, countVars, procVars, endVars>>

(* The goroutine of NewGroup: g.Wg.Wait(), then workerCancelSig().  Wait
   returns at once on a zero counter; a parked Wait that wakes up to a counter
   in use again panics. *)
CallWait(g) ==
  /\ waiter[g] = "start"
  /\ waiter' = [waiter EXCEPT ![g] = IF wg[g] = 0 THEN "gone" ELSE "parked"]
  /\ cancelled' = [cancelled EXCEPT ![g] = @ \/ wg[g] = 0]
  /\ UNCHANGED <<adderVars, mapVars, ch, merging, drainReady, wg, panicked,
                 poolVars, procVars, endVars>>

WaitReturns(g) ==
  /\ waiter[g] = "woken"
  /\ waiter' = [waiter EXCEPT ![g] = "gone"]
  /\ cancelled' = [cancelled EXCEPT ![g] = @ \/ wg[g] = 0]
  /\ panicked' = (wg[g] # 0)
  /\ UNCHANGED <<adderVars, mapVars, ch, merging, drainReady, wg, poolVars,
                 procVars, endVars>>

-----------------------------------------------------------------------------
(* main: cancel() of the root context, then PaymentManagerService.Shutdown *)

Cancel ==
  /\ MayShutDown /\ ~rootDone
  /\ rootDone' = TRUE
  /\ UNCHANGED <<adderVars, mapVars, groupVars, countVars, poolVars, procVars,
                 stopped>>

ShutdownReturns ==
  /\ rootDone /\ ~stopped /\ dWg = 0
  /\ stopped' = TRUE
  /\ UNCHANGED <<adderVars, mapVars, groupVars, countVars, poolVars, procVars,
                 rootDone>>

Locked(tx) ==
  \/ AddRefused(tx) \/ AddSeesNoGroup(tx) \/ AddConnects(tx) \/ AddMerges(tx)
  \/ RecheckJoins(tx) \/ RecheckCreates(tx)
  \/ DrainTakes(tx) \/ DrainGives(tx) \/ DrainEnds(tx)
Add(tx) ==
  \/ Locked(tx) \/ TakeSlot(tx) \/ DrainBegins(tx) \/ Send(tx) \/ Count(tx)
  \/ GiveUp(tx)
RunWorker(g) ==
  Receive(g) \/ Finish(g) \/ LeaveToMerge(g) \/ BeginDrain(g) \/ EndDrain(g)
(* mutant: NewGroup starts no goroutine *)
NobodyWaits(g) == FALSE
Wait(g) == CallWait(g) \/ WaitReturns(g)

Next ==
  /\ ~panicked
  /\ \/ \E tx \in TX : Add(tx) \/ RunWorker(tx) \/ Wait(tx)
     \/ Cancel \/ ShutdownReturns

(* Every goroutine that can run is scheduled; ProcessTX returns.  The senders
   blocked on a channel queue up first in, first out, so one for whom there is
   room again and again gets it: strong fairness for the slot and the send. *)
Fairness ==
  /\ \A tx \in TX : WF_vars(~panicked /\ Add(tx))
                 /\ SF_vars(~panicked /\ (TakeSlot(tx) \/ Send(tx)))
                 /\ WF_vars(~panicked /\ RunWorker(tx))
                 /\ WF_vars(~panicked /\ Wait(tx))
  /\ WF_vars(~panicked /\ ShutdownReturns)

Spec == Init /\ [][Next]_vars /\ Fairness

-----------------------------------------------------------------------------
(* Properties *)

Live(g) == worker[g] \notin {"none", "exited"}
LiveGroups == {g \in TX : Live(g)}
Rechecking == {tx \in TX : pc[tx] = "recheck"}
Sent(tx) == pc[tx] \in {"count", "accepted"}
InHand(g) == IF hand[g] = Nil THEN 0 ELSE 1

(* The type of every variable; a channel holds at most its capacity
   (consts.ChanBuffer, paymentGroup.go:52). *)
TypeOK ==
  /\ pc \in [TX -> {"lock", "slot", "recheck", "send", "count", "accepted",
                    "drainWait", "drain", "refused"}]
  /\ target \in [TX -> TX \cup {Nil}] /\ source \in [TX -> TX \cup {Nil}]
  /\ mu \in TX \cup {Nil} /\ carry \in TX \cup {Nil}
  /\ ibanToGroup \in [IBAN -> TX \cup {Nil}]
  /\ semaphore \in Int /\ dWg \in Int
  /\ rootDone \in BOOLEAN /\ stopped \in BOOLEAN /\ panicked \in BOOLEAN
  /\ ch \in [TX -> Seq(TX)] /\ \A g \in TX : Len(ch[g]) <= ChanBuffer
  /\ cancelled \in [TX -> BOOLEAN] /\ merging \in [TX -> BOOLEAN]
  /\ drainReady \in [TX -> BOOLEAN]
  /\ wg \in [TX -> Int]
  /\ waiter \in [TX -> {"none", "start", "parked", "woken", "gone"}]
  /\ worker \in [TX -> {"none", "select", "process", "drain", "drainProcess",
                        "exited"}]
  /\ hand \in [TX -> TX \cup {Nil}]
  /\ fate \in [TX -> {"none", "doomed", "processed", "failed"}]
  /\ root \in [TX -> TX] /\ stolen \subseteq IBAN

(* The semaphore counts the live workers and the calls between taking a slot
   and the re-check, never more than its capacity; the dispatcher's WaitGroup
   counts the live workers (dispather.go:20-22, 27-28): no path of add or of
   runWorker takes a slot twice or keeps one. *)
SlotsExact ==
  /\ semaphore = Cardinality(LiveGroups) + Cardinality(Rechecking)
  /\ semaphore \in 0..MaxWorkers
  /\ dWg = Cardinality(LiveGroups)

(* Two workers process payments of one account at the same time. *)
Overlap(g, h, i) ==
  /\ g # h /\ hand[g] # Nil /\ hand[h] # Nil
  /\ i \in Accounts(hand[g]) \cap Accounts(hand[h])

(* An account is processed by two workers at once only while one of the two
   groups is being merged, or if a re-check moved the account from a group to
   another without a merge: the routing under Mu leaves no third way
   (PaymentManagerService.go:104-195). *)
ParallelOnlyByMergeOrSteal ==
  \A g, h \in TX, i \in IBAN :
    Overlap(g, h, i) => merging[g] \/ merging[h] \/ i \in stolen

(* A payment that was sent and not yet answered is in exactly one place: a
   cell of one channel, the drain's pending, or the hands of one worker; any
   other payment is nowhere.  Merging neither drops nor doubles one
   (PaymentManagerService.go:180-188, 197-198, 212, 227). *)
Places(tx) ==
  {p \in TX \X (1..ChanBuffer) : p[2] <= Len(ch[p[1]]) /\ ch[p[1]][p[2]] = tx}
    \cup {<<g, 0>> : g \in {h \in TX : hand[h] = tx}}
    \cup (IF carry = tx THEN {<<tx, -1>>} ELSE {})
HeldOnce ==
  \A tx \in TX : Cardinality(Places(tx)) =
                   IF Sent(tx) /\ fate[tx] \in {"none", "doomed"} THEN 1 ELSE 0

(* While a merge empties gB.Ch, gB's worker no longer reads it: the two would
   take payments of one account out of order (PaymentManagerService.go:173-188,
   220-223). *)
DrainAlone == \A tx \in TX : pc[tx] = "drain" => worker[source[tx]] = "exited"

(* A worker does not hold its slot for ever: its group's counter or its
   context lets it out (PaymentManagerService.go:206-239, paymentGroup.go:58). *)
WorkersExit == \A g \in TX : Live(g) ~> ~Live(g) \/ panicked

(* Once the root context is cancelled, Shutdown returns
   (PaymentManagerService.go:248-250, main.go:190). *)
ShutdownCompletes == rootDone ~> stopped \/ panicked

(* Once the root context is cancelled, no call of add stays blocked on a slot
   or on a full channel (PaymentManagerService.go:112-116, 173-178, 197-203). *)
AddsReturn ==
  rootDone ~> (\A tx \in TX : pc[tx] \in {"accepted", "refused"}) \/ panicked

(* The payments sent, wherever a merge or a shutdown took them, are held until
   they are handed over, each at most once and at most MaxWorkers at a time, as
   PaymentQueue promises (PaymentManagerService.go:180-236).  Whether one that
   is handed over succeeds is not part of it: see InFlightCompletes. *)
InHands == {tx \in TX : \E g \in TX : hand[g] = tx}
Waiting == {tx \in TX : carry = tx \/ \E g \in TX : tx \in Range(ch[g])}
Answered(answer) == {tx \in TX : fate[tx] = answer}
Manager == INSTANCE PaymentQueue
             WITH queue <- Waiting, inflight <- InHands,
                  processed <- Answered("processed"), failed <- Answered("failed")
QueueKept == Manager!Spec

(* If they all share an account, they wait in one line of the capacity of one
   channel and leave it, one at a time, in the order in which their sends
   reached it (paymentGroup.go:16, 52). *)
NonEmpty == {g \in TX : ch[g] # <<>>}
TheLine == IF NonEmpty = {} THEN <<>> ELSE ch[CHOOSE g \in NonEmpty : TRUE]
SharedLine == INSTANCE SerialQueue
              WITH queue <- Waiting, inflight <- InHands,
                   processed <- Answered("processed"), failed <- Answered("failed"),
                   line <- TheLine, Capacity <- ChanBuffer
OneLineKept == SharedLine!SSpec

(* Payments that share an account are never processed at the same time
   (dispather.go:9-10). *)
SerialPerAccount == \A g, h \in TX, i \in IBAN : ~Overlap(g, h, i)

(* The counter of a group, and the payments sent but not counted yet, make up
   what is in its channel and in its worker's hands (paymentGroup.go:43,
   "the number of TX in the group"). *)
WgAccountsForGroup ==
  \A g \in TX :
    wg[g] + Cardinality({tx \in TX : pc[tx] = "count" /\ target[tx] = g})
      = Len(ch[g]) + InHand(g)

-----------------------------------------------------------------------------
(* What comments and documents say of the program, and it does not do *)

(* A group's counter never goes below zero (paymentGroup.go:43). *)
WgNeverNegative == \A g \in TX : wg[g] >= 0

(* Every payment add accepted is handed to ProcessTX
   (infrastructure_test.go:107). *)
AcceptedIsProcessed ==
  \A tx \in TX : pc[tx] = "accepted" ~> fate[tx] # "none" \/ panicked

(* If the database answers, a payment the worker was handed completes, whether
   it waited in a buffer when the service was told to stop or not: a shutdown
   fails none (README.md:117, 249, 253; dispather.go:25). *)
InFlightCompletes == \A tx \in TX : fate[tx] # "failed"

(* The queue of a merged group reaches the other group: the merging call gets
   through its wait and its drain (README.md:231). *)
MergeCompletes ==
  \A tx \in TX : pc[tx] \in {"drainWait", "drain"} ~>
                  pc[tx] \notin {"drainWait", "drain"} \/ panicked
=============================================================================
