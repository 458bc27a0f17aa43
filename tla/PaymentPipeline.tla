---------------------------- MODULE PaymentPipeline ----------------------------
(***************************************************************************)
(* The way of a payment from the POST request to its result: one instance  *)
(* of the server (HTTP handlers, start-up recovery, outbox relay, consumer *)
(* of results), the database of PaymentStore, the two Kafka topics, and    *)
(* the processing stub.  Both programs may crash and are started again.    *)
(*                                                                         *)
(* The queue manager (module Dispatcher) is a set here: payments go in by  *)
(* add, which may block for ever, and come out as calls of ProcessTX, once *)
(* each, in any order, or never (MergeCompletes and AcceptedIsProcessed of *)
(* Dispatcher, which the code violates).                                   *)
(*                                                                         *)
(* A transaction the server has sent to the database may commit although   *)
(* the server dies meanwhile, even after its successor started (orphans).  *)
(*                                                                         *)
(* External to src/: Postgres, Kafka and kafka-go.  A topic is one log;    *)
(* offsets count from 1, and the committed offset 0 means none.            *)
(***************************************************************************)
EXTENDS PaymentStore, Sequences, Functions

CONSTANTS
  BatchSize,       \* OUTBOX_BATCH_SIZE
  MaxFaults,       \* bound: failed calls of the database or of Kafka
  MaxCrashes,      \* bound: crashes of the server
  MaxStubCrashes,  \* bound: crashes of the stub
  MaxTroubles      \* bound: all of these together

ASSUME SizesAssumption ==
  /\ BatchSize \in Nat \ {0}
  /\ MaxFaults \in Nat /\ MaxCrashes \in Nat /\ MaxStubCrashes \in Nat
  /\ MaxTroubles \in Nat

VARIABLES
  server,          \* down, starting, recovering (PandingRecovery), serving
  handler,         \* the call of PaymentCMD for every payment
  loaded,          \* what LoadPendingPayments returned and is not added yet
  queue,           \* payments in the queue manager
  inflight,        \* payments in a call of ProcessTX of the live server
  orphans,         \* payments in a call of ProcessTX of a dead server
  dropped,         \* history: payments the live server lost to a fault
  batch, sentIDs,  \* the relay's events still to send, and those sent
  request,         \* topic payment.processing.request
  taken, answered, stubCommitted,                      \* ProcessService
  response,        \* topic payment.processing.response
  respNext, stash, respCommitted,                      \* the result consumer
  faults, crashes, stubCrashes         \* how many of them happened

serverVars   == <<server, handler, loaded, queue, inflight, orphans, dropped>>
relayVars    == <<batch, sentIDs>>
stubVars     == <<taken, answered, stubCommitted>>
consumerVars == <<respNext, stash, respCommitted>>
topicVars    == <<request, response>>
boundVars    == <<faults, crashes, stubCrashes>>
vars == <<storeVars, serverVars, relayVars, stubVars, consumerVars, topicVars,
          boundVars>>

Result == {"completed", "failed"}

Init ==
  /\ StoreInit
  /\ server = "down"
  /\ handler = [tx \in TX |-> "new"]
  /\ loaded = {} /\ queue = {} /\ inflight = {} /\ orphans = {} /\ dropped = {}
  /\ batch = {} /\ sentIDs = {}
  /\ request = <<>> /\ response = <<>>
  /\ taken = {} /\ answered = {} /\ stubCommitted = 0
  /\ respNext = 0 /\ stash = 0 /\ respCommitted = 0
  /\ faults = 0 /\ crashes = 0 /\ stubCrashes = 0

Up == server # "down"
Handler(tx, from, to) == handler[tx] = from /\ handler' = [handler EXCEPT ![tx] = to]
Spared == faults + crashes + stubCrashes < MaxTroubles
Fault ==
  /\ Spared /\ faults < MaxFaults
  /\ faults' = faults + 1 /\ UNCHANGED <<crashes, stubCrashes>>

-----------------------------------------------------------------------------
(* main: start-up, PandingRecovery, then the HTTP server *)

(* The relay and the consumer run from here on. *)
Start ==
  /\ server = "down"
  /\ server' = "starting"
  /\ UNCHANGED <<storeVars, handler, loaded, queue, inflight, orphans, dropped,
                 relayVars, stubVars, consumerVars, topicVars, boundVars>>

(* mutant: nothing is loaded *)
LoadNothing == {}
Owed == LoadPendingPayments

Load ==
  /\ server = "starting"
  /\ server' = "recovering"
  /\ loaded' = Owed
  /\ UNCHANGED <<storeVars, handler, queue, inflight, orphans, dropped,
                 relayVars, stubVars, consumerVars, topicVars, boundVars>>

(* The error is logged, and the server goes on without the payments. *)
LoadFails ==
  /\ server = "starting" /\ Fault
  /\ server' = "recovering"
  /\ dropped' = dropped \cup LoadPendingPayments
  /\ UNCHANGED <<storeVars, handler, loaded, queue, inflight, orphans,
                 relayVars, stubVars, consumerVars, topicVars>>

(* add of one payment; main waits in it. *)
Recover(tx) ==
  /\ server = "recovering" /\ tx \in loaded
  /\ loaded' = loaded \ {tx}
  /\ queue' = queue \cup {tx}
  /\ UNCHANGED <<storeVars, server, handler, inflight, orphans, dropped,
                 relayVars, stubVars, consumerVars, topicVars, boundVars>>

Serve ==
  /\ server = "recovering" /\ loaded = {}
  /\ server' = "serving"
  /\ UNCHANGED <<storeVars, handler, loaded, queue, inflight, orphans, dropped,
                 relayVars, stubVars, consumerVars, topicVars, boundVars>>

-----------------------------------------------------------------------------
(* PaymentManagerService.PaymentCMD, called by the HTTP handler *)

CallInsert(tx) ==
  /\ server = "serving" /\ Handler(tx, "new", "inserting")
  /\ UNCHANGED <<storeVars, server, loaded, queue, inflight, orphans, dropped,
                 relayVars, stubVars, consumerVars, topicVars, boundVars>>

InsertCommits(tx) ==
  /\ Handler(tx, "inserting", "inserted") /\ InsertTX(tx)
  /\ UNCHANGED <<server, loaded, queue, inflight, orphans, dropped,
                 relayVars, stubVars, consumerVars, topicVars, boundVars>>

InsertRefused(tx) ==
  /\ Handler(tx, "inserting", "error") /\ EteTaken(tx)
  /\ UNCHANGED <<storeVars, server, loaded, queue, inflight, orphans, dropped,
                 relayVars, stubVars, consumerVars, topicVars, boundVars>>

(* InsertTX returns an error: the row is there or it is not.  The handler's
   context is the request's, so a client that hangs up is one cause. *)
InsertFails(tx) ==
  /\ Handler(tx, "inserting", "error") /\ Fault
  /\ \/ UNCHANGED <<storeVars, dropped>>
     \/ InsertTX(tx) /\ dropped' = dropped \cup {tx}
  /\ UNCHANGED <<server, loaded, queue, inflight, orphans,
                 relayVars, stubVars, consumerVars, topicVars>>

(* add *)
Enqueue(tx) ==
  /\ Handler(tx, "inserted", "accepted")
  /\ queue' = queue \cup {tx}
  /\ UNCHANGED <<storeVars, server, loaded, inflight, orphans, dropped,
                 relayVars, stubVars, consumerVars, topicVars, boundVars>>

-----------------------------------------------------------------------------
(* The group workers' calls of ProcessTX *)

(* A worker takes the payment, if one ever does. *)
CallProcess(tx) ==
  /\ tx \in queue
  /\ queue' = queue \ {tx}
  /\ inflight' = inflight \cup {tx}
  /\ UNCHANGED <<storeVars, server, handler, loaded, orphans, dropped,
                 relayVars, stubVars, consumerVars, topicVars, boundVars>>

ProcessCommits(tx) ==
  /\ tx \in inflight
  /\ ProcessTX(tx)
  /\ inflight' = inflight \ {tx}
  /\ UNCHANGED <<server, handler, loaded, queue, orphans, dropped,
                 relayVars, stubVars, consumerVars, topicVars, boundVars>>

(* The worker logs the error and forgets the payment, committed or not. *)
ProcessFails(tx) ==
  /\ tx \in inflight /\ Fault
  /\ ProcessTX(tx) \/ UNCHANGED storeVars
  /\ inflight' = inflight \ {tx}
  /\ dropped' = dropped \cup {tx}
  /\ UNCHANGED <<server, handler, loaded, queue, orphans,
                 relayVars, stubVars, consumerVars, topicVars>>

-----------------------------------------------------------------------------
(* Transactions of a dead server that the database ends late *)

OrphanProcess(tx) ==
  /\ tx \in orphans
  /\ ProcessTX(tx) \/ UNCHANGED storeVars
  /\ orphans' = orphans \ {tx}
  /\ UNCHANGED <<server, handler, loaded, queue, inflight, dropped,
                 relayVars, stubVars, consumerVars, topicVars, boundVars>>

(* A live server that has already loaded the pending payments misses it. *)
OrphanInsert(tx) ==
  /\ Handler(tx, "orphan", "error")
  /\ \/ UNCHANGED <<storeVars, dropped>>
     \/ /\ InsertTX(tx)
        /\ dropped' = IF server \in {"recovering", "serving"}
                        THEN dropped \cup {tx} ELSE dropped
  /\ UNCHANGED <<server, loaded, queue, inflight, orphans,
                 relayVars, stubVars, consumerVars, topicVars, boundVars>>

-----------------------------------------------------------------------------
(* outbox.Worker.runOnce *)

Fetch ==
  /\ Up /\ batch = {} /\ sentIDs = {} /\ Unsent # {}
  /\ batch' \in FetchUnsent(BatchSize)
  /\ UNCHANGED <<storeVars, serverVars, sentIDs, stubVars, consumerVars,
                 topicVars, boundVars>>

Send(tx) ==
  /\ tx \in batch
  /\ request' = Append(request, tx)
  /\ batch' = batch \ {tx}
  /\ sentIDs' = sentIDs \cup {tx}
  /\ UNCHANGED <<storeVars, serverVars, stubVars, consumerVars, response,
                 boundVars>>

(* mutant: the event counts as sent all the same *)
MarkedAll(tx) == sentIDs' = sentIDs \cup {tx}
NotSent(tx) == UNCHANGED sentIDs

(* WriteMessages fails, and the message may be in the topic nevertheless;
   the loop goes on with the next event. *)
SendFails(tx) ==
  /\ tx \in batch /\ Fault
  /\ request' = Append(request, tx) \/ UNCHANGED request
  /\ batch' = batch \ {tx}
  /\ NotSent(tx)
  /\ UNCHANGED <<storeVars, serverVars, stubVars, consumerVars, response>>

Mark ==
  /\ batch = {} /\ sentIDs # {}
  /\ MarkSent(sentIDs)
  /\ sentIDs' = {}
  /\ UNCHANGED <<serverVars, batch, stubVars, consumerVars, topicVars, boundVars>>

MarkFails ==
  /\ batch = {} /\ sentIDs # {} /\ Fault
  /\ sentIDs' = {}
  /\ UNCHANGED <<storeVars, serverVars, batch, stubVars, consumerVars, topicVars>>

-----------------------------------------------------------------------------
(* ProcessService: a goroutine per message, which sleeps, draws a result,
   writes it and commits.  Fetching shows only by what is not fetched again:
   an offset is taken once between two starts of the stub. *)

(* mutant: a request is fetched again *)
ToAnswerAgain == 1..Len(request)
ToAnswer == 1..Len(request) \ taken
Reply(o, result) == Append(response, [tx |-> request[o], result |-> result])

StubAnswer(o) ==
  /\ o \in ToAnswer
  /\ \E result \in Result : response' = Reply(o, result)
  /\ taken' = taken \cup {o}
  /\ answered' = answered \cup {o}
  /\ UNCHANGED <<storeVars, serverVars, relayVars, stubCommitted,
                 consumerVars, request, boundVars>>

(* WriteMessages fails: the goroutine ends and nothing is committed. *)
StubAnswerFails(o) ==
  /\ o \in ToAnswer /\ Fault
  /\ \/ UNCHANGED response
     \/ \E result \in Result : response' = Reply(o, result)
  /\ taken' = taken \cup {o}
  /\ UNCHANGED <<storeVars, serverVars, relayVars, stubCommitted, answered,
                 consumerVars, request>>

(* The goroutines commit in any order, and the last one decides. *)
StubCommit(o) ==
  /\ o \in answered
  /\ stubCommitted' = o
  /\ answered' = answered \ {o}
  /\ UNCHANGED <<storeVars, serverVars, relayVars, taken, consumerVars,
                 topicVars, boundVars>>

-----------------------------------------------------------------------------
(* kfconsumer.Consumer.Run *)

(* The reader starts after the committed offset, or, with none committed yet,
   at the end of the log (kafka.LastOffset). *)
(* mutant: one message further *)
StartOffsetOneMore ==
  IF respCommitted = 0 THEN Len(response) + 1 ELSE respCommitted + 2
StartOffset == IF respCommitted = 0 THEN Len(response) + 1 ELSE respCommitted + 1

(* The reader joins its consumer group, some time after the start. *)
Join ==
  /\ Up /\ respNext = 0
  /\ respNext' = StartOffset
  /\ UNCHANGED <<storeVars, serverVars, relayVars, stubVars, stash,
                 respCommitted, topicVars, boundVars>>

Consuming == respNext # 0 /\ respNext <= Len(response)

(* FetchMessage, StorePaymentResult, CommitMessages (which only notes the
   offset: CommitInterval). *)
Store ==
  /\ Consuming
  /\ PersistProcessResult(response[respNext].tx, response[respNext].result)
  /\ stash' = respNext
  /\ respNext' = respNext + 1
  /\ UNCHANGED <<serverVars, relayVars, stubVars, respCommitted, topicVars,
                 boundVars>>

(* StorePaymentResult fails: continue with the next message. *)
StoreFails ==
  /\ Consuming /\ Fault
  /\ respNext' = respNext + 1
  /\ UNCHANGED <<storeVars, serverVars, relayVars, stubVars, stash,
                 respCommitted, topicVars>>

Flush ==
  /\ stash # 0
  /\ respCommitted' = stash
  /\ stash' = 0
  /\ UNCHANGED <<storeVars, serverVars, relayVars, stubVars, respNext,
                 topicVars, boundVars>>

-----------------------------------------------------------------------------
(* Crashes *)

(* What a call in progress leaves behind. *)
Cut(state) == CASE state = "inserting" -> "orphan"
                [] state = "inserted" -> "error"
                [] OTHER -> state

(* The server's memory is lost; a graceful stop loses it too, after a last
   Flush. *)
ServerCrash ==
  /\ Up /\ Spared /\ crashes < MaxCrashes
  /\ crashes' = crashes + 1
  /\ server' = "down"
  /\ handler' = [tx \in TX |-> Cut(handler[tx])]
  /\ orphans' = orphans \cup inflight
  /\ loaded' = {} /\ queue' = {} /\ inflight' = {} /\ dropped' = {}
  /\ batch' = {} /\ sentIDs' = {}
  /\ respNext' = 0 /\ stash' = 0
  /\ UNCHANGED <<storeVars, stubVars, respCommitted, topicVars, faults,
                 stubCrashes>>

(* The stub comes back and reads on after its committed offset. *)
StubCrash ==
  /\ Spared /\ stubCrashes < MaxStubCrashes
  /\ stubCrashes' = stubCrashes + 1
  /\ taken' = 1..stubCommitted
  /\ answered' = {}
  /\ UNCHANGED <<storeVars, serverVars, relayVars, stubCommitted,
                 consumerVars, topicVars, faults, crashes>>

-----------------------------------------------------------------------------
Insert(tx) == InsertCommits(tx) \/ InsertRefused(tx) \/ InsertFails(tx)
Handle(tx) == CallInsert(tx) \/ Insert(tx) \/ Enqueue(tx)
EndProcess(tx) == ProcessCommits(tx) \/ ProcessFails(tx)
Process(tx) == CallProcess(tx) \/ EndProcess(tx)
Orphan(tx) == OrphanProcess(tx) \/ OrphanInsert(tx)
StartUp == Start \/ Load \/ LoadFails \/ Serve
Boot == StartUp \/ \E tx \in TX : Recover(tx)
Relay ==
  Fetch \/ (\E tx \in TX : Send(tx) \/ SendFails(tx)) \/ Mark \/ MarkFails
Stub ==
  \E o \in 1..Len(request) : StubAnswer(o) \/ StubAnswerFails(o) \/ StubCommit(o)
Consume == Join \/ Store \/ StoreFails
Crashes == ServerCrash \/ StubCrash

Next ==
  \/ Boot \/ Relay \/ Stub \/ Consume \/ Flush \/ Crashes
  \/ \E tx \in TX : Handle(tx) \/ Process(tx) \/ Orphan(tx)

(* Every goroutine that can run is scheduled, the database and Kafka answer,
   and whoever operates the server starts it again.  No client has to send
   anything, and nothing has to crash.  Nothing is assumed of the queue manager:
   a call of add (Recover, Enqueue) may block for ever, and a payment may stay in
   a channel (CallProcess). *)
Fairness ==
  /\ WF_vars(StartUp) /\ WF_vars(Relay) /\ WF_vars(Stub) /\ WF_vars(Consume)
  /\ \A tx \in TX :
       WF_vars(Insert(tx)) /\ WF_vars(EndProcess(tx)) /\ WF_vars(Orphan(tx))

Spec == Init /\ [][Next]_vars /\ Fairness

-----------------------------------------------------------------------------
(* Properties *)

Asked == Range(request)
Answers == {<<response[i].tx, response[i].result>> : i \in 1..Len(response)}
Begun == {"processing", "completed", "failed"}

TypeOK ==
  /\ status \in [TX -> {"absent", "pending"} \cup Begun]
  /\ pending \subseteq TX /\ outbox \subseteq TX /\ sentAt \subseteq TX
  /\ server \in {"down", "starting", "recovering", "serving"}
  /\ handler \in [TX -> {"new", "inserting", "inserted", "accepted", "error",
                         "orphan"}]
  /\ loaded \subseteq TX /\ queue \subseteq TX
  /\ inflight \subseteq TX /\ orphans \subseteq TX /\ dropped \subseteq TX
  /\ batch \subseteq TX /\ sentIDs \subseteq TX
  /\ request \in Seq(TX) /\ response \in Seq([tx : TX, result : Result])
  /\ taken \subseteq 1..Len(request) /\ answered \subseteq taken
  /\ stubCommitted \in 0..Len(request)
  /\ respNext \in 0..Len(response) + 1
  /\ stash \in 0..Len(response) /\ respCommitted \in 0..Len(response)
  /\ faults \in 0..MaxFaults /\ crashes \in 0..MaxCrashes
  /\ stubCrashes \in 0..MaxStubCrashes

(* The three tables tell one story of every payment: a row in pending as long
   as it waits, a row in outbox from then on (peymentRepo.go:111-118,
   264-323). *)
TablesAgree ==
  \A tx \in TX :
    /\ tx \in pending <=> status[tx] = "pending"
    /\ tx \in outbox <=> status[tx] \in Begun

(* An event marked as sent is in the topic: the relay may send it twice, and
   never marks what Kafka did not take (outboxWorker.go:57-82). *)
SentIsInTopic == sentAt \subseteq Asked

(* The relay delivers at least once, and how often more is bounded: a payment
   goes to the processing system a second time only for a failed call or a
   crash, once for each of them (outboxWorker.go:57-82). *)
Copies(tx) == Cardinality({i \in 1..Len(request) : request[i] = tx})
ResentOnlyForFailures == \A tx \in TX : Copies(tx) <= 1 + faults + crashes

(* A result is drawn for a payment once for every copy of its request and every
   start of the processing system, never for a request it has taken already:
   however requests, answers and commits interleave, it is executed a second
   time only for a failure (ProcessService/main.go:74-121, outboxWorker.go:57-82). *)
Executions(tx) == Cardinality({i \in 1..Len(response) : response[i].tx = tx})
ExecutedAgainOnlyForFailures ==
  \A tx \in TX : Executions(tx) <= (1 + faults + crashes) * (1 + stubCrashes)

(* A payment is asked for and executed once, and again only for what failed:
   both of the above (outboxWorker.go:57-82, ProcessService/main.go:74-121). *)
RepeatedOnlyForFailures == ResentOnlyForFailures /\ ExecutedAgainOnlyForFailures

(* A server that serves has every payment in its hands that the database
   shows as pending, unless it lost one to a failed call, or to a commit that
   came too late for its recovery: whatever crashed, recovery before it listens
   forgets none of the others (PaymentManagerService.go:44-63,
   main.go:156-171). *)
NoneForgotten ==
  server = "serving" =>
    \A tx \in pending :
      \/ tx \in queue \cup inflight \cup dropped
      \/ handler[tx] = "inserted"

(* While no call has failed and nothing has crashed, completed and failed are
   final: what ResultIsFinal misses is a repeated request or a repeated result,
   never the order in which relay, stub and consumer run (README.md:114, 140). *)
Untroubled == faults = 0 /\ crashes = 0 /\ stubCrashes = 0
FinalWhileUntroubled ==
  [][\A tx \in TX :
       Untroubled /\ status[tx] \in Result => status'[tx] = status[tx]]_vars

(* What the service promises of every payment, whatever crashes, fails, or is
   delivered twice (PaymentLifecycle). *)
Lifecycle == INSTANCE PaymentLifecycle WITH asked <- Asked, answers <- Answers
KeepsPromises == Lifecycle!Spec

(* The queue manager of the running server keeps the payment, or the server has
   lost it until the next start. *)
HeldBack(tx) ==
  /\ status[tx] = "pending"
  /\ tx \in loaded \cup queue \cup dropped \/ handler[tx] = "inserted"

(* A payment in the database gets to the processing system unless it is, from
   some time on, held back for ever: there is no other place where it can get
   stuck, and what one server held back a restart takes up again
   (README.md:116, 122; PaymentManagerService.go:44-63).  That a payment is held
   back for ever does happen: in a channel without a worker (AcceptedIsProcessed
   of Dispatcher), behind a merge that never ends (MergeCompletes), or after a
   failed call, if the server is not started again. *)
PendingIsAsked ==
  \A tx \in TX : []<>~HeldBack(tx) => (status[tx] = "pending" ~> tx \in Asked)

-----------------------------------------------------------------------------
(* What documents say of the program, and it does not do *)

(* A result the processing system gave becomes the payment's status
   (README.md:114, 122). *)
AnswerIsStored ==
  \A tx \in TX :
    (\E i \in 1..Len(response) : response[i].tx = tx) ~> status[tx] \in Result

(* completed and failed are final (README.md:114, 140). *)
ResultIsFinal ==
  [][\A tx \in TX : status[tx] \in Result => status'[tx] = status[tx]]_vars
=============================================================================
