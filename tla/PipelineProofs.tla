---------------------------- MODULE PipelineProofs ----------------------------
(***************************************************************************)
(* Invariants of PaymentPipeline, proved for every set of payments and any *)
(* number of failed calls and crashes, and the proof that it implements    *)
(* PaymentLifecycle.                                                       *)
(***************************************************************************)
EXTENDS PaymentPipeline, SequenceTheorems, FiniteSetTheorems, TLAPS

(* Whatever holds a payment after InsertTX holds one that is recorded. *)
Registered ==
  /\ \A tx \in loaded \cup queue \cup inflight \cup orphans : Recorded(tx)
  /\ \A tx \in TX : handler[tx] = "inserted" => Recorded(tx)

(* Where a payment has been: from outbox through the relay and the request
   topic to the response topic, none of them skipped. *)
Trail ==
  /\ batch \subseteq outbox
  /\ sentAt \subseteq Asked /\ sentIDs \subseteq Asked
  /\ Asked \subseteq outbox
  /\ \A i \in 1..Len(response) : response[i].tx \in Asked

Inv == TypeOK /\ TablesAgree /\ Registered /\ Trail

(* In every phase of the server, who answers for the pending payments. *)
Phases ==
  /\ Up \/ (loaded = {} /\ queue = {} /\ inflight = {} /\ dropped = {})
  /\ server = "starting" => loaded = {} /\ queue = {} /\ inflight = {} /\ dropped = {}
  /\ server # "recovering" => loaded = {}
  /\ server # "serving" =>
       \A tx \in TX : handler[tx] \notin {"inserting", "inserted"}
Attended ==
  server \in {"recovering", "serving"} =>
    \A tx \in pending :
      tx \in loaded \cup queue \cup inflight \cup dropped \/ handler[tx] = "inserted"
-----------------------------------------------------------------------------
(* The topics *)

LEMMA AskedAppend ==
  ASSUME request \in Seq(TX), NEW tx \in TX, request' = Append(request, tx)
  PROVE  /\ request' \in Seq(TX) /\ Len(request') = Len(request) + 1
         /\ Asked' = Asked \cup {tx}
  <1>1. /\ request' \in Seq(TX) /\ Len(request') = Len(request) + 1
        /\ \A i \in 1..Len(request) : request'[i] = request[i]
        /\ request'[Len(request) + 1] = tx
    OBVIOUS
  <1>2. Asked = {request[i] : i \in 1..Len(request)}
    BY DEF Asked, Range
  <1>3. Asked' = {request'[i] : i \in 1..Len(request')}
    BY <1>1 DEF Asked, Range
  <1>4. 1..Len(request') = 1..Len(request) \cup {Len(request) + 1}
    BY <1>1
  <1>5. QED
    BY <1>1, <1>2, <1>3, <1>4

LEMMA AnswersAppend ==
  ASSUME response \in Seq([tx : TX, result : Result]),
         NEW r \in [tx : TX, result : Result], response' = Append(response, r)
  PROVE  /\ response' \in Seq([tx : TX, result : Result])
         /\ Len(response') = Len(response) + 1
         /\ \A i \in 1..Len(response') :
              response'[i] = IF i = Len(response) + 1 THEN r ELSE response[i]
         /\ Answers' = Answers \cup {<<r.tx, r.result>>}
  <1>1. /\ response' \in Seq([tx : TX, result : Result])
        /\ Len(response') = Len(response) + 1 /\ Len(response) \in Nat
        /\ \A i \in 1..Len(response) : response'[i] = response[i]
        /\ response'[Len(response) + 1] = r
    OBVIOUS
  <1>2. 1..Len(response') = 1..Len(response) \cup {Len(response) + 1}
    BY <1>1
  <1>3. Answers' = {<<response'[i].tx, response'[i].result>> :
                      i \in 1..Len(response) \cup {Len(response) + 1}}
    BY <1>2 DEF Answers
  <1>4. Answers' = Answers \cup {<<r.tx, r.result>>}
    BY <1>1, <1>3 DEF Answers
  <1>5. QED
    BY <1>1, <1>2, <1>4

-----------------------------------------------------------------------------
(* Types *)

LEMMA TypeInit == Init => TypeOK
  BY SizesAssumption DEF Init, StoreInit, TypeOK, Begun

LEMMA TypeStep == TypeOK /\ [Next]_vars => TypeOK'
  <1> SUFFICES ASSUME TypeOK, [Next]_vars PROVE TypeOK'
    OBVIOUS
  <1> USE DEF TypeOK, storeVars, serverVars, relayVars, stubVars, consumerVars,
              topicVars, boundVars
  <1>0. Fault => /\ faults' \in 0..MaxFaults
                 /\ crashes' \in 0..MaxCrashes /\ stubCrashes' \in 0..MaxStubCrashes
    BY SizesAssumption DEF Fault
  <1>1. CASE Boot
    <2>1. CASE Start
      BY <2>1 DEF Start
    <2>2. CASE Load
      BY <2>2 DEF Load, Owed, LoadPendingPayments
    <2>3. CASE LoadFails
      BY <1>0, <2>3 DEF LoadFails, LoadPendingPayments
    <2>4. CASE \E tx \in TX : Recover(tx)
      BY <2>4 DEF Recover
    <2>5. CASE Serve
      BY <2>5 DEF Serve
    <2>6. QED
      BY <1>1, <2>1, <2>2, <2>3, <2>4, <2>5 DEF Boot, StartUp
  <1>2. ASSUME NEW tx \in TX, Handle(tx) PROVE TypeOK'
    <2>1. CASE CallInsert(tx)
      BY <2>1 DEF CallInsert, Handler
    <2>2. CASE InsertCommits(tx)
      BY <2>2 DEF InsertCommits, Handler, InsertTX
    <2>3. CASE InsertRefused(tx)
      BY <2>3 DEF InsertRefused, Handler
    <2>4. CASE InsertFails(tx)
      BY <1>0, <2>4 DEF InsertFails, Handler, InsertTX
    <2>5. CASE Enqueue(tx)
      BY <2>5 DEF Enqueue, Handler
    <2>6. QED
      BY <1>2, <2>1, <2>2, <2>3, <2>4, <2>5 DEF Handle, Insert
  <1>3. ASSUME NEW tx \in TX, Process(tx) PROVE TypeOK'
    <2>1. CASE CallProcess(tx)
      BY <2>1 DEF CallProcess
    <2>2. CASE ProcessCommits(tx)
      BY <2>2 DEF ProcessCommits, ProcessTX, Begun
    <2>3. CASE ProcessFails(tx)
      BY <1>0, <2>3 DEF ProcessFails, ProcessTX, Begun
    <2>4. QED
      BY <1>3, <2>1, <2>2, <2>3 DEF Process, EndProcess
  <1>4. ASSUME NEW tx \in TX, Orphan(tx) PROVE TypeOK'
    <2>1. CASE OrphanProcess(tx)
      BY <2>1 DEF OrphanProcess, ProcessTX, Begun
    <2>2. CASE OrphanInsert(tx)
      BY <2>2 DEF OrphanInsert, Handler, InsertTX
    <2>3. QED
      BY <1>4, <2>1, <2>2 DEF Orphan
  <1>5. ASSUME NEW tx \in TX, Send(tx) \/ SendFails(tx) PROVE TypeOK'
    <2>1. request' = Append(request, tx) \/ request' = request
      BY <1>5 DEF Send, SendFails
    <2>2. request' \in Seq(TX) /\ Len(request') \in Nat /\ Len(request') >= Len(request)
      BY <2>1, AskedAppend
    <2>3. CASE Send(tx)
      BY <2>2, <2>3 DEF Send
    <2>4. CASE SendFails(tx)
      <3>1. /\ batch' \subseteq TX /\ sentIDs' = sentIDs /\ Fault
            /\ UNCHANGED <<storeVars, serverVars, stubVars, consumerVars, response>>
        BY <2>4 DEF SendFails, NotSent
      <3>2. /\ taken \subseteq 1..Len(request') /\ stubCommitted \in 0..Len(request')
        BY <2>2, LenProperties
      <3>3. QED
        BY <1>0, <2>2, <3>1, <3>2
    <2>5. QED
      BY <1>5, <2>3, <2>4
  <1>6. CASE Fetch \/ Mark \/ MarkFails
    <2>1. CASE Fetch
      BY <2>1 DEF Fetch, FetchUnsent, Unsent
    <2>2. CASE Mark
      BY <2>2 DEF Mark, MarkSent
    <2>3. CASE MarkFails
      BY <1>0, <2>3 DEF MarkFails
    <2>4. QED
      BY <1>6, <2>1, <2>2, <2>3
  <1>7. ASSUME NEW o \in 1..Len(request),
               StubAnswer(o) \/ StubAnswerFails(o) \/ StubCommit(o)
        PROVE  TypeOK'
    <2>1. response' = response \/ \E result \in Result : response' = Reply(o, result)
      BY <1>7 DEF StubAnswer, StubAnswerFails, StubCommit, topicVars
    <2>2. ASSUME NEW result \in Result, response' = Reply(o, result)
          PROVE  /\ response' \in Seq([tx : TX, result : Result])
                 /\ Len(response') = Len(response) + 1
      <3>1. [tx |-> request[o], result |-> result] \in [tx : TX, result : Result]
        OBVIOUS
      <3>2. QED
        BY <2>2, <3>1, AnswersAppend DEF Reply
    <2>3. Len(response) \in Nat
      BY LenProperties
    <2>4. /\ response' \in Seq([tx : TX, result : Result])
          /\ Len(response') \in Nat /\ Len(response') >= Len(response)
      <3>1. CASE response' = response
        BY <2>3, <3>1
      <3>2. CASE \E result \in Result : response' = Reply(o, result)
        <4>1. PICK result \in Result : response' = Reply(o, result)
          BY <3>2
        <4>2. /\ Len(response') = Len(response) + 1
              /\ response' \in Seq([tx : TX, result : Result])
          BY <2>2, <4>1
        <4>3. QED
          BY <2>3, <4>2
      <3>3. QED
        BY <2>1, <3>1, <3>2
    <2>5. CASE StubAnswer(o)
      <3>1. /\ taken' \subseteq 1..Len(request) /\ answered' \subseteq taken'
            /\ UNCHANGED <<storeVars, serverVars, relayVars, stubCommitted,
                           consumerVars, request, boundVars>>
        BY <2>5 DEF StubAnswer, ToAnswer
      <3>2. /\ respNext \in 0..Len(response') + 1
            /\ stash \in 0..Len(response') /\ respCommitted \in 0..Len(response')
        BY <2>3, <2>4
      <3>3. QED
        BY <2>4, <3>1, <3>2
    <2>6. CASE StubAnswerFails(o)
      <3>1. /\ taken' \subseteq 1..Len(request) /\ answered \subseteq taken' /\ Fault
            /\ UNCHANGED <<storeVars, serverVars, relayVars, stubCommitted, answered,
                           consumerVars, request>>
        BY <2>6 DEF StubAnswerFails, ToAnswer
      <3>2. /\ respNext \in 0..Len(response') + 1
            /\ stash \in 0..Len(response') /\ respCommitted \in 0..Len(response')
        BY <2>3, <2>4
      <3>3. QED
        BY <1>0, <2>4, <3>1, <3>2
    <2>7. CASE StubCommit(o)
      BY <2>7 DEF StubCommit
    <2>8. QED
      BY <1>7, <2>5, <2>6, <2>7
  <1>8. CASE Join \/ Store \/ StoreFails \/ Flush
    <2>1. Len(response) \in Nat
      BY LenProperties
    <2>2. CASE Join
      BY <2>1, <2>2 DEF Join, StartOffset, Up
    <2>3. CASE Store
      <3>1. response[respNext] \in [tx : TX, result : Result]
        <4>1. respNext \in 1..Len(response)
          BY <2>1, <2>3 DEF Store, Consuming
        <4>2. QED
          BY <4>1, ElementOfSeq
      <3>2. status' \in [TX -> {"absent", "pending"} \cup Begun]
        BY <2>3, <3>1 DEF Store, PersistProcessResult, Begun, Result
      <3>3. /\ respNext' \in 0..Len(response) + 1 /\ stash' \in 0..Len(response)
            /\ UNCHANGED <<pending, outbox, sentAt, serverVars, relayVars, stubVars,
                           respCommitted, topicVars, boundVars>>
        BY <2>1, <2>3 DEF Store, Consuming, PersistProcessResult
      <3>4. QED
        BY <3>2, <3>3
    <2>4. CASE StoreFails
      <3>1. /\ respNext' \in 0..Len(response) + 1 /\ Fault
            /\ UNCHANGED <<storeVars, serverVars, relayVars, stubVars, stash,
                           respCommitted, topicVars>>
        BY <2>1, <2>4 DEF StoreFails, Consuming
      <3>2. QED
        BY <1>0, <3>1
    <2>5. CASE Flush
      BY <2>5 DEF Flush
    <2>6. QED
      BY <1>8, <2>2, <2>3, <2>4, <2>5
  <1>9. CASE ServerCrash
    <2>1. handler' \in [TX -> {"new", "inserting", "inserted", "accepted",
                              "error", "orphan"}]
      BY <1>9 DEF ServerCrash, Cut
    <2>2. crashes' \in 0..MaxCrashes /\ 0 \in 0..Len(response) + 1 /\ 0 \in 0..Len(response)
      BY <1>9, SizesAssumption, LenProperties DEF ServerCrash
    <2>3. QED
      BY <1>9, <2>1, <2>2 DEF ServerCrash
  <1>10. CASE StubCrash
    <2>1. stubCrashes' \in 0..MaxStubCrashes /\ 1..stubCommitted \subseteq 1..Len(request)
      BY <1>10, SizesAssumption, LenProperties DEF StubCrash
    <2>2. QED
      BY <1>10, <2>1 DEF StubCrash
  <1>11. CASE UNCHANGED vars
    BY <1>11 DEF vars
  <1>12. QED
    BY <1>1, <1>2, <1>3, <1>4, <1>5, <1>6, <1>7, <1>8, <1>9, <1>10, <1>11
       DEF Next, Relay, Stub, Consume, Crashes

(* Every reachable state is of the right type (PaymentPipeline). *)
THEOREM PipelineTypeCorrect == Spec => []TypeOK
  <1>1. QED
    BY TypeInit, TypeStep, PTL DEF Spec

-----------------------------------------------------------------------------
(* What the transactions do to the tables *)

(* No row disappears, and the tables agree afterwards. *)
Onward ==
  /\ TablesAgree'
  /\ \A u \in TX : Recorded(u) => Recorded(u)'
  /\ outbox \subseteq outbox'

LEMMA StoreKept ==
  ASSUME TypeOK, TablesAgree, UNCHANGED storeVars PROVE Onward
  BY DEF Onward, TablesAgree, Recorded, storeVars

LEMMA InsertEffect ==
  ASSUME TypeOK, TablesAgree, NEW tx \in TX, InsertTX(tx)
  PROVE  Onward /\ Recorded(tx)' /\ UNCHANGED <<outbox, sentAt>>
  BY DEF TypeOK, Begun, Onward, TablesAgree, Recorded, InsertTX

LEMMA ProcessEffect ==
  ASSUME TypeOK, TablesAgree, NEW tx \in TX, Recorded(tx), ProcessTX(tx)
  PROVE  Onward /\ UNCHANGED sentAt
  BY DEF TypeOK, Begun, Onward, TablesAgree, Recorded, ProcessTX, storeVars

LEMMA PersistEffect ==
  ASSUME TypeOK, TablesAgree, NEW tx \in outbox, NEW result \in Result,
         PersistProcessResult(tx, result)
  PROVE  Onward /\ UNCHANGED <<outbox, sentAt>>
  BY DEF TypeOK, Begun, Result, Onward, TablesAgree, Recorded, PersistProcessResult

LEMMA MarkEffect ==
  ASSUME TypeOK, TablesAgree, MarkSent(sentIDs)
  PROVE  Onward /\ UNCHANGED outbox /\ sentAt' \subseteq sentAt \cup sentIDs
  BY DEF Onward, TablesAgree, Recorded, MarkSent

(* The result the consumer stores is of a payment that was asked for. *)
LEMMA StoredIsAsked ==
  ASSUME TypeOK, Trail, Store
  PROVE  /\ response[respNext] \in [tx : TX, result : Result]
         /\ <<response[respNext].tx, response[respNext].result>> \in Answers
         /\ response[respNext].tx \in Asked /\ response[respNext].tx \in outbox
  <1>1. respNext \in 1..Len(response)
    BY LenProperties DEF TypeOK, Store, Consuming
  <1>2. response[respNext] \in [tx : TX, result : Result]
    BY <1>1, ElementOfSeq DEF TypeOK
  <1>3. QED
    BY <1>1, <1>2 DEF Trail, Answers

(* Every step but Send and its failure leaves the request topic alone. *)
LEMMA AskedStep ==
  ASSUME TypeOK, NEW tx \in TX, request' = Append(request, tx) \/ request' = request
  PROVE  Asked' = Asked \/ Asked' = Asked \cup {tx}
  BY AskedAppend DEF TypeOK, Asked

-----------------------------------------------------------------------------
(* Tables, registration and trail *)

LEMMA InvInit == Init => Inv
  <1> SUFFICES ASSUME Init PROVE TablesAgree /\ Registered /\ Trail
    BY TypeInit DEF Inv
  <1>1. TablesAgree /\ Registered
    BY DEF Init, StoreInit, TablesAgree, Registered, Recorded, Begun
  <1>2. Asked = {}
    BY DEF Init, Asked, Range
  <1>3. QED
    BY <1>1, <1>2 DEF Init, StoreInit, Trail

(* A step that moves payments only between holders that had them, and lets
   the tables and topics be. *)
LEMMA QuietStep ==
  ASSUME Inv, UNCHANGED <<storeVars, request, response>>,
         (loaded \cup queue \cup inflight \cup orphans)' \subseteq
           loaded \cup queue \cup inflight \cup orphans \cup pending
             \cup {tx \in TX : handler[tx] = "inserted"},
         \A tx \in TX : handler'[tx] = "inserted" => handler[tx] = "inserted",
         batch' \subseteq outbox, sentIDs' \subseteq sentIDs
  PROVE  (TablesAgree /\ Registered /\ Trail)'
  <1>1. Onward
    BY StoreKept DEF Inv
  <1>2. \A tx \in pending : tx \in TX /\ Recorded(tx)
    BY DEF Inv, TypeOK, TablesAgree, Recorded
  <1>3. Registered'
    BY <1>1, <1>2 DEF Inv, TypeOK, Registered, Recorded, storeVars
  <1>4. Asked' = Asked
    BY DEF Asked
  <1>5. Trail'
    BY <1>4 DEF Inv, Trail, storeVars
  <1>6. QED
    BY <1>1, <1>3, <1>5 DEF Onward

(* A step that commits a transaction, and lets the topics be. *)
LEMMA CommitStep ==
  ASSUME Inv, Onward, UNCHANGED <<sentAt, request, response, batch, sentIDs>>,
         (loaded \cup queue \cup inflight \cup orphans)' \subseteq
           loaded \cup queue \cup inflight \cup orphans,
         \A tx \in TX : handler'[tx] = "inserted" =>
                          handler[tx] = "inserted" \/ Recorded(tx)'
  PROVE  (TablesAgree /\ Registered /\ Trail)'
  <1>1. Registered'
    BY DEF Inv, TypeOK, Registered, Onward
  <1>2. Asked' = Asked
    BY DEF Asked
  <1>3. Trail'
    BY <1>2 DEF Inv, Trail, Onward
  <1>4. QED
    BY <1>1, <1>3 DEF Onward

LEMMA InvStep == Inv /\ [Next]_vars => Inv'
  <1> SUFFICES ASSUME Inv, [Next]_vars PROVE (TablesAgree /\ Registered /\ Trail)'
    BY TypeStep DEF Inv
  <1> DEFINE Goal == (TablesAgree /\ Registered /\ Trail)'
  <1>0. /\ TypeOK /\ TablesAgree /\ Trail
        /\ \A tx \in inflight \cup orphans : tx \in TX /\ Recorded(tx)
    BY DEF Inv, TypeOK, Registered
  <1>1. CASE Boot
    <2>1. CASE Start
      BY <2>1, QuietStep DEF Start, storeVars, serverVars, relayVars, stubVars, consumerVars,
           topicVars, Inv, Trail
    <2>2. CASE Load
      BY <2>2, QuietStep DEF Load, Owed, LoadPendingPayments, storeVars, serverVars, relayVars, stubVars, consumerVars,
           topicVars, Inv, Trail
    <2>3. CASE LoadFails
      BY <2>3, QuietStep DEF LoadFails, storeVars, serverVars, relayVars, stubVars, consumerVars,
           topicVars, Inv, Trail
    <2>4. CASE \E tx \in TX : Recover(tx)
      BY <2>4, QuietStep DEF Recover, storeVars, serverVars, relayVars, stubVars, consumerVars,
           topicVars, Inv, Trail
    <2>5. CASE Serve
      BY <2>5, QuietStep DEF Serve, storeVars, serverVars, relayVars, stubVars, consumerVars,
           topicVars, Inv, Trail
    <2>6. QED
      BY <1>1, <2>1, <2>2, <2>3, <2>4, <2>5 DEF Boot, StartUp
  <1>2. ASSUME NEW tx \in TX, Handle(tx) PROVE Goal
    <2>1. CASE CallInsert(tx) \/ InsertRefused(tx) \/ Enqueue(tx)
      BY <2>1, QuietStep DEF CallInsert, InsertRefused, Enqueue, Handler,
           storeVars, serverVars, relayVars, stubVars, consumerVars,
           topicVars, Inv, Trail, TypeOK
    <2>2. CASE InsertCommits(tx)
      BY <1>0, <2>2, InsertEffect, CommitStep DEF InsertCommits, Handler,
           storeVars, serverVars, relayVars, stubVars, consumerVars,
           topicVars, Inv, TypeOK
    <2>3. CASE InsertFails(tx)
      <3>1. CASE UNCHANGED storeVars
        BY <2>3, <3>1, QuietStep DEF InsertFails, Handler,
             storeVars, serverVars, relayVars, stubVars, consumerVars,
           topicVars, Inv, Trail, TypeOK
      <3>2. CASE InsertTX(tx)
        BY <1>0, <2>3, <3>2, InsertEffect, CommitStep DEF InsertFails, Handler,
             storeVars, serverVars, relayVars, stubVars, consumerVars,
           topicVars, Inv, TypeOK
      <3>3. QED
        BY <2>3, <3>1, <3>2 DEF InsertFails
    <2>4. QED
      BY <1>2, <2>1, <2>2, <2>3 DEF Handle, Insert
  <1>3. ASSUME NEW tx \in TX, Process(tx) PROVE Goal
    <2>1. CASE CallProcess(tx)
      BY <2>1, QuietStep DEF CallProcess, storeVars, serverVars, relayVars, stubVars, consumerVars,
           topicVars, Inv, Trail
    <2>2. CASE tx \in inflight /\ ProcessTX(tx)
      BY <1>0, <1>3, <2>2, ProcessEffect, CommitStep DEF Process, EndProcess, CallProcess,
           ProcessCommits, ProcessFails, storeVars, serverVars, relayVars, stubVars, consumerVars,
           topicVars, Inv
    <2>3. CASE ProcessFails(tx) /\ UNCHANGED storeVars
      BY <2>3, QuietStep DEF ProcessFails, storeVars, serverVars, relayVars, stubVars, consumerVars,
           topicVars, Inv, Trail
    <2>4. QED
      BY <1>3, <2>1, <2>2, <2>3 DEF Process, EndProcess, ProcessCommits, ProcessFails
  <1>4. ASSUME NEW tx \in TX, Orphan(tx) PROVE Goal
    <2>1. CASE OrphanProcess(tx) /\ ProcessTX(tx)
      BY <1>0, <2>1, ProcessEffect, CommitStep DEF OrphanProcess, storeVars, serverVars, relayVars, stubVars, consumerVars,
           topicVars, Inv
    <2>2. CASE OrphanProcess(tx) /\ UNCHANGED storeVars
      BY <2>2, QuietStep DEF OrphanProcess, storeVars, serverVars, relayVars, stubVars, consumerVars,
           topicVars, Inv, Trail
    <2>3. CASE OrphanInsert(tx) /\ InsertTX(tx)
      BY <1>0, <2>3, InsertEffect, CommitStep DEF OrphanInsert, Handler,
           storeVars, serverVars, relayVars, stubVars, consumerVars,
           topicVars, Inv, TypeOK
    <2>4. CASE OrphanInsert(tx) /\ UNCHANGED storeVars
      BY <2>4, QuietStep DEF OrphanInsert, Handler, storeVars, serverVars, relayVars, stubVars, consumerVars,
           topicVars, Inv, Trail, TypeOK
    <2>5. QED
      BY <1>4, <2>1, <2>2, <2>3, <2>4 DEF Orphan, OrphanProcess, OrphanInsert
  <1>5. ASSUME NEW tx \in TX, Send(tx) \/ SendFails(tx) PROVE Goal
    <2>1. /\ tx \in batch /\ batch' \subseteq batch
          /\ request' = Append(request, tx) \/ request' = request
          /\ UNCHANGED <<storeVars, serverVars, response>>
      BY <1>5 DEF Send, SendFails
    <2>2. Onward
      BY <1>0, <2>1, StoreKept
    <2>3. Registered'
      BY <2>1, <2>2 DEF Inv, TypeOK, Registered, Onward, serverVars
    <2>4. Asked' = Asked \/ Asked' = Asked \cup {tx}
      BY <1>0, <2>1, AskedStep
    <2>5. sentIDs' \subseteq Asked'
      <3>1. CASE Send(tx)
        BY <1>0, <2>4, <3>1, AskedAppend DEF Send, TypeOK, Trail
      <3>2. CASE SendFails(tx)
        BY <1>0, <2>4, <3>2 DEF SendFails, NotSent, Trail
      <3>3. QED
        BY <1>5, <3>1, <3>2
    <2>6. Trail'
      BY <1>0, <2>1, <2>4, <2>5 DEF Trail, storeVars
    <2>7. QED
      BY <2>2, <2>3, <2>6 DEF Onward
  <1>6. CASE Fetch \/ Mark \/ MarkFails
    <2>1. CASE Fetch
      BY <2>1, QuietStep DEF Fetch, FetchUnsent, Unsent, storeVars, serverVars, relayVars, stubVars, consumerVars,
           topicVars, Inv, Trail
    <2>2. CASE Mark
      <3>1. Onward /\ UNCHANGED outbox /\ sentAt' \subseteq sentAt \cup sentIDs
        BY <1>0, <2>2, MarkEffect DEF Mark
      <3>2. Registered'
        BY <2>2, <3>1 DEF Mark, Inv, TypeOK, Registered, Onward, serverVars
      <3>3. Asked' = Asked
        BY <2>2 DEF Mark, topicVars, Asked
      <3>4. Trail'
        BY <1>0, <2>2, <3>1, <3>3 DEF Mark, Trail, topicVars
      <3>5. QED
        BY <3>1, <3>2, <3>4 DEF Onward
    <2>3. CASE MarkFails
      BY <2>3, QuietStep DEF MarkFails, storeVars, serverVars, relayVars, stubVars, consumerVars,
           topicVars, Inv, Trail
    <2>4. QED
      BY <1>6, <2>1, <2>2, <2>3
  <1>7. ASSUME NEW o \in 1..Len(request),
               StubAnswer(o) \/ StubAnswerFails(o) \/ StubCommit(o)
        PROVE  Goal
    <2>1. UNCHANGED <<storeVars, serverVars, relayVars, request>>
      BY <1>7 DEF StubAnswer, StubAnswerFails, StubCommit, topicVars
    <2>2. Onward
      BY <1>0, <2>1, StoreKept
    <2>3. Registered'
      BY <2>1, <2>2 DEF Inv, TypeOK, Registered, Onward, serverVars
    <2>4. Asked' = Asked
      BY <2>1 DEF Asked
    <2>5. \A i \in 1..Len(response') : response'[i].tx \in Asked
      <3>1. CASE response' = response
        BY <1>0, <3>1 DEF Trail
      <3>2. ASSUME NEW result \in Result, response' = Reply(o, result)
            PROVE  \A i \in 1..Len(response') : response'[i].tx \in Asked
        <4>1. request[o] \in Asked /\ request[o] \in TX
          BY <1>0, LenProperties, ElementOfSeq DEF Asked, Range, TypeOK
        <4>2. [tx |-> request[o], result |-> result] \in [tx : TX, result : Result]
          BY <4>1
        <4>3. \A i \in 1..Len(response') :
                response'[i] = IF i = Len(response) + 1
                                 THEN [tx |-> request[o], result |-> result]
                                 ELSE response[i]
          BY <1>0, <3>2, <4>2, AnswersAppend DEF TypeOK, Reply
        <4>4. Len(response') = Len(response) + 1 /\ Len(response) \in Nat
          BY <1>0, <3>2, <4>2, AnswersAppend, LenProperties DEF TypeOK, Reply
        <4>5. QED
          BY <1>0, <4>1, <4>3, <4>4 DEF Trail
      <3>3. QED
        BY <1>7, <3>1, <3>2 DEF StubAnswer, StubAnswerFails, StubCommit, topicVars
    <2>6. Trail'
      BY <1>0, <2>1, <2>4, <2>5 DEF Trail, storeVars, relayVars
    <2>7. QED
      BY <2>2, <2>3, <2>6 DEF Onward
  <1>8. CASE Join \/ StoreFails \/ Flush
    BY <1>8, QuietStep DEF Join, StoreFails, Flush, storeVars, serverVars, relayVars, stubVars, consumerVars,
           topicVars, Inv, Trail
  <1>9. CASE Store
    <2>1. Onward /\ UNCHANGED <<outbox, sentAt>>
      BY <1>0, <1>9, StoredIsAsked, PersistEffect DEF Store
    <2>2. QED
      BY <1>9, <2>1, CommitStep DEF Store, storeVars, serverVars, relayVars, stubVars, consumerVars,
           topicVars
  <1>10. CASE ServerCrash
    BY <1>10, QuietStep DEF ServerCrash, Cut, storeVars, serverVars, relayVars, stubVars, consumerVars,
           topicVars, Inv, TypeOK
  <1>11. CASE StubCrash
    BY <1>11, QuietStep DEF StubCrash, storeVars, serverVars, relayVars, stubVars, consumerVars,
           topicVars, Inv, Trail
  <1>12. CASE UNCHANGED vars
    BY <1>12, QuietStep DEF vars, storeVars, serverVars, relayVars, stubVars, consumerVars,
           topicVars, Inv, Trail
  <1>13. QED
    BY <1>1, <1>2, <1>3, <1>4, <1>5, <1>6, <1>7, <1>8, <1>9, <1>10, <1>11, <1>12
       DEF Next, Relay, Stub, Consume, Crashes

LEMMA InvAlways == Spec => []Inv
  <1>1. QED
    BY InvInit, InvStep, PTL DEF Spec

(* status, pending and outbox tell one story of every payment
   (peymentRepo.go:111-118, 264-323). *)
THEOREM TablesAlwaysAgree == Spec => []TablesAgree
  <1>1. Inv => TablesAgree
    BY DEF Inv
  <1>2. QED
    BY <1>1, InvAlways, PTL

(* An event marked as sent is in the topic (outboxWorker.go:57-82). *)
THEOREM SentReachedTopic == Spec => []SentIsInTopic
  <1>1. Inv => SentIsInTopic
    BY DEF Inv, Trail, SentIsInTopic
  <1>2. QED
    BY <1>1, InvAlways, PTL

-----------------------------------------------------------------------------
(* How often a payment is sent *)

Sent == sentAt \cup sentIDs

(* What waits to be sent is not counted as sent, and all copies but the one
   that is are paid for by a failed call or a crash. *)
Delivery ==
  /\ batch \cap Sent = {}
  /\ \A tx \in TX :
       Copies(tx) <= faults + crashes + (IF tx \in Sent THEN 1 ELSE 0)

LEMMA CopiesAppend ==
  ASSUME request \in Seq(TX), NEW tx \in TX, request' = Append(request, tx)
  PROVE  \A u \in TX : Copies(u)' = IF u = tx THEN Copies(u) + 1 ELSE Copies(u)
  <1> SUFFICES ASSUME NEW u \in TX
               PROVE  Copies(u)' = IF u = tx THEN Copies(u) + 1 ELSE Copies(u)
    OBVIOUS
  <1> DEFINE At == {i \in 1..Len(request) : request[i] = u}
             n == Len(request)
  <1>1. /\ n \in Nat /\ Len(request') = n + 1
        /\ \A i \in 1..n : request'[i] = request[i]
        /\ request'[n + 1] = tx
    OBVIOUS
  <1>2. 1..Len(request') = 1..n \cup {n + 1} /\ n + 1 \notin 1..n
    BY <1>1
  <1>3. At' = IF u = tx THEN At \cup {n + 1} ELSE At
    BY <1>1, <1>2
  <1>4. IsFiniteSet(At) /\ n + 1 \notin At
    <2>1. At \in SUBSET (1..n) /\ n + 1 \notin At
      BY <1>2
    <2>2. IsFiniteSet(1..n)
      BY <1>1, FS_Interval
    <2>3. QED
      BY <2>1, <2>2, FS_Subset
  <1>5. Cardinality(At \cup {n + 1}) = Cardinality(At) + 1
    BY <1>4, FS_AddElement
  <1>6. Copies(u) = Cardinality(At) /\ Copies(u)' = Cardinality(At')
    BY DEF Copies
  <1>7. QED
    BY <1>3, <1>5, <1>6

LEMMA CopiesNat ==
  ASSUME request \in Seq(TX), NEW u \in TX PROVE Copies(u) \in Nat
  <1>1. Len(request) \in Nat
    OBVIOUS
  <1>2. IsFiniteSet(1..Len(request))
    BY <1>1, FS_Interval
  <1> DEFINE At == {i \in 1..Len(request) : request[i] = u}
  <1>3. At \in SUBSET (1..Len(request))
    OBVIOUS
  <1>4. IsFiniteSet(At)
    BY <1>2, <1>3, FS_Subset
  <1>5. QED
    BY <1>4, FS_CardinalityType DEF Copies

LEMMA FailuresPay ==
  ASSUME NEW f \in Int, NEW c \in Int, NEW g \in Int, NEW d \in Int,
         NEW n \in Int, NEW one \in 0..1, NEW then \in 0..1,
         g >= f, d >= c, n <= f + c + one, one <= then \/ g + d > f + c
  PROVE  n <= g + d + then
  OBVIOUS

(* A step that sends nothing, and forgets what was sent only for a failure. *)
LEMMA NothingSent ==
  ASSUME TypeOK, TypeOK', Delivery, request' = request,
         faults' >= faults, crashes' >= crashes,
         batch' \cap Sent' = {},
         Sent \subseteq Sent' \/ faults' + crashes' > faults + crashes
  PROVE  Delivery'
  <1>1. /\ faults \in Int /\ crashes \in Int /\ faults' \in Int /\ crashes' \in Int
        /\ \A tx \in TX : Copies(tx) \in Int
    BY CopiesNat DEF TypeOK
  <1>2. ASSUME NEW tx \in TX
        PROVE  Copies(tx) <= faults' + crashes' + (IF tx \in Sent' THEN 1 ELSE 0)
    <2> DEFINE one == IF tx \in Sent THEN 1 ELSE 0
               oneThen == IF tx \in Sent' THEN 1 ELSE 0
               copies == Copies(tx)
    <2>1. copies \in Int /\ one \in 0..1 /\ oneThen \in 0..1
      BY <1>1
    <2>2. copies <= faults + crashes + one
      BY DEF Delivery
    <2>3. one <= oneThen \/ faults' + crashes' > faults + crashes
      OBVIOUS
    <2>4. QED
      BY <1>1, <2>1, <2>2, <2>3, FailuresPay
  <1>3. \A tx \in TX : Copies(tx)' = Copies(tx)
    BY DEF Copies
  <1>4. QED
    BY <1>2, <1>3 DEF Delivery

LEMMA DeliveryStep == Inv /\ Delivery /\ [Next]_vars => Delivery'
  <1> SUFFICES ASSUME Inv, Delivery, [Next]_vars PROVE Delivery'
    OBVIOUS
  <1>0. /\ TypeOK /\ TypeOK' /\ request \in Seq(TX)
        /\ batch \subseteq TX /\ batch \cap Sent = {} /\ sentIDs \subseteq outbox
        /\ faults \in Int /\ crashes \in Int
    <2>1. TypeOK /\ TypeOK'
      BY TypeStep DEF Inv
    <2>2. sentIDs \subseteq Asked /\ Asked \subseteq outbox
      BY DEF Inv, Trail
    <2>3. /\ request \in Seq(TX) /\ batch \subseteq TX
          /\ faults \in Int /\ crashes \in Int
      BY <2>1 DEF TypeOK
    <2>4. batch \cap Sent = {}
      BY DEF Delivery
    <2>5. QED
      BY <2>1, <2>2, <2>3, <2>4
  <1>1. ASSUME UNCHANGED <<batch, sentIDs, sentAt, request, crashes>>, faults' >= faults
        PROVE  Delivery'
    BY <1>0, <1>1, NothingSent DEF Sent
  <1>2. Fault => faults' = faults + 1 /\ crashes' = crashes
    BY DEF Fault
  <1>3. CASE Boot
    BY <1>0, <1>1, <1>2, <1>3 DEF Boot, StartUp, Start, Load, LoadFails, Recover, Serve,
       storeVars, relayVars, topicVars, boundVars
  <1>4. ASSUME NEW tx \in TX, Handle(tx) PROVE Delivery'
    BY <1>0, <1>1, <1>2, <1>4 DEF Handle, Insert, CallInsert, InsertCommits, InsertRefused,
       InsertFails, Enqueue, InsertTX, storeVars, relayVars, topicVars, boundVars
  <1>5. ASSUME NEW tx \in TX, Process(tx) \/ Orphan(tx) PROVE Delivery'
    BY <1>0, <1>1, <1>2, <1>5 DEF Process, EndProcess, CallProcess, ProcessCommits, ProcessFails,
       Orphan, OrphanProcess, OrphanInsert, ProcessTX, InsertTX, storeVars, relayVars,
       topicVars, boundVars
  <1>6. CASE Fetch
    <2>1. /\ batch' \cap Sent' = {} /\ Sent' = Sent
          /\ UNCHANGED <<request, faults, crashes>>
      BY <1>6 DEF Fetch, FetchUnsent, Unsent, Sent, storeVars, topicVars, boundVars
    <2>2. QED
      BY <1>0, <2>1, NothingSent
  <1>7. ASSUME NEW tx \in TX, Send(tx) PROVE Delivery'
    <2>1. /\ tx \in batch /\ batch' = batch \ {tx} /\ request' = Append(request, tx)
          /\ Sent' = Sent \cup {tx} /\ UNCHANGED <<faults, crashes>>
      BY <1>7 DEF Send, Sent, storeVars, boundVars
    <2>2. \A u \in TX : Copies(u)' = IF u = tx THEN Copies(u) + 1 ELSE Copies(u)
      BY <1>0, <2>1, CopiesAppend
    <2>3. \A u \in TX : Copies(u) \in Int
      BY <1>0, CopiesNat
    <2>4. tx \notin Sent
      BY <1>0, <2>1
    <2>5. QED
      BY <1>0, <2>1, <2>2, <2>3, <2>4 DEF Delivery
  <1>8. ASSUME NEW tx \in TX, SendFails(tx) PROVE Delivery'
    <2>1. /\ batch' = batch \ {tx} /\ Sent' = Sent
          /\ request' = Append(request, tx) \/ request' = request
          /\ faults' = faults + 1 /\ crashes' = crashes
      BY <1>2, <1>8 DEF SendFails, NotSent, Sent, storeVars
    <2>2. CASE request' = request
      BY <1>0, <2>1, <2>2, NothingSent
    <2>3. CASE request' = Append(request, tx)
      <3>1. \A u \in TX : Copies(u)' = IF u = tx THEN Copies(u) + 1 ELSE Copies(u)
        BY <1>0, <2>3, CopiesAppend
      <3>2. \A u \in TX : Copies(u) \in Int
        BY <1>0, CopiesNat
      <3>3. QED
        BY <1>0, <2>1, <3>1, <3>2 DEF Delivery
    <2>4. QED
      BY <2>1, <2>2, <2>3
  <1>9. CASE Mark
    <2>1. /\ batch' = batch /\ Sent' = Sent /\ UNCHANGED <<request, faults, crashes>>
      BY <1>0, <1>9 DEF Mark, MarkSent, Sent, topicVars, boundVars
    <2>2. QED
      BY <1>0, <2>1, NothingSent
  <1>10. CASE MarkFails
    <2>1. /\ batch' = {} /\ request' = request /\ faults' = faults + 1 /\ crashes' = crashes
      BY <1>2, <1>10 DEF MarkFails, topicVars
    <2>2. QED
      BY <1>0, <2>1, NothingSent
  <1>11. CASE Stub
    BY <1>0, <1>1, <1>2, <1>11 DEF Stub, StubAnswer, StubAnswerFails, StubCommit,
       storeVars, relayVars, topicVars, boundVars
  <1>12. CASE Consume \/ Flush
    BY <1>0, <1>1, <1>2, <1>12 DEF Consume, Join, Store, PersistProcessResult,
       StoreFails, Flush, storeVars, relayVars, topicVars, boundVars
  <1>13. CASE ServerCrash
    <2>1. batch' = {} /\ request' = request /\ faults' = faults /\ crashes' = crashes + 1
      BY <1>13 DEF ServerCrash, topicVars
    <2>2. QED
      BY <1>0, <2>1, NothingSent
  <1>14. CASE StubCrash
    BY <1>0, <1>1, <1>14 DEF StubCrash, storeVars, relayVars, topicVars
  <1>15. CASE UNCHANGED vars
    BY <1>0, <1>1, <1>15 DEF vars, storeVars, relayVars, topicVars, boundVars
  <1>16. QED
    BY <1>3, <1>4, <1>5, <1>6, <1>7, <1>8, <1>9, <1>10, <1>11, <1>12, <1>13, <1>14, <1>15
       DEF Next, Relay, Crashes

LEMMA DeliveryInit == Init => Delivery
  <1> SUFFICES ASSUME Init, NEW tx \in TX
               PROVE  Copies(tx) = 0
    BY DEF Init, StoreInit, Delivery, Sent
  <1>1. {i \in 1..Len(request) : request[i] = tx} = {}
    BY DEF Init
  <1>2. QED
    BY <1>1, FS_EmptySet DEF Copies

(* The processing system gets a payment once, and once more at most for every
   failed call and every crash, for any number of payments and whatever the
   size of a batch (outboxWorker.go:57-82). *)
LEMMA ResendsArePaidFor == Spec => []ResentOnlyForFailures
  <1>1. Inv /\ Delivery => ResentOnlyForFailures
    <2> SUFFICES ASSUME Inv, Delivery, NEW tx \in TX
                 PROVE  Copies(tx) <= 1 + faults + crashes
      BY DEF ResentOnlyForFailures
    <2>1. Copies(tx) \in Int /\ faults \in Int /\ crashes \in Int
      BY CopiesNat DEF Inv, TypeOK
    <2>2. QED
      BY <2>1 DEF Delivery
  <1>2. QED
    BY <1>1, DeliveryInit, DeliveryStep, InvAlways, PTL DEF Spec

-----------------------------------------------------------------------------
(* How often a payment is executed *)

(* A result for every copy in an earlier life of the processing system, and in
   this one for every copy it has taken. *)
TakenOf(tx) == {o \in taken : request[o] = tx}
Drawn ==
  \A tx \in TX :
    Executions(tx) <= Copies(tx) * stubCrashes + Cardinality(TakenOf(tx))

LEMMA ExecutionsAppend ==
  ASSUME response \in Seq([tx : TX, result : Result]),
         NEW r \in [tx : TX, result : Result], response' = Append(response, r)
  PROVE  \A u \in TX :
           Executions(u)' = IF u = r.tx THEN Executions(u) + 1 ELSE Executions(u)
  <1> SUFFICES ASSUME NEW u \in TX
               PROVE  Executions(u)' = IF u = r.tx THEN Executions(u) + 1 ELSE Executions(u)
    OBVIOUS
  <1> DEFINE At == {i \in 1..Len(response) : response[i].tx = u}
             n == Len(response)
  <1>1. /\ n \in Nat /\ Len(response') = n + 1
        /\ \A i \in 1..n : response'[i] = response[i]
        /\ response'[n + 1] = r
    OBVIOUS
  <1>2. 1..Len(response') = 1..n \cup {n + 1} /\ n + 1 \notin 1..n
    BY <1>1
  <1>3. At' = IF u = r.tx THEN At \cup {n + 1} ELSE At
    BY <1>1, <1>2
  <1>4. IsFiniteSet(At) /\ n + 1 \notin At
    <2>1. At \in SUBSET (1..n) /\ n + 1 \notin At
      BY <1>2
    <2>2. IsFiniteSet(1..n)
      BY <1>1, FS_Interval
    <2>3. QED
      BY <2>1, <2>2, FS_Subset
  <1>5. Cardinality(At \cup {n + 1}) = Cardinality(At) + 1
    BY <1>4, FS_AddElement
  <1>6. Executions(u) = Cardinality(At) /\ Executions(u)' = Cardinality(At')
    BY DEF Executions
  <1>7. QED
    BY <1>3, <1>5, <1>6

(* A payment is taken no more often than it was sent. *)
LEMMA TakenCount ==
  ASSUME TypeOK, NEW tx \in TX
  PROVE  /\ IsFiniteSet(TakenOf(tx)) /\ Cardinality(TakenOf(tx)) \in Nat
         /\ Executions(tx) \in Nat /\ Copies(tx) \in Nat
         /\ Cardinality(TakenOf(tx)) <= Copies(tx)
  <1> DEFINE In == {i \in 1..Len(request) : request[i] = tx}
             Out == {i \in 1..Len(response) : response[i].tx = tx}
  <1>1. /\ Len(request) \in Nat /\ Len(response) \in Nat
        /\ taken \subseteq 1..Len(request)
    BY LenProperties DEF TypeOK
  <1>2. IsFiniteSet(1..Len(request)) /\ IsFiniteSet(1..Len(response))
    BY <1>1, FS_Interval
  <1>3. In \in SUBSET (1..Len(request)) /\ Out \in SUBSET (1..Len(response))
    OBVIOUS
  <1>4. IsFiniteSet(In) /\ IsFiniteSet(Out)
    BY <1>2, <1>3, FS_Subset
  <1>5. TakenOf(tx) \in SUBSET In
    BY <1>1 DEF TakenOf
  <1>6. IsFiniteSet(TakenOf(tx)) /\ Cardinality(TakenOf(tx)) <= Cardinality(In)
    BY <1>4, <1>5, FS_Subset
  <1>7. QED
    BY <1>4, <1>6, FS_CardinalityType DEF Copies, Executions

LEMMA MoreCopies ==
  ASSUME NEW e \in Nat, NEW c \in Nat, NEW d \in Nat, NEW n \in Nat, NEW t \in Nat,
         c <= d, e <= c * n + t
  PROVE  e <= d * n + t
  <1>1. PICK k \in Nat : d = c + k
    <2>1. d - c \in Nat /\ d = c + (d - c)
      OBVIOUS
    <2>2. QED
      BY <2>1
  <1>2. d * n = c * n + k * n /\ k * n \in Nat /\ c * n \in Nat
    BY <1>1
  <1>3. QED
    BY <1>2

LEMMA NextLife ==
  ASSUME NEW e \in Nat, NEW c \in Nat, NEW n \in Nat, NEW t \in Nat,
         t <= c, e <= c * n + t
  PROVE  e <= c * (n + 1)
  <1>1. c * (n + 1) = c * n + c /\ c * n \in Nat
    OBVIOUS
  <1>2. QED
    BY <1>1

LEMMA DrawnStep == Inv /\ Drawn /\ [Next]_vars => Drawn'
  <1> SUFFICES ASSUME Inv, Drawn, [Next]_vars PROVE Drawn'
    OBVIOUS
  <1>0. TypeOK /\ TypeOK'
    BY TypeStep DEF Inv
  <1>1. /\ stubCrashes \in Nat /\ request \in Seq(TX)
        /\ response \in Seq([tx : TX, result : Result])
        /\ taken \subseteq 1..Len(request)
    BY <1>0, SizesAssumption DEF TypeOK
  <1>2. ASSUME UNCHANGED <<request, response, taken, stubCrashes>> PROVE Drawn'
    BY <1>2 DEF Drawn, Executions, Copies, TakenOf
  <1>3. ASSUME NEW tx \in TX, Send(tx) \/ SendFails(tx) PROVE Drawn'
    <2>1. /\ request' = Append(request, tx) \/ request' = request
          /\ UNCHANGED <<response, taken, stubCrashes>>
      BY <1>3 DEF Send, SendFails, stubVars, boundVars, Fault
    <2>2. ASSUME request' = Append(request, tx), NEW u \in TX
          PROVE  Executions(u)' <= Copies(u)' * stubCrashes' + Cardinality(TakenOf(u))'
      <3>1. Copies(u)' = IF u = tx THEN Copies(u) + 1 ELSE Copies(u)
        BY <1>1, <2>2, CopiesAppend
      <3>2. \A i \in 1..Len(request) : request'[i] = request[i]
        BY <1>1, <2>2
      <3>3. TakenOf(u)' = TakenOf(u) /\ Executions(u)' = Executions(u)
        BY <1>1, <2>1, <3>2 DEF TakenOf, Executions
      <3>4. /\ Copies(u) \in Nat /\ Executions(u) \in Nat
            /\ Cardinality(TakenOf(u)) \in Nat
        BY <1>0, TakenCount
      <3>5. Copies(u)' \in Nat /\ Copies(u) <= Copies(u)'
        BY <3>1, <3>4
      <3>6. Executions(u) <= Copies(u) * stubCrashes + Cardinality(TakenOf(u))
        BY DEF Drawn
      <3>7. Executions(u) <= Copies(u)' * stubCrashes + Cardinality(TakenOf(u))
        BY <1>1, <3>4, <3>5, <3>6, MoreCopies
      <3>8. QED
        BY <2>1, <3>3, <3>7
    <2>3. QED
      BY <1>2, <2>1, <2>2 DEF Drawn
  <1>4. ASSUME NEW o \in 1..Len(request), StubAnswer(o) \/ StubAnswerFails(o)
        PROVE  Drawn'
    <2>1. /\ o \notin taken /\ taken' = taken \cup {o}
          /\ UNCHANGED <<request, stubCrashes>>
          /\ response' = response \/ \E result \in Result : response' = Reply(o, result)
      BY <1>4 DEF StubAnswer, StubAnswerFails, ToAnswer, boundVars, Fault
    <2>2. SUFFICES ASSUME NEW u \in TX
                   PROVE  Executions(u)' <= Copies(u)' * stubCrashes' + Cardinality(TakenOf(u))'
      BY DEF Drawn
    <2> DEFINE one == IF u = request[o] THEN 1 ELSE 0
    <2>3. Executions(u)' <= Executions(u) + one /\ Executions(u)' \in Nat
      <3>1. CASE response' = response
        <4>1. Executions(u)' = Executions(u)
          BY <3>1 DEF Executions
        <4>2. QED
          BY <1>0, <4>1, TakenCount
      <3>2. ASSUME NEW result \in Result, response' = Reply(o, result)
            PROVE  Executions(u)' <= Executions(u) + one /\ Executions(u)' \in Nat
        <4> DEFINE r == [tx |-> request[o], result |-> result]
        <4>1. r \in [tx : TX, result : Result] /\ r.tx = request[o]
          BY <1>1, ElementOfSeq
        <4>2. Executions(u)' = IF u = request[o] THEN Executions(u) + 1 ELSE Executions(u)
          BY <1>1, <3>2, <4>1, ExecutionsAppend DEF Reply
        <4>3. Executions(u) \in Nat
          BY <1>0, TakenCount
        <4>4. QED
          BY <4>2, <4>3
      <3>3. QED
        BY <2>1, <3>1, <3>2
    <2>4. Cardinality(TakenOf(u))' = Cardinality(TakenOf(u)) + one
      <3>1. TakenOf(u)' = IF u = request[o] THEN TakenOf(u) \cup {o} ELSE TakenOf(u)
        BY <2>1 DEF TakenOf
      <3>2. IsFiniteSet(TakenOf(u)) /\ o \notin TakenOf(u) /\ Cardinality(TakenOf(u)) \in Nat
        BY <1>0, <2>1, TakenCount DEF TakenOf
      <3>3. Cardinality(TakenOf(u) \cup {o}) = Cardinality(TakenOf(u)) + 1
        BY <3>2, FS_AddElement
      <3>4. QED
        BY <3>1, <3>2, <3>3
    <2>5. Copies(u)' = Copies(u)
      BY <2>1 DEF Copies
    <2>6. Executions(u) <= Copies(u) * stubCrashes + Cardinality(TakenOf(u))
      BY DEF Drawn
    <2>7. /\ Copies(u) \in Nat /\ Executions(u) \in Nat /\ Copies(u) * stubCrashes \in Nat
          /\ Cardinality(TakenOf(u)) \in Nat /\ one \in Nat
      BY <1>0, <1>1, TakenCount
    <2> HIDE DEF one
    <2>8. Executions(u)' <= Copies(u) * stubCrashes + (Cardinality(TakenOf(u)) + one)
      BY <2>3, <2>6, <2>7
    <2>9. QED
      BY <2>1, <2>4, <2>5, <2>8
  <1>5. CASE StubCrash
    <2>1. UNCHANGED <<request, response>> /\ stubCrashes' = stubCrashes + 1
      BY <1>5 DEF StubCrash, topicVars
    <2>2. SUFFICES ASSUME NEW u \in TX
                   PROVE  Executions(u)' <= Copies(u)' * stubCrashes' + Cardinality(TakenOf(u))'
      BY DEF Drawn
    <2>3. Executions(u)' = Executions(u) /\ Copies(u)' = Copies(u)
      BY <2>1 DEF Executions, Copies
    <2>4. /\ Copies(u) \in Nat /\ Executions(u) \in Nat
          /\ Cardinality(TakenOf(u)) \in Nat /\ Cardinality(TakenOf(u)) <= Copies(u)
      BY <1>0, TakenCount
    <2>5. Executions(u) <= Copies(u) * stubCrashes + Cardinality(TakenOf(u))
      BY DEF Drawn
    <2>6. Executions(u) <= Copies(u) * (stubCrashes + 1)
      BY <1>1, <2>4, <2>5, NextLife
    <2>7. Cardinality(TakenOf(u))' \in Nat
      <3>1. IsFiniteSet(1..stubCommitted)
        BY <1>0, FS_Interval DEF TypeOK
      <3>2. TakenOf(u)' \in SUBSET (1..stubCommitted)
        BY <1>5 DEF StubCrash, TakenOf
      <3>3. QED
        BY <3>1, <3>2, FS_Subset, FS_CardinalityType
    <2>8. Copies(u) * (stubCrashes + 1) \in Nat
      BY <1>1, <2>4
    <2>9. QED
      BY <2>1, <2>3, <2>4, <2>6, <2>7, <2>8
  <1>6. CASE UNCHANGED vars
    BY <1>2, <1>6 DEF vars, topicVars, stubVars, boundVars
  <1>7. ASSUME ~StubCrash, \A tx \in TX : ~Send(tx) /\ ~SendFails(tx),
               \A o \in 1..Len(request) : ~StubAnswer(o) /\ ~StubAnswerFails(o), Next
        PROVE  Drawn'
    <2>1. UNCHANGED <<request, response, taken, stubCrashes>>
      BY <1>7 DEF Next, Boot, StartUp, Start, Load, LoadFails, Recover, Serve, Relay,
         Fetch, Mark, MarkFails, Stub, StubCommit, Consume, Join, Store, StoreFails,
         Flush, Crashes, ServerCrash, Handle, Insert, CallInsert, InsertCommits,
         InsertRefused, InsertFails, Enqueue, Process, EndProcess, CallProcess, ProcessCommits,
         ProcessFails, Orphan, OrphanProcess, OrphanInsert, Fault, stubVars,
         topicVars, boundVars
    <2>2. QED
      BY <1>2, <2>1
  <1>8. QED
    BY <1>3, <1>4, <1>5, <1>6, <1>7

(* The processing system executes a payment once for every copy of its request
   and every start of its own, so again only for a failure
   (ProcessService/main.go:74-121, outboxWorker.go:57-82). *)
LEMMA ExecutionsArePaidFor == Spec => []ExecutedAgainOnlyForFailures
  <1>1. Init => Drawn
    <2> SUFFICES ASSUME Init, NEW tx \in TX
                 PROVE  Executions(tx) <= Copies(tx) * stubCrashes + Cardinality(TakenOf(tx))
      BY DEF Drawn
    <2>1. Copies(tx) \in Nat /\ Cardinality(TakenOf(tx)) \in Nat
      BY TypeInit, TakenCount
    <2>2. {i \in 1..Len(response) : response[i].tx = tx} = {}
      BY DEF Init
    <2>3. Executions(tx) = 0
      BY <2>2, FS_EmptySet DEF Executions
    <2>4. Copies(tx) * stubCrashes = 0
      BY <2>1 DEF Init
    <2>5. QED
      BY <2>1, <2>3, <2>4
  <1>2. Inv /\ Delivery /\ Drawn => ExecutedAgainOnlyForFailures
    <2> SUFFICES ASSUME Inv, Delivery, Drawn, NEW tx \in TX
                 PROVE  Executions(tx) <= (1 + faults + crashes) * (1 + stubCrashes)
      BY DEF ExecutedAgainOnlyForFailures
    <2>1. /\ faults \in Nat /\ crashes \in Nat /\ stubCrashes \in Nat
      BY SizesAssumption DEF Inv, TypeOK
    <2>2. /\ Executions(tx) \in Nat /\ Copies(tx) \in Nat
          /\ Cardinality(TakenOf(tx)) \in Nat /\ Cardinality(TakenOf(tx)) <= Copies(tx)
      BY TakenCount DEF Inv
    <2>3. Copies(tx) <= 1 + faults + crashes
      BY <2>1, <2>2 DEF Delivery
    <2>4. Executions(tx) <= Copies(tx) * stubCrashes + Cardinality(TakenOf(tx))
      BY DEF Drawn
    <2>5. Executions(tx) <= Copies(tx) * (stubCrashes + 1) + 0
      BY <2>1, <2>2, <2>4, NextLife
    <2>6. 1 + faults + crashes \in Nat /\ stubCrashes + 1 \in Nat
      BY <2>1
    <2>7. Executions(tx) <= (1 + faults + crashes) * (stubCrashes + 1) + 0
      BY <2>2, <2>3, <2>5, <2>6, MoreCopies
    <2>8. QED
      BY <2>1, <2>6, <2>7
  <1>3. QED
    BY <1>1, <1>2, DrawnStep, DeliveryInit, DeliveryStep, InvAlways, PTL DEF Spec

(* Whatever fails and crashes and however relay and stub interleave, a payment
   is asked for and executed again only for a failure, and no more often than
   these explain (outboxWorker.go:57-82, ProcessService/main.go:74-121). *)
THEOREM RepeatsArePaidFor == Spec => []RepeatedOnlyForFailures
  <1>1. QED
    BY ResendsArePaidFor, ExecutionsArePaidFor, PTL DEF RepeatedOnlyForFailures

-----------------------------------------------------------------------------
(* Recovery *)

Care == Phases /\ Attended

(* Steps that leave the server alone and add nothing to pending. *)
LEMMA OutsideStep ==
  ASSUME Care, UNCHANGED serverVars, pending' \subseteq pending
  PROVE  Care'
  BY DEF Care, Phases, Attended, serverVars, Up

LEMMA BootCare == TypeOK /\ TablesAgree /\ Care /\ Boot => Care'
  <1> SUFFICES ASSUME TypeOK, TablesAgree, Care, Boot PROVE Care'
    OBVIOUS
  <1> USE DEF Care, Phases, Attended, Up, storeVars
  <1>1. pending \subseteq LoadPendingPayments
    BY DEF LoadPendingPayments, Recorded, TypeOK, TablesAgree
  <1>2. CASE Start
    BY <1>2 DEF Start
  <1>3. CASE Load
    BY <1>1, <1>3 DEF Load, Owed
  <1>4. CASE LoadFails
    BY <1>1, <1>4 DEF LoadFails
  <1>5. ASSUME NEW tx \in TX, Recover(tx) PROVE Care'
    BY <1>5 DEF Recover
  <1>6. CASE Serve
    BY <1>6 DEF Serve
  <1>7. QED
    BY <1>2, <1>3, <1>4, <1>5, <1>6 DEF Boot, StartUp

LEMMA HandleCare ==
  ASSUME TypeOK, Care, NEW tx \in TX, Handle(tx) PROVE Care'
  <1> USE DEF Care, Phases, Attended, Up, storeVars, Handler, TypeOK
  <1>1. CASE CallInsert(tx)
    BY <1>1 DEF CallInsert
  <1>2. CASE InsertCommits(tx)
    BY <1>2 DEF InsertCommits, InsertTX
  <1>3. CASE InsertRefused(tx)
    BY <1>3 DEF InsertRefused
  <1>4. CASE InsertFails(tx)
    BY <1>4 DEF InsertFails, InsertTX
  <1>5. CASE Enqueue(tx)
    BY <1>5 DEF Enqueue
  <1>6. QED
    BY <1>1, <1>2, <1>3, <1>4, <1>5, Handle(tx) DEF Handle, Insert

LEMMA ProcessCare ==
  ASSUME TypeOK, TablesAgree, Care, NEW tx \in TX, Process(tx) PROVE Care'
  <1> USE DEF Care, Phases, Attended, Up, storeVars
  <1>1. CASE CallProcess(tx)
    BY <1>1 DEF CallProcess
  <1>2. CASE ProcessCommits(tx)
    <2>1. pending' \subseteq pending \ {tx}
      BY <1>2, ProcessEffect DEF ProcessCommits, ProcessTX, TypeOK, TablesAgree, Begun
    <2>2. QED
      BY <1>2, <2>1 DEF ProcessCommits
  <1>3. CASE ProcessFails(tx)
    <2>1. pending' \subseteq pending
      BY <1>3 DEF ProcessFails, ProcessTX
    <2>2. QED
      BY <1>3, <2>1 DEF ProcessFails
  <1>4. QED
    BY <1>1, <1>2, <1>3, Process(tx) DEF Process, EndProcess

LEMMA OrphanCare ==
  ASSUME TypeOK, Care, NEW tx \in TX, Orphan(tx) PROVE Care'
  <1> USE DEF Care, Phases, Attended, Up, storeVars, TypeOK
  <1>1. CASE OrphanProcess(tx)
    <2>1. pending' \subseteq pending
      BY <1>1 DEF OrphanProcess, ProcessTX
    <2>2. QED
      BY <1>1, <2>1 DEF OrphanProcess
  <1>2. CASE OrphanInsert(tx)
    BY <1>2 DEF OrphanInsert, InsertTX, Handler
  <1>3. QED
    BY <1>1, <1>2, Orphan(tx) DEF Orphan

LEMMA CareStep == TypeOK /\ TablesAgree /\ Care /\ [Next]_vars => Care'
  <1> SUFFICES ASSUME TypeOK, TablesAgree, Care, [Next]_vars PROVE Care'
    OBVIOUS
  <1>1. CASE Relay
    BY <1>1, OutsideStep DEF Relay, Fetch, Send, SendFails, Mark, MarkSent,
         MarkFails, storeVars
  <1>2. CASE Stub
    BY <1>2, OutsideStep DEF Stub, StubAnswer, StubAnswerFails, StubCommit, storeVars
  <1>3. CASE Consume \/ Flush \/ StubCrash
    BY <1>3, OutsideStep DEF Consume, Join, Store, PersistProcessResult, StoreFails,
         Flush, StubCrash, storeVars
  <1>4. CASE ServerCrash
    BY <1>4 DEF ServerCrash, Cut, Care, Phases, Attended, Up
  <1>5. CASE UNCHANGED vars
    BY <1>5, OutsideStep DEF vars, storeVars
  <1>6. QED
    BY <1>1, <1>2, <1>3, <1>4, <1>5, BootCare, HandleCare, ProcessCare, OrphanCare
       DEF Next, Crashes

(* No crash, whenever it comes, leaves behind a payment that the next server
   would not take up before it listens (main.go:156-171). *)
THEOREM RecoveryForgetsNone == Spec => []NoneForgotten
  <1>1. Init => Care
    BY DEF Init, StoreInit, Care, Phases, Attended, Up
  <1>2. Inv /\ Care /\ [Next]_vars => Care'
    BY CareStep DEF Inv
  <1>3. Care => NoneForgotten
    BY DEF Care, Phases, Attended, NoneForgotten
  <1>4. QED
    BY <1>1, <1>2, <1>3, InvAlways, PTL DEF Spec

-----------------------------------------------------------------------------
(* Implementation *)

LifecycleStep == [Lifecycle!Next]_<<status, Asked, Answers>>

LEMMA QuietIsStutter ==
  ASSUME UNCHANGED <<status, request, response>> PROVE LifecycleStep
  BY DEF LifecycleStep, Asked, Answers

LEMMA InsertIsAccept ==
  ASSUME TypeOK, NEW tx \in TX, InsertTX(tx), UNCHANGED <<request, response>>
  PROVE  LifecycleStep
  <1>1. Lifecycle!Accept(tx)
    BY DEF TypeOK, InsertTX, EteTaken, Recorded, Lifecycle!Accept, Asked, Answers
  <1>2. QED
    BY <1>1 DEF LifecycleStep, Lifecycle!Next

LEMMA ProcessIsBegin ==
  ASSUME TypeOK, TablesAgree, NEW tx \in TX, Recorded(tx), ProcessTX(tx),
         UNCHANGED <<request, response>>
  PROVE  LifecycleStep
  <1>1. CASE tx \in outbox
    BY <1>1, QuietIsStutter DEF ProcessTX, storeVars
  <1>2. CASE tx \notin outbox
    <2>1. status[tx] = "pending"
      BY <1>2 DEF TypeOK, TablesAgree, Recorded
    <2>2. Lifecycle!Begin(tx)
      BY <1>2, <2>1 DEF ProcessTX, Recorded, Lifecycle!Begin, Asked, Answers
    <2>3. QED
      BY <2>2 DEF LifecycleStep, Lifecycle!Next
  <1>3. QED
    BY <1>1, <1>2

LEMMA ImplementationStep == Inv /\ [Next]_vars => LifecycleStep
  <1> SUFFICES ASSUME Inv, [Next]_vars PROVE LifecycleStep
    OBVIOUS
  <1>0. /\ TypeOK /\ TablesAgree /\ Trail
        /\ \A tx \in inflight \cup orphans : tx \in TX /\ Recorded(tx)
    BY DEF Inv, TypeOK, Registered
  <1>1. CASE Boot
    BY <1>1, QuietIsStutter DEF Boot, StartUp, Start, Load, LoadFails, Recover, Serve,
         storeVars, topicVars
  <1>2. ASSUME NEW tx \in TX, Handle(tx) PROVE LifecycleStep
    <2>1. UNCHANGED storeVars \/ InsertTX(tx)
      BY <1>2 DEF Handle, Insert, CallInsert, InsertCommits, InsertRefused, InsertFails, Enqueue
    <2>2. UNCHANGED <<request, response>>
      BY <1>2 DEF Handle, Insert, CallInsert, InsertCommits, InsertRefused, InsertFails,
           Enqueue, topicVars
    <2>3. QED
      BY <1>0, <2>1, <2>2, QuietIsStutter, InsertIsAccept DEF storeVars
  <1>3. ASSUME NEW tx \in TX, Process(tx) \/ OrphanProcess(tx) PROVE LifecycleStep
    <2>1. UNCHANGED storeVars \/ (tx \in inflight \cup orphans /\ ProcessTX(tx))
      BY <1>3 DEF Process, EndProcess, CallProcess, ProcessCommits, ProcessFails, OrphanProcess
    <2>2. UNCHANGED <<request, response>>
      BY <1>3 DEF Process, EndProcess, CallProcess, ProcessCommits, ProcessFails,
           OrphanProcess, topicVars
    <2>3. QED
      BY <1>0, <2>1, <2>2, QuietIsStutter, ProcessIsBegin DEF storeVars
  <1>4. ASSUME NEW tx \in TX, OrphanInsert(tx) PROVE LifecycleStep
    BY <1>0, <1>4, QuietIsStutter, InsertIsAccept DEF OrphanInsert, storeVars, topicVars
  <1>5. ASSUME NEW tx \in TX, Send(tx) \/ SendFails(tx) PROVE LifecycleStep
    <2>1. /\ tx \in batch
          /\ request' = Append(request, tx) \/ request' = request
          /\ UNCHANGED <<status, response>>
      BY <1>5 DEF Send, SendFails, storeVars
    <2>2. CASE request' = request
      BY <2>1, <2>2, QuietIsStutter
    <2>3. CASE request' = Append(request, tx)
      <3>1. Asked' = Asked \cup {tx} /\ Answers' = Answers
        BY <1>0, <2>1, <2>3, AskedAppend DEF TypeOK, Answers
      <3>2. tx \in outbox
        BY <1>0, <2>1 DEF Trail
      <3>3. status[tx] \in Begun
        BY <1>0, <3>2 DEF TablesAgree
      <3>4. Lifecycle!Ask(tx)
        BY <2>1, <3>1, <3>3 DEF Lifecycle!Ask, Begun
      <3>5. QED
        BY <3>4 DEF LifecycleStep, Lifecycle!Next
    <2>4. QED
      BY <2>1, <2>2, <2>3
  <1>6. CASE Fetch \/ Mark \/ MarkFails
    BY <1>6, QuietIsStutter DEF Fetch, Mark, MarkSent, MarkFails, storeVars, topicVars
  <1>7. ASSUME NEW o \in 1..Len(request),
               StubAnswer(o) \/ StubAnswerFails(o) \/ StubCommit(o)
        PROVE  LifecycleStep
    <2>1. UNCHANGED <<status, request>>
      BY <1>7 DEF StubAnswer, StubAnswerFails, StubCommit, storeVars, topicVars
    <2>2. CASE response' = response
      BY <2>1, <2>2, QuietIsStutter
    <2>3. ASSUME NEW result \in Result, response' = Reply(o, result)
          PROVE  LifecycleStep
      <3>1. request[o] \in Asked /\ request[o] \in TX
        BY <1>0, LenProperties, ElementOfSeq DEF Asked, Range, TypeOK
      <3>2. [tx |-> request[o], result |-> result] \in [tx : TX, result : Result]
        BY <3>1
      <3>3. Answers' = Answers \cup {<<request[o], result>>} /\ Asked' = Asked
        BY <1>0, <2>1, <2>3, <3>2, AnswersAppend DEF TypeOK, Reply, Asked
      <3>4. Lifecycle!Answer(request[o], result)
        BY <2>1, <3>1, <3>3 DEF Lifecycle!Answer
      <3>5. QED
        BY <3>1, <3>4 DEF LifecycleStep, Lifecycle!Next, Lifecycle!Result, Result
    <2>4. QED
      BY <1>7, <2>2, <2>3 DEF StubAnswer, StubAnswerFails, StubCommit, topicVars
  <1>8. CASE Join \/ StoreFails \/ Flush
    BY <1>8, QuietIsStutter DEF Join, StoreFails, Flush, storeVars, topicVars
  <1>9. CASE Store
    <2> DEFINE r == response[respNext]
    <2>1. r.tx \in TX /\ r.result \in Result /\ <<r.tx, r.result>> \in Answers
      BY <1>0, <1>9, StoredIsAsked
    <2>2. Asked' = Asked /\ Answers' = Answers
      BY <1>9 DEF Store, topicVars, Asked, Answers
    <2>3. Lifecycle!Settle(r.tx, r.result)
      BY <1>9, <2>1, <2>2 DEF Store, PersistProcessResult, Lifecycle!Settle
    <2>4. QED
      BY <2>1, <2>3 DEF LifecycleStep, Lifecycle!Next, Lifecycle!Result, Result
  <1>10. CASE Crashes \/ UNCHANGED vars
    BY <1>10, QuietIsStutter DEF Crashes, ServerCrash, StubCrash, vars, storeVars,
         topicVars
  <1>11. QED
    BY <1>1, <1>2, <1>3, <1>4, <1>5, <1>6, <1>7, <1>8, <1>9, <1>10
       DEF Next, Relay, Stub, Consume, Orphan

(* The whole pipeline, with its crashes and failed calls, keeps what the
   service promises of every payment (PaymentLifecycle). *)
THEOREM PipelineKeepsPromises == Spec => KeepsPromises
  <1>1. Init => Lifecycle!Init
    <2>1. Init => Asked = {} /\ Answers = {}
      BY DEF Init, Asked, Answers, Range
    <2>2. QED
      BY <2>1 DEF Init, StoreInit, Lifecycle!Init
  <1>2. Inv /\ [Next]_vars => [Lifecycle!Next]_<<status, Asked, Answers>>
    BY ImplementationStep DEF LifecycleStep
  <1>3. QED
    BY <1>1, <1>2, InvAlways, PTL DEF Spec, KeepsPromises, Lifecycle!Spec

(* A status goes forward only. *)
NoStepBack ==
  [][\A tx \in TX :
       /\ status[tx] # "absent" => status'[tx] # "absent"
       /\ status[tx] \in Begun => status'[tx] # "pending"
       /\ status[tx] \in Result => status'[tx] \in Result]_vars

(* A payment that left pending never goes back, and a result is never undone
   by a late or repeated ProcessTX (README.md:114, peymentRepo.go:264-318). *)
THEOREM NeverStepsBack == Spec => NoStepBack
  <1> DEFINE Forward ==
        \A tx \in TX :
          /\ status[tx] # "absent" => status'[tx] # "absent"
          /\ status[tx] \in Begun => status'[tx] # "pending"
          /\ status[tx] \in Result => status'[tx] \in Result
  <1>1. Inv /\ [Next]_vars => [Forward]_vars
    <2> SUFFICES ASSUME Inv, [Next]_vars PROVE Forward
      OBVIOUS
    <2>1. LifecycleStep /\ TypeOK
      BY ImplementationStep DEF Inv
    <2>2. CASE Lifecycle!Next
      BY <2>1, <2>2 DEF Lifecycle!Next, Lifecycle!Accept, Lifecycle!Begin,
           Lifecycle!Ask, Lifecycle!Answer, Lifecycle!Settle, Lifecycle!Result,
           Result, Begun, TypeOK
    <2>3. CASE status' = status
      BY <2>1, <2>3 DEF Result, Begun
    <2>4. QED
      BY <2>1, <2>2, <2>3 DEF LifecycleStep
  <1>2. QED
    BY <1>1, InvAlways, PTL DEF Spec, NoStepBack

-----------------------------------------------------------------------------
(* What the promises amount to *)

(* One payment per end-to-end identification; the processing system is asked
   for none that is not taken out of pending, and answers for none it was not
   asked; every result is one of its answers. *)
OncePerInstruction ==
  \A t, u \in TX : Recorded(t) /\ Recorded(u) /\ Ete[t] = Ete[u] => t = u
AskedAfterBegin ==
  \A tx \in Asked \cap TX : status[tx] \in Begun
AnsweredAfterAsked ==
  \A tx \in TX, result \in Result : <<tx, result>> \in Answers => tx \in Asked
ResultsWereGiven ==
  \A tx \in TX : status[tx] \in Result => <<tx, status[tx]>> \in Answers

Promised ==
  /\ status \in [TX -> {"absent", "pending"} \cup Begun]
  /\ OncePerInstruction /\ AskedAfterBegin /\ AnsweredAfterAsked /\ ResultsWereGiven

LEMMA PromisedStep ==
  Promised /\ [Lifecycle!Next]_<<status, Asked, Answers>> => Promised'
  <1> SUFFICES ASSUME Promised, [Lifecycle!Next]_<<status, Asked, Answers>>
               PROVE  Promised'
    OBVIOUS
  <1> USE DEF Promised, OncePerInstruction, AskedAfterBegin, AnsweredAfterAsked,
              ResultsWereGiven, Recorded, Begun, Result
  <1>1. ASSUME NEW tx \in TX, Lifecycle!Accept(tx) PROVE Promised'
    BY <1>1 DEF Lifecycle!Accept
  <1>2. ASSUME NEW tx \in TX, Lifecycle!Begin(tx) PROVE Promised'
    BY <1>2 DEF Lifecycle!Begin
  <1>3. ASSUME NEW tx \in TX, Lifecycle!Ask(tx) PROVE Promised'
    BY <1>3 DEF Lifecycle!Ask
  <1>4. ASSUME NEW tx \in TX, NEW result \in Result, Lifecycle!Answer(tx, result)
        PROVE  Promised'
    BY <1>4 DEF Lifecycle!Answer
  <1>5. ASSUME NEW tx \in TX, NEW result \in Result, Lifecycle!Settle(tx, result)
        PROVE  Promised'
    <2>1. tx \in Asked /\ status[tx] \in Begun
      BY <1>5 DEF Lifecycle!Settle
    <2>2. QED
      BY <1>5, <2>1 DEF Lifecycle!Settle
  <1>6. CASE UNCHANGED <<status, Asked, Answers>>
    BY <1>6
  <1>7. QED
    BY <1>1, <1>2, <1>3, <1>4, <1>5, <1>6 DEF Lifecycle!Next, Lifecycle!Result

(* What keeping the promises means in every state: the database holds one payment
   per instruction and no result the processing system did not give, also after
   crashes, lost answers and repeated recoveries (README.md:114, 122, 140). *)
THEOREM PromisesMean ==
  /\ KeepsPromises =>
       [](OncePerInstruction /\ AskedAfterBegin /\ AnsweredAfterAsked /\ ResultsWereGiven)
  /\ Spec =>
       [](OncePerInstruction /\ AskedAfterBegin /\ AnsweredAfterAsked /\ ResultsWereGiven)
  <1>1. Lifecycle!Init => Promised
    BY DEF Lifecycle!Init, Promised, OncePerInstruction, AskedAfterBegin,
         AnsweredAfterAsked, ResultsWereGiven, Recorded, Begun, Result
  <1>2. Promised => /\ OncePerInstruction /\ AskedAfterBegin
                    /\ AnsweredAfterAsked /\ ResultsWereGiven
    BY DEF Promised
  <1>3. QED
    BY <1>1, <1>2, PromisedStep, PipelineKeepsPromises, PTL
       DEF KeepsPromises, Lifecycle!Spec

-----------------------------------------------------------------------------
(* Results, while nothing fails *)

(* Nothing is in a topic twice, what is in the request topic is not sent
   again, what is answered is not taken again, and a result is the status of
   a payment only when the consumer is past it. *)
EachOnce ==
  /\ Asked \subseteq Sent
  /\ \A i, j \in 1..Len(request) : request[i] = request[j] => i = j
  /\ \A i \in 1..Len(response) : \E o \in taken : request[o] = response[i].tx
  /\ \A i, j \in 1..Len(response) : response[i].tx = response[j].tx => i = j
  /\ \A tx \in TX : status[tx] \in Result =>
       \E i \in 1..Len(response) : i < respNext /\ response[i].tx = tx
UntilTroubled == Untroubled => EachOnce

LEMMA TroubleLasts ==
  ASSUME TypeOK, [Next]_vars, Untroubled' PROVE Untroubled
  <1>1. /\ faults \in Nat /\ crashes \in Nat /\ stubCrashes \in Nat
    BY SizesAssumption DEF TypeOK
  <1>2. \/ UNCHANGED boundVars \/ Fault
        \/ crashes' = crashes + 1 \/ stubCrashes' = stubCrashes + 1
    BY DEF Next, Boot, StartUp, Start, Load, LoadFails, Recover, Serve, Relay, Fetch, Send,
       SendFails, Mark, MarkFails, Stub, StubAnswer, StubAnswerFails, StubCommit,
       Consume, Join, Store, StoreFails, Flush, Crashes, ServerCrash, StubCrash,
       Handle, Insert, CallInsert, InsertCommits, InsertRefused, InsertFails, Enqueue,
       Process, EndProcess, CallProcess, ProcessCommits, ProcessFails, Orphan, OrphanProcess,
       OrphanInsert, vars
  <1>3. QED
    BY <1>1, <1>2 DEF Untroubled, Fault, boundVars

(* Only the consumer gives results, and the other transactions keep them. *)
LEMMA OthersKeepResults ==
  ASSUME Inv, [Next]_vars, ~Store, NEW tx \in TX,
         status[tx] \in Result \/ status'[tx] \in Result
  PROVE  status'[tx] = status[tx]
  <1>1. ASSUME NEW u \in TX, InsertTX(u) PROVE status'[tx] = status[tx]
    BY <1>1 DEF InsertTX, Recorded, Inv, TypeOK, Result
  <1>2. ASSUME NEW u \in TX, ProcessTX(u) PROVE status'[tx] = status[tx]
    BY <1>2 DEF ProcessTX, Inv, TypeOK, TablesAgree, Result, Begun, storeVars
  <1>3. /\ inflight \subseteq TX /\ orphans \subseteq TX
    BY DEF Inv, TypeOK
  <1>4. \/ UNCHANGED status
        \/ \E u \in TX : InsertTX(u) \/ ProcessTX(u)
    BY DEF Next, Boot, StartUp, Start, Load, LoadFails, Recover, Serve, Relay, Fetch, Send,
       SendFails, Mark, MarkSent, MarkFails, Stub, StubAnswer, StubAnswerFails,
       StubCommit, Consume, Join, StoreFails, Flush, Crashes, ServerCrash, StubCrash,
       Handle, Insert, CallInsert, InsertCommits, InsertRefused, InsertFails, Enqueue,
       Process, EndProcess, CallProcess, ProcessCommits, ProcessFails, Orphan, OrphanProcess,
       OrphanInsert, vars, storeVars
  <1>5. QED
    BY <1>1, <1>2, <1>4

LEMMA UnaskedOnce ==
  ASSUME TypeOK, EachOnce, ~Store, UNCHANGED <<request, response, taken>>,
         respNext' >= respNext \/ respNext = 0, Sent \subseteq Sent', TypeOK',
         \A tx \in TX : status'[tx] \in Result => status[tx] \in Result
  PROVE  EachOnce'
  <1>1. Asked' = Asked
    BY DEF Asked
  <1>2. respNext \in Int /\ respNext' \in Int
    BY LenProperties DEF TypeOK
  <1>3. Len(response) \in Nat
    BY LenProperties DEF TypeOK
  <1>4. ASSUME NEW tx \in TX, status'[tx] \in Result
        PROVE  \E i \in 1..Len(response) : i < respNext' /\ response[i].tx = tx
    <2>1. PICK i \in 1..Len(response) : i < respNext /\ response[i].tx = tx
      BY <1>4 DEF EachOnce
    <2>2. i < respNext'
      BY <1>2, <1>3, <2>1
    <2>3. QED
      BY <2>1, <2>2
  <1>5. QED
    BY <1>1, <1>4 DEF EachOnce

LEMMA SendOnce ==
  ASSUME Inv, Delivery, EachOnce, NEW tx \in TX, Send(tx) PROVE EachOnce'
  <1>1. /\ tx \in batch /\ request' = Append(request, tx)
        /\ Sent' = Sent \cup {tx}
        /\ UNCHANGED <<status, taken, response, respNext>>
    BY DEF Send, Sent, storeVars, stubVars, consumerVars
  <1>2. request \in Seq(TX) /\ taken \subseteq 1..Len(request)
    BY DEF Inv, TypeOK
  <1>3. tx \notin Asked
    BY <1>1 DEF Delivery, EachOnce
  <1>4. Asked' = Asked \cup {tx}
    BY <1>1, <1>2, AskedAppend
  <1>5. /\ Len(request) \in Nat /\ Len(request') = Len(request) + 1
        /\ \A i \in 1..Len(request) : request'[i] = request[i] /\ request[i] # tx
        /\ request'[Len(request) + 1] = tx
    <2>1. \A i \in 1..Len(request) : request[i] \in Asked
      BY <1>2, LenProperties DEF Asked, Range
    <2>2. QED
      BY <1>1, <1>2, <1>3, <2>1
  <1>6. \A i, j \in 1..Len(request') : request'[i] = request'[j] => i = j
    <2>1. 1..Len(request') = 1..Len(request) \cup {Len(request) + 1}
      BY <1>5
    <2>2. QED
      BY <1>5, <2>1 DEF EachOnce
  <1>7. \A i \in 1..Len(response) : \E o \in taken : request'[o] = response[i].tx
    BY <1>2, <1>5 DEF EachOnce
  <1>8. QED
    BY <1>1, <1>4, <1>6, <1>7 DEF EachOnce

LEMMA AnswerOnce ==
  ASSUME Inv, EachOnce, NEW o \in 1..Len(request), StubAnswer(o) PROVE EachOnce'
  <1>1. /\ o \notin taken /\ taken' = taken \cup {o}
        /\ UNCHANGED <<status, sentAt, sentIDs, request, respNext>>
    BY DEF StubAnswer, ToAnswer, storeVars, relayVars, consumerVars
  <1>2. PICK result \in Result : response' = Reply(o, result)
    BY DEF StubAnswer
  <1> DEFINE r == [tx |-> request[o], result |-> result]
  <1>3. r \in [tx : TX, result : Result] /\ r.tx = request[o]
    BY ElementOfSeq DEF Inv, TypeOK
  <1>4. /\ Len(response') = Len(response) + 1 /\ Len(response) \in Nat
        /\ \A i \in 1..Len(response') :
             response'[i] = IF i = Len(response) + 1 THEN r ELSE response[i]
    BY <1>2, <1>3, AnswersAppend, LenProperties DEF Inv, TypeOK, Reply
  <1>5. 1..Len(response') = 1..Len(response) \cup {Len(response) + 1}
    BY <1>4
  <1>6. \A i \in 1..Len(response) : response'[i] = response[i]
    BY <1>4, <1>5
  <1>7. response'[Len(response) + 1] = r
    BY <1>4, <1>5
  <1>8. \A i \in 1..Len(response) : response[i].tx # request[o]
    <2>1. taken \subseteq 1..Len(request)
      BY DEF Inv, TypeOK
    <2>2. QED
      BY <1>1, <2>1 DEF EachOnce
  <1>9. \A i, j \in 1..Len(response') : response'[i].tx = response'[j].tx => i = j
    BY <1>3, <1>5, <1>6, <1>7, <1>8 DEF EachOnce
  <1>10. \A i \in 1..Len(response') : \E p \in taken' : request[p] = response'[i].tx
    BY <1>1, <1>3, <1>5, <1>6, <1>7 DEF EachOnce
  <1>11. \A tx \in TX : status[tx] \in Result =>
           \E i \in 1..Len(response') : i < respNext /\ response'[i].tx = tx
    BY <1>5, <1>6 DEF EachOnce
  <1>12. Asked' = Asked /\ Sent' = Sent
    BY <1>1 DEF Asked, Sent
  <1>13. QED
    BY <1>1, <1>9, <1>10, <1>11, <1>12 DEF EachOnce

LEMMA StoreOnce ==
  ASSUME Inv, EachOnce, Store PROVE EachOnce'
  <1>1. respNext \in 1..Len(response) /\ respNext' = respNext + 1 /\ respNext \in Nat
    BY LenProperties DEF Inv, TypeOK, Store, Consuming
  <1>2. /\ UNCHANGED <<sentAt, sentIDs, request, response, taken>>
        /\ status' = [status EXCEPT ![response[respNext].tx] = response[respNext].result]
    BY DEF Store, PersistProcessResult, relayVars, stubVars, topicVars
  <1>3. ASSUME NEW tx \in TX, status'[tx] \in Result
        PROVE  \E i \in 1..Len(response) : i < respNext' /\ response[i].tx = tx
    <2>1. CASE tx = response[respNext].tx
      BY <1>1, <2>1
    <2>2. CASE tx # response[respNext].tx
      <3>1. status[tx] \in Result
        BY <1>2, <1>3, <2>2 DEF Inv, TypeOK
      <3>2. PICK i \in 1..Len(response) : i < respNext /\ response[i].tx = tx
        BY <3>1 DEF EachOnce
      <3>3. i \in Int /\ i < respNext'
        BY <1>1, <3>2
      <3>4. QED
        BY <3>2, <3>3
    <2>3. QED
      BY <2>1, <2>2
  <1>4. Asked' = Asked /\ Sent' = Sent
    BY <1>2 DEF Asked, Sent
  <1>5. QED
    BY <1>2, <1>3, <1>4 DEF EachOnce

LEMMA EachOnceStep ==
  Inv /\ Delivery /\ UntilTroubled /\ [Next]_vars => UntilTroubled'
  <1> SUFFICES ASSUME Inv, Delivery, UntilTroubled, [Next]_vars, Untroubled'
               PROVE  EachOnce'
    BY DEF UntilTroubled
  <1>1. Untroubled /\ EachOnce /\ TypeOK /\ TypeOK'
    BY TroubleLasts, TypeStep DEF Inv, UntilTroubled
  <1>2. ~Fault /\ ~ServerCrash /\ ~StubCrash
    BY <1>1 DEF Untroubled, Fault, ServerCrash, StubCrash
  <1>3. ASSUME ~Store, UNCHANGED <<request, response, taken>>,
               respNext' = respNext \/ respNext = 0, Sent \subseteq Sent'
        PROVE  EachOnce'
    <2>1. \A tx \in TX : status'[tx] \in Result => status[tx] \in Result
      BY <1>3, OthersKeepResults
    <2>2. respNext \in Int
      BY <1>1, LenProperties DEF TypeOK
    <2>3. respNext' >= respNext \/ respNext = 0
      BY <1>3, <2>2
    <2>4. QED
      BY <1>1, <1>3, <2>1, <2>3, UnaskedOnce
  <1>4. CASE Store
    BY <1>1, <1>4, StoreOnce
  <1>5. ASSUME NEW tx \in TX, Send(tx) PROVE EachOnce'
    BY <1>1, <1>5, SendOnce
  <1>6. ASSUME NEW o \in 1..Len(request), StubAnswer(o) PROVE EachOnce'
    BY <1>1, <1>6, AnswerOnce
  <1>7. ASSUME ~Store, \A tx \in TX : ~Send(tx),
               \A o \in 1..Len(request) : ~StubAnswer(o)
        PROVE  EachOnce'
    <2>1. sentIDs \subseteq outbox
      BY DEF Inv, Trail
    <2>2. /\ UNCHANGED <<request, response, taken>>
          /\ respNext' = respNext \/ respNext = 0
      BY <1>2, <1>7 DEF Next, Boot, StartUp, Start, Load, LoadFails, Recover, Serve, Relay,
         Fetch, SendFails, Mark, MarkFails, Stub, StubAnswerFails, StubCommit,
         Consume, Join, StoreFails, Flush, Crashes, Handle, Insert, CallInsert, InsertCommits,
         InsertRefused, InsertFails, Enqueue, Process, EndProcess, CallProcess, ProcessCommits,
         ProcessFails, Orphan, OrphanProcess, OrphanInsert, vars, stubVars,
         consumerVars, topicVars
    <2>3. Sent \subseteq Sent'
      <3>1. CASE Mark
        BY <2>1, <3>1 DEF Mark, MarkSent, Sent
      <3>2. CASE ~Mark
        <4>1. UNCHANGED <<sentAt, sentIDs>>
          BY <1>2, <1>7, <3>2 DEF Next, Boot, StartUp, Start, Load, LoadFails, Recover, Serve,
             Relay, Fetch, SendFails, MarkFails, Stub, StubAnswerFails, StubCommit,
             Consume, Join, StoreFails, Flush, Crashes, Handle, Insert, CallInsert,
             InsertCommits, InsertRefused, InsertFails, Enqueue, InsertTX, Process, EndProcess,
             CallProcess, ProcessCommits, ProcessFails, Orphan, OrphanProcess,
             OrphanInsert, ProcessTX, vars, storeVars, relayVars
        <4>2. QED
          BY <4>1 DEF Sent
      <3>3. QED
        BY <3>1, <3>2
    <2>4. QED
      BY <1>3, <1>7, <2>2, <2>3
  <1>8. QED
    BY <1>4, <1>5, <1>6, <1>7

(* completed and failed are final as long as no call fails and nothing crashes,
   however relay, stub and consumer interleave (README.md:114, 140). *)
THEOREM FinalUntilTrouble == Spec => FinalWhileUntroubled
  <1> DEFINE Final == \A tx \in TX :
                        Untroubled /\ status[tx] \in Result => status'[tx] = status[tx]
  <1>1. Init => UntilTroubled
    <2> SUFFICES ASSUME Init PROVE EachOnce
      BY DEF UntilTroubled
    <2>1. Asked = {}
      BY DEF Init, Asked, Range
    <2>2. QED
      BY <2>1 DEF Init, StoreInit, EachOnce, Result
  <1>2. Inv /\ UntilTroubled /\ [Next]_vars => [Final]_vars
    <2> SUFFICES ASSUME Inv, UntilTroubled, [Next]_vars, NEW tx \in TX,
                        Untroubled, status[tx] \in Result
                 PROVE  status'[tx] = status[tx]
      OBVIOUS
    <2>1. CASE ~Store
      BY <2>1, OthersKeepResults
    <2>2. CASE Store
      <3>1. respNext \in 1..Len(response)
        BY <2>2, LenProperties DEF Inv, TypeOK, Store, Consuming
      <3>2. PICK i \in 1..Len(response) : i < respNext /\ response[i].tx = tx
        BY DEF UntilTroubled, EachOnce
      <3>3. response[respNext].tx # tx
        BY <3>1, <3>2 DEF UntilTroubled, EachOnce
      <3>4. QED
        BY <2>2, <3>3 DEF Store, PersistProcessResult, Inv, TypeOK
    <2>3. QED
      BY <2>1, <2>2
  <1>3. QED
    BY <1>1, <1>2, EachOnceStep, DeliveryInit, DeliveryStep, InvAlways, PTL
       DEF Spec, FinalWhileUntroubled
=============================================================================
