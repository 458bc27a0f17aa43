# The payment service in TLA+

Specifications of the payment service of this repository (CBTraining), checked
with TLC on small instances and proved with TLAPS for every instance. Paths are
relative to `src/`; `PROJECT.json` maps each definition to the lines it stands
for, each property to the run that checks it and to the change of the code that
breaks it.

## 1. The system

| Component | State | Operations | Talks to |
|---|---|---|---|
| HTTP handlers, router (`adapters/primary/http`) | none | `CreatePayment`, `GetPaymentInfo` | payment commands, audit |
| Payment commands (`core/PaymentManagerService.go`) | none of its own | `PaymentCMD`, `PandingRecovery`, `StorePaymentResult` | store, queue manager |
| Queue manager (same file, `core/entity/dispather.go`, `paymentGroup.go`) | `IbanToGroup`, `Semaphore`, the groups' channels, contexts, flags and WaitGroups; in memory only | `add`, `runWorker`, the goroutine of `NewGroup`, `Shutdown` | calls `ProcessTX` |
| Payment store (`adapters/secondary/postgres/peymentRepo.go`, `migrations`) | `tx_history`, `pending`, two registries | `InsertTX`, `LoadPendingPayments`, `ProcessTX`, `PersistProcessResult` | Postgres |
| Outbox and relay (`adapters/secondary/outbox`, `kafka/producer.go`) | `outbox` | `FetchUnsent`, send, `MarkSent`, on a timer | request topic |
| Processing stub (`ProcessService/main.go`) | its committed offset | fetch, sleep, draw a result, write, commit | both topics |
| Result consumer (`adapters/primary/kafka/consumer.go`) | its committed offset | fetch, store, commit | response topic, payment commands |
| `cmd/server/main.go`, `config` | environment, root context, pool, HTTP server | start, recovery, shutdown | everything |
| Audit (`core/PaymentAuditService.go`, `paymentAuditRepo.go`) | none | `GetTXByID` and the answer made of it | store |
| Entities, value objects (`core/entity`, `core/valObj`) | none | checks and conversions of every field | |
| Logger, migration tool, load generator, tests, documents | none | | |

A payment is inserted (`tx_history` and `pending`), handed to `add`, which
routes it to the *group* of its two accounts; the group's one worker calls
`ProcessTX`, which moves it from `pending` to `outbox`; the relay sends it to the
request topic; the stub answers in the response topic; the consumer writes the
result into `tx_history`. After a restart everything still in `pending` is added
again before the HTTP server listens.

**What is hard.** Many calls of `add`, the workers, and the goroutine each group
starts to wait for its WaitGroup run concurrently; `add` gives up its mutex to
wait for a slot and to wait for a merge, and sends after its last unlock. The
pipeline delivers at least once, its memory is lost at a crash, single calls
fail while their effect stands, transactions of a dead server commit late,
offsets are flushed on a timer, and the stub's goroutines commit in any order.
`InsertTX` builds on parties and accounts other calls register at the same time. The
shutdown has a timeout, after which requests run on beside it.

**What makes it correct.** Queue manager: payments that share an account are
processed one at a time; every accepted payment is handed over once; slots and
counters are exact; calls, merges, workers and shutdown come to an end. Store:
the three tables agree. Relay: nothing is marked that was not sent. Recovery:
nothing is forgotten. Whole: a payment is accepted once per end-to-end
identification, goes forward only, and gets no result the processing system did
not give. Record: what is sent and what is answered says what was asked, also after
a recovery from rows of other calls. Process: it starts and stops in every
environment that lets it run, and a confirmed payment survives both.

## 2. Modules

| Module | Models |
|---|---|
| `Dispatcher` | the queue manager, one action per section of the code between two blocking points |
| `DispatcherOrder` | the same, with a history of which call followed which |
| `MCDispatcher`, `MCOrder` | chain, ring and star of payments, for TLC |
| `PaymentQueue` | abstract: what the queue manager makes of the payments sent to it |
| `SerialQueue` | abstract: the same if they all share an account, one bounded line |
| `DispatcherProofs` | invariants of `Dispatcher`, for all constants |
| `DispatcherQueueProofs` | where the payments are, and what holds if they share an account |
| `ManagerProofs` | `Dispatcher` implements `PaymentQueue`, and `SerialQueue` if the payments share an account |
| `OrderProofs` | the order of payments of one account |
| `PaymentLifecycle` | abstract: what the service promises of every payment |
| `PaymentStore` | the tables, one operator per SQL transaction |
| `PaymentFields` | what the fields of a payment become between request, entity, record, columns, order and answer; pure operators |
| `AccountRegistry` | concurrent calls of `InsertTX`, statement by statement, and what the joins find in the registries; implements the one step of `PaymentStore` |
| `PaymentRecord` | composes the two with request, worker, result, query, crash and recovery |
| `MCRegistry`, `RegistryProofs`, `RecordProofs` | five calls for TLC; invariants for all constants |
| `ServerLifecycle` | the process from its environment to its exit, and again; composes `PaymentStore` |
| `MCServer`, `ServerProofs` | two payments and nine environments for TLC; invariants for all constants |
| `PaymentPipeline` | server, relay, topics, stub, consumer, crashes; composes `PaymentStore` |
| `MCPipeline` | one payment, or one instruction sent twice, for TLC |
| `PipelineProofs` | invariants of `PaymentPipeline` and its refinement of `PaymentLifecycle` |

### Dispatcher

| Code | Model |
|---|---|
| place of a call in `add`, locals `g`, `gB`, `pending` | `pc`, `target`, `source`, `carry` |
| `Mu` held over the blocking drain | `mu` |
| `IbanToGroup`, `Semaphore`, `RootCtx`, `Wg` of the dispatcher | `ibanToGroup`, `semaphore`, `rootDone`, `dWg` |
| `Ch`, `GrCtx`, `Merging`, `DrainReady`, `Wg` of a group | `ch`, `cancelled`, `merging`, `drainReady`, `wg` |
| the goroutine in `NewGroup` | `waiter` |
| `runWorker`, its `tx`, the answer of `ProcessTX` | `worker`, `hand`, `fate` |

A group is named by the payment whose call created it, which a call does at most
once. A section under `Mu` that does not block is one action: nobody else can see
its middle. Where the code blocks under `Mu` (`gA.Ch <- pending`, line 184), `mu`
stays held and every channel operation is an action. A `select` with several
ready cases is a choice. `root` and `stolen` are history variables: into which
group a group was merged, and which accounts the re-check (lines 117-130) took
away from a group that was not merged.

Steps taken as one: the return of `ProcessTX` with `g.Wg.Done()`; the return of
`Wait` with `workerCancelSig()`; the worker's two deferred calls. A goroutine that is slow between the two acts as one that is slow before or
after both: a context cancelled late is one the worker notices late, and a slot
given back before the dispatcher's counter goes down only lets `Shutdown` wait a
little longer (`SlotsExact` speaks of the states before and after the pair). A WaitGroup whose counter goes negative, or which is
used again before its `Wait` has returned, panics; a panic in a worker or in the
goroutine of `NewGroup` ends the process, and `Next` with it. The runtime also
panics if it catches an `Add` in the few instructions in which a `Wait` is being
registered; that window is not modelled. After `Shutdown` returned the model goes
on until nothing can move, as the goroutines do until the process exits.

`PaymentQueue` knows no groups: a payment is in `queue` (any channel, or the one a
drain carries), in `inflight` (any worker's hands), `processed` or `failed`. `SerialQueue`
adds the `line` and its capacity. Three things the README says of the queue manager are
left out of `PaymentQueue` because the code does not do them, and each is the subject of a
finding instead: one payment of an account at a time (`merge_overlap`; true, and in
`SerialQueue`, where all share one), every payment handed over in the end
(`lost_payment`: what is lost stays in `queue`), and the payments at hand completed
before the service stops (`shutdown_fails`: after the cancellation they may end in
`failed` with nothing wrong but the shutdown).

`DispatcherOrder` adds `earlier`: the pairs of payments of which the second's call
took `Mu` when the first had been accepted. Calls that overlap are not ordered:
`add` gives up `Mu` before it sends, so which of them sends first is open.

### PaymentPipeline

| Code | Model |
|---|---|
| `main` from start to listening | `server`: down, starting, recovering, serving |
| a call of `PaymentCMD` | `handler` |
| recovery's records, the queue manager, calls of `ProcessTX` | `loaded`, `queue`, `inflight` |
| the relay's batch and `sentIDs` | `batch`, `sentIDs` |
| the two topics | `request`, `response` (append-only sequences) |
| the stub: offsets fetched, written, committed | `taken`, `answered`, `stubCommitted` |
| the consumer: next offset, offset noted, offset committed | `respNext`, `stash`, `respCommitted` |
| transactions of a dead server | `orphans`, `handler = "orphan"` |

Failures are actions of their own: a database call that returns an error may have
committed or not, a Kafka write that returns an error may be in the topic or not.
`dropped` is a history variable: payments the *running* server no longer has in
its hands because a call failed, or because a commit of the server before it came
too late for its recovery. The next start finds them.
`faults`, `crashes` and `stubCrashes` count the failures: the runs bound each and (`MaxTroubles`)
their sum, and how often a payment is sent or executed again is stated in them.

Abstractions. The queue manager is a set here; that it hands over only what it was
given, and once, is `PaymentQueue`, which `Dispatcher` implements. That it need not
hand over at all is the subject of the findings `lost_payment` and `merge_stuck`, so
nothing here assumes that it does: neither `Enqueue` and `Recover`, which are `add`, nor
`CallProcess`, which is the worker's receive, is fair. One server, as in `docker-compose.yml`. Each topic is one log, though that
file gives it three partitions: what partitions add is another order of reading, and
the stub, which answers in any order, already gives every order of answers.
`ORDER BY created_at` is left open, which allows more batches than the code.
`FetchMessage`, `StorePaymentResult` and `CommitMessages` are one step (`Store`):
the commit only notes the offset, and a crash between them is a crash before or
after the step plus the flush that did not happen. Fetching of the stub is merged
with its answer; a crash between them leaves what a crash before both leaves. A
graceful stop is a `Flush` followed by a crash: it loses the queue too. A late
`MarkSent` or `PersistProcessResult` of a dead server is not modelled. Postgres,
Kafka and kafka-go are not in `src/`; their part is modelled as `src/` uses it.

### PaymentFields, AccountRegistry, PaymentRecord

A text is known by what it says, its length in bytes (as Go counts) and in
characters (as Postgres counts), and its alphabet: that is what the checks of
`core/valObj` and the columns tell apart. An amount is a number of *grains*,
fine enough for the rounding of `NUMERIC(20,5)` to show; a request may leave it out
(`given`), as any other field, and is refused with 400.

`at` is the statement a call of `InsertTX` executes next: the four upserts of
parties and accounts, the rows of `tx_history` and `pending`, the commit. `row`
says for every key which call inserted its row; what the row says is what that
call's request said. A row of a transaction that is still open is invisible, but
an `INSERT` of the same key waits for its end; if calls wait for each other in a
circle, Postgres aborts one (`Aborted`), which rolls back as every error does
(`Refused` by the unique end-to-end identification, `Unfit` for a column,
`Fails`). `Loaded` is what the joins of `LoadPendingPayments` and `GetTXByID`
return: the columns of `tx_history`, and both ends as whoever registered the
account, and the party the account names, said they were. The primary keys of `tx_history` and
`pending` never conflict, the service draws the identifier itself.

| Code | `PaymentRecord` |
|---|---|
| the HTTP status of `CreatePayment` | `code` |
| calls of `InsertTX` of the live server | `mine` |
| the entity in the queue manager: the request's, or one recovery made | `memory` |
| `tx_history.status` | `status` |
| the payload of the event | `outbox` |
| `GetPaymentInfo` to `GetTXByID` | `Reading`, an operator: it may be asked in every state |

The queue manager and the topics are left out here: an entity in memory is
executed or lost, and a result comes for what is in the outbox. `Crash` takes
`memory` and `mine`; what the dead server left open is rolled back, unless its
`COMMIT` was sent.

`PaymentPipeline` takes `InsertTX` as one step and its registries for granted;
`InsertIsAtomic` and `PendingComesBack` are what entitles it to.

### ServerLifecycle

| Code | Model |
|---|---|
| the variables of `config.Load` that decide whether anything runs | `env` (a setting is the set of the numbers its text stands for) |
| place of `main`, `httpSrv`, error of its `Shutdown`, root context, `dbPool`, what recovery has to do | `app` (`at`, `http`, `timedOut`, `cancelled`, `pool`, `todo`) |
| `PaymentCMD`, or `add` for recovery, of every payment | `call` |
| workers | `running` |
| the outbox worker | `relay` |
| clients that got 201 | `told` |

`app.at` follows `main` line by line: settings, pool, wiring, the goroutine of
the outbox worker, recovery, the goroutine of `ListenAndServe`, `signal.Notify`,
the signal, `Shutdown` of the HTTP server with its timeout, `cancel`,
`Shutdown` of the service, the deferred closing of the pool, the return. A panic in any
goroutine ends the process, and `Kill` ends it anywhere. Every payment has a group and
a worker of its own here; what groups do to each other is in `Dispatcher`. There `add`
may wait for ever, for the end of a merge or on a channel without a worker, and keep `Mu`
meanwhile. So the payments that share an account (`env.shared`) are given no fairness:
their `add`, and while one of them is in it that of any other, may never go on. The result consumer and commits that come late are in `PaymentPipeline`.

## 3. Runs

Each machine has one type invariant (`TypeOK`, `RTypeOK`, `STypeOK`; `RTypeOK`
includes the registries'). All
configurations say `CHECK_DEADLOCK FALSE`: there are finitely many payments, and
when all are answered (or the process has panicked, or had its last start)
nothing is left to do.

| Run | Instance | Shows |
|---|---|---|
| `dispatcher_chain` | payments a→b, b→c, c→d; 3 slots, buffer 1; failures, shutdown | `SlotsExact`, `ParallelOnlyByMergeOrSteal`, `HeldOnce`, `DrainAlone`, `OvertakenOnlyInMerge`; `QueueKept` |
| `dispatcher_star` | three payments sharing one account, 2 slots, buffer 2; failures, shutdown | `SerialPerAccount`, `WgAccountsForGroup`; `OneLineKept`; `AddsReturn`, `ShutdownCompletes`, `WorkersExit` |
| `pipeline` | one instruction sent twice; any two of a failed call, a server crash and a stub crash | `TablesAgree`, `SentIsInTopic`, `NoneForgotten`, `RepeatedOnlyForFailures`; `FinalWhileUntroubled`, `KeepsPromises`, `PendingIsAsked` |
| `registry` | five requests: a→b, b→a with other banks, the first once more, one too long for a column, one that does not pass; a failure, crashes | `NoTrace`, `PendingComesBack`, `NoStandstill`, `RegistrationStays`, `InsertIsAtomic`, `EveryCallEnds`; `SentAsAsked`, `ConfirmedIsFound`, `AnswersAgree` |
| `server` | two payments, two starts in nine environments; kills, timeouts | `RefusedOnlyAfterTimeout`, `NoWorkerWithoutPool`, `RecoveryMeetsNoRequest`, `ConfirmedSurvives`; `StartEnds`, `StopEnds`, `OutboxDrains` |
| `wg_negative` | star | finding: `g.Wg.Add(1)` comes after the send |
| `lost_payment` | star | finding: a payment sent to a group without a worker |
| `merge_overlap` | ring of four | finding: an account processed twice at once during a merge |
| `merge_stuck` | chain | finding: a merge that waits for ever |
| `shutdown_fails` | star, no failed call | finding: a shutdown fails payments that are in flight |
| `answer_lost` | one payment, no fault | finding: `kafka.LastOffset` loses the first results |
| `result_flips` | one payment, one failed call | finding: a second result replaces the first |

**Bounds of the dispatcher.** A merge needs two groups and a payment that joins
them, hence a chain of three; a payment that meets a merge *in progress* on an account
of its own needs a fourth that closes the ring. Payments sharing an account
form one group from the first on, so the star isolates what is right without merges
(serial processing, exact counters) from what merges break. The buffer (a constant of
`core/consts/consts.go`) is 1 in the chain, so that two payments fill a channel, and 2
in the star, so that two can stand in it and their order shows; the chain's three
slots let every call have a group, the star's two make calls wait for one.

**Bounds of the pipeline.** Payments meet only in the relay's batch and in the
uniqueness of the end-to-end identification, which the two of `pipeline` share, so that
only one of them ever gets past its insert. Duplicates, repeated recovery, late
commits and lost offsets concern one payment at a time. Every pair of different failures
occurs in every order (`MaxTroubles` 2): a failed call and a crash after it, a crash of
each side. Three at a time are left to the proofs, which hold for every number of
payments, every batch size and every bound on failures and crashes; so are batches of more than one event,
which the run does not have.

**Bounds of the registry.** A call waits for at most one other, so a circle of
two (opposite directions) has every kind of waiting. Those two name different banks for
the same accounts, so that each may find what the other registered; the
third shares the end-to-end identification of the first and has a country of one
character in two bytes. `After` lets it, the one that does not fit and the one
that is refused arrive when the others are over: what they add is what they do
and leave, not more waiting. Only the first is followed beyond its insert (`Followed`) and
only its statements fail while the server lives (`Breaking`); crashes hit all,
and their number is not bounded. The proofs hold for any requests and any three bounds.

**Bounds of the server.** Recovery needs a start that follows another, so there
are two; one slot and two payments make one wait. The environments differ from
the default in one thing each: a variable missing, one slot, none, a negative number of
slots, a batch of none, an interval of none, one payment or both with accounts in common
with another.

**Fairness.** Weak fairness for every goroutine, `ProcessTX` returning, the
database and Kafka answering, and the operator starting a dead server again
(`docker-compose.yml` lets Docker restart the stub, not the server). Strong fairness
for taking a slot and for the channel send: the goroutines blocked on a Go
channel are queued first in, first out, so one for whom room appears again and
again gets it. In `PaymentRecord` the database ends every statement and every
transaction of a dead server. In `PaymentPipeline` the queue manager is not fair, as said
above: `PendingIsAsked` is therefore about a payment that is not held back for ever
(`HeldBack`), and says that the queue manager and a server that lost it are the only
places where it can be. In `ServerLifecycle` weak fairness for `main`,
`ListenAndServe`, the outbox worker, and each payment's call and worker, which is the Go
scheduler's, but not for an `add` that may be blocked (`Unblocked`): `StartEnds` asks that
no payment in recovery shares an account and that there is a slot, and `StopEnds` needs
neither. Nothing must crash, fail, be sent by a client, or be shut down, a
killed server need not be started again there, and no flush of an offset has to
happen in time.

## 4. Findings

Each run named above as a finding ends in a behaviour of the code that a comment, a test or
the README excludes; `PROJECT.json` quotes the line. In short:

1. `add` sends, then counts: a quick worker's `Done` makes the counter negative.
   Counting before the send removes it (a merge must then move the count too).
2. `Wait` in `NewGroup` returns as soon as the counter is zero — even before the
   first payment — and ends a worker whose group is still in `IbanToGroup`.
3. During a merge the keys already lead to the new group while the old worker
   finishes its payment; `RecheckJoins` can also turn one account of a live group
   to another group without any merge.
4. `DrainReady` is closed only by a worker that sees `Merging`; one that left
   earlier never closes it.
5. The consumer starts at the end of the response topic while its group has no
   committed offset.
6. `PersistProcessResult` writes whatever arrives last.
7. The workers process with the root context, which the shutdown cancels before it
   waits for them: a call in progress is cut short, and what is drained afterwards
   fails and waits for the next start.

Read in the code and not made a run:

- A call between its slot and its re-check starts a worker after the
  cancellation, perhaps after `Shutdown` returned and the pool is closed.
- The drain blocks every `add` while `gA.Ch` is full. The merged payments are not
  counted in the new group.
- During a merge a payment may be overtaken by one that came after it
  (`paymentGroup.go` 16 promises FIFO); and calls that overlap may send in
  either order.
- The deferred calls run in the reverse of the order of `README.md` 234-240.
- `kafka.NewWriter` is used with its default balancer, which does not keep a key
  in one partition as `README.md` 197 says; `OUTBOX_WORKERS` is read and not used.
- `MAX_WORKERS=0` keeps `main` in its recovery if a payment is pending, a
  negative number panics; `OUTBOX_INTERVAL=0` panics in the outbox worker,
  `OUTBOX_BATCH_SIZE=0` lets it fetch nothing. If the address is taken, the
  process lives on without HTTP.
- A payment that does not exist is answered with 500; `handlers.go` 57 says 404.
- A worker that has the request's entity sends its amount as it was given, one
  that has a recovered entity sends it rounded to five decimals.
- A country code of one character and two bytes is accepted and stored, comes back
  from its `CHAR(2)` column with a blank, and is then refused as three bytes
  long, so that recovery skips every payment of that party (`README.md` 116 promises
  all pending payments; `PendingComesBack` leaves such requests out).

## 5. Proofs

TLAPS proves the following for every set of payments (finite in `Dispatcher`, and
where a theorem says so) and accounts, and every capacity, batch size, number of faults
and crashes. Assumed are only the named `ASSUME`s on constants, which TLC evaluates on its instances.

`DispatcherProofs`, in five arguments of which the later use the earlier:

- *Types.* `Typed` = `TypeOK` and `Bound`: a call that is routed has its target, a
  merging one both groups. `TypeOK` alone is not inductive, because a send
  needs to know that its target is a group. → `TypeCorrect`.
- *Merges.* `MergedUnreferenced` needs that a group not created yet is referenced
  by nothing (`NotCreated`) and that the history `root` agrees with the marks
  (`MergerRoots`). → `MergedStaysUnreferenced`.
- *The drain.* `DrainHolds`: only a drain holds `Mu` across steps, and
  `DrainReady` is closed only by a worker that left. → `DrainIsAlone`.
- *Routing.* `Routing`: wherever a payment is held — in a channel, in hand, in a
  call on its way, in a drain — its unstolen accounts lead to the root of that
  group. Two overlapping workers therefore have the same root, so one of
  them is merged. → `ParallelNoThirdWay`.
- *Slots.* Each action changes the sets of live workers and of calls before
  their re-check by at most one element, as it changes the semaphore. →
  `SlotsStayExact`.

`PipelineProofs`:

- `Inv` = `TypeOK`, `TablesAgree`, `Registered` (what holds a payment after its
  insert holds a recorded one) and `Trail` (a payment passes outbox, relay and
  topics in that order, skipping none). `TablesAgree` alone is not inductive: a
  `ProcessTX` of a payment without a row would put it into `outbox` only.
  → `PipelineTypeCorrect`, `TablesAlwaysAgree`, `SentReachedTopic`.
- `Care` = `Phases` and `Attended`: in every phase of the server, who answers for
  a pending payment. → `RecoveryForgetsNone`.
- *Implementation.* From `Inv`, each step maps to one step of `PaymentLifecycle`
  or leaves its variables alone (`asked` and `answers` are read off the two
  topics). → `PipelineKeepsPromises`; and from the abstract steps → `NeverStepsBack`
  and `PromisesMean` (what the promises come to in a state: one payment per
  instruction, no result that was not given).
- *How often.* `Delivery`: what waits in a batch is not counted as sent, and of the
  copies in the request topic one is the payment's own and every other is paid for
  by a failed call or a crash. `Drawn`: a result for every
  copy in every earlier life of the stub, and in this one for every copy it has
  taken; so no more than copies times lives. → `RepeatsArePaidFor`.
- *Results.* `EachOnce`, as long as nothing has failed: nothing is in a topic twice,
  and a result is a status only if the consumer is past it, so the next thing it
  stores concerns another payment. → `FinalUntilTrouble`. This is the other half of
  the finding `result_flips`: it needs a failed call or a crash, and one is enough.

`RegistryProofs`: `Inv` = `TypeOK`, `NoTrace` and `Progress`, which says that the
statements behind a call are `Settled`: their rows are there, inserted by the
call itself or by one that has committed, so that no rollback can take them
away. → `RegistryTypeCorrect`, `NothingLeftBehind`, `RegistrationNeverChanges`;
following the joins through committed rows only, and what `Char` does to a text
that passed → `EveryPendingComesBack`; two committed payments cannot own one
`history` row → `InsertIsOneStep`. `SomebodyCanAlwaysStep` is the safe half of
`EveryCallEnds`, for a finite set of calls: among the calls that run one can go on. It
needs `OwnRows`: whose row it is has that key behind it. So a call that can do
nothing waits for *another* that *runs*; if no running call could go on, all would
wait for each other, and the smallest set of them that waits for nobody outside is a
circle, which the database breaks.

`DispatcherQueueProofs` adds to the types `Hold`: a worker has a payment in its
hands exactly while `ProcessTX` runs (`HandTold`), no payment is in two places
(`Apart`), and one is somewhere exactly if it is sent and not answered (`Kept`). The
last two need each other: that a payment is appended only once follows because
one not sent is nowhere. → `PaymentsAreHeldOnce`. The other two theorems assume
`SharedBy(hub)`: all payments have the account `hub`. Then whatever account leads to
a group, `hub` leads there too (`OneGroup`), nothing is merged and nothing
stolen, so `ParallelNoThirdWay` leaves no overlap → `SharedAccountIsSerial`; and a
group's counter follows its channel → `SharedAccountIsCounted`. Without the
assumption both are false (`merge_overlap`; a merge moves payments and no counts).

`ManagerProofs` is the refinement of the two abstract queues. What `PaymentsMove`
shows is all that any action does to payments: nothing, or one enters a channel, leaves
one, or is answered. What enters is held nowhere yet (`Hold`) and what leaves
is in nobody's hands, so these are `Put`, `Start` and `Succeed` or `Fail`; a step of a
drain moves a payment inside `queue`. A worker with empty hands has a slot of its own:
the payments in other hands inject into the other live workers, of which there
are fewer than `MaxWorkers` (`SlotsExact`). → `ManagerKeepsQueue`. Under `SharedBy`
only the group `hub` leads to holds anything, so its channel is the line, and nothing
drains. → `SharedAccountIsOneLine`.

`OrderProofs`: a payment is away from the group it was routed to only if that was
merged (`Placed`, from `Hold`). Of two payments of which the second's call
followed the first's acceptance, on a shared account that was not stolen, the first is
handed over, or its group merged away, or the second is routed to the same group
(by `Routing`) and stands behind the first in its channel or is not yet there
(`InLine`); the last is kept by every append and every receive. → `OrderIsKept`.
Under `SharedBy` the excuses fall away → `SharedAccountKeepsOrder`.

`RecordProofs`: the rows behind a payment change by steps of `AccountRegistry`
only, so its `Inv` holds here; with `Held` (an entity in memory has the accounts,
amount and currency of its request, also if it was made of rows others wrote:
the joins go by the payment's own account numbers), and `StatusTells` (nothing is held, sent,
confirmed or answered that is not inserted) it is inductive. → `RecordTypeCorrect`,
`OrderSaysWhatWasAsked`, `ConfirmedStaysFound`. Committed rows stay (`RowsStay`), and the
joins of a payment that was found go through committed rows only → `AnswersAlwaysAgree`. That its
steps are the registry's is a theorem of its own (`RecordOnlyCallsInsert`), through
which the registry's results carry over, also to calls whose server has gone
(`SomebodyCanStepAfterACrash`). An amount is sent as given or rounded, and rounding moves
it by half a decimal of the column at most → `MovedIsCloseToAsked`.

`ServerProofs`: `SInv` = `STypeOK`, `Phases` (the place of `main` tells what else can
be going on), `NoneActive` (after an HTTP shutdown in time no call is under way),
`OnItsWay` (a payment in `add` is in the tables) and the four properties, which
are not inductive without them. → `ServerTypeCorrect`, `RefusalNeedsTimeout`,
`WorkersKeepTheirPool`, `RecoveryIsAlone`, `ConfirmedAlwaysSurvives`.

Only model-checked: the liveness properties (`WorkersExit`, `AddsReturn`,
`ShutdownCompletes`, `PendingIsAsked`, `EveryCallEnds`, `StartEnds`, `StopEnds`,
`OutboxDrains`), since liveness under fairness is out of the prover's reach. Every
invariant, every action property and every implementation of the passing runs is
proved, three of them under `SharedBy`. Some theorems state what no run checks, because a
checked property implies it (`NeverStepsBack`, `PromisesMean`, `SharedAccountKeepsOrder`,
`MovedIsCloseToAsked`) or rests on it (`MergedStaysUnreferenced`).

## 6. Not modelled

- The logger (output only), the migration tool (applies the SQL files and exits),
  the load generator (a client used by hand), the tests' helpers (mocks; what the
  tests claim is stated as properties), the deployment and Swagger documents.
- Of the ports the interfaces, of the configuration the addresses, names and
  durations that change nothing of the above.
- Payloads in the topics that do not parse: both sides are in this repository and
  write what the other reads.
- Partitions, for the reason given under `PaymentPipeline`; the result consumer and
  late commits in `ServerLifecycle`.

## 7. Plan

1. `PaymentPipeline` with partitions: a start offset and a committed offset for
   each of them, and the balancer's choice for every message.
2. The result consumer in `ServerLifecycle`: `kafkaReader` is closed before the
   context of its loop is cancelled.
