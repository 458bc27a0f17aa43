---------------------------- MODULE ServerLifecycle ----------------------------
(***************************************************************************)
(* The process of cmd/server from its environment to its exit, and again:  *)
(* what main starts and stops in which order, and what the goroutines      *)
(* beside it do meanwhile (HTTP handlers, workers, the outbox worker).     *)
(*                                                                         *)
(* Every payment has a group and a worker of its own.  What groups do to   *)
(* each other is in Dispatcher; of it there remains that add of a payment  *)
(* that shares an account with another (env.shared) may wait for ever, for *)
(* DrainReady or for room in a channel, and then with Mu in its hands.     *)
(* What becomes of a payment behind the outbox, result consumer included,  *)
(* is in PaymentPipeline.  A killed process leaves no transaction behind   *)
(* that commits later (there it may).                                      *)
(*                                                                         *)
(* External to src/: net/http's Shutdown, pgxpool's Close, signals.        *)
(***************************************************************************)
EXTENDS PaymentStore, Integers

CONSTANTS
  Environments,   \* what the environment variables may say, and which payments
                  \* have an account in common with another one (shared)
  MaxLives        \* bound: starts of the process

(* A setting is the set of the numbers its text stands for: none if the
   variable is unset or is not a number. *)
IsSetting(s) == \A n \in s : n \in Int /\ s = {n}
ASSUME EnvironmentAssumption ==
  /\ \A e \in Environments :
       /\ e.required \in BOOLEAN /\ e.shared \subseteq TX
       /\ IsSetting(e.workers) /\ IsSetting(e.batch) /\ IsSetting(e.interval)
  /\ MaxLives \in Nat \ {0}

VARIABLES
  env,      \* the environment of the process
  lives,    \* starts so far
  app,      \* main: where it stands (at), its HTTP server, whether the server's
            \* Shutdown gave up on handlers (timedOut), the root context
            \* (cancelled), the connection pool, what recovery still has to do
  call,     \* how far PaymentCMD, or add for recovery, is with every payment
  running,  \* payments whose group has a worker
  relay,    \* the outbox worker: where it stands, its events, those it has sent
  told      \* payments whose client got 201

processVars == <<app, call, running, relay>>
svars == <<storeVars, env, lives, told, processVars>>

-----------------------------------------------------------------------------
(* config.Load *)

getInt(s, fallback) == IF s = {} THEN fallback ELSE CHOOSE n \in s : TRUE

(* mutant: the default is forgotten *)
MaxWorkersZero == getInt(env.workers, 0)
MaxWorkers == getInt(env.workers, 5)
BatchSize == getInt(env.batch, 10)
Interval == getInt(env.interval, 5)

Fresh ==
  [app |-> [at |-> "load", http |-> "off", timedOut |-> FALSE, cancelled |-> FALSE,
            pool |-> "none", todo |-> {}],
   call |-> [tx \in TX |-> "none"],
   relay |-> [at |-> "off", batch |-> {}, sent |-> {}]]

SInit ==
  /\ StoreInit
  /\ env \in Environments /\ lives = 1 /\ told = {}
  /\ app = Fresh.app /\ call = Fresh.call /\ running = {} /\ relay = Fresh.relay

(* The process is over, and everything in it. *)
Ends(how) ==
  /\ app' = [Fresh.app EXCEPT !.at = how]
  /\ call' = Fresh.call /\ running' = {} /\ relay' = Fresh.relay
  /\ UNCHANGED <<storeVars, env, lives, told>>
Over == app.at \in {"exited", "failed", "panicked", "killed"}

(* A SIGKILL at any moment, and any signal before main asks for signals. *)
Kill == ~Over /\ Ends("killed")
Restart ==
  /\ Over /\ lives < MaxLives
  /\ lives' = lives + 1 /\ app' = Fresh.app
  /\ UNCHANGED <<storeVars, env, told, call, running, relay>>

-----------------------------------------------------------------------------
(* main, up to the signal *)

MainOnly == UNCHANGED <<storeVars, env, lives, told, call, running, relay>>

(* requireEnv panics. *)
Load ==
  /\ app.at = "load"
  /\ \/ env.required /\ app' = [app EXCEPT !.at = "connect"] /\ MainOnly
     \/ ~env.required /\ Ends("panicked")

(* pgxpool.New and Ping *)
Connect ==
  /\ app.at = "connect"
  /\ \/ app' = [app EXCEPT !.at = "build", !.pool = "open"] /\ MainOnly
     \/ Ends("failed")

(* NewDispatcher makes a channel of MaxWorkers slots; a negative size panics. *)
Build ==
  /\ app.at = "build"
  /\ \/ MaxWorkers >= 0 /\ app' = [app EXCEPT !.at = "start"] /\ MainOnly
     \/ MaxWorkers < 0 /\ Ends("panicked")

(* mutant: and so is the HTTP server *)
StartRelayAndHTTP ==
  /\ app.at = "start"
  /\ app' = [app EXCEPT !.at = "recover", !.http = "starting"]
  /\ relay' = [relay EXCEPT !.at = "starting"]
  /\ UNCHANGED <<storeVars, env, lives, told, call, running>>
StartRelay ==
  /\ app.at = "start"
  /\ app' = [app EXCEPT !.at = "recover"]
  /\ relay' = [relay EXCEPT !.at = "starting"]
  /\ UNCHANGED <<storeVars, env, lives, told, call, running>>

(* PandingRecovery: loads, if it can, and hands one after the other to add. *)
Recover ==
  /\ app.at = "recover"
  /\ \E loaded \in {LoadPendingPayments, {}} :
       app' = [app EXCEPT !.at = "hand over", !.todo = loaded]
  /\ MainOnly

Active == {tx \in TX : call[tx] \in {"called", "adding", "waiting", "sending"}}
HandOver(tx) ==
  /\ app.at = "hand over" /\ tx \in app.todo /\ Active = {}
  /\ app' = [app EXCEPT !.todo = @ \ {tx}]
  /\ call' = [call EXCEPT ![tx] = "adding"]
  /\ UNCHANGED <<storeVars, env, lives, told, running, relay>>

StartHTTP ==
  /\ app.at = "hand over" /\ app.todo = {} /\ Active = {}
  /\ app' = [app EXCEPT !.at = "notify", !.http = "starting"]
  /\ MainOnly

(* The goroutine of ListenAndServe; the address may be taken. *)
Listen ==
  /\ app.http = "starting"
  /\ \E how \in {"listening", "failed"} : app' = [app EXCEPT !.http = how]
  /\ MainOnly

Notify == app.at = "notify" /\ app' = [app EXCEPT !.at = "serving"] /\ MainOnly

-----------------------------------------------------------------------------
(* main, from the signal on *)

Signal == app.at = "serving" /\ app' = [app EXCEPT !.at = "stopping"] /\ MainOnly

CloseListeners ==
  /\ app.at = "stopping"
  /\ app' = [app EXCEPT !.at = "draining", !.http = "closed"]
  /\ MainOnly

(* mutant: Shutdown is given a context that never ends *)
NoTimeout == FALSE
TimesOut == Active # {}
(* mutant: Shutdown is not waited for *)
AtOnce == TRUE
HandlersGone == Active = {}
HTTPShutdown ==
  /\ app.at = "draining"
  /\ \/ HandlersGone /\ app' = [app EXCEPT !.at = "cancel"]
     \/ TimesOut /\ app' = [app EXCEPT !.at = "cancel", !.timedOut = TRUE]
  /\ MainOnly

(* kafkaReader.Close, cancel *)
Cancel ==
  /\ app.at = "cancel"
  /\ app' = [app EXCEPT !.at = "wait", !.cancelled = TRUE]
  /\ MainOnly

(* mutant: Shutdown of the service is not called *)
NotWaiting == TRUE
WorkersGone == running = {}
ClosePool ==
  /\ app.at = "wait" /\ WorkersGone
  /\ app' = [app EXCEPT !.at = "return", !.pool = "closed"]
  /\ MainOnly
Return == app.at = "return" /\ Ends("exited")

-----------------------------------------------------------------------------
(* PaymentCMD and add, for one payment.  `at` moves its call. *)

Moves(tx, to) ==
  /\ call' = [call EXCEPT ![tx] = to]
  /\ UNCHANGED <<env, lives, app, relay>>

Request(tx) ==
  /\ app.http = "listening" /\ call[tx] = "none" /\ ~Recorded(tx)
  /\ Moves(tx, "called") /\ UNCHANGED <<storeVars, told, running>>

Insert(tx) ==
  /\ call[tx] = "called"
  /\ \/ app.pool = "open" /\ InsertTX(tx) /\ Moves(tx, "adding")
     \/ UNCHANGED storeVars /\ Moves(tx, "failed")
  /\ UNCHANGED <<told, running>>

LooksAtContext(tx) ==
  /\ call[tx] = "adding"
  /\ Moves(tx, IF app.cancelled THEN "refused" ELSE "waiting")
  /\ UNCHANGED <<storeVars, told, running>>

(* The select takes a free slot even if the context is done. *)
TakeSlot(tx) ==
  /\ call[tx] = "waiting" /\ Cardinality(running) < MaxWorkers
  /\ running' = running \cup {tx}
  /\ Moves(tx, "sending") /\ UNCHANGED <<storeVars, told>>

Send(tx) ==
  /\ call[tx] = "sending"
  /\ Moves(tx, "queued")
  /\ told' = IF app.at = "hand over" THEN told ELSE told \cup {tx}
  /\ UNCHANGED <<storeVars, running>>

Refuse(tx) ==
  /\ call[tx] \in {"waiting", "sending"} /\ app.cancelled
  /\ Moves(tx, "refused") /\ UNCHANGED <<storeVars, told, running>>

(* runWorker; a payment taken with a cancelled context is not processed. *)
Take(tx) ==
  /\ tx \in running /\ call[tx] = "queued"
  /\ Moves(tx, IF app.cancelled THEN "dropped" ELSE "taken")
  /\ UNCHANGED <<storeVars, told, running>>

Process(tx) ==
  /\ call[tx] = "taken"
  /\ \/ ProcessTX(tx) /\ Moves(tx, "processed")
     \/ UNCHANGED storeVars /\ Moves(tx, "dropped")
  /\ UNCHANGED <<told, running>>

(* The context of a group is done as soon as nothing is counted in it, even
   before its first payment is sent. *)
Leave(tx) ==
  /\ tx \in running /\ call[tx] \notin {"queued", "taken"}
  /\ running' = running \ {tx}
  /\ UNCHANGED <<storeVars, env, lives, told, app, call, relay>>

-----------------------------------------------------------------------------
(* The outbox worker.  That sending or marking fails is in PaymentPipeline;
   here they fail once the context is cancelled. *)

RelayOnly == UNCHANGED <<env, lives, told, app, call, running>>

(* NewTicker panics on an interval that is not positive, and with it the
   whole process. *)
StartTicker ==
  /\ relay.at = "starting"
  /\ \/ Interval > 0 /\ relay' = [relay EXCEPT !.at = "idle"]
        /\ UNCHANGED storeVars /\ RelayOnly
     \/ Interval <= 0 /\ Ends("panicked")

(* A negative LIMIT is an error. *)
Fetch ==
  /\ relay.at = "idle" /\ ~app.cancelled /\ BatchSize >= 0
  /\ \E events \in FetchUnsent(BatchSize) \ {{}} :
       relay' = [at |-> "sending", batch |-> events, sent |-> {}]
  /\ UNCHANGED storeVars /\ RelayOnly

SendEvent ==
  /\ relay.at = "sending" /\ relay.batch # {}
  /\ \E tx \in relay.batch :
       relay' = [relay EXCEPT !.batch = @ \ {tx},
                              !.sent = IF app.cancelled THEN @ ELSE @ \cup {tx}]
  /\ UNCHANGED storeVars /\ RelayOnly

(* mutant: the loop ends with its first batch *)
MarkAndEnd ==
  /\ relay.at = "sending" /\ relay.batch = {}
  /\ relay' = [relay EXCEPT !.at = "off", !.sent = {}]
  /\ IF app.cancelled THEN UNCHANGED storeVars ELSE MarkSent(relay.sent)
  /\ RelayOnly
Mark ==
  /\ relay.at = "sending" /\ relay.batch = {}
  /\ relay' = [relay EXCEPT !.at = "idle", !.sent = {}]
  /\ IF app.cancelled THEN UNCHANGED storeVars ELSE MarkSent(relay.sent)
  /\ RelayOnly

StopRelay ==
  /\ relay.at = "idle" /\ app.cancelled
  /\ relay' = [relay EXCEPT !.at = "off"]
  /\ UNCHANGED storeVars /\ RelayOnly

-----------------------------------------------------------------------------
Main ==
  \/ Load \/ Connect \/ Build \/ StartRelay \/ Recover \/ (\E tx \in TX : HandOver(tx))
  \/ StartHTTP \/ Notify
  \/ CloseListeners \/ HTTPShutdown \/ Cancel \/ ClosePool \/ Return
Add(tx) == Insert(tx) \/ LooksAtContext(tx) \/ TakeSlot(tx) \/ Send(tx) \/ Refuse(tx)
RunWorker(tx) == Take(tx) \/ Process(tx) \/ Leave(tx)
Relay == StartTicker \/ Fetch \/ SendEvent \/ Mark \/ StopRelay

SNext ==
  \/ Main \/ Listen \/ Relay \/ Signal \/ Kill \/ Restart
  \/ \E tx \in TX : Request(tx) \/ Add(tx) \/ RunWorker(tx)

(* add of a payment that shares an account may block, and while it is in add
   it may keep Mu from the other calls. *)
Unblocked(tx) == env.shared \cap (Active \cup {tx}) = {}

(* Goroutines are scheduled, and every statement returns, those of a blocked add
   excepted; nobody has to send a request, a signal or to start the process
   again. *)
SSpec ==
  /\ SInit /\ [][SNext]_svars
  /\ WF_svars(Main) /\ WF_svars(Listen) /\ WF_svars(Relay)
  /\ \A tx \in TX : /\ WF_svars(Unblocked(tx) /\ Add(tx))
                    /\ WF_svars(RunWorker(tx))

-----------------------------------------------------------------------------
AppStates ==
  [at : {"load", "connect", "build", "start", "recover", "hand over", "notify",
         "serving", "stopping", "draining", "cancel", "wait", "return",
         "exited", "failed", "panicked", "killed"},
   http : {"off", "starting", "listening", "failed", "closed"},
   timedOut : BOOLEAN, cancelled : BOOLEAN,
   pool : {"none", "open", "closed"}, todo : SUBSET TX]
Calls ==
  {"none", "called", "adding", "waiting", "sending", "queued", "taken", "processed",
   "dropped", "failed", "refused"}
RelayStates ==
  [at : {"off", "starting", "idle", "sending"}, batch : SUBSET TX, sent : SUBSET TX]

(* Every variable has the values the code can give it; what is marked as
   sent is in outbox. *)
STypeOK ==
  /\ status \in [TX -> {"absent", "pending", "processing"}]
  /\ pending \subseteq TX /\ outbox \subseteq TX /\ sentAt \subseteq outbox
  /\ env \in Environments /\ lives \in 1..MaxLives /\ told \subseteq TX
  /\ app \in AppStates /\ call \in [TX -> Calls] /\ running \subseteq TX
  /\ relay \in RelayStates

(* The order of main.go:182-195: the HTTP server is shut down before the
   context is cancelled, so a request that was accepted is turned away with
   "dispatcher is shutting down" only if the shutdown ran out of time. *)
RefusedOnlyAfterTimeout ==
  \A tx \in TX : call[tx] = "refused" => app.timedOut

(* Wg.Wait comes before the deferred dbPool.Close, so no worker is left
   without a database, unless a request outlived the HTTP shutdown: that one
   may start its worker when Wait has already seen none. *)
NoWorkerWithoutPool ==
  app.pool = "closed" /\ running # {} => app.timedOut

(* Recovery is over before the HTTP server starts, so what it loads is never
   a payment that a request of this process has put into the table: no
   payment goes through add twice. *)
RecoveryMeetsNoRequest ==
  \A tx \in app.todo : call[tx] = "none"

(* A client that got 201 can rely on the payment: whatever stops the process,
   in whatever state, the payment is still pending or has its event. *)
ConfirmedSurvives ==
  told \subseteq pending \cup outbox

(* main gets to serving, or ends, although it may have more payments to recover
   than there are slots, if none of them shares an account with another and
   MAX_WORKERS leaves a slot: each one's worker makes room for the next.  Both
   conditions are needed: with MAX_WORKERS=0 the first payment waits for a slot
   for ever, and with accounts in common add may wait in a merge or on a channel
   for ever, and main with it (PaymentManagerService.go:174, 184; MergeCompletes
   of Dispatcher). *)
StartEnds ==
  (/\ app.at = "load"
   /\ \A n \in env.workers : n > 0
   /\ pending \cap env.shared = {}) ~> (app.at = "serving" \/ Over)

(* Once the signal is received the process ends, also if requests hang, in add
   or on a slot: no step of the shutdown waits for ever. *)
StopEnds == app.at = "stopping" ~> Over

(* While the process serves, every event reaches the topic and is marked,
   unless OUTBOX_BATCH_SIZE keeps the outbox worker from fetching any. *)
OutboxDrains ==
  \A tx \in TX :
    (tx \in outbox /\ app.at = "serving" /\ \A n \in env.batch : n > 0)
      ~> (tx \in sentAt \/ app.cancelled \/ Over)

=============================================================================
