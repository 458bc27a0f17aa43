----------------------------- MODULE ServerProofs -----------------------------
(***************************************************************************)
(* Proofs about ServerLifecycle, for any payments, any environments and    *)
(* any number of starts of the process.  Main's place in its program says  *)
(* what else can be going on (Phases), and that a payment on its way       *)
(* through add is in the database (OnItsWay); together with the types this *)
(* is inductive and implies the properties.                                *)
(***************************************************************************)
EXTENDS ServerLifecycle, TLAPS

NotUp == {"load", "connect", "build", "start", "recover",
          "exited", "failed", "panicked", "killed"}

Phases ==
  /\ app.at \in NotUp =>
       /\ app.http = "off" /\ running = {}
       /\ \A tx \in TX : call[tx] = "none"
  /\ app.at = "hand over" => app.http = "off"
  /\ app.todo # {} => app.at = "hand over"
  /\ app.at \in {"draining", "cancel", "wait", "return"} => app.http = "closed"
  /\ app.timedOut => app.at \in {"cancel", "wait", "return"}
  /\ app.cancelled => app.at \in {"wait", "return"}
  /\ app.pool = "closed" => app.at = "return"

NoneActive ==
  app.at \in {"cancel", "wait", "return"} /\ ~app.timedOut =>
    \A tx \in TX : call[tx] \notin {"called", "adding", "waiting", "sending"}

OnItsWay ==
  /\ \A tx \in TX : call[tx] \in {"adding", "waiting", "sending"} =>
       tx \in pending \cup outbox
  /\ app.todo \subseteq pending \cup outbox

SInv ==
  /\ STypeOK /\ Phases /\ NoneActive /\ OnItsWay
  /\ RefusedOnlyAfterTimeout /\ NoWorkerWithoutPool /\ RecoveryMeetsNoRequest
  /\ ConfirmedSurvives

-----------------------------------------------------------------------------
(* A process that is over has left nothing but the tables. *)
LEMMA EndsKeeps ==
  ASSUME SInv, NEW how \in {"exited", "failed", "panicked", "killed"}, Ends(how)
  PROVE  SInv'
<1>0. /\ app' = [at |-> how, http |-> "off", timedOut |-> FALSE,
                 cancelled |-> FALSE, pool |-> "none", todo |-> {}]
      /\ call' = [tx \in TX |-> "none"] /\ running' = {}
      /\ relay' = [at |-> "off", batch |-> {}, sent |-> {}]
      /\ UNCHANGED <<storeVars, env, lives, told>>
  BY DEF Ends, Fresh
<1>1. STypeOK'
  <2>1. app' \in AppStates /\ call' \in [TX -> Calls] /\ relay' \in RelayStates
    BY <1>0 DEF AppStates, Calls, RelayStates
  <2> QED BY <1>0, <2>1 DEF SInv, STypeOK, storeVars
<1>2. Phases' /\ NoneActive' /\ OnItsWay'
  BY <1>0 DEF Phases, NoneActive, OnItsWay, NotUp
<1>3. RefusedOnlyAfterTimeout' /\ NoWorkerWithoutPool' /\ RecoveryMeetsNoRequest'
  BY <1>0 DEF RefusedOnlyAfterTimeout, NoWorkerWithoutPool, RecoveryMeetsNoRequest
<1>4. ConfirmedSurvives'
  BY <1>0 DEF SInv, ConfirmedSurvives, storeVars
<1> QED BY <1>1, <1>2, <1>3, <1>4 DEF SInv

(* ---- The steps of main. *)

LEMMA NotifyKeeps == ASSUME SInv, Notify PROVE SInv'
<1>1. STypeOK'
  BY DEF SInv, STypeOK, AppStates, Notify, MainOnly, storeVars
<1>2. Phases' /\ NoneActive'
  BY DEF SInv, STypeOK, AppStates, Phases, NoneActive, NotUp, Notify, MainOnly,
         storeVars
<1>3. OnItsWay' /\ RecoveryMeetsNoRequest' /\ ConfirmedSurvives'
  BY DEF SInv, STypeOK, AppStates, Phases, OnItsWay, RecoveryMeetsNoRequest,
         ConfirmedSurvives, NotUp, Notify, MainOnly, storeVars
<1>4. RefusedOnlyAfterTimeout' /\ NoWorkerWithoutPool'
  BY DEF SInv, STypeOK, AppStates, Phases, NoneActive, RefusedOnlyAfterTimeout,
         NoWorkerWithoutPool, NotUp, Notify, MainOnly, storeVars
<1> QED BY <1>1, <1>2, <1>3, <1>4 DEF SInv

LEMMA SignalKeeps == ASSUME SInv, Signal PROVE SInv'
<1>1. STypeOK'
  BY DEF SInv, STypeOK, AppStates, Signal, MainOnly, storeVars
<1>2. Phases' /\ NoneActive'
  BY DEF SInv, STypeOK, AppStates, Phases, NoneActive, NotUp, Signal, MainOnly,
         storeVars
<1>3. OnItsWay' /\ RecoveryMeetsNoRequest' /\ ConfirmedSurvives'
  BY DEF SInv, STypeOK, AppStates, Phases, OnItsWay, RecoveryMeetsNoRequest,
         ConfirmedSurvives, NotUp, Signal, MainOnly, storeVars
<1>4. RefusedOnlyAfterTimeout' /\ NoWorkerWithoutPool'
  BY DEF SInv, STypeOK, AppStates, Phases, NoneActive, RefusedOnlyAfterTimeout,
         NoWorkerWithoutPool, NotUp, Signal, MainOnly, storeVars
<1> QED BY <1>1, <1>2, <1>3, <1>4 DEF SInv

LEMMA CloseListenersKeeps == ASSUME SInv, CloseListeners PROVE SInv'
<1>1. STypeOK'
  BY DEF SInv, STypeOK, AppStates, CloseListeners, MainOnly,
         storeVars
<1>2. Phases' /\ NoneActive'
  BY DEF SInv, STypeOK, AppStates, Phases, NoneActive, NotUp, CloseListeners,
         MainOnly, storeVars
<1>3. OnItsWay' /\ RecoveryMeetsNoRequest' /\ ConfirmedSurvives'
  BY DEF SInv, STypeOK, AppStates, Phases, OnItsWay, RecoveryMeetsNoRequest,
         ConfirmedSurvives, NotUp, CloseListeners, MainOnly, storeVars
<1>4. RefusedOnlyAfterTimeout' /\ NoWorkerWithoutPool'
  BY DEF SInv, STypeOK, AppStates, Phases, NoneActive, RefusedOnlyAfterTimeout,
         NoWorkerWithoutPool, NotUp, CloseListeners, MainOnly, storeVars
<1> QED BY <1>1, <1>2, <1>3, <1>4 DEF SInv

LEMMA CancelKeeps == ASSUME SInv, Cancel PROVE SInv'
<1>1. STypeOK'
  BY DEF SInv, STypeOK, AppStates, Cancel, MainOnly, storeVars
<1>2. Phases' /\ NoneActive'
  BY DEF SInv, STypeOK, AppStates, Phases, NoneActive, NotUp, Cancel, MainOnly,
         storeVars
<1>3. OnItsWay' /\ RecoveryMeetsNoRequest' /\ ConfirmedSurvives'
  BY DEF SInv, STypeOK, AppStates, Phases, OnItsWay, RecoveryMeetsNoRequest,
         ConfirmedSurvives, NotUp, Cancel, MainOnly, storeVars
<1>4. RefusedOnlyAfterTimeout' /\ NoWorkerWithoutPool'
  BY DEF SInv, STypeOK, AppStates, Phases, NoneActive, RefusedOnlyAfterTimeout,
         NoWorkerWithoutPool, NotUp, Cancel, MainOnly, storeVars
<1> QED BY <1>1, <1>2, <1>3, <1>4 DEF SInv

LEMMA ListenKeeps == ASSUME SInv, Listen PROVE SInv'
<1>1. STypeOK'
  BY DEF SInv, STypeOK, AppStates, Listen, MainOnly, storeVars
<1>2. Phases' /\ NoneActive'
  BY DEF SInv, STypeOK, AppStates, Phases, NoneActive, NotUp, Listen, MainOnly,
         storeVars
<1>3. OnItsWay' /\ RecoveryMeetsNoRequest' /\ ConfirmedSurvives'
  BY DEF SInv, STypeOK, AppStates, Phases, OnItsWay, RecoveryMeetsNoRequest,
         ConfirmedSurvives, NotUp, Listen, MainOnly, storeVars
<1>4. RefusedOnlyAfterTimeout' /\ NoWorkerWithoutPool'
  BY DEF SInv, STypeOK, AppStates, Phases, NoneActive, RefusedOnlyAfterTimeout,
         NoWorkerWithoutPool, NotUp, Listen, MainOnly, storeVars
<1> QED BY <1>1, <1>2, <1>3, <1>4 DEF SInv

LEMMA StartHTTPKeeps == ASSUME SInv, StartHTTP PROVE SInv'
<1>1. STypeOK'
  BY DEF SInv, STypeOK, AppStates, StartHTTP, Active,
         MainOnly, storeVars
<1>2. Phases' /\ NoneActive'
  BY DEF SInv, STypeOK, AppStates, Phases, NoneActive, NotUp, StartHTTP, Active,
         MainOnly, storeVars
<1>3. OnItsWay' /\ RecoveryMeetsNoRequest' /\ ConfirmedSurvives'
  BY DEF SInv, STypeOK, AppStates, Phases, OnItsWay, RecoveryMeetsNoRequest,
         ConfirmedSurvives, NotUp, StartHTTP, Active, MainOnly, storeVars
<1>4. RefusedOnlyAfterTimeout' /\ NoWorkerWithoutPool'
  BY DEF SInv, STypeOK, AppStates, Phases, NoneActive, RefusedOnlyAfterTimeout,
         NoWorkerWithoutPool, NotUp, StartHTTP, Active, MainOnly, storeVars
<1> QED BY <1>1, <1>2, <1>3, <1>4 DEF SInv

LEMMA HTTPShutdownKeeps == ASSUME SInv, HTTPShutdown PROVE SInv'
<1>1. STypeOK'
  BY DEF SInv, STypeOK, AppStates, HTTPShutdown, HandlersGone,
         TimesOut, Active, MainOnly, storeVars
<1>2. Phases' /\ NoneActive'
  BY DEF SInv, STypeOK, AppStates, Phases, NoneActive, NotUp, HTTPShutdown,
         HandlersGone, TimesOut, Active, MainOnly, storeVars
<1>3. OnItsWay' /\ RecoveryMeetsNoRequest' /\ ConfirmedSurvives'
  BY DEF SInv, STypeOK, AppStates, Phases, OnItsWay, RecoveryMeetsNoRequest,
         ConfirmedSurvives, NotUp, HTTPShutdown, HandlersGone, TimesOut, Active,
         MainOnly, storeVars
<1>4. RefusedOnlyAfterTimeout' /\ NoWorkerWithoutPool'
  BY DEF SInv, STypeOK, AppStates, Phases, NoneActive, RefusedOnlyAfterTimeout,
         NoWorkerWithoutPool, NotUp, HTTPShutdown, HandlersGone, TimesOut, Active,
         MainOnly, storeVars
<1> QED BY <1>1, <1>2, <1>3, <1>4 DEF SInv

LEMMA ClosePoolKeeps == ASSUME SInv, ClosePool PROVE SInv'
<1>1. STypeOK'
  BY DEF SInv, STypeOK, AppStates, ClosePool, WorkersGone,
         MainOnly, storeVars
<1>2. Phases' /\ NoneActive'
  BY DEF SInv, STypeOK, AppStates, Phases, NoneActive, NotUp, ClosePool,
         WorkersGone, MainOnly, storeVars
<1>3. OnItsWay' /\ RecoveryMeetsNoRequest' /\ ConfirmedSurvives'
  BY DEF SInv, STypeOK, AppStates, Phases, OnItsWay, RecoveryMeetsNoRequest,
         ConfirmedSurvives, NotUp, ClosePool, WorkersGone, MainOnly, storeVars
<1>4. RefusedOnlyAfterTimeout' /\ NoWorkerWithoutPool'
  BY DEF SInv, STypeOK, AppStates, Phases, NoneActive, RefusedOnlyAfterTimeout,
         NoWorkerWithoutPool, NotUp, ClosePool, WorkersGone, MainOnly, storeVars
<1> QED BY <1>1, <1>2, <1>3, <1>4 DEF SInv

LEMMA StartRelayKeeps == ASSUME SInv, StartRelay PROVE SInv'
<1>1. STypeOK'
  BY DEF SInv, STypeOK, AppStates, RelayStates, Calls, StartRelay, storeVars
<1>2. Phases' /\ NoneActive'
  BY DEF SInv, STypeOK, AppStates, Phases, NoneActive, NotUp, StartRelay,
         storeVars
<1>3. OnItsWay' /\ RecoveryMeetsNoRequest' /\ ConfirmedSurvives'
  BY DEF SInv, STypeOK, AppStates, Phases, OnItsWay, RecoveryMeetsNoRequest,
         ConfirmedSurvives, NotUp, StartRelay, storeVars
<1>4. RefusedOnlyAfterTimeout' /\ NoWorkerWithoutPool'
  BY DEF SInv, STypeOK, AppStates, Phases, NoneActive, RefusedOnlyAfterTimeout,
         NoWorkerWithoutPool, NotUp, StartRelay, storeVars
<1> QED BY <1>1, <1>2, <1>3, <1>4 DEF SInv

LEMMA RecoverKeeps == ASSUME SInv, Recover PROVE SInv'
<1>0. PICK loaded \in SUBSET pending :
        app' = [app EXCEPT !.at = "hand over", !.todo = loaded]
  BY DEF Recover, LoadPendingPayments
<1>1. STypeOK'
  BY <1>0 DEF SInv, STypeOK, AppStates, Recover, MainOnly,
         storeVars
<1>2. Phases' /\ NoneActive'
  BY <1>0 DEF SInv, STypeOK, AppStates, Phases, NoneActive, NotUp, Recover,
         MainOnly, storeVars
<1>3. OnItsWay' /\ RecoveryMeetsNoRequest' /\ ConfirmedSurvives'
  BY <1>0 DEF SInv, STypeOK, AppStates, Phases, OnItsWay, RecoveryMeetsNoRequest,
         ConfirmedSurvives, NotUp, Recover, MainOnly, storeVars
<1>4. RefusedOnlyAfterTimeout' /\ NoWorkerWithoutPool'
  BY <1>0 DEF SInv, STypeOK, AppStates, Phases, NoneActive,
         RefusedOnlyAfterTimeout, NoWorkerWithoutPool, NotUp, Recover, MainOnly,
         storeVars
<1> QED BY <1>1, <1>2, <1>3, <1>4 DEF SInv

(* A payment's call moves, and all the others stay where they are. *)
LEMMA OneMoves ==
  ASSUME STypeOK, NEW tx \in TX, NEW to, call' = [call EXCEPT ![tx] = to]
  PROVE  call'[tx] = to /\ \A u \in TX \ {tx} : call'[u] = call[u]
BY DEF STypeOK, AppStates

LEMMA RestartKeeps == ASSUME SInv, Restart PROVE SInv'
<1>0. /\ app' = [at |-> "load", http |-> "off", timedOut |-> FALSE,
                 cancelled |-> FALSE, pool |-> "none", todo |-> {}]
      /\ app.at \in NotUp
      /\ UNCHANGED <<storeVars, env, told, call, running, relay>>
  BY DEF Restart, Fresh, Over, NotUp
<1>1. STypeOK'
  <2>1. MaxLives \in Nat /\ lives \in 1..MaxLives /\ lives < MaxLives /\ lives' = lives + 1
    BY EnvironmentAssumption DEF SInv, STypeOK, AppStates,
           Restart
  <2>2. lives' \in 1..MaxLives
    BY <2>1
  <2>3. app' \in AppStates
    BY <1>0 DEF AppStates
  <2> QED BY <1>0, <2>2, <2>3 DEF SInv, STypeOK, storeVars
<1>2. Phases' /\ NoneActive'
  BY <1>0 DEF SInv, STypeOK, AppStates, Phases, NoneActive, NotUp, storeVars
<1>3. OnItsWay' /\ RecoveryMeetsNoRequest' /\ ConfirmedSurvives'
  BY <1>0 DEF SInv, STypeOK, AppStates, Phases, OnItsWay, RecoveryMeetsNoRequest,
         ConfirmedSurvives, NotUp, storeVars
<1>4. RefusedOnlyAfterTimeout' /\ NoWorkerWithoutPool'
  BY <1>0 DEF SInv, STypeOK, AppStates, Phases, NoneActive,
         RefusedOnlyAfterTimeout, NoWorkerWithoutPool, NotUp, storeVars
<1> QED BY <1>1, <1>2, <1>3, <1>4 DEF SInv

LEMMA MovesType ==
  ASSUME STypeOK, NEW tx \in TX,
         NEW to \in {"called", "adding", "waiting", "sending", "queued", "taken",
                    "processed", "dropped", "failed", "refused"},
         call' = [call EXCEPT ![tx] = to]
  PROVE  call' \in [TX -> Calls]
BY DEF STypeOK, AppStates, RelayStates, Calls

LEMMA HandOverKeeps == ASSUME SInv, NEW tx \in TX, HandOver(tx) PROVE SInv'
<1>0. /\ call'[tx] = "adding"
      /\ \A u \in TX \ {tx} : call'[u] = call[u]
      /\ app.at = "hand over" /\ tx \in app.todo
      /\ app'.todo = app.todo \ {tx} /\ app'.at = app.at /\ app'.http = app.http
      /\ app'.timedOut = app.timedOut /\ app'.cancelled = app.cancelled
      /\ app'.pool = app.pool
      /\ UNCHANGED <<storeVars, env, lives, told, running, relay>>
  BY OneMoves DEF HandOver, SInv, STypeOK, AppStates
<1>1. STypeOK'
  <2>1. UNCHANGED <<storeVars, env, lives, told, running, relay>>
    BY DEF HandOver
  <2>2. call' \in [TX -> Calls] /\ app' \in AppStates
    BY MovesType DEF HandOver, SInv, STypeOK, AppStates
  <2> QED BY <2>1, <2>2 DEF SInv, STypeOK, storeVars
<1>2. Phases' /\ NoneActive'
  BY <1>0 DEF SInv, STypeOK, AppStates, Phases, NoneActive, NotUp, storeVars
<1>3. OnItsWay' /\ RecoveryMeetsNoRequest' /\ ConfirmedSurvives'
  <2>1. UNCHANGED <<pending, outbox, told>> /\ app'.todo \subseteq app.todo
    BY <1>0 DEF storeVars
  <2>2. tx \in pending \cup outbox
    BY <1>0 DEF SInv, OnItsWay
  <2>3. OnItsWay'
    BY <1>0, <2>1, <2>2 DEF SInv, OnItsWay
  <2>4. RecoveryMeetsNoRequest'
    <3> SUFFICES ASSUME NEW u \in app'.todo PROVE call'[u] = "none"
      BY DEF RecoveryMeetsNoRequest
    <3>1. u \in TX \ {tx} /\ u \in app.todo
      BY <1>0 DEF SInv, STypeOK, AppStates
    <3> QED BY <1>0, <3>1 DEF SInv, RecoveryMeetsNoRequest
  <2> QED BY <2>1, <2>3, <2>4 DEF SInv, ConfirmedSurvives
<1>4. RefusedOnlyAfterTimeout' /\ NoWorkerWithoutPool'
  BY <1>0 DEF SInv, RefusedOnlyAfterTimeout, NoWorkerWithoutPool
<1> QED BY <1>1, <1>2, <1>3, <1>4 DEF SInv

LEMMA LoadKeeps == ASSUME SInv, Load PROVE SInv'
<1>0. CASE Ends("panicked")
  BY <1>0, EndsKeeps
<1>a. CASE app' = [app EXCEPT !.at = "connect"] /\ MainOnly /\ app.at = "load"
  <2>1. STypeOK'
    BY <1>a DEF SInv, STypeOK, AppStates, MainOnly, storeVars
  <2>2. Phases' /\ NoneActive'
    BY <1>a DEF MainOnly, SInv, STypeOK, AppStates, Phases, NoneActive, NotUp,
           storeVars
  <2>3. OnItsWay' /\ RecoveryMeetsNoRequest' /\ ConfirmedSurvives'
    BY <1>a DEF MainOnly, SInv, STypeOK, AppStates, Phases, OnItsWay,
           RecoveryMeetsNoRequest, ConfirmedSurvives, NotUp, storeVars
  <2>4. RefusedOnlyAfterTimeout' /\ NoWorkerWithoutPool'
    BY <1>a DEF MainOnly, SInv, STypeOK, AppStates, Phases, NoneActive,
           RefusedOnlyAfterTimeout, NoWorkerWithoutPool, NotUp, storeVars
  <2> QED BY <2>1, <2>2, <2>3, <2>4 DEF SInv
<1> QED BY <1>0, <1>a DEF Load

LEMMA ConnectKeeps == ASSUME SInv, Connect PROVE SInv'
<1>0. CASE Ends("failed")
  BY <1>0, EndsKeeps
<1>a. CASE app' = [app EXCEPT !.at = "build", !.pool = "open"] /\ MainOnly
           /\ app.at = "connect"
  <2>1. STypeOK'
    BY <1>a DEF SInv, STypeOK, AppStates, MainOnly, storeVars
  <2>2. Phases' /\ NoneActive'
    BY <1>a DEF MainOnly, SInv, STypeOK, AppStates, Phases, NoneActive, NotUp,
           storeVars
  <2>3. OnItsWay' /\ RecoveryMeetsNoRequest' /\ ConfirmedSurvives'
    BY <1>a DEF MainOnly, SInv, STypeOK, AppStates, Phases, OnItsWay,
           RecoveryMeetsNoRequest, ConfirmedSurvives, NotUp, storeVars
  <2>4. RefusedOnlyAfterTimeout' /\ NoWorkerWithoutPool'
    BY <1>a DEF MainOnly, SInv, STypeOK, AppStates, Phases, NoneActive,
           RefusedOnlyAfterTimeout, NoWorkerWithoutPool, NotUp, storeVars
  <2> QED BY <2>1, <2>2, <2>3, <2>4 DEF SInv
<1> QED BY <1>0, <1>a DEF Connect

LEMMA BuildKeeps == ASSUME SInv, Build PROVE SInv'
<1>0. CASE Ends("panicked")
  BY <1>0, EndsKeeps
<1>a. CASE app' = [app EXCEPT !.at = "start"] /\ MainOnly /\ app.at = "build"
  <2>1. STypeOK'
    BY <1>a DEF SInv, STypeOK, AppStates, MainOnly, storeVars
  <2>2. Phases' /\ NoneActive'
    BY <1>a DEF MainOnly, SInv, STypeOK, AppStates, Phases, NoneActive, NotUp,
           storeVars
  <2>3. OnItsWay' /\ RecoveryMeetsNoRequest' /\ ConfirmedSurvives'
    BY <1>a DEF MainOnly, SInv, STypeOK, AppStates, Phases, OnItsWay,
           RecoveryMeetsNoRequest, ConfirmedSurvives, NotUp, storeVars
  <2>4. RefusedOnlyAfterTimeout' /\ NoWorkerWithoutPool'
    BY <1>a DEF MainOnly, SInv, STypeOK, AppStates, Phases, NoneActive,
           RefusedOnlyAfterTimeout, NoWorkerWithoutPool, NotUp, storeVars
  <2> QED BY <2>1, <2>2, <2>3, <2>4 DEF SInv
<1> QED BY <1>0, <1>a DEF Build

LEMMA MainKeeps == ASSUME SInv, Main PROVE SInv'
<1>1. CASE Return
  BY <1>1, EndsKeeps DEF Return
<1> QED
  BY <1>1, LoadKeeps, ConnectKeeps, BuildKeeps, StartRelayKeeps, RecoverKeeps,
     HandOverKeeps, StartHTTPKeeps, NotifyKeeps, CloseListenersKeeps,
     HTTPShutdownKeeps, CancelKeeps, ClosePoolKeeps DEF Main

-----------------------------------------------------------------------------
(* The steps of a payment.  What a call may do without disturbing anything:
   it starts only behind the HTTP server, it is refused only after the
   timeout, and it does not go back before its insert. *)
LEMMA MoveKeeps ==
  ASSUME SInv, NEW tx \in TX,
         NEW to \in {"called", "waiting", "taken", "dropped", "failed", "refused"},
         Moves(tx, to), UNCHANGED <<storeVars, told, running>>,
         call[tx] # "none" \/ app.http = "listening",
         to \in {"called", "waiting"} =>
           app.http = "listening" \/ call[tx] = "adding",
         to = "waiting" => call[tx] = "adding",
         to = "refused" => app.timedOut
  PROVE  SInv'
<1>0. /\ call'[tx] = to
      /\ \A u \in TX \ {tx} : call'[u] = call[u]
      /\ UNCHANGED <<env, lives, app, relay>>
  BY OneMoves DEF Moves, SInv
<1>1. STypeOK'
  BY <1>0, MovesType DEF Moves, SInv, STypeOK, AppStates,
         storeVars
<1>2. Phases' /\ NoneActive'
  BY <1>0 DEF SInv, STypeOK, AppStates, Phases, NoneActive, NotUp, storeVars
<1>3. OnItsWay' /\ RecoveryMeetsNoRequest' /\ ConfirmedSurvives'
  BY <1>0 DEF SInv, STypeOK, AppStates, Phases, OnItsWay, RecoveryMeetsNoRequest,
         ConfirmedSurvives, NotUp, storeVars
<1>4. RefusedOnlyAfterTimeout' /\ NoWorkerWithoutPool'
  BY <1>0 DEF SInv, STypeOK, AppStates, Phases, NoneActive,
         RefusedOnlyAfterTimeout, NoWorkerWithoutPool, NotUp, storeVars
<1> QED BY <1>1, <1>2, <1>3, <1>4 DEF SInv

LEMMA RequestKeeps == ASSUME SInv, NEW tx \in TX, Request(tx) PROVE SInv'
BY MoveKeeps DEF Request

LEMMA LooksAtContextKeeps == ASSUME SInv, NEW tx \in TX, LooksAtContext(tx) PROVE SInv'
<1>1. CASE app.cancelled
  <2>1. app.timedOut
    BY <1>1 DEF LooksAtContext, SInv, Phases, NoneActive
  <2> QED BY <1>1, <2>1, MoveKeeps DEF LooksAtContext
<1>2. CASE ~app.cancelled
  BY <1>2, MoveKeeps DEF LooksAtContext
<1> QED BY <1>1, <1>2

LEMMA RefuseKeeps == ASSUME SInv, NEW tx \in TX, Refuse(tx) PROVE SInv'
<1>1. app.timedOut
  BY DEF Refuse, SInv, Phases, NoneActive
<1> QED BY <1>1, MoveKeeps DEF Refuse

LEMMA TakeKeeps == ASSUME SInv, NEW tx \in TX, Take(tx) PROVE SInv'
<1>1. CASE app.cancelled
  BY <1>1, MoveKeeps DEF Take
<1>2. CASE ~app.cancelled
  BY <1>2, MoveKeeps DEF Take
<1> QED BY <1>1, <1>2

LEMMA InsertKeeps == ASSUME SInv, NEW tx \in TX, Insert(tx) PROVE SInv'
<1>f. CASE UNCHANGED storeVars /\ Moves(tx, "failed")
  BY <1>f, MoveKeeps DEF Insert
<1>i. CASE InsertTX(tx) /\ Moves(tx, "adding")
  <2>0. /\ call[tx] = "called" /\ call'[tx] = "adding"
        /\ \A u \in TX \ {tx} : call'[u] = call[u]
        /\ UNCHANGED <<env, lives, app, relay, told, running, outbox, sentAt>>
        /\ status' = [status EXCEPT ![tx] = "pending"] /\ pending' = pending \cup {tx}
    BY <1>i, OneMoves DEF Insert, InsertTX, Moves, SInv
  <2>1. STypeOK'
    BY <2>0, <1>i DEF Moves, SInv, STypeOK, AppStates, RelayStates, Calls
  <2>2. Phases' /\ NoneActive'
    BY <2>0 DEF SInv, STypeOK, AppStates, Phases, NoneActive, NotUp
  <2>3. OnItsWay' /\ RecoveryMeetsNoRequest' /\ ConfirmedSurvives'
    BY <2>0 DEF SInv, STypeOK, AppStates, Phases, OnItsWay,
           RecoveryMeetsNoRequest, ConfirmedSurvives, NotUp
  <2>4. RefusedOnlyAfterTimeout' /\ NoWorkerWithoutPool'
    BY <2>0 DEF SInv, STypeOK, AppStates, Phases, NoneActive,
           RefusedOnlyAfterTimeout, NoWorkerWithoutPool, NotUp
  <2> QED BY <2>1, <2>2, <2>3, <2>4 DEF SInv
<1> QED BY <1>f, <1>i DEF Insert

LEMMA TakeSlotKeeps == ASSUME SInv, NEW tx \in TX, TakeSlot(tx) PROVE SInv'
<1>0. /\ call[tx] = "waiting" /\ call'[tx] = "sending"
      /\ \A u \in TX \ {tx} : call'[u] = call[u]
      /\ running' = running \cup {tx}
      /\ UNCHANGED <<storeVars, env, lives, app, relay, told>>
  BY OneMoves DEF TakeSlot, Moves, SInv
<1>1. STypeOK'
  BY <1>0, MovesType DEF TakeSlot, Moves, SInv, STypeOK, AppStates, RelayStates,
         Calls, storeVars
<1>2. Phases' /\ NoneActive'
  BY <1>0 DEF SInv, STypeOK, AppStates, Phases, NoneActive, NotUp, storeVars
<1>3. OnItsWay' /\ RecoveryMeetsNoRequest' /\ ConfirmedSurvives'
  BY <1>0 DEF SInv, STypeOK, AppStates, Phases, OnItsWay, RecoveryMeetsNoRequest,
         ConfirmedSurvives, NotUp, storeVars
<1>4. RefusedOnlyAfterTimeout' /\ NoWorkerWithoutPool'
  BY <1>0 DEF SInv, STypeOK, AppStates, Phases, NoneActive,
         RefusedOnlyAfterTimeout, NoWorkerWithoutPool, NotUp, storeVars
<1> QED BY <1>1, <1>2, <1>3, <1>4 DEF SInv

LEMMA SendKeeps == ASSUME SInv, NEW tx \in TX, Send(tx) PROVE SInv'
<1>0. /\ call[tx] = "sending" /\ call'[tx] = "queued"
      /\ \A u \in TX \ {tx} : call'[u] = call[u]
      /\ told' \subseteq told \cup {tx}
      /\ UNCHANGED <<storeVars, env, lives, app, relay, running>>
  BY OneMoves DEF Send, Moves, SInv
<1>1. STypeOK'
  <2>1. call' \in [TX -> Calls]
    BY MovesType DEF Send, Moves, SInv
  <2> QED BY <1>0, <2>1 DEF SInv, STypeOK, storeVars
<1>2. Phases' /\ NoneActive'
  BY <1>0 DEF SInv, STypeOK, AppStates, Phases, NoneActive, NotUp, storeVars
<1>3. OnItsWay' /\ RecoveryMeetsNoRequest' /\ ConfirmedSurvives'
  BY <1>0 DEF SInv, STypeOK, AppStates, Phases, OnItsWay, RecoveryMeetsNoRequest,
         ConfirmedSurvives, NotUp, storeVars
<1>4. RefusedOnlyAfterTimeout' /\ NoWorkerWithoutPool'
  BY <1>0 DEF SInv, STypeOK, AppStates, Phases, NoneActive,
         RefusedOnlyAfterTimeout, NoWorkerWithoutPool, NotUp, storeVars
<1> QED BY <1>1, <1>2, <1>3, <1>4 DEF SInv

LEMMA ProcessKeeps == ASSUME SInv, NEW tx \in TX, Process(tx) PROVE SInv'
<1>f. CASE UNCHANGED storeVars /\ Moves(tx, "dropped")
  BY <1>f, MoveKeeps DEF Process
<1>p. CASE ProcessTX(tx) /\ Moves(tx, "processed")
  <2>0. /\ call[tx] = "taken" /\ call'[tx] = "processed"
        /\ \A u \in TX \ {tx} : call'[u] = call[u]
        /\ UNCHANGED <<env, lives, app, relay, told, running>>
    BY <1>p, OneMoves DEF Process, Moves, SInv
  <2>5. /\ status' \in [TX -> {"absent", "pending", "processing"}]
        /\ pending' \subseteq pending /\ outbox \subseteq outbox' /\ outbox' \subseteq TX
        /\ pending \cup outbox \subseteq pending' \cup outbox'
        /\ sentAt' = sentAt
    BY <1>p DEF ProcessTX, Recorded, SInv, STypeOK, AppStates,
           storeVars
  <2>1. STypeOK'
    BY <2>0, <2>5, <1>p DEF Moves, SInv, STypeOK, AppStates, RelayStates, Calls
  <2>2. Phases' /\ NoneActive'
    BY <2>0, <2>5 DEF SInv, STypeOK, AppStates, Phases, NoneActive, NotUp
  <2>3. OnItsWay' /\ RecoveryMeetsNoRequest' /\ ConfirmedSurvives'
    BY <2>0, <2>5 DEF SInv, STypeOK, AppStates, Phases, OnItsWay,
           RecoveryMeetsNoRequest, ConfirmedSurvives, NotUp
  <2>4. RefusedOnlyAfterTimeout' /\ NoWorkerWithoutPool'
    BY <2>0, <2>5 DEF SInv, STypeOK, AppStates, Phases, NoneActive,
           RefusedOnlyAfterTimeout, NoWorkerWithoutPool, NotUp
  <2> QED BY <2>1, <2>2, <2>3, <2>4 DEF SInv
<1> QED BY <1>f, <1>p DEF Process

LEMMA LeaveKeeps == ASSUME SInv, NEW tx \in TX, Leave(tx) PROVE SInv'
<1>0. /\ running' = running \ {tx}
      /\ UNCHANGED <<storeVars, env, lives, told, app, call, relay>>
  BY DEF Leave
<1>1. STypeOK'
  BY <1>0 DEF SInv, STypeOK, storeVars
<1>2. Phases' /\ NoneActive'
  BY <1>0 DEF SInv, STypeOK, AppStates, Phases, NoneActive, NotUp, storeVars
<1>3. OnItsWay' /\ RecoveryMeetsNoRequest' /\ ConfirmedSurvives'
  BY <1>0 DEF SInv, STypeOK, AppStates, Phases, OnItsWay, RecoveryMeetsNoRequest,
         ConfirmedSurvives, NotUp, storeVars
<1>4. RefusedOnlyAfterTimeout' /\ NoWorkerWithoutPool'
  BY <1>0 DEF SInv, STypeOK, AppStates, Phases, NoneActive,
         RefusedOnlyAfterTimeout, NoWorkerWithoutPool, NotUp, storeVars
<1> QED BY <1>1, <1>2, <1>3, <1>4 DEF SInv

-----------------------------------------------------------------------------
(* The steps of the outbox worker change nothing but its own state and
   sent_at, which only the types speak of. *)
LEMMA RelayOnlyKeeps ==
  ASSUME SInv, RelayOnly, UNCHANGED <<status, pending, outbox>>,
         sentAt' \subseteq outbox,
         relay' \in RelayStates
  PROVE  SInv'
<1>0. UNCHANGED <<env, lives, told, app, call, running, status, pending, outbox>>
  BY DEF RelayOnly
<1>1. STypeOK'
  BY <1>0 DEF SInv, STypeOK
<1>2. Phases' /\ NoneActive'
  BY <1>0 DEF SInv, STypeOK, AppStates, Phases, NoneActive, NotUp
<1>3. OnItsWay' /\ RecoveryMeetsNoRequest' /\ ConfirmedSurvives'
  BY <1>0 DEF SInv, STypeOK, AppStates, Phases, OnItsWay, RecoveryMeetsNoRequest,
         ConfirmedSurvives, NotUp
<1>4. RefusedOnlyAfterTimeout' /\ NoWorkerWithoutPool'
  BY <1>0 DEF SInv, STypeOK, AppStates, Phases, NoneActive,
         RefusedOnlyAfterTimeout, NoWorkerWithoutPool, NotUp
<1> QED BY <1>1, <1>2, <1>3, <1>4 DEF SInv

LEMMA RelayKeeps == ASSUME SInv, Relay PROVE SInv'
<1>0. relay \in RelayStates /\ sentAt \subseteq outbox /\ outbox \subseteq TX
  BY DEF SInv, STypeOK
<1> USE <1>0 DEF RelayStates, storeVars
<1>1. CASE StartTicker
  <2>1. CASE Ends("panicked")
    BY <2>1, EndsKeeps
  <2>2. CASE relay' = [relay EXCEPT !.at = "idle"] /\ UNCHANGED storeVars /\ RelayOnly
    BY <2>2, RelayOnlyKeeps
  <2> QED BY <1>1, <2>1, <2>2 DEF StartTicker
<1>2. CASE Fetch
  <2>1. PICK events \in SUBSET (outbox \ sentAt) :
          relay' = [at |-> "sending", batch |-> events, sent |-> {}]
    BY <1>2 DEF Fetch, FetchUnsent, Unsent
  <2>2. relay' \in RelayStates
    BY <2>1
  <2> QED BY <1>2, <2>2, RelayOnlyKeeps DEF Fetch
<1>3. CASE SendEvent
  <2>1. PICK tx \in relay.batch :
          relay' = [relay EXCEPT !.batch = @ \ {tx},
                                 !.sent = IF app.cancelled THEN @ ELSE @ \cup {tx}]
    BY <1>3 DEF SendEvent
  <2>2. relay' \in RelayStates
    BY <2>1
  <2> QED BY <1>3, <2>2, RelayOnlyKeeps DEF SendEvent
<1>4. CASE Mark
  <2>1. relay' \in RelayStates
    BY <1>4 DEF Mark
  <2>2. sentAt' \subseteq outbox /\ UNCHANGED <<status, pending, outbox>>
    BY <1>4 DEF Mark, MarkSent
  <2> QED BY <1>4, <2>1, <2>2, RelayOnlyKeeps DEF Mark
<1>5. CASE StopRelay
  BY <1>5, RelayOnlyKeeps DEF StopRelay
<1> QED BY <1>1, <1>2, <1>3, <1>4, <1>5 DEF Relay

-----------------------------------------------------------------------------
LEMMA InitEstablishes == SInit => SInv
<1> SUFFICES ASSUME SInit PROVE SInv
  OBVIOUS
<1>0. /\ app = [at |-> "load", http |-> "off", timedOut |-> FALSE,
                cancelled |-> FALSE, pool |-> "none", todo |-> {}]
      /\ call = [tx \in TX |-> "none"] /\ running = {}
      /\ relay = [at |-> "off", batch |-> {}, sent |-> {}]
  BY DEF SInit, Fresh
<1>1. STypeOK
  <2>1. lives \in 1..MaxLives
    BY EnvironmentAssumption DEF SInit
  <2>2. env \in Environments /\ told = {} /\ StoreInit
    BY DEF SInit
  <2>3. app \in AppStates /\ call \in [TX -> Calls] /\ relay \in RelayStates
    BY <1>0 DEF AppStates, Calls, RelayStates
  <2> QED BY <1>0, <2>1, <2>2, <2>3 DEF STypeOK, StoreInit
<1>2. Phases /\ NoneActive /\ OnItsWay
  BY <1>0 DEF Phases, NoneActive, OnItsWay, NotUp
<1>3. /\ RefusedOnlyAfterTimeout /\ NoWorkerWithoutPool /\ RecoveryMeetsNoRequest
      /\ ConfirmedSurvives
  BY <1>0 DEF RefusedOnlyAfterTimeout, NoWorkerWithoutPool,
         RecoveryMeetsNoRequest, ConfirmedSurvives, SInit
<1> QED BY <1>1, <1>2, <1>3 DEF SInv

LEMMA StutterKeeps == ASSUME SInv, UNCHANGED svars PROVE SInv'
<1>0. UNCHANGED <<status, pending, outbox, sentAt, env, lives, told, app, call, running,
                  relay>>
  BY DEF svars, processVars, storeVars
<1>1. STypeOK'
  BY <1>0 DEF SInv, STypeOK
<1>2. Phases' /\ NoneActive'
  BY <1>0 DEF SInv, STypeOK, AppStates, Phases, NoneActive, NotUp
<1>3. OnItsWay' /\ RecoveryMeetsNoRequest' /\ ConfirmedSurvives'
  BY <1>0 DEF SInv, STypeOK, AppStates, Phases, OnItsWay, RecoveryMeetsNoRequest,
         ConfirmedSurvives, NotUp
<1>4. RefusedOnlyAfterTimeout' /\ NoWorkerWithoutPool'
  BY <1>0 DEF SInv, STypeOK, AppStates, Phases, NoneActive,
         RefusedOnlyAfterTimeout, NoWorkerWithoutPool, NotUp
<1> QED BY <1>1, <1>2, <1>3, <1>4 DEF SInv

LEMMA NextKeeps == SInv /\ [SNext]_svars => SInv'
<1> SUFFICES ASSUME SInv, [SNext]_svars PROVE SInv'
  OBVIOUS
<1>1. CASE Main
  BY <1>1, MainKeeps
<1>2. CASE Listen \/ Signal
  BY <1>2, ListenKeeps, SignalKeeps
<1>3. CASE Relay
  BY <1>3, RelayKeeps
<1>4. CASE Kill
  BY <1>4, EndsKeeps DEF Kill
<1>5. CASE Restart
  BY <1>5, RestartKeeps
<1>6. ASSUME NEW tx \in TX, Request(tx) \/ Add(tx) \/ RunWorker(tx)
      PROVE  SInv'
  BY <1>6, RequestKeeps, InsertKeeps, LooksAtContextKeeps, TakeSlotKeeps, SendKeeps,
     RefuseKeeps, TakeKeeps, ProcessKeeps, LeaveKeeps DEF Add, RunWorker
<1>7. CASE UNCHANGED svars
  BY <1>7, StutterKeeps
<1> QED BY <1>1, <1>2, <1>3, <1>4, <1>5, <1>6, <1>7 DEF SNext

LEMMA Invariant == SSpec => []SInv
<1> QED BY InitEstablishes, NextKeeps, PTL DEF SSpec

-----------------------------------------------------------------------------
(* Every reachable state of the process, its calls and its tables is of the
   right type (main.go, config.go). *)
THEOREM ServerTypeCorrect == SSpec => []STypeOK
BY Invariant, PTL DEF SInv

(* main stops the HTTP server before it cancels the context: a request that
   was let in is turned away only after the shutdown timed out. *)
THEOREM RefusalNeedsTimeout == SSpec => []RefusedOnlyAfterTimeout
BY Invariant, PTL DEF SInv

(* main waits for the workers before it returns and so closes the pool: a
   worker without a database needs a request that outlived the timeout. *)
THEOREM WorkersKeepTheirPool == SSpec => []NoWorkerWithoutPool
BY Invariant, PTL DEF SInv

(* PandingRecovery ends before ListenAndServe begins: no payment is both
   recovered and requested in one process. *)
THEOREM RecoveryIsAlone == SSpec => []RecoveryMeetsNoRequest
BY Invariant, PTL DEF SInv

(* InsertTX comes before add, ProcessTX moves the row: a payment its client
   was told of is pending or in outbox, over any kills and shutdowns. *)
THEOREM ConfirmedAlwaysSurvives == SSpec => []ConfirmedSurvives
BY Invariant, PTL DEF SInv

=============================================================================
