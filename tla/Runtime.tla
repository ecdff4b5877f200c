------------------------------- MODULE Runtime -------------------------------
(***************************************************************************)
(* The runtime scaffolding: controller::signal and the flag its instances  *)
(* share with the operating system's handler, controller::portfolio with   *)
(* the signal controller inside it, shared_clause_exchange,                *)
(* parallel_preprocess_executor and co_fsm_adapter.  Nothing in the solver *)
(* calls them yet; they run no thread, and what races with them is the     *)
(* handler.                                                                *)
(***************************************************************************)
EXTENDS Integers, Sequences, FiniteSets

CONSTANTS
  Refs,          \* the clause references published; 0 is the invalid one
  PendingLimits, \* what a caller may set max_pending to
  HighestLimit,  \* the limit max_pending is held to (4096)
  WorkItems,     \* what a caller may set the work item count to
  Threads,       \* what a caller may set a budget to
  HighestBudget, \* the limit the budgets are held to (256 threads, 64 strategies)
  MaxSteps       \* bound: calls of the runtime, and signals

ASSUME RuntimeAssumption ==
  /\ 0 \notin Refs
  /\ PendingLimits \subseteq Nat /\ WorkItems \subseteq Nat /\ Threads \subseteq Nat
  /\ HighestLimit \in Nat \ {0} /\ HighestBudget \in Nat \ {0}
  /\ MaxSteps \in Nat

VARIABLES
  pendingSignal, \* signal::pending_signal_, one for the process
  handled,       \* is the handler installed with the operating system?
  signals,       \* the two controllers: the portfolio's and the program's own
  portfolio,     \* launched_, cancelled_, collected_ and the counters
  exchange,      \* pending_refs_, max_pending_ and the counters
  executor,      \* the executor's counters and settings
  adapter,       \* co_fsm_adapter
  wanted,        \* history: the controllers on which a stop was asked for, by
                 \* a call or a signal, and not cleared through that controller
  swept,         \* history: the controllers whose signal another one cleared
  steps

runtimeVars == <<pendingSignal, handled, signals, portfolio, exchange, executor,
                 adapter, wanted, swept, steps>>

Controllers == {"embedded", "main"}
signalVars == <<pendingSignal, handled, signals, wanted, swept>>

Stepped == steps < MaxSteps /\ steps' = steps + 1
Others(c) == Controllers \ {c}

-----------------------------------------------------------------------------
(* Signals.                                                                *)

\* a bug: the handler's flag is not looked at
RequestedDirectly(c) == signals[c].requested

TerminationRequested(c) == signals[c].requested \/ pendingSignal

InstallHandlers ==
  /\ Stepped
  /\ ~signals["main"].installed
  /\ handled' = TRUE
  /\ signals' = [signals EXCEPT !["main"].installed = TRUE]
  /\ UNCHANGED <<pendingSignal, wanted, swept, portfolio, exchange, executor, adapter>>

\* the handler runs between two calls; it sets the flag and nothing else
HandleSignal ==
  /\ Stepped
  /\ handled
  /\ pendingSignal' = TRUE
  /\ wanted' = Controllers
  /\ swept' = {}
  /\ UNCHANGED <<handled, signals, portfolio, exchange, executor, adapter>>

Stopping(c) ==
  /\ signals' = [signals EXCEPT ![c].requested = TRUE]
  /\ wanted' = wanted \cup {c}
  /\ swept' = swept \ {c}

RequestStop ==
  /\ Stepped
  /\ Stopping("main")
  /\ UNCHANGED <<pendingSignal, handled, portfolio, exchange, executor, adapter>>

NotifyOsSignal ==
  /\ Stepped
  /\ signals["main"].installed
  /\ Stopping("main")
  /\ UNCHANGED <<pendingSignal, handled, portfolio, exchange, executor, adapter>>

\* clear: the controller's own request, and the flag of them all
Clearing(c) ==
  /\ signals' = [signals EXCEPT ![c].requested = FALSE]
  /\ pendingSignal' = FALSE
  /\ wanted' = wanted \ {c}
  /\ swept' = (swept \ {c}) \cup {d \in Others(c) : pendingSignal /\ ~signals[d].requested}

Clear ==
  /\ Stepped
  /\ Clearing("main")
  /\ UNCHANGED <<handled, portfolio, exchange, executor, adapter>>

\* reset_metrics also forgets that the handlers are installed, though the
\* operating system keeps them
ResetSignals ==
  /\ Stepped
  /\ signals' = [signals EXCEPT !["main"] = [requested |-> FALSE, installed |-> FALSE]]
  /\ pendingSignal' = FALSE
  /\ wanted' = wanted \ {"main"}
  /\ swept' = (swept \ {"main"}) \cup {d \in {"embedded"} : pendingSignal /\ ~signals[d].requested}
  /\ UNCHANGED <<handled, portfolio, exchange, executor, adapter>>

-----------------------------------------------------------------------------
(* The portfolio.                                                          *)

LaunchStrategies ==
  /\ Stepped
  /\ portfolio' = [portfolio EXCEPT !.launched = TRUE, !.cancelled = FALSE, !.collected = FALSE, !.launches = @ + 1]
  /\ Clearing("embedded")
  /\ UNCHANGED <<handled, exchange, executor, adapter>>

CancelOthersOnResult ==
  /\ Stepped
  /\ portfolio.launched /\ ~portfolio.cancelled
  /\ portfolio' = [portfolio EXCEPT !.cancelled = TRUE, !.cancels = @ + 1]
  /\ Stopping("embedded")
  /\ UNCHANGED <<pendingSignal, handled, exchange, executor, adapter>>

CollectWinner ==
  /\ Stepped
  /\ portfolio.launched /\ ~portfolio.collected
  /\ portfolio' = [portfolio EXCEPT !.collected = TRUE, !.collects = @ + 1]
  /\ UNCHANGED <<signalVars, exchange, executor, adapter>>

Clamp(n, low, high) == IF n < low THEN low ELSE IF n > high THEN high ELSE n

SetStrategyBudget ==
  /\ Stepped
  /\ \E n \in Threads : portfolio' = [portfolio EXCEPT !.budget = Clamp(n, 1, HighestBudget)]
  /\ UNCHANGED <<signalVars, exchange, executor, adapter>>

NoPortfolio == [launched |-> FALSE, cancelled |-> FALSE, collected |-> FALSE,
                launches |-> 0, cancels |-> 0, collects |-> 0, budget |-> 1]

ResetLifecycle ==
  /\ Stepped
  /\ portfolio' = NoPortfolio
  /\ signals' = [signals EXCEPT !["embedded"] = [requested |-> FALSE, installed |-> FALSE]]
  /\ pendingSignal' = FALSE
  /\ wanted' = wanted \ {"embedded"}
  /\ swept' = (swept \ {"embedded"}) \cup {d \in {"main"} : pendingSignal /\ ~signals[d].requested}
  /\ UNCHANGED <<handled, exchange, executor, adapter>>

-----------------------------------------------------------------------------
(* The clause exchange.                                                    *)

NoExchange(limit) == [pending |-> <<>>, attempts |-> 0, invalid |-> 0, duplicates |-> 0, truncated |-> 0, drained |-> 0,
                      limit |-> limit]
Pending == {exchange.pending[i] : i \in DOMAIN exchange.pending}

PublishClause ==
  /\ Stepped
  /\ \E ref \in Refs \cup {0} :
       exchange' =
         LET tried == [exchange EXCEPT !.attempts = @ + 1] IN
         CASE ref = 0 -> [tried EXCEPT !.invalid = @ + 1]
           [] ref # 0 /\ ref \in Pending -> [tried EXCEPT !.duplicates = @ + 1]
           [] ref # 0 /\ ref \notin Pending -> [tried EXCEPT !.pending = Append(@, ref)]
  /\ UNCHANGED <<signalVars, portfolio, executor, adapter>>

DrainIncoming ==
  /\ Stepped
  /\ exchange.pending # <<>>
  /\ exchange' = [exchange EXCEPT !.drained = @ + Len(exchange.pending), !.pending = <<>>]
  /\ UNCHANGED <<signalVars, portfolio, executor, adapter>>

\* apply_exchange_policy: the newest beyond the limit are given up
ApplyExchangePolicy ==
  /\ Stepped
  /\ Len(exchange.pending) > exchange.limit
  /\ exchange' = [exchange EXCEPT !.truncated = @ + Len(exchange.pending) - exchange.limit,
                                  !.pending = SubSeq(@, 1, exchange.limit)]
  /\ UNCHANGED <<signalVars, portfolio, executor, adapter>>

SetMaxPending ==
  /\ Stepped
  /\ \E n \in PendingLimits : exchange' = [exchange EXCEPT !.limit = Clamp(n, 1, HighestLimit)]
  /\ UNCHANGED <<signalVars, portfolio, executor, adapter>>

StartLimit == Clamp(4, 1, HighestLimit)

\* reset_exchange_state keeps the limit, reset_exchange_metrics does not
ResetExchangeState ==
  /\ Stepped
  /\ \E limit \in {exchange.limit, StartLimit} : exchange' = NoExchange(limit)
  /\ UNCHANGED <<signalVars, portfolio, executor, adapter>>

-----------------------------------------------------------------------------
(* The executor and the adapter.                                           *)

SetWork ==
  /\ Stepped
  /\ \/ \E n \in Threads : executor' = [executor EXCEPT !.budget = Clamp(n, 1, HighestBudget)]
     \/ \E n \in WorkItems : executor' = [executor EXCEPT !.items = n]
  /\ UNCHANGED <<signalVars, portfolio, exchange, adapter>>

ChunkSize(items, threads) == items \div threads + (IF items % threads # 0 THEN 1 ELSE 0)

RunParallelPass ==
  /\ Stepped
  /\ executor' = [executor EXCEPT !.runs = @ + 1, !.processed = @ + executor.items,
                                  !.chunk = ChunkSize(executor.items, executor.budget),
                                  !.ran = [items |-> executor.items, budget |-> executor.budget]]
  /\ UNCHANGED <<signalVars, portfolio, exchange, adapter>>

MergeDeterministicResult ==
  /\ Stepped
  /\ executor' = IF executor.merges < executor.runs THEN [executor EXCEPT !.merges = @ + 1]
                 ELSE [executor EXCEPT !.skipped = @ + 1]
  /\ UNCHANGED <<signalVars, portfolio, exchange, adapter>>

\* `ran` is a history: the settings of the last pass
NoExecution == [runs |-> 0, merges |-> 0, budget |-> 1, skipped |-> 0, items |-> 0, chunk |-> 0, processed |-> 0,
                ran |-> [items |-> 0, budget |-> 1]]

ResetExecution ==
  /\ Stepped
  /\ executor' = NoExecution
  /\ UNCHANGED <<signalVars, portfolio, exchange, adapter>>

NoAdapter == [active |-> FALSE, activations |-> 0, deactivations |-> 0, epoch |-> 0, last |-> 0]

ResetAdapter ==
  /\ Stepped
  /\ adapter' = NoAdapter
  /\ UNCHANGED <<signalVars, portfolio, exchange, executor>>

\* activate, deactivate: each counts only when it changes something
SwitchAdapter ==
  /\ Stepped
  /\ adapter' = [active |-> ~adapter.active,
                 activations |-> adapter.activations + (IF adapter.active THEN 0 ELSE 1),
                 deactivations |-> adapter.deactivations + (IF adapter.active THEN 1 ELSE 0),
                 epoch |-> adapter.epoch + 1,
                 last |-> IF adapter.active THEN adapter.last ELSE adapter.epoch + 1]
  /\ UNCHANGED <<signalVars, portfolio, exchange, executor>>

-----------------------------------------------------------------------------
RuntimeInit ==
  /\ pendingSignal = FALSE
  /\ handled = FALSE
  /\ signals = [c \in Controllers |-> [requested |-> FALSE, installed |-> FALSE]]
  /\ portfolio = NoPortfolio
  /\ exchange = NoExchange(StartLimit)
  /\ executor = NoExecution
  /\ adapter = NoAdapter
  /\ wanted = {}
  /\ swept = {}
  /\ steps = 0

RuntimeNext ==
  \/ InstallHandlers \/ HandleSignal \/ RequestStop \/ NotifyOsSignal \/ Clear \/ ResetSignals
  \/ LaunchStrategies \/ CancelOthersOnResult \/ CollectWinner \/ SetStrategyBudget \/ ResetLifecycle
  \/ PublishClause \/ DrainIncoming \/ ApplyExchangePolicy \/ SetMaxPending \/ ResetExchangeState
  \/ SetWork \/ RunParallelPass \/ MergeDeterministicResult \/ ResetExecution
  \/ SwitchAdapter \/ ResetAdapter

RuntimeSpec == RuntimeInit /\ [][RuntimeNext]_runtimeVars

-----------------------------------------------------------------------------
\* A stop that was asked for is seen until it is cleared through the controller
\* it was asked of - but for a signal another controller cleared, the one way
\* in which a request is lost; and a cancelled portfolio's instances are asked
\* to stop (controller::signal, controller::portfolio).
StopsAreSeen ==
  /\ \A c \in wanted \ swept : TerminationRequested(c)
  /\ portfolio.cancelled => TerminationRequested("embedded")
  /\ portfolio.cancels <= portfolio.launches /\ portfolio.collects <= portfolio.launches

\* Every clause offered is pending, drained or counted as given up, and no
\* pending clause is there twice; a merge has a pass to merge, and the chunks
\* of a pass cover its items without an idle chunk more than needed
\* (shared_clause_exchange, parallel_preprocess_executor).
NothingUncounted ==
  /\ exchange.attempts = exchange.invalid + exchange.duplicates + exchange.truncated
                           + exchange.drained + Len(exchange.pending)
  /\ Cardinality(Pending) = Len(exchange.pending)
  /\ executor.merges <= executor.runs
  /\ LET ran == executor.ran IN
       /\ executor.chunk * ran.budget >= ran.items
       /\ (executor.chunk - 1) * ran.budget < ran.items \/ executor.chunk = 0
  /\ adapter.epoch = adapter.activations + adapter.deactivations

\* The runtime forgets no request to stop and no clause offered to it.
RuntimeKept == StopsAreSeen /\ NothingUncounted
=============================================================================
