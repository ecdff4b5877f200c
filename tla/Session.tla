------------------------------- MODULE Session -------------------------------
(***************************************************************************)
(* The session facade (solver.cpp), the IPASIR adapter on top of it and    *)
(* the part of solver_core a session sees: the stated clauses, the option  *)
(* values, the answer, and the buffer of proof events.  A solve call is    *)
(* one step: its callbacks run inside it, and a session has one caller.    *)
(* The search itself is its contract: Cdcl is where it is modelled.        *)
(***************************************************************************)
EXTENDS Integers, Sequences, FiniteSets, SequencesExt

CONSTANTS
  NumVars,
  Clauses,      \* the clauses the caller may state, as sets of literals
  Assumables,   \* the literals it may assume
  Lemmas,       \* the clauses the search may learn, where the formula implies them
  Requests,     \* the requests it solves with: option values and own assumptions
  OptionValues, \* a set of <<option, value>> it may set
  Profiles,     \* the profiles it may load
  MaxReports,   \* solver.cpp keeps the last 64 reports
  Callers       \* how often it makes each call, by kind of call

ASSUME SessionConstants == NumVars \in Nat \ {0} /\ MaxReports \in Nat \ {0}

Vars == 1..NumVars
Lits == {l \in -NumVars..NumVars : l # 0}

\* A caller names literals only, and a request carries a set of them.
ASSUME SessionCallers ==
  /\ Clauses \subseteq SUBSET Lits /\ Assumables \subseteq Lits
  /\ \A request \in Requests : request.assumptions \subseteq Lits

VARIABLES
  stated,      \* the core's formula
  maxVar,      \* the highest variable a clause named
  pushed,      \* the option values the core runs with
  marked,      \* the core's persistent-option mark
  consumer,    \* a proof consumer is registered with the core
  events,      \* the core's buffered proof events
  pending,     \* the clause being assembled
  assumptions, \* the assumptions gathered
  lookup,      \* the last model, by variable
  failedCore,  \* the last failed core
  state,       \* solver_state_machine's state
  configured,  \* the option values the caller configured
  profile,     \* the active profile
  sink,        \* a proof sink was attached to the facade
  consumed,    \* how many events the learn callback has seen
  callbacks,   \* what the callbacks do
  statistics,  \* counters
  snapshots,   \* those of the last reports
  \* what the properties compare with, read by no step
  answered,    \* the formula, the assumptions and the verdict of the last answer
  delivered,   \* what the learn callback was handed: derivations and failed cores
  callsLeft    \* the calls left

coreVars == <<stated, maxVar, consumer, events>>
optionVars == <<pushed, marked, configured, profile>>
inputVars == <<pending, assumptions>>
answerVars == <<lookup, failedCore, answered>>
learnVars == <<consumed, delivered>>
reportVars == <<statistics, snapshots>>
sessionVars == <<coreVars, optionVars, inputVars, answerVars, learnVars, reportVars,
                 state, sink, callbacks, callsLeft>>

Spend(call) == callsLeft[call] > 0 /\ callsLeft' = [callsLeft EXCEPT ![call] = @ - 1]

--------------------------------------------------------------------------------
(* Options.  Unset is both "not configured" and "the core's own default".  *)

Unset == -1
AllPasses == 1048575

RequestOptions == {"conflict_limit", "decision_limit", "enabled_pass_mask", "strict_mode"}
\* Pushed to the core by every update, as configured or else as this default.
FacadeDefaults ==
  [decision_conflict_maintenance_interval |-> 16, decision_chb_decay_interval |-> 8,
   decision_restart_decay_interval |-> 4, restart_interval |-> 4096,
   decision_restart_interval |-> 0, reduction_interval |-> 1000, chb_enabled |-> 0,
   reduction_fraction_percent |-> 75, activity_retention_threshold_percent |-> 200,
   glue_restart_threshold_percent |-> 0, cold_storage_enabled |-> 0]
\* Pushed only while configured.
StickyOptions == {"inprocess_conflict_window", "local_search_flips_per_variable",
                  "local_search_effort_percent"}
Options == RequestOptions \cup DOMAIN FacadeDefaults \cup StickyOptions
CoreOptions == (Options \ RequestOptions) \cup {"enabled_pass_mask"}

\* The value an option takes: flags are 0 or 1, and a value out of an option's
\* range withdraws it.
Taken(o, v) ==
  CASE o \in {"strict_mode", "chb_enabled", "cold_storage_enabled"} -> IF v = 0 THEN 0 ELSE 1
    [] o = "reduction_fraction_percent" -> IF v \in 1..100 THEN v ELSE Unset
    [] o = "glue_restart_threshold_percent" -> IF v = 0 \/ v > 100 THEN v ELSE Unset
    [] o = "inprocess_conflict_window" -> IF v > 0 THEN v ELSE Unset
    [] OTHER -> IF v >= 0 THEN v ELSE Unset

Preset(p) ==
  CASE p = "safe" -> [strict_mode |-> 1, enabled_pass_mask |-> 0]
    [] p = "balanced" -> [strict_mode |-> 0, enabled_pass_mask |-> AllPasses]
    [] p = "bounded" -> [conflict_limit |-> 1000, decision_limit |-> 10000]
    [] p = "aggressive" -> [strict_mode |-> 0, enabled_pass_mask |-> AllPasses,
                            conflict_limit |-> 0, decision_limit |-> 0]
NothingConfigured == [o \in Options |-> Unset]
Loaded(p) == [o \in Options |-> IF o \in DOMAIN Preset(p) THEN Preset(p)[o] ELSE Unset]

\* apply_core_configuration
Clamped(o, v) == IF o = "local_search_effort_percent" /\ v > 100 THEN 100 ELSE v
\* A default that is not pushed back when an option is withdrawn.
InForceOnceSet(o, conf, core) == IF conf[o] # Unset THEN conf[o] ELSE core[o]
InForce(o, conf, core) == IF conf[o] # Unset THEN conf[o] ELSE FacadeDefaults[o]
Pushed(conf, core) ==
  [o \in CoreOptions |->
     IF o \in DOMAIN FacadeDefaults THEN InForce(o, conf, core)
     ELSE IF o \in StickyOptions THEN Clamped(o, InForceOnceSet(o, conf, core))
     ELSE core[o]]

\* has_persisted_configuration does not ask for the local-search options.
HasPersisted ==
  \/ profile # "none"
  \/ \E o \in Options \ {"local_search_flips_per_variable", "local_search_effort_percent"} :
       configured[o] # Unset

\* apply_persisted_configuration: a request's own value wins unless it is zero.
Merged(request) ==
  [o \in RequestOptions |->
     IF request[o] = 0 /\ configured[o] # Unset THEN configured[o] ELSE request[o]]

--------------------------------------------------------------------------------
(* Clauses, models and the core's answers                                  *)

Proper(c) == \A l \in c : -l \notin c
With(f, c) == IF Proper(c) THEN f \cup {c} ELSE f
\* The highest of n and the variables of c.
Highest(n, c) ==
  CHOOSE k \in {n} \cup {l \in Vars : l \in c \/ -l \in c} :
    \A l \in c \cup {n} : k >= l /\ k >= -l
OriginalEvents(c) ==
  IF consumer /\ Proper(c) THEN <<[kind |-> "add_original", lits |-> c]>> ELSE <<>>

\* flush_pending_clause
FlushedStated == IF pending = {} THEN stated ELSE With(stated, pending)
FlushedMax == Highest(maxVar, pending)
FlushedEvents == IF pending = {} THEN events ELSE events \o OriginalEvents(pending)

Satisfies(m, f) == \A c \in f : m \cap c # {}
Assignments(n) == {m \in SUBSET Lits : /\ \A v \in 1..n : (v \in m) # (-v \in m)
                                       /\ \A l \in m : l \in -n..n}
Entailed(f, c) == \A m \in Assignments(NumVars) : Satisfies(m, f) => m \cap c # {}

\* What solver_core::solve may answer (SatContract), with a model of every
\* variable up to the highest the formula or an assumption names.
CoreAnswers(f, n, given, limited) ==
  {[verdict |-> "sat", model |-> m, core |-> {}] :
     m \in {m \in Assignments(n) : Satisfies(m, f) /\ given \subseteq m}}
  \cup {[verdict |-> "unsat", model |-> {}, core |-> k] :
          k \in {k \in SUBSET given : Entailed(f, {-l : l \in k})}}
  \cup (IF limited
        THEN {[verdict |-> "unknown", model |-> {}, core |-> k] : k \in SUBSET given}
        ELSE {})

Valued(m) == {v \in Vars : v \in m \/ -v \in m}
\* A lookup that is written over, never cleared.
LookupKept(m) ==
  [v \in Valued(m) \cup DOMAIN lookup |-> IF v \in Valued(m) THEN v \in m ELSE lookup[v]]
\* refresh_model_lookup
Lookup(m) == [v \in Valued(m) |-> v \in m]

--------------------------------------------------------------------------------
(* Statistics                                                              *)

Counters == {"learn_callback_calls", "terminate_callback_calls", "updates"}
Counted(s, c, n) == [s EXCEPT ![c] = @ + n]
ResetCounters == [c \in Counters |-> 0]
Monotonic(before, after) == \A c \in Counters : after[c] >= before[c]

SnapshotsKept == snapshots
SnapshotsLeft == <<>>
\* emit_statistics_report_checkpoint
Reported(list, s) ==
  LET longer == Append(list, s)
  IN IF Len(longer) > MaxReports THEN Tail(longer) ELSE longer

--------------------------------------------------------------------------------
(* Editing the session                                                     *)

SessionInit ==
  /\ stated = {} /\ maxVar = 0 /\ consumer = FALSE /\ events = <<>>
  /\ configured = NothingConfigured /\ profile = "none"
  /\ pushed = Pushed(NothingConfigured, [o \in CoreOptions |-> Unset]) /\ marked = FALSE
  /\ pending = {} /\ assumptions = {}
  /\ lookup = <<>> /\ failedCore = {}
  /\ answered = [formula |-> {}, given |-> {}, verdict |-> "none"]
  /\ consumed = 0 /\ delivered = <<>>
  /\ statistics = ResetCounters /\ snapshots = <<>>
  /\ state = "configuring" /\ sink = FALSE
  /\ callbacks = [terminate |-> "none", learn |-> FALSE]
  /\ callsLeft \in Callers

AddLiteral(l) ==
  /\ Spend("literal")
  /\ pending' = pending \cup {l}
  /\ state' = "adding"
  /\ UNCHANGED <<coreVars, optionVars, assumptions, answerVars, learnVars, reportVars,
                 sink, callbacks>>
\* The 0 that ends a clause; on its own it states the empty clause.
EndClause ==
  /\ Spend("literal")
  /\ stated' = With(stated, pending)
  /\ maxVar' = FlushedMax
  /\ events' = events \o OriginalEvents(pending)
  /\ pending' = {}
  /\ state' = "adding"
  /\ UNCHANGED <<consumer, optionVars, assumptions, answerVars, learnVars, reportVars,
                 sink, callbacks>>

AddWholeClause(c) ==
  /\ Spend("clause")
  /\ stated' = With(FlushedStated, c)
  /\ maxVar' = Highest(FlushedMax, c)
  /\ events' = FlushedEvents \o OriginalEvents(c)
  /\ pending' = {}
  /\ state' = "adding"
  /\ UNCHANGED <<consumer, optionVars, assumptions, answerVars, learnVars, reportVars,
                 sink, callbacks>>

Assume(l) ==
  /\ Spend("assume")
  /\ assumptions' = assumptions \cup {l}
  /\ state' = "adding"
  /\ UNCHANGED <<coreVars, optionVars, pending, answerVars, learnVars, reportVars,
                 sink, callbacks>>

ReleaseAssumptions ==
  /\ Spend("release")
  /\ assumptions' = {}
  /\ UNCHANGED <<coreVars, optionVars, pending, answerVars, learnVars, reportVars,
                 state, sink, callbacks>>

SetOption(o, v) ==
  /\ Spend("option")
  /\ configured' = [configured EXCEPT ![o] = Taken(o, v)]
  /\ pushed' = Pushed(configured', pushed)
  /\ marked' = TRUE
  /\ statistics' = Counted(statistics, "updates", 1)
  /\ UNCHANGED <<coreVars, profile, inputVars, answerVars, learnVars, snapshots,
                 state, sink, callbacks>>

SetConfiguration(p) ==
  /\ Spend("profile")
  /\ configured' = Loaded(p)
  /\ profile' = p
  /\ pushed' = Pushed(configured', pushed)
  /\ marked' = TRUE
  /\ statistics' = Counted(statistics, "updates", 1)
  /\ UNCHANGED <<coreVars, inputVars, answerVars, learnVars, snapshots,
                 state, sink, callbacks>>

\* Also the adapter's answer to a profile name it does not know.
ClearPersistedConfiguration ==
  /\ Spend("clear")
  /\ configured' = NothingConfigured
  /\ profile' = "none"
  /\ UNCHANGED <<coreVars, pushed, marked, inputVars, answerVars, learnVars, reportVars,
                 state, sink, callbacks>>

AttachProofSink ==
  /\ Spend("attach")
  /\ sink' = TRUE
  /\ consumer' = TRUE
  /\ UNCHANGED <<stated, maxVar, events, optionVars, inputVars, answerVars, learnVars,
                 reportVars, state, callbacks>>

SetTerminate(answer) ==
  /\ Spend("terminate")
  /\ callbacks' = [callbacks EXCEPT !.terminate = answer]
  /\ UNCHANGED <<coreVars, optionVars, inputVars, answerVars, learnVars, reportVars,
                 state, sink>>

SetLearn(on) ==
  /\ Spend("learn")
  /\ callbacks' = [callbacks EXCEPT !.learn = on]
  /\ UNCHANGED <<coreVars, optionVars, inputVars, answerVars, learnVars, reportVars,
                 state, sink>>

ResetSession ==
  /\ Spend("reset")
  /\ stated' = {} /\ maxVar' = 0 /\ events' = <<>>
  /\ consumer' = sink
  /\ pushed' = Pushed(configured,
       [o \in CoreOptions |->
          IF o \in {"local_search_flips_per_variable", "local_search_effort_percent"}
          THEN pushed[o] ELSE Unset])
  /\ marked' = HasPersisted
  /\ pending' = {} /\ assumptions' = {}
  /\ lookup' = <<>> /\ failedCore' = {}
  /\ answered' = [formula |-> {}, given |-> {}, verdict |-> "none"]
  /\ consumed' = 0 /\ delivered' = <<>>
  /\ statistics' = ResetCounters
  /\ snapshots' = SnapshotsLeft
  /\ state' = "configuring"
  /\ UNCHANGED <<configured, profile, sink, callbacks>>

--------------------------------------------------------------------------------
(* Solving                                                                 *)

\* The callback stops the call before the core runs.
SolveTerminated ==
  /\ Spend("solve")
  /\ callbacks.terminate = "stop"
  /\ stated' = FlushedStated /\ maxVar' = FlushedMax /\ events' = FlushedEvents
  /\ pending' = {}
  /\ statistics' = Counted(statistics, "terminate_callback_calls", 1)
  /\ snapshots' = Reported(Reported(snapshots, statistics), statistics')
  /\ state' = "steady"
  /\ UNCHANGED <<consumer, optionVars, assumptions, answerVars, learnVars, sink, callbacks>>

\* The derivations of a list of events, in its order; an empty clause is none.
Derived(evs) ==
  LET kept[n \in 0..Len(evs)] ==
        IF n = 0 THEN <<>>
        ELSE IF evs[n].kind = "add_derived" /\ evs[n].lits # {}
             THEN Append(kept[n - 1], evs[n]) ELSE kept[n - 1]
  IN kept[Len(evs)]
\* The clauses handed over after a solve: those of the events not yet seen, or
\* the failed core when there is none.
SeenFrom(evs) == IF consumed > Len(evs) THEN 0 ELSE consumed
Replayed(evs, answer) ==
  LET fresh == Derived(SubSeq(evs, SeenFrom(evs) + 1, Len(evs)))
  IN IF fresh = <<>> /\ answer.verdict = "unsat" /\ answer.core # {}
     THEN <<[kind |-> "core", lits |-> answer.core]>> ELSE fresh
SeenDerived(evs) == Len(Derived(evs))
Seen(evs) == Len(evs)

\* map_status and the transition it takes
Outcome(verdict) == IF verdict = "unknown" THEN "steady" ELSE verdict

AssumptionsKept == assumptions
AssumptionsLeft == {}

\* The core's events of one solve: what it learned, if anyone listens.
LearnedEvents(lemmas) == [i \in 1..Len(lemmas) |-> [kind |-> "add_derived", lits |-> lemmas[i]]]
Conclusion == IF consumer THEN <<[kind |-> "conclusion", lits |-> {}]>> ELSE <<>>

Solve(request, lemmas) ==
  /\ Spend("solve")
  /\ callbacks.terminate # "stop"
  /\ LET effective == Merged(request)
         given == assumptions \cup request.assumptions
         limited == effective.conflict_limit # 0 \/ effective.decision_limit # 0
         evs == FlushedEvents \o LearnedEvents(lemmas)
     IN \E answer \in CoreAnswers(FlushedStated, Highest(FlushedMax, given), given, limited) :
        /\ consumer \/ lemmas = <<>>
        /\ \A i \in 1..Len(lemmas) : Entailed(FlushedStated, lemmas[i])
        /\ pushed' = [pushed EXCEPT !["enabled_pass_mask"] =
             IF effective.enabled_pass_mask # 0 THEN effective.enabled_pass_mask ELSE @]
        /\ lookup' = Lookup(answer.model)
        /\ failedCore' = answer.core
        /\ answered' = [formula |-> FlushedStated, given |-> given, verdict |-> answer.verdict]
        /\ state' = Outcome(answer.verdict)
        /\ IF callbacks.learn
           THEN /\ delivered' = delivered \o Replayed(evs, answer)
                /\ consumed' = Seen(evs)
           ELSE UNCHANGED learnVars
        /\ LET polled == IF callbacks.terminate = "none" THEN 0 ELSE 1
               called == IF callbacks.learn THEN Len(Replayed(evs, answer)) ELSE 0
           IN /\ statistics' =
                   Counted(Counted(statistics, "terminate_callback_calls", polled),
                           "learn_callback_calls", called)
              /\ snapshots' = Reported(Reported(snapshots, statistics), statistics')
        /\ events' = evs \o Conclusion
  /\ stated' = FlushedStated /\ maxVar' = FlushedMax
  /\ pending' = {}
  /\ assumptions' = AssumptionsLeft
  /\ UNCHANGED <<consumer, marked, configured, profile, sink, callbacks>>

SessionNext ==
  \/ \E l \in Lits : (\E c \in Clauses : pending \cup {l} \subseteq c) /\ AddLiteral(l)
  \/ EndClause
  \/ \E c \in Clauses : AddWholeClause(c)
  \/ \E l \in Assumables : Assume(l)
  \/ ReleaseAssumptions
  \/ \E ov \in OptionValues : SetOption(ov[1], ov[2])
  \/ \E p \in Profiles : SetConfiguration(p)
  \/ ClearPersistedConfiguration
  \/ AttachProofSink
  \/ \E answer \in {"stop", "continue"} : SetTerminate(answer)
  \/ \E on \in BOOLEAN : SetLearn(on)
  \/ ResetSession
  \/ SolveTerminated
  \/ \E request \in Requests, lemmas \in {<<>>} \cup {<<c>> : c \in Lemmas} :
       Solve(request, lemmas)

SessionSpec == SessionInit /\ [][SessionNext]_sessionVars

--------------------------------------------------------------------------------
(* What a caller reads: value_of and failed, and the IPASIR adapter on top *)

Known(v) == v \in DOMAIN lookup
Failed(l) == l \in failedCore

IpasirVerdict == CASE state = "sat" -> 10 [] state = "unsat" -> 20 [] OTHER -> 0
IpasirVal(l) ==
  LET v == IF l > 0 THEN l ELSE -l
  IN IF ~Known(v) THEN 0 ELSE IF (l > 0) = lookup[v] THEN l ELSE -l
IpasirFailed(l) == Failed(l)

--------------------------------------------------------------------------------
(* Properties                                                              *)

\* The session implements its contract: what an IPASIR caller reads after a
\* call is an answer about the formula and the assumptions of that call.
Contract == INSTANCE SessionContract WITH
  formula <- stated, partial <- pending, assumptions <- assumptions,
  verdict <- IpasirVerdict,
  model <- IF state = "sat" THEN {IpasirVal(v) : v \in Vars} \ {0} ELSE {},
  failed <- IF state = "unsat" THEN {l \in Lits : IpasirFailed(l)} ELSE {}
ImplementsContract == Contract!Spec

\* Values and failed assumptions stay readable after edits and after a call
\* that was terminated; whatever is read is then of the last answered call
\* (solver::value_of, failed), never a mixture of two.
ReadsAreOfOneAnswer ==
  LET m == {IpasirVal(v) : v \in Vars} \ {0}
  IN /\ lookup # <<>> =>
          /\ answered.verdict = "sat" /\ failedCore = {}
          /\ Satisfies(m, answered.formula) /\ answered.given \subseteq m
     /\ failedCore # {} /\ answered.verdict = "unsat" =>
          /\ failedCore \subseteq answered.given
          /\ Entailed(answered.formula, {-l : l \in failedCore})

\* The learn callback hands over every buffered derivation once, in order,
\* whatever solves, terminations and resets come between: the failed cores it
\* gets in place of a derivation aside (solver::solve).
LearnedOnceInOrder ==
  /\ consumed <= Len(events)
  /\ Derived(delivered) = Derived(SubSeq(events, 1, consumed))

\* After any update the core runs with what is configured or the default; an
\* option withdrawn or left out by a profile does not linger.  The options the
\* facade pushes only while configured, and the time between a clear and the
\* next update, are the exceptions (apply_core_configuration).
CoreFollowsConfiguration ==
  [][configured' # configured /\ pushed' # pushed =>
       /\ \A o \in DOMAIN FacadeDefaults :
            pushed'[o] = IF configured'[o] = Unset THEN FacadeDefaults[o] ELSE configured'[o]
       /\ \A o \in StickyOptions :
            pushed'[o] \in {configured'[o], pushed[o], 100}]_sessionVars

\* The reports kept are of one session each and grow from one to the next
\* (solver::emitted_statistics_snapshot_tail_monotonic).
ReportsMonotonic ==
  /\ Len(snapshots) <= MaxReports
  /\ \A i \in 1..(Len(snapshots) - 1) : Monotonic(snapshots[i], snapshots[i + 1])

\* Whatever the caller reads, values, a failed core or the kept reports, belongs
\* together.
ReadsConsistent == ReadsAreOfOneAnswer /\ ReportsMonotonic

\* An event with its clause: an original one over the session's variables, a
\* derived one as the search learned it.
Events == [kind : {"add_original", "add_derived", "conclusion", "core"},
           lits : (SUBSET Lits) \cup Lemmas]

\* Why it stays so: the last report kept is not ahead of the counters, and the
\* events the callback has seen are a part of those there are.
SessionInv ==
  /\ events \in Seq(Events) /\ delivered \in Seq(Events) /\ consumed \in Nat
  /\ LearnedOnceInOrder
  /\ stated \subseteq SUBSET Lits /\ maxVar \in 0..NumVars
  /\ pending \subseteq Lits /\ assumptions \subseteq Lits /\ failedCore \subseteq Lits
  /\ statistics \in [Counters -> Nat] /\ snapshots \in Seq([Counters -> Nat])
  /\ snapshots # <<>> => Monotonic(snapshots[Len(snapshots)], statistics)
  /\ ReadsConsistent

\* option_id.hpp: the safe profile runs with "every simplification pass disabled".
SafeDisablesPasses ==
  profile = "safe" /\ answered.verdict # "none" => pushed["enabled_pass_mask"] = 0

\* solver.hpp: the learn callback is "invoked with learned clause literals", so
\* what it is handed follows from the formula.
LearnedAreImplied == \A i \in 1..Len(delivered) : Entailed(stated, delivered[i].lits)
=============================================================================
