----------------------------- MODULE Scheduling -----------------------------
(***************************************************************************)
(* When the search restarts, changes its mode and simplifies: the restart   *)
(* controller, the coordinator's counters, solver_core's alternation of a   *)
(* focused and a stable mode, and scheduler::inprocess with its adaptive    *)
(* windows, over several episodes of one session.  What the search finds is *)
(* left out: a conflict, or the end of an episode, may come at any time.    *)
(***************************************************************************)
EXTENDS Integers, Sequences, FiniteSets, SequencesExt, FiniteSetsExt, Functions

CONSTANTS
    FocusedInterval,  \* focused_restart_interval
    StableInterval,   \* stable_restart_interval_
    DecisionInterval, \* decision_restart_interval_, 0 for none
    InitialPeriod,    \* mode_initial_period
    ConflictWindow,   \* the conflict window shipped or configured
    RestartWindow,    \* the restart window shipped
    MaxConflictWindow, MaxRestartWindow,
    KnownPasses,      \* the passes of an epoch, in the order enabled
    ConflictsPerPass, \* conflicts that buy one more pass
    MemoryLimits,     \* whether the memory governor may veto an epoch
    MaxBurst,         \* conflicts without a round of the loop in between
    MaxConflicts, MaxDecisions, MaxEpisodes  \* bounds of the instance

ASSUME SchedulingAssumption ==
    /\ {FocusedInterval, StableInterval, InitialPeriod, ConflictWindow, RestartWindow} \subseteq Nat \ {0}
    /\ {MaxConflictWindow, MaxRestartWindow} \subseteq Nat
    /\ MaxRestartWindow >= RestartWindow
    /\ DecisionInterval \in Nat /\ ConflictsPerPass \in Nat \ {0}
    /\ Len(KnownPasses) \in Nat \ {0}

VARIABLES
    coordinator, \* conflicts and decisions of the episode, streaks of low yields
    restarter,   \* controller::restart; history: the budget granted last under its
                 \* interval, the how many-th it was and when, and how
                 \* many conflicts found a restart due under it
    mode,        \* focused_mode_, mode_period_, mode_switch_at_
    inprocessor, \* scheduler::inprocess: counters seen, windows, triggers, cap
    records,     \* per pass how often it was seen to run, and to help
    episodes,    \* episodes begun
    searching,   \* an episode is under way
    configured,  \* the caller set the conflict window
    burst,       \* conflicts since the last such round
    history      \* what the properties look back on

schedulingVars == <<coordinator, restarter, mode, inprocessor, records, episodes, searching,
                    configured, burst, history>>

NoPoll == [conflicts |-> -1, restarts |-> -1]
Lesser(a, b) == IF a < b THEN a ELSE b
Greater(a, b) == IF a > b THEN a ELSE b

---------------------------------------------------------------------------
(* controller::restart *)

\* luby_multiplier: the loop that finds the size and the exponent, then the
\* loop that descends to the index
BlockOf(index) ==
    CHOOSE e \in 0..24 : 2^(e + 1) - 1 >= index + 1 /\ \A d \in 0..(e - 1) : 2^(d + 1) - 1 < index + 1
LubyMultiplier(index) ==
    LET descend[e \in 0..24, i \in 0..index] ==
          IF i = 2^(e + 1) - 2 \/ e = 0 THEN 2^e ELSE descend[e - 1, i % (2^e - 1)]
    IN descend[BlockOf(index), index]

NextBudget(r) == [r EXCEPT !.next = r.conflicts + r.interval * LubyMultiplier(r.index), !.index = @ + 1]
NextDecisionBudget(r) ==
    [r EXCEPT !.decisionNext = r.decisions + DecisionInterval * LubyMultiplier(r.decisionIndex),
              !.decisionIndex = @ + 1]

TickConflict(r) ==
    LET t == [r EXCEPT !.conflicts = @ + 1] IN
    IF t.conflicts >= t.next THEN NextBudget([t EXCEPT !.pending = TRUE, !.granted.dues = @ + 1]) ELSE t

TickDecision(r) ==
    LET t == [r EXCEPT !.decisions = @ + 1] IN
    IF DecisionInterval > 0 /\ t.decisions >= t.decisionNext
      THEN NextDecisionBudget([t EXCEPT !.pending = TRUE]) ELSE t

SetInterval(r, interval) ==
    [r EXCEPT !.interval = interval, !.index = 0, !.next = r.conflicts + interval,
              !.granted = [nth |-> 1, at |-> r.conflicts, budget |-> interval, dues |-> 0]]

\* reset_after_inprocess, which note_restart calls
NoteRestart(r) ==
    LET t == NextBudget([r EXCEPT !.restarts = @ + (IF r.pending THEN 1 ELSE 0),
                                  !.pending = FALSE, !.lastRestart = r.conflicts])
        v == [t EXCEPT !.granted = [nth |-> r.granted.nth + 1, at |-> r.conflicts,
                                    budget |-> t.next - r.conflicts, dues |-> r.granted.dues]] IN
    IF DecisionInterval > 0 THEN [v EXCEPT !.decisionNext = v.decisions + DecisionInterval] ELSE v

ResetRestarter(r) ==
    [conflicts |-> 0, decisions |-> 0, restarts |-> 0, index |-> 0, decisionIndex |-> 0,
     lastRestart |-> 0, interval |-> r.interval, next |-> r.interval,
     decisionNext |-> DecisionInterval, pending |-> FALSE,
     granted |-> [nth |-> 1, at |-> 0, budget |-> r.interval, dues |-> 0]]

---------------------------------------------------------------------------
(* scheduler::inprocess *)

\* a bug: an episode with fewer conflicts does not start the trigger afresh
SeenNoReset(i, conflicts, restarts) == [i EXCEPT !.conflicts = conflicts, !.restarts = restarts]

\* set_conflicts_seen and set_restart_count: fewer than before is a new episode
Seen(i, conflicts, restarts) ==
    [i EXCEPT !.nextConflict = IF conflicts < i.conflicts THEN i.conflictWindow ELSE @,
              !.nextRestart = IF restarts < i.restarts THEN i.restartWindow ELSE @,
              !.conflicts = conflicts, !.restarts = restarts]

SetWindow(i) ==
    [i EXCEPT !.conflictWindow = ConflictWindow, !.nextConflict = i.conflicts + ConflictWindow]

Due(i) == i.conflicts >= i.nextConflict \/ i.restarts >= i.nextRestart

\* the passes by how often they helped, one never seen to run counting half
Priority(p) == IF records[p].runs = 0 THEN <<1, 2>> ELSE <<records[p].helped, records[p].runs>>
HelpedMore(p, q) == Priority(p)[1] * Priority(q)[2] > Priority(q)[1] * Priority(p)[2]
Place(p, s) == CHOOSE k \in DOMAIN s : s[k] = p
ExecutionOrder ==
    CHOOSE s \in SetToSeqs(Range(KnownPasses)) :
        \A j, k \in DOMAIN s : j < k =>
            \/ HelpedMore(s[j], s[k])
            \/ ~HelpedMore(s[k], s[j]) /\ Place(s[j], KnownPasses) < Place(s[k], KnownPasses)

\* compute_budget
Budget(i, bonus) == 1 + i.conflicts \div ConflictsPerPass + i.restarts + bonus

\* update_budget_bonus: thresholds on running averages of how dense conflicts,
\* restarts and reductions were and of what epochs gained, all left out
Bonuses == 0..2

\* the first passes of the order, as many as the budget and the cap allow
PassesToRun(i, bonus) ==
    {ExecutionOrder[k] : k \in 1..Lesser(Len(KnownPasses), Lesser(Budget(i, bonus), i.cap))}

\* record_pass_effectiveness
Recorded(passes, helpful) ==
    [p \in DOMAIN records |->
        [runs |-> records[p].runs + (IF p \in passes THEN 1 ELSE 0),
         helped |-> records[p].helped + (IF p \in helpful THEN 1 ELSE 0)]]

\* update_adaptive_pass_cap and update_cooldown_windows: two epochs without a
\* gain throttle, one with a gain eases
Adapted(i, gain) ==
    IF gain THEN
      [i EXCEPT !.streak = 0, !.coolStreak = 0,
                !.cap = Lesser(@ + 1, Len(KnownPasses)),
                !.conflictWindow = Greater(ConflictWindow, @ \div 2),
                !.restartWindow = Greater(RestartWindow, @ - 1)]
    ELSE LET throttle == i.streak = 1 /\ i.cap > 1 IN
      [i EXCEPT !.streak = IF throttle THEN 0 ELSE @ + 1,
                !.cap = IF throttle THEN @ - 1 ELSE @,
                !.coolStreak = IF @ = 1 THEN 0 ELSE @ + 1,
                !.conflictWindow = IF i.coolStreak = 1 THEN Lesser(MaxConflictWindow, 2 * @) ELSE @,
                !.restartWindow = IF i.coolStreak = 1 THEN Lesser(MaxRestartWindow, @ + 1) ELSE @]

Rearmed(i) ==
    [i EXCEPT !.nextConflict = IF i.conflicts >= @ THEN i.conflicts + i.conflictWindow ELSE @,
              !.nextRestart = IF i.restarts >= @ THEN i.restarts + i.restartWindow ELSE @]

\* notify_inprocess_epoch_completed: after two epochs without a gain the restart
\* controller is left alone, though not twice running
Defers(c, gain) == ~gain /\ c.low >= 1 /\ c.deferred = 0
Notified(c, gain) ==
    CASE gain -> [c EXCEPT !.low = 0, !.deferred = 0]
      [] Defers(c, gain) -> [c EXCEPT !.low = @ + 1, !.deferred = 1]
      [] ~gain /\ c.low >= 1 /\ c.deferred = 1 -> [c EXCEPT !.low = 0, !.deferred = 0]
      [] OTHER -> [c EXCEPT !.low = @ + 1]

\* what a poll leaves in the history h: the first poll of an episode and every
\* epoch are what the next epoch is counted from
Noted(h, i, r, epoch) ==
    LET now == [conflicts |-> i.conflicts, restarts |-> r.restarts] IN
    [h EXCEPT !.last = IF epoch \/ @ = NoPoll THEN now ELSE @,
              !.turnedAway = IF epoch \/ Due(i) THEN NoPoll ELSE now]

\* run_epoch and what the search does with it: a pass may help or not, and the
\* epoch gained something if one did.  None is skipped: the core reports no usage
\* to the governor, and the two passes go with every format of proof.
Epoch(i, r, h) ==
    \E bonus \in Bonuses :
        LET passes == PassesToRun(i, bonus) IN
        \E helpful \in {{}} \cup {{p} : p \in passes} :
            LET gain == helpful # {} IN
            /\ records' = Recorded(passes, helpful)
            /\ inprocessor' = Rearmed(Adapted(i, gain))
            /\ coordinator' = Notified(coordinator, gain)
            /\ restarter' = IF DecisionInterval > 0 /\ ~Defers(coordinator, gain) THEN NextDecisionBudget(r) ELSE r
            /\ history' = [Noted(h, i, r, TRUE) EXCEPT
                             !.idle = passes = {},
                             !.deferrals = IF Defers(coordinator, gain) THEN @ + 1 ELSE 0,
                             !.widest = [conflicts |-> Greater(@.conflicts, inprocessor'.conflictWindow),
                                         restarts |-> Greater(@.restarts, inprocessor'.restartWindow)]]

\* run_inprocess_if_due, r and h being the restart controller and the history by
\* now; a hard memory limit may veto an epoch
RunInprocessIfDue(r, h) ==
    LET i == Seen(inprocessor, coordinator.conflicts, r.restarts) IN
    \/ /\ inprocessor' = i /\ restarter' = r
       /\ Due(i) => MemoryLimits
       /\ history' = Noted(h, i, r, FALSE)
       /\ UNCHANGED <<records, coordinator>>
    \/ Due(i) /\ Epoch(i, r, h)

---------------------------------------------------------------------------
(* solver_core *)

\* initialize_search_state: the mode is scheduled from the counter as it is
InitialMode(conflicts) == [focused |-> TRUE, period |-> InitialPeriod, switchAt |-> conflicts + InitialPeriod]

\* solve: a first phase resets the coordinator before the schedule is made, a
\* request with assumptions, limits or a proof does so only afterwards
BeginEpisode ==
    /\ ~searching /\ episodes < MaxEpisodes
    /\ \E probed, walk \in BOOLEAN :
         /\ mode' = InitialMode(IF probed THEN 0 ELSE coordinator.conflicts)
         /\ coordinator' = [conflicts |-> 0, low |-> 0, deferred |-> 0, walk |-> walk]
         /\ history' = [history EXCEPT !.last = NoPoll, !.turnedAway = NoPoll, !.deferrals = 0,
                                       !.periods = <<>>, !.since = 0,
                                       !.carried = IF probed THEN 0 ELSE coordinator.conflicts]
    /\ restarter' = ResetRestarter(SetInterval(restarter, FocusedInterval))
    /\ inprocessor' = IF configured THEN SetWindow(inprocessor) ELSE inprocessor
    /\ searching' = TRUE /\ episodes' = episodes + 1 /\ burst' = 0
    /\ UNCHANGED <<records, configured>>

NoteConflict ==
    /\ searching
    /\ coordinator.conflicts < MaxConflicts /\ burst < MaxBurst
    /\ coordinator' = [coordinator EXCEPT !.conflicts = @ + 1]
    /\ restarter' = TickConflict(restarter)
    /\ burst' = burst + 1
    /\ UNCHANGED <<mode, inprocessor, records, episodes, searching, configured, history>>

\* the opening walk, once in an episode, begins with a full restart
OpeningWalk ==
    /\ searching /\ coordinator.walk
    /\ coordinator' = [coordinator EXCEPT !.walk = FALSE]
    /\ restarter' = NoteRestart(restarter)
    /\ UNCHANGED <<mode, inprocessor, records, episodes, searching, configured, burst, history>>

SwitchDue == coordinator.conflicts >= mode.switchAt

\* a bug: every period is as long as the first
ConstantPeriod == mode.period

\* the stable period is as long as the focused one before it, the next focused
\* one twice as long
NextPeriod == IF mode.focused THEN mode.period ELSE 2 * mode.period

\* the rest of the loop: a restart, which polls the inprocessing, or a decision
RestartOrDecide(r, h) ==
    \/ /\ r.pending /\ r.conflicts > r.lastRestart
       /\ RunInprocessIfDue(NoteRestart(r), h)
    \/ /\ r.pending /\ r.conflicts = r.lastRestart
       /\ restarter' = NoteRestart(r) /\ history' = h
       /\ UNCHANGED <<coordinator, inprocessor, records>>
    \/ /\ ~r.pending /\ r.decisions < MaxDecisions
       /\ restarter' = TickDecision(r) /\ history' = h
       /\ UNCHANGED <<coordinator, inprocessor, records>>

\* one round of run_search's loop without a conflict
Fixpoint ==
    /\ searching
    /\ burst' = 0
    /\ \/ /\ ~SwitchDue
          /\ RestartOrDecide(restarter, history)
          /\ UNCHANGED mode
       \/ /\ SwitchDue
          /\ mode' = [focused |-> ~mode.focused, period |-> NextPeriod,
                      switchAt |-> coordinator.conflicts + NextPeriod]
          /\ RestartOrDecide(SetInterval(restarter, IF mode.focused THEN StableInterval ELSE FocusedInterval),
                             [history EXCEPT !.periods = Append(@, coordinator.conflicts - history.since),
                                             !.since = coordinator.conflicts])
    /\ UNCHANGED <<episodes, searching, configured>>

\* solve polls once more at its end
EndEpisode ==
    /\ searching
    /\ RunInprocessIfDue(restarter, history)
    /\ searching' = FALSE /\ burst' = 0
    /\ UNCHANGED <<mode, episodes, configured>>

SchedulingInit ==
    /\ coordinator = [conflicts |-> 0, low |-> 0, deferred |-> 0, walk |-> FALSE]
    /\ restarter = ResetRestarter([interval |-> StableInterval])
    /\ mode = InitialMode(0)
    /\ inprocessor = [conflicts |-> 0, restarts |-> 0, conflictWindow |-> ConflictWindow,
                      restartWindow |-> RestartWindow, nextConflict |-> ConflictWindow,
                      nextRestart |-> RestartWindow, cap |-> Len(KnownPasses), streak |-> 0, coolStreak |-> 0]
    /\ records = [p \in Range(KnownPasses) |-> [runs |-> 0, helped |-> 0]]
    /\ episodes = 0 /\ searching = FALSE /\ burst = 0
    /\ configured \in BOOLEAN
    /\ history = [last |-> NoPoll, turnedAway |-> NoPoll, idle |-> FALSE, deferrals |-> 0,
                  widest |-> [conflicts |-> ConflictWindow, restarts |-> RestartWindow],
                  periods |-> <<>>, since |-> 0, carried |-> 0]

SchedulingNext ==
    BeginEpisode \/ NoteConflict \/ OpeningWalk \/ Fixpoint \/ EndEpisode

SchedulingSpec == SchedulingInit /\ [][SchedulingNext]_schedulingVars

---------------------------------------------------------------------------
(* Properties *)

\* An epoch of simplification is never put off: counted from the last epoch of
\* the episode, or from its first poll, a poll is turned away only while fewer
\* conflicts and restarts have passed than the widest window the schedule has
\* had.  Counters that start over with an episode must not leave a trigger of
\* the episode before behind (set_conflicts_seen, set_restart_count).
EpochsInTime ==
    history.turnedAway # NoPoll =>
        /\ history.turnedAway.conflicts - history.last.conflicts < history.widest.conflicts
        /\ history.turnedAway.restarts - history.last.restarts < history.widest.restarts

\* Whatever the yields were, an epoch is granted at least one pass, the windows stay
\* between what was configured (above the limit, if the caller likes) and their
\* limits, and the resynchronisation of the restart controller is not put off
\* twice running.
ThrottlingBounded ==
    /\ ~history.idle
    /\ history.deferrals <= 1
    /\ inprocessor.conflictWindow \in
         Lesser(ConflictWindow, MaxConflictWindow)..Greater(ConflictWindow, MaxConflictWindow)
    /\ inprocessor.restartWindow \in RestartWindow..MaxRestartWindow

\* Simplification keeps to its cadence across episodes.
CadenceKept == EpochsInTime /\ ThrottlingBounded

\* Both modes get their time: the periods of an episode come in pairs of a
\* focused and a stable one, each pair twice as long as the one before, late by
\* no more than the conflicts between two rounds of the loop.  How late the first
\* one may be when the schedule was made on the counters of the episode before
\* is PeriodsStartAfresh (initialize_search_state, run_search).
ModesShareTime ==
    \A k \in DOMAIN history.periods :
        LET due == InitialPeriod * 2^((k - 1) \div 2) IN
        /\ history.periods[k] >= due
        /\ k > 1 \/ history.carried = 0 => history.periods[k] <= due + MaxBurst

\* The first period of every episode lasts as long as the initial period says,
\* but for the conflicts between two rounds: no episode inherits its schedule
\* (initialize_search_state).
PeriodsStartAfresh == history.periods # <<>> => history.periods[1] <= InitialPeriod + MaxBurst

\* The sequence 1 1 2 1 1 2 4 ... as it is defined: a power at the end of a
\* block, and the block before it once more.
LubyReference ==
    LET luby[i \in Nat] ==
          LET k == CHOOSE e \in 1..30 : 2^(e - 1) <= i /\ i < 2^e IN
          IF i = 2^k - 1 THEN 2^(k - 1) ELSE luby[i - 2^(k - 1) + 1]
    IN luby

\* Restarts come when they are due, in the interval of the mode: since the
\* interval was set, every restart and every conflict that found one due took an
\* element of the Luby sequence, none was left out or taken twice, and a budget
\* is the interval times the last of them; a restart falls due when the budget
\* is used up and not before, and comes at the next round (tick_conflict,
\* reset_after_inprocess, set_restart_interval).
RestartsFollowLuby ==
    LET granted == restarter.granted
        late == restarter.conflicts - granted.at - granted.budget IN
    /\ searching /\ episodes = 1 /\ coordinator.conflicts = 0 => \A n \in 0..70 : LubyMultiplier(n) = LubyReference[n + 1]
    /\ searching => restarter.interval = IF mode.focused THEN FocusedInterval ELSE StableInterval
    /\ ~restarter.pending => granted.budget = restarter.interval * LubyReference[Greater(1, granted.nth - 1 + granted.dues)]
    /\ ~restarter.pending => restarter.next = granted.at + granted.budget
    /\ late < IF restarter.pending THEN MaxBurst ELSE 0

\* The n-th restart has the n-th element of the sequence for its budget
\* (next_restart_budget).
BudgetsFollowLuby ==
    restarter.granted.budget = restarter.interval * LubyReference[restarter.granted.nth]

\* Restarts follow the mode, and the modes share the time.
ModesAlternate == ModesShareTime /\ RestartsFollowLuby


=============================================================================
