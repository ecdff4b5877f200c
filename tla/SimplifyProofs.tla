-------------------------- MODULE SimplifyProofs ----------------------------
(***************************************************************************)
(* Simplification keeps to its cadence, for every interval, window and     *)
(* bound, any number of episodes and any passes, one at least: none is put *)
(* off beyond the widest window, each is granted a pass, and throttling    *)
(* stays within its limits.  Failed-literal probing is sound for every     *)
(* formula of finitely many literals, every effort and every number of     *)
(* rounds.  And a local-search walk keeps its counts by difference as a    *)
(* recount would give them, and the phases as noted, after any flips.      *)
(***************************************************************************)
EXTENDS Scheduling, Probing, LocalSearch, FiniteSetTheorems, FunctionTheorems, Iterations, TLAPS

-----------------------------------------------------------------------------
(* The inductive invariant                                                 *)

RestarterFields == {"conflicts", "decisions", "restarts", "index", "decisionIndex",
                    "lastRestart", "interval", "next", "decisionNext", "pending", "granted"}
HistoryFields == {"last", "turnedAway", "idle", "deferrals", "widest", "periods", "since", "carried"}

Polls == [conflicts : Int, restarts : Int]
Coordinators == [conflicts : Nat, low : Nat, deferred : {0, 1}, walk : BOOLEAN]
\* The caller's window may be above the limit that throttling has.
ConflictWindows == Lesser(ConflictWindow, MaxConflictWindow)..Greater(ConflictWindow, MaxConflictWindow)
Inprocessors ==
  [conflicts : Nat, restarts : Nat,
   conflictWindow : ConflictWindows, restartWindow : RestartWindow..MaxRestartWindow,
   nextConflict : Nat, nextRestart : Nat, cap : 1..Len(KnownPasses), streak : Nat, coolStreak : Nat]

HistoryShape(h) ==
  /\ DOMAIN h = HistoryFields
  /\ h.last \in Polls /\ h.turnedAway \in Polls
  /\ h.widest \in [conflicts : Nat, restarts : Nat] /\ ConflictWindow <= h.widest.conflicts
  /\ h.idle = FALSE /\ h.deferrals \in Nat

\* The widest windows there have been bound the windows, and how far ahead of
\* the counters the triggers are.
TriggersNear(i, widest) ==
  /\ i.conflictWindow <= widest.conflicts /\ i.nextConflict <= i.conflicts + widest.conflicts
  /\ i.restartWindow <= widest.restarts /\ i.nextRestart <= i.restarts + widest.restarts

\* After a poll at last, the counters have only grown and the triggers are no
\* further from it than a window.
CountedFrom(last, i, conflicts, restarts, widest) ==
  /\ last.conflicts <= i.conflicts /\ i.conflicts <= conflicts
  /\ last.restarts <= i.restarts /\ i.restarts <= restarts
  /\ i.nextConflict <= last.conflicts + widest.conflicts
  /\ i.nextRestart <= last.restarts + widest.restarts

AwayInTime(h) ==
  h.turnedAway # NoPoll =>
    /\ h.turnedAway.conflicts - h.last.conflicts < h.widest.conflicts
    /\ h.turnedAway.restarts - h.last.restarts < h.widest.restarts

\* With n full restarts counted.
Scheduled(i, c, n, h) ==
  /\ i \in Inprocessors /\ c \in Coordinators /\ n \in Nat /\ HistoryShape(h)
  /\ TriggersNear(i, h.widest)
  /\ h.last # NoPoll => CountedFrom(h.last, i, c.conflicts, n, h.widest)
  /\ AwayInTime(h)
  /\ h.deferrals <= c.deferred

ScheduleInv ==
  /\ DOMAIN restarter = RestarterFields
  /\ Scheduled(inprocessor, coordinator, restarter.restarts, history)

-----------------------------------------------------------------------------
(* The restart controller                                                  *)

\* The controller t is r with some of its schedule moved, after one full restart
\* more at the most.
Moved(r, t) ==
  /\ DOMAIN t = RestarterFields /\ t.restarts \in Nat /\ t.restarts >= r.restarts

\* A new budget leaves the counts alone.
LEMMA BudgetKeeps ==
  ASSUME NEW r, DOMAIN r = RestarterFields
  PROVE  /\ DOMAIN NextBudget(r) = RestarterFields /\ NextBudget(r).restarts = r.restarts
         /\ DOMAIN NextDecisionBudget(r) = RestarterFields /\ NextDecisionBudget(r).restarts = r.restarts
BY DEF NextBudget, NextDecisionBudget, RestarterFields

\* Whatever the controller is told, it counts on.
LEMMA RestarterKeeps ==
  ASSUME NEW r, DOMAIN r = RestarterFields, r.restarts \in Nat
  PROVE  /\ Moved(r, TickConflict(r)) /\ Moved(r, TickDecision(r)) /\ Moved(r, NoteRestart(r))
         /\ \A interval : /\ Moved(r, SetInterval(r, interval))
                          /\ DOMAIN ResetRestarter(SetInterval(r, interval)) = RestarterFields
                          /\ ResetRestarter(SetInterval(r, interval)).restarts = 0
<1>1. Moved(r, TickConflict(r))
  <2> DEFINE t == [r EXCEPT !.conflicts = @ + 1]
             u == [t EXCEPT !.pending = TRUE, !.granted.dues = @ + 1]
  <2>1. /\ DOMAIN t = RestarterFields /\ t.restarts = r.restarts
        /\ DOMAIN u = RestarterFields /\ u.restarts = r.restarts
    BY DEF RestarterFields
  <2>2. TickConflict(r) = t \/ TickConflict(r) = NextBudget(u)
    BY DEF TickConflict
  <2> HIDE DEF t, u
  <2>3. DOMAIN NextBudget(u) = RestarterFields /\ NextBudget(u).restarts = r.restarts
    BY <2>1, BudgetKeeps
  <2> QED
    BY <2>1, <2>2, <2>3 DEF Moved
<1>2. Moved(r, TickDecision(r))
  <2> DEFINE t == [r EXCEPT !.decisions = @ + 1]
             u == [t EXCEPT !.pending = TRUE]
  <2>1. /\ DOMAIN t = RestarterFields /\ t.restarts = r.restarts
        /\ DOMAIN u = RestarterFields /\ u.restarts = r.restarts
    BY DEF RestarterFields
  <2>2. TickDecision(r) = t \/ TickDecision(r) = NextDecisionBudget(u)
    BY DEF TickDecision
  <2> HIDE DEF t, u
  <2>3. DOMAIN NextDecisionBudget(u) = RestarterFields /\ NextDecisionBudget(u).restarts = r.restarts
    BY <2>1, BudgetKeeps
  <2> QED
    BY <2>1, <2>2, <2>3 DEF Moved
<1>3. Moved(r, NoteRestart(r))
  <2> DEFINE n == r.restarts + (IF r.pending THEN 1 ELSE 0)
             u == [r EXCEPT !.restarts = n, !.pending = FALSE, !.lastRestart = r.conflicts]
             t == NextBudget(u)
             w == [t EXCEPT !.granted = [nth |-> r.granted.nth + 1, at |-> r.conflicts,
                                         budget |-> t.next - r.conflicts, dues |-> r.granted.dues]]
             v == [w EXCEPT !.decisionNext = w.decisions + DecisionInterval]
  <2>1. n \in Nat /\ n >= r.restarts
    OBVIOUS
  <2>2. NoteRestart(r) = w \/ NoteRestart(r) = v
    BY DEF NoteRestart
  <2>3. DOMAIN u = RestarterFields /\ u.restarts = n
    BY DEF RestarterFields
  <2> HIDE DEF n, u
  <2>4. DOMAIN t = RestarterFields /\ t.restarts = n
    BY <2>3, BudgetKeeps
  <2> HIDE DEF t
  <2>5. DOMAIN w = RestarterFields /\ w.restarts = n
    BY <2>4 DEF RestarterFields
  <2> HIDE DEF w
  <2>6. DOMAIN v = RestarterFields /\ v.restarts = n
    BY <2>5 DEF RestarterFields
  <2> HIDE DEF v
  <2> QED
    BY <2>1, <2>2, <2>5, <2>6 DEF Moved
<1>4. ASSUME NEW interval
      PROVE  /\ Moved(r, SetInterval(r, interval))
             /\ DOMAIN ResetRestarter(SetInterval(r, interval)) = RestarterFields
             /\ ResetRestarter(SetInterval(r, interval)).restarts = 0
  <2>1. DOMAIN SetInterval(r, interval) = RestarterFields /\ SetInterval(r, interval).restarts = r.restarts
    BY DEF SetInterval, RestarterFields
  <2> QED
    BY <2>1 DEF Moved, ResetRestarter, RestarterFields
<1> QED
  BY <1>1, <1>2, <1>3, <1>4

-----------------------------------------------------------------------------
(* A poll of the inprocessing                                              *)

\* A window is a number.
LEMMA WindowsAre ==
  /\ ConflictWindow \in Nat \ {0} /\ MaxConflictWindow \in Nat
  /\ RestartWindow \in Nat \ {0} /\ MaxRestartWindow \in Nat /\ RestartWindow <= MaxRestartWindow
  /\ ConflictWindow \in ConflictWindows /\ MaxConflictWindow \in ConflictWindows
  /\ \A w \in ConflictWindows : w \in Nat
  /\ \A w \in RestartWindow..MaxRestartWindow : w \in Nat
BY SchedulingAssumption DEF ConflictWindows, Lesser, Greater

\* Later counts and an unchanged rest keep the schedule.
LEMMA LaterKeeps ==
  ASSUME NEW i, NEW c, NEW n, NEW h, Scheduled(i, c, n, h),
         NEW d \in Coordinators, d.conflicts >= c.conflicts, d.deferred = c.deferred,
         NEW m \in Nat, m >= n
  PROVE  Scheduled(i, d, m, h)
<1>1. ASSUME h.last # NoPoll PROVE CountedFrom(h.last, i, d.conflicts, m, h.widest)
  <2>1. CountedFrom(h.last, i, c.conflicts, n, h.widest)
    BY <1>1 DEF Scheduled
  <2>2. i.conflicts \in Nat /\ i.restarts \in Nat /\ c.conflicts \in Nat /\ d.conflicts \in Nat /\ n \in Nat
    BY DEF Scheduled, Inprocessors, Coordinators
  <2> QED
    BY <2>1, <2>2 DEF CountedFrom
<1> QED
  BY <1>1 DEF Scheduled

\* The counters of the scheduler are brought up to date: fewer conflicts or
\* restarts than before start a trigger afresh.
LEMMA SeenKeeps ==
  ASSUME NEW i, NEW c, NEW n, NEW h, Scheduled(i, c, n, h)
  PROVE  /\ Scheduled(Seen(i, c.conflicts, n), c, n, h)
         /\ Seen(i, c.conflicts, n).conflicts = c.conflicts
         /\ Seen(i, c.conflicts, n).restarts = n
<1> DEFINE j == Seen(i, c.conflicts, n)
<1>1. /\ i \in Inprocessors /\ c.conflicts \in Nat /\ n \in Nat /\ HistoryShape(h) /\ c \in Coordinators
      /\ i.conflictWindow \in Nat /\ i.restartWindow \in Nat
      /\ h.widest.conflicts \in Nat /\ h.widest.restarts \in Nat
  <2>1. /\ i \in Inprocessors /\ c \in Coordinators /\ n \in Nat /\ HistoryShape(h)
    BY DEF Scheduled
  <2>2. i.conflictWindow \in Nat /\ i.restartWindow \in Nat
    BY <2>1, WindowsAre DEF Inprocessors
  <2>3. c.conflicts \in Nat /\ h.widest.conflicts \in Nat /\ h.widest.restarts \in Nat
    BY <2>1 DEF Coordinators, HistoryShape
  <2> QED
    BY <2>1, <2>2, <2>3
<1>2. /\ j \in Inprocessors /\ j.conflicts = c.conflicts /\ j.restarts = n
      /\ j.conflictWindow = i.conflictWindow /\ j.restartWindow = i.restartWindow
      /\ j.nextConflict = IF c.conflicts < i.conflicts THEN i.conflictWindow ELSE i.nextConflict
      /\ j.nextRestart = IF n < i.restarts THEN i.restartWindow ELSE i.nextRestart
  BY <1>1 DEF Seen, Inprocessors
<1>3. /\ i.conflicts \in Nat /\ i.restarts \in Nat /\ i.nextConflict \in Nat /\ i.nextRestart \in Nat
  BY <1>1 DEF Inprocessors
<1> HIDE DEF j
<1>4. TriggersNear(j, h.widest)
  BY <1>1, <1>2, <1>3 DEF Scheduled, TriggersNear
<1>5. ASSUME h.last # NoPoll PROVE CountedFrom(h.last, j, c.conflicts, n, h.widest)
  <2>1. CountedFrom(h.last, i, c.conflicts, n, h.widest) /\ h.last.conflicts \in Int /\ h.last.restarts \in Int
    BY <1>1, <1>5 DEF Scheduled, HistoryShape, Polls
  <2>2. j.nextConflict = i.nextConflict /\ j.nextRestart = i.nextRestart
    BY <1>1, <1>2, <1>3, <2>1 DEF CountedFrom
  <2> QED
    BY <1>1, <1>2, <1>3, <2>1, <2>2 DEF CountedFrom
<1>6. Scheduled(j, c, n, h)
  BY <1>1, <1>2, <1>4, <1>5 DEF Scheduled
<1> QED
  BY <1>2, <1>6 DEF j

\* What a poll writes down, without an epoch and with one.
Now(i) == [conflicts |-> i.conflicts, restarts |-> i.restarts]
Away(h, i, r) == Noted(h, i, r, FALSE)
Begun(h, i, r) == Noted(h, i, r, TRUE)

LEMMA NotedIs ==
  ASSUME NEW h, NEW i, NEW r, HistoryShape(h), i \in Inprocessors, r.restarts = i.restarts
  PROVE  LET now == Now(i)
             f == Away(h, i, r)
             g == Begun(h, i, r) IN
         /\ HistoryShape(f) /\ HistoryShape(g) /\ now \in Polls
         /\ f.last = (IF h.last = NoPoll THEN now ELSE h.last)
         /\ f.turnedAway = (IF Due(i) THEN NoPoll ELSE now)
         /\ f.widest = h.widest /\ f.deferrals = h.deferrals
         /\ g.last = now /\ g.turnedAway = NoPoll
         /\ g.widest = h.widest /\ g.deferrals = h.deferrals
<1> DEFINE now == Now(i)
           f == Away(h, i, r)
           g == Begun(h, i, r)
<1>1. now \in Polls /\ NoPoll \in Polls
  BY DEF Polls, Inprocessors, NoPoll, Now
<1>2. /\ f = [h EXCEPT !.last = IF h.last = NoPoll THEN now ELSE h.last,
                       !.turnedAway = IF Due(i) THEN NoPoll ELSE now]
      /\ g = [h EXCEPT !.last = now, !.turnedAway = NoPoll]
  BY DEF Noted, Now, Away, Begun
<1> HIDE DEF now, f, g
<1>3. /\ DOMAIN f = HistoryFields
      /\ f.last = (IF h.last = NoPoll THEN now ELSE h.last)
      /\ f.turnedAway = (IF Due(i) THEN NoPoll ELSE now)
      /\ f.widest = h.widest /\ f.idle = h.idle /\ f.deferrals = h.deferrals
  BY <1>2 DEF HistoryShape, HistoryFields
<1>4. /\ DOMAIN g = HistoryFields /\ g.last = now /\ g.turnedAway = NoPoll
      /\ g.widest = h.widest /\ g.idle = h.idle /\ g.deferrals = h.deferrals
  BY <1>2 DEF HistoryShape, HistoryFields
<1>5. HistoryShape(f) /\ HistoryShape(g)
  BY <1>1, <1>3, <1>4 DEF HistoryShape
<1> QED
  BY <1>1, <1>3, <1>4, <1>5 DEF now, f, g

\* A poll that runs no epoch: turned away, or vetoed for memory.
LEMMA TurnedAwayKeeps ==
  ASSUME NEW i, NEW c, NEW h, NEW r, Scheduled(i, c, r.restarts, h),
         i.conflicts = c.conflicts, i.restarts = r.restarts
  PROVE  Scheduled(i, c, r.restarts, Away(h, i, r))
<1> DEFINE now == Now(i)
           g   == Away(h, i, r)
<1>1. /\ i \in Inprocessors /\ c \in Coordinators /\ r.restarts \in Nat /\ HistoryShape(h)
      /\ TriggersNear(i, h.widest) /\ h.deferrals <= c.deferred
  BY DEF Scheduled
<1>2. /\ HistoryShape(g) /\ now \in Polls
      /\ g.last = (IF h.last = NoPoll THEN now ELSE h.last)
      /\ g.turnedAway = (IF Due(i) THEN NoPoll ELSE now)
      /\ g.widest = h.widest /\ g.deferrals = h.deferrals
  BY <1>1, NotedIs
<1>3. /\ i.conflicts \in Nat /\ i.restarts \in Nat /\ i.nextConflict \in Nat /\ i.nextRestart \in Nat
      /\ h.widest.conflicts \in Nat /\ h.widest.restarts \in Nat
      /\ now.conflicts = i.conflicts /\ now.restarts = i.restarts
      /\ g.last.conflicts \in Int /\ g.last.restarts \in Int
  BY <1>1, <1>2 DEF Inprocessors, HistoryShape, Polls, Now
<1> HIDE DEF now, g
<1>4. CountedFrom(g.last, i, c.conflicts, r.restarts, g.widest)
  <2>1. CASE h.last = NoPoll
    BY <1>1, <1>2, <1>3, <2>1 DEF TriggersNear, CountedFrom
  <2>2. CASE h.last # NoPoll
    BY <1>2, <2>2 DEF Scheduled
  <2> QED
    BY <2>1, <2>2
<1>5. ASSUME g.turnedAway # NoPoll
      PROVE  /\ g.turnedAway.conflicts - g.last.conflicts < g.widest.conflicts
             /\ g.turnedAway.restarts - g.last.restarts < g.widest.restarts
  <2>1. ~Due(i) /\ g.turnedAway = now
    BY <1>2, <1>5
  <2>2. i.conflicts < i.nextConflict /\ i.restarts < i.nextRestart
    BY <1>3, <2>1 DEF Due
  <2> QED
    BY <1>2, <1>3, <1>4, <2>1, <2>2 DEF CountedFrom
<1> QED
  BY <1>1, <1>2, <1>4, <1>5 DEF Scheduled, AwayInTime, g

-----------------------------------------------------------------------------
(* An epoch                                                                *)

\* The scheduler j is i with other windows and another cap, within their limits.
AdaptedTo(i, j) ==
  /\ j \in Inprocessors
  /\ j.conflicts = i.conflicts /\ j.nextConflict = i.nextConflict
  /\ j.restarts = i.restarts /\ j.nextRestart = i.nextRestart

\* Whether the epoch gained something or not, windows and cap keep to their limits.
LEMMA AdaptedIs ==
  ASSUME NEW i \in Inprocessors
  PROVE  AdaptedTo(i, Adapted(i, TRUE)) /\ AdaptedTo(i, Adapted(i, FALSE))
<1> DEFINE n == Len(KnownPasses)
<1>1. n \in Nat /\ n >= 1
  BY SchedulingAssumption
<1>2. /\ i.conflictWindow \in ConflictWindows
      /\ i.restartWindow \in RestartWindow..MaxRestartWindow
      /\ i.cap \in 1..n /\ i.streak \in Nat /\ i.coolStreak \in Nat
  BY DEF Inprocessors
<1> HIDE DEF n
<1>3. AdaptedTo(i, Adapted(i, TRUE))
  <2> DEFINE cap == Lesser(i.cap + 1, n)
             cw  == Greater(ConflictWindow, i.conflictWindow \div 2)
             rw  == Greater(RestartWindow, i.restartWindow - 1)
             j   == [i EXCEPT !.streak = 0, !.coolStreak = 0, !.cap = cap,
                              !.conflictWindow = cw, !.restartWindow = rw]
  <2>1. cap \in 1..n
    BY <1>1, <1>2 DEF Lesser
  <2>2. cw \in ConflictWindows
    BY <1>2, WindowsAre DEF ConflictWindows, Lesser, Greater
  <2>3. rw \in RestartWindow..MaxRestartWindow
    BY <1>2, WindowsAre DEF Greater
  <2>4. Adapted(i, TRUE) = j
    BY DEF Adapted, n
  <2> HIDE DEF cap, cw, rw
  <2>5. AdaptedTo(i, j)
    BY <2>1, <2>2, <2>3 DEF AdaptedTo, Inprocessors, n
  <2> QED
    BY <2>4, <2>5
<1>4. AdaptedTo(i, Adapted(i, FALSE))
  <2> DEFINE throttle == i.streak = 1 /\ i.cap > 1
             streak == IF throttle THEN 0 ELSE i.streak + 1
             cap    == IF throttle THEN i.cap - 1 ELSE i.cap
             cool   == IF i.coolStreak = 1 THEN 0 ELSE i.coolStreak + 1
             cw     == IF i.coolStreak = 1 THEN Lesser(MaxConflictWindow, 2 * i.conflictWindow)
                       ELSE i.conflictWindow
             rw     == IF i.coolStreak = 1 THEN Lesser(MaxRestartWindow, i.restartWindow + 1)
                       ELSE i.restartWindow
             j      == [i EXCEPT !.streak = streak, !.cap = cap, !.coolStreak = cool,
                                 !.conflictWindow = cw, !.restartWindow = rw]
  <2>1. streak \in Nat /\ cool \in Nat /\ cap \in 1..n
    BY <1>1, <1>2
  <2>2. cw \in ConflictWindows
    BY <1>2, WindowsAre DEF ConflictWindows, Lesser, Greater
  <2>3. rw \in RestartWindow..MaxRestartWindow
    BY <1>2, WindowsAre DEF Lesser
  <2>4. Adapted(i, FALSE) = j
    BY DEF Adapted
  <2> HIDE DEF throttle, streak, cap, cool, cw, rw
  <2>5. AdaptedTo(i, j)
    BY <2>1, <2>2, <2>3 DEF AdaptedTo, Inprocessors, n
  <2> QED
    BY <2>4, <2>5
<1> QED
  BY <1>3, <1>4

\* A trigger that was reached moves a window ahead, one that was not stays.
LEMMA RearmedIs ==
  ASSUME NEW i \in Inprocessors
  PROVE  /\ Rearmed(i) \in Inprocessors
         /\ Rearmed(i).conflicts = i.conflicts /\ Rearmed(i).restarts = i.restarts
         /\ Rearmed(i).conflictWindow = i.conflictWindow /\ Rearmed(i).restartWindow = i.restartWindow
         /\ Rearmed(i).nextConflict =
               IF i.conflicts >= i.nextConflict THEN i.conflicts + i.conflictWindow ELSE i.nextConflict
         /\ Rearmed(i).nextRestart =
               IF i.restarts >= i.nextRestart THEN i.restarts + i.restartWindow ELSE i.nextRestart
<1> DEFINE nc == IF i.conflicts >= i.nextConflict THEN i.conflicts + i.conflictWindow ELSE i.nextConflict
           nr == IF i.restarts >= i.nextRestart THEN i.restarts + i.restartWindow ELSE i.nextRestart
<1>1. nc \in Nat /\ nr \in Nat
  <2>1. /\ i.conflictWindow \in Nat /\ i.restartWindow \in Nat
        /\ i.conflicts \in Nat /\ i.restarts \in Nat /\ i.nextConflict \in Nat /\ i.nextRestart \in Nat
    BY WindowsAre DEF Inprocessors
  <2> QED
    BY <2>1
<1>2. Rearmed(i) = [i EXCEPT !.nextConflict = nc, !.nextRestart = nr]
  BY DEF Rearmed
<1> HIDE DEF nc, nr
<1>3. /\ Rearmed(i) \in Inprocessors
      /\ Rearmed(i).conflicts = i.conflicts /\ Rearmed(i).restarts = i.restarts
      /\ Rearmed(i).conflictWindow = i.conflictWindow /\ Rearmed(i).restartWindow = i.restartWindow
      /\ Rearmed(i).nextConflict = nc /\ Rearmed(i).nextRestart = nr
  BY <1>1, <1>2 DEF Inprocessors
<1> QED
  BY <1>3 DEF nc, nr

\* The restart controller is left alone once, and that is remembered.
LEMMA NotifiedIs ==
  ASSUME NEW c \in Coordinators
  PROVE  /\ Notified(c, TRUE) \in Coordinators /\ Notified(c, TRUE).conflicts = c.conflicts
         /\ Notified(c, FALSE) \in Coordinators /\ Notified(c, FALSE).conflicts = c.conflicts
         /\ ~Defers(c, TRUE)
         /\ Defers(c, FALSE) => c.deferred = 0 /\ Notified(c, FALSE).deferred = 1
<1>1. /\ c.conflicts \in Nat /\ c.low \in Nat /\ c.deferred \in {0, 1} /\ c.walk \in BOOLEAN
      /\ c.low + 1 \in Nat
  BY DEF Coordinators
<1>2. \A low \in Nat, deferred \in {0, 1} :
        LET d == [c EXCEPT !.low = low, !.deferred = deferred] IN
        d \in Coordinators /\ d.conflicts = c.conflicts /\ d.deferred = deferred
  BY DEF Coordinators
<1>3. \A low \in Nat : LET d == [c EXCEPT !.low = low] IN
                       d \in Coordinators /\ d.conflicts = c.conflicts
  BY DEF Coordinators
<1>4. ~Defers(c, TRUE) /\ (Defers(c, FALSE) => c.deferred = 0)
  BY DEF Defers
<1>5. Notified(c, TRUE) \in Coordinators /\ Notified(c, TRUE).conflicts = c.conflicts
  <2>1. Notified(c, TRUE) = [c EXCEPT !.low = 0, !.deferred = 0]
    BY <1>4 DEF Notified
  <2> QED
    BY <1>2, <2>1
<1>6. CASE Defers(c, FALSE)
  <2>1. Notified(c, FALSE) = [c EXCEPT !.low = c.low + 1, !.deferred = 1]
    BY <1>4, <1>6 DEF Notified
  <2> QED
    BY <1>1, <1>2, <1>4, <1>5, <2>1
<1>7. CASE ~Defers(c, FALSE)
  <2>1. CASE c.low >= 1 /\ c.deferred = 1
    <3>1. Notified(c, FALSE) = [c EXCEPT !.low = 0, !.deferred = 0]
      BY <1>7, <2>1 DEF Notified
    <3> QED
      BY <1>2, <1>4, <1>5, <1>7, <3>1
  <2>2. CASE ~(c.low >= 1 /\ c.deferred = 1)
    <3>1. Notified(c, FALSE) = [c EXCEPT !.low = c.low + 1]
      BY <1>7, <2>2 DEF Notified
    <3> QED
      BY <1>1, <1>3, <1>4, <1>5, <1>7, <3>1
  <2> QED
    BY <2>1, <2>2
<1> QED
  BY <1>6, <1>7

\* An epoch runs one pass at least.
LEMMA SomePassRuns ==
  ASSUME NEW i \in Inprocessors, NEW bonus \in Bonuses
  PROVE  PassesToRun(i, bonus) # {}
<1>1. i.conflicts \div ConflictsPerPass \in Nat
  <2>1. i.conflicts \in Nat /\ ConflictsPerPass \in Nat /\ ConflictsPerPass > 0
    BY SchedulingAssumption DEF Inprocessors
  <2> QED
    BY <2>1
<1>2. Budget(i, bonus) \in Nat /\ Budget(i, bonus) >= 1
  <2>1. i.restarts \in Nat /\ bonus \in Nat
    BY DEF Inprocessors, Bonuses
  <2> QED
    BY <1>1, <2>1 DEF Budget
<1>3. Len(KnownPasses) \in Nat /\ Len(KnownPasses) >= 1 /\ i.cap \in Nat /\ i.cap >= 1
  BY SchedulingAssumption DEF Inprocessors
<1>4. 1 \in 1..Lesser(Len(KnownPasses), Lesser(Budget(i, bonus), i.cap))
  BY <1>2, <1>3 DEF Lesser
<1> QED
  BY <1>4 DEF PassesToRun

\* Triggers rearmed after the windows changed, and after these are noted as wide.
LEMMA TriggersRearmed ==
  ASSUME NEW i, NEW j, AdaptedTo(i, j), i \in Inprocessors,
         NEW widest \in [conflicts : Nat, restarts : Nat], TriggersNear(i, widest),
         NEW wider \in [conflicts : Nat, restarts : Nat],
         wider.conflicts = Greater(widest.conflicts, j.conflictWindow),
         wider.restarts = Greater(widest.restarts, j.restartWindow)
  PROVE  /\ TriggersNear(Rearmed(j), wider)
         /\ Rearmed(j).nextConflict <= i.conflicts + wider.conflicts
         /\ Rearmed(j).nextRestart <= i.restarts + wider.restarts
         /\ Rearmed(j).conflicts = i.conflicts /\ Rearmed(j).restarts = i.restarts
<1> DEFINE k == Rearmed(j)
<1>1. /\ k \in Inprocessors /\ k.conflicts = i.conflicts /\ k.restarts = i.restarts
      /\ k.conflictWindow = j.conflictWindow /\ k.restartWindow = j.restartWindow
      /\ k.nextConflict = IF i.conflicts >= i.nextConflict THEN i.conflicts + j.conflictWindow ELSE i.nextConflict
      /\ k.nextRestart = IF i.restarts >= i.nextRestart THEN i.restarts + j.restartWindow ELSE i.nextRestart
  BY RearmedIs DEF AdaptedTo
<1>2. /\ i.conflicts \in Nat /\ i.restarts \in Nat /\ i.nextConflict \in Nat /\ i.nextRestart \in Nat
  BY DEF Inprocessors
<1>3. j.conflictWindow \in Nat /\ j.restartWindow \in Nat
  BY WindowsAre DEF AdaptedTo, Inprocessors
<1>4. /\ widest.conflicts \in Nat /\ widest.restarts \in Nat
      /\ wider.conflicts \in Nat /\ wider.restarts \in Nat
  OBVIOUS
<1>5. /\ j.conflictWindow <= wider.conflicts /\ widest.conflicts <= wider.conflicts
      /\ j.restartWindow <= wider.restarts /\ widest.restarts <= wider.restarts
  BY <1>3, <1>4 DEF Greater
<1>6. /\ i.nextConflict <= i.conflicts + widest.conflicts
      /\ i.nextRestart <= i.restarts + widest.restarts
  BY DEF TriggersNear
<1> HIDE DEF k
<1>7. k.nextConflict <= i.conflicts + wider.conflicts /\ k.nextRestart <= i.restarts + wider.restarts
  BY <1>1, <1>2, <1>3, <1>4, <1>5, <1>6
<1> QED
  BY <1>1, <1>5, <1>7 DEF TriggersNear, k

\* An epoch, and what the coordinator and the restart controller make of it.
LEMMA EpochKeeps ==
  ASSUME NEW i, NEW r, NEW h, DOMAIN r = RestarterFields, Scheduled(i, coordinator, r.restarts, h),
         i.conflicts = coordinator.conflicts, i.restarts = r.restarts, Epoch(i, r, h)
  PROVE  ScheduleInv'
<1>1. PICK bonus, helpful :
        /\ bonus \in Bonuses
        /\ inprocessor' = Rearmed(Adapted(i, helpful # {}))
        /\ coordinator' = Notified(coordinator, helpful # {})
        /\ restarter' = IF DecisionInterval > 0 /\ ~Defers(coordinator, helpful # {})
                        THEN NextDecisionBudget(r) ELSE r
        /\ history' = [Noted(h, i, r, TRUE) EXCEPT
                         !.idle = PassesToRun(i, bonus) = {},
                         !.deferrals = IF Defers(coordinator, helpful # {}) THEN @ + 1 ELSE 0,
                         !.widest = [conflicts |-> Greater(@.conflicts, inprocessor'.conflictWindow),
                                     restarts |-> Greater(@.restarts, inprocessor'.restartWindow)]]
  BY DEF Epoch
<1>2. /\ i \in Inprocessors /\ coordinator \in Coordinators /\ r.restarts \in Nat
      /\ HistoryShape(h) /\ TriggersNear(i, h.widest) /\ h.deferrals <= coordinator.deferred
  BY DEF Scheduled
<1>3. PICK j, d, defers :
        /\ AdaptedTo(i, j) /\ inprocessor' = Rearmed(j) /\ coordinator' = d
        /\ d \in Coordinators /\ d.conflicts = coordinator.conflicts
        /\ defers \in BOOLEAN /\ (defers => coordinator.deferred = 0 /\ d.deferred = 1)
        /\ history' = [Begun(h, i, r) EXCEPT
                         !.idle = FALSE, !.deferrals = IF defers THEN @ + 1 ELSE 0,
                         !.widest = [conflicts |-> Greater(@.conflicts, inprocessor'.conflictWindow),
                                     restarts |-> Greater(@.restarts, inprocessor'.restartWindow)]]
  <2>1. (PassesToRun(i, bonus) = {}) = FALSE
    BY <1>1, <1>2, SomePassRuns
  <2>2. CASE helpful # {}
    <3>1. (helpful # {}) = TRUE
      BY <2>2
    <3>2. /\ inprocessor' = Rearmed(Adapted(i, TRUE)) /\ coordinator' = Notified(coordinator, TRUE)
          /\ history' = [Begun(h, i, r) EXCEPT
                         !.idle = FALSE, !.deferrals = IF FALSE THEN @ + 1 ELSE 0,
                         !.widest = [conflicts |-> Greater(@.conflicts, inprocessor'.conflictWindow),
                                     restarts |-> Greater(@.restarts, inprocessor'.restartWindow)]]
      BY <1>1, <1>2, <2>1, <3>1, NotifiedIs DEF Begun
    <3> QED
      BY <1>2, <3>2, AdaptedIs, NotifiedIs
  <2>3. CASE helpful = {}
    <3>1. (helpful # {}) = FALSE
      BY <2>3
    <3> DEFINE defers == Defers(coordinator, FALSE)
    <3>2. /\ inprocessor' = Rearmed(Adapted(i, FALSE)) /\ coordinator' = Notified(coordinator, FALSE)
          /\ history' = [Begun(h, i, r) EXCEPT
                         !.idle = FALSE, !.deferrals = IF defers THEN @ + 1 ELSE 0,
                         !.widest = [conflicts |-> Greater(@.conflicts, inprocessor'.conflictWindow),
                                     restarts |-> Greater(@.restarts, inprocessor'.restartWindow)]]
      BY <1>1, <2>1, <3>1 DEF Begun
    <3>3. defers \in BOOLEAN /\ (defers => coordinator.deferred = 0 /\ Notified(coordinator, FALSE).deferred = 1)
      BY <1>2, NotifiedIs DEF Defers
    <3> HIDE DEF defers
    <3> QED
      BY <1>2, <3>2, <3>3, AdaptedIs, NotifiedIs
  <2> QED
    BY <2>2, <2>3
<1>4. DOMAIN restarter' = RestarterFields /\ restarter'.restarts = r.restarts
  BY <1>1, BudgetKeeps
<1> DEFINE b == Begun(h, i, r)
           wider == [conflicts |-> Greater(h.widest.conflicts, inprocessor'.conflictWindow),
                     restarts |-> Greater(h.widest.restarts, inprocessor'.restartWindow)]
<1>5. /\ HistoryShape(b) /\ b.last = Now(i) /\ b.turnedAway = NoPoll
      /\ b.widest = h.widest /\ b.deferrals = h.deferrals
  BY <1>2, NotedIs
<1>6. /\ inprocessor' \in Inprocessors
      /\ inprocessor'.conflictWindow = j.conflictWindow /\ inprocessor'.restartWindow = j.restartWindow
      /\ j.conflictWindow \in Nat /\ j.restartWindow \in Nat
  BY <1>3, RearmedIs, WindowsAre DEF AdaptedTo, Inprocessors
<1>7. /\ h.widest \in [conflicts : Nat, restarts : Nat] /\ wider \in [conflicts : Nat, restarts : Nat]
      /\ ConflictWindow <= wider.conflicts
  BY <1>2, <1>6, WindowsAre DEF HistoryShape, Greater
<1>8. /\ DOMAIN history' = HistoryFields
      /\ history'.last = Now(i) /\ history'.turnedAway = NoPoll /\ history'.idle = FALSE
      /\ history'.widest = wider /\ history'.deferrals = IF defers THEN h.deferrals + 1 ELSE 0
  <2>1. DOMAIN b = HistoryFields
    BY <1>5 DEF HistoryShape
  <2>2. history' = [b EXCEPT !.idle = FALSE, !.deferrals = IF defers THEN b.deferrals + 1 ELSE 0,
                             !.widest = [conflicts |-> Greater(b.widest.conflicts, inprocessor'.conflictWindow),
                                         restarts |-> Greater(b.widest.restarts, inprocessor'.restartWindow)]]
    BY <1>3
  <2> HIDE DEF b
  <2>3. history' = [b EXCEPT !.idle = FALSE, !.deferrals = IF defers THEN h.deferrals + 1 ELSE 0, !.widest = wider]
    BY <1>5, <2>2
  <2> HIDE DEF wider
  <2> QED
    BY <1>5, <2>1, <2>3 DEF HistoryFields
<1>9. /\ history'.deferrals \in Nat /\ history'.deferrals <= coordinator'.deferred
  BY <1>2, <1>3, <1>8 DEF HistoryShape, Coordinators
<1>10. Now(i) \in Polls /\ NoPoll \in Polls
  BY <1>2 DEF Now, NoPoll, Polls, Inprocessors
<1>11. HistoryShape(history')
  BY <1>7, <1>8, <1>9, <1>10 DEF HistoryShape
<1>12. /\ TriggersNear(inprocessor', wider)
       /\ inprocessor'.nextConflict <= i.conflicts + wider.conflicts
       /\ inprocessor'.nextRestart <= i.restarts + wider.restarts
       /\ inprocessor'.conflicts = i.conflicts /\ inprocessor'.restarts = i.restarts
  <2>1. wider.conflicts = Greater(h.widest.conflicts, j.conflictWindow)
        /\ wider.restarts = Greater(h.widest.restarts, j.restartWindow)
    BY <1>6
  <2> HIDE DEF wider
  <2> QED
    BY <1>2, <1>3, <1>7, <2>1, TriggersRearmed
<1> HIDE DEF b, wider
<1>13. CountedFrom(history'.last, inprocessor', coordinator'.conflicts, restarter'.restarts, history'.widest)
  <2>1. i.conflicts \in Nat /\ i.restarts \in Nat
    BY <1>2 DEF Inprocessors
  <2> QED
    BY <1>3, <1>4, <1>8, <1>12, <2>1 DEF CountedFrom, Now
<1>14. AwayInTime(history')
  BY <1>8 DEF AwayInTime
<1> QED
  BY <1>2, <1>3, <1>4, <1>6, <1>8, <1>9, <1>11, <1>12, <1>13, <1>14 DEF ScheduleInv, Scheduled

\* What the schedule looks back on is the same in h.
WorksAlike(h) ==
  /\ HistoryShape(h)
  /\ h.last = history.last /\ h.turnedAway = history.turnedAway
  /\ h.widest = history.widest /\ h.deferrals = history.deferrals

\* A poll, after whatever moved the restart controller.
LEMMA PollKeeps ==
  ASSUME ScheduleInv, NEW r, Moved(restarter, r), NEW h, WorksAlike(h), RunInprocessIfDue(r, h)
  PROVE  ScheduleInv'
<1> DEFINE i == Seen(inprocessor, coordinator.conflicts, r.restarts)
<1>1. DOMAIN r = RestarterFields /\ r.restarts \in Nat /\ r.restarts >= restarter.restarts
  BY DEF Moved
<1>2. Scheduled(inprocessor, coordinator, r.restarts, h)
  <2>1. coordinator \in Coordinators /\ coordinator.conflicts \in Nat
    BY DEF ScheduleInv, Scheduled, Coordinators
  <2>2. Scheduled(inprocessor, coordinator, r.restarts, history)
    BY <1>1, <2>1, LaterKeeps DEF ScheduleInv
  <2> QED
    BY <2>2 DEF Scheduled, WorksAlike, AwayInTime
<1>3. /\ Scheduled(i, coordinator, r.restarts, h)
      /\ i.conflicts = coordinator.conflicts /\ i.restarts = r.restarts
  BY <1>2, SeenKeeps
<1>4. \/ /\ inprocessor' = i /\ restarter' = r /\ history' = Away(h, i, r)
         /\ coordinator' = coordinator
      \/ Epoch(i, r, h)
  BY DEF RunInprocessIfDue, Away
<1> HIDE DEF i
<1>5. CASE /\ inprocessor' = i /\ restarter' = r /\ history' = Away(h, i, r)
           /\ coordinator' = coordinator
  <2>1. Scheduled(i, coordinator, r.restarts, Away(h, i, r))
    BY <1>3, TurnedAwayKeeps
  <2> QED
    BY <1>1, <1>5, <2>1 DEF ScheduleInv
<1>6. CASE Epoch(i, r, h)
  BY <1>1, <1>3, <1>6, EpochKeeps
<1> QED
  BY <1>4, <1>5, <1>6

-----------------------------------------------------------------------------
(* The loop of the search                                                  *)

\* Nothing but the restart controller and the trivia of the history moves.
LEMMA MovedKeeps ==
  ASSUME ScheduleInv, Moved(restarter, restarter'), WorksAlike(history'),
         coordinator' \in Coordinators, coordinator'.conflicts >= coordinator.conflicts,
         coordinator'.deferred = coordinator.deferred, inprocessor' = inprocessor
  PROVE  ScheduleInv'
<1>1. Scheduled(inprocessor, coordinator', restarter'.restarts, history)
  BY LaterKeeps DEF ScheduleInv, Moved
<1> QED
  BY <1>1 DEF ScheduleInv, Moved, Scheduled, WorksAlike, AwayInTime

\* A restart with its poll, a restart owed before any conflict, or a decision.
LEMMA RestartOrDecideKeeps ==
  ASSUME ScheduleInv, NEW r, Moved(restarter, r), NEW h, WorksAlike(h), RestartOrDecide(r, h)
  PROVE  ScheduleInv'
<1>1. DOMAIN r = RestarterFields /\ r.restarts \in Nat /\ restarter.restarts \in Nat
  BY DEF Moved, ScheduleInv, Scheduled
<1>2. Moved(restarter, NoteRestart(r)) /\ Moved(restarter, TickDecision(r))
  <2>1. Moved(r, NoteRestart(r)) /\ Moved(r, TickDecision(r))
    BY <1>1, RestarterKeeps
  <2> QED
    BY <1>1, <2>1 DEF Moved
<1>3. CASE RunInprocessIfDue(NoteRestart(r), h)
  BY <1>2, <1>3, PollKeeps
<1>4. CASE /\ restarter' = NoteRestart(r) \/ restarter' = TickDecision(r)
           /\ history' = h /\ UNCHANGED <<coordinator, inprocessor>>
  <2>1. coordinator \in Coordinators /\ coordinator.conflicts \in Nat
    BY DEF ScheduleInv, Scheduled, Coordinators
  <2> QED
    BY <1>2, <1>4, <2>1, MovedKeeps
<1> QED
  BY <1>3, <1>4 DEF RestartOrDecide

\* A new episode counts from nothing, and its first poll starts the cadence.
LEMMA BeginKeeps ==
  ASSUME ScheduleInv, BeginEpisode
  PROVE  ScheduleInv'
<1>1. /\ inprocessor \in Inprocessors /\ HistoryShape(history) /\ TriggersNear(inprocessor, history.widest)
      /\ DOMAIN restarter = RestarterFields /\ restarter.restarts \in Nat
  BY DEF ScheduleInv, Scheduled
<1>2. coordinator' \in Coordinators
  BY DEF BeginEpisode, Coordinators
<1>3. HistoryShape(history') /\ history'.last = NoPoll /\ history'.turnedAway = NoPoll
      /\ history'.deferrals = 0 /\ history'.widest = history.widest
  <2>1. PICK carried :
          history' = [history EXCEPT !.last = NoPoll, !.turnedAway = NoPoll, !.deferrals = 0,
                                     !.periods = <<>>, !.since = 0, !.carried = carried]
    BY DEF BeginEpisode
  <2>2. /\ DOMAIN history' = HistoryFields /\ history'.idle = history.idle
        /\ history'.last = NoPoll /\ history'.turnedAway = NoPoll
        /\ history'.deferrals = 0 /\ history'.widest = history.widest
    BY <1>1, <2>1 DEF HistoryShape, HistoryFields
  <2>3. NoPoll \in Polls
    BY DEF NoPoll, Polls
  <2> QED
    BY <1>1, <2>2, <2>3 DEF HistoryShape
<1>4. DOMAIN restarter' = RestarterFields /\ restarter'.restarts = 0
  BY <1>1, RestarterKeeps DEF BeginEpisode
<1>5. inprocessor' \in Inprocessors /\ TriggersNear(inprocessor', history.widest)
  <2>1. CASE inprocessor' = inprocessor
    BY <1>1, <2>1
  <2>2. CASE inprocessor' = SetWindow(inprocessor)
    <3>1. /\ inprocessor.conflicts \in Nat /\ inprocessor.conflictWindow \in Nat
          /\ ConflictWindow <= history.widest.conflicts /\ history.widest.conflicts \in Nat
          /\ ConflictWindow \in ConflictWindows /\ ConflictWindow \in Nat
      BY <1>1, WindowsAre DEF Inprocessors, HistoryShape
    <3>2. /\ inprocessor' \in Inprocessors
          /\ inprocessor'.conflictWindow = ConflictWindow
          /\ inprocessor'.nextConflict = inprocessor.conflicts + ConflictWindow
          /\ inprocessor'.conflicts = inprocessor.conflicts /\ inprocessor'.restarts = inprocessor.restarts
          /\ inprocessor'.restartWindow = inprocessor.restartWindow
          /\ inprocessor'.nextRestart = inprocessor.nextRestart
      <4> DEFINE next == inprocessor.conflicts + ConflictWindow
      <4>1. inprocessor' = [inprocessor EXCEPT !.conflictWindow = ConflictWindow, !.nextConflict = next]
        BY <2>2 DEF SetWindow
      <4>2. next \in Nat
        BY <3>1
      <4> HIDE DEF next
      <4>3. /\ inprocessor' \in Inprocessors
            /\ inprocessor'.conflictWindow = ConflictWindow /\ inprocessor'.nextConflict = next
            /\ inprocessor'.conflicts = inprocessor.conflicts /\ inprocessor'.restarts = inprocessor.restarts
            /\ inprocessor'.restartWindow = inprocessor.restartWindow
            /\ inprocessor'.nextRestart = inprocessor.nextRestart
        BY <1>1, <3>1, <4>1, <4>2 DEF Inprocessors
      <4> QED
        BY <4>3 DEF next
    <3>3. ConflictWindow <= history.widest.conflicts
      BY <3>1
    <3>4. inprocessor.conflicts + ConflictWindow <= inprocessor.conflicts + history.widest.conflicts
      BY <3>1, <3>3
    <3> QED
      BY <1>1, <3>2, <3>3, <3>4 DEF TriggersNear
  <2> QED
    BY <2>1, <2>2 DEF BeginEpisode
<1>6. coordinator'.deferred \in {0, 1}
  BY <1>2 DEF Coordinators
<1> QED
  BY <1>2, <1>3, <1>4, <1>5, <1>6 DEF ScheduleInv, Scheduled, AwayInTime

\* Every step of the search, its episodes and its epochs keeps the schedule.
LEMMA StepKeeps ==
  ASSUME ScheduleInv, [SchedulingNext]_schedulingVars
  PROVE  ScheduleInv'
<1>1. /\ DOMAIN restarter = RestarterFields /\ restarter.restarts \in Nat
      /\ coordinator \in Coordinators /\ coordinator.conflicts \in Nat
      /\ HistoryShape(history) /\ WorksAlike(history)
  BY DEF ScheduleInv, Scheduled, Coordinators, WorksAlike
<1>2. Moved(restarter, restarter)
  BY <1>1 DEF Moved
<1>3. CASE BeginEpisode
  BY <1>3, BeginKeeps
<1>4. CASE NoteConflict
  <2>1. /\ coordinator' = [coordinator EXCEPT !.conflicts = @ + 1]
        /\ restarter' = TickConflict(restarter) /\ UNCHANGED <<inprocessor, history>>
    BY <1>4 DEF NoteConflict
  <2>2. /\ coordinator' \in Coordinators /\ coordinator'.conflicts >= coordinator.conflicts
        /\ coordinator'.deferred = coordinator.deferred
    <3> DEFINE n == coordinator.conflicts + 1
    <3>1. coordinator' = [coordinator EXCEPT !.conflicts = n]
      BY <2>1
    <3>2. n \in Nat /\ n >= coordinator.conflicts
      BY <1>1
    <3> HIDE DEF n
    <3>3. /\ coordinator' \in Coordinators /\ coordinator'.conflicts = n
          /\ coordinator'.deferred = coordinator.deferred
      BY <1>1, <3>1, <3>2 DEF Coordinators
    <3> QED
      BY <3>2, <3>3
  <2>3. Moved(restarter, restarter')
    BY <1>1, <2>1, RestarterKeeps
  <2> QED
    BY <1>1, <2>1, <2>2, <2>3, MovedKeeps
<1>5. CASE OpeningWalk
  <2>1. /\ coordinator' = [coordinator EXCEPT !.walk = FALSE]
        /\ restarter' = NoteRestart(restarter) /\ UNCHANGED <<inprocessor, history>>
    BY <1>5 DEF OpeningWalk
  <2>2. /\ coordinator' \in Coordinators /\ coordinator'.conflicts >= coordinator.conflicts
        /\ coordinator'.deferred = coordinator.deferred
    <3>1. /\ coordinator' \in Coordinators /\ coordinator'.conflicts = coordinator.conflicts
          /\ coordinator'.deferred = coordinator.deferred
      BY <1>1, <2>1 DEF Coordinators
    <3> QED
      BY <1>1, <3>1
  <2>3. Moved(restarter, restarter')
    BY <1>1, <2>1, RestarterKeeps
  <2> QED
    BY <1>1, <2>1, <2>2, <2>3, MovedKeeps
<1>6. CASE Fixpoint
  <2>1. CASE RestartOrDecide(restarter, history)
    BY <1>1, <1>2, <2>1, RestartOrDecideKeeps
  <2>2. ASSUME NEW interval, NEW periods, NEW since,
               RestartOrDecide(SetInterval(restarter, interval),
                               [history EXCEPT !.periods = periods, !.since = since])
        PROVE  ScheduleInv'
    <3> DEFINE h == [history EXCEPT !.periods = periods, !.since = since]
    <3>1. WorksAlike(h)
      <4>1. /\ DOMAIN h = HistoryFields /\ h.last = history.last /\ h.turnedAway = history.turnedAway
            /\ h.widest = history.widest /\ h.deferrals = history.deferrals /\ h.idle = history.idle
        BY <1>1 DEF HistoryShape, HistoryFields
      <4> QED
        BY <1>1, <4>1 DEF WorksAlike, HistoryShape
    <3>2. Moved(restarter, SetInterval(restarter, interval))
      BY <1>1, RestarterKeeps
    <3> QED
      BY <2>2, <3>1, <3>2, RestartOrDecideKeeps
  <2> QED
    BY <1>6, <2>1, <2>2 DEF Fixpoint
<1>7. CASE EndEpisode
  BY <1>1, <1>2, <1>7, PollKeeps DEF EndEpisode
<1>8. CASE UNCHANGED schedulingVars
  BY <1>8 DEF schedulingVars, ScheduleInv
<1> QED
  BY <1>3, <1>4, <1>5, <1>6, <1>7, <1>8 DEF SchedulingNext

-----------------------------------------------------------------------------
(* Theorems                                                                *)

\* Across restarts, modes, epochs and episodes the triggers stay within a window
\* of the counters they are compared with, and the windows within their limits
\* (scheduler::inprocess, set_conflicts_seen and run_epoch).
THEOREM ScheduleInductive == SchedulingSpec => []ScheduleInv
<1>1. SchedulingInit => ScheduleInv
  <2> SUFFICES ASSUME SchedulingInit PROVE ScheduleInv
    OBVIOUS
  <2>1. inprocessor \in Inprocessors
    BY SchedulingAssumption, WindowsAre DEF SchedulingInit, Inprocessors
  <2>2. coordinator \in Coordinators
    BY DEF SchedulingInit, Coordinators
  <2>3. DOMAIN restarter = RestarterFields /\ restarter.restarts = 0
    BY DEF SchedulingInit, ResetRestarter, RestarterFields
  <2>4. /\ DOMAIN history = HistoryFields /\ history.last = NoPoll /\ history.turnedAway = NoPoll
        /\ history.idle = FALSE /\ history.deferrals = 0
        /\ history.widest = [conflicts |-> ConflictWindow, restarts |-> RestartWindow]
    BY DEF SchedulingInit, HistoryFields
  <2>5. HistoryShape(history)
    BY <2>4, WindowsAre DEF HistoryShape, NoPoll, Polls
  <2>6. TriggersNear(inprocessor, history.widest)
    BY <2>4, WindowsAre DEF SchedulingInit, TriggersNear
  <2>7. coordinator.deferred \in {0, 1}
    BY <2>2 DEF Coordinators
  <2> QED
    BY <2>1, <2>2, <2>3, <2>4, <2>5, <2>6, <2>7 DEF ScheduleInv, Scheduled, AwayInTime
<1>2. ScheduleInv /\ [SchedulingNext]_schedulingVars => ScheduleInv'
  BY StepKeeps
<1> QED
  BY <1>1, <1>2, PTL DEF SchedulingSpec

\* Simplification keeps to its cadence: counted from the last epoch, or from the
\* first poll of the episode, no poll is turned away once the widest window there
\* has been is over, every epoch is granted a pass, windows and deferrals keep to
\* their limits (scheduler::inprocess, notify_inprocess_epoch_completed).
THEOREM CadenceStands == SchedulingSpec => []CadenceKept
<1>1. ScheduleInv => CadenceKept
  <2> SUFFICES ASSUME ScheduleInv PROVE CadenceKept
    OBVIOUS
  <2>1. /\ inprocessor \in Inprocessors /\ HistoryShape(history) /\ AwayInTime(history)
        /\ coordinator \in Coordinators /\ history.deferrals <= coordinator.deferred
    BY DEF ScheduleInv, Scheduled
  <2>2. history.deferrals <= 1
    BY <2>1 DEF HistoryShape, Coordinators
  <2>3. /\ inprocessor.conflictWindow \in ConflictWindows
        /\ inprocessor.restartWindow \in RestartWindow..MaxRestartWindow
    BY <2>1 DEF Inprocessors
  <2> QED
    BY <2>1, <2>2, <2>3 DEF CadenceKept, EpochsInTime, ThrottlingBounded, AwayInTime, HistoryShape,
       ConflictWindows
<1>2. SchedulingSpec => []ScheduleInv
  BY ScheduleInductive
<1> QED
  BY <1>1, <1>2, PTL


-----------------------------------------------------------------------------
(* The inductive invariant                                                 *)

ProbeLiterals == UNION {{v, -v} : v \in ProbeVariables}

\* A literal is a literal of the formula.
ProbingShape ==
    /\ \A c \in probedClauses : \A l \in c : l \in Int /\ l # 0
    /\ IsFiniteSet(UNION probedClauses)
    /\ stated0 \subseteq probedClauses
    /\ step \in {"begin", "scan", "negative", "failed positive", "failed negative", "lift", "done"}
    /\ step \in {"negative", "failed positive", "failed negative"} => progress.var \in ProbeVariables
    /\ lifted \subseteq ProbeLiterals
    /\ DOMAIN progress = {"round", "var", "found", "before"}

\* What a solution s owes the pass: every unit learned, and, between the two
\* probes of a variable, what the first one found.
Followed(s) ==
    /\ \A c \in probedClauses : c \cap s # {}
    /\ root \subseteq s
    /\ step = "negative" => (progress.var \in s => probeMarks \subseteq s)
    /\ step = "failed positive" => -progress.var \in s
    /\ step = "failed negative" => progress.var \in s
    /\ step = "lift" => lifted \subseteq s

ProbingInv ==
    /\ ProbingShape
    /\ probeMarks \subseteq markedList
    /\ \A s \in ProbedModels : ~refuted /\ Followed(s)

-----------------------------------------------------------------------------
(* The variables of the formula                                            *)

\* There are finitely many variables, each a positive number; a literal of the
\* formula is one of the two literals of a variable.
LEMMA VariablesAre ==
  ASSUME ProbingShape
  PROVE  /\ ProbeVariables \in SUBSET (Nat \ {0}) /\ IsFiniteSet(ProbeVariables)
         /\ Cardinality(ProbeVariables) \in Nat
         /\ UNION probedClauses \subseteq ProbeLiterals
         /\ \A l \in ProbeLiterals : l \in Int /\ l # 0 /\ -l \in ProbeLiterals
         /\ \A l \in ProbeLiterals : (IF l < 0 THEN -l ELSE l) \in ProbeVariables
<1> DEFINE L == UNION probedClauses
           v(l) == IF l < 0 THEN -l ELSE l
<1>1. \A l \in L : l \in Int /\ l # 0
  BY DEF ProbingShape
<1>2. ProbeVariables = {v(l) : l \in L}
  BY DEF ProbeVariables
<1>3. IsFiniteSet(L)
  BY DEF ProbingShape
<1>4. IsFiniteSet({v(l) : l \in L})
  <2> DEFINE T == {v(l) : l \in L}
             f == [l \in L |-> v(l)]
  <2>1. f \in Surjection(L, T)
    BY DEF Surjection
  <2> HIDE DEF f, T, L
  <2>2. IsFiniteSet(T)
    BY <1>3, <2>1, FS_Surjection
  <2> QED
    BY <2>2 DEF T
<1>5. ProbeVariables \in SUBSET (Nat \ {0})
  BY <1>1, <1>2
<1>6. Cardinality(ProbeVariables) \in Nat
  BY <1>2, <1>4, FS_CardinalityType
<1>7. ASSUME NEW l \in L PROVE l \in ProbeLiterals
  <2>1. v(l) \in ProbeVariables /\ l \in {v(l), -v(l)}
    BY <1>1, <1>2
  <2> QED
    BY <2>1 DEF ProbeLiterals
<1>8. ASSUME NEW l \in ProbeLiterals
      PROVE  l \in Int /\ l # 0 /\ -l \in ProbeLiterals /\ v(l) \in ProbeVariables
  <2>1. PICK u \in ProbeVariables : l \in {u, -u}
    BY DEF ProbeLiterals
  <2>2. u \in Nat /\ u # 0
    BY <1>5
  <2>3. -l \in {u, -u} /\ v(l) = u
    BY <2>1, <2>2
  <2> QED
    BY <2>1, <2>2, <2>3 DEF ProbeLiterals
<1> QED
  BY <1>2, <1>4, <1>5, <1>6, <1>7, <1>8

\* A solution gives each variable one value.
LEMMA ModelsAreConsistent ==
  ASSUME ProbingShape, NEW s \in ProbedModels
  PROVE  /\ s \subseteq ProbeLiterals
         /\ \A l \in ProbeLiterals : (l \in s) # (-l \in s)
<1>1. s \subseteq ProbeLiterals
  BY DEF ProbedModels, ProbeLiterals
<1>2. ASSUME NEW l \in ProbeLiterals PROVE (l \in s) # (-l \in s)
  <2>1. PICK u \in ProbeVariables : l \in {u, -u}
    BY DEF ProbeLiterals
  <2>2. (u \in s) # (-u \in s)
    BY DEF ProbedModels
  <2>3. u \in Nat
    BY VariablesAre
  <2>4. l = u \/ (l = -u /\ -l = u)
    BY <2>1, <2>3
  <2> QED
    BY <2>2, <2>4
<1> QED
  BY <1>1, <1>2

-----------------------------------------------------------------------------
(* Unit propagation                                                        *)

SpreadStep(lits, f, n) == IF n = 0 THEN lits ELSE Spread(f[n - 1])

\* The rounds of a propagation are what their definition says.
LEMMA PropagationUnfolds ==
  ASSUME ProbingShape, NEW lits
  PROVE  \E f : /\ DOMAIN f = 0..(2 * Cardinality(ProbeVariables))
                /\ \A n \in 0..(2 * Cardinality(ProbeVariables)) : f[n] = SpreadStep(lits, f, n)
                /\ Propagated0(lits) = f[2 * Cardinality(ProbeVariables)]
<1> DEFINE N == 2 * Cardinality(ProbeVariables)
           Upto(f, n) == f = [k \in 0..N |-> f[k]] /\ \A k \in 0..N : k <= n => f[k] = SpreadStep(lits, f, k)
           P == {n \in Nat : \E f : Upto(f, n)}
<1>0. N \in Nat
  BY VariablesAre
<1> HIDE DEF N
<1>1. 0 \in P
  <2> DEFINE f == [k \in 0..N |-> lits]
  <2>1. Upto(f, 0)
    BY DEF SpreadStep
  <2> QED
    BY <2>1
<1>2. ASSUME NEW n \in Nat, n \in P PROVE n + 1 \in P
  <2>1. PICK f : Upto(f, n)
    BY <1>2
  <2> DEFINE g == [k \in 0..N |-> IF k <= n THEN f[k] ELSE Spread(f[n])]
  <2>2. g = [k \in 0..N |-> g[k]]
    OBVIOUS
  <2>3. ASSUME NEW k \in 0..N, k <= n + 1 PROVE g[k] = SpreadStep(lits, g, k)
    <3>1. CASE k = 0
      <4>1. 0 \in 0..N /\ 0 <= n
        BY <1>0
      <4>2. g[0] = f[0] /\ f[0] = SpreadStep(lits, f, 0)
        BY <2>1, <4>1
      <4> QED
        BY <3>1, <4>2 DEF SpreadStep
    <3>2. CASE k # 0
      <4>1. k - 1 \in 0..N /\ k - 1 <= n /\ g[k - 1] = f[k - 1]
        BY <1>0, <2>3, <3>2
      <4>2. CASE k <= n
        <5>1. f[k] = Spread(f[k - 1])
          BY <2>1, <3>2, <4>2 DEF SpreadStep
        <5>2. g[k] = f[k]
          BY <4>2
        <5> QED
          BY <3>2, <4>1, <5>1, <5>2 DEF SpreadStep
      <4>3. CASE ~(k <= n)
        <5>1. k - 1 = n
          BY <1>0, <2>3, <4>3
        <5>2. g[k] = Spread(f[n])
          BY <4>3
        <5> QED
          BY <3>2, <4>1, <5>1, <5>2 DEF SpreadStep
      <4> QED
        BY <4>2, <4>3
    <3> QED
      BY <3>1, <3>2
  <2> HIDE DEF g
  <2>4. Upto(g, n + 1)
    BY <2>2, <2>3
  <2>5. \E h : Upto(h, n + 1)
    BY <2>4, Zenon
  <2>6. n + 1 \in Nat
    OBVIOUS
  <2> QED
    BY <2>5, <2>6, Zenon
<1>3. N \in P
  <2> HIDE DEF P
  <2> QED
    BY <1>0, <1>1, <1>2, CountingUp
<1>4. PICK f : f = [k \in 0..N |-> f[k]] /\ \A k \in 0..N : f[k] = SpreadStep(lits, f, k)
  <2>1. PICK f : Upto(f, N)
    BY <1>3, Zenon
  <2>2. \A k \in 0..N : k <= N
    BY <1>0
  <2>3. f = [k \in 0..N |-> f[k]] /\ \A k \in 0..N : f[k] = SpreadStep(lits, f, k)
    BY <2>1, <2>2
  <2> QED
    BY <2>3, Zenon
<1> DEFINE reached == CHOOSE g : g = [n \in 0..N |-> SpreadStep(lits, g, n)]
<1>5. f = [n \in 0..N |-> SpreadStep(lits, f, n)]
  BY <1>4
<1>6. reached = [n \in 0..N |-> SpreadStep(lits, reached, n)]
  BY <1>5
<1>7. Propagated0(lits) = reached[N]
  BY DEF Propagated0, SpreadStep, N
<1> HIDE DEF reached
<1>8. DOMAIN reached = 0..N /\ \A n \in 0..N : reached[n] = SpreadStep(lits, reached, n)
  BY <1>6
<1> QED
  BY <1>7, <1>8 DEF N

\* What holds in a solution implies only what holds in it.
LEMMA SpreadHolds ==
  ASSUME ProbingShape, NEW s \in ProbedModels, \A c \in probedClauses : c \cap s # {},
         NEW lits, lits \subseteq s
  PROVE  Spread(lits) \subseteq s
<1>1. SUFFICES ASSUME NEW c \in probedClauses, NEW l \in c, \A m \in c \ {l} : -m \in lits
               PROVE  l \in s
  BY DEF Spread
<1>2. PICK m \in c : m \in s
  OBVIOUS
<1>3. CASE m = l
  BY <1>2, <1>3
<1>4. CASE m # l
  <2>1. -m \in s
    BY <1>1, <1>4
  <2>2. m \in ProbeLiterals
    BY <1>2, ModelsAreConsistent
  <2> QED
    BY <1>2, <2>1, <2>2, ModelsAreConsistent
<1> QED
  BY <1>3, <1>4

LEMMA PropagatedHolds ==
  ASSUME ProbingShape, NEW s \in ProbedModels, \A c \in probedClauses : c \cap s # {},
         NEW lits, lits \subseteq s
  PROVE  Propagated0(lits) \subseteq s /\ ~Conflicting(Propagated0(lits))
<1> DEFINE N == 2 * Cardinality(ProbeVariables)
<1>0. N \in Nat
  BY VariablesAre
<1>1. PICK f : /\ DOMAIN f = 0..N
               /\ \A n \in 0..N : f[n] = SpreadStep(lits, f, n)
               /\ Propagated0(lits) = f[N]
  BY PropagationUnfolds
<1> HIDE DEF N
<1> DEFINE P == {n \in Nat : n \in 0..N => f[n] \subseteq s}
<1>2. 0 \in P
  BY <1>0, <1>1 DEF SpreadStep
<1>3. ASSUME NEW n \in Nat, n \in P PROVE n + 1 \in P
  <2>1. SUFFICES ASSUME n + 1 \in 0..N PROVE f[n + 1] \subseteq s
    OBVIOUS
  <2>2. n \in 0..N
    BY <1>0, <2>1
  <2>3. f[n + 1] = Spread(f[n])
    BY <1>1, <2>1 DEF SpreadStep
  <2>4. f[n] \subseteq s
    BY <1>3, <2>2
  <2> QED
    BY <2>3, <2>4, SpreadHolds
<1>4. N \in P
  <2> HIDE DEF P
  <2> QED
    BY <1>0, <1>2, <1>3, CountingUp
<1>5. Propagated0(lits) \subseteq s
  BY <1>0, <1>1, <1>4
<1>6. ASSUME NEW reached, reached \subseteq s PROVE ~Conflicting(reached)
  <2>1. \A l \in reached : -l \notin reached
    BY <1>6, ModelsAreConsistent
  <2>2. ASSUME NEW c \in probedClauses PROVE ~\A l \in c : -l \in reached
    <3>1. PICK l \in c : l \in s
      OBVIOUS
    <3> QED
      BY <1>6, <3>1, ModelsAreConsistent
  <2> QED
    BY <2>1, <2>2 DEF Conflicting
<1> QED
  BY <1>5, <1>6

\* Propagation reaches literals of the formula only.
LEMMA PropagatedShape ==
  ASSUME ProbingShape, NEW lits
  PROVE  Propagated0(lits) \subseteq lits \cup ProbeLiterals
<1> DEFINE N == 2 * Cardinality(ProbeVariables)
           All == lits \cup ProbeLiterals
<1>0. N \in Nat /\ UNION probedClauses \subseteq ProbeLiterals
  BY VariablesAre
<1>1. PICK f : /\ DOMAIN f = 0..N
               /\ \A n \in 0..N : f[n] = SpreadStep(lits, f, n)
               /\ Propagated0(lits) = f[N]
  BY PropagationUnfolds
<1> HIDE DEF N
<1> DEFINE P == {n \in Nat : n \in 0..N => f[n] \subseteq All}
<1>2. 0 \in P
  BY <1>0, <1>1 DEF SpreadStep
<1>3. ASSUME NEW n \in Nat, n \in P PROVE n + 1 \in P
  <2>1. SUFFICES ASSUME n + 1 \in 0..N PROVE f[n + 1] \subseteq All
    OBVIOUS
  <2>2. f[n] \subseteq All
    BY <1>0, <1>3, <2>1
  <2>3. f[n + 1] = Spread(f[n])
    BY <1>1, <2>1 DEF SpreadStep
  <2>4. Spread(f[n]) \subseteq f[n] \cup UNION probedClauses
    BY DEF Spread
  <2> QED
    BY <1>0, <2>2, <2>3, <2>4
<1>4. N \in P
  <2> HIDE DEF P
  <2> QED
    BY <1>0, <1>2, <1>3, CountingUp
<1> QED
  BY <1>0, <1>1, <1>4

-----------------------------------------------------------------------------
(* The pass                                                                *)

\* Nothing is known at the beginning.
LEMMA ProbingBegins == ProbingInit => ProbingInv
<1> SUFFICES ASSUME ProbingInit PROVE ProbingInv
  OBVIOUS
<1>1. ProbingShape
  BY ProbedAssumption DEF ProbingInit, ProbingShape
<1>2. probeMarks \subseteq markedList /\ ~refuted /\ root = {} /\ step = "begin"
  BY DEF ProbingInit
<1>3. \A s \in ProbedModels : \A c \in probedClauses : c \cap s # {}
  BY DEF ProbingInit, ProbedModels
<1> QED
  BY <1>1, <1>2, <1>3 DEF ProbingInv, Followed

\* The variable a probe takes is one of the formula, and no earlier one is due.
LEMMA ProbedIs ==
  ASSUME ProbingShape, Probed # {}
  PROVE  Min(Probed) \in ProbeVariables
<1>1. Probed \subseteq ProbeVariables /\ Probed \in SUBSET Nat
  BY VariablesAre DEF Probed
<1>2. \E x \in Probed : \A y \in Probed : x <= y
  BY <1>1, Least
<1> QED
  BY <1>1, <1>2 DEF Min

\* As long as the clauses stay, so do the solutions.
LEMMA ModelsStay ==
  ASSUME UNCHANGED stated0, ProbeVariables' = ProbeVariables
  PROVE  ProbedModels' = ProbedModels
BY DEF ProbedModels

\* A step that learns nothing and says of every solution what the next one needs.
LEMMA QuietStep ==
  ASSUME ProbingInv, UNCHANGED <<probedClauses, stated0, root, refuted>>,
         ProbingShape', (probeMarks \subseteq markedList)',
         \A s \in ProbedModels :
            (/\ step = "negative" => (progress.var \in s => probeMarks \subseteq s)
             /\ step = "failed positive" => -progress.var \in s
             /\ step = "failed negative" => progress.var \in s
             /\ step = "lift" => lifted \subseteq s)'
  PROVE  ProbingInv'
<1>1. ProbeVariables' = ProbeVariables
  BY DEF ProbeVariables
<1>2. ProbedModels' = ProbedModels
  BY <1>1, ModelsStay
<1> QED
  BY <1>2 DEF ProbingInv, Followed

LEMMA RoundBegins ==
  ASSUME ProbingInv, BeginProbing
  PROVE  ProbingInv'
<1>1. ProbingShape'
  BY DEF ProbingInv, ProbingShape, BeginProbing, ProbeLiterals, ProbeVariables
<1>2. (probeMarks \subseteq markedList)'
  BY DEF ProbingInv, BeginProbing
<1>3. ProbedModels' = ProbedModels
  BY ModelsStay DEF BeginProbing, ProbeVariables
<1>4. ASSUME NEW s \in ProbedModels PROVE ~refuted' /\ Followed(s)'
  <2>1. Propagated0({}) \subseteq s /\ ~Conflicting(Propagated0({}))
    BY PropagatedHolds DEF ProbingInv, Followed
  <2>2. refuted' = FALSE /\ root' = Propagated0({}) /\ step' = "scan" /\ UNCHANGED probedClauses
    BY <2>1 DEF BeginProbing
  <2> QED
    BY <2>1, <2>2 DEF ProbingInv, Followed
<1> QED
  BY <1>1, <1>2, <1>3, <1>4 DEF ProbingInv

LEMMA FinishKeeps ==
  ASSUME ProbingInv, FinishRound
  PROVE  ProbingInv'
<1>1. step' \in {"done", "scan"} /\ DOMAIN progress' = DOMAIN progress
  BY DEF FinishRound, EndRound
<1>2. ProbingShape'
  BY <1>1 DEF ProbingInv, ProbingShape, FinishRound, ProbeLiterals, ProbeVariables
<1> QED
  BY <1>1, <1>2, QuietStep DEF ProbingInv, FinishRound

\* What the first probe marks follows from its literal; if it fails, the other
\* literal holds everywhere.
LEMMA PositiveKeeps ==
  ASSUME ProbingInv, ProbePositive
  PROVE  ProbingInv'
<1> DEFINE v == Min(Probed)
           reached == Propagated0(root \cup {v})
           implied == IF Conflicting(reached) THEN {} ELSE reached \ (root \cup {v})
           clean == Cleared(probeMarks, markedList)
<1>1. v \in ProbeVariables
  BY ProbedIs DEF ProbingInv, ProbePositive
<1>2. clean = {}
  BY DEF ProbingInv, Cleared
<1>3. /\ lifted' = {}
      /\ \/ /\ Conflicting(reached) /\ probeMarks' = Cleared(clean \cup implied, implied) /\ markedList' = {}
            /\ progress' = [progress EXCEPT !.var = v] /\ step' = "failed positive"
         \/ /\ probeMarks' = Cleared(clean \cup implied, implied) /\ markedList' = {}
            /\ step' \in {"done", "scan"} /\ DOMAIN progress' = DOMAIN progress
         \/ /\ ~Conflicting(reached) /\ probeMarks' = clean \cup implied /\ markedList' = implied
            /\ progress' = [progress EXCEPT !.var = v] /\ step' = "negative"
  BY DEF ProbePositive, EndRound
<1>4. UNCHANGED <<probedClauses, stated0, root, refuted>>
  BY DEF ProbePositive
<1>5. ASSUME NEW s \in ProbedModels, v \in s
      PROVE  reached \subseteq s /\ ~Conflicting(reached)
  <2>1. root \cup {v} \subseteq s /\ \A c \in probedClauses : c \cap s # {}
    BY <1>5 DEF ProbingInv, Followed
  <2> QED
    BY <2>1, PropagatedHolds DEF ProbingInv
<1>6. ASSUME NEW s \in ProbedModels, v \notin s PROVE -v \in s
  BY <1>1, <1>6 DEF ProbedModels
<1> HIDE DEF v, reached
<1>7. (probeMarks \subseteq markedList)'
  BY <1>2, <1>3 DEF Cleared
<1>8. /\ step' \in {"failed positive", "negative"} => progress'.var = v
      /\ DOMAIN progress' = DOMAIN progress
  BY <1>3 DEF ProbingInv, ProbingShape
<1>9. ProbingShape'
  BY <1>1, <1>3, <1>4, <1>8 DEF ProbingInv, ProbingShape, ProbeLiterals, ProbeVariables
<1>10. ASSUME NEW s \in ProbedModels
       PROVE  (/\ step = "negative" => (progress.var \in s => probeMarks \subseteq s)
               /\ step = "failed positive" => -progress.var \in s
               /\ step = "failed negative" => progress.var \in s
               /\ step = "lift" => lifted \subseteq s)'
  <2>1. CASE step' = "negative"
    <3>1. progress'.var = v /\ probeMarks' = implied /\ ~Conflicting(reached)
      BY <1>2, <1>3, <1>8, <2>1
    <3> QED
      BY <1>5, <2>1, <3>1
  <2>2. CASE step' = "failed positive"
    <3>1. progress'.var = v /\ Conflicting(reached)
      BY <1>3, <1>8, <2>2
    <3> QED
      BY <1>5, <1>6, <2>2, <3>1
  <2>3. step' \notin {"failed negative", "lift"}
    BY <1>3
  <2> QED
    BY <2>1, <2>2, <2>3
<1> QED
  BY <1>4, <1>7, <1>9, <1>10, QuietStep

\* What both probes reach holds whichever literal does.
LEMMA NegativeKeeps ==
  ASSUME ProbingInv, ProbeNegative
  PROVE  ProbingInv'
<1> DEFINE v == progress.var
           reached == Propagated0(root \cup {-v})
<1>1. v \in ProbeVariables /\ -v \in ProbeLiterals /\ step = "negative"
  <2>1. v \in ProbeVariables /\ step = "negative"
    BY DEF ProbingInv, ProbingShape, ProbeNegative
  <2> QED
    BY <2>1 DEF ProbeLiterals
<1>2. /\ lifted' = IF Conflicting(reached) THEN {} ELSE (reached \ (root \cup {-v})) \cap probeMarks
      /\ step' = IF Conflicting(reached) THEN "failed negative" ELSE "lift"
      /\ probeMarks' = Cleared(probeMarks, markedList) /\ markedList' = {}
      /\ UNCHANGED <<probedClauses, stated0, root, progress, refuted>>
  BY DEF ProbeNegative
<1>3. ASSUME NEW s \in ProbedModels, -v \in s
      PROVE  reached \subseteq s /\ ~Conflicting(reached)
  <2>1. root \cup {-v} \subseteq s /\ \A c \in probedClauses : c \cap s # {}
    BY <1>3 DEF ProbingInv, Followed
  <2> QED
    BY <2>1, PropagatedHolds DEF ProbingInv
<1>4. ASSUME NEW s \in ProbedModels, -v \notin s PROVE v \in s /\ probeMarks \subseteq s
  BY <1>1, <1>4 DEF ProbedModels, ProbingInv, Followed
<1>5. reached \subseteq root \cup {-v} \cup ProbeLiterals
  BY PropagatedShape DEF ProbingInv
<1> HIDE DEF reached
<1>6. lifted' \subseteq ProbeLiterals
  BY <1>2, <1>5
<1>7. ProbingShape'
  BY <1>1, <1>2, <1>6 DEF ProbingInv, ProbingShape, ProbeLiterals, ProbeVariables
<1>8. (probeMarks \subseteq markedList)'
  BY <1>2 DEF ProbingInv, Cleared
<1>9. ASSUME NEW s \in ProbedModels
       PROVE  (/\ step = "negative" => (progress.var \in s => probeMarks \subseteq s)
               /\ step = "failed positive" => -progress.var \in s
               /\ step = "failed negative" => progress.var \in s
               /\ step = "lift" => lifted \subseteq s)'
  <2>1. CASE Conflicting(reached)
    BY <1>2, <1>3, <1>4, <2>1
  <2>2. CASE ~Conflicting(reached)
    <3>1. step' = "lift" /\ lifted' \subseteq reached /\ lifted' \subseteq probeMarks
      BY <1>2, <2>2
    <3> QED
      BY <1>3, <1>4, <3>1
  <2> QED
    BY <2>1, <2>2
<1> QED
  BY <1>2, <1>7, <1>8, <1>9, QuietStep

\* A unit that holds in every solution may be learned.
LEMMA LearningKeeps ==
  ASSUME ProbingInv, NEW unit \in ProbeLiterals, \A s \in ProbedModels : unit \in s,
         NEW after \in {"scan", "lift"}, NEW pending \in SUBSET ProbeLiterals, NEW found,
         \A s \in ProbedModels : after = "lift" => pending \subseteq s,
         LearnRootUnit(unit, after, pending, found)
  PROVE  ProbingInv'
<1> DEFINE reached == Propagated0(root \cup {unit})
<1>1. CASE /\ step' = "done"
           /\ UNCHANGED <<probedClauses, stated0, root, probeMarks, markedList, lifted, effort, progress, refuted>>
  <2>1. ProbingShape'
    BY <1>1 DEF ProbingInv, ProbingShape, ProbeLiterals, ProbeVariables
  <2> QED
    BY <1>1, <2>1, QuietStep DEF ProbingInv
<1>2. CASE /\ probedClauses' = probedClauses \cup {{unit}}
           /\ refuted' = Conflicting(reached)
           /\ root' = IF refuted' THEN root \cup {unit} ELSE reached
           /\ lifted' = pending
           /\ progress' = [progress EXCEPT !.found = @ + found,
                                           !.var = IF after = "scan" THEN @ + 1 ELSE @]
           /\ step' = IF refuted' THEN "done" ELSE after
           /\ UNCHANGED <<stated0, probeMarks, markedList, effort>>
  <2>1. ProbeVariables' = ProbeVariables /\ ProbeLiterals' = ProbeLiterals
    <3> DEFINE v(l) == IF l < 0 THEN -l ELSE l
    <3>1. v(unit) \in ProbeVariables
      BY VariablesAre DEF ProbingInv
    <3>2. ProbeVariables' = ProbeVariables \cup {v(unit)}
      <4>1. probedClauses' = probedClauses \cup {{unit}}
        BY <1>2
      <4> DEFINE old == UNION probedClauses
                 new == UNION probedClauses'
      <4>2. \A l : l \in new <=> l \in old \/ l = unit
        BY <4>1
      <4>3. ProbeVariables = {v(l) : l \in old} /\ ProbeVariables' = {v(l) : l \in new}
        BY DEF ProbeVariables
      <4> HIDE DEF v, old, new
      <4>4. \A u : u \in {v(l) : l \in new} <=> u \in {v(l) : l \in old} \/ u = v(unit)
        BY <4>2
      <4> QED
        BY <4>3, <4>4
    <3> QED
      BY <3>1, <3>2 DEF ProbeLiterals
  <2>2. ProbedModels' = ProbedModels
    BY <1>2, <2>1, ModelsStay
  <2>3. ProbingShape'
    <3>1. unit \in Int /\ unit # 0
      BY VariablesAre DEF ProbingInv
    <3>2. IsFiniteSet(UNION probedClauses')
      <4>1. UNION probedClauses' = (UNION probedClauses) \cup {unit}
        BY <1>2
      <4>2. IsFiniteSet((UNION probedClauses) \cup {unit})
        <5> DEFINE L == UNION probedClauses
        <5>1. IsFiniteSet(L)
          BY DEF ProbingInv, ProbingShape
        <5> HIDE DEF L
        <5>2. IsFiniteSet(L \cup {unit})
          BY <5>1, FS_AddElement
        <5> QED
          BY <5>2 DEF L
      <4> QED
        BY <4>1, <4>2
    <3>3. \A c \in probedClauses' : \A l \in c : l \in Int /\ l # 0
      BY <1>2, <3>1 DEF ProbingInv, ProbingShape
    <3>4. stated0' \subseteq probedClauses' /\ lifted' \subseteq ProbeLiterals'
      BY <1>2, <2>1 DEF ProbingInv, ProbingShape
    <3>5. step' \in {"scan", "lift", "done"} /\ DOMAIN progress' = DOMAIN progress
      BY <1>2
    <3> QED
      BY <3>2, <3>3, <3>4, <3>5 DEF ProbingInv, ProbingShape
  <2>4. (probeMarks \subseteq markedList)'
    BY <1>2 DEF ProbingInv
  <2>5. ASSUME NEW s \in ProbedModels PROVE ~refuted' /\ Followed(s)'
    <3>1. reached \subseteq s /\ ~Conflicting(reached)
      <4>1. root \cup {unit} \subseteq s /\ \A c \in probedClauses : c \cap s # {}
        BY DEF ProbingInv, Followed
      <4> QED
        BY <4>1, PropagatedHolds DEF ProbingInv
    <3>2. ~refuted' /\ root' \subseteq s
      BY <1>2, <3>1
    <3>3. \A c \in probedClauses' : c \cap s # {}
      BY <1>2 DEF ProbingInv, Followed
    <3>4. step' = after /\ lifted' = pending
      BY <1>2, <3>2
    <3> QED
      BY <3>2, <3>3, <3>4 DEF Followed
  <2> QED
    BY <2>2, <2>3, <2>4, <2>5 DEF ProbingInv
<1> QED
  BY <1>1, <1>2 DEF LearnRootUnit

\* A literal that failed is false in every solution.
LEMMA FailedKeeps ==
  ASSUME ProbingInv, LearnFailed
  PROVE  ProbingInv'
<1> DEFINE v == progress.var
<1>1. v \in ProbeVariables
  BY DEF LearnFailed, ProbingInv, ProbingShape
<1>2. v \in ProbeLiterals /\ -v \in ProbeLiterals
  BY <1>1 DEF ProbeLiterals
<1>3. CASE step = "failed positive" /\ LearnRootUnit(-v, "scan", {}, 1)
  <2>1. \A s \in ProbedModels : -v \in s
    BY <1>3 DEF ProbingInv, Followed
  <2> QED
    BY <1>2, <1>3, <2>1, LearningKeeps
<1>4. CASE step = "failed negative" /\ LearnRootUnit(v, "scan", {}, 1)
  <2>1. \A s \in ProbedModels : v \in s
    BY <1>4 DEF ProbingInv, Followed
  <2> QED
    BY <1>2, <1>4, <2>1, LearningKeeps
<1> QED
  BY <1>3, <1>4 DEF LearnFailed

LEMMA LiftKeeps ==
  ASSUME ProbingInv, Lift
  PROVE  ProbingInv'
<1>1. CASE /\ step' = "scan" /\ progress' = [progress EXCEPT !.var = @ + 1]
           /\ UNCHANGED <<probedClauses, stated0, root, probeMarks, markedList, lifted, effort, refuted>>
  <2>1. ProbingShape'
    BY <1>1 DEF ProbingInv, ProbingShape, ProbeLiterals, ProbeVariables
  <2> QED
    BY <1>1, <2>1, QuietStep DEF ProbingInv
<1>2. ASSUME NEW l \in lifted, lifted' = lifted \ {l},
             UNCHANGED <<probedClauses, stated0, root, probeMarks, markedList, effort, progress, step, refuted>>
      PROVE  ProbingInv'
  <2>1. ProbingShape'
    BY <1>2 DEF ProbingInv, ProbingShape, ProbeLiterals, ProbeVariables
  <2> QED
    BY <1>2, <2>1, QuietStep DEF ProbingInv, Followed
<1>3. ASSUME NEW l \in lifted, LearnRootUnit(l, "lift", lifted \ {l}, 2)
      PROVE  ProbingInv'
  <2>1. step = "lift" /\ lifted \subseteq ProbeLiterals
    BY DEF Lift, ProbingInv, ProbingShape
  <2>2. \A s \in ProbedModels : l \in s /\ lifted \ {l} \subseteq s
    BY <2>1 DEF ProbingInv, Followed
  <2> QED
    BY <1>3, <2>1, <2>2, LearningKeeps
<1> QED
  BY <1>1, <1>2, <1>3 DEF Lift

\* Whatever was probed, in which order and with what effort, the marks and the
\* literals in hand are owed by every solution.
THEOREM ProbingInductive == ProbingSpec => []ProbingInv
<1>1. ProbingInit => ProbingInv
  BY ProbingBegins
<1>2. ProbingInv /\ [ProbingNext]_probingVars => ProbingInv'
  <2> SUFFICES ASSUME ProbingInv, [ProbingNext]_probingVars PROVE ProbingInv'
    OBVIOUS
  <2>1. CASE UNCHANGED probingVars
    BY <2>1 DEF probingVars, ProbingInv, ProbingShape, Followed, ProbedModels, ProbeLiterals, ProbeVariables
  <2>2. CASE BeginProbing
    BY <2>2, RoundBegins
  <2>3. CASE FinishRound
    BY <2>3, FinishKeeps
  <2>4. CASE ProbePositive
    BY <2>4, PositiveKeeps
  <2>5. CASE ProbeNegative
    BY <2>5, NegativeKeeps
  <2>6. CASE LearnFailed
    BY <2>6, FailedKeeps
  <2>7. CASE Lift
    BY <2>7, LiftKeeps
  <2> QED
    BY <2>1, <2>2, <2>3, <2>4, <2>5, <2>6, <2>7 DEF ProbingNext
<1> QED
  BY <1>1, <1>2, PTL DEF ProbingSpec

\* A unit the probing learned holds in every solution of the formula as it was
\* stated, and a refuted root means that there is none
\* (solver_core::probe_failed_literals).
THEOREM ProbingIsSound == ProbingSpec => []ProbingSound
<1>1. ProbingInv => ProbingSound
  BY DEF ProbingInv, Followed, ProbingSound
<1> QED
  BY <1>1, ProbingInductive, PTL

-----------------------------------------------------------------------------
(* The counts of a walk                                                    *)

Numbers == 1..Len(walked)
Walkers == [value : Phases, trueCounts : [Numbers -> Nat], critical : [Numbers -> Nat], breaks : [WalkVariables -> Int],
            unsatisfied : Seq(Numbers), position : [Numbers -> Nat]]

\* What a formula is made of.
LEMMA WalkedIs ==
    ASSUME walked \in WalkFormulas
    PROVE  /\ Len(walked) \in Nat /\ Len(walked) < Nowhere
           /\ \A c \in Numbers :
                /\ walked[c] \in Seq(Int) /\ Len(walked[c]) \in Nat
                /\ \A i \in 1..Len(walked[c]) : walked[c][i] \in Int /\ VariableAt(walked[c], i) \in WalkVariables
                /\ \A i, j \in 1..Len(walked[c]) : VariableAt(walked[c], i) = VariableAt(walked[c], j) => i = j
<1>1. walked \in Seq(Seq(Int)) /\ Len(walked) \in Nat /\ Len(walked) < Nowhere
  BY WalkAssumption
<1>2. ASSUME NEW c \in Numbers PROVE walked[c] \in Seq(Int) /\ Len(walked[c]) \in Nat
  BY <1>1 DEF Numbers
<1>3. ASSUME NEW c \in Numbers, NEW i \in 1..Len(walked[c])
      PROVE  walked[c][i] \in Int /\ VariableAt(walked[c], i) \in WalkVariables
  <2>1. walked[c][i] \in Int
    BY <1>2
  <2>2. walked[c][i] \in WalkVariables \/ -walked[c][i] \in WalkVariables
    BY WalkAssumption DEF Numbers
  <2> QED
    BY <2>1, <2>2, WalkAssumption DEF VariableAt
<1>4. ASSUME NEW c \in Numbers, NEW i \in 1..Len(walked[c]), NEW j \in 1..Len(walked[c]),
             VariableAt(walked[c], i) = VariableAt(walked[c], j)
      PROVE  i = j
  <2>1. walked[c][i] = walked[c][j] \/ walked[c][i] = -walked[c][j]
    BY <1>3, <1>4 DEF VariableAt
  <2> QED
    BY <2>1, WalkAssumption DEF Numbers, NamesOnce
<1> QED
  BY <1>1, <1>2, <1>3, <1>4

WalkerFields == {"value", "trueCounts", "critical", "breaks", "unsatisfied", "position"}
IsRecord(x) == DOMAIN x = WalkerFields /\ x = [k \in WalkerFields |-> x[k]]

LEMMA IsWalker ==
    ASSUME NEW x, IsRecord(x),
           x.value \in Phases, x.trueCounts \in [Numbers -> Nat], x.critical \in [Numbers -> Nat],
           x.breaks \in [WalkVariables -> Int], x.unsatisfied \in Seq(Numbers), x.position \in [Numbers -> Nat]
    PROVE  x \in Walkers
BY DEF Walkers, IsRecord, WalkerFields

\* What each of the fields becomes.
LosesTo(w, x, c, v, left, survivor) ==
    /\ IsRecord(x) /\ x.value = w.value
    /\ x.trueCounts = [w.trueCounts EXCEPT ![c] = left]
    /\ left = 0 => /\ x.position = [w.position EXCEPT ![c] = Len(w.unsatisfied) + 1]
                   /\ x.unsatisfied = Append(w.unsatisfied, c)
                   /\ x.breaks = [w.breaks EXCEPT ![v] = @ - 1]
                   /\ x.critical = w.critical
    /\ left # 0 => x.position = w.position /\ x.unsatisfied = w.unsatisfied
    /\ left = 1 => /\ x.critical = [w.critical EXCEPT ![c] = survivor]
                   /\ x.breaks = [w.breaks EXCEPT ![survivor] = @ + 1]
    /\ left \notin {0, 1} => x.critical = w.critical /\ x.breaks = w.breaks

LEMMA LosesFields ==
    ASSUME NEW w \in Walkers, NEW c \in Numbers, NEW v \in WalkVariables
    PROVE  LosesTo(w, Loses(w, c, v), c, v, w.trueCounts[c] - 1,
                   VariableAt(walked[c], Min(Trues(w.value, walked[c]))))
<1> DEFINE x == Loses(w, c, v)
           left == w.trueCounts[c] - 1
           survivor == VariableAt(walked[c], Min(Trues(w.value, walked[c])))
           counted == [w EXCEPT !.trueCounts[c] = left]
<1>1. x = IF left = 0
       THEN [counted EXCEPT !.position[c] = Len(w.unsatisfied) + 1, !.unsatisfied = Append(@, c), !.breaks[v] = @ - 1]
       ELSE IF left = 1 THEN [counted EXCEPT !.critical[c] = survivor, !.breaks[survivor] = @ + 1] ELSE counted
  BY DEF Loses
<1>2. /\ counted.value = w.value /\ counted.trueCounts = [w.trueCounts EXCEPT ![c] = left]
      /\ counted.position = w.position /\ counted.unsatisfied = w.unsatisfied
      /\ counted.breaks = w.breaks /\ counted.critical = w.critical
      /\ IsRecord(counted)
  BY DEF Walkers, IsRecord, WalkerFields
<1> HIDE DEF counted, x, left, survivor
<1>3. IsRecord(x)
  BY <1>1, <1>2 DEF IsRecord, WalkerFields
<1>4. LosesTo(w, x, c, v, left, survivor)
  BY <1>1, <1>2, <1>3 DEF LosesTo, IsRecord, WalkerFields
<1> QED
  BY <1>4 DEF x, left, survivor

GainsTo(w, x, c, v, had, slot, moved) ==
    /\ IsRecord(x) /\ x.value = w.value
    /\ x.trueCounts = [w.trueCounts EXCEPT ![c] = had + 1]
    /\ had = 0 => /\ x.position = [[w.position EXCEPT ![moved] = slot] EXCEPT ![c] = Nowhere]
                  /\ x.unsatisfied = SubSeq([w.unsatisfied EXCEPT ![slot] = moved], 1,
                                            Len([w.unsatisfied EXCEPT ![slot] = moved]) - 1)
                  /\ x.breaks = [w.breaks EXCEPT ![v] = @ + 1]
                  /\ x.critical = [w.critical EXCEPT ![c] = v]
    /\ had # 0 => x.position = w.position /\ x.unsatisfied = w.unsatisfied /\ x.critical = w.critical
    /\ had = 1 => x.breaks = [w.breaks EXCEPT ![w.critical[c]] = @ - 1]
    /\ had \notin {0, 1} => x.breaks = w.breaks

LEMMA GainsFields ==
    ASSUME NEW w \in Walkers, NEW c \in Numbers, NEW v \in WalkVariables
    PROVE  GainsTo(w, Gains(w, c, v), c, v, w.trueCounts[c], w.position[c], w.unsatisfied[Len(w.unsatisfied)])
<1> DEFINE counted == [w EXCEPT !.trueCounts[c] = @ + 1]
           slot == w.position[c]
           moved == w.unsatisfied[Len(w.unsatisfied)]
           removed == Removed(counted, c)
<1>1. /\ counted.value = w.value /\ counted.trueCounts = [w.trueCounts EXCEPT ![c] = w.trueCounts[c] + 1]
      /\ counted.position = w.position /\ counted.unsatisfied = w.unsatisfied
      /\ counted.breaks = w.breaks /\ counted.critical = w.critical
      /\ IsRecord(counted)
  BY DEF Walkers, IsRecord, WalkerFields
<1>2. Gains(w, c, v) =
        IF w.trueCounts[c] = 0 THEN [removed EXCEPT !.critical[c] = v, !.breaks[v] = @ + 1]
        ELSE IF w.trueCounts[c] = 1 THEN [counted EXCEPT !.breaks[w.critical[c]] = @ - 1] ELSE counted
  BY DEF Gains
<1> HIDE DEF counted
<1>3. removed = [counted EXCEPT !.unsatisfied = Front([@ EXCEPT ![slot] = moved]),
                                !.position = [@ EXCEPT ![moved] = slot, ![c] = Nowhere]]
  BY <1>1 DEF Removed, Last
<1>4. /\ removed.value = w.value /\ removed.trueCounts = counted.trueCounts
      /\ removed.position = [[w.position EXCEPT ![moved] = slot] EXCEPT ![c] = Nowhere]
      /\ removed.unsatisfied = Front([w.unsatisfied EXCEPT ![slot] = moved])
      /\ removed.breaks = w.breaks /\ removed.critical = w.critical
      /\ IsRecord(removed)
  BY <1>1, <1>3 DEF IsRecord, WalkerFields
<1> HIDE DEF removed
<1>5. IsRecord(Gains(w, c, v))
  BY <1>1, <1>2, <1>4 DEF IsRecord, WalkerFields
<1>6. /\ DOMAIN counted = {"value", "trueCounts", "critical", "breaks", "unsatisfied", "position"}
      /\ DOMAIN removed = {"value", "trueCounts", "critical", "breaks", "unsatisfied", "position"}
  BY <1>1, <1>4 DEF IsRecord, WalkerFields
<1>7. removed.unsatisfied = SubSeq([w.unsatisfied EXCEPT ![slot] = moved], 1,
                                   Len([w.unsatisfied EXCEPT ![slot] = moved]) - 1)
  BY <1>4 DEF Front
<1>8. /\ counted.value = w.value /\ counted.trueCounts = [w.trueCounts EXCEPT ![c] = w.trueCounts[c] + 1]
      /\ counted.position = w.position /\ counted.unsatisfied = w.unsatisfied
      /\ counted.breaks = w.breaks /\ counted.critical = w.critical
  BY <1>1
<1>9. /\ removed.value = w.value /\ removed.trueCounts = counted.trueCounts
      /\ removed.position = [[w.position EXCEPT ![moved] = slot] EXCEPT ![c] = Nowhere]
      /\ removed.breaks = w.breaks /\ removed.critical = w.critical
  BY <1>4
<1> DEFINE x == Gains(w, c, v)
           had == w.trueCounts[c]
<1>10. CASE had = 0
  <2>1. x = [removed EXCEPT !.critical[c] = v, !.breaks[v] = @ + 1]
    BY <1>2, <1>10
  <2> HIDE DEF x
  <2>2. /\ x.value = removed.value /\ x.trueCounts = removed.trueCounts
        /\ x.position = removed.position /\ x.unsatisfied = removed.unsatisfied
        /\ x.breaks = [removed.breaks EXCEPT ![v] = @ + 1] /\ x.critical = [removed.critical EXCEPT ![c] = v]
    BY <1>6, <2>1
  <2> QED
    BY <1>5, <1>7, <1>8, <1>9, <1>10, <2>2 DEF x, GainsTo
<1>11. CASE had = 1
  <2>1. x = [counted EXCEPT !.breaks[w.critical[c]] = @ - 1]
    BY <1>2, <1>11
  <2> HIDE DEF x
  <2>2. /\ x.value = counted.value /\ x.trueCounts = counted.trueCounts
        /\ x.position = counted.position /\ x.unsatisfied = counted.unsatisfied
        /\ x.breaks = [counted.breaks EXCEPT ![w.critical[c]] = @ - 1] /\ x.critical = counted.critical
    BY <1>6, <2>1
  <2> QED
    BY <1>5, <1>8, <1>11, <2>2 DEF x, GainsTo
<1>12. CASE had \notin {0, 1}
  <2>1. x = counted
    BY <1>2, <1>12
  <2> QED
    BY <1>5, <1>8, <1>12, <2>1 DEF GainsTo
<1> QED
  BY <1>10, <1>11, <1>12

\* The counts of w are those of an assignment under which the literals of clause
\* c at the places S[c] are true, as far as the sweep has come.
Hanging(S, u) == {c \in Numbers : \E i \in S[c] : S[c] = {i} /\ VariableAt(walked[c], i) = u}
Places == [Numbers -> SUBSET Nat]
KeptAt(w, S, c) ==
    /\ S[c] \subseteq 1..Len(walked[c])
    /\ w.trueCounts[c] = Cardinality(S[c])
    /\ \A i \in S[c] : S[c] = {i} => w.critical[c] = VariableAt(walked[c], i)
    /\ S[c] = {} => w.position[c] \in 1..Len(w.unsatisfied) /\ w.unsatisfied[w.position[c]] = c
    /\ S[c] # {} => w.position[c] = Nowhere
Listed(w, S) == \A i \in 1..Len(w.unsatisfied) : S[w.unsatisfied[i]] = {} /\ w.position[w.unsatisfied[i]] = i
Weighed(w, S) == \A u \in WalkVariables : w.breaks[u] = Cardinality(Hanging(S, u))
Kept(w, S) == w \in Walkers /\ (\A c \in Numbers : KeptAt(w, S, c)) /\ Listed(w, S) /\ Weighed(w, S)

\* Only a clause whose true places change changes what hangs on a variable.
SameBut(S, T, c) == \A d \in Numbers \ {c} : T[d] = S[d]
LEMMA HangingCounts ==
    ASSUME Len(walked) \in Nat, NEW S, NEW T, NEW c \in Numbers, SameBut(S, T, c), NEW u
    PROVE  /\ Cardinality(Hanging(S, u)) \in Nat /\ Cardinality(Hanging(T, u)) \in Nat
           /\ (c \in Hanging(S, u) <=> c \in Hanging(T, u)) => Cardinality(Hanging(T, u)) = Cardinality(Hanging(S, u))
           /\ c \notin Hanging(S, u) /\ c \in Hanging(T, u) => Cardinality(Hanging(T, u)) = Cardinality(Hanging(S, u)) + 1
           /\ c \in Hanging(S, u) /\ c \notin Hanging(T, u) => Cardinality(Hanging(T, u)) = Cardinality(Hanging(S, u)) - 1
<1> DEFINE old == Hanging(S, u)
           new == Hanging(T, u)
<1>1. old \subseteq Numbers /\ new \subseteq Numbers /\ new \ {c} = old \ {c}
  BY DEF Hanging, SameBut
<1>2. IsFiniteSet(Numbers)
  BY FS_Interval DEF Numbers
<1> HIDE DEF old, new
<1>3. IsFiniteSet(old) /\ IsFiniteSet(new)
  BY <1>1, <1>2, FS_Subset
<1>4. Cardinality(old) \in Nat /\ Cardinality(new) \in Nat
  BY <1>3, FS_CardinalityType
<1>5. (c \in old <=> c \in new) => new = old
  <2>1. \A d : d # c => (d \in old <=> d \in new)
    BY <1>1
  <2>2. SUFFICES ASSUME c \in old <=> c \in new PROVE new = old
    OBVIOUS
  <2>3. ASSUME NEW d PROVE d \in new <=> d \in old
    <3>1. CASE d = c
      BY <2>2, <3>1
    <3>2. CASE d # c
      BY <2>1, <3>2
    <3> QED
      BY <3>1, <3>2
  <2> QED
    BY <2>3
<1>6. c \notin old /\ c \in new => Cardinality(new) = Cardinality(old) + 1
  <2>1. SUFFICES ASSUME c \notin old, c \in new PROVE Cardinality(new) = Cardinality(old) + 1
    OBVIOUS
  <2>2. new = old \cup {c}
    BY <1>1, <2>1
  <2> QED
    BY <1>3, <2>1, <2>2, FS_AddElement
<1>7. c \in old /\ c \notin new => Cardinality(new) = Cardinality(old) - 1
  <2>1. SUFFICES ASSUME c \in old, c \notin new PROVE Cardinality(new) = Cardinality(old) - 1
    OBVIOUS
  <2>2. new = old \ {c}
    BY <1>1, <2>1
  <2> QED
    BY <1>3, <2>1, <2>2, FS_RemoveElement
<1> QED
  BY <1>4, <1>5, <1>6, <1>7 DEF old, new

\* How many places a clause has tells which of the cases it is in.
LEMMA PlacesCount ==
    ASSUME NEW n \in Nat, NEW X \in SUBSET (1..n)
    PROVE  /\ Cardinality(X) \in Nat
           /\ Cardinality(X) = 0 <=> X = {}
           /\ Cardinality(X) = 1 <=> \E i : X = {i}
           /\ \A i \in X : Cardinality(X \ {i}) = Cardinality(X) - 1
           /\ \A i : i \notin X => Cardinality(X \cup {i}) = Cardinality(X) + 1
<1>1. IsFiniteSet(X)
  <2>1. IsFiniteSet(1..n)
    BY FS_Interval
  <2> QED
    BY <2>1, FS_Subset
<1>2. Cardinality(X) \in Nat
  BY <1>1, FS_CardinalityType
<1>3. Cardinality(X) = 0 <=> X = {}
  BY <1>1, FS_EmptySet
<1>4. Cardinality(X) = 1 <=> \E i : X = {i}
  BY <1>1, FS_Singleton
<1>5. \A i \in X : Cardinality(X \ {i}) = Cardinality(X) - 1
  BY <1>1, FS_RemoveElement
<1>6. \A i : i \notin X => Cardinality(X \cup {i}) = Cardinality(X) + 1
  BY <1>1, FS_AddElement
<1> QED
  BY <1>2, <1>3, <1>4, <1>5, <1>6

LEMMA OnePlace == \A i \in Nat : Max({i}) = i /\ Min({i}) = i
BY DEF Max, Min

\* A clause that loses one of its true places.
LEMMA KeptLoses ==
    ASSUME walked \in WalkFormulas, NEW S \in Places, NEW w, Kept(w, S), NEW c \in Numbers, NEW i \in S[c],
           Trues(w.value, walked[c]) = S[c] \ {i}
    PROVE  LET x == Loses(w, c, VariableAt(walked[c], i))
           IN Kept(x, [S EXCEPT ![c] = @ \ {i}]) /\ x.value = w.value
<1> DEFINE clause == walked[c]
           v == VariableAt(clause, i)
           x == Loses(w, c, v)
           T == [S EXCEPT ![c] = @ \ {i}]
           left == w.trueCounts[c] - 1
           survivor == VariableAt(clause, Min(Trues(w.value, clause)))
<1>1. /\ Len(walked) \in Nat /\ Len(walked) < Nowhere /\ Nowhere \in Nat
      /\ Len(clause) \in Nat /\ \A k \in 1..Len(clause) : VariableAt(clause, k) \in WalkVariables
  BY WalkedIs, WalkAssumption
<1>2. /\ w \in Walkers /\ S[c] \subseteq 1..Len(clause) /\ w.trueCounts[c] = Cardinality(S[c])
      /\ i \in 1..Len(clause) /\ v \in WalkVariables
  BY <1>1 DEF Kept, KeptAt
<1>3. /\ T \in Places /\ T[c] = S[c] \ {i} /\ (\A d \in Numbers \ {c} : T[d] = S[d])
      /\ T[c] \subseteq 1..Len(clause) /\ Trues(w.value, clause) = T[c]
  BY <1>2 DEF Places
<1>4. /\ left \in Nat /\ left = Cardinality(T[c])
      /\ left = 0 <=> T[c] = {}
      /\ left = 1 <=> \E j : T[c] = {j}
  <2>1. S[c] \in SUBSET (1..Len(clause)) /\ T[c] \in SUBSET (1..Len(clause)) /\ Len(clause) \in Nat
    BY <1>1, <1>2, <1>3
  <2> HIDE DEF clause, T
  <2>2. \A j \in S[c] : Cardinality(S[c] \ {j}) = Cardinality(S[c]) - 1
    BY <2>1, PlacesCount
  <2>3. /\ Cardinality(T[c]) \in Nat
        /\ Cardinality(T[c]) = 0 <=> T[c] = {}
        /\ Cardinality(T[c]) = 1 <=> \E j : T[c] = {j}
    BY <2>1, PlacesCount
  <2>4. left = Cardinality(T[c])
    BY <1>2, <1>3, <2>2
  <2> QED
    BY <2>3, <2>4
<1>5. /\ IsRecord(x) /\ x.value = w.value
      /\ x.trueCounts = [w.trueCounts EXCEPT ![c] = left]
      /\ left = 0 => /\ x.position = [w.position EXCEPT ![c] = Len(w.unsatisfied) + 1]
                     /\ x.unsatisfied = Append(w.unsatisfied, c)
                     /\ x.breaks = [w.breaks EXCEPT ![v] = @ - 1]
                     /\ x.critical = w.critical
      /\ left # 0 => x.position = w.position /\ x.unsatisfied = w.unsatisfied
      /\ left = 1 => /\ x.critical = [w.critical EXCEPT ![c] = survivor]
                     /\ x.breaks = [w.breaks EXCEPT ![survivor] = @ + 1]
      /\ left \notin {0, 1} => x.critical = w.critical /\ x.breaks = w.breaks
  <2>1. LosesTo(w, x, c, v, left, survivor)
    BY <1>2, LosesFields
  <2> HIDE DEF v, x, left, survivor
  <2> QED
    BY <2>1 DEF LosesTo
<1>6. /\ w.value \in Phases /\ w.trueCounts \in [Numbers -> Nat] /\ w.critical \in [Numbers -> Nat]
      /\ w.breaks \in [WalkVariables -> Int] /\ w.unsatisfied \in Seq(Numbers) /\ w.position \in [Numbers -> Nat]
  BY <1>2 DEF Walkers
<1>7. left = 1 => survivor \in WalkVariables /\ \E j : T[c] = {j} /\ j \in 1..Len(clause) /\ survivor = VariableAt(clause, j)
  <2>1. SUFFICES ASSUME left = 1
                 PROVE  survivor \in WalkVariables
                        /\ \E j : T[c] = {j} /\ j \in 1..Len(clause) /\ survivor = VariableAt(clause, j)
    OBVIOUS
  <2>2. PICK j : T[c] = {j}
    BY <1>4, <2>1
  <2>3. j \in 1..Len(clause) /\ j \in Nat
    BY <1>1, <1>3, <2>2
  <2>4. Min(T[c]) = j
    BY <2>2, <2>3, OnePlace
  <2> QED
    BY <1>1, <1>3, <2>2, <2>3, <2>4
<1> HIDE DEF v, x, T, left, survivor, clause
\* the counts
<1>8. x.trueCounts \in [Numbers -> Nat] /\ x.trueCounts[c] = left
      /\ \A d \in Numbers \ {c} : x.trueCounts[d] = w.trueCounts[d]
  BY <1>4, <1>5, <1>6
<1>9. x.critical \in [Numbers -> Nat] /\ (\A d \in Numbers \ {c} : x.critical[d] = w.critical[d])
      /\ (left = 1 => x.critical[c] = survivor)
  <2>1. CASE left = 1
    <3>1. x.critical = [w.critical EXCEPT ![c] = survivor] /\ survivor \in Nat
      BY <1>5, <1>7, <2>1, WalkAssumption
    <3> QED
      BY <1>6, <3>1
  <2>2. CASE left # 1
    <3>1. x.critical = w.critical
      BY <1>5, <2>2
    <3> QED
      BY <1>6, <2>2, <3>1
  <2> QED
    BY <2>1, <2>2
\* the list
<1>10. /\ x.unsatisfied \in Seq(Numbers) /\ x.position \in [Numbers -> Nat]
       /\ \A d \in Numbers \ {c} : x.position[d] = w.position[d]
       /\ Len(w.unsatisfied) \in Nat
       /\ \A k \in 1..Len(w.unsatisfied) : w.unsatisfied[k] \in Numbers /\ x.unsatisfied[k] = w.unsatisfied[k]
       /\ left # 0 => Len(x.unsatisfied) = Len(w.unsatisfied) /\ x.position[c] = w.position[c]
       /\ left = 0 => /\ Len(x.unsatisfied) = Len(w.unsatisfied) + 1
                      /\ x.position[c] = Len(w.unsatisfied) + 1
                      /\ x.unsatisfied[Len(w.unsatisfied) + 1] = c
  <2>1. Len(w.unsatisfied) \in Nat /\ \A k \in 1..Len(w.unsatisfied) : w.unsatisfied[k] \in Numbers
    BY <1>6
  <2>2. CASE left = 0
    <3>1. /\ x.position = [w.position EXCEPT ![c] = Len(w.unsatisfied) + 1]
          /\ x.unsatisfied = Append(w.unsatisfied, c)
      BY <1>5, <2>2
    <3>2. /\ x.position \in [Numbers -> Nat] /\ x.position[c] = Len(w.unsatisfied) + 1
          /\ \A d \in Numbers \ {c} : x.position[d] = w.position[d]
      BY <1>6, <2>1, <3>1
    <3>3. /\ x.unsatisfied \in Seq(Numbers) /\ Len(x.unsatisfied) = Len(w.unsatisfied) + 1
          /\ x.unsatisfied[Len(w.unsatisfied) + 1] = c
          /\ \A k \in 1..Len(w.unsatisfied) : x.unsatisfied[k] = w.unsatisfied[k]
      BY <1>6, <2>1, <3>1
    <3> QED
      BY <2>1, <2>2, <3>2, <3>3
  <2>3. CASE left # 0
    <3>1. x.position = w.position /\ x.unsatisfied = w.unsatisfied
      BY <1>5, <2>3
    <3> QED
      BY <1>6, <2>1, <2>3, <3>1
  <2> QED
    BY <2>2, <2>3
\* c was not on the list
<1>11. /\ w.position[c] = Nowhere
       /\ \A k \in 1..Len(w.unsatisfied) : w.unsatisfied[k] # c
  <2>1. S[c] # {}
    OBVIOUS
  <2> QED
    BY <1>10, <2>1 DEF Kept, KeptAt, Listed
<1>12. Listed(x, T)
  <2>1. SUFFICES ASSUME NEW k \in 1..Len(x.unsatisfied)
                 PROVE  T[x.unsatisfied[k]] = {} /\ x.position[x.unsatisfied[k]] = k
    BY DEF Listed
  <2>2. CASE k \in 1..Len(w.unsatisfied)
    <3>1. x.unsatisfied[k] = w.unsatisfied[k] /\ w.unsatisfied[k] \in Numbers \ {c}
      BY <1>10, <1>11, <2>2
    <3>2. S[w.unsatisfied[k]] = {} /\ w.position[w.unsatisfied[k]] = k
      BY <2>2 DEF Kept, Listed
    <3> QED
      BY <1>3, <1>10, <3>1, <3>2
  <2>3. CASE k \notin 1..Len(w.unsatisfied)
    <3>1. left = 0 /\ k = Len(w.unsatisfied) + 1
      BY <1>4, <1>10, <2>3
    <3> QED
      BY <1>4, <1>10, <3>1
  <2> QED
    BY <2>2, <2>3
<1>13. ASSUME NEW d \in Numbers PROVE KeptAt(x, T, d)
  <2>1. CASE d = c
    <3>1. \A j \in T[c] : T[c] = {j} => x.critical[c] = VariableAt(clause, j)
      BY <1>4, <1>7, <1>9
    <3>2. T[c] = {} => x.position[c] \in 1..Len(x.unsatisfied) /\ x.unsatisfied[x.position[c]] = c
      BY <1>4, <1>10
    <3>3. T[c] # {} => x.position[c] = Nowhere
      BY <1>4, <1>10, <1>11
    <3> QED
      BY <1>3, <1>4, <1>8, <2>1, <3>1, <3>2, <3>3 DEF KeptAt, clause
  <2>2. CASE d # c
    <3>1. KeptAt(w, S, d) /\ d \in Numbers \ {c} /\ T[d] = S[d]
      BY <1>3, <2>2 DEF Kept
    <3>2. ASSUME S[d] = {} PROVE x.position[d] \in 1..Len(x.unsatisfied) /\ x.unsatisfied[x.position[d]] = d
      <4>1. w.position[d] \in 1..Len(w.unsatisfied) /\ w.unsatisfied[w.position[d]] = d /\ x.position[d] = w.position[d]
        BY <1>10, <3>1, <3>2 DEF KeptAt
      <4> DEFINE p == w.position[d]
      <4>2. p \in 1..Len(w.unsatisfied) /\ w.unsatisfied[p] = d /\ x.position[d] = p
        BY <4>1
      <4> HIDE DEF p
      <4>3. x.unsatisfied[p] = d
        BY <1>10, <4>2
      <4>4. p \in 1..Len(x.unsatisfied)
        BY <1>4, <1>10, <4>2
      <4> QED
        BY <4>2, <4>3, <4>4
    <3> QED
      BY <1>8, <1>9, <1>10, <3>1, <3>2 DEF KeptAt
  <2> QED
    BY <2>1, <2>2
\* what breaks
<1>14. /\ \A u : c \in Hanging(S, u) <=> \E j \in S[c] : S[c] = {j} /\ VariableAt(clause, j) = u
       /\ \A u : c \in Hanging(T, u) <=> \E j \in T[c] : T[c] = {j} /\ VariableAt(clause, j) = u
  BY DEF Hanging, clause
<1>15. x.breaks \in [WalkVariables -> Int] /\ Weighed(x, T)
  <2>1. ASSUME NEW u \in WalkVariables
        PROVE  /\ w.breaks[u] = Cardinality(Hanging(S, u)) /\ Cardinality(Hanging(S, u)) \in Nat
               /\ (c \in Hanging(S, u) <=> c \in Hanging(T, u)) => Cardinality(Hanging(T, u)) = Cardinality(Hanging(S, u))
               /\ c \notin Hanging(S, u) /\ c \in Hanging(T, u) => Cardinality(Hanging(T, u)) = Cardinality(Hanging(S, u)) + 1
               /\ c \in Hanging(S, u) /\ c \notin Hanging(T, u) => Cardinality(Hanging(T, u)) = Cardinality(Hanging(S, u)) - 1
    <3>1. w.breaks[u] = Cardinality(Hanging(S, u))
      BY DEF Kept, Weighed
    <3>2. Len(walked) \in Nat /\ SameBut(S, T, c)
      BY <1>1, <1>3 DEF SameBut
    <3> QED
      BY <3>1, <3>2, HangingCounts
  <2>2. CASE left = 0
    <3>1. S[c] = {i}
      BY <1>3, <1>4, <2>2
    <3>2. \A u : (c \in Hanging(S, u) <=> u = v) /\ c \notin Hanging(T, u)
      BY <1>4, <1>14, <2>2, <3>1 DEF v, clause
    <3>3. x.breaks \in [WalkVariables -> Int]
          /\ \A u \in WalkVariables : x.breaks[u] = IF u = v THEN w.breaks[u] - 1 ELSE w.breaks[u]
      <4>1. x.breaks = [w.breaks EXCEPT ![v] = @ - 1] /\ v \in WalkVariables
        BY <1>2, <1>5, <2>2
      <4>2. w.breaks \in [WalkVariables -> Int] /\ w.breaks[v] - 1 \in Int
        BY <1>6, <4>1
      <4> QED
        BY <4>1, <4>2
    <3> QED
      BY <2>1, <3>2, <3>3 DEF Weighed
  <2>3. CASE left = 1
    <3>1. \A u : c \in Hanging(T, u) <=> u = survivor
      BY <1>7, <1>14, <2>3
    <3>2. \A u : c \notin Hanging(S, u)
      BY <1>3, <1>4, <1>14, <2>3
    <3>3. x.breaks \in [WalkVariables -> Int]
          /\ \A u \in WalkVariables : x.breaks[u] = IF u = survivor THEN w.breaks[u] + 1 ELSE w.breaks[u]
      <4>1. x.breaks = [w.breaks EXCEPT ![survivor] = @ + 1] /\ survivor \in WalkVariables
        BY <1>5, <1>7, <2>3
      <4>2. w.breaks \in [WalkVariables -> Int] /\ w.breaks[survivor] + 1 \in Int
        BY <1>6, <4>1
      <4> QED
        BY <4>1, <4>2
    <3> QED
      BY <2>1, <3>1, <3>2, <3>3 DEF Weighed
  <2>4. CASE left \notin {0, 1}
    <3>1. \A j : T[c] # {j} /\ S[c] # {j}
      <4>1. T[c] # {} /\ T[c] = S[c] \ {i}
        BY <1>3, <1>4, <2>4
      <4> QED
        BY <1>4, <2>4, <4>1
    <3>3. \A u : c \notin Hanging(S, u) /\ c \notin Hanging(T, u)
      BY <1>14, <3>1
    <3>2. x.breaks = w.breaks
      BY <1>5, <2>4
    <3> QED
      BY <1>6, <2>1, <3>3, <3>2 DEF Weighed
  <2> QED
    BY <2>2, <2>3, <2>4
<1>16. x \in Walkers
  BY <1>5, <1>6, <1>8, <1>9, <1>10, <1>15, IsWalker
<1>17. Kept(x, T) /\ x.value = w.value
  BY <1>5, <1>12, <1>13, <1>15, <1>16 DEF Kept
<1> QED
  BY <1>17 DEF x, T, v, clause

\* A clause that gains a true place.
LEMMA KeptGains ==
    ASSUME walked \in WalkFormulas, NEW S \in Places, NEW w, Kept(w, S), NEW c \in Numbers,
           NEW i \in 1..Len(walked[c]), i \notin S[c]
    PROVE  LET x == Gains(w, c, VariableAt(walked[c], i))
           IN Kept(x, [S EXCEPT ![c] = @ \cup {i}]) /\ x.value = w.value
<1> DEFINE clause == walked[c]
           v == VariableAt(clause, i)
           x == Gains(w, c, v)
           T == [S EXCEPT ![c] = @ \cup {i}]
           had == w.trueCounts[c]
           slot == w.position[c]
           n == Len(w.unsatisfied)
           moved == w.unsatisfied[n]
<1>1. /\ Len(walked) \in Nat /\ Len(walked) < Nowhere /\ Nowhere \in Nat
      /\ Len(clause) \in Nat /\ \A k \in 1..Len(clause) : VariableAt(clause, k) \in WalkVariables
  BY WalkedIs, WalkAssumption
<1>2. /\ w \in Walkers /\ S[c] \subseteq 1..Len(clause) /\ w.trueCounts[c] = Cardinality(S[c])
      /\ i \in 1..Len(clause) /\ v \in WalkVariables /\ v \in Nat
  BY <1>1, WalkAssumption DEF Kept, KeptAt
<1>3. /\ T \in Places /\ T[c] = S[c] \cup {i} /\ (\A d \in Numbers \ {c} : T[d] = S[d])
      /\ T[c] \subseteq 1..Len(clause)
  BY <1>1, <1>2 DEF Places
<1>4. /\ had \in Nat /\ had + 1 = Cardinality(T[c])
      /\ had = 0 <=> S[c] = {}
      /\ had = 1 <=> \E j : S[c] = {j}
  <2>1. S[c] \in SUBSET (1..Len(clause)) /\ Len(clause) \in Nat
    BY <1>1, <1>2
  <2> HIDE DEF clause, T
  <2>2. /\ \A j : j \notin S[c] => Cardinality(S[c] \cup {j}) = Cardinality(S[c]) + 1
        /\ Cardinality(S[c]) \in Nat
        /\ Cardinality(S[c]) = 0 <=> S[c] = {}
        /\ Cardinality(S[c]) = 1 <=> \E j : S[c] = {j}
    BY <2>1, PlacesCount
  <2> QED
    BY <1>2, <1>3, <2>2
<1>5. GainsTo(w, x, c, v, had, slot, moved)
  BY <1>2, GainsFields
<1>6. /\ w.value \in Phases /\ w.trueCounts \in [Numbers -> Nat] /\ w.critical \in [Numbers -> Nat]
      /\ w.breaks \in [WalkVariables -> Int] /\ w.unsatisfied \in Seq(Numbers) /\ w.position \in [Numbers -> Nat]
      /\ n \in Nat /\ \A k \in 1..n : w.unsatisfied[k] \in Numbers
  BY <1>2 DEF Walkers
<1>7. \A j : S[c] = {j} => j \in 1..Len(clause) /\ w.critical[c] = VariableAt(clause, j)
  BY <1>2 DEF Kept, KeptAt
<1> HIDE DEF v, x, T, had, slot, moved, clause
\* the counts
<1>8. x.trueCounts \in [Numbers -> Nat] /\ x.trueCounts[c] = had + 1
      /\ \A d \in Numbers \ {c} : x.trueCounts[d] = w.trueCounts[d]
  <2>1. x.trueCounts = [w.trueCounts EXCEPT ![c] = had + 1]
    BY <1>5 DEF GainsTo
  <2> QED
    BY <1>4, <1>6, <2>1
<1>9. x.critical \in [Numbers -> Nat] /\ (\A d \in Numbers \ {c} : x.critical[d] = w.critical[d])
      /\ (had = 0 => x.critical[c] = v)
  <2>1. CASE had = 0
    <3>1. x.critical = [w.critical EXCEPT ![c] = v]
      BY <1>5, <2>1 DEF GainsTo
    <3> QED
      BY <1>2, <1>6, <3>1
  <2>2. CASE had # 0
    <3>1. x.critical = w.critical
      BY <1>5, <2>2 DEF GainsTo
    <3> QED
      BY <1>6, <2>2, <3>1
  <2> QED
    BY <2>1, <2>2
\* the list of the clauses unsatisfied
<1>10. /\ \A k \in 1..n : S[w.unsatisfied[k]] = {} /\ w.position[w.unsatisfied[k]] = k
       /\ \A d \in Numbers : S[d] = {} => w.position[d] \in 1..n /\ w.unsatisfied[w.position[d]] = d
       /\ \A d \in Numbers : S[d] # {} => w.position[d] = Nowhere
  BY DEF Kept, KeptAt, Listed
<1>11. had = 0 => /\ slot \in 1..n /\ w.unsatisfied[slot] = c /\ n \in 1..n
                  /\ moved \in Numbers /\ w.position[moved] = n /\ S[moved] = {}
                  /\ x.unsatisfied \in Seq(Numbers) /\ Len(x.unsatisfied) = n - 1
                  /\ \A k \in 1..(n - 1) : x.unsatisfied[k] = IF k = slot THEN moved ELSE w.unsatisfied[k]
                  /\ x.position \in [Numbers -> Nat]
                  /\ \A d \in Numbers : x.position[d] = IF d = c THEN Nowhere ELSE IF d = moved THEN slot ELSE w.position[d]
  <2>1. SUFFICES ASSUME had = 0
                 PROVE  /\ slot \in 1..n /\ w.unsatisfied[slot] = c /\ n \in 1..n
                        /\ moved \in Numbers /\ w.position[moved] = n /\ S[moved] = {}
                        /\ x.unsatisfied \in Seq(Numbers) /\ Len(x.unsatisfied) = n - 1
                        /\ \A k \in 1..(n - 1) : x.unsatisfied[k] = IF k = slot THEN moved ELSE w.unsatisfied[k]
                        /\ x.position \in [Numbers -> Nat]
                        /\ \A d \in Numbers : x.position[d] = IF d = c THEN Nowhere
                                                              ELSE IF d = moved THEN slot ELSE w.position[d]
    BY Zenon
  <2>2. slot \in 1..n /\ w.unsatisfied[slot] = c
    BY <1>4, <1>10, <2>1 DEF slot
  <2>3. n \in 1..n
    BY <1>6, <2>2
  <2>4. moved \in Numbers /\ w.position[moved] = n /\ S[moved] = {}
    BY <1>6, <1>10, <2>3 DEF moved
  <2> DEFINE filled == [w.unsatisfied EXCEPT ![slot] = moved]
  <2>5. /\ filled \in Seq(Numbers) /\ Len(filled) = n
        /\ \A k \in 1..n : filled[k] = IF k = slot THEN moved ELSE w.unsatisfied[k]
    <3> DEFINE q == w.unsatisfied
    <3>1. q \in Seq(Numbers) /\ n = Len(q) /\ n \in Nat
      BY <1>6 DEF n
    <3> HIDE DEF q, n
    <3>2. slot \in 1..n /\ moved \in Numbers
      BY <2>2, <2>4
    <3>3. [q EXCEPT ![slot] = moved] \in Seq(Numbers) /\ Len([q EXCEPT ![slot] = moved]) = n
      BY <3>1, <3>2
    <3>4. \A k \in 1..n : [q EXCEPT ![slot] = moved][k] = IF k = slot THEN moved ELSE q[k]
      BY <3>1, <3>2
    <3> QED
      BY <3>3, <3>4 DEF q
  <2>6. x.unsatisfied = SubSeq(filled, 1, Len(filled) - 1)
    BY <1>5, <2>1 DEF GainsTo
  <2> HIDE DEF filled
  <2>7. /\ x.unsatisfied \in Seq(Numbers) /\ Len(x.unsatisfied) = n - 1
        /\ \A k \in 1..(n - 1) : x.unsatisfied[k] = IF k = slot THEN moved ELSE w.unsatisfied[k]
    <3>1. x.unsatisfied = SubSeq(filled, 1, n - 1) /\ n - 1 \in Nat /\ n - 1 <= n
      BY <1>6, <2>3, <2>5, <2>6
    <3>2. /\ SubSeq(filled, 1, n - 1) \in Seq(Numbers) /\ Len(SubSeq(filled, 1, n - 1)) = n - 1
          /\ \A k \in 1..(n - 1) : SubSeq(filled, 1, n - 1)[k] = filled[k]
      BY <2>5, <3>1
    <3>3. \A k \in 1..(n - 1) : k \in 1..n
      BY <1>6
    <3> QED
      BY <2>5, <3>1, <3>2, <3>3
  <2>8. x.position = [[w.position EXCEPT ![moved] = slot] EXCEPT ![c] = Nowhere]
    BY <1>5, <2>1 DEF GainsTo
  <2>9. /\ x.position \in [Numbers -> Nat]
        /\ \A d \in Numbers : x.position[d] = IF d = c THEN Nowhere ELSE IF d = moved THEN slot ELSE w.position[d]
    <3> DEFINE half == [w.position EXCEPT ![moved] = slot]
    <3>1. slot \in Nat
      BY <1>6, <2>2
    <3>2. half \in [Numbers -> Nat] /\ \A d \in Numbers : half[d] = IF d = moved THEN slot ELSE w.position[d]
      BY <1>6, <2>4, <3>1
    <3>3. x.position = [half EXCEPT ![c] = Nowhere]
      BY <2>8
    <3> HIDE DEF half
    <3>4. x.position \in [Numbers -> Nat] /\ \A d \in Numbers : x.position[d] = IF d = c THEN Nowhere ELSE half[d]
      BY <1>1, <3>2, <3>3
    <3> QED
      BY <3>2, <3>4
  <2> QED
    BY <2>2, <2>3, <2>4, <2>7, <2>9, Zenon
<1>12. had # 0 => x.unsatisfied = w.unsatisfied /\ x.position = w.position
  BY <1>5 DEF GainsTo
<1>13. Listed(x, T)
  <2>1. SUFFICES ASSUME NEW k \in 1..Len(x.unsatisfied)
                 PROVE  T[x.unsatisfied[k]] = {} /\ x.position[x.unsatisfied[k]] = k
    BY DEF Listed
  <2>2. CASE had = 0
    <3>1. k \in 1..(n - 1) /\ k \in 1..n /\ k # n
      <4>1. Len(x.unsatisfied) = n - 1 /\ n \in Nat
        BY <1>6, <1>11, <2>2
      <4> QED
        BY <4>1
    <3>2. CASE k = slot
      <4>1. x.unsatisfied[k] = moved /\ moved # c
        <5>1. x.unsatisfied[k] = moved /\ w.position[moved] = n
          BY <1>11, <2>2, <3>1, <3>2
        <5> QED
          BY <3>1, <3>2, <5>1 DEF slot
      <4> QED
        BY <1>3, <1>11, <2>2, <3>2, <4>1
    <3>3. CASE k # slot
      <4>1. x.unsatisfied[k] = w.unsatisfied[k] /\ w.unsatisfied[k] \in Numbers
        BY <1>6, <1>11, <2>2, <3>1, <3>3
      <4>2. S[w.unsatisfied[k]] = {} /\ w.position[w.unsatisfied[k]] = k
        BY <1>10, <3>1
      <4>3. w.unsatisfied[k] # c
        BY <3>3, <4>2 DEF slot
      <4>4. w.unsatisfied[k] # moved
        BY <1>11, <2>2, <3>1, <4>2
      <4> DEFINE d == w.unsatisfied[k]
      <4>5. x.unsatisfied[k] = d /\ d \in Numbers /\ S[d] = {} /\ w.position[d] = k /\ d # c /\ d # moved
        BY <4>1, <4>2, <4>3, <4>4
      <4> HIDE DEF d
      <4>6. T[d] = {} /\ x.position[d] = k
        BY <1>3, <1>11, <2>2, <4>5
      <4> QED
        BY <4>5, <4>6
    <3> QED
      BY <3>2, <3>3
  <2>3. CASE had # 0
    <3>1. k \in 1..n /\ x.unsatisfied[k] = w.unsatisfied[k] /\ w.unsatisfied[k] \in Numbers
      BY <1>6, <1>12, <2>3
    <3>2. S[w.unsatisfied[k]] = {} /\ w.position[w.unsatisfied[k]] = k
      BY <1>10, <3>1
    <3>3. w.unsatisfied[k] # c
      BY <1>4, <2>3, <3>2
    <3> QED
      BY <1>3, <1>12, <2>3, <3>1, <3>2, <3>3
  <2> QED
    BY <2>2, <2>3
<1>14. ASSUME NEW d \in Numbers PROVE KeptAt(x, T, d)
  <2>1. CASE d = c
    <3>1. \A j \in T[c] : T[c] = {j} => x.critical[c] = VariableAt(clause, j)
      <4>1. SUFFICES ASSUME NEW j, T[c] = {j} PROVE x.critical[c] = VariableAt(clause, j)
        OBVIOUS
      <4>2. j = i /\ S[c] = {}
        BY <1>3, <4>1
      <4> QED
        BY <1>4, <1>9, <4>2 DEF v
    <3>2. T[c] # {}
      BY <1>3
    <3>3. x.position[c] = Nowhere
      <4>1. CASE had = 0
        BY <1>11, <4>1
      <4>2. CASE had # 0
        BY <1>4, <1>10, <1>12, <4>2
      <4> QED
        BY <4>1, <4>2
    <3> QED
      BY <1>3, <1>4, <1>8, <2>1, <3>1, <3>2, <3>3 DEF KeptAt, clause
  <2>2. CASE d # c
    <3>1. KeptAt(w, S, d) /\ d \in Numbers \ {c} /\ T[d] = S[d]
      BY <1>3, <2>2 DEF Kept
    <3>2. S[d] = {} => x.position[d] \in 1..Len(x.unsatisfied) /\ x.unsatisfied[x.position[d]] = d
      <4>1. SUFFICES ASSUME S[d] = {}
                     PROVE  x.position[d] \in 1..Len(x.unsatisfied) /\ x.unsatisfied[x.position[d]] = d
        OBVIOUS
      <4>2. w.position[d] \in 1..n /\ w.unsatisfied[w.position[d]] = d
        BY <1>10, <4>1
      <4>3. CASE had # 0
        BY <1>12, <4>2, <4>3
      <4>4. CASE had = 0 /\ d = moved
        <5>1. x.position[d] = slot /\ slot \in 1..n /\ slot # n
          BY <1>11, <2>2, <4>4 DEF moved
        <5>2. slot \in 1..(n - 1)
          BY <1>6, <5>1
        <5> QED
          BY <1>11, <4>4, <5>1, <5>2
      <4>5. CASE had = 0 /\ d # moved
        <5>1. x.position[d] = w.position[d] /\ w.position[d] # n /\ w.position[d] # slot
          BY <1>11, <2>2, <4>2, <4>5 DEF moved
        <5>2. w.position[d] \in 1..(n - 1)
          BY <1>6, <4>2, <5>1
        <5> QED
          BY <1>11, <4>2, <4>5, <5>1, <5>2
      <4> QED
        BY <4>3, <4>4, <4>5
    <3>3. S[d] # {} => x.position[d] = Nowhere
      BY <1>10, <1>11, <1>12, <2>2
    <3> QED
      BY <1>8, <1>9, <3>1, <3>2, <3>3 DEF KeptAt
  <2> QED
    BY <2>1, <2>2
\* what breaks
<1>15. /\ \A u : c \in Hanging(S, u) <=> \E j \in S[c] : S[c] = {j} /\ VariableAt(clause, j) = u
       /\ \A u : c \in Hanging(T, u) <=> \E j \in T[c] : T[c] = {j} /\ VariableAt(clause, j) = u
  BY DEF Hanging, clause
<1>16. x.breaks \in [WalkVariables -> Int] /\ Weighed(x, T)
  <2>1. ASSUME NEW u \in WalkVariables
        PROVE  /\ w.breaks[u] = Cardinality(Hanging(S, u)) /\ Cardinality(Hanging(S, u)) \in Nat
               /\ (c \in Hanging(S, u) <=> c \in Hanging(T, u)) => Cardinality(Hanging(T, u)) = Cardinality(Hanging(S, u))
               /\ c \notin Hanging(S, u) /\ c \in Hanging(T, u) => Cardinality(Hanging(T, u)) = Cardinality(Hanging(S, u)) + 1
               /\ c \in Hanging(S, u) /\ c \notin Hanging(T, u) => Cardinality(Hanging(T, u)) = Cardinality(Hanging(S, u)) - 1
    <3>1. w.breaks[u] = Cardinality(Hanging(S, u))
      BY DEF Kept, Weighed
    <3>2. Len(walked) \in Nat /\ SameBut(S, T, c)
      BY <1>1, <1>3 DEF SameBut
    <3> QED
      BY <3>1, <3>2, HangingCounts
  <2>2. CASE had = 0
    <3>1. S[c] = {} /\ T[c] = {i}
      BY <1>3, <1>4, <2>2
    <3>2. \A u : (c \in Hanging(T, u) <=> u = v) /\ c \notin Hanging(S, u)
      BY <1>15, <3>1 DEF v
    <3>3. x.breaks \in [WalkVariables -> Int]
          /\ \A u \in WalkVariables : x.breaks[u] = IF u = v THEN w.breaks[u] + 1 ELSE w.breaks[u]
      <4>1. x.breaks = [w.breaks EXCEPT ![v] = @ + 1] /\ v \in WalkVariables
        BY <1>2, <1>5, <2>2 DEF GainsTo
      <4>2. w.breaks \in [WalkVariables -> Int] /\ w.breaks[v] + 1 \in Int
        BY <1>6, <4>1
      <4> QED
        BY <4>1, <4>2
    <3> QED
      BY <2>1, <3>2, <3>3 DEF Weighed
  <2>3. CASE had = 1
    <3>1. PICK j : S[c] = {j}
      BY <1>4, <2>3
    <3> DEFINE hung == w.critical[c]
    <3>2. hung \in WalkVariables /\ hung = VariableAt(clause, j)
      <4>1. Len(walked[c]) \in Nat /\ \A k \in 1..Len(clause) : VariableAt(clause, k) \in WalkVariables
        BY <1>1 DEF clause
      <4> QED
        BY <1>7, <3>1, <4>1
    <3>3. \A u : (c \in Hanging(S, u) <=> u = hung) /\ c \notin Hanging(T, u)
      <4>1. \A k : T[c] # {k}
        BY <1>3, <3>1
      <4> QED
        BY <1>15, <3>1, <3>2, <4>1
    <3>4. x.breaks \in [WalkVariables -> Int]
          /\ \A u \in WalkVariables : x.breaks[u] = IF u = hung THEN w.breaks[u] - 1 ELSE w.breaks[u]
      <4>1. x.breaks = [w.breaks EXCEPT ![hung] = @ - 1]
        BY <1>5, <2>3 DEF GainsTo
      <4> HIDE DEF hung
      <4>2. w.breaks \in [WalkVariables -> Int] /\ w.breaks[hung] - 1 \in Int
        BY <1>6, <3>2
      <4> QED
        BY <3>2, <4>1, <4>2
    <3> HIDE DEF hung
    <3> QED
      BY <2>1, <3>3, <3>4 DEF Weighed
  <2>4. CASE had \notin {0, 1}
    <3>1. \A j : T[c] # {j} /\ S[c] # {j}
      <4>1. S[c] # {} /\ T[c] = S[c] \cup {i}
        BY <1>3, <1>4, <2>4
      <4> QED
        BY <1>4, <2>4, <4>1
    <3>2. \A u : c \notin Hanging(S, u) /\ c \notin Hanging(T, u)
      BY <1>15, <3>1
    <3>3. x.breaks = w.breaks
      BY <1>5, <2>4 DEF GainsTo
    <3> QED
      BY <1>6, <2>1, <3>2, <3>3 DEF Weighed
  <2> QED
    BY <2>2, <2>3, <2>4
<1>17. x \in Walkers
  <2>1. x.unsatisfied \in Seq(Numbers) /\ x.position \in [Numbers -> Nat]
    BY <1>6, <1>11, <1>12
  <2>2. IsRecord(x) /\ x.value = w.value
    BY <1>5 DEF GainsTo
  <2> QED
    BY <1>6, <1>8, <1>9, <1>16, <2>1, <2>2, IsWalker
<1>18. Kept(x, T) /\ x.value = w.value
  BY <1>5, <1>13, <1>14, <1>16, <1>17 DEF Kept, GainsTo
<1> QED
  BY <1>18 DEF x, T, v, clause

-----------------------------------------------------------------------------
(* The sweeps                                                              *)

\* A sweep whose turn k takes what is good before it to what is good after it
\* ends with what is good.
LEMMA SweptGood ==
    ASSUME Len(walked) \in Nat, NEW S, NEW Good \in [0..Len(walked) -> SUBSET S], NEW w \in Good[0],
           NEW l, NEW v, NEW gains,
           \A k \in 1..Len(walked) : \A x \in Good[k - 1] :
              (IF OccursIn(l, k) THEN Turned(x, k, v, gains) ELSE x) \in Good[k]
    PROVE  Swept(w, l, v, gains) \in Good[Len(walked)]
<1> DEFINE N == Len(walked)
           Round(x, k) == IF OccursIn(l, k) THEN Turned(x, k, v, gains) ELSE x
           round == [p \in S \X (1..N) |-> Round(p[1], p[2])]
           IsSweep(f) == f = [c \in 0..N |-> IF c = 0 THEN w
                                            ELSE IF OccursIn(l, c) THEN Turned(f[c - 1], c, v, gains) ELSE f[c - 1]]
<1>1. ASSUME NEW k \in 1..N, NEW x \in Good[k - 1]
      PROVE  x \in S /\ round[<<x, k>>] = Round(x, k) /\ round[<<x, k>>] \in Good[k]
  <2>1. k - 1 \in 0..N /\ Good[k - 1] \subseteq S
    <3>1. k - 1 \in 0..N
      OBVIOUS
    <3> QED
      BY <3>1
  <2> QED
    BY <2>1
<1> HIDE DEF round, Round
<1> HIDE DEF N
<1>a. N \in Nat /\ Good \in [0..N -> SUBSET S] /\ w \in Good[0]
  BY DEF N
<1>b. StaysGood(Good, N, round)
  BY <1>1 DEF StaysGood
<1>c. \E f : Runs(f, N, S, w, round) /\ \A k \in 0..N : f[k] \in Good[k]
  BY ONLY <1>a, <1>b, GoodLoop
<1>2. PICK f \in [0..N -> S] :
            /\ f[0] = w
            /\ \A k \in 0..N : f[k] \in Good[k]
            /\ \A k \in 1..N : f[k] = round[<<f[k - 1], k>>]
  BY <1>c DEF Runs
<1>3. \A k \in 1..N : f[k] = Round(f[k - 1], k)
  <2>1. ASSUME NEW k \in 1..N PROVE f[k] = Round(f[k - 1], k)
    <3>1. k - 1 \in 0..N
      BY <1>a
    <3> QED
      BY <1>1, <1>2, <3>1
  <2> QED
    BY <2>1
<1>4. IsSweep(f)
  <2>1. f = [c \in 0..N |-> IF c = 0 THEN w ELSE Round(f[c - 1], c)]
    BY <1>2, <1>3
  <2> QED
    BY <2>1 DEF Round
<1> DEFINE g == CHOOSE h : IsSweep(h)
<1>5. IsSweep(g)
  BY <1>4
<1>6. Swept(w, l, v, gains) = g[N]
  BY DEF Swept, N
<1> HIDE DEF g
<1>7. g[0] = w /\ \A k \in 1..N : g[k] = Round(g[k - 1], k)
  BY <1>5, <1>a DEF Round
<1>8. Alike(f, g, N)
  BY <1>2, <1>3, <1>7 DEF Alike
<1>9. g[N] = f[N]
  BY <1>8, <1>a, SameIteration
<1> QED
  BY <1>2, <1>6, <1>9, <1>a DEF N

\* The flip of v turns the place a clause names v at, and no other.
TurnedValue(old, v) == [old EXCEPT ![v] = -old[v]]
LEMMA PlaceTurns ==
    ASSUME walked \in WalkFormulas, NEW c \in Numbers, NEW i \in 1..Len(walked[c]), NEW v \in WalkVariables,
           NEW old \in Phases
    PROVE  /\ TurnedValue(old, v) \in Phases
           /\ VariableAt(walked[c], i) = v =>
                \/ walked[c][i] = old[v] * v /\ TrueIn(old, walked[c][i]) /\ ~TrueIn(TurnedValue(old, v), walked[c][i])
                \/ walked[c][i] = -(old[v] * v) /\ ~TrueIn(old, walked[c][i]) /\ TrueIn(TurnedValue(old, v), walked[c][i])
           /\ VariableAt(walked[c], i) # v =>
                /\ walked[c][i] # old[v] * v /\ walked[c][i] # -(old[v] * v)
                /\ TrueIn(old, walked[c][i]) <=> TrueIn(TurnedValue(old, v), walked[c][i])
<1> DEFINE lit == walked[c][i]
           new == TurnedValue(old, v)
           l == old[v] * v
           u == VariableAt(walked[c], i)
<1>1. lit \in Int /\ u \in WalkVariables /\ u = (IF lit < 0 THEN -lit ELSE lit)
  BY WalkedIs DEF VariableAt
<1>2. v \in Nat /\ v > 0 /\ u \in Nat /\ u > 0
  BY <1>1, WalkAssumption
<1>3. /\ new \in [WalkVariables -> {1, -1}] /\ old \in [WalkVariables -> {1, -1}]
      /\ new[v] = -old[v] /\ \A x \in WalkVariables \ {v} : new[x] = old[x]
  BY DEF Phases, TurnedValue
<1>4. (old[v] = 1 /\ l = v) \/ (old[v] = -1 /\ l = -v)
  <2>1. CASE old[v] = 1
    BY <1>2, <2>1
  <2>2. CASE old[v] = -1
    BY <1>2, <2>2
  <2> QED
    BY <1>3, <2>1, <2>2
<1>5. old[u] \in {1, -1} /\ new[u] \in {1, -1}
  BY <1>1, <1>3
<1>6. /\ TrueIn(old, lit) <=> (lit > 0 /\ old[u] = 1) \/ (lit < 0 /\ old[u] = -1)
      /\ TrueIn(new, lit) <=> (lit > 0 /\ new[u] = 1) \/ (lit < 0 /\ new[u] = -1)
  <2> HIDE DEF new, u, lit
  <2>1. CASE lit > 0
    BY <1>1, <1>2, <2>1 DEF TrueIn
  <2>2. CASE lit < 0
    BY <1>1, <1>2, <2>2 DEF TrueIn
  <2> QED
    BY <1>1, <1>2, <2>1, <2>2
<1> HIDE DEF lit, new, l, u
<1>7. CASE u = v
  BY <1>1, <1>2, <1>3, <1>4, <1>5, <1>6, <1>7 DEF lit, new, l, u, Phases
<1>8. CASE u # v
  <2>1. old[u] = new[u]
    BY <1>1, <1>3, <1>8
  <2>2. lit # l /\ lit # -l
    BY <1>1, <1>2, <1>4, <1>8
  <2> QED
    BY <1>3, <1>6, <1>8, <2>1, <2>2 DEF lit, new, l, u, Phases
<1> QED
  BY <1>7, <1>8

\* What the flip of v makes of the true places of a clause.
TurnsTo(was, is, l, c, v) ==
    /\ was \subseteq 1..Len(walked[c]) /\ is \subseteq 1..Len(walked[c]) /\ was \in SUBSET Nat /\ is \in SUBSET Nat
    /\ \A i \in 1..Len(walked[c]) :
         /\ walked[c][i] = l => i \in was /\ VariableAt(walked[c], i) = v /\ is = was \ {i} /\ was \cap is = was \ {i}
         /\ walked[c][i] = -l => i \notin was \cap is /\ VariableAt(walked[c], i) = v /\ is = (was \cap is) \cup {i}
    /\ ~OccursIn(l, c) => was \cap is = was
    /\ ~OccursIn(-l, c) => was \cap is = is
LEMMA PlacesTurn ==
    ASSUME walked \in WalkFormulas, NEW c \in Numbers, NEW v \in WalkVariables, NEW old \in Phases
    PROVE  TurnsTo(Trues(old, walked[c]), Trues(TurnedValue(old, v), walked[c]), old[v] * v, c, v)
<1> DEFINE was == Trues(old, walked[c])
           is == Trues(TurnedValue(old, v), walked[c])
           l == old[v] * v
           n == Len(walked[c])
<1>1. n \in Nat /\ \A i, j \in 1..n : VariableAt(walked[c], i) = VariableAt(walked[c], j) => i = j
  BY WalkedIs
<1>2. was \subseteq 1..n /\ is \subseteq 1..n /\ was \in SUBSET Nat /\ is \in SUBSET Nat
  BY <1>1 DEF Trues
<1>3. ASSUME NEW i \in 1..n
      PROVE  /\ VariableAt(walked[c], i) = v => (walked[c][i] = l /\ i \in was /\ i \notin is)
                                                \/ (walked[c][i] = -l /\ i \notin was /\ i \in is)
             /\ VariableAt(walked[c], i) # v => walked[c][i] # l /\ walked[c][i] # -l /\ (i \in was <=> i \in is)
  BY PlaceTurns DEF Trues
<1>5. l # -l
  BY WalkAssumption DEF Phases
<1> HIDE DEF was, is, l, n
<1>6. ASSUME NEW i \in 1..n, walked[c][i] = l
      PROVE  i \in was /\ VariableAt(walked[c], i) = v /\ is = was \ {i} /\ was \cap is = was \ {i}
  <2>1. VariableAt(walked[c], i) = v /\ i \in was /\ i \notin is
    BY <1>3, <1>5, <1>6
  <2>2. \A j \in 1..n : j # i => (j \in was <=> j \in is)
    BY <1>1, <1>3, <2>1
  <2> QED
    BY <1>2, <2>1, <2>2
<1>7. ASSUME NEW i \in 1..n, walked[c][i] = -l
      PROVE  i \notin was \cap is /\ VariableAt(walked[c], i) = v /\ is = (was \cap is) \cup {i}
  <2>1. VariableAt(walked[c], i) = v /\ i \notin was /\ i \in is
    BY <1>3, <1>5, <1>7
  <2>2. \A j \in 1..n : j # i => (j \in was <=> j \in is)
    BY <1>1, <1>3, <2>1
  <2> QED
    BY <1>2, <2>1, <2>2
<1>8. ASSUME ~OccursIn(l, c) PROVE was \cap is = was
  <2>1. \A i \in 1..n : walked[c][i] # l
    BY <1>8 DEF OccursIn, n
  <2> QED
    BY <1>2, <1>3, <2>1
<1>9. ASSUME ~OccursIn(-l, c) PROVE was \cap is = is
  <2>1. \A i \in 1..n : walked[c][i] # -l
    BY <1>9 DEF OccursIn, n
  <2> QED
    BY <1>2, <1>3, <2>1
<1> QED
  BY <1>2, <1>6, <1>7, <1>8, <1>9 DEF was, is, l, n, TurnsTo

\* The true places of the clauses: of an assignment, and while v is turned, of
\* the clauses up to k that a sweep has passed.
TruePlaces(value) == [c \in Numbers |-> Trues(value, walked[c])]
PlacesBoth(old, v) == [c \in Numbers |-> Trues(old, walked[c]) \cap Trues(TurnedValue(old, v), walked[c])]
Passed(S, T, k) == [c \in Numbers |-> IF c <= k THEN T[c] ELSE S[c]]
KeptOf(new, S) == {x \in Walkers : Kept(x, S) /\ x.value = new}

LEMMA PlacesAre ==
    ASSUME walked \in WalkFormulas, NEW v \in WalkVariables, NEW old \in Phases
    PROVE  /\ TruePlaces(old) \in Places /\ TruePlaces(TurnedValue(old, v)) \in Places /\ PlacesBoth(old, v) \in Places
           /\ \A c \in Numbers : /\ TruePlaces(old)[c] = Trues(old, walked[c])
                                 /\ TruePlaces(TurnedValue(old, v))[c] = Trues(TurnedValue(old, v), walked[c])
                                 /\ PlacesBoth(old, v)[c] = TruePlaces(old)[c] \cap TruePlaces(TurnedValue(old, v))[c]
<1>1. ASSUME NEW c \in Numbers
      PROVE  Trues(old, walked[c]) \in SUBSET Nat /\ Trues(TurnedValue(old, v), walked[c]) \in SUBSET Nat
  BY PlacesTurn DEF TurnsTo
<1> QED
  BY <1>1 DEF Places, TruePlaces, PlacesBoth

\* One turn of a sweep brings one clause more to what it becomes.
LEMMA PassedIs ==
    ASSUME Len(walked) \in Nat, NEW S \in Places, NEW T \in Places
    PROVE  /\ \A k \in 0..Len(walked) : Passed(S, T, k) \in Places
           /\ Passed(S, T, 0) = S /\ Passed(S, T, Len(walked)) = T
           /\ \A k \in Numbers : Passed(S, T, k - 1)[k] = S[k] /\ Passed(S, T, k) = [Passed(S, T, k - 1) EXCEPT ![k] = T[k]]
<1>1. \A k \in 0..Len(walked) : Passed(S, T, k) \in Places
  BY DEF Passed, Places
<1>2. Passed(S, T, 0) = S
  <2>1. \A c \in Numbers : Passed(S, T, 0)[c] = S[c]
    BY DEF Passed, Numbers
  <2> QED
    BY <2>1, <1>1 DEF Passed, Places
<1>3. Passed(S, T, Len(walked)) = T
  <2>1. \A c \in Numbers : Passed(S, T, Len(walked))[c] = T[c]
    BY DEF Passed, Numbers
  <2> QED
    BY <2>1, <1>1 DEF Passed, Places
<1>4. ASSUME NEW k \in Numbers
      PROVE  Passed(S, T, k - 1)[k] = S[k] /\ Passed(S, T, k) = [Passed(S, T, k - 1) EXCEPT ![k] = T[k]]
  <2>1. k \in Nat /\ Numbers \subseteq Nat
    BY DEF Numbers
  <2>2. Passed(S, T, k - 1)[k] = S[k]
    BY <2>1 DEF Passed
  <2>3. \A c \in Numbers : Passed(S, T, k)[c] = [Passed(S, T, k - 1) EXCEPT ![k] = T[k]][c]
    BY <2>1 DEF Passed
  <2>4. DOMAIN Passed(S, T, k) = Numbers /\ DOMAIN Passed(S, T, k - 1) = Numbers
    BY DEF Passed
  <2> QED
    BY <2>2, <2>3, <2>4 DEF Passed
<1> QED
  BY <1>1, <1>2, <1>3, <1>4

AfterTurn(x, k, l, v, gains) == IF OccursIn(l, k) THEN Turned(x, k, v, gains) ELSE x
Passes(S, T, new, l, v, gains) ==
    \A k \in Numbers : \A X \in Places : \A x \in Walkers :
       X[k] = S[k] /\ Kept(x, X) /\ x.value = new =>
         /\ Kept(AfterTurn(x, k, l, v, gains), [X EXCEPT ![k] = T[k]])
         /\ AfterTurn(x, k, l, v, gains).value = new
LEMMA SweptPasses ==
    ASSUME Len(walked) \in Nat, NEW S \in Places, NEW T \in Places, NEW new,
           NEW w, Kept(w, S), w.value = new, NEW l, NEW v, NEW gains,
           Passes(S, T, new, l, v, gains)
    PROVE  Kept(Swept(w, l, v, gains), T) /\ Swept(w, l, v, gains).value = new
<1> DEFINE N == Len(walked)
           Good == [k \in 0..N |-> KeptOf(new, Passed(S, T, k))]
<1>1. Good \in [0..N -> SUBSET Walkers] /\ w \in Good[0] /\ Good[N] = KeptOf(new, T)
  <2>1. Passed(S, T, 0) = S /\ Passed(S, T, N) = T
    BY PassedIs
  <2>2. w \in Walkers
    BY DEF Kept
  <2>3. Good[0] = KeptOf(new, S) /\ Good[N] = KeptOf(new, T)
    BY <2>1
  <2>4. w \in KeptOf(new, S)
    BY <2>2 DEF KeptOf
  <2>5. \A X : KeptOf(new, X) \in SUBSET Walkers
    BY DEF KeptOf
  <2> QED
    BY <2>3, <2>4, <2>5
<1>2. ASSUME NEW k \in 1..N, NEW x \in Good[k - 1]
      PROVE  (IF OccursIn(l, k) THEN Turned(x, k, v, gains) ELSE x) \in Good[k]
  <2> DEFINE y == AfterTurn(x, k, l, v, gains)
             X == Passed(S, T, k - 1)
  <2>1. k \in Numbers /\ k - 1 \in 0..N /\ k \in 0..N
    BY DEF Numbers
  <2>2. Good[k - 1] = KeptOf(new, X) /\ Good[k] = KeptOf(new, Passed(S, T, k))
    BY <2>1
  <2>3. X \in Places /\ X[k] = S[k] /\ Passed(S, T, k) = [X EXCEPT ![k] = T[k]]
    <3>1. Passed(S, T, k - 1)[k] = S[k] /\ Passed(S, T, k) = [Passed(S, T, k - 1) EXCEPT ![k] = T[k]]
      <4>1. \A j \in Numbers : /\ Passed(S, T, j - 1)[j] = S[j]
                              /\ Passed(S, T, j) = [Passed(S, T, j - 1) EXCEPT ![j] = T[j]]
        BY PassedIs
      <4> QED
        BY <2>1, <4>1
    <3>2. \A j \in 0..N : Passed(S, T, j) \in Places
      BY PassedIs
    <3> HIDE DEF N
    <3>3. Passed(S, T, k - 1) \in Places
      BY <2>1, <3>2
    <3> QED
      BY <3>1, <3>3
  <2> HIDE DEF X, Good, N
  <2>4. x \in Walkers /\ Kept(x, X) /\ x.value = new
    BY <1>2, <2>2 DEF KeptOf
  <2>5. Kept(y, [X EXCEPT ![k] = T[k]]) /\ y.value = new
    BY <2>1, <2>3, <2>4 DEF Passes
  <2>6. y \in Walkers
    BY <2>5 DEF Kept
  <2>7. y \in KeptOf(new, Passed(S, T, k))
    BY <2>3, <2>5, <2>6 DEF KeptOf
  <2> QED
    BY <2>2, <2>7 DEF AfterTurn
<1> HIDE DEF Good
<1>3. Swept(w, l, v, gains) \in Good[N]
  BY <1>1, <1>2, SweptGood
<1> QED
  BY <1>1, <1>3 DEF KeptOf

\* A flip keeps the counts those of the assignment.
LEMMA FlippedKept ==
    ASSUME walked \in WalkFormulas, NEW w, Kept(w, TruePlaces(w.value)), NEW v \in WalkVariables
    PROVE  Kept(Flipped(w, v), TruePlaces(Flipped(w, v).value)) /\ Flipped(w, v).value \in Phases
<1> DEFINE old == w.value
           new == TurnedValue(old, v)
           l == old[v] * v
           start == [w EXCEPT !.value[v] = -@]
           loss == FALSE
           gain == TRUE
           middle == Swept(start, l, v, loss)
           end == Swept(middle, -l, v, gain)
           was == TruePlaces(old)
           is == TruePlaces(new)
           both == PlacesBoth(old, v)
<1>1. Len(walked) \in Nat /\ w \in Walkers /\ old \in Phases /\ Numbers \subseteq Nat
  BY WalkedIs DEF Kept, Walkers, Numbers
<1>2. /\ start.value = new /\ start.trueCounts = w.trueCounts /\ start.critical = w.critical /\ start.breaks = w.breaks
      /\ start.unsatisfied = w.unsatisfied /\ start.position = w.position /\ IsRecord(start)
  BY <1>1 DEF Walkers, IsRecord, WalkerFields, TurnedValue
<1>3. /\ was \in Places /\ is \in Places /\ both \in Places /\ new \in Phases
      /\ \A c \in Numbers : was[c] = Trues(old, walked[c]) /\ is[c] = Trues(new, walked[c]) /\ both[c] = was[c] \cap is[c]
  <2>1. new \in Phases
    BY <1>1 DEF TurnedValue, Phases
  <2> QED
    BY <1>1, <2>1, PlacesAre
<1> HIDE DEF start, loss, gain
<1>4. Kept(start, was) /\ start.value = new
  <2>1. start \in Walkers
    <3>1. /\ w.trueCounts \in [Numbers -> Nat] /\ w.critical \in [Numbers -> Nat] /\ w.breaks \in [WalkVariables -> Int]
          /\ w.unsatisfied \in Seq(Numbers) /\ w.position \in [Numbers -> Nat]
      BY <1>1 DEF Walkers
    <3> QED
      BY <1>2, <1>3, <3>1, IsWalker
  <2> HIDE DEF was
  <2>2. \A c \in Numbers : KeptAt(start, was, c)
    BY <1>2 DEF Kept, KeptAt, was
  <2>3. Listed(start, was) /\ Weighed(start, was)
    BY <1>2 DEF Kept, Listed, Weighed, was
  <2> QED
    BY <1>2, <2>1, <2>2, <2>3 DEF Kept
<1>5. ASSUME NEW k \in Numbers
      PROVE  /\ \A i \in 1..Len(walked[k]) :
                   /\ walked[k][i] = l => /\ i \in was[k] /\ VariableAt(walked[k], i) = v
                                          /\ is[k] = was[k] \ {i} /\ both[k] = was[k] \ {i}
                   /\ walked[k][i] = -l => i \notin both[k] /\ VariableAt(walked[k], i) = v /\ is[k] = both[k] \cup {i}
             /\ ~OccursIn(l, k) => both[k] = was[k]
             /\ ~OccursIn(-l, k) => both[k] = is[k]
  <2> HIDE DEF was, is, both, old
  <2>1. was[k] = Trues(old, walked[k]) /\ is[k] = Trues(new, walked[k]) /\ both[k] = was[k] \cap is[k]
    BY <1>3
  <2>2. TurnsTo(Trues(old, walked[k]), Trues(new, walked[k]), l, k, v)
    BY <1>1, PlacesTurn
  <2> HIDE DEF new, l
  <2> QED
    BY <2>1, <2>2 DEF TurnsTo
<1> HIDE DEF was, is, both, new, old, l
<1>6. ASSUME NEW k \in Numbers, NEW X \in Places, NEW x \in Walkers, X[k] = was[k], Kept(x, X), x.value = new
      PROVE  /\ Kept(AfterTurn(x, k, l, v, loss), [X EXCEPT ![k] = both[k]])
             /\ AfterTurn(x, k, l, v, loss).value = new
  <2>1. CASE OccursIn(l, k)
    <3>1. PICK i \in 1..Len(walked[k]) : walked[k][i] = l
      BY <2>1 DEF OccursIn
    <3>2. i \in X[k] /\ VariableAt(walked[k], i) = v /\ Trues(x.value, walked[k]) = X[k] \ {i} /\ both[k] = X[k] \ {i}
      BY <1>3, <1>5, <1>6, <3>1
    <3>3. Kept(Loses(x, k, v), [X EXCEPT ![k] = @ \ {i}]) /\ Loses(x, k, v).value = x.value
      BY <1>6, <3>2, KeptLoses
    <3>4. [X EXCEPT ![k] = @ \ {i}] = [X EXCEPT ![k] = both[k]]
      BY <3>2
    <3> QED
      BY <1>6, <2>1, <3>3, <3>4 DEF AfterTurn, Turned, loss, gain
  <2>2. CASE ~OccursIn(l, k)
    <3>1. [X EXCEPT ![k] = both[k]] = X
      BY <1>5, <1>6, <2>2 DEF Places
    <3> QED
      BY <1>6, <2>2, <3>1 DEF AfterTurn
  <2> QED
    BY <2>1, <2>2
<1>7. ASSUME NEW k \in Numbers, NEW X \in Places, NEW x \in Walkers, X[k] = both[k], Kept(x, X), x.value = new
      PROVE  /\ Kept(AfterTurn(x, k, -l, v, gain), [X EXCEPT ![k] = is[k]])
             /\ AfterTurn(x, k, -l, v, gain).value = new
  <2>1. CASE OccursIn(-l, k)
    <3>1. PICK i \in 1..Len(walked[k]) : walked[k][i] = -l
      BY <2>1 DEF OccursIn
    <3>2. i \notin X[k] /\ VariableAt(walked[k], i) = v /\ is[k] = X[k] \cup {i}
      BY <1>5, <1>7, <3>1
    <3>3. Kept(Gains(x, k, v), [X EXCEPT ![k] = @ \cup {i}]) /\ Gains(x, k, v).value = x.value
      BY <1>7, <3>2, KeptGains
    <3>4. [X EXCEPT ![k] = @ \cup {i}] = [X EXCEPT ![k] = is[k]]
      BY <3>2
    <3> QED
      BY <1>7, <2>1, <3>3, <3>4 DEF AfterTurn, Turned, loss, gain
  <2>2. CASE ~OccursIn(-l, k)
    <3>1. [X EXCEPT ![k] = is[k]] = X
      BY <1>5, <1>7, <2>2 DEF Places
    <3> QED
      BY <1>7, <2>2, <3>1 DEF AfterTurn
  <2> QED
    BY <2>1, <2>2
<1>8. Kept(middle, both) /\ middle.value = new
  <2>1. Passes(was, both, new, l, v, loss)
    BY <1>6 DEF Passes
  <2> QED
    BY ONLY <1>1, <1>3, <1>4, <2>1, SweptPasses
<1> HIDE DEF middle
<1>9. Kept(end, is) /\ end.value = new
  <2>1. Passes(both, is, new, -l, v, gain)
    BY <1>7 DEF Passes
  <2> QED
    BY ONLY <1>1, <1>3, <1>8, <2>1, SweptPasses
<1>10. Flipped(w, v) = end
  BY DEF Flipped, end, middle, start, l, old, loss, gain
<1> QED
  BY <1>3, <1>9, <1>10 DEF is

-----------------------------------------------------------------------------
(* A recount                                                               *)

\* The clauses none of whose literals is true, listed in their order.
Listing(g, counts) == g = [c \in 0..Len(walked) |-> IF c = 0 THEN <<>>
                                                   ELSE IF counts[c] = 0 THEN Append(g[c - 1], c) ELSE g[c - 1]]
Filed(g, counts, k) ==
    /\ g[k] \in Seq(Numbers)
    /\ \A i \in 1..Len(g[k]) : g[k][i] <= k /\ counts[g[k][i]] = 0 /\ Len(g[g[k][i]]) = i
    /\ \A c \in Numbers : c <= k /\ counts[c] = 0 => Len(g[c]) \in 1..Len(g[k]) /\ g[k][Len(g[c])] = c

LEMMA ListingFiled ==
    ASSUME Len(walked) \in Nat, NEW counts \in [Numbers -> Nat]
    PROVE  Filed(CHOOSE g : Listing(g, counts), counts, Len(walked))
<1> DEFINE N == Len(walked)
           S == Seq(Numbers)
           Round(q, k) == IF counts[k] = 0 THEN Append(q, k) ELSE q
           next == [p \in S \X (1..N) |-> Round(p[1], p[2])]
           start == <<>>
           g == CHOOSE f : Listing(f, counts)
<1>1. Numbers = 1..N /\ N \in Nat /\ start \in S
  BY DEF Numbers
<1>2. next \in [S \X (1..N) -> S]
  <2>1. ASSUME NEW p \in S \X (1..N) PROVE Round(p[1], p[2]) \in S
    <3>1. p[1] \in Seq(Numbers) /\ p[2] \in Numbers
      BY <1>1
    <3>2. Append(p[1], p[2]) \in Seq(Numbers)
      BY <3>1
    <3> QED
      BY <3>1, <3>2
  <2> QED
    BY <2>1
<1>3. \A q \in S, k \in 1..N : next[<<q, k>>] = Round(q, k)
  OBVIOUS
<1> HIDE DEF next, S, N, start
<1>4. PICK f : Runs(f, N, S, start, next)
  BY <1>1, <1>2, Iteration
<1>5. \A k \in 1..N : f[k] = Round(f[k - 1], k)
  <2>1. ASSUME NEW k \in 1..N PROVE f[k] = Round(f[k - 1], k)
    <3>1. k - 1 \in 0..N
      BY <1>1
    <3>2. f[k - 1] \in S /\ f[k] = next[<<f[k - 1], k>>]
      BY <1>4, <3>1 DEF Runs
    <3> QED
      BY <1>3, <3>2
  <2> QED
    BY <2>1
<1>6. Listing(f, counts)
  <2> HIDE DEF Round
  <2>1. f = [c \in 0..N |-> IF c = 0 THEN start ELSE Round(f[c - 1], c)]
    BY <1>1, <1>4, <1>5 DEF Runs
  <2> QED
    BY <2>1 DEF Listing, Round, N, start
<1>7. Listing(g, counts)
  BY <1>6
<1> HIDE DEF g
<1>8. /\ g[0] = <<>>
      /\ \A k \in 1..N : g[k] = IF counts[k] = 0 THEN Append(g[k - 1], k) ELSE g[k - 1]
  <2>1. g = [c \in 0..N |-> IF c = 0 THEN <<>> ELSE IF counts[c] = 0 THEN Append(g[c - 1], c) ELSE g[c - 1]]
    BY <1>7 DEF Listing, N
  <2>2. 0 \in 0..N /\ \A k \in 1..N : k \in 0..N /\ k # 0
    BY <1>1
  <2> QED
    BY <2>1, <2>2
<1> DEFINE P == {n \in Nat : n \in 0..N => Filed(g, counts, n)}
<1>9. 0 \in P
  <2>1. g[0] \in Seq(Numbers) /\ Len(g[0]) = 0
    BY <1>8
  <2>2. \A c \in Numbers : ~(c <= 0)
    BY <1>1
  <2>3. \A i \in 1..Len(g[0]) : FALSE
    BY <2>1
  <2> HIDE DEF g
  <2>4. Filed(g, counts, 0)
    BY <2>1, <2>2, <2>3 DEF Filed
  <2> QED
    BY <2>4
<1>10. ASSUME NEW n \in Nat, n \in P PROVE n + 1 \in P
  <2>1. SUFFICES ASSUME n + 1 \in 0..N PROVE Filed(g, counts, n + 1)
    OBVIOUS
  <2>2. n \in 0..N /\ n + 1 \in 1..N /\ (n + 1) - 1 = n /\ Filed(g, counts, n)
    BY <1>1, <1>10, <2>1
  <2>3. g[n + 1] = IF counts[n + 1] = 0 THEN Append(g[n], n + 1) ELSE g[n]
    BY <1>8, <2>2
  <2>4. g[n] \in Seq(Numbers) /\ n + 1 \in Numbers /\ Len(g[n]) \in Nat
    BY <1>1, <2>2 DEF Filed
  <2>5. CASE counts[n + 1] = 0
    <3>1. g[n + 1] = Append(g[n], n + 1)
      BY <2>3, <2>5
    <3>2. /\ g[n + 1] \in Seq(Numbers) /\ Len(g[n + 1]) = Len(g[n]) + 1 /\ g[n + 1][Len(g[n]) + 1] = n + 1
          /\ \A i \in 1..Len(g[n]) : g[n + 1][i] = g[n][i]
      BY <2>4, <3>1
    <3>3. ASSUME NEW i \in 1..Len(g[n + 1])
          PROVE  g[n + 1][i] <= n + 1 /\ counts[g[n + 1][i]] = 0 /\ Len(g[g[n + 1][i]]) = i
      <4>1. CASE i = Len(g[n]) + 1
        BY <2>4, <2>5, <3>2, <4>1
      <4>2. CASE i \in 1..Len(g[n])
        <5>1. g[n][i] <= n /\ counts[g[n][i]] = 0 /\ Len(g[g[n][i]]) = i
          BY <2>2, <4>2 DEF Filed
        <5>2. g[n + 1][i] = g[n][i]
          BY <3>2, <4>2
        <5>3. g[n][i] \in Int
          BY <1>1, <2>4, <4>2
        <5>4. g[n][i] <= n + 1
          BY <5>1, <5>3
        <5> QED
          BY <5>1, <5>2, <5>4
      <4>3. i \in 1..Len(g[n]) \/ i = Len(g[n]) + 1
        <5>1. i \in 1..(Len(g[n]) + 1)
          BY <3>2
        <5> QED
          BY <2>4, <5>1
      <4> QED
        BY <4>1, <4>2, <4>3
    <3>4. ASSUME NEW c \in Numbers, c <= n + 1, counts[c] = 0
          PROVE  Len(g[c]) \in 1..Len(g[n + 1]) /\ g[n + 1][Len(g[c])] = c
      <4>1. CASE c = n + 1
        BY <2>4, <3>2, <4>1
      <4>2. CASE c # n + 1
        <5>1. c <= n
          BY <1>1, <3>4, <4>2
        <5>2. Len(g[c]) \in 1..Len(g[n]) /\ g[n][Len(g[c])] = c
          BY <2>2, <3>4, <5>1 DEF Filed
        <5>3. g[n + 1][Len(g[c])] = g[n][Len(g[c])] /\ Len(g[c]) \in 1..Len(g[n + 1])
          <6> DEFINE j == Len(g[c])
          <6>1. j \in 1..Len(g[n])
            BY <5>2
          <6> HIDE DEF j
          <6>2. g[n + 1][j] = g[n][j]
            BY <3>2, <6>1
          <6>3. j \in 1..Len(g[n + 1])
            BY <2>4, <3>2, <6>1
          <6> QED
            BY <6>2, <6>3 DEF j
        <5> QED
          BY <5>2, <5>3
      <4> QED
        BY <4>1, <4>2
    <3> QED
      BY <3>2, <3>3, <3>4 DEF Filed
  <2>6. CASE counts[n + 1] # 0
    <3>1. g[n + 1] = g[n]
      BY <2>3, <2>6
    <3>2. ASSUME NEW i \in 1..Len(g[n])
          PROVE  g[n][i] <= n + 1 /\ counts[g[n][i]] = 0 /\ Len(g[g[n][i]]) = i
      <4>1. g[n][i] <= n /\ counts[g[n][i]] = 0 /\ Len(g[g[n][i]]) = i
        BY <2>2 DEF Filed
      <4>2. g[n][i] \in Int
        BY <1>1, <2>4
      <4>3. g[n][i] <= n + 1
        BY <4>1, <4>2
      <4> QED
        BY <4>1, <4>3
    <3>3. ASSUME NEW c \in Numbers, c <= n + 1, counts[c] = 0
          PROVE  Len(g[c]) \in 1..Len(g[n]) /\ g[n][Len(g[c])] = c
      <4>1. c <= n
        BY <1>1, <2>6, <3>3
      <4> QED
        BY <2>2, <3>3, <4>1 DEF Filed
    <3> QED
      BY <2>4, <3>1, <3>2, <3>3 DEF Filed
  <2> QED
    BY <2>5, <2>6
<1> HIDE DEF P
<1>11. Nat \subseteq P
  BY <1>9, <1>10, CountingUp
<1>12. N \in P /\ N \in 0..N
  BY <1>1, <1>11
<1> QED
  BY <1>12 DEF P, N, g

\* A recount gives the counts of the assignment.
LEMMA RecomputedKept ==
    ASSUME walked \in WalkFormulas, NEW value \in Phases
    PROVE  Kept(Recomputed(value), TruePlaces(value)) /\ Recomputed(value).value = value
<1> DEFINE N == Len(walked)
           counts == [c \in 1..N |-> Cardinality(Trues(value, walked[c]))]
           critical == [c \in 1..N |-> IF counts[c] = 0 THEN 0 ELSE VariableAt(walked[c], Max(Trues(value, walked[c])))]
           listed == CHOOSE g : Listing(g, counts)
           breaks == [v \in WalkVariables |-> Cardinality({c \in 1..N : counts[c] = 1 /\ critical[c] = v})]
           position == [c \in 1..N |-> IF counts[c] = 0 THEN Len(listed[c]) ELSE Nowhere]
           x == Recomputed(value)
           S == TruePlaces(value)
<1>1. /\ x.value = value /\ x.trueCounts = counts /\ x.critical = critical /\ x.breaks = breaks
      /\ x.unsatisfied = listed[N] /\ x.position = position /\ IsRecord(x)
  <2> DEFINE r(g) == [value |-> value, trueCounts |-> counts, critical |-> critical, unsatisfied |-> g[N],
                     breaks |-> breaks, position |-> [c \in 1..N |-> IF counts[c] = 0 THEN Len(g[c]) ELSE Nowhere]]
  <2>1. x = r(listed)
    BY DEF Recomputed, Listing
  <2> HIDE DEF x, counts, critical, breaks, listed, N
  <2>2. x = [value |-> value, trueCounts |-> counts, critical |-> critical, unsatisfied |-> listed[N],
             breaks |-> breaks, position |-> position]
    BY <2>1 DEF position
  <2> HIDE DEF position
  <2> QED
    BY <2>2 DEF IsRecord, WalkerFields
<1>2. /\ N \in Nat /\ Nowhere \in Nat /\ Numbers = 1..N /\ WalkVariables \subseteq Nat
  BY WalkedIs, WalkAssumption DEF Numbers
<1>3. ASSUME NEW c \in Numbers
      PROVE  /\ S[c] = Trues(value, walked[c]) /\ S[c] \in SUBSET (1..Len(walked[c])) /\ Len(walked[c]) \in Nat
             /\ counts[c] = Cardinality(S[c]) /\ counts[c] \in Nat
             /\ counts[c] = 0 <=> S[c] = {}
             /\ counts[c] = 1 <=> \E i : S[c] = {i}
             /\ critical[c] = (IF counts[c] = 0 THEN 0 ELSE VariableAt(walked[c], Max(S[c])))
             /\ position[c] = (IF counts[c] = 0 THEN Len(listed[c]) ELSE Nowhere)
             /\ critical[c] \in Nat
             /\ \A i \in S[c] : S[c] = {i} => critical[c] = VariableAt(walked[c], i)
  <2>1. S[c] = Trues(value, walked[c]) /\ counts[c] = Cardinality(S[c])
    BY <1>2 DEF TruePlaces
  <2>2. S[c] \in SUBSET (1..Len(walked[c])) /\ Len(walked[c]) \in Nat
    BY <2>1, WalkedIs DEF Trues
  <2>3. critical[c] = (IF counts[c] = 0 THEN 0 ELSE VariableAt(walked[c], Max(S[c])))
    BY <1>2, <2>1
  <2>4. position[c] = (IF counts[c] = 0 THEN Len(listed[c]) ELSE Nowhere)
    BY <1>2
  <2> HIDE DEF counts, critical, S, position
  <2>5. counts[c] \in Nat /\ (counts[c] = 0 <=> S[c] = {}) /\ (counts[c] = 1 <=> \E i : S[c] = {i})
    <3> DEFINE X == S[c]
               n == Len(walked[c])
    <3>1. X \in SUBSET (1..n) /\ n \in Nat /\ counts[c] = Cardinality(X)
      BY <2>1, <2>2
    <3> HIDE DEF X, n
    <3>2. Cardinality(X) \in Nat /\ (Cardinality(X) = 0 <=> X = {}) /\ (Cardinality(X) = 1 <=> \E i : X = {i})
      BY <3>1, PlacesCount
    <3> QED
      BY <3>1, <3>2 DEF X
  <2>6. critical[c] \in Nat
    <3>1. CASE counts[c] = 0
      BY <2>3, <3>1
    <3>2. CASE counts[c] # 0
      <4>1. S[c] # {} /\ S[c] \in SUBSET (0..Len(walked[c]))
        BY <2>2, <2>5, <3>2
      <4>2. Max(S[c]) \in 1..Len(walked[c])
        BY <2>2, <4>1, MaxIs
      <4>3. VariableAt(walked[c], Max(S[c])) \in WalkVariables
        BY <4>2, WalkedIs
      <4> QED
        BY <1>2, <2>3, <3>2, <4>3
    <3> QED
      BY <3>1, <3>2
  <2>7. ASSUME NEW i \in S[c], S[c] = {i} PROVE critical[c] = VariableAt(walked[c], i)
    <3>1. i \in Nat /\ Max(S[c]) = i
      BY <2>2, <2>7, OnePlace
    <3>2. counts[c] # 0
      BY <2>5
    <3> QED
      BY <2>3, <3>1, <3>2
  <2> QED
    BY <2>1, <2>2, <2>3, <2>4, <2>5, <2>6, <2>7
<1>4. counts \in [Numbers -> Nat] /\ critical \in [Numbers -> Nat]
  BY <1>2, <1>3
<1>5. ASSUME NEW v \in WalkVariables PROVE breaks[v] = Cardinality(Hanging(S, v)) /\ breaks[v] \in Int
  <2> DEFINE hangs == {c \in 1..N : counts[c] = 1 /\ critical[c] = v}
  <2>1. breaks[v] = Cardinality(hangs)
    OBVIOUS
  <2> HIDE DEF breaks, counts, critical, S, N
  <2>2. ASSUME NEW c \in Numbers PROVE c \in hangs <=> c \in Hanging(S, v)
    <3>1. c \in hangs <=> counts[c] = 1 /\ critical[c] = v
      BY <1>2
    <3>2. c \in Hanging(S, v) <=> \E i \in S[c] : S[c] = {i} /\ VariableAt(walked[c], i) = v
      BY DEF Hanging
    <3>3. counts[c] = 1 <=> \E i \in S[c] : S[c] = {i}
      BY <1>3
    <3>4. \A i \in S[c] : S[c] = {i} => critical[c] = VariableAt(walked[c], i)
      BY <1>3
    <3> QED
      BY <3>1, <3>2, <3>3, <3>4
  <2>3. hangs = Hanging(S, v)
    BY <1>2, <2>2 DEF Hanging
  <2>4. Cardinality(Hanging(S, v)) \in Nat
    <3>1. IsFiniteSet(1..N)
      BY <1>2, FS_Interval
    <3>2. IsFiniteSet(Hanging(S, v))
      BY <1>2, <3>1, FS_Subset DEF Hanging
    <3> QED
      BY <3>2, FS_CardinalityType
  <2> QED
    BY <2>1, <2>3, <2>4
<1>6. Filed(listed, counts, N)
  <2> HIDE DEF counts
  <2> QED
    BY <1>2, <1>4, ListingFiled
<1> HIDE DEF listed, counts, critical, S
<1>7. /\ listed[N] \in Seq(Numbers) /\ Len(listed[N]) \in Nat
      /\ \A i \in 1..Len(listed[N]) : listed[N][i] \in Numbers /\ counts[listed[N][i]] = 0 /\ Len(listed[listed[N][i]]) = i
      /\ \A c \in Numbers : counts[c] = 0 => Len(listed[c]) \in 1..Len(listed[N]) /\ listed[N][Len(listed[c])] = c
  <2>1. \A c \in Numbers : c <= N
    BY <1>2
  <2>2. listed[N] \in Seq(Numbers)
    BY <1>6 DEF Filed
  <2>3. Len(listed[N]) \in Nat /\ \A i \in 1..Len(listed[N]) : listed[N][i] \in Numbers
    BY <2>2
  <2> QED
    BY <1>6, <2>1, <2>2, <2>3 DEF Filed
<1>8. x \in Walkers
  <2>1. position \in [Numbers -> Nat]
    <3>1. \A c \in 1..N : (IF counts[c] = 0 THEN Len(listed[c]) ELSE Nowhere) \in Nat
      BY <1>2, <1>7
    <3> QED
      BY <1>2, <3>1
  <2>2. breaks \in [WalkVariables -> Int]
    BY <1>5
  <2> HIDE DEF position, breaks, x
  <2> QED
    BY <1>1, <1>4, <1>7, <2>1, <2>2, IsWalker
<1> HIDE DEF position, breaks, x, N
<1>9. ASSUME NEW c \in Numbers PROVE KeptAt(x, S, c)
  BY <1>1, <1>3, <1>7 DEF KeptAt
<1>10. Listed(x, S)
  <2>1. ASSUME NEW i \in 1..Len(listed[N]) PROVE S[listed[N][i]] = {} /\ position[listed[N][i]] = i
    <3>1. listed[N][i] \in Numbers /\ counts[listed[N][i]] = 0 /\ Len(listed[listed[N][i]]) = i
      BY <1>7
    <3> QED
      BY <1>3, <3>1
  <2> QED
    BY <1>1, <2>1 DEF Listed
<1>11. Weighed(x, S)
  BY <1>1, <1>5 DEF Weighed
<1> QED
  BY <1>1, <1>8, <1>9, <1>10, <1>11 DEF Kept, x, S

-----------------------------------------------------------------------------
(* What is kept, and the walks around it                                   *)

\* What the counts of an assignment are, the list of its unsatisfied clauses among them.
Left(formula, value) == Cardinality({c \in 1..Len(formula) : Trues(value, formula[c]) = {}})

LEMMA KeptListed ==
    ASSUME walked \in WalkFormulas, NEW w, Kept(w, TruePlaces(w.value))
    PROVE  /\ Range(w.unsatisfied) = Unsatisfied(w.value)
           /\ Len(w.unsatisfied) = Left(walked, w.value)
           /\ Len(w.unsatisfied) \in Nat /\ Len(w.unsatisfied) < Nowhere
<1> DEFINE U == Unsatisfied(w.value)
           q == w.unsatisfied
           n == Len(q)
<1>1. /\ Len(walked) \in Nat /\ Len(walked) < Nowhere /\ Numbers = 1..Len(walked) /\ Nowhere \in Nat
      /\ q \in Seq(Numbers) /\ w.position \in [Numbers -> Nat]
  BY WalkedIs, WalkAssumption DEF Kept, Walkers, Numbers
<1>2. \A c \in Numbers : c \in U <=> TruePlaces(w.value)[c] = {}
  BY <1>1 DEF TruePlaces, Unsatisfied
<1>3. U \subseteq Numbers
  BY <1>1 DEF Unsatisfied
<1> HIDE DEF U
<1>4. n \in Nat /\ \A i \in 1..n : q[i] \in Numbers /\ q[i] \in U /\ w.position[q[i]] = i
  <2>1. n \in Nat /\ \A i \in 1..n : q[i] \in Numbers
    BY <1>1
  <2> QED
    BY <1>2, <2>1 DEF Kept, Listed
<1>5. \A c \in U : w.position[c] \in 1..n /\ q[w.position[c]] = c
  BY <1>2, <1>3 DEF Kept, KeptAt
<1>6. Range(q) = U
  <2>1. DOMAIN q = 1..n
    BY <1>1
  <2> HIDE DEF q, n
  <2> QED
    BY <1>4, <1>5, <2>1 DEF Range
<1> DEFINE F == [i \in 1..n |-> q[i]]
<1> HIDE DEF q, n
<1>7. F \in [1..n -> U] /\ \A i \in 1..n : F[i] = q[i]
  BY <1>4
<1> HIDE DEF F
<1>8. \A i, j \in 1..n : F[i] = F[j] => i = j
  BY <1>4, <1>7
<1>9. \A c \in U : \E i \in 1..n : F[i] = c
  BY <1>5, <1>7
<1>10. F \in Bijection(1..n, U)
  BY <1>7, <1>8, <1>9, Fun_IsBij
<1>11. ExistsBijection(1..n, U)
  BY <1>10 DEF ExistsBijection
<1>12. IsFiniteSet(1..n) /\ Cardinality(1..n) = n
  <2>1. 1 \in Int /\ n \in Int /\ n - 1 + 1 = n
    BY <1>4
  <2> QED
    BY <1>4, FS_Interval
<1>13. Cardinality(U) = n
  BY <1>11, <1>12, FS_Bijection
<1>14. n <= Len(walked)
  <2>1. IsFiniteSet(Numbers) /\ Cardinality(Numbers) = Len(walked)
    <3> DEFINE N == Len(walked)
    <3>1. N \in Nat /\ 1 \in Int /\ N \in Int /\ N - 1 + 1 = N
      BY <1>1
    <3> HIDE DEF N
    <3>2. IsFiniteSet(1..N) /\ Cardinality(1..N) = N
      BY <3>1, FS_Interval
    <3> QED
      BY <1>1, <3>2 DEF N
  <2>2. Cardinality(U) <= Cardinality(Numbers)
    BY <1>3, <2>1, FS_Subset
  <2> QED
    BY <1>13, <2>1, <2>2
<1> QED
  BY <1>1, <1>4, <1>6, <1>13, <1>14 DEF q, n, U, Left, Unsatisfied

\* So the counts agree with a recount.
KeptNow == Kept(walker, TruePlaces(walker.value))
LEMMA KeptAgrees ==
    ASSUME walked \in WalkFormulas, KeptNow
    PROVE  CountsAgree
<1> DEFINE w == walker
           S == TruePlaces(w.value)
           Only(c) == CHOOSE i \in Trues(w.value, walked[c]) : TRUE
           single == {c \in 1..Len(walked) : Cardinality(Trues(w.value, walked[c])) = 1}
<1>1. /\ Numbers = 1..Len(walked) /\ (\A c \in Numbers : KeptAt(w, S, c)) /\ Listed(w, S) /\ Weighed(w, S)
      /\ Range(w.unsatisfied) = Unsatisfied(w.value)
  BY KeptListed DEF KeptNow, Kept, Numbers
<1>2. \A c \in Numbers : S[c] = Trues(w.value, walked[c])
  BY DEF TruePlaces
<1> HIDE DEF S, Only
<1>3. ASSUME NEW c \in Numbers PROVE w.trueCounts[c] = Cardinality(S[c]) /\ (c \in single <=> \E i : S[c] = {i})
  <2>1. w.trueCounts[c] = Cardinality(S[c]) /\ S[c] \in SUBSET (1..Len(walked[c]))
    BY <1>1 DEF KeptAt
  <2>2. Len(walked[c]) \in Nat
    BY WalkedIs
  <2> DEFINE X == S[c]
             n == Len(walked[c])
  <2>3. X \in SUBSET (1..n) /\ n \in Nat
    BY <2>1, <2>2
  <2> HIDE DEF X, n
  <2>4. Cardinality(X) = 1 <=> \E i : X = {i}
    BY <2>3, PlacesCount
  <2>5. c \in single <=> Cardinality(X) = 1
    BY <1>1, <1>2 DEF X
  <2> QED
    BY <2>1, <2>4, <2>5 DEF X
<1>4. ASSUME NEW c \in single
      PROVE  c \in Numbers /\ Only(c) \in S[c] /\ S[c] = {Only(c)} /\ w.critical[c] = VariableAt(walked[c], Only(c))
  <2>1. c \in Numbers
    BY <1>1
  <2>2. PICK i : S[c] = {i}
    BY <1>3, <2>1
  <2>3. Only(c) = CHOOSE k \in S[c] : TRUE
    BY <1>2, <2>1 DEF Only
  <2>4. Only(c) = i
    BY <2>2, <2>3
  <2> QED
    BY <1>1, <2>1, <2>2, <2>4 DEF KeptAt
<1>5. ASSUME NEW v \in WalkVariables
      PROVE  w.breaks[v] = Cardinality({c \in single : VariableAt(walked[c], Only(c)) = v})
  <2> DEFINE hangs == {c \in single : VariableAt(walked[c], Only(c)) = v}
  <2>1. ASSUME NEW c PROVE c \in hangs <=> c \in Hanging(S, v)
    <3>1. CASE c \in single
      <4>1. c \in Numbers /\ S[c] = {Only(c)}
        BY <1>4, <3>1
      <4>2. c \in Hanging(S, v) <=> VariableAt(walked[c], Only(c)) = v
        BY <4>1 DEF Hanging
      <4> QED
        BY <3>1, <4>2
    <3>2. CASE c \notin single
      BY <1>3, <3>2 DEF Hanging
    <3> QED
      BY <3>1, <3>2
  <2> HIDE DEF hangs
  <2>2. hangs = Hanging(S, v)
    BY <2>1
  <2> QED
    BY <1>1, <2>2 DEF Weighed, hangs
<1> HIDE DEF single
<1>6. \A c \in 1..Len(walked) : w.trueCounts[c] = Cardinality(Trues(w.value, walked[c]))
  BY <1>1, <1>2, <1>3
<1>7. \A i \in 1..Len(w.unsatisfied) : w.position[w.unsatisfied[i]] = i
  BY <1>1 DEF Listed
<1>8. ASSUME NEW c \in 1..Len(walked), c \notin Unsatisfied(w.value) PROVE w.position[c] = Nowhere
  <2>1. S[c] # {}
    BY <1>1, <1>2, <1>8 DEF Unsatisfied
  <2> QED
    BY <1>1, <2>1 DEF KeptAt
<1> QED
  BY <1>1, <1>4, <1>5, <1>6, <1>7, <1>8 DEF CountsAgree, single, Only

-----------------------------------------------------------------------------
(* The walks                                                               *)

StateFields == {"enabled", "pending", "count", "config", "next", "scale", "rewalkAt", "adopted"}
RoundFields == {"kind", "config", "round", "stalled", "before", "force", "budget", "left", "formerConfig", "formerCount"}
WalkTyped ==
    /\ walked \in WalkFormulas /\ savedPhase \in Phases
    /\ best \in [value : Phases, count : Nat]
    /\ asidePhases \in [opening : Phases, probe : Phases]
    /\ DOMAIN walkState = StateFields /\ walkState.count \in Nat
    /\ DOMAIN walkRound = RoundFields
    /\ walkStage \in {"start", "search", "walk", "flip"}

BestLeaves == best.count # Nowhere => Left(walked, best.value) = best.count
PhasesLeave ==
    /\ walkState.adopted = "opening" =>
        IF walkState.count > NearMiss THEN savedPhase = asidePhases.probe ELSE Left(walked, savedPhase) = walkState.count
    /\ walkState.adopted = "rewalk" => Left(walked, savedPhase) = walkState.count
\* While an opening walk runs, its first round apart, the phases are those the
\* walk has to beat.
RoundsLeave ==
    walkStage \in {"walk", "flip"} /\ walkRound.kind # "again" =>
        walkRound.kind \in {"first", "second"} /\ (walkRound.force \/ Left(walked, savedPhase) = walkState.count)
WalkInv ==
    /\ WalkTyped
    /\ walkStage = "flip" => KeptNow /\ best.count # Nowhere
    /\ BestLeaves /\ PhasesLeave /\ RoundsLeave
    /\ walkStage # "search" => walkState.adopted = "none"

LEMMA WalkInvAgrees == WalkInv => WalkAgrees
<1> SUFFICES ASSUME WalkInv PROVE WalkAgrees
  OBVIOUS
<1>1. CountsAgree
  <2>1. CASE walkStage = "flip"
    BY <2>1, KeptAgrees DEF WalkInv, WalkTyped
  <2>2. CASE walkStage # "flip"
    BY <2>2 DEF CountsAgree
  <2> QED
    BY <2>1, <2>2
<1>2. BestAgrees
  BY DEF WalkInv, BestLeaves, Left, BestAgrees, Unsatisfied
<1>3. PhasesAgree
  BY DEF WalkInv, PhasesLeave, Left, PhasesAgree, Unsatisfied
<1> QED
  BY <1>1, <1>2, <1>3 DEF WalkAgrees

LEMMA WalkInvInit == LocalSearchInit => WalkInv
<1> SUFFICES ASSUME LocalSearchInit PROVE WalkInv
  OBVIOUS
<1>1. savedPhase \in Phases /\ Nowhere \in Nat
  BY WalkAssumption DEF LocalSearchInit, Phases
<1>2. WalkTyped
  BY <1>1 DEF LocalSearchInit, WalkTyped, StateFields, RoundFields
<1>3. best.count = Nowhere /\ walkState.adopted = "none" /\ walkStage = "start"
  BY DEF LocalSearchInit
<1> QED
  BY <1>2, <1>3 DEF WalkInv, BestLeaves, PhasesLeave, RoundsLeave

\* The counts that were kept are kept of what the walker becomes.
LEMMA KeptNext ==
    ASSUME NEW x, walked' = walked, walker' = x, Kept(x, TruePlaces(x.value))
    PROVE  KeptNow'
<1>1. Numbers' = Numbers
  BY DEF Numbers
<1>2. Walkers' = Walkers
  BY <1>1 DEF Walkers
<1>3. TruePlaces(walker.value)' = TruePlaces(x.value)
  BY <1>1 DEF TruePlaces
<1> DEFINE S == TruePlaces(x.value)
<1>4. x \in Walkers /\ (\A c \in Numbers : KeptAt(x, S, c)) /\ Listed(x, S) /\ Weighed(x, S)
  BY DEF Kept
<1> HIDE DEF S
<1>5. ASSUME NEW c \in Numbers PROVE KeptAt(walker, S, c)'
  <2>1. KeptAt(x, S, c)
    BY <1>4
  <2> QED
    BY <1>3, <2>1 DEF KeptAt, S
<1>6. Listed(walker, S)'
  BY <1>3, <1>4 DEF Listed, S
<1>7. Weighed(walker, S)'
  <2>1. \A u : Hanging(S, u)' = Hanging(S, u)
    BY <1>1, <1>3 DEF Hanging, S
  <2> QED
    BY <1>3, <1>4, <2>1 DEF Weighed
<1> QED
  BY <1>1, <1>2, <1>3, <1>4, <1>5, <1>6, <1>7 DEF KeptNow, Kept, S

\* The best assignment after a walk's start or one of its flips.
LEMMA BestKept ==
    ASSUME WalkInv, NEW x, Kept(x, TruePlaces(x.value)), walked' = walked, walker' = x, best' = BestOf(walker', best)
    PROVE  KeptNow' /\ best' \in [value : Phases, count : Nat] /\ best'.count # Nowhere /\ BestLeaves'
<1>1. /\ walked \in WalkFormulas /\ best \in [value : Phases, count : Nat]
      /\ best.count # Nowhere => Left(walked, best.value) = best.count
  BY DEF WalkInv, WalkTyped, BestLeaves
<1>2. /\ Len(x.unsatisfied) = Left(walked, x.value) /\ Len(x.unsatisfied) \in Nat /\ Len(x.unsatisfied) < Nowhere
      /\ x.value \in Phases /\ Nowhere \in Nat
  BY <1>1, KeptListed, WalkAssumption DEF Kept, Walkers
<1>3. best' = IF Len(x.unsatisfied) < best.count THEN [value |-> x.value, count |-> Len(x.unsatisfied)] ELSE best
  BY DEF BestOf
<1>4. /\ best' \in [value : Phases, count : Nat] /\ best'.count # Nowhere
      /\ Left(walked, best'.value) = best'.count
  <2>1. CASE Len(x.unsatisfied) < best.count
    <3>1. best'.value = x.value /\ best'.count = Len(x.unsatisfied) /\ best' = [value |-> x.value, count |-> Len(x.unsatisfied)]
      BY <1>3, <2>1
    <3> QED
      BY <1>2, <3>1
  <2>2. CASE ~(Len(x.unsatisfied) < best.count)
    <3>1. best' = best
      BY <1>3, <2>2
    <3>2. best.count # Nowhere
      BY <1>1, <1>2, <2>2
    <3> QED
      BY <1>1, <3>1, <3>2
  <2> QED
    BY <2>1, <2>2
<1>5. KeptNow'
  BY KeptNext
<1> QED
  BY <1>4, <1>5 DEF BestLeaves

\* What a walk that ends leaves in the phases.
LEMMA SeededLeaves ==
    ASSUME WalkInv, walkStage = "flip"
    PROVE  /\ DOMAIN Reseeded = StateFields /\ Reseeded.adopted = "none"
           /\ Reseeded.count \in Nat /\ Reseeded.count = (IF Seeds THEN best.count ELSE walkState.count)
           /\ SeededPhase \in Phases
           /\ Seeds => Left(walked, SeededPhase) = Reseeded.count
           /\ walkRound.kind # "again" => Left(walked, SeededPhase) = Reseeded.count
           /\ FoundModel => ~(Reseeded.count > NearMiss)
<1>1. /\ best \in [value : Phases, count : Nat] /\ savedPhase \in Phases /\ best.count # Nowhere
      /\ Left(walked, best.value) = best.count
      /\ DOMAIN walkState = StateFields /\ walkState.count \in Nat /\ walkState.adopted = "none"
      /\ walkRound.kind # "again" => walkRound.force \/ Left(walked, savedPhase) = walkState.count
  BY DEF WalkInv, WalkTyped, BestLeaves, RoundsLeave
<1>2. /\ DOMAIN Reseeded = StateFields /\ Reseeded.adopted = walkState.adopted
      /\ Reseeded.count = (IF Seeds THEN best.count ELSE walkState.count)
  <2> HIDE DEF Seeds, Config
  <2> QED
    BY <1>1 DEF Reseeded, StateFields
<1>3. SeededPhase = IF Seeds THEN best.value ELSE savedPhase
  BY DEF SeededPhase
<1>4. walkRound.force => Seeds
  BY DEF Seeds
<1>5. FoundModel => ~(Reseeded.count > NearMiss)
  BY WalkAssumption DEF FoundModel
<1>6. best.count \in Nat /\ best.value \in Phases
  BY <1>1
<1>7. CASE Seeds
  BY <1>1, <1>2, <1>3, <1>5, <1>6, <1>7
<1>8. CASE ~Seeds
  BY <1>1, <1>2, <1>3, <1>4, <1>5, <1>8
<1> QED
  BY <1>7, <1>8

LEMMA WalkInvSearch ==
    ASSUME WalkInv
    PROVE  /\ \A phases \in Phases, units, inRange \in BOOLEAN : PrepareOpeningWalk(phases, units, inRange) => WalkInv'
           /\ \A v \in WalkVariables, value \in {1, -1} : SearchOn(v, value) => WalkInv'
<1>1. ASSUME NEW phases \in Phases, NEW units \in BOOLEAN, NEW inRange \in BOOLEAN,
             PrepareOpeningWalk(phases, units, inRange)
      PROVE  WalkInv'
  <2>1. /\ walkStage' = "search" /\ walked' = walked /\ best' = best /\ savedPhase' = phases /\ walkRound' = walkRound
        /\ asidePhases' = [opening |-> phases, probe |-> phases]
        /\ DOMAIN walkState' = StateFields /\ walkState'.count = walkState.count /\ walkState'.adopted = "none"
    BY <1>1 DEF PrepareOpeningWalk, WalkInv, WalkTyped, StateFields
  <2> QED
    BY <2>1 DEF WalkInv, WalkTyped, BestLeaves, PhasesLeave, RoundsLeave
<1>2. ASSUME NEW v \in WalkVariables, NEW value \in {1, -1}, SearchOn(v, value)
      PROVE  WalkInv'
  <2>1. /\ walkStage' = "search" /\ walked' = walked /\ best' = best /\ savedPhase' \in Phases /\ walkRound' = walkRound
        /\ asidePhases' = asidePhases
        /\ DOMAIN walkState' = StateFields /\ walkState'.count = walkState.count /\ walkState'.adopted = "none"
    BY <1>2 DEF SearchOn, WalkInv, WalkTyped, StateFields, Phases
  <2> QED
    BY <2>1 DEF WalkInv, WalkTyped, BestLeaves, PhasesLeave, RoundsLeave
<1> QED
  BY <1>1, <1>2

LEMMA WalkInvStarts ==
    ASSUME WalkInv
    PROVE  /\ \A budget \in FlipBudgets : RunOpeningWalk(budget) => WalkInv'
           /\ \A visits \in FlipBudgets : RewalkIfDue(visits) => WalkInv'
<1>1. ASSUME NEW budget \in FlipBudgets, RunOpeningWalk(budget) PROVE WalkInv'
  <2>1. /\ walkStage' = "walk" /\ walked' = walked /\ best' = best /\ savedPhase' \in Phases
        /\ asidePhases' \in [opening : Phases, probe : Phases]
    BY <1>1 DEF RunOpeningWalk, WalkInv, WalkTyped
  <2>2. DOMAIN walkState' = StateFields /\ walkState'.count = walkState.count /\ walkState'.adopted = "none"
    BY <1>1 DEF RunOpeningWalk, WalkInv, WalkTyped, StateFields
  <2>3. DOMAIN walkRound' = RoundFields /\ walkRound'.kind = "first" /\ walkRound'.force
    BY <1>1 DEF RunOpeningWalk, Rounds, RoundFields
  <2> QED
    BY <2>1, <2>2, <2>3 DEF WalkInv, WalkTyped, BestLeaves, PhasesLeave, RoundsLeave
<1>2. ASSUME NEW visits \in FlipBudgets, RewalkIfDue(visits) PROVE WalkInv'
  <2>1. /\ walkStage' = "walk" /\ walked' = walked /\ best' = best /\ savedPhase' = savedPhase /\ asidePhases' = asidePhases
    BY <1>2 DEF RewalkIfDue
  <2>2. DOMAIN walkState' = StateFields /\ walkState'.count = walkState.count /\ walkState'.adopted = "none"
    BY <1>2 DEF RewalkIfDue, WalkInv, WalkTyped, StateFields
  <2>3. DOMAIN walkRound' = RoundFields /\ walkRound'.kind = "again"
    BY <1>2 DEF RewalkIfDue, Rounds, RoundFields
  <2> QED
    BY <2>1, <2>2, <2>3 DEF WalkInv, WalkTyped, BestLeaves, PhasesLeave, RoundsLeave
<1> QED
  BY <1>1, <1>2

LEMMA WalkInvWalks ==
    ASSUME WalkInv, BeginWalk \/ Flip
    PROVE  WalkInv'
<1>1. \E x : /\ Kept(x, TruePlaces(x.value)) /\ walker' = x /\ best' = BestOf(walker', best) /\ walked' = walked
             /\ walkStage \in {"walk", "flip"} /\ walkStage' = "flip"
             /\ savedPhase' = savedPhase /\ asidePhases' = asidePhases /\ walkState' = walkState
             /\ DOMAIN walkRound' = RoundFields /\ walkRound'.kind = walkRound.kind /\ walkRound'.force = walkRound.force
  <2>1. DOMAIN walkRound = RoundFields /\ walked \in WalkFormulas /\ savedPhase \in Phases
    BY DEF WalkInv, WalkTyped
  <2>2. CASE BeginWalk
    <3>1. DOMAIN walkRound' = RoundFields /\ walkRound'.kind = walkRound.kind /\ walkRound'.force = walkRound.force
      BY <2>1, <2>2 DEF BeginWalk, RoundFields
    <3>2. Kept(Recomputed(savedPhase), TruePlaces(Recomputed(savedPhase).value))
      BY <2>1, RecomputedKept
    <3> QED
      BY <2>2, <3>1, <3>2 DEF BeginWalk
  <2>3. CASE Flip
    <3>1. DOMAIN walkRound' = RoundFields /\ walkRound'.kind = walkRound.kind /\ walkRound'.force = walkRound.force
      BY <2>1, <2>3 DEF Flip, RoundFields
    <3>2. PICK c \in Range(walker.unsatisfied) : \E v \in Drawn(Rule, walker, c) : walker' = Flipped(walker, v)
      BY <2>3 DEF Flip
    <3>3. PICK v \in Drawn(Rule, walker, c) : walker' = Flipped(walker, v)
      BY <3>2
    <3>4. Kept(walker, TruePlaces(walker.value))
      BY <2>3 DEF Flip, WalkInv, KeptNow
    <3>5. c \in Numbers
      BY <2>1, <3>4, KeptListed DEF Unsatisfied, Numbers
    <3>6. v \in WalkVariables
      <4>1. v \in {VariableAt(walked[c], i) : i \in 1..Len(walked[c])}
        BY <3>3 DEF Drawn
      <4> QED
        BY <2>1, <3>5, <4>1, WalkedIs
    <3>7. Kept(Flipped(walker, v), TruePlaces(Flipped(walker, v).value))
      BY <2>1, <3>4, <3>6, FlippedKept
    <3> QED
      BY <2>3, <3>1, <3>3, <3>7 DEF Flip
  <2> QED
    BY <2>2, <2>3
<1>2. PICK x : /\ Kept(x, TruePlaces(x.value)) /\ walker' = x /\ best' = BestOf(walker', best) /\ walked' = walked
               /\ walkStage \in {"walk", "flip"} /\ walkStage' = "flip"
               /\ savedPhase' = savedPhase /\ asidePhases' = asidePhases /\ walkState' = walkState
               /\ DOMAIN walkRound' = RoundFields /\ walkRound'.kind = walkRound.kind /\ walkRound'.force = walkRound.force
  BY <1>1
<1>3. KeptNow' /\ best' \in [value : Phases, count : Nat] /\ best'.count # Nowhere /\ BestLeaves'
  BY <1>2, BestKept
<1> QED
  BY <1>2, <1>3 DEF WalkInv, WalkTyped, PhasesLeave, RoundsLeave

LEMMA WalkInvEnds ==
    ASSUME WalkInv, WalkEnds
    PROVE  WalkInv'
<1> DEFINE seeded == SeededPhase
           count == Reseeded.count
           found == FoundModel
           seeds == Seeds
<1>1. /\ DOMAIN Reseeded = StateFields /\ Reseeded.adopted = "none"
      /\ count \in Nat /\ seeded \in Phases
      /\ seeds => Left(walked, seeded) = count
      /\ walkRound.kind # "again" => Left(walked, seeded) = count
      /\ found => ~(count > NearMiss)
  BY SeededLeaves DEF WalkEnds
<1>2. /\ walked \in WalkFormulas /\ best \in [value : Phases, count : Nat] /\ BestLeaves
      /\ asidePhases \in [opening : Phases, probe : Phases] /\ asidePhases.probe \in Phases
      /\ DOMAIN walkRound = RoundFields /\ walkStage = "flip"
      /\ walkRound.kind # "again" => walkRound.kind \in {"first", "second"}
  BY DEF WalkInv, WalkTyped, RoundsLeave, WalkEnds
\* What each of the ends makes of the state.
<1> DEFINE Rest == walked' = walked /\ best' = best /\ asidePhases' = asidePhases
           Again == /\ walkStage' = "walk" /\ walkRound.kind # "again" /\ savedPhase' = seeded
                    /\ DOMAIN walkState' = StateFields /\ walkState'.count = count /\ walkState'.adopted = "none"
                    /\ DOMAIN walkRound' = RoundFields /\ walkRound'.kind \in {"first", "second"}
           Over == /\ walkStage' = "search" /\ walkRound.kind # "again" /\ walkRound' = walkRound
                   /\ DOMAIN walkState' = StateFields /\ walkState'.count = count /\ walkState'.adopted = "opening"
                   /\ IF ~found /\ count > NearMiss THEN savedPhase' = asidePhases.probe ELSE savedPhase' = seeded
           OverAgain == /\ walkStage' = "search" /\ walkRound' = walkRound /\ savedPhase' = seeded
                        /\ DOMAIN walkState' = StateFields /\ walkState'.count = count
                        /\ walkState'.adopted = (IF seeds THEN "rewalk" ELSE "none")
<1>3. Rest /\ (Again \/ Over \/ OverAgain)
  <2> HIDE DEF seeded, found, seeds
  <2>1. CASE NextRound
    <3>1. walkState' = [Reseeded EXCEPT !.next = walkRound.config]
      BY <2>1 DEF NextRound
    <3>2. DOMAIN walkState' = StateFields /\ walkState'.count = count /\ walkState'.adopted = "none"
      BY <1>1, <3>1 DEF StateFields
    <3>3. DOMAIN walkRound' = RoundFields /\ walkRound'.kind = walkRound.kind
      BY <1>2, <2>1 DEF NextRound, RoundFields
    <3> QED
      BY <1>2, <2>1, <3>2, <3>3 DEF NextRound, seeded
  <2>2. CASE FirstStrategyEnds
    <3>0. walkRound.kind = "first" /\ Rest
      BY <2>2 DEF FirstStrategyEnds
    <3>1. CASE FoundModel \/ Reseeded.count > NearMiss
      <4>1. /\ savedPhase' = IF FoundModel THEN SeededPhase ELSE asidePhases.probe
            /\ walkState' = [AfterStrategy EXCEPT !.adopted = "opening"]
            /\ walkStage' = "search" /\ walkRound' = walkRound
        BY <2>2, <3>1 DEF FirstStrategyEnds
      <4>2. DOMAIN walkState' = StateFields /\ walkState'.count = count /\ walkState'.adopted = "opening"
        BY <1>1, <4>1 DEF AfterStrategy, StateFields
      <4> QED
        BY <3>0, <3>1, <4>1, <4>2 DEF seeded, found
    <3>2. CASE ~(FoundModel \/ Reseeded.count > NearMiss)
      <4>1. /\ savedPhase' = SeededPhase /\ walkStage' = "walk"
            /\ walkState' = [AfterStrategy EXCEPT !.config = Len(Rules)]
            /\ walkRound' = [walkRound EXCEPT !.kind = "second", !.config = AfterStrategy.next % Len(Rules), !.round = 0,
                                              !.stalled = 0, !.before = Reseeded.count,
                                              !.formerConfig = Reseeded.config, !.formerCount = Reseeded.count]
        BY <2>2, <3>2 DEF FirstStrategyEnds
      <4>2. DOMAIN walkState' = StateFields /\ walkState'.count = count /\ walkState'.adopted = "none"
        BY <1>1, <4>1 DEF AfterStrategy, StateFields
      <4>3. DOMAIN walkRound' = RoundFields /\ walkRound'.kind = "second"
        BY <1>2, <4>1 DEF RoundFields
      <4> QED
        BY <3>0, <4>1, <4>2, <4>3 DEF seeded
    <3> QED
      BY <3>1, <3>2
  <2>3. CASE SecondStrategyEnds
    <3>1. /\ walkRound.kind = "second" /\ Rest /\ walkStage' = "search" /\ walkRound' = walkRound
          /\ savedPhase' = IF ~FoundModel /\ Reseeded.count > NearMiss THEN asidePhases.probe ELSE SeededPhase
      BY <2>3 DEF SecondStrategyEnds
    <3>2. DOMAIN walkState' = StateFields /\ walkState'.count = count /\ walkState'.adopted = "opening"
      <4> DEFINE config == IF ~FoundModel /\ Reseeded.count >= walkRound.formerCount THEN walkRound.formerConfig
                           ELSE AfterStrategy.config
      <4>1. walkState' = [AfterStrategy EXCEPT !.adopted = "opening", !.config = config]
        BY <1>1, <2>3 DEF SecondStrategyEnds, AfterStrategy, StateFields
      <4> HIDE DEF config
      <4> QED
        BY <1>1, <4>1 DEF AfterStrategy, StateFields
    <3> QED
      BY <3>1, <3>2 DEF seeded, found
  <2>4. CASE RewalkEnds
    <3>1. Rest /\ walkStage' = "search" /\ walkRound' = walkRound /\ savedPhase' = SeededPhase
      BY <2>4 DEF RewalkEnds
    <3>2. DOMAIN walkState' = StateFields /\ walkState'.count = count /\ walkState'.adopted = IF seeds THEN "rewalk" ELSE "none"
      <4> DEFINE scale == IF Seeds THEN Smaller(Reseeded.scale * 2, 32) ELSE Larger(Reseeded.scale \div 2, 1)
      <4>1. walkState' = [Reseeded EXCEPT !.scale = scale, !.adopted = IF Seeds THEN "rewalk" ELSE "none"]
        BY <1>1, <2>4 DEF RewalkEnds, StateFields
      <4> HIDE DEF scale
      <4> QED
        BY <1>1, <4>1 DEF StateFields, seeds
    <3> QED
      BY <3>1, <3>2 DEF seeded
  <2> QED
    BY <2>1, <2>2, <2>3, <2>4 DEF WalkEnds
<1> HIDE DEF seeded, count, found, seeds
<1>4. CASE Again
  BY <1>1, <1>2, <1>3, <1>4 DEF WalkInv, WalkTyped, BestLeaves, PhasesLeave, RoundsLeave
<1>5. CASE Over
  BY <1>1, <1>2, <1>3, <1>5 DEF WalkInv, WalkTyped, BestLeaves, PhasesLeave, RoundsLeave
<1>6. CASE OverAgain
  BY <1>1, <1>2, <1>3, <1>6 DEF WalkInv, WalkTyped, BestLeaves, PhasesLeave, RoundsLeave
<1> QED
  BY <1>3, <1>4, <1>5, <1>6

\* The counts a walk keeps by difference are those of a recount after any number
\* of flips, the best assignment leaves as many clauses unsatisfied as it says,
\* and the phases the search goes on with are its own or as good as noted.
THEOREM WalkAlwaysAgrees == LocalSearchSpec => []WalkAgrees
<1>1. ASSUME WalkInv, [LocalSearchNext]_walkVars PROVE WalkInv'
  <2>1. CASE UNCHANGED walkVars
    <3>1. /\ walked' = walked /\ walker' = walker /\ best' = best /\ savedPhase' = savedPhase
          /\ asidePhases' = asidePhases /\ walkState' = walkState /\ walkRound' = walkRound /\ walkStage' = walkStage
      BY <2>1 DEF walkVars
    <3>2. KeptNow => KeptNow'
      BY <3>1, KeptNext DEF KeptNow
    <3> QED
      BY <1>1, <3>1, <3>2 DEF WalkInv, WalkTyped, BestLeaves, PhasesLeave, RoundsLeave
  <2>2. CASE LocalSearchNext
    BY <1>1, <2>2, WalkInvSearch, WalkInvStarts, WalkInvWalks, WalkInvEnds DEF LocalSearchNext
  <2> QED
    BY <1>1, <2>1, <2>2
<1> QED
  BY <1>1, WalkInvInit, WalkInvAgrees, PTL DEF LocalSearchSpec
=============================================================================
