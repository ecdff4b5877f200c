---------------------------- MODULE SessionProofs ----------------------------
(***************************************************************************)
(* What a caller reads from a session belongs together, and the session    *)
(* implements its contract, for every number of variables, every sequence  *)
(* of calls and every number of reports kept.                              *)
(***************************************************************************)
EXTENDS Session, SequenceTheorems, Iterations, TLAPS

-----------------------------------------------------------------------------
(* Literals, models and what is read back of them                          *)

\* The highest variable of a clause and of what came before is a variable.
LEMMA HighestInRange ==
  ASSUME NEW n \in 0..NumVars, NEW c \in SUBSET Lits
  PROVE  Highest(n, c) \in 0..NumVars
<1> DEFINE S == {n} \cup {l \in Vars : l \in c \/ -l \in c}
<1>1. S \in SUBSET (0..NumVars) /\ S # {}
  BY SessionConstants DEF Vars
<1>2. PICK k \in S : \A s \in S : s <= k
  BY <1>1, Greatest, SessionConstants
<1>3. ASSUME NEW l \in c \cup {n} PROVE k >= l /\ k >= -l
  <2>1. CASE l = n
    BY <2>1, <1>1, <1>2
  <2>2. CASE l \in c /\ l > 0
    <3>1. l \in S
      BY <2>2, SessionConstants DEF Lits, Vars
    <3> QED
      BY <3>1, <2>2, <1>1, <1>2
  <2>3. CASE l \in c /\ l < 0
    <3>1. -l \in S
      <4>1. -l \in Vars /\ -(-l) = l
        BY <2>3, SessionConstants DEF Lits, Vars
      <4> QED
        BY <4>1, <2>3
    <3>2. -l <= k /\ k \in Nat /\ l \in Int
      BY <3>1, <1>1, <1>2, SessionConstants DEF Lits
    <3> QED
      BY <3>2, <2>3
  <2> QED
    BY <2>1, <2>2, <2>3 DEF Lits
<1>4. \E h \in S : \A l \in c \cup {n} : h >= l /\ h >= -l
  BY <1>3
<1>5. Highest(n, c) \in S
  <2> HIDE DEF S
  <2>1. Highest(n, c) = CHOOSE h \in S : \A l \in c \cup {n} : h >= l /\ h >= -l
    BY DEF Highest, S
  <2> QED
    BY <1>4, <2>1
<1> QED
  BY <1>1, <1>5

\* What the pending clause leaves of the formula and its highest variable.
LEMMA FlushedInRange ==
  ASSUME SessionInv
  PROVE  FlushedStated \subseteq SUBSET Lits /\ FlushedMax \in 0..NumVars
BY HighestInRange DEF SessionInv, FlushedStated, FlushedMax, With

\* No model holds a literal with its negation.
LEMMA ModelsConsistent ==
  ASSUME NEW n \in 0..NumVars, NEW m \in Assignments(n), NEW l \in m
  PROVE  -l \notin m
<1>1. l \in -n..n /\ l \in Lits /\ \A v \in 1..n : (v \in m) # (-v \in m)
  BY DEF Assignments
<1>2. CASE l > 0
  BY <1>1, <1>2 DEF Lits
<1>3. CASE l < 0
  <2>1. -l \in 1..n /\ -(-l) = l
    BY <1>1, <1>3, SessionConstants DEF Lits
  <2> QED
    BY <1>1, <2>1
<1> QED
  BY <1>1, <1>2, <1>3 DEF Lits

\* A model of f that makes what is given true, a refutation from a part of it,
\* or neither.
Right(a, f, given) ==
  \/ /\ a.verdict = "sat" /\ a.core = {}
     /\ a.model \subseteq Lits /\ \A l \in a.model : -l \notin a.model
     /\ Satisfies(a.model, f) /\ given \subseteq a.model
  \/ /\ a.verdict = "unsat" /\ a.model = {}
     /\ a.core \subseteq given /\ Entailed(f, {-l : l \in a.core})
  \/ a.verdict = "unknown" /\ a.model = {} /\ a.core \subseteq given

\* The answers of the core are right.
LEMMA Answers ==
  ASSUME NEW f, NEW n \in 0..NumVars, NEW given \in SUBSET Lits, NEW limited \in BOOLEAN,
         NEW a \in CoreAnswers(f, n, given, limited)
  PROVE  Right(a, f, given)
<1>1. CASE \E m \in Assignments(n) : /\ Satisfies(m, f) /\ given \subseteq m
                                     /\ a = [verdict |-> "sat", model |-> m, core |-> {}]
  <2>1. PICK m \in Assignments(n) : /\ Satisfies(m, f) /\ given \subseteq m
                                    /\ a = [verdict |-> "sat", model |-> m, core |-> {}]
    BY <1>1
  <2>2. m \subseteq Lits /\ \A l \in m : -l \notin m
    BY ModelsConsistent DEF Assignments
  <2> QED
    BY <2>1, <2>2 DEF Right
<1>2. CASE \E k \in SUBSET given : /\ Entailed(f, {-l : l \in k})
                                   /\ a = [verdict |-> "unsat", model |-> {}, core |-> k]
  BY <1>2 DEF Right
<1>3. CASE \E k \in SUBSET given : a = [verdict |-> "unknown", model |-> {}, core |-> k]
  BY <1>3 DEF Right
<1> QED
  BY <1>1, <1>2, <1>3 DEF CoreAnswers

\* A lookup made of a model gives that model back, value by value.
LEMMA ReadBack ==
  ASSUME NEW m \in SUBSET Lits, \A l \in m : -l \notin m, lookup' = Lookup(m)
  PROVE  {IpasirVal(v)' : v \in Vars} \ {0} = m
<1>1. \A v \in Vars : (v \in m \/ -v \in m) => v \in DOMAIN lookup' /\ lookup'[v] = (v \in m)
  BY DEF Lookup, Valued
<1>2. \A v \in Vars : v \notin m /\ -v \notin m => v \notin DOMAIN lookup'
  BY DEF Lookup, Valued
<1>3. \A v \in Vars : v > 0 /\ v \in Int
  BY DEF Vars
<1>4. \A v \in Vars : IpasirVal(v)' = IF v \in m THEN v ELSE IF -v \in m THEN -v ELSE 0
  BY <1>1, <1>2, <1>3 DEF IpasirVal, Known
<1>5. ASSUME NEW l \in m PROVE \E v \in Vars : l = IpasirVal(v)' /\ l # 0
  <2>1. CASE l > 0
    BY <2>1, <1>4, SessionConstants DEF Lits, Vars
  <2>2. CASE l < 0
    <3>1. -l \in Vars /\ -(-l) = l /\ -l \notin m
      BY <2>2, SessionConstants DEF Lits, Vars
    <3>2. IpasirVal(-l)' = l
      BY <3>1, <1>4
    <3> QED
      BY <3>1, <3>2, <2>2
  <2> QED
    BY <2>1, <2>2, SessionConstants DEF Lits
<1> QED
  BY <1>4, <1>5

\* A call that solves leaves a right answer behind, about the formula it leaves
\* and the assumptions it was made with.
LEMMA SolveAnswers ==
  ASSUME SessionInv, NEW request \in Requests, NEW lemmas, Solve(request, lemmas)
  PROVE  \E a : /\ Right(a, stated', assumptions \cup request.assumptions)
                /\ lookup' = Lookup(a.model) /\ failedCore' = a.core
                /\ answered' = [formula |-> stated', given |-> assumptions \cup request.assumptions,
                                verdict |-> a.verdict]
                /\ state' = CASE a.verdict = "unknown" -> "steady" [] OTHER -> a.verdict
<1> DEFINE given == assumptions \cup request.assumptions
           limited == \/ Merged(request).conflict_limit # 0
                      \/ Merged(request).decision_limit # 0
           n == Highest(FlushedMax, given)
<1>1. PICK a \in CoreAnswers(FlushedStated, n, given, limited) :
        /\ lookup' = Lookup(a.model) /\ failedCore' = a.core
        /\ answered' = [formula |-> FlushedStated, given |-> given, verdict |-> a.verdict]
        /\ state' = CASE a.verdict = "unknown" -> "steady" [] OTHER -> a.verdict
  BY DEF Solve, Outcome
<1>2. stated' = FlushedStated
  BY DEF Solve
<1>3. given \in SUBSET Lits /\ n \in 0..NumVars
  <2>1. given \in SUBSET Lits
    BY SessionCallers DEF SessionInv
  <2> HIDE DEF given
  <2> QED
    BY <2>1, HighestInRange, FlushedInRange
<1>4. Right(a, FlushedStated, given)
  <2>1. limited \in BOOLEAN
    OBVIOUS
  <2> HIDE DEF given, limited, n
  <2> QED
    BY <1>1, <1>3, <2>1, Answers
<1> QED
  BY <1>1, <1>2, <1>4

-----------------------------------------------------------------------------
(* The reports kept                                                        *)

\* A list of reports that grow, none of them ahead of the counters s.
Growing(list, s) ==
  /\ list \in Seq([Counters -> Nat]) /\ Len(list) <= MaxReports
  /\ \A i \in 1..(Len(list) - 1) : Monotonic(list[i], list[i + 1])
  /\ list # <<>> => Monotonic(list[Len(list)], s)

\* Counters that went up leave the list as it was.
LEMMA GrowingFurther ==
  ASSUME NEW s \in [Counters -> Nat], NEW t \in [Counters -> Nat], Monotonic(s, t),
         NEW list, Growing(list, s)
  PROVE  Growing(list, t)
<1>0. \A r \in [Counters -> Nat] : Monotonic(r, s) => Monotonic(r, t)
  BY DEF Monotonic
<1>1. CASE list = <<>>
  BY <1>1 DEF Growing
<1>2. CASE list # <<>>
  <2>1. list[Len(list)] \in [Counters -> Nat]
    <3>1. list \in Seq([Counters -> Nat])
      BY DEF Growing
    <3> HIDE DEF Growing
    <3> QED
      BY <1>2, <3>1
  <2> QED
    BY <1>0, <1>2, <2>1 DEF Growing
<1> QED
  BY <1>1, <1>2

\* Counting keeps the type of the counters and lets them grow.
LEMMA CountedGrows ==
  ASSUME NEW s \in [Counters -> Nat], NEW c \in Counters, NEW n \in Nat
  PROVE  Counted(s, c, n) \in [Counters -> Nat] /\ Monotonic(s, Counted(s, c, n))
BY DEF Counted, Monotonic

\* A report of the counters may be put at the end of the list.
LEMMA ReportedGrows ==
  ASSUME NEW s \in [Counters -> Nat], NEW list, Growing(list, s)
  PROVE  Growing(Reported(list, s), s)
<1> DEFINE longer == Append(list, s)
<1>1. list \in Seq([Counters -> Nat]) /\ Len(list) \in Nat /\ Len(list) <= MaxReports
  BY DEF Growing
<1>2. longer \in Seq([Counters -> Nat]) /\ Len(longer) = Len(list) + 1
  BY <1>1
<1>3. \A i \in 1..Len(list) : longer[i] = list[i]
  BY <1>1
<1>4. longer[Len(longer)] = s /\ Monotonic(s, s)
  BY <1>1 DEF Monotonic
<1>5. ASSUME NEW i \in 1..(Len(longer) - 1) PROVE Monotonic(longer[i], longer[i + 1])
  <2>1. CASE i < Len(list)
    BY <2>1, <1>1, <1>2, <1>3 DEF Growing
  <2>2. CASE i = Len(list)
    BY <2>2, <1>1, <1>2, <1>3, <1>4 DEF Growing
  <2> QED
    BY <2>1, <2>2, <1>1, <1>2
<1> HIDE DEF longer
<1>6. CASE Len(longer) <= MaxReports
  <2>1. Reported(list, s) = longer
    BY <1>1, <1>2, <1>6, SessionConstants DEF Reported, longer
  <2> QED
    BY <2>1, <1>2, <1>4, <1>5, <1>6 DEF Growing
<1>7. CASE Len(longer) > MaxReports
  <2>1. Reported(list, s) = Tail(longer)
    BY <1>7 DEF Reported, longer
  <2>2. /\ Tail(longer) \in Seq([Counters -> Nat]) /\ Len(Tail(longer)) = Len(list)
        /\ \A i \in 1..Len(list) : Tail(longer)[i] = longer[i + 1]
    BY <1>1, <1>2
  <2>3. Len(list) = MaxReports /\ MaxReports >= 1
    BY <1>1, <1>2, <1>7, SessionConstants
  <2>4. Tail(longer)[Len(list)] = s
    BY <2>2, <2>3, <1>1, <1>2, <1>4
  <2>5. ASSUME NEW i \in 1..(Len(list) - 1)
        PROVE  Monotonic(Tail(longer)[i], Tail(longer)[i + 1])
    <3>1. i + 1 \in 1..(Len(longer) - 1) /\ i \in 1..Len(list) /\ i + 1 \in 1..Len(list)
      BY <1>1, <1>2
    <3>2. Tail(longer)[i] = longer[i + 1] /\ Tail(longer)[i + 1] = longer[(i + 1) + 1]
      BY <2>2, <3>1
    <3> QED
      BY <1>5, <3>1, <3>2
  <2> HIDE DEF longer
  <2> QED
    BY <1>1, <1>4, <2>1, <2>2, <2>3, <2>4, <2>5 DEF Growing
<1> QED
  BY <1>1, <1>2, <1>6, <1>7, SessionConstants

-----------------------------------------------------------------------------
(* Events and what is derived of them                                      *)

Handed(e) == e.kind = "add_derived" /\ e.lits # {}
Took(q, e) == IF Handed(e) THEN Append(q, e) ELSE q

\* The derivations of a list are taken one event at a time.
LEMMA DerivedUnfolds ==
  ASSUME NEW T, NEW s \in Seq(T)
  PROVE  \E f \in [0..Len(s) -> Seq(T)] :
            /\ f[0] = <<>> /\ Derived(s) = f[Len(s)]
            /\ \A k \in 1..Len(s) : f[k] = Took(f[k - 1], s[k])
<1> DEFINE N == Len(s)
           next == [p \in Seq(T) \X (1..N) |-> Took(p[1], s[p[2]])]
           Loop(f) == f = [n \in 0..N |-> IF n = 0 THEN <<>> ELSE Took(f[n - 1], s[n])]
<1>1. N \in Nat /\ <<>> \in Seq(T) /\ \A k \in 1..N : s[k] \in T
  OBVIOUS
<1>2. next \in [Seq(T) \X (1..N) -> Seq(T)]
  <2>1. ASSUME NEW p \in Seq(T) \X (1..N) PROVE Took(p[1], s[p[2]]) \in Seq(T)
    BY <1>1 DEF Took
  <2> QED
    BY <2>1
<1>3. \A q \in Seq(T), k \in 1..N : next[<<q, k>>] = Took(q, s[k])
  OBVIOUS
<1> HIDE DEF next
<1>4. PICK f \in [0..N -> Seq(T)] : f[0] = <<>> /\ \A k \in 1..N : f[k] = next[<<f[k - 1], k>>]
  <2> DEFINE start == <<>>
             S == Seq(T)
  <2>1. start \in S /\ next \in [S \X (1..N) -> S]
    BY <1>1, <1>2
  <2> HIDE DEF start, S, N
  <2>2. PICK f : Runs(f, N, S, start, next)
    BY <1>1, <2>1, Iteration
  <2> QED
    BY <2>2 DEF Runs, start, S
<1>5. ASSUME NEW k \in 1..N PROVE f[k - 1] \in Seq(T) /\ f[k] = Took(f[k - 1], s[k])
  <2>1. k - 1 \in 0..N
    BY <1>1
  <2>2. f[k - 1] \in Seq(T)
    BY <2>1
  <2> QED
    BY <1>3, <1>4, <2>2
<1>6. Loop(f)
  BY <1>1, <1>4, <1>5
<1>7. Loop(CHOOSE g : Loop(g))
  BY <1>6
<1> DEFINE g == CHOOSE h : Loop(h)
<1>8. Derived(s) = g[N]
  BY DEF Derived, Took, Handed
<1>9. g[N] = f[N]
  <2> HIDE DEF g
  <2>1. Loop(g)
    BY <1>7 DEF g
  <2>2. g[0] = f[0]
    BY <1>1, <1>4, <2>1
  <2>3. \A k \in 1..N : g[k] = Took(g[k - 1], s[k])
    BY <1>1, <2>1
  <2>4. Alike(f, g, N)
    BY <1>5, <2>2, <2>3 DEF Alike
  <2> HIDE DEF N, Loop
  <2> QED
    BY <1>1, <2>4, SameIteration
<1> HIDE DEF g, N
<1> QED
  BY <1>4, <1>5, <1>8, <1>9 DEF N

\* The derivations are some of the events, and none come of no events.
LEMMA DerivedType ==
  ASSUME NEW T, NEW s \in Seq(T)
  PROVE  Derived(s) \in Seq(T) /\ (s = <<>> => Derived(s) = <<>>)
<1>1. PICK f \in [0..Len(s) -> Seq(T)] : f[0] = <<>> /\ Derived(s) = f[Len(s)]
  BY DerivedUnfolds
<1>2. Len(s) \in 0..Len(s) /\ (s = <<>> => Len(s) = 0)
  OBVIOUS
<1> QED
  BY <1>1, <1>2

\* One event more is taken after the others.
LEMMA DerivedAppends ==
  ASSUME NEW T, NEW s \in Seq(T), NEW e \in T
  PROVE  Derived(Append(s, e)) = Took(Derived(s), e)
<1> DEFINE N == Len(s)
           t == Append(s, e)
<1>1. /\ N \in Nat /\ t \in Seq(T) /\ Len(t) = N + 1 /\ t[N + 1] = e
      /\ \A k \in 1..N : t[k] = s[k]
  OBVIOUS
<1> HIDE DEF t
<1>2. PICK f \in [0..N -> Seq(T)] :
        f[0] = <<>> /\ Derived(s) = f[N] /\ \A k \in 1..N : f[k] = Took(f[k - 1], s[k])
  BY DerivedUnfolds
<1>3. PICK g \in [0..Len(t) -> Seq(T)] :
        g[0] = <<>> /\ Derived(t) = g[Len(t)] /\ \A k \in 1..Len(t) : g[k] = Took(g[k - 1], t[k])
  BY <1>1, DerivedUnfolds
<1> HIDE DEF N
<1>4. \A k \in 1..N : k \in 1..Len(t)
  BY <1>1
<1>5. Alike(f, g, N)
  BY <1>1, <1>2, <1>3, <1>4 DEF Alike
<1>6. g[N] = f[N]
  BY <1>1, <1>5, SameIteration
<1>7. N + 1 \in 1..Len(t) /\ (N + 1) - 1 = N
  BY <1>1
<1>8. g[N + 1] = Took(g[N], e)
  BY <1>1, <1>3, <1>7
<1> QED
  BY <1>1, <1>2, <1>3, <1>6, <1>8 DEF t

\* What two lists hold between them is what each of them holds.
LEMMA DerivedJoins ==
  ASSUME NEW T, NEW s \in Seq(T), NEW t \in Seq(T)
  PROVE  Derived(s \o t) = Derived(s) \o Derived(t)
<1> DEFINE Upto(n) == SubSeq(t, 1, n)
           P == {n \in Nat : n \in 0..Len(t) => Derived(s \o Upto(n)) = Derived(s) \o Derived(Upto(n))}
<1>1. 0 \in P
  <2>1. Upto(0) = <<>>
    OBVIOUS
  <2>2. \A q \in Seq(T) : q \o <<>> = q
    OBVIOUS
  <2>3. <<>> \in Seq(T)
    OBVIOUS
  <2>4. Derived(s) \in Seq(T) /\ Derived(<<>>) = <<>>
    BY <2>3, DerivedType
  <2> QED
    BY <2>1, <2>2, <2>4
<1>2. ASSUME NEW n \in Nat, n \in P PROVE n + 1 \in P
  <2>1. SUFFICES ASSUME n + 1 \in 0..Len(t)
                 PROVE  Derived(s \o Upto(n + 1)) = Derived(s) \o Derived(Upto(n + 1))
    OBVIOUS
  <2> DEFINE u == Upto(n)
             e == t[n + 1]
  <2>2. n \in 0..Len(t) /\ e \in T /\ u \in Seq(T) /\ s \o u \in Seq(T)
    BY <2>1
  <2>3. Derived(s \o u) = Derived(s) \o Derived(u)
    BY <1>2, <2>2
  <2>4. Upto(n + 1) = Append(u, e)
    BY <2>1
  <2> HIDE DEF u, e
  <2>5. s \o Append(u, e) = Append(s \o u, e)
    BY <2>2
  <2>6. Derived(s) \in Seq(T) /\ Derived(u) \in Seq(T)
    BY <2>2, DerivedType
  <2>7. Derived(s) \o Append(Derived(u), e) = Append(Derived(s) \o Derived(u), e)
    BY <2>2, <2>6
  <2>8. Took(Derived(s) \o Derived(u), e) = Derived(s) \o Took(Derived(u), e)
    BY <2>7 DEF Took
  <2>9. Derived(Append(s \o u, e)) = Took(Derived(s \o u), e) /\ Derived(Append(u, e)) = Took(Derived(u), e)
    BY <2>2, DerivedAppends
  <2> QED
    BY <2>3, <2>4, <2>5, <2>8, <2>9
<1>3. Len(t) \in P
  <2> HIDE DEF P
  <2> QED
    BY <1>1, <1>2, CountingUp
<1>4. Upto(Len(t)) = t /\ Len(t) \in 0..Len(t)
  OBVIOUS
<1>5. Derived(s \o Upto(Len(t))) = Derived(s) \o Derived(Upto(Len(t)))
  BY <1>3, <1>4
<1> HIDE DEF Upto
<1> QED
  BY <1>4, <1>5

\* Of derivations nothing is left out.
LEMMA DerivedAgain ==
  ASSUME NEW T, NEW s \in Seq(T)
  PROVE  Derived(Derived(s)) = Derived(s)
<1> DEFINE N == Len(s)
<1>1. PICK f \in [0..N -> Seq(T)] :
        f[0] = <<>> /\ Derived(s) = f[N] /\ \A k \in 1..N : f[k] = Took(f[k - 1], s[k])
  BY DerivedUnfolds
<1>2. N \in Nat /\ \A k \in 1..N : s[k] \in T
  OBVIOUS
<1> HIDE DEF N
<1> DEFINE P == {n \in Nat : n \in 0..N => Derived(f[n]) = f[n]}
<1>3. 0 \in P
  <2>1. <<>> \in Seq(T)
    OBVIOUS
  <2>2. Derived(<<>>) = <<>>
    BY <2>1, DerivedType
  <2> QED
    BY <1>1, <2>2
<1>4. ASSUME NEW n \in Nat, n \in P PROVE n + 1 \in P
  <2>1. SUFFICES ASSUME n + 1 \in 0..N PROVE Derived(f[n + 1]) = f[n + 1]
    OBVIOUS
  <2>2. n \in 0..N /\ n + 1 \in 1..N /\ (n + 1) - 1 = n
    BY <1>2, <2>1
  <2>3. f[n] \in Seq(T) /\ s[n + 1] \in T /\ Derived(f[n]) = f[n] /\ f[n + 1] = Took(f[n], s[n + 1])
    BY <1>1, <1>2, <1>4, <2>2
  <2>4. Derived(Append(f[n], s[n + 1])) = Took(Derived(f[n]), s[n + 1])
    BY <2>3, DerivedAppends
  <2> QED
    BY <2>3, <2>4 DEF Took
<1>5. N \in P
  <2> HIDE DEF P
  <2> QED
    BY <1>2, <1>3, <1>4, CountingUp
<1> QED
  BY <1>1, <1>2, <1>5

-----------------------------------------------------------------------------
(* The invariant                                                           *)

\* What is read of the last model and of the failed core is kept by a step that
\* leaves them, and the answer they came from, alone.
LEMMA ReadsKept ==
  ASSUME ReadsAreOfOneAnswer, UNCHANGED answerVars
  PROVE  ReadsAreOfOneAnswer'
<1>1. lookup' = lookup /\ failedCore' = failedCore /\ answered' = answered
  BY DEF answerVars
<1>2. \A v \in Vars : IpasirVal(v)' = IpasirVal(v)
  BY <1>1 DEF IpasirVal, Known
<1> QED
  BY <1>1, <1>2 DEF ReadsAreOfOneAnswer

\* What a solve leaves to be read is of its own answer.
LEMMA SolveReads ==
  ASSUME SessionInv, NEW request \in Requests, NEW lemmas, Solve(request, lemmas)
  PROVE  ReadsAreOfOneAnswer' /\ failedCore' \subseteq Lits
<1>1. PICK a :
        /\ Right(a, stated', assumptions \cup request.assumptions)
        /\ lookup' = Lookup(a.model) /\ failedCore' = a.core
        /\ answered' = [formula |-> stated', given |-> assumptions \cup request.assumptions,
                        verdict |-> a.verdict]
  BY SolveAnswers
<1>2. assumptions \cup request.assumptions \subseteq Lits
  BY SessionCallers DEF SessionInv
<1>3. a.core \subseteq Lits
  BY <1>1, <1>2 DEF Right
<1>4. CASE a.verdict = "sat"
  <2>1. /\ a.model \subseteq Lits /\ \A l \in a.model : -l \notin a.model
        /\ a.core = {} /\ Satisfies(a.model, stated')
        /\ assumptions \cup request.assumptions \subseteq a.model
    BY <1>1, <1>4 DEF Right
  <2>2. {IpasirVal(v)' : v \in Vars} \ {0} = a.model
    BY <1>1, <2>1, ReadBack
  <2> QED
    BY <1>1, <1>3, <1>4, <2>1, <2>2 DEF ReadsAreOfOneAnswer
<1>5. CASE a.verdict # "sat"
  <2>1. a.model = {}
    BY <1>1, <1>5 DEF Right
  <2>2. lookup' = <<>>
    BY <1>1, <2>1 DEF Lookup, Valued
  <2>3. a.verdict = "unsat" =>
          /\ a.core \subseteq assumptions \cup request.assumptions
          /\ Entailed(stated', {-l : l \in a.core})
    BY <1>1 DEF Right
  <2> QED
    BY <1>1, <1>3, <1>5, <2>2, <2>3 DEF ReadsAreOfOneAnswer
<1> QED
  BY <1>4, <1>5

\* A solve, or a call stopped before it, reports the counters before and after.
LEMMA ReportedTwice ==
  ASSUME SessionInv, NEW t \in [Counters -> Nat], Monotonic(statistics, t)
  PROVE  Growing(Reported(Reported(snapshots, statistics), t), t)
<1>1. Growing(snapshots, statistics) /\ statistics \in [Counters -> Nat]
  BY DEF Growing, SessionInv, ReadsConsistent, ReportsMonotonic
<1>2. Growing(Reported(snapshots, statistics), statistics)
  BY <1>1, ReportedGrows
<1>3. Growing(Reported(snapshots, statistics), t)
  BY <1>1, <1>2, GrowingFurther
<1> QED
  BY <1>3, ReportedGrows

\* The pending clause, and any clause over the variables, add an event at most.
LEMMA OriginalEventsAre ==
  ASSUME NEW c \in SUBSET Lits
  PROVE  OriginalEvents(c) \in Seq(Events)
<1>1. [kind |-> "add_original", lits |-> c] \in Events
  BY DEF Events
<1> QED
  BY <1>1 DEF OriginalEvents

LEMMA FlushedEventsAre ==
  ASSUME SessionInv
  PROVE  /\ FlushedEvents \in Seq(Events)
         /\ \E more \in Seq(Events) : FlushedEvents = events \o more
<1>1. events \in Seq(Events) /\ pending \in SUBSET Lits
  BY DEF SessionInv
<1>2. CASE pending = {}
  <2>1. FlushedEvents = events \o <<>> /\ FlushedEvents = events /\ <<>> \in Seq(Events)
    BY <1>1, <1>2 DEF FlushedEvents
  <2> QED
    BY <1>1, <2>1
<1>3. CASE pending # {}
  <2>1. FlushedEvents = events \o OriginalEvents(pending) /\ OriginalEvents(pending) \in Seq(Events)
    BY <1>1, <1>3, OriginalEventsAre DEF FlushedEvents
  <2>2. events \o OriginalEvents(pending) \in Seq(Events)
    BY <1>1, <2>1
  <2> QED
    BY <2>1, <2>2
<1> QED
  BY <1>2, <1>3

LEMMA LearnedEventsAre ==
  ASSUME NEW lemmas \in Seq(Lemmas)
  PROVE  LearnedEvents(lemmas) \in Seq(Events)
<1>1. \A c \in Lemmas : [kind |-> "add_derived", lits |-> c] \in Events
  BY DEF Events
<1> QED
  BY <1>1 DEF LearnedEvents

\* What the callback is handed is a list.
LEMMA ReplayedLength ==
  ASSUME SessionInv, NEW evs \in Seq(Events), NEW answer
  PROVE  Len(Replayed(evs, answer)) \in Nat
<1> DEFINE fresh == Derived(SubSeq(evs, SeenFrom(evs) + 1, Len(evs)))
<1>1. SeenFrom(evs) \in Nat
  BY DEF SeenFrom, SessionInv
<1>2. SubSeq(evs, SeenFrom(evs) + 1, Len(evs)) \in Seq(Events)
  BY <1>1
<1>3. fresh \in Seq(Events)
  BY <1>2, DerivedType
<1> HIDE DEF fresh
<1>4. Replayed(evs, answer) = fresh \/ Replayed(evs, answer) = <<[kind |-> "core", lits |-> answer.core]>>
  BY DEF Replayed, fresh
<1>5. CASE Replayed(evs, answer) = fresh
  BY <1>3, <1>5
<1>6. CASE Replayed(evs, answer) = <<[kind |-> "core", lits |-> answer.core]>>
  BY <1>6
<1> QED
  BY <1>4, <1>5, <1>6

\* The counters after a solve.
LEMMA SolveCounts ==
  ASSUME SessionInv, NEW request \in Requests, NEW lemmas \in Seq(Lemmas), Solve(request, lemmas)
  PROVE  Growing(snapshots', statistics') /\ statistics' \in [Counters -> Nat]
<1>1. PICK polled \in {0, 1}, called \in Nat :
        /\ statistics' = Counted(Counted(statistics, "terminate_callback_calls", polled),
                                 "learn_callback_calls", called)
        /\ snapshots' = Reported(Reported(snapshots, statistics), statistics')
  <2> DEFINE evs == FlushedEvents \o LearnedEvents(lemmas)
  <2>1. PICK answer :
          statistics' = Counted(Counted(statistics, "terminate_callback_calls",
                                        IF callbacks.terminate = "none" THEN 0 ELSE 1),
                                "learn_callback_calls",
                                IF callbacks.learn THEN Len(Replayed(evs, answer)) ELSE 0)
    BY DEF Solve
  <2>2. snapshots' = Reported(Reported(snapshots, statistics), statistics')
    BY DEF Solve
  <2>3. evs \in Seq(Events)
    BY FlushedEventsAre, LearnedEventsAre
  <2>4. Len(Replayed(evs, answer)) \in Nat
    BY <2>3, ReplayedLength
  <2> HIDE DEF evs
  <2> QED
    BY <2>1, <2>2, <2>4
<1> DEFINE middle == Counted(statistics, "terminate_callback_calls", polled)
<1>2. statistics \in [Counters -> Nat] /\ Counters = {"learn_callback_calls", "terminate_callback_calls", "updates"}
  BY DEF SessionInv, Counters
<1>3. middle \in [Counters -> Nat] /\ Monotonic(statistics, middle)
  BY <1>2, CountedGrows
<1>4. statistics' \in [Counters -> Nat] /\ Monotonic(middle, statistics')
  <2> HIDE DEF middle
  <2>1. statistics' = Counted(middle, "learn_callback_calls", called)
    BY <1>1 DEF middle
  <2> QED
    BY <1>2, <1>3, <2>1, CountedGrows
<1>5. Monotonic(statistics, statistics')
  <2> HIDE DEF middle
  <2> QED
    BY <1>2, <1>3, <1>4 DEF Monotonic
<1> QED
  BY <1>1, <1>4, <1>5, ReportedTwice

\* The part of the invariant about the input, the formula and the counters.
Gathered ==
  /\ stated \subseteq SUBSET Lits /\ maxVar \in 0..NumVars
  /\ pending \subseteq Lits /\ assumptions \subseteq Lits

\* Every call keeps clauses and assumptions within the variables.
LEMMA GatheredStays ==
  SessionInv /\ [SessionNext]_sessionVars => Gathered'
<1> SUFFICES ASSUME SessionInv, [SessionNext]_sessionVars PROVE Gathered'
  OBVIOUS
<1>0. /\ Gathered
      /\ FlushedStated \subseteq SUBSET Lits /\ FlushedMax \in 0..NumVars
  BY FlushedInRange DEF Gathered, SessionInv
<1>1. ASSUME NEW l \in Lits, \E c \in Clauses : pending \cup {l} \subseteq c, AddLiteral(l)
      PROVE  Gathered'
  BY <1>0, <1>1 DEF Gathered, AddLiteral, coreVars
<1>2. CASE EndClause
  BY <1>0, <1>2 DEF Gathered, EndClause, With
<1>3. ASSUME NEW c \in Clauses, AddWholeClause(c) PROVE Gathered'
  <2>1. c \in SUBSET Lits
    BY SessionCallers
  <2>2. Highest(FlushedMax, c) \in 0..NumVars
    BY <1>0, <2>1, HighestInRange
  <2> QED
    BY <1>0, <1>3, <2>1, <2>2 DEF Gathered, AddWholeClause, With
<1>4. ASSUME NEW l \in Assumables, Assume(l) PROVE Gathered'
  BY <1>0, <1>4, SessionCallers DEF Gathered, Assume, coreVars
<1>5. CASE ReleaseAssumptions
  BY <1>0, <1>5 DEF Gathered, ReleaseAssumptions, coreVars
<1>6. CASE UNCHANGED <<stated, maxVar, pending, assumptions>>
  BY <1>0, <1>6 DEF Gathered
<1>7. ASSUME NEW ov \in OptionValues, SetOption(ov[1], ov[2]) PROVE Gathered'
  BY <1>6, <1>7 DEF SetOption, coreVars, inputVars
<1>8. ASSUME NEW p \in Profiles, SetConfiguration(p) PROVE Gathered'
  BY <1>6, <1>8 DEF SetConfiguration, coreVars, inputVars
<1>9. CASE ClearPersistedConfiguration
  BY <1>6, <1>9 DEF ClearPersistedConfiguration, coreVars, inputVars
<1>10. CASE AttachProofSink
  BY <1>6, <1>10 DEF AttachProofSink, inputVars
<1>11. ASSUME NEW answer \in {"stop", "continue"}, SetTerminate(answer) PROVE Gathered'
  BY <1>6, <1>11 DEF SetTerminate, coreVars, inputVars
<1>12. ASSUME NEW on \in BOOLEAN, SetLearn(on) PROVE Gathered'
  BY <1>6, <1>12 DEF SetLearn, coreVars, inputVars
<1>13. CASE ResetSession
  BY <1>13, SessionConstants DEF Gathered, ResetSession
<1>14. CASE SolveTerminated
  BY <1>0, <1>14 DEF Gathered, SolveTerminated
<1>15. ASSUME NEW request \in Requests, NEW lemmas, Solve(request, lemmas) PROVE Gathered'
  BY <1>0, <1>15 DEF Gathered, Solve, AssumptionsLeft
<1>16. CASE UNCHANGED sessionVars
  BY <1>6, <1>16 DEF sessionVars, coreVars, inputVars
<1> QED
  BY <1>1, <1>2, <1>3, <1>4, <1>5, <1>7, <1>8, <1>9, <1>10, <1>11, <1>12, <1>13, <1>14,
     <1>15, <1>16 DEF SessionNext

\* The part of the invariant about the events and what was handed over.
Heard ==
  /\ events \in Seq(Events) /\ delivered \in Seq(Events) /\ consumed \in Nat
  /\ LearnedOnceInOrder

\* Events added that the callback has not seen change nothing of what it saw.
LEMMA MoreEvents ==
  ASSUME SessionInv, NEW more \in Seq(Events), events' = events \o more, UNCHANGED learnVars
  PROVE  Heard'
<1>1. /\ events \in Seq(Events) /\ delivered \in Seq(Events) /\ consumed \in Nat
      /\ consumed <= Len(events)
      /\ Derived(delivered) = Derived(SubSeq(events, 1, consumed))
      /\ delivered' = delivered /\ consumed' = consumed
  BY DEF SessionInv, LearnedOnceInOrder, learnVars
<1>2. events' \in Seq(Events) /\ Len(events') = Len(events) + Len(more) /\ Len(more) \in Nat
  BY <1>1
<1>3. SubSeq(events \o more, 1, consumed) = SubSeq(events, 1, consumed)
  BY <1>1
<1>4. consumed' <= Len(events') /\ Derived(delivered') = Derived(SubSeq(events', 1, consumed'))
  <2>1. SubSeq(events', 1, consumed') = SubSeq(events, 1, consumed)
    BY <1>1, <1>3
  <2>2. Derived(delivered') = Derived(SubSeq(events', 1, consumed'))
    BY <1>1, <2>1, Zenon
  <2>3. consumed' <= Len(events')
    BY <1>1, <1>2
  <2> QED
    BY <2>2, <2>3
<1> QED
  BY <1>1, <1>2, <1>4 DEF Heard, LearnedOnceInOrder

\* A solve hands over what it had not handed over before, and nothing else but
\* a failed core.
LEMMA SolveHands ==
  ASSUME SessionInv, NEW request \in Requests, NEW lemmas \in Seq(Lemmas), Solve(request, lemmas)
  PROVE  Heard'
<1> DEFINE evs == FlushedEvents \o LearnedEvents(lemmas)
<1>1. /\ events \in Seq(Events) /\ delivered \in Seq(Events) /\ consumed \in Nat
      /\ consumed <= Len(events)
      /\ Derived(delivered) = Derived(SubSeq(events, 1, consumed))
  BY DEF SessionInv, LearnedOnceInOrder
<1>2. PICK more \in Seq(Events) : evs = events \o more
  <2>1. PICK m \in Seq(Events) : FlushedEvents = events \o m
    BY FlushedEventsAre
  <2>2. LearnedEvents(lemmas) \in Seq(Events)
    BY LearnedEventsAre
  <2>3. (events \o m) \o LearnedEvents(lemmas) = events \o (m \o LearnedEvents(lemmas))
    BY <1>1, <2>1, <2>2, SMTT(30)
  <2>4. m \o LearnedEvents(lemmas) \in Seq(Events)
    BY <2>1, <2>2
  <2> QED
    BY <2>1, <2>3, <2>4
<1>3. events' = evs \o Conclusion /\ Conclusion \in Seq(Events)
  <2>1. [kind |-> "conclusion", lits |-> {}] \in Events
    BY DEF Events
  <2>2. Conclusion \in Seq(Events)
    BY <2>1 DEF Conclusion
  <2> QED
    BY <2>2 DEF Solve
<1>4. evs \in Seq(Events) /\ consumed <= Len(evs) /\ Len(evs) \in Nat
  BY <1>1, <1>2
<1>5. CASE ~callbacks.learn
  <2>1. UNCHANGED learnVars
    BY <1>5 DEF Solve
  <2>2. events' = events \o (more \o Conclusion) /\ more \o Conclusion \in Seq(Events)
    BY <1>1, <1>2, <1>3, SMTT(30)
  <2> HIDE DEF evs
  <2> QED
    BY <2>1, <2>2, MoreEvents
<1>6. CASE callbacks.learn
  <2>1. PICK answer \in CoreAnswers(FlushedStated, Highest(FlushedMax, assumptions \cup request.assumptions),
                                    assumptions \cup request.assumptions,
                                    \/ Merged(request).conflict_limit # 0
                                    \/ Merged(request).decision_limit # 0) :
          delivered' = delivered \o Replayed(evs, answer) /\ consumed' = Len(evs)
    BY <1>6 DEF Solve, Seen
  <2>2. answer.core \subseteq Lits
    <3>1. /\ assumptions \cup request.assumptions \in SUBSET Lits
      BY SessionCallers DEF SessionInv
    <3>2. \A f, n, given, limited : \A a \in CoreAnswers(f, n, given, limited) :
            a.core = {} \/ a.core \subseteq given
      <4>1. ASSUME NEW f, NEW n, NEW given, NEW limited, NEW a \in CoreAnswers(f, n, given, limited)
            PROVE  a.core = {} \/ a.core \subseteq given
        <5>1. CASE \E m : a = [verdict |-> "sat", model |-> m, core |-> {}]
          BY <5>1
        <5>2. CASE \E k \in SUBSET given : a = [verdict |-> "unsat", model |-> {}, core |-> k]
          BY <5>2
        <5>3. CASE \E k \in SUBSET given : a = [verdict |-> "unknown", model |-> {}, core |-> k]
          BY <5>3
        <5> QED
          BY <4>1, <5>1, <5>2, <5>3 DEF CoreAnswers
      <4> QED
        BY <4>1
    <3> QED
      BY <3>1, <3>2
  <2> HIDE DEF evs
  <2> DEFINE rest == SubSeq(evs, consumed + 1, Len(evs))
             seen == SubSeq(evs, 1, consumed)
             fresh == Derived(rest)
             core == [kind |-> "core", lits |-> answer.core]
  <2>3. /\ seen \in Seq(Events) /\ rest \in Seq(Events) /\ seen \o rest = evs
        /\ seen = SubSeq(events, 1, consumed)
    <3>1. seen \in Seq(Events) /\ rest \in Seq(Events)
      BY <1>1, <1>4
    <3>2. seen \o rest = evs
      <4>1. SubSeq(evs, 1, Len(evs)) = evs
        BY <1>4
      <4>2. 1 \in 1..(Len(evs) + 1) /\ consumed \in (1 - 1)..Len(evs) /\ Len(evs) \in consumed..Len(evs)
        BY <1>1, <1>4
      <4>3. SubSeq(evs, 1, consumed) \o SubSeq(evs, consumed + 1, Len(evs)) = SubSeq(evs, 1, Len(evs))
        BY <1>4, <4>2, ConcatAdjacentSubSeq
      <4> QED
        BY <4>1, <4>3
    <3>3. SubSeq(events \o more, 1, consumed) = SubSeq(events, 1, consumed)
      BY <1>1
    <3> QED
      BY <1>2, <3>1, <3>2, <3>3
  <2>4. SeenFrom(evs) = consumed
    BY <1>1, <1>4 DEF SeenFrom
  <2>5. Replayed(evs, answer) = fresh \/ (fresh = <<>> /\ Replayed(evs, answer) = <<core>>)
    BY <2>4 DEF Replayed
  <2> HIDE DEF rest, seen
  <2>6. fresh \in Seq(Events) /\ Derived(fresh) = fresh
    BY <2>3, DerivedType, DerivedAgain
  <2>7. core \in Events
    BY <2>2 DEF Events
  <2>8. Derived(<<core>>) = <<>>
    <3>1. <<>> \in Seq(Events) /\ Append(<<>>, core) = <<core>>
      OBVIOUS
    <3>2. Derived(Append(<<>>, core)) = Took(Derived(<<>>), core) /\ Derived(<<>>) = <<>>
      BY <2>7, <3>1, DerivedAppends, DerivedType
    <3> QED
      BY <3>1, <3>2 DEF Took, Handed
  <2> HIDE DEF core, fresh
  <2>9. Replayed(evs, answer) \in Seq(Events) /\ Derived(Replayed(evs, answer)) = fresh
    <3>1. <<core>> \in Seq(Events)
      BY <2>7
    <3>2. CASE Replayed(evs, answer) = fresh
      BY <2>6, <3>2
    <3>3. CASE fresh = <<>> /\ Replayed(evs, answer) = <<core>>
      BY <2>8, <3>1, <3>3
    <3> QED
      BY <2>5, <3>2, <3>3
  <2>10. delivered' \in Seq(Events) /\ Derived(delivered') = Derived(delivered) \o fresh
    <3>1. Derived(delivered \o Replayed(evs, answer)) = Derived(delivered) \o Derived(Replayed(evs, answer))
      BY <1>1, <2>9, DerivedJoins
    <3>2. delivered \o Replayed(evs, answer) \in Seq(Events)
      BY <1>1, <2>9
    <3> QED
      BY <2>1, <2>9, <3>1, <3>2
  <2>11. Derived(evs) = Derived(seen) \o fresh
    BY <2>3, DerivedJoins DEF fresh
  <2>12. /\ events' \in Seq(Events) /\ Len(evs) <= Len(events') /\ SubSeq(events', 1, Len(evs)) = evs
    BY <1>3, <1>4
  <2> QED
    BY <1>1, <1>4, <2>1, <2>3, <2>10, <2>11, <2>12 DEF Heard, LearnedOnceInOrder
<1> QED
  BY <1>5, <1>6

\* Whatever is called, what was handed over is what there was to see, in order.
LEMMA HeardStays ==
  SessionInv /\ [SessionNext]_sessionVars => Heard'
<1> SUFFICES ASSUME SessionInv, [SessionNext]_sessionVars PROVE Heard'
  OBVIOUS
<1>0. events \in Seq(Events) /\ pending \in SUBSET Lits
  BY DEF SessionInv
<1>1. CASE UNCHANGED <<events, learnVars>>
  <2>1. <<>> \in Seq(Events) /\ events' = events \o <<>>
    BY <1>0, <1>1
  <2> QED
    BY <1>1, <2>1, MoreEvents
<1>2. CASE EndClause
  <2>1. events' = events \o OriginalEvents(pending) /\ UNCHANGED learnVars
    BY <1>2 DEF EndClause
  <2> QED
    BY <1>0, <2>1, OriginalEventsAre, MoreEvents
<1>3. ASSUME NEW c \in Clauses, AddWholeClause(c) PROVE Heard'
  <2>1. events' = FlushedEvents \o OriginalEvents(c) /\ UNCHANGED learnVars
    BY <1>3 DEF AddWholeClause
  <2>2. PICK more \in Seq(Events) : FlushedEvents = events \o more
    BY FlushedEventsAre
  <2>3. OriginalEvents(c) \in Seq(Events)
    BY SessionCallers, OriginalEventsAre
  <2>4. events' = events \o (more \o OriginalEvents(c)) /\ more \o OriginalEvents(c) \in Seq(Events)
    BY <1>0, <2>1, <2>2, <2>3
  <2> QED
    BY <2>1, <2>4, MoreEvents
<1>4. CASE ResetSession
  <2>1. events' = <<>> /\ delivered' = <<>> /\ consumed' = 0
    BY <1>4 DEF ResetSession
  <2>2. <<>> \in Seq(Events) /\ Len(<<>>) = 0 /\ SubSeq(<<>>, 1, 0) = <<>>
    OBVIOUS
  <2>3. SubSeq(events', 1, consumed') = delivered'
    BY <2>1, <2>2
  <2>4. consumed' <= Len(events') /\ Derived(delivered') = Derived(SubSeq(events', 1, consumed'))
    <3>1. Derived(delivered') = Derived(SubSeq(events', 1, consumed'))
      BY <2>3, Zenon
    <3> QED
      BY <2>1, <2>2, <3>1
  <2> QED
    BY <2>1, <2>2, <2>4 DEF Heard, LearnedOnceInOrder
<1>5. CASE SolveTerminated
  <2>1. events' = FlushedEvents /\ UNCHANGED learnVars
    BY <1>5 DEF SolveTerminated
  <2> QED
    BY <2>1, FlushedEventsAre, MoreEvents
<1>6. CASE \E request \in Requests, lemmas \in {<<>>} \cup {<<c>> : c \in Lemmas} :
             Solve(request, lemmas)
  <2>1. \A lemmas \in {<<>>} \cup {<<c>> : c \in Lemmas} : lemmas \in Seq(Lemmas)
    <3>1. <<>> \in Seq(Lemmas) /\ \A c \in Lemmas : <<c>> \in Seq(Lemmas)
      OBVIOUS
    <3> QED
      BY <3>1
  <2> QED
    BY <1>6, <2>1, SolveHands
<1>7. \/ UNCHANGED <<events, learnVars>> \/ EndClause \/ \E c \in Clauses : AddWholeClause(c)
      \/ ResetSession \/ SolveTerminated
      \/ \E request \in Requests, lemmas \in {<<>>} \cup {<<c>> : c \in Lemmas} :
           Solve(request, lemmas)
  BY DEF SessionNext, sessionVars, coreVars, AddLiteral, Assume, ReleaseAssumptions, SetOption,
         SetConfiguration, ClearPersistedConfiguration, AttachProofSink, SetTerminate, SetLearn
<1> QED
  BY <1>1, <1>2, <1>3, <1>4, <1>5, <1>6, <1>7

\* What is read is of one answer after every call.
LEMMA ReadsStay ==
  SessionInv /\ [SessionNext]_sessionVars => ReadsAreOfOneAnswer' /\ failedCore' \subseteq Lits
<1> SUFFICES ASSUME SessionInv, [SessionNext]_sessionVars
             PROVE  ReadsAreOfOneAnswer' /\ failedCore' \subseteq Lits
  OBVIOUS
<1>1. CASE UNCHANGED answerVars
  BY <1>1, ReadsKept DEF SessionInv, ReadsConsistent, answerVars
<1>2. CASE ResetSession
  BY <1>2 DEF ResetSession, ReadsAreOfOneAnswer
<1>3. CASE \E request \in Requests, lemmas \in {<<>>} \cup {<<c>> : c \in Lemmas} :
             Solve(request, lemmas)
  BY <1>3, SolveReads
<1>4. \/ UNCHANGED answerVars \/ ResetSession
      \/ \E request \in Requests, lemmas \in {<<>>} \cup {<<c>> : c \in Lemmas} :
           Solve(request, lemmas)
  BY DEF SessionNext, sessionVars, AddLiteral, EndClause, AddWholeClause, Assume, ReleaseAssumptions, SetOption,
         SetConfiguration, ClearPersistedConfiguration, AttachProofSink, SetTerminate,
         SetLearn, SolveTerminated
<1> QED
  BY <1>1, <1>2, <1>3, <1>4

\* The reports grow after every call.
LEMMA ReportsStay ==
  SessionInv /\ [SessionNext]_sessionVars => Growing(snapshots', statistics') /\ statistics' \in [Counters -> Nat]
<1> DEFINE Goal == Growing(snapshots', statistics') /\ statistics' \in [Counters -> Nat]
<1> SUFFICES ASSUME SessionInv, [SessionNext]_sessionVars PROVE Goal
  OBVIOUS
<1>0. /\ Growing(snapshots, statistics) /\ statistics \in [Counters -> Nat]
      /\ Counters = {"learn_callback_calls", "terminate_callback_calls", "updates"}
  BY DEF Growing, SessionInv, ReadsConsistent, ReportsMonotonic, Counters
<1>1. CASE UNCHANGED reportVars
  BY <1>0, <1>1 DEF reportVars
<1>2. CASE statistics' = Counted(statistics, "updates", 1) /\ UNCHANGED snapshots
  BY <1>0, <1>2, CountedGrows, GrowingFurther
<1>3. CASE ResetSession
  <2>1. statistics' = ResetCounters /\ snapshots' = <<>>
    BY <1>3 DEF ResetSession, SnapshotsLeft
  <2>2. ResetCounters \in [Counters -> Nat]
    BY DEF ResetCounters
  <2> QED
    BY <2>1, <2>2, SessionConstants DEF Growing
<1>4. CASE SolveTerminated
  <2>1. /\ statistics' = Counted(statistics, "terminate_callback_calls", 1)
        /\ snapshots' = Reported(Reported(snapshots, statistics), statistics')
    BY <1>4 DEF SolveTerminated
  <2>2. statistics' \in [Counters -> Nat] /\ Monotonic(statistics, statistics')
    BY <1>0, <2>1, CountedGrows
  <2> QED
    BY <2>1, <2>2, ReportedTwice
<1>5. CASE \E request \in Requests, lemmas \in {<<>>} \cup {<<c>> : c \in Lemmas} :
             Solve(request, lemmas)
  <2>1. \A lemmas \in {<<>>} \cup {<<c>> : c \in Lemmas} : lemmas \in Seq(Lemmas)
    <3>1. <<>> \in Seq(Lemmas) /\ \A c \in Lemmas : <<c>> \in Seq(Lemmas)
      OBVIOUS
    <3> QED
      BY <3>1
  <2> QED
    BY <1>5, <2>1, SolveCounts
<1>6. \/ UNCHANGED reportVars
      \/ statistics' = Counted(statistics, "updates", 1) /\ UNCHANGED snapshots
      \/ ResetSession \/ SolveTerminated
      \/ \E request \in Requests, lemmas \in {<<>>} \cup {<<c>> : c \in Lemmas} :
           Solve(request, lemmas)
  BY DEF SessionNext, sessionVars, AddLiteral, EndClause, AddWholeClause, Assume, ReleaseAssumptions, SetOption,
         SetConfiguration, ClearPersistedConfiguration, AttachProofSink, SetTerminate, SetLearn
<1> QED
  BY <1>1, <1>2, <1>3, <1>4, <1>5, <1>6

\* Whatever calls are made in whatever order, the clauses, the assumptions and
\* the failed core name the session's variables, the last report kept is not
\* ahead of the counters (emit_statistics_report_checkpoint), and what can be
\* read is of one answer and one growing list of reports.
THEOREM SessionInductive == SessionSpec => []SessionInv
<1>1. SessionInit => SessionInv
  <2> SUFFICES ASSUME SessionInit PROVE SessionInv
    OBVIOUS
  <2>1. ResetCounters \in [Counters -> Nat]
    BY DEF ResetCounters
  <2>2. <<>> \in Seq(Events) /\ Len(<<>>) = 0 /\ SubSeq(<<>>, 1, 0) = <<>>
    OBVIOUS
  <2>3. Heard
    <3>1. events = <<>> /\ delivered = <<>> /\ consumed = 0
      BY DEF SessionInit
    <3>2. SubSeq(events, 1, consumed) = delivered
      BY <2>2, <3>1
    <3>3. Derived(delivered) = Derived(SubSeq(events, 1, consumed))
      BY <3>2, Zenon
    <3>4. consumed <= Len(events)
      BY <2>2, <3>1
    <3> QED
      BY <2>2, <3>1, <3>3, <3>4 DEF Heard, LearnedOnceInOrder
  <2> QED
    BY <2>1, <2>3, SessionConstants
       DEF SessionInit, Heard, SessionInv, ReadsConsistent, ReadsAreOfOneAnswer, ReportsMonotonic
<1>2. SessionInv /\ [SessionNext]_sessionVars => SessionInv'
  BY GatheredStays, HeardStays, ReadsStay, ReportsStay
     DEF SessionInv, Gathered, Heard, Growing, ReadsConsistent, ReportsMonotonic
<1> QED
  BY <1>1, <1>2, PTL DEF SessionSpec

\* Values, a failed core and the kept reports are never of two answers or two
\* sessions at once, after any edits, terminations and resets (solver::value_of,
\* solver::failed, emitted_statistics_snapshot_tail_monotonic).
THEOREM ReadsStand == SessionSpec => []ReadsConsistent
<1>1. SessionInv => ReadsConsistent
  BY DEF SessionInv
<1> QED
  BY <1>1, SessionInductive, PTL

\* The learn callback is handed every buffered derivation once and in order,
\* whatever solves, terminations, edits and resets come between, and whether it
\* was there all the time or not (solver::solve).
THEOREM LearnedInOrder == SessionSpec => []LearnedOnceInOrder
<1>1. SessionInv => LearnedOnceInOrder
  BY DEF SessionInv
<1> QED
  BY <1>1, SessionInductive, PTL

-----------------------------------------------------------------------------
(* Options                                                                 *)

\* What an update pushes: the value configured, else the facade's default, and
\* of the sticky options the value configured or the one in force.
LEMMA UpdatePushes ==
  ASSUME NEW conf, NEW core
  PROVE  /\ \A o \in DOMAIN FacadeDefaults :
              Pushed(conf, core)[o] = IF conf[o] = Unset THEN FacadeDefaults[o] ELSE conf[o]
         /\ \A o \in StickyOptions : Pushed(conf, core)[o] \in {conf[o], core[o], 100}
<1>1. /\ DOMAIN FacadeDefaults \subseteq CoreOptions /\ StickyOptions \subseteq CoreOptions
      /\ StickyOptions \cap DOMAIN FacadeDefaults = {}
  BY DEF FacadeDefaults, StickyOptions, CoreOptions, Options, RequestOptions
<1>2. ASSUME NEW o \in DOMAIN FacadeDefaults
      PROVE  Pushed(conf, core)[o] = IF conf[o] = Unset THEN FacadeDefaults[o] ELSE conf[o]
  BY <1>1 DEF Pushed, InForce
<1>3. ASSUME NEW o \in StickyOptions PROVE Pushed(conf, core)[o] \in {conf[o], core[o], 100}
  <2>1. Pushed(conf, core)[o] = Clamped(o, InForceOnceSet(o, conf, core))
    BY <1>1, <1>3 DEF Pushed
  <2> QED
    BY <2>1 DEF Clamped, InForceOnceSet
<1> QED
  BY <1>2, <1>3

\* After any option is set or any profile loaded, the core runs with what is
\* configured or the default, whatever was configured before; the options that
\* are only pushed while configured may keep the value they had
\* (solver::impl::apply_core_configuration).
THEOREM OptionsFollow == SessionSpec => CoreFollowsConfiguration
<1> DEFINE Follows ==
      configured' # configured /\ pushed' # pushed =>
        /\ \A o \in DOMAIN FacadeDefaults :
             pushed'[o] = IF configured'[o] = Unset THEN FacadeDefaults[o] ELSE configured'[o]
        /\ \A o \in StickyOptions : pushed'[o] \in {configured'[o], pushed[o], 100}
<1>1. [SessionNext]_sessionVars => [Follows]_sessionVars
  <2> SUFFICES ASSUME [SessionNext]_sessionVars, configured' # configured /\ pushed' # pushed PROVE Follows
    OBVIOUS
  <2>1. pushed' = Pushed(configured', pushed)
    BY DEF SessionNext, sessionVars, optionVars, AddLiteral, EndClause, AddWholeClause, Assume, ReleaseAssumptions,
           SetOption, SetConfiguration, ClearPersistedConfiguration, AttachProofSink,
           SetTerminate, SetLearn, ResetSession, SolveTerminated, Solve
  <2> QED
    BY <2>1, UpdatePushes
<1> QED
  BY <1>1, PTL DEF SessionSpec, CoreFollowsConfiguration

-----------------------------------------------------------------------------
(* The contract                                                            *)

\* In a state that is neither answer there is nothing to read.
LEMMA NothingRead ==
  ASSUME state' \notin {"sat", "unsat"}
  PROVE  Contract!NothingToRead
BY DEF Contract!NothingToRead, IpasirVerdict

\* A call that leaves what is read and gathered alone is a stutter.
LEMMA ContractStutters ==
  ASSUME UNCHANGED <<stated, pending, assumptions, state, lookup, failedCore>>
  PROVE  UNCHANGED Contract!vars
<1>1. \A v \in Vars : IpasirVal(v)' = IpasirVal(v)
  BY DEF IpasirVal, Known
<1>2. \A l \in Lits : IpasirFailed(l)' = IpasirFailed(l)
  BY DEF IpasirFailed, Failed
<1> QED
  BY <1>1, <1>2 DEF Contract!vars, IpasirVerdict

\* A solve answers as the contract allows, about the formula with the pending
\* clause in it and the assumptions gathered beside the call's own.
LEMMA SolveIsAnswer ==
  ASSUME SessionInv, NEW request \in Requests, NEW lemmas, Solve(request, lemmas)
  PROVE  Contract!Answer
<1> DEFINE given == assumptions \cup request.assumptions
<1>1. PICK a : /\ Right(a, stated', given)
               /\ lookup' = Lookup(a.model) /\ failedCore' = a.core
               /\ state' = CASE a.verdict = "unknown" -> "steady" [] OTHER -> a.verdict
  BY SolveAnswers
<1>2. /\ stated' = Contract!Closed /\ pending' = {} /\ assumptions' = {}
  BY DEF Solve, AssumptionsLeft, FlushedStated, With, Proper, Contract!Closed, Contract!With,
         Contract!Proper
<1>3. given \in SUBSET Lits
  BY SessionCallers DEF SessionInv
<1>4. request.assumptions \in SUBSET Contract!Lits
  BY SessionCallers DEF Contract!Lits, Lits
<1> HIDE DEF given
<1>5. CASE a.verdict = "sat"
  <2>1. /\ a.model \subseteq Lits /\ \A l \in a.model : -l \notin a.model
        /\ Satisfies(a.model, stated') /\ given \subseteq a.model
    BY <1>1, <1>5 DEF Right
  <2>2. {IpasirVal(v)' : v \in Vars} \ {0} = a.model
    BY <1>1, <2>1, ReadBack
  <2>3. state' = "sat" /\ IpasirVerdict' = 10
    BY <1>1, <1>5 DEF IpasirVerdict
  <2>4. Contract!Satisfiable(given)
    BY <2>1, <2>2, <2>3
       DEF Contract!Satisfiable, Contract!Satisfied, Contract!Lits, Satisfies, Lits
  <2> QED
    BY <1>2, <1>4, <2>4 DEF Contract!Answer, given
<1>6. CASE a.verdict = "unsat"
  <2>1. a.core \subseteq given /\ Entailed(stated', {-l : l \in a.core})
    BY <1>1, <1>6 DEF Right
  <2>2. state' = "unsat" /\ IpasirVerdict' = 20
    BY <1>1, <1>6 DEF IpasirVerdict
  <2>3. {l \in Lits : IpasirFailed(l)'} = a.core
    BY <1>1, <1>3, <2>1 DEF IpasirFailed, Failed
  <2>4. ASSUME NEW m \in Contract!Assignments, Contract!Satisfied(m, stated')
        PROVE  ~(a.core \subseteq m)
    <3>1. m \in SUBSET Lits /\ \A v \in 1..NumVars : (v \in m) # (-v \in m)
      BY DEF Contract!Assignments, Contract!Lits, Lits
    <3>2. m \in Assignments(NumVars) /\ Satisfies(m, stated')
      BY <3>1, <2>4 DEF Assignments, Lits, Satisfies, Contract!Satisfied
    <3>3. PICK l \in a.core : -l \in m
      BY <2>1, <3>2 DEF Entailed
    <3>4. l \notin m
      <4>1. NumVars \in 0..NumVars /\ l \in Lits
        BY <1>3, <2>1, SessionConstants
      <4>2. -(-l) = l
        BY <4>1, SessionConstants DEF Lits
      <4> QED
        BY <3>2, <3>3, <4>1, <4>2, ModelsConsistent
    <3> QED
      BY <3>3, <3>4
  <2>5. Contract!Unsatisfiable(given)
    BY <2>1, <2>2, <2>3, <2>4 DEF Contract!Unsatisfiable
  <2> QED
    BY <1>2, <1>4, <2>5 DEF Contract!Answer, given
<1>7. CASE a.verdict = "unknown"
  <2>1. Contract!NothingToRead
    BY <1>1, <1>7, NothingRead
  <2> QED
    BY <1>2, <1>4, <2>1 DEF Contract!Answer
<1> QED
  BY <1>1, <1>5, <1>6, <1>7 DEF Right

\* Every call is a call of the contract or a stutter.
LEMMA StepImplements ==
  SessionInv /\ [SessionNext]_sessionVars => [Contract!Next]_(Contract!vars)
<1> DEFINE Goal == [Contract!Next]_(Contract!vars)
<1> SUFFICES ASSUME SessionInv, [SessionNext]_sessionVars PROVE Goal
  OBVIOUS
<1>1. ASSUME NEW l \in Lits, AddLiteral(l) PROVE Goal
  <2>1. Contract!NothingToRead
    BY <1>1, NothingRead DEF AddLiteral
  <2>2. Contract!AddLiteral
    BY <1>1, <2>1 DEF Contract!AddLiteral, AddLiteral, coreVars, Contract!Lits, Lits
  <2> QED
    BY <2>2 DEF Contract!Next
<1>2. CASE EndClause
  <2>1. Contract!NothingToRead
    BY <1>2, NothingRead DEF EndClause
  <2>2. Contract!CloseClause
    BY <1>2, <2>1 DEF Contract!CloseClause, EndClause, Contract!With, Contract!Proper, With, Proper
  <2> QED
    BY <2>2 DEF Contract!Next
<1>3. ASSUME NEW c \in Clauses, AddWholeClause(c) PROVE Goal
  <2>1. Contract!NothingToRead
    BY <1>3, NothingRead DEF AddWholeClause
  <2>2. c \in SUBSET Contract!Lits
    BY SessionCallers DEF Contract!Lits, Lits
  <2>3. stated' = Contract!With(Contract!Closed, c) /\ pending' = {} /\ assumptions' = assumptions
    BY <1>3 DEF AddWholeClause, FlushedStated, With, Proper, Contract!With, Contract!Closed,
                Contract!Proper
  <2>4. Contract!AddClause
    BY <2>1, <2>2, <2>3 DEF Contract!AddClause
  <2> QED
    BY <2>4 DEF Contract!Next
<1>4. ASSUME NEW l \in Assumables, Assume(l) PROVE Goal
  <2>1. Contract!NothingToRead
    BY <1>4, NothingRead DEF Assume
  <2>2. Contract!Assume
    BY <1>4, <2>1, SessionCallers DEF Contract!Assume, Assume, coreVars, Contract!Lits, Lits
  <2> QED
    BY <2>2 DEF Contract!Next
<1>5. CASE ReleaseAssumptions
  <2>1. /\ \A v \in Vars : IpasirVal(v)' = IpasirVal(v)
        /\ \A l \in Lits : IpasirFailed(l)' = IpasirFailed(l)
    BY <1>5 DEF ReleaseAssumptions, answerVars, IpasirVal, IpasirFailed, Known, Failed
  <2>2. Contract!Release
    BY <1>5, <2>1 DEF Contract!Release, ReleaseAssumptions, coreVars, IpasirVerdict
  <2> QED
    BY <2>2 DEF Contract!Next
<1>6. CASE ResetSession
  <2>1. Contract!NothingToRead
    BY <1>6, NothingRead DEF ResetSession
  <2>2. Contract!Reset
    BY <1>6, <2>1 DEF Contract!Reset, ResetSession
  <2> QED
    BY <2>2 DEF Contract!Next
<1>7. CASE SolveTerminated
  <2>1. Contract!NothingToRead
    BY <1>7, NothingRead DEF SolveTerminated
  <2>2. Contract!Interrupt
    BY <1>7, <2>1 DEF Contract!Interrupt, SolveTerminated, FlushedStated, With, Proper,
                      Contract!Closed, Contract!With, Contract!Proper
  <2> QED
    BY <2>2 DEF Contract!Next
<1>8. ASSUME NEW request \in Requests, NEW lemmas, Solve(request, lemmas) PROVE Goal
  BY <1>8, SolveIsAnswer DEF Contract!Next
<1>9. CASE UNCHANGED <<stated, pending, assumptions, state, lookup, failedCore>>
  BY <1>9, ContractStutters
<1>10. \/ UNCHANGED <<stated, pending, assumptions, state, lookup, failedCore>>
       \/ \E l \in Lits : AddLiteral(l)
       \/ EndClause
       \/ \E c \in Clauses : AddWholeClause(c)
       \/ \E l \in Assumables : Assume(l)
       \/ ReleaseAssumptions \/ ResetSession \/ SolveTerminated
       \/ \E request \in Requests, lemmas \in {<<>>} \cup {<<c>> : c \in Lemmas} :
            Solve(request, lemmas)
  BY DEF SessionNext, sessionVars, coreVars, inputVars, answerVars, SetOption, SetConfiguration,
         ClearPersistedConfiguration, AttachProofSink, SetTerminate, SetLearn
<1> HIDE DEF Goal
<1> QED
  BY <1>1, <1>2, <1>3, <1>4, <1>5, <1>6, <1>7, <1>8, <1>9, <1>10

\* A session, used through the facade or through IPASIR, implements what a
\* caller is promised: an answer is right about the formula and the assumptions
\* of its own call, is there until the next edit, and uses the assumptions up,
\* while an interrupted call keeps them (solver::solve, c_api_adapter).
THEOREM SessionImplements == SessionSpec => ImplementsContract
<1>1. SessionInit => Contract!Init
  <2>1. SessionInit => \A v \in Vars : IpasirVal(v) = 0
    BY DEF SessionInit, IpasirVal, Known, Vars
  <2> QED
    BY <2>1 DEF SessionInit, Contract!Init, IpasirVerdict
<1>2. SessionInv /\ [SessionNext]_sessionVars => [Contract!Next]_(Contract!vars)
  BY StepImplements
<1> QED
  BY <1>1, <1>2, SessionInductive, PTL DEF SessionSpec, ImplementsContract, Contract!Spec
=============================================================================
