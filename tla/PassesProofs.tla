---------------------------- MODULE PassesProofs ----------------------------
(*****************************************************************************)
(* The passes and the search lose no solution and invent none, and no pair   *)
(* of clauses that counts as compared is owed a comparison: for every        *)
(* session, every number of variables, of clauses learned and of epochs.     *)
(*****************************************************************************)
EXTENDS Passes, SequenceTheorems, FiniteSetTheorems, FunctionTheorems, Iterations, TLAPS

-----------------------------------------------------------------------------
(* The inductive invariant                                                 *)

PassNames == Range(InitialPasses)
Stages == PassNames \cup {"stating", "between", "searching"}
Records == [kind : {"bve", "factor"}, var : 1..MaxVariable, witness : SUBSET SUBSET Literals]
Eliminations == {r \in Range(extension) : r.kind = "bve"}

Distinct(s) == \A i, j \in DOMAIN s : s[i] = s[j] => i = j

\* The lists name clauses, each once; flags are on during a pass only.
ListsShape ==
  /\ lits \in Seq(Clauses)
  /\ irredundant \in Seq(DOMAIN lits) /\ redundant \in Seq(DOMAIN lits)
  /\ Distinct(irredundant) /\ Distinct(redundant)
  /\ Range(irredundant) \cap Range(redundant) = {}
  /\ garbage \subseteq DOMAIN lits
  /\ stage \in {"stating", "between", "probing", "searching"} => garbage = {}

\* Every variable is one the caller stated or one factoring introduced.
Scope == Vars(stated) \cup Internal

CallerShape ==
  /\ session \in Sessions /\ episode \in 0..Len(session.episodes)
  /\ stated \subseteq Clauses
  /\ stage \in Stages
  /\ stage = "between" => pipeline = "initial"
  /\ episode = 0 => lits = <<>> /\ extension = <<>> /\ stage = "stating"
  /\ extension \in Seq(Records)
  /\ Vars(Live) \subseteq Scope

\* Elimination runs before anything was learned, and not on what is assumed.
EliminationShape ==
  /\ Eliminations # {} => session.eliminate
  /\ \A r \in Eliminations : \A a \in Assumed : Var(a) # r.var
  /\ session.eliminate /\ pipeline = "initial" /\ stage \notin {"stating", "searching"} => redundant = <<>>

\* The turn of the pipeline; every variable in use has been counted when
\* factoring numbers a fresh one.
TurnShape ==
  /\ stage = "between" => work \in [pass : {"none"}, next : Nat \ {0}]
  /\ stage \in PassNames /\ pipeline = "initial" =>
        work.next \in DOMAIN InitialPasses /\ InitialPasses[work.next] = stage
  /\ stage \in PassNames /\ pipeline # "initial" => stage = "forward_subsumer"
  /\ \/ stage \in PassNames \ {"factorizer"} /\ pipeline = "initial"
     \/ stage = "between" /\ work.next \in DOMAIN InitialPasses
     => Vars(Live) \subseteq 1..highestStated
  /\ highestStated \in Nat

ReducerShape ==
  stage = "transitive_reducer" =>
    /\ work \in [pass : {"transitive_reducer"}, edges : Seq(DOMAIN lits), at : Nat, removed : SUBSET Nat, next : Nat \ {0}]
    /\ Distinct(work.edges) /\ Range(work.edges) \subseteq Range(Listed)
    /\ \A r \in Range(work.edges) : Cardinality(lits[r]) = 2
    /\ work.removed \subseteq DOMAIN work.edges
    /\ garbage = {work.edges[j] : j \in work.removed}

\* A clause is as it was collected or has become a unit; what is queued is one.
ProbingPassShape ==
  stage = "probing" =>
    /\ work \in [pass : {"probing"}, refs : Seq(DOMAIN lits), text : Seq(Clauses), queue : Seq(Literals), head : Nat,
                 candidates : Seq(Literals), next : Nat \ {0}]
    /\ Range(work.refs) = Range(Listed)
    /\ Len(work.text) = Len(lits)
    /\ \A r \in DOMAIN lits : lits[r] = work.text[r] \/ \E l \in work.text[r] : lits[r] = {l}
    /\ \A l \in Range(work.queue) \cup Range(work.candidates) : {l} \in Live

SubsumerShape ==
  stage = "forward_subsumer" =>
    /\ work \in [pass : {"forward_subsumer"}, order : Seq(DOMAIN lits), text : Seq(Clauses), stated : Nat, at : Nat \ {0},
                 step : {"subsume", "next", "pivots"}, todo : SUBSET Literals, next : Nat]
    /\ Distinct(work.order)
    /\ Range(work.order) = Range(Listed)
    /\ Len(work.text) = Len(lits)
    /\ \A r \in DOMAIN lits : lits[r] \subseteq work.text[r]
    /\ work.stated <= Len(work.order)
    /\ work.step = "pivots" => work.at \in DOMAIN work.order /\ Active(work.at) /\ work.todo \subseteq Text(work.at)

EliminatorShape ==
  stage = "bounded" =>
    /\ work \in [pass : {"bounded"}, registered : Seq(DOMAIN lits), at : Nat \ {0}, next : Nat \ {0}]
    /\ Range(work.registered) = Range(irredundant)
    /\ session.eliminate /\ pipeline = "initial"

FactorizerShape ==
  stage = "factorizer" =>
    /\ work \in [pass : {"factorizer"}, index : Seq(DOMAIN lits), highest : Nat, next : Nat \ {0}]
    /\ Range(work.index) \subseteq Range(irredundant)
    /\ Vars(Live) \subseteq 1..work.highest

PassShape == ReducerShape /\ ProbingPassShape /\ SubsumerShape /\ EliminatorShape /\ FactorizerShape
PassesShape == ListsShape /\ CallerShape /\ EliminationShape /\ TurnShape /\ PassShape

\* What no reduction forgets: the irredundant clauses, and the learned ones of
\* one or two literals.
KeptRefs == {r \in Alive : r \in Range(irredundant) \/ Cardinality(lits[r]) <= 2}
Kept == {lits[r] : r \in KeptRefs}
Satisfies(m, clauses) == \A c \in clauses : Holds(m, c)

\* An assignment of every variable that satisfies what is never forgotten is
\* replayed into one that satisfies what was stated.
ComesBack(vars, m) ==
  Scope \subseteq vars /\ Satisfies(m, Kept) => Satisfies(Undone(m), stated)

\* A model of what was stated, completed, satisfies all there is.
CarriesOver(vars, m) ==
  Vars(stated) \subseteq vars /\ Satisfies(m, stated) => Satisfies(Completed(m), Live)

AllComeBack ==
  \A vars \in SUBSET (1..MaxVariable) : \A m \in [vars -> BOOLEAN] : ComesBack(vars, m)

AllCarryOver ==
  Vars(stated) \cap Internal = {} =>
    \A vars \in SUBSET (1..MaxVariable) : \A m \in [vars -> BOOLEAN] : CarriesOver(vars, m)

PassesInv == PassesShape /\ AllComeBack /\ AllCarryOver

-----------------------------------------------------------------------------
(* Sequences                                                               *)

\* A sequence of members of a set.
LEMMA SeqGrows ==
  ASSUME NEW S, NEW T, S \subseteq T, NEW s \in Seq(S)
  PROVE  s \in Seq(T)
OBVIOUS

\* What a longer sequence holds.
LEMMA AppendHolds ==
  ASSUME NEW T, NEW s \in Seq(T), NEW e \in T
  PROVE  /\ Append(s, e) \in Seq(T) /\ Range(Append(s, e)) = Range(s) \cup {e}
         /\ Distinct(s) /\ e \notin Range(s) => Distinct(Append(s, e))
<1>1. /\ Append(s, e) \in Seq(T) /\ DOMAIN Append(s, e) = 1..(Len(s) + 1) /\ DOMAIN s = 1..Len(s) /\ Len(s) \in Nat
      /\ Append(s, e)[Len(s) + 1] = e /\ \A i \in 1..Len(s) : Append(s, e)[i] = s[i]
  OBVIOUS
<1>2. Range(Append(s, e)) = Range(s) \cup {e}
  <2>1. ASSUME NEW x \in Range(s) \cup {e} PROVE x \in Range(Append(s, e))
    <3>1. CASE x = e
      BY <1>1, <3>1 DEF Range
    <3>2. CASE x # e
      <4>1. PICK i \in 1..Len(s) : s[i] = x
        BY <1>1, <2>1, <3>2 DEF Range
      <4>2. i \in 1..(Len(s) + 1) /\ Append(s, e)[i] = x
        BY <1>1, <4>1
      <4> QED
        BY <1>1, <4>2 DEF Range
    <3> QED
      BY <3>1, <3>2
  <2>2. ASSUME NEW x \in Range(Append(s, e)) PROVE x \in Range(s) \cup {e}
    <3>1. PICK i \in 1..(Len(s) + 1) : Append(s, e)[i] = x
      BY <1>1, <2>2 DEF Range
    <3>2. CASE i = Len(s) + 1
      BY <1>1, <3>1, <3>2
    <3>3. CASE i # Len(s) + 1
      <4>1. i \in 1..Len(s)
        BY <1>1, <3>3
      <4> QED
        BY <1>1, <3>1, <4>1 DEF Range
    <3> QED
      BY <3>2, <3>3
  <2> QED
    BY <2>1, <2>2
<1>3. ASSUME Distinct(s), e \notin Range(s) PROVE Distinct(Append(s, e))
  <2> DEFINE t == Append(s, e)
  <2>1. ASSUME NEW i \in 1..(Len(s) + 1), NEW j \in 1..(Len(s) + 1), t[i] = t[j] PROVE i = j
    <3>1. CASE i \in 1..Len(s) /\ j \in 1..Len(s)
      BY <1>1, <1>3, <2>1, <3>1 DEF Distinct
    <3>2. \A k \in 1..Len(s) : t[k] # e
      BY <1>1, <1>3 DEF Range
    <3>3. CASE i \notin 1..Len(s) \/ j \notin 1..Len(s)
      <4>1. i = Len(s) + 1 \/ j = Len(s) + 1
        BY <1>1, <3>3
      <4>2. t[i] = e /\ t[j] = e
        BY <1>1, <2>1, <4>1
      <4>3. i \notin 1..Len(s) /\ j \notin 1..Len(s)
        BY <3>2, <4>2
      <4> QED
        BY <1>1, <4>3
    <3> QED
      BY <3>1, <3>3
  <2> QED
    BY <1>1, <2>1 DEF Distinct
<1> QED
  BY <1>1, <1>2, <1>3

LEMMA ConcatHolds ==
  ASSUME NEW T, NEW s \in Seq(T), NEW t \in Seq(T)
  PROVE  /\ s \o t \in Seq(T) /\ Range(s \o t) = Range(s) \cup Range(t)
         /\ Distinct(s) /\ Distinct(t) /\ Range(s) \cap Range(t) = {} => Distinct(s \o t)
<1> DEFINE u == s \o t
<1>1. /\ u \in Seq(T) /\ DOMAIN u = 1..(Len(s) + Len(t))
      /\ Len(s) \in Nat /\ DOMAIN s = 1..Len(s) /\ Len(t) \in Nat /\ DOMAIN t = 1..Len(t)
      /\ \A i \in 1..Len(s) : u[i] = s[i]
      /\ \A i \in 1..(Len(s) + Len(t)) : i > Len(s) => u[i] = t[i - Len(s)]
  OBVIOUS
<1> HIDE DEF u
<1>2. \A j \in 1..Len(t) : j + Len(s) \in 1..(Len(s) + Len(t)) /\ u[j + Len(s)] = t[j]
  <2>1. ASSUME NEW j \in 1..Len(t)
        PROVE  j + Len(s) \in 1..(Len(s) + Len(t)) /\ j + Len(s) > Len(s) /\ (j + Len(s)) - Len(s) = j
    BY <1>1
  <2> QED
    BY <1>1, <2>1
<1>3. \A i \in 1..(Len(s) + Len(t)) : i \in 1..Len(s) \/ (i > Len(s) /\ i - Len(s) \in 1..Len(t))
  BY <1>1
<1>4. Range(u) = Range(s) \cup Range(t)
  <2>1. ASSUME NEW x \in Range(u) PROVE x \in Range(s) \cup Range(t)
    <3>1. PICK i \in 1..(Len(s) + Len(t)) : u[i] = x
      BY <1>1, <2>1 DEF Range
    <3>2. CASE i \in 1..Len(s)
      BY <1>1, <3>1, <3>2 DEF Range
    <3>3. CASE i > Len(s) /\ i - Len(s) \in 1..Len(t)
      BY <1>1, <3>1, <3>3 DEF Range
    <3> QED
      BY <1>3, <3>2, <3>3
  <2>2. ASSUME NEW x \in Range(s) PROVE x \in Range(u)
    <3>1. PICK i \in 1..Len(s) : s[i] = x
      BY <1>1 DEF Range
    <3>2. i \in 1..(Len(s) + Len(t)) /\ u[i] = x
      BY <1>1, <3>1
    <3> QED
      BY <1>1, <3>2 DEF Range
  <2>3. ASSUME NEW x \in Range(t) PROVE x \in Range(u)
    <3>1. PICK j \in 1..Len(t) : t[j] = x
      BY <1>1 DEF Range
    <3> QED
      BY <1>1, <1>2, <3>1 DEF Range
  <2> QED
    BY <2>1, <2>2, <2>3
<1>5. ASSUME Distinct(s), Distinct(t), Range(s) \cap Range(t) = {} PROVE Distinct(u)
  <2>1. ASSUME NEW i \in 1..(Len(s) + Len(t)), NEW j \in 1..(Len(s) + Len(t)), u[i] = u[j] PROVE i = j
    <3>1. CASE i \in 1..Len(s) /\ j \in 1..Len(s)
      BY <1>1, <1>5, <2>1, <3>1 DEF Distinct
    <3>2. CASE i > Len(s) /\ i - Len(s) \in 1..Len(t) /\ j > Len(s) /\ j - Len(s) \in 1..Len(t)
      <4>1. t[i - Len(s)] = t[j - Len(s)]
        BY <1>1, <2>1, <3>2
      <4>2. i - Len(s) = j - Len(s)
        BY <1>1, <1>5, <3>2, <4>1 DEF Distinct
      <4> QED
        BY <1>1, <4>2
    <3>3. ASSUME NEW k \in 1..Len(s), NEW l \in 1..(Len(s) + Len(t)), l > Len(s), l - Len(s) \in 1..Len(t)
          PROVE  u[k] # u[l]
      <4>1. u[k] \in Range(s) /\ u[l] \in Range(t)
        BY <1>1, <3>3 DEF Range
      <4> QED
        BY <1>5, <4>1
    <3> QED
      BY <1>3, <2>1, <3>1, <3>2, <3>3
  <2> QED
    BY <1>1, <2>1 DEF Distinct
<1> QED
  BY <1>1, <1>4, <1>5 DEF u

-----------------------------------------------------------------------------
(* What Keeping and SetToSeq return                                        *)

\* The loop of Keeping, round by round.
LEMMA KeepingUnfolds ==
  ASSUME NEW T, NEW s \in Seq(T), NEW wanted
  PROVE  \E f \in [0..Len(s) -> Seq(T)] :
            /\ f[0] = <<>> /\ Keeping(s, wanted) = f[Len(s)]
            /\ \A k \in 1..Len(s) : f[k] = IF s[k] \in wanted THEN Append(f[k - 1], s[k]) ELSE f[k - 1]
<1> DEFINE N == Len(s)
           Round(q, k) == IF s[k] \in wanted THEN Append(q, s[k]) ELSE q
           next == [p \in Seq(T) \X (1..N) |-> Round(p[1], p[2])]
           Loop(f) == f = [n \in 0..N |-> IF n = 0 THEN <<>> ELSE Round(f[n - 1], n)]
<1>1. N \in Nat /\ <<>> \in Seq(T) /\ \A k \in 1..N : s[k] \in T
  OBVIOUS
<1>2. next \in [Seq(T) \X (1..N) -> Seq(T)]
  <2>1. ASSUME NEW p \in Seq(T) \X (1..N) PROVE Round(p[1], p[2]) \in Seq(T)
    BY <1>1
  <2> QED
    BY <2>1
<1>3. \A q \in Seq(T), k \in 1..N : next[<<q, k>>] = Round(q, k)
  OBVIOUS
<1> HIDE DEF next
<1>4. PICK f \in [0..N -> Seq(T)] : f[0] = <<>> /\ \A k \in 1..N : f[k] = next[<<f[k - 1], k>>]
  <2> DEFINE start == <<>>
             S == Seq(T)
  <2>1. start \in S /\ next \in [S \X (1..N) -> S]
    BY <1>1, <1>2
  <2> HIDE DEF start, S, N
  <2>2. PICK f : Runs(f, N, S, start, next)
    BY <1>1, <2>1, Iteration
  <2> QED
    BY <2>2 DEF Runs, start, S
<1>5. \A k \in 1..N : f[k - 1] \in Seq(T) /\ f[k] = Round(f[k - 1], k)
  <2>1. ASSUME NEW k \in 1..N PROVE f[k - 1] \in Seq(T) /\ f[k] = Round(f[k - 1], k)
    <3>1. k - 1 \in 0..N
      BY <1>1
    <3>2. f[k - 1] \in Seq(T)
      BY <3>1
    <3> QED
      BY <1>3, <1>4, <3>2
  <2> QED
    BY <2>1
<1> HIDE DEF Round
<1>6. Loop(f)
  BY <1>1, <1>4, <1>5
<1>7. Loop(CHOOSE g : Loop(g))
  BY <1>6
<1> DEFINE g == CHOOSE h : Loop(h)
<1>8. Keeping(s, wanted) = g[N]
  BY DEF Keeping, Round
<1>9. g[N] = f[N]
  <2> HIDE DEF g
  <2>1. Loop(g)
    BY <1>7 DEF g
  <2>2. g[0] = f[0]
    BY <1>1, <1>4, <2>1
  <2>3. \A k \in 1..N : g[k] = Round(g[k - 1], k)
    BY <1>1, <2>1
  <2>4. \A k \in 1..N : g[k - 1] = f[k - 1] => g[k] = f[k]
    BY <1>5, <2>3
  <2>5. Alike(f, g, N)
    BY <2>2, <2>4 DEF Alike
  <2> HIDE DEF N, Loop
  <2> QED
    BY <1>1, <2>5, SameIteration
<1> HIDE DEF g, N
<1> QED
  BY <1>4, <1>5, <1>8, <1>9 DEF N, Round

\* Keeping gives what the sequence holds of the set, nothing twice.
LEMMA KeepingIs ==
  ASSUME NEW T, NEW s \in Seq(T), NEW wanted
  PROVE  /\ Keeping(s, wanted) \in Seq(T) /\ Range(Keeping(s, wanted)) = Range(s) \cap wanted
         /\ Distinct(s) => Distinct(Keeping(s, wanted))
<1> DEFINE N == Len(s)
<1>1. PICK f \in [0..N -> Seq(T)] :
            /\ f[0] = <<>> /\ Keeping(s, wanted) = f[N]
            /\ \A k \in 1..N : f[k] = IF s[k] \in wanted THEN Append(f[k - 1], s[k]) ELSE f[k - 1]
  BY KeepingUnfolds
<1>2. N \in Nat /\ DOMAIN s = 1..N /\ \A k \in 1..N : s[k] \in T
  OBVIOUS
<1> HIDE DEF N
<1> DEFINE Seen(n) == {s[i] : i \in 1..n}
           Good(n) == Range(f[n]) = Seen(n) \cap wanted /\ (Distinct(s) => Distinct(f[n]))
           P == {n \in Nat : n \in 0..N => Good(n)}
<1>3. 0 \in P
  BY <1>1 DEF Range, Distinct
<1>4. ASSUME NEW n \in Nat, n \in P PROVE n + 1 \in P
  <2>1. SUFFICES ASSUME n + 1 \in 0..N PROVE Good(n + 1)
    OBVIOUS
  <2>2. n \in 0..N /\ n + 1 \in 1..N /\ (n + 1) - 1 = n /\ f[n] \in Seq(T) /\ s[n + 1] \in T
    BY <1>2, <2>1
  <2>3. Good(n)
    BY <1>4, <2>2
  <2>4. f[n + 1] = IF s[n + 1] \in wanted THEN Append(f[n], s[n + 1]) ELSE f[n]
    BY <1>1, <2>2
  <2>5. Seen(n + 1) = Seen(n) \cup {s[n + 1]}
    <3>1. 1..(n + 1) = 1..n \cup {n + 1}
      BY <2>2
    <3> QED
      BY <3>1
  <2>6. Distinct(s) => s[n + 1] \notin Seen(n)
    <3>1. \A i \in 1..n : i \in 1..N /\ i # n + 1
      BY <1>2, <2>2
    <3> QED
      BY <1>2, <2>2, <3>1 DEF Distinct
  <2> HIDE DEF Seen
  <2>7. CASE s[n + 1] \in wanted
    <3>1. /\ Range(f[n + 1]) = Range(f[n]) \cup {s[n + 1]}
          /\ Distinct(f[n]) /\ s[n + 1] \notin Range(f[n]) => Distinct(f[n + 1])
      BY <2>2, <2>4, <2>7, AppendHolds
    <3> QED
      BY <2>3, <2>5, <2>6, <2>7, <3>1
  <2>8. CASE s[n + 1] \notin wanted
    BY <2>3, <2>4, <2>5, <2>8
  <2> QED
    BY <2>7, <2>8
<1>5. N \in P
  <2> HIDE DEF P
  <2> QED
    BY <1>2, <1>3, <1>4, CountingUp
<1>6. Good(N) /\ f[N] \in Seq(T)
  BY <1>2, <1>5
<1>7. Seen(N) = Range(s)
  BY <1>2 DEF Range
<1> QED
  BY <1>1, <1>6, <1>7

\* A finite set as a sequence.
LEMMA SetToSeqIs ==
  ASSUME NEW S, IsFiniteSet(S)
  PROVE  SetToSeq(S) \in Seq(S) /\ Range(SetToSeq(S)) = S
<1> DEFINE N == Cardinality(S)
           F == [1..N -> S]
           s == SetToSeq(S)
<1>1. N \in Nat /\ ExistsBijection(1..N, S)
  BY FS_CardinalityType
<1>2. PICK b \in F : IsInjective(b)
  BY <1>1 DEF ExistsBijection, Bijection, Injection, IsInjective
<1>3. s \in F /\ IsInjective(s)
  BY <1>2 DEF SetToSeq
<1> HIDE DEF s
<1>4. s \in Seq(S)
  BY <1>1, <1>3
<1>5. s \in Injection(1..N, S)
  BY <1>3 DEF Injection, IsInjective
<1>6. Cardinality(1..N) = N
  BY <1>1, FS_Interval
<1>7. s \in Surjection(1..N, S)
  BY <1>5, <1>6, FS_Injection
<1>8. Range(s) = S
  BY <1>3, <1>7 DEF Surjection, Range
<1> QED
  BY <1>4, <1>8 DEF s

-----------------------------------------------------------------------------
(* Assignments                                                             *)

Partial == UNION {[vars -> BOOLEAN] : vars \in SUBSET (1..MaxVariable)}

\* A literal and its negation are of one variable, the one or the other.
LEMMA LiteralIs ==
  ASSUME NEW l \in Literals
  PROVE  /\ -l \in Literals /\ -(-l) = l /\ -l # l /\ l \in Int /\ l # 0
         /\ Var(l) \in 1..MaxVariable /\ Var(-l) = Var(l)
         /\ \A k \in Literals : Var(k) = Var(l) => k = l \/ k = -l
BY SessionsAssumption DEF Literals, Var, SessionsAssumption

\* An assignment of its variable makes one of the two true.
LEMMA OneIsTrue ==
  ASSUME NEW vars, NEW m \in [vars -> BOOLEAN], NEW l \in Literals, Var(l) \in vars
  PROVE  True(m, -l) <=> ~True(m, l)
<1>1. -l \in Int /\ l \in Int /\ l # 0 /\ Var(-l) = Var(l)
  BY LiteralIs
<1>2. (-l > 0) <=> ~(l > 0)
  BY <1>1
<1>3. m[Var(l)] \in BOOLEAN /\ DOMAIN m = vars
  OBVIOUS
<1>4. True(m, l) <=> (m[Var(l)] <=> l > 0)
  BY <1>3 DEF True
<1>5. True(m, -l) <=> (m[Var(l)] <=> -l > 0)
  BY <1>1, <1>3 DEF True
<1> QED
  BY <1>2, <1>3, <1>4, <1>5

\* Two assignments that agree on a variable agree on its literals.
LEMMA TrueAgrees ==
  ASSUME NEW m, NEW n, NEW l, Var(l) \in DOMAIN m, Var(l) \in DOMAIN n, m[Var(l)] = n[Var(l)]
  PROVE  True(m, l) <=> True(n, l)
BY DEF True

LEMMA HoldsAgrees ==
  ASSUME NEW m, NEW n, NEW c,
         \A l \in c : Var(l) \in DOMAIN m /\ Var(l) \in DOMAIN n /\ m[Var(l)] = n[Var(l)]
  PROVE  Holds(m, c) <=> Holds(n, c)
BY TrueAgrees DEF Holds

\* The variables of a set of clauses.
LEMMA VarsHas ==
  ASSUME NEW clauses, NEW c \in clauses, NEW l \in c
  PROVE  Var(l) \in Vars(clauses)
BY DEF Vars

LEMMA VarsGrow ==
  ASSUME NEW few, NEW many, few \subseteq many
  PROVE  Vars(few) \subseteq Vars(many)
BY DEF Vars

LEMMA VarsUnion ==
  ASSUME NEW some, NEW others
  PROVE  Vars(some \cup others) = Vars(some) \cup Vars(others)
BY DEF Vars

LEMMA VarsBelow ==
  ASSUME NEW clauses \in SUBSET Clauses
  PROVE  Vars(clauses) \subseteq 1..MaxVariable
<1>1. ASSUME NEW c \in clauses, NEW l \in c PROVE Var(l) \in 1..MaxVariable
  <2>1. l \in Literals
    BY DEF Clauses
  <2> QED
    BY <2>1, LiteralIs
<1> QED
  BY <1>1 DEF Vars

LEMMA SetToIs ==
  ASSUME NEW vars, NEW m \in [vars -> BOOLEAN], NEW v, NEW b \in BOOLEAN
  PROVE  /\ SetTo(m, v, b) \in [vars \cup {v} -> BOOLEAN]
         /\ SetTo(m, v, b)[v] = b
         /\ \A u \in vars : u # v => SetTo(m, v, b)[u] = m[u]
BY DEF SetTo

-----------------------------------------------------------------------------
(* The replay of the extension stack, and the completion                   *)

Replay(ext, m) ==
  LET full[n \in 0..Len(ext)] ==
        IF n = 0 THEN m ELSE Replayed(full[n - 1], ext[Len(ext) - n + 1])
  IN full[Len(ext)]

Complete(ext, m) ==
  LET full[n \in 0..Len(ext)] == IF n = 0 THEN m ELSE Introduced(full[n - 1], ext[n])
  IN full[Len(ext)]

LEMMA UndoneIsReplay ==
  ASSUME NEW m
  PROVE  Undone(m) = Replay(extension, m)
BY DEF Undone, Replay

LEMMA CompletedIsComplete ==
  ASSUME NEW m
  PROVE  Completed(m) = Complete(extension, m)
BY DEF Completed, Complete

\* One record changes an eliminated variable and no other.
LEMMA ReplayedIs ==
  ASSUME NEW vars \in SUBSET (1..MaxVariable), NEW m \in [vars -> BOOLEAN], NEW record \in Records
  PROVE  \E wide \in SUBSET (1..MaxVariable) :
            /\ vars \subseteq wide /\ Replayed(m, record) \in [wide -> BOOLEAN]
            /\ \A u \in vars : (record.kind = "bve" => u # record.var) => Replayed(m, record)[u] = m[u]
<1>1. CASE record.kind = "bve"
  <2>1. record.var \in 1..MaxVariable
    BY DEF Records
  <2>2. PICK b \in BOOLEAN : Replayed(m, record) = SetTo(m, record.var, b)
    BY <1>1 DEF Replayed, Repaired
  <2> DEFINE v == record.var
             wide == vars \cup {v}
  <2>3. wide \in SUBSET (1..MaxVariable)
    BY <2>1
  <2> HIDE DEF v
  <2>4. SetTo(m, v, b) \in [wide -> BOOLEAN] /\ \A u \in vars : u # v => SetTo(m, v, b)[u] = m[u]
    BY DEF SetTo
  <2> HIDE DEF wide
  <2>5. vars \subseteq wide
    BY DEF wide
  <2> QED
    BY <1>1, <2>2, <2>3, <2>4, <2>5 DEF v
<1>2. CASE record.kind # "bve"
  BY <1>2 DEF Replayed
<1> QED
  BY <1>1, <1>2

\* One record changes an introduced variable and no other.
LEMMA IntroducedIs ==
  ASSUME NEW vars \in SUBSET (1..MaxVariable), NEW m \in [vars -> BOOLEAN], NEW record \in Records
  PROVE  \E wide \in SUBSET (1..MaxVariable) :
            /\ wide = vars \cup (IF record.kind = "factor" THEN {record.var} ELSE {})
            /\ Introduced(m, record) \in [wide -> BOOLEAN]
            /\ \A u \in vars : (record.kind = "factor" => u # record.var) => Introduced(m, record)[u] = m[u]
<1>1. CASE record.kind = "factor"
  <2>1. record.var \in 1..MaxVariable
    BY DEF Records
  <2>2. PICK b \in BOOLEAN : Introduced(m, record) = SetTo(m, record.var, b)
    BY <1>1 DEF Introduced
  <2> DEFINE v == record.var
             wide == vars \cup {v}
  <2>3. wide \in SUBSET (1..MaxVariable)
    BY <2>1
  <2> HIDE DEF v
  <2>4. SetTo(m, v, b) \in [wide -> BOOLEAN] /\ \A u \in vars : u # v => SetTo(m, v, b)[u] = m[u]
    BY DEF SetTo
  <2>5. wide = vars \cup (IF record.kind = "factor" THEN {record.var} ELSE {})
    BY <1>1 DEF v
  <2> HIDE DEF wide
  <2>6. vars \subseteq wide
    BY DEF wide
  <2> QED
    BY <1>1, <2>2, <2>3, <2>4, <2>5, <2>6 DEF v
<1>2. CASE record.kind # "factor"
  BY <1>2 DEF Introduced
<1> QED
  BY <1>1, <1>2

\* The rounds of the replay.
LEMMA ReplayUnfolds ==
  ASSUME NEW ext \in Seq(Records), NEW m \in Partial
  PROVE  \E f \in [0..Len(ext) -> Partial] :
            /\ f[0] = m /\ Replay(ext, m) = f[Len(ext)]
            /\ \A k \in 1..Len(ext) : f[k] = Replayed(f[k - 1], ext[Len(ext) - k + 1])
<1> DEFINE N == Len(ext)
           Round(q, k) == Replayed(q, ext[N - k + 1])
           next == [p \in Partial \X (1..N) |-> Round(p[1], p[2])]
           Loop(f) == f = [n \in 0..N |-> IF n = 0 THEN m ELSE Round(f[n - 1], n)]
<1>1. N \in Nat /\ \A k \in 1..N : N - k + 1 \in 1..N /\ ext[N - k + 1] \in Records
  <2>1. N \in Nat /\ \A k \in 1..N : ext[k] \in Records
    OBVIOUS
  <2>2. \A k \in 1..N : N - k + 1 \in 1..N
    BY <2>1
  <2> QED
    BY <2>1, <2>2
<1>2. \A q \in Partial, k \in 1..N : Round(q, k) \in Partial
  <2>1. ASSUME NEW q \in Partial, NEW k \in 1..N PROVE Round(q, k) \in Partial
    <3>1. PICK vars \in SUBSET (1..MaxVariable) : q \in [vars -> BOOLEAN]
      BY DEF Partial
    <3>2. ext[N - k + 1] \in Records
      BY <1>1
    <3> HIDE DEF N
    <3>3. \E wide \in SUBSET (1..MaxVariable) : Round(q, k) \in [wide -> BOOLEAN]
      BY <3>1, <3>2, ReplayedIs
    <3> QED
      BY <3>3 DEF Partial
  <2> QED
    BY <2>1
<1>3. next \in [Partial \X (1..N) -> Partial]
  BY <1>2
<1>4. \A q \in Partial, k \in 1..N : next[<<q, k>>] = Round(q, k)
  OBVIOUS
<1> HIDE DEF next
<1>5. PICK f : Runs(f, N, Partial, m, next)
  <2> HIDE DEF N
  <2> QED
    BY <1>1, <1>3, Iteration
<1>6. f \in [0..N -> Partial] /\ f[0] = m
  BY <1>5 DEF Runs
<1>7. \A k \in 1..N : f[k - 1] \in Partial /\ f[k] = Round(f[k - 1], k)
  <2>1. ASSUME NEW k \in 1..N PROVE f[k - 1] \in Partial /\ f[k] = Round(f[k - 1], k)
    <3>1. k - 1 \in 0..N
      BY <1>1
    <3>2. f[k - 1] \in Partial
      BY <1>6, <3>1
    <3> QED
      BY <1>4, <1>5, <3>2 DEF Runs
  <2> QED
    BY <2>1
<1> DEFINE g == CHOOSE h : Loop(h)
<1>8. Replay(ext, m) = g[N]
  BY DEF Replay
<1> HIDE DEF Round
<1>9. Loop(g)
  <2>1. Loop(f)
    BY <1>1, <1>6, <1>7
  <2> QED
    BY <2>1
<1>10. g[N] = f[N]
  <2> HIDE DEF g
  <2>1. g[0] = f[0]
    BY <1>1, <1>6, <1>9
  <2>2. \A k \in 1..N : g[k] = Round(g[k - 1], k)
    BY <1>1, <1>9
  <2>3. \A k \in 1..N : g[k - 1] = f[k - 1] => g[k] = f[k]
    BY <1>7, <2>2
  <2>4. Alike(f, g, N)
    BY <2>1, <2>3 DEF Alike
  <2> HIDE DEF N, Loop
  <2> QED
    BY <1>1, <2>4, SameIteration
<1> HIDE DEF g, N
<1> QED
  BY <1>6, <1>7, <1>8, <1>10 DEF N, Round

\* The rounds of the completion.
LEMMA CompleteUnfolds ==
  ASSUME NEW ext \in Seq(Records), NEW m \in Partial
  PROVE  \E f \in [0..Len(ext) -> Partial] :
            /\ f[0] = m /\ Complete(ext, m) = f[Len(ext)]
            /\ \A k \in 1..Len(ext) : f[k] = Introduced(f[k - 1], ext[k])
<1> DEFINE N == Len(ext)
           Round(q, k) == Introduced(q, ext[k])
           next == [p \in Partial \X (1..N) |-> Round(p[1], p[2])]
           Loop(f) == f = [n \in 0..N |-> IF n = 0 THEN m ELSE Round(f[n - 1], n)]
<1>1. N \in Nat /\ \A k \in 1..N : ext[k] \in Records
  OBVIOUS
<1>2. \A q \in Partial, k \in 1..N : Round(q, k) \in Partial
  <2>1. ASSUME NEW q \in Partial, NEW k \in 1..N PROVE Round(q, k) \in Partial
    <3>1. PICK vars \in SUBSET (1..MaxVariable) : q \in [vars -> BOOLEAN]
      BY DEF Partial
    <3>2. ext[k] \in Records
      BY <1>1
    <3>3. \E wide \in SUBSET (1..MaxVariable) : Round(q, k) \in [wide -> BOOLEAN]
      BY <3>1, <3>2, IntroducedIs
    <3> QED
      BY <3>3 DEF Partial
  <2> QED
    BY <2>1
<1>3. next \in [Partial \X (1..N) -> Partial]
  BY <1>2
<1>4. \A q \in Partial, k \in 1..N : next[<<q, k>>] = Round(q, k)
  OBVIOUS
<1> HIDE DEF next
<1>5. PICK f : Runs(f, N, Partial, m, next)
  <2> HIDE DEF N
  <2> QED
    BY <1>1, <1>3, Iteration
<1>6. f \in [0..N -> Partial] /\ f[0] = m
  BY <1>5 DEF Runs
<1>7. \A k \in 1..N : f[k - 1] \in Partial /\ f[k] = Round(f[k - 1], k)
  <2>1. ASSUME NEW k \in 1..N PROVE f[k - 1] \in Partial /\ f[k] = Round(f[k - 1], k)
    <3>1. k - 1 \in 0..N
      BY <1>1
    <3>2. f[k - 1] \in Partial
      BY <1>6, <3>1
    <3> QED
      BY <1>4, <1>5, <3>2 DEF Runs
  <2> QED
    BY <2>1
<1> DEFINE g == CHOOSE h : Loop(h)
<1>8. Complete(ext, m) = g[N]
  BY DEF Complete
<1> HIDE DEF Round
<1>9. Loop(g)
  <2>1. Loop(f)
    BY <1>1, <1>6, <1>7
  <2> QED
    BY <2>1
<1>10. g[N] = f[N]
  <2> HIDE DEF g
  <2>1. g[0] = f[0]
    BY <1>1, <1>6, <1>9
  <2>2. \A k \in 1..N : g[k] = Round(g[k - 1], k)
    BY <1>1, <1>9
  <2>3. \A k \in 1..N : g[k - 1] = f[k - 1] => g[k] = f[k]
    BY <1>7, <2>2
  <2>4. Alike(f, g, N)
    BY <2>1, <2>3 DEF Alike
  <2> HIDE DEF N, Loop
  <2> QED
    BY <1>1, <2>4, SameIteration
<1> HIDE DEF g, N
<1> QED
  BY <1>6, <1>7, <1>8, <1>10 DEF N, Round

\* A record put on the stack is replayed before the ones below it.
LEMMA ReplayAppend ==
  ASSUME NEW ext \in Seq(Records), NEW record \in Records, NEW m \in Partial
  PROVE  Replay(Append(ext, record), m) = Replay(ext, Replayed(m, record))
<1> DEFINE N == Len(ext)
           longer == Append(ext, record)
           first == Replayed(m, record)
<1>1. /\ N \in Nat /\ longer \in Seq(Records) /\ Len(longer) = N + 1
      /\ longer[N + 1] = record /\ \A k \in 1..N : longer[k] = ext[k]
  OBVIOUS
<1>2. first \in Partial
  <2>1. PICK vars \in SUBSET (1..MaxVariable) : m \in [vars -> BOOLEAN]
    BY DEF Partial
  <2>2. \E wide \in SUBSET (1..MaxVariable) : first \in [wide -> BOOLEAN]
    BY <2>1, ReplayedIs
  <2> QED
    BY <2>2 DEF Partial
<1> HIDE DEF first
<1>3. PICK g \in [0..N -> Partial] :
            /\ g[0] = first /\ Replay(ext, first) = g[N]
            /\ \A k \in 1..N : g[k] = Replayed(g[k - 1], ext[N - k + 1])
  BY <1>2, ReplayUnfolds
<1> HIDE DEF longer
<1>4. PICK f \in [0..Len(longer) -> Partial] :
            /\ f[0] = m /\ Replay(longer, m) = f[Len(longer)]
            /\ \A k \in 1..Len(longer) : f[k] = Replayed(f[k - 1], longer[Len(longer) - k + 1])
  BY <1>1, ReplayUnfolds
<1> HIDE DEF N
<1> DEFINE P == {n \in Nat : n \in 0..N => f[n + 1] = g[n]}
<1>5. 0 \in P
  <2>1. 1 \in 1..(N + 1) /\ 1 - 1 = 0 /\ (N + 1) - 1 + 1 = N + 1 /\ 0 + 1 = 1
    BY <1>1
  <2>2. f[1] = Replayed(f[0], longer[N + 1])
    BY <1>1, <1>4, <2>1
  <2> QED
    BY <1>1, <1>3, <1>4, <2>1, <2>2 DEF first
<1>6. ASSUME NEW n \in Nat, n \in P PROVE n + 1 \in P
  <2>1. SUFFICES ASSUME n + 1 \in 0..N PROVE f[(n + 1) + 1] = g[n + 1]
    OBVIOUS
  <2> DEFINE k == n + 1
             j == k + 1
  <2>2. /\ n \in 0..N /\ k \in 1..N /\ j \in 1..(N + 1) /\ j - 1 = k /\ k - 1 = n
        /\ (N + 1) - j + 1 = N - k + 1 /\ N - k + 1 \in 1..N
    BY <1>1, <2>1
  <2>3. f[k] = g[n]
    BY <1>6, <2>2
  <2> HIDE DEF j, k
  <2>4. f[j] = Replayed(f[k], longer[N - k + 1])
    <3>1. f[j] = Replayed(f[j - 1], longer[Len(longer) - j + 1])
      BY <1>1, <1>4, <2>2
    <3> QED
      BY <1>1, <2>2, <3>1
  <2>5. g[k] = Replayed(g[n], ext[N - k + 1])
    <3>1. g[k] = Replayed(g[k - 1], ext[N - k + 1])
      BY <1>3, <2>2
    <3> QED
      BY <2>2, <3>1
  <2>6. f[j] = g[k]
    BY <1>1, <2>2, <2>3, <2>4, <2>5
  <2> QED
    BY <2>6 DEF j, k
<1>7. N \in P
  <2> HIDE DEF P
  <2> QED
    BY <1>1, <1>5, <1>6, CountingUp
<1>8. f[N + 1] = g[N]
  BY <1>1, <1>7
<1> QED
  BY <1>1, <1>3, <1>4, <1>8 DEF longer, first

\* The replay keeps every variable, and the value of those not eliminated.
LEMMA ReplayIs ==
  ASSUME NEW ext \in Seq(Records), NEW vars \in SUBSET (1..MaxVariable), NEW m \in [vars -> BOOLEAN]
  PROVE  \E wide \in SUBSET (1..MaxVariable) :
            /\ vars \subseteq wide /\ Replay(ext, m) \in [wide -> BOOLEAN]
            /\ \A u \in vars : (\A r \in Range(ext) : r.kind = "bve" => r.var # u) => Replay(ext, m)[u] = m[u]
<1> DEFINE N == Len(ext)
           Spared == {u \in vars : \A r \in Range(ext) : r.kind = "bve" => r.var # u}
<1>0. m \in Partial
  BY DEF Partial
<1>1. PICK f \in [0..N -> Partial] :
            /\ f[0] = m /\ Replay(ext, m) = f[N]
            /\ \A k \in 1..N : f[k] = Replayed(f[k - 1], ext[N - k + 1])
  BY <1>0, ReplayUnfolds
<1>2. N \in Nat /\ \A k \in 1..N : N - k + 1 \in 1..N /\ ext[N - k + 1] \in Range(ext) /\ ext[N - k + 1] \in Records
  <2>1. N \in Nat /\ DOMAIN ext = 1..N /\ \A k \in 1..N : ext[k] \in Records
    OBVIOUS
  <2>2. \A k \in 1..N : N - k + 1 \in 1..N
    BY <2>1
  <2> QED
    BY <2>1, <2>2 DEF Range
<1> HIDE DEF N
<1> DEFINE Good(q) == \E wide \in SUBSET (1..MaxVariable) :
                        vars \subseteq wide /\ q \in [wide -> BOOLEAN] /\ \A u \in Spared : q[u] = m[u]
           P == {n \in Nat : n \in 0..N => Good(f[n])}
<1>3. 0 \in P
  BY <1>1
<1>4. ASSUME NEW n \in Nat, n \in P PROVE n + 1 \in P
  <2>1. SUFFICES ASSUME n + 1 \in 0..N PROVE Good(f[n + 1])
    OBVIOUS
  <2>2. n \in 0..N /\ n + 1 \in 1..N /\ (n + 1) - 1 = n
    BY <1>2, <2>1
  <2> DEFINE q == f[n]
             record == ext[N - (n + 1) + 1]
  <2>3. Good(q)
    BY <1>4, <2>2
  <2>4. f[n + 1] = Replayed(q, record) /\ record \in Range(ext) /\ record \in Records
    <3>1. f[n + 1] = Replayed(f[(n + 1) - 1], record)
      BY <1>1, <2>2
    <3> QED
      BY <1>2, <2>2, <3>1
  <2>5. PICK wide \in SUBSET (1..MaxVariable) :
                vars \subseteq wide /\ q \in [wide -> BOOLEAN] /\ \A u \in Spared : q[u] = m[u]
    BY <2>3
  <2> HIDE DEF q, record
  <2>6. PICK wider \in SUBSET (1..MaxVariable) :
            /\ wide \subseteq wider /\ Replayed(q, record) \in [wider -> BOOLEAN]
            /\ \A u \in wide : (record.kind = "bve" => u # record.var) => Replayed(q, record)[u] = q[u]
    BY <2>4, <2>5, ReplayedIs
  <2>7. \A u \in Spared : u \in wide /\ (record.kind = "bve" => u # record.var)
    BY <2>4, <2>5
  <2> HIDE DEF Spared
  <2>8. vars \subseteq wider /\ \A u \in Spared : Replayed(q, record)[u] = m[u]
    BY <2>5, <2>6, <2>7
  <2> QED
    BY <2>4, <2>6, <2>8
<1>5. N \in P
  <2> HIDE DEF P
  <2> QED
    BY <1>2, <1>3, <1>4, CountingUp
<1>6. Good(f[N])
  BY <1>2, <1>5
<1> QED
  BY <1>1, <1>6

IntroducedBy(ext) == {r.var : r \in {q \in Range(ext) : q.kind = "factor"}}

\* A completion gives a value to each introduced variable and changes no other.
LEMMA CompleteIs ==
  ASSUME NEW ext \in Seq(Records), NEW vars \in SUBSET (1..MaxVariable), NEW m \in [vars -> BOOLEAN]
  PROVE  /\ IntroducedBy(ext) \subseteq 1..MaxVariable
         /\ Complete(ext, m) \in [vars \cup IntroducedBy(ext) -> BOOLEAN]
         /\ \A u \in vars \ IntroducedBy(ext) : Complete(ext, m)[u] = m[u]
<1> DEFINE N == Len(ext)
           New(n) == {ext[i].var : i \in {k \in 1..n : ext[k].kind = "factor"}}
           Spared == vars \ IntroducedBy(ext)
<1>0. m \in Partial
  BY DEF Partial
<1>1. PICK f \in [0..N -> Partial] :
            /\ f[0] = m /\ Complete(ext, m) = f[N]
            /\ \A k \in 1..N : f[k] = Introduced(f[k - 1], ext[k])
  BY <1>0, CompleteUnfolds
<1>2. N \in Nat /\ DOMAIN ext = 1..N /\ \A k \in 1..N : ext[k] \in Records
  OBVIOUS
<1> HIDE DEF N
<1>3. IntroducedBy(ext) = New(N)
  BY <1>2 DEF IntroducedBy, Range
<1>4. New(N) \subseteq 1..MaxVariable
  BY <1>2 DEF Records
<1> DEFINE Good(q, n) == q \in [vars \cup New(n) -> BOOLEAN] /\ \A u \in Spared : q[u] = m[u]
           P == {n \in Nat : n \in 0..N => Good(f[n], n)}
<1>5. 0 \in P
  <2>1. New(0) = {}
    <3>1. 1..0 = {}
      OBVIOUS
    <3> QED
      BY <3>1
  <2>2. Good(m, 0)
    BY <2>1
  <2> QED
    BY <1>1, <2>2
<1>6. ASSUME NEW n \in Nat, n \in P PROVE n + 1 \in P
  <2> HIDE DEF Good
  <2>1. SUFFICES ASSUME n + 1 \in 0..N PROVE Good(f[n + 1], n + 1)
    OBVIOUS
  <2> USE DEF Good
  <2>2. n \in 0..N /\ n + 1 \in 1..N /\ (n + 1) - 1 = n
    BY <1>2, <2>1
  <2> DEFINE q == f[n]
             record == ext[n + 1]
  <2>3. Good(q, n)
    BY <1>6, <2>2
  <2>4. f[n + 1] = Introduced(q, record)
    <3>1. f[n + 1] = Introduced(f[(n + 1) - 1], record)
      BY <1>1, <2>2
    <3> QED
      BY <2>2, <3>1
  <2>5. record \in Records
    BY <1>2, <2>2
  <2>6. New(n + 1) = New(n) \cup (IF record.kind = "factor" THEN {record.var} ELSE {})
    <3>1. 1..(n + 1) = 1..n \cup {n + 1}
      BY <2>2
    <3> QED
      BY <3>1
  <2>7. record.kind = "factor" => record.var \in New(N)
    BY <2>2
  <2>8. New(n) \subseteq 1..MaxVariable
    <3>1. New(n) \subseteq New(N)
      BY <1>2, <2>2
    <3> QED
      BY <1>4, <3>1
  <2> DEFINE wide == vars \cup New(n)
  <2>9. wide \in SUBSET (1..MaxVariable)
    BY <2>8
  <2> HIDE DEF q, record, New
  <2>10. q \in [wide -> BOOLEAN] /\ Spared \subseteq wide
    BY <2>3
  <2> HIDE DEF wide
  <2>11. /\ Introduced(q, record) \in [wide \cup (IF record.kind = "factor" THEN {record.var} ELSE {}) -> BOOLEAN]
         /\ \A u \in wide : (record.kind = "factor" => u # record.var) => Introduced(q, record)[u] = q[u]
    BY <2>5, <2>9, <2>10, IntroducedIs
  <2>12. \A u \in Spared : u \in wide /\ (record.kind = "factor" => u # record.var)
    BY <1>3, <2>7, <2>10
  <2>13. wide \cup (IF record.kind = "factor" THEN {record.var} ELSE {}) = vars \cup New(n + 1)
    BY <2>6 DEF wide
  <2>14. Introduced(q, record) \in [vars \cup New(n + 1) -> BOOLEAN]
    BY <2>11, <2>13
  <2>15. \A u \in Spared : Introduced(q, record)[u] = m[u]
    BY <2>3, <2>11, <2>12
  <2> QED
    BY <2>4, <2>14, <2>15
<1>7. N \in P
  <2> HIDE DEF P
  <2> QED
    BY <1>2, <1>5, <1>6, CountingUp
<1>8. Good(f[N], N)
  BY <1>2, <1>7
<1> HIDE DEF New
<1> QED
  BY <1>1, <1>3, <1>4, <1>8

\* A variable introduced last is completed last.
LEMMA CompleteAppend ==
  ASSUME NEW ext \in Seq(Records), NEW record \in Records, NEW m \in Partial
  PROVE  Complete(Append(ext, record), m) = Introduced(Complete(ext, m), record)
<1> DEFINE N == Len(ext)
           longer == Append(ext, record)
<1>1. /\ N \in Nat /\ longer \in Seq(Records) /\ Len(longer) = N + 1
      /\ longer[N + 1] = record /\ \A k \in 1..N : longer[k] = ext[k]
  OBVIOUS
<1>2. PICK g \in [0..N -> Partial] :
            /\ g[0] = m /\ Complete(ext, m) = g[N]
            /\ \A k \in 1..N : g[k] = Introduced(g[k - 1], ext[k])
  BY CompleteUnfolds
<1> HIDE DEF longer
<1>3. PICK f \in [0..Len(longer) -> Partial] :
            /\ f[0] = m /\ Complete(longer, m) = f[Len(longer)]
            /\ \A k \in 1..Len(longer) : f[k] = Introduced(f[k - 1], longer[k])
  BY <1>1, CompleteUnfolds
<1> HIDE DEF N
<1> DEFINE P == {n \in Nat : n \in 0..N => f[n] = g[n]}
<1>4. 0 \in P
  BY <1>2, <1>3
<1>5. ASSUME NEW n \in Nat, n \in P PROVE n + 1 \in P
  <2>1. SUFFICES ASSUME n + 1 \in 0..N PROVE f[n + 1] = g[n + 1]
    OBVIOUS
  <2>2. n \in 0..N /\ n + 1 \in 1..N /\ n + 1 \in 1..(N + 1) /\ (n + 1) - 1 = n
    BY <1>1, <2>1
  <2>3. f[n] = g[n]
    BY <1>5, <2>2
  <2>4. f[n + 1] = Introduced(f[(n + 1) - 1], longer[n + 1])
    BY <1>1, <1>3, <2>2
  <2>5. g[n + 1] = Introduced(g[(n + 1) - 1], ext[n + 1])
    BY <1>2, <2>2
  <2> QED
    BY <1>1, <2>2, <2>3, <2>4, <2>5
<1>6. N \in P
  <2> HIDE DEF P
  <2> QED
    BY <1>1, <1>4, <1>5, CountingUp
<1>7. f[N] = g[N]
  BY <1>1, <1>6
<1>8. f[N + 1] = Introduced(f[N], record)
  <2>1. N + 1 \in 1..(N + 1) /\ (N + 1) - 1 = N
    BY <1>1
  <2>2. f[N + 1] = Introduced(f[(N + 1) - 1], longer[N + 1])
    BY <1>1, <1>3, <2>1
  <2> QED
    BY <1>1, <2>1, <2>2
<1> QED
  BY <1>1, <1>2, <1>3, <1>7, <1>8 DEF longer

-----------------------------------------------------------------------------
(* The lists                                                               *)

LEMMA ListedIs ==
  ASSUME ListsShape
  PROVE  /\ Listed \in Seq(DOMAIN lits) /\ Distinct(Listed)
         /\ Range(Listed) = Range(irredundant) \cup Range(redundant)
         /\ Range(irredundant) \subseteq DOMAIN lits /\ Range(redundant) \subseteq DOMAIN lits
         /\ Alive \subseteq DOMAIN lits /\ \A r \in DOMAIN lits : lits[r] \in Clauses
         /\ Live \subseteq Clauses /\ Kept \subseteq Live
<1>1. irredundant \in Seq(DOMAIN lits) /\ redundant \in Seq(DOMAIN lits)
  BY DEF ListsShape
<1>2. /\ Listed \in Seq(DOMAIN lits)
      /\ Range(Listed) = Range(irredundant) \cup Range(redundant) /\ Distinct(Listed)
  <2> DEFINE D == DOMAIN lits
  <2>1. irredundant \in Seq(D) /\ redundant \in Seq(D)
    BY <1>1
  <2> HIDE DEF D
  <2>2. /\ Listed \in Seq(D)
        /\ Range(Listed) = Range(irredundant) \cup Range(redundant) /\ Distinct(Listed)
    BY <2>1, ConcatHolds DEF ListsShape, Listed
  <2> QED
    BY <2>2 DEF D
<1>3. Range(irredundant) \subseteq DOMAIN lits /\ Range(redundant) \subseteq DOMAIN lits
  <2>1. \A T : \A s \in Seq(T) : Range(s) \subseteq T
    BY DEF Range
  <2> QED
    BY <1>1, <2>1
<1>4. \A r \in DOMAIN lits : lits[r] \in Clauses
  <2>1. lits \in Seq(Clauses)
    BY DEF ListsShape
  <2> QED
    BY <2>1
<1>5. Alive \subseteq DOMAIN lits
  BY <1>2, <1>3 DEF Alive
<1>6. Live \subseteq Clauses /\ Kept \subseteq Live
  BY <1>4, <1>5 DEF Live, Kept, KeptRefs
<1> QED
  BY <1>2, <1>3, <1>4, <1>5, <1>6

\* What is left when clauses leave the lists, under new numbers.
LEMMA DropIs ==
  ASSUME ListsShape, NEW gone, garbage \subseteq gone, Drop(gone), garbage' = {}
  PROVE  /\ ListsShape'
         /\ Live' = {lits[r] : r \in Range(Listed) \ gone}
         /\ Kept' = {lits[r] : r \in {q \in Range(Listed) \ gone : q \in Range(irredundant) \/ Cardinality(lits[q]) <= 2}}
         /\ redundant = <<>> => redundant' = <<>>
<1> DEFINE D == DOMAIN lits
           I == Range(irredundant) \ gone
           R == Range(redundant) \ gone
           first == Keeping(irredundant, I)
           second == Keeping(redundant, R)
           both == first \o second
           F == Len(first)
           B == Len(both)
<1>1. irredundant \in Seq(D) /\ redundant \in Seq(D) /\ lits \in Seq(Clauses)
  BY DEF ListsShape
<1>2. /\ lits' = [k \in DOMAIN both |-> lits[both[k]]]
      /\ irredundant' = [k \in DOMAIN first |-> k]
      /\ redundant' = [k \in 1..(B - F) |-> F + k]
  BY DEF Drop
<1> HIDE DEF D
<1>3. first \in Seq(D) /\ Range(first) = I
  BY <1>1, KeepingIs
<1>4. second \in Seq(D) /\ Range(second) = R
  BY <1>1, KeepingIs
<1> HIDE DEF first, second
<1>5. /\ F \in Nat /\ Len(second) \in Nat /\ B = F + Len(second) /\ both \in Seq(D)
      /\ DOMAIN both = 1..B /\ DOMAIN first = 1..F /\ DOMAIN second = 1..(B - F)
      /\ \A k \in 1..F : both[k] = first[k]
      /\ \A k \in 1..B : k > F => both[k] = second[k - F]
  BY <1>3, <1>4
<1> HIDE DEF both
<1>6. \A k \in 1..(B - F) : F + k \in 1..B /\ F + k > F /\ (F + k) - F = k
  BY <1>5
<1>7. \A k \in 1..F : k \in 1..B
  BY <1>5
<1>8. B - F \in Nat
  BY <1>5
<1> HIDE DEF F, B
<1>9. \A k \in 1..B : both[k] \in D /\ lits[both[k]] \in Clauses
  BY <1>1, <1>5 DEF D
<1>10. B \in Nat
  BY <1>5 DEF B
<1>11. lits' \in Seq(Clauses) /\ DOMAIN lits' = 1..B
  BY <1>2, <1>5, <1>9, <1>10
<1>12. irredundant' \in Seq(1..B) /\ Range(irredundant') = 1..F /\ Distinct(irredundant')
  BY <1>2, <1>5, <1>7 DEF Range, Distinct
<1>13. redundant' \in Seq(1..B) /\ Range(redundant') = {F + k : k \in 1..(B - F)} /\ Distinct(redundant')
  <2>1. redundant' \in Seq(1..B) /\ Range(redundant') = {F + k : k \in 1..(B - F)}
    <3>1. redundant' \in [1..(B - F) -> 1..B] /\ DOMAIN redundant' = 1..(B - F)
      BY <1>2, <1>6
    <3>2. redundant' \in Seq(1..B)
      <4> DEFINE n == B - F
                 T == 1..B
                 t == redundant'
      <4>1. n \in Nat /\ t \in [1..n -> T]
        BY <1>8, <3>1
      <4> HIDE DEF n, T, t
      <4>2. t \in Seq(T)
        BY <4>1
      <4> QED
        BY <4>2 DEF T, t
    <3>3. \A k \in 1..(B - F) : redundant'[k] = F + k
      BY <1>2
    <3> QED
      BY <3>1, <3>2, <3>3 DEF Range
  <2>2. \A i, j \in 1..(B - F) : F + i = F + j => i = j
    BY <1>5
  <2> QED
    BY <1>2, <2>1, <2>2 DEF Distinct
<1>14. Range(irredundant') \cap Range(redundant') = {}
  BY <1>5, <1>6, <1>12, <1>13
<1>15. ListsShape'
  BY <1>11, <1>12, <1>13, <1>14 DEF ListsShape
<1>16. \A k \in 1..F : both[k] \in I /\ lits'[k] = lits[both[k]]
  BY <1>2, <1>3, <1>5, <1>7 DEF Range
<1>17. \A k \in 1..(B - F) : both[F + k] \in R /\ lits'[F + k] = lits[both[F + k]]
  <2>1. \A k \in 1..(B - F) : second[k] \in R
    BY <1>4, <1>5 DEF Range
  <2>2. ASSUME NEW k \in 1..(B - F) PROVE both[F + k] = second[k]
    <3> DEFINE j == F + k
    <3>1. j \in 1..B /\ j > F /\ j - F = k
      BY <1>6
    <3> HIDE DEF j
    <3>2. both[j] = second[j - F]
      BY <1>5, <3>1
    <3> QED
      BY <3>1, <3>2 DEF j
  <2> QED
    BY <1>2, <1>5, <1>6, <2>1, <2>2
<1>18. \A r \in I : \E k \in 1..F : both[k] = r
  BY <1>3, <1>5 DEF Range
<1>19. \A r \in R : \E k \in 1..(B - F) : both[F + k] = r
  <2>1. ASSUME NEW r \in R PROVE \E k \in 1..(B - F) : both[F + k] = r
    <3>1. PICK k \in 1..(B - F) : second[k] = r
      BY <1>4, <1>5 DEF Range
    <3> QED
      BY <1>5, <1>6, <3>1
  <2> QED
    BY <2>1
<1>20. Range(Listed) = Range(irredundant) \cup Range(redundant) /\ Range(irredundant) \cap Range(redundant) = {}
  BY ListedIs DEF ListsShape
<1>21. Alive' = 1..F \cup {F + k : k \in 1..(B - F)}
  <2>1. Range(Listed)' = Range(irredundant') \cup Range(redundant')
    <3>1. irredundant' \in Seq(1..B) /\ redundant' \in Seq(1..B)
      BY <1>12, <1>13
    <3>2. Range(irredundant' \o redundant') = Range(irredundant') \cup Range(redundant')
      BY <3>1, ConcatHolds
    <3> QED
      BY <3>2 DEF Listed
  <2> QED
    BY <1>12, <1>13, <2>1 DEF Alive
<1>22. Live' = {lits[r] : r \in Range(Listed) \ gone}
  <2>1. ASSUME NEW r \in Range(Listed) \ gone PROVE \E k \in Alive' : lits'[k] = lits[r]
    <3>1. CASE r \in I
      BY <1>16, <1>18, <1>21, <3>1
    <3>2. CASE r \in R
      <4>1. PICK k \in 1..(B - F) : both[F + k] = r
        BY <1>19, <3>2
      <4>2. F + k \in Alive' /\ lits'[F + k] = lits[r]
        BY <1>17, <1>21, <4>1
      <4> QED
        BY <4>2
    <3> QED
      BY <1>20, <3>1, <3>2
  <2>2. ASSUME NEW k \in Alive' PROVE \E r \in Range(Listed) \ gone : lits'[k] = lits[r]
    BY <1>16, <1>17, <1>20, <1>21
  <2> QED
    BY <2>1, <2>2 DEF Live
<1>23. Kept' = {lits[r] : r \in {q \in Range(Listed) \ gone : q \in Range(irredundant) \/ Cardinality(lits[q]) <= 2}}
  <2>1. ASSUME NEW r \in Range(Listed) \ gone, r \in Range(irredundant) \/ Cardinality(lits[r]) <= 2
        PROVE  \E k \in KeptRefs' : lits'[k] = lits[r]
    <3>1. CASE r \in I
      <4>1. PICK k \in 1..F : lits'[k] = lits[r]
        BY <1>16, <1>18, <3>1
      <4> QED
        BY <1>12, <1>21, <4>1 DEF KeptRefs
    <3>2. CASE r \in R
      <4>1. PICK k \in 1..(B - F) : lits'[F + k] = lits[r]
        BY <1>17, <1>19, <3>2
      <4>2. Cardinality(lits[r]) <= 2
        BY <1>20, <2>1, <3>2
      <4>3. F + k \in KeptRefs'
        BY <1>21, <4>1, <4>2 DEF KeptRefs
      <4> QED
        BY <4>1, <4>3
    <3> QED
      BY <1>20, <3>1, <3>2
  <2>2. ASSUME NEW k \in KeptRefs'
        PROVE  \E r \in Range(Listed) \ gone : lits'[k] = lits[r] /\ (r \in Range(irredundant) \/ Cardinality(lits[r]) <= 2)
    <3>1. k \in Alive' /\ (k \in Range(irredundant') \/ Cardinality(lits'[k]) <= 2)
      BY DEF KeptRefs
    <3>2. CASE k \in 1..F
      BY <1>16, <1>20, <3>2
    <3>3. CASE k \notin 1..F
      <4>1. Cardinality(lits'[k]) <= 2
        BY <1>12, <3>1, <3>3
      <4>2. PICK r \in R : lits'[k] = lits[r]
        BY <1>17, <1>21, <3>1, <3>3
      <4> QED
        BY <1>20, <4>1, <4>2
    <3> QED
      BY <3>2, <3>3
  <2> QED
    BY <2>1, <2>2 DEF Kept
<1>24. ASSUME redundant = <<>> PROVE redundant' = <<>>
  <2>1. R = {}
    BY <1>24 DEF Range
  <2>2. B - F = 0
    <3>1. 1..(B - F) = {}
      <4>1. \A k \in 1..(B - F) : second[k] \in R
        BY <1>4, <1>5 DEF Range
      <4> QED
        BY <2>1, <4>1
    <3> QED
      BY <1>8, <3>1
  <2> QED
    BY <1>2, <2>2
<1> QED
  BY <1>15, <1>22, <1>23, <1>24

-----------------------------------------------------------------------------
(* Steps that leave the stack and what was stated alone                    *)

\* Every variable has an index.
LEMMA ScopeIs ==
  ASSUME CallerShape
  PROVE  /\ Scope \subseteq 1..MaxVariable /\ Internal = IntroducedBy(extension)
         /\ Vars(stated) \subseteq 1..MaxVariable /\ Internal \subseteq 1..MaxVariable
<1>1. Vars(stated) \subseteq 1..MaxVariable
  BY VarsBelow DEF CallerShape
<1>2. Internal = IntroducedBy(extension)
  BY DEF Internal, IntroducedBy
<1>3. \A r \in Range(extension) : r.var \in 1..MaxVariable
  <2>1. extension \in Seq(Records) /\ \A s \in Seq(Records) : Range(s) \subseteq Records
    BY DEF CallerShape, Range
  <2> QED
    BY <2>1 DEF Records
<1>4. Internal \subseteq 1..MaxVariable
  BY <1>3 DEF Internal
<1> QED
  BY <1>1, <1>2, <1>4 DEF Scope

\* What was kept follows from what is kept: all come back still.
LEMMA StillComeBack ==
  ASSUME AllComeBack, UNCHANGED <<stated, extension>>,
         \A vars \in SUBSET (1..MaxVariable) : \A m \in [vars -> BOOLEAN] :
            Scope \subseteq vars /\ Satisfies(m, Kept') => Satisfies(m, Kept)
  PROVE  AllComeBack'
<1>1. Scope' = Scope /\ \A m : Undone(m)' = Undone(m)
  <2>1. Internal' = Internal
    BY DEF Internal
  <2>2. ASSUME NEW m PROVE Undone(m)' = Undone(m)
    BY DEF Undone
  <2> QED
    BY <2>1, <2>2 DEF Scope
<1>2. SUFFICES ASSUME NEW vars \in SUBSET (1..MaxVariable), NEW m \in [vars -> BOOLEAN],
                      Scope \subseteq vars, Satisfies(m, Kept')
               PROVE  Satisfies(Undone(m), stated)
  BY <1>1 DEF AllComeBack, ComesBack, Satisfies
<1>3. Satisfies(m, Kept)
  BY <1>2
<1> QED
  BY <1>2, <1>3 DEF AllComeBack, ComesBack

\* What is live follows from what was: all carry over still.
LEMMA StillCarryOver ==
  ASSUME CallerShape, AllCarryOver, UNCHANGED <<stated, extension>>,
         \A vars \in SUBSET (1..MaxVariable) : \A m \in [vars -> BOOLEAN] :
            Scope \subseteq vars /\ Satisfies(m, Live) => Satisfies(m, Live')
  PROVE  AllCarryOver'
<1>1. Internal' = Internal /\ \A m : Completed(m)' = Completed(m)
  <2>1. Internal' = Internal
    BY DEF Internal
  <2>2. ASSUME NEW m PROVE Completed(m)' = Completed(m)
    BY DEF Completed
  <2> QED
    BY <2>1, <2>2
<1>2. SUFFICES ASSUME Vars(stated) \cap Internal = {},
                      NEW vars \in SUBSET (1..MaxVariable), NEW m \in [vars -> BOOLEAN],
                      Vars(stated) \subseteq vars, Satisfies(m, stated)
               PROVE  Satisfies(Completed(m), Live')
  BY <1>1 DEF AllCarryOver, CarriesOver, Satisfies
<1>3. Satisfies(Completed(m), Live)
  BY <1>2 DEF AllCarryOver, CarriesOver
<1>4. Completed(m) \in [vars \cup Internal -> BOOLEAN]
  <2>1. Complete(extension, m) \in [vars \cup IntroducedBy(extension) -> BOOLEAN]
    BY CompleteIs DEF CallerShape
  <2> QED
    BY <2>1, CompletedIsComplete, ScopeIs
<1>5. vars \cup Internal \in SUBSET (1..MaxVariable) /\ Scope \subseteq vars \cup Internal
  BY <1>2, ScopeIs DEF Scope
<1> QED
  BY <1>3, <1>4, <1>5

-----------------------------------------------------------------------------
(* Short clauses                                                           *)

LEMMA ClausesAreFinite ==
  ASSUME NEW c \in Clauses
  PROVE  IsFiniteSet(c) /\ Cardinality(c) \in Nat /\ \A l \in c : l \in Literals /\ -l \notin c
<1>1. IsFiniteSet(-MaxVariable..MaxVariable)
  <2>1. -MaxVariable \in Int /\ MaxVariable \in Int
    BY SessionsAssumption DEF SessionsAssumption
  <2> QED
    BY <2>1, FS_Interval
<1>2. c \subseteq -MaxVariable..MaxVariable
  BY DEF Clauses, Literals
<1>3. IsFiniteSet(c)
  BY <1>1, <1>2, FS_Subset
<1> QED
  BY <1>3, FS_CardinalityType DEF Clauses

LEMMA SmallerClause ==
  ASSUME NEW c \in Clauses, NEW d \in SUBSET c
  PROVE  d \in Clauses /\ Cardinality(d) <= Cardinality(c)
<1>1. Cardinality(d) <= Cardinality(c)
  BY ClausesAreFinite, FS_Subset
<1> QED
  BY <1>1 DEF Clauses

LEMMA UnitIs ==
  ASSUME NEW c \in Clauses
  PROVE  Cardinality(c) = 1 <=> \E l \in c : c = {l}
<1>1. IsFiniteSet(c)
  BY ClausesAreFinite
<1>2. Cardinality(c) = 1 <=> \E x : c = {x}
  BY <1>1, FS_Singleton
<1> QED
  BY <1>2

LEMMA SingletonIs ==
  ASSUME NEW l \in Literals
  PROVE  {l} \in Clauses /\ Cardinality({l}) = 1
<1>1. {l} \in Clauses
  BY LiteralIs DEF Clauses
<1> QED
  BY <1>1, FS_Singleton

LEMMA PairIs ==
  ASSUME NEW c \in Clauses, Cardinality(c) = 2
  PROVE  /\ \E a \in c, b \in c : a # b
         /\ \A a \in c, b \in c : a # b => c = {a, b}
<1>1. IsFiniteSet(c)
  BY ClausesAreFinite
<1>2. ASSUME NEW a \in c PROVE \E b \in c : a # b /\ c = {a, b}
  <2>1. IsFiniteSet(c \ {a}) /\ Cardinality(c \ {a}) = 1
    BY <1>1, <1>2, FS_RemoveElement
  <2>2. PICK b : c \ {a} = {b}
    BY <2>1, FS_Singleton
  <2> QED
    BY <2>2
<1>3. c # {}
  BY <1>1, FS_EmptySet
<1> QED
  BY <1>2, <1>3

-----------------------------------------------------------------------------
(* Transitive reduction                                                    *)

\* What a number of steps reaches.
Reaches(arcs, start, N) ==
  LET reached[n \in 0..N] == IF n = 0 THEN start ELSE Step(arcs, reached[n - 1])
  IN reached[N]

LEMMA ReachesIs ==
  ASSUME NEW N \in Nat, NEW S, NEW arcs, NEW start \in S, \A X \in S : Step(arcs, X) \in S
  PROVE  Reaches(arcs, start, N) \in S
<1> DEFINE next == [p \in S \X (1..N) |-> Step(arcs, p[1])]
           Loop(f) == f = [n \in 0..N |-> IF n = 0 THEN start ELSE Step(arcs, f[n - 1])]
<1>1. next \in [S \X (1..N) -> S]
  OBVIOUS
<1>2. \A X \in S, k \in 1..N : next[<<X, k>>] = Step(arcs, X)
  OBVIOUS
<1> DEFINE g == CHOOSE h : Loop(h)
<1>3. Reaches(arcs, start, N) = g[N]
  BY DEF Reaches
<1> HIDE DEF next
<1>4. PICK f : Runs(f, N, S, start, next)
  BY <1>1, Iteration
<1>5. f \in [0..N -> S] /\ f[0] = start
  BY <1>4 DEF Runs
<1>6. \A k \in 1..N : f[k - 1] \in S /\ f[k] = Step(arcs, f[k - 1])
  <2>1. ASSUME NEW k \in 1..N PROVE f[k - 1] \in S /\ f[k] = Step(arcs, f[k - 1])
    <3>1. k - 1 \in 0..N
      OBVIOUS
    <3>2. f[k - 1] \in S
      BY <1>5, <3>1
    <3> QED
      BY <1>2, <1>4, <3>2 DEF Runs
  <2> QED
    BY <2>1
<1>7. Loop(g)
  <2>1. Loop(f)
    BY <1>5, <1>6
  <2> QED
    BY <2>1
<1>8. g[N] = f[N]
  <2> HIDE DEF g
  <2>1. g[0] = f[0]
    BY <1>5, <1>7
  <2>2. \A k \in 1..N : g[k] = Step(arcs, g[k - 1])
    BY <1>7
  <2>3. \A k \in 1..N : g[k - 1] = f[k - 1] => g[k] = f[k]
    BY <1>6, <2>2
  <2>4. Alike(f, g, N)
    BY <2>1, <2>3 DEF Alike
  <2> HIDE DEF Loop
  <2> QED
    BY <2>4, SameIteration
<1> HIDE DEF g
<1>9. f[N] \in S
  BY <1>5
<1> QED
  BY <1>3, <1>8, <1>9

\* A literal the implications reach is true where its source is.
LEMMA PathIsSound ==
  ASSUME ListsShape, NEW uses \in SUBSET DOMAIN lits, NEW vars, NEW m \in [vars -> BOOLEAN],
         \A r \in uses : Cardinality(lits[r]) = 2 /\ Holds(m, lits[r]) /\ Vars({lits[r]}) \subseteq vars,
         NEW source \in Literals, NEW target, True(m, source), HasAlternativePath(source, target, uses)
  PROVE  True(m, target)
<1> DEFINE N == 2 * MaxVariable
           arcs == Arcs(uses)
           S == SUBSET {l \in Literals : True(m, l)}
           start == {source}
           Loop(f) == f = [n \in 0..N |-> IF n = 0 THEN start ELSE Step(arcs, f[n - 1])]
<1>1. N \in Nat /\ start \in S
  BY SessionsAssumption DEF SessionsAssumption
<1>2. ASSUME NEW a \in arcs, a[1] \in Literals, True(m, a[1]) PROVE a[2] \in Literals /\ True(m, a[2])
  <2>1. PICK r \in uses : \E q \in lits[r] \X lits[r] : q[1] # q[2] /\ a = <<-q[1], q[2]>>
    BY <1>2 DEF Arcs
  <2>2. PICK q \in lits[r] \X lits[r] : q[1] # q[2] /\ a = <<-q[1], q[2]>>
    BY <2>1
  <2>3. lits[r] \in Clauses /\ Cardinality(lits[r]) = 2 /\ Holds(m, lits[r])
    BY ListedIs
  <2>4. q[1] \in lits[r] /\ q[2] \in lits[r] /\ a[1] = -q[1] /\ a[2] = q[2]
    BY <2>2
  <2>5. lits[r] = {q[1], q[2]}
    BY <2>2, <2>3, <2>4, PairIs
  <2>6. q[1] \in Literals /\ q[2] \in Literals
    BY <2>3, <2>4, ClausesAreFinite
  <2>7. Var(q[1]) \in vars
    BY <2>4 DEF Vars
  <2>8. ~True(m, q[1])
    BY <1>2, <2>4, <2>6, <2>7, OneIsTrue
  <2>9. True(m, q[2])
    BY <2>3, <2>5, <2>8 DEF Holds
  <2> QED
    BY <2>4, <2>6, <2>9
<1> HIDE DEF arcs
<1>3. \A X \in S : Step(arcs, X) \in S
  <2>1. ASSUME NEW X \in S, NEW l \in Step(arcs, X) PROVE l \in Literals /\ True(m, l)
    <3>1. CASE l \in X
      BY <3>1
    <3>2. CASE l \notin X
      <4>1. PICK a \in arcs : a[1] \in X /\ l = a[2]
        BY <2>1, <3>2 DEF Step
      <4> QED
        BY <1>2, <4>1
    <3> QED
      BY <3>1, <3>2
  <2> QED
    BY <2>1
<1> DEFINE g == CHOOSE h : Loop(h)
<1>4. \E a \in arcs : a[1] \in g[N] /\ a[2] = target
  BY DEF HasAlternativePath, arcs
<1>5. g[N] = Reaches(arcs, start, N)
  BY DEF Reaches
<1> HIDE DEF S, N, start, g
<1>6. Reaches(arcs, start, N) \in S
  BY <1>1, <1>3, ReachesIs
<1>7. PICK a \in arcs : a[1] \in Reaches(arcs, start, N) /\ a[2] = target
  BY <1>4, <1>5
<1>8. a[1] \in Literals /\ True(m, a[1])
  BY <1>6, <1>7 DEF S
<1> QED
  BY <1>2, <1>7, <1>8

-----------------------------------------------------------------------------
(* Steps that change no clause                                             *)

LEMMA PassNamesAre ==
  /\ DOMAIN InitialPasses = 1..5
  /\ PassNames = {"transitive_reducer", "probing", "forward_subsumer", "bounded", "factorizer"}
<1>1. DOMAIN InitialPasses = 1..5
  BY DEF InitialPasses
<1>2. 1..5 = {1, 2, 3, 4, 5}
  OBVIOUS
<1> QED
  BY <1>1, <1>2 DEF PassNames, InitialPasses, Range

\* A step that leaves the clauses, the stack and what was stated alone.
LEMMA QuietStep ==
  ASSUME PassesInv, UNCHANGED <<lits, irredundant, redundant, garbage, stated, extension>>
  PROVE  /\ Listed' = Listed /\ Live' = Live /\ Kept' = Kept /\ Scope' = Scope /\ Eliminations' = Eliminations
         /\ AllComeBack' /\ AllCarryOver'
<1>1. Listed' = Listed /\ Alive' = Alive /\ Live' = Live
  BY DEF Listed, Alive, Live
<1>2. Kept' = Kept
  BY <1>1 DEF Kept, KeptRefs
<1>3. Scope' = Scope /\ Eliminations' = Eliminations
  BY DEF Scope, Internal, Eliminations
<1>4. AllComeBack'
  BY <1>2, StillComeBack DEF PassesInv
<1>5. AllCarryOver'
  BY <1>1, StillCarryOver DEF PassesInv, PassesShape
<1> QED
  BY <1>1, <1>2, <1>3, <1>4, <1>5

LEMMA InitStep ==
  ASSUME PassInit
  PROVE  PassesInv
<1>1. /\ session \in Sessions /\ episode = 0 /\ stated = {} /\ lits = <<>> /\ irredundant = <<>> /\ redundant = <<>>
      /\ garbage = {} /\ extension = <<>> /\ highestStated = 0 /\ stage = "stating" /\ pipeline = "initial"
  BY DEF PassInit
<1>2. Listed = <<>> /\ Range(Listed) = {} /\ Live = {} /\ Vars(Live) = {} /\ Vars(stated) = {}
  <2>1. Listed = <<>>
    BY <1>1 DEF Listed
  <2>2. \A T : Range(<<>>) = {}
    BY DEF Range
  <2> QED
    BY <1>1, <2>1, <2>2 DEF Live, Alive, Vars
<1>3. Range(extension) = {}
  BY <1>1 DEF Range
<1>4. ListsShape
  BY <1>1 DEF ListsShape, Distinct, Range
<1>5. CallerShape
  <2>1. Len(session.episodes) \in Nat
    BY <1>1, SessionsAssumption DEF SessionsAssumption
  <2>2. 0 \in 0..Len(session.episodes)
    BY <2>1
  <2> QED
    BY <1>1, <1>2, <2>2 DEF CallerShape, Stages
<1>6. EliminationShape
  BY <1>1, <1>3 DEF EliminationShape, Eliminations
<1>7. TurnShape /\ PassShape
  BY <1>1, PassNamesAre
     DEF TurnShape, PassShape, ReducerShape, ProbingPassShape, SubsumerShape, EliminatorShape, FactorizerShape
<1>8. AllComeBack
  BY <1>1 DEF AllComeBack, ComesBack, Satisfies
<1>9. AllCarryOver
  BY <1>2 DEF AllCarryOver, CarriesOver, Satisfies
<1> QED
  BY <1>4, <1>5, <1>6, <1>7, <1>8, <1>9 DEF PassesInv, PassesShape

LEMMA EndPipelineStep ==
  ASSUME PassesInv, EndPipeline
  PROVE  PassesInv'
<1>1. /\ stage = "between" /\ stage' = "searching"
      /\ UNCHANGED <<session, episode, stated, highestStated, lits, irredundant, redundant, garbage, extension, pipeline>>
  BY DEF EndPipeline, callerVars, clauseLists
<1>2. /\ Listed' = Listed /\ Live' = Live /\ Scope' = Scope /\ Eliminations' = Eliminations
      /\ AllComeBack' /\ AllCarryOver'
  BY <1>1, QuietStep
<1>3. ListsShape'
  BY <1>1 DEF PassesInv, PassesShape, ListsShape
<1>4. CallerShape'
  BY <1>1, <1>2 DEF PassesInv, PassesShape, CallerShape, Stages
<1>5. EliminationShape'
  BY <1>1, <1>2 DEF PassesInv, PassesShape, EliminationShape, Assumed, Episode
<1>6. TurnShape' /\ PassShape'
  BY <1>1, PassNamesAre
     DEF PassesInv, PassesShape, TurnShape, PassShape, ReducerShape, ProbingPassShape, SubsumerShape, EliminatorShape, FactorizerShape
<1> QED
  BY <1>2, <1>3, <1>4, <1>5, <1>6 DEF PassesInv, PassesShape

LEMMA SkipPassStep ==
  ASSUME PassesInv, SkipPass
  PROVE  PassesInv'
<1>1. /\ stage = "between" /\ stage' = "between" /\ work' = [work EXCEPT !.next = @ + 1]
      /\ UNCHANGED <<session, episode, stated, highestStated, lits, irredundant, redundant, garbage, extension, pipeline>>
      /\ work.next \in DOMAIN InitialPasses
  BY DEF SkipPass, callerVars, clauseLists
<1>2. /\ Listed' = Listed /\ Live' = Live /\ Scope' = Scope /\ Eliminations' = Eliminations
      /\ AllComeBack' /\ AllCarryOver'
  BY <1>1, QuietStep
<1>3. ListsShape'
  BY <1>1 DEF PassesInv, PassesShape, ListsShape
<1>4. CallerShape'
  BY <1>1, <1>2 DEF PassesInv, PassesShape, CallerShape, Stages
<1>5. EliminationShape'
  BY <1>1, <1>2 DEF PassesInv, PassesShape, EliminationShape, Assumed, Episode
<1>6. TurnShape'
  <2>1. work \in [pass : {"none"}, next : Nat \ {0}]
    BY <1>1 DEF PassesInv, PassesShape, TurnShape
  <2>2. work' \in [pass : {"none"}, next : Nat \ {0}]
    BY <1>1, <2>1
  <2> QED
    BY <1>1, <1>2, <2>2, PassNamesAre DEF PassesInv, PassesShape, TurnShape
<1>7. PassShape'
  BY <1>1 DEF PassShape, ReducerShape, ProbingPassShape, SubsumerShape, EliminatorShape, FactorizerShape
<1> QED
  BY <1>2, <1>3, <1>4, <1>5, <1>6, <1>7 DEF PassesInv, PassesShape

LEMMA AnswerStep ==
  ASSUME PassesInv, Answer
  PROVE  PassesInv'
<1>1. /\ stage = "searching" /\ stage' = "stating"
      /\ UNCHANGED <<session, episode, stated, highestStated, lits, irredundant, redundant, garbage, extension, pipeline>>
  BY DEF Answer, callerVars, clauseLists
<1>2. /\ Listed' = Listed /\ Live' = Live /\ Scope' = Scope /\ Eliminations' = Eliminations
      /\ AllComeBack' /\ AllCarryOver'
  BY <1>1, QuietStep
<1>3. ListsShape'
  BY <1>1 DEF PassesInv, PassesShape, ListsShape
<1>4. CallerShape'
  BY <1>1, <1>2 DEF PassesInv, PassesShape, CallerShape, Stages
<1>5. EliminationShape'
  BY <1>1, <1>2 DEF PassesInv, PassesShape, EliminationShape, Assumed, Episode
<1>6. TurnShape' /\ PassShape'
  BY <1>1, PassNamesAre
     DEF PassesInv, PassesShape, TurnShape, PassShape, ReducerShape, ProbingPassShape, SubsumerShape, EliminatorShape, FactorizerShape
<1> QED
  BY <1>2, <1>3, <1>4, <1>5, <1>6 DEF PassesInv, PassesShape

-----------------------------------------------------------------------------
(* Passes that begin                                                       *)

LEMMA EnteringStep ==
  ASSUME PassesInv, NEW pass \in PassNames, Entering(pass), work'.next = work.next
  PROVE  /\ stage = "between" /\ stage' = pass /\ pipeline = "initial" /\ pipeline' = "initial" /\ garbage = {}
         /\ UNCHANGED <<session, episode, stated, highestStated, lits, irredundant, redundant, garbage, extension>>
         /\ work.next \in Nat \ {0} /\ Vars(Live) \subseteq 1..highestStated
         /\ Listed' = Listed /\ Live' = Live
         /\ ListsShape' /\ CallerShape' /\ EliminationShape' /\ TurnShape' /\ AllComeBack' /\ AllCarryOver'
<1>1. /\ stage = "between" /\ stage' = pass /\ pipeline' = pipeline
      /\ UNCHANGED <<session, episode, stated, highestStated, lits, irredundant, redundant, garbage, extension>>
      /\ work.next \in DOMAIN InitialPasses /\ InitialPasses[work.next] = pass
  BY DEF Entering, callerVars, clauseLists
<1>2. pipeline = "initial" /\ garbage = {} /\ pass \notin {"stating", "between", "searching"} /\ episode # 0
  BY <1>1, PassNamesAre DEF PassesInv, PassesShape, ListsShape, CallerShape
<1>3. /\ Listed' = Listed /\ Live' = Live /\ Scope' = Scope /\ Eliminations' = Eliminations
      /\ AllComeBack' /\ AllCarryOver'
  BY <1>1, QuietStep
<1>4. ListsShape'
  BY <1>1, <1>2 DEF PassesInv, PassesShape, ListsShape
<1>5. CallerShape'
  BY <1>1, <1>2, <1>3 DEF PassesInv, PassesShape, CallerShape, Stages
<1>6. EliminationShape'
  BY <1>1, <1>2, <1>3 DEF PassesInv, PassesShape, EliminationShape, Assumed, Episode
<1>7. work.next \in Nat \ {0} /\ Vars(Live) \subseteq 1..highestStated
  BY <1>1, PassNamesAre DEF PassesInv, PassesShape, TurnShape
<1>8. TurnShape'
  BY <1>1, <1>2, <1>3, <1>7 DEF PassesInv, PassesShape, TurnShape
<1> QED
  BY <1>1, <1>2, <1>3, <1>4, <1>5, <1>6, <1>7, <1>8

LEMMA BuildImplicationGraphStep ==
  ASSUME PassesInv, BuildImplicationGraph
  PROVE  PassesInv'
<1>1. /\ Entering("transitive_reducer")
      /\ work' = [pass |-> "transitive_reducer", edges |-> Binaries, at |-> 1, removed |-> {}, next |-> work.next]
  BY DEF BuildImplicationGraph
<1>2. work'.next = work.next /\ "transitive_reducer" \in PassNames
  BY <1>1, PassNamesAre
<1>3. /\ stage' = "transitive_reducer" /\ garbage' = {}
      /\ UNCHANGED <<lits, irredundant, redundant, garbage>>
      /\ work.next \in Nat \ {0} /\ Listed' = Listed
      /\ ListsShape' /\ CallerShape' /\ EliminationShape' /\ TurnShape' /\ AllComeBack' /\ AllCarryOver'
  BY <1>1, <1>2, EnteringStep
<1>4. /\ Binaries \in Seq(DOMAIN lits) /\ Distinct(Binaries)
      /\ Range(Binaries) \subseteq Range(Listed) /\ \A r \in Range(Binaries) : Cardinality(lits[r]) = 2
  <2> DEFINE D == DOMAIN lits
             W == {r \in Range(Listed) : Cardinality(lits[r]) = 2}
  <2>1. Listed \in Seq(D) /\ Distinct(Listed)
    BY ListedIs DEF PassesInv, PassesShape
  <2>2. Binaries = Keeping(Listed, W)
    BY DEF Binaries
  <2> HIDE DEF D, W
  <2>3. Binaries \in Seq(D) /\ Range(Binaries) = Range(Listed) \cap W /\ Distinct(Binaries)
    BY <2>1, <2>2, KeepingIs
  <2> QED
    BY <2>3 DEF D, W
<1>5. ReducerShape'
  BY <1>1, <1>3, <1>4 DEF ReducerShape
<1>6. PassShape'
  BY <1>3, <1>5 DEF PassShape, ProbingPassShape, SubsumerShape, EliminatorShape, FactorizerShape
<1> QED
  BY <1>3, <1>6 DEF PassesInv, PassesShape

\* What seeds the queue of probing is the literal of a unit clause.
LEMMA SeededIs ==
  ASSUME ListsShape, NEW refs \in Seq(DOMAIN lits)
  PROVE  Seeded(refs) \in Seq({l \in Literals : \E r \in Range(refs) : lits[r] = {l}})
<1> DEFINE units == Units(refs)
           N == Len(units)
           L == {l \in Literals : \E r \in Range(refs) : lits[r] = {l}}
           next == [p \in Seq(L) \X (1..N) |-> Seeding(p[1], units[p[2]])]
           Loop(f) == f = [n \in 0..N |-> IF n = 0 THEN <<>> ELSE Seeding(f[n - 1], units[n])]
           start == <<>>
<1>1. /\ N \in Nat /\ start \in Seq(L)
      /\ \A k \in 1..N : units[k] \in Range(refs) /\ Cardinality(lits[units[k]]) = 1 /\ lits[units[k]] \in Clauses
  <2> DEFINE D == DOMAIN lits
             W == {r \in Range(refs) : Cardinality(lits[r]) = 1}
  <2>1. units = Keeping(refs, W) /\ refs \in Seq(D)
    BY DEF Units
  <2> HIDE DEF units, D, W
  <2>2. units \in Seq(D) /\ Range(units) = Range(refs) \cap W
    BY <2>1, KeepingIs
  <2>3. N \in Nat /\ \A k \in 1..N : units[k] \in Range(units)
    BY <2>2 DEF Range
  <2>4. \A r \in Range(refs) : lits[r] \in Clauses
    <3>1. Range(refs) \subseteq D
      BY <2>1 DEF Range
    <3> QED
      BY <3>1, ListedIs DEF D
  <2> QED
    BY <2>2, <2>3, <2>4 DEF W
<1>2. \A q \in Seq(L), k \in 1..N : Seeding(q, units[k]) \in Seq(L)
  <2>1. ASSUME NEW q \in Seq(L), NEW k \in 1..N PROVE Seeding(q, units[k]) \in Seq(L)
    <3> DEFINE c == lits[units[k]]
               l == CHOOSE l \in c : TRUE
    <3>1. c \in Clauses /\ Cardinality(c) = 1
      BY <1>1
    <3>2. PICK x \in c : c = {x}
      BY <3>1, UnitIs
    <3>3. l = x /\ x \in Literals
      BY <3>1, <3>2, ClausesAreFinite
    <3>4. l \in L
      BY <1>1, <3>2, <3>3
    <3>5. Seeding(q, units[k]) = q \/ Seeding(q, units[k]) = Append(q, l)
      BY DEF Seeding
    <3> HIDE DEF l, L
    <3> QED
      BY <3>4, <3>5
  <2> QED
    BY <2>1
<1> HIDE DEF L
<1>3. next \in [Seq(L) \X (1..N) -> Seq(L)]
  BY <1>2
<1>4. \A q \in Seq(L), k \in 1..N : next[<<q, k>>] = Seeding(q, units[k])
  OBVIOUS
<1> DEFINE g == CHOOSE h : Loop(h)
           S == Seq(L)
<1>5. Seeded(refs) = g[N]
  BY DEF Seeded
<1> HIDE DEF units, N, next, start, g, S
<1>6. PICK f : Runs(f, N, S, start, next)
  BY <1>1, <1>3, Iteration DEF S
<1>7. f \in [0..N -> S] /\ f[0] = start
  BY <1>6 DEF Runs
<1>8. \A k \in 1..N : f[k - 1] \in S /\ f[k] = Seeding(f[k - 1], units[k])
  <2>1. ASSUME NEW k \in 1..N PROVE f[k - 1] \in S /\ f[k] = Seeding(f[k - 1], units[k])
    <3>1. k - 1 \in 0..N
      BY <1>1
    <3>2. f[k - 1] \in S
      BY <1>7, <3>1
    <3> QED
      BY <1>4, <1>6, <3>2 DEF Runs, S
  <2> QED
    BY <2>1
<1>9. Loop(g)
  <2>1. Loop(f)
    BY <1>1, <1>7, <1>8 DEF start
  <2> QED
    BY <2>1 DEF g
<1>10. g[N] = f[N]
  <2>1. g[0] = f[0] /\ \A k \in 1..N : g[k] = Seeding(g[k - 1], units[k])
    BY <1>1, <1>7, <1>9 DEF start
  <2>2. Alike(f, g, N)
    BY <1>8, <2>1 DEF Alike
  <2> HIDE DEF Loop
  <2> QED
    BY <1>1, <2>2, SameIteration
<1>11. f[N] \in S
  BY <1>1, <1>7
<1> QED
  BY <1>5, <1>10, <1>11 DEF S, L

LEMMA CollectClausesStep ==
  ASSUME PassesInv, CollectClauses
  PROVE  PassesInv'
<1>1. /\ Entering("probing")
      /\ work' = [pass |-> "probing", refs |-> Listed, text |-> lits, queue |-> Seeded(Listed),
                  head |-> 1, candidates |-> <<>>, next |-> work.next]
  BY DEF CollectClauses
<1>2. work'.next = work.next /\ "probing" \in PassNames
  BY <1>1, PassNamesAre
<1>3. /\ stage' = "probing" /\ garbage = {}
      /\ UNCHANGED <<lits, irredundant, redundant, garbage>>
      /\ work.next \in Nat \ {0} /\ Listed' = Listed /\ Live' = Live
      /\ ListsShape' /\ CallerShape' /\ EliminationShape' /\ TurnShape' /\ AllComeBack' /\ AllCarryOver'
  BY <1>1, <1>2, EnteringStep
<1>4. Listed \in Seq(DOMAIN lits) /\ lits \in Seq(Clauses)
  BY ListedIs DEF PassesInv, PassesShape, ListsShape
<1>5. Seeded(Listed) \in Seq(Literals) /\ \A l \in Range(Seeded(Listed)) : {l} \in Live
  <2> DEFINE L == {l \in Literals : \E r \in Range(Listed) : lits[r] = {l}}
             q == Seeded(Listed)
  <2>1. q \in Seq(L)
    BY <1>4, SeededIs DEF PassesInv, PassesShape
  <2>2. \A l \in L : {l} \in Live /\ l \in Literals
    BY <1>3 DEF Live, Alive
  <2> HIDE DEF q, L
  <2>3. Range(q) \subseteq L
    BY <2>1 DEF Range
  <2>4. q \in Seq(Literals)
    BY <2>1, <2>2, SeqGrows
  <2> QED
    BY <2>2, <2>3, <2>4 DEF q
<1>6. Range(<<>>) = {} /\ <<>> \in Seq(Literals)
  BY DEF Range
<1>7. ProbingPassShape'
  <2>1. work' \in [pass : {"probing"}, refs : Seq(DOMAIN lits), text : Seq(Clauses), queue : Seq(Literals), head : Nat,
                   candidates : Seq(Literals), next : Nat \ {0}]
    BY <1>1, <1>3, <1>4, <1>5, <1>6
  <2> QED
    BY <1>1, <1>3, <1>5, <1>6, <2>1 DEF ProbingPassShape
<1>8. PassShape'
  BY <1>3, <1>7 DEF PassShape, ReducerShape, SubsumerShape, EliminatorShape, FactorizerShape
<1> QED
  BY <1>3, <1>8 DEF PassesInv, PassesShape

LEMMA IndexIs ==
  ASSUME ListsShape, NEW turn \in Nat
  PROVE  LET w == IndexClauses(turn) IN
            /\ w \in [pass : {"forward_subsumer"}, order : Seq(DOMAIN lits), text : Seq(Clauses), stated : Nat,
                      at : Nat \ {0}, step : {"subsume", "next", "pivots"}, todo : SUBSET Literals, next : Nat]
            /\ w.order = Listed /\ w.text = lits /\ w.stated <= Len(w.order) /\ w.step = "subsume" /\ w.next = turn
<1>1. irredundant \in Seq(DOMAIN lits) /\ redundant \in Seq(DOMAIN lits) /\ lits \in Seq(Clauses)
  BY DEF ListsShape
<1>2. Len(irredundant) \in Nat /\ Len(irredundant) <= Len(Listed)
  <2>1. Len(Listed) = Len(irredundant) + Len(redundant) /\ Len(irredundant) \in Nat /\ Len(redundant) \in Nat
    BY <1>1 DEF Listed
  <2> QED
    BY <2>1
<1>3. Listed \in Seq(DOMAIN lits)
  BY ListedIs
<1> QED
  BY <1>1, <1>2, <1>3 DEF IndexClauses

LEMMA EnterSubsumerStep ==
  ASSUME PassesInv, EnterSubsumer
  PROVE  PassesInv'
<1>1. Entering("forward_subsumer") /\ work' = IndexClauses(work.next)
  BY DEF EnterSubsumer
<1>2. work'.next = work.next /\ "forward_subsumer" \in PassNames
  BY <1>1, PassNamesAre DEF IndexClauses
<1>3. /\ stage' = "forward_subsumer" /\ garbage' = {}
      /\ UNCHANGED <<lits, irredundant, redundant, garbage>>
      /\ work.next \in Nat /\ Listed' = Listed
      /\ ListsShape' /\ CallerShape' /\ EliminationShape' /\ TurnShape' /\ AllComeBack' /\ AllCarryOver'
  BY <1>1, <1>2, EnteringStep
<1>4. SubsumerShape'
  BY <1>1, <1>3, IndexIs, ListedIs DEF PassesInv, PassesShape, SubsumerShape
<1>5. PassShape'
  BY <1>3, <1>4 DEF PassShape, ReducerShape, ProbingPassShape, EliminatorShape, FactorizerShape
<1> QED
  BY <1>3, <1>5 DEF PassesInv, PassesShape

LEMMA RunEpochStep ==
  ASSUME PassesInv, RunEpoch
  PROVE  PassesInv'
<1>1. /\ stage = "searching" /\ stage' = "forward_subsumer" /\ pipeline' = "epoch" /\ work' = IndexClauses(0)
      /\ UNCHANGED <<session, episode, stated, highestStated, lits, irredundant, redundant, garbage, extension>>
  BY DEF RunEpoch, callerVars, clauseLists
<1>2. /\ Listed' = Listed /\ Live' = Live /\ Scope' = Scope /\ Eliminations' = Eliminations
      /\ AllComeBack' /\ AllCarryOver'
  BY <1>1, QuietStep
<1>3. ListsShape'
  BY <1>1 DEF PassesInv, PassesShape, ListsShape
<1>4. CallerShape'
  BY <1>1, <1>2, PassNamesAre DEF PassesInv, PassesShape, CallerShape, Stages
<1>5. EliminationShape'
  BY <1>1, <1>2 DEF PassesInv, PassesShape, EliminationShape, Assumed, Episode
<1>6. TurnShape'
  BY <1>1 DEF PassesInv, PassesShape, TurnShape
<1>7. SubsumerShape'
  BY <1>1, <1>2, IndexIs, ListedIs DEF PassesInv, PassesShape, SubsumerShape
<1>8. PassShape'
  BY <1>1, <1>7 DEF PassShape, ReducerShape, ProbingPassShape, EliminatorShape, FactorizerShape
<1> QED
  BY <1>2, <1>3, <1>4, <1>5, <1>6, <1>8 DEF PassesInv, PassesShape

LEMMA BuildOccurrencesStep ==
  ASSUME PassesInv, BuildOccurrences
  PROVE  PassesInv'
<1>1. /\ Entering("bounded") /\ work' = [pass |-> "bounded", registered |-> irredundant, at |-> 1, next |-> work.next]
  BY DEF BuildOccurrences
<1>2. work'.next = work.next /\ "bounded" \in PassNames /\ session.eliminate
  BY <1>1, PassNamesAre DEF Entering, Enabled
<1>3. /\ stage' = "bounded" /\ pipeline' = "initial"
      /\ UNCHANGED <<session, lits, irredundant, redundant, garbage>>
      /\ work.next \in Nat \ {0}
      /\ ListsShape' /\ CallerShape' /\ EliminationShape' /\ TurnShape' /\ AllComeBack' /\ AllCarryOver'
  BY <1>1, <1>2, EnteringStep
<1>4. irredundant \in Seq(DOMAIN lits)
  BY DEF PassesInv, PassesShape, ListsShape
<1>5. EliminatorShape'
  BY <1>1, <1>2, <1>3, <1>4 DEF EliminatorShape
<1>6. PassShape'
  BY <1>3, <1>5 DEF PassShape, ReducerShape, ProbingPassShape, SubsumerShape, FactorizerShape
<1> QED
  BY <1>3, <1>6 DEF PassesInv, PassesShape

LEMMA EnterFactorizerStep ==
  ASSUME PassesInv, EnterFactorizer
  PROVE  PassesInv'
<1> DEFINE D == DOMAIN lits
           W == {r \in Range(irredundant) : Cardinality(lits[r]) \in 2..5}
           index == Keeping(irredundant, W)
           some == {lits[r] : r \in Range(irredundant)}
           highest == Max({highestStated} \cup Vars(some))
<1>1. /\ Entering("factorizer")
      /\ work' = [pass |-> "factorizer", index |-> index, highest |-> highest, next |-> work.next]
  BY DEF EnterFactorizer
<1>2. work'.next = work.next /\ "factorizer" \in PassNames
  BY <1>1, PassNamesAre
<1>3. /\ stage' = "factorizer"
      /\ UNCHANGED <<lits, irredundant, redundant, garbage>>
      /\ work.next \in Nat \ {0} /\ Live' = Live /\ Vars(Live) \subseteq 1..highestStated
      /\ ListsShape' /\ CallerShape' /\ EliminationShape' /\ TurnShape' /\ AllComeBack' /\ AllCarryOver'
  BY <1>1, <1>2, EnteringStep
<1>4. index \in Seq(D) /\ Range(index) \subseteq Range(irredundant)
  <2>1. irredundant \in Seq(D)
    BY DEF PassesInv, PassesShape, ListsShape
  <2> HIDE DEF D, W
  <2>2. index \in Seq(D) /\ Range(index) = Range(irredundant) \cap W
    BY <2>1, KeepingIs
  <2> QED
    BY <2>2
<1>5. highest \in Nat /\ highestStated <= highest /\ highestStated \in Nat
  <2> DEFINE N == highestStated + MaxVariable
             T == {highestStated} \cup Vars(some)
  <2>1. highestStated \in Nat /\ MaxVariable \in Nat
    BY SessionsAssumption DEF PassesInv, PassesShape, TurnShape, SessionsAssumption
  <2>2. some \in SUBSET Clauses
    BY ListedIs DEF PassesInv, PassesShape
  <2> HIDE DEF some
  <2>3. Vars(some) \subseteq 1..MaxVariable
    BY <2>2, VarsBelow
  <2>4. N \in Nat /\ T \in SUBSET (0..N) /\ highestStated \in T
    BY <2>1, <2>3
  <2> HIDE DEF N, T
  <2>5. Max(T) \in T /\ highestStated <= Max(T)
    BY <2>4, MaxIs
  <2> QED
    BY <2>1, <2>4, <2>5 DEF T
<1> HIDE DEF highest, index
<1>6. Vars(Live) \subseteq 1..highest
  BY <1>3, <1>5
<1>7. FactorizerShape'
  BY <1>1, <1>3, <1>4, <1>5, <1>6 DEF FactorizerShape
<1>8. PassShape'
  BY <1>3, <1>7 DEF PassShape, ReducerShape, ProbingPassShape, SubsumerShape, EliminatorShape
<1> QED
  BY <1>3, <1>8 DEF PassesInv, PassesShape

-----------------------------------------------------------------------------
(* Passes that end                                                         *)

LEMMA LeavingStep ==
  ASSUME PassesInv, Leaving, stage \in PassNames, UNCHANGED extension,
         ListsShape', garbage' = {}, Live' = Live, Kept' = Kept, redundant = <<>> => redundant' = <<>>
  PROVE  PassesInv'
<1>1. /\ UNCHANGED <<session, episode, stated, highestStated, extension, pipeline>>
      /\ stage' = IF pipeline = "initial" THEN "between" ELSE "searching"
      /\ work' = IF pipeline = "initial" THEN [pass |-> "none", next |-> work.next + 1] ELSE Idle
  BY DEF Leaving, callerVars
<1>2. /\ (stage' = "between" /\ pipeline = "initial") \/ (stage' = "searching" /\ pipeline # "initial")
      /\ stage \notin {"stating", "between", "searching"} /\ episode # 0
  <2>1. stage \notin {"stating", "between", "searching"}
    BY PassNamesAre
  <2>2. episode = 0 => stage = "stating"
    BY DEF PassesInv, PassesShape, CallerShape
  <2>3. CASE pipeline = "initial"
    BY <1>1, <2>1, <2>2, <2>3
  <2>4. CASE pipeline # "initial"
    BY <1>1, <2>1, <2>2, <2>4
  <2> QED
    BY <2>3, <2>4
<1>3. Scope' = Scope /\ Eliminations' = Eliminations
  BY <1>1 DEF Scope, Internal, Eliminations
<1>4. CallerShape'
  BY <1>1, <1>2, <1>3 DEF PassesInv, PassesShape, CallerShape, Stages
<1>5. EliminationShape'
  BY <1>1, <1>2, <1>3 DEF PassesInv, PassesShape, EliminationShape, Assumed, Episode
<1>6. TurnShape'
  <2>1. CASE pipeline = "initial"
    <3>1. work.next \in 1..5 /\ InitialPasses[work.next] = stage
      BY <2>1, PassNamesAre DEF PassesInv, PassesShape, TurnShape
    <3>2. work' \in [pass : {"none"}, next : Nat \ {0}] /\ work'.next = work.next + 1
      BY <1>1, <2>1, <3>1
    <3>3. stage = "factorizer" => work'.next \notin 1..5
      <4>1. work.next \in {1, 2, 3, 4, 5}
        BY <3>1
      <4>2. stage = "factorizer" => work.next = 5
        BY <3>1, <4>1 DEF InitialPasses
      <4> QED
        BY <3>2, <4>2
    <3>4. stage # "factorizer" => Vars(Live) \subseteq 1..highestStated
      BY <2>1 DEF PassesInv, PassesShape, TurnShape
    <3> QED
      BY <1>1, <1>2, <2>1, <3>2, <3>3, <3>4, PassNamesAre DEF PassesInv, PassesShape, TurnShape
  <2>2. CASE pipeline # "initial"
    BY <1>1, <1>2, <2>2, PassNamesAre DEF PassesInv, PassesShape, TurnShape
  <2> QED
    BY <2>1, <2>2
<1>7. PassShape'
  BY <1>2 DEF PassShape, ReducerShape, ProbingPassShape, SubsumerShape, EliminatorShape, FactorizerShape
<1>8. AllComeBack'
  BY <1>1, StillComeBack DEF PassesInv
<1>9. AllCarryOver'
  BY <1>1, StillCarryOver DEF PassesInv, PassesShape
<1> QED
  BY <1>4, <1>5, <1>6, <1>7, <1>8, <1>9 DEF PassesInv, PassesShape

LEMMA FlushingStep ==
  ASSUME PassesInv, Flush, Leaving, stage \in PassNames, UNCHANGED extension
  PROVE  PassesInv'
<1>1. ListsShape /\ Drop(garbage) /\ garbage' = {} /\ garbage \subseteq garbage
  BY DEF Flush, PassesInv, PassesShape
<1>2. /\ ListsShape'
      /\ Live' = {lits[r] : r \in Range(Listed) \ garbage}
      /\ Kept' = {lits[r] : r \in {q \in Range(Listed) \ garbage : q \in Range(irredundant) \/ Cardinality(lits[q]) <= 2}}
      /\ redundant = <<>> => redundant' = <<>>
  BY <1>1, DropIs
<1>3. Live' = Live /\ Kept' = Kept
  BY <1>2 DEF Live, Kept, KeptRefs, Alive
<1> QED
  BY <1>1, <1>2, <1>3, LeavingStep

LEMMA EndPruningStep ==
  ASSUME PassesInv, EndPruning
  PROVE  PassesInv'
BY FlushingStep, PassNamesAre DEF EndPruning

LEMMA EndSubsumptionStep ==
  ASSUME PassesInv, EndSubsumption
  PROVE  PassesInv'
BY FlushingStep, PassNamesAre DEF EndSubsumption

LEMMA EndEliminationStep ==
  ASSUME PassesInv, EndElimination
  PROVE  PassesInv'
BY FlushingStep, PassNamesAre DEF EndElimination

LEMMA EndFactoringStep ==
  ASSUME PassesInv, EndFactoring
  PROVE  PassesInv'
BY FlushingStep, PassNamesAre DEF EndFactoring

-----------------------------------------------------------------------------
(* Transitive reduction                                                    *)

\* A binary clause goes only if the binary clauses that stay imply it.
LEMMA PruneEdgeStep ==
  ASSUME PassesInv, PruneEdge
  PROVE  PassesInv'
<1>1. /\ stage = "transitive_reducer" /\ work.at \in DOMAIN work.edges
      /\ UNCHANGED <<session, episode, stated, highestStated, lits, irredundant, redundant, extension, stage, pipeline>>
  BY DEF PruneEdge, callerVars
<1>2. /\ work \in [pass : {"transitive_reducer"}, edges : Seq(DOMAIN lits), at : Nat, removed : SUBSET Nat, next : Nat \ {0}]
      /\ Distinct(work.edges) /\ Range(work.edges) \subseteq Range(Listed)
      /\ \A r \in Range(work.edges) : Cardinality(lits[r]) = 2
      /\ work.removed \subseteq DOMAIN work.edges
      /\ garbage = {work.edges[j] : j \in work.removed}
  BY <1>1 DEF PassesInv, PassesShape, PassShape, ReducerShape
<1>3. ListsShape /\ CallerShape /\ EliminationShape /\ TurnShape
  BY DEF PassesInv, PassesShape
<1> DEFINE edge == work.edges[work.at]
<1>4. edge \in Range(Listed) /\ edge \in DOMAIN lits /\ Cardinality(lits[edge]) = 2 /\ lits[edge] \in Clauses
  <2>1. edge \in Range(work.edges)
    BY <1>1 DEF Range
  <2>2. edge \in Range(Listed) /\ Cardinality(lits[edge]) = 2
    BY <1>2, <2>1
  <2> QED
    BY <1>3, <2>2, ListedIs
<1>5. \/ /\ Justified(work.at) /\ garbage' = garbage \cup {edge}
         /\ work' = [work EXCEPT !.at = @ + 1, !.removed = @ \cup {work.at}]
      \/ work' = [work EXCEPT !.at = @ + 1] /\ garbage' = garbage
  BY DEF PruneEdge
<1>6. Listed' = Listed /\ Scope' = Scope /\ Eliminations' = Eliminations /\ garbage \subseteq garbage'
  BY <1>1, <1>5 DEF Listed, Scope, Internal, Eliminations
<1>7. Live' \subseteq Live
  BY <1>1, <1>6 DEF Live, Alive
<1>8. ListsShape'
  BY <1>1, <1>2, <1>3, <1>4, <1>5 DEF ListsShape
<1>9. Vars(Live') \subseteq Vars(Live)
  BY <1>7, VarsGrow
<1>10. CallerShape'
  BY <1>1, <1>3, <1>6, <1>9 DEF CallerShape
<1>11. EliminationShape'
  BY <1>1, <1>3, <1>6 DEF EliminationShape, Assumed, Episode
<1>12. work'.next = work.next
  BY <1>2, <1>5
<1>13. TurnShape'
  BY <1>1, <1>3, <1>9, <1>12, PassNamesAre DEF TurnShape
<1>14. ReducerShape'
  <2>1. CASE work' = [work EXCEPT !.at = @ + 1] /\ garbage' = garbage
    BY <1>1, <1>2, <1>6, <2>1 DEF ReducerShape
  <2>2. CASE garbage' = garbage \cup {edge} /\ work' = [work EXCEPT !.at = @ + 1, !.removed = @ \cup {work.at}]
    <3>1. /\ work' \in [pass : {"transitive_reducer"}, edges : Seq(DOMAIN lits), at : Nat, removed : SUBSET Nat, next : Nat \ {0}]
          /\ work'.edges = work.edges /\ work'.removed = work.removed \cup {work.at}
      <4> DEFINE E == Seq(DOMAIN lits)
                 more == work.removed \cup {work.at}
                 on == work.at + 1
      <4>1. work \in [pass : {"transitive_reducer"}, edges : E, at : Nat, removed : SUBSET Nat, next : Nat \ {0}]
        BY <1>2
      <4> HIDE DEF E
      <4>2. more \in SUBSET Nat /\ on \in Nat
        BY <4>1
      <4>3. work' = [work EXCEPT !.at = on, !.removed = more]
        BY <2>2
      <4> HIDE DEF more, on
      <4>4. /\ work' \in [pass : {"transitive_reducer"}, edges : E, at : Nat, removed : SUBSET Nat, next : Nat \ {0}]
            /\ work'.edges = work.edges /\ work'.removed = more
        BY <4>1, <4>2, <4>3
      <4> QED
        BY <4>4 DEF E, more
    <3>2. garbage' = {work.edges[j] : j \in work'.removed}
      <4> DEFINE e == work.edges
                 k == work.at
                 R == work.removed
      <4>1. garbage = {e[j] : j \in R} /\ garbage' = garbage \cup {e[k]} /\ work'.removed = R \cup {k}
        BY <1>2, <2>2, <3>1
      <4> HIDE DEF e, k, R
      <4>2. garbage' = {e[j] : j \in work'.removed}
        BY <4>1
      <4> QED
        BY <4>2 DEF e
    <3> QED
      BY <1>1, <1>2, <1>6, <3>1, <3>2 DEF ReducerShape
  <2> QED
    BY <1>5, <2>1, <2>2
<1>15. PassShape'
  BY <1>1, <1>14 DEF PassShape, ProbingPassShape, SubsumerShape, EliminatorShape, FactorizerShape
<1>16. ASSUME NEW vars \in SUBSET (1..MaxVariable), NEW m \in [vars -> BOOLEAN],
              Scope \subseteq vars, Satisfies(m, Kept')
       PROVE  Satisfies(m, Kept)
  <2>1. SUFFICES ASSUME NEW r \in KeptRefs PROVE Holds(m, lits[r])
    BY DEF Satisfies, Kept
  <2>2. CASE r \in KeptRefs'
    BY <1>1, <1>16, <2>2 DEF Satisfies, Kept
  <2>3. CASE r \notin KeptRefs'
    <3>1. r = edge /\ r \notin garbage /\ Justified(work.at) /\ garbage' = garbage \cup {edge}
      BY <1>1, <1>5, <1>6, <2>3 DEF KeptRefs, Alive
    <3> DEFINE uses == Justifying(work.at)
               c == lits[edge]
    <3>2. uses \subseteq Range(work.edges) /\ \A u \in uses : u \notin garbage' /\ u # edge
      BY <1>1, <1>2, <3>1 DEF Justifying, Range, Distinct
    <3>3. \A u \in uses : u \in KeptRefs' /\ u \in Alive /\ Cardinality(lits[u]) = 2
      BY <1>1, <1>2, <1>6, <3>2 DEF KeptRefs, Alive
    <3>4. uses \subseteq DOMAIN lits
      BY <1>3, <3>3, ListedIs
    <3>5. \A u \in uses : Holds(m, lits[u])
      BY <1>1, <1>16, <3>3 DEF Satisfies, Kept
    <3>6. \A u \in Alive : Vars({lits[u]}) \subseteq vars
      <4>1. ASSUME NEW u \in Alive PROVE Vars({lits[u]}) \subseteq Vars(Live)
        <5>1. {lits[u]} \subseteq Live
          BY DEF Live
        <5> QED
          BY <5>1, VarsGrow
      <4> QED
        BY <1>3, <1>16, <4>1 DEF CallerShape
    <3>7. PICK a \in c, b \in c : a # b
      BY <1>4, PairIs
    <3>8. a \in Literals /\ b \in Literals /\ -a \in Literals /\ Var(a) \in vars
      <4>1. Var(a) \in Vars({c})
        BY VarsHas
      <4>2. edge \in Alive
        BY <2>1, <3>1 DEF KeptRefs
      <4> QED
        BY <1>4, <3>6, <4>1, <4>2, ClausesAreFinite, LiteralIs
    <3>9. HasAlternativePath(-a, b, uses)
      BY <3>1, <3>7 DEF Justified
    <3> HIDE DEF uses
    <3>10. ~True(m, a) => True(m, b)
      <4>1. SUFFICES ASSUME ~True(m, a) PROVE True(m, b)
        OBVIOUS
      <4>2. True(m, -a)
        BY <3>8, <4>1, OneIsTrue
      <4>3. \A u \in uses : Cardinality(lits[u]) = 2 /\ Holds(m, lits[u]) /\ Vars({lits[u]}) \subseteq vars
        BY <3>3, <3>5, <3>6
      <4> QED
        BY <1>3, <3>4, <3>8, <3>9, <4>2, <4>3, PathIsSound
    <3> QED
      BY <3>1, <3>7, <3>10 DEF Holds
  <2> QED
    BY <2>2, <2>3
<1>17. AllComeBack'
  BY <1>1, <1>16, StillComeBack DEF PassesInv
<1>18. AllCarryOver'
  <2>1. \A m : Satisfies(m, Live) => Satisfies(m, Live')
    BY <1>7 DEF Satisfies
  <2> QED
    BY <1>1, <1>3, <2>1, StillCarryOver DEF PassesInv
<1> QED
  BY <1>8, <1>10, <1>11, <1>13, <1>15, <1>17, <1>18 DEF PassesInv, PassesShape

-----------------------------------------------------------------------------
(* Probing                                                                 *)

LEMMA AliveHas ==
  ASSUME ListsShape, CallerShape, NEW r \in Alive
  PROVE  /\ lits[r] \in Clauses /\ lits[r] \in Live
         /\ \A l \in lits[r] : Var(l) \in Scope /\ l \in Literals
<1>1. lits[r] \in Clauses /\ lits[r] \in Live
  BY ListedIs DEF Live
<1>2. ASSUME NEW l \in lits[r] PROVE Var(l) \in Scope /\ l \in Literals
  <2>1. Var(l) \in Vars(Live)
    BY <1>1, VarsHas
  <2> QED
    BY <1>1, <2>1, ClausesAreFinite DEF CallerShape
<1> QED
  BY <1>1, <1>2

\* A closure under way: each clause is as it was or one literal of the text it
\* was collected with, and follows from the clauses there were.
ClosureShape(w) ==
  /\ \A r \in DOMAIN lits : w.lits[r] = lits[r] \/ (lits[r] = work.text[r] /\ \E l \in lits[r] : w.lits[r] = {l})
  /\ \A l \in Range(w.queue) \cup Range(w.candidates) : \E r \in Alive : w.lits[r] = {l}
  /\ \A vars \in SUBSET (1..MaxVariable) : \A m \in [vars -> BOOLEAN] :
        Scope \subseteq vars /\ Satisfies(m, Live) => \A r \in Alive : Holds(m, w.lits[r])

Closures == {w \in [lits : [DOMAIN lits -> Clauses], queue : Seq(Literals), candidates : Seq(Literals)] : ClosureShape(w)}

\* A clause all but one of whose literals are false is that one.
LEMMA ClosingKeeps ==
  ASSUME PassesInv, stage = "probing", NEW processed, processed \subseteq Range(work.queue),
         NEW w \in Closures, NEW r \in Alive
  PROVE  Closing(processed, w, r) \in Closures
<1> DEFINE text == work.text[r]
           rest == text \ {-l : l \in processed}
           survivor == CHOOSE l \in rest : TRUE
           more == [lits |-> [w.lits EXCEPT ![r] = {survivor}],
                    queue |-> Append(w.queue, survivor),
                    candidates |-> Append(w.candidates, survivor)]
<1>1. ListsShape /\ CallerShape /\ ProbingPassShape
  BY DEF PassesInv, PassesShape, PassShape
<1>2. CASE Closing(processed, w, r) = w
  BY <1>2
<1>3. CASE Closing(processed, w, r) # w
  <2>1. /\ Closing(processed, w, r) = more
        /\ Cardinality(w.lits[r]) # 1 /\ Cardinality(rest) = 1
    BY <1>3 DEF Closing
  <2>2. r \in DOMAIN lits /\ lits[r] \in Clauses /\ lits[r] \in Live
    BY <1>1, ListedIs, AliveHas
  <2>3. /\ w.lits \in [DOMAIN lits -> Clauses] /\ w.queue \in Seq(Literals) /\ w.candidates \in Seq(Literals)
        /\ ClosureShape(w)
    BY DEF Closures
  <2>4. w.lits[r] = lits[r]
    <3>1. \A l \in lits[r] : w.lits[r] # {l}
      BY <2>1, <2>2, ClausesAreFinite, SingletonIs
    <3> QED
      BY <2>2, <2>3, <3>1 DEF ClosureShape
  <2>5. lits[r] = text
    <3>1. lits[r] = text \/ \E l \in text : lits[r] = {l}
      BY <1>1, <2>2 DEF ProbingPassShape
    <3>2. \A l : lits[r] # {l}
      BY <2>1, <2>4, FS_Singleton
    <3> QED
      BY <3>1, <3>2
  <2>6. rest \in Clauses
    BY <2>2, <2>5, SmallerClause
  <2>7. PICK x \in rest : rest = {x}
    BY <2>1, <2>6, UnitIs
  <2>8. survivor = x
    BY <2>7
  <2>9. x \in text /\ x \in Literals /\ {x} \in Clauses
    BY <2>2, <2>5, <2>7, ClausesAreFinite, SingletonIs
  <2> HIDE DEF survivor
  <2>10. /\ more.lits \in [DOMAIN lits -> Clauses] /\ more.lits[r] = {x}
         /\ \A q \in DOMAIN lits : q # r => more.lits[q] = w.lits[q]
    BY <2>2, <2>3, <2>8, <2>9
  <2>11. /\ more.queue \in Seq(Literals) /\ Range(more.queue) = Range(w.queue) \cup {x}
         /\ more.candidates \in Seq(Literals) /\ Range(more.candidates) = Range(w.candidates) \cup {x}
    BY <2>3, <2>8, <2>9, AppendHolds
  <2>12. more \in [lits : [DOMAIN lits -> Clauses], queue : Seq(Literals), candidates : Seq(Literals)]
    BY <2>10, <2>11
  <2> HIDE DEF more
  <2>13. \A q \in DOMAIN lits : more.lits[q] = lits[q] \/ (lits[q] = work.text[q] /\ \E l \in lits[q] : more.lits[q] = {l})
    <3>1. ASSUME NEW q \in DOMAIN lits
          PROVE  more.lits[q] = lits[q] \/ (lits[q] = work.text[q] /\ \E l \in lits[q] : more.lits[q] = {l})
      <4>1. CASE q = r
        BY <2>5, <2>9, <2>10, <4>1
      <4>2. CASE q # r
        BY <2>3, <2>10, <4>2 DEF ClosureShape
      <4> QED
        BY <4>1, <4>2
    <3> QED
      BY <3>1
  <2>14. \A l \in Range(more.queue) \cup Range(more.candidates) : \E q \in Alive : more.lits[q] = {l}
    <3>1. ASSUME NEW l \in Range(more.queue) \cup Range(more.candidates)
          PROVE  \E q \in Alive : more.lits[q] = {l}
      <4>1. CASE l = x
        BY <2>10, <4>1
      <4>2. CASE l # x
        <5>1. PICK q \in Alive : w.lits[q] = {l}
          BY <2>3, <2>11, <4>2 DEF ClosureShape
        <5>2. q \in DOMAIN lits /\ q # r
          BY <1>1, <2>1, <5>1, ListedIs, FS_Singleton
        <5> QED
          BY <2>10, <5>1, <5>2
      <4> QED
        BY <4>1, <4>2
    <3> QED
      BY <3>1
  <2>15. ASSUME NEW vars \in SUBSET (1..MaxVariable), NEW m \in [vars -> BOOLEAN],
                Scope \subseteq vars, Satisfies(m, Live), NEW q \in Alive
         PROVE  Holds(m, more.lits[q])
    <3>1. CASE q # r
      <4>1. Holds(m, w.lits[q])
        BY <2>3, <2>15 DEF ClosureShape
      <4> QED
        BY <1>1, <2>10, <3>1, <4>1, ListedIs
    <3>2. CASE q = r
      <4>1. Holds(m, text)
        BY <2>2, <2>5, <2>15 DEF Satisfies
      <4>2. PICK l \in text : True(m, l)
        BY <4>1 DEF Holds
      <4>3. ASSUME l # x PROVE FALSE
        <5>1. PICK k \in processed : l = -k
          BY <2>7, <4>2, <4>3
        <5>2. k \in Range(work.queue) /\ {k} \in Live /\ k \in Literals
          <6>1. k \in Range(work.queue) /\ {k} \in Live
            BY <1>1, <5>1 DEF ProbingPassShape
          <6>2. {k} \in Clauses
            BY <1>1, <6>1, ListedIs
          <6> QED
            BY <6>1, <6>2, ClausesAreFinite
        <5>3. True(m, k)
          BY <2>15, <5>2 DEF Satisfies, Holds
        <5>4. Var(k) \in vars
          <6>1. Var(k) \in Vars(Live)
            BY <5>2, VarsHas
          <6> QED
            BY <1>1, <2>15, <6>1 DEF CallerShape
        <5> QED
          BY <4>2, <5>1, <5>2, <5>3, <5>4, OneIsTrue
      <4> QED
        BY <2>10, <3>2, <4>2, <4>3 DEF Holds
    <3> QED
      BY <3>1, <3>2
  <2>16. ClosureShape(more)
    BY <2>13, <2>14, <2>15 DEF ClosureShape
  <2> QED
    BY <2>1, <2>12, <2>16 DEF Closures
<1> QED
  BY <1>2, <1>3

\* One literal's round over the clauses.
LEMMA ClosedIs ==
  ASSUME PassesInv, stage = "probing", NEW processed, processed \subseteq Range(work.queue)
  PROVE  Closed(processed) \in Closures
<1> DEFINE N == Len(work.refs)
           S == Closures
           start == [lits |-> lits, queue |-> work.queue, candidates |-> work.candidates]
           next == [p \in S \X (1..N) |-> Closing(processed, p[1], work.refs[p[2]])]
           Loop(f) == f = [n \in 0..N |-> IF n = 0 THEN start ELSE Closing(processed, f[n - 1], work.refs[n])]
           g == CHOOSE h : Loop(h)
<1>1. /\ ListsShape /\ work.refs \in Seq(DOMAIN lits) /\ work.queue \in Seq(Literals) /\ work.candidates \in Seq(Literals)
      /\ Range(work.refs) = Range(Listed) /\ garbage = {}
      /\ \A l \in Range(work.queue) \cup Range(work.candidates) : {l} \in Live
  BY DEF PassesInv, PassesShape, PassShape, ProbingPassShape, ListsShape
<1>2. N \in Nat /\ \A k \in 1..N : work.refs[k] \in Alive
  <2>1. N \in Nat /\ DOMAIN work.refs = 1..N
    BY <1>1
  <2> QED
    BY <1>1, <2>1 DEF Range, Alive
<1>3. start \in S
  <2>1. lits \in [DOMAIN lits -> Clauses]
    BY <1>1 DEF ListsShape
  <2>2. start \in [lits : [DOMAIN lits -> Clauses], queue : Seq(Literals), candidates : Seq(Literals)]
    BY <1>1, <2>1
  <2>3. \A l \in Range(work.queue) \cup Range(work.candidates) : \E r \in Alive : lits[r] = {l}
    BY <1>1 DEF Live
  <2>4. ASSUME NEW vars \in SUBSET (1..MaxVariable), NEW m \in [vars -> BOOLEAN],
               Scope \subseteq vars, Satisfies(m, Live), NEW r \in Alive
        PROVE  Holds(m, lits[r])
    BY <2>4 DEF Satisfies, Live
  <2>5. ClosureShape(start)
    BY <2>3, <2>4 DEF ClosureShape
  <2> QED
    BY <2>2, <2>5 DEF Closures
<1>4. \A w \in S, k \in 1..N : Closing(processed, w, work.refs[k]) \in S
  BY <1>2, ClosingKeeps
<1>5. next \in [S \X (1..N) -> S]
  BY <1>4
<1>6. \A w \in S, k \in 1..N : next[<<w, k>>] = Closing(processed, w, work.refs[k])
  OBVIOUS
<1>7. Closed(processed) = g[N]
  BY DEF Closed
<1> HIDE DEF N, next, start, g, S
<1>8. PICK f : Runs(f, N, S, start, next)
  BY <1>2, <1>3, <1>5, Iteration
<1>9. f \in [0..N -> S] /\ f[0] = start
  BY <1>8 DEF Runs
<1>10. \A k \in 1..N : f[k - 1] \in S /\ f[k] = Closing(processed, f[k - 1], work.refs[k])
  <2>1. ASSUME NEW k \in 1..N PROVE f[k - 1] \in S /\ f[k] = Closing(processed, f[k - 1], work.refs[k])
    <3>1. k - 1 \in 0..N
      BY <1>2
    <3>2. f[k - 1] \in S
      BY <1>9, <3>1
    <3> QED
      BY <1>6, <1>8, <3>2 DEF Runs
  <2> QED
    BY <2>1
<1>11. Loop(g)
  <2>1. Loop(f)
    BY <1>2, <1>9, <1>10
  <2> QED
    BY <2>1 DEF g
<1>12. g[N] = f[N]
  <2>1. g[0] = f[0] /\ \A k \in 1..N : g[k] = Closing(processed, g[k - 1], work.refs[k])
    BY <1>2, <1>9, <1>11
  <2>2. Alike(f, g, N)
    BY <1>10, <2>1 DEF Alike
  <2> HIDE DEF Loop
  <2> QED
    BY <1>2, <2>2, SameIteration
<1>13. f[N] \in S
  BY <1>2, <1>9
<1> QED
  BY <1>7, <1>12, <1>13 DEF S

\* A step that only shortens clauses.
LEMMA ShrinkingStep ==
  ASSUME PassesInv, stage \in PassNames, work'.next = work.next,
         UNCHANGED <<session, episode, stated, highestStated, irredundant, redundant, garbage, extension, stage, pipeline>>,
         lits' \in [DOMAIN lits -> Clauses], \A r \in DOMAIN lits : lits'[r] \subseteq lits[r]
  PROVE  /\ DOMAIN lits' = DOMAIN lits /\ Len(lits') = Len(lits)
         /\ Listed' = Listed /\ Alive' = Alive /\ Alive \subseteq DOMAIN lits
         /\ ListsShape' /\ CallerShape' /\ EliminationShape' /\ TurnShape' /\ AllComeBack'
<1>1. ListsShape /\ CallerShape /\ EliminationShape /\ TurnShape
  BY DEF PassesInv, PassesShape
<1>2. lits' \in Seq(Clauses) /\ DOMAIN lits' = DOMAIN lits /\ Len(lits') = Len(lits)
  <2>1. Len(lits) \in Nat /\ DOMAIN lits = 1..Len(lits)
    BY <1>1 DEF ListsShape
  <2> QED
    BY <2>1
<1>3. Listed' = Listed /\ Alive' = Alive /\ Scope' = Scope /\ Eliminations' = Eliminations /\ Alive \subseteq DOMAIN lits
  BY <1>1, ListedIs DEF Listed, Alive, Scope, Internal, Eliminations
<1>4. Vars(Live') \subseteq Vars(Live)
  <2>1. ASSUME NEW c \in Live', NEW l \in c PROVE Var(l) \in Vars(Live)
    <3>1. PICK r \in Alive : c = lits'[r]
      BY <1>3 DEF Live
    <3>2. l \in lits[r] /\ lits[r] \in Live
      BY <1>3, <3>1 DEF Live
    <3> QED
      BY <3>2, VarsHas
  <2> QED
    BY <2>1 DEF Vars
<1>5. ListsShape'
  BY <1>1, <1>2 DEF ListsShape
<1>6. CallerShape'
  <2>1. episode # 0
    BY <1>1, PassNamesAre DEF CallerShape
  <2> QED
    BY <1>1, <1>3, <1>4, <2>1 DEF CallerShape
<1>7. EliminationShape'
  BY <1>1, <1>3 DEF EliminationShape, Assumed, Episode
<1>8. TurnShape'
  BY <1>1, <1>4, PassNamesAre DEF TurnShape
<1>9. ASSUME NEW m, Satisfies(m, Kept') PROVE Satisfies(m, Kept)
  <2>1. SUFFICES ASSUME NEW r \in KeptRefs PROVE Holds(m, lits[r])
    BY DEF Satisfies, Kept
  <2>2. r \in Alive /\ r \in DOMAIN lits /\ lits[r] \in Clauses
    BY <1>1, <1>3, ListedIs DEF KeptRefs
  <2>3. lits'[r] \subseteq lits[r] /\ Cardinality(lits'[r]) <= Cardinality(lits[r])
    BY <2>2, SmallerClause
  <2>4. r \in Range(irredundant) \/ Cardinality(lits'[r]) <= 2
    <3>1. r \in Range(irredundant) \/ Cardinality(lits[r]) <= 2
      BY DEF KeptRefs
    <3>2. lits'[r] \in Clauses
      BY <2>2, <2>3, SmallerClause
    <3> QED
      BY <2>2, <2>3, <3>1, <3>2, ClausesAreFinite
  <2>5. r \in KeptRefs'
    BY <1>3, <2>2, <2>4 DEF KeptRefs
  <2>6. Holds(m, lits'[r])
    BY <1>9, <2>5 DEF Satisfies, Kept
  <2> QED
    BY <2>3, <2>6 DEF Holds
<1>10. AllComeBack'
  BY <1>9, StillComeBack DEF PassesInv
<1> QED
  BY <1>2, <1>3, <1>5, <1>6, <1>7, <1>8, <1>10

LEMMA CloseUnderLiteralStep ==
  ASSUME PassesInv, CloseUnderLiteral
  PROVE  PassesInv' /\ DOMAIN lits' = DOMAIN lits
<1> DEFINE processed == {work.queue[k] : k \in 1..work.head}
           w == Closed(processed)
<1>1. /\ stage = "probing" /\ work.head \in DOMAIN work.queue
      /\ UNCHANGED <<session, episode, stated, highestStated, irredundant, redundant, garbage, extension, stage, pipeline>>
      /\ lits' = w.lits
      /\ work' = [work EXCEPT !.queue = w.queue, !.candidates = w.candidates, !.head = @ + 1]
  BY DEF CloseUnderLiteral, callerVars
<1>2. CallerShape /\ ProbingPassShape
  BY DEF PassesInv, PassesShape, PassShape
<1>3. /\ work \in [pass : {"probing"}, refs : Seq(DOMAIN lits), text : Seq(Clauses), queue : Seq(Literals), head : Nat,
                   candidates : Seq(Literals), next : Nat \ {0}]
      /\ Range(work.refs) = Range(Listed)
      /\ Len(work.text) = Len(lits)
      /\ \A r \in DOMAIN lits : lits[r] = work.text[r] \/ \E l \in work.text[r] : lits[r] = {l}
  BY <1>1, <1>2 DEF ProbingPassShape
<1>4. processed \subseteq Range(work.queue)
  <2>1. \A k \in 1..work.head : k \in DOMAIN work.queue
    BY <1>1, <1>3
  <2> QED
    BY <2>1 DEF Range
<1> HIDE DEF processed
<1>5. w \in Closures
  BY <1>1, <1>4, ClosedIs
<1> HIDE DEF w
<1>6. /\ w.lits \in [DOMAIN lits -> Clauses] /\ w.queue \in Seq(Literals) /\ w.candidates \in Seq(Literals)
      /\ ClosureShape(w)
  BY <1>5 DEF Closures
<1>7. /\ work' \in [pass : {"probing"}, refs : Seq(DOMAIN lits), text : Seq(Clauses), queue : Seq(Literals), head : Nat,
                    candidates : Seq(Literals), next : Nat \ {0}]
      /\ work'.refs = work.refs /\ work'.text = work.text /\ work'.next = work.next
      /\ work'.queue = w.queue /\ work'.candidates = w.candidates
  <2> DEFINE E == Seq(DOMAIN lits)
             on == work.head + 1
  <2>1. work \in [pass : {"probing"}, refs : E, text : Seq(Clauses), queue : Seq(Literals), head : Nat,
                  candidates : Seq(Literals), next : Nat \ {0}]
    BY <1>3
  <2> HIDE DEF E
  <2>2. on \in Nat
    BY <2>1
  <2>3. work' = [work EXCEPT !.queue = w.queue, !.candidates = w.candidates, !.head = on]
    BY <1>1
  <2> HIDE DEF on
  <2>4. /\ work' \in [pass : {"probing"}, refs : E, text : Seq(Clauses), queue : Seq(Literals), head : Nat,
                      candidates : Seq(Literals), next : Nat \ {0}]
        /\ work'.refs = work.refs /\ work'.text = work.text /\ work'.next = work.next
        /\ work'.queue = w.queue /\ work'.candidates = w.candidates
    BY <1>6, <2>1, <2>2, <2>3
  <2> QED
    BY <2>4 DEF E
<1>8. \A r \in DOMAIN lits : lits'[r] \subseteq lits[r]
  BY <1>1, <1>6 DEF ClosureShape
<1>9. /\ DOMAIN lits' = DOMAIN lits /\ Len(lits') = Len(lits)
      /\ Listed' = Listed /\ Alive' = Alive /\ Alive \subseteq DOMAIN lits
      /\ ListsShape' /\ CallerShape' /\ EliminationShape' /\ TurnShape' /\ AllComeBack'
  BY <1>1, <1>6, <1>7, <1>8, PassNamesAre, ShrinkingStep
<1>10. ProbingPassShape'
  <2>1. ASSUME NEW r \in DOMAIN lits PROVE lits'[r] = work.text[r] \/ \E l \in work.text[r] : lits'[r] = {l}
    <3>1. CASE lits'[r] = lits[r]
      BY <1>3, <3>1
    <3>2. CASE lits'[r] # lits[r]
      BY <1>1, <1>6, <3>2 DEF ClosureShape
    <3> QED
      BY <3>1, <3>2
  <2>2. \A l \in Range(w.queue) \cup Range(w.candidates) : {l} \in Live'
    <3>1. \A l \in Range(w.queue) \cup Range(w.candidates) : \E r \in Alive : lits'[r] = {l}
      BY <1>1, <1>6 DEF ClosureShape
    <3> QED
      BY <1>9, <3>1 DEF Live
  <2> QED
    BY <1>1, <1>3, <1>7, <1>9, <2>1, <2>2 DEF ProbingPassShape
<1>11. PassShape'
  BY <1>1, <1>10 DEF PassShape, ReducerShape, SubsumerShape, EliminatorShape, FactorizerShape
<1>12. ASSUME NEW vars \in SUBSET (1..MaxVariable), NEW m \in [vars -> BOOLEAN], Scope \subseteq vars, Satisfies(m, Live)
       PROVE  Satisfies(m, Live')
  <2>1. \A r \in Alive : Holds(m, lits'[r])
    BY <1>1, <1>6, <1>12 DEF ClosureShape
  <2> QED
    BY <1>9, <2>1 DEF Satisfies, Live
<1>13. AllCarryOver'
  BY <1>1, <1>2, <1>12, StillCarryOver DEF PassesInv
<1> QED
  BY <1>9, <1>11, <1>13 DEF PassesInv, PassesShape

\* Each candidate is a unit clause already, so that none is added.
LEMMA NothingEmitted ==
  ASSUME PassesInv, stage = "probing"
  PROVE  Emitted = <<>>
<1> DEFINE N == Len(work.candidates)
           units == {c \in Live : Cardinality(c) = 1}
           S == [units : {units}, seen : SUBSET Literals, added : {<<>>}]
           start == [units |-> units, seen |-> {}, added |-> <<>>]
           next == [p \in S \X (1..N) |-> Confirming(p[1], work.candidates[p[2]])]
           Loop(f) == f = [n \in 0..N |-> IF n = 0 THEN start ELSE Confirming(f[n - 1], work.candidates[n])]
           g == CHOOSE h : Loop(h)
<1>1. N \in Nat /\ \A k \in 1..N : work.candidates[k] \in Literals /\ {work.candidates[k]} \in units
  <2>1. work.candidates \in Seq(Literals) /\ \A l \in Range(work.candidates) : {l} \in Live
    BY DEF PassesInv, PassesShape, PassShape, ProbingPassShape
  <2>2. N \in Nat /\ \A k \in 1..N : work.candidates[k] \in Literals /\ work.candidates[k] \in Range(work.candidates)
    BY <2>1 DEF Range
  <2> QED
    BY <2>1, <2>2, SingletonIs
<1> HIDE DEF units
<1>2. start \in S
  OBVIOUS
<1>3. \A known \in S, k \in 1..N : Confirming(known, work.candidates[k]) \in S
  <2>1. ASSUME NEW known \in S, NEW k \in 1..N PROVE Confirming(known, work.candidates[k]) \in S
    <3> DEFINE l == work.candidates[k]
    <3>1. l \in Literals /\ {l} \in known.units
      BY <1>1
    <3> HIDE DEF l
    <3>2. Confirming(known, l) = [known EXCEPT !.seen = @ \cup {l}]
      BY <3>1 DEF Confirming
    <3>3. Confirming(known, l) \in S
      BY <3>1, <3>2
    <3> QED
      BY <3>3 DEF l
  <2> QED
    BY <2>1
<1>4. next \in [S \X (1..N) -> S]
  BY <1>3
<1>5. \A known \in S, k \in 1..N : next[<<known, k>>] = Confirming(known, work.candidates[k])
  OBVIOUS
<1>6. Emitted = g[N].added
  BY DEF Emitted, units
<1> HIDE DEF N, next, start, g, S
<1>7. PICK f : Runs(f, N, S, start, next)
  BY <1>1, <1>2, <1>4, Iteration
<1>8. f \in [0..N -> S] /\ f[0] = start
  BY <1>7 DEF Runs
<1>9. \A k \in 1..N : f[k - 1] \in S /\ f[k] = Confirming(f[k - 1], work.candidates[k])
  <2>1. ASSUME NEW k \in 1..N PROVE f[k - 1] \in S /\ f[k] = Confirming(f[k - 1], work.candidates[k])
    <3>1. k - 1 \in 0..N
      BY <1>1
    <3>2. f[k - 1] \in S
      BY <1>8, <3>1
    <3> QED
      BY <1>5, <1>7, <3>2 DEF Runs
  <2> QED
    BY <2>1
<1>10. Loop(g)
  <2>1. Loop(f)
    BY <1>1, <1>8, <1>9
  <2> QED
    BY <2>1 DEF g
<1>11. g[N] = f[N]
  <2>1. g[0] = f[0] /\ \A k \in 1..N : g[k] = Confirming(g[k - 1], work.candidates[k])
    BY <1>1, <1>8, <1>10
  <2>2. Alike(f, g, N)
    BY <1>9, <2>1 DEF Alike
  <2> HIDE DEF Loop
  <2> QED
    BY <1>1, <2>2, SameIteration
<1>12. f[N] \in S
  BY <1>1, <1>8
<1> QED
  BY <1>6, <1>11, <1>12 DEF S

LEMMA EmitBackboneStep ==
  ASSUME PassesInv, EmitBackbone
  PROVE  PassesInv' /\ UNCHANGED <<lits, redundant>>
<1>1. /\ stage = "probing" /\ Leaving /\ UNCHANGED <<irredundant, garbage, extension>>
      /\ lits' = lits \o Emitted /\ redundant' = redundant \o [k \in 1..Len(Emitted) |-> Len(lits) + k]
  BY DEF EmitBackbone
<1>2. Emitted = <<>> /\ ListsShape /\ garbage = {}
  BY <1>1, NothingEmitted DEF PassesInv, PassesShape, ListsShape
<1>3. lits' = lits /\ redundant' = redundant
  <2>1. lits \in Seq(Clauses) /\ redundant \in Seq(DOMAIN lits)
    BY <1>2 DEF ListsShape
  <2>2. [k \in 1..Len(Emitted) |-> Len(lits) + k] = <<>>
    BY <1>2
  <2> QED
    BY <1>1, <1>2, <2>1, <2>2
<1>4. Listed' = Listed /\ Alive' = Alive /\ Live' = Live
  BY <1>1, <1>3 DEF Listed, Alive, Live
<1>5. Kept' = Kept
  BY <1>1, <1>3, <1>4 DEF Kept, KeptRefs
<1>6. ListsShape'
  BY <1>1, <1>2, <1>3 DEF ListsShape
<1> QED
  BY <1>1, <1>2, <1>3, <1>4, <1>5, <1>6, PassNamesAre, LeavingStep

-----------------------------------------------------------------------------
(* Forward subsumption                                                     *)

LEMMA MinIs ==
  ASSUME NEW S \in SUBSET Nat, S # {}
  PROVE  Min(S) \in S
<1>1. \E x \in S : \A y \in S : x <= y
  BY Least
<1> QED
  BY <1>1 DEF Min

\* What a subsumption changes: the clause that stays stands for those that go.
LEMMA SubsumptionIs ==
  ASSUME ListsShape, NEW r \in Alive, NEW subsumed \in SUBSET Alive, r \notin subsumed,
         \A s \in subsumed : lits[r] \subseteq lits[s],
         UNCHANGED lits, stage' = "forward_subsumer", Subsume(r, subsumed)
  PROVE  /\ ListsShape' /\ Range(Listed)' = Range(Listed) /\ garbage' = garbage \cup subsumed
         /\ redundant = <<>> => redundant' = <<>>
         /\ Live' \subseteq Live
         /\ \A m : Satisfies(m, Kept') => Satisfies(m, Kept)
<1> DEFINE promotes == Redundant(r) /\ \E s \in subsumed : ~Redundant(s)
           D == DOMAIN lits
           fewer == Keeping(redundant, Range(redundant) \ {r})
           more == Append(irredundant, r)
<1>1. /\ garbage' = garbage \cup subsumed
      /\ (promotes => irredundant' = more /\ redundant' = fewer)
      /\ (~promotes => irredundant' = irredundant /\ redundant' = redundant)
  BY DEF Subsume, Promoted
<1>2. /\ irredundant \in Seq(D) /\ redundant \in Seq(D) /\ Distinct(irredundant) /\ Distinct(redundant)
      /\ Range(irredundant) \cap Range(redundant) = {} /\ garbage \subseteq D /\ lits \in Seq(Clauses)
  BY DEF ListsShape
<1>3. /\ r \in D /\ subsumed \subseteq D /\ Range(Listed) = Range(irredundant) \cup Range(redundant)
      /\ Alive = Range(Listed) \ garbage
  BY ListedIs DEF Alive
<1> HIDE DEF D
<1>4. fewer \in Seq(D) /\ Range(fewer) = Range(redundant) \ {r} /\ Distinct(fewer)
  BY <1>2, KeepingIs
<1>5. more \in Seq(D) /\ Range(more) = Range(irredundant) \cup {r} /\ (r \notin Range(irredundant) => Distinct(more))
  BY <1>2, <1>3, AppendHolds
<1> HIDE DEF fewer, more
<1>6. /\ irredundant' \in Seq(D) /\ redundant' \in Seq(D) /\ Distinct(irredundant') /\ Distinct(redundant')
      /\ Range(irredundant') \cap Range(redundant') = {}
      /\ Range(irredundant') \cup Range(redundant') = Range(irredundant) \cup Range(redundant)
      /\ Range(irredundant) \subseteq Range(irredundant')
      /\ (promotes => r \in Range(irredundant'))
  <2>1. CASE promotes
    <3>1. r \in Range(redundant) /\ r \notin Range(irredundant)
      BY <1>2, <2>1 DEF Redundant
    <3> QED
      BY <1>1, <1>2, <1>4, <1>5, <2>1, <3>1
  <2>2. CASE ~promotes
    BY <1>1, <1>2, <2>2
  <2> QED
    BY <2>1, <2>2
<1>7. Range(Listed') = Range(irredundant') \cup Range(redundant')
  BY <1>6, ConcatHolds DEF Listed
<1>8. Alive' = Alive \ subsumed
  BY <1>1, <1>3, <1>6, <1>7 DEF Alive
<1>9. ListsShape'
  BY <1>1, <1>2, <1>3, <1>6 DEF ListsShape, D
<1>10. redundant = <<>> => redundant' = <<>>
  <2>1. SUFFICES ASSUME redundant = <<>> PROVE ~promotes
    BY <1>1
  <2> QED
    BY <2>1 DEF Redundant, Range
<1>11. Live' \subseteq Live
  BY <1>8 DEF Live
<1>12. ASSUME NEW m, Satisfies(m, Kept') PROVE Satisfies(m, Kept)
  <2>1. SUFFICES ASSUME NEW s \in KeptRefs PROVE Holds(m, lits[s])
    BY DEF Satisfies, Kept
  <2>2. s \in Alive /\ (s \in Range(irredundant) \/ Cardinality(lits[s]) <= 2)
    BY DEF KeptRefs
  <2>3. CASE s \notin subsumed
    <3>1. s \in KeptRefs'
      BY <1>6, <1>8, <2>2, <2>3 DEF KeptRefs
    <3> QED
      BY <1>12, <3>1 DEF Satisfies, Kept
  <2>4. CASE s \in subsumed
    <3>1. r \in Range(irredundant') \/ Cardinality(lits[r]) <= 2
      <4>1. CASE s \in Range(irredundant)
        <5>1. ~Redundant(s)
          BY <1>2, <4>1 DEF Redundant
        <5>2. r \in Range(irredundant) \/ Redundant(r)
          BY <1>3 DEF Redundant
        <5> QED
          BY <1>6, <2>4, <5>1, <5>2
      <4>2. CASE s \notin Range(irredundant)
        <5>1. lits[s] \in Clauses /\ lits[r] \subseteq lits[s] /\ Cardinality(lits[s]) <= 2
          BY <2>2, <2>4, <4>2, ListedIs
        <5>2. lits[r] \in Clauses /\ Cardinality(lits[r]) <= Cardinality(lits[s])
          BY <5>1, SmallerClause
        <5>3. Cardinality(lits[s]) \in Nat /\ Cardinality(lits[r]) \in Nat
          BY <5>1, <5>2, ClausesAreFinite
        <5> QED
          BY <5>1, <5>2, <5>3
      <4> QED
        BY <4>1, <4>2
    <3>2. r \in KeptRefs'
      BY <1>8, <3>1 DEF KeptRefs
    <3>3. Holds(m, lits[r])
      BY <1>12, <3>2 DEF Satisfies, Kept
    <3> QED
      BY <2>4, <3>3 DEF Holds
  <2> QED
    BY <2>3, <2>4
<1>13. Range(Listed)' = Range(Listed)
  BY <1>3, <1>6, <1>7
<1> QED
  BY <1>1, <1>9, <1>10, <1>11, <1>12, <1>13

\* What a clause of the order leads to: nothing, or a subsumption.
LEMMA SubsumeLeftIs ==
  ASSUME PassesInv, SubsumeLeft
  PROVE  \/ UNCHANGED <<irredundant, redundant, garbage>>
         \/ \E r \in Alive : \E subsumed \in SUBSET Alive :
              r \notin subsumed /\ (\A s \in subsumed : lits[r] \subseteq lits[s]) /\ Subsume(r, subsumed)
<1> DEFINE left == work.order[work.at]
<1>1. ListsShape /\ SubsumerShape /\ stage = "forward_subsumer" /\ work.at \in DOMAIN work.order
  BY DEF PassesInv, PassesShape, PassShape, SubsumeLeft
<1>2. /\ work.order \in Seq(DOMAIN lits) /\ Distinct(work.order) /\ Range(work.order) = Range(Listed)
      /\ DOMAIN work.order \in SUBSET Nat
  BY <1>1 DEF SubsumerShape
<1>3. \A k \in DOMAIN work.order : Active(k) => work.order[k] \in Alive
  BY <1>2 DEF Active, Alive, Range
<1>4. \A k \in DOMAIN work.order : k # work.at => work.order[k] # left
  BY <1>1, <1>2 DEF Distinct
<1>5. SUFFICES ASSUME ~UNCHANGED <<irredundant, redundant, garbage>>
               PROVE  \E r \in Alive : \E subsumed \in SUBSET Alive :
                        r \notin subsumed /\ (\A s \in subsumed : lits[r] \subseteq lits[s]) /\ Subsume(r, subsumed)
  OBVIOUS
<1>6. PICK l \in Rarest(lits[left]) :
            IF Subsumers(l) # {}
            THEN Subsume(work.order[Min(Subsumers(l))], {left})
            ELSE Subsume(left, {work.order[k] : k \in SubsumedBy(l)})
  BY <1>5 DEF SubsumeLeft
<1>7. Active(work.at) /\ left \in Alive
  <2>1. Active(work.at)
    BY <1>5 DEF SubsumeLeft
  <2> QED
    BY <1>1, <1>3, <2>1
<1>8. CASE Subsumers(l) # {}
  <2> DEFINE k == Min(Subsumers(l))
  <2>1. Subsumers(l) \subseteq Candidates(l) /\ Candidates(l) \subseteq DOMAIN work.order
    BY DEF Subsumers, Candidates, Occurs
  <2>2. Subsumers(l) \in SUBSET Nat
    BY <1>2, <2>1
  <2>3. k \in Subsumers(l)
    BY <1>8, <2>2, MinIs
  <2> HIDE DEF k
  <2>4. k \in DOMAIN work.order /\ k # work.at /\ Active(k) /\ Subsumes(k, work.at)
    BY <2>1, <2>3 DEF Subsumers, Candidates
  <2>5. work.order[k] \in Alive /\ work.order[k] # left /\ lits[work.order[k]] \subseteq lits[left]
    BY <1>3, <1>4, <2>4 DEF Subsumes, Text
  <2>6. Subsume(work.order[k], {left})
    BY <1>6, <1>8 DEF k
  <2>7. {left} \in SUBSET Alive /\ work.order[k] \notin {left} /\ \A s \in {left} : lits[work.order[k]] \subseteq lits[s]
    BY <1>7, <2>5
  <2> QED
    BY <2>5, <2>6, <2>7
<1>9. CASE Subsumers(l) = {}
  <2> DEFINE subsumed == {work.order[k] : k \in SubsumedBy(l)}
  <2>1. ASSUME NEW k \in SubsumedBy(l)
        PROVE  work.order[k] \in Alive /\ work.order[k] # left /\ lits[left] \subseteq lits[work.order[k]]
    <3>1. k \in DOMAIN work.order /\ k # work.at /\ Active(k) /\ Subsumes(work.at, k)
      BY DEF SubsumedBy, Candidates, Occurs
    <3> QED
      BY <1>3, <1>4, <3>1 DEF Subsumes, Text
  <2>2. subsumed \in SUBSET Alive /\ left \notin subsumed /\ \A s \in subsumed : lits[left] \subseteq lits[s]
    BY <2>1
  <2>3. Subsume(left, subsumed)
    BY <1>6, <1>9
  <2> HIDE DEF subsumed, left
  <2> QED
    BY <1>7, <2>2, <2>3
<1> QED
  BY <1>8, <1>9

\* The records of the pass, over a set of lists of references.
SubsumerWork(refs) == [pass : {"forward_subsumer"}, order : refs, text : Seq(Clauses), stated : Nat,
                       at : Nat \ {0}, step : {"subsume", "next", "pivots"}, todo : SUBSET Literals, next : Nat]

LEMMA SubsumeLeftStep ==
  ASSUME PassesInv, SubsumeLeft
  PROVE  PassesInv' /\ work'.order = work.order /\ work'.text = work.text /\ work'.at = work.at + 1 /\ Range(Listed)' = Range(Listed)
<1>1. /\ stage = "forward_subsumer" /\ work.step = "subsume" /\ work' = [work EXCEPT !.at = @ + 1]
      /\ UNCHANGED <<session, episode, stated, highestStated, lits, extension, stage, pipeline>>
  BY DEF SubsumeLeft, callerVars
<1>2. ListsShape /\ CallerShape /\ EliminationShape /\ TurnShape /\ SubsumerShape
  BY DEF PassesInv, PassesShape, PassShape
<1>3. /\ ListsShape' /\ Range(Listed)' = Range(Listed)
      /\ redundant = <<>> => redundant' = <<>>
      /\ Live' \subseteq Live
      /\ \A m : Satisfies(m, Kept') => Satisfies(m, Kept)
  <2>1. CASE UNCHANGED <<irredundant, redundant, garbage>>
    <3>1. Listed' = Listed /\ Alive' = Alive /\ Live' = Live
      BY <1>1, <2>1 DEF Listed, Alive, Live
    <3>2. Kept' = Kept
      BY <1>1, <2>1, <3>1 DEF Kept, KeptRefs
    <3>3. ListsShape'
      BY <1>1, <1>2, <2>1 DEF ListsShape
    <3> QED
      BY <2>1, <3>1, <3>2, <3>3
  <2>2. CASE ~UNCHANGED <<irredundant, redundant, garbage>>
    <3>1. PICK r \in Alive : \E subsumed \in SUBSET Alive :
              r \notin subsumed /\ (\A s \in subsumed : lits[r] \subseteq lits[s]) /\ Subsume(r, subsumed)
      BY <2>2, SubsumeLeftIs
    <3> QED
      BY <1>1, <1>2, <3>1, SubsumptionIs
  <2> QED
    BY <2>1, <2>2
<1>4. Vars(Live') \subseteq Vars(Live) /\ Scope' = Scope /\ Eliminations' = Eliminations
  BY <1>1, <1>3, VarsGrow DEF Scope, Internal, Eliminations
<1>5. CallerShape'
  <2>1. episode # 0
    BY <1>1, <1>2 DEF CallerShape
  <2> QED
    BY <1>1, <1>2, <1>4, <2>1 DEF CallerShape
<1>6. EliminationShape'
  BY <1>1, <1>2, <1>3, <1>4 DEF EliminationShape, Assumed, Episode
<1>7. /\ work' \in [pass : {"forward_subsumer"}, order : Seq(DOMAIN lits), text : Seq(Clauses), stated : Nat,
                    at : Nat \ {0}, step : {"subsume", "next", "pivots"}, todo : SUBSET Literals, next : Nat]
      /\ work'.order = work.order /\ work'.text = work.text /\ work'.stated = work.stated /\ work'.next = work.next
      /\ work'.step = "subsume" /\ work'.at = work.at + 1
  <2>1. work \in SubsumerWork(Seq(DOMAIN lits))
    BY <1>1, <1>2 DEF SubsumerShape, SubsumerWork
  <2>2. work.at + 1 \in Nat \ {0}
    BY <2>1 DEF SubsumerWork
  <2> DEFINE refs == Seq(DOMAIN lits)
             on == work.at + 1
  <2>3. work' = [work EXCEPT !.at = on]
    BY <1>1
  <2>4. work \in SubsumerWork(refs) /\ on \in Nat \ {0}
    BY <2>1, <2>2
  <2> HIDE DEF refs, on
  <2>5. work' \in SubsumerWork(refs) /\ work'.order = work.order /\ work'.text = work.text
        /\ work'.stated = work.stated /\ work'.next = work.next /\ work'.step = work.step /\ work'.at = on
    BY <2>3, <2>4 DEF SubsumerWork
  <2> QED
    BY <1>1, <2>5 DEF SubsumerWork, refs, on
<1>8. TurnShape'
  BY <1>1, <1>2, <1>4, <1>7, PassNamesAre DEF TurnShape
<1>9. SubsumerShape'
  BY <1>1, <1>2, <1>3, <1>7 DEF SubsumerShape
<1>10. PassShape'
  BY <1>1, <1>9 DEF PassShape, ReducerShape, ProbingPassShape, EliminatorShape, FactorizerShape
<1>11. AllComeBack'
  BY <1>1, <1>3, StillComeBack DEF PassesInv
<1>12. AllCarryOver'
  <2>1. \A m : Satisfies(m, Live) => Satisfies(m, Live')
    BY <1>3 DEF Satisfies
  <2> QED
    BY <1>1, <1>2, <2>1, StillCarryOver DEF PassesInv
<1> QED
  BY <1>3, <1>5, <1>6, <1>7, <1>8, <1>10, <1>11, <1>12 DEF PassesInv, PassesShape

\* A step of a pass that changes no clause.
LEMMA MovingStep ==
  ASSUME PassesInv, stage \in PassNames, work'.next = work.next,
         UNCHANGED <<session, episode, stated, highestStated, lits, irredundant, redundant, garbage, extension, stage, pipeline>>
  PROVE  /\ Listed' = Listed
         /\ ListsShape' /\ CallerShape' /\ EliminationShape' /\ TurnShape' /\ AllComeBack' /\ AllCarryOver'
<1>1. /\ Listed' = Listed /\ Live' = Live /\ Scope' = Scope /\ Eliminations' = Eliminations
      /\ AllComeBack' /\ AllCarryOver'
  BY QuietStep
<1>2. ListsShape'
  BY DEF PassesInv, PassesShape, ListsShape
<1>3. CallerShape'
  BY <1>1, PassNamesAre DEF PassesInv, PassesShape, CallerShape
<1>4. EliminationShape'
  BY <1>1 DEF PassesInv, PassesShape, EliminationShape, Assumed, Episode
<1>5. TurnShape'
  BY <1>1, PassNamesAre DEF PassesInv, PassesShape, TurnShape
<1> QED
  BY <1>1, <1>2, <1>3, <1>4, <1>5

LEMMA MarkCheckedStep ==
  ASSUME PassesInv, MarkChecked
  PROVE  PassesInv' /\ work'.step # "subsume"
<1>1. /\ stage = "forward_subsumer" /\ work' = [work EXCEPT !.at = 1, !.step = "next"]
      /\ UNCHANGED <<session, episode, stated, highestStated, lits, irredundant, redundant, garbage, extension, stage, pipeline>>
  BY DEF MarkChecked, callerVars
<1>2. SubsumerShape
  BY DEF PassesInv, PassesShape, PassShape
<1>3. /\ work' \in SubsumerWork(Seq(DOMAIN lits)) /\ work'.order = work.order /\ work'.text = work.text
      /\ work'.stated = work.stated /\ work'.next = work.next /\ work'.step = "next"
  <2> DEFINE refs == Seq(DOMAIN lits)
  <2>1. work \in SubsumerWork(refs)
    BY <1>1, <1>2 DEF SubsumerShape, SubsumerWork
  <2> DEFINE first == 1
             then == "next"
  <2>3. work' = [work EXCEPT !.at = first, !.step = then] /\ first \in Nat \ {0} /\ then \in {"subsume", "next", "pivots"}
    BY <1>1
  <2> HIDE DEF refs, first, then
  <2>2. /\ work' \in SubsumerWork(refs) /\ work'.order = work.order /\ work'.text = work.text
        /\ work'.stated = work.stated /\ work'.next = work.next /\ work'.step = then
    BY <2>1, <2>3 DEF SubsumerWork
  <2> QED
    BY <2>2 DEF refs, then
<1>4. /\ Listed' = Listed
      /\ ListsShape' /\ CallerShape' /\ EliminationShape' /\ TurnShape' /\ AllComeBack' /\ AllCarryOver'
  BY <1>1, <1>3, PassNamesAre, MovingStep
<1>5. SubsumerShape'
  BY <1>1, <1>2, <1>3, <1>4 DEF SubsumerShape, SubsumerWork
<1>6. PassShape'
  BY <1>1, <1>5 DEF PassShape, ReducerShape, ProbingPassShape, EliminatorShape, FactorizerShape
<1> QED
  BY <1>3, <1>4, <1>6 DEF PassesInv, PassesShape

LEMMA TakeJustifierStep ==
  ASSUME PassesInv, TakeJustifier
  PROVE  PassesInv' /\ work'.step # "subsume"
<1> DEFINE rest == Text(work.at)
           takes == Active(work.at) /\ Cardinality(rest) \in 1..3
<1>1. /\ stage = "forward_subsumer" /\ work.step = "next" /\ work.at <= work.stated
      /\ work' = IF takes THEN [work EXCEPT !.step = "pivots", !.todo = rest] ELSE [work EXCEPT !.at = @ + 1]
      /\ UNCHANGED <<session, episode, stated, highestStated, lits, irredundant, redundant, garbage, extension, stage, pipeline>>
  BY DEF TakeJustifier, callerVars, clauseLists
<1>2. SubsumerShape /\ ListsShape
  BY DEF PassesInv, PassesShape, PassShape
<1> DEFINE refs == Seq(DOMAIN lits)
<1>3. work \in SubsumerWork(refs)
  BY <1>1, <1>2 DEF SubsumerShape, SubsumerWork
<1>4. work.at \in DOMAIN work.order /\ rest \in SUBSET Literals
  <2>1. work.stated <= Len(work.order) /\ work.order \in refs
    BY <1>1, <1>2 DEF SubsumerShape
  <2>2. work.at \in DOMAIN work.order
    BY <1>1, <1>3, <2>1 DEF SubsumerWork
  <2>3. work.order[work.at] \in DOMAIN lits
    BY <2>1, <2>2
  <2> QED
    BY <1>2, <2>2, <2>3, ListedIs DEF Text, Clauses
<1> HIDE DEF refs, rest
<1>5. /\ work' \in SubsumerWork(refs) /\ work'.order = work.order /\ work'.text = work.text
      /\ work'.stated = work.stated /\ work'.next = work.next
      /\ work'.step = "pivots" => takes /\ work'.at = work.at /\ work'.todo = rest
      /\ work'.step # "subsume"
  <2>1. CASE takes
    <3>1. work' = [work EXCEPT !.step = "pivots", !.todo = rest]
      BY <1>1, <2>1
    <3> HIDE DEF takes
    <3> QED
      BY <1>3, <1>4, <2>1, <3>1 DEF SubsumerWork
  <2>2. CASE ~takes
    <3> DEFINE on == work.at + 1
    <3>1. work' = [work EXCEPT !.at = on] /\ on \in Nat \ {0} /\ work.step = "next"
      BY <1>1, <1>3, <2>2 DEF SubsumerWork
    <3> HIDE DEF takes, on
    <3> QED
      BY <1>3, <3>1 DEF SubsumerWork
  <2> QED
    BY <2>1, <2>2
<1>6. /\ Listed' = Listed
      /\ ListsShape' /\ CallerShape' /\ EliminationShape' /\ TurnShape' /\ AllComeBack' /\ AllCarryOver'
  BY <1>1, <1>5, PassNamesAre, MovingStep
<1>7. work'.step = "pivots" => work'.at \in DOMAIN work'.order /\ Active(work.at)' /\ work'.todo \subseteq Text(work.at)'
  <2>1. SUFFICES ASSUME work'.step = "pivots"
                 PROVE  work'.at \in DOMAIN work'.order /\ Active(work.at)' /\ work'.todo \subseteq Text(work.at)'
    OBVIOUS
  <2>2. work'.at = work.at /\ work'.todo = rest /\ work'.order = work.order /\ takes
    BY <1>5, <2>1
  <2>3. work'.at \in DOMAIN work'.order
    BY <1>4, <2>2
  <2>4. lits' = lits /\ garbage' = garbage
    BY <1>1
  <2>5. Active(work.at)'
    BY <2>2, <2>4 DEF Active
  <2>6. Text(work.at)' = Text(work.at)
    BY <2>2, <2>4 DEF Text
  <2> QED
    BY <2>2, <2>3, <2>5, <2>6 DEF rest
<1>8. SubsumerShape'
  BY <1>1, <1>2, <1>5, <1>6, <1>7 DEF SubsumerShape, SubsumerWork, refs
<1>9. PassShape'
  BY <1>1, <1>8 DEF PassShape, ReducerShape, ProbingPassShape, EliminatorShape, FactorizerShape
<1> QED
  BY <1>5, <1>6, <1>9 DEF PassesInv, PassesShape

\* The justifier and the clause it strengthens imply the shorter one.
LEMMA StrengthenByPivotStep ==
  ASSUME PassesInv, StrengthenByPivot
  PROVE  PassesInv' /\ work'.step # "subsume" /\ DOMAIN lits' = DOMAIN lits
<1>1. PICK pivot \in work.todo :
        /\ lits' = [r \in DOMAIN lits |-> IF r \in Strengthened(pivot) THEN lits[r] \ {-pivot} ELSE lits[r]]
        /\ work' = IF work.todo = {pivot}
                   THEN [work EXCEPT !.at = @ + 1, !.step = "next", !.todo = {}]
                   ELSE [work EXCEPT !.todo = @ \ {pivot}]
  BY DEF StrengthenByPivot
<1>2. /\ stage = "forward_subsumer" /\ work.step = "pivots"
      /\ UNCHANGED <<session, episode, stated, highestStated, irredundant, redundant, garbage, extension, stage, pipeline>>
  BY DEF StrengthenByPivot, callerVars
<1>3. SubsumerShape /\ ListsShape /\ CallerShape
  BY DEF PassesInv, PassesShape, PassShape
<1> DEFINE refs == Seq(DOMAIN lits)
           S == Strengthened(pivot)
           justifier == work.order[work.at]
<1>4. /\ work \in SubsumerWork(refs)
      /\ Distinct(work.order) /\ Range(work.order) = Range(Listed)
      /\ work.at \in DOMAIN work.order /\ Active(work.at) /\ work.todo \subseteq Text(work.at)
  BY <1>2, <1>3 DEF SubsumerShape, SubsumerWork
<1>5. /\ justifier \in Alive /\ lits[justifier] \in Clauses /\ pivot \in lits[justifier] /\ pivot \in Literals
      /\ -pivot \notin lits[justifier] /\ Var(pivot) \in Vars(Live)
  <2>1. justifier \in Range(Listed) /\ justifier \notin garbage
    BY <1>4 DEF Range, Active
  <2>2. justifier \in Alive /\ pivot \in lits[justifier]
    BY <1>4, <2>1 DEF Alive, Text
  <2>3. lits[justifier] \in Clauses /\ lits[justifier] \in Live
    BY <1>3, <2>2, ListedIs DEF Live
  <2> QED
    BY <2>2, <2>3, VarsHas DEF Clauses
<1>6. \A r \in S : r # justifier /\ lits[justifier] \ {pivot} \subseteq lits[r]
  <2>1. ASSUME NEW r \in S PROVE r # justifier /\ lits[justifier] \ {pivot} \subseteq lits[r]
    <3>1. PICK k \in Occurs(-pivot) \ {work.at} : r = work.order[k] /\ Justifies(pivot, Text(k))
      BY DEF Strengthened
    <3>2. k \in DOMAIN work.order /\ k # work.at
      BY DEF Occurs
    <3> QED
      BY <1>4, <3>1, <3>2 DEF Distinct, Justifies, Text
  <2> QED
    BY <2>1
<1> HIDE DEF S, justifier
<1>7. lits' \in [DOMAIN lits -> Clauses] /\ \A r \in DOMAIN lits : lits'[r] \subseteq lits[r]
  <2>1. \A r \in DOMAIN lits : lits[r] \in Clauses
    BY <1>3, ListedIs
  <2>2. ASSUME NEW r \in DOMAIN lits PROVE lits'[r] \in Clauses /\ lits'[r] \subseteq lits[r]
    BY <1>1, <2>1, SmallerClause
  <2> QED
    BY <1>1, <2>2
<1>8. /\ work' \in SubsumerWork(refs) /\ work'.order = work.order /\ work'.text = work.text
      /\ work'.stated = work.stated /\ work'.next = work.next
      /\ work'.step = "pivots" => work'.at = work.at /\ work'.todo \subseteq work.todo
      /\ work'.step # "subsume"
  <2> DEFINE then == "next"
             none == {}
             on == work.at + 1
             rest == work.todo \ {pivot}
  <2>1. /\ on \in Nat \ {0} /\ then \in {"subsume", "next", "pivots"} /\ then \notin {"pivots", "subsume"} /\ none \in SUBSET Literals
        /\ rest \in SUBSET Literals /\ rest \subseteq work.todo
    BY <1>4 DEF SubsumerWork
  <2>2. \/ work' = [work EXCEPT !.at = on, !.step = then, !.todo = none]
        \/ work' = [work EXCEPT !.todo = rest]
    BY <1>1
  <2> HIDE DEF refs, then, none, on, rest
  <2>3. CASE work' = [work EXCEPT !.at = on, !.step = then, !.todo = none]
    BY <1>4, <2>1, <2>3 DEF SubsumerWork
  <2>4. CASE work' = [work EXCEPT !.todo = rest]
    BY <1>2, <1>4, <2>1, <2>4 DEF SubsumerWork
  <2> QED
    BY <2>2, <2>3, <2>4
<1>9. /\ DOMAIN lits' = DOMAIN lits /\ Len(lits') = Len(lits)
      /\ Listed' = Listed /\ Alive' = Alive /\ Alive \subseteq DOMAIN lits
      /\ ListsShape' /\ CallerShape' /\ EliminationShape' /\ TurnShape' /\ AllComeBack'
  BY <1>2, <1>7, <1>8, PassNamesAre, ShrinkingStep
<1>10. lits'[justifier] = lits[justifier]
  BY <1>1, <1>5, <1>6, <1>9 DEF S
<1>11. SubsumerShape'
  <2>1. \A r \in DOMAIN lits' : lits'[r] \subseteq work'.text[r]
    BY <1>2, <1>3, <1>7, <1>8, <1>9 DEF SubsumerShape
  <2>2. work'.step = "pivots" => work'.at \in DOMAIN work'.order /\ Active(work.at)' /\ work'.todo \subseteq Text(work.at)'
    BY <1>2, <1>4, <1>8, <1>10 DEF Active, Text, justifier
  <2>3. Len(work'.text) = Len(lits') /\ work'.stated <= Len(work'.order)
    BY <1>2, <1>3, <1>8, <1>9 DEF SubsumerShape
  <2>4. work' \in SubsumerWork(Seq(DOMAIN lits'))
    BY <1>8, <1>9 DEF refs
  <2> QED
    BY <1>4, <1>8, <1>9, <2>1, <2>2, <2>3, <2>4 DEF SubsumerShape, SubsumerWork
<1>12. PassShape'
  BY <1>2, <1>11 DEF PassShape, ReducerShape, ProbingPassShape, EliminatorShape, FactorizerShape
<1>13. ASSUME NEW vars \in SUBSET (1..MaxVariable), NEW m \in [vars -> BOOLEAN], Scope \subseteq vars, Satisfies(m, Live)
       PROVE  Satisfies(m, Live')
  <2>1. ASSUME NEW r \in Alive PROVE Holds(m, lits'[r])
    <3>1. r \in DOMAIN lits /\ Holds(m, lits[r]) /\ Holds(m, lits[justifier])
      BY <1>5, <1>9, <1>13 DEF Satisfies, Live
    <3>2. CASE r \notin S
      BY <1>1, <3>1, <3>2 DEF S
    <3>3. CASE r \in S
      <4>1. lits'[r] = lits[r] \ {-pivot} /\ lits[justifier] \ {pivot} \subseteq lits[r]
        BY <1>1, <1>6, <3>1, <3>3 DEF S
      <4>2. CASE True(m, pivot)
        <5>1. ~True(m, -pivot)
          <6>1. Var(pivot) \in vars
            BY <1>3, <1>5, <1>13 DEF CallerShape
          <6> QED
            BY <1>5, <4>2, <6>1, OneIsTrue
        <5> QED
          BY <3>1, <4>1, <5>1 DEF Holds
      <4>3. CASE ~True(m, pivot)
        <5>1. PICK l \in lits[justifier] : True(m, l)
          BY <3>1 DEF Holds
        <5>2. l # pivot /\ l # -pivot
          BY <1>5, <4>3, <5>1
        <5> QED
          BY <4>1, <5>1, <5>2 DEF Holds
      <4> QED
        BY <4>2, <4>3
    <3> QED
      BY <3>2, <3>3
  <2> QED
    BY <1>9, <2>1 DEF Satisfies, Live
<1>14. AllCarryOver'
  BY <1>2, <1>3, <1>13, StillCarryOver DEF PassesInv
<1> QED
  BY <1>8, <1>9, <1>12, <1>14 DEF PassesInv, PassesShape

-----------------------------------------------------------------------------
(* Clauses that are added                                                  *)

\* The clauses with new ones after them, and the references those get.
Longer(more) == lits \o more
NewRefs(more) == [k \in 1..Len(more) |-> Len(lits) + k]

LEMMA GrowingIs ==
  ASSUME lits \in Seq(Clauses), NEW more \in Seq(Clauses)
  PROVE  /\ Longer(more) \in Seq(Clauses) /\ DOMAIN lits \subseteq DOMAIN Longer(more)
         /\ \A r \in DOMAIN lits : Longer(more)[r] = lits[r]
         /\ NewRefs(more) \in Seq(DOMAIN Longer(more)) /\ Distinct(NewRefs(more))
         /\ Range(NewRefs(more)) \cap DOMAIN lits = {}
         /\ {Longer(more)[r] : r \in Range(NewRefs(more))} = Range(more)
<1> DEFINE all == Longer(more)
           added == NewRefs(more)
           L == Len(lits)
           M == Len(more)
<1>1. /\ L \in Nat /\ M \in Nat /\ DOMAIN lits = 1..L /\ DOMAIN more = 1..M /\ DOMAIN all = 1..(L + M)
      /\ \A r \in 1..L : all[r] = lits[r]
      /\ \A k \in 1..M : all[L + k] = more[k]
      /\ all \in Seq(Clauses)
  BY DEF Longer
<1>2. added = [k \in 1..M |-> L + k]
  BY DEF NewRefs
<1> HIDE DEF all, added, L, M
<1>3. \A k \in 1..M : L + k \in 1..(L + M) /\ L + k \notin 1..L
  BY <1>1
<1>4. added \in Seq(DOMAIN all) /\ Distinct(added)
  <2>1. added \in [1..M -> DOMAIN all]
    BY <1>1, <1>2, <1>3
  <2>2. \A i, j \in 1..M : L + i = L + j => i = j
    BY <1>1
  <2>3. added \in Seq(DOMAIN all)
    BY <1>1, <2>1
  <2> QED
    BY <1>2, <2>2, <2>3 DEF Distinct
<1>5. Range(added) = {L + k : k \in 1..M}
  BY <1>2 DEF Range
<1>6. Range(added) \cap DOMAIN lits = {}
  BY <1>1, <1>3, <1>5
<1>7. {all[r] : r \in Range(added)} = Range(more)
  <2>1. Range(more) = {more[k] : k \in 1..M}
    BY <1>1 DEF Range
  <2>2. {all[r] : r \in Range(added)} = {all[L + k] : k \in 1..M}
    BY <1>5
  <2>3. {all[L + k] : k \in 1..M} = {more[k] : k \in 1..M}
    BY <1>1
  <2> QED
    BY <2>1, <2>2, <2>3
<1>8. DOMAIN lits \subseteq DOMAIN all /\ \A r \in DOMAIN lits : all[r] = lits[r]
  BY <1>1
<1>9. all \in Seq(Clauses)
  BY <1>1
<1> QED
  BY <1>4, <1>6, <1>7, <1>8, <1>9 DEF all, added

\* New clauses leave those there are as they were.
Extends ==
  /\ DOMAIN lits \subseteq DOMAIN lits' /\ \A r \in DOMAIN lits : lits'[r] = lits[r]
  /\ Alive' \cap DOMAIN lits \subseteq Alive

\* What a list holds once new clauses are on it.
LEMMA ListGrows ==
  ASSUME NEW D, NEW E, D \subseteq E, NEW list \in Seq(D), NEW added \in Seq(E),
         Distinct(list), Distinct(added), Range(added) \cap D = {}
  PROVE  /\ list \in Seq(E) /\ list \o added \in Seq(E) /\ Distinct(list \o added)
         /\ Range(list \o added) = Range(list) \cup Range(added)
<1>1. list \in Seq(E) /\ Range(list) \subseteq D
  <2>1. list \in Seq(E)
    BY SeqGrows
  <2>2. Range(list) \subseteq D
    BY DEF Range
  <2> QED
    BY <2>1, <2>2
<1>2. Range(list) \cap Range(added) = {}
  BY <1>1
<1> QED
  BY <1>1, <1>2, ConcatHolds

-----------------------------------------------------------------------------
(* Bounded variable elimination                                            *)

LEMMA KeepVariableStep ==
  ASSUME PassesInv, KeepVariable
  PROVE  PassesInv'
<1>1. /\ stage = "bounded" /\ work' = [work EXCEPT !.at = @ + 1]
      /\ UNCHANGED <<session, episode, stated, highestStated, lits, irredundant, redundant, garbage, extension, stage, pipeline>>
  BY DEF KeepVariable, callerVars, clauseLists
<1>2. EliminatorShape
  BY DEF PassesInv, PassesShape, PassShape
<1>3. /\ work' \in [pass : {"bounded"}, registered : Seq(DOMAIN lits), at : Nat \ {0}, next : Nat \ {0}]
      /\ work'.registered = work.registered /\ work'.next = work.next
  <2> DEFINE refs == Seq(DOMAIN lits)
             on == work.at + 1
  <2>1. work \in [pass : {"bounded"}, registered : refs, at : Nat \ {0}, next : Nat \ {0}]
    BY <1>1, <1>2 DEF EliminatorShape
  <2>2. on \in Nat \ {0} /\ work' = [work EXCEPT !.at = on]
    BY <1>1, <2>1
  <2> HIDE DEF refs, on
  <2>3. /\ work' \in [pass : {"bounded"}, registered : refs, at : Nat \ {0}, next : Nat \ {0}]
        /\ work'.registered = work.registered /\ work'.next = work.next
    BY <2>1, <2>2
  <2> QED
    BY <2>3 DEF refs
<1>4. ListsShape' /\ CallerShape' /\ EliminationShape' /\ TurnShape' /\ AllComeBack' /\ AllCarryOver'
  BY <1>1, <1>3, PassNamesAre, MovingStep
<1>5. EliminatorShape'
  BY <1>1, <1>2, <1>3 DEF EliminatorShape
<1>6. PassShape'
  BY <1>1, <1>5 DEF PassShape, ReducerShape, ProbingPassShape, SubsumerShape, FactorizerShape
<1> QED
  BY <1>4, <1>6 DEF PassesInv, PassesShape

\* A resolvent follows from its two clauses.
LEMMA ResolventFollows ==
  ASSUME NEW m, NEW v \in 1..MaxVariable, NEW c, NEW d, Holds(m, c), Holds(m, d)
  PROVE  Holds(m, Resolve(c, d, v))
<1>1. v > 0 /\ ~(-v > 0) /\ Var(v) = Var(-v)
  BY SessionsAssumption DEF SessionsAssumption, Var
<1>2. ~(True(m, v) /\ True(m, -v))
  BY <1>1 DEF True
<1>3. PICK a \in c : True(m, a)
  BY DEF Holds
<1>4. PICK b \in d : True(m, b)
  BY DEF Holds
<1>5. a # v \/ b # -v
  BY <1>2, <1>3, <1>4
<1>6. a \in Resolve(c, d, v) \/ b \in Resolve(c, d, v)
  BY <1>5 DEF Resolve
<1> QED
  BY <1>3, <1>4, <1>6 DEF Holds

\* An assignment that satisfies the clauses without a variable, and the
\* resolvents of those with it, is repaired into one that satisfies them all.
LEMMA RepairIs ==
  ASSUME NEW vars \in SUBSET (1..MaxVariable), NEW m \in [vars -> BOOLEAN], NEW v \in 1..MaxVariable,
         NEW live \in SUBSET Clauses, Vars(live) \subseteq vars,
         \A c \in live : v \notin c /\ -v \notin c => Holds(m, c),
         \A c \in live, d \in live :
            v \in c /\ -v \in d /\ Resolve(c, d, v) \in Clauses => Holds(m, Resolve(c, d, v)),
         NEW record, record.var = v, record.witness = {c \in live : v \in c}
  PROVE  Satisfies(Repaired(m, record), live)
<1> DEFINE low == SetTo(m, v, FALSE)
           high == SetTo(m, v, TRUE)
<1>1. v > 0 /\ ~(-v > 0) /\ Var(v) = v /\ Var(-v) = v /\ -v \in Int /\ -v # v
  BY SessionsAssumption DEF SessionsAssumption, Var
<1>2. \A c \in live : \A l \in c : l \in Literals /\ -l \notin c /\ Var(l) \in vars
  BY VarsHas DEF Clauses
<1>3. /\ low \in [vars \cup {v} -> BOOLEAN] /\ low[v] = FALSE /\ \A u \in vars : u # v => low[u] = m[u]
      /\ high \in [vars \cup {v} -> BOOLEAN] /\ high[v] = TRUE /\ \A u \in vars : u # v => high[u] = m[u]
  <2>1. low \in [vars \cup {v} -> BOOLEAN] /\ low[v] = FALSE /\ \A u \in vars : u # v => low[u] = m[u]
    BY DEF low, SetTo
  <2>2. high \in [vars \cup {v} -> BOOLEAN] /\ high[v] = TRUE /\ \A u \in vars : u # v => high[u] = m[u]
    BY DEF high, SetTo
  <2> QED
    BY <2>1, <2>2
<1> HIDE DEF low, high
<1>4. \A l \in Literals : Var(l) = v => l = v \/ l = -v
  BY <1>1 DEF Literals, Var
<1>5. \A l \in Literals : Var(l) \in vars /\ l # v /\ l # -v => (True(low, l) <=> True(m, l)) /\ (True(high, l) <=> True(m, l))
  BY <1>3, <1>4, TrueAgrees
<1>6. True(low, -v) /\ True(high, v)
  <2>1. Var(-v) \in DOMAIN low /\ ~low[Var(-v)] /\ Var(v) \in DOMAIN high /\ high[Var(v)]
    BY <1>1, <1>3
  <2>2. low[Var(-v)] \in BOOLEAN /\ high[Var(v)] \in BOOLEAN
    BY <1>1, <1>3
  <2> DEFINE positive == v > 0
             negative == -v > 0
  <2>3. positive /\ ~negative /\ positive \in BOOLEAN /\ negative \in BOOLEAN
    BY <1>1
  <2> HIDE DEF positive, negative
  <2>4. low[Var(-v)] = negative /\ high[Var(v)] = positive
    BY <2>1, <2>2, <2>3, Zenon
  <2> QED
    BY <2>1, <2>4, Zenon DEF True, positive, negative
<1>7. Repaired(m, record) = IF \A c \in live : v \in c => Holds(low, c) THEN low ELSE high
  BY DEF Repaired, low, high
<1>8. ASSUME NEW c \in live, v \notin c, -v \notin c PROVE Holds(low, c) /\ Holds(high, c)
  <2>1. PICK l \in c : True(m, l)
    BY <1>8 DEF Holds
  <2> QED
    BY <1>2, <1>5, <1>8, <2>1 DEF Holds
<1>9. CASE \A c \in live : v \in c => Holds(low, c)
  <2>1. ASSUME NEW c \in live PROVE Holds(low, c)
    <3>1. CASE v \in c
      BY <1>9, <3>1
    <3>2. CASE -v \in c
      BY <1>6, <3>2 DEF Holds
    <3> QED
      BY <1>8, <3>1, <3>2
  <2> QED
    BY <1>7, <1>9, <2>1 DEF Satisfies
<1>10. CASE ~\A c \in live : v \in c => Holds(low, c)
  <2>1. PICK c \in live : v \in c /\ ~Holds(low, c)
    BY <1>10
  <2>2. ASSUME NEW d \in live, -v \in d, v \notin d PROVE Holds(high, d)
    <3>1. CASE Resolve(c, d, v) \in Clauses
      <4>1. PICK l \in Resolve(c, d, v) : True(m, l)
        BY <2>1, <2>2, <3>1 DEF Holds
      <4>2. l \notin c
        <5>1. SUFFICES ASSUME l \in c PROVE FALSE
          OBVIOUS
        <5>2. l # -v
          BY <1>2, <2>1, <5>1
        <5>3. l # v
          BY <1>2, <2>1, <2>2, <4>1, <5>1 DEF Resolve
        <5>4. True(low, l)
          BY <1>2, <1>5, <4>1, <5>1, <5>2, <5>3
        <5> QED
          BY <2>1, <5>1, <5>4 DEF Holds
      <4>3. l \in d /\ l # -v /\ l # v
        BY <2>2, <4>1, <4>2 DEF Resolve
      <4> QED
        BY <1>2, <1>5, <4>1, <4>3 DEF Holds
    <3>2. CASE Resolve(c, d, v) \notin Clauses
      <4>1. Resolve(c, d, v) \in SUBSET Literals
        BY <1>2 DEF Resolve
      <4>2. PICK l \in Resolve(c, d, v) : -l \in Resolve(c, d, v)
        BY <3>2, <4>1 DEF Clauses
      <4>3. l \in Literals /\ -(-l) = l
        BY <4>1, <4>2, LiteralIs
      <4>4. \E k \in c : k # v /\ -k \in d /\ -k # -v
        <5>1. CASE l \in c /\ l # v
          <6>1. -l \notin c
            BY <1>2, <5>1
          <6> QED
            BY <4>2, <5>1, <6>1 DEF Resolve
        <5>2. CASE ~(l \in c /\ l # v)
          <6>1. l \in d /\ l # -v
            BY <4>2, <5>2 DEF Resolve
          <6>2. -l \notin d
            BY <1>2, <6>1
          <6>3. -l \in c /\ -l # v
            BY <4>2, <6>2 DEF Resolve
          <6> QED
            BY <4>3, <6>1, <6>3
        <5> QED
          BY <5>1, <5>2
      <4>5. PICK k \in c : k # v /\ -k \in d /\ -k # -v
        BY <4>4
      <4>6. k \in Literals /\ Var(k) \in vars /\ k # -v /\ ~True(low, k)
        <5>1. -v \notin c
          BY <1>2, <2>1
        <5>2. k # -v
          BY <4>5, <5>1
        <5> QED
          BY <1>2, <2>1, <4>5, <5>2 DEF Holds
      <4>7. ~True(m, k)
        BY <1>5, <4>5, <4>6
      <4>8. True(m, -k)
        BY <4>6, <4>7, OneIsTrue
      <4>9. -k \in Literals /\ Var(-k) \in vars /\ -k # v
        BY <1>2, <2>2, <4>5
      <4> QED
        BY <1>5, <4>5, <4>8, <4>9 DEF Holds
    <3> QED
      BY <3>1, <3>2
  <2>3. ASSUME NEW d \in live PROVE Holds(high, d)
    <3>1. CASE v \in d
      BY <1>6, <3>1 DEF Holds
    <3> QED
      BY <1>8, <2>2, <3>1
  <2> QED
    BY <1>7, <1>10, <2>3 DEF Satisfies
<1> QED
  BY <1>9, <1>10

\* While variables are eliminated nothing is learned, and the occurrence lists
\* hold every clause there is.
LEMMA OccurrencesAre ==
  ASSUME PassesInv, stage = "bounded"
  PROVE  /\ redundant = <<>> /\ Range(Listed) = Range(irredundant) /\ Alive = Range(irredundant) \ garbage
         /\ session.eliminate /\ pipeline = "initial" /\ Kept = Live
         /\ \A l : /\ Range(Holding(l)) = {r \in Range(irredundant) : l \in lits[r]}
                   /\ Standing(l) = {r \in Alive : l \in lits[r]}
<1>1. ListsShape /\ EliminationShape /\ EliminatorShape
  BY DEF PassesInv, PassesShape, PassShape
<1>2. session.eliminate /\ pipeline = "initial" /\ Range(work.registered) = Range(irredundant) /\ work.registered \in Seq(DOMAIN lits)
  BY <1>1 DEF EliminatorShape
<1>3. redundant = <<>>
  BY <1>1, <1>2 DEF EliminationShape
<1>4. Range(Listed) = Range(irredundant) /\ Alive = Range(irredundant) \ garbage
  <2>1. Range(redundant) = {}
    BY <1>3 DEF Range
  <2> QED
    BY <1>1, <2>1, ListedIs DEF Alive
<1>5. Kept = Live
  <2>1. KeptRefs = Alive
    BY <1>4 DEF KeptRefs
  <2> QED
    BY <2>1 DEF Kept, Live
<1>6. ASSUME NEW l
      PROVE  /\ Range(Holding(l)) = {r \in Range(irredundant) : l \in lits[r]}
             /\ Standing(l) = {r \in Alive : l \in lits[r]}
  <2> DEFINE D == DOMAIN lits
             W == {r \in Range(work.registered) : l \in lits[r]}
  <2>1. work.registered \in Seq(D) /\ Holding(l) = Keeping(work.registered, W)
    BY <1>2 DEF Holding
  <2> HIDE DEF D, W
  <2>2. Range(Holding(l)) = Range(work.registered) \cap W
    BY <2>1, KeepingIs
  <2>3. Range(Holding(l)) = {r \in Range(irredundant) : l \in lits[r]}
    BY <1>2, <2>2 DEF W
  <2> QED
    BY <1>4, <2>3 DEF Standing
<1> QED
  BY <1>2, <1>3, <1>4, <1>5, <1>6

\* The resolvents of the clauses with a variable and those with its negation.
LEMMA ResolventsAre ==
  ASSUME PassesInv, stage = "bounded", NEW v \in 1..MaxVariable
  PROVE  /\ Resolvents(v) \in Seq(Clauses)
         /\ Range(Resolvents(v)) =
              {Resolve(lits[p[1]], lits[p[2]], v) : p \in Standing(v) \X Standing(-v)} \cap Clauses
<1> DEFINE P == Standing(v) \X Standing(-v)
           pairs == SetToSeq(P)
           all == [k \in DOMAIN pairs |-> Resolve(lits[pairs[k][1]], lits[pairs[k][2]], v)]
           R == {Resolve(lits[p[1]], lits[p[2]], v) : p \in P}
<1>1. IsFiniteSet(P)
  <2>1. Standing(v) \subseteq DOMAIN lits /\ Standing(-v) \subseteq DOMAIN lits
    BY OccurrencesAre, ListedIs DEF PassesInv, PassesShape
  <2>2. IsFiniteSet(DOMAIN lits)
    <3>1. Len(lits) \in Nat /\ DOMAIN lits = 1..Len(lits) /\ 1 \in Int /\ Len(lits) \in Int
      BY DEF PassesInv, PassesShape, ListsShape
    <3> QED
      BY <3>1, FS_Interval
  <2> QED
    BY <2>1, <2>2, FS_Subset, FS_Product
<1> HIDE DEF P
<1>2. pairs \in Seq(P) /\ Range(pairs) = P
  BY <1>1, SetToSeqIs
<1> HIDE DEF pairs
<1>3. all \in Seq(R) /\ Range(all) = R
  <2>1. Len(pairs) \in Nat /\ DOMAIN pairs = 1..Len(pairs) /\ \A k \in DOMAIN pairs : pairs[k] \in P
    BY <1>2
  <2>2. all \in [1..Len(pairs) -> R]
    BY <2>1
  <2>3. Range(all) = {Resolve(lits[pairs[k][1]], lits[pairs[k][2]], v) : k \in DOMAIN pairs}
    BY DEF Range
  <2>4. {Resolve(lits[pairs[k][1]], lits[pairs[k][2]], v) : k \in DOMAIN pairs} = R
    BY <1>2 DEF Range
  <2> QED
    BY <2>1, <2>2, <2>3, <2>4
<1>4. Resolvents(v) = Keeping(all, Clauses)
  BY DEF Resolvents, pairs, P
<1> HIDE DEF all, R
<1>5. Resolvents(v) \in Seq(R) /\ Range(Resolvents(v)) = R \cap Clauses
  BY <1>3, <1>4, KeepingIs
<1>6. Resolvents(v) \in Seq(Clauses)
  <2>1. Len(Resolvents(v)) \in Nat /\ Resolvents(v) \in [1..Len(Resolvents(v)) -> R]
    BY <1>5
  <2>2. \A k \in 1..Len(Resolvents(v)) : Resolvents(v)[k] \in Clauses
    BY <1>5, <2>1 DEF Range
  <2> QED
    BY <2>1, <2>2
<1> QED
  BY <1>5, <1>6 DEF R, P

\* What an elimination leaves: the clauses without the variable, and the
\* resolvents.
LEMMA EliminationIs ==
  ASSUME PassesInv, ApplyElimination
  PROVE  LET v == work.at
             resolvents == {Resolve(lits[p[1]], lits[p[2]], v) : p \in Standing(v) \X Standing(-v)} \cap Clauses
         IN /\ v \in 1..MaxVariable
            /\ extension' = Append(extension, [kind |-> "bve", var |-> v, witness |-> Witness(v)])
            /\ ListsShape' /\ EliminatorShape' /\ work'.next = work.next
            /\ Live' = {c \in Live : v \notin c /\ -v \notin c} \cup resolvents
            /\ Kept' = Live' /\ Extends
<1> DEFINE v == work.at
           more == Resolvents(v)
           added == NewRefs(more)
           gone == Range(Holding(v)) \cup Range(Holding(-v))
           resolvents == {Resolve(lits[p[1]], lits[p[2]], v) : p \in Standing(v) \X Standing(-v)} \cap Clauses
           all == Longer(more)
           D == DOMAIN lits
           E == DOMAIN all
<1>1. /\ stage = "bounded" /\ v <= MaxVariable /\ CanEliminate(v)
      /\ extension' = Append(extension, [kind |-> "bve", var |-> v, witness |-> Witness(v)])
      /\ garbage' = garbage \cup Range(Holding(v)) \cup Range(Holding(-v))
      /\ lits' = all /\ irredundant' = irredundant \o added
      /\ work' = [work EXCEPT !.at = @ + 1, !.registered = @ \o added]
      /\ UNCHANGED <<session, pipeline, stage, redundant>>
  BY DEF ApplyElimination, callerVars, NewRefs, Longer
<1>2. ListsShape /\ EliminatorShape
  BY DEF PassesInv, PassesShape, PassShape
<1>3. /\ work \in [pass : {"bounded"}, registered : Seq(D), at : Nat \ {0}, next : Nat \ {0}]
      /\ Range(work.registered) = Range(irredundant)
  BY <1>1, <1>2 DEF EliminatorShape
<1>4. v \in 1..MaxVariable
  BY <1>1, <1>3, SessionsAssumption DEF SessionsAssumption
<1>5. /\ redundant = <<>> /\ Range(Listed) = Range(irredundant) /\ Alive = Range(irredundant) \ garbage
      /\ session.eliminate /\ pipeline = "initial"
      /\ \A l : /\ Range(Holding(l)) = {r \in Range(irredundant) : l \in lits[r]}
                /\ Standing(l) = {r \in Alive : l \in lits[r]}
  BY <1>1, OccurrencesAre
<1>6. more \in Seq(Clauses) /\ Range(more) = resolvents
  BY <1>1, <1>4, ResolventsAre
<1>7. /\ irredundant \in Seq(D) /\ Distinct(irredundant) /\ garbage \subseteq D /\ lits \in Seq(Clauses)
      /\ Range(irredundant) \subseteq D
  <2>1. Range(irredundant) \subseteq D
    BY <1>2, ListedIs
  <2> QED
    BY <1>2, <2>1 DEF ListsShape
<1> HIDE DEF more
<1>8. /\ all \in Seq(Clauses) /\ D \subseteq E /\ \A r \in D : all[r] = lits[r]
      /\ added \in Seq(E) /\ Distinct(added) /\ Range(added) \cap D = {}
      /\ {all[r] : r \in Range(added)} = Range(more)
  BY <1>6, <1>7, GrowingIs
<1> HIDE DEF added, all, D, E
<1>9. /\ irredundant \o added \in Seq(E) /\ Distinct(irredundant \o added)
      /\ Range(irredundant \o added) = Range(irredundant) \cup Range(added)
  BY <1>7, <1>8, ListGrows
<1>10. /\ work.registered \o added \in Seq(E)
       /\ Range(work.registered \o added) = Range(irredundant) \cup Range(added)
  <2>1. work.registered \in Seq(E)
    BY <1>3, <1>8, SeqGrows
  <2> QED
    BY <1>3, <1>8, <2>1, ConcatHolds
<1>11. DOMAIN lits' = E /\ redundant' = <<>> /\ garbage' = garbage \cup gone
  BY <1>1, <1>5 DEF E
<1>12. gone \subseteq D
  BY <1>5, <1>7
<1>13. ListsShape'
  <2>1. <<>> \in Seq(E) /\ Distinct(<<>>) /\ Range(<<>>) = {}
    BY DEF Distinct, Range
  <2>2. garbage' \subseteq E
    BY <1>7, <1>8, <1>11, <1>12
  <2>3. stage' \notin {"stating", "between", "probing", "searching"}
    BY <1>1
  <2> QED
    BY <1>1, <1>8, <1>9, <1>11, <2>1, <2>2, <2>3 DEF ListsShape
<1>14. /\ work' \in [pass : {"bounded"}, registered : Seq(E), at : Nat \ {0}, next : Nat \ {0}]
       /\ work'.registered = work.registered \o added /\ work'.next = work.next
  <2> DEFINE short == Seq(D)
             long == Seq(E)
             on == work.at + 1
             list == work.registered \o added
  <2>1. /\ work \in [pass : {"bounded"}, registered : short, at : Nat \ {0}, next : Nat \ {0}]
        /\ list \in long /\ work' = [work EXCEPT !.at = on, !.registered = list]
    BY <1>1, <1>3, <1>10
  <2>2. on \in Nat \ {0}
    BY <2>1
  <2> HIDE DEF short, long, on, list
  <2>3. /\ work' \in [pass : {"bounded"}, registered : long, at : Nat \ {0}, next : Nat \ {0}]
        /\ work'.registered = list /\ work'.next = work.next
    BY <2>1, <2>2
  <2> QED
    BY <2>3 DEF long, list
<1>15. EliminatorShape'
  BY <1>1, <1>5, <1>9, <1>10, <1>11, <1>14 DEF EliminatorShape
<1>16. Alive' = (Alive \ gone) \cup Range(added)
  <2>1. Range(Listed') = Range(irredundant) \cup Range(added)
    <3> DEFINE longer == irredundant \o added
    <3>1. Listed' = longer \o <<>>
      BY <1>1, <1>11 DEF Listed
    <3>2. longer \in Seq(E)
      BY <1>9
    <3> HIDE DEF longer
    <3>3. Listed' = longer
      BY <3>1, <3>2
    <3> QED
      BY <1>9, <3>3 DEF longer
  <2> QED
    BY <1>5, <1>7, <1>8, <1>11, <1>12, <2>1 DEF Alive
<1>17. Alive \ gone = {r \in Alive : v \notin lits[r] /\ -v \notin lits[r]}
  BY <1>5
<1>18. Live' = {c \in Live : v \notin c /\ -v \notin c} \cup resolvents
  <2>1. Live' = {all[r] : r \in Alive \ gone} \cup {all[r] : r \in Range(added)}
    BY <1>1, <1>16 DEF Live
  <2>2. {all[r] : r \in Alive \ gone} = {lits[r] : r \in Alive \ gone}
    BY <1>5, <1>7, <1>8
  <2>3. {lits[r] : r \in Alive \ gone} = {c \in Live : v \notin c /\ -v \notin c}
    BY <1>17 DEF Live
  <2> HIDE DEF gone, resolvents
  <2> QED
    BY <1>6, <1>8, <2>1, <2>2, <2>3
<1>19. Kept' = Live'
  <2>1. KeptRefs' = Alive'
    BY <1>1, <1>5, <1>7, <1>8, <1>9, <1>16 DEF KeptRefs
  <2> QED
    BY <2>1 DEF Kept, Live
<1>20. Extends
  BY <1>1, <1>8, <1>11, <1>16 DEF Extends, D
<1> QED
  BY <1>1, <1>4, <1>13, <1>14, <1>15, <1>18, <1>19, <1>20

\* The extension stack with one more record.
LEMMA StackGrows ==
  ASSUME CallerShape, NEW record \in Records, extension' = Append(extension, record), UNCHANGED stated
  PROVE  /\ extension' \in Seq(Records) /\ Range(extension') = Range(extension) \cup {record}
         /\ Eliminations' = Eliminations \cup {r \in {record} : r.kind = "bve"}
         /\ Internal' = Internal \cup {r.var : r \in {q \in {record} : q.kind = "factor"}}
         /\ \A m \in Partial : Undone(m)' = Replay(extension, Replayed(m, record))
         /\ \A m \in Partial : Completed(m)' = Introduced(Complete(extension, m), record)
<1>1. extension \in Seq(Records)
  BY DEF CallerShape
<1>2. extension' \in Seq(Records) /\ Range(extension') = Range(extension) \cup {record}
  BY <1>1, AppendHolds
<1>3. /\ Eliminations' = Eliminations \cup {r \in {record} : r.kind = "bve"}
      /\ Internal' = Internal \cup {r.var : r \in {q \in {record} : q.kind = "factor"}}
  BY <1>2 DEF Eliminations, Internal
<1>4. ASSUME NEW m \in Partial PROVE Undone(m)' = Replay(extension, Replayed(m, record))
  <2>1. Undone(m)' = Replay(extension', m)
    BY DEF Undone, Replay
  <2> QED
    BY <1>1, <2>1, ReplayAppend
<1>5. ASSUME NEW m \in Partial PROVE Completed(m)' = Introduced(Complete(extension, m), record)
  <2>1. Completed(m)' = Complete(extension', m)
    BY DEF Completed, Complete
  <2> QED
    BY <1>1, <2>1, CompleteAppend
<1> QED
  BY <1>2, <1>3, <1>4, <1>5

LEMMA ApplyEliminationStep ==
  ASSUME PassesInv, ApplyElimination
  PROVE  PassesInv' /\ Extends
<1> DEFINE v == work.at
           record == [kind |-> "bve", var |-> v, witness |-> Witness(v)]
           resolvents == {Resolve(lits[p[1]], lits[p[2]], v) : p \in Standing(v) \X Standing(-v)} \cap Clauses
           rest == {c \in Live : v \notin c /\ -v \notin c}
<1>1. /\ stage = "bounded" /\ CanEliminate(v) /\ extension' = Append(extension, record)
      /\ UNCHANGED <<session, episode, stated, highestStated, stage, pipeline, redundant>>
  BY DEF ApplyElimination, callerVars
<1>2. ListsShape /\ CallerShape /\ EliminationShape /\ TurnShape /\ AllComeBack /\ AllCarryOver
  BY DEF PassesInv, PassesShape, PassShape
<1>3. /\ v \in 1..MaxVariable
      /\ ListsShape' /\ EliminatorShape' /\ work'.next = work.next
      /\ Live' = rest \cup resolvents /\ Kept' = Live' /\ Extends
  BY EliminationIs
<1>4. /\ redundant = <<>> /\ session.eliminate /\ pipeline = "initial" /\ Kept = Live
      /\ \A l : Standing(l) = {r \in Alive : l \in lits[r]}
  BY <1>1, OccurrencesAre
<1>5. Live \subseteq Clauses
  BY <1>2, ListedIs
<1>6. Witness(v) = {c \in Live : v \in c}
  BY <1>4 DEF Witness, Live
<1>7. resolvents = {Resolve(p[1], p[2], v) : p \in {c \in Live : v \in c} \X {c \in Live : -v \in c}} \cap Clauses
  <2> DEFINE P == Standing(v)
             Q == Standing(-v)
             A == {c \in Live : v \in c}
             B == {c \in Live : -v \in c}
  <2>1. A = {lits[r] : r \in P} /\ B = {lits[r] : r \in Q}
    BY <1>4 DEF Live
  <2> HIDE DEF P, Q, A, B
  <2>2. {Resolve(lits[p[1]], lits[p[2]], v) : p \in P \X Q} = {Resolve(p[1], p[2], v) : p \in A \X B}
    <3>1. ASSUME NEW p \in P \X Q
          PROVE  \E q \in A \X B : Resolve(q[1], q[2], v) = Resolve(lits[p[1]], lits[p[2]], v)
      <4>1. <<lits[p[1]], lits[p[2]]>> \in A \X B
        BY <2>1
      <4> QED
        BY <4>1
    <3>2. ASSUME NEW q \in A \X B
          PROVE  \E p \in P \X Q : Resolve(q[1], q[2], v) = Resolve(lits[p[1]], lits[p[2]], v)
      <4>1. PICK r \in P, s \in Q : q[1] = lits[r] /\ q[2] = lits[s]
        BY <2>1
      <4>2. <<r, s>> \in P \X Q
        OBVIOUS
      <4> QED
        BY <4>1, <4>2
    <3> QED
      BY <3>1, <3>2
  <2> QED
    BY <2>2 DEF P, Q, A, B
<1> HIDE DEF resolvents
<1>8. record \in Records
  <2>1. Witness(v) \in SUBSET SUBSET Literals
    BY <1>5, <1>6 DEF Clauses
  <2> QED
    BY <1>3, <2>1 DEF Records
<1>9. /\ extension' \in Seq(Records)
      /\ Eliminations' = Eliminations \cup {record} /\ Internal' = Internal
      /\ \A m \in Partial : Undone(m)' = Replay(extension, Replayed(m, record))
      /\ \A m \in Partial : Completed(m)' = Introduced(Complete(extension, m), record)
  <2>1. record.kind = "bve"
    OBVIOUS
  <2> HIDE DEF record
  <2>2. /\ extension' \in Seq(Records)
        /\ Eliminations' = Eliminations \cup {r \in {record} : r.kind = "bve"}
        /\ Internal' = Internal \cup {r.var : r \in {q \in {record} : q.kind = "factor"}}
        /\ \A m \in Partial : Undone(m)' = Replay(extension, Replayed(m, record))
        /\ \A m \in Partial : Completed(m)' = Introduced(Complete(extension, m), record)
    BY <1>1, <1>2, <1>8, StackGrows
  <2>3. {r \in {record} : r.kind = "bve"} = {record} /\ {q \in {record} : q.kind = "factor"} = {}
    BY <2>1
  <2> QED
    BY <2>2, <2>3
<1>10. Scope' = Scope
  BY <1>1, <1>9 DEF Scope
<1>11. Vars(Live') \subseteq Vars(Live)
  <2>1. ASSUME NEW c \in Live', NEW l \in c PROVE Var(l) \in Vars(Live)
    <3>1. CASE c \in rest
      BY <3>1, VarsHas
    <3>2. CASE c \in resolvents
      <4>1. PICK a \in Live, b \in Live : c = Resolve(a, b, v)
        BY <1>7, <3>2
      <4>2. l \in a \/ l \in b
        BY <4>1 DEF Resolve
      <4> QED
        BY <4>2, VarsHas
    <3> QED
      BY <1>3, <3>1, <3>2
  <2> QED
    BY <2>1 DEF Vars
<1>12. CallerShape'
  BY <1>1, <1>2, <1>9, <1>10, <1>11, PassNamesAre DEF CallerShape
<1>13. EliminationShape'
  <2>1. \A a \in Assumed : Var(a) # v
    BY <1>1 DEF CanEliminate
  <2> QED
    BY <1>1, <1>2, <1>4, <1>9, <2>1 DEF EliminationShape, Assumed, Episode
<1>14. TurnShape'
  BY <1>1, <1>2, <1>3, <1>11, PassNamesAre DEF TurnShape
<1>15. PassShape'
  BY <1>1, <1>3 DEF PassShape, ReducerShape, ProbingPassShape, SubsumerShape, FactorizerShape
<1>16. AllComeBack'
  <2>1. SUFFICES ASSUME NEW vars \in SUBSET (1..MaxVariable), NEW m \in [vars -> BOOLEAN],
                        Scope \subseteq vars, Satisfies(m, Live')
                 PROVE  Satisfies(Undone(m)', stated)
    BY <1>1, <1>3, <1>10 DEF AllComeBack, ComesBack
  <2>2. m \in Partial
    BY DEF Partial
  <2>3. PICK wide \in SUBSET (1..MaxVariable) : vars \subseteq wide /\ Replayed(m, record) \in [wide -> BOOLEAN]
    BY <1>8, ReplayedIs
  <2>4. Replayed(m, record) = Repaired(m, record)
    BY DEF Replayed
  <2>5. Satisfies(Repaired(m, record), Live)
    <3>1. Vars(Live) \subseteq vars
      BY <1>2, <2>1 DEF CallerShape
    <3>2. \A c \in Live : v \notin c /\ -v \notin c => Holds(m, c)
      BY <1>3, <2>1 DEF Satisfies
    <3>3. ASSUME NEW c \in Live, NEW d \in Live, v \in c, -v \in d, Resolve(c, d, v) \in Clauses
          PROVE  Holds(m, Resolve(c, d, v))
      <4>1. <<c, d>> \in {a \in Live : v \in a} \X {a \in Live : -v \in a}
        BY <3>3
      <4>2. Resolve(c, d, v) \in resolvents
        BY <1>7, <3>3, <4>1
      <4> QED
        BY <1>3, <2>1, <4>2 DEF Satisfies
    <3>4. record.var = v /\ record.witness = {c \in Live : v \in c}
      BY <1>6
    <3> HIDE DEF record
    <3> QED
      BY <1>3, <1>5, <3>1, <3>2, <3>3, <3>4, RepairIs
  <2>6. Undone(m)' = Undone(Repaired(m, record))
    BY <1>9, <2>2, <2>4, UndoneIsReplay
  <2>7. Satisfies(Undone(Repaired(m, record)), stated)
    <3> HIDE DEF record
    <3> QED
      BY <1>2, <1>4, <2>1, <2>3, <2>4, <2>5 DEF AllComeBack, ComesBack
  <2> QED
    BY <2>6, <2>7
<1>17. AllCarryOver'
  <2>1. SUFFICES ASSUME Vars(stated) \cap Internal = {}, NEW vars \in SUBSET (1..MaxVariable), NEW m \in [vars -> BOOLEAN],
                        Vars(stated) \subseteq vars, Satisfies(m, stated)
                 PROVE  Satisfies(Completed(m)', Live')
    BY <1>1, <1>9 DEF AllCarryOver, CarriesOver
  <2>2. Completed(m)' = Completed(m)
    <3>1. m \in Partial /\ record.kind # "factor"
      BY DEF Partial
    <3>2. Completed(m)' = Introduced(Complete(extension, m), record)
      BY <1>9, <3>1
    <3> QED
      BY <3>1, <3>2, CompletedIsComplete DEF Introduced
  <2>3. Satisfies(Completed(m), Live)
    BY <1>2, <2>1 DEF AllCarryOver, CarriesOver
  <2>4. ASSUME NEW c \in resolvents PROVE Holds(Completed(m), c)
    <3>1. PICK a \in Live, b \in Live : c = Resolve(a, b, v)
      BY <1>7
    <3>2. Holds(Completed(m), a) /\ Holds(Completed(m), b)
      BY <2>3 DEF Satisfies
    <3> QED
      BY <1>3, <3>1, <3>2, ResolventFollows
  <2> QED
    BY <1>3, <2>2, <2>3, <2>4 DEF Satisfies
<1> QED
  BY <1>3, <1>12, <1>13, <1>14, <1>15, <1>16, <1>17 DEF PassesInv, PassesShape

-----------------------------------------------------------------------------
(* Factoring                                                               *)

\* A row of the rectangle with another literal in the anchor's place.
InPlace(row, anchor, l) == (lits[row] \ {anchor}) \cup {l}
Rectangle(anchor, partners, rows) == rows \cup {FirstMatching(row, anchor, l) : row \in rows, l \in partners}
Definitions(x, selected) == {{-x, l} : l \in selected}
Bodies(x, anchor, rows) == {{x} \cup (lits[row] \ {anchor}) : row \in rows}

\* The same as Factor lists them.
DefinitionList(x, selected) == SetToSeq({{-x, l} : l \in selected})
BodyList(x, anchor, rows) ==
  LET rowList == SetToSeq(rows) IN [k \in DOMAIN rowList |-> {x} \cup (lits[rowList[k]] \ {anchor})]

\* What the factorizer may extract for an anchor: the literals beside it, and
\* the rows that have a clause with each of them in its place.
IsRectangle(anchor, partners, rows) ==
  /\ anchor \in Anchors
  /\ partners \in SUBSET ((UNION {lits[r] : r \in InIndex}) \ {anchor, -anchor})
  /\ rows \in SUBSET {r \in InIndex : anchor \in lits[r]}
  /\ \A row \in rows : \A l \in partners : Matching(row, anchor, l) # {}

\* The rectangle is of irredundant clauses, one for each row and literal.
LEMMA RectangleIs ==
  ASSUME PassesInv, stage = "factorizer", NEW anchor, NEW partners, NEW rows,
         IsRectangle(anchor, partners, rows)
  PROVE  /\ InIndex \subseteq Alive /\ InIndex \subseteq Range(irredundant)
         /\ Rectangle(anchor, partners, rows) \subseteq InIndex
         /\ \A l \in {anchor} \cup partners : l \in Literals /\ Var(l) \in Vars(Live)
         /\ \A r \in Rectangle(anchor, partners, rows) :
               \E row \in rows : \E l \in {anchor} \cup partners : lits[r] = InPlace(row, anchor, l)
         /\ \A row \in rows : \A l \in {anchor} \cup partners : InPlace(row, anchor, l) \in Live
<1>0. /\ anchor \in Anchors
      /\ partners \in SUBSET ((UNION {lits[r] : r \in InIndex}) \ {anchor, -anchor})
      /\ rows \in SUBSET {r \in InIndex : anchor \in lits[r]}
      /\ \A row \in rows : \A l \in partners : Matching(row, anchor, l) # {}
  BY DEF IsRectangle
<1> USE <1>0
<1>1. /\ work.index \in Seq(DOMAIN lits) /\ Range(work.index) \subseteq Range(irredundant)
      /\ ListsShape
  BY DEF PassesInv, PassesShape, PassShape, FactorizerShape
<1>2. InIndex \subseteq Alive /\ InIndex \subseteq Range(irredundant)
  BY <1>1, ListedIs DEF InIndex, Alive
<1>3. \A l \in {anchor} \cup partners : l \in Literals /\ Var(l) \in Vars(Live)
  <2>1. ASSUME NEW l \in {anchor} \cup partners PROVE l \in Literals /\ Var(l) \in Vars(Live)
    <3>1. PICK r \in InIndex : l \in lits[r]
      BY DEF Anchors
    <3>2. r \in Alive /\ lits[r] \in Live /\ lits[r] \in Clauses
      BY <1>1, <1>2, ListedIs DEF Live
    <3> QED
      BY <3>1, <3>2, VarsHas DEF Clauses
  <2> QED
    BY <2>1
<1>4. \A row \in rows : row \in InIndex /\ lits[row] = InPlace(row, anchor, anchor)
  BY DEF InPlace
<1>5. ASSUME NEW row \in rows, NEW l \in partners
      PROVE  FirstMatching(row, anchor, l) \in InIndex /\ lits[FirstMatching(row, anchor, l)] = InPlace(row, anchor, l)
  <2> DEFINE K == {k \in DOMAIN work.index : work.index[k] \in Matching(row, anchor, l)}
  <2>1. PICK r \in Matching(row, anchor, l) : TRUE
    OBVIOUS
  <2>2. r \in Range(work.index)
    BY <2>1 DEF Matching, InIndex
  <2>3. K # {} /\ K \in SUBSET Nat
    BY <1>1, <2>1, <2>2 DEF Range
  <2>4. Min(K) \in K
    BY <2>3, MinIs
  <2>5. FirstMatching(row, anchor, l) \in Matching(row, anchor, l)
    BY <2>4 DEF FirstMatching
  <2> QED
    BY <2>5 DEF Matching, InPlace
<1>6. Rectangle(anchor, partners, rows) \subseteq InIndex
  BY <1>4, <1>5 DEF Rectangle
<1>7. \A r \in Rectangle(anchor, partners, rows) :
         \E row \in rows : \E l \in {anchor} \cup partners : lits[r] = InPlace(row, anchor, l)
  BY <1>4, <1>5 DEF Rectangle
<1>8. \A row \in rows : \A l \in {anchor} \cup partners : InPlace(row, anchor, l) \in Live
  <2>1. ASSUME NEW row \in rows, NEW l \in {anchor} \cup partners PROVE \E r \in Alive : lits[r] = InPlace(row, anchor, l)
    <3>1. CASE l = anchor
      BY <1>2, <1>4, <3>1
    <3>2. CASE l \in partners
      BY <1>2, <1>5, <3>2
    <3> QED
      BY <3>1, <3>2
  <2>2. ASSUME NEW row \in rows, NEW l \in {anchor} \cup partners PROVE InPlace(row, anchor, l) \in Live
    BY <2>1 DEF Live
  <2> QED
    BY <2>2
<1> QED
  BY <1>2, <1>3, <1>6, <1>7, <1>8

LEMMA LiteralsAreFinite == IsFiniteSet(Literals)
<1>1. -MaxVariable \in Int /\ MaxVariable \in Int
  BY SessionsAssumption DEF SessionsAssumption
<1>2. IsFiniteSet(-MaxVariable..MaxVariable)
  BY <1>1, FS_Interval
<1> QED
  BY <1>2, FS_Subset DEF Literals

LEMMA ClausesJoin ==
  ASSUME NEW s \in Seq(Clauses), NEW t \in Seq(Clauses)
  PROVE  /\ s \o t \in Seq(Clauses) /\ Range(s \o t) = Range(s) \cup Range(t)
         /\ Len(s \o t) = Len(s) + Len(t)
<1>1. s \o t \in Seq(Clauses) /\ Range(s \o t) = Range(s) \cup Range(t)
  BY ConcatHolds
<1>2. Len(s \o t) = Len(s) + Len(t)
  OBVIOUS
<1> QED
  BY <1>1, <1>2

\* The fresh variable is in no clause: the definitions and bodies are clauses.
Joined(definitions, bodies, all) ==
  /\ definitions \in Seq(Clauses) /\ bodies \in Seq(Clauses) /\ definitions \o bodies \in Seq(Clauses)
  /\ Range(definitions \o bodies) = all
  /\ Len(definitions \o bodies) = Len(definitions) + Len(bodies)
LEMMA FactoringAdds ==
  ASSUME lits \in Seq(Clauses), NEW x \in 1..MaxVariable, NEW selected \in SUBSET Literals, NEW anchor,
         NEW rows \in SUBSET DOMAIN lits,
         \A l \in selected : Var(l) # x, \A row \in rows : \A l \in lits[row] : Var(l) # x
  PROVE  Joined(DefinitionList(x, selected), BodyList(x, anchor, rows),
                Definitions(x, selected) \cup Bodies(x, anchor, rows))
<1> DEFINE definitions == DefinitionList(x, selected)
           bodies == BodyList(x, anchor, rows)
           rowList == SetToSeq(rows)
<1>0. /\ definitions = SetToSeq(Definitions(x, selected))
      /\ bodies = [k \in DOMAIN rowList |-> {x} \cup (lits[rowList[k]] \ {anchor})]
  BY DEF DefinitionList, BodyList, Definitions
<1> HIDE DEF definitions, bodies, rowList
<1>1. x \in Literals /\ -x \in Literals /\ Var(x) = x /\ Var(-x) = x /\ -(-x) = x /\ x # -x
  BY SessionsAssumption DEF SessionsAssumption, Literals, Var
<1>2. Definitions(x, selected) \subseteq Clauses
  <2>1. ASSUME NEW l \in selected PROVE {-x, l} \in Clauses
    <3>1. -l \in Literals /\ Var(-l) # x /\ -l # l /\ l # x /\ l # -x
      BY <1>1, LiteralIs
    <3>2. \A k \in {-x, l} : k \in Literals /\ -k \notin {-x, l}
      BY <1>1, <3>1
    <3> QED
      BY <3>2 DEF Clauses
  <2> QED
    BY <2>1 DEF Definitions
<1>3. Bodies(x, anchor, rows) \subseteq Clauses
  <2>1. ASSUME NEW row \in rows PROVE {x} \cup (lits[row] \ {anchor}) \in Clauses
    <3>1. lits[row] \in Clauses
      OBVIOUS
    <3>2. x \notin lits[row] /\ -x \notin lits[row]
      BY <1>1
    <3>3. \A k \in lits[row] : k \in Literals /\ -k \in Literals /\ -k \notin lits[row] /\ -k # x
      <4>1. ASSUME NEW k \in lits[row] PROVE k \in Literals /\ -k \in Literals /\ -k \notin lits[row] /\ -k # x
        <5>1. k \in Literals /\ -k \notin lits[row]
          BY <3>1 DEF Clauses
        <5> QED
          BY <1>1, <5>1, LiteralIs
      <4> QED
        BY <4>1
    <3>4. \A k \in {x} \cup (lits[row] \ {anchor}) : k \in Literals /\ -k \notin {x} \cup (lits[row] \ {anchor})
      BY <1>1, <3>2, <3>3
    <3> QED
      BY <3>4 DEF Clauses
  <2> QED
    BY <2>1 DEF Bodies
<1>4. IsFiniteSet(Definitions(x, selected)) /\ IsFiniteSet(rows)
  <2>1. IsFiniteSet(SUBSET Literals)
    BY LiteralsAreFinite, FS_SUBSET
  <2>2. Definitions(x, selected) \in SUBSET SUBSET Literals
    BY <1>2 DEF Clauses
  <2>3. IsFiniteSet(DOMAIN lits)
    <3>1. Len(lits) \in Nat /\ DOMAIN lits = 1..Len(lits) /\ 1 \in Int /\ Len(lits) \in Int
      OBVIOUS
    <3> QED
      BY <3>1, FS_Interval
  <2> QED
    BY <2>1, <2>2, <2>3, FS_Subset
<1>5. definitions \in Seq(Definitions(x, selected)) /\ Range(definitions) = Definitions(x, selected)
  BY <1>0, <1>4, SetToSeqIs
<1>6. rowList \in Seq(rows) /\ Range(rowList) = rows
  BY <1>4, SetToSeqIs DEF rowList
<1>7. bodies \in Seq(Bodies(x, anchor, rows)) /\ Range(bodies) = Bodies(x, anchor, rows)
  <2>1. Len(rowList) \in Nat /\ DOMAIN rowList = 1..Len(rowList) /\ \A k \in DOMAIN rowList : rowList[k] \in rows
    BY <1>6
  <2>2. bodies \in [1..Len(rowList) -> Bodies(x, anchor, rows)]
    BY <1>0, <2>1 DEF Bodies
  <2>3. Range(bodies) = {{x} \cup (lits[rowList[k]] \ {anchor}) : k \in DOMAIN rowList}
    BY <1>0 DEF Range
  <2>4. {{x} \cup (lits[rowList[k]] \ {anchor}) : k \in DOMAIN rowList} = Bodies(x, anchor, rows)
    <3>1. {rowList[k] : k \in DOMAIN rowList} = rows
      BY <1>6 DEF Range
    <3>2. {{x} \cup (lits[rowList[k]] \ {anchor}) : k \in DOMAIN rowList} =
            {{x} \cup (lits[row] \ {anchor}) : row \in {rowList[k] : k \in DOMAIN rowList}}
      OBVIOUS
    <3> QED
      BY <3>1, <3>2 DEF Bodies
  <2>5. bodies \in Seq(Bodies(x, anchor, rows))
    BY <2>1, <2>2
  <2>6. Range(bodies) = Bodies(x, anchor, rows)
    BY <2>3, <2>4
  <2> QED
    BY <2>5, <2>6
<1>8. definitions \in Seq(Clauses) /\ bodies \in Seq(Clauses)
  BY <1>2, <1>3, <1>5, <1>7, SeqGrows
<1>9. Len(definitions \o bodies) = Len(definitions) + Len(bodies)
  BY <1>8, ClausesJoin
<1>10. definitions \o bodies \in Seq(Clauses) /\ Range(definitions \o bodies) = Range(definitions) \cup Range(bodies)
  BY <1>8, ClausesJoin
<1> QED
  BY <1>5, <1>7, <1>8, <1>9, <1>10 DEF definitions, bodies, Joined

LEMMA FactorLiteralStep ==
  ASSUME PassesInv, FactorLiteral
  PROVE  PassesInv' /\ Extends
<1>1. /\ stage = "factorizer" /\ work.highest < MaxVariable
      /\ UNCHANGED <<session, episode, stated, highestStated, redundant, stage, pipeline>>
  BY DEF FactorLiteral, callerVars
<1>2. PICK anchor \in Anchors :
        \E partners \in SUBSET ((UNION {lits[r] : r \in InIndex}) \ {anchor, -anchor}) :
          \E rows \in SUBSET {r \in InIndex : anchor \in lits[r]} :
             /\ \A row \in rows : \A l \in partners : Matching(row, anchor, l) # {}
             /\ Factor(anchor, partners, rows)
  BY DEF FactorLiteral
<1>3. PICK partners \in SUBSET ((UNION {lits[r] : r \in InIndex}) \ {anchor, -anchor}) :
          \E rows \in SUBSET {r \in InIndex : anchor \in lits[r]} :
             /\ \A row \in rows : \A l \in partners : Matching(row, anchor, l) # {}
             /\ Factor(anchor, partners, rows)
  BY <1>2
<1>4. PICK rows \in SUBSET {r \in InIndex : anchor \in lits[r]} :
             /\ \A row \in rows : \A l \in partners : Matching(row, anchor, l) # {}
             /\ Factor(anchor, partners, rows)
  BY <1>3
<1> DEFINE x == work.highest + 1
           selected == {anchor} \cup partners
           record == [kind |-> "factor", var |-> x, witness |-> {selected}]
           definitions == DefinitionList(x, selected)
           bodies == BodyList(x, anchor, rows)
           more == definitions \o bodies
           gone == Rectangle(anchor, partners, rows)
           D == DOMAIN lits
           all == Longer(more)
           added == NewRefs(more)
           E == DOMAIN all
           New == Definitions(x, selected) \cup Bodies(x, anchor, rows)
<1>5. ListsShape /\ CallerShape /\ EliminationShape /\ TurnShape /\ FactorizerShape /\ AllComeBack /\ AllCarryOver
  BY DEF PassesInv, PassesShape, PassShape
<1>6. /\ work \in [pass : {"factorizer"}, index : Seq(D), highest : Nat, next : Nat \ {0}]
      /\ Range(work.index) \subseteq Range(irredundant) /\ Vars(Live) \subseteq 1..work.highest
  BY <1>1, <1>5 DEF FactorizerShape
<1>7. x \in 1..MaxVariable /\ x \notin 1..work.highest /\ x \in Nat /\ 1..work.highest \subseteq 1..x
  BY <1>1, <1>6, SessionsAssumption DEF SessionsAssumption
<1>8. /\ InIndex \subseteq Alive /\ InIndex \subseteq Range(irredundant) /\ gone \subseteq InIndex
      /\ \A l \in selected : l \in Literals /\ Var(l) \in Vars(Live)
      /\ \A r \in gone : \E row \in rows : \E l \in selected : lits[r] = InPlace(row, anchor, l)
      /\ \A row \in rows : \A l \in selected : InPlace(row, anchor, l) \in Live
  <2>1. IsRectangle(anchor, partners, rows) /\ stage = "factorizer"
    BY <1>1, <1>4 DEF IsRectangle
  <2> QED
    BY <2>1, RectangleIs
<1>9. /\ lits \in Seq(Clauses) /\ irredundant \in Seq(D) /\ redundant \in Seq(D)
      /\ Distinct(irredundant) /\ Distinct(redundant) /\ Range(irredundant) \cap Range(redundant) = {}
      /\ garbage \subseteq D /\ Alive \subseteq D /\ Range(irredundant) \subseteq D /\ Range(redundant) \subseteq D
      /\ Range(Listed) = Range(irredundant) \cup Range(redundant)
      /\ Live \subseteq Clauses
  BY <1>5, ListedIs DEF ListsShape
<1>10. \A r \in Alive : \A l \in lits[r] : Var(l) \in Vars(Live)
  BY VarsHas DEF Live
<1>11. rows \in SUBSET D /\ rows \subseteq Alive
  BY <1>8, <1>9
<1>12. /\ (\A l \in selected : Var(l) # x) /\ (\A row \in rows : \A l \in lits[row] : Var(l) # x)
       /\ selected \in SUBSET Literals
  BY <1>6, <1>7, <1>8, <1>10, <1>11
<1>13. /\ extension' = Append(extension, record)
       /\ lits' = (lits \o definitions) \o bodies
       /\ irredundant' = irredundant \o [k \in 1..(Len(definitions) + Len(bodies)) |-> Len(lits) + k]
       /\ garbage' = garbage \cup gone
       /\ work' = [work EXCEPT !.highest = x, !.index = @ \o [k \in 1..(Len(definitions) + Len(bodies)) |-> Len(lits) + k]]
  BY <1>4 DEF Factor, Rectangle, DefinitionList, BodyList
<1> HIDE DEF x, selected, gone
<1>14. /\ definitions \in Seq(Clauses) /\ bodies \in Seq(Clauses) /\ more \in Seq(Clauses)
       /\ Range(more) = New /\ Len(more) = Len(definitions) + Len(bodies)
  <2> HIDE DEF definitions, bodies, New
  <2>1. Joined(DefinitionList(x, selected), BodyList(x, anchor, rows), Definitions(x, selected) \cup Bodies(x, anchor, rows))
    BY <1>7, <1>9, <1>11, <1>12, FactoringAdds
  <2>2. Joined(definitions, bodies, New)
    BY <2>1 DEF definitions, bodies, New
  <2> QED
    BY <2>2 DEF Joined
<1> HIDE DEF definitions, bodies
<1>15. lits' = all /\ irredundant' = irredundant \o added /\ work' = [work EXCEPT !.highest = x, !.index = @ \o added]
  <2>1. (lits \o definitions) \o bodies = lits \o (definitions \o bodies)
    BY <1>9, <1>14, ConcatAssociative
  <2> QED
    BY <1>13, <1>14, <2>1 DEF Longer, NewRefs
<1> HIDE DEF more
<1>16. /\ all \in Seq(Clauses) /\ D \subseteq E /\ \A r \in D : all[r] = lits[r]
       /\ added \in Seq(E) /\ Distinct(added) /\ Range(added) \cap D = {}
       /\ {all[r] : r \in Range(added)} = New
  BY <1>9, <1>14, GrowingIs
<1> HIDE DEF all, added, D, E, New
<1>17. /\ irredundant \o added \in Seq(E) /\ Distinct(irredundant \o added)
       /\ Range(irredundant \o added) = Range(irredundant) \cup Range(added)
       /\ redundant \in Seq(E)
  BY <1>9, <1>16, ListGrows, SMTT(30)
<1>18. work.index \o added \in Seq(E) /\ Range(work.index \o added) = Range(work.index) \cup Range(added)
  <2>1. work.index \in Seq(E)
    BY <1>6, <1>16, SeqGrows
  <2> QED
    BY <1>16, <2>1, ConcatHolds
<1>19. DOMAIN lits' = E /\ gone \subseteq D
  BY <1>8, <1>9, <1>15 DEF E
<1>20. ListsShape'
  <2>1. garbage' \subseteq E
    BY <1>9, <1>13, <1>16, <1>19
  <2>2. Range(irredundant') \cap Range(redundant') = {}
    BY <1>1, <1>9, <1>15, <1>16, <1>17
  <2> QED
    BY <1>1, <1>9, <1>15, <1>16, <1>17, <1>19, <2>1, <2>2 DEF ListsShape
<1>21. Range(Listed') = Range(irredundant) \cup Range(added) \cup Range(redundant)
  <2> DEFINE first == irredundant \o added
  <2>1. Listed' = first \o redundant
    BY <1>1, <1>15 DEF Listed
  <2>2. first \in Seq(E) /\ redundant \in Seq(E) /\ Range(first) = Range(irredundant) \cup Range(added)
    BY <1>17
  <2> HIDE DEF first
  <2>3. Range(first \o redundant) = Range(first) \cup Range(redundant)
    BY <2>2, ConcatHolds
  <2> QED
    BY <2>1, <2>2, <2>3
<1>22. Alive' = (Alive \ gone) \cup Range(added)
  BY <1>9, <1>13, <1>16, <1>19, <1>21 DEF Alive
<1>23. Live' = {lits[r] : r \in Alive \ gone} \cup New
  <2>1. Live' = {all[r] : r \in Alive \ gone} \cup {all[r] : r \in Range(added)}
    BY <1>15, <1>22 DEF Live
  <2>2. {all[r] : r \in Alive \ gone} = {lits[r] : r \in Alive \ gone}
    BY <1>9, <1>16
  <2> QED
    BY <1>16, <2>1, <2>2
<1>24. Kept' = {lits[r] : r \in KeptRefs \ gone} \cup New
  <2>1. KeptRefs' = (KeptRefs \ gone) \cup Range(added)
    <3>1. \A r \in Alive \ gone : lits'[r] = lits[r] /\ (r \in Range(irredundant') <=> r \in Range(irredundant))
      BY <1>9, <1>15, <1>16, <1>17
    <3>2. \A r \in Range(added) : r \in Range(irredundant')
      BY <1>15, <1>17
    <3> QED
      BY <1>22, <3>1, <3>2 DEF KeptRefs
  <2>2. Kept' = {all[r] : r \in KeptRefs \ gone} \cup {all[r] : r \in Range(added)}
    BY <1>15, <2>1 DEF Kept
  <2>3. {all[r] : r \in KeptRefs \ gone} = {lits[r] : r \in KeptRefs \ gone}
    BY <1>9, <1>16 DEF KeptRefs
  <2> QED
    BY <1>16, <2>2, <2>3
<1>25. record \in Records /\ record.kind = "factor" /\ record.var = x /\ UNION record.witness = selected
  BY <1>7, <1>12 DEF Records
<1> HIDE DEF record
<1>26. /\ extension' \in Seq(Records) /\ Eliminations' = Eliminations /\ Internal' = Internal \cup {x}
       /\ \A m \in Partial : Undone(m)' = Replay(extension, Replayed(m, record))
       /\ \A m \in Partial : Completed(m)' = Introduced(Complete(extension, m), record)
  <2>1. /\ extension' \in Seq(Records)
        /\ Eliminations' = Eliminations \cup {r \in {record} : r.kind = "bve"}
        /\ Internal' = Internal \cup {r.var : r \in {q \in {record} : q.kind = "factor"}}
        /\ \A m \in Partial : Undone(m)' = Replay(extension, Replayed(m, record))
        /\ \A m \in Partial : Completed(m)' = Introduced(Complete(extension, m), record)
    BY <1>1, <1>5, <1>13, <1>25, StackGrows
  <2>2. {r \in {record} : r.kind = "bve"} = {} /\ {r.var : r \in {q \in {record} : q.kind = "factor"}} = {x}
    BY <1>25
  <2> QED
    BY <2>1, <2>2
<1>27. Scope' = Scope \cup {x}
  BY <1>1, <1>26 DEF Scope
<1>28. x \in Int /\ -x \in Int /\ Var(x) = x /\ Var(-x) = x /\ x > 0 /\ ~(-x > 0)
  BY <1>7 DEF Var
<1>29. \A c \in New : \A l \in c : Var(l) \in Vars(Live) \cup {x}
  <2>1. ASSUME NEW c \in Definitions(x, selected), NEW l \in c PROVE Var(l) \in Vars(Live) \cup {x}
    BY <1>8, <1>28 DEF Definitions
  <2>2. ASSUME NEW c \in Bodies(x, anchor, rows), NEW l \in c PROVE Var(l) \in Vars(Live) \cup {x}
    BY <1>10, <1>11, <1>28 DEF Bodies
  <2> QED
    BY <2>1, <2>2 DEF New
<1>30. Vars(Live') \subseteq Vars(Live) \cup {x}
  <2>1. ASSUME NEW c \in Live', NEW l \in c PROVE Var(l) \in Vars(Live) \cup {x}
    BY <1>10, <1>23, <1>29
  <2> QED
    BY <2>1 DEF Vars
<1>31. CallerShape'
  BY <1>1, <1>5, <1>26, <1>27, <1>30, PassNamesAre DEF CallerShape
<1>32. EliminationShape'
  BY <1>1, <1>5, <1>26 DEF EliminationShape, Assumed, Episode
<1>33. /\ work' \in [pass : {"factorizer"}, index : Seq(E), highest : Nat, next : Nat \ {0}]
       /\ work'.index = work.index \o added /\ work'.highest = x /\ work'.next = work.next
  <2> DEFINE short == Seq(D)
             long == Seq(E)
             list == work.index \o added
  <2>1. /\ work \in [pass : {"factorizer"}, index : short, highest : Nat, next : Nat \ {0}]
        /\ list \in long /\ work' = [work EXCEPT !.highest = x, !.index = list]
    BY <1>6, <1>15, <1>18
  <2> HIDE DEF short, long, list
  <2>2. /\ work' \in [pass : {"factorizer"}, index : long, highest : Nat, next : Nat \ {0}]
        /\ work'.index = list /\ work'.highest = x /\ work'.next = work.next
    BY <1>7, <2>1
  <2> QED
    BY <2>2 DEF long, list
<1>34. TurnShape'
  BY <1>1, <1>5, <1>33, PassNamesAre DEF TurnShape
<1>35. FactorizerShape'
  <2>1. Vars(Live') \subseteq 1..x
    BY <1>6, <1>7, <1>30
  <2>2. Range(work'.index) \subseteq Range(irredundant')
    BY <1>6, <1>15, <1>17, <1>18, <1>33
  <2> QED
    BY <1>19, <1>33, <2>1, <2>2 DEF FactorizerShape
<1>36. PassShape'
  BY <1>1, <1>35 DEF PassShape, ReducerShape, ProbingPassShape, SubsumerShape, EliminatorShape
<1>37. AllComeBack'
  <2>1. SUFFICES ASSUME NEW vars \in SUBSET (1..MaxVariable), NEW m \in [vars -> BOOLEAN],
                        Scope \cup {x} \subseteq vars, Satisfies(m, Kept')
                 PROVE  Satisfies(Undone(m)', stated)
    BY <1>1, <1>27 DEF AllComeBack, ComesBack
  <2>2. Undone(m)' = Undone(m)
    <3>1. m \in Partial
      BY DEF Partial
    <3> QED
      BY <1>25, <1>26, <3>1, UndoneIsReplay DEF Replayed
  <2>3. ASSUME NEW r \in KeptRefs PROVE Holds(m, lits[r])
    <3>1. CASE r \notin gone
      BY <1>24, <2>1, <3>1 DEF Satisfies
    <3>2. CASE r \in gone
      <4>1. PICK row \in rows, l \in selected : lits[r] = (lits[row] \ {anchor}) \cup {l}
        BY <1>8, <3>2 DEF InPlace
      <4>2. Holds(m, {-x, l}) /\ Holds(m, {x} \cup (lits[row] \ {anchor}))
        BY <1>24, <2>1 DEF Satisfies, New, Definitions, Bodies
      <4>3. ~(True(m, x) /\ True(m, -x))
        BY <1>28 DEF True
      <4> QED
        BY <4>1, <4>2, <4>3 DEF Holds
    <3> QED
      BY <3>1, <3>2
  <2>4. Satisfies(m, Kept)
    BY <2>3 DEF Satisfies, Kept
  <2> QED
    BY <1>5, <2>1, <2>2, <2>4 DEF AllComeBack, ComesBack
<1>38. AllCarryOver'
  <2>1. SUFFICES ASSUME Vars(stated) \cap (Internal \cup {x}) = {},
                        NEW vars \in SUBSET (1..MaxVariable), NEW m \in [vars -> BOOLEAN],
                        Vars(stated) \subseteq vars, Satisfies(m, stated)
                 PROVE  Satisfies(Completed(m)', Live')
    BY <1>1, <1>26 DEF AllCarryOver, CarriesOver
  <2> DEFINE M == Completed(m)
             wide == vars \cup Internal
             all2 == \A l \in selected : True(M, l)
             N == SetTo(M, x, all2)
  <2>2. M \in [wide -> BOOLEAN] /\ Satisfies(M, Live)
    <3>1. M \in [wide -> BOOLEAN]
      BY <1>5, ScopeIs, CompleteIs, CompletedIsComplete DEF CallerShape
    <3> QED
      BY <1>5, <2>1, <3>1 DEF AllCarryOver, CarriesOver
  <2>3. Completed(m)' = N
    <3>1. m \in Partial
      BY DEF Partial
    <3> QED
      BY <1>25, <1>26, <3>1, CompletedIsComplete DEF Introduced
  <2>4. Vars(Live) \subseteq wide /\ x \notin Vars(Live)
    BY <1>5, <1>6, <1>7, <2>1 DEF CallerShape, Scope
  <2> HIDE DEF M, wide
  <2>5. all2 \in BOOLEAN
    OBVIOUS
  <2>6. N \in [wide \cup {x} -> BOOLEAN] /\ N[x] = all2 /\ \A u \in wide : u # x => N[u] = M[u]
    <3> HIDE DEF all2
    <3>1. DOMAIN M = wide
      BY <2>2
    <3>2. N = [u \in wide \cup {x} |-> IF u = x THEN all2 ELSE M[u]]
      BY <3>1 DEF SetTo
    <3> HIDE DEF N
    <3> QED
      BY <2>2, <2>5, <3>2
  <2> HIDE DEF N
  <2>7. \A l : Var(l) \in Vars(Live) => (True(N, l) <=> True(M, l))
    BY <2>2, <2>4, <2>6, TrueAgrees
  <2>8. \A c \in Live : Holds(N, c)
    BY <2>2, <2>7, VarsHas DEF Satisfies, Holds
  <2>9. (True(N, x) <=> all2) /\ (True(N, -x) <=> ~all2)
    <3> DEFINE positive == x > 0
               negative == -x > 0
    <3>1. positive /\ ~negative /\ positive \in BOOLEAN /\ negative \in BOOLEAN
      BY <1>28
    <3>2. x \in DOMAIN N /\ N[x] = all2
      BY <2>6
    <3> HIDE DEF positive, negative, all2
    <3>3. True(N, x) <=> all2 = positive
      BY <1>28, <3>2, Zenon DEF True, positive
    <3>4. True(N, -x) <=> all2 = negative
      BY <1>28, <3>2, Zenon DEF True, negative
    <3> QED
      BY <2>5, <3>1, <3>3, <3>4, Zenon
  <2>10. ASSUME NEW l \in selected PROVE Holds(N, {-x, l})
    <3>1. all2 => True(M, l)
      OBVIOUS
    <3>2. True(N, l) <=> True(M, l)
      BY <1>8, <2>7
    <3> HIDE DEF all2
    <3> QED
      BY <2>9, <3>1, <3>2 DEF Holds
  <2>11. ASSUME NEW row \in rows PROVE Holds(N, {x} \cup (lits[row] \ {anchor}))
    <3>1. CASE all2
      BY <2>9, <3>1 DEF Holds
    <3>2. CASE ~all2
      <4>1. PICK l \in selected : ~True(M, l)
        BY <3>2
      <4>2. Holds(N, (lits[row] \ {anchor}) \cup {l})
        BY <1>8, <2>8 DEF InPlace
      <4>3. ~True(N, l)
        BY <1>8, <2>7, <4>1
      <4> QED
        BY <4>2, <4>3 DEF Holds
    <3> QED
      BY <3>1, <3>2
  <2>12. ASSUME NEW c \in Live' PROVE Holds(N, c)
    <3>1. CASE c \in New
      BY <2>10, <2>11, <3>1 DEF New, Definitions, Bodies
    <3>2. CASE c \notin New
      BY <1>23, <2>8, <3>2 DEF Live
    <3> QED
      BY <3>1, <3>2
  <2> QED
    BY <2>3, <2>12 DEF Satisfies
<1>39. Extends
  BY <1>15, <1>16, <1>19, <1>22 DEF Extends, D
<1> QED
  BY <1>20, <1>31, <1>32, <1>34, <1>36, <1>37, <1>38, <1>39 DEF PassesInv, PassesShape

-----------------------------------------------------------------------------
(* The search and the caller                                               *)

\* A learned clause follows from those there are.
LEMMA LearnStep ==
  ASSUME PassesInv, Learn
  PROVE  PassesInv' /\ Extends
<1>1. PICK c \in session.learnable \ Live : Entailed(c) /\ lits' = Append(lits, c)
  BY DEF Learn
<1> DEFINE D == DOMAIN lits
           n == Len(lits) + 1
           E == DOMAIN lits'
           longer == Append(redundant, n)
<1>2. /\ stage = "searching" /\ redundant' = longer
      /\ UNCHANGED <<session, episode, stated, highestStated, irredundant, garbage, extension, stage, pipeline>>
  BY DEF Learn, callerVars
<1>3. ListsShape /\ CallerShape /\ EliminationShape /\ TurnShape /\ AllComeBack /\ AllCarryOver
  BY DEF PassesInv, PassesShape
<1>4. c \in Clauses
  BY <1>1, <1>3, SessionsAssumption DEF CallerShape, SessionsAssumption
<1>5. /\ lits \in Seq(Clauses) /\ irredundant \in Seq(D) /\ redundant \in Seq(D)
      /\ Distinct(irredundant) /\ Distinct(redundant) /\ Range(irredundant) \cap Range(redundant) = {}
      /\ garbage = {} /\ Alive \subseteq D /\ Range(irredundant) \subseteq D /\ Range(redundant) \subseteq D
      /\ Range(Listed) = Range(irredundant) \cup Range(redundant)
      /\ Live \subseteq Clauses
  BY <1>2, <1>3, ListedIs DEF ListsShape
<1>6. /\ lits' \in Seq(Clauses) /\ D \subseteq E /\ n \in E /\ n \notin D /\ lits'[n] = c
      /\ \A r \in D : lits'[r] = lits[r]
  <2>1. Len(lits) \in Nat /\ D = 1..Len(lits) /\ E = 1..n
    BY <1>1, <1>5
  <2>2. lits' \in Seq(Clauses) /\ lits'[n] = c /\ \A r \in 1..Len(lits) : lits'[r] = lits[r]
    BY <1>1, <1>4, <1>5
  <2> QED
    BY <2>1, <2>2
<1> HIDE DEF D, n, E
<1>7. irredundant \in Seq(E) /\ redundant \in Seq(E)
  BY <1>5, <1>6, SeqGrows
<1>8. longer \in Seq(E) /\ Range(longer) = Range(redundant) \cup {n} /\ Distinct(longer)
  BY <1>5, <1>6, <1>7, AppendHolds
<1> HIDE DEF longer
<1>9. ListsShape'
  <2>1. Range(irredundant') \cap Range(redundant') = {}
    BY <1>2, <1>5, <1>6, <1>8
  <2>2. garbage' \subseteq E /\ garbage' = {}
    BY <1>2, <1>5
  <2> QED
    BY <1>2, <1>5, <1>6, <1>7, <1>8, <2>1, <2>2 DEF ListsShape, E
<1>10. Alive' = Alive \cup {n}
  <2>1. Listed' = irredundant \o longer
    BY <1>2 DEF Listed
  <2>2. Range(Listed') = Range(irredundant) \cup Range(redundant) \cup {n}
    BY <1>7, <1>8, <2>1, ConcatHolds
  <2> QED
    BY <1>2, <1>5, <2>2 DEF Alive
<1>11. Live' = Live \cup {c}
  <2>1. Live' = {lits'[r] : r \in Alive} \cup {lits'[n]}
    BY <1>10 DEF Live
  <2>2. {lits'[r] : r \in Alive} = {lits[r] : r \in Alive}
    BY <1>5, <1>6
  <2> QED
    BY <1>6, <2>1, <2>2 DEF Live
<1>12. Kept \subseteq Kept'
  <2>1. ASSUME NEW r \in KeptRefs PROVE r \in KeptRefs' /\ lits'[r] = lits[r]
    <3>1. r \in Alive /\ lits'[r] = lits[r]
      BY <1>5, <1>6 DEF KeptRefs
    <3> QED
      BY <1>2, <1>10, <3>1 DEF KeptRefs
  <2>2. ASSUME NEW d \in Kept PROVE d \in Kept'
    BY <2>1 DEF Kept
  <2> QED
    BY <2>2
<1>13. Vars(Live') = Vars(Live)
  <2>1. Vars(Live \cup {c}) = Vars(Live) \cup Vars({c})
    BY VarsUnion
  <2> QED
    BY <1>1, <1>11, <2>1 DEF Entailed
<1>14. Scope' = Scope /\ Eliminations' = Eliminations
  BY <1>2 DEF Scope, Internal, Eliminations
<1>15. CallerShape'
  <2>1. episode # 0
    BY <1>2, <1>3 DEF CallerShape
  <2> QED
    BY <1>2, <1>3, <1>13, <1>14, <2>1 DEF CallerShape
<1>16. EliminationShape'
  BY <1>2, <1>3, <1>14 DEF EliminationShape, Assumed, Episode
<1>17. TurnShape' /\ PassShape'
  BY <1>2, <1>3, PassNamesAre
     DEF TurnShape, PassShape, ReducerShape, ProbingPassShape, SubsumerShape, EliminatorShape, FactorizerShape
<1>18. AllComeBack'
  BY <1>2, <1>3, <1>12, StillComeBack DEF Satisfies
<1>19. ASSUME NEW vars \in SUBSET (1..MaxVariable), NEW m \in [vars -> BOOLEAN], Scope \subseteq vars, Satisfies(m, Live)
       PROVE  Satisfies(m, Live')
  <2> DEFINE few == [u \in Vars(Live) |-> m[u]]
  <2>1. Vars(Live) \subseteq vars
    BY <1>3, <1>19 DEF CallerShape
  <2>2. few \in Assignments(Live) /\ DOMAIN few = Vars(Live) /\ \A u \in Vars(Live) : few[u] = m[u]
    BY <2>1 DEF Assignments
  <2> HIDE DEF few
  <2>3. \A l : Var(l) \in Vars(Live) => (True(few, l) <=> True(m, l))
    BY <2>1, <2>2, TrueAgrees
  <2>4. \A d \in Live : Holds(few, d)
    BY <1>19, <2>3, VarsHas DEF Satisfies, Holds
  <2>5. Holds(few, c)
    BY <1>1, <2>2, <2>4 DEF Entailed, Models
  <2>6. \A l \in c : Var(l) \in Vars(Live)
    <3>1. \A l \in c : Var(l) \in Vars({c})
      BY VarsHas
    <3> QED
      BY <1>1, <3>1 DEF Entailed
  <2>7. Holds(m, c)
    BY <2>3, <2>5, <2>6 DEF Holds
  <2> QED
    BY <1>11, <1>19, <2>7 DEF Satisfies
<1>20. AllCarryOver'
  BY <1>2, <1>3, <1>19, StillCarryOver
<1>21. Extends
  BY <1>6, <1>10 DEF Extends, D, E
<1> QED
  BY <1>9, <1>15, <1>16, <1>17, <1>18, <1>20, <1>21 DEF PassesInv, PassesShape

\* What a reduction forgets is none of what is kept.
LEMMA ForgetStep ==
  ASSUME PassesInv, Forget
  PROVE  PassesInv'
<1>1. PICK r \in Range(redundant) : Reduced(r) /\ Drop({r})
  BY DEF Forget
<1>2. /\ stage = "searching"
      /\ UNCHANGED <<session, episode, stated, highestStated, garbage, extension, stage, pipeline>>
  BY DEF Forget, callerVars
<1>3. ListsShape /\ CallerShape /\ EliminationShape /\ TurnShape /\ AllComeBack /\ AllCarryOver
  BY DEF PassesInv, PassesShape
<1>4. garbage = {} /\ garbage' = {} /\ garbage \subseteq {r}
  BY <1>2, <1>3 DEF ListsShape
<1>5. /\ ListsShape'
      /\ Live' = {lits[q] : q \in Range(Listed) \ {r}}
      /\ Kept' = {lits[q] : q \in {p \in Range(Listed) \ {r} : p \in Range(irredundant) \/ Cardinality(lits[p]) <= 2}}
  BY <1>1, <1>3, <1>4, DropIs
<1>6. Live' \subseteq Live
  BY <1>4, <1>5 DEF Live, Alive
<1>7. Kept' = Kept
  <2>1. r \in Range(Listed) /\ lits[r] \in Clauses /\ r \notin Range(irredundant)
    BY <1>3, ListedIs DEF ListsShape
  <2>2. Cardinality(lits[r]) \in Nat /\ ~(Cardinality(lits[r]) <= 2)
    BY <1>1, <2>1, ClausesAreFinite DEF Reduced
  <2>3. KeptRefs = {p \in Range(Listed) \ {r} : p \in Range(irredundant) \/ Cardinality(lits[p]) <= 2}
    BY <1>4, <2>1, <2>2 DEF KeptRefs, Alive
  <2> QED
    BY <1>5, <2>3 DEF Kept
<1>8. Vars(Live') \subseteq Vars(Live) /\ Scope' = Scope /\ Eliminations' = Eliminations
  BY <1>2, <1>6, VarsGrow DEF Scope, Internal, Eliminations
<1>9. CallerShape'
  <2>1. episode # 0
    BY <1>2, <1>3 DEF CallerShape
  <2> QED
    BY <1>2, <1>3, <1>8, <2>1 DEF CallerShape
<1>10. EliminationShape'
  BY <1>2, <1>3, <1>8 DEF EliminationShape, Assumed, Episode
<1>11. TurnShape' /\ PassShape'
  BY <1>2, <1>3, PassNamesAre
     DEF TurnShape, PassShape, ReducerShape, ProbingPassShape, SubsumerShape, EliminatorShape, FactorizerShape
<1>12. AllComeBack'
  BY <1>2, <1>3, <1>7, StillComeBack
<1>13. AllCarryOver'
  <2>1. \A m : Satisfies(m, Live) => Satisfies(m, Live')
    BY <1>6 DEF Satisfies
  <2> QED
    BY <1>2, <1>3, <2>1, StillCarryOver
<1> QED
  BY <1>5, <1>9, <1>10, <1>11, <1>12, <1>13 DEF PassesInv, PassesShape

\* The clauses of an episode are in no way changed by what was done before: an
\* elimination is for a caller that states everything before it solves once.
LEMMA SolveStep ==
  ASSUME PassesInv, Solve
  PROVE  PassesInv' /\ Extends
<1> DEFINE e == session.episodes[episode + 1]
           more == e.clauses
           New == Range(more)
           D == DOMAIN lits
           all == Longer(more)
           added == NewRefs(more)
           E == DOMAIN all
<1>1. /\ stage = "stating" /\ episode < Len(session.episodes)
      /\ stated' = stated \cup New /\ lits' = all /\ irredundant' = irredundant \o added
      /\ highestStated' = MaxVariableOf(stated' \cup Live, e.assumptions)
      /\ episode' = episode + 1 /\ stage' = "between" /\ pipeline' = "initial"
      /\ work' = [pass |-> "none", next |-> 1]
      /\ UNCHANGED <<session, redundant, garbage, extension>>
  BY DEF Solve, Longer, NewRefs
<1>2. ListsShape /\ CallerShape /\ EliminationShape /\ TurnShape /\ AllComeBack /\ AllCarryOver
  BY DEF PassesInv, PassesShape
<1>3. /\ session \in Sessions /\ episode \in Nat /\ episode + 1 \in 1..Len(session.episodes)
      /\ episode + 1 \in 0..Len(session.episodes) /\ episode + 1 # 0
      /\ session.eliminate => episode = 0
  <2>1. /\ session \in Sessions /\ episode \in 0..Len(session.episodes) /\ Len(session.episodes) \in Nat
        /\ session.eliminate => Len(session.episodes) <= 1
    BY <1>2, SessionsAssumption DEF CallerShape, SessionsAssumption
  <2> QED
    BY <1>1, <2>1
<1>4. more \in Seq(Clauses) /\ e.assumptions \subseteq Literals
  BY <1>3, SessionsAssumption DEF SessionsAssumption
<1> HIDE DEF more
<1>5. /\ lits \in Seq(Clauses) /\ irredundant \in Seq(D) /\ redundant \in Seq(D)
      /\ Distinct(irredundant) /\ Distinct(redundant) /\ Range(irredundant) \cap Range(redundant) = {}
      /\ garbage = {} /\ Alive \subseteq D /\ Range(irredundant) \subseteq D /\ Range(redundant) \subseteq D
      /\ Range(Listed) = Range(irredundant) \cup Range(redundant)
      /\ Live \subseteq Clauses /\ Kept \subseteq Live
  BY <1>1, <1>2, ListedIs DEF ListsShape
<1>6. New \subseteq Clauses
  BY <1>4 DEF Range
<1>7. /\ all \in Seq(Clauses) /\ D \subseteq E /\ \A r \in D : all[r] = lits[r]
      /\ added \in Seq(E) /\ Distinct(added) /\ Range(added) \cap D = {}
      /\ {all[r] : r \in Range(added)} = New
  BY <1>4, <1>5, GrowingIs
<1> HIDE DEF all, added, D, E, New
<1>8. /\ irredundant \o added \in Seq(E) /\ Distinct(irredundant \o added)
      /\ Range(irredundant \o added) = Range(irredundant) \cup Range(added)
      /\ redundant \in Seq(E)
  BY <1>5, <1>7, ListGrows
<1>9. DOMAIN lits' = E
  BY <1>1 DEF E
<1>10. ListsShape'
  <2>1. Range(irredundant') \cap Range(redundant') = {}
    BY <1>1, <1>5, <1>7, <1>8
  <2> QED
    BY <1>1, <1>5, <1>7, <1>8, <1>9, <2>1 DEF ListsShape
<1>11. Alive' = Alive \cup Range(added)
  <2> DEFINE first == irredundant \o added
  <2>1. Listed' = first \o redundant
    BY <1>1 DEF Listed
  <2>2. first \in Seq(E) /\ redundant \in Seq(E) /\ Range(first) = Range(irredundant) \cup Range(added)
    BY <1>8
  <2> HIDE DEF first
  <2>3. Range(first \o redundant) = Range(first) \cup Range(redundant)
    BY <2>2, ConcatHolds
  <2> QED
    BY <1>1, <1>5, <2>1, <2>2, <2>3 DEF Alive
<1>12. Live' = Live \cup New
  <2>1. Live' = {all[r] : r \in Alive} \cup {all[r] : r \in Range(added)}
    BY <1>1, <1>11 DEF Live
  <2>2. {all[r] : r \in Alive} = {lits[r] : r \in Alive}
    BY <1>5, <1>7
  <2> QED
    BY <1>7, <2>1, <2>2 DEF Live
<1>13. Kept \cup New \subseteq Kept'
  <2>1. ASSUME NEW r \in KeptRefs PROVE r \in KeptRefs' /\ lits'[r] = lits[r]
    <3>1. r \in Alive /\ r \in D /\ lits'[r] = lits[r]
      BY <1>1, <1>5, <1>7 DEF KeptRefs
    <3> QED
      BY <1>1, <1>8, <1>11, <3>1 DEF KeptRefs
  <2>2. ASSUME NEW r \in Range(added) PROVE r \in KeptRefs'
    BY <1>1, <1>8, <1>11 DEF KeptRefs
  <2>3. New = {lits'[r] : r \in Range(added)}
    BY <1>1, <1>7
  <2>4. ASSUME NEW d \in Kept \cup New PROVE d \in Kept'
    <3>1. CASE d \in Kept
      BY <2>1, <3>1 DEF Kept
    <3>2. CASE d \in New
      BY <2>2, <2>3, <3>2 DEF Kept
    <3> QED
      BY <3>1, <3>2
  <2> QED
    BY <2>4
<1>14. /\ Internal' = Internal /\ Eliminations' = Eliminations
       /\ Vars(stated') = Vars(stated) \cup Vars(New) /\ Scope' = Scope \cup Vars(New)
       /\ Vars(Live') = Vars(Live) \cup Vars(New)
  <2>1. Internal' = Internal /\ Eliminations' = Eliminations
    BY <1>1 DEF Internal, Eliminations
  <2>2. Vars(stated \cup New) = Vars(stated) \cup Vars(New)
    BY VarsUnion
  <2>3. Vars(Live \cup New) = Vars(Live) \cup Vars(New)
    BY VarsUnion
  <2> QED
    BY <1>1, <1>12, <2>1, <2>2, <2>3 DEF Scope
<1>15. Eliminations = {} /\ (session.eliminate => redundant = <<>>)
  <2>1. CASE session.eliminate
    <3>1. lits = <<>> /\ extension = <<>>
      BY <1>2, <1>3, <2>1 DEF CallerShape
    <3>2. Eliminations = {}
      BY <3>1 DEF Eliminations, Range
    <3>3. redundant = <<>>
      <4>1. D = {}
        BY <3>1 DEF D
      <4> QED
        BY <1>5, <4>1
    <3> QED
      BY <3>2, <3>3
  <2>2. CASE ~session.eliminate
    BY <1>2, <2>2 DEF EliminationShape
  <2> QED
    BY <2>1, <2>2
<1>16. CallerShape'
  <2>1. stated' \subseteq Clauses
    BY <1>1, <1>2, <1>6 DEF CallerShape
  <2> QED
    BY <1>1, <1>2, <1>3, <1>14, <2>1 DEF CallerShape, Stages
<1>17. EliminationShape'
  BY <1>1, <1>14, <1>15 DEF EliminationShape
<1>18. highestStated' \in Nat /\ Vars(Live') \subseteq 1..highestStated'
  <2> DEFINE S == {0} \cup Vars(stated' \cup Live) \cup {Var(a) : a \in e.assumptions}
  <2>1. stated' \cup Live \in SUBSET Clauses
    BY <1>1, <1>2, <1>5, <1>6 DEF CallerShape
  <2>2. Vars(stated' \cup Live) \subseteq 1..MaxVariable
    BY <2>1, VarsBelow
  <2>3. \A a \in e.assumptions : Var(a) \in 1..MaxVariable
    BY <1>4, LiteralIs
  <2>4. MaxVariable \in Nat
    BY SessionsAssumption DEF SessionsAssumption
  <2>5. S \in SUBSET (0..MaxVariable) /\ S # {}
    <3>1. 1..MaxVariable \subseteq 0..MaxVariable /\ 0 \in 0..MaxVariable
      BY <2>4
    <3> QED
      BY <2>2, <2>3, <3>1
  <2>6. highestStated' = Max(S)
    BY <1>1 DEF MaxVariableOf
  <2>7. Vars(Live') \subseteq S
    <3>1. Vars(stated' \cup Live) = Vars(stated') \cup Vars(Live)
      BY VarsUnion
    <3> QED
      BY <1>14, <3>1
  <2> HIDE DEF S
  <2>8. Max(S) \in S /\ \A k \in S : k <= Max(S)
    BY <2>4, <2>5, MaxIs
  <2>9. Vars(Live') \subseteq 1..MaxVariable
    <3>1. Vars(Live') \subseteq Vars(stated' \cup Live)
      <4>1. Vars(stated' \cup Live) = Vars(stated') \cup Vars(Live)
        BY VarsUnion
      <4> QED
        BY <1>14, <4>1
    <3> QED
      BY <2>2, <3>1
  <2> QED
    <3>1. highestStated' \in Nat
      <4>1. Max(S) \in 0..MaxVariable
        BY <2>5, <2>8
      <4> QED
        BY <2>4, <2>6, <4>1
    <3>2. ASSUME NEW v \in Vars(Live') PROVE v \in 1..highestStated'
      <4>1. v \in 1..MaxVariable /\ v <= highestStated'
        BY <2>6, <2>7, <2>8, <2>9
      <4> QED
        BY <2>4, <3>1, <4>1
    <3> QED
      BY <3>1, <3>2
<1>19. TurnShape'
  <2>1. work' \in [pass : {"none"}, next : Nat \ {0}]
    BY <1>1
  <2>2. stage' = "between" /\ stage' \notin PassNames
    BY <1>1, PassNamesAre
  <2> QED
    BY <1>18, <2>1, <2>2 DEF TurnShape
<1>20. PassShape'
  BY <1>1 DEF PassShape, ReducerShape, ProbingPassShape, SubsumerShape, EliminatorShape, FactorizerShape
<1>21. \A c \in New : \A l \in c : Var(l) \in Vars(New)
  BY VarsHas
<1>22. AllComeBack'
  <2>1. SUFFICES ASSUME NEW vars \in SUBSET (1..MaxVariable), NEW m \in [vars -> BOOLEAN],
                        Scope \cup Vars(New) \subseteq vars, Satisfies(m, Kept')
                 PROVE  Satisfies(Undone(m)', stated \cup New)
    BY <1>1, <1>14 DEF AllComeBack, ComesBack
  <2>2. Undone(m)' = Undone(m)
    BY <1>1 DEF Undone
  <2>3. Satisfies(Undone(m), stated)
    <3>1. Satisfies(m, Kept)
      BY <1>13, <2>1 DEF Satisfies
    <3> QED
      BY <1>2, <2>1, <3>1 DEF AllComeBack, ComesBack
  <2>4. PICK wide \in SUBSET (1..MaxVariable) :
            /\ vars \subseteq wide /\ Undone(m) \in [wide -> BOOLEAN]
            /\ \A u \in vars : Undone(m)[u] = m[u]
    <3>1. extension \in Seq(Records)
      BY <1>2 DEF CallerShape
    <3>2. \A r \in Range(extension) : r.kind # "bve"
      BY <1>15 DEF Eliminations
    <3> QED
      BY <3>1, <3>2, ReplayIs, UndoneIsReplay
  <2>5. ASSUME NEW c \in New PROVE Holds(Undone(m), c)
    <3>1. Holds(m, c)
      BY <1>13, <2>1 DEF Satisfies
    <3>2. \A l \in c : Var(l) \in DOMAIN m /\ Var(l) \in DOMAIN Undone(m) /\ m[Var(l)] = Undone(m)[Var(l)]
      BY <1>21, <2>1, <2>4
    <3> QED
      BY <3>1, <3>2, HoldsAgrees
  <2> QED
    BY <2>2, <2>3, <2>5 DEF Satisfies
<1>23. AllCarryOver'
  <2>1. SUFFICES ASSUME (Vars(stated) \cup Vars(New)) \cap Internal = {},
                        NEW vars \in SUBSET (1..MaxVariable), NEW m \in [vars -> BOOLEAN],
                        Vars(stated) \cup Vars(New) \subseteq vars, Satisfies(m, stated \cup New)
                 PROVE  Satisfies(Completed(m)', Live \cup New)
    BY <1>1, <1>12, <1>14 DEF AllCarryOver, CarriesOver
  <2>2. Completed(m)' = Completed(m)
    BY <1>1 DEF Completed
  <2>3. Satisfies(Completed(m), Live)
    BY <1>2, <2>1 DEF AllCarryOver, CarriesOver, Satisfies
  <2>4. /\ Completed(m) \in [vars \cup Internal -> BOOLEAN]
        /\ \A u \in vars \ Internal : Completed(m)[u] = m[u]
    <3>1. extension \in Seq(Records) /\ Internal = IntroducedBy(extension) /\ Completed(m) = Complete(extension, m)
      BY <1>2, ScopeIs, CompletedIsComplete DEF CallerShape
    <3> QED
      <4>1. /\ Complete(extension, m) \in [vars \cup IntroducedBy(extension) -> BOOLEAN]
            /\ \A u \in vars \ IntroducedBy(extension) : Complete(extension, m)[u] = m[u]
        BY <3>1, CompleteIs
      <4> QED
        BY <3>1, <4>1
  <2>5. ASSUME NEW c \in New PROVE Holds(Completed(m), c)
    <3>1. Holds(m, c)
      BY <2>1 DEF Satisfies
    <3>2. \A l \in c : Var(l) \in DOMAIN m /\ Var(l) \in DOMAIN Completed(m) /\ m[Var(l)] = Completed(m)[Var(l)]
      BY <1>21, <2>1, <2>4
    <3> QED
      BY <3>1, <3>2, HoldsAgrees
  <2> QED
    BY <2>2, <2>3, <2>5 DEF Satisfies
<1>24. Extends
  BY <1>1, <1>7, <1>9, <1>11 DEF Extends, D
<1> QED
  BY <1>10, <1>16, <1>17, <1>19, <1>20, <1>22, <1>23, <1>24 DEF PassesInv, PassesShape

-----------------------------------------------------------------------------
(* The theorems                                                            *)

LEMMA PassesStep ==
  ASSUME PassesInv, PassNext
  PROVE  PassesInv'
BY SolveStep, EndPipelineStep, SkipPassStep, BuildImplicationGraphStep, PruneEdgeStep, EndPruningStep,
   CollectClausesStep, CloseUnderLiteralStep, EmitBackboneStep,
   EnterSubsumerStep, SubsumeLeftStep, MarkCheckedStep, TakeJustifierStep, StrengthenByPivotStep, EndSubsumptionStep,
   BuildOccurrencesStep, KeepVariableStep, ApplyEliminationStep, EndEliminationStep,
   EnterFactorizerStep, FactorLiteralStep, EndFactoringStep,
   LearnStep, ForgetStep, RunEpochStep, AnswerStep
   DEF PassNext

LEMMA StutterStep ==
  ASSUME PassesInv, UNCHANGED passVars
  PROVE  PassesInv'
<1>1. UNCHANGED <<session, episode, stated, highestStated, lits, irredundant, redundant, checked, garbage, extension,
                  stage, pipeline, work, epochs>>
  BY DEF passVars, callerVars, clauseLists
<1>2. AllComeBack' /\ AllCarryOver' /\ Listed' = Listed /\ Live' = Live /\ Scope' = Scope /\ Eliminations' = Eliminations
  BY <1>1, QuietStep
<1>3. ListsShape'
  BY <1>1 DEF PassesInv, PassesShape, ListsShape
<1>4. CallerShape'
  BY <1>1, <1>2 DEF PassesInv, PassesShape, CallerShape
<1>5. EliminationShape'
  BY <1>1, <1>2 DEF PassesInv, PassesShape, EliminationShape, Assumed, Episode
<1>6. TurnShape'
  BY <1>1, <1>2 DEF PassesInv, PassesShape, TurnShape
<1>7. ReducerShape' /\ ProbingPassShape'
  BY <1>1, <1>2 DEF PassesInv, PassesShape, PassShape, ReducerShape, ProbingPassShape
<1>8. SubsumerShape'
  BY <1>1, <1>2 DEF PassesInv, PassesShape, PassShape, SubsumerShape, Active, Text
<1>9. EliminatorShape' /\ FactorizerShape'
  BY <1>1, <1>2 DEF PassesInv, PassesShape, PassShape, EliminatorShape, FactorizerShape
<1> QED
  BY <1>2, <1>3, <1>4, <1>5, <1>6, <1>7, <1>8, <1>9 DEF PassesInv, PassesShape, PassShape

\* The invariant holds in every state: the lists and the record of the running
\* pass are well formed, what is never forgotten is replayed into what was
\* stated, and what was stated carries over into all there is.
THEOREM PassesInductive == PassSpec => []PassesInv
<1>1. PassInit => PassesInv
  BY InitStep
<1>2. PassesInv /\ [PassNext]_passVars => PassesInv'
  BY PassesStep, StutterStep
<1> QED
  BY <1>1, <1>2, PTL DEF PassSpec

\* The introduced variables being none the caller names, an assignment that
\* satisfies all there is, and the assumptions, is one of what was stated once
\* the replay has undone the eliminations: no elimination is of an assumption.
LEMMA InvComesBack ==
  ASSUME PassesInv, IntroducedDisjoint
  PROVE  SolutionsComeBack
<1> DEFINE vars == Vars(Live) \cup Named \cup Internal
<1>1. ListsShape /\ CallerShape /\ EliminationShape /\ AllComeBack
  BY DEF PassesInv, PassesShape
<1>2. \A a \in Assumed : a \in Literals /\ Var(a) \in Named
  <2>1. ASSUME NEW a \in Assumed PROVE a \in Literals
    <3>1. episode \in 0..Len(session.episodes) /\ session \in Sessions /\ Len(session.episodes) \in Nat
      BY <1>1, SessionsAssumption DEF CallerShape, SessionsAssumption
    <3>2. episode # 0 /\ a \in session.episodes[episode].assumptions
      BY <2>1 DEF Assumed, Episode
    <3>3. episode \in 1..Len(session.episodes)
      BY <3>1, <3>2
    <3> QED
      BY <3>1, <3>2, <3>3, SessionsAssumption DEF SessionsAssumption
  <2> QED
    BY <2>1 DEF Named
<1>3. vars \in SUBSET (1..MaxVariable) /\ Scope \subseteq vars /\ Vars(stated) \subseteq Named
  <2>1. \A a \in Assumed : Var(a) \in 1..MaxVariable
    BY <1>2, LiteralIs
  <2>2. Vars(Live) \subseteq Scope /\ Scope \subseteq 1..MaxVariable
    BY <1>1, ScopeIs DEF CallerShape
  <2>3. Vars(stated) \subseteq 1..MaxVariable /\ Internal \subseteq 1..MaxVariable
    BY <1>1, ScopeIs
  <2>4. Named \subseteq 1..MaxVariable
    BY <2>1, <2>3 DEF Named
  <2> QED
    BY <2>2, <2>3, <2>4 DEF Scope, Named
<1> HIDE DEF vars
<1>4. SUFFICES ASSUME NEW m \in [vars -> BOOLEAN], \A c \in Live : Holds(m, c), \A a \in Assumed : True(m, a)
               PROVE  /\ \A c \in stated : Holds(Reconstructed(m), c)
                      /\ \A a \in Assumed : True(Reconstructed(m), a)
  BY DEF SolutionsComeBack, vars
<1>5. Satisfies(Undone(m), stated)
  <2>1. Satisfies(m, Kept)
    BY <1>1, <1>4, ListedIs DEF Satisfies
  <2> QED
    BY <1>1, <1>3, <2>1 DEF AllComeBack, ComesBack
<1>6. PICK wide \in SUBSET (1..MaxVariable) :
         /\ vars \subseteq wide /\ Undone(m) \in [wide -> BOOLEAN]
         /\ \A u \in vars : (\A r \in Range(extension) : r.kind = "bve" => r.var # u) => Undone(m)[u] = m[u]
  <2>1. extension \in Seq(Records) /\ Undone(m) = Replay(extension, m)
    BY <1>1, UndoneIsReplay DEF CallerShape
  <2> QED
    BY <1>3, <2>1, ReplayIs, SMTT(30)
<1>7. \A u \in wide \ Internal : u \in DOMAIN Reconstructed(m) /\ u \in DOMAIN Undone(m) /\ Undone(m)[u] = Reconstructed(m)[u]
  <2>1. DOMAIN Undone(m) = wide
    BY <1>6
  <2> QED
    BY <2>1 DEF Reconstructed, Restrict
<1>8. Named \subseteq wide \ Internal
  BY <1>3, <1>6 DEF IntroducedDisjoint, vars
<1>9. ASSUME NEW c \in stated PROVE Holds(Reconstructed(m), c)
  <2>1. \A l \in c : Var(l) \in wide \ Internal
    BY <1>3, <1>8, VarsHas
  <2>2. Holds(Undone(m), c)
    BY <1>5 DEF Satisfies
  <2> QED
    BY <1>7, <2>1, <2>2, HoldsAgrees
<1>10. ASSUME NEW a \in Assumed PROVE True(Reconstructed(m), a)
  <2>1. Var(a) \in vars /\ Var(a) \in wide \ Internal
    BY <1>2, <1>8 DEF vars
  <2>2. Undone(m)[Var(a)] = m[Var(a)]
    <3>1. \A r \in Range(extension) : r.kind = "bve" => r.var # Var(a)
      BY <1>1 DEF EliminationShape, Eliminations
    <3> QED
      BY <1>6, <2>1, <3>1
  <2>3. Var(a) \in DOMAIN Reconstructed(m) /\ Reconstructed(m)[Var(a)] = m[Var(a)]
    BY <1>7, <2>1, <2>2
  <2>4. True(m, a) /\ Var(a) \in DOMAIN m
    BY <1>4, <2>1
  <2> QED
    BY <2>3, <2>4, TrueAgrees
<1> QED
  BY <1>9, <1>10

LEMMA InvCarriesOver ==
  ASSUME PassesInv
  PROVE  SolutionsCarryOver
<1>1. CallerShape /\ AllCarryOver
  BY DEF PassesInv, PassesShape
<1>2. SUFFICES ASSUME IntroducedDisjoint, NEW m \in Models(stated)
               PROVE  \A c \in Live : Holds(Completed(m), c)
  BY DEF SolutionsCarryOver
<1>3. m \in [Vars(stated) -> BOOLEAN] /\ Satisfies(m, stated)
  BY DEF Models, Assignments, Satisfies
<1>4. Vars(stated) \in SUBSET (1..MaxVariable) /\ Vars(stated) \cap Internal = {}
  BY <1>1, <1>2, ScopeIs DEF IntroducedDisjoint, Named
<1> QED
  BY <1>1, <1>3, <1>4 DEF AllCarryOver, CarriesOver, Satisfies

\* No solution is lost, whatever the passes and the search did, in every state
\* in which the introduced variables are none the caller names.
THEOREM SolutionsAlwaysCarryOver == PassSpec => []SolutionsCarryOver
BY PassesInductive, InvCarriesOver, PTL

\* And none is invented: unless the caller names a variable that factoring
\* introduced, the replay gives back a solution of what was stated.
THEOREM SolutionsAlwaysComeBack == PassSpec => [](IntroducedDisjoint => SolutionsComeBack)
<1>1. PassesInv => (IntroducedDisjoint => SolutionsComeBack)
  BY InvComesBack
<1> QED
  BY <1>1, PassesInductive, PTL

-----------------------------------------------------------------------------
(* What counts as compared                                                 *)

\* Two clauses with the flag are incomparable, in every stage.
Incomparable ==
  \A r \in Alive \cap checked : \A s \in (Alive \cap checked) \ {r} : lits[r] # {} => ~(lits[r] \subseteq lits[s])

\* While the order is gone through, what stays of the clauses behind subsumes
\* no clause there is, but where the two had been compared before.
SoFar ==
  stage = "forward_subsumer" /\ work.step = "subsume" =>
    /\ work.text = lits
    /\ \A i \in DOMAIN work.order : i < work.at /\ Active(i) /\ Text(i) # {} =>
         \A k \in DOMAIN work.order \ {i} : Active(k) /\ Text(i) \subseteq Text(k) => Compared(i, k)

ComparedInv == checked \subseteq DOMAIN lits /\ Incomparable /\ SoFar

\* What still has the flag and stays has it with the old text.
LEMMA Persisting ==
  ASSUME Incomparable, checked' \subseteq checked, Alive' \cap checked' \subseteq Alive,
         \A r \in checked' : lits'[r] = lits[r]
  PROVE  Incomparable'
BY DEF Incomparable

\* The flag goes with the clause to its new number.
LEMMA DropCompares ==
  ASSUME ListsShape, Incomparable, NEW gone, garbage \subseteq gone, Drop(gone)
  PROVE  checked' \subseteq DOMAIN lits' /\ Incomparable'
<1> DEFINE D == DOMAIN lits
           first == Keeping(irredundant, Range(irredundant) \ gone)
           second == Keeping(redundant, Range(redundant) \ gone)
           both == first \o second
<1>1. irredundant \in Seq(D) /\ redundant \in Seq(D)
  BY DEF ListsShape
<1>2. /\ lits' = [k \in DOMAIN both |-> lits[both[k]]]
      /\ checked' = {k \in DOMAIN both : both[k] \in checked}
  BY DEF Drop
<1> HIDE DEF D
<1>3. first \in Seq(D) /\ Range(first) = Range(irredundant) \ gone /\ Distinct(first)
  BY <1>1, KeepingIs DEF ListsShape
<1>4. second \in Seq(D) /\ Range(second) = Range(redundant) \ gone /\ Distinct(second)
  BY <1>1, KeepingIs DEF ListsShape
<1>5. Range(first) \cap Range(second) = {}
  BY <1>3, <1>4 DEF ListsShape
<1> HIDE DEF first, second
<1>6. Distinct(both) /\ Range(both) = Range(first) \cup Range(second)
  BY <1>3, <1>4, <1>5, ConcatHolds
<1> HIDE DEF both
<1>7. \A k \in DOMAIN both : both[k] \in Alive
  <2>1. Range(Listed) = Range(irredundant) \cup Range(redundant)
    BY ListedIs
  <2>2. \A k \in DOMAIN both : both[k] \in Range(both)
    BY DEF Range
  <2> QED
    BY <1>3, <1>4, <1>6, <2>1, <2>2 DEF Alive
<1>8. ASSUME NEW r \in checked', NEW s \in checked', r # s, lits'[r] # {} PROVE ~(lits'[r] \subseteq lits'[s])
  <2>1. both[r] \in Alive \cap checked /\ both[s] \in (Alive \cap checked) \ {both[r]}
    BY <1>2, <1>6, <1>7, <1>8 DEF Distinct
  <2>2. lits'[r] = lits[both[r]] /\ lits'[s] = lits[both[s]]
    BY <1>2, <1>8
  <2> QED
    BY <1>8, <2>1, <2>2 DEF Incomparable
<1>9. Incomparable'
  BY <1>8 DEF Incomparable
<1> QED
  BY <1>2, <1>9

\* New clauses, without the flag.
LEMMA ExtendsCompares ==
  ASSUME ComparedInv, Extends, checked' = checked
  PROVE  checked' \subseteq DOMAIN lits' /\ Incomparable'
<1>1. checked' \subseteq DOMAIN lits' /\ \A r \in checked' : lits'[r] = lits[r]
  BY DEF ComparedInv, Extends
<1>2. Alive' \cap checked' \subseteq Alive
  BY DEF ComparedInv, Extends
<1> QED
  BY <1>1, <1>2, Persisting DEF ComparedInv

\* Clauses that stay where they are and lose the flag where they shrink.
LEMMA ShrinkingCompares ==
  ASSUME ComparedInv, NEW changed, checked' = checked \ changed, DOMAIN lits' = DOMAIN lits,
         \A r \in DOMAIN lits : r \notin changed => lits'[r] = lits[r],
         UNCHANGED <<irredundant, redundant, garbage>>
  PROVE  checked' \subseteq DOMAIN lits' /\ Incomparable'
<1>1. Alive' = Alive
  BY DEF Alive, Listed
<1>2. checked' \subseteq checked /\ checked' \subseteq DOMAIN lits' /\ \A r \in checked' : lits'[r] = lits[r]
  BY DEF ComparedInv
<1> QED
  BY <1>1, <1>2, Persisting DEF ComparedInv

\* Clauses that are left as they are.
LEMMA QuietCompares ==
  ASSUME ComparedInv, UNCHANGED <<lits, irredundant, redundant, checked, garbage>>
  PROVE  checked' \subseteq DOMAIN lits' /\ Incomparable'
<1>1. DOMAIN lits' = DOMAIN lits /\ checked' = checked \ {}
  OBVIOUS
<1> QED
  BY <1>1, ShrinkingCompares

\* The order at its first clause: nothing is behind.
LEMMA IndexCompares ==
  ASSUME ListsShape, UNCHANGED lits, NEW turn, work' = IndexClauses(turn)
  PROVE  SoFar'
<1>1. work'.text = lits' /\ work'.at = 1 /\ work'.order = Listed
  BY DEF IndexClauses
<1>2. DOMAIN Listed \subseteq Nat \ {0}
  <2>1. Listed \in Seq(DOMAIN lits)
    BY ListedIs
  <2>2. DOMAIN Listed = 1..Len(Listed) /\ Len(Listed) \in Nat
    BY <2>1
  <2> QED
    BY <2>2
<1>3. \A i \in DOMAIN work'.order : ~(i < work'.at)
  <2>1. \A i \in Nat \ {0} : ~(i < 1)
    OBVIOUS
  <2> QED
    BY <1>1, <1>2, <2>1
<1> QED
  BY <1>1, <1>3 DEF SoFar

LEMMA InitCompares ==
  ASSUME PassInit
  PROVE  ComparedInv
BY DEF PassInit, ComparedInv, Incomparable, SoFar

LEMMA QuietStepsCompare ==
  ASSUME PassesInv, ComparedInv,
         \/ EndPipeline \/ SkipPass \/ BuildImplicationGraph \/ CollectClauses \/ EnterSubsumer
         \/ BuildOccurrences \/ KeepVariable \/ EnterFactorizer \/ TakeJustifier \/ RunEpoch \/ Answer
  PROVE  ComparedInv'
<1>1. UNCHANGED <<lits, irredundant, redundant, checked, garbage>>
  BY DEF EndPipeline, SkipPass, BuildImplicationGraph, CollectClauses, EnterSubsumer, BuildOccurrences,
         KeepVariable, EnterFactorizer, TakeJustifier, RunEpoch, Answer, Entering, clauseLists
<1>2. checked' \subseteq DOMAIN lits' /\ Incomparable'
  BY <1>1, QuietCompares
<1>3. SoFar'
  <2>1. CASE EnterSubsumer
    BY <1>1, <2>1, IndexCompares DEF EnterSubsumer, PassesInv, PassesShape
  <2>2. CASE RunEpoch
    BY <1>1, <2>2, IndexCompares DEF RunEpoch, PassesInv, PassesShape
  <2>3. CASE TakeJustifier
    BY <2>3, TakeJustifierStep DEF SoFar
  <2>4. CASE \/ EndPipeline \/ SkipPass \/ BuildImplicationGraph \/ CollectClauses
             \/ BuildOccurrences \/ KeepVariable \/ EnterFactorizer \/ Answer
    <3>1. stage' # "forward_subsumer"
      BY <2>4 DEF EndPipeline, SkipPass, BuildImplicationGraph, CollectClauses, BuildOccurrences,
                  KeepVariable, EnterFactorizer, Answer, Entering
    <3> QED
      BY <3>1 DEF SoFar
  <2> QED
    BY <2>1, <2>2, <2>3, <2>4
<1> QED
  BY <1>2, <1>3 DEF ComparedInv

LEMMA DroppingStepsCompare ==
  ASSUME PassesInv, ComparedInv, EndPruning \/ EndSubsumption \/ EndElimination \/ EndFactoring \/ Forget
  PROVE  ComparedInv'
<1>1. ListsShape
  BY DEF PassesInv, PassesShape
<1>2. checked' \subseteq DOMAIN lits' /\ Incomparable'
  <2>1. CASE Forget
    <3>1. garbage = {}
      BY <1>1, <2>1 DEF Forget, ListsShape
    <3>2. PICK r \in Range(redundant) : Drop({r})
      BY <2>1 DEF Forget
    <3> QED
      BY <1>1, <3>1, <3>2, DropCompares DEF ComparedInv
  <2>2. CASE ~Forget
    <3>1. Drop(garbage)
      BY <2>2 DEF EndPruning, EndSubsumption, EndElimination, EndFactoring, Flush
    <3> QED
      BY <1>1, <3>1, DropCompares DEF ComparedInv
  <2> QED
    BY <2>1, <2>2
<1>3. stage' # "forward_subsumer"
  BY DEF EndPruning, EndSubsumption, EndElimination, EndFactoring, Forget, Leaving
<1> QED
  BY <1>2, <1>3 DEF ComparedInv, SoFar

LEMMA GrowingStepsCompare ==
  ASSUME PassesInv, ComparedInv, Solve \/ Learn \/ ApplyElimination \/ FactorLiteral
  PROVE  ComparedInv'
<1>1. Extends
  BY SolveStep, LearnStep, ApplyEliminationStep, FactorLiteralStep
<1>2. checked' = checked /\ stage' # "forward_subsumer"
  BY DEF Solve, Learn, ApplyElimination, FactorLiteral
<1>3. checked' \subseteq DOMAIN lits' /\ Incomparable'
  BY <1>1, <1>2, ExtendsCompares
<1> QED
  BY <1>2, <1>3 DEF ComparedInv, SoFar

LEMMA ShrinkingStepsCompare ==
  ASSUME PassesInv, ComparedInv, CloseUnderLiteral \/ StrengthenByPivot
  PROVE  ComparedInv'
<1>1. DOMAIN lits' = DOMAIN lits /\ UNCHANGED <<irredundant, redundant, garbage, stage>>
  BY CloseUnderLiteralStep, StrengthenByPivotStep DEF CloseUnderLiteral, StrengthenByPivot
<1>2. CASE CloseUnderLiteral
  <2>1. PICK changed : /\ changed = {r \in DOMAIN lits : lits'[r] # lits[r]}
                       /\ checked' = checked \ changed
    BY <1>2 DEF CloseUnderLiteral, Rewritten
  <2>2. checked' \subseteq DOMAIN lits' /\ Incomparable'
    BY <1>1, <2>1, ShrinkingCompares
  <2>3. stage' # "forward_subsumer"
    BY <1>1, <1>2 DEF CloseUnderLiteral
  <2> QED
    BY <2>2, <2>3 DEF ComparedInv, SoFar
<1>3. CASE StrengthenByPivot
  <2>1. PICK changed :
          /\ \E pivot : lits' = [r \in DOMAIN lits |-> IF r \in changed THEN lits[r] \ {-pivot} ELSE lits[r]]
          /\ checked' = checked \ changed
    BY <1>3 DEF StrengthenByPivot, Rewritten
  <2>2. \A r \in DOMAIN lits : r \notin changed => lits'[r] = lits[r]
    BY <2>1
  <2>3. checked' \subseteq DOMAIN lits' /\ Incomparable'
    BY <1>1, <2>1, <2>2, ShrinkingCompares
  <2>4. work'.step # "subsume"
    BY <1>3, StrengthenByPivotStep
  <2> QED
    BY <2>3, <2>4 DEF ComparedInv, SoFar
<1> QED
  BY <1>2, <1>3

LEMMA PruneEdgeCompares ==
  ASSUME PassesInv, ComparedInv, PruneEdge
  PROVE  ComparedInv'
<1>1. UNCHANGED <<lits, irredundant, redundant, checked, stage>> /\ stage # "forward_subsumer" /\ garbage \subseteq garbage'
  BY DEF PruneEdge
<1>2. Alive' \cap checked' \subseteq Alive
  BY <1>1 DEF Alive, Listed
<1>3. Incomparable'
  BY <1>1, <1>2, Persisting DEF ComparedInv
<1> QED
  BY <1>1, <1>3 DEF ComparedInv, SoFar

LEMMA EmitBackboneCompares ==
  ASSUME PassesInv, ComparedInv, EmitBackbone
  PROVE  ComparedInv'
<1>1. UNCHANGED <<lits, irredundant, redundant, checked, garbage>> /\ stage' # "forward_subsumer"
  BY EmitBackboneStep DEF EmitBackbone, Leaving
<1>2. checked' \subseteq DOMAIN lits' /\ Incomparable'
  BY <1>1, QuietCompares
<1> QED
  BY <1>1, <1>2 DEF ComparedInv, SoFar

\* The clause of the order that stays has every clause it subsumes removed,
\* but those it had been compared with.
LEMMA SubsumesAllItCan ==
  ASSUME PassesInv, ComparedInv, SubsumeLeft, work.order[work.at] \notin garbage', Text(work.at) # {},
         NEW k \in DOMAIN work.order \ {work.at}, work.order[k] \notin garbage', Text(work.at) \subseteq Text(k)
  PROVE  Compared(work.at, k)
<1> DEFINE left == work.order[work.at]
<1>1. stage = "forward_subsumer" /\ work.step = "subsume" /\ work.at \in DOMAIN work.order /\ work.text = lits
  BY DEF SubsumeLeft, ComparedInv, SoFar
<1>2. garbage \subseteq garbage'
  BY DEF SubsumeLeft, Subsume
<1>3. Active(work.at) /\ Active(k) /\ lits[left] # {}
  BY <1>2 DEF Active, Text
<1>4. PICK l \in Rarest(lits[left]) :
            IF Subsumers(l) # {}
            THEN Subsume(work.order[Min(Subsumers(l))], {left})
            ELSE Subsume(left, {work.order[j] : j \in SubsumedBy(l)})
  BY <1>3 DEF SubsumeLeft
<1>5. Subsumers(l) = {}
  <2>1. SUFFICES ASSUME Subsumers(l) # {} PROVE FALSE
    OBVIOUS
  <2>2. Subsume(work.order[Min(Subsumers(l))], {left})
    BY <1>4, <2>1
  <2> QED
    BY <2>2 DEF Subsume
<1>6. garbage' = garbage \cup {work.order[j] : j \in SubsumedBy(l)}
  BY <1>4, <1>5 DEF Subsume
<1>7. k \in Occurs(l)
  <2>1. l \in lits[work.order[k]]
    BY <1>4 DEF Rarest, Text
  <2> QED
    BY <1>1, <2>1 DEF Occurs
<1>8. SUFFICES ASSUME ~Compared(work.at, k) PROVE FALSE
  OBVIOUS
<1>9. ~Compared(k, work.at)
  BY <1>8 DEF Compared
<1>10. k \in SubsumedBy(l)
  BY <1>3, <1>7, <1>9 DEF SubsumedBy, Candidates, Subsumes
<1> QED
  BY <1>6, <1>10

LEMMA SubsumeLeftCompares ==
  ASSUME PassesInv, ComparedInv, SubsumeLeft
  PROVE  ComparedInv'
<1>1. /\ stage = "forward_subsumer" /\ work.step = "subsume" /\ work.at \in DOMAIN work.order /\ work.text = lits
      /\ UNCHANGED <<lits, checked, stage>>
  BY DEF SubsumeLeft, ComparedInv, SoFar
<1>2. work'.order = work.order /\ work'.text = work.text /\ work'.at = work.at + 1 /\ Range(Listed)' = Range(Listed)
  BY SubsumeLeftStep
<1>3. garbage \subseteq garbage'
  BY DEF SubsumeLeft, Subsume
<1>4. Alive' \subseteq Alive
  BY <1>2, <1>3 DEF Alive
<1>5. Incomparable'
  BY <1>1, <1>4, Persisting DEF ComparedInv
<1>6. work.at \in Nat /\ DOMAIN work.order \subseteq Nat
  <2>1. work.order \in Seq(DOMAIN lits)
    BY <1>1 DEF PassesInv, PassesShape, PassShape, SubsumerShape
  <2> QED
    BY <1>1, <2>1
<1>7. ASSUME NEW i \in DOMAIN work.order, i < work.at + 1, work.order[i] \notin garbage', Text(i) # {},
             NEW k \in DOMAIN work.order \ {i}, work.order[k] \notin garbage', Text(i) \subseteq Text(k)
      PROVE  Compared(i, k)
  <2>1. CASE i = work.at
    BY <1>7, <2>1, SubsumesAllItCan
  <2>2. CASE i # work.at
    <3>1. i < work.at /\ Active(i) /\ Active(k)
      BY <1>3, <1>6, <1>7, <2>2 DEF Active
    <3> QED
      BY <1>1, <1>7, <3>1 DEF ComparedInv, SoFar
  <2> QED
    BY <2>1, <2>2
<1>8. \A k : Text(k)' = Text(k) /\ Active(k)' = (work.order[k] \notin garbage')
  BY <1>1, <1>2 DEF Text, Active
<1>9. \A j, k : Compared(j, k)' = Compared(j, k)
  BY <1>1, <1>2 DEF Compared
<1>10. SoFar'
  BY <1>1, <1>2, <1>7, <1>8, <1>9 DEF SoFar
<1> QED
  BY <1>1, <1>5, <1>10 DEF ComparedInv

LEMMA MarkCheckedCompares ==
  ASSUME PassesInv, ComparedInv, MarkChecked
  PROVE  ComparedInv'
<1>1. /\ stage = "forward_subsumer" /\ work.step = "subsume" /\ work.at \notin DOMAIN work.order
      /\ checked' = checked \cup {r \in Range(work.order) : r \notin garbage}
      /\ UNCHANGED <<lits, irredundant, redundant, garbage>>
  BY DEF MarkChecked
<1>2. work.order \in Seq(DOMAIN lits) /\ Range(work.order) = Range(Listed) /\ work.at \in Nat \ {0}
  BY <1>1 DEF PassesInv, PassesShape, PassShape, SubsumerShape
<1>3. \A i \in DOMAIN work.order : i < work.at
  <2>1. DOMAIN work.order = 1..Len(work.order) /\ Len(work.order) \in Nat
    BY <1>2
  <2> QED
    BY <1>1, <1>2, <2>1
<1>4. Alive' = Alive
  BY <1>1 DEF Alive, Listed
<1>5. ASSUME NEW r \in Alive, NEW s \in Alive \ {r}, lits[r] # {}, lits[r] \subseteq lits[s] PROVE FALSE
  <2>1. PICK i \in DOMAIN work.order : work.order[i] = r
    BY <1>2 DEF Alive, Range
  <2>2. PICK k \in DOMAIN work.order : work.order[k] = s
    BY <1>2 DEF Alive, Range
  <2>3. /\ i < work.at /\ Active(i) /\ Text(i) # {}
        /\ k \in DOMAIN work.order \ {i} /\ Active(k) /\ Text(i) \subseteq Text(k)
    BY <1>3, <1>5, <2>1, <2>2 DEF Active, Text, Alive
  <2>4. r \in checked /\ s \in checked
    BY <1>1, <2>1, <2>2, <2>3 DEF ComparedInv, SoFar, Compared
  <2> QED
    BY <1>5, <2>4 DEF ComparedInv, Incomparable
<1>6. Incomparable'
  BY <1>1, <1>4, <1>5 DEF Incomparable
<1>7. checked' \subseteq DOMAIN lits'
  <2>1. Range(work.order) \subseteq DOMAIN lits
    BY <1>2 DEF Range
  <2> QED
    BY <1>1, <2>1 DEF ComparedInv
<1>8. work'.step # "subsume"
  BY MarkCheckedStep
<1> QED
  BY <1>6, <1>7, <1>8 DEF ComparedInv, SoFar

LEMMA ComparedStep ==
  ASSUME PassesInv, ComparedInv, PassNext
  PROVE  ComparedInv'
BY QuietStepsCompare, DroppingStepsCompare, GrowingStepsCompare, ShrinkingStepsCompare, PruneEdgeCompares,
   EmitBackboneCompares, SubsumeLeftCompares, MarkCheckedCompares
   DEF PassNext

LEMMA ComparedStutter ==
  ASSUME ComparedInv, UNCHANGED passVars
  PROVE  ComparedInv'
<1>1. UNCHANGED <<lits, irredundant, redundant, checked, garbage, stage, work>>
  BY DEF passVars, callerVars, clauseLists
<1>2. checked' \subseteq DOMAIN lits' /\ Incomparable'
  BY <1>1, QuietCompares
<1>3. SoFar'
  BY <1>1 DEF ComparedInv, SoFar, Active, Text, Compared
<1> QED
  BY <1>2, <1>3 DEF ComparedInv

\* The pairs the flag makes the next pass skip are never owed, for every
\* session: as long as no clause is empty, two clauses that count as compared
\* are incomparable.  (The pass skips an empty clause, and marks it.)
THEOREM ComparedAlwaysIncomparable == PassSpec => []({} \notin Live => ComparedPairsIncomparable)
<1>1. PassInit => ComparedInv
  BY InitCompares
<1>2. PassesInv /\ ComparedInv /\ [PassNext]_passVars => ComparedInv'
  BY ComparedStep, ComparedStutter
<1>3. ComparedInv => ({} \notin Live => ComparedPairsIncomparable)
  BY DEF ComparedInv, Incomparable, ComparedPairsIncomparable, Live
<1> QED
  BY <1>1, <1>2, <1>3, PassesInductive, PTL DEF PassSpec

=============================================================================
