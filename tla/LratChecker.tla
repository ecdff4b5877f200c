---------------------------- MODULE LratChecker ----------------------------
(***************************************************************************)
(* proof::checker::lrat.  Clauses and antecedent chains are recorded under *)
(* their proof ids, and verify_chain replays one chain by reverse unit     *)
(* propagation: every literal of the derived clause is assumed false, then *)
(* each antecedent must become unit, which extends the assignment, or be   *)
(* falsified, which ends the check.  Each turn of the code's two loops is  *)
(* a step, so that the assignment it grows is part of the state.           *)
(***************************************************************************)
EXTENDS Integers, Sequences, FiniteSets

CONSTANTS Variables,    \* the variables
          Ids,          \* the proof ids
          Bodies,       \* the clauses that may be recorded
          Chains,       \* the antecedent chains that may be recorded
          MaxChains     \* ids that may have a chain at one time

Literals == [var : Variables, negated : BOOLEAN]

ASSUME BodiesAssumption == Bodies \subseteq Seq(Literals)
ASSUME ChainsAssumption == Chains \subseteq Seq(Ids)

VARIABLES
    clauses,        \* clauses_
    antecedents,    \* antecedents_
    phase,          \* where verify_chain stands
    subject,        \* the id whose derivation is checked
    at,             \* the next literal, or the next antecedent
    assigned        \* verify_chain's map from variables to truth values

recorded == <<clauses, antecedents>>
checking == <<phase, subject, at, assigned>>
lratVars == <<recorded, checking>>

Phases == {"idle", "assume", "replay", "accepted", "rejected"}
Derived == clauses[subject]
Chain == antecedents[subject]

With(f, k, v)  == [x \in DOMAIN f \cup {k} |-> IF x = k THEN v ELSE f[x]]
Without(f, k)  == [x \in DOMAIN f \ {k} |-> f[x]]

\* how the growing assignment sees the literals of an antecedent
Open(c)      == {k \in DOMAIN c : c[k].var \notin DOMAIN assigned}

\* a bug: a true literal goes unnoticed
SatisfiedNever(c) == FALSE

Satisfied(c) == \E k \in DOMAIN c \ Open(c) : assigned[c[k].var] # c[k].negated

---------------------------------------------------------------------------

RecordClause ==
    /\ phase = "idle"
    /\ \E id \in Ids, body \in Bodies : clauses' = With(clauses, id, body)
    /\ UNCHANGED <<antecedents, checking>>

\* record_antecedents, the chain of a clause recorded or not
RecordAntecedents ==
    /\ phase = "idle"
    /\ \E id \in Ids, chain \in Chains :
         /\ Cardinality(DOMAIN antecedents \cup {id}) <= MaxChains
         /\ antecedents' = With(antecedents, id, chain)
    /\ UNCHANGED <<clauses, checking>>

ForgetClause ==
    /\ phase = "idle"
    /\ \E id \in Ids : /\ clauses' = Without(clauses, id)
                       /\ antecedents' = Without(antecedents, id)
    /\ UNCHANGED checking

\* validate_clause, and each turn of check_chain and of finalize_unsat: an id
\* without a clause or without a chain is not verified
Verify ==
    /\ phase = "idle"
    /\ \E id \in DOMAIN clauses \cap DOMAIN antecedents :
         subject' = id
    /\ phase' = "assume"
    /\ at' = 1
    /\ assigned' = [v \in {} |-> FALSE]
    /\ UNCHANGED recorded

\* every literal of the derived clause is assumed false
AssumeFalse ==
    /\ phase = "assume"
    /\ at \in DOMAIN Derived
    /\ assigned' = With(assigned, Derived[at].var, Derived[at].negated)
    /\ at' = at + 1
    /\ UNCHANGED <<recorded, phase, subject>>

StartReplay ==
    /\ phase = "assume"
    /\ at \notin DOMAIN Derived
    /\ phase' = "replay"
    /\ at' = 1
    /\ UNCHANGED <<recorded, subject, assigned>>

\* an antecedent with one open literal and no true one is unit
ReplayUnit ==
    /\ phase = "replay"
    /\ at \in DOMAIN Chain
    /\ Chain[at] \in DOMAIN clauses
    /\ LET c == clauses[Chain[at]] IN
       /\ ~Satisfied(c)
       /\ \E k \in DOMAIN c :
            /\ Open(c) = {k}
            /\ assigned' = With(assigned, c[k].var, ~c[k].negated)
    /\ at' = at + 1
    /\ UNCHANGED <<recorded, phase, subject>>

\* an antecedent with no open literal and no true one is the conflict
ReplayConflict ==
    /\ phase = "replay"
    /\ at \in DOMAIN Chain
    /\ Chain[at] \in DOMAIN clauses
    /\ ~Satisfied(clauses[Chain[at]])
    /\ Open(clauses[Chain[at]]) = {}
    /\ phase' = "accepted"
    /\ UNCHANGED <<recorded, subject, at, assigned>>

\* an unknown or satisfied antecedent, one with two open literals, or the end
\* of the chain before any conflict
Fails ==
    at \in DOMAIN Chain /\ Chain[at] \in DOMAIN clauses =>
        LET c == clauses[Chain[at]] IN
        Satisfied(c) \/ (Open(c) # {} /\ ~\E k \in DOMAIN c : Open(c) = {k})

Reject ==
    /\ phase = "replay"
    /\ Fails
    /\ phase' = "rejected"
    /\ UNCHANGED <<recorded, subject, at, assigned>>

\* the map is gone with the call
Return ==
    /\ phase \in {"accepted", "rejected"}
    /\ phase' = "idle"
    /\ at' = 1
    /\ assigned' = [v \in {} |-> FALSE]
    /\ UNCHANGED <<recorded, subject>>

LratInit ==
    /\ clauses = [id \in {} |-> <<>>]
    /\ antecedents = [id \in {} |-> <<>>]
    /\ phase = "idle"
    /\ subject \in Ids
    /\ at = 1
    /\ assigned = [v \in {} |-> FALSE]

LratNext == \/ RecordClause \/ RecordAntecedents \/ ForgetClause
            \/ Verify \/ AssumeFalse \/ StartReplay
            \/ ReplayUnit \/ ReplayConflict \/ Reject \/ Return

LratSpec == LratInit /\ [][LratNext]_lratVars

---------------------------------------------------------------------------
(* Properties *)

Models == [Variables -> BOOLEAN]

Satisfies(m, c) == \E k \in DOMAIN c : m[c[k].var] # c[k].negated

\* The tables and the check in progress keep their types.
LratTypeOK ==
    /\ DOMAIN clauses \subseteq Ids
    /\ \A id \in DOMAIN clauses : clauses[id] \in Bodies
    /\ DOMAIN antecedents \subseteq Ids
    /\ \A id \in DOMAIN antecedents : antecedents[id] \in Chains
    /\ phase \in Phases
    /\ subject \in Ids
    /\ at \in Nat \ {0}
    /\ DOMAIN assigned \subseteq Variables
    /\ \A v \in DOMAIN assigned : assigned[v] \in BOOLEAN
    /\ phase # "idle" => subject \in DOMAIN clauses \cap DOMAIN antecedents

\* An accepted clause follows from the antecedents its chain names, whatever
\* clauses and chains were recorded: tautologies, repeated literals, the empty
\* clause and chains that name clauses twice included.
AcceptedFollows ==
    phase = "accepted" =>
        \A m \in Models :
            (\A k \in DOMAIN Chain : Chain[k] \in DOMAIN clauses => Satisfies(m, clauses[Chain[k]]))
                => Satisfies(m, Derived)

\* Why it does: a model of the antecedents replayed so far that falsifies the
\* derived clause agrees with the assignment the replay has grown.
ReplayAgrees ==
    /\ phase = "assume" =>
         \A m \in Models : ~Satisfies(m, Derived) => \A v \in DOMAIN assigned : assigned[v] = m[v]
    /\ phase = "replay" =>
         \A m \in Models :
            /\ ~Satisfies(m, Derived)
            /\ \A k \in DOMAIN Chain : Chain[k] \in DOMAIN clauses => Satisfies(m, clauses[Chain[k]])
            => \A v \in DOMAIN assigned : assigned[v] = m[v]

=============================================================================
