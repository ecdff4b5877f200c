------------------------------ MODULE MCSession ------------------------------
(***************************************************************************)
(* Small sessions for TLC: every session makes the calls of one kind of    *)
(* caller, in every order.                                                 *)
(***************************************************************************)
EXTENDS Session

Kinds == {"literal", "clause", "assume", "release", "option", "profile", "clear",
          "attach", "terminate", "learn", "reset", "solve"}
Calls(counts) == [k \in Kinds |-> IF k \in DOMAIN counts THEN counts[k] ELSE 0]

TwoClauses == {{1, 2}, {-1}}
BothSides == {1, -2}
OneLemma == {{2}}
Unlimited == [conflict_limit |-> 0, decision_limit |-> 0, enabled_pass_mask |-> 0,
              strict_mode |-> 0, assumptions |-> {}]
PlainAndLimited ==
  {Unlimited, [Unlimited EXCEPT !.conflict_limit = 5, !.enabled_pass_mask = 3,
                                !.assumptions = {1}]}
PlainOnly == {Unlimited}

SomeOptions ==
  {<<"conflict_limit", 7>>, <<"reduction_fraction_percent", 30>>,
   <<"reduction_fraction_percent", 101>>, <<"restart_interval", 0>>,
   <<"restart_interval", -1>>, <<"glue_restart_threshold_percent", 50>>,
   <<"inprocess_conflict_window", 9>>, <<"inprocess_conflict_window", 0>>,
   <<"chb_enabled", 2>>, <<"local_search_effort_percent", 120>>}
AllProfiles == {"safe", "balanced", "bounded", "aggressive"}

\* A caller that spells clauses out, one that is interrupted, one that tunes,
\* one that listens.
Spelling == Calls([literal |-> 4, clause |-> 1, assume |-> 1, solve |-> 1])
Incremental == Calls([clause |-> 1, assume |-> 2, release |-> 1, terminate |-> 2,
                      reset |-> 1, solve |-> 2])
Tuning == Calls([option |-> 2, profile |-> 2, clear |-> 1, reset |-> 1, solve |-> 1])
Listening == Calls([clause |-> 2, attach |-> 1, learn |-> 2, reset |-> 1, solve |-> 3])
AllCallers == {Spelling, Incremental, Tuning, Listening}
OnlyTuning == {Tuning}
\* one that assumes as well
OnlyListening == {[Listening EXCEPT !["assume"] = 1]}
=============================================================================
