---------------------------- MODULE MCSessionStore ----------------------------
(***************************************************************************)
(* The session above the engine and the clause store inside it, checked by *)
(* one run.  They share no state: a behaviour is of one part, and the other *)
(* stays as it began.                                                      *)
(***************************************************************************)
EXTENDS MCSession, MCClauseStore

VARIABLE part   \* "session" or "store"

MCVars == <<part, sessionVars, vars>>

MCInit ==
  /\ part \in {"session", "store"}
  /\ SessionInit /\ Init
  /\ part = "store" => callsLeft = Spelling
  /\ part = "session" => budget = Budget(1, 1)

MCNext ==
  /\ UNCHANGED part
  /\ \/ part = "session" /\ SessionNext /\ UNCHANGED vars
     \/ part = "store" /\ Next /\ UNCHANGED sessionVars

MCSpec == MCInit /\ [][MCNext]_MCVars
=============================================================================
