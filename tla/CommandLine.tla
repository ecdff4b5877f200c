---------------------------- MODULE CommandLine ----------------------------
(***************************************************************************)
(* The command-line program: it reads a DIMACS file into the solver and,   *)
(* unless told not to, into a copy of its own, reads its options, solves,  *)
(* and prints a model only after checking it against that copy.  The       *)
(* solver is external here and may answer anything, a wrong model too:     *)
(* the check is there for that.  A file is a sequence of lines of tokens.  *)
(***************************************************************************)
EXTENDS Integers, Sequences, FiniteSets, SequencesExt, FiniteSetsExt

CONSTANTS
    Files,          \* the files there are
    ArgumentLists,  \* argv without the program's name; the first is the file
    Numeral(_)      \* std::atoi, std::strtoull: zero for what is no number

TokenKinds == {"comment", "percent", "header", "number", "other"}
FileTokens == [kind : TokenKinds, value : Int]

ASSUME CommandAssumption ==
    /\ Files \subseteq Seq(Seq(FileTokens))
    /\ ArgumentLists \subseteq Seq(STRING)
    /\ \A list \in ArgumentLists : \A i \in DOMAIN list : Numeral(list[i]) \in Int

VARIABLES
    argv,       \* the arguments
    dimacs,     \* the lines of argv[1], or that it is no regular file
    copy,       \* cnf: retained literals and declared_variable_count
    loaded,     \* the clauses the solver was given, the last one perhaps pending
    request,    \* the solve request, and the settings of the solver
    answer,     \* what the solver returned
    output,     \* the status line, the values of the v line and the exit code
    turn        \* where main is

commandVars == <<argv, dimacs, copy, loaded, request, answer, output, turn>>

NoFile == <<"no regular file">>
NoCopy == [literals |-> <<>>, declared |-> 0]
NoRequest == [assumptions |-> <<>>, settings |-> <<>>]
NoAnswer == [status |-> "none", model |-> <<>>]
NoOutput == [line |-> "none", values |-> <<>>, code |-> -1]

LimitOptions == {"--conflict-limit", "--decision-limit"}
SettingOptions == {"--restart-interval", "--enabled-pass-mask"}   \* and the others alike
Options == 2..Len(argv)
Asks(flag) == \E i \in Options : argv[i] = flag
VerifyModel == ~Asks("--no-verify")
EmitModel == ~Asks("--no-model")

-----------------------------------------------------------------------------
\* read_dimacs_cnf.  A comment or a header runs to the end of its line, a
\* percent sign ends the formula, a lone sign and junk are passed over.
NewReading == [clause |-> <<>>, clauses |-> <<>>, literals |-> <<>>, declared |-> 0, skips |-> FALSE, stopped |-> FALSE]

ReadNumber(s, value) ==
    IF value = 0 THEN [s EXCEPT !.clauses = Append(@, s.clause), !.clause = <<>>, !.literals = Append(@, 0)]
    ELSE [s EXCEPT !.clause = Append(@, value), !.literals = Append(@, value)]

ReadCommandToken(s, token) ==
    IF s.stopped \/ s.skips THEN s
    ELSE CASE token.kind = "comment" -> [s EXCEPT !.skips = TRUE]
           [] token.kind = "percent" -> [s EXCEPT !.stopped = TRUE]
           [] token.kind = "header"  -> [s EXCEPT !.skips = TRUE,
                                                  !.declared = IF token.value > 0 THEN token.value ELSE @]
           [] token.kind = "number"  -> ReadNumber(s, token.value)
           [] token.kind = "other"   -> s

ReadCommandLine(s, line) ==
    LET read[n \in 0..Len(line)] == IF n = 0 THEN s ELSE ReadCommandToken(read[n - 1], line[n])
    IN [read[Len(line)] EXCEPT !.skips = FALSE]
ReadFile ==
    LET read[n \in 0..Len(dimacs)] == IF n = 0 THEN NewReading ELSE ReadCommandLine(read[n - 1], dimacs[n])
    IN read[Len(dimacs)]

-----------------------------------------------------------------------------
\* the options, left to right: each takes the argument after it as its value
Passed(o, n) == [o EXCEPT !.at = @ + n]
ReadOption(o) ==
    CASE ~o.ok \/ o.at > Len(argv) -> o
      [] o.ok /\ o.at \in Options /\ argv[o.at] \in {"--no-model", "--no-verify"} -> Passed(o, 1)
      [] o.ok /\ o.at < Len(argv) /\ argv[o.at] = "--assume" /\ Numeral(argv[o.at + 1]) # 0 ->
           [Passed(o, 2) EXCEPT !.request.assumptions = Append(@, Numeral(argv[o.at + 1]))]
      [] o.ok /\ o.at < Len(argv) /\ argv[o.at] \in LimitOptions \cup SettingOptions ->
           [Passed(o, 2) EXCEPT !.request.settings = Append(@, <<argv[o.at], Numeral(argv[o.at + 1])>>)]
      [] OTHER -> [o EXCEPT !.ok = FALSE]
ReadOptions ==
    LET read[n \in 0..Len(argv)] == IF n = 0 THEN [request |-> NoRequest, at |-> 2, ok |-> TRUE] ELSE ReadOption(read[n - 1])
    IN read[Len(argv)]

-----------------------------------------------------------------------------
\* model_values: declared variables without a value are true
ModelValues(model) ==
    LET bound == Max({Len(model), copy.declared, 0})
    IN [v \in 1..bound |-> IF v <= Len(model) THEN model[v] ELSE TRUE]

ValueSays(values, l) == \/ l > 0 /\ l <= Len(values) /\ values[l]
                        \/ l < 0 /\ -l <= Len(values) /\ ~values[-l]

\* first_unsatisfied_clause: by the terminating zeros of the copy; the bug lets
\* one satisfied clause speak for those after it
CheckSticky(values, c, l) ==
    IF c.found # 0 THEN c
    ELSE IF l # 0 THEN [c EXCEPT !.satisfied = @ \/ ValueSays(values, l)]
    ELSE IF c.satisfied THEN [c EXCEPT !.clause = @ + 1]
    ELSE [c EXCEPT !.found = c.clause]
CheckLiteral(values, c, l) ==
    IF c.found # 0 THEN c
    ELSE IF l # 0 THEN [c EXCEPT !.satisfied = @ \/ ValueSays(values, l)]
    ELSE IF c.satisfied THEN [c EXCEPT !.clause = @ + 1, !.satisfied = FALSE]
    ELSE [c EXCEPT !.found = c.clause]
FirstUnsatisfiedClause(values) ==
    LET check[n \in 0..Len(copy.literals)] ==
          IF n = 0 THEN [clause |-> 1, satisfied |-> FALSE, found |-> 0]
          ELSE CheckLiteral(values, check[n - 1], copy.literals[n])
    IN check[Len(copy.literals)].found

\* print_model: every variable of the table, signed
SignedValues(values) == [v \in DOMAIN values |-> IF values[v] THEN v ELSE -v]

-----------------------------------------------------------------------------
Exit(line, values, code) == output' = [line |-> line, values |-> values, code |-> code] /\ turn' = "ended"

CommandInit ==
    /\ argv \in ArgumentLists /\ dimacs \in Files \cup {NoFile}
    /\ copy = NoCopy /\ loaded = [clauses |-> <<>>, pending |-> <<>>]
    /\ request = NoRequest /\ answer = NoAnswer /\ output = NoOutput /\ turn = "arguments"

\* help wins over everything; then there must be a file to read
CheckArguments ==
    /\ turn = "arguments"
    /\ IF \E i \in DOMAIN argv : argv[i] \in {"--help", "-h"} THEN Exit("usage", <<>>, 0)
       ELSE IF argv = <<>> THEN Exit("usage", <<>>, 1)
       ELSE IF dimacs = NoFile THEN Exit("error", <<>>, 1)
       ELSE turn' = "read" /\ UNCHANGED output
    /\ UNCHANGED <<argv, dimacs, copy, loaded, request, answer>>

\* the copy is kept only for a check; a file may vanish before it is opened
ReadDimacsCnf ==
    /\ turn = "read"
    /\ \/ /\ LET s == ReadFile
             IN /\ loaded' = [clauses |-> s.clauses, pending |-> s.clause]
                /\ copy' = IF VerifyModel THEN [literals |-> s.literals, declared |-> s.declared] ELSE NoCopy
          /\ turn' = "options" /\ UNCHANGED output
       \/ Exit("error", <<>>, 1) /\ UNCHANGED <<copy, loaded>>
    /\ UNCHANGED <<argv, dimacs, request, answer>>

ParseOptions ==
    /\ turn = "options"
    /\ LET read == ReadOptions
       IN /\ request' = read.request
          /\ IF read.ok THEN turn' = "solve" /\ UNCHANGED output ELSE Exit("error", <<>>, 1)
    /\ UNCHANGED <<argv, dimacs, copy, loaded, answer>>

\* solver::solve closes a pending clause; its model is over what was stated
GivenToSolve == loaded.clauses \o (IF loaded.pending = <<>> THEN <<>> ELSE <<loaded.pending>>)
Mentioned == (UNION {ToSet(c) : c \in ToSet(GivenToSolve)}) \cup ToSet(request.assumptions)
ModelSize == Max({IF l < 0 THEN -l ELSE l : l \in Mentioned} \cup {0})
SolveRequest ==
    /\ turn = "solve"
    /\ \E status \in {"satisfiable", "unsatisfiable", "unknown", "terminated"} :
         \E model \in [1..ModelSize -> BOOLEAN] :
           answer' = [status |-> status, model |-> IF status = "satisfiable" THEN model ELSE <<>>]
    /\ turn' = "report"
    /\ UNCHANGED <<argv, dimacs, copy, loaded, request, output>>

ReportAnswer ==
    /\ turn = "report"
    /\ LET values == ModelValues(answer.model)
       IN CASE answer.status = "satisfiable" /\ VerifyModel /\ FirstUnsatisfiedClause(values) # 0 -> Exit("UNKNOWN", <<>>, 1)
            [] answer.status = "satisfiable" /\ ~(VerifyModel /\ FirstUnsatisfiedClause(values) # 0) ->
                 Exit("SATISFIABLE", IF EmitModel THEN SignedValues(values) ELSE <<>>, 10)
            [] answer.status = "unsatisfiable" -> Exit("UNSATISFIABLE", <<>>, 20)
            [] answer.status \in {"unknown", "terminated"} -> Exit("UNKNOWN", <<>>, 0)
    /\ UNCHANGED <<argv, dimacs, copy, loaded, request, answer>>

CommandNext == CheckArguments \/ ReadDimacsCnf \/ ParseOptions \/ SolveRequest \/ ReportAnswer

CommandSpec == CommandInit /\ [][CommandNext]_commandVars

-----------------------------------------------------------------------------
Holds(values, c) == \E l \in ToSet(c) : ValueSays(values, l)
ClosedHold == \A c \in ToSet(loaded.clauses) : Holds(ModelValues(answer.model), c)

\* A model the program prints satisfies every closed clause the solver was
\* given, and one that does is never refused; the check reads a copy made
\* beside the clauses, so the two must not part over comments, headers or a
\* percent sign (kmx-sat-main.cpp 36-139, 176-205, 371-395).
CheckedBeforePrinted ==
    turn = "ended" /\ answer.status = "satisfiable" /\ VerifyModel =>
      (output.line = "SATISFIABLE" <=> ClosedHold)

\* The v line is total: it says of every variable of the formula, and of those
\* the header declares when the copy was kept, what the model says of it
\* (kmx-sat-main.cpp 142-168, 210-240).
LineTotal ==
    turn = "ended" /\ output.line = "SATISFIABLE" /\ EmitModel =>
      /\ \A v \in 1..Len(output.values) : output.values[v] \in {v, -v}
      /\ \A v \in 1..ModelSize : output.values[v] = IF answer.model[v] THEN v ELSE -v
      /\ VerifyModel => Len(output.values) >= ReadFile.declared

ProgramReports == CheckedBeforePrinted /\ LineTotal
=============================================================================
