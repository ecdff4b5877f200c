------------------------------ MODULE Ingestion ------------------------------
(***************************************************************************)
(* The two ways a formula comes in from a file: the fixtures of            *)
(* io/fixture (writer, reader, validator, and the external frontend they   *)
(* are staged in) and the DIMACS text of io/dimacs_parser.                 *)
(*                                                                         *)
(* A file is a sequence of lines.  A line of numbers is the sequence of    *)
(* its numbers; the header of a fixture is a record of its fields.  A file *)
(* may come back damaged: cut inside a line, with a line lost, or with a   *)
(* literal turned over.  The checksum stands for the sequence of the       *)
(* values it mixes, so two payloads have one checksum only when they mix   *)
(* the same values.  The frontend has no variable mapper (module           *)
(* VariableMap), so it stages a literal as it reads it.                    *)
(***************************************************************************)
EXTENDS Integers, Sequences, FiniteSets, SequencesExt, FiniteSetsExt, Functions

CONSTANTS GivenClauses,  \* the clauses a writer may be given
          Asked,         \* the assumptions a request may have
          Limits,        \* what stands for the limits of a request
          MaxCalls,      \* bound: calls of the writer, but for finalize_fixture
          MaxFiles,      \* bound: how often a file is opened for reading
          MaxNumbers,    \* bound: literals in a line
          MaxBreaks      \* bound: line ends in the numbers of a DIMACS text

VARIABLES
  writer,      \* the writer: kind, clauses, assumptions, limits, checksum
  calls,       \* calls of the writer so far
  file,        \* the lines of the file
  finalized,   \* history: what the writer held when it made `file`, and whether
               \* its checksum was of it
  reader,      \* the reader: the copy it reads, header, payload, and what its
               \* validator holds; history: what the file is `of`, and what the
               \* header it holds came `under`
  stage,       \* the step the reader reached
  files,       \* files opened so far
  frontend,    \* what the external frontend has staged
  parsed       \* the DIMACS parser's last result, and the clauses printed

ingestVars == <<writer, calls, file, finalized, reader, stage,
                files, frontend, parsed>>

-----------------------------------------------------------------------------
Kinds == {"cnf", "request"}
VarOf(l)  == IF l < 0 THEN -l ELSE l
Negated(l) == -l

\* a bug: as if both literals of a variable had one value
RawOfVariable(l) == 2 * VarOf(l)

Raw(l)    == 2 * VarOf(l) + IF l < 0 THEN 1 ELSE 0
HighestVar(lits) == Max({0} \cup {VarOf(l) : l \in lits})
LitsOf(clauses) == UNION {Range(c) : c \in Range(clauses)}

\* payload_checksum: the values it mixes, in order
Digest(p, version, declared) ==
  <<version, p.kind = "request", declared>>
    \o FlattenSeq([i \in DOMAIN p.clauses |->
                     <<Len(p.clauses[i])>> \o [j \in DOMAIN p.clauses[i] |-> Raw(p.clauses[i][j])]])
    \o [i \in DOMAIN p.assumptions |-> Raw(p.assumptions[i])]
    \o [i \in DOMAIN p.assumptions |-> Raw(p.assumptions[i])]
    \o <<p.limits>>

CurrentVersion == 1
NoChecksum == <<>>
NoLimits   == 0
Empty(kind) == [kind |-> kind, clauses |-> <<>>, assumptions |-> <<>>, limits |-> NoLimits]
Payload(w) == [kind |-> w.kind, clauses |-> w.clauses, assumptions |-> w.assumptions, limits |-> w.limits]

-----------------------------------------------------------------------------
(* The writer.  It is another object than the reader and the two meet in   *)
(* the file only, so it is not used while a file is being read.            *)

NotReading == ~parsed.done /\ stage \in {"closed", "refused", "validated"}

Write(w) ==
  /\ NotReading
  /\ calls < MaxCalls
  /\ calls' = calls + 1
  /\ writer' = w
  /\ UNCHANGED <<file, finalized, reader, stage, files, frontend, parsed>>

BeginFixture == \E kind \in Kinds : Write(Empty(kind) @@ [checksum |-> NoChecksum])

AppendClause == \E c \in GivenClauses : Write([writer EXCEPT !.clauses = @ \o <<c>>])
AppendAssumptions == \E a \in Asked : Write([writer EXCEPT !.assumptions = @ \o a])
SetLimitsPayload ==
  \E a \in Asked, n \in Limits : Write([writer EXCEPT !.assumptions = a, !.limits = n])

Declared(w) == HighestVar(LitsOf(w.clauses) \cup Range(w.assumptions))
WithChecksum(w) == [w EXCEPT !.checksum = Digest(Payload(w), CurrentVersion, Declared(w))]

WriteChecksum == Write(WithChecksum(writer))

\* finalize_fixture: an earlier checksum is kept, and the assumptions are
\* written for a request only
HeaderLine(w) ==
  [line |-> "header", version |-> CurrentVersion, kind |-> w.kind, declared |-> Declared(w), clauses |-> Len(w.clauses),
   assumptions |-> Len(w.assumptions), limits |-> w.limits, checksum |-> w.checksum]
Tag(letter) == [line |-> letter]
Numbers(lits) == [line |-> "numbers", numbers |-> lits \o <<0>>]
Serialized(w) ==
  <<HeaderLine(w)>>
    \o FlattenSeq([i \in DOMAIN w.clauses |-> <<Tag("c"), Numbers(w.clauses[i])>>])
    \o (IF w.kind = "request" THEN <<Tag("a"), Numbers(w.assumptions)>> ELSE <<>>)

FinalizeFixture ==
  /\ NotReading
  /\ writer' = IF writer.checksum = NoChecksum THEN WithChecksum(writer) ELSE writer
  /\ file' = Serialized(writer')
  /\ finalized' = [payload |-> Payload(writer), fresh |-> writer' = WithChecksum(writer)]
  /\ UNCHANGED <<calls, reader, stage, files, frontend, parsed>>

\* The copies of a file that a reader may find: cut inside a line, with a
\* line lost or a literal turned over, or with the header of another schema.
Whole(lines) == [lines |-> lines, torn |-> FALSE, damage |-> "none"]
Copies(lines) ==
  {Whole(lines)}
  \cup {[lines |-> SubSeq(lines, 1, k), torn |-> TRUE, damage |-> "torn"] : k \in DOMAIN lines}
  \cup {[lines |-> RemoveAt(lines, k), torn |-> FALSE, damage |-> "lost a line"] : k \in DOMAIN lines}
  \cup {[lines |-> [lines EXCEPT ![p[1]].numbers[p[2]] = Negated(@)], torn |-> FALSE, damage |-> "turned"] :
          p \in {q \in (DOMAIN lines) \X (1..MaxNumbers) :
                   lines[q[1]].line = "numbers" /\ q[2] < Len(lines[q[1]].numbers)}}
  \cup {[lines |-> [lines EXCEPT ![1].version = @ + 1], torn |-> FALSE, damage |-> "foreign"] : k \in DOMAIN lines}

-----------------------------------------------------------------------------
(* The reader.  Its caller goes on to the next step when the one before    *)
(* succeeded, but may materialise after any refusal, as the tests do.  A   *)
(* file opened takes the payload of the one before with it, and no more:   *)
(* the header and what the validator holds stay.                           *)

NoHeader == [kind |-> "cnf", version |-> 0, declared |-> 0, clauses |-> 0, assumptions |-> 0,
             limits |-> NoLimits, checksum |-> NoChecksum]
HeaderFields == DOMAIN NoHeader

OpenFixture ==
  /\ files < MaxFiles
  /\ NotReading
  /\ files' = files + 1
  /\ stage' = "open"
  /\ \E copy \in Copies(file) :
       reader' = [reader EXCEPT !.source = copy, !.of = finalized, !.clauses = <<>>,
                               !.assumptions = <<>>, !.limits = NoLimits]
  /\ UNCHANGED <<writer, calls, file, finalized, frontend, parsed>>

\* read_header: the whole file is read, then its first line parsed; a line
\* without an end is no header
Headed(copy) == /\ copy.lines # <<>>
                /\ copy.lines[1].line = "header"
                /\ ~(copy.torn /\ Len(copy.lines) = 1)

ReadHeader ==
  /\ stage = "open"
  /\ IF Headed(reader.source)
     THEN LET head == reader.source.lines[1]
          IN /\ stage' = "headed"
             /\ reader' = [reader EXCEPT !.header = Restrict(head, HeaderFields),
                                         !.validator = [@ EXCEPT !.kind = head.kind, !.version = head.version,
                                                                 !.checksum = head.checksum],
                                         !.under = reader.of.payload]
     ELSE stage' = "refused" /\ UNCHANGED reader
  /\ UNCHANGED <<writer, calls, file, finalized, files, frontend, parsed>>

ValidateHeader ==
  /\ stage = "headed"
  /\ stage' = IF reader.validator.version = CurrentVersion THEN "valid" ELSE "refused"
  /\ UNCHANGED <<writer, calls, file, finalized, reader, files, frontend, parsed>>

\* parse_clause_line: the numbers before the zero
LiteralsOf(line) == SelectSeq(line.numbers, LAMBDA n : n # 0)

\* One line of the payload.  Where a letter is due, a line of one character
\* that is no letter is passed over, and at a longer one the loop stands still.
ReadLine(s, line, ended) ==
  CASE s.at \in {"refused", "spins"} -> s
    [] s.at = "letter" /\ line.line \in {"c", "a"} -> [s EXCEPT !.at = line.line]
    [] s.at = "letter" /\ line = Numbers(<<>>) -> s
    [] s.at = "letter" -> [s EXCEPT !.at = "spins"]
    [] line.line # "numbers" \/ ~ended -> [s EXCEPT !.at = "refused"]
    [] s.at = "c" /\ LiteralsOf(line) = <<>> -> [s EXCEPT !.at = "refused"]
    [] s.at = "c" -> [s EXCEPT !.at = "letter", !.clauses = Append(@, LiteralsOf(line))]
    [] s.at = "a" -> [s EXCEPT !.at = "letter", !.assumptions = LiteralsOf(line)]

PayloadOf(lines, cut) ==
  FoldLeft(LAMBDA s, i : ReadLine(s, lines[i], ~(cut /\ i = Len(lines))),
           [at |-> "letter", clauses |-> <<>>, assumptions |-> <<>>], [i \in DOMAIN lines |-> i])

\* load_payload: counts that do not match the header empty the payload, a
\* malformed record leaves what was read before it; only a payload that is
\* complete reaches the validator
LoadPayload ==
  /\ stage = "valid"
  /\ LET p == PayloadOf(Tail(reader.source.lines), reader.source.torn)
         matches == Len(p.clauses) = reader.header.clauses /\ Len(p.assumptions) = reader.header.assumptions
         kept == [clauses |-> p.clauses, assumptions |-> p.assumptions, limits |-> reader.header.limits]
     IN CASE p.at = "spins" -> stage' = "spins" /\ reader' = kept @@ reader
          [] p.at # "letter" /\ p.at # "spins" -> stage' = "refused" /\ reader' = kept @@ reader
          [] p.at = "letter" /\ ~matches ->
               /\ stage' = "refused"
               /\ reader' = [reader EXCEPT !.clauses = <<>>, !.assumptions = <<>>, !.limits = NoLimits]
          [] p.at = "letter" /\ matches ->
               /\ stage' = "loaded"
               /\ reader' = [kept @@ reader EXCEPT
                               !.validator = [declared |-> reader.header.declared] @@ kept @@ @]
  /\ UNCHANGED <<writer, calls, file, finalized, files, frontend, parsed>>

InDomain(v) ==
  \A l \in LitsOf(v.clauses) \cup Range(v.assumptions) : VarOf(l) \in 1..v.declared

\* validate_payload, with the validator's checks of checksum, domain and shape
PayloadValid ==
  /\ Len(reader.clauses) = reader.header.clauses
  /\ Len(reader.assumptions) = reader.header.assumptions
  /\ reader.validator.checksum = Digest(reader.validator, reader.validator.version, reader.validator.declared)
  /\ InDomain(reader.validator)
  /\ reader.validator.kind = "cnf" => <<>> \notin Range(reader.validator.clauses)

ValidatePayload ==
  /\ stage = "loaded"
  /\ stage' = IF PayloadValid THEN "validated" ELSE "refused"
  /\ UNCHANGED <<writer, calls, file, finalized, reader, files, frontend, parsed>>

\* materialize_fixture_into_frontend: a formula replaces what was staged but
\* leaves the prepared request; a request carries no clauses over
Staged ==
  IF reader.header.kind = "cnf"
  THEN [frontend EXCEPT !.clauses = reader.clauses, !.assumptions = <<>>, !.of = reader.under, !.opened = reader.of.payload]
  ELSE [clauses |-> <<>>, assumptions |-> reader.assumptions, of |-> reader.under, opened |-> reader.of.payload,
        request |-> [assumptions |-> reader.assumptions, limits |-> reader.limits]]

Materialize ==
  /\ stage \in {"loaded", "validated", "refused"}
  /\ frontend' = IF PayloadValid THEN Staged ELSE frontend
  /\ UNCHANGED <<writer, calls, file, finalized, reader, stage, files, parsed>>

-----------------------------------------------------------------------------
(* DIMACS.  The same clauses, printed with line ends anywhere between two   *)
(* numbers, with or without a comment, and perhaps wrongly.                 *)

Flaws == {"none", "count", "headless", "two headers", "domain", "token", "open"}

Tokens(f) == FlattenSeq([i \in DOMAIN f |-> Append(f[i], 0)])

\* the numbers, cut into lines behind the positions of `breaks`
Cut(tokens, breaks) ==
  LET ends == SetToSortSeq((breaks \cup {Len(tokens)}) \cap DOMAIN tokens, LAMBDA i, j : i < j)
  IN [k \in DOMAIN ends |->
        [line |-> "numbers", numbers |-> SubSeq(tokens, IF k = 1 THEN 1 ELSE ends[k - 1] + 1, ends[k])]]

Printed(f, breaks, comment, flaw) ==
  LET tokens == IF flaw = "open" THEN SubSeq(Tokens(f), 1, Len(Tokens(f)) - 1) ELSE Tokens(f)
      header == [line |-> "p", vars |-> HighestVar(LitsOf(f)) - (IF flaw = "domain" THEN 1 ELSE 0),
                 clauses |-> Len(f) + (IF flaw = "count" THEN 1 ELSE 0)]
  IN (IF comment THEN <<[line |-> "comment"]>> ELSE <<>>)
       \o (IF flaw = "headless" THEN <<>> ELSE <<header>>)
       \o (IF flaw = "two headers" THEN <<header>> ELSE <<>>)
       \o Cut(tokens, breaks)
       \o (IF flaw = "token" THEN <<[line |-> "junk"]>> ELSE <<>>)

\* the flaws a formula can have: an open last clause has a literal, a domain
\* too small has a variable
Possible(f, flaw) ==
  /\ flaw \in {"open", "headless"} => f # <<>> /\ f[Len(f)] # <<>>
  /\ flaw = "domain" => LitsOf(f) # {}

Refuse(s, error) == [s EXCEPT !.error = error]

ReadToken(s, token) ==
  CASE s.error # "" -> s
    [] token = 0 -> [s EXCEPT !.clauses = Append(@, s.buffer), !.buffer = <<>>]
    [] VarOf(token) > s.vars -> Refuse(s, "literal out of domain")
    [] OTHER -> [s EXCEPT !.buffer = Append(@, token)]

ReadDimacsLine(s, line) ==
  CASE s.error # "" \/ line.line = "comment" -> s
    [] line.line = "p" /\ s.header -> Refuse(s, "duplicate header")
    [] line.line = "p" -> [s EXCEPT !.header = TRUE, !.vars = line.vars, !.declared = line.clauses]
    [] ~s.header -> Refuse(s, "missing header")
    [] line.line = "junk" -> Refuse(s, "invalid literal token")
    [] OTHER -> FoldLeft(ReadToken, s, line.numbers)

ParserStart == [error |-> "", header |-> FALSE, vars |-> 0, declared |-> 0, clauses |-> <<>>, buffer |-> <<>>]

\* parse: what the lines gave, then what is still open at the end
Parse(text) ==
  LET s == FoldLeft(ReadDimacsLine, ParserStart, text)
  IN CASE text = <<>> -> Refuse(s, "empty input")
       [] text # <<>> /\ s.error # "" -> s
       [] text # <<>> /\ s.error = "" /\ ~s.header -> Refuse(s, "missing header")
       [] text # <<>> /\ s.error = "" /\ s.header /\ s.buffer # <<>> -> Refuse(s, "unterminated clause")
       [] text # <<>> /\ s.error = "" /\ s.header /\ s.buffer = <<>> /\ Len(s.clauses) # s.declared ->
            Refuse(s, "header clause count mismatch")
       [] OTHER -> s

\* parse_header: the first line that begins with p
ParseHeader(text) ==
  LET heads == SelectSeq(text, LAMBDA line : line.line = "p")
  IN IF heads = <<>> THEN [header |-> FALSE, vars |-> 0, declared |-> 0]
     ELSE [header |-> TRUE, vars |-> heads[1].vars, declared |-> heads[1].clauses]

\* What the caller is given by `parse` and, on another parser, by
\* `parse_header`.  The parser shares nothing with the fixtures; it is given
\* the clauses a writer holds before it has made a file.
NotParsed == [done |-> FALSE]

ParseDimacs ==
  /\ ~parsed.done
  /\ file = <<>>
  /\ \E flaw \in Flaws, comment \in BOOLEAN :
     \E breaks \in UNION {kSubset(n, DOMAIN Tokens(writer.clauses)) : n \in 0..MaxBreaks} :
       /\ Possible(writer.clauses, flaw)
       /\ LET text == Printed(writer.clauses, breaks, comment, flaw)
              s == Parse(text)
          IN parsed' = [done |-> TRUE, flaw |-> flaw, of |-> writer.clauses, ok |-> s.error = "",
                        clauses |-> s.clauses, header |-> ParseHeader(text),
                        vars |-> s.vars, declared |-> s.declared]
  /\ UNCHANGED <<writer, calls, file, finalized, reader, stage, files, frontend>>

-----------------------------------------------------------------------------
NoReading == [source |-> Whole(<<>>), header |-> NoHeader, clauses |-> <<>>, assumptions |-> <<>>,
              limits |-> NoLimits, under |-> Empty("cnf"), of |-> [payload |-> Empty("cnf"), fresh |-> FALSE],
              validator |-> [kind |-> "cnf", version |-> 0, declared |-> 0, clauses |-> <<>>,
                             assumptions |-> <<>>, limits |-> NoLimits, checksum |-> NoChecksum]]

IngestInit ==
  /\ writer = Empty("cnf") @@ [checksum |-> NoChecksum]
  /\ calls = 0
  /\ file = <<>>
  /\ finalized = [payload |-> Empty("cnf"), fresh |-> FALSE]
  /\ reader = NoReading
  /\ stage = "closed"
  /\ files = 0
  /\ frontend = [clauses |-> <<>>, assumptions |-> <<>>, of |-> Empty("cnf"), opened |-> Empty("cnf"),
                 request |-> [assumptions |-> <<>>, limits |-> NoLimits]]
  /\ parsed = NotParsed

IngestNext ==
  \/ BeginFixture \/ AppendClause \/ AppendAssumptions \/ SetLimitsPayload \/ WriteChecksum
  \/ FinalizeFixture
  \/ OpenFixture \/ ReadHeader \/ ValidateHeader \/ LoadPayload \/ ValidatePayload \/ Materialize
  \/ ParseDimacs

-----------------------------------------------------------------------------
\* What the frontend stages is the fixture whose header the reader holds, as its
\* writer held it: never part of one, never the payload of one file under the
\* header of another, whatever happened to the files and whatever a file read
\* before left behind (reader::materialize_fixture_into_frontend).
StagedAsWritten ==
  /\ frontend.of.kind = "cnf" =>
       frontend.clauses = frontend.of.clauses /\ frontend.assumptions = <<>>
  /\ frontend.of.kind = "request" =>
       /\ frontend.clauses = <<>>
       /\ frontend.assumptions = frontend.of.assumptions
       /\ frontend.request = [assumptions |-> frontend.of.assumptions, limits |-> frontend.of.limits]

\* A fixture is refused for a cause only: the file was damaged, its checksum
\* is older than its payload, a clause is empty, or a formula was given
\* assumptions, which are counted in its header but not written.  The loop
\* over the records ends unless a line was lost.
RefusedForCause ==
  /\ stage = "refused" =>
       \/ reader.source.damage # "none"
       \/ ~reader.of.fresh
       \/ <<>> \in Range(reader.of.payload.clauses)
       \/ reader.of.payload.kind = "cnf" /\ reader.of.payload.assumptions # <<>>
  /\ stage = "spins" => reader.source.damage = "lost a line"

\* A DIMACS text is accepted exactly when it is printed rightly, whatever its
\* line ends, and gives the clauses printed; its header alone says the same.
DimacsAgrees ==
  parsed.done =>
    /\ parsed.ok <=> parsed.flaw = "none"
    /\ parsed.ok => /\ parsed.clauses = parsed.of
                    /\ parsed.header = [header |-> TRUE, vars |-> parsed.vars, declared |-> parsed.declared]

\* What a reader stages is of the file it was opened for: a header that was
\* refused leaves nothing to materialise (reader.hpp on the validation of a
\* header and on a validation that fails).
StagedIsOpened == frontend.of = frontend.opened

\* Both ways in give the solver the clauses that were written, or nothing.
IngestionAgrees == StagedAsWritten /\ RefusedForCause /\ DimacsAgrees
=============================================================================
