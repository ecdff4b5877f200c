----------------------------- MODULE ColdStore -----------------------------
(***************************************************************************)
(* cdcl::store::clause_cold: clauses put away as differences of literals,  *)
(* sign folded into the lowest bit, in groups of bits with a mark on all   *)
(* but the last.  The last group a reader accepts holds only the top bits   *)
(* of a literal and the sign's: groups of 7 bits, the fifth the last, with  *)
(* 4 bits of the 32 of a literal in it, in the code.  Clauses move and are  *)
(* renumbered while they are put away.                                      *)
(***************************************************************************)
EXTENDS Integers, Sequences, FiniteSets, FiniteSetsExt

CONSTANTS
    ColdRefs,       \* references a clause may have
    ColdTexts,      \* clauses, as sequences of raw literals
    GroupSize,      \* values of a group: 2^7
    LastGroup,      \* the last group a reader accepts, from 0: 4
    TopSize,        \* values of the bits of a literal that lie in it: 2^4
    EntryBytes      \* estimated_entry_bytes_

\* what a one is worth in each group
Scale[k \in 0..LastGroup] == IF k = 0 THEN 1 ELSE GroupSize * Scale[k - 1]
RawLiterals == 0..TopSize * Scale[LastGroup] - 1

ASSUME ColdAssumption ==
    /\ GroupSize \in Nat /\ LastGroup \in Nat /\ TopSize \in Nat /\ EntryBytes \in Nat
    /\ 0 < TopSize /\ 2 * TopSize <= GroupSize
    /\ ColdTexts \subseteq Seq(RawLiterals)

VARIABLES
    enabled,    \* enabled_
    payloads,   \* cold_refs_ and payloads_: the bytes of each cold clause
    footprint,  \* cold_footprint_
    told        \* what the caller last said each cold clause is

coldVars == <<enabled, payloads, footprint, told>>

NoPayload == [r \in {} |-> <<>>]

\* the sign of a difference becomes its lowest bit
Folded(delta) == IF delta < 0 THEN -2 * delta - 1 ELSE 2 * delta
Unfolded(code) == IF code % 2 = 0 THEN code \div 2 ELSE -((code + 1) \div 2)

\* the lowest group first, down to one that is the rest
Groups(code) ==
    LET rest[k \in 0..LastGroup] == IF k = 0 THEN code ELSE rest[k - 1] \div GroupSize
        last == Min({k \in 0..LastGroup : rest[k] < GroupSize})
    IN [k \in 1..last + 1 |-> [low |-> rest[k - 1] % GroupSize, more |-> k <= last]]

Before(lits, n) == IF n = 1 THEN 0 ELSE lits[n - 1]
Encoded(lits) ==
    LET written[n \in 0..Len(lits)] ==
          IF n = 0 THEN <<>> ELSE written[n - 1] \o Groups(Folded(lits[n] - Before(lits, n)))
    IN written[Len(lits)]

\* a bug: the bit the sign took is forgotten in the longest code
TopGroupUnsigned == TopSize - 1
TopGroup == 2 * TopSize - 1

\* decode_literals: one byte more; anything out of range voids the clause
Idle(previous, lits) == [code |-> 0, group |-> 0, previous |-> previous, literals |-> lits, bad |-> FALSE]
ReadByte(d, byte) ==
    LET code == d.code + byte.low * Scale[d.group]
        value == d.previous + Unfolded(code)
    IN IF d.bad \/ (d.group = LastGroup /\ byte.low > TopGroup) THEN [d EXCEPT !.bad = TRUE]
       ELSE IF byte.more THEN [d EXCEPT !.code = code, !.group = @ + 1, !.bad = d.group = LastGroup]
       ELSE IF value \notin RawLiterals THEN [d EXCEPT !.bad = TRUE]
       ELSE Idle(value, Append(d.literals, value))
ReadBytes(bytes) ==
    LET read[n \in 0..Len(bytes)] == IF n = 0 THEN Idle(0, <<>>) ELSE ReadByte(read[n - 1], bytes[n])
    IN read[Len(bytes)]
Decoded(bytes) == LET d == ReadBytes(bytes) IN IF d.bad \/ d.group # 0 THEN <<>> ELSE d.literals
DecodeLiterals(r) == IF enabled /\ r \in DOMAIN payloads THEN Decoded(payloads[r]) ELSE <<>>

BytesOf(payload) == IF payload = <<>> THEN EntryBytes ELSE Len(payload)
PutAway(m, r, value) == [q \in DOMAIN m \cup {r} |-> IF q = r THEN value ELSE m[q]]
Stored(m) == UNION {{r} \X (1..BytesOf(m[r])) : r \in DOMAIN m}
TakenOut(m, r) == [q \in DOMAIN m \ {r} |-> m[q]]

-----------------------------------------------------------------------------
ColdInit == enabled = FALSE /\ payloads = NoPayload /\ footprint = 0 /\ told = NoPayload

ResetCold == payloads' = NoPayload /\ footprint' = 0 /\ told' = NoPayload
SetEnabled ==
    /\ enabled' = ~enabled
    /\ IF enabled' THEN UNCHANGED <<payloads, footprint, told>> ELSE ResetCold
Reset == ResetCold /\ UNCHANGED enabled

\* store_payload: a clause already put away keeps what was stored first
StorePayload(from, r, lits) ==
    /\ payloads' = PutAway(from, r, Encoded(lits))
    /\ told' = PutAway(told, r, lits)
DemoteToCold ==
    \E r \in ColdRefs, lits \in ColdTexts :
      /\ enabled /\ r \notin DOMAIN payloads
      /\ StorePayload(payloads, r, lits)
      /\ footprint' = footprint + BytesOf(Encoded(lits))
      /\ UNCHANGED enabled

\* erase_payload takes its bytes off, never below zero
Left(r) == IF footprint >= BytesOf(payloads[r]) THEN footprint - BytesOf(payloads[r]) ELSE 0
PromoteFromCold ==
    \E r \in DOMAIN payloads :
      /\ enabled
      /\ payloads' = TakenOut(payloads, r) /\ told' = TakenOut(told, r)
      /\ footprint' = Left(r)
      /\ UNCHANGED enabled

\* the collector copies a clause behind the others, to where no clause is; that
\* the payload of a clause removed while it was put away is still there is left out
RewriteRefAfterGc ==
    \E r \in DOMAIN payloads, q \in ColdRefs \ DOMAIN payloads :
      /\ enabled
      /\ payloads' = PutAway(TakenOut(payloads, r), q, payloads[r])
      /\ told' = PutAway(TakenOut(told, r), q, told[r])
      /\ UNCHANGED <<enabled, footprint>>

RewriteLiteralsAfterCompaction ==
    \E r \in DOMAIN payloads, lits \in ColdTexts :
      /\ enabled
      /\ StorePayload(TakenOut(payloads, r), r, lits)
      /\ footprint' = Left(r) + BytesOf(Encoded(lits))
      /\ UNCHANGED enabled

ColdNext == \/ SetEnabled \/ Reset \/ DemoteToCold \/ PromoteFromCold
            \/ RewriteRefAfterGc \/ RewriteLiteralsAfterCompaction

ColdSpec == ColdInit /\ [][ColdNext]_coldVars

-----------------------------------------------------------------------------
\* Through moves and renumberings every clause that was put away reads back as
\* it was last stated, at every width a code can have, and the footprint is the
\* sum of what is stored (clause_cold.cpp 48-81, 83-139).
ColdKept ==
    /\ \A r \in DOMAIN payloads \cup DOMAIN told : DecodeLiterals(r) = told[r]
    /\ footprint = Cardinality(Stored(payloads))
=============================================================================
