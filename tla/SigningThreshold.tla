-------------------------- MODULE SigningThreshold --------------------------
(***************************************************************************)
(* Signing thresholds (keri-events, threshold.rs): who must sign.          *)
(*                                                                         *)
(* A simple threshold counts distinct signed key positions. A weighted     *)
(* threshold is a list of clauses; each clause owns a contiguous run of    *)
(* key positions and the fractions of its signed positions must add up to  *)
(* one. The sums are exact rationals kept in two machine words by checked  *)
(* arithmetic: an overflow, like a zero denominator, reads as unsatisfied. *)
(***************************************************************************)
EXTENDS Integers, Sequences, FiniteSets, SequencesExt

CONSTANT MaxWord   (* The largest value of the word the fractions live in. *)

ASSUME MaxWordAssumption == MaxWord \in Nat \ {0}

Simple(n) == [kind |-> "simple", n |-> n]
Weighted(clauses) == [kind |-> "weighted", clauses |-> clauses]
Weight(num, den) == [num |-> num, den |-> den]

-----------------------------------------------------------------------------
(* Arithmetic on machine words: a value of the accumulator is a fraction,  *)
(* or it is lost ("None" in the code) once a product or sum does not fit.  *)

Fits(n) == n <= MaxWord
Lost == [ok |-> FALSE, num |-> 0, den |-> 1]

(* A mutant: arithmetic that wraps around instead of failing.              *)
CheckedAddWraps(acc, w) ==
  [ok |-> TRUE,
   num |-> (acc.num * w.den + w.num * acc.den) % (MaxWord + 1),
   den |-> (acc.den * w.den) % (MaxWord + 1)]

(* acc + w with checked_mul and checked_add; every product is bounded      *)
(* before the next is formed, as the early returns of the code do.         *)
CheckedAdd(acc, w) ==
  LET lhs == acc.num * w.den
      rhs == w.num * acc.den
      den == acc.den * w.den
  IN  IF /\ acc.ok
         /\ Fits(lhs) /\ Fits(rhs) /\ Fits(lhs + rhs) /\ Fits(den)
      THEN [ok |-> TRUE, num |-> lhs + rhs, den |-> den]
      ELSE Lost

(* One pass over the clause in position order; a zero denominator anywhere *)
(* in it, signed or not, loses the sum.                                    *)
ClauseSum(clause, local) ==
  FoldLeftDomain(
    LAMBDA acc, i :
      IF clause[i].den = 0 THEN Lost
      ELSE IF i \in local THEN CheckedAdd(acc, clause[i])
      ELSE acc,
    [ok |-> TRUE, num |-> 0, den |-> 1],
    clause)

ClauseReachesOne(clause, local) ==
  LET sum == ClauseSum(clause, local)
  IN  sum.ok /\ sum.num >= sum.den

(* The first key position of clause c: the widths of the clauses before it.*)
ClauseBase(clauses, c) ==
  FoldLeft(LAMBDA n, clause : n + Len(clause), 0, SubSeq(clauses, 1, c - 1))

(* The positions of clause c (from 1) among the signed key positions.      *)
SignedInClause(clauses, c, indices) ==
  {i \in DOMAIN clauses[c] : ClauseBase(clauses, c) + i - 1 \in indices}

(* satisfied_by over a set of verified key positions.                      *)
Satisfied(th, indices) ==
  IF th.kind = "simple"
  THEN Cardinality(indices) >= th.n
  ELSE /\ th.clauses # <<>>
       /\ \A c \in DOMAIN th.clauses :
            ClauseReachesOne(th.clauses[c], SignedInClause(th.clauses, c, indices))

(* check_well_formed for a key list of the given length.                   *)
WellFormed(th, count) ==
  IF th.kind = "simple"
  THEN th.n >= 1 /\ th.n <= count
  ELSE /\ th.clauses # <<>>
       /\ \A c \in DOMAIN th.clauses : th.clauses[c] # <<>>
       /\ ClauseBase(th.clauses, Len(th.clauses) + 1) <= count
=============================================================================
