-------------------------- MODULE SignatureQuorum --------------------------
(***************************************************************************)
(* A threshold in use: a validator holds one threshold of an event and     *)
(* learns of verified key positions one at a time, in any order, as late   *)
(* signatures arrive (the escrow re-drives the event with each of them).   *)
(* The word-sized judgment is compared with the rational one.              *)
(***************************************************************************)
EXTENDS SigningThreshold, Functions

CONSTANTS
  Thresholds,   (* The thresholds under study.                             *)
  MaxKeys       (* Bound: an event lists at most this many keys.           *)

(* A number of signers, or clauses of fractions; what from_nested takes,   *)
(* zero denominators included.                                             *)
Threshold ==
  [kind : {"simple"}, n : Nat]
  \cup [kind : {"weighted"}, clauses : Seq(Seq([num : Nat, den : Nat]))]

ASSUME MaxKeysAssumption == MaxKeys \in Nat \ {0}
ASSUME ThresholdsAssumption == Thresholds \subseteq Threshold

VARIABLES
  threshold,    (* The threshold of the event under validation.            *)
  keyCount,     (* How many keys the event lists.                          *)
  signed        (* Positions (from 0) whose signature has been verified.   *)

vars == <<threshold, keyCount, signed>>

-----------------------------------------------------------------------------
(* An event whose threshold passed check_well_formed for its keys.         *)
Init ==
  /\ threshold \in Thresholds
  /\ keyCount \in 1..MaxKeys
  /\ WellFormed(threshold, keyCount)
  /\ signed = {}

(* One more signature verifies. Positions are those of the key list.       *)
AddSigner(i) ==
  /\ signed' = signed \cup {i}
  /\ UNCHANGED <<threshold, keyCount>>

Next == \E i \in 0..(keyCount - 1) : AddSigner(i)

Spec == Init /\ [][Next]_vars

-----------------------------------------------------------------------------
(* Reference semantics: the same judgment over unbounded rationals.        *)

(* The fractions at some positions of a clause, over the product of their  *)
(* denominators.                                                           *)
Denominator(clause, local) ==
  FoldFunction(LAMBDA a, b : a * b, 1, [i \in local |-> clause[i].den])

Numerator(clause, local) ==
  SumFunction([i \in local |-> clause[i].num * Denominator(clause, local \ {i})])

ClauseExactlyReachesOne(clause, local) ==
  /\ \A i \in DOMAIN clause : clause[i].den # 0
  /\ Numerator(clause, local) >= Denominator(clause, local)

ExactlySatisfied(th, indices) ==
  IF th.kind = "simple"
  THEN \E witnesses \in SUBSET indices : Cardinality(witnesses) = th.n
  ELSE /\ th.clauses # <<>>
       /\ \A c \in DOMAIN th.clauses :
            LET before == SumFunction([b \in 1..(c - 1) |-> Len(th.clauses[b])])
                local == {i \in DOMAIN th.clauses[c] : before + i - 1 \in indices}
            IN  ClauseExactlyReachesOne(th.clauses[c], local)

-----------------------------------------------------------------------------
(* Whatever overflows on the way, signers that do not carry the weight     *)
(* the event's author asked for are never taken for a quorum: the checked  *)
(* sum of clause_reaches_one fails closed.                                 *)
NeverOverAccepts ==
  Satisfied(threshold, signed) => ExactlySatisfied(threshold, signed)

(* A clause whose whole rational sum fits the word loses nothing on the    *)
(* way, however many of its weights have been signed for.                  *)
WordHolds(clause) ==
  Fits(Denominator(clause, DOMAIN clause)) /\ Fits(Numerator(clause, DOMAIN clause))

(* Where the word holds the sums, the flattened, word-sized judgment of    *)
(* satisfied_by is exactly the rational one, for every set of signers that *)
(* late signatures build up: no overflow is seen that is not there.        *)
ExactWhereItFits ==
  (threshold.kind = "weighted" =>
     \A c \in DOMAIN threshold.clauses : WordHolds(threshold.clauses[c])) =>
  (Satisfied(threshold, signed) <=> ExactlySatisfied(threshold, signed))

(* The word-sized judgment never grants what the rational one refuses, and *)
(* is the rational one wherever the word holds the sums, at every set of   *)
(* signers that late signatures build up (satisfied_by).                   *)
JudgesAsRationals == NeverOverAccepts /\ ExactWhereItFits
=============================================================================
