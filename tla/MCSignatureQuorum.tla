---------------------------- MODULE MCSignatureQuorum ----------------------------
(* Small instances of SignatureQuorum for TLC.                                   *)
EXTENDS SignatureQuorum

W == [num : {0, 1, 2}, den : {1, 2, 3}]
Clauses(n) == UNION {[1..k -> W] : k \in 1..n}
Equal(n, d, k) == [i \in 1..k |-> Weight(n, d)]

(* Every simple threshold up to three, every single clause of up to two    *)
(* weights, halves and thirds in longer clauses, two clauses side by side. *)
AllSmall ==
  {Simple(n) : n \in 0..3}
  \cup {Weighted(<<c>>) : c \in Clauses(2)}
  \cup {Weighted(<<Equal(1, d, k)>>) : k \in 3..4, d \in 2..3}
  \cup {Weighted(<<c, d>>) : c \in Clauses(1), d \in Clauses(2)}

(* A hundred-value word stands for u64: ninths overflow it at the third    *)
(* factor as ninths overflow 64 bits at the twenty-first.                  *)
Narrow ==
  {Weighted(<<Equal(n, 9, k)>>) : k \in 2..4, n \in {3, 4, 5}}
  \cup {Weighted(<<Equal(1, 2, 2), <<Weight(n, 9), Weight(5, 9)>>>>) : n \in 1..5}
  \cup {Weighted(<<<<Weight(n, 99), Weight(m, 2), Weight(1, 2), Weight(k, 7)>>>>)
          : n \in {0, 98}, m \in {1, 2}, k \in {1, 6}}

(* Weights straight from the constructor: check_well_formed lets a zero    *)
(* denominator pass, which no set of signers may then satisfy.             *)
Constructed == {Weighted(<<<<Weight(1, d), Weight(1, e)>>>>) : d \in 0..2, e \in 0..2}

Studied == AllSmall \cup Narrow \cup Constructed
=============================================================================
