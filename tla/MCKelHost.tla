----------------------------- MODULE MCKelHost -----------------------------
(* A small world of key events for TLC. Identifier "E" starts with two     *)
(* keys, two committed keys and one witness. Interactions x1 and x2 follow *)
(* the inception; r1 is a recovery rotation that replaces x1 and swaps the *)
(* witness; y2 and q3 continue after it, q3 abandoning the identifier, and *)
(* n4 is an interaction its last keys make all the same; f1                *)
(* is a rotation to a key nobody committed to; z3 rotates after x2; j0 is  *)
(* a second inception. Some messages carry only part of the evidence.      *)
EXTENDS KelHost

MCKeys == {"a1", "a2", "b1", "b2", "c1", "m1", "w1", "w2"}
MCWitnesses == {"w1", "w2"}
MCThresholds == {Simple(1), Simple(2)}
MCSaids == {"i0", "x1", "x2", "r1", "y2", "q3", "n4", "f1", "z3", "j0"}

Base ==
  [kind |-> "ixn", pre |-> "E", sn |-> 0, said |-> "i0", prior |-> None,
   keys |-> <<>>, kt |-> Simple(1), next |-> <<>>, nt |-> Simple(1),
   wits |-> <<>>, cuts |-> <<>>, toad |-> 0, conf |-> {}, di |-> None, seals |-> <<>>]

Ixn(said, sn, prior) == [Base EXCEPT !.said = said, !.sn = sn, !.prior = prior]

i0 == [Base EXCEPT !.kind = "icp", !.keys = <<"a1", "a2">>, !.kt = Simple(2),
                   !.next = <<"b1", "b2">>, !.nt = Simple(2), !.wits = <<"w1">>, !.toad = 1]
j0 == [i0 EXCEPT !.said = "j0", !.wits = <<>>, !.toad = 0]
x1 == Ixn("x1", 1, "i0")
x2 == Ixn("x2", 2, "x1")
r1 == [Base EXCEPT !.kind = "rot", !.said = "r1", !.sn = 1, !.prior = "i0",
                   !.keys = <<"b1", "b2">>, !.kt = Simple(2), !.next = <<"c1">>,
                   !.cuts = <<"w1">>, !.wits = <<"w2">>, !.toad = 1]
y2 == Ixn("y2", 2, "r1")
q3 == [Base EXCEPT !.kind = "rot", !.said = "q3", !.sn = 3, !.prior = "y2",
                   !.keys = <<"c1">>, !.toad = 1]
n4 == Ixn("n4", 4, "q3")
f1 == [r1 EXCEPT !.said = "f1", !.keys = <<"m1">>, !.kt = Simple(1), !.next = <<"m1">>]
z3 == [r1 EXCEPT !.said = "z3", !.sn = 3, !.prior = "x2"]

Sig(index, ondex, signer) == [index |-> index, ondex |-> ondex, signer |-> signer]
Msg(e, sigs, wigs) == [event |-> e, sigs |-> sigs, wigs |-> wigs]

A1 == Sig(0, NoOndex, "a1")
A2 == Sig(1, NoOndex, "a2")
B1 == Sig(0, 0, "b1")
B2 == Sig(1, 1, "b2")
C1 == Sig(0, 0, "c1")
M1 == Sig(0, 0, "m1")

I0 == Msg(i0, {A1, A2}, {"w1"})
X1 == Msg(x1, {A1, A2}, {"w1"})
Y2 == Msg(y2, {B1, B2}, {"w2"})
Q3 == Msg(q3, {C1}, {"w2"})
R1a == Msg(r1, {B1}, {"w1", "w2"})
R1b == Msg(r1, {B2}, {})
X2a == Msg(x2, {A1, A2}, {})
X2b == Msg(x2, {A2}, {"w1"})
N4 == Msg(n4, {C1}, {"w2"})
F1 == Msg(f1, {M1}, {"w2"})
Z3 == Msg(z3, {B1, B2}, {"w2"})
J0 == Msg(j0, {A1, A2}, {})
I0a == Msg(i0, {A1}, {"w1"})
I0b == Msg(i0, {A2}, {})
Q3w == Msg(q3, {C1}, {"w1"})

(* Everything at once, evidence in pieces and repeated.                    *)
Storm == {I0a, I0b, X1, X2a, X2b, R1a, R1b, Y2, Q3, Q3w, N4, F1, Z3, J0}

(* One delivery each, in any order, to a host that knows the inception.    *)
Errand == {X1, X2a, X2b, R1a, R1b, F1, J0}
ErrandEnd == <<"i0", "r1">>

(* The controller and its witnesses repeat themselves for ever.            *)
Honest == {I0a, I0b, X1, X2a, X2b, R1a, R1b, Y2, Q3}

AnyStorm == {Storm}
AnyErrand == {Errand}
HonestOnly == {Honest}
Known == {<<I0>>}
KnownOrNot == {<<>>, <<I0>>}
NoChains == {<<>>}
OnlyNone == {NoEvidence}

SaidsInLog == [i \in DOMAIN kel |-> EventAt(i).said]

(* Whatever the order of arrival, a host that knows the inception and gets *)
(* each message once ends with the recovered log: the escrow is enough.    *)
ErrandSettles ==
  unread = Errand /\ SaidsInLog = <<"i0">> => <>[](SaidsInLog = ErrandEnd)
=============================================================================
