--------------------------- MODULE MCDelegateHost ---------------------------
(* The log of a delegate "G" whose delegator "D" is itself delegated, by   *)
(* "R". d0 is the delegated inception, e1, g1, k1 and j1 are rival         *)
(* rotations at sequence number one, u1 a fifth that nobody authorizes;    *)
(* h2 is an interaction after j1. What the host holds of the delegators:   *)
(*   D1 seals d0, D2 seals e1; of the rivals D3, an interaction, and Q3    *)
(*   and T3, rotations, D3 seals k1, Q3 j1 and T3 g1; R5 seals Q3, then T3.*)
(* In another log of D a rotation Q2 seals e1 and an interaction D3 k1.    *)
(* f0 would be the inception of a delegate "F" of "S", who seals it in S3  *)
(* and yet refuses to delegate.                                            *)
EXTENDS KelHost

MCKeys == {"a1", "b1", "c1", "c2", "c3", "c4"}
MCThresholds == {Simple(1)}
MCSaids == {"d0", "e1", "g1", "k1", "j1", "u1", "h2",
            "D1", "D2", "D3", "Q3", "T3", "Q2", "U3", "R5", "f0", "S3"}

Base ==
  [kind |-> "ixn", pre |-> "G", sn |-> 0, said |-> "d0", prior |-> None,
   keys |-> <<>>, kt |-> Simple(1), next |-> <<>>, nt |-> Simple(1),
   wits |-> <<>>, cuts |-> <<>>, toad |-> 0, conf |-> {}, di |-> None, seals |-> <<>>]

d0 == [Base EXCEPT !.kind = "dip", !.keys = <<"a1">>, !.next = <<"b1">>, !.di = "D"]
f0 == [d0 EXCEPT !.pre = "F", !.said = "f0", !.di = "S"]
Rotation(said, next) ==
  [Base EXCEPT !.kind = "drt", !.said = said, !.sn = 1, !.prior = "d0",
               !.keys = <<"b1">>, !.next = next]
e1 == Rotation("e1", <<"c1">>)
g1 == Rotation("g1", <<"c2">>)
k1 == Rotation("k1", <<"c3">>)
j1 == Rotation("j1", <<"c4">>)
u1 == Rotation("u1", <<>>)
h2 == [Base EXCEPT !.said = "h2", !.sn = 2, !.prior = "j1"]

Delegating(pre, kind, said, sn, sealed) ==
  [Base EXCEPT !.pre = pre, !.kind = kind, !.said = said, !.sn = sn, !.prior = "D1",
               !.seals = [n \in DOMAIN sealed |-> SealOf(sealed[n])]]

p1 == Delegating("D", "ixn", "D1", 1, <<d0>>)
p2 == Delegating("D", "ixn", "D2", 2, <<e1>>)
p3 == Delegating("D", "ixn", "D3", 3, <<k1>>)
q3 == Delegating("D", "drt", "Q3", 3, <<j1>>)
t3 == Delegating("D", "drt", "T3", 3, <<g1>>)
q2 == Delegating("D", "drt", "Q2", 2, <<e1>>)
r5 == Delegating("R", "ixn", "R5", 5, <<q3, t3>>)
s3 == Delegating("S", "ixn", "S3", 3, <<f0>>)
u3 == Delegating("R", "ixn", "U3", 3, <<u1>>)

(* A delegator's key state, as far as a delegate's validator reads it.     *)
Delegator(pre, conf) == [pre |-> pre, conf |-> conf]

Msg(e, sigs) == [event |-> e, sigs |-> sigs, wigs |-> {}]
By(ondex, signer) == [index |-> 0, ondex |-> ondex, signer |-> signer]

D0 == Msg(d0, {By(NoOndex, "a1")})
E1 == Msg(e1, {By(0, "b1")})
G1a == Msg(g1, {By(NoOndex, "b1")})
G1 == Msg(g1, {By(0, "b1")})
K1 == Msg(k1, {By(0, "b1")})
J1 == Msg(j1, {By(0, "b1")})
U1 == Msg(u1, {By(0, "b1")})
H2 == Msg(h2, {By(NoOndex, "b1")})
F0 == Msg(f0, {By(NoOndex, "a1")})

(* Everything, again and again; or each rival once, to a host that knows   *)
(* the inception, g1 opening its commitment in a second message.           *)
World == {D0, F0, J1, G1a, G1, U1, H2}
Rivals == {E1, G1a, G1, K1, J1}
WorldOnly == {World}
RivalsOnly == {Rivals}
Known == {<<D0>>}
KnownOrNot == {<<>>, <<D0>>}

Holds(events) == {NoEvidence} \cup {Anchored(Delegator(e.pre, {}), e) : e \in events}
Refuses(events) == {Anchored(Delegator(e.pre, {"DND"}), e) : e \in events}

(* u1 has a stranger's seal but no other, f0 that of one who refuses.      *)
AnyEvents == Holds({p1, p2, p3, q3, t3, u3}) \cup Refuses({s3})
MixedEvents == Holds({p1, q2, p3})

Pair(old, new) == [incumbent |-> old, challenger |-> new]
Swapped(chain) == [n \in DOMAIN chain |-> Pair(chain[n].challenger, chain[n].incumbent)]
BothWays(chains) == {<<>>} \cup chains \cup {Swapped(chain) : chain \in chains}

AnyChains ==
  BothWays({<<Pair(q3, t3)>>, <<Pair(q3, t3), Pair(r5, r5)>>, <<Pair(p2, p3)>>,
            <<Pair(p2, q3)>>, <<Pair(p2, t3)>>, <<Pair(p3, q3)>>, <<Pair(p3, t3)>>})
MixedChains == BothWays({<<Pair(q2, p3)>>})

SaidsInLog == [i \in DOMAIN kel |-> EventAt(i).said]

(* Whichever rival arrives first, and whatever evidence the host tries     *)
(* first, it ends with the rival the delegators rank last: k1 over e1 by   *)
(* the later delegating event (B1), j1 over k1 by the delegating rotation  *)
(* (B3), g1 over j1 by the later seal in R5 (B2, one level up).            *)
RivalsSettle ==
  unread = Rivals /\ kel = <<D0>> => <>[](SaidsInLog = <<"d0", "g1">>)
=============================================================================
