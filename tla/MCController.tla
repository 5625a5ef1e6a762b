---------------------------- MODULE MCController ----------------------------
(* A small controller for TLC. Numbers are written in base two, so that    *)
(* paths without separators collide after a few rungs if the counters let  *)
(* them, and indices end at MaxIndex.                                      *)
EXTENDS Controller

CONSTANTS n0, n1, n2, n3, n4, w1, w2, w3, w4, w5

MCNames == [sn \in 0..MaxSn |-> <<n0, n1, n2, n3, n4>>[sn + 1]]
MCSaids == {MCNames[sn] : sn \in 0..MaxSn}
MCDigestive == {n0}
MCStem == <<0>>
MCWitnesses == {w1, w2, w3, w4, w5}

Derived == [ridx : 0..MaxIndex, kidx : 0..MaxIndex, transferable : BOOLEAN]
MCKeys == {KeyAt(d.ridx, d.kidx, d.transferable) : d \in Derived} \cup MCWitnesses
MCNonTransferable ==
  {KeyAt(d.ridx, d.kidx, FALSE) : d \in {x \in Derived : ~x.transferable}} \cup MCWitnesses

MCThresholds == {Simple(n) : n \in 0..4}

Wanted(c, n, t) == [count |-> c, ncount |-> n, transferable |-> t]
MCSpecs ==
  {Wanted(c, n, TRUE) : c \in 0..3, n \in 0..3} \cup {Wanted(1, 0, FALSE)}

Defaults == [kt |-> None, nt |-> None, adds |-> <<>>, cuts |-> <<>>, toad |-> None]
MCWishes ==
  {Defaults,
   [Defaults EXCEPT !.kt = Simple(3), !.nt = Simple(1)],
   [Defaults EXCEPT !.nt = Simple(3)],
   [Defaults EXCEPT !.adds = <<w1, w2, w3, w4>>],
   [Defaults EXCEPT !.adds = <<w1>>, !.toad = 0],
   [Defaults EXCEPT !.cuts = <<w1, w2>>],
   [Defaults EXCEPT !.cuts = <<w1>>, !.adds = <<w5>>, !.toad = 2],
   [Defaults EXCEPT !.cuts = <<w4, w2, w3, w1>>]}
=============================================================================
