----------------------------- MODULE MCTelHost -----------------------------
(* Two registries of issuer "E" for TLC: "V" with backers b1 and b2, of    *)
(* which the rotation t1 replaces b1 by b3, and the backerless "W". The    *)
(* issuer seals V in its inception and the rival rotation t2 of V in the   *)
(* interaction X1; the recovery rotation R1 replaces X1 and seals t1; A2   *)
(* to F6 seal the issuance and revocation of c1 under V, W, and those of   *)
(* c2 under W.                                                             *)
EXTENDS TelHost

MCKeys == {"b1", "b2", "b3"}
MCThresholds == {Simple(1)}
MCSaids == {"V", "W", "t1", "t2", "i1", "k1", "i2", "k2",
            "E0", "X1", "S1", "R1", "A2", "B3", "C4", "D5", "F6"}

At(n, said) == [i |-> "V", s |-> n, d |-> said]

V0 == BuildRegistry("V", "E", {}, <<"b1", "b2">>, 2)
W0 == BuildRegistry("W", "E", {"NB"}, <<>>, 0)
t1 == BuildBackers("t1", "V", "V", 1, <<"b1">>, <<"b3">>, 2)
t2 == BuildBackers("t2", "V", "V", 1, <<"b2">>, <<"b3">>, 2)
i1 == BuildBackedIssue("i1", "c1", "V", At(0, "V"))
k1 == BuildBackedRevoke("k1", "c1", "i1", At(1, "t1"))
i2 == BuildIssue("i2", "c2", "W")
k2 == BuildRevoke("k2", "c2", "W", "i2")

Base ==
  [kind |-> "ixn", pre |-> "E", sn |-> 0, said |-> "E0", prior |-> None,
   keys |-> <<>>, kt |-> Simple(1), next |-> <<>>, nt |-> Simple(1),
   wits |-> <<>>, cuts |-> <<>>, toad |-> 0, conf |-> {}, di |-> None, seals |-> <<>>]
Sealing(kind, said, sn, prior, e) ==
  [Base EXCEPT !.kind = kind, !.said = said, !.sn = sn, !.prior = prior, !.seals = <<SealedAs(e)>>]

E0 == Sealing("icp", "E0", 0, None, V0)
X1 == Sealing("ixn", "X1", 1, "E0", t2)
S1 == Sealing("ixn", "S1", 1, "E0", t1)
R1 == Sealing("rot", "R1", 1, "E0", t1)
A2 == Sealing("ixn", "A2", 2, "R1", i1)
B3 == Sealing("ixn", "B3", 3, "A2", k1)
C4 == Sealing("ixn", "C4", 4, "B3", W0)
D5 == Sealing("ixn", "D5", 5, "C4", i2)
F6 == Sealing("ixn", "F6", 6, "D5", k2)

By(index, signer) == [index |-> index, ondex |-> NoOndex, signer |-> signer]
Msg(e, k, receipts) ==
  [event |-> e, source |-> [sn |-> k.sn, said |-> k.said], receipts |-> receipts]

Old == {By(0, "b1"), By(1, "b2")}
New == {By(0, "b2"), By(1, "b3")}

(* A rival rotation on the replaced branch and on the other's seal, and a  *)
(* revocation receipted by the backers of before the rotation it names.    *)
Rivals ==
  {Msg(V0, E0, Old), Msg(t1, R1, New),
   Msg(t2, X1, {By(0, "b1"), By(1, "b3")}), Msg(t2, R1, {By(0, "b1"), By(1, "b3")}),
   Msg(i1, A2, Old), Msg(k1, B3, New), Msg(k1, B3, Old)}

(* The registry without backers, beside the other's inception and issuance.*)
Backerless ==
  {Msg(V0, E0, Old), Msg(i1, A2, Old), Msg(W0, C4, {}), Msg(i2, D5, {}), Msg(k2, F6, {})}

(* One delivery each, receipts in pieces; the interaction S1, if it is in  *)
(* the log before R1 replaces it, has sealed t1 as well.                  *)
Post ==
  {Msg(V0, E0, {By(0, "b1")}), Msg(V0, E0, {By(1, "b2")}), Msg(t1, S1, New),
   Msg(t1, R1, {By(0, "b2")}), Msg(t1, R1, {By(1, "b3")}),
   Msg(i1, A2, Old), Msg(k1, B3, New)}

AnyStorm == {Rivals, Backerless}
AnyErrand == {Post}
(* Cuts and additions that overlap, repeat, are no backers or already are. *)
AnyWishes ==
  [cuts : {<<>>, <<"b1">>, <<"b2">>, <<"b1", "b2">>, <<"b1", "b1">>},
   adds : {<<>>, <<"b1">>, <<"b3">>, <<"b3", "b1">>}, toad : 0..3]
AnyEvents == {E0, X1, S1, R1, A2, B3, C4, D5, F6}

StatusIn(r, c) == StatusOf(credentials[<<r, c>>])

(* Whatever the order of arrival, and though a recovery may replace the    *)
(* event that first sealed the rotation, the credential ends as revoked:   *)
(* the backed revocation names the rotation, the issuance what it replaced *)
(* (RegistryRejection::disposition).                                       *)
TelSettles == unread = Post => <>[](StatusIn("V", "c1") = "Revoked")
=============================================================================
