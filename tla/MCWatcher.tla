----------------------------- MODULE MCWatcher -----------------------------
(* A small world for the watcher. Identifier "E" starts with three         *)
(* witnesses; x1 follows, and r1, its recovery rotation, cuts two of them  *)
(* and adds one; x2 follows r1. Witness w1 receipts twice, and once with   *)
(* an index that is not its own; it also vouches for r1, which cut it, and *)
(* w4, which r1 added, for e0. "T" endorses before its establishment is    *)
(* known. The replies carry clocks of several time zones, and one claims   *)
(* r1's place with the keys before it.                                     *)
EXTENDS Watcher

MCKeys == {"a1", "b1", "c1", "t1", "w1", "w2", "w3", "w4"}
MCWitnesses == {"w1", "w2", "w3", "w4"}
MCSaids == {"e0", "x1", "r1", "x2", "t0"}
MCThresholds == {Simple(1)}

Base ==
  [kind |-> "ixn", pre |-> "E", sn |-> 0, said |-> "e0", prior |-> None,
   keys |-> <<>>, kt |-> Simple(1), next |-> <<>>, nt |-> Simple(1),
   wits |-> <<>>, cuts |-> <<>>, toad |-> 0, conf |-> {}, di |-> None, seals |-> <<>>]

e0 == [Base EXCEPT !.kind = "icp", !.keys = <<"a1">>, !.next = <<"b1">>,
                   !.wits = <<"w1", "w2", "w3">>, !.toad = 2]
x1 == [Base EXCEPT !.said = "x1", !.sn = 1, !.prior = "e0"]
r1 == [Base EXCEPT !.kind = "rot", !.said = "r1", !.sn = 1, !.prior = "e0",
                   !.keys = <<"b1">>, !.next = <<"c1">>,
                   !.cuts = <<"w1", "w3">>, !.wits = <<"w4">>, !.toad = 2]
x2 == [Base EXCEPT !.said = "x2", !.sn = 2, !.prior = "r1"]

MCEvents == {e0, x1, r1, x2}

-----------------------------------------------------------------------------
Signature(index, signer, e) == [index |-> index, signer |-> signer, over |-> e.said]

Rct(e, by, endorser, sig) ==
  [kind |-> "rct", pre |-> e.pre, sn |-> e.sn, said |-> e.said, by |-> by,
   endorser |-> endorser, estSn |-> 0, estSaid |-> None, sigs |-> {sig}]
Wig(e, index, signer) == Rct(e, "wig", None, Signature(index, signer, e))
Couple(e, signer) == Rct(e, "couple", signer, Signature(0, signer, e))
Group(e, said) ==
  [Rct(e, "group", "T", Signature(0, "t1", e)) EXCEPT !.estSaid = said]

(* Receipts of the inception, and of what comes to stand after it.         *)
FirstReceipts ==
  {Wig(e0, 0, "w1"), Couple(e0, "w1"), Wig(e0, 2, "w3"), Wig(e0, 1, "w1"), Couple(e0, "w4"),
   Group(e0, "t0"), Group(e0, "x1")}

LaterReceipts ==
  {Wig(x1, 0, "w1"), Wig(r1, 0, "w2"), Couple(r1, "w4"), Couple(r1, "w1"),
   Wig(x2, 0, "w2"), Couple(x2, "w4")}

MCAcquaintances == {[pre |-> "T", sn |-> 0, said |-> "t0", keys |-> <<"t1">>]}

-----------------------------------------------------------------------------
At(y, mo, d, h, mi) ==
  [year |-> y, month |-> mo, day |-> d, hour |-> h, minute |-> mi, second |-> 0,
   fraction |-> 0, precision |-> 0, sign |-> 1, offsetHour |-> 0, offsetMinute |-> 0]
East(clock, sign, hour) == [clock EXCEPT !.sign = sign, !.offsetHour = hour]
Fraction(clock, digits, precision) ==
  [clock EXCEPT !.fraction = digits, !.precision = precision]

Of(sn, said, key) ==
  [identifier |-> "E", transferable |-> TRUE, sn |-> sn, said |-> said,
   sigs |-> {[index |-> 0, ondex |-> NoOndex, signer |-> key]}]
Alone(key) ==
  [identifier |-> key, transferable |-> FALSE, sn |-> 0, said |-> None,
   sigs |-> {[index |-> 0, ondex |-> NoOndex, signer |-> key]}]

Rpy(route, subject, resource, time, signer) ==
  [kind |-> "rpy", route |-> route, wellFormed |-> TRUE, subject |-> subject,
   resource |-> resource, notice |-> None, time |-> time, signers |-> <<signer>>]

(* Half past midnight in the east is before a quarter to midnight here.    *)
Added == Rpy("/end/role/add", "E", "role", East(At(2024, 3, 1, 0, 30), 1, 1), Of(0, "e0", "a1"))
Cut == Rpy("/end/role/cut", "E", "role", At(2024, 2, 29, 23, 45), Of(0, "e0", "a1"))
(* Later keys, an earlier clock.                                           *)
AddedAgain == Rpy("/end/role/add", "E", "role", At(2023, 5, 1, 12, 0), Of(1, "r1", "b1"))
Usurped == Rpy("/end/role/cut", "E", "role", At(2025, 1, 1, 0, 0), Of(1, "r1", "a1"))
NoDay == Rpy("/end/role/add", "E", "role", At(2023, 2, 29, 0, 0), Of(0, "e0", "a1"))

West == Rpy("/loc/scheme", "w2", "loc", East(At(2023, 12, 31, 23, 30), -1, 1), Alone("w2"))
Here == Rpy("/loc/scheme", "w2", "loc", At(2024, 1, 1, 0, 10), Alone("w2"))
Foreign == Rpy("/loc/scheme", "w2", "loc", At(2024, 6, 1, 0, 0), Alone("w1"))

AfterR1 == Advance(Advance(None, e0), r1)
Noticing(time, signer) ==
  [Rpy("/ksn", "E", "ksn", time, signer) EXCEPT
     !.notice = [state |-> AfterR1, wits |-> <<"w2", "w4">>]]
Noticed2 == Noticing(Fraction(At(2024, 4, 1, 0, 0), 5, 1), Of(1, "r1", "b1"))
Noticed1 == Noticing(Fraction(At(2024, 4, 1, 0, 0), 25, 2), Of(1, "r1", "b1"))

Hint == [Rpy("/oobi/witness", "E", "hint", At(2024, 1, 1, 0, 0), Alone("w1"))
          EXCEPT !.signers = <<>>]
Unsigned == [Added EXCEPT !.signers = <<>>]

Query(signer) ==
  [Rpy("/logs", "E", "query", At(2024, 1, 1, 0, 0), signer) EXCEPT !.kind = "qry"]

(* Replies about the role, with the queries; and about other resources.    *)
RoleMail ==
  {Added, Cut, AddedAgain, Usurped, NoDay, Unsigned,
   Query(Of(0, "e0", "a1")), Query(Of(1, "r1", "a1"))}

PlaceMail == {West, Here, Foreign, Noticed1, Noticed2, Hint}

MCMails == {FirstReceipts, LaterReceipts, RoleMail, PlaceMail}

(* What names a contested place is sent again and again.                   *)
MCRepeated ==
  {p \in LaterReceipts : p.sn = 1} \cup {AddedAgain, Usurped, Noticed1, Noticed2}

(* Whatever the order of arrival and whenever the recovery comes, every    *)
(* event ends up accounted for and the newest reply stands. (The log ends  *)
(* with x2, where a notice about r1 no longer fits.)                       *)
Settles ==
  /\ desk = FirstReceipts => <>[](log # <<>> /\ Accounted(1) /\ endorsers["e0"] = {"T", "w4"})
  /\ desk = LaterReceipts =>
       <>[](Len(log) = 3 /\ Accounted(2) /\ Accounted(3) /\ endorsers["r1"] = {"w1"})
  /\ desk = RoleMail =>
       <>[](standing["role"] = AddedAgain /\ served = {Query(Of(0, "e0", "a1"))})
  /\ desk = PlaceMail => <>[](standing["loc"] = West)
=============================================================================
