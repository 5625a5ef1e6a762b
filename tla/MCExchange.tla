----------------------------- MODULE MCExchange -----------------------------
(* One application of "A" to the issuer "I" for TLC. I may offer "c", that *)
(* is chained to "p" directly and through "q", or "w", whose chain is too  *)
(* wide; another party "M" and forged messages are on the wire. A does not *)
(* know the schema, the issuance of c and the recovery that sealed it yet; *)
(* "p" may be revoked at any time.                                         *)
EXTENDS Exchange

MCHosts == {"A", "I"}
MCSaids ==
  {"S", "R", "c", "w", "p", "q", "c0", "w0", "p0", "p1", "q0", "X3", "R3",
   "apply", "offer_c", "offer_w", "agree_c", "agree_w", "grant_c", "grant_w", "grant_x",
   "admit", "spurn_apply", "spurn_c", "spurn_w", "spurn_agree", "spurn_agree_w", "spurn_grant",
   "agree_m", "admit_m"}

To(n) == [n |-> n, o |-> None]
c == [said |-> "c", size |-> 9, schema |-> "S", issuer |-> "I", issuee |-> "A",
      registry |-> "R", rules |-> "empty", form |-> "inline",
      edges |-> <<To("p"), [n |-> "q", o |-> "NI2I"]>>]
w == [c EXCEPT !.said = "w", !.edges = <<To("q"), To("q")>>]
q == [c EXCEPT !.said = "q", !.issuee = None, !.edges = <<[n |-> "p", o |-> "I2I"]>>]
p == [c EXCEPT !.said = "p", !.issuee = "I", !.rules = "absent", !.form = "absent", !.edges = <<>>]
MCFitting == {c, w, p, q}

Issue(a, said) ==
  <<"tel", [registry |-> "R", credential |-> a.said, sn |-> 0, head |-> said, status |-> "Issued"]>>
Revocation_p ==
  <<"tel", [registry |-> "R", credential |-> "p", sn |-> 1, head |-> "p1", status |-> "Revoked"]>>
At(said) == [pre |-> "I", sn |-> 3, said |-> said]
Replaced == <<"event", [at |-> At("X3"), recovery |-> FALSE]>>
Recovery == <<"event", [at |-> At("R3"), recovery |-> TRUE]>>

Common ==
  {<<"kel", i>> : i \in {"A", "I", "M"}} \cup {<<"body", b>> : b \in MCFitting}
  \cup {<<"registry", [id |-> "R", issuer |-> "I"]>>, Issue(w, "w0"), Issue(p, "p0"), Issue(q, "q0"),
        Replaced}
News == {<<"schema", "S">>, Issue(c, "c0"), Recovery}
MCFacts ==
  [h \in MCHosts |-> Common \cup News \cup (IF h = "A" THEN {Revocation_p} ELSE {})]
MCInitially == [h \in MCHosts |-> IF h = "A" THEN Common ELSE Common \cup News]

Bare ==
  [said |-> "apply", prior |-> None, route |-> "apply", issuer |-> "A", signed |-> "enough",
   wellFormed |-> TRUE, recipient |-> None, schema |-> None, acdc |-> None, iss |-> None,
   anc |-> None, pathed |-> "none"]
Say(said, prior, route, issuer) ==
  [Bare EXCEPT !.said = said, !.prior = prior, !.route = route, !.issuer = issuer]
Offer(said, a) ==
  [Say(said, "apply", "offer", "I") EXCEPT !.acdc = a, !.pathed = "proof"]
Grant(said, prior, a, issuance) ==
  [Say(said, prior, "grant", "I") EXCEPT
     !.acdc = a, !.pathed = "proof", !.recipient = "A",
     !.iss = [said |-> issuance, credential |-> a.said, registry |-> "R", sn |-> 0, kind |-> "iss"],
     !.anc = [pre |-> "I", sn |-> 3, said |-> "R3",
              seals |-> <<[i |-> a.said, s |-> 0, d |-> issuance]>>]]

Honest ==
  {[Bare EXCEPT !.recipient = "I", !.schema = "S"],
   Offer("offer_c", c), Offer("offer_w", w),
   Say("agree_c", "offer_c", "agree", "A"), Say("agree_w", "offer_w", "agree", "A"),
   Grant("grant_c", "agree_c", c, "c0"), Grant("grant_w", "agree_w", w, "w0"),
   Grant("grant_x", "agree_w", c, "c0"),
   Say("admit", "grant_c", "admit", "A"),
   Say("spurn_apply", "apply", "spurn", "I"), Say("spurn_c", "offer_c", "spurn", "A"),
   Say("spurn_agree", "agree_c", "spurn", "I"), Say("spurn_agree_w", "agree_w", "spurn", "I"),
   Say("spurn_grant", "grant_c", "spurn", "A")}
MCStrays ==
  {Say("agree_m", "offer_c", "agree", "M"),
   [Say("admit_m", "grant_c", "admit", "A") EXCEPT !.signed = "none"],
   [Say("agree_c", "offer_c", "agree", "A") EXCEPT !.signed = "few"]}
MCExns == Honest \cup MCStrays

MCLimits == [nodes |-> 4, depth |-> 2, bytes |-> 9]
MCWorkers == [h \in MCHosts |-> IF h = "A" THEN {"a1", "a2"} ELSE {"i1"}]
=============================================================================
