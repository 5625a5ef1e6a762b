-------------------------------- MODULE MCRelay --------------------------------
(***************************************************************************)
(* A message of every type and of every shape its fields take, written,    *)
(* altered in one place, and passed on twice.                              *)
(***************************************************************************)
EXTENDS Relay

None == List(<<>>)
Key(name) == Prim("key", name)
Fleeting(name) == Prim("nkey", name)
Keys(names) == List([i \in DOMAIN names |-> Key(names[i])])
Witness(names) == List([i \in DOMAIN names |-> Fleeting(names[i])])

(* What a digest names outside the message, and what it will hold itself.  *)
Other(name) == Said("E", <<Field(name, Empty)>>)
Self == Said("E", <<>>)
SelfLong == Said("G", <<>>)
Blake2(body) == [body EXCEPT !.code = "F"]

-------------------------------------------------------------------------------
(* Seals: the seven shapes, one that begins like one of them, and none.    *)

DigestSeal == Obj(<<Field("d", Other("x"))>>)
RootSeal == Obj(<<Field("rd", Other("x"))>>)
SourceSeal == Obj(<<Field("s", Hex(1, "n")), Field("d", Other("x"))>>)
EventSeal == Obj(<<Field("i", Other("x")), Field("s", Hex(0, "n")), Field("d", Other("x"))>>)
LastSeal == Obj(<<Field("i", Key("k1"))>>)
BackSeal == Obj(<<Field("bi", Fleeting("w1")), Field("d", Other("x"))>>)
KindSeal == Obj(<<Field("t", Prim("verser", "v1")), Field("d", Other("x"))>>)
Foreign == Obj(<<Field("d", Text("y")), Field("x", Decimal(1))>>)
Padded == Obj(<<Field("s", Hex(1, "0n")), Field("z", Empty)>>)

-------------------------------------------------------------------------------
(* Key events.                                                             *)

Plain ==
  [d |-> Self, i |-> Self, s |-> 0, kt |-> Simple(1), k |-> Keys(<<"k1">>),
   nt |-> Simple(1), n |-> List(<<Other("k2")>>), bt |-> 0, b |-> None,
   c |-> None, a |-> None]

Halves == <<Weight(1, 2), Weight(2, 2), Weight(0, 3)>>
Nested == Weighted(<<<<Weight(1, 2), Weight(1, 2)>>, <<Weight(1, 1)>>>>)

Witnessed ==
  [Plain EXCEPT !.kt = Weighted(<<Halves>>), !.k = Keys(<<"k1", "k2", "k3">>),
                !.nt = Nested, !.n = List(<<Other("k4"), Other("k5"), Other("k6")>>),
                !.bt = 2, !.b = Witness(<<"w1", "w2">>), !.c = List(<<Text("EO"), Text("DND")>>)]

Basic == [Plain EXCEPT !.i = Key("k1")]
Abandoned ==
  [Plain EXCEPT !.i = Fleeting("k1"), !.k = Witness(<<"k1">>), !.nt = Simple(0), !.n = None]
Delegated == Plain @@ [di |-> Other("boss")]

Rotated ==
  [d |-> Self, i |-> Other("self"), s |-> 1, p |-> Other("icp"), kt |-> Simple(1),
   k |-> Keys(<<"k2">>), nt |-> Simple(0), n |-> None, bt |-> 1,
   br |-> Witness(<<"w1">>), ba |-> Witness(<<"w3">>), a |-> List(<<EventSeal>>)]

Interacted(seals) ==
  [d |-> Self, i |-> Other("self"), s |-> 2, p |-> Other("rot"), a |-> List(seals)]

KeyEventMessages ==
  {Message("icp", "hex", Plain),
   Message("icp", "hex", [Plain EXCEPT !.d = SelfLong]),
   Message("icp", "integer", [Plain EXCEPT !.i = SelfLong]),
   Message("icp", "integer", Witnessed),
   Message("icp", "hex", [Basic EXCEPT !.a = List(<<KindSeal>>)]),
   Message("icp", "hex", Abandoned),
   Message("dip", "hex", [Delegated EXCEPT !.i = Blake2(Self)]),
   Message("rot", "integer", Rotated),
   Message("drt", "hex", [Rotated EXCEPT !.kt = Nested, !.k = Keys(<<"k2", "k3", "k4">>)]),
   Message("ixn", "hex", Interacted(<<>>)),
   Message("ixn", "hex", Interacted(<<DigestSeal, RootSeal, LastSeal, KindSeal>>)),
   Message("ixn", "hex", Interacted(<<SourceSeal, EventSeal, BackSeal>>)),
   Message("ixn", "hex", Interacted(<<Foreign, Foreign, Foreign, Padded>>)),
   Message("ixn", "hex", Interacted(<<EventSeal, EventSeal, EventSeal, EventSeal>>)),
   Message("rct", "hex", [d |-> Other("x"), i |-> Key("k1"), s |-> 3])}

-------------------------------------------------------------------------------
(* Registries, credentials and exchanges.                                  *)

Registry ==
  [d |-> Self, i |-> Self, ii |-> Other("issuer"), s |-> 0,
   c |-> List(<<Text("NB")>>), bt |-> 1, b |-> Witness(<<"w1">>), n |-> Prim("nonce", "n1")]
RegistryRotated ==
  [d |-> Self, i |-> Other("vcp"), p |-> Other("vcp"), s |-> 1, bt |-> 1,
   br |-> Witness(<<"w1">>), ba |-> Witness(<<"w2">>)]
Issued == [d |-> Self, i |-> Other("acdc"), s |-> 0, ri |-> Other("vcp"), dt |-> Text("now")]
Revoked == [Issued EXCEPT !.s = 1] @@ [p |-> Other("iss")]
BackedIssued ==
  [d |-> Self, i |-> Other("acdc"), ii |-> Other("vcp"), s |-> 0, ra |-> EventSeal,
   dt |-> Text("now")]
BackedRevoked ==
  [d |-> Self, i |-> Other("acdc"), s |-> 1, p |-> Other("bis"), ra |-> EventSeal,
   dt |-> Text("now")]

(* A block that vouches for itself under the label it is given.            *)
Block(label, body) ==
  Obj(Saidify(<<Field(label, Self)>> \o body, [l \in {label} |-> "E"]))

Claims == Block("d", <<Field("name", Text("ann"))>>)
Schema == Block("$id", <<Field("type", Text("object"))>>)
Edges == Block("d", <<Field("chain", Obj(<<Field("n", Other("acdc"))>>))>>)
Bare == Obj(<<Field("note", Text("none"))>>)

Credential ==
  [d |-> Self, u |-> Prim("nonce", "n1"), i |-> Other("issuer"), ri |-> Other("vcp"),
   s |-> Schema, a |-> Claims, e |-> Edges, r |-> Bare]
Compact == [d |-> Self, i |-> Key("k1"), s |-> Other("schema"), A |-> Other("claims")]

EmbedsMap ==
  Obj(Saidify(<<Field("acdc", Claims), Field("iss", Bare), Field("d", Self)>>,
              [l \in {"d"} |-> "E"]))
Offer ==
  [d |-> Self, i |-> Other("issuer"), rp |-> Other("holder"), p |-> Empty, dt |-> Text("now"),
   r |-> Text("/ipex/grant"), q |-> Obj(<<>>), a |-> Bare]
Grant == Offer @@ [e |-> EmbedsMap]
Answer == [Offer EXCEPT !.rp = Empty, !.p = Other("grant")] @@ [e |-> Obj(<<>>)]

OtherMessages ==
  {Message("vcp", "hex", Registry), Message("vrt", "hex", RegistryRotated),
   Message("iss", "hex", Issued), Message("rev", "hex", Revoked),
   Message("bis", "hex", BackedIssued), Message("brv", "hex", BackedRevoked),
   Message("acdc", "hex", Credential), Message("acdc", "hex", Compact),
   Message("exn", "hex", Offer), Message("exn", "hex", Grant), Message("exn", "hex", Answer)}

MCMessages == KeyEventMessages \cup OtherMessages

(* What an alteration puts in a field: another's digest, a number, a text, *)
(* and values of the other JSON kinds.                                     *)
MCStrays ==
  {Other("stray"), Blake2(Other("stray")), Hex(1, "n"), Hex(1, "0n"), Decimal(1), Empty,
   None, Obj(<<>>), Claims}
================================================================================
