------------------------------- MODULE EventCodec -------------------------------
(***************************************************************************)
(* The message bodies and both directions of their codec (keri-codec:      *)
(* serialize.rs, deserialize.rs, codec/).                                  *)
(*                                                                         *)
(* A message is its type, the form its numeric thresholds are spelled in   *)
(* and its fields by label.  Encode renders it in the one order of its     *)
(* type and makes it self-addressing; Decode scans that order strictly,    *)
(* verifies the digests over the bytes as they stand, and only then lifts  *)
(* the fields and applies the laws that tie them to each other.            *)
(*                                                                         *)
(* A body, a JSON object that carries the digest of itself (said.rs and    *)
(* the strict scanners), is the sequence of its fields in wire order.  A   *)
(* digest is a constructor over the body it was taken of, so two digests   *)
(* are equal exactly when code and digested bytes are.  A value knows its  *)
(* spelling (a padded hex number is not a plain one) and its width on the  *)
(* wire.                                                                   *)
(***************************************************************************)
EXTENDS Integers, Sequences, SequencesExt, FiniteSets

CONSTANTS MaxFields, MaxDepth   (* JsonLimits, for one body. *)

ASSUME JsonLimitsAssumption == MaxFields \in Nat /\ MaxDepth \in Nat

LOCAL T == INSTANCE SigningThreshold WITH MaxWord <- 1

Simple(n) == T!Simple(n)
Weighted(clauses) == T!Weighted(clauses)
Weight(num, den) == T!Weight(num, den)

-------------------------------------------------------------------------------
(* Self-addressing bodies.                                                 *)

Field(label, value) == [label |-> label, value |-> value]

Text(s) == [t |-> "text", s |-> s]
Prim(class, name) == [t |-> "prim", class |-> class, name |-> name]
Said(code, body) == [t |-> "said", code |-> code, body |-> body]
Dummy(width) == [t |-> "dummy", width |-> width]
Hex(n, spelling) == [t |-> "hex", n |-> n, spelling |-> spelling]
Decimal(n) == [t |-> "int", n |-> n]
Whole(n) == [t |-> "whole", n |-> n]
Frac(num, den) == [t |-> "frac", num |-> num, den |-> den]
List(items) == [t |-> "list", items |-> items]
Obj(body) == [t |-> "object", body |-> body]
Version(proto, kind, size) ==
  [t |-> "version", proto |-> proto, kind |-> kind, size |-> size]

IsString(v) == v.t \notin {"int", "list", "object", "version"}

(* The digest codes by the width of their text, in units of 44 characters. *)
CodeWidth == [E |-> 1, F |-> 1, G |-> 2]

RECURSIVE Width(_), BodyWidth(_)
Width(v) ==
  CASE v.t = "said" -> CodeWidth[v.code]
    [] v.t = "dummy" -> v.width
    [] v.t = "hex" -> Len(v.spelling)
    [] v.t = "list" -> FoldLeft(LAMBDA n, item : n + Width(item), 1, v.items)
    [] v.t = "object" -> 1 + BodyWidth(v.body)
    [] OTHER -> 1
BodyWidth(body) == FoldLeft(LAMBDA n, field : n + 1 + Width(field.value), 0, body)

Labels(body) == [i \in DOMAIN body |-> body[i].label]
Has(body, label) == \E i \in DOMAIN body : body[i].label = label
Value(body, label) == body[CHOOSE i \in DOMAIN body : body[i].label = label].value

-------------------------------------------------------------------------------
(* Patching: a body with the values of some fields replaced in place.      *)

With(body, label, value) ==
  [i \in DOMAIN body |->
     IF body[i].label = label THEN Field(label, value) ELSE body[i]]

(* A dummied slot keeps the width of what it held.                         *)
Dummied(body, slots) ==
  [i \in DOMAIN body |->
     IF body[i].label \in slots THEN Field(body[i].label, Dummy(Width(body[i].value)))
     ELSE body[i]]

(* The version string's size is patched before anything is digested.       *)
Sized(body) ==
  IF Has(body, "v") THEN With(body, "v", [Value(body, "v") EXCEPT !.size = BodyWidth(body)])
  ELSE body

(* SadCodes::saidify and EventRef::serialize: every slot is filled with    *)
(* the digest, under its own code, of the one dummied rendering.           *)
Saidify(body, codes) ==
  LET render == Sized(Dummied(body, DOMAIN codes)) IN
  [i \in DOMAIN render |->
     IF render[i].label \in DOMAIN codes
     THEN Field(render[i].label, Said(codes[render[i].label], render)) ELSE render[i]]

(* infer_digest_code: what the characters of a value announce.             *)
IsDigest(v) == v.t = "said"

(* A mutant: the first slot alone is compared.                             *)
VerifiedFirst(body, codes) ==
  LET only == CHOOSE label \in DOMAIN codes : "d" \in DOMAIN codes => label = "d" IN
  DOMAIN codes # {} => Value(body, only) = Said(codes[only], Dummied(body, DOMAIN codes))

(* SadCodes::verify and verify_said_spans.                                 *)
Verified(body, codes) ==
  LET render == Dummied(body, DOMAIN codes) IN
  \A label \in DOMAIN codes : Value(body, label) = Said(codes[label], render)

SizeHonest(body) == Has(body, "v") => Value(body, "v").size = BodyWidth(body)

(* The keys of a canonical value are unique at every depth.                *)
RECURSIVE Canonical(_)
Canonical(v) ==
  CASE v.t = "object" -> /\ IsInjective(Labels(v.body))
                         /\ \A i \in DOMAIN v.body : Canonical(v.body[i].value)
    [] v.t = "list" -> \A i \in DOMAIN v.items : Canonical(v.items[i])
    [] OTHER -> TRUE

(* verify_nested_block: a nested block vouches for itself under the first  *)
(* of `d` and `$id` if that holds a digest, and trivially otherwise.       *)
BlockSlot(body) ==
  LET found == SelectSeq(body, LAMBDA field : field.label \in {"d", "$id"}) IN
  IF found # <<>> /\ IsDigest(Head(found).value) THEN {Head(found).label} ELSE {}

BlockVerified(v) ==
  v.t = "object" =>
    LET codes == [label \in BlockSlot(v.body) |-> Value(v.body, label).code] IN
    DOMAIN codes # {} => SizeHonest(v.body) /\ Verified(v.body, codes)

-------------------------------------------------------------------------------
(* JsonBudget: every key is charged, every container is one deeper.        *)

LargerOf(a, b) == IF a >= b THEN a ELSE b

RECURSIVE FieldsIn(_), DepthOf(_)
FieldsIn(v) ==
  CASE v.t = "object" -> FoldLeft(LAMBDA n, field : n + 1 + FieldsIn(field.value), 0, v.body)
    [] v.t = "list" -> FoldLeft(LAMBDA n, item : n + FieldsIn(item), 0, v.items)
    [] OTHER -> 0
DepthOf(v) ==
  CASE v.t = "object" -> 1 + FoldLeft(LAMBDA n, field : LargerOf(n, DepthOf(field.value)), 0, v.body)
    [] v.t = "list" -> 1 + FoldLeft(LAMBDA n, item : LargerOf(n, DepthOf(item)), 0, v.items)
    [] OTHER -> 0

-------------------------------------------------------------------------------
(* The field grammar: the labels of each message type in wire order, and   *)
(* the kind of value each carries.                                         *)

Slot(label, kind) == [label |-> label, kind |-> kind]

D == Slot("d", "said")
KeySlots ==
  <<Slot("kt", "tholder"), Slot("k", "keys"), Slot("nt", "tholder"),
    Slot("n", "digests"), Slot("bt", "count")>>
Inception ==
  <<D, Slot("i", "identifier"), Slot("s", "sn")>> \o KeySlots
  \o <<Slot("b", "members"), Slot("c", "traits"), Slot("a", "seals")>>
Rotation ==
  <<D, Slot("i", "identifier"), Slot("s", "sn"), Slot("p", "said")>> \o KeySlots
  \o <<Slot("br", "members"), Slot("ba", "members"), Slot("a", "seals")>>

KeyEvents ==
  [icp |-> Inception, rot |-> Rotation, drt |-> Rotation,
   dip |-> Append(Inception, Slot("di", "identifier")),
   ixn |-> <<D, Slot("i", "identifier"), Slot("s", "sn"), Slot("p", "said"),
             Slot("a", "seals")>>]

Receipts == [rct |-> <<D, Slot("i", "identifier"), Slot("s", "sn")>>]

RegistryInception ==
  <<D, Slot("i", "said"), Slot("ii", "identifier"), Slot("s", "sn"), Slot("c", "traits"),
    Slot("bt", "count"), Slot("b", "members"), Slot("n", "nonce")>>
RegistryRotation ==
  <<D, Slot("i", "said"), Slot("p", "said"), Slot("s", "sn"),
    Slot("bt", "count"), Slot("br", "members"), Slot("ba", "members")>>
Issue ==
  <<D, Slot("i", "said"), Slot("s", "sn"), Slot("ri", "said"), Slot("dt", "text")>>
Revoke ==
  <<D, Slot("i", "said"), Slot("s", "sn"), Slot("ri", "said"), Slot("p", "said"),
    Slot("dt", "text")>>
BackedIssue ==
  <<D, Slot("i", "said"), Slot("ii", "said"), Slot("s", "sn"), Slot("ra", "event seal"),
    Slot("dt", "text")>>
BackedRevoke ==
  <<D, Slot("i", "said"), Slot("s", "sn"), Slot("p", "said"), Slot("ra", "event seal"),
    Slot("dt", "text")>>

RegistryEvents ==
  [vcp |-> RegistryInception, vrt |-> RegistryRotation, iss |-> Issue, rev |-> Revoke,
   bis |-> BackedIssue, brv |-> BackedRevoke]

Acdc ==
  <<D, Slot("u", "nonce"), Slot("i", "identifier"), Slot("ri", "block"), Slot("s", "block"),
    Slot("a", "block"), Slot("A", "said"), Slot("e", "block"), Slot("r", "block")>>
Credentials == [acdc |-> Acdc]

Exn ==
  <<D, Slot("i", "identifier"), Slot("rp", "identifier or none"), Slot("p", "said or none"),
    Slot("dt", "text"), Slot("r", "text"), Slot("q", "object"), Slot("a", "block"),
    Slot("e", "embeds")>>
Exchanges == [exn |-> Exn]

Grammars == KeyEvents @@ Receipts @@ RegistryEvents @@ Credentials @@ Exchanges
Ilks == DOMAIN Grammars

Optional(ilk) ==
  CASE ilk = "acdc" -> {"u", "ri", "a", "A", "e", "r"}
    [] ilk = "exn" -> {"e"}
    [] OTHER -> {}

Protocol(ilk) == IF ilk = "acdc" THEN "ACDC" ELSE "KERI"
Opening(ilk, size) ==
  <<Field("v", Version(Protocol(ilk), "JSON", size))>>
  \o (IF ilk = "acdc" THEN <<>> ELSE <<Field("t", Text(ilk))>>)

-------------------------------------------------------------------------------
(* The spelling of a value on the wire.                                    *)

Empty == Text("")

(* CountField and the simple ThresholdField.                               *)
SpellCount(form, n) == IF form = "integer" THEN Decimal(n) ELSE Hex(n, "n")

(* weight_to_string: a fraction worth zero or one collapses.               *)
SpellWeight(w) ==
  IF w.den # 0 /\ (w.num = 0 \/ w.num = w.den) THEN Whole(w.num \div w.den)
  ELSE Frac(w.num, w.den)

SpellClause(clause) == List([i \in DOMAIN clause |-> SpellWeight(clause[i])])

SpellThreshold(form, th) ==
  CASE th.kind = "simple" -> SpellCount(form, th.n)
    [] Len(th.clauses) = 1 -> SpellClause(th.clauses[1])
    [] OTHER -> List([i \in DOMAIN th.clauses |-> SpellClause(th.clauses[i])])

Spell(kind, form, x) ==
  CASE kind = "sn" -> Hex(x, "n")
    [] kind = "tholder" -> SpellThreshold(form, x)
    [] kind = "count" -> SpellCount(form, x)
    [] OTHER -> x

(* The threshold form is an event's; a registry's counts are always hex.   *)
FormOf(ilk, form) == IF ilk \in DOMAIN RegistryEvents THEN "hex" ELSE form

-------------------------------------------------------------------------------
(* What the scan admits as a value of each kind, before anything is known  *)
(* of its content.                                                         *)

ListOf(v, Item(_)) == v.t = "list" /\ \A i \in DOMAIN v.items : Item(v.items[i])
Strings(v) == ListOf(v, IsString)
Object(v) == v.t = "object" /\ Canonical(v)

(* The seven fixed shapes of a seal; any other object is kept verbatim.    *)
SealShapes ==
  {<<"d">>, <<"rd">>, <<"s", "d">>, <<"i">>, <<"i", "s", "d">>, <<"bi", "d">>, <<"t", "d">>}

Typed(body) == Labels(body) \in SealShapes /\ \A i \in DOMAIN body : IsString(body[i].value)

(* The embeds of an exchange: empty, or blocks by label and then their own *)
(* digest.                                                                 *)
Embeds(v) ==
  /\ Object(v)
  /\ v.body # <<>> =>
       \A i \in DOMAIN v.body :
         /\ (v.body[i].label = "d") = (i = Len(v.body))
         /\ IF v.body[i].label = "d" THEN IsString(v.body[i].value)
            ELSE v.body[i].value.t = "object"

Scans(kind, v) ==
  CASE kind = "tholder" -> IsString(v) \/ v.t = "int" \/ Strings(v) \/ ListOf(v, Strings)
    [] kind = "count" -> IsString(v) \/ v.t = "int"
    [] kind \in {"keys", "digests", "members", "traits"} -> Strings(v)
    [] kind = "seals" -> ListOf(v, Object)
    [] kind = "event seal" -> Object(v)
    [] kind = "object" -> Object(v)
    [] kind = "embeds" -> Embeds(v)
    [] kind = "block" -> IsString(v) \/ Object(v)
    [] OTHER -> IsString(v)

(* A seal is first tried against the fixed shapes, which charges the keys  *)
(* it gets past, and the attempt is taken back before the verbatim scan.   *)
(* A mutant: the attempt stays charged.                                    *)
SealChargeKept(v) == FieldsIn(v) + (IF Typed(v.body) \/ v.body = <<>> THEN 0 ELSE 1)
SealCharge(v) == FieldsIn(v)

Charge(kind, v) ==
  IF kind = "seals" /\ v.t = "list"
  THEN FoldLeft(LAMBDA n, item : n + SealCharge(item), 0, v.items)
  ELSE FieldsIn(v)

-------------------------------------------------------------------------------
(* The lift: what a scanned value means, if it means anything.             *)

IsKey(v) == v.t = "prim" /\ v.class \in {"key", "nkey"}
IsIdentifier(v) == IsKey(v) \/ IsDigest(v)
IsWeight(v) == v.t = "whole" \/ (v.t = "frac" /\ v.den # 0)
Traits == {"EO", "DND", "NB", "RB", "NRB", "DID"}

(* from_str_radix: any spelling of a hex number is that number.            *)
IsNumber(v) == v.t = "hex"

IsSealPart(label, v) ==
  CASE label \in {"d", "rd"} -> IsDigest(v)
    [] label = "s" -> IsNumber(v)
    [] label = "i" -> IsIdentifier(v)
    [] label = "bi" -> IsKey(v)
    [] label = "t" -> v.t = "prim" /\ v.class = "verser"

IsSeal(v) ==
  Typed(v.body) => \A i \in DOMAIN v.body : IsSealPart(v.body[i].label, v.body[i].value)

Clauses(v) == IF v.items # <<>> /\ v.items[1].t # "list" THEN <<v>> ELSE v.items

IsThreshold(v) ==
  \/ IsNumber(v) \/ v.t = "int"
  \/ v.t = "list" /\ \A c \in DOMAIN Clauses(v) : ListOf(Clauses(v)[c], IsWeight)

Means(kind, v) ==
  CASE kind = "said" -> IsDigest(v)
    [] kind = "said or none" -> v = Empty \/ IsDigest(v)
    [] kind = "identifier" -> IsIdentifier(v)
    [] kind = "identifier or none" -> v = Empty \/ IsIdentifier(v)
    [] kind = "sn" -> IsNumber(v)
    [] kind = "tholder" -> IsThreshold(v)
    [] kind = "count" -> IsNumber(v) \/ v.t = "int"
    [] kind \in {"keys", "members"} -> ListOf(v, IsKey)
    [] kind = "digests" -> ListOf(v, IsDigest)
    [] kind = "traits" -> ListOf(v, LAMBDA x : x.t = "text" /\ x.s \in Traits)
    [] kind = "seals" -> ListOf(v, IsSeal)
    [] kind = "event seal" -> Labels(v.body) = <<"i", "s", "d">> /\ Typed(v.body) /\ IsSeal(v)
    [] kind = "nonce" -> IsDigest(v) \/ (v.t = "prim" /\ v.class = "nonce")
    [] kind = "block" -> IsDigest(v) \/ v.t = "object"
    [] kind = "embeds" -> v.body # <<>> => IsDigest(Last(v.body).value)
    [] OTHER -> TRUE

LiftWeight(v) == IF v.t = "whole" THEN Weight(v.n, 1) ELSE Weight(v.num, v.den)
LiftClause(v) == [i \in DOMAIN v.items |-> LiftWeight(v.items[i])]
LiftThreshold(v) ==
  IF v.t # "list" THEN Simple(v.n)
  ELSE Weighted([c \in DOMAIN Clauses(v) |-> LiftClause(Clauses(v)[c])])

(* A typed seal keeps its number, not the spelling of it.                  *)
LiftSeal(v) ==
  IF Typed(v.body) /\ Has(v.body, "s")
  THEN Obj(With(v.body, "s", Hex(Value(v.body, "s").n, "n"))) ELSE v

Lift(kind, v) ==
  CASE kind \in {"sn", "count"} -> v.n
    [] kind = "tholder" -> LiftThreshold(v)
    [] kind = "seals" -> List([i \in DOMAIN v.items |-> LiftSeal(v.items[i])])
    [] kind = "event seal" -> LiftSeal(v)
    [] OTHER -> v

-------------------------------------------------------------------------------
(* The laws that tie the fields of one event to each other.                *)

ToadExact(n, count) == IF count = 0 THEN n = 0 ELSE n \in 1 .. count
Unique(list) == IsInjective(list.items)
Witnesses(list) == Unique(list) /\ \A i \in DOMAIN list.items : list.items[i].class = "nkey"
Deltas(cuts, adds) ==
  Witnesses(cuts) /\ Witnesses(adds) /\ ToSet(cuts.items) \cap ToSet(adds.items) = {}

(* check_form_consistency: one event spells its numbers in one form.       *)
FormOfCount(v) == IF v.t = "int" THEN "integer" ELSE "hex"
Consistent(v, form) == v.t # "list" => FormOfCount(v) = form

WellFormedThresholds(of) ==
  /\ T!WellFormed(of.kt, Len(of.k.items))
  /\ of.n.items # <<>> => T!WellFormed(of.nt, Len(of.n.items))

(* check_identity: a basic prefix is its only key; one that cannot rotate  *)
(* commits to nothing and anchors nothing.                                 *)
Identity(of) ==
  IsKey(of.i) =>
    /\ of.k.items = <<of.i>> /\ of.kt = Simple(1)
    /\ of.i.class = "nkey" => of.n.items = <<>> /\ of.b.items = <<>> /\ of.a.items = <<>>

LawfulInception(of) ==
  /\ Witnesses(of.b) /\ ToadExact(of.bt, Len(of.b.items))
  /\ WellFormedThresholds(of) /\ Identity(of)
LawfulRotation(of) == WellFormedThresholds(of) /\ Deltas(of.br, of.ba)

(* A registry is named by its own inception; a credential is issued at 0   *)
(* and revoked at 1.                                                       *)
LawfulRegistryEvent(ilk, of) ==
  /\ ilk \in {"vcp", "iss", "bis"} => of.s = 0
  /\ ilk \in {"rev", "brv"} => of.s = 1
  /\ ilk = "vcp" => of.i = of.d /\ Unique(of.b) /\ ToadExact(of.bt, Len(of.b.items))
  /\ ilk = "vrt" => Unique(of.br) /\ Unique(of.ba)
                    /\ ToSet(of.br.items) \cap ToSet(of.ba.items) = {}

Lawful(ilk, of) ==
  CASE ilk = "icp" -> LawfulInception(of)
    [] ilk = "dip" -> LawfulInception(of) /\ IsDigest(of.i)
    [] ilk = "rot" -> LawfulRotation(of)
    [] ilk = "drt" -> LawfulRotation(of) /\ IsDigest(of.i)
    [] ilk \in DOMAIN RegistryEvents -> LawfulRegistryEvent(ilk, of)
    [] OTHER -> TRUE

-------------------------------------------------------------------------------
(* The two directions.                                                     *)

(* The fields a body digests itself into, each under its own code.  The    *)
(* prefix of an inception is one of them unless it is a key.               *)
SaidSlots(ilk, i) ==
  CASE ilk = "rct" -> {}
    [] ilk = "vcp" \/ (ilk \in {"icp", "dip"} /\ IsDigest(i)) -> {"d", "i"}
    [] OTHER -> {"d"}

SaidCodes(ilk, d, i) ==
  [label \in SaidSlots(ilk, i) |-> IF label = "i" /\ ilk # "vcp" THEN i.code ELSE d.code]

Message(ilk, form, of) == [ilk |-> ilk, form |-> form, of |-> of]

Encode(m) ==
  LET present == SelectSeq(Grammars[m.ilk], LAMBDA slot : slot.label \in DOMAIN m.of)
      render ==
        Opening(m.ilk, 0)
        \o [i \in DOMAIN present |->
              Field(present[i].label,
                    Spell(present[i].kind, FormOf(m.ilk, m.form), m.of[present[i].label]))]
  IN  Saidify(render, SaidCodes(m.ilk, m.of.d, m.of.i))

Read(m) == [is |-> "read", message |-> m]
Refused(why) == [is |-> "refused", why |-> why]

(* The head is fixed: the version string first, then the type.             *)
Announced(raw) ==
  IF raw = <<>> \/ Labels(raw)[1] # "v" \/ raw[1].value.t # "version" THEN "none"
  ELSE IF raw[1].value.proto = "ACDC" THEN "acdc"
  ELSE IF Len(raw) > 1 /\ raw[2].label = "t" /\ raw[2].value.t = "text" THEN raw[2].value.s
  ELSE "none"

HeadOk(ilk, raw) ==
  /\ ilk \in Ilks
  /\ raw[1].value.proto = Protocol(ilk) /\ raw[1].value.kind = "JSON"
  /\ SizeHonest(raw)

Present(ilk, fields) ==
  SelectSeq(Grammars[ilk], LAMBDA slot : Has(fields, slot.label))

ScanOk(ilk, fields) ==
  LET present == Present(ilk, fields) IN
  /\ Labels(fields) = [i \in DOMAIN present |-> present[i].label]
  /\ \A i \in DOMAIN Grammars[ilk] :
       Has(fields, Grammars[ilk][i].label) \/ Grammars[ilk][i].label \in Optional(ilk)
  /\ ~(ilk = "acdc" /\ Has(fields, "a") /\ Has(fields, "A"))
  /\ \A i \in DOMAIN present : Scans(present[i].kind, fields[i].value)

WithinLimits(ilk, raw, fields) ==
  LET present == Present(ilk, fields)
      opened == Len(raw) - Len(fields)
  IN  /\ FoldLeft(LAMBDA n, slot : n + 1 + Charge(slot.kind, Value(fields, slot.label)),
                  opened, present) <= MaxFields
      /\ DepthOf(Obj(raw)) <= MaxDepth

(* Nested blocks vouch for themselves: those of a credential each, the     *)
(* embeds of an exchange as a map and one by one.                          *)
NestedVerified(ilk, fields) ==
  CASE ilk = "acdc" ->
         \A label \in {"ri", "s", "a", "e", "r"} :
           Has(fields, label) => BlockVerified(Value(fields, label))
    [] ilk = "exn" /\ Has(fields, "e") ->
         LET map == Value(fields, "e").body IN
         map # <<>> =>
           /\ IsDigest(Last(map).value)
           /\ Verified(map, [label \in {"d"} |-> Last(map).value.code])
           /\ \A i \in DOMAIN map : BlockVerified(map[i].value)
    [] OTHER -> TRUE

SaidOk(ilk, raw, fields) ==
  LET d == Value(fields, "d")  i == Value(fields, "i") IN
  /\ ilk # "rct" => IsDigest(d)
  /\ Verified(raw, SaidCodes(ilk, d, i))
  /\ NestedVerified(ilk, fields)

MeaningOk(ilk, fields) ==
  LET present == Present(ilk, fields) IN
  \A i \in DOMAIN present : Means(present[i].kind, fields[i].value)

Lifted(ilk, fields) ==
  LET present == Present(ilk, fields)
      at(label) == CHOOSE i \in DOMAIN present : present[i].label = label
  IN  [label \in {fields[i].label : i \in DOMAIN fields} |->
         Lift(present[at(label)].kind, fields[at(label)].value)]

FormsOk(ilk, fields) ==
  ilk \in {"icp", "dip", "rot", "drt"} =>
    \A label \in {"kt", "nt"} :
      Consistent(Value(fields, label), FormOfCount(Value(fields, "bt")))

(* A mutant: the form is not kept.                                         *)
FormForgotten(ilk, fields) == "hex"

FormRead(ilk, fields) ==
  IF ilk \in {"icp", "dip", "rot", "drt"} THEN FormOfCount(Value(fields, "bt")) ELSE "hex"

(* The typed readers: head, scan, digests, then meaning and laws.          *)
Decode(raw) ==
  LET ilk == Announced(raw)
      fields == SubSeq(raw, IF ilk = "acdc" THEN 2 ELSE 3, Len(raw))
  IN  CASE ~HeadOk(ilk, raw) -> Refused("head")
        [] ~ScanOk(ilk, fields) -> Refused("not canonical")
        [] ~WithinLimits(ilk, raw, fields) -> Refused("limit")
        [] ~SaidOk(ilk, raw, fields) -> Refused("said")
        [] ~(MeaningOk(ilk, fields) /\ FormsOk(ilk, fields)) -> Refused("field")
        [] ~Lawful(ilk, Lifted(ilk, fields)) -> Refused("law")
        [] OTHER -> Read(Message(ilk, FormRead(ilk, fields), Lifted(ilk, fields)))

===============================================================================
