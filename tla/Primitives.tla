------------------------------ MODULE Primitives ------------------------------
(***************************************************************************)
(* Primitives under way: a writer builds them one after another, the       *)
(* stream may be damaged in one character, cut short, or turned into       *)
(* binary and back, and a reader takes from its head, one by one, the      *)
(* primitives the grammar tells it to expect.                              *)
(***************************************************************************)
EXTENDS Signing, SequencesExt

CONSTANTS
  Messages,     \* sequences of items, each with the family it is read as
  Data,         \* what the signatures and digests in them are of
  Marks,        \* the characters damage may leave behind
  Reach         \* damage comes among this many first characters

VARIABLES
  built,        \* the items written
  wire,         \* what is left to read
  form,         \* "text" or "binary"
  mark,         \* the damaged character's place, 0 if none
  cut,          \* the stream was cut short
  read,         \* the values read, with the span each was read from
  verdict       \* "Reading", or why the reader stopped

vars == <<built, wire, form, mark, cut, read, verdict>>

-----------------------------------------------------------------------------
(* Version strings: the mark in a serialized message that tells protocol,  *)
(* version, serialization and size, in a frame of a fixed width so that a  *)
(* reader can size the message before it understands it. The first version *)
(* writes hexadecimal digits, the second Base64 ones and the version of    *)
(* the code tables besides.                                                *)

Protocols == [KERI |-> <<"K", "E", "R", "I">>, ACDC |-> <<"A", "C", "D", "C">>]

Kinds == [JSON |-> <<"J", "S", "O", "N">>, CBOR |-> <<"C", "B", "O", "R">>,
          MGPK |-> <<"M", "G", "P", "K">>, CESR |-> <<"C", "E", "S", "R">>]

\* What four characters name, if anything: a set of one or none.
Named(names, chars) == {n \in DOMAIN names : names[n] = chars}

(***************************************************************************)
(* Building: a field too large for its width would widen the frame.        *)
(***************************************************************************)
DigitMax == 15
MinorMax == 4095
SizeMax == 16777215

VersionString(proto, major, minor, kind, size) ==
  IF major <= DigitMax /\ minor <= DigitMax /\ size <= SizeMax
  THEN {[kind |-> "V1", proto |-> proto, major |-> major, minor |-> minor,
         form |-> kind, size |-> size]}
  ELSE {}

VersionStringV2(proto, minor, genus, kind, size) ==
  IF minor <= MinorMax /\ genus <= MinorMax /\ size <= SizeMax
  THEN {[kind |-> "V2", proto |-> proto, minor |-> minor, genus |-> genus,
         form |-> kind, size |-> size]}
  ELSE {}

\* A message is sized after it is written, and may be too large to say so.
WithSize(v, size) ==
  IF v.kind = "V1" THEN VersionString(v.proto, v.major, v.minor, v.form, size)
                   ELSE VersionStringV2(v.proto, v.minor, v.genus, v.form, size)

(***************************************************************************)
(* Writing.                                                                *)
(***************************************************************************)
Hexadecimal ==
  <<"0", "1", "2", "3", "4", "5", "6", "7", "8", "9", "a", "b", "c", "d", "e", "f">>

UpperCase == [A |-> 10, B |-> 11, C |-> 12, D |-> 13, E |-> 14, F |-> 15]

HexOf(value, width) == [i \in 1..width |-> Hexadecimal[((value \div 16 ^ (width - i)) % 16) + 1]]

\* The digits a number needs, and "A" before them up to the width.
FixedB64(value, width) ==
  LET digits == EncodeInt(value, 1)
  IN  [i \in 1..(width - Len(digits)) |-> "A"] \o digits

MajorTwo == <<"C">>

WriteVersion(v) ==
  IF v.kind = "V1"
  THEN Protocols[v.proto] \o HexOf(v.major, 1) \o HexOf(v.minor, 1) \o Kinds[v.form]
         \o HexOf(v.size, 6) \o <<Underscore>>
  ELSE Protocols[v.proto] \o MajorTwo \o FixedB64(v.minor, 2) \o MajorTwo \o FixedB64(v.genus, 2)
         \o Kinds[v.form] \o FixedB64(v.size, 4) \o <<".">>

(***************************************************************************)
(* Reading. Hexadecimal digits of either case are read.                    *)
(***************************************************************************)
HexDigit(c) ==
  CASE c \in Range(Hexadecimal) -> (CHOOSE i \in 1..16 : Hexadecimal[i] = c) - 1
    [] c \in DOMAIN UpperCase -> UpperCase[c]

IsHex(text) == \A i \in DOMAIN text : text[i] \in Range(Hexadecimal) \cup DOMAIN UpperCase

\* No field has more than six digits.
HexValue(text) ==
  LET digit(n) == IF n < Len(text) THEN HexDigit(text[Len(text) - n]) ELSE 0
  IN  digit(0) + 16 * digit(1) + 16 ^ 2 * digit(2) + 16 ^ 3 * digit(3)
        + 16 ^ 4 * digit(4) + 16 ^ 5 * digit(5)

V1Width == 17
V2Width == 19

Part(text, first, width) == SubSeq(text, first, first + width - 1)

ParseV1(text) ==
  {[kind |-> "V1", proto |-> proto, major |-> HexValue(Part(text, 5, 1)),
    minor |-> HexValue(Part(text, 6, 1)), form |-> kind, size |-> HexValue(Part(text, 11, 6))] :
     proto \in Named(Protocols, Part(text, 1, 4)), kind \in Named(Kinds, Part(text, 7, 4))}

ParseV2(text) ==
  {[kind |-> "V2", proto |-> proto, minor |-> DecodeInt(Part(text, 6, 2)),
    genus |-> DecodeInt(Part(text, 9, 2)), form |-> kind, size |-> DecodeInt(Part(text, 15, 4))] :
     proto \in Named(Protocols, Part(text, 1, 4)), kind \in Named(Kinds, Part(text, 11, 4))}

ReadVersion(kind, text) ==
  LET width == IF kind = "V1" THEN V1Width ELSE V2Width
      DigitsV1 == IsHex(Part(text, 5, 2) \o Part(text, 11, 6)) /\ text[17] = Underscore
      DigitsV2 == /\ InAlphabet(Part(text, 5, 6) \o Part(text, 15, 4))
                  /\ Part(text, 5, 1) = MajorTwo /\ Part(text, 8, 1) = MajorTwo
                  /\ text[19] = "."
      Parsed == CASE kind = "V1" /\ DigitsV1 -> ParseV1(text)
                  [] kind = "V2" /\ DigitsV2 -> ParseV2(text)
                  [] OTHER -> {}
  IN  IF Len(text) < width THEN NeedBytes
      ELSE IF Parsed = {} THEN Malformed
      ELSE [verdict |-> "Ok", size |-> width, value |-> CHOOSE v \in Parsed : TRUE]

-----------------------------------------------------------------------------
(* The stream.                                                             *)

Item(family, value) == [family |-> family, value |-> value]

Written(value) ==
  CASE value.kind = "Matter" -> WriteMatter(value)
    [] value.kind = "Indexer" -> WriteIndexer(value)
    [] OTHER -> WriteVersion(value)

ReadText(family, text) ==
  CASE family = "Siger" -> ReadIndexer(text)
    [] family \in {"V1", "V2"} -> ReadVersion(family, text)
    [] OTHER -> Typed(family, ReadMatter(text))

\* A version string has no binary form: its terminator is no Base64.
ReadBinary(family, bytes) ==
  CASE family = "Siger" -> ReadIndexerBinary(bytes)
    [] family \in {"V1", "V2"} -> Malformed
    [] OTHER -> Typed(family, FromQualifiedBase2(bytes))

Expected == built[Len(read) + 1].family

Outcome == IF form = "text" THEN ReadText(Expected, wire) ELSE ReadBinary(Expected, wire)

\* Values as a builder leaves them: of the size their code announces.
IsMatter(v) ==
  LET size == Sizage[v.code]
  IN  /\ v = MatterOf(v.code, v.soft, v.raw)
      /\ v.code \in MatterCodes
      /\ v.soft \in Seq(DOMAIN Sextet) /\ Len(v.soft) = SoftSize(v.code)
      /\ v.raw \in Seq(Byte)
      /\ Len(v.raw) = IF size.fs # Variable THEN RawSize(v.code) ELSE 3 * DecodeInt(v.soft) - size.ls

IsIndexer(v) ==
  LET size == Xizage[v.code]
  IN  /\ v = IndexerOf(v.code, v.index, v.ondex, v.raw)
      /\ v.code \in IndexedSigCodes
      /\ v.index \in 0..MaxIndex(v.code)
      /\ IF CurrentOnly(v.code) THEN v.ondex = {}
         ELSE \E ondex \in 0..MaxOndex(v.code) :
                v.ondex = {ondex} /\ (size.os = 0 => ondex = v.index)
      /\ v.raw \in Seq(Byte) /\ Len(v.raw) = size.raw

IsVersion(kind, v) ==
  /\ v.proto \in DOMAIN Protocols /\ v.form \in DOMAIN Kinds /\ v.minor \in Nat /\ v.size \in Nat
  /\ kind = "V1" => v.major \in Nat /\ v \in VersionString(v.proto, v.major, v.minor, v.form, v.size)
  /\ kind = "V2" => v.genus \in Nat /\ v \in VersionStringV2(v.proto, v.minor, v.genus, v.form, v.size)

IsItem(item) ==
  CASE item.family = "Siger" -> IsIndexer(item.value)
    [] item.family \in {"V1", "V2"} -> IsVersion(item.family, item.value)
    [] OTHER -> IsMatter(item.value) /\ item.value.code \in Families[item.family]

\* A message is made of what builders leave, with one version string at most.
ASSUME MessagesAssumption ==
  \A m \in Messages :
    /\ \A i \in DOMAIN m : IsItem(m[i])
    /\ \A i, j \in DOMAIN m : m[i].family \in {"V1", "V2"} /\ m[j].family \in {"V1", "V2"} => i = j

ASSUME ReachAssumption == Reach \in Nat

-----------------------------------------------------------------------------
Init ==
  /\ built = <<>> /\ wire = <<>> /\ form = "text"
  /\ mark = 0 /\ cut = FALSE
  /\ read = <<>> /\ verdict = "Reading"

Fresh == mark = 0 /\ ~cut /\ read = <<>> /\ verdict = "Reading"

Write(item) ==
  /\ Fresh /\ form = "text"
  /\ Append(built, item) \in Messages
  /\ built' = Append(built, item)
  /\ wire' = wire \o Written(item.value)
  /\ UNCHANGED <<form, mark, cut, read, verdict>>

Alter(place, c) ==
  /\ Fresh /\ form = "text"
  /\ wire[place] # c
  /\ wire' = [wire EXCEPT ![place] = c]
  /\ mark' = place
  /\ UNCHANGED <<built, form, cut, read, verdict>>

Cut(length) ==
  /\ Fresh
  /\ wire' = SubSeq(wire, 1, length)
  /\ cut' = TRUE
  /\ UNCHANGED <<built, form, mark, read, verdict>>

ToBinary ==
  /\ verdict = "Reading"
  /\ form = "text" /\ wire # <<>> /\ Decodable(wire)
  /\ form' = "binary"
  /\ wire' = Bytes(wire)
  /\ UNCHANGED <<built, mark, cut, read, verdict>>

ToText ==
  /\ verdict = "Reading"
  /\ form = "binary" /\ wire # <<>> /\ Encodable(wire)
  /\ form' = "text"
  /\ wire' = AllCharacters(wire)
  /\ UNCHANGED <<built, mark, cut, read, verdict>>

Take(outcome) ==
  IF outcome.verdict = "Ok"
  THEN /\ read' = Append(read, [value |-> outcome.value, form |-> form,
                                span |-> SubSeq(wire, 1, outcome.size)])
       /\ wire' = SubSeq(wire, outcome.size + 1, Len(wire))
       /\ UNCHANGED verdict
  ELSE verdict' = outcome.verdict /\ UNCHANGED <<read, wire>>

Read ==
  /\ verdict = "Reading"
  /\ Len(read) < Len(built)
  /\ Take(Outcome)
  /\ UNCHANGED <<built, form, mark, cut>>

Next ==
  \/ \E item \in UNION {Range(m) : m \in Messages} : Write(item)
  \/ \E place \in 1..(IF Len(wire) < Reach THEN Len(wire) ELSE Reach), c \in Marks : Alter(place, c)
  \/ \E length \in 0..(Len(wire) - 1) : Cut(length)
  \/ ToBinary
  \/ ToText
  \/ Read

Spec == Init /\ [][Next]_vars

-----------------------------------------------------------------------------
\* An undamaged stream is never refused and yields the values that were
\* written, in order and in either form.
SoundReadsAsBuilt ==
  mark = 0 =>
    /\ \A i \in DOMAIN read : read[i].value = built[i].value
    /\ ~cut => verdict = "Reading"

\* A stream that merely ends too early is never taken for a malformed one,
\* and never for a complete one: the reader of text asks for more, at
\* whatever character it ends.
CutMeansMore ==
  (cut /\ mark = 0) =>
    /\ Len(read) < Len(built)
    /\ form = "text" => verdict # "Malformed"

\* What a reader accepts is canonical: written again it is the span it was
\* read from, damaged or not. Three readings escape: the pad bits of an
\* indexed signature and the case of hexadecimal digits are not looked at,
\* and a payload may end in a filler.
Filling(reading) == reading.form = "text" /\ Last(reading.span) = Filler

Canonical(reading) ==
  \/ reading.value.kind \in {"Matter", "V2"} /\ ~Filling(reading)
  \/ mark = 0

RewritesAlike ==
  \A i \in DOMAIN read :
    Canonical(read[i]) =>
      read[i].span = IF read[i].form = "text" THEN Written(read[i].value)
                                              ELSE Bytes(Written(read[i].value))

SayTheSame(text, binary) ==
  /\ text.verdict = "Ok" <=> binary.verdict = "Ok"
  /\ text.verdict = "Ok" => /\ binary.value = text.value
                            /\ binary.size * 4 = text.size * 3

\* The two forms say the same: at any point where the rest of the text
\* converts, the reader of text and the reader of binary accept the same
\* value, in proportion, or neither accepts.
FormsAgree ==
  (form = "text" /\ Len(read) < Len(built) /\ Expected \notin {"V1", "V2"} /\ Decodable(wire)) =>
    SayTheSame(ReadText(Expected, wire), ReadBinary(Expected, Bytes(wire)))

\* The place of an item's first character, and the length of its code.
Start(i) ==
  LET start[k \in 1..(Len(built) + 1)] ==
        IF k = 1 THEN 1 ELSE start[k - 1] + Len(Written(built[k - 1].value))
  IN  start[i]

HeadLength(value) ==
  CASE value.kind = "Matter" -> CodeSize(value.code)
    [] value.kind = "Indexer" -> Xizage[value.code].hs + Xizage[value.code].ss
    [] OTHER -> Len(Written(value))

\* Damage stays where it happens: what comes before the damaged primitive is
\* read as built, and when the damage is in its payload it is refused there
\* or is read at its own size, and what follows is read as built.
DamageStaysInside ==
  \A i \in DOMAIN built :
    (mark # 0 /\ mark < Start(i + 1)) /\ mark >= Start(i) =>
      /\ \A j \in DOMAIN read : j < i => read[j].value = built[j].value
      /\ Len(read) < i - 1 => verdict = "Reading"
      /\ mark >= Start(i) + HeadLength(built[i].value) =>
           /\ \A j \in DOMAIN read : j > i => read[j].value = built[j].value
           /\ Len(read) >= i => verdict = "Reading"

\* Whatever was built is read back, in order and in either form, but for what
\* damage struck: it neither spreads nor shifts what is around it.
ReadsAsBuilt == SoundReadsAsBuilt /\ DamageStaysInside

\* The indices a verifier counts are those of keys whose holders signed at
\* them, whatever happened to the stream, and all of them if nothing did; a
\* digest that was read verifies exactly when it is the one that was written.
KeysIn(values) == SelectSeq(values, LAMBDA v : v.kind = "Matter" /\ v.code \in VerKeyCodes)
SignaturesIn(values) == {v \in Range(values) : v.kind = "Indexer"}
DigestsIn(values) == {v \in Range(values) : v.kind = "Matter" /\ v.code \in DigestCodes}

Values(items) == [i \in DOMAIN items |-> items[i].value]

\* The indices at which the holder of the key there signed.
SignedAt(keys, signatures) ==
  {s.index : s \in {s \in signatures :
     \E a \in DOMAIN Algorithms, secret \in Byte :
       /\ s.index + 1 \in DOMAIN keys
       /\ keys[s.index + 1].raw = PublicRaw(a, secret)
       /\ s.raw = SignatureRaw(a, secret, Data)}}

VerifiesAsSigned ==
  LET got == Values(read)
      sent == Values(SubSeq(built, 1, Len(read)))
      counted == VerifyIndexed(KeysIn(got), Data, SignaturesIn(got))
      signed == SignedAt(KeysIn(sent), SignaturesIn(sent))
  IN  /\ counted \subseteq signed
      /\ mark = 0 => counted = signed
      /\ \A d \in DigestsIn(got) : VerifyDigest(d, Data) <=> d \in DigestsIn(sent)
=============================================================================
