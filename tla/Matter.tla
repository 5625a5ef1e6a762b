------------------------------- MODULE Matter -------------------------------
(***************************************************************************)
(* Plain primitives: their codes with the size each announces, and how one *)
(* is built from raw bytes and a soft part, written as text, and read from *)
(* the head of a text or of a binary stream.                               *)
(*                                                                         *)
(* The two forms a primitive has are text, a sequence of characters, and   *)
(* binary, a sequence of bytes, with four characters to three bytes. A     *)
(* character is a string of length one; every character outside the        *)
(* alphabet is as good as another, but for the filler of Base64.           *)
(*                                                                         *)
(* A code is the tuple of its characters. Its size is                      *)
(*   hs  characters of the code itself,                                    *)
(*   ss  characters of the soft part, of which the first                   *)
(*   xs  are a fixed pad,                                                  *)
(*   fs  characters in all, Variable if the soft part says how many,       *)
(*   ls  zero bytes before the raw ones.                                   *)
(* A typed primitive narrows its code to a family.                         *)
(*                                                                         *)
(* What a read yields is a record with a verdict: "Ok", "NeedBytes" when   *)
(* the input ends too early, "Malformed" for every other refusal.          *)
(***************************************************************************)
EXTENDS Naturals, Sequences, Functions, FiniteSets

\* The last character of the alphabet.
Underscore == "_"

\* The URL-safe alphabet: the sextet of a character is its place.
Alphabet ==
  << "A", "B", "C", "D", "E", "F", "G", "H", "I", "J", "K", "L", "M", "N", "O", "P",
     "Q", "R", "S", "T", "U", "V", "W", "X", "Y", "Z", "a", "b", "c", "d", "e", "f",
     "g", "h", "i", "j", "k", "l", "m", "n", "o", "p", "q", "r", "s", "t", "u", "v",
     "w", "x", "y", "z", "0", "1", "2", "3", "4", "5", "6", "7", "8", "9", "-", Underscore >>

Sextet == [c \in Range(Alphabet) |-> (CHOOSE i \in 1..64 : Alphabet[i] = c) - 1]

InAlphabet(text) == \A i \in DOMAIN text : text[i] \in DOMAIN Sextet

Byte == 0..255

CeilDiv(n, d) == (n + d - 1) \div d

(***************************************************************************)
(* Integers, most significant digit first, padded on the left. No field of *)
(* a primitive has more than four digits, so no word overflows.            *)
(***************************************************************************)
MaxDigits == 4

EncodeInt(value, least) ==
  LET needed == CHOOSE w \in 1..MaxDigits :
                  /\ value < 64 ^ w
                  /\ w = 1 \/ 64 ^ (w - 1) <= value
      width == IF needed < least THEN least ELSE needed
  IN  [i \in 1..width |-> Alphabet[((value \div 64 ^ (width - i)) % 64) + 1]]

DecodeInt(text) ==
  LET digit(n) == IF n < Len(text) THEN Sextet[text[Len(text) - n]] ELSE 0
  IN  digit(0) + 64 * digit(1) + 64 ^ 2 * digit(2) + 64 ^ 3 * digit(3)

(***************************************************************************)
(* From characters to bytes and back. A byte takes its eight bits from two *)
(* characters, a character its six from one byte or two; bits beyond the   *)
(* last byte count as zero.                                                *)
(***************************************************************************)
Bytes(text) ==
  [i \in 1..((Len(text) * 3) \div 4) |->
     LET bit == 8 * (i - 1)
         k == (bit \div 6) + 1
     IN  ((Sextet[text[k]] * 64 + Sextet[text[k + 1]]) \div 2 ^ (4 - (bit % 6))) % 256]

Characters(bytes, length) ==
  [i \in 1..length |->
     LET bit == 6 * (i - 1)
         k == (bit \div 8) + 1
         next == IF k < Len(bytes) THEN bytes[k + 1] ELSE 0
     IN  Alphabet[(((bytes[k] * 256 + next) \div 2 ^ (10 - (bit % 8))) % 64) + 1]]

\* A whole stream converts when it is aligned, and a text when it is clean.
Decodable(text) == Len(text) % 4 = 0 /\ InAlphabet(text)

Encodable(bytes) == Len(bytes) % 3 = 0

AllCharacters(bytes) == Characters(bytes, (Len(bytes) * 4) \div 3)

-----------------------------------------------------------------------------
One(last) == {<<c>> : c \in last}
Two(first, last) == {<<first, c>> : c \in last}
Four(first, last) == {<<first, "A", "A", c>> : c \in last}
Test(first, last) == {<<first, Underscore, Underscore, last>>}

Variable == 0

Size(hs, ss, xs, fs, ls) == [hs |-> hs, ss |-> ss, xs |-> xs, fs |-> fs, ls |-> ls]

\* What a variable code holds: Base64 text, bytes, ciphers, a decimal.
Contents == {"A", "B", "C", "D", "E", "F", "H"}

SmallCodes == UNION {Two(first, Contents) : first \in {"4", "5", "6"}}

LargeCodes == UNION {Four(first, Contents) : first \in {"7", "8", "9"}}

\* The sizes, each with the codes that have it.
Sizes ==
  { <<One({"A", "B", "C", "D", "E", "F", "G", "H", "I", "J", "O", "Q", "a"}), Size(1, 0, 0, 44, 0)>>,
    <<One({"K", "L"}), Size(1, 0, 0, 76, 0)>>,  <<One({"M", "W"}), Size(1, 0, 0, 4, 0)>>,
    <<One({"N"}), Size(1, 0, 0, 12, 0)>>,       <<One({"P"}), Size(1, 0, 0, 124, 0)>>,
    <<One({"R"}), Size(1, 0, 0, 8, 0)>>,        <<One({"S"}), Size(1, 0, 0, 16, 0)>>,
    <<One({"T"}), Size(1, 0, 0, 20, 0)>>,       <<One({"U"}), Size(1, 0, 0, 24, 0)>>,
    <<One({"V"}), Size(1, 0, 0, 4, 1)>>,        <<One({"X"}), Size(1, 3, 0, 4, 0)>>,
    <<One({"Y"}), Size(1, 7, 0, 8, 0)>>,        <<One({"Z"}), Size(1, 11, 0, 12, 0)>>,
    <<Two("0", {"A"}), Size(2, 0, 0, 24, 0)>>,  <<Two("0", {"H"}), Size(2, 0, 0, 8, 0)>>,
    <<Two("0", {"B", "C", "D", "E", "F", "G", "I"}), Size(2, 0, 0, 88, 0)>>,
    <<Two("0", {"J"}), Size(2, 2, 1, 4, 0)>>,   <<Two("0", {"K"}), Size(2, 2, 0, 4, 0)>>,
    <<Two("0", {"L"}), Size(2, 6, 1, 8, 0)>>,   <<Two("0", {"M"}), Size(2, 6, 0, 8, 0)>>,
    <<Two("0", {"N"}), Size(2, 10, 1, 12, 0)>>, <<Two("0", {"O"}), Size(2, 10, 0, 12, 0)>>,
    <<Two("0", {"P"}), Size(2, 22, 0, 32, 0)>>, <<Two("0", {"Q"}), Size(2, 22, 0, 28, 0)>>,
    <<Two("0", {"R"}), Size(2, 22, 0, 76, 0)>>, <<Two("0", {"S"}), Size(2, 22, 0, 72, 0)>>,
    <<Four("1", {"A", "B", "I", "J"}), Size(4, 0, 0, 48, 0)>>,
    <<Four("1", {"C", "D"}), Size(4, 0, 0, 80, 0)>>,
    <<Four("1", {"E"}), Size(4, 0, 0, 156, 0)>>, <<Four("1", {"F"}), Size(4, 4, 0, 8, 0)>>,
    <<Four("1", {"G"}), Size(4, 0, 0, 36, 0)>>,  <<Four("1", {"H"}), Size(4, 0, 0, 100, 0)>>,
    <<Four("1", {"K", "L", "M", "O", "P"}), Size(4, 0, 0, 4, 0)>>,
    <<Four("1", {"N"}), Size(4, 8, 0, 12, 0)>>,
    <<Test("1", "-"), Size(4, 2, 0, 12, 0)>>, <<Test("1", Underscore), Size(4, 0, 0, 8, 0)>>,
    <<Test("2", "-"), Size(4, 2, 1, 12, 1)>>, <<Test("2", Underscore), Size(4, 0, 0, 8, 1)>>,
    <<Test("3", "-"), Size(4, 2, 0, 12, 2)>>, <<Test("3", Underscore), Size(4, 0, 0, 8, 2)>> }
  \cup {<<Two(lead[1], Contents), Size(2, 2, 0, Variable, lead[2])>> :
          lead \in {<<"4", 0>>, <<"5", 1>>, <<"6", 2>>}}
  \cup {<<Four(lead[1], Contents), Size(4, 4, 0, Variable, lead[2])>> :
          lead \in {<<"7", 0>>, <<"8", 1>>, <<"9", 2>>}}

MatterCodes == UNION {row[1] : row \in Sizes}

Sizage == [c \in MatterCodes |-> (CHOOSE row \in Sizes : c \in row[1])[2]]

\* The codes a typed primitive may have.
VerKeyCodes == One({"B", "D"}) \cup Four("1", {"A", "B", "C", "D", "I", "J"})
SeedCodes == One({"A", "J", "K", "Q"})
DigestCodes == One({"E", "F", "G", "H", "I"}) \cup Two("0", {"D", "E", "F", "G"})
SignatureCodes == Two("0", {"B", "C", "I"}) \cup Four("1", {"E"})
NumberCodes == One({"M", "N", "R", "S", "T", "U"}) \cup Two("0", {"H"})
VerserCodes == One({"Y"}) \cup Two("0", {"O"})
NoncerCodes == DigestCodes \cup One({"a"}) \cup Two("0", {"A"}) \cup Four("1", {"P"})
TexterCodes == {c \in SmallCodes \cup LargeCodes : c[Len(c)] = "B"}
TagCodes == One({"X", "Y", "Z"}) \cup Two("0", {"J", "K", "L", "M", "N", "O"}) \cup Four("1", {"F", "N"})
LabelerCodes == TagCodes \cup TexterCodes \cup One({"V", "W"}) \cup Four("1", {"P"})
                  \cup {c \in SmallCodes \cup LargeCodes : c[Len(c)] = "A"}
PrefixCodes == VerKeyCodes \cup DigestCodes

-----------------------------------------------------------------------------
NeedBytes == [verdict |-> "NeedBytes"]
Malformed == [verdict |-> "Malformed"]

IfOk(outcome, Go(_)) == IF outcome.verdict = "Ok" THEN Go(outcome) ELSE outcome

MatterOf(code, soft, raw) == [kind |-> "Matter", code |-> code, soft |-> soft, raw |-> raw]

Zeros(n) == [i \in 1..n |-> 0]

CodeChars(size) == size.hs + size.ss

CodeSize(code) == CodeChars(Sizage[code])

\* Raw bytes of a fixed code: what the characters after the code hold,
\* less the lead bytes.
RawSize(code) == ((Sizage[code].fs - CodeSize(code)) * 3) \div 4 - Sizage[code].ls

SoftSize(code) == Sizage[code].ss - Sizage[code].xs

(***************************************************************************)
(* Building. Too much raw or soft is cut to size, too little refused; a    *)
(* variable code is never built. The result is the set of what is built.   *)
(***************************************************************************)
Trimmed(s, n) == SubSeq(s, 1, n)

RawFits(code, raw) == Sizage[code].fs # Variable /\ Len(raw) >= RawSize(code)

SoftFits(code, soft) ==
  /\ Len(soft) >= SoftSize(code)
  /\ InAlphabet(Trimmed(soft, SoftSize(code)))

BuildFromRaw(code, raw) ==
  IF /\ raw # <<>> \/ (Sizage[code].fs # Variable /\ RawSize(code) = 0)
     /\ Sizage[code].ss = 0
     /\ RawFits(code, raw)
  THEN {MatterOf(code, <<>>, Trimmed(raw, RawSize(code)))}
  ELSE {}

BuildFromSoft(code, soft) ==
  IF /\ soft # <<>>
     /\ Sizage[code].ss > 0
     /\ Sizage[code].fs = CodeSize(code)
     /\ SoftFits(code, soft)
  THEN {MatterOf(code, Trimmed(soft, SoftSize(code)), <<>>)}
  ELSE {}

BuildFromBoth(code, raw, soft) ==
  IF /\ raw # <<>> /\ soft # <<>>
     /\ RawFits(code, raw)
     /\ Sizage[code].ss > 0 => SoftFits(code, soft)
  THEN {MatterOf(code, Trimmed(soft, SoftSize(code)), Trimmed(raw, RawSize(code)))}
  ELSE {}

(***************************************************************************)
(* A value of any length takes a variable code whose lead makes its bytes  *)
(* a multiple of three, and a large one when two digits cannot count them. *)
(***************************************************************************)
LeadSize(length) == (3 - (length % 3)) % 3

SmallLeads == <<"4", "5", "6">>
LargeLeads == <<"7", "8", "9">>

\* The code of the same content that counts so many triplets, if one does.
Promote(code, size, lead) ==
  LET Led(leads, rest) == {<<leads[i]>> \o rest : i \in {lead + 1} \cap DOMAIN leads}
  IN  CASE code \in SmallCodes /\ size < 64 ^ 2 -> Led(SmallLeads, Tail(code))
        [] code \in SmallCodes /\ size \in (64 ^ 2)..(64 ^ 4 - 1) -> Led(LargeLeads, <<"A", "A">> \o Tail(code))
        [] code \in LargeCodes /\ size < 64 ^ 4 - 1 -> Led(LargeLeads, Tail(code))
        [] OTHER -> {}

Packed(code, raw) ==
  LET lead == LeadSize(Len(raw))
      size == (Len(raw) + lead) \div 3
  IN  {MatterOf(promoted, EncodeInt(size, Sizage[promoted].ss), raw) :
         promoted \in Promote(code, size, lead)}

(***************************************************************************)
(* Writing. The payload is aligned by zero bytes before it; of what they   *)
(* become, the code and the soft part overwrite all but the lead.          *)
(***************************************************************************)
MatterText(m, size) ==
  LET pad == CodeChars(size) % 4
      payload == AllCharacters(Zeros(size.ls + pad) \o m.raw)
  IN  m.code \o [i \in 1..size.xs |-> Underscore] \o m.soft \o SubSeq(payload, pad + 1, Len(payload))

WriteMatter(m) == MatterText(m, Sizage[m.code])

(***************************************************************************)
(* Reading text. The first character tells how long the code is, the code  *)
(* how long everything is.                                                 *)
(***************************************************************************)
HardSize(c) ==
  CASE c \in DOMAIN Sextet /\ Sextet[c] < 52 -> 1
    [] c \in {"0", "4", "5", "6"} -> 2
    [] c \in {"1", "2", "3", "7", "8", "9"} -> 4
    [] OTHER -> 0

\* A mutant: a code that is not all there yet is taken for an unknown one.
CodeAtStrict(text) ==
  LET code == SubSeq(text, 1, HardSize(text[1]))
  IN  CASE text = <<>> -> NeedBytes
        [] text # <<>> /\ HardSize(text[1]) \notin 1..Len(text) -> Malformed
        [] OTHER -> IF code \in MatterCodes THEN [verdict |-> "Ok", code |-> code] ELSE Malformed

CodeAt(text) ==
  LET hs == HardSize(text[1])
      code == SubSeq(text, 1, hs)
  IN  CASE text = <<>> -> NeedBytes
        [] text # <<>> /\ hs = 0 -> Malformed
        [] text # <<>> /\ hs > Len(text) -> NeedBytes
        [] OTHER -> IF code \in MatterCodes THEN [verdict |-> "Ok", code |-> code] ELSE Malformed

FullSize(size, cs) == size * 4 + cs

\* The size of a primitive whose code is at the head of the text.
FrameSizeOf(size, text) ==
  LET cs == CodeChars(size)
      soft == SubSeq(text, size.hs + size.xs + 1, cs)
  IN  CASE size.fs # Variable -> [verdict |-> "Ok", size |-> size.fs]
        [] size.fs = Variable /\ Len(text) < cs -> NeedBytes
        [] OTHER -> IF InAlphabet(soft)
                    THEN [verdict |-> "Ok", size |-> FullSize(DecodeInt(soft), cs)]
                    ELSE Malformed

MatterFrame(text) ==
  IfOk(CodeAt(text), LAMBDA head : FrameSizeOf(Sizage[head.code], text))

\* A mutant: nobody looks.
LeadUnchecked(bytes, first, last) == TRUE

LeadIsZero(bytes, first, last) == \A i \in first..last : bytes[i] = 0

PadIsZero(byte, pad) == byte % 2 ^ (2 * pad) = 0

AheadOf(pad, lead) == pad + lead

\* The decoder of Base64 takes one or two fillers for the last characters of
\* a payload, and yields as many bytes less, if those would have been zero.
Filler == "="

Fillers(text) ==
  CASE text = <<>> \/ text[Len(text)] # Filler -> 0
    [] OTHER -> IF text[Len(text) - 1] = Filler THEN 2 ELSE 1

Filled(text) == [i \in DOMAIN text |-> IF i > Len(text) - Fillers(text) THEN "A" ELSE text[i]]

\* Pad bits and lead bytes must be zero: together they are the first bytes
\* of the payload once it is aligned with zeros.
MatterIn(code, size, text) ==
  LET cs == CodeChars(size)
      pad == cs % 4
      payload == [i \in 1..pad |-> "A"] \o SubSeq(text, cs + 1, Len(text))
      whole == Bytes(Filled(payload))
      bytes == SubSeq(whole, 1, Len(whole) - Fillers(payload))
      ahead == AheadOf(pad, size.ls)
      Spare == \A i \in Len(bytes) + 1..Len(whole) : whole[i] = 0
      PadBits == pad = 0 \/ PadIsZero(bytes[pad], pad)
      LeadBytes == Len(bytes) >= ahead /\ LeadIsZero(bytes, pad + 1, ahead)
      XtraPad == \A i \in 1..size.xs : text[size.hs + i] = Underscore
  IN  IF XtraPad /\ InAlphabet(Filled(payload)) /\ Spare /\ LeadBytes /\ PadBits
      THEN [verdict |-> "Ok", size |-> Len(text),
            value |-> MatterOf(code, SubSeq(text, size.hs + size.xs + 1, cs),
                               SubSeq(bytes, ahead + 1, Len(bytes)))]
      ELSE Malformed

FromQualifiedBase64(text) ==
  IfOk(CodeAt(text), LAMBDA head : MatterIn(head.code, Sizage[head.code], text))

ReadMatter(text) ==
  IfOk(MatterFrame(text), LAMBDA frame :
    IF frame.size > Len(text) THEN NeedBytes
    ELSE FromQualifiedBase64(SubSeq(text, 1, frame.size)))

(***************************************************************************)
(* Reading binary. The code and the soft part are turned into characters   *)
(* again; the pad bits are the last ones of their last byte.               *)
(***************************************************************************)
\* A mutant: the sextets of the codes of four are off by one.
HardSizeOfSextetShifted(s) ==
  CASE s \in 0..51 -> 1
    [] s \in {52, 57, 58, 59} -> 2
    [] s \in {53, 54, 55, 56, 60, 61} -> 4
    [] OTHER -> 0

HardSizeOfSextet(s) ==
  CASE s \in 0..51 -> 1
    [] s \in {52, 56, 57, 58} -> 2
    [] s \in {53, 54, 55, 59, 60, 61} -> 4
    [] OTHER -> 0

BytesFor(chars) == CeilDiv(chars * 3, 4)

CodeIn(bytes) ==
  LET hs == HardSizeOfSextet(bytes[1] \div 4)
      code == Characters(bytes, hs)
  IN  CASE bytes = <<>> -> NeedBytes
        [] bytes # <<>> /\ hs = 0 -> Malformed
        [] bytes # <<>> /\ BytesFor(hs) > Len(bytes) -> NeedBytes
        [] OTHER -> IF code \in MatterCodes THEN [verdict |-> "Ok", code |-> code] ELSE Malformed

BinaryPayload(code, size, bytes) ==
  LET cs == CodeChars(size)
      text == Characters(bytes, cs)
      soft == SubSeq(text, size.hs + size.xs + 1, cs)
      full == BytesFor(IF size.fs = Variable THEN FullSize(DecodeInt(soft), cs) ELSE size.fs)
      ahead == AheadOf(BytesFor(cs), size.ls)
      pad == cs % 4
      XtraPad == \A i \in 1..size.xs : text[size.hs + i] = Underscore
      PadBits == PadIsZero(bytes[BytesFor(cs)], pad)
      LeadBytes == LeadIsZero(bytes, BytesFor(cs) + 1, ahead)
  IN  IF XtraPad /\ full <= Len(bytes) /\ ahead <= full /\ PadBits /\ LeadBytes
      THEN [verdict |-> "Ok", size |-> full,
            value |-> MatterOf(code, soft, SubSeq(bytes, ahead + 1, full))]
      ELSE Malformed

FromQualifiedBase2(bytes) ==
  IfOk(CodeIn(bytes), LAMBDA head :
    IF BytesFor(CodeSize(head.code)) > Len(bytes) THEN NeedBytes
    ELSE BinaryPayload(head.code, Sizage[head.code], bytes))

(***************************************************************************)
(* A typed read narrows the code, and a number is its bytes' value.        *)
(***************************************************************************)
Families ==
  [Matter |-> MatterCodes, Verfer |-> VerKeyCodes, Diger |-> DigestCodes,
   Cigar |-> SignatureCodes, Verser |-> VerserCodes, Noncer |-> NoncerCodes,
   Labeler |-> LabelerCodes, Texter |-> TexterCodes, Number |-> NumberCodes,
   Prefix |-> PrefixCodes, Salt |-> Two("0", {"A"})]

Typed(family, outcome) ==
  IF outcome.verdict = "Ok" /\ outcome.value.code \notin Families[family]
  THEN Malformed
  ELSE outcome
=============================================================================
