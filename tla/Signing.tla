------------------------------- MODULE Signing -------------------------------
(***************************************************************************)
(* Keys, signatures and digests as primitives: indexed signatures and      *)
(* their codes, which codes an algorithm owns, what a signer builds, and   *)
(* what a verifier accepts.                                                *)
(*                                                                         *)
(* In an indexed signature the signer's place in the current list of keys, *)
(* and in the list it committed to before, stand in the code: of the ss    *)
(* soft characters the last os hold the second place, the ondex. Every     *)
(* size is fixed, and no code has lead bytes.                              *)
(*                                                                         *)
(* The curves and the hash functions are outside. A raw value carries the  *)
(* marks of what made it, so two are equal exactly when the same secret    *)
(* and the same data went into the same algorithm.                         *)
(***************************************************************************)
EXTENDS Matter

Xizage256 == [hs |-> 1, ss |-> 1, os |-> 0, fs |-> 88, raw |-> 64]
Xizage256Big == [hs |-> 2, ss |-> 4, os |-> 2, fs |-> 92, raw |-> 64]
Xizage448 == [hs |-> 2, ss |-> 2, os |-> 1, fs |-> 156, raw |-> 114]
Xizage448Big == [hs |-> 2, ss |-> 6, os |-> 3, fs |-> 160, raw |-> 114]

Letters256 == {"A", "B", "C", "D", "E", "F"}
Letters448 == {"A", "B"}

IndexedSigCodes ==
  One(Letters256) \cup Two("0", Letters448) \cup Two("2", Letters256) \cup Two("3", Letters448)

Xizage ==
  [c \in IndexedSigCodes |->
     CASE c \in One(Letters256) -> Xizage256
       [] c \in Two("2", Letters256) -> Xizage256Big
       [] c \in Two("0", Letters448) -> Xizage448
       [] c \in Two("3", Letters448) -> Xizage448Big]

\* The codes that know the current list alone.
CurrentOnly(code) == code[Len(code)] \in {"B", "D", "F"}

IsBig(code) == code[1] \in {"2", "3"}

MaxIndex(code) == 64 ^ (Xizage[code].ss - Xizage[code].os) - 1
MaxOndex(code) == IF Xizage[code].os = 0 THEN MaxIndex(code) ELSE 64 ^ Xizage[code].os - 1

\* A place too far for the small code takes the big one.
ForIndex(code, index) ==
  CASE IsBig(code) \/ index <= MaxIndex(code) -> code
    [] ~IsBig(code) /\ index > MaxIndex(code) /\ Len(code) = 1 -> <<"2", code[1]>>
    [] ~IsBig(code) /\ index > MaxIndex(code) /\ Len(code) = 2 -> <<"3", code[2]>>

(***************************************************************************)
(* Building. The set of what is built: empty where the builder refuses.    *)
(* The ondex is a set too, empty for the codes that have none.             *)
(***************************************************************************)
IndexerOf(code, index, ondex, raw) ==
  [kind |-> "Indexer", code |-> code, index |-> index, ondex |-> ondex, raw |-> raw]

IndexerWithIndex(code, index, raw) ==
  IF index <= MaxIndex(code) /\ Len(raw) = Xizage[code].raw
  THEN {IndexerOf(code, index, IF CurrentOnly(code) THEN {} ELSE {index}, raw)}
  ELSE {}

IndexerWithIndices(code, index, ondex, raw) ==
  IF /\ ~CurrentOnly(code)
     /\ index <= MaxIndex(code)
     /\ ondex <= MaxOndex(code)
     /\ Xizage[code].os = 0 => ondex = index
     /\ Len(raw) = Xizage[code].raw
  THEN {IndexerOf(code, index, {ondex}, raw)}
  ELSE {}

\* A signer takes the small code of its algorithm and lets the index choose.
SignIndexed(code, index, raw) == IndexerWithIndex(ForIndex(code, index), index, raw)

(***************************************************************************)
(* Writing.                                                                *)
(***************************************************************************)
\* A mutant: the least significant digit first.
DigitsReversed(value, width) ==
  [i \in 1..width |-> Alphabet[((value \div 64 ^ (i - 1)) % 64) + 1]]

Digits(value, width) ==
  [i \in 1..width |-> Alphabet[((value \div 64 ^ (width - i)) % 64) + 1]]

WriteIndexer(m) ==
  LET size == Xizage[m.code]
      pad == LeadSize(Len(m.raw))
      payload == AllCharacters(Zeros(pad) \o m.raw)
      ondex == IF m.ondex = {} THEN 0 ELSE CHOOSE n \in m.ondex : TRUE
  IN  m.code \o Digits(m.index, size.ss - size.os) \o Digits(ondex, size.os)
        \o SubSeq(payload, pad + 1, Len(payload))

(***************************************************************************)
(* Reading. The pad bits before the signature are dropped unseen.          *)
(***************************************************************************)
IndexHardSize(c) ==
  CASE c \in DOMAIN Sextet /\ Sextet[c] < 52 -> 1
    [] c \in {"0", "1", "2", "3", "4"} -> 2
    [] OTHER -> 0

IndexedCodeAt(text) ==
  LET hs == IndexHardSize(text[1])
      code == SubSeq(text, 1, hs)
  IN  CASE text = <<>> -> NeedBytes
        [] text # <<>> /\ hs = 0 -> Malformed
        [] text # <<>> /\ hs > Len(text) -> NeedBytes
        [] OTHER -> IF code \in IndexedSigCodes THEN [verdict |-> "Ok", code |-> code] ELSE Malformed

IndexerAt(code, size, text) ==
  LET cs == size.hs + size.ss
      index == SubSeq(text, size.hs + 1, cs - size.os)
      second == SubSeq(text, cs - size.os + 1, cs)
      payload == [i \in 1..(cs % 4) |-> "A"] \o SubSeq(text, cs + 1, size.fs)
      bytes == Bytes(payload)
      ondex == CASE CurrentOnly(code) -> {}
                 [] ~CurrentOnly(code) /\ size.os > 0 -> {DecodeInt(second)}
                 [] OTHER -> {DecodeInt(index)}
      OndexIsZero == CurrentOnly(code) => DecodeInt(second) = 0
  IN  CASE ~InAlphabet(index \o second) \/ ~OndexIsZero -> Malformed
        [] InAlphabet(index \o second) /\ OndexIsZero /\ Len(text) < size.fs -> NeedBytes
        [] OTHER -> IF InAlphabet(payload)
                    THEN [verdict |-> "Ok", size |-> size.fs,
                          value |-> IndexerOf(code, DecodeInt(index), ondex,
                                              SubSeq(bytes, (cs % 4) + 1, Len(bytes)))]
                    ELSE Malformed

ReadIndexer(text) ==
  IfOk(IndexedCodeAt(text), LAMBDA head :
    IF Len(text) < CodeChars(Xizage[head.code]) THEN NeedBytes
    ELSE IndexerAt(head.code, Xizage[head.code], text))

\* Binary is turned into text, as much as the code announces, and read there.
IndexHardSizeOfSextet(s) ==
  CASE s \in 0..51 -> 1
    [] s \in 52..56 -> 2
    [] OTHER -> 0

IndexedCodeIn(bytes) ==
  LET hs == IndexHardSizeOfSextet(bytes[1] \div 4)
      code == Characters(bytes, hs)
  IN  CASE bytes = <<>> -> NeedBytes
        [] bytes # <<>> /\ hs = 0 -> Malformed
        [] bytes # <<>> /\ BytesFor(hs) > Len(bytes) -> NeedBytes
        [] OTHER -> IF code \in IndexedSigCodes THEN [verdict |-> "Ok", code |-> code] ELSE Malformed

ReadIndexerBinary(bytes) ==
  IfOk(IndexedCodeIn(bytes), LAMBDA head :
    LET full == (Xizage[head.code].fs * 3) \div 4
    IN  IF full > Len(bytes) THEN NeedBytes
        ELSE IfOk(ReadIndexer(AllCharacters(SubSeq(bytes, 1, full))), LAMBDA read :
               [read EXCEPT !.size = full]))

-----------------------------------------------------------------------------
\* A raw value of n bytes that shows its marks.
Stamp(marks, n) == [i \in 1..n |-> IF i <= Len(marks) THEN marks[i] ELSE 170]

Algorithms ==
  [Ed25519   |-> [verkeys |-> {<<"D">>, <<"B">>}, signature |-> <<"0", "B">>,
                  both |-> <<"A">>, current |-> <<"B">>, key |-> 32, mark |-> 201],
   Secp256k1 |-> [verkeys |-> {<<"1", "A", "A", "B">>, <<"1", "A", "A", "A">>},
                  signature |-> <<"0", "C">>,
                  both |-> <<"C">>, current |-> <<"D">>, key |-> 33, mark |-> 202],
   Secp256r1 |-> [verkeys |-> {<<"1", "A", "A", "J">>, <<"1", "A", "A", "I">>},
                  signature |-> <<"0", "I">>,
                  both |-> <<"E">>, current |-> <<"F">>, key |-> 33, mark |-> 203]]

Big(code) == <<"2", code[1]>>

\* A mutant: the big codes are forgotten.
OwnedIndexedSmall(a) == {Algorithms[a].both, Algorithms[a].current}

OwnedIndexed(a) ==
  LET both == Algorithms[a].both
      current == Algorithms[a].current
  IN  {both, current, Big(both), Big(current)}

(***************************************************************************)
(* What the curves and the hash functions give.                            *)
(***************************************************************************)
PublicRaw(a, secret) == Stamp(<<Algorithms[a].mark, secret>>, Algorithms[a].key)

SignatureRaw(a, secret, data) == Stamp(<<Algorithms[a].mark, secret, data>>, 64)

\* The signature fits the key when one secret made both.
VerifyBytes(a, key, data, raw) ==
  \E secret \in Byte : key = PublicRaw(a, secret) /\ raw = SignatureRaw(a, secret, data)

DigestRaw(code, data) ==
  Stamp(<<230 + Sextet[code[Len(code)]], data>>, RawSize(code))

(***************************************************************************)
(* What a holder of a secret builds.                                       *)
(***************************************************************************)
KeyOf(a, code, secret) == BuildFromRaw(code, PublicRaw(a, secret))

Sign(a, secret, data) == BuildFromRaw(Algorithms[a].signature, SignatureRaw(a, secret, data))

SignAt(a, secret, data, index, mode) ==
  SignIndexed(IF mode = "Both" THEN Algorithms[a].both ELSE Algorithms[a].current,
              index, SignatureRaw(a, secret, data))

DigestOf(code, data) == BuildFromRaw(code, DigestRaw(code, data))

(***************************************************************************)
(* What a verifier accepts. The key's code says which algorithm, and the   *)
(* signature's code must be one of that algorithm's. There is no verifier  *)
(* for Ed448.                                                              *)
(***************************************************************************)
BelongsTo(a, signature) ==
  IF signature.kind = "Indexer" THEN signature.code \in OwnedIndexed(a)
                                ELSE signature.code = Algorithms[a].signature

Verify(verfer, data, signature) ==
  \E a \in DOMAIN Algorithms :
    /\ verfer.code \in Algorithms[a].verkeys
    /\ BelongsTo(a, signature)
    /\ VerifyBytes(a, verfer.raw, data, signature.raw)

\* Of an indexed signature, the key it addresses; the indices that hold.
VerifyIndexed(keys, data, signatures) ==
  {s.index : s \in {s \in signatures :
                      s.index + 1 \in DOMAIN keys /\ Verify(keys[s.index + 1], data, s)}}

\* A digest commits to the data its own algorithm makes it from.
VerifyDigest(diger, data) == diger.raw = DigestRaw(diger.code, data)
=============================================================================
