--------------------------- MODULE Primitives_proofs ---------------------------
(***************************************************************************)
(* Theorems about Primitives, in two parts. Of its operators, for every    *)
(* value and every text: indexed signatures and version strings are read   *)
(* from their own span, and what is written is read back. Of the stream,   *)
(* for every message that may be built and however it is damaged, cut and  *)
(* converted: what an undamaged stream holds is at every moment the end of *)
(* the text that was built, so it is read as built and never taken for     *)
(* complete or malformed when it only ends too early; damage neither       *)
(* spreads nor shifts what is around it; what is accepted is canonical;    *)
(* and both forms say the same.                                            *)
(***************************************************************************)
EXTENDS Primitives, Matter_proofs, WellFoundedInduction

-----------------------------------------------------------------------------
(* Reading text and reading binary come to the same.                       *)

(* The span a code announces, read from either form.                       *)
LEMMA SpansAgree ==
  ASSUME NEW code, NEW size, SizeFits(size),
         NEW text \in Seq(DOMAIN Sextet), NEW M \in Nat, Len(text) = 4 * M,
         NEW full \in Nat, full <= 4 * M, full % 4 = 0, full = FullOf(size, text),
         NEW cs \in Nat, cs = CodeChars(size), cs <= full
  PROVE  SayTheSame(MatterIn(code, size, SubSeq(text, 1, full)), BinaryPayload(code, size, Bytes(text)))
<1> DEFINE hs == size.hs
           xs == size.xs
           ls == size.ls
           pad == cs % 4
           k == cs \div 4
           N == (full \div 4) - k
           span == SubSeq(text, 1, full)
           head == SubSeq(text, 1, cs)
           bytes == Bytes(text)
           payload == PayloadOf(size, span)
           part == Bytes(payload)
           letters == DOMAIN Sextet
           soft == SoftOf(size, text)
<1>1. /\ hs \in {1, 2, 4} /\ xs \in Nat /\ ls \in 0..2 /\ hs + xs <= cs
      /\ hs + xs + 1 \in Nat \ {0}
  BY SMTT(30) DEF SizeFits, CodeChars
<1>2. /\ pad \in 0..3 /\ k \in Nat /\ N \in Nat
      /\ cs = 4 * k + pad /\ full = 4 * (k + N)
      /\ cs - pad = 4 * k /\ pad + (full - cs) = 4 * N
      /\ pad > 0 => N > 0
      /\ BytesFor(cs) = 3 * k + pad
      /\ BytesFor(full) = 3 * (k + N)
  <2> HIDE DEF pad, k, N
  <2>1. pad = cs % 4 /\ k = cs \div 4 /\ N = (full \div 4) - k
    BY DEF pad, k, N
  <2>2. Quartered(cs, full, pad, k, N)
    BY <2>1, Quarters, Zenon
  <2> QED
    BY <2>2 DEF Quartered
<1>3. k + N <= M
  <2> HIDE DEF k, N
  <2> QED
    BY <1>2
<1>4. text \in Seq(letters) /\ full \in 0..Len(text) /\ cs \in 0..full /\ cs \in 0..Len(text)
  OBVIOUS
<1> HIDE DEF letters
<1>5. span \in Seq(letters) /\ Len(span) = full /\ \A i \in 1..full : span[i] = text[i]
  <2>1. full - 1 + 1 = full /\ 1 <= full + 1 /\ \A i \in 1..full : 1 + i - 1 = i
    OBVIOUS
  <2>2. full <= Len(text)
    OBVIOUS
  <2> HIDE DEF span
  <2>3. span = SubSeq(text, 1, full)
    BY DEF span
  <2> QED
    BY <1>4, <2>1, <2>2, <2>3, PartOf
<1>6. head \in Seq(letters) /\ Len(head) = cs /\ \A i \in 1..cs : head[i] = text[i]
  <2>1. cs - 1 + 1 = cs /\ 1 <= cs + 1 /\ \A i \in 1..cs : 1 + i - 1 = i
    OBVIOUS
  <2>2. cs <= Len(text)
    OBVIOUS
  <2> HIDE DEF head
  <2>3. head = SubSeq(text, 1, cs)
    BY DEF head
  <2> QED
    BY <1>4, <2>1, <2>2, <2>3, PartOf
<1>7. Characters(bytes, cs) = head
  <2>1. cs \in 0..(4 * M)
    OBVIOUS
  <2> QED
    BY <2>1, CharactersReturn
<1>8. bytes \in Seq(Byte) /\ Len(bytes) = 3 * M
  BY BytesOfText
<1> HIDE DEF span, head, bytes, pad, k, N, hs, xs, ls
<1>9. /\ payload \in Seq(letters) /\ Len(payload) = 4 * N
      /\ \A j \in (pad + 1)..(4 * N) : payload[j] = text[4 * k + j]
  <2>1. cs <= Len(span) /\ letters \subseteq letters
    BY <1>5
  <2>2. pad = cs % 4
    BY DEF pad
  <2>3. Aligns(payload, letters, span, cs, pad)
    BY <1>2, <1>5, <2>1, <2>2, PayloadIs DEF letters
  <2> HIDE DEF payload
  <2>4. /\ payload \in Seq(letters) /\ Len(payload) = pad + (full - cs)
        /\ \A j \in (pad + 1)..(pad + (full - cs)) : payload[j] = span[(cs - pad) + j]
    BY <1>5, <2>3 DEF Aligns
  <2>5. ASSUME NEW j \in (pad + 1)..(4 * N)
        PROVE  payload[j] = text[4 * k + j]
    <3>1. j \in (pad + 1)..(pad + (full - cs)) /\ (cs - pad) + j = 4 * k + j
      BY <1>2
    <3>2. 4 * k + j \in 1..full
      BY <1>2
    <3> QED
      BY <1>5, <2>4, <3>1, <3>2
  <2> QED
    BY <1>2, <2>4, <2>5
<1> HIDE DEF payload
<1>10. /\ part \in Seq(Byte) /\ Len(part) = 3 * N
       /\ \A j \in (pad + 1)..(3 * N) : part[j] = bytes[3 * k + j]
       /\ pad > 0 => (PadIsZero(part[pad], pad) <=> PadIsZero(bytes[3 * k + pad], pad))
  <2>1. payload \in Seq(DOMAIN Sextet)
    BY <1>9 DEF letters
  <2>2. part \in Seq(Byte) /\ Len(part) = 3 * N
    BY <1>2, <1>9, <2>1, BytesOfText
  <2>3. /\ \A j \in (pad + 1)..(3 * N) : part[j] = bytes[3 * k + j]
        /\ N > 0 /\ pad > 0 => (PadIsZero(part[pad], pad) <=> PadIsZero(bytes[3 * k + pad], pad))
    <3>1. Shifted(part, bytes, pad, k, N)
      BY <1>2, <1>3, <1>9, <2>1, BytesShift, Zenon DEF bytes
    <3> HIDE DEF part
    <3> QED
      BY <3>1 DEF Shifted
  <2> QED
    BY <1>2, <2>2, <2>3
<1>11. SubSeq(head, hs + xs + 1, cs) = soft /\ SubSeq(span, hs + xs + 1, cs) = soft
  <2>1. soft = SubSeq(text, hs + xs + 1, cs)
    BY DEF SoftOf, hs, xs
  <2>2. hs + xs + 1 <= cs + 1 /\ cs \in 0..cs
    BY <1>1
  <2>3. SubSeq(head, hs + xs + 1, cs) = SubSeq(text, hs + xs + 1, cs)
    BY <1>1, <1>4, <2>2, PartOfHead DEF head
  <2>4. SubSeq(span, hs + xs + 1, cs) = SubSeq(text, hs + xs + 1, cs)
    BY <1>1, <1>4, <2>2, PartOfHead DEF span
  <2> QED
    BY <2>1, <2>3, <2>4
<1> HIDE DEF soft
<1> DEFINE TextFits == /\ \A i \in 1..xs : span[hs + i] = Underscore
                       /\ Len(part) >= pad + ls
                       /\ LeadIsZero(part, pad + 1, pad + ls)
                       /\ pad = 0 \/ PadIsZero(part[pad], pad)
           TextValue == MatterOf(code, soft, SubSeq(part, pad + ls + 1, Len(part)))
           ahead == 3 * k + pad + ls
           BinaryFits == /\ \A i \in 1..xs : head[hs + i] = Underscore
                         /\ 3 * (k + N) <= Len(bytes)
                         /\ ahead <= 3 * (k + N)
                         /\ PadIsZero(bytes[3 * k + pad], pad)
                         /\ LeadIsZero(bytes, 3 * k + pad + 1, ahead)
           BinaryValue == MatterOf(code, soft, SubSeq(bytes, ahead + 1, 3 * (k + N)))
<1>12. MatterIn(code, size, span) =
         IF TextFits THEN [verdict |-> "Ok", size |-> full, value |-> TextValue] ELSE Malformed
  <2>1. cs <= Len(span) /\ PayloadOf(size, span) \in Seq(DOMAIN Sextet)
    BY <1>5, <1>9 DEF payload, letters
  <2>2. MatterIn(code, size, span) =
          IF /\ \A i \in 1..size.xs : span[size.hs + i] = Underscore
             /\ Len(Bytes(PayloadOf(size, span))) >= (CodeChars(size) % 4) + size.ls
             /\ LeadIsZero(Bytes(PayloadOf(size, span)), (CodeChars(size) % 4) + 1, (CodeChars(size) % 4) + size.ls)
             /\ (CodeChars(size) % 4) = 0 \/ PadIsZero(Bytes(PayloadOf(size, span))[(CodeChars(size) % 4)], (CodeChars(size) % 4))
          THEN [verdict |-> "Ok", size |-> Len(span),
                value |-> MatterOf(code, SubSeq(span, size.hs + size.xs + 1, CodeChars(size)),
                                   SubSeq(Bytes(PayloadOf(size, span)), (CodeChars(size) % 4) + size.ls + 1,
                                          Len(Bytes(PayloadOf(size, span)))))]
          ELSE Malformed
    BY <1>5, <2>1, CleanSpanReads, Zenon
  <2>3. /\ size.xs = xs /\ size.hs = hs /\ size.ls = ls /\ CodeChars(size) = cs /\ cs % 4 = pad
        /\ PayloadOf(size, span) = payload
    BY DEF xs, hs, ls, pad, payload
  <2> HIDE DEF part
  <2>4. Bytes(payload) = part
    BY DEF part
  <2> QED
    BY <1>5, <1>11, <2>2, <2>3, <2>4, Zenon
<1>13. BinaryPayload(code, size, bytes) =
         IF BinaryFits THEN [verdict |-> "Ok", size |-> 3 * (k + N), value |-> BinaryValue] ELSE Malformed
  <2>1. /\ size.xs = xs /\ size.hs = hs /\ size.ls = ls /\ CodeChars(size) = cs /\ cs % 4 = pad
    BY DEF xs, hs, ls, pad
  <2>2. full = IF size.fs = Variable THEN FullSize(DecodeInt(soft), cs) ELSE size.fs
    BY DEF FullOf, soft
  <2>3. SubSeq(Characters(bytes, CodeChars(size)), size.hs + size.xs + 1, CodeChars(size)) = soft
    BY <1>7, <1>11, <2>1
  <2>4. AheadOf(BytesFor(cs), ls) = ahead /\ BytesFor(cs) + 1 = 3 * k + pad + 1
    BY <1>1, <1>2 DEF AheadOf
  <2> HIDE DEF ahead
  <2> QED
    BY <1>2, <1>7, <2>1, <2>2, <2>3, <2>4 DEF BinaryPayload
<1> HIDE DEF part
<1>14. TextFits <=> BinaryFits
  <2>1. (\A i \in 1..xs : span[hs + i] = Underscore) <=> (\A i \in 1..xs : head[hs + i] = Underscore)
    <3>1. \A i \in 1..xs : hs + i \in 1..cs /\ hs + i \in 1..full
      BY <1>1, <1>4
    <3> QED
      BY <1>5, <1>6, <3>1
  <2>2. Len(part) >= pad + ls <=> ahead <= 3 * (k + N)
    BY <1>1, <1>2, <1>10
  <2>3. 3 * (k + N) <= Len(bytes)
    BY <1>2, <1>3, <1>8
  <2>4. ASSUME Len(part) >= pad + ls
        PROVE  LeadIsZero(part, pad + 1, pad + ls) <=> LeadIsZero(bytes, 3 * k + pad + 1, ahead)
    <3>1. ASSUME NEW i \in (pad + 1)..(pad + ls)
          PROVE  3 * k + i \in (3 * k + pad + 1)..ahead /\ part[i] = bytes[3 * k + i]
      <4>1. i \in (pad + 1)..(3 * N)
        BY <1>1, <1>2, <1>10, <2>4
      <4>2. 3 * k + i \in (3 * k + pad + 1)..ahead
        BY <1>1, <1>2
      <4> QED
        BY <1>10, <4>1, <4>2
    <3>2. ASSUME NEW i \in (3 * k + pad + 1)..ahead
          PROVE  i - 3 * k \in (pad + 1)..(pad + ls) /\ part[i - 3 * k] = bytes[i]
      <4>1. i - 3 * k \in (pad + 1)..(pad + ls) /\ 3 * k + (i - 3 * k) = i
        BY <1>1, <1>2
      <4> QED
        BY <3>1, <4>1
    <3> QED
      BY <3>1, <3>2 DEF LeadIsZero
  <2>5. (pad = 0 \/ PadIsZero(part[pad], pad)) <=> PadIsZero(bytes[3 * k + pad], pad)
    <3>1. CASE pad = 0
      <4>1. 3 * k + pad \in 1..(3 * M)
        BY <1>1, <1>2, <1>3, <1>4, <3>1
      <4>2. bytes[3 * k + pad] \in Byte
        BY <1>8, <4>1
      <4>3. \A b \in Byte : PadIsZero(b, 0)
        BY DEF Byte, PadIsZero
      <4> QED
        BY <3>1, <4>2, <4>3
    <3>2. CASE pad # 0
      BY <1>2, <1>10, <3>2
    <3> QED
      BY <3>1, <3>2
  <2> HIDE DEF ahead
  <2> QED
    BY <2>1, <2>2, <2>3, <2>4, <2>5
<1>15. ASSUME TextFits
       PROVE  SubSeq(part, pad + ls + 1, Len(part)) = SubSeq(bytes, ahead + 1, 3 * (k + N))
  <2> DEFINE a == SubSeq(part, pad + ls + 1, Len(part))
             b == SubSeq(bytes, ahead + 1, 3 * (k + N))
             n == (3 * N) - (pad + ls)
  <2>1. n \in Nat /\ pad + ls + 1 \in Nat \ {0} /\ ahead + 1 \in Nat \ {0} /\ Len(part) \in Nat
        /\ pad + ls + 1 <= Len(part) + 1 /\ ahead + 1 <= 3 * (k + N) + 1 /\ 3 * (k + N) \in Nat
        /\ 3 * (k + N) <= Len(bytes)
        /\ Len(part) - (pad + ls + 1) + 1 = n /\ 3 * (k + N) - (ahead + 1) + 1 = n
    BY <1>1, <1>2, <1>3, <1>8, <1>10, <1>15
  <2>2. a \in Seq(Byte) /\ Len(a) = n /\ \A i \in 1..n : a[i] = part[(pad + ls + 1) + i - 1]
    <3> DEFINE first == pad + ls + 1
               last == Len(part)
    <3>1. first \in Nat \ {0} /\ last \in Nat /\ last <= Len(part) /\ first <= last + 1 /\ last - first + 1 = n
      BY <2>1
    <3> HIDE DEF first, last, n
    <3>2. a = SubSeq(part, first, last)
      BY DEF first, last
    <3> HIDE DEF a
    <3>3. a \in Seq(Byte) /\ Len(a) = last - first + 1 /\ \A i \in 1..(last - first + 1) : a[i] = part[first + i - 1]
      BY <1>10, <3>1, <3>2, PartOf, SMTT(30)
    <3> QED
      BY <3>1, <3>3 DEF first
  <2>3. b \in Seq(Byte) /\ Len(b) = n /\ \A i \in 1..n : b[i] = bytes[(ahead + 1) + i - 1]
    <3> DEFINE first == ahead + 1
               last == 3 * (k + N)
    <3>1. first \in Nat \ {0} /\ last \in Nat /\ last <= Len(bytes) /\ first <= last + 1 /\ last - first + 1 = n
      BY <2>1
    <3> HIDE DEF first, last, n
    <3>2. b = SubSeq(bytes, first, last)
      BY DEF first, last
    <3> HIDE DEF b
    <3>3. b \in Seq(Byte) /\ Len(b) = last - first + 1 /\ \A i \in 1..(last - first + 1) : b[i] = bytes[first + i - 1]
      BY <1>8, <3>1, <3>2, PartOf
    <3> QED
      BY <3>1, <3>3 DEF first
  <2> HIDE DEF a, b
  <2>4. ASSUME NEW i \in 1..n
        PROVE  a[i] = b[i]
    <3> DEFINE j == (pad + ls) + i
    <3>1. j \in (pad + 1)..(3 * N) /\ (pad + ls + 1) + i - 1 = j /\ (ahead + 1) + i - 1 = 3 * k + j
      BY <1>1, <1>2
    <3> HIDE DEF j, n
    <3> QED
      BY <1>10, <2>2, <2>3, <3>1
  <2> HIDE DEF n
  <2>5. a = b
    <3>1. Len(a) = Len(b) /\ \A i \in 1..Len(a) : a[i] = b[i]
      BY <2>2, <2>3, <2>4
    <3> QED
      BY <2>2, <2>3, <3>1, SameSequence, Zenon
  <2> QED
    BY <2>5 DEF a, b
<1> HIDE DEF ahead
<1>16. TextFits => TextValue = BinaryValue
  BY <1>15
<1>17. (3 * (k + N)) * 4 = full * 3
  BY <1>2
<1>18. Malformed.verdict # "Ok"
  BY DEF Malformed
<1> HIDE DEF TextFits, BinaryFits, TextValue, BinaryValue
<1>19. CASE TextFits
  <2> DEFINE whole == 3 * (k + N)
  <2>1. /\ MatterIn(code, size, span) = [verdict |-> "Ok", size |-> full, value |-> TextValue]
        /\ BinaryPayload(code, size, bytes) = [verdict |-> "Ok", size |-> whole, value |-> TextValue]
        /\ whole * 4 = full * 3
    BY <1>12, <1>13, <1>14, <1>16, <1>17, <1>19
  <2> HIDE DEF whole
  <2> QED
    BY <2>1 DEF SayTheSame, span, bytes
<1>20. CASE ~TextFits
  <2>1. MatterIn(code, size, span) = Malformed /\ BinaryPayload(code, size, bytes) = Malformed
    BY <1>12, <1>13, <1>14, <1>20
  <2> QED
    BY <1>18, <2>1 DEF SayTheSame, span, bytes
<1> QED
  BY <1>19, <1>20

(* A primitive is read from text as it is read from the binary that text   *)
(* becomes, or from neither (parse.rs).                                    *)
THEOREM MatterFormsAgree ==
  ASSUME NEW text \in Seq(DOMAIN Sextet), NEW M \in Nat, Len(text) = 4 * M
  PROVE  SayTheSame(ReadMatter(text), FromQualifiedBase2(Bytes(text)))
<1> DEFINE bytes == Bytes(text)
           code == HeadOf(text)
           size == Sizage[code]
           cs == CodeChars(size)
           full == FullOf(size, text)
           letters == DOMAIN Sextet
<1>1. NeedBytes.verdict # "Ok" /\ Malformed.verdict # "Ok"
  BY DEF NeedBytes, Malformed
<1>2. CodeIn(bytes) = CodeAt(text)
  BY CodesAgree
<1>3. bytes \in Seq(Byte) /\ Len(bytes) = 3 * M
  BY BytesOfText
<1>4. text \in Seq(letters)
  OBVIOUS
<1> HIDE DEF bytes, letters
<1>5. CASE CodeAt(text).verdict # "Ok"
  <2>1. ReadMatter(text) = CodeAt(text)
    BY <1>5 DEF ReadMatter, MatterFrame, IfOk
  <2>2. FromQualifiedBase2(bytes) = CodeAt(text)
    BY <1>2, <1>5 DEF FromQualifiedBase2, IfOk
  <2> QED
    BY <1>5, <2>1, <2>2 DEF SayTheSame, bytes
<1>6. CASE CodeAt(text).verdict = "Ok"
  <2>1. CodeAt(text) = [verdict |-> "Ok", code |-> code] /\ code \in MatterCodes
    BY <1>4, <1>6, CodeReads DEF HeadOf
  <2>2. SizeFits(size)
    BY <2>1, SizageFits
  <2> HIDE DEF code
  <2>3. MatterFrame(text) = FrameSizeOf(size, text)
    BY <2>1 DEF MatterFrame, IfOk
  <2>4. FromQualifiedBase2(bytes) = IF BytesFor(cs) > Len(bytes) THEN NeedBytes ELSE BinaryPayload(code, size, bytes)
    BY <1>2, <2>1 DEF FromQualifiedBase2, IfOk, CodeSize
  <2> HIDE DEF size
  <2>5. cs \in Nat /\ BytesFor(cs) \in Nat /\ (BytesFor(cs) > 3 * M <=> cs > 4 * M)
    <3>1. cs \in Nat
      BY <2>2 DEF SizeFits, CodeChars
    <3>2. \A n \in Nat : (n * 3 + 4 - 1) \div 4 \in Nat /\ ((n * 3 + 4 - 1) \div 4 > 3 * M <=> n > 4 * M)
      OBVIOUS
    <3> HIDE DEF cs
    <3> QED
      BY <3>1, <3>2 DEF BytesFor, CeilDiv
  <2>6. CASE cs > 4 * M
    <3>1. FromQualifiedBase2(bytes) = NeedBytes
      BY <1>3, <2>4, <2>5, <2>6
    <3>2. CASE size.fs = Variable
      <4>1. ~(cs <= Len(text))
        <5> HIDE DEF cs
        <5> QED
          BY <2>5, <2>6
      <4>2. FrameSizeOf(size, text) = NeedBytes
        BY <1>4, <2>2, <3>2, <4>1, FrameReads
      <4>3. ReadMatter(text) = NeedBytes
        BY <1>1, <2>3, <4>2 DEF ReadMatter, IfOk
      <4> QED
        BY <1>1, <3>1, <4>3 DEF SayTheSame, bytes
    <3>3. CASE size.fs # Variable
      <4>1. FrameSizeOf(size, text) = [verdict |-> "Ok", size |-> full]
        BY <1>4, <2>2, <3>3, FrameReads, Zenon
      <4>2. full > Len(text)
        <5>1. full \in Nat /\ full >= cs
          BY <1>4, <2>2, <3>3, FullFits
        <5> HIDE DEF cs, full
        <5> QED
          BY <2>5, <2>6, <5>1
      <4>3. ReadMatter(text) = NeedBytes
        <5> HIDE DEF full
        <5> QED
          BY <1>1, <2>3, <4>1, <4>2 DEF ReadMatter, IfOk
      <4> QED
        BY <1>1, <3>1, <4>3 DEF SayTheSame, bytes
    <3> QED
      BY <3>2, <3>3
  <2>7. CASE ~(cs > 4 * M)
    <3>1. cs <= 4 * M /\ cs <= Len(text)
      <4> HIDE DEF cs
      <4> QED
        BY <2>5, <2>7
    <3>2. FromQualifiedBase2(bytes) = BinaryPayload(code, size, bytes)
      BY <1>3, <2>4, <2>5, <2>7
    <3>3. InAlphabet(SoftOf(size, text))
      <4> DEFINE first == size.hs + size.xs + 1
                 soft == SoftOf(size, text)
      <4>1. first \in Nat \ {0} /\ first <= cs + 1
        BY <2>2, SoftStarts
      <4>2. soft = SubSeq(text, first, cs)
        BY DEF SoftOf
      <4> HIDE DEF first, cs, soft
      <4>3. soft \in Seq(letters)
        BY <1>4, <2>5, <3>1, <4>1, <4>2, PartOf
      <4>4. InAlphabet(soft)
        BY <4>3 DEF InAlphabet, letters
      <4> QED
        BY <4>4 DEF soft
    <3>4. FrameSizeOf(size, text) = [verdict |-> "Ok", size |-> full]
      BY <1>4, <2>2, <3>1, <3>3, FrameReads, Zenon
    <3>5. full \in Nat /\ full % 4 = 0 /\ full >= cs
      BY <1>4, <2>2, <3>1, <3>3, FullFits
    <3>6. ReadMatter(text) = IF full > Len(text) THEN NeedBytes ELSE FromQualifiedBase64(SubSeq(text, 1, full))
      <4> HIDE DEF full
      <4> QED
        BY <2>3, <3>4 DEF ReadMatter, IfOk
    <3>7. CASE full > 4 * M
      <4>1. ReadMatter(text) = NeedBytes
        BY <3>6, <3>7
      <4>2. BinaryPayload(code, size, bytes) = Malformed
        <5>1. BytesFor(full) > 3 * M
          <6>1. \A n \in Nat : n > 4 * M => (n * 3 + 4 - 1) \div 4 > 3 * M
            OBVIOUS
          <6> HIDE DEF full
          <6> QED
            BY <3>5, <3>7, <6>1 DEF BytesFor, CeilDiv
        <5>2. BytesFor(full) \in Nat
          <6>1. \A n \in Nat : (n * 3 + 4 - 1) \div 4 \in Nat
            OBVIOUS
          <6> HIDE DEF full
          <6> QED
            BY <3>5, <6>1 DEF BytesFor, CeilDiv
        <5>3. SubSeq(Characters(bytes, cs), size.hs + size.xs + 1, cs) = SoftOf(size, text)
          <6>1. cs \in 0..(4 * M) /\ cs \in 0..Len(text) /\ cs \in 0..cs
            <7> HIDE DEF cs
            <7> QED
              BY <2>5, <3>1
          <6>2. size.hs + size.xs + 1 \in Nat \ {0} /\ size.hs + size.xs + 1 <= cs + 1
            BY <2>2, SoftStarts
          <6> HIDE DEF cs
          <6>3. Characters(bytes, cs) = SubSeq(text, 1, cs)
            BY <6>1, CharactersReturn DEF bytes
          <6>4. SubSeq(SubSeq(text, 1, cs), size.hs + size.xs + 1, cs) = SubSeq(text, size.hs + size.xs + 1, cs)
            BY <1>4, <6>1, <6>2, PartOfHead
          <6> QED
            BY <6>3, <6>4 DEF SoftOf, cs
        <5>4. full = IF size.fs = Variable THEN FullSize(DecodeInt(SoftOf(size, text)), cs) ELSE size.fs
          BY DEF FullOf
        <5>5. ~(BytesFor(full) <= Len(bytes))
          BY <1>3, <5>1, <5>2
        <5> HIDE DEF full
        <5> QED
          BY <5>3, <5>4, <5>5 DEF BinaryPayload
      <4> QED
        BY <1>1, <3>2, <4>1, <4>2 DEF SayTheSame, bytes
    <3>8. CASE ~(full > 4 * M)
      <4> DEFINE span == SubSeq(text, 1, full)
      <4>1. full <= 4 * M /\ full \in 0..Len(text)
        <5> HIDE DEF full
        <5> QED
          BY <3>5, <3>8
      <4>2. CodeAt(span) = CodeAt(text)
        <5>1. HardSize(text[1]) <= full
          <6>1. HardSize(text[1]) <= cs
            <7>1. Len(code) = size.hs
              BY <2>1, SizageFits DEF size
            <7>2. HardSize(text[1]) \in {1, 2, 4} /\ HardSize(text[1]) <= Len(text)
              BY <1>4, <1>6, CodeReads
            <7>3. Len(code) = HardSize(text[1]) - 1 + 1
              BY <1>4, <7>2, PartOf DEF HeadOf, code
            <7> QED
              BY <2>2, <7>1, <7>2, <7>3 DEF SizeFits, CodeChars
          <6>2. HardSize(text[1]) \in {0, 1, 2, 4}
            BY HardSizeIs
          <6> HIDE DEF cs, full
          <6> QED
            BY <2>5, <3>5, <6>1, <6>2
        <5> HIDE DEF full
        <5>2. CodeAt(span) = IF HardSize(text[1]) <= full THEN CodeAt(text) ELSE NeedBytes
          BY <1>4, <1>6, <4>1, CodeReadsAlike
        <5> QED
          BY <5>1, <5>2
      <4>3. ReadMatter(text) = MatterIn(code, size, span)
        <5>1. ReadMatter(text) = FromQualifiedBase64(span)
          BY <3>6, <3>8
        <5> HIDE DEF span
        <5>2. FromQualifiedBase64(span) = MatterIn(code, size, span)
          BY <2>1, <4>2 DEF FromQualifiedBase64, IfOk, size
        <5> QED
          BY <5>1, <5>2
      <4>4. SayTheSame(MatterIn(code, size, SubSeq(text, 1, full)), BinaryPayload(code, size, Bytes(text)))
        <5>1. cs \in Nat /\ cs = CodeChars(size) /\ cs <= full
          <6> HIDE DEF full
          <6>1. full >= cs
            BY <3>5
          <6> HIDE DEF cs
          <6>2. cs <= full
            BY <2>5, <3>5, <6>1
          <6> QED
            BY <2>5, <6>2 DEF cs
        <5>2. full = FullOf(size, text)
          OBVIOUS
        <5> HIDE DEF cs, full
        <5> QED
          BY <2>2, <3>5, <4>1, <5>1, <5>2, SpansAgree, Zenon
      <4> QED
        BY <3>2, <4>3, <4>4 DEF bytes
    <3> QED
      BY <3>7, <3>8
  <2> QED
    BY <2>6, <2>7
<1> QED
  BY <1>5, <1>6

(* The readers of indexed signatures take the length of a code alike.      *)
LEMMA IndexHardSizesAgree ==
  ASSUME NEW c \in DOMAIN Sextet
  PROVE  IndexHardSizeOfSextet(Sextet[c]) = IndexHardSize(c)
<1> DEFINE s == Sextet[c]
<1>1. s \in 0..63 /\ Alphabet[s + 1] = c
  BY SextetIsPlace, Zenon
<1>2. CASE s < 52
  <2>1. s \in 0..51
    BY <1>1, <1>2
  <2>2. IndexHardSizeOfSextet(s) = 1
    <3>1. s \notin 52..56
      BY <2>1
    <3> HIDE DEF s
    <3> QED
      BY <2>1, <3>1, Zenon DEF IndexHardSizeOfSextet
  <2>3. c \notin {"0", "1", "2", "3", "4"}
    BY <1>2, Places
  <2>4. IndexHardSize(c) = 1
    BY <1>2, <2>3, Zenon DEF IndexHardSize
  <2> QED
    BY <2>2, <2>4
<1>3. CASE ~(s < 52)
  <2>1. s \in 52..63
    BY <1>1, <1>3
  <2>2. /\ c = "0" <=> s = 52
        /\ c = "1" <=> s = 53
        /\ c = "2" <=> s = 54
        /\ c = "3" <=> s = 55
        /\ c = "4" <=> s = 56
    <3>1. \A d \in DOMAIN Sextet : Sextet[d] = s => d = c
      BY <1>1, SextetIsPlace, Zenon
    <3> HIDE DEF s
    <3>2. /\ \A v : v = s => s = v
          /\ c \in DOMAIN Sextet /\ s = Sextet[c]
      BY DEF s
    <3> QED
      BY <3>1, <3>2, Places
  <2>3. IndexHardSize(c) = CASE s \in 52..56 -> 2 [] OTHER -> 0
    <3> HIDE DEF s
    <3>1. ~(c \in DOMAIN Sextet /\ Sextet[c] < 52)
      BY <1>3 DEF s
    <3> QED
      BY <2>1, <2>2, <3>1 DEF IndexHardSize
  <2>4. s \notin 0..51
    BY <2>1
  <2> HIDE DEF s
  <2>5. IndexHardSizeOfSextet(s) = CASE s \in 52..56 -> 2 [] OTHER -> 0
    BY <2>4 DEF IndexHardSizeOfSextet
  <2> QED
    BY <2>3, <2>5 DEF s
<1> QED
  BY <1>2, <1>3

(* The length of a code of an indexed signature.                           *)
LEMMA IndexHardSizeIs == \A c : IndexHardSize(c) \in {0, 1, 2}
BY DEF IndexHardSize

(* The sizes of indexed signatures.                                        *)
LEMMA XizageFits ==
  ASSUME NEW code \in IndexedSigCodes
  PROVE  /\ Xizage[code] \in {Xizage256, Xizage256Big, Xizage448, Xizage448Big}
         /\ Xizage[code].hs \in {1, 2} /\ Xizage[code].os \in {0, 1, 2, 3}
         /\ CodeChars(Xizage[code]) \in {2, 4, 6, 8}
         /\ Xizage[code].hs + 1 <= CodeChars(Xizage[code]) - Xizage[code].os
         /\ Xizage[code].fs \in {88, 92, 156, 160}
<1> DEFINE size == Xizage[code]
<1>1. size \in {Xizage256, Xizage256Big, Xizage448, Xizage448Big}
  BY DEF Xizage, IndexedSigCodes
<1> HIDE DEF size
<1> QED
  BY <1>1 DEF Xizage256, Xizage256Big, Xizage448, Xizage448Big, CodeChars, size

(* The code of an indexed signature is read alike from either form.        *)
LEMMA IndexedCodesAgree ==
  ASSUME NEW text \in Seq(DOMAIN Sextet), NEW M \in Nat, Len(text) = 4 * M
  PROVE  IndexedCodeIn(Bytes(text)) = IndexedCodeAt(text)
<1> DEFINE bytes == Bytes(text)
           hs == IndexHardSize(text[1])
           code == SubSeq(text, 1, hs)
<1>1. bytes \in Seq(Byte) /\ Len(bytes) = 3 * M
  BY BytesOfText
<1>2. CASE M = 0
  <2>1. text = <<>> /\ bytes = <<>>
    <3>1. bytes = <<>>
      <4> HIDE DEF bytes
      <4> QED
        BY <1>1, <1>2
    <3> QED
      BY <1>2, <3>1
  <2>2. IndexedCodeIn(bytes) = NeedBytes
    <3> HIDE DEF bytes
    <3> QED
      BY <2>1 DEF IndexedCodeIn
  <2>3. IndexedCodeAt(text) = NeedBytes
    BY <2>1 DEF IndexedCodeAt
  <2> QED
    BY <2>2, <2>3
<1>3. CASE M # 0
  <2>1. text # <<>> /\ bytes # <<>>
    <3>1. bytes # <<>>
      <4> HIDE DEF bytes
      <4>1. Len(bytes) # 0
        BY <1>1, <1>3
      <4> QED
        BY <4>1
    <3> QED
      BY <1>3, <3>1
  <2>2. IndexHardSizeOfSextet(bytes[1] \div 4) = hs
    <3>1. text[1] \in DOMAIN Sextet /\ bytes[1] \div 4 = Sextet[text[1]]
      BY <1>3, FirstSextet
    <3> HIDE DEF bytes
    <3> QED
      BY <3>1, IndexHardSizesAgree
  <2>3. hs \in {0, 1, 2}
    BY IndexHardSizeIs
  <2>4. Characters(bytes, hs) = code
    <3> HIDE DEF hs
    <3>1. hs \in 0..(4 * M)
      BY <1>3, <2>3
    <3> QED
      BY <3>1, CharactersReturn
  <2> HIDE DEF hs, bytes, code
  <2>5. ~(hs > Len(text)) /\ ~(BytesFor(hs) > Len(bytes))
    <3>1. \A n \in {0, 1, 2} : (n * 3 + 4 - 1) \div 4 <= 3
      BY SMT
    <3> QED
      BY <1>1, <1>3, <2>3, <3>1 DEF BytesFor, CeilDiv
  <2>6. IndexedCodeAt(text) = CASE hs = 0 -> Malformed
                                [] OTHER -> IF code \in IndexedSigCodes THEN [verdict |-> "Ok", code |-> code] ELSE Malformed
    BY <2>1, <2>3, <2>5 DEF IndexedCodeAt, hs, code
  <2>7. IndexedCodeIn(bytes) = CASE hs = 0 -> Malformed
                                 [] OTHER -> IF code \in IndexedSigCodes THEN [verdict |-> "Ok", code |-> code] ELSE Malformed
    BY <2>1, <2>2, <2>3, <2>4, <2>5 DEF IndexedCodeIn
  <2> QED
    BY <2>6, <2>7 DEF bytes
<1> QED
  BY <1>2, <1>3

(* A code of an indexed signature that is read is one, and is there.       *)
LEMMA IndexedCodeReads ==
  ASSUME NEW S, NEW text \in Seq(S), IndexedCodeAt(text).verdict = "Ok"
  PROVE  /\ text # <<>>
         /\ IndexHardSize(text[1]) \in {1, 2}
         /\ IndexHardSize(text[1]) <= Len(text)
         /\ SubSeq(text, 1, IndexHardSize(text[1])) \in IndexedSigCodes
         /\ IndexedCodeAt(text) = [verdict |-> "Ok", code |-> SubSeq(text, 1, IndexHardSize(text[1]))]
<1> DEFINE hs == IndexHardSize(text[1])
           code == SubSeq(text, 1, hs)
<1>1. hs \in {0, 1, 2}
  BY IndexHardSizeIs
<1>2. NeedBytes.verdict # "Ok" /\ Malformed.verdict # "Ok"
  BY DEF NeedBytes, Malformed
<1>3. IndexedCodeAt(text) =
        CASE text = <<>> -> NeedBytes
          [] text # <<>> /\ hs = 0 -> Malformed
          [] text # <<>> /\ hs > Len(text) -> NeedBytes
          [] OTHER -> IF code \in IndexedSigCodes THEN [verdict |-> "Ok", code |-> code] ELSE Malformed
  BY DEF IndexedCodeAt
<1> HIDE DEF hs, code
<1>4. text # <<>>
  BY <1>2, <1>3
<1>5. hs # 0
  BY <1>2, <1>3, <1>4
<1>6. ~(hs > Len(text))
  <2>1. SUFFICES ASSUME hs > Len(text) PROVE FALSE
    BY <1>1
  <2> QED
    BY <1>2, <1>3, <1>4, <1>5, <2>1
<1>7. IndexedCodeAt(text) = IF code \in IndexedSigCodes THEN [verdict |-> "Ok", code |-> code] ELSE Malformed
  BY <1>3, <1>4, <1>5, <1>6
<1>8. hs <= Len(text)
  BY <1>1, <1>6
<1> QED
  BY <1>1, <1>2, <1>4, <1>5, <1>7, <1>8 DEF hs, code

(* An indexed signature is read from its span alone.                       *)
LEMMA IndexerReadsSpan ==
  ASSUME NEW S, NEW text \in Seq(S), NEW code \in IndexedSigCodes,
         Xizage[code].fs <= Len(text)
  PROVE  IndexerAt(code, Xizage[code], SubSeq(text, 1, Xizage[code].fs)) = IndexerAt(code, Xizage[code], text)
<1> DEFINE size == Xizage[code]
           full == size.fs
           cs == size.hs + size.ss
           os == size.os
           head == SubSeq(text, 1, full)
<1>1. /\ size.hs \in {1, 2} /\ os \in {0, 1, 2, 3} /\ cs \in {2, 4, 6, 8} /\ size.hs + 1 <= cs - os
      /\ full \in {88, 92, 156, 160}
  BY XizageFits DEF CodeChars
<1> HIDE DEF size
<1>2. full \in 0..Len(text) /\ Len(text) \in Nat
  BY <1>1 DEF size
<1>3. Len(head) = full
  <2> DEFINE n == full
  <2>1. n \in Nat /\ n <= Len(text) /\ 1 <= n + 1 /\ n - 1 + 1 = n
    BY <1>2
  <2> HIDE DEF n
  <2>2. Len(SubSeq(text, 1, n)) = n
    BY <2>1, PartOf
  <2> QED
    BY <2>2 DEF n
<1>4. SubSeq(head, size.hs + 1, cs - os) = SubSeq(text, size.hs + 1, cs - os)
  <2> DEFINE first == size.hs + 1
             last == cs - os
             n == full
  <2>0. \A h \in {1, 2}, c \in {2, 4, 6, 8}, o \in {0, 1, 2, 3}, m \in {88, 92, 156, 160} :
          h + 1 <= c - o => h + 1 \in Nat \ {0} /\ c - o \in 0..m /\ h + 1 <= (c - o) + 1
    OBVIOUS
  <2>1. first \in Nat \ {0} /\ last \in 0..n /\ first <= last + 1 /\ n \in 0..Len(text)
    <3>1. size.hs + 1 \in Nat \ {0} /\ cs - os \in 0..full /\ size.hs + 1 <= (cs - os) + 1
      <4> DEFINE h == size.hs
      <4>1. h \in {1, 2}
        BY <1>1
      <4> HIDE DEF h, cs, os, full
      <4>2. h + 1 \in Nat \ {0} /\ cs - os \in 0..full /\ h + 1 <= (cs - os) + 1
        BY <1>1, <2>0, <4>1 DEF h
      <4> QED
        BY <4>2 DEF h
    <3> QED
      BY <1>2, <3>1
  <2> HIDE DEF first, last, n
  <2>2. SubSeq(SubSeq(text, 1, n), first, last) = SubSeq(text, first, last)
    BY <2>1, PartOfHead, Zenon
  <2> QED
    BY <2>2 DEF first, last, n
<1>5. SubSeq(head, cs - os + 1, cs) = SubSeq(text, cs - os + 1, cs)
  <2> DEFINE first == cs - os + 1
             last == cs
             n == full
  <2>1. first \in Nat \ {0} /\ last \in 0..n /\ first <= last + 1 /\ n \in 0..Len(text)
    BY <1>1, <1>2
  <2> HIDE DEF first, last, n
  <2>2. SubSeq(SubSeq(text, 1, n), first, last) = SubSeq(text, first, last)
    BY <2>1, PartOfHead, Zenon
  <2> QED
    BY <2>2 DEF first, last, n
<1>6. SubSeq(head, cs + 1, full) = SubSeq(text, cs + 1, full)
  <2> DEFINE first == cs + 1
             last == full
             n == full
  <2>1. first \in Nat \ {0} /\ last \in 0..n /\ first <= last + 1 /\ n \in 0..Len(text)
    BY <1>1, <1>2
  <2> HIDE DEF first, last, n
  <2>2. SubSeq(SubSeq(text, 1, n), first, last) = SubSeq(text, first, last)
    BY <2>1, PartOfHead, Zenon
  <2> QED
    BY <2>2 DEF first, last, n
<1>7. ~(Len(head) < full) /\ ~(Len(text) < full)
  <2> HIDE DEF head
  <2> QED
    BY <1>1, <1>2, <1>3
<1> HIDE DEF head
<1>8. IndexerAt(code, size, head) = IndexerAt(code, size, text)
  BY <1>4, <1>5, <1>6, <1>7 DEF IndexerAt
<1> QED
  BY <1>8 DEF head, size

(* What is read of an indexed signature has the size its code announces,   *)
(* and is there.                                                           *)
LEMMA IndexerIs ==
  ASSUME NEW code, NEW size, NEW text, IndexerAt(code, size, text).verdict = "Ok"
  PROVE  /\ ~(Len(text) < size.fs)
         /\ \E value : IndexerAt(code, size, text) = [verdict |-> "Ok", size |-> size.fs, value |-> value]
<1>1. NeedBytes.verdict # "Ok" /\ Malformed.verdict # "Ok"
  BY DEF NeedBytes, Malformed
<1> QED
  BY <1>1 DEF IndexerAt

(* An indexed signature is read from text as it is read from the binary    *)
(* that text becomes, or from neither (indexer.rs).                        *)
THEOREM IndexerFormsAgree ==
  ASSUME NEW text \in Seq(DOMAIN Sextet), NEW M \in Nat, Len(text) = 4 * M
  PROVE  SayTheSame(ReadIndexer(text), ReadIndexerBinary(Bytes(text)))
<1> DEFINE bytes == Bytes(text)
           code == SubSeq(text, 1, IndexHardSize(text[1]))
           size == Xizage[code]
           full == (size.fs * 3) \div 4
           letters == DOMAIN Sextet
<1>1. NeedBytes.verdict # "Ok" /\ Malformed.verdict # "Ok"
  BY DEF NeedBytes, Malformed
<1>2. IndexedCodeIn(bytes) = IndexedCodeAt(text)
  BY IndexedCodesAgree
<1>3. bytes \in Seq(Byte) /\ Len(bytes) = 3 * M
  BY BytesOfText
<1>4. text \in Seq(letters)
  OBVIOUS
<1> HIDE DEF bytes, letters
<1>5. CASE IndexedCodeAt(text).verdict # "Ok"
  <2>1. ReadIndexer(text) = IndexedCodeAt(text)
    BY <1>5 DEF ReadIndexer, IfOk
  <2>2. ReadIndexerBinary(bytes) = IndexedCodeAt(text)
    BY <1>2, <1>5 DEF ReadIndexerBinary, IfOk
  <2> QED
    BY <1>5, <2>1, <2>2 DEF SayTheSame, bytes
<1>6. CASE IndexedCodeAt(text).verdict = "Ok"
  <2>1. /\ IndexedCodeAt(text) = [verdict |-> "Ok", code |-> code] /\ code \in IndexedSigCodes
        /\ text # <<>> /\ IndexHardSize(text[1]) \in {1, 2}
    BY <1>4, <1>6, IndexedCodeReads
  <2>2. /\ CodeChars(size) \in {2, 4, 6, 8} /\ size.fs \in {88, 92, 156, 160}
    BY <2>1, XizageFits
  <2>3. PICK q \in 22..40 : size.fs = 4 * q
    <3>1. 88 = 4 * 22 /\ 92 = 4 * 23 /\ 156 = 4 * 39 /\ 160 = 4 * 40
      OBVIOUS
    <3> HIDE DEF size
    <3> QED
      BY <2>2, <3>1
  <2>4. full = 3 * q
    <3>1. ((4 * q) * 3) \div 4 = 3 * q
      OBVIOUS
    <3> HIDE DEF size
    <3> QED
      BY <2>3, <3>1
  <2> HIDE DEF code
  <2>5. ReadIndexer(text) = IF Len(text) < CodeChars(size) THEN NeedBytes ELSE IndexerAt(code, size, text)
    BY <2>1 DEF ReadIndexer, IfOk
  <2>6. ReadIndexerBinary(bytes) =
          IF full > Len(bytes) THEN NeedBytes
          ELSE IfOk(ReadIndexer(AllCharacters(SubSeq(bytes, 1, full))), LAMBDA got : [got EXCEPT !.size = full])
    BY <1>2, <2>1 DEF ReadIndexerBinary, IfOk
  <2> HIDE DEF size, full
  <2>7. CASE q > M
    <3>1. ReadIndexerBinary(bytes) = NeedBytes
      <4>1. full > Len(bytes)
        BY <1>3, <2>4, <2>7
      <4> QED
        BY <2>6, <4>1
    <3>2. ReadIndexer(text).verdict # "Ok"
      <4>1. SUFFICES ASSUME ReadIndexer(text).verdict = "Ok" PROVE FALSE
        OBVIOUS
      <4>2. IndexerAt(code, size, text).verdict = "Ok"
        BY <1>1, <2>5, <4>1
      <4>3. ~(Len(text) < size.fs)
        BY <4>2, IndexerIs
      <4> QED
        BY <2>3, <2>7, <4>3
    <3> QED
      BY <1>1, <3>1, <3>2 DEF SayTheSame, bytes
  <2>8. CASE ~(q > M)
    <3> DEFINE head == SubSeq(text, 1, size.fs)
    <3>1. q \in 0..M /\ size.fs <= Len(text) /\ CodeChars(size) <= size.fs /\ ~(Len(text) < CodeChars(size))
      BY <2>2, <2>3, <2>8
    <3>2. ~(full > Len(bytes))
      BY <1>3, <2>4, <3>1
    <3>3. AllCharacters(SubSeq(bytes, 1, full)) = head
      BY <2>3, <2>4, <3>1, HeadReturns DEF bytes
    <3>4. Len(head) = size.fs /\ head[1] = text[1] /\ head # <<>> /\ ~(Len(head) < CodeChars(size))
      <4> DEFINE n == size.fs
      <4>1. n \in Nat \ {0} /\ n <= Len(text) /\ 1 <= n + 1 /\ n - 1 + 1 = n /\ 1 + 1 - 1 = 1 /\ 1 \in 1..n
        BY <2>2, <3>1
      <4> HIDE DEF n, head
      <4>2. head = SubSeq(text, 1, n)
        BY DEF head, n
      <4>3. head \in Seq(letters) /\ Len(head) = n /\ \A i \in 1..(n - 1 + 1) : head[i] = text[1 + i - 1]
        BY <1>4, <4>1, <4>2, PartOf
      <4>4. head[1] = text[1] /\ head # <<>>
        BY <4>1, <4>3
      <4>5. ~(Len(head) < CodeChars(size))
        BY <2>2, <3>1, <4>3 DEF n
      <4> QED
        BY <4>3, <4>4, <4>5 DEF n
    <3>5. SubSeq(head, 1, IndexHardSize(text[1])) = code
      <4> DEFINE n == size.fs
                 hs == IndexHardSize(text[1])
      <4>1. n \in 0..Len(text) /\ hs \in 0..n /\ 1 <= hs + 1 /\ 1 \in Nat \ {0}
        BY <2>1, <2>2, <3>1
      <4> HIDE DEF n, hs
      <4>2. SubSeq(SubSeq(text, 1, n), 1, hs) = SubSeq(text, 1, hs)
        BY <1>4, <4>1, PartOfHead
      <4> QED
        BY <4>2 DEF n, hs, code
    <3> HIDE DEF head
    <3>6. IndexedCodeAt(head) = [verdict |-> "Ok", code |-> code]
      <4>1. ~(IndexHardSize(text[1]) > Len(head)) /\ IndexHardSize(text[1]) # 0
        BY <2>1, <2>2, <3>4
      <4> QED
        BY <2>1, <3>4, <3>5, <4>1 DEF IndexedCodeAt
    <3>7. IndexerAt(code, size, head) = IndexerAt(code, size, text)
      BY <1>4, <2>1, <3>1, IndexerReadsSpan DEF head, size
    <3>8. ReadIndexer(head) = ReadIndexer(text)
      <4>1. ReadIndexer(head) = IF Len(head) < CodeChars(size) THEN NeedBytes ELSE IndexerAt(code, size, head)
        BY <3>6 DEF ReadIndexer, IfOk, size
      <4> QED
        BY <2>5, <3>1, <3>4, <3>7, <4>1
    <3>9. ReadIndexerBinary(bytes) =
            IfOk(ReadIndexer(text), LAMBDA got : [got EXCEPT !.size = full])
      BY <2>6, <3>2, <3>3, <3>8
    <3>10. CASE ReadIndexer(text).verdict = "Ok"
      <4>1. ReadIndexer(text) = IndexerAt(code, size, text)
        BY <2>5, <3>1
      <4>2. PICK value : ReadIndexer(text) = [verdict |-> "Ok", size |-> size.fs, value |-> value]
        BY <3>10, <4>1, IndexerIs
      <4>3. ReadIndexerBinary(bytes) = [verdict |-> "Ok", size |-> full, value |-> value]
        BY <3>9, <4>2 DEF IfOk
      <4>4. full * 4 = size.fs * 3
        BY <2>3, <2>4
      <4> QED
        BY <4>2, <4>3, <4>4 DEF SayTheSame, bytes
    <3>11. CASE ReadIndexer(text).verdict # "Ok"
      <4>1. ReadIndexerBinary(bytes) = ReadIndexer(text)
        BY <3>9, <3>11 DEF IfOk
      <4> QED
        BY <3>11, <4>1 DEF SayTheSame, bytes
    <3> QED
      BY <3>10, <3>11
  <2> QED
    BY <2>7, <2>8
<1> QED
  BY <1>5, <1>6

(* What is read has a size, in either form.                                *)
LEMMA TextSizeIs ==
  ASSUME NEW S, NEW text \in Seq(S), NEW family, ReadText(family, text).verdict = "Ok"
  PROVE  ReadText(family, text).size \in Nat
<1>1. NeedBytes.verdict # "Ok" /\ Malformed.verdict # "Ok"
  BY DEF NeedBytes, Malformed
<1>2. CASE family = "Siger"
  <2> DEFINE code == SubSeq(text, 1, IndexHardSize(text[1]))
             size == Xizage[code]
  <2>1. ReadText(family, text) = ReadIndexer(text)
    BY <1>2 DEF ReadText
  <2>2. IndexedCodeAt(text).verdict = "Ok"
    BY <1>1, <2>1 DEF ReadIndexer, IfOk
  <2>3. IndexedCodeAt(text) = [verdict |-> "Ok", code |-> code] /\ code \in IndexedSigCodes
    BY <2>2, IndexedCodeReads
  <2> HIDE DEF code
  <2>4. ReadIndexer(text) = IF Len(text) < CodeChars(size) THEN NeedBytes ELSE IndexerAt(code, size, text)
    BY <2>3 DEF ReadIndexer, IfOk
  <2>5. size.fs \in Nat
    BY <2>3, XizageFits
  <2> HIDE DEF size
  <2>6. IndexerAt(code, size, text).verdict = "Ok" /\ ReadIndexer(text) = IndexerAt(code, size, text)
    BY <1>1, <2>1, <2>4
  <2>7. PICK value : IndexerAt(code, size, text) = [verdict |-> "Ok", size |-> size.fs, value |-> value]
    BY <2>6, IndexerIs
  <2> QED
    BY <2>1, <2>5, <2>6, <2>7
<1>3. CASE family \in {"V1", "V2"}
  <2>1. ReadText(family, text) = ReadVersion(family, text)
    BY <1>3 DEF ReadText
  <2>2. ReadVersion(family, text).size \in {V1Width, V2Width}
    BY <1>1, <2>1 DEF ReadVersion
  <2> QED
    BY <2>1, <2>2 DEF V1Width, V2Width
<1>4. CASE family \notin {"Siger", "V1", "V2"}
  <2>1. ReadText(family, text) = Typed(family, ReadMatter(text))
    BY <1>4 DEF ReadText
  <2>2. ReadText(family, text) = ReadMatter(text)
    BY <2>1, TypedReads
  <2>3. ReadMatter(text).verdict = "Ok"
    BY <2>2
  <2> DEFINE full == FullOf(Sizage[HeadOf(text)], text)
  <2>4. full \in Nat /\ ReadMatter(text).size = full
    BY <2>3, SpanReads
  <2> QED
    BY <2>2, <2>4
<1> QED
  BY <1>2, <1>3, <1>4

(* And so has what is read of binary.                                      *)
LEMMA BinarySizeIs ==
  ASSUME NEW bytes \in Seq(Byte), NEW family, ReadBinary(family, bytes).verdict = "Ok"
  PROVE  ReadBinary(family, bytes).size \in Nat
<1>1. NeedBytes.verdict # "Ok" /\ Malformed.verdict # "Ok"
  BY DEF NeedBytes, Malformed
<1>2. CASE family = "Siger"
  <2> DEFINE code == Characters(bytes, IndexHardSizeOfSextet(bytes[1] \div 4))
             full == (Xizage[code].fs * 3) \div 4
  <2>1. ReadBinary(family, bytes) = ReadIndexerBinary(bytes)
    BY <1>2 DEF ReadBinary
  <2>2. IndexedCodeIn(bytes) = [verdict |-> "Ok", code |-> code] /\ code \in IndexedSigCodes
    <3>1. IndexedCodeIn(bytes).verdict = "Ok"
      BY <1>1, <2>1 DEF ReadIndexerBinary, IfOk
    <3> QED
      BY <1>1, <3>1 DEF IndexedCodeIn
  <2> HIDE DEF code
  <2>3. full \in Nat
    <3>1. Xizage[code].fs \in {88, 92, 156, 160}
      BY <2>2, XizageFits
    <3>2. \A f \in {88, 92, 156, 160} : (f * 3) \div 4 \in Nat
      OBVIOUS
    <3> QED
      BY <3>1, <3>2
  <2> DEFINE r == ReadIndexer(AllCharacters(SubSeq(bytes, 1, full)))
  <2>4. ReadIndexerBinary(bytes) =
          IF full > Len(bytes) THEN NeedBytes ELSE IfOk(r, LAMBDA got : [got EXCEPT !.size = full])
    BY <2>2 DEF ReadIndexerBinary, IfOk
  <2> HIDE DEF full
  <2>5. ReadIndexerBinary(bytes) = IfOk(r, LAMBDA got : [got EXCEPT !.size = full])
    BY <1>1, <2>1, <2>4
  <2>6. r.verdict = "Ok"
    BY <2>1, <2>5 DEF IfOk
  <2>7. \E value, size : r = [verdict |-> "Ok", size |-> size, value |-> value]
    <3> DEFINE text == AllCharacters(SubSeq(bytes, 1, full))
    <3>1. r = ReadIndexer(text)
      OBVIOUS
    <3> HIDE DEF text, r
    <3>2. r = IndexedCodeAt(text) \/ r = NeedBytes \/ \E c, s : r = IndexerAt(c, s, text)
      BY <3>1 DEF ReadIndexer, IfOk
    <3>3. r # IndexedCodeAt(text)
      <4>1. SUFFICES ASSUME r = IndexedCodeAt(text) PROVE FALSE
        OBVIOUS
      <4>2. r = [verdict |-> "Ok", code |-> SubSeq(text, 1, IndexHardSize(text[1]))]
        BY <1>1, <2>6, <4>1 DEF IndexedCodeAt
      <4>3. IndexedCodeAt(text).verdict = "Ok"
        BY <2>6, <4>1
      <4>4. \E c, s : r = IndexerAt(c, s, text) \/ r = NeedBytes
        BY <3>1, <4>3 DEF ReadIndexer, IfOk
      <4>5. PICK c, s : r = IndexerAt(c, s, text)
        BY <1>1, <2>6, <4>4
      <4>6. PICK value : r = [verdict |-> "Ok", size |-> s.fs, value |-> value]
        BY <2>6, <4>5, IndexerIs
      <4>7. DOMAIN r = {"verdict", "code"} /\ DOMAIN r = {"verdict", "size", "value"}
        BY <4>2, <4>6
      <4> QED
        BY <4>7
    <3>4. PICK c, s : r = IndexerAt(c, s, text)
      BY <1>1, <2>6, <3>2, <3>3
    <3> QED
      BY <2>6, <3>4, IndexerIs
  <2> HIDE DEF r
  <2>8. ReadIndexerBinary(bytes).size = full
    BY <2>5, <2>6, <2>7 DEF IfOk
  <2> QED
    BY <2>1, <2>3, <2>8
<1>3. CASE family \in {"V1", "V2"}
  BY <1>1, <1>3 DEF ReadBinary
<1>4. CASE family \notin {"Siger", "V1", "V2"}
  <2> DEFINE code == Characters(bytes, HardSizeOfSextet(bytes[1] \div 4))
             size == Sizage[code]
             cs == CodeChars(size)
             text == Characters(bytes, cs)
             soft == SubSeq(text, size.hs + size.xs + 1, cs)
             all == IF size.fs = Variable THEN FullSize(DecodeInt(soft), cs) ELSE size.fs
  <2>1. ReadBinary(family, bytes) = FromQualifiedBase2(bytes)
    <3>1. ReadBinary(family, bytes) = Typed(family, FromQualifiedBase2(bytes))
      BY <1>4 DEF ReadBinary
    <3> QED
      BY <3>1, TypedReads
  <2>2. CodeIn(bytes) = [verdict |-> "Ok", code |-> code] /\ code \in MatterCodes
    <3>1. CodeIn(bytes).verdict = "Ok"
      BY <1>1, <2>1 DEF FromQualifiedBase2, IfOk
    <3> QED
      BY <1>1, <3>1 DEF CodeIn
  <2>3. SizeFits(size)
    BY <2>2, SizageFits
  <2> HIDE DEF code
  <2>4. FromQualifiedBase2(bytes) = IF BytesFor(cs) > Len(bytes) THEN NeedBytes ELSE BinaryPayload(code, size, bytes)
    BY <2>2 DEF FromQualifiedBase2, IfOk, CodeSize
  <2> HIDE DEF size
  <2>5. cs \in Nat /\ BytesFor(cs) \in Nat
    <3>1. cs \in Nat
      BY <2>3 DEF SizeFits, CodeChars
    <3>2. \A n \in Nat : (n * 3 + 4 - 1) \div 4 \in Nat
      OBVIOUS
    <3> HIDE DEF cs
    <3> QED
      BY <3>1, <3>2 DEF BytesFor, CeilDiv
  <2>6. BytesFor(cs) <= Len(bytes) /\ FromQualifiedBase2(bytes) = BinaryPayload(code, size, bytes)
    BY <1>1, <2>1, <2>4, <2>5
  <2>7. text \in Seq(DOMAIN Sextet) /\ Len(text) = cs
    <3> HIDE DEF cs
    <3> QED
      BY <2>5, <2>6, CharactersAreLetters
  <2>8. all \in Nat
    <3>1. CASE size.fs # Variable
      BY <2>3, <3>1 DEF SizeFits
    <3>2. CASE size.fs = Variable
      <4> DEFINE first == size.hs + size.xs + 1
                 letters == DOMAIN Sextet
      <4>1. first \in Nat \ {0} /\ first <= cs + 1
        BY <2>3, SoftStarts
      <4>2. text \in Seq(letters) /\ Len(text) = cs /\ soft = SubSeq(text, first, cs)
        BY <2>7
      <4> HIDE DEF first, text, letters, soft, cs
      <4>3. soft \in Seq(letters)
        BY <2>5, <4>1, <4>2, PartOf
      <4>4. InAlphabet(soft)
        BY <4>3 DEF InAlphabet, letters
      <4> DEFINE d == DecodeInt(soft)
      <4>5. d \in Nat
        BY <4>3, <4>4, DecodeIntIsNatural
      <4> HIDE DEF d
      <4>6. FullSize(d, cs) \in Nat
        BY <2>5, <4>5 DEF FullSize
      <4> QED
        BY <3>2, <4>6 DEF d
    <3> QED
      BY <3>1, <3>2
  <2>9. BytesFor(all) \in Nat
    <3>1. \A n \in Nat : (n * 3 + 4 - 1) \div 4 \in Nat
      OBVIOUS
    <3> HIDE DEF all
    <3> QED
      BY <2>8, <3>1 DEF BytesFor, CeilDiv
  <2>10. BinaryPayload(code, size, bytes).size = BytesFor(all)
    <3>1. BinaryPayload(code, size, bytes) # Malformed
      BY <1>1, <2>1, <2>6
    <3> QED
      BY <3>1 DEF BinaryPayload
  <2> HIDE DEF all
  <2> QED
    BY <2>1, <2>6, <2>9, <2>10
<1> QED
  BY <1>2, <1>3, <1>4

(* What is left of a sequence.                                             *)
LEMMA RestOf ==
  ASSUME NEW S, NEW s \in Seq(S), NEW n \in Nat
  PROVE  SubSeq(s, n + 1, Len(s)) \in Seq(S)
OBVIOUS

(* A typed read narrows both forms alike.                                  *)
LEMMA TypedAlike ==
  ASSUME NEW family, NEW text, NEW binary, SayTheSame(text, binary)
  PROVE  SayTheSame(Typed(family, text), Typed(family, binary))
<1>1. Malformed.verdict # "Ok"
  BY DEF Malformed
<1> QED
  BY <1>1 DEF SayTheSame, Typed

-----------------------------------------------------------------------------
(* What is read is canonical: written again it is its own span.            *)

(* How many characters a code in binary has.                               *)
LEMMA SextetSizeIs ==
  /\ \A s : HardSizeOfSextet(s) \in {0, 1, 2, 4}
  /\ \A s : IndexHardSizeOfSextet(s) \in {0, 1, 2}
BY DEF HardSizeOfSextet, IndexHardSizeOfSextet

(* A plain primitive is read from the bytes of its span, whatever follows. *)
LEMMA MatterBinaryIsLocal ==
  ASSUME NEW a \in Seq(Byte), NEW b \in Seq(Byte), FromQualifiedBase2(a).verdict = "Ok",
         SameHead(a, b, FromQualifiedBase2(a).size)
  PROVE  /\ FromQualifiedBase2(b) = FromQualifiedBase2(a)
         /\ FromQualifiedBase2(a).size \in Nat \ {0} /\ FromQualifiedBase2(a).size <= Len(a)
         /\ FromQualifiedBase2(a).size % 3 = 0
<1> DEFINE hs == HardSizeOfSextet(a[1] \div 4)
           code == Characters(a, hs)
           size == Sizage[code]
           chars == BytesFor(CodeChars(size))
           out == BinaryPayload(code, size, a)
           full == out.size
<1>1. NeedBytes.verdict # "Ok" /\ Malformed.verdict # "Ok"
  BY DEF NeedBytes, Malformed
<1>2. CodeIn(a).verdict = "Ok"
  BY <1>1 DEF FromQualifiedBase2, IfOk
<1>3. CodeIn(a) = [verdict |-> "Ok", code |-> code] /\ code \in MatterCodes
  /\ a # <<>> /\ hs # 0 /\ BytesFor(hs) <= Len(a)
  <2> HIDE DEF code
  <2>1. CodeIn(a) = CASE a = <<>> -> NeedBytes
                      [] a # <<>> /\ hs = 0 -> Malformed
                      [] a # <<>> /\ BytesFor(hs) > Len(a) -> NeedBytes
                      [] OTHER -> IF code \in MatterCodes THEN [verdict |-> "Ok", code |-> code] ELSE Malformed
    BY DEF CodeIn, code
  <2> HIDE DEF hs
  <2>2. a # <<>> /\ hs # 0 /\ ~(BytesFor(hs) > Len(a))
    BY <1>1, <1>2, <2>1
  <2>3. CodeIn(a) = IF code \in MatterCodes THEN [verdict |-> "Ok", code |-> code] ELSE Malformed
    BY <2>1, <2>2
  <2>4. hs \in Nat
    BY SextetSizeIs DEF hs
  <2>5. BytesFor(hs) \in Nat /\ Len(a) \in Nat
    BY <2>4 DEF BytesFor, CeilDiv
  <2> QED
    BY <1>1, <1>2, <2>2, <2>3, <2>5
<1>4. hs \in {1, 2, 4}
  BY <1>3, SextetSizeIs
<1> HIDE DEF code
<1>5. SizeFits(size) /\ Len(code) = size.hs
  BY <1>3, SizageFits
<1>6. Len(code) = hs
  BY <1>3, <1>4, CharactersAreLetters DEF code
<1>7. chars <= Len(a) /\ FromQualifiedBase2(a) = out
  <2>1. FromQualifiedBase2(a) = IF chars > Len(a) THEN NeedBytes ELSE out
    BY <1>3 DEF FromQualifiedBase2, IfOk, CodeSize
  <2>2. chars \in Nat /\ Len(a) \in Nat
    <3>1. CodeChars(size) \in Nat
      BY <1>5, SMTT(30) DEF SizeFits, CodeChars
    <3> QED
      BY <3>1 DEF BytesFor, CeilDiv
  <2> HIDE DEF chars, out
  <2> QED
    BY <1>1, <2>1, <2>2
<1>8. SameHead(a, b, full)
  BY <1>7
<1> HIDE DEF out
<1>9. out.verdict = "Ok"
  BY <1>7
<1> HIDE DEF size
<1>10. /\ BinaryPayload(code, size, b) = out
       /\ full \in Nat /\ chars <= full /\ full % 3 = 0
  BY <1>5, <1>7, <1>8, <1>9, BinaryPayloadIsLocal DEF out
<1>11. BytesFor(hs) \in Nat \ {0} /\ BytesFor(hs) <= chars /\ chars \in Nat
  <2>1. CodeChars(size) \in Nat /\ hs <= CodeChars(size)
    BY <1>5, <1>6 DEF SizeFits, CodeChars
  <2> HIDE DEF hs
  <2> QED
    BY <1>4, <2>1 DEF BytesFor, CeilDiv
<1>12. full <= Len(a) /\ full <= Len(b) /\ \A i \in 1..full : a[i] = b[i]
  BY <1>8 DEF SameHead
<1> HIDE DEF full, hs, chars
<1>13. a[1] = b[1] /\ b # <<>> /\ BytesFor(hs) <= Len(b) /\ chars <= Len(b)
  BY <1>10, <1>11, <1>12
<1>14. Characters(b, hs) = code
  <2>1. SameHead(a, b, BytesFor(hs))
    BY <1>10, <1>11, <1>12 DEF SameHead
  <2>2. hs \in Nat
    BY <1>4
  <2> QED
    BY <2>1, <2>2, CharactersAreLocal DEF SameHead, code
<1>15. HardSizeOfSextet(b[1] \div 4) = hs
  BY <1>13 DEF hs
<1>16. CodeIn(b) = [verdict |-> "Ok", code |-> code]
  <2>1. CodeIn(b) = CASE b = <<>> -> NeedBytes
                      [] b # <<>> /\ hs = 0 -> Malformed
                      [] b # <<>> /\ BytesFor(hs) > Len(b) -> NeedBytes
                      [] OTHER -> IF code \in MatterCodes THEN [verdict |-> "Ok", code |-> code] ELSE Malformed
    BY <1>14, <1>15 DEF CodeIn
  <2>2. ~(BytesFor(hs) > Len(b))
    BY <1>11, <1>13
  <2> QED
    BY <1>3, <1>4, <1>13, <2>1, <2>2
<1>17. FromQualifiedBase2(b) = IF chars > Len(b) THEN NeedBytes ELSE BinaryPayload(code, size, b)
  BY <1>16 DEF FromQualifiedBase2, IfOk, CodeSize, chars, size
<1>18. FromQualifiedBase2(b) = out
  BY <1>10, <1>11, <1>13, <1>17
<1> QED
  BY <1>7, <1>10, <1>11, <1>12, <1>18 DEF full

(* And so is an indexed signature.                                         *)
LEMMA IndexerBinaryIsLocal ==
  ASSUME NEW a \in Seq(Byte), NEW b \in Seq(Byte), ReadIndexerBinary(a).verdict = "Ok",
         SameHead(a, b, ReadIndexerBinary(a).size)
  PROVE  /\ ReadIndexerBinary(b) = ReadIndexerBinary(a)
         /\ ReadIndexerBinary(a).size \in Nat \ {0} /\ ReadIndexerBinary(a).size <= Len(a)
         /\ ReadIndexerBinary(a).size % 3 = 0
<1> DEFINE hs == IndexHardSizeOfSextet(a[1] \div 4)
           code == Characters(a, hs)
           full == (Xizage[code].fs * 3) \div 4
           r(bytes) == ReadIndexer(AllCharacters(SubSeq(bytes, 1, full)))
           out(bytes) == IfOk(r(bytes), LAMBDA got : [got EXCEPT !.size = full])
<1>1. NeedBytes.verdict # "Ok" /\ Malformed.verdict # "Ok"
  BY DEF NeedBytes, Malformed
<1>2. IndexedCodeIn(a).verdict = "Ok"
  BY <1>1 DEF ReadIndexerBinary, IfOk
<1>3. IndexedCodeIn(a) = [verdict |-> "Ok", code |-> code] /\ code \in IndexedSigCodes
  /\ a # <<>> /\ hs # 0 /\ BytesFor(hs) <= Len(a)
  <2> HIDE DEF code
  <2>1. IndexedCodeIn(a) =
          CASE a = <<>> -> NeedBytes
            [] a # <<>> /\ hs = 0 -> Malformed
            [] a # <<>> /\ BytesFor(hs) > Len(a) -> NeedBytes
            [] OTHER -> IF code \in IndexedSigCodes THEN [verdict |-> "Ok", code |-> code] ELSE Malformed
    BY DEF IndexedCodeIn, code
  <2> HIDE DEF hs
  <2>2. a # <<>> /\ hs # 0 /\ ~(BytesFor(hs) > Len(a))
    BY <1>1, <1>2, <2>1
  <2>3. IndexedCodeIn(a) = IF code \in IndexedSigCodes THEN [verdict |-> "Ok", code |-> code] ELSE Malformed
    BY <2>1, <2>2
  <2>4. hs \in Nat
    BY SextetSizeIs DEF hs
  <2>5. BytesFor(hs) \in Nat /\ Len(a) \in Nat
    BY <2>4 DEF BytesFor, CeilDiv
  <2> QED
    BY <1>1, <1>2, <2>2, <2>3, <2>5
<1>4. hs \in {1, 2}
  BY <1>3, SextetSizeIs
<1> HIDE DEF code
<1>5. full \in {66, 69, 117, 120}
  <2>1. Xizage[code].fs \in {88, 92, 156, 160}
    BY <1>3, XizageFits
  <2>2. \A f \in {88, 92, 156, 160} : (f * 3) \div 4 \in {66, 69, 117, 120}
    OBVIOUS
  <2> QED
    BY <2>1, <2>2
<1>6. ReadIndexerBinary(a) = IF full > Len(a) THEN NeedBytes ELSE out(a)
  BY <1>3 DEF ReadIndexerBinary, IfOk
<1> HIDE DEF full
<1>7. full <= Len(a) /\ ReadIndexerBinary(a) = out(a)
  <2> HIDE DEF out
  <2>1. Len(a) \in Nat /\ full \in Nat
    BY <1>5
  <2> QED
    BY <1>1, <1>6, <2>1
<1>8. out(a).size = full
  <2>1. r(a).verdict = "Ok"
    BY <1>7 DEF IfOk
  <2>2. \E value, size : r(a) = [verdict |-> "Ok", size |-> size, value |-> value]
    <3> DEFINE text == AllCharacters(SubSeq(a, 1, full))
               seen == r(a)
    <3>1. seen = ReadIndexer(text)
      OBVIOUS
    <3>2. seen.verdict = "Ok"
      BY <2>1
    <3> HIDE DEF text, seen
    <3>3. IndexedCodeAt(text).verdict = "Ok"
      BY <3>1, <3>2 DEF ReadIndexer, IfOk
    <3>4. seen = NeedBytes \/ \E c, s : seen = IndexerAt(c, s, text)
      BY <3>1, <3>3 DEF ReadIndexer, IfOk
    <3>5. PICK c, s : seen = IndexerAt(c, s, text)
      BY <1>1, <3>2, <3>4
    <3>6. PICK value : seen = [verdict |-> "Ok", size |-> s.fs, value |-> value]
      BY <3>2, <3>5, IndexerIs
    <3> QED
      BY <3>6 DEF seen
  <2>3. PICK value, size : r(a) = [verdict |-> "Ok", size |-> size, value |-> value]
    BY <2>2
  <2> HIDE DEF r
  <2>4. out(a) = [r(a) EXCEPT !.size = full]
    BY <2>1 DEF IfOk
  <2> QED
    BY <2>3, <2>4
<1> HIDE DEF r
<1>9. full <= Len(b) /\ \A i \in 1..full : a[i] = b[i]
  BY <1>7, <1>8 DEF SameHead
<1>10. SubSeq(a, 1, full) = SubSeq(b, 1, full)
  <2>1. SameHead(a, b, full)
    BY <1>7, <1>8
  <2> DEFINE z == 0
  <2>2. z \in 0..full /\ full \in Nat
    BY <1>5
  <2>3. z + 1 = 1
    OBVIOUS
  <2> HIDE DEF z
  <2>4. SubSeq(a, z + 1, full) = SubSeq(b, z + 1, full)
    BY <2>1, <2>2, ShorterHead
  <2> QED
    BY <2>3, <2>4, Zenon
<1>11. r(b) = r(a)
  BY <1>10 DEF r
<1>12. BytesFor(hs) \in Nat /\ BytesFor(hs) <= 2 /\ BytesFor(hs) >= 1
  <2> HIDE DEF hs
  <2> QED
    BY <1>4 DEF BytesFor, CeilDiv
<1>13. a[1] = b[1] /\ b # <<>> /\ BytesFor(hs) <= Len(b)
  <2> HIDE DEF hs
  <2>1. Len(b) \in Nat /\ 1 \in 1..full
    BY <1>5
  <2> QED
    BY <1>5, <1>9, <1>12, <2>1
<1>14. IndexHardSizeOfSextet(b[1] \div 4) = hs
  BY <1>13
<1> HIDE DEF hs
<1>15. Characters(b, hs) = code
  <2>1. \A i \in 1..BytesFor(hs) : i \in 1..full
    BY <1>5, <1>12
  <2>2. SameHead(a, b, BytesFor(hs))
    BY <1>3, <1>9, <1>13, <2>1 DEF SameHead
  <2>3. hs \in Nat
    BY <1>4
  <2> QED
    BY <2>2, <2>3, CharactersAreLocal DEF SameHead, code
<1>16. IndexedCodeIn(b) = [verdict |-> "Ok", code |-> code]
  <2>1. IndexedCodeIn(b) =
          CASE b = <<>> -> NeedBytes
            [] b # <<>> /\ hs = 0 -> Malformed
            [] b # <<>> /\ BytesFor(hs) > Len(b) -> NeedBytes
            [] OTHER -> IF code \in IndexedSigCodes THEN [verdict |-> "Ok", code |-> code] ELSE Malformed
    BY <1>14, <1>15 DEF IndexedCodeIn
  <2>2. ~(BytesFor(hs) > Len(b))
    BY <1>12, <1>13
  <2> QED
    BY <1>3, <1>4, <1>13, <2>1, <2>2
<1>17. ReadIndexerBinary(b) = IF full > Len(b) THEN NeedBytes ELSE out(b)
  BY <1>16 DEF ReadIndexerBinary, IfOk, full, r
<1>18. ReadIndexerBinary(b) = out(a)
  <2> HIDE DEF out
  <2>1. ~(full > Len(b))
    BY <1>5, <1>9
  <2>2. out(b) = out(a)
    BY <1>11 DEF out
  <2> QED
    BY <1>17, <2>1, <2>2
<1> HIDE DEF out
<1> QED
  BY <1>5, <1>7, <1>8, <1>18

(* And every number of a field has its digits.                             *)
LEMMA DigitsOfNumber ==
  ASSUME NEW v \in Fields
  PROVE  /\ \A k \in 0..3 : Place(v, k) \in Sextets
         /\ v = FromDigits(Place(v, 0), Place(v, 1), Place(v, 2), Place(v, 3))
         /\ v < 64 ^ 0 => Place(v, 0) = 0 /\ Place(v, 1) = 0 /\ Place(v, 2) = 0 /\ Place(v, 3) = 0
         /\ v < 64 ^ 1 => Place(v, 1) = 0 /\ Place(v, 2) = 0 /\ Place(v, 3) = 0
         /\ v < 64 ^ 2 => Place(v, 2) = 0 /\ Place(v, 3) = 0
         /\ v < 64 ^ 3 => Place(v, 3) = 0
<1>1. PICK d0 \in Sextets, d1 \in Sextets, d2 \in Sextets, d3 \in Sextets : v = FromDigits(d0, d1, d2, d3)
  <2> DEFINE a == v % 64
             r == v \div 64
             b == r % 64
             s == r \div 64
             c == s % 64
             t == s \div 64
  <2>1. a \in 0..63 /\ r \in Nat /\ v = a + 64 * r /\ r < 262144
    BY Powers, SMT DEF Fields
  <2> HIDE DEF a, r
  <2>2. b \in 0..63 /\ s \in Nat /\ r = b + 64 * s /\ s < 4096
    BY <2>1, SMT
  <2> HIDE DEF b, s
  <2>3. c \in 0..63 /\ t \in Nat /\ s = c + 64 * t /\ t < 64
    BY <2>2, SMT
  <2> HIDE DEF c, t
  <2>4. v = FromDigits(a, b, c, t) /\ t \in 0..63
    BY <2>1, <2>2, <2>3, Powers, SMT DEF FromDigits
  <2>5. a \in Sextets /\ b \in Sextets /\ c \in Sextets /\ t \in Sextets
    BY <2>1, <2>2, <2>3, <2>4, SMT DEF Sextets
  <2>6. v = FromDigits(a, b, c, t)
    BY <2>4
  <2> QED
    BY <2>5, <2>6
<1>2. Place(v, 0) = d0 /\ Place(v, 1) = d1 /\ Place(v, 2) = d2 /\ Place(v, 3) = d3
  BY <1>1, PlacesOfDigits
<1>3. \A k \in 0..3 : k = 0 \/ k = 1 \/ k = 2 \/ k = 3
  OBVIOUS
<1>4. v = d0 + 64 * d1 + 4096 * d2 + 262144 * d3
  BY <1>1, Powers, SMT DEF FromDigits
<1>5. /\ v < 64 ^ 0 => d0 = 0 /\ d1 = 0 /\ d2 = 0 /\ d3 = 0
      /\ v < 64 ^ 1 => d1 = 0 /\ d2 = 0 /\ d3 = 0
      /\ v < 64 ^ 2 => d2 = 0 /\ d3 = 0
      /\ v < 64 ^ 3 => d3 = 0
  BY <1>4, Powers, SMT DEF Sextets
<1>6. \A k \in 0..3 : Place(v, k) \in Sextets
  BY <1>2, <1>3
<1>7. v = FromDigits(Place(v, 0), Place(v, 1), Place(v, 2), Place(v, 3))
  BY <1>1, <1>2
<1> QED
  BY <1>2, <1>5, <1>6, <1>7

(* A digit of a number below a power of the base is zero from there on.    *)
LEMMA NoDigitBeyond ==
  ASSUME NEW v \in Fields, NEW w \in 0..4, v < 64 ^ w, NEW k \in w..3
  PROVE  Place(v, k) = 0
<1>1. w = 0 \/ w = 1 \/ w = 2 \/ w = 3 \/ w = 4
  OBVIOUS
<1>2. \/ w = 0 /\ (k = 0 \/ k = 1 \/ k = 2 \/ k = 3)
      \/ w = 1 /\ (k = 1 \/ k = 2 \/ k = 3)
      \/ w = 2 /\ (k = 2 \/ k = 3)
      \/ w = 3 /\ k = 3
  BY <1>1
<1>3. CASE w = 0 /\ (k = 0 \/ k = 1 \/ k = 2 \/ k = 3)
  BY <1>3, DigitsOfNumber
<1>4. CASE w = 1 /\ (k = 1 \/ k = 2 \/ k = 3)
  BY <1>4, DigitsOfNumber
<1>5. CASE w = 2 /\ (k = 2 \/ k = 3)
  BY <1>5, DigitsOfNumber
<1>6. CASE w = 3 /\ k = 3
  BY <1>6, DigitsOfNumber
<1> QED
  BY <1>2, <1>3, <1>4, <1>5, <1>6

(* A field of digits is text of its width.                                 *)
LEMMA DigitsAre ==
  ASSUME NEW v \in Fields, NEW w \in 0..4
  PROVE  /\ Digits(v, w) \in Seq(DOMAIN Sextet)
         /\ Len(Digits(v, w)) = w
         /\ \A i \in 1..w : Digits(v, w)[i] = Alphabet[Place(v, w - i) + 1]
<1> DEFINE letters == DOMAIN Sextet
           c(i) == Alphabet[Place(v, w - i) + 1]
           p == Digits(v, w)
<1>1. p = [i \in 1..w |-> c(i)]
  BY Zenon DEF Digits, Place
<1>2. \A i \in 1..w : w - i \in 0..3
  OBVIOUS
<1>3. \A i \in 1..w : c(i) \in letters
  <2>1. \A i \in 1..w : Place(v, w - i) \in 0..63
    BY <1>2, DigitsOfNumber DEF Sextets
  <2> QED
    BY <2>1, SextetIsPlace
<1> HIDE DEF c, p, letters
<1>4. p \in Seq(letters) /\ Len(p) = w /\ \A i \in 1..w : p[i] = c(i)
  BY <1>1, <1>3
<1> QED
  BY <1>4 DEF c, p, letters

(* A number written in a field wide enough is read again.                  *)
LEMMA DigitsReturn ==
  ASSUME NEW v \in Fields, NEW w \in 0..4, v < 64 ^ w
  PROVE  DecodeInt(Digits(v, w)) = v
<1> DEFINE p == Digits(v, w)
<1>1. /\ p \in Seq(DOMAIN Sextet) /\ Len(p) = w
      /\ \A i \in 1..w : p[i] = Alphabet[Place(v, w - i) + 1]
  BY DigitsAre
<1> HIDE DEF p
<1>2. ASSUME NEW n \in 0..3
      PROVE  DigitOf(p, n) = Place(v, n)
  <2>1. CASE n < w
    <3>1. w - n \in 1..w /\ w - (w - n) = n
      BY <2>1
    <3>2. p[w - n] = Alphabet[Place(v, n) + 1]
      BY <1>1, <3>1
    <3>3. Place(v, n) \in 0..63
      BY DigitsOfNumber DEF Sextets
    <3>4. Sextet[p[w - n]] = Place(v, n)
      BY <3>2, <3>3, SextetIsPlace
    <3> QED
      BY <1>1, <2>1, <3>4 DEF DigitOf
  <2>2. CASE ~(n < w)
    <3>1. n \in w..3
      BY <2>2
    <3>2. Place(v, n) = 0
      BY <3>1, NoDigitBeyond
    <3> QED
      BY <1>1, <2>2, <3>2 DEF DigitOf
  <2> QED
    BY <2>1, <2>2
<1>3. 0 \in 0..3 /\ 1 \in 0..3 /\ 2 \in 0..3 /\ 3 \in 0..3
  OBVIOUS
<1>4. DecodeInt(p) = FromDigits(Place(v, 0), Place(v, 1), Place(v, 2), Place(v, 3))
  BY <1>1, <1>2, <1>3, DecodeIs
<1> QED
  BY <1>4, DigitsOfNumber DEF p

(* And what a field said is written in it again.                           *)
LEMMA DecodeReturns ==
  ASSUME NEW p \in Seq(DOMAIN Sextet), NEW w \in 0..4, Len(p) = w
  PROVE  /\ Digits(DecodeInt(p), w) = p
         /\ DecodeInt(p) < 64 ^ w
         /\ DecodeInt(p) \in Fields
<1> DEFINE v == DecodeInt(p)
           q == Digits(v, w)
<1>1. /\ v = FromDigits(DigitOf(p, 0), DigitOf(p, 1), DigitOf(p, 2), DigitOf(p, 3))
      /\ \A n \in 0..3 : DigitOf(p, n) \in Sextets
      /\ v \in Fields
  BY DecodeIs
<1>2. 0 \in 0..3 /\ 1 \in 0..3 /\ 2 \in 0..3 /\ 3 \in 0..3
  OBVIOUS
<1> HIDE DEF v
<1>3. /\ Place(v, 0) = DigitOf(p, 0) /\ Place(v, 1) = DigitOf(p, 1)
      /\ Place(v, 2) = DigitOf(p, 2) /\ Place(v, 3) = DigitOf(p, 3)
  BY <1>1, <1>2, PlacesOfDigits
<1>4. \A n \in 0..3 : n = 0 \/ n = 1 \/ n = 2 \/ n = 3
  OBVIOUS
<1>5. \A n \in 0..3 : Place(v, n) = DigitOf(p, n)
  BY <1>3, <1>4
<1>6. /\ q \in Seq(DOMAIN Sextet) /\ Len(q) = w
      /\ \A i \in 1..w : q[i] = Alphabet[Place(v, w - i) + 1]
  BY <1>1, DigitsAre
<1> HIDE DEF q
<1>7. ASSUME NEW i \in 1..w
      PROVE  q[i] = p[i]
  <2>1. w - i \in 0..3 /\ w - i < w /\ w - (w - i) = i
    OBVIOUS
  <2>2. Place(v, w - i) = Sextet[p[i]]
    BY <1>5, <2>1 DEF DigitOf
  <2>3. p[i] \in DOMAIN Sextet
    OBVIOUS
  <2>4. q[i] = Alphabet[Place(v, w - i) + 1]
    BY <1>6
  <2>5. Alphabet[Sextet[p[i]] + 1] = p[i]
    BY <2>3, SextetIsPlace
  <2> QED
    BY <2>2, <2>4, <2>5
<1>8. q = p
  <2> DEFINE letters == DOMAIN Sextet
  <2>1. q \in Seq(letters) /\ p \in Seq(letters)
    BY <1>6
  <2> HIDE DEF letters
  <2> QED
    BY <1>6, <1>7, <2>1, SameSequence
<1>9. v < 64 ^ w
  <2>1. w = 0 \/ w = 1 \/ w = 2 \/ w = 3 \/ w = 4
    OBVIOUS
  <2>2. \A n \in 0..3 : ~(n < w) => DigitOf(p, n) = 0
    BY DEF DigitOf
  <2> DEFINE d0 == DigitOf(p, 0)
             d1 == DigitOf(p, 1)
             d2 == DigitOf(p, 2)
             d3 == DigitOf(p, 3)
  <2>3. d0 \in 0..63 /\ d1 \in 0..63 /\ d2 \in 0..63 /\ d3 \in 0..63
    BY <1>1, <1>2 DEF Sextets
  <2>4. /\ w = 0 => d0 = 0 /\ d1 = 0 /\ d2 = 0 /\ d3 = 0
        /\ w = 1 => d1 = 0 /\ d2 = 0 /\ d3 = 0
        /\ w = 2 => d2 = 0 /\ d3 = 0
        /\ w = 3 => d3 = 0
    BY <1>2, <2>2
  <2>5. v = FromDigits(d0, d1, d2, d3)
    BY <1>1
  <2> HIDE DEF d0, d1, d2, d3
  <2>6. v = d0 + 64 * d1 + 4096 * d2 + 262144 * d3
    BY <2>5, Powers, SMT DEF FromDigits
  <2>7. CASE w = 0
    <3>1. v < 1
      BY <2>3, <2>4, <2>6, <2>7, SMT
    <3> QED
      BY <2>7, <3>1, Powers, SMT
  <2>8. CASE w = 1
    <3>1. v < 64
      BY <2>3, <2>4, <2>6, <2>8, SMT
    <3> QED
      BY <2>8, <3>1, Powers, SMT
  <2>9. CASE w = 2
    <3>1. v < 4096
      BY <2>3, <2>4, <2>6, <2>9, SMT
    <3> QED
      BY <2>9, <3>1, Powers, SMT
  <2>10. CASE w = 3
    <3>1. v < 262144
      BY <2>3, <2>4, <2>6, <2>10, SMT
    <3> QED
      BY <2>10, <3>1, Powers, SMT
  <2>11. CASE w = 4
    <3>1. v < 16777216
      BY <2>3, <2>6, SMT
    <3> QED
      BY <2>11, <3>1, Powers, SMT
  <2> QED
    BY <2>1, <2>7, <2>8, <2>9, <2>10, <2>11
<1> QED
  BY <1>1, <1>8, <1>9 DEF q, v

(* The digits before those a number needs are zero.                        *)
LEMMA FixedIs ==
  ASSUME NEW v \in Fields, NEW n \in 1..4, v < 64 ^ n
  PROVE  /\ EncodeInt(v, n) = Digits(v, n)
         /\ FixedB64(v, n) = Digits(v, n)
<1> DEFINE w == Needed(v)
           letters == DOMAIN Sextet
<1>1. w \in 1..n /\ v < 64 ^ w
  <2> HIDE DEF w
  <2>1. w \in 1..4 /\ v < 64 ^ w /\ w <= n
    BY NeededFits DEF w
  <2> QED
    BY <2>1
<1> DEFINE W(least) == IF w < least THEN least ELSE w
           E(least) == [i \in 1..W(least) |-> Alphabet[((v \div 64 ^ (W(least) - i)) % 64) + 1]]
<1>0. w \in 0..4 /\ n \in 0..4
  BY NeededFits
<1>2. EncodeInt(v, n) = E(n) /\ EncodeInt(v, 1) = E(1)
  BY Zenon DEF EncodeInt, Needed
<1> HIDE DEF w
<1>3. W(n) = n /\ W(1) = w
  BY <1>1
<1> HIDE DEF W
<1>4. E(n) = Digits(v, n) /\ E(1) = Digits(v, w)
  BY <1>3, Zenon DEF Digits
<1> HIDE DEF E
<1> DEFINE m == n - w
           p == [i \in 1..m |-> "A"]
           q == Digits(v, w)
           d == Digits(v, n)
<1>5. FixedB64(v, n) = p \o q
  <2>1. Len(q) = w
    BY <1>0, DigitsAre
  <2> QED
    BY <1>2, <1>4, <2>1 DEF FixedB64
<1>6. m \in Nat /\ m + w = n
  BY <1>1
<1>7. p \in Seq(letters) /\ Len(p) = m /\ \A j \in 1..m : p[j] = "A"
  <2> HIDE DEF m
  <2>1. "A" \in letters
    BY PadIsFirst
  <2> HIDE DEF letters
  <2> QED
    BY <1>6, <2>1, Repeated
<1>8. q \in Seq(letters) /\ Len(q) = w /\ \A i \in 1..w : q[i] = Alphabet[Place(v, w - i) + 1]
  BY <1>0, DigitsAre
<1>9. d \in Seq(letters) /\ Len(d) = n /\ \A i \in 1..n : d[i] = Alphabet[Place(v, n - i) + 1]
  BY <1>0, DigitsAre
<1> HIDE DEF p, q, d, m, letters
<1>10. p \o q = d
  <2> DEFINE all == p \o q
  <2>1. Follows(all, letters, p, q)
    BY <1>7, <1>8, Appended
  <2> HIDE DEF all
  <2>2. all \in Seq(letters) /\ Len(all) = n
    BY <1>6, <1>7, <1>8, <2>1 DEF Follows
  <2>3. ASSUME NEW i \in 1..n
        PROVE  all[i] = d[i]
    <3>1. CASE i \in 1..m
      <4>1. all[i] = "A"
        BY <1>7, <2>1, <3>1 DEF Follows
      <4>2. n - i \in w..3
        BY <1>1, <1>6, <3>1
      <4>3. w \in 0..4
        BY <1>1
      <4>4. Place(v, n - i) = 0
        BY <1>1, <4>2, <4>3, NoDigitBeyond
      <4>5. d[i] = Alphabet[1]
        BY <1>9, <4>4
      <4>6. Alphabet[1] = "A"
        BY DEF Alphabet
      <4> QED
        BY <4>1, <4>5, <4>6
    <3>2. CASE i \notin 1..m
      <4>1. i - m \in 1..w /\ i = m + (i - m) /\ w - (i - m) = n - i
        BY <1>1, <1>6, <3>2
      <4>2. all[i] = q[i - m]
        BY <1>7, <1>8, <2>1, <4>1 DEF Follows
      <4> QED
        BY <1>8, <1>9, <4>1, <4>2
    <3> QED
      BY <3>1, <3>2
  <2>4. all = d
    BY <1>9, <2>2, <2>3, SameSequence
  <2> QED
    BY <2>4 DEF all
<1>11. EncodeInt(v, n) = Digits(v, n)
  BY <1>2, <1>4
<1> QED
  BY <1>5, <1>10, <1>11 DEF d

(* Pieces that meet make one.                                              *)
LEMMA PiecesMeet ==
  ASSUME NEW S, NEW s \in Seq(S), NEW c \in 0..Len(s), NEW b \in 0..c, NEW a \in 0..b
  PROVE  Piece(s, a, b) \o Piece(s, b, c) = Piece(s, a, c)
BY PartsMeet DEF Piece

(* It is clean where the other is.                                         *)
LEMMA CleanPiece ==
  ASSUME NEW S, NEW s \in Seq(S), NEW T, NEW b \in 0..Len(s), NEW a \in 0..b,
         \A j \in (a + 1)..b : s[j] \in T,
         NEW p, IsPiece(p, S, s, a, b)
  PROVE  p \in Seq(T)
<1>1. p \in Seq(S) /\ Len(p) = b - a /\ \A i \in 1..(b - a) : p[i] = s[a + i]
  BY DEF IsPiece
<1>2. \A i \in 1..(b - a) : a + i \in (a + 1)..b
  OBVIOUS
<1>3. \A i \in 1..(b - a) : p[i] \in T
  BY <1>1, <1>2
<1>4. \A i \in 1..Len(p) : p[i] \in T
  BY <1>1, <1>3
<1> QED
  BY <1>1, <1>4

(* And the other where it is.                                              *)
LEMMA CleanWhole ==
  ASSUME NEW S, NEW s \in Seq(S), NEW T, NEW b \in 0..Len(s), NEW a \in 0..b,
         NEW p, IsPiece(p, S, s, a, b), p \in Seq(T)
  PROVE  \A j \in (a + 1)..b : s[j] \in T
<1>1. Len(p) = b - a /\ \A i \in 1..(b - a) : p[i] = s[a + i]
  BY DEF IsPiece
<1>2. \A j \in (a + 1)..b : j - a \in 1..(b - a) /\ a + (j - a) = j
  OBVIOUS
<1>3. \A i \in 1..(b - a) : p[i] \in T
  BY <1>1
<1> QED
  BY <1>1, <1>2, <1>3

(* A version string of the second version that is accepted has its parts   *)
(* where they belong.                                                      *)
LEMMA VersionTwoReads ==
  ASSUME NEW S, NEW text \in Seq(S), ReadVersion("V2", text).verdict = "Ok"
  PROVE  /\ 19 <= Len(text)
         /\ ReadVersion("V2", text).size = 19
         /\ ReadVersion("V2", text) =
              [verdict |-> "Ok", size |-> 19, value |-> ReadVersion("V2", text).value]
         /\ ReadVersion("V2", text).value \in ParseV2(text)
         /\ InAlphabet(Part(text, 5, 6) \o Part(text, 15, 4))
         /\ Part(text, 5, 1) = MajorTwo /\ Part(text, 8, 1) = MajorTwo
         /\ text[19] = "."
<1> DEFINE good == /\ InAlphabet(Part(text, 5, 6) \o Part(text, 15, 4))
                   /\ Part(text, 5, 1) = MajorTwo /\ Part(text, 8, 1) = MajorTwo
                   /\ text[19] = "."
           parsed == IF good THEN ParseV2(text) ELSE {}
<1>1. NeedBytes.verdict # "Ok" /\ Malformed.verdict # "Ok"
  BY DEF NeedBytes, Malformed
<1>2. ReadVersion("V2", text) =
        IF Len(text) < 19 THEN NeedBytes
        ELSE IF parsed = {} THEN Malformed
        ELSE [verdict |-> "Ok", size |-> 19, value |-> CHOOSE v \in parsed : TRUE]
  <2> DEFINE one == IsHex(Part(text, 5, 2) \o Part(text, 11, 6)) /\ text[17] = Underscore
             cases(kind) == CASE kind = "V1" /\ one -> ParseV1(text)
                              [] kind = "V2" /\ good -> ParseV2(text)
                              [] OTHER -> {}
             width(kind) == IF kind = "V1" THEN V1Width ELSE V2Width
  <2>1. ReadVersion("V2", text) =
          IF Len(text) < width("V2") THEN NeedBytes
          ELSE IF cases("V2") = {} THEN Malformed
          ELSE [verdict |-> "Ok", size |-> width("V2"), value |-> CHOOSE v \in cases("V2") : TRUE]
    BY Zenon DEF ReadVersion
  <2>2. width("V2") = 19
    BY DEF V2Width
  <2> HIDE DEF one, good
  <2>3. cases("V2") = parsed
    OBVIOUS
  <2> HIDE DEF width, cases, parsed
  <2> QED
    BY <2>1, <2>2, <2>3
<1> HIDE DEF parsed
<1>3. ~(Len(text) < 19) /\ parsed # {}
  BY <1>1, <1>2
<1> DEFINE value == CHOOSE v \in parsed : TRUE
<1>4. value \in parsed
  BY <1>3
<1> HIDE DEF value
<1>5. ReadVersion("V2", text) = [verdict |-> "Ok", size |-> 19, value |-> value]
  BY <1>2, <1>3 DEF value
<1>6. good /\ value \in ParseV2(text)
  <2> HIDE DEF good
  <2> QED
    BY <1>4 DEF parsed
<1> QED
  BY <1>3, <1>5, <1>6

(* A version string of the second version that is accepted is written      *)
(* again as it was.                                                        *)
LEMMA VersionTwoIsCanonical ==
  ASSUME NEW S, NEW text \in Seq(S), ReadVersion("V2", text).verdict = "Ok"
  PROVE  WriteVersion(ReadVersion("V2", text).value) = SubSeq(text, 1, 19)
<1> DEFINE v == ReadVersion("V2", text).value
           letters == DOMAIN Sextet
<1>1. /\ 19 <= Len(text) /\ Len(text) \in Nat
      /\ v \in ParseV2(text)
      /\ InAlphabet(Part(text, 5, 6) \o Part(text, 15, 4))
      /\ Part(text, 5, 1) = MajorTwo /\ Part(text, 8, 1) = MajorTwo
      /\ text[19] = "."
  BY VersionTwoReads
<1> HIDE DEF v
<1> DEFINE P(a, b) == Piece(text, a, b)
<1>2. /\ Part(text, 1, 4) = P(0, 4) /\ Part(text, 5, 1) = P(4, 5) /\ Part(text, 6, 2) = P(5, 7)
      /\ Part(text, 8, 1) = P(7, 8) /\ Part(text, 9, 2) = P(8, 10) /\ Part(text, 11, 4) = P(10, 14)
      /\ Part(text, 15, 4) = P(14, 18) /\ Part(text, 5, 6) = P(4, 10)
  BY DEF Part, Piece
<1>3. PICK proto \in Named(Protocols, P(0, 4)), kind \in Named(Kinds, P(10, 14)) :
        v = [kind |-> "V2", proto |-> proto, minor |-> DecodeInt(P(5, 7)),
             genus |-> DecodeInt(P(8, 10)), form |-> kind, size |-> DecodeInt(P(14, 18))]
  <2> HIDE DEF P
  <2> QED
    BY <1>1, <1>2 DEF ParseV2
<1>4. Protocols[proto] = P(0, 4) /\ Kinds[kind] = P(10, 14)
  BY DEF Named
<1>5. ASSUME NEW c \in 0..19, NEW b \in 0..c, NEW a \in 0..b
      PROVE  /\ P(a, b) \o P(b, c) = P(a, c)
             /\ IsPiece(P(a, b), S, text, a, b)
  <2>1. c \in 0..Len(text) /\ b \in 0..Len(text)
    BY <1>1
  <2> QED
    BY <2>1, PiecesMeet, PieceIs
<1> HIDE DEF P
<1>6. /\ IsPiece(P(4, 10), S, text, 4, 10) /\ IsPiece(P(14, 18), S, text, 14, 18)
      /\ IsPiece(P(5, 7), S, text, 5, 7) /\ IsPiece(P(8, 10), S, text, 8, 10)
      /\ IsPiece(P(18, 19), S, text, 18, 19)
  <2>1. /\ 10 \in 0..19 /\ 4 \in 0..10 /\ 10 \in 0..10 /\ 18 \in 0..18 /\ 18 \in 0..19 /\ 14 \in 0..18
        /\ 7 \in 0..19 /\ 7 \in 0..7 /\ 5 \in 0..7 /\ 8 \in 0..10 /\ 19 \in 0..19 /\ 18 \in 0..19 /\ 18 \in 0..19
        /\ 18 \in 0..19
    OBVIOUS
  <2> QED
    BY <1>5, <2>1
<1>7. P(18, 19) = <<".">>
  <2> DEFINE s == P(18, 19)
  <2>1. s \in Seq(S) /\ Len(s) = 1 /\ s[1] = text[19]
    BY <1>6 DEF IsPiece
  <2> HIDE DEF s
  <2>2. s = <<text[19]>>
    BY <2>1
  <2> QED
    BY <1>1, <2>2 DEF s
<1>8. P(4, 10) \in Seq(letters) /\ P(14, 18) \in Seq(letters)
  <2>1. InAlphabet(P(4, 10) \o P(14, 18))
    BY <1>1, <1>2
  <2>2. P(4, 10) \in Seq(S) /\ P(14, 18) \in Seq(S)
    BY <1>6 DEF IsPiece
  <2> QED
    BY <2>1, <2>2, CleanParts
<1>9. /\ P(5, 7) \in Seq(letters) /\ Len(P(5, 7)) = 2
      /\ P(8, 10) \in Seq(letters) /\ Len(P(8, 10)) = 2
      /\ P(14, 18) \in Seq(letters) /\ Len(P(14, 18)) = 4
  <2> DEFINE first == 4
             last == 10
             part == P(4, 10)
  <2>1. last \in 0..Len(text) /\ first \in 0..last
    BY <1>1
  <2>2. IsPiece(part, S, text, first, last) /\ part \in Seq(letters)
    BY <1>6, <1>8
  <2>3. \A j \in (first + 1)..last : j \in 5..10
    OBVIOUS
  <2>4. \A j \in 5..10 : j \in (first + 1)..last
    OBVIOUS
  <2> HIDE DEF first, last, part, letters
  <2>5. \A j \in (first + 1)..last : text[j] \in letters
    BY <2>1, <2>2, CleanWhole
  <2>6. \A j \in 5..10 : text[j] \in letters
    BY <2>4, <2>5
  <2>7. ASSUME NEW a \in {5, 8}, NEW b, b = a + 2, IsPiece(P(a, b), S, text, a, b)
        PROVE  P(a, b) \in Seq(letters) /\ Len(P(a, b)) = 2
    <3> DEFINE p == P(a, b)
    <3>1. b \in 0..Len(text) /\ a \in 0..b /\ \A j \in (a + 1)..b : j \in 5..10
      BY <1>1, <2>7
    <3>2. \A j \in (a + 1)..b : text[j] \in letters
      BY <2>6, <3>1
    <3>3. IsPiece(p, S, text, a, b)
      BY <2>7
    <3> HIDE DEF p
    <3>4. p \in Seq(letters)
      BY <3>1, <3>2, <3>3, CleanPiece
    <3>5. Len(p) = 2
      BY <2>7, <3>3 DEF IsPiece
    <3> QED
      BY <3>4, <3>5 DEF p
  <2>8. Len(P(14, 18)) = 4
    BY <1>6 DEF IsPiece
  <2>9. 5 \in {5, 8} /\ 8 \in {5, 8} /\ 7 = 5 + 2 /\ 10 = 8 + 2
    OBVIOUS
  <2>10. P(5, 7) \in Seq(letters) /\ Len(P(5, 7)) = 2
    BY <1>6, <2>7, <2>9
  <2>11. P(8, 10) \in Seq(letters) /\ Len(P(8, 10)) = 2
    BY <1>6, <2>7, <2>9
  <2> QED
    BY <1>8, <2>8, <2>10, <2>11 DEF letters
<1>10. /\ FixedB64(DecodeInt(P(5, 7)), 2) = P(5, 7)
       /\ FixedB64(DecodeInt(P(8, 10)), 2) = P(8, 10)
       /\ FixedB64(DecodeInt(P(14, 18)), 4) = P(14, 18)
  <2>1. ASSUME NEW p \in Seq(letters), NEW n \in 1..4, Len(p) = n
        PROVE  FixedB64(DecodeInt(p), n) = p
    <3>1. n \in 0..4
      OBVIOUS
    <3>2. Digits(DecodeInt(p), n) = p /\ DecodeInt(p) < 64 ^ n /\ DecodeInt(p) \in Fields
      BY <2>1, <3>1, DecodeReturns
    <3> QED
      BY <3>2, FixedIs
  <2>2. 2 \in 1..4 /\ 4 \in 1..4
    OBVIOUS
  <2> HIDE DEF letters
  <2> QED
    BY <1>9, <2>1, <2>2
<1>11. WriteVersion(v) = P(0, 4) \o P(4, 5) \o P(5, 7) \o P(7, 8) \o P(8, 10) \o P(10, 14) \o P(14, 18) \o P(18, 19)
  <2>1. v.kind # "V1" /\ v.proto = proto /\ v.form = kind /\ v.minor = DecodeInt(P(5, 7))
        /\ v.genus = DecodeInt(P(8, 10)) /\ v.size = DecodeInt(P(14, 18))
    BY <1>3
  <2>2. WriteVersion(v) = Protocols[v.proto] \o MajorTwo \o FixedB64(v.minor, 2) \o MajorTwo \o FixedB64(v.genus, 2)
         \o Kinds[v.form] \o FixedB64(v.size, 4) \o <<".">>
    BY <2>1, Zenon DEF WriteVersion
  <2>3. MajorTwo = P(4, 5) /\ MajorTwo = P(7, 8)
    BY <1>1, <1>2
  <2> QED
    BY <1>4, <1>7, <1>10, <2>1, <2>2, <2>3, Zenon
<1>12. WriteVersion(v) = P(0, 19)
  <2>1. /\ 5 \in 0..19 /\ 7 \in 0..19 /\ 8 \in 0..19 /\ 10 \in 0..19 /\ 14 \in 0..19 /\ 18 \in 0..19 /\ 19 \in 0..19
        /\ 4 \in 0..5 /\ 5 \in 0..7 /\ 7 \in 0..8 /\ 8 \in 0..10 /\ 10 \in 0..14 /\ 14 \in 0..18 /\ 18 \in 0..19
    OBVIOUS
  <2>2. /\ 0 \in 0..4 /\ 0 \in 0..5 /\ 0 \in 0..7 /\ 0 \in 0..8 /\ 0 \in 0..10 /\ 0 \in 0..14 /\ 0 \in 0..18
    OBVIOUS
  <2>3. P(0, 4) \o P(4, 5) = P(0, 5)
    BY <1>5, <2>1, <2>2, Zenon
  <2>4. P(0, 5) \o P(5, 7) = P(0, 7)
    BY <1>5, <2>1, <2>2, Zenon
  <2>5. P(0, 7) \o P(7, 8) = P(0, 8)
    BY <1>5, <2>1, <2>2, Zenon
  <2>6. P(0, 8) \o P(8, 10) = P(0, 10)
    BY <1>5, <2>1, <2>2, Zenon
  <2>7. P(0, 10) \o P(10, 14) = P(0, 14)
    BY <1>5, <2>1, <2>2, Zenon
  <2>8. P(0, 14) \o P(14, 18) = P(0, 18)
    BY <1>5, <2>1, <2>2, Zenon
  <2>9. P(0, 18) \o P(18, 19) = P(0, 19)
    BY <1>5, <2>1, <2>2, Zenon
  <2> QED
    BY <1>11, <2>3, <2>4, <2>5, <2>6, <2>7, <2>8, <2>9, Zenon
<1> QED
  BY <1>12 DEF P, v, Piece

(* A head is shared with what it is the head of.                           *)
LEMMA HeadIsShared ==
  ASSUME NEW S, NEW s \in Seq(S), NEW n \in 0..Len(s), NEW m \in 0..n
  PROVE  /\ SubSeq(s, 1, n) \in Seq(S) /\ Len(SubSeq(s, 1, n)) = n
         /\ SameHead(s, SubSeq(s, 1, n), m)
         /\ SameHead(SubSeq(s, 1, n), s, m)
<1> DEFINE head == SubSeq(s, 1, n)
<1>1. head \in Seq(S) /\ Len(head) = n /\ \A i \in 1..n : head[i] = s[i]
  <2>1. n - 1 + 1 = n /\ \A i \in 1..n : 1 + i - 1 = i
    OBVIOUS
  <2> QED
    BY <2>1, PartOf
<1> HIDE DEF head
<1>2. SameHead(s, head, m) /\ SameHead(head, s, m)
  BY <1>1 DEF SameHead
<1> QED
  BY <1>1, <1>2 DEF head

(* An indexed signature that is accepted.                                  *)
LEMMA IndexerReads ==
  ASSUME NEW S, NEW text \in Seq(S), ReadIndexer(text).verdict = "Ok"
  PROVE  LET hs == IndexHardSize(text[1])
             code == SubSeq(text, 1, hs)
             size == Xizage[code]
         IN  /\ text # <<>> /\ hs \in {1, 2} /\ hs <= Len(text)
             /\ code \in IndexedSigCodes
             /\ IndexedCodeAt(text) = [verdict |-> "Ok", code |-> code]
             /\ CodeChars(size) <= Len(text) /\ size.fs <= Len(text)
             /\ ReadIndexer(text) = IndexerAt(code, size, text)
             /\ ReadIndexer(text).size = size.fs
<1> DEFINE hs == IndexHardSize(text[1])
           code == SubSeq(text, 1, hs)
           size == Xizage[code]
<1>1. NeedBytes.verdict # "Ok" /\ Malformed.verdict # "Ok"
  BY DEF NeedBytes, Malformed
<1>2. IndexedCodeAt(text).verdict = "Ok"
  BY <1>1 DEF ReadIndexer, IfOk
<1>3. /\ text # <<>> /\ hs \in {1, 2} /\ hs <= Len(text)
      /\ code \in IndexedSigCodes
      /\ IndexedCodeAt(text) = [verdict |-> "Ok", code |-> code]
  BY <1>2, IndexedCodeReads
<1> HIDE DEF hs, code
<1>4. ReadIndexer(text) = IF Len(text) < CodeChars(size) THEN NeedBytes ELSE IndexerAt(code, size, text)
  BY <1>3 DEF ReadIndexer, IfOk
<1>5. CodeChars(size) \in Nat /\ size.fs \in Nat
  BY <1>3, XizageFits
<1> HIDE DEF size
<1>6. ~(Len(text) < CodeChars(size)) /\ ReadIndexer(text) = IndexerAt(code, size, text)
  BY <1>1, <1>4
<1>7. ~(Len(text) < size.fs) /\ \E value : IndexerAt(code, size, text) = [verdict |-> "Ok", size |-> size.fs, value |-> value]
  BY <1>6, IndexerIs
<1>8. IndexerAt(code, size, text).size = size.fs
  BY <1>7
<1>9. CodeChars(size) <= Len(text) /\ size.fs <= Len(text)
  BY <1>5, <1>6, <1>7
<1> QED
  BY <1>3, <1>6, <1>8, <1>9 DEF hs, code, size

(* It is read from the characters of its span.                             *)
LEMMA IndexerTextIsLocal ==
  ASSUME NEW S, NEW a \in Seq(S), NEW b \in Seq(S), ReadIndexer(a).verdict = "Ok",
         SameHead(a, b, ReadIndexer(a).size)
  PROVE  ReadIndexer(b) = ReadIndexer(a)
<1> DEFINE hs == IndexHardSize(a[1])
           code == SubSeq(a, 1, hs)
           size == Xizage[code]
           full == size.fs
<1>1. /\ a # <<>> /\ hs \in {1, 2} /\ hs <= Len(a)
      /\ code \in IndexedSigCodes
      /\ CodeChars(size) <= Len(a) /\ full <= Len(a)
      /\ ReadIndexer(a) = IndexerAt(code, size, a)
      /\ ReadIndexer(a).size = full
  BY IndexerReads
<1>2. code = SubSeq(a, 1, hs)
  OBVIOUS
<1> HIDE DEF code
<1>3. CodeChars(size) \in {2, 4, 6, 8} /\ full \in {88, 92, 156, 160}
  BY <1>1, XizageFits
<1> HIDE DEF size
<1>4. full \in Nat /\ hs \in 0..full /\ SameHead(a, b, full)
  BY <1>1, <1>3
<1>5. full <= Len(b) /\ \A i \in 1..full : a[i] = b[i]
  BY <1>4 DEF SameHead
<1> HIDE DEF full
<1>6. a[1] = b[1] /\ b # <<>> /\ hs <= Len(b) /\ CodeChars(size) <= Len(b)
  <2> HIDE DEF hs
  <2>1. Len(b) \in Nat /\ 1 \in 1..full
    BY <1>3
  <2> QED
    BY <1>1, <1>3, <1>4, <1>5, <2>1
<1>7. IndexHardSize(b[1]) = hs
  BY <1>6
<1> HIDE DEF hs
<1>8. SubSeq(b, 1, hs) = code
  <2>1. 1 \in Nat \ {0} /\ 1 <= hs + 1
    BY <1>1
  <2> QED
    BY <1>2, <1>4, <2>1, SamePart, ZenonT(60)
<1>9. IndexedCodeAt(b) = [verdict |-> "Ok", code |-> code]
  <2>1. IndexedCodeAt(b) =
          CASE b = <<>> -> NeedBytes
            [] b # <<>> /\ hs = 0 -> Malformed
            [] b # <<>> /\ hs > Len(b) -> NeedBytes
            [] OTHER -> IF code \in IndexedSigCodes THEN [verdict |-> "Ok", code |-> code] ELSE Malformed
    BY <1>7, <1>8 DEF IndexedCodeAt
  <2>2. ~(hs > Len(b)) /\ hs # 0
    BY <1>1, <1>6
  <2> QED
    BY <1>1, <1>6, <2>1, <2>2
<1>10. ReadIndexer(b) = IF Len(b) < CodeChars(size) THEN NeedBytes ELSE IndexerAt(code, size, b)
  BY <1>9 DEF ReadIndexer, IfOk, size
<1>11. ~(Len(b) < CodeChars(size))
  BY <1>3, <1>6
<1>12. /\ IndexerAt(code, size, SubSeq(a, 1, full)) = IndexerAt(code, size, a)
       /\ IndexerAt(code, size, SubSeq(b, 1, full)) = IndexerAt(code, size, b)
  BY <1>1, <1>5, IndexerReadsSpan DEF size, full
<1>13. SubSeq(b, 1, full) = SubSeq(a, 1, full)
  <2>1. 1 \in Nat \ {0} /\ 1 <= full + 1 /\ full \in 0..full
    BY <1>4
  <2> QED
    BY <1>4, <2>1, SamePart, ZenonT(60)
<1> QED
  BY <1>1, <1>10, <1>11, <1>12, <1>13

(* Less than the span of an indexed signature is never refused.            *)
LEMMA IndexerShortens ==
  ASSUME NEW S, NEW text \in Seq(S), ReadIndexer(text).verdict = "Ok",
         NEW n \in 0..Len(text), n < ReadIndexer(text).size
  PROVE  ReadIndexer(SubSeq(text, 1, n)) = NeedBytes
<1> DEFINE hs == IndexHardSize(text[1])
           code == SubSeq(text, 1, hs)
           size == Xizage[code]
           cs == size.hs + size.ss
           os == size.os
           full == size.fs
           head == SubSeq(text, 1, n)
<1>1. /\ text # <<>> /\ hs \in {1, 2} /\ hs <= Len(text)
      /\ code \in IndexedSigCodes
      /\ CodeChars(size) <= Len(text) /\ full <= Len(text)
      /\ ReadIndexer(text) = IndexerAt(code, size, text)
      /\ ReadIndexer(text).size = full
  BY IndexerReads
<1>2. code = SubSeq(text, 1, hs) /\ n < full
  BY <1>1
<1> HIDE DEF code
<1>3. /\ size.hs \in {1, 2} /\ os \in {0, 1, 2, 3} /\ cs \in {2, 4, 6, 8} /\ size.hs + 1 <= cs - os
      /\ full \in {88, 92, 156, 160} /\ CodeChars(size) = cs
  BY <1>1, XizageFits DEF CodeChars
<1> HIDE DEF size
<1>4. head \in Seq(S) /\ Len(head) = n /\ SameHead(text, head, n)
  <2>1. n \in 0..n
    OBVIOUS
  <2> QED
    BY <2>1, HeadIsShared
<1> HIDE DEF head
<1>5. NeedBytes.verdict # "Ok" /\ Malformed.verdict # "Ok"
  BY DEF NeedBytes, Malformed
<1>6. CASE n = 0
  <2>1. head = <<>>
    BY <1>4, <1>6
  <2>2. IndexedCodeAt(head) = NeedBytes
    BY <2>1 DEF IndexedCodeAt
  <2> QED
    BY <1>5, <2>2 DEF ReadIndexer, IfOk, head
<1>7. CASE n # 0
  <2>1. head # <<>> /\ head[1] = text[1]
    BY <1>4, <1>7 DEF SameHead
  <2>2. IndexHardSize(head[1]) = hs
    BY <2>1
  <2> HIDE DEF hs
  <2>3. IndexedCodeAt(head) =
          CASE head = <<>> -> NeedBytes
            [] head # <<>> /\ hs = 0 -> Malformed
            [] head # <<>> /\ hs > Len(head) -> NeedBytes
            [] OTHER -> IF SubSeq(head, 1, hs) \in IndexedSigCodes
                        THEN [verdict |-> "Ok", code |-> SubSeq(head, 1, hs)] ELSE Malformed
    BY <2>2 DEF IndexedCodeAt
  <2>4. CASE hs > n
    <3>1. IndexedCodeAt(head) = NeedBytes
      BY <1>1, <1>4, <2>1, <2>3, <2>4
    <3> QED
      BY <1>5, <3>1 DEF ReadIndexer, IfOk, head
  <2>5. CASE ~(hs > n)
    <3>1. hs \in 0..n /\ 1 \in Nat \ {0} /\ 1 <= hs + 1 /\ n \in Nat
      BY <1>1, <2>5
    <3>2. SubSeq(head, 1, hs) = code
      <4>1. 1 \in Nat \ {0} /\ hs \in 0..n /\ 1 <= hs + 1 /\ n \in Nat /\ text \in Seq(S)
        BY <3>1
      <4>2. SubSeq(text, 1, hs) = SubSeq(head, 1, hs)
        BY <1>4, <4>1, SamePart, ZenonT(60)
      <4> QED
        BY <1>2, <4>2
    <3>3. IndexedCodeAt(head) = [verdict |-> "Ok", code |-> code]
      <4>1. head # <<>> /\ hs # 0 /\ ~(hs > Len(head)) /\ SubSeq(head, 1, hs) \in IndexedSigCodes
        <5>1. hs # 0 /\ hs <= n /\ Len(head) = n /\ n \in Nat /\ hs \in Nat
          BY <1>1, <1>4, <2>5
        <5>2. SubSeq(head, 1, hs) \in IndexedSigCodes
          BY <1>1, <3>2, Zenon
        <5> QED
          BY <2>1, <5>1, <5>2
      <4>2. ~(head # <<>> /\ hs = 0) /\ ~(head # <<>> /\ hs > Len(head)) /\ head # <<>>
        BY <4>1
      <4> QED
        BY <2>3, <3>2, <4>1, <4>2
    <3>4. ReadIndexer(head) = IF Len(head) < CodeChars(size) THEN NeedBytes ELSE IndexerAt(code, size, head)
      BY <3>3 DEF ReadIndexer, IfOk, size
    <3>5. CASE n < cs
      BY <1>3, <1>4, <3>4, <3>5 DEF head
    <3>6. CASE ~(n < cs)
      <4> DEFINE index == SubSeq(text, size.hs + 1, cs - os)
                 second == SubSeq(text, cs - os + 1, cs)
      <4>1. SubSeq(head, size.hs + 1, cs - os) = index
        <5> DEFINE first == size.hs + 1
                   last == cs - os
        <5>1. first \in Nat \ {0} /\ last \in 0..n /\ first <= last + 1 /\ n \in Nat
          <6> HIDE DEF cs, os
          <6> QED
            BY <1>3, <3>6
        <5>2. index = SubSeq(text, first, last)
          OBVIOUS
        <5> HIDE DEF first, last, index
        <5>3. SubSeq(text, first, last) = SubSeq(head, first, last)
          BY <1>4, <5>1, SamePart, ZenonT(60)
        <5> QED
          BY <5>2, <5>3 DEF first, last
      <4>2. SubSeq(head, cs - os + 1, cs) = second
        <5> DEFINE first == cs - os + 1
                   last == cs
        <5>1. first \in Nat \ {0} /\ last \in 0..n /\ first <= last + 1 /\ n \in Nat
          <6> HIDE DEF cs, os
          <6> QED
            BY <1>3, <3>6
        <5>2. second = SubSeq(text, first, last)
          OBVIOUS
        <5> HIDE DEF first, last, second
        <5> HIDE DEF cs, os, full
        <5>3. SubSeq(text, first, last) = SubSeq(head, first, last)
          BY <1>4, <5>1, SamePart, ZenonT(60)
        <5> QED
          BY <5>2, <5>3 DEF first, last
      <4> DEFINE Zero == CurrentOnly(code) => DecodeInt(second) = 0
                 Clean == InAlphabet(index \o second)
                 bad(t) == ~Clean \/ ~Zero
      <4>3. \A t : IndexerAt(code, size, t).verdict = "Ok" /\ SubSeq(t, size.hs + 1, cs - os) = index
                     /\ SubSeq(t, cs - os + 1, cs) = second => Clean /\ Zero
        <5> SUFFICES ASSUME NEW t, IndexerAt(code, size, t).verdict = "Ok",
                            SubSeq(t, size.hs + 1, cs - os) = index, SubSeq(t, cs - os + 1, cs) = second
                     PROVE  Clean /\ Zero
          OBVIOUS
        <5> HIDE DEF index, second, os
        <5>1. SubSeq(t, size.hs + 1, cs - size.os) = index /\ SubSeq(t, cs - size.os + 1, cs) = second
          BY DEF os
        <5> QED
          BY <1>5, <5>1 DEF IndexerAt
      <4>4. IndexerAt(code, size, text).verdict = "Ok"
        BY <1>1
      <4>5. Clean /\ Zero
        BY <4>3, <4>4
      <4> HIDE DEF index, second, os
      <4>6. SubSeq(head, size.hs + 1, cs - size.os) = index /\ SubSeq(head, cs - size.os + 1, cs) = second
        BY <4>1, <4>2 DEF os
      <4>7. Len(head) < size.fs
        BY <1>2, <1>4
      <4>8. IndexerAt(code, size, head) = NeedBytes
        BY <4>5, <4>6, <4>7 DEF IndexerAt
      <4>9. ~(Len(head) < CodeChars(size))
        BY <1>3, <1>4, <3>6
      <4> QED
        BY <3>4, <4>8, <4>9 DEF head
    <3> QED
      BY <3>5, <3>6
  <2> QED
    BY <2>4, <2>5
<1> QED
  BY <1>6, <1>7

(* A part within a shared head is shared.                                  *)
LEMMA PartIsShared ==
  ASSUME NEW S, NEW a \in Seq(S), NEW b \in Seq(S), NEW n \in Nat, SameHead(a, b, n),
         NEW first \in 1..17, NEW w \in 1..6, first + w - 1 <= n
  PROVE  Part(a, first, w) = Part(b, first, w)
<1> DEFINE last == first + w - 1
<1>1. first \in Nat \ {0} /\ last \in 0..n /\ first <= last + 1
  OBVIOUS
<1>2. Part(a, first, w) = SubSeq(a, first, last) /\ Part(b, first, w) = SubSeq(b, first, last)
  BY DEF Part
<1> HIDE DEF last
<1>3. SubSeq(a, first, last) = SubSeq(b, first, last)
  BY <1>1, SamePart, ZenonT(60)
<1> QED
  BY <1>2, <1>3

(* A version string is read from its frame.                                *)
LEMMA VersionIsLocal ==
  ASSUME NEW S, NEW a \in Seq(S), NEW b \in Seq(S), NEW kind \in {"V1", "V2"},
         NEW width, width = IF kind = "V1" THEN V1Width ELSE V2Width, SameHead(a, b, width)
  PROVE  ReadVersion(kind, b) = ReadVersion(kind, a)
<1>1. width \in Nat /\ (kind = "V1" => width = 17) /\ (kind = "V2" => width = 19)
  BY DEF V1Width, V2Width
<1>2. width <= Len(a) /\ width <= Len(b) /\ \A i \in 1..width : a[i] = b[i]
  BY DEF SameHead
<1>3. \A first \in 1..17, w \in 1..6 : first + w - 1 <= width => Part(a, first, w) = Part(b, first, w)
  BY <1>1, PartIsShared
<1>4. CASE kind = "V1"
  <2>1. width = 17 /\ ~(Len(a) < 17) /\ ~(Len(b) < 17) /\ a[17] = b[17]
    BY <1>1, <1>2, <1>4
  <2>2. /\ Part(a, 1, 4) = Part(b, 1, 4) /\ Part(a, 5, 1) = Part(b, 5, 1) /\ Part(a, 6, 1) = Part(b, 6, 1)
        /\ Part(a, 7, 4) = Part(b, 7, 4) /\ Part(a, 11, 6) = Part(b, 11, 6) /\ Part(a, 5, 2) = Part(b, 5, 2)
    <3>1. /\ 1 \in 1..17 /\ 5 \in 1..17 /\ 6 \in 1..17 /\ 7 \in 1..17 /\ 11 \in 1..17
          /\ 4 \in 1..6 /\ 1 \in 1..6 /\ 6 \in 1..6 /\ 2 \in 1..6
          /\ 1 + 4 - 1 <= width /\ 5 + 1 - 1 <= width /\ 6 + 1 - 1 <= width /\ 7 + 4 - 1 <= width
          /\ 11 + 6 - 1 <= width /\ 5 + 2 - 1 <= width
      BY <2>1
    <3> QED
      BY <1>3, <3>1
  <2>3. ParseV1(a) = ParseV1(b)
    BY <2>2 DEF ParseV1
  <2>4. \A t : ReadVersion("V1", t) =
          IF Len(t) < 17 THEN NeedBytes
          ELSE IF (IF IsHex(Part(t, 5, 2) \o Part(t, 11, 6)) /\ t[17] = Underscore THEN ParseV1(t) ELSE {}) = {}
               THEN Malformed
          ELSE [verdict |-> "Ok", size |-> 17,
                value |-> CHOOSE v \in (IF IsHex(Part(t, 5, 2) \o Part(t, 11, 6)) /\ t[17] = Underscore
                                        THEN ParseV1(t) ELSE {}) : TRUE]
    <3> SUFFICES ASSUME NEW t
                 PROVE  ReadVersion("V1", t) =
          IF Len(t) < 17 THEN NeedBytes
          ELSE IF (IF IsHex(Part(t, 5, 2) \o Part(t, 11, 6)) /\ t[17] = Underscore THEN ParseV1(t) ELSE {}) = {}
               THEN Malformed
          ELSE [verdict |-> "Ok", size |-> 17,
                value |-> CHOOSE v \in (IF IsHex(Part(t, 5, 2) \o Part(t, 11, 6)) /\ t[17] = Underscore
                                        THEN ParseV1(t) ELSE {}) : TRUE]
      OBVIOUS
    <3> DEFINE one == IsHex(Part(t, 5, 2) \o Part(t, 11, 6)) /\ t[17] = Underscore
               two == /\ InAlphabet(Part(t, 5, 6) \o Part(t, 15, 4))
                      /\ Part(t, 5, 1) = MajorTwo /\ Part(t, 8, 1) = MajorTwo
                      /\ t[19] = "."
               cases(k) == CASE k = "V1" /\ one -> ParseV1(t)
                             [] k = "V2" /\ two -> ParseV2(t)
                             [] OTHER -> {}
               W(k) == IF k = "V1" THEN V1Width ELSE V2Width
    <3>1. ReadVersion("V1", t) =
            IF Len(t) < W("V1") THEN NeedBytes
            ELSE IF cases("V1") = {} THEN Malformed
            ELSE [verdict |-> "Ok", size |-> W("V1"), value |-> CHOOSE v \in cases("V1") : TRUE]
      BY Zenon DEF ReadVersion
    <3>2. W("V1") = 17
      BY DEF V1Width
    <3> HIDE DEF one, two, W
    <3>3. cases("V1") = IF one THEN ParseV1(t) ELSE {}
      OBVIOUS
    <3> HIDE DEF cases
    <3>4. ReadVersion("V1", t) =
            IF Len(t) < 17 THEN NeedBytes
            ELSE IF (IF one THEN ParseV1(t) ELSE {}) = {} THEN Malformed
            ELSE [verdict |-> "Ok", size |-> 17, value |-> CHOOSE v \in (IF one THEN ParseV1(t) ELSE {}) : TRUE]
      BY <3>1, <3>2, <3>3
    <3> QED
      BY <3>4, Zenon DEF one
  <2> QED
    BY <1>4, <2>1, <2>2, <2>3, <2>4
<1>5. CASE kind = "V2"
  <2>1. width = 19 /\ ~(Len(a) < 19) /\ ~(Len(b) < 19) /\ a[19] = b[19]
    BY <1>1, <1>2, <1>5
  <2>2. /\ Part(a, 1, 4) = Part(b, 1, 4) /\ Part(a, 6, 2) = Part(b, 6, 2) /\ Part(a, 9, 2) = Part(b, 9, 2)
        /\ Part(a, 11, 4) = Part(b, 11, 4) /\ Part(a, 15, 4) = Part(b, 15, 4) /\ Part(a, 5, 6) = Part(b, 5, 6)
        /\ Part(a, 5, 1) = Part(b, 5, 1) /\ Part(a, 8, 1) = Part(b, 8, 1)
    <3>1. /\ 1 \in 1..17 /\ 5 \in 1..17 /\ 6 \in 1..17 /\ 8 \in 1..17 /\ 9 \in 1..17 /\ 11 \in 1..17 /\ 15 \in 1..17
          /\ 4 \in 1..6 /\ 1 \in 1..6 /\ 6 \in 1..6 /\ 2 \in 1..6
          /\ 1 + 4 - 1 <= width /\ 6 + 2 - 1 <= width /\ 9 + 2 - 1 <= width /\ 11 + 4 - 1 <= width
          /\ 15 + 4 - 1 <= width /\ 5 + 6 - 1 <= width /\ 5 + 1 - 1 <= width /\ 8 + 1 - 1 <= width
      BY <2>1
    <3> QED
      BY <1>3, <3>1
  <2>3. ParseV2(a) = ParseV2(b)
    BY <2>2 DEF ParseV2
  <2> DEFINE good(t) == /\ InAlphabet(Part(t, 5, 6) \o Part(t, 15, 4))
                        /\ Part(t, 5, 1) = MajorTwo /\ Part(t, 8, 1) = MajorTwo
                        /\ t[19] = "."
             parsed(t) == IF good(t) THEN ParseV2(t) ELSE {}
  <2>4. ASSUME NEW t
        PROVE  ReadVersion("V2", t) =
                 IF Len(t) < 19 THEN NeedBytes
                 ELSE IF parsed(t) = {} THEN Malformed
                 ELSE [verdict |-> "Ok", size |-> 19, value |-> CHOOSE v \in parsed(t) : TRUE]
    <3> DEFINE one == IsHex(Part(t, 5, 2) \o Part(t, 11, 6)) /\ t[17] = Underscore
               cases(k) == CASE k = "V1" /\ one -> ParseV1(t)
                             [] k = "V2" /\ good(t) -> ParseV2(t)
                             [] OTHER -> {}
               W(k) == IF k = "V1" THEN V1Width ELSE V2Width
    <3>1. ReadVersion("V2", t) =
            IF Len(t) < W("V2") THEN NeedBytes
            ELSE IF cases("V2") = {} THEN Malformed
            ELSE [verdict |-> "Ok", size |-> W("V2"), value |-> CHOOSE v \in cases("V2") : TRUE]
      BY Zenon DEF ReadVersion
    <3>2. W("V2") = 19
      BY DEF V2Width
    <3> HIDE DEF one, good, W
    <3>3. cases("V2") = parsed(t)
      OBVIOUS
    <3> HIDE DEF cases, parsed
    <3> QED
      BY <3>1, <3>2, <3>3
  <2>5. good(a) = good(b)
    BY <2>1, <2>2
  <2>6. parsed(a) = parsed(b)
    <3> HIDE DEF good
    <3> QED
      BY <2>3, <2>5
  <2> HIDE DEF parsed
  <2>7. ReadVersion("V2", a) = ReadVersion("V2", b)
    BY <2>1, <2>4, <2>6
  <2> QED
    BY <1>5, <2>7
<1> QED
  BY <1>4, <1>5

(* Less than the frame of a version string is never refused.               *)
LEMMA VersionShortens ==
  ASSUME NEW S, NEW text \in Seq(S), NEW kind \in {"V1", "V2"}, NEW n \in 0..Len(text),
         n < (IF kind = "V1" THEN V1Width ELSE V2Width)
  PROVE  ReadVersion(kind, SubSeq(text, 1, n)) = NeedBytes
<1> DEFINE head == SubSeq(text, 1, n)
<1>1. Len(head) = n
  <2>1. n \in 0..n
    OBVIOUS
  <2> QED
    BY <2>1, HeadIsShared
<1> HIDE DEF head
<1>2. Len(head) < (IF kind = "V1" THEN V1Width ELSE V2Width)
  BY <1>1
<1>3. ReadVersion(kind, head) = NeedBytes
  BY <1>2, Zenon DEF ReadVersion
<1> QED
  BY <1>3 DEF head

(* How many characters a version string takes.                             *)
LEMMA VersionSpan ==
  ASSUME NEW S, NEW text \in Seq(S), NEW kind \in {"V1", "V2"}, ReadVersion(kind, text).verdict = "Ok"
  PROVE  LET width == IF kind = "V1" THEN V1Width ELSE V2Width
         IN  ReadVersion(kind, text).size = width /\ width \in {17, 19} /\ width <= Len(text)
<1> DEFINE width == IF kind = "V1" THEN V1Width ELSE V2Width
<1>1. width \in {17, 19}
  BY DEF V1Width, V2Width
<1>2. Len(text) < width => ReadVersion(kind, text) = NeedBytes
  BY Zenon DEF ReadVersion
<1>3. ~(Len(text) < width)
  BY <1>2, Verdicts
<1>4. ReadVersion(kind, text).size = width
  BY Verdicts DEF ReadVersion
<1> HIDE DEF width
<1>5. width <= Len(text)
  BY <1>1, <1>3
<1> QED
  BY <1>1, <1>4, <1>5 DEF width

(* How many characters a primitive takes.                                  *)
LEMMA TextSpan ==
  ASSUME NEW S, NEW text \in Seq(S), NEW family, ReadText(family, text).verdict = "Ok"
  PROVE  /\ ReadText(family, text).size \in Nat \ {0}
         /\ ReadText(family, text).size <= Len(text)
         /\ family \notin {"V1", "V2"} => ReadText(family, text).size % 4 = 0
<1>1. CASE family = "Siger"
  <2> DEFINE code == SubSeq(text, 1, IndexHardSize(text[1]))
             full == Xizage[code].fs
  <2>1. ReadText(family, text) = ReadIndexer(text)
    BY <1>1 DEF ReadText
  <2>2. code \in IndexedSigCodes /\ full <= Len(text) /\ ReadIndexer(text).size = full
    BY <2>1, IndexerReads
  <2> HIDE DEF code
  <2>3. full \in {88, 92, 156, 160}
    BY <2>2, XizageFits
  <2> HIDE DEF full
  <2>4. full \in Nat \ {0} /\ full % 4 = 0
    BY <2>3
  <2> QED
    BY <2>1, <2>2, <2>4
<1>2. CASE family \in {"V1", "V2"}
  <2>1. ReadText(family, text) = ReadVersion(family, text)
    BY <1>2 DEF ReadText
  <2> DEFINE width == IF family = "V1" THEN V1Width ELSE V2Width
  <2>2. ReadVersion(family, text).verdict = "Ok"
    BY <2>1
  <2>3. ReadVersion(family, text).size = width /\ width \in {17, 19} /\ width <= Len(text)
    BY <1>2, <2>2, VersionSpan
  <2> HIDE DEF width
  <2> QED
    BY <1>2, <2>1, <2>3
<1>3. CASE family \notin {"Siger", "V1", "V2"}
  <2>1. ReadText(family, text) = Typed(family, ReadMatter(text))
    BY <1>3 DEF ReadText
  <2>2. ReadText(family, text) = ReadMatter(text) /\ ReadMatter(text).verdict = "Ok"
    BY <2>1, TypedReads
  <2> DEFINE size == Sizage[HeadOf(text)]
             full == FullOf(size, text)
             cs == CodeChars(size)
  <2>3. /\ full \in Nat /\ full % 4 = 0 /\ cs \in 0..full /\ size.hs <= cs
        /\ ReadMatter(text).size = full
    BY <2>2, SpanReads
  <2>4. SizeFits(size) /\ full <= Len(text)
    BY <2>2, MatterReads
  <2>5. size.hs \in {1, 2, 4}
    BY <2>4 DEF SizeFits
  <2> HIDE DEF size, full, cs
  <2>6. full \in Nat \ {0}
    BY <2>3, <2>5
  <2> QED
    BY <2>2, <2>3, <2>4, <2>6
<1> QED
  BY <1>1, <1>2, <1>3

(* The reader of text looks at what it takes and at nothing after it.      *)
LEMMA TextIsLocal ==
  ASSUME NEW S, NEW a \in Seq(S), NEW b \in Seq(S), NEW family, ReadText(family, a).verdict = "Ok",
         SameHead(a, b, ReadText(family, a).size)
  PROVE  ReadText(family, b) = ReadText(family, a)
<1>1. CASE family = "Siger"
  <2>1. ReadText(family, a) = ReadIndexer(a) /\ ReadText(family, b) = ReadIndexer(b)
    BY <1>1 DEF ReadText
  <2>2. ReadIndexer(a).verdict = "Ok" /\ SameHead(a, b, ReadIndexer(a).size)
    BY <2>1
  <2>3. ReadIndexer(b) = ReadIndexer(a)
    BY <2>2, IndexerTextIsLocal
  <2> QED
    BY <2>1, <2>3
<1>2. CASE family \in {"V1", "V2"}
  <2>1. ReadText(family, a) = ReadVersion(family, a) /\ ReadText(family, b) = ReadVersion(family, b)
    BY <1>2 DEF ReadText
  <2> DEFINE width == IF family = "V1" THEN V1Width ELSE V2Width
  <2>2. ReadVersion(family, a).verdict = "Ok"
    BY <2>1
  <2>3. ReadVersion(family, a).size = width
    BY <1>2, <2>2, VersionSpan
  <2>4. SameHead(a, b, width)
    BY <2>1, <2>3
  <2>5. ReadVersion(family, b) = ReadVersion(family, a)
    BY <1>2, <2>4, VersionIsLocal
  <2> QED
    BY <2>1, <2>5
<1>3. CASE family \notin {"Siger", "V1", "V2"}
  <2>1. ReadText(family, a) = Typed(family, ReadMatter(a)) /\ ReadText(family, b) = Typed(family, ReadMatter(b))
    BY <1>3 DEF ReadText
  <2>2. ReadText(family, a) = ReadMatter(a) /\ ReadMatter(a).verdict = "Ok"
    BY <2>1, TypedReads
  <2>3. SameHead(a, b, ReadMatter(a).size)
    BY <2>2
  <2>4. ReadMatter(b) = ReadMatter(a)
    BY <2>2, <2>3, MatterTextIsLocal
  <2> QED
    BY <2>1, <2>4
<1> QED
  BY <1>1, <1>2, <1>3

(* Of less than that it asks for more.                                     *)
LEMMA TextShortens ==
  ASSUME NEW S, NEW text \in Seq(S), NEW family, ReadText(family, text).verdict = "Ok",
         NEW n \in 0..Len(text), n < ReadText(family, text).size
  PROVE  ReadText(family, SubSeq(text, 1, n)) = NeedBytes
<1> DEFINE head == SubSeq(text, 1, n)
<1>1. CASE family = "Siger"
  <2>1. ReadText(family, text) = ReadIndexer(text) /\ ReadText(family, head) = ReadIndexer(head)
    BY <1>1 DEF ReadText
  <2>2. ReadIndexer(text).verdict = "Ok" /\ n < ReadIndexer(text).size
    BY <2>1
  <2>3. ReadIndexer(head) = NeedBytes
    BY <2>2, IndexerShortens
  <2> QED
    BY <2>1, <2>3
<1>2. CASE family \in {"V1", "V2"}
  <2>1. ReadText(family, text) = ReadVersion(family, text) /\ ReadText(family, head) = ReadVersion(family, head)
    BY <1>2 DEF ReadText
  <2> DEFINE width == IF family = "V1" THEN V1Width ELSE V2Width
  <2>2. ReadVersion(family, text).verdict = "Ok"
    BY <2>1
  <2>3. ReadVersion(family, text).size = width
    BY <1>2, <2>2, VersionSpan
  <2>4. n < width
    BY <2>1, <2>3
  <2>5. ReadVersion(family, head) = NeedBytes
    BY <1>2, <2>4, VersionShortens
  <2> QED
    BY <2>1, <2>5
<1>3. CASE family \notin {"Siger", "V1", "V2"}
  <2>1. ReadText(family, text) = Typed(family, ReadMatter(text)) /\ ReadText(family, head) = Typed(family, ReadMatter(head))
    BY <1>3 DEF ReadText
  <2>2. ReadText(family, text) = ReadMatter(text) /\ ReadMatter(text).verdict = "Ok"
    BY <2>1, TypedReads
  <2>3. ReadText(family, text).size \in Nat
    BY TextSpan
  <2>4. ~(ReadMatter(text).size <= n)
    BY <2>2, <2>3
  <2>5. ReadMatter(head) = NeedBytes
    BY <2>2, <2>4, ReadsItsSpan
  <2>6. Typed(family, NeedBytes) = NeedBytes
    BY Verdicts DEF Typed
  <2> QED
    BY <2>1, <2>5, <2>6
<1> QED
  BY <1>1, <1>2, <1>3

(* Neither does the reader of binary look further.                         *)
LEMMA BinaryIsLocal ==
  ASSUME NEW a \in Seq(Byte), NEW b \in Seq(Byte), NEW family, ReadBinary(family, a).verdict = "Ok",
         SameHead(a, b, ReadBinary(family, a).size)
  PROVE  /\ ReadBinary(family, b) = ReadBinary(family, a)
         /\ ReadBinary(family, a).size \in Nat \ {0} /\ ReadBinary(family, a).size <= Len(a)
         /\ ReadBinary(family, a).size % 3 = 0
         /\ family \notin {"V1", "V2"}
<1>1. CASE family = "Siger"
  <2>1. ReadBinary(family, a) = ReadIndexerBinary(a) /\ ReadBinary(family, b) = ReadIndexerBinary(b)
    BY <1>1 DEF ReadBinary
  <2>2. ReadIndexerBinary(a).verdict = "Ok" /\ SameHead(a, b, ReadIndexerBinary(a).size)
    BY <2>1
  <2>3. /\ ReadIndexerBinary(b) = ReadIndexerBinary(a)
        /\ ReadIndexerBinary(a).size \in Nat \ {0} /\ ReadIndexerBinary(a).size <= Len(a)
        /\ ReadIndexerBinary(a).size % 3 = 0
    BY <2>2, IndexerBinaryIsLocal
  <2> QED
    BY <1>1, <2>1, <2>3
<1>2. CASE family \in {"V1", "V2"}
  <2>1. ReadBinary(family, a) = Malformed
    BY <1>2 DEF ReadBinary
  <2> QED
    BY <2>1, Verdicts
<1>3. CASE family \notin {"Siger", "V1", "V2"}
  <2>1. /\ ReadBinary(family, a) = Typed(family, FromQualifiedBase2(a))
        /\ ReadBinary(family, b) = Typed(family, FromQualifiedBase2(b))
    BY <1>3 DEF ReadBinary
  <2>2. ReadBinary(family, a) = FromQualifiedBase2(a) /\ FromQualifiedBase2(a).verdict = "Ok"
    BY <2>1, TypedReads
  <2>3. SameHead(a, b, FromQualifiedBase2(a).size)
    BY <2>2
  <2>4. /\ FromQualifiedBase2(b) = FromQualifiedBase2(a)
        /\ FromQualifiedBase2(a).size \in Nat \ {0} /\ FromQualifiedBase2(a).size <= Len(a)
        /\ FromQualifiedBase2(a).size % 3 = 0
    BY <2>2, <2>3, MatterBinaryIsLocal
  <2> QED
    BY <1>3, <2>1, <2>2, <2>4
<1> QED
  BY <1>1, <1>2, <1>3

(* What is read of binary is there.                                        *)
LEMMA BinaryFits ==
  ASSUME NEW a \in Seq(Byte), NEW family, ReadBinary(family, a).verdict = "Ok"
  PROVE  ReadBinary(family, a).size <= Len(a)
<1>1. CASE family = "Siger"
  <2> DEFINE hs == IndexHardSizeOfSextet(a[1] \div 4)
             code == Characters(a, hs)
             full == (Xizage[code].fs * 3) \div 4
             r == ReadIndexer(AllCharacters(SubSeq(a, 1, full)))
             out == IfOk(r, LAMBDA got : [got EXCEPT !.size = full])
  <2>1. ReadBinary(family, a) = ReadIndexerBinary(a)
    BY <1>1 DEF ReadBinary
  <2>2. IndexedCodeIn(a) = [verdict |-> "Ok", code |-> code] /\ code \in IndexedSigCodes
    <3>1. IndexedCodeIn(a).verdict = "Ok"
      BY <2>1, Verdicts DEF ReadIndexerBinary, IfOk
    <3> QED
      BY <3>1, Verdicts DEF IndexedCodeIn
  <2> HIDE DEF code
  <2>3. full \in {66, 69, 117, 120}
    <3>1. Xizage[code].fs \in {88, 92, 156, 160}
      BY <2>2, XizageFits
    <3>2. \A f \in {88, 92, 156, 160} : (f * 3) \div 4 \in {66, 69, 117, 120}
      OBVIOUS
    <3> QED
      BY <3>1, <3>2
  <2>4. ReadIndexerBinary(a) = IF full > Len(a) THEN NeedBytes ELSE out
    BY <2>2 DEF ReadIndexerBinary, IfOk
  <2> HIDE DEF full
  <2>5. full <= Len(a) /\ ReadIndexerBinary(a) = out
    <3> HIDE DEF out
    <3>1. Len(a) \in Nat /\ full \in Nat
      BY <2>3
    <3> QED
      BY <2>1, <2>4, <3>1, Verdicts
  <2>6. r.verdict = "Ok"
    BY <2>1, <2>5 DEF IfOk
  <2>7. \E value, size : r = [verdict |-> "Ok", size |-> size, value |-> value]
    <3> DEFINE text == AllCharacters(SubSeq(a, 1, full))
               seen == r
    <3>1. seen = ReadIndexer(text)
      OBVIOUS
    <3>2. seen.verdict = "Ok"
      BY <2>6
    <3> HIDE DEF text, seen
    <3>3. IndexedCodeAt(text).verdict = "Ok"
      BY <3>1, <3>2 DEF ReadIndexer, IfOk
    <3>4. seen = NeedBytes \/ \E c, s : seen = IndexerAt(c, s, text)
      BY <3>1, <3>3 DEF ReadIndexer, IfOk
    <3>5. PICK c, s : seen = IndexerAt(c, s, text)
      BY <3>2, <3>4, Verdicts
    <3>6. PICK value : seen = [verdict |-> "Ok", size |-> s.fs, value |-> value]
      BY <3>2, <3>5, IndexerIs
    <3> QED
      BY <3>6 DEF seen
  <2>8. PICK value, size : r = [verdict |-> "Ok", size |-> size, value |-> value]
    BY <2>7
  <2> HIDE DEF r
  <2>9. out = [r EXCEPT !.size = full]
    BY <2>6 DEF IfOk
  <2> QED
    BY <2>1, <2>5, <2>8, <2>9
<1>2. CASE family \in {"V1", "V2"}
  <2>1. ReadBinary(family, a) = Malformed
    BY <1>2 DEF ReadBinary
  <2> QED
    BY <2>1, Verdicts
<1>3. CASE family \notin {"Siger", "V1", "V2"}
  <2>1. ReadBinary(family, a) = Typed(family, FromQualifiedBase2(a))
    BY <1>3 DEF ReadBinary
  <2>2. ReadBinary(family, a) = FromQualifiedBase2(a) /\ FromQualifiedBase2(a).verdict = "Ok"
    BY <2>1, TypedReads
  <2>3. CodeIn(a).verdict = "Ok"
    BY <2>2, Verdicts DEF FromQualifiedBase2, IfOk
  <2> DEFINE code == CodeIn(a).code
             size == Sizage[code]
  <2>4. \/ FromQualifiedBase2(a) = NeedBytes
        \/ FromQualifiedBase2(a) = BinaryPayload(code, size, a)
    BY <2>3 DEF FromQualifiedBase2, IfOk
  <2> HIDE DEF code, size
  <2> DEFINE out == BinaryPayload(code, size, a)
  <2>5. FromQualifiedBase2(a) = out /\ out.verdict = "Ok"
    BY <2>2, <2>4, Verdicts
  <2>6. out.size <= Len(a)
    BY <2>5, Verdicts DEF BinaryPayload
  <2> QED
    BY <2>2, <2>5, <2>6
<1> QED
  BY <1>1, <1>2, <1>3

(* How many bytes a primitive takes.                                       *)
LEMMA BinarySpan ==
  ASSUME NEW a \in Seq(Byte), NEW family, ReadBinary(family, a).verdict = "Ok"
  PROVE  /\ ReadBinary(family, a).size \in Nat \ {0} /\ ReadBinary(family, a).size <= Len(a)
         /\ ReadBinary(family, a).size % 3 = 0
         /\ family \notin {"V1", "V2"}
<1> DEFINE n == ReadBinary(family, a).size
<1>1. n <= Len(a)
  BY BinaryFits
<1>2. SameHead(a, a, n)
  BY <1>1 DEF SameHead
<1> QED
  BY <1>2, BinaryIsLocal

(* What kind of value a family is read as.                                 *)
LEMMA KindsRead ==
  ASSUME NEW S, NEW text \in Seq(S), NEW family, ReadText(family, text).verdict = "Ok"
  PROVE  ReadText(family, text).value.kind =
           IF family = "Siger" THEN "Indexer" ELSE IF family \in {"V1", "V2"} THEN family ELSE "Matter"
<1>1. CASE family = "Siger"
  <2> DEFINE code == SubSeq(text, 1, IndexHardSize(text[1]))
             size == Xizage[code]
             out == IndexerAt(code, size, text)
  <2>1. ReadText(family, text) = ReadIndexer(text)
    BY <1>1 DEF ReadText
  <2>2. ReadIndexer(text) = IndexerAt(code, size, text)
    BY <2>1, IndexerReads
  <2> HIDE DEF code, size
  <2>3. out.verdict = "Ok"
    BY <2>1, <2>2
  <2>4. out.value.kind = "Indexer"
    BY <2>3, Verdicts DEF IndexerAt, IndexerOf
  <2> QED
    BY <1>1, <2>1, <2>2, <2>4
<1>2. CASE family = "V1"
  <2> DEFINE v == ReadVersion("V1", text)
             digits == IsHex(Part(text, 5, 2) \o Part(text, 11, 6)) /\ text[17] = Underscore
             two == /\ InAlphabet(Part(text, 5, 6) \o Part(text, 15, 4))
                    /\ Part(text, 5, 1) = MajorTwo /\ Part(text, 8, 1) = MajorTwo
                    /\ text[19] = "."
             parsed(k) == CASE k = "V1" /\ digits -> ParseV1(text)
                            [] k = "V2" /\ two -> ParseV2(text)
                            [] OTHER -> {}
             W(k) == IF k = "V1" THEN V1Width ELSE V2Width
  <2>1. ReadText(family, text) = v
    BY <1>2 DEF ReadText
  <2>2. v = IF Len(text) < W("V1") THEN NeedBytes
            ELSE IF parsed("V1") = {} THEN Malformed
            ELSE [verdict |-> "Ok", size |-> W("V1"), value |-> CHOOSE x \in parsed("V1") : TRUE]
    BY Zenon DEF ReadVersion
  <2> HIDE DEF v, digits, W
  <2>3. parsed("V1") = IF digits THEN ParseV1(text) ELSE {}
    OBVIOUS
  <2> HIDE DEF parsed
  <2>4. v.verdict = "Ok"
    BY <2>1
  <2>5. parsed("V1") # {} /\ v.value = CHOOSE x \in parsed("V1") : TRUE
    BY <2>2, <2>4, Verdicts
  <2>6. v.value \in parsed("V1")
    BY <2>5
  <2>7. v.value \in ParseV1(text)
    BY <2>3, <2>6
  <2>8. v.value.kind = "V1"
    BY <2>7 DEF ParseV1
  <2> QED
    BY <1>2, <2>1, <2>8
<1>3. CASE family = "V2"
  <2>1. ReadText(family, text) = ReadVersion("V2", text)
    BY <1>3 DEF ReadText
  <2>2. ReadVersion("V2", text).value \in ParseV2(text)
    BY <2>1, VersionTwoReads
  <2>3. ReadVersion("V2", text).value.kind = "V2"
    BY <2>2 DEF ParseV2
  <2> QED
    BY <1>3, <2>1, <2>3
<1>4. CASE family \notin {"Siger", "V1", "V2"}
  <2>1. ReadText(family, text) = Typed(family, ReadMatter(text))
    BY <1>4 DEF ReadText
  <2>2. ReadText(family, text) = ReadMatter(text) /\ ReadMatter(text).verdict = "Ok"
    BY <2>1, TypedReads
  <2> DEFINE code == HeadOf(text)
             size == Sizage[code]
             span == SubSeq(text, 1, FullOf(size, text))
             out == MatterIn(code, size, span)
  <2>3. ReadMatter(text) = MatterIn(code, size, span)
    BY <2>2, SpanReads
  <2> HIDE DEF code, size, span
  <2>4. out.verdict = "Ok"
    BY <2>2, <2>3
  <2>5. out.value.kind = "Matter"
    BY <2>4, Verdicts DEF MatterIn, MatterOf
  <2> QED
    BY <1>4, <2>2, <2>3, <2>5
<1> QED
  BY <1>1, <1>2, <1>3, <1>4

(* Both forms are read alike in every family that has both.                *)
LEMMA FamilyFormsAgree ==
  ASSUME NEW text \in Seq(DOMAIN Sextet), NEW M \in Nat, Len(text) = 4 * M, NEW family, family \notin {"V1", "V2"}
  PROVE  SayTheSame(ReadText(family, text), ReadBinary(family, Bytes(text)))
<1>1. CASE family = "Siger"
  <2>1. ReadText(family, text) = ReadIndexer(text) /\ ReadBinary(family, Bytes(text)) = ReadIndexerBinary(Bytes(text))
    BY <1>1 DEF ReadText, ReadBinary
  <2>2. SayTheSame(ReadIndexer(text), ReadIndexerBinary(Bytes(text)))
    BY IndexerFormsAgree
  <2> QED
    BY <2>1, <2>2
<1>2. CASE family # "Siger"
  <2>1. /\ ReadText(family, text) = Typed(family, ReadMatter(text))
        /\ ReadBinary(family, Bytes(text)) = Typed(family, FromQualifiedBase2(Bytes(text)))
    BY <1>2 DEF ReadText, ReadBinary
  <2>2. SayTheSame(ReadMatter(text), FromQualifiedBase2(Bytes(text)))
    BY MatterFormsAgree
  <2>3. SayTheSame(Typed(family, ReadMatter(text)), Typed(family, FromQualifiedBase2(Bytes(text))))
    BY <2>2, TypedAlike
  <2> QED
    BY <2>1, <2>3
<1> QED
  BY <1>1, <1>2

(* What is read of text, written again, is what it was read from.          *)
LEMMA TextIsCanonical ==
  ASSUME NEW S, NEW text \in Seq(S), NEW family, ReadText(family, text).verdict = "Ok",
         ReadText(family, text).value.kind \in {"Matter", "V2"},
         Last(SubSeq(text, 1, ReadText(family, text).size)) # Filler
  PROVE  Written(ReadText(family, text).value) = SubSeq(text, 1, ReadText(family, text).size)
<1>1. ReadText(family, text).value.kind =
        IF family = "Siger" THEN "Indexer" ELSE IF family \in {"V1", "V2"} THEN family ELSE "Matter"
  BY KindsRead
<1>2. CASE family = "V2"
  <2>1. ReadText(family, text) = ReadVersion("V2", text)
    BY <1>2 DEF ReadText
  <2>2. ReadVersion("V2", text).size = 19
    BY <2>1, VersionTwoReads
  <2>3. WriteVersion(ReadVersion("V2", text).value) = SubSeq(text, 1, 19)
    BY <2>1, VersionTwoIsCanonical
  <2>4. Written(ReadVersion("V2", text).value) = WriteVersion(ReadVersion("V2", text).value)
    BY <1>1, <1>2, <2>1 DEF Written
  <2> QED
    BY <2>1, <2>2, <2>3, <2>4
<1>3. CASE family \notin {"Siger", "V1", "V2"}
  <2> DEFINE n == ReadMatter(text).size
             span == SubSeq(text, 1, n)
             value == ReadMatter(text).value
  <2>1. ReadText(family, text) = Typed(family, ReadMatter(text))
    BY <1>3 DEF ReadText
  <2>2. ReadText(family, text) = ReadMatter(text) /\ ReadMatter(text).verdict = "Ok"
    BY <2>1, TypedReads
  <2>3. n \in Nat \ {0} /\ n <= Len(text)
    BY <2>2, TextSpan
  <2>4. Len(span) = n /\ span[n] = text[n]
    <3>1. n \in 0..Len(text) /\ n \in 0..n /\ n \in 1..n
      BY <2>3
    <3> HIDE DEF n
    <3>2. Len(span) = n /\ SameHead(text, span, n)
      BY <3>1, HeadIsShared
    <3> QED
      BY <3>1, <3>2 DEF SameHead
  <2>5. text[n] # Filler
    BY <2>2, <2>4 DEF Last
  <2>6. WriteMatter(value) = span
    BY <2>2, <2>5, ReadIsCanonical
  <2>7. value.kind = "Matter"
    BY <1>1, <1>3, <2>2
  <2>8. Written(value) = WriteMatter(value)
    BY <2>7 DEF Written
  <2> QED
    BY <2>2, <2>6, <2>8
<1> QED
  BY <1>1, <1>2, <1>3

(* And so it is in binary.                                                 *)
LEMMA BinaryIsCanonical ==
  ASSUME NEW bytes \in Seq(Byte), NEW family, ReadBinary(family, bytes).verdict = "Ok",
         ReadBinary(family, bytes).value.kind \in {"Matter", "V2"}
  PROVE  Bytes(Written(ReadBinary(family, bytes).value)) = SubSeq(bytes, 1, ReadBinary(family, bytes).size)
<1> DEFINE n == ReadBinary(family, bytes).size
           span == SubSeq(bytes, 1, n)
           m == n \div 3
           text == AllCharacters(span)
           got == ReadText(family, text)
           value == ReadBinary(family, bytes).value
<1>1. n \in Nat \ {0} /\ n <= Len(bytes) /\ n % 3 = 0 /\ family \notin {"V1", "V2"}
  BY BinarySpan
<1>2. m \in Nat /\ n = 3 * m /\ m > 0
  <2> HIDE DEF n
  <2> QED
    BY <1>1
<1>3. n \in 0..Len(bytes) /\ n \in 0..n
  BY <1>1
<1>4. span \in Seq(Byte) /\ Len(span) = n /\ SameHead(bytes, span, n)
  <2> HIDE DEF n
  <2> QED
    BY <1>3, HeadIsShared
<1>5. ReadBinary(family, span) = ReadBinary(family, bytes)
  BY <1>4, BinaryIsLocal
<1> HIDE DEF m, span
<1>6. text \in Seq(DOMAIN Sextet) /\ Len(text) = 4 * m
  BY <1>2, <1>4, TextOfBytes
<1>7. Bytes(text) = span
  BY <1>1, <1>4, BinarySurvivesText DEF Encodable
<1> HIDE DEF text
<1>8. SayTheSame(ReadText(family, text), ReadBinary(family, Bytes(text)))
  BY <1>1, <1>2, <1>6, FamilyFormsAgree
<1>9. got.verdict = "Ok" /\ got.value = value /\ n * 4 = got.size * 3
  BY <1>5, <1>7, <1>8 DEF SayTheSame
<1>10. got.size \in Nat
  BY <1>6, <1>9, TextSpan
<1>11. got.size = 4 * m
  <2> HIDE DEF n, got
  <2> QED
    BY <1>2, <1>9, <1>10
<1> HIDE DEF n
<1>12. SubSeq(text, 1, got.size) = text
  BY <1>6, <1>11, WholeIsPart
<1>13. Last(text) \in DOMAIN Sextet
  <2>1. Len(text) \in 1..Len(text)
    BY <1>2, <1>6
  <2> QED
    BY <1>6, <2>1 DEF Last
<1>14. Last(SubSeq(text, 1, got.size)) # Filler
  BY <1>12, <1>13, FillerIsNew
<1>15. Written(got.value) = SubSeq(text, 1, got.size)
  BY <1>6, <1>9, <1>14, TextIsCanonical
<1>16. Written(value) = text
  BY <1>9, <1>12, <1>15
<1> QED
  BY <1>7, <1>16 DEF span, n

-----------------------------------------------------------------------------
(* What is written is read back: the round trips.                          *)

(* Where the four parts of a primitive stand.                              *)
LEMMA FourPartsStand ==
  ASSUME NEW S, NEW a \in Seq(S), NEW b \in Seq(S), NEW c \in Seq(S), NEW d \in Seq(S),
         NEW t, t = a \o b \o c \o d,
         NEW n1, n1 = Len(a), NEW n2, n2 = n1 + Len(b), NEW n3, n3 = n2 + Len(c), NEW n4, n4 = n3 + Len(d)
  PROVE  FourParts(t, S, a, b, c, d, <<n1, n2, n3, n4>>)
<1> DEFINE t2 == a \o b
           t3 == t2 \o c
           z == 0
<1>1. t = t3 \o d
  OBVIOUS
<1>2. n1 \in Nat /\ n2 \in Nat /\ n3 \in Nat /\ n4 \in Nat /\ n1 <= n2 /\ n2 <= n3 /\ n3 <= n4
  OBVIOUS
<1>3. z = 0 /\ z \in 0..n1 /\ n1 \in 0..n1 /\ n1 \in 0..n2 /\ n2 \in 0..n2 /\ n2 \in 0..n3 /\ n3 \in 0..n3
      /\ n1 \in 0..n3
  BY <1>2
<1> HIDE DEF z
<1>4. /\ t2 \in Seq(S) /\ Len(t2) = n2 /\ Piece(t2, n1, n2) = b
      /\ Piece(t2, z, n1) = Piece(a, z, n1)
      /\ \A i \in 1..n1 : t2[i] = a[i]
      /\ \A i \in 1..Len(b) : t2[n1 + i] = b[i]
  <2>1. Joins(t2, S, a, b, n1, n2)
    BY JoinedPieces
  <2> HIDE DEF t2
  <2> QED
    BY <1>3, <2>1 DEF Joins
<1>5. /\ t3 \in Seq(S) /\ Len(t3) = n3 /\ Piece(t3, n2, n3) = c
      /\ Piece(t3, n1, n2) = Piece(t2, n1, n2) /\ Piece(t3, z, n1) = Piece(t2, z, n1)
      /\ \A i \in 1..n2 : t3[i] = t2[i]
  <2> HIDE DEF t2
  <2>1. Joins(t3, S, t2, c, n2, n3)
    BY <1>4, JoinedPieces
  <2> HIDE DEF t3
  <2>2. z \in 0..n1 /\ n1 \in 0..n2 /\ n2 \in 0..n2
    BY <1>3
  <2> QED
    BY <1>3, <2>1, <2>2 DEF Joins
<1> HIDE DEF t2, t3
<1>6. /\ t \in Seq(S) /\ Len(t) = n4 /\ Piece(t, n3, n4) = d
      /\ Piece(t, n2, n3) = Piece(t3, n2, n3)
      /\ Piece(t, n1, n2) = Piece(t3, n1, n2) /\ Piece(t, z, n1) = Piece(t3, z, n1)
      /\ \A i \in 1..n3 : t[i] = t3[i]
  <2>1. Joins(t, S, t3, d, n3, n4)
    BY <1>1, <1>5, JoinedPieces
  <2>2. z \in 0..n1 /\ n1 \in 0..n2 /\ n1 \in 0..n3 /\ n2 \in 0..n3 /\ n3 \in 0..n3
    BY <1>3
  <2> QED
    BY <2>1, <2>2 DEF Joins
<1>7. Piece(a, z, n1) = a
  <2>1. Piece(a, z, n1) = SubSeq(a, z + 1, n1) /\ z + 1 = 1
    BY <1>3 DEF Piece
  <2>2. SubSeq(a, 1, Len(a)) = a
    BY WholeIsPart
  <2> QED
    BY <2>1, <2>2, Zenon
<1>8. \A i \in 1..n1 : i \in 1..n2 /\ i \in 1..n3
  BY <1>2
<1>9. \A i \in 1..Len(b) : n1 + i \in 1..n2 /\ n1 + i \in 1..n3
  BY <1>2
<1>10. \A i \in 1..n1 : t[i] = a[i]
  BY <1>4, <1>5, <1>6, <1>8
<1>11. \A i \in 1..Len(b) : t[n1 + i] = b[i]
  BY <1>4, <1>5, <1>6, <1>9
<1> QED
  BY <1>3, <1>4, <1>5, <1>6, <1>7, <1>10, <1>11 DEF FourParts

(* How many bytes a primitive's characters after the code hold.            *)
LEMMA PayloadFits ==
  ASSUME NEW v, IsMatter(v), NEW size, size = Sizage[v.code],
         NEW cs, cs = CodeChars(size), NEW pad, pad = cs % 4
  PROVE  \E N \in Nat : Holds(v, size, cs, pad, N)
<1>1. v.code \in MatterCodes /\ v.raw \in Seq(Byte) /\ v.soft \in Seq(DOMAIN Sextet)
  BY DEF IsMatter
<1>2. SizeFits(size)
  BY <1>1, SizageFits
<1>3. /\ size.hs \in Nat /\ size.ss \in Nat /\ size.fs \in Nat /\ size.ls \in 0..2 /\ cs = size.hs + size.ss
      /\ size.fs = Variable => cs % 4 = 0
      /\ size.fs # Variable => size.fs % 4 = 0 /\ size.fs >= cs
  BY <1>2 DEF SizeFits, CodeChars
<1>4. cs \in Nat /\ pad \in 0..3 /\ Len(v.raw) \in Nat
  <2>1. cs \in Nat
    BY <1>3
  <2>2. pad \in 0..3
    BY <2>1
  <2>3. Len(v.raw) \in Nat
    BY <1>1
  <2> QED
    BY <2>1, <2>2, <2>3
<1>5. CASE size.fs # Variable
  <2> DEFINE k == cs \div 4
             M == size.fs \div 4
             N == M - k
             fs == size.fs
             chars == ((fs - cs) * 3) \div 4
  <2>1. Quartered(cs, fs, pad, k, N)
    <3> HIDE DEF fs
    <3>1. fs \in Nat /\ cs <= fs /\ fs % 4 = 0
      BY <1>3, <1>5 DEF fs
    <3>2. N = (fs \div 4) - k
      BY DEF fs
    <3> HIDE DEF N, k
    <3>3. k = cs \div 4
      BY DEF k
    <3> QED
      BY <1>4, <3>1, <3>2, <3>3, Quarters
  <2> HIDE DEF k, N
  <2>2. N \in Nat /\ fs - cs = 4 * N - pad /\ fs = cs + (4 * N - pad)
    <3>1. k \in Nat /\ N \in Nat /\ cs = 4 * k + pad /\ fs = 4 * (k + N)
      BY <2>1 DEF Quartered
    <3> HIDE DEF fs
    <3> QED
      BY <1>4, <3>1
  <2>3. Len(v.raw) = chars - size.ls
    BY <1>5 DEF IsMatter, RawSize, CodeSize
  <2> HIDE DEF fs
  <2>4. chars = 3 * N - pad
    <3>1. \A n \in Nat : \A p \in 0..3 : ((4 * n - p) * 3) \div 4 = 3 * n - p
      OBVIOUS
    <3> QED
      BY <1>4, <2>2, <3>1
  <2>5. size.ls + pad + Len(v.raw) = 3 * N
    <3> DEFINE ls == size.ls
               len == Len(v.raw)
    <3>1. ls \in Nat /\ len \in Nat /\ len = (3 * N - pad) - ls /\ pad \in Nat /\ N \in Nat
      <4> HIDE DEF chars
      <4>1. ls \in Nat /\ pad \in Nat /\ N \in Nat
        <5>1. ls \in Nat
          BY <1>3
        <5>2. pad \in Nat
          BY <1>4
        <5>3. N \in Nat
          BY <2>2
        <5> QED
          BY <5>1, <5>2, <5>3
      <4>2. len \in Nat
        BY <1>4
      <4>3. len = chars - ls
        BY <2>3
      <4> HIDE DEF ls, len
      <4> QED
        BY <2>4, <4>1, <4>2, <4>3
    <3> HIDE DEF ls, len
    <3>2. ls + pad + len = 3 * N
      BY <3>1
    <3> QED
      BY <3>2 DEF ls, len
  <2> QED
    BY <1>5, <2>2, <2>5 DEF fs, Holds
<1>6. CASE size.fs = Variable
  <2> DEFINE N == DecodeInt(v.soft)
  <2>1. N \in Nat
    <3>1. InAlphabet(v.soft)
      BY <1>1 DEF InAlphabet
    <3> QED
      BY <1>1, <3>1, DecodeIntIsNatural
  <2>2. Len(v.raw) = 3 * N - size.ls
    BY <1>6 DEF IsMatter
  <2>3. pad = 0
    BY <1>3, <1>6
  <2> HIDE DEF N
  <2>4. size.ls + pad + Len(v.raw) = 3 * N
    <3> DEFINE ls == size.ls
               len == Len(v.raw)
    <3>1. ls \in Nat /\ len \in Nat /\ len = 3 * N - ls /\ pad = 0 /\ N \in Nat
      BY <1>3, <1>4, <2>1, <2>2, <2>3, SMTT(30)
    <3> HIDE DEF ls, len
    <3>2. ls + pad + len = 3 * N
      BY <3>1
    <3> QED
      BY <3>2 DEF ls, len
  <2> QED
    BY <1>6, <2>1, <2>3, <2>4 DEF N, Holds
<1> QED
  BY <1>5, <1>6

(* Where the parts of a primitive that is written stand.                   *)
LEMMA WrittenParts ==
  ASSUME NEW v, IsMatter(v), NEW size, size = Sizage[v.code],
         NEW cs, cs = CodeChars(size), NEW pad, pad = cs % 4,
         NEW text, text = WriteMatter(v)
  PROVE  \E N \in Nat, body \in Seq(DOMAIN Sextet), fill \in Seq(DOMAIN Sextet) :
           InParts(v, size, cs, pad, text, N, body, fill)
<1> DEFINE whole == Whole(v, pad)
           payload == AllCharacters(whole)
           letters == DOMAIN Sextet
           xs == size.xs
           fill == [i \in 1..xs |-> Underscore]
<1>1. /\ v.code \in MatterCodes /\ v.raw \in Seq(Byte) /\ v.soft \in Seq(letters)
      /\ Len(v.soft) = size.ss - size.xs
  BY DEF IsMatter, SoftSize
<1>2. SizeFits(size) /\ Spelt(v.code, size.hs)
  BY <1>1, SizageFits, CodesSpelt
<1>3. /\ size.hs \in {1, 2, 4} /\ size.ss \in Nat /\ size.xs \in Nat /\ size.ls \in 0..2 /\ size.xs <= size.ss
      /\ cs = size.hs + size.ss
      /\ v.code \in Seq(letters) /\ Len(v.code) = size.hs
  BY <1>2 DEF SizeFits, CodeChars, Spelt
<1>4. cs \in Nat /\ pad \in 0..3
  BY <1>3
<1>5. PICK N \in Nat : Holds(v, size, cs, pad, N)
  BY PayloadFits, Zenon
<1> DEFINE zeros == size.ls + pad
           m == 3 * N
           n == 4 * N
           body == Piece(payload, pad, n)
<1>6. zeros \in Nat /\ pad <= zeros /\ m = zeros + Len(v.raw) /\ m \in Nat
  <2>1. size.ls + pad + Len(v.raw) = 3 * N
    BY <1>5 DEF Holds
  <2>2. size.ls \in Nat /\ pad \in Nat
    BY <1>3, <1>4
  <2>3. zeros + Len(v.raw) = m
    BY <2>1
  <2>4. m \in Nat
    OBVIOUS
  <2>5. zeros \in Nat /\ pad <= zeros
    BY <2>2
  <2> HIDE DEF zeros, m
  <2> QED
    BY <2>3, <2>4, <2>5
<1>7. whole = Zeros(zeros) \o v.raw
  BY DEF Whole
<1> HIDE DEF zeros, whole, m
<1>8. /\ whole \in Seq(Byte) /\ Len(whole) = m
      /\ \A i \in 1..zeros : whole[i] = 0
      /\ zeros <= m
      /\ Piece(whole, zeros, m) = v.raw
  <2> DEFINE raw == v.raw
  <2>1. raw \in Seq(Byte) /\ m = zeros + Len(raw) /\ whole = Zeros(zeros) \o raw
    BY <1>1, <1>6, <1>7
  <2> HIDE DEF raw
  <2>2. zeros \in Nat /\ m \in Nat
    BY <1>6
  <2>3. ZerosAndRaw(whole, raw, zeros, m)
    BY <2>1, <2>2, WholeIs
  <2> QED
    BY <2>3 DEF raw, ZerosAndRaw
<1>9. pad <= m /\ \A i \in 1..pad : whole[i] = 0
  BY <1>4, <1>6, <1>8
<1> HIDE DEF n, payload, body
<1>10. /\ body \in Seq(letters) /\ Len(body) = n - pad
       /\ Padding(pad) \o body = payload
       /\ payload \in Seq(letters) /\ Len(payload) = n /\ Bytes(payload) = whole
  <2>1. m = 3 * N /\ n = 4 * N
    BY DEF m, n
  <2>2. payload = AllCharacters(whole) /\ body = Piece(payload, pad, n)
    BY DEF payload, body
  <2>3. whole \in Seq(Byte) /\ Len(whole) = m
    BY <1>8
  <2>4. Unpadded(body, payload, pad, n, whole)
    BY <1>4, <1>9, <2>1, <2>2, <2>3, PayloadWritten
  <2> QED
    BY <2>4 DEF Unpadded, letters
<1> HIDE DEF letters
<1>11. fill \in Seq(letters) /\ Len(fill) = xs /\ \A i \in 1..xs : fill[i] = Underscore
  <2>1. xs \in Nat /\ Underscore \in letters
    BY <1>3, Places DEF letters
  <2> HIDE DEF xs
  <2> QED
    BY <2>1, Repeated
<1> HIDE DEF fill
<1>12. text = v.code \o fill \o v.soft \o body
  <2>1. text = v.code \o [i \in 1..size.xs |-> Underscore] \o v.soft
                 \o SubSeq(AllCharacters(Zeros(size.ls + pad) \o v.raw), pad + 1,
                           Len(AllCharacters(Zeros(size.ls + pad) \o v.raw)))
    BY DEF WriteMatter, MatterText
  <2>2. Zeros(size.ls + pad) \o v.raw = whole
    BY <1>7 DEF zeros
  <2>3. SubSeq(payload, pad + 1, Len(payload)) = body
    BY <1>10 DEF body, Piece
  <2> QED
    BY <2>1, <2>2, <2>3 DEF payload, fill, xs
<1> DEFINE n1 == size.hs
           n2 == size.hs + size.xs
           n4 == cs + (n - pad)
<1>13. n1 = Len(v.code) /\ n2 = n1 + Len(fill) /\ cs = n2 + Len(v.soft) /\ n4 = cs + Len(body)
  <2>1. n1 = Len(v.code) /\ n2 = n1 + Len(fill) /\ n4 = cs + Len(body)
    BY <1>3, <1>10, <1>11
  <2>2. cs = n2 + Len(v.soft)
    BY <1>1, <1>3, SMTT(30)
  <2> QED
    BY <2>1, <2>2
<1> HIDE DEF n1, n2, n4
<1>14. FourParts(text, letters, v.code, fill, v.soft, body, <<n1, n2, cs, n4>>)
  BY <1>1, <1>3, <1>10, <1>11, <1>12, <1>13, FourPartsStand
<1>15. <<n1, n2, cs, n4>> = <<size.hs, size.hs + size.xs, cs, cs + (4 * N - pad)>>
  BY DEF n1, n2, n4, n
<1>16. InParts(v, size, cs, pad, text, N, body, fill)
  <2>1. FourParts(text, DOMAIN Sextet, v.code, fill, v.soft, body,
                  <<size.hs, size.hs + size.xs, cs, cs + (4 * N - pad)>>)
    BY <1>14, <1>15 DEF letters
  <2>2. Padding(pad) \o body \in Seq(DOMAIN Sextet) /\ Bytes(Padding(pad) \o body) = whole
    BY <1>10 DEF letters
  <2>3. Len(whole) = 3 * N /\ Piece(whole, size.ls + pad, 3 * N) = v.raw /\ size.ls + pad <= 3 * N
        /\ \A i \in 1..(size.ls + pad) : whole[i] = 0
    BY <1>8 DEF zeros, m
  <2>4. Len(fill) = size.xs /\ \A i \in 1..size.xs : fill[i] = Underscore
    BY <1>11 DEF xs
  <2> QED
    BY <1>5, <1>8, <2>1, <2>2, <2>3, <2>4, Zenon DEF InParts, whole
<1> QED
  BY <1>10, <1>11, <1>16 DEF letters

\* What is read of a text is what was written, all of it.
ReadsBack(outcome, text, value) ==
  /\ text # <<>>
  /\ outcome = [verdict |-> "Ok", size |-> Len(text), value |-> value]

(* What is written of a primitive is read back.                            *)
THEOREM MatterReturns ==
  ASSUME NEW v, IsMatter(v)
  PROVE  /\ WriteMatter(v) \in Seq(DOMAIN Sextet)
         /\ ReadsBack(ReadMatter(WriteMatter(v)), WriteMatter(v), v)
<1> DEFINE text == WriteMatter(v)
           code == v.code
           size == Sizage[code]
           cs == CodeChars(size)
           pad == cs % 4
           letters == DOMAIN Sextet
<1>1. PICK N \in Nat, body \in Seq(DOMAIN Sextet), fill \in Seq(DOMAIN Sextet) :
        InParts(v, size, cs, pad, text, N, body, fill)
  BY WrittenParts
<1> DEFINE whole == Whole(v, pad)
           L == cs + (4 * N - pad)
           n1 == size.hs
           n2 == size.hs + size.xs
           ahead == pad + size.ls
           all == Padding(pad) \o body
<1>2. code \in MatterCodes /\ v = MatterOf(code, v.soft, v.raw) /\ v.soft \in Seq(letters) /\ v.raw \in Seq(Byte)
  BY DEF IsMatter
<1>3. SizeFits(size)
  BY <1>2, SizageFits
<1>4. /\ size.hs \in {1, 2, 4} /\ size.ss \in Nat /\ size.xs \in Nat /\ size.ls \in 0..2 /\ size.xs <= size.ss
      /\ cs = size.hs + size.ss /\ size.fs \in Nat
  BY <1>3 DEF SizeFits, CodeChars
<1>5. cs \in Nat /\ pad \in 0..3 /\ n1 \in {1, 2, 4} /\ n2 \in Nat /\ n1 <= n2 /\ n2 <= cs
  <2> DEFINE hs == size.hs
             xs == size.xs
             ss == size.ss
  <2>1. /\ hs \in {1, 2, 4} /\ ss \in Nat /\ xs \in Nat /\ xs <= ss
        /\ cs = hs + ss /\ n1 = hs /\ n2 = hs + xs /\ pad = cs % 4
    BY <1>4
  <2> HIDE DEF hs, xs, ss, cs, n1, n2, pad
  <2>2. cs \in Nat
    BY <2>1
  <2>3. pad \in 0..3
    BY <2>1, <2>2
  <2>4. n1 \in {1, 2, 4} /\ n2 \in Nat /\ n1 <= n2 /\ n2 <= cs
    BY <2>1
  <2> QED
    BY <2>2, <2>3, <2>4
<1>6. FourParts(text, letters, code, fill, v.soft, body, <<n1, n2, cs, L>>)
  BY <1>1 DEF InParts
<1>7. /\ all \in Seq(letters) /\ Bytes(all) = whole
      /\ whole \in Seq(Byte) /\ Len(whole) = 3 * N
      /\ \A i \in 1..(size.ls + pad) : whole[i] = 0
      /\ size.ls + pad <= 3 * N
      /\ Piece(whole, size.ls + pad, 3 * N) = v.raw
      /\ Holds(v, size, cs, pad, N)
      /\ \A i \in 1..size.xs : fill[i] = Underscore
      /\ Len(fill) = size.xs
  BY <1>1 DEF InParts
<1> HIDE DEF size, pad, text, whole
<1>8. pad <= 3 * N /\ L \in Nat /\ cs <= L
  <2> DEFINE ls == size.ls
  <2>1. ls \in Nat /\ ls + pad <= 3 * N /\ pad \in 0..3 /\ N \in Nat /\ cs \in Nat
    BY <1>4, <1>5, <1>7
  <2> HIDE DEF ls, cs
  <2> QED
    BY <2>1
<1> HIDE DEF cs, L
<1>9. /\ text \in Seq(letters) /\ Len(text) = L
      /\ Piece(text, 0, n1) = code /\ Piece(text, n2, cs) = v.soft /\ Piece(text, cs, L) = body
      /\ \A i \in 1..n1 : text[i] = code[i]
      /\ \A i \in 1..Len(fill) : text[n1 + i] = fill[i]
  BY <1>6 DEF FourParts
<1>10. CodeAt(text) = [verdict |-> "Ok", code |-> code]
  <2>1. n1 <= Len(text) /\ n1 = Sizage[code].hs
    BY <1>5, <1>8, <1>9 DEF size
  <2> HIDE DEF n1, code, letters
  <2> QED
    BY <1>2, <1>9, <2>1, WrittenCodeReads DEF code
<1>11. SoftOf(size, text) = v.soft
  BY <1>9 DEF SoftOf, Piece, cs
<1>12. FullOf(size, text) = L
  <2>1. CASE size.fs # Variable
    <3>1. size.fs = L
      BY <1>7, <2>1 DEF Holds, L
    <3> QED
      BY <2>1, <3>1 DEF FullOf
  <2>2. CASE size.fs = Variable
    <3>1. N = DecodeInt(v.soft) /\ pad = 0
      BY <1>7, <2>2 DEF Holds
    <3>2. FullOf(size, text) = N * 4 + cs
      BY <1>11, <2>2, <3>1 DEF FullOf, FullSize, cs
    <3> QED
      BY <1>5, <3>1, <3>2 DEF L
  <2> QED
    BY <2>1, <2>2
<1>13. size.fs = Variable => CodeChars(size) <= Len(text) /\ InAlphabet(SoftOf(size, text))
  <2>1. InAlphabet(v.soft)
    BY <1>2 DEF InAlphabet
  <2>2. cs <= Len(text)
    BY <1>8, <1>9
  <2> QED
    BY <1>11, <2>1, <2>2 DEF cs
<1>14. FrameSizeOf(size, text) = [verdict |-> "Ok", size |-> L]
  <2> HIDE DEF letters
  <2> QED
    BY <1>3, <1>9, <1>12, <1>13, FrameReads
<1>15. ReadMatter(text) = MatterIn(code, size, text)
  <2>1. MatterFrame(text) = [verdict |-> "Ok", size |-> L]
    BY <1>10, <1>14 DEF MatterFrame, IfOk, size
  <2>2. SubSeq(text, 1, L) = text
    BY <1>9, WholeIsPart
  <2>3. ReadMatter(text) = IF L > Len(text) THEN NeedBytes ELSE FromQualifiedBase64(SubSeq(text, 1, L))
    BY <2>1 DEF ReadMatter, IfOk
  <2>4. ~(L > Len(text))
    BY <1>8, <1>9
  <2>5. FromQualifiedBase64(text) = MatterIn(code, size, text)
    BY <1>10 DEF FromQualifiedBase64, IfOk, size
  <2> QED
    BY <2>2, <2>3, <2>4, <2>5
<1>16. PayloadOf(size, text) = all
  BY <1>9 DEF PayloadOf, Piece, cs, pad
<1> DEFINE out == [verdict |-> "Ok", size |-> Len(text),
                   value |-> MatterOf(code, SubSeq(text, size.hs + size.xs + 1, cs),
                                      SubSeq(whole, pad + size.ls + 1, Len(whole)))]
<1>17. MatterIn(code, size, text) =
         IF /\ \A i \in 1..size.xs : text[size.hs + i] = Underscore
            /\ Len(whole) >= pad + size.ls
            /\ LeadIsZero(whole, pad + 1, pad + size.ls)
            /\ pad = 0 \/ PadIsZero(whole[pad], pad)
         THEN out ELSE Malformed
  <2> DEFINE S == letters
             body2 == PayloadOf(size, text)
  <2>1. text \in Seq(S) /\ CodeChars(size) <= Len(text) /\ PayloadOf(size, text) \in Seq(DOMAIN Sextet)
    BY <1>7, <1>8, <1>9, <1>16 DEF cs
  <2>2. Bytes(PayloadOf(size, text)) = whole
    BY <1>7, <1>16
  <2> HIDE DEF S, all, letters
  <2> QED
    BY <1>3, <2>1, <2>2, CleanSpanReads DEF cs, pad
<1>18. \A i \in 1..size.xs : text[size.hs + i] = Underscore
  BY <1>7, <1>9
<1>19. ahead = size.ls + pad /\ ahead \in Nat /\ pad <= ahead
  <2> DEFINE ls == size.ls
  <2>1. ls \in Nat /\ pad \in Nat /\ ahead = pad + ls
    BY <1>4, <1>5
  <2> HIDE DEF ls, ahead
  <2>2. ahead = ls + pad /\ ahead \in Nat /\ pad <= ahead
    BY <2>1
  <2> QED
    BY <2>2 DEF ls
<1>20. \A i \in 1..ahead : whole[i] = 0
  BY <1>7, <1>19
<1>21. Len(whole) >= pad + size.ls
  BY <1>4, <1>5, <1>7
<1>22. LeadIsZero(whole, pad + 1, pad + size.ls)
  <2>1. \A i \in (pad + 1)..ahead : i \in 1..ahead
    BY <1>5, <1>19
  <2>2. \A i \in (pad + 1)..ahead : whole[i] = 0
    BY <1>20, <2>1
  <2> QED
    BY <2>2 DEF LeadIsZero
<1>23. pad = 0 \/ PadIsZero(whole[pad], pad)
  <2> SUFFICES ASSUME pad # 0 PROVE PadIsZero(whole[pad], pad)
    OBVIOUS
  <2>1. pad \in {1, 2, 3} /\ pad \in 1..ahead
    BY <1>5, <1>19
  <2>2. whole[pad] = 0
    BY <1>20, <2>1
  <2>3. 0 % 2 ^ (2 * 1) = 0 /\ 0 % 2 ^ (2 * 2) = 0 /\ 0 % 2 ^ (2 * 3) = 0
    OBVIOUS
  <2>4. 0 % 2 ^ (2 * pad) = 0
    BY <2>1, <2>3
  <2> QED
    BY <2>2, <2>4 DEF PadIsZero
<1>24. MatterIn(code, size, text) = out
  <2> HIDE DEF out
  <2> QED
    BY <1>17, <1>18, <1>21, <1>22, <1>23, Zenon
<1>25. SubSeq(text, size.hs + size.xs + 1, cs) = v.soft
  BY <1>9 DEF Piece
<1>26. SubSeq(whole, pad + size.ls + 1, Len(whole)) = v.raw
  <2>1. Piece(whole, size.ls + pad, 3 * N) = SubSeq(whole, (size.ls + pad) + 1, 3 * N)
    BY DEF Piece
  <2>2. (size.ls + pad) + 1 = pad + size.ls + 1
    BY <1>4, <1>5
  <2> QED
    BY <1>7, <2>1, <2>2
<1>27. out = [verdict |-> "Ok", size |-> Len(text), value |-> v]
  BY <1>2, <1>25, <1>26
<1>28. text # <<>>
  <2>1. L > 0
    BY <1>5, <1>8
  <2> QED
    BY <1>9, <2>1
<1> QED
  BY <1>9, <1>15, <1>24, <1>27, <1>28 DEF ReadsBack, text

(* What codes of indexed signatures are made of, and that the first        *)
(* character tells how long they are.                                      *)
LEMMA IndexedSpelt ==
  ASSUME NEW code \in IndexedSigCodes, NEW hs, hs = Xizage[code].hs
  PROVE  /\ code \in Seq(DOMAIN Sextet) /\ Len(code) = hs
         /\ hs \in {1, 2} /\ IndexHardSize(code[1]) = hs
<1>1. /\ \A c \in Letters256 : c \in DOMAIN Sextet /\ Sextet[c] < 52
      /\ Letters448 \subseteq Letters256
  <2>1. Letters256 \subseteq Capitals
    BY DEF Letters256, Capitals
  <2> QED
    BY <2>1, Places DEF Letters256, Letters448
<1>2. \A c \in {"0", "2", "3"} : c \in DOMAIN Sextet /\ ~(Sextet[c] < 52)
  BY Places
<1>3. \A c \in Letters256 : IndexHardSize(c) = 1
  <2> SUFFICES ASSUME NEW c \in Letters256 PROVE IndexHardSize(c) = 1
    OBVIOUS
  <2>1. c \in DOMAIN Sextet /\ Sextet[c] < 52
    BY <1>1
  <2>2. c \notin {"0", "1", "2", "3", "4"}
    BY DEF Letters256
  <2> QED
    BY <2>1, <2>2, Zenon DEF IndexHardSize
<1>4. \A c \in {"0", "2", "3"} : IndexHardSize(c) = 2
  <2> SUFFICES ASSUME NEW c \in {"0", "2", "3"} PROVE IndexHardSize(c) = 2
    OBVIOUS
  <2>1. ~(c \in DOMAIN Sextet /\ Sextet[c] < 52) /\ c \in {"0", "1", "2", "3", "4"}
    BY <1>2
  <2> QED
    BY <2>1, Zenon DEF IndexHardSize
<1>5. CASE code \in One(Letters256)
  <2>1. PICK c \in Letters256 : code = <<c>>
    BY <1>5 DEF One
  <2>2. Xizage[code] = Xizage256
    <3>1. code \notin Two("0", Letters448) /\ code \notin Two("2", Letters256) /\ code \notin Two("3", Letters448)
      BY <2>1, Zenon DEF Two
    <3>2. Xizage[code] = CASE code \in One(Letters256) -> Xizage256
                           [] code \in Two("2", Letters256) -> Xizage256Big
                           [] code \in Two("0", Letters448) -> Xizage448
                           [] code \in Two("3", Letters448) -> Xizage448Big
      BY Zenon DEF Xizage
    <3> QED
      BY <1>5, <3>1, <3>2, Zenon
  <2>3. hs = 1
    BY <2>2 DEF Xizage256
  <2> QED
    BY <1>1, <1>3, <2>1, <2>3
<1>6. CASE code \notin One(Letters256)
  <2>1. PICK c \in {"0", "2", "3"}, d \in Letters256 : code = <<c, d>>
    BY <1>1, <1>6 DEF IndexedSigCodes, Two
  <2>2. Xizage[code] \in {Xizage256Big, Xizage448, Xizage448Big}
    BY <1>6 DEF Xizage, IndexedSigCodes
  <2>3. hs = 2
    BY <2>2 DEF Xizage256Big, Xizage448, Xizage448Big
  <2>4. c \in DOMAIN Sextet /\ d \in DOMAIN Sextet
    BY <1>1, <1>2
  <2> DEFINE letters == DOMAIN Sextet
  <2> HIDE DEF letters
  <2>5. code \in Seq(letters) /\ Len(code) = 2 /\ code[1] = c
    BY <2>1, <2>4 DEF letters
  <2> QED
    BY <1>4, <2>3, <2>5 DEF letters
<1> QED
  BY <1>5, <1>6

(* They are so in each of the four sizes.                                  *)
LEMMA SharesOut ==
  ASSUME NEW code \in IndexedSigCodes, NEW size, size = Xizage[code],
         NEW cs, cs = size.hs + size.ss, NEW pad, pad = cs % 4,
         NEW os, os = size.os, NEW w, w = size.ss - os,
         NEW N, N = IF size.raw = 64 THEN 22 ELSE 38
  PROVE  Shares(size, cs, pad, w, os, N)
<1>1. size \in {Xizage256, Xizage256Big, Xizage448, Xizage448Big}
  BY XizageFits
<1>2. LeadSize(64) = 2 /\ LeadSize(114) = 0
  BY DEF LeadSize
<1>3. CASE size = Xizage256
  <2>1. size.hs = 1 /\ size.ss = 1 /\ os = 0 /\ size.raw = 64 /\ size.fs = 88
    BY <1>3 DEF Xizage256
  <2>2. cs = 2 /\ w = 1 /\ N = 22
    BY <2>1
  <2>3. pad = 2
    BY <2>2
  <2> QED
    BY <1>2, <2>1, <2>2, <2>3 DEF Shares
<1>4. CASE size = Xizage256Big
  <2>1. size.hs = 2 /\ size.ss = 4 /\ os = 2 /\ size.raw = 64 /\ size.fs = 92
    BY <1>4 DEF Xizage256Big
  <2>2. cs = 6 /\ w = 2 /\ N = 22
    BY <2>1
  <2>3. pad = 2
    BY <2>2
  <2> QED
    BY <1>2, <2>1, <2>2, <2>3 DEF Shares
<1>5. CASE size = Xizage448
  <2>1. size.hs = 2 /\ size.ss = 2 /\ os = 1 /\ size.raw = 114 /\ size.fs = 156
    BY <1>5 DEF Xizage448
  <2>2. cs = 4 /\ w = 1 /\ N = 38
    BY <2>1
  <2>3. pad = 0
    BY <2>2
  <2> QED
    BY <1>2, <2>1, <2>2, <2>3 DEF Shares
<1>6. CASE size = Xizage448Big
  <2>1. size.hs = 2 /\ size.ss = 6 /\ os = 3 /\ size.raw = 114 /\ size.fs = 160
    BY <1>6 DEF Xizage448Big
  <2>2. cs = 8 /\ w = 3 /\ N = 38
    BY <2>1
  <2>3. pad = 0
    BY <2>2
  <2> QED
    BY <1>2, <2>1, <2>2, <2>3 DEF Shares
<1> QED
  BY <1>1, <1>3, <1>4, <1>5, <1>6

\* The second place as it is written: zero for the codes that have none.
Written2(ondex) == IF ondex = {} THEN 0 ELSE CHOOSE n \in ondex : TRUE

(* The places of a signature fit the fields they are written in.           *)
LEMMA PlacesFit ==
  ASSUME NEW v, IsIndexer(v), NEW size, size = Xizage[v.code],
         NEW os, os = size.os, NEW w, w = size.ss - os, w \in 1..3, os \in 0..3,
         NEW second, second = Written2(v.ondex)
  PROVE  /\ v.index \in Fields /\ v.index < 64 ^ w
         /\ second \in Fields
         /\ CurrentOnly(v.code) => v.ondex = {} /\ second = 0
         /\ ~CurrentOnly(v.code) => v.ondex = {second}
         /\ ~CurrentOnly(v.code) /\ os = 0 => second = v.index
         /\ os # 0 \/ CurrentOnly(v.code) => second < 64 ^ os
<1>1. \A n : n \in 0..4 => 64 ^ n \in Nat \ {0} /\ 64 ^ n <= 64 ^ 4
  <2> SUFFICES ASSUME NEW n \in 0..4 PROVE 64 ^ n \in Nat \ {0} /\ 64 ^ n <= 64 ^ 4
    OBVIOUS
  <2> DEFINE z == 0
             f == 4
  <2>1. z \in 0..4 /\ n \in z..4 /\ f \in n..4 /\ f \in 0..4
    OBVIOUS
  <2> HIDE DEF z, f
  <2>2. 64 ^ z \in Nat /\ 64 ^ n \in Nat /\ 64 ^ z <= 64 ^ n /\ 64 ^ f \in Nat /\ 64 ^ n <= 64 ^ f
    BY <2>1, PowersGrow
  <2>3. 64 ^ z = 1
    BY PowersOf DEF z
  <2> DEFINE p == 64 ^ n
             q == 64 ^ f
  <2>4. p \in Nat \ {0} /\ p <= q
    <3> DEFINE o == 64 ^ z
    <3>1. o = 1 /\ o \in Nat /\ p \in Nat /\ o <= p /\ p <= q
      BY <2>2, <2>3
    <3> HIDE DEF o, p, q
    <3> QED
      BY <3>1
  <2> QED
    BY <2>4 DEF f
<1>2. ASSUME NEW n \in 0..4, NEW u \in 0..(64 ^ n - 1)
      PROVE  u \in Fields /\ u < 64 ^ n
  <2> DEFINE p == 64 ^ n
             q == 64 ^ 4
  <2>1. p \in Nat \ {0} /\ p <= q /\ u \in 0..(p - 1) /\ 4 \in 0..4
    BY <1>1
  <2>2. q \in Nat \ {0}
    BY <1>1, <2>1
  <2> HIDE DEF p, q
  <2>3. u < p /\ u \in 0..(q - 1)
    BY <2>1, <2>2
  <2> QED
    BY <2>3 DEF p, q, Fields
<1>3. w \in 0..4 /\ os \in 0..4
  OBVIOUS
<1>4. v.index \in 0..(64 ^ w - 1)
  BY DEF IsIndexer, MaxIndex
<1>5. v.index \in Fields /\ v.index < 64 ^ w
  BY <1>2, <1>3, <1>4
<1>6. 0 \in Fields /\ 0 < 64 ^ os
  <2>1. 64 ^ os \in Nat \ {0}
    BY <1>1, <1>3
  <2> DEFINE p == 64 ^ os
  <2>2. p \in Nat \ {0} /\ 0 \in 0..(p - 1)
    BY <2>1
  <2> HIDE DEF p
  <2>3. 0 < p
    BY <2>2
  <2> QED
    BY <1>2, <1>3, <2>2, <2>3 DEF p
<1>7. CASE CurrentOnly(v.code)
  <2>1. v.ondex = {}
    BY <1>7 DEF IsIndexer
  <2>2. second = 0
    BY <2>1 DEF Written2
  <2> QED
    BY <1>5, <1>6, <1>7, <2>1, <2>2
<1>8. CASE ~CurrentOnly(v.code)
  <2>1. PICK ondex \in 0..MaxOndex(v.code) : v.ondex = {ondex} /\ (size.os = 0 => ondex = v.index)
    BY <1>8 DEF IsIndexer
  <2>2. second = ondex
    BY <2>1 DEF Written2
  <2>3. CASE os = 0
    BY <1>5, <1>8, <2>1, <2>2, <2>3
  <2>4. CASE os # 0
    <3>1. ondex \in 0..(64 ^ os - 1)
      BY <2>1, <2>4 DEF MaxOndex
    <3>2. ondex \in Fields /\ ondex < 64 ^ os
      BY <1>2, <1>3, <3>1
    <3> QED
      BY <1>5, <1>8, <2>1, <2>2, <2>4, <3>2
  <2> QED
    BY <2>3, <2>4
<1> QED
  BY <1>7, <1>8

(* What is written of an indexed signature is read back.                   *)
THEOREM IndexerReturns ==
  ASSUME NEW v, IsIndexer(v)
  PROVE  /\ WriteIndexer(v) \in Seq(DOMAIN Sextet)
         /\ ReadsBack(ReadIndexer(WriteIndexer(v)), WriteIndexer(v), v)
<1> DEFINE text == WriteIndexer(v)
           code == v.code
           size == Xizage[code]
           cs == size.hs + size.ss
           pad == cs % 4
           os == size.os
           w == size.ss - os
           hs == size.hs
           full == size.fs
           N == IF size.raw = 64 THEN 22 ELSE 38
           letters == DOMAIN Sextet
           second == Written2(v.ondex)
           p == Digits(v.index, w)
           q == Digits(second, os)
           whole == Zeros(pad) \o v.raw
           payload == AllCharacters(whole)
           m == 3 * N
           n == 4 * N
           body == Piece(payload, pad, n)
           n2 == hs + w
           current == CurrentOnly(code)
<1>1. code \in IndexedSigCodes /\ v.raw \in Seq(Byte) /\ Len(v.raw) = size.raw
      /\ v = IndexerOf(code, v.index, v.ondex, v.raw)
  BY DEF IsIndexer
<1>2. Shares(size, cs, pad, w, os, N)
  BY <1>1, SharesOut
<1>3. /\ code \in Seq(letters) /\ Len(code) = hs /\ hs \in {1, 2} /\ IndexHardSize(code[1]) = hs
  BY <1>1, IndexedSpelt
<1>4. LeadSize(Len(v.raw)) = pad
  BY <1>1, <1>2 DEF Shares
<1>5. text = code \o p \o q \o SubSeq(payload, pad + 1, Len(payload))
  BY <1>4 DEF WriteIndexer, Written2
<1>6. size = Xizage[v.code] /\ os = size.os /\ w = size.ss - os /\ second = Written2(v.ondex)
  OBVIOUS
<1> HIDE DEF size, text, whole, payload, body, second, p, q, current
<1> HIDE DEF cs, pad, os, w, N, hs, full
<1>7. /\ cs \in {2, 4, 6, 8} /\ pad \in 0..3 /\ w \in 1..3 /\ os \in 0..3 /\ N \in {22, 38}
      /\ hs + w + os = cs
      /\ pad + Len(v.raw) = 3 * N /\ cs + (4 * N - pad) = full
  BY <1>1, <1>2 DEF Shares, hs, full
<1>8. /\ v.index \in Fields /\ v.index < 64 ^ w
      /\ second \in Fields
      /\ current => v.ondex = {} /\ second = 0
      /\ ~current => v.ondex = {second}
      /\ ~current /\ os = 0 => second = v.index
      /\ os # 0 \/ current => second < 64 ^ os
  BY <1>6, <1>7, PlacesFit, SMTT(40) DEF current
<1>9. w \in 0..4 /\ os \in 0..4
  BY <1>7
<1>10. p \in Seq(letters) /\ Len(p) = w /\ DecodeInt(p) = v.index
  BY <1>8, <1>9, DigitsAre, DigitsReturn DEF p
<1>11. /\ q \in Seq(letters) /\ Len(q) = os
       /\ os # 0 \/ current => DecodeInt(q) = second
  BY <1>8, <1>9, DigitsAre, DigitsReturn DEF q
<1>12. /\ whole \in Seq(Byte) /\ Len(whole) = m
       /\ \A i \in 1..pad : whole[i] = 0
       /\ pad <= m
       /\ Piece(whole, pad, m) = v.raw
  <2> DEFINE raw == v.raw
  <2>1. raw \in Seq(Byte) /\ whole = Zeros(pad) \o raw /\ m = pad + Len(raw) /\ pad \in Nat /\ m \in Nat
    BY <1>1, <1>7 DEF whole
  <2> HIDE DEF raw, m
  <2>2. ZerosAndRaw(whole, raw, pad, m)
    BY <2>1, WholeIs
  <2> QED
    BY <2>2 DEF raw, ZerosAndRaw
<1>13. /\ body \in Seq(letters) /\ Len(body) = n - pad
       /\ Padding(pad) \o body = payload
       /\ payload \in Seq(letters) /\ Len(payload) = n /\ Bytes(payload) = whole
  <2>1. m = 3 * N /\ n = 4 * N /\ payload = AllCharacters(whole) /\ body = Piece(payload, pad, n) /\ N \in Nat
    BY <1>7 DEF payload, body
  <2> HIDE DEF m, n
  <2>2. Unpadded(body, payload, pad, n, whole)
    BY <1>7, <1>12, <2>1, PayloadWritten
  <2> QED
    BY <2>2 DEF Unpadded
<1>14. text = code \o p \o q \o body
  BY <1>5, <1>13 DEF body, Piece
<1> HIDE DEF letters
<1>15. hs = Len(code) /\ n2 = hs + Len(p) /\ cs = n2 + Len(q) /\ full = cs + Len(body)
  BY <1>3, <1>7, <1>10, <1>11, <1>13
<1> HIDE DEF n2
<1>16. FourParts(text, letters, code, p, q, body, <<hs, n2, cs, full>>)
  BY <1>3, <1>10, <1>11, <1>13, <1>14, <1>15, FourPartsStand
<1>17. /\ text \in Seq(letters) /\ Len(text) = full
       /\ Piece(text, 0, hs) = code /\ Piece(text, hs, n2) = p /\ Piece(text, n2, cs) = q
       /\ Piece(text, cs, full) = body
       /\ \A i \in 1..hs : text[i] = code[i]
  BY <1>16 DEF FourParts
<1>18. full \in Nat \ {0} /\ hs <= full /\ cs <= full /\ cs \in Nat
  <2>1. N \in {22, 38} /\ full = cs + (4 * N - pad)
    BY <1>7
  <2> QED
    BY <1>3, <1>7, <2>1
<1>19. text # <<>> /\ hs <= Len(text) /\ cs <= Len(text) /\ ~(Len(text) < full)
  BY <1>17, <1>18
<1>20. IndexedCodeAt(text) = [verdict |-> "Ok", code |-> code]
  <2>1. text[1] = code[1]
    BY <1>3, <1>17
  <2>2. IndexHardSize(text[1]) = hs
    BY <1>3, <2>1
  <2>3. SubSeq(text, 1, hs) = code
    BY <1>17 DEF Piece
  <2>4. IndexedCodeAt(text) =
          CASE text = <<>> -> NeedBytes
            [] text # <<>> /\ hs = 0 -> Malformed
            [] text # <<>> /\ hs > Len(text) -> NeedBytes
            [] OTHER -> IF code \in IndexedSigCodes THEN [verdict |-> "Ok", code |-> code] ELSE Malformed
    BY <2>2, <2>3 DEF IndexedCodeAt
  <2>5. hs # 0 /\ ~(hs > Len(text))
    BY <1>3, <1>17, <1>18
  <2> QED
    BY <1>1, <1>19, <2>4, <2>5
<1>21. ReadIndexer(text) = IndexerAt(code, size, text)
  <2>1. ReadIndexer(text) = IF Len(text) < CodeChars(size) THEN NeedBytes ELSE IndexerAt(code, size, text)
    BY <1>20 DEF ReadIndexer, IfOk, size
  <2>2. CodeChars(size) = cs
    BY DEF CodeChars, cs
  <2>3. ~(Len(text) < cs)
    BY <1>17, <1>18
  <2> QED
    BY <2>1, <2>2, <2>3
<1>22. /\ SubSeq(text, size.hs + 1, cs - size.os) = p
       /\ SubSeq(text, cs - size.os + 1, cs) = q
       /\ SubSeq(text, cs + 1, size.fs) = body
  <2>1. cs - os = n2
    BY <1>7, <1>3 DEF n2
  <2>2. SubSeq(text, hs + 1, cs - os) = p /\ SubSeq(text, cs - os + 1, cs) = q /\ SubSeq(text, cs + 1, full) = body
    BY <1>17, <2>1 DEF Piece
  <2> QED
    BY <2>2 DEF hs, os, full
<1> DEFINE ondex == CASE current -> {}
                      [] ~current /\ os > 0 -> {DecodeInt(q)}
                      [] OTHER -> {DecodeInt(p)}
           zero == current => DecodeInt(q) = 0
           out == [verdict |-> "Ok", size |-> full,
                   value |-> IndexerOf(code, DecodeInt(p), ondex, SubSeq(whole, pad + 1, Len(whole)))]
<1>23. IndexerAt(code, size, text) =
         CASE ~InAlphabet(p \o q) \/ ~zero -> Malformed
           [] InAlphabet(p \o q) /\ zero /\ Len(text) < full -> NeedBytes
           [] OTHER -> IF InAlphabet(payload) THEN out ELSE Malformed
  <2>1. Bytes(payload) = whole /\ [i \in 1..pad |-> "A"] \o body = payload
    BY <1>13 DEF Padding
  <2>2. size.hs + size.ss = cs /\ cs % 4 = pad /\ size.os = os /\ size.fs = full /\ CurrentOnly(code) = current
    BY DEF cs, pad, os, full, current
  <2> HIDE DEF code
  <2> QED
    BY <1>22, <2>1, <2>2 DEF IndexerAt
<1>24. InAlphabet(p \o q) /\ InAlphabet(payload)
  <2>1. p \o q \in Seq(letters)
    BY <1>10, <1>11
  <2> QED
    BY <1>13, <2>1 DEF InAlphabet, letters
<1>25. zero
  BY <1>8, <1>11
<1>26. ondex = v.ondex
  <2>1. CASE current
    BY <1>8, <2>1
  <2>2. CASE ~current /\ os > 0
    <3>1. DecodeInt(q) = second
      BY <1>7, <1>11, <2>2
    <3> QED
      BY <1>8, <2>2, <3>1
  <2>3. CASE ~current /\ ~(os > 0)
    <3>1. os = 0
      BY <1>7, <2>3
    <3> QED
      BY <1>8, <1>10, <2>3, <3>1
  <2> QED
    BY <2>1, <2>2, <2>3
<1>27. SubSeq(whole, pad + 1, Len(whole)) = v.raw
  BY <1>12 DEF Piece
<1>28. IndexerAt(code, size, text) = out
  <2> HIDE DEF out, zero
  <2> QED
    BY <1>19, <1>23, <1>24, <1>25, Zenon
<1>29. out = [verdict |-> "Ok", size |-> Len(text), value |-> v]
  BY <1>1, <1>10, <1>17, <1>26, <1>27
<1> QED
  BY <1>17, <1>19, <1>21, <1>28, <1>29 DEF ReadsBack, text, letters

(* What stands for protocols and serializations, four letters each, and    *)
(* no two alike.                                                           *)
LEMMA NamesSpelt ==
  /\ \A p \in DOMAIN Protocols :
       Protocols[p] \in Seq(DOMAIN Sextet) /\ Len(Protocols[p]) = 4 /\ Named(Protocols, Protocols[p]) = {p}
  /\ \A k \in DOMAIN Kinds :
       Kinds[k] \in Seq(DOMAIN Sextet) /\ Len(Kinds[k]) = 4 /\ Named(Kinds, Kinds[k]) = {k}
<1> DEFINE letters == DOMAIN Sextet
<1>1. \A c \in Capitals : c \in letters
  BY Places
<1>2. /\ {"K", "E", "R", "I", "A", "C", "D", "J", "S", "O", "N", "B", "M", "G", "P"} \subseteq letters
  BY <1>1 DEF Capitals
<1> HIDE DEF letters
<1>3. DOMAIN Protocols = {"KERI", "ACDC"} /\ Protocols["KERI"] = <<"K", "E", "R", "I">>
      /\ Protocols["ACDC"] = <<"A", "C", "D", "C">>
  BY DEF Protocols
<1>4. /\ DOMAIN Kinds = {"JSON", "CBOR", "MGPK", "CESR"}
      /\ Kinds["JSON"] = <<"J", "S", "O", "N">> /\ Kinds["CBOR"] = <<"C", "B", "O", "R">>
      /\ Kinds["MGPK"] = <<"M", "G", "P", "K">> /\ Kinds["CESR"] = <<"C", "E", "S", "R">>
  BY DEF Kinds
<1>8. /\ "K" \in letters /\ "E" \in letters /\ "R" \in letters /\ "I" \in letters /\ "A" \in letters
      /\ "C" \in letters /\ "D" \in letters /\ "J" \in letters /\ "S" \in letters /\ "O" \in letters
      /\ "N" \in letters /\ "B" \in letters /\ "M" \in letters /\ "G" \in letters /\ "P" \in letters
  BY <1>2
<1>5. ASSUME NEW p \in DOMAIN Protocols
      PROVE  Protocols[p] \in Seq(letters) /\ Len(Protocols[p]) = 4 /\ Named(Protocols, Protocols[p]) = {p}
  <2>1. Protocols[p] \in Seq(letters) /\ Len(Protocols[p]) = 4
    <3>1. <<"K", "E", "R", "I">> \in Seq(letters) /\ Len(<<"K", "E", "R", "I">>) = 4
      BY <1>8
    <3>2. <<"A", "C", "D", "C">> \in Seq(letters) /\ Len(<<"A", "C", "D", "C">>) = 4
      BY <1>8
    <3>3. p = "KERI" \/ p = "ACDC"
      BY <1>3
    <3> QED
      BY <1>3, <3>1, <3>2, <3>3, Zenon
  <2>2. \A q \in DOMAIN Protocols : Protocols[q] = Protocols[p] => q = p
    BY <1>3
  <2> QED
    BY <2>1, <2>2 DEF Named
<1>6. ASSUME NEW k \in DOMAIN Kinds
      PROVE  Kinds[k] \in Seq(letters) /\ Len(Kinds[k]) = 4 /\ Named(Kinds, Kinds[k]) = {k}
  <2>1. Kinds[k] \in Seq(letters) /\ Len(Kinds[k]) = 4
    <3>1. <<"J", "S", "O", "N">> \in Seq(letters) /\ Len(<<"J", "S", "O", "N">>) = 4
      BY <1>8
    <3>2. <<"C", "B", "O", "R">> \in Seq(letters) /\ Len(<<"C", "B", "O", "R">>) = 4
      BY <1>8
    <3>3. <<"M", "G", "P", "K">> \in Seq(letters) /\ Len(<<"M", "G", "P", "K">>) = 4
      BY <1>8
    <3>4. <<"C", "E", "S", "R">> \in Seq(letters) /\ Len(<<"C", "E", "S", "R">>) = 4
      BY <1>8
    <3>5. k = "JSON" \/ k = "CBOR" \/ k = "MGPK" \/ k = "CESR"
      BY <1>4
    <3> QED
      BY <1>4, <3>1, <3>2, <3>3, <3>4, <3>5, Zenon
  <2>2. \A q \in DOMAIN Kinds : Kinds[q] = Kinds[k] => q = k
    <3>1. <<"J", "S", "O", "N">>[1] = "J" /\ <<"C", "B", "O", "R">>[1] = "C"
          /\ <<"M", "G", "P", "K">>[1] = "M" /\ <<"C", "E", "S", "R">>[1] = "C"
          /\ <<"C", "B", "O", "R">>[2] = "B" /\ <<"C", "E", "S", "R">>[2] = "E"
      OBVIOUS
    <3> QED
      BY <1>4, <3>1
  <2> QED
    BY <2>1, <2>2 DEF Named
<1> QED
  BY <1>5, <1>6 DEF letters

(* A hexadecimal digit is read again.                                      *)
LEMMA HexDigitReturns ==
  ASSUME NEW d \in 0..15
  PROVE  /\ HexDigit(Hexadecimal[d + 1]) = d
         /\ Hexadecimal[d + 1] \in Range(Hexadecimal)
         /\ Hexadecimal[d + 1] \in DOMAIN Sextet
<1> DEFINE c == Hexadecimal[d + 1]
           i == d + 1
<1>1. i \in 1..16 /\ i - 1 = d /\ d + 1 = i
  OBVIOUS
<1>2. \A j \in 1..16 : Hexadecimal[j] = Hexadecimal[i] => j = i
  BY <1>1, SMTT(60) DEF Hexadecimal
<1>3. Hexadecimal[i] \in Range(Hexadecimal)
  <2>1. DOMAIN Hexadecimal = 1..16
    BY DEF Hexadecimal
  <2> QED
    BY <1>1, <2>1 DEF Range
<1>4. Hexadecimal[i] \notin DOMAIN UpperCase
  <2>1. DOMAIN UpperCase = {"A", "B", "C", "D", "E", "F"}
    BY DEF UpperCase
  <2>2. \A j \in 1..16 : Hexadecimal[j] \notin {"A", "B", "C", "D", "E", "F"}
    BY SMTT(60) DEF Hexadecimal
  <2> QED
    BY <1>1, <2>1, <2>2
<1>5. \E v \in 0..63 : Alphabet[v + 1] = Hexadecimal[i]
  <2>1. \A j \in 1..16 : \E v \in 0..63 : Alphabet[v + 1] = Hexadecimal[j]
    BY SMTT(60) DEF Hexadecimal, Alphabet
  <2> QED
    BY <1>1, <2>1
<1>6. Hexadecimal[i] \in DOMAIN Sextet
  BY <1>5, SextetIsPlace
<1> DEFINE place == CHOOSE j \in 1..16 : Hexadecimal[j] = Hexadecimal[i]
<1>7. place = i
  BY <1>1, <1>2
<1>8. HexDigit(Hexadecimal[i]) = place - 1
  BY <1>3, <1>4, Zenon DEF HexDigit
<1> HIDE DEF place, i
<1> QED
  BY <1>1, <1>3, <1>6, <1>7, <1>8

\* The digit of a number at a place, to the base sixteen.
HexPlace(v, k) == (v \div 16 ^ k) % 16

\* The number six hexadecimal digits are.
HexFrom(d0, d1, d2, d3, d4, d5) == d0 + 16 * d1 + 256 * d2 + 4096 * d3 + 65536 * d4 + 1048576 * d5

HexPlacesAre(v, d0, d1, d2, d3, d4, d5) ==
  /\ HexPlace(v, 0) = d0 /\ HexPlace(v, 1) = d1 /\ HexPlace(v, 2) = d2
  /\ HexPlace(v, 3) = d3 /\ HexPlace(v, 4) = d4 /\ HexPlace(v, 5) = d5

(* The hexadecimal digits of a number are those it was made of.            *)
LEMMA HexPlacesOf ==
  ASSUME NEW d0 \in 0..15, NEW d1 \in 0..15, NEW d2 \in 0..15, NEW d3 \in 0..15, NEW d4 \in 0..15, NEW d5 \in 0..15,
         NEW v, v = HexFrom(d0, d1, d2, d3, d4, d5)
  PROVE  HexPlacesAre(v, d0, d1, d2, d3, d4, d5)
<1>0. v = d0 + 16 * d1 + 256 * d2 + 4096 * d3 + 65536 * d4 + 1048576 * d5
  BY SMT DEF HexFrom
<1>1. (v \div 1) % 16 = d0
  BY <1>0, SMT
<1>2. (v \div 16) % 16 = d1
  <2>1. v \div 16 = d1 + 16 * d2 + 256 * d3 + 4096 * d4 + 65536 * d5
    BY <1>0, SMT
  <2> QED
    BY <2>1, SMT
<1>3. (v \div 256) % 16 = d2
  <2>1. v \div 256 = d2 + 16 * d3 + 256 * d4 + 4096 * d5
    BY <1>0, SMT
  <2> QED
    BY <2>1, SMT
<1>4. (v \div 4096) % 16 = d3
  <2>1. v \div 4096 = d3 + 16 * d4 + 256 * d5
    BY <1>0, SMT
  <2> QED
    BY <2>1, SMT
<1>5. (v \div 65536) % 16 = d4
  <2>1. v \div 65536 = d4 + 16 * d5
    BY <1>0, SMT
  <2> QED
    BY <2>1, SMT
<1>6. (v \div 1048576) % 16 = d5
  <2>1. v \div 1048576 = d5
    BY <1>0, SMT
  <2> QED
    BY <2>1, SMT
<1> QED
  BY <1>1, <1>2, <1>3, <1>4, <1>5, <1>6, Powers, SMT DEF HexPlace, HexPlacesAre

\* A number, its last digit and the others.
Splits(v, d, r, n) == d \in 0..15 /\ r \in Nat /\ v = d + 16 * r /\ r < n

(* One digit less.                                                         *)
LEMMA OneDigit ==
  ASSUME NEW v \in Nat, NEW n \in Nat, NEW m, m = 16 * n, v < m
  PROVE  Splits(v, v % 16, v \div 16, n)
BY SMT DEF Splits

(* The digits of a number give it again.                                   *)
LEMMA HexPlaces ==
  ASSUME NEW v \in Nat, v <= SizeMax
  PROVE  /\ \A k \in 0..5 : HexPlace(v, k) \in 0..15
         /\ v = HexPlace(v, 0) + 16 * HexPlace(v, 1) + 16 ^ 2 * HexPlace(v, 2) + 16 ^ 3 * HexPlace(v, 3)
                  + 16 ^ 4 * HexPlace(v, 4) + 16 ^ 5 * HexPlace(v, 5)
         /\ v <= DigitMax => v = HexPlace(v, 0)
<1> DEFINE n1 == 16
           n2 == 256
           n3 == 4096
           n4 == 65536
           n5 == 1048576
           n6 == 16777216
<1>0. /\ n1 \in Nat /\ n2 \in Nat /\ n3 \in Nat /\ n4 \in Nat /\ n5 \in Nat
      /\ n2 = 16 * n1 /\ n3 = 16 * n2 /\ n4 = 16 * n3 /\ n5 = 16 * n4 /\ n6 = 16 * n5
      /\ v \in Nat /\ v < n6
  <2>1. n1 \in Nat /\ n2 \in Nat /\ n3 \in Nat /\ n4 \in Nat /\ n5 \in Nat
    BY SMT
  <2>2. n2 = 16 * n1 /\ n3 = 16 * n2
    BY SMT
  <2>3. n4 = 16 * n3 /\ n5 = 16 * n4
    BY SMT
  <2>4. n6 = 16 * n5
    BY SMT
  <2>5. v \in Nat /\ v < n6
    BY SMT DEF SizeMax
  <2> QED
    BY <2>1, <2>2, <2>3, <2>4, <2>5, SMT
<1> HIDE DEF n1, n2, n3, n4, n5, n6
<1>1. PICK a, r : Splits(v, a, r, n5)
  BY <1>0, OneDigit
<1>2. PICK b, s : Splits(r, b, s, n4)
  <2>1. r \in Nat /\ r < n5
    BY <1>1 DEF Splits
  <2> QED
    BY <1>0, <2>1, OneDigit
<1>3. PICK c, t : Splits(s, c, t, n3)
  <2>1. s \in Nat /\ s < n4
    BY <1>2 DEF Splits
  <2> QED
    BY <1>0, <2>1, OneDigit
<1>4. PICK d, u : Splits(t, d, u, n2)
  <2>1. t \in Nat /\ t < n3
    BY <1>3 DEF Splits
  <2> QED
    BY <1>0, <2>1, OneDigit
<1>5. PICK e, f : Splits(u, e, f, n1)
  <2>1. u \in Nat /\ u < n2
    BY <1>4 DEF Splits
  <2> QED
    BY <1>0, <2>1, OneDigit
<1>6. /\ a \in 0..15 /\ b \in 0..15 /\ c \in 0..15 /\ d \in 0..15 /\ e \in 0..15 /\ f \in 0..15
      /\ v = HexFrom(a, b, c, d, e, f)
      /\ v = a + 16 * r /\ r \in Nat
  BY <1>1, <1>2, <1>3, <1>4, <1>5, SMT DEF Splits, n1, HexFrom
<1>7. /\ HexPlace(v, 0) = a /\ HexPlace(v, 1) = b /\ HexPlace(v, 2) = c
      /\ HexPlace(v, 3) = d /\ HexPlace(v, 4) = e /\ HexPlace(v, 5) = f
  <2>1. HexPlacesAre(v, a, b, c, d, e, f)
    BY <1>6, HexPlacesOf
  <2> QED
    BY <2>1 DEF HexPlacesAre
<1>8. v = HexPlace(v, 0) + 16 * HexPlace(v, 1) + 16 ^ 2 * HexPlace(v, 2) + 16 ^ 3 * HexPlace(v, 3)
                  + 16 ^ 4 * HexPlace(v, 4) + 16 ^ 5 * HexPlace(v, 5)
  BY <1>6, <1>7, Powers, SMT DEF HexFrom
<1>9. \A k \in 0..5 : k = 0 \/ k = 1 \/ k = 2 \/ k = 3 \/ k = 4 \/ k = 5
  BY SMT
<1>10. \A k \in 0..5 : HexPlace(v, k) \in 0..15
  BY <1>6, <1>7, <1>9, SMT
<1>11. v <= DigitMax => v = HexPlace(v, 0)
  BY <1>6, <1>7, SMT DEF DigitMax
<1> QED
  BY <1>8, <1>10, <1>11, SMT

(* A number in hexadecimal digits, one or six, is read again.              *)
LEMMA HexReturns ==
  ASSUME NEW v \in Nat, v <= SizeMax, NEW w \in {1, 6}, w = 1 => v <= DigitMax,
         NEW p, p = HexOf(v, w)
  PROVE  /\ p \in Seq(DOMAIN Sextet) /\ Len(p) = w
         /\ \A i \in 1..w : p[i] \in Range(Hexadecimal)
         /\ HexValue(p) = v
<1> DEFINE letters == DOMAIN Sextet
           c(i) == Hexadecimal[HexPlace(v, w - i) + 1]
<1>1. p = [i \in 1..w |-> c(i)]
  BY Zenon DEF HexOf, HexPlace
<1>2. \A i \in 1..w : w - i \in 0..5
  OBVIOUS
<1>3. \A i \in 1..w : c(i) \in letters /\ c(i) \in Range(Hexadecimal) /\ HexDigit(c(i)) = HexPlace(v, w - i)
  <2>1. \A i \in 1..w : HexPlace(v, w - i) \in 0..15
    BY <1>2, HexPlaces
  <2> QED
    BY <2>1, HexDigitReturns
<1> HIDE DEF c, letters
<1>4. p \in Seq(letters) /\ Len(p) = w /\ \A i \in 1..w : p[i] = c(i)
  BY <1>1, <1>3
<1>5. \A i \in 1..w : p[i] \in Range(Hexadecimal)
  BY <1>3, <1>4
<1> DEFINE digit(n) == IF n < Len(p) THEN HexDigit(p[Len(p) - n]) ELSE 0
<1>6. HexValue(p) = digit(0) + 16 * digit(1) + 16 ^ 2 * digit(2) + 16 ^ 3 * digit(3)
                      + 16 ^ 4 * digit(4) + 16 ^ 5 * digit(5)
  BY Zenon DEF HexValue
<1>7. ASSUME NEW n \in 0..5
      PROVE  digit(n) = IF n < w THEN HexPlace(v, n) ELSE 0
  <2>1. CASE n < w
    <3> DEFINE i == w - n
    <3>1. i \in 1..w /\ w - i = n /\ Len(p) - n = i
      BY <1>4, <2>1
    <3> HIDE DEF i
    <3>2. HexDigit(p[i]) = HexPlace(v, n)
      BY <1>3, <1>4, <3>1
    <3> QED
      BY <1>4, <2>1, <3>1, <3>2
  <2>2. CASE ~(n < w)
    BY <1>4, <2>2
  <2> QED
    BY <2>1, <2>2
<1> HIDE DEF digit
<1>8. 0 \in 0..5 /\ 1 \in 0..5 /\ 2 \in 0..5 /\ 3 \in 0..5 /\ 4 \in 0..5 /\ 5 \in 0..5
  OBVIOUS
<1>9. HexValue(p) = v
  <2>1. CASE w = 6
    <3>1. /\ digit(0) = HexPlace(v, 0) /\ digit(1) = HexPlace(v, 1) /\ digit(2) = HexPlace(v, 2)
          /\ digit(3) = HexPlace(v, 3) /\ digit(4) = HexPlace(v, 4) /\ digit(5) = HexPlace(v, 5)
      BY <1>7, <1>8, <2>1
    <3> QED
      BY <1>6, <3>1, HexPlaces, Zenon
  <2>2. CASE w = 1
    <3>1. /\ digit(0) = HexPlace(v, 0) /\ digit(1) = 0 /\ digit(2) = 0
          /\ digit(3) = 0 /\ digit(4) = 0 /\ digit(5) = 0
      BY <1>7, <1>8, <2>2
    <3>2. v = HexPlace(v, 0)
      BY <2>2, HexPlaces
    <3>3. HexValue(p) = v + 16 * 0 + 16 ^ 2 * 0 + 16 ^ 3 * 0 + 16 ^ 4 * 0 + 16 ^ 5 * 0
      BY <1>6, <3>1, <3>2, Zenon
    <3> QED
      BY <3>3, Powers, SMT
  <2> QED
    BY <2>1, <2>2
<1> QED
  BY <1>4, <1>5, <1>9 DEF letters

(* A part of the head of a text is a part of the text.                     *)
LEMMA PieceOfHead ==
  ASSUME NEW S, NEW s \in Seq(S), NEW n \in 0..Len(s), NEW h, h = Piece(s, 0, n),
         NEW b \in 0..n, NEW a \in 0..b
  PROVE  Piece(h, a, b) = Piece(s, a, b)
<1> DEFINE first == a + 1
<1>1. h = SubSeq(s, 1, n)
  BY DEF Piece
<1>2. first \in Nat \ {0} /\ first <= b + 1
  OBVIOUS
<1>3. Piece(h, a, b) = SubSeq(h, first, b) /\ Piece(s, a, b) = SubSeq(s, first, b)
  BY DEF Piece
<1> HIDE DEF first
<1> QED
  BY <1>1, <1>2, <1>3, PartOfHead

(* A version string of the second version is read back.                    *)
THEOREM VersionTwoReturns ==
  ASSUME NEW v, IsVersion("V2", v)
  PROVE  /\ WriteVersion(v) \in Seq(DOMAIN Sextet \cup {"."}) /\ Len(WriteVersion(v)) = 19
         /\ WriteVersion(v)[19] = "."
         /\ ReadsBack(ReadVersion("V2", WriteVersion(v)), WriteVersion(v), v)
<1> DEFINE text == WriteVersion(v)
           letters == DOMAIN Sextet
           plain == DOMAIN Sextet \cup {"."}
           proto == Protocols[v.proto]
           kind == Kinds[v.form]
           minor == Digits(v.minor, 2)
           genus == Digits(v.genus, 2)
           size == Digits(v.size, 4)
           dot == <<".">>
           left == proto \o MajorTwo \o minor \o MajorTwo
           head == left \o genus
<1>1. /\ v.proto \in DOMAIN Protocols /\ v.form \in DOMAIN Kinds
      /\ v.minor \in Nat /\ v.genus \in Nat /\ v.size \in Nat
      /\ v.minor <= MinorMax /\ v.genus <= MinorMax /\ v.size <= SizeMax
      /\ v = [kind |-> "V2", proto |-> v.proto, minor |-> v.minor, genus |-> v.genus,
              form |-> v.form, size |-> v.size]
  <2>1. /\ v.proto \in DOMAIN Protocols /\ v.form \in DOMAIN Kinds /\ v.minor \in Nat /\ v.size \in Nat
        /\ v.genus \in Nat /\ v \in VersionStringV2(v.proto, v.minor, v.genus, v.form, v.size)
    BY DEF IsVersion
  <2> QED
    BY <2>1 DEF VersionStringV2
<1>2. ASSUME NEW u \in Nat, NEW n \in {2, 4}, u <= (IF n = 2 THEN MinorMax ELSE SizeMax)
      PROVE  /\ FixedB64(u, n) = Digits(u, n)
             /\ Digits(u, n) \in Seq(letters) /\ Len(Digits(u, n)) = n /\ DecodeInt(Digits(u, n)) = u
  <2>1. u < 64 ^ n /\ u \in Fields
    <3>1. CASE n = 2
      <4>1. 64 ^ n = 4096
        BY <3>1, PowersOf
      <4>2. u <= 4095
        BY <1>2, <3>1 DEF MinorMax
      <4>3. u \in Fields
        BY <4>2, Powers, SMT DEF Fields
      <4> QED
        BY <4>1, <4>2, <4>3, SMT
    <3>2. CASE n = 4
      <4>1. 64 ^ n = 16777216
        BY <3>2, PowersOf, SMT
      <4>2. u <= 16777215
        BY <1>2, <3>2, SMT DEF SizeMax
      <4>3. u \in Fields
        BY <4>2, Powers, SMT DEF Fields
      <4> QED
        BY <4>1, <4>2, <4>3, SMT
    <3> QED
      BY <3>1, <3>2
  <2>2. n \in 1..4 /\ n \in 0..4
    OBVIOUS
  <2> QED
    BY <2>1, <2>2, FixedIs, DigitsAre, DigitsReturn
<1>3. /\ FixedB64(v.minor, 2) = minor /\ minor \in Seq(letters) /\ Len(minor) = 2 /\ DecodeInt(minor) = v.minor
      /\ FixedB64(v.genus, 2) = genus /\ genus \in Seq(letters) /\ Len(genus) = 2 /\ DecodeInt(genus) = v.genus
      /\ FixedB64(v.size, 4) = size /\ size \in Seq(letters) /\ Len(size) = 4 /\ DecodeInt(size) = v.size
  <2>1. 2 \in {2, 4} /\ 4 \in {2, 4}
    OBVIOUS
  <2> HIDE DEF letters
  <2> QED
    BY <1>1, <1>2, <2>1
<1>4. /\ proto \in Seq(letters) /\ Len(proto) = 4 /\ Named(Protocols, proto) = {v.proto}
      /\ kind \in Seq(letters) /\ Len(kind) = 4 /\ Named(Kinds, kind) = {v.form}
  BY <1>1, NamesSpelt
<1>5. MajorTwo \in Seq(letters) /\ Len(MajorTwo) = 1
  <2>1. "C" \in letters
    BY Places DEF Capitals
  <2> HIDE DEF letters
  <2> QED
    BY <2>1 DEF MajorTwo
<1>6. text = head \o kind \o size \o dot
  <2>1. v.kind # "V1"
    BY <1>1
  <2>2. text = Protocols[v.proto] \o MajorTwo \o FixedB64(v.minor, 2) \o MajorTwo \o FixedB64(v.genus, 2)
         \o Kinds[v.form] \o FixedB64(v.size, 4) \o <<".">>
    BY <2>1, Zenon DEF WriteVersion
  <2> QED
    BY <1>3, <2>2, Zenon
<1>7. left = proto \o MajorTwo \o minor \o MajorTwo /\ head = left \o genus /\ dot = <<".">>
  OBVIOUS
<1>8. letters \subseteq plain /\ "." \in plain
  OBVIOUS
<1> HIDE DEF text, letters, plain, proto, kind, minor, genus, size, dot, left, head
<1>9. FourParts(left, letters, proto, MajorTwo, minor, MajorTwo, <<4, 5, 7, 8>>)
  <2> DEFINE n1 == 4
             n2 == 5
             n3 == 7
             n4 == 8
             C == MajorTwo
  <2>1. n1 = Len(proto) /\ n2 = n1 + Len(C) /\ n3 = n2 + Len(minor) /\ n4 = n3 + Len(C)
    BY <1>3, <1>4, <1>5
  <2>2. left = proto \o C \o minor \o C /\ C \in Seq(letters)
    BY <1>5, <1>7
  <2> HIDE DEF n1, n2, n3, n4, C
  <2>3. FourParts(left, letters, proto, C, minor, C, <<n1, n2, n3, n4>>)
    BY <1>3, <1>4, <2>1, <2>2, FourPartsStand
  <2> QED
    BY <2>3 DEF n1, n2, n3, n4, C
<1>10. Joins(head, letters, left, genus, 8, 10)
  <2> DEFINE m == 8
             n == 10
  <2>1. left \in Seq(letters) /\ m = Len(left) /\ n = m + Len(genus)
    BY <1>3, <1>9 DEF FourParts
  <2> HIDE DEF m, n
  <2>2. Joins(head, letters, left, genus, m, n)
    BY <1>3, <1>7, <2>1, JoinedPieces
  <2> QED
    BY <2>2 DEF m, n
<1>11. /\ head \in Seq(letters) /\ Len(head) = 10
       /\ Piece(head, 8, 10) = genus /\ Piece(head, 0, 4) = proto /\ Piece(head, 4, 5) = MajorTwo
       /\ Piece(head, 5, 7) = minor /\ Piece(head, 7, 8) = MajorTwo
  <2>1. /\ 4 \in 0..8 /\ 0 \in 0..4 /\ 5 \in 0..8 /\ 4 \in 0..5 /\ 7 \in 0..8 /\ 5 \in 0..7 /\ 8 \in 0..8 /\ 7 \in 0..8
    OBVIOUS
  <2>2. /\ Piece(left, 0, 4) = proto /\ Piece(left, 4, 5) = MajorTwo
        /\ Piece(left, 5, 7) = minor /\ Piece(left, 7, 8) = MajorTwo
    BY <1>9 DEF FourParts
  <2>3. /\ head \in Seq(letters) /\ Len(head) = 10 /\ Piece(head, 8, 10) = genus
        /\ \A b \in 0..8 : \A a \in 0..b : Piece(head, a, b) = Piece(left, a, b)
    BY <1>10 DEF Joins
  <2> QED
    BY <2>1, <2>2, <2>3, Zenon
<1>12. FourParts(text, plain, head, kind, size, dot, <<10, 14, 18, 19>>)
  <2> DEFINE n1 == 10
             n2 == 14
             n3 == 18
             n4 == 19
  <2>1. Len(dot) = 1 /\ dot \in Seq(plain)
    BY <1>7, <1>8
  <2>2. n1 = Len(head) /\ n2 = n1 + Len(kind) /\ n3 = n2 + Len(size) /\ n4 = n3 + Len(dot)
    BY <1>3, <1>4, <1>11, <2>1
  <2>3. head \in Seq(plain) /\ kind \in Seq(plain) /\ size \in Seq(plain)
    BY <1>3, <1>4, <1>8, <1>11, LargerAlphabet
  <2> HIDE DEF n1, n2, n3, n4
  <2>4. FourParts(text, plain, head, kind, size, dot, <<n1, n2, n3, n4>>)
    BY <1>6, <2>1, <2>2, <2>3, FourPartsStand
  <2> QED
    BY <2>4 DEF n1, n2, n3, n4
<1>13. /\ text \in Seq(plain) /\ Len(text) = 19
       /\ Piece(text, 0, 10) = head /\ Piece(text, 10, 14) = kind /\ Piece(text, 14, 18) = size
       /\ Piece(text, 18, 19) = dot
  BY <1>12 DEF FourParts
<1>14. ASSUME NEW b \in 0..10, NEW a \in 0..b
       PROVE  Piece(text, a, b) = Piece(head, a, b)
  <2> DEFINE n == 10
  <2>1. n \in 0..Len(text) /\ head = Piece(text, 0, n) /\ b \in 0..n
    BY <1>13
  <2> HIDE DEF n
  <2> QED
    BY <1>13, <2>1, PieceOfHead
<1>15. /\ Piece(text, 0, 4) = proto /\ Piece(text, 4, 5) = MajorTwo /\ Piece(text, 5, 7) = minor
       /\ Piece(text, 7, 8) = MajorTwo /\ Piece(text, 8, 10) = genus
  <2>1. /\ 4 \in 0..10 /\ 0 \in 0..4 /\ 5 \in 0..10 /\ 4 \in 0..5 /\ 7 \in 0..10 /\ 5 \in 0..7
        /\ 8 \in 0..10 /\ 7 \in 0..8 /\ 10 \in 0..10 /\ 8 \in 0..10
    OBVIOUS
  <2> QED
    BY <1>11, <1>14, <2>1, Zenon
<1>16. Piece(text, 4, 10) \in Seq(letters)
  <2> DEFINE a == 4
             b == 10
             q == Piece(head, a, b)
  <2>1. b \in 0..Len(head) /\ a \in 0..b /\ b \in 0..10
    BY <1>11
  <2>2. IsPiece(q, letters, head, a, b)
    BY <1>11, <2>1, PieceIs
  <2>3. Piece(text, a, b) = q
    BY <1>14, <2>1
  <2> HIDE DEF q
  <2>4. q \in Seq(letters)
    BY <2>2 DEF IsPiece
  <2> QED
    BY <2>3, <2>4
<1>17. text[19] = "."
  <2> DEFINE a == 18
             b == 19
             q == Piece(text, a, b)
  <2>1. b \in 0..Len(text) /\ a \in 0..b
    BY <1>13
  <2>2. IsPiece(q, plain, text, a, b)
    BY <1>13, <2>1, PieceIs
  <2>3. q = dot
    BY <1>13
  <2> HIDE DEF q
  <2>4. q[1] = text[19]
    BY <2>2 DEF IsPiece
  <2> QED
    BY <1>7, <2>3, <2>4
<1>18. /\ Part(text, 1, 4) = proto /\ Part(text, 5, 1) = MajorTwo /\ Part(text, 6, 2) = minor
       /\ Part(text, 8, 1) = MajorTwo /\ Part(text, 9, 2) = genus /\ Part(text, 11, 4) = kind
       /\ Part(text, 15, 4) = size /\ Part(text, 5, 6) = Piece(text, 4, 10)
  <2>1. /\ Part(text, 1, 4) = Piece(text, 0, 4) /\ Part(text, 5, 1) = Piece(text, 4, 5)
        /\ Part(text, 6, 2) = Piece(text, 5, 7) /\ Part(text, 8, 1) = Piece(text, 7, 8)
        /\ Part(text, 9, 2) = Piece(text, 8, 10) /\ Part(text, 11, 4) = Piece(text, 10, 14)
        /\ Part(text, 15, 4) = Piece(text, 14, 18) /\ Part(text, 5, 6) = Piece(text, 4, 10)
    BY DEF Part, Piece
  <2> QED
    BY <1>13, <1>15, <2>1, Zenon
<1>19. InAlphabet(Part(text, 5, 6) \o Part(text, 15, 4))
  <2> DEFINE a == Piece(text, 4, 10)
  <2>1. a \in Seq(letters)
    BY <1>16
  <2> HIDE DEF a
  <2>2. a \o size \in Seq(letters)
    BY <1>3, <2>1
  <2>3. InAlphabet(a \o size)
    BY <2>2 DEF InAlphabet, letters
  <2> QED
    BY <1>18, <2>3 DEF a
<1>20. ParseV2(text) = {v}
  <2>1. /\ Named(Protocols, Part(text, 1, 4)) = {v.proto} /\ Named(Kinds, Part(text, 11, 4)) = {v.form}
        /\ DecodeInt(Part(text, 6, 2)) = v.minor /\ DecodeInt(Part(text, 9, 2)) = v.genus
        /\ DecodeInt(Part(text, 15, 4)) = v.size
    BY <1>3, <1>4, <1>18
  <2>2. \A x : x \in ParseV2(text) <=> x = v
    BY <1>1, <2>1 DEF ParseV2
  <2> QED
    BY <2>2
<1> DEFINE good == /\ InAlphabet(Part(text, 5, 6) \o Part(text, 15, 4))
                   /\ Part(text, 5, 1) = MajorTwo /\ Part(text, 8, 1) = MajorTwo
                   /\ text[19] = "."
           one == IsHex(Part(text, 5, 2) \o Part(text, 11, 6)) /\ text[17] = Underscore
           cases(k) == CASE k = "V1" /\ one -> ParseV1(text)
                         [] k = "V2" /\ good -> ParseV2(text)
                         [] OTHER -> {}
           width(k) == IF k = "V1" THEN V1Width ELSE V2Width
<1>21. ReadVersion("V2", text) =
         IF Len(text) < width("V2") THEN NeedBytes
         ELSE IF cases("V2") = {} THEN Malformed
         ELSE [verdict |-> "Ok", size |-> width("V2"), value |-> CHOOSE x \in cases("V2") : TRUE]
  BY Zenon DEF ReadVersion
<1>22. width("V2") = 19
  BY DEF V2Width
<1>23. good
  BY <1>17, <1>18, <1>19
<1> HIDE DEF one, good
<1>24. cases("V2") = {v}
  BY <1>20, <1>23
<1> HIDE DEF width, cases
<1>25. ~(Len(text) < width("V2")) /\ cases("V2") # {} /\ (CHOOSE x \in cases("V2") : TRUE) = v
  BY <1>13, <1>22, <1>24
<1>26. ReadVersion("V2", text) = [verdict |-> "Ok", size |-> Len(text), value |-> v]
  BY <1>13, <1>21, <1>22, <1>25
<1>27. text # <<>>
  <2>1. Len(text) # 0
    BY <1>13
  <2>2. Len(<<>>) = 0
    OBVIOUS
  <2> QED
    BY <2>1, <2>2, Zenon
<1> QED
  BY <1>13, <1>17, <1>26, <1>27 DEF ReadsBack, text, plain

(* A version string of the first version is read back.                     *)
THEOREM VersionOneReturns ==
  ASSUME NEW v, IsVersion("V1", v)
  PROVE  /\ WriteVersion(v) \in Seq(DOMAIN Sextet) /\ Len(WriteVersion(v)) = 17
         /\ ReadsBack(ReadVersion("V1", WriteVersion(v)), WriteVersion(v), v)
<1> DEFINE text == WriteVersion(v)
           letters == DOMAIN Sextet
           proto == Protocols[v.proto]
           kind == Kinds[v.form]
           major == HexOf(v.major, 1)
           minor == HexOf(v.minor, 1)
           size == HexOf(v.size, 6)
           tail == <<Underscore>>
           head == proto \o major \o minor \o kind
           sized == head \o size
           hex == Range(Hexadecimal)
<1>1. /\ v.proto \in DOMAIN Protocols /\ v.form \in DOMAIN Kinds
      /\ v.major \in Nat /\ v.minor \in Nat /\ v.size \in Nat
      /\ v.major <= DigitMax /\ v.minor <= DigitMax /\ v.size <= SizeMax
      /\ v = [kind |-> "V1", proto |-> v.proto, major |-> v.major, minor |-> v.minor,
              form |-> v.form, size |-> v.size]
  <2>1. /\ v.proto \in DOMAIN Protocols /\ v.form \in DOMAIN Kinds /\ v.minor \in Nat /\ v.size \in Nat
        /\ v.major \in Nat /\ v \in VersionString(v.proto, v.major, v.minor, v.form, v.size)
    BY DEF IsVersion
  <2> QED
    BY <2>1 DEF VersionString
<1>2. ASSUME NEW u \in Nat, u <= DigitMax
      PROVE  /\ HexOf(u, 1) \in Seq(letters) /\ Len(HexOf(u, 1)) = 1
             /\ \A i \in 1..1 : HexOf(u, 1)[i] \in hex
             /\ HexValue(HexOf(u, 1)) = u
  <2> DEFINE w == 1
             p == HexOf(u, w)
  <2>1. w \in {1, 6} /\ (w = 1 => u <= DigitMax) /\ u <= SizeMax /\ p = HexOf(u, w)
    BY <1>2, SMT DEF DigitMax, SizeMax
  <2> HIDE DEF w, p
  <2>2. /\ p \in Seq(letters) /\ Len(p) = w
        /\ \A i \in 1..w : p[i] \in hex
        /\ HexValue(p) = u
    BY <2>1, HexReturns
  <2> QED
    BY <2>2 DEF w, p
<1>3. /\ major \in Seq(letters) /\ Len(major) = 1 /\ (\A i \in 1..1 : major[i] \in hex) /\ HexValue(major) = v.major
      /\ minor \in Seq(letters) /\ Len(minor) = 1 /\ (\A i \in 1..1 : minor[i] \in hex) /\ HexValue(minor) = v.minor
  <2> HIDE DEF letters, hex
  <2> QED
    BY <1>1, <1>2
<1>4. size \in Seq(letters) /\ Len(size) = 6 /\ (\A i \in 1..6 : size[i] \in hex) /\ HexValue(size) = v.size
  <2> DEFINE w == 6
             u == v.size
             p == HexOf(u, w)
  <2>1. w \in {1, 6} /\ (w = 1 => u <= DigitMax) /\ u <= SizeMax /\ p = HexOf(u, w) /\ u \in Nat
    BY <1>1
  <2> HIDE DEF w, p, u
  <2>2. /\ p \in Seq(letters) /\ Len(p) = w
        /\ \A i \in 1..w : p[i] \in hex
        /\ HexValue(p) = u
    BY <2>1, HexReturns
  <2> QED
    BY <2>2 DEF w, p, u
<1>5. /\ proto \in Seq(letters) /\ Len(proto) = 4 /\ Named(Protocols, proto) = {v.proto}
      /\ kind \in Seq(letters) /\ Len(kind) = 4 /\ Named(Kinds, kind) = {v.form}
  BY <1>1, NamesSpelt
<1>6. text = sized \o tail
  <2>1. v.kind = "V1"
    BY <1>1
  <2> QED
    BY <2>1, Zenon DEF WriteVersion
<1>7. head = proto \o major \o minor \o kind /\ sized = head \o size /\ tail = <<Underscore>>
  OBVIOUS
<1>8. tail \in Seq(letters) /\ Len(tail) = 1
  <2>1. Underscore \in letters
    BY Places
  <2> HIDE DEF letters
  <2> QED
    BY <2>1
<1> HIDE DEF text, letters, proto, kind, major, minor, size, tail, head, sized, hex
<1>9. FourParts(head, letters, proto, major, minor, kind, <<4, 5, 6, 10>>)
  <2> DEFINE n1 == 4
             n2 == 5
             n3 == 6
             n4 == 10
  <2>1. n1 = Len(proto) /\ n2 = n1 + Len(major) /\ n3 = n2 + Len(minor) /\ n4 = n3 + Len(kind)
    BY <1>3, <1>5
  <2> HIDE DEF n1, n2, n3, n4
  <2>2. FourParts(head, letters, proto, major, minor, kind, <<n1, n2, n3, n4>>)
    BY <1>3, <1>5, <1>7, <2>1, FourPartsStand
  <2> QED
    BY <2>2 DEF n1, n2, n3, n4
<1>10. Joins(sized, letters, head, size, 10, 16)
  <2> DEFINE m == 10
             n == 16
  <2>1. head \in Seq(letters) /\ m = Len(head) /\ n = m + Len(size)
    BY <1>4, <1>9 DEF FourParts
  <2> HIDE DEF m, n
  <2>2. Joins(sized, letters, head, size, m, n)
    BY <1>4, <1>7, <2>1, JoinedPieces
  <2> QED
    BY <2>2 DEF m, n
<1>11. Joins(text, letters, sized, tail, 16, 17)
  <2> DEFINE m == 16
             n == 17
  <2>1. sized \in Seq(letters) /\ m = Len(sized) /\ n = m + Len(tail)
    BY <1>8, <1>10 DEF Joins
  <2> HIDE DEF m, n
  <2>2. Joins(text, letters, sized, tail, m, n)
    BY <1>6, <1>8, <2>1, JoinedPieces
  <2> QED
    BY <2>2 DEF m, n
<1>12. /\ Piece(head, 0, 4) = proto /\ Piece(head, 4, 5) = major /\ Piece(head, 5, 6) = minor
       /\ Piece(head, 6, 10) = kind
  BY <1>9 DEF FourParts
<1>13. /\ Piece(sized, 10, 16) = size
       /\ \A b \in 0..10 : \A a \in 0..b : Piece(sized, a, b) = Piece(head, a, b)
  BY <1>10 DEF Joins
<1>14. /\ text \in Seq(letters) /\ Len(text) = 17 /\ Piece(text, 16, 17) = tail
       /\ \A b \in 0..16 : \A a \in 0..b : Piece(text, a, b) = Piece(sized, a, b)
       /\ \A i \in 1..Len(tail) : text[16 + i] = tail[i]
  BY <1>11 DEF Joins
<1>15. /\ Piece(text, 0, 4) = proto /\ Piece(text, 4, 5) = major /\ Piece(text, 5, 6) = minor
       /\ Piece(text, 6, 10) = kind /\ Piece(text, 10, 16) = size
  <2>1. /\ 4 \in 0..10 /\ 0 \in 0..4 /\ 5 \in 0..10 /\ 4 \in 0..5 /\ 6 \in 0..10 /\ 5 \in 0..6
        /\ 10 \in 0..10 /\ 6 \in 0..10
    OBVIOUS
  <2>2. 16 \in 0..16 /\ 10 \in 0..16
    OBVIOUS
  <2>3. Piece(text, 10, 16) = size
    BY <1>13, <1>14, <2>2, Zenon
  <2>4. ASSUME NEW b \in 0..10, NEW a \in 0..b
        PROVE  Piece(text, a, b) = Piece(head, a, b)
    <3>1. b \in 0..16
      OBVIOUS
    <3> QED
      BY <1>13, <1>14, <3>1, Zenon
  <2> QED
    BY <1>12, <2>1, <2>3, <2>4, Zenon
<1>16. text[17] = Underscore
  <2>1. 1 \in 1..Len(tail) /\ 16 + 1 = 17
    BY <1>8
  <2>2. text[17] = tail[1]
    BY <1>14, <2>1
  <2> QED
    BY <1>7, <2>2
<1>17. /\ Part(text, 1, 4) = proto /\ Part(text, 5, 1) = major /\ Part(text, 6, 1) = minor
       /\ Part(text, 7, 4) = kind /\ Part(text, 11, 6) = size /\ Part(text, 5, 2) = Piece(text, 4, 6)
  <2>1. /\ Part(text, 1, 4) = Piece(text, 0, 4) /\ Part(text, 5, 1) = Piece(text, 4, 5)
        /\ Part(text, 6, 1) = Piece(text, 5, 6) /\ Part(text, 7, 4) = Piece(text, 6, 10)
        /\ Part(text, 11, 6) = Piece(text, 10, 16) /\ Part(text, 5, 2) = Piece(text, 4, 6)
    BY DEF Part, Piece
  <2> QED
    BY <1>15, <2>1, Zenon
<1>18. Piece(text, 4, 6) = major \o minor
  <2> DEFINE a == 4
             b == 5
             c == 6
  <2>1. c \in 0..Len(text) /\ b \in 0..c /\ a \in 0..b
    BY <1>14
  <2> HIDE DEF a, b, c
  <2>2. Piece(text, a, b) \o Piece(text, b, c) = Piece(text, a, c)
    BY <1>14, <2>1, PiecesMeet
  <2> QED
    BY <1>15, <2>2 DEF a, b, c
<1>19. IsHex(Part(text, 5, 2) \o Part(text, 11, 6))
  <2>0. ASSUME NEW p \in Seq(letters), \A i \in 1..Len(p) : p[i] \in hex
        PROVE  p \in Seq(hex)
    BY <2>0
  <2>1. major \in Seq(hex) /\ minor \in Seq(hex) /\ size \in Seq(hex)
    BY <1>3, <1>4, <2>0
  <2> DEFINE all == major \o minor \o size
  <2>2. all \in Seq(hex)
    BY <2>1
  <2> HIDE DEF all
  <2>3. \A i \in DOMAIN all : all[i] \in hex
    BY <2>2
  <2>4. Part(text, 5, 2) \o Part(text, 11, 6) = all
    BY <1>17, <1>18, Zenon DEF all
  <2> QED
    BY <2>3, <2>4 DEF IsHex, hex
<1>20. ParseV1(text) = {v}
  <2>1. /\ Named(Protocols, Part(text, 1, 4)) = {v.proto} /\ Named(Kinds, Part(text, 7, 4)) = {v.form}
        /\ HexValue(Part(text, 5, 1)) = v.major /\ HexValue(Part(text, 6, 1)) = v.minor
        /\ HexValue(Part(text, 11, 6)) = v.size
    BY <1>3, <1>4, <1>5, <1>17
  <2>2. \A x : x \in ParseV1(text) <=> x = v
    BY <1>1, <2>1 DEF ParseV1
  <2> QED
    BY <2>2
<1> DEFINE good == /\ InAlphabet(Part(text, 5, 6) \o Part(text, 15, 4))
                   /\ Part(text, 5, 1) = MajorTwo /\ Part(text, 8, 1) = MajorTwo
                   /\ text[19] = "."
           one == IsHex(Part(text, 5, 2) \o Part(text, 11, 6)) /\ text[17] = Underscore
           cases(k) == CASE k = "V1" /\ one -> ParseV1(text)
                         [] k = "V2" /\ good -> ParseV2(text)
                         [] OTHER -> {}
           width(k) == IF k = "V1" THEN V1Width ELSE V2Width
<1>21. ReadVersion("V1", text) =
         IF Len(text) < width("V1") THEN NeedBytes
         ELSE IF cases("V1") = {} THEN Malformed
         ELSE [verdict |-> "Ok", size |-> width("V1"), value |-> CHOOSE x \in cases("V1") : TRUE]
  BY Zenon DEF ReadVersion
<1>22. width("V1") = 17
  BY DEF V1Width
<1>23. one
  BY <1>16, <1>19
<1> HIDE DEF one, good
<1>24. cases("V1") = {v}
  BY <1>20, <1>23
<1> HIDE DEF width, cases
<1>25. ~(Len(text) < width("V1")) /\ cases("V1") # {} /\ (CHOOSE x \in cases("V1") : TRUE) = v
  BY <1>14, <1>22, <1>24
<1>26. ReadVersion("V1", text) = [verdict |-> "Ok", size |-> Len(text), value |-> v]
  BY <1>14, <1>21, <1>22, <1>25
<1>27. text # <<>>
  <2>1. Len(text) # 0
    BY <1>14
  <2>2. Len(<<>>) = 0
    OBVIOUS
  <2> QED
    BY <2>1, <2>2, Zenon
<1> QED
  BY <1>14, <1>26, <1>27 DEF ReadsBack, text, letters

(* What an item is written as is read back, whole, by the reader of its    *)
(* family.                                                                 *)
THEOREM ItemReads ==
  ASSUME NEW item, IsItem(item), NEW text, text = Written(item.value)
  PROVE  /\ WrittenWell(item, text)
         /\ ReadsBack(ReadText(item.family, text), text, item.value)
<1> DEFINE v == item.value
           family == item.family
           letters == DOMAIN Sextet
           plain == DOMAIN Sextet \cup {"."}
<1>0. letters \subseteq plain
  OBVIOUS
<1>1. CASE family = "Siger"
  <2>1. IsIndexer(v)
    BY <1>1 DEF IsItem
  <2>2. v.kind = "Indexer"
    BY <2>1 DEF IsIndexer, IndexerOf
  <2>3. text = WriteIndexer(v)
    BY <2>2 DEF Written
  <2> HIDE DEF v
  <2>4. WriteIndexer(v) \in Seq(DOMAIN Sextet) /\ ReadsBack(ReadIndexer(WriteIndexer(v)), WriteIndexer(v), v)
    BY <2>1, IndexerReturns
  <2>5. ReadText(family, text) = ReadIndexer(text)
    BY <1>1 DEF ReadText
  <2>6. ReadsBack(ReadText(family, text), text, v)
    BY <2>3, <2>4, <2>5
  <2>7. ReadText(family, text).verdict = "Ok" /\ ReadText(family, text).size = Len(text)
    BY <2>6 DEF ReadsBack
  <2>8. family \notin {"V1", "V2"}
    BY <1>1
  <2>9. text \in Seq(DOMAIN Sextet)
    BY <2>3, <2>4
  <2> HIDE DEF family
  <2>10. ReadText(family, text).size % 4 = 0
    BY <2>7, <2>8, <2>9, TextSpan
  <2>11. WrittenWell(item, text)
    BY <2>7, <2>8, <2>9, <2>10, PlainWell DEF family
  <2> QED
    BY <2>6, <2>11 DEF v, family
<1>2. CASE family = "V1"
  <2>1. IsVersion("V1", v)
    BY <1>2 DEF IsItem
  <2>2. v.kind = "V1"
    BY <2>1 DEF IsVersion, VersionString
  <2>3. text = WriteVersion(v)
    BY <2>2 DEF Written
  <2> HIDE DEF v
  <2>4. /\ WriteVersion(v) \in Seq(DOMAIN Sextet) /\ Len(WriteVersion(v)) = 17
        /\ ReadsBack(ReadVersion("V1", WriteVersion(v)), WriteVersion(v), v)
    BY <2>1, VersionOneReturns
  <2>5. ReadText(family, text) = ReadVersion("V1", text)
    BY <1>2 DEF ReadText
  <2>6. ReadsBack(ReadText(family, text), text, v)
    BY <2>3, <2>4, <2>5
  <2>7. text \in Seq(letters) /\ Len(text) = 17
    BY <2>3, <2>4
  <2> HIDE DEF letters, plain
  <2>8. text \in Seq(plain)
    BY <1>0, <2>7, LargerAlphabet
  <2>9. WrittenWell(item, text)
    BY <1>2, <2>7, <2>8 DEF WrittenWell, letters, plain
  <2> QED
    BY <2>6, <2>9 DEF v
<1>3. CASE family = "V2"
  <2>1. IsVersion("V2", v)
    BY <1>3 DEF IsItem
  <2>2. v.kind = "V2"
    BY <2>1 DEF IsVersion, VersionStringV2
  <2>3. text = WriteVersion(v)
    BY <2>2 DEF Written
  <2> HIDE DEF v
  <2>4. /\ WriteVersion(v) \in Seq(DOMAIN Sextet \cup {"."}) /\ Len(WriteVersion(v)) = 19
        /\ WriteVersion(v)[19] = "."
        /\ ReadsBack(ReadVersion("V2", WriteVersion(v)), WriteVersion(v), v)
    BY <2>1, VersionTwoReturns
  <2>5. ReadText(family, text) = ReadVersion("V2", text)
    BY <1>3 DEF ReadText
  <2>6. ReadsBack(ReadText(family, text), text, v)
    BY <2>3, <2>4, <2>5
  <2>7. WrittenWell(item, text)
    BY <1>3, <2>3, <2>4 DEF WrittenWell
  <2> QED
    BY <2>6, <2>7 DEF v
<1>4. CASE family \notin {"Siger", "V1", "V2"}
  <2>1. IsMatter(v) /\ v.code \in Families[family]
    BY <1>4 DEF IsItem
  <2>2. v.kind = "Matter"
    BY <2>1 DEF IsMatter, MatterOf
  <2>3. text = WriteMatter(v)
    BY <2>2 DEF Written
  <2> HIDE DEF v
  <2>4. WriteMatter(v) \in Seq(DOMAIN Sextet) /\ ReadsBack(ReadMatter(WriteMatter(v)), WriteMatter(v), v)
    BY <2>1, MatterReturns
  <2>5. ReadText(family, text) = Typed(family, ReadMatter(text))
    BY <1>4 DEF ReadText
  <2>6. ReadsBack(ReadMatter(text), text, v)
    BY <2>3, <2>4
  <2>7. ReadMatter(text).value = v
    BY <2>6 DEF ReadsBack
  <2>8. ReadText(family, text) = ReadMatter(text)
    BY <2>1, <2>5, <2>7 DEF Typed
  <2>9. ReadsBack(ReadText(family, text), text, v)
    BY <2>6, <2>8
  <2>10. ReadText(family, text).verdict = "Ok" /\ ReadText(family, text).size = Len(text)
    BY <2>9 DEF ReadsBack
  <2>11. family \notin {"V1", "V2"}
    BY <1>4
  <2>12. text \in Seq(DOMAIN Sextet)
    BY <2>3, <2>4
  <2> HIDE DEF family
  <2>13. ReadText(family, text).size % 4 = 0
    BY <2>10, <2>11, <2>12, TextSpan
  <2>14. WrittenWell(item, text)
    BY <2>10, <2>11, <2>12, <2>13, PlainWell DEF family
  <2> QED
    BY <2>9, <2>14 DEF v, family
<1> QED
  BY <1>1, <1>2, <1>3, <1>4

-----------------------------------------------------------------------------
(* The reader and the stream it reads.                                     *)

(* The characters a stream of text may hold.                               *)
Letters == DOMAIN Sextet \cup {"."} \cup Marks

(* The stream is of characters, or of bytes.                               *)
WireInv ==
  /\ form \in {"text", "binary"}
  /\ form = "text" => wire \in Seq(Letters)
  /\ form = "binary" => wire \in Seq(Byte)

(* The stream is one of characters at first.                               *)
LEMMA WireInitially == Init => WireInv
<1> SUFFICES ASSUME Init PROVE WireInv
  OBVIOUS
<1> DEFINE S == Letters
<1>1. wire = <<>> /\ form = "text"
  BY DEF Init
<1> HIDE DEF S
<1>2. wire \in Seq(S)
  BY <1>1
<1> QED
  BY <1>1, <1>2 DEF WireInv, S

(* No step makes it anything else than characters or bytes.                *)
LEMMA WireStep == WireInv /\ [Next]_vars => WireInv'
<1> SUFFICES ASSUME WireInv, [Next]_vars PROVE WireInv'
  OBVIOUS
<1>1. form \in {"text", "binary"} /\ (form = "text" => wire \in Seq(Letters)) /\ (form = "binary" => wire \in Seq(Byte))
  BY DEF WireInv
<1>2. PICK S : (form = "text" => S = Letters) /\ (form = "binary" => S = Byte) /\ wire \in Seq(S)
  BY <1>1
<1>3. ASSUME wire' \in Seq(S), form' = form
      PROVE  WireInv'
  BY <1>1, <1>2, <1>3 DEF WireInv
<1>4. ASSUME NEW item \in UNION {Range(m) : m \in Messages}, Write(item)
      PROVE  WireInv'
  <2>1. form = "text" /\ form' = form /\ wire' = wire \o Written(item.value)
    BY <1>4 DEF Write
  <2>0. PICK m \in Messages : item \in Range(m)
    OBVIOUS
  <2>2. PICK i \in DOMAIN m : item = m[i]
    BY <2>0 DEF Range
  <2> DEFINE plain == DOMAIN Sextet \cup {"."}
             piece == Written(item.value)
             letters == Letters
  <2>3. IsItem(item)
    BY <2>2, MessagesAssumption
  <2>7. piece \in Seq(plain)
    BY <2>3, ItemReads DEF WrittenWell
  <2>8. plain \subseteq letters
    BY DEF Letters
  <2>4. wire \in Seq(letters) /\ letters = S
    BY <1>2, <2>1
  <2> HIDE DEF plain, piece, letters
  <2>5. piece \in Seq(letters)
    BY <2>7, <2>8, LargerAlphabet
  <2>6. wire \o piece \in Seq(letters)
    BY <2>4, <2>5
  <2> QED
    BY <1>3, <2>1, <2>4, <2>6 DEF piece
<1>5. ASSUME NEW place \in 1..(IF Len(wire) < Reach THEN Len(wire) ELSE Reach), NEW c \in Marks, Alter(place, c)
      PROVE  WireInv'
  <2> DEFINE letters == Letters
  <2>1. form = "text" /\ form' = form /\ wire' = [wire EXCEPT ![place] = c]
    BY <1>5 DEF Alter
  <2>2. wire \in Seq(letters) /\ letters = S /\ c \in letters
    BY <1>2, <2>1 DEF Letters
  <2> HIDE DEF letters
  <2> DEFINE n == Len(wire)
             other == [wire EXCEPT ![place] = c]
  <2>3. n \in Nat /\ \A i \in 1..n : wire[i] \in letters
    BY <2>2
  <2>4. other = [i \in 1..n |-> IF i = place THEN c ELSE wire[i]]
    BY <2>2
  <2>5. other \in Seq(letters)
    <3> HIDE DEF n, other
    <3> QED
      BY <2>2, <2>3, <2>4
  <2> QED
    BY <1>3, <2>1, <2>2, <2>5
<1>6. ASSUME NEW length \in 0..(Len(wire) - 1), Cut(length)
      PROVE  WireInv'
  <2>1. form' = form /\ wire' = SubSeq(wire, 1, length)
    BY <1>6 DEF Cut
  <2>2. length \in Nat /\ length <= Len(wire) /\ 1 <= length + 1
    BY <1>2
  <2>3. SubSeq(wire, 1, length) \in Seq(S)
    BY <1>2, <2>2, PartOf
  <2> QED
    BY <1>3, <2>1, <2>3
<1>7. ASSUME ToBinary
      PROVE  WireInv'
  <2>1. form' = "binary" /\ wire' = Bytes(wire) /\ Decodable(wire)
    BY <1>7 DEF ToBinary
  <2>2. wire \in Seq(DOMAIN Sextet) /\ Len(wire) \div 4 \in Nat /\ Len(wire) = 4 * (Len(wire) \div 4)
    BY <1>2, <2>1, CleanIsText
  <2>3. Bytes(wire) \in Seq(Byte)
    BY <2>2, BytesOfText
  <2> QED
    BY <2>1, <2>3 DEF WireInv
<1>8. ASSUME ToText
      PROVE  WireInv'
  <2>1. form = "binary" /\ form' = "text" /\ wire' = AllCharacters(wire) /\ Len(wire) % 3 = 0
    BY <1>8 DEF ToText, Encodable
  <2>2. wire \in Seq(Byte)
    BY <1>1, <2>1
  <2> DEFINE m == Len(wire) \div 3
  <2>3. m \in Nat /\ Len(wire) = 3 * m
    <3>1. \A n \in Nat : n % 3 = 0 => n \div 3 \in Nat /\ n = 3 * (n \div 3)
      OBVIOUS
    <3>2. Len(wire) \in Nat
      BY <2>2
    <3> QED
      BY <2>1, <3>1, <3>2
  <2> HIDE DEF m
  <2> DEFINE text == AllCharacters(wire)
             letters == DOMAIN Sextet
             all == Letters
  <2>4. text \in Seq(letters) /\ letters \subseteq all
    BY <2>2, <2>3, TextOfBytes DEF Letters
  <2> HIDE DEF text, letters, all
  <2>5. text \in Seq(all)
    BY <2>4, LargerAlphabet
  <2> QED
    BY <2>1, <2>5 DEF WireInv, text, all
<1>9. ASSUME Read
      PROVE  WireInv'
  <2> DEFINE n == Outcome.size
  <2>1. form' = form
    BY <1>9 DEF Read
  <2>2. CASE Outcome.verdict = "Ok"
    <3>1. wire' = SubSeq(wire, n + 1, Len(wire))
      BY <1>9, <2>2 DEF Read, Take
    <3>2. n \in Nat
      <4>1. CASE form = "text"
        <5>1. Outcome = ReadText(Expected, wire)
          BY <4>1 DEF Outcome
        <5> DEFINE family == Expected
        <5>2. ReadText(family, wire).verdict = "Ok"
          BY <2>2, <5>1
        <5> HIDE DEF family
        <5>3. ReadText(family, wire).size \in Nat
          BY <1>2, <5>2, TextSizeIs
        <5> QED
          BY <5>1, <5>3 DEF family
      <4>2. CASE form # "text"
        <5>1. Outcome = ReadBinary(Expected, wire) /\ wire \in Seq(Byte)
          BY <1>1, <4>2 DEF Outcome
        <5> DEFINE family == Expected
        <5>2. ReadBinary(family, wire).verdict = "Ok"
          BY <2>2, <5>1
        <5> HIDE DEF family
        <5>3. ReadBinary(family, wire).size \in Nat
          BY <5>1, <5>2, BinarySizeIs
        <5> QED
          BY <5>1, <5>3 DEF family
      <4> QED
        BY <4>1, <4>2
    <3> HIDE DEF n
    <3>3. SubSeq(wire, n + 1, Len(wire)) \in Seq(S)
      BY <1>2, <3>2, RestOf
    <3> QED
      BY <1>3, <2>1, <3>1, <3>3
  <2>3. CASE Outcome.verdict # "Ok"
    <3>1. wire' = wire
      BY <1>9, <2>3 DEF Read, Take
    <3> QED
      BY <1>2, <1>3, <2>1, <3>1
  <2> QED
    BY <2>2, <2>3
<1>10. ASSUME UNCHANGED vars
       PROVE  WireInv'
  BY <1>2, <1>3, <1>10 DEF vars
<1> QED
  BY <1>4, <1>5, <1>6, <1>7, <1>8, <1>9, <1>10 DEF Next

(* The stream is always one of characters or one of bytes.                 *)
THEOREM AlwaysWire == Spec => []WireInv
<1>1. Init => WireInv
  BY WireInitially
<1>2. WireInv /\ [Next]_vars => WireInv'
  BY WireStep
<1> QED
  BY <1>1, <1>2, PTL DEF Spec

(* Both forms say the same, wherever the rest of the text converts.        *)
LEMMA WireSaysTheSame == WireInv => FormsAgree
<1> SUFFICES ASSUME WireInv, form = "text", Len(read) < Len(built), Expected \notin {"V1", "V2"}, Decodable(wire)
             PROVE  SayTheSame(ReadText(Expected, wire), ReadBinary(Expected, Bytes(wire)))
  BY DEF FormsAgree
<1> DEFINE family == Expected
           M == Len(wire) \div 4
<1>1. wire \in Seq(Letters)
  BY DEF WireInv
<1>2. wire \in Seq(DOMAIN Sextet) /\ M \in Nat /\ Len(wire) = 4 * M
  BY <1>1, CleanIsText
<1>3. family \notin {"V1", "V2"}
  OBVIOUS
<1> HIDE DEF family, M
<1>4. CASE family = "Siger"
  <2>1. SayTheSame(ReadIndexer(wire), ReadIndexerBinary(Bytes(wire)))
    BY <1>2, IndexerFormsAgree
  <2> QED
    BY <1>4, <2>1 DEF ReadText, ReadBinary, family
<1>5. CASE family # "Siger"
  <2>1. SayTheSame(ReadMatter(wire), FromQualifiedBase2(Bytes(wire)))
    BY <1>2, MatterFormsAgree
  <2>2. /\ ReadText(family, wire) = Typed(family, ReadMatter(wire))
        /\ ReadBinary(family, Bytes(wire)) = Typed(family, FromQualifiedBase2(Bytes(wire)))
    BY <1>3, <1>5 DEF ReadText, ReadBinary
  <2> QED
    BY <2>1, <2>2, TypedAlike DEF family
<1> QED
  BY <1>4, <1>5

(* Whatever was written, damaged, cut or converted: where the rest of the  *)
(* text converts, its reader and the reader of what it becomes accept the  *)
(* same value, in proportion, or neither does (parse.rs, indexer.rs).      *)
THEOREM AlwaysFormsAgree == Spec => []FormsAgree
<1>1. WireInv => FormsAgree
  BY WireSaysTheSame
<1> QED
  BY <1>1, AlwaysWire, PTL

(* What a reading was read from, if it is canonical.                       *)
Source(reading) ==
  IF reading.form = "text" THEN Written(reading.value) ELSE Bytes(Written(reading.value))

\* What is accepted is canonical, damaged or not.
AcceptedIsCanonical ==
  \A i \in DOMAIN read :
    read[i].value.kind \in {"Matter", "V2"} /\ ~Filling(read[i]) => read[i].span = Source(read[i])

ReadIsList == \E S : read \in Seq(S)

(* One more at the end.                                                    *)
LEMMA OneMore ==
  ASSUME NEW S, NEW s \in Seq(S), NEW x
  PROVE  /\ Append(s, x) \in Seq(S \cup {x})
         /\ Len(Append(s, x)) = Len(s) + 1
         /\ DOMAIN Append(s, x) = 1..(Len(s) + 1)
         /\ DOMAIN s = 1..Len(s)
         /\ \A i \in 1..Len(s) : Append(s, x)[i] = s[i]
         /\ Append(s, x)[Len(s) + 1] = x
<1> DEFINE T == S \cup {x}
<1>1. S \subseteq T /\ x \in T
  OBVIOUS
<1> HIDE DEF T
<1>2. s \in Seq(T)
  BY <1>1, LargerAlphabet
<1>3. Append(s, x) \in Seq(T) /\ Len(Append(s, x)) = Len(s) + 1
  BY <1>1, <1>2
<1>4. \A i \in 1..Len(s) : Append(s, x)[i] = s[i]
  BY <1>1, <1>2
<1>5. Append(s, x)[Len(s) + 1] = x
  BY <1>1, <1>2
<1>6. DOMAIN Append(s, x) = 1..(Len(s) + 1) /\ DOMAIN s = 1..Len(s)
  BY <1>1, <1>2, <1>3
<1> QED
  BY <1>3, <1>4, <1>5, <1>6 DEF T

(* What was read is a list of readings.                                    *)
LEMMA ListStep == ReadIsList /\ [Next]_vars => ReadIsList'
<1> SUFFICES ASSUME ReadIsList, [Next]_vars PROVE ReadIsList'
  OBVIOUS
<1>1. PICK S : read \in Seq(S)
  BY DEF ReadIsList
<1>2. CASE read' = read
  BY <1>1, <1>2 DEF ReadIsList
<1>3. CASE Read
  <2> DEFINE x == [value |-> Outcome.value, form |-> form, span |-> SubSeq(wire, 1, Outcome.size)]
  <2>1. read' = read \/ read' = Append(read, x)
    BY <1>3 DEF Read, Take
  <2> HIDE DEF x
  <2>2. Append(read, x) \in Seq(S \cup {x})
    BY <1>1, OneMore
  <2> QED
    BY <1>1, <2>1, <2>2 DEF ReadIsList
<1>4. read' = read \/ Read
  BY DEF Next, vars, Write, Alter, Cut, ToBinary, ToText
<1> QED
  BY <1>2, <1>3, <1>4

(* What the reader makes of the head of the wire is canonical.             *)
LEMMA OutcomeIsCanonical ==
  ASSUME WireInv, Outcome.verdict = "Ok",
         NEW x, x = [value |-> Outcome.value, form |-> form, span |-> SubSeq(wire, 1, Outcome.size)],
         x.value.kind \in {"Matter", "V2"}, ~Filling(x)
  PROVE  x.span = Source(x)
<1> DEFINE family == Expected
<1>1. x.value = Outcome.value /\ x.form = form /\ x.span = SubSeq(wire, 1, Outcome.size)
  OBVIOUS
<1>2. CASE form = "text"
  <2>1. Outcome = ReadText(family, wire)
    BY <1>2 DEF Outcome
  <2> HIDE DEF family
  <2> DEFINE letters == Letters
  <2>2. wire \in Seq(letters)
    BY <1>2 DEF WireInv
  <2> HIDE DEF letters
  <2>3. Last(SubSeq(wire, 1, ReadText(family, wire).size)) # Filler
    BY <1>1, <1>2, <2>1 DEF Filling
  <2>4. ReadText(family, wire).verdict = "Ok" /\ ReadText(family, wire).value.kind \in {"Matter", "V2"}
    BY <1>1, <2>1
  <2>5. Written(ReadText(family, wire).value) = SubSeq(wire, 1, ReadText(family, wire).size)
    BY <2>2, <2>3, <2>4, TextIsCanonical
  <2> QED
    BY <1>1, <1>2, <2>1, <2>5 DEF Source
<1>3. CASE form # "text"
  <2>1. Outcome = ReadBinary(family, wire) /\ wire \in Seq(Byte)
    BY <1>3 DEF Outcome, WireInv
  <2> HIDE DEF family
  <2>2. ReadBinary(family, wire).verdict = "Ok" /\ ReadBinary(family, wire).value.kind \in {"Matter", "V2"}
    BY <1>1, <2>1
  <2>3. Bytes(Written(ReadBinary(family, wire).value)) = SubSeq(wire, 1, ReadBinary(family, wire).size)
    BY <2>1, <2>2, BinaryIsCanonical
  <2> QED
    BY <1>1, <1>3, <2>1, <2>3 DEF Source
<1> QED
  BY <1>2, <1>3

(* No step makes what was accepted other than canonical.                   *)
LEMMA CanonicalStep ==
  WireInv /\ ReadIsList /\ AcceptedIsCanonical /\ [Next]_vars => AcceptedIsCanonical'
<1> SUFFICES ASSUME WireInv, ReadIsList, AcceptedIsCanonical, [Next]_vars PROVE AcceptedIsCanonical'
  OBVIOUS
<1>1. PICK S : read \in Seq(S)
  BY DEF ReadIsList
<1>2. CASE read' = read
  BY <1>2 DEF AcceptedIsCanonical
<1>3. CASE Read /\ Outcome.verdict = "Ok"
  <2> DEFINE x == [value |-> Outcome.value, form |-> form, span |-> SubSeq(wire, 1, Outcome.size)]
  <2>1. read' = Append(read, x)
    BY <1>3 DEF Read, Take
  <2>2. x.value.kind \in {"Matter", "V2"} /\ ~Filling(x) => x.span = Source(x)
    BY <1>3, OutcomeIsCanonical
  <2> HIDE DEF x
  <2> DEFINE n == Len(read)
             longer == Append(read, x)
  <2>3. /\ DOMAIN longer = 1..(n + 1) /\ DOMAIN read = 1..n
        /\ \A i \in 1..n : longer[i] = read[i]
        /\ longer[n + 1] = x
    BY <1>1, OneMore
  <2>4. n \in Nat
    BY <1>1
  <2> HIDE DEF n, longer
  <2>5. \A i \in 1..(n + 1) : i \in 1..n \/ i = n + 1
    BY <2>4
  <2>6. \A i \in DOMAIN longer :
          longer[i].value.kind \in {"Matter", "V2"} /\ ~Filling(longer[i]) => longer[i].span = Source(longer[i])
    BY <2>2, <2>3, <2>5 DEF AcceptedIsCanonical
  <2>7. read' = longer
    BY <2>1 DEF longer
  <2> QED
    BY <2>6, <2>7 DEF AcceptedIsCanonical
<1>4. read' = read \/ (Read /\ Outcome.verdict = "Ok")
  BY DEF Next, vars, Write, Alter, Cut, ToBinary, ToText, Read, Take
<1> QED
  BY <1>2, <1>3, <1>4

(* What a reader accepts, of a stream that may be damaged or cut anywhere  *)
(* and turned from one form into the other at will, is canonical: written  *)
(* again it is the span it was read from.                                  *)
THEOREM AlwaysCanonical == Spec => []AcceptedIsCanonical
<1>1. Init => WireInv /\ ReadIsList /\ AcceptedIsCanonical
  <2> SUFFICES ASSUME Init PROVE WireInv /\ ReadIsList /\ AcceptedIsCanonical
    OBVIOUS
  <2>1. read = <<>> /\ read \in Seq({})
    BY DEF Init
  <2>2. DOMAIN read = {}
    BY <2>1
  <2> QED
    BY <2>1, <2>2, WireInitially DEF ReadIsList, AcceptedIsCanonical
<1>2. WireInv /\ ReadIsList /\ AcceptedIsCanonical /\ [Next]_vars
        => (WireInv /\ ReadIsList /\ AcceptedIsCanonical)'
  BY WireStep, ListStep, CanonicalStep
<1> QED
  BY <1>1, <1>2, PTL DEF Spec

-----------------------------------------------------------------------------
(* The layout of a stream: what was built, and what is left of it.         *)

(* Two texts as long and alike at every place are one.                     *)
LEMMA Alike ==
  ASSUME NEW S, NEW p \in Seq(S), NEW T, NEW q \in Seq(T), NEW n \in Nat, Len(p) = n, Len(q) = n,
         \A i \in 1..n : p[i] = q[i]
  PROVE  p = q
OBVIOUS

(* A piece of a piece is a piece.                                          *)
LEMMA PieceOfPiece ==
  ASSUME NEW S, NEW s \in Seq(S), NEW b \in 0..Len(s), NEW a \in 0..b,
         NEW d \in 0..(b - a), NEW c \in 0..d, NEW ac, ac = a + c, NEW ad, ad = a + d,
         NEW h, h = Piece(s, a, b)
  PROVE  Piece(h, c, d) = Piece(s, ac, ad)
<1>1. IsPiece(h, S, s, a, b)
  BY PieceIs
<1>2. h \in Seq(S) /\ Len(h) = b - a /\ \A i \in 1..(b - a) : h[i] = s[a + i]
  BY <1>1 DEF IsPiece
<1>3. d \in 0..Len(h) /\ c \in 0..d
  BY <1>2
<1>4. IsPiece(Piece(h, c, d), S, h, c, d)
  BY <1>2, <1>3, PieceIs
<1>5. ad \in 0..Len(s) /\ ac \in 0..ad
  OBVIOUS
<1>6. IsPiece(Piece(s, ac, ad), S, s, ac, ad)
  BY <1>5, PieceIs
<1> DEFINE p == Piece(h, c, d)
           q == Piece(s, ac, ad)
           n == d - c
<1>7. p \in Seq(S) /\ Len(p) = n /\ \A i \in 1..n : p[i] = h[c + i]
  BY <1>4 DEF IsPiece
<1>8. q \in Seq(S) /\ Len(q) = n /\ \A i \in 1..n : q[i] = s[ac + i]
  <2>1. ad - ac = n
    OBVIOUS
  <2> QED
    BY <1>6, <2>1 DEF IsPiece
<1>9. \A i \in 1..n : c + i \in 1..(b - a) /\ a + (c + i) = ac + i
  OBVIOUS
<1>10. n \in Nat
  OBVIOUS
<1> HIDE DEF p, q, n
<1>11. \A i \in 1..n : p[i] = q[i]
  BY <1>2, <1>7, <1>8, <1>9
<1>12. p = q
  BY <1>7, <1>8, <1>10, <1>11, Alike
<1> QED
  BY <1>12 DEF p, q

\* A text begins with another and ends with what was appended to it.
Grows(st, S, s, t, n, m) ==
  /\ st \in Seq(S) /\ Len(st) = m /\ n \in 0..m
  /\ Piece(st, n, m) = t
  /\ \A b \in 0..n : \A a \in 0..b : Piece(st, a, b) = Piece(s, a, b)

(* A whole text is a piece of itself, and what is appended another.        *)
LEMMA PieceOfMore ==
  ASSUME NEW S, NEW s \in Seq(S), NEW t \in Seq(S), NEW n, n = Len(s), NEW m, m = n + Len(t),
         NEW st, st = s \o t
  PROVE  Grows(st, S, s, t, n, m)
<1>1. st \in Seq(S) /\ Len(st) = m /\ n \in 0..m /\ m \in Nat
  OBVIOUS
<1>2. /\ \A i \in 1..n : st[i] = s[i]
      /\ \A i \in 1..Len(t) : st[n + i] = t[i]
  OBVIOUS
<1>3. Piece(st, n, m) = t
  <2>1. m \in 0..Len(st) /\ n \in 0..m
    BY <1>1
  <2>2. IsPiece(Piece(st, n, m), S, st, n, m)
    BY <1>1, <2>1, PieceIs
  <2> DEFINE p == Piece(st, n, m)
             k == Len(t)
  <2>3. p \in Seq(S) /\ Len(p) = m - n /\ \A i \in 1..(m - n) : p[i] = st[n + i]
    BY <2>2 DEF IsPiece
  <2>4. m - n = k /\ k \in Nat
    BY <1>1
  <2> HIDE DEF p
  <2>5. \A i \in 1..k : p[i] = t[i]
    BY <1>2, <2>3, <2>4
  <2>6. Len(p) = k
    BY <2>3, <2>4
  <2> HIDE DEF k
  <2>7. p = t
    BY <2>3, <2>4, <2>5, <2>6, Alike DEF k
  <2> QED
    BY <2>7 DEF p
<1>4. ASSUME NEW b \in 0..n, NEW a \in 0..b
      PROVE  Piece(st, a, b) = Piece(s, a, b)
  <2>1. b \in 0..Len(st) /\ b \in 0..Len(s)
    BY <1>1
  <2>2. IsPiece(Piece(st, a, b), S, st, a, b)
    BY <1>1, <2>1, PieceIs
  <2>3. IsPiece(Piece(s, a, b), S, s, a, b)
    BY <2>1, PieceIs
  <2> DEFINE p == Piece(st, a, b)
             q == Piece(s, a, b)
             k == b - a
  <2>4. p \in Seq(S) /\ Len(p) = k /\ \A i \in 1..k : p[i] = st[a + i]
    BY <2>2 DEF IsPiece
  <2>5. q \in Seq(S) /\ Len(q) = k /\ \A i \in 1..k : q[i] = s[a + i]
    BY <2>3 DEF IsPiece
  <2>6. k \in Nat /\ \A i \in 1..k : a + i \in 1..n
    BY <1>1
  <2> HIDE DEF p, q, k
  <2>7. \A i \in 1..k : p[i] = q[i]
    BY <1>2, <2>4, <2>5, <2>6
  <2>8. p = q
    BY <2>4, <2>5, <2>6, <2>7, Alike
  <2> QED
    BY <2>8 DEF p, q
<1> QED
  BY <1>1, <1>3, <1>4 DEF Grows

Plain == DOMAIN Sextet \cup {"."}
Versions == {"V1", "V2"}

\* Where the items stand in the whole text: from one start to the next.
Laid(items, whole, starts) ==
  /\ whole \in Seq(Plain)
  /\ starts \in [1..(Len(items) + 1) -> 0..Len(whole)]
  /\ starts[1] = 0 /\ starts[Len(items) + 1] = Len(whole)
  /\ \A i \in 1..Len(items) :
       /\ IsItem(items[i])
       /\ starts[i + 1] = starts[i] + Len(Written(items[i].value))
       /\ Piece(whole, starts[i], starts[i + 1]) = Written(items[i].value)

\* One version string at most, and what it does to the quadlets after it.
OneVersion(items) ==
  \A i, j \in 1..Len(items) : items[i].family \in Versions /\ items[j].family \in Versions => i = j

Plainly(items, k) == \A j \in 1..Len(items) : j < k => items[j].family \notin Versions
AfterOne(items, k) == \E j \in 1..Len(items) : j < k /\ items[j].family = "V1"

InQuadlets(items, starts) ==
  \A k \in 1..(Len(items) + 1) :
    /\ Plainly(items, k) => starts[k] % 4 = 0
    /\ AfterOne(items, k) => starts[k] % 4 = 1

\* The starts once one more item, of w characters, follows n others.
LongerStarts(starts, n, M) == [i \in 1..(n + 2) |-> IF i = n + 2 THEN M ELSE starts[i]]

OneStartMore(g, starts, n, w) ==
  (\A k \in 1..(n + 1) : g[k] = starts[k]) /\ g[n + 2] = starts[n + 1] + w

(* One more start, after all the others.                                   *)
LEMMA OneMoreStart ==
  ASSUME NEW n \in Nat, NEW L \in Nat, NEW f \in [1..(n + 1) -> 0..L], NEW M \in Nat, L <= M,
         NEW g, g = [i \in 1..(n + 2) |-> IF i = n + 2 THEN M ELSE f[i]]
  PROVE  /\ g \in [1..(n + 2) -> 0..M] /\ g[n + 2] = M
         /\ \A i \in 1..(n + 1) : g[i] = f[i]
<1>1. \A i \in 1..(n + 2) : i \in 1..(n + 1) \/ i = n + 2
  OBVIOUS
<1>2. \A i \in 1..(n + 1) : i \in 1..(n + 2) /\ i # n + 2
  OBVIOUS
<1>3. \A i \in 1..(n + 1) : f[i] \in 0..M
  OBVIOUS
<1>4. n + 2 \in 1..(n + 2) /\ M \in 0..M
  OBVIOUS
<1> QED
  BY <1>1, <1>2, <1>3, <1>4

(* What one more item adds to the layout.                                  *)
LEMMA LaidMore ==
  ASSUME NEW T, NEW items \in Seq(T), NEW item, IsItem(item),
         NEW whole, NEW starts, Laid(items, whole, starts),
         NEW n, n = Len(items), NEW W, W = Written(item.value), NEW L, L = Len(whole), NEW M, M = L + Len(W),
         NEW g, g = LongerStarts(starts, n, M),
         NEW longer, longer = whole \o W, NEW more, more = Append(items, item)
  PROVE  Laid(more, longer, g) /\ OneStartMore(g, starts, n, Len(W))
<1>1. whole \in Seq(Plain) /\ L \in Nat /\ n \in Nat
  BY DEF Laid
<1>2. starts \in [1..(n + 1) -> 0..L] /\ starts[1] = 0 /\ starts[n + 1] = L
  BY DEF Laid
<1>3. W \in Seq(Plain)
  <2>1. WrittenWell(item, W)
    BY ItemReads
  <2> QED
    BY <2>1 DEF WrittenWell, Plain
<1>4. longer \in Seq(Plain) /\ Len(longer) = M /\ L \in 0..M
      /\ Piece(longer, L, M) = W
      /\ \A b \in 0..L : \A a \in 0..b : Piece(longer, a, b) = Piece(whole, a, b)
  <2> DEFINE S == Plain
  <2>1. whole \in Seq(S) /\ W \in Seq(S)
    BY <1>1, <1>3
  <2> HIDE DEF S
  <2>2. longer \in Seq(S) /\ Len(longer) = M /\ L \in 0..M
        /\ Piece(longer, L, M) = W
        /\ \A b \in 0..L : \A a \in 0..b : Piece(longer, a, b) = Piece(whole, a, b)
    <3>1. L = Len(whole) /\ M = L + Len(W) /\ longer = whole \o W
      OBVIOUS
    <3>2. Grows(longer, S, whole, W, L, M)
      BY <2>1, <3>1, PieceOfMore
    <3> QED
      BY <3>2 DEF Grows
  <2> QED
    BY <2>2 DEF S
<1>5. M \in Nat /\ L <= M
  BY <1>1, <1>3
<1>6. g \in [1..(n + 2) -> 0..M] /\ g[n + 2] = M /\ \A i \in 1..(n + 1) : g[i] = starts[i]
  BY <1>1, <1>2, <1>5, OneMoreStart DEF LongerStarts
<1>7. /\ Len(more) = n + 1
      /\ \A i \in 1..n : more[i] = items[i]
      /\ more[n + 1] = item
  BY OneMore
<1>8. \A i \in 1..n : i \in 1..(n + 1) /\ i + 1 \in 1..(n + 1)
  BY <1>1
<1>9. 1 \in 1..(n + 1) /\ n + 1 \in 1..(n + 1) /\ (n + 1) + 1 = n + 2
  BY <1>1
<1>10. ASSUME NEW i \in 1..n
       PROVE  /\ IsItem(more[i])
              /\ g[i + 1] = g[i] + Len(Written(more[i].value))
              /\ Piece(longer, g[i], g[i + 1]) = Written(more[i].value)
  <2>1. /\ IsItem(items[i])
        /\ starts[i + 1] = starts[i] + Len(Written(items[i].value))
        /\ Piece(whole, starts[i], starts[i + 1]) = Written(items[i].value)
    BY DEF Laid
  <2>2. more[i] = items[i] /\ g[i] = starts[i] /\ g[i + 1] = starts[i + 1]
    BY <1>6, <1>7, <1>8
  <2> DEFINE a == starts[i]
             b == starts[i + 1]
             w == Len(Written(items[i].value))
  <2>3. a \in 0..L /\ b \in 0..L
    BY <1>2, <1>8
  <2>4. w \in Nat
    <3>1. WrittenWell(items[i], Written(items[i].value))
      BY <2>1, ItemReads
    <3> QED
      BY <3>1 DEF WrittenWell
  <2>5. b = a + w
    BY <2>1
  <2> HIDE DEF a, b, w
  <2>6. a \in 0..b
    BY <2>3, <2>4, <2>5
  <2>7. Piece(longer, a, b) = Piece(whole, a, b)
    BY <1>4, <2>3, <2>6
  <2> QED
    BY <2>1, <2>2, <2>7 DEF a, b
<1>11. ASSUME NEW i, i = n + 1
       PROVE  /\ IsItem(more[i])
              /\ g[i + 1] = g[i] + Len(Written(more[i].value))
              /\ Piece(longer, g[i], g[i + 1]) = Written(more[i].value)
  <2>1. more[i] = item /\ i + 1 = n + 2
    BY <1>7, <1>9, <1>11
  <2>2. g[i] = L /\ g[i + 1] = M
    BY <1>2, <1>6, <1>9, <1>11, <2>1
  <2> QED
    BY <1>4, <2>1, <2>2
<1>12. \A i \in 1..(n + 1) : i \in 1..n \/ i = n + 1
  BY <1>1
<1>13. \A i \in 1..(n + 1) : /\ IsItem(more[i])
                             /\ g[i + 1] = g[i] + Len(Written(more[i].value))
                             /\ Piece(longer, g[i], g[i + 1]) = Written(more[i].value)
  BY <1>10, <1>11, <1>12
<1>14. g[1] = 0
  BY <1>2, <1>6, <1>9
<1>15. Laid(more, longer, g)
  BY <1>4, <1>6, <1>7, <1>9, <1>13, <1>14 DEF Laid
<1>16. g[n + 2] = starts[n + 1] + Len(W)
  BY <1>2, <1>6
<1> QED
  BY <1>6, <1>15, <1>16 DEF OneStartMore

(* Quadlets added to quadlets.                                             *)
LEMMA QuadletsAdd ==
  ASSUME NEW s \in Nat, NEW w \in Nat, NEW x, x = s + w
  PROVE  /\ s % 4 = 0 /\ w % 4 = 0 => x % 4 = 0
         /\ s % 4 = 0 /\ w % 4 = 1 => x % 4 = 1
         /\ s % 4 = 1 /\ w % 4 = 0 => x % 4 = 1
OBVIOUS

(* And the quadlets stay where they were.                                  *)
LEMMA AlignedMore ==
  ASSUME NEW T, NEW items \in Seq(T), NEW item, IsItem(item), NEW n, n = Len(items),
         NEW starts, starts \in [1..(n + 1) -> Nat], NEW g, NEW more, more = Append(items, item),
         NEW w, w = Len(Written(item.value)), OneStartMore(g, starts, n, w),
         OneVersion(more), InQuadlets(items, starts)
  PROVE  OneStartMore(g, starts, n, w) /\ more = Append(items, item) /\ InQuadlets(more, g)
<1>1. n \in Nat /\ n + 1 \in 1..(n + 1)
  OBVIOUS
<1>2. /\ Len(more) = n + 1
      /\ \A i \in 1..n : more[i] = items[i]
      /\ more[n + 1] = item
  BY OneMore
<1>3. w \in Nat /\ (item.family = "V1" => w % 4 = 1) /\ (item.family \notin Versions => w % 4 = 0)
  <2>1. WrittenWell(item, Written(item.value))
    BY ItemReads
  <2>2. w \in Nat
    BY <2>1 DEF WrittenWell
  <2>3. item.family = "V1" => w % 4 = 1
    <3>1. item.family = "V1" => w = 17
      BY <2>1 DEF WrittenWell
    <3>2. w = 17 => w % 4 = 1
      OBVIOUS
    <3> QED
      BY <3>1, <3>2
  <2>4. item.family \notin Versions => w % 4 = 0
    BY <2>1 DEF WrittenWell, Versions
  <2> QED
    BY <2>2, <2>3, <2>4
<1>4. ASSUME NEW k \in 1..(n + 1)
      PROVE  /\ Plainly(more, k) => g[k] % 4 = 0
             /\ AfterOne(more, k) => g[k] % 4 = 1
  <2>1. \A j \in 1..n : j \in 1..(n + 1)
    BY <1>1
  <2>2. \A j \in 1..(n + 1) : j < k => j \in 1..n
    BY <1>1
  <2>3. Plainly(more, k) => Plainly(items, k)
    BY <1>2, <2>1 DEF Plainly
  <2>4. AfterOne(more, k) => AfterOne(items, k)
    BY <1>2, <2>2 DEF AfterOne
  <2>5. g[k] = starts[k]
    BY DEF OneStartMore
  <2> QED
    BY <2>3, <2>4, <2>5 DEF InQuadlets
<1>5. ASSUME NEW k, k = n + 2
      PROVE  /\ Plainly(more, k) => g[k] % 4 = 0
             /\ AfterOne(more, k) => g[k] % 4 = 1
  <2> DEFINE last == n + 1
             s == starts[last]
  <2>0. last \in 1..(n + 1) /\ s \in Nat
    BY <1>1
  <2>1. g[k] = s + w /\ s \in Nat
    BY <1>5, <2>0 DEF OneStartMore
  <2>2. /\ Plainly(items, last) => s % 4 = 0
        /\ AfterOne(items, last) => s % 4 = 1
    BY <2>0 DEF InQuadlets
  <2>3. \A j \in 1..n : j \in 1..last /\ j < last /\ j < k
    BY <1>1, <1>5
  <2>4. \A j \in 1..last : j < k
    BY <1>1, <1>5
  <2>5. more[last] = item /\ last \in 1..last /\ Len(more) = last
    BY <1>1, <1>2
  <2>6. \A j \in 1..last : j \in 1..n \/ j = last
    BY <1>1
  <2>10. \A j \in 1..n : j # last
    BY <1>1
  <2> HIDE DEF s, last
  <2>7. ASSUME Plainly(more, k)
        PROVE  g[k] % 4 = 0
    <3>1. item.family \notin Versions
      BY <2>4, <2>5, <2>7 DEF Plainly
    <3>2. Plainly(items, last)
      BY <1>2, <2>3, <2>5, <2>7 DEF Plainly
    <3>3. s % 4 = 0 /\ w % 4 = 0
      BY <1>3, <2>2, <3>1, <3>2
    <3> QED
      BY <1>3, <2>1, <3>3, QuadletsAdd, Zenon
  <2>8. ASSUME AfterOne(more, k)
        PROVE  g[k] % 4 = 1
    <3>1. PICK j \in 1..last : more[j].family = "V1"
      BY <2>5, <2>8 DEF AfterOne
    <3>2. more[j].family \in Versions
      BY <3>1 DEF Versions
    <3>3. \A i \in 1..last : more[i].family \in Versions => i = j
      BY <2>5, <3>2 DEF OneVersion
    <3>4. CASE j = last
      <4>1. \A i \in 1..n : items[i].family \notin Versions
        BY <1>2, <2>3, <2>10, <3>3, <3>4
      <4>2. Plainly(items, last)
        BY <4>1 DEF Plainly
      <4>3. s % 4 = 0 /\ w % 4 = 1
        BY <1>3, <2>2, <2>5, <3>1, <3>4, <4>2
      <4> QED
        BY <1>3, <2>1, <4>3, QuadletsAdd, Zenon
    <3>5. CASE j \in 1..n
      <4>1. items[j].family = "V1" /\ j < last
        BY <1>2, <2>3, <3>1, <3>5
      <4>2. AfterOne(items, last)
        BY <3>5, <4>1 DEF AfterOne
      <4>3. item.family \notin Versions
        BY <2>5, <2>10, <3>3, <3>5
      <4>4. s % 4 = 1 /\ w % 4 = 0
        BY <1>3, <2>2, <4>2, <4>3
      <4> QED
        BY <1>3, <2>1, <4>4, QuadletsAdd, Zenon
    <3> QED
      BY <2>6, <3>4, <3>5
  <2> QED
    BY <2>7, <2>8
<1>6. \A k \in 1..(n + 2) : k \in 1..(n + 1) \/ k = n + 2
  BY <1>1
<1>7. (n + 1) + 1 = n + 2
  BY <1>1
<1> QED
  BY <1>2, <1>4, <1>5, <1>6, <1>7 DEF InQuadlets

(* What a text begins with, it shares with it.                             *)
LEMMA HeadIsPiece ==
  ASSUME NEW S, NEW s \in Seq(S), NEW n \in 0..Len(s), NEW h, h = Piece(s, 0, n), NEW m \in 0..n
  PROVE  h \in Seq(S) /\ Len(h) = n /\ SameHead(h, s, m) /\ SameHead(s, h, m)
<1> DEFINE z == 0
<1>1. z \in 0..n /\ z = 0
  OBVIOUS
<1> HIDE DEF z
<1>2. IsPiece(Piece(s, z, n), S, s, z, n)
  BY <1>1, PieceIs
<1>3. h \in Seq(S) /\ Len(h) = n - z /\ \A i \in 1..(n - z) : h[i] = s[z + i]
  BY <1>1, <1>2 DEF IsPiece
<1>4. \A i \in 1..n : h[i] = s[i]
  BY <1>1, <1>3
<1>5. Len(h) = n /\ h \in Seq(S)
  BY <1>1, <1>3
<1>6. m \in Nat /\ m <= n /\ n <= Len(s) /\ \A i \in 1..m : i \in 1..n
  OBVIOUS
<1> QED
  BY <1>4, <1>5, <1>6 DEF SameHead

\* What the reader of a text that is left from s to e makes of an item
\* written from s to t.
TextTaken(outcome, item, rest, whole, s, t, e) ==
  /\ t <= e => /\ outcome.verdict = "Ok" /\ outcome.value = item.value
               /\ SubSeq(rest, 1, outcome.size) = Written(item.value)
               /\ SubSeq(rest, outcome.size + 1, Len(rest)) = Piece(whole, t, e)
  /\ e < t => outcome = NeedBytes

(* An item is read where it was written, and a part of it asks for more.   *)
LEMMA TextIsTaken ==
  ASSUME NEW item, IsItem(item), NEW W, W = Written(item.value),
         NEW S, NEW whole \in Seq(S), W \in Seq(S),
         NEW t \in 0..Len(whole), NEW s \in 0..t, Piece(whole, s, t) = W, t = s + Len(W),
         NEW e \in s..Len(whole), NEW rest, rest = Piece(whole, s, e),
         NEW o, o = ReadText(item.family, rest)
  PROVE  TextTaken(o, item, rest, whole, s, t, e)
<1> DEFINE family == item.family
           n == Len(W)
           k == e - s
<1>1. /\ WrittenWell(item, W)
      /\ ReadsBack(ReadText(item.family, W), W, item.value)
  BY ItemReads
<1>2. W # <<>> /\ ReadText(family, W) = [verdict |-> "Ok", size |-> n, value |-> item.value]
  BY <1>1 DEF ReadsBack
<1>3. ReadText(family, W).verdict = "Ok" /\ ReadText(family, W).size = n /\ ReadText(family, W).value = item.value
  BY <1>2
<1>4. e \in 0..Len(whole) /\ s \in 0..e /\ n \in Nat /\ k \in Nat
  OBVIOUS
<1>5. rest \in Seq(S) /\ Len(rest) = k
  <2>1. IsPiece(rest, S, whole, s, e)
    BY <1>4, PieceIs
  <2> QED
    BY <2>1 DEF IsPiece
<1>6. o = ReadText(family, rest)
  OBVIOUS
<1> HIDE DEF family
<1>7. CASE t <= e
  <2> DEFINE z == 0
             h == Piece(rest, z, n)
             l == Piece(rest, n, k)
  <2>0. z = 0 /\ z \in 0..n /\ z \in Nat
    BY <1>4
  <2>1. n \in 0..k /\ n \in 0..(e - s) /\ k \in 0..(e - s) /\ n <= k
    BY <1>4, <1>7
  <2>2. t = s + n /\ e = s + k /\ s = s + z
    BY <1>4, <2>0
  <2> HIDE DEF z, n, k
  <2>3. h = Piece(whole, s, t)
    BY <1>4, <2>0, <2>1, <2>2, PieceOfPiece
  <2>4. l = Piece(whole, t, e)
    BY <1>4, <2>1, <2>2, PieceOfPiece
  <2>5. h = W
    BY <2>3
  <2>6. n \in 0..Len(rest)
    BY <1>5, <2>1
  <2>7. SameHead(W, rest, n)
    <3>1. n \in 0..n /\ W = Piece(rest, 0, n)
      BY <1>4, <2>0, <2>5
    <3> QED
      BY <1>5, <2>6, <3>1, HeadIsPiece
  <2>8. ReadText(family, rest) = ReadText(family, W)
    BY <1>3, <1>5, <2>7, TextIsLocal
  <2>9. o.verdict = "Ok" /\ o.value = item.value /\ o.size = n
    BY <1>3, <1>6, <2>8
  <2>10. SubSeq(rest, 1, o.size) = W
    <3>1. h = SubSeq(rest, 1, n)
      BY <2>0 DEF Piece
    <3> QED
      BY <2>5, <2>9, <3>1
  <2>11. SubSeq(rest, o.size + 1, Len(rest)) = Piece(whole, t, e)
    <3>1. l = SubSeq(rest, n + 1, k)
      BY DEF Piece
    <3> QED
      BY <1>5, <2>4, <2>9, <3>1
  <2>12. ~(e < t)
    BY <1>4, <1>7
  <2> QED
    BY <2>9, <2>10, <2>11, <2>12 DEF TextTaken
<1>8. CASE e < t
  <2> DEFINE z == 0
             h == Piece(W, z, k)
  <2>0. z = 0 /\ z \in 0..k
    BY <1>4
  <2>1. k \in 0..n /\ k < n /\ k \in 0..(t - s)
    BY <1>4, <1>8
  <2>2. s = s + z /\ e = s + k
    BY <1>4, <2>0
  <2> HIDE DEF z, n, k
  <2>3. h = Piece(whole, s, e)
    BY <1>4, <2>0, <2>1, <2>2, PieceOfPiece
  <2>4. rest = SubSeq(W, 1, k)
    <3>1. h = SubSeq(W, z + 1, k)
      BY DEF Piece
    <3>2. z + 1 = 1
      BY <2>0
    <3>3. rest = h
      BY <2>3
    <3> QED
      BY <3>1, <3>2, <3>3
  <2>5. k \in 0..Len(W)
    BY <2>1 DEF n
  <2>6. ReadText(family, SubSeq(W, 1, k)) = NeedBytes
    BY <1>3, <2>1, <2>5, TextShortens
  <2>7. o = NeedBytes
    BY <1>6, <2>4, <2>6
  <2>8. ~(t <= e)
    BY <1>4, <1>8
  <2> QED
    BY <2>7, <2>8 DEF TextTaken
<1>9. t <= e \/ e < t
  BY <1>4
<1> QED
  BY <1>7, <1>8, <1>9

\* A text of k quadlets has a characters and c bytes.
Scaled(k, a, c) == k \in Nat /\ a = 4 * k /\ c = 3 * k

(* The bytes of a piece of whole quadlets are a piece of the bytes.        *)
LEMMA PieceBytes ==
  ASSUME NEW R \in Seq(DOMAIN Sextet), NEW M, NEW k, NEW l, k <= l, l <= M, NEW e, Scaled(M, Len(R), e),
         NEW a, NEW b, NEW c, NEW d, Scaled(k, a, c), Scaled(l, b, d)
  PROVE  Piece(Bytes(R), c, d) = Bytes(Piece(R, a, b))
<1> DEFINE letters == DOMAIN Sextet
           part == Piece(R, a, b)
           N == l - k
           bytes == Bytes(R)
           first == Bytes(part)
           p == Piece(bytes, c, d)
           z == 0
           three == 3 * N
           four == 4 * N
<1>0. /\ M \in Nat /\ Len(R) = 4 * M /\ k \in Nat /\ l \in Nat
      /\ a = 4 * k /\ b = 4 * l /\ c = 3 * k /\ d = 3 * l
  BY DEF Scaled
<1>1. N \in Nat /\ k + N <= M
  BY <1>0
<1>2. part \in Seq(letters) /\ Len(part) = four /\ \A i \in 1..four : part[i] = R[a + i]
  <2>1. b \in 0..Len(R) /\ a \in 0..b
    BY <1>0
  <2>2. R \in Seq(letters)
    OBVIOUS
  <2>3. b - a = four
    BY <1>0
  <2> HIDE DEF letters, part, four
  <2>4. IsPiece(Piece(R, a, b), letters, R, a, b)
    BY <2>1, <2>2, PieceIs
  <2> QED
    BY <2>3, <2>4 DEF IsPiece, part
<1>3. part \in Seq(DOMAIN Sextet) /\ Len(part) = 4 * N /\ Len(part) = four
  BY <1>2
<1>4. bytes \in Seq(Byte) /\ Len(bytes) = 3 * M
  BY <1>0, BytesOfText
<1> HIDE DEF part, N, letters
<1>5. first \in Seq(Byte) /\ Len(first) = 3 * N
  BY <1>1, <1>3, BytesOfText
<1>6. \A i \in 1..three : first[i] = bytes[c + i]
  <2>1. z \in 0..3 /\ z = 0
    OBVIOUS
  <2> HIDE DEF z
  <2>2. \A j \in (z + 1)..(4 * N) : part[j] = R[4 * k + j]
    <3>1. \A j \in (z + 1)..(4 * N) : j \in 1..four
      BY <1>1, <2>1
    <3> QED
      BY <1>0, <1>2, <3>1
  <2>3. Shifted(first, bytes, z, k, N)
    BY <1>0, <1>1, <1>3, <2>1, <2>2, BytesShift
  <2>4. \A j \in (z + 1)..(3 * N) : first[j] = bytes[3 * k + j]
    BY <2>3 DEF Shifted
  <2>5. \A i \in 1..three : i \in (z + 1)..(3 * N)
    BY <1>1, <2>1
  <2> QED
    BY <1>0, <2>4, <2>5
<1> HIDE DEF bytes, first
<1>7. d \in 0..Len(bytes) /\ c \in 0..d /\ d - c = three /\ three \in Nat
  <2>1. d \in 0..Len(bytes) /\ c \in 0..d
    BY <1>0, <1>4
  <2>2. d - c = three
    BY <1>0 DEF N
  <2> QED
    BY <1>1, <2>1, <2>2
<1>8. IsPiece(p, Byte, bytes, c, d)
  BY <1>4, <1>7, PieceIs
<1>9. p \in Seq(Byte) /\ Len(p) = three /\ \A i \in 1..three : p[i] = bytes[c + i]
  BY <1>7, <1>8 DEF IsPiece
<1>10. Len(first) = three
  BY <1>5
<1> HIDE DEF p, three
<1>11. \A i \in 1..three : p[i] = first[i]
  BY <1>6, <1>9
<1>12. p = first
  BY <1>5, <1>7, <1>9, <1>10, <1>11, Alike
<1> QED
  BY <1>12 DEF p, bytes, first, part

(* The reader of bytes reads a primitive as its text is read.              *)
LEMMA BinaryReads ==
  ASSUME NEW item, IsItem(item), item.family \notin Versions, NEW W, W = Written(item.value)
  PROVE  \E N \in Nat \ {0} :
           /\ W \in Seq(DOMAIN Sextet) /\ Len(W) = 4 * N
           /\ Bytes(W) \in Seq(Byte) /\ Len(Bytes(W)) = 3 * N
           /\ ReadBinary(item.family, Bytes(W)).verdict = "Ok"
           /\ ReadBinary(item.family, Bytes(W)).value = item.value
           /\ ReadBinary(item.family, Bytes(W)).size = 3 * N
<1> DEFINE family == item.family
           n == Len(W)
           N == n \div 4
           o == ReadText(family, W)
           x == ReadBinary(family, Bytes(W))
<1>1. /\ WrittenWell(item, W)
      /\ ReadsBack(ReadText(item.family, W), W, item.value)
  BY ItemReads
<1>2. W # <<>> /\ o.verdict = "Ok" /\ o.size = n /\ o.value = item.value
  BY <1>1 DEF ReadsBack
<1>3. W \in Seq(DOMAIN Sextet) /\ n % 4 = 0
  BY <1>1 DEF WrittenWell, Versions
<1>4. n \in Nat /\ n # 0
  BY <1>2, <1>3
<1>5. N \in Nat \ {0} /\ n = 4 * N
  <2> HIDE DEF n
  <2> QED
    BY <1>3, <1>4
<1>6. Len(W) = 4 * N /\ family \notin {"V1", "V2"}
  BY <1>5 DEF Versions
<1> HIDE DEF N, n, family
<1>7. Bytes(W) \in Seq(Byte) /\ Len(Bytes(W)) = 3 * N
  BY <1>3, <1>5, <1>6, BytesOfText
<1>8. SayTheSame(o, x)
  BY <1>3, <1>5, <1>6, FamilyFormsAgree
<1> HIDE DEF o, x
<1>9. x.verdict = "Ok" /\ x.value = item.value /\ x.size * 4 = n * 3
  BY <1>2, <1>8 DEF SayTheSame
<1>10. x.size \in Nat
  <2>1. ReadBinary(family, Bytes(W)).verdict = "Ok"
    BY <1>9 DEF x
  <2>2. ReadBinary(family, Bytes(W)).size \in Nat \ {0}
    BY <1>7, <2>1, BinarySpan
  <2> QED
    BY <2>2 DEF x
<1> DEFINE y == x.size
<1>11. y = 3 * N
  <2>1. y \in Nat /\ y * 4 = n * 3
    BY <1>9, <1>10
  <2> HIDE DEF y
  <2> QED
    BY <1>5, <2>1
<1> QED
  BY <1>3, <1>5, <1>6, <1>7, <1>9, <1>11 DEF x, family

\* The first m bytes of what some quadlets of the text from s on become.
BinaryLeft(rest, whole, s, m) ==
  \E n \in s..Len(whole) : \E M \in Nat :
    /\ n = s + 4 * M
    /\ Piece(whole, s, n) \in Seq(DOMAIN Sextet)
    /\ m \in 0..(3 * M)
    /\ rest = Piece(Bytes(Piece(whole, s, n)), 0, m)

\* What the reader of bytes makes of an item written from s to t.
BinaryTaken(outcome, item, rest, whole, s, t, m) ==
  /\ 3 * (t - s) <= 4 * m =>
       /\ outcome.verdict = "Ok" /\ outcome.value = item.value
       /\ SubSeq(rest, 1, outcome.size) = Bytes(Written(item.value))
       /\ \E l \in Nat : 4 * l = 4 * m - 3 * (t - s)
                         /\ BinaryLeft(SubSeq(rest, outcome.size + 1, Len(rest)), whole, t, l)
  /\ 4 * m < 3 * (t - s) => outcome.verdict # "Ok"

(* A text of whole quadlets and its bytes.                                 *)
LEMMA QuadletPiece ==
  ASSUME NEW S, NEW whole \in Seq(S), NEW s \in Nat, NEW M \in Nat, NEW n, n = s + 4 * M, n <= Len(whole),
         NEW R, R = Piece(whole, s, n), R \in Seq(DOMAIN Sextet)
  PROVE  Len(R) = 4 * M /\ Bytes(R) \in Seq(Byte) /\ Len(Bytes(R)) = 3 * M
<1>1. n \in 0..Len(whole) /\ s \in 0..n /\ n - s = 4 * M
  OBVIOUS
<1>2. IsPiece(R, S, whole, s, n)
  BY <1>1, PieceIs
<1>3. Len(R) = n - s
  BY <1>2 DEF IsPiece
<1>4. Len(R) = 4 * M
  BY <1>1, <1>3
<1>5. Bytes(R) \in Seq(Byte) /\ Len(Bytes(R)) = 3 * M
  BY <1>4, BytesOfText
<1> QED
  BY <1>4, <1>5

(* Two pieces that make one.                                               *)
LEMMA TwoPieces ==
  ASSUME NEW S, NEW whole \in Seq(S), NEW n \in 0..Len(whole), NEW s \in 0..n, NEW t \in s..n,
         NEW R, R = Piece(whole, s, n), NEW a, a = t - s, NEW b, b = n - s, NEW z, z = 0
  PROVE  Piece(R, z, a) = Piece(whole, s, t) /\ Piece(R, a, b) = Piece(whole, t, n)
<1>1. a \in 0..(n - s) /\ b \in 0..(n - s) /\ a \in 0..b /\ z \in 0..a /\ s = s + z /\ t = s + a /\ n = s + b
  OBVIOUS
<1>2. Piece(R, z, a) = Piece(whole, s, t)
  BY <1>1, PieceOfPiece
<1>3. Piece(R, a, b) = Piece(whole, t, n)
  BY <1>1, PieceOfPiece
<1> QED
  BY <1>2, <1>3

\* M quadlets stand from s to n.
Quads(s, n, M) == n = s + 4 * M

\* Of the m bytes, of M quadlets, N quadlets take size and leave l.
Thirds(m, l, size, M, N) == m \in 0..(3 * M) /\ size = 3 * N /\ size <= m /\ l = m - size

BytesBetween(R, M, e, k, a, c, l, b, d) == Piece(Bytes(R), c, d) = Bytes(Piece(R, a, b))

(* The bytes of a piece, with all it depends on.                           *)
LEMMA BytesOfPiece ==
  ASSUME NEW R \in Seq(DOMAIN Sextet), NEW M, NEW k, NEW l, k <= l, l <= M, NEW e, Scaled(M, Len(R), e),
         NEW a, NEW b, NEW c, NEW d, Scaled(k, a, c), Scaled(l, b, d)
  PROVE  BytesBetween(R, M, e, k, a, c, l, b, d)
BY PieceBytes DEF BytesBetween

(* Where there are bytes enough, the reader takes the item.                *)
LEMMA BytesAreTaken ==
  ASSUME NEW S, NEW whole \in Seq(S), NEW s \in Nat, NEW M \in Nat, NEW n, Quads(s, n, M), n <= Len(whole),
         NEW R, R = Piece(whole, s, n), R \in Seq(DOMAIN Sextet),
         NEW N \in Nat \ {0}, NEW t, Quads(s, t, N), NEW W, W = Piece(whole, s, t), W \in Seq(DOMAIN Sextet),
         NEW m, NEW l, NEW size, Thirds(m, l, size, M, N), NEW rest, rest = Piece(Bytes(R), 0, m)
  PROVE  /\ SameHead(Bytes(W), rest, size)
         /\ SubSeq(rest, 1, size) = Bytes(W)
         /\ l \in Nat /\ BinaryLeft(SubSeq(rest, size + 1, Len(rest)), whole, t, l)
<1> DEFINE bytes == Bytes(R)
           z == 0
           threeM == 3 * M
           fourM == 4 * M
           fourN == 4 * N
           R2 == Piece(whole, t, n)
           L == M - N
<1>0. z = 0 /\ z = 4 * z /\ z = 3 * z /\ z \in Nat
  OBVIOUS
<1>1. N <= M /\ t <= n /\ L \in Nat /\ n = t + 4 * L /\ l \in 0..(3 * L) /\ l \in Nat /\ t \in Nat
  BY DEF Quads, Thirds
<1>2. Len(R) = fourM /\ bytes \in Seq(Byte) /\ Len(bytes) = threeM
  BY QuadletPiece DEF Quads
<1>3. n \in 0..Len(whole) /\ s \in 0..n /\ fourN \in 0..(n - s) /\ fourM \in 0..(n - s)
      /\ fourN \in 0..fourM /\ z \in 0..fourN
      /\ s = s + z /\ t = s + fourN /\ n = s + fourM
  BY DEF Quads, Thirds
<1>4. m \in Nat /\ m \in 0..threeM /\ size \in 0..m /\ l = m - size /\ m = size + l /\ size = size + z
      /\ size \in 0..threeM /\ size \in Nat
      /\ threeM \in 0..threeM
      /\ l \in 0..(threeM - size) /\ z \in 0..l /\ size \in 0..size /\ z \in 0..m
      /\ m = z + m /\ size = z + size /\ z \in 0..size
  BY DEF Thirds
<1> HIDE DEF z
<1>5. rest = Piece(bytes, z, m)
  BY <1>0
<1>6. Piece(R, z, fourN) = Piece(whole, s, t) /\ Piece(R, fourN, fourM) = Piece(whole, t, n)
  <2>1. n \in 0..Len(whole) /\ s \in 0..n /\ t \in s..n
    BY <1>1, <1>3
  <2>2. fourN = t - s /\ fourM = n - s
    BY DEF Quads
  <2> HIDE DEF fourN, fourM
  <2> QED
    BY <1>0, <2>1, <2>2, TwoPieces
<1>7. Piece(R, z, fourN) = W /\ Piece(R, fourN, fourM) = R2
  BY <1>6
<1>8. Scaled(M, Len(R), threeM) /\ Scaled(M, fourM, threeM) /\ Scaled(N, fourN, size) /\ Scaled(z, z, z)
      /\ z <= N /\ N <= M /\ M <= M
  BY <1>0, <1>1, <1>2 DEF Scaled, Thirds
<1>9. Piece(bytes, z, size) = Bytes(W) /\ Piece(bytes, size, threeM) = Bytes(R2)
  <2> HIDE DEF fourN, fourM, threeM
  <2> HIDE DEF z
  <2>1. BytesBetween(R, M, threeM, z, z, z, N, fourN, size)
    BY <1>8, BytesOfPiece
  <2>2. BytesBetween(R, M, threeM, N, fourN, size, M, fourM, threeM)
    BY <1>8, BytesOfPiece
  <2> QED
    BY <1>7, <2>1, <2>2 DEF BytesBetween
<1> HIDE DEF threeM, fourM, fourN, L
<1>10. m \in 0..Len(bytes) /\ size \in 0..Len(bytes) /\ threeM \in 0..Len(bytes)
  BY <1>2, <1>4
<1>11. rest \in Seq(Byte) /\ Len(rest) = m
  <2>1. rest = Piece(bytes, 0, m) /\ m \in 0..m
    BY <1>0, <1>4, <1>5
  <2> HIDE DEF bytes
  <2>2. bytes \in Seq(Byte) /\ m \in 0..Len(bytes)
    BY <1>2, <1>10
  <2>3. m \in 0..m
    BY <2>1
  <2>4. rest = Piece(bytes, 0, m)
    BY <2>1
  <2> QED
    BY <2>2, <2>3, <2>4, HeadIsPiece
<1> HIDE DEF bytes
<1>12. Piece(rest, z, size) = Piece(bytes, z, size)
  <2>1. m - z = m /\ size \in 0..(m - z) /\ z \in 0..m
    BY <1>0, <1>4
  <2>2. z = z + z
    BY <1>0
  <2> QED
    <3>1. bytes \in Seq(Byte) /\ m \in 0..Len(bytes) /\ z \in 0..m
      BY <1>2, <1>10, <2>1
    <3>2. size \in 0..(m - z) /\ z \in 0..size
      BY <1>4, <2>1
    <3>3. z = z + z /\ size = z + size /\ rest = Piece(bytes, z, m)
      BY <1>4, <1>5, <2>2
    <3> QED
      BY <3>1, <3>2, <3>3, PieceOfPiece
<1>13. Piece(rest, size, m) = Piece(bytes, size, m)
  <2>1. m \in 0..(m - z) /\ size \in 0..m /\ z \in 0..m
    BY <1>0, <1>4
  <2>2. bytes \in Seq(Byte) /\ m \in 0..Len(bytes)
    BY <1>2, <1>10
  <2>3. m = z + m /\ size = z + size /\ rest = Piece(bytes, z, m)
    BY <1>4, <1>5
  <2> QED
    BY <2>1, <2>2, <2>3, PieceOfPiece
<1>14. Piece(Bytes(R2), z, l) = Piece(bytes, size, m)
  <2>1. Bytes(R2) = Piece(bytes, size, threeM)
    BY <1>9
  <2> HIDE DEF R2
  <2>2. bytes \in Seq(Byte) /\ threeM \in 0..Len(bytes) /\ size \in 0..threeM
    BY <1>2, <1>4, <1>10
  <2>3. l \in 0..(threeM - size) /\ z \in 0..l
    BY <1>4
  <2>4. size = size + z /\ m = size + l
    BY <1>4
  <2> QED
    BY <2>1, <2>2, <2>3, <2>4, PieceOfPiece
<1>15. SameHead(Bytes(W), rest, size)
  <2>1. Bytes(W) = Piece(rest, 0, size)
    BY <1>0, <1>9, <1>12
  <2>2. size \in 0..Len(rest) /\ size \in 0..size
    BY <1>4, <1>11
  <2> QED
    <3>1. rest \in Seq(Byte)
      BY <1>11
    <3> QED
      BY <2>1, <2>2, <3>1, HeadIsPiece
<1>16. SubSeq(rest, 1, size) = Bytes(W)
  <2>1. Piece(rest, z, size) = SubSeq(rest, z + 1, size)
    BY DEF Piece
  <2>2. z + 1 = 1
    BY <1>0
  <2> QED
    BY <1>9, <1>12, <2>1, <2>2
<1>17. SubSeq(rest, size + 1, Len(rest)) = Piece(Bytes(R2), 0, l)
  <2>1. Piece(rest, size, m) = SubSeq(rest, size + 1, m)
    BY DEF Piece
  <2> QED
    BY <1>0, <1>11, <1>13, <1>14, <2>1
<1>18. R2 \in Seq(DOMAIN Sextet)
  <2> DEFINE letters == DOMAIN Sextet
  <2>1. R \in Seq(letters) /\ fourM \in 0..Len(R) /\ fourN \in 0..fourM
    BY <1>2, <1>3
  <2> HIDE DEF letters, R2
  <2>2. IsPiece(Piece(R, fourN, fourM), letters, R, fourN, fourM)
    BY <2>1, PieceIs
  <2>3. R2 \in Seq(letters)
    BY <1>7, <2>2 DEF IsPiece
  <2> QED
    BY <2>3 DEF letters
<1>19. BinaryLeft(SubSeq(rest, size + 1, Len(rest)), whole, t, l)
  <2> DEFINE tail == SubSeq(rest, size + 1, Len(rest))
  <2>1. n \in t..Len(whole) /\ L \in Nat /\ n = t + 4 * L /\ l \in 0..(3 * L)
    BY <1>1
  <2>2. tail = Piece(Bytes(Piece(whole, t, n)), 0, l) /\ Piece(whole, t, n) \in Seq(DOMAIN Sextet)
    BY <1>17, <1>18
  <2> HIDE DEF tail, R2
  <2> QED
    BY <2>1, <2>2 DEF BinaryLeft, tail
<1> QED
  BY <1>1, <1>15, <1>16, <1>19

(* Of two texts that begin at one place, the bytes of the shorter begin    *)
(* those of the longer.                                                    *)
LEMMA BytesShared ==
  ASSUME NEW S, NEW whole \in Seq(S), NEW s \in Nat,
         NEW M \in Nat, NEW n, Quads(s, n, M), n <= Len(whole), NEW R, R = Piece(whole, s, n), R \in Seq(DOMAIN Sextet),
         NEW N \in Nat, NEW t, Quads(s, t, N), N <= M, NEW W, W = Piece(whole, s, t), W \in Seq(DOMAIN Sextet),
         NEW m \in Nat, m <= 3 * N
  PROVE  SameHead(Bytes(W), Bytes(R), m) /\ SameHead(Bytes(R), Bytes(W), m)
<1> DEFINE z == 0
           fourN == 4 * N
           fourM == 4 * M
           threeN == 3 * N
           threeM == 3 * M
<1>0. z = 0
  OBVIOUS
<1>1. n \in 0..Len(whole) /\ s \in 0..n /\ t \in s..n /\ fourN = t - s /\ fourM = n - s
  BY DEF Quads
<1>2. Len(R) = fourM /\ Bytes(R) \in Seq(Byte) /\ Len(Bytes(R)) = threeM
  BY QuadletPiece DEF Quads
<1>3. /\ Scaled(M, Len(R), threeM) /\ Scaled(z, z, z) /\ Scaled(N, fourN, threeN)
      /\ z <= N /\ N <= M
  BY <1>2 DEF Scaled
<1>4. m \in 0..threeN /\ threeN \in 0..threeM
  OBVIOUS
<1> HIDE DEF fourN, fourM, z, threeN, threeM
<1>5. Piece(R, z, fourN) = W
  <2>1. Piece(R, z, fourN) = Piece(whole, s, t)
    BY <1>0, <1>1, TwoPieces
  <2> QED
    BY <2>1
<1>6. BytesBetween(R, M, threeM, z, z, z, N, fourN, threeN)
  BY <1>3, BytesOfPiece
<1>7. Bytes(W) = Piece(Bytes(R), 0, threeN)
  BY <1>0, <1>5, <1>6 DEF BytesBetween
<1> DEFINE x == Bytes(R)
           y == Bytes(W)
<1>8. x \in Seq(Byte) /\ threeN \in 0..Len(x) /\ y = Piece(x, 0, threeN)
  BY <1>2, <1>4, <1>7
<1> HIDE DEF x, y
<1>9. SameHead(y, x, m) /\ SameHead(x, y, m)
  BY <1>4, <1>8, HeadIsPiece
<1> QED
  BY <1>9 DEF x, y

(* A head shared with a text is shared with what shares it.                *)
LEMMA SharedOn ==
  ASSUME NEW a, NEW b, NEW c, NEW n, SameHead(a, b, n), SameHead(b, c, n)
  PROVE  SameHead(a, c, n)
BY DEF SameHead

(* Where there are too few bytes, the reader takes nothing.                *)
LEMMA TooFewBytes ==
  ASSUME NEW family, NEW W \in Seq(DOMAIN Sextet), NEW N \in Nat, Bytes(W) \in Seq(Byte), Len(Bytes(W)) = 3 * N,
         ReadBinary(family, Bytes(W)).size = 3 * N,
         NEW rest \in Seq(Byte), NEW m \in Nat, Len(rest) = m, m < 3 * N,
         SameHead(rest, Bytes(W), m)
  PROVE  ReadBinary(family, rest).verdict # "Ok"
<1> SUFFICES ASSUME ReadBinary(family, rest).verdict = "Ok" PROVE FALSE
  OBVIOUS
<1> DEFINE size == ReadBinary(family, rest).size
<1>1. size \in Nat \ {0} /\ size <= Len(rest)
  BY BinarySpan
<1>2. size \in 0..m
  BY <1>1
<1>3. SameHead(rest, Bytes(W), size)
  <2> HIDE DEF size
  <2> QED
    BY <1>2, ShorterHead
<1>4. ReadBinary(family, Bytes(W)) = ReadBinary(family, rest)
  BY <1>3, BinaryIsLocal
<1>5. size = 3 * N
  BY <1>4
<1> HIDE DEF size
<1> QED
  BY <1>2, <1>5

(* Where there are bytes enough the reader of bytes takes the item, and    *)
(* where there are too few it takes nothing.                               *)
LEMMA BinaryIsTaken ==
  ASSUME NEW item, IsItem(item), item.family \notin Versions, NEW W, W = Written(item.value),
         NEW S, NEW whole \in Seq(S),
         NEW t \in 0..Len(whole), NEW s \in 0..t, Piece(whole, s, t) = W, t = s + Len(W),
         NEW m, NEW rest, BinaryLeft(rest, whole, s, m), NEW o, o = ReadBinary(item.family, rest)
  PROVE  BinaryTaken(o, item, rest, whole, s, t, m)
<1> DEFINE family == item.family
<1>1. PICK N \in Nat \ {0} :
           /\ W \in Seq(DOMAIN Sextet) /\ Len(W) = 4 * N
           /\ Bytes(W) \in Seq(Byte) /\ Len(Bytes(W)) = 3 * N
           /\ ReadBinary(family, Bytes(W)).verdict = "Ok"
           /\ ReadBinary(family, Bytes(W)).value = item.value
           /\ ReadBinary(family, Bytes(W)).size = 3 * N
  BY BinaryReads, SMTT(60)
<1>2. PICK n \in s..Len(whole) : \E M \in Nat :
           /\ n = s + 4 * M
           /\ Piece(whole, s, n) \in Seq(DOMAIN Sextet)
           /\ m \in 0..(3 * M)
           /\ rest = Piece(Bytes(Piece(whole, s, n)), 0, m)
  BY DEF BinaryLeft
<1>3. PICK M \in Nat :
           /\ n = s + 4 * M
           /\ Piece(whole, s, n) \in Seq(DOMAIN Sextet)
           /\ m \in 0..(3 * M)
           /\ rest = Piece(Bytes(Piece(whole, s, n)), 0, m)
  BY <1>2
<1> DEFINE R == Piece(whole, s, n)
           size == 3 * N
           l == m - size
<1>4. Quads(s, n, M) /\ Quads(s, t, N) /\ n <= Len(whole) /\ t <= Len(whole) /\ s \in Nat /\ m \in Nat
  BY <1>1, <1>3 DEF Quads
<1>5. R \in Seq(DOMAIN Sextet) /\ rest = Piece(Bytes(R), 0, m) /\ W \in Seq(DOMAIN Sextet)
      /\ m \in 0..(3 * M)
  BY <1>1, <1>3
<1>6. 3 * (t - s) = 4 * size /\ size \in Nat
  BY <1>1
<1> HIDE DEF R
<1>7. Bytes(R) \in Seq(Byte) /\ Len(Bytes(R)) = 3 * M
  <2>1. R = Piece(whole, s, n) /\ n = s + 4 * M
    BY <1>3 DEF R
  <2> QED
    BY <1>4, <1>5, <2>1, QuadletPiece
<1>8. rest \in Seq(Byte) /\ Len(rest) = m /\ SameHead(rest, Bytes(R), m)
  <2> DEFINE x == Bytes(R)
  <2>1. x \in Seq(Byte) /\ m \in 0..Len(x) /\ m \in 0..m /\ rest = Piece(x, 0, m)
    BY <1>4, <1>5, <1>7
  <2> HIDE DEF x
  <2>2. rest \in Seq(Byte) /\ Len(rest) = m /\ SameHead(rest, x, m)
    BY <2>1, HeadIsPiece
  <2> QED
    BY <2>2 DEF x
<1>9. W = Piece(whole, s, t) /\ R = Piece(whole, s, n)
  BY DEF R
<1>10. CASE size <= m
  <2>1. Thirds(m, l, size, M, N)
    BY <1>4, <1>5, <1>10 DEF Thirds
  <2>2. rest = Piece(Bytes(R), 0, m)
    BY <1>5
  <2> HIDE DEF size, l
  <2>3. /\ SameHead(Bytes(W), rest, size)
        /\ SubSeq(rest, 1, size) = Bytes(W)
        /\ l \in Nat /\ BinaryLeft(SubSeq(rest, size + 1, Len(rest)), whole, t, l)
    BY <1>1, <1>4, <1>5, <1>9, <2>1, <2>2, BytesAreTaken, SMTT(60)
  <2>4. ReadBinary(family, Bytes(W)).verdict = "Ok" /\ ReadBinary(family, Bytes(W)).size = size
    BY <1>1 DEF size
  <2>5. ReadBinary(family, rest) = ReadBinary(family, Bytes(W))
    BY <1>1, <1>8, <2>3, <2>4, BinaryIsLocal
  <2>6. o.verdict = "Ok" /\ o.value = item.value /\ o.size = size
    BY <1>1, <2>4, <2>5
  <2>7. SubSeq(rest, 1, o.size) = Bytes(Written(item.value))
    BY <2>3, <2>6
  <2>8. 4 * l = 4 * m - 3 * (t - s) /\ ~(4 * m < 3 * (t - s))
    <3>1. l = m - size
      BY DEF l
    <3> QED
      BY <1>4, <1>6, <1>10, <3>1
  <2>9. \E j \in Nat : 4 * j = 4 * m - 3 * (t - s)
                       /\ BinaryLeft(SubSeq(rest, o.size + 1, Len(rest)), whole, t, j)
    BY <2>3, <2>6, <2>8
  <2> QED
    BY <2>6, <2>7, <2>8, <2>9 DEF BinaryTaken
<1>11. CASE m < size
  <2>1. SameHead(Bytes(R), Bytes(W), m)
    <3>1. CASE N <= M
      <4>1. m <= 3 * N /\ N \in Nat /\ m \in Nat
        BY <1>4, <1>11
      <4> QED
        BY <1>4, <1>5, <1>9, <3>1, <4>1, BytesShared
    <3>2. CASE M <= N
      <4>1. m <= 3 * M /\ N \in Nat /\ m \in Nat
        BY <1>4, <1>5
      <4> QED
        BY <1>4, <1>5, <1>9, <3>2, <4>1, BytesShared
    <3> QED
      BY <3>1, <3>2
  <2>2. SameHead(rest, Bytes(W), m)
    BY <1>8, <2>1, SharedOn
  <2>3. m < 3 * N /\ N \in Nat
    BY <1>11
  <2>4. ReadBinary(family, rest).verdict # "Ok"
    BY <1>1, <1>4, <1>8, <2>2, <2>3, TooFewBytes
  <2>5. ~(3 * (t - s) <= 4 * m)
    BY <1>4, <1>6, <1>11
  <2> QED
    BY <2>4, <2>5 DEF BinaryTaken
<1>12. size <= m \/ m < size
  BY <1>4
<1> QED
  BY <1>10, <1>11, <1>12

\* What is left, in either form, of the text from s on, measured by q: three
\* for a character and four for a byte.
Left(rest, f, whole, s, q) ==
  \/ f = "text" /\ \E e \in s..Len(whole) : rest = Piece(whole, s, e) /\ q = 3 * (e - s)
  \/ f = "binary" /\ \E m \in Nat : BinaryLeft(rest, whole, s, m) /\ q = 4 * m

(* A head of a head, named as the stream is cut.                           *)
LEMMA HeadOfHead ==
  ASSUME NEW S, NEW x \in Seq(S), NEW m \in 0..Len(x), NEW h, h = Piece(x, 0, m), NEW k \in 0..m
  PROVE  SubSeq(h, 1, k) = Piece(x, 0, k)
<1> DEFINE z == 0
<1>1. z = 0 /\ z \in 0..m /\ z \in 0..k /\ k \in 0..(m - z) /\ z = z + z /\ k = z + k /\ z + 1 = 1
  OBVIOUS
<1> HIDE DEF z
<1>2. h = Piece(x, z, m)
  BY <1>1
<1>3. Piece(h, z, k) = Piece(x, z, k)
  BY <1>1, <1>2, PieceOfPiece
<1>4. Piece(h, z, k) = SubSeq(h, z + 1, k)
  BY DEF Piece
<1>5. Piece(h, z, k) = SubSeq(h, 1, k)
  BY <1>1, <1>4
<1>6. Piece(x, z, k) = Piece(x, 0, k)
  BY <1>1
<1> QED
  BY <1>3, <1>5, <1>6

(* A stream cut short is left with less.                                   *)
LEMMA LeftIsCut ==
  ASSUME NEW S, NEW whole \in Seq(S), NEW s \in Nat, NEW f, NEW rest, NEW q, Left(rest, f, whole, s, q),
         NEW k \in 0..(Len(rest) - 1)
  PROVE  \E r \in Nat : r < q /\ Left(SubSeq(rest, 1, k), f, whole, s, r)
<1>1. CASE f = "text"
  <2>1. PICK e \in s..Len(whole) : rest = Piece(whole, s, e) /\ q = 3 * (e - s)
    BY <1>1 DEF Left
  <2>2. e \in 0..Len(whole) /\ s \in 0..e
    OBVIOUS
  <2>3. IsPiece(rest, S, whole, s, e)
    BY <2>1, <2>2, PieceIs
  <2>4. Len(rest) = e - s
    BY <2>3 DEF IsPiece
  <2> DEFINE z == 0
             c == s + k
             r == 3 * k
  <2>5. k \in 0..(e - s) /\ k < e - s /\ k \in Nat
    BY <2>2, <2>4
  <2>6. z = 0 /\ z \in 0..k /\ s = s + z /\ c = s + k /\ z + 1 = 1
    BY <2>5
  <2>7. c \in s..Len(whole) /\ r = 3 * (c - s) /\ r < q /\ r \in Nat
    BY <2>1, <2>2, <2>5
  <2> HIDE DEF z, c, r
  <2>8. Piece(rest, z, k) = Piece(whole, s, c)
    BY <2>1, <2>2, <2>5, <2>6, PieceOfPiece
  <2>9. Piece(rest, z, k) = SubSeq(rest, z + 1, k)
    BY DEF Piece
  <2>10. SubSeq(rest, 1, k) = Piece(whole, s, c)
    BY <2>6, <2>8, <2>9
  <2>11. Left(SubSeq(rest, 1, k), f, whole, s, r)
    BY <1>1, <2>7, <2>10 DEF Left
  <2> QED
    BY <2>7, <2>11
<1>2. CASE f = "binary"
  <2>1. PICK m \in Nat : BinaryLeft(rest, whole, s, m) /\ q = 4 * m
    BY <1>2 DEF Left
  <2>2. PICK n \in s..Len(whole) : \E M \in Nat :
           /\ n = s + 4 * M
           /\ Piece(whole, s, n) \in Seq(DOMAIN Sextet)
           /\ m \in 0..(3 * M)
           /\ rest = Piece(Bytes(Piece(whole, s, n)), 0, m)
    BY <2>1 DEF BinaryLeft
  <2>3. PICK M \in Nat :
           /\ n = s + 4 * M
           /\ Piece(whole, s, n) \in Seq(DOMAIN Sextet)
           /\ m \in 0..(3 * M)
           /\ rest = Piece(Bytes(Piece(whole, s, n)), 0, m)
    BY <2>2
  <2> DEFINE R == Piece(whole, s, n)
             x == Bytes(R)
             r == 4 * k
             short == SubSeq(rest, 1, k)
  <2>4. R = Piece(whole, s, n) /\ R \in Seq(DOMAIN Sextet) /\ n <= Len(whole) /\ n = s + 4 * M
    BY <2>3
  <2>5. x = Bytes(R) /\ rest = Piece(x, 0, m)
    BY <2>3
  <2> HIDE DEF R
  <2>6. x \in Seq(Byte) /\ Len(x) = 3 * M
    BY <2>4, QuadletPiece
  <2> HIDE DEF x
  <2>7. m \in 0..Len(x) /\ m \in 0..m
    BY <2>3, <2>6
  <2>8. rest \in Seq(Byte) /\ Len(rest) = m
    BY <2>5, <2>6, <2>7, HeadIsPiece
  <2>9. k \in 0..m /\ k < m /\ k \in 0..(3 * M) /\ r \in Nat /\ k \in Nat
    BY <2>3, <2>8
  <2>10. r < q
    BY <2>1, <2>9
  <2>11. short = Piece(x, 0, k)
    BY <2>5, <2>6, <2>7, <2>9, HeadOfHead
  <2> HIDE DEF short
  <2>12. BinaryLeft(short, whole, s, k)
    BY <2>4, <2>5, <2>9, <2>11 DEF BinaryLeft
  <2>13. Left(short, f, whole, s, r)
    BY <1>2, <2>9, <2>12 DEF Left
  <2> QED
    BY <2>9, <2>10, <2>13 DEF short
<1> QED
  BY <1>1, <1>2 DEF Left

(* As much is left in binary as in text.                                   *)
LEMMA LeftInBinary ==
  ASSUME NEW S, NEW whole \in Seq(S), NEW s \in Nat, NEW rest, NEW q, Left(rest, "text", whole, s, q),
         Decodable(rest)
  PROVE  Left(Bytes(rest), "binary", whole, s, q)
<1>1. PICK e \in s..Len(whole) : rest = Piece(whole, s, e) /\ q = 3 * (e - s)
  BY DEF Left
<1>2. e \in 0..Len(whole) /\ s \in 0..e
  OBVIOUS
<1>3. IsPiece(rest, S, whole, s, e)
  BY <1>1, <1>2, PieceIs
<1>4. rest \in Seq(S) /\ Len(rest) = e - s
  BY <1>3 DEF IsPiece
<1> DEFINE M == Len(rest) \div 4
           m == 3 * M
           x == Bytes(rest)
           z == 0
<1>5. rest \in Seq(DOMAIN Sextet) /\ M \in Nat /\ Len(rest) = 4 * M
  BY <1>4, CleanIsText
<1> HIDE DEF M
<1>6. e = s + 4 * M /\ m \in Nat /\ m \in 0..(3 * M) /\ q = 4 * m
  BY <1>1, <1>4, <1>5
<1>7. x \in Seq(Byte) /\ Len(x) = m
  BY <1>5, BytesOfText
<1>8. x = Piece(x, 0, m)
  <2> HIDE DEF x, m
  <2>1. Piece(x, 0, m) = SubSeq(x, 1, Len(x))
    BY <1>7 DEF Piece
  <2>2. SubSeq(x, 1, Len(x)) = x
    BY <1>7
  <2> QED
    BY <2>1, <2>2
<1>9. x = Piece(Bytes(Piece(whole, s, e)), 0, m)
  BY <1>1, <1>8
<1>10. Piece(whole, s, e) \in Seq(DOMAIN Sextet)
  BY <1>1, <1>5
<1> HIDE DEF x, m
<1>11. BinaryLeft(x, whole, s, m)
  BY <1>5, <1>6, <1>9, <1>10 DEF BinaryLeft
<1> QED
  BY <1>6, <1>11 DEF Left, x

(* And as much in text as in binary.                                       *)
LEMMA LeftInText ==
  ASSUME NEW S, NEW whole \in Seq(S), NEW s \in Nat, NEW rest, NEW q, Left(rest, "binary", whole, s, q),
         Encodable(rest)
  PROVE  Left(AllCharacters(rest), "text", whole, s, q)
<1>1. PICK m \in Nat : BinaryLeft(rest, whole, s, m) /\ q = 4 * m
  BY DEF Left
<1>2. PICK n \in s..Len(whole) : \E M \in Nat :
         /\ n = s + 4 * M
         /\ Piece(whole, s, n) \in Seq(DOMAIN Sextet)
         /\ m \in 0..(3 * M)
         /\ rest = Piece(Bytes(Piece(whole, s, n)), 0, m)
  BY <1>1 DEF BinaryLeft
<1>3. PICK M \in Nat :
         /\ n = s + 4 * M
         /\ Piece(whole, s, n) \in Seq(DOMAIN Sextet)
         /\ m \in 0..(3 * M)
         /\ rest = Piece(Bytes(Piece(whole, s, n)), 0, m)
  BY <1>2
<1> DEFINE R == Piece(whole, s, n)
           x == Bytes(R)
           k == m \div 3
           four == 4 * k
           three == 3 * k
           e == s + four
           z == 0
<1>4. R = Piece(whole, s, n) /\ R \in Seq(DOMAIN Sextet) /\ n <= Len(whole) /\ n = s + 4 * M
  BY <1>3
<1>5. x = Bytes(R) /\ rest = Piece(x, 0, m)
  BY <1>3
<1> HIDE DEF R
<1>6. Len(R) = 4 * M /\ x \in Seq(Byte) /\ Len(x) = 3 * M
  BY <1>4, QuadletPiece
<1>7. m \in 0..Len(x) /\ m \in 0..m
  BY <1>3, <1>6
<1>8. rest \in Seq(Byte) /\ Len(rest) = m
  <2> HIDE DEF x
  <2>1. x \in Seq(Byte) /\ rest = Piece(x, 0, m)
    BY <1>5, <1>6
  <2> QED
    BY <1>7, <2>1, HeadIsPiece
<1>9. k \in Nat /\ m = three
  <2>1. m % 3 = 0
    BY <1>8 DEF Encodable
  <2> QED
    BY <2>1
<1> HIDE DEF k
<1>10. k \in 0..M
  BY <1>3, <1>9
<1>11. rest = SubSeq(Bytes(R), 1, 3 * k)
  BY <1>5, <1>9 DEF Piece
<1>12. AllCharacters(rest) = SubSeq(R, 1, 4 * k)
  BY <1>4, <1>6, <1>10, <1>11, HeadReturns
<1>13. /\ n \in 0..Len(whole) /\ s \in 0..n /\ four \in 0..(n - s) /\ z \in 0..four /\ s = s + z /\ e = s + four
       /\ z + 1 = 1 /\ e \in s..Len(whole) /\ q = 3 * (e - s)
  BY <1>1, <1>4, <1>9, <1>10
<1>14. SubSeq(R, 1, 4 * k) = SubSeq(R, z + 1, four)
  BY <1>13
<1> HIDE DEF four, z, e
<1>15. Piece(R, z, four) = Piece(whole, s, e)
  <2>1. n \in 0..Len(whole) /\ s \in 0..n /\ four \in 0..(n - s) /\ z \in 0..four
    BY <1>13
  <2>2. s = s + z /\ e = s + four /\ R = Piece(whole, s, n)
    BY <1>4, <1>13
  <2> QED
    BY <2>1, <2>2, PieceOfPiece
<1>16. AllCharacters(rest) = Piece(whole, s, e)
  BY <1>12, <1>14, <1>15 DEF Piece
<1> QED
  BY <1>13, <1>16 DEF Left

(* The full stop is no character of the alphabet.                          *)
LEMMA StopIsNew == "." \notin DOMAIN Sextet
<1>1. Underscore # "."
  BY ZenonT(40) DEF Underscore
<1>2. \A i \in 1..64 : Alphabet[i] # "."
  BY <1>1, SMT DEF Alphabet
<1>3. DOMAIN Sextet = {Alphabet[i] : i \in 1..64}
  BY AlphabetDiffers DEF Sextet, Range
<1> QED
  BY <1>2, <1>3

\* What the reader of either form makes of an item written from s to t.
Taken(outcome, item, rest, f, whole, s, t, q) ==
  /\ 3 * (t - s) <= q =>
       /\ outcome.verdict = "Ok" /\ outcome.value = item.value
       /\ SubSeq(rest, 1, outcome.size) =
            IF f = "text" THEN Written(item.value) ELSE Bytes(Written(item.value))
       /\ \E r \in Nat : r = q - 3 * (t - s) /\ Left(SubSeq(rest, outcome.size + 1, Len(rest)), f, whole, t, r)
  /\ q < 3 * (t - s) => outcome.verdict # "Ok" /\ (f = "text" => outcome.verdict # "Malformed")

\* What the reader of a form makes of a stream.
ReadAs(f, family, rest) == IF f = "text" THEN ReadText(family, rest) ELSE ReadBinary(family, rest)

(* Either reader takes an item where enough is left, and asks for more, or *)
(* at least does not take it, where too little is.                         *)
LEMMA LeftIsTaken ==
  ASSUME NEW item, IsItem(item), NEW W, W = Written(item.value),
         NEW S, NEW whole \in Seq(S), W \in Seq(S),
         NEW t \in 0..Len(whole), NEW s \in 0..t, Piece(whole, s, t) = W, t = s + Len(W),
         NEW f, f = "text" \/ item.family \notin Versions,
         NEW q, NEW rest, Left(rest, f, whole, s, q), NEW o, o = ReadAs(f, item.family, rest)
  PROVE  Taken(o, item, rest, f, whole, s, t, q)
<1>1. CASE f = "text"
  <2>1. PICK e \in s..Len(whole) : rest = Piece(whole, s, e) /\ q = 3 * (e - s)
    BY <1>1 DEF Left
  <2>2. o = ReadText(item.family, rest)
    BY <1>1 DEF ReadAs
  <2>3. TextTaken(o, item, rest, whole, s, t, e)
    BY <2>1, <2>2, TextIsTaken
  <2>4. e \in Nat /\ t \in Nat /\ s \in Nat
    BY <2>1
  <2>5. CASE t <= e
    <3> DEFINE tail == SubSeq(rest, o.size + 1, Len(rest))
               r == q - 3 * (t - s)
    <3>1. o.verdict = "Ok" /\ o.value = item.value /\ SubSeq(rest, 1, o.size) = Written(item.value)
          /\ tail = Piece(whole, t, e)
      BY <2>3, <2>5 DEF TextTaken
    <3>2. r = 3 * (e - t) /\ r \in Nat /\ e \in t..Len(whole) /\ ~(q < 3 * (t - s))
      BY <2>1, <2>4, <2>5
    <3>3. Left(tail, f, whole, t, r)
      <4> HIDE DEF tail, r
      <4> QED
        BY <1>1, <3>1, <3>2 DEF Left
    <3>4. \E j \in Nat : j = q - 3 * (t - s) /\ Left(tail, f, whole, t, j)
      BY <3>2, <3>3
    <3> QED
      BY <1>1, <3>1, <3>2, <3>4 DEF Taken
  <2>6. CASE e < t
    <3>1. o = NeedBytes
      BY <2>3, <2>6 DEF TextTaken
    <3>2. o.verdict = "NeedBytes"
      BY <3>1 DEF NeedBytes
    <3>3. ~(3 * (t - s) <= q)
      BY <2>1, <2>4, <2>6
    <3> QED
      BY <3>2, <3>3 DEF Taken
  <2> QED
    BY <2>4, <2>5, <2>6
<1>2. CASE f # "text"
  <2>1. PICK m \in Nat : BinaryLeft(rest, whole, s, m) /\ q = 4 * m
    BY <1>2 DEF Left
  <2>2. o = ReadBinary(item.family, rest) /\ item.family \notin Versions /\ f = "binary"
    BY <1>2 DEF ReadAs, Left
  <2>3. BinaryTaken(o, item, rest, whole, s, t, m)
    BY <2>1, <2>2, BinaryIsTaken
  <2>4. CASE 3 * (t - s) <= q
    <3> DEFINE tail == SubSeq(rest, o.size + 1, Len(rest))
    <3>1. 3 * (t - s) <= 4 * m /\ ~(q < 3 * (t - s))
      BY <2>1, <2>4
    <3>2. /\ o.verdict = "Ok" /\ o.value = item.value
          /\ SubSeq(rest, 1, o.size) = Bytes(Written(item.value))
          /\ \E l \in Nat : 4 * l = 4 * m - 3 * (t - s) /\ BinaryLeft(tail, whole, t, l)
      BY <2>3, <3>1 DEF BinaryTaken
    <3>3. PICK l \in Nat : 4 * l = 4 * m - 3 * (t - s) /\ BinaryLeft(tail, whole, t, l)
      BY <3>2
    <3> DEFINE r == 4 * l
    <3>4. r \in Nat /\ r = q - 3 * (t - s) /\ r = 4 * l
      BY <2>1, <3>3
    <3> HIDE DEF r, tail
    <3>5. Left(tail, f, whole, t, r)
      BY <2>2, <3>3, <3>4 DEF Left
    <3>6. \E j \in Nat : j = q - 3 * (t - s) /\ Left(tail, f, whole, t, j)
      BY <3>4, <3>5
    <3> QED
      BY <1>2, <3>1, <3>2, <3>6 DEF Taken, tail
  <2>5. CASE ~(3 * (t - s) <= q)
    <3>1. 4 * m < 3 * (t - s)
      BY <2>1, <2>5
    <3>2. o.verdict # "Ok"
      BY <2>3, <3>1 DEF BinaryTaken
    <3> QED
      BY <1>2, <2>5, <3>2 DEF Taken
  <2> QED
    BY <2>4, <2>5
<1> QED
  BY <1>1, <1>2

(* Where an item stands, and what it is written as.                        *)
LEMMA ItemStands ==
  ASSUME NEW items, NEW n \in Nat, n = Len(items), NEW whole, NEW starts, Laid(items, whole, starts),
         NEW k \in 1..n, NEW W, W = Written(items[k].value), NEW s, s = starts[k], NEW t, t = starts[k + 1]
  PROVE  /\ IsItem(items[k]) /\ WrittenWell(items[k], W) /\ W \in Seq(Plain) /\ W # <<>>
         /\ whole \in Seq(Plain)
         /\ t \in 0..Len(whole) /\ s \in 0..t /\ t = s + Len(W) /\ Piece(whole, s, t) = W
<1>1. /\ whole \in Seq(Plain)
      /\ starts \in [1..(n + 1) -> 0..Len(whole)]
      /\ IsItem(items[k])
      /\ t = s + Len(W)
      /\ Piece(whole, s, t) = W
  BY DEF Laid
<1>2. WrittenWell(items[k], W) /\ ReadsBack(ReadText(items[k].family, W), W, items[k].value)
  BY <1>1, ItemReads
<1>3. W \in Seq(Plain) /\ W # <<>>
  BY <1>2 DEF WrittenWell, Plain, ReadsBack
<1>4. k \in 1..(n + 1) /\ k + 1 \in 1..(n + 1)
  OBVIOUS
<1>5. s \in 0..Len(whole) /\ t \in 0..Len(whole)
  BY <1>1, <1>4
<1>6. Len(W) \in Nat
  BY <1>3
<1>7. s \in 0..t
  BY <1>1, <1>5, <1>6
<1> QED
  BY <1>1, <1>2, <1>3, <1>5, <1>7

\* All of the text from s on is left.
AllLeft(q, whole, s) == q = 3 * (Len(whole) - s)

(* What is left whole in binary is whole quadlets of the alphabet.         *)
LEMMA WholeInBinary ==
  ASSUME NEW S, NEW whole \in Seq(S), NEW s \in Nat, NEW L, L = Len(whole), s <= L, NEW rest, NEW q,
         Left(rest, "binary", whole, s, q), AllLeft(q, whole, s)
  PROVE  Piece(whole, s, L) \in Seq(DOMAIN Sextet) /\ \E M \in Nat : Quads(s, L, M)
<1>1. PICK m \in Nat : BinaryLeft(rest, whole, s, m) /\ q = 4 * m
  BY DEF Left
<1>2. PICK n \in s..L : \E M \in Nat :
         /\ n = s + 4 * M
         /\ Piece(whole, s, n) \in Seq(DOMAIN Sextet)
         /\ m \in 0..(3 * M)
         /\ rest = Piece(Bytes(Piece(whole, s, n)), 0, m)
  BY <1>1 DEF BinaryLeft
<1>3. PICK M \in Nat : n = s + 4 * M /\ Piece(whole, s, n) \in Seq(DOMAIN Sextet) /\ m \in 0..(3 * M)
  BY <1>2
<1>4. L \in Nat
  OBVIOUS
<1>5. n = L
  BY <1>1, <1>3, <1>4 DEF AllLeft
<1> QED
  BY <1>3, <1>5 DEF Quads

(* A stream left whole in binary has no version string ahead: one of the   *)
(* first version would break the quadlets, and one of the second ends in a *)
(* character that is none of the alphabet.                                 *)
LEMMA VersionIsAhead ==
  ASSUME NEW items, NEW n \in Nat, n = Len(items), NEW starts, InQuadlets(items, starts), OneVersion(items),
         NEW k \in 1..n, items[k].family \in Versions, NEW W, WrittenWell(items[k], W),
         NEW S, NEW whole \in Seq(S), NEW L, L = Len(whole), starts[n + 1] = L,
         NEW t \in 0..L, NEW s \in 0..t, s = starts[k], t = s + Len(W), Piece(whole, s, t) = W,
         NEW rest, NEW q, AllLeft(q, whole, s)
  PROVE  items[k].family \in Versions /\ WrittenWell(items[k], W) /\ ~Left(rest, "binary", whole, s, q)
<1> SUFFICES ASSUME Left(rest, "binary", whole, s, q) PROVE FALSE
  OBVIOUS
<1>1. s \in Nat /\ s <= L /\ L \in Nat
  OBVIOUS
<1>2. Piece(whole, s, L) \in Seq(DOMAIN Sextet) /\ \E M \in Nat : Quads(s, L, M)
  BY <1>1, WholeInBinary
<1>3. PICK M \in Nat : L = s + 4 * M
  BY <1>2 DEF Quads
<1>4. CASE items[k].family = "V1"
  <2>1. s % 4 = 0
    <3>1. \A j \in 1..Len(items) : j < k => items[j].family \notin Versions
      BY DEF OneVersion
    <3>2. Plainly(items, k)
      BY <3>1 DEF Plainly
    <3>3. k \in 1..(n + 1)
      OBVIOUS
    <3> QED
      BY <3>2, <3>3 DEF InQuadlets
  <2>2. L % 4 = 1
    <3>1. AfterOne(items, n + 1)
      BY <1>4 DEF AfterOne
    <3>2. n + 1 \in 1..(n + 1)
      OBVIOUS
    <3>3. starts[n + 1] % 4 = 1
      BY <3>1, <3>2 DEF InQuadlets
    <3> QED
      BY <3>3
  <2> QED
    BY <1>1, <1>3, <2>1, <2>2
<1>5. CASE items[k].family = "V2"
  <2>1. Len(W) = 19 /\ W[19] = "."
    BY <1>5 DEF WrittenWell
  <2> DEFINE R == Piece(whole, s, L)
  <2>2. L \in 0..Len(whole) /\ s \in 0..L /\ t \in 0..Len(whole) /\ s \in 0..t
    BY <1>1
  <2> HIDE DEF R
  <2>3. IsPiece(Piece(whole, s, t), S, whole, s, t) /\ IsPiece(Piece(whole, s, L), S, whole, s, L)
    BY <2>2, PieceIs
  <2>4. \A i \in 1..(t - s) : W[i] = whole[s + i]
    BY <2>3 DEF IsPiece
  <2>5. Len(R) = L - s /\ \A i \in 1..(L - s) : R[i] = whole[s + i]
    BY <2>3 DEF IsPiece, R
  <2>6. t = s + 19
    BY <2>1
  <2>7. 19 \in 1..(t - s) /\ 19 \in 1..(L - s)
    BY <1>1, <2>6
  <2>8. R[19] = "."
    BY <2>1, <2>4, <2>5, <2>7
  <2>9. R \in Seq(DOMAIN Sextet) /\ 19 \in 1..Len(R)
    BY <1>2, <2>5, <2>7 DEF R
  <2>10. R[19] \in DOMAIN Sextet
    BY <2>9, SextetOfText
  <2> QED
    BY <2>8, <2>10, StopIsNew
<1> QED
  BY <1>4, <1>5 DEF Versions

(* So it is for the one that stands in the layout.                         *)
LEMMA NoVersionInBinary ==
  ASSUME NEW items, NEW n \in Nat, n = Len(items), NEW whole, NEW starts, Laid(items, whole, starts),
         InQuadlets(items, starts), OneVersion(items),
         NEW k \in 1..n, items[k].family \in Versions,
         NEW s, s = starts[k], NEW L, L = Len(whole), NEW rest, NEW q, AllLeft(q, whole, s)
  PROVE  ~Left(rest, "binary", whole, s, q)
<1>1. PICK W : W = Written(items[k].value)
  OBVIOUS
<1>2. PICK t : t = starts[k + 1]
  OBVIOUS
<1>3. /\ WrittenWell(items[k], W) /\ whole \in Seq(Plain)
      /\ t \in 0..Len(whole) /\ s \in 0..t /\ t = s + Len(W) /\ Piece(whole, s, t) = W
  BY <1>1, <1>2, ItemStands, SMTT(60)
<1>4. t \in 0..L /\ starts[n + 1] = L
  BY <1>3 DEF Laid
<1> QED
  BY <1>3, <1>4, VersionIsAhead, SMTT(60)

\* Something of the text from s on is gone.
SomeGone(q, whole, s) == q < 3 * (Len(whole) - s)

\* An undamaged stream: what was built is laid out from start to start, what
\* was read is its first items, each from the span it was written to, and what
\* is left, in its form, is of the text from s on, all of it if none was cut.
AsBuilt(whole, starts, s) ==
  /\ Laid(built, whole, starts) /\ InQuadlets(built, starts)
  /\ Len(read) \in 0..Len(built) /\ s = starts[Len(read) + 1]
  /\ \A i \in 1..Len(read) : read[i].value = built[i].value /\ read[i].span = Source(read[i])
  /\ \E q \in Nat : /\ Left(wire, form, whole, s, q)
                    /\ ~cut => AllLeft(q, whole, s)
                    /\ cut => SomeGone(q, whole, s)
  /\ ~cut => verdict = "Reading"
  /\ form = "text" => verdict # "Malformed"

BuiltIsList == \E T : built \in Seq(T)

LayoutInv ==
  /\ ReadIsList /\ BuiltIsList /\ OneVersion(built)
  /\ mark = 0 => \E whole, starts, s : AsBuilt(whole, starts, s)

(* A stream cut or converted keeps its layout.                             *)
LEMMA StillAsBuilt ==
  ASSUME NEW whole, NEW starts, NEW s, AsBuilt(whole, starts, s), built' = built, read' = read,
         NEW q \in Nat, Left(wire', form', whole, s, q),
         ~cut' => AllLeft(q, whole, s), cut' => SomeGone(q, whole, s),
         ~cut' => verdict' = "Reading", form' = "text" => verdict' # "Malformed"
  PROVE  AsBuilt(whole, starts, s)'
<1>1. /\ Laid(built, whole, starts)' /\ InQuadlets(built, starts)'
      /\ (Len(read) \in 0..Len(built) /\ s = starts[Len(read) + 1])'
      /\ (\A i \in 1..Len(read) : read[i].value = built[i].value /\ read[i].span = Source(read[i]))'
  BY DEF AsBuilt
<1>2. \E r \in Nat : /\ Left(wire', form', whole, s, r)
                     /\ ~cut' => AllLeft(r, whole, s)
                     /\ cut' => SomeGone(r, whole, s)
  OBVIOUS
<1> QED
  BY <1>1, <1>2 DEF AsBuilt

(* Where the next item stands.                                             *)
LEMMA StartIsPlace ==
  ASSUME NEW whole, NEW starts, NEW s, AsBuilt(whole, starts, s), BuiltIsList
  PROVE  whole \in Seq(Plain) /\ s \in Nat /\ s <= Len(whole) /\ Len(built) \in Nat
<1>1. /\ whole \in Seq(Plain)
      /\ starts \in [1..(Len(built) + 1) -> 0..Len(whole)]
      /\ Len(read) \in 0..Len(built) /\ s = starts[Len(read) + 1]
  BY DEF AsBuilt, Laid
<1>2. Len(built) \in Nat
  BY DEF BuiltIsList
<1> DEFINE n == Len(built)
           k == Len(read) + 1
           L == Len(whole)
<1>3. k \in 1..(n + 1)
  BY <1>1, <1>2
<1>4. L \in Nat
  BY <1>1
<1> HIDE DEF n, k, L
<1>5. s \in 0..L
  BY <1>1, <1>3 DEF n, k, L
<1> QED
  BY <1>1, <1>2, <1>4, <1>5 DEF L

(* The empty stream is laid out.                                           *)
LEMMA LaidInitially == Init => LayoutInv
<1> SUFFICES ASSUME Init PROVE LayoutInv
  OBVIOUS
<1>1. built = <<>> /\ read = <<>> /\ wire = <<>> /\ form = "text" /\ ~cut /\ mark = 0 /\ verdict = "Reading"
  BY DEF Init
<1>2. ReadIsList /\ BuiltIsList
  <2>1. read \in Seq({}) /\ built \in Seq({})
    BY <1>1
  <2> QED
    BY <2>1 DEF ReadIsList, BuiltIsList
<1>3. Len(built) = 0 /\ Len(read) = 0 /\ 1..0 = {}
  BY <1>1
<1>4. OneVersion(built)
  BY <1>3 DEF OneVersion
<1> DEFINE starts == [i \in 1..1 |-> 0]
           whole == wire
           P == Plain
           z == 0
<1>5. Len(whole) = 0 /\ 0 \in 0..0 /\ 0 + 1 = 1 /\ 1 \in 1..1 /\ starts[1] = 0 /\ starts \in [1..1 -> 0..0]
  BY <1>1
<1>6. whole \in Seq(P)
  <2> HIDE DEF P
  <2> QED
    BY <1>1
<1>7. Laid(built, whole, starts)
  <2> HIDE DEF starts, whole
  <2> QED
    BY <1>3, <1>5, <1>6 DEF Laid
<1>8. InQuadlets(built, starts)
  <2>1. 0 % 4 = 0
    OBVIOUS
  <2>2. \A k \in 1..1 : k = 1
    OBVIOUS
  <2>3. ~AfterOne(built, 1)
    BY <1>3 DEF AfterOne
  <2> HIDE DEF starts
  <2> QED
    BY <1>3, <1>5, <2>1, <2>2, <2>3 DEF InQuadlets
<1>9. Left(wire, form, whole, 0, 0) /\ AllLeft(0, whole, 0) /\ 0 \in Nat
  <2>1. Piece(whole, 0, 0) = <<>>
    BY <1>1 DEF Piece
  <2>2. 0 \in 0..Len(whole) /\ 0 = 3 * (0 - 0) /\ 0 = 3 * (Len(whole) - 0)
    BY <1>5
  <2>3. wire = Piece(whole, 0, 0)
    BY <1>1, <2>1
  <2>4. AllLeft(0, whole, 0)
    BY <2>2 DEF AllLeft
  <2>5. Left(wire, form, whole, 0, 0)
    <3> HIDE DEF whole
    <3> QED
      BY <1>1, <2>2, <2>3 DEF Left
  <2> QED
    BY <2>4, <2>5
<1>10. AsBuilt(whole, starts, z)
  <2>1. \E q \in Nat : Left(wire, form, whole, z, q) /\ (~cut => AllLeft(q, whole, z)) /\ (cut => SomeGone(q, whole, z))
    BY <1>1, <1>9
  <2>2. Len(read) \in 0..Len(built) /\ z = starts[Len(read) + 1]
    BY <1>3, <1>5
  <2>3. verdict # "Malformed" /\ verdict = "Reading"
    BY <1>1
  <2> HIDE DEF starts, whole, z
  <2> QED
    BY <1>3, <1>7, <1>8, <2>1, <2>2, <2>3 DEF AsBuilt
<1> QED
  BY <1>2, <1>4, <1>10 DEF LayoutInv

(* An item written is laid out after the others.                           *)
LEMMA WriteLays ==
  ASSUME LayoutInv, NEW item, Write(item)
  PROVE  LayoutInv'
<1>1. /\ mark = 0 /\ ~cut /\ read = <<>> /\ verdict = "Reading" /\ form = "text"
      /\ Append(built, item) \in Messages
      /\ built' = Append(built, item) /\ wire' = wire \o Written(item.value)
      /\ form' = form /\ mark' = mark /\ cut' = cut /\ read' = read /\ verdict' = verdict
  BY DEF Write, Fresh
<1>2. PICK T : built \in Seq(T)
  BY DEF LayoutInv, BuiltIsList
<1> DEFINE n == Len(built)
           more == Append(built, item)
           W == Written(item.value)
<1>3. /\ more \in Seq(T \cup {item})
      /\ Len(more) = n + 1 /\ DOMAIN more = 1..(n + 1)
      /\ \A i \in 1..n : more[i] = built[i]
      /\ more[n + 1] = item
  BY <1>2, OneMore
<1>4. n \in Nat /\ n + 1 \in 1..(n + 1)
  BY <1>2
<1>5. \A i \in 1..(n + 1) : IsItem(more[i])
  BY <1>1, <1>3, MessagesAssumption
<1>6. IsItem(item)
  BY <1>3, <1>4, <1>5
<1>7. OneVersion(more)
  BY <1>1, <1>3, MessagesAssumption DEF OneVersion, Versions
<1>8. \E whole, starts, s : AsBuilt(whole, starts, s)
  BY <1>1 DEF LayoutInv
<1>9. PICK whole, starts, s : AsBuilt(whole, starts, s)
  BY <1>8
<1>10. /\ Laid(built, whole, starts) /\ InQuadlets(built, starts)
       /\ s = starts[Len(read) + 1]
       /\ \E q \in Nat : Left(wire, form, whole, s, q) /\ AllLeft(q, whole, s)
  BY <1>1, <1>9 DEF AsBuilt
<1>11. PICK q \in Nat : Left(wire, form, whole, s, q) /\ AllLeft(q, whole, s)
  BY <1>10
<1>12. /\ whole \in Seq(Plain) /\ starts \in [1..(n + 1) -> 0..Len(whole)] /\ starts[1] = 0
  BY <1>10 DEF Laid
<1>13. s = 0 /\ Len(read) = 0
  <2>1. Len(read) = 0
    BY <1>1
  <2> QED
    BY <1>10, <1>12, <2>1
<1> DEFINE L == Len(whole)
           longer == whole \o W
           M == L + Len(W)
           g == LongerStarts(starts, n, M)
           w == Len(W)
<1>14. wire = whole
  <2>1. PICK e \in s..Len(whole) : wire = Piece(whole, s, e) /\ q = 3 * (e - s)
    BY <1>1, <1>11 DEF Left
  <2>2. L \in Nat
    BY <1>12
  <2>3. e = L
    BY <1>11, <1>13, <2>1, <2>2 DEF AllLeft
  <2>4. wire = Piece(whole, 0, Len(whole))
    BY <1>13, <2>1, <2>3
  <2>5. wire = SubSeq(whole, 1, Len(whole))
    BY <2>4 DEF Piece
  <2> HIDE DEF L
  <2>6. SubSeq(whole, 1, Len(whole)) = whole
    BY <1>12
  <2> QED
    BY <2>5, <2>6
<1>15. Laid(more, longer, g) /\ OneStartMore(g, starts, n, w)
  <2>1. n = Len(built) /\ W = Written(item.value) /\ L = Len(whole) /\ M = L + Len(W) /\ w = Len(W)
        /\ g = LongerStarts(starts, n, M) /\ longer = whole \o W /\ more = Append(built, item)
    OBVIOUS
  <2> HIDE DEF n, W, L, M, g, longer, more, w
  <2>2. Laid(more, longer, g) /\ OneStartMore(g, starts, n, Len(W))
    BY <1>2, <1>6, <1>10, <2>1, LaidMore
  <2> QED
    BY <2>1, <2>2
<1>16. InQuadlets(more, g)
  <2>1. \A k \in 1..(n + 1) : starts[k] \in Nat
    BY <1>12
  <2>2. starts \in [1..(n + 1) -> Nat]
    BY <1>12, <2>1
  <2>3. n = Len(built) /\ more = Append(built, item) /\ w = Len(Written(item.value))
    OBVIOUS
  <2> HIDE DEF n, g, more, w, W, L, M, longer
  <2>4. OneVersion(more) /\ InQuadlets(built, starts) /\ OneStartMore(g, starts, n, w)
    BY <1>7, <1>10, <1>15
  <2>5. starts \in [1..(n + 1) -> Nat]
    BY <2>2
  <2>6. built \in Seq(T) /\ IsItem(item)
    BY <1>2, <1>6
  <2>7. OneStartMore(g, starts, n, w) /\ more = Append(built, item) /\ InQuadlets(more, g)
    BY <2>3, <2>4, <2>5, <2>6, AlignedMore
  <2> QED
    BY <2>7
<1>17. longer \in Seq(Plain) /\ wire' = longer
  BY <1>1, <1>14, <1>15 DEF Laid
<1> HIDE DEF g, longer, M, L, w
<1>18. Left(wire', form', longer, 0, 3 * Len(longer)) /\ AllLeft(3 * Len(longer), longer, 0) /\ 3 * Len(longer) \in Nat
  <2> DEFINE z == 0
             e == Len(longer)
             r == 3 * e
  <2>1. e \in Nat
    BY <1>17
  <2>2. z = 0 /\ e \in z..Len(longer) /\ r = 3 * (e - z) /\ r = 3 * (Len(longer) - z) /\ r \in Nat
    BY <2>1
  <2>3. longer = Piece(longer, 0, e)
    <3>1. Piece(longer, 0, e) = SubSeq(longer, 1, Len(longer))
      BY DEF Piece
    <3>2. SubSeq(longer, 1, Len(longer)) = longer
      BY <1>17
    <3> QED
      BY <3>1, <3>2
  <2>4. longer = Piece(longer, z, e)
    BY <2>2, <2>3
  <2> HIDE DEF z, e, r
  <2>5. Left(wire', form', longer, z, r)
    BY <1>1, <1>17, <2>2, <2>4 DEF Left
  <2>6. AllLeft(r, longer, z)
    BY <2>2 DEF AllLeft
  <2> QED
    BY <2>2, <2>5, <2>6 DEF z, r, e
<1>19. g[1] = 0
  <2>1. 1 \in 1..(n + 1)
    BY <1>4
  <2> QED
    BY <1>12, <1>15, <2>1 DEF OneStartMore
<1>22. PICK h : h = g
  OBVIOUS
<1>23. PICK text : text = longer
  OBVIOUS
<1>20. AsBuilt(text, h, 0)'
  <2>1. built' = more /\ read' = <<>> /\ ~cut' /\ verdict' = "Reading"
    BY <1>1
  <2>2. Len(read') = 0 /\ 0 + 1 = 1 /\ 1..0 = {} /\ Len(more) \in Nat
    BY <1>3, <1>4, <2>1
  <2>3. Len(read') \in 0..Len(more) /\ 0 = h[Len(read') + 1]
    BY <1>19, <1>22, <2>2
  <2>4. \E r \in Nat : Left(wire', form', text, 0, r) /\ (~cut' => AllLeft(r, text, 0)) /\ (cut' => SomeGone(r, text, 0))
    BY <1>18, <1>23, <2>1
  <2>5. Laid(more, text, h) /\ InQuadlets(more, h)
    BY <1>15, <1>16, <1>22, <1>23
  <2> HIDE DEF more
  <2>6. Laid(built', text, h) /\ InQuadlets(built', h) /\ Len(read') \in 0..Len(built')
    BY <2>1, <2>3, <2>5
  <2>7. \A i \in 1..Len(read') : read'[i].value = built'[i].value /\ read'[i].span = Source(read'[i])
    BY <2>2
  <2>8. (~cut' => verdict' = "Reading") /\ (form' = "text" => verdict' # "Malformed")
    BY <2>1
  <2> QED
    BY <2>3, <2>4, <2>6, <2>7, <2>8 DEF AsBuilt, Source
<1>21. BuiltIsList' /\ OneVersion(built)' /\ ReadIsList'
  <2>1. BuiltIsList'
    BY <1>1, <1>3 DEF BuiltIsList
  <2>2. OneVersion(built)'
    BY <1>1, <1>7
  <2>3. ReadIsList'
    BY <1>1 DEF LayoutInv, ReadIsList
  <2> QED
    BY <2>1, <2>2, <2>3
<1> QED
  BY <1>20, <1>21 DEF LayoutInv

(* What a step that neither writes nor reads leaves alone.                 *)
LEMMA ListsStay ==
  ASSUME LayoutInv, built' = built, read' = read
  PROVE  (ReadIsList /\ BuiltIsList /\ OneVersion(built))'
<1>1. ReadIsList'
  BY DEF LayoutInv, ReadIsList
<1>2. BuiltIsList'
  BY DEF LayoutInv, BuiltIsList
<1>3. OneVersion(built)'
  BY DEF LayoutInv
<1> QED
  BY <1>1, <1>2, <1>3

(* A stream cut short has lost some of its end.                            *)
LEMMA CutLays ==
  ASSUME LayoutInv, NEW length \in 0..(Len(wire) - 1), Cut(length)
  PROVE  LayoutInv'
<1>1. /\ wire' = SubSeq(wire, 1, length) /\ cut' = TRUE /\ verdict = "Reading"
      /\ built' = built /\ form' = form /\ mark' = mark /\ read' = read /\ verdict' = verdict
  BY DEF Cut, Fresh
<1>2. (ReadIsList /\ BuiltIsList /\ OneVersion(built))'
  BY <1>1, ListsStay
<1>3. ASSUME mark = 0 PROVE \E whole, starts, s : AsBuilt(whole, starts, s)'
  <2>1. PICK whole, starts, s : AsBuilt(whole, starts, s)
    BY <1>3 DEF LayoutInv
  <2>2. PICK q \in Nat : /\ Left(wire, form, whole, s, q)
                         /\ ~cut => AllLeft(q, whole, s)
                         /\ cut => SomeGone(q, whole, s)
    BY <2>1 DEF AsBuilt
  <2>3. whole \in Seq(Plain) /\ s \in Nat /\ s <= Len(whole)
    BY <2>1, StartIsPlace DEF LayoutInv
  <2>4. PICK r \in Nat : r < q /\ Left(SubSeq(wire, 1, length), form, whole, s, r)
    BY <2>2, <2>3, LeftIsCut
  <2>5. SomeGone(r, whole, s)
    <3> DEFINE all == 3 * (Len(whole) - s)
    <3>1. (~cut => q = all) /\ (cut => q < all)
      BY <2>2 DEF AllLeft, SomeGone
    <3>2. all \in Nat
      BY <2>3
    <3> HIDE DEF all
    <3>3. r < all
      BY <2>4, <3>1, <3>2
    <3> QED
      BY <3>3 DEF SomeGone, all
  <2>6. Left(wire', form', whole, s, r)
    BY <1>1, <2>4
  <2>7. verdict' = "Reading" /\ verdict' # "Malformed"
    BY <1>1
  <2>8. AsBuilt(whole, starts, s)'
    BY <1>1, <2>1, <2>5, <2>6, <2>7, StillAsBuilt
  <2> QED
    BY <2>8
<1> QED
  BY <1>1, <1>2, <1>3 DEF LayoutInv

(* A stream keeps its layout when it is turned into binary.                *)
LEMMA ToBinaryLays ==
  ASSUME LayoutInv, ToBinary
  PROVE  LayoutInv'
<1>1. /\ verdict = "Reading" /\ form = "text" /\ Decodable(wire)
      /\ form' = "binary" /\ wire' = Bytes(wire)
      /\ built' = built /\ mark' = mark /\ cut' = cut /\ read' = read /\ verdict' = verdict
  BY DEF ToBinary
<1>2. (ReadIsList /\ BuiltIsList /\ OneVersion(built))'
  BY <1>1, ListsStay
<1>3. ASSUME mark = 0 PROVE \E whole, starts, s : AsBuilt(whole, starts, s)'
  <2>1. PICK whole, starts, s : AsBuilt(whole, starts, s)
    BY <1>3 DEF LayoutInv
  <2>2. PICK q \in Nat : /\ Left(wire, form, whole, s, q)
                         /\ ~cut => AllLeft(q, whole, s)
                         /\ cut => SomeGone(q, whole, s)
    BY <2>1 DEF AsBuilt
  <2>3. whole \in Seq(Plain) /\ s \in Nat
    BY <2>1, StartIsPlace DEF LayoutInv
  <2>4. Left(wire, "text", whole, s, q)
    BY <1>1, <2>2
  <2>5. Left(Bytes(wire), "binary", whole, s, q)
    BY <1>1, <2>3, <2>4, LeftInBinary
  <2>6. Left(wire', form', whole, s, q)
    BY <1>1, <2>5
  <2>7. verdict' = "Reading" /\ verdict' # "Malformed"
    BY <1>1
  <2>8. (~cut' => AllLeft(q, whole, s)) /\ (cut' => SomeGone(q, whole, s))
    BY <1>1, <2>2
  <2>9. AsBuilt(whole, starts, s)'
    BY <1>1, <2>1, <2>6, <2>7, <2>8, StillAsBuilt
  <2> QED
    BY <2>9
<1> QED
  BY <1>1, <1>2, <1>3 DEF LayoutInv

(* And when it is turned into text.                                        *)
LEMMA ToTextLays ==
  ASSUME LayoutInv, ToText
  PROVE  LayoutInv'
<1>1. /\ verdict = "Reading" /\ form = "binary" /\ Encodable(wire)
      /\ form' = "text" /\ wire' = AllCharacters(wire)
      /\ built' = built /\ mark' = mark /\ cut' = cut /\ read' = read /\ verdict' = verdict
  BY DEF ToText
<1>2. (ReadIsList /\ BuiltIsList /\ OneVersion(built))'
  BY <1>1, ListsStay
<1>3. ASSUME mark = 0 PROVE \E whole, starts, s : AsBuilt(whole, starts, s)'
  <2>1. PICK whole, starts, s : AsBuilt(whole, starts, s)
    BY <1>3 DEF LayoutInv
  <2>2. PICK q \in Nat : /\ Left(wire, form, whole, s, q)
                         /\ ~cut => AllLeft(q, whole, s)
                         /\ cut => SomeGone(q, whole, s)
    BY <2>1 DEF AsBuilt
  <2>3. whole \in Seq(Plain) /\ s \in Nat
    BY <2>1, StartIsPlace DEF LayoutInv
  <2>4. Left(wire, "binary", whole, s, q)
    BY <1>1, <2>2
  <2>5. Left(AllCharacters(wire), "text", whole, s, q)
    BY <1>1, <2>3, <2>4, LeftInText
  <2>6. Left(wire', form', whole, s, q)
    BY <1>1, <2>5
  <2>7. verdict' = "Reading" /\ verdict' # "Malformed"
    BY <1>1
  <2>8. (~cut' => AllLeft(q, whole, s)) /\ (cut' => SomeGone(q, whole, s))
    BY <1>1, <2>2
  <2>9. AsBuilt(whole, starts, s)'
    BY <1>1, <2>1, <2>6, <2>7, <2>8, StillAsBuilt
  <2> QED
    BY <2>9
<1> QED
  BY <1>1, <1>2, <1>3 DEF LayoutInv

(* What a damaged stream was built as is no longer asked.                  *)
LEMMA AlterLays ==
  ASSUME LayoutInv, NEW place \in Nat \ {0}, NEW c, Alter(place, c)
  PROVE  LayoutInv'
<1>1. built' = built /\ read' = read /\ mark' = place
  BY DEF Alter
<1>2. (ReadIsList /\ BuiltIsList /\ OneVersion(built))'
  BY <1>1, ListsStay
<1>3. mark' # 0
  BY <1>1
<1> QED
  BY <1>2, <1>3 DEF LayoutInv

(* What is left of an item's end on, once it is taken.                     *)
LEMMA LeftAfter ==
  ASSUME NEW whole, Len(whole) \in Nat, NEW s \in Nat, NEW t \in Nat, NEW q \in Nat, NEW r, r = q - 3 * (t - s)
  PROVE  /\ AllLeft(q, whole, s) => AllLeft(r, whole, t)
         /\ SomeGone(q, whole, s) => SomeGone(r, whole, t)
<1> DEFINE L == Len(whole)
<1>1. L \in Nat
  OBVIOUS
<1> HIDE DEF L
<1>2. q = 3 * (L - s) => r = 3 * (L - t)
  BY <1>1
<1>3. q < 3 * (L - s) => r < 3 * (L - t)
  BY <1>1
<1> QED
  BY <1>2, <1>3 DEF AllLeft, SomeGone, L

(* All that is left is enough for the next item.                           *)
LEMMA AllIsEnough ==
  ASSUME NEW whole, Len(whole) \in Nat, NEW s \in Nat, NEW t \in 0..Len(whole), NEW q, AllLeft(q, whole, s)
  PROVE  ~(q < 3 * (t - s))
BY DEF AllLeft

(* What is read was written there.                                         *)
LEMMA ReadLays ==
  ASSUME LayoutInv, Read
  PROVE  LayoutInv'
<1>1. /\ verdict = "Reading" /\ Len(read) < Len(built) /\ Take(Outcome)
      /\ built' = built /\ form' = form /\ mark' = mark /\ cut' = cut
  BY DEF Read
<1>2. (ReadIsList /\ BuiltIsList /\ OneVersion(built))'
  <2>1. [Next]_vars
    BY DEF Next
  <2>2. ReadIsList'
    BY <2>1, ListStep DEF LayoutInv
  <2>3. BuiltIsList' /\ OneVersion(built)'
    BY <1>1 DEF LayoutInv, BuiltIsList
  <2> QED
    BY <2>2, <2>3
<1>3. ASSUME mark = 0 PROVE \E whole, starts, s : AsBuilt(whole, starts, s)'
  <2>1. PICK whole, starts, s : AsBuilt(whole, starts, s)
    BY <1>3 DEF LayoutInv
  <2>2. PICK S : read \in Seq(S)
    BY DEF LayoutInv, ReadIsList
  <2>3. PICK q \in Nat : /\ Left(wire, form, whole, s, q)
                         /\ ~cut => AllLeft(q, whole, s)
                         /\ cut => SomeGone(q, whole, s)
    BY <2>1 DEF AsBuilt
  <2>4. /\ Laid(built, whole, starts) /\ InQuadlets(built, starts) /\ OneVersion(built)
        /\ Len(read) \in 0..Len(built) /\ s = starts[Len(read) + 1]
        /\ \A i \in 1..Len(read) : read[i].value = built[i].value /\ read[i].span = Source(read[i])
    BY <2>1 DEF AsBuilt, LayoutInv
  <2>5. whole \in Seq(Plain) /\ s \in Nat /\ s <= Len(whole) /\ Len(built) \in Nat
    BY <2>1, StartIsPlace DEF LayoutInv
  <2>6. PICK n : n = Len(built)
    OBVIOUS
  <2>7. PICK k : k = Len(read) + 1
    OBVIOUS
  <2>8. k \in 1..n /\ n \in Nat /\ Len(read) \in Nat
    BY <1>1, <2>2, <2>5, <2>6, <2>7
  <2>9. PICK item : item = built[k]
    OBVIOUS
  <2>10. PICK W : W = Written(item.value)
    OBVIOUS
  <2>11. PICK t : t = starts[k + 1]
    OBVIOUS
  <2>12. s = starts[k]
    BY <2>4, <2>7
  <2>13. /\ IsItem(item) /\ W \in Seq(Plain)
         /\ t \in 0..Len(whole) /\ s \in 0..t /\ t = s + Len(W) /\ Piece(whole, s, t) = W
    BY <2>4, <2>6, <2>8, <2>9, <2>10, <2>11, <2>12, ItemStands, SMTT(60)
  <2>14. Outcome = ReadAs(form, item.family, wire)
    BY <2>7, <2>9 DEF Outcome, ReadAs, Expected
  <2> DEFINE o == Outcome
             x == [value |-> o.value, form |-> form, span |-> SubSeq(wire, 1, o.size)]
             tail == SubSeq(wire, o.size + 1, Len(wire))
  <2>15. ASSUME o.verdict # "Ok", cut, form = "text" => o.verdict # "Malformed"
         PROVE  AsBuilt(whole, starts, s)'
    <3>1. read' = read /\ wire' = wire /\ verdict' = o.verdict
      BY <1>1, <2>15 DEF Take
    <3>2. Left(wire', form', whole, s, q) /\ (~cut' => AllLeft(q, whole, s)) /\ (cut' => SomeGone(q, whole, s))
      BY <1>1, <2>3, <3>1
    <3>3. (~cut' => verdict' = "Reading") /\ (form' = "text" => verdict' # "Malformed")
      BY <1>1, <2>15, <3>1
    <3> QED
      BY <1>1, <2>1, <3>1, <3>2, <3>3, StillAsBuilt
  <2>16. CASE form # "text" /\ item.family \in Versions
    <3>1. form = "binary"
      BY <2>3, <2>16 DEF Left
    <3>2. o = Malformed
      BY <2>14, <2>16 DEF ReadAs, ReadBinary, Versions
    <3>3. o.verdict # "Ok"
      BY <3>2, Verdicts
    <3>4. cut
      <4> SUFFICES ASSUME ~cut PROVE FALSE
        OBVIOUS
      <4>1. AllLeft(q, whole, s) /\ Left(wire, "binary", whole, s, q)
        BY <2>3, <3>1
      <4>2. built[k].family \in Versions
        BY <2>9, <2>16
      <4> DEFINE L == Len(whole)
      <4>3. L = Len(whole)
        OBVIOUS
      <4> HIDE DEF L
      <4>4. ~Left(wire, "binary", whole, s, q)
        BY <2>4, <2>6, <2>8, <2>12, <4>1, <4>2, <4>3, NoVersionInBinary
      <4> QED
        BY <4>1, <4>4
    <3>5. AsBuilt(whole, starts, s)'
      BY <2>15, <2>16, <3>3, <3>4
    <3> QED
      BY <3>5
  <2>17. CASE form = "text" \/ item.family \notin Versions
    <3> HIDE DEF o
    <3>0. o = ReadAs(form, item.family, wire)
      BY <2>14 DEF o
    <3>1. Taken(o, item, wire, form, whole, s, t, q)
      BY <2>3, <2>5, <2>10, <2>13, <2>17, <3>0, LeftIsTaken
    <3>2. CASE 3 * (t - s) <= q
      <4>1. /\ o.verdict = "Ok" /\ o.value = item.value
            /\ SubSeq(wire, 1, o.size) = IF form = "text" THEN Written(item.value) ELSE Bytes(Written(item.value))
            /\ \E r \in Nat : r = q - 3 * (t - s) /\ Left(tail, form, whole, t, r)
        BY <3>1, <3>2 DEF Taken
      <4>2. PICK r \in Nat : r = q - 3 * (t - s) /\ Left(tail, form, whole, t, r)
        BY <4>1
      <4>3. read' = Append(read, x) /\ wire' = tail /\ verdict' = verdict
        BY <1>1, <4>1 DEF Take, o
      <4>4. x.value = built[k].value /\ x.span = Source(x)
        BY <2>9, <4>1 DEF Source
      <4>5. /\ Len(Append(read, x)) = k
            /\ \A i \in 1..Len(read) : Append(read, x)[i] = read[i]
            /\ Append(read, x)[k] = x
        <5> HIDE DEF x
        <5> QED
          BY <2>2, <2>7, OneMore
      <4> HIDE DEF x, tail
      <4>6. \A i \in 1..k : i \in 1..Len(read) \/ i = k
        BY <2>7, <2>8
      <4>7. \A i \in 1..Len(read') : read'[i].value = built'[i].value /\ read'[i].span = Source(read'[i])
        BY <1>1, <2>4, <4>3, <4>4, <4>5, <4>6
      <4>8. Len(read') \in 0..Len(built') /\ t = starts[Len(read') + 1]
        BY <1>1, <2>6, <2>8, <2>11, <4>3, <4>5
      <4>9. /\ AllLeft(q, whole, s) => AllLeft(r, whole, t)
            /\ SomeGone(q, whole, s) => SomeGone(r, whole, t)
        <5>1. Len(whole) \in Nat /\ t \in Nat
          BY <2>5, <2>13
        <5>2. r = q - 3 * (t - s)
          BY <4>2
        <5> QED
          BY <2>5, <5>1, <5>2, LeftAfter
      <4>10. \E j \in Nat : /\ Left(wire', form', whole, t, j)
                            /\ ~cut' => AllLeft(j, whole, t)
                            /\ cut' => SomeGone(j, whole, t)
        BY <1>1, <2>3, <4>2, <4>3, <4>9
      <4>11. verdict' = "Reading" /\ verdict' # "Malformed"
        BY <1>1, <4>3
      <4>12. Laid(built', whole, starts) /\ InQuadlets(built', starts)
        BY <1>1, <2>4
      <4>13. AsBuilt(whole, starts, t)'
        BY <4>7, <4>8, <4>10, <4>11, <4>12 DEF AsBuilt, Source
      <4> QED
        BY <4>13
    <3>3. CASE ~(3 * (t - s) <= q)
      <4>1. q < 3 * (t - s)
        BY <2>5, <2>13, <3>3
      <4>2. o.verdict # "Ok" /\ (form = "text" => o.verdict # "Malformed")
        BY <3>1, <4>1 DEF Taken
      <4>3. cut
        <5> SUFFICES ASSUME ~cut PROVE FALSE
          OBVIOUS
        <5>1. AllLeft(q, whole, s)
          BY <2>3
        <5>2. Len(whole) \in Nat
          BY <2>5
        <5> QED
          BY <2>5, <2>13, <4>1, <5>1, <5>2, AllIsEnough
      <4>4. AsBuilt(whole, starts, s)'
        BY <2>15, <4>2, <4>3
      <4> QED
        BY <4>4
    <3> QED
      BY <3>2, <3>3
  <2> QED
    BY <2>16, <2>17
<1> QED
  BY <1>1, <1>2, <1>3 DEF LayoutInv

(* Every step keeps the layout.                                            *)
LEMMA LayoutStep == WireInv /\ LayoutInv /\ [Next]_vars => LayoutInv'
<1> SUFFICES ASSUME WireInv, LayoutInv, [Next]_vars PROVE LayoutInv'
  OBVIOUS
<1>1. Len(wire) \in Nat
  BY DEF WireInv
<1>2. ASSUME NEW item \in UNION {Range(m) : m \in Messages}, Write(item)
      PROVE  LayoutInv'
  BY <1>2, WriteLays
<1>3. ASSUME NEW place \in 1..(IF Len(wire) < Reach THEN Len(wire) ELSE Reach), NEW c \in Marks, Alter(place, c)
      PROVE  LayoutInv'
  <2>1. place \in Nat \ {0}
    BY <1>1, ReachAssumption
  <2> QED
    BY <1>3, <2>1, AlterLays
<1>4. ASSUME NEW length \in 0..(Len(wire) - 1), Cut(length)
      PROVE  LayoutInv'
  BY <1>4, CutLays
<1>5. ASSUME ToBinary PROVE LayoutInv'
  BY <1>5, ToBinaryLays
<1>6. ASSUME ToText PROVE LayoutInv'
  BY <1>6, ToTextLays
<1>7. ASSUME Read PROVE LayoutInv'
  BY <1>7, ReadLays
<1>8. ASSUME UNCHANGED vars PROVE LayoutInv'
  <2>1. built' = built /\ read' = read /\ wire' = wire /\ form' = form
        /\ mark' = mark /\ cut' = cut /\ verdict' = verdict
    BY <1>8 DEF vars
  <2>2. (ReadIsList /\ BuiltIsList /\ OneVersion(built))'
    BY <2>1, ListsStay
  <2>3. ASSUME mark' = 0 PROVE \E whole, starts, s : AsBuilt(whole, starts, s)'
    <3>1. PICK whole, starts, s : AsBuilt(whole, starts, s)
      BY <2>1, <2>3 DEF LayoutInv
    <3>2. PICK q \in Nat : /\ Left(wire, form, whole, s, q)
                           /\ ~cut => AllLeft(q, whole, s)
                           /\ cut => SomeGone(q, whole, s)
      BY <3>1 DEF AsBuilt
    <3>3. /\ Left(wire', form', whole, s, q)
          /\ ~cut' => AllLeft(q, whole, s)
          /\ cut' => SomeGone(q, whole, s)
      BY <2>1, <3>2
    <3>4. /\ ~cut' => verdict' = "Reading"
          /\ form' = "text" => verdict' # "Malformed"
      BY <2>1, <3>1 DEF AsBuilt
    <3>5. AsBuilt(whole, starts, s)'
      BY <2>1, <3>1, <3>3, <3>4, StillAsBuilt
    <3> QED
      BY <3>5
  <2> QED
    BY <2>2, <2>3 DEF LayoutInv
<1> QED
  BY <1>2, <1>3, <1>4, <1>5, <1>6, <1>7, <1>8 DEF Next

(* An undamaged stream is at every moment the end of the text that was     *)
(* built, in the form it has, from the item that is due: what was read are *)
(* the items before it, each taken from the whole of what was written.     *)
THEOREM AlwaysLayout == Spec => []LayoutInv
<1>1. Init => WireInv /\ LayoutInv
  BY WireInitially, LaidInitially
<1>2. (WireInv /\ LayoutInv) /\ [Next]_vars => (WireInv /\ LayoutInv)'
  BY WireStep, LayoutStep
<1> QED
  BY <1>1, <1>2, PTL DEF Spec

(* The readings are numbered from one.                                     *)
LEMMA ReadingsAre ==
  ASSUME LayoutInv
  PROVE  Len(read) \in Nat /\ DOMAIN read = 1..Len(read)
BY DEF LayoutInv, ReadIsList

(* What is left to read is due.                                            *)
LEMMA MoreIsDue ==
  ASSUME LayoutInv, cut, mark = 0
  PROVE  Len(read) < Len(built)
<1>1. PICK whole, starts, s : AsBuilt(whole, starts, s)
  BY DEF LayoutInv
<1>2. PICK q \in Nat : SomeGone(q, whole, s)
  BY <1>1 DEF AsBuilt
<1>3. whole \in Seq(Plain) /\ s \in Nat /\ s <= Len(whole) /\ Len(built) \in Nat
  BY <1>1, StartIsPlace DEF LayoutInv
<1>4. Len(read) \in 0..Len(built) /\ s = starts[Len(read) + 1] /\ starts[Len(built) + 1] = Len(whole)
  BY <1>1 DEF AsBuilt, Laid
<1>5. Len(read) # Len(built)
  <2> SUFFICES ASSUME Len(read) = Len(built) PROVE FALSE
    OBVIOUS
  <2>1. s = Len(whole)
    BY <1>4
  <2>2. q < 3 * (s - s)
    BY <1>2, <2>1 DEF SomeGone
  <2> QED
    BY <1>3, <2>2
<1> QED
  BY <1>3, <1>4, <1>5

(* An undamaged stream is never refused, and yields what was written, in   *)
(* order, whichever form it has and however often it changed it.           *)
THEOREM AlwaysSoundReadsAsBuilt == Spec => []SoundReadsAsBuilt
<1>1. LayoutInv => SoundReadsAsBuilt
  <2> SUFFICES ASSUME LayoutInv, mark = 0
               PROVE  /\ \A i \in DOMAIN read : read[i].value = built[i].value
                      /\ ~cut => verdict = "Reading"
    BY DEF SoundReadsAsBuilt
  <2>1. PICK whole, starts, s : AsBuilt(whole, starts, s)
    BY DEF LayoutInv
  <2>2. DOMAIN read = 1..Len(read)
    BY ReadingsAre
  <2> QED
    BY <2>1, <2>2 DEF AsBuilt
<1> QED
  BY <1>1, AlwaysLayout, PTL

(* A stream that only ends too early is never read to its end, and in text *)
(* it is never taken for a malformed one, wherever it was cut.             *)
THEOREM AlwaysCutMeansMore == Spec => []CutMeansMore
<1>1. LayoutInv => CutMeansMore
  <2> SUFFICES ASSUME LayoutInv, cut, mark = 0
               PROVE  Len(read) < Len(built) /\ (form = "text" => verdict # "Malformed")
    BY DEF CutMeansMore
  <2>1. PICK whole, starts, s : AsBuilt(whole, starts, s)
    BY DEF LayoutInv
  <2>2. form = "text" => verdict # "Malformed"
    BY <2>1 DEF AsBuilt
  <2> QED
    BY <2>2, MoreIsDue
<1> QED
  BY <1>1, AlwaysLayout, PTL

(* What a reader accepts is written again as the span it was read from: of *)
(* an undamaged stream every reading, of a damaged one those that Canonical*)
(* does not let escape.                                                    *)
THEOREM AlwaysRewritesAlike == Spec => []RewritesAlike
<1>1. LayoutInv /\ AcceptedIsCanonical => RewritesAlike
  <2> SUFFICES ASSUME LayoutInv, AcceptedIsCanonical, NEW i \in DOMAIN read, Canonical(read[i])
               PROVE  read[i].span = Source(read[i])
    BY DEF RewritesAlike, Source
  <2>1. CASE mark = 0
    <3>1. PICK whole, starts, s : AsBuilt(whole, starts, s)
      BY <2>1 DEF LayoutInv
    <3>2. i \in 1..Len(read)
      BY ReadingsAre
    <3> QED
      BY <3>1, <3>2 DEF AsBuilt
  <2>2. CASE mark # 0
    BY <2>2 DEF AcceptedIsCanonical, Canonical
  <2> QED
    BY <2>1, <2>2
<1> QED
  BY <1>1, AlwaysLayout, AlwaysCanonical, PTL

-----------------------------------------------------------------------------
(* Damage. Where it struck is told by where the items stand.               *)

(* Every set of numbers that is not empty has a least one.                 *)
LEMMA LeastNumber ==
  ASSUME NEW T \in SUBSET Nat, T # {}
  PROVE  \E x \in T : \A y \in T : x <= y
<1> DEFINE R == OpToRel(<, Nat)
<1>1. IsWellFoundedOn(R, Nat)
  BY NatLessThanWellFounded
<1>2. \A x, y \in Nat : x < y => <<x, y>> \in R
  BY DEF OpToRel
<1> HIDE DEF R
<1>3. PICK x \in T : \A y \in T : ~(<<y, x>> \in R)
  BY <1>1, WFMin
<1>4. ASSUME NEW y \in T PROVE x <= y
  <2>1. x \in Nat /\ y \in Nat /\ ~(y < x)
    BY <1>2, <1>3
  <2> QED
    BY <2>1
<1> QED
  BY <1>4

\* No start is before an earlier one.
Ascending(starts, n) == \A i, j \in 1..(n + 1) : i <= j => starts[i] <= starts[j]

(* The items stand one behind the other.                                   *)
LEMMA StartsAscend ==
  ASSUME NEW items, NEW n \in Nat, n = Len(items), NEW whole, NEW starts, Laid(items, whole, starts)
  PROVE  Ascending(starts, n)
<1>1. /\ starts \in [1..(n + 1) -> 0..Len(whole)] /\ whole \in Seq(Plain)
      /\ \A i \in 1..n : IsItem(items[i]) /\ starts[i + 1] = starts[i] + Len(Written(items[i].value))
  BY DEF Laid
<1>2. \A i \in 1..(n + 1) : starts[i] \in Nat
  BY <1>1
<1>3. \A i \in 1..n : Len(Written(items[i].value)) \in Nat
  <2> SUFFICES ASSUME NEW i \in 1..n PROVE Len(Written(items[i].value)) \in Nat
    OBVIOUS
  <2>1. WrittenWell(items[i], Written(items[i].value))
    BY <1>1, ItemReads
  <2> QED
    BY <2>1 DEF WrittenWell
<1>4. \A i \in 1..n : i \in 1..(n + 1) /\ i + 1 \in 1..(n + 1)
  OBVIOUS
<1>5. \A i \in 1..n : starts[i] <= starts[i + 1]
  <2> SUFFICES ASSUME NEW i \in 1..n PROVE starts[i] <= starts[i + 1]
    OBVIOUS
  <2> DEFINE a == starts[i]
             b == starts[i + 1]
             w == Len(Written(items[i].value))
  <2>1. a \in Nat /\ w \in Nat /\ b = a + w
    BY <1>1, <1>2, <1>3, <1>4
  <2> HIDE DEF a, b, w
  <2>2. a <= b
    BY <2>1
  <2> QED
    BY <2>2 DEF a, b
<1>6. SUFFICES ASSUME NEW i \in 1..(n + 1) PROVE \A j \in 1..(n + 1) : i <= j => starts[i] <= starts[j]
  BY DEF Ascending
<1> DEFINE T == {j \in 1..(n + 1) : i <= j /\ ~(starts[i] <= starts[j])}
<1>7. T \in SUBSET Nat
  OBVIOUS
<1>8. T = {}
  <2> SUFFICES ASSUME T # {} PROVE FALSE
    OBVIOUS
  <2>1. PICK j \in T : \A k \in T : j <= k
    BY <1>7, LeastNumber
  <2>2. j \in 1..(n + 1) /\ i <= j /\ ~(starts[i] <= starts[j])
    OBVIOUS
  <2>3. j # i
    BY <1>2, <2>2
  <2> DEFINE k == j - 1
  <2>4. k \in 1..n /\ i <= k /\ k + 1 = j /\ ~(j <= k)
    BY <2>2, <2>3
  <2> HIDE DEF k
  <2>5. k \notin T
    BY <2>1, <2>4
  <2>6. starts[i] <= starts[k]
    BY <1>4, <2>4, <2>5
  <2>7. starts[k] <= starts[j]
    BY <1>5, <2>4
  <2>8. starts[i] \in Nat /\ starts[k] \in Nat /\ starts[j] \in Nat
    BY <1>2, <1>4, <2>2, <2>4
  <2> QED
    BY <2>2, <2>6, <2>7, <2>8
<1> QED
  BY <1>8

\* Lengths w added up, from nothing or from one on.
FromNothing(starts, w, n) ==
  /\ starts \in [1..(n + 1) -> Nat] /\ w \in [1..n -> Nat]
  /\ starts[1] = 0 /\ \A i \in 1..n : starts[i + 1] = starts[i] + w[i]

FromOne(f, w, n) == \A i \in 1..(n + 1) : f[i] = IF i = 1 THEN 1 ELSE f[i - 1] + w[i - 1]

OneMoreThan(f, starts, w, n) == \A i \in 1..(n + 1) : f[i] = starts[i] + 1

(* What adds up the items' lengths from one on is the place of each.       *)
LEMMA PlacesAre ==
  ASSUME NEW n \in Nat, NEW starts, NEW w, FromNothing(starts, w, n), NEW f, FromOne(f, w, n)
  PROVE  OneMoreThan(f, starts, w, n)
<1>0. /\ starts \in [1..(n + 1) -> Nat] /\ w \in [1..n -> Nat]
      /\ starts[1] = 0 /\ \A i \in 1..n : starts[i + 1] = starts[i] + w[i]
      /\ \A i \in 1..(n + 1) : f[i] = IF i = 1 THEN 1 ELSE f[i - 1] + w[i - 1]
  BY DEF FromNothing, FromOne
<1> DEFINE T == {i \in 1..(n + 1) : f[i] # starts[i] + 1}
<1>1. T \in SUBSET Nat
  OBVIOUS
<1>2. T = {}
  <2> SUFFICES ASSUME T # {} PROVE FALSE
    OBVIOUS
  <2>1. PICK j \in T : \A k \in T : j <= k
    BY <1>1, LeastNumber
  <2>2. j \in 1..(n + 1) /\ f[j] # starts[j] + 1
    OBVIOUS
  <2>3. j # 1
    BY <1>0, <2>2
  <2> DEFINE k == j - 1
  <2>4. k \in 1..n /\ k \in 1..(n + 1) /\ k + 1 = j /\ ~(j <= k)
    BY <2>2, <2>3
  <2>5. f[j] = f[k] + w[k]
    BY <1>0, <2>2, <2>3
  <2> HIDE DEF k
  <2>6. k \notin T
    BY <2>1, <2>4
  <2>7. f[k] = starts[k] + 1
    BY <2>4, <2>6
  <2>8. starts[j] = starts[k] + w[k]
    BY <1>0, <2>4
  <2>9. starts[k] \in Nat
    BY <1>0, <2>4
  <2>10. starts[j] \in Nat
    BY <1>0, <2>2
  <2>11. w[k] \in Nat
    BY <1>0, <2>4
  <2> QED
    BY <2>2, <2>5, <2>7, <2>8, <2>9, <2>10, <2>11
<1> QED
  BY <1>2 DEF OneMoreThan

(* The place of an item's first character is behind its start.             *)
LEMMA StartIs ==
  ASSUME NEW whole, NEW starts, Laid(built, whole, starts), NEW n \in Nat, n = Len(built), NEW i \in 1..(n + 1)
  PROVE  Start(i) = starts[i] + 1
<1> DEFINE w == [k \in 1..n |-> Len(Written(built[k].value))]
           G(f) == [k \in 1..(n + 1) |-> IF k = 1 THEN 1 ELSE f[k - 1] + Len(Written(built[k - 1].value))]
           g == [k \in 1..(n + 1) |-> starts[k] + 1]
<1>1. /\ whole \in Seq(Plain)
      /\ starts \in [1..(n + 1) -> 0..Len(whole)] /\ starts[1] = 0
      /\ \A k \in 1..n : starts[k + 1] = starts[k] + Len(Written(built[k].value))
  BY DEF Laid
<1>2. starts \in [1..(n + 1) -> Nat]
  BY <1>1
<1>3. ASSUME NEW k \in 1..(n + 1), k # 1
      PROVE  starts[k] + 1 = (starts[k - 1] + 1) + Len(Written(built[k - 1].value))
  <2> DEFINE j == k - 1
  <2>1. j \in 1..n /\ j + 1 = k /\ j \in 1..(n + 1)
    BY <1>3
  <2>2. starts[k] = starts[j] + Len(Written(built[j].value))
    BY <1>1, <2>1
  <2>3. starts[k] \in Nat /\ starts[j] \in Nat /\ Len(Written(built[j].value)) \in Nat
    <3>1. IsItem(built[j])
      BY <2>1 DEF Laid
    <3>2. WrittenWell(built[j], Written(built[j].value))
      BY <3>1, ItemReads
    <3>3. Len(Written(built[j].value)) \in Nat
      BY <3>2 DEF WrittenWell
    <3>4. starts[k] \in Nat /\ starts[j] \in Nat
      BY <1>2, <2>1
    <3> QED
      BY <3>3, <3>4
  <2> QED
    BY <2>2, <2>3
<1>4. g = G(g)
  <2>1. \A k \in 1..(n + 1) : k # 1 => k - 1 \in 1..(n + 1)
    OBVIOUS
  <2>2. \A k \in 1..(n + 1) : g[k] = IF k = 1 THEN 1 ELSE g[k - 1] + Len(Written(built[k - 1].value))
    BY <1>1, <1>3, <2>1
  <2> HIDE DEF g
  <2>3. DOMAIN g = 1..(n + 1) /\ g = [k \in DOMAIN g |-> g[k]]
    BY DEF g
  <2> QED
    BY <2>2, <2>3
<1> DEFINE f == CHOOSE f : f = G(f)
<1>5. f = G(f)
  <2> HIDE DEF G, g
  <2> QED
    BY <1>4
<1>6. Start(i) = f[i]
  BY DEF Start
<1> HIDE DEF f
<1>7. \A k \in 1..(n + 1) : f[k] = IF k = 1 THEN 1 ELSE f[k - 1] + w[k - 1]
  <2>1. \A k \in 1..(n + 1) : k # 1 => k - 1 \in 1..n
    OBVIOUS
  <2>2. \A k \in 1..(n + 1) : f[k] = IF k = 1 THEN 1 ELSE f[k - 1] + Len(Written(built[k - 1].value))
    BY <1>5
  <2> QED
    BY <2>1, <2>2
<1>8. \A k \in 1..n : starts[k + 1] = starts[k] + w[k]
  BY <1>1
<1>9. w \in [1..n -> Nat]
  <2> SUFFICES ASSUME NEW k \in 1..n PROVE Len(Written(built[k].value)) \in Nat
    OBVIOUS
  <2>1. IsItem(built[k])
    BY DEF Laid
  <2>2. WrittenWell(built[k], Written(built[k].value))
    BY <2>1, ItemReads
  <2> QED
    BY <2>2 DEF WrittenWell
<1>10. starts[1] = 0
  BY <1>1
<1> HIDE DEF w
<1>11. FromNothing(starts, w, n) /\ FromOne(f, w, n)
  BY <1>2, <1>7, <1>8, <1>9, <1>10 DEF FromNothing, FromOne
<1>12. OneMoreThan(f, starts, w, n)
  BY <1>11, PlacesAre
<1> QED
  BY <1>6, <1>12 DEF OneMoreThan

\* The text whole is orig but for its m-th character.
Struck(whole, orig, m) ==
  /\ whole \in Seq(Letters) /\ orig \in Seq(Plain)
  /\ Len(whole) = Len(orig) /\ m \in 1..Len(orig)
  /\ \A i \in 1..Len(orig) : i # m => whole[i] = orig[i]

Between(m, a, b) == a < m /\ m <= b

(* Where damage did not strike, the text is as it was.                     *)
LEMMA PieceStays ==
  ASSUME NEW whole, NEW orig, NEW m, Struck(whole, orig, m),
         NEW b \in 0..Len(orig), NEW a \in 0..b, ~Between(m, a, b)
  PROVE  Piece(whole, a, b) = Piece(orig, a, b)
<1> DEFINE u == Piece(whole, a, b)
           v == Piece(orig, a, b)
           S == Letters
           P == Plain
<1>1. /\ whole \in Seq(S) /\ orig \in Seq(P) /\ Len(whole) = Len(orig) /\ m \in 1..Len(orig)
      /\ \A i \in 1..Len(orig) : i # m => whole[i] = orig[i]
  BY DEF Struck
<1> HIDE DEF S, P
<1>2. IsPiece(u, S, whole, a, b) /\ IsPiece(v, P, orig, a, b)
  BY <1>1, PieceIs
<1> HIDE DEF u, v
<1>3. /\ u \in Seq(S) /\ v \in Seq(P) /\ Len(u) = b - a /\ Len(v) = b - a
      /\ \A i \in 1..(b - a) : u[i] = whole[a + i] /\ v[i] = orig[a + i]
  BY <1>2 DEF IsPiece
<1>4. ASSUME NEW i \in 1..(b - a) PROVE u[i] = v[i]
  <2>1. a + i \in 1..Len(orig) /\ a < a + i /\ a + i <= b
    BY <1>1
  <2>2. a + i # m
    BY <2>1 DEF Between
  <2> QED
    BY <1>1, <1>3, <2>1, <2>2
<1>5. u = v
  BY <1>3, <1>4
<1> QED
  BY <1>5 DEF u, v

\* Behind the n characters of an item's head, in what follows up to t.
InPayload(m, s, n, t) == s + n < m /\ m <= t

(* A character struck behind the head of an item leaves its head.          *)
LEMMA HeadStays ==
  ASSUME NEW whole, NEW orig, NEW m, Struck(whole, orig, m),
         NEW t \in 0..Len(orig), NEW s \in 0..t, NEW n \in Nat, InPayload(m, s, n, t),
         NEW e \in t..Len(orig)
  PROVE  InPayload(m, s, n, t) /\ SameHead(Piece(orig, s, t), Piece(whole, s, e), n)
<1> DEFINE u == Piece(whole, s, e)
           v == Piece(orig, s, t)
           S == Letters
           P == Plain
<1>1. /\ whole \in Seq(S) /\ orig \in Seq(P) /\ Len(whole) = Len(orig) /\ m \in 1..Len(orig)
      /\ \A i \in 1..Len(orig) : i # m => whole[i] = orig[i]
  BY DEF Struck
<1>2. n \in 0..(t - s) /\ s + n < m /\ e \in 0..Len(orig) /\ s \in 0..e /\ t <= e
  BY <1>1 DEF InPayload
<1> HIDE DEF S, P
<1>3. IsPiece(u, S, whole, s, e) /\ IsPiece(v, P, orig, s, t)
  BY <1>1, <1>2, PieceIs
<1> HIDE DEF u, v
<1>4. /\ Len(u) = e - s /\ Len(v) = t - s
      /\ \A i \in 1..(e - s) : u[i] = whole[s + i]
      /\ \A i \in 1..(t - s) : v[i] = orig[s + i]
  BY <1>3 DEF IsPiece
<1>5. ASSUME NEW i \in 1..n PROVE v[i] = u[i]
  <2>1. i \in 1..(t - s) /\ i \in 1..(e - s) /\ s + i \in 1..Len(orig) /\ s + i # m
    BY <1>1, <1>2
  <2> QED
    BY <1>1, <1>4, <2>1
<1>6. n <= Len(v) /\ n <= Len(u)
  BY <1>2, <1>4
<1> QED
  BY <1>5, <1>6 DEF SameHead, u, v

(* The head of a plain primitive decides its size.                         *)
LEMMA MatterHeadDecides ==
  ASSUME NEW S, NEW a \in Seq(S), NEW b \in Seq(S), ReadMatter(a).verdict = "Ok", ReadMatter(b).verdict = "Ok",
         SameHead(a, b, CodeSize(ReadMatter(a).value.code))
  PROVE  ReadMatter(b).size = ReadMatter(a).size
<1> DEFINE code == HeadOf(a)
           size == Sizage[code]
           hs == HardSize(a[1])
           cs == CodeChars(size)
           n == CodeSize(ReadMatter(a).value.code)
<1>1. /\ SizeFits(size) /\ size.hs = hs /\ ReadMatter(a).size = FullOf(size, a)
      /\ ReadMatter(a) = MatterIn(code, size, SubSeq(a, 1, FullOf(size, a)))
      /\ size.hs <= cs
  BY MatterReads, SpanReads
<1>2. ReadMatter(b).size = FullOf(Sizage[HeadOf(b)], b)
  BY SpanReads
<1>3. hs \in {1, 2, 4}
  <2>1. CodeAt(a).verdict = "Ok"
    BY MatterReads
  <2> QED
    BY <2>1, CodeReads
<1>4. ReadMatter(a).value.code = code
  <2> DEFINE span == SubSeq(a, 1, FullOf(size, a))
  <2>1. MatterIn(code, size, span).verdict = "Ok"
    BY <1>1
  <2> HIDE DEF span, code, size
  <2>2. MatterIn(code, size, span).value.code = code
    <3>1. Malformed.verdict # "Ok"
      BY Verdicts
    <3> QED
      BY <2>1, <3>1 DEF MatterIn, MatterOf
  <2> QED
    BY <1>1, <2>2 DEF span
<1>5. n = cs
  BY <1>4 DEF CodeSize
<1>6. cs \in Nat /\ size.hs + size.xs + 1 \in Nat \ {0} /\ size.hs + size.xs + 1 <= cs + 1
  BY <1>1, SoftStarts
<1>7. code = SubSeq(a, 1, hs)
  BY DEF HeadOf
<1> HIDE DEF code, n, cs
<1>8. SameHead(a, b, cs)
  BY <1>5 DEF n
<1>9. hs \in 0..cs
  <2> HIDE DEF hs, size
  <2> QED
    BY <1>1, <1>3, <1>6
<1>10. a[1] = b[1]
  <2>1. 1 \in 1..cs
    BY <1>3, <1>6, <1>9
  <2> QED
    BY <1>8, <2>1 DEF SameHead
<1>11. HeadOf(b) = code
  <2>1. 1 \in Nat \ {0} /\ 1 <= hs + 1
    BY <1>3
  <2>2. SubSeq(a, 1, hs) = SubSeq(b, 1, hs)
    BY <1>6, <1>8, <1>9, <2>1, SamePart, ZenonT(60)
  <2>3. HeadOf(b) = SubSeq(b, 1, hs)
    BY <1>10 DEF HeadOf
  <2> QED
    BY <1>7, <2>2, <2>3
<1>12. SoftOf(size, b) = SoftOf(size, a)
  <2> DEFINE first == size.hs + size.xs + 1
  <2>1. first \in Nat \ {0} /\ cs \in 0..cs /\ first <= cs + 1
    BY <1>6
  <2>2. SoftOf(size, a) = SubSeq(a, first, cs) /\ SoftOf(size, b) = SubSeq(b, first, cs)
    BY DEF SoftOf, cs
  <2> HIDE DEF first
  <2>3. SubSeq(a, first, cs) = SubSeq(b, first, cs)
    BY <1>6, <1>8, <2>1, SamePart, ZenonT(60)
  <2> QED
    BY <2>2, <2>3
<1>13. FullOf(size, b) = FullOf(size, a)
  BY <1>12 DEF FullOf
<1> QED
  BY <1>1, <1>2, <1>11, <1>13

(* And that of an indexed signature its size.                              *)
LEMMA IndexerHeadDecides ==
  ASSUME NEW S, NEW a \in Seq(S), NEW b \in Seq(S), ReadIndexer(a).verdict = "Ok", ReadIndexer(b).verdict = "Ok",
         NEW n, n = CodeChars(Xizage[ReadIndexer(a).value.code]), SameHead(a, b, n)
  PROVE  ReadIndexer(b).size = ReadIndexer(a).size
<1> DEFINE hs == IndexHardSize(a[1])
           code == SubSeq(a, 1, hs)
           size == Xizage[code]
           cs == CodeChars(size)
<1>1. /\ a # <<>> /\ hs \in {1, 2} /\ code \in IndexedSigCodes
      /\ ReadIndexer(a) = IndexerAt(code, size, a) /\ ReadIndexer(a).size = size.fs
  BY IndexerReads
<1>2. ReadIndexer(b).size = Xizage[SubSeq(b, 1, IndexHardSize(b[1]))].fs
  BY IndexerReads
<1>3. ReadIndexer(a).value.code = code
  <2> HIDE DEF code, size
  <2>1. IndexerAt(code, size, a).verdict = "Ok"
    BY <1>1
  <2>2. Malformed.verdict # "Ok" /\ NeedBytes.verdict # "Ok"
    BY Verdicts
  <2>3. IndexerAt(code, size, a).value.code = code
    BY <2>1, <2>2 DEF IndexerAt, IndexerOf
  <2> QED
    BY <1>1, <2>3
<1>4. cs \in {2, 4, 6, 8} /\ size.hs \in {1, 2}
  <2> HIDE DEF code
  <2> QED
    BY <1>1, XizageFits DEF CodeChars
<1>5. n = cs
  BY <1>3
<1> HIDE DEF code, cs
<1>6. n \in Nat /\ hs \in 0..n /\ 1 \in 1..n /\ 1 \in Nat \ {0} /\ 1 <= hs + 1
  <2> HIDE DEF hs
  <2> QED
    BY <1>1, <1>4, <1>5
<1>7. a[1] = b[1]
  BY <1>6 DEF SameHead
<1>8. SubSeq(a, 1, hs) = SubSeq(b, 1, hs)
  BY <1>6, SamePart, ZenonT(60)
<1> QED
  BY <1>1, <1>2, <1>7, <1>8 DEF code

(* What is read with the head of an item has the item's size.              *)
LEMMA HeadDecides ==
  ASSUME NEW item, IsItem(item), item.family \notin Versions, NEW W, W = Written(item.value),
         NEW S, NEW a \in Seq(S), W \in Seq(S), NEW n, n = HeadLength(item.value), SameHead(W, a, n),
         NEW o, o = ReadText(item.family, a), o.verdict = "Ok"
  PROVE  item.family \notin Versions /\ o.size = Len(W) /\ n = HeadLength(item.value)
<1> DEFINE v == item.value
           family == item.family
<1>1. ReadsBack(ReadText(family, W), W, v)
  BY ItemReads
<1>2. ReadText(family, W).verdict = "Ok" /\ ReadText(family, W).size = Len(W) /\ ReadText(family, W).value = v
  BY <1>1 DEF ReadsBack
<1>3. CASE family = "Siger"
  <2>1. IsIndexer(v)
    BY <1>3 DEF IsItem
  <2>2. v.kind = "Indexer"
    BY <2>1 DEF IsIndexer, IndexerOf
  <2>3. ReadText(family, W) = ReadIndexer(W) /\ o = ReadIndexer(a)
    BY <1>3 DEF ReadText
  <2>4. n = CodeChars(Xizage[ReadIndexer(W).value.code])
    BY <1>2, <2>2, <2>3 DEF HeadLength, CodeChars
  <2>5. ReadIndexer(a).size = ReadIndexer(W).size
    BY <1>2, <2>3, <2>4, IndexerHeadDecides
  <2> QED
    BY <1>2, <2>3, <2>5
<1>4. CASE family # "Siger"
  <2>1. IsMatter(v)
    BY <1>4 DEF IsItem, Versions
  <2>2. v.kind = "Matter"
    BY <2>1 DEF IsMatter, MatterOf
  <2>3. ReadText(family, W) = Typed(family, ReadMatter(W)) /\ o = Typed(family, ReadMatter(a))
    BY <1>4 DEF ReadText, Versions
  <2>4. Malformed.verdict # "Ok"
    BY Verdicts
  <2>5. ReadText(family, W) = ReadMatter(W) /\ o = ReadMatter(a)
    BY <1>2, <2>3, <2>4 DEF Typed
  <2>6. n = CodeSize(ReadMatter(W).value.code)
    BY <1>2, <2>2, <2>5 DEF HeadLength
  <2>7. ReadMatter(a).size = ReadMatter(W).size
    BY <1>2, <2>5, <2>6, MatterHeadDecides
  <2> QED
    BY <1>2, <2>5, <2>7
<1> QED
  BY <1>3, <1>4

(* A head is so many characters, and a version string is all head.         *)
LEMMA HeadIs ==
  ASSUME NEW item, IsItem(item)
  PROVE  /\ item.family \notin Versions => HeadLength(item.value) \in Nat
         /\ item.family \in Versions => HeadLength(item.value) = Len(Written(item.value))
<1> DEFINE v == item.value
<1>1. CASE item.family = "Siger"
  <2>1. v.kind = "Indexer" /\ v.code \in IndexedSigCodes
    BY <1>1 DEF IsItem, IsIndexer, IndexerOf
  <2>2. HeadLength(v) = CodeChars(Xizage[v.code])
    BY <2>1 DEF HeadLength, CodeChars
  <2>3. HeadLength(v) \in Nat
    <3> HIDE DEF v
    <3>1. CodeChars(Xizage[v.code]) \in {2, 4, 6, 8}
      BY <2>1, XizageFits DEF CodeChars
    <3> QED
      BY <2>2, <3>1
  <2> QED
    BY <1>1, <2>3 DEF Versions
<1>2. CASE item.family \in Versions
  <2>1. IsVersion(item.family, v)
    BY <1>2 DEF IsItem, Versions
  <2>2. v.kind \in {"V1", "V2"}
    BY <1>2, <2>1 DEF IsVersion, Versions, VersionString, VersionStringV2
  <2>3. HeadLength(v) = Len(Written(v))
    BY <2>2 DEF HeadLength
  <2> QED
    BY <1>2, <2>3
<1>3. CASE item.family # "Siger" /\ item.family \notin Versions
  <2>1. IsMatter(v)
    BY <1>3 DEF IsItem, Versions
  <2>2. v.kind = "Matter" /\ v.code \in MatterCodes
    BY <2>1 DEF IsMatter, MatterOf
  <2>3. HeadLength(v) = CodeChars(Sizage[v.code])
    BY <2>2 DEF HeadLength, CodeSize
  <2>4. SizeFits(Sizage[v.code])
    BY <2>2, SizageFits
  <2>5. CodeChars(Sizage[v.code]) \in Nat
    BY <2>4, SoftStarts
  <2> QED
    BY <1>3, <2>3, <2>5
<1> QED
  BY <1>1, <1>2, <1>3

(* A part of a piece is of what the piece is of.                           *)
LEMMA PartIsClean ==
  ASSUME NEW S, NEW whole \in Seq(S), NEW T, NEW b \in 0..Len(whole), NEW t \in 0..b, NEW s \in 0..t,
         Piece(whole, s, b) \in Seq(T)
  PROVE  Piece(whole, s, t) \in Seq(T)
<1> DEFINE p == Piece(whole, s, b)
           u == Piece(whole, s, t)
<1>1. s \in 0..b /\ t \in 0..Len(whole)
  OBVIOUS
<1>2. IsPiece(p, S, whole, s, b) /\ IsPiece(u, S, whole, s, t)
  BY <1>1, PieceIs
<1>3. p \in Seq(T)
  OBVIOUS
<1> HIDE DEF p, u
<1>4. \A j \in (s + 1)..b : whole[j] \in T
  BY <1>1, <1>2, <1>3, CleanWhole
<1>5. u \in Seq(S) /\ Len(u) = t - s /\ \A i \in 1..(t - s) : u[i] = whole[s + i]
  BY <1>2 DEF IsPiece
<1>6. \A i \in 1..(t - s) : s + i \in (s + 1)..b
  OBVIOUS
<1>7. \A i \in 1..Len(u) : u[i] \in T
  BY <1>4, <1>5, <1>6
<1>8. u \in Seq(T)
  BY <1>5, <1>7
<1> QED
  BY <1>8 DEF u

\* What an outcome leaves of a stream is all of the text from t on.
LeavesAll(rest, o, f, whole, t) ==
  \E r \in Nat : Left(SubSeq(rest, o.size + 1, Len(rest)), f, whole, t, r) /\ AllLeft(r, whole, t)

(* A primitive struck in its payload, if it is read, takes its own size.   *)
LEMMA StruckIsTaken ==
  ASSUME NEW item, IsItem(item), NEW W, W = Written(item.value), W \in Seq(Plain),
         NEW whole, NEW orig, NEW m, Struck(whole, orig, m),
         NEW L, L = Len(orig), NEW t \in 0..L, NEW s \in 0..t, Piece(orig, s, t) = W, t = s + Len(W),
         NEW n, n = HeadLength(item.value), InPayload(m, s, n, t),
         NEW f, NEW q, NEW rest, Left(rest, f, whole, s, q), AllLeft(q, whole, s),
         NEW o, o = ReadAs(f, item.family, rest), o.verdict = "Ok"
  PROVE  item = item /\ W = Written(item.value) /\ InPayload(m, s, n, t) /\ LeavesAll(rest, o, f, whole, t)
<1> DEFINE family == item.family
           S == Letters
           R == Piece(whole, s, L)
           w == Len(W)
           k == L - s
<1>1. whole \in Seq(S) /\ Len(whole) = L /\ L \in Nat /\ t \in Nat /\ s \in Nat /\ w \in Nat /\ s <= t /\ t <= L
      /\ Len(orig) = L /\ t \in 0..Len(orig) /\ L \in t..Len(orig)
  BY DEF Struck
<1>2. W \in Seq(S)
  <2>1. Plain \subseteq S
    BY DEF Plain, Letters
  <2> HIDE DEF S
  <2> QED
    BY <2>1
<1>3. family \notin Versions
  <2> SUFFICES ASSUME family \in Versions PROVE FALSE
    OBVIOUS
  <2>1. n = w
    BY HeadIs
  <2>2. m \in Nat
    BY DEF Struck
  <2>3. s + n < m /\ m <= t /\ t = s + w
    BY DEF InPayload
  <2> HIDE DEF w
  <2> QED
    BY <1>1, <2>1, <2>2, <2>3
<1>4. n \in Nat
  BY <1>3, HeadIs
<1>5. SameHead(W, R, n)
  <2>1. SameHead(Piece(orig, s, t), Piece(whole, s, L), n)
    BY <1>1, <1>4, HeadStays
  <2> QED
    BY <2>1
<1> HIDE DEF S
<1>6. R \in Seq(S) /\ Len(R) = k
  <2>1. IsPiece(R, S, whole, s, L)
    BY <1>1, PieceIs
  <2> QED
    BY <2>1 DEF IsPiece
<1> HIDE DEF R
<1>7. ASSUME NEW x, x = ReadText(family, R), x.verdict = "Ok"
      PROVE  x.size = w
  BY <1>2, <1>3, <1>5, <1>6, <1>7, HeadDecides
<1>8. CASE f = "text"
  <2>1. PICK e \in s..Len(whole) : rest = Piece(whole, s, e) /\ q = 3 * (e - s)
    BY <1>8 DEF Left
  <2>2. e = L
    BY <1>1, <2>1 DEF AllLeft
  <2>3. rest = R
    BY <2>1, <2>2 DEF R
  <2>4. o = ReadText(family, R)
    BY <1>8, <2>3 DEF ReadAs
  <2>5. o.size = w
    BY <1>7, <2>4
  <2> DEFINE l == Piece(R, w, k)
  <2>6. w \in 0..k /\ k \in 0..(L - s) /\ t = s + w /\ L = s + k /\ L \in 0..Len(whole) /\ s \in 0..L
    BY <1>1
  <2>7. R = Piece(whole, s, L)
    BY DEF R
  <2> HIDE DEF w, k
  <2>8. l = Piece(whole, t, L)
    BY <1>1, <2>6, <2>7, PieceOfPiece
  <2>9. SubSeq(rest, o.size + 1, Len(rest)) = Piece(whole, t, L)
    BY <1>6, <2>3, <2>5, <2>8 DEF Piece
  <2> DEFINE r == 3 * (L - t)
             after == SubSeq(rest, o.size + 1, Len(rest))
  <2>10. r \in Nat /\ L \in t..Len(whole) /\ AllLeft(r, whole, t)
    BY <1>1 DEF AllLeft
  <2>11. after = Piece(whole, t, L)
    BY <2>9
  <2> HIDE DEF after
  <2>12. Left(after, f, whole, t, r)
    BY <1>8, <2>10, <2>11 DEF Left
  <2> QED
    BY <2>10, <2>12 DEF LeavesAll, after
<1>9. CASE f # "text"
  <2>1. f = "binary"
    BY <1>9 DEF Left
  <2>2. PICK j \in Nat : BinaryLeft(rest, whole, s, j) /\ q = 4 * j
    BY <2>1 DEF Left
  <2>3. PICK e \in s..Len(whole) : \E M \in Nat :
           /\ e = s + 4 * M
           /\ Piece(whole, s, e) \in Seq(DOMAIN Sextet)
           /\ j \in 0..(3 * M)
           /\ rest = Piece(Bytes(Piece(whole, s, e)), 0, j)
    BY <2>2 DEF BinaryLeft
  <2>4. PICK M \in Nat :
           /\ e = s + 4 * M
           /\ Piece(whole, s, e) \in Seq(DOMAIN Sextet)
           /\ j \in 0..(3 * M)
           /\ rest = Piece(Bytes(Piece(whole, s, e)), 0, j)
    BY <2>3
  <2>5. e = L /\ j = 3 * M /\ k = 4 * M
    <3>1. 4 * j = 3 * (L - s)
      BY <1>1, <2>2 DEF AllLeft
    <3>2. e <= L /\ j <= 3 * M /\ j \in Nat
      BY <1>1, <2>4
    <3> QED
      BY <1>1, <2>4, <3>1, <3>2
  <2>6. R \in Seq(DOMAIN Sextet) /\ Len(R) = 4 * M
    BY <1>6, <2>4, <2>5 DEF R
  <2> DEFINE B == Bytes(R)
  <2>7. rest = Piece(B, 0, j)
    BY <2>4, <2>5 DEF R
  <2>8. B \in Seq(Byte) /\ Len(B) = j
    <3>1. e = s + 4 * M /\ e <= Len(whole) /\ R = Piece(whole, s, e) /\ whole \in Seq(S) /\ s \in Nat
          /\ R \in Seq(DOMAIN Sextet)
      <4>1. e = s + 4 * M /\ e <= Len(whole)
        BY <1>1, <2>4, <2>5
      <4>2. R = Piece(whole, s, e)
        BY <2>5 DEF R
      <4> QED
        BY <1>1, <2>6, <4>1, <4>2
    <3>2. Bytes(R) \in Seq(Byte) /\ Len(Bytes(R)) = 3 * M
      BY <3>1, QuadletPiece
    <3> QED
      BY <2>5, <3>2
  <2>9. rest = B
    <3> HIDE DEF B
    <3>1. Piece(B, 0, j) = SubSeq(B, 1, Len(B))
      BY <2>8 DEF Piece
    <3> QED
      BY <2>7, <2>8, <3>1, WholeIsPart
  <2>10. o = ReadBinary(family, Bytes(R))
    BY <2>1, <2>9 DEF ReadAs
  <2>11. SayTheSame(ReadText(family, R), ReadBinary(family, Bytes(R)))
    BY <1>3, <2>6, FamilyFormsAgree DEF Versions
  <2>12. ReadText(family, R).verdict = "Ok" /\ o.size * 4 = ReadText(family, R).size * 3
    BY <2>10, <2>11 DEF SayTheSame
  <2>13. ReadText(family, R).size = w
    BY <1>7, <2>12
  <2>14. PICK N \in Nat \ {0} : w = 4 * N
    BY <1>3, BinaryReads, SMTT(60)
  <2>15. o.size \in Nat
    <3>1. ReadBinary(family, Bytes(R)).verdict = "Ok"
      BY <2>10
    <3> QED
      BY <2>8, <2>10, BinarySizeIs
  <2>16. o.size = 3 * N
    <3>1. PICK z : z = o.size
      OBVIOUS
    <3>2. z * 4 = w * 3
      BY <2>12, <2>13, <3>1
    <3>3. z \in Nat
      BY <2>15, <3>1
    <3>4. z = 3 * N
      BY <2>14, <3>2, <3>3, SMTT(30)
    <3> QED
      BY <3>1, <3>4
  <2> DEFINE V == Piece(whole, s, t)
             size == 3 * N
             l == j - size
  <2>17. Quads(s, e, M) /\ Quads(s, t, N) /\ e <= Len(whole) /\ R = Piece(whole, s, e)
    <3>1. Quads(s, e, M)
      BY <2>4 DEF Quads
    <3>2. Quads(s, t, N)
      BY <1>1, <2>14 DEF Quads
    <3>3. e <= Len(whole)
      BY <2>4, SMTT(30)
    <3>4. R = Piece(whole, s, e)
      BY <2>5 DEF R
    <3> QED
      BY <3>1, <3>2, <3>3, <3>4
  <2>18. V \in Seq(DOMAIN Sextet)
    <3>1. L \in 0..Len(whole) /\ t \in 0..L /\ s \in 0..t /\ Piece(whole, s, L) \in Seq(DOMAIN Sextet)
      BY <1>1, <2>6 DEF R
    <3> QED
      BY <1>1, <3>1, PartIsClean
  <2>19. Thirds(j, l, size, M, N)
    <3>1. 4 * N <= 4 * M
      BY <1>1, <2>5, <2>14
    <3> QED
      BY <2>4, <2>5, <3>1 DEF Thirds
  <2>20. V = Piece(whole, s, t) /\ rest = Piece(Bytes(R), 0, j) /\ s \in Nat
    BY <1>1, <2>7
  <2>21. 4 * l = 3 * (L - t)
    BY <1>1, <2>5, <2>14
  <2> HIDE DEF V, size, l, B
  <2>22. /\ SameHead(Bytes(V), rest, size)
         /\ SubSeq(rest, 1, size) = Bytes(V)
         /\ l \in Nat /\ BinaryLeft(SubSeq(rest, size + 1, Len(rest)), whole, t, l)
    <3>1. /\ whole \in Seq(S) /\ s \in Nat /\ Quads(s, e, M) /\ e <= Len(whole)
          /\ R = Piece(whole, s, e) /\ R \in Seq(DOMAIN Sextet)
          /\ Quads(s, t, N) /\ V = Piece(whole, s, t) /\ V \in Seq(DOMAIN Sextet)
          /\ Thirds(j, l, size, M, N) /\ rest = Piece(Bytes(R), 0, j)
      BY <1>1, <2>6, <2>17, <2>18, <2>19, <2>20
    <3> QED
      BY <3>1, BytesAreTaken, SMTT(60)
  <2>23. o.size = size
    BY <2>16 DEF size
  <2> DEFINE r == 4 * l
             after == SubSeq(rest, o.size + 1, Len(rest))
  <2>24. r \in Nat /\ AllLeft(r, whole, t)
    BY <1>1, <2>21, <2>22 DEF AllLeft
  <2>25. BinaryLeft(after, whole, t, l)
    BY <2>22, <2>23
  <2> HIDE DEF after
  <2>26. Left(after, f, whole, t, r)
    BY <2>1, <2>22, <2>25 DEF Left
  <2> HIDE DEF r
  <2> QED
    BY <2>24, <2>26 DEF LeavesAll, after
<1> QED
  BY <1>8, <1>9

\* A damaged stream that is read in step: what is left is all of the text from
\* the item that is due on, and only at the struck item may the reader stop.
AsStruck(whole, starts, s, hit) ==
  /\ Len(read) \in 0..Len(built) /\ s = starts[Len(read) + 1]
  /\ \A i \in 1..Len(read) : i # hit => read[i].value = built[i].value
  /\ \E q \in Nat : Left(wire, form, whole, s, q) /\ AllLeft(q, whole, s)
  /\ verdict # "Reading" => Len(read) + 1 = hit

\* One whose head was struck may be read at another size, and all that follows
\* it out of step.
Astray(starts, hit) ==
  /\ ~InPayload(mark, starts[hit], HeadLength(built[hit].value), starts[hit + 1])
  /\ hit <= Len(read)
  /\ \A i \in 1..Len(read) : i < hit => read[i].value = built[i].value

Hit(starts, hit) == Between(mark, starts[hit], starts[hit + 1])

DamagedAs(whole, orig, starts) ==
  /\ Laid(built, orig, starts) /\ InQuadlets(built, starts) /\ Struck(whole, orig, mark)
  /\ \A hit \in 1..Len(built) :
       Hit(starts, hit) => (\E s : AsStruck(whole, starts, s, hit)) \/ Astray(starts, hit)

DamageInv == mark # 0 => \E whole, orig, starts : DamagedAs(whole, orig, starts)

(* A stream that is struck had not been read, and is in step.              *)
LEMMA AlterStrikes ==
  ASSUME WireInv, LayoutInv, NEW place \in 1..Len(wire), NEW c \in Marks, Alter(place, c)
  PROVE  DamageInv'
<1> DEFINE S == Letters
<1>0. PICK whole : whole = [wire EXCEPT ![place] = c]
  OBVIOUS
<1>1. /\ mark = 0 /\ ~cut /\ read = <<>> /\ verdict = "Reading" /\ form = "text"
      /\ wire' = whole /\ mark' = place
      /\ built' = built /\ form' = form /\ cut' = cut /\ read' = read /\ verdict' = verdict
  BY <1>0 DEF Alter, Fresh
<1>2. PICK orig, starts, s : AsBuilt(orig, starts, s)
  BY <1>1 DEF LayoutInv
<1>3. /\ Laid(built, orig, starts) /\ InQuadlets(built, starts) /\ s = starts[Len(read) + 1]
      /\ \E q \in Nat : Left(wire, form, orig, s, q) /\ AllLeft(q, orig, s)
  BY <1>1, <1>2 DEF AsBuilt
<1>4. Len(read) = 0 /\ s = 0 /\ orig \in Seq(Plain)
  BY <1>1, <1>3 DEF Laid
<1>5. PICK q \in Nat : Left(wire, form, orig, s, q) /\ AllLeft(q, orig, s)
  BY <1>3
<1>6. wire = orig
  <2>1. PICK e \in s..Len(orig) : wire = Piece(orig, s, e) /\ q = 3 * (e - s)
    BY <1>1, <1>5 DEF Left
  <2>2. e = Len(orig)
    BY <1>4, <1>5, <2>1 DEF AllLeft
  <2>3. wire = SubSeq(orig, 1, Len(orig))
    BY <1>4, <2>1, <2>2 DEF Piece
  <2> QED
    BY <1>4, <2>3, WholeIsPart
<1>7. c \in S /\ wire \in Seq(S)
  BY <1>1 DEF WireInv, Letters
<1> HIDE DEF S
<1>8. PICK L : L = Len(wire)
  OBVIOUS
<1>13. whole \in Seq(S) /\ Len(whole) = L /\ \A i \in 1..L : i # place => whole[i] = wire[i]
  BY <1>0, <1>7, <1>8
<1>9. Struck(whole, orig, place)
  BY <1>4, <1>6, <1>8, <1>13 DEF Struck, S
<1>10. Left(whole, "text", whole, s, 3 * L) /\ AllLeft(3 * L, whole, s) /\ 3 * L \in Nat
  <2>1. L \in Nat
    BY <1>7, <1>8
  <2>2. L \in s..Len(whole) /\ 3 * L = 3 * (L - s) /\ 3 * L = 3 * (Len(whole) - s)
    BY <1>4, <1>13, <2>1
  <2>3. whole = Piece(whole, s, L)
    <3>1. Piece(whole, s, L) = SubSeq(whole, 1, Len(whole))
      BY <1>4, <1>13 DEF Piece
    <3> QED
      BY <1>13, <3>1, WholeIsPart
  <2> QED
    BY <2>1, <2>2, <2>3 DEF Left, AllLeft
<1>11. ASSUME NEW hit PROVE AsStruck(whole, starts, s, hit)'
  <2>1. Len(read') = 0 /\ Len(built') \in Nat
    BY <1>1, <1>4 DEF LayoutInv, BuiltIsList
  <2>2. Len(read') \in 0..Len(built') /\ s = starts[Len(read') + 1]
    BY <1>1, <1>3, <2>1
  <2>3. Left(wire', form', whole, s, 3 * L) /\ AllLeft(3 * L, whole, s) /\ 3 * L \in Nat
    BY <1>1, <1>10
  <2>4. \A i \in 1..Len(read') : FALSE
    BY <2>1
  <2>5. verdict' = "Reading"
    BY <1>1
  <2> QED
    BY <2>2, <2>3, <2>4, <2>5 DEF AsStruck
<1>12. DamagedAs(whole, orig, starts)'
  <2>1. Laid(built', orig, starts) /\ InQuadlets(built', starts) /\ Struck(whole, orig, mark')
    BY <1>1, <1>3, <1>9
  <2>2. \A hit \in 1..Len(built') : Hit(starts, hit)' =>
          (\E x : AsStruck(whole, starts, x, hit)') \/ Astray(starts, hit)'
    BY <1>11
  <2> QED
    BY <2>1, <2>2 DEF DamagedAs
<1> QED
  BY <1>12 DEF DamageInv

(* What is left when an item that was not struck is read.                  *)
LEMMA ReadOther ==
  ASSUME LayoutInv, Read, NEW whole, NEW orig, NEW starts,
         Laid(built, orig, starts), InQuadlets(built, starts), Struck(whole, orig, mark),
         NEW hit \in 1..Len(built), Hit(starts, hit), NEW s, AsStruck(whole, starts, s, hit),
         Len(read) + 1 # hit
  PROVE  Outcome.verdict = "Ok" /\ Outcome.value = built[Len(read) + 1].value
         /\ LeavesAll(wire, Outcome, form, whole, starts[(Len(read) + 1) + 1])
<1>1. /\ verdict = "Reading" /\ Len(read) < Len(built)
  BY DEF Read
<1>2. PICK n : n = Len(built)
  OBVIOUS
<1>3. PICK k : k = Len(read) + 1
  OBVIOUS
<1>4. /\ Len(read) \in 0..Len(built) /\ s = starts[k]
      /\ \E q \in Nat : Left(wire, form, whole, s, q) /\ AllLeft(q, whole, s)
  BY <1>3 DEF AsStruck
<1>5. n \in Nat /\ k \in 1..n /\ hit \in 1..n /\ k # hit
  BY <1>1, <1>2, <1>3, <1>4 DEF LayoutInv, BuiltIsList
<1>6. PICK q \in Nat : Left(wire, form, whole, s, q) /\ AllLeft(q, whole, s)
  BY <1>4
<1>7. PICK item : item = built[k]
  OBVIOUS
<1>8. PICK W : W = Written(item.value)
  OBVIOUS
<1>9. PICK t : t = starts[k + 1]
  OBVIOUS
<1>10. PICK L : L = Len(orig)
  OBVIOUS
<1>11. /\ IsItem(item) /\ WrittenWell(item, W) /\ W \in Seq(Plain)
       /\ t \in 0..Len(orig) /\ s \in 0..t /\ t = s + Len(W) /\ Piece(orig, s, t) = W
  BY <1>2, <1>4, <1>5, <1>7, <1>8, <1>9, ItemStands, SMTT(60)
<1>12. whole \in Seq(Letters) /\ Len(whole) = L /\ L \in Nat /\ mark \in 1..L
  BY <1>10 DEF Struck
<1>13. ~Between(mark, s, t)
  <2>1. Ascending(starts, n)
    BY <1>2, <1>5, StartsAscend
  <2>2. starts \in [1..(n + 1) -> 0..L]
    BY <1>2, <1>10 DEF Laid
  <2>3. starts[hit] < mark /\ mark <= starts[hit + 1]
    BY DEF Hit, Between
  <2>4. CASE k < hit
    <3>1. k + 1 \in 1..(n + 1) /\ hit \in 1..(n + 1) /\ k + 1 <= hit
      BY <1>5, <2>4
    <3>2. t <= starts[hit]
      BY <1>9, <2>1, <3>1 DEF Ascending
    <3>3. t \in Nat /\ starts[hit] \in Nat
      BY <1>9, <2>2, <3>1
    <3> QED
      BY <1>12, <2>3, <3>2, <3>3 DEF Between
  <2>5. CASE hit < k
    <3>1. hit + 1 \in 1..(n + 1) /\ k \in 1..(n + 1) /\ hit + 1 <= k
      BY <1>5, <2>5
    <3>2. starts[hit + 1] <= s
      BY <1>4, <2>1, <3>1 DEF Ascending
    <3>3. s \in Nat /\ starts[hit + 1] \in Nat
      BY <1>4, <2>2, <3>1
    <3> QED
      BY <1>12, <2>3, <3>2, <3>3 DEF Between
  <2> QED
    BY <1>5, <2>4, <2>5
<1>14. Piece(whole, s, t) = W
  BY <1>11, <1>13, PieceStays
<1>15. W \in Seq(Letters)
  <2>1. Plain \subseteq Letters
    BY DEF Plain, Letters
  <2> QED
    BY <1>11, <2>1
<1>16. form = "text" \/ item.family \notin Versions
  <2> SUFFICES ASSUME form # "text", item.family \in Versions PROVE FALSE
    OBVIOUS
  <2>1. form = "binary"
    BY <1>6 DEF Left
  <2>2. OneVersion(built) /\ starts[n + 1] = L
    BY <1>2, <1>10 DEF LayoutInv, Laid
  <2>3. built[k].family \in Versions /\ WrittenWell(built[k], W)
    BY <1>7, <1>11
  <2>4. L = Len(whole) /\ t \in 0..L /\ s \in 0..t /\ s = starts[k] /\ t = s + Len(W)
    BY <1>4, <1>10, <1>11, <1>12
  <2>5. ~Left(wire, "binary", whole, s, q)
    BY <1>2, <1>5, <1>6, <1>12, <1>14, <2>2, <2>3, <2>4, VersionIsAhead
  <2> QED
    BY <1>6, <2>1, <2>5
<1>17. PICK o : o = Outcome
  OBVIOUS
<1>18. o = ReadAs(form, item.family, wire)
  BY <1>3, <1>7, <1>17 DEF Outcome, ReadAs, Expected
<1>19. Taken(o, item, wire, form, whole, s, t, q)
  <2>1. t \in 0..Len(whole) /\ s \in 0..t
    BY <1>10, <1>11, <1>12
  <2> QED
    BY <1>6, <1>8, <1>11, <1>12, <1>14, <1>15, <1>16, <1>18, <2>1, LeftIsTaken
<1>20. t \in Nat /\ s \in Nat /\ t \in 0..Len(whole) /\ Len(whole) \in Nat
  BY <1>10, <1>11, <1>12
<1>21. 3 * (t - s) <= q
  <2>1. ~(q < 3 * (t - s))
    BY <1>6, <1>20, AllIsEnough
  <2> QED
    BY <1>20, <2>1
<1> DEFINE after == SubSeq(wire, o.size + 1, Len(wire))
<1>22. /\ o.verdict = "Ok" /\ o.value = item.value
       /\ \E r \in Nat : r = q - 3 * (t - s) /\ Left(after, form, whole, t, r)
  BY <1>19, <1>21 DEF Taken
<1> HIDE DEF after
<1>23. PICK r \in Nat : r = q - 3 * (t - s) /\ Left(after, form, whole, t, r)
  BY <1>22
<1>24. AllLeft(r, whole, t)
  BY <1>6, <1>20, <1>23, LeftAfter
<1>25. LeavesAll(wire, o, form, whole, t)
  BY <1>23, <1>24 DEF LeavesAll, after
<1> QED
  BY <1>3, <1>7, <1>9, <1>17, <1>22, <1>25

\* One more reading, of the value v, after those there were.
ReadsOneMore(before, after, v) ==
  /\ Len(before) \in Nat /\ Len(after) = Len(before) + 1
  /\ \A i \in 1..Len(before) : after[i] = before[i]
  /\ after[Len(before) + 1].value = v

(* What a reading that is taken does to the stream.                        *)
LEMMA ReadAdds ==
  ASSUME LayoutInv, Read, Outcome.verdict = "Ok"
  PROVE  /\ ReadsOneMore(read, read', Outcome.value)
         /\ wire' = SubSeq(wire, Outcome.size + 1, Len(wire))
         /\ built' = built /\ form' = form /\ mark' = mark /\ verdict' = verdict /\ verdict = "Reading"
<1> DEFINE x == [value |-> Outcome.value, form |-> form, span |-> SubSeq(wire, 1, Outcome.size)]
<1>1. /\ read' = Append(read, x) /\ wire' = SubSeq(wire, Outcome.size + 1, Len(wire))
      /\ built' = built /\ form' = form /\ mark' = mark /\ verdict' = verdict /\ verdict = "Reading"
  BY DEF Read, Take
<1>2. x.value = Outcome.value
  OBVIOUS
<1> HIDE DEF x
<1>3. PICK S : read \in Seq(S)
  BY DEF LayoutInv, ReadIsList
<1>4. /\ Len(Append(read, x)) = Len(read) + 1
      /\ \A i \in 1..Len(read) : Append(read, x)[i] = read[i]
      /\ Append(read, x)[Len(read) + 1] = x
  BY <1>3, OneMore
<1>5. Len(read) \in Nat
  BY <1>3
<1>6. ReadsOneMore(read, read', Outcome.value)
  BY <1>1, <1>2, <1>4, <1>5 DEF ReadsOneMore
<1> QED
  BY <1>1, <1>6

(* And one that is not: it ends the reading.                               *)
LEMMA ReadEnds ==
  ASSUME Read, Outcome.verdict # "Ok"
  PROVE  /\ read' = read /\ wire' = wire
         /\ built' = built /\ form' = form /\ mark' = mark /\ verdict = "Reading"
BY DEF Read, Take

(* A reader in step that takes the value due stays in step, whether the    *)
(* value is the one that was built or the item was the struck one.         *)
LEMMA InStep ==
  ASSUME LayoutInv, NEW whole, NEW starts, NEW s, NEW hit, AsStruck(whole, starts, s, hit),
         verdict = "Reading", verdict' = verdict, built' = built, form' = form,
         Len(read) < Len(built), NEW v, ReadsOneMore(read, read', v),
         Len(read) + 1 # hit => v = built[Len(read) + 1].value,
         NEW t, t = starts[(Len(read) + 1) + 1],
         NEW r \in Nat, Left(wire', form, whole, t, r), AllLeft(r, whole, t)
  PROVE  AsStruck(whole, starts, t, hit)'
<1>1. PICK k : k = Len(read) + 1
  OBVIOUS
<1>2. /\ Len(read) \in Nat /\ Len(read') = k
      /\ \A i \in 1..Len(read) : read'[i] = read[i]
      /\ read'[k].value = v
  BY <1>1 DEF ReadsOneMore
<1>3. \A i \in 1..Len(read) : i # hit => read[i].value = built[i].value
  BY DEF AsStruck
<1>4. \A i \in 1..k : i \in 1..Len(read) \/ i = k
  BY <1>1, <1>2
<1>5. \A i \in 1..Len(read') : i # hit => read'[i].value = built'[i].value
  BY <1>1, <1>2, <1>3, <1>4
<1>6. Len(read') \in 0..Len(built') /\ t = starts[Len(read') + 1]
  <2>1. Len(built) \in Nat
    BY DEF LayoutInv, BuiltIsList
  <2>2. k \in 0..Len(built)
    BY <1>1, <1>2, <2>1
  <2> QED
    BY <1>1, <1>2, <2>2
<1>7. \E j \in Nat : Left(wire', form', whole, t, j) /\ AllLeft(j, whole, t)
  OBVIOUS
<1>8. verdict' = "Reading"
  OBVIOUS
<1> QED
  BY <1>5, <1>6, <1>7, <1>8 DEF AsStruck

(* Reading on in step: at the struck item the reader stops, takes it at    *)
(* its own size, or, if its head was struck, goes astray.                  *)
LEMMA ReadStruck ==
  ASSUME LayoutInv, Read, NEW whole, NEW orig, NEW starts,
         Laid(built, orig, starts), InQuadlets(built, starts), Struck(whole, orig, mark),
         NEW hit \in 1..Len(built), Hit(starts, hit), NEW s, AsStruck(whole, starts, s, hit)
  PROVE  (\E x : AsStruck(whole, starts, x, hit)') \/ Astray(starts, hit)'
<1>1. verdict = "Reading" /\ Len(read) < Len(built)
  BY DEF Read
<1>2. Len(read) \in Nat /\ Len(built) \in Nat
  BY DEF LayoutInv, BuiltIsList, ReadIsList
<1>3. CASE Len(read) + 1 # hit
  <2>1. Outcome.verdict = "Ok" /\ Outcome.value = built[Len(read) + 1].value
        /\ LeavesAll(wire, Outcome, form, whole, starts[(Len(read) + 1) + 1])
    BY <1>3, ReadOther
  <2>2. PICK t : t = starts[(Len(read) + 1) + 1]
    OBVIOUS
  <2>3. PICK v : v = Outcome.value
    OBVIOUS
  <2>4. /\ ReadsOneMore(read, read', v) /\ wire' = SubSeq(wire, Outcome.size + 1, Len(wire))
        /\ built' = built /\ form' = form /\ verdict' = verdict
    BY <2>1, <2>3, ReadAdds
  <2>5. PICK r \in Nat : Left(wire', form, whole, t, r) /\ AllLeft(r, whole, t)
    BY <2>1, <2>2, <2>4 DEF LeavesAll
  <2>6. AsStruck(whole, starts, t, hit)'
    BY <1>1, <2>1, <2>2, <2>3, <2>4, <2>5, InStep
  <2> QED
    BY <2>6
<1>4. CASE Len(read) + 1 = hit /\ Outcome.verdict # "Ok"
  <2>1. /\ read' = read /\ wire' = wire /\ built' = built /\ form' = form
    BY <1>4, ReadEnds
  <2>2. /\ Len(read') \in 0..Len(built') /\ s = starts[Len(read') + 1]
        /\ \A i \in 1..Len(read') : i # hit => read'[i].value = built'[i].value
        /\ \E q \in Nat : Left(wire', form', whole, s, q) /\ AllLeft(q, whole, s)
    BY <2>1 DEF AsStruck
  <2>3. Len(read') + 1 = hit
    BY <1>4, <2>1
  <2>4. AsStruck(whole, starts, s, hit)'
    BY <2>2, <2>3 DEF AsStruck
  <2> QED
    BY <2>4
<1> DEFINE Payload == InPayload(mark, starts[hit], HeadLength(built[hit].value), starts[hit + 1])
<1>5. CASE Len(read) + 1 = hit /\ Outcome.verdict = "Ok" /\ ~Payload
  <2>1. PICK v : v = Outcome.value
    OBVIOUS
  <2>2. /\ ReadsOneMore(read, read', v)
        /\ built' = built /\ mark' = mark
    BY <1>5, <2>1, ReadAdds
  <2>3. Len(read') = hit /\ \A i \in 1..Len(read) : read'[i] = read[i]
    BY <1>5, <2>2 DEF ReadsOneMore
  <2>4. \A i \in 1..Len(read') : i < hit => i \in 1..Len(read) /\ i # hit
    BY <1>2, <1>5, <2>3
  <2>5. \A i \in 1..Len(read') : i < hit => read'[i].value = built'[i].value
    BY <2>2, <2>3, <2>4 DEF AsStruck
  <2>6. hit <= Len(read')
    BY <2>3
  <2>7. ~InPayload(mark', starts[hit], HeadLength(built'[hit].value), starts[hit + 1])
    BY <1>5, <2>2
  <2>8. Astray(starts, hit)'
    <3> HIDE DEF Payload
    <3> QED
      BY <2>5, <2>6, <2>7 DEF Astray
  <2> QED
    BY <2>8
<1>6. CASE Len(read) + 1 = hit /\ Outcome.verdict = "Ok" /\ Payload
  <2>1. PICK item : item = built[hit]
    OBVIOUS
  <2>2. PICK W : W = Written(item.value)
    OBVIOUS
  <2>3. PICK n : n = HeadLength(item.value)
    OBVIOUS
  <2>4. PICK t : t = starts[hit + 1]
    OBVIOUS
  <2>5. PICK L : L = Len(orig)
    OBVIOUS
  <2>6. PICK o : o = Outcome
    OBVIOUS
  <2>7. s = starts[hit] /\ \E q \in Nat : Left(wire, form, whole, s, q) /\ AllLeft(q, whole, s)
    BY <1>6 DEF AsStruck
  <2>8. PICK q \in Nat : Left(wire, form, whole, s, q) /\ AllLeft(q, whole, s)
    BY <2>7
  <2>9. PICK m : m = Len(built)
    OBVIOUS
  <2>10. /\ IsItem(item) /\ W \in Seq(Plain)
         /\ t \in 0..L /\ s \in 0..t /\ t = s + Len(W) /\ Piece(orig, s, t) = W
    <3>1. m \in Nat /\ hit \in 1..m
      BY <1>2, <2>9
    <3> QED
      BY <2>1, <2>2, <2>4, <2>5, <2>7, <2>9, <3>1, ItemStands, SMTT(60)
  <2>11. InPayload(mark, s, n, t)
    BY <1>6, <2>1, <2>3, <2>4, <2>7
  <2>12. o = ReadAs(form, item.family, wire) /\ o.verdict = "Ok"
    BY <1>6, <2>1, <2>6 DEF Outcome, ReadAs, Expected
  <2>13. LeavesAll(wire, o, form, whole, t)
    BY <2>2, <2>3, <2>5, <2>8, <2>10, <2>11, <2>12, StruckIsTaken
  <2>14. PICK v : v = o.value
    OBVIOUS
  <2>15. /\ ReadsOneMore(read, read', v) /\ wire' = SubSeq(wire, o.size + 1, Len(wire))
         /\ built' = built /\ form' = form /\ verdict' = verdict
    BY <1>6, <2>6, <2>14, ReadAdds
  <2>16. PICK r \in Nat : Left(wire', form, whole, t, r) /\ AllLeft(r, whole, t)
    BY <2>13, <2>15 DEF LeavesAll
  <2>17. t = starts[(Len(read) + 1) + 1] /\ (Len(read) + 1 # hit => v = built[Len(read) + 1].value)
    BY <1>6, <2>4
  <2>18. AsStruck(whole, starts, t, hit)'
    BY <1>1, <2>15, <2>16, <2>17, InStep
  <2> QED
    BY <2>18
<1> QED
  BY <1>3, <1>4, <1>5, <1>6

(* What was read before the struck item stays as it was built.             *)
LEMMA ReadAstray ==
  ASSUME LayoutInv, Read, NEW starts, NEW hit \in 1..Len(built), Astray(starts, hit)
  PROVE  Astray(starts, hit)'
<1>1. Len(read) \in Nat /\ Len(built) \in Nat
  BY DEF LayoutInv, BuiltIsList, ReadIsList
<1>2. /\ ~InPayload(mark, starts[hit], HeadLength(built[hit].value), starts[hit + 1])
      /\ hit <= Len(read)
      /\ \A i \in 1..Len(read) : i < hit => read[i].value = built[i].value
  BY DEF Astray
<1>3. CASE Outcome.verdict # "Ok"
  <2>1. read' = read /\ built' = built /\ mark' = mark
    BY <1>3, ReadEnds
  <2> QED
    BY <1>2, <2>1 DEF Astray
<1>4. CASE Outcome.verdict = "Ok"
  <2>1. PICK v : v = Outcome.value
    OBVIOUS
  <2>2. ReadsOneMore(read, read', v) /\ built' = built /\ mark' = mark
    BY <1>4, <2>1, ReadAdds
  <2>3. Len(read') = Len(read) + 1 /\ \A i \in 1..Len(read) : read'[i] = read[i]
    BY <2>2 DEF ReadsOneMore
  <2>4. hit <= Len(read') /\ \A i \in 1..Len(read') : i < hit => i \in 1..Len(read)
    BY <1>1, <1>2, <2>3
  <2>5. \A i \in 1..Len(read') : i < hit => read'[i].value = built'[i].value
    BY <1>2, <2>2, <2>3, <2>4
  <2>6. ~InPayload(mark', starts[hit], HeadLength(built'[hit].value), starts[hit + 1])
    BY <1>2, <2>2
  <2> QED
    BY <2>4, <2>5, <2>6 DEF Astray
<1> QED
  BY <1>3, <1>4

(* Reading keeps the damage where it is known to be.                       *)
LEMMA DamageRead ==
  ASSUME LayoutInv, DamageInv, Read
  PROVE  DamageInv'
<1>1. built' = built /\ mark' = mark
  BY DEF Read
<1>2. CASE mark = 0
  BY <1>1, <1>2 DEF DamageInv
<1>3. CASE mark # 0
  <2>1. PICK whole, orig, starts : DamagedAs(whole, orig, starts)
    BY <1>3 DEF DamageInv
  <2>2. /\ Laid(built, orig, starts) /\ InQuadlets(built, starts) /\ Struck(whole, orig, mark)
        /\ \A hit \in 1..Len(built) :
             Hit(starts, hit) => (\E s : AsStruck(whole, starts, s, hit)) \/ Astray(starts, hit)
    BY <2>1 DEF DamagedAs
  <2>3. ASSUME NEW hit \in 1..Len(built'), Hit(starts, hit)'
        PROVE  (\E x : AsStruck(whole, starts, x, hit)') \/ Astray(starts, hit)'
    <3>1. hit \in 1..Len(built) /\ Hit(starts, hit)
      BY <1>1, <2>3 DEF Hit
    <3>2. CASE Astray(starts, hit)
      BY <3>1, <3>2, ReadAstray
    <3>3. CASE \E s : AsStruck(whole, starts, s, hit)
      <4>1. PICK s : AsStruck(whole, starts, s, hit)
        BY <3>3
      <4> QED
        BY <2>2, <3>1, <4>1, ReadStruck
    <3> QED
      BY <2>2, <3>1, <3>2, <3>3
  <2>4. Laid(built', orig, starts) /\ InQuadlets(built', starts) /\ Struck(whole, orig, mark')
    BY <1>1, <2>2
  <2>5. DamagedAs(whole, orig, starts)'
    BY <2>3, <2>4 DEF DamagedAs
  <2> QED
    BY <2>5 DEF DamageInv
<1> QED
  BY <1>2, <1>3

\* What is left says the same after a step as before.
SaysStill(rest, f, after, g) ==
  \A whole \in Seq(Letters), s \in Nat, q \in Nat : Left(rest, f, whole, s, q) => Left(after, g, whole, s, q)

(* So does a step that only changes the form.                              *)
LEMMA DamageStays ==
  ASSUME LayoutInv, DamageInv, built' = built, mark' = mark, read' = read, verdict' = verdict,
         SaysStill(wire, form, wire', form')
  PROVE  DamageInv'
<1>1. CASE mark = 0
  BY <1>1 DEF DamageInv
<1>2. CASE mark # 0
  <2>1. PICK whole, orig, starts : DamagedAs(whole, orig, starts)
    BY <1>2 DEF DamageInv
  <2>2. /\ Laid(built, orig, starts) /\ InQuadlets(built, starts) /\ Struck(whole, orig, mark)
        /\ \A hit \in 1..Len(built) :
             Hit(starts, hit) => (\E s : AsStruck(whole, starts, s, hit)) \/ Astray(starts, hit)
    BY <2>1 DEF DamagedAs
  <2>3. whole \in Seq(Letters) /\ orig \in Seq(Plain)
    BY <2>2 DEF Struck
  <2>4. ASSUME NEW hit, NEW s, AsStruck(whole, starts, s, hit)
        PROVE  AsStruck(whole, starts, s, hit)'
    <3>1. /\ Len(read) \in 0..Len(built) /\ s = starts[Len(read) + 1]
          /\ \A i \in 1..Len(read) : i # hit => read[i].value = built[i].value
          /\ verdict # "Reading" => Len(read) + 1 = hit
      BY <2>4 DEF AsStruck
    <3>2. PICK q \in Nat : Left(wire, form, whole, s, q) /\ AllLeft(q, whole, s)
      BY <2>4 DEF AsStruck
    <3>3. s \in Nat
      <4>1. Len(orig) \in Nat /\ Len(built) \in Nat
        BY <2>3 DEF LayoutInv, BuiltIsList
      <4>2. starts \in [1..(Len(built) + 1) -> 0..Len(orig)]
        BY <2>2 DEF Laid
      <4>3. Len(read) + 1 \in 1..(Len(built) + 1)
        BY <3>1, <4>1
      <4>4. s \in 0..Len(orig)
        BY <3>1, <4>2, <4>3
      <4> QED
        BY <4>1, <4>4
    <3>4. Left(wire', form', whole, s, q)
      BY <2>3, <3>2, <3>3 DEF SaysStill
    <3>5. \E j \in Nat : Left(wire', form', whole, s, j) /\ AllLeft(j, whole, s)
      BY <3>2, <3>4
    <3>6. /\ Len(read') \in 0..Len(built') /\ s = starts[Len(read') + 1]
          /\ \A i \in 1..Len(read') : i # hit => read'[i].value = built'[i].value
          /\ verdict' # "Reading" => Len(read') + 1 = hit
      BY <3>1
    <3> QED
      BY <3>5, <3>6 DEF AsStruck
  <2>5. ASSUME NEW hit, Astray(starts, hit) PROVE Astray(starts, hit)'
    BY <2>5 DEF Astray
  <2>6. \A hit \in 1..Len(built') :
          Hit(starts, hit)' => (\E x : AsStruck(whole, starts, x, hit)') \/ Astray(starts, hit)'
    BY <2>2, <2>4, <2>5 DEF Hit
  <2>7. Laid(built', orig, starts) /\ InQuadlets(built', starts) /\ Struck(whole, orig, mark')
    BY <2>2
  <2>8. DamagedAs(whole, orig, starts)'
    BY <2>6, <2>7 DEF DamagedAs
  <2> QED
    BY <2>8 DEF DamageInv
<1> QED
  BY <1>1, <1>2

(* A stream is damaged in one place, and only before it is read.           *)
LEMMA DamageStep == WireInv /\ LayoutInv /\ DamageInv /\ [Next]_vars => DamageInv'
<1> SUFFICES ASSUME WireInv, LayoutInv, DamageInv, [Next]_vars
             PROVE  DamageInv'
  OBVIOUS
<1>1. ASSUME NEW item, Write(item) PROVE DamageInv'
  <2>1. mark' = 0
    BY <1>1 DEF Write, Fresh
  <2> QED
    BY <2>1 DEF DamageInv
<1>2. ASSUME NEW place \in 1..(IF Len(wire) < Reach THEN Len(wire) ELSE Reach), NEW c \in Marks, Alter(place, c)
      PROVE  DamageInv'
  <2>1. Len(wire) \in Nat
    BY DEF WireInv
  <2>2. place \in 1..Len(wire)
    BY <2>1, ReachAssumption
  <2> QED
    BY <1>2, <2>2, AlterStrikes
<1>3. ASSUME NEW length, Cut(length) PROVE DamageInv'
  <2>1. mark' = 0
    BY <1>3 DEF Cut, Fresh
  <2> QED
    BY <2>1 DEF DamageInv
<1>4. CASE ToBinary
  <2>1. /\ form = "text" /\ Decodable(wire) /\ form' = "binary" /\ wire' = Bytes(wire)
        /\ built' = built /\ mark' = mark /\ read' = read /\ verdict' = verdict
    BY <1>4 DEF ToBinary
  <2>2. SaysStill(wire, form, wire', form')
    <3> DEFINE S == Letters
    <3>1. ASSUME NEW whole \in Seq(S), NEW s \in Nat, NEW q \in Nat, Left(wire, "text", whole, s, q)
          PROVE  Left(Bytes(wire), "binary", whole, s, q)
      <4> HIDE DEF S
      <4> QED
        BY <2>1, <3>1, LeftInBinary
    <3> QED
      BY <2>1, <3>1 DEF SaysStill
  <2> QED
    BY <2>1, <2>2, DamageStays
<1>5. CASE ToText
  <2>1. /\ form = "binary" /\ Encodable(wire) /\ form' = "text" /\ wire' = AllCharacters(wire)
        /\ built' = built /\ mark' = mark /\ read' = read /\ verdict' = verdict
    BY <1>5 DEF ToText
  <2>2. SaysStill(wire, form, wire', form')
    <3> DEFINE S == Letters
    <3>1. ASSUME NEW whole \in Seq(S), NEW s \in Nat, NEW q \in Nat, Left(wire, "binary", whole, s, q)
          PROVE  Left(AllCharacters(wire), "text", whole, s, q)
      <4> HIDE DEF S
      <4> QED
        BY <2>1, <3>1, LeftInText
    <3> QED
      BY <2>1, <3>1 DEF SaysStill
  <2> QED
    BY <2>1, <2>2, DamageStays
<1>6. CASE Read
  BY <1>6, DamageRead
<1>7. CASE UNCHANGED vars
  <2>1. /\ wire' = wire /\ form' = form
        /\ built' = built /\ mark' = mark /\ read' = read /\ verdict' = verdict
    BY <1>7 DEF vars
  <2>2. SaysStill(wire, form, wire', form')
    BY <2>1 DEF SaysStill
  <2> QED
    BY <2>1, <2>2, DamageStays
<1> QED
  BY <1>1, <1>2, <1>3, <1>4, <1>5, <1>6, <1>7 DEF Next

(* What comes before a struck item is read as it was built, and, unless    *)
(* its head was struck, what comes after.                                  *)
LEMMA DamageIsInside == LayoutInv /\ DamageInv => DamageStaysInside
<1> SUFFICES ASSUME LayoutInv, DamageInv, NEW hit \in DOMAIN built,
                    mark # 0, mark < Start(hit + 1), mark >= Start(hit)
             PROVE  /\ \A j \in DOMAIN read : j < hit => read[j].value = built[j].value
                    /\ Len(read) < hit - 1 => verdict = "Reading"
                    /\ mark >= Start(hit) + HeadLength(built[hit].value) =>
                         /\ \A j \in DOMAIN read : j > hit => read[j].value = built[j].value
                         /\ Len(read) >= hit => verdict = "Reading"
  BY DEF DamageStaysInside
<1>1. PICK whole, orig, starts : DamagedAs(whole, orig, starts)
  BY DEF DamageInv
<1>2. /\ Laid(built, orig, starts) /\ Struck(whole, orig, mark)
      /\ \A i \in 1..Len(built) :
           Hit(starts, i) => (\E s : AsStruck(whole, starts, s, i)) \/ Astray(starts, i)
  BY <1>1 DEF DamagedAs
<1>3. PICK n : n = Len(built)
  OBVIOUS
<1>4. n \in Nat /\ hit \in 1..n
  BY <1>3 DEF LayoutInv, BuiltIsList
<1>5. hit \in 1..(n + 1) /\ hit + 1 \in 1..(n + 1)
  BY <1>4
<1>6. Start(hit) = starts[hit] + 1
  BY <1>2, <1>3, <1>4, <1>5, StartIs, SMTT(30)
<1>7. PICK next : next = hit + 1
  OBVIOUS
<1>8. Start(next) = starts[next] + 1
  <2>1. next \in 1..(n + 1)
    BY <1>5, <1>7
  <2> QED
    BY <1>2, <1>3, <1>4, <2>1, StartIs, SMTT(30)
<1>9. PICK a, b, l : a = starts[hit] /\ b = starts[next] /\ l = HeadLength(built[hit].value)
  OBVIOUS
<1>10. a \in Nat /\ b \in Nat /\ mark \in Nat
  <2>1. Len(orig) \in Nat /\ mark \in 1..Len(orig)
    BY <1>2 DEF Struck
  <2>2. starts \in [1..(n + 1) -> 0..Len(orig)]
    BY <1>2, <1>3 DEF Laid
  <2>3. a \in 0..Len(orig) /\ b \in 0..Len(orig)
    BY <1>5, <1>7, <1>9, <2>2
  <2> QED
    BY <2>1, <2>3
<1>11. l \in Nat
  <2>1. IsItem(built[hit])
    BY <1>2, <1>3, <1>4 DEF Laid
  <2>2. WrittenWell(built[hit], Written(built[hit].value))
    BY <2>1, ItemReads
  <2>3. Len(Written(built[hit].value)) \in Nat
    BY <2>2 DEF WrittenWell
  <2> QED
    BY <1>9, <2>1, <2>3, HeadIs
<1>12. Between(mark, a, b)
  BY <1>6, <1>7, <1>8, <1>9, <1>10, <1>11 DEF Between
<1>13. mark >= Start(hit) + l => InPayload(mark, a, l, b)
  BY <1>6, <1>7, <1>8, <1>9, <1>10, <1>11 DEF InPayload
<1>14. (\E s : AsStruck(whole, starts, s, hit)) \/ Astray(starts, hit)
  BY <1>2, <1>3, <1>4, <1>7, <1>9, <1>12 DEF Hit
<1>15. DOMAIN read = 1..Len(read) /\ Len(read) \in Nat
  BY ReadingsAre
<1>16. CASE Astray(starts, hit)
  <2>1. /\ ~InPayload(mark, a, l, b) /\ hit <= Len(read)
        /\ \A i \in 1..Len(read) : i < hit => read[i].value = built[i].value
    BY <1>7, <1>9, <1>16 DEF Astray
  <2>2. ~(Len(read) < hit - 1)
    BY <1>4, <1>15, <2>1
  <2>3. ~(mark >= Start(hit) + l)
    BY <1>13, <2>1
  <2> QED
    BY <1>9, <1>15, <2>1, <2>2, <2>3
<1>17. CASE \E s : AsStruck(whole, starts, s, hit)
  <2>1. /\ \A i \in 1..Len(read) : i # hit => read[i].value = built[i].value
        /\ verdict # "Reading" => Len(read) + 1 = hit
    BY <1>17 DEF AsStruck
  <2>2. /\ Len(read) < hit - 1 => verdict = "Reading"
        /\ Len(read) >= hit => verdict = "Reading"
    BY <1>4, <1>15, <2>1
  <2>3. \A j \in 1..Len(read) : j < hit \/ j > hit => j # hit
    BY <1>4
  <2> QED
    BY <1>15, <2>1, <2>2, <2>3
<1> QED
  BY <1>14, <1>16, <1>17

(* Damage neither spreads nor shifts what is around it: all but the struck *)
(* item is read as it was built, unless its head was struck.               *)
THEOREM AlwaysDamageStaysInside == Spec => []DamageStaysInside
<1>1. Init => WireInv /\ LayoutInv /\ DamageInv
  <2>1. Init => DamageInv
    BY DEF Init, DamageInv
  <2> QED
    BY <2>1, WireInitially, LaidInitially
<1>2. (WireInv /\ LayoutInv /\ DamageInv) /\ [Next]_vars => (WireInv /\ LayoutInv /\ DamageInv)'
  BY WireStep, LayoutStep, DamageStep
<1>3. WireInv /\ LayoutInv /\ DamageInv => DamageStaysInside
  BY DamageIsInside
<1> QED
  BY <1>1, <1>2, <1>3, PTL DEF Spec

(* Whatever is built is read back, in order and in either form, but for    *)
(* what damage struck.                                                     *)
THEOREM AlwaysReadsAsBuilt == Spec => []ReadsAsBuilt
<1>1. SoundReadsAsBuilt /\ DamageStaysInside => ReadsAsBuilt
  BY DEF ReadsAsBuilt
<1> QED
  BY <1>1, AlwaysSoundReadsAsBuilt, AlwaysDamageStaysInside, PTL
=============================================================================
