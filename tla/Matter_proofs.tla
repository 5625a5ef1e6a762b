---------------------------- MODULE Matter_proofs ----------------------------
(***************************************************************************)
(* Theorems about the primitives of Matter, for every sequence of          *)
(* characters or of bytes and every code of the tables:                    *)
(*   - text and binary are converted into each other without loss, a       *)
(*     quadlet of characters against a triplet of bytes, and piece by      *)
(*     piece, which is what lets a stream be converted a frame at a time;  *)
(*   - a primitive is read from its own span, whatever follows it, and     *)
(*     less than its span is never taken for one;                          *)
(*   - what is read is canonical, written again as it was;                 *)
(*   - the reader of text and the reader of binary accept the same         *)
(*     primitives, from the same stretch of the stream;                    *)
(*   - what is written is read back.                                       *)
(***************************************************************************)
EXTENDS Matter, TLAPS

(* The last character of the alphabet is none of the others.               *)
LEMMA UnderscoreIsNew ==
  /\ Underscore # "A" /\ Underscore # "B" /\ Underscore # "C" /\ Underscore # "D"
  /\ Underscore # "E" /\ Underscore # "F" /\ Underscore # "G" /\ Underscore # "H"
  /\ Underscore # "I" /\ Underscore # "J" /\ Underscore # "K" /\ Underscore # "L"
  /\ Underscore # "M" /\ Underscore # "N" /\ Underscore # "O" /\ Underscore # "P"
  /\ Underscore # "Q" /\ Underscore # "R" /\ Underscore # "S" /\ Underscore # "T"
  /\ Underscore # "U" /\ Underscore # "V" /\ Underscore # "W" /\ Underscore # "X"
  /\ Underscore # "Y" /\ Underscore # "Z" /\ Underscore # "a" /\ Underscore # "b"
  /\ Underscore # "c" /\ Underscore # "d" /\ Underscore # "e" /\ Underscore # "f"
  /\ Underscore # "g" /\ Underscore # "h" /\ Underscore # "i" /\ Underscore # "j"
  /\ Underscore # "k" /\ Underscore # "l" /\ Underscore # "m" /\ Underscore # "n"
  /\ Underscore # "o" /\ Underscore # "p" /\ Underscore # "q" /\ Underscore # "r"
  /\ Underscore # "s" /\ Underscore # "t" /\ Underscore # "u" /\ Underscore # "v"
  /\ Underscore # "w" /\ Underscore # "x" /\ Underscore # "y" /\ Underscore # "z"
  /\ Underscore # "0" /\ Underscore # "1" /\ Underscore # "2" /\ Underscore # "3"
  /\ Underscore # "4" /\ Underscore # "5" /\ Underscore # "6" /\ Underscore # "7"
  /\ Underscore # "8" /\ Underscore # "9" /\ Underscore # "-"
BY ZenonT(40) DEF Underscore

(* No character is in the alphabet twice.                                  *)
LEMMA AlphabetDiffers ==
  /\ DOMAIN Alphabet = 1..64
  /\ \A i, j \in 1..64 : Alphabet[i] = Alphabet[j] => i = j
<1>1. DOMAIN Alphabet = 1..64
  BY SMT DEF Alphabet
<1>2. \A i, j \in 1..64 : Alphabet[i] = Alphabet[j] => i = j
  BY UnderscoreIsNew, SMT DEF Alphabet
<1> QED
  BY <1>1, <1>2

(* So characters and sextets are one to one.                               *)
LEMMA SextetIsPlace ==
  /\ \A c \in DOMAIN Sextet : Sextet[c] \in 0..63 /\ Alphabet[Sextet[c] + 1] = c
  /\ \A v \in 0..63 : Alphabet[v + 1] \in DOMAIN Sextet /\ Sextet[Alphabet[v + 1]] = v
<1>1. DOMAIN Sextet = {Alphabet[i] : i \in 1..64}
  BY AlphabetDiffers DEF Sextet, Range
<1>2. ASSUME NEW c \in DOMAIN Sextet
      PROVE  Sextet[c] \in 0..63 /\ Alphabet[Sextet[c] + 1] = c
  <2>1. Sextet[c] = (CHOOSE i \in 1..64 : Alphabet[i] = c) - 1
    BY DEF Sextet
  <2> DEFINE n == CHOOSE i \in 1..64 : Alphabet[i] = c
  <2>2. n \in 1..64 /\ Alphabet[n] = c
    BY <1>1
  <2> HIDE DEF n
  <2>3. n - 1 + 1 = n /\ n - 1 \in 0..63
    BY <2>2
  <2>4. Sextet[c] = n - 1
    BY <2>1 DEF n
  <2> QED
    BY <2>2, <2>3, <2>4
<1>3. ASSUME NEW v \in 0..63
      PROVE  Alphabet[v + 1] \in DOMAIN Sextet /\ Sextet[Alphabet[v + 1]] = v
  <2>1. v + 1 \in 1..64
    OBVIOUS
  <2>2. Alphabet[v + 1] \in DOMAIN Sextet
    BY <1>1, <2>1
  <2> DEFINE w == Sextet[Alphabet[v + 1]]
  <2>3. w \in 0..63 /\ Alphabet[w + 1] = Alphabet[v + 1]
    BY <1>2, <2>2
  <2> HIDE DEF w
  <2>4. w + 1 \in 1..64 /\ w \in Nat
    BY <2>3, SMTT(30)
  <2>5. w + 1 = v + 1
    BY <2>1, <2>3, <2>4, AlphabetDiffers
  <2>6. w = v
    BY <2>4, <2>5
  <2> QED
    BY <2>2, <2>6 DEF w
<1> QED
  BY <1>2, <1>3

-----------------------------------------------------------------------------
(* Three bytes are four characters.                                        *)

Sextets == 0..63

(* The bytes that three pairs of sextets in a row make.                    *)
Byte1(s1, s2) == ((s1 * 64 + s2) \div 16) % 256
Byte2(s2, s3) == ((s2 * 64 + s3) \div 4) % 256
Byte3(s3, s4) == ((s3 * 64 + s4) \div 1) % 256

(* Two bytes in a row, as one number; beyond the last byte is zero.        *)
Joined(b, next) == b * 256 + next

Pair(bytes, k) == Joined(bytes[k], IF k < Len(bytes) THEN bytes[k + 1] ELSE 0)

(* The four sextets that such numbers hold.                                *)
Sextet1(pair) == (pair \div 1024) % 64
Sextet2(pair) == (pair \div 16) % 64
Sextet3(pair) == (pair \div 64) % 64
Sextet4(pair) == (pair \div 256) % 64

(* The three bytes of a quadlet of text.                                   *)
LEMMA Triplet ==
  ASSUME NEW text \in Seq(DOMAIN Sextet), Len(text) % 4 = 0, NEW q \in Nat, 4 * q + 4 <= Len(text)
  PROVE  /\ 3 * q + 3 <= Len(Bytes(text))
         /\ Bytes(text)[3 * q + 1] = Byte1(Sextet[text[4 * q + 1]], Sextet[text[4 * q + 2]])
         /\ Bytes(text)[3 * q + 2] = Byte2(Sextet[text[4 * q + 2]], Sextet[text[4 * q + 3]])
         /\ Bytes(text)[3 * q + 3] = Byte3(Sextet[text[4 * q + 3]], Sextet[text[4 * q + 4]])
<1> DEFINE N == (Len(text) * 3) \div 4
           C(k, off) == ((Sextet[text[k]] * 64 + Sextet[text[k + 1]]) \div 2 ^ (4 - off)) % 256
           B(i) == C((8 * (i - 1)) \div 6 + 1, (8 * (i - 1)) % 6)
<1>1. Bytes(text) = [i \in 1..N |-> B(i)]
  BY DEF Bytes
<1>2. N \in Nat /\ Len(text) \in Nat /\ 3 * q + 3 <= N
  OBVIOUS
<1>3. Len(Bytes(text)) = N
  BY <1>1, <1>2
<1>4. /\ 3 * q + 1 \in 1..N /\ 3 * q + 2 \in 1..N /\ 3 * q + 3 \in 1..N
  BY <1>2
<1>5. /\ Bytes(text)[3 * q + 1] = B(3 * q + 1)
      /\ Bytes(text)[3 * q + 2] = B(3 * q + 2)
      /\ Bytes(text)[3 * q + 3] = B(3 * q + 3)
  <2> HIDE DEF B, N
  <2> QED
    BY <1>1, <1>4
<1>6. B(3 * q + 1) = Byte1(Sextet[text[4 * q + 1]], Sextet[text[4 * q + 2]])
  <2>1. (8 * (3 * q + 1 - 1)) \div 6 + 1 = 4 * q + 1 /\ (8 * (3 * q + 1 - 1)) % 6 = 0
    OBVIOUS
  <2>2. B(3 * q + 1) = C(4 * q + 1, 0)
    <3> HIDE DEF C
    <3> QED
      BY <2>1
  <2>3. 2 ^ (4 - 0) = 16 /\ 4 * q + 1 + 1 = 4 * q + 2
    OBVIOUS
  <2>4. C(4 * q + 1, 0) = Byte1(Sextet[text[4 * q + 1]], Sextet[text[4 * q + 2]])
    BY <2>3, Zenon DEF Byte1
  <2> QED
    BY <2>2, <2>4, Zenon
<1>7. B(3 * q + 2) = Byte2(Sextet[text[4 * q + 2]], Sextet[text[4 * q + 3]])
  <2>1. (8 * (3 * q + 2 - 1)) \div 6 + 1 = 4 * q + 2 /\ (8 * (3 * q + 2 - 1)) % 6 = 2
    OBVIOUS
  <2>2. B(3 * q + 2) = C(4 * q + 2, 2)
    <3> HIDE DEF C
    <3> QED
      BY <2>1
  <2>3. 2 ^ (4 - 2) = 4 /\ 4 * q + 2 + 1 = 4 * q + 3
    OBVIOUS
  <2>4. C(4 * q + 2, 2) = Byte2(Sextet[text[4 * q + 2]], Sextet[text[4 * q + 3]])
    BY <2>3, Zenon DEF Byte2
  <2> QED
    BY <2>2, <2>4, Zenon
<1>8. B(3 * q + 3) = Byte3(Sextet[text[4 * q + 3]], Sextet[text[4 * q + 4]])
  <2>1. (8 * (3 * q + 3 - 1)) \div 6 + 1 = 4 * q + 3 /\ (8 * (3 * q + 3 - 1)) % 6 = 4
    OBVIOUS
  <2>2. B(3 * q + 3) = C(4 * q + 3, 4)
    <3> HIDE DEF C
    <3> QED
      BY <2>1
  <2>3. 2 ^ (4 - 4) = 1 /\ 4 * q + 3 + 1 = 4 * q + 4
    OBVIOUS
  <2>4. C(4 * q + 3, 4) = Byte3(Sextet[text[4 * q + 3]], Sextet[text[4 * q + 4]])
    BY <2>3, Zenon DEF Byte3
  <2> QED
    BY <2>2, <2>4, Zenon
<1> QED
  BY <1>2, <1>3, <1>5, <1>6, <1>7, <1>8

(* The four characters of a triplet of bytes.                              *)
LEMMA Quadlet ==
  ASSUME NEW bytes, NEW length \in Nat, NEW q \in Nat
  PROVE  /\ 4 * q + 1 \in 1..length =>
              Characters(bytes, length)[4 * q + 1] = Alphabet[Sextet1(Pair(bytes, 3 * q + 1)) + 1]
         /\ 4 * q + 2 \in 1..length =>
              Characters(bytes, length)[4 * q + 2] = Alphabet[Sextet2(Pair(bytes, 3 * q + 1)) + 1]
         /\ 4 * q + 3 \in 1..length =>
              Characters(bytes, length)[4 * q + 3] = Alphabet[Sextet3(Pair(bytes, 3 * q + 2)) + 1]
         /\ 4 * q + 4 \in 1..length =>
              Characters(bytes, length)[4 * q + 4] = Alphabet[Sextet4(Pair(bytes, 3 * q + 3)) + 1]
<1> DEFINE C(k, off) == Alphabet[((Pair(bytes, k) \div 2 ^ (10 - off)) % 64) + 1]
           c(i) == C((6 * (i - 1)) \div 8 + 1, (6 * (i - 1)) % 8)
<1>1. Characters(bytes, length) = [i \in 1..length |-> c(i)]
  BY DEF Characters, Pair, Joined
<1>3. ASSUME 4 * q + 1 \in 1..length
      PROVE  Characters(bytes, length)[4 * q + 1] = Alphabet[Sextet1(Pair(bytes, 3 * q + 1)) + 1]
  <2>1. (6 * (4 * q + 1 - 1)) \div 8 + 1 = 3 * q + 1 /\ (6 * (4 * q + 1 - 1)) % 8 = 0
    OBVIOUS
  <2>2. Characters(bytes, length)[4 * q + 1] = c(4 * q + 1)
    <3> HIDE DEF c
    <3> QED
      BY <1>1, <1>3
  <2>3. c(4 * q + 1) = C(3 * q + 1, 0)
    <3> HIDE DEF C
    <3> QED
      BY <2>1
  <2>4. 2 ^ (10 - 0) = 1024
    OBVIOUS
  <2>5. C(3 * q + 1, 0) = Alphabet[Sextet1(Pair(bytes, 3 * q + 1)) + 1]
    BY <2>4, SMT DEF Sextet1
  <2> QED
    BY <2>2, <2>3, <2>5
<1>4. ASSUME 4 * q + 2 \in 1..length
      PROVE  Characters(bytes, length)[4 * q + 2] = Alphabet[Sextet2(Pair(bytes, 3 * q + 1)) + 1]
  <2>1. (6 * (4 * q + 2 - 1)) \div 8 + 1 = 3 * q + 1 /\ (6 * (4 * q + 2 - 1)) % 8 = 6
    OBVIOUS
  <2>2. Characters(bytes, length)[4 * q + 2] = c(4 * q + 2)
    <3> HIDE DEF c
    <3> QED
      BY <1>1, <1>4
  <2>3. c(4 * q + 2) = C(3 * q + 1, 6)
    <3> HIDE DEF C
    <3> QED
      BY <2>1
  <2>4. 2 ^ (10 - 6) = 16
    OBVIOUS
  <2>5. C(3 * q + 1, 6) = Alphabet[Sextet2(Pair(bytes, 3 * q + 1)) + 1]
    BY <2>4, SMT DEF Sextet2
  <2> QED
    BY <2>2, <2>3, <2>5
<1>5. ASSUME 4 * q + 3 \in 1..length
      PROVE  Characters(bytes, length)[4 * q + 3] = Alphabet[Sextet3(Pair(bytes, 3 * q + 2)) + 1]
  <2>1. (6 * (4 * q + 3 - 1)) \div 8 + 1 = 3 * q + 2 /\ (6 * (4 * q + 3 - 1)) % 8 = 4
    OBVIOUS
  <2>2. Characters(bytes, length)[4 * q + 3] = c(4 * q + 3)
    <3> HIDE DEF c
    <3> QED
      BY <1>1, <1>5
  <2>3. c(4 * q + 3) = C(3 * q + 2, 4)
    <3> HIDE DEF C
    <3> QED
      BY <2>1
  <2>4. 2 ^ (10 - 4) = 64
    OBVIOUS
  <2>5. C(3 * q + 2, 4) = Alphabet[Sextet3(Pair(bytes, 3 * q + 2)) + 1]
    BY <2>4, SMT DEF Sextet3
  <2> QED
    BY <2>2, <2>3, <2>5
<1>6. ASSUME 4 * q + 4 \in 1..length
      PROVE  Characters(bytes, length)[4 * q + 4] = Alphabet[Sextet4(Pair(bytes, 3 * q + 3)) + 1]
  <2>1. (6 * (4 * q + 4 - 1)) \div 8 + 1 = 3 * q + 3 /\ (6 * (4 * q + 4 - 1)) % 8 = 2
    OBVIOUS
  <2>2. Characters(bytes, length)[4 * q + 4] = c(4 * q + 4)
    <3> HIDE DEF c
    <3> QED
      BY <1>1, <1>6
  <2>3. c(4 * q + 4) = C(3 * q + 3, 2)
    <3> HIDE DEF C
    <3> QED
      BY <2>1
  <2>4. 2 ^ (10 - 2) = 256
    OBVIOUS
  <2>5. C(3 * q + 3, 2) = Alphabet[Sextet4(Pair(bytes, 3 * q + 3)) + 1]
    BY <2>4, SMT DEF Sextet4
  <2> QED
    BY <2>2, <2>3, <2>5
<1> QED
  BY <1>3, <1>4, <1>5, <1>6

(* Four sextets and the three bytes that hold their bits.                  *)
LEMMA BitsOfThreeBytes ==
  ASSUME NEW s1 \in Sextets, NEW s2 \in Sextets, NEW s3 \in Sextets, NEW s4 \in Sextets, NEW next \in Byte
  PROVE  /\ Byte1(s1, s2) \in Byte /\ Byte2(s2, s3) \in Byte /\ Byte3(s3, s4) \in Byte
         /\ Sextet1(Joined(Byte1(s1, s2), Byte2(s2, s3))) = s1
         /\ Sextet2(Joined(Byte1(s1, s2), Byte2(s2, s3))) = s2
         /\ Sextet3(Joined(Byte2(s2, s3), Byte3(s3, s4))) = s3
         /\ Sextet4(Joined(Byte3(s3, s4), next)) = s4
<1> USE DEF Byte, Sextets
<1> DEFINE b1 == Byte1(s1, s2)
           b2 == Byte2(s2, s3)
           b3 == Byte3(s3, s4)
<1>1. PICK h2 \in 0..3, l2 \in 0..15 : s2 = 16 * h2 + l2
  <2> DEFINE h == s2 \div 16
             l == s2 % 16
  <2>1. h \in 0..3 /\ l \in 0..15 /\ s2 = 16 * h + l
    OBVIOUS
  <2> HIDE DEF h, l
  <2> QED
    BY <2>1
<1>2. PICK h3 \in 0..15, l3 \in 0..3 : s3 = 4 * h3 + l3
  <2> DEFINE h == s3 \div 4
             l == s3 % 4
  <2>1. h \in 0..15 /\ l \in 0..3 /\ s3 = 4 * h + l
    OBVIOUS
  <2> HIDE DEF h, l
  <2> QED
    BY <2>1
<1>3. b1 = 4 * s1 + h2
  BY <1>1 DEF Byte1
<1>4. b2 = 16 * l2 + h3
  BY <1>1, <1>2 DEF Byte2
<1>5. b3 = 64 * l3 + s4
  BY <1>2 DEF Byte3
<1> HIDE DEF b1, b2, b3
<1>6. b1 \in Byte /\ b2 \in Byte /\ b3 \in Byte
  BY <1>3, <1>4, <1>5
<1>7. ((b1 * 256 + b2) \div 1024) % 64 = s1
  BY <1>3, <1>4
<1>8. ((b1 * 256 + b2) \div 16) % 64 = s2
  <2>1. b1 * 256 + b2 = 16 * (64 * s1 + s2) + h3
    BY <1>1, <1>3, <1>4
  <2>2. (16 * (64 * s1 + s2) + h3) \div 16 = 64 * s1 + s2
    OBVIOUS
  <2>3. (64 * s1 + s2) % 64 = s2
    OBVIOUS
  <2> QED
    BY <2>1, <2>2, <2>3
<1>9. ((b2 * 256 + b3) \div 64) % 64 = s3
  <2>1. b2 * 256 + b3 = 64 * (64 * l2 + s3) + s4
    BY <1>2, <1>4, <1>5
  <2>2. (64 * (64 * l2 + s3) + s4) \div 64 = 64 * l2 + s3
    OBVIOUS
  <2>3. (64 * l2 + s3) % 64 = s3
    OBVIOUS
  <2> QED
    BY <2>1, <2>2, <2>3
<1>10. ((b3 * 256 + next) \div 256) % 64 = s4
  <2>1. (b3 * 256 + next) \div 256 = b3
    BY <1>6
  <2>2. b3 % 64 = s4
    BY <1>5
  <2> QED
    BY <2>1, <2>2
<1> QED
  BY <1>6, <1>7, <1>8, <1>9, <1>10, Zenon DEF b1, b2, b3, Joined, Sextet1, Sextet2, Sextet3, Sextet4

(* Three bytes and the four sextets that hold their bits.                  *)
LEMMA BitsOfFourSextets ==
  ASSUME NEW b1 \in Byte, NEW b2 \in Byte, NEW b3 \in Byte, NEW next \in Byte
  PROVE  LET s1 == Sextet1(Joined(b1, b2))
             s2 == Sextet2(Joined(b1, b2))
             s3 == Sextet3(Joined(b2, b3))
             s4 == Sextet4(Joined(b3, next))
         IN  /\ s1 \in Sextets /\ s2 \in Sextets /\ s3 \in Sextets /\ s4 \in Sextets
             /\ Byte1(s1, s2) = b1
             /\ Byte2(s2, s3) = b2
             /\ Byte3(s3, s4) = b3
<1> USE DEF Byte, Sextets
<1> DEFINE s1 == Sextet1(Joined(b1, b2))
           s2 == Sextet2(Joined(b1, b2))
           s3 == Sextet3(Joined(b2, b3))
           s4 == Sextet4(Joined(b3, next))
<1>0. /\ s1 = ((b1 * 256 + b2) \div 1024) % 64
      /\ s2 = ((b1 * 256 + b2) \div 16) % 64
      /\ s3 = ((b2 * 256 + b3) \div 64) % 64
      /\ s4 = ((b3 * 256 + next) \div 256) % 64
  BY SMT DEF Joined, Sextet1, Sextet2, Sextet3, Sextet4
<1> HIDE DEF s1, s2, s3, s4
<1>1. PICK h1 \in Sextets, l1 \in 0..3 : b1 = 4 * h1 + l1
  <2> DEFINE h == b1 \div 4
             l == b1 % 4
  <2>1. h \in Sextets /\ l \in 0..3 /\ b1 = 4 * h + l
    OBVIOUS
  <2> HIDE DEF h, l
  <2> QED
    BY <2>1
<1>2. PICK h2 \in 0..15, l2 \in 0..15 : b2 = 16 * h2 + l2
  <2> DEFINE h == b2 \div 16
             l == b2 % 16
  <2>1. h \in 0..15 /\ l \in 0..15 /\ b2 = 16 * h + l
    OBVIOUS
  <2> HIDE DEF h, l
  <2> QED
    BY <2>1
<1>3. PICK h3 \in 0..3, l3 \in Sextets : b3 = 64 * h3 + l3
  <2> DEFINE h == b3 \div 64
             l == b3 % 64
  <2>1. h \in 0..3 /\ l \in Sextets /\ b3 = 64 * h + l
    OBVIOUS
  <2> HIDE DEF h, l
  <2> QED
    BY <2>1
<1>4. s1 = h1
  BY <1>0, <1>1, <1>2
<1>5. s2 = 16 * l1 + h2
  <2>1. b1 * 256 + b2 = 16 * (64 * h1 + 16 * l1 + h2) + l2
    BY <1>1, <1>2
  <2>2. (16 * (64 * h1 + 16 * l1 + h2) + l2) \div 16 = 64 * h1 + 16 * l1 + h2
    OBVIOUS
  <2>3. (64 * h1 + 16 * l1 + h2) % 64 = 16 * l1 + h2
    OBVIOUS
  <2> QED
    BY <1>0, <2>1, <2>2, <2>3
<1>6. s3 = 4 * l2 + h3
  BY <1>0, <1>2, <1>3, SMTT(30)
<1>7. s4 = l3
  <2>1. (b3 * 256 + next) \div 256 = b3
    OBVIOUS
  <2>2. b3 % 64 = l3
    BY <1>3
  <2> QED
    BY <1>0, <2>1, <2>2
<1>8. s1 \in Sextets /\ s2 \in Sextets /\ s3 \in Sextets /\ s4 \in Sextets
  BY <1>4, <1>5, <1>6, <1>7
<1>9. Byte1(s1, s2) = b1
  BY <1>1, <1>4, <1>5 DEF Byte1
<1>10. Byte2(s2, s3) = b2
  BY <1>2, <1>5, <1>6 DEF Byte2
<1>11. Byte3(s3, s4) = b3
  BY <1>3, <1>6, <1>7 DEF Byte3
<1> QED
  BY <1>8, <1>9, <1>10, <1>11 DEF s1, s2, s3, s4

-----------------------------------------------------------------------------
(* A whole text and a whole stream of bytes.                               *)

(* A place among 4 * m characters is in a quadlet.                         *)
LEMMA PlaceInQuadlet ==
  ASSUME NEW m \in Nat, NEW i \in 1..(4 * m)
  PROVE  \E q \in 0..(m - 1) : i = 4 * q + 1 \/ i = 4 * q + 2 \/ i = 4 * q + 3 \/ i = 4 * q + 4
<1> DEFINE q == (i - 1) \div 4
           r == (i - 1) % 4
<1>1. q \in 0..(m - 1) /\ r \in 0..3 /\ i = 4 * q + r + 1
  OBVIOUS
<1> HIDE DEF q, r
<1>2. i = 4 * q + 1 \/ i = 4 * q + 2 \/ i = 4 * q + 3 \/ i = 4 * q + 4
  BY <1>1
<1> QED
  BY <1>1, <1>2

(* A place among 3 * m bytes is in a triplet.                              *)
LEMMA PlaceInTriplet ==
  ASSUME NEW m \in Nat, NEW i \in 1..(3 * m)
  PROVE  \E q \in 0..(m - 1) : i = 3 * q + 1 \/ i = 3 * q + 2 \/ i = 3 * q + 3
<1> DEFINE q == (i - 1) \div 3
           r == (i - 1) % 3
<1>1. q \in 0..(m - 1) /\ r \in 0..2 /\ i = 3 * q + r + 1
  OBVIOUS
<1> HIDE DEF q, r
<1>2. i = 3 * q + 1 \/ i = 3 * q + 2 \/ i = 3 * q + 3
  BY <1>1
<1> QED
  BY <1>1, <1>2

(* A character of a text over the alphabet has a sextet.                   *)
LEMMA SextetOfText ==
  ASSUME NEW text \in Seq(DOMAIN Sextet), NEW k \in 1..Len(text)
  PROVE  text[k] \in DOMAIN Sextet /\ Sextet[text[k]] \in Sextets
<1>1. text[k] \in DOMAIN Sextet
  OBVIOUS
<1> QED
  BY <1>1, SextetIsPlace DEF Sextets

(* Two bytes in a row are a number.                                        *)
LEMMA PairIsNatural ==
  ASSUME NEW bytes \in Seq(Byte), NEW k \in 1..Len(bytes)
  PROVE  /\ Pair(bytes, k) \in Nat
         /\ bytes[k] \in Byte
         /\ \E next \in Byte : Pair(bytes, k) = Joined(bytes[k], next)
         /\ k < Len(bytes) => Pair(bytes, k) = Joined(bytes[k], bytes[k + 1])
<1> DEFINE next == IF k < Len(bytes) THEN bytes[k + 1] ELSE 0
<1>1. bytes[k] \in Byte
  OBVIOUS
<1>2. next \in Byte
  <2>1. CASE k < Len(bytes)
    <3>1. k + 1 \in 1..Len(bytes)
      BY <2>1
    <3>2. bytes[k + 1] \in Byte
      BY <3>1
    <3> QED
      BY <2>1, <3>2
  <2>2. CASE ~(k < Len(bytes))
    BY <2>2 DEF Byte
  <2> QED
    BY <2>1, <2>2
<1>3. Pair(bytes, k) = Joined(bytes[k], next)
  BY DEF Pair
<1>4. k < Len(bytes) => next = bytes[k + 1]
  OBVIOUS
<1> HIDE DEF next
<1>5. \A b, n \in Byte : Joined(b, n) \in Nat
  BY DEF Joined, Byte
<1>6. Joined(bytes[k], next) \in Nat
  BY <1>1, <1>2, <1>5, Zenon
<1> QED
  BY <1>1, <1>2, <1>3, <1>4, <1>6

(* An aligned text is m quadlets of characters, and becomes m triplets.    *)
LEMMA BytesOfText ==
  ASSUME NEW text \in Seq(DOMAIN Sextet), NEW m \in Nat, Len(text) = 4 * m
  PROVE  /\ Bytes(text) \in Seq(Byte)
         /\ Len(Bytes(text)) = 3 * m
<1> DEFINE N == (Len(text) * 3) \div 4
           B(i) == LET bit == 8 * (i - 1)
                       k == (bit \div 6) + 1
                   IN  ((Sextet[text[k]] * 64 + Sextet[text[k + 1]]) \div 2 ^ (4 - (bit % 6))) % 256
<1>1. Bytes(text) = [i \in 1..N |-> B(i)] /\ N = 3 * m
  BY DEF Bytes
<1> HIDE DEF B, N
<1>2. Len(Bytes(text)) = 3 * m /\ DOMAIN Bytes(text) = 1..(3 * m)
  BY <1>1
<1>3. ASSUME NEW i \in 1..(3 * m)
      PROVE  Bytes(text)[i] \in Byte
  <2>1. PICK q \in 0..(m - 1) : i = 3 * q + 1 \/ i = 3 * q + 2 \/ i = 3 * q + 3
    BY PlaceInTriplet
  <2> DEFINE s1 == Sextet[text[4 * q + 1]]
             s2 == Sextet[text[4 * q + 2]]
             s3 == Sextet[text[4 * q + 3]]
             s4 == Sextet[text[4 * q + 4]]
  <2>2. q \in Nat /\ 4 * q + 4 <= Len(text) /\ Len(text) % 4 = 0
    OBVIOUS
  <2>3. s1 \in Sextets /\ s2 \in Sextets /\ s3 \in Sextets /\ s4 \in Sextets
    <3>1. /\ 4 * q + 1 \in 1..Len(text) /\ 4 * q + 2 \in 1..Len(text)
          /\ 4 * q + 3 \in 1..Len(text) /\ 4 * q + 4 \in 1..Len(text)
      BY <2>2
    <3> QED
      BY <3>1, SextetOfText, Zenon
  <2>4. /\ Bytes(text)[3 * q + 1] = Byte1(s1, s2)
        /\ Bytes(text)[3 * q + 2] = Byte2(s2, s3)
        /\ Bytes(text)[3 * q + 3] = Byte3(s3, s4)
    BY <2>2, Triplet, Zenon
  <2> HIDE DEF s1, s2, s3, s4
  <2>5. /\ Byte1(s1, s2) \in Byte
        /\ Byte2(s2, s3) \in Byte
        /\ Byte3(s3, s4) \in Byte
    BY <2>3 DEF Byte1, Byte2, Byte3, Byte, Sextets
  <2>6. Bytes(text)[3 * q + 1] \in Byte /\ Bytes(text)[3 * q + 2] \in Byte /\ Bytes(text)[3 * q + 3] \in Byte
    BY <2>4, <2>5
  <2> QED
    BY <2>1, <2>6
<1>4. Bytes(text) \in [1..(3 * m) -> Byte]
  BY <1>1, <1>2, <1>3
<1> QED
  BY <1>2, <1>4

(* m triplets of bytes become m quadlets of characters.                    *)
LEMMA TextOfBytes ==
  ASSUME NEW bytes \in Seq(Byte), NEW m \in Nat, Len(bytes) = 3 * m
  PROVE  /\ AllCharacters(bytes) = Characters(bytes, 4 * m)
         /\ AllCharacters(bytes) \in Seq(DOMAIN Sextet)
         /\ Len(AllCharacters(bytes)) = 4 * m
<1>1. AllCharacters(bytes) = Characters(bytes, 4 * m)
  <2>1. (Len(bytes) * 4) \div 3 = 4 * m
    OBVIOUS
  <2> QED
    BY <2>1 DEF AllCharacters
<1> DEFINE c(i) == LET bit == 6 * (i - 1)
                       k == (bit \div 8) + 1
                       next == IF k < Len(bytes) THEN bytes[k + 1] ELSE 0
                   IN  Alphabet[(((bytes[k] * 256 + next) \div 2 ^ (10 - (bit % 8))) % 64) + 1]
<1>2. Characters(bytes, 4 * m) = [i \in 1..(4 * m) |-> c(i)]
  BY DEF Characters
<1> HIDE DEF c
<1>3. Len(Characters(bytes, 4 * m)) = 4 * m /\ DOMAIN Characters(bytes, 4 * m) = 1..(4 * m)
  BY <1>2
<1>4. ASSUME NEW i \in 1..(4 * m)
      PROVE  Characters(bytes, 4 * m)[i] \in DOMAIN Sextet
  <2>1. PICK q \in 0..(m - 1) : i = 4 * q + 1 \/ i = 4 * q + 2 \/ i = 4 * q + 3 \/ i = 4 * q + 4
    BY PlaceInQuadlet
  <2>2. q \in Nat /\ 3 * q + 3 <= Len(bytes) /\ 4 * q + 4 <= 4 * m
    OBVIOUS
  <2> DEFINE p1 == Pair(bytes, 3 * q + 1)
             p2 == Pair(bytes, 3 * q + 2)
             p3 == Pair(bytes, 3 * q + 3)
  <2>3. p1 \in Nat /\ p2 \in Nat /\ p3 \in Nat
    <3>1. 3 * q + 1 \in 1..Len(bytes) /\ 3 * q + 2 \in 1..Len(bytes) /\ 3 * q + 3 \in 1..Len(bytes)
      BY <2>2
    <3> QED
      BY <3>1, PairIsNatural, Zenon
  <2>4. /\ 4 * q + 1 \in 1..(4 * m) /\ 4 * q + 2 \in 1..(4 * m)
        /\ 4 * q + 3 \in 1..(4 * m) /\ 4 * q + 4 \in 1..(4 * m) /\ 4 * m \in Nat
    BY <2>2
  <2>5. /\ Characters(bytes, 4 * m)[4 * q + 1] = Alphabet[Sextet1(p1) + 1]
        /\ Characters(bytes, 4 * m)[4 * q + 2] = Alphabet[Sextet2(p1) + 1]
        /\ Characters(bytes, 4 * m)[4 * q + 3] = Alphabet[Sextet3(p2) + 1]
        /\ Characters(bytes, 4 * m)[4 * q + 4] = Alphabet[Sextet4(p3) + 1]
    BY <2>2, <2>4, Quadlet, Zenon
  <2> HIDE DEF p1, p2, p3
  <2>6. /\ Sextet1(p1) \in Sextets /\ Sextet2(p1) \in Sextets
        /\ Sextet3(p2) \in Sextets /\ Sextet4(p3) \in Sextets
    BY <2>3 DEF Sextet1, Sextet2, Sextet3, Sextet4, Sextets
  <2>7. /\ Alphabet[Sextet1(p1) + 1] \in DOMAIN Sextet
        /\ Alphabet[Sextet2(p1) + 1] \in DOMAIN Sextet
        /\ Alphabet[Sextet3(p2) + 1] \in DOMAIN Sextet
        /\ Alphabet[Sextet4(p3) + 1] \in DOMAIN Sextet
    <3> DEFINE d(v) == Alphabet[v + 1] \in DOMAIN Sextet
    <3>1. \A v \in Sextets : d(v)
      BY SextetIsPlace DEF Sextets
    <3> HIDE DEF d
    <3>2. /\ d(Sextet1(p1)) /\ d(Sextet2(p1))
          /\ d(Sextet3(p2)) /\ d(Sextet4(p3))
      BY <2>6, <3>1, Zenon
    <3> QED
      BY <3>2 DEF d
  <2>8. /\ Characters(bytes, 4 * m)[4 * q + 1] \in DOMAIN Sextet
        /\ Characters(bytes, 4 * m)[4 * q + 2] \in DOMAIN Sextet
        /\ Characters(bytes, 4 * m)[4 * q + 3] \in DOMAIN Sextet
        /\ Characters(bytes, 4 * m)[4 * q + 4] \in DOMAIN Sextet
    BY <2>5, <2>7
  <2> QED
    BY <2>1, <2>8
<1>5. Characters(bytes, 4 * m) \in [1..(4 * m) -> DOMAIN Sextet]
  BY <1>2, <1>4
<1> QED
  BY <1>1, <1>3, <1>5

(* A quadlet of text comes back from its three bytes.                      *)
LEMMA QuadletReturns ==
  ASSUME NEW text \in Seq(DOMAIN Sextet), NEW m \in Nat, Len(text) = 4 * m, NEW q \in 0..(m - 1)
  PROVE  /\ AllCharacters(Bytes(text))[4 * q + 1] = text[4 * q + 1]
         /\ AllCharacters(Bytes(text))[4 * q + 2] = text[4 * q + 2]
         /\ AllCharacters(Bytes(text))[4 * q + 3] = text[4 * q + 3]
         /\ AllCharacters(Bytes(text))[4 * q + 4] = text[4 * q + 4]
<1> DEFINE bytes == Bytes(text)
           s1 == Sextet[text[4 * q + 1]]
           s2 == Sextet[text[4 * q + 2]]
           s3 == Sextet[text[4 * q + 3]]
           s4 == Sextet[text[4 * q + 4]]
           b1 == bytes[3 * q + 1]
           b2 == bytes[3 * q + 2]
           b3 == bytes[3 * q + 3]
<1>1. bytes \in Seq(Byte) /\ Len(bytes) = 3 * m
  BY BytesOfText
<1>2. AllCharacters(bytes) = Characters(bytes, 4 * m)
  BY <1>1, TextOfBytes
<1>3. /\ 4 * q + 1 \in 1..Len(text) /\ 4 * q + 2 \in 1..Len(text)
      /\ 4 * q + 3 \in 1..Len(text) /\ 4 * q + 4 \in 1..Len(text)
  OBVIOUS
<1>4. /\ s1 \in Sextets /\ s2 \in Sextets /\ s3 \in Sextets /\ s4 \in Sextets
      /\ text[4 * q + 1] \in DOMAIN Sextet /\ text[4 * q + 2] \in DOMAIN Sextet
      /\ text[4 * q + 3] \in DOMAIN Sextet /\ text[4 * q + 4] \in DOMAIN Sextet
  BY <1>3, SextetOfText, Zenon
<1>5. /\ text[4 * q + 1] = Alphabet[s1 + 1] /\ text[4 * q + 2] = Alphabet[s2 + 1]
      /\ text[4 * q + 3] = Alphabet[s3 + 1] /\ text[4 * q + 4] = Alphabet[s4 + 1]
  BY <1>4, SextetIsPlace, Zenon
<1>6. q \in Nat /\ 4 * q + 4 <= Len(text) /\ Len(text) % 4 = 0
  OBVIOUS
<1>7. /\ b1 = Byte1(s1, s2)
      /\ b2 = Byte2(s2, s3)
      /\ b3 = Byte3(s3, s4)
  BY <1>6, Triplet, Zenon
<1>8. /\ 3 * q + 1 \in 1..Len(bytes) /\ 3 * q + 1 < Len(bytes) /\ 3 * q + 1 + 1 = 3 * q + 2
      /\ 3 * q + 2 \in 1..Len(bytes) /\ 3 * q + 2 < Len(bytes) /\ 3 * q + 2 + 1 = 3 * q + 3
      /\ 3 * q + 3 \in 1..Len(bytes)
  <2> HIDE DEF bytes
  <2> QED
    BY <1>1
<1> DEFINE p1 == Pair(bytes, 3 * q + 1)
           p2 == Pair(bytes, 3 * q + 2)
           p3 == Pair(bytes, 3 * q + 3)
           got == Characters(bytes, 4 * m)
<1>9. /\ got[4 * q + 1] = Alphabet[Sextet1(p1) + 1]
      /\ got[4 * q + 2] = Alphabet[Sextet2(p1) + 1]
      /\ got[4 * q + 3] = Alphabet[Sextet3(p2) + 1]
      /\ got[4 * q + 4] = Alphabet[Sextet4(p3) + 1]
  <2>1. /\ 4 * q + 1 \in 1..(4 * m) /\ 4 * q + 2 \in 1..(4 * m)
        /\ 4 * q + 3 \in 1..(4 * m) /\ 4 * q + 4 \in 1..(4 * m) /\ 4 * m \in Nat
    BY <1>6
  <2> HIDE DEF bytes
  <2> QED
    BY <1>6, <2>1, Quadlet, Zenon
<1> HIDE DEF bytes
<1>10. p1 = Joined(b1, b2) /\ p2 = Joined(b2, b3)
  <2>1. /\ p1 = Joined(b1, bytes[3 * q + 1 + 1])
        /\ p2 = Joined(b2, bytes[3 * q + 2 + 1])
    BY <1>1, <1>8, PairIsNatural, Zenon
  <2> QED
    BY <1>8, <2>1, Zenon
<1>11. PICK next \in Byte : p3 = Joined(b3, next)
  BY <1>1, <1>8, PairIsNatural
<1> HIDE DEF s1, s2, s3, s4, b1, b2, b3, p1, p2, p3, got
<1>12. /\ Sextet1(p1) = s1 /\ Sextet2(p1) = s2
       /\ Sextet3(p2) = s3 /\ Sextet4(p3) = s4
  <2>1. /\ Sextet1(Joined(Byte1(s1, s2), Byte2(s2, s3))) = s1
        /\ Sextet2(Joined(Byte1(s1, s2), Byte2(s2, s3))) = s2
        /\ Sextet3(Joined(Byte2(s2, s3), Byte3(s3, s4))) = s3
        /\ Sextet4(Joined(Byte3(s3, s4), next)) = s4
    BY <1>4, BitsOfThreeBytes, ZenonT(40)
  <2> QED
    BY <1>7, <1>10, <1>11, <2>1
<1>13. /\ got[4 * q + 1] = text[4 * q + 1] /\ got[4 * q + 2] = text[4 * q + 2]
       /\ got[4 * q + 3] = text[4 * q + 3] /\ got[4 * q + 4] = text[4 * q + 4]
  BY <1>5, <1>9, <1>12
<1> QED
  BY <1>2, <1>13 DEF got, bytes

(* An aligned text over the alphabet converts to binary and back without   *)
(* loss (conversion.rs).                                                   *)
THEOREM TextSurvivesBinary ==
  ASSUME NEW text \in Seq(DOMAIN Sextet), Decodable(text)
  PROVE  AllCharacters(Bytes(text)) = text
<1> DEFINE m == Len(text) \div 4
<1>1. m \in Nat /\ Len(text) = 4 * m
  BY DEF Decodable
<1> HIDE DEF m
<1> DEFINE back == AllCharacters(Bytes(text))
<1>2. back \in Seq(DOMAIN Sextet) /\ Len(back) = 4 * m
  BY <1>1, BytesOfText, TextOfBytes
<1>3. ASSUME NEW i \in 1..(4 * m)
      PROVE  back[i] = text[i]
  <2>1. PICK q \in 0..(m - 1) : i = 4 * q + 1 \/ i = 4 * q + 2 \/ i = 4 * q + 3 \/ i = 4 * q + 4
    BY <1>1, PlaceInQuadlet
  <2>2. /\ back[4 * q + 1] = text[4 * q + 1] /\ back[4 * q + 2] = text[4 * q + 2]
        /\ back[4 * q + 3] = text[4 * q + 3] /\ back[4 * q + 4] = text[4 * q + 4]
    BY <1>1, QuadletReturns
  <2> HIDE DEF back
  <2> QED
    BY <2>1, <2>2
<1> HIDE DEF back
<1>4. back = text
  BY <1>1, <1>2, <1>3
<1> QED
  BY <1>4 DEF back

(* A triplet of bytes comes back from its four characters.                 *)
LEMMA TripletReturns ==
  ASSUME NEW bytes \in Seq(Byte), NEW m \in Nat, Len(bytes) = 3 * m, NEW q \in 0..(m - 1)
  PROVE  /\ Bytes(AllCharacters(bytes))[3 * q + 1] = bytes[3 * q + 1]
         /\ Bytes(AllCharacters(bytes))[3 * q + 2] = bytes[3 * q + 2]
         /\ Bytes(AllCharacters(bytes))[3 * q + 3] = bytes[3 * q + 3]
<1> DEFINE text == AllCharacters(bytes)
           s1 == Sextet[text[4 * q + 1]]
           s2 == Sextet[text[4 * q + 2]]
           s3 == Sextet[text[4 * q + 3]]
           s4 == Sextet[text[4 * q + 4]]
           b1 == bytes[3 * q + 1]
           b2 == bytes[3 * q + 2]
           b3 == bytes[3 * q + 3]
           p1 == Pair(bytes, 3 * q + 1)
           p2 == Pair(bytes, 3 * q + 2)
           p3 == Pair(bytes, 3 * q + 3)
<1>1. /\ text = Characters(bytes, 4 * m)
      /\ text \in Seq(DOMAIN Sextet)
      /\ Len(text) = 4 * m
  BY TextOfBytes
<1>2. /\ 3 * q + 1 \in 1..Len(bytes) /\ 3 * q + 1 < Len(bytes) /\ 3 * q + 1 + 1 = 3 * q + 2
      /\ 3 * q + 2 \in 1..Len(bytes) /\ 3 * q + 2 < Len(bytes) /\ 3 * q + 2 + 1 = 3 * q + 3
      /\ 3 * q + 3 \in 1..Len(bytes)
  OBVIOUS
<1>3. b1 \in Byte /\ b2 \in Byte /\ b3 \in Byte
  BY <1>2, PairIsNatural
<1>4. p1 = Joined(b1, b2) /\ p2 = Joined(b2, b3)
  <2>1. /\ p1 = Joined(b1, bytes[3 * q + 1 + 1])
        /\ p2 = Joined(b2, bytes[3 * q + 2 + 1])
    BY <1>2, PairIsNatural, Zenon
  <2> QED
    BY <1>2, <2>1, Zenon
<1>5. PICK next \in Byte : p3 = Joined(b3, next)
  BY <1>2, PairIsNatural
<1>6. /\ 4 * q + 1 \in 1..(4 * m) /\ 4 * q + 2 \in 1..(4 * m)
      /\ 4 * q + 3 \in 1..(4 * m) /\ 4 * q + 4 \in 1..(4 * m)
      /\ 4 * m \in Nat /\ q \in Nat
  OBVIOUS
<1> DEFINE v1 == Sextet1(p1)
           v2 == Sextet2(p1)
           v3 == Sextet3(p2)
           v4 == Sextet4(p3)
<1>7. /\ text[4 * q + 1] = Alphabet[v1 + 1] /\ text[4 * q + 2] = Alphabet[v2 + 1]
      /\ text[4 * q + 3] = Alphabet[v3 + 1] /\ text[4 * q + 4] = Alphabet[v4 + 1]
  <2> HIDE DEF text
  <2> QED
    BY <1>1, <1>6, Quadlet, Zenon
<1> HIDE DEF text
<1>8. /\ Bytes(text)[3 * q + 1] = Byte1(s1, s2)
      /\ Bytes(text)[3 * q + 2] = Byte2(s2, s3)
      /\ Bytes(text)[3 * q + 3] = Byte3(s3, s4)
  <2>1. q \in Nat /\ 4 * q + 4 <= Len(text) /\ Len(text) % 4 = 0
    BY <1>1
  <2> QED
    BY <1>1, <2>1, Triplet, Zenon
<1> HIDE DEF p1, p2, p3, b1, b2, b3
<1>9. /\ v1 \in Sextets /\ v2 \in Sextets /\ v3 \in Sextets /\ v4 \in Sextets
      /\ Byte1(v1, v2) = b1
      /\ Byte2(v2, v3) = b2
      /\ Byte3(v3, v4) = b3
  <2> HIDE DEF v1, v2, v3, v4
  <2>1. /\ v1 = Sextet1(p1) /\ v2 = Sextet2(p1)
        /\ v3 = Sextet3(p2) /\ v4 = Sextet4(p3)
    BY DEF v1, v2, v3, v4
  <2> QED
    <3>1. /\ v1 = Sextet1(Joined(b1, b2)) /\ v2 = Sextet2(Joined(b1, b2))
          /\ v3 = Sextet3(Joined(b2, b3)) /\ v4 = Sextet4(Joined(b3, next))
      BY <1>4, <1>5, <2>1
    <3> QED
      BY <1>3, <3>1, BitsOfFourSextets, ZenonT(40)
<1> HIDE DEF v1, v2, v3, v4
<1>10. s1 = v1 /\ s2 = v2 /\ s3 = v3 /\ s4 = v4
  BY <1>7, <1>9, SextetIsPlace DEF Sextets
<1> HIDE DEF s1, s2, s3, s4
<1>11. /\ Bytes(text)[3 * q + 1] = b1
       /\ Bytes(text)[3 * q + 2] = b2
       /\ Bytes(text)[3 * q + 3] = b3
  BY <1>8, <1>9, <1>10
<1> QED
  BY <1>11 DEF text, b1, b2, b3

(* An aligned stream of bytes converts to text and back without loss.      *)
THEOREM BinarySurvivesText ==
  ASSUME NEW bytes \in Seq(Byte), Encodable(bytes)
  PROVE  Bytes(AllCharacters(bytes)) = bytes
<1> DEFINE m == Len(bytes) \div 3
<1>1. m \in Nat /\ Len(bytes) = 3 * m
  BY DEF Encodable
<1> HIDE DEF m
<1> DEFINE back == Bytes(AllCharacters(bytes))
<1>2. back \in Seq(Byte) /\ Len(back) = 3 * m
  BY <1>1, BytesOfText, TextOfBytes
<1>3. ASSUME NEW i \in 1..(3 * m)
      PROVE  back[i] = bytes[i]
  <2>1. PICK q \in 0..(m - 1) : i = 3 * q + 1 \/ i = 3 * q + 2 \/ i = 3 * q + 3
    BY <1>1, PlaceInTriplet
  <2>2. /\ back[3 * q + 1] = bytes[3 * q + 1] /\ back[3 * q + 2] = bytes[3 * q + 2]
        /\ back[3 * q + 3] = bytes[3 * q + 3]
    BY <1>1, TripletReturns
  <2> HIDE DEF back
  <2> QED
    BY <2>1, <2>2
<1> HIDE DEF back
<1>4. back = bytes
  BY <1>1, <1>2, <1>3
<1> QED
  BY <1>4 DEF back

(* The length of an aligned text, and of an aligned stream of bytes.       *)
LEMMA Aligned ==
  /\ \A text \in Seq(DOMAIN Sextet) :
       Decodable(text) => \E m \in Nat : Len(text) = 4 * m
  /\ \A bytes \in Seq(Byte) :
       Encodable(bytes) => \E m \in Nat : Len(bytes) = 3 * m
<1>1. ASSUME NEW text \in Seq(DOMAIN Sextet), Decodable(text)
      PROVE  \E m \in Nat : Len(text) = 4 * m
  <2> DEFINE m == Len(text) \div 4
  <2>1. m \in Nat /\ Len(text) = 4 * m
    BY <1>1 DEF Decodable
  <2> HIDE DEF m
  <2> QED
    BY <2>1
<1>2. ASSUME NEW bytes \in Seq(Byte), Encodable(bytes)
      PROVE  \E m \in Nat : Len(bytes) = 3 * m
  <2> DEFINE m == Len(bytes) \div 3
  <2>1. m \in Nat /\ Len(bytes) = 3 * m
    BY <1>2 DEF Encodable
  <2> HIDE DEF m
  <2> QED
    BY <2>1
<1> QED
  BY <1>1, <1>2

(* One sequence after the other.                                           *)
LEMMA OneAfterTheOther ==
  ASSUME NEW S, NEW a \in Seq(S), NEW b \in Seq(S)
  PROVE  /\ a \o b \in Seq(S)
         /\ Len(a \o b) = Len(a) + Len(b)
         /\ \A i \in 1..Len(a) : (a \o b)[i] = a[i]
         /\ \A i \in 1..Len(b) : (a \o b)[Len(a) + i] = b[i]
<1>1. a \o b \in Seq(S)
  OBVIOUS
<1>2. Len(a \o b) = Len(a) + Len(b)
  OBVIOUS
<1>3. \A i \in 1..Len(a) : (a \o b)[i] = a[i]
  OBVIOUS
<1>4. \A i \in 1..Len(b) : (a \o b)[Len(a) + i] = b[i]
  OBVIOUS
<1> QED
  BY <1>1, <1>2, <1>3, <1>4

(* Aligned texts one after the other are the bytes of each, one after the  *)
(* other: primitives are composed in either form (conversion.rs).          *)
THEOREM TextComposes ==
  ASSUME NEW a \in Seq(DOMAIN Sextet), Decodable(a),
         NEW b \in Seq(DOMAIN Sextet), Decodable(b)
  PROVE  Bytes(a \o b) = Bytes(a) \o Bytes(b)
<1>1. PICK m \in Nat : Len(a) = 4 * m
  BY Aligned
<1>2. PICK n \in Nat : Len(b) = 4 * n
  BY Aligned
<1> DEFINE ab == a \o b
           left == Bytes(ab)
           right == Bytes(a) \o Bytes(b)
<1>3. ab \in Seq(DOMAIN Sextet) /\ Len(ab) = 4 * (m + n) /\ m + n \in Nat
  <2>1. ab \in Seq(DOMAIN Sextet) /\ Len(ab) = Len(a) + Len(b)
    BY OneAfterTheOther
  <2> HIDE DEF ab
  <2> QED
    BY <1>1, <1>2, <2>1
<1>4. left \in Seq(Byte) /\ Len(left) = 3 * (m + n)
  <2> HIDE DEF ab
  <2> QED
    BY <1>3, BytesOfText
<1>5. Bytes(a) \in Seq(Byte) /\ Len(Bytes(a)) = 3 * m
  BY <1>1, BytesOfText
<1>6. Bytes(b) \in Seq(Byte) /\ Len(Bytes(b)) = 3 * n
  BY <1>2, BytesOfText
<1>7. right \in Seq(Byte) /\ Len(right) = 3 * (m + n)
  <2>1. right \in Seq(Byte) /\ Len(right) = Len(Bytes(a)) + Len(Bytes(b))
    BY <1>5, <1>6, OneAfterTheOther
  <2> HIDE DEF right
  <2> QED
    BY <1>5, <1>6, <2>1
<1>8. ASSUME NEW q \in 0..((m + n) - 1)
      PROVE  /\ left[3 * q + 1] = right[3 * q + 1]
             /\ left[3 * q + 2] = right[3 * q + 2]
             /\ left[3 * q + 3] = right[3 * q + 3]
  <2>1. /\ left[3 * q + 1] = Byte1(Sextet[ab[4 * q + 1]], Sextet[ab[4 * q + 2]])
        /\ left[3 * q + 2] = Byte2(Sextet[ab[4 * q + 2]], Sextet[ab[4 * q + 3]])
        /\ left[3 * q + 3] = Byte3(Sextet[ab[4 * q + 3]], Sextet[ab[4 * q + 4]])
    <3>1. q \in Nat /\ 4 * q + 4 <= Len(ab) /\ Len(ab) % 4 = 0
      <4> HIDE DEF ab
      <4> QED
        BY <1>3
    <3> HIDE DEF ab
    <3> QED
      BY <1>3, <3>1, Triplet, Zenon
  <2>2. CASE q < m
    <3>1. /\ ab[4 * q + 1] = a[4 * q + 1] /\ ab[4 * q + 2] = a[4 * q + 2]
          /\ ab[4 * q + 3] = a[4 * q + 3] /\ ab[4 * q + 4] = a[4 * q + 4]
      <4>1. /\ 4 * q + 1 \in 1..Len(a) /\ 4 * q + 2 \in 1..Len(a)
            /\ 4 * q + 3 \in 1..Len(a) /\ 4 * q + 4 \in 1..Len(a)
        BY <1>1, <2>2
      <4>2. \A i \in 1..Len(a) : ab[i] = a[i]
        OBVIOUS
      <4> HIDE DEF ab
      <4> QED
        BY <4>1, <4>2, Zenon
    <3>2. /\ Bytes(a)[3 * q + 1] = Byte1(Sextet[a[4 * q + 1]], Sextet[a[4 * q + 2]])
          /\ Bytes(a)[3 * q + 2] = Byte2(Sextet[a[4 * q + 2]], Sextet[a[4 * q + 3]])
          /\ Bytes(a)[3 * q + 3] = Byte3(Sextet[a[4 * q + 3]], Sextet[a[4 * q + 4]])
      <4>1. q \in Nat /\ 4 * q + 4 <= Len(a) /\ Len(a) % 4 = 0
        BY <1>1, <2>2
      <4> QED
        BY <4>1, Triplet, Zenon
    <3>3. /\ right[3 * q + 1] = Bytes(a)[3 * q + 1]
          /\ right[3 * q + 2] = Bytes(a)[3 * q + 2]
          /\ right[3 * q + 3] = Bytes(a)[3 * q + 3]
      <4>1. /\ 3 * q + 1 \in 1..Len(Bytes(a)) /\ 3 * q + 2 \in 1..Len(Bytes(a))
            /\ 3 * q + 3 \in 1..Len(Bytes(a))
        BY <1>5, <2>2
      <4>2. \A i \in 1..Len(Bytes(a)) : right[i] = Bytes(a)[i]
        BY <1>5, <1>6
      <4> HIDE DEF right
      <4> QED
        BY <4>1, <4>2, Zenon
    <3> HIDE DEF left, right, ab
    <3> QED
      BY <2>1, <3>1, <3>2, <3>3, Zenon
  <2>3. CASE ~(q < m)
    <3> DEFINE p == q - m
    <3>0. p \in 0..(n - 1) /\ q = m + p
      BY <2>3
    <3> HIDE DEF p
    <3>1. /\ ab[4 * q + 1] = b[4 * p + 1] /\ ab[4 * q + 2] = b[4 * p + 2]
          /\ ab[4 * q + 3] = b[4 * p + 3] /\ ab[4 * q + 4] = b[4 * p + 4]
      <4>1. /\ 4 * p + 1 \in 1..Len(b) /\ 4 * p + 2 \in 1..Len(b)
            /\ 4 * p + 3 \in 1..Len(b) /\ 4 * p + 4 \in 1..Len(b)
        BY <1>2, <3>0
      <4>2. /\ ab[4 * m + (4 * p + 1)] = b[4 * p + 1] /\ ab[4 * m + (4 * p + 2)] = b[4 * p + 2]
            /\ ab[4 * m + (4 * p + 3)] = b[4 * p + 3] /\ ab[4 * m + (4 * p + 4)] = b[4 * p + 4]
        <5>1. \A i \in 1..Len(b) : ab[Len(a) + i] = b[i]
          BY OneAfterTheOther
        <5> HIDE DEF ab
        <5>2. \A i \in 1..Len(b) : ab[4 * m + i] = b[i]
          BY <1>1, <5>1, Zenon
        <5> QED
          BY <4>1, <5>2, Zenon
      <4>3. /\ 4 * q + 1 = 4 * m + (4 * p + 1) /\ 4 * q + 2 = 4 * m + (4 * p + 2)
            /\ 4 * q + 3 = 4 * m + (4 * p + 3) /\ 4 * q + 4 = 4 * m + (4 * p + 4)
        BY <3>0
      <4> HIDE DEF ab
      <4> QED
        BY <4>1, <4>2, <4>3
    <3>2. /\ Bytes(b)[3 * p + 1] = Byte1(Sextet[b[4 * p + 1]], Sextet[b[4 * p + 2]])
          /\ Bytes(b)[3 * p + 2] = Byte2(Sextet[b[4 * p + 2]], Sextet[b[4 * p + 3]])
          /\ Bytes(b)[3 * p + 3] = Byte3(Sextet[b[4 * p + 3]], Sextet[b[4 * p + 4]])
      <4>1. p \in Nat /\ 4 * p + 4 <= Len(b) /\ Len(b) % 4 = 0
        BY <1>2, <3>0
      <4> QED
        BY <4>1, Triplet, Zenon
    <3>3. /\ right[3 * q + 1] = Bytes(b)[3 * p + 1]
          /\ right[3 * q + 2] = Bytes(b)[3 * p + 2]
          /\ right[3 * q + 3] = Bytes(b)[3 * p + 3]
      <4>1. /\ 3 * p + 1 \in 1..Len(Bytes(b)) /\ 3 * p + 2 \in 1..Len(Bytes(b))
            /\ 3 * p + 3 \in 1..Len(Bytes(b))
        BY <1>6, <3>0
      <4>2. /\ right[3 * m + (3 * p + 1)] = Bytes(b)[3 * p + 1]
            /\ right[3 * m + (3 * p + 2)] = Bytes(b)[3 * p + 2]
            /\ right[3 * m + (3 * p + 3)] = Bytes(b)[3 * p + 3]
        <5>1. \A i \in 1..Len(Bytes(b)) : right[Len(Bytes(a)) + i] = Bytes(b)[i]
          <6> DEFINE x == Bytes(a)
                     y == Bytes(b)
          <6>1. x \in Seq(Byte) /\ y \in Seq(Byte)
            BY <1>5, <1>6
          <6> HIDE DEF x, y
          <6>2. \A i \in 1..Len(y) : (x \o y)[Len(x) + i] = y[i]
            BY <6>1, OneAfterTheOther
          <6> QED
            BY <6>2 DEF x, y
        <5> HIDE DEF right
        <5>2. \A i \in 1..Len(Bytes(b)) : right[3 * m + i] = Bytes(b)[i]
          BY <1>5, <5>1, Zenon
        <5> QED
          BY <4>1, <5>2, Zenon
      <4>3. /\ 3 * q + 1 = 3 * m + (3 * p + 1) /\ 3 * q + 2 = 3 * m + (3 * p + 2)
            /\ 3 * q + 3 = 3 * m + (3 * p + 3)
        BY <3>0
      <4> HIDE DEF right
      <4> QED
        BY <4>1, <4>2, <4>3
    <3> HIDE DEF left, right, ab
    <3> QED
      BY <2>1, <3>1, <3>2, <3>3, Zenon
  <2> QED
    BY <2>2, <2>3
<1> HIDE DEF left, right
<1>9. ASSUME NEW i \in 1..(3 * (m + n))
      PROVE  left[i] = right[i]
  <2>1. PICK q \in 0..((m + n) - 1) : i = 3 * q + 1 \/ i = 3 * q + 2 \/ i = 3 * q + 3
    <3> DEFINE k == m + n
    <3>1. k \in Nat /\ i \in 1..(3 * k)
      BY <1>3
    <3> HIDE DEF k
    <3>2. \E q \in 0..(k - 1) : i = 3 * q + 1 \/ i = 3 * q + 2 \/ i = 3 * q + 3
      BY <3>1, PlaceInTriplet, Zenon
    <3> QED
      BY <3>2 DEF k
  <2> QED
    BY <1>8, <2>1
<1>10. left = right
  BY <1>3, <1>4, <1>7, <1>9
<1> QED
  BY <1>10 DEF left, right

(* And the other way.                                                      *)
THEOREM BinaryComposes ==
  ASSUME NEW a \in Seq(Byte), Encodable(a),
         NEW b \in Seq(Byte), Encodable(b)
  PROVE  AllCharacters(a \o b) = AllCharacters(a) \o AllCharacters(b)
<1>1. PICK m \in Nat : Len(a) = 3 * m
  BY Aligned
<1>2. PICK n \in Nat : Len(b) = 3 * n
  BY Aligned
<1> DEFINE x == AllCharacters(a)
           y == AllCharacters(b)
<1>3. x \in Seq(DOMAIN Sextet) /\ Len(x) = 4 * m /\ Bytes(x) = a
  BY <1>1, TextOfBytes, BinarySurvivesText
<1>4. y \in Seq(DOMAIN Sextet) /\ Len(y) = 4 * n /\ Bytes(y) = b
  BY <1>2, TextOfBytes, BinarySurvivesText
<1> HIDE DEF x, y
<1>5. ASSUME NEW text \in Seq(DOMAIN Sextet), NEW k \in Nat, Len(text) = 4 * k
      PROVE  Decodable(text)
  BY <1>5 DEF Decodable, InAlphabet
<1>6. Decodable(x) /\ Decodable(y)
  BY <1>3, <1>4, <1>5
<1>7. x \o y \in Seq(DOMAIN Sextet) /\ Len(x \o y) = 4 * (m + n) /\ m + n \in Nat
  <2> DEFINE xy == x \o y
  <2>1. xy \in Seq(DOMAIN Sextet) /\ Len(xy) = Len(x) + Len(y)
    BY <1>3, <1>4, OneAfterTheOther
  <2> HIDE DEF xy
  <2>2. xy \in Seq(DOMAIN Sextet) /\ Len(xy) = 4 * (m + n) /\ m + n \in Nat
    BY <1>3, <1>4, <2>1
  <2> QED
    BY <2>2 DEF xy
<1>8. Decodable(x \o y)
  BY <1>5, <1>7, Zenon
<1>9. Bytes(x \o y) = a \o b
  BY <1>3, <1>4, <1>6, TextComposes, Zenon
<1>10. AllCharacters(Bytes(x \o y)) = x \o y
  BY <1>7, <1>8, TextSurvivesBinary, Zenon
<1> QED
  BY <1>9, <1>10 DEF x, y

-----------------------------------------------------------------------------
(* Codes and their sizes.                                                  *)

(* Codes of one, two and four characters.                                  *)
LEMMA CodeLengths ==
  /\ \A last : \A c \in One(last) : Len(c) = 1
  /\ \A first, last : \A c \in Two(first, last) : Len(c) = 2
  /\ \A first, last : \A c \in Four(first, last) : Len(c) = 4
  /\ \A first, last : \A c \in Test(first, last) : Len(c) = 4
BY DEF One, Two, Four, Test

(* A size a code of that many characters can have.                         *)
SizeFits(size) ==
  /\ size.hs \in {1, 2, 4} /\ size.ss \in Nat /\ size.xs \in Nat /\ size.fs \in Nat /\ size.ls \in 0..2
  /\ size.xs <= size.ss
  /\ size.fs = Variable => (size.hs + size.ss) % 4 = 0
  /\ size.fs # Variable => size.fs % 4 = 0 /\ size.fs >= size.hs + size.ss + size.ls

(* A size and the codes that have it.                                      *)
RowFits(row) == SizeFits(row[2]) /\ \A c \in row[1] : Len(c) = row[2].hs

(* The sizes are sizes, each of codes as long as it says.                 *)
LEMMA RowsFit == \A row \in Sizes : RowFits(row)
<1>1. \A last, size : SizeFits(size) /\ size.hs = 1 => RowFits(<<One(last), size>>)
  BY CodeLengths DEF RowFits
<1>2. \A first, last, size : SizeFits(size) /\ size.hs = 2 => RowFits(<<Two(first, last), size>>)
  BY CodeLengths DEF RowFits
<1>3. \A first, last, size : SizeFits(size) /\ size.hs = 4 => /\ RowFits(<<Four(first, last), size>>)
                                                            /\ RowFits(<<Test(first, last), size>>)
  BY CodeLengths DEF RowFits
<1>7. \A hs, ss, xs, fs, ls : Size(hs, ss, xs, fs, ls).hs = hs
  BY DEF Size
<1>4. /\ SizeFits(Size(1, 0, 0, 44, 0)) /\ SizeFits(Size(1, 0, 0, 76, 0)) /\ SizeFits(Size(1, 0, 0, 4, 0))
      /\ SizeFits(Size(1, 0, 0, 12, 0)) /\ SizeFits(Size(1, 0, 0, 124, 0)) /\ SizeFits(Size(1, 0, 0, 8, 0))
      /\ SizeFits(Size(1, 0, 0, 16, 0)) /\ SizeFits(Size(1, 0, 0, 20, 0)) /\ SizeFits(Size(1, 0, 0, 24, 0))
      /\ SizeFits(Size(1, 0, 0, 4, 1)) /\ SizeFits(Size(1, 3, 0, 4, 0)) /\ SizeFits(Size(1, 7, 0, 8, 0))
      /\ SizeFits(Size(1, 11, 0, 12, 0))
  BY SMT DEF SizeFits, Size, Variable
<1>5. /\ SizeFits(Size(2, 0, 0, 24, 0)) /\ SizeFits(Size(2, 0, 0, 8, 0)) /\ SizeFits(Size(2, 0, 0, 88, 0))
      /\ SizeFits(Size(2, 2, 1, 4, 0)) /\ SizeFits(Size(2, 2, 0, 4, 0)) /\ SizeFits(Size(2, 6, 1, 8, 0))
      /\ SizeFits(Size(2, 6, 0, 8, 0)) /\ SizeFits(Size(2, 10, 1, 12, 0)) /\ SizeFits(Size(2, 10, 0, 12, 0))
      /\ SizeFits(Size(2, 22, 0, 32, 0)) /\ SizeFits(Size(2, 22, 0, 28, 0)) /\ SizeFits(Size(2, 22, 0, 76, 0))
      /\ SizeFits(Size(2, 22, 0, 72, 0))
      /\ SizeFits(Size(2, 2, 0, Variable, 0)) /\ SizeFits(Size(2, 2, 0, Variable, 1)) /\ SizeFits(Size(2, 2, 0, Variable, 2))
  BY SMT DEF SizeFits, Size, Variable
<1>6. /\ SizeFits(Size(4, 0, 0, 48, 0)) /\ SizeFits(Size(4, 0, 0, 80, 0)) /\ SizeFits(Size(4, 0, 0, 156, 0))
      /\ SizeFits(Size(4, 4, 0, 8, 0)) /\ SizeFits(Size(4, 0, 0, 36, 0)) /\ SizeFits(Size(4, 0, 0, 100, 0))
      /\ SizeFits(Size(4, 0, 0, 4, 0)) /\ SizeFits(Size(4, 8, 0, 12, 0))
      /\ SizeFits(Size(4, 2, 0, 12, 0)) /\ SizeFits(Size(4, 0, 0, 8, 0)) /\ SizeFits(Size(4, 2, 1, 12, 1))
      /\ SizeFits(Size(4, 0, 0, 8, 1)) /\ SizeFits(Size(4, 2, 0, 12, 2)) /\ SizeFits(Size(4, 0, 0, 8, 2))
      /\ SizeFits(Size(4, 4, 0, Variable, 0)) /\ SizeFits(Size(4, 4, 0, Variable, 1)) /\ SizeFits(Size(4, 4, 0, Variable, 2))
  BY SMT DEF SizeFits, Size, Variable
<1>8. ASSUME NEW row \in Sizes
      PROVE  RowFits(row)
  <2>1. \/ \E last, size : SizeFits(size) /\ size.hs = 1 /\ row = <<One(last), size>>
        \/ \E first, last, size : SizeFits(size) /\ size.hs = 2 /\ row = <<Two(first, last), size>>
        \/ \E first, last, size : SizeFits(size) /\ size.hs = 4 /\ row = <<Four(first, last), size>>
        \/ \E first, last, size : SizeFits(size) /\ size.hs = 4 /\ row = <<Test(first, last), size>>
    BY <1>4, <1>5, <1>6, <1>7, SMTT(60) DEF Sizes
  <2>2. CASE \E last, size : SizeFits(size) /\ size.hs = 1 /\ row = <<One(last), size>>
    BY <1>1, <2>2, Zenon
  <2>3. CASE \E first, last, size : SizeFits(size) /\ size.hs = 2 /\ row = <<Two(first, last), size>>
    BY <1>2, <2>3, Zenon
  <2>4. CASE \E first, last, size : SizeFits(size) /\ size.hs = 4 /\ row = <<Four(first, last), size>>
    BY <1>3, <2>4, Zenon
  <2>5. CASE \E first, last, size : SizeFits(size) /\ size.hs = 4 /\ row = <<Test(first, last), size>>
    BY <1>3, <2>5, Zenon
  <2> QED
    BY <2>1, <2>2, <2>3, <2>4, <2>5, Zenon
<1> QED
  BY <1>8

(* Every code has a size that fits it.                                     *)
LEMMA SizageFits ==
  ASSUME NEW code \in MatterCodes
  PROVE  SizeFits(Sizage[code]) /\ Len(code) = Sizage[code].hs
<1>1. PICK r \in Sizes : code \in r[1]
  BY DEF MatterCodes
<1> DEFINE row == CHOOSE row \in Sizes : code \in row[1]
<1>2. row \in Sizes /\ code \in row[1]
  BY <1>1
<1>3. Sizage[code] = row[2]
  BY DEF Sizage
<1> HIDE DEF row
<1>4. RowFits(row)
  BY <1>2, RowsFit
<1> QED
  BY <1>2, <1>3, <1>4 DEF RowFits

-----------------------------------------------------------------------------
(* Reading the head of a text.                                             *)

(* A part of a sequence.                                                   *)
LEMMA PartOf ==
  ASSUME NEW S, NEW s \in Seq(S), NEW first \in Nat \ {0}, NEW last \in Nat, last <= Len(s), first <= last + 1
  PROVE  /\ SubSeq(s, first, last) \in Seq(S)
         /\ Len(SubSeq(s, first, last)) = last - first + 1
         /\ \A i \in 1..(last - first + 1) : SubSeq(s, first, last)[i] = s[first + i - 1]
<1>1. SubSeq(s, first, last) \in Seq(S)
  OBVIOUS
<1>2. Len(SubSeq(s, first, last)) = last - first + 1
  OBVIOUS
<1>3. \A i \in 1..(last - first + 1) : SubSeq(s, first, last)[i] = s[first + i - 1]
  OBVIOUS
<1> QED
  BY <1>1, <1>2, <1>3

(* A part of a head is a part of the whole.                                *)
LEMMA PartOfHead ==
  ASSUME NEW S, NEW s \in Seq(S), NEW n \in 0..Len(s), NEW first \in Nat \ {0}, NEW last \in 0..n, first <= last + 1
  PROVE  SubSeq(SubSeq(s, 1, n), first, last) = SubSeq(s, first, last)
<1> DEFINE t == SubSeq(s, 1, n)
           a == SubSeq(t, first, last)
           b == SubSeq(s, first, last)
<1>1. t \in Seq(S) /\ Len(t) = n /\ \A i \in 1..n : t[i] = s[i]
  <2>1. n - 1 + 1 = n /\ \A i \in 1..n : 1 + i - 1 = i
    OBVIOUS
  <2> QED
    BY <2>1, PartOf
<1> HIDE DEF t
<1>2. /\ a \in Seq(S) /\ Len(a) = last - first + 1
      /\ \A i \in 1..(last - first + 1) : a[i] = t[first + i - 1]
  BY <1>1, PartOf
<1>3. /\ b \in Seq(S) /\ Len(b) = last - first + 1
      /\ \A i \in 1..(last - first + 1) : b[i] = s[first + i - 1]
  BY PartOf
<1> HIDE DEF a, b
<1>4. ASSUME NEW i \in 1..(last - first + 1)
      PROVE  a[i] = b[i]
  <2>1. first + i - 1 \in 1..n
    OBVIOUS
  <2>2. t[first + i - 1] = s[first + i - 1]
    BY <1>1, <2>1
  <2> QED
    BY <1>2, <1>3, <2>2
<1>5. a = b
  BY <1>2, <1>3, <1>4
<1> QED
  BY <1>5 DEF a, b, t

(* The digits of a number are a number.                                    *)
LEMMA DecodeIntIsNatural ==
  ASSUME NEW S, NEW text \in Seq(S), InAlphabet(text)
  PROVE  DecodeInt(text) \in Nat
<1> DEFINE digit(n) == IF n < Len(text) THEN Sextet[text[Len(text) - n]] ELSE 0
<1>1. \A n \in Nat : digit(n) \in Nat
  <2>1. ASSUME NEW n \in Nat, n < Len(text)
        PROVE  Sextet[text[Len(text) - n]] \in Nat
    <3>1. Len(text) - n \in DOMAIN text
      BY <2>1
    <3>2. text[Len(text) - n] \in DOMAIN Sextet
      BY <3>1 DEF InAlphabet
    <3>3. Sextet[text[Len(text) - n]] \in 0..63
      BY <3>2, SextetIsPlace, Zenon
    <3>4. \A v \in 0..63 : v \in Nat
      OBVIOUS
    <3> QED
      BY <3>3, <3>4, Zenon
  <2> QED
    BY <2>1
<1>2. DecodeInt(text) = digit(0) + 64 * digit(1) + 64 ^ 2 * digit(2) + 64 ^ 3 * digit(3)
  BY Zenon DEF DecodeInt
<1>3. 64 ^ 2 = 4096 /\ 64 ^ 3 = 262144
  BY SMT
<1> HIDE DEF digit
<1>4. digit(0) \in Nat /\ digit(1) \in Nat /\ digit(2) \in Nat /\ digit(3) \in Nat
  BY <1>1
<1>5. \A a, b, c, d \in Nat : a + 64 * b + 4096 * c + 262144 * d \in Nat
  BY SMT
<1>6. digit(0) + 64 * digit(1) + 4096 * digit(2) + 262144 * digit(3) \in Nat
  BY <1>4, <1>5, SMTT(30)
<1> QED
  BY <1>2, <1>3, <1>6, SMT

(* The soft part of a text, and its whole size.                            *)
SoftOf(size, text) == SubSeq(text, size.hs + size.xs + 1, CodeChars(size))

FullOf(size, text) ==
  IF size.fs # Variable THEN size.fs ELSE FullSize(DecodeInt(SoftOf(size, text)), CodeChars(size))

(* A code whose size fits announces a whole of quadlets that holds it.     *)
LEMMA FullFits ==
  ASSUME NEW size, SizeFits(size), NEW S, NEW text \in Seq(S),
         size.fs = Variable => CodeChars(size) <= Len(text) /\ InAlphabet(SoftOf(size, text))
  PROVE  /\ CodeChars(size) \in Nat
         /\ size.hs <= CodeChars(size)
         /\ FullOf(size, text) \in Nat
         /\ FullOf(size, text) % 4 = 0
         /\ FullOf(size, text) >= CodeChars(size)
<1> DEFINE cs == CodeChars(size)
           soft == SoftOf(size, text)
<1>1. cs \in Nat /\ size.hs <= cs
  BY DEF CodeChars, SizeFits
<1>2. CASE size.fs # Variable
  BY <1>1, <1>2 DEF SizeFits, FullOf, CodeChars
<1>3. CASE size.fs = Variable
  <2>1. soft \in Seq(S)
    BY <1>1, <1>3, PartOf, SMTT(30) DEF SizeFits, SoftOf, CodeChars
  <2> DEFINE d == DecodeInt(soft)
  <2>2. d \in Nat
    BY <1>3, <2>1, DecodeIntIsNatural
  <2> HIDE DEF soft
  <2>3. FullOf(size, text) = d * 4 + cs
    BY <1>3 DEF FullOf, FullSize, soft
  <2>4. cs % 4 = 0
    BY <1>3 DEF SizeFits, CodeChars
  <2> HIDE DEF d, cs
  <2> QED
    BY <1>1, <2>2, <2>3, <2>4 DEF cs
<1> QED
  BY <1>2, <1>3

(* The length of a code.                                                   *)
LEMMA HardSizeIs == \A c : HardSize(c) \in {0, 1, 2, 4}
BY DEF HardSize

(* A code that is read is a code, and is there.                            *)
LEMMA CodeReads ==
  ASSUME NEW S, NEW text \in Seq(S), CodeAt(text).verdict = "Ok"
  PROVE  /\ text # <<>>
         /\ HardSize(text[1]) \in {1, 2, 4}
         /\ HardSize(text[1]) <= Len(text)
         /\ SubSeq(text, 1, HardSize(text[1])) \in MatterCodes
         /\ CodeAt(text) = [verdict |-> "Ok", code |-> SubSeq(text, 1, HardSize(text[1]))]
<1> DEFINE hs == HardSize(text[1])
           code == SubSeq(text, 1, hs)
<1>1. hs \in {0, 1, 2, 4}
  BY HardSizeIs
<1>2. NeedBytes.verdict # "Ok" /\ Malformed.verdict # "Ok"
  BY DEF NeedBytes, Malformed
<1>3. CodeAt(text) =
        CASE text = <<>> -> NeedBytes
          [] text # <<>> /\ hs = 0 -> Malformed
          [] text # <<>> /\ hs > Len(text) -> NeedBytes
          [] OTHER -> IF code \in MatterCodes THEN [verdict |-> "Ok", code |-> code] ELSE Malformed
  BY DEF CodeAt
<1> HIDE DEF hs, code
<1>4. text # <<>>
  BY <1>2, <1>3
<1>5. hs # 0
  BY <1>2, <1>3, <1>4
<1>6. hs <= Len(text)
  <2>1. SUFFICES ASSUME hs > Len(text) PROVE FALSE
    BY <1>1
  <2> QED
    BY <1>2, <1>3, <1>4, <1>5, <2>1
<1>7. CodeAt(text) = IF code \in MatterCodes THEN [verdict |-> "Ok", code |-> code] ELSE Malformed
  <2>1. ~(hs > Len(text))
    BY <1>1, <1>6
  <2> QED
    BY <1>3, <1>4, <1>5, <2>1
<1> QED
  BY <1>1, <1>2, <1>4, <1>5, <1>6, <1>7 DEF hs, code

(* And is read from any head of the text that holds it.                    *)
LEMMA CodeReadsAlike ==
  ASSUME NEW S, NEW text \in Seq(S), CodeAt(text).verdict = "Ok", NEW n \in 0..Len(text)
  PROVE  CodeAt(SubSeq(text, 1, n)) = IF HardSize(text[1]) <= n THEN CodeAt(text) ELSE NeedBytes
<1> DEFINE head == SubSeq(text, 1, n)
           hs == HardSize(text[1])
<1>1. /\ hs \in {1, 2, 4} /\ SubSeq(text, 1, hs) \in MatterCodes
      /\ CodeAt(text) = [verdict |-> "Ok", code |-> SubSeq(text, 1, hs)]
  BY CodeReads
<1>2. head \in Seq(S) /\ Len(head) = n
  <2>1. n - 1 + 1 = n
    OBVIOUS
  <2> QED
    BY <2>1, PartOf
<1>3. CASE n = 0
  <2>1. head = <<>>
    BY <1>2, <1>3
  <2>2. ~(hs <= n)
    BY <1>1, <1>3
  <2>3. CodeAt(head) = NeedBytes
    BY <2>1 DEF CodeAt
  <2> QED
    BY <2>2, <2>3
<1>4. CASE n > 0
  <2>1. head # <<>>
    BY <1>2, <1>4
  <2>2. head[1] = text[1]
    BY <1>4, PartOf
  <2> HIDE DEF head
  <2>3. HardSize(head[1]) = hs
    BY <2>2
  <2>4. CodeAt(head) =
          CASE head = <<>> -> NeedBytes
            [] head # <<>> /\ hs = 0 -> Malformed
            [] head # <<>> /\ hs > Len(head) -> NeedBytes
            [] OTHER -> IF SubSeq(head, 1, hs) \in MatterCodes
                        THEN [verdict |-> "Ok", code |-> SubSeq(head, 1, hs)]
                        ELSE Malformed
    <3> HIDE DEF hs
    <3> QED
      BY <2>3 DEF CodeAt
  <2> HIDE DEF hs
  <2>5. ASSUME hs <= n
        PROVE  CodeAt(head) = CodeAt(text)
    <3>1. SubSeq(head, 1, hs) = SubSeq(text, 1, hs)
      BY <1>1, <2>5, PartOfHead DEF head
    <3>2. hs # 0 /\ ~(hs > Len(head))
      BY <1>1, <1>2, <2>5
    <3> QED
      BY <1>1, <2>1, <2>4, <2>5, <3>1, <3>2
  <2>6. ASSUME ~(hs <= n)
        PROVE  CodeAt(head) = NeedBytes
    <3>1. hs # 0 /\ hs > Len(head)
      BY <1>1, <1>2, <2>6
    <3> QED
      BY <2>1, <2>4, <2>6, <3>1
  <2> QED
    BY <2>5, <2>6 DEF hs, head
<1> QED
  BY <1>3, <1>4

(* The size of a primitive, as far as the text tells it.                   *)
LEMMA FrameReads ==
  ASSUME NEW size, SizeFits(size), NEW S, NEW text \in Seq(S)
  PROVE  /\ (size.fs = Variable => CodeChars(size) <= Len(text) /\ InAlphabet(SoftOf(size, text))) =>
              FrameSizeOf(size, text) = [verdict |-> "Ok", size |-> FullOf(size, text)]
         /\ size.fs = Variable /\ ~(CodeChars(size) <= Len(text)) => FrameSizeOf(size, text) = NeedBytes
         /\ size.fs = Variable /\ CodeChars(size) <= Len(text) /\ ~InAlphabet(SoftOf(size, text)) =>
              FrameSizeOf(size, text) = Malformed
<1> DEFINE cs == CodeChars(size)
           soft == SoftOf(size, text)
           full == FullOf(size, text)
<1>1. FrameSizeOf(size, text) =
        CASE size.fs # Variable -> [verdict |-> "Ok", size |-> size.fs]
          [] size.fs = Variable /\ Len(text) < cs -> NeedBytes
          [] OTHER -> IF InAlphabet(soft)
                      THEN [verdict |-> "Ok", size |-> FullSize(DecodeInt(soft), cs)]
                      ELSE Malformed
  BY DEF FrameSizeOf, SoftOf
<1>2. cs \in Nat /\ Len(text) \in Nat
  BY DEF SizeFits, CodeChars
<1>3. full = IF size.fs # Variable THEN size.fs ELSE FullSize(DecodeInt(soft), cs)
  BY DEF FullOf
<1> HIDE DEF cs, soft, full
<1>4. CASE size.fs # Variable
  BY <1>1, <1>3, <1>4 DEF full
<1>5. CASE size.fs = Variable /\ ~(cs <= Len(text))
  <2>1. Len(text) < cs
    BY <1>2, <1>5
  <2>2. FrameSizeOf(size, text) = NeedBytes
    BY <1>1, <1>5, <2>1
  <2> QED
    BY <1>5, <2>2 DEF cs
<1>6. CASE size.fs = Variable /\ cs <= Len(text)
  <2>1. ~(Len(text) < cs)
    BY <1>2, <1>6
  <2>2. FrameSizeOf(size, text) = IF InAlphabet(soft) THEN [verdict |-> "Ok", size |-> full] ELSE Malformed
    BY <1>1, <1>3, <1>6, <2>1
  <2> QED
    BY <1>6, <2>2 DEF cs, soft, full
<1> QED
  BY <1>4, <1>5, <1>6

(* The parts of a text that reads as a plain primitive.                    *)
HeadOf(text) == SubSeq(text, 1, HardSize(text[1]))

(* What a text that reads as a plain primitive has at its head.            *)
LEMMA MatterReads ==
  ASSUME NEW S, NEW text \in Seq(S), ReadMatter(text).verdict = "Ok"
  PROVE  LET code == HeadOf(text)
             size == Sizage[code]
             full == FullOf(size, text)
         IN  /\ CodeAt(text) = [verdict |-> "Ok", code |-> code]
             /\ code \in MatterCodes /\ SizeFits(size) /\ size.hs = HardSize(text[1])
             /\ size.fs = Variable => CodeChars(size) <= Len(text) /\ InAlphabet(SoftOf(size, text))
             /\ full <= Len(text)
             /\ ReadMatter(text) = FromQualifiedBase64(SubSeq(text, 1, full))
<1> DEFINE code == HeadOf(text)
           size == Sizage[code]
           full == FullOf(size, text)
           Ready == size.fs = Variable => CodeChars(size) <= Len(text) /\ InAlphabet(SoftOf(size, text))
<1>1. NeedBytes.verdict # "Ok" /\ Malformed.verdict # "Ok"
  BY DEF NeedBytes, Malformed
<1>2. MatterFrame(text).verdict = "Ok"
  BY <1>1 DEF ReadMatter, IfOk
<1>3. CodeAt(text).verdict = "Ok"
  BY <1>2 DEF MatterFrame, IfOk
<1>4. /\ CodeAt(text) = [verdict |-> "Ok", code |-> code] /\ code \in MatterCodes
      /\ HardSize(text[1]) \in {1, 2, 4} /\ HardSize(text[1]) <= Len(text)
  BY <1>3, CodeReads DEF HeadOf
<1>5. SizeFits(size) /\ Len(code) = size.hs
  BY <1>4, SizageFits
<1>6. size.hs = HardSize(text[1])
  <2>1. Len(code) = HardSize(text[1]) - 1 + 1
    BY <1>4, PartOf DEF HeadOf
  <2> QED
    BY <1>4, <1>5, <2>1
<1>7. MatterFrame(text) = FrameSizeOf(size, text)
  BY <1>4 DEF MatterFrame, IfOk
<1>8. Ready
  <2> HIDE DEF size, code
  <2> QED
    BY <1>1, <1>2, <1>5, <1>7, FrameReads, Zenon
<1>9. MatterFrame(text) = [verdict |-> "Ok", size |-> full]
  <2> HIDE DEF size, code
  <2> QED
    BY <1>5, <1>7, <1>8, FrameReads, Zenon
<1>10. full \in Nat
  <2> HIDE DEF size, code
  <2> QED
    BY <1>5, <1>8, FullFits
<1> HIDE DEF code, size, full
<1>11. ReadMatter(text) = IF full > Len(text) THEN NeedBytes ELSE FromQualifiedBase64(SubSeq(text, 1, full))
  BY <1>9 DEF ReadMatter, IfOk
<1>12. ~(full > Len(text))
  BY <1>1, <1>11
<1>13. full <= Len(text)
  BY <1>10, <1>12
<1> QED
  BY <1>4, <1>5, <1>6, <1>8, <1>11, <1>12, <1>13, Zenon DEF code, size, full

(* Reading the code and the size again, at the span they announce.         *)
LEMMA SpanReads ==
  ASSUME NEW S, NEW text \in Seq(S), ReadMatter(text).verdict = "Ok"
  PROVE  LET code == HeadOf(text)
             size == Sizage[code]
             full == FullOf(size, text)
         IN  /\ full \in Nat /\ full % 4 = 0 /\ CodeChars(size) \in 0..full /\ size.hs <= CodeChars(size)
             /\ ReadMatter(text) = MatterIn(code, size, SubSeq(text, 1, full))
             /\ ReadMatter(text).size = full
<1> DEFINE code == HeadOf(text)
           size == Sizage[code]
           full == FullOf(size, text)
           span == SubSeq(text, 1, full)
<1>1. /\ CodeAt(text) = [verdict |-> "Ok", code |-> code]
      /\ code \in MatterCodes /\ SizeFits(size) /\ size.hs = HardSize(text[1])
      /\ size.fs = Variable => CodeChars(size) <= Len(text) /\ InAlphabet(SoftOf(size, text))
      /\ full <= Len(text)
      /\ ReadMatter(text) = FromQualifiedBase64(span)
  BY MatterReads
<1>2. /\ CodeChars(size) \in Nat /\ size.hs <= CodeChars(size)
      /\ full \in Nat /\ full % 4 = 0 /\ full >= CodeChars(size)
  <2> HIDE DEF size, code
  <2> QED
    BY <1>1, FullFits
<1> HIDE DEF code, size, full
<1>3. full \in 0..Len(text) /\ CodeChars(size) \in 0..full
  BY <1>1, <1>2
<1>4. HardSize(text[1]) <= full
  <2>1. size.hs \in Nat
    BY <1>1 DEF SizeFits
  <2> QED
    BY <1>1, <1>2, <2>1
<1>5. CodeAt(span) = CodeAt(text)
  <2>1. CodeAt(text).verdict = "Ok"
    BY <1>1
  <2>2. CodeAt(span) = IF HardSize(text[1]) <= full THEN CodeAt(text) ELSE NeedBytes
    BY <1>3, <2>1, CodeReadsAlike
  <2> QED
    BY <1>4, <2>2
<1>6. FromQualifiedBase64(span) = MatterIn(code, size, span)
  BY <1>1, <1>5 DEF FromQualifiedBase64, IfOk, size
<1>7. Len(span) = full
  <2>1. full - 1 + 1 = full
    BY <1>2
  <2>2. Len(span) = full - 1 + 1
    BY <1>3, PartOf
  <2> QED
    BY <2>1, <2>2
<1>8. MatterIn(code, size, span).verdict = "Ok"
  BY <1>1, <1>6
<1>9. MatterIn(code, size, span).size = Len(span)
  <2>1. Malformed.verdict # "Ok"
    BY DEF Malformed
  <2> HIDE DEF span
  <2> QED
    BY <1>8, <2>1 DEF MatterIn
<1> QED
  BY <1>1, <1>2, <1>3, <1>6, <1>7, <1>9, Zenon DEF code, size, full

(* A plain primitive is read from its span alone: a reader that has all of *)
(* it does not look at what follows, and one that has less of it, however  *)
(* much less, asks for more (parse.rs).                                    *)
THEOREM ReadsItsSpan ==
  ASSUME NEW S, NEW text \in Seq(S), ReadMatter(text).verdict = "Ok", NEW n \in 0..Len(text)
  PROVE  ReadMatter(SubSeq(text, 1, n)) =
           IF ReadMatter(text).size <= n THEN ReadMatter(text) ELSE NeedBytes
<1> DEFINE code == HeadOf(text)
           size == Sizage[code]
           full == FullOf(size, text)
           head == SubSeq(text, 1, n)
           Ready(t) == size.fs = Variable => CodeChars(size) <= Len(t) /\ InAlphabet(SoftOf(size, t))
<1>1. /\ CodeAt(text) = [verdict |-> "Ok", code |-> code]
      /\ code \in MatterCodes /\ SizeFits(size) /\ size.hs = HardSize(text[1])
      /\ Ready(text)
      /\ full <= Len(text)
      /\ ReadMatter(text) = FromQualifiedBase64(SubSeq(text, 1, full))
  BY MatterReads
<1>2. /\ full \in Nat /\ CodeChars(size) \in 0..full /\ size.hs <= CodeChars(size)
      /\ ReadMatter(text).size = full
  BY SpanReads
<1>3. head \in Seq(S) /\ Len(head) = n
  <2>1. n - 1 + 1 = n
    OBVIOUS
  <2> QED
    BY <2>1, PartOf
<1>4. CodeAt(head) = IF HardSize(text[1]) <= n THEN CodeAt(text) ELSE NeedBytes
  <2>1. CodeAt(text).verdict = "Ok"
    BY <1>1
  <2> QED
    BY <2>1, CodeReadsAlike
<1>5. NeedBytes.verdict # "Ok"
  BY DEF NeedBytes
<1> HIDE DEF code, full, head
<1>6. ASSUME ~(HardSize(text[1]) <= n)
      PROVE  ReadMatter(head) = NeedBytes
  BY <1>4, <1>5, <1>6 DEF ReadMatter, MatterFrame, IfOk
<1>7. ASSUME HardSize(text[1]) <= n
      PROVE  MatterFrame(head) = FrameSizeOf(size, head)
  BY <1>1, <1>4, <1>7 DEF MatterFrame, IfOk
<1> HIDE DEF size
<1>8. ASSUME CodeChars(size) <= n
      PROVE  SoftOf(size, head) = SoftOf(size, text)
  <2>1. /\ size.hs + size.xs + 1 \in Nat \ {0} /\ CodeChars(size) \in 0..n
        /\ size.hs + size.xs + 1 <= CodeChars(size) + 1
    <3>1. /\ size.hs \in Nat /\ size.ss \in Nat /\ size.xs \in Nat /\ size.xs <= size.ss
      BY <1>1 DEF SizeFits
    <3>2. CodeChars(size) = size.hs + size.ss
      BY DEF CodeChars
    <3> QED
      BY <1>2, <1>8, <3>1, <3>2
  <2> QED
    BY <2>1, PartOfHead DEF head, SoftOf
<1>9. ASSUME HardSize(text[1]) <= n, size.fs = Variable, ~(CodeChars(size) <= n)
      PROVE  ReadMatter(head) = NeedBytes
  <2>1. FrameSizeOf(size, head) = NeedBytes
    BY <1>1, <1>3, <1>9, FrameReads
  <2> QED
    BY <1>5, <1>7, <1>9, <2>1 DEF ReadMatter, IfOk
<1>10. ASSUME HardSize(text[1]) <= n, size.fs = Variable => CodeChars(size) <= n
       PROVE  ReadMatter(head) = IF full > n THEN NeedBytes ELSE FromQualifiedBase64(SubSeq(head, 1, full))
  <2>1. Ready(head)
    BY <1>1, <1>3, <1>8, <1>10
  <2>2. FullOf(size, head) = full
    BY <1>8, <1>10 DEF FullOf, full
  <2>3. FrameSizeOf(size, head) = [verdict |-> "Ok", size |-> full]
    BY <1>1, <1>3, <2>1, <2>2, FrameReads, Zenon
  <2> QED
    BY <1>3, <1>7, <1>10, <2>3 DEF ReadMatter, IfOk
<1>11. CASE full <= n
  <2>1. HardSize(text[1]) <= n /\ (size.fs = Variable => CodeChars(size) <= n)
    <3>1. size.hs \in Nat
      BY <1>1 DEF SizeFits
    <3> QED
      BY <1>1, <1>2, <1>11, <3>1
  <2>2. ~(full > n)
    BY <1>2, <1>11
  <2>3. SubSeq(head, 1, full) = SubSeq(text, 1, full)
    <3>1. full \in 0..n /\ 1 <= full + 1
      BY <1>2, <1>11
    <3> QED
      BY <3>1, PartOfHead DEF head
  <2>4. ReadMatter(head) = ReadMatter(text)
    BY <1>1, <1>10, <2>1, <2>2, <2>3
  <2> QED
    BY <1>2, <1>11, <2>4 DEF head
<1>12. CASE ~(full <= n)
  <2>1. full > n
    BY <1>2, <1>12
  <2>2. ReadMatter(head) = NeedBytes
    BY <1>6, <1>9, <1>10, <2>1
  <2> QED
    BY <1>2, <1>12, <2>2 DEF head
<1> QED
  BY <1>11, <1>12

-----------------------------------------------------------------------------
(* Writing what was read.                                                  *)

(* Two parts that meet.                                                    *)
LEMMA PartsMeet ==
  ASSUME NEW S, NEW s \in Seq(S), NEW c \in 0..Len(s), NEW b \in 0..c, NEW a \in 0..b
  PROVE  SubSeq(s, a + 1, b) \o SubSeq(s, b + 1, c) = SubSeq(s, a + 1, c)
<1> DEFINE x == SubSeq(s, a + 1, b)
           y == SubSeq(s, b + 1, c)
           z == SubSeq(s, a + 1, c)
<1>1. x \in Seq(S) /\ Len(x) = b - a /\ \A i \in 1..(b - a) : x[i] = s[a + i]
  <2>1. b - (a + 1) + 1 = b - a /\ \A i \in 1..(b - a) : (a + 1) + i - 1 = a + i
    OBVIOUS
  <2>2. x \in Seq(S) /\ Len(x) = b - (a + 1) + 1 /\ \A i \in 1..(b - (a + 1) + 1) : x[i] = s[(a + 1) + i - 1]
    BY PartOf
  <2> HIDE DEF x
  <2> QED
    BY <2>1, <2>2
<1>2. y \in Seq(S) /\ Len(y) = c - b /\ \A i \in 1..(c - b) : y[i] = s[b + i]
  <2>1. c - (b + 1) + 1 = c - b /\ \A i \in 1..(c - b) : (b + 1) + i - 1 = b + i
    OBVIOUS
  <2>2. y \in Seq(S) /\ Len(y) = c - (b + 1) + 1 /\ \A i \in 1..(c - (b + 1) + 1) : y[i] = s[(b + 1) + i - 1]
    BY PartOf
  <2> HIDE DEF y
  <2> QED
    BY <2>1, <2>2
<1>3. z \in Seq(S) /\ Len(z) = c - a /\ \A i \in 1..(c - a) : z[i] = s[a + i]
  <2>1. c - (a + 1) + 1 = c - a /\ \A i \in 1..(c - a) : (a + 1) + i - 1 = a + i
    OBVIOUS
  <2>2. z \in Seq(S) /\ Len(z) = c - (a + 1) + 1 /\ \A i \in 1..(c - (a + 1) + 1) : z[i] = s[(a + 1) + i - 1]
    BY PartOf
  <2> HIDE DEF z
  <2> QED
    BY <2>1, <2>2
<1> HIDE DEF x, y, z
<1> DEFINE xy == x \o y
<1>4. /\ xy \in Seq(S) /\ Len(xy) = Len(x) + Len(y)
      /\ \A i \in 1..Len(x) : xy[i] = x[i]
      /\ \A i \in 1..Len(y) : xy[Len(x) + i] = y[i]
  <2>1. x \in Seq(S)
    BY <1>1, Zenon
  <2>2. y \in Seq(S)
    BY <1>2, Zenon
  <2>3. x \o y \in Seq(S) /\ Len(x \o y) = Len(x) + Len(y)
    BY <2>1, <2>2, OneAfterTheOther, Zenon
  <2>4. \A i \in 1..Len(x) : (x \o y)[i] = x[i]
    BY <2>1, <2>2, OneAfterTheOther
  <2>5. \A i \in 1..Len(y) : (x \o y)[Len(x) + i] = y[i]
    BY <2>1, <2>2, OneAfterTheOther
  <2> QED
    BY <2>3, <2>4, <2>5, Zenon
<1> HIDE DEF xy
<1>5. Len(xy) = c - a
  BY <1>1, <1>2, <1>4
<1>6. ASSUME NEW i \in 1..(c - a)
      PROVE  xy[i] = z[i]
  <2>1. CASE i <= b - a
    <3>1. i \in 1..Len(x) /\ i \in 1..(b - a)
      BY <1>1, <2>1
    <3> QED
      BY <1>1, <1>3, <1>4, <3>1
  <2>2. CASE ~(i <= b - a)
    <3> DEFINE j == i - (b - a)
    <3>1. j \in 1..(c - b) /\ j \in 1..Len(y) /\ i = Len(x) + j /\ b + j = a + i
      BY <1>1, <1>2, <2>2
    <3> HIDE DEF j
    <3>2. xy[i] = y[j] /\ y[j] = s[b + j]
      BY <1>2, <1>4, <3>1
    <3> QED
      BY <1>3, <3>1, <3>2
  <2> QED
    BY <2>1, <2>2
<1>7. xy = z
  BY <1>3, <1>4, <1>5, <1>6
<1> QED
  BY <1>7 DEF xy, x, y, z

(* A sequence is its first and its last part.                              *)
LEMMA WholeIsPart ==
  ASSUME NEW S, NEW s \in Seq(S)
  PROVE  SubSeq(s, 1, Len(s)) = s
OBVIOUS

(* One thing, repeated.                                                    *)
LEMMA Repeated ==
  ASSUME NEW S, NEW c \in S, NEW n \in Nat
  PROVE  /\ [i \in 1..n |-> c] \in Seq(S)
         /\ Len([i \in 1..n |-> c]) = n
         /\ \A j \in 1..n : [i \in 1..n |-> c][j] = c
OBVIOUS

(* Bytes that begin with zeros.                                            *)
LEMMA ZerosAhead ==
  ASSUME NEW bytes \in Seq(Byte), NEW k \in 0..Len(bytes), \A i \in 1..k : bytes[i] = 0
  PROVE  Zeros(k) \o SubSeq(bytes, k + 1, Len(bytes)) = bytes
<1>1. SubSeq(bytes, 1, k) \in Seq(Byte) /\ Len(SubSeq(bytes, 1, k)) = k /\ \A i \in 1..k : SubSeq(bytes, 1, k)[i] = bytes[i]
  <2>1. k - 1 + 1 = k /\ \A i \in 1..k : 1 + i - 1 = i
    OBVIOUS
  <2> QED
    BY <2>1, PartOf
<1>2. Zeros(k) \in Seq(Byte) /\ Len(Zeros(k)) = k /\ \A i \in 1..k : Zeros(k)[i] = 0
  <2>1. Zeros(k) = [i \in 1..k |-> 0] /\ 0 \in Byte /\ k \in Nat
    BY DEF Zeros, Byte
  <2> QED
    BY <2>1
<1>3. Zeros(k) = SubSeq(bytes, 1, k)
  <2> DEFINE p == Zeros(k)
             q == SubSeq(bytes, 1, k)
  <2>1. p \in Seq(Byte) /\ q \in Seq(Byte) /\ Len(p) = k /\ Len(q) = k /\ \A i \in 1..k : p[i] = q[i]
    BY <1>1, <1>2
  <2> HIDE DEF p, q
  <2>2. p = q
    BY <2>1
  <2> QED
    BY <2>2 DEF p, q
<1>4. SubSeq(bytes, 0 + 1, k) \o SubSeq(bytes, k + 1, Len(bytes)) = SubSeq(bytes, 0 + 1, Len(bytes))
  <2>1. Len(bytes) \in 0..Len(bytes) /\ k \in 0..Len(bytes) /\ 0 \in 0..k
    OBVIOUS
  <2> QED
    BY <2>1, PartsMeet
<1>5. 0 + 1 = 1
  OBVIOUS
<1>6. SubSeq(bytes, 1, k) \o SubSeq(bytes, k + 1, Len(bytes)) = SubSeq(bytes, 1, Len(bytes))
  BY <1>4, <1>5, Zenon
<1>7. SubSeq(bytes, 1, Len(bytes)) = bytes
  BY WholeIsPart
<1> QED
  BY <1>3, <1>6, <1>7, Zenon

(* The pad of an aligned text, whose characters are the first of the       *)
(* alphabet.                                                               *)
Padding(pad) == [i \in 1..pad |-> "A"]

(* The first character of the alphabet stands for six zero bits.           *)
LEMMA PadIsFirst == "A" \in DOMAIN Sextet /\ Sextet["A"] = 0
<1>1. Alphabet[0 + 1] = "A"
  BY SMT DEF Alphabet
<1>2. 0 \in 0..63
  OBVIOUS
<1> QED
  BY <1>1, <1>2, SextetIsPlace, Zenon

(* A pad is as long as asked for, and of that character only.              *)
LEMMA PaddingIs ==
  ASSUME NEW pad \in Nat
  PROVE  /\ Padding(pad) \in Seq(DOMAIN Sextet)
         /\ Len(Padding(pad)) = pad
         /\ \A i \in 1..pad : Padding(pad)[i] = "A"
<1> DEFINE first == "A"
           letters == DOMAIN Sextet
<1>1. first \in letters
  BY PadIsFirst
<1> HIDE DEF first, letters
<1>2. /\ [i \in 1..pad |-> first] \in Seq(letters)
      /\ Len([i \in 1..pad |-> first]) = pad
      /\ \A j \in 1..pad : [i \in 1..pad |-> first][j] = first
  BY <1>1
<1> QED
  BY <1>2, Zenon DEF Padding, first, letters

(* A pad that is read as zero bits is zero bytes once the text is aligned. *)
LEMMA PadBecomesZero ==
  ASSUME NEW pad \in 1..3, NEW body \in Seq(DOMAIN Sextet),
         (pad + Len(body)) % 4 = 0, Len(body) > 0,
         PadIsZero(Bytes(Padding(pad) \o body)[pad], pad)
  PROVE  \A i \in 1..pad : Bytes(Padding(pad) \o body)[i] = 0
<1> DEFINE text == Padding(pad) \o body
           s(i) == Sextet[text[i]]
           b(i) == Bytes(text)[i]
<1>1. pad \in Nat
  OBVIOUS
<1>2. Padding(pad) \in Seq(DOMAIN Sextet) /\ Len(Padding(pad)) = pad /\ \A i \in 1..pad : Padding(pad)[i] = "A"
  BY <1>1, PaddingIs
<1> DEFINE padding == Padding(pad)
           letters == DOMAIN Sextet
<1>3. /\ text \in Seq(DOMAIN Sextet) /\ Len(text) = pad + Len(body)
      /\ \A i \in 1..pad : text[i] = "A"
  <2> HIDE DEF padding, letters
  <2>1. padding \in Seq(letters) /\ body \in Seq(letters) /\ Len(padding) = pad
    BY <1>2 DEF padding, letters
  <2>2. padding \o body \in Seq(letters) /\ Len(padding \o body) = Len(padding) + Len(body)
    BY <2>1, OneAfterTheOther, Zenon
  <2>3. \A i \in 1..pad : (padding \o body)[i] = padding[i]
    BY <2>1, OneAfterTheOther
  <2>4. \A i \in 1..pad : padding[i] = "A"
    BY <1>2, Zenon DEF padding
  <2>5. text = padding \o body
    BY Zenon DEF padding
  <2>6. /\ padding \o body \in Seq(letters) /\ Len(padding \o body) = pad + Len(body)
        /\ \A i \in 1..pad : (padding \o body)[i] = "A"
    BY <2>1, <2>2, <2>3, <2>4, Zenon
  <2> QED
    BY <2>5, <2>6, Zenon DEF letters
<1>4. Len(text) >= 4 /\ Len(text) % 4 = 0
  <2>1. Len(text) = pad + Len(body) /\ Len(body) \in Nat
    BY <1>3
  <2> HIDE DEF text
  <2> QED
    BY <2>1
<1> HIDE DEF text
<1>5. b(1) = Byte1(s(1), s(2)) /\ b(2) = Byte2(s(2), s(3)) /\ b(3) = Byte3(s(3), s(4))
  <2>1. /\ 0 \in Nat /\ 4 * 0 + 4 <= Len(text) /\ 4 * 0 + 1 = 1 /\ 4 * 0 + 2 = 2 /\ 4 * 0 + 3 = 3 /\ 4 * 0 + 4 = 4
        /\ 3 * 0 + 1 = 1 /\ 3 * 0 + 2 = 2 /\ 3 * 0 + 3 = 3
    BY <1>3, <1>4
  <2>2. /\ Bytes(text)[3 * 0 + 1] = Byte1(Sextet[text[4 * 0 + 1]], Sextet[text[4 * 0 + 2]])
        /\ Bytes(text)[3 * 0 + 2] = Byte2(Sextet[text[4 * 0 + 2]], Sextet[text[4 * 0 + 3]])
        /\ Bytes(text)[3 * 0 + 3] = Byte3(Sextet[text[4 * 0 + 3]], Sextet[text[4 * 0 + 4]])
    BY <1>3, <1>4, <2>1, Triplet, Zenon
  <2> QED
    BY <2>1, <2>2, Zenon
<1>6. s(1) \in Sextets /\ s(2) \in Sextets /\ s(3) \in Sextets /\ s(4) \in Sextets
  <2>1. 1 \in 1..Len(text) /\ 2 \in 1..Len(text) /\ 3 \in 1..Len(text) /\ 4 \in 1..Len(text)
    BY <1>3, <1>4
  <2> QED
    BY <1>3, <2>1, SextetOfText, Zenon
<1>7. \A i \in 1..pad : s(i) = 0
  BY <1>3, PadIsFirst
<1>8. b(pad) % 2 ^ (2 * pad) = 0
  BY DEF PadIsZero, text
<1> HIDE DEF s, b
<1>9. /\ \A v \in Sextets : Byte1(0, v) \in 0..3
      /\ \A v \in Sextets : Byte2(0, v) \in 0..15
      /\ \A v \in Sextets : Byte3(0, v) \in 0..63
      /\ Byte1(0, 0) = 0 /\ Byte2(0, 0) = 0
  BY SMT DEF Byte1, Byte2, Byte3, Sextets
<1>10. CASE pad = 1
  <2>1. s(1) = 0 /\ b(1) \in 0..3
    BY <1>5, <1>6, <1>7, <1>9, <1>10
  <2>2. 2 ^ (2 * 1) = 4
    OBVIOUS
  <2>3. b(1) = 0
    BY <1>8, <1>10, <2>1, <2>2
  <2> QED
    BY <1>10, <2>3 DEF b, text
<1>11. CASE pad = 2
  <2>1. s(1) = 0 /\ s(2) = 0 /\ b(1) = 0 /\ b(2) \in 0..15
    BY <1>5, <1>6, <1>7, <1>9, <1>11
  <2>2. 2 ^ (2 * 2) = 16
    OBVIOUS
  <2>3. b(2) = 0
    BY <1>8, <1>11, <2>1, <2>2
  <2> QED
    BY <1>11, <2>1, <2>3 DEF b, text
<1>12. CASE pad = 3
  <2>1. s(1) = 0 /\ s(2) = 0 /\ s(3) = 0
    BY <1>7, <1>12
  <2>4. b(1) = 0 /\ b(2) = 0
    BY <1>5, <1>9, <2>1
  <2>5. b(3) \in 0..63
    BY <1>5, <1>6, <1>9, <2>1
  <2>2. 2 ^ (2 * 3) = 64
    OBVIOUS
  <2>3. b(3) = 0
    <3>1. b(3) % 64 = 0
      BY <1>8, <1>12, <2>2
    <3>2. \A v \in 0..63 : v % 64 = 0 => v = 0
      BY SMT
    <3> QED
      BY <2>5, <3>1, <3>2, Zenon
  <2> QED
    BY <1>12, <2>4, <2>3 DEF b, text
<1> QED
  BY <1>10, <1>11, <1>12

(* Writing what a payload held gives its characters again.                 *)
LEMMA PayloadReturns ==
  ASSUME NEW S, NEW body \in Seq(S), NEW pad \in 0..3, NEW ls \in Nat,
         (pad + Len(body)) % 4 = 0,
         InAlphabet(Padding(pad) \o body),
         Len(Bytes(Padding(pad) \o body)) >= pad + ls,
         LeadIsZero(Bytes(Padding(pad) \o body), pad + 1, pad + ls),
         pad = 0 \/ PadIsZero(Bytes(Padding(pad) \o body)[pad], pad)
  PROVE  LET bytes == Bytes(Padding(pad) \o body)
             again == AllCharacters(Zeros(ls + pad) \o SubSeq(bytes, pad + ls + 1, Len(bytes)))
         IN  SubSeq(again, pad + 1, Len(again)) = body
<1> DEFINE padding == Padding(pad)
           letters == DOMAIN Sextet
           payload == padding \o body
           bytes == Bytes(payload)
           both == S \cup letters
<1>1. padding \in Seq(letters) /\ Len(padding) = pad
  <2>1. pad \in Nat
    OBVIOUS
  <2> QED
    BY <2>1, PaddingIs
<1>2. /\ Len(payload) = pad + Len(body)
      /\ \A i \in 1..Len(body) : payload[pad + i] = body[i]
      /\ DOMAIN payload = 1..Len(payload)
  <2> HIDE DEF padding, letters
  <2>1. padding \in Seq(both) /\ body \in Seq(both)
    BY <1>1
  <2> HIDE DEF both
  <2>2. payload \in Seq(both) /\ Len(payload) = Len(padding) + Len(body)
    BY <2>1, OneAfterTheOther, Zenon
  <2>3. \A i \in 1..Len(body) : payload[Len(padding) + i] = body[i]
    BY <2>1, OneAfterTheOther
  <2>4. DOMAIN payload = 1..Len(payload)
    <3> HIDE DEF payload
    <3> QED
      BY <2>2
  <2> HIDE DEF payload
  <2> QED
    BY <1>1, <2>2, <2>3, <2>4
<1>3. InAlphabet(payload)
  OBVIOUS
<1>4. \A i \in 1..Len(payload) : payload[i] \in letters
  BY <1>2, <1>3, Zenon DEF InAlphabet
<1>5. body \in Seq(letters)
  <2>1. \A i \in 1..Len(body) : body[i] \in letters
    <3>1. ASSUME NEW i \in 1..Len(body)
          PROVE  body[i] \in letters
      <4>1. pad + i \in 1..Len(payload)
        <5> HIDE DEF payload
        <5> QED
          BY <1>2
      <4> HIDE DEF payload, letters
      <4> QED
        BY <1>2, <1>4, <4>1
    <3> QED
      BY <3>1
  <2> HIDE DEF letters
  <2> QED
    BY <2>1
<1>6. payload \in Seq(letters)
  <2> HIDE DEF letters, padding
  <2> QED
    BY <1>1, <1>5, OneAfterTheOther, Zenon
<1>7. Len(payload) % 4 = 0
  BY <1>2
<1>8. PICK m \in Nat : Len(payload) = 4 * m
  <2>1. Len(payload) \in Nat
    <3> HIDE DEF payload
    <3> QED
      BY <1>6
  <2> DEFINE n == Len(payload)
  <2> HIDE DEF n
  <2>2. n \in Nat /\ n % 4 = 0
    BY <1>7, <2>1 DEF n
  <2>3. n = 4 * (n \div 4) /\ n \div 4 \in Nat
    BY <2>2
  <2> QED
    BY <2>3 DEF n
<1>9. bytes \in Seq(Byte)
  <2> HIDE DEF payload
  <2> QED
    BY <1>6, <1>8, BytesOfText
<1>10. \A i \in 1..(pad + ls) : bytes[i] = 0
  <2>1. \A i \in 1..pad : bytes[i] = 0
    <3>1. CASE pad = 0
      BY <3>1
    <3>2. CASE pad # 0
      <4>1. pad \in 1..3 /\ Len(body) > 0
        <5>1. Len(body) \in Nat
          OBVIOUS
        <5> QED
          BY <3>2, <5>1
      <4> QED
        BY <1>5, <3>2, <4>1, PadBecomesZero, Zenon
    <3> QED
      BY <3>1, <3>2
  <2>2. \A i \in (pad + 1)..(pad + ls) : bytes[i] = 0
    BY Zenon DEF LeadIsZero
  <2> HIDE DEF bytes
  <2> QED
    BY <2>1, <2>2
<1>11. Zeros(pad + ls) \o SubSeq(bytes, pad + ls + 1, Len(bytes)) = bytes
  <2>1. pad + ls \in 0..Len(bytes)
    <3>1. Len(bytes) >= pad + ls
      OBVIOUS
    <3> HIDE DEF bytes
    <3> QED
      BY <1>9, <3>1
  <2> HIDE DEF bytes
  <2> QED
    BY <1>9, <1>10, <2>1, ZerosAhead, Zenon
<1>12. pad + ls = ls + pad
  OBVIOUS
<1>13. AllCharacters(bytes) = payload
  <2>1. Decodable(payload)
    BY <1>3, <1>7 DEF Decodable
  <2> HIDE DEF payload
  <2> QED
    BY <1>6, <2>1, TextSurvivesBinary
<1>14. SubSeq(payload, pad + 1, Len(payload)) = body
  <2> DEFINE rest == SubSeq(payload, pad + 1, Len(payload))
  <2> HIDE DEF payload, letters
  <2>1. /\ pad + 1 \in Nat \ {0} /\ Len(payload) \in Nat /\ pad + 1 <= Len(payload) + 1
        /\ Len(payload) - (pad + 1) + 1 = Len(body)
        /\ \A i \in 1..Len(body) : (pad + 1) + i - 1 = pad + i
    <3> DEFINE n == Len(body)
               p == Len(payload)
    <3>1. n \in Nat /\ p = pad + n
      BY <1>2
    <3> HIDE DEF n, p
    <3>2. /\ pad + 1 \in Nat \ {0} /\ p \in Nat /\ pad + 1 <= p + 1
          /\ p - (pad + 1) + 1 = n
          /\ \A i \in 1..n : (pad + 1) + i - 1 = pad + i
      BY <3>1
    <3> QED
      BY <3>2, Zenon DEF n, p
  <2>2. rest \in Seq(letters) /\ Len(rest) = Len(payload) - (pad + 1) + 1
    BY <1>6, <2>1, PartOf
  <2>3. \A i \in 1..(Len(payload) - (pad + 1) + 1) : rest[i] = payload[(pad + 1) + i - 1]
    BY <1>6, <2>1, PartOf
  <2> HIDE DEF rest
  <2>4. Len(rest) = Len(body) /\ \A i \in 1..Len(body) : rest[i] = body[i]
    BY <1>2, <2>1, <2>2, <2>3
  <2>5. rest = body
    BY <1>5, <2>2, <2>4
  <2> QED
    BY <2>5 DEF rest
<1> QED
  BY <1>11, <1>12, <1>13, <1>14, Zenon

(* A payload that does not end in a filler is decoded as it stands.        *)
LEMMA NothingFilled ==
  ASSUME NEW S, NEW text \in Seq(S), text # <<>> => text[Len(text)] # Filler
  PROVE  /\ Fillers(text) = 0
         /\ Filled(text) = text
<1>1. Fillers(text) = 0
  BY DEF Fillers
<1>2. \A i \in DOMAIN text : ~(i > Len(text) - Fillers(text))
  BY <1>1
<1>3. Filled(text) = [i \in DOMAIN text |-> text[i]]
  BY <1>2, Zenon DEF Filled
<1> QED
  BY <1>1, <1>3

(* A plain primitive has one text: whatever is accepted, unless its last   *)
(* character is a filler, is what writing the value that was read gives    *)
(* again, to the character, so that two different texts are never read as  *)
(* one value (from_qualified_base64 and append_qb64).                      *)
THEOREM ReadIsCanonical ==
  ASSUME NEW S, NEW text \in Seq(S), ReadMatter(text).verdict = "Ok",
         text[ReadMatter(text).size] # Filler
  PROVE  WriteMatter(ReadMatter(text).value) = SubSeq(text, 1, ReadMatter(text).size)
<1> DEFINE code == HeadOf(text)
           size == Sizage[code]
           full == FullOf(size, text)
           span == SubSeq(text, 1, full)
           cs == CodeChars(size)
           pad == cs % 4
           body == SubSeq(span, cs + 1, full)
           soft == SubSeq(span, size.hs + size.xs + 1, cs)
           bytes == Bytes(Padding(pad) \o body)
           raw == SubSeq(bytes, pad + size.ls + 1, Len(bytes))
           hs == size.hs
           xs == size.xs
           ls == size.ls
<1>1. /\ CodeAt(text) = [verdict |-> "Ok", code |-> code]
      /\ code \in MatterCodes /\ SizeFits(size) /\ size.hs = HardSize(text[1])
      /\ full <= Len(text)
  BY MatterReads
<1>2. /\ full \in Nat /\ full % 4 = 0 /\ cs \in 0..full /\ size.hs <= cs
      /\ ReadMatter(text) = MatterIn(code, size, span)
      /\ ReadMatter(text).size = full
  BY SpanReads
<1> HIDE DEF code, size, full
<1>3. hs \in Nat /\ xs \in Nat /\ ls \in Nat /\ hs + xs <= cs /\ size.hs = hs /\ size.xs = xs /\ size.ls = ls
  <2>1. /\ size.hs \in Nat /\ size.ss \in Nat /\ size.xs \in Nat /\ size.ls \in Nat
        /\ size.xs <= size.ss
    BY <1>1 DEF SizeFits
  <2>2. CodeChars(size) = size.hs + size.ss
    BY DEF CodeChars
  <2>3. \A a, b, c \in Nat : b <= c => a + b <= a + c
    OBVIOUS
  <2> QED
    BY <2>1, <2>2, <2>3, Zenon
<1>4. span \in Seq(S) /\ Len(span) = full
  <2>1. full - 1 + 1 = full /\ full \in 0..Len(text)
    BY <1>1, <1>2
  <2> QED
    BY <2>1, PartOf
<1> HIDE DEF cs, hs, xs, ls, span
<1>5. pad \in 0..3 /\ (pad + (full - cs)) % 4 = 0
  BY <1>2
<1>6. body \in Seq(S) /\ Len(body) = full - cs
  <2>1. full - (cs + 1) + 1 = full - cs /\ cs + 1 \in Nat \ {0} /\ full <= Len(span) /\ cs + 1 <= full + 1
    BY <1>2, <1>4
  <2> QED
    BY <1>2, <1>4, <2>1, PartOf
<1> DEFINE payload == Padding(pad) \o body
<1>7. Fillers(payload) = 0 /\ Filled(payload) = payload /\ Len(payload) \in Nat
  <2> DEFINE letters == DOMAIN Sextet
             padding == Padding(pad)
             both == S \cup letters
  <2>1. padding \in Seq(letters) /\ Len(padding) = pad
    <3>1. pad \in Nat
      BY <1>5
    <3> QED
      BY <3>1, PaddingIs
  <2> HIDE DEF letters, padding, pad, body
  <2>2. padding \in Seq(both) /\ body \in Seq(both)
    BY <1>6, <2>1
  <2> HIDE DEF both
  <2> DEFINE all == padding \o body
  <2>3. all \in Seq(both) /\ Len(all) = Len(padding) + Len(body)
    BY <2>2, OneAfterTheOther, Zenon
  <2>4. \A i \in 1..Len(body) : all[Len(padding) + i] = body[i]
    BY <2>2, OneAfterTheOther
  <2> HIDE DEF all
  <2>5. Len(all) \in Nat
    BY <2>3
  <2>6. CASE full = cs
    <3>1. Len(all) = 0
      BY <1>2, <1>5, <1>6, <2>1, <2>3, <2>6
    <3>2. all = <<>>
      BY <2>3, <3>1
    <3>3. Fillers(all) = 0 /\ Filled(all) = all
      BY <2>3, <3>2, NothingFilled, Zenon
    <3> QED
      BY <2>5, <3>3, Zenon DEF all, padding
  <2>7. CASE full # cs
    <3>1. Len(body) \in 1..Len(body) /\ Len(padding) + Len(body) = Len(all) /\ Len(body) = full - cs
      BY <1>2, <1>6, <2>3, <2>7
    <3>2. all[Len(all)] = body[Len(body)]
      BY <2>4, <3>1
    <3>3. body[Len(body)] = span[full]
      <4>1. full - (cs + 1) + 1 = full - cs /\ cs + 1 \in Nat \ {0} /\ full <= Len(span) /\ cs + 1 <= full + 1
        BY <1>2, <1>4
      <4>2. \A i \in 1..(full - (cs + 1) + 1) : body[i] = span[(cs + 1) + i - 1]
        BY <1>2, <1>4, <4>1, PartOf DEF body
      <4>3. Len(body) \in 1..(full - (cs + 1) + 1) /\ (cs + 1) + Len(body) - 1 = full
        BY <1>2, <3>1, <4>1
      <4> QED
        BY <4>2, <4>3
    <3>4. span[full] = text[full]
      <4>1. full \in 1..full /\ full - 1 + 1 = full /\ 1 + full - 1 = full /\ full \in 0..Len(text)
        BY <1>1, <1>2, <2>7
      <4> QED
        BY <4>1, PartOf DEF span
    <3>5. text[full] # Filler
      BY <1>2, Zenon
    <3>6. all[Len(all)] # Filler
      BY <3>2, <3>3, <3>4, <3>5, Zenon
    <3>7. Fillers(all) = 0 /\ Filled(all) = all
      BY <2>3, <3>6, NothingFilled, Zenon
    <3> QED
      BY <2>5, <3>7, Zenon DEF all, padding
  <2> QED
    BY <2>6, <2>7
<1>8. SubSeq(bytes, 1, Len(bytes) - 0) = bytes
  <2> DEFINE k == (Len(payload) * 3) \div 4
             some == {bytes[i] : i \in 1..k}
             b == bytes
  <2>1. k \in Nat
    <3>1. \A n \in Nat : (n * 3) \div 4 \in Nat
      OBVIOUS
    <3> QED
      BY <1>7, <3>1, Zenon
  <2>2. b = [i \in 1..k |-> b[i]]
    <3> DEFINE value(i) == (LET bit == 8 * (i - 1)
                                j == (bit \div 6) + 1
                            IN  ((Sextet[payload[j]] * 64 + Sextet[payload[j + 1]]) \div 2 ^ (4 - (bit % 6))) % 256)
    <3>1. b = [i \in 1..k |-> value(i)]
      BY Zenon DEF Bytes
    <3> HIDE DEF value, b, k
    <3> QED
      BY <3>1
  <2>3. \A i \in 1..k : b[i] \in some
    OBVIOUS
  <2> HIDE DEF k, some, b
  <2>4. b \in Seq(some)
    BY <2>1, <2>2, <2>3
  <2>5. SubSeq(b, 1, Len(b)) = b /\ Len(b) - 0 = Len(b)
    BY <2>4, WholeIsPart
  <2> QED
    BY <2>5 DEF b
<1>9. /\ \A i \in 1..xs : span[hs + i] = Underscore
      /\ InAlphabet(Padding(pad) \o body)
      /\ Len(bytes) >= pad + ls
      /\ LeadIsZero(bytes, pad + 1, pad + ls)
      /\ pad = 0 \/ PadIsZero(bytes[pad], pad)
      /\ MatterIn(code, size, span).value = MatterOf(code, soft, raw)
  <2>1. Malformed.verdict # "Ok"
    BY DEF Malformed
  <2>2. MatterIn(code, size, span).verdict = "Ok"
    BY <1>2
  <2>3. payload = [i \in 1..(CodeChars(size) % 4) |-> "A"] \o SubSeq(span, CodeChars(size) + 1, Len(span))
    BY <1>4 DEF Padding, cs
  <2> QED
    BY <1>3, <1>4, <1>7, <1>8, <2>1, <2>2, <2>3 DEF MatterIn, AheadOf, Padding, cs, hs, xs, ls
<1>10. SubSeq(AllCharacters(Zeros(ls + pad) \o raw), pad + 1, Len(AllCharacters(Zeros(ls + pad) \o raw))) = body
  <2> HIDE DEF pad, body
  <2>1. raw = SubSeq(bytes, pad + ls + 1, Len(bytes))
    BY <1>3
  <2> HIDE DEF raw
  <2> QED
    BY <1>3, <1>5, <1>6, <1>9, <2>1, PayloadReturns
<1>11. code = SubSeq(span, 0 + 1, hs)
  <2>1. hs \in 0..full /\ 1 <= hs + 1 /\ full \in 0..Len(text) /\ hs = HardSize(text[1]) /\ 0 + 1 = 1
    BY <1>1, <1>2, <1>3
  <2>2. SubSeq(span, 1, hs) = SubSeq(text, 1, hs)
    BY <2>1, PartOfHead DEF span
  <2> QED
    BY <2>1, <2>2 DEF code, HeadOf
<1>12. [i \in 1..xs |-> Underscore] = SubSeq(span, hs + 1, hs + xs)
  <2> DEFINE under == SubSeq(span, hs + 1, hs + xs)
             line == Underscore
  <2>1. (hs + xs) - (hs + 1) + 1 = xs /\ \A i \in 1..xs : (hs + 1) + i - 1 = hs + i
    BY <1>3
  <2>2. under \in Seq(S) /\ Len(under) = xs /\ \A i \in 1..xs : under[i] = span[hs + i]
    <3>1. hs + 1 \in Nat \ {0} /\ hs + xs \in Nat /\ hs + xs <= Len(span) /\ hs + 1 <= hs + xs + 1
      <4>1. hs \in Nat /\ xs \in Nat /\ cs \in 0..full /\ full \in Nat /\ hs + xs <= cs
        BY <1>2, <1>3, Zenon
      <4>2. hs + xs <= full
        BY <4>1
      <4> QED
        BY <1>4, <4>1, <4>2
    <3> DEFINE first == hs + 1
               last == hs + xs
    <3>2. first \in Nat \ {0} /\ last \in Nat /\ last <= Len(span) /\ first <= last + 1 /\ span \in Seq(S)
      BY <1>4, <3>1
    <3>3. under = SubSeq(span, first, last)
      OBVIOUS
    <3> HIDE DEF under, first, last
    <3>4. /\ under \in Seq(S) /\ Len(under) = last - first + 1
          /\ \A i \in 1..(last - first + 1) : under[i] = span[first + i - 1]
      BY <3>2, <3>3, PartOf
    <3>5. last - first + 1 = xs /\ \A i \in 1..xs : first + i - 1 = hs + i
      BY <2>1 DEF first, last
    <3> QED
      BY <3>4, <3>5
  <2> HIDE DEF under, line
  <2>3. \A i \in 1..xs : under[i] = line
    BY <1>9, <2>2 DEF line
  <2>4. [i \in 1..xs |-> line] = under
    <3>1. DOMAIN under = 1..xs /\ under = [i \in DOMAIN under |-> under[i]]
      BY <2>2
    <3> QED
      BY <2>3, <3>1
  <2> QED
    BY <2>4, Zenon DEF under, line
<1>13. SubSeq(span, 0 + 1, hs) \o SubSeq(span, hs + 1, hs + xs) = SubSeq(span, 0 + 1, hs + xs)
  <2>1. hs + xs \in 0..Len(span) /\ hs \in 0..(hs + xs) /\ 0 \in 0..hs
    BY <1>2, <1>3, <1>4
  <2> QED
    BY <1>4, <2>1, PartsMeet
<1>14. SubSeq(span, 0 + 1, hs + xs) \o SubSeq(span, hs + xs + 1, cs) = SubSeq(span, 0 + 1, cs)
  <2>1. cs \in 0..Len(span) /\ hs + xs \in 0..cs /\ 0 \in 0..(hs + xs)
    BY <1>2, <1>3, <1>4
  <2> QED
    BY <1>4, <2>1, PartsMeet
<1>15. SubSeq(span, 0 + 1, cs) \o SubSeq(span, cs + 1, full) = SubSeq(span, 0 + 1, full)
  <2>1. full \in 0..Len(span) /\ cs \in 0..full /\ 0 \in 0..cs
    BY <1>2, <1>3, <1>4
  <2> QED
    BY <1>4, <2>1, PartsMeet
<1>16. SubSeq(span, 0 + 1, full) = span
  <2>1. 0 + 1 = 1
    OBVIOUS
  <2> QED
    BY <1>4, <2>1, WholeIsPart
<1>17. soft = SubSeq(span, hs + xs + 1, cs)
  BY <1>3
<1> DEFINE m == MatterOf(code, soft, raw)
<1>18. m.code = code /\ m.soft = soft /\ m.raw = raw
  BY DEF MatterOf
<1> HIDE DEF m, soft, raw
<1>19. WriteMatter(m) = code \o [i \in 1..xs |-> Underscore] \o soft \o body
  <2>1. WriteMatter(m) = MatterText(m, size)
    BY <1>18 DEF WriteMatter, size
  <2> QED
    BY <1>3, <1>10, <1>18, <2>1, Zenon DEF MatterText, cs
<1>20. WriteMatter(m) = span
  BY <1>11, <1>12, <1>13, <1>14, <1>15, <1>16, <1>17, <1>19, Zenon
<1> QED
  BY <1>2, <1>9, <1>20 DEF m, span

(* The characters codes are made of.                                       *)
Capitals ==
  {"A", "B", "C", "D", "E", "F", "G", "H", "I", "J", "K", "L", "M", "N", "O", "P",
   "Q", "R", "S", "T", "U", "V", "W", "X", "Y", "Z", "a"}

(* Where in the alphabet the characters stand that begin a code.           *)
LEMMA Places ==
  /\ \A c \in Capitals : c \in DOMAIN Sextet /\ Sextet[c] < 52
  /\ "0" \in DOMAIN Sextet /\ Sextet["0"] = 52
  /\ "1" \in DOMAIN Sextet /\ Sextet["1"] = 53
  /\ "2" \in DOMAIN Sextet /\ Sextet["2"] = 54
  /\ "3" \in DOMAIN Sextet /\ Sextet["3"] = 55
  /\ "4" \in DOMAIN Sextet /\ Sextet["4"] = 56
  /\ "5" \in DOMAIN Sextet /\ Sextet["5"] = 57
  /\ "6" \in DOMAIN Sextet /\ Sextet["6"] = 58
  /\ "7" \in DOMAIN Sextet /\ Sextet["7"] = 59
  /\ "8" \in DOMAIN Sextet /\ Sextet["8"] = 60
  /\ "9" \in DOMAIN Sextet /\ Sextet["9"] = 61
  /\ "-" \in DOMAIN Sextet /\ Sextet["-"] = 62
  /\ Underscore \in DOMAIN Sextet /\ Sextet[Underscore] = 63
<1>1. \A v \in 0..63 : Alphabet[v + 1] \in DOMAIN Sextet /\ Sextet[Alphabet[v + 1]] = v
  BY SextetIsPlace
<1>2. \A c \in Capitals : \E v \in 0..51 : Alphabet[v + 1] = c
  BY SMTT(60) DEF Capitals, Alphabet
<1>3. /\ Alphabet[52 + 1] = "0" /\ Alphabet[53 + 1] = "1" /\ Alphabet[54 + 1] = "2" /\ Alphabet[55 + 1] = "3"
      /\ Alphabet[56 + 1] = "4" /\ Alphabet[57 + 1] = "5" /\ Alphabet[58 + 1] = "6" /\ Alphabet[59 + 1] = "7"
      /\ Alphabet[60 + 1] = "8" /\ Alphabet[61 + 1] = "9" /\ Alphabet[62 + 1] = "-" /\ Alphabet[63 + 1] = Underscore
  BY SMTT(30) DEF Alphabet
<1>4. \A v \in 0..63 : \A c : Alphabet[v + 1] = c => c \in DOMAIN Sextet /\ Sextet[c] = v
  BY <1>1, Zenon
<1>5. ASSUME NEW c \in Capitals
      PROVE  c \in DOMAIN Sextet /\ Sextet[c] < 52
  <2>1. PICK v \in 0..51 : Alphabet[v + 1] = c
    BY <1>2
  <2>2. v \in 0..63 /\ v < 52
    OBVIOUS
  <2>3. c \in DOMAIN Sextet /\ Sextet[c] = v
    BY <1>4, <2>1, <2>2, Zenon
  <2> QED
    BY <2>2, <2>3
<1>6. \A v \in 52..63 : \A c : Alphabet[v + 1] = c => c \in DOMAIN Sextet /\ Sextet[c] = v
  <2>1. \A v \in 52..63 : v \in 0..63
    OBVIOUS
  <2> QED
    BY <1>4, <2>1, Zenon
<1> DEFINE Place(c, v) == c \in DOMAIN Sextet /\ Sextet[c] = v
<1>7. \A v \in 52..63 : \A c : Alphabet[v + 1] = c => Place(c, v)
  BY <1>6, Zenon
<1> HIDE DEF Place
<1>8. /\ 52 \in 52..63 /\ 53 \in 52..63 /\ 54 \in 52..63 /\ 55 \in 52..63 /\ 56 \in 52..63 /\ 57 \in 52..63
      /\ 58 \in 52..63 /\ 59 \in 52..63 /\ 60 \in 52..63 /\ 61 \in 52..63 /\ 62 \in 52..63 /\ 63 \in 52..63
  OBVIOUS
<1>9. /\ Place("0", 52)
      /\ Place("1", 53)
      /\ Place("2", 54)
      /\ Place("3", 55)
      /\ Place("4", 56)
      /\ Place("5", 57)
      /\ Place("6", 58)
      /\ Place("7", 59)
      /\ Place("8", 60)
      /\ Place("9", 61)
      /\ Place("-", 62)
      /\ Place(Underscore, 63)
  <2>1. Place("0", 52)
    <3>1. Alphabet[52 + 1] = "0"
      BY <1>3
    <3> QED
      BY <1>7, <1>8, <3>1
  <2>2. Place("1", 53)
    <3>1. Alphabet[53 + 1] = "1"
      BY <1>3
    <3> QED
      BY <1>7, <1>8, <3>1
  <2>3. Place("2", 54)
    <3>1. Alphabet[54 + 1] = "2"
      BY <1>3
    <3> QED
      BY <1>7, <1>8, <3>1
  <2>4. Place("3", 55)
    <3>1. Alphabet[55 + 1] = "3"
      BY <1>3
    <3> QED
      BY <1>7, <1>8, <3>1
  <2>5. Place("4", 56)
    <3>1. Alphabet[56 + 1] = "4"
      BY <1>3
    <3> QED
      BY <1>7, <1>8, <3>1
  <2>6. Place("5", 57)
    <3>1. Alphabet[57 + 1] = "5"
      BY <1>3
    <3> QED
      BY <1>7, <1>8, <3>1
  <2>7. Place("6", 58)
    <3>1. Alphabet[58 + 1] = "6"
      BY <1>3
    <3> QED
      BY <1>7, <1>8, <3>1
  <2>8. Place("7", 59)
    <3>1. Alphabet[59 + 1] = "7"
      BY <1>3
    <3> QED
      BY <1>7, <1>8, <3>1
  <2>9. Place("8", 60)
    <3>1. Alphabet[60 + 1] = "8"
      BY <1>3
    <3> QED
      BY <1>7, <1>8, <3>1
  <2>10. Place("9", 61)
    <3>1. Alphabet[61 + 1] = "9"
      BY <1>3
    <3> QED
      BY <1>7, <1>8, <3>1
  <2>11. Place("-", 62)
    <3>1. Alphabet[62 + 1] = "-"
      BY <1>3
    <3> QED
      BY <1>7, <1>8, <3>1
  <2>12. Place(Underscore, 63)
    <3>1. Alphabet[63 + 1] = Underscore
      BY <1>3
    <3> QED
      BY <1>7, <1>8, <3>1
  <2> QED
    BY <2>1, <2>2, <2>3, <2>4, <2>5, <2>6, <2>7, <2>8, <2>9, <2>10, <2>11, <2>12, Zenon
<1> QED
  BY <1>5, <1>9, Zenon DEF Place

(* The filler is no character of the alphabet.                             *)
LEMMA FillerIsNew == Filler \notin DOMAIN Sextet
<1>1. DOMAIN Sextet = {Alphabet[i] : i \in 1..64}
  BY AlphabetDiffers DEF Sextet, Range
<1>2. \A i \in 1..64 : Alphabet[i] # Filler
  <2>1. Underscore # Filler
    BY DEF Underscore, Filler
  <2> QED
    BY <2>1, SMTT(60) DEF Alphabet, Filler
<1> QED
  BY <1>1, <1>2

(* Both readers take the length of a code from its first character, the    *)
(* one as it is, the other as its sextet.                                  *)
LEMMA HardSizesAgree ==
  ASSUME NEW c \in DOMAIN Sextet
  PROVE  HardSizeOfSextet(Sextet[c]) = HardSize(c)
<1> DEFINE s == Sextet[c]
<1>1. s \in 0..63 /\ Alphabet[s + 1] = c
  BY SextetIsPlace, Zenon
<1>2. CASE s < 52
  <2>1. s \in 0..51
    BY <1>1, <1>2
  <2>2. HardSizeOfSextet(s) = 1
    <3>1. s \notin {52, 56, 57, 58} /\ s \notin {53, 54, 55, 59, 60, 61}
      BY <2>1
    <3> HIDE DEF s
    <3> QED
      BY <2>1, <3>1, Zenon DEF HardSizeOfSextet
  <2>3. c \notin {"0", "4", "5", "6"} /\ c \notin {"1", "2", "3", "7", "8", "9"}
    BY <1>2, Places
  <2>4. HardSize(c) = 1
    BY <1>2, <2>3, Zenon DEF HardSize
  <2> QED
    BY <2>2, <2>4
<1>3. CASE ~(s < 52)
  <2>1. s \in 52..63
    BY <1>1, <1>3
  <2>2. /\ c = "0" <=> s = 52
        /\ c = "1" <=> s = 53
        /\ c = "2" <=> s = 54
        /\ c = "3" <=> s = 55
        /\ c = "4" <=> s = 56
        /\ c = "5" <=> s = 57
        /\ c = "6" <=> s = 58
        /\ c = "7" <=> s = 59
        /\ c = "8" <=> s = 60
        /\ c = "9" <=> s = 61
    <3>1. \A d \in DOMAIN Sextet : Sextet[d] = s => d = c
      BY <1>1, SextetIsPlace, Zenon
    <3> HIDE DEF s
    <3>2. /\ \A v : v = s => s = v
          /\ c \in DOMAIN Sextet /\ s = Sextet[c]
      BY DEF s
    <3> QED
      BY <3>1, <3>2, Places
  <2>3. HardSize(c) = CASE s \in {52, 56, 57, 58} -> 2
                        [] s \in {53, 54, 55, 59, 60, 61} -> 4
                        [] OTHER -> 0
    <3> HIDE DEF s
    <3>1. ~(c \in DOMAIN Sextet /\ Sextet[c] < 52)
      BY <1>3 DEF s
    <3> QED
      BY <2>1, <2>2, <3>1 DEF HardSize
  <2> QED
    BY <2>1, <2>3 DEF HardSizeOfSextet
<1> QED
  BY <1>2, <1>3

(* What a code is made of, and that its first character tells its length.  *)
Spelt(c, hs) == c \in Seq(DOMAIN Sextet) /\ Len(c) = hs /\ HardSize(c[1]) = hs

(* What length of a code its first character announces.                    *)
LEMMA LeadsTell ==
  /\ \A c \in Capitals : HardSize(c) = 1
  /\ \A c \in {"0", "4", "5", "6"} : c \in DOMAIN Sextet /\ HardSize(c) = 2
  /\ \A c \in {"1", "2", "3", "7", "8", "9"} : c \in DOMAIN Sextet /\ HardSize(c) = 4
<1>1. ASSUME NEW c \in Capitals PROVE HardSize(c) = 1
  <2>1. c \in DOMAIN Sextet /\ Sextet[c] < 52
    BY Places
  <2>2. c \notin {"0", "4", "5", "6"} /\ c \notin {"1", "2", "3", "7", "8", "9"}
    BY <2>1, Places
  <2> QED
    BY <2>1, <2>2, Zenon DEF HardSize
<1>2. ASSUME NEW c \in {"0", "4", "5", "6"} PROVE c \in DOMAIN Sextet /\ HardSize(c) = 2
  <2>1. c \in DOMAIN Sextet /\ ~(Sextet[c] < 52)
    BY Places
  <2>2. c \notin {"1", "2", "3", "7", "8", "9"}
    OBVIOUS
  <2> QED
    BY <2>1, <2>2, Zenon DEF HardSize
<1>3. ASSUME NEW c \in {"1", "2", "3", "7", "8", "9"} PROVE c \in DOMAIN Sextet /\ HardSize(c) = 4
  <2>1. c \in DOMAIN Sextet /\ ~(Sextet[c] < 52)
    BY Places
  <2>2. c \notin {"0", "4", "5", "6"}
    OBVIOUS
  <2> QED
    BY <2>1, <2>2, Zenon DEF HardSize
<1> QED
  BY <1>1, <1>2, <1>3

RowSpelt(row) == \A c \in row[1] : Spelt(c, row[2].hs)

(* Every code of every row of the table is spelt so.                       *)
LEMMA RowsSpelt == \A row \in Sizes : RowSpelt(row)
<1>0. /\ \A c \in Capitals : c \in DOMAIN Sextet
      /\ "-" \in DOMAIN Sextet /\ Underscore \in DOMAIN Sextet /\ "A" \in DOMAIN Sextet
  BY Places DEF Capitals
<1>1. ASSUME NEW last \in SUBSET Capitals, NEW size, size.hs = 1
      PROVE  RowSpelt(<<One(last), size>>)
  <2> SUFFICES ASSUME NEW c \in last PROVE Spelt(<<c>>, 1)
    BY <1>1 DEF RowSpelt, One
  <2> QED
    BY <1>0, LeadsTell DEF Spelt
<1>2. ASSUME NEW first \in {"0", "4", "5", "6"}, NEW last \in SUBSET Capitals, NEW size, size.hs = 2
      PROVE  RowSpelt(<<Two(first, last), size>>)
  <2> SUFFICES ASSUME NEW c \in last PROVE Spelt(<<first, c>>, 2)
    BY <1>2 DEF RowSpelt, Two
  <2> QED
    BY <1>0, LeadsTell DEF Spelt
<1>3. ASSUME NEW first \in {"1", "2", "3", "7", "8", "9"}, NEW last \in SUBSET Capitals, NEW size, size.hs = 4
      PROVE  RowSpelt(<<Four(first, last), size>>)
  <2> SUFFICES ASSUME NEW c \in last PROVE Spelt(<<first, "A", "A", c>>, 4)
    BY <1>3 DEF RowSpelt, Four
  <2> QED
    BY <1>0, LeadsTell DEF Spelt
<1>4. ASSUME NEW first \in {"1", "2", "3", "7", "8", "9"}, NEW last \in {"-", Underscore}, NEW size, size.hs = 4
      PROVE  RowSpelt(<<Test(first, last), size>>)
  <2> SUFFICES Spelt(<<first, Underscore, Underscore, last>>, 4)
    BY <1>4 DEF RowSpelt, Test
  <2> QED
    BY <1>0, LeadsTell DEF Spelt
<1>5. \A hs, ss, xs, fs, ls : Size(hs, ss, xs, fs, ls).hs = hs
  BY DEF Size
<1>6. Contents \in SUBSET Capitals
  BY DEF Contents, Capitals
<1>7. ASSUME NEW row \in Sizes
      PROVE  \/ \E last \in SUBSET Capitals : \E size : size.hs = 1 /\ row = <<One(last), size>>
             \/ \E first \in {"0", "4", "5", "6"}, last \in SUBSET Capitals : \E size :
                  size.hs = 2 /\ row = <<Two(first, last), size>>
             \/ \E first \in {"1", "2", "3", "7", "8", "9"}, last \in SUBSET Capitals : \E size :
                  size.hs = 4 /\ row = <<Four(first, last), size>>
             \/ \E first \in {"1", "2", "3", "7", "8", "9"}, last \in {"-", Underscore} : \E size :
                  size.hs = 4 /\ row = <<Test(first, last), size>>
  BY <1>5, <1>6, SMTT(120) DEF Sizes, Capitals
<1>8. ASSUME NEW row \in Sizes
      PROVE  RowSpelt(row)
  <2>1. CASE \E last \in SUBSET Capitals : \E size : size.hs = 1 /\ row = <<One(last), size>>
    BY <1>1, <2>1, Zenon
  <2>2. CASE \E first \in {"0", "4", "5", "6"}, last \in SUBSET Capitals : \E size :
               size.hs = 2 /\ row = <<Two(first, last), size>>
    <3>1. PICK first \in {"0", "4", "5", "6"}, last \in SUBSET Capitals : \E size :
                 size.hs = 2 /\ row = <<Two(first, last), size>>
      BY <2>2
    <3>2. PICK size :
                 size.hs = 2 /\ row = <<Two(first, last), size>>
      BY <3>1
    <3>3. RowSpelt(<<Two(first, last), size>>)
      BY <1>2, <3>1, <3>2
    <3> QED
      BY <3>2, <3>3
  <2>3. CASE \E first \in {"1", "2", "3", "7", "8", "9"}, last \in SUBSET Capitals : \E size :
               size.hs = 4 /\ row = <<Four(first, last), size>>
    <3>1. PICK first \in {"1", "2", "3", "7", "8", "9"}, last \in SUBSET Capitals : \E size :
                 size.hs = 4 /\ row = <<Four(first, last), size>>
      BY <2>3
    <3>2. PICK size :
                 size.hs = 4 /\ row = <<Four(first, last), size>>
      BY <3>1
    <3>3. RowSpelt(<<Four(first, last), size>>)
      BY <1>3, <3>1, <3>2
    <3> QED
      BY <3>2, <3>3
  <2>4. CASE \E first \in {"1", "2", "3", "7", "8", "9"}, last \in {"-", Underscore} : \E size :
               size.hs = 4 /\ row = <<Test(first, last), size>>
    <3>1. PICK first \in {"1", "2", "3", "7", "8", "9"}, last \in {"-", Underscore} : \E size :
                 size.hs = 4 /\ row = <<Test(first, last), size>>
      BY <2>4
    <3>2. PICK size :
                 size.hs = 4 /\ row = <<Test(first, last), size>>
      BY <3>1
    <3>3. RowSpelt(<<Test(first, last), size>>)
      BY <1>4, <3>1, <3>2
    <3> QED
      BY <3>2, <3>3
  <2> QED
    BY <1>7, <2>1, <2>2, <2>3, <2>4
<1> QED
  BY <1>8

(* So every code of the table tells its own length.                        *)
LEMMA CodesSpelt ==
  ASSUME NEW code \in MatterCodes
  PROVE  Spelt(code, Sizage[code].hs)
<1>1. PICK r \in Sizes : code \in r[1]
  BY DEF MatterCodes
<1> DEFINE row == CHOOSE row \in Sizes : code \in row[1]
<1>2. row \in Sizes /\ code \in row[1]
  BY <1>1
<1>3. Sizage[code] = row[2]
  BY DEF Sizage
<1> HIDE DEF row
<1> QED
  BY <1>2, <1>3, RowsSpelt DEF RowSpelt

-----------------------------------------------------------------------------
(* Reading text and reading binary come to the same.                       *)

(* As many characters of the binary form as one asks for.                  *)
LEMMA CharactersReturn ==
  ASSUME NEW text \in Seq(DOMAIN Sextet), NEW M \in Nat, Len(text) = 4 * M, NEW n \in 0..(4 * M)
  PROVE  Characters(Bytes(text), n) = SubSeq(text, 1, n)
<1> DEFINE bytes == Bytes(text)
           e(i) == LET bit == 6 * (i - 1)
                       k == (bit \div 8) + 1
                       next == IF k < Len(bytes) THEN bytes[k + 1] ELSE 0
                   IN  Alphabet[(((bytes[k] * 256 + next) \div 2 ^ (10 - (bit % 8))) % 64) + 1]
           letters == DOMAIN Sextet
           head == SubSeq(text, 1, n)
<1>1. bytes \in Seq(Byte) /\ Len(bytes) = 3 * M
  BY BytesOfText
<1>2. Decodable(text)
  BY DEF Decodable, InAlphabet
<1>3. AllCharacters(bytes) = text /\ AllCharacters(bytes) = Characters(bytes, 4 * M)
  <2>1. AllCharacters(bytes) = text
    BY <1>2, TextSurvivesBinary
  <2> HIDE DEF bytes
  <2> QED
    BY <1>1, <2>1, TextOfBytes
<1>4. \A l \in Nat : Characters(bytes, l) = [i \in 1..l |-> e(i)]
  BY Zenon DEF Characters
<1> HIDE DEF e, bytes, letters
<1>5. \A i \in 1..(4 * M) : text[i] = e(i)
  <2>1. 4 * M \in Nat
    OBVIOUS
  <2> QED
    BY <1>3, <1>4, <2>1
<1>6. text \in Seq(letters) /\ n \in Nat /\ n <= Len(text)
  BY DEF letters
<1>7. head \in Seq(letters) /\ Len(head) = n /\ \A i \in 1..n : head[i] = text[i]
  <2>1. n - 1 + 1 = n /\ \A i \in 1..n : 1 + i - 1 = i
    OBVIOUS
  <2> QED
    BY <1>6, <2>1, PartOf
<1> HIDE DEF head
<1>8. head = [i \in 1..n |-> head[i]]
  BY <1>7
<1>9. \A i \in 1..n : head[i] = e(i)
  <2>1. \A i \in 1..n : i \in 1..(4 * M)
    OBVIOUS
  <2> QED
    BY <1>5, <1>7, <2>1
<1>10. head = [i \in 1..n |-> e(i)]
  BY <1>8, <1>9
<1> QED
  BY <1>4, <1>6, <1>10 DEF head, bytes

(* The first byte tells the first character.                               *)
LEMMA FirstSextet ==
  ASSUME NEW text \in Seq(DOMAIN Sextet), NEW M \in Nat \ {0}, Len(text) = 4 * M
  PROVE  /\ text[1] \in DOMAIN Sextet
         /\ Bytes(text)[1] \div 4 = Sextet[text[1]]
<1>1. 1 \in 1..Len(text) /\ 2 \in 1..Len(text) /\ Len(text) % 4 = 0 /\ 4 * 0 + 4 <= Len(text)
  OBVIOUS
<1>2. text[1] \in DOMAIN Sextet /\ Sextet[text[1]] \in Sextets /\ Sextet[text[2]] \in Sextets
  BY <1>1, SextetOfText
<1>3. Bytes(text)[1] = Byte1(Sextet[text[1]], Sextet[text[2]])
  <2>1. Bytes(text)[3 * 0 + 1] = Byte1(Sextet[text[4 * 0 + 1]], Sextet[text[4 * 0 + 2]])
    BY <1>1, Triplet
  <2>2. 3 * 0 + 1 = 1 /\ 4 * 0 + 1 = 1 /\ 4 * 0 + 2 = 2
    OBVIOUS
  <2> QED
    BY <2>1, <2>2
<1>4. \A a, b \in Sextets : Byte1(a, b) \div 4 = a
  BY SMT DEF Byte1, Sextets
<1> QED
  BY <1>2, <1>3, <1>4

(* The low bits of a byte are of the second of the sextets it is made of.  *)
LEMMA LowBits ==
  /\ \A a, b, c \in Sextets : Byte1(a, c) % 4 = Byte1(b, c) % 4
  /\ \A a, b, c \in Sextets : Byte2(a, c) % 16 = Byte2(b, c) % 16
  /\ \A a, b, c \in Sextets : Byte3(a, c) % 64 = Byte3(b, c) % 64
<1>1. \A a, c \in Sextets : Byte1(a, c) % 4 = c \div 16
  <2> SUFFICES ASSUME NEW a \in Sextets, NEW c \in Sextets PROVE Byte1(a, c) % 4 = c \div 16
    OBVIOUS
  <2>1. a \in 0..63 /\ c \in 0..63
    BY DEF Sextets
  <2>2. (a * 64 + c) \div 16 = 4 * a + c \div 16 /\ c \div 16 \in 0..3
    BY <2>1
  <2>3. \A t \in 0..3 : (4 * a + t) % 256 = 4 * a + t /\ (4 * a + t) % 4 = t
    BY <2>1
  <2> QED
    BY <2>2, <2>3 DEF Byte1
<1>2. \A a, c \in Sextets : Byte2(a, c) % 16 = c \div 4
  <2> SUFFICES ASSUME NEW a \in Sextets, NEW c \in Sextets PROVE Byte2(a, c) % 16 = c \div 4
    OBVIOUS
  <2>1. a \in 0..63 /\ c \in 0..63
    BY DEF Sextets
  <2>2. (a * 64 + c) \div 4 = 16 * a + c \div 4 /\ c \div 4 \in 0..15
    BY <2>1
  <2>3. \A t \in 0..15 : ((16 * a + t) % 256) % 16 = t
    BY <2>1
  <2> QED
    BY <2>2, <2>3 DEF Byte2
<1>3. \A a, c \in Sextets : Byte3(a, c) % 64 = c
  <2> SUFFICES ASSUME NEW a \in Sextets, NEW c \in Sextets PROVE Byte3(a, c) % 64 = c
    OBVIOUS
  <2>1. a \in 0..63 /\ c \in 0..63
    BY DEF Sextets
  <2>2. (a * 64 + c) \div 1 = 64 * a + c
    BY <2>1
  <2>3. ((64 * a + c) % 256) % 64 = c
    BY <2>1
  <2> QED
    BY <2>2, <2>3 DEF Byte3
<1> QED
  BY <1>1, <1>2, <1>3

(* The bytes of a text that repeats another from some quadlet on, but for  *)
(* the first characters of that.                                           *)
Shifted(part, bytes, pad, k, N) ==
  /\ \A j \in (pad + 1)..(3 * N) : part[j] = bytes[3 * k + j]
  /\ N > 0 /\ pad > 0 => (PadIsZero(part[pad], pad) <=> PadIsZero(bytes[3 * k + pad], pad))

(* The bytes of a text that repeats another from some quadlet on.          *)
LEMMA BytesShift ==
  ASSUME NEW text \in Seq(DOMAIN Sextet), NEW M \in Nat, Len(text) = 4 * M,
         NEW part \in Seq(DOMAIN Sextet), NEW N \in Nat, Len(part) = 4 * N,
         NEW k \in Nat, k + N <= M, NEW pad \in 0..3,
         \A j \in (pad + 1)..(4 * N) : part[j] = text[4 * k + j]
  PROVE  Shifted(Bytes(part), Bytes(text), pad, k, N)
<1> DEFINE s(i) == Sextet[text[i]]
           p(i) == Sextet[part[i]]
<1>1. ASSUME NEW q \in 0..(N - 1)
      PROVE  /\ Bytes(part)[3 * q + 1] = Byte1(p(4 * q + 1), p(4 * q + 2))
             /\ Bytes(part)[3 * q + 2] = Byte2(p(4 * q + 2), p(4 * q + 3))
             /\ Bytes(part)[3 * q + 3] = Byte3(p(4 * q + 3), p(4 * q + 4))
  <2>1. q \in Nat /\ 4 * q + 4 <= Len(part) /\ Len(part) % 4 = 0
    OBVIOUS
  <2> QED
    BY <2>1, Triplet
<1>2. ASSUME NEW q \in 0..(N - 1)
      PROVE  /\ Bytes(text)[3 * k + (3 * q + 1)] = Byte1(s(4 * k + (4 * q + 1)), s(4 * k + (4 * q + 2)))
             /\ Bytes(text)[3 * k + (3 * q + 2)] = Byte2(s(4 * k + (4 * q + 2)), s(4 * k + (4 * q + 3)))
             /\ Bytes(text)[3 * k + (3 * q + 3)] = Byte3(s(4 * k + (4 * q + 3)), s(4 * k + (4 * q + 4)))
  <2>1. k + q \in Nat /\ 4 * (k + q) + 4 <= Len(text) /\ Len(text) % 4 = 0
    OBVIOUS
  <2>2. /\ Bytes(text)[3 * (k + q) + 1] = Byte1(s(4 * (k + q) + 1), s(4 * (k + q) + 2))
        /\ Bytes(text)[3 * (k + q) + 2] = Byte2(s(4 * (k + q) + 2), s(4 * (k + q) + 3))
        /\ Bytes(text)[3 * (k + q) + 3] = Byte3(s(4 * (k + q) + 3), s(4 * (k + q) + 4))
    BY <2>1, Triplet
  <2>3. /\ 3 * (k + q) + 1 = 3 * k + (3 * q + 1) /\ 3 * (k + q) + 2 = 3 * k + (3 * q + 2) /\ 3 * (k + q) + 3 = 3 * k + (3 * q + 3)
        /\ 4 * (k + q) + 1 = 4 * k + (4 * q + 1) /\ 4 * (k + q) + 2 = 4 * k + (4 * q + 2)
        /\ 4 * (k + q) + 3 = 4 * k + (4 * q + 3) /\ 4 * (k + q) + 4 = 4 * k + (4 * q + 4)
    OBVIOUS
  <2> HIDE DEF s
  <2> QED
    BY <2>2, <2>3
<1>3. \A j \in (pad + 1)..(4 * N) : p(j) = s(4 * k + j)
  OBVIOUS
<1>4. ASSUME NEW i \in 1..(4 * N)
      PROVE  p(i) \in Sextets /\ s(4 * k + i) \in Sextets
  <2>1. i \in 1..Len(part) /\ 4 * k + i \in 1..Len(text)
    OBVIOUS
  <2> QED
    BY <2>1, SextetOfText
<1> HIDE DEF s, p
<1>5. ASSUME NEW j \in (pad + 1)..(3 * N)
      PROVE  Bytes(part)[j] = Bytes(text)[3 * k + j]
  <2>1. j \in 1..(3 * N)
    OBVIOUS
  <2>2. PICK q \in 0..(N - 1) : j = 3 * q + 1 \/ j = 3 * q + 2 \/ j = 3 * q + 3
    BY <2>1, PlaceInTriplet
  <2>3. CASE j = 3 * q + 1
    <3>1. 4 * q + 1 \in (pad + 1)..(4 * N) /\ 4 * q + 2 \in (pad + 1)..(4 * N)
      BY <2>3
    <3> QED
      BY <1>1, <1>2, <1>3, <2>3, <3>1
  <2>4. CASE j = 3 * q + 2
    <3>1. 4 * q + 2 \in (pad + 1)..(4 * N) /\ 4 * q + 3 \in (pad + 1)..(4 * N)
      BY <2>4
    <3> QED
      BY <1>1, <1>2, <1>3, <2>4, <3>1
  <2>5. CASE j = 3 * q + 3
    <3>1. 4 * q + 3 \in (pad + 1)..(4 * N) /\ 4 * q + 4 \in (pad + 1)..(4 * N)
      BY <2>5
    <3> QED
      BY <1>1, <1>2, <1>3, <2>5, <3>1
  <2> QED
    BY <2>2, <2>3, <2>4, <2>5
<1>6. ASSUME N > 0, pad > 0
      PROVE  PadIsZero(Bytes(part)[pad], pad) <=> PadIsZero(Bytes(text)[3 * k + pad], pad)
  <2>1. /\ 0 \in 0..(N - 1) /\ 3 * 0 + 1 = 1 /\ 3 * 0 + 2 = 2 /\ 3 * 0 + 3 = 3
        /\ 4 * 0 + 1 = 1 /\ 4 * 0 + 2 = 2 /\ 4 * 0 + 3 = 3 /\ 4 * 0 + 4 = 4
        /\ 1 \in 1..(4 * N) /\ 2 \in 1..(4 * N) /\ 3 \in 1..(4 * N) /\ 4 \in 1..(4 * N)
        /\ pad + 1 \in (pad + 1)..(4 * N)
    BY <1>6
  <2>2. /\ Bytes(part)[1] = Byte1(p(1), p(2)) /\ Bytes(part)[2] = Byte2(p(2), p(3)) /\ Bytes(part)[3] = Byte3(p(3), p(4))
    BY <1>1, <2>1
  <2>3. /\ Bytes(text)[3 * k + 1] = Byte1(s(4 * k + 1), s(4 * k + 2))
        /\ Bytes(text)[3 * k + 2] = Byte2(s(4 * k + 2), s(4 * k + 3))
        /\ Bytes(text)[3 * k + 3] = Byte3(s(4 * k + 3), s(4 * k + 4))
    BY <1>2, <2>1
  <2>4. /\ p(1) \in Sextets /\ p(2) \in Sextets /\ p(3) \in Sextets /\ p(4) \in Sextets
        /\ s(4 * k + 1) \in Sextets /\ s(4 * k + 2) \in Sextets /\ s(4 * k + 3) \in Sextets /\ s(4 * k + 4) \in Sextets
    BY <1>4, <2>1
  <2>5. p(pad + 1) = s(4 * k + (pad + 1))
    BY <1>3, <2>1
  <2>6. /\ \A a, b, c \in Sextets : Byte1(a, c) % 4 = Byte1(b, c) % 4
        /\ \A a, b, c \in Sextets : Byte2(a, c) % 16 = Byte2(b, c) % 16
        /\ \A a, b, c \in Sextets : Byte3(a, c) % 64 = Byte3(b, c) % 64
    BY LowBits, Zenon
  <2>7. 2 ^ (2 * 1) = 4 /\ 2 ^ (2 * 2) = 16 /\ 2 ^ (2 * 3) = 64
    OBVIOUS
  <2>8. CASE pad = 1
    <3>1. PadIsZero(Bytes(part)[1], 1) <=> PadIsZero(Bytes(text)[3 * k + 1], 1)
      <4>1. p(2) = s(4 * k + 2)
        BY <2>5, <2>8
      <4> QED
        BY <2>2, <2>3, <2>4, <2>6, <2>7, <4>1 DEF PadIsZero
    <3> QED
      BY <2>8, <3>1
  <2>9. CASE pad = 2
    <3>1. PadIsZero(Bytes(part)[2], 2) <=> PadIsZero(Bytes(text)[3 * k + 2], 2)
      <4>1. p(3) = s(4 * k + 3)
        BY <2>5, <2>9
      <4> QED
        BY <2>2, <2>3, <2>4, <2>6, <2>7, <4>1 DEF PadIsZero
    <3> QED
      BY <2>9, <3>1
  <2>10. CASE pad = 3
    <3>1. PadIsZero(Bytes(part)[3], 3) <=> PadIsZero(Bytes(text)[3 * k + 3], 3)
      <4>1. p(4) = s(4 * k + 4)
        BY <2>5, <2>10
      <4> QED
        BY <2>2, <2>3, <2>4, <2>6, <2>7, <4>1 DEF PadIsZero
    <3> QED
      BY <2>10, <3>1
  <2> QED
    BY <1>6, <2>8, <2>9, <2>10
<1> QED
  BY <1>5, <1>6 DEF Shifted

(* What follows the code and the soft part, aligned by pad characters.     *)
PayloadOf(size, text) ==
  Padding(CodeChars(size) % 4) \o SubSeq(text, CodeChars(size) + 1, Len(text))

(* A place among what follows some characters, counted from either end.    *)
LEMMA Moved ==
  ASSUME NEW a \in Nat, NEW b \in Nat, NEW c \in Nat, a <= b, NEW l \in (c + 1)..(c + (b - a))
  PROVE  l - c \in 1..(b - a) /\ l = c + (l - c) /\ a + (l - c) = (a - c) + l
OBVIOUS

(* One sequence after the other, by its characters.                        *)
Follows(c, S, a, b) ==
  /\ c \in Seq(S) /\ Len(c) = Len(a) + Len(b)
  /\ \A i \in 1..Len(a) : c[i] = a[i]
  /\ \A i \in 1..Len(b) : c[Len(a) + i] = b[i]

(* What two sequences make, one after the other.                           *)
LEMMA Appended ==
  ASSUME NEW S, NEW a \in Seq(S), NEW b \in Seq(S), NEW c, c = a \o b
  PROVE  Follows(c, S, a, b)
<1>1. c \in Seq(S) /\ Len(c) = Len(a) + Len(b)
  BY OneAfterTheOther
<1>2. ASSUME NEW i \in 1..Len(a)
      PROVE  c[i] = a[i]
  OBVIOUS
<1>3. ASSUME NEW i \in 1..Len(b)
      PROVE  c[Len(a) + i] = b[i]
  OBVIOUS
<1> QED
  BY <1>1, <1>2, <1>3 DEF Follows

(* A text from some character on, aligned by pad characters.               *)
Aligns(all, S, text, cs, pad) ==
  /\ all \in Seq(S)
  /\ Len(all) = pad + (Len(text) - cs)
  /\ \A j \in 1..pad : all[j] = "A"
  /\ \A j \in (pad + 1)..(pad + (Len(text) - cs)) : all[j] = text[(cs - pad) + j]

(* The rest of a text behind pad characters has them first.                *)
LEMMA AlignedRest ==
  ASSUME NEW S, DOMAIN Sextet \subseteq S, NEW text \in Seq(S),
         NEW cs \in Nat, cs <= Len(text), NEW pad \in 0..3,
         NEW all, all = Padding(pad) \o SubSeq(text, cs + 1, Len(text))
  PROVE  Aligns(all, S, text, cs, pad)
<1> DEFINE padding == Padding(pad)
           rest == SubSeq(text, cs + 1, Len(text))
           n == Len(text)
<1>0. all = padding \o rest
  OBVIOUS
<1>1. padding \in Seq(S) /\ Len(padding) = pad /\ \A i \in 1..pad : padding[i] = "A"
  <2>1. pad \in Nat
    OBVIOUS
  <2>2. padding \in Seq(DOMAIN Sextet) /\ Len(padding) = pad /\ \A i \in 1..pad : padding[i] = "A"
    BY <2>1, PaddingIs
  <2> HIDE DEF padding
  <2> DEFINE letters == DOMAIN Sextet
  <2>3. letters \subseteq S /\ padding \in Seq(letters)
    BY <2>2
  <2> HIDE DEF letters
  <2>4. padding \in Seq(S)
    BY <2>3
  <2> QED
    BY <2>2, <2>4
<1>2. n \in Nat /\ cs <= n
  OBVIOUS
<1>3. rest \in Seq(S) /\ Len(rest) = n - cs /\ \A i \in 1..(n - cs) : rest[i] = text[cs + i]
  <2>1. /\ cs + 1 \in Nat \ {0} /\ cs + 1 <= n + 1 /\ n - (cs + 1) + 1 = n - cs
        /\ \A i \in 1..(n - cs) : (cs + 1) + i - 1 = cs + i
    BY <1>2
  <2> QED
    <3> DEFINE first == cs + 1
    <3>1. first \in Nat \ {0} /\ n <= Len(text) /\ first <= n + 1
      BY <2>1
    <3>2. rest = SubSeq(text, first, n)
      OBVIOUS
    <3> HIDE DEF rest, first, n
    <3>3. rest \in Seq(S) /\ Len(rest) = n - first + 1 /\ \A i \in 1..(n - first + 1) : rest[i] = text[first + i - 1]
      BY <1>2, <3>1, <3>2, PartOf
    <3> QED
      BY <2>1, <3>3 DEF first
<1> HIDE DEF padding, rest
<1>5. /\ all \in Seq(S) /\ Len(all) = Len(padding) + Len(rest)
      /\ \A i \in 1..Len(padding) : all[i] = padding[i]
      /\ \A i \in 1..Len(rest) : all[Len(padding) + i] = rest[i]
  <2>1. padding \in Seq(S) /\ rest \in Seq(S)
    BY <1>1, <1>3
  <2>2. Follows(all, S, padding, rest)
    BY <1>0, <2>1, Appended, Zenon
  <2> QED
    BY <2>2 DEF Follows
<1> HIDE DEF n
<1>6. ASSUME NEW j \in (pad + 1)..(pad + (n - cs))
      PROVE  all[j] = text[(cs - pad) + j]
  <2> DEFINE i == j - pad
  <2>1. i \in 1..(n - cs) /\ j = pad + i /\ cs + i = (cs - pad) + j
    <3>1. cs \in Nat /\ n \in Nat /\ pad \in Nat /\ cs <= n
      BY <1>2
    <3>2. j - pad \in 1..(n - cs) /\ j = pad + (j - pad) /\ cs + (j - pad) = (cs - pad) + j
      BY <3>1, Moved
    <3> QED
      BY <3>2 DEF i
  <2> HIDE DEF i
  <2> QED
    BY <1>1, <1>3, <1>5, <2>1
<1>7. \A j \in 1..pad : all[j] = "A"
  BY <1>1, <1>5
<1> QED
  BY <1>1, <1>3, <1>5, <1>6, <1>7, Zenon DEF n, Aligns

(* So has the payload of a primitive.                                      *)
LEMMA PayloadIs ==
  ASSUME NEW S, DOMAIN Sextet \subseteq S, NEW text \in Seq(S), NEW size,
         NEW cs \in Nat, cs = CodeChars(size), cs <= Len(text), NEW pad \in 0..3, pad = cs % 4
  PROVE  Aligns(PayloadOf(size, text), S, text, cs, pad)
<1> DEFINE all == PayloadOf(size, text)
<1>1. all = Padding(pad) \o SubSeq(text, cs + 1, Len(text))
  BY DEF PayloadOf
<1> HIDE DEF all
<1>2. Aligns(all, S, text, cs, pad)
  BY <1>1, AlignedRest, Zenon
<1> QED
  BY <1>2 DEF all

(* What is read of a span of clean text.                                   *)
LEMMA CleanSpanReads ==
  ASSUME NEW code, NEW size, SizeFits(size), NEW S, NEW text \in Seq(S),
         CodeChars(size) <= Len(text), PayloadOf(size, text) \in Seq(DOMAIN Sextet)
  PROVE  LET cs == CodeChars(size)
             pad == cs % 4
             bytes == Bytes(PayloadOf(size, text))
         IN  MatterIn(code, size, text) =
               IF /\ \A i \in 1..size.xs : text[size.hs + i] = Underscore
                  /\ Len(bytes) >= pad + size.ls
                  /\ LeadIsZero(bytes, pad + 1, pad + size.ls)
                  /\ pad = 0 \/ PadIsZero(bytes[pad], pad)
               THEN [verdict |-> "Ok", size |-> Len(text),
                     value |-> MatterOf(code, SubSeq(text, size.hs + size.xs + 1, cs),
                                        SubSeq(bytes, pad + size.ls + 1, Len(bytes)))]
               ELSE Malformed
<1> DEFINE cs == CodeChars(size)
           pad == cs % 4
           payload == PayloadOf(size, text)
           bytes == Bytes(payload)
           k == (Len(payload) * 3) \div 4
           some == {bytes[i] : i \in 1..k}
<1>1. Fillers(payload) = 0 /\ Filled(payload) = payload
  <2> DEFINE letters == DOMAIN Sextet
  <2>1. payload \in Seq(letters)
    OBVIOUS
  <2>2. payload # <<>> => payload[Len(payload)] # Filler
    <3>1. payload # <<>> => payload[Len(payload)] \in letters
      <4> HIDE DEF payload, letters
      <4> QED
        BY <2>1
    <3> HIDE DEF payload
    <3> QED
      BY <3>1, FillerIsNew
  <2> HIDE DEF payload, letters
  <2> QED
    BY <2>1, <2>2, NothingFilled
<1>2. InAlphabet(payload)
  <2> HIDE DEF payload
  <2>1. payload \in Seq(DOMAIN Sextet)
    BY DEF payload
  <2> QED
    BY <2>1 DEF InAlphabet
<1>3. bytes \in Seq(some)
  <2>1. k \in Nat
    <3>1. \A n \in Nat : (n * 3) \div 4 \in Nat
      OBVIOUS
    <3>2. Len(payload) \in Nat
      <4> DEFINE letters == DOMAIN Sextet
      <4>1. payload \in Seq(letters)
        OBVIOUS
      <4> HIDE DEF letters, payload
      <4> QED
        BY <4>1
    <3> QED
      BY <3>1, <3>2, Zenon
  <2> DEFINE value(i) == (LET bit == 8 * (i - 1)
                              j == (bit \div 6) + 1
                          IN  ((Sextet[payload[j]] * 64 + Sextet[payload[j + 1]]) \div 2 ^ (4 - (bit % 6))) % 256)
             b == bytes
  <2>2. b = [i \in 1..k |-> value(i)]
    BY Zenon DEF Bytes
  <2>3. some = {b[i] : i \in 1..k}
    OBVIOUS
  <2> HIDE DEF value, b, k, some
  <2>4. b \in Seq(some)
    BY <2>1, <2>2, <2>3
  <2> QED
    BY <2>4 DEF b
<1>4. /\ SubSeq(bytes, 1, Len(bytes) - 0) = bytes /\ Len(bytes) \in Nat
      /\ Len(bytes) - 0 = Len(bytes)
  <2> HIDE DEF bytes, some
  <2>1. Len(bytes) \in Nat /\ Len(bytes) - 0 = Len(bytes)
    BY <1>3
  <2> QED
    BY <1>3, <2>1, WholeIsPart
<1>5. \A i \in Len(bytes) + 1..Len(bytes) : bytes[i] = 0
  <2> HIDE DEF bytes
  <2>1. Len(bytes) + 1..Len(bytes) = {}
    BY <1>4
  <2> QED
    BY <2>1
<1>6. payload = [i \in 1..(CodeChars(size) % 4) |-> "A"] \o SubSeq(text, CodeChars(size) + 1, Len(text))
  BY DEF PayloadOf, Padding
<1> HIDE DEF bytes
<1>7. bytes = Bytes(Filled(payload))
  BY <1>1 DEF bytes
<1> HIDE DEF payload
<1> QED
  BY <1>1, <1>2, <1>4, <1>5, <1>6, <1>7, ZenonT(60) DEF MatterIn, AheadOf, payload, bytes

(* The code is read alike from either form.                                *)
LEMMA CodesAgree ==
  ASSUME NEW text \in Seq(DOMAIN Sextet), NEW M \in Nat, Len(text) = 4 * M
  PROVE  CodeIn(Bytes(text)) = CodeAt(text)
<1> DEFINE bytes == Bytes(text)
           hs == HardSize(text[1])
           code == SubSeq(text, 1, hs)
<1>1. bytes \in Seq(Byte) /\ Len(bytes) = 3 * M
  BY BytesOfText
<1>2. CASE M = 0
  <2>1. text = <<>> /\ bytes = <<>>
    <3>1. bytes = <<>>
      <4> HIDE DEF bytes
      <4> QED
        BY <1>1, <1>2
    <3> QED
      BY <1>2, <3>1
  <2>2. CodeIn(bytes) = NeedBytes
    <3> HIDE DEF bytes
    <3> QED
      BY <2>1 DEF CodeIn
  <2>3. CodeAt(text) = NeedBytes
    BY <2>1 DEF CodeAt
  <2> QED
    BY <2>2, <2>3
<1>3. CASE M # 0
  <2>1. text # <<>> /\ bytes # <<>>
    <3>1. bytes # <<>>
      <4> HIDE DEF bytes
      <4>1. Len(bytes) # 0
        BY <1>1, <1>3
      <4> QED
        BY <4>1
    <3> QED
      BY <1>3, <3>1
  <2>2. HardSizeOfSextet(bytes[1] \div 4) = hs
    <3>1. text[1] \in DOMAIN Sextet /\ bytes[1] \div 4 = Sextet[text[1]]
      BY <1>3, FirstSextet
    <3> HIDE DEF bytes
    <3> QED
      BY <3>1, HardSizesAgree
  <2>3. hs \in {0, 1, 2, 4}
    BY HardSizeIs
  <2>4. Characters(bytes, hs) = code
    <3> HIDE DEF hs
    <3>1. hs \in 0..(4 * M)
      BY <1>3, <2>3
    <3> QED
      BY <3>1, CharactersReturn
  <2> HIDE DEF hs, bytes, code
  <2>5. ~(hs > Len(text)) /\ ~(BytesFor(hs) > Len(bytes))
    <3>1. \A n \in {0, 1, 2, 4} : (n * 3 + 4 - 1) \div 4 <= 3
      BY SMT
    <3> QED
      BY <1>1, <1>3, <2>3, <3>1 DEF BytesFor, CeilDiv
  <2>6. CodeAt(text) = CASE hs = 0 -> Malformed
                         [] OTHER -> IF code \in MatterCodes THEN [verdict |-> "Ok", code |-> code] ELSE Malformed
    BY <2>1, <2>3, <2>5 DEF CodeAt, hs, code
  <2>7. CodeIn(bytes) = CASE hs = 0 -> Malformed
                          [] OTHER -> IF code \in MatterCodes THEN [verdict |-> "Ok", code |-> code] ELSE Malformed
    BY <2>1, <2>2, <2>3, <2>4, <2>5 DEF CodeIn
  <2> QED
    BY <2>6, <2>7 DEF bytes
<1> QED
  BY <1>2, <1>3

(* A span of quadlets, of which the code and the soft part are cs          *)
(* characters: k quadlets of them are whole, and what is left of them goes *)
(* into the first of the others.                                           *)
Quartered(cs, full, pad, k, N) ==
  /\ pad \in 0..3 /\ k \in Nat /\ N \in Nat
  /\ cs = 4 * k + pad /\ full = 4 * (k + N)
  /\ cs - pad = 4 * k /\ pad + (full - cs) = 4 * N
  /\ pad > 0 => N > 0
  /\ BytesFor(cs) = 3 * k + pad
  /\ BytesFor(full) = 3 * (k + N)

(* The quadlets and triplets of a span, counted.                           *)
LEMMA Quarters ==
  ASSUME NEW cs \in Nat, NEW full \in Nat, cs <= full, full % 4 = 0,
         NEW pad, pad = cs % 4, NEW k, k = cs \div 4, NEW N, N = (full \div 4) - k
  PROVE  Quartered(cs, full, pad, k, N)
<1>1. pad \in 0..3 /\ k \in Nat /\ cs = 4 * k + pad
  OBVIOUS
<1>2. full = 4 * (full \div 4) /\ full \div 4 \in Nat
  OBVIOUS
<1>3. N \in Nat /\ full = 4 * (k + N)
  BY <1>1, <1>2
<1>4. cs - pad = 4 * k /\ pad + (full - cs) = 4 * N /\ (pad > 0 => N > 0)
  BY <1>1, <1>3
<1>5. BytesFor(cs) = 3 * k + pad
  <2>1. \A p \in 0..3, q \in Nat : ((4 * q + p) * 3 + 4 - 1) \div 4 = 3 * q + p
    OBVIOUS
  <2> QED
    BY <1>1, <2>1 DEF BytesFor, CeilDiv
<1>6. BytesFor(full) = 3 * (k + N)
  <2>1. \A q \in Nat : ((4 * q) * 3 + 4 - 1) \div 4 = 3 * q
    OBVIOUS
  <2>2. k + N \in Nat
    BY <1>1, <1>3
  <2> QED
    BY <1>3, <2>1, <2>2 DEF BytesFor, CeilDiv
<1> QED
  BY <1>1, <1>3, <1>4, <1>5, <1>6 DEF Quartered

(* Where the soft part is.                                                 *)
LEMMA SoftStarts ==
  ASSUME NEW size, SizeFits(size)
  PROVE  /\ CodeChars(size) \in Nat
         /\ size.hs + size.xs + 1 \in Nat \ {0}
         /\ size.hs + size.xs + 1 <= CodeChars(size) + 1
BY DEF SizeFits, CodeChars

(* Sequences that hold the same at every place are the same.               *)
LEMMA SameSequence ==
  ASSUME NEW S, NEW a \in Seq(S), NEW b \in Seq(S), Len(a) = Len(b), \A i \in 1..Len(a) : a[i] = b[i]
  PROVE  a = b
OBVIOUS

(* The head of a text of quadlets, from binary.                            *)
LEMMA HeadReturns ==
  ASSUME NEW text \in Seq(DOMAIN Sextet), NEW M \in Nat, Len(text) = 4 * M, NEW q \in 0..M
  PROVE  AllCharacters(SubSeq(Bytes(text), 1, 3 * q)) = SubSeq(text, 1, 4 * q)
<1> DEFINE letters == DOMAIN Sextet
           head == SubSeq(text, 1, 4 * q)
           bytes == Bytes(text)
           part == SubSeq(bytes, 1, 3 * q)
           first == Bytes(head)
<1>1. bytes \in Seq(Byte) /\ Len(bytes) = 3 * M
  BY BytesOfText
<1>2. head \in Seq(letters) /\ Len(head) = 4 * q /\ \A i \in 1..(4 * q) : head[i] = text[i]
  <2> DEFINE n == 4 * q
  <2>1. n \in Nat /\ n <= Len(text) /\ 1 <= n + 1 /\ n - 1 + 1 = n /\ \A i \in 1..n : 1 + i - 1 = i
    OBVIOUS
  <2>2. text \in Seq(letters)
    OBVIOUS
  <2> HIDE DEF letters, n, head
  <2>3. head = SubSeq(text, 1, n)
    BY DEF head, n
  <2>4. head \in Seq(letters) /\ Len(head) = n /\ \A i \in 1..n : head[i] = text[i]
    BY <2>1, <2>2, <2>3, PartOf
  <2> QED
    BY <2>4 DEF n
<1> HIDE DEF bytes
<1>3. part \in Seq(Byte) /\ Len(part) = 3 * q /\ \A i \in 1..(3 * q) : part[i] = bytes[i]
  <2> DEFINE n == 3 * q
  <2>1. n \in Nat /\ n <= Len(bytes) /\ 1 <= n + 1 /\ n - 1 + 1 = n /\ \A i \in 1..n : 1 + i - 1 = i
    BY <1>1
  <2> HIDE DEF n, part
  <2>2. part = SubSeq(bytes, 1, n)
    BY DEF part, n
  <2>3. part \in Seq(Byte) /\ Len(part) = n /\ \A i \in 1..n : part[i] = bytes[i]
    BY <1>1, <2>1, <2>2, PartOf
  <2> QED
    BY <2>3 DEF n
<1> HIDE DEF head
<1>4. first \in Seq(Byte) /\ Len(first) = 3 * q
  <2>1. q \in Nat /\ head \in Seq(DOMAIN Sextet)
    BY <1>2
  <2> QED
    BY <1>2, <2>1, BytesOfText
<1>5. \A i \in 1..(3 * q) : first[i] = bytes[i]
  <2> DEFINE z == 0
  <2>1. z = 0
    OBVIOUS
  <2> HIDE DEF z
  <2>2. /\ head \in Seq(DOMAIN Sextet) /\ q \in Nat /\ z \in Nat /\ z \in 0..3 /\ z + q <= M
        /\ \A j \in (z + 1)..(4 * q) : head[j] = text[4 * z + j]
    BY <1>2, <2>1
  <2>3. Shifted(first, bytes, z, z, q)
    BY <1>2, <2>2, BytesShift, Zenon DEF bytes
  <2> HIDE DEF first
  <2> QED
    BY <2>1, <2>3 DEF Shifted
<1> HIDE DEF part, first
<1>6. part = first
  <2>1. Len(part) = Len(first) /\ \A i \in 1..Len(part) : part[i] = first[i]
    BY <1>3, <1>4, <1>5
  <2> QED
    BY <1>3, <1>4, <2>1, SameSequence, Zenon
<1>7. AllCharacters(first) = head
  <2>1. head \in Seq(DOMAIN Sextet)
    BY <1>2
  <2>2. Decodable(head)
    BY <1>2 DEF Decodable, InAlphabet
  <2> QED
    BY <2>1, <2>2, TextSurvivesBinary DEF first
<1> QED
  BY <1>6, <1>7 DEF part, bytes, head

(* Whatever binary holds becomes characters of the alphabet.               *)
LEMMA CharactersAreLetters ==
  ASSUME NEW bytes \in Seq(Byte), NEW n \in Nat, BytesFor(n) <= Len(bytes)
  PROVE  Characters(bytes, n) \in Seq(DOMAIN Sextet) /\ Len(Characters(bytes, n)) = n
<1> DEFINE letters == DOMAIN Sextet
           c(i) == LET bit == 6 * (i - 1)
                       k == (bit \div 8) + 1
                       next == IF k < Len(bytes) THEN bytes[k + 1] ELSE 0
                   IN  Alphabet[(((bytes[k] * 256 + next) \div 2 ^ (10 - (bit % 8))) % 64) + 1]
           text == Characters(bytes, n)
           need == BytesFor(n)
<1>1. text = [i \in 1..n |-> c(i)]
  BY Zenon DEF Characters
<1> HIDE DEF c, text
<1>2. ASSUME NEW i \in 1..n
      PROVE  text[i] \in DOMAIN Sextet
  <2> DEFINE q == (i - 1) \div 4
  <2>1. q \in Nat /\ (i = 4 * q + 1 \/ i = 4 * q + 2 \/ i = 4 * q + 3 \/ i = 4 * q + 4)
    OBVIOUS
  <2> HIDE DEF q
  <2>2. /\ need \in Nat /\ 3 * q + 1 <= need
        /\ i = 4 * q + 3 => 3 * q + 2 <= need
        /\ i = 4 * q + 4 => 3 * q + 3 <= need
    BY <2>1 DEF BytesFor, CeilDiv
  <2> HIDE DEF need
  <2>3. need <= Len(bytes) /\ Len(bytes) \in Nat
    BY DEF need
  <2>4. /\ 3 * q + 1 \in 1..Len(bytes)
        /\ i = 4 * q + 3 => 3 * q + 2 \in 1..Len(bytes)
        /\ i = 4 * q + 4 => 3 * q + 3 \in 1..Len(bytes)
    BY <2>1, <2>2, <2>3
  <2> DEFINE p1 == Pair(bytes, 3 * q + 1)
             p2 == Pair(bytes, 3 * q + 2)
             p3 == Pair(bytes, 3 * q + 3)
  <2>5. p1 \in Nat /\ (i = 4 * q + 3 => p2 \in Nat) /\ (i = 4 * q + 4 => p3 \in Nat)
    BY <2>4, PairIsNatural, Zenon
  <2>6. /\ i = 4 * q + 1 => text[i] = Alphabet[Sextet1(p1) + 1]
        /\ i = 4 * q + 2 => text[i] = Alphabet[Sextet2(p1) + 1]
        /\ i = 4 * q + 3 => text[i] = Alphabet[Sextet3(p2) + 1]
        /\ i = 4 * q + 4 => text[i] = Alphabet[Sextet4(p3) + 1]
    BY <2>1, Quadlet DEF text
  <2> HIDE DEF p1, p2, p3
  <2>7. \E v \in Sextets : text[i] = Alphabet[v + 1]
    <3>1. \A p \in Nat : /\ Sextet1(p) \in Sextets /\ Sextet2(p) \in Sextets
                        /\ Sextet3(p) \in Sextets /\ Sextet4(p) \in Sextets
      BY DEF Sextet1, Sextet2, Sextet3, Sextet4, Sextets
    <3> QED
      BY <2>1, <2>5, <2>6, <3>1
  <2> QED
    BY <2>7, SextetIsPlace DEF Sextets
<1> HIDE DEF letters
<1>3. text \in Seq(letters) /\ Len(text) = n
  BY <1>1, <1>2 DEF letters
<1> QED
  BY <1>3 DEF letters, text

(* What a typed read accepts is what was read.                             *)
LEMMA TypedReads ==
  ASSUME NEW family, NEW outcome, Typed(family, outcome).verdict = "Ok"
  PROVE  Typed(family, outcome) = outcome
BY DEF Typed, Malformed

(* A text of some characters is one of more.                               *)
LEMMA LargerAlphabet ==
  ASSUME NEW S, NEW T, S \subseteq T, NEW s \in Seq(S)
  PROVE  s \in Seq(T)
OBVIOUS

(* A text that converts is one of quadlets of the alphabet.                *)
LEMMA CleanIsText ==
  ASSUME NEW S, NEW text \in Seq(S), Decodable(text)
  PROVE  /\ text \in Seq(DOMAIN Sextet)
         /\ Len(text) \div 4 \in Nat /\ Len(text) = 4 * (Len(text) \div 4)
<1>1. \A i \in 1..Len(text) : text[i] \in DOMAIN Sextet
  BY DEF Decodable, InAlphabet
<1> DEFINE letters == DOMAIN Sextet
<1>2. text \in Seq(letters)
  <2> HIDE DEF letters
  <2>1. \A i \in 1..Len(text) : text[i] \in letters
    BY <1>1 DEF letters
  <2> QED
    BY <2>1
<1>3. Len(text) \in Nat /\ Len(text) % 4 = 0
  BY DEF Decodable
<1>4. \A n \in Nat : n % 4 = 0 => n \div 4 \in Nat /\ n = 4 * (n \div 4)
  OBVIOUS
<1> QED
  BY <1>2, <1>3, <1>4

-----------------------------------------------------------------------------
(* What is read is canonical: written again it is its own span.            *)

(* The bytes a number of characters needs.                                 *)
LEMMA BytesNeeded ==
  ASSUME NEW n \in Nat, NEW i \in 1..n, NEW need, need = BytesFor(n)
  PROVE  /\ need \in Nat
         /\ \E q \in Nat :
              /\ i = 4 * q + 1 \/ i = 4 * q + 2 \/ i = 4 * q + 3 \/ i = 4 * q + 4
              /\ 3 * q + 1 <= need
              /\ ~(i = 4 * q + 1) => 3 * q + 2 <= need
              /\ i = 4 * q + 3 \/ i = 4 * q + 4 => 3 * q + 3 <= need
<1> DEFINE q == (i - 1) \div 4
<1>1. q \in Nat /\ (i = 4 * q + 1 \/ i = 4 * q + 2 \/ i = 4 * q + 3 \/ i = 4 * q + 4)
  OBVIOUS
<1> HIDE DEF q
<1>2. /\ need \in Nat
      /\ 3 * q + 1 <= need
      /\ ~(i = 4 * q + 1) => 3 * q + 2 <= need
      /\ i = 4 * q + 3 \/ i = 4 * q + 4 => 3 * q + 3 <= need
  BY <1>1 DEF BytesFor, CeilDiv
<1> QED
  BY <1>1, <1>2

(* The bits of a character that end in its first byte are that byte's.     *)
LEMMA OwnBits ==
  ASSUME NEW b \in Byte, NEW next \in Byte, NEW other \in Byte
  PROVE  /\ Sextet1(Joined(b, next)) = Sextet1(Joined(b, other))
         /\ Sextet4(Joined(b, next)) = Sextet4(Joined(b, other))
<1>1. \A x \in 0..255 : (b * 256 + x) \div 256 = b
  BY DEF Byte
<1>2. \A x \in 0..255 : (b * 256 + x) \div 1024 = b \div 4
  <2>1. PICK h \in Nat, l \in 0..3 : b = 4 * h + l /\ b \div 4 = h
    <3>1. b \div 4 \in Nat /\ b % 4 \in 0..3 /\ b = 4 * (b \div 4) + (b % 4)
      BY DEF Byte
    <3> QED
      BY <3>1
  <2>2. \A x \in 0..255 : (h * 1024 + (l * 256 + x)) \div 1024 = h
    OBVIOUS
  <2>3. \A x \in 0..255 : b * 256 + x = h * 1024 + (l * 256 + x)
    BY <2>1
  <2> QED
    BY <2>1, <2>2, <2>3
<1> QED
  BY <1>1, <1>2 DEF Sextet1, Sextet4, Joined, Byte

(* Characters depend on the bytes they need and on no others.              *)
LEMMA CharactersAreLocal ==
  ASSUME NEW a \in Seq(Byte), NEW b \in Seq(Byte), NEW n \in Nat,
         BytesFor(n) <= Len(a), BytesFor(n) <= Len(b),
         \A i \in 1..BytesFor(n) : a[i] = b[i]
  PROVE  Characters(a, n) = Characters(b, n)
<1> DEFINE need == BytesFor(n)
           letters == DOMAIN Sextet
           u == Characters(a, n)
           v == Characters(b, n)
<1>1. u \in Seq(letters) /\ Len(u) = n /\ v \in Seq(letters) /\ Len(v) = n
  BY CharactersAreLetters
<1> HIDE DEF letters, need
<1>2. ASSUME NEW i \in 1..n
      PROVE  u[i] = v[i]
  <2>1. need = BytesFor(n)
    BY DEF need
  <2>2. /\ need \in Nat
        /\ \E q \in Nat :
             /\ i = 4 * q + 1 \/ i = 4 * q + 2 \/ i = 4 * q + 3 \/ i = 4 * q + 4
             /\ 3 * q + 1 <= need
             /\ ~(i = 4 * q + 1) => 3 * q + 2 <= need
             /\ i = 4 * q + 3 \/ i = 4 * q + 4 => 3 * q + 3 <= need
    BY <2>1, BytesNeeded
  <2>3. PICK q \in Nat :
          /\ i = 4 * q + 1 \/ i = 4 * q + 2 \/ i = 4 * q + 3 \/ i = 4 * q + 4
          /\ 3 * q + 1 <= need
          /\ ~(i = 4 * q + 1) => 3 * q + 2 <= need
          /\ i = 4 * q + 3 \/ i = 4 * q + 4 => 3 * q + 3 <= need
    BY <2>2
  <2>4. need <= Len(a) /\ need <= Len(b) /\ Len(a) \in Nat /\ Len(b) \in Nat
    BY DEF need
  <2>5. \A k \in 1..need : k \in 1..Len(a) /\ k \in 1..Len(b) /\ a[k] = b[k] /\ a[k] \in Byte /\ b[k] \in Byte
    <3>1. \A k \in 1..need : a[k] = b[k]
      BY DEF need
    <3> QED
      BY <2>2, <2>4, <3>1
  <2>6. /\ 3 * q + 1 \in 1..need
        /\ ~(i = 4 * q + 1) => 3 * q + 2 \in 1..need
        /\ i = 4 * q + 3 \/ i = 4 * q + 4 => 3 * q + 3 \in 1..need
    BY <2>2, <2>3
  <2>7. \A k \in 1..need : \E x, y \in Byte : Pair(a, k) = Joined(a[k], x) /\ Pair(b, k) = Joined(a[k], y)
    BY <2>5, PairIsNatural
  <2>8. \A k \in 1..need : k + 1 \in 1..need =>
          Pair(a, k) = Joined(a[k], a[k + 1]) /\ Pair(b, k) = Joined(a[k], a[k + 1])
    <3> SUFFICES ASSUME NEW k \in 1..need, k + 1 \in 1..need
                 PROVE  Pair(a, k) = Joined(a[k], a[k + 1]) /\ Pair(b, k) = Joined(a[k], a[k + 1])
      OBVIOUS
    <3>1. k < Len(a) /\ k < Len(b)
      BY <2>2, <2>4
    <3>2. Pair(a, k) = Joined(a[k], a[k + 1]) /\ Pair(b, k) = Joined(b[k], b[k + 1])
      BY <3>1, <2>5, PairIsNatural
    <3> QED
      BY <3>2, <2>5
  <2>9. CASE i = 4 * q + 1
    <3>1. u[i] = Alphabet[Sextet1(Pair(a, 3 * q + 1)) + 1] /\ v[i] = Alphabet[Sextet1(Pair(b, 3 * q + 1)) + 1]
      BY <2>9, Quadlet
    <3>2. PICK x, y \in Byte : /\ Pair(a, 3 * q + 1) = Joined(a[3 * q + 1], x)
                               /\ Pair(b, 3 * q + 1) = Joined(a[3 * q + 1], y)
      BY <2>6, <2>7
    <3>3. Sextet1(Joined(a[3 * q + 1], x)) = Sextet1(Joined(a[3 * q + 1], y))
      BY <2>5, <2>6, OwnBits
    <3> QED
      BY <3>1, <3>2, <3>3
  <2>10. CASE i = 4 * q + 2
    <3>1. u[i] = Alphabet[Sextet2(Pair(a, 3 * q + 1)) + 1] /\ v[i] = Alphabet[Sextet2(Pair(b, 3 * q + 1)) + 1]
      BY <2>10, Quadlet
    <3>2. 3 * q + 1 \in 1..need /\ (3 * q + 1) + 1 \in 1..need
      BY <2>6, <2>10
    <3>3. Pair(a, 3 * q + 1) = Pair(b, 3 * q + 1)
      BY <3>2, <2>8
    <3> QED
      BY <3>1, <3>3
  <2>11. CASE i = 4 * q + 3
    <3>1. u[i] = Alphabet[Sextet3(Pair(a, 3 * q + 2)) + 1] /\ v[i] = Alphabet[Sextet3(Pair(b, 3 * q + 2)) + 1]
      BY <2>11, Quadlet
    <3>2. 3 * q + 2 \in 1..need /\ (3 * q + 2) + 1 \in 1..need
      BY <2>6, <2>11
    <3>3. Pair(a, 3 * q + 2) = Pair(b, 3 * q + 2)
      BY <3>2, <2>8
    <3> QED
      BY <3>1, <3>3
  <2>12. CASE i = 4 * q + 4
    <3>1. u[i] = Alphabet[Sextet4(Pair(a, 3 * q + 3)) + 1] /\ v[i] = Alphabet[Sextet4(Pair(b, 3 * q + 3)) + 1]
      BY <2>12, Quadlet
    <3>2. 3 * q + 3 \in 1..need
      BY <2>6, <2>12
    <3>3. PICK x, y \in Byte : /\ Pair(a, 3 * q + 3) = Joined(a[3 * q + 3], x)
                               /\ Pair(b, 3 * q + 3) = Joined(a[3 * q + 3], y)
      BY <3>2, <2>7
    <3>4. Sextet4(Joined(a[3 * q + 3], x)) = Sextet4(Joined(a[3 * q + 3], y))
      BY <2>5, <3>2, OwnBits
    <3> QED
      BY <3>1, <3>3, <3>4
  <2> QED
    BY <2>3, <2>9, <2>10, <2>11, <2>12
<1> HIDE DEF u, v
<1>3. u = v
  BY <1>1, <1>2, SameSequence
<1> QED
  BY <1>3 DEF u, v

\* Two streams begin with the same n bytes.
SameHead(a, b, n) == n <= Len(a) /\ n <= Len(b) /\ \A i \in 1..n : a[i] = b[i]

(* And so with fewer.                                                      *)
LEMMA ShorterHead ==
  ASSUME NEW S, NEW a \in Seq(S), NEW b \in Seq(S), NEW n \in Nat, SameHead(a, b, n), NEW m \in 0..n
  PROVE  /\ SameHead(a, b, m)
         /\ SubSeq(a, m + 1, n) = SubSeq(b, m + 1, n)
<1>1. n <= Len(a) /\ n <= Len(b) /\ \A i \in 1..n : a[i] = b[i]
  BY DEF SameHead
<1>2. SameHead(a, b, m)
  BY <1>1 DEF SameHead
<1> DEFINE u == SubSeq(a, m + 1, n)
           v == SubSeq(b, m + 1, n)
           first == m + 1
<1>3. first \in Nat \ {0} /\ first <= n + 1 /\ n - first + 1 = n - m /\ \A i \in 1..(n - m) : first + i - 1 \in 1..n
  OBVIOUS
<1>4. u = SubSeq(a, first, n) /\ v = SubSeq(b, first, n)
  OBVIOUS
<1> HIDE DEF first, u, v
<1>5. u \in Seq(S) /\ Len(u) = n - m /\ \A i \in 1..(n - m) : u[i] = a[first + i - 1]
  BY <1>1, <1>3, <1>4, PartOf
<1>6. v \in Seq(S) /\ Len(v) = n - m /\ \A i \in 1..(n - m) : v[i] = b[first + i - 1]
  BY <1>1, <1>3, <1>4, PartOf
<1>7. \A i \in 1..Len(u) : u[i] = v[i]
  BY <1>1, <1>3, <1>5, <1>6
<1>8. u = v
  BY <1>5, <1>6, <1>7, SameSequence
<1> QED
  BY <1>2, <1>8 DEF u, v

(* The payload is read from the bytes of its span.                         *)
LEMMA BinaryPayloadIsLocal ==
  ASSUME NEW code, NEW size, SizeFits(size), NEW a \in Seq(Byte), NEW b \in Seq(Byte),
         BytesFor(CodeChars(size)) <= Len(a),
         BinaryPayload(code, size, a).verdict = "Ok",
         SameHead(a, b, BinaryPayload(code, size, a).size)
  PROVE  /\ BinaryPayload(code, size, b) = BinaryPayload(code, size, a)
         /\ BinaryPayload(code, size, a).size \in Nat
         /\ BytesFor(CodeChars(size)) <= BinaryPayload(code, size, a).size
         /\ BinaryPayload(code, size, a).size % 3 = 0
<1> DEFINE cs == CodeChars(size)
           text == Characters(a, cs)
           soft == SubSeq(text, size.hs + size.xs + 1, cs)
           full == BytesFor(IF size.fs = Variable THEN FullSize(DecodeInt(soft), cs) ELSE size.fs)
           chars == BytesFor(cs)
           ahead == AheadOf(chars, size.ls)
           pad == cs % 4
           X == \A i \in 1..size.xs : text[size.hs + i] = Underscore
           Z(bytes) == PadIsZero(bytes[chars], pad)
           L(bytes) == LeadIsZero(bytes, chars + 1, ahead)
           Good(bytes) == X /\ full <= Len(bytes) /\ ahead <= full /\ Z(bytes) /\ L(bytes)
           Out(bytes) == [verdict |-> "Ok", size |-> full,
                          value |-> MatterOf(code, soft, SubSeq(bytes, ahead + 1, full))]
<1>1. Malformed.verdict # "Ok"
  BY DEF Malformed
<1>2. BinaryPayload(code, size, a) = IF Good(a) THEN Out(a) ELSE Malformed
  BY DEF BinaryPayload
<1>3. Characters(b, cs) = text =>
        BinaryPayload(code, size, b) = IF Good(b) THEN Out(b) ELSE Malformed
  BY DEF BinaryPayload
<1>4. Good(a) /\ BinaryPayload(code, size, a) = Out(a)
  <2> HIDE DEF Good, Out
  <2> QED
    BY <1>1, <1>2
<1>5. BinaryPayload(code, size, a).size = full
  BY <1>4
<1>6. full \in Nat /\ full % 3 = 0
  <2> DEFINE fs == IF size.fs = Variable THEN FullSize(DecodeInt(soft), cs) ELSE size.fs
  <2>1. cs \in Nat /\ size.hs + size.xs + 1 \in Nat \ {0} /\ size.hs + size.xs + 1 <= cs + 1
    BY SoftStarts
  <2>2. text \in Seq(DOMAIN Sextet) /\ Len(text) = cs
    BY <2>1, CharactersAreLetters
  <2>3. soft \in Seq(DOMAIN Sextet)
    <3> DEFINE first == size.hs + size.xs + 1
               letters == DOMAIN Sextet
    <3>1. first \in Nat \ {0} /\ first <= cs + 1 /\ text \in Seq(letters)
      BY <2>1, <2>2
    <3> HIDE DEF first, text, letters, cs
    <3>2. SubSeq(text, first, cs) \in Seq(letters)
      BY <2>1, <2>2, <3>1, PartOf
    <3> QED
      BY <3>2 DEF first, letters
  <2>4. InAlphabet(soft)
    BY <2>3 DEF InAlphabet
  <2>5. DecodeInt(soft) \in Nat
    BY <2>3, <2>4, DecodeIntIsNatural
  <2>6. size.fs = Variable => cs % 4 = 0
    BY DEF SizeFits, CodeChars
  <2>7. size.fs # Variable => size.fs \in Nat /\ size.fs % 4 = 0
    BY DEF SizeFits
  <2> HIDE DEF soft, text, cs
  <2>8. fs \in Nat /\ fs % 4 = 0
    BY <2>1, <2>5, <2>6, <2>7 DEF FullSize
  <2>9. full = BytesFor(fs)
    OBVIOUS
  <2> HIDE DEF fs, full
  <2> QED
    BY <2>8, <2>9 DEF BytesFor, CeilDiv
<1>7. chars \in Nat \ {0} /\ chars <= ahead /\ ahead <= full /\ ahead \in Nat
  <2>1. cs \in Nat /\ cs >= 1 /\ size.ls \in Nat
    BY SMTT(30) DEF SizeFits, CodeChars
  <2>2. ahead <= full
    BY <1>4
  <2>3. ahead = chars + size.ls
    BY DEF AheadOf
  <2>4. chars = BytesFor(cs)
    OBVIOUS
  <2> HIDE DEF cs, chars, ahead, full
  <2>5. chars \in Nat \ {0}
    BY <2>1, <2>4 DEF BytesFor, CeilDiv
  <2> QED
    BY <2>1, <2>2, <2>3, <2>5
<1>8. SameHead(a, b, full)
  BY <1>5
<1>9. cs \in Nat
  BY SoftStarts
<1> HIDE DEF full, ahead, soft
<1>10. SameHead(a, b, chars) /\ SameHead(a, b, ahead) /\ SubSeq(a, ahead + 1, full) = SubSeq(b, ahead + 1, full)
  <2>1. chars \in 0..full /\ ahead \in 0..full
    BY <1>6, <1>7
  <2> HIDE DEF chars
  <2> QED
    BY <1>6, <1>8, <2>1, ShorterHead
<1>11. Characters(b, cs) = text
  <2>1. BytesFor(cs) <= Len(a) /\ BytesFor(cs) <= Len(b) /\ \A i \in 1..BytesFor(cs) : a[i] = b[i]
    BY <1>10 DEF SameHead
  <2> QED
    BY <1>9, <2>1, CharactersAreLocal
<1> HIDE DEF text
<1>12. a[chars] = b[chars] /\ full <= Len(b)
  <2>1. chars \in 1..chars
    BY <1>7
  <2> HIDE DEF chars
  <2> QED
    BY <1>8, <1>10, <2>1 DEF SameHead
<1>13. Z(b)
  BY <1>4, <1>12
<1>14. L(b)
  <2>1. \A i \in (chars + 1)..ahead : i \in 1..ahead
    BY <1>7
  <2>2. \A i \in (chars + 1)..ahead : a[i] = 0
    BY <1>4 DEF LeadIsZero
  <2> HIDE DEF chars
  <2>3. \A i \in (chars + 1)..ahead : b[i] = 0
    BY <1>10, <2>1, <2>2 DEF SameHead
  <2> QED
    BY <2>3 DEF LeadIsZero
<1>15. Good(b)
  BY <1>4, <1>12, <1>13, <1>14
<1>16. Out(b) = Out(a)
  BY <1>10
<1> HIDE DEF Good, Out, cs, chars
<1>17. BinaryPayload(code, size, b) = Out(a)
  BY <1>3, <1>11, <1>15, <1>16
<1> QED
  BY <1>4, <1>5, <1>6, <1>7, <1>17 DEF cs, chars

(* Powers of the base that a field can reach.                              *)
LEMMA Powers ==
  /\ 64 ^ 0 = 1 /\ 64 ^ 1 = 64 /\ 64 ^ 2 = 4096 /\ 64 ^ 3 = 262144 /\ 64 ^ 4 = 16777216
  /\ 16 ^ 0 = 1 /\ 16 ^ 1 = 16 /\ 16 ^ 2 = 256 /\ 16 ^ 3 = 4096 /\ 16 ^ 4 = 65536
  /\ 16 ^ 5 = 1048576 /\ 16 ^ 6 = 16777216
BY SMT

\* The digit of a number at a place, counted from the right.
Place(v, k) == (v \div 64 ^ k) % 64

\* The number four digits are.
FromDigits(d0, d1, d2, d3) == d0 + 64 * d1 + 64 ^ 2 * d2 + 64 ^ 3 * d3

\* What a field can say at all.
Fields == 0..(64 ^ 4 - 1)

(* The digits of a number are those it was made of.                        *)
LEMMA PlacesOfDigits ==
  ASSUME NEW d0 \in Sextets, NEW d1 \in Sextets, NEW d2 \in Sextets, NEW d3 \in Sextets,
         NEW v, v = FromDigits(d0, d1, d2, d3)
  PROVE  /\ v \in Fields
         /\ Place(v, 0) = d0 /\ Place(v, 1) = d1 /\ Place(v, 2) = d2 /\ Place(v, 3) = d3
<1>1. v = d0 + 64 * d1 + 4096 * d2 + 262144 * d3
  BY Powers, SMT DEF FromDigits
<1>2. v \in Fields
  BY <1>1, Powers, SMT DEF Sextets, Fields
<1>3. (v \div 1) % 64 = d0
  BY <1>1, SMT DEF Sextets
<1>4. (v \div 64) % 64 = d1
  <2>1. v \div 64 = d1 + 64 * d2 + 4096 * d3
    BY <1>1, SMT DEF Sextets
  <2> QED
    BY <2>1, SMT DEF Sextets
<1>5. (v \div 4096) % 64 = d2
  <2>1. v \div 4096 = d2 + 64 * d3
    BY <1>1, SMT DEF Sextets
  <2> QED
    BY <2>1, SMT DEF Sextets
<1>6. (v \div 262144) % 64 = d3
  <2>1. v \div 262144 = d3
    BY <1>1, SMT DEF Sextets
  <2> QED
    BY <2>1, SMT DEF Sextets
<1> QED
  BY <1>2, <1>3, <1>4, <1>5, <1>6, Powers, SMT DEF Place

\* The digit of a text at a place, counted from the right.
DigitOf(text, n) == IF n < Len(text) THEN Sextet[text[Len(text) - n]] ELSE 0

(* What a field says.                                                      *)
LEMMA DecodeIs ==
  ASSUME NEW text \in Seq(DOMAIN Sextet)
  PROVE  /\ DecodeInt(text) =
              FromDigits(DigitOf(text, 0), DigitOf(text, 1), DigitOf(text, 2), DigitOf(text, 3))
         /\ \A n \in 0..3 : DigitOf(text, n) \in Sextets
         /\ DecodeInt(text) \in Fields
<1> DEFINE letters == DOMAIN Sextet
<1>1. DecodeInt(text) =
        DigitOf(text, 0) + 64 * DigitOf(text, 1) + 64 ^ 2 * DigitOf(text, 2) + 64 ^ 3 * DigitOf(text, 3)
  BY Zenon DEF DecodeInt, DigitOf
<1>2. ASSUME NEW n \in 0..3
      PROVE  DigitOf(text, n) \in Sextets
  <2>1. CASE n < Len(text)
    <3>1. Len(text) - n \in 1..Len(text)
      BY <2>1
    <3>2. Sextet[text[Len(text) - n]] \in Sextets
      BY <3>1, SextetOfText
    <3> QED
      BY <2>1, <3>2 DEF DigitOf
  <2>2. CASE ~(n < Len(text))
    BY <2>2 DEF DigitOf, Sextets
  <2> QED
    BY <2>1, <2>2
<1>3. 0 \in 0..3 /\ 1 \in 0..3 /\ 2 \in 0..3 /\ 3 \in 0..3
  OBVIOUS
<1>4. DecodeInt(text) = FromDigits(DigitOf(text, 0), DigitOf(text, 1), DigitOf(text, 2), DigitOf(text, 3))
  BY <1>1, Zenon DEF FromDigits
<1>5. DecodeInt(text) \in Fields
  BY <1>2, <1>3, <1>4, PlacesOfDigits
<1> QED
  BY <1>2, <1>4, <1>5

(* The same of an exponent that has a name.                                *)
LEMMA PowersOf ==
  ASSUME NEW w
  PROVE  /\ w = 0 => 64 ^ w = 1
         /\ w = 1 => 64 ^ w = 64
         /\ w = 2 => 64 ^ w = 4096
         /\ w = 3 => 64 ^ w = 262144
         /\ w = 4 => 64 ^ w = 16777216
<1>1. CASE w = 0
  BY <1>1, SMT
<1>2. CASE w = 1
  BY <1>2, SMT
<1>3. CASE w = 2
  BY <1>3, SMT
<1>4. CASE w = 3
  BY <1>4, SMT
<1>5. CASE w = 4
  BY <1>5, SMT
<1> QED
  BY <1>1, <1>2, <1>3, <1>4, <1>5, SMT

(* Powers grow.                                                            *)
LEMMA PowersGrow ==
  ASSUME NEW n \in 0..4, NEW e \in n..4
  PROVE  64 ^ n \in Nat /\ 64 ^ e \in Nat /\ 64 ^ n <= 64 ^ e
<1> DEFINE a == 64 ^ n
           b == 64 ^ e
<1>1. /\ n = 0 => a = 1
      /\ n = 1 => a = 64
      /\ n = 2 => a = 4096
      /\ n = 3 => a = 262144
      /\ n = 4 => a = 16777216
  BY PowersOf, SMT
<1>2. /\ e = 0 => b = 1
      /\ e = 1 => b = 64
      /\ e = 2 => b = 4096
      /\ e = 3 => b = 262144
      /\ e = 4 => b = 16777216
  BY PowersOf, SMT
<1> HIDE DEF a, b
<1>3. a \in Nat /\ b \in Nat /\ a <= b
  BY <1>1, <1>2, SMT
<1> QED
  BY <1>3 DEF a, b

\* The digits a number needs.
Needed(v) ==
  CHOOSE w \in 1..MaxDigits :
    /\ v < 64 ^ w
    /\ w = 1 \/ 64 ^ (w - 1) <= v

(* A number that fits a field needs no more digits than that.              *)
LEMMA NeededFits ==
  ASSUME NEW v \in Fields
  PROVE  /\ Needed(v) \in 1..4
         /\ v < 64 ^ Needed(v)
         /\ \A n \in 1..4 : v < 64 ^ n => Needed(v) <= n
<1> DEFINE P(w) == v < 64 ^ w /\ (w = 1 \/ 64 ^ (w - 1) <= v)
<1>1. \E w \in 1..4 : P(w)
  <2>1. v \in Nat /\ v < 64 ^ 4
    BY Powers, SMT DEF Fields
  <2>2. 1 - 1 = 0 /\ 2 - 1 = 1 /\ 3 - 1 = 2 /\ 4 - 1 = 3
    OBVIOUS
  <2>3. 64 ^ 1 \in Nat /\ 64 ^ 2 \in Nat /\ 64 ^ 3 \in Nat
    BY Powers, SMT
  <2>4. P(1) \/ P(2) \/ P(3) \/ P(4)
    BY <2>1, <2>2, <2>3, SMT
  <2>5. 1 \in 1..4 /\ 2 \in 1..4 /\ 3 \in 1..4 /\ 4 \in 1..4
    OBVIOUS
  <2> HIDE DEF P
  <2> QED
    BY <2>4, <2>5
<1>2. Needed(v) = CHOOSE w \in 1..4 : P(w)
  BY DEF Needed, MaxDigits
<1> HIDE DEF P
<1> DEFINE w == Needed(v)
<1>3. w \in 1..4 /\ P(w)
  BY <1>1, <1>2
<1> HIDE DEF w
<1>4. ASSUME NEW n \in 1..4, v < 64 ^ n
      PROVE  w <= n
  <2>1. SUFFICES ASSUME n < w PROVE FALSE
    BY <1>3
  <2>2. w - 1 \in n..4 /\ 64 ^ (w - 1) <= v /\ n \in 0..4
    BY <1>3, <2>1 DEF P
  <2>3. v \in Nat
    BY Powers, SMT DEF Fields
  <2> DEFINE e == w - 1
  <2>4. e \in n..4 /\ 64 ^ e <= v
    BY <2>2
  <2> HIDE DEF e
  <2>5. 64 ^ n \in Nat /\ 64 ^ e \in Nat /\ 64 ^ n <= 64 ^ e
    BY <2>2, <2>4, PowersGrow
  <2> DEFINE a == 64 ^ n
             b == 64 ^ e
  <2>6. a \in Nat /\ b \in Nat /\ a <= b /\ b <= v /\ v < a
    BY <1>4, <2>4, <2>5
  <2> HIDE DEF a, b
  <2> QED
    BY <2>3, <2>6
<1> QED
  BY <1>3, <1>4 DEF P, w

\* What stands between two places of a sequence.
Piece(s, a, b) == SubSeq(s, a + 1, b)

\* A text is what stands between two places of another.
IsPiece(p, S, s, a, b) ==
  /\ p \in Seq(S) /\ Len(p) = b - a
  /\ \A i \in 1..(b - a) : p[i] = s[a + i]

(* As a piece is.                                                          *)
LEMMA PieceIs ==
  ASSUME NEW S, NEW s \in Seq(S), NEW b \in 0..Len(s), NEW a \in 0..b
  PROVE  IsPiece(Piece(s, a, b), S, s, a, b)
<1> DEFINE first == a + 1
<1>1. b \in Nat
  OBVIOUS
<1>2. first \in Nat \ {0} /\ b \in Nat /\ b <= Len(s) /\ first <= b + 1
  OBVIOUS
<1>3. b - first + 1 = b - a /\ \A i \in 1..(b - a) : first + i - 1 = a + i
  OBVIOUS
<1>4. Piece(s, a, b) = SubSeq(s, first, b)
  BY DEF Piece
<1> HIDE DEF first
<1>5. SubSeq(s, first, b) \in Seq(S) /\ Len(SubSeq(s, first, b)) = b - first + 1
      /\ \A i \in 1..(b - first + 1) : SubSeq(s, first, b)[i] = s[first + i - 1]
  BY <1>2, PartOf
<1> QED
  BY <1>3, <1>4, <1>5 DEF IsPiece

(* Both parts of a clean text are clean.                                   *)
LEMMA CleanParts ==
  ASSUME NEW S, NEW a \in Seq(S), NEW b \in Seq(S), InAlphabet(a \o b)
  PROVE  a \in Seq(DOMAIN Sextet) /\ b \in Seq(DOMAIN Sextet)
<1> DEFINE all == a \o b
           letters == DOMAIN Sextet
<1>1. Follows(all, S, a, b) /\ InAlphabet(all)
  BY Appended
<1> HIDE DEF all
<1>2. \A i \in 1..Len(all) : all[i] \in letters
  BY <1>1 DEF InAlphabet, Follows
<1> HIDE DEF letters
<1>3. ASSUME NEW i \in 1..Len(a) PROVE a[i] \in letters
  <2>1. i \in 1..Len(all) /\ all[i] = a[i]
    BY <1>1 DEF Follows
  <2> QED
    BY <1>2, <2>1
<1>4. ASSUME NEW i \in 1..Len(b) PROVE b[i] \in letters
  <2>1. Len(a) + i \in 1..Len(all) /\ all[Len(a) + i] = b[i]
    BY <1>1 DEF Follows
  <2> QED
    BY <1>2, <2>1
<1>5. a \in Seq(letters) /\ b \in Seq(letters)
  BY <1>3, <1>4
<1> QED
  BY <1>5 DEF letters

(* What stands in a head that two streams share is the same in both.       *)
LEMMA SamePart ==
  ASSUME NEW S, NEW a \in Seq(S), NEW b \in Seq(S), NEW n \in Nat, SameHead(a, b, n),
         NEW first \in Nat \ {0}, NEW last \in 0..n, first <= last + 1
  PROVE  SubSeq(a, first, last) = SubSeq(b, first, last)
<1> DEFINE u == SubSeq(a, first, last)
           v == SubSeq(b, first, last)
<1>1. n <= Len(a) /\ n <= Len(b) /\ \A i \in 1..n : a[i] = b[i]
  BY DEF SameHead
<1>2. last \in Nat /\ last <= Len(a) /\ last <= Len(b)
  BY <1>1
<1>3. u \in Seq(S) /\ Len(u) = last - first + 1 /\ \A i \in 1..(last - first + 1) : u[i] = a[first + i - 1]
  BY <1>2, PartOf
<1>4. v \in Seq(S) /\ Len(v) = last - first + 1 /\ \A i \in 1..(last - first + 1) : v[i] = b[first + i - 1]
  BY <1>2, PartOf
<1> HIDE DEF u, v
<1>5. \A i \in 1..(last - first + 1) : first + i - 1 \in 1..n
  OBVIOUS
<1>6. \A i \in 1..Len(u) : u[i] = v[i]
  BY <1>1, <1>3, <1>4, <1>5
<1>7. u = v
  BY <1>3, <1>4, <1>6, SameSequence
<1> QED
  BY <1>7 DEF u, v

(* A plain primitive is read from the characters of its span.              *)
LEMMA MatterTextIsLocal ==
  ASSUME NEW S, NEW a \in Seq(S), NEW b \in Seq(S), ReadMatter(a).verdict = "Ok",
         SameHead(a, b, ReadMatter(a).size)
  PROVE  ReadMatter(b) = ReadMatter(a)
<1> DEFINE code == HeadOf(a)
           size == Sizage[code]
           full == FullOf(size, a)
           hs == HardSize(a[1])
           Ready(t) == size.fs = Variable => CodeChars(size) <= Len(t) /\ InAlphabet(SoftOf(size, t))
<1>1. /\ CodeAt(a) = [verdict |-> "Ok", code |-> code]
      /\ code \in MatterCodes /\ SizeFits(size) /\ size.hs = hs
      /\ Ready(a)
      /\ full <= Len(a)
      /\ ReadMatter(a) = FromQualifiedBase64(SubSeq(a, 1, full))
  BY MatterReads
<1>2. /\ full \in Nat /\ CodeChars(size) \in 0..full /\ size.hs <= CodeChars(size)
      /\ ReadMatter(a).size = full
  BY SpanReads
<1>3. hs \in {1, 2, 4}
  <2>1. CodeAt(a).verdict = "Ok"
    BY <1>1
  <2> QED
    BY <2>1, CodeReads
<1>4. full \in Nat /\ SameHead(a, b, full)
  BY <1>2
<1>5. code = SubSeq(a, 1, hs)
  BY DEF HeadOf
<1> HIDE DEF code, full
<1>6. hs \in 0..full
  <2> HIDE DEF hs, size
  <2> QED
    BY <1>1, <1>2, <1>3
<1>7. full <= Len(b) /\ \A i \in 1..full : a[i] = b[i]
  BY <1>4 DEF SameHead
<1>8. a[1] = b[1] /\ b # <<>> /\ hs <= Len(b)
  <2> HIDE DEF hs
  <2>1. Len(b) \in Nat /\ 1 \in 1..full
    BY <1>2, <1>3, <1>6
  <2> QED
    BY <1>2, <1>3, <1>6, <1>7, <2>1
<1>9. HardSize(b[1]) = hs
  BY <1>8
<1> HIDE DEF hs
<1>10. SubSeq(b, 1, hs) = code
  <2>1. 1 \in Nat \ {0} /\ 1 <= hs + 1
    BY <1>3
  <2> QED
    BY <1>4, <1>5, <1>6, <2>1, SamePart, ZenonT(60)
<1>11. CodeAt(b) = [verdict |-> "Ok", code |-> code]
  <2>1. CodeAt(b) =
          CASE b = <<>> -> NeedBytes
            [] b # <<>> /\ hs = 0 -> Malformed
            [] b # <<>> /\ hs > Len(b) -> NeedBytes
            [] OTHER -> IF code \in MatterCodes THEN [verdict |-> "Ok", code |-> code] ELSE Malformed
    BY <1>9, <1>10 DEF CodeAt
  <2>2. ~(hs > Len(b)) /\ hs # 0
    BY <1>3, <1>8
  <2> QED
    BY <1>1, <1>8, <2>1, <2>2
<1> HIDE DEF size
<1>12. SoftOf(size, b) = SoftOf(size, a)
  <2>1. /\ size.hs + size.xs + 1 \in Nat \ {0} /\ CodeChars(size) \in 0..full
        /\ size.hs + size.xs + 1 <= CodeChars(size) + 1
    BY <1>1, <1>2, SoftStarts
  <2> QED
    BY <1>4, <2>1, SamePart, ZenonT(60) DEF SoftOf
<1>13. Ready(b)
  <2>1. CodeChars(size) <= Len(b)
    BY <1>2, <1>7
  <2> QED
    BY <1>1, <1>12, <2>1
<1>14. FullOf(size, b) = full
  BY <1>12 DEF FullOf, full
<1>15. FrameSizeOf(size, b) = [verdict |-> "Ok", size |-> full]
  BY <1>1, <1>13, <1>14, FrameReads, Zenon
<1>16. MatterFrame(b) = FrameSizeOf(size, b)
  BY <1>11 DEF MatterFrame, IfOk, size
<1>17. ReadMatter(b) = IF full > Len(b) THEN NeedBytes ELSE FromQualifiedBase64(SubSeq(b, 1, full))
  BY <1>15, <1>16 DEF ReadMatter, IfOk
<1>18. ~(full > Len(b))
  BY <1>2, <1>7
<1>19. SubSeq(b, 1, full) = SubSeq(a, 1, full)
  <2>1. 1 \in Nat \ {0} /\ 1 <= full + 1 /\ full \in 0..full
    BY <1>2
  <2> QED
    BY <1>4, <2>1, SamePart, ZenonT(60)
<1> QED
  BY <1>1, <1>17, <1>18, <1>19

(* What is refused, and for what, is told apart.                           *)
LEMMA Verdicts ==
  /\ NeedBytes.verdict = "NeedBytes" /\ Malformed.verdict = "Malformed"
  /\ NeedBytes.verdict # "Ok" /\ Malformed.verdict # "Ok"
BY DEF NeedBytes, Malformed

-----------------------------------------------------------------------------
(* What is written is read back: the round trips.                          *)

(* Zero bytes ahead become padding: as many characters of it as there are  *)
(* bytes, up to three.                                                     *)
LEMMA PadWritten ==
  ASSUME NEW bytes \in Seq(Byte), NEW m \in Nat, Len(bytes) = 3 * m, NEW pad \in 0..3, pad <= 3 * m,
         \A i \in 1..pad : bytes[i] = 0
  PROVE  \A i \in 1..pad : AllCharacters(bytes)[i] = "A"
<1> DEFINE text == AllCharacters(bytes)
           got == Characters(bytes, 4 * m)
           q == 0
<1>1. CASE pad = 0
  BY <1>1
<1>2. CASE pad # 0
  <2>1. pad \in 1..3 /\ m \in Nat \ {0} /\ 1 \in 1..Len(bytes) /\ 2 \in 1..Len(bytes) /\ 3 \in 1..Len(bytes)
    BY <1>2
  <2>2. /\ q \in Nat /\ 4 * m \in Nat
        /\ 4 * q + 1 = 1 /\ 4 * q + 2 = 2 /\ 4 * q + 3 = 3
        /\ 3 * q + 1 = 1 /\ 3 * q + 2 = 2
        /\ 4 * q + 1 \in 1..(4 * m) /\ 4 * q + 2 \in 1..(4 * m) /\ 4 * q + 3 \in 1..(4 * m)
    BY <2>1
  <2> HIDE DEF q
  <2>3. /\ got[4 * q + 1] = Alphabet[Sextet1(Pair(bytes, 3 * q + 1)) + 1]
        /\ got[4 * q + 2] = Alphabet[Sextet2(Pair(bytes, 3 * q + 1)) + 1]
        /\ got[4 * q + 3] = Alphabet[Sextet3(Pair(bytes, 3 * q + 2)) + 1]
    <3> HIDE DEF got
    <3> QED
      BY <2>2, Quadlet, Zenon DEF got
  <2>4. /\ got[1] = Alphabet[Sextet1(Pair(bytes, 1)) + 1]
        /\ got[2] = Alphabet[Sextet2(Pair(bytes, 1)) + 1]
        /\ got[3] = Alphabet[Sextet3(Pair(bytes, 2)) + 1]
    <3> HIDE DEF got
    <3> QED
      BY <2>2, <2>3, Zenon
  <2>5. text = got
    BY TextOfBytes
  <2> HIDE DEF text, got
  <2>6. /\ Pair(bytes, 1) = Joined(bytes[1], bytes[2])
        /\ Pair(bytes, 2) = Joined(bytes[2], bytes[3])
    <3>1. 1 < Len(bytes) /\ 2 < Len(bytes) /\ 1 + 1 = 2 /\ 2 + 1 = 3
      BY <2>1
    <3> QED
      BY <3>1 DEF Pair
  <2>7. bytes[1] \in Byte /\ bytes[2] \in Byte /\ bytes[3] \in Byte
    BY <2>1
  <2>8. /\ \A b \in Byte : Sextet1(Joined(0, b)) = 0
        /\ Sextet2(Joined(0, 0)) = 0
        /\ Sextet3(Joined(0, 0)) = 0
    BY SMT DEF Sextet1, Sextet2, Sextet3, Joined, Byte
  <2>9. Alphabet[0 + 1] = "A"
    BY DEF Alphabet
  <2>10. bytes[1] = 0
    BY <2>1
  <2>11. text[1] = "A"
    BY <2>4, <2>5, <2>6, <2>7, <2>8, <2>9, <2>10, Zenon
  <2>12. pad \in {2, 3} => text[2] = "A"
    <3>1. SUFFICES ASSUME pad \in {2, 3} PROVE text[2] = "A"
      OBVIOUS
    <3>2. bytes[2] = 0
      BY <3>1
    <3> QED
      BY <2>4, <2>5, <2>6, <2>8, <2>9, <2>10, <3>2, Zenon
  <2>13. pad = 3 => text[3] = "A"
    <3>1. SUFFICES ASSUME pad = 3 PROVE text[3] = "A"
      OBVIOUS
    <3>2. bytes[2] = 0 /\ bytes[3] = 0
      BY <3>1
    <3> QED
      BY <2>4, <2>5, <2>6, <2>8, <2>9, <3>2, Zenon
  <2>14. \A i \in 1..pad : i = 1 \/ (i = 2 /\ pad \in {2, 3}) \/ (i = 3 /\ pad = 3)
    BY <2>1
  <2> QED
    BY <2>11, <2>12, <2>13, <2>14 DEF text
<1> QED
  BY <1>1, <1>2

\* A text goes on with a part, that stands between two places of it.
Joins(c, S, u, p, m, n) ==
  /\ c \in Seq(S) /\ Len(c) = n
  /\ Piece(c, m, n) = p
  /\ \A b \in 0..m : \A a \in 0..b : Piece(c, a, b) = Piece(u, a, b)
  /\ \A i \in 1..m : c[i] = u[i]
  /\ \A i \in 1..Len(p) : c[m + i] = p[i]

(* What was written last stands last, and what stood before stays.         *)
LEMMA JoinedPieces ==
  ASSUME NEW S, NEW u \in Seq(S), NEW p \in Seq(S), NEW c, c = u \o p,
         NEW m, m = Len(u), NEW n, n = m + Len(p)
  PROVE  Joins(c, S, u, p, m, n)
<1>1. Follows(c, S, u, p)
  BY Appended
<1>2. /\ c \in Seq(S) /\ Len(c) = n
      /\ \A i \in 1..m : c[i] = u[i]
      /\ \A i \in 1..Len(p) : c[m + i] = p[i]
  BY <1>1 DEF Follows
<1>3. m \in Nat /\ n \in Nat /\ m <= n /\ n - m = Len(p)
  OBVIOUS
<1>4. Piece(c, m, n) = p
  <2> DEFINE q == Piece(c, m, n)
  <2>1. n \in 0..Len(c) /\ m \in 0..n
    BY <1>2, <1>3
  <2>2. IsPiece(q, S, c, m, n)
    BY <1>2, <2>1, PieceIs
  <2> HIDE DEF q
  <2>3. q \in Seq(S) /\ Len(q) = Len(p) /\ \A i \in 1..Len(p) : q[i] = c[m + i]
    BY <1>3, <2>2 DEF IsPiece
  <2>4. q = p
    BY <1>2, <2>3, SameSequence
  <2> QED
    BY <2>4 DEF q
<1>5. ASSUME NEW b \in 0..m, NEW a \in 0..b
      PROVE  Piece(c, a, b) = Piece(u, a, b)
  <2> DEFINE q == Piece(c, a, b)
             r == Piece(u, a, b)
  <2>1. b \in 0..Len(c) /\ b \in 0..Len(u) /\ b \in Nat /\ a \in Nat
    BY <1>2, <1>3
  <2>2. IsPiece(q, S, c, a, b) /\ IsPiece(r, S, u, a, b)
    BY <1>2, <2>1, PieceIs
  <2> HIDE DEF q, r
  <2>3. \A i \in 1..(b - a) : a + i \in 1..m
    BY <2>1
  <2>4. q \in Seq(S) /\ r \in Seq(S) /\ Len(q) = Len(r) /\ \A i \in 1..Len(q) : q[i] = r[i]
    BY <1>2, <2>2, <2>3 DEF IsPiece
  <2>5. q = r
    BY <2>4, SameSequence
  <2> QED
    BY <2>5 DEF q, r
<1> QED
  BY <1>2, <1>3, <1>4, <1>5 DEF Joins

\* A text of four parts, and where they end.
FourParts(t, S, a, b, c, d, ends) ==
  /\ t \in Seq(S) /\ Len(t) = ends[4]
  /\ Piece(t, 0, ends[1]) = a /\ Piece(t, ends[1], ends[2]) = b
  /\ Piece(t, ends[2], ends[3]) = c /\ Piece(t, ends[3], ends[4]) = d
  /\ \A i \in 1..ends[1] : t[i] = a[i]
  /\ \A i \in 1..Len(b) : t[ends[1] + i] = b[i]

\* A primitive's characters after the code hold so many bytes, in threes.
Holds(v, size, cs, pad, N) ==
  /\ size.ls + pad + Len(v.raw) = 3 * N
  /\ size.fs # Variable => size.fs = cs + (4 * N - pad)
  /\ size.fs = Variable => N = DecodeInt(v.soft) /\ pad = 0

\* The payload of a primitive: what its characters after the code are of.
Whole(v, pad) == Zeros(Sizage[v.code].ls + pad) \o v.raw

\* Zero bytes, and the raw ones after them.
ZerosAndRaw(whole, raw, zeros, n) ==
  /\ whole \in Seq(Byte) /\ Len(whole) = n
  /\ \A i \in 1..zeros : whole[i] = 0
  /\ zeros <= n
  /\ Piece(whole, zeros, n) = raw

(* What the payload is made of.                                            *)
LEMMA WholeIs ==
  ASSUME NEW raw \in Seq(Byte), NEW zeros \in Nat, NEW n \in Nat, n = zeros + Len(raw),
         NEW whole, whole = Zeros(zeros) \o raw
  PROVE  ZerosAndRaw(whole, raw, zeros, n)
<1>1. Zeros(zeros) \in Seq(Byte) /\ Len(Zeros(zeros)) = zeros /\ \A i \in 1..zeros : Zeros(zeros)[i] = 0
  <2>1. 0 \in Byte
    BY DEF Byte
  <2> QED
    BY <2>1, Repeated DEF Zeros
<1> DEFINE z == Zeros(zeros)
<1> HIDE DEF z
<1>3. Joins(whole, Byte, z, raw, zeros, n)
  BY <1>1, JoinedPieces DEF z
<1>4. whole \in Seq(Byte) /\ Len(whole) = n /\ Piece(whole, zeros, n) = raw /\ \A i \in 1..zeros : whole[i] = z[i]
  BY <1>3 DEF Joins
<1>5. \A i \in 1..zeros : whole[i] = 0
  BY <1>1, <1>4 DEF z
<1>6. zeros <= n
  OBVIOUS
<1> QED
  BY <1>4, <1>5, <1>6 DEF ZerosAndRaw

\* A payload in characters, of which the first stand for padding.
Unpadded(body, payload, pad, n, whole) ==
  /\ body \in Seq(DOMAIN Sextet) /\ Len(body) = n - pad
  /\ Padding(pad) \o body = payload
  /\ payload \in Seq(DOMAIN Sextet) /\ Len(payload) = n /\ Bytes(payload) = whole

(* The payload in characters, without the padding, and with it again.      *)
LEMMA PayloadWritten ==
  ASSUME NEW whole \in Seq(Byte), NEW N \in Nat, NEW m, m = 3 * N, NEW n, n = 4 * N,
         Len(whole) = m, NEW pad \in 0..3, pad <= m,
         \A i \in 1..pad : whole[i] = 0,
         NEW payload, payload = AllCharacters(whole), NEW body, body = Piece(payload, pad, n)
  PROVE  Unpadded(body, payload, pad, n, whole)
<1> DEFINE letters == DOMAIN Sextet
           padding == Padding(pad)
           all == padding \o body
<1>1. payload \in Seq(letters) /\ Len(payload) = n
  BY TextOfBytes
<1>2. Bytes(payload) = whole
  <2>1. Encodable(whole)
    <3>1. (3 * N) % 3 = 0
      OBVIOUS
    <3> QED
      BY <3>1 DEF Encodable
  <2> QED
    BY <2>1, BinarySurvivesText
<1>3. \A i \in 1..pad : payload[i] = "A"
  BY PadWritten
<1>4. n \in Nat /\ pad \in Nat /\ pad <= n /\ Len(payload) \in 0..Len(payload) /\ pad \in 0..n
  BY <1>1
<1>5. padding \in Seq(letters) /\ Len(padding) = pad /\ \A i \in 1..pad : padding[i] = "A"
  BY <1>4, PaddingIs
<1> HIDE DEF letters, padding
<1>6. IsPiece(body, letters, payload, pad, n)
  <2>1. n \in 0..Len(payload)
    BY <1>1, <1>4
  <2> QED
    BY <1>1, <1>4, <2>1, PieceIs
<1>7. body \in Seq(letters) /\ Len(body) = n - pad /\ \A i \in 1..(n - pad) : body[i] = payload[pad + i]
  BY <1>6 DEF IsPiece
<1>8. Follows(all, letters, padding, body)
  BY <1>5, <1>7, Appended
<1>9. /\ all \in Seq(letters) /\ Len(all) = n
      /\ \A i \in 1..pad : all[i] = padding[i]
      /\ \A i \in 1..(n - pad) : all[pad + i] = body[i]
  <2> HIDE DEF all
  <2>1. /\ all \in Seq(letters) /\ Len(all) = Len(padding) + Len(body)
        /\ \A i \in 1..Len(padding) : all[i] = padding[i]
        /\ \A i \in 1..Len(body) : all[Len(padding) + i] = body[i]
    BY <1>8 DEF Follows
  <2>2. Len(padding) = pad /\ Len(body) = n - pad
    BY <1>5, <1>7
  <2>3. /\ all \in Seq(letters) /\ Len(all) = pad + (n - pad)
        /\ \A i \in 1..pad : all[i] = padding[i]
        /\ \A i \in 1..(n - pad) : all[pad + i] = body[i]
    BY <2>1, <2>2
  <2>4. pad + (n - pad) = n
    BY <1>4
  <2> QED
    BY <2>3, <2>4, Zenon
<1> HIDE DEF all
<1>10. \A i \in 1..n : all[i] = payload[i]
  <2> SUFFICES ASSUME NEW i \in 1..n PROVE all[i] = payload[i]
    OBVIOUS
  <2>1. CASE i \in 1..pad
    BY <1>3, <1>5, <1>9, <2>1
  <2>2. CASE i \notin 1..pad
    <3> DEFINE j == i - pad
    <3>1. j \in 1..(n - pad) /\ i = pad + j
      BY <1>4, <2>2
    <3> HIDE DEF j
    <3> QED
      BY <1>7, <1>9, <3>1
  <2> QED
    BY <2>1, <2>2
<1>11. all = payload
  BY <1>1, <1>9, <1>10, SameSequence
<1> QED
  BY <1>1, <1>2, <1>7, <1>11 DEF letters, all, padding, Unpadded

\* A primitive that is written, in its parts: the payload is of N times
\* three bytes, the first of them zero.
InParts(v, size, cs, pad, text, N, body, fill) ==
  /\ FourParts(text, DOMAIN Sextet, v.code, fill, v.soft, body,
               <<size.hs, size.hs + size.xs, cs, cs + (4 * N - pad)>>)
  /\ \A i \in 1..size.xs : fill[i] = Underscore
  /\ Len(fill) = size.xs
  /\ Padding(pad) \o body \in Seq(DOMAIN Sextet)
  /\ Bytes(Padding(pad) \o body) = Whole(v, pad)
  /\ Whole(v, pad) \in Seq(Byte) /\ Len(Whole(v, pad)) = 3 * N
  /\ \A i \in 1..(size.ls + pad) : Whole(v, pad)[i] = 0
  /\ size.ls + pad <= 3 * N
  /\ Piece(Whole(v, pad), size.ls + pad, 3 * N) = v.raw
  /\ Holds(v, size, cs, pad, N)

(* The code of a primitive that is written is read.                        *)
LEMMA WrittenCodeReads ==
  ASSUME NEW code \in MatterCodes, NEW S, NEW text \in Seq(S), NEW hs, hs = Sizage[code].hs,
         hs <= Len(text), \A i \in 1..hs : text[i] = code[i], Piece(text, 0, hs) = code
  PROVE  CodeAt(text) = [verdict |-> "Ok", code |-> code]
<1>1. Spelt(code, hs) /\ SizeFits(Sizage[code])
  BY CodesSpelt, SizageFits
<1>2. hs \in {1, 2, 4} /\ HardSize(code[1]) = hs
  BY <1>1 DEF Spelt, SizeFits
<1>3. text[1] = code[1] /\ text # <<>>
  BY <1>2
<1>4. HardSize(text[1]) = hs
  BY <1>2, <1>3
<1>5. SubSeq(text, 1, hs) = code
  BY DEF Piece
<1>6. CodeAt(text) = CASE text = <<>> -> NeedBytes
                       [] text # <<>> /\ hs = 0 -> Malformed
                       [] text # <<>> /\ hs > Len(text) -> NeedBytes
                       [] OTHER -> IF code \in MatterCodes THEN [verdict |-> "Ok", code |-> code] ELSE Malformed
  BY <1>4, <1>5 DEF CodeAt
<1>7. hs # 0 /\ ~(hs > Len(text))
  BY <1>2
<1> QED
  BY <1>3, <1>6, <1>7

\* How the characters of an indexed signature are shared out: the payload
\* is of N times three bytes.
Shares(size, cs, pad, w, os, N) ==
  /\ cs \in {2, 4, 6, 8} /\ pad \in 0..3 /\ w \in 1..3 /\ os \in 0..3 /\ N \in {22, 38}
  /\ size.hs + w + os = cs
  /\ LeadSize(size.raw) = pad /\ size.raw \in Nat
  /\ pad + size.raw = 3 * N /\ cs + (4 * N - pad) = size.fs

(* What an item is written as: characters of the alphabet and at most a    *)
(* full stop, which only a version string of the second version ends in;   *)
(* only version strings are not made of whole quadlets.                    *)
WrittenWell(item, text) ==
  /\ text \in Seq(DOMAIN Sextet \cup {"."})
  /\ item.family = "V1" => text \in Seq(DOMAIN Sextet) /\ Len(text) = 17
  /\ item.family = "V2" => Len(text) = 19 /\ text[19] = "."
  /\ item.family \notin {"V1", "V2"} => text \in Seq(DOMAIN Sextet) /\ Len(text) % 4 = 0

(* A written primitive has no version family's shape to answer for.        *)
LEMMA PlainWell ==
  ASSUME NEW item, item.family \notin {"V1", "V2"}, NEW text \in Seq(DOMAIN Sextet), Len(text) % 4 = 0
  PROVE  WrittenWell(item, text)
<1> DEFINE letters == DOMAIN Sextet
           plain == DOMAIN Sextet \cup {"."}
<1>1. letters \subseteq plain /\ text \in Seq(letters)
  OBVIOUS
<1> HIDE DEF letters, plain
<1>2. text \in Seq(plain)
  BY <1>1, LargerAlphabet
<1>3. item.family # "V1" /\ item.family # "V2"
  OBVIOUS
<1> QED
  BY <1>2, <1>3, Zenon DEF WrittenWell, plain

-----------------------------------------------------------------------------
(* Promoting a variable code.                                              *)

Leads == {"4", "5", "6", "7", "8", "9"}

FirstIsPlain(row) == \A code \in row[1] : code[1] \notin Leads

\* The sizes of the variable codes, each told by the first character.
SmallRow(first, lead) == <<Two(first, Contents), Size(2, 2, 0, Variable, lead)>>
LargeRow(first, lead) == <<Four(first, Contents), Size(4, 4, 0, Variable, lead)>>

VariableRows ==
  {SmallRow("4", 0), SmallRow("5", 1), SmallRow("6", 2), LargeRow("7", 0), LargeRow("8", 1), LargeRow("9", 2)}

(* No other code begins as a variable one does.                            *)
LEMMA OthersArePlain == \A row \in Sizes : row \in VariableRows \/ FirstIsPlain(row)
<1>1. ASSUME NEW last, NEW size, \A c \in last : c \notin Leads PROVE FirstIsPlain(<<One(last), size>>)
  BY <1>1 DEF FirstIsPlain, One
<1>2. ASSUME NEW first, first \notin Leads, NEW last, NEW size
      PROVE  /\ FirstIsPlain(<<Two(first, last), size>>)
             /\ FirstIsPlain(<<Four(first, last), size>>)
             /\ FirstIsPlain(<<Test(first, last), size>>)
  BY <1>2 DEF FirstIsPlain, Two, Four, Test
<1>3. "0" \notin Leads /\ "1" \notin Leads /\ "2" \notin Leads /\ "3" \notin Leads
  BY DEF Leads
<1>4. ASSUME NEW last \in {{"A", "B", "C", "D", "E", "F", "G", "H", "I", "J", "O", "Q", "a"}, {"K", "L"}, {"M", "W"},
                           {"N"}, {"P"}, {"R"}, {"S"}, {"T"}, {"U"}, {"V"}, {"X"}, {"Y"}, {"Z"}}
      PROVE  \A c \in last : c \notin Leads
  BY <1>4 DEF Leads
<1>5. ASSUME NEW row \in Sizes
      PROVE  row \in VariableRows \/ FirstIsPlain(row)
  <2>1. \/ \E last, size : (\A c \in last : c \notin Leads) /\ row = <<One(last), size>>
        \/ \E first, last, size : first \notin Leads /\ row = <<Two(first, last), size>>
        \/ \E first, last, size : first \notin Leads /\ row = <<Four(first, last), size>>
        \/ \E first, last, size : first \notin Leads /\ row = <<Test(first, last), size>>
        \/ row \in VariableRows
    BY <1>3, <1>4, SMTT(60) DEF Sizes, VariableRows, SmallRow, LargeRow
  <2> QED
    BY <1>1, <1>2, <2>1
<1> QED
  BY <1>5

\* Who is told by its first character which row it is in.
RowOf(first, row) == \A code \in row[1] : code[1] = first

(* So the first character of a variable code tells its size.               *)
LEMMA VariableSizes ==
  ASSUME NEW first \in Leads, NEW size, NEW codes, <<codes, size>> \in VariableRows,
         RowOf(first, <<codes, size>>), NEW code \in codes
  PROVE  code \in MatterCodes /\ Sizage[code] = size
<1>1. VariableRows \subseteq Sizes
  BY SMTT(60) DEF Sizes, VariableRows, SmallRow, LargeRow
<1>2. code \in MatterCodes
  BY <1>1 DEF MatterCodes
<1> DEFINE row == CHOOSE row \in Sizes : code \in row[1]
<1>3. row \in Sizes /\ code \in row[1]
  BY <1>1
<1>4. Sizage[code] = row[2]
  BY <1>2 DEF Sizage
<1> HIDE DEF row
<1>5. code[1] = first
  BY DEF RowOf
<1>6. row \in VariableRows
  BY <1>3, <1>5, OthersArePlain DEF FirstIsPlain
<1>7. \A r \in VariableRows : \A c \in r[1] : \A s \in VariableRows : \A d \in s[1] : c[1] = d[1] => r[2] = s[2]
  <2>1. /\ RowOf("4", SmallRow("4", 0)) /\ RowOf("5", SmallRow("5", 1)) /\ RowOf("6", SmallRow("6", 2))
        /\ RowOf("7", LargeRow("7", 0)) /\ RowOf("8", LargeRow("8", 1)) /\ RowOf("9", LargeRow("9", 2))
    BY DEF RowOf, SmallRow, LargeRow, Two, Four
  <2>2. \A r \in VariableRows : \A c \in r[1] : \A s \in VariableRows : \A d \in s[1] : c[1] = d[1] => r = s
    BY <2>1, SMTT(60) DEF VariableRows, RowOf
  <2> QED
    BY <2>2
<1>8. row[2] = size
  BY <1>3, <1>6, <1>7
<1> QED
  BY <1>2, <1>4, <1>8

(* A sequence that has the parts one after the other is the two joined.    *)
LEMMA JoinIs ==
  ASSUME NEW S, NEW a \in Seq(S), NEW b \in Seq(S), NEW u \in Seq(S),
         Len(u) = Len(a) + Len(b),
         \A i \in 1..Len(a) : u[i] = a[i],
         \A i \in 1..Len(b) : u[Len(a) + i] = b[i]
  PROVE  a \o b = u
<1> DEFINE c == a \o b
<1>1. Follows(c, S, a, b)
  BY Appended
<1> HIDE DEF c
<1>2. /\ c \in Seq(S) /\ Len(c) = Len(a) + Len(b)
      /\ \A i \in 1..Len(a) : c[i] = a[i]
      /\ \A i \in 1..Len(b) : c[Len(a) + i] = b[i]
  BY <1>1 DEF Follows
<1>3. ASSUME NEW i \in 1..Len(u) PROVE c[i] = u[i]
  <2>1. CASE i \in 1..Len(a)
    BY <2>1, <1>2
  <2>2. CASE i \notin 1..Len(a)
    <3>1. i - Len(a) \in 1..Len(b) /\ Len(a) + (i - Len(a)) = i
      BY <2>2
    <3> QED
      BY <3>1, <1>2
  <2> QED
    BY <2>1, <2>2
<1>4. c = u
  BY <1>2, <1>3
<1> QED
  BY <1>4 DEF c

(* A code put together from its parts.                                     *)
LEMMA CodesJoin ==
  /\ \A x : <<"A", "A">> \o <<x>> = <<"A", "A", x>>
  /\ \A f, x : <<f>> \o <<x>> = <<f, x>> /\ <<f>> \o <<"A", "A", x>> = <<f, "A", "A", x>>
<1>1. ASSUME NEW x PROVE <<"A", "A">> \o <<x>> = <<"A", "A", x>>
  <2> DEFINE T == {"A", x}
  <2> DEFINE a == <<"A", "A">>
  <2> DEFINE b == <<x>>
  <2> DEFINE u == <<"A", "A", x>>
  <2>1. a \in Seq(T) /\ b \in Seq(T) /\ u \in Seq(T)
    OBVIOUS
  <2>2. /\ Len(a) = 2 /\ Len(b) = 1 /\ Len(u) = 3
        /\ \A i \in 1..2 : u[i] = a[i]
        /\ \A i \in 1..1 : u[2 + i] = b[i]
    OBVIOUS
  <2> HIDE DEF T, a, b, u
  <2>3. /\ Len(u) = Len(a) + Len(b)
        /\ \A i \in 1..Len(a) : u[i] = a[i]
        /\ \A i \in 1..Len(b) : u[Len(a) + i] = b[i]
    BY <2>2
  <2>4. a \o b = u
    BY <2>1, <2>3, JoinIs
  <2> QED
    BY <2>4 DEF a, b, u
<1>2. ASSUME NEW f, NEW x PROVE <<f>> \o <<x>> = <<f, x>>
  <2> DEFINE T == {f, x}
  <2> DEFINE a == <<f>>
  <2> DEFINE b == <<x>>
  <2> DEFINE u == <<f, x>>
  <2>1. a \in Seq(T) /\ b \in Seq(T) /\ u \in Seq(T)
    OBVIOUS
  <2>2. /\ Len(a) = 1 /\ Len(b) = 1 /\ Len(u) = 2
        /\ \A i \in 1..1 : u[i] = a[i]
        /\ \A i \in 1..1 : u[1 + i] = b[i]
    OBVIOUS
  <2> HIDE DEF T, a, b, u
  <2>3. /\ Len(u) = Len(a) + Len(b)
        /\ \A i \in 1..Len(a) : u[i] = a[i]
        /\ \A i \in 1..Len(b) : u[Len(a) + i] = b[i]
    BY <2>2
  <2>4. a \o b = u
    BY <2>1, <2>3, JoinIs
  <2> QED
    BY <2>4 DEF a, b, u
<1>3. ASSUME NEW f, NEW x PROVE <<f>> \o <<"A", "A", x>> = <<f, "A", "A", x>>
  <2> DEFINE T == {f, x, "A"}
  <2> DEFINE a == <<f>>
  <2> DEFINE b == <<"A", "A", x>>
  <2> DEFINE u == <<f, "A", "A", x>>
  <2>1. a \in Seq(T) /\ b \in Seq(T) /\ u \in Seq(T)
    OBVIOUS
  <2>2. /\ Len(a) = 1 /\ Len(b) = 3 /\ Len(u) = 4
        /\ \A i \in 1..1 : u[i] = a[i]
        /\ \A i \in 1..3 : u[1 + i] = b[i]
    OBVIOUS
  <2> HIDE DEF T, a, b, u
  <2>3. /\ Len(u) = Len(a) + Len(b)
        /\ \A i \in 1..Len(a) : u[i] = a[i]
        /\ \A i \in 1..Len(b) : u[Len(a) + i] = b[i]
    BY <2>2
  <2>4. a \o b = u
    BY <2>1, <2>3, JoinIs
  <2> QED
    BY <2>4 DEF a, b, u
<1> QED
  BY <1>1, <1>2, <1>3

(* MatterCode::promote (matter_code.rs): the code a variable code is       *)
(* promoted to is variable, has the lead asked for and digits enough for   *)
(* the size, so that nothing is promoted for a size four digits cannot     *)
(* write.                                                                  *)
THEOREM PromotedCounts ==
  ASSUME NEW code, NEW size \in Nat, NEW lead \in Nat, NEW promoted \in Promote(code, size, lead)
  PROVE  /\ promoted \in MatterCodes
         /\ Sizage[promoted].fs = Variable /\ Sizage[promoted].ls = lead
         /\ size < 64 ^ Sizage[promoted].ss
<1> DEFINE Led(leads, rest) == {<<leads[i]>> \o rest : i \in {lead + 1} \cap DOMAIN leads}
<1>1. \/ code \in SmallCodes /\ size < 64 ^ 2 /\ promoted \in Led(SmallLeads, Tail(code))
      \/ code \in SmallCodes /\ size \in (64 ^ 2)..(64 ^ 4 - 1) /\ promoted \in Led(LargeLeads, <<"A", "A">> \o Tail(code))
      \/ code \in LargeCodes /\ size < 64 ^ 4 - 1 /\ promoted \in Led(LargeLeads, Tail(code))
  BY DEF Promote
<1>2. ASSUME code \in SmallCodes
      PROVE  \E x \in Contents : Tail(code) = <<x>> /\ <<"A", "A">> \o Tail(code) = <<"A", "A", x>>
  <2>1. PICK x \in Contents : \E first : code = <<first, x>>
    BY <1>2 DEF SmallCodes, Two
  <2>2. Tail(code) = <<x>>
    BY <2>1
  <2> QED
    BY <2>2, CodesJoin
<1>3. ASSUME code \in LargeCodes
      PROVE  \E x \in Contents : Tail(code) = <<"A", "A", x>>
  <2>1. PICK x \in Contents : \E first : code = <<first, "A", "A", x>>
    BY <1>3 DEF LargeCodes, Four
  <2> QED
    BY <2>1
<1>4. ASSUME NEW x \in Contents
      PROVE  /\ \A c \in Led(SmallLeads, <<x>>) : c \in MatterCodes /\ Sizage[c] = Size(2, 2, 0, Variable, lead)
             /\ \A c \in Led(LargeLeads, <<"A", "A", x>>) : c \in MatterCodes /\ Sizage[c] = Size(4, 4, 0, Variable, lead)
  <2>1. ASSUME NEW first \in Leads, NEW n, SmallRow(first, n) \in VariableRows
        PROVE  <<first, x>> \in MatterCodes /\ Sizage[<<first, x>>] = Size(2, 2, 0, Variable, n)
    <3>1. RowOf(first, SmallRow(first, n)) /\ <<first, x>> \in Two(first, Contents)
      BY DEF RowOf, SmallRow, Two
    <3> QED
      BY <2>1, <3>1, VariableSizes DEF SmallRow
  <2>2. ASSUME NEW first \in Leads, NEW n, LargeRow(first, n) \in VariableRows
        PROVE  <<first, "A", "A", x>> \in MatterCodes /\ Sizage[<<first, "A", "A", x>>] = Size(4, 4, 0, Variable, n)
    <3>1. RowOf(first, LargeRow(first, n)) /\ <<first, "A", "A", x>> \in Four(first, Contents)
      BY DEF RowOf, LargeRow, Four
    <3> QED
      BY <2>2, <3>1, VariableSizes DEF LargeRow
  <2>3. \A f : <<f>> \o <<x>> = <<f, x>> /\ <<f>> \o <<"A", "A", x>> = <<f, "A", "A", x>>
    BY CodesJoin
  <2>4. ASSUME NEW c \in Led(SmallLeads, <<x>>)
        PROVE  c \in MatterCodes /\ Sizage[c] = Size(2, 2, 0, Variable, lead)
    <3>1. \E n \in 0..2 : n = lead /\ c = <<SmallLeads[n + 1], x>>
      <4>1. lead + 1 \in 1..3 /\ c = <<SmallLeads[lead + 1]>> \o <<x>>
        BY DEF SmallLeads
      <4> QED
        BY <2>3, <4>1
    <3>2. /\ SmallLeads[0 + 1] = "4" /\ SmallLeads[1 + 1] = "5" /\ SmallLeads[2 + 1] = "6"
      BY DEF SmallLeads
    <3>3. \/ c = <<"4", x>> /\ lead = 0
          \/ c = <<"5", x>> /\ lead = 1
          \/ c = <<"6", x>> /\ lead = 2
      BY <3>1, <3>2
    <3> QED
      BY <2>1, <3>3 DEF VariableRows, Leads
  <2>5. ASSUME NEW c \in Led(LargeLeads, <<"A", "A", x>>)
        PROVE  c \in MatterCodes /\ Sizage[c] = Size(4, 4, 0, Variable, lead)
    <3>1. \E n \in 0..2 : n = lead /\ c = <<LargeLeads[n + 1], "A", "A", x>>
      <4>1. lead + 1 \in 1..3 /\ c = <<LargeLeads[lead + 1]>> \o <<"A", "A", x>>
        BY DEF LargeLeads
      <4> QED
        BY <2>3, <4>1
    <3>2. /\ LargeLeads[0 + 1] = "7" /\ LargeLeads[1 + 1] = "8" /\ LargeLeads[2 + 1] = "9"
      BY DEF LargeLeads
    <3>3. \/ c = <<"7", "A", "A", x>> /\ lead = 0
          \/ c = <<"8", "A", "A", x>> /\ lead = 1
          \/ c = <<"9", "A", "A", x>> /\ lead = 2
      BY <3>1, <3>2
    <3> QED
      BY <2>2, <3>3 DEF VariableRows, Leads
  <2> QED
    BY <2>4, <2>5
<1> HIDE DEF Led
<1>5. \/ size < 64 ^ 2 /\ promoted \in MatterCodes /\ Sizage[promoted] = Size(2, 2, 0, Variable, lead)
      \/ size < 64 ^ 4 /\ promoted \in MatterCodes /\ Sizage[promoted] = Size(4, 4, 0, Variable, lead)
  <2>1. size \in (64 ^ 2)..(64 ^ 4 - 1) \/ size < 64 ^ 4 - 1 => size < 64 ^ 4
    BY Powers
  <2> QED
    BY <1>1, <1>2, <1>3, <1>4, <2>1
<1>6. \A n : /\ Size(n, n, 0, Variable, lead).fs = Variable
             /\ Size(n, n, 0, Variable, lead).ls = lead
             /\ Size(n, n, 0, Variable, lead).ss = n
  BY DEF Size
<1> QED
  BY <1>5, <1>6
=============================================================================
