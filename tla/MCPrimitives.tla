----------------------------- MODULE MCPrimitives -----------------------------
(***************************************************************************)
(* A small instance of Primitives: a value of every shape a code can have, *)
(* alone and followed by another, and two keys with signatures of both.    *)
(***************************************************************************)
EXTENDS Primitives

\* The items a builder makes for a family, none where it refuses.
Offer(family, values) == {Item(family, v) : v \in values}

Some(n) == Stamp(<<255, 3, 128>>, n)

Data1 == 7

Key1 == Offer("Verfer", KeyOf("Ed25519", <<"D">>, 1))
Key2 == Offer("Verfer", KeyOf("Secp256k1", <<"1", "A", "A", "B">>, 2))

Basic ==
  Offer("Diger", DigestOf(<<"E">>, Data1))
    \cup Offer("Number", BuildFromRaw(<<"M">>, <<1, 2>>))
    \cup Offer("Number", BuildFromRaw(<<"R">>, Some(7)))
    \cup Offer("Noncer", BuildFromRaw(<<"1", "A", "A", "P">>, <<>>))
    \cup Offer("Labeler", BuildFromRaw(<<"V">>, <<200>>))
    \cup Offer("Labeler", BuildFromRaw(<<"W">>, <<0, 9>>))
    \cup Offer("Salt", BuildFromRaw(<<"0", "A">>, Some(16)))

Soft ==
  Offer("Labeler", BuildFromSoft(<<"X">>, <<"i", "c", "p">>))
    \cup Offer("Labeler", BuildFromSoft(<<"0", "J">>, <<"_", "x">>))
    \cup Offer("Labeler", BuildFromSoft(<<"0", "L">>, <<"l", "a", "b", "e", "l", "s">>))
    \cup Offer("Verser", BuildFromSoft(<<"Y">>, <<"K", "E", "R", "I", "C", "A", "A">>))
    \cup Offer("Matter", BuildFromBoth(<<"1", "_", "_", "-">>, Some(6), <<"a", "b">>))
    \cup Offer("Matter", BuildFromBoth(<<"2", "_", "_", "-">>, Some(5), <<"z">>))
    \cup Offer("Matter", BuildFromRaw(<<"3", "_", "_", "_">>, Some(1)))

\* Refused: too little raw, a soft part outside the alphabet, a variable code.
Refused ==
  Offer("Diger", BuildFromRaw(<<"E">>, Some(31)))
    \cup Offer("Labeler", BuildFromSoft(<<"X">>, <<"i", "~", "p">>))
    \cup Offer("Texter", BuildFromRaw(<<"4", "B">>, Some(3)))
    \cup Offer("Siger", IndexerWithIndex(<<"A">>, 64, Some(64)))
    \cup Offer("Siger", IndexerWithIndices(<<"A">>, 1, 2, Some(64)))
    \cup Offer("V1", VersionString("KERI", 1, 0, "JSON", SizeMax + 1))

Texts ==
  Offer("Texter", UNION {Packed(<<"4", "B">>, Some(n)) : n \in 0..3})
    \cup Offer("Texter", UNION {Packed(<<"7", "A", "A", "B">>, Some(n)) : n \in 4..5})

Signatures ==
  Offer("Siger", SignAt("Ed25519", 1, Data1, 0, "Both"))
    \cup Offer("Siger", SignAt("Secp256k1", 2, Data1, 1, "Current"))

FarSignatures ==
  Offer("Siger", SignAt("Ed25519", 1, Data1, 100, "Both"))
    \cup Offer("Siger", IndexerWithIndices(<<"2", "A">>, 0, 65, SignatureRaw("Ed25519", 1, Data1)))
    \cup Offer("Siger", IndexerWithIndices(<<"0", "A">>, 3, 4, Some(114)))
    \cup Offer("Siger", IndexerWithIndex(<<"3", "B">>, 4097, Some(114)))

Versions ==
  Offer("V1", UNION {WithSize(v, 298) : v \in VersionString("KERI", 1, 0, "JSON", 0)})
    \cup Offer("V2", VersionStringV2("ACDC", 0, 65, "MGPK", 70000))

Small == Offer("Number", BuildFromRaw(<<"N">>, Some(8))) \cup Offer("Prefix", DigestOf(<<"F">>, Data1))

Firsts == Basic \cup Soft \cup Refused \cup Texts \cup Versions

MCMessages ==
  {<<a>> : a \in Firsts \cup Small \cup FarSignatures \cup Key1
             \cup Offer("Cigar", Sign("Ed25519", 1, Data1))}
    \cup {<<a, b>> : a \in Firsts, b \in Small}
    \cup {<<k, l>> : k \in Key1, l \in Key2}
    \cup {<<k, l, s>> : k \in Key1, l \in Key2, s \in Signatures \cup FarSignatures}
    \cup {<<k, l, s, t>> : k \in Key1, l \in Key2, s \in Signatures, t \in Signatures}

MCMarks == {"A", "B", "4", "_", "~", "="}
=============================================================================
