--------------------------- MODULE TelHost_proofs ---------------------------
(***************************************************************************)
(* Proofs about TelHost, for every set of registries, credentials,         *)
(* messages and issuer events, in five parts: what is accepted was sealed  *)
(* by the issuer; the host implements AbstractTel, so that a revocation is *)
(* final; a backed event carries the receipts of the backers of its time;  *)
(* what the builders build is what the fold admits; what is dropped is     *)
(* never accepted. Three inductive invariants carry them: IInv (what is    *)
(* recorded), Ledger (the retained states are what the accepted events add *)
(* up to) and OneIssuer (whose log seals them).                            *)
(***************************************************************************)
EXTENDS TelHost, TLAPS, SequenceTheorems, FiniteSetTheorems, WellFoundedInduction

-----------------------------------------------------------------------------
(* What the proofs below need of KeyState.                                 *)

(* A rule followed by others passes only if both pass.                     *)
LEMMA BothPass ==
  ASSUME NEW a, NEW b, (a && b) = "Ok"
  PROVE  a = "Ok" /\ b = "Ok"
BY DEF &&

(* Every set of numbers that is not empty has a least one.                 *)
LEMMA LeastNumber ==
  ASSUME NEW T \in SUBSET Nat, T # {}
  PROVE  \E x \in T : \A y \in T : x <= y
<1> DEFINE R == OpToRel(<, Nat)
<1>1. IsWellFoundedOn(R, Nat)
  BY NatLessThanWellFounded
<1>2. \A x, y \in Nat : x < y => <<x, y>> \in R
  BY DEF OpToRel
<1> HIDE DEF R
<1>3. PICK x \in T : \A y \in T : ~(<<y, x>> \in R)
  BY <1>1, WFMin
<1>4. ASSUME NEW y \in T PROVE x <= y
  <2>1. x \in Nat /\ y \in Nat /\ ~(y < x)
    BY <1>2, <1>3
  <2> QED
    BY <2>1
<1> QED
  BY <1>4

(* A list has finitely many members.                                       *)
LEMMA MembersFinite ==
  ASSUME NEW S, NEW list \in Seq(S)
  PROVE  IsFiniteSet(Members(list)) /\ Members(list) \subseteq S
<1>1. IsFiniteSet(DOMAIN list)
  <2>1. DOMAIN list = 1..Len(list) /\ Len(list) \in Nat
    OBVIOUS
  <2>2. QED
    BY <2>1, FS_Interval
<1> DEFINE f == [i \in DOMAIN list |-> list[i]]
<1>2. f \in Surjection(DOMAIN list, Members(list))
  BY DEF Members, Surjection
<1>3. IsFiniteSet(Members(list))
  <2> HIDE DEF f
  <2>1. QED
    BY <1>1, <1>2, FS_Surjection
<1>4. Members(list) \subseteq S
  BY DEF Members
<1>5. QED
  BY <1>3, <1>4

(* The members of a list one longer, and when none is repeated.            *)
LEMMA MembersAppend ==
  ASSUME NEW S, NEW list \in Seq(S), NEW x \in S
  PROVE  /\ Append(list, x) \in Seq(S)
         /\ Members(Append(list, x)) = Members(list) \cup {x}
         /\ Unique(list) /\ x \notin Members(list) => Unique(Append(list, x))
<1> DEFINE longer == Append(list, x)
<1>1. /\ longer \in Seq(S) /\ Len(longer) = Len(list) + 1 /\ Len(list) \in Nat
      /\ DOMAIN list = 1..Len(list) /\ DOMAIN longer = 1..(Len(list) + 1)
      /\ \A i \in 1..Len(list) : longer[i] = list[i]
      /\ longer[Len(list) + 1] = x
  OBVIOUS
<1> HIDE DEF longer
<1>2. 1..(Len(list) + 1) = 1..Len(list) \cup {Len(list) + 1}
  BY <1>1
<1>3. Members(longer) = Members(list) \cup {x}
  BY <1>1, <1>2 DEF Members
<1>4. ASSUME Unique(list), x \notin Members(list) PROVE Unique(longer)
  BY <1>1, <1>2, <1>4 DEF Unique, Members
<1> QED
  BY <1>1, <1>3, <1>4 DEF longer

(* The members of two lists put together, and when none is repeated.       *)
LEMMA MembersConcat ==
  ASSUME NEW S, NEW a \in Seq(S), NEW b \in Seq(S)
  PROVE  /\ a \o b \in Seq(S) /\ Len(a \o b) = Len(a) + Len(b)
         /\ Members(a \o b) = Members(a) \cup Members(b)
         /\ Unique(a) /\ Unique(b) /\ Members(a) \cap Members(b) = {} => Unique(a \o b)
<1> DEFINE whole == a \o b
           first == 1..Len(a)
           second == {i \in 1..Len(whole) : i > Len(a)}
<1>1. /\ whole \in Seq(S) /\ Len(a) \in Nat /\ Len(b) \in Nat /\ Len(whole) = Len(a) + Len(b)
      /\ DOMAIN a = 1..Len(a) /\ DOMAIN b = 1..Len(b) /\ DOMAIN whole = 1..Len(whole)
  OBVIOUS
<1>2. \A i \in first : i \in 1..Len(whole) /\ whole[i] = a[i]
  BY <1>1
<1>3. \A i \in second : i - Len(a) \in 1..Len(b) /\ whole[i] = b[i - Len(a)]
  BY <1>1
<1>4. \A j \in 1..Len(b) : j + Len(a) \in second /\ whole[j + Len(a)] = b[j]
  BY <1>1
<1>5. 1..Len(whole) = first \cup second
  BY <1>1
<1>6. \A i, j \in second : i - Len(a) = j - Len(a) => i = j
  BY <1>1
<1> HIDE DEF whole, first, second
<1>7. Members(whole) = Members(a) \cup Members(b)
  <2>1. ASSUME NEW i \in 1..Len(whole) PROVE whole[i] \in Members(a) \cup Members(b)
    BY <1>1, <1>2, <1>3, <1>5 DEF Members, first
  <2>2. \A i \in 1..Len(a) : a[i] \in Members(whole)
    BY <1>1, <1>2 DEF Members, first
  <2>3. \A j \in 1..Len(b) : b[j] \in Members(whole)
    BY <1>1, <1>4, <1>5 DEF Members
  <2> QED
    BY <1>1, <2>1, <2>2, <2>3 DEF Members
<1>8. ASSUME Unique(a), Unique(b), Members(a) \cap Members(b) = {},
             NEW i \in 1..Len(whole), NEW j \in 1..Len(whole), whole[i] = whole[j]
      PROVE  i = j
  <2>1. CASE i \in first /\ j \in first
    BY <1>1, <1>2, <1>8, <2>1 DEF Unique, first
  <2>2. CASE i \in second /\ j \in second
    BY <1>1, <1>3, <1>6, <1>8, <2>2 DEF Unique
  <2>3. \A m \in first : whole[m] \in Members(a)
    BY <1>1, <1>2 DEF Members, first
  <2>4. \A n \in second : whole[n] \in Members(b)
    BY <1>1, <1>3 DEF Members
  <2> QED
    BY <1>5, <1>8, <2>1, <2>2, <2>3, <2>4
<1> QED
  BY <1>1, <1>7, <1>8 DEF whole, Unique

(* The list after n entries, from the list after one less.                 *)
PassAt(list, gone, f, n) ==
  IF n = 0 THEN <<>> ELSE IF list[n] \in gone THEN f[n - 1] ELSE Append(f[n - 1], list[n])

Passes(list, gone, N, f) == f = [n \in 0..N |-> PassAt(list, gone, f, n)]

(* The recursion has a solution over any number of entries.                *)
LEMMA PassesExist ==
  ASSUME NEW list, NEW gone
  PROVE  \A N \in Nat : \E f : Passes(list, gone, N, f)
<1> SUFFICES ASSUME ~(\A N \in Nat : \E f : Passes(list, gone, N, f)) PROVE FALSE
  OBVIOUS
<1> DEFINE missing == {N \in Nat : ~(\E f : Passes(list, gone, N, f))}
<1>1. PICK N \in missing : \A M \in missing : N <= M
  <2>1. missing \in SUBSET Nat /\ missing # {}
    OBVIOUS
  <2> HIDE DEF missing
  <2> QED
    BY <2>1, LeastNumber
<1>2. N \in Nat /\ ~(\E f : Passes(list, gone, N, f))
  BY <1>1
<1>3. CASE N = 0
  <2> DEFINE g == [n \in 0..0 |-> <<>>]
  <2>1. \A n \in 0..0 : PassAt(list, gone, g, n) = <<>>
    BY DEF PassAt
  <2>2. Passes(list, gone, 0, g)
    BY <2>1 DEF Passes
  <2> QED
    BY <1>2, <1>3, <2>2
<1>4. CASE N # 0
  <2>1. N - 1 \in Nat /\ ~(N <= N - 1)
    BY <1>2, <1>4
  <2>2. PICK f : Passes(list, gone, N - 1, f)
    BY <1>1, <2>1
  <2> DEFINE g == [n \in 0..N |-> IF n = N THEN PassAt(list, gone, f, N) ELSE f[n]]
  <2>3. \A n \in 0..(N - 1) : g[n] = f[n] /\ f[n] = PassAt(list, gone, f, n)
    <3>1. \A n \in 0..(N - 1) : g[n] = f[n]
      BY <1>2
    <3>2. \A n \in 0..(N - 1) : f[n] = PassAt(list, gone, f, n)
      BY <2>2 DEF Passes
    <3> QED
      BY <3>1, <3>2
  <2>4. g[N] = PassAt(list, gone, f, N)
    BY <1>2
  <2>5. g = [n \in 0..N |-> g[n]]
    OBVIOUS
  <2> HIDE DEF g
  <2>6. \A n \in 0..N : PassAt(list, gone, f, n) = PassAt(list, gone, g, n)
    <3> SUFFICES ASSUME NEW n \in 0..N PROVE PassAt(list, gone, f, n) = PassAt(list, gone, g, n)
      OBVIOUS
    <3>1. n = 0 \/ n - 1 \in 0..(N - 1)
      BY <1>2
    <3> QED
      BY <2>3, <3>1 DEF PassAt
  <2>7. \A n \in 0..N : g[n] = PassAt(list, gone, g, n)
    <3> SUFFICES ASSUME NEW n \in 0..N PROVE g[n] = PassAt(list, gone, g, n)
      OBVIOUS
    <3>1. n = N \/ n \in 0..(N - 1)
      BY <1>2
    <3> QED
      BY <2>3, <2>4, <2>6, <3>1
  <2>8. Passes(list, gone, N, g)
    BY <2>5, <2>7 DEF Passes
  <2> QED
    BY <1>2, <2>8
<1> QED
  BY <1>3, <1>4

(* What the recursion leaves of a list: its members without those gone,    *)
(* none repeated that was not.                                             *)
LEMMA WithoutKeeps ==
  ASSUME NEW S, NEW list \in Seq(S), NEW gone
  PROVE  /\ Without(list, gone) \in Seq(S)
         /\ Members(Without(list, gone)) = Members(list) \ gone
         /\ Unique(list) => Unique(Without(list, gone))
<1> DEFINE N == Len(list)
           f == CHOOSE p : p = [n \in 0..N |-> IF n = 0 THEN <<>>
                                               ELSE IF list[n] \in gone THEN p[n - 1]
                                               ELSE Append(p[n - 1], list[n])]
           Left(n) == {list[i] : i \in 1..n} \ gone
           Good(n) == /\ f[n] \in Seq(S)
                      /\ Members(f[n]) = Left(n)
                      /\ Unique(list) => Unique(f[n])
<1>1. N \in Nat /\ DOMAIN list = 1..N /\ \A i \in 1..N : list[i] \in S
  OBVIOUS
<1>2. Without(list, gone) = f[N]
  BY DEF Without
<1>3. \A n \in 0..N : f[n] = PassAt(list, gone, f, n)
  <2> DEFINE Eq(p) == p = [n \in 0..N |-> IF n = 0 THEN <<>>
                                          ELSE IF list[n] \in gone THEN p[n - 1]
                                          ELSE Append(p[n - 1], list[n])]
  <2>1. \E p : Eq(p)
    <3>1. PICK p : Passes(list, gone, N, p)
      BY <1>1, PassesExist
    <3>2. Eq(p)
      BY <3>1 DEF Passes, PassAt
    <3> QED
      BY <3>2
  <2>2. f = CHOOSE p : Eq(p)
    OBVIOUS
  <2> HIDE DEF f, Eq
  <2>3. Eq(f)
    BY <2>1, <2>2
  <2> QED
    BY <2>3 DEF Eq, PassAt
<1> HIDE DEF f
<1>4. Good(0)
  <2>1. f[0] = <<>>
    BY <1>1, <1>3 DEF PassAt
  <2>2. Left(0) = {} /\ Members(<<>>) = {} /\ Unique(<<>>) /\ <<>> \in Seq(S)
    BY DEF Members, Unique
  <2> QED
    BY <2>1, <2>2
<1>5. ASSUME NEW n \in 1..N, Good(n - 1) PROVE Good(n)
  <2>1. /\ n # 0 /\ n \in 0..N /\ list[n] \in S /\ 1..n = 1..(n - 1) \cup {n}
        /\ \A i \in 1..(n - 1) : i \in 1..N /\ i # n
    BY <1>1
  <2>2. CASE list[n] \in gone
    <3>1. f[n] = f[n - 1]
      BY <1>3, <2>1, <2>2 DEF PassAt
    <3>2. Left(n) = Left(n - 1)
      BY <2>1, <2>2
    <3> QED
      BY <1>5, <3>1, <3>2
  <2>3. CASE list[n] \notin gone
    <3>1. f[n] = Append(f[n - 1], list[n])
      BY <1>3, <2>1, <2>3 DEF PassAt
    <3>2. Left(n) = Left(n - 1) \cup {list[n]}
      BY <2>1, <2>3
    <3>3. Unique(list) => list[n] \notin Left(n - 1)
      BY <1>1, <2>1 DEF Unique
    <3> QED
      BY <1>5, <2>1, <3>1, <3>2, <3>3, MembersAppend
  <2> QED
    BY <2>2, <2>3
<1>6. Good(N)
  <2> SUFFICES ASSUME ~Good(N) PROVE FALSE
    OBVIOUS
  <2> DEFINE bad == {n \in 0..N : ~Good(n)}
  <2>1. bad \in SUBSET Nat /\ N \in bad
    BY <1>1
  <2>2. PICK n \in bad : \A m \in bad : n <= m
    <3> HIDE DEF bad
    <3> QED
      BY <2>1, LeastNumber
  <2>3. n \in 0..N /\ ~Good(n)
    BY <2>2
  <2>4. n # 0
    BY <1>4, <2>3
  <2>5. n \in 1..N /\ n - 1 \in 0..N /\ ~(n <= n - 1)
    BY <1>1, <2>3, <2>4
  <2>6. Good(n - 1)
    BY <2>2, <2>5
  <2> QED
    BY <1>5, <2>3, <2>5, <2>6
<1>7. Left(N) = Members(list) \ gone
  BY <1>1 DEF Members
<1> QED
  BY <1>2, <1>6, <1>7

(* What a rotation leaves in force, once its additions follow those that   *)
(* its cuts leave: one list of the present members, none repeated if no    *)
(* addition is.                                                            *)
LEMMA UpdatedListKeeps ==
  ASSUME NEW S, NEW current \in Seq(S), NEW cuts, NEW adds \in Seq(S)
  PROVE  LET list == UpdatedList(current, cuts, adds)
         IN  /\ list \in Seq(S)
             /\ Members(list) = UpdatedMembers(Members(current), cuts, adds)
             /\ Unique(current) /\ Unique(adds) => Unique(list)
<1> DEFINE left == Without(current, Members(cuts))
           added == Without(adds, Members(left))
<1>1. /\ left \in Seq(S) /\ Members(left) = Members(current) \ Members(cuts)
      /\ Unique(current) => Unique(left)
  BY WithoutKeeps
<1> HIDE DEF left
<1>2. /\ added \in Seq(S) /\ Members(added) = Members(adds) \ Members(left)
      /\ Unique(adds) => Unique(added)
  BY WithoutKeeps
<1> HIDE DEF added
<1>3. UpdatedList(current, cuts, adds) = left \o added
  BY DEF UpdatedList, left, added
<1> QED
  BY <1>1, <1>2, <1>3, MembersConcat DEF UpdatedMembers

-----------------------------------------------------------------------------
(* Verdicts.                                                               *)

(* The coordinate and the sole seal of an anchor that verifies.            *)
Seals(m, anchor) ==
  /\ anchor # None
  /\ m.source # None
  /\ anchor.seals = <<SealedAs(m.event)>>

(* verify_kel_anchor passes only on the event's own seal.                  *)
LEMMA AnchorSeals ==
  ASSUME NEW m, NEW issuer, NEW anchor, VerifyAnchor(m, issuer, anchor) = "Ok"
  PROVE  Seals(m, anchor)
<1>1. /\ Require(m.source # None /\ anchor # None, "MissingAnchor") = "Ok"
      /\ Require(/\ anchor.pre = issuer /\ anchor.sn = m.source.sn
                 /\ anchor.said = m.source.said /\ anchor.seals = <<SealedAs(m.event)>>,
                 "InconsistentAnchor") = "Ok"
  BY BothPass DEF VerifyAnchor
<1> QED
  BY <1>1 DEF Require, Seals

(* The host's lookup finds an event of the log at the claimed coordinate.  *)
LEMMA AnchorInLog ==
  ASSUME NEW m, Seals(m, AnchorOf(m))
  PROVE  \E k \in Members(log) :
           /\ m.source = [sn |-> k.sn, said |-> k.said]
           /\ k.seals = <<SealedAs(m.event)>>
<1>1. \E k \in Members(log) : m.source = [sn |-> k.sn, said |-> k.said]
  BY DEF Seals, AnchorOf
<1>2. /\ AnchorOf(m) \in Members(log)
      /\ m.source = [sn |-> AnchorOf(m).sn, said |-> AnchorOf(m).said]
  BY <1>1 DEF AnchorOf
<1> QED
  BY <1>2 DEF Seals

(* A rule with the anchor in it passes only on the event's own seal.       *)
LEMMA AuthenticatedSeals ==
  ASSUME NEW r, NEW m, NEW ev, NEW anchor, Authenticate(r, m, ev, anchor) = "Ok"
  PROVE  Seals(m, anchor)
<1>1. CASE m.event.kind \in Backed
  <2>1. AuthenticateBacked(r, m, ev, anchor) = "Ok"
    BY <1>1 DEF Authenticate
  <2>2. VerifyAnchor(m, r.issuer, anchor) = "Ok"
    BY <2>1, BothPass DEF AuthenticateBacked
  <2> QED
    BY <2>2, AnchorSeals
<1>2. CASE m.event.kind \notin Backed
  <2>1. AuthenticateIssuer(r, m, ev, anchor) = "Ok"
    BY <1>2 DEF Authenticate
  <2>2. VerifyAnchor(m, r.issuer, anchor) = "Ok"
    BY <2>1, BothPass DEF AuthenticateIssuer
  <2> QED
    BY <2>2, AnchorSeals
<1> QED
  BY <1>1, <1>2

LEMMA InceptRegistrySeals ==
  ASSUME NEW m, NEW ev, NEW anchor, InceptRegistry(m, ev, anchor) = "Ok"
  PROVE  Seals(m, anchor)
<1>1. VerifyAnchor(m, m.event.issuer, anchor) = "Ok"
  BY BothPass DEF InceptRegistry
<1> QED
  BY <1>1, AnchorSeals

LEMMA RotateSeals ==
  ASSUME NEW r, NEW m, NEW ev, NEW anchor, Rotate(r, m, ev, anchor) = "Ok"
  PROVE  Seals(m, anchor)
<1>1. VerifyAnchor(m, r.issuer, anchor) = "Ok"
  BY BothPass DEF Rotate, AuthenticateIssuer
<1> QED
  BY <1>1, AnchorSeals

(* What an issuance that passes establishes.                               *)
LEMMA IssuePasses ==
  ASSUME NEW m, NEW ev, Issue(m, ev) = "Ok"
  PROVE  Seals(m, AnchorOf(m)) /\ Recorded(m.event) = None
<1>1. /\ InceptCredential(Current(m.event), m, ev, AnchorOf(m)) = "Ok"
      /\ Require(Recorded(m.event) = None, "OutOfOrderStale") = "Ok"
  BY BothPass DEF Issue
<1>2. Authenticate(Current(m.event), m, ev, AnchorOf(m)) = "Ok"
  BY <1>1, BothPass DEF InceptCredential
<1> QED
  BY <1>1, <1>2, AuthenticatedSeals DEF Require

(* What a revocation that passes establishes: it follows the issuance.     *)
LEMMA RevokePasses ==
  ASSUME NEW m, NEW ev, Revoke(m, ev) = "Ok"
  PROVE  /\ Seals(m, AnchorOf(m))
         /\ Recorded(m.event) # None
         /\ m.event.sn <= Recorded(m.event).sn + 1
         /\ m.event.sn >= Recorded(m.event).sn + 1
<1> DEFINE c == Recorded(m.event)
<1>1. c # None /\ IngestCredential(c, Current(m.event), m, ev, AnchorOf(m)) = "Ok"
  BY DEF Revoke
<1>2. /\ Authenticate(Current(m.event), m, ev, AnchorOf(m)) = "Ok"
      /\ InOrder(m.event.sn, c.sn + 1) = "Ok"
  BY <1>1, BothPass DEF IngestCredential, FollowsCredential
<1>3. /\ Require(m.event.sn <= c.sn + 1, "OutOfOrderFuture") = "Ok"
      /\ Require(m.event.sn >= c.sn + 1, "OutOfOrderStale") = "Ok"
  BY <1>2, BothPass DEF InOrder
<1> QED
  BY <1>1, <1>2, <1>3, AuthenticatedSeals DEF Require

(* The four ways to be accepted, and what each finds recorded.             *)
Founds(e) == e.kind = "vcp" /\ Chain(e) = <<>>
Rotates(e) == e.kind = "vrt" /\ Chain(e) # <<>>
Issues(e) == e.kind \in Issuances /\ Chain(e) # <<>> /\ Recorded(e) = None
Revokes(e) ==
  /\ e.kind \in {"rev", "brv"} /\ Chain(e) # <<>> /\ Recorded(e) # None
  /\ e.sn <= Recorded(e).sn + 1 /\ e.sn >= Recorded(e).sn + 1

(* Whatever is accepted verified its anchor and falls in one of the four.  *)
LEMMA VerdictPasses ==
  ASSUME NEW m \in TelMessage, NEW ev, Verdict(m, ev) = "Ok"
  PROVE  /\ Seals(m, AnchorOf(m))
         /\ Founds(m.event) \/ Rotates(m.event) \/ Issues(m.event) \/ Revokes(m.event)
<1> DEFINE e == m.event
<1>1. e.kind \in TelKinds
  BY DEF TelMessage, TelEvent
<1>2. CASE e.kind = "vcp"
  <2>1. Chain(e) = <<>> /\ InceptRegistry(m, ev, AnchorOf(m)) = "Ok"
    BY <1>2 DEF Verdict, IngestRegistry, Issuances
  <2> QED
    BY <1>2, <2>1, InceptRegistrySeals DEF Founds
<1>3. CASE e.kind = "vrt"
  <2>1. Chain(e) # <<>> /\ Rotate(Current(e), m, ev, AnchorOf(m)) = "Ok"
    BY <1>3 DEF Verdict, IngestRegistry, Issuances
  <2> QED
    BY <1>3, <2>1, RotateSeals DEF Rotates
<1>4. CASE e.kind \in Issuances
  <2>1. Chain(e) # <<>> /\ Issue(m, ev) = "Ok"
    BY <1>4 DEF Verdict, Issuances
  <2> QED
    BY <1>4, <2>1, IssuePasses DEF Issues
<1>5. CASE e.kind \in {"rev", "brv"}
  <2>1. Chain(e) # <<>> /\ Revoke(m, ev) = "Ok"
    BY <1>5 DEF Verdict, Issuances
  <2> QED
    BY <1>5, <2>1, RevokePasses DEF Revokes
<1> QED
  BY <1>1, <1>2, <1>3, <1>4, <1>5 DEF TelKinds, Issuances

-----------------------------------------------------------------------------
(* The inductive invariant. Retained states are kept in a sequence, of     *)
(* whatever they are; a credential's number is that of its issuance or of  *)
(* its revocation.                                                         *)

Sequential(list) == \E S : list \in Seq(S)

RetainedWell(r) ==
  /\ Sequential(management[r])
  /\ \A n \in 1..Len(management[r]) :
       management[r][n].latest \in Saids /\ management[r][n].id = r

HeadWell(p) ==
  credentials[p] # None =>
    /\ credentials[p] \in CredentialState /\ credentials[p].sn \in {0, 1}
    /\ credentials[p].registry = p[1] /\ credentials[p].credential = p[2]

MessagesWell ==
  /\ unread \subseteq TelMessages
  /\ escrow \subseteq TelMessage
  /\ accepted \subseteq TelMessage

IInv ==
  /\ MessagesWell
  /\ DOMAIN management = Registries
  /\ \A r \in Registries : RetainedWell(r)
  /\ DOMAIN credentials = Registries \X Credentials
  /\ \A p \in Registries \X Credentials : HeadWell(p)
  /\ SealedByIssuer

(* Merging keeps a message a message, of the same event and coordinate.    *)
LEMMA MergedIsMessage ==
  ASSUME escrow \subseteq TelMessage, NEW m \in TelMessage
  PROVE  /\ Merged(m) \in TelMessage
         /\ Merged(m).event = m.event /\ Merged(m).source = m.source
<1>1. UNION {p.receipts : p \in SameEvent(m)} \subseteq Siger
  BY DEF SameEvent, TelMessage
<1> QED
  BY <1>1 DEF Merged, TelMessage

(* A step of the host puts one message to the fold, and leaves the log be; *)
(* a step of the issuer leaves the host be.                                *)
LEMMA StepHandles ==
  ASSUME MessagesWell, Next
  PROVE  \/ IssuerStep
         \/ /\ UNCHANGED <<log, replaced>>
            /\ unread' \subseteq unread
            /\ \E m \in TelMessage : Handle(m)
<1>1. ASSUME NEW m \in unread \cup escrow, Deliver(m)
      PROVE  UNCHANGED <<log, replaced>> /\ unread' \subseteq unread
             /\ \E n \in TelMessage : Handle(n)
  <2>1. m \in TelMessage
    BY TelHostAssumption DEF MessagesWell
  <2>2. Merged(m) \in TelMessage
    BY <2>1, MergedIsMessage DEF MessagesWell
  <2> QED
    BY <1>1, <2>2 DEF Deliver, Kept
<1>2. ASSUME NEW m \in unread \cup escrow, Redrive(m)
      PROVE  UNCHANGED <<log, replaced>> /\ unread' \subseteq unread
             /\ \E n \in TelMessage : Handle(n)
  <2>1. m \in TelMessage
    BY TelHostAssumption DEF MessagesWell
  <2> QED
    BY <1>2, <2>1 DEF Redrive
<1> QED
  BY <1>1, <1>2 DEF Next

(* The messages stay messages.                                             *)
LEMMA HandleKeepsMessages ==
  ASSUME MessagesWell, NEW m \in TelMessage, Handle(m)
  PROVE  escrow' \subseteq TelMessage /\ accepted' \subseteq TelMessage
BY DEF MessagesWell, Handle, Admit, Await, Drop

(* The audited events of the issuer's log are never forgotten.             *)
LEMMA IssuerKeepsSeals ==
  ASSUME SealedByIssuer, IssuerStep
  PROVE  SealedByIssuer'
<1>1. Members(log) \cup replaced \subseteq (Members(log) \cup replaced)'
  BY DEF IssuerStep
<1>2. accepted' = accepted
  BY DEF IssuerStep, telVars
<1> QED
  BY <1>1, <1>2 DEF SealedByIssuer

(* What is accepted next is sealed in the log as it stands.                *)
LEMMA HandleKeepsSeals ==
  ASSUME SealedByIssuer, NEW m \in TelMessage, Handle(m), UNCHANGED <<log, replaced>>
  PROVE  SealedByIssuer'
<1>1. CASE accepted' = accepted
  BY <1>1 DEF SealedByIssuer, Members
<1>2. CASE Admit(m)
  <2>1. PICK ev : Verdict(m, ev) = "Ok"
    BY <1>2 DEF Admit, Verdicts
  <2>2. \E k \in Members(log) : /\ m.source = [sn |-> k.sn, said |-> k.said]
                                /\ k.seals = <<SealedAs(m.event)>>
    BY <2>1, VerdictPasses, AnchorInLog
  <2>3. accepted' = accepted \cup {m} /\ Members(log)' = Members(log) /\ replaced' = replaced
    BY <1>2 DEF Admit, Members
  <2> QED
    BY <2>2, <2>3 DEF SealedByIssuer
<1> QED
  BY <1>1, <1>2 DEF Handle, Await, Drop

-----------------------------------------------------------------------------
(* What the host records.                                                  *)

Latests(list) == [n \in DOMAIN list |-> list[n].latest]

(* A list that grows keeps what it had.                                    *)
LEMMA GrowsByOne ==
  ASSUME NEW list, Sequential(list), NEW x
  PROVE  /\ Sequential(Append(list, x))
         /\ Len(Append(list, x)) = Len(list) + 1 /\ Len(list) \in Nat
         /\ \A n \in 1..Len(list) : Append(list, x)[n] = list[n]
         /\ Append(list, x)[Len(list) + 1] = x
         /\ DOMAIN list = 1..Len(list)
         /\ DOMAIN Append(list, x) = 1..(Len(list) + 1)
<1>1. PICK S : list \in Seq(S)
  BY DEF Sequential
<1> DEFINE T == S \cup {x}
<1>2. list \in Seq(T) /\ x \in T
  BY <1>1
<1> HIDE DEF T
<1>3. Append(list, x) \in Seq(T)
  BY <1>2
<1> QED
  BY <1>2, <1>3 DEF Sequential

(* The digests of a log that grows, from its first entry on.               *)
LEMMA LatestsGrow ==
  ASSUME NEW list, Sequential(list), NEW x,
         \A n \in 1..Len(list) : list[n].latest \in Saids, x.latest \in Saids
  PROVE  Latests(Append(list, x)) = Append(Latests(list), x.latest)
<1> DEFINE old == Latests(list)
<1> DEFINE new == Latests(Append(list, x))
<1>1. /\ Len(list) \in Nat
      /\ old = [n \in 1..Len(list) |-> list[n].latest]
      /\ new = [n \in 1..(Len(list) + 1) |-> Append(list, x)[n].latest]
  BY GrowsByOne DEF Latests
<1>2. old \in Seq(Saids) /\ Len(old) = Len(list)
  BY <1>1
<1>3. \A n \in 1..(Len(list) + 1) : new[n] = Append(old, x.latest)[n]
  <2>1. \A n \in 1..Len(list) : new[n] = list[n].latest
    BY <1>1, GrowsByOne
  <2>2. new[Len(list) + 1] = x.latest
    BY <1>1, GrowsByOne
  <2>3. \A n \in 1..Len(list) : old[n] = list[n].latest
    BY <1>1
  <2> HIDE DEF old, new
  <2> QED
    BY <1>1, <1>2, <2>1, <2>2, <2>3
<1>4. new \in Seq(Saids) /\ Len(new) = Len(list) + 1
  <2>1. \A n \in 1..(Len(list) + 1) : new[n] \in Saids
    <3>1. \A n \in 1..Len(list) : new[n] = list[n].latest
      BY <1>1, GrowsByOne
    <3>2. new[Len(list) + 1] = x.latest
      BY <1>1, GrowsByOne
    <3> HIDE DEF new
    <3> QED
      BY <1>1, <3>1, <3>2
  <2>2. new = [n \in 1..(Len(list) + 1) |-> new[n]]
    BY <1>1
  <2> HIDE DEF new
  <2> QED
    BY <1>1, <2>1, <2>2
<1>5. Append(old, x.latest) \in Seq(Saids) /\ Len(Append(old, x.latest)) = Len(list) + 1
  <2> HIDE DEF old
  <2> QED
    BY <1>1, <1>2
<1> HIDE DEF old, new
<1>6. new = Append(old, x.latest)
  BY <1>1, <1>3, <1>4, <1>5, SeqEqual
<1> QED
  BY <1>6 DEF old, new

(* Where a message is routed, when its registry is known or founded.       *)
LEMMA Routed ==
  ASSUME NEW m \in TelMessage,
         Founds(m.event) \/ Rotates(m.event) \/ Issues(m.event) \/ Revokes(m.event)
  PROVE  /\ RegistryOf(m.event) \in Registries
         /\ Chain(m.event) = management[RegistryOf(m.event)]
         /\ m.event.said \in Saids
         /\ Founds(m.event) => RegistryOf(m.event) = m.event.said
         /\ m.event.kind \notin {"vcp", "vrt"} => m.event.cred \in Credentials
<1> DEFINE e == m.event
<1>1. e \in TelEvent
  BY DEF TelMessage
<1>2. e.said \in Saids /\ (e.kind \notin {"vcp", "vrt"} => e.cred \in Credentials)
  BY <1>1 DEF TelEvent
<1>3. CASE Founds(e)
  <2>1. e.kind = "vcp" /\ e.reg \in Registries /\ e.reg = e.said
    BY <1>1, <1>3 DEF TelEvent, Founds
  <2> QED
    BY <1>2, <2>1 DEF RegistryOf, Chain
<1>4. CASE ~Founds(e)
  <2>1. Chain(e) # <<>>
    BY <1>4 DEF Rotates, Issues, Revokes
  <2> QED
    BY <1>2, <1>4, <2>1 DEF Chain
<1> QED
  BY <1>3, <1>4

(* A management event adds one retained state to one registry.             *)
LEMMA Manages ==
  ASSUME IInv, NEW m \in TelMessage, Founds(m.event) \/ Rotates(m.event), Manage(m.event)
  PROVE  LET r == RegistryOf(m.event)
         IN  /\ UNCHANGED credentials
             /\ \E x : /\ management' = [management EXCEPT ![r] = Append(management[r], x)]
                       /\ x.latest = m.event.said
                       /\ x.id = r
<1> DEFINE e == m.event
<1> DEFINE r == RegistryOf(e)
<1> DEFINE x == IF e.kind = "vcp" THEN SeedRegistry(e) ELSE RotateRegistry(Current(e), e)
<1>1. management' = [management EXCEPT ![r] = Append(management[r], x)] /\ UNCHANGED credentials
  BY DEF Manage
<1>2. r \in Registries /\ Chain(e) = management[r] /\ (Founds(e) => r = e.said)
  BY Routed
<1>3. x.latest = e.said
  BY DEF SeedRegistry, RotateRegistry
<1>4. x.id = r
  <2>1. CASE Founds(e)
    BY <1>2, <2>1 DEF Founds, SeedRegistry
  <2>2. CASE Rotates(e)
    <3>1. Sequential(management[r]) /\ management[r] # <<>>
      BY <1>2, <2>2 DEF Rotates, IInv, RetainedWell
    <3>2. Len(management[r]) \in 1..Len(management[r])
      BY <3>1 DEF Sequential
    <3>3. Current(e).id = r
      BY <1>2, <3>2 DEF Current, IInv, RetainedWell
    <3> QED
      BY <2>2, <3>3 DEF Rotates, RotateRegistry
  <2> QED
    BY <2>1, <2>2
<1> HIDE DEF x
<1> QED
  BY <1>1, <1>3, <1>4

(* The head of a revoked credential.                                       *)
LEMMA RevokedIsHead ==
  ASSUME NEW h \in CredentialState, NEW e, e.sn \in Nat, e.said \in Saids
  PROVE  /\ RevokeCredential(h, e) \in CredentialState /\ RevokeCredential(h, e).sn = e.sn
         /\ RevokeCredential(h, e).registry = h.registry
         /\ RevokeCredential(h, e).credential = h.credential
BY DEF RevokeCredential, CredentialState

(* A credential event moves one head, from none to issued or from issued   *)
(* to revoked.                                                             *)
LEMMA Certifies ==
  ASSUME IInv, NEW m \in TelMessage, Issues(m.event) \/ Revokes(m.event), Certify(m.event)
  PROVE  LET p == Place(m.event)
         IN  /\ UNCHANGED management
             /\ p \in Registries \X Credentials
             /\ management[RegistryOf(m.event)] # <<>>
             /\ \E c \in CredentialState :
                  /\ credentials' = [credentials EXCEPT ![p] = c]
                  /\ c.registry = p[1] /\ c.credential = p[2]
                  /\ \/ credentials[p] = None /\ c.sn = 0
                     \/ credentials[p] # None /\ credentials[p].sn = 0 /\ c.sn = 1
<1> DEFINE e == m.event
<1> DEFINE r == RegistryOf(e)
<1> DEFINE p == Place(e)
<1>1. /\ e \in TelEvent /\ r \in Registries /\ Chain(e) = management[r] /\ e.said \in Saids
      /\ p \in Registries \X Credentials /\ Chain(e) # <<>>
  <2>1. e.kind \notin {"vcp", "vrt"} /\ Chain(e) # <<>>
    BY DEF Issues, Revokes, Issuances
  <2> QED
    BY <2>1, Routed DEF TelMessage, Place
<1>2. UNCHANGED management
  BY DEF Certify
<1>3. CASE Issues(e)
  <2> DEFINE c == SeedCredential(Current(e), e)
  <2>1. credentials' = [credentials EXCEPT ![p] = c] /\ credentials[p] = None
    BY <1>3 DEF Certify, Issues, Recorded
  <2>2. e.sn = 0 /\ e.cred \in Credentials
    BY <1>1, <1>3 DEF TelEvent, Issues, Issuances
  <2>3. Current(e).id = r
    <3>1. Sequential(management[r]) /\ management[r] # <<>>
      BY <1>1 DEF IInv, RetainedWell
    <3>2. Len(management[r]) \in 1..Len(management[r])
      BY <3>1 DEF Sequential
    <3> QED
      BY <1>1, <3>2 DEF Current, IInv, RetainedWell
  <2>4. /\ c \in CredentialState /\ c.sn = 0
        /\ c.registry = p[1] /\ c.credential = p[2]
    BY <1>1, <2>2, <2>3 DEF SeedCredential, CredentialState, Place
  <2> HIDE DEF c
  <2> QED
    BY <1>1, <1>2, <2>1, <2>4
<1>4. CASE Revokes(e)
  <2> DEFINE c == RevokeCredential(credentials[p], e)
  <2>1. e.kind \notin Issuances /\ credentials[p] # None
    BY <1>4 DEF Revokes, Recorded, Issuances
  <2>2. credentials' = [credentials EXCEPT ![p] = c]
    BY <2>1 DEF Certify
  <2>3. /\ credentials[p] \in CredentialState /\ credentials[p].sn \in {0, 1}
        /\ credentials[p].registry = p[1] /\ credentials[p].credential = p[2]
    BY <1>1, <2>1 DEF IInv, HeadWell
  <2>4. e.sn = 1
    BY <1>1, <1>4 DEF TelEvent, Revokes
  <2>5. credentials[p].sn = 0
    BY <1>4, <2>3, <2>4 DEF Revokes, Recorded
  <2>6. c \in CredentialState /\ c.sn = 1 /\ c.registry = p[1] /\ c.credential = p[2]
    <3>1. e.sn \in Nat /\ e.said \in Saids
      BY <1>1, <2>4
    <3> QED
      BY <2>3, <2>4, <3>1, RevokedIsHead
  <2> HIDE DEF c
  <2> QED
    BY <1>1, <1>2, <2>1, <2>2, <2>5, <2>6
<1> QED
  BY <1>3, <1>4

(* The host puts a message to the fold: it stands, or one log grows.       *)
LEMMA HandleChanges ==
  ASSUME NEW m \in TelMessage, Handle(m)
  PROVE  \/ UNCHANGED <<management, credentials>>
         \/ (Founds(m.event) \/ Rotates(m.event)) /\ Manage(m.event)
         \/ (Issues(m.event) \/ Revokes(m.event)) /\ Certify(m.event)
<1>1. CASE Admit(m)
  <2>1. PICK ev : Verdict(m, ev) = "Ok"
    BY <1>1 DEF Admit, Verdicts
  <2>2. Founds(m.event) \/ Rotates(m.event) \/ Issues(m.event) \/ Revokes(m.event)
    BY <2>1, VerdictPasses
  <2>3. IF m.event.kind \in {"vcp", "vrt"} THEN Manage(m.event) ELSE Certify(m.event)
    BY <1>1 DEF Admit
  <2> QED
    BY <2>2, <2>3 DEF Founds, Rotates, Issues, Revokes, Issuances
<1> QED
  BY <1>1 DEF Handle, Await, Drop

(* Retained states and heads stay what they are.                           *)
LEMMA HandleKeepsRecords ==
  ASSUME IInv, NEW m \in TelMessage, Handle(m)
  PROVE  /\ (DOMAIN management = Registries)'
         /\ \A r \in Registries : RetainedWell(r)'
         /\ (DOMAIN credentials = Registries \X Credentials)'
         /\ \A p \in Registries \X Credentials : HeadWell(p)'
<1>1. CASE UNCHANGED <<management, credentials>>
  BY <1>1 DEF IInv, RetainedWell, HeadWell
<1>2. CASE (Founds(m.event) \/ Rotates(m.event)) /\ Manage(m.event)
  <2> DEFINE r == RegistryOf(m.event)
  <2>1. UNCHANGED credentials
    BY <1>2, Manages
  <2>2. PICK x : /\ management' = [management EXCEPT ![r] = Append(management[r], x)]
                 /\ x.latest = m.event.said /\ x.id = r
    BY <1>2, Manages
  <2>3. r \in Registries /\ m.event.said \in Saids
    BY <1>2, Routed
  <2> HIDE DEF r
  <2>4. RetainedWell(r)'
    <3>1. /\ Sequential(management[r]) /\ management'[r] = Append(management[r], x)
          /\ \A n \in 1..Len(management[r]) :
               management[r][n].latest \in Saids /\ management[r][n].id = r
      BY <2>2, <2>3 DEF IInv, RetainedWell
    <3>2. /\ Sequential(management'[r]) /\ Len(management'[r]) = Len(management[r]) + 1
          /\ Len(management[r]) \in Nat
          /\ \A n \in 1..Len(management[r]) : management'[r][n] = management[r][n]
          /\ management'[r][Len(management[r]) + 1] = x
      BY <3>1, GrowsByOne
    <3>3. \A n \in 1..Len(management'[r]) :
            management'[r][n].latest \in Saids /\ management'[r][n].id = r
      BY <2>2, <2>3, <3>1, <3>2
    <3> QED
      BY <3>2, <3>3 DEF RetainedWell
  <2>5. \A q \in Registries \ {r} : RetainedWell(q)'
    BY <2>2 DEF IInv, RetainedWell
  <2> QED
    BY <2>1, <2>2, <2>4, <2>5 DEF IInv, HeadWell
<1>3. CASE (Issues(m.event) \/ Revokes(m.event)) /\ Certify(m.event)
  <2> DEFINE p == Place(m.event)
  <2>1. UNCHANGED management /\ p \in Registries \X Credentials
    BY <1>3, Certifies
  <2>2. PICK c \in CredentialState : /\ credentials' = [credentials EXCEPT ![p] = c]
                                     /\ c.sn \in {0, 1}
                                     /\ c.registry = p[1] /\ c.credential = p[2]
    BY <1>3, Certifies
  <2> HIDE DEF p
  <2> QED
    BY <2>1, <2>2 DEF IInv, RetainedWell, HeadWell
<1> QED
  BY <1>1, <1>2, <1>3, HandleChanges

LEMMA InitIInv == Init => IInv
<1> SUFFICES ASSUME Init PROVE IInv
  OBVIOUS
<1>1. MessagesWell /\ SealedByIssuer
  <2>1. unread \subseteq TelMessages
    BY DEF Init, TelMessages
  <2> QED
    BY <2>1 DEF Init, MessagesWell, SealedByIssuer
<1>2. \A r \in Registries : RetainedWell(r)
  <2> SUFFICES ASSUME NEW r \in Registries PROVE RetainedWell(r)
    OBVIOUS
  <2>1. management[r] = <<>> /\ management[r] \in Seq(Saids)
    BY DEF Init
  <2> QED
    BY <2>1 DEF RetainedWell, Sequential
<1>3. \A p \in Registries \X Credentials : HeadWell(p)
  BY DEF Init, HeadWell
<1>4. DOMAIN management = Registries /\ DOMAIN credentials = Registries \X Credentials
  BY DEF Init
<1> QED
  BY <1>1, <1>2, <1>3, <1>4 DEF IInv

LEMMA NextIInv == IInv /\ [Next]_vars => IInv'
<1> SUFFICES ASSUME IInv, [Next]_vars PROVE IInv'
  OBVIOUS
<1>1. CASE UNCHANGED vars
  <2>1. SealedByIssuer'
    BY <1>1 DEF IInv, vars, telVars, SealedByIssuer, Members
  <2>2. /\ \A r \in Registries : RetainedWell(r)'
        /\ \A p \in Registries \X Credentials : HeadWell(p)'
    BY <1>1 DEF IInv, vars, telVars, RetainedWell, HeadWell
  <2> QED
    BY <1>1, <2>1, <2>2 DEF IInv, vars, telVars, MessagesWell
<1>2. CASE IssuerStep
  <2>1. UNCHANGED telVars
    BY <1>2 DEF IssuerStep
  <2>2. SealedByIssuer'
    BY <1>2, IssuerKeepsSeals DEF IInv
  <2> QED
    BY <2>1, <2>2 DEF IInv, telVars, MessagesWell, RetainedWell, HeadWell
<1>3. ASSUME NEW m \in TelMessage, Handle(m), UNCHANGED <<log, replaced>>, unread' \subseteq unread
      PROVE  IInv'
  <2>1. MessagesWell'
    BY <1>3, HandleKeepsMessages DEF IInv, MessagesWell
  <2>2. SealedByIssuer'
    BY <1>3, HandleKeepsSeals DEF IInv
  <2> QED
    BY <1>3, <2>1, <2>2, HandleKeepsRecords DEF IInv
<1> QED
  BY <1>1, <1>2, <1>3, StepHandles DEF IInv

(* The inductive invariant holds of every reachable state.                 *)
THEOREM Invariant == Spec => []IInv
BY InitIInv, NextIInv, PTL DEF Spec

(* Every accepted event was the sole seal of an event that the issuer's    *)
(* log held at the claimed coordinate, however that log was recovered.     *)
THEOREM AlwaysSealed == Spec => []SealedByIssuer
<1>1. IInv => SealedByIssuer
  BY DEF IInv
<1> QED
  BY Invariant, <1>1, PTL

-----------------------------------------------------------------------------
(* The host implements AbstractTel.                                        *)

LogBar == [r \in Registries |-> [n \in DOMAIN management[r] |-> management[r][n].latest]]
StatusBar == [p \in Registries \X Credentials |-> StatusOf(credentials[p])]

(* A management event founds or rotates the registry it is routed to.      *)
LEMMA ManagesLog ==
  ASSUME IInv, NEW m \in TelMessage, Founds(m.event) \/ Rotates(m.event), Manage(m.event)
  PROVE  Promise!Next
<1> DEFINE r == RegistryOf(m.event)
<1> DEFINE said == m.event.said
<1>1. UNCHANGED credentials
  BY Manages
<1>2. PICK x : /\ management' = [management EXCEPT ![r] = Append(management[r], x)]
               /\ x.latest = said
  BY Manages
<1>3. /\ r \in Registries /\ said \in Saids /\ Chain(m.event) = management[r]
      /\ Founds(m.event) => r = said
  BY Routed
<1> HIDE DEF r, said
<1>4. /\ Sequential(management[r]) /\ DOMAIN management = Registries
      /\ \A n \in 1..Len(management[r]) : management[r][n].latest \in Saids
  BY <1>3 DEF IInv, RetainedWell
<1>5. Latests(Append(management[r], x)) = Append(Latests(management[r]), said)
  BY <1>2, <1>3, <1>4, LatestsGrow
<1>6. LogBar' = [LogBar EXCEPT ![r] = Append(LogBar[r], said)]
  <2>1. \A q \in Registries : LogBar[q] = Latests(management[q]) /\ LogBar'[q] = Latests(management'[q])
    BY DEF LogBar, Latests
  <2>2. /\ LogBar'[r] = Append(LogBar[r], said)
        /\ \A q \in Registries \ {r} : LogBar'[q] = LogBar[q]
    BY <1>2, <1>3, <1>4, <1>5, <2>1
  <2>3. /\ LogBar = [q \in Registries |-> LogBar[q]]
        /\ LogBar' = [q \in Registries |-> LogBar'[q]]
    BY DEF LogBar
  <2> HIDE DEF LogBar
  <2> QED
    BY <1>3, <2>2, <2>3
<1>7. StatusBar' = StatusBar
  BY <1>1 DEF StatusBar, StatusOf, Status
<1>8. management[r] = <<>> <=> LogBar[r] = <<>>
  BY <1>3, <1>4 DEF LogBar, Sequential
<1>9. CASE Founds(m.event)
  <2>1. LogBar[r] = <<>> /\ r = said
    BY <1>3, <1>8, <1>9 DEF Founds
  <2>2. Append(LogBar[r], said) = <<r>>
    BY <1>3, <2>1
  <2>3. LogBar' = [LogBar EXCEPT ![r] = <<r>>]
    BY <1>6, <2>2
  <2>4. Promise!Found(r)
    BY <1>7, <2>1, <2>3 DEF Promise!Found, LogBar, StatusBar
  <2> QED
    BY <1>3, <2>4 DEF Promise!Next
<1>10. CASE Rotates(m.event)
  <2>1. LogBar[r] # <<>>
    BY <1>3, <1>8, <1>10 DEF Rotates
  <2>2. Promise!Rotate(r, said)
    BY <1>6, <1>7, <2>1 DEF Promise!Rotate, LogBar, StatusBar
  <2> QED
    BY <1>3, <2>2 DEF Promise!Next
<1> QED
  BY <1>9, <1>10

(* A credential event issues or revokes the credential it names.           *)
LEMMA CertifiesStatus ==
  ASSUME IInv, NEW m \in TelMessage, Issues(m.event) \/ Revokes(m.event), Certify(m.event)
  PROVE  Promise!Next
<1> DEFINE p == Place(m.event)
<1>1. /\ UNCHANGED management /\ p \in Registries \X Credentials
      /\ management[RegistryOf(m.event)] # <<>>
  BY Certifies
<1>2. PICK c \in CredentialState :
        /\ credentials' = [credentials EXCEPT ![p] = c]
        /\ \/ credentials[p] = None /\ c.sn = 0
           \/ credentials[p] # None /\ credentials[p].sn = 0 /\ c.sn = 1
  BY Certifies
<1>3. PICK r \in Registries, d \in Credentials :
        p = <<r, d>> /\ r = RegistryOf(m.event)
  BY <1>1 DEF Place
<1> HIDE DEF p
<1>4. LogBar' = LogBar /\ LogBar[r] # <<>>
  <2>1. Sequential(management[r]) /\ management[r] # <<>>
    BY <1>1, <1>3 DEF IInv, RetainedWell
  <2> QED
    BY <1>1, <1>3, <2>1 DEF LogBar, Sequential
<1>5. StatusBar' = [StatusBar EXCEPT ![<<r, d>>] = Status(c)]
  <2>1. credentials'[p] = c /\ c # None
    BY <1>1, <1>2, NoneIsNoHead DEF IInv
  <2>2. \A q \in Registries \X Credentials : q # p => credentials'[q] = credentials[q]
    BY <1>2 DEF IInv
  <2>3. StatusBar'[p] = Status(c)
    BY <1>1, <2>1 DEF StatusBar, StatusOf, Status
  <2>4. \A q \in Registries \X Credentials : q # p => StatusBar'[q] = StatusBar[q]
    BY <2>2 DEF StatusBar, StatusOf, Status
  <2>5. /\ StatusBar = [q \in Registries \X Credentials |-> StatusBar[q]]
        /\ StatusBar' = [q \in Registries \X Credentials |-> StatusBar'[q]]
    BY DEF StatusBar
  <2> HIDE DEF StatusBar
  <2> QED
    BY <1>1, <1>3, <2>3, <2>4, <2>5
<1>6. CASE credentials[p] = None /\ c.sn = 0
  <2>1. StatusBar[<<r, d>>] = "Unknown" /\ Status(c) = "Issued"
    BY <1>1, <1>3, <1>6 DEF StatusBar, StatusOf, Status
  <2>2. StatusBar' = [StatusBar EXCEPT ![<<r, d>>] = "Issued"]
    BY <1>5, <2>1
  <2>3. Promise!Issue(r, d)
    BY <1>4, <2>1, <2>2 DEF Promise!Issue, LogBar, StatusBar
  <2> QED
    BY <2>3 DEF Promise!Next
<1>7. CASE credentials[p] # None /\ credentials[p].sn = 0 /\ c.sn = 1
  <2>1. StatusBar[<<r, d>>] = "Issued" /\ Status(c) = "Revoked"
    BY <1>1, <1>3, <1>7 DEF StatusBar, StatusOf, Status
  <2>2. StatusBar' = [StatusBar EXCEPT ![<<r, d>>] = "Revoked"]
    BY <1>5, <2>1
  <2>3. Promise!Revoke(r, d)
    BY <1>4, <2>1, <2>2 DEF Promise!Revoke, LogBar, StatusBar
  <2> QED
    BY <2>3 DEF Promise!Next
<1> QED
  BY <1>2, <1>6, <1>7

(* Management logs only grow, a credential is issued at most once and a    *)
(* revocation is final, whatever arrives and whatever the issuer's log     *)
(* recovers from.                                                          *)
THEOREM HostKeepsPromise == Spec => KeepsPromise
<1>1. Init => Promise!Init
  BY DEF Init, Promise!Init, StatusOf
<1>2. IInv /\ [Next]_vars => [Promise!Next]_<<LogBar, StatusBar>>
  <2> SUFFICES ASSUME IInv, [Next]_vars PROVE [Promise!Next]_<<LogBar, StatusBar>>
    OBVIOUS
  <2>1. CASE UNCHANGED <<management, credentials>>
    BY <2>1 DEF LogBar, StatusBar, StatusOf, Status
  <2>2. CASE UNCHANGED vars
    BY <2>1, <2>2 DEF vars, telVars
  <2>3. CASE IssuerStep
    BY <2>1, <2>3 DEF IssuerStep, telVars
  <2>4. ASSUME NEW m \in TelMessage, Handle(m)
        PROVE  [Promise!Next]_<<LogBar, StatusBar>>
    BY <2>1, <2>4, HandleChanges, ManagesLog, CertifiesStatus
  <2> QED
    BY <2>2, <2>3, <2>4, StepHandles DEF IInv
<1>3. [Promise!Next]_<<LogBar, StatusBar>> => [Promise!Next]_(Promise!vars)
  BY DEF Promise!vars, LogBar, StatusBar
<1> QED
  BY <1>1, <1>2, <1>3, Invariant, PTL DEF Spec, KeepsPromise, Promise!Spec

-----------------------------------------------------------------------------
(* Ordered lists of backers.                                               *)

(* What a rotation leaves in force: the backers without those cut, and the *)
(* ones added.                                                             *)
LEMMA UpdatedBackersMembers ==
  ASSUME NEW r, r.backers \in Seq(Keys), NEW e, e.adds \in Seq(Keys)
  PROVE  LET list == UpdatedBackers(r, e)
         IN  /\ list \in Seq(Keys)
             /\ Members(list) = (Members(r.backers) \ Members(e.cuts)) \cup Members(e.adds)
             /\ Unique(r.backers) /\ Unique(e.adds) => Unique(list)
BY UpdatedListKeeps DEF UpdatedBackers, UpdatedMembers

(* Enough verified positions of a list without repetition are receipts of  *)
(* as many of its members (RegistryState::authenticate_backer).            *)
LEMMA PositionsAreMembers ==
  ASSUME NEW backers \in Seq(Keys), Unique(backers), NEW toad \in Nat,
         NEW m \in TelMessage, AuthenticateBacker(m, backers, toad) = "Ok"
  PROVE  Cardinality(Members(backers) \cap Receiptors(m)) >= toad
<1> DEFINE verified == Verified(backers, m.receipts)
           places == {sig.index : sig \in verified}
           theirs == Members(backers) \cap Receiptors(m)
           f == [i \in places |-> backers[i + 1]]
<1>1. DOMAIN backers = 1..Len(backers) /\ Len(backers) \in Nat
  OBVIOUS
<1>2. Cardinality(places) >= toad
  <2>1. Verify(backers, Simple(toad), m.receipts) = "Ok"
    BY DEF AuthenticateBacker, Require
  <2>2. Satisfied(Simple(toad), places)
    BY <2>1 DEF Verify
  <2> HIDE DEF places
  <2> QED
    BY <2>2 DEF Satisfied, Simple
<1>3. \A sig \in verified : /\ sig.index \in Nat /\ sig.index + 1 \in 1..Len(backers)
                            /\ backers[sig.index + 1] \in theirs
  <2> SUFFICES ASSUME NEW sig \in verified
               PROVE  /\ sig.index \in Nat /\ sig.index + 1 \in 1..Len(backers)
                      /\ backers[sig.index + 1] \in theirs
    OBVIOUS
  <2>1. /\ sig \in m.receipts /\ sig.index + 1 \in DOMAIN backers
        /\ backers[sig.index + 1] = sig.signer
    BY DEF Verified
  <2>2. sig.index \in Nat
    BY <2>1 DEF TelMessage, Siger
  <2> QED
    BY <1>1, <2>1, <2>2 DEF Members, Receiptors
<1>4. \A i \in places : i \in Nat /\ i + 1 \in 1..Len(backers) /\ backers[i + 1] \in theirs
  BY <1>3
<1>5. f \in [places -> theirs]
  BY <1>4
<1>6. \A i, j \in places : f[i] = f[j] => i = j
  <2> SUFFICES ASSUME NEW i \in places, NEW j \in places, f[i] = f[j] PROVE i = j
    OBVIOUS
  <2>1. backers[i + 1] = backers[j + 1] /\ i + 1 \in DOMAIN backers /\ j + 1 \in DOMAIN backers
    BY <1>1, <1>4
  <2>2. i + 1 = j + 1 /\ i \in Nat /\ j \in Nat
    BY <1>4, <2>1 DEF Unique
  <2> QED
    BY <2>2
<1>7. IsFiniteSet(theirs)
  BY MembersFinite, FS_Intersection
<1> HIDE DEF verified, places, theirs, f
<1>8. f \in Injection(places, theirs)
  BY <1>5, <1>6 DEF Injection, IsInjective
<1>9. /\ IsFiniteSet(places) /\ Cardinality(places) <= Cardinality(theirs)
  BY <1>7, <1>8, FS_Injection
<1>10. Cardinality(places) \in Nat /\ Cardinality(theirs) \in Nat
  BY <1>7, <1>9, FS_CardinalityType
<1>11. Cardinality(theirs) >= toad
  BY <1>2, <1>9, <1>10
<1> QED
  BY <1>11 DEF theirs

(* Receipts of a whole list are enough for any number of its members.      *)
LEMMA WholeListReceipts ==
  ASSUME NEW backers \in Seq(Keys), NEW toad \in Nat, toad <= Len(backers), NEW e
  PROVE  AuthenticateBacker(Endorsed(e, backers), backers, toad) = "Ok"
<1> DEFINE by(i) == [index |-> i - 1, ondex |-> NoOndex, signer |-> backers[i]]
           all == {by(i) : i \in 1..Len(backers)}
           places == {sig.index : sig \in Verified(backers, all)}
<1>1. DOMAIN backers = 1..Len(backers) /\ Len(backers) \in Nat
  OBVIOUS
<1>2. Endorsed(e, backers).receipts = all
  BY <1>1 DEF Endorsed
<1>3. \A i \in 1..Len(backers) : by(i).index = i - 1 /\ by(i).signer = backers[i] /\ by(i).index + 1 = i
  BY <1>1
<1>4. Verified(backers, all) = all
  <2> HIDE DEF by
  <2> QED
    BY <1>1, <1>3 DEF Verified
<1>5. places = 0..(Len(backers) - 1)
  <2>1. places = {by(i).index : i \in 1..Len(backers)}
    BY <1>4
  <2>2. \A n \in 0..(Len(backers) - 1) : n + 1 \in 1..Len(backers) /\ by(n + 1).index = n
    BY <1>1, <1>3
  <2>3. \A i \in 1..Len(backers) : by(i).index \in 0..(Len(backers) - 1)
    BY <1>1, <1>3
  <2> HIDE DEF by
  <2> QED
    BY <2>1, <2>2, <2>3
<1>6. Cardinality(places) = Len(backers)
  <2> DEFINE last == Len(backers) - 1
  <2>1. last \in Int /\ (IF 0 > last THEN 0 ELSE last - 0 + 1) = Len(backers)
    BY <1>1
  <2>2. places = 0..last
    BY <1>5
  <2> HIDE DEF last, places
  <2>3. Cardinality(0..last) = IF 0 > last THEN 0 ELSE last - 0 + 1
    BY <2>1, FS_Interval
  <2> QED
    BY <2>1, <2>2, <2>3
<1> HIDE DEF places, all
<1>7. Satisfied(Simple(toad), places)
  BY <1>1, <1>6 DEF Satisfied, Simple
<1>8. Verify(backers, Simple(toad), all) = "Ok"
  BY <1>7 DEF Verify, places
<1> QED
  BY <1>2, <1>8 DEF AuthenticateBacker, Require

-----------------------------------------------------------------------------
(* What a verdict establishes about backers.                               *)

(* A list of backers that is fit to judge by, and a message judged by it.  *)
Fit(backers, toad) ==
  Unique(backers) /\ CheckBackerThreshold(Len(backers), toad) = "Ok"

EnoughFor(m, backers, toad) ==
  backers = <<>> \/ AuthenticateBacker(m, backers, toad) = "Ok"

(* A fit list with a threshold never asks for more than it has.            *)
LEMMA FitIsInReach ==
  ASSUME NEW count \in Nat, NEW toad \in Nat, CheckBackerThreshold(count, toad) = "Ok"
  PROVE  toad <= count
<1>1. CheckWitnessThreshold(count, toad) = "Ok"
  BY DEF CheckBackerThreshold, Require
<1> QED
  BY <1>1 DEF CheckWitnessThreshold, Require, &&

(* Receipts enough for the fold are receipts of enough members.            *)
LEMMA EnoughAreMembers ==
  ASSUME NEW backers \in Seq(Keys), NEW toad \in Nat, NEW m \in TelMessage,
         Fit(backers, toad), EnoughFor(m, backers, toad)
  PROVE  Cardinality(Members(backers) \cap Receiptors(m)) >= toad
<1>1. CASE backers = <<>>
  <2>1. Members(backers) \cap Receiptors(m) = {} /\ Len(backers) = 0
    BY <1>1 DEF Members
  <2>2. toad = 0
    BY <2>1, FitIsInReach DEF Fit
  <2> QED
    BY <2>1, <2>2, FS_EmptySet
<1>2. CASE backers # <<>>
  BY <1>2, PositionsAreMembers DEF Fit, EnoughFor
<1> QED
  BY <1>1, <1>2

(* An inception is judged by the list it brings.                           *)
LEMMA InceptRegistryPasses ==
  ASSUME NEW m, NEW ev, NEW anchor, InceptRegistry(m, ev, anchor) = "Ok"
  PROVE  /\ Fit(m.event.adds, m.event.toad)
         /\ EnoughFor(m, m.event.adds, m.event.toad)
<1> DEFINE e == m.event
<1>1. /\ CheckMembers(e.adds) = "Ok"
      /\ CheckBackerThreshold(Len(e.adds), e.toad) = "Ok"
      /\ (IF e.adds = <<>> THEN "Ok" ELSE AuthenticateBacker(m, e.adds, e.toad)) = "Ok"
  BY BothPass DEF InceptRegistry
<1> QED
  BY <1>1 DEF CheckMembers, Require, Fit, EnoughFor

(* A rotation is the next in its registry's log and is judged by the list  *)
(* it leaves in force.                                                     *)
LEMMA RotatePasses ==
  ASSUME NEW r, NEW m, NEW ev, NEW anchor, Rotate(r, m, ev, anchor) = "Ok",
         r.sn \in Nat, m.event.sn \in Nat, r.backers \in Seq(Keys), m.event.adds \in Seq(Keys),
         Unique(r.backers)
  PROVE  /\ m.event.sn = r.sn + 1
         /\ Fit(UpdatedBackers(r, m.event), m.event.toad)
         /\ EnoughFor(m, UpdatedBackers(r, m.event), m.event.toad)
<1> DEFINE e == m.event
           left == UpdatedBackers(r, e)
<1>1. FollowsManagement(r, e) = "Ok" /\ ReceiptedAfter(r, m) = "Ok"
  BY BothPass DEF Rotate
<1>2. InOrder(e.sn, r.sn + 1) = "Ok"
  BY <1>1, BothPass DEF FollowsManagement
<1>3. /\ Require(e.sn <= r.sn + 1, "OutOfOrderFuture") = "Ok"
      /\ Require(e.sn >= r.sn + 1, "OutOfOrderStale") = "Ok"
  BY <1>2, BothPass DEF InOrder
<1>4. e.sn = r.sn + 1
  BY <1>3 DEF Require
<1>5. /\ ResolveBackers(r, e) = "Ok"
      /\ CheckBackerThreshold(Len(left), e.toad) = "Ok"
      /\ (IF left = <<>> THEN "Ok" ELSE AuthenticateBacker(m, left, e.toad)) = "Ok"
  BY <1>1, BothPass DEF ReceiptedAfter
<1>6. Unique(e.adds)
  BY <1>5 DEF ResolveBackers, Require
<1>7. Unique(left)
  BY <1>6, UpdatedBackersMembers
<1> HIDE DEF left
<1>8. EnoughFor(m, left, e.toad) /\ Fit(left, e.toad)
  BY <1>5, <1>7 DEF EnoughFor, Fit
<1> QED
  BY <1>4, <1>8 DEF left

(* A backed event names the registry and the management state whose list   *)
(* it is judged by.                                                        *)
LEMMA BackedPasses ==
  ASSUME NEW r, NEW m, NEW ev, NEW anchor, AuthenticateBacked(r, m, ev, anchor) = "Ok",
         ev.kind \in {"backer", "backerAt"}
  PROVE  LET named == AuthorityOf(r, ev)
         IN  /\ m.event.ra.i = r.id
             /\ ev.kind = "backer" => named = r
             /\ ev.kind = "backerAt" => named = ev.management
             /\ named.sn = m.event.ra.s /\ named.latest = m.event.ra.d
             /\ Fit(named.backers, named.toad)
             /\ AuthenticateBacker(m, named.backers, named.toad) = "Ok"
<1> DEFINE named == AuthorityOf(r, ev)
           ra == m.event.ra
<1>1. /\ ResolveBackerAuthority(r, ra, ev) = "Ok"
      /\ CheckMembers(named.backers) = "Ok"
      /\ CheckBackerThreshold(Len(named.backers), named.toad) = "Ok"
      /\ AuthenticateBacker(m, named.backers, named.toad) = "Ok"
  BY BothPass DEF AuthenticateBacked
<1>2. ra.i = r.id /\ MatchesEvidence(r, ra, ev) = "Ok"
  <2>1. Require(ra.i = r.id, "InconsistentRegistry") = "Ok" /\ MatchesEvidence(r, ra, ev) = "Ok"
    BY <1>1, BothPass DEF ResolveBackerAuthority
  <2> QED
    BY <2>1 DEF Require
<1>3. CASE ev.kind = "backer"
  <2>1. named = r /\ ra.s = r.sn /\ ra.d = r.latest
    BY <1>2, <1>3 DEF Require, AuthorityOf, MatchesEvidence
  <2> HIDE DEF named
  <2>2. named.sn = ra.s /\ named.latest = ra.d /\ Fit(named.backers, named.toad)
    BY <1>1, <2>1 DEF CheckMembers, Require, Fit
  <2> QED
    BY <1>1, <1>2, <1>3, <2>1, <2>2 DEF named
<1>4. CASE ev.kind = "backerAt"
  <2>1. named = ev.management /\ ev.management.sn = ra.s /\ ev.management.latest = ra.d
    BY <1>2, <1>4 DEF Require, AuthorityOf, MatchesEvidence
  <2> HIDE DEF named
  <2>2. named.sn = ra.s /\ named.latest = ra.d /\ Fit(named.backers, named.toad)
    BY <1>1, <2>1 DEF CheckMembers, Require, Fit
  <2> QED
    BY <1>1, <1>2, <1>4, <2>1, <2>2 DEF named
<1> QED
  BY <1>3, <1>4

-----------------------------------------------------------------------------
(* The second inductive invariant: the retained states of a registry are   *)
(* what its accepted management events add up to. State n is that of event *)
(* n - 1, and its backers are those added by events up to that one and not *)
(* cut by a later one of these.                                            *)

ManagementKinds == {"vcp", "vrt"}

StateWell(r, n) ==
  LET h == management[r][n]
  IN  h \in Management /\ h.id = r /\ h.sn = n - 1 /\ Fit(h.backers, h.toad)

StateRecorded(r, n) ==
  LET h == management[r][n]
      events == ManagementUpTo(r, n - 1)
  IN  /\ \E g \in events : g.sn = n - 1 /\ g.said = h.latest /\ g.toad = h.toad
      /\ Members(h.backers) = BackersOf(events)

(* No accepted management event is ahead of its registry's log.            *)
NoneAhead ==
  \A a \in accepted :
    a.event.kind \in ManagementKinds => a.event.sn < Len(management[a.event.reg])

AcceptedInTime(a) == a.event.kind \in Backed \cup ManagementKinds => ReceiptedInTime(a)

Ledger ==
  /\ \A r \in Registries : \A n \in 1..Len(management[r]) : StateWell(r, n) /\ StateRecorded(r, n)
  /\ NoneAhead
  /\ \A a \in accepted : AcceptedInTime(a)

(* The fields of a message that are read below.                            *)
LEMMA MessageFields ==
  ASSUME NEW m \in TelMessage
  PROVE  /\ m.event.kind \in TelKinds /\ m.event.sn \in Nat /\ m.event.said \in Saids
         /\ m.event.toad \in Nat /\ m.event.adds \in Seq(Keys) /\ m.event.cuts \in Seq(Keys)
         /\ m.event.conf \in SUBSET {"NB"}
         /\ m.event.kind \in ManagementKinds => m.event.reg \in Registries
         /\ m.event.kind = "vcp" =>
              m.event.reg = m.event.said /\ m.event.sn = 0 /\ m.event.issuer \in Identifiers
BY DEF TelMessage, TelEvent, ManagementKinds

(* A state of the log, with its types.                                     *)
LEMMA StateFields ==
  ASSUME NEW h \in Management
  PROVE  /\ h.id \in Registries /\ h.issuer \in Identifiers /\ h.sn \in Nat /\ h.latest \in Saids
         /\ h.conf \in SUBSET {"NB"} /\ h.toad \in Nat /\ h.backers \in Seq(Keys)
BY DEF Management

(* The head of a log that is not empty is its last state.                  *)
LEMMA HeadIsLast ==
  ASSUME IInv, NEW r \in Registries, management[r] # <<>>
  PROVE  Len(management[r]) \in 1..Len(management[r]) /\ Len(management[r]) \in Nat
<1>1. Sequential(management[r])
  BY DEF IInv, RetainedWell
<1> QED
  BY <1>1 DEF Sequential

(* The management events up to a number are those before, when the next is *)
(* of another registry or has a greater number.                            *)
LEMMA UpToStands ==
  ASSUME NEW m, accepted' = accepted \cup {m}, NEW r, NEW sn,
         m.event.kind \in ManagementKinds => m.event.reg # r \/ ~(m.event.sn <= sn)
  PROVE  ManagementUpTo(r, sn)' = ManagementUpTo(r, sn)
BY DEF ManagementUpTo, ManagementKinds

(* The next management event joins all before it.                          *)
LEMMA UpToGrows ==
  ASSUME NoneAhead, accepted \subseteq TelMessage, NEW m \in TelMessage,
         accepted' = accepted \cup {m}, m.event.kind \in ManagementKinds,
         Len(management[m.event.reg]) \in Nat, m.event.sn = Len(management[m.event.reg])
  PROVE  /\ ManagementUpTo(m.event.reg, m.event.sn)' =
              ManagementUpTo(m.event.reg, m.event.sn - 1) \cup {m.event}
         /\ \A x \in ManagementUpTo(m.event.reg, m.event.sn - 1) : x.sn < m.event.sn /\ x.sn \in Nat
         /\ m.event.sn = 0 => ManagementUpTo(m.event.reg, m.event.sn - 1) = {}
<1> DEFINE r == m.event.reg
           sn == m.event.sn
           before == ManagementUpTo(r, sn - 1)
           Of(a) == a.event.kind \in ManagementKinds /\ a.event.reg = r
<1>1. sn \in Nat /\ \A a \in accepted : a.event.sn \in Nat
  BY MessageFields
<1>2. \A a \in accepted : Of(a) => a.event.sn <= sn - 1 /\ a.event.sn < sn
  BY <1>1 DEF NoneAhead
<1>3. before = {a.event : a \in {b \in accepted : Of(b)}}
  BY <1>2 DEF ManagementUpTo, ManagementKinds
<1>4. ManagementUpTo(r, sn)' = {a.event : a \in {b \in accepted : Of(b)}} \cup {m.event}
  <2>1. \A a \in accepted : Of(a) => a.event.sn <= sn
    BY <1>1, <1>2
  <2>2. sn <= sn
    BY <1>1
  <2> QED
    BY <2>1, <2>2 DEF ManagementUpTo, ManagementKinds
<1>5. \A x \in before : x.sn < sn /\ x.sn \in Nat
  BY <1>1, <1>2, <1>3
<1>6. sn = 0 => before = {}
  BY <1>1, <1>5
<1> QED
  BY <1>3, <1>4, <1>5, <1>6

(* A rotation moves the backers read from the events as it moves the list. *)
LEMMA BackersAfter ==
  ASSUME NEW events, NEW e, e.sn \in Nat, \A x \in events : x.sn \in Nat /\ x.sn < e.sn,
         Members(e.adds) \subseteq Keys
  PROVE  BackersOf(events \cup {e}) = (BackersOf(events) \ Members(e.cuts)) \cup Members(e.adds)
<1> DEFINE Stays(b, x, all) == b \in Members(x.adds)
                               /\ \A l \in all : l.sn > x.sn => b \notin Members(l.cuts)
<1>1. ~(e.sn > e.sn) /\ \A x \in events : e.sn > x.sn /\ ~(x.sn > e.sn)
  OBVIOUS
<1>2. \A b : Stays(b, e, events \cup {e}) <=> b \in Members(e.adds)
  BY <1>1
<1>3. \A b : \A x \in events :
        Stays(b, x, events \cup {e}) <=> Stays(b, x, events) /\ b \notin Members(e.cuts)
  BY <1>1
<1>4. \A all : BackersOf(all) = {b \in Keys : \E x \in all : Stays(b, x, all)}
  BY DEF BackersOf
<1> HIDE DEF Stays
<1> QED
  BY <1>2, <1>3, <1>4

(* The state an accepted management event leads to.                        *)
LEMMA NextState ==
  ASSUME IInv, Ledger, NEW m \in TelMessage, NEW ev, Verdict(m, ev) = "Ok",
         m.event.kind \in ManagementKinds, Manage(m.event)
  PROVE  LET r == m.event.reg
             L == Len(management[r])
         IN  /\ r \in Registries /\ L \in Nat /\ m.event.sn = L
             /\ \E x \in Management :
                  /\ management' = [management EXCEPT ![r] = Append(management[r], x)]
                  /\ x.id = r /\ x.sn = L /\ x.latest = m.event.said /\ x.toad = m.event.toad
                  /\ Fit(x.backers, x.toad) /\ EnoughFor(m, x.backers, x.toad)
                  /\ Members(x.backers) = BackersOf(ManagementUpTo(r, L - 1) \cup {m.event})
<1> DEFINE e == m.event
           r == e.reg
           L == Len(management[r])
           before == ManagementUpTo(r, L - 1)
<1>1. /\ e.kind \in TelKinds /\ e.sn \in Nat /\ e.said \in Saids /\ e.toad \in Nat
      /\ e.adds \in Seq(Keys) /\ e.cuts \in Seq(Keys) /\ e.conf \in SUBSET {"NB"}
      /\ r \in Registries
      /\ e.kind = "vcp" => r = e.said /\ e.sn = 0 /\ e.issuer \in Identifiers
  BY MessageFields
<1>2. RegistryOf(e) = r /\ Chain(e) = management[r]
  BY <1>1 DEF RegistryOf, Chain, ManagementKinds
<1>3. L \in Nat /\ Sequential(management[r]) /\ (management[r] = <<>> => L = 0)
  <2>1. Sequential(management[r])
    BY <1>1 DEF IInv, RetainedWell
  <2> QED
    BY <2>1 DEF Sequential
<1>4. \A a \in accepted : a.event.sn \in Nat
  BY MessageFields DEF IInv, MessagesWell
<1>5. Members(e.adds) \subseteq Keys
  BY <1>1 DEF Members
<1>6. CASE e.kind = "vcp"
  <2> DEFINE x == SeedRegistry(e)
  <2>1. management[r] = <<>> /\ InceptRegistry(m, ev, AnchorOf(m)) = "Ok"
    BY <1>2, <1>6 DEF Verdict, IngestRegistry, Issuances
  <2>2. Fit(e.adds, e.toad) /\ EnoughFor(m, e.adds, e.toad)
    BY <2>1, InceptRegistryPasses
  <2>3. management' = [management EXCEPT ![r] = Append(management[r], x)]
    BY <1>2, <1>6 DEF Manage
  <2>4. /\ x \in Management /\ x.id = r /\ x.sn = 0 /\ x.latest = e.said
        /\ x.toad = e.toad /\ x.backers = e.adds
    BY <1>1, <1>6 DEF SeedRegistry, Management
  <2>5. L = 0 /\ e.sn = 0
    BY <1>1, <1>3, <1>6, <2>1
  <2>6. before = {}
    BY <1>4, <2>5 DEF ManagementUpTo
  <2>7. BackersOf(before \cup {e}) = Members(e.adds)
    <3>1. BackersOf(before) = {}
      BY <2>6 DEF BackersOf
    <3>2. BackersOf(before \cup {e}) = (BackersOf(before) \ Members(e.cuts)) \cup Members(e.adds)
      <4> HIDE DEF before, e
      <4> QED
        BY <1>1, <1>5, <2>6, BackersAfter
    <3> QED
      BY <3>1, <3>2
  <2> HIDE DEF x
  <2> QED
    BY <1>1, <1>3, <2>2, <2>3, <2>4, <2>5, <2>7
<1>7. CASE e.kind = "vrt"
  <2> DEFINE h == management[r][L]
             x == RotateRegistry(h, e)
  <2>1. management[r] # <<>> /\ Rotate(Current(e), m, ev, AnchorOf(m)) = "Ok"
    BY <1>2, <1>7 DEF Verdict, IngestRegistry, Issuances
  <2>2. L \in 1..L
    BY <1>1, <2>1, HeadIsLast
  <2>3. h \in Management /\ h.id = r /\ h.sn = L - 1 /\ Fit(h.backers, h.toad)
    BY <1>1, <2>2 DEF Ledger, StateWell
  <2>4. Members(h.backers) = BackersOf(before)
    BY <1>1, <2>2 DEF Ledger, StateRecorded
  <2>5. Current(e) = h
    BY <1>2 DEF Current
  <2>6. h.sn \in Nat /\ h.backers \in Seq(Keys) /\ Unique(h.backers) /\ h.issuer \in Identifiers
        /\ h.conf \in SUBSET {"NB"}
    BY <2>3, StateFields DEF Fit
  <2>7. management' = [management EXCEPT ![r] = Append(management[r], x)]
    BY <1>2, <1>7, <2>5 DEF Manage
  <2> HIDE DEF h
  <2>8. /\ e.sn = h.sn + 1 /\ Fit(UpdatedBackers(h, e), e.toad)
        /\ EnoughFor(m, UpdatedBackers(h, e), e.toad)
    BY <1>1, <2>1, <2>5, <2>6, RotatePasses
  <2>9. /\ UpdatedBackers(h, e) \in Seq(Keys)
        /\ Members(UpdatedBackers(h, e)) = (Members(h.backers) \ Members(e.cuts)) \cup Members(e.adds)
    BY <1>1, <2>6, UpdatedBackersMembers
  <2>10. e.sn = L
    BY <1>3, <2>3, <2>8
  <2>11. /\ x \in Management /\ x.id = r /\ x.sn = L /\ x.latest = e.said
         /\ x.toad = e.toad /\ x.backers = UpdatedBackers(h, e)
    BY <1>1, <2>3, <2>6, <2>9, <2>10 DEF RotateRegistry, Management
  <2>12. BackersOf(before \cup {e}) = (BackersOf(before) \ Members(e.cuts)) \cup Members(e.adds)
    <3>1. \A y \in before : y.sn \in Nat /\ y.sn < e.sn
      BY <1>3, <1>4, <2>10 DEF ManagementUpTo
    <3> HIDE DEF before, e
    <3> QED
      BY <1>1, <1>5, <3>1, BackersAfter
  <2> HIDE DEF x
  <2> QED
    BY <1>1, <1>3, <2>4, <2>7, <2>8, <2>9, <2>10, <2>11, <2>12
<1> QED
  BY <1>6, <1>7 DEF ManagementKinds

(* A backed event is receipted by the backers of the state it names.       *)
LEMMA BackedInTime ==
  ASSUME IInv, Ledger, NEW m \in TelMessage, NEW ev \in Evidence(m.event),
         Verdict(m, ev) = "Ok", m.event.kind \in Backed
  PROVE  ReceiptedInTime(m)
<1> DEFINE e == m.event
           r == RegistryOf(e)
           L == Len(management[r])
           named == AuthorityOf(Current(e), ev)
<1>1. Founds(e) \/ Rotates(e) \/ Issues(e) \/ Revokes(e)
  BY VerdictPasses
<1>2. r \in Registries /\ Chain(e) = management[r] /\ management[r] # <<>>
  <2>1. e.kind # "vcp"
    BY DEF Backed
  <2> QED
    BY <1>1, <2>1, Routed DEF Founds, Rotates, Issues, Revokes
<1>3. AuthenticateBacked(Current(e), m, ev, AnchorOf(m)) = "Ok"
  <2>1. Authenticate(Current(e), m, ev, AnchorOf(m)) = "Ok"
    <3>1. CASE e.kind = "bis"
      <4>1. Issue(m, ev) = "Ok"
        BY <1>2, <3>1 DEF Verdict, Issuances
      <4>2. InceptCredential(Current(e), m, ev, AnchorOf(m)) = "Ok"
        BY <4>1, BothPass DEF Issue
      <4> QED
        BY <4>2, BothPass DEF InceptCredential
    <3>2. CASE e.kind = "brv"
      <4>1. Revoke(m, ev) = "Ok"
        BY <1>2, <3>2 DEF Verdict, Issuances
      <4>2. IngestCredential(Recorded(e), Current(e), m, ev, AnchorOf(m)) = "Ok"
        BY <4>1 DEF Revoke
      <4> QED
        BY <4>2, BothPass DEF IngestCredential
    <3> QED
      BY <3>1, <3>2 DEF Backed
  <2> QED
    BY <2>1 DEF Authenticate
<1>4. \/ ev.kind = "backer"
      \/ ev.kind = "backerAt" /\ ev.management \in Members(management[r])
  BY <1>2 DEF Evidence, BackerNow, BackerAt
<1>5. /\ ev.kind = "backer" => named = Current(e)
      /\ ev.kind = "backerAt" => named = ev.management
      /\ named.sn = e.ra.s /\ named.latest = e.ra.d
      /\ Fit(named.backers, named.toad)
      /\ AuthenticateBacker(m, named.backers, named.toad) = "Ok"
  BY <1>3, <1>4, BackedPasses
<1>6. L \in 1..L /\ Sequential(management[r]) /\ Current(e) = management[r][L]
  BY <1>2, HeadIsLast DEF Current, IInv, RetainedWell
<1> HIDE DEF named
<1>7. PICK n \in 1..L : named = management[r][n]
  <2>1. DOMAIN management[r] = 1..L
    BY <1>6 DEF Sequential
  <2> QED
    BY <1>4, <1>5, <1>6, <2>1 DEF Members
<1>8. /\ named \in Management /\ named.sn = n - 1
      /\ \E g \in ManagementUpTo(r, n - 1) : /\ g.sn = n - 1 /\ g.said = named.latest
                                             /\ g.toad = named.toad
      /\ Members(named.backers) = BackersOf(ManagementUpTo(r, n - 1))
  BY <1>2, <1>7 DEF Ledger, StateWell, StateRecorded
<1>9. Cardinality(Members(named.backers) \cap Receiptors(m)) >= named.toad
  <2>1. named.backers \in Seq(Keys) /\ named.toad \in Nat
    BY <1>8, StateFields
  <2> QED
    BY <1>5, <2>1, EnoughAreMembers DEF EnoughFor
<1>10. Governing(e) = n - 1
  BY <1>5, <1>8 DEF Governing
<1> QED
  BY <1>5, <1>8, <1>9, <1>10 DEF ReceiptedInTime

(* What was accepted earlier names a state that no later event adds to.    *)
LEMMA NamesThePast ==
  ASSUME Ledger, NEW a \in accepted, a.event.kind \in Backed \cup ManagementKinds
  PROVE  Governing(a.event) < Len(management[RegistryOf(a.event)])
<1> DEFINE e == a.event
           r == RegistryOf(e)
           sn == Governing(e)
<1>1. PICK g \in ManagementUpTo(r, sn) : g.sn = sn
  BY DEF Ledger, AcceptedInTime, ReceiptedInTime
<1>2. PICK b \in accepted : b.event = g /\ b.event.kind \in ManagementKinds /\ b.event.reg = r
  BY <1>1 DEF ManagementUpTo, ManagementKinds
<1> QED
  BY <1>1, <1>2 DEF Ledger, NoneAhead

(* The ledger is about the accepted messages and the logs alone.           *)
LEMMA SameAcceptance ==
  ASSUME NEW a,
         ManagementUpTo(RegistryOf(a.event), Governing(a.event))' =
           ManagementUpTo(RegistryOf(a.event), Governing(a.event)),
         AcceptedInTime(a)
  PROVE  AcceptedInTime(a)'
BY DEF AcceptedInTime, ReceiptedInTime, BackersOf, Receiptors

(* An accepted management event and the state it leads to join the ledger. *)
LEMMA ManageKeepsLedger ==
  ASSUME IInv, Ledger, NEW m \in TelMessage, NEW ev, Verdict(m, ev) = "Ok",
         m.event.kind \in ManagementKinds, Manage(m.event), accepted' = accepted \cup {m}
  PROVE  Ledger'
<1> DEFINE e == m.event
           r == e.reg
           L == e.sn
<1>1. r \in Registries /\ L \in Nat /\ Len(management[r]) = L /\ e.sn = L
  BY NextState
<1>2. PICK x \in Management :
        /\ management' = [management EXCEPT ![r] = Append(management[r], x)]
        /\ x.id = r /\ x.sn = L /\ x.latest = e.said /\ x.toad = e.toad
        /\ Fit(x.backers, x.toad) /\ EnoughFor(m, x.backers, x.toad)
        /\ Members(x.backers) = BackersOf(ManagementUpTo(r, L - 1) \cup {e})
  BY NextState
<1>3. /\ Len(management'[r]) = L + 1
      /\ \A n \in 1..L : management'[r][n] = management[r][n]
      /\ management'[r][L + 1] = x
      /\ \A q \in Registries \ {r} : management'[q] = management[q]
  <2>1. Sequential(management[r]) /\ DOMAIN management = Registries
    BY <1>1 DEF IInv, RetainedWell
  <2>2. management'[r] = Append(management[r], x)
        /\ \A q \in Registries \ {r} : management'[q] = management[q]
    BY <1>1, <1>2, <2>1
  <2> HIDE DEF r, L
  <2> QED
    BY <1>1, <2>1, <2>2, GrowsByOne
<1>4. accepted \subseteq TelMessage /\ NoneAhead
  BY DEF IInv, MessagesWell, Ledger
<1>5. ManagementUpTo(r, L)' = ManagementUpTo(r, L - 1) \cup {e}
  BY <1>1, <1>4, UpToGrows
<1>6. \A q, n : q # r \/ ~(L <= n) => ManagementUpTo(q, n)' = ManagementUpTo(q, n)
  BY <1>1, UpToStands
<1> HIDE DEF e, r, L
<1>7. ASSUME NEW q \in Registries, NEW n \in 1..Len(management'[q])
      PROVE  StateWell(q, n)' /\ StateRecorded(q, n)'
  <2>1. CASE q # r
    <3>1. management'[q] = management[q] /\ StateWell(q, n) /\ StateRecorded(q, n)
      BY <1>3, <1>7, <2>1 DEF Ledger
    <3>2. ManagementUpTo(q, n - 1)' = ManagementUpTo(q, n - 1)
      BY <1>6, <2>1
    <3> QED
      BY <3>1, <3>2 DEF StateWell, StateRecorded, BackersOf, Fit
  <2>2. CASE q = r /\ n # L + 1
    <3>1. n \in 1..L /\ ~(L <= n - 1)
      BY <1>1, <1>3, <2>2
    <3>2. management'[q][n] = management[q][n] /\ StateWell(q, n) /\ StateRecorded(q, n)
      BY <1>1, <1>3, <2>2, <3>1 DEF Ledger
    <3>3. ManagementUpTo(q, n - 1)' = ManagementUpTo(q, n - 1)
      BY <1>6, <3>1
    <3> QED
      BY <3>2, <3>3 DEF StateWell, StateRecorded, BackersOf, Fit
  <2>3. CASE q = r /\ n = L + 1
    <3>1. n - 1 = L /\ management'[q][n] = x
      BY <1>1, <1>3, <2>3
    <3>2. StateWell(q, n)'
      BY <1>2, <2>3, <3>1 DEF StateWell, Fit
    <3>3. ManagementUpTo(q, n - 1)' = ManagementUpTo(r, L - 1) \cup {e}
      BY <1>5, <2>3, <3>1
    <3>4. Members(x.backers) = BackersOf(ManagementUpTo(q, n - 1)')
      BY <1>2, <3>3
    <3>5. \E g \in ManagementUpTo(q, n - 1)' : g.sn = n - 1 /\ g.said = x.latest /\ g.toad = x.toad
      BY <1>1, <1>2, <3>1, <3>3
    <3> QED
      BY <3>1, <3>2, <3>4, <3>5 DEF StateRecorded, BackersOf, Members
  <2> QED
    BY <2>1, <2>2, <2>3
<1>8. NoneAhead'
  <2> SUFFICES ASSUME NEW a \in accepted \cup {m}, a.event.kind \in ManagementKinds
               PROVE  a.event.sn < Len(management'[a.event.reg])
    BY DEF NoneAhead
  <2>1. CASE a = m
    BY <1>1, <1>3, <2>1 DEF e, r, L
  <2>2. CASE a \in accepted
    <3>1. a.event.reg \in Registries /\ a.event.sn \in Nat
      BY <1>4, <2>2, MessageFields
    <3>2. a.event.sn < Len(management[a.event.reg])
      BY <1>4, <2>2 DEF NoneAhead
    <3>3. CASE a.event.reg = r
      <4>1. a.event.sn < L
        BY <1>1, <3>2, <3>3
      <4> QED
        BY <1>1, <1>3, <3>1, <3>3, <4>1
    <3>4. CASE a.event.reg # r
      BY <1>3, <3>1, <3>2, <3>4
    <3> QED
      BY <3>3, <3>4
  <2> QED
    BY <2>1, <2>2
<1>9. ASSUME NEW a \in accepted PROVE AcceptedInTime(a)'
  <2>1. AcceptedInTime(a)
    BY DEF Ledger
  <2>2. CASE a.event.kind \in Backed \cup ManagementKinds
    <3>1. Governing(a.event) < Len(management[RegistryOf(a.event)])
      BY <2>2, NamesThePast
    <3>2. Governing(a.event) \in Nat
      <4>1. a.event \in TelEvent
        BY <1>4 DEF TelMessage
      <4>2. a.event.sn \in Nat /\ (a.event.kind \in Backed => a.event.ra \in Seal)
        BY <4>1 DEF TelEvent
      <4> QED
        BY <2>2, <4>2 DEF Governing, Seal
    <3>3. RegistryOf(a.event) # r \/ ~(L <= Governing(a.event))
      BY <1>1, <3>1, <3>2
    <3>4. ManagementUpTo(RegistryOf(a.event), Governing(a.event))' =
            ManagementUpTo(RegistryOf(a.event), Governing(a.event))
      BY <1>6, <3>3
    <3> QED
      BY <2>1, <3>4, SameAcceptance
  <2>3. CASE a.event.kind \notin Backed \cup ManagementKinds
    BY <2>3 DEF AcceptedInTime
  <2> QED
    BY <2>2, <2>3
<1>10. AcceptedInTime(m)'
  <2>1. RegistryOf(e) = r /\ Governing(e) = L /\ e.kind \notin Backed
    BY <1>1 DEF RegistryOf, Governing, ManagementKinds, Backed, e, r, L
  <2>2. x.backers \in Seq(Keys) /\ x.toad \in Nat
    BY StateFields
  <2>3. Cardinality(Members(x.backers) \cap Receiptors(m)) >= e.toad
    BY <1>2, <2>2, EnoughAreMembers
  <2>4. BackersOf(ManagementUpTo(r, L)') = Members(x.backers)
    BY <1>2, <1>5
  <2>5. e \in ManagementUpTo(r, L)'
    BY <1>5
  <2>6. \E g \in ManagementUpTo(r, L)' :
          /\ g.sn = L
          /\ Cardinality(BackersOf(ManagementUpTo(r, L)') \cap Receiptors(m)) >= g.toad
    BY <1>1, <2>3, <2>4, <2>5
  <2> QED
    BY <2>1, <2>6 DEF AcceptedInTime, ReceiptedInTime, BackersOf, Receiptors, e
<1> QED
  BY <1>7, <1>8, <1>9, <1>10 DEF Ledger

(* An accepted credential event leaves every registry's account be.        *)
LEMMA CertifyKeepsLedger ==
  ASSUME IInv, Ledger, NEW m \in TelMessage, NEW ev \in Evidence(m.event),
         Verdict(m, ev) = "Ok", m.event.kind \notin ManagementKinds,
         UNCHANGED management, accepted' = accepted \cup {m}
  PROVE  Ledger'
<1>1. \A q, n : ManagementUpTo(q, n)' = ManagementUpTo(q, n)
  BY UpToStands
<1>2. ASSUME NEW q \in Registries, NEW n \in 1..Len(management'[q])
      PROVE  StateWell(q, n)' /\ StateRecorded(q, n)'
  <2>1. StateWell(q, n) /\ StateRecorded(q, n)
    BY <1>2 DEF Ledger
  <2>2. ManagementUpTo(q, n - 1)' = ManagementUpTo(q, n - 1)
    BY <1>1
  <2> QED
    BY <2>1, <2>2 DEF StateWell, StateRecorded, BackersOf, Fit
<1>3. NoneAhead'
  BY DEF Ledger, NoneAhead
<1>4. AcceptedInTime(m)
  BY BackedInTime DEF AcceptedInTime
<1>5. ASSUME NEW a \in accepted \cup {m} PROVE AcceptedInTime(a)'
  <2>1. AcceptedInTime(a)
    BY <1>4 DEF Ledger
  <2>2. ManagementUpTo(RegistryOf(a.event), Governing(a.event))' =
          ManagementUpTo(RegistryOf(a.event), Governing(a.event))
    BY <1>1
  <2> QED
    BY <2>1, <2>2, SameAcceptance
<1> QED
  BY <1>2, <1>3, <1>5 DEF Ledger

LEMMA InitLedger == Init => Ledger
<1> SUFFICES ASSUME Init PROVE Ledger
  OBVIOUS
<1>1. accepted = {} /\ \A r \in Registries : management[r] = <<>>
  BY DEF Init
<1>2. \A r \in Registries : Len(management[r]) = 0
  BY <1>1
<1>3. \A r \in Registries : 1..Len(management[r]) = {}
  BY <1>2
<1> QED
  BY <1>1, <1>3 DEF Ledger, NoneAhead

(* The ledger is the accepted messages and the logs.                       *)
LEMMA LedgerStands ==
  ASSUME Ledger, UNCHANGED <<management, accepted>>
  PROVE  Ledger'
<1>1. \A q, n : ManagementUpTo(q, n)' = ManagementUpTo(q, n)
  BY DEF ManagementUpTo
<1>2. ASSUME NEW q \in Registries, NEW n \in 1..Len(management'[q])
      PROVE  StateWell(q, n)' /\ StateRecorded(q, n)'
  <2>1. StateWell(q, n) /\ StateRecorded(q, n)
    BY <1>2 DEF Ledger
  <2>2. ManagementUpTo(q, n - 1)' = ManagementUpTo(q, n - 1)
    BY <1>1
  <2> QED
    BY <2>1, <2>2 DEF StateWell, StateRecorded, BackersOf, Fit
<1>3. ASSUME NEW a \in accepted PROVE AcceptedInTime(a)'
  <2>1. ManagementUpTo(RegistryOf(a.event), Governing(a.event))' =
          ManagementUpTo(RegistryOf(a.event), Governing(a.event))
    BY <1>1
  <2> QED
    BY <2>1, SameAcceptance DEF Ledger
<1>4. NoneAhead'
  BY DEF Ledger, NoneAhead
<1> QED
  BY <1>2, <1>3, <1>4 DEF Ledger

LEMMA NextLedger == IInv /\ Ledger /\ [Next]_vars => Ledger'
<1> SUFFICES ASSUME IInv, Ledger, [Next]_vars PROVE Ledger'
  OBVIOUS
<1>1. CASE UNCHANGED vars
  BY <1>1, LedgerStands DEF vars, telVars
<1>2. CASE IssuerStep
  BY <1>2, LedgerStands DEF IssuerStep, telVars
<1>3. ASSUME NEW m \in TelMessage, Handle(m) PROVE Ledger'
  <2>1. CASE Admit(m)
    <3>1. PICK ev \in Evidence(m.event) : Verdict(m, ev) = "Ok"
      BY <2>1 DEF Admit, Verdicts
    <3>2. accepted' = accepted \cup {m}
      BY <2>1 DEF Admit
    <3>3. CASE m.event.kind \in ManagementKinds
      <4>1. Manage(m.event)
        BY <2>1, <3>3 DEF Admit, ManagementKinds
      <4> QED
        BY <3>1, <3>2, <3>3, <4>1, ManageKeepsLedger
    <3>4. CASE m.event.kind \notin ManagementKinds
      <4>1. UNCHANGED management
        BY <2>1, <3>4 DEF Admit, ManagementKinds, Certify
      <4> QED
        BY <3>1, <3>2, <3>4, <4>1, CertifyKeepsLedger
    <3> QED
      BY <3>3, <3>4
  <2>2. CASE Await(m) \/ Drop(m)
    BY <2>2, LedgerStands DEF Await, Drop
  <2> QED
    BY <1>3, <2>1, <2>2 DEF Handle
<1> QED
  BY <1>1, <1>2, <1>3, StepHandles DEF IInv

(* The retained states are at every moment what the accepted management    *)
(* events add up to.                                                       *)
THEOREM KeepsLedger == Spec => []Ledger
BY Invariant, InitLedger, NextLedger, PTL DEF Spec

(* Every accepted backed event carries enough receipts of the backers of   *)
(* the management event it names, every management event of those it       *)
(* leaves in force, as read from the accepted events alone and whatever    *)
(* rotations came in between (resolve_backer_authority).                   *)
THEOREM AlwaysReceiptedInTime == Spec => []BackersOfTheirTime
<1>1. Ledger => BackersOfTheirTime
  BY DEF Ledger, AcceptedInTime, BackersOfTheirTime, ManagementKinds
<1> QED
  BY KeepsLedger, <1>1, PTL

-----------------------------------------------------------------------------
(* The builders and the fold keep the same laws.                           *)

(* Rules in a row pass exactly if each does.                               *)
LEMMA InARow ==
  ASSUME NEW a, NEW b
  PROVE  (a && b) = "Ok" <=> a = "Ok" /\ b = "Ok"
BY DEF &&

(* An event is sealed by the anchor made for it.                           *)
LEMMA AnchoringVerifies ==
  ASSUME NEW e, e.said \in Saids, e.sn \in Nat, SealedAs(e).i \in Identifiers \cup Saids,
         NEW issuer \in Identifiers, NEW backers
  PROVE  VerifyAnchor(Endorsed(e, backers), issuer, Anchoring(e, issuer)) = "Ok"
<1> DEFINE m == Endorsed(e, backers)
           anchor == Anchoring(e, issuer)
<1>1. m.event = e /\ m.source = [sn |-> 0, said |-> e.said]
  BY DEF Endorsed
<1>2. /\ anchor.pre = issuer /\ anchor.sn = 0 /\ anchor.said = e.said
      /\ anchor.seals = <<SealedAs(e)>>
  BY DEF Anchoring
<1>3. m.source # None
  BY <1>1, NoneIsNoHead DEF Source
<1>4. anchor # None
  <2>1. SealedAs(e) \in [i : Identifiers \cup Saids, s : Nat, d : Saids]
    BY DEF SealedAs
  <2>2. anchor \in Anchor
    BY <2>1 DEF Anchoring, Anchor
  <2> QED
    BY <2>2, NoneIsNoHead
<1> HIDE DEF m, anchor
<1>5. VerifyAnchor(m, issuer, anchor) = "Ok"
  <2>1. Require(m.source # None /\ anchor # None, "MissingAnchor") = "Ok"
    BY <1>3, <1>4 DEF Require
  <2>2. Require(/\ anchor.pre = issuer /\ anchor.sn = m.source.sn
                /\ anchor.said = m.source.said /\ anchor.seals = <<SealedAs(m.event)>>,
                "InconsistentAnchor") = "Ok"
    BY <1>1, <1>2 DEF Require
  <2> QED
    BY <2>1, <2>2, InARow DEF VerifyAnchor
<1> QED
  BY <1>5 DEF m, anchor

(* A list whose threshold is in its reach passes with all its receipts.    *)
LEMMA AllReceipted ==
  ASSUME NEW backers \in Seq(Keys), NEW toad \in Nat, NEW e,
         CheckBackerThreshold(Len(backers), toad) = "Ok"
  PROVE  AuthenticateBacker(Endorsed(e, backers), backers, toad) = "Ok"
<1>1. Len(backers) \in Nat
  OBVIOUS
<1>2. toad <= Len(backers)
  BY <1>1, FitIsInReach
<1> QED
  BY <1>2, WholeListReceipts

(* The inception of a registry is built exactly when it is accepted        *)
(* (CheckBuildRegistry against InceptRegistry).                            *)
LEMMA InceptionIsAdmitted ==
  ASSUME NEW issuer \in Identifiers, NEW said \in Saids
  PROVE  InceptionAdmitted(issuer, said)
<1> SUFFICES ASSUME NEW wish \in BackerWishes, NEW conf \in SUBSET {"NB"},
                    NEW backers \in {wish.adds, wish.cuts}
             PROVE  LET e == BuildRegistry(said, issuer, conf, backers, wish.toad)
                        judged == InceptRegistry(Endorsed(e, backers), Issuer(issuer), Anchoring(e, issuer))
                    IN  judged = "Ok" <=> CheckBuildRegistry(conf, backers, wish.toad) = "Ok"
  BY DEF InceptionAdmitted
<1> DEFINE e == BuildRegistry(said, issuer, conf, backers, wish.toad)
           m == Endorsed(e, backers)
           judged == InceptRegistry(m, Issuer(issuer), Anchoring(e, issuer))
           Holds == /\ "NB" \in conf => backers = <<>>
                    /\ Unique(backers)
                    /\ CheckBackerThreshold(Len(backers), wish.toad) = "Ok"
<1>1. backers \in Seq(Keys) /\ wish.toad \in Nat
  BY TelHostAssumption
<1>2. /\ m.event = e /\ e.kind = "vcp" /\ e.said = said /\ e.issuer = issuer
      /\ e.conf = conf /\ e.adds = backers /\ e.toad = wish.toad /\ e.sn = 0
  BY DEF Endorsed, BuildRegistry, BuiltTel
<1>3. IssuerIs(Issuer(issuer), issuer) = "Ok"
  BY DEF IssuerIs, Issuer, Require
<1>4. VerifyAnchor(m, issuer, Anchoring(e, issuer)) = "Ok"
  <2>1. SealedAs(e).i = said
    BY <1>2 DEF SealedAs
  <2> HIDE DEF e
  <2> QED
    BY <1>2, <2>1, AnchoringVerifies
<1>5. CheckBackerThreshold(Len(backers), wish.toad) = "Ok" =>
        AuthenticateBacker(m, backers, wish.toad) = "Ok"
  BY <1>1, AllReceipted
<1>6. CheckBuildRegistry(conf, backers, wish.toad) = "Ok" <=> Holds
  <2>1. CheckBackerRelations(backers, <<>>, <<>>) = "Ok" <=> Unique(backers)
    <3>1. Members(<<>>) = {} /\ Unique(<<>>)
      BY DEF Members, Unique
    <3>2. CheckBackerRelations(backers, <<>>, <<>>) = "Ok" <=>
            /\ Unique(backers) /\ Unique(<<>>) /\ Unique(<<>>) /\ Members(<<>>) \cap Members(<<>>) = {}
            /\ Members(<<>>) \subseteq Members(backers)
            /\ Members(<<>>) \cap Members(backers) = {}
      BY InARow DEF CheckBackerRelations, Require
    <3> QED
      BY <3>1, <3>2
  <2>2. Require("NB" \in conf => backers = <<>>, "NoBackersWithBackers") = "Ok"
          <=> ("NB" \in conf => backers = <<>>)
    BY DEF Require
  <2> QED
    BY <2>1, <2>2, InARow DEF CheckBuildRegistry
<1> HIDE DEF e, m
<1>7. judged = "Ok" <=> Holds
  <2>1. Require(IsBackerless(e) => e.adds = <<>>, "NoBackersWithBackers") = "Ok"
          <=> ("NB" \in conf => backers = <<>>)
    BY <1>2 DEF IsBackerless, Require
  <2>2. CheckMembers(e.adds) = "Ok" <=> Unique(backers)
    BY <1>2 DEF CheckMembers, Require
  <2>3. CheckBackerThreshold(Len(backers), wish.toad) = "Ok" =>
          (IF e.adds = <<>> THEN "Ok" ELSE AuthenticateBacker(m, e.adds, e.toad)) = "Ok"
    BY <1>2, <1>5
  <2>4. judged = "Ok" <=>
          /\ IssuerIs(Issuer(issuer), issuer) = "Ok"
          /\ Require(IsBackerless(e) => e.adds = <<>>, "NoBackersWithBackers") = "Ok"
          /\ CheckMembers(e.adds) = "Ok"
          /\ CheckBackerThreshold(Len(e.adds), e.toad) = "Ok"
          /\ VerifyAnchor(m, issuer, Anchoring(e, issuer)) = "Ok"
          /\ (IF e.adds = <<>> THEN "Ok" ELSE AuthenticateBacker(m, e.adds, e.toad)) = "Ok"
    BY <1>2, InARow DEF InceptRegistry
  <2> HIDE DEF judged
  <2> QED
    BY <1>2, <1>3, <1>4, <2>1, <2>2, <2>3, <2>4
<1> QED
  BY <1>6, <1>7 DEF e, m

(* A rotation of the backers is built exactly when it is accepted, but for *)
(* its threshold (CheckBuildBackers against Rotate).                       *)
LEMMA RotationIsAdmitted ==
  ASSUME NEW r \in Management, Unique(r.backers), ~IsBackerless(r), r.sn < MaxSn,
         NEW said \in Saids
  PROVE  RotationAdmitted(r, said)
<1> SUFFICES ASSUME NEW wish \in BackerWishes
             PROVE  LET e == BuildBackers(said, r.id, r.latest, r.sn + 1, wish.cuts, wish.adds, wish.toad)
                        left == UpdatedBackers(r, e)
                        judged == Rotate(r, Endorsed(e, left), Issuer(r.issuer), Anchoring(e, r.issuer))
                        Built == CheckBuildBackers(r.sn + 1, r.backers, wish.cuts, wish.adds) = "Ok"
                        Bounded == CheckBackerThreshold(Len(left), wish.toad) = "Ok"
                    IN  judged = "Ok" <=> Built /\ Bounded
  BY DEF RotationAdmitted
<1> DEFINE e == BuildBackers(said, r.id, r.latest, r.sn + 1, wish.cuts, wish.adds, wish.toad)
           left == UpdatedBackers(r, e)
           m == Endorsed(e, left)
           anchor == Anchoring(e, r.issuer)
           judged == Rotate(r, m, Issuer(r.issuer), anchor)
           Bounded == CheckBackerThreshold(Len(left), wish.toad) = "Ok"
           Related == /\ Unique(wish.cuts) /\ Unique(wish.adds)
                      /\ Members(wish.cuts) \cap Members(wish.adds) = {}
                      /\ Members(wish.cuts) \subseteq Members(r.backers)
                      /\ Members(wish.adds) \cap Members(r.backers) = {}
<1>1. /\ r.id \in Registries /\ r.issuer \in Identifiers /\ r.sn \in Nat /\ MaxSn \in Nat
      /\ r.backers \in Seq(Keys) /\ wish.adds \in Seq(Keys) /\ wish.toad \in Nat
  BY StateFields, TelHostAssumption, KeyStateAssumption
<1>2. /\ m.event = e /\ e.kind = "vrt" /\ e.said = said /\ e.reg = r.id /\ e.sn = r.sn + 1
      /\ e.prior = r.latest /\ e.cuts = wish.cuts /\ e.adds = wish.adds /\ e.toad = wish.toad
  BY DEF Endorsed, BuildBackers, BuiltTel
<1> HIDE DEF e
<1>3. left \in Seq(Keys)
  BY <1>1, <1>2, UpdatedBackersMembers
<1> HIDE DEF left
<1>4. VerifyAnchor(m, r.issuer, anchor) = "Ok"
  <2>1. SealedAs(e).i \in Identifiers
    BY <1>1, <1>2, RegistryAssumption DEF SealedAs, Identifiers
  <2>2. e.sn \in Nat
    BY <1>1, <1>2
  <2> QED
    BY <1>1, <1>2, <2>1, <2>2, AnchoringVerifies
<1>5. Bounded => AuthenticateBacker(m, left, wish.toad) = "Ok"
  BY <1>1, <1>3, AllReceipted
<1> HIDE DEF m, anchor
<1>6. FollowsManagement(r, e) = "Ok"
  <2>1. /\ r.sn + 1 <= MaxSn /\ e.sn <= r.sn + 1 /\ e.sn >= r.sn + 1
    BY <1>1, <1>2
  <2>2. InOrder(e.sn, r.sn + 1) = "Ok"
    BY <2>1, InARow DEF InOrder, Require
  <2> QED
    BY <1>2, <2>2, InARow DEF FollowsManagement, Require
<1>7. AuthenticateIssuer(r, m, Issuer(r.issuer), anchor) = "Ok"
  <2>1. IssuerIs(Issuer(r.issuer), r.issuer) = "Ok"
    BY DEF IssuerIs, Issuer, Require
  <2> QED
    BY <1>4, <2>1, InARow DEF AuthenticateIssuer
<1>8. ReceiptedAfter(r, m) = "Ok" <=> Related /\ Bounded
  <2>1. ResolveBackers(r, e) = "Ok" <=> Related
    BY <1>2 DEF ResolveBackers, Require
  <2>2. ReceiptedAfter(r, m) = "Ok" <=>
          /\ ResolveBackers(r, e) = "Ok"
          /\ CheckBackerThreshold(Len(left), e.toad) = "Ok"
          /\ (IF left = <<>> THEN "Ok" ELSE AuthenticateBacker(m, left, e.toad)) = "Ok"
    BY <1>2, InARow DEF ReceiptedAfter, left
  <2> HIDE DEF Related
  <2> QED
    BY <1>2, <1>5, <2>1, <2>2
<1>9. CheckBuildBackers(r.sn + 1, r.backers, wish.cuts, wish.adds) = "Ok" <=> Related
  <2>1. CheckBackerRelations(r.backers, wish.cuts, wish.adds) = "Ok" <=> Related
    BY InARow DEF CheckBackerRelations, Require
  <2>2. Require(r.sn + 1 >= 1, "SnBelowMinimum") = "Ok"
    BY <1>1 DEF Require
  <2> HIDE DEF Related
  <2> QED
    BY <2>1, <2>2, InARow DEF CheckBuildBackers
<1> HIDE DEF Related, Bounded
<1>10. judged = "Ok" <=> Related /\ Bounded
  BY <1>2, <1>6, <1>7, <1>8, InARow DEF Rotate
<1> QED
  BY <1>9, <1>10 DEF e, left, m, anchor, Bounded

(* The next event of a credential is accepted when it is built, until the  *)
(* credential is revoked (BuildIssue to BuildBackedRevoke against          *)
(* InceptCredential and IngestCredential).                                 *)
LEMMA CredentialIsAdmitted ==
  ASSUME IInv, NEW r \in Management, Fit(r.backers, r.toad), NEW c \in Credentials,
         NEW said \in Saids
  PROVE  CredentialAdmitted(r, c, said)
<1> DEFINE here == [i |-> r.id, s |-> r.sn, d |-> r.latest]
           recorded == credentials[<<r.id, c>>]
           e == NextOf(r, c, said)
           m == Endorsed(e, r.backers)
           ev == IF IsBackerless(r) THEN Issuer(r.issuer) ELSE BackerNow
           anchor == Anchoring(e, r.issuer)
<1>1. /\ r.id \in Registries /\ r.issuer \in Identifiers /\ r.sn \in Nat /\ r.latest \in Saids
      /\ r.backers \in Seq(Keys) /\ r.toad \in Nat
      /\ Registries \subseteq Digestive /\ Credentials \subseteq Digestive
      /\ MaxSn \in Nat /\ MaxSn # 0
  BY StateFields, RegistryAssumption, KeyStateAssumption
<1>2. recorded # None =>
        /\ recorded.registry = r.id /\ recorded.credential = c /\ recorded.sn \in {0, 1}
  BY <1>1 DEF IInv, HeadWell
<1>3. here \in Seal
  BY <1>1 DEF Seal, Identifiers
<1>4. here # None /\ here.i = r.id /\ here.s = r.sn /\ here.d = r.latest
  BY <1>3, NoneIsNoHead
<1>5. /\ e.said = said /\ e.cred = c
      /\ e.kind = IF recorded = None THEN IF IsBackerless(r) THEN "iss" ELSE "bis"
                  ELSE IF IsBackerless(r) THEN "rev" ELSE "brv"
      /\ e.sn = IF recorded = None THEN 0 ELSE 1
      /\ recorded = None \/ IsBackerless(r) => e.reg = r.id
      /\ recorded # None => e.prior = recorded.head
      /\ ~IsBackerless(r) => e.ra = here
  <2> HIDE DEF recorded, here
  <2>1. e = CASE recorded = None /\ IsBackerless(r) -> BuildIssue(said, c, r.id)
              [] recorded = None /\ ~IsBackerless(r) -> BuildBackedIssue(said, c, r.id, here)
              [] recorded # None /\ IsBackerless(r) -> BuildRevoke(said, c, r.id, recorded.head)
              [] OTHER -> BuildBackedRevoke(said, c, recorded.head, here)
    BY DEF NextOf, recorded, here
  <2> HIDE DEF e
  <2>2. CASE recorded = None /\ IsBackerless(r)
    BY <2>1, <2>2 DEF BuildIssue, BuiltTel
  <2>3. CASE recorded = None /\ ~IsBackerless(r)
    BY <2>1, <2>3 DEF BuildBackedIssue, BuiltTel
  <2>4. CASE recorded # None /\ IsBackerless(r)
    BY <2>1, <2>4 DEF BuildRevoke, BuiltTel
  <2>5. CASE recorded # None /\ ~IsBackerless(r)
    BY <2>1, <2>5 DEF BuildBackedRevoke, BuiltTel
  <2> QED
    BY <2>2, <2>3, <2>4, <2>5
<1>6. m.event = e
  BY DEF Endorsed
<1> HIDE DEF e, here, recorded
<1>7. VerifyAnchor(m, r.issuer, anchor) = "Ok"
  <2>1. SealedAs(e).i = c
    BY <1>5 DEF SealedAs
  <2>2. c \in Identifiers \cup Saids /\ e.sn \in Nat
    BY <1>1, <1>5 DEF Identifiers
  <2> QED
    BY <1>1, <1>5, <2>1, <2>2, AnchoringVerifies
<1>8. ~IsBackerless(r) => AuthenticateBacker(m, r.backers, r.toad) = "Ok"
  BY <1>1, AllReceipted DEF Fit
<1> HIDE DEF m, anchor
<1>9. Authenticate(r, m, ev, anchor) = "Ok"
  <2>1. CASE IsBackerless(r)
    <3>1. e.kind \notin Backed /\ ev = Issuer(r.issuer)
      BY <1>5, <2>1 DEF Backed
    <3>2. IssuerIs(ev, r.issuer) = "Ok"
      BY <3>1 DEF IssuerIs, Issuer, Require
    <3>3. AuthenticateIssuer(r, m, ev, anchor) = "Ok"
      BY <1>7, <3>2, InARow DEF AuthenticateIssuer
    <3> QED
      BY <1>6, <3>1, <3>3 DEF Authenticate
  <2>2. CASE ~IsBackerless(r)
    <3>1. e.kind \in Backed /\ ev = BackerNow /\ e.ra = here
      BY <1>5, <2>2 DEF Backed
    <3>2. AuthorityOf(r, ev) = r /\ MatchesEvidence(r, e.ra, ev) = "Ok"
      BY <1>4, <3>1 DEF AuthorityOf, MatchesEvidence, BackerNow, Require
    <3>3. ResolveBackerAuthority(r, e.ra, ev) = "Ok"
      BY <1>4, <3>1, <3>2, InARow DEF ResolveBackerAuthority, Require
    <3>4. CheckMembers(r.backers) = "Ok" /\ CheckBackerThreshold(Len(r.backers), r.toad) = "Ok"
      BY DEF Fit, CheckMembers, Require
    <3>5. AuthenticateBacked(r, m, ev, anchor) = "Ok"
      BY <1>6, <1>7, <1>8, <2>2, <3>2, <3>3, <3>4, InARow DEF AuthenticateBacked
    <3> QED
      BY <1>6, <3>1, <3>5 DEF Authenticate
  <2> QED
    BY <2>1, <2>2
<1>10. FitsRegistry(e, r) = "Ok"
  BY <1>5 DEF FitsRegistry, Backed, Require
<1> HIDE DEF ev
<1>11. CASE recorded = None
  <2>1. /\ Require(e.kind \in Issuances, "NotCredentialInception") = "Ok"
        /\ Require(e.reg = r.id, "InconsistentRegistry") = "Ok"
    BY <1>5, <1>11 DEF Issuances, Require
  <2>2. InOrder(e.sn, 0) = "Ok"
    <3>1. 0 <= MaxSn /\ e.sn <= 0 /\ e.sn >= 0
      BY <1>1, <1>5, <1>11
    <3> QED
      BY <3>1, InARow DEF InOrder, Require
  <2>3. InceptCredential(r, m, ev, anchor) = "Ok"
    BY <1>6, <1>9, <1>10, <2>1, <2>2, InARow DEF InceptCredential
  <2> QED
    BY <1>11, <2>3 DEF CredentialAdmitted, e, m, ev, anchor, recorded
<1>12. CASE recorded # None
  <2>1. BelongsTo(recorded, r, e) = "Ok"
    <3>1. NamesRegistry(e, r.id)
      BY <1>4, <1>5, <1>12 DEF NamesRegistry
    <3>2. e.kind \in {"rev", "brv"} /\ recorded.registry = r.id
      BY <1>2, <1>5, <1>12
    <3> QED
      BY <1>10, <3>1, <3>2, InARow DEF BelongsTo, Require
  <2>2. FollowsCredential(recorded, e) = "Ok" <=> recorded.sn = 0
    <3>1. InOrder(e.sn, recorded.sn + 1) = "Ok" <=>
            recorded.sn + 1 <= MaxSn /\ e.sn <= recorded.sn + 1 /\ e.sn >= recorded.sn + 1
      BY InARow DEF InOrder, Require
    <3>2. InOrder(e.sn, recorded.sn + 1) = "Ok" <=> recorded.sn = 0
      BY <1>1, <1>2, <1>5, <1>12, <3>1
    <3>3. e.cred = recorded.credential /\ e.prior = recorded.head
      BY <1>2, <1>5, <1>12
    <3> QED
      BY <3>2, <3>3, InARow DEF FollowsCredential, Require
  <2>3. IngestCredential(recorded, r, m, ev, anchor) = "Ok" <=> recorded.sn = 0
    BY <1>6, <1>9, <2>1, <2>2, InARow DEF IngestCredential
  <2>4. Status(recorded) = "Issued" <=> recorded.sn = 0
    BY DEF Status
  <2> QED
    BY <1>12, <2>3, <2>4 DEF CredentialAdmitted, e, m, ev, anchor, recorded
<1> QED
  BY <1>11, <1>12

(* What an issuer builds for the state a registry or credential is in is   *)
(* admitted, and what the builder refuses would have been refused: the     *)
(* rules of keri-codec's builders are those of the fold in keri.           *)
THEOREM BuiltIsAlwaysAdmitted == Spec => []BuiltIsAdmitted
<1>1. IInv /\ Ledger => BuiltIsAdmitted
  <2> SUFFICES ASSUME IInv, Ledger, NEW h \in Heads
               PROVE  LET said == CHOOSE s \in Saids : TRUE
                      IN  /\ InceptionAdmitted(h.issuer, said)
                          /\ ~IsBackerless(h) /\ h.sn < MaxSn => RotationAdmitted(h, said)
                          /\ \A c \in Credentials : CredentialAdmitted(h, c, said)
    BY DEF BuiltIsAdmitted
  <2> DEFINE said == CHOOSE s \in Saids : TRUE
  <2>1. PICK r \in Registries : management[r] # <<>> /\ h = management[r][Len(management[r])]
    BY DEF Heads
  <2>2. h \in Management /\ Fit(h.backers, h.toad)
    BY <2>1, HeadIsLast DEF Ledger, StateWell
  <2>3. h.issuer \in Identifiers /\ h.latest \in Saids
    BY <2>2, StateFields
  <2>4. said \in Saids
    BY <2>3
  <2> HIDE DEF said
  <2>5. Unique(h.backers)
    BY <2>2 DEF Fit
  <2>6. InceptionAdmitted(h.issuer, said)
    BY <2>3, <2>4, InceptionIsAdmitted
  <2>7. ~IsBackerless(h) /\ h.sn < MaxSn => RotationAdmitted(h, said)
    BY <2>2, <2>4, <2>5, RotationIsAdmitted
  <2>8. \A c \in Credentials : CredentialAdmitted(h, c, said)
    BY <2>2, <2>4, CredentialIsAdmitted
  <2> QED
    BY <2>6, <2>7, <2>8 DEF said
<1> QED
  BY Invariant, KeepsLedger, <1>1, PTL

-----------------------------------------------------------------------------
(* The third inductive invariant: all events of the issuer's log have one  *)
(* prefix, which no recovery changes, and every registry has it as its     *)
(* issuer and keeps the configuration it was founded with.                 *)

LogWell ==
  /\ log \in Seq(IssuerEvents)
  /\ \A n \in 1..Len(log) : log[n].pre = log[1].pre

FoundedBy(r, n) ==
  /\ log # <<>>
  /\ management[r][n].issuer = log[1].pre
  /\ management[r][n].conf = management[r][1].conf

OneIssuer ==
  /\ LogWell
  /\ \A r \in Registries : \A n \in 1..Len(management[r]) : FoundedBy(r, n)

(* Whatever is appended or recovered, the log keeps its first event.       *)
LEMMA LogKeepsFirst ==
  ASSUME LogWell, Kel!Next
  PROVE  LogWell' /\ (log # <<>> => log' # <<>> /\ log'[1].pre = log[1].pre)
<1>1. log \in Seq(IssuerEvents) /\ Len(log) \in Nat /\ \A n \in 1..Len(log) : log[n].pre = log[1].pre
  BY DEF LogWell
<1>2. PICK e \in IssuerEvents : Kel!Found(e) \/ Kel!Extend(e) \/ Kel!Recover(e)
  BY DEF Kel!Next
<1>3. CASE Kel!Found(e)
  <2>1. log = <<>> /\ log' = <<e>>
    BY <1>3 DEF Kel!Found
  <2>2. log' \in Seq(IssuerEvents) /\ Len(log') = 1
    BY <2>1
  <2> QED
    BY <2>1, <2>2 DEF LogWell
<1>4. CASE Kel!Extend(e)
  <2>1. log # <<>> /\ e.pre = log[1].pre /\ log' = Append(log, e)
    BY <1>4 DEF Kel!Extend, Kel!ChainsTo
  <2>2. /\ log' \in Seq(IssuerEvents) /\ Len(log') = Len(log) + 1 /\ log' # <<>>
        /\ \A n \in 1..Len(log) : log'[n] = log[n]
        /\ log'[Len(log) + 1] = e /\ 1 \in 1..Len(log)
    BY <1>1, <2>1
  <2>3. log'[1] = log[1]
    BY <2>2
  <2>4. ASSUME NEW n \in 1..Len(log') PROVE log'[n].pre = log[1].pre
    <3>1. CASE n \in 1..Len(log)
      BY <1>1, <2>2, <3>1
    <3>2. CASE n = Len(log) + 1
      BY <2>1, <2>2, <3>2
    <3> QED
      BY <1>1, <2>2, <3>1, <3>2
  <2> QED
    BY <2>2, <2>3, <2>4 DEF LogWell
<1>5. CASE Kel!Recover(e)
  <2> DEFINE kept == SubSeq(log, 1, e.sn)
  <2>1. e.sn \in 1..(Len(log) - 1) /\ e.pre = kept[1].pre /\ log' = Append(kept, e)
    BY <1>5 DEF Kel!Recover, Kel!ChainsTo
  <2>2. /\ e.sn \in Nat /\ 1 \in 1..e.sn /\ e.sn <= Len(log)
    BY <1>1, <2>1
  <2>3. /\ kept \in Seq(IssuerEvents) /\ Len(kept) = e.sn
        /\ \A n \in 1..e.sn : kept[n] = log[n]
    BY <1>1, <2>1, <2>2
  <2> HIDE DEF kept
  <2>4. /\ log' \in Seq(IssuerEvents) /\ Len(log') = e.sn + 1 /\ log' # <<>>
        /\ \A n \in 1..e.sn : log'[n] = kept[n]
        /\ log'[e.sn + 1] = e
    BY <2>1, <2>2, <2>3
  <2>5. log'[1] = log[1] /\ e.pre = log[1].pre
    BY <2>1, <2>2, <2>3, <2>4
  <2>6. ASSUME NEW n \in 1..Len(log') PROVE log'[n].pre = log[1].pre
    <3>1. CASE n \in 1..e.sn
      <4>1. n \in 1..Len(log)
        BY <1>1, <2>2, <3>1
      <4> QED
        BY <1>1, <2>3, <2>4, <3>1, <4>1
    <3>2. CASE n = e.sn + 1
      BY <2>4, <2>5, <3>2
    <3> QED
      BY <2>2, <2>4, <3>1, <3>2
  <2> QED
    BY <2>4, <2>5, <2>6 DEF LogWell
<1> QED
  BY <1>2, <1>3, <1>4, <1>5

(* A management event is accepted from its registry's issuer, and leaves   *)
(* the registry with the configuration it has.                             *)
LEMMA ManageKeepsIssuer ==
  ASSUME IInv, OneIssuer, NEW m \in TelMessage, NEW ev \in Evidence(m.event),
         Verdict(m, ev) = "Ok", m.event.kind \in ManagementKinds, Manage(m.event),
         UNCHANGED log
  PROVE  OneIssuer'
<1> DEFINE e == m.event
           r == e.reg
           L == Len(management[r])
           x == IF e.kind = "vcp" THEN SeedRegistry(e) ELSE RotateRegistry(Current(e), e)
<1>1. e.kind \in TelKinds /\ r \in Registries
  BY MessageFields
<1>2. RegistryOf(e) = r /\ Chain(e) = management[r]
  BY <1>1 DEF RegistryOf, Chain, ManagementKinds
<1>3. management' = [management EXCEPT ![r] = Append(management[r], x)]
  BY <1>2 DEF Manage
<1>4. L \in Nat /\ Sequential(management[r]) /\ (management[r] = <<>> <=> L = 0)
  <2>1. Sequential(management[r])
    BY <1>1 DEF IInv, RetainedWell
  <2> QED
    BY <2>1 DEF Sequential
<1>5. /\ log # <<>> /\ x.issuer = log[1].pre
      /\ management[r] # <<>> => x.conf = management[r][1].conf
  <2>1. CASE e.kind = "vcp"
    <3>1. management[r] = <<>> /\ InceptRegistry(m, ev, AnchorOf(m)) = "Ok"
      BY <1>2, <2>1 DEF Verdict, IngestRegistry, Issuances
    <3>2. IssuerIs(ev, e.issuer) = "Ok"
      BY <3>1, BothPass DEF InceptRegistry
    <3>3. log # <<>> /\ ev = Issuer(log[1].pre)
      BY <2>1, <3>2 DEF Evidence, Backed, IssuerIs, Missing
    <3>4. e.issuer = log[1].pre
      BY <3>2, <3>3 DEF IssuerIs, Issuer, Require
    <3> QED
      BY <2>1, <3>1, <3>3, <3>4 DEF SeedRegistry
  <2>2. CASE e.kind = "vrt"
    <3>1. management[r] # <<>>
      BY <1>2, <2>2 DEF Verdict
    <3>2. L \in 1..L /\ Current(e) = management[r][L]
      BY <1>1, <1>2, <3>1, HeadIsLast DEF Current
    <3>3. FoundedBy(r, L)
      BY <1>1, <3>2 DEF OneIssuer
    <3> QED
      BY <2>2, <3>2, <3>3 DEF RotateRegistry, FoundedBy
  <2> QED
    BY <2>1, <2>2 DEF ManagementKinds
<1> HIDE DEF x
<1>6. /\ Len(management'[r]) = L + 1 /\ management'[r][L + 1] = x
      /\ \A n \in 1..L : management'[r][n] = management[r][n]
      /\ \A q \in Registries \ {r} : management'[q] = management[q]
  <2>1. /\ management'[r] = Append(management[r], x)
        /\ \A q \in Registries \ {r} : management'[q] = management[q]
    BY <1>1, <1>3 DEF IInv
  <2> QED
    BY <1>4, <2>1, GrowsByOne
<1> HIDE DEF e, r, L
<1>7. ASSUME NEW q \in Registries, NEW n \in 1..Len(management'[q]) PROVE FoundedBy(q, n)'
  <2>1. CASE q # r
    BY <1>6, <1>7, <2>1 DEF OneIssuer, FoundedBy
  <2>2. CASE q = r /\ n # L + 1
    <3>1. n \in 1..L /\ 1 \in 1..L
      BY <1>4, <1>6, <2>2
    <3>2. FoundedBy(q, n) /\ management'[q][n] = management[q][n]
          /\ management'[q][1] = management[q][1]
      BY <1>6, <2>2, <3>1 DEF OneIssuer, L
    <3> QED
      BY <3>2 DEF FoundedBy
  <2>3. CASE q = r /\ n = L + 1
    <3>1. management'[q][1].conf = x.conf
      <4>1. CASE L = 0
        BY <1>6, <2>3, <4>1
      <4>2. CASE L # 0
        <5>1. 1 \in 1..L /\ management[r] # <<>>
          BY <1>4, <4>2
        <5> QED
          BY <1>5, <1>6, <2>3, <5>1
      <4> QED
        BY <4>1, <4>2
    <3> QED
      BY <1>5, <1>6, <2>3, <3>1 DEF FoundedBy
  <2> QED
    BY <2>1, <2>2, <2>3
<1> QED
  BY <1>7 DEF OneIssuer, LogWell

LEMMA InitOneIssuer == Init => OneIssuer
<1> SUFFICES ASSUME Init PROVE OneIssuer
  OBVIOUS
<1>1. \A r \in Registries : 1..Len(management[r]) = {}
  <2>1. \A r \in Registries : management[r] = <<>>
    BY DEF Init
  <2>2. \A r \in Registries : Len(management[r]) = 0
    BY <2>1
  <2> QED
    BY <2>2
<1>2. LogWell
  <2>1. log = <<>> \/ \E e \in IssuerEvents : log = <<e>>
    BY DEF Init, Kel!Init
  <2>2. CASE log = <<>>
    <3>1. log \in Seq(IssuerEvents) /\ Len(log) = 0
      BY <2>2
    <3> QED
      BY <3>1 DEF LogWell
  <2>3. ASSUME NEW e \in IssuerEvents, log = <<e>> PROVE LogWell
    <3>1. log \in Seq(IssuerEvents) /\ Len(log) = 1
      BY <2>3
    <3> QED
      BY <3>1 DEF LogWell
  <2> QED
    BY <2>1, <2>2, <2>3
<1> QED
  BY <1>1, <1>2 DEF OneIssuer

LEMMA NextOneIssuer == IInv /\ OneIssuer /\ [Next]_vars => OneIssuer'
<1> SUFFICES ASSUME IInv, OneIssuer, [Next]_vars PROVE OneIssuer'
  OBVIOUS
<1>1. CASE UNCHANGED <<log, management>>
  BY <1>1 DEF OneIssuer, LogWell, FoundedBy
<1>2. CASE IssuerStep
  <2>1. LogWell' /\ (log # <<>> => log' # <<>> /\ log'[1].pre = log[1].pre)
    BY <1>2, LogKeepsFirst DEF IssuerStep, OneIssuer
  <2>2. management' = management
    BY <1>2 DEF IssuerStep, telVars
  <2> QED
    BY <2>1, <2>2 DEF OneIssuer, FoundedBy
<1>3. ASSUME NEW m \in TelMessage, Handle(m), UNCHANGED log PROVE OneIssuer'
  <2>1. CASE UNCHANGED management
    BY <1>1, <1>3, <2>1
  <2>2. CASE Admit(m) /\ m.event.kind \in ManagementKinds
    <3>1. PICK ev \in Evidence(m.event) : Verdict(m, ev) = "Ok"
      BY <2>2 DEF Admit, Verdicts
    <3>2. Manage(m.event)
      BY <2>2 DEF Admit, ManagementKinds
    <3> QED
      BY <1>3, <2>2, <3>1, <3>2, ManageKeepsIssuer
  <2> QED
    BY <1>3, <2>1, <2>2 DEF Handle, Admit, Await, Drop, Certify, ManagementKinds
<1> QED
  BY <1>1, <1>2, <1>3, StepHandles DEF IInv, vars, telVars

-----------------------------------------------------------------------------
(* What is dropped is hopeless, and stays so.                              *)

(* The verdicts that more evidence may change, beside acceptance.          *)
Patient ==
  {"Ok", "OutOfOrderFuture", "MissingRegistry", "MissingIssuer", "MissingAnchor",
   "MissingBackerReceipts", "UnresolvedAnchor"}

(* The event at the claimed coordinate seals something else.               *)
WrongSeal(m) ==
  \E k \in IssuerEvents :
    m.source = [sn |-> k.sn, said |-> k.said] /\ k.seals # <<SealedAs(m.event)>>

(* An inception that no registry can be founded by.                        *)
Unfounded(e) ==
  \/ ~(IsBackerless(e) => e.adds = <<>>)
  \/ ~Fit(e.adds, e.toad)
  \/ log # <<>> /\ e.issuer # log[1].pre

(* A rotation that this head refuses, and every head after it.             *)
HeadRefuses(h, e) ==
  \/ e.sn <= h.sn
  \/ IsBackerless(h)
  \/ h.sn >= MaxSn
  \/ /\ e.sn = h.sn + 1
     /\ ~(/\ e.prior = h.latest
          /\ ResolveBackers(h, e) = "Ok"
          /\ CheckBackerThreshold(Len(UpdatedBackers(h, e)), e.toad) = "Ok")

(* A credential event of another kind or registry than is recorded, or one *)
(* whose place is taken.                                                   *)
Misplaced(e) ==
  \/ (e.kind \in Backed) = IsBackerless(Current(e))
  \/ e.kind \in Backed /\ e.ra.i # RegistryOf(e)
  \/ /\ Recorded(e) # None
     /\ e.kind \in Issuances \/ Recorded(e).sn = 1 \/ e.prior # Recorded(e).head

Hopeless(m) ==
  LET e == m.event
  IN  \/ WrongSeal(m)
      \/ e.kind = "vcp" /\ (Chain(e) # <<>> \/ Unfounded(e))
      \/ e.kind = "vrt" /\ Chain(e) # <<>> /\ HeadRefuses(Current(e), e)
      \/ e.kind \notin ManagementKinds /\ Chain(e) # <<>> /\ Misplaced(e)

(* Rules in a row wait if each that is reached does.                       *)
LEMMA PatientRow ==
  ASSUME NEW a \in Patient, NEW b, a = "Ok" => b \in Patient
  PROVE  (a && b) \in Patient
BY DEF &&

(* Where a message that is routed to a registry finds its states.          *)
LEMMA ChainFields ==
  ASSUME IInv, Ledger, OneIssuer, NEW e, Chain(e) # <<>>
  PROVE  LET r == RegistryOf(e)
             h == Current(e)
         IN  /\ r \in Registries /\ Chain(e) = management[r]
             /\ h \in Management /\ h.id = r /\ Fit(h.backers, h.toad)
             /\ h.sn = Len(management[r]) - 1 /\ Len(management[r]) \in Nat
             /\ Len(management[r]) \in 1..Len(management[r])
             /\ h = management[r][Len(management[r])]
             /\ h.conf = management[r][1].conf
             /\ log # <<>> /\ h.issuer = log[1].pre
<1>1. RegistryOf(e) \in Registries /\ Chain(e) = management[RegistryOf(e)]
  BY DEF Chain
<1>2. /\ Len(management[RegistryOf(e)]) \in Nat
      /\ Len(management[RegistryOf(e)]) \in 1..Len(management[RegistryOf(e)])
  BY <1>1, HeadIsLast
<1>3. Current(e) = management[RegistryOf(e)][Len(management[RegistryOf(e)])]
  BY <1>1 DEF Current
<1>4. /\ StateWell(RegistryOf(e), Len(management[RegistryOf(e)]))
      /\ FoundedBy(RegistryOf(e), Len(management[RegistryOf(e)]))
  BY <1>1, <1>2 DEF Ledger, OneIssuer
<1> QED
  BY <1>1, <1>2, <1>3, <1>4 DEF StateWell, FoundedBy

(* An anchor that is found seals the event, or is a wrong one.             *)
LEMMA AnchorWaits ==
  ASSUME OneIssuer, NEW m, ~WrongSeal(m), NEW issuer, log # <<>> => issuer = log[1].pre
  PROVE  VerifyAnchor(m, issuer, AnchorOf(m)) \in Patient
<1> DEFINE anchor == AnchorOf(m)
           Found == m.source # None /\ anchor # None
           Right == /\ anchor.pre = issuer /\ anchor.sn = m.source.sn
                    /\ anchor.said = m.source.said /\ anchor.seals = <<SealedAs(m.event)>>
<1>1. Found => Right
  <2> SUFFICES ASSUME Found PROVE Right
    OBVIOUS
  <2>1. \E k \in Members(log) : m.source = [sn |-> k.sn, said |-> k.said]
    BY DEF AnchorOf
  <2>2. anchor \in Members(log) /\ m.source = [sn |-> anchor.sn, said |-> anchor.said]
    BY <2>1 DEF AnchorOf
  <2>3. PICK n \in DOMAIN log : anchor = log[n]
    BY <2>2 DEF Members
  <2> HIDE DEF anchor
  <2>4. log \in Seq(IssuerEvents) /\ n \in 1..Len(log) /\ log # <<>>
    BY <2>3 DEF OneIssuer, LogWell
  <2>5. anchor \in IssuerEvents /\ anchor.pre = log[1].pre
    BY <2>3, <2>4 DEF OneIssuer, LogWell
  <2>6. anchor.seals = <<SealedAs(m.event)>>
    BY <2>2, <2>5 DEF WrongSeal
  <2>7. m.source.sn = anchor.sn /\ m.source.said = anchor.said
    BY <2>2
  <2> QED
    BY <2>4, <2>5, <2>6, <2>7
<1> HIDE DEF anchor
<1>2. Require(Found, "MissingAnchor") \in Patient
  BY DEF Require, Patient
<1>3. Require(Found, "MissingAnchor") = "Ok" => Require(Right, "InconsistentAnchor") \in Patient
  BY <1>1 DEF Require, Patient
<1>4. (Require(Found, "MissingAnchor") && Require(Right, "InconsistentAnchor")) \in Patient
  BY <1>2, <1>3, PatientRow
<1> QED
  BY <1>4 DEF VerifyAnchor, anchor

(* The issuer's key state is supplied or not, and it is the issuer's.      *)
LEMMA IssuerWaits ==
  ASSUME NEW e, e.kind \notin Backed, NEW ev \in Evidence(e), NEW issuer,
         log # <<>> => issuer = log[1].pre
  PROVE  IssuerIs(ev, issuer) \in Patient
<1>1. CASE log = <<>>
  <2>1. ev = Missing
    BY <1>1 DEF Evidence
  <2> QED
    BY <2>1 DEF IssuerIs, Missing, Patient
<1>2. CASE log # <<>>
  <2>1. ev = Issuer(log[1].pre)
    BY <1>2 DEF Evidence
  <2>2. ev.kind = "issuer" /\ ev.pre = issuer
    BY <1>2, <2>1 DEF Issuer
  <2> QED
    BY <2>2 DEF IssuerIs, Require, Patient
<1> QED
  BY <1>1, <1>2

(* Receipts too few may become enough.                                     *)
LEMMA ReceiptsWait ==
  ASSUME NEW m, NEW backers, NEW toad
  PROVE  AuthenticateBacker(m, backers, toad) \in Patient
BY DEF AuthenticateBacker, Require, Patient

(* An inception that may still be founded waits for its evidence.          *)
LEMMA FoundingWaits ==
  ASSUME OneIssuer, NEW m, m.event.kind = "vcp", ~WrongSeal(m), ~Unfounded(m.event),
         NEW ev \in Evidence(m.event)
  PROVE  InceptRegistry(m, ev, AnchorOf(m)) \in Patient
<1> DEFINE e == m.event
           a1 == IssuerIs(ev, e.issuer)
           a2 == Require(IsBackerless(e) => e.adds = <<>>, "NoBackersWithBackers")
           a3 == CheckMembers(e.adds)
           a4 == CheckBackerThreshold(Len(e.adds), e.toad)
           a5 == VerifyAnchor(m, e.issuer, AnchorOf(m))
           a6 == IF e.adds = <<>> THEN "Ok" ELSE AuthenticateBacker(m, e.adds, e.toad)
<1>1. log # <<>> => e.issuer = log[1].pre
  BY DEF Unfounded
<1>2. a1 \in Patient
  BY <1>1, IssuerWaits DEF Backed
<1>3. a2 = "Ok" /\ a3 = "Ok" /\ a4 = "Ok"
  BY DEF Unfounded, Fit, CheckMembers, Require
<1>4. a5 \in Patient
  BY <1>1, AnchorWaits
<1>5. a6 \in Patient
  BY ReceiptsWait DEF Patient
<1>6. InceptRegistry(m, ev, AnchorOf(m)) = (a1 && a2 && a3 && a4 && a5 && a6)
  BY DEF InceptRegistry
<1> HIDE DEF a1, a2, a3, a4, a5, a6
<1>7. (a1 && a2 && a3 && a4) = a1
  BY <1>3 DEF &&
<1>8. (a1 && a5) \in Patient
  BY <1>2, <1>4, PatientRow
<1>9. ((a1 && a5) && a6) \in Patient
  BY <1>5, <1>8, PatientRow
<1> QED
  BY <1>6, <1>7, <1>9

(* The number of an event that comes after what is recorded.               *)
LEMMA NumberWaits ==
  ASSUME NEW sn \in Nat, NEW next \in Nat, next <= MaxSn, sn >= next
  PROVE  InOrder(sn, next) \in Patient /\ (InOrder(sn, next) = "Ok" => sn = next)
<1> DEFINE a1 == Require(next <= MaxSn, "SequenceNumberOverflow")
           a2 == Require(sn <= next, "OutOfOrderFuture")
           a3 == Require(sn >= next, "OutOfOrderStale")
<1>1. a1 = "Ok" /\ a3 = "Ok" /\ a2 \in Patient /\ (a2 = "Ok" => sn <= next)
  BY DEF Require, Patient
<1>2. InOrder(sn, next) = (a1 && a2 && a3)
  BY DEF InOrder
<1> HIDE DEF a1, a2, a3
<1>3. InOrder(sn, next) = a2
  BY <1>1, <1>2 DEF &&
<1> QED
  BY <1>1, <1>3

(* A rotation that the head does not refuse waits for its predecessors,    *)
(* its anchor or its receipts.                                             *)
LEMMA RotationWaits ==
  ASSUME IInv, Ledger, OneIssuer, NEW m \in TelMessage, m.event.kind = "vrt",
         Chain(m.event) # <<>>, ~WrongSeal(m), ~HeadRefuses(Current(m.event), m.event),
         NEW ev \in Evidence(m.event)
  PROVE  Rotate(Current(m.event), m, ev, AnchorOf(m)) \in Patient
<1> DEFINE e == m.event
           h == Current(e)
           left == UpdatedBackers(h, e)
           f1 == Require(e.reg = h.id, "InconsistentRegistry")
           f2 == Require(~IsBackerless(h), "RotationOnBackerlessRegistry")
           f3 == InOrder(e.sn, h.sn + 1)
           f4 == Require(e.prior = h.latest, "PriorDigestMismatch")
           b1 == IssuerIs(ev, h.issuer)
           b2 == VerifyAnchor(m, h.issuer, AnchorOf(m))
           c1 == ResolveBackers(h, e)
           c2 == CheckBackerThreshold(Len(left), e.toad)
           c3 == IF left = <<>> THEN "Ok" ELSE AuthenticateBacker(m, left, e.toad)
<1>1. h \in Management /\ h.id = RegistryOf(e) /\ log # <<>> /\ h.issuer = log[1].pre
  BY ChainFields
<1>2. h.sn \in Nat /\ e.sn \in Nat /\ MaxSn \in Nat
  BY <1>1, StateFields, MessageFields, KeyStateAssumption
<1>3. h.sn + 1 \in Nat /\ h.sn + 1 <= MaxSn /\ e.sn >= h.sn + 1
  BY <1>2 DEF HeadRefuses
<1>4. f1 = "Ok" /\ f2 = "Ok"
  BY <1>1 DEF Require, RegistryOf, HeadRefuses
<1>5. f3 \in Patient /\ (f3 = "Ok" => e.sn = h.sn + 1)
  BY <1>2, <1>3, NumberWaits
<1>6. f3 = "Ok" => f4 = "Ok" /\ c1 = "Ok" /\ c2 = "Ok"
  BY <1>5 DEF HeadRefuses, Require
<1>7. b1 \in Patient
  BY <1>1, IssuerWaits DEF Backed
<1>8. b2 \in Patient
  BY <1>1, AnchorWaits
<1>9. c3 \in Patient
  BY ReceiptsWait DEF Patient
<1>10. Rotate(h, m, ev, AnchorOf(m)) = ((f1 && f2 && f3 && f4) && (b1 && b2) && (c1 && c2 && c3))
  BY DEF Rotate, FollowsManagement, AuthenticateIssuer, ReceiptedAfter
<1> HIDE DEF f1, f2, f3, f4, b1, b2, c1, c2, c3, h
<1>11. (f1 && f2 && f3 && f4) = f3
  BY <1>4, <1>6 DEF &&
<1>12. f3 = "Ok" => (c1 && c2 && c3) = c3
  BY <1>6 DEF &&
<1>13. (b1 && b2) \in Patient
  BY <1>7, <1>8, PatientRow
<1>14. (f3 && (b1 && b2)) \in Patient /\ ((f3 && (b1 && b2)) = "Ok" => f3 = "Ok")
  BY <1>5, <1>13, PatientRow, BothPass
<1> DEFINE front == f3 && (b1 && b2)
           back == c1 && c2 && c3
<1>15. front = "Ok" => back \in Patient
  BY <1>9, <1>12, <1>14
<1>16. front \in Patient
  BY <1>14
<1> HIDE DEF front, back
<1>17. (front && back) \in Patient
  BY <1>15, <1>16, PatientRow
<1> QED
  BY <1>10, <1>11, <1>17 DEF front, back, h

(* The state that evidence of a retained state carries is one of the       *)
(* registry's, which the event names; the present one may be another.      *)
LEMMA AuthorityWaits ==
  ASSUME IInv, Ledger, OneIssuer, NEW e, e.kind \in Backed, e.ra # None,
         e.ra.i = RegistryOf(e), Chain(e) # <<>>, NEW ev \in Evidence(e)
  PROVE  LET h == Current(e)
             named == AuthorityOf(h, ev)
         IN  /\ ResolveBackerAuthority(h, e.ra, ev) \in Patient
             /\ Fit(named.backers, named.toad)
<1> DEFINE r == RegistryOf(e)
           h == Current(e)
           L == Len(management[r])
<1>1. /\ r \in Registries /\ Chain(e) = management[r] /\ h.id = r /\ Fit(h.backers, h.toad)
      /\ h.conf = management[r][1].conf /\ h.issuer = log[1].pre
  BY ChainFields
<1>2. ResolveBackerAuthority(h, e.ra, ev) = MatchesEvidence(h, e.ra, ev)
  BY <1>1 DEF ResolveBackerAuthority, Require, &&
<1>3. CASE ev = BackerNow
  <2>1. ev.kind = "backer"
    BY <1>3 DEF BackerNow
  <2>2. MatchesEvidence(h, e.ra, ev) \in Patient
    BY <2>1 DEF MatchesEvidence, Require, Patient
  <2>3. AuthorityOf(h, ev) = h
    BY <2>1 DEF AuthorityOf
  <2> HIDE DEF h
  <2> QED
    BY <1>1, <1>2, <2>2, <2>3 DEF h
<1>4. ASSUME NEW k \in Members(management[r]), ev = BackerAt(k), k.sn = e.ra.s, k.latest = e.ra.d
      PROVE  ResolveBackerAuthority(h, e.ra, ev) \in Patient
             /\ AuthorityOf(h, ev) = k /\ Fit(k.backers, k.toad)
  <2>1. ev.kind = "backerAt" /\ ev.management = k
    BY <1>4 DEF BackerAt
  <2>2. DOMAIN management[r] = 1..L
    BY <1>1 DEF IInv, RetainedWell, Sequential
  <2>3. PICK n \in 1..L : k = management[r][n]
    BY <2>2 DEF Members
  <2>4. StateWell(r, n) /\ FoundedBy(r, n)
    BY <1>1, <2>3 DEF Ledger, OneIssuer
  <2>5. k.id = h.id /\ k.issuer = h.issuer /\ k.conf = h.conf /\ Fit(k.backers, k.toad)
    BY <1>1, <2>3, <2>4 DEF StateWell, FoundedBy
  <2> HIDE DEF h
  <2>6. MatchesEvidence(h, e.ra, ev) = "Ok"
    BY <1>4, <2>1, <2>5 DEF MatchesEvidence, Require
  <2>7. AuthorityOf(h, ev) = k
    BY <2>1 DEF AuthorityOf
  <2> QED
    BY <1>2, <2>5, <2>6, <2>7 DEF Patient, h
<1>5. \/ ev = BackerNow
      \/ \E k \in Members(management[r]) : ev = BackerAt(k) /\ k.sn = e.ra.s /\ k.latest = e.ra.d
  BY <1>1 DEF Evidence
<1> QED
  BY <1>3, <1>4, <1>5

(* A credential event that is in its place waits for its anchor, for the   *)
(* state it names or for receipts.                                         *)
LEMMA AuthenticationWaits ==
  ASSUME IInv, Ledger, OneIssuer, NEW m \in TelMessage, Chain(m.event) # <<>>,
         ~WrongSeal(m), ~Misplaced(m.event), NEW ev \in Evidence(m.event)
  PROVE  Authenticate(Current(m.event), m, ev, AnchorOf(m)) \in Patient
<1> DEFINE e == m.event
           h == Current(e)
           anchored == VerifyAnchor(m, h.issuer, AnchorOf(m))
<1>1. log # <<>> /\ h.issuer = log[1].pre
  BY ChainFields
<1>2. anchored \in Patient
  BY <1>1, AnchorWaits
<1>3. CASE e.kind \notin Backed
  <2>1. IssuerIs(ev, h.issuer) \in Patient
    BY <1>1, <1>3, IssuerWaits
  <2>2. (IssuerIs(ev, h.issuer) && anchored) \in Patient
    BY <1>2, <2>1, PatientRow
  <2> QED
    BY <1>3, <2>2 DEF Authenticate, AuthenticateIssuer
<1>4. CASE e.kind \in Backed
  <2> DEFINE named == AuthorityOf(h, ev)
             a2 == ResolveBackerAuthority(h, e.ra, ev)
             a3 == CheckMembers(named.backers)
             a4 == CheckBackerThreshold(Len(named.backers), named.toad)
             a5 == AuthenticateBacker(m, named.backers, named.toad)
  <2>1. e.ra # None /\ e.ra.i = RegistryOf(e)
    BY <1>4 DEF TelMessage, TelEvent, Misplaced
  <2>2. a2 \in Patient /\ Fit(named.backers, named.toad)
    BY <1>4, <2>1, AuthorityWaits
  <2>3. a3 = "Ok" /\ a4 = "Ok"
    BY <2>2 DEF Fit, CheckMembers, Require
  <2>4. a5 \in Patient
    BY ReceiptsWait
  <2>5. Authenticate(h, m, ev, AnchorOf(m)) = (anchored && a2 && a3 && a4 && a5)
    BY <1>4 DEF Authenticate, AuthenticateBacked
  <2> HIDE DEF anchored, a2, a3, a4, a5, h
  <2>6. (anchored && a2) \in Patient
    BY <1>2, <2>2, PatientRow
  <2>7. (anchored && a2 && a3 && a4) = (anchored && a2)
    BY <2>3 DEF &&
  <2>8. ((anchored && a2) && a5) \in Patient
    BY <2>4, <2>6, PatientRow
  <2> QED
    BY <2>5, <2>7, <2>8 DEF h
<1> QED
  BY <1>3, <1>4

(* An issuance in a place that is free waits for its evidence.             *)
LEMMA IssueWaits ==
  ASSUME IInv, Ledger, OneIssuer, NEW m \in TelMessage, m.event.kind \in Issuances,
         Chain(m.event) # <<>>, ~WrongSeal(m), ~Misplaced(m.event), NEW ev \in Evidence(m.event)
  PROVE  Issue(m, ev) \in Patient
<1> DEFINE e == m.event
           h == Current(e)
           a1 == Require(e.kind \in Issuances, "NotCredentialInception")
           a2 == Require(e.reg = h.id, "InconsistentRegistry")
           a3 == FitsRegistry(e, h)
           a4 == Authenticate(h, m, ev, AnchorOf(m))
           a5 == InOrder(e.sn, 0)
           a6 == Require(Recorded(e) = None, "OutOfOrderStale")
<1>1. h.id = RegistryOf(e)
  BY ChainFields
<1>2. a1 = "Ok" /\ a2 = "Ok" /\ a6 = "Ok"
  BY <1>1 DEF Require, RegistryOf, Issuances, Misplaced
<1>3. a3 = "Ok"
  <2>1. IF e.kind \in Backed THEN ~IsBackerless(h) ELSE IsBackerless(h)
    BY DEF Misplaced, IsBackerless
  <2> QED
    BY <2>1 DEF FitsRegistry, Require
<1>4. a4 \in Patient
  BY AuthenticationWaits
<1>5. a5 = "Ok"
  <2>1. e.sn = 0 /\ MaxSn \in Nat
    BY KeyStateAssumption DEF TelMessage, TelEvent, Issuances
  <2> QED
    BY <2>1 DEF InOrder, Require, &&
<1>6. Issue(m, ev) = (((a1 && a2 && a3) && a4 && a5) && a6)
  BY DEF Issue, InceptCredential
<1> HIDE DEF a1, a2, a3, a4, a5, a6
<1>7. Issue(m, ev) = a4
  BY <1>2, <1>3, <1>5, <1>6 DEF &&
<1> QED
  BY <1>4, <1>7

(* A revocation waits for the issuance it follows and for its evidence.    *)
LEMMA RevokeWaits ==
  ASSUME IInv, Ledger, OneIssuer, NEW m \in TelMessage, m.event.kind \in {"rev", "brv"},
         Chain(m.event) # <<>>, ~WrongSeal(m), ~Misplaced(m.event), NEW ev \in Evidence(m.event)
  PROVE  Revoke(m, ev) \in Patient
<1> DEFINE e == m.event
           h == Current(e)
           c == Recorded(e)
           a1 == Require(c.registry = h.id, "InconsistentRegistry")
           a2 == Require(e.kind \in {"rev", "brv"}, "NotCredentialTransition")
           a3 == Require(NamesRegistry(e, h.id), "InconsistentRegistry")
           a4 == FitsRegistry(e, h)
           a5 == Authenticate(h, m, ev, AnchorOf(m))
           a6 == Require(e.cred = c.credential, "InconsistentCredential")
           a7 == InOrder(e.sn, c.sn + 1)
           a8 == Require(e.prior = c.head, "PriorDigestMismatch")
<1>1. CASE c = None
  BY <1>1 DEF Revoke, Patient
<1>2. CASE c # None
  <2>1. h.id = RegistryOf(e) /\ RegistryOf(e) \in Registries
    BY ChainFields
  <2>2. e.cred \in Credentials /\ e.sn = 1 /\ (e.kind \in Backed => e.ra # None)
    BY DEF TelMessage, TelEvent
  <2>3. c.registry = RegistryOf(e) /\ c.credential = e.cred /\ c.sn \in {0, 1}
    <3>1. Place(e) \in Registries \X Credentials
      BY <2>1, <2>2 DEF Place
    <3>2. HeadWell(Place(e))
      BY <3>1 DEF IInv
    <3> QED
      BY <1>2, <3>2 DEF HeadWell, Recorded, Place
  <2>4. c.sn = 0 /\ e.prior = c.head
    BY <1>2, <2>3 DEF Misplaced
  <2>5. NamesRegistry(e, h.id)
    BY <2>1, <2>2 DEF NamesRegistry, RegistryOf, Backed
  <2>6. a1 = "Ok" /\ a2 = "Ok" /\ a3 = "Ok" /\ a6 = "Ok" /\ a8 = "Ok"
    BY <2>1, <2>3, <2>4, <2>5 DEF Require
  <2>7. a4 = "Ok"
    <3>1. IF e.kind \in Backed THEN ~IsBackerless(h) ELSE IsBackerless(h)
      BY DEF Misplaced, IsBackerless
    <3> QED
      BY <3>1 DEF FitsRegistry, Require
  <2>8. a5 \in Patient
    BY AuthenticationWaits
  <2>9. a7 = "Ok"
    <3>1. MaxSn \in Nat /\ MaxSn # 0
      BY KeyStateAssumption, RegistryAssumption
    <3>2. c.sn + 1 = 1 /\ e.sn = 1 /\ 1 <= MaxSn
      BY <2>2, <2>4, <3>1
    <3> QED
      BY <3>2 DEF InOrder, Require, &&
  <2>10. Revoke(m, ev) = ((a1 && a2 && a3 && a4) && a5 && (a6 && a7 && a8))
    BY <1>2 DEF Revoke, IngestCredential, BelongsTo, FollowsCredential
  <2> HIDE DEF a1, a2, a3, a4, a5, a6, a7, a8
  <2>11. Revoke(m, ev) = a5
    BY <2>6, <2>7, <2>9, <2>10 DEF &&
  <2> QED
    BY <2>8, <2>11
<1> QED
  BY <1>1, <1>2

(* Whatever is not hopeless is accepted or waits: what the fold calls      *)
(* terminal or contested is hopeless.                                      *)
LEMMA DroppableIsHopeless ==
  ASSUME IInv, Ledger, OneIssuer, NEW m \in TelMessage, Droppable(Verdicts(m))
  PROVE  Hopeless(m)
<1> SUFFICES ASSUME ~Hopeless(m) PROVE FALSE
  OBVIOUS
<1> DEFINE e == m.event
<1>1. e.kind \in TelKinds /\ ~WrongSeal(m)
  BY MessageFields DEF Hopeless
<1>2. ASSUME NEW ev \in Evidence(e) PROVE Verdict(m, ev) \in Patient
  <2>1. CASE Chain(e) = <<>> /\ e.kind = "vcp"
    <3>1. Verdict(m, ev) = InceptRegistry(m, ev, AnchorOf(m))
      BY <2>1 DEF Verdict
    <3>2. ~Unfounded(e)
      BY <2>1 DEF Hopeless
    <3> QED
      BY <1>1, <2>1, <3>1, <3>2, FoundingWaits
  <2>2. CASE Chain(e) = <<>> /\ e.kind # "vcp"
    BY <2>2 DEF Verdict, Patient
  <2>3. CASE Chain(e) # <<>> /\ e.kind = "vrt"
    <3>1. Verdict(m, ev) = Rotate(Current(e), m, ev, AnchorOf(m))
      BY <2>3 DEF Verdict, IngestRegistry, Issuances
    <3>2. ~HeadRefuses(Current(e), e)
      BY <2>3 DEF Hopeless
    <3> QED
      BY <1>1, <2>3, <3>1, <3>2, RotationWaits
  <2>4. CASE Chain(e) # <<>> /\ e.kind \in Issuances
    <3>1. Verdict(m, ev) = Issue(m, ev)
      BY <2>4 DEF Verdict, Issuances
    <3>2. ~Misplaced(e)
      BY <2>4 DEF Hopeless, Issuances, ManagementKinds
    <3> QED
      BY <1>1, <2>4, <3>1, <3>2, IssueWaits
  <2>5. CASE Chain(e) # <<>> /\ e.kind \in {"rev", "brv"}
    <3>1. Verdict(m, ev) = Revoke(m, ev)
      BY <2>5 DEF Verdict, Issuances
    <3>2. ~Misplaced(e)
      BY <2>5 DEF Hopeless, ManagementKinds
    <3> QED
      BY <1>1, <2>5, <3>1, <3>2, RevokeWaits
  <2>6. ~(Chain(e) # <<>> /\ e.kind = "vcp")
    BY DEF Hopeless
  <2> QED
    BY <1>1, <2>1, <2>2, <2>3, <2>4, <2>5, <2>6 DEF TelKinds, Issuances
<1>3. PICK ev \in Evidence(e) : TelDisposition(Verdict(m, ev)) \in {"Terminal", "Contested"}
  BY DEF Droppable, Verdicts
<1>4. Verdict(m, ev) \in Patient
  BY <1>2
<1> QED
  BY <1>3, <1>4 DEF Patient, TelDisposition

(* Nothing that is hopeless passes.                                        *)
LEMMA HopelessIsRefused ==
  ASSUME IInv, Ledger, OneIssuer, NEW m \in TelMessage, Hopeless(m)
  PROVE  "Ok" \notin Verdicts(m)
<1> DEFINE e == m.event
           h == Current(e)
<1> SUFFICES ASSUME NEW ev \in Evidence(e), Verdict(m, ev) = "Ok" PROVE FALSE
  BY DEF Verdicts
<1>1. /\ Seals(m, AnchorOf(m))
      /\ Founds(e) \/ Rotates(e) \/ Issues(e) \/ Revokes(e)
      /\ e.kind \in TelKinds /\ e.sn \in Nat
  BY VerdictPasses, MessageFields
<1>2. ~WrongSeal(m)
  <2>1. PICK k \in Members(log) : /\ m.source = [sn |-> k.sn, said |-> k.said]
                                  /\ k.seals = <<SealedAs(e)>>
    BY <1>1, AnchorInLog
  <2>2. k \in IssuerEvents
    <3>1. PICK n \in DOMAIN log : k = log[n]
      BY <2>1 DEF Members
    <3> QED
      BY <3>1 DEF OneIssuer, LogWell
  <2>3. \A l \in IssuerEvents : m.source = [sn |-> l.sn, said |-> l.said] => l.said = k.said
    BY <2>1
  <2> QED
    BY <2>1, <2>2, <2>3, TelHostAssumption DEF WrongSeal
<1>3. CASE e.kind = "vcp"
  <2>1. Chain(e) = <<>>
    BY <1>1, <1>3 DEF Founds, Rotates, Issues, Revokes, Issuances
  <2>2. InceptRegistry(m, ev, AnchorOf(m)) = "Ok"
    BY <1>3, <2>1 DEF Verdict
  <2>3. /\ IssuerIs(ev, e.issuer) = "Ok"
        /\ Require(IsBackerless(e) => e.adds = <<>>, "NoBackersWithBackers") = "Ok"
        /\ Fit(e.adds, e.toad)
    BY <2>2, BothPass, InceptRegistryPasses DEF InceptRegistry
  <2>4. log # <<>> => e.issuer = log[1].pre
    BY <1>3, <2>3 DEF Evidence, Backed, IssuerIs, Issuer, Require
  <2> QED
    BY <1>2, <1>3, <2>1, <2>3, <2>4 DEF Hopeless, Unfounded, Require, ManagementKinds
<1>4. CASE e.kind = "vrt"
  <2>1. Chain(e) # <<>> /\ HeadRefuses(h, e)
    BY <1>1, <1>2, <1>4 DEF Hopeless, Rotates, Founds, Issues, Revokes, Issuances, ManagementKinds
  <2>2. FollowsManagement(h, e) = "Ok" /\ ReceiptedAfter(h, m) = "Ok"
    <3>1. Rotate(h, m, ev, AnchorOf(m)) = "Ok"
      BY <1>4, <2>1 DEF Verdict, IngestRegistry, Issuances
    <3> QED
      BY <3>1, BothPass DEF Rotate
  <2>3. /\ Require(~IsBackerless(h), "RotationOnBackerlessRegistry") = "Ok"
        /\ InOrder(e.sn, h.sn + 1) = "Ok"
        /\ Require(e.prior = h.latest, "PriorDigestMismatch") = "Ok"
    BY <2>2, BothPass DEF FollowsManagement
  <2>4. /\ Require(h.sn + 1 <= MaxSn, "SequenceNumberOverflow") = "Ok"
        /\ Require(e.sn >= h.sn + 1, "OutOfOrderStale") = "Ok"
    BY <2>3, BothPass DEF InOrder
  <2>5. /\ ResolveBackers(h, e) = "Ok"
        /\ CheckBackerThreshold(Len(UpdatedBackers(h, e)), e.toad) = "Ok"
    BY <2>2, BothPass DEF ReceiptedAfter
  <2>6. h.sn \in Nat /\ MaxSn \in Nat
    BY <2>1, ChainFields, StateFields, KeyStateAssumption
  <2>7. ~IsBackerless(h) /\ h.sn + 1 <= MaxSn /\ e.sn >= h.sn + 1 /\ e.prior = h.latest
    BY <2>3, <2>4 DEF Require
  <2> QED
    BY <1>1, <2>1, <2>5, <2>6, <2>7 DEF HeadRefuses
<1>5. CASE e.kind \notin ManagementKinds
  <2>1. Chain(e) # <<>> /\ Misplaced(e) /\ (Issues(e) \/ Revokes(e))
    BY <1>1, <1>2, <1>5 DEF Hopeless, Founds, Rotates, Issues, Revokes, ManagementKinds
  <2>2. FitsRegistry(e, h) = "Ok" /\ Authenticate(h, m, ev, AnchorOf(m)) = "Ok"
    <3>1. CASE e.kind \in Issuances
      <4>1. InceptCredential(h, m, ev, AnchorOf(m)) = "Ok"
        BY <2>1, <3>1, BothPass DEF Verdict, Issue, Issuances
      <4> QED
        BY <4>1, BothPass DEF InceptCredential
    <3>2. CASE e.kind \in {"rev", "brv"}
      <4>1. IngestCredential(Recorded(e), h, m, ev, AnchorOf(m)) = "Ok"
        BY <2>1, <3>2 DEF Verdict, Revoke, Issuances
      <4>2. BelongsTo(Recorded(e), h, e) = "Ok" /\ Authenticate(h, m, ev, AnchorOf(m)) = "Ok"
        BY <4>1, BothPass DEF IngestCredential
      <4> QED
        BY <4>2, BothPass DEF BelongsTo
    <3> QED
      BY <2>1, <3>1, <3>2 DEF Issues, Revokes
  <2>3. ~((e.kind \in Backed) = IsBackerless(h))
    BY <2>2 DEF FitsRegistry, Require, IsBackerless
  <2>4. e.kind \in Backed => e.ra.i = RegistryOf(e)
    <3> SUFFICES ASSUME e.kind \in Backed PROVE e.ra.i = RegistryOf(e)
      OBVIOUS
    <3>1. ResolveBackerAuthority(h, e.ra, ev) = "Ok"
      BY <2>2, BothPass DEF Authenticate, AuthenticateBacked
    <3>2. Require(e.ra.i = h.id, "InconsistentRegistry") = "Ok"
      BY <3>1, BothPass DEF ResolveBackerAuthority
    <3>3. h.id = RegistryOf(e)
      BY <2>1, ChainFields
    <3> QED
      BY <3>2, <3>3 DEF Require
  <2>5. ~(Recorded(e) # None /\ (e.kind \in Issuances \/ Recorded(e).sn = 1
                                 \/ e.prior # Recorded(e).head))
    <3>1. CASE Issues(e)
      BY <3>1 DEF Issues
    <3>2. CASE Revokes(e)
      <4>1. e.kind \notin Issuances /\ e.sn = 1 /\ Recorded(e).sn # 1
        BY <3>2 DEF Revokes, Issuances, TelMessage, TelEvent
      <4>2. IngestCredential(Recorded(e), h, m, ev, AnchorOf(m)) = "Ok"
        BY <3>2 DEF Verdict, Revoke, Revokes, Issuances
      <4>3. FollowsCredential(Recorded(e), e) = "Ok"
        BY <4>2, BothPass DEF IngestCredential
      <4>4. Require(e.prior = Recorded(e).head, "PriorDigestMismatch") = "Ok"
        BY <4>3, BothPass DEF FollowsCredential
      <4> QED
        BY <4>1, <4>4 DEF Require
    <3> QED
      BY <2>1, <3>1, <3>2
  <2> QED
    BY <2>1, <2>3, <2>4, <2>5 DEF Misplaced
<1> QED
  BY <1>3, <1>4, <1>5 DEF ManagementKinds

(* A step leaves a registry's log as it is or adds a state that follows    *)
(* its head, with the configuration of the registry.                       *)
Succeeds(r) ==
  LET L == Len(management[r])
  IN  \/ management'[r] = management[r]
      \/ /\ management'[r] # <<>> /\ Len(management'[r]) = L + 1
         /\ \A n \in 1..L : management'[r][n] = management[r][n]

LEMMA StepSucceeds ==
  ASSUME IInv, [Next]_vars
  PROVE  /\ \A r \in Registries : Succeeds(r)
         /\ \A p \in Registries \X Credentials :
              \/ credentials'[p] = credentials[p]
              \/ credentials'[p] # None /\ credentials[p] = None
              \/ /\ credentials[p] # None /\ credentials[p].sn = 0
                 /\ credentials'[p] # None /\ credentials'[p].sn = 1
<1>1. CASE UNCHANGED <<management, credentials>>
  BY <1>1 DEF Succeeds
<1>2. ASSUME NEW m \in TelMessage, Founds(m.event) \/ Rotates(m.event), Manage(m.event)
      PROVE  UNCHANGED credentials /\ \A r \in Registries : Succeeds(r)
  <2> DEFINE r == RegistryOf(m.event)
  <2>1. PICK x : /\ management' = [management EXCEPT ![r] = Append(management[r], x)]
                 /\ x.latest = m.event.said /\ x.id = r
    BY <1>2, Manages
  <2>2. r \in Registries /\ UNCHANGED credentials
    BY <1>2, Routed, Manages
  <2> HIDE DEF r
  <2>3. Sequential(management[r]) /\ management'[r] = Append(management[r], x)
    BY <2>1, <2>2 DEF IInv, RetainedWell
  <2>4. /\ Len(management'[r]) = Len(management[r]) + 1 /\ Len(management[r]) \in Nat
        /\ \A n \in 1..Len(management[r]) : management'[r][n] = management[r][n]
    BY <2>3, GrowsByOne
  <2>5. management'[r] # <<>>
    BY <2>4
  <2>6. \A q \in Registries \ {r} : management'[q] = management[q]
    BY <2>1 DEF IInv
  <2> QED
    BY <2>2, <2>4, <2>5, <2>6 DEF Succeeds
<1>3. ASSUME NEW m \in TelMessage, Issues(m.event) \/ Revokes(m.event), Certify(m.event)
      PROVE  /\ UNCHANGED management
             /\ \A p \in Registries \X Credentials :
                  \/ credentials'[p] = credentials[p]
                  \/ credentials'[p] # None /\ credentials[p] = None
                  \/ /\ credentials[p] # None /\ credentials[p].sn = 0
                     /\ credentials'[p] # None /\ credentials'[p].sn = 1
  <2> DEFINE o == Place(m.event)
  <2>1. UNCHANGED management /\ o \in Registries \X Credentials
    BY <1>3, Certifies
  <2>2. PICK c \in CredentialState : /\ credentials' = [credentials EXCEPT ![o] = c]
                                     /\ \/ credentials[o] = None
                                        \/ credentials[o] # None /\ credentials[o].sn = 0 /\ c.sn = 1
    BY <1>3, Certifies
  <2>3. c # None
    BY NoneIsNoHead
  <2> HIDE DEF o
  <2> QED
    BY <2>1, <2>2, <2>3 DEF IInv
<1>4. \/ UNCHANGED <<management, credentials>>
      \/ \E m \in TelMessage : Handle(m)
  BY StepHandles DEF IInv, IssuerStep, vars, telVars
<1> QED
  BY <1>1, <1>2, <1>3, <1>4, HandleChanges DEF Succeeds

(* No step, of the host or of the issuer, gives hope.                      *)
LEMMA HopelessStays ==
  ASSUME IInv, Ledger, OneIssuer, IInv', Ledger', OneIssuer', [Next]_vars,
         NEW m \in TelMessage, Hopeless(m)
  PROVE  Hopeless(m)'
<1> DEFINE e == m.event
           r == RegistryOf(e)
           h == Current(e)
           L == Len(management[r])
<1>1. log # <<>> => log' # <<>> /\ log'[1].pre = log[1].pre
  <2>1. CASE IssuerStep
    BY <2>1, LogKeepsFirst DEF IssuerStep, OneIssuer
  <2>2. CASE UNCHANGED log
    BY <2>2
  <2> QED
    BY <2>1, <2>2, StepHandles DEF IInv, vars
<1>2. CASE WrongSeal(m)
  BY <1>2 DEF Hopeless, WrongSeal
<1>3. ASSUME Chain(e) # <<>>
      PROVE  /\ r \in Registries /\ Chain(e)' # <<>> /\ h \in Management /\ h.sn \in Nat
             /\ h'.conf = h.conf
             /\ h' = h \/ h'.sn = h.sn + 1
  <2>1. /\ r \in Registries /\ Chain(e) = management[r] /\ h \in Management /\ h.sn = L - 1
        /\ L \in Nat /\ L \in 1..L /\ h = management[r][L] /\ h.conf = management[r][1].conf
    BY <1>3, ChainFields
  <2>2. Chain(e)' = management'[r]
    BY <2>1 DEF Chain
  <2>3. CASE management'[r] = management[r]
    <3>1. h' = h
      BY <2>1, <2>2, <2>3 DEF Current
    <3> QED
      BY <1>3, <2>1, <2>2, <2>3, <3>1, StateFields
  <2>4. CASE /\ management'[r] # <<>> /\ Len(management'[r]) = L + 1
             /\ \A n \in 1..L : management'[r][n] = management[r][n]
    <3>1. PICK n \in Nat : n = L
      BY <2>1
    <3>2. h' = management'[r][n + 1] /\ Len(management'[r]) = n + 1
      BY <2>2, <2>4, <3>1 DEF Current
    <3>3. 1 \in 1..n /\ n + 1 \in 1..(n + 1)
      BY <2>1, <3>1
    <3>4. StateWell(r, n + 1)' /\ FoundedBy(r, n + 1)'
      BY <2>1, <3>2, <3>3 DEF Ledger, OneIssuer
    <3>5. h'.sn = (n + 1) - 1 /\ h'.conf = management[r][1].conf
      BY <2>1, <2>4, <3>1, <3>2, <3>3, <3>4 DEF StateWell, FoundedBy
    <3> QED
      BY <2>1, <2>2, <2>4, <3>1, <3>5, StateFields
  <2> QED
    BY <2>1, <2>3, <2>4, StepSucceeds DEF Succeeds
<1>4. CASE e.kind = "vcp" /\ (Chain(e) # <<>> \/ Unfounded(e))
  BY <1>1, <1>3, <1>4 DEF Hopeless, Unfounded, Fit
<1>5. CASE e.kind = "vrt" /\ Chain(e) # <<>> /\ HeadRefuses(h, e)
  <2>1. e.sn \in Nat /\ MaxSn \in Nat
    BY MessageFields, KeyStateAssumption
  <2>2. CASE h' = h
    <3>1. HeadRefuses(h', e)
      BY <1>5, <2>2
    <3> QED
      BY <1>3, <1>5, <3>1 DEF Hopeless
  <2>3. CASE h'.sn = h.sn + 1
    <3>1. HeadRefuses(h', e)
      BY <1>3, <1>5, <2>1, <2>3 DEF HeadRefuses, IsBackerless
    <3> QED
      BY <1>3, <1>5, <3>1 DEF Hopeless
  <2> QED
    BY <1>3, <1>5, <2>2, <2>3
<1>6. CASE e.kind \notin ManagementKinds /\ Chain(e) # <<>> /\ Misplaced(e)
  <2>1. IsBackerless(h') = IsBackerless(h)
    BY <1>3, <1>6 DEF IsBackerless
  <2>2. Place(e) \in Registries \X Credentials
    <3>1. e.cred \in Credentials
      BY <1>6 DEF TelMessage, TelEvent, ManagementKinds
    <3> QED
      BY <1>3, <1>6, <3>1 DEF Place
  <2>3. \/ Recorded(e)' = Recorded(e)
        \/ Recorded(e)' # None /\ Recorded(e) = None
        \/ Recorded(e)' # None /\ Recorded(e)'.sn = 1
    BY <2>2, StepSucceeds DEF Recorded
  <2>4. Misplaced(e)'
    BY <1>6, <2>1, <2>3 DEF Misplaced
  <2> QED
    BY <1>3, <1>6, <2>4 DEF Hopeless
<1> QED
  BY <1>2, <1>4, <1>5, <1>6 DEF Hopeless

(* The third invariant, with those it rests on.                            *)
THEOREM KeepsOneIssuer == Spec => [](IInv /\ Ledger /\ OneIssuer)
<1>1. Init => OneIssuer
  BY InitOneIssuer
<1>2. IInv /\ OneIssuer /\ [Next]_vars => OneIssuer'
  BY NextOneIssuer
<1> QED
  BY Invariant, KeepsLedger, <1>1, <1>2, PTL DEF Spec

(* A message that is dropped as terminal or contested is accepted at no    *)
(* later moment, whatever the host accepts and however the issuer's log is *)
(* recovered (RegistryRejection::disposition).                             *)
THEOREM DroppedForEver ==
  ASSUME NEW m \in TelMessage
  PROVE  Spec => [](Droppable(Verdicts(m)) => []("Ok" \notin Verdicts(m)))
<1>1. IInv /\ Ledger /\ OneIssuer /\ Droppable(Verdicts(m)) => Hopeless(m)
  BY DroppableIsHopeless
<1>2. IInv /\ Ledger /\ OneIssuer /\ Hopeless(m) => "Ok" \notin Verdicts(m)
  BY HopelessIsRefused
<1>3. /\ IInv /\ Ledger /\ OneIssuer
      /\ (IInv /\ Ledger /\ OneIssuer)'
      /\ [Next]_vars /\ Hopeless(m)
      => Hopeless(m)'
  BY HopelessStays
<1> QED
  BY KeepsOneIssuer, <1>1, <1>2, <1>3, PTL DEF Spec

(* What is hopeless after a step is refused after it.                      *)
LEMMA RefusedLater ==
  ASSUME NEW m \in TelMessage
  PROVE  (IInv /\ Ledger /\ OneIssuer /\ Hopeless(m) => "Ok" \notin Verdicts(m))'
<1>1. IInv /\ Ledger /\ OneIssuer /\ Hopeless(m) => "Ok" \notin Verdicts(m)
  BY HopelessIsRefused
<1> QED
  BY <1>1, PTL

(* No step makes acceptable what the fold called terminal or contested.    *)
THEOREM AlwaysFinal == Spec => TerminalIsFinal
<1> DEFINE Step == \A m \in unread \cup escrow :
                     Droppable(Verdicts(m)) => "Ok" \notin Verdicts(m) \cup Verdicts(m)'
<1>1. ASSUME IInv, Ledger, OneIssuer, IInv', Ledger', OneIssuer', [Next]_vars PROVE Step
  <2> SUFFICES ASSUME NEW m \in unread \cup escrow, Droppable(Verdicts(m))
               PROVE  "Ok" \notin Verdicts(m) \cup Verdicts(m)'
    OBVIOUS
  <2>1. m \in TelMessage
    BY <1>1, TelHostAssumption DEF IInv, MessagesWell
  <2>2. Hopeless(m) /\ Hopeless(m)'
    BY <1>1, <2>1, DroppableIsHopeless, HopelessStays
  <2>3. "Ok" \notin Verdicts(m)
    BY <1>1, <2>1, <2>2, HopelessIsRefused
  <2>4. "Ok" \notin Verdicts(m)'
    BY <1>1, <2>1, <2>2, RefusedLater
  <2> QED
    BY <2>3, <2>4
<1> QED
  BY KeepsOneIssuer, <1>1, PTL DEF Spec, TerminalIsFinal
=============================================================================
