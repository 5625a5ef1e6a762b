--------------------------- MODULE Watcher_proofs ---------------------------
(***************************************************************************)
(* Proofs about Watcher, for every log it may watch, every set of posts    *)
(* and every acquaintance, in three parts: what an event said to be        *)
(* accounted for was signed by; what stands or was served is backed by the *)
(* log; what replaces a reply is newer by the calendar.                    *)
(***************************************************************************)
EXTENDS Watcher, TLAPS, SequenceTheorems, FiniteSetTheorems, WellFoundedInduction

-----------------------------------------------------------------------------
(* What the proofs below need of KeyState.                                 *)

(* A rule followed by others passes only if both pass.                     *)
LEMMA BothPass ==
  ASSUME NEW a, NEW b, (a && b) = "Ok"
  PROVE  a = "Ok" /\ b = "Ok"
BY DEF &&

(* Every set of numbers that is not empty has a least one.                 *)
LEMMA LeastNumber ==
  ASSUME NEW T \in SUBSET Nat, T # {}
  PROVE  \E x \in T : \A y \in T : x <= y
<1> DEFINE R == OpToRel(<, Nat)
<1>1. IsWellFoundedOn(R, Nat)
  BY NatLessThanWellFounded
<1>2. \A x, y \in Nat : x < y => <<x, y>> \in R
  BY DEF OpToRel
<1> HIDE DEF R
<1>3. PICK x \in T : \A y \in T : ~(<<y, x>> \in R)
  BY <1>1, WFMin
<1>4. ASSUME NEW y \in T PROVE x <= y
  <2>1. x \in Nat /\ y \in Nat /\ ~(y < x)
    BY <1>2, <1>3
  <2> QED
    BY <2>1
<1> QED
  BY <1>4

(* The members of a witness list of an event are keys.                     *)
LEMMA MembersAreKeys ==
  ASSUME NEW list \in Seq(Keys)
  PROVE  Members(list) \subseteq Keys
BY DEF Members

(* updated_members of a set of keys by cuts and adds that are keys is a    *)
(* set of keys.                                                            *)
LEMMA UpdatedMembersAreKeys ==
  ASSUME NEW current \in SUBSET Keys, NEW cuts \in Seq(Keys), NEW adds \in Seq(Keys)
  PROVE  UpdatedMembers(current, cuts, adds) \in SUBSET Keys
BY MembersAreKeys DEF UpdatedMembers

(* A list has finitely many members.                                       *)
LEMMA MembersFinite ==
  ASSUME NEW S, NEW list \in Seq(S)
  PROVE  IsFiniteSet(Members(list)) /\ Members(list) \subseteq S
<1>1. IsFiniteSet(DOMAIN list)
  <2>1. DOMAIN list = 1..Len(list) /\ Len(list) \in Nat
    OBVIOUS
  <2>2. QED
    BY <2>1, FS_Interval
<1> DEFINE f == [i \in DOMAIN list |-> list[i]]
<1>2. f \in Surjection(DOMAIN list, Members(list))
  BY DEF Members, Surjection
<1>3. IsFiniteSet(Members(list))
  <2> HIDE DEF f
  <2>1. QED
    BY <1>1, <1>2, FS_Surjection
<1>4. Members(list) \subseteq S
  BY DEF Members
<1>5. QED
  BY <1>3, <1>4

(* The members of a list one longer, and when none is repeated.            *)
LEMMA MembersAppend ==
  ASSUME NEW S, NEW list \in Seq(S), NEW x \in S
  PROVE  /\ Append(list, x) \in Seq(S)
         /\ Members(Append(list, x)) = Members(list) \cup {x}
         /\ Unique(list) /\ x \notin Members(list) => Unique(Append(list, x))
<1> DEFINE longer == Append(list, x)
<1>1. /\ longer \in Seq(S) /\ Len(longer) = Len(list) + 1 /\ Len(list) \in Nat
      /\ DOMAIN list = 1..Len(list) /\ DOMAIN longer = 1..(Len(list) + 1)
      /\ \A i \in 1..Len(list) : longer[i] = list[i]
      /\ longer[Len(list) + 1] = x
  OBVIOUS
<1> HIDE DEF longer
<1>2. 1..(Len(list) + 1) = 1..Len(list) \cup {Len(list) + 1}
  BY <1>1
<1>3. Members(longer) = Members(list) \cup {x}
  BY <1>1, <1>2 DEF Members
<1>4. ASSUME Unique(list), x \notin Members(list) PROVE Unique(longer)
  BY <1>1, <1>2, <1>4 DEF Unique, Members
<1> QED
  BY <1>1, <1>3, <1>4 DEF longer

(* The members of two lists put together, and when none is repeated.       *)
LEMMA MembersConcat ==
  ASSUME NEW S, NEW a \in Seq(S), NEW b \in Seq(S)
  PROVE  /\ a \o b \in Seq(S) /\ Len(a \o b) = Len(a) + Len(b)
         /\ Members(a \o b) = Members(a) \cup Members(b)
         /\ Unique(a) /\ Unique(b) /\ Members(a) \cap Members(b) = {} => Unique(a \o b)
<1> DEFINE whole == a \o b
           first == 1..Len(a)
           second == {i \in 1..Len(whole) : i > Len(a)}
<1>1. /\ whole \in Seq(S) /\ Len(a) \in Nat /\ Len(b) \in Nat /\ Len(whole) = Len(a) + Len(b)
      /\ DOMAIN a = 1..Len(a) /\ DOMAIN b = 1..Len(b) /\ DOMAIN whole = 1..Len(whole)
  OBVIOUS
<1>2. \A i \in first : i \in 1..Len(whole) /\ whole[i] = a[i]
  BY <1>1
<1>3. \A i \in second : i - Len(a) \in 1..Len(b) /\ whole[i] = b[i - Len(a)]
  BY <1>1
<1>4. \A j \in 1..Len(b) : j + Len(a) \in second /\ whole[j + Len(a)] = b[j]
  BY <1>1
<1>5. 1..Len(whole) = first \cup second
  BY <1>1
<1>6. \A i, j \in second : i - Len(a) = j - Len(a) => i = j
  BY <1>1
<1> HIDE DEF whole, first, second
<1>7. Members(whole) = Members(a) \cup Members(b)
  <2>1. ASSUME NEW i \in 1..Len(whole) PROVE whole[i] \in Members(a) \cup Members(b)
    BY <1>1, <1>2, <1>3, <1>5 DEF Members, first
  <2>2. \A i \in 1..Len(a) : a[i] \in Members(whole)
    BY <1>1, <1>2 DEF Members, first
  <2>3. \A j \in 1..Len(b) : b[j] \in Members(whole)
    BY <1>1, <1>4, <1>5 DEF Members
  <2> QED
    BY <1>1, <2>1, <2>2, <2>3 DEF Members
<1>8. ASSUME Unique(a), Unique(b), Members(a) \cap Members(b) = {},
             NEW i \in 1..Len(whole), NEW j \in 1..Len(whole), whole[i] = whole[j]
      PROVE  i = j
  <2>1. CASE i \in first /\ j \in first
    BY <1>1, <1>2, <1>8, <2>1 DEF Unique, first
  <2>2. CASE i \in second /\ j \in second
    BY <1>1, <1>3, <1>6, <1>8, <2>2 DEF Unique
  <2>3. \A m \in first : whole[m] \in Members(a)
    BY <1>1, <1>2 DEF Members, first
  <2>4. \A n \in second : whole[n] \in Members(b)
    BY <1>1, <1>3 DEF Members
  <2> QED
    BY <1>5, <1>8, <2>1, <2>2, <2>3, <2>4
<1> QED
  BY <1>1, <1>7, <1>8 DEF whole, Unique

(* The list after n entries, from the list after one less.                 *)
PassAt(list, gone, f, n) ==
  IF n = 0 THEN <<>> ELSE IF list[n] \in gone THEN f[n - 1] ELSE Append(f[n - 1], list[n])

Passes(list, gone, N, f) == f = [n \in 0..N |-> PassAt(list, gone, f, n)]

(* The recursion has a solution over any number of entries.                *)
LEMMA PassesExist ==
  ASSUME NEW list, NEW gone
  PROVE  \A N \in Nat : \E f : Passes(list, gone, N, f)
<1> SUFFICES ASSUME ~(\A N \in Nat : \E f : Passes(list, gone, N, f)) PROVE FALSE
  OBVIOUS
<1> DEFINE missing == {N \in Nat : ~(\E f : Passes(list, gone, N, f))}
<1>1. PICK N \in missing : \A M \in missing : N <= M
  <2>1. missing \in SUBSET Nat /\ missing # {}
    OBVIOUS
  <2> HIDE DEF missing
  <2> QED
    BY <2>1, LeastNumber
<1>2. N \in Nat /\ ~(\E f : Passes(list, gone, N, f))
  BY <1>1
<1>3. CASE N = 0
  <2> DEFINE g == [n \in 0..0 |-> <<>>]
  <2>1. \A n \in 0..0 : PassAt(list, gone, g, n) = <<>>
    BY DEF PassAt
  <2>2. Passes(list, gone, 0, g)
    BY <2>1 DEF Passes
  <2> QED
    BY <1>2, <1>3, <2>2
<1>4. CASE N # 0
  <2>1. N - 1 \in Nat /\ ~(N <= N - 1)
    BY <1>2, <1>4
  <2>2. PICK f : Passes(list, gone, N - 1, f)
    BY <1>1, <2>1
  <2> DEFINE g == [n \in 0..N |-> IF n = N THEN PassAt(list, gone, f, N) ELSE f[n]]
  <2>3. \A n \in 0..(N - 1) : g[n] = f[n] /\ f[n] = PassAt(list, gone, f, n)
    <3>1. \A n \in 0..(N - 1) : g[n] = f[n]
      BY <1>2
    <3>2. \A n \in 0..(N - 1) : f[n] = PassAt(list, gone, f, n)
      BY <2>2 DEF Passes
    <3> QED
      BY <3>1, <3>2
  <2>4. g[N] = PassAt(list, gone, f, N)
    BY <1>2
  <2>5. g = [n \in 0..N |-> g[n]]
    OBVIOUS
  <2> HIDE DEF g
  <2>6. \A n \in 0..N : PassAt(list, gone, f, n) = PassAt(list, gone, g, n)
    <3> SUFFICES ASSUME NEW n \in 0..N PROVE PassAt(list, gone, f, n) = PassAt(list, gone, g, n)
      OBVIOUS
    <3>1. n = 0 \/ n - 1 \in 0..(N - 1)
      BY <1>2
    <3> QED
      BY <2>3, <3>1 DEF PassAt
  <2>7. \A n \in 0..N : g[n] = PassAt(list, gone, g, n)
    <3> SUFFICES ASSUME NEW n \in 0..N PROVE g[n] = PassAt(list, gone, g, n)
      OBVIOUS
    <3>1. n = N \/ n \in 0..(N - 1)
      BY <1>2
    <3> QED
      BY <2>3, <2>4, <2>6, <3>1
  <2>8. Passes(list, gone, N, g)
    BY <2>5, <2>7 DEF Passes
  <2> QED
    BY <1>2, <2>8
<1> QED
  BY <1>3, <1>4

(* What the recursion leaves of a list: its members without those gone,    *)
(* none repeated that was not.                                             *)
LEMMA WithoutKeeps ==
  ASSUME NEW S, NEW list \in Seq(S), NEW gone
  PROVE  /\ Without(list, gone) \in Seq(S)
         /\ Members(Without(list, gone)) = Members(list) \ gone
         /\ Unique(list) => Unique(Without(list, gone))
<1> DEFINE N == Len(list)
           f == CHOOSE p : p = [n \in 0..N |-> IF n = 0 THEN <<>>
                                               ELSE IF list[n] \in gone THEN p[n - 1]
                                               ELSE Append(p[n - 1], list[n])]
           Left(n) == {list[i] : i \in 1..n} \ gone
           Good(n) == /\ f[n] \in Seq(S)
                      /\ Members(f[n]) = Left(n)
                      /\ Unique(list) => Unique(f[n])
<1>1. N \in Nat /\ DOMAIN list = 1..N /\ \A i \in 1..N : list[i] \in S
  OBVIOUS
<1>2. Without(list, gone) = f[N]
  BY DEF Without
<1>3. \A n \in 0..N : f[n] = PassAt(list, gone, f, n)
  <2> DEFINE Eq(p) == p = [n \in 0..N |-> IF n = 0 THEN <<>>
                                          ELSE IF list[n] \in gone THEN p[n - 1]
                                          ELSE Append(p[n - 1], list[n])]
  <2>1. \E p : Eq(p)
    <3>1. PICK p : Passes(list, gone, N, p)
      BY <1>1, PassesExist
    <3>2. Eq(p)
      BY <3>1 DEF Passes, PassAt
    <3> QED
      BY <3>2
  <2>2. f = CHOOSE p : Eq(p)
    OBVIOUS
  <2> HIDE DEF f, Eq
  <2>3. Eq(f)
    BY <2>1, <2>2
  <2> QED
    BY <2>3 DEF Eq, PassAt
<1> HIDE DEF f
<1>4. Good(0)
  <2>1. f[0] = <<>>
    BY <1>1, <1>3 DEF PassAt
  <2>2. Left(0) = {} /\ Members(<<>>) = {} /\ Unique(<<>>) /\ <<>> \in Seq(S)
    BY DEF Members, Unique
  <2> QED
    BY <2>1, <2>2
<1>5. ASSUME NEW n \in 1..N, Good(n - 1) PROVE Good(n)
  <2>1. /\ n # 0 /\ n \in 0..N /\ list[n] \in S /\ 1..n = 1..(n - 1) \cup {n}
        /\ \A i \in 1..(n - 1) : i \in 1..N /\ i # n
    BY <1>1
  <2>2. CASE list[n] \in gone
    <3>1. f[n] = f[n - 1]
      BY <1>3, <2>1, <2>2 DEF PassAt
    <3>2. Left(n) = Left(n - 1)
      BY <2>1, <2>2
    <3> QED
      BY <1>5, <3>1, <3>2
  <2>3. CASE list[n] \notin gone
    <3>1. f[n] = Append(f[n - 1], list[n])
      BY <1>3, <2>1, <2>3 DEF PassAt
    <3>2. Left(n) = Left(n - 1) \cup {list[n]}
      BY <2>1, <2>3
    <3>3. Unique(list) => list[n] \notin Left(n - 1)
      BY <1>1, <2>1 DEF Unique
    <3> QED
      BY <1>5, <2>1, <3>1, <3>2, <3>3, MembersAppend
  <2> QED
    BY <2>2, <2>3
<1>6. Good(N)
  <2> SUFFICES ASSUME ~Good(N) PROVE FALSE
    OBVIOUS
  <2> DEFINE bad == {n \in 0..N : ~Good(n)}
  <2>1. bad \in SUBSET Nat /\ N \in bad
    BY <1>1
  <2>2. PICK n \in bad : \A m \in bad : n <= m
    <3> HIDE DEF bad
    <3> QED
      BY <2>1, LeastNumber
  <2>3. n \in 0..N /\ ~Good(n)
    BY <2>2
  <2>4. n # 0
    BY <1>4, <2>3
  <2>5. n \in 1..N /\ n - 1 \in 0..N /\ ~(n <= n - 1)
    BY <1>1, <2>3, <2>4
  <2>6. Good(n - 1)
    BY <2>2, <2>5
  <2> QED
    BY <1>5, <2>3, <2>5, <2>6
<1>7. Left(N) = Members(list) \ gone
  BY <1>1 DEF Members
<1> QED
  BY <1>2, <1>6, <1>7

(* What a rotation leaves in force, once its additions follow those that   *)
(* its cuts leave: one list of the present members, none repeated if no    *)
(* addition is.                                                            *)
LEMMA UpdatedListKeeps ==
  ASSUME NEW S, NEW current \in Seq(S), NEW cuts, NEW adds \in Seq(S)
  PROVE  LET list == UpdatedList(current, cuts, adds)
         IN  /\ list \in Seq(S)
             /\ Members(list) = UpdatedMembers(Members(current), cuts, adds)
             /\ Unique(current) /\ Unique(adds) => Unique(list)
<1> DEFINE left == Without(current, Members(cuts))
           added == Without(adds, Members(left))
<1>1. /\ left \in Seq(S) /\ Members(left) = Members(current) \ Members(cuts)
      /\ Unique(current) => Unique(left)
  BY WithoutKeeps
<1> HIDE DEF left
<1>2. /\ added \in Seq(S) /\ Members(added) = Members(adds) \ Members(left)
      /\ Unique(adds) => Unique(added)
  BY WithoutKeeps
<1> HIDE DEF added
<1>3. UpdatedList(current, cuts, adds) = left \o added
  BY DEF UpdatedList, left, added
<1> QED
  BY <1>1, <1>2, <1>3, MembersConcat DEF UpdatedMembers

(* A stream cut after n and extended by m.                                 *)
LEMMA CutAndAppend ==
  ASSUME NEW S, NEW list \in Seq(S), NEW n \in 0..Len(list), NEW x \in S
  PROVE  LET cut == Append(SubSeq(list, 1, n), x)
         IN  /\ cut \in Seq(S)
             /\ Len(cut) = n + 1
             /\ \A i \in 1..n : cut[i] = list[i]
             /\ cut[n + 1] = x
<1>1. /\ SubSeq(list, 1, n) \in Seq(S)
      /\ Len(SubSeq(list, 1, n)) = n
      /\ \A i \in 1..n : SubSeq(list, 1, n)[i] = list[i]
  BY SubSeqProperties
<1> QED
  BY <1>1, AppendProperties

(* A genesis seeds the same state in both folds, and a well-typed one.     *)
LEMMA SeedAgrees ==
  ASSUME NEW e \in Event, e.kind \in {"icp", "dip"}, e.sn = 0
  PROVE  /\ SeedState(e) = Advance(None, e)
         /\ SeedState(e) \in State
         /\ SeedState(e).pre = e.pre /\ SeedState(e).sn = 0 /\ SeedState(e).said = e.said
         /\ SeedState(e).estSn = 0 /\ SeedState(e).estSaid = e.said
         /\ SeedState(e).delegator = None <=> e.kind = "icp"
<1>1. Members(e.wits) \in SUBSET Keys
  BY MembersAreKeys DEF Event, Shape
<1>2. SeedState(e) \in State
  BY <1>1, KeyStateAssumption DEF SeedState, State, Event, Shape, IsTransferable
<1>3. SeedState(e).delegator = None <=> e.kind = "icp"
  BY DEF SeedState, Event
<1>4. SeedState(e) = Advance(None, e)
  <2>1. CASE e.kind = "icp"
    <3>1. Advance(None, e) = Genesis(e)
      BY <2>1 DEF Advance, Rotations
    <3> QED
      BY <2>1, <3>1 DEF SeedState, Genesis
  <2>2. CASE e.kind = "dip"
    <3>1. Advance(None, e) = [Genesis(e) EXCEPT !.kind = "dip", !.delegator = e.di]
      BY <2>2 DEF Advance, Rotations
    <3> QED
      BY <2>2, <3>1 DEF SeedState, Genesis
  <2> QED
    BY <2>1, <2>2
<1> QED
  BY <1>2, <1>3, <1>4 DEF SeedState

(* A step leads the two folds to the same state, and a well-typed one.     *)
LEMMA StepAgrees ==
  ASSUME NEW s \in State, NEW e \in Event, e.kind \in {"rot", "drt", "ixn"}
  PROVE  /\ Apply(s, e) = Advance(s, e)
         /\ Advance(s, e) \in State
         /\ Advance(s, e).pre = s.pre /\ Advance(s, e).sn = e.sn /\ Advance(s, e).said = e.said
         /\ Advance(s, e).delegator = s.delegator
         /\ e.kind = "ixn" => Advance(s, e).estSn = s.estSn
         /\ e.kind # "ixn" => Advance(s, e).estSn = e.sn
<1>1. UpdatedMembers(s.wits, e.cuts, e.wits) \in SUBSET Keys
  BY UpdatedMembersAreKeys DEF State, Event, Shape
<1>2. s.transferable \in BOOLEAN
  BY DEF State
<1>3. CASE e.kind = "ixn"
  BY <1>3 DEF Apply, Advance, ApplyInteraction, Stepped, Rotations, State, Event, Shape, Kinds
<1>4. CASE e.kind \in Rotations
  <2>1. Advance(s, e) = Rolled(s, e) /\ Apply(s, e) = ApplyRotation(s, e)
    BY <1>4 DEF Advance, Apply, Rotations
  <2>2. ApplyRotation(s, e) = Rolled(s, e)
    BY <1>2 DEF ApplyRotation, Rolled, State
  <2>3. Rolled(s, e) \in State
    BY <1>1, <1>2, <1>4 DEF Rolled, State, Event, Shape, Kinds, Rotations
  <2> QED
    BY <2>1, <2>2, <2>3, <1>4 DEF Rolled, Rotations, State
<1> QED
  BY <1>3, <1>4 DEF Rotations

-----------------------------------------------------------------------------
(* Chains and what is replayed from them. The log is recovered, so what    *)
(* was filed is related to the chain the log was at that time.             *)

Follows(c, i) ==
  /\ c[i].sn = i - 1
  /\ i = 1 => c[i].kind \in {"icp", "dip"}
  /\ i # 1 => Kel!Fits(c[i], c[1]) /\ c[i].prior = c[i - 1].said

ChainWell(c) == c \in Seq(Events) /\ \A i \in 1..Len(c) : Follows(c, i)

StateAt(c, t, i) == IF i = 0 THEN None ELSE Advance(t[i - 1], c[i])
Replays(c, N, t) == t = [i \in 0..N |-> StateAt(c, t, i)]

ListAt(c, l, i) ==
  IF i = 0 THEN <<>>
  ELSE IF c[i].kind = "ixn" THEN l[i - 1]
  ELSE UpdatedList(l[i - 1], c[i].cuts, c[i].wits)
Lists(c, N, l) == l = [i \in 0..N |-> ListAt(c, l, i)]

(* The replay of any chain exists.                                         *)
LEMMA ReplayExists ==
  ASSUME NEW c
  PROVE  \A N \in Nat : \E t : Replays(c, N, t)
<1> SUFFICES ASSUME ~(\A N \in Nat : \E t : Replays(c, N, t)) PROVE FALSE
  OBVIOUS
<1> DEFINE missing == {N \in Nat : ~(\E t : Replays(c, N, t))}
<1>1. PICK N \in missing : \A M \in missing : N <= M
  <2>1. missing \in SUBSET Nat /\ missing # {}
    OBVIOUS
  <2> HIDE DEF missing
  <2> QED
    BY <2>1, LeastNumber
<1>2. N \in Nat /\ ~(\E t : Replays(c, N, t))
  BY <1>1
<1>3. CASE N = 0
  <2> DEFINE g == [i \in 0..0 |-> None]
  <2>1. \A i \in 0..0 : StateAt(c, g, i) = None
    BY DEF StateAt
  <2>2. Replays(c, 0, g)
    BY <2>1 DEF Replays
  <2> QED
    BY <1>2, <1>3, <2>2
<1>4. CASE N # 0
  <2>1. N - 1 \in Nat /\ ~(N <= N - 1)
    BY <1>2, <1>4
  <2>2. PICK t : Replays(c, N - 1, t)
    BY <1>1, <2>1
  <2> DEFINE g == [i \in 0..N |-> IF i = N THEN StateAt(c, t, N) ELSE t[i]]
  <2>3. \A i \in 0..(N - 1) : g[i] = t[i] /\ t[i] = StateAt(c, t, i)
    <3>1. \A i \in 0..(N - 1) : g[i] = t[i]
      BY <1>2
    <3>2. \A i \in 0..(N - 1) : t[i] = StateAt(c, t, i)
      BY <2>2 DEF Replays
    <3> QED
      BY <3>1, <3>2
  <2>4. g[N] = StateAt(c, t, N)
    BY <1>2
  <2>5. g = [i \in 0..N |-> g[i]]
    OBVIOUS
  <2> HIDE DEF g
  <2>6. ASSUME NEW i \in 0..N PROVE g[i] = StateAt(c, g, i)
    <3>1. i = 0 \/ i - 1 \in 0..(N - 1)
      BY <1>2
    <3>2. StateAt(c, t, i) = StateAt(c, g, i)
      BY <2>3, <3>1 DEF StateAt
    <3>3. i = N \/ i \in 0..(N - 1)
      BY <1>2
    <3> QED
      BY <2>3, <2>4, <3>2, <3>3
  <2>7. Replays(c, N, g)
    BY <2>5, <2>6 DEF Replays
  <2> QED
    BY <1>2, <2>7
<1> QED
  BY <1>3, <1>4

(* The witness lists of any chain exist.                                   *)
LEMMA ListsExist ==
  ASSUME NEW c
  PROVE  \A N \in Nat : \E l : Lists(c, N, l)
<1> SUFFICES ASSUME ~(\A N \in Nat : \E l : Lists(c, N, l)) PROVE FALSE
  OBVIOUS
<1> DEFINE missing == {N \in Nat : ~(\E l : Lists(c, N, l))}
<1>1. PICK N \in missing : \A M \in missing : N <= M
  <2>1. missing \in SUBSET Nat /\ missing # {}
    OBVIOUS
  <2> HIDE DEF missing
  <2> QED
    BY <2>1, LeastNumber
<1>2. N \in Nat /\ ~(\E l : Lists(c, N, l))
  BY <1>1
<1>3. CASE N = 0
  <2> DEFINE g == [i \in 0..0 |-> <<>>]
  <2>1. \A i \in 0..0 : ListAt(c, g, i) = <<>>
    BY DEF ListAt
  <2>2. Lists(c, 0, g)
    BY <2>1 DEF Lists
  <2> QED
    BY <1>2, <1>3, <2>2
<1>4. CASE N # 0
  <2>1. N - 1 \in Nat /\ ~(N <= N - 1)
    BY <1>2, <1>4
  <2>2. PICK l : Lists(c, N - 1, l)
    BY <1>1, <2>1
  <2> DEFINE g == [i \in 0..N |-> IF i = N THEN ListAt(c, l, N) ELSE l[i]]
  <2>3. \A i \in 0..(N - 1) : g[i] = l[i] /\ l[i] = ListAt(c, l, i)
    <3>1. \A i \in 0..(N - 1) : g[i] = l[i]
      BY <1>2
    <3>2. \A i \in 0..(N - 1) : l[i] = ListAt(c, l, i)
      BY <2>2 DEF Lists
    <3> QED
      BY <3>1, <3>2
  <2>4. g[N] = ListAt(c, l, N)
    BY <1>2
  <2>5. g = [i \in 0..N |-> g[i]]
    OBVIOUS
  <2> HIDE DEF g
  <2>6. ASSUME NEW i \in 0..N PROVE g[i] = ListAt(c, g, i)
    <3>1. i = 0 \/ i - 1 \in 0..(N - 1)
      BY <1>2
    <3>2. ListAt(c, l, i) = ListAt(c, g, i)
      BY <2>3, <3>1 DEF ListAt
    <3>3. i = N \/ i \in 0..(N - 1)
      BY <1>2
    <3> QED
      BY <2>3, <2>4, <3>2, <3>3
  <2>7. Lists(c, N, g)
    BY <2>5, <2>6 DEF Lists
  <2> QED
    BY <1>2, <2>7
<1> QED
  BY <1>3, <1>4

(* What the host reads from its log are these two tables.                  *)
LEMMA TablesOfLog ==
  ASSUME Len(log) \in Nat
  PROVE  Replays(log, Len(log), States) /\ Lists(log, Len(log), WitnessLists)
<1> DEFINE EqS(t) == t = [i \in 0..Len(log) |-> IF i = 0 THEN None
                                                ELSE Advance(t[i - 1], log[i])]
           EqL(l) == l = [i \in 0..Len(log) |->
                            IF i = 0 THEN <<>>
                            ELSE IF log[i].kind = "ixn" THEN l[i - 1]
                            ELSE UpdatedList(l[i - 1], log[i].cuts, log[i].wits)]
<1>1. Replays(log, Len(log), States)
  <2>1. \E t : EqS(t)
    <3>1. PICK t : Replays(log, Len(log), t)
      BY ReplayExists
    <3>2. EqS(t)
      BY <3>1 DEF Replays, StateAt
    <3> QED
      BY <3>2
  <2>2. States = CHOOSE t : EqS(t)
    BY DEF States
  <2> HIDE DEF EqS
  <2>3. EqS(States)
    BY <2>1, <2>2
  <2> QED
    BY <2>3 DEF EqS, Replays, StateAt
<1>2. Lists(log, Len(log), WitnessLists)
  <2>1. \E l : EqL(l)
    <3>1. PICK l : Lists(log, Len(log), l)
      BY ListsExist
    <3>2. EqL(l)
      BY <3>1 DEF Lists, ListAt
    <3> QED
      BY <3>2
  <2>2. WitnessLists = CHOOSE l : EqL(l)
    BY DEF WitnessLists
  <2> HIDE DEF EqL
  <2>3. EqL(WitnessLists)
    BY <2>1, <2>2
  <2> QED
    BY <2>3 DEF EqL, Lists, ListAt
<1> QED
  BY <1>1, <1>2

(* An event names the event before it, and names do not collide: two       *)
(* chains that share an event share all that came before.                  *)
LEMMA SameChain ==
  ASSUME NEW b, NEW c, ChainWell(b), ChainWell(c),
         NEW m \in 1..Len(b), NEW n \in 1..Len(c), b[m].said = c[n].said
  PROVE  m = n /\ \A k \in 1..m : b[k] = c[k]
<1>1. /\ b \in Seq(Events) /\ c \in Seq(Events) /\ Len(b) \in Nat /\ Len(c) \in Nat
      /\ \A k \in 1..Len(b) : b[k] \in Events
      /\ \A k \in 1..Len(c) : c[k] \in Events
  BY DEF ChainWell
<1>2. \A e, f \in Events : e.said = f.said => e = f
  BY WatcherAssumption
<1>3. b[m] = c[n]
  BY <1>1, <1>2
<1>4. b[m].sn = m - 1 /\ c[n].sn = n - 1
  BY DEF ChainWell, Follows
<1>5. m = n
  BY <1>1, <1>3, <1>4
<1> DEFINE bad == {k \in 0..(m - 1) : b[m - k] # c[m - k]}
<1>6. bad = {}
  <2> SUFFICES ASSUME bad # {} PROVE FALSE
    OBVIOUS
  <2>1. bad \in SUBSET Nat
    OBVIOUS
  <2>2. PICK k \in bad : \A j \in bad : k <= j
    <3> HIDE DEF bad
    <3> QED
      BY <2>1, LeastNumber
  <2>3. k \in 0..(m - 1) /\ b[m - k] # c[m - k] /\ k # 0
    BY <1>3, <1>5, <2>2
  <2>4. /\ k - 1 \in 0..(m - 1) /\ ~(k <= k - 1) /\ m - (k - 1) = m - k + 1
        /\ m - k + 1 \in 1..Len(b) /\ m - k + 1 \in 1..Len(c) /\ m - k + 1 # 1
        /\ m - k + 1 - 1 = m - k /\ m - k \in 1..Len(b) /\ m - k \in 1..Len(c)
    BY <1>1, <1>5, <2>3
  <2>5. k - 1 \notin bad
    BY <2>2, <2>4
  <2>6. b[m - k + 1] = c[m - k + 1]
    BY <2>4, <2>5
  <2>7. /\ b[m - k + 1].prior = b[m - k].said
        /\ c[m - k + 1].prior = c[m - k].said
    BY <2>4 DEF ChainWell, Follows
  <2> QED
    BY <1>1, <1>2, <2>3, <2>4, <2>6, <2>7
<1>7. ASSUME NEW k \in 1..m PROVE b[k] = c[k]
  <2>1. m - k \in 0..(m - 1) /\ m - (m - k) = k
    BY <1>1
  <2> QED
    BY <1>6, <2>1
<1> QED
  BY <1>5, <1>7

(* The witness lists of two chains agree as far as the chains do.          *)
LEMMA ListsAgree ==
  ASSUME NEW b, NEW c, NEW M \in Nat, NEW N \in Nat, NEW l, NEW m,
         Lists(b, M, l), Lists(c, N, m),
         NEW i \in 0..M, i <= N, \A k \in 1..i : b[k] = c[k]
  PROVE  l[i] = m[i]
<1> DEFINE bad == {k \in 0..i : l[k] # m[k]}
<1>1. /\ \A k \in 0..M : l[k] = ListAt(b, l, k)
      /\ \A k \in 0..N : m[k] = ListAt(c, m, k)
  BY DEF Lists
<1>2. bad = {}
  <2> SUFFICES ASSUME bad # {} PROVE FALSE
    OBVIOUS
  <2>1. bad \in SUBSET Nat
    OBVIOUS
  <2>2. PICK k \in bad : \A j \in bad : k <= j
    <3> HIDE DEF bad
    <3> QED
      BY <2>1, LeastNumber
  <2>3. k \in 0..i /\ k \in 0..M /\ k \in 0..N /\ l[k] # m[k]
    BY <2>2
  <2>4. k # 0
    BY <1>1, <2>3 DEF ListAt
  <2>5. k \in 1..i /\ k - 1 \in 0..i /\ ~(k <= k - 1)
    BY <2>3, <2>4
  <2>6. l[k - 1] = m[k - 1] /\ b[k] = c[k]
    BY <2>2, <2>5
  <2>7. ListAt(b, l, k) = ListAt(c, m, k)
    BY <2>6 DEF ListAt
  <2> QED
    BY <1>1, <2>3, <2>7
<1>3. i \in 0..i
  OBVIOUS
<1> QED
  BY <1>2, <1>3

(* What the trusted fold and the witness lists say at a place of a chain:  *)
(* the same witnesses, in a list without repetitions, and an establishment *)
(* exactly where the coordinate of the state says.                         *)
ReadsAt(c, t, l, i) ==
  /\ t[i] \in State
  /\ l[i] \in Seq(Keys) /\ Members(l[i]) = t[i].wits /\ Unique(l[i])
  /\ t[i].estSn <= i - 1
  /\ t[i].estSn = i - 1 =>
       /\ c[i].kind \in Establishments
       /\ t[i].estSaid = c[i].said
       /\ t[i].keys = c[i].keys /\ t[i].kt = c[i].kt

(* The first list: what the inception names, in its order.                 *)
LEMMA FirstList ==
  ASSUME NEW cuts, NEW adds \in Seq(Keys), Unique(adds),
         NEW list, list = UpdatedList(<<>>, cuts, adds)
  PROVE  list \in Seq(Keys) /\ Unique(list) /\ Members(list) = Members(adds)
<1>1. <<>> \in Seq(Keys)
  OBVIOUS
<1>2. Unique(<<>>) /\ Members(<<>>) = {}
  BY DEF Unique, Members
<1>3. /\ UpdatedList(<<>>, cuts, adds) \in Seq(Keys)
      /\ Members(UpdatedList(<<>>, cuts, adds)) = UpdatedMembers(Members(<<>>), cuts, adds)
      /\ Unique(<<>>) /\ Unique(adds) => Unique(UpdatedList(<<>>, cuts, adds))
  BY <1>1, UpdatedListKeeps
<1>4. UpdatedMembers(Members(<<>>), cuts, adds) = Members(adds)
  BY <1>2 DEF UpdatedMembers
<1> QED
  BY <1>2, <1>3, <1>4

(* So at its first event.                                                  *)
LEMMA ReadsFirst ==
  ASSUME NEW e \in Event, e.kind \in {"icp", "dip"}, e.sn = 0, Unique(e.wits),
         NEW c, NEW t, NEW l, c[1] = e, t[1] = Advance(None, e),
         l[1] = UpdatedList(<<>>, e.cuts, e.wits)
  PROVE  ReadsAt(c, t, l, 1)
<1>1. SeedState(e) = Advance(None, e) /\ SeedState(e) \in State
  BY SeedAgrees
<1>2. e.wits \in Seq(Keys)
  BY DEF Event, Shape
<1>3. l[1] \in Seq(Keys) /\ Unique(l[1]) /\ Members(l[1]) = Members(e.wits)
  BY <1>2, FirstList
<1>5. /\ t[1].wits = Members(e.wits) /\ t[1].estSn = 0 /\ t[1].estSaid = e.said
      /\ t[1].keys = e.keys /\ t[1].kt = e.kt
  BY <1>1 DEF SeedState
<1> QED
  BY <1>1, <1>3, <1>5 DEF ReadsAt, Establishments

(* And at the next, if so at the one before.                               *)
LEMMA ReadsNext ==
  ASSUME NEW e \in Event, e.kind \in {"rot", "drt", "ixn"}, Unique(e.wits),
         NEW i \in Nat \ {0, 1}, e.sn = i - 1,
         NEW c, NEW t, NEW l, c[i] = e, t[i] = Advance(t[i - 1], e),
         l[i] = IF e.kind = "ixn" THEN l[i - 1] ELSE UpdatedList(l[i - 1], e.cuts, e.wits),
         ReadsAt(c, t, l, i - 1)
  PROVE  ReadsAt(c, t, l, i)
<1> DEFINE s == t[i - 1]
<1>1. /\ s \in State /\ l[i - 1] \in Seq(Keys) /\ Members(l[i - 1]) = s.wits
      /\ Unique(l[i - 1]) /\ s.estSn <= i - 2 /\ s.estSn \in Nat
  BY DEF ReadsAt, State
<1>2. /\ t[i] \in State
      /\ e.kind = "ixn" => t[i].estSn = s.estSn
      /\ e.kind # "ixn" => t[i].estSn = i - 1
  BY <1>1, StepAgrees
<1>3. CASE e.kind = "ixn"
  <2>1. t[i] = Stepped(s, e)
    BY <1>3 DEF Advance, Rotations
  <2>2. t[i].wits = s.wits
    BY <1>1, <2>1 DEF Stepped, State
  <2> QED
    BY <1>1, <1>2, <1>3, <2>2 DEF ReadsAt
<1>4. CASE e.kind \in Rotations
  <2>1. t[i] = Rolled(s, e) /\ e.kind # "ixn"
    BY <1>4 DEF Advance, Rotations
  <2>2. /\ t[i].wits = UpdatedMembers(s.wits, e.cuts, e.wits) /\ t[i].estSaid = e.said
        /\ t[i].keys = e.keys /\ t[i].kt = e.kt
    BY <1>1, <2>1 DEF Rolled, State
  <2>3. e.wits \in Seq(Keys)
    BY DEF Event, Shape
  <2>4. /\ l[i] \in Seq(Keys) /\ Unique(l[i])
        /\ Members(l[i]) = UpdatedMembers(Members(l[i - 1]), e.cuts, e.wits)
    BY <1>1, <2>1, <2>3, UpdatedListKeeps
  <2> QED
    BY <1>1, <1>2, <1>4, <2>1, <2>2, <2>4 DEF ReadsAt, Rotations, Establishments
<1> QED
  BY <1>3, <1>4 DEF Rotations

(* And so at every place.                                                  *)
LEMMA ReadsEverywhere ==
  ASSUME NEW c, NEW t, NEW l, ChainWell(c), Replays(c, Len(c), t), Lists(c, Len(c), l)
  PROVE  \A i \in 1..Len(c) : ReadsAt(c, t, l, i)
<1>1. /\ Len(c) \in Nat
      /\ \A i \in 1..Len(c) : c[i] \in Events /\ c[i] \in Event /\ Unique(c[i].wits)
  BY WatcherAssumption DEF ChainWell
<1>2. /\ \A i \in 0..Len(c) : t[i] = StateAt(c, t, i)
      /\ \A i \in 0..Len(c) : l[i] = ListAt(c, l, i)
  BY DEF Replays, Lists
<1>3. ASSUME 1 \in 1..Len(c) PROVE ReadsAt(c, t, l, 1)
  <2>1. t[0] = None /\ l[0] = <<>> /\ t[1] = Advance(t[0], c[1]) /\ 1 - 1 = 0
    BY <1>1, <1>2, <1>3 DEF StateAt, ListAt
  <2>2. c[1].kind \in {"icp", "dip"} /\ c[1].sn = 0
    BY <1>3 DEF ChainWell, Follows
  <2>3. l[1] = UpdatedList(<<>>, c[1].cuts, c[1].wits)
    BY <1>1, <1>2, <1>3, <2>1, <2>2 DEF ListAt
  <2> QED
    BY <1>1, <1>3, <2>1, <2>2, <2>3, ReadsFirst
<1>4. ASSUME NEW i \in 2..Len(c), ReadsAt(c, t, l, i - 1) PROVE ReadsAt(c, t, l, i)
  <2>1. i \in 1..Len(c) /\ i \in 0..Len(c) /\ i # 0 /\ i # 1 /\ i \in Nat
    BY <1>1
  <2>2. c[i].kind \in {"rot", "drt", "ixn"} /\ c[i].sn = i - 1
    BY <2>1 DEF ChainWell, Follows, Kel!Fits
  <2>3. /\ t[i] = Advance(t[i - 1], c[i])
        /\ l[i] = IF c[i].kind = "ixn" THEN l[i - 1]
                  ELSE UpdatedList(l[i - 1], c[i].cuts, c[i].wits)
    BY <1>2, <2>1 DEF StateAt, ListAt
  <2> QED
    BY <1>1, <1>4, <2>1, <2>2, <2>3, ReadsNext
<1> DEFINE bad == {i \in 1..Len(c) : ~ReadsAt(c, t, l, i)}
<1>5. bad = {}
  <2> SUFFICES ASSUME bad # {} PROVE FALSE
    OBVIOUS
  <2>1. bad \in SUBSET Nat
    OBVIOUS
  <2>2. PICK i \in bad : \A j \in bad : i <= j
    <3> HIDE DEF bad
    <3> QED
      BY <2>1, LeastNumber
  <2>3. i \in 1..Len(c) /\ ~ReadsAt(c, t, l, i)
    BY <2>2
  <2>4. i # 1
    BY <1>3, <2>3
  <2>5. i \in 2..Len(c) /\ i - 1 \in 1..Len(c) /\ ~(i <= i - 1)
    BY <1>1, <2>3, <2>4
  <2>6. ReadsAt(c, t, l, i - 1)
    BY <2>2, <2>5
  <2> QED
    BY <1>4, <2>3, <2>5, <2>6
<1> QED
  BY <1>5

-----------------------------------------------------------------------------
(* The inductive invariant.                                                *)

(* A filed receipt speaks for a position of the witness list of the event  *)
(* it names, in the chain that led to that event.                          *)
SpeaksAt(c, l, i, d, n) ==
  /\ c[i].said = d
  /\ n.position \in DOMAIN l[i]
  /\ \E sig \in n.receipt.sigs : sig.signer = l[i][n.position] /\ sig.over = d

Speaks(d, n) ==
  \E c, l : /\ ChainWell(c) /\ Lists(c, Len(c), l)
            /\ \E i \in 1..Len(c) : SpeaksAt(c, l, i, d, n)

TallyWell == DOMAIN tally = Saids /\ \A d \in Saids : \A n \in tally[d] : Speaks(d, n)

(* What stands is a reply about its resource, its marker the version of it.*)
StandsWell(r) ==
  /\ standing[r] = None => marker[r] = None
  /\ standing[r] # None =>
       /\ standing[r] \in Posts /\ standing[r].kind = "rpy"
       /\ standing[r].resource = r
       /\ Len(standing[r].signers) = 1
       /\ ValidTime(standing[r].time)
       /\ marker[r] = Version(standing[r].signers[1], standing[r].time)

StandingWell ==
  /\ DOMAIN standing = Resources /\ DOMAIN marker = Resources
  /\ \A r \in Resources : StandsWell(r)

(* Recoveries of a delegated log may replace an establishment.             *)
Delegated == log # <<>> /\ log[1].kind = "dip"

IInv ==
  /\ ChainWell(log)
  /\ TallyWell
  /\ StandingWell
  /\ Delegated \/ StandingIsBacked

(* It holds at the start, when nothing is filed, stands or was served.     *)
LEMMA InitIInv == Init => IInv
<1> SUFFICES ASSUME Init PROVE IInv
  OBVIOUS
<1>1. ChainWell(log)
  <2>1. CASE log = <<>>
    BY <2>1 DEF ChainWell
  <2>2. ASSUME NEW e \in Events, Kel!Genesis(e), log = <<e>> PROVE ChainWell(log)
    <3>1. log \in Seq(Events) /\ Len(log) = 1 /\ log[1] = e
      BY <2>2
    <3>2. e.kind \in {"icp", "dip"} /\ e.sn = 0
      BY <2>2 DEF Kel!Genesis
    <3>3. \A i \in 1..Len(log) : i = 1
      BY <3>1
    <3> QED
      BY <3>1, <3>2, <3>3 DEF ChainWell, Follows
  <2> QED
    BY <2>1, <2>2 DEF Init, Kel!Init
<1>2. TallyWell
  BY DEF Init, TallyWell
<1>3. StandingWell
  BY DEF Init, StandingWell, StandsWell
<1>4. StandingIsBacked
  BY DEF Init, StandingIsBacked
<1> QED
  BY <1>1, <1>2, <1>3, <1>4 DEF IInv

(* The log keeps its first event and every event that is neither an        *)
(* interaction nor a delegated rotation, and stays a chain.                *)
LEMMA LogMoves ==
  ASSUME ChainWell(log), Kel!Next
  PROVE  /\ ChainWell(log)'
         /\ log # <<>> => log' # <<>> /\ log'[1] = log[1]
         /\ \A n \in 1..Len(log) :
              log[n].kind \notin {"ixn", "drt"} => n \in 1..Len(log') /\ log'[n] = log[n]
<1>1. PICK e \in Events : Kel!Found(e) \/ Kel!Extend(e) \/ Kel!Recover(e)
  BY DEF Kel!Next
<1>2. log \in Seq(Events) /\ Len(log) \in Nat /\ \A i \in 1..Len(log) : Follows(log, i)
  BY DEF ChainWell
<1>3. CASE Kel!Found(e)
  <2>1. log = <<>> /\ log' = <<e>> /\ e.kind \in {"icp", "dip"} /\ e.sn = 0
    BY <1>3 DEF Kel!Found, Kel!Genesis
  <2>2. log' \in Seq(Events) /\ Len(log') = 1 /\ log'[1] = e /\ \A i \in 1..Len(log') : i = 1
    BY <2>1
  <2>3. ChainWell(log')
    BY <2>1, <2>2 DEF ChainWell, Follows
  <2> QED
    BY <2>1, <2>3
<1>4. ASSUME NEW k \in 1..Len(log),
             Kel!ChainsTo(e, SubSeq(log, 1, k)), Kel!Fits(e, log[1]),
             log' = Append(SubSeq(log, 1, k), e)
      PROVE  /\ ChainWell(log') /\ log' # <<>> /\ log'[1] = log[1]
             /\ Len(log') = k + 1 /\ \A i \in 1..k : log'[i] = log[i]
  <2>1. /\ log' \in Seq(Events) /\ Len(log') = k + 1
        /\ \A i \in 1..k : log'[i] = log[i]
        /\ log'[k + 1] = e
    BY <1>2, <1>4, CutAndAppend
  <2>2. /\ SubSeq(log, 1, k) # <<>> /\ Len(SubSeq(log, 1, k)) = k
        /\ SubSeq(log, 1, k)[k] = log[k]
    BY <1>2
  <2>3. e.sn = k /\ e.prior = log[k].said
    BY <1>4, <2>2 DEF Kel!ChainsTo
  <2>4. log'[1] = log[1] /\ log' # <<>>
    BY <2>1
  <2>5. ASSUME NEW i \in 1..(k + 1) PROVE Follows(log', i)
    <3>1. CASE i = k + 1
      <4>1. i # 1 /\ i - 1 = k /\ k \in 1..k
        BY <3>1
      <4> QED
        BY <1>4, <2>1, <2>3, <2>4, <3>1, <4>1 DEF Follows
    <3>2. CASE i \in 1..k
      <4>1. i \in 1..Len(log) /\ (i # 1 => i - 1 \in 1..k)
        BY <1>2, <3>2
      <4> QED
        BY <1>2, <2>1, <2>4, <3>2, <4>1 DEF Follows
    <3> QED
      BY <3>1, <3>2
  <2> QED
    BY <2>1, <2>4, <2>5 DEF ChainWell
<1>5. CASE Kel!Extend(e)
  <2>1. log # <<>> /\ Len(log) \in 1..Len(log) /\ SubSeq(log, 1, Len(log)) = log
    BY <1>2, <1>5 DEF Kel!Extend
  <2>2. Kel!ChainsTo(e, SubSeq(log, 1, Len(log))) /\ Kel!Fits(e, log[1])
        /\ log' = Append(SubSeq(log, 1, Len(log)), e)
    BY <1>5, <2>1 DEF Kel!Extend
  <2>3. \A n \in 1..Len(log) : n \in 1..(Len(log) + 1)
    BY <1>2
  <2> QED
    BY <1>4, <2>1, <2>2, <2>3
<1>6. CASE Kel!Recover(e)
  <2> DEFINE k == e.sn
  <2>1. /\ k \in 1..(Len(log) - 1)
        /\ Kel!ChainsTo(e, SubSeq(log, 1, k)) /\ Kel!Fits(e, log[1])
        /\ log' = Append(SubSeq(log, 1, k), e)
        /\ log[k + 1].kind \in {"ixn", "drt"}
        /\ \A i \in (k + 2)..Len(log) : log[i].kind = "ixn"
    BY <1>6 DEF Kel!Recover
  <2> HIDE DEF k
  <2>2. k \in 1..Len(log)
    BY <1>2, <2>1
  <2>3. \A n \in 1..Len(log) : n \in 1..k \/ n = k + 1 \/ n \in (k + 2)..Len(log)
    BY <1>2, <2>2
  <2>4. \A n \in 1..Len(log) : log[n].kind \notin {"ixn", "drt"} => n \in 1..k
    BY <2>1, <2>3
  <2>5. \A n \in 1..k : n \in 1..(k + 1)
    BY <2>2
  <2> QED
    BY <1>4, <2>1, <2>2, <2>4, <2>5
<1> QED
  BY <1>1, <1>3, <1>5, <1>6

-----------------------------------------------------------------------------
(* Receipts.                                                               *)

(* The position of a witness is a place of the list where it stands.       *)
LEMMA PositionIsWitness ==
  ASSUME NEW wits \in Seq(Keys), NEW prefix, WitnessPosition(wits, prefix) # 0
  PROVE  /\ WitnessPosition(wits, prefix) \in DOMAIN wits
         /\ wits[WitnessPosition(wits, prefix)] = prefix
<1> DEFINE at == {p \in DOMAIN wits : wits[p] = prefix}
<1>1. at \in SUBSET Nat
  OBVIOUS
<1>2. at # {} /\ WitnessPosition(wits, prefix) = CHOOSE p \in at : \A q \in at : p <= q
  BY DEF WitnessPosition
<1>3. \E p \in at : \A q \in at : p <= q
  <2> HIDE DEF at
  <2> QED
    BY <1>1, <1>2, LeastNumber
<1>4. WitnessPosition(wits, prefix) \in at
  <2> HIDE DEF at
  <2> QED
    BY <1>2, <1>3
<1> QED
  BY <1>4

(* A receipt that passes and speaks for a position of the witness list is  *)
(* signed, over the event, by the witness there.                           *)
LEMMA ReceiptPasses ==
  ASSUME NEW e, NEW wits \in Seq(Keys), NEW r \in Receipt, NEW est,
         ReceiptVerdict(e, wits, r, est) = "Ok"
  PROVE  /\ r.said = e.said
         /\ PositionOf(wits, r) # 0 =>
              /\ PositionOf(wits, r) \in DOMAIN wits
              /\ \E sig \in r.sigs :
                   sig.signer = wits[PositionOf(wits, r)] /\ sig.over = e.said
<1>1. NamedBy(e, r) = "Ok"
  BY BothPass DEF ReceiptVerdict
<1>2. r.said = e.said
  BY <1>1 DEF NamedBy, Require
<1>3. r.by \in {"couple", "wig", "group"} /\ r.sigs \subseteq EventSignature
      /\ (r.by # "group" => \E sig \in r.sigs : r.sigs = {sig})
  BY DEF Receipt
<1>4. (IF r.by = "group" THEN EndorsedBy(e, r, est)
       ELSE IF r.by = "wig" THEN (IF \A sig \in r.sigs : VerifyWig(wits, e, sig) = "Ok"
                                  THEN "Ok" ELSE "Signature")
       ELSE Require(\A sig \in r.sigs : Verifies(sig, r.endorser, e), "Signature")) = "Ok"
  BY <1>1 DEF ReceiptVerdict, &&
<1>5. CASE r.by = "wig"
  <2>1. PICK sig \in r.sigs : r.sigs = {sig}
    BY <1>3, <1>5
  <2>2. VerifyWig(wits, e, sig) = "Ok"
    BY <1>4, <1>5, <2>1
  <2>3. sig.index + 1 \in DOMAIN wits /\ sig.signer = wits[sig.index + 1] /\ sig.over = e.said
    BY <2>2 DEF VerifyWig, Require, Verifies
  <2>4. (CHOOSE s \in r.sigs : TRUE) = sig
    BY <2>1
  <2>5. PositionOf(wits, r) = sig.index + 1
    BY <1>5, <2>4 DEF PositionOf
  <2> QED
    BY <1>2, <2>3, <2>5
<1>6. CASE r.by = "couple"
  <2>1. PICK sig \in r.sigs : r.sigs = {sig}
    BY <1>3, <1>6
  <2>2. sig.signer = r.endorser /\ sig.over = e.said
    BY <1>4, <1>6, <2>1 DEF Require, Verifies
  <2>3. PositionOf(wits, r) = WitnessPosition(wits, r.endorser)
    BY <1>6 DEF PositionOf
  <2> QED
    BY <1>2, <2>2, <2>3, PositionIsWitness
<1>7. CASE r.by = "group"
  BY <1>2, <1>7 DEF PositionOf
<1> QED
  BY <1>3, <1>5, <1>6, <1>7

(* A post is what its kind says.                                           *)
LEMMA PostKinds ==
  ASSUME NEW p \in Posts
  PROVE  /\ p.kind = "rct" => p \in Receipt
         /\ p.kind \in {"rpy", "qry"} => p \in Routed
         /\ p.kind \in {"rct", "rpy", "qry"}
BY WatcherAssumption DEF Receipt, Routed

(* Filing keeps every filed receipt speaking for its position.             *)
LEMMA FileKeepsTally ==
  ASSUME ChainWell(log), TallyWell, NEW r \in Posts, r.kind = "rct", File(r)
  PROVE  TallyWell'
<1> DEFINE i == r.sn + 1
           wits == Governing(r.sn + 1)
           position == PositionOf(wits, r)
           n == [receipt |-> r, position |-> position]
<1>1. r \in Receipt /\ r.said \in Saids
  BY PostKinds DEF Receipt
<1>2. Len(log) \in Nat /\ i \in 1..Len(log) /\ ReceiptVerdict(log[i], wits, r, Receiptor(r)) = "Ok"
  BY DEF File, VerdictOn, ChainWell
<1>3. CASE position = 0
  BY <1>3 DEF File, TallyWell
<1>4. CASE position # 0
  <2>1. /\ Replays(log, Len(log), States) /\ Lists(log, Len(log), WitnessLists)
        /\ ReadsAt(log, States, WitnessLists, i)
    BY <1>2, TablesOfLog, ReadsEverywhere
  <2>2. wits = WitnessLists[i] /\ wits \in Seq(Keys)
    BY <2>1 DEF ReadsAt, Governing
  <2>3. /\ r.said = log[i].said /\ position \in DOMAIN wits
        /\ \E sig \in r.sigs : sig.signer = wits[position] /\ sig.over = log[i].said
    <3>1. position = PositionOf(wits, r)
      OBVIOUS
    <3> DEFINE e == log[i]
               est == Receiptor(r)
    <3>2. r \in Receipt /\ wits \in Seq(Keys) /\ ReceiptVerdict(e, wits, r, est) = "Ok"
      BY <1>1, <1>2, <2>2
    <3> HIDE DEF i, wits, position, n, e, est
    <3>3. /\ r.said = e.said
          /\ PositionOf(wits, r) # 0 =>
               /\ PositionOf(wits, r) \in DOMAIN wits
               /\ \E sig \in r.sigs :
                    sig.signer = wits[PositionOf(wits, r)] /\ sig.over = e.said
      BY <3>2, ReceiptPasses
    <3> QED
      BY <1>4, <3>1, <3>3 DEF e
  <2>4. tally' = [tally EXCEPT ![r.said] = @ \cup {n}]
    BY <1>4 DEF File
  <2>5. Speaks(r.said, n)
    <3>1. n.position = position /\ n.receipt = r
      OBVIOUS
    <3> HIDE DEF n, position, wits, i
    <3>2. SpeaksAt(log, WitnessLists, i, r.said, n)
      BY <2>2, <2>3, <3>1 DEF SpeaksAt
    <3> QED
      BY <1>2, <2>1, <3>2 DEF Speaks
  <2> HIDE DEF n
  <2>6. DOMAIN tally' = Saids
        /\ \A d \in Saids : tally'[d] = IF d = r.said THEN tally[d] \cup {n} ELSE tally[d]
    BY <1>1, <2>4 DEF TallyWell
  <2> QED
    BY <1>1, <2>5, <2>6 DEF TallyWell
<1> QED
  BY <1>3, <1>4

(* Counting: as many witnesses signed an event as there are positions that *)
(* filed receipts speak for.                                               *)
LEMMA TallyIsSigned ==
  ASSUME ChainWell(log), TallyWell, NEW i \in 1..Len(log)
  PROVE  LET positions == {n.position : n \in tally[log[i].said]} \cap DOMAIN Governing(i)
         IN  /\ States[i].toad \in Nat
             /\ IsFiniteSet(Signed(i)) /\ IsFiniteSet(positions)
             /\ Cardinality(positions) <= Cardinality(Signed(i))
             /\ Cardinality(Signed(i)) \in Nat
<1> DEFINE d == log[i].said
           list == WitnessLists[i]
           positions == {n.position : n \in tally[d]} \cap DOMAIN list
<1>1. /\ Len(log) \in Nat /\ log[i] \in Events /\ d \in Saids
      /\ Lists(log, Len(log), WitnessLists)
      /\ ReadsAt(log, States, WitnessLists, i)
  <2>1. Len(log) \in Nat /\ log[i] \in Events
    BY DEF ChainWell
  <2>2. d \in Saids
    BY <2>1, WatcherAssumption DEF Event, Shape
  <2> QED
    BY <2>1, <2>2, TablesOfLog, ReadsEverywhere
<1>2. list \in Seq(Keys) /\ Unique(list) /\ Members(list) = States[i].wits /\ States[i] \in State
  BY <1>1 DEF ReadsAt
<1>3. ASSUME NEW p \in positions PROVE list[p] \in Signed(i)
  <2>1. PICK n \in tally[d] : n.position = p
    OBVIOUS
  <2>2. Speaks(d, n)
    BY <1>1 DEF TallyWell
  <2>3. PICK c, l : /\ ChainWell(c) /\ Lists(c, Len(c), l)
                    /\ \E j \in 1..Len(c) : SpeaksAt(c, l, j, d, n)
    BY <2>2 DEF Speaks
  <2>4. PICK j \in 1..Len(c) : SpeaksAt(c, l, j, d, n)
    BY <2>3
  <2>5. c[j].said = log[i].said
    BY <2>4 DEF SpeaksAt
  <2>6. j = i /\ \A k \in 1..i : log[k] = c[k]
    BY <2>3, <2>5, SameChain
  <2>7. Len(c) \in Nat /\ i \in 0..Len(log) /\ i <= Len(c)
    BY <1>1, <2>3, <2>4, <2>6 DEF ChainWell
  <2>8. l[i] = list
    BY <1>1, <2>3, <2>6, <2>7, ListsAgree
  <2>9. \E sig \in n.receipt.sigs : sig.signer = list[p] /\ sig.over = d
    BY <2>1, <2>4, <2>6, <2>8 DEF SpeaksAt
  <2>10. list[p] \in States[i].wits
    BY <1>2 DEF Members
  <2> QED
    BY <2>9, <2>10 DEF Signed, Verifies
<1>4. IsFiniteSet(Signed(i))
  <2>1. IsFiniteSet(Members(list)) /\ Signed(i) \subseteq Members(list)
    BY <1>2, MembersFinite DEF Signed
  <2> QED
    BY <2>1, FS_Subset
<1>5. IsFiniteSet(positions)
  <2>1. Len(list) \in Nat /\ DOMAIN list = 1..Len(list)
    BY <1>2
  <2>2. IsFiniteSet(DOMAIN list)
    BY <2>1, FS_Interval
  <2> QED
    BY <2>2, FS_Subset
<1> DEFINE place == [p \in positions |-> list[p]]
<1>6. place \in Injection(positions, Signed(i))
  <2>1. \A p, q \in positions : place[p] = place[q] => p = q
    BY <1>2 DEF Unique
  <2>2. place \in [positions -> Signed(i)]
    BY <1>3
  <2> HIDE DEF place, positions
  <2> QED
    BY <2>1, <2>2 DEF Injection, IsInjective
<1>7. Cardinality(positions) <= Cardinality(Signed(i))
  <2> HIDE DEF place, positions
  <2> QED
    BY <1>4, <1>6, FS_Injection
<1>8. Cardinality(Signed(i)) \in Nat
  BY <1>4, FS_CardinalityType
<1>9. States[i].toad \in Nat
  BY <1>2 DEF State
<1> QED
  BY <1>4, <1>5, <1>7, <1>8, <1>9 DEF Governing

(* Accounted for means signed for, by as many witnesses as are asked.      *)
LEMMA TallyWitnesses == ChainWell(log) /\ TallyWell => WitnessedByToad
<1> SUFFICES ASSUME ChainWell(log), TallyWell, NEW i \in DOMAIN log, Accounted(i)
             PROVE  Cardinality(Signed(i)) >= States[i].toad
  BY DEF WitnessedByToad
<1> DEFINE positions == {n.position : n \in tally[log[i].said]} \cap DOMAIN Governing(i)
<1>1. i \in 1..Len(log)
  BY DEF ChainWell
<1>2. /\ States[i].toad \in Nat /\ IsFiniteSet(positions)
      /\ Cardinality(positions) <= Cardinality(Signed(i))
      /\ Cardinality(Signed(i)) \in Nat
  BY <1>1, TallyIsSigned
<1>3. States[i].toad = 0 \/ Cardinality(positions) >= States[i].toad
  BY DEF Accounted, AccountedBy, Require
<1> HIDE DEF positions
<1>4. Cardinality(positions) \in Nat
  BY <1>2, FS_CardinalityType
<1> QED
  BY <1>2, <1>3, <1>4

-----------------------------------------------------------------------------
(* Replies and queries.                                                    *)

(* What a judgement that passes establishes.                               *)
LEMMA JudgePasses ==
  ASSUME NEW owner, NEW time, NEW signer, NEW historical, NEW previous,
         Judge(owner, time, signer, historical, previous) = "Ok"
  PROVE  /\ ValidTime(time)
         /\ JudgeSigner(owner, signer, historical) = "Ok"
         /\ ~IsStale(Version(signer, time), previous)
<1>1. /\ Require(ValidTime(time), "InvalidTimestamp") = "Ok"
      /\ JudgeSigner(owner, signer, historical) = "Ok"
      /\ Require(~IsStale(Version(signer, time), previous), "Stale") = "Ok"
  BY BothPass DEF Judge
<1> QED
  BY <1>1 DEF Require

(* one_signer lets pass a message of exactly one signer.                   *)
LEMMA OneSignerPasses ==
  ASSUME NEW p, OneSigner(p) = "Ok"
  PROVE  Len(p.signers) = 1 /\ p.signers # <<>>
BY DEF OneSigner, Require

(* A reply that passes has one signer and passes the judge.                *)
LEMMA ReplyPasses ==
  ASSUME NEW p, NEW historical, NEW subject, NEW wits, NEW previous,
         ReplyVerdict(p, historical, subject, wits, previous) = "Ok"
  PROVE  /\ Len(p.signers) = 1 /\ p.signers # <<>>
         /\ Judge(p.subject, p.time, p.signers[1], historical, previous) = "Ok"
<1> DEFINE judged == Judge(p.subject, p.time, p.signers[1], historical, previous)
           noticed == IF p.route # "/ksn" THEN "Ok"
                      ELSE IF subject = None THEN "MissingSubjectState"
                      ELSE Require(NoticeMatchesState(p.notice, subject, wits), "SubjectStateMismatch")
           first == Require(p.kind = "rpy" /\ p.route \in Routes \ {"/logs"}, "UnsupportedRoute")
                    && Require(p.wellFormed, "MalformedRoute")
           last == IF p.route = "/oobi/witness" THEN "UntrustedHint"
                   ELSE OneSigner(p) && judged && noticed
<1>1. (first && last) = "Ok"
  BY DEF ReplyVerdict
<1>2. last = "Ok"
  <2> HIDE DEF first, last
  <2> QED
    BY <1>1, BothPass
<1>3. (OneSigner(p) && judged && noticed) = "Ok"
  <2> HIDE DEF judged, noticed
  <2> QED
    BY <1>2
<1>4. OneSigner(p) = "Ok" /\ judged = "Ok"
  <2> HIDE DEF judged, noticed
  <2>1. (OneSigner(p) && judged) = "Ok"
    BY <1>3, BothPass
  <2> QED
    BY <2>1, BothPass
<1> QED
  BY <1>4, OneSignerPasses

(* Whoever asks, the judge knows the signer.                               *)
LEMMA QueryPasses ==
  ASSUME NEW p, NEW historical, QueryVerdict(p, historical) = "Ok"
  PROVE  /\ Len(p.signers) = 1 /\ p.signers # <<>>
         /\ JudgeSigner(p.signers[1].identifier, p.signers[1], historical) = "Ok"
<1>1. /\ OneSigner(p) = "Ok"
      /\ Judge(p.signers[1].identifier, p.time, p.signers[1], historical, None) = "Ok"
  BY BothPass DEF QueryVerdict
<1> QED
  BY <1>1, OneSignerPasses, JudgePasses

(* A signer the judge lets pass is backed by the log.                      *)
LEMMA SignerIsBacked ==
  ASSUME ChainWell(log), NEW owner, NEW signer,
         signer.sn \in Nat, signer.transferable \in BOOLEAN,
         JudgeSigner(owner, signer, Historical(signer)) = "Ok"
  PROVE  Backed(signer)
<1> DEFINE historical == Historical(signer)
<1> DEFINE rest ==
      IF ~signer.transferable
      THEN Require(\A sig \in signer.sigs : sig.signer = signer.identifier, "BadSignature")
      ELSE IF historical = None THEN "MissingSignerState"
      ELSE Require(FitsCoordinate(historical, signer), "SignerStateMismatch")
           && Require(Verify(historical.keys, historical.kt, signer.sigs) = "Ok", "BadSignature")
<1>1. rest = "Ok"
  <2>1. (Require(signer.identifier = owner, "WrongSigner") && rest) = "Ok"
    BY DEF JudgeSigner
  <2> HIDE DEF rest
  <2> QED
    BY <2>1, BothPass
<1>2. CASE ~signer.transferable
  BY <1>1, <1>2 DEF Require, Backed
<1>3. CASE signer.transferable
  <2> DEFINE i == signer.sn + 1
  <2>1. /\ historical # None
        /\ (Require(FitsCoordinate(historical, signer), "SignerStateMismatch")
            && Require(Verify(historical.keys, historical.kt, signer.sigs) = "Ok",
                       "BadSignature")) = "Ok"
    BY <1>1, <1>3
  <2>2. FitsCoordinate(historical, signer) /\ Verify(historical.keys, historical.kt, signer.sigs) = "Ok"
    <3> HIDE DEF historical
    <3>1. /\ Require(FitsCoordinate(historical, signer), "SignerStateMismatch") = "Ok"
          /\ Require(Verify(historical.keys, historical.kt, signer.sigs) = "Ok",
                       "BadSignature") = "Ok"
      BY <2>1, BothPass
    <3> QED
      BY <3>1 DEF Require
  <2>3. i \in DOMAIN log /\ historical = States[i]
    BY <2>1 DEF Historical
  <2>4. Len(log) \in Nat /\ i \in 1..Len(log)
    BY <2>3 DEF ChainWell
  <2>5. ReadsAt(log, States, WitnessLists, i)
    BY <2>4, TablesOfLog, ReadsEverywhere
  <2>6. States[i].estSn = i - 1
    BY <2>2, <2>3 DEF FitsCoordinate
  <2>7. /\ log[i].kind \in Establishments /\ States[i].estSaid = log[i].said
        /\ States[i].keys = log[i].keys /\ States[i].kt = log[i].kt
    BY <2>5, <2>6 DEF ReadsAt
  <2> HIDE DEF historical
  <2> QED
    BY <2>2, <2>3, <2>7 DEF Backed, FitsCoordinate
<1> QED
  BY <1>2, <1>3

(* A signer of a log that is not delegated stays backed whatever is        *)
(* recovered: only interactions are ever replaced.                         *)
LEMMA BackedStays ==
  ASSUME ChainWell(log), ~Delegated, Kel!Next, NEW signer, Backed(signer)
  PROVE  Backed(signer)'
<1>1. CASE ~signer.transferable /\ \A sig \in signer.sigs : sig.signer = signer.identifier
  BY <1>1 DEF Backed
<1>2. CASE ~(~signer.transferable /\ \A sig \in signer.sigs : sig.signer = signer.identifier)
  <2> DEFINE i == signer.sn + 1
  <2>1. /\ i \in DOMAIN log /\ log[i].kind \in Establishments /\ log[i].said = signer.said
        /\ Verify(log[i].keys, log[i].kt, signer.sigs) = "Ok"
    BY <1>2 DEF Backed
  <2> HIDE DEF i
  <2>2. Len(log) \in Nat /\ DOMAIN log = 1..Len(log) /\ i \in 1..Len(log) /\ Follows(log, i)
    BY <2>1 DEF ChainWell
  <2>3. log[i].kind \notin {"ixn", "drt"}
    <3>1. log # <<>> /\ log[1].kind # "dip"
      BY <2>2 DEF Delegated
    <3> QED
      BY <2>1, <2>2, <3>1 DEF Follows, Kel!Fits, Establishments
  <2>4. ChainWell(log') /\ i \in 1..Len(log') /\ log'[i] = log[i]
    BY <2>2, <2>3, LogMoves
  <2>5. i \in DOMAIN log'
    BY <2>4 DEF ChainWell
  <2> QED
    BY <2>1, <2>4, <2>5 DEF Backed, i
<1> QED
  BY <1>1, <1>2

(* A routed message has a signer with a coordinate.                        *)
LEMMA RoutedSigner ==
  ASSUME NEW p \in Routed, Len(p.signers) = 1
  PROVE  /\ p.signers[1] \in Signer /\ p.signers[1].sn \in Nat
         /\ p.signers[1].transferable \in BOOLEAN
         /\ ~p.signers[1].transferable => p.signers[1].sn = 0
<1>1. p.signers \in Seq(Signer)
  BY DEF Routed
<1>2. p.signers[1] \in Signer
  BY <1>1
<1> QED
  BY <1>2 DEF Signer

(* What a reply that is adopted establishes.                               *)
LEMMA AdoptPasses ==
  ASSUME ChainWell(log), NEW p \in Posts, p.kind = "rpy", Adopt(p)
  PROVE  /\ p \in Routed /\ p.resource \in Resources
         /\ Len(p.signers) = 1
         /\ ValidTime(p.time)
         /\ Backed(p.signers[1])
         /\ ~IsStale(Version(p.signers[1], p.time), marker[p.resource])
<1>1. p \in Routed /\ p.resource \in Resources
  BY PostKinds DEF Resources
<1>2. VerdictOnReply(p) = "Ok"
  BY DEF Adopt
<1>3. /\ Len(p.signers) = 1 /\ p.signers # <<>>
      /\ Judge(p.subject, p.time, p.signers[1], HistoricalOf(p), marker[p.resource]) = "Ok"
  BY <1>2, ReplyPasses DEF VerdictOnReply
<1>4. /\ ValidTime(p.time)
      /\ JudgeSigner(p.subject, p.signers[1], HistoricalOf(p)) = "Ok"
      /\ ~IsStale(Version(p.signers[1], p.time), marker[p.resource])
  BY <1>3, JudgePasses
<1>5. HistoricalOf(p) = Historical(p.signers[1])
  BY <1>3 DEF HistoricalOf
<1>6. p.signers[1].sn \in Nat /\ p.signers[1].transferable \in BOOLEAN
  BY <1>1, <1>3, RoutedSigner
<1>7. Backed(p.signers[1])
  BY <1>4, <1>5, <1>6, SignerIsBacked
<1> QED
  BY <1>1, <1>3, <1>4, <1>7

(* What a query that is served establishes.                                *)
LEMMA ServePasses ==
  ASSUME ChainWell(log), NEW q \in Posts, q.kind = "qry", Serve(q)
  PROVE  Backed(q.signers[1])
<1>1. q \in Routed
  BY PostKinds
<1>2. QueryVerdict(q, HistoricalOf(q)) = "Ok"
  BY DEF Serve
<1>3. /\ Len(q.signers) = 1 /\ q.signers # <<>>
      /\ JudgeSigner(q.signers[1].identifier, q.signers[1], HistoricalOf(q)) = "Ok"
  BY <1>2, QueryPasses
<1>4. HistoricalOf(q) = Historical(q.signers[1])
  BY <1>3 DEF HistoricalOf
<1>5. q.signers[1].sn \in Nat /\ q.signers[1].transferable \in BOOLEAN
  BY <1>1, <1>3, RoutedSigner
<1> QED
  BY <1>3, <1>4, <1>5, SignerIsBacked

-----------------------------------------------------------------------------
(* Every step keeps the invariant.                                         *)

(* Nothing that an adopted reply leaves alone is disturbed by it.          *)
LEMMA AdoptKeeps ==
  ASSUME IInv, NEW p \in Posts, p.kind = "rpy", Adopt(p)
  PROVE  IInv'
<1>1. /\ p.resource \in Resources /\ Len(p.signers) = 1 /\ ValidTime(p.time)
      /\ Backed(p.signers[1])
  BY AdoptPasses DEF IInv
<1>2. UNCHANGED <<log, tally, served>>
  BY DEF Adopt
<1>3. ChainWell(log)' /\ TallyWell'
  BY <1>2 DEF IInv, ChainWell, Follows, TallyWell
<1>4. /\ DOMAIN standing' = Resources /\ DOMAIN marker' = Resources
      /\ standing'[p.resource] = p
      /\ marker'[p.resource] = Version(p.signers[1], p.time)
      /\ \A r \in Resources \ {p.resource} : standing'[r] = standing[r] /\ marker'[r] = marker[r]
  BY <1>1 DEF IInv, StandingWell, Adopt
<1>5. p # None
  BY PostKinds, WatcherAssumption
<1>6. StandingWell'
  <2>1. StandsWell(p.resource)'
    BY <1>1, <1>4, <1>5 DEF StandsWell
  <2>2. ASSUME NEW r \in Resources \ {p.resource} PROVE StandsWell(r)'
    BY <1>4, <2>2 DEF IInv, StandingWell, StandsWell
  <2>3. Resources' = Resources
    BY DEF Resources
  <2> QED
    BY <1>4, <2>1, <2>2, <2>3 DEF StandingWell
<1>7. ASSUME ~Delegated' PROVE StandingIsBacked'
  <2>1. StandingIsBacked
    BY <1>2, <1>7 DEF IInv, Delegated
  <2>2. \A signer : Backed(signer)' <=> Backed(signer)
    BY <1>2 DEF Backed
  <2> QED
    BY <1>1, <1>2, <1>4, <2>1, <2>2 DEF StandingIsBacked
<1> QED
  BY <1>3, <1>6, <1>7 DEF IInv

(* A log that grows or is recovered leaves what was filed as it was.       *)
LEMMA WatchKeeps == IInv /\ Watch => IInv'
<1> SUFFICES ASSUME IInv, Watch PROVE IInv'
  OBVIOUS
<1>1. Kel!Next /\ UNCHANGED <<tally, standing, marker, served>>
  BY DEF Watch, kept
<1>2. ChainWell(log)' /\ (log # <<>> => log' # <<>> /\ log'[1] = log[1])
  BY <1>1, LogMoves DEF IInv
<1>3. TallyWell' /\ StandingWell'
  BY <1>1 DEF IInv, TallyWell, StandingWell, StandsWell, Resources
<1>4. ASSUME ~Delegated' PROVE StandingIsBacked'
  <2>1. ~Delegated
    BY <1>2, <1>4 DEF Delegated
  <2>2. StandingIsBacked
    BY <2>1 DEF IInv
  <2>3. \A signer : Backed(signer) => Backed(signer)'
    BY <1>1, <2>1, BackedStays DEF IInv
  <2> QED
    BY <1>1, <2>2, <2>3 DEF StandingIsBacked, Resources
<1> QED
  BY <1>2, <1>3, <1>4 DEF IInv

(* A query that is served adds a signer that is backed.                    *)
LEMMA ServeKeeps ==
  ASSUME IInv, NEW q \in Posts, q.kind = "qry", Serve(q)
  PROVE  IInv'
<1>1. Backed(q.signers[1])
  BY ServePasses DEF IInv
<1>2. UNCHANGED <<log, tally, standing, marker>> /\ served' = served \cup {q}
  BY DEF Serve
<1>3. ChainWell(log)' /\ TallyWell' /\ StandingWell'
  BY <1>2 DEF IInv, ChainWell, Follows, TallyWell, StandingWell, StandsWell, Resources
<1>4. \A signer : Backed(signer)' <=> Backed(signer)
  BY <1>2 DEF Backed
<1>5. ASSUME ~Delegated' PROVE StandingIsBacked'
  <2>1. StandingIsBacked
    BY <1>2, <1>5 DEF IInv, Delegated
  <2> QED
    BY <1>1, <1>2, <1>4, <2>1 DEF StandingIsBacked, Resources
<1> QED
  BY <1>3, <1>5 DEF IInv

(* So does a receipt that is filed.                                        *)
LEMMA FileKeeps ==
  ASSUME IInv, NEW r \in Posts, r.kind = "rct", File(r)
  PROVE  IInv'
<1>1. TallyWell'
  BY FileKeepsTally DEF IInv
<1>2. UNCHANGED <<log, standing, marker, served>>
  BY DEF File
<1>3. ChainWell(log)' /\ StandingWell'
  BY <1>2 DEF IInv, ChainWell, Follows, StandingWell, StandsWell, Resources
<1>4. Delegated' \/ StandingIsBacked'
  BY <1>2 DEF IInv, Delegated, StandingIsBacked, Backed, Resources
<1> QED
  BY <1>1, <1>3, <1>4 DEF IInv

(* And whatever only settles a post or learns an acquaintance.             *)
LEMMA StutterKeeps == IInv /\ UNCHANGED <<log, kept>> => IInv'
<1> SUFFICES ASSUME IInv, UNCHANGED <<log, kept>> PROVE IInv'
  OBVIOUS
<1>1. UNCHANGED <<log, tally, standing, marker, served>>
  BY DEF kept
<1>2. ChainWell(log)' /\ TallyWell' /\ StandingWell'
  BY <1>1 DEF IInv, ChainWell, Follows, TallyWell, StandingWell, StandsWell, Resources
<1>3. Delegated' \/ StandingIsBacked'
  BY <1>1 DEF IInv, Delegated, StandingIsBacked, Backed, Resources
<1> QED
  BY <1>2, <1>3 DEF IInv

(* Every step keeps it.                                                    *)
LEMMA NextIInv == IInv /\ [Next]_vars => IInv'
<1> SUFFICES ASSUME IInv, [Next]_vars PROVE IInv'
  OBVIOUS
<1>1. CASE UNCHANGED vars
  BY <1>1, StutterKeeps DEF vars, kept
<1>2. CASE Watch
  BY <1>2, WatchKeeps
<1>3. ASSUME NEW est \in Acquaintances, Learn(est) PROVE IInv'
  BY <1>3, StutterKeeps DEF Learn
<1>4. ASSUME NEW p \in Posts, Take(p) PROVE IInv'
  <2>1. CASE p.kind = "rct" /\ File(p)
    BY <2>1, FileKeeps
  <2>2. CASE p.kind = "rpy" /\ Adopt(p)
    BY <2>2, AdoptKeeps
  <2>3. CASE p.kind = "qry" /\ Serve(p)
    BY <2>3, ServeKeeps
  <2>4. CASE Refuse(p) \/ Dismiss(p) \/ Decline(p)
    <3>1. UNCHANGED <<log, kept>>
      BY <2>4 DEF Refuse, Dismiss, Decline
    <3> QED
      BY <3>1, StutterKeeps
  <2> QED
    BY <1>4, <2>1, <2>2, <2>3, <2>4 DEF Take
<1> QED
  BY <1>1, <1>2, <1>3, <1>4 DEF Next

(* The inductive invariant holds in every reachable state.                 *)
THEOREM Invariant == Spec => []IInv
<1>1. Init => IInv
  BY InitIInv
<1>2. IInv /\ [Next]_vars => IInv'
  BY NextIInv
<1> QED
  BY <1>1, <1>2, PTL DEF Spec

(* accounted_by counts witnesses, not receipts: an event said to be        *)
(* accounted for is signed by as many of its own witnesses as its          *)
(* threshold asks, in whatever form and however often they signed, and     *)
(* whatever was recovered since.                                           *)
THEOREM AlwaysWitnessed == Spec => []WitnessedByToad
<1>1. IInv => WitnessedByToad
  BY TallyWitnesses DEF IInv
<1> QED
  BY <1>1, Invariant, PTL

(* DiscoveryJudge: unless the log is delegated, where a contested          *)
(* rotation may replace another, what stands or was served is signed by a  *)
(* quorum of the keys that the log establishes at the named place.         *)
THEOREM AlwaysBacked == Spec => [](~Delegated => StandingIsBacked)
<1>1. IInv => (~Delegated => StandingIsBacked)
  BY DEF IInv
<1> QED
  BY <1>1, Invariant, PTL

-----------------------------------------------------------------------------
(* The calendar: the arithmetic of parse_reply_time counts the days that   *)
(* have gone by, for every date of the years 0 to 9999.                    *)

LeapsBefore(year) == Cardinality({y \in 0..(year - 1) : Leap(y)})

(* How many years of a row are leap years.                                 *)
LEMMA LeapsCounted ==
  \A year \in Nat :
    /\ IsFiniteSet({y \in 0..(year - 1) : Leap(y)})
    /\ LeapsBefore(year)
         = (year + 3) \div 4 - (year + 99) \div 100 + (year + 399) \div 400
<1> DEFINE Years(year) == {y \in 0..(year - 1) : Leap(y)}
           Formula(year) == (year + 3) \div 4 - (year + 99) \div 100 + (year + 399) \div 400
           Good(year) == IsFiniteSet(Years(year)) /\ Cardinality(Years(year)) = Formula(year)
<1>1. Good(0)
  <2>1. Years(0) = {}
    OBVIOUS
  <2>2. Formula(0) = 0
    OBVIOUS
  <2> HIDE DEF Years, Formula
  <2> QED
    BY <2>1, <2>2, FS_EmptySet
<1>2. ASSUME NEW year \in Nat, Good(year) PROVE Good(year + 1)
  <2> DEFINE one == IF Leap(year) THEN 1 ELSE 0
  <2>1. Formula(year + 1) = Formula(year) + one
    <3>1. (year + 4) \div 4 - (year + 3) \div 4 = IF year % 4 = 0 THEN 1 ELSE 0
      OBVIOUS
    <3>2. (year + 100) \div 100 - (year + 99) \div 100 = IF year % 100 = 0 THEN 1 ELSE 0
      OBVIOUS
    <3>3. (year + 400) \div 400 - (year + 399) \div 400 = IF year % 400 = 0 THEN 1 ELSE 0
      OBVIOUS
    <3>4. (year % 100 = 0 => year % 4 = 0) /\ (year % 400 = 0 => year % 100 = 0)
      OBVIOUS
    <3>5. /\ year + 1 + 3 = year + 4 /\ year + 1 + 99 = year + 100 /\ year + 1 + 399 = year + 400
          /\ (year + 4) \div 4 \in Int /\ (year + 3) \div 4 \in Int
          /\ (year + 100) \div 100 \in Int /\ (year + 99) \div 100 \in Int
          /\ (year + 400) \div 400 \in Int /\ (year + 399) \div 400 \in Int
      OBVIOUS
    <3> QED
      BY <3>1, <3>2, <3>3, <3>4, <3>5 DEF Leap
  <2>2. Formula(year) \in Int
    OBVIOUS
  <2>3. year \notin Years(year)
    OBVIOUS
  <2>4. CASE Leap(year)
    <3>1. Years(year + 1) = Years(year) \cup {year}
      BY <2>4
    <3> HIDE DEF Years, Formula
    <3> QED
      BY <1>2, <2>1, <2>2, <2>3, <2>4, <3>1, FS_AddElement
  <2>5. CASE ~Leap(year)
    <3>1. Years(year + 1) = Years(year)
      <4>1. 0..(year + 1 - 1) = 0..(year - 1) \cup {year}
        OBVIOUS
      <4> QED
        BY <2>5, <4>1
    <3> HIDE DEF Years, Formula
    <3> QED
      BY <1>2, <2>1, <2>2, <2>5, <3>1
  <2> QED
    BY <2>4, <2>5
<1> HIDE DEF Good
<1> DEFINE bad == {year \in Nat : ~Good(year)}
<1>3. bad = {}
  <2> SUFFICES ASSUME bad # {} PROVE FALSE
    OBVIOUS
  <2>1. PICK year \in bad : \A other \in bad : year <= other
    <3>1. bad \in SUBSET Nat
      OBVIOUS
    <3> HIDE DEF bad
    <3> QED
      BY <3>1, LeastNumber
  <2>2. year \in Nat /\ ~Good(year) /\ year # 0
    BY <1>1, <2>1
  <2>3. year - 1 \in Nat /\ ~(year <= year - 1) /\ year - 1 + 1 = year
    BY <2>2
  <2>4. Good(year - 1)
    BY <2>1, <2>3
  <2> QED
    BY <1>2, <2>2, <2>3, <2>4
<1>4. \A year \in Nat : Good(year)
  BY <1>3
<1> QED
  BY <1>4 DEF Good, LeapsBefore

(* The dates of a year that come before a day of a month.                  *)
DatesBefore(year, month, day) == {d \in DatesOf(year) : Earlier(d, <<month, day>>)}

(* One more day passes, one more date has gone by.                         *)
LEMMA DayPasses ==
  ASSUME NEW year \in Nat, NEW month \in 1..12, NEW day \in 1..DaysInMonth(year, month)
  PROVE  /\ DatesBefore(year, month, day + 1) = DatesBefore(year, month, day) \cup {<<month, day>>}
         /\ <<month, day>> \notin DatesBefore(year, month, day)
<1>1. DaysInMonth(year, month) \in 1..31 /\ day \in 1..31
  BY DEF DaysInMonth
<1>2. <<month, day>> \in DatesOf(year)
  BY <1>1 DEF DatesOf
<1>3. \A d \in DatesOf(year) : d[1] \in 1..12 /\ d[2] \in 1..31 /\ d = <<d[1], d[2]>>
  BY DEF DatesOf
<1>4. ASSUME NEW d \in DatesOf(year)
      PROVE  Earlier(d, <<month, day + 1>>) <=> Earlier(d, <<month, day>>) \/ d = <<month, day>>
  BY <1>1, <1>3 DEF Earlier
<1>5. ~Earlier(<<month, day>>, <<month, day>>)
  BY <1>1 DEF Earlier
<1> QED
  BY <1>2, <1>4, <1>5 DEF DatesBefore

(* The days of a month pass one by one.                                    *)
LEMMA DaysPass ==
  ASSUME NEW year \in Nat, NEW month \in 1..12, IsFiniteSet(DatesBefore(year, month, 1))
  PROVE  \A day \in 1..(DaysInMonth(year, month) + 1) :
           /\ IsFiniteSet(DatesBefore(year, month, day))
           /\ Cardinality(DatesBefore(year, month, day))
                = Cardinality(DatesBefore(year, month, 1)) + day - 1
<1> DEFINE last == DaysInMonth(year, month)
           first == Cardinality(DatesBefore(year, month, 1))
           Good(day) == /\ IsFiniteSet(DatesBefore(year, month, day))
                        /\ Cardinality(DatesBefore(year, month, day)) = first + day - 1
           bad == {day \in 1..(last + 1) : ~Good(day)}
<1>1. last \in 1..31 /\ first \in Nat
  <2>1. first \in Nat
    BY FS_CardinalityType
  <2> QED
    BY <2>1 DEF DaysInMonth
<1>2. Good(1)
  BY <1>1
<1>3. ASSUME NEW day \in 1..last, Good(day) PROVE Good(day + 1)
  <2>1. /\ DatesBefore(year, month, day + 1) = DatesBefore(year, month, day) \cup {<<month, day>>}
        /\ <<month, day>> \notin DatesBefore(year, month, day)
    BY DayPasses
  <2>2. day \in Nat /\ Cardinality(DatesBefore(year, month, day)) = first + day - 1
    BY <1>1, <1>3
  <2>3. /\ IsFiniteSet(DatesBefore(year, month, day + 1))
        /\ Cardinality(DatesBefore(year, month, day + 1))
             = Cardinality(DatesBefore(year, month, day)) + 1
    BY <1>3, <2>1, FS_AddElement
  <2> HIDE DEF first, last
  <2> QED
    BY <1>1, <2>2, <2>3
<1> HIDE DEF Good, last
<1>4. bad = {}
  <2> SUFFICES ASSUME bad # {} PROVE FALSE
    OBVIOUS
  <2>1. PICK day \in bad : \A other \in bad : day <= other
    <3>1. bad \in SUBSET Nat
      BY <1>1
    <3> HIDE DEF bad
    <3> QED
      BY <3>1, LeastNumber
  <2>2. day \in 1..(last + 1) /\ ~Good(day) /\ day # 1
    BY <1>2, <2>1
  <2>3. day - 1 \in 1..last /\ day - 1 \in 1..(last + 1) /\ ~(day <= day - 1) /\ day - 1 + 1 = day
    BY <1>1, <2>2
  <2>4. Good(day - 1)
    BY <2>1, <2>3
  <2> QED
    BY <1>3, <2>2, <2>3, <2>4
<1>5. \A day \in 1..(last + 1) : Good(day)
  BY <1>4
<1> QED
  BY <1>5 DEF Good, last

(* After the last day of a month comes the first of the next.              *)
LEMMA MonthPasses ==
  ASSUME NEW year \in Nat, NEW month \in 1..11
  PROVE  DatesBefore(year, month + 1, 1) = DatesBefore(year, month, DaysInMonth(year, month) + 1)
<1>1. DaysInMonth(year, month) \in 1..31
  BY DEF DaysInMonth
<1>2. ASSUME NEW d \in DatesOf(year)
      PROVE  Earlier(d, <<month + 1, 1>>) <=> Earlier(d, <<month, DaysInMonth(year, month) + 1>>)
  <2>1. d[1] \in 1..12 /\ d[2] \in 1..31 /\ d[2] <= DaysInMonth(year, d[1])
    BY DEF DatesOf
  <2>2. CASE d[1] = month
    BY <1>1, <2>1, <2>2 DEF Earlier
  <2>3. CASE d[1] # month
    BY <1>1, <2>1, <2>3 DEF Earlier
  <2> QED
    BY <2>2, <2>3
<1> QED
  BY <1>2 DEF DatesBefore

(* The dates before each month, by the rule of the code for months that    *)
(* start in March.                                                         *)
MonthStart(year, month) ==
  IF month <= 2 THEN 31 * (month - 1)
  ELSE (153 * (month - 3) + 2) \div 5 + 59 + (IF Leap(year) THEN 1 ELSE 0)

(* The rule counts the dates of the months gone by.                        *)
LEMMA MonthsCounted ==
  ASSUME NEW year \in Nat, NEW month \in 1..12
  PROVE  /\ IsFiniteSet(DatesBefore(year, month, 1))
         /\ Cardinality(DatesBefore(year, month, 1)) = MonthStart(year, month)
<1> DEFINE Good(m) == /\ IsFiniteSet(DatesBefore(year, m, 1))
                      /\ Cardinality(DatesBefore(year, m, 1)) = MonthStart(year, m)
<1>1. Good(1)
  <2>1. ASSUME NEW d \in DatesOf(year) PROVE ~Earlier(d, <<1, 1>>)
    BY DEF DatesOf, Earlier
  <2>2. DatesBefore(year, 1, 1) = {}
    BY <2>1 DEF DatesBefore
  <2> QED
    BY <2>2, FS_EmptySet DEF MonthStart
<1>2. ASSUME NEW m \in 1..11, Good(m) PROVE Good(m + 1)
  <2>1. DaysInMonth(year, m) \in 1..31
    BY DEF DaysInMonth
  <2> DEFINE day == DaysInMonth(year, m) + 1
  <2>2. day \in 1..(DaysInMonth(year, m) + 1) /\ m \in 1..12
    BY <2>1
  <2>3. /\ IsFiniteSet(DatesBefore(year, m, day))
        /\ Cardinality(DatesBefore(year, m, day)) = MonthStart(year, m) + day - 1
    <3> HIDE DEF day
    <3> QED
      BY <1>2, <2>2, DaysPass
  <2>4. MonthStart(year, m) + DaysInMonth(year, m) = MonthStart(year, m + 1)
    BY DEF MonthStart, DaysInMonth
  <2>5. MonthStart(year, m) \in Int
    BY DEF MonthStart
  <2>6. DatesBefore(year, m + 1, 1) = DatesBefore(year, m, day)
    BY MonthPasses
  <2> QED
    BY <2>1, <2>3, <2>4, <2>5, <2>6
<1> HIDE DEF Good
<1>4. \A m \in 1..11 : Good(m) => Good(m + 1)
  BY <1>2
<1>5. Good(2) /\ Good(3) /\ Good(4) /\ Good(5) /\ Good(6) /\ Good(7)
  BY <1>1, <1>4
<1>6. Good(8) /\ Good(9) /\ Good(10) /\ Good(11) /\ Good(12)
  BY <1>4, <1>5
<1> QED
  BY <1>1, <1>5, <1>6 DEF Good

(* The fields of a time that is valid.                                     *)
LEMMA TimeFields ==
  ASSUME NEW t \in Time, ValidTime(t)
  PROVE  /\ t.year \in Nat /\ t.month \in 1..12 /\ t.day \in 1..DaysInMonth(t.year, t.month)
         /\ t.hour \in Nat /\ t.minute \in Nat /\ t.second \in 0..59
         /\ t.fraction \in Nat /\ t.precision \in 0..9 /\ t.fraction < 10^t.precision
         /\ t.sign \in {-1, 1} /\ t.offsetHour \in Nat /\ t.offsetMinute \in Nat
<1>1. t \in Clock
  BY DEF Time
<1>7. t.fraction < 10^t.precision
  BY DEF Time
<1> DEFINE last == 9999
<1>2. t.year \in 0..last /\ last \in Nat
  BY <1>1, SMT DEF Clock
<1> HIDE DEF last
<1>8. t.fraction \in Nat /\ t.precision \in Nat
  BY <1>1, SMT DEF Clock
<1>4. t.hour \in Nat /\ t.minute \in Nat /\ t.second \in Nat
  BY <1>1, SMT DEF Clock
<1>5. t.offsetHour \in Nat /\ t.offsetMinute \in Nat
  BY <1>1, SMT DEF Clock
<1>6. t.sign \in {-1, 1}
  BY <1>1, SMT DEF Clock
<1>3. t.month \in 1..12 /\ t.day \in 1..DaysInMonth(t.year, t.month)
  BY DEF ValidTime
<1>9. t.second <= 59 /\ t.precision <= 9
  BY DEF ValidTime
<1>10. t.year \in Nat
  BY <1>2
<1>11. t.second \in 0..59
  BY <1>4, <1>9
<1>12. t.precision \in 0..9
  BY <1>8, <1>9
<1> QED
  BY <1>3, <1>4, <1>5, <1>6, <1>7, <1>8, <1>10, <1>11, <1>12, Zenon

(* Leap years by the rule of eras, and by the rule that counts them.       *)
LeapsOf(n) == n \div 4 - n \div 100 + n \div 400

DaysOfEras(n) ==
  LET era == n \div 400
      yearOfEra == n - era * 400
  IN  era * 146097 + yearOfEra * 365 + yearOfEra \div 4 - yearOfEra \div 100

(* The eras of 400 years count 365 days a year and the leap days.          *)
LEMMA Eras ==
  ASSUME NEW n \in Int
  PROVE  LeapsOf(n) \in Int /\ DaysOfEras(n) = 365 * n + LeapsOf(n)
<1> DEFINE era == n \div 400
           rest == n - era * 400
<1>1. era \in Int /\ rest = n - 400 * era
  OBVIOUS
<1>2. rest \div 4 = n \div 4 - 100 * era /\ n \div 4 \in Int
  OBVIOUS
<1>3. rest \div 100 = n \div 100 - 4 * era /\ n \div 100 \in Int
  OBVIOUS
<1>4. DaysOfEras(n) = era * 146097 + rest * 365 + rest \div 4 - rest \div 100
  BY DEF DaysOfEras
<1>5. LeapsOf(n) = n \div 4 - n \div 100 + era
  BY DEF LeapsOf
<1> HIDE DEF era, rest
<1> QED
  BY <1>1, <1>2, <1>3, <1>4, <1>5

(* Both rules count the same leap years.                                   *)
LEMMA LeapsAgree ==
  ASSUME NEW y \in Nat
  PROVE  /\ LeapsBefore(y) \in Int
         /\ LeapsBefore(y) + (IF Leap(y) THEN 1 ELSE 0) = LeapsOf(y) + 1
         /\ LeapsBefore(y) = LeapsOf(y - 1) + 1
<1> DEFINE four == IF y % 4 = 0 THEN 1 ELSE 0
           hundred == IF y % 100 = 0 THEN 1 ELSE 0
           fourhundred == IF y % 400 = 0 THEN 1 ELSE 0
<1>1. /\ y \div 4 + 1 - (y + 3) \div 4 = four
      /\ (y + 3) \div 4 = (y - 1) \div 4 + 1
      /\ y \div 4 \in Int /\ (y - 1) \div 4 \in Int
  OBVIOUS
<1>2. /\ y \div 100 + 1 - (y + 99) \div 100 = hundred
      /\ (y + 99) \div 100 = (y - 1) \div 100 + 1
      /\ y \div 100 \in Int /\ (y - 1) \div 100 \in Int
  OBVIOUS
<1>3. /\ y \div 400 + 1 - (y + 399) \div 400 = fourhundred
      /\ (y + 399) \div 400 = (y - 1) \div 400 + 1
      /\ y \div 400 \in Int /\ (y - 1) \div 400 \in Int
  OBVIOUS
<1>4. (y % 100 = 0 => y % 4 = 0) /\ (y % 400 = 0 => y % 100 = 0)
  OBVIOUS
<1>5. (IF Leap(y) THEN 1 ELSE 0) = four - hundred + fourhundred
  BY <1>4 DEF Leap
<1>6. four \in Int /\ hundred \in Int /\ fourhundred \in Int
  OBVIOUS
<1>7. LeapsBefore(y) = (y + 3) \div 4 - (y + 99) \div 100 + (y + 399) \div 400
  BY LeapsCounted, Zenon
<1>8. /\ LeapsOf(y) = y \div 4 - y \div 100 + y \div 400
      /\ LeapsOf(y - 1) = (y - 1) \div 4 - (y - 1) \div 100 + (y - 1) \div 400
  BY DEF LeapsOf
<1> HIDE DEF four, hundred, fourhundred
<1> QED
  BY <1>1, <1>2, <1>3, <1>5, <1>6, <1>7, <1>8

(* The day number, for years that start in March and months counted from   *)
(* it.                                                                     *)
FromMarch(year, month, day) ==
  LET era == year \div 400
      yearOfEra == year - era * 400
      dayOfYear == (153 * month + 2) \div 5 + day - 1
  IN  era * 146097 + yearOfEra * 365 + yearOfEra \div 4 - yearOfEra \div 100
        + dayOfYear - 719468

(* The code counts so.                                                     *)
LEMMA DayNumberFromMarch ==
  ASSUME NEW t
  PROVE  DayNumber(t) = FromMarch(IF t.month <= 2 THEN t.year - 1 ELSE t.year,
                                  IF t.month > 2 THEN t.month - 3 ELSE t.month + 9, t.day)
BY DEF DayNumber, FromMarch

(* It counts 365 days a year, the leap days and the days of the year.      *)
LEMMA EraDays ==
  ASSUME NEW n \in Int, NEW month \in Int, NEW day \in Int
  PROVE  FromMarch(n, month, day)
           = 365 * n + LeapsOf(n) + ((153 * month + 2) \div 5 + day - 1) - 719468
<1> DEFINE days == (153 * month + 2) \div 5 + day - 1
<1>1. FromMarch(n, month, day) = DaysOfEras(n) + days - 719468
  BY DEF FromMarch, DaysOfEras
<1>2. DaysOfEras(n) = 365 * n + LeapsOf(n) /\ LeapsOf(n) \in Int
  BY Eras
<1>3. days \in Int
  OBVIOUS
<1> QED
  BY <1>1, <1>2

(* The day number of the code counts the days gone by since the beginning  *)
(* of 1970, which is 719528 days after that of the year 0.                 *)
LEMMA DaysAgree ==
  ASSUME NEW t, t.year \in Nat, t.month \in 1..12, t.day \in 1..DaysInMonth(t.year, t.month)
  PROVE  DaysBefore(t) \in Int /\ DayNumber(t) = DaysBefore(t) - 719528
<1> DEFINE y == t.year
           m == t.month
           d == t.day
           leap == IF Leap(y) THEN 1 ELSE 0
<1>1. y \in Nat /\ m \in 1..12 /\ d \in 1..DaysInMonth(y, m) /\ d \in 1..31 /\ m \in Int /\ d \in Int
  BY DEF DaysInMonth
<1>2. DaysBefore(t) = 365 * y + LeapsBefore(y) + Cardinality(DatesBefore(y, m, d))
  BY DEF DaysBefore, LeapsBefore, DatesBefore
<1>3. DayNumber(t) = FromMarch(IF m <= 2 THEN y - 1 ELSE y, IF m > 2 THEN m - 3 ELSE m + 9, d)
  BY DayNumberFromMarch
<1> HIDE DEF y, m, d, leap
<1>4. Cardinality(DatesBefore(y, m, d)) = MonthStart(y, m) + d - 1
  <2>1. d \in 1..(DaysInMonth(y, m) + 1)
    BY <1>1 DEF DaysInMonth
  <2> QED
    BY <1>1, <2>1, MonthsCounted, DaysPass
<1>5. /\ LeapsBefore(y) \in Int /\ LeapsBefore(y) + leap = LeapsOf(y) + 1
      /\ LeapsBefore(y) = LeapsOf(y - 1) + 1
  BY <1>1, LeapsAgree DEF leap
<1>6. LeapsOf(y) \in Int /\ LeapsOf(y - 1) \in Int /\ leap \in Int /\ y - 1 \in Int
  BY <1>1, Eras DEF leap
<1>7. CASE m > 2
  <2> DEFINE days == (153 * (m - 3) + 2) \div 5
  <2>1. FromMarch(y, m - 3, d) = 365 * y + LeapsOf(y) + (days + d - 1) - 719468
    BY <1>1, EraDays
  <2>2. MonthStart(y, m) = days + 59 + leap
    BY <1>1, <1>7 DEF MonthStart, leap
  <2>3. days \in Int
    BY <1>1
  <2>4. DayNumber(t) = FromMarch(y, m - 3, d)
    BY <1>1, <1>3, <1>7
  <2> HIDE DEF days
  <2> QED
    BY <1>1, <1>2, <1>4, <1>5, <1>6, <2>1, <2>2, <2>3, <2>4
<1>8. CASE m <= 2
  <2> DEFINE days == (153 * (m + 9) + 2) \div 5
  <2>1. FromMarch(y - 1, m + 9, d) = 365 * (y - 1) + LeapsOf(y - 1) + (days + d - 1) - 719468
    BY <1>1, EraDays
  <2>2. days = 31 * (m - 1) + 306
    BY <1>1, <1>8
  <2>3. MonthStart(y, m) = 31 * (m - 1)
    BY <1>8 DEF MonthStart
  <2>4. DayNumber(t) = FromMarch(y - 1, m + 9, d)
    BY <1>1, <1>3, <1>8
  <2> HIDE DEF days
  <2> QED
    BY <1>1, <1>2, <1>4, <1>5, <1>6, <2>1, <2>2, <2>3, <2>4
<1> QED
  BY <1>1, <1>7, <1>8

Billion == 1000000000

(* A power of ten up to the ninth and the power that completes it.         *)
LEMMA Complement ==
  ASSUME NEW p \in 0..9
  PROVE  /\ 10^p \in Nat \ {0} /\ 10^(9 - p) \in Nat \ {0}
         /\ 10^p * 10^(9 - p) = Billion
<1>1. p = 0 \/ p = 1 \/ p = 2 \/ p = 3 \/ p = 4 \/ p = 5 \/ p = 6 \/ p = 7 \/ p = 8 \/ p = 9
  OBVIOUS
<1>2. CASE p = 0
  BY <1>2, SMT DEF Billion
<1>3. CASE p = 1
  BY <1>3, SMT DEF Billion
<1>4. CASE p = 2
  BY <1>4, SMT DEF Billion
<1>5. CASE p = 3
  BY <1>5, SMT DEF Billion
<1>6. CASE p = 4
  BY <1>6, SMT DEF Billion
<1>7. CASE p = 5
  BY <1>7, SMT DEF Billion
<1>8. CASE p = 6
  BY <1>8, SMT DEF Billion
<1>9. CASE p = 7
  BY <1>9, SMT DEF Billion
<1>10. CASE p = 8
  BY <1>10, SMT DEF Billion
<1>11. CASE p = 9
  BY <1>11, SMT DEF Billion
<1> QED
  BY <1>1, <1>2, <1>3, <1>4, <1>5, <1>6, <1>7, <1>8, <1>9, <1>10, <1>11, Zenon

(* A common factor does not change an order.                               *)
LEMMA CommonFactor ==
  ASSUME NEW a \in Nat, NEW b \in Nat, NEW k \in Nat \ {0}
  PROVE  a < b <=> a * k < b * k
OBVIOUS

(* Fractions over two powers of ten order as their nanoseconds do.         *)
LEMMA CrossMultiplied ==
  ASSUME NEW a \in Nat, NEW b \in Nat, NEW n \in Nat \ {0},
         NEW p \in Nat \ {0}, NEW q \in Nat \ {0}, NEW r \in Nat \ {0}, NEW s \in Nat \ {0},
         p * r = n, q * s = n
  PROVE  a * r < b * s <=> a * q < b * p
<1>1. /\ a * r \in Nat /\ b * s \in Nat /\ a * q \in Nat /\ b * p \in Nat
      /\ p * q \in Nat \ {0}
  OBVIOUS
<1>2. a * r < b * s <=> (a * r) * (p * q) < (b * s) * (p * q)
  BY <1>1, CommonFactor
<1>3. a * q < b * p <=> (a * q) * n < (b * p) * n
  BY <1>1, CommonFactor
<1>4. (a * r) * (p * q) = (a * q) * (p * r) /\ (b * s) * (p * q) = (b * p) * (q * s)
  OBVIOUS
<1> QED
  BY <1>2, <1>3, <1>4

(* The seconds between the beginning of the year 0 and of 1970.            *)
Since == 719528 * 86400

(* It is the minutes by the calendar, the seconds and the fraction.        *)
LEMMA UtcParts ==
  ASSUME NEW t \in Time, ValidTime(t)
  PROVE  /\ MinutesBefore(t) \in Int /\ t.second \in 0..59
         /\ Utc(t)[1] = 60 * MinutesBefore(t) + t.second - Since
         /\ Utc(t)[1] \in Int
         /\ Utc(t)[2] = t.fraction * 10^(9 - t.precision)
<1>1. /\ t.hour \in Nat /\ t.minute \in Nat /\ t.second \in 0..59
      /\ t.sign \in {-1, 1} /\ t.offsetHour \in Nat /\ t.offsetMinute \in Nat
  BY TimeFields
<1>2. DaysBefore(t) \in Int /\ DayNumber(t) = DaysBefore(t) - 719528
  BY TimeFields, DaysAgree
<1> DEFINE offset == t.sign * (t.offsetHour * 60 + t.offsetMinute)
<1>3. offset \in Int
  BY <1>1
<1>4. MinutesBefore(t) = DaysBefore(t) * 1440 + t.hour * 60 + t.minute - offset
  BY DEF MinutesBefore
<1>5. Utc(t)[1] = DayNumber(t) * 86400 + t.hour * 3600 + t.minute * 60 + t.second - offset * 60
  BY SMT DEF Utc
<1>6. Utc(t)[2] = t.fraction * 10^(9 - t.precision)
  <2>1. Utc(t)[2] = IF t.precision = 0 THEN 0 ELSE t.fraction * 10^(9 - t.precision)
    BY DEF Utc
  <2>2. t.fraction \in Nat /\ t.precision \in 0..9 /\ t.fraction < 10^t.precision
    BY TimeFields
  <2>3. CASE t.precision = 0
    <3>1. t.fraction = 0
      BY <2>2, <2>3
    <3>2. 10^(9 - t.precision) \in Nat
      BY <2>2, Complement
    <3>3. 0 * 10^(9 - t.precision) = 0
      BY <3>2
    <3> QED
      BY <2>1, <2>3, <3>1, <3>3
  <2>4. CASE t.precision # 0
    BY <2>1, <2>4
  <2> QED
    BY <2>3, <2>4
<1> HIDE DEF offset
<1>7. Utc(t)[1] = 60 * MinutesBefore(t) + t.second - Since /\ Utc(t)[1] \in Int
  BY <1>1, <1>2, <1>3, <1>4, <1>5, SMT DEF Since
<1> QED
  BY <1>1, <1>2, <1>3, <1>4, <1>6, <1>7

(* Seconds since any second order as the minutes and the seconds do.       *)
LEMMA SecondsOrder ==
  ASSUME NEW m \in Int, NEW n \in Int, NEW a \in 0..59, NEW b \in 0..59, NEW since \in Int,
         NEW x, NEW y, x = 60 * m + a - since, y = 60 * n + b - since
  PROVE  /\ x < y <=> m < n \/ (m = n /\ a < b)
         /\ x = y <=> m = n /\ a = b
OBVIOUS

(* Instants of the code order as the calendar does, whatever the zones.    *)
LEMMA UtcOrders ==
  ASSUME NEW t \in Time, ValidTime(t), NEW u \in Time, ValidTime(u)
  PROVE  Earlier(Utc(t), Utc(u)) <=> EarlierInstant(t, u)
<1>1. t.fraction \in Nat /\ t.precision \in 0..9 /\ u.fraction \in Nat /\ u.precision \in 0..9
  BY TimeFields
<1>2. Utc(t)[2] < Utc(u)[2] <=> EarlierFraction(t, u)
  <2>1. /\ Utc(t)[2] = t.fraction * 10^(9 - t.precision)
        /\ Utc(u)[2] = u.fraction * 10^(9 - u.precision)
    BY UtcParts
  <2> DEFINE p == 10^t.precision
             q == 10^u.precision
             r == 10^(9 - t.precision)
             s == 10^(9 - u.precision)
  <2>6. Billion \in Nat \ {0}
    BY SMT DEF Billion
  <2>2. /\ p \in Nat \ {0} /\ r \in Nat \ {0} /\ p * r = Billion
        /\ q \in Nat \ {0} /\ s \in Nat \ {0} /\ q * s = Billion
    BY <1>1, Complement
  <2>3. EarlierFraction(t, u) <=> t.fraction * q < u.fraction * p
    BY DEF EarlierFraction
  <2>4. Utc(t)[2] = t.fraction * r /\ Utc(u)[2] = u.fraction * s
    BY <2>1
  <2> HIDE DEF p, q, r, s
  <2>5. t.fraction * r < u.fraction * s <=> t.fraction * q < u.fraction * p
    BY <1>1, <2>2, <2>6, CrossMultiplied
  <2> QED
    BY <2>3, <2>4, <2>5
<1> DEFINE m == MinutesBefore(t)
           n == MinutesBefore(u)
           x == Utc(t)[1]
           y == Utc(u)[1]
           a == t.second
           b == u.second
<1>3. /\ m \in Int /\ a \in 0..59 /\ n \in Int /\ b \in 0..59 /\ Since \in Int
      /\ x = 60 * m + a - Since /\ y = 60 * n + b - Since
  <2>1. Since \in Int
    BY SMT DEF Since
  <2> QED
    BY <2>1, UtcParts
<1>4. /\ Earlier(Utc(t), Utc(u)) <=> x < y \/ (x = y /\ EarlierFraction(t, u))
      /\ EarlierInstant(t, u) <=> m < n \/ (m = n /\ (a < b \/ (a = b /\ EarlierFraction(t, u))))
  BY <1>2, Zenon DEF Earlier, EarlierInstant
<1> HIDE DEF m, n, x, y, a, b
<1>5. /\ x < y <=> m < n \/ (m = n /\ a < b)
      /\ x = y <=> m = n /\ a = b
  BY <1>3, SecondsOrder
<1> QED
  BY <1>4, <1>5, Zenon

(* The pair of seconds and nanoseconds orders as the one number of the     *)
(* code does.                                                              *)
LEMMA PairsOrder ==
  ASSUME NEW x \in Int, NEW y \in Int, NEW k \in Nat \ {0}, NEW a \in 0..(k - 1), NEW b \in 0..(k - 1)
  PROVE  x * k + a < y * k + b <=> x < y \/ (x = y /\ a < b)
<1>1. x * k \in Int /\ y * k \in Int
  OBVIOUS
<1>2. CASE x < y
  <2>1. y = x + (y - x) /\ y - x \in Nat \ {0}
    BY <1>2
  <2>2. y * k = x * k + (y - x) * k /\ (y - x) * k >= k /\ (y - x) * k \in Int
    BY <2>1
  <2> QED
    BY <1>1, <1>2, <2>2
<1>3. CASE y < x
  <2>1. x = y + (x - y) /\ x - y \in Nat \ {0}
    BY <1>3
  <2>2. x * k = y * k + (x - y) * k /\ (x - y) * k >= k /\ (x - y) * k \in Int
    BY <2>1
  <2> QED
    BY <1>1, <1>3, <2>2
<1>4. CASE x = y
  BY <1>1, <1>4
<1> QED
  BY <1>2, <1>3, <1>4

(* So instants in seconds and nanoseconds order as the code's i128 does.   *)
LEMMA UtcIsANumber ==
  ASSUME NEW t \in Time, ValidTime(t), NEW u \in Time, ValidTime(u)
  PROVE  Earlier(Utc(t), Utc(u))
           <=> Utc(t)[1] * Billion + Utc(t)[2] < Utc(u)[1] * Billion + Utc(u)[2]
<1>1. ASSUME NEW v \in Time, ValidTime(v)
      PROVE  Utc(v)[1] \in Int /\ Utc(v)[2] \in 0..(Billion - 1)
  <2> DEFINE p == 10^v.precision
             r == 10^(9 - v.precision)
             f == v.fraction
  <2>1. p \in Nat \ {0} /\ r \in Nat \ {0} /\ p * r = Billion /\ f \in Nat /\ f < p
    BY <1>1, TimeFields, Complement
  <2>2. Utc(v)[2] = f * r
    BY <1>1, UtcParts
  <2>3. Utc(v)[1] \in Int
    BY <1>1, UtcParts
  <2>4. f * r \in 0..(Billion - 1)
    <3> HIDE DEF p, r, f
    <3>1. f * r < p * r /\ f * r \in Nat /\ p * r \in Nat
      BY <2>1, CommonFactor
    <3> QED
      BY <2>1, <3>1
  <2> HIDE DEF f, r
  <2> QED
    BY <2>2, <2>3, <2>4
<1> DEFINE x == Utc(t)[1]
           y == Utc(u)[1]
           a == Utc(t)[2]
           b == Utc(u)[2]
<1>2. Earlier(Utc(t), Utc(u)) <=> x < y \/ (x = y /\ a < b)
  BY DEF Earlier
<1>3. x \in Int /\ y \in Int /\ a \in 0..(Billion - 1) /\ b \in 0..(Billion - 1)
  BY <1>1
<1>4. Billion \in Nat \ {0}
  BY SMT DEF Billion
<1> HIDE DEF x, y, a, b
<1>5. x * Billion + a < y * Billion + b <=> x < y \/ (x = y /\ a < b)
  BY <1>3, <1>4, PairsOrder
<1> QED
  BY <1>2, <1>5 DEF x, y, a, b

-----------------------------------------------------------------------------
(* What replaces a reply.                                                  *)

(* A reply that the judge does not find stale is newer than the one whose  *)
(* version the marker holds.                                               *)
LEMMA FreshIsNewer ==
  ASSUME NEW old \in Routed, Len(old.signers) = 1, ValidTime(old.time),
         NEW new \in Routed, Len(new.signers) = 1, ValidTime(new.time),
         Version(old.signers[1], old.time) # None,
         ~IsStale(Version(new.signers[1], new.time), Version(old.signers[1], old.time))
  PROVE  Newer(old, new)
<1> DEFINE before == Version(old.signers[1], old.time)
           after == Version(new.signers[1], new.time)
<1>1. /\ before.establishmentSn = old.signers[1].sn /\ before.establishmentSn \in Nat
      /\ after.establishmentSn = new.signers[1].sn /\ after.establishmentSn \in Nat
  BY RoutedSigner DEF Version
<1>2. before.utc = Utc(old.time) /\ after.utc = Utc(new.time)
  BY DEF Version
<1>3. /\ ~(after.establishmentSn < before.establishmentSn)
      /\ after.establishmentSn = before.establishmentSn => Earlier(before.utc, after.utc)
  BY Zenon DEF IsStale
<1>4. old.time \in Time /\ new.time \in Time
  BY DEF Routed
<1>5. Earlier(Utc(old.time), Utc(new.time)) <=> EarlierInstant(old.time, new.time)
  BY <1>4, UtcOrders
<1> HIDE DEF before, after
<1> QED
  BY <1>1, <1>2, <1>3, <1>5 DEF Newer

(* Of all steps only Adopt replaces a reply.                               *)
LEMMA StepRenews ==
  ASSUME IInv, Next
  PROVE  \A r \in Resources :
           standing[r] # None /\ standing'[r] # standing[r] => Newer(standing[r], standing'[r])
<1> SUFFICES ASSUME NEW r \in Resources, standing[r] # None, standing'[r] # standing[r]
             PROVE  Newer(standing[r], standing'[r])
  OBVIOUS
<1>1. PICK p \in Posts : p.kind = "rpy" /\ Adopt(p)
  BY DEF Next, Watch, Learn, Take, File, Refuse, Dismiss, Serve, Decline, kept
<1>2. /\ p \in Routed /\ Len(p.signers) = 1 /\ ValidTime(p.time)
      /\ ~IsStale(Version(p.signers[1], p.time), marker[p.resource])
  BY <1>1, AdoptPasses DEF IInv
<1>3. r = p.resource /\ standing'[r] = p
  BY <1>1 DEF IInv, StandingWell, Adopt
<1> DEFINE old == standing[r]
<1>4. /\ old \in Posts /\ old.kind = "rpy" /\ Len(old.signers) = 1 /\ ValidTime(old.time)
      /\ marker[r] = Version(old.signers[1], old.time)
  BY DEF IInv, StandingWell, StandsWell
<1> HIDE DEF old
<1>5. old \in Routed /\ Version(old.signers[1], old.time) # None
  <2>1. old \in Routed /\ old.signers # <<>>
    BY <1>4, PostKinds
  <2> QED
    BY <1>4, <2>1, WatcherAssumption
<1>6. Newer(old, p)
  BY <1>2, <1>3, <1>4, <1>5, FreshIsNewer
<1> QED
  BY <1>3, <1>6 DEF old

(* DiscoveryReply::judge refuses what is stale: a reply gives way only to  *)
(* one of a later establishment, or of the same one and later by the       *)
(* calendar, in whatever zones and precision the two are written.          *)
THEOREM AlwaysNewer == Spec => NewerOnly
<1>1. IInv /\ [Next]_vars =>
        [\A r \in Resources :
           standing[r] # None /\ standing'[r] # standing[r]
             => Newer(standing[r], standing'[r])]_vars
  BY StepRenews
<1> QED
  BY <1>1, Invariant, PTL DEF Spec, NewerOnly
=============================================================================
