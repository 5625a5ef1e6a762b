-------------------------- MODULE Controller_proofs --------------------------
(***************************************************************************)
(* Proofs about Controller, for every base, stem, ladder and bound: where  *)
(* the counters of a custodian stand beside the log; that a crash loses    *)
(* nothing the saved counters and the log do not lead back to; that the    *)
(* fold accepts what is built; that no path is spelt twice.                *)
(***************************************************************************)
EXTENDS Controller, TLAPS, SequenceTheorems, FiniteSetTheorems, WellFoundedInduction

-----------------------------------------------------------------------------
(* What the proofs below need of KeyState.                                 *)

(* Every set of numbers that is not empty has a least one.                 *)
LEMMA LeastNumber ==
  ASSUME NEW T \in SUBSET Nat, T # {}
  PROVE  \E x \in T : \A y \in T : x <= y
<1> DEFINE R == OpToRel(<, Nat)
<1>1. IsWellFoundedOn(R, Nat)
  BY NatLessThanWellFounded
<1>2. \A x, y \in Nat : x < y => <<x, y>> \in R
  BY DEF OpToRel
<1> HIDE DEF R
<1>3. PICK x \in T : \A y \in T : ~(<<y, x>> \in R)
  BY <1>1, WFMin
<1>4. ASSUME NEW y \in T PROVE x <= y
  <2>1. x \in Nat /\ y \in Nat /\ ~(y < x)
    BY <1>2, <1>3
  <2> QED
    BY <2>1
<1> QED
  BY <1>4

(* A list has finitely many members.                                       *)
LEMMA MembersFinite ==
  ASSUME NEW S, NEW list \in Seq(S)
  PROVE  IsFiniteSet(Members(list)) /\ Members(list) \subseteq S
<1>1. IsFiniteSet(DOMAIN list)
  <2>1. DOMAIN list = 1..Len(list) /\ Len(list) \in Nat
    OBVIOUS
  <2>2. QED
    BY <2>1, FS_Interval
<1> DEFINE f == [i \in DOMAIN list |-> list[i]]
<1>2. f \in Surjection(DOMAIN list, Members(list))
  BY DEF Members, Surjection
<1>3. IsFiniteSet(Members(list))
  <2> HIDE DEF f
  <2>1. QED
    BY <1>1, <1>2, FS_Surjection
<1>4. Members(list) \subseteq S
  BY DEF Members
<1>5. QED
  BY <1>3, <1>4

(* Toad::ample, for any number of witnesses: two quorums overlap in more   *)
(* than the faulty, and a quorum is left when the faulty stay silent.      *)
THEOREM AmpleBounds ==
  ASSUME NEW n \in Nat \ {0}
  PROVE  /\ Ample(n) \in Nat
         /\ 2 * Ample(n) - n > Faulty(n)
         /\ Ample(n) <= n - Faulty(n)
<1> DEFINE floor == AtLeastOne((n - 1) \div 3)
           ceil == AtLeastOne((n + 1) \div 3)
<1>1. /\ Faulty(n) \in Nat
      /\ 3 * Faulty(n) + 1 <= n
      /\ Faulty(n) = 0 \/ n >= 4
  BY DEF Faulty
<1>a. /\ floor \in Nat
      /\ 1 <= floor
      /\ Faulty(n) <= floor
      /\ floor <= Faulty(n) + 1
      /\ 2 * floor + floor + 1 <= n \/ floor = 1
  BY <1>1 DEF AtLeastOne, Faulty
<1>b. ceil \in Nat /\ floor <= ceil
  BY DEF AtLeastOne
<1>2. \A f \in Nat : /\ StrongMajority(n, f) \in Nat
                     /\ 2 * StrongMajority(n, f) >= n + f + 1
                     /\ 2 * StrongMajority(n, f) <= n + f + 2
  BY DEF StrongMajority
<1>3. Ample(n) = LeastOf(n, LeastOf(StrongMajority(n, floor), StrongMajority(n, ceil)))
  BY DEF Ample
<1> HIDE DEF floor, ceil
<1>4. Ample(n) \in Nat
  BY <1>1, <1>a, <1>b, <1>2, <1>3 DEF LeastOf
<1>5. 2 * Ample(n) - n > Faulty(n)
  BY <1>1, <1>a, <1>b, <1>2, <1>3 DEF LeastOf
<1>6. Ample(n) <= n - Faulty(n)
  BY <1>1, <1>a, <1>b, <1>2, <1>3 DEF LeastOf
<1>7. QED
  BY <1>4, <1>5, <1>6

-----------------------------------------------------------------------------
(* The same for sets of witnesses under a threshold that is ample.         *)
LEMMA QuorumsOverlap ==
  ASSUME NEW W, IsFiniteSet(W), Cardinality(W) > 0,
         NEW toad \in Nat, toad >= Ample(Cardinality(W)),
         NEW p \in SUBSET W, Cardinality(p) >= toad,
         NEW q \in SUBSET W, Cardinality(q) >= toad
  PROVE  Cardinality(p \cap q) > Faulty(Cardinality(W))
<1> DEFINE n == Cardinality(W)
<1>1. n \in Nat \ {0}
  BY FS_CardinalityType
<1>2. IsFiniteSet(p) /\ IsFiniteSet(q)
  BY FS_Subset
<1>3. /\ Cardinality(p) \in Nat /\ Cardinality(q) \in Nat
      /\ Cardinality(p \cap q) \in Nat
  BY <1>2, FS_CardinalityType, FS_Intersection
<1>4. Cardinality(p \cup q) = Cardinality(p) + Cardinality(q) - Cardinality(p \cap q)
  BY <1>2, FS_Union
<1>5. Cardinality(p \cup q) <= n
  <2>1. p \cup q \in SUBSET W
    OBVIOUS
  <2>2. QED
    BY <2>1, FS_Subset
<1>6. /\ Ample(n) \in Nat
      /\ 2 * Ample(n) - n > Faulty(n)
  BY <1>1, AmpleBounds
<1>7. Faulty(n) \in Int
  BY <1>1 DEF Faulty
<1> HIDE DEF n
<1>8. toad >= Ample(n)
  BY DEF n
<1>9. Cardinality(p \cap q) > Faulty(n)
  BY <1>1, <1>3, <1>4, <1>5, <1>6, <1>7, <1>8
<1>10. QED
  BY <1>9 DEF n

(* The witnesses after a rotation are finitely many.                       *)
LEMMA UpdatedFinite ==
  ASSUME NEW W, IsFiniteSet(W), NEW cuts, NEW adds \in Seq(Keys)
  PROVE  IsFiniteSet(UpdatedMembers(W, cuts, adds))
<1>1. IsFiniteSet(W \ Members(cuts))
  BY FS_Subset
<1>2. IsFiniteSet(Members(adds))
  BY MembersFinite
<1>3. QED
  BY <1>1, <1>2, FS_Union DEF UpdatedMembers

(* The default of a witness threshold is a number.                         *)
LEMMA AmpleIsNat ==
  ASSUME NEW n \in Nat
  PROVE  Ample(n) \in Nat
<1>1. CASE n = 0
  BY <1>1 DEF Ample
<1>2. CASE n # 0
  BY <1>2, AmpleBounds
<1>3. QED
  BY <1>1, <1>2

-----------------------------------------------------------------------------
(* The inductive invariant. Beside its type it says where the counters     *)
(* stand on the ladder of the log, and that what is pending belongs to     *)
(* what the custodian committed to.                                        *)

CountersWell(c) ==
  /\ ~c.incepted => c.ridx = 0
  /\ c.incepted => Derivable(c.kidx, c.count)
  /\ ~c.transferable => c.ncount = 0

OnLadder(c) ==
  c.incepted /\ Rung(c) <= Len(ladder) => c.ncount = Len(ladder[Rung(c)].next)

Rungs ==
  /\ CountersWell(custodian) /\ CountersWell(saved)
  /\ OnLadder(custodian) /\ OnLadder(saved)
  /\ Rung(saved) <= Len(ladder)
  /\ commitment = None => Rung(custodian) <= Len(ladder)

CommitmentWell ==
  commitment # None =>
    /\ NextSn <= MaxSn
    /\ Rung(custodian) = Len(ladder) + 1
    /\ custodian.incepted
    /\ custodian.ncount = Len(commitment.next)
    /\ Len(commitment.keys) <= MaxIndex + 1
    /\ Len(commitment.next) <= MaxIndex + 1

PendingWell ==
  pending # None =>
    /\ pending.event.kind \in {"icp", "rot", "ixn"}
    /\ NextSn <= MaxSn
    /\ pending.event.sn = NextSn
    /\ pending.event.kind = "icp" => pending.event.pre = Names[0]
    /\ pending.event.kind = "ixn" => commitment = None
    /\ pending.event.kind # "ixn" =>
         /\ commitment # None
         /\ pending.event.keys = commitment.keys
         /\ pending.event.next = commitment.next

HeadWell ==
  /\ head = None <=> ladder = <<>>
  /\ head # None =>
       /\ head.keys = ladder[Len(ladder)].keys
       /\ head.next = ladder[Len(ladder)].next
       /\ head.transferable <=> head.next # <<>>
       /\ head.sn \in 0..MaxSn
       /\ IsFiniteSet(head.wits)

IInv == TypeOK /\ Rungs /\ CommitmentWell /\ PendingWell /\ HeadWell

-----------------------------------------------------------------------------
(* What the custodian derives are keys.                                    *)

LEMMA DeriveIsKeys ==
  ASSUME NEW ridx \in 0..MaxIndex, NEW kidx \in 0..MaxIndex, NEW count \in Nat,
         NEW t \in BOOLEAN, Derivable(kidx, count)
  PROVE  /\ DeriveSet(ridx, kidx, count, t) \in Seq(Keys)
         /\ Len(DeriveSet(ridx, kidx, count, t)) = count
         /\ count <= MaxIndex + 1
<1>1. MaxIndex \in Nat
  BY CustodyAssumption
<1>2. \A i \in 1..count : KeyAt(ridx, kidx + i - 1, t) \in Keys
  <2>1. TAKE i \in 1..count
  <2>2. kidx + i - 1 \in 0..MaxIndex
    BY <1>1 DEF Derivable
  <2>3. QED
    BY <2>2, CustodyAssumption
<1>3. count <= MaxIndex + 1
  BY <1>1 DEF Derivable
<1>4. QED
  BY <1>2, <1>3 DEF DeriveSet

(* incept and rotate return lists of keys, of the lengths asked for.       *)
LEMMA CommitIsCommitment ==
  ASSUME NEW c \in Custodian, Committable(c)
  PROVE  /\ Commit(c) \in KeyCommitment
         /\ Len(Commit(c).keys) = c.count /\ c.count <= MaxIndex + 1
         /\ Len(Commit(c).next) = c.ncount /\ c.ncount <= MaxIndex + 1
<1>1. MaxIndex \in Nat
  BY CustodyAssumption
<1>2. /\ c.ridx \in 0..MaxIndex /\ c.kidx \in 0..MaxIndex
      /\ c.count \in Nat /\ c.ncount \in Nat /\ c.transferable \in BOOLEAN
  BY DEF Custodian
<1>3. /\ Verkeys(c) \in Seq(Keys)
      /\ Len(Verkeys(c)) = c.count /\ c.count <= MaxIndex + 1
  BY <1>2, DeriveIsKeys DEF Verkeys, Committable
<1> DEFINE up == RungUp(c, c.ncount)
<1>4. /\ up.ridx = c.ridx + 1 /\ up.kidx = c.kidx + c.count /\ up.count = c.ncount
  BY DEF RungUp, Custodian
<1>5. up.ridx \in 0..MaxIndex /\ up.kidx \in 0..MaxIndex /\ up.count \in Nat
  BY <1>1, <1>2, <1>4 DEF Committable, HasRungUp
<1>6. Derivable(up.kidx, up.count)
  BY <1>4 DEF Committable
<1> HIDE DEF up
<1>7. /\ DeriveSet(up.ridx, up.kidx, up.count, TRUE) \in Seq(Keys)
      /\ Len(DeriveSet(up.ridx, up.kidx, up.count, TRUE)) = up.count
      /\ up.count <= MaxIndex + 1
  BY <1>5, <1>6, DeriveIsKeys
<1>8. NextKeys(c) = DeriveSet(up.ridx, up.kidx, up.count, TRUE)
  BY DEF NextKeys, up
<1>9. QED
  BY <1>3, <1>4, <1>7, <1>8 DEF Commit, KeyCommitment

(* The rung of a custodian is a number.                                    *)
LEMMA RungIsNat ==
  ASSUME NEW c \in Custodian
  PROVE  Rung(c) \in Nat
BY CustodyAssumption DEF Custodian, Rung

(* One rung up, when the custodian agrees to it.                           *)
LEMMA StepClimbs ==
  ASSUME NEW c \in Custodian, CountersWell(c), NEW spec \in KeySpec,
         CheckStep(c, spec) = "Ok"
  PROVE  /\ Step(c, spec) \in Custodian
         /\ CountersWell(Step(c, spec))
         /\ Committable(Step(c, spec))
         /\ Step(c, spec).incepted
         /\ Rung(Step(c, spec)) = Rung(c) + 1
         /\ Step(c, spec).ncount = spec.ncount
<1>1. MaxIndex \in Nat
  BY CustodyAssumption
<1>2. spec.count \in Nat /\ spec.ncount \in Nat /\ spec.transferable \in BOOLEAN
  BY DEF KeySpec
<1>3. CASE c.incepted
  <2> DEFINE d == Rotated(c, spec)
  <2>1. CheckRotate(c, spec) = "Ok"
    BY <1>3 DEF CheckStep
  <2>2. c.transferable /\ HasRungUp(c) /\ Committable(d)
    BY <2>1 DEF CheckRotate, Require, &&
  <2>3. /\ d.ridx = c.ridx + 1 /\ d.kidx = c.kidx + c.count /\ d.count = spec.count
        /\ d.ncount = spec.ncount /\ d.transferable = c.transferable
        /\ d.incepted = c.incepted
    BY DEF Rotated, RungUp, Custodian
  <2>4. d \in Custodian
    <3>1. c.ridx + 1 \in 0..MaxIndex /\ c.kidx + c.count \in 0..MaxIndex
      BY <1>1, <2>2 DEF Custodian, HasRungUp
    <3>2. QED
      BY <1>2, <3>1 DEF Custodian, Rotated, RungUp
  <2>5. CountersWell(d)
    BY <1>3, <2>2, <2>3 DEF CountersWell, Committable
  <2>6. d.incepted /\ Rung(d) = Rung(c) + 1 /\ d.ncount = spec.ncount
    BY <1>1, <1>3, <2>3 DEF Rung, Custodian
  <2>7. Step(c, spec) = d
    BY <1>3 DEF Step
  <2> HIDE DEF d
  <2>8. QED
    BY <2>2, <2>4, <2>5, <2>6, <2>7
<1>4. CASE ~c.incepted
  <2> DEFINE d == Incepted(c, spec)
  <2>1. CheckIncept(c, spec) = "Ok"
    BY <1>4 DEF CheckStep
  <2>2. (spec.transferable \/ spec.ncount = 0) /\ Committable(d)
    BY <2>1 DEF CheckIncept, Require, &&
  <2>3. /\ d.ridx = c.ridx /\ d.kidx = c.kidx /\ d.count = spec.count
        /\ d.ncount = spec.ncount /\ d.transferable = spec.transferable
        /\ d.incepted
    BY DEF Incepted, Custodian
  <2>4. d \in Custodian
    BY <1>2 DEF Custodian, Incepted
  <2>5. CountersWell(d)
    BY <2>2, <2>3 DEF CountersWell, Committable
  <2>6. d.incepted /\ Rung(d) = Rung(c) + 1 /\ d.ncount = spec.ncount
    BY <1>1, <1>4, <2>3 DEF Rung, Custodian, CountersWell
  <2>7. Step(c, spec) = d
    BY <1>4 DEF Step
  <2> HIDE DEF d
  <2>8. QED
    BY <2>2, <2>4, <2>5, <2>6, <2>7
<1>5. QED
  BY <1>3, <1>4

-----------------------------------------------------------------------------
(* What a builder makes is an event, with the lists it was given.          *)

(* Thresholds filled in by a builder are thresholds.                       *)
LEMMA DefaultsFit ==
  ASSUME NEW keys \in Seq(Keys), Len(keys) <= MaxIndex + 1,
         NEW next \in Seq(Keys), Len(next) <= MaxIndex + 1,
         NEW o \in Options, NEW count \in Nat
  PROVE  /\ Threshold(o.kt, keys) \in Thresholds
         /\ NextThreshold(o.nt, next) \in Thresholds
         /\ WitnessThreshold(o.toad, count) \in Nat
<1>1. MaxIndex \in Nat
  BY CustodyAssumption
<1>2. Len(keys) \in 0..(MaxIndex + 1) /\ Len(next) \in 0..(MaxIndex + 1)
  BY <1>1
<1>3. /\ Simple(0) \in Thresholds
      /\ Simple(Majority(Len(keys))) \in Thresholds
      /\ Simple(Majority(Len(next))) \in Thresholds
  BY <1>2, ControllerAssumption
<1>4. /\ o.kt \in Thresholds \cup {None}
      /\ o.nt \in Thresholds \cup {None}
      /\ o.toad \in Nat \cup {None}
  BY DEF Options
<1>5. WitnessThreshold(o.toad, count) \in Nat
  BY <1>4, AmpleIsNat DEF WitnessThreshold
<1>6. QED
  BY <1>3, <1>4, <1>5 DEF Threshold, NextThreshold

(* The frame of an event, before its lists, is an event.                   *)
LEMMA BuiltIsEvent ==
  ASSUME NEW kind \in {"icp", "rot", "ixn"}, NEW pre \in Identifiers, NEW sn \in Nat,
         NEW said \in Saids, NEW prior \in Saids \cup {None}
  PROVE  LET e == Built(kind, pre, sn, said, prior)
         IN  /\ e \in Shape /\ e \in Event
             /\ e.kind = kind /\ e.pre = pre /\ e.sn = sn
<1>1. <<>> \in Seq(Keys) /\ <<>> \in Seq(Seal)
  OBVIOUS
<1>2. Simple(0) \in Thresholds
  BY ControllerAssumption
<1>3. kind \in Kinds
  BY DEF Kinds
<1>4. QED
  BY <1>1, <1>2, <1>3 DEF Built, Shape, Event

(* An establishment with the lists and defaults of a builder is an event.  *)
LEMMA EstablishingIsEvent ==
  ASSUME NEW e \in Shape, e.kind \in {"icp", "rot"},
         NEW keys \in Seq(Keys), Len(keys) <= MaxIndex + 1,
         NEW next \in Seq(Keys), Len(next) <= MaxIndex + 1,
         NEW o \in Options, NEW count \in Nat
  PROVE  LET f == Establishing(e, keys, next, o, count)
         IN  /\ f \in Shape /\ f \in Event
             /\ f.kind = e.kind /\ f.pre = e.pre /\ f.sn = e.sn
             /\ f.keys = keys /\ f.next = next
<1>1. /\ Threshold(o.kt, keys) \in Thresholds
      /\ NextThreshold(o.nt, next) \in Thresholds
      /\ WitnessThreshold(o.toad, count) \in Nat
  BY DefaultsFit
<1>2. o.adds \in Seq(Keys)
  BY DEF Options
<1>3. QED
  BY <1>1, <1>2 DEF Establishing, Shape, Event

(* What sign returns are signatures.                                       *)
LEMMA SignaturesAreSigers ==
  ASSUME NEW c \in Custodian, Derivable(c.kidx, c.count)
  PROVE  Sign(c) \in SUBSET Siger
<1>1. /\ Verkeys(c) \in Seq(Keys)
      /\ Len(Verkeys(c)) = c.count
  BY DeriveIsKeys DEF Verkeys, Custodian
<1>2. c.count \in Nat
  BY DEF Custodian
<1>3. \A i \in 1..c.count : Verkeys(c)[i] \in Keys /\ i - 1 \in Nat
  BY <1>1, <1>2
<1>4. QED
  BY <1>3 DEF Sign, Siger

-----------------------------------------------------------------------------
(* Each action keeps the invariant.                                        *)

(* A controller with a fresh custodian and no log.                         *)
LEMMA InitIInv == Init => IInv
<1> SUFFICES ASSUME Init PROVE IInv
  OBVIOUS
<1> USE DEF Init
<1>1. MaxIndex \in Nat
  BY CustodyAssumption
<1>2. Fresh \in Custodian
  BY <1>1 DEF Fresh, Custodian
<1>3. Params(Fresh) = Fresh
  BY DEF Params, Fresh
<1>4. TypeOK
  BY <1>2, <1>3 DEF TypeOK
<1>5. Rungs
  BY <1>3 DEF Rungs, CountersWell, OnLadder, Rung, Fresh
<1>6. CommitmentWell /\ PendingWell /\ HeadWell
  BY DEF CommitmentWell, PendingWell, HeadWell
<1>7. QED
  BY <1>4, <1>5, <1>6 DEF IInv

(* incept and rotate: the counters move one rung above the log.            *)
LEMMA EstablishKeeps ==
  ASSUME IInv, NEW spec \in Specs, Establish(spec)
  PROVE  IInv'
<1>1. /\ UNCHANGED <<saved, pending, head, ladder>>
      /\ commitment = None /\ pending = None
      /\ Rung(custodian) = Len(ladder)
      /\ NextSn <= MaxSn
      /\ CheckStep(custodian, spec) = "Ok"
      /\ custodian' = Step(custodian, spec)
      /\ commitment' = Commit(custodian')
  BY DEF Establish, InStep, Idle, HasRoom
<1>2. /\ TypeOK /\ Rungs /\ HeadWell
      /\ custodian \in Custodian /\ CountersWell(custodian)
      /\ spec \in KeySpec
  BY ControllerAssumption DEF IInv, TypeOK, Rungs
<1>3. /\ custodian' \in Custodian
      /\ CountersWell(custodian')
      /\ Committable(custodian')
      /\ custodian'.incepted
      /\ Rung(custodian') = Len(ladder) + 1
  BY <1>1, <1>2, StepClimbs
<1>4. /\ commitment' \in KeyCommitment
      /\ Len(commitment'.keys) <= MaxIndex + 1
      /\ Len(commitment'.next) = custodian'.ncount /\ custodian'.ncount <= MaxIndex + 1
  BY <1>1, <1>3, CommitIsCommitment
<1>5. commitment' # None
  BY <1>4, ControllerAssumption
<1>6. TypeOK'
  BY <1>1, <1>2, <1>3, <1>4 DEF TypeOK
<1>7. Rungs'
  <2>1. Len(ladder) \in Nat
    BY <1>2 DEF TypeOK
  <2>2. OnLadder(custodian)'
    BY <1>1, <1>3, <2>1 DEF OnLadder, Rung
  <2>3. CountersWell(saved)' /\ OnLadder(saved)' /\ (Rung(saved) <= Len(ladder))'
    BY <1>1, <1>2 DEF Rungs, CountersWell, OnLadder, Rung
  <2>4. CountersWell(custodian)'
    BY <1>3 DEF CountersWell
  <2>5. QED
    BY <1>5, <2>2, <2>3, <2>4 DEF Rungs
<1>8. CommitmentWell'
  BY <1>1, <1>3, <1>4 DEF CommitmentWell, NextSn, Rung
<1>9. PendingWell' /\ HeadWell'
  BY <1>1, <1>2 DEF PendingWell, HeadWell
<1>10. QED
  BY <1>6, <1>7, <1>8, <1>9 DEF IInv

(* A step that only fills the pending slot.                                *)
LEMMA PendingFills ==
  ASSUME IInv, UNCHANGED <<custodian, saved, commitment, head, ladder>>,
         pending' \in Message \cup {None}, PendingWell'
  PROVE  IInv'
<1>1. TypeOK'
  BY DEF IInv, TypeOK
<1>2. Rungs'
  BY DEF IInv, Rungs, CountersWell, OnLadder, Rung
<1>3. CommitmentWell' /\ HeadWell'
  BY DEF IInv, CommitmentWell, HeadWell, NextSn, Rung
<1>4. QED
  BY <1>1, <1>2, <1>3 DEF IInv

(* What is needed of the head to name the event that follows it.           *)
LEMMA NextIsNamed ==
  ASSUME IInv, NextSn <= MaxSn
  PROVE  /\ NextSn \in Nat /\ NextSn \in 0..MaxSn
         /\ Names[NextSn] \in Saids
         /\ Names[0] \in Saids /\ Names[0] \in Identifiers
         /\ head # None => /\ head.pre \in Identifiers /\ head.said \in Saids
                           /\ head.wits \in SUBSET Keys
                           /\ IsFiniteSet(head.wits)
                           /\ NextSn = head.sn + 1
<1>1. MaxSn \in Nat
  BY KeyStateAssumption
<1>2. head # None => head \in State /\ head.sn \in 0..MaxSn /\ IsFiniteSet(head.wits)
  BY DEF IInv, TypeOK, HeadWell
<1>3. NextSn \in 0..MaxSn
  BY <1>1, <1>2 DEF NextSn
<1>4. Names \in [0..MaxSn -> Saids] /\ Names[0] \in Digestive
  BY ControllerAssumption
<1>5. head # None => /\ head.pre \in Identifiers /\ head.said \in Saids
                     /\ head.wits \in SUBSET Keys
  BY <1>2 DEF State
<1>6. QED
  BY <1>1, <1>2, <1>3, <1>4, <1>5 DEF Identifiers, NextSn

(* A build takes the lists of the commitment as they are.                  *)
LEMMA BuildKeeps ==
  ASSUME IInv, NEW o \in Wishes, Build(o)
  PROVE  IInv'
<1>1. /\ commitment # None
      /\ UNCHANGED <<custodian, saved, commitment, head, ladder>>
  BY DEF Build
<1>2. /\ commitment \in KeyCommitment
      /\ Len(commitment.keys) <= MaxIndex + 1 /\ Len(commitment.next) <= MaxIndex + 1
      /\ custodian \in Custodian /\ custodian.incepted
      /\ Derivable(custodian.kidx, custodian.count)
      /\ NextSn <= MaxSn
  BY <1>1 DEF IInv, TypeOK, CommitmentWell, Rungs, CountersWell
<1>3. commitment.keys \in Seq(Keys) /\ commitment.next \in Seq(Keys)
  BY <1>2 DEF KeyCommitment
<1>4. Sign(custodian) \in SUBSET Siger
  BY <1>2, SignaturesAreSigers
<1>5. /\ o \in Options
      /\ o.adds \in Seq(Keys) /\ o.cuts \in Seq(Keys)
  BY ControllerAssumption DEF Options
<1>6. Members(o.adds) \in SUBSET Keys /\ IsFiniteSet(Members(o.adds))
  BY <1>5, MembersFinite
<1>7. CASE head = None
  <2> DEFINE e == Built("icp", Names[0], 0, Names[0], None)
             f == BuildInception(Names[0], commitment.keys, commitment.next, o)
  <2>1. /\ e \in Shape
        /\ e.kind = "icp" /\ e.pre = Names[0] /\ e.sn = 0
    BY <1>2, NextIsNamed, BuiltIsEvent
  <2>2. f = Establishing(e, commitment.keys, commitment.next, o, Len(o.adds))
    BY DEF BuildInception
  <2>3. Len(o.adds) \in Nat
    BY <1>5
  <2> HIDE DEF e, f
  <2>4. /\ f \in Event /\ f.kind = "icp" /\ f.pre = Names[0] /\ f.sn = 0
        /\ f.keys = commitment.keys /\ f.next = commitment.next
    BY <1>2, <1>3, <1>5, <2>1, <2>2, <2>3, EstablishingIsEvent
  <2>5. pending' = Signed(f, Members(o.adds))
    BY <1>7 DEF Build, f
  <2>6. pending' \in Message /\ pending'.event = f
    BY <1>4, <1>6, <2>4, <2>5 DEF Signed, Message
  <2>7. PendingWell'
    BY <1>1, <1>2, <1>7, <2>4, <2>6 DEF PendingWell, NextSn
  <2>8. QED
    BY <1>1, <2>6, <2>7, PendingFills
<1>8. CASE head # None
  <2> DEFINE e == Built("rot", head.pre, head.sn + 1, Names[NextSn], head.said)
             count == WitnessesLeft(head.wits, o)
             f == Establishing(e, commitment.keys, commitment.next, o, count)
             g == BuildRotation(head, Names[NextSn], commitment.keys, commitment.next, o)
             wits == UpdatedMembers(head.wits, o.cuts, o.adds)
  <2>1. /\ e \in Shape
        /\ e.kind = "rot" /\ e.sn = NextSn
    BY <1>2, <1>8, NextIsNamed, BuiltIsEvent
  <2>2. IsFiniteSet(wits) /\ wits \in SUBSET Keys
    <3>1. IsFiniteSet(head.wits) /\ head.wits \in SUBSET Keys
      BY <1>2, <1>8, NextIsNamed
    <3>2. IsFiniteSet(wits)
      BY <1>5, <3>1, UpdatedFinite
    <3>3. QED
      BY <1>6, <3>1, <3>2 DEF UpdatedMembers
  <2>3. count \in Nat
    BY <2>2, FS_CardinalityType DEF WitnessesLeft
  <2>4. g = [f EXCEPT !.cuts = o.cuts]
    BY DEF BuildRotation
  <2> HIDE DEF e, count
  <2>5. /\ f \in Shape /\ f.kind = "rot" /\ f.sn = NextSn
        /\ f.keys = commitment.keys /\ f.next = commitment.next
    BY <1>2, <1>3, <1>5, <2>1, <2>3, EstablishingIsEvent
  <2> HIDE DEF f, g
  <2>6. /\ g \in Shape /\ g.kind = "rot" /\ g.sn = NextSn
        /\ g.keys = commitment.keys /\ g.next = commitment.next
    BY <1>5, <2>4, <2>5 DEF Shape
  <2>7. g \in Event
    BY <2>6 DEF Event
  <2>8. pending' = Signed(g, wits)
    BY <1>8 DEF Build, g
  <2>9. pending' \in Message /\ pending'.event = g
    BY <1>4, <2>2, <2>7, <2>8 DEF Signed, Message
  <2>10. PendingWell'
    BY <1>1, <1>2, <1>8, <2>6, <2>9 DEF PendingWell, NextSn
  <2>11. QED
    BY <1>1, <2>9, <2>10, PendingFills
<1>9. QED
  BY <1>7, <1>8

(* An interaction leaves the ladder alone.                                 *)
LEMMA InteractKeeps ==
  ASSUME IInv, Interact
  PROVE  IInv'
<1>1. /\ commitment = None /\ head # None /\ NextSn <= MaxSn
      /\ Rung(custodian) = Len(ladder)
      /\ UNCHANGED <<custodian, saved, commitment, head, ladder>>
  BY DEF Interact, InStep, Idle, HasRoom
<1>2. custodian \in Custodian /\ custodian.incepted
  <2>1. ladder # <<>> /\ ladder \in Seq(KeyCommitment) /\ custodian \in Custodian
    BY <1>1 DEF IInv, HeadWell, TypeOK
  <2>2. Len(ladder) # 0
    BY <2>1
  <2>3. QED
    BY <1>1, <2>1, <2>2 DEF Rung
<1>3. Sign(custodian) \in SUBSET Siger
  BY <1>2, SignaturesAreSigers DEF IInv, Rungs, CountersWell
<1> DEFINE e == BuildInteraction(head, Names[NextSn])
<1>4. /\ e \in Event /\ e.kind = "ixn" /\ e.sn = NextSn
  BY <1>1, NextIsNamed, BuiltIsEvent DEF BuildInteraction
<1>5. pending' = Signed(e, head.wits)
  BY DEF Interact
<1> HIDE DEF e
<1>6. pending' \in Message /\ pending'.event = e
  BY <1>1, <1>3, <1>4, <1>5, NextIsNamed DEF Signed, Message
<1>7. PendingWell'
  BY <1>1, <1>4, <1>6 DEF PendingWell, NextSn
<1>8. QED
  BY <1>1, <1>6, <1>7, PendingFills

(* A refusal leaves all but the pending slot.                              *)
LEMMA DiscardKeeps ==
  ASSUME IInv, Discard
  PROVE  IInv'
<1>1. /\ pending' = None
      /\ UNCHANGED <<custodian, saved, commitment, head, ladder>>
  BY DEF Discard
<1>2. PendingWell'
  BY <1>1 DEF PendingWell
<1>3. QED
  BY <1>1, <1>2, PendingFills

(* What the fold takes: an inception first, then rotations and             *)
(* interactions of a log that is open.                                     *)
LEMMA AcceptedFirst ==
  ASSUME NEW m, m.event.kind \in {"icp", "rot", "ixn"}, Incept(m) = "Ok"
  PROVE  m.event.kind = "icp"
BY DEF Incept

(* Later only rotations and interactions, of an open log.                  *)
LEMMA AcceptedLater ==
  ASSUME NEW s, NEW m, m.event.kind \in {"icp", "rot", "ixn"}, Ingest(s, m) = "Ok"
  PROVE  s.transferable /\ m.event.kind \in {"rot", "ixn"}
BY DEF Ingest, Require, &&

(* An accepted inception leads to a state with its lists.                  *)
LEMMA SeedIsState ==
  ASSUME NEW e \in Event, e.kind = "icp"
  PROVE  /\ SeedState(e) \in State
         /\ SeedState(e).sn = 0
         /\ SeedState(e).keys = e.keys /\ SeedState(e).next = e.next
         /\ SeedState(e).transferable <=> (IsTransferable(e.pre) /\ e.next # <<>>)
         /\ IsFiniteSet(SeedState(e).wits)
<1>1. /\ e.pre \in Identifiers /\ e.said \in Saids /\ e.kind \in Kinds
      /\ e.keys \in Seq(Keys) /\ e.kt \in Thresholds
      /\ e.next \in Seq(Keys) /\ e.nt \in Thresholds
      /\ e.wits \in Seq(Keys) /\ e.toad \in Nat /\ e.conf \in SUBSET Traits
  BY DEF Event, Shape
<1>2. Members(e.wits) \in SUBSET Keys /\ IsFiniteSet(Members(e.wits))
  BY <1>1, MembersFinite
<1>3. (IsTransferable(e.pre) /\ e.next # <<>>) \in BOOLEAN
  BY DEF IsTransferable
<1>4. SeedState(e) \in State
  BY <1>1, <1>2, <1>3 DEF SeedState, State
<1>5. QED
  BY <1>2, <1>3, <1>4 DEF SeedState

(* An accepted rotation leads to a state with its lists.                   *)
LEMMA RotatedIsState ==
  ASSUME NEW s \in State, IsFiniteSet(s.wits), NEW e \in Event, e.kind \in Rotations
  PROVE  /\ ApplyRotation(s, e) \in State
         /\ ApplyRotation(s, e).sn = e.sn
         /\ ApplyRotation(s, e).keys = e.keys /\ ApplyRotation(s, e).next = e.next
         /\ s.transferable => (ApplyRotation(s, e).transferable <=> e.next # <<>>)
         /\ IsFiniteSet(ApplyRotation(s, e).wits)
<1>1. /\ e.said \in Saids /\ e.kind \in Kinds /\ e.sn \in Nat
      /\ e.keys \in Seq(Keys) /\ e.kt \in Thresholds
      /\ e.next \in Seq(Keys) /\ e.nt \in Thresholds
      /\ e.wits \in Seq(Keys) /\ e.toad \in Nat
  BY DEF Event, Shape
<1> DEFINE wits == UpdatedMembers(s.wits, e.cuts, e.wits)
           open == IF e.next = <<>> THEN FALSE ELSE s.transferable
<1>2. wits \in SUBSET Keys /\ IsFiniteSet(wits)
  <2>1. Members(e.wits) \in SUBSET Keys /\ s.wits \in SUBSET Keys
    BY <1>1, MembersFinite DEF State
  <2>2. IsFiniteSet(wits)
    BY <1>1, UpdatedFinite
  <2>3. QED
    BY <2>1, <2>2 DEF UpdatedMembers
<1>3. open \in BOOLEAN
  BY DEF State
<1>4. ApplyRotation(s, e) =
        [s EXCEPT !.sn = e.sn, !.said = e.said, !.kind = e.kind,
                  !.keys = e.keys, !.kt = e.kt, !.next = e.next, !.nt = e.nt,
                  !.wits = wits, !.toad = e.toad,
                  !.estSn = e.sn, !.estSaid = e.said, !.transferable = open]
  BY DEF ApplyRotation
<1>5. s.transferable => (open <=> e.next # <<>>)
  OBVIOUS
<1> HIDE DEF wits, open
<1> DEFINE named == [s EXCEPT !.sn = e.sn, !.said = e.said, !.kind = e.kind,
                              !.estSn = e.sn, !.estSaid = e.said]
           keyed == [named EXCEPT !.keys = e.keys, !.kt = e.kt,
                                  !.next = e.next, !.nt = e.nt]
           whole == [keyed EXCEPT !.wits = wits, !.toad = e.toad, !.transferable = open]
<1>a. named \in State /\ named.sn = e.sn
  BY <1>1 DEF State
<1> HIDE DEF named
<1>b. keyed \in State /\ keyed.sn = named.sn
      /\ keyed.keys = e.keys /\ keyed.next = e.next
  BY <1>1, <1>a DEF State
<1> HIDE DEF keyed
<1>c. /\ whole \in State /\ whole.sn = keyed.sn
      /\ whole.keys = keyed.keys /\ whole.next = keyed.next
      /\ whole.wits = wits /\ whole.transferable = open
  BY <1>1, <1>2, <1>3, <1>b DEF State
<1>d. ApplyRotation(s, e) = whole
  BY <1>4 DEF State, named, keyed
<1> HIDE DEF whole
<1>6. ApplyRotation(s, e) \in State
  BY <1>c, <1>d
<1>7. /\ ApplyRotation(s, e).sn = e.sn
      /\ ApplyRotation(s, e).keys = e.keys /\ ApplyRotation(s, e).next = e.next
      /\ ApplyRotation(s, e).transferable = open
      /\ ApplyRotation(s, e).wits = wits
  BY <1>a, <1>b, <1>c, <1>d
<1>8. QED
  BY <1>2, <1>5, <1>6, <1>7

(* An accepted interaction keeps keys, commitment and witnesses.           *)
LEMMA SteppedIsState ==
  ASSUME NEW s \in State, NEW e \in Event
  PROVE  /\ ApplyInteraction(s, e) \in State
         /\ ApplyInteraction(s, e).sn = e.sn
         /\ ApplyInteraction(s, e).keys = s.keys
         /\ ApplyInteraction(s, e).next = s.next
         /\ ApplyInteraction(s, e).transferable = s.transferable
         /\ ApplyInteraction(s, e).wits = s.wits
<1>1. e.said \in Saids /\ e.sn \in Nat /\ "ixn" \in Kinds
  BY DEF Event, Shape, Kinds
<1>2. QED
  BY <1>1 DEF ApplyInteraction, State

(* The head and the ladder that Store leaves.                              *)
LEMMA StoreGrows ==
  ASSUME IInv, Store
  PROVE  /\ head' \in State /\ head' # None
         /\ head'.sn \in 0..MaxSn
         /\ IsFiniteSet(head'.wits)
         /\ \/ /\ pending.event.kind # "ixn"
               /\ head'.keys = pending.event.keys
               /\ head'.next = pending.event.next
               /\ head'.transferable <=> pending.event.next # <<>>
            \/ /\ pending.event.kind = "ixn"
               /\ head # None
               /\ head'.keys = head.keys /\ head'.next = head.next
               /\ head'.transferable = head.transferable
<1> DEFINE e == pending.event
<1>1. /\ pending # None /\ Verdict(pending) = "Ok"
      /\ head' = IF head = None THEN SeedState(e) ELSE Apply(head, e)
  BY DEF Store
<1>2. /\ pending \in Message /\ e \in Event
      /\ e.kind \in {"icp", "rot", "ixn"}
      /\ NextSn <= MaxSn /\ e.sn = NextSn /\ e.sn \in 0..MaxSn
      /\ e.kind = "icp" => e.pre = Names[0]
  BY <1>1, NextIsNamed DEF IInv, TypeOK, PendingWell, Message
<1>3. \A s \in State : s # None
  BY ControllerAssumption
<1>4. MaxSn \in Nat
  BY KeyStateAssumption
<1>5. CASE head = None
  <2>1. e.kind = "icp"
    BY <1>1, <1>2, <1>5, AcceptedFirst DEF Verdict
  <2>2. IsTransferable(e.pre)
    BY <1>2, <2>1, ControllerAssumption, KeyStateAssumption DEF IsTransferable
  <2>3. head' = SeedState(e)
    BY <1>1, <1>5
  <2> HIDE DEF e
  <2>4. /\ head' \in State /\ head'.sn = 0
        /\ head'.keys = e.keys /\ head'.next = e.next
        /\ head'.transferable <=> e.next # <<>>
        /\ IsFiniteSet(head'.wits)
    BY <1>2, <2>1, <2>2, <2>3, SeedIsState
  <2>5. QED
    BY <1>3, <1>4, <2>1, <2>4 DEF e
<1>6. CASE head # None
  <2>1. head \in State /\ IsFiniteSet(head.wits)
    BY <1>6 DEF IInv, TypeOK, HeadWell
  <2>2. head.transferable /\ e.kind \in {"rot", "ixn"}
    BY <1>1, <1>2, <1>6, AcceptedLater DEF Verdict
  <2>3. CASE e.kind = "rot"
    <3>1. e.kind \in Rotations /\ head' = ApplyRotation(head, e)
      BY <1>1, <1>6, <2>3 DEF Rotations, Apply
    <3> HIDE DEF e
    <3>2. /\ head' \in State /\ head'.sn = e.sn
          /\ head'.keys = e.keys /\ head'.next = e.next
          /\ head'.transferable <=> e.next # <<>>
          /\ IsFiniteSet(head'.wits)
      BY <1>2, <2>1, <2>2, <3>1, RotatedIsState
    <3>3. QED
      BY <1>2, <1>3, <2>3, <3>2 DEF e
  <2>4. CASE e.kind = "ixn"
    <3>1. head' = ApplyInteraction(head, e)
      BY <1>1, <1>6, <2>4 DEF Rotations, Apply
    <3> HIDE DEF e
    <3>2. /\ head' \in State /\ head'.sn = e.sn
          /\ head'.keys = head.keys /\ head'.next = head.next
          /\ head'.transferable = head.transferable
          /\ IsFiniteSet(head'.wits)
      BY <1>2, <2>1, <3>1, SteppedIsState
    <3>3. QED
      BY <1>2, <1>3, <1>6, <2>4, <3>2 DEF e
  <2>5. QED
    BY <2>2, <2>3, <2>4
<1>7. QED
  BY <1>5, <1>6

(* Storing an establishment puts the log on the custodian's rung.          *)
LEMMA StoreKeeps ==
  ASSUME IInv, Store
  PROVE  IInv'
<1> DEFINE e == pending.event
           entry == [keys |-> e.keys, next |-> e.next]
<1>1. /\ pending # None /\ pending' = None /\ commitment' = None
      /\ UNCHANGED <<custodian, saved>>
      /\ ladder' = IF e.kind = "ixn" THEN ladder ELSE Append(ladder, entry)
  BY DEF Store
<1>2. /\ ladder \in Seq(KeyCommitment) /\ Len(ladder) \in Nat
      /\ custodian \in Custodian /\ saved \in Custodian
      /\ Rungs /\ CommitmentWell /\ HeadWell
  BY DEF IInv, TypeOK
<1>3. entry \in KeyCommitment
  <2>1. e \in Event
    BY <1>1 DEF IInv, TypeOK, Message
  <2>2. QED
    BY <2>1 DEF Event, Shape, KeyCommitment
<1>4. /\ custodian.ridx \in Nat /\ saved.ridx \in Nat
      /\ Rung(custodian) \in Nat /\ Rung(saved) \in Nat
  BY <1>2, CustodyAssumption DEF Custodian, Rung
<1>5. CASE e.kind = "ixn"
  <2>1. /\ ladder' = ladder /\ head # None
        /\ head'.keys = head.keys /\ head'.next = head.next
        /\ head'.transferable = head.transferable
        /\ head' # None /\ head' \in State
        /\ head'.sn \in 0..MaxSn /\ IsFiniteSet(head'.wits)
    BY <1>1, <1>5, StoreGrows
  <2>2. TypeOK'
    BY <1>1, <1>2, <2>1 DEF TypeOK
  <2>3. Rung(custodian) <= Len(ladder)
    BY <1>1, <1>2, <1>5 DEF IInv, PendingWell, Rungs
  <2>4. Rungs'
    BY <1>1, <1>2, <2>1, <2>3 DEF Rungs, CountersWell, OnLadder, Rung
  <2>5. CommitmentWell' /\ PendingWell'
    BY <1>1 DEF CommitmentWell, PendingWell
  <2>6. HeadWell'
    BY <1>2, <2>1 DEF HeadWell
  <2>7. QED
    BY <2>2, <2>4, <2>5, <2>6 DEF IInv
<1>6. CASE e.kind # "ixn"
  <2>1. /\ ladder' = Append(ladder, entry)
        /\ head'.keys = e.keys /\ head'.next = e.next
        /\ (head'.transferable <=> e.next # <<>>)
        /\ head' # None /\ head' \in State
        /\ head'.sn \in 0..MaxSn /\ IsFiniteSet(head'.wits)
    BY <1>1, <1>6, StoreGrows
  <2>2. /\ commitment # None /\ e.next = commitment.next
        /\ Rung(custodian) = Len(ladder) + 1
        /\ custodian.ncount = Len(commitment.next)
    BY <1>1, <1>2, <1>6 DEF IInv, PendingWell, CommitmentWell
  <2>3. entry.keys = e.keys /\ entry.next = e.next
    OBVIOUS
  <2> HIDE DEF entry, e
  <2>4. /\ ladder' \in Seq(KeyCommitment) /\ ladder' # <<>>
        /\ Len(ladder') = Len(ladder) + 1
        /\ ladder'[Len(ladder')] = entry
        /\ \A r \in 1..Len(ladder) : ladder'[r] = ladder[r]
    BY <1>2, <1>3, <2>1
  <2>5. TypeOK'
    BY <1>1, <1>2, <2>1, <2>4 DEF TypeOK
  <2>6. OnLadder(custodian)'
    BY <1>1, <2>2, <2>3, <2>4 DEF OnLadder, Rung
  <2>7. OnLadder(saved)'
    <3>1. SUFFICES ASSUME saved.incepted
                   PROVE  saved.ncount = Len(ladder'[Rung(saved)].next)
      BY <1>1 DEF OnLadder, Rung
    <3>2. Rung(saved) \in 1..Len(ladder)
      BY <1>2, <1>4, <3>1 DEF Rungs, Rung
    <3>3. QED
      BY <1>2, <2>4, <3>1, <3>2 DEF Rungs, OnLadder
  <2>8. Rungs'
    <3>1. CountersWell(custodian)' /\ CountersWell(saved)'
      BY <1>1, <1>2 DEF Rungs, CountersWell
    <3>2. (Rung(saved) <= Len(ladder))' /\ (Rung(custodian) <= Len(ladder))'
      BY <1>1, <1>2, <1>4, <2>2, <2>4 DEF Rungs, Rung
    <3>3. QED
      BY <2>6, <2>7, <3>1, <3>2 DEF Rungs
  <2>9. CommitmentWell' /\ PendingWell'
    BY <1>1 DEF CommitmentWell, PendingWell
  <2>10. HeadWell'
    BY <2>1, <2>3, <2>4 DEF HeadWell
  <2>11. QED
    BY <2>5, <2>8, <2>9, <2>10 DEF IInv
<1>7. QED
  BY <1>5, <1>6

(* Parameters carry every counter.                                         *)
LEMMA ParamsAreWhole ==
  ASSUME NEW c \in Custodian
  PROVE  Params(c) = c /\ Resume(Params(c)) = c
BY DEF Params, Resume, Custodian

(* Only a rung the log has taken is saved.                                 *)
LEMMA SaveKeeps ==
  ASSUME IInv, Save
  PROVE  IInv'
<1>1. /\ commitment = None /\ custodian \in Custodian /\ saved' = custodian
      /\ UNCHANGED <<custodian, commitment, pending, head, ladder>>
  BY ParamsAreWhole DEF Save, IInv, TypeOK
<1>2. TypeOK'
  BY <1>1 DEF IInv, TypeOK
<1>3. Rungs'
  BY <1>1 DEF IInv, Rungs, CountersWell, OnLadder, Rung
<1>4. CommitmentWell' /\ PendingWell' /\ HeadWell'
  BY <1>1 DEF IInv, CommitmentWell, PendingWell, HeadWell, NextSn
<1>5. QED
  BY <1>2, <1>3, <1>4 DEF IInv

(* After a crash the counters are those saved.                             *)
LEMMA CrashKeeps ==
  ASSUME IInv, Crash
  PROVE  IInv'
<1>1. /\ custodian' = saved /\ commitment' = None /\ pending' = None
      /\ UNCHANGED <<saved, head, ladder>>
  BY DEF Crash, Resume
<1>2. TypeOK'
  BY <1>1 DEF IInv, TypeOK
<1>3. Rungs'
  BY <1>1 DEF IInv, Rungs, CountersWell, OnLadder, Rung
<1>4. CommitmentWell' /\ PendingWell' /\ HeadWell'
  BY <1>1 DEF IInv, CommitmentWell, PendingWell, HeadWell
<1>5. QED
  BY <1>2, <1>3, <1>4 DEF IInv

(* Climbing a rung of the log again leads to the counts it shows.          *)
LEMMA CatchUpKeeps ==
  ASSUME IInv, CatchUp
  PROVE  IInv'
<1> DEFINE r == Rung(custodian) + 1
           spec == LogSpec(ladder[r])
<1>1. /\ commitment = None /\ pending = None
      /\ Rung(custodian) < Len(ladder)
      /\ CheckStep(custodian, spec) = "Ok"
      /\ custodian' = Step(custodian, spec)
      /\ UNCHANGED <<saved, commitment, pending, head, ladder>>
  BY DEF CatchUp, Idle
<1>2. /\ custodian \in Custodian /\ CountersWell(custodian)
      /\ ladder \in Seq(KeyCommitment)
      /\ Rungs /\ HeadWell
  BY DEF IInv, TypeOK, Rungs
<1>3. Rung(custodian) \in Nat
  BY <1>2, CustodyAssumption DEF Custodian, Rung
<1>4. r \in 1..Len(ladder) /\ ladder[r] \in KeyCommitment
  BY <1>1, <1>2, <1>3
<1>5. spec \in KeySpec /\ spec.ncount = Len(ladder[r].next)
  BY <1>4 DEF LogSpec, KeySpec, KeyCommitment
<1> HIDE DEF spec
<1>6. /\ custodian' \in Custodian
      /\ CountersWell(custodian')
      /\ custodian'.incepted
      /\ Rung(custodian') = r
      /\ custodian'.ncount = Len(ladder[r].next)
  BY <1>1, <1>2, <1>5, StepClimbs
<1> HIDE DEF r
<1>7. TypeOK'
  BY <1>1, <1>6 DEF IInv, TypeOK
<1>8. Rungs'
  <2>1. CountersWell(custodian)' /\ OnLadder(custodian)'
    BY <1>1, <1>6 DEF CountersWell, OnLadder, Rung
  <2>2. CountersWell(saved)' /\ OnLadder(saved)' /\ (Rung(saved) <= Len(ladder))'
    BY <1>1, <1>2 DEF Rungs, CountersWell, OnLadder, Rung
  <2>3. (Rung(custodian) <= Len(ladder))'
    BY <1>1, <1>4, <1>6 DEF Rung
  <2>4. QED
    BY <2>1, <2>2, <2>3 DEF Rungs
<1>9. CommitmentWell' /\ PendingWell' /\ HeadWell'
  BY <1>1, <1>2 DEF CommitmentWell, PendingWell, HeadWell
<1>10. QED
  BY <1>7, <1>8, <1>9 DEF IInv

(* Every step keeps the invariant.                                         *)
LEMMA NextIInv == IInv /\ [Next]_vars => IInv'
<1> SUFFICES ASSUME IInv, [Next]_vars PROVE IInv'
  OBVIOUS
<1>1. ASSUME NEW spec \in Specs, Establish(spec) PROVE IInv'
  BY <1>1, EstablishKeeps
<1>2. ASSUME NEW o \in Wishes, Build(o) PROVE IInv'
  BY <1>2, BuildKeeps
<1>3. CASE Interact
  BY <1>3, InteractKeeps
<1>4. CASE Store
  BY <1>4, StoreKeeps
<1>5. CASE Discard
  BY <1>5, DiscardKeeps
<1>6. CASE Save
  BY <1>6, SaveKeeps
<1>7. CASE Crash
  BY <1>7, CrashKeeps
<1>8. CASE CatchUp
  BY <1>8, CatchUpKeeps
<1>9. CASE UNCHANGED vars
  <2>1. UNCHANGED <<custodian, saved, commitment, head, ladder>> /\ pending' = pending
    BY <1>9 DEF vars
  <2>2. PendingWell' /\ pending \in Message \cup {None}
    BY <2>1 DEF IInv, TypeOK, PendingWell, NextSn
  <2>3. QED
    BY <2>1, <2>2, PendingFills
<1>10. QED
  BY <1>1, <1>2, <1>3, <1>4, <1>5, <1>6, <1>7, <1>8, <1>9 DEF Next

-----------------------------------------------------------------------------
(* The inductive invariant holds in every behaviour.                       *)
THEOREM Invariant == Spec => []IInv
BY InitIInv, NextIInv, PTL DEF Spec

(* Every index the custodian derives from fits, every event it takes part  *)
(* in is well formed, whatever the caller asks for (custody.rs, builder/). *)
THEOREM TypeCorrect == Spec => []TypeOK
<1>1. IInv => TypeOK
  BY DEF IInv
<1>2. QED
  BY <1>1, Invariant, PTL

(* The custodian refuses to rotate exactly where the fold would refuse the *)
(* rotation, after any crashes and rebuilds: an empty commitment closes    *)
(* both (custody.rs NotRotatable, state.rs NonTransferableState).          *)
THEOREM CustodyMirrorsFold == Spec => []MirrorsFold
<1>1. IInv => MirrorsFold
  <2> SUFFICES ASSUME IInv, InStep, head # None, NEW spec \in Specs
               PROVE  CheckRotate(custodian, spec) = "NotRotatable" <=> ~head.transferable
    BY DEF MirrorsFold
  <2>1. /\ ladder \in Seq(KeyCommitment) /\ ladder # <<>>
        /\ head.next = ladder[Len(ladder)].next
        /\ head.transferable <=> head.next # <<>>
    BY DEF IInv, TypeOK, HeadWell
  <2>2. Len(ladder) \in Nat \ {0} /\ ladder[Len(ladder)] \in KeyCommitment
    BY <2>1
  <2>3. custodian.incepted /\ custodian.ncount = Len(head.next)
    BY <2>1, <2>2 DEF InStep, IInv, Rungs, OnLadder, Rung
  <2>4. head.next \in Seq(Keys)
    BY <2>1, <2>2 DEF KeyCommitment
  <2>5. head.next # <<>> <=> custodian.ncount # 0
    BY <2>3, <2>4
  <2>6. custodian.ncount # 0 => custodian.transferable
    BY DEF IInv, Rungs, CountersWell
  <2>7. CheckRotate(custodian, spec) = "NotRotatable" <=>
          ~(custodian.transferable /\ custodian.ncount # 0)
    BY <2>3 DEF CheckRotate, Require, &&
  <2>8. QED
    BY <2>1, <2>5, <2>6, <2>7
<1>2. QED
  BY <1>1, Invariant, PTL

(* Under the default witness threshold no two events of one number can     *)
(* both be witnessed, for any number of witnesses a third of them faulty.  *)
THEOREM DefaultQuorumsOverlap == Spec => []HonestOverlap
<1>1. IInv => HonestOverlap
  <2> SUFFICES ASSUME IInv, head # None, Cardinality(head.wits) > 0,
                      head.toad >= Ample(Cardinality(head.wits)),
                      NEW p \in SUBSET head.wits, NEW q \in SUBSET head.wits,
                      Cardinality(p) >= head.toad, Cardinality(q) >= head.toad
               PROVE  Cardinality(p \cap q) > Faulty(Cardinality(head.wits))
    BY DEF HonestOverlap
  <2>1. head.toad \in Nat /\ IsFiniteSet(head.wits)
    BY DEF IInv, TypeOK, HeadWell, State
  <2>2. QED
    BY <2>1, QuorumsOverlap
<1>2. QED
  BY <1>1, Invariant, PTL

-----------------------------------------------------------------------------
(* Recovery from a crash. The counters the log was made with form a trail, *)
(* of which the invariant knows no more than that it exists: each rung is  *)
(* the one before it, moved with the specification that the log shows.     *)

Before(t, r) == IF r = 1 THEN Fresh ELSE t[r - 1]

OnTrail(t, c) == Rung(c) <= Len(ladder) => c = Before(t, Rung(c) + 1)

Climbs(t) ==
  \A r \in 1..Len(ladder) :
    /\ Rung(t[r]) = r
    /\ Commit(t[r]) = ladder[r]
    /\ CheckStep(Before(t, r), LogSpec(ladder[r])) = "Ok"
    /\ Step(Before(t, r), LogSpec(ladder[r])) = t[r]

Ahead(t) ==
  commitment # None =>
    /\ Commit(custodian) = commitment
    /\ CheckStep(Before(t, Len(ladder) + 1), LogSpec(commitment)) = "Ok"
    /\ Step(Before(t, Len(ladder) + 1), LogSpec(commitment)) = custodian

TrailOf(t) ==
  /\ Len(t) = Len(ladder)
  /\ Climbs(t)
  /\ OnTrail(t, custodian) /\ OnTrail(t, saved)
  /\ Ahead(t)

TrailWell == \E t \in Seq(Custodian) : TrailOf(t)

(* The specification read off an establishment moves the counters as the   *)
(* caller's did: the lengths are the counts, and the first key shows the   *)
(* flag wherever the custodian looks at it.                                *)
LEMMA LogShowsSpec ==
  ASSUME NEW c \in Custodian, CountersWell(c), NEW spec \in KeySpec,
         CheckStep(c, spec) = "Ok"
  PROVE  /\ CheckStep(c, LogSpec(Commit(Step(c, spec)))) = "Ok"
         /\ Step(c, LogSpec(Commit(Step(c, spec)))) = Step(c, spec)
<1> DEFINE d == Step(c, spec)
           shown == LogSpec(Commit(d))
<1>1. /\ d \in Custodian /\ Committable(d) /\ d.ncount = spec.ncount
  BY StepClimbs
<1>2. /\ Commit(d).keys = Verkeys(d)
      /\ Len(Commit(d).keys) = d.count /\ Len(Commit(d).next) = d.ncount
  BY <1>1, CommitIsCommitment DEF Commit
<1>3. d.count = spec.count
  BY DEF Step, Rotated, Incepted, RungUp, Custodian
<1>4. spec.count \in Nat /\ spec.count # 0
  <2>1. CASE c.incepted
    BY <2>1 DEF CheckStep, CheckRotate, Require, &&, KeySpec
  <2>2. CASE ~c.incepted
    BY <2>2 DEF CheckStep, CheckIncept, Require, &&, KeySpec
  <2>3. QED
    BY <2>1, <2>2
<1>5. /\ d.ridx \in 0..MaxIndex /\ d.kidx \in 0..MaxIndex
      /\ d.count \in Nat /\ d.transferable \in BOOLEAN
  BY <1>1 DEF Custodian
<1> HIDE DEF d
<1>6. Verkeys(d)[1] \notin NonTransferable <=> d.transferable
  <2>1. Verkeys(d)[1] = KeyAt(d.ridx, d.kidx + 1 - 1, d.transferable)
    BY <1>3, <1>4 DEF Verkeys, DeriveSet
  <2>2. d.kidx + 1 - 1 = d.kidx
    BY <1>5, CustodyAssumption
  <2>3. QED
    BY <1>5, <2>1, <2>2, CustodyAssumption
<1>7. /\ shown.count = spec.count /\ shown.ncount = spec.ncount
      /\ shown.transferable = d.transferable
  BY <1>1, <1>2, <1>3, <1>5, <1>6 DEF LogSpec
<1> HIDE DEF shown
<1>8. CASE c.incepted
  <2>1. CheckRotate(c, shown) = CheckRotate(c, spec) /\ Rotated(c, shown) = Rotated(c, spec)
    <3>1. Rotated(c, shown) = Rotated(c, spec)
      BY <1>7 DEF Rotated
    <3>2. QED
      BY <1>7, <3>1 DEF CheckRotate
  <2>2. QED
    BY <1>8, <2>1 DEF CheckStep, Step, d, shown
<1>9. CASE ~c.incepted
  <2>1. d.transferable = spec.transferable
    BY <1>9 DEF Step, Incepted, Custodian, d
  <2>2. Incepted(c, shown) = Incepted(c, spec)
    BY <1>7, <2>1 DEF Incepted
  <2>3. CheckIncept(c, shown) = CheckIncept(c, spec)
    BY <1>7, <2>1, <2>2 DEF CheckIncept
  <2>4. QED
    BY <1>9, <2>2, <2>3 DEF CheckStep, Step, d, shown
<1>10. QED
  BY <1>8, <1>9

(* No rung has been climbed yet.                                           *)
LEMMA InitTrail == Init => TrailWell
<1> SUFFICES ASSUME Init PROVE TrailWell
  OBVIOUS
<1>1. <<>> \in Seq(Custodian) /\ Len(<<>>) = 0
  OBVIOUS
<1>2. ladder = <<>> /\ custodian = Fresh /\ saved = Fresh /\ commitment = None
  BY DEF Init, Params, Fresh
<1>3. Rung(Fresh) = 0
  BY DEF Rung, Fresh
<1>4. TrailOf(<<>>)
  BY <1>1, <1>2, <1>3 DEF TrailOf, Climbs, OnTrail, Ahead, Before
<1>5. QED
  BY <1>1, <1>4 DEF TrailWell

(* The same trail serves while the ladder and what leans on it stay.       *)
LEMMA TrailStays ==
  ASSUME NEW t \in Seq(Custodian), TrailOf(t), ladder' = ladder,
         OnTrail(t, custodian)', OnTrail(t, saved)', Ahead(t)'
  PROVE  TrailWell'
<1>1. Climbs(t)'
  <2>1. \A r : (Rung(t[r])' = Rung(t[r])) /\ (Commit(t[r])' = Commit(t[r]))
    OBVIOUS
  <2>2. QED
    BY DEF TrailOf, Climbs
<1>2. QED
  BY <1>1 DEF TrailOf, TrailWell

(* A stored rung extends the trail, every other step keeps it.             *)
LEMMA NextTrail == IInv /\ IInv' /\ TrailWell /\ [Next]_vars => TrailWell'
<1> SUFFICES ASSUME IInv, IInv', TrailWell, [Next]_vars PROVE TrailWell'
  OBVIOUS
<1> PICK t \in Seq(Custodian) : TrailOf(t)
  BY DEF TrailWell
<1>1. /\ ladder \in Seq(KeyCommitment) /\ Len(ladder) \in Nat
      /\ custodian \in Custodian /\ saved \in Custodian
      /\ Rung(custodian) \in Nat /\ Rung(saved) \in Nat
      /\ CountersWell(custodian)
      /\ Rung(saved) <= Len(ladder)
      /\ Len(t) = Len(ladder)
  <2>1. custodian \in Custodian /\ saved \in Custodian
    BY DEF IInv, TypeOK
  <2>2. Rung(custodian) \in Nat /\ Rung(saved) \in Nat
    BY <2>1, RungIsNat
  <2>3. ladder \in Seq(KeyCommitment) /\ Len(ladder) \in Nat
    BY DEF IInv, TypeOK
  <2>4. CountersWell(custodian) /\ Rung(saved) <= Len(ladder)
    BY DEF IInv, Rungs
  <2>5. QED
    BY <2>1, <2>2, <2>3, <2>4 DEF TrailOf
<1>2. OnTrail(t, custodian) /\ OnTrail(t, saved) /\ Ahead(t) /\ Climbs(t)
  BY DEF TrailOf
<1>3. ASSUME UNCHANGED <<custodian, saved, commitment, ladder>> PROVE TrailWell'
  <2>1. OnTrail(t, custodian)' /\ OnTrail(t, saved)' /\ Ahead(t)'
    BY <1>2, <1>3 DEF OnTrail, Ahead, Before
  <2>2. QED
    BY <1>3, <2>1, TrailStays
<1>4. ASSUME NEW spec \in Specs, Establish(spec) PROVE TrailWell'
  <2>1. /\ UNCHANGED <<saved, ladder>>
        /\ Rung(custodian) = Len(ladder)
        /\ CheckStep(custodian, spec) = "Ok"
        /\ custodian' = Step(custodian, spec)
        /\ commitment' = Commit(custodian')
        /\ spec \in KeySpec
    BY <1>4, ControllerAssumption DEF Establish, InStep
  <2>2. custodian = Before(t, Len(ladder) + 1)
    BY <1>1, <1>2, <2>1 DEF OnTrail
  <2>3. /\ CheckStep(custodian, LogSpec(commitment')) = "Ok"
        /\ Step(custodian, LogSpec(commitment')) = custodian'
    BY <1>1, <2>1, LogShowsSpec
  <2>4. Ahead(t)'
    BY <2>1, <2>2, <2>3 DEF Ahead, Before
  <2>5. Rung(custodian') = Len(ladder) + 1
    BY <1>1, <2>1, StepClimbs
  <2>6. OnTrail(t, custodian)'
    BY <1>1, <2>1, <2>5 DEF OnTrail, Rung
  <2>7. OnTrail(t, saved)'
    BY <1>2, <2>1 DEF OnTrail, Before
  <2>8. QED
    BY <2>1, <2>4, <2>6, <2>7, TrailStays
<1>5. ASSUME NEW o \in Wishes, Build(o) PROVE TrailWell'
  BY <1>3, <1>5 DEF Build
<1>6. CASE Interact
  BY <1>3, <1>6 DEF Interact
<1>7. CASE Discard
  BY <1>3, <1>7 DEF Discard
<1>8. CASE Store
  <2> DEFINE e == pending.event
             entry == [keys |-> e.keys, next |-> e.next]
             n == Len(ladder)
  <2>1. /\ pending # None /\ commitment' = None
        /\ UNCHANGED <<custodian, saved>>
        /\ ladder' = IF e.kind = "ixn" THEN ladder ELSE Append(ladder, entry)
    BY <1>8 DEF Store
  <2>2. CASE e.kind = "ixn"
    <3>1. commitment = None /\ ladder' = ladder
      BY <2>1, <2>2 DEF IInv, PendingWell
    <3>2. QED
      BY <1>3, <2>1, <3>1
  <2>3. CASE e.kind # "ixn"
    <3>1. /\ commitment # None /\ commitment \in KeyCommitment
          /\ e.keys = commitment.keys /\ e.next = commitment.next
          /\ Rung(custodian) = n + 1
      BY <2>1, <2>3 DEF IInv, TypeOK, PendingWell, CommitmentWell
    <3>2. entry = commitment /\ ladder' = Append(ladder, entry)
      BY <2>1, <2>3, <3>1 DEF KeyCommitment
    <3> HIDE DEF e, entry
    <3>t. Append(t, custodian) \in Seq(Custodian)
      BY <1>1
    <3>u. PICK u \in Seq(Custodian) : u = Append(t, custodian)
      BY <3>t
    <3>3. /\ u \in Seq(Custodian) /\ Len(u) = n + 1
          /\ u[n + 1] = custodian
          /\ \A r \in 1..n : u[r] = t[r]
      BY <1>1, <3>u
    <3>4. /\ Len(ladder') = n + 1
          /\ ladder'[n + 1] = commitment
          /\ \A r \in 1..n : ladder'[r] = ladder[r]
      BY <1>1, <3>1, <3>2
    <3> HIDE DEF n
    <3>5. n = Len(ladder) /\ n \in Nat
      BY <1>1 DEF n
    <3>6. \A r \in 1..(n + 1) : Before(u, r) = Before(t, r)
      BY <3>3, <3>5 DEF Before
    <3>7. ASSUME NEW r \in 1..(n + 1)
          PROVE  /\ Rung(u[r]) = r
                 /\ Commit(u[r]) = ladder'[r]
                 /\ CheckStep(Before(u, r), LogSpec(ladder'[r])) = "Ok"
                 /\ Step(Before(u, r), LogSpec(ladder'[r])) = u[r]
      <4>1. CASE r = n + 1
        BY <1>2, <3>1, <3>3, <3>4, <3>5, <3>6, <4>1 DEF Ahead
      <4>2. CASE r # n + 1
        <5>1. r \in 1..n
          BY <3>5, <4>2
        <5>2. QED
          BY <1>2, <3>3, <3>4, <3>5, <3>6, <5>1 DEF Climbs
      <4>3. QED
        BY <4>1, <4>2
    <3>8. Climbs(u)'
      <4>1. \A r \in 1..Len(ladder') :
               /\ Rung(u[r]) = r
               /\ Commit(u[r]) = ladder'[r]
               /\ CheckStep(Before(u, r), LogSpec(ladder'[r])) = "Ok"
               /\ Step(Before(u, r), LogSpec(ladder'[r])) = u[r]
        BY <3>4, <3>7
      <4>2. QED
        BY <4>1 DEF Climbs
    <3>9. OnTrail(u, custodian)'
      <4>1. Before(u, n + 2) = custodian
        BY <3>3, <3>5 DEF Before
      <4>2. custodian = Before(u, Rung(custodian) + 1)
        BY <3>1, <3>5, <4>1
      <4>3. QED
        BY <2>1, <4>2 DEF OnTrail, Rung, Before
    <3>10. OnTrail(u, saved)'
      <4>1. saved = Before(t, Rung(saved) + 1)
        BY <1>1, <1>2 DEF OnTrail
      <4>2. Rung(saved) + 1 \in 1..(n + 1)
        BY <1>1, <3>5
      <4>3. saved = Before(u, Rung(saved) + 1)
        BY <3>6, <4>1, <4>2
      <4>4. QED
        BY <2>1, <4>3 DEF OnTrail, Rung, Before
    <3>11. Ahead(u)'
      BY <2>1 DEF Ahead
    <3>12. TrailOf(u)'
      BY <3>3, <3>4, <3>8, <3>9, <3>10, <3>11 DEF TrailOf
    <3>13. QED
      BY <3>3, <3>12 DEF TrailWell
  <2>4. QED
    BY <2>2, <2>3
<1>9. CASE Save
  <2>1. /\ commitment = None /\ commitment' = None
        /\ saved' = custodian /\ custodian' = custodian /\ ladder' = ladder
    BY <1>1, <1>9, ParamsAreWhole DEF Save
  <2>2. OnTrail(t, custodian)' /\ OnTrail(t, saved)' /\ Ahead(t)'
    BY <1>2, <2>1 DEF OnTrail, Ahead, Before, Rung
  <2>3. QED
    BY <2>1, <2>2, TrailStays
<1>10. CASE Crash
  <2>1. /\ commitment' = None
        /\ saved' = saved /\ custodian' = saved /\ ladder' = ladder
    BY <1>10 DEF Crash, Resume
  <2>2. OnTrail(t, custodian)' /\ OnTrail(t, saved)' /\ Ahead(t)'
    BY <1>2, <2>1 DEF OnTrail, Ahead, Before, Rung
  <2>3. QED
    BY <2>1, <2>2, TrailStays
<1>11. CASE CatchUp
  <2> DEFINE r == Rung(custodian) + 1
  <2>1. /\ commitment = None /\ commitment' = None
        /\ Rung(custodian) < Len(ladder)
        /\ custodian' = Step(custodian, LogSpec(ladder[r]))
        /\ UNCHANGED <<saved, ladder>>
    BY <1>11 DEF CatchUp, Idle
  <2>2. r \in 1..Len(ladder) /\ custodian = Before(t, r)
    BY <1>1, <1>2, <2>1 DEF OnTrail
  <2> HIDE DEF r
  <2>3. custodian' = t[r] /\ Rung(t[r]) = r
    BY <1>2, <2>1, <2>2 DEF Climbs
  <2>4. Before(t, r + 1) = t[r]
    BY <1>1, <2>2 DEF Before
  <2>5. OnTrail(t, custodian)'
    BY <2>3, <2>4 DEF OnTrail, Rung, Before
  <2>6. OnTrail(t, saved)' /\ Ahead(t)'
    BY <1>2, <2>1 DEF OnTrail, Ahead, Before, Rung
  <2>7. QED
    BY <2>1, <2>5, <2>6, TrailStays
<1>12. CASE UNCHANGED vars
  BY <1>3, <1>12 DEF vars
<1>13. QED
  BY <1>4, <1>5, <1>6, <1>7, <1>8, <1>9, <1>10, <1>11, <1>12 DEF Next

(* A controller on its trail leads back to the keys of the log.            *)
LEMMA TrailRecovers == IInv /\ TrailWell => Recoverable
<1> SUFFICES ASSUME IInv, TrailWell, commitment = None, head # None
             PROVE  IF Rung(custodian) < Len(ladder)
                    THEN CheckStep(custodian, LogSpec(ladder[Rung(custodian) + 1])) = "Ok"
                    ELSE Commit(custodian) = [keys |-> head.keys, next |-> head.next]
  BY DEF Recoverable
<1> PICK t \in Seq(Custodian) : TrailOf(t)
  BY DEF TrailWell
<1>1. /\ ladder \in Seq(KeyCommitment) /\ ladder # <<>>
      /\ Rung(custodian) \in Nat /\ Rung(custodian) <= Len(ladder)
      /\ head.keys = ladder[Len(ladder)].keys /\ head.next = ladder[Len(ladder)].next
  BY CustodyAssumption DEF IInv, TypeOK, Rungs, HeadWell, Rung, Custodian
<1>2. Len(ladder) \in Nat \ {0}
  BY <1>1
<1>3. custodian = Before(t, Rung(custodian) + 1)
  BY <1>1 DEF TrailOf, OnTrail
<1>4. CASE Rung(custodian) < Len(ladder)
  <2>1. Rung(custodian) + 1 \in 1..Len(ladder)
    BY <1>1, <1>2, <1>4
  <2>2. QED
    BY <1>3, <1>4, <2>1 DEF TrailOf, Climbs
<1>5. CASE ~(Rung(custodian) < Len(ladder))
  <2>1. Rung(custodian) = Len(ladder)
    BY <1>1, <1>2, <1>5
  <2>2. custodian = t[Len(ladder)]
    BY <1>2, <1>3, <2>1 DEF Before
  <2>3. Commit(custodian) = ladder[Len(ladder)]
    BY <1>2, <2>2 DEF TrailOf, Climbs
  <2>4. ladder[Len(ladder)] \in KeyCommitment
    BY <1>1, <1>2
  <2>5. ladder[Len(ladder)] = [keys |-> head.keys, next |-> head.next]
    BY <1>1, <2>4 DEF KeyCommitment
  <2>6. QED
    BY <1>5, <2>3, <2>5
<1>6. QED
  BY <1>4, <1>5

(* The trail is there in every behaviour.                                  *)
LEMMA TrailHolds == Spec => []TrailWell
BY InitTrail, NextTrail, Invariant, PTL DEF Spec

(* No crash locks the controller out: from whatever was saved, no rung of  *)
(* the log is refused, and the last one has the keys in force and those    *)
(* committed to, for every ladder, count and bound (params, resume).       *)
THEOREM AlwaysRecoverable == Spec => []Recoverable
BY TrailRecovers, TrailHolds, Invariant, PTL

-----------------------------------------------------------------------------
(* What the custodian makes and a builder builds, the fold accepts. The    *)
(* second invariant says of the head and of what is pending that all their *)
(* keys together satisfy every threshold they carry.                       *)

Positions(list) == 0..(Len(list) - 1)

Meets(x) ==
  /\ Satisfied(x.kt, Positions(x.keys))
  /\ x.next # <<>> => Satisfied(x.nt, Positions(x.next))
  /\ x.conf = {}

HeadMeets ==
  head # None => /\ Meets(head)
                 /\ head.delegator = None
                 /\ head.toad = 0 \/ Cardinality(head.wits) >= head.toad

PendingMeets ==
  pending # None /\ pending.event.kind # "ixn" => Meets(pending.event)

FoldWell == HeadMeets /\ PendingMeets /\ FoldAccepts

(* A simple threshold is met by all the keys it is well formed for.        *)
LEMMA CountReaches ==
  ASSUME NEW m \in Nat, NEW n \in 0..(MaxIndex + 1), WellFormed(Simple(m), n)
  PROVE  Satisfied(Simple(m), 0..(n - 1))
<1>1. n \in Nat /\ m <= n /\ 1 <= m
  BY CustodyAssumption DEF WellFormed, Simple
<1>2. Cardinality(0..(n - 1)) = n
  BY <1>1, FS_Interval
<1>3. QED
  BY <1>1, <1>2 DEF Satisfied, Simple

(* Whatever a caller asks for or leaves out, all the keys together meet    *)
(* the threshold that the builder fills in.                                *)
LEMMA FilledInReaches ==
  ASSUME NEW list \in Seq(Keys), Len(list) <= MaxIndex + 1, NEW asked,
         asked # None => Reachable(asked),
         WellFormed(Threshold(asked, list), Len(list))
  PROVE  Satisfied(Threshold(asked, list), Positions(list))
<1>1. Len(list) \in 0..(MaxIndex + 1)
  BY CustodyAssumption
<1>2. CASE asked # None
  BY <1>1, <1>2 DEF Threshold, Reachable, Positions
<1>3. CASE asked = None
  <2>1. Majority(Len(list)) \in Nat
    BY DEF Majority, AtLeastOne
  <2>2. QED
    BY <1>1, <1>3, <2>1, CountReaches DEF Threshold, Positions
<1>4. QED
  BY <1>2, <1>3

(* Every current key signs, and its signature verifies and exposes its own *)
(* position of a commitment to the same keys.                              *)
LEMMA EveryKeySigns ==
  ASSUME NEW c \in Custodian, Derivable(c.kidx, c.count)
  PROVE  /\ {sig.index : sig \in Verified(Verkeys(c), Sign(c))} = Positions(Verkeys(c))
         /\ Exposed(Verkeys(c), Verkeys(c), Sign(c)) = Positions(Verkeys(c))
<1> DEFINE keys == Verkeys(c)
           by(i) == [index |-> i - 1, ondex |-> i - 1, signer |-> keys[i]]
<1>1. c.count \in Nat
  BY DEF Custodian
<1>2. Len(keys) = c.count /\ DOMAIN keys = 1..c.count
  BY <1>1 DEF Verkeys, DeriveSet
<1>3. Sign(c) = {by(i) : i \in 1..c.count}
  BY DEF Sign
<1> HIDE DEF keys
<1>4. \A i \in 1..c.count :
        by(i).index = i - 1 /\ by(i).ondex = i - 1 /\ by(i).signer = keys[i]
  OBVIOUS
<1>5. \A i \in 1..c.count : by(i).index + 1 = i /\ by(i).ondex + 1 = i /\ by(i).ondex # NoOndex
  BY <1>1 DEF NoOndex
<1> HIDE DEF by
<1>6. Verified(keys, Sign(c)) = Sign(c)
  BY <1>2, <1>3, <1>4, <1>5 DEF Verified
<1>7. {by(i).index : i \in 1..c.count} = 0..(c.count - 1)
  <2>1. \A i \in 1..c.count : by(i).index \in 0..(c.count - 1)
    BY <1>1, <1>4
  <2>2. \A n \in 0..(c.count - 1) : n + 1 \in 1..c.count /\ by(n + 1).index = n
    BY <1>1, <1>4
  <2>3. QED
    BY <2>1, <2>2
<1>8. {sig.index : sig \in Verified(keys, Sign(c))} = 0..(c.count - 1)
  BY <1>3, <1>6, <1>7
<1>9. Exposed(keys, keys, Sign(c)) = 0..(c.count - 1)
  <2>0. \A v \in Sign(c) : /\ v.ondex # NoOndex /\ v.ondex + 1 \in DOMAIN keys
                           /\ keys[v.ondex + 1] = keys[v.index + 1]
    BY <1>2, <1>3, <1>4, <1>5
  <2>1. Exposed(keys, keys, Sign(c)) = {sig.ondex : sig \in Sign(c)}
    BY <1>6, <2>0 DEF Exposed
  <2>2. {sig.ondex : sig \in Sign(c)} = {by(i).index : i \in 1..c.count}
    BY <1>3, <1>4
  <2>3. QED
    BY <1>7, <2>1, <2>2
<1>10. QED
  BY <1>2, <1>8, <1>9 DEF keys, Positions

(* A list without repetition has as many members as places.                *)
LEMMA UniqueCount ==
  ASSUME NEW S, NEW list \in Seq(S), Unique(list)
  PROVE  Cardinality(Members(list)) = Len(list)
<1> DEFINE f == [i \in 1..Len(list) |-> list[i]]
<1>1. DOMAIN list = 1..Len(list) /\ Len(list) \in Nat
  OBVIOUS
<1>2. f \in Bijection(1..Len(list), Members(list))
  BY <1>1 DEF Unique, Members, Bijection, Injection, Surjection, IsInjective
<1> HIDE DEF f
<1>3. ExistsBijection(1..Len(list), Members(list))
  BY <1>2 DEF ExistsBijection
<1>4. QED
  BY <1>1, <1>3, FS_CountingElements

(* The default witness threshold is one the fold takes, and a caller's own *)
(* has been checked by the builder.                                        *)
LEMMA FilledInToad ==
  ASSUME NEW count \in Nat, NEW asked \in Nat \cup {None},
         CheckToad(asked, count) = "Ok"
  PROVE  /\ CheckWitnessThreshold(count, WitnessThreshold(asked, count)) = "Ok"
         /\ WitnessThreshold(asked, count) \in Nat
         /\ WitnessThreshold(asked, count) <= count
<1>1. CASE asked # None
  BY <1>1 DEF CheckToad, WitnessThreshold, CheckWitnessThreshold, Require, &&
<1>2. CASE asked = None /\ count = 0
  BY <1>2 DEF WitnessThreshold, Ample, CheckWitnessThreshold, Require
<1>3. CASE asked = None /\ count # 0
  <2>1. WitnessThreshold(asked, count) = Ample(count)
    BY <1>3 DEF WitnessThreshold
  <2>2. Faulty(count) \in Nat /\ count \in Nat \ {0}
    BY <1>3 DEF Faulty
  <2>3. Ample(count) \in Nat /\ 1 <= Ample(count) /\ Ample(count) <= count
    BY <2>2, AmpleBounds
  <2>4. QED
    BY <1>3, <2>1, <2>3 DEF CheckWitnessThreshold, Require, &&
<1>4. QED
  BY <1>1, <1>2, <1>3

(* The keys of the commitment are the custodian's, and open the one the    *)
(* log made.                                                               *)
LEMMA CommitmentOpens ==
  ASSUME IInv, TrailWell, commitment # None
  PROVE  /\ commitment.keys = Verkeys(custodian)
         /\ head # None => /\ head.transferable
                           /\ commitment.keys = head.next
<1> PICK t \in Seq(Custodian) : TrailOf(t)
  BY DEF TrailWell
<1>1. Commit(custodian) = commitment
  BY DEF TrailOf, Ahead
<1>2. commitment.keys = Verkeys(custodian)
  BY <1>1 DEF Commit
<1>3. ASSUME head # None
      PROVE  head.transferable /\ commitment.keys = head.next
  <2> DEFINE n == Len(ladder)
             c == t[n]
             spec == LogSpec(commitment)
  <2>1. /\ ladder \in Seq(KeyCommitment) /\ ladder # <<>>
        /\ head.next = ladder[n].next
        /\ head.transferable <=> head.next # <<>>
    BY <1>3 DEF IInv, TypeOK, HeadWell
  <2>2. n \in Nat \ {0} /\ Len(t) = n
    BY <2>1 DEF TrailOf
  <2>3. c \in Custodian /\ Rung(c) = n /\ Commit(c) = ladder[n]
    BY <2>2 DEF TrailOf, Climbs
  <2>4. Before(t, n + 1) = c
    BY <2>2 DEF Before
  <2>5. CheckStep(c, spec) = "Ok" /\ Step(c, spec) = custodian
    BY <2>4 DEF TrailOf, Ahead
  <2> HIDE DEF c, spec
  <2>6. c.incepted
    BY <2>2, <2>3 DEF Rung
  <2>7. CheckRotate(c, spec) = "Ok" /\ custodian = Rotated(c, spec)
    BY <2>5, <2>6 DEF CheckStep, Step
  <2>8. c.transferable /\ c.ncount # 0 /\ spec.count = c.ncount
    BY <2>7 DEF CheckRotate, Require, &&
  <2>9. Verkeys(custodian) = NextKeys(c)
    BY <2>3, <2>7, <2>8 DEF Verkeys, NextKeys, Rotated, RungUp, Custodian
  <2>10. head.next = NextKeys(c)
    BY <2>1, <2>3 DEF Commit
  <2>11. Len(NextKeys(c)) = c.ncount /\ c.ncount \in Nat
    BY <2>3 DEF NextKeys, RungUp, DeriveSet, Custodian
  <2>12. head.next # <<>>
    BY <2>8, <2>10, <2>11
  <2>13. QED
    BY <1>2, <2>1, <2>9, <2>10, <2>12
<1>4. QED
  BY <1>2, <1>3

(* All of a builder's checks, when none of them failed.                    *)
LEMMA BuildChecked ==
  ASSUME NEW keys \in Seq(Keys), Len(keys) <= MaxIndex + 1,
         NEW next \in Seq(Keys), Len(next) <= MaxIndex + 1,
         NEW o \in Wishes, CheckKeys(keys, next, o) = "Ok"
  PROVE  /\ WellFormed(Threshold(o.kt, keys), Len(keys))
         /\ Satisfied(Threshold(o.kt, keys), Positions(keys))
         /\ next # <<>> => /\ WellFormed(NextThreshold(o.nt, next), Len(next))
                           /\ Satisfied(NextThreshold(o.nt, next), Positions(next))
<1>1. /\ WellFormed(Threshold(o.kt, keys), Len(keys))
      /\ next # <<>> => WellFormed(NextThreshold(o.nt, next), Len(next))
  BY DEF CheckKeys, CheckThreshold, Require, &&
<1>2. /\ o.kt # None => Reachable(o.kt)
      /\ o.nt # None => Reachable(o.nt)
  BY WishesAssumption
<1>3. Satisfied(Threshold(o.kt, keys), Positions(keys))
  BY <1>1, <1>2, FilledInReaches
<1>4. ASSUME next # <<>>
      PROVE  Satisfied(NextThreshold(o.nt, next), Positions(next))
  <2>1. NextThreshold(o.nt, next) = Threshold(o.nt, next)
    BY <1>4 DEF NextThreshold
  <2>2. QED
    BY <1>1, <1>2, <1>4, <2>1, FilledInReaches
<1>5. QED
  BY <1>1, <1>3, <1>4

(* The event of an inception is accepted and meets its thresholds.         *)
LEMMA InceptionAccepted ==
  ASSUME IInv, TrailWell, NEW o \in Wishes, commitment # None,
         CheckBuildInception(commitment.keys, commitment.next, o) = "Ok",
         NEW m,
         m = Signed(BuildInception(Names[0], commitment.keys, commitment.next, o),
                    Members(o.adds))
  PROVE  Incept(m) = "Ok" /\ Meets(m.event)
<1> DEFINE e == m.event
           keys == commitment.keys
           next == commitment.next
<1>1. /\ commitment \in KeyCommitment
      /\ Len(keys) <= MaxIndex + 1 /\ Len(next) <= MaxIndex + 1
      /\ custodian \in Custodian /\ Derivable(custodian.kidx, custodian.count)
    BY DEF IInv, TypeOK, CommitmentWell, Rungs, CountersWell
<1>2. keys \in Seq(Keys) /\ next \in Seq(Keys)
  BY <1>1 DEF KeyCommitment
<1>3. o \in Options /\ o.adds \in Seq(Keys) /\ o.toad \in Nat \cup {None}
  BY ControllerAssumption DEF Options
<1>4. /\ CheckKeys(keys, next, o) = "Ok"
      /\ CheckWitnesses(o.adds) = "Ok"
      /\ CheckToad(o.toad, Len(o.adds)) = "Ok"
  BY DEF CheckBuildInception, &&
<1>5. /\ e.kind = "icp" /\ e.pre = Names[0] /\ e.sn = 0
      /\ e.keys = keys /\ e.kt = Threshold(o.kt, keys)
      /\ e.next = next /\ e.nt = NextThreshold(o.nt, next)
      /\ e.wits = o.adds /\ e.toad = WitnessThreshold(o.toad, Len(o.adds))
      /\ e.conf = {}
      /\ m.sigs = Sign(custodian) /\ m.wigs = Members(o.adds)
  BY DEF Signed, BuildInception, Establishing, Built
<1> HIDE DEF e
<1>6. /\ WellFormed(e.kt, Len(e.keys))
      /\ Satisfied(e.kt, Positions(e.keys))
      /\ e.next # <<>> => /\ WellFormed(e.nt, Len(e.next))
                          /\ Satisfied(e.nt, Positions(e.next))
  BY <1>1, <1>2, <1>4, <1>5, BuildChecked
<1>7. Verify(e.keys, e.kt, m.sigs) = "Ok"
  <2>1. e.keys = Verkeys(custodian)
    BY <1>5, CommitmentOpens
  <2>2. {sig.index : sig \in Verified(e.keys, m.sigs)} = Positions(e.keys)
    BY <1>1, <1>5, <2>1, EveryKeySigns
  <2>3. QED
    BY <1>6, <2>2 DEF Verify
<1>8. CheckIdentity(e) = "Ok" /\ IsTransferable(e.pre)
  BY <1>5, ControllerAssumption, KeyStateAssumption
  DEF CheckIdentity, IsBasic, IsTransferable, Require
<1>9. /\ CheckWitnessThreshold(Cardinality(Members(e.wits)), e.toad) = "Ok"
      /\ ReceiptedBy(Members(e.wits), e.toad, m.wigs) = "Ok"
  <2>1. Unique(o.adds)
    BY <1>4 DEF CheckWitnesses, Require
  <2>2. Cardinality(Members(o.adds)) = Len(o.adds) /\ Len(o.adds) \in Nat
    BY <1>3, <2>1, UniqueCount
  <2>3. /\ CheckWitnessThreshold(Len(o.adds), e.toad) = "Ok"
        /\ e.toad \in Nat /\ e.toad <= Len(o.adds)
    BY <1>3, <1>4, <1>5, <2>2, FilledInToad
  <2>4. Members(e.wits) \cap m.wigs = Members(o.adds)
    BY <1>5
  <2>5. QED
    BY <1>5, <2>2, <2>3, <2>4 DEF ReceiptedBy, Require
<1>10. ValidateInception(m) = "Ok"
  <2>1. /\ CheckThreshold(e.kt, Len(e.keys)) = "Ok"
        /\ CheckNextThreshold(e) = "Ok"
    BY <1>6 DEF CheckThreshold, CheckNextThreshold, Require
  <2>2. CheckWitnesses(e.wits) = "Ok"
    BY <1>4, <1>5
  <2>3. QED
    BY <1>5, <1>7, <1>8, <1>9, <2>1, <2>2 DEF ValidateInception, Require, &&, e
<1>11. QED
  BY <1>5, <1>6, <1>10 DEF Incept, Meets, e

(* The event of a rotation is accepted and meets its thresholds: its keys  *)
(* open the commitment of the head.                                        *)
LEMMA RotationAccepted ==
  ASSUME IInv, TrailWell, HeadMeets, NEW o \in Wishes, commitment # None, head # None,
         CheckBuildRotation(head.wits, commitment.keys, commitment.next, o) = "Ok",
         NEW m,
         m = Signed(BuildRotation(head, Names[NextSn], commitment.keys, commitment.next, o),
                    UpdatedMembers(head.wits, o.cuts, o.adds))
  PROVE  Ingest(head, m) = "Ok" /\ Meets(m.event)
<1> DEFINE e == m.event
           keys == commitment.keys
           next == commitment.next
           wits == UpdatedMembers(head.wits, o.cuts, o.adds)
<1>1. /\ commitment \in KeyCommitment
      /\ Len(keys) <= MaxIndex + 1 /\ Len(next) <= MaxIndex + 1
      /\ custodian \in Custodian /\ Derivable(custodian.kidx, custodian.count)
      /\ head \in State /\ head.sn \in 0..MaxSn /\ IsFiniteSet(head.wits)
      /\ head.sn + 1 <= MaxSn
    BY DEF IInv, TypeOK, CommitmentWell, Rungs, CountersWell, HeadWell, NextSn
<1>2. keys \in Seq(Keys) /\ next \in Seq(Keys)
  BY <1>1 DEF KeyCommitment
<1>3. /\ o \in Options /\ o.adds \in Seq(Keys) /\ o.cuts \in Seq(Keys)
      /\ o.toad \in Nat \cup {None}
  BY ControllerAssumption DEF Options
<1>4. /\ CheckKeys(keys, next, o) = "Ok"
      /\ CheckWitnessDeltas(o.cuts, o.adds) = "Ok"
      /\ Members(o.cuts) \subseteq head.wits
      /\ Members(o.adds) \cap head.wits = {}
      /\ CheckToad(o.toad, Cardinality(wits)) = "Ok"
  BY DEF CheckBuildRotation, Require, &&, WitnessesLeft
<1>5. /\ e.kind = "rot" /\ e.pre = head.pre /\ e.sn = head.sn + 1
      /\ e.prior = head.said
      /\ e.keys = keys /\ e.kt = Threshold(o.kt, keys)
      /\ e.next = next /\ e.nt = NextThreshold(o.nt, next)
      /\ e.wits = o.adds /\ e.cuts = o.cuts
      /\ e.toad = WitnessThreshold(o.toad, Cardinality(wits))
      /\ e.conf = {}
      /\ m.sigs = Sign(custodian) /\ m.wigs = wits
  BY DEF Signed, BuildRotation, Establishing, Built, WitnessesLeft
<1> HIDE DEF e
<1>6. /\ WellFormed(e.kt, Len(e.keys))
      /\ Satisfied(e.kt, Positions(e.keys))
      /\ e.next # <<>> => /\ WellFormed(e.nt, Len(e.next))
                          /\ Satisfied(e.nt, Positions(e.next))
  BY <1>1, <1>2, <1>4, <1>5, BuildChecked
<1>7. VerifyOpening(head, e, m.sigs) = "Ok"
  <2>1. e.keys = Verkeys(custodian) /\ e.keys = head.next /\ head.transferable
    BY <1>5, CommitmentOpens
  <2>2. /\ {sig.index : sig \in Verified(e.keys, m.sigs)} = Positions(e.keys)
        /\ Exposed(head.next, e.keys, m.sigs) = Positions(head.next)
    BY <1>1, <1>5, <2>1, EveryKeySigns
  <2>3. Satisfied(head.nt, Positions(head.next))
    BY <2>1 DEF HeadMeets, Meets, IInv, HeadWell
  <2>4. QED
    BY <1>6, <2>2, <2>3 DEF VerifyOpening, Verify, OpenedBy, Require, &&
<1>8. ChecksChainsOnto(head, e) = "Ok"
  <2>1. MaxSn \in Nat
    BY KeyStateAssumption
  <2>2. QED
    BY <1>1, <1>5, <2>1 DEF ChecksChainsOnto, Require, &&
<1>9. ResolveWitnesses(head, e) = "Ok"
  BY <1>4, <1>5 DEF ResolveWitnesses, Require, &&
<1>10. /\ CheckWitnessThreshold(Cardinality(wits), e.toad) = "Ok"
       /\ ReceiptedBy(wits, e.toad, m.wigs) = "Ok"
  <2>1. Cardinality(wits) \in Nat
    BY <1>1, <1>3, UpdatedFinite, FS_CardinalityType
  <2>2. /\ CheckWitnessThreshold(Cardinality(wits), e.toad) = "Ok"
        /\ e.toad \in Nat /\ e.toad <= Cardinality(wits)
    BY <1>3, <1>4, <1>5, <2>1, FilledInToad
  <2>3. wits \cap m.wigs = wits
    BY <1>5
  <2> HIDE DEF wits
  <2>4. QED
    BY <2>1, <2>2, <2>3 DEF ReceiptedBy, Require
<1>11. ValidateRotation(head, m) = "Ok"
  <2>1. /\ CheckThreshold(e.kt, Len(e.keys)) = "Ok"
        /\ CheckNextThreshold(e) = "Ok"
    BY <1>6 DEF CheckThreshold, CheckNextThreshold, Require
  <2>2. UpdatedMembers(head.wits, e.cuts, e.wits) = wits
    BY <1>5
  <2> HIDE DEF wits
  <2>3. QED
    BY <1>7, <1>8, <1>9, <1>10, <2>1, <2>2 DEF ValidateRotation, &&, e
<1>12. head.transferable /\ head.delegator = None
  BY CommitmentOpens DEF HeadMeets
<1>13. Ingest(head, m) = "Ok"
  <2>1. m.event.kind = "rot"
    BY <1>5 DEF e
  <2>2. QED
    BY <1>11, <1>12, <2>1 DEF Ingest, Require, &&
<1>14. QED
  BY <1>5, <1>6, <1>13 DEF Meets, e

(* An interaction is accepted, unless the log is closed.                   *)
LEMMA InteractionAccepted ==
  ASSUME IInv, TrailWell, HeadMeets, InStep, head # None, NextSn <= MaxSn,
         NEW m, m = Signed(BuildInteraction(head, Names[NextSn]), head.wits)
  PROVE  /\ m.event.kind = "ixn"
         /\ head.transferable => Ingest(head, m) = "Ok"
         /\ ~head.transferable => Ingest(head, m) = "NonTransferableState"
<1> DEFINE e == m.event
<1>1. /\ custodian \in Custodian /\ head \in State
      /\ ladder \in Seq(KeyCommitment) /\ ladder # <<>>
      /\ head.sn \in 0..MaxSn /\ head.sn + 1 <= MaxSn
      /\ IsFiniteSet(head.wits)
  BY DEF IInv, TypeOK, HeadWell, NextSn
<1>2. Rung(custodian) = Len(ladder) /\ commitment = None
  BY DEF InStep, Idle
<1>3. custodian.incepted /\ Derivable(custodian.kidx, custodian.count)
  <2>1. Len(ladder) # 0
    BY <1>1
  <2>2. QED
    BY <1>2, <2>1 DEF IInv, Rungs, CountersWell, Rung
<1>4. Verkeys(custodian) = head.keys
  <2>1. ~(Rung(custodian) < Len(ladder))
    BY <1>1, <1>2
  <2>2. Commit(custodian) = [keys |-> head.keys, next |-> head.next]
    BY <1>2, <2>1, TrailRecovers DEF Recoverable
  <2>3. QED
    BY <2>2 DEF Commit
<1>5. /\ e.kind = "ixn" /\ e.pre = head.pre /\ e.sn = head.sn + 1 /\ e.prior = head.said
      /\ m.sigs = Sign(custodian) /\ m.wigs = head.wits
  BY DEF Signed, BuildInteraction, Built
<1> HIDE DEF e
<1>6. Verify(head.keys, head.kt, m.sigs) = "Ok"
  <2>1. {sig.index : sig \in Verified(head.keys, m.sigs)} = Positions(head.keys)
    BY <1>1, <1>3, <1>4, <1>5, EveryKeySigns
  <2>2. QED
    BY <2>1 DEF Verify, HeadMeets, Meets
<1>7. ChecksChainsOnto(head, e) = "Ok"
  <2>1. MaxSn \in Nat
    BY KeyStateAssumption
  <2>2. QED
    BY <1>1, <1>5, <2>1 DEF ChecksChainsOnto, Require, &&
<1>8. ReceiptedBy(head.wits, head.toad, m.wigs) = "Ok"
  <2>1. head.wits \cap m.wigs = head.wits
    BY <1>5
  <2>2. QED
    BY <2>1 DEF ReceiptedBy, Require, HeadMeets
<1>9. "EO" \notin head.conf
  BY DEF HeadMeets, Meets
<1>10. ValidateInteraction(head, m) = "Ok"
  BY <1>6, <1>7, <1>8, <1>9 DEF ValidateInteraction, Require, &&, e
<1>11. m.event.kind = "ixn"
  BY <1>5 DEF e
<1>12. QED
  BY <1>10, <1>11 DEF Ingest, Require, &&

(* Without a log there is nothing to accept yet.                           *)
LEMMA InitFold == Init => FoldWell
BY DEF Init, FoldWell, HeadMeets, PendingMeets, FoldAccepts

(* What is built on the head is accepted on the head.                      *)
LEMMA BuildFold ==
  ASSUME IInv, TrailWell, FoldWell, NEW o \in Wishes, Build(o)
  PROVE  FoldWell'
<1>1. commitment # None /\ head' = head
  BY DEF Build
<1>2. HeadMeets /\ HeadMeets'
  BY <1>1 DEF FoldWell, HeadMeets
<1>3. Verdict(pending)' = "Ok" /\ Meets(pending'.event)
  <2>1. CASE head = None
    <3>1. /\ CheckBuildInception(commitment.keys, commitment.next, o) = "Ok"
          /\ pending' = Signed(BuildInception(Names[0], commitment.keys, commitment.next, o),
                               Members(o.adds))
      BY <2>1 DEF Build
    <3>2. Incept(pending') = "Ok" /\ Meets(pending'.event)
      BY <1>1, <3>1, InceptionAccepted
    <3>3. QED
      BY <1>1, <2>1, <3>2 DEF Verdict
  <2>2. CASE head # None
    <3>1. /\ CheckBuildRotation(head.wits, commitment.keys, commitment.next, o) = "Ok"
          /\ pending' = Signed(BuildRotation(head, Names[NextSn],
                                             commitment.keys, commitment.next, o),
                               UpdatedMembers(head.wits, o.cuts, o.adds))
      BY <2>2 DEF Build
    <3>2. Ingest(head, pending') = "Ok" /\ Meets(pending'.event)
      BY <1>1, <1>2, <2>2, <3>1, RotationAccepted
    <3>3. QED
      BY <1>1, <2>2, <3>2 DEF Verdict
  <2>3. QED
    BY <2>1, <2>2
<1>4. QED
  BY <1>2, <1>3 DEF FoldWell, PendingMeets, FoldAccepts, Meets

(* An interaction is taken, or the log is closed.                          *)
LEMMA InteractFold ==
  ASSUME IInv, TrailWell, FoldWell, Interact
  PROVE  FoldWell'
<1>1. /\ InStep /\ head # None /\ NextSn <= MaxSn /\ head' = head
      /\ pending' = Signed(BuildInteraction(head, Names[NextSn]), head.wits)
  BY DEF Interact, HasRoom
<1>2. HeadMeets /\ HeadMeets'
  BY <1>1 DEF FoldWell, HeadMeets
<1>3. /\ pending'.event.kind = "ixn"
      /\ head.transferable => Ingest(head, pending') = "Ok"
      /\ ~head.transferable => Ingest(head, pending') = "NonTransferableState"
  BY <1>1, <1>2, InteractionAccepted
<1>4. Verdict(pending)' = Ingest(head, pending')
  BY <1>1 DEF Verdict
<1>5. QED
  BY <1>1, <1>2, <1>3, <1>4 DEF FoldWell, PendingMeets, FoldAccepts

(* What the fold took from a builder meets its own thresholds, so the next *)
(* event can be signed and the commitment can be opened.                   *)
LEMMA StoreFold ==
  ASSUME IInv, FoldWell, Store
  PROVE  FoldWell'
<1> DEFINE e == pending.event
<1>1. /\ pending # None /\ Verdict(pending) = "Ok" /\ pending' = None
      /\ head' = IF head = None THEN SeedState(e) ELSE Apply(head, e)
  BY DEF Store
<1>2. /\ pending \in Message /\ e \in Event /\ pending.wigs \in SUBSET Keys
      /\ e.kind \in {"icp", "rot", "ixn"}
  BY <1>1 DEF IInv, TypeOK, PendingWell, Message
<1>3. e.kind # "ixn" => Meets(e)
  BY <1>1 DEF FoldWell, PendingMeets
<1>4. /\ e.toad \in Nat /\ e.wits \in Seq(Keys)
  BY <1>2 DEF Event, Shape
<1>5. ASSUME NEW wits, IsFiniteSet(wits),
             CheckWitnessThreshold(Cardinality(wits), e.toad) = "Ok"
      PROVE  e.toad = 0 \/ Cardinality(wits) >= e.toad
  <2>1. Cardinality(wits) \in Nat
    BY <1>5, FS_CardinalityType
  <2>2. QED
    BY <1>4, <1>5, <2>1 DEF CheckWitnessThreshold, Require, &&
<1>6. HeadMeets'
  <2>1. CASE head = None
    <3>1. Incept(pending) = "Ok" /\ e.kind = "icp"
      BY <1>1, <1>2, <2>1, AcceptedFirst DEF Verdict
    <3>2. CheckWitnessThreshold(Cardinality(Members(e.wits)), e.toad) = "Ok"
      BY <3>1 DEF Incept, ValidateInception, &&
    <3>3. IsFiniteSet(Members(e.wits))
      BY <1>4, MembersFinite
    <3>4. e.toad = 0 \/ Cardinality(Members(e.wits)) >= e.toad
      BY <1>5, <3>2, <3>3
    <3>5. head' = SeedState(e)
      BY <1>1, <2>1
    <3> HIDE DEF e
    <3>6. QED
      BY <1>3, <3>1, <3>4, <3>5 DEF HeadMeets, Meets, SeedState
  <2>2. CASE head # None /\ e.kind = "ixn"
    <3>1. head' = ApplyInteraction(head, e) /\ head \in State
      BY <1>1, <2>2 DEF Apply, Rotations, IInv, TypeOK
    <3> HIDE DEF e
    <3>2. /\ head'.keys = head.keys /\ head'.kt = head.kt
          /\ head'.next = head.next /\ head'.nt = head.nt
          /\ head'.conf = head.conf /\ head'.delegator = head.delegator
          /\ head'.wits = head.wits /\ head'.toad = head.toad
      BY <3>1 DEF ApplyInteraction, State
    <3>3. QED
      BY <2>2, <3>2 DEF FoldWell, HeadMeets, Meets
  <2>3. CASE head # None /\ e.kind # "ixn"
    <3> DEFINE wits == UpdatedMembers(head.wits, e.cuts, e.wits)
    <3>1. Ingest(head, pending) = "Ok" /\ e.kind = "rot"
      BY <1>1, <1>2, <2>3, AcceptedLater DEF Verdict
    <3>2. head' = ApplyRotation(head, e) /\ head \in State /\ IsFiniteSet(head.wits)
      BY <1>1, <2>3, <3>1 DEF Apply, Rotations, IInv, TypeOK, HeadWell
    <3>3. ValidateRotation(head, pending) = "Ok"
      BY <3>1 DEF Ingest, Require, &&
    <3>4. CheckWitnessThreshold(Cardinality(wits), e.toad) = "Ok"
      BY <3>3 DEF ValidateRotation, &&
    <3>5. IsFiniteSet(wits)
      BY <1>4, <3>2, UpdatedFinite
    <3>6. e.toad = 0 \/ Cardinality(wits) >= e.toad
      BY <1>5, <3>4, <3>5
    <3> HIDE DEF e
    <3>7. /\ head'.keys = e.keys /\ head'.kt = e.kt
          /\ head'.next = e.next /\ head'.nt = e.nt
          /\ head'.conf = head.conf /\ head'.delegator = head.delegator
          /\ head'.wits = wits /\ head'.toad = e.toad
      BY <3>2 DEF ApplyRotation, State
    <3>8. Meets(e) /\ HeadMeets
      BY <1>3, <2>3 DEF FoldWell
    <3>9. QED
      BY <2>3, <3>6, <3>7, <3>8 DEF HeadMeets, Meets
  <2>4. QED
    BY <2>1, <2>2, <2>3
<1>7. QED
  BY <1>1, <1>6 DEF FoldWell, PendingMeets, FoldAccepts

(* Every step keeps what is built acceptable: nothing moves under an event *)
(* that waits to be stored.                                                *)
LEMMA NextFold == IInv /\ TrailWell /\ FoldWell /\ [Next]_vars => FoldWell'
<1> SUFFICES ASSUME IInv, TrailWell, FoldWell, [Next]_vars PROVE FoldWell'
  OBVIOUS
<1>1. ASSUME head' = head, pending' = None \/ pending' = pending PROVE FoldWell'
  <2>1. HeadMeets'
    BY <1>1 DEF FoldWell, HeadMeets
  <2>2. PendingMeets'
    BY <1>1 DEF FoldWell, PendingMeets
  <2>3. FoldAccepts'
    BY <1>1 DEF FoldWell, FoldAccepts, Verdict
  <2>4. QED
    BY <2>1, <2>2, <2>3 DEF FoldWell
<1>2. ASSUME NEW spec \in Specs, Establish(spec) PROVE FoldWell'
  BY <1>1, <1>2 DEF Establish
<1>3. ASSUME NEW o \in Wishes, Build(o) PROVE FoldWell'
  BY <1>3, BuildFold
<1>4. CASE Interact
  BY <1>4, InteractFold
<1>5. CASE Store
  BY <1>5, StoreFold
<1>6. CASE Discard
  BY <1>1, <1>6 DEF Discard
<1>7. CASE Save
  BY <1>1, <1>7 DEF Save
<1>8. CASE Crash
  BY <1>1, <1>8 DEF Crash
<1>9. CASE CatchUp
  BY <1>1, <1>9 DEF CatchUp
<1>10. CASE UNCHANGED vars
  BY <1>1, <1>10 DEF vars
<1>11. QED
  BY <1>2, <1>3, <1>4, <1>5, <1>6, <1>7, <1>8, <1>9, <1>10 DEF Next

(* The fold takes whatever the custodian and the builder made, from any    *)
(* saved parameters and after any crash, for every ladder, every number of *)
(* keys and witnesses and every threshold asked for: the defaults meet     *)
(* each limit, the keys open the commitment. Only an interaction on a log  *)
(* that an empty commitment closed is refused (custody.rs, builder/).      *)
THEOREM BuiltIsAccepted == Spec => []FoldAccepts
<1>1. FoldWell => FoldAccepts
  BY DEF FoldWell
<1>2. QED
  BY <1>1, InitFold, NextFold, Invariant, TrailHolds, PTL DEF Spec

-----------------------------------------------------------------------------
(* The digits of a number. They are defined by recursion; that the         *)
(* recursion has a solution, and what it computes for every number, is     *)
(* shown by looking at the least number for which it would fail.           *)

(* A number of more than one digit, its leading part and its last digit.   *)
LEMMA Quotient ==
  ASSUME NEW n \in Nat, ~(n < Base)
  PROVE  /\ n \div Base \in Nat /\ n \div Base < n
         /\ n % Base \in Nat
         /\ n = Base * (n \div Base) + (n % Base)
<1>1. Base \in Nat /\ Base >= 2
  BY CustodyAssumption
<1>2. n \div Base \in Nat
  BY <1>1
<1>3. n % Base \in 0..(Base - 1)
  BY <1>1
<1>4. n = Base * (n \div Base) + (n % Base)
  BY <1>1
<1>5. ASSUME NEW q \in Nat, NEW r \in Nat, n = Base * q + r
      PROVE  q < n
  <2>1. Base * q >= q + q
    BY <1>1
  <2>2. QED
    BY <1>1, <1>5, <2>1
<1>6. QED
  BY <1>1, <1>2, <1>3, <1>4, <1>5

DigitsAt(f, n) == IF n < Base THEN <<n>> ELSE Append(f[n \div Base], n % Base)

WrittenUpTo(N, f) ==
  /\ f \in [0..N -> Seq(Nat)]
  /\ \A n \in 0..N : f[n] = DigitsAt(f, n)

(* What is needed to write a number is to have written the smaller ones.   *)
LEMMA DigitsAtType ==
  ASSUME NEW n \in Nat, NEW f, \A m \in 0..(n - 1) : f[m] \in Seq(Nat)
  PROVE  DigitsAt(f, n) \in Seq(Nat)
<1>1. CASE n < Base
  BY <1>1 DEF DigitsAt
<1>2. CASE ~(n < Base)
  <2>1. n \div Base \in 0..(n - 1) /\ n % Base \in Nat
    BY <1>2, Quotient
  <2>2. f[n \div Base] \in Seq(Nat)
    BY <2>1
  <2>3. QED
    BY <1>2, <2>1, <2>2 DEF DigitsAt
<1>3. QED
  BY <1>1, <1>2

(* Two tables of smaller numbers that agree lead to the same digits.       *)
LEMMA DigitsAtSame ==
  ASSUME NEW n \in Nat, NEW f, NEW g, \A m \in 0..(n - 1) : f[m] = g[m]
  PROVE  DigitsAt(f, n) = DigitsAt(g, n)
<1>1. CASE n < Base
  BY <1>1 DEF DigitsAt
<1>2. CASE ~(n < Base)
  <2>1. n \div Base \in 0..(n - 1)
    BY <1>2, Quotient
  <2>2. QED
    BY <1>2, <2>1 DEF DigitsAt
<1>3. QED
  BY <1>1, <1>2

(* There is a table of the digits of all numbers up to any bound.          *)
LEMMA TablesExist == \A N \in Nat : \E f : WrittenUpTo(N, f)
<1> SUFFICES ASSUME ~(\A N \in Nat : \E f : WrittenUpTo(N, f)) PROVE FALSE
  OBVIOUS
<1> DEFINE missing == {N \in Nat : ~(\E f : WrittenUpTo(N, f))}
<1>1. PICK N \in missing : \A M \in missing : N <= M
  <2>1. missing \in SUBSET Nat /\ missing # {}
    OBVIOUS
  <2> HIDE DEF missing
  <2>2. QED
    BY <2>1, LeastNumber
<1>2. N \in Nat /\ ~(\E f : WrittenUpTo(N, f))
  BY <1>1
<1>3. ASSUME NEW f, \A n \in 0..(N - 1) : f[n] \in Seq(Nat) /\ f[n] = DigitsAt(f, n)
      PROVE  FALSE
  <2> DEFINE g == [n \in 0..N |-> IF n = N THEN DigitsAt(f, N) ELSE f[n]]
  <2>1. \A n \in 0..(N - 1) : g[n] = f[n]
    BY <1>2
  <2>2. g[N] = DigitsAt(f, N) /\ DigitsAt(f, N) \in Seq(Nat)
    BY <1>2, <1>3, DigitsAtType
  <2>3. \A n \in 0..N : n = N \/ n \in 0..(N - 1)
    BY <1>2
  <2>4. g \in [0..N -> Seq(Nat)]
    BY <1>3, <2>2, <2>3
  <2> HIDE DEF g
  <2>5. ASSUME NEW n \in 0..N PROVE g[n] = DigitsAt(g, n)
    <3>1. DigitsAt(f, n) = DigitsAt(g, n)
      <4>1. \A m \in 0..(n - 1) : f[m] = g[m]
        BY <1>2, <2>1
      <4>2. n \in Nat
        BY <1>2
      <4>3. QED
        BY <4>1, <4>2, DigitsAtSame
    <3>2. QED
      BY <1>3, <2>1, <2>2, <2>3, <3>1
  <2>6. WrittenUpTo(N, g)
    BY <2>4, <2>5 DEF WrittenUpTo
  <2>7. QED
    BY <1>2, <2>6
<1>4. CASE N = 0
  <2>1. 0..(N - 1) = {}
    BY <1>4
  <2>2. QED
    BY <1>3, <2>1
<1>5. CASE N # 0
  <2>1. N - 1 \in Nat /\ ~(N <= N - 1)
    BY <1>2, <1>5
  <2>2. PICK f : WrittenUpTo(N - 1, f)
    BY <1>1, <2>1
  <2>3. QED
    BY <1>3, <2>2 DEF WrittenUpTo
<1>6. QED
  BY <1>4, <1>5

(* Tables agree where both are defined.                                    *)
LEMMA TablesAgree ==
  ASSUME NEW N \in Nat, NEW f, WrittenUpTo(N, f),
         NEW M \in Nat, NEW g, WrittenUpTo(M, g),
         NEW n \in Nat, n <= N, n <= M
  PROVE  f[n] = g[n]
<1> SUFFICES ASSUME f[n] # g[n] PROVE FALSE
  OBVIOUS
<1> DEFINE differ == {k \in 0..n : f[k] # g[k]}
<1>1. PICK k \in differ : \A j \in differ : k <= j
  <2>1. differ \in SUBSET Nat /\ n \in differ
    OBVIOUS
  <2> HIDE DEF differ
  <2>2. QED
    BY <2>1, LeastNumber
<1>2. k \in Nat /\ k <= n /\ f[k] # g[k]
  BY <1>1
<1>3. \A m \in 0..(k - 1) : f[m] = g[m]
  <2>1. TAKE m \in 0..(k - 1)
  <2>2. m \in 0..n /\ ~(k <= m)
    BY <1>2
  <2>3. QED
    BY <1>1, <2>2
<1>4. DigitsAt(f, k) = DigitsAt(g, k)
  BY <1>2, <1>3, DigitsAtSame
<1>5. f[k] = DigitsAt(f, k) /\ g[k] = DigitsAt(g, k)
  BY <1>2 DEF WrittenUpTo
<1>6. QED
  BY <1>2, <1>4, <1>5

(* The recursion has a solution, so Digits is what its definition says.    *)
LEMMA DigitsUnfold ==
  /\ Digits \in [Nat -> Seq(Nat)]
  /\ \A n \in Nat : Digits[n] = DigitsAt(Digits, n)
<1> DEFINE table(n) == CHOOSE f : WrittenUpTo(n, f)
           whole == [n \in Nat |-> table(n)[n]]
           Eq(f) == f = [n \in Nat |-> IF n < Base THEN <<n>>
                                       ELSE Append(f[n \div Base], n % Base)]
<1>1. \A n \in Nat : WrittenUpTo(n, table(n))
  BY TablesExist
<1> HIDE DEF table
<1>2. ASSUME NEW n \in Nat
      PROVE  whole[n] \in Seq(Nat) /\ whole[n] = DigitsAt(whole, n)
  <2>1. WrittenUpTo(n, table(n)) /\ n \in 0..n
    BY <1>1
  <2>2. table(n)[n] \in Seq(Nat) /\ table(n)[n] = DigitsAt(table(n), n)
    BY <2>1 DEF WrittenUpTo
  <2>3. \A m \in 0..(n - 1) : table(n)[m] = whole[m]
    <3>1. TAKE m \in 0..(n - 1)
    <3>2. m \in Nat /\ m <= m /\ m <= n
      OBVIOUS
    <3>3. QED
      BY <1>1, <3>2, TablesAgree
  <2>4. DigitsAt(table(n), n) = DigitsAt(whole, n)
    BY <2>3, DigitsAtSame
  <2>5. QED
    BY <2>2, <2>4
<1>3. Eq(whole)
  <2>1. \A n \in Nat : whole[n] = IF n < Base THEN <<n>>
                                  ELSE Append(whole[n \div Base], n % Base)
    BY <1>2 DEF DigitsAt
  <2>2. whole = [n \in Nat |-> whole[n]]
    OBVIOUS
  <2> HIDE DEF whole
  <2>3. QED
    BY <2>1, <2>2
<1>4. Digits = CHOOSE f : Eq(f)
  BY DEF Digits
<1> HIDE DEF whole, Eq
<1>5. Eq(Digits)
  BY <1>3, <1>4
<1>6. /\ DOMAIN Digits = Nat /\ Digits = [n \in Nat |-> Digits[n]]
      /\ \A n \in Nat : Digits[n] = DigitsAt(Digits, n)
  BY <1>5 DEF Eq, DigitsAt
<1>7. \A n \in Nat : Digits[n] \in Seq(Nat)
  <2> SUFFICES ASSUME NEW b \in Nat, Digits[b] \notin Seq(Nat) PROVE FALSE
    OBVIOUS
  <2> DEFINE bad == {n \in Nat : Digits[n] \notin Seq(Nat)}
  <2>1. bad \in SUBSET Nat /\ b \in bad
    OBVIOUS
  <2>2. PICK n \in bad : \A m \in bad : n <= m
    <3> HIDE DEF bad
    <3>1. QED
      BY <2>1, LeastNumber
  <2>3. n \in Nat /\ \A m \in 0..(n - 1) : Digits[m] \in Seq(Nat)
    <3>1. n \in Nat
      BY <2>2
    <3>2. \A m \in 0..(n - 1) : m \in Nat /\ ~(n <= m)
      BY <3>1
    <3>3. QED
      BY <2>2, <3>1, <3>2
  <2>4. QED
    BY <1>6, <2>2, <2>3, DigitsAtType
<1>8. QED
  BY <1>6, <1>7

(* One digit, or the digits of the leading part and one more.              *)
LEMMA DigitsOf ==
  ASSUME NEW n \in Nat
  PROVE  /\ Digits[n] \in Seq(Nat) /\ Len(Digits[n]) \in Nat
         /\ n < Base => Digits[n] = <<n>> /\ Len(Digits[n]) = 1
         /\ ~(n < Base) => /\ Digits[n] = Append(Digits[n \div Base], n % Base)
                           /\ Len(Digits[n]) = Len(Digits[n \div Base]) + 1
<1>1. Digits[n] \in Seq(Nat) /\ Digits[n] = DigitsAt(Digits, n)
  BY DigitsUnfold
<1>2. CASE n < Base
  BY <1>1, <1>2 DEF DigitsAt
<1>3. CASE ~(n < Base)
  <2>1. n \div Base \in Nat /\ n % Base \in Nat
    BY <1>3, Quotient
  <2>2. Digits[n \div Base] \in Seq(Nat)
    BY <2>1, DigitsUnfold
  <2>3. Digits[n] = Append(Digits[n \div Base], n % Base)
    BY <1>1, <1>3 DEF DigitsAt
  <2>4. QED
    BY <1>1, <1>3, <2>1, <2>2, <2>3
<1>4. QED
  BY <1>2, <1>3

(* No number is written with no digit.                                     *)
LEMMA DigitsNotEmpty ==
  ASSUME NEW n \in Nat
  PROVE  Len(Digits[n]) \in Nat /\ Len(Digits[n]) >= 1
<1>1. CASE n < Base
  <2>1. Len(Digits[n]) = 1
    BY <1>1, DigitsOf, Zenon
  <2>2. QED
    BY <2>1
<1>2. CASE ~(n < Base)
  <2>1. n \div Base \in Nat
    BY <1>2, Quotient
  <2>2. /\ Len(Digits[n \div Base]) \in Nat /\ Len(Digits[n \div Base]) >= 0
        /\ Len(Digits[n]) = Len(Digits[n \div Base]) + 1
    BY <1>2, <2>1, DigitsOf
  <2>3. QED
    BY <2>2
<1>3. QED
  BY <1>1, <1>2

(* Division by the base keeps the order of numbers.                        *)
LEMMA QuotientKeepsOrder ==
  ASSUME NEW m \in Nat, NEW n \in Nat, m <= n
  PROVE  m \div Base <= n \div Base
<1>1. Base \in Nat /\ Base >= 2
  BY CustodyAssumption
<1>2. QED
  BY <1>1

(* A larger number has no fewer digits.                                    *)
LEMMA DigitsGrow ==
  ASSUME NEW a \in Nat, NEW b \in Nat, a <= b
  PROVE  Len(Digits[a]) <= Len(Digits[b])
<1> DEFINE shrink == {n \in Nat : \E m \in 0..n : ~(Len(Digits[m]) <= Len(Digits[n]))}
<1> SUFFICES ASSUME ~(Len(Digits[a]) <= Len(Digits[b])) PROVE FALSE
  OBVIOUS
<1>1. PICK n \in shrink : \A k \in shrink : n <= k
  <2>1. shrink \in SUBSET Nat /\ b \in shrink
    OBVIOUS
  <2> HIDE DEF shrink
  <2>2. QED
    BY <2>1, LeastNumber
<1>2. PICK m \in 0..n : ~(Len(Digits[m]) <= Len(Digits[n]))
  BY <1>1
<1>3. n \in Nat /\ m \in Nat /\ m <= n
  BY <1>1
<1>4. /\ Len(Digits[m]) \in Nat /\ Len(Digits[m]) >= 1
      /\ Len(Digits[n]) \in Nat /\ Len(Digits[n]) >= 1
  BY <1>3, DigitsNotEmpty
<1>5. ~(m < Base)
  BY <1>2, <1>3, <1>4, DigitsOf
<1>6. ~(n < Base)
  <2>1. Base \in Nat
    BY CustodyAssumption
  <2>2. QED
    BY <1>3, <1>5, <2>1
<1>7. /\ m \div Base \in Nat /\ n \div Base \in Nat /\ n \div Base < n
      /\ m \div Base <= n \div Base
  BY <1>3, <1>5, <1>6, Quotient, QuotientKeepsOrder
<1>8. Len(Digits[m \div Base]) <= Len(Digits[n \div Base])
  <2>1. n \div Base \notin shrink
    BY <1>1, <1>3, <1>7
  <2>2. m \div Base \in 0..(n \div Base)
    BY <1>7
  <2>3. QED
    BY <1>7, <2>1, <2>2
<1>9. /\ Len(Digits[m]) = Len(Digits[m \div Base]) + 1
      /\ Len(Digits[n]) = Len(Digits[n \div Base]) + 1
      /\ Len(Digits[m \div Base]) \in Nat /\ Len(Digits[n \div Base]) \in Nat
  BY <1>3, <1>5, <1>6, <1>7, DigitsOf, DigitsNotEmpty
<1>10. QED
  BY <1>2, <1>8, <1>9

(* The list and what was appended to it can be told from the result.       *)
LEMMA AppendsDiffer ==
  ASSUME NEW u \in Seq(Nat), NEW v \in Seq(Nat), NEW x \in Nat, NEW y \in Nat,
         Append(u, x) = Append(v, y)
  PROVE  u = v /\ x = y
<1>1. /\ Len(Append(u, x)) = Len(u) + 1 /\ Append(u, x)[Len(u) + 1] = x
      /\ Len(Append(v, y)) = Len(v) + 1 /\ Append(v, y)[Len(v) + 1] = y
  OBVIOUS
<1>2. Len(u) = Len(v) /\ x = y
  BY <1>1
<1>3. ASSUME NEW i \in 1..Len(u) PROVE u[i] = v[i]
  <2>1. Append(u, x)[i] = u[i]
    OBVIOUS
  <2>2. Append(v, y)[i] = v[i]
    BY <1>2
  <2>3. QED
    BY <2>1, <2>2
<1>4. u = v
  <2>1. u = [i \in 1..Len(u) |-> u[i]] /\ v = [i \in 1..Len(v) |-> v[i]]
    OBVIOUS
  <2>2. QED
    BY <1>2, <1>3, <2>1
<1>5. QED
  BY <1>2, <1>4

(* Different numbers are written differently.                              *)
LEMMA DigitsDiffer ==
  ASSUME NEW a \in Nat, NEW b \in Nat, Digits[a] = Digits[b]
  PROVE  a = b
<1> DEFINE twice == {m \in Nat : \E n \in Nat : m # n /\ Digits[m] = Digits[n]}
<1> SUFFICES ASSUME a # b PROVE FALSE
  OBVIOUS
<1>1. PICK m \in twice : \A k \in twice : m <= k
  <2>1. twice \in SUBSET Nat /\ a \in twice
    OBVIOUS
  <2> HIDE DEF twice
  <2>2. QED
    BY <2>1, LeastNumber
<1>2. PICK n \in Nat : m # n /\ Digits[m] = Digits[n]
  BY <1>1
<1>3. m \in Nat /\ Base \in Nat
  BY <1>1, CustodyAssumption
<1>4. ASSUME NEW x \in Nat, ~(x < Base)
      PROVE  /\ x \div Base \in Nat
             /\ Digits[x \div Base] \in Seq(Nat) /\ Len(Digits[x \div Base]) >= 1
             /\ x % Base \in Nat /\ Digits[x] = Append(Digits[x \div Base], x % Base)
  BY <1>4, Quotient, DigitsOf, DigitsNotEmpty
<1>5. m < Base <=> n < Base
  <2>1. \A x \in Nat : x < Base <=> Len(Digits[x]) = 1
    <3>1. TAKE x \in Nat
    <3>2. CASE x < Base
      BY <3>2, DigitsOf
    <3>3. CASE ~(x < Base)
      <4>1. /\ Len(Digits[x]) = Len(Digits[x \div Base]) + 1
            /\ Len(Digits[x \div Base]) \in Nat /\ Len(Digits[x \div Base]) >= 1
        BY <3>3, Quotient, DigitsOf, DigitsNotEmpty
      <4>2. QED
        BY <3>3, <4>1
    <3>4. QED
      BY <3>2, <3>3
  <2>2. QED
    BY <1>2, <1>3, <2>1
<1>6. CASE m < Base
  <2>1. <<m>> = <<n>>
    BY <1>2, <1>3, <1>5, <1>6, DigitsOf
  <2>2. QED
    BY <1>2, <2>1
<1>7. CASE ~(m < Base)
  <2>1. Append(Digits[m \div Base], m % Base) = Append(Digits[n \div Base], n % Base)
    BY <1>2, <1>3, <1>4, <1>5, <1>7
  <2>2. /\ m \div Base \in Nat /\ n \div Base \in Nat
        /\ Digits[m \div Base] \in Seq(Nat) /\ Digits[n \div Base] \in Seq(Nat)
        /\ m % Base \in Nat /\ n % Base \in Nat
    BY <1>3, <1>4, <1>5, <1>7
  <2>4. Digits[m \div Base] = Digits[n \div Base] /\ m % Base = n % Base
    <3> DEFINE u == Digits[m \div Base]  x == m % Base
               v == Digits[n \div Base]  y == n % Base
    <3>1. u \in Seq(Nat) /\ v \in Seq(Nat) /\ x \in Nat /\ y \in Nat
      BY <2>2
    <3>2. Append(u, x) = Append(v, y)
      BY <2>1
    <3> HIDE DEF u, v, x, y
    <3>3. u = v /\ x = y
      BY <3>1, <3>2, AppendsDiffer
    <3>4. QED
      BY <3>3 DEF u, v, x, y
  <2>5. m \div Base < m
    BY <1>3, <1>7, Quotient
  <2>6. m \div Base = n \div Base
    <3>1. m \div Base \notin twice
      BY <1>1, <1>3, <2>2, <2>5
    <3>2. QED
      BY <2>2, <2>4, <3>1
  <2>7. /\ m = Base * (m \div Base) + (m % Base)
        /\ n = Base * (n \div Base) + (n % Base)
    BY <1>2, <1>3, <1>5, <1>7, Quotient
  <2>8. QED
    BY <1>2, <2>4, <2>6, <2>7
<1>8. QED
  BY <1>6, <1>7

-----------------------------------------------------------------------------
(* No two places of a ladder have the same path. A path has no separators, *)
(* so different pairs of numbers can be written alike; but further up the  *)
(* ladder both numbers are larger, neither of them is written shorter, and *)
(* so the places where one number ends and the other begins are the same.  *)

(* Where the parts of a concatenation are.                                 *)
LEMMA PartsAt ==
  ASSUME NEW u \in Seq(Nat), NEW v \in Seq(Nat)
  PROVE  /\ \A i \in 1..Len(u) : (u \o v)[i] = u[i]
         /\ \A i \in 1..Len(v) : (u \o v)[Len(u) + i] = v[i]
OBVIOUS

(* Parts that do not get shorter can be told from the whole.               *)
LEMMA PartsDiffer ==
  ASSUME NEW s \in Seq(Nat), NEW a \in Seq(Nat), NEW b \in Seq(Nat),
         NEW x \in Seq(Nat), NEW y \in Seq(Nat),
         s \o a \o x = s \o b \o y, Len(a) <= Len(b), Len(x) <= Len(y)
  PROVE  a = b /\ x = y
<1>1. /\ s \o a \in Seq(Nat) /\ Len(s \o a) = Len(s) + Len(a)
      /\ s \o b \in Seq(Nat) /\ Len(s \o b) = Len(s) + Len(b)
  OBVIOUS
<1>2. /\ Len(s \o a \o x) = Len(s) + Len(a) + Len(x)
      /\ Len(s \o b \o y) = Len(s) + Len(b) + Len(y)
  BY <1>1
<1>3. Len(a) = Len(b) /\ Len(x) = Len(y)
  BY <1>2
<1>4. ASSUME NEW i \in 1..Len(a) PROVE a[i] = b[i]
  <2>1. (s \o a)[Len(s) + i] = a[i] /\ (s \o b)[Len(s) + i] = b[i]
    BY <1>3
  <2>2. Len(s) + i \in 1..Len(s \o a) /\ Len(s) + i \in 1..Len(s \o b)
    BY <1>1, <1>3
  <2>3. /\ (s \o a \o x)[Len(s) + i] = (s \o a)[Len(s) + i]
        /\ (s \o b \o y)[Len(s) + i] = (s \o b)[Len(s) + i]
    BY <1>1, <2>2, PartsAt
  <2>4. QED
    BY <2>1, <2>3
<1>5. ASSUME NEW i \in 1..Len(x) PROVE x[i] = y[i]
  <2> DEFINE u == s \o a
             v == s \o b
  <2>1. u \in Seq(Nat) /\ v \in Seq(Nat) /\ Len(u) = Len(v) /\ u \o x = v \o y
    BY <1>1, <1>3
  <2> HIDE DEF u, v
  <2>2. (u \o x)[Len(u) + i] = x[i]
    BY <2>1, PartsAt
  <2>3. i \in 1..Len(y)
    BY <1>3
  <2>4. (v \o y)[Len(v) + i] = y[i]
    BY <2>1, <2>3, PartsAt
  <2>5. QED
    BY <2>1, <2>2, <2>4
<1>6. /\ a = [i \in 1..Len(a) |-> a[i]] /\ b = [i \in 1..Len(b) |-> b[i]]
      /\ x = [i \in 1..Len(x) |-> x[i]] /\ y = [i \in 1..Len(y) |-> y[i]]
  OBVIOUS
<1>7. QED
  BY <1>3, <1>4, <1>5, <1>6

(* Where both indices have grown, or neither, paths tell them apart.       *)
LEMMA PathsDiffer ==
  ASSUME NEW a \in Nat, NEW b \in Nat, a <= b, NEW x \in Nat, NEW y \in Nat, x <= y,
         DerivationPath(a, x) = DerivationPath(b, y)
  PROVE  a = b /\ x = y
<1>1. /\ Digits[a] \in Seq(Nat) /\ Digits[b] \in Seq(Nat)
      /\ Digits[x] \in Seq(Nat) /\ Digits[y] \in Seq(Nat)
  BY DigitsOf
<1>2. Len(Digits[a]) <= Len(Digits[b]) /\ Len(Digits[x]) <= Len(Digits[y])
  BY DigitsGrow
<1>3. Stem \in Seq(Nat)
  BY CustodyAssumption
<1>4. Stem \o Digits[a] \o Digits[x] = Stem \o Digits[b] \o Digits[y]
  BY DEF DerivationPath
<1>5. Digits[a] = Digits[b] /\ Digits[x] = Digits[y]
  <2> DEFINE da == Digits[a]  db == Digits[b]  dx == Digits[x]  dy == Digits[y]
  <2>1. /\ da \in Seq(Nat) /\ db \in Seq(Nat) /\ dx \in Seq(Nat) /\ dy \in Seq(Nat)
        /\ Len(da) <= Len(db) /\ Len(dx) <= Len(dy)
        /\ Stem \o da \o dx = Stem \o db \o dy
    BY <1>1, <1>2, <1>4
  <2> HIDE DEF da, db, dx, dy
  <2>2. da = db /\ dx = dy
    BY <1>3, <2>1, PartsDiffer
  <2>3. QED
    BY <2>2 DEF da, db, dx, dy
<1>6. QED
  BY <1>5, DigitsDiffer

(* The key indices of rung r of a trail t: the first, and how many. The    *)
(* rung above the last one holds the keys that are committed to.           *)
Start(t, r) == IF r <= Len(t) THEN t[r].kidx ELSE t[Len(t)].kidx + t[Len(t)].count
Size(t, r) == IF r <= Len(t) THEN t[r].count ELSE t[Len(t)].ncount

(* Rung r has rotation index r - 1 and at least one key, and each rung     *)
(* begins where the one below it ends.                                     *)
LEMMA RungsFollow ==
  ASSUME IInv, NEW t \in Seq(Custodian), TrailOf(t), ladder # <<>>,
         NEW r \in 1..Len(ladder)
  PROVE  /\ t[r] \in Custodian /\ t[r].ridx = r - 1 /\ t[r].incepted
         /\ Start(t, r) \in Nat /\ Size(t, r) \in Nat /\ Size(t, r) >= 1
         /\ Start(t, r + 1) = Start(t, r) + Size(t, r)
<1> DEFINE n == Len(ladder)
           c == Before(t, r)
           spec == LogSpec(ladder[r])
<1>1. n \in Nat \ {0} /\ Len(t) = n /\ ladder \in Seq(KeyCommitment)
  BY DEF IInv, TypeOK, TrailOf
<1>2. /\ t[r] \in Custodian /\ Rung(t[r]) = r
      /\ CheckStep(c, spec) = "Ok" /\ Step(c, spec) = t[r]
  BY <1>1 DEF TrailOf, Climbs
<1>3. t[r].ridx \in Nat /\ t[r].kidx \in Nat /\ t[r].count \in Nat
  BY <1>2, CustodyAssumption DEF Custodian
<1>4. t[r].incepted /\ t[r].ridx = r - 1
  BY <1>2, <1>3 DEF Rung
<1>5. c \in Custodian
  <2>1. Fresh \in Custodian
    BY CustodyAssumption DEF Fresh, Custodian
  <2>2. r # 1 => r - 1 \in 1..Len(t)
    BY <1>1
  <2>3. QED
    BY <2>1, <2>2 DEF Before
<1> HIDE DEF c, spec
<1>6. t[r].count = spec.count /\ spec.count # 0
  <2>1. CASE c.incepted
    <3>1. t[r] = Rotated(c, spec) /\ CheckRotate(c, spec) = "Ok"
      BY <1>2, <2>1 DEF Step, CheckStep
    <3>2. spec.count = c.ncount /\ c.ncount # 0
      BY <3>1 DEF CheckRotate, Require, &&
    <3>3. QED
      BY <1>5, <3>1, <3>2 DEF Rotated, RungUp, Custodian
  <2>2. CASE ~c.incepted
    <3>1. t[r] = Incepted(c, spec) /\ CheckIncept(c, spec) = "Ok"
      BY <1>2, <2>2 DEF Step, CheckStep
    <3>2. spec.count # 0
      BY <3>1 DEF CheckIncept, Require, &&
    <3>3. QED
      BY <1>5, <3>1, <3>2 DEF Incepted, Custodian
  <2>3. QED
    BY <2>1, <2>2
<1>7. Start(t, r) = t[r].kidx /\ Size(t, r) = t[r].count
  BY <1>1 DEF Start, Size
<1>8. Start(t, r + 1) = t[r].kidx + t[r].count
  <2>1. CASE r = n
    <3>1. ~(r + 1 <= Len(t)) /\ Len(t) = r
      BY <1>1, <2>1
    <3>2. QED
      BY <3>1 DEF Start
  <2>2. CASE r # n
    <3>1. r + 1 \in 1..n /\ r + 1 <= Len(t)
      BY <1>1, <2>2
    <3>2. /\ Step(Before(t, r + 1), LogSpec(ladder[r + 1])) = t[r + 1]
      BY <3>1 DEF TrailOf, Climbs
    <3>3. Before(t, r + 1) = t[r]
      BY <1>1 DEF Before
    <3>4. t[r + 1] = Rotated(t[r], LogSpec(ladder[r + 1]))
      BY <1>4, <3>2, <3>3 DEF Step
    <3>5. t[r + 1].kidx = t[r].kidx + t[r].count
      BY <1>2, <3>4 DEF Rotated, RungUp, Custodian
    <3>6. QED
      BY <3>1, <3>5 DEF Start
  <2>3. QED
    BY <2>1, <2>2
<1>9. QED
  BY <1>2, <1>3, <1>4, <1>6, <1>7, <1>8

(* The rungs of a trail do not overlap in their key indices.               *)
LEMMA RungsAscend ==
  ASSUME IInv, NEW t \in Seq(Custodian), TrailOf(t), ladder # <<>>,
         NEW r \in 1..Len(ladder), NEW q \in 1..(Len(ladder) + 1), r < q
  PROVE  Start(t, q) \in Nat /\ Start(t, r) + Size(t, r) <= Start(t, q)
<1> DEFINE n == Len(ladder)
           Above(p) == Start(t, p) \in Nat /\ Start(t, r) + Size(t, r) <= Start(t, p)
           wrong == {p \in (r + 1)..(n + 1) : ~Above(p)}
<1>1. n \in Nat /\ r \in Nat /\ q \in (r + 1)..(n + 1)
  BY DEF IInv, TypeOK
<1> SUFFICES ASSUME ~Above(q) PROVE FALSE
  OBVIOUS
<1>2. PICK p \in wrong : \A k \in wrong : p <= k
  <2>1. wrong \in SUBSET Nat /\ q \in wrong
    BY <1>1
  <2> HIDE DEF wrong
  <2>2. QED
    BY <2>1, LeastNumber
<1>3. p \in (r + 1)..(n + 1) /\ ~Above(p)
  BY <1>2
<1>4. CASE p = r + 1
  <2>1. Start(t, r + 1) = Start(t, r) + Size(t, r) /\ Start(t, r) \in Nat /\ Size(t, r) \in Nat
    BY RungsFollow
  <2>2. QED
    BY <1>3, <1>4, <2>1
<1>5. CASE p # r + 1
  <2>1. p - 1 \in (r + 1)..(n + 1) /\ ~(p <= p - 1) /\ p - 1 \in 1..n
    BY <1>1, <1>3, <1>5
  <2>2. Above(p - 1)
    BY <1>2, <2>1
  <2>3. /\ Start(t, p - 1) \in Nat /\ Size(t, p - 1) \in Nat
        /\ Start(t, (p - 1) + 1) = Start(t, p - 1) + Size(t, p - 1)
    BY <2>1, RungsFollow
  <2>4. (p - 1) + 1 = p
    BY <1>1, <1>3
  <2>5. Start(t, r) \in Nat /\ Size(t, r) \in Nat
    BY RungsFollow
  <2>6. QED
    BY <1>3, <2>2, <2>3, <2>4, <2>5
<1>6. QED
  BY <1>4, <1>5

(* The paths in use, in terms of the trail.                                *)
LEMMA UsedPaths ==
  ASSUME IInv, NEW t \in Seq(Custodian), TrailOf(t), head # None
  PROVE  /\ ladder # <<>>
         /\ Len(ladder) \in Nat \ {0}
         /\ DOMAIN Used = 1..(Len(ladder) + 1)
         /\ \A r \in DOMAIN Used :
              /\ Start(t, r) \in Nat /\ Size(t, r) \in Nat
              /\ Used[r] = [i \in 1..Size(t, r) |->
                              DerivationPath(r - 1, Start(t, r) + i - 1)]
<1> DEFINE n == Len(ladder)
           used(r) == PathsOf(ladder[r].keys)
           f == [r \in 1..n |-> used(r)]
           S == {used(r) : r \in 1..n} \cup {PathsOf(head.next)}
<1>1. /\ ladder \in Seq(KeyCommitment) /\ ladder # <<>> /\ n \in Nat \ {0}
      /\ DOMAIN ladder = 1..n
      /\ head.next = ladder[n].next
  BY DEF IInv, TypeOK, HeadWell
<1>2. Len(t) = n
  BY DEF TrailOf
<1>3. Used = Append(f, PathsOf(head.next))
  BY <1>1 DEF Used
<1>4. \A r \in 1..n : used(r) \in S
  OBVIOUS
<1>5. PathsOf(head.next) \in S
  OBVIOUS
<1> HIDE DEF used, S
<1>6. f \in Seq(S) /\ Len(f) = n
  BY <1>1, <1>4
<1>7. \A r \in 1..n : f[r] = used(r)
  OBVIOUS
<1> HIDE DEF f
<1>8. /\ Used \in Seq(S) /\ Len(Used) = n + 1
      /\ \A r \in 1..n : Used[r] = used(r)
      /\ Used[n + 1] = PathsOf(head.next)
  BY <1>1, <1>3, <1>5, <1>6, <1>7
<1>9. DOMAIN Used = 1..(n + 1)
  BY <1>1, <1>8
<1>10. ASSUME NEW ridx, NEW kidx, NEW count \in Nat, NEW b
       PROVE  PathsOf(DeriveSet(ridx, kidx, count, b)) =
                [i \in 1..count |-> DerivationPath(ridx, kidx + i - 1)]
  BY DEF PathsOf, DeriveSet, KeyAt
<1>11. ASSUME NEW r \in 1..n
       PROVE  /\ Start(t, r) \in Nat /\ Size(t, r) \in Nat
              /\ Used[r] = [i \in 1..Size(t, r) |->
                              DerivationPath(r - 1, Start(t, r) + i - 1)]
  <2>1. /\ t[r] \in Custodian /\ t[r].ridx = r - 1
        /\ Start(t, r) \in Nat /\ Size(t, r) \in Nat
    BY <1>1, RungsFollow
  <2>2. Start(t, r) = t[r].kidx /\ Size(t, r) = t[r].count
    BY <1>2 DEF Start, Size
  <2>3. ladder[r].keys = Verkeys(t[r])
    <3>1. Commit(t[r]) = ladder[r]
      BY DEF TrailOf, Climbs
    <3>2. QED
      BY <3>1 DEF Commit
  <2>4. ladder[r].keys = DeriveSet(r - 1, Start(t, r), Size(t, r), t[r].transferable)
    BY <2>1, <2>2, <2>3 DEF Verkeys
  <2>5. Used[r] = PathsOf(ladder[r].keys)
    BY <1>8 DEF used
  <2>6. QED
    BY <1>10, <2>1, <2>4, <2>5
<1>12. /\ Start(t, n + 1) \in Nat /\ Size(t, n + 1) \in Nat
       /\ Used[n + 1] = [i \in 1..Size(t, n + 1) |->
                           DerivationPath((n + 1) - 1, Start(t, n + 1) + i - 1)]
  <2>1. /\ t[n] \in Custodian /\ t[n].ridx = n - 1
        /\ Start(t, n) \in Nat /\ Size(t, n) \in Nat
        /\ Start(t, n + 1) = Start(t, n) + Size(t, n)
    <3>1. n \in 1..n
      BY <1>1
    <3>2. QED
      BY <1>1, <3>1, RungsFollow
  <2>2. ~(n + 1 <= Len(t))
    BY <1>1, <1>2
  <2>3. Start(t, n + 1) = t[n].kidx + t[n].count /\ Size(t, n + 1) = t[n].ncount
    BY <1>2, <2>2 DEF Start, Size
  <2>4. Size(t, n + 1) \in Nat
    BY <2>1, <2>3 DEF Custodian
  <2>5. head.next = NextKeys(t[n])
    <3>1. n \in 1..n
      BY <1>1
    <3>2. Commit(t[n]) = ladder[n]
      BY <3>1 DEF TrailOf, Climbs
    <3>3. QED
      BY <1>1, <3>2 DEF Commit
  <2>6. head.next = DeriveSet(n, Start(t, n + 1), Size(t, n + 1), TRUE)
    <3>1. (n - 1) + 1 = n /\ (n + 1) - 1 = n
      BY <1>1
    <3>2. /\ RungUp(t[n], t[n].ncount).ridx = n
          /\ RungUp(t[n], t[n].ncount).kidx = t[n].kidx + t[n].count
          /\ RungUp(t[n], t[n].ncount).count = t[n].ncount
      BY <2>1, <3>1 DEF RungUp, Custodian
    <3>3. QED
      BY <2>3, <2>5, <3>2 DEF NextKeys
  <2>7. n = (n + 1) - 1
    BY <1>1
  <2>8. Start(t, n + 1) \in Nat
    BY <2>1
  <2>9. PathsOf(head.next) = [i \in 1..Size(t, n + 1) |->
                               DerivationPath(n, Start(t, n + 1) + i - 1)]
    <3> DEFINE from == Start(t, n + 1)
               many == Size(t, n + 1)
    <3>1. many \in Nat /\ head.next = DeriveSet(n, from, many, TRUE)
      BY <2>4, <2>6
    <3> HIDE DEF from, many, n
    <3>2. PathsOf(head.next) = [i \in 1..many |-> DerivationPath(n, from + i - 1)]
      BY <3>1 DEF PathsOf, DeriveSet, KeyAt
    <3>3. QED
      BY <3>2 DEF from, many
  <2>10. QED
    BY <1>8, <2>4, <2>7, <2>8, <2>9
<1>13. \A r \in 1..(n + 1) : r \in 1..n \/ r = n + 1
  BY <1>1
<1> HIDE DEF n
<1>14. \A r \in 1..(n + 1) :
         /\ Start(t, r) \in Nat /\ Size(t, r) \in Nat
         /\ Used[r] = [i \in 1..Size(t, r) |-> DerivationPath(r - 1, Start(t, r) + i - 1)]
  BY <1>11, <1>12, <1>13
<1>15. QED
  BY <1>1, <1>9, <1>14 DEF n

(* Two different places of a ladder have different paths.                  *)
LEMMA PlacesDiffer ==
  ASSUME IInv, NEW t \in Seq(Custodian), TrailOf(t), head # None,
         NEW r \in DOMAIN Used, NEW i \in DOMAIN Used[r],
         NEW q \in DOMAIN Used, NEW j \in DOMAIN Used[q],
         r < q \/ (r = q /\ i < j)
  PROVE  Used[r][i] # Used[q][j]
<1> DEFINE n == Len(ladder)
           x == Start(t, r) + i - 1
           y == Start(t, q) + j - 1
<1>1. /\ ladder # <<>> /\ n \in Nat \ {0} /\ r \in 1..(n + 1) /\ q \in 1..(n + 1)
      /\ Start(t, r) \in Nat /\ Size(t, r) \in Nat /\ i \in 1..Size(t, r)
      /\ Start(t, q) \in Nat /\ Size(t, q) \in Nat /\ j \in 1..Size(t, q)
      /\ Used[r][i] = DerivationPath(r - 1, x)
      /\ Used[q][j] = DerivationPath(q - 1, y)
  BY UsedPaths
<1>2. r - 1 \in Nat /\ q - 1 \in Nat /\ r - 1 <= q - 1 /\ x \in Nat /\ y \in Nat
  <2>1. x \in Nat /\ y \in Nat
    <3>1. i \in Nat \ {0} /\ j \in Nat \ {0}
      BY <1>1
    <3> QED
      BY <1>1, <3>1
  <2>2. r \in Nat \ {0} /\ q \in Nat \ {0} /\ r <= q
    BY <1>1
  <2> HIDE DEF x, y
  <2> QED
    BY <2>1, <2>2
<1>3. x < y
  <2>1. CASE r = q
    BY <1>1, <2>1
  <2>2. CASE r < q
    <3>1. r \in 1..n
      BY <1>1, <2>2
    <3>2. Start(t, r) + Size(t, r) <= Start(t, q)
      BY <1>1, <2>2, <3>1, RungsAscend
    <3>3. QED
      BY <1>1, <3>2
  <2>3. QED
    BY <2>1, <2>2
<1> HIDE DEF x, y
<1>4. DerivationPath(r - 1, x) # DerivationPath(q - 1, y)
  BY <1>2, <1>3, PathsDiffer
<1>5. QED
  BY <1>1, <1>4

(* A private key is used at one position of one establishment, or is       *)
(* committed to for the next, whatever counts the caller chose, however    *)
(* long the log and however often the controller crashed, for every base   *)
(* and stem (custody.rs derivation_path, "{stem}{ridx:x}{kidx:x}").        *)
THEOREM KeysServeOnce == Spec => []NoKeyServesTwice
<1>1. IInv /\ TrailWell => NoKeyServesTwice
  <2> SUFFICES ASSUME IInv, TrailWell PROVE NoKeyServesTwice
    OBVIOUS
  <2>1. CASE head = None
    <3>1. Used = <<>>
      BY <2>1 DEF Used
    <3>2. QED
      BY <3>1 DEF NoKeyServesTwice
  <2>2. CASE head # None
    <3> PICK t \in Seq(Custodian) : TrailOf(t)
      BY DEF TrailWell
    <3>1. DOMAIN Used = 1..(Len(ladder) + 1) /\ Len(ladder) \in Nat
      BY <2>2, UsedPaths
    <3>2. ASSUME NEW r \in DOMAIN Used PROVE Unique(Used[r])
      <4>1. DOMAIN Used[r] \subseteq Nat
        BY <2>2, UsedPaths
      <4>2. ASSUME NEW i \in DOMAIN Used[r], NEW j \in DOMAIN Used[r], i # j
            PROVE  Used[r][i] # Used[r][j]
        <5>1. i < j \/ j < i
          BY <4>1, <4>2
        <5>2. QED
          BY <2>2, <5>1, PlacesDiffer
      <4>3. QED
        BY <4>2 DEF Unique
    <3>3. ASSUME NEW r \in DOMAIN Used, NEW q \in DOMAIN Used, r # q
          PROVE  Members(Used[r]) \cap Members(Used[q]) = {}
      <4>1. ASSUME NEW i \in DOMAIN Used[r], NEW j \in DOMAIN Used[q]
            PROVE  Used[r][i] # Used[q][j]
        <5>1. r < q \/ q < r
          BY <3>1, <3>3
        <5>2. QED
          BY <2>2, <5>1, PlacesDiffer
      <4>2. QED
        BY <4>1 DEF Members
    <3>4. QED
      BY <3>2, <3>3 DEF NoKeyServesTwice
  <2>3. QED
    BY <2>1, <2>2
<1>2. QED
  BY <1>1, TrailHolds, Invariant, PTL
=============================================================================
