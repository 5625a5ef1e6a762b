----------------------------- MODULE EventBuilder -----------------------------
(***************************************************************************)
(* The builders of key events (keri-codec crate, builder/): what they fill *)
(* in, and what they refuse to build. An inception's prefix is always its  *)
(* own SAID. A caller may override the two signing thresholds and the      *)
(* witness threshold; None leaves the default.                             *)
(***************************************************************************)
EXTENDS KeyState

(* What a caller may ask for beside keys.                                  *)
Options ==
  [kt : Thresholds \cup {None}, nt : Thresholds \cup {None},
   adds : Seq(Keys), cuts : Seq(Keys), toad : Nat \cup {None}]

AtLeastOne(n) == IF n < 1 THEN 1 ELSE n
Majority(n) == AtLeastOne((n + 1) \div 2)

(* Toad::ample: the least strong majority over the two counts of faulty    *)
(* witnesses that n allows, at most all of them.                           *)
StrongMajority(n, f) == (n + f + 2) \div 2
LeastOf(a, b) == IF a <= b THEN a ELSE b

(* A mutant: a plain majority.                                             *)
AmpleMajority(n) == Majority(n)

Ample(n) ==
  IF n = 0 THEN 0
  ELSE LeastOf(n, LeastOf(StrongMajority(n, AtLeastOne((n - 1) \div 3)),
                          StrongMajority(n, AtLeastOne((n + 1) \div 3))))

Threshold(asked, keys) == IF asked # None THEN asked ELSE Simple(Majority(Len(keys)))
NextThreshold(asked, next) ==
  IF asked = None /\ next = <<>> THEN Simple(0) ELSE Threshold(asked, next)
WitnessThreshold(asked, count) == IF asked # None THEN asked ELSE Ample(count)

(* KeyConfiguration::validate.                                             *)
CheckKeys(keys, next, o) ==
  Require(keys # <<>>, "EmptyKeys")
  && CheckThreshold(Threshold(o.kt, keys), Len(keys))
  && Require(next = <<>> \/ WellFormed(NextThreshold(o.nt, next), Len(next)), "MalformedThreshold")

CheckToad(asked, count) ==
  Require(asked = None \/ CheckWitnessThreshold(count, asked) = "Ok", "Toad")

CheckBuildInception(keys, next, o) ==
  CheckKeys(keys, next, o)
  && CheckWitnesses(o.adds)
  && CheckToad(o.toad, Len(o.adds))

(* WitnessRotation::validate, against the witnesses the caller says are in *)
(* force.                                                                  *)
WitnessesLeft(prior, o) == Cardinality(UpdatedMembers(prior, o.cuts, o.adds))

CheckBuildRotation(prior, keys, next, o) ==
  CheckKeys(keys, next, o)
  && CheckWitnessDeltas(o.cuts, o.adds)
  && Require(Members(o.cuts) \subseteq prior, "CutNotPriorWitness")
  && Require(Members(o.adds) \cap prior = {}, "AddAlreadyWitness")
  && CheckToad(o.toad, WitnessesLeft(prior, o))

-----------------------------------------------------------------------------
Built(kind, pre, sn, said, prior) ==
  [kind |-> kind, pre |-> pre, sn |-> sn, said |-> said, prior |-> prior,
   keys |-> <<>>, kt |-> Simple(0), next |-> <<>>, nt |-> Simple(0), wits |-> <<>>,
   cuts |-> <<>>, toad |-> 0, conf |-> {}, di |-> None, seals |-> <<>>]

Establishing(e, keys, next, o, count) ==
  [e EXCEPT !.keys = keys, !.kt = Threshold(o.kt, keys),
            !.next = next, !.nt = NextThreshold(o.nt, next),
            !.wits = o.adds, !.toad = WitnessThreshold(o.toad, count)]

BuildInception(said, keys, next, o) ==
  Establishing(Built("icp", said, 0, said, None), keys, next, o, Len(o.adds))

(* A mutant: the default is ample for the witnesses before the cut.        *)
BuildRotationPrior(s, said, keys, next, o) ==
  [Establishing(Built("rot", s.pre, s.sn + 1, said, s.said), keys, next, o, Cardinality(s.wits))
     EXCEPT !.cuts = o.cuts]

BuildRotation(s, said, keys, next, o) ==
  [Establishing(Built("rot", s.pre, s.sn + 1, said, s.said), keys, next, o,
                WitnessesLeft(s.wits, o))
     EXCEPT !.cuts = o.cuts]

BuildInteraction(s, said) == Built("ixn", s.pre, s.sn + 1, said, s.said)
=============================================================================
