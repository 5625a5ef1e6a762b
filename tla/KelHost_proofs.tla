--------------------------- MODULE KelHost_proofs ---------------------------
(***************************************************************************)
(* Proofs about KelHost, for every set of keys, thresholds, messages and   *)
(* evidence: the stream stays a hash chain, the two folds agree, what is   *)
(* accepted passes the fold again and shows an auditor its quorums and its *)
(* delegator's seal, accepted establishments of a nondelegated log are     *)
(* final, a closed log stays closed, and the host implements AbstractKel.  *)
(* Two inductive invariants carry them: IInv (how stream and states hang   *)
(* together) and Backed (what each event was accepted on).                 *)
(***************************************************************************)
EXTENDS KelHost, TLAPS, SequenceTheorems, FiniteSetTheorems, WellFoundedInduction

-----------------------------------------------------------------------------
(* What the proofs below need of KeyState.                                 *)

(* A rule followed by others passes only if both pass.                     *)
LEMMA BothPass ==
  ASSUME NEW a, NEW b, (a && b) = "Ok"
  PROVE  a = "Ok" /\ b = "Ok"
BY DEF &&

(* The members of a witness list of an event are keys.                     *)
LEMMA MembersAreKeys ==
  ASSUME NEW list \in Seq(Keys)
  PROVE  Members(list) \subseteq Keys
BY DEF Members

(* updated_members of a set of keys by cuts and adds that are keys is a    *)
(* set of keys.                                                            *)
LEMMA UpdatedMembersAreKeys ==
  ASSUME NEW current \in SUBSET Keys, NEW cuts \in Seq(Keys), NEW adds \in Seq(Keys)
  PROVE  UpdatedMembers(current, cuts, adds) \in SUBSET Keys
BY MembersAreKeys DEF UpdatedMembers

(* A list has finitely many members.                                       *)
LEMMA MembersFinite ==
  ASSUME NEW S, NEW list \in Seq(S)
  PROVE  IsFiniteSet(Members(list)) /\ Members(list) \subseteq S
<1>1. IsFiniteSet(DOMAIN list)
  <2>1. DOMAIN list = 1..Len(list) /\ Len(list) \in Nat
    OBVIOUS
  <2>2. QED
    BY <2>1, FS_Interval
<1> DEFINE f == [i \in DOMAIN list |-> list[i]]
<1>2. f \in Surjection(DOMAIN list, Members(list))
  BY DEF Members, Surjection
<1>3. IsFiniteSet(Members(list))
  <2> HIDE DEF f
  <2>1. QED
    BY <1>1, <1>2, FS_Surjection
<1>4. Members(list) \subseteq S
  BY DEF Members
<1>5. QED
  BY <1>3, <1>4

(* A stream cut after n and extended by m.                                 *)
LEMMA CutAndAppend ==
  ASSUME NEW S, NEW list \in Seq(S), NEW n \in 0..Len(list), NEW x \in S
  PROVE  LET cut == Append(SubSeq(list, 1, n), x)
         IN  /\ cut \in Seq(S)
             /\ Len(cut) = n + 1
             /\ \A i \in 1..n : cut[i] = list[i]
             /\ cut[n + 1] = x
<1>1. /\ SubSeq(list, 1, n) \in Seq(S)
      /\ Len(SubSeq(list, 1, n)) = n
      /\ \A i \in 1..n : SubSeq(list, 1, n)[i] = list[i]
  BY SubSeqProperties
<1> QED
  BY <1>1, AppendProperties

(* A stream extended by x keeps what it had and ends with x.               *)
LEMMA WholeAndAppend ==
  ASSUME NEW S, NEW list \in Seq(S), NEW x \in S
  PROVE  /\ Append(list, x) \in Seq(S)
         /\ Len(Append(list, x)) = Len(list) + 1
         /\ \A i \in 1..Len(list) : Append(list, x)[i] = list[i]
         /\ Append(list, x)[Len(list) + 1] = x
BY AppendProperties

(* A genesis seeds the same state in both folds, and a well-typed one.     *)
LEMMA SeedAgrees ==
  ASSUME NEW e \in Event, e.kind \in {"icp", "dip"}, e.sn = 0
  PROVE  /\ SeedState(e) = Advance(None, e)
         /\ SeedState(e) \in State
         /\ SeedState(e).pre = e.pre /\ SeedState(e).sn = 0 /\ SeedState(e).said = e.said
         /\ SeedState(e).estSn = 0 /\ SeedState(e).estSaid = e.said
         /\ SeedState(e).delegator = None <=> e.kind = "icp"
<1>1. Members(e.wits) \in SUBSET Keys
  BY MembersAreKeys DEF Event, Shape
<1>2. SeedState(e) \in State
  BY <1>1, KeyStateAssumption DEF SeedState, State, Event, Shape, IsTransferable
<1>3. SeedState(e).delegator = None <=> e.kind = "icp"
  BY DEF SeedState, Event
<1>4. SeedState(e) = Advance(None, e)
  <2>1. CASE e.kind = "icp"
    <3>1. Advance(None, e) = Genesis(e)
      BY <2>1 DEF Advance, Rotations
    <3> QED
      BY <2>1, <3>1 DEF SeedState, Genesis
  <2>2. CASE e.kind = "dip"
    <3>1. Advance(None, e) = [Genesis(e) EXCEPT !.kind = "dip", !.delegator = e.di]
      BY <2>2 DEF Advance, Rotations
    <3> QED
      BY <2>2, <3>1 DEF SeedState, Genesis
  <2> QED
    BY <2>1, <2>2
<1> QED
  BY <1>2, <1>3, <1>4 DEF SeedState

(* A step leads the two folds to the same state, and a well-typed one.     *)
LEMMA StepAgrees ==
  ASSUME NEW s \in State, NEW e \in Event, e.kind \in {"rot", "drt", "ixn"}
  PROVE  /\ Apply(s, e) = Advance(s, e)
         /\ Advance(s, e) \in State
         /\ Advance(s, e).pre = s.pre /\ Advance(s, e).sn = e.sn /\ Advance(s, e).said = e.said
         /\ Advance(s, e).delegator = s.delegator
         /\ e.kind = "ixn" => Advance(s, e).estSn = s.estSn
         /\ e.kind # "ixn" => Advance(s, e).estSn = e.sn
<1>1. UpdatedMembers(s.wits, e.cuts, e.wits) \in SUBSET Keys
  BY UpdatedMembersAreKeys DEF State, Event, Shape
<1>2. s.transferable \in BOOLEAN
  BY DEF State
<1>3. CASE e.kind = "ixn"
  BY <1>3 DEF Apply, Advance, ApplyInteraction, Stepped, Rotations, State, Event, Shape, Kinds
<1>4. CASE e.kind \in Rotations
  <2>1. Advance(s, e) = Rolled(s, e) /\ Apply(s, e) = ApplyRotation(s, e)
    BY <1>4 DEF Advance, Apply, Rotations
  <2>2. ApplyRotation(s, e) = Rolled(s, e)
    BY <1>2 DEF ApplyRotation, Rolled, State
  <2>3. Rolled(s, e) \in State
    BY <1>1, <1>2, <1>4 DEF Rolled, State, Event, Shape, Kinds, Rotations
  <2> QED
    BY <2>1, <2>2, <2>3, <1>4 DEF Rolled, Rotations, State
<1> QED
  BY <1>3, <1>4 DEF Rotations

-----------------------------------------------------------------------------
(* Verdicts.                                                               *)

(* What check_chains_onto establishes.                                     *)
LEMMA ChainsOnto ==
  ASSUME NEW s \in State, NEW e \in Event, ChecksChainsOnto(s, e) = "Ok"
  PROVE  e.pre = s.pre /\ e.sn = s.sn + 1 /\ e.prior = s.said
<1>1. /\ Require(e.pre = s.pre, "IdentifierMismatch") = "Ok"
      /\ Require(e.sn <= s.sn + 1, "OutOfOrderFuture") = "Ok"
      /\ Require(e.sn >= s.sn + 1, "OutOfOrderStale") = "Ok"
      /\ Require(e.prior = s.said, "PriorDigestMismatch") = "Ok"
  BY BothPass DEF ChecksChainsOnto
<1>2. e.pre = s.pre /\ e.sn <= s.sn + 1 /\ e.sn >= s.sn + 1 /\ e.prior = s.said
  BY <1>1 DEF Require
<1>3. e.sn \in Nat /\ s.sn \in Nat
  BY DEF Event, Shape, State
<1> QED
  BY <1>2, <1>3

(* What a step of the fold that passes establishes: an event of a kind the *)
(* log admits, chained onto a state that is still open.                    *)
Follows(s, e) ==
  /\ s.transferable
  /\ e.pre = s.pre /\ e.sn = s.sn + 1 /\ e.prior = s.said
  /\ e.kind \in (IF s.delegator = None THEN {"rot", "ixn"} ELSE {"drt", "ixn"})

(* What a rotation that validate_rotation passes establishes: it chains onto *)
(* a state that is still open.                                             *)
LEMMA RotationFollows ==
  ASSUME NEW s \in State, NEW m \in Message, ValidateRotation(s, m) = "Ok"
  PROVE  m.event.pre = s.pre /\ m.event.sn = s.sn + 1 /\ m.event.prior = s.said
<1>1. ChecksChainsOnto(s, m.event) = "Ok"
  BY BothPass DEF ValidateRotation
<1> QED
  BY <1>1, ChainsOnto DEF Message

(* The same of an interaction, whatever its establishment-only state.      *)
LEMMA InteractionFollows ==
  ASSUME NEW s \in State, NEW m \in Message, ValidateInteraction(s, m) = "Ok"
  PROVE  m.event.pre = s.pre /\ m.event.sn = s.sn + 1 /\ m.event.prior = s.said
<1>1. ChecksChainsOnto(s, m.event) = "Ok"
  BY BothPass DEF ValidateInteraction
<1> QED
  BY <1>1, ChainsOnto DEF Message

(* What KeyState::ingest_mut accepts follows from the state it is put to.  *)
LEMMA IngestFollows ==
  ASSUME NEW s \in State, NEW m \in Message, Ingest(s, m) = "Ok"
  PROVE  Follows(s, m.event)
<1> DEFINE kind == m.event.kind
<1> DEFINE body ==
      CASE kind = "drt" -> IF s.delegator # None THEN "EvidenceRequired" ELSE "DelegatorUnknown"
        [] kind = "dip" -> "EvidenceRequired"
        [] kind = "icp" -> "DuplicateInception"
        [] kind = "rot" -> IF s.delegator # None THEN "PlainRotationOnDelegatedState"
                           ELSE ValidateRotation(s, m)
        [] kind = "ixn" -> ValidateInteraction(s, m)
<1>1. Require(s.transferable, "NonTransferableState") = "Ok" /\ body = "Ok"
  <2>1. (Require(s.transferable, "NonTransferableState") && body) = "Ok"
    BY DEF Ingest
  <2> HIDE DEF body
  <2> QED
    BY <2>1, BothPass
<1>2. s.transferable
  BY <1>1 DEF Require
<1>3. kind \in Kinds
  BY DEF Message, Event, Shape
<1>4. CASE kind = "rot"
  <2>1. s.delegator = None /\ ValidateRotation(s, m) = "Ok"
    BY <1>1, <1>4
  <2> QED
    BY <2>1, <1>2, <1>4, RotationFollows DEF Follows
<1>5. CASE kind = "ixn"
  <2>1. ValidateInteraction(s, m) = "Ok"
    BY <1>1, <1>5
  <2> QED
    BY <2>1, <1>2, <1>5, InteractionFollows DEF Follows
<1>6. CASE kind \in {"drt", "dip", "icp"}
  BY <1>1, <1>6
<1> QED
  BY <1>3, <1>4, <1>5, <1>6 DEF Kinds

(* What KeyState::ingest_delegated_mut accepts follows likewise.           *)
LEMMA IngestDelegatedFollows ==
  ASSUME NEW s \in State, NEW m \in Message, NEW ev, IngestDelegated(s, m, ev) = "Ok"
  PROVE  Follows(s, m.event)
<1>1. /\ Require(s.transferable, "NonTransferableState") = "Ok"
      /\ Require(m.event.kind = "drt", "NotDelegatedRotation") = "Ok"
      /\ Require(s.delegator # None, "DelegatorUnknown") = "Ok"
      /\ ValidateRotation(s, m) = "Ok"
  BY BothPass DEF IngestDelegated
<1>2. s.transferable /\ m.event.kind = "drt" /\ s.delegator # None
  BY <1>1 DEF Require
<1> QED
  BY <1>1, <1>2, RotationFollows DEF Follows

(* Whichever of the two entries the host uses, what is accepted follows.   *)
LEMMA StepFollows ==
  ASSUME NEW s \in State, NEW m \in Message, NEW ev, IngestWith(s, m, ev) = "Ok"
  PROVE  Follows(s, m.event)
BY IngestFollows, IngestDelegatedFollows DEF IngestWith

(* What a genesis that passes establishes.                                 *)
LEMMA GenesisPasses ==
  ASSUME NEW m \in Message, NEW ev, InceptWith(m, ev) = "Ok"
  PROVE  m.event.kind \in {"icp", "dip"} /\ m.event.sn = 0
<1>1. ASSUME ValidateInception(m) = "Ok"
      PROVE  m.event.sn = 0
  <2>1. Require(m.event.sn = 0, "NonZeroGenesisSn") = "Ok"
    BY <1>1, BothPass DEF ValidateInception
  <2> QED
    BY <2>1 DEF Require
<1>2. CASE WithEvidence(m, ev)
  <2>1. InceptDelegated(m, ev) = "Ok"
    BY <1>2 DEF InceptWith
  <2>2. Require(m.event.kind = "dip", "NotDelegatedInception") = "Ok" /\ ValidateInception(m) = "Ok"
    BY <2>1, BothPass DEF InceptDelegated
  <2> QED
    BY <2>2, <1>1 DEF Require
<1>3. CASE ~WithEvidence(m, ev)
  <2>1. Incept(m) = "Ok"
    BY <1>3 DEF InceptWith
  <2>2. m.event.kind = "icp" /\ ValidateInception(m) = "Ok"
    BY <2>1 DEF Incept
  <2> QED
    BY <2>2, <1>1
<1> QED
  BY <1>2, <1>3

-----------------------------------------------------------------------------
(* The judge.                                                              *)

(* A recovery may contest nothing at or below the last establishment of a  *)
(* plain log, and in a delegated log at most a delegated rotation there.   *)
LEMMA SupersedesBounds ==
  ASSUME NEW s \in State, NEW incoming \in Event, NEW recorded \in Event, NEW chain,
         JudgeSameSn(s, incoming, recorded, chain) = "Supersedes"
  PROVE  /\ incoming.sn <= s.sn
         /\ \/ incoming.kind = "rot" /\ s.estSn < incoming.sn /\ s.delegator = None
            \/ /\ incoming.kind = "drt" /\ s.estSn <= incoming.sn /\ s.delegator # None
               /\ recorded.kind \in {"ixn", "drt"}
<1>1. /\ CheckEvidence(s, incoming, recorded) = "Ok"
      /\ RecoveryVerdict(s, incoming, recorded, chain) = "Supersedes"
  <2>1. CheckEvidence(s, incoming, recorded) # "Supersedes"
    BY DEF CheckEvidence, CheckRecordedHistory, Require, &&
  <2> QED
    BY <2>1 DEF JudgeSameSn, &&
<1>2. /\ Require(incoming.sn <= s.sn, "IncomingNotStale") = "Ok"
      /\ Require(/\ incoming.kind = "rot" => s.delegator = None
                 /\ incoming.kind = "drt" => s.delegator # None,
                 "IncompatibleEventKind") = "Ok"
  BY <1>1 DEF CheckEvidence, &&
<1>3. /\ incoming.sn <= s.sn
      /\ incoming.kind = "rot" => s.delegator = None
      /\ incoming.kind = "drt" => s.delegator # None
  BY <1>2 DEF Require
<1>4. SaidVerdict(incoming, recorded) # "Supersedes"
  BY DEF SaidVerdict
<1>5. \/ incoming.kind = "rot" /\ s.estSn < incoming.sn
      \/ /\ incoming.kind = "drt" /\ s.estSn <= incoming.sn
         /\ recorded.kind \in {"ixn", "drt"}
  BY <1>1, <1>4 DEF RecoveryVerdict
<1> QED
  BY <1>3, <1>5

(* An interaction replaces nothing.                                        *)
LEMMA OnlyRotationsSupersede ==
  ASSUME NEW s, NEW incoming, NEW recorded, NEW chain, incoming.kind = "ixn"
  PROVE  JudgeSameSn(s, incoming, recorded, chain) # "Supersedes"
<1>1. CheckEvidence(s, incoming, recorded) # "Supersedes"
  BY DEF CheckEvidence, CheckRecordedHistory, Require, &&
<1>2. RecoveryVerdict(s, incoming, recorded, chain) # "Supersedes"
  BY DEF RecoveryVerdict, SaidVerdict
<1> QED
  BY <1>1, <1>2 DEF JudgeSameSn, &&

-----------------------------------------------------------------------------
(* The inductive invariant. Position i of a stream k and its replay h: the *)
(* event chains to its predecessor, is of a kind that log admits, and the  *)
(* replayed state points at it and at the last establishment, after which  *)
(* there are interactions only. The last part is what keeps a recovery     *)
(* from losing an establishment: the judge compares with estSn alone.      *)

Linked(k, i) ==
  /\ k[i].event.sn = i - 1
  /\ k[i].event.pre = k[1].event.pre
  /\ i = 1 => k[i].event.kind \in {"icp", "dip"}
  /\ i > 1 =>
       /\ k[i].event.kind \in (IF k[1].event.kind = "dip" THEN {"drt", "ixn"} ELSE {"rot", "ixn"})
       /\ k[i].event.prior = k[i - 1].event.said

Carried(k, h, i) ==
  /\ h[i].pre = k[1].event.pre
  /\ h[i].sn = i - 1
  /\ h[i].said = k[i].event.said
  /\ h[i].delegator = None <=> k[1].event.kind = "icp"
  /\ h[i].estSn \in 0..(i - 1)

QuietSince(k, est, i) == \A n \in (est + 2)..i : k[n].event.kind = "ixn"

Tracks(k, h, i) == Linked(k, i) /\ Carried(k, h, i) /\ QuietSince(k, h[i].estSn, i)

Tracked(k, h) ==
  /\ Len(h) = Len(k)
  /\ \A i \in 1..Len(k) : Tracks(k, h, i)

IInv ==
  /\ TypeOK
  /\ \A p \in escrow : p.event \in Heard
  /\ \A i \in 1..Len(kel) : EventAt(i) \in Heard
  /\ Tracked(kel, snapshots)
  /\ head = IF kel = <<>> THEN None ELSE snapshots[Len(kel)]

(* A stream that is tracked stays so when it is cut after any position and *)
(* extended by an event that follows from the state replayed there.        *)
LEMMA GrowthIsTracked ==
  ASSUME NEW k \in Seq(Message), NEW h \in Seq(State), Tracked(k, h),
         NEW n \in 1..Len(k), NEW m \in Message, Follows(h[n], m.event),
         NEW k2 \in Seq(Message), NEW h2 \in Seq(State),
         Len(k2) = n + 1, \A i \in 1..n : k2[i] = k[i], k2[n + 1] = m,
         Len(h2) = n + 1, \A i \in 1..n : h2[i] = h[i],
         h2[n + 1] = Advance(h[n], m.event)
  PROVE  Tracked(k2, h2)
<1>1. /\ h[n] \in State
      /\ m.event \in Event
      /\ m.event.kind \in {"rot", "drt", "ixn"}
      /\ Len(h) = Len(k)
      /\ Tracks(k, h, n) /\ Tracks(k, h, 1)
  BY DEF Message, Tracked, Follows
<1> DEFINE s2 == Advance(h[n], m.event)
<1>2. /\ s2.pre = h[n].pre /\ s2.sn = m.event.sn /\ s2.said = m.event.said
      /\ s2.delegator = h[n].delegator
      /\ m.event.kind = "ixn" => s2.estSn = h[n].estSn
      /\ m.event.kind # "ixn" => s2.estSn = m.event.sn
  BY <1>1, StepAgrees
<1>3. ASSUME NEW i \in 1..n
      PROVE  Tracks(k2, h2, i)
  <2>1. Linked(k, i) /\ Carried(k, h, i) /\ QuietSince(k, h[i].estSn, i)
    BY DEF Tracked, Tracks
  <2>2. k2[i] = k[i] /\ k2[1] = k[1] /\ h2[i] = h[i] /\ (i > 1 => k2[i - 1] = k[i - 1])
    OBVIOUS
  <2>3. Linked(k2, i)
    BY <2>1, <2>2 DEF Linked
  <2>4. Carried(k2, h2, i)
    BY <2>1, <2>2 DEF Carried
  <2>5. QuietSince(k2, h2[i].estSn, i)
    <3>1. \A q \in (h[i].estSn + 2)..i : q \in 1..n
      BY <2>1 DEF Carried
    <3> QED
      BY <2>1, <2>2, <3>1 DEF QuietSince
  <2> QED
    BY <2>3, <2>4, <2>5 DEF Tracks
<1>4. Tracks(k2, h2, n + 1)
  <2> HIDE DEF s2
  <2>1. k2[1] = k[1] /\ k2[n] = k[n] /\ k2[n + 1] = m /\ h2[n + 1] = s2
    BY DEF s2
  <2>2. /\ m.event.sn = n /\ m.event.pre = k[1].event.pre
        /\ m.event.prior = k[n].event.said
    BY <1>1 DEF Follows, Tracks, Linked, Carried, QuietSince
  <2>3. m.event.kind \in (IF k[1].event.kind = "dip" THEN {"drt", "ixn"} ELSE {"rot", "ixn"})
    BY <1>1 DEF Follows, Tracks, Linked, Carried, QuietSince
  <2>4. \A q \in (s2.estSn + 2)..(n + 1) : k2[q].event.kind = "ixn"
    <3>1. CASE m.event.kind = "ixn"
      <4>1. s2.estSn = h[n].estSn /\ h[n].estSn \in 0..(n - 1)
        BY <1>1, <1>2, <3>1 DEF Tracks, Linked, Carried, QuietSince
      <4>2. \A q \in (h[n].estSn + 2)..n : k[q].event.kind = "ixn"
        BY <1>1 DEF Tracks, Linked, Carried, QuietSince
      <4>3. ASSUME NEW q \in (s2.estSn + 2)..(n + 1)
            PROVE  k2[q].event.kind = "ixn"
        <5>1. CASE q = n + 1
          BY <5>1, <3>1, <2>1
        <5>2. CASE q # n + 1
          <6>1. q \in (h[n].estSn + 2)..n /\ q \in 1..n
            BY <5>2, <4>1
          <6> QED
            BY <6>1, <4>2
        <5> QED
          BY <5>1, <5>2
      <4> QED
        BY <4>3
    <3>2. CASE m.event.kind # "ixn"
      BY <1>2, <2>2, <3>2
    <3> QED
      BY <3>1, <3>2
  <2>5. s2.estSn \in 0..n
    BY <1>1, <1>2, <2>2 DEF Tracks, Linked, Carried, QuietSince
  <2>6. s2.pre = k[1].event.pre /\ s2.sn = n /\ s2.said = m.event.said
        /\ (s2.delegator = None <=> k[1].event.kind = "icp")
    BY <1>1, <1>2, <2>2 DEF Tracks, Linked, Carried, QuietSince
  <2>7. Linked(k2, n + 1)
    BY <2>1, <2>2, <2>3 DEF Linked
  <2>8. Carried(k2, h2, n + 1)
    BY <2>1, <2>5, <2>6 DEF Carried
  <2>9. QuietSince(k2, h2[n + 1].estSn, n + 1)
    BY <2>1, <2>4 DEF QuietSince
  <2> QED
    BY <2>7, <2>8, <2>9 DEF Tracks
<1> QED
  BY <1>3, <1>4 DEF Tracked

-----------------------------------------------------------------------------
(* Every step keeps the invariant.                                         *)

(* Evidence merged for an event leaves the event alone.                    *)
LEMMA MergedIsMessage ==
  ASSUME TypeOK, NEW m \in Message
  PROVE  Merged(m) \in Message /\ Merged(m).event = m.event
<1>1. /\ m.sigs \cup UNION {p.sigs : p \in SameEvent(m)} \in SUBSET Siger
      /\ m.wigs \cup UNION {p.wigs : p \in SameEvent(m)} \in SUBSET Keys
  BY DEF TypeOK, SameEvent, Message
<1> QED
  BY <1>1 DEF Merged, Message

(* What was heard is made of events.                                       *)
LEMMA EventsAreEvents ==
  ASSUME TypeOK
  PROVE  \A i \in 1..Len(kel) : kel[i] \in Message /\ EventAt(i) \in Event
<1>1. \A i \in 1..Len(kel) : kel[i] \in Message
  BY DEF TypeOK
<1> QED
  BY <1>1 DEF EventAt, Message

(* What a recovery replaces: never an establishment of a plain log.        *)
LEMMA RecoverBounds ==
  ASSUME IInv, NEW m \in Message, Recover(m)
  PROVE  /\ m.event.sn \in 1..(Len(kel) - 1)
         /\ Follows(snapshots[m.event.sn], m.event)
         /\ m.event.kind \in {"rot", "drt"}
         /\ \/ EventAt(m.event.sn + 1).kind = "ixn"
            \/ EventAt(m.event.sn + 1).kind = "drt" /\ m.event.kind = "drt"
         /\ \A i \in (m.event.sn + 2)..Len(kel) : EventAt(i).kind = "ixn"
<1> DEFINE n == m.event.sn
<1> DEFINE recorded == EventAt(n + 1)
<1>0. PICK chain \in Chains : Judgment(m, chain) = "Supersedes"
  BY DEF Recover, Judgments
<1>1. n + 1 \in 1..Len(kel) /\ n \in Nat
  <2>2. n + 1 \in DOMAIN kel
    BY <1>0 DEF Judgment, Recorded
  <2>3. kel \in Seq(Message) /\ m.event.sn \in Nat
    BY DEF IInv, TypeOK, Message, Event, Shape
  <2> QED
    BY <2>2, <2>3
<1>2. /\ kel # <<>> /\ kel \in Seq(Message) /\ snapshots \in Seq(State)
      /\ Len(snapshots) = Len(kel)
      /\ head = snapshots[Len(kel)] /\ head \in State
      /\ Tracks(kel, snapshots, Len(kel))
  BY <1>1 DEF IInv, TypeOK, Tracked
<1>3. m.event \in Event /\ recorded \in Event
  BY <1>1, EventsAreEvents DEF IInv, Message
<1>4. /\ n <= head.sn
      /\ \/ m.event.kind = "rot" /\ head.estSn < n /\ head.delegator = None
         \/ /\ m.event.kind = "drt" /\ head.estSn <= n /\ head.delegator # None
            /\ recorded.kind \in {"ixn", "drt"}
  <2>1. JudgeSameSn(head, m.event, recorded, chain) = "Supersedes"
    BY <1>0 DEF Judgment, EventAt
  <2> HIDE DEF n, recorded
  <2>2. m.event.sn = n
    BY DEF n
  <2> QED
    BY <2>1, <2>2, <1>2, <1>3, SupersedesBounds
<1>5. /\ head.sn = Len(kel) - 1 /\ head.estSn \in 0..(Len(kel) - 1)
      /\ \A q \in (head.estSn + 2)..Len(kel) : EventAt(q).kind = "ixn"
  BY <1>2 DEF Tracks, Linked, Carried, QuietSince, EventAt
<1>6. Tracks(kel, snapshots, 1)
  BY <1>1 DEF IInv, Tracked
<1>7. n # 0
  <2>1. EventAt(1).kind \in {"icp", "dip"}
    BY <1>6 DEF Tracks, Linked, Carried, QuietSince, EventAt
  <2> QED
    BY <1>1, <1>4, <1>5, <2>1
<1>8. n \in 1..(Len(kel) - 1)
  BY <1>1, <1>2, <1>7
<1>9. \A i \in (n + 2)..Len(kel) : EventAt(i).kind = "ixn"
  BY <1>1, <1>4, <1>5
<1>10. recorded.kind = "ixn" \/ (recorded.kind = "drt" /\ m.event.kind = "drt")
  <2>1. CASE m.event.kind = "rot" /\ head.estSn < n
    BY <2>1, <1>1, <1>5
  <2> QED
    BY <1>4, <2>1
<1>11. Follows(snapshots[n], m.event)
  <2>1. PICK ev \in Evidence : IngestWith(snapshots[n], m, ev) = "Ok"
    BY DEF Recover, Reingests, Rewound
  <2>2. snapshots[n] \in State
    BY <1>2, <1>8
  <2> QED
    BY <2>1, <2>2, StepFollows
<1> QED
  BY <1>4, <1>8, <1>9, <1>10, <1>11

(* An event put on the empty log founds it.                                *)
LEMMA AdmitGenesis ==
  ASSUME IInv, NEW m \in Message, m.event \in Heard, kel = <<>>, Admit(m)
  PROVE  /\ kel' = <<m>>
         /\ m.event.kind \in {"icp", "dip"} /\ m.event.sn = 0
         /\ kel' \in Seq(Message) /\ snapshots' \in Seq(State)
         /\ Tracked(kel', snapshots')
         /\ head' = snapshots'[1] /\ head' \in State
         /\ snapshots' = <<SeedState(m.event)>>
         /\ \E ev \in Evidence : InceptWith(m, ev) = "Ok"
<1>1. PICK ev \in Evidence : InceptWith(m, ev) = "Ok"
  BY DEF Admit, Verdicts, Verdict
<1>2. m.event.kind \in {"icp", "dip"} /\ m.event.sn = 0 /\ m.event \in Event
  BY <1>1, GenesisPasses DEF Message
<1>3. snapshots = <<>>
  BY DEF IInv, TypeOK, Tracked
<1>4. kel' = <<m>> /\ snapshots' = <<Advance(None, m.event)>> /\ head' = SeedState(m.event)
  BY <1>3 DEF Admit
<1> DEFINE s == SeedState(m.event)
<1>5. /\ s = Advance(None, m.event) /\ s \in State
      /\ s.pre = m.event.pre /\ s.sn = 0 /\ s.said = m.event.said /\ s.estSn = 0
      /\ s.delegator = None <=> m.event.kind = "icp"
  BY <1>2, SeedAgrees
<1> HIDE DEF s
<1>6. kel' = <<m>> /\ snapshots' = <<s>> /\ head' = s
  BY <1>4, <1>5 DEF s
<1>7. Tracks(kel', snapshots', 1)
  BY <1>2, <1>5, <1>6 DEF Tracks, Linked, Carried, QuietSince
<1> QED
  BY <1>1, <1>2, <1>5, <1>6, <1>7 DEF Tracked, s

(* An event admitted onto a log that has begun leaves it tracked, one entry *)
(* longer.                                                                 *)
LEMMA AdmitStep ==
  ASSUME IInv, NEW m \in Message, kel # <<>>, Admit(m)
  PROVE  /\ Follows(head, m.event)
         /\ kel' \in Seq(Message) /\ snapshots' \in Seq(State)
         /\ Len(kel') = Len(kel) + 1
         /\ \A i \in 1..Len(kel) : kel'[i] = kel[i]
         /\ kel'[Len(kel) + 1] = m
         /\ Tracked(kel', snapshots')
         /\ head' = snapshots'[Len(kel')] /\ head' \in State
         /\ Len(snapshots') = Len(kel) + 1
         /\ \A i \in 1..Len(kel) : snapshots'[i] = snapshots[i]
         /\ snapshots'[Len(kel) + 1] = Advance(snapshots[Len(kel)], m.event)
         /\ \E ev \in Evidence : IngestWith(snapshots[Len(kel)], m, ev) = "Ok"
<1> DEFINE n == Len(kel)
<1>1. /\ n \in Nat /\ n >= 1 /\ n = Len(kel) /\ n \in 1..n
      /\ kel \in Seq(Message) /\ snapshots \in Seq(State) /\ Len(snapshots) = n
      /\ head = snapshots[n] /\ head \in State
      /\ Tracked(kel, snapshots)
  BY DEF IInv, TypeOK, Tracked
<1> HIDE DEF n
<1>2. PICK shown \in Evidence : IngestWith(head, m, shown) = "Ok"
  BY DEF Admit, Verdicts, Verdict
<1>3. Follows(head, m.event)
  BY <1>1, <1>2, StepFollows
<1> DEFINE s2 == Advance(snapshots[n], m.event)
<1>4. s2 \in State /\ Apply(head, m.event) = s2
  <2>1. m.event \in Event /\ m.event.kind \in {"rot", "drt", "ixn"}
    BY <1>3 DEF Follows, Message
  <2> QED
    BY <1>1, <2>1, StepAgrees
<1>5. kel' = Append(kel, m) /\ snapshots' = Append(snapshots, s2) /\ head' = s2
  BY <1>1, <1>4 DEF Admit
<1>6. /\ kel' \in Seq(Message) /\ Len(kel') = n + 1
      /\ \A i \in 1..n : kel'[i] = kel[i]
      /\ kel'[n + 1] = m
  BY <1>1, <1>5, WholeAndAppend
<1>7. /\ snapshots' \in Seq(State) /\ Len(snapshots') = n + 1
      /\ \A i \in 1..n : snapshots'[i] = snapshots[i]
      /\ snapshots'[n + 1] = s2
  <2> HIDE DEF s2
  <2> QED
    BY <1>1, <1>4, <1>5, WholeAndAppend
<1>8. Tracked(kel', snapshots')
  <2>1. n \in 1..Len(kel) /\ Follows(snapshots[n], m.event)
    BY <1>1, <1>3
  <2>2. /\ kel \in Seq(Message) /\ snapshots \in Seq(State) /\ Tracked(kel, snapshots)
        /\ snapshots'[n + 1] = Advance(snapshots[n], m.event)
    BY <1>1, <1>7
  <2> HIDE DEF n, s2
  <2> QED
    BY <1>6, <1>7, <2>1, <2>2, GrowthIsTracked, SMTT(90)
<1>9. \E ev \in Evidence : IngestWith(snapshots[n], m, ev) = "Ok"
  BY <1>1, <1>2
<1> QED
  BY <1>3, <1>4, <1>5, <1>6, <1>7, <1>8, <1>9 DEF n

(* A recovery leaves the log tracked, cut before the contested position and *)
(* extended by the superseding event.                                      *)
LEMMA RecoverStep ==
  ASSUME IInv, NEW m \in Message, Recover(m)
  PROVE  /\ kel' \in Seq(Message) /\ snapshots' \in Seq(State)
         /\ Len(kel') = m.event.sn + 1
         /\ \A i \in 1..m.event.sn : kel'[i] = kel[i]
         /\ kel'[m.event.sn + 1] = m
         /\ Tracked(kel', snapshots')
         /\ head' = snapshots'[Len(kel')] /\ head' \in State
         /\ Len(snapshots') = m.event.sn + 1
         /\ \A i \in 1..m.event.sn : snapshots'[i] = snapshots[i]
         /\ snapshots'[m.event.sn + 1] = Advance(snapshots[m.event.sn], m.event)
         /\ \E ev \in Evidence : IngestWith(snapshots[m.event.sn], m, ev) = "Ok"
<1> DEFINE n == m.event.sn
<1>1. n \in 1..(Len(kel) - 1) /\ Follows(snapshots[n], m.event)
  BY RecoverBounds
<1>2. /\ kel \in Seq(Message) /\ snapshots \in Seq(State) /\ Len(snapshots) = Len(kel)
      /\ Tracked(kel, snapshots) /\ n \in 1..Len(kel) /\ n \in 0..Len(kel)
      /\ snapshots[n] \in State
  BY <1>1 DEF IInv, TypeOK, Tracked
<1> DEFINE s2 == Advance(snapshots[n], m.event)
<1>3. s2 \in State /\ Apply(snapshots[n], m.event) = s2
  <2>1. m.event \in Event /\ m.event.kind \in {"rot", "drt", "ixn"}
    BY <1>1 DEF Follows, Message
  <2> QED
    BY <1>2, <2>1, StepAgrees
<1>4. /\ kel' = Append(SubSeq(kel, 1, n), m)
      /\ snapshots' = Append(SubSeq(snapshots, 1, n), s2)
      /\ head' = s2
  BY <1>3 DEF Recover, Rewound, Before
<1> HIDE DEF n
<1>5. /\ kel' \in Seq(Message) /\ Len(kel') = n + 1
      /\ \A i \in 1..n : kel'[i] = kel[i]
      /\ kel'[n + 1] = m
  BY <1>2, <1>4, CutAndAppend
<1>6. /\ snapshots' \in Seq(State) /\ Len(snapshots') = n + 1
      /\ \A i \in 1..n : snapshots'[i] = snapshots[i]
      /\ snapshots'[n + 1] = s2
  <2> HIDE DEF s2
  <2> QED
    BY <1>2, <1>3, <1>4, CutAndAppend
<1>7. Tracked(kel', snapshots')
  <2>1. n \in 1..Len(kel) /\ Follows(snapshots[n], m.event)
    BY <1>1, <1>2
  <2>2. /\ kel \in Seq(Message) /\ snapshots \in Seq(State) /\ Tracked(kel, snapshots)
        /\ snapshots'[n + 1] = Advance(snapshots[n], m.event)
    BY <1>2, <1>6
  <2> HIDE DEF s2
  <2> QED
    BY <1>5, <1>6, <2>1, <2>2, GrowthIsTracked, SMTT(90)
<1>8. \E ev \in Evidence : IngestWith(snapshots[n], m, ev) = "Ok"
  BY DEF Recover, Reingests, Rewound, n
<1> QED
  BY <1>3, <1>4, <1>5, <1>6, <1>7, <1>8 DEF n

(* The network carries messages of the model's type.                       *)
LEMMA MessagesAreMessages == Messages \subseteq Message
BY KelHostAssumption

(* A host boots in order: from nothing, or from the genesis it stores.     *)
LEMMA InitIInv == Init => IInv
<1> SUFFICES ASSUME Init PROVE IInv
  OBVIOUS
<1>1. unread \subseteq Messages /\ escrow = {}
  BY DEF Init, Messages
<1>2. CASE kel = <<>>
  <2>1. head = None /\ snapshots = <<>>
    BY <1>2 DEF Init
  <2> QED
    BY <1>1, <1>2, <2>1 DEF IInv, TypeOK, Tracked
<1>3. CASE kel # <<>>
  <2>1. /\ kel \in Stored /\ kel = <<kel[1]>> /\ kel[1] \in Message
        /\ \E ev \in Evidence : InceptWith(kel[1], ev) = "Ok"
    BY <1>3, KelHostAssumption DEF Init
  <2>2. PICK m \in Message : kel = <<m>>
    BY <2>1
  <2> DEFINE e == m.event
  <2>3. e \in Event /\ e.kind \in {"icp", "dip"} /\ e.sn = 0
    BY <2>1, <2>2, GenesisPasses DEF Message
  <2>4. e \in Heard
    BY <1>3, <2>1, <2>2 DEF Heard
  <2> DEFINE s == SeedState(e)
  <2>5. /\ s = Advance(None, e) /\ s \in State
        /\ s.pre = e.pre /\ s.sn = 0 /\ s.said = e.said /\ s.estSn = 0
        /\ s.delegator = None <=> e.kind = "icp"
    BY <2>3, SeedAgrees
  <2>6. head = s /\ snapshots = <<s>>
    BY <1>3, <2>2, <2>5 DEF Init
  <2> HIDE DEF s
  <2>7. kel \in Seq(Message) /\ snapshots \in Seq(State)
        /\ Len(kel) = 1 /\ Len(snapshots) = 1
    BY <2>2, <2>5, <2>6
  <2>8. Tracks(kel, snapshots, 1)
    BY <2>2, <2>3, <2>5, <2>6 DEF Tracks, Linked, Carried, QuietSince
  <2>9. TypeOK
    BY <1>1, <2>5, <2>6, <2>7 DEF TypeOK
  <2> QED
    BY <1>1, <1>3, <2>2, <2>4, <2>6, <2>7, <2>8, <2>9 DEF IInv, Tracked, EventAt
<1> QED
  BY <1>2, <1>3

(* A handled message leaves the log in order, whichever end it meets.      *)
LEMMA HandleKeepsLog ==
  ASSUME IInv, NEW m \in Message, m.event \in Heard, Handle(m)
  PROVE  /\ kel' \in Seq(Message) /\ snapshots' \in Seq(State) /\ head' \in State \cup {None}
         /\ \A i \in 1..Len(kel') : kel'[i].event \in Heard
         /\ Tracked(kel', snapshots')
         /\ head' = IF kel' = <<>> THEN None ELSE snapshots'[Len(kel')]
<1>1. CASE KeepLog
  BY <1>1 DEF KeepLog, IInv, TypeOK, EventAt
<1>2. CASE Admit(m) /\ kel = <<>>
  <2>1. kel' = <<m>> /\ head' = snapshots'[1] /\ head' \in State
        /\ kel' \in Seq(Message) /\ snapshots' \in Seq(State) /\ Tracked(kel', snapshots')
    BY <1>2, AdmitGenesis
  <2> QED
    BY <2>1
<1>3. CASE Admit(m) /\ kel # <<>>
  <2>1. /\ kel' \in Seq(Message) /\ snapshots' \in Seq(State)
        /\ Len(kel') = Len(kel) + 1
        /\ \A i \in 1..Len(kel) : kel'[i] = kel[i]
        /\ kel'[Len(kel) + 1] = m
        /\ Tracked(kel', snapshots')
        /\ head' = snapshots'[Len(kel')] /\ head' \in State
    BY <1>3, AdmitStep
  <2>2. \A i \in 1..Len(kel) : kel[i].event \in Heard
    BY DEF IInv, EventAt
  <2>3. kel \in Seq(Message)
    BY DEF IInv, TypeOK
  <2> QED
    BY <2>1, <2>2, <2>3
<1>4. CASE Recover(m)
  <2>1. /\ kel' \in Seq(Message) /\ snapshots' \in Seq(State)
        /\ Len(kel') = m.event.sn + 1
        /\ \A i \in 1..m.event.sn : kel'[i] = kel[i]
        /\ kel'[m.event.sn + 1] = m
        /\ Tracked(kel', snapshots')
        /\ head' = snapshots'[Len(kel')] /\ head' \in State
    BY <1>4, RecoverStep
  <2>2. \A i \in 1..Len(kel) : kel[i].event \in Heard
    BY DEF IInv, EventAt
  <2>3. m.event.sn \in 1..(Len(kel) - 1) /\ kel \in Seq(Message)
    BY <1>4, RecoverBounds DEF IInv, TypeOK
  <2>4. ASSUME NEW i \in 1..Len(kel')
        PROVE  kel'[i].event \in Heard
    <3>1. CASE i = m.event.sn + 1
      BY <2>1, <3>1
    <3>2. CASE i # m.event.sn + 1
      <4>1. i \in 1..m.event.sn /\ i \in 1..Len(kel)
        BY <2>1, <2>3, <3>2
      <4> QED
        BY <2>1, <2>2, <4>1
    <3> QED
      BY <3>1, <3>2
  <2>5. kel' # <<>>
    BY <2>1, <2>3
  <2> QED
    BY <2>1, <2>4, <2>5
<1> QED
  BY <1>1, <1>2, <1>3, <1>4 DEF Handle, Await, Drop, Defer, Uphold

(* A handled message leaves the escrow made of messages whose events were  *)
(* heard.                                                                  *)
LEMMA HandleKeepsEscrow ==
  ASSUME IInv, NEW m \in Message, m.event \in Heard, Handle(m)
  PROVE  escrow' \subseteq Message /\ \A p \in escrow' : p.event \in Heard
<1>1. escrow' \subseteq escrow \cup {m}
  BY DEF Handle, Admit, Await, Drop, Recover, Defer, Uphold, Settle, Park
<1>2. escrow \subseteq Message /\ \A p \in escrow : p.event \in Heard
  BY DEF IInv, TypeOK
<1> QED
  BY <1>1, <1>2

(* Whichever way a message reaches the fold, it is one the network carries *)
(* and its event one that was heard.                                       *)
LEMMA StepHandles ==
  ASSUME IInv, NEW m \in unread \cup escrow, Deliver(m) \/ Redrive(m)
  PROVE  /\ unread' \subseteq Messages
         /\ \E h \in Message : h.event \in Heard /\ Handle(h)
<1>0. unread \subseteq Messages /\ Messages \subseteq Message /\ TypeOK
  BY MessagesAreMessages DEF IInv, TypeOK
<1>1. CASE Deliver(m)
  <2>1. m \in Messages /\ m \in Message /\ unread' \subseteq Messages
    BY <1>0, <1>1 DEF Deliver, Kept
  <2>2. Merged(m) \in Message /\ Merged(m).event = m.event
    BY <1>0, <2>1, MergedIsMessage
  <2>3. m.event \in Heard
    BY <2>1 DEF Heard
  <2>4. Handle(Merged(m))
    BY <1>1 DEF Deliver
  <2> QED
    BY <2>1, <2>2, <2>3, <2>4
<1>2. CASE Redrive(m)
  <2>1. m \in escrow /\ unread' = unread /\ Handle(m)
    BY <1>2 DEF Redrive
  <2>2. m \in Message /\ m.event \in Heard
    BY <2>1 DEF IInv, TypeOK
  <2> QED
    BY <1>0, <2>1, <2>2
<1> QED
  BY <1>1, <1>2

(* Every step keeps the inductive invariant.                               *)
LEMMA NextIInv == IInv /\ [Next]_vars => IInv'
<1> SUFFICES ASSUME IInv, [Next]_vars PROVE IInv'
  OBVIOUS
<1>1. CASE UNCHANGED vars
  BY <1>1 DEF vars, IInv, TypeOK, EventAt, Heard
<1>2. CASE Next
  <2>1. PICK m \in unread \cup escrow : Deliver(m) \/ Redrive(m)
    BY <1>2 DEF Next
  <2>2. PICK h \in Message : h.event \in Heard /\ Handle(h)
    BY <2>1, StepHandles
  <2>3. unread' \subseteq Messages
    BY <2>1, StepHandles
  <2>4. /\ kel' \in Seq(Message) /\ snapshots' \in Seq(State) /\ head' \in State \cup {None}
        /\ \A i \in 1..Len(kel') : kel'[i].event \in Heard
        /\ Tracked(kel', snapshots')
        /\ head' = IF kel' = <<>> THEN None ELSE snapshots'[Len(kel')]
    BY <2>2, HandleKeepsLog
  <2>5. escrow' \subseteq Message /\ \A p \in escrow' : p.event \in Heard
    BY <2>2, HandleKeepsEscrow
  <2> QED
    BY <2>3, <2>4, <2>5 DEF IInv, TypeOK, EventAt
<1> QED
  BY <1>1, <1>2

(* The inductive invariant holds of every behaviour of the host, whatever  *)
(* arrives in whatever order.                                              *)
THEOREM Invariant == Spec => []IInv
BY InitIInv, NextIInv, PTL DEF Spec

-----------------------------------------------------------------------------
(* What passing proves: the rules behind each entry of the fold.           *)

(* A rotation that validate_rotation passes is signed by a quorum of its   *)
(* own keys, opens the commitment of the state before it, and is receipted *)
(* by enough of the witnesses it leaves in force, who are none but those   *)
(* that cannot rotate.                                                     *)
LEMMA RotationProves ==
  ASSUME NEW s, NEW m, ValidateRotation(s, m) = "Ok"
  PROVE  /\ Verify(m.event.keys, m.event.kt, m.sigs) = "Ok"
         /\ OpenedBy(s.next, s.nt, m.event.keys, m.sigs) = "Ok"
         /\ Members(m.event.wits) \subseteq NonTransferable
         /\ ReceiptedBy(UpdatedMembers(s.wits, m.event.cuts, m.event.wits),
                        m.event.toad, m.wigs) = "Ok"
<1>1. /\ VerifyOpening(s, m.event, m.sigs) = "Ok"
      /\ ResolveWitnesses(s, m.event) = "Ok"
      /\ ReceiptedBy(UpdatedMembers(s.wits, m.event.cuts, m.event.wits),
                     m.event.toad, m.wigs) = "Ok"
  BY BothPass DEF ValidateRotation
<1>2. /\ Verify(m.event.keys, m.event.kt, m.sigs) = "Ok"
      /\ OpenedBy(s.next, s.nt, m.event.keys, m.sigs) = "Ok"
  BY <1>1, BothPass DEF VerifyOpening
<1>3. CheckWitnessDeltas(m.event.cuts, m.event.wits) = "Ok"
  BY <1>1, BothPass DEF ResolveWitnesses
<1>4. Members(m.event.wits) \subseteq NonTransferable
  BY <1>3 DEF CheckWitnessDeltas, Require
<1> QED
  BY <1>1, <1>2, <1>4

(* An interaction that validate_interaction passes is signed and receipted *)
(* by quorums of the keys and witnesses of the state before it.            *)
LEMMA InteractionProves ==
  ASSUME NEW s, NEW m, ValidateInteraction(s, m) = "Ok"
  PROVE  /\ Verify(s.keys, s.kt, m.sigs) = "Ok"
         /\ ReceiptedBy(s.wits, s.toad, m.wigs) = "Ok"
BY BothPass DEF ValidateInteraction

(* A genesis that passes is signed by a quorum of its keys, receipted by   *)
(* enough of its witnesses, and where it names a delegator, authorized.    *)
LEMMA GenesisProves ==
  ASSUME NEW m, NEW ev, InceptWith(m, ev) = "Ok"
  PROVE  /\ Verify(m.event.keys, m.event.kt, m.sigs) = "Ok"
         /\ Members(m.event.wits) \subseteq NonTransferable
         /\ ReceiptedBy(Members(m.event.wits), m.event.toad, m.wigs) = "Ok"
         /\ m.event.kind = "dip" =>
              ev.kind # "none" /\ Authorizes(ev, m.event, m.event.di) = "Ok"
<1>1. ASSUME ValidateInception(m) = "Ok"
      PROVE  /\ Verify(m.event.keys, m.event.kt, m.sigs) = "Ok"
             /\ Members(m.event.wits) \subseteq NonTransferable
             /\ ReceiptedBy(Members(m.event.wits), m.event.toad, m.wigs) = "Ok"
  <2>1. /\ CheckWitnesses(m.event.wits) = "Ok"
        /\ Verify(m.event.keys, m.event.kt, m.sigs) = "Ok"
        /\ ReceiptedBy(Members(m.event.wits), m.event.toad, m.wigs) = "Ok"
    BY <1>1, BothPass DEF ValidateInception
  <2> QED
    BY <2>1 DEF CheckWitnesses, Require
<1>2. CASE WithEvidence(m, ev)
  <2>1. InceptDelegated(m, ev) = "Ok"
    BY <1>2 DEF InceptWith
  <2>2. ValidateInception(m) = "Ok" /\ Authorizes(ev, m.event, m.event.di) = "Ok"
    BY <2>1, BothPass DEF InceptDelegated
  <2> QED
    BY <1>1, <1>2, <2>2 DEF WithEvidence
<1>3. CASE ~WithEvidence(m, ev)
  <2>1. Incept(m) = "Ok"
    BY <1>3 DEF InceptWith
  <2>2. m.event.kind = "icp" /\ ValidateInception(m) = "Ok"
    BY <2>1 DEF Incept
  <2> QED
    BY <1>1, <2>2
<1> QED
  BY <1>2, <1>3

(* A step that passes was judged by the rules of its kind, and a delegated *)
(* rotation was authorized by the state's delegator.                       *)
LEMMA StepProves ==
  ASSUME NEW s \in State, NEW m \in Message, NEW ev, IngestWith(s, m, ev) = "Ok"
  PROVE  /\ m.event.kind = "ixn" => ValidateInteraction(s, m) = "Ok"
         /\ m.event.kind \in Rotations => ValidateRotation(s, m) = "Ok"
         /\ m.event.kind = "drt" =>
              ev.kind # "none" /\ Authorizes(ev, m.event, s.delegator) = "Ok"
<1>1. CASE WithEvidence(m, ev)
  <2>1. IngestDelegated(s, m, ev) = "Ok"
    BY <1>1 DEF IngestWith
  <2>2. /\ Require(m.event.kind = "drt", "NotDelegatedRotation") = "Ok"
        /\ ValidateRotation(s, m) = "Ok"
        /\ Authorizes(ev, m.event, s.delegator) = "Ok"
    BY <2>1, BothPass DEF IngestDelegated
  <2>3. m.event.kind = "drt"
    BY <2>2 DEF Require
  <2> QED
    BY <1>1, <2>2, <2>3 DEF WithEvidence
<1>2. CASE ~WithEvidence(m, ev)
  <2> DEFINE kind == m.event.kind
  <2> DEFINE body ==
        CASE kind = "drt" -> IF s.delegator # None THEN "EvidenceRequired" ELSE "DelegatorUnknown"
          [] kind = "dip" -> "EvidenceRequired"
          [] kind = "icp" -> "DuplicateInception"
          [] kind = "rot" -> IF s.delegator # None THEN "PlainRotationOnDelegatedState"
                             ELSE ValidateRotation(s, m)
          [] kind = "ixn" -> ValidateInteraction(s, m)
  <2>1. (Require(s.transferable, "NonTransferableState") && body) = "Ok"
    BY <1>2 DEF IngestWith, Ingest
  <2>2. body = "Ok"
    <3> HIDE DEF body
    <3> QED
      BY <2>1, BothPass
  <2>3. kind # "drt"
    BY <2>2
  <2>4. kind = "rot" => ValidateRotation(s, m) = "Ok"
    BY <2>2
  <2>5. kind = "ixn" => ValidateInteraction(s, m) = "Ok"
    BY <2>2
  <2> QED
    BY <2>3, <2>4, <2>5 DEF Rotations
<1> QED
  BY <1>1, <1>2

-----------------------------------------------------------------------------
(* The second inductive invariant, on top of the first. What the replayed  *)
(* state holds at position i is what the establishment it points at said,  *)
(* with the witnesses all events so far leave in force; and the event at i *)
(* passes the fold again, with evidence the host may hold, on the state    *)
(* replayed just before it. A rewind keeps both, since the re-ingest puts  *)
(* the superseding event to the replayed state and not to the head.        *)

WitnessesOf(k, i) ==
  {w \in NonTransferable :
     \E n \in 1..i : /\ w \in Members(k[n].event.wits)
                     /\ \A q \in (n + 1)..i : w \notin Members(k[q].event.cuts)}

Holds(s, est) ==
  /\ est.kind \in Establishments
  /\ s.keys = est.keys /\ s.kt = est.kt
  /\ s.next = est.next /\ s.nt = est.nt
  /\ s.toad = est.toad
  /\ s.transferable => est.next # <<>>

Standing(k, h, i) ==
  /\ Holds(h[i], k[h[i].estSn + 1].event)
  /\ h[i].wits = WitnessesOf(k, i) /\ IsFiniteSet(h[i].wits)
  /\ h[i].delegator = IF k[1].event.kind = "dip" THEN k[1].event.di ELSE None

Proven(k, h, i) ==
  IF i = 1 THEN \E ev \in Evidence : InceptWith(k[1], ev) = "Ok"
  ELSE /\ \E ev \in Evidence : IngestWith(h[i - 1], k[i], ev) = "Ok"
       /\ h[i] = Advance(h[i - 1], k[i].event)

Backed(k, h) == \A i \in 1..Len(k) : Standing(k, h, i) /\ Proven(k, h, i)

(* The witnesses in force after one more event: those its cuts leave, and  *)
(* those it adds, as updated_members keeps them.                           *)
LEMMA WitnessesGrow ==
  ASSUME NEW n \in Nat, NEW k, NEW k2, \A i \in 1..n : k2[i] = k[i],
         Members(k2[n + 1].event.wits) \subseteq NonTransferable
  PROVE  /\ \A i \in 1..n : WitnessesOf(k2, i) = WitnessesOf(k, i)
         /\ WitnessesOf(k2, n + 1) =
              UpdatedMembers(WitnessesOf(k, n), k2[n + 1].event.cuts, k2[n + 1].event.wits)
<1>1. \A i \in 1..n : WitnessesOf(k2, i) = WitnessesOf(k, i)
  <2> SUFFICES ASSUME NEW i \in 1..n
               PROVE  WitnessesOf(k2, i) = WitnessesOf(k, i)
    OBVIOUS
  <2>1. \A p \in 1..i : k2[p] = k[p]
    OBVIOUS
  <2>2. \A p \in 1..i : \A q \in (p + 1)..i : q \in 1..i
    OBVIOUS
  <2> QED
    BY <2>1, <2>2 DEF WitnessesOf
<1> DEFINE e == k2[n + 1].event
<1>2. ASSUME NEW w \in WitnessesOf(k2, n + 1), w \notin Members(e.wits)
      PROVE  w \in WitnessesOf(k, n) /\ w \notin Members(e.cuts)
  <2>1. PICK p \in 1..(n + 1) : /\ w \in Members(k2[p].event.wits)
                                /\ \A q \in (p + 1)..(n + 1) : w \notin Members(k2[q].event.cuts)
    BY DEF WitnessesOf
  <2>2. p \in 1..n /\ n + 1 \in (p + 1)..(n + 1)
    BY <2>1, <1>2
  <2>3. \A q \in (p + 1)..n : q \in (p + 1)..(n + 1) /\ k2[q] = k[q]
    BY <2>2
  <2>4. w \in NonTransferable /\ k2[p] = k[p]
    BY <2>2 DEF WitnessesOf
  <2> QED
    BY <2>1, <2>2, <2>3, <2>4 DEF WitnessesOf
<1>3. ASSUME NEW w \in WitnessesOf(k, n), w \notin Members(e.cuts)
      PROVE  w \in WitnessesOf(k2, n + 1)
  <2>1. PICK p \in 1..n : /\ w \in Members(k[p].event.wits)
                          /\ \A q \in (p + 1)..n : w \notin Members(k[q].event.cuts)
    BY DEF WitnessesOf
  <2>2. ASSUME NEW q \in (p + 1)..(n + 1)
        PROVE  w \notin Members(k2[q].event.cuts)
    <3>1. CASE q = n + 1
      BY <3>1, <1>3
    <3>2. CASE q # n + 1
      <4>1. q \in (p + 1)..n /\ q \in 1..n
        BY <3>2
      <4> QED
        BY <4>1, <2>1
    <3> QED
      BY <3>1, <3>2
  <2>3. p \in 1..(n + 1) /\ k2[p] = k[p] /\ w \in NonTransferable
    BY DEF WitnessesOf
  <2> QED
    BY <2>1, <2>2, <2>3 DEF WitnessesOf
<1>4. ASSUME NEW w \in Members(e.wits)
      PROVE  w \in WitnessesOf(k2, n + 1)
  <2>1. w \in NonTransferable /\ n + 1 \in 1..(n + 1) /\ (n + 1 + 1)..(n + 1) = {}
    OBVIOUS
  <2> QED
    BY <2>1 DEF WitnessesOf
<1>5. WitnessesOf(k2, n + 1) = UpdatedMembers(WitnessesOf(k, n), e.cuts, e.wits)
  <2> HIDE DEF e
  <2> QED
    BY <1>2, <1>3, <1>4 DEF UpdatedMembers
<1> QED
  BY <1>1, <1>5

(* A genesis that passes stands on itself.                                 *)
LEMMA GenesisIsBacked ==
  ASSUME NEW m \in Message, NEW ev \in Evidence, InceptWith(m, ev) = "Ok"
  PROVE  Backed(<<m>>, <<SeedState(m.event)>>)
<1> DEFINE e == m.event
<1> DEFINE s == SeedState(e)
<1> DEFINE k == <<m>>
<1> DEFINE h == <<s>>
<1>1. e \in Event /\ e.kind \in {"icp", "dip"} /\ e.sn = 0 /\ e.wits \in Seq(Keys)
  BY GenesisPasses DEF Message, Event, Shape
<1>2. /\ s.keys = e.keys /\ s.kt = e.kt /\ s.next = e.next /\ s.nt = e.nt
      /\ s.toad = e.toad /\ (s.transferable => e.next # <<>>)
      /\ s.wits = Members(e.wits) /\ s.estSn = 0
      /\ s.delegator = IF e.kind = "dip" THEN e.di ELSE None
  BY DEF SeedState
<1>3. IsFiniteSet(s.wits)
  BY <1>1, <1>2, MembersFinite
<1>4. k[1] = m /\ h[1] = s /\ Len(k) = 1
  OBVIOUS
<1>5. WitnessesOf(k, 1) = Members(e.wits)
  <2>1. Members(e.wits) \subseteq NonTransferable
    BY GenesisProves
  <2>2. 1..1 = {1} /\ (1 + 1)..1 = {}
    OBVIOUS
  <2> HIDE DEF k
  <2> QED
    BY <2>1, <2>2, <1>4 DEF WitnessesOf
<1> HIDE DEF s, k, h
<1>6. Holds(s, e)
  BY <1>1, <1>2 DEF Holds, Establishments
<1>7. Standing(k, h, 1)
  BY <1>2, <1>3, <1>4, <1>5, <1>6 DEF Standing
<1>8. Proven(k, h, 1)
  BY <1>4 DEF Proven
<1>9. Backed(k, h)
  BY <1>4, <1>7, <1>8 DEF Backed
<1> QED
  BY <1>9 DEF s, k, h

(* What a step of the fold leaves in the state's hands.                    *)
LEMMA StepHolds ==
  ASSUME NEW s \in State, NEW e \in Event, e.kind \in {"rot", "drt", "ixn"}
  PROVE  LET s2 == Advance(s, e)
         IN  /\ e.kind # "ixn" => Holds(s2, e)
             /\ e.kind # "ixn" => s2.wits = UpdatedMembers(s.wits, e.cuts, e.wits)
             /\ e.kind = "ixn" =>
                  /\ s2.keys = s.keys /\ s2.kt = s.kt /\ s2.next = s.next /\ s2.nt = s.nt
                  /\ s2.toad = s.toad /\ s2.transferable = s.transferable
                  /\ s2.wits = s.wits
<1>1. CASE e.kind = "ixn"
  <2>1. Advance(s, e) = Stepped(s, e)
    BY <1>1 DEF Advance, Rotations
  <2> QED
    BY <1>1, <2>1 DEF Stepped, State
<1>2. CASE e.kind \in Rotations
  <2>1. Advance(s, e) = Rolled(s, e) /\ e.kind \in Establishments /\ e.kind # "ixn"
    BY <1>2 DEF Advance, Rotations, Establishments
  <2> QED
    BY <2>1 DEF Rolled, State, Holds
<1> QED
  BY <1>1, <1>2 DEF Rotations

(* A stream cut after any position and extended by an event the fold       *)
(* passes on the state replayed there stays backed.                        *)
LEMMA GrowthIsBacked ==
  ASSUME NEW k \in Seq(Message), NEW h \in Seq(State), Tracked(k, h), Backed(k, h),
         NEW n \in 1..Len(k), NEW m \in Message, NEW ev \in Evidence,
         IngestWith(h[n], m, ev) = "Ok",
         NEW k2 \in Seq(Message), NEW h2 \in Seq(State),
         Len(k2) = n + 1, \A i \in 1..n : k2[i] = k[i], k2[n + 1] = m,
         Len(h2) = n + 1, \A i \in 1..n : h2[i] = h[i],
         h2[n + 1] = Advance(h[n], m.event)
  PROVE  Backed(k2, h2)
<1> DEFINE e == m.event
<1> DEFINE s == h[n]
<1> DEFINE s2 == h2[n + 1]
<1>1. /\ s \in State /\ e \in Event /\ Follows(s, e) /\ n \in Nat
      /\ e.kind \in {"rot", "drt", "ixn"} /\ Len(h) = Len(k)
  <2>1. s \in State /\ n \in Nat /\ Len(h) = Len(k) /\ e \in Event
    BY DEF Tracked, Message
  <2>2. Follows(s, e)
    BY <2>1, StepFollows
  <2> QED
    BY <2>1, <2>2 DEF Follows
<1>2. Members(e.wits) \subseteq NonTransferable
  <2>1. CASE e.kind = "ixn"
    <3>1. e.wits = <<>>
      BY <1>1, <2>1 DEF Event
    <3> QED
      BY <3>1 DEF Members
  <2>2. CASE e.kind \in Rotations
    BY <2>2, <1>1, StepProves, RotationProves
  <2> QED
    BY <1>1, <2>1, <2>2 DEF Rotations
<1>3. /\ \A i \in 1..n : WitnessesOf(k2, i) = WitnessesOf(k, i)
      /\ WitnessesOf(k2, n + 1) = UpdatedMembers(WitnessesOf(k, n), e.cuts, e.wits)
  <2>1. n \in Nat /\ Members(k2[n + 1].event.wits) \subseteq NonTransferable
    BY <1>1, <1>2
  <2>2. /\ \A i \in 1..n : WitnessesOf(k2, i) = WitnessesOf(k, i)
        /\ WitnessesOf(k2, n + 1) =
             UpdatedMembers(WitnessesOf(k, n), k2[n + 1].event.cuts, k2[n + 1].event.wits)
    BY <2>1, WitnessesGrow
  <2> QED
    BY <2>2
<1>4. ASSUME NEW i \in 1..n
      PROVE  Standing(k2, h2, i) /\ Proven(k2, h2, i)
  <2>1. i \in 1..Len(k) /\ k2[i] = k[i] /\ h2[i] = h[i] /\ k2[1] = k[1]
    OBVIOUS
  <2>2. Standing(k, h, i) /\ Proven(k, h, i) /\ h[i].estSn \in 0..(i - 1)
    BY <2>1 DEF Backed, Tracked, Tracks, Carried
  <2>3. k2[h[i].estSn + 1] = k[h[i].estSn + 1]
    BY <2>2
  <2>4. Standing(k2, h2, i)
    BY <2>1, <2>2, <2>3, <1>3 DEF Standing
  <2>5. i # 1 => h2[i - 1] = h[i - 1]
    OBVIOUS
  <2>6. Proven(k2, h2, i)
    BY <2>1, <2>2, <2>5 DEF Proven
  <2> QED
    BY <2>4, <2>6
<1>5. Standing(k, h, n) /\ h[n].estSn \in 0..(n - 1) /\ h[n].sn = n - 1
  BY DEF Backed, Tracked, Tracks, Carried
<1>6. /\ s2.delegator = s.delegator
      /\ e.kind = "ixn" => s2.estSn = s.estSn
      /\ e.kind # "ixn" => s2.estSn = e.sn
      /\ e.sn = n
  BY <1>1, <1>5, StepAgrees DEF Follows
<1>7. /\ e.kind # "ixn" => Holds(s2, e)
      /\ e.kind # "ixn" => s2.wits = UpdatedMembers(s.wits, e.cuts, e.wits)
      /\ e.kind = "ixn" =>
           /\ s2.keys = s.keys /\ s2.kt = s.kt /\ s2.next = s.next /\ s2.nt = s.nt
           /\ s2.toad = s.toad /\ s2.transferable = s.transferable
           /\ s2.wits = s.wits
  BY <1>1, StepHolds
<1>8. k2[1] = k[1] /\ k2[n + 1].event = e
  OBVIOUS
<1> HIDE DEF s2
<1>9. Holds(s2, k2[s2.estSn + 1].event)
  <2>1. CASE e.kind = "ixn"
    <3>1. k2[s2.estSn + 1] = k[s.estSn + 1]
      <4>1. s2.estSn = h[n].estSn /\ h[n].estSn + 1 \in 1..n
        BY <1>1, <1>5, <1>6, <2>1
      <4> QED
        BY <4>1
    <3>2. Holds(s, k[s.estSn + 1].event)
      BY <1>5 DEF Standing
    <3> QED
      BY <1>7, <2>1, <3>1, <3>2 DEF Holds
  <2>2. CASE e.kind # "ixn"
    BY <1>6, <1>7, <1>8, <2>2
  <2> QED
    BY <2>1, <2>2
<1>10. s2.wits = WitnessesOf(k2, n + 1) /\ IsFiniteSet(s2.wits)
  <2>1. s.wits = WitnessesOf(k, n) /\ IsFiniteSet(s.wits)
    BY <1>5 DEF Standing
  <2>2. s2.wits = UpdatedMembers(s.wits, e.cuts, e.wits)
    <3>1. CASE e.kind = "ixn"
      <4>1. Members(e.cuts) = {} /\ Members(e.wits) = {}
        BY <1>1, <3>1 DEF Event, Members
      <4> QED
        BY <1>7, <3>1, <4>1 DEF UpdatedMembers
    <3> QED
      BY <1>7, <3>1
  <2>3. IsFiniteSet(Members(e.wits)) /\ IsFiniteSet(s.wits \ Members(e.cuts))
    <3>1. e.wits \in Seq(Keys)
      BY <1>1 DEF Event, Shape
    <3>2. IsFiniteSet(Members(e.wits))
      BY <3>1, MembersFinite
    <3> QED
      BY <2>1, <3>2, FS_Difference
  <2>4. IsFiniteSet(UpdatedMembers(s.wits, e.cuts, e.wits))
    BY <2>3, FS_Union DEF UpdatedMembers
  <2> QED
    BY <1>3, <2>1, <2>2, <2>4
<1>11. Standing(k2, h2, n + 1)
  <2>1. s.delegator = IF k[1].event.kind = "dip" THEN k[1].event.di ELSE None
    BY <1>5 DEF Standing
  <2> QED
    BY <1>6, <1>8, <1>9, <1>10, <2>1 DEF Standing, s2
<1>12. Proven(k2, h2, n + 1)
  <2>1. n + 1 # 1 /\ h2[n + 1 - 1] = h[n]
    BY <1>1
  <2>2. h2[n + 1] = Advance(h2[n + 1 - 1], k2[n + 1].event)
    BY <2>1
  <2> QED
    BY <2>1, <2>2 DEF Proven
<1> QED
  BY <1>1, <1>4, <1>11, <1>12 DEF Backed

(* A host boots with a backed stream.                                      *)
LEMMA InitBacked == Init => Backed(kel, snapshots)
<1> SUFFICES ASSUME Init PROVE Backed(kel, snapshots)
  OBVIOUS
<1>1. CASE kel = <<>>
  BY <1>1 DEF Backed
<1>2. CASE kel # <<>>
  <2>1. /\ kel \in Stored /\ kel = <<kel[1]>> /\ kel[1] \in Message
        /\ \E ev \in Evidence : InceptWith(kel[1], ev) = "Ok"
    BY <1>2, KelHostAssumption DEF Init
  <2>2. PICK m \in Message, ev \in Evidence : kel = <<m>> /\ InceptWith(m, ev) = "Ok"
    BY <2>1
  <2>3. m.event \in Event /\ m.event.kind \in {"icp", "dip"} /\ m.event.sn = 0
    BY <2>2, GenesisPasses DEF Message
  <2>4. snapshots = <<SeedState(m.event)>>
    BY <1>2, <2>2, <2>3, SeedAgrees DEF Init
  <2> QED
    BY <2>2, <2>4, GenesisIsBacked
<1> QED
  BY <1>1, <1>2

(* Every step keeps the stream backed.                                     *)
LEMMA NextBacked == IInv /\ Backed(kel, snapshots) /\ [Next]_vars => Backed(kel, snapshots)'
<1> SUFFICES ASSUME IInv, Backed(kel, snapshots), [Next]_vars
             PROVE  Backed(kel', snapshots')
  OBVIOUS
<1>1. kel \in Seq(Message) /\ snapshots \in Seq(State) /\ Tracked(kel, snapshots)
  BY DEF IInv, TypeOK
<1>2. CASE UNCHANGED <<kel, snapshots>>
  BY <1>2
<1>3. ASSUME NEW m \in Message, m.event \in Heard, Admit(m), kel = <<>>
      PROVE  Backed(kel', snapshots')
  BY <1>3, AdmitGenesis, GenesisIsBacked
<1>4. ASSUME NEW m \in Message, Admit(m), kel # <<>>
      PROVE  Backed(kel', snapshots')
  <2> DEFINE n == Len(kel)
  <2>1. /\ kel' \in Seq(Message) /\ Len(kel') = n + 1
        /\ \A i \in 1..n : kel'[i] = kel[i]
        /\ kel'[n + 1] = m
        /\ snapshots' \in Seq(State) /\ Len(snapshots') = n + 1
        /\ \A i \in 1..n : snapshots'[i] = snapshots[i]
        /\ snapshots'[n + 1] = Advance(snapshots[n], m.event)
    BY <1>4, AdmitStep
  <2>2. PICK ev \in Evidence : IngestWith(snapshots[n], m, ev) = "Ok"
    BY <1>4, AdmitStep
  <2>3. n \in 1..Len(kel)
    BY <1>1, <1>4
  <2> HIDE DEF n
  <2> QED
    BY <1>1, <2>1, <2>2, <2>3, GrowthIsBacked, SMTT(60)
<1>5. ASSUME NEW m \in Message, Recover(m)
      PROVE  Backed(kel', snapshots')
  <2> DEFINE n == m.event.sn
  <2>1. /\ kel' \in Seq(Message) /\ Len(kel') = n + 1
        /\ \A i \in 1..n : kel'[i] = kel[i]
        /\ kel'[n + 1] = m
        /\ snapshots' \in Seq(State) /\ Len(snapshots') = n + 1
        /\ \A i \in 1..n : snapshots'[i] = snapshots[i]
        /\ snapshots'[n + 1] = Advance(snapshots[n], m.event)
    BY <1>5, RecoverStep
  <2>2. PICK ev \in Evidence : IngestWith(snapshots[n], m, ev) = "Ok"
    BY <1>5, RecoverStep
  <2>3. n \in 1..Len(kel)
    BY <1>1, <1>5, RecoverBounds
  <2> HIDE DEF n
  <2> QED
    BY <1>1, <2>1, <2>2, <2>3, GrowthIsBacked, SMTT(60)
<1>6. CASE UNCHANGED vars
  BY <1>2, <1>6 DEF vars
<1>7. CASE Next
  <2>1. PICK m \in unread \cup escrow : Deliver(m) \/ Redrive(m)
    BY <1>7 DEF Next
  <2>2. PICK g \in Message : g.event \in Heard /\ Handle(g)
    BY <2>1, StepHandles
  <2> QED
    BY <2>2, <1>2, <1>3, <1>4, <1>5 DEF Handle, Await, Drop, Defer, Uphold, KeepLog
<1> QED
  BY <1>6, <1>7

(* A host that lost its states could rebuild them from its stream: every   *)
(* event in it passes the fold again where it stands, recoveries included. *)
THEOREM StreamRevalidates == Spec => []Backed(kel, snapshots)
BY Invariant, InitBacked, NextBacked, PTL DEF Spec

-----------------------------------------------------------------------------
(* What the host's readers rely on.                                        *)

(* The stream, the key state and the trusted replay keep their types       *)
(* through every admission, rewind and re-ingest.                          *)
THEOREM TypeCorrect == Spec => []TypeOK
<1>1. IInv => TypeOK
  BY DEF IInv
<1> QED
  BY Invariant, <1>1, PTL

(* The accepted events chain, after any recovery (check_chains_onto).      *)
THEOREM AlwaysHashChained == Spec => []HashChained
<1>1. IInv => HashChained
  <2> SUFFICES ASSUME IInv, NEW i \in DOMAIN kel
               PROVE  /\ EventAt(i).sn = i - 1
                      /\ EventAt(i).pre = EventAt(1).pre
                      /\ i > 1 => EventAt(i).prior = EventAt(i - 1).said
    BY DEF HashChained
  <2>1. i \in 1..Len(kel)
    BY DEF IInv, TypeOK
  <2> QED
    BY <2>1 DEF IInv, Tracked, Tracks, Linked, Carried, QuietSince, EventAt
<1> QED
  BY Invariant, <1>1, PTL

(* The validating fold and the trusted fold agree on the head: no rotation *)
(* or recovery separates apply_rotation from KeyStateSnapshot::advance.    *)
THEOREM AlwaysFoldsAgree == Spec => []FoldsAgree
<1>1. IInv => FoldsAgree
  BY DEF IInv, FoldsAgree
<1> QED
  BY Invariant, <1>1, PTL

(* The verified indices are the positions an auditor finds signed.         *)
LEMMA IndicesArePositions ==
  ASSUME NEW i \in 1..Len(kel), TypeOK, NEW keys \in Seq(Keys),
         NEW kt, Verify(keys, kt, kel[i].sigs) = "Ok"
  PROVE  Satisfied(kt, {q - 1 : q \in SignedPositions(i, keys)})
<1> DEFINE indices == {sig.index : sig \in Verified(keys, kel[i].sigs)}
<1> DEFINE positions == {q - 1 : q \in SignedPositions(i, keys)}
<1>1. Satisfied(kt, indices)
  BY DEF Verify
<1>2. \A sig \in kel[i].sigs : sig.index \in Nat
  <2>1. kel[i] \in Message
    BY EventsAreEvents
  <2> QED
    BY <2>1 DEF Message, Siger
<1>3. DOMAIN keys = 1..Len(keys)
  OBVIOUS
<1>4. ASSUME NEW sig \in Verified(keys, kel[i].sigs)
      PROVE  sig.index \in positions
  <2>1. /\ sig \in kel[i].sigs /\ sig.index \in Nat
        /\ sig.index + 1 \in DOMAIN keys /\ keys[sig.index + 1] = sig.signer
    BY <1>2 DEF Verified
  <2>2. sig.index = (sig.index + 1) - 1
    BY <2>1
  <2>3. sig.index + 1 \in SignedPositions(i, keys)
    BY <2>1, <2>2 DEF SignedPositions
  <2> QED
    BY <2>2, <2>3
<1>5. ASSUME NEW q \in SignedPositions(i, keys)
      PROVE  q - 1 \in indices
  <2>1. PICK sig \in kel[i].sigs : sig.index = q - 1 /\ sig.signer = keys[q]
    BY DEF SignedPositions
  <2>2. q \in DOMAIN keys /\ sig.index + 1 = q
    BY <1>3, <2>1 DEF SignedPositions
  <2>3. sig \in Verified(keys, kel[i].sigs)
    BY <2>1, <2>2 DEF Verified
  <2> QED
    BY <2>1, <2>3
<1>6. indices = positions
  BY <1>4, <1>5
<1> QED
  BY <1>1, <1>6

(* The commitments the fold counts as exposed are the positions an auditor *)
(* finds opened.                                                           *)
LEMMA ExposedArePositions ==
  ASSUME NEW i \in 1..Len(kel), TypeOK, NEW next \in Seq(Keys), NEW nt,
         OpenedBy(next, nt, EventAt(i).keys, kel[i].sigs) = "Ok"
  PROVE  Satisfied(nt, {q - 1 : q \in OpenedPositions(i, next)})
<1> DEFINE keys == EventAt(i).keys
<1> DEFINE sigs == kel[i].sigs
<1> DEFINE positions == {q - 1 : q \in OpenedPositions(i, next)}
<1>1. Satisfied(nt, Exposed(next, keys, sigs))
  BY DEF OpenedBy, Require
<1>2. /\ kel[i] \in Message
      /\ \A sig \in sigs : sig.index \in Nat /\ sig.ondex \in Nat \cup {NoOndex}
      /\ keys \in Seq(Keys)
  <2>1. kel[i] \in Message /\ EventAt(i) \in Event
    BY EventsAreEvents
  <2> QED
    BY <2>1 DEF Message, Siger, Event, Shape
<1>3. DOMAIN keys = 1..Len(keys) /\ DOMAIN next = 1..Len(next)
  BY <1>2
<1> HIDE DEF keys, sigs
<1>4. ASSUME NEW x \in Exposed(next, keys, sigs)
      PROVE  x \in positions
  <2>1. PICK sig \in Verified(keys, sigs) :
             /\ x = sig.ondex /\ sig.ondex # NoOndex
             /\ sig.ondex + 1 \in DOMAIN next
             /\ next[sig.ondex + 1] = keys[sig.index + 1]
    BY DEF Exposed
  <2>2. /\ sig \in sigs /\ sig.index \in Nat /\ sig.ondex \in Nat
        /\ sig.index + 1 \in DOMAIN keys /\ keys[sig.index + 1] = sig.signer
    BY <1>2, <2>1 DEF Verified
  <2>3. sig.index = (sig.index + 1) - 1 /\ sig.ondex = (sig.ondex + 1) - 1
    BY <2>2
  <2>4. sig.ondex + 1 \in OpenedPositions(i, next)
    BY <2>1, <2>2, <2>3 DEF OpenedPositions, keys, sigs
  <2> QED
    BY <2>1, <2>3, <2>4
<1>5. ASSUME NEW q \in OpenedPositions(i, next)
      PROVE  q - 1 \in Exposed(next, keys, sigs)
  <2>1. PICK p \in DOMAIN keys, sig \in sigs :
             /\ sig.index = p - 1 /\ sig.signer = keys[p]
             /\ sig.ondex = q - 1 /\ next[q] = keys[p]
    BY DEF OpenedPositions, keys, sigs
  <2>2. q \in DOMAIN next /\ sig.ondex + 1 = q /\ sig.index + 1 = p /\ sig.ondex # NoOndex
    BY <1>3, <2>1 DEF OpenedPositions, NoOndex
  <2>3. sig \in Verified(keys, sigs)
    BY <2>1, <2>2 DEF Verified
  <2> QED
    BY <2>1, <2>2, <2>3 DEF Exposed
<1>6. Exposed(next, keys, sigs) = positions
  BY <1>4, <1>5
<1> QED
  BY <1>1, <1>6

(* The establishment an auditor finds in force is the one the state names. *)
LEMMA LastEstIsNamed ==
  ASSUME IInv, Backed(kel, snapshots), NEW i \in 1..Len(kel)
  PROVE  LastEst(i) = snapshots[i].estSn + 1
<1> DEFINE est == snapshots[i].estSn + 1
<1> DEFINE S == {n \in 1..i : EstablishesAt(n)}
<1>1. Tracks(kel, snapshots, i) /\ Standing(kel, snapshots, i) /\ i \in Nat
  BY DEF IInv, Tracked, Backed
<1>2. est \in 1..i
  BY <1>1 DEF Tracks, Carried
<1>3. EstablishesAt(est)
  BY <1>1 DEF Standing, Holds, EstablishesAt, EventAt
<1>4. \A n \in S : n <= est
  <2> SUFFICES ASSUME NEW n \in S, n > est PROVE FALSE
    BY <1>2
  <2>1. n \in (snapshots[i].estSn + 2)..i
    BY <1>1, <1>2 DEF Tracks, Carried
  <2>2. kel[n].event.kind = "ixn"
    BY <1>1, <2>1 DEF Tracks, QuietSince
  <2> QED
    BY <2>2 DEF EstablishesAt, EventAt, Establishments
<1>5. est \in S
  BY <1>2, <1>3
<1> HIDE DEF est
<1>6. \A n \in S : (\A q \in S : q <= n) => n = est
  <2> SUFFICES ASSUME NEW n \in S, \A q \in S : q <= n PROVE n = est
    OBVIOUS
  <2>1. n <= est /\ est <= n
    BY <1>4, <1>5
  <2> QED
    BY <2>1, <1>2
<1>7. Latest(S) = est
  BY <1>4, <1>5, <1>6 DEF Latest
<1> QED
  BY <1>7 DEF LastEst, est

(* From the log alone every event is signed by a quorum of the keys in     *)
(* force, every rotation opens the commitment before it, none follows an   *)
(* establishment that committed to nothing, and enough of the witnesses in *)
(* force receipted each: ingest_mut and ingest_delegated_mut let nothing   *)
(* else into the stream, whatever a recovery rewound.                      *)
THEOREM AlwaysAttested == Spec => []Attested
<1>1. IInv /\ Backed(kel, snapshots) => Attested
  <2> SUFFICES ASSUME IInv, Backed(kel, snapshots), NEW i \in DOMAIN kel
               PROVE  /\ SignedByQuorum(i)
                      /\ i > 1 => EventAt(LastEst(i - 1)).next # <<>>
                      /\ i > 1 /\ EstablishesAt(i) => OpensCommitment(i)
                      /\ WitnessedEnough(i)
    BY DEF Attested
  <2> DEFINE e == EventAt(i)
  <2>1. /\ i \in 1..Len(kel) /\ i \in Nat /\ kel[i] \in Message /\ e \in Event
        /\ TypeOK /\ Len(snapshots) = Len(kel) /\ snapshots[i] \in State
    <3>1. i \in 1..Len(kel) /\ TypeOK /\ i \in Nat
      BY DEF IInv, TypeOK
    <3> QED
      BY <3>1, EventsAreEvents DEF IInv, TypeOK, Tracked
  <2> DEFINE s == snapshots[i]
  <2> DEFINE est == EventAt(LastEst(i))
  <2>2. /\ Standing(kel, snapshots, i) /\ Proven(kel, snapshots, i)
        /\ Tracks(kel, snapshots, i)
    BY <2>1 DEF IInv, Backed, Tracked
  <2>3. est = kel[s.estSn + 1].event
    BY <2>1, LastEstIsNamed DEF EventAt
  <2>4. /\ est.keys = s.keys /\ est.kt = s.kt /\ est.toad = s.toad
        /\ s.wits = WitnessesAt(i) /\ IsFiniteSet(s.wits)
        /\ s.keys \in Seq(Keys) /\ s.toad \in Nat
    <3>1. s.keys \in Seq(Keys) /\ s.toad \in Nat
      BY <2>1 DEF State
    <3>2. WitnessesOf(kel, i) = WitnessesAt(i)
      BY DEF WitnessesOf, WitnessesAt, EventAt
    <3> QED
      BY <2>2, <2>3, <3>1, <3>2 DEF Standing, Holds
  <2>5. /\ Verify(s.keys, s.kt, kel[i].sigs) = "Ok"
        /\ ReceiptedBy(s.wits, s.toad, kel[i].wigs) = "Ok"
        /\ i > 1 => /\ snapshots[i - 1].transferable
                    /\ EstablishesAt(i) =>
                         OpenedBy(snapshots[i - 1].next, snapshots[i - 1].nt, e.keys, kel[i].sigs) = "Ok"
    <3>1. CASE i = 1
      <4>1. PICK ev \in Evidence : InceptWith(kel[1], ev) = "Ok"
        BY <2>2, <3>1 DEF Proven
      <4>2. /\ Verify(e.keys, e.kt, kel[i].sigs) = "Ok"
            /\ ReceiptedBy(Members(e.wits), e.toad, kel[i].wigs) = "Ok"
            /\ Members(e.wits) \subseteq NonTransferable
        BY <3>1, <4>1, GenesisProves DEF EventAt
      <4>3. est = e
        BY <2>2, <2>3, <3>1 DEF Tracks, Carried, EventAt
      <4>4. s.wits = Members(e.wits)
        <5>1. 1..1 = {1} /\ (1 + 1)..1 = {}
          OBVIOUS
        <5>2. WitnessesOf(kel, 1) = Members(kel[1].event.wits)
          BY <3>1, <4>2, <5>1 DEF WitnessesOf, EventAt
        <5> QED
          BY <2>2, <3>1, <5>2 DEF Standing, EventAt
      <4> QED
        BY <2>4, <3>1, <4>2, <4>3, <4>4
    <3>2. CASE i > 1
      <4> DEFINE r == snapshots[i - 1]
      <4>1. PICK ev \in Evidence : IngestWith(r, kel[i], ev) = "Ok"
        BY <2>2, <3>2 DEF Proven
      <4>2. /\ i - 1 \in 1..Len(kel) /\ r \in State
            /\ Follows(r, e) /\ s = Advance(r, e)
            /\ e.kind \in {"rot", "drt", "ixn"}
        <5>1. i - 1 \in 1..Len(kel) /\ r \in State
          BY <2>1, <3>2 DEF IInv, TypeOK
        <5>2. Follows(r, e)
          BY <2>1, <4>1, <5>1, StepFollows DEF EventAt
        <5>3. s = Advance(r, e)
          BY <2>2, <3>2 DEF Proven, EventAt
        <5> QED
          BY <5>1, <5>2, <5>3 DEF Follows
      <4>3. r.transferable
        BY <4>2 DEF Follows
      <4>4. CASE e.kind = "ixn"
        <5>1. ValidateInteraction(r, kel[i]) = "Ok"
          BY <2>1, <4>1, <4>2, <4>4, StepProves DEF EventAt
        <5>2. /\ Verify(r.keys, r.kt, kel[i].sigs) = "Ok"
              /\ ReceiptedBy(r.wits, r.toad, kel[i].wigs) = "Ok"
          BY <5>1, InteractionProves
        <5>3. s.keys = r.keys /\ s.kt = r.kt /\ s.wits = r.wits /\ s.toad = r.toad
          BY <2>1, <4>2, <4>4, StepHolds
        <5>4. ~EstablishesAt(i)
          BY <4>4 DEF EstablishesAt, Establishments
        <5> QED
          BY <4>3, <5>2, <5>3, <5>4
      <4>5. CASE e.kind # "ixn"
        <5>1. ValidateRotation(r, kel[i]) = "Ok"
          BY <2>1, <4>1, <4>2, <4>5, StepProves DEF EventAt, Rotations
        <5>2. /\ Verify(e.keys, e.kt, kel[i].sigs) = "Ok"
              /\ OpenedBy(r.next, r.nt, e.keys, kel[i].sigs) = "Ok"
              /\ ReceiptedBy(UpdatedMembers(r.wits, e.cuts, e.wits), e.toad, kel[i].wigs) = "Ok"
          BY <5>1, RotationProves DEF EventAt
        <5>3. Holds(s, e) /\ s.wits = UpdatedMembers(r.wits, e.cuts, e.wits)
          BY <2>1, <4>2, <4>5, StepHolds
        <5>4. s.keys = e.keys /\ s.kt = e.kt /\ s.toad = e.toad
          BY <5>3 DEF Holds
        <5> QED
          BY <4>3, <5>2, <5>3, <5>4
      <4> QED
        BY <4>4, <4>5
    <3> QED
      BY <2>1, <3>1, <3>2
  <2>6. SignedByQuorum(i)
    <3>1. Satisfied(s.kt, {q - 1 : q \in SignedPositions(i, s.keys)})
      BY <2>1, <2>4, <2>5, IndicesArePositions
    <3> QED
      BY <2>4, <3>1 DEF SignedByQuorum
  <2>7. WitnessedEnough(i)
    <3>1. IsFiniteSet(s.wits \cap kel[i].wigs)
      BY <2>4, FS_Intersection
    <3>2. Cardinality(s.wits \cap kel[i].wigs) \in Nat
      BY <3>1, FS_CardinalityType
    <3>3. Cardinality(s.wits \cap kel[i].wigs) >= s.toad
      BY <2>4, <2>5, <3>2 DEF ReceiptedBy, Require
    <3> QED
      BY <2>4, <3>3 DEF WitnessedEnough
  <2>8. ASSUME i > 1
        PROVE  /\ EventAt(LastEst(i - 1)).next # <<>>
               /\ EstablishesAt(i) => OpensCommitment(i)
    <3> DEFINE r == snapshots[i - 1]
    <3> DEFINE before == EventAt(LastEst(i - 1))
    <3>1. i - 1 \in 1..Len(kel) /\ Standing(kel, snapshots, i - 1) /\ r \in State
      BY <2>1, <2>8 DEF Backed, IInv, TypeOK
    <3>2. before = kel[r.estSn + 1].event
      BY <3>1, LastEstIsNamed DEF EventAt
    <3>3. /\ before.next = r.next /\ before.nt = r.nt
          /\ r.transferable => before.next # <<>>
          /\ r.next \in Seq(Keys)
      BY <3>1, <3>2 DEF Standing, Holds, State
    <3>4. EstablishesAt(i) => OpensCommitment(i)
      <4> SUFFICES ASSUME EstablishesAt(i) PROVE OpensCommitment(i)
        OBVIOUS
      <4>1. OpenedBy(r.next, r.nt, e.keys, kel[i].sigs) = "Ok"
        BY <2>5, <2>8
      <4>2. Satisfied(r.nt, {q - 1 : q \in OpenedPositions(i, r.next)})
        BY <2>1, <3>3, <4>1, ExposedArePositions
      <4> QED
        BY <3>3, <4>2 DEF OpensCommitment
    <3> QED
      BY <2>5, <2>8, <3>3, <3>4
  <2> QED
    BY <2>6, <2>7, <2>8
<1> QED
  BY Invariant, StreamRevalidates, <1>1, PTL

(* In a delegated log no establishment stands that its delegator did not   *)
(* seal, or the host did not vouch for: neither the order in which the     *)
(* evidence arrived nor a re-ingest after a rewind lets one in.            *)
THEOREM AlwaysSealedByDelegator == Spec => []SealedByDelegator
<1>1. IInv /\ Backed(kel, snapshots) => SealedByDelegator
  <2> SUFFICES ASSUME IInv, Backed(kel, snapshots), NEW i \in DOMAIN kel,
                      EventAt(i).kind \in {"dip", "drt"}
               PROVE  \E ev \in Evidence :
                        \/ ev.kind = "host"
                        \/ /\ ev.kind = "anchored"
                           /\ ev.event.pre = EventAt(1).di
                           /\ "DND" \notin ev.state.conf
                           /\ SealOf(EventAt(i)) \in Members(ev.event.seals)
    BY DEF SealedByDelegator
  <2>1. /\ i \in 1..Len(kel) /\ i \in Nat /\ kel \in Seq(Message) /\ snapshots \in Seq(State)
        /\ Len(snapshots) = Len(kel) /\ kel[i] \in Message
        /\ Tracks(kel, snapshots, i) /\ Proven(kel, snapshots, i)
    BY DEF IInv, TypeOK, Tracked, Backed
  <2>2. PICK ev \in Evidence :
             ev.kind # "none" /\ Authorizes(ev, EventAt(i), EventAt(1).di) = "Ok"
    <3>1. CASE i = 1
      <4>1. EventAt(1).kind = "dip"
        BY <2>1, <3>1 DEF Tracks, Linked, EventAt
      <4> QED
        BY <2>1, <3>1, <4>1, GenesisProves DEF Proven, EventAt
    <3>2. CASE i > 1
      <4> DEFINE r == snapshots[i - 1]
      <4>1. EventAt(i).kind = "drt" /\ EventAt(1).kind = "dip"
        BY <2>1, <3>2 DEF Tracks, Linked, EventAt
      <4>2. i - 1 \in 1..Len(kel) /\ r \in State /\ Standing(kel, snapshots, i - 1)
        BY <2>1, <3>2 DEF Backed
      <4>3. r.delegator = EventAt(1).di
        BY <4>1, <4>2 DEF Standing, EventAt
      <4>4. \E ev \in Evidence : IngestWith(r, kel[i], ev) = "Ok"
        BY <2>1, <3>2 DEF Proven
      <4> QED
        BY <2>1, <4>1, <4>2, <4>3, <4>4, StepProves DEF EventAt
    <3> QED
      BY <2>1, <3>1, <3>2
  <2>3. ev.kind \in {"host", "anchored"}
    BY <2>2, KelHostAssumption
  <2>4. CASE ev.kind = "anchored"
    <3>1. /\ Require(ev.state.pre = EventAt(1).di /\ ev.event.pre = EventAt(1).di,
                     "DelegatorMismatch") = "Ok"
          /\ Require("DND" \notin ev.state.conf, "Denied") = "Ok"
          /\ Require(AnchorPosition(ev.event, EventAt(i)) # 0, "SealNotFound") = "Ok"
      BY <2>2, <2>4, BothPass DEF Authorizes
    <3>2. /\ ev.event.pre = EventAt(1).di /\ "DND" \notin ev.state.conf
          /\ AnchorPosition(ev.event, EventAt(i)) # 0
      BY <3>1 DEF Require
    <3>3. \E n \in DOMAIN ev.event.seals : ev.event.seals[n] = SealOf(EventAt(i))
      BY <3>2 DEF AnchorPosition
    <3> QED
      BY <2>4, <3>2, <3>3 DEF Members
  <2> QED
    BY <2>3, <2>4
<1> QED
  BY Invariant, StreamRevalidates, <1>1, PTL

(* Every change of the log is a founding, an extension or a recovery.      *)
LEMMA LogChanges ==
  ASSUME IInv, [Next]_vars
  PROVE  \/ UNCHANGED kel
         \/ \E m \in Message :
              m.event \in Heard /\ Admit(m)
         \/ \E m \in Message :
              m.event \in Heard /\ Recover(m)
<1>1. CASE UNCHANGED vars
  BY <1>1 DEF vars
<1>2. CASE Next
  <2>1. PICK m \in unread \cup escrow : Deliver(m) \/ Redrive(m)
    BY <1>2 DEF Next
  <2>2. PICK h \in Message : h.event \in Heard /\ Handle(h)
    BY <2>1, StepHandles
  <2> QED
    BY <2>2 DEF Handle, Await, Drop, Defer, Uphold, KeepLog
<1> QED
  BY <1>1, <1>2

(* Rule A1: no recovery rewinds an establishment of a nondelegated log.    *)
THEOREM EstablishmentsAreFinal == Spec => EstablishmentIsFinal
<1> DEFINE Survives == \A i \in DOMAIN kel :
                     EventAt(1).kind = "icp" /\ EstablishesAt(i) =>
                       i \in DOMAIN kel' /\ kel'[i] = kel[i]
<1>1. IInv /\ [Next]_vars => Survives
  <2> SUFFICES ASSUME IInv, [Next]_vars, NEW i \in DOMAIN kel,
                      EventAt(1).kind = "icp", EstablishesAt(i)
               PROVE  i \in DOMAIN kel' /\ kel'[i] = kel[i]
    OBVIOUS
  <2>1. kel \in Seq(Message) /\ i \in 1..Len(kel) /\ kel # <<>>
    BY DEF IInv, TypeOK
  <2>2. CASE UNCHANGED kel
    BY <2>2
  <2>3. ASSUME NEW m \in Message, Admit(m)
        PROVE  i \in DOMAIN kel' /\ kel'[i] = kel[i]
    <3>1. kel' \in Seq(Message) /\ Len(kel') = Len(kel) + 1 /\ kel'[i] = kel[i]
      BY <2>1, <2>3, AdmitStep
    <3> QED
      BY <2>1, <3>1
  <2>4. ASSUME NEW m \in Message, Recover(m)
        PROVE  i \in DOMAIN kel' /\ kel'[i] = kel[i]
    <3>1. /\ m.event.sn \in 1..(Len(kel) - 1)
          /\ EventAt(m.event.sn + 1).kind \in {"ixn", "drt"}
          /\ \A j \in (m.event.sn + 2)..Len(kel) : EventAt(j).kind = "ixn"
      BY <2>4, RecoverBounds
    <3>2. \A j \in 1..Len(kel) : j > 1 => EventAt(j).kind \in {"rot", "ixn"}
      BY DEF IInv, Tracked, Tracks, Linked, Carried, QuietSince, EventAt
    <3>3. EventAt(m.event.sn + 1).kind = "ixn"
      <4>1. m.event.sn + 1 \in 1..Len(kel) /\ m.event.sn + 1 > 1
        BY <2>1, <3>1
      <4> QED
        BY <3>1, <3>2, <4>1
    <3>4. i \in 1..m.event.sn
      BY <2>1, <3>1, <3>3 DEF EstablishesAt, Establishments
    <3>5. kel' \in Seq(Message) /\ Len(kel') = m.event.sn + 1 /\ kel'[i] = kel[i]
      BY <2>4, <3>4, RecoverStep
    <3> QED
      BY <3>1, <3>4, <3>5
  <2> QED
    BY <2>2, <2>3, <2>4, LogChanges
<1>2. IInv /\ [Next]_vars => [Survives]_vars
  BY <1>1
<1> QED
  BY Invariant, <1>2, PTL DEF Spec, EstablishmentIsFinal

(* "No evidence can re-open a closed KEL": neither an ingest nor a         *)
(* recovery moves the log of a non-transferable state.                     *)
THEOREM ClosedLogsStayClosed == Spec => ClosedForever
<1> DEFINE Shut == head # None /\ ~head.transferable => UNCHANGED kel
<1>1. IInv /\ [Next]_vars => Shut
  <2> SUFFICES ASSUME IInv, [Next]_vars, head # None, ~head.transferable
               PROVE  UNCHANGED kel
    OBVIOUS
  <2>1. kel # <<>>
    BY DEF IInv
  <2>2. ASSUME NEW m \in Message, NEW ev \in Evidence
        PROVE  Verdict(m, ev) = "NonTransferableState"
    <3>1. Ingest(head, m) = "NonTransferableState"
      BY DEF Ingest, Require, &&
    <3>2. IngestDelegated(head, m, ev) = "NonTransferableState"
      BY DEF IngestDelegated, Require, &&
    <3> QED
      BY <2>1, <3>1, <3>2 DEF Verdict, IngestWith
  <2>3. ASSUME NEW m \in Message, Admit(m)
        PROVE  FALSE
    BY <2>2, <2>3 DEF Admit, Verdicts
  <2>4. ASSUME NEW m \in Message, Recover(m)
        PROVE  FALSE
    BY <2>2, <2>4 DEF Recover, May, Verdicts, Disposition, AwaitingVerdicts, ContestedVerdicts
  <2> QED
    BY <2>3, <2>4, LogChanges
<1>2. IInv /\ [Next]_vars => [Shut]_vars
  BY <1>1
<1> QED
  BY Invariant, <1>2, PTL DEF Spec, ClosedForever

(* In a log without a delegator two events cannot replace each other in    *)
(* turn: what a recovery rotation removes is an interaction (rule A0).     *)
THEOREM PlainLogsDoNotAlternate ==
  Spec => [](kel # <<>> /\ EventAt(1).kind = "icp" => SupersedesIsAntisymmetric)
<1>1. IInv => (kel # <<>> /\ EventAt(1).kind = "icp" => SupersedesIsAntisymmetric)
  <2> SUFFICES ASSUME IInv, kel # <<>>, EventAt(1).kind = "icp",
                      NEW m \in Messages, NEW chain \in Chains,
                      Recorded(m), Judgment(m, chain) = "Supersedes"
               PROVE  JudgeSameSn(Apply(Rewound(m), m.event), EventAt(m.event.sn + 1),
                                  m.event, Mirrored(chain)) # "Supersedes"
    BY DEF SupersedesIsAntisymmetric
  <2> DEFINE n == m.event.sn
  <2>1. /\ kel \in Seq(Message) /\ n \in Nat /\ n + 1 \in 1..Len(kel) /\ Len(kel) \in 1..Len(kel)
        /\ head = snapshots[Len(kel)] /\ head \in State
    <3>1. kel \in Seq(Message) /\ kel # <<>> /\ head \in State /\ head = snapshots[Len(kel)]
      <4>1. snapshots \in Seq(State) /\ Len(snapshots) = Len(kel) /\ kel \in Seq(Message)
        BY DEF IInv, TypeOK, Tracked
      <4> QED
        BY <4>1 DEF IInv
    <3>2. n \in Nat
      BY MessagesAreMessages DEF Message, Event, Shape
    <3> QED
      BY <3>1, <3>2 DEF Recorded
  <2>2. m.event \in Event /\ EventAt(n + 1) \in Event
    BY <2>1, EventsAreEvents, MessagesAreMessages DEF IInv, Message
  <2>3. Tracks(kel, snapshots, Len(kel))
    BY <2>1 DEF IInv, Tracked
  <2>4. /\ head.delegator = None /\ head.estSn \in 0..(Len(kel) - 1)
        /\ \A q \in (head.estSn + 2)..Len(kel) : EventAt(q).kind = "ixn"
    BY <2>1, <2>3 DEF Tracks, Linked, Carried, QuietSince, EventAt
  <2>5. head.estSn < n
    <3>1. JudgeSameSn(head, m.event, EventAt(n + 1), chain) = "Supersedes"
      BY DEF Judgment, EventAt
    <3> HIDE DEF n
    <3>2. \/ m.event.kind = "rot" /\ head.estSn < m.event.sn
          \/ head.delegator # None
      BY <2>1, <2>2, <3>1, SupersedesBounds
    <3> QED
      BY <2>4, <3>2 DEF n
  <2>6. EventAt(n + 1).kind = "ixn"
    BY <2>1, <2>4, <2>5
  <2> QED
    BY <2>6, OnlyRotationsSupersede
<1> QED
  BY Invariant, <1>1, PTL

-----------------------------------------------------------------------------
(* The host implements AbstractKel.                                        *)

EventsOf(k) == [i \in DOMAIN k |-> k[i].event]

(* The log read off a stream of messages.                                  *)
LEMMA EventsOfStream ==
  ASSUME NEW k \in Seq(Message)
  PROVE  /\ EventsOf(k) \in Seq(Event)
         /\ Len(EventsOf(k)) = Len(k)
         /\ \A i \in 1..Len(k) : EventsOf(k)[i] = k[i].event
<1>1. \A i \in 1..Len(k) : k[i].event \in Event
  <2>1. \A i \in 1..Len(k) : k[i] \in Message
    OBVIOUS
  <2>2. \A m \in Message : m.event \in Event
    BY DEF Message
  <2> QED
    BY <2>1, <2>2
<1>2. DOMAIN k = 1..Len(k) /\ Len(k) \in Nat
  OBVIOUS
<1>3. EventsOf(k) = [i \in 1..Len(k) |-> k[i].event]
  BY <1>2 DEF EventsOf
<1> DEFINE f == [i \in 1..Len(k) |-> k[i].event]
<1>4. f \in Seq(Event) /\ Len(f) = Len(k)
  <2>1. f \in [1..Len(k) -> Event]
    BY <1>1
  <2> QED
    BY <1>2, <2>1
<1> QED
  BY <1>3, <1>4

(* A stream cut after n and extended reads as the log cut and extended.    *)
LEMMA EventsOfGrowth ==
  ASSUME NEW k \in Seq(Message), NEW n \in 0..Len(k), NEW m \in Message,
         NEW k2 \in Seq(Message), Len(k2) = n + 1,
         \A i \in 1..n : k2[i] = k[i], k2[n + 1] = m
  PROVE  EventsOf(k2) = Append(SubSeq(EventsOf(k), 1, n), m.event)
<1> DEFINE log == EventsOf(k)
<1> DEFINE log2 == EventsOf(k2)
<1>1. /\ log \in Seq(Event) /\ Len(log) = Len(k)
      /\ \A i \in 1..Len(k) : log[i] = k[i].event
  BY EventsOfStream
<1>2. /\ log2 \in Seq(Event) /\ Len(log2) = n + 1
      /\ \A i \in 1..(n + 1) : log2[i] = k2[i].event
  BY EventsOfStream
<1>3. m.event \in Event
  BY DEF Message
<1> HIDE DEF log, log2
<1> DEFINE cut == Append(SubSeq(log, 1, n), m.event)
<1>4. /\ cut \in Seq(Event) /\ Len(cut) = n + 1
      /\ \A i \in 1..n : cut[i] = log[i]
      /\ cut[n + 1] = m.event
  BY <1>1, <1>3, CutAndAppend
<1> HIDE DEF cut
<1>5. \A i \in 1..(n + 1) : log2[i] = cut[i]
  BY <1>1, <1>2, <1>4
<1>6. log2 = cut
  BY <1>2, <1>4, <1>5, SeqEqual
<1> QED
  BY <1>6 DEF log, log2, cut

(* The log admits only the kinds its genesis allows.                       *)
LEMMA FollowsFits ==
  ASSUME IInv, NEW n \in 1..Len(kel), NEW m \in Message, Follows(snapshots[n], m.event)
  PROVE  /\ m.event.pre = EventAt(1).pre
         /\ m.event.sn = n
         /\ m.event.prior = EventAt(n).said
         /\ m.event.kind \in (IF EventAt(1).kind = "dip" THEN {"drt", "ixn"} ELSE {"rot", "ixn"})
<1>1. Tracks(kel, snapshots, n) /\ Tracks(kel, snapshots, 1) /\ 1 \in 1..Len(kel) /\ n \in Nat
  <2>1. 1 \in 1..Len(kel) /\ n \in Nat
    BY DEF IInv, TypeOK
  <2> QED
    BY <2>1 DEF IInv, Tracked
<1> QED
  BY <1>1 DEF Tracks, Linked, Carried, QuietSince, Follows, EventAt

(* The three ways a log changes are steps of the abstract log.             *)
LEMMA FoundsLog ==
  ASSUME IInv, NEW m \in Message, m.event \in Heard, kel = <<>>, Admit(m)
  PROVE  Promise!Found(m.event)
<1>1. kel' = <<m>> /\ m.event.kind \in {"icp", "dip"} /\ m.event.sn = 0
  BY AdmitGenesis
<1>2. Log = <<>> /\ Log' = <<m.event>>
  BY <1>1 DEF Log, EventAt
<1> QED
  BY <1>1, <1>2 DEF Promise!Found, Promise!Genesis

(* An event admitted onto a log that has begun is an Extend of the abstract *)
(* log.                                                                    *)
LEMMA ExtendsLog ==
  ASSUME IInv, NEW m \in Message, kel # <<>>, Admit(m)
  PROVE  Promise!Extend(m.event)
<1> DEFINE n == Len(kel)
<1>1. /\ kel \in Seq(Message) /\ n \in 1..Len(kel) /\ n \in 0..Len(kel) /\ n \in Nat
      /\ head = snapshots[n]
  BY DEF IInv, TypeOK
<1>2. /\ Follows(snapshots[n], m.event)
      /\ kel' \in Seq(Message) /\ Len(kel') = n + 1
      /\ \A i \in 1..n : kel'[i] = kel[i]
      /\ kel'[n + 1] = m
  BY <1>1, AdmitStep
<1>3. /\ m.event.pre = EventAt(1).pre /\ m.event.sn = n /\ m.event.prior = EventAt(n).said
      /\ m.event.kind \in (IF EventAt(1).kind = "dip" THEN {"drt", "ixn"} ELSE {"rot", "ixn"})
  BY <1>1, <1>2, FollowsFits
<1>4. /\ Log \in Seq(Event) /\ Len(Log) = n
      /\ \A i \in 1..n : Log[i] = EventAt(i)
  BY <1>1, EventsOfStream DEF EventsOf, Log, EventAt
<1>5. Log' = Append(Log, m.event)
  <2>1. EventsOf(kel') = Append(SubSeq(EventsOf(kel), 1, n), m.event)
    BY <1>1, <1>2, EventsOfGrowth
  <2>2. Log = EventsOf(kel) /\ Log' = EventsOf(kel')
    BY DEF Log, EventsOf, EventAt
  <2>3. SubSeq(Log, 1, n) = Log
    BY <1>4
  <2> QED
    BY <2>1, <2>2, <2>3
<1>6. Log # <<>> /\ Log[1] = EventAt(1) /\ Log[Len(Log)] = EventAt(n)
  BY <1>1, <1>4
<1> QED
  BY <1>3, <1>4, <1>5, <1>6 DEF Promise!Extend, Promise!ChainsTo, Promise!Fits

(* A recovery is a Recover of the abstract log: it replaces interactions, or *)
(* in a delegated log a rotation by a rotation, and never touches the genesis. *)
LEMMA RecoversLog ==
  ASSUME IInv, NEW m \in Message, Recover(m)
  PROVE  Promise!Recover(m.event)
<1> DEFINE n == m.event.sn
<1>1. /\ n \in 1..(Len(kel) - 1)
      /\ Follows(snapshots[n], m.event)
      /\ m.event.kind # "ixn"
      /\ \/ EventAt(n + 1).kind = "ixn"
         \/ EventAt(n + 1).kind = "drt" /\ m.event.kind = "drt"
      /\ \A i \in (n + 2)..Len(kel) : EventAt(i).kind = "ixn"
  BY RecoverBounds
<1>2. /\ kel' \in Seq(Message) /\ Len(kel') = n + 1
      /\ \A i \in 1..n : kel'[i] = kel[i]
      /\ kel'[n + 1] = m
  BY RecoverStep
<1>3. kel \in Seq(Message) /\ n \in 1..Len(kel) /\ n \in 0..Len(kel) /\ Len(kel) \in Nat
  BY <1>1 DEF IInv, TypeOK
<1>4. /\ m.event.pre = EventAt(1).pre /\ m.event.prior = EventAt(n).said
      /\ m.event.kind \in (IF EventAt(1).kind = "dip" THEN {"drt", "ixn"} ELSE {"rot", "ixn"})
  BY <1>1, <1>3, FollowsFits
<1>5. /\ Log \in Seq(Event) /\ Len(Log) = Len(kel)
      /\ \A i \in 1..Len(kel) : Log[i] = EventAt(i)
  BY <1>3, EventsOfStream DEF EventsOf, Log, EventAt
<1>6. Log' = Append(SubSeq(Log, 1, n), m.event)
  <2>1. EventsOf(kel') = Append(SubSeq(EventsOf(kel), 1, n), m.event)
    BY <1>2, <1>3, EventsOfGrowth
  <2>2. Log = EventsOf(kel) /\ Log' = EventsOf(kel')
    BY DEF Log, EventsOf, EventAt
  <2> QED
    BY <2>1, <2>2
<1> DEFINE prefix == SubSeq(Log, 1, n)
<1>7. Promise!ChainsTo(m.event, prefix)
  <2>1. /\ prefix \in Seq(Event) /\ Len(prefix) = n
        /\ prefix[1] = EventAt(1) /\ prefix[n] = EventAt(n)
    BY <1>3, <1>5, SubSeqProperties
  <2> HIDE DEF prefix
  <2>2. prefix # <<>>
    BY <1>1, <2>1
  <2> QED
    BY <1>4, <2>1, <2>2 DEF Promise!ChainsTo
<1>8. Promise!Fits(m.event, Log[1])
  BY <1>3, <1>4, <1>5 DEF Promise!Fits
<1>9. /\ Log[n + 1].kind = "ixn" \/ (Log[n + 1].kind = "drt" /\ m.event.kind = "drt")
      /\ \A i \in (n + 2)..Len(Log) : Log[i].kind = "ixn"
  BY <1>1, <1>3, <1>5
<1> QED
  BY <1>1, <1>5, <1>6, <1>7, <1>8, <1>9 DEF Promise!Recover

(* Whatever arrives in whatever order, the host's log is the promised one: *)
(* append-only but for recoveries of the two permitted shapes.             *)
THEOREM HostKeepsPromise == Spec => KeepsPromise
<1>1. Init => Promise!Init
  <2> SUFFICES ASSUME Init PROVE Promise!Init
    OBVIOUS
  <2>1. CASE kel = <<>>
    BY <2>1 DEF Promise!Init, Log
  <2>2. CASE kel # <<>>
    <3>1. /\ kel \in Stored /\ kel = <<kel[1]>> /\ kel[1] \in Message
          /\ \E ev \in Evidence : InceptWith(kel[1], ev) = "Ok"
      BY <2>2, KelHostAssumption DEF Init
    <3>2. PICK m \in Message : kel = <<m>>
      BY <3>1
    <3>3. m.event.kind \in {"icp", "dip"} /\ m.event.sn = 0 /\ m.event \in Heard
      BY <2>2, <3>1, <3>2, GenesisPasses DEF Heard
    <3>4. Log = <<m.event>>
      BY <3>2 DEF Log, EventAt
    <3> QED
      BY <3>3, <3>4 DEF Promise!Init, Promise!Genesis
  <2> QED
    BY <2>1, <2>2
<1>2. IInv /\ [Next]_vars => [Promise!Next]_Log
  <2> SUFFICES ASSUME IInv, [Next]_vars PROVE [Promise!Next]_Log
    OBVIOUS
  <2>1. CASE UNCHANGED kel
    BY <2>1 DEF Log, EventAt
  <2>2. ASSUME NEW m \in Message, m.event \in Heard, Admit(m)
        PROVE  Promise!Next
    BY <2>2, FoundsLog, ExtendsLog DEF Promise!Next
  <2>3. ASSUME NEW m \in Message, m.event \in Heard, Recover(m)
        PROVE  Promise!Next
    BY <2>3, RecoversLog DEF Promise!Next
  <2> QED
    BY <2>1, <2>2, <2>3, LogChanges
<1> QED
  BY <1>1, <1>2, Invariant, PTL DEF Spec, KeepsPromise, Promise!Spec
=============================================================================
