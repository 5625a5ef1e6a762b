----------------------------- MODULE Duplicity -----------------------------
(***************************************************************************)
(* The judge of contested sequence numbers (keri, duplicity.rs). An event  *)
(* whose sequence number the log already occupies is compared with what    *)
(* the host recorded there. The judge sees no signatures: it only says     *)
(* whether a recovery rule fires; the re-ingest after the rewind proves.   *)
(*                                                                         *)
(* A verdict is one of SameSnVerdicts; anything else is an EvidenceError:  *)
(* the host's evidence disagrees with the state or with itself.            *)
(***************************************************************************)
EXTENDS KeyState

SameSnVerdicts == {"Duplicate", "Supersedes", "Duplicitous", "Yields", "Undecided"}

(* The pair of delegating events one level of the climb compares.          *)
Contest == [incumbent : Event, challenger : Event]

SaidVerdict(incoming, recorded) ==
  IF incoming.said = recorded.said THEN "Duplicate" ELSE "Duplicitous"

-----------------------------------------------------------------------------
(* One level: both delegating events must seal the events below them; then *)
(* B1 the later delegating event, B3 a delegating rotation over a          *)
(* delegating interaction, B2 in one event the later seal; else a tie.     *)

Level(old, new, contest) ==
  LET challengerAt == AnchorPosition(contest.challenger, new)
      incumbentAt == AnchorPosition(contest.incumbent, old)
  IN  IF challengerAt = 0 \/ incumbentAt = 0 THEN "SealNotFound"
      ELSE IF contest.challenger.sn > contest.incumbent.sn THEN "Supersedes"
      ELSE IF contest.challenger.kind = "drt" /\ contest.incumbent.kind = "ixn"
      THEN "Supersedes"
      ELSE IF contest.challenger.said # contest.incumbent.said THEN "Tie"
      ELSE IF challengerAt > incumbentAt THEN "Supersedes" ELSE "Yields"

(* The climb: level n judges the delegating events of level n - 1, and the *)
(* first level that is not a tie decides. keripy's recursion is bounded by *)
(* the slice of evidence: exhausted, the contest stays undecided.          *)
(* A mutant: the climb stops at the first level.                           *)
CascadeOneLevel(incoming, recorded, chain, delegator) ==
  IF chain = <<>> \/ Level(recorded, incoming, chain[1]) = "Tie" THEN "Undecided"
  ELSE Level(recorded, incoming, chain[1])

Cascade(incoming, recorded, chain, delegator) ==
  LET old(n) == IF n = 1 THEN recorded ELSE chain[n - 1].incumbent
      new(n) == IF n = 1 THEN incoming ELSE chain[n - 1].challenger
      strangers(n) == \/ chain[n].incumbent.pre # chain[n].challenger.pre
                      \/ n = 1 /\ chain[n].incumbent.pre # delegator
      outcome(n) == IF strangers(n) THEN "DelegatingIdentifierMismatch"
                    ELSE Level(old(n), new(n), chain[n])
      decided == {n \in DOMAIN chain : outcome(n) # "Tie"}
  IN  IF decided = {} THEN "Undecided"
      ELSE outcome(CHOOSE n \in decided : \A k \in decided : n <= k)

-----------------------------------------------------------------------------
(* Bind the host's history to the state's bookmark of its last             *)
(* establishment, as far as the state can tell.                            *)
CheckRecordedHistory(s, recorded) ==
  LET expected == CASE s.delegator = None /\ recorded.sn = 0 -> "icp"
                    [] s.delegator = None /\ recorded.sn # 0 -> "rot"
                    [] s.delegator # None /\ recorded.sn = 0 -> "dip"
                    [] s.delegator # None /\ recorded.sn # 0 -> "drt"
  IN  CASE recorded.sn = s.estSn ->
             Require(recorded.said = s.estSaid /\ recorded.kind = expected,
                     "RecordedEstablishmentMismatch")
        [] recorded.sn > s.estSn ->
             Require(recorded.kind = "ixn", "RecordedPostEstablishmentKind")
        [] OTHER -> "Ok"

CheckEvidence(s, incoming, recorded) ==
  Require(incoming.sn <= s.sn, "IncomingNotStale")
  && Require(recorded.sn = incoming.sn, "RecordedSnMismatch")
  && Require(incoming.pre = s.pre, "IncomingIdentifierMismatch")
  && Require(recorded.pre = s.pre, "RecordedIdentifierMismatch")
  && Require(recorded.sn = s.sn => recorded.said = s.said /\ recorded.kind = s.kind,
             "RecordedHeadMismatch")
  && CheckRecordedHistory(s, recorded)
  && Require(/\ incoming.kind = "rot" => s.delegator = None
             /\ incoming.kind = "drt" => s.delegator # None,
             "IncompatibleEventKind")

(* Two mutants: a rotation also contests the last establishment; any kind  *)
(* of event recovers.                                                      *)
RecoveryAtEstablishment(s, incoming, recorded, chain) ==
  IF incoming.kind = "rot" /\ s.estSn <= incoming.sn THEN "Supersedes"
  ELSE SaidVerdict(incoming, recorded)

RecoveryByAnyKind(s, incoming, recorded, chain) ==
  IF s.estSn < incoming.sn THEN "Supersedes" ELSE SaidVerdict(incoming, recorded)

(* A rotation recovers from interactions after the last establishment; a   *)
(* delegated rotation may also contest the last establishment itself.      *)
RecoveryVerdict(s, incoming, recorded, chain) ==
  CASE incoming.kind = "rot" /\ s.estSn < incoming.sn -> "Supersedes"
    [] incoming.kind = "drt" /\ s.estSn <= incoming.sn /\ recorded.kind = "ixn" -> "Supersedes"
    [] incoming.kind = "drt" /\ s.estSn <= incoming.sn /\ recorded.kind = "drt" ->
         Cascade(incoming, recorded, chain, s.delegator)
    [] OTHER -> SaidVerdict(incoming, recorded)

JudgeSameSn(s, incoming, recorded, chain) ==
  CheckEvidence(s, incoming, recorded)
  && RecoveryVerdict(s, incoming, recorded, chain)
=============================================================================
