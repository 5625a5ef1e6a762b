----------------------------- MODULE Discovery -----------------------------
(***************************************************************************)
(* Signed replies about where to find an identifier and what its key state *)
(* is, and queries for its log (discovery.rs and wire.rs of the keri crate *)
(* over routed.rs of the codec): who may sign which claim, against which   *)
(* historical key state, and which of two replies about a resource is the  *)
(* newer one.                                                              *)
(*                                                                         *)
(* A reply about one resource carries a time with a UTC offset. Nanos are  *)
(* kept apart from seconds: <<seconds, nanos>> orders as the code's i128   *)
(* of nanoseconds does.                                                    *)
(***************************************************************************)
EXTENDS KeyState

(* The fraction is written with "precision" digits, none when 0.           *)
Clock ==
  [year : 0..9999, month : 0..99, day : 0..99, hour : 0..99, minute : 0..99,
   second : 0..99, fraction : Nat, precision : Nat,
   sign : {-1, 1}, offsetHour : 0..99, offsetMinute : 0..99]

Time == {t \in Clock : t.fraction < 10^t.precision}

Leap(year) == year % 4 = 0 /\ (year % 100 # 0 \/ year % 400 = 0)

DaysInMonth(year, month) ==
  IF month \in {1, 3, 5, 7, 8, 10, 12} THEN 31
  ELSE IF month \in {4, 6, 9, 11} THEN 30
  ELSE IF Leap(year) THEN 29 ELSE 28

ValidTime(t) ==
  /\ t.month \in 1..12
  /\ t.day \in 1..DaysInMonth(t.year, t.month)
  /\ t.hour <= 23 /\ t.minute <= 59 /\ t.second <= 59
  /\ t.precision <= 9
  /\ t.offsetHour <= 23 /\ t.offsetMinute <= 59

(* Days since 1970-01-01: a year starts in March, so that the leap day is  *)
(* its last, and 400 years are an era.                                     *)
DayNumber(t) ==
  LET year == IF t.month <= 2 THEN t.year - 1 ELSE t.year
      era == year \div 400
      yearOfEra == year - era * 400
      month == IF t.month > 2 THEN t.month - 3 ELSE t.month + 9
      dayOfYear == (153 * month + 2) \div 5 + t.day - 1
  IN  era * 146097 + yearOfEra * 365 + yearOfEra \div 4 - yearOfEra \div 100
        + dayOfYear - 719468

(* A mutant: the local time, whatever the offset.                          *)
LocalTime(t) ==
  <<DayNumber(t) * 86400 + t.hour * 3600 + t.minute * 60 + t.second,
    IF t.precision = 0 THEN 0 ELSE t.fraction * 10^(9 - t.precision)>>

Utc(t) ==
  <<DayNumber(t) * 86400 + t.hour * 3600 + t.minute * 60 + t.second
      - t.sign * (t.offsetHour * 60 + t.offsetMinute) * 60,
    IF t.precision = 0 THEN 0 ELSE t.fraction * 10^(9 - t.precision)>>

Earlier(a, b) == a[1] < b[1] \/ (a[1] = b[1] /\ a[2] < b[2])

-----------------------------------------------------------------------------
(* Signers. A couple's prefix is its key; a group claims a coordinate of   *)
(* its signer's log.                                                       *)

Signer ==
  {s \in [identifier : Identifiers, transferable : BOOLEAN,
          sn : Nat, said : Saids \cup {None}, sigs : SUBSET Siger] :
     ~s.transferable => s.sn = 0 /\ s.said = None}

(* A mutant: the named coordinate need not be an establishment's.          *)
FitsNumber(state, signer) == state.pre = signer.identifier /\ state.sn = signer.sn

(* The historical state is the one right after the named establishment.    *)
FitsCoordinate(state, signer) ==
  /\ state.pre = signer.identifier
  /\ state.sn = signer.sn
  /\ state.estSn = signer.sn
  /\ state.estSaid = signer.said

JudgeSigner(owner, signer, historical) ==
  Require(signer.identifier = owner, "WrongSigner")
  && IF ~signer.transferable
     THEN Require(\A sig \in signer.sigs : sig.signer = signer.identifier, "BadSignature")
     ELSE IF historical = None THEN "MissingSignerState"
     ELSE Require(FitsCoordinate(historical, signer), "SignerStateMismatch")
          && Require(Verify(historical.keys, historical.kt, signer.sigs) = "Ok", "BadSignature")

Version(signer, time) ==
  [establishmentSn |-> IF signer.transferable THEN signer.sn ELSE 0, utc |-> Utc(time)]

(* Later establishments first, then later times.                           *)
IsStale(version, previous) ==
  previous # None /\
    \/ version.establishmentSn < previous.establishmentSn
    \/ /\ version.establishmentSn = previous.establishmentSn
       /\ ~Earlier(previous.utc, version.utc)

(* DiscoveryReply::judge: the clock, the signer, then the marker.          *)
Judge(owner, time, signer, historical, previous) ==
  Require(ValidTime(time), "InvalidTimestamp")
  && JudgeSigner(owner, signer, historical)
  && Require(~IsStale(Version(signer, time), previous), "Stale")

-----------------------------------------------------------------------------
(* Routed messages. "resource" is what a reply updates: adding and cutting *)
(* a role share one.                                                       *)

Routes == {"/end/role/add", "/end/role/cut", "/loc/scheme", "/oobi/witness", "/ksn", "/logs"}

(* Every field of a key state but whether it is transferable, and the      *)
(* witnesses in their order.                                               *)
Noticed == {"pre", "sn", "said", "kind", "kt", "keys", "nt", "next", "toad", "conf",
            "estSn", "estSaid", "delegator"}
Notice == [state : State, wits : Seq(Keys)]

NoticeMatchesState(notice, state, wits) ==
  /\ \A f \in Noticed : notice.state[f] = state[f]
  /\ notice.wits = wits

(* "subject" is the controller of a role, the endpoint of a location, the  *)
(* identifier whose state is noticed, and the target of a query.           *)
Routed ==
  [kind : {"rpy", "qry"}, route : STRING, wellFormed : BOOLEAN, subject : Identifiers,
   resource : STRING, notice : Notice \cup {None}, time : Time, signers : Seq(Signer)]

OneSigner(p) ==
  IF p.signers = <<>> THEN "MissingSigner"
  ELSE Require(Len(p.signers) = 1, "AmbiguousSigner")

(* DiscoveryJudge::reply. A hint needs no signer and proves nothing.       *)
ReplyVerdict(p, historical, subject, wits, previous) ==
  Require(p.kind = "rpy" /\ p.route \in Routes \ {"/logs"}, "UnsupportedRoute")
  && Require(p.wellFormed, "MalformedRoute")
  && IF p.route = "/oobi/witness" THEN "UntrustedHint"
     ELSE OneSigner(p)
          && Judge(p.subject, p.time, p.signers[1], historical, previous)
          && IF p.route # "/ksn" THEN "Ok"
             ELSE IF subject = None THEN "MissingSubjectState"
             ELSE Require(NoticeMatchesState(p.notice, subject, wits), "SubjectStateMismatch")

(* DiscoveryJudge::query: whoever signs asks, and asks again.              *)
QueryVerdict(p, historical) ==
  Require(p.kind = "qry" /\ p.route = "/logs", "UnsupportedRoute")
  && Require(p.wellFormed, "MalformedRoute")
  && OneSigner(p)
  && Judge(p.signers[1].identifier, p.time, p.signers[1], historical, None)

DiscoveryDisposition(verdict) ==
  IF verdict \in {"Ok", "UntrustedHint"} THEN "Accepted"
  ELSE IF verdict \in {"MissingSigner", "MissingSignerState", "MissingSubjectState"}
       THEN "Awaiting"
  ELSE "Terminal"
=============================================================================
