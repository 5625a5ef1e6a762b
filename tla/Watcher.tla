------------------------------ MODULE Watcher ------------------------------
(***************************************************************************)
(* A host that watches one identifier. Its log grows and is recovered as   *)
(* AbstractKel promises. Around it the host collects receipts of the       *)
(* accepted events, keeps the newest reply per resource with its marker    *)
(* (docs/discovery-integration.md), and serves queries. Posts come in any  *)
(* order; some are repeated by their senders, the others come once and     *)
(* wait on the desk for what they lack, or are dropped for good.           *)
(***************************************************************************)
EXTENDS Receipt, Discovery

CONSTANTS
  Events,       (* What the watched log may record.                        *)
  Mails,        (* Sets of receipts, replies and queries under way.        *)
  Repeated,     (* The posts whose senders repeat them.                    *)
  Acquaintances (* Establishments of other identifiers the host may learn. *)

Posts == UNION Mails

(* The fold that accepted an event refused repeated witnesses, and names   *)
(* do not collide.                                                         *)
ASSUME WatcherAssumption ==
  /\ Events \subseteq Event
  /\ \A e, f \in Events : e.said = f.said => e = f
  /\ \A e \in Events : Unique(e.wits)
  /\ Posts \subseteq Receipt \cup Routed
  /\ Repeated \subseteq Posts
  /\ Acquaintances \subseteq Establishment
  /\ None \notin Establishment \cup Routed \cup State
  /\ \A p \in Posts : p.kind = "rpy" /\ p.signers # <<>> /\ ValidTime(p.time)
                         => Version(p.signers[1], p.time) # None

VARIABLES
  log,          (* The accepted events, number n at n + 1.                 *)
  met,          (* The acquaintances learned so far.                       *)
  desk,         (* The posts not yet settled.                              *)
  tally,        (* Per event name, the receipts that count, with position. *)
  endorsers,    (* Per event name, who else vouched for it.                *)
  standing,     (* Per resource, the reply in force.                       *)
  marker,       (* Per resource, the version of the reply in force.        *)
  served        (* The queries answered.                                   *)

vars == <<log, met, desk, tally, endorsers, standing, marker, served>>
kept == <<tally, endorsers, standing, marker, served>>

Kel == INSTANCE AbstractKel

Resources == {p.resource : p \in {q \in Posts : q.kind = "rpy"}}

Init ==
  /\ Kel!Init
  /\ met = {}
  /\ desk \in Mails
  /\ tally = [d \in Saids |-> {}]
  /\ endorsers = [d \in Saids |-> {}]
  /\ standing = [r \in Resources |-> None]
  /\ marker = [r \in Resources |-> None]
  /\ served = {}

-----------------------------------------------------------------------------
(* Reading the log by the trusted fold.                                    *)

States ==
  LET after[i \in 0..Len(log)] == IF i = 0 THEN None ELSE Advance(after[i - 1], log[i])
  IN  after

Now == States[Len(log)]

(* The witnesses in order: a receipt names its witness by position.        *)
WitnessLists ==
  LET list[i \in 0..Len(log)] ==
        IF i = 0 THEN <<>>
        ELSE IF log[i].kind = "ixn" THEN list[i - 1]
        ELSE UpdatedList(list[i - 1], log[i].cuts, log[i].wits)
  IN  list

(* A mutant: the witnesses of now, whatever event is receipted.            *)
GoverningNow(i) == WitnessLists[Len(log)]

(* The witnesses of an event: those in force once it is applied.           *)
Governing(i) == WitnessLists[i]

Accounted(i) ==
  AccountedBy(Governing(i), States[i].toad, tally[log[i].said]) = "Ok"

(* The key state at the signer's coordinate, if the log has come so far.   *)
Historical(signer) ==
  IF log # <<>> /\ signer.identifier = log[1].pre /\ signer.sn + 1 \in DOMAIN log
  THEN States[signer.sn + 1] ELSE None

HistoricalOf(p) == IF p.signers = <<>> THEN None ELSE Historical(p.signers[1])

-----------------------------------------------------------------------------
(* The log and the host's acquaintance grow.                               *)
Watch ==
  /\ Kel!Next
  /\ UNCHANGED <<met, desk, kept>>

Learn(est) ==
  /\ est \notin met
  /\ met' = met \cup {est}
  /\ UNCHANGED <<log, desk, kept>>

(* A post is done with; a sender may repeat it all the same.               *)
Settle(p) == desk' = IF p \in Repeated THEN desk ELSE desk \ {p}

(* What the host knows of the endorser at the number the receipt claims.   *)
Receiptor(r) ==
  LET known == {est \in met : est.pre = r.endorser /\ est.sn = r.estSn}
  IN  IF known = {} THEN None ELSE CHOOSE est \in known : TRUE

(* A receipt is judged once there is an event at its number.               *)
VerdictOn(r) ==
  IF log = <<>> \/ r.pre # log[1].pre \/ r.sn + 1 \notin DOMAIN log THEN "NoEvent"
  ELSE ReceiptVerdict(log[r.sn + 1], Governing(r.sn + 1), r, Receiptor(r))

File(r) ==
  /\ VerdictOn(r) = "Ok"
  /\ LET position == PositionOf(Governing(r.sn + 1), r)
     IN  IF position = 0
         THEN /\ endorsers' = [endorsers EXCEPT ![r.said] = @ \cup {r.endorser}]
              /\ UNCHANGED tally
         ELSE /\ tally' =
                   [tally EXCEPT ![r.said] = @ \cup {[receipt |-> r, position |-> position]}]
              /\ UNCHANGED endorsers
  /\ Settle(r)
  /\ UNCHANGED <<log, met, standing, marker, served>>

Refuse(r) ==
  /\ VerdictOn(r) # "NoEvent"
  /\ ReceiptDisposition(VerdictOn(r)) = "Terminal"
  /\ Settle(r)
  /\ UNCHANGED <<log, met, kept>>

VerdictOnReply(p) ==
  ReplyVerdict(p, HistoricalOf(p),
    IF log # <<>> /\ p.subject = log[1].pre THEN Now ELSE None,
    WitnessLists[Len(log)], marker[p.resource])

(* The reply and its marker are stored in one transaction.                 *)
Adopt(p) ==
  /\ VerdictOnReply(p) = "Ok"
  /\ standing' = [standing EXCEPT ![p.resource] = p]
  /\ marker' = [marker EXCEPT ![p.resource] = Version(p.signers[1], p.time)]
  /\ Settle(p)
  /\ UNCHANGED <<log, met, tally, endorsers, served>>

(* A hint is followed elsewhere, a terminal reply dropped.                 *)
Dismiss(p) ==
  /\ \/ VerdictOnReply(p) = "UntrustedHint"
     \/ DiscoveryDisposition(VerdictOnReply(p)) = "Terminal"
  /\ Settle(p)
  /\ UNCHANGED <<log, met, kept>>

Serve(q) ==
  /\ QueryVerdict(q, HistoricalOf(q)) = "Ok"
  /\ served' = served \cup {q}
  /\ Settle(q)
  /\ UNCHANGED <<log, met, tally, endorsers, standing, marker>>

Decline(q) ==
  /\ DiscoveryDisposition(QueryVerdict(q, HistoricalOf(q))) = "Terminal"
  /\ Settle(q)
  /\ UNCHANGED <<log, met, kept>>

Take(p) ==
  /\ p \in desk
  /\ \/ p.kind = "rct" /\ (File(p) \/ Refuse(p))
     \/ p.kind = "rpy" /\ (Adopt(p) \/ Dismiss(p))
     \/ p.kind = "qry" /\ (Serve(p) \/ Decline(p))

Next ==
  \/ Watch
  \/ \E est \in Acquaintances : Learn(est)
  \/ \E p \in Posts : Take(p)

Spec == Init /\ [][Next]_vars

(* The host takes up what it can settle, and its evidence comes in.        *)
Fairness ==
  /\ WF_vars(Watch)
  /\ WF_vars(\E est \in Acquaintances : Learn(est))
  /\ WF_vars(\E p \in Posts : Take(p))

FairSpec == Spec /\ Fairness

-----------------------------------------------------------------------------
(* The event's own witnesses whose signature over it the host holds.       *)
Signed(i) ==
  {w \in States[i].wits :
     \E n \in tally[log[i].said] : \E sig \in n.receipt.sigs : Verifies(sig, w, log[i])}

(* Witnessing::accounted_by counts witnesses, not receipts, and however    *)
(* the log was recovered since: the host holds signatures over an event    *)
(* said to be accounted for by as many of its own witnesses as its         *)
(* threshold asks, though one may send a couple and an indexed receipt.    *)
WitnessedByToad ==
  \A i \in DOMAIN log : Accounted(i) => Cardinality(Signed(i)) >= States[i].toad

(* The calendar by counting: the leap years gone by since the year 0, the  *)
(* dates of the year gone by, the minutes less the offset.                 *)
DatesOf(year) == {d \in (1..12) \X (1..31) : d[2] <= DaysInMonth(year, d[1])}

DaysBefore(t) ==
  365 * t.year + Cardinality({y \in 0..(t.year - 1) : Leap(y)})
    + Cardinality({d \in DatesOf(t.year) : Earlier(d, <<t.month, t.day>>)})

MinutesBefore(t) ==
  DaysBefore(t) * 1440 + t.hour * 60 + t.minute
    - t.sign * (t.offsetHour * 60 + t.offsetMinute)

(* The seconds and the fraction of the minute, as a fraction with its own  *)
(* power of ten.                                                           *)
EarlierFraction(t, u) == t.fraction * 10^u.precision < u.fraction * 10^t.precision

EarlierInstant(t, u) ==
  \/ MinutesBefore(t) < MinutesBefore(u)
  \/ /\ MinutesBefore(t) = MinutesBefore(u)
     /\ t.second < u.second \/ (t.second = u.second /\ EarlierFraction(t, u))

(* A reply is replaced only by a newer one: of a later establishment of    *)
(* its signer, or of the same one and later in time, in any time zone.     *)
Newer(old, new) ==
  \/ new.signers[1].sn > old.signers[1].sn
  \/ /\ new.signers[1].sn = old.signers[1].sn
     /\ EarlierInstant(old.time, new.time)

NewerOnly ==
  [][\A r \in Resources :
       standing[r] # None /\ standing'[r] # standing[r] => Newer(standing[r], standing'[r])]_vars

(* What stands or was served was signed by a quorum of the keys that the   *)
(* log as it now stands establishes at the named place: a recovery leaves  *)
(* nothing behind that rests on an interaction's number.                   *)
Backed(signer) ==
  \/ ~signer.transferable /\ \A sig \in signer.sigs : sig.signer = signer.identifier
  \/ /\ signer.sn + 1 \in DOMAIN log
     /\ LET est == log[signer.sn + 1]
        IN  /\ est.kind \in Establishments
            /\ est.said = signer.said
            /\ Verify(est.keys, est.kt, signer.sigs) = "Ok"

StandingIsBacked ==
  /\ \A r \in Resources : standing[r] # None => Backed(standing[r].signers[1])
  /\ \A q \in served : Backed(q.signers[1])
=============================================================================
