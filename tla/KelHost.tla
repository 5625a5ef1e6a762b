------------------------------ MODULE KelHost ------------------------------
(***************************************************************************)
(* A host of one key event log: the event-sourced validator the keri crate *)
(* is written for (lib.rs), which keeps what the crate leaves to it: the   *)
(* stream of accepted messages and the escrow of parked ones. Messages     *)
(* arrive in any order: all those of a storm any number of times, those of *)
(* an errand once each. Each is put to the validating fold; its            *)
(* Disposition says whether the host drops it, parks it, or has the judge  *)
(* decide a contested sequence number. On Supersedes the host rewinds,     *)
(* re-folds and re-ingests.                                                *)
(*                                                                         *)
(* A rewind is a transaction: the stream is replaced only if the re-ingest *)
(* accepts, since the judge has authenticated nothing.                     *)
(***************************************************************************)
EXTENDS Duplicity

CONSTANTS
  Storms,      (* Sets of messages a network may carry again and again.    *)
  Errands,     (* Sets of messages a network may carry once each.          *)
  Evidence,    (* Delegation evidence the host may come to hold.           *)
  Chains,      (* Delegation-contest chains the host may come to hold.     *)
  Stored       (* Streams a host may boot from: none, or a lone genesis.   *)

Messages == UNION (Storms \cup Errands)

(* The fold's entries: the delegated ones where the host holds evidence.   *)
WithEvidence(m, ev) == m.event.kind \in {"dip", "drt"} /\ ev.kind # "none"

IngestWith(s, m, ev) ==
  IF WithEvidence(m, ev) THEN IngestDelegated(s, m, ev) ELSE Ingest(s, m)

InceptWith(m, ev) ==
  IF WithEvidence(m, ev) THEN InceptDelegated(m, ev) ELSE Incept(m)

ASSUME KelHostAssumption ==
  /\ Messages \subseteq Message
  /\ NoEvidence \in Evidence
  /\ \A ev \in Evidence : ev.kind \in {"none", "host", "anchored"}
  /\ <<>> \in Chains
  /\ \A storm \in Storms, errand \in Errands : ~(storm \subseteq errand)
  /\ \A stream \in Stored :
       \/ stream = <<>>
       \/ /\ stream = <<stream[1]>>
          /\ stream[1] \in Message
          /\ \E ev \in Evidence : InceptWith(stream[1], ev) = "Ok"

VARIABLES
  unread,      (* Messages in flight.                                      *)
  escrow,      (* Parked messages, evidence for one event merged.          *)
  kel,         (* The stream: the accepted messages, sn n at position n+1. *)
  head,        (* The key state the validating fold has reached, or None.  *)
  snapshots    (* The trusted fold's replay of each prefix of the stream.  *)

vars == <<unread, escrow, kel, head, snapshots>>

Init ==
  /\ unread \in Storms \cup Errands
  /\ escrow = {}
  /\ kel \in Stored
  /\ head = IF kel = <<>> THEN None ELSE SeedState(kel[1].event)
  /\ snapshots = IF kel = <<>> THEN <<>> ELSE <<Advance(None, kel[1].event)>>

-----------------------------------------------------------------------------
(* The fold's answer: to a genesis while there is no log, to a step after. *)
Verdict(m, ev) ==
  IF kel = <<>> THEN InceptWith(m, ev) ELSE IngestWith(head, m, ev)

(* What the fold may answer, with the evidence the host may hold by now.   *)
Verdicts(m) == {Verdict(m, ev) : ev \in Evidence}
May(m, disposition) == \E v \in Verdicts(m) : Disposition(v) = disposition

(* Late signatures and receipts join those already parked for the event.   *)
SameEvent(m) == {p \in escrow : p.event = m.event}
(* A mutant: what arrives replaces what was parked.                        *)
NotMerged(m) == m

Merged(m) ==
  [m EXCEPT !.sigs = @ \cup UNION {p.sigs : p \in SameEvent(m)},
            !.wigs = @ \cup UNION {p.wigs : p \in SameEvent(m)}]

Settle(m) == escrow' = escrow \ SameEvent(m)
Park(m) == escrow' = (escrow \ SameEvent(m)) \cup {m}
KeepLog == UNCHANGED <<kel, head, snapshots>>

-----------------------------------------------------------------------------
(* The ends of a message put to the fold.                                 *)

Admit(m) ==
  /\ "Ok" \in Verdicts(m)
  /\ kel' = Append(kel, m)
  /\ head' = IF kel = <<>> THEN SeedState(m.event) ELSE Apply(head, m.event)
  /\ snapshots' =
       Append(snapshots, Advance(IF kel = <<>> THEN None ELSE snapshots[Len(kel)], m.event))
  /\ Settle(m)

Await(m) ==
  /\ May(m, "Awaiting")
  /\ Park(m)
  /\ KeepLog

Drop(m) ==
  /\ May(m, "Terminal")
  /\ Settle(m)
  /\ KeepLog

(* A contest over a position the log does not have has no recorded event   *)
(* and no judge.                                                           *)
Recorded(m) == m.event.sn + 1 \in DOMAIN kel
Judgment(m, chain) ==
  IF Recorded(m)
  THEN JudgeSameSn(head, m.event, kel[m.event.sn + 1].event, chain)
  ELSE "IncomingNotStale"
Judgments(m) == {Judgment(m, chain) : chain \in Chains}

(* The judge only says that a recovery rule fires: the superseding event   *)
(* must prove itself to the state before the contested position.           *)
Rewound(m) == snapshots[m.event.sn]
Reingests(m) == {IngestWith(Rewound(m), m, ev) : ev \in Evidence}

Before(list, m) == SubSeq(list, 1, m.event.sn)

Recover(m) ==
  /\ May(m, "Contested")
  /\ "Supersedes" \in Judgments(m)
  /\ "Ok" \in Reingests(m)
  /\ kel' = Append(Before(kel, m), m)
  /\ head' = Apply(Rewound(m), m.event)
  /\ snapshots' = Append(Before(snapshots, m), Advance(Rewound(m), m.event))
  /\ Settle(m)

(* A superseding event that cannot be proved yet, a climb whose evidence   *)
(* ran out and one the evidence does not fit wait.                         *)
Defer(m) ==
  /\ May(m, "Contested")
  /\ \/ \E j \in Judgments(m) :
          j \notin {"Supersedes", "Duplicate", "Duplicitous", "Yields"}
     \/ /\ "Supersedes" \in Judgments(m)
        /\ \E r \in Reingests(m) : Disposition(r) = "Awaiting"
  /\ Park(m)
  /\ KeepLog

(* A duplicate, a duplicitous or inferior event and a superseding one that *)
(* will never prove itself leave the recorded event where it is.           *)
Uphold(m) ==
  /\ May(m, "Contested")
  /\ \/ Judgments(m) \cap {"Duplicate", "Duplicitous", "Yields"} # {}
     \/ /\ "Supersedes" \in Judgments(m)
        /\ \E r \in Reingests(m) : Disposition(r) \notin {"Accepted", "Awaiting"}
  /\ Settle(m)
  /\ KeepLog

Handle(m) == Admit(m) \/ Await(m) \/ Drop(m) \/ Recover(m) \/ Defer(m) \/ Uphold(m)

-----------------------------------------------------------------------------
(* What stays in flight when a message is delivered.                       *)
Kept(m) == IF unread \in Storms THEN unread ELSE unread \ {m}

(* A message arrives, in any order.                                        *)
Deliver(m) ==
  /\ m \in unread
  /\ unread' = Kept(m)
  /\ Handle(Merged(m))

(* The host re-drives a parked message.                                    *)
Redrive(m) ==
  /\ m \in escrow
  /\ Handle(m)
  /\ UNCHANGED unread

Next == \E m \in unread \cup escrow : Deliver(m) \/ Redrive(m)

Spec == Init /\ [][Next]_vars

(* The host reads what it is sent, and re-drives each parked event again   *)
(* and again as evidence comes in. Of a storm nothing is expected.         *)
OnErrand == unread \notin Storms

Fairness ==
  /\ \A m \in UNION Errands : WF_vars(OnErrand /\ Deliver(m))
  /\ \A e \in {m.event : m \in UNION Errands} :
       SF_vars(OnErrand /\ \E m \in escrow : m.event = e /\ Redrive(m))

FairSpec == Spec /\ Fairness

-----------------------------------------------------------------------------
(* Reading the log alone: what an auditor who trusts no state would check. *)

EventAt(i) == kel[i].event
EstablishesAt(i) == EventAt(i).kind \in Establishments
Latest(S) == CHOOSE n \in S : \A k \in S : k <= n
LastEst(i) == Latest({n \in 1..i : EstablishesAt(n)})

(* In force at i: added by an establishment, cut by no later one.          *)
WitnessesAt(i) ==
  {w \in NonTransferable :
     \E n \in 1..i : /\ w \in Members(EventAt(n).wits)
                     /\ \A k \in (n + 1)..i : w \notin Members(EventAt(k).cuts)}

(* The positions of a list of keys that signatures claim, each made by the *)
(* key there; those of a list of commitments that signatures claim, each   *)
(* by a key of the event's own that was committed to at that place.        *)
SignedPositions(i, keys) ==
  {q \in DOMAIN keys :
     \E sig \in kel[i].sigs : sig.index = q - 1 /\ sig.signer = keys[q]}

OpenedPositions(i, next) ==
  {q \in DOMAIN next :
     \E p \in DOMAIN EventAt(i).keys, sig \in kel[i].sigs :
       /\ sig.index = p - 1 /\ sig.signer = EventAt(i).keys[p]
       /\ sig.ondex = q - 1 /\ next[q] = EventAt(i).keys[p]}

SignedByQuorum(i) ==
  LET est == EventAt(LastEst(i))
  IN  Satisfied(est.kt, {q - 1 : q \in SignedPositions(i, est.keys)})

OpensCommitment(i) ==
  LET est == EventAt(LastEst(i - 1))
  IN  Satisfied(est.nt, {q - 1 : q \in OpenedPositions(i, est.next)})

WitnessedEnough(i) ==
  Cardinality(WitnessesAt(i) \cap kel[i].wigs) >= EventAt(LastEst(i)).toad

-----------------------------------------------------------------------------
(* The promise to the log's readers.                                       *)
Log == [i \in DOMAIN kel |-> EventAt(i)]
Heard == {m.event : m \in Messages} \cup {stream[1].event : stream \in Stored \ {<<>>}}
Promise == INSTANCE AbstractKel WITH Events <- Heard, log <- Log
KeepsPromise == Promise!Spec

-----------------------------------------------------------------------------
(* The stream, the escrow and both folds' states keep their shapes,        *)
(* whatever arrives and however often the stream is rewound.               *)
TypeOK ==
  /\ unread \subseteq Messages
  /\ escrow \subseteq Message
  /\ kel \in Seq(Message)
  /\ head \in State \cup {None}
  /\ snapshots \in Seq(State)

(* However recoveries rewound the stream, every accepted event chains to   *)
(* the one before it in the stream as it now stands.                       *)
HashChained ==
  \A i \in DOMAIN kel :
    /\ EventAt(i).sn = i - 1
    /\ EventAt(i).pre = EventAt(1).pre
    /\ i > 1 => EventAt(i).prior = EventAt(i - 1).said

(* The two folds agree: the state the validating fold carries is the       *)
(* trusted fold's replay of the stream (KeyStateSnapshot::advance against  *)
(* apply_rotation and interact_mut), recoveries included.                  *)
FoldsAgree == kel # <<>> => head = snapshots[Len(kel)]

(* From the log alone: every event carries a quorum of the keys of the     *)
(* establishment in force, every rotation a quorum of the keys committed   *)
(* to before it, enough witnesses of the set in force receipted it, and it *)
(* follows no establishment that committed to nothing: "no evidence can    *)
(* re-open a closed KEL" (NonTransferableState).                           *)
Attested ==
  \A i \in DOMAIN kel :
    /\ SignedByQuorum(i)
    /\ i > 1 => EventAt(LastEst(i - 1)).next # <<>>
    /\ i > 1 /\ EstablishesAt(i) => OpensCommitment(i)
    /\ WitnessedEnough(i)

(* Pre-rotation: an establishment event of a nondelegated log, once        *)
(* accepted, is never rewound (rule A1 of the judge).                      *)
EstablishmentIsFinal ==
  [][\A i \in DOMAIN kel :
       EventAt(1).kind = "icp" /\ EstablishesAt(i) =>
         i \in DOMAIN kel' /\ kel'[i] = kel[i]]_vars

(* Once the state is non-transferable the stream never changes again.      *)
ClosedForever ==
  [][head # None /\ ~head.transferable => UNCHANGED kel]_vars

(* Two events that contest a sequence number cannot both supersede: where  *)
(* the judge lets one replace the recorded one, the state after the        *)
(* recovery does not let the replaced one come back with the same evidence *)
(* mirrored.                                                               *)
Mirrored(chain) ==
  [n \in DOMAIN chain |-> [incumbent |-> chain[n].challenger, challenger |-> chain[n].incumbent]]

SupersedesIsAntisymmetric ==
  \A m \in Messages, chain \in Chains :
    kel # <<>> /\ Recorded(m) /\ Judgment(m, chain) = "Supersedes" =>
      JudgeSameSn(Apply(Rewound(m), m.event), EventAt(m.event.sn + 1), m.event,
                  Mirrored(chain)) # "Supersedes"

(* In a delegated log every establishment is sealed by an event that the   *)
(* host holds of a delegator that does not refuse delegation, unless the   *)
(* host vouches for it: no rewind and re-ingest slips one past.            *)
SealedByDelegator ==
  \A i \in DOMAIN kel :
    EventAt(i).kind \in {"dip", "drt"} =>
      \E ev \in Evidence :
        \/ ev.kind = "host"
        \/ /\ ev.kind = "anchored"
           /\ ev.event.pre = EventAt(1).di
           /\ "DND" \notin ev.state.conf
           /\ SealOf(EventAt(i)) \in Members(ev.event.seals)

(* A terminal verdict is "never acceptable - drop": no later state of the  *)
(* log accepts what was judged terminal.                                   *)
TerminalIsFinal ==
  [][\A m \in Messages :
       Disposition(Verdict(m, NoEvidence)) = "Terminal" =>
         Verdict(m, NoEvidence)' # "Ok"]_vars
=============================================================================
