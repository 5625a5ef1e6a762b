----------------------------- MODULE Controller -----------------------------
(***************************************************************************)
(* A controller of one identifier: a custodian makes the keys, a builder   *)
(* makes the events, the custodian signs them, and the validating fold     *)
(* decides whether the log takes them (keri-codec/tests/custody_chain.rs,  *)
(* keri/examples/direct_mode.rs). It can crash at any time and then has    *)
(* only the parameters it saved, the salt and the log.                     *)
(*                                                                         *)
(* The custodian moves a rung up before the event of that rung is built,   *)
(* and no operation returns the keys of a rung again. So a controller      *)
(* that saved a rung its log has not reached could not build the event:    *)
(* it saves when the log has taken it, and after a crash it climbs the     *)
(* rungs of the log again, with the counts the log shows.                  *)
(***************************************************************************)
EXTENDS Custody, EventBuilder

CONSTANTS
  Names,     (* The SAID of the event with each sequence number.           *)
  Specs,     (* Bound: the key specifications the caller asks for.         *)
  Wishes     (* Bound: the options the caller gives a builder.             *)

(* What an establishment exposes, and what it commits to.                 *)
KeyCommitment == [keys : Seq(Keys), next : Seq(Keys)]

ASSUME ControllerAssumption ==
  /\ Names \in [0..MaxSn -> Saids]
  /\ Names[0] \in Digestive
  /\ Specs \subseteq KeySpec
  /\ Wishes \subseteq Options
  /\ Simple(0) \in Thresholds
  /\ \A n \in 0..(MaxIndex + 1) : Simple(Majority(n)) \in Thresholds
  /\ None \notin KeyCommitment
  /\ None \notin Message
  /\ None \notin State

(* A caller may ask for a threshold of its own. Weights that all the keys  *)
(* together cannot bring to one are well formed: the builder builds with   *)
(* them and the fold refuses, so no caller here asks for those.            *)
Reachable(th) == \A n \in 0..(MaxIndex + 1) : WellFormed(th, n) => Satisfied(th, 0..(n - 1))

ASSUME WishesAssumption ==
  \A o \in Wishes : /\ o.kt # None => Reachable(o.kt)
                    /\ o.nt # None => Reachable(o.nt)

VARIABLES
  custodian,   (* The counters in memory.                                  *)
  saved,       (* The parameters in storage.                               *)
  commitment,  (* What the custodian returned for an event not yet stored. *)
  pending,     (* The signed and receipted event, before the fold.         *)
  head,        (* The key state of the log, None before inception.         *)
  ladder       (* The keys and next keys of the log's establishments.      *)

vars == <<custodian, saved, commitment, pending, head, ladder>>

Commit(c) == [keys |-> Verkeys(c), next |-> NextKeys(c)]

(* How many establishments the counters have seen.                         *)
Rung(c) == IF c.incepted THEN c.ridx + 1 ELSE 0

CheckStep(c, spec) == IF c.incepted THEN CheckRotate(c, spec) ELSE CheckIncept(c, spec)
Step(c, spec) == IF c.incepted THEN Rotated(c, spec) ELSE Incepted(c, spec)

Idle == commitment = None /\ pending = None
InStep == Idle /\ Rung(custodian) = Len(ladder)
NextSn == IF head = None THEN 0 ELSE head.sn + 1
HasRoom == NextSn <= MaxSn

Init ==
  /\ custodian = Fresh
  /\ saved = Params(Fresh)
  /\ commitment = None
  /\ pending = None
  /\ head = None
  /\ ladder = <<>>

-----------------------------------------------------------------------------
(* incept or rotate: the counters move, the caller gets the two key lists. *)
Establish(spec) ==
  /\ InStep
  /\ HasRoom
  /\ CheckStep(custodian, spec) = "Ok"
  /\ custodian' = Step(custodian, spec)
  /\ commitment' = Commit(custodian')
  /\ UNCHANGED <<saved, pending, head, ladder>>

Signed(e, wits) == [event |-> e, sigs |-> Sign(custodian), wigs |-> wits]

(* The event of the commitment. A refused build changes nothing, and the   *)
(* caller may try other options. Every witness gives its receipt.          *)
Build(o) ==
  /\ commitment # None
  /\ pending = None
  /\ IF head = None
     THEN /\ CheckBuildInception(commitment.keys, commitment.next, o) = "Ok"
          /\ pending' = Signed(BuildInception(Names[0], commitment.keys, commitment.next, o),
                               Members(o.adds))
     ELSE /\ CheckBuildRotation(head.wits, commitment.keys, commitment.next, o) = "Ok"
          /\ pending' = Signed(BuildRotation(head, Names[NextSn],
                                             commitment.keys, commitment.next, o),
                               UpdatedMembers(head.wits, o.cuts, o.adds))
  /\ UNCHANGED <<custodian, saved, commitment, head, ladder>>

(* An interaction is built and signed on whatever the head is; only the    *)
(* fold knows that a closed log takes none.                                *)
Interact ==
  /\ InStep
  /\ head # None
  /\ HasRoom
  /\ pending' = Signed(BuildInteraction(head, Names[NextSn]), head.wits)
  /\ UNCHANGED <<custodian, saved, commitment, head, ladder>>

Verdict(m) == IF head = None THEN Incept(m) ELSE Ingest(head, m)

Store ==
  /\ pending # None
  /\ Verdict(pending) = "Ok"
  /\ head' = IF head = None THEN SeedState(pending.event) ELSE Apply(head, pending.event)
  /\ ladder' = IF pending.event.kind = "ixn" THEN ladder
               ELSE Append(ladder, [keys |-> pending.event.keys, next |-> pending.event.next])
  /\ pending' = None
  /\ commitment' = None
  /\ UNCHANGED <<custodian, saved>>

Discard ==
  /\ pending # None
  /\ Verdict(pending) # "Ok"
  /\ pending' = None
  /\ UNCHANGED <<custodian, saved, commitment, head, ladder>>

(* Never a rung above the log.                                             *)
Save ==
  /\ commitment = None
  /\ saved' = Params(custodian)
  /\ UNCHANGED <<custodian, commitment, pending, head, ladder>>

Crash ==
  /\ custodian' = Resume(saved)
  /\ commitment' = None
  /\ pending' = None
  /\ UNCHANGED <<saved, head, ladder>>

(* The specification an establishment of the log was made with.            *)
LogSpec(entry) ==
  [count |-> Len(entry.keys), ncount |-> Len(entry.next),
   transferable |-> entry.keys[1] \notin NonTransferable]

CatchUp ==
  /\ Idle
  /\ Rung(custodian) < Len(ladder)
  /\ LET spec == LogSpec(ladder[Rung(custodian) + 1])
     IN  /\ CheckStep(custodian, spec) = "Ok"
         /\ custodian' = Step(custodian, spec)
  /\ UNCHANGED <<saved, commitment, pending, head, ladder>>

Next ==
  \/ \E spec \in Specs : Establish(spec)
  \/ \E o \in Wishes : Build(o)
  \/ Interact
  \/ Store
  \/ Discard
  \/ Save
  \/ Crash
  \/ CatchUp

Spec == Init /\ [][Next]_vars

-----------------------------------------------------------------------------
(* Counters stay within their width, and whatever is built from the keys   *)
(* and the options asked for is an event the fold can be given.            *)
TypeOK ==
  /\ custodian \in Custodian
  /\ saved \in Custodian
  /\ commitment \in KeyCommitment \cup {None}
  /\ pending \in Message \cup {None}
  /\ head \in State \cup {None}
  /\ ladder \in Seq(KeyCommitment)

(* The paths a log has used or committed to, rung by rung.                 *)
PathsOf(keys) == [i \in DOMAIN keys |-> keys[i].path]
Used ==
  IF head = None THEN <<>>
  ELSE Append([r \in DOMAIN ladder |-> PathsOf(ladder[r].keys)], PathsOf(head.next))

(* A private key is used at one position of one establishment, whatever    *)
(* counts the caller chose and however often the controller crashed: a     *)
(* path is written without separators, so it is the counters' growth that  *)
(* keeps the paths of a ladder apart (custody.rs derivation_path).         *)
NoKeyServesTwice ==
  /\ \A r \in DOMAIN Used : Unique(Used[r])
  /\ \A r, q \in DOMAIN Used : r # q => Members(Used[r]) \cap Members(Used[q]) = {}

(* What the custodian makes and a builder builds, the fold accepts: keys   *)
(* open the commitment, defaults satisfy every limit. The one exception is *)
(* an interaction on a closed log, which only the fold refuses.            *)
FoldAccepts ==
  pending # None =>
    \/ Verdict(pending) = "Ok"
    \/ /\ pending.event.kind = "ixn"
       /\ Verdict(pending) = "NonTransferableState"
       /\ ~head.transferable

(* However old the saved parameters are, they lead with the log back to    *)
(* the keys in force and to the keys committed to: no rung of the log is   *)
(* refused on the way, and no crash locks the controller out of its        *)
(* identifier (params and resume, keys "re-derived on demand").            *)
Recoverable ==
  commitment = None /\ head # None =>
    IF Rung(custodian) < Len(ladder)
    THEN CheckStep(custodian, LogSpec(ladder[Rung(custodian) + 1])) = "Ok"
    ELSE Commit(custodian) = [keys |-> head.keys, next |-> head.next]

(* The custodian refuses to rotate exactly where the fold would take no    *)
(* further event: direct_mode.rs, "custody mirrors the fold's verdict".    *)
MirrorsFold ==
  InStep /\ head # None =>
    \A spec \in Specs :
      CheckRotate(custodian, spec) = "NotRotatable" <=> ~head.transferable

(* Two quorums of receipts under the default threshold share a witness     *)
(* even when every third one is faulty: no two events of one number can    *)
(* both be witnessed (Toad::ample).                                        *)
Faulty(n) == (n - 1) \div 3
HonestOverlap ==
  head # None =>
    LET n == Cardinality(head.wits)
    IN  n > 0 /\ head.toad >= Ample(n) =>
          \A p, q \in SUBSET head.wits :
            /\ Cardinality(p) >= head.toad
            /\ Cardinality(q) >= head.toad
            => Cardinality(p \cap q) > Faulty(n)
=============================================================================
