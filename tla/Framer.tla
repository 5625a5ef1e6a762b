-------------------------------- MODULE Framer --------------------------------
(***************************************************************************)
(* The message framer and the two stream decoders over it.                 *)
(*                                                                         *)
(* A transport appends cells to the reader's buffer in chunks of any size  *)
(* and may close at any time; the reader calls its decoder whenever it     *)
(* likes.  The framer keeps offsets and counters, never the input, and is  *)
(* called again with the same prefix grown.  After a frame the buffer is   *)
(* cut by exactly its span.                                                *)
(***************************************************************************)
EXTENDS Groups

CONSTANTS
  Scenarios    \* [wire, codec, limits]: what is sent, who reads, its limits

ASSUME ScenariosAssumption ==
  \A s \in Scenarios : /\ s.codec \in {"message", "V1", "V2"}
                       /\ s.limits \in [LimitNames -> Nat]

VARIABLES
  scenario,    \* the scenario of this behaviour
  arrived,     \* how many cells of the wire the transport has delivered
  closed,      \* whether the transport has closed
  taken,       \* how many cells the reader has cut off its buffer
  framer,      \* what the decoder remembers between calls
  frames,      \* the spans returned, in order
  verdict      \* "reading", "done", or the error that ended the stream

vars == <<scenario, arrived, closed, taken, framer, frames, verdict>>

-------------------------------------------------------------------------------
(* Between frames the framer remembers only how far a JSON head was read,  *)
(* and of a frame it has returned nothing.                                 *)
Idle == [mode |-> "idle", head |-> FreshHead]

Rested(at) == Idle

Reading(body, head) ==
  [mode |-> "event", head |-> head, body |-> body, at |-> body,
   groups |-> 0, sigs |-> 0, group |-> <<>>]

Answer(with, outcome) == [framer |-> with, outcome |-> outcome]
Span(body, total) == [body |-> body, total |-> total]

(* Input that ends before what is needed is truncated at the end of the    *)
(* stream and incomplete before it.                                        *)
Short(eof) == IF eof THEN Fail("truncated") ELSE Need

(* check_pending_attachment: waiting for more must be within the limit.    *)
Pending(limits, buffered, eof) ==
  IF buffered >= limits.bytes THEN Fail("limit") ELSE Short(eof)

-------------------------------------------------------------------------------
(* MessageFramer: what the buffer opens with.                              *)

Declared(limits, at, s, eof, size) ==
  CASE size.is = "need" ->
         Answer(at, IF Len(s) >= limits.body THEN Fail("limit") ELSE Short(eof))
    [] size.is = "fail" -> Answer(at, size)
    [] size.v > limits.body -> Answer(at, Fail("limit"))
    [] OTHER -> Answer(Reading(size.v, at.head), Ok(0))

StartBody(limits, at, s, eof, cold) ==
  LET head == IF cold = "json" THEN AdvanceHead(at.head, s)
              ELSE [head |-> at.head, outcome |-> BinaryVersionAt(s)]
  IN Declared(limits, [at EXCEPT !.head = head.head], s, eof,
              Then(head.outcome, LAMBDA offset : EventSizeAt(s, offset, cold)))

(* A counter at the head of s opens a group, when there is all of it and   *)
(* within the limit of elements.                                           *)
Open(limits, version, s) ==
  Then(NewCursor(version, s), LAMBDA cursor : CheckElements(limits, cursor))

Opened(limits, at, new, buffered, eof, with) ==
  CASE new.is = "need" -> Answer(at, Pending(limits, buffered, eof))
    [] new.is = "fail" -> Answer(at, new)
    [] OTHER -> Answer([with EXCEPT !.group = <<new.v>>], Ok(0))

StartGroup(limits, version, at, s, eof) ==
  Opened(limits, at, Open(limits, version, s), Len(s), eof,
         [mode |-> "bare", head |-> at.head, group |-> <<>>])

(* What came of a group: the framer keeps its cursor until it is done.     *)
Kept(at, cursor, outcome, done) ==
  Answer(IF outcome.is = "ok" THEN done ELSE [at EXCEPT !.group = <<cursor>>], outcome)

NeedIsShort(outcome, eof) == IF outcome.is = "need" THEN Short(eof) ELSE outcome

(* A group with no body before it: the whole frame.                        *)
PastBare(limits, version, at, s, eof, step) ==
  Kept(at, step.cursor,
       Then(NeedIsShort(step.outcome, eof), LAMBDA end :
       Then(ScanGroup(limits, step.cursor, s, step.cursor.sigs, version), LAMBDA nested :
         Ok(Span(0, end)))),
       Rested(at))

AdvanceBare(limits, version, at, s, eof) ==
  PastBare(limits, version, at, s, eof, AdvanceCursor(at.group[1], s, limits))

-------------------------------------------------------------------------------
(* A body and its attachments: EventProgress.                              *)

Attachments(at, s) == SubSeq(s, at.at + 1, Len(s))

BeginGroup(limits, at, s, eof) ==
  IF at.groups >= limits.groups THEN Answer(at, Fail("limit"))
  ELSE Opened(limits, at, Open(limits, "V1", Attachments(at, s)), Len(s) - at.body, eof, at)

(* A mutant: nothing but the next body ends a message.                     *)
EndsMessageNever(kind) == FALSE

EndsMessage(kind) == kind = "AttachmentGroup"

(* The signatures inside an enclosure are counted with those before it.    *)
Counted(at, step, scan) ==
  [at EXCEPT !.at = @ + step.outcome.v, !.groups = @ + 1,
             !.sigs = @ + step.cursor.sigs + scan.v, !.group = <<>>]

(* The value of an answer tells whether the group was the envelope that    *)
(* ends a message.                                                         *)
PastScan(at, eof, step, scan) ==
  Kept(at, step.cursor,
       Then(NeedIsShort(step.outcome, eof), LAMBDA end :
       Then(scan, LAMBDA nested : Ok(EndsMessage(step.cursor.kind)))),
       Counted(at, step, scan))

PastGroup(limits, at, s, eof, step) ==
  PastScan(at, eof, step,
           ScanGroup(limits, step.cursor, Attachments(at, s), at.sigs + step.cursor.sigs, "V1"))

AdvanceGroup(limits, at, s, eof) ==
  PastGroup(limits, at, s, eof,
    AdvanceCursor(at.group[1], Attachments(at, s),
                  [limits EXCEPT !.bytes = @ - (at.at - at.body),
                                 !.signatures = @ - at.sigs]))

Onward(answer, Go(_)) == IF answer.outcome.is = "ok" THEN Go(answer) ELSE answer

(* A message ends at its envelope, at the next body, or at the end of the  *)
(* stream: a body alone waits, attachments may still arrive.               *)
RECURSIVE AdvanceEvent(_, _, _, _)
AdvanceEvent(limits, at, s, eof) ==
  LET Frame(end) == Answer(Rested(at), Ok(Span(at.body, end)))
      opens == ColdCode(s[at.at + 1])
  IN CASE Len(s) < at.body -> Answer(at, Short(eof))
       [] Len(s) < at.at -> Answer(at, Fail("truncated"))
       [] at.group # <<>> ->
            Onward(AdvanceGroup(limits, at, s, eof), LAMBDA next :
              IF next.outcome.v THEN Frame(next.framer.at)
              ELSE AdvanceEvent(limits, next.framer, s, eof))
       [] at.group = <<>> /\ Len(s) = at.at -> IF eof THEN Frame(at.at) ELSE Answer(at, Need)
       [] opens \in Serializations -> Frame(at.at)
       [] opens # "text" -> Answer(at, Fail("cold start"))
       [] OTHER ->
            Onward(BeginGroup(limits, at, s, eof), LAMBDA begun :
              AdvanceEvent(limits, begun.framer, s, eof))

-------------------------------------------------------------------------------
(* One call: MessageCodec over MessageFramer::advance, and CesrCodec for   *)
(* bare groups of one table.                                               *)

Start(limits, codec, at, s, eof) ==
  LET cold == ColdCode(s[1]) IN
  CASE codec # "message" -> StartGroup(limits, codec, at, s, eof)
    [] cold \in Serializations -> StartBody(limits, at, s, eof, cold)
    [] cold = "text" -> StartGroup(limits, "V1", at, s, eof)
    [] OTHER -> Answer(at, Fail("cold start"))

Resume(limits, codec, at, s, eof) ==
  IF at.mode = "event" THEN AdvanceEvent(limits, at, s, eof)
  ELSE AdvanceBare(limits, IF codec = "message" THEN "V1" ELSE codec, at, s, eof)

Advance(limits, codec, at, s, eof) ==
  IF at.mode = "idle" /\ s = <<>> THEN Answer(at, Need)
  ELSE Onward(IF at.mode = "idle" THEN Start(limits, codec, at, s, eof) ELSE Answer(at, Ok(0)),
              LAMBDA begun : Resume(limits, codec, begun.framer, s, eof))

-------------------------------------------------------------------------------
(* The transport and the reader.                                           *)

Buffer == SubSeq(scenario.wire, taken + 1, arrived)

Init ==
  /\ scenario \in Scenarios
  /\ arrived = 0
  /\ closed = FALSE
  /\ taken = 0
  /\ framer = Idle
  /\ frames = <<>>
  /\ verdict = "reading"

(* A chunk of any size reaches the buffer.                                 *)
Arrive ==
  /\ verdict = "reading" /\ ~closed
  /\ \E upTo \in (arrived + 1) .. Len(scenario.wire) : arrived' = upTo
  /\ UNCHANGED <<scenario, closed, taken, framer, frames, verdict>>

(* The transport ends, after everything or in the middle.                  *)
Close ==
  /\ verdict = "reading" /\ ~closed
  /\ closed' = TRUE
  /\ UNCHANGED <<scenario, arrived, taken, framer, frames, verdict>>

Cut(span) == span.total

Answered(answer) ==
  /\ framer' = answer.framer
  /\ CASE answer.outcome.is = "ok" ->
            /\ frames' = Append(frames, answer.outcome.v)
            /\ taken' = taken + Cut(answer.outcome.v)
            /\ UNCHANGED verdict
       [] answer.outcome.is = "need" ->
            /\ verdict' = IF closed THEN "done" ELSE "reading"
            /\ UNCHANGED <<frames, taken>>
       [] answer.outcome.is = "fail" ->
            /\ verdict' = answer.outcome.why
            /\ UNCHANGED <<frames, taken>>

Decode ==
  /\ verdict = "reading"
  /\ Answered(Advance(scenario.limits, scenario.codec, framer, Buffer, closed))
  /\ UNCHANGED <<scenario, arrived, closed>>

Next == Arrive \/ Close \/ Decode

Spec == Init /\ [][Next]_vars
===============================================================================
