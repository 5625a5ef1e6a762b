---------------------------- MODULE AbstractKel ----------------------------
(***************************************************************************)
(* What a host's key event log promises its readers: an append-only chain  *)
(* but for recovery, which replaces a run of interactions at the end by    *)
(* one rotation, or, in a delegated log, a contested delegated rotation    *)
(* and the interactions after it by another.                               *)
(***************************************************************************)
EXTENDS Integers, Sequences

CONSTANT Events   (* What the log may record (Event of KeyState).          *)

VARIABLE log      (* The accepted events, sequence number n at n + 1.      *)

(* An event extends a log that ends in its prior event.                    *)
ChainsTo(e, prefix) ==
  /\ prefix # <<>>
  /\ e.pre = prefix[1].pre
  /\ e.sn = Len(prefix)
  /\ e.prior = prefix[Len(prefix)].said

(* A delegated log rotates by delegated rotations only, any other by plain *)
(* ones only.                                                              *)
Fits(e, genesis) ==
  e.kind \in (IF genesis.kind = "dip" THEN {"drt", "ixn"} ELSE {"rot", "ixn"})

Genesis(e) == e.kind \in {"icp", "dip"} /\ e.sn = 0

Init == log = <<>> \/ \E e \in Events : Genesis(e) /\ log = <<e>>

Found(e) ==
  /\ log = <<>>
  /\ Genesis(e)
  /\ log' = <<e>>

Extend(e) ==
  /\ log # <<>>
  /\ ChainsTo(e, log)
  /\ Fits(e, log[1])
  /\ log' = Append(log, e)

Recover(e) ==
  /\ e.sn \in 1..(Len(log) - 1)
  /\ ChainsTo(e, SubSeq(log, 1, e.sn))
  /\ Fits(e, log[1])
  /\ e.kind # "ixn"
  /\ log[e.sn + 1].kind = "ixn" \/ (log[e.sn + 1].kind = "drt" /\ e.kind = "drt")
  /\ \A i \in (e.sn + 2)..Len(log) : log[i].kind = "ixn"
  /\ log' = Append(SubSeq(log, 1, e.sn), e)

Next == \E e \in Events : Found(e) \/ Extend(e) \/ Recover(e)

Spec == Init /\ [][Next]_log
=============================================================================
