-------------------------- MODULE AbstractExchange --------------------------
(***************************************************************************)
(* What the two parties of a credential exchange rely on: there is one     *)
(* conversation. Each of them holds a beginning of it, whoever holds all   *)
(* of it and is asked may say the next message, and the other hears what   *)
(* was said in the order it was said.                                      *)
(***************************************************************************)
EXTENDS Integers, Sequences

CONSTANTS
  Parties,   (* The applicant and the issuer.                              *)
  Roots,     (* Openings, by which conversations are known.                *)
  Exns,      (* What may be said (Exn of Ipex).                            *)
  None

VARIABLE heard   (* For each party and conversation what it accepted.      *)

(* A response to every message, and a refusal of all but a last word.      *)
Responses(route) ==
  CASE route = "apply" -> {"offer", "spurn"}
    [] route = "offer" -> {"agree", "spurn"}
    [] route = "agree" -> {"grant", "spurn"}
    [] route = "grant" -> {"admit", "spurn"}
    [] route \in {"admit", "spurn"} -> {}

Opens(m, r) == m.said = r /\ m.route = "apply" /\ m.prior = None

(* The other party answers, and what is granted is what was offered.       *)
Answers(m, talk) ==
  LET last == talk[Len(talk)]
  IN  /\ m.prior = last.said
      /\ m.issuer # last.issuer
      /\ m.route \in Responses(last.route)
      /\ m.route = "grant" => m.acdc.said = talk[2].acdc.said

Init == heard = [p \in Parties |-> [r \in Roots |-> <<>>]]

Extend(p, r, m) == heard' = [heard EXCEPT ![p][r] = Append(@, m)]

Say(p, r, m) ==
  /\ \A q \in Parties : Len(heard[q][r]) <= Len(heard[p][r])
  /\ m.issuer = p
  /\ IF heard[p][r] = <<>> THEN Opens(m, r) ELSE Answers(m, heard[p][r])
  /\ Extend(p, r, m)

Hear(p, r, q) ==
  /\ Len(heard[p][r]) < Len(heard[q][r])
  /\ Extend(p, r, heard[q][r][Len(heard[p][r]) + 1])

Next ==
  \E p \in Parties, r \in Roots :
    (\E m \in Exns : Say(p, r, m)) \/ (\E q \in Parties : Hear(p, r, q))

Spec == Init /\ [][Next]_heard
=============================================================================
