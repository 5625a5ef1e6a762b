---------------------------- MODULE AbstractTel ----------------------------
(***************************************************************************)
(* What a host of credential registries promises those who verify          *)
(* credentials: a registry's management log only grows, a credential is    *)
(* issued at most once, under a registry that exists, and a revocation is  *)
(* final, whatever happens to the issuer's key event log meanwhile.        *)
(***************************************************************************)
EXTENDS Sequences

CONSTANTS
  Registries,   (* Registry identifiers, the SAIDs of their inceptions.    *)
  Credentials,  (* Credential identifiers.                                 *)
  Saids         (* Names of events.                                        *)

VARIABLES
  management,   (* For each registry the SAIDs of its management log.      *)
  status        (* For each registry and credential its status.            *)

vars == <<management, status>>

Init ==
  /\ management = [r \in Registries |-> <<>>]
  /\ status = [p \in Registries \X Credentials |-> "Unknown"]

Found(r) ==
  /\ management[r] = <<>>
  /\ management' = [management EXCEPT ![r] = <<r>>]
  /\ UNCHANGED status

Rotate(r, said) ==
  /\ management[r] # <<>>
  /\ management' = [management EXCEPT ![r] = Append(@, said)]
  /\ UNCHANGED status

Issue(r, c) ==
  /\ management[r] # <<>>
  /\ status[<<r, c>>] = "Unknown"
  /\ status' = [status EXCEPT ![<<r, c>>] = "Issued"]
  /\ UNCHANGED management

Revoke(r, c) ==
  /\ status[<<r, c>>] = "Issued"
  /\ status' = [status EXCEPT ![<<r, c>>] = "Revoked"]
  /\ UNCHANGED management

Next ==
  \E r \in Registries :
    \/ Found(r)
    \/ \E said \in Saids : Rotate(r, said)
    \/ \E c \in Credentials : Issue(r, c) \/ Revoke(r, c)

Spec == Init /\ [][Next]_vars
=============================================================================
