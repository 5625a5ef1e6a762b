------------------------------- MODULE Custody -------------------------------
(***************************************************************************)
(* Deterministic custody of one identifier's keys (keri crate, custody.rs).*)
(*                                                                         *)
(* Every key is derived again when it is needed, from a root salt and a    *)
(* path: a stem, the rotation index and the key index, written one after   *)
(* the other with no separator. So the state of a custodian is counters,   *)
(* and two places of the ladder share a private key when their paths, read *)
(* as strings of digits, are the same.                                     *)
(*                                                                         *)
(* A key is known by its path and by whether its code is transferable.     *)
(***************************************************************************)
EXTENDS KeyState

CONSTANTS
  Base,        (* The base numbers are written in (16).                    *)
  Stem,        (* The digits that stand for the account or the wallet.     *)
  MaxIndex     (* The largest rotation or key index (u64::MAX).            *)

(* Digits of n, the most significant first, no leading zero.               *)
Digits[n \in Nat] ==
  IF n < Base THEN <<n>> ELSE Append(Digits[n \div Base], n % Base)

DerivationPath(ridx, kidx) == Stem \o Digits[ridx] \o Digits[kidx]

KeyAt(ridx, kidx, transferable) ==
  [path |-> DerivationPath(ridx, kidx), transferable |-> transferable]

ASSUME CustodyAssumption ==
  /\ Base \in Nat \ {0, 1}
  /\ Stem \in Seq(Nat)
  /\ MaxIndex \in Nat
  /\ \A ridx, kidx \in 0..MaxIndex : \A t \in BOOLEAN :
       /\ KeyAt(ridx, kidx, t) \in Keys
       /\ KeyAt(ridx, kidx, t) \in NonTransferable <=> ~t

KeySpec == [count : Nat, ncount : Nat, transferable : BOOLEAN]

Custodian ==
  [ridx : 0..MaxIndex, kidx : 0..MaxIndex, count : Nat, ncount : Nat,
   transferable : BOOLEAN, incepted : BOOLEAN]

Fresh ==
  [ridx |-> 0, kidx |-> 0, count |-> 0, ncount |-> 0, transferable |-> TRUE, incepted |-> FALSE]

-----------------------------------------------------------------------------
(* A rung of the ladder: a rotation index and the key indices from kidx on.*)

Derivable(kidx, count) == count = 0 \/ kidx + count - 1 <= MaxIndex

DeriveSet(ridx, kidx, count, transferable) ==
  [i \in 1..count |-> KeyAt(ridx, kidx + i - 1, transferable)]

HasRungUp(c) == c.ridx + 1 <= MaxIndex /\ c.kidx + c.count <= MaxIndex
(* A mutant: key indices start again at every rung.                        *)
RungUpRestarting(c, count) == [c EXCEPT !.ridx = @ + 1, !.kidx = 0, !.count = count]

(* The counters one rung up, for a set of count keys there.                *)
RungUp(c, count) == [c EXCEPT !.ridx = @ + 1, !.kidx = @ + c.count, !.count = count]

(* The commitment an establishment returns: the current set, and the set   *)
(* one rung up, which is always transferable.                              *)
Verkeys(c) == DeriveSet(c.ridx, c.kidx, c.count, c.transferable)

NextKeys(c) ==
  LET up == RungUp(c, c.ncount) IN DeriveSet(up.ridx, up.kidx, up.count, TRUE)

(* Both sets of an establishment have indices that fit.                    *)
Committable(c) ==
  Derivable(c.kidx, c.count) /\ HasRungUp(c) /\ Derivable(RungUp(c, c.ncount).kidx, c.ncount)

-----------------------------------------------------------------------------
(* The operations: the verdict, and the counters when it is "Ok".          *)

Incepted(c, spec) ==
  [c EXCEPT !.count = spec.count, !.ncount = spec.ncount,
            !.transferable = spec.transferable, !.incepted = TRUE]

CheckIncept(c, spec) ==
  Require(~c.incepted, "AlreadyIncepted")
  && Require(spec.count # 0, "EmptyCurrentKeys")
  && Require(spec.transferable \/ spec.ncount = 0, "NonTransferableNextKeys")
  && Require(Committable(Incepted(c, spec)), "IndexOverflow")

(* The promoted set is the one committed to, the next one is the caller's  *)
(* choice; the transferable flag of the caller is not looked at.           *)
Rotated(c, spec) == [RungUp(c, spec.count) EXCEPT !.ncount = spec.ncount]

CheckRotate(c, spec) ==
  Require(c.incepted, "NotIncepted")
  && Require(c.transferable /\ c.ncount # 0, "NotRotatable")
  && Require(spec.count = c.ncount, "RotationCountMismatch")
  && Require(HasRungUp(c) /\ Committable(Rotated(c, spec)), "IndexOverflow")

(* One dual-index signature by every current key, at its own position.     *)
Sign(c) ==
  {[index |-> i - 1, ondex |-> i - 1, signer |-> Verkeys(c)[i]] : i \in 1..c.count}

(* A mutant: the key index is not saved.                                   *)
ParamsWithoutIndex(c) == [c EXCEPT !.kidx = 0]

(* All but the salt is saved, and comes back with it.                      *)
Params(c) ==
  [ridx |-> c.ridx, kidx |-> c.kidx, count |-> c.count, ncount |-> c.ncount,
   transferable |-> c.transferable, incepted |-> c.incepted]

Resume(params) == params
=============================================================================
