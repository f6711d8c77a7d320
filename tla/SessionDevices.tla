--------------------------- MODULE SessionDevices ---------------------------
(***************************************************************************)
(* What the refresh sessions of an account promise, without requests,      *)
(* reads and rows: every login is a device of its own, a signed-in device  *)
(* holds one refresh token that works, a rotation replaces it, and a       *)
(* device that is signed out stays out.  A device bears the number of the  *)
(* token of its login.                                                     *)
(***************************************************************************)
EXTENDS Integers

VARIABLES
  issued,   \* how many refresh tokens have been issued
  holds     \* which token each signed-in device holds

Init == issued = 0 /\ holds = {}

SignIn ==
  /\ issued' = issued + 1
  /\ holds' = holds \cup {[device |-> issued + 1, token |-> issued + 1]}

Rotate(h) ==
  /\ issued' = issued + 1
  /\ holds' = (holds \ {h}) \cup {[device |-> h.device, token |-> issued + 1]}

SignOut(h) == holds' = holds \ {h} /\ UNCHANGED issued

SignOutAll == holds' = {} /\ UNCHANGED issued

Next ==
  \/ SignIn
  \/ \E h \in holds : Rotate(h) \/ SignOut(h)
  \/ SignOutAll

Spec == Init /\ [][Next]_<<issued, holds>>
=============================================================================
