--------------------------- MODULE HolderTracker ---------------------------
(***************************************************************************)
(* What a redemption promises its holder: six steps complete one after the *)
(* other, the request can be withdrawn only before the vault releases the  *)
(* stone, the token is burned only with the stone delivered, and by the    *)
(* holder's own authorization or by a recovery two approvers signed.       *)
(***************************************************************************)
EXTENDS Naturals

VARIABLES
  step,     \* how many of the six steps the tracker shows as complete
  token,    \* where the token is: "free", "locked", "released" or "burned"
  closed    \* the request was withdrawn

vars == <<step, token, closed>>

Init == step = 0 /\ token = "free" /\ ~closed

\* The holder's transactions.
Lock == token = "free" /\ token' = "locked" /\ UNCHANGED <<step, closed>>
Unlock == token = "locked" /\ token' = "free" /\ UNCHANGED <<step, closed>>
Withdraw == step < 2 /\ ~closed /\ closed' /\ step' = 0 /\ UNCHANGED token

\* The vault lets go of the stone: the holder can no longer take the token back.
Release == token = "locked" /\ ~closed /\ token' = "released" /\ UNCHANGED <<step, closed>>

\* One step completes; from the second on the stone is on its way.
Advance ==
  /\ ~closed /\ step < 5
  /\ step' = step + 1
  /\ step' >= 2 => token \in {"released", "burned"}
  /\ UNCHANGED <<token, closed>>

Burn == token = "released" /\ step >= 4 /\ token' = "burned" /\ UNCHANGED <<step, closed>>
RecordBurn == token = "burned" /\ step \in {4, 5} /\ step' = 6 /\ UNCHANGED <<token, closed>>

Next == Lock \/ Unlock \/ Withdraw \/ Release \/ Advance \/ Burn \/ RecordBurn

Spec == Init /\ [][Next]_vars
=============================================================================
