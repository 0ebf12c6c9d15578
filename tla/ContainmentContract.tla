------------------------ MODULE ContainmentContract ------------------------
(***************************************************************************)
(* What containment promises about one approved plan, whoever executes it: *)
(* its effects are applied one at a time and never taken back, the         *)
(* incident is declared contained only over the whole plan, and only a     *)
(* contained incident is closed.                                           *)
(***************************************************************************)
EXTENDS Naturals

CONSTANT NumActions

VARIABLES applied,  \* how many actions of the plan took effect
          phase     \* "open", "contained" or "closed"

contract == <<applied, phase>>

ContractInit == applied = 0 /\ phase = "open"

Apply ==
  /\ phase = "open"
  /\ applied < NumActions
  /\ applied' = applied + 1
  /\ UNCHANGED phase

Contain ==
  /\ phase = "open"
  /\ applied = NumActions
  /\ phase' = "contained"
  /\ UNCHANGED applied

Conclude ==
  /\ phase = "contained"
  /\ phase' = "closed"
  /\ UNCHANGED applied

ContractSpec == ContractInit /\ [][Apply \/ Contain \/ Conclude]_contract
=============================================================================
