---------------------------- MODULE TicketContract ----------------------------
(***************************************************************************)
(* What the external ticket of an incident promises to its readers: it is  *)
(* opened at most once and what it shows only ever gets newer, as long as  *)
(* its writer is not misled about what it has sent.                        *)
(***************************************************************************)
EXTENDS Naturals

VARIABLES opened,  \* how often a ticket was opened
          shown,   \* the incident version on the newest ticket, 0 for none
          misled   \* the writer was misled about what it had sent

ticket == <<opened, shown, misled>>

TicketInit == opened = 0 /\ shown = 0 /\ ~misled

Show ==
  /\ ~misled
  /\ shown' \in Nat
  /\ shown' > shown
  /\ opened' = 1
  /\ UNCHANGED misled

\* Then another may be opened, and show what is older; none is withdrawn.
ShowWhatever ==
  /\ misled'
  /\ shown' \in Nat
  /\ opened' \in {opened, opened + 1}

TicketSpec == TicketInit /\ [][Show \/ ShowWhatever]_ticket
=============================================================================
