------------------------- MODULE ApprovalAuthority -------------------------
(***************************************************************************)
(* What the approval of a containment plan promises: it is opened once,    *)
(* gets at most one of three verdicts for good, and nobody acts on the     *)
(* plan but under an approval.                                             *)
(***************************************************************************)
VARIABLES verdict,  \* "none", "open", "approved", "rejected" or "lapsed"
          acted     \* containment was entered

authority == <<verdict, acted>>

AuthorityInit == verdict = "none" /\ acted = FALSE

Open == verdict = "none" /\ verdict' = "open" /\ UNCHANGED acted

Settle ==
  /\ verdict = "open"
  /\ verdict' \in {"approved", "rejected", "lapsed"}
  /\ UNCHANGED acted

Act ==
  /\ verdict = "approved"
  /\ ~acted
  /\ acted' = TRUE
  /\ UNCHANGED verdict

AuthoritySpec == AuthorityInit /\ [][Open \/ Settle \/ Act]_authority
=============================================================================
