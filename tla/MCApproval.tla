----------------------------- MODULE MCApproval -----------------------------
EXTENDS ApprovalProps, TLC

CONSTANTS h1, h2, l1, a

MCHandlers == {h1, h2}
MCLoops == {l1}
MCDeciders == {a}
=============================================================================
