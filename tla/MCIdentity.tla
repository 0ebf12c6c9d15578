----------------------------- MODULE MCIdentity -----------------------------
EXTENDS IdentityProps, TLC

CONSTANTS c1, c2

MCCallers == {c1, c2}
=============================================================================
