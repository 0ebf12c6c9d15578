---------------------------- MODULE MCContainment ----------------------------
EXTENDS ContainmentProps, TLC

CONSTANTS w1, r1

MCSteppers == {w1}
MCRetriers == {r1}
=============================================================================
