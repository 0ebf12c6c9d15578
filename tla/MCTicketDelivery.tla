--------------------------- MODULE MCTicketDelivery ---------------------------
EXTENDS TicketDeliveryProps, TLC

CONSTANTS flow1, l1, l2

MCLoops == {l1}
MCTwoLoops == {l1, l2}
MCKinds == {"linear", "mock"}
MCMock == {"mock"}
MCLinear == {"linear"}
=============================================================================
