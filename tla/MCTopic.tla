------------------------------ MODULE MCTopic ------------------------------
EXTENDS Topic

CONSTANTS p1, p2

TwoPublishers == {p1, p2}
TwoAndOne == (p1 :> 2) @@ (p2 :> 1)
=============================================================================
