---------------------------- MODULE MCKeyReports ----------------------------
EXTENDS KeyReports

\* Two keyboards in the same slot of two receivers: the first claims analytics
\* and rejects it.
TwoKeyboards == <<"keys1", "keys2">>
OwnReceiver(d) == IF d = "keys1" THEN "bolt" ELSE "unifying"
SameSlot(d) == 1
SameIndex(d) == 8
OnlySecond == {"keys2"}
Both == {"keys1", "keys2"}
=============================================================================
