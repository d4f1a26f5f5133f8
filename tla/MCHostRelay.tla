---------------------------- MODULE MCHostRelay ----------------------------
EXTENDS HostRelay

\* A keyboard, a mouse on a receiver of its own, and between them a device
\* without CHANGE_HOST.
Desk == <<"keyboard", "headset", "mouse">>
TwoGateways(d) == IF d = "mouse" THEN "unifying" ELSE "bolt"
=============================================================================
