---------------------------- MODULE MCDiscovery ----------------------------
EXTENDS Discovery

\* The steps of the keys, the name and the hosts; the friendly name, which is read
\* like the others, is followed with KeysAndFriendlyName.
WithoutFriendlyName == Features \ {"FRIENDLY_NAME"}
KeysAndFriendlyName == {"CID_REPORTING", "FRIENDLY_NAME"}
KeysOnly == {"CID_REPORTING"}

\* A keyboard like the MX Keys: all four features, at ordinary indexes.
Ordinary == [CID_REPORTING |-> 8, CHANGE_HOST |-> 9, NAME_AND_TYPE |-> 3, FRIENDLY_NAME |-> 6]

\* CID_REPORTING sits at index 7, which is also the code of FRIENDLY_NAME.
Colliding == [Ordinary EXCEPT !["CID_REPORTING"] = 7, !["FRIENDLY_NAME"] = 5]
=============================================================================
