---------------------------- MODULE MCHidGateway ----------------------------
EXTENDS HidGateway

OnePath == {"hidraw0"}
TwoPaths == {"hidraw0", "hidraw1"}
=============================================================================
