------------------------------ MODULE Gateway ------------------------------
(***************************************************************************)
(* The attributes that HidGateway has in every subclass, its two threads,  *)
(* and what the other components were told last.  HidGateway (receivers    *)
(* and Bluetooth devices) and GatewayBLE (Bluetooth devices on macOS) are  *)
(* two specifications over them, whose threads stop at different places.   *)
(***************************************************************************)
VARIABLES
  connected,  \* _connected
  stop,       \* _stop
  gw,         \* the gateway thread: where run is
  writer,     \* the drain thread of the write topic: where notify is
  announced   \* the last connection event: "none", "up" or "down"
=============================================================================
