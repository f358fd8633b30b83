----------------------------- MODULE MCDelivery -----------------------------
(* Instances of Delivery for TLC. *)
EXTENDS Delivery

P(c, f, u) == [connection |-> c, fallback |-> f, libusb |-> u]

\* Every kind of profile, one of each behaviour.
EveryProfile ==
  {P("network", "none", TRUE), P("winspool", "none", TRUE), P("cups", "none", TRUE),
   P("usb", "none", TRUE), P("usb", "none", FALSE), P("usb", "network", TRUE),
   P("usb", "winspool", TRUE), P("usb", "cups", FALSE)}
=============================================================================
