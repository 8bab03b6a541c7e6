----------------------------- MODULE MCUsbHost -------------------------------
(* One key, and two looks for a keyboard at each place. *)
EXTENDS UsbHost
=============================================================================
