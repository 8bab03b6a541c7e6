----------------------------- MODULE MCJtagUart ------------------------------
(* Rings and hardware of a few characters. *)
EXTENDS JtagUart
=============================================================================
