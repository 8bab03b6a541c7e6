------------------------------- MODULE MCBall --------------------------------
(***************************************************************************)
(* Keycodes for Ball: no key (a key or a pair of keys the case statement   *)
(* does not list is treated as none), one key for each axis, a diagonal.   *)
(***************************************************************************)
EXTENDS Ball

MCKeycodes ==
  {{"none"}, {"none", "w"}, {"none", "d"}, {"s", "a"}}
=============================================================================
