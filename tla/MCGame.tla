-------------------------------- MODULE MCGame --------------------------------
(***************************************************************************)
(* A small game.  The ball is born between two dots; one enemy is smaller  *)
(* than it and two are at least as large; each enemy's home is in the band *)
(* of another wall.  The random words put a dot on the ball's start or out *)
(* of the way.                                                             *)
(***************************************************************************)
EXTENDS Game

MCBallSetup ==
  [XMax |-> 40, YMax |-> 34, XCenter |-> 20, YCenter |-> 17,
   ScrollLeft |-> 12, ScrollRight |-> 28, ScrollUp |-> 10, ScrollDown |-> 24,
   StartStep |-> 3, MaxStep |-> 4, StartSize |-> 5, MinSize |-> 3, MaxSize |-> 7]

MCDotSetup ==
  [DotHome |-> <<[x |-> 27, y |-> 17], [x |-> 12, y |-> 17]>>,
   Growing |-> {1}, FullRange |-> {2}, DotSize |-> 1,
   XCut |-> 32, YCut |-> 32, StartShadow |-> 4, MaxShadow |-> 7]

MCEnemySetup ==
  <<[Size |-> 4, XMax |-> 50, YMax |-> 40, XCenter |-> 4, YCenter |-> 14, Respawn |-> 30],
    [Size |-> 5, XMax |-> 36, YMax |-> 40, XCenter |-> 33, YCenter |-> 18, Respawn |-> 30],
    [Size |-> 6, XMax |-> 50, YMax |-> 40, XCenter |-> 28, YCenter |-> 6, Respawn |-> 30]>>

MCKeycodes == {{"none", "a"}, {"none", "d"}}

MCRandoms == {[x |-> 4, y |-> 30], [x |-> 20, y |-> 17]}
=============================================================================
