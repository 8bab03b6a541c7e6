---------------------------- MODULE MCRandomBall -----------------------------
(***************************************************************************)
(* Four dots on a 16 x 16 plane: two that grow the ball, one that shrinks  *)
(* it and one that shrinks it and takes a full random word.  The ball may  *)
(* be on a dot's home, on either place the random words name or far from   *)
(* every dot, so that each dot can be eaten alone and with others.         *)
(***************************************************************************)
EXTENDS RandomBall

MCPosition(i, j) == [x |-> i, y |-> j]

MCDotHome == <<MCPosition(2, 12), MCPosition(13, 12), MCPosition(13, 2), MCPosition(7, 14)>>

MCRandoms == {MCPosition(1, 2), MCPosition(14, 13), MCPosition(11, 5)}

MCBalls == MCRandoms \cup {MCPosition(2, 12), MCPosition(13, 12), MCPosition(7, 8), MCPosition(15, 0)}
=============================================================================
