------------------------------ MODULE CharStream -----------------------------
(***************************************************************************)
(* What one direction of the console promises: the characters of a stream  *)
(* come out in the order they went in, none lost, none twice, and no more  *)
(* than Capacity of them are under way.  The characters are numbered, and  *)
(* the numbers wrap after more of them than can be under way, so that a    *)
(* lost, repeated or overtaken character always shows.                     *)
(***************************************************************************)
EXTENDS Integers, Sequences

CONSTANTS
  Capacity,   \* characters that can be under way at once
  Chars       \* the numbers wrap here, above Capacity

VARIABLES
  chan,       \* the characters under way
  last        \* the character that came out last

vars == <<chan, last>>

After(c, n) == (c + n) % Chars

Newest == IF chan = <<>> THEN last ELSE chan[Len(chan)]

Init == chan = <<>> /\ last = Chars - 1

(* The next n characters go in, in one piece. *)
Put(n) ==
  /\ Len(chan) + n <= Capacity
  /\ chan' = chan \o [i \in 1 .. n |-> After(Newest, i)]
  /\ UNCHANGED last

(* The oldest n characters come out, in one piece. *)
Get(n) ==
  /\ n <= Len(chan)
  /\ last' = chan[n]
  /\ chan' = SubSeq(chan, n + 1, Len(chan))

Next == \E n \in 1 .. Capacity : Put(n) \/ Get(n)

Spec == Init /\ [][Next]_vars

=============================================================================
