# A verified model of the ball game

The repository holds a hardware game for an FPGA board: a ball is steered with the
keyboard over an arena larger than the screen, eats dots that make it grow or
shrink, and is chased by three enemy balls it may eat in turn when it is larger. A
soft processor beside the game reads the keyboard through a USB host chip and prints
what it does on a console; a PS/2 mouse clicks on the screens' buttons. This
directory models all of these in TLA+, checks the models with TLC on small instances
and proves the main results with TLAPS for every value of the parameters. Line
numbers below are those of the files under `src/`.

## 1. Inventory

| Component | Source | State | Operations | Modelled |
|---|---|---|---|---|
| player's ball and camera | `ball.sv` | position, motion, step, radius, corner of the screen in the arena | reset, put back, grow, shrink, roll, scroll | `Ball` |
| enemy balls (three modules) | `enemy_ball.sv` | position, motion, points | reset, eaten, sent home, move | `EnemyBall`, `EnemyPursuit` |
| dots and their score | `random_ball.sv` | sixteen positions, a copy of the ball's radius, points | reset, scatter, count, clear the score | `RandomBall` |
| random number generators | `randomx.sv`, `randomy.sv` | shift register, shift count, output | reset, shift, load | `Lfsr` |
| screens | `gamestate.sv` | start, ingame, gameover_state | play, lose, again | `GameState` |
| game wiring | `lab8.sv` | none of its own but clock divider and reset synchronisers | one clock edge of everything | `Game` (partly) |
| PS/2 mouse | `mouse_interface_IP.sv` | command sender with its time-outs, receiver, byte count, packet, cursor | send the command until it is taken, receive a byte, move the cursor | `Ps2Mouse` |
| USB keyboard host program | `software/usb_kb/{main,usb,io_handler}.c` | place in the program, data toggle, look counter, message; a list of transfers in the chip's memory | reset, set up the keyboard by nine lists, poll, notice a removal | `UsbHost` |
| console driver (JTAG UART) | `software/usb_kb_bsp/drivers/src/altera_avalon_jtag_uart_*.c` | two rings, interrupt enables, time-out | write, read, close, set the time-out; interrupt, alarm | `JtagUart`, `CharStream` |
| AI ball | `AIball.sv` | position, motion | reset, bounce | no: only its pixel leaves the module, its moves are an enemy's without the chase |
| VGA timing | `VGA_controller.sv` | two counters, sync pulses | count, reset | no: free-running counters; the game's models assume that frames go on |
| HPI bus | `hpi_io_intf.sv` | registered strobes, data buffer | one register stage, tristate | no: `UsbHost` takes an access as one step; what is in doubt is the chip's timing, which the repository does not give |
| pixel colours and bitmaps | `Color_Mapper.sv`, `ball-ani.sv`, `matrix.sv`, `start.sv`, `gameover.sv` | none but an animation counter | priority of the objects at a pixel | no: tables and a priority encoder |
| hex display | `HexDriver.sv` | none | a table | no |
| collision module | `collide.sv` | | | no: its use in `lab8.sv:347-353` is commented out |
| Nios II system, board support package | `nios_system*`, `software/usb_kb_bsp`, `vga_clk` | | | no: the vendor's processor, C start-up code and hardware abstraction layer, but for the console driver |
| snapshot and build products | `final/`, `*.bak`, `db/`, reports | | | no: earlier states of the same design, and tool output |

### How the components interact

The game runs on one 50 MHz clock; it has no handshakes, only wires read at each
edge as they were before it. The *screens* (`gamestate`) change at any edge. The
*objects* (ball, dots, enemies) change only at the edge on which they see
`frame_clk`, the vertical sync, rise: about sixty times a second. The wires:

- `start_signal`, from the screens to every object: on the start screen, at the next
  frame, go home;
- `is_collision1`, `is_collision2`, from the dots to the ball: a growing (shrinking)
  dot is touched in this frame;
- `gameover1..3`, OR-ed, from the enemies to the ball and to the screens: some enemy
  touches a ball that is not larger than it. The screens read it at every edge, the
  ball at the next frame;
- `BallX`, `BallY`, `ballsize` from the ball to the enemies; the position, but *not*
  the radius, to the dots, which keep a copy of the radius of their own;
- `RandomX`, `RandomY` from the generators to the dots;
- keycode from the host program to the ball, cursor and buttons from the mouse to
  the screens.

The *host program* and the *USB chip* share the chip's memory, one pointer to the
list to run, one message word and one flag that says there is a message; each goes
on in its own time, and so does whoever pulls the keyboard. What the program learns
it writes to a parallel port, the game's keycode.

The program's one thread prints through the *console driver*: `write()` fills a ring
that the *interrupt routine* empties into the hardware, each from its own reading of
the other's index, and with interrupts the other has to turn on again. A print that
waits for room holds up the polling of the keyboard, and so the game's keys.

The *mouse* and its controller share two wires, each of which either side may pull
down. The controller sends one command until it is taken, and hears itself while it
does.

`KEY[1]` (`Reset_b`) resets the game; `KEY[0]` (`Reset_h`) resets the video timing
and the host interfaces.

### What is hard

- *Two speeds of reading one wire.* The screens see a catch or a click at any edge
  within a frame, the objects only at the frame.
- *Priorities differ among the parts.* Each object orders its branches differently:
  in the ball gameover, dot, start screen; in the dots touch, start screen; in an
  enemy eaten, start screen.
- *Unsigned ten-bit arithmetic.* A coordinate that goes below zero comes back at
  1023 and every wall is a comparison of sums that may wrap.
- *A motion is chosen from the old position and applied a frame later.* Bounces come
  late; the order in which walls are tested hides some of them.
- *State that one screen clears and another does not*, and duplicated state (the
  dots' copy of the radius).
- *A list that runs while it is written again.* The program looks for the message,
  writes the list a second time, and the chip may have finished the first in
  between. The message is read and wiped in two accesses. All ten lists use the same
  words.
- *A keyboard that goes and comes* at any of these points.
- *Rings without locks*, and two sides that turn the same interrupts on and off.
- *Time-outs that race with late answers*: the mouse's two (15 ms, 2 ms), the
  console's seconds.
- *A byte count that nothing sets right*: whether the mouse's bytes land in their
  registers depends on how many bytes were heard before the first packet.

### What makes each component correct

- Ball: radius and speed stay linked; the camera does not run away; no key stops the
  ball; (not so:) it bounces off every edge and stays on the axes.
- Enemy: it stays within its walls, moves by single pixels and never jumps; it
  catches a player who does not move.
- Dots: the copy of the radius stays within its limits and near the ball's; an eaten
  dot comes back where it can be reached.
- Generators: never all zero; the output does not fall into a short cycle.
- Host program: a list is never written under a running one; requests arrive in
  order; only a keyboard that is set up is polled; no key of the last keyboard is
  shown; the setup ends, reports are fetched, a removal is noticed (not so: at any
  point).
- Console: what is printed and typed comes through once and in order; no wake-up is
  lost; a call comes back unless the terminal is gone and no clock runs.
- Mouse: the command arrives whole and in the end; packets land in their registers;
  the cursor stays on the screen.
- Game: a frame of the start screen really starts anew; a catch is not lost; nothing
  but a catch interrupts a game.

`PROJECT.json` lists the hazards at their lines, with the properties for each.

## 2. Plan

The modules, in the order they were written:

1. `Words`: ten-bit unsigned arithmetic and the contact test.
2. `EnemyBall`, `EnemyPursuit`: one enemy; one enemy and a player who goes idle.
3. `Ball`: the player's ball and the camera.
4. `RandomBall`: the dots.
5. `Lfsr`: the generators.
6. `GameState`: the screens.
7. `Game`: composes 2, 3, 4 and 6 on one clock.
8. `CharStream`, `JtagUart`: what a direction of the console promises; the driver
   with its hardware and its terminal.
9. `UsbHost`: the host program with the chip, the line and the keyboard.
10. `Ps2Mouse`: the controller with the wires and the mouse.

Each of the last three has its environment inside, as steps of the hardware and its
user; they are not composed with the game, which takes any keycode and any click at
any time and so covers whatever they deliver.

What is left: an abstract `Round` (play, catch, put back, start again) that `Game`
implements.

## 3. The modules and the code

`Words.tla` gives `Add`, `Neg`, `IsNegative` and the contact test on `WordMod`
values. `WordMod` is 1024 in the design. The contact test is evaluated on 32 bits in
the code, because the radius is a 32-bit literal; there the square of a wrapped
difference is the true square, so it is written as plain integer arithmetic.

`EnemyBall.tla` is `enemy_ball1`, `enemy_ball2` and `enemy_ball3` at once. They
differ in radius, home, walls, the motion of a dead branch (`Bump`) and which motion
register the start screen forgets to clear (`KeepXMotion`, `KeepYMotion`). `Frame`
has the code's branches as disjuncts: `Eaten`, `GoHome`, `Move`. `XMotionIn` and
`YMotionIn` keep the code's order of tests: vertical walls, horizontal walls,
contact, chase. The assumptions put the home above the bottom wall's band and keep
the bounds away from `WordMod`. Enemy 2 lives at X = 600 while its own `Ball_X_Max`
is 100 ("Rightmost point on the X axis", line 298): the module allows a home beyond
the right wall.

`EnemyPursuit.tla` adds a player who roams and at some point, put back by another
enemy, does not press a key any more. Its run has the parameters of `enemy_ball1`
only; the other two enemies differ in the motion register that is left over and in
their walls.

`Ball.tla` is `ball.sv`: `BackToStart`, `Grow`, `Shrink`, `Roll` are the branches of
the clocked block, `Advance` what the last three share. A keycode is the set of its
two key bytes, because the code lists every pair in both orders and looks at nothing
else.

`RandomBall.tla` is `random_ball.sv`. The sixteen copies of each test are a set
comprehension over `Dots`; the one dot that takes all ten random bits is in
`FullRange`.

`Lfsr.tla` is `randomx.sv` and `randomy.sv` at full size, with the real taps: a
behaviour is that of one of the two `Designs`. A word is the set of its one-bits, so
a shift adds one to every member but the top bit and the exclusive or of the taps is
the parity of an intersection.

`GameState.tla` is `gamestate.sv`. The rectangles of the buttons become which button
the cursor is on. The keycode is an input the machine never reads, although the
comments at lines 31 and 40 speak of keys "w" and "d".

`Game.tla` instantiates the objects over its own variables. `Tick` is a clock edge
within a frame, `FrameTick` the edge on which all objects see the frame,
`PressReset` an edge with the reset button held. Four history variables say what
happened (`quiet`, `putBack`, `outOfStep`) and bound the exploration (`frames`); no
guard of the code depends on them. The generators are composed through `Randoms`:
the words they may show. `BallWires` and `PlayerWires` are what the wires from the
ball could carry by their width: the instances of the dots and the enemies are open
to all of it, so that their own specifications speak of any ball. `GameAssumption`
adds to the assumptions of the parts what holds of them together in `lab8.sv`: that
enemies live at walls (`HomeAtWall`) and how far the limits of the ball's radius and
of the dots' copy lie apart (`LimitsMatch`).

`UsbHost.tla` is the program from the label `USB_HOT_PLUG` to the end of the polling
loop. `pc` names the place in the program; a step is one access to the chip that
changes something or decides a branch. The nine lists of the setup run through the
same code (`main.c:177-463`), so `list` is their number and `Submit`, `Check`,
`Again`, `Sleep`, `ReadMsg`, `ClearMsg`, `Control` their steps; the `Retry...` steps
are `UsbGetRetryCnt`, which step 3 calls once and the others until it is happy. A
list is written word by word and started last, so writing it is one step, unless the
chip is running it: that it never is, is `MemoryIsFree`. Of the list's words the
model keeps the control byte at 0x0508 (`ctl`) and the word at 0x051e (`cell`), from
which the keys are read and which the lists of the setup also write. External,
modelled from what the program expects of them: the chip passes over a list that has
ended, leaves a message when a list ends, and may leave one with the list not ended
("retries occurred", `main.c:191`: `Repeat`); the keyboard answers the requests of
its address, refuses the rest, and has a data toggle of its own. `Disturbances`
bounds the lists the line spoils. `WriteEndpoint` is `main.c:343-349`, between steps
6 and 7: it points the chip at five words elsewhere that are not an active list, so
that there is nothing to run, and away from the lists' own words. `Sleep` takes 10 ms as enough for a list of the
setup that was started twice, but not for a poll, which waits for a key.

`JtagUart.tla` is the driver's `_init`, `_write`, `_read`, `_close`, `_ioctl`,
`_irq` and `_timeout`. One thread calls it; `call` holds its place and its locals,
`isr` those of the interrupt routine, which may begin between any two steps of the
thread and is not interrupted itself. The updates of the enable register are made
with interrupts off in the code and are one step. Each access to a shared index is a
step of its own, in program order (the header declares the two indices the routine
moves `volatile`; for the two the calls move, program order is taken as what the
compiler keeps); a copy into the ring is one step with the reading of the index it
rests on where the two cannot be told apart. The hardware's AC bit, which says that
a terminal has read since it was last cleared, is abstracted to a terminal being
`present` when the alarm looks. Hardware and terminal are external.

`CharStream.tla` is what `JtagUart` implements in either direction: a queue of
bounded length into which pieces of a stream go, and out of which they come in
order.

`Ps2Mouse.tla` is `Mouse_interface` with its `PS2_Controller`, `PS2_Command_Out` and
`PS2_Data_In`. A step is an edge of the PS/2 clock or a time-out; the thousands of
FPGA clocks between two edges belong to the step before. `Fall` and `Rise` are the
edges, on which transmitter and receiver move together; `Sample` is the receiver,
`TakeByte` the packet and the cursor. The mouse is external: it may leave a request
unanswered, take longer than the time-out over a command, break it off, and be moved;
`KEY[0]` may be pressed at any moment. Either time-out may run out while the mouse is
about to clock, as in the code, whose counters do not look at the mouse: the command
is then sent again to a mouse that may still have bits of the first. That a mouse is
too slow, or breaks off, counts as a fault (`MaxFaults`, `broken`). Three things are
assumed of it: it gives up what it is about when the clock is held down, as the PS/2
protocol has it; it answers in the end (`MaxSilent`); and one that was unplugged for a
moment takes longer to come up than the 2 ms after which the controller has given up
too.

The pixel tests (`is_ball`, `is_eball`, `is_rball`) are combinational outputs and
are left out.

Initial states. `Ball`, `Game` and `Lfsr` start from the reset button. Without it
the design powers up with registers at zero: the generators would show zero for
ever, and every dot would sit at the origin; the game is not playable before the
button is pressed. `EnemyBall` and `RandomBall` start from both.

## 4. The runs

| Run | Question | Bounds |
|---|---|---|
| `enemy1` | do the walls hold and is every motion a single pixel, for an enemy that keeps a motion on the start screen? | 6-bit words, radius 4, arena 18 x 16 (enough for both bands, an interior and the band corners), 125 players on, inside and beyond every wall, of sizes around the enemy's |
| `pursuit` | is an idle player caught from every state an enemy can be left in? | arena 26 x 24, eight roaming players, one idle |
| `ball` | do radius, speed and camera keep their invariants and does the ball never stop? | 4-bit words, so both axes wrap; three radii, two speeds; keys of both axes, a diagonal, none; dots in any frame |
| `dots` | limits of the radius copy, reach of the dots, dots that coincide | 4-bit plane, two growing dots, two shrinking, one of them with the full range |
| `generators` | do the generators keep moving and come round? | none: the real registers of both, a reset at any clock |
| `game` | does the composition start anew, lose no catch, and keep the radius copy near the radius? | two dots, three enemies at three different walls, two keys, two random places, `MaxFrames` = 10 frames since the reset button, any number of clocks between frames |
| `ball_top_edge` | (violated) does the ball come away from the top edge? | real parameters, one key and shrinking dots |
| `console` | is everything printed shown once and in order, and does a print come back? | ring of 4, hardware of 2, writes of up to 4 (more than the free ring), characters numbered modulo 6 (one more than can be under way), no alarm (as built), a terminal that comes and goes, no reading |
| `console_driver` | does no wake-up get lost and does every call return, with a clock? | ring of 2, hardware of 1, reads of up to 2, typed characters modulo 3, alarm on, every time-out up to `IntMax` = 4 |
| `usb` | is the setup safe against lists that run twice, lost messages and a keyboard that goes and comes, and does it end? | two looks for a keyboard at each place, two disturbances of the line, one key; the keyboard pulled, put back and typed on without a bound |
| `usb_hot_plug` | (violated) does the program look for a keyboard again whenever it was pulled? | the same |
| `mouse` | do command, packets and cursor survive silence, slow and broken commands and resets? | two packets after a reset (a click, a move to the lower left), eight requests unanswered, one fault |

Why these bounds suffice. `enemy*` and `ball` have no bound on the length of a
behaviour; what is small is the plane, and the theorems of section 5 cover every
plane. In `game` ten frames are enough for a game to be lost, the ball to be put
back, the next game to begin, and an enemy or dots to be eaten in between on each
screen (each of these was looked for and found by TLC within the bound); the ball is
put beside the dots so that the first few frames reach them. `FreshStart`,
`CaughtIsPutBack`, `InGameRolls` and `ShadowSize` are proved for every `MaxFrames`.

In `console` a write can find the ring empty, partly full, wrapped and full, and be
cut in two by the end of the ring; a larger ring only has more slots between these,
and `OutputInOrder`, `InputInOrder`, `Armed` and `TypeOK` are proved for every size. In `usb` two
looks suffice to tell the first, a further and the last; two disturbances spoil a
list and its repetition, or two lists of one setup; one key is enough to be an old
one. In `mouse` eight unanswered requests go one past the point where the byte count
slips (below), and one fault is a command that takes too long or is broken off, or a
reset, at every bit; `Framed`, `CommandIntact` and `CursorStays` are proved for any
packets and any number of them, of faults and of silences.

Fairness. `Lfsr` assumes that the clock does not stop (`WF` of a shift or load);
nothing is assumed of the reset button, so `ComesRound` speaks of behaviours where
it is left alone from some point. `EnemyPursuit` and `ball_top_edge` assume that
frames come for ever, as the free-running video counters give them; nothing is
assumed of keys, dots or clicks.

`UsbHost` assumes that the program and the chip go on (`WF`); that the chip accepts
a reset in the end (`SF` of the two acknowledgements: without it the program starts
over for ever, as `main.c` says it will); and that a list does not end between the
look for its message and its second start every time (`SF`): that gap is a few
accesses wide and a frame of the chip is a millisecond. Nothing is assumed of the
keyboard and its user. `JtagUart` assumes that thread and interrupt routine go on
and that the alarm goes off (`WF`), and that a terminal that is there again and
again reads (`SF` of `HostReads`); a terminal may be gone for good. `Ps2Mouse`
assumes that the time-outs run out and that a mouse that began to clock goes on
(`WF`); it may ignore requests up to `MaxSilent` and be late up to `MaxFaults`. Its run does not check for
deadlock: after the last packet within the bounds the mouse may lie still.

Properties worth knowing:

- `UnitMotion` shows that the branches for equal positions (`enemy_ball.sv:189-192`,
  `236-239`) are dead.
- `Confined` and `Glides` show that the enemy overshoots by a few pixels only, and
  that no wall comparison wraps.
- `CameraBounded` says by how much the corner overshoots its range. That range starts
  at zero, so the corners it admits include some just below zero, which the code
  reaches and which wrap; see below.
- `IdlePlayerIsCaught` is not evident: contact is not looked for in the bands of the
  walls and the X motion is blind in two of them.
- `DotsStayTogether`: dots touched in one frame become one dot until the next reset.
- `ShadowSize` says how far the radius copy may be off while the ball was not put
  back alone. Once it was, there is no bound but the copy's own limits: the copy has
  no branch for the start screen.
- `FreshStart` needs a full frame of the start screen. The buttons are levels read
  at 50 MHz, so the start screen may last less than a frame, and then the next game
  starts with the scores and enemies of the last. Nor does it speak of a frame in
  which a dot is touched (`quiet`): the ball then takes the dot and is put back a
  frame later.
- `MemoryIsFree`: the second start of a list (`main.c:181`) is harmless, because a
  list that has ended is passed over and the 10 ms that follow are long enough;
  `RequestsInOrder` and `ReadyWhenPolled` rest on it.
- `SetupEnds`, `RemovalNoticed` and `ReportsFetched` name what can keep the program:
  a list that failed in steps 4 to 9 (`GivenUp`), a message read away before it was
  waited for (`WaitsInVain`, `usb.c:557`), and one that arrived between the two
  accesses at `usb.c:533` (`MessageLost`). The last two are narrow, and final.
  `SetupEnds` allows the first only on a bad line and the other two only once the chip
  has repeated a list, which makes two messages of one list: without that the setup of
  a keyboard that stays ends in the polling. In the polling a message can also be lost
  when a poll that was started twice ends between the two accesses; there the two
  properties say that nothing but this stops the loop.
- `ReportsFetched` holds although the toggle is flipped after failures. The report at
  which the two are out of step is discarded, and fetched only in the sense that the
  next comes through; the second half of the property says that the next does: reports
  are not discarded for ever with none shown. A second start that flipped the toggle
  too would break it.
- `WriteReturns`: as built there is no system clock (`ALT_SYS_CLK` is none), the
  time-out is infinite, and a print without a terminal fills the ring and waits for
  ever. With a clock every call returns.
- `Framed`: the byte count starts two bytes ahead of the packets, by the command the
  controller hears itself send and the acknowledgement. Seven unanswered requests,
  each of which the receiver takes for a bit, or a command broken off or too slow,
  shift it until the next reset.
- `CommandIntact`: the bits of two sendings do not mix, because before each sending
  the clock is held down and the mouse forgets what it had. A controller that sent
  again at once after an error would break it when the mouse is slower than the
  time-out.
- `CursorStays`: `curX-5 > mag` is unsigned and true for every cursor below 5; a
  cursor on the screen never gets there.
- `ComesRound`: the feedback of Y sees eight of the ten bits and runs through 51 of
  the 255 words it could; loading every eight shifts does not shorten that, and the
  output keeps showing the least and the greatest of them. X runs through all 511
  words of its nine bits.

### Where the code and its comments differ

- `ball_top_edge`: a small fast ball at the top edge ("BOUNCE!", `ball.sv:445`)
  passes zero to Y = 1020, where the bottom wall is found; the late motions
  alternate for ever.
- `usb_hot_plug`: the "USB hot plug routine" (`main.c:531`) and its label promise
  that a keyboard may be pulled; pulled in steps 4 to 9 it leaves the program in a
  retry loop that never looks for it.

Also seen, and not checked:

- `randomx.sv`, `randomy.sv`: the reset value is 15 where the comment says all ones;
  the output is loaded after nine (eight) shifts, "after 13 shifts" by the comment
  at line 22.
- `ball.sv`: the camera's corner is unsigned and passes zero when the ball moves
  left from X = 200 at speed 3; the wall tests add it and wrap, and the ball passes
  X = 0 to 1023.
- `lab8.sv:412-437`: the decimal display tests 1e before 1d and again after it, and
  from there on shows one more than the score.
- `mouse_interface_IP.sv`: a reset leaves `curX`, `curY` and `byte2`; Y moves when
  the first byte of the next packet is in; a mouse that is unplugged and put back is
  not enabled again; the receiver has no time-out and looks at neither parity nor
  stop bit.
- `main.c:527`: a keyboard pulled and put back between two looks is polled without
  having been set up. A first poll that fails shows the game the word 0x0520 of a
  list as if it were keys.

## 5. The proofs

All theorems hold for every value of the constants that satisfies the named
assumption of the module (`WordAssumption`, `EnemyAssumption`, `BallAssumption`,
`DotAssumption`, `LfsrAssumption`, `GameAssumption`, `UsbAssumption`,
`JtagAssumption`, `MouseAssumption`), which TLC evaluates on the instances of the
runs.

`EnemyBall_proofs`. `Confined` alone is not inductive: an enemy on the left edge of
the arena with motion -1 in the band of the top wall would leave the plane. The
invariant `Inv` adds the argument why that state is not reached. `BlindFrames`
counts the frames the enemy will still spend in a vertical band, from its depth and
its Y motion; `RoomLeft` and `RoomRight` say that the distance to the edge of the
plane is at least that number; `RoomAbove` and `RoomBelow` the same for the lag of a
single frame. A band is entered at its edge, so the room is there, and each blind
frame uses one pixel of it and takes one from the count. From `Inv`: `TypeCorrect`,
`UnitMotionHolds`, `ConfinedHolds`; and `GlidesHolds` because in `Inv` every sum is
exact.

`Ball_proofs`. `TypeOK`, `Agility` and `CameraBounded` are inductive together.
`Agility` needs the equality of the two steps beside the two inequalities; the
camera needs that a motion is at most `MaxStep` either way and that the code scrolls
left only at `pos >= low`. `NeverStopsHolds` uses the ranges of the steps: a step is
never zero, so a wall or a key always sets a motion that moves.

`RandomBall_proofs`. `TypeOK` and `WithinReach` are inductive; `DotsStayTogether` is
a fact about one step: equal places are touched together and get the same new place.

`Lfsr_proofs`. `NeverStuck` looks at the bits up to the highest tap. A shift moves
each of them one up, so one that is not at the highest tap is still there; if the
only one left is at that tap, it is the only bit fed back and comes in again at the
bottom. Nothing else is asked of the taps: the theorem holds of both designs and of
any other.

`Game_proofs`. `CaughtIsPutBack` is inductive: on the game-over screen the wire that
brought it there keeps its value until the next frame, and at that frame the ball is
seen at its start, whatever dots it touches. `InGameRolls` is about one step.
`FreshStart` follows from `Fresh`, which names the four parts of the score; that
nobody is caught then needs each home to be in a wall's band (`HomeAtWall`, true of
the three enemies of `lab8.sv`). `ShadowSize` is inductive together with the limits
of the two radii (`Radii`): a frame that grows or shrinks moves both, and where one
is stopped by its limit, `LimitsMatch` keeps the other close to it; a frame that
puts back one of them is what `outOfStep` records.

The parts in the composition. `GameImplementsParts` is the refinement of each part's
own specification by the game: under the instances `B`, `D`, `E1`, `E2` and `E3`, a
`FrameTick` is a step of each, a `PressReset` a reset of each, and a `Tick` a
stutter. What has to be shown is that the part's environment admits what the others
put on its wires; `BallOnWires` says so of the ball, from its type invariant. The
theorems about a part then hold of it in the game: `EnemiesInGame`, `BallInGame` and
`DotsInGame`. `EnemyBall_proofs` and its like are instantiated with the game's
settings (`E1P` and so on), the assumptions they rest on follow from
`GameAssumption` (`EnemySettings` and so on), and the `Same...` lemmas say that such
an instance and the one in `Game` speak of the same specification.

`UsbHost_proofs`. The four safety properties hold for the same reason: the program
knows, at each of its places, what the chip may still be doing. The invariant `Inv`
says it place by place: `Places` which list goes with which place; `Lists` when the
list in memory may be running or be started, and what its control byte can be;
`Messages` when a message may be there; `Progress` how far the keyboard has come
compared with the list the program is at, also when a list was sent twice; and
`NoOldKey`. Every step preserves it, and `MemoryIsFreeHolds`,
`ReadyWhenPolledHolds`, `NoOldKeyHolds` and `RequestsInOrderHolds` follow, for every
number of looks and disturbances and every set of keys. So does `NothingLostHolds`:
unless the chip repeated a list, the setup is never where `SetupEnds` lets it wait for
a message that does not come. `Messages` has the reason: of a list that ran once there
is one message, and it is there when the program reads it.

`JtagUart_proofs`. `Sound` is `TypeOK` with what a copy under way knows while the
other side moves: `CallInv`, that the room a write counted is still
there, because the other index only moves away from it; `IsrInv`, that the hardware
has the room the control word promised. From it `TypeCorrect`. `Armed` is inductive
above it: the routine turns an interrupt off only where the ring says that there is
nothing to do, and a call that is about to change the ring is about to turn the
interrupt on.

Printing is a refinement, `OutputInOrderHolds`: under the mapping of `chan` to the
hardware's characters followed by the ring's, `Publish` is `Put` of the characters
copied, `HostReads` is `Get` of one, `Send` moves characters from one part of the
channel to the other and so is a stutter, as are all others. It needs `StreamInv`
beside `Sound`: the characters copied but not yet published lie in the ring after
`tx_in` and carry on from the newest in the channel, and `ptr` is the one after
them. Typing is the same, the other way, `InputInOrderHolds`: `chan` is the ring's
characters followed by the hardware's, `HostTypes` is `Put` of one, `ReceiveChar`
moves one from the hardware to the ring and is a stutter, and the release of the
slots by `read()` is `Get` of the whole piece it copied. It needs `ReadInv`: until
they are released, the interrupt routine leaves the slots that were copied alone, so
that what the caller was given is what the channel loses. Both rest on lemmas about
rings (`RingGrows`, `RingSplits`, `Dropped`) and about counting with a wrap
(`ModAdds`, `AfterAfter`).

`Ps2Mouse_proofs`. `CommandIntact` needs the transmitter and the mouse to be in step
at every bit: `CommandInv` has who drives which wire (`Roles`), how `s`, `cur_bit`
and the length of `got` go together at either level of the clock (`InStep`), and
that `got` is a beginning of the command (`Complete`). Once the transmitter has given
up, the mouse may be at any bit; `InStep` counts again when the clock has been held
down. `CursorStays` is a fact about
one step: each of the four ways to move leads from the screen to the screen, for all
256 magnitudes. `Framed` depends on every bit since the reset, and `FrameInv` says
how: until the mouse is set up, the number of bits that came in (one for each
request, eleven for the command, eleven for the answer) fixes where the receiver is
in its byte and what `counter` is (`SetUp`; it has a case apart for up to one
unanswered request, when the second byte begins two bits later). From then on the
bits the mouse has still to send fix it, together with which registers hold a byte
of the packet and how much of the next one is in the shift register (`Taken`).
`Straight` names the histories for which the count comes out right, and
`OnTheWay` is why: without a fault no command is given up once the mouse has begun to
clock it, and a request that is given up leaves the clock high.

Every invariant and action property of the passing runs is a theorem, and so are the
two refinements of `CharStream`. Only model-checked are the liveness properties
(`IdlePlayerIsCaught`, `ComesRound`, `SetupEnds`, `RemovalNoticed`,
`ReportsFetched`, `OutputMoves`, `WriteReturns`, `ReadReturns`, `InitEnds`), which
are outside the prover's reach, and the two violated ones.

### Not modelled

By far most of the repository's C and header lines are the vendor's: register maps
(`cy7c67200.h`), the hardware abstraction layer of the board support package and its
C start-up code, and all of it again under `final/`, an earlier snapshot with its
own copies of the host program. The header files hold constants. The layer's other
drivers and its file table are built in but not called by the program, other than to
pass a `printf` on to the console's `write()`. The small polled variant of the
console driver is not built. The printed texts of `main.c` and the contents of the
descriptors are abstracted, and `UsbPrintMem` only prints.

## 6. Files

`X.tla` is a component, `X_proofs.tla` its theorems, `MCX.tla` with its `.cfg` files
the instance TLC checks. Operators introduced as mutants are variants of the
definition after them with a plausible slip; they are used only to see that a
property can fail, and no specification refers to them.
