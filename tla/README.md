# A verification project for PacmanFPGA

The repository is a Pacman game on a DE10-Lite board: SystemVerilog for the
game and the picture, and C firmware on a Nios II processor that reads a USB
keyboard through a MAX3421E host controller. This directory holds TLA+ models of
the parts that decide something, TLC configurations that check them on small
instances, and TLAPS proofs of what holds for every instance.

## 1. The system

```
 user -- keyboard -- USB bus -- MAX3421E == SPI master == firmware == JTAG UART -- host
                                                 |  keycode register (PIO)
   50 MHz clock                                  v
        v
 VGA_controller --VGA_VS (frame clock)--> pacman --position--> ghosts (3)
           |                               ^  |                  |
           |                     isDefeated, death,              |
           v                     victory, reversal               |
       mouth counter                       |  v                  v
                                         rules of lab62.sv: lives, reversal,
                                         fruits, dots, score
                                                |
                                                v   color mapper, hex digits
```

Everything in the game except the VGA counters changes at the rising edge of
`VGA_VS` (60 Hz) or on the asynchronous `Reset_h`; all registers read the *old*
values of all others. The firmware is a single loop, interrupted by the system
timer and by the JTAG UART on which it prints. The only thing the two halves
share is the keycode register.

| Component | State | Operations | Hard behaviour |
|---|---|---|---|
| maze (`wall.sv`) | ROM | `check_wall`, `sprite_wall` | 10-bit coordinates, look-ahead by offsets |
| player (`ball.sv`) | position, motion, `last_keypress`, `hasMoved` | Reset, freeze, life lost, stop, steer, advance | look-ahead for the motion of the frame before |
| ghosts (`ghost.sv`) | position and motion, three times | Reset, freeze, caught, wait, chase | late turns, 20-bit squares, a missing case |
| rules (`lab62.sv`) | lives, death, three enables, reversal and its counter, three fruits, 42 x 42 dots, score | three `always_ff` blocks, three wires | blocks that fire at one edge; a register that Reset forgets; sprites that meet between two frames |
| VGA timing (`VGA_controller.sv`) | clock divider, two counters, two sync registers | count, Reset | sync pulses that clock the game, extra ticks after Reset |
| mouth (`counter.sv`) | counter, `closePacman` | count, flip | drawn while it is counted |
| host (`main.c`, `MAX3421E.c`, `transfer.c`, `HID.c`) | `usb_task_state`, `devtable`, `hid_device`, main's flags | main loop, interrupt handler, one USB step | a state machine written from two places, interrupts read and cleared apart, plugging at any time |
| control transfers, keyboard poll (`transfer.c`, `HID.c`) | toggles, NAK and retry counters, buffers | setup, data and status stage; poll, launch, retry, read | lost packets and acknowledgements, retry limits, requests given up midway |
| register access (`MAX3421E.c`, `altera_avalon_spi.c`, SPI master) | credits, counts; holding and shift registers | select, send, receive, release | a master with its own pace, a processor restart that resets neither it nor the chip it selects |
| clock (`transfer.c`, `alt_tick.c`, `alt_alarm_start.c`) | tick counter, deadline, one alarm | tick, settle time, alarm | wrapping counter and products |
| console (`altera_avalon_jtag_uart_*.c`) | two circular buffers, interrupt enables, host activity | write, interrupt handler, alarm | a lock-free buffer shared with an interrupt, interrupts switched off and on, no host |
| color mapper, ROMs, hex driver | none | drawing | - |
| SoC, rest of the BSP | generated | - | - |

What makes them correct:

* player: never over a wall, never stuck, never an index outside the dots;
* ghosts: never further than one pixel into a wall, never without a way out;
* rules: one life per contact, one reversal per fruit and of full length, every
  dot paid once, who eats whom, a victory that stays, a game that ends;
* game: sprites as the rules assume them, nobody passes through anybody;
* timing: ticks a whole frame apart, outside of the visible picture, for ever;
* host: what is plugged in is enumerated or given up, what is pulled out is
  forgotten, the endpoint that is polled is what the probe found, no transfer
  during a bus reset;
* transfers: a control request that succeeds brings the whole answer and nothing
  else, every keyboard report is shown once and in order, everything returns;
* register access: one selection from the chip's reset on, its own answers,
  nothing overrun;
* clock: a device settles for its 200 ms, and not much longer; the alarm rings
  every second;
* console: every byte is sent once and in order, no byte to send waits for a
  disabled interrupt, `print` returns.

`PROJECT.json` lists the hazards behind these at their lines.

## 2. Modules

| Module | Models | Extends |
|---|---|---|
| `Maze` | `wall.sv` | |
| `CorridorWalk` | what a sprite promises: stay, one free step, or home (abstract) | `Maze` |
| `Pacman` | module `pacman` of `ball.sv` | `Maze` |
| `GhostWalk` | what a ghost promises, whomever it chases (abstract) | `Maze` |
| `Ghost` | `ghost_red`, `ghost_green`, `ghost_aqua` and their helpers | `Maze` |
| `GameRules` | the registers and wires of `lab62.sv`, with abstract sprites | |
| `Game` | the whole game: `Pacman`, three `Ghost`s and `GameRules` | `Pacman` |
| `VgaTiming` | `VGA_controller.sv` | |
| `MouthCounter` | `counter.sv`, clocked by the timing | `VgaTiming` |
| `UsbHost` | main loop, interrupt handler, USB state machine, HID probes | |
| `ControlRequest` | what a control request promises its caller (abstract) | |
| `ControlTransfer` | `XferCtrlReq` and its stages, packet by packet | |
| `ReportDelivery` | every report shown once and in order (abstract) | |
| `Polling` | `kbdPoll`, `XferInTransfer`, `XferDispatchPkt` | |
| `ChipAccess` | an access to the chip in one step (abstract) | |
| `Spi` | `MAXreg_wr` ... `MAXbytes_rd`, `alt_avalon_spi_command`, the SPI master | |
| `SettleTimer` | the settle time of `USB_Task` and the tick counter | |
| `SystemClock` | the same with `alt_tick`'s alarm | `SettleTimer` |
| `ByteStream` | a stream with a buffer (abstract) | |
| `JtagUart` | console driver, UART and host | |
| `MazeProofs` | lemmas about walls and free sprites | `Maze` |
| `GhostProofs`, `GameRulesProofs`, `UsbHostProofs`, `PollingProofs` | theorems | their module |
| `GameProofs` | theorems about the player and the whole game | `Game` |
| `TransferProofs` | theorems about what moves bytes | `Spi`, `ControlTransfer` |
| `PeripheralProofs` | theorems about what keeps time or prints | `SystemClock`, `MouthCounter`, `JtagUart` |
| `MC...` | small instances for TLC | |

### How state and actions correspond to the code

**Maze.** The ROM's 448 x 512 bits are 56 x 56 pixel blocks, so a maze is a block
size and a set of wall blocks; `RomBlocks` is the shipped one (its pixels were
compared row by row with the ROM: rows 448 to 511 are all open, as in
`CheckWall`, where there is no block row 8 in `WallBlocks`). `SpriteWall`
computes the two pixels of `sprite_wall` with 10-bit sums, assignment by
assignment; `Block` is a parameter so that small mazes have the same corridors.

**Pacman.** A step is an edge of the frame clock. `Freeze`, `LoseLife`, `Stop` and
`Move` are the four branches of `Move_Pacman` in their order; `Move` is `Steer`
(the `unique case` on the keycode) with `Advance`, which uses the *old* motion.
`death`, `victory`, `isDefeated` and `reversal` are wires of the rules and chosen
freely, so what holds here holds under every behaviour of the rest.

**Ghost.** `Pursue` is the last branch of the clocked block, `direction` the
combinational chooser (`findMinFour` with its reversal, the best direction if it
is open, `Detour` with the sides, the way back and the fallback otherwise).
`colour` selects one of the three modules, which differ in home, in the offset
of the distances and in what direction 5 does. In the run of its own the
player's position is an input, any of `PacmanPositions` in any frame. `Caught`
may come with the end of the game: after a victory the ghosts go on, and one that
catches the player when he has no life left does so in the frame in which
`death` is set.

**GameRules.** One `Tick` is the conjunction `Lives /\ Reversal /\ EatDots /\
Sprites`: the three `always_ff` blocks and the sprites read the same old state.
Positions are abstracted to what the rules compare: which ghosts are within 8
pixels (`near`), which fruit, which dot cell. `Sprites` moves these as
`ball.sv` and `ghost.sv` may: all home when the player is caught, nothing before
the first key, ghosts alone after a victory, nothing after death. Reset does not
touch `reversal`.

**Game.** The same rules over real positions. `near`, `FruitAt` and `DotAt` are
computed from them as `ghost_pacman_distance` and `lab62.sv:219,325` do, the
ghosts chase the real player, and everyone gets the wires of the rules.
`GameTick` is the conjunction of all register blocks at one edge. That this is a
refinement of `GameRules` (`PlaysByTheRules`) is what justifies the abstract
`Sprites` there; it rests on the sprites' homes and the fruits being out of each
other's reach (`BoardAssumption`), which the constants of the code satisfy
(`ShippedBoard`).

**VgaTiming, MouthCounter.** A step is an edge of the 50 MHz clock or a Reset at
any of them. The syncs are registers, computed from `hc + 1` and `vc + 1`, so
that the vertical pulse starts a line before the line it names.
`FrameEdge` is the rising edge of `VGA_VS`; `ticks` and `lines` are history.

**UsbHost.** `pc` is the place in the main loop between two controller accesses
whose order matters: the reset, probe and acknowledgement of `MAX3421E_init`, the
interrupt test, the probe and the acknowledgement of `MaxIntHandler`, the step
of `USB_Task`, and main's own branch. The user plugs and unplugs, the line first
seen high or not, between any two of them. A control transfer is one step that
succeeds, or fails because nobody answers or the bus disturbs it (`MaxFaults`).
A register access is one step, as `Spi` shows (`AccessesChip`), and so is a
control transfer, as `ControlTransfer` shows (`KeepsPromise`): it also finds
that a device may miss the end of a request that succeeded for the host, which
`Address` allows for. `missed` is a history variable: the line last changed in
the window between a probe and its acknowledgement.

**ControlTransfer.** `stage` is the place in `XferCtrlReq`, `step` the place in
`XferDispatchPkt`. `Launch`, `Nak`, `Retry`, `Error`, `SetupDone`, `Read` and
`StatusDone` are its branches; a step of the bus answers the packet that is on
it. The device keeps the request it last took a SETUP for, its stage, its
toggle and the bytes that were acknowledged; a byte of an answer is a pair of the
request's number and its place, so that bytes of different requests differ. Where
the data ends is decided by host (`EndOfData`) and device (`Acknowledged`)
separately.

**Polling.** One step per packet on the bus. `Nak`, `Retry`, `GiveUp`, `Received`
and `Read` are the branches of `XferDispatchPkt` and `XferInTransfer`. The
controller's toggle, the host's saved one and the keyboard's are three
variables. Reports are numbered, so that "twice" and "never" can be said.

**Spi.** `pc` walks through `alt_avalon_spi_command` with one access to the SPI
master's registers per step; `ByteDone` is the end of a byte, at any time. The
register written and the answer read are numbers of bytes. A restart by the
debugger resets the processor but not the SPI master (`lab62soc.v:124-127`): the
master's registers stay, a byte in it is shifted, and a chip that was selected
stays selected (`SSO`). `MAX3421E_init` then writes rPINCTL *before* it resets the
chip (`SetPins`, `MAX3421E.c:241`), and the chip hears these bytes behind those of
the access that was cut off (`cut_off`); `ResetChip` follows, and from there on
the accesses are those of the program. `SetPins` waits until the master is idle:
the start of the C program and the first `printf` of `main` take far longer than
the byte that was being shifted. `ChipAccess` says the same of a chip that hears
whole accesses.

**SettleTimer, SystemClock.** The words and the conversion
`(alt_nticks()*1000)/rate` are kept, with `Word` for 2^32 and `Thousand` for 1000.
`Tick` is `alt_tick`: the counter, the rollover flag, the comparison and the
callback of the one alarm that is ever started, by the console.

**JtagUart.** The writer's step is one access to what it shares with the handler:
reading `tx_out` (`Plan`), `memcpy`, the store of `tx_in`, the enabling of the
interrupt, the busy wait. The handler's steps are the bytes it moves; UART and
host work in between. The UART is that of `lab62soc_jtag_uart_0.v`: the transmit
interrupt is raised with `WriteThreshold` bytes or fewer left (436), the receive
interrupt with `ReadThreshold` free slots or fewer or after a pause of the host,
which a read of the data register ends (437, 440-449). RVALID is taken in the cycle of a
read and RAVAIL in the next (511, 520), so a read of an empty FIFO is not valid
but may report a byte that arrived meanwhile (`RxEmpty`). Only the host at the
other end of the cable is external. Bytes are numbered modulo `Numbers`, so that loss,
duplication and reordering are visible. Nobody calls `read`, so `rx_out` is 0.

## 3. What TLC checks

| Run | Instance | Shows |
|---|---|---|
| `pacman` | shipped maze, blocks of 24 | never over a wall or outside (`NeverInWall`), never stuck (`NeverWedged`), dots index in range, refines `CorridorWalk` |
| `ghost` | shipped maze, blocks of 20, three colours, three player positions | middle of the ghost never in a wall (`OverrunsByOnePixel`), some way always open (`NeverCornered`), refines `GhostWalk` |
| `rules` | 2 ghosts, 2 fruits, 3 dots, victory at 2, reversal of 2 | lives, reversal, fruits, dots, score, victory; a reversal ends, the game ends |
| `game` | corridor of four 12-pixel blocks, 3 ghosts, a fruit, reversal of 8 ticks, victory at 3 | refines `GameRules` (`PlaysByTheRules`), nobody passes through anybody (`TouchIsNoticed`) |
| `vga` | frame of 9 x 9 with a picture of 4 x 3, mouth of 3 frames | ticks a whole frame apart (`FrameTime`), a mouth that does not change inside of the picture (`SteadyPicture`), ticks never stop |
| `usb` | 2 addresses, 3 plugs, 1 failing transfer, 1 spurious interrupt, 2 keys | enumeration, replacement and removal |
| `control` | 6 kinds of request, packets of 4, NAK limit 2, retry limit 3, 3 requests, 4 faults | refines `ControlRequest`, no failure without a reason, every request returns |
| `polling` | 4 reports, 3 losses, NAK limit 3, retry limit 2, 2 more plugs | delivery once and in order, every poll ends |
| `spi` | accesses of up to 8 bytes, two restarts at any point | nothing overrun, refines `ChipAccess`, start-up and every access return |
| `clock` | 64-value word, 5 ms per second, settle 3 | never early, in time but for the end of the clock's range; the alarm on its tick |
| `console` | buffers of 3, FIFOs of 2, writes of up to 2 | refines `ByteStream`, no bytes to send left with the transmit interrupt off, `print` returns |
| `usb_lost` | as `usb`, 2 plugs | a violation, below |

`usb_lost` shows a disagreement between the code and its comment (a "finding" in
`PROJECT.json`): a device plugged in between the read of the line and the
clearing of its interrupt is never seen, and the host waits for ever in the
state that `transfer.c:256` describes as "when nothing is connected".

Other disagreements that were met while modelling are modelled as the code has
them and stated by no property:

* "MAX3421E initialization after power-on" (`MAX3421E.c:238`) also runs after a
  restart by the debugger, with the chip perhaps still selected: the write of
  rPINCTL then goes on with the selection that was cut off, and the chip takes both
  of its bytes as data of the old access; `SetPins` does it, and `AccessesChip`
  excepts it;
* "If there is still data available here then the buffer is full"
  (`altera_avalon_jtag_uart_init.c:158`): a byte that arrives in the cycle in which
  the handler reads the empty FIFO ends its loop with RAVAIL set, and the receive
  interrupt is switched off with room in the buffer (`RxEmpty`, `RxDone`). TLC
  reaches such a state in five steps. The firmware does not notice, since it
  never reads its input, and the properties of the console hold with it;
* the score to win is 500, the comment at `lab62.sv:342` says 150;
* the wait for the first SOF tests `HIRQ | bmFRAMEIRQ`, which is never zero, and
  does not wait (`transfer.c:298`); `FirstSof` has no guard;
* a bus event that is pending with a connection interrupt advances the state
  past ATTACHED, so that the settle time is not started (`MAX3421E.c:288`);
  `Ack` does it, and what remains true is `NoTransferInReset`;
* a settle deadline beyond the last millisecond of the clock (71.6 minutes) is
  never passed (`transfer.c:281`), and one within the last `LoopTicks` of it may
  be missed; `SettlesInTime` says for which deadlines it is kept;
* the vertical sync pulse is a line earlier than "line 490-491"
  (`VGA_controller.sv:98`), since it is computed for the next line in every
  pixel of the current one.

### Bounds, and why they are enough

* *Blocks of 24 and 20 pixels.* A sprite is 9 pixels wide and a corridor one block;
  with 24 or 20 every offset, from one wall to the other and around a corner,
  occurs. `Pacman` is proved for all block sizes.
* *Three player positions for the ghosts.* They change at will from frame to
  frame, so every direction is the best one in most places and both sides of a
  detour are asked for.
* *Rules.* Two of each so that one can be taken and the other not; three dots of
  which two win so that a victory by score and one by the last dot both occur.
  The proofs have no bound.
* *Game.* What it adds to its parts is meetings, and in a corridor nobody can avoid
  them: the player (with the keys left, right and none, the others do nothing
  here) meets ghosts from both sides, hunted and hunting, at a fruit and at the
  end of a reversal, with every difference of position. `GameImplementsRules` is
  proved for every board.
* *Timing.* Every order of the counters' events of the 800 x 525 frame occurs in
  9 x 9. The proofs have no bound.
* *USB.* A device may be replaced at any place of the enumeration of the one
  before it; one fault leaves a stale record behind, a second address is there for
  the next attempt, and with three plugs a device finds no address left.
* *Control transfers.* The requests end with a short packet, a full one and one
  without bytes, with the device having as much as asked for or less, one without
  data, and the first request whose packet size the host does not know yet. Three
  in a row, so that the one after a request that was given up is followed by
  another; four faults are more than one packet's retries.
* *Polling.* Four reports use both toggles twice; three losses exhaust a poll's
  retries and lose an acknowledgement as well.
* *SPI.* Eight bytes are a SETUP packet, the longest write. With two restarts the
  write of rPINCTL that goes on with a selection is itself cut off and gone on
  with. The proofs have no bound on either.
* *Clock.* The millisecond clock starts again six times in one round of the
  ticks, as it does 1000 times on the board, each time at another place.
* *Console.* Writes of two fill, wrap and overflow a buffer that holds two bytes,
  and then wait for room; the FIFO may have room for one of them only. With four
  numbers a slot of the three does not hold what it held a round before. The
  thresholds are 8 of 64 on the board; here one byte may be left to send, and the
  receive interrupt is, as on the board, not raised by every byte but only by a
  FIFO that fills or by a pause. The proofs have no bound.

Deadlock is not checked in `ControlTransfer` only, where the bound on the number
of requests stops the system.

### Fairness

* `MouthCounter`: weak fairness of the clock's edge. `TicksNeverStop` then is the
  fairness that `GameRules` asks for its `Tick`. A Reset that is held or
  repeated for ever is excluded where a property needs it (`AlwaysReset`).
* `UsbHost`: the loop goes round (every transfer ends by the limits of
  `XferDispatchPkt`, which `RequestsEnd` and `PollEnds` show, every register
  access by `AccessReturns`, every `print` by `WriteReturns`), a bus reset ends
  after 50 ms by the controller, a plug goes in or out. It also assumes that the
  settle time elapses, which `SettlesInTime` shows but for the end of the
  clock's range: `AttachmentEnds` is about all other times.
* `Polling`, `ControlTransfer`: the firmware goes on and the controller ends what
  was launched. A transfer on the bus takes less than a millisecond, the deadline
  is 5 seconds; the deadline is not modelled.
* `Spi`: the processor runs, also through the start-up, and the master shifts what
  it was given. A processor that is restarted for ever never gets anywhere; the
  bound on the restarts excludes it.
* `JtagUart`: the processor runs, the handler is called while its interrupt is
  raised, the timer never stops. No fairness for the host, which may stop reading,
  and none for the next call of `write`. One thing is assumed of the host by
  `WriteReturns` (`HostReads`): if it types or asks for more for ever, it also
  takes output. The driver gives a text up only when the host is silent, and
  would wait for ever for one that is active and takes nothing.

## 4. What is proved

Every safety property that a run checks, each invariant, action property and
refinement, is a theorem. They rest on the named assumptions on the constants
only (`MazeAssumption`, `CenterAssumption`, `GhostAssumption`,
`RulesAssumption`, `BoardAssumption`, `TimingAssumption`, `FramesAssumption`,
`PollingAssumption`, `SpiAssumption`, `ControlAssumption`, `TimerAssumption`,
`AlarmAssumption`, `UartAssumption`, `UsbAssumption`). TLC evaluates these for
the small instances of the runs, and two theorems show them for the values of
the code: `ShippedBoard` (the ROM's maze with blocks of 56, the start
positions, the fruits, 1764 dots, 500 points, 600 ticks) and `ShippedSizes`
(32-bit ticks at 1000 a second, 200 ms, 800 x 525, ten frames, buffers of 2048,
FIFOs of 64).

The type invariants of most modules are proved and for that reason not checked
again by the runs; the same holds for a few invariants that became lemmas of the
main ones (`GhostsHeldOnlyAtStart`, `FacesItsMotion`, `CounterIdle`,
`DeathHasNoLives`, `NotCaughtAtStart`, `ReversalDecides`, `NextReport`,
`TogglesAgree`). The inductive invariants of `Game`, `UsbHost` and
`ControlTransfer` were checked by TLC on the instances of the runs before they
were proved; only the properties are left in the runs.

### The game

`GameProofs`, **the player**, for every block size from 12 to 64 in steps of 4,
every maze with a closed border and every free start position:

* the inductive invariant `Inv`: types, the motion is along one axis, and the
  sprite is inside the maze and free. `NeverInWall` alone is not inductive: a
  diagonal motion would pass `sprite_wall` and leave through a corner. A tick
  moves the sprite only when the lookup for the *same*, old, motion is open, and
  `Lookahead` (in `MazeProofs`) shows which two pixels that lookup reads without
  the 10-bit wrap, because a free sprite is never at the border. `StepRight` to
  `StepUp` show that two open corner pixels, with the sprite free and blocks
  wider than it, make the whole next column or row of pixels open;
* `TypeCorrect`, `WallSafety`, `Responsive`, `DotsInBounds`, and `Refinement`:
  `Spec => WalksCorridors`;
* `GhostsReleased` from `Held` (before the first key the sprite is at the start
  *and at rest*, without which a tick could carry it away) and `Facing`.

`GhostProofs`, **a ghost**, for the same mazes, every free home, each colour and a
player who is anywhere in every frame:

* the inductive invariant `Inv`: the ghost is at a passable place, and the motion
  that it has *already chosen* leads to one. `OverrunsByOnePixel` alone is not
  inductive: the registers move by the motion chosen a frame earlier, so where
  the ghost will be next frame was decided from where it was. At a
  passable place at most the outermost columns of the sprite's pixels are over a
  wall, or at most the outermost rows (`Passable` of `MazeProofs`), and `SomeOpen`
  shows that from there one of the four lookups is open;
* `ChoosesOpen`: the chooser takes an open direction whenever there is one,
  whatever the distances are, so that nothing depends on the player or on how
  squares wrap; `SquareByHalves` says that the model's squares are the code's;
* `TypeCorrect`, `StaysOnTrack`, `AlwaysAWay` (`NeverCornered`) and `Refinement`:
  `Spec => Roams`.

`GameRulesProofs`, **the rules**, for every finite set of dots below 2048 and every
set of ghosts and fruits: the inductive invariant, the safety invariants and the
action properties of the run `rules`. They are stated for `Safety`, which is
`Spec` without its fairness, so that they can be used for the whole game.

`GameProofs`, **the whole game**, for every board that meets `BoardAssumption`:

* every step of the game is a step of `Pacman` (`PlayerInGame`), of three `Ghost`s
  (`GhostsInGame`), and of `GameRules` with the positions read as the rules read
  them (`GameImplementsRules`). What the last needs is that the player is at the
  start, at rest, before the first key, and on a cell of the dots;
* so what is proved of each part holds in the game: `WallSafetyInGame`,
  `PlayerFreeInGame`, `GhostsOnTrack`, `GhostsNeverCornered`, `ScoreInGame`,
  `RulesInGame`. The last two also show that the assumptions of `GameRules` follow
  from those on the board (`RulesAssumptionHolds`);
* `TouchesAreNoticed`: `TouchIsNoticed` in every frame. The invariant `TouchInv` adds
  to those of the parts that every point was a dot (`Account`: a game that was
  won stays won, since the score cannot wrap) and that after the last life is
  lost everyone is home (`LastLife`). The argument is of geometry: player and
  ghost each move one pixel at most and along one axis, so the distance of a ghost
  that was out of reach, 64 or more, cannot fall below 36 in one frame; a ghost
  that was within reach is gone from `enabled`, or everyone is sent home, out of
  reach, one frame later. The exception for a won game is needed: the ghosts are
  not told of a victory and walk over the player who stands still.

### The keyboard's way

`UsbHostProofs`, for every number of addresses, plugs, faults and spurious
interrupts, in every order of the loop, the chip's events and the user:

* the inductive invariant `IInv` says what holds at which place of the loop.
  `ResetQuiet`: while a bus reset is driven no bus event is pending or was read,
  so that the one that ends the wait is the reset's own. `Probed`: what a probe
  may have left before it is acknowledged, always a state before the first frame. `Restarting`: the chip is not reset
  under a device that runs. `Flagged`: `runningdebugflag` is set only while the
  device runs, or was given up in this loop. `Records`: the records of `devtable`
  are taken from below without gaps, and the one that is being configured or
  polled is the last. `Noticed`: `ChangesAreNoticed` at every place of the loop;
* none of the four properties is inductive without these: `NoTransferInReset` needs
  what was *read* of a bus event, `PolledAsProbed` that no later record exists, since
  `GetDriverandReport` takes the last;
* `TypeCorrect` (a state machine that is advanced by adding one never leaves its
  states), `NoTransfers`, `PollsAsProbed`, `NoticesChanges`.

`TransferProofs`, **control transfers**, for every set of requests, packet size, limit
and number of faults:

* the inductive invariant `IInv`: what the host has of the answer is a part of it
  from its beginning (`Held`); while the request is the one the device took, the
  toggles differ exactly when the last packet will be sent again, so that `sent`
  of the device is what the host has, or one packet more (`InSync`); and as long as
  nothing was lost, both take the same packet for the last one (`Agree`, for which
  the host compares lengths and the device counts bytes);
* `TypeCorrect`, `FailuresHaveAReason` (`FailsForAReason`) and `Refinement`:
  `Spec => KeepsPromise`.

`TransferProofs`, **register access**, for accesses of any length and restarts at any
point, of any number: `credits` is 1 less the bytes that were sent and not yet
answered (`Counts`); with the credit nothing is on its way, without it exactly one
byte or its answer is (`OneByte`), and nothing is shifted while an access begins
(`Quiet`). `Selected` is what the start-up is for: until the chip is reset the only
access is the write of rPINCTL, and only this one may find the chip selected, so
that after the reset no byte of an access cut off is left in the selection
(`cut_off` is empty) and none is shifted into it. An access that is cut off leaves
the chip with the first bytes of what it was to hear, the byte in the master
included, which is why the abstract chip hears them at the restart
(`AlreadyHeard`, `Abandons`). `SpiTypeCorrect`, `NothingLost` and `SpiRefinement`:
`SpiSpec => AccessesChip`.

`PollingProofs`, for every NAK and retry limit, any number of reports, of packets
lost and of keyboards: the inductive invariant counts a packet in the
controller's buffer as taken (`last`, `expected`); then the keyboard is at most
one report ahead, and its toggle is the expected one exactly when it is not about
to repeat the last report. `NextReport` and `TogglesAgree` are what is visible of
this at two places of the loop, too little to be inductive. `TypeCorrect`,
`NothingTwice`, `TogglesCorrect` and `Refinement`: `Spec => DeliversReports`.

### Clocks and console

`PeripheralProofs`, **the system clock**, for every word, rate and settle time in
their order: a tick moves the milliseconds by one or back to 0, and back to 0
only from the last two (`NowMoves`), so that a deadline is neither passed early
nor jumped over; while a device settles, the clock is at most `idle` ticks past the
deadline (`Soon`); the alarm's time, its rollover flag and the ticks that have
passed since it was set agree (`Due`). `SettleTimeKept`, `SettleTimeEnds`
(`SettlesInTime`) and `RingsOnTime`.

**The frame clock**, for every set of timing parameters in their order: the
invariant ties `vs` to the line it was computed for, `lines` to the position in
the frame, and says that the first pixel after a Reset is the first tick.
`MouthTypeCorrect`, `FramesAreWhole` and `PicturesAreWhole`.

**The console**, for every buffer, FIFO, thresholds and number of bytes: the slots
from `tx_out` to `tx_in` hold the numbers from `delivered` to `accepted`, and what
the writer plans to copy fits into the slots that were free when it looked, of
which the handler only makes more (`RoomSeen`, `Planned`, `InOrder`). `NothingWaits`
is about the transmit interrupt; of the receive interrupt the like is false, as
said in section 3.
`UartTypeCorrect`, `NothingWaits` and `UartRefinement`: `UartSpec => DeliversStream`.

### Only model-checked

Out of the prover's reach, and so checked by TLC only: liveness under fairness
(`ReversalEnds`, `GameOverComes`, `TicksNeverStop`, `AttachmentEnds`,
`DetachmentEnds`, `RequestsEnd`, `PollEnds`, `ReportsArrive`, `AccessReturns`,
`WriteReturns`). There is nothing else: no property of a run depends on induction
over data, and no module has a RECURSIVE operator.

## 5. Not modelled

* Picture: `Color_Mapper.sv`, `spriteROM.sv`, `font_rom.sv`, `HexDriver.sv` are
  combinational and have no state.
* `ghost_pac_dist` of `ghost.sv` is not instantiated.
* Mouse reports, string descriptors, LEDs and everything that is printed; the
  deadline of `XferDispatchPkt`, which no transfer reaches.
* Console: `read`, `ioctl`, `close` and the non-blocking mode, which the firmware
  never uses. SPI: the flags MERGE and TOGGLE_SS_N, which are always 0.
* The Qsys interconnect, Quartus databases, simulation output and the scripts
  that made the ROM.
* The rest of the Nios II BSP. It makes up most of the repository's C: headers of
  register macros and constants (`system.h`, `nios2.h`), options that are not
  compiled in (`alt_log_printf`, `alt_gmon`, the "small" drivers), and system
  calls of a HAL of which the firmware uses only `printf`, `usleep`, `malloc` and
  the tick counter. Models of code that never runs here would say nothing about
  this system.

## 6. Plan

Left for later:

1. `UsbHost`: an abstract host that knows only "nothing", "starting", "running" and
   "given up" with the device it believes in, and the proof that the loop
   implements it.
2. The step from packets to steps: that the one-step transfer of `UsbHost` is what
   `ControlRequest` promises, as `GameImplementsRules` does it for the sprites.
3. `SettleTimer`: the deadline of `XferDispatchPkt`, which wraps like the settle
   time does, as a second deadline of the same clock.

## 7. Running

In this directory, `tlc -config Pacman.cfg MCPacman` and so on for the runs of
`PROJECT.json`; `tlapm GameProofs.tla` and so on for the proofs, of which
`TransferProofs` takes the longest, some two minutes. The longest runs, `game`
and `console`, take two to three minutes.
