# Verification of rust-dap

rust-dap is a CMSIS-DAP debug probe (and, on the RP2040, a stand-alone GDB
server) written in Rust. This directory holds TLA+ modules of its stateful
parts, TLC configurations that check them on small instances, and TLAPS proofs
of some of their properties for every instance. The source paths below are
relative to the repository.

## The system

| component | state | operations | hard behaviour |
|---|---|---|---|
| **Dispatcher** (`rust-dap/src/dispatcher.rs`, `cursor.rs`, `cmsis_dap.rs`) | connected port, retry limits; while a command runs: request cursor, loop counter, `posted_read`, `write_issued`, `response_count`, the response | `execute`: DAP_Connect, Disconnect, TransferConfigure, Transfer, TransferBlock, pins, sequences, info | posted reads and buffered writes of the target, WAIT and match retries, errors in the middle of a packet whose layout depends on what was read so far |
| **CMSIS-DAP USB class** (`rust-dap/src/usb.rs`) | `pending_out_packet`, `next_in_packet` | `process`, `reset`, `endpoint_in_complete`, `endpoint_out` | called from an interrupt and from a task; a host process may be killed between request and answer, the bus may be reset at any time, the IN endpoint may be busy |
| **RTIC application** (`boards/*/src/main.rs`) | which task runs, is spawned, is preempted | `usbctrl_irq` (priority 2), `uart_irq` (3), `dap_process` (1), `idle` (0) | preemption at every point that holds no lock of the right ceiling; a `spawn` that fails |
| **UART bridge** (`rust-dap-rp/src/bridge.rs`) | two queues, RX interrupt enable, line coding in effect | three drain loops, the RX interrupt body, `reconfigure_uart` | the drain loops run in `idle` and in the interrupt; the RX interrupt stops itself when the queue is full and must be started again |
| **SWD and JTAG transports** (`rust-dap/src/bitbang.rs`, `rust-dap-rp/src/pio`) | pin directions (`clk_dir`, `dio_dir`, `reset_dir`), active port, PIO program loaded | `swd_transfer`, `jtag_transfer`, sequences, pins, connect, disconnect | two sides that count clocks on their own; two codes that share the pins |
| **arm-debug** (`arm-debug/src/lib.rs`) | `select`, `csw_valid`, `apsel`; nothing about the core | connect, memory access, core debug, breakpoints, call of a target function | caches against the target's registers after errors and reconnects; sequences that fail half way |
| **GDB server, target** (`boards/rpi_pico/src/bin/gdb_server.rs`) | breakpoint table, `running`, `stepped`, resume actions | Z/z packets, vCont, Ctrl-C, the session loop | two cores that stop on their own while they are reached one at a time; sessions that end half way |
| **GDB server, flash** (same file) | `flash_mode`, erased sectors | writes to the flash window, reads, resume, reset | three flash controllers; a mode that must be left, an erase that must not be repeated or forgotten |
| **GDB server, RTT** (same file) | control block and descriptor addresses, two queues | streaming, `monitor rtt` commands | rings shared with a running target that may be reset |
| descriptors, line coding conversion, board bring-up | - | - | constant data and straight-line code |

A request packet travels USB endpoint -> `usbctrl_irq` (`endpoint_out`,
`pending_out_packet`) -> `dap_process` (`process`) -> `Dispatcher::execute` ->
`DapTransport` -> the target, and its responses back through `next_in_packet`,
now or when `endpoint_in_complete` says that the endpoint is free. The serial
port shares the USB interrupt with it and nothing else.

What makes each part correct:

- *Dispatcher*: values are returned for the reads that asked for them; the
  response count says what was done; nothing is done twice; an OK is true of
  writes also; the cursor stays in the packet and in step with it; it ends.
- *USB class and tasks*: responses once, in order, to the requester that asked,
  never across a bus reset; every request is executed; none blocks another.
- *UART bridge*: bytes once and in order in both directions, none dropped but
  those read with an error and those a new line coding flushes; flow never stops
  for good; supported line codings take effect.
- *Transports*: every access leaves the wire where the next one expects it.
- *arm-debug*: the caches equal the target's registers whenever they are used;
  a sequence that fails leaves the target usable.
- *GDB server*: memory the debugger shows and restores is the program's own;
  all comparators of both cores agree with the tables; what the debugger wrote to
  flash is there; flash mode is left; no byte of RTT is lost or repeated.

`PROJECT.json` lists the hazards behind these sentences at their lines.

## Modules

| module | models | role |
|---|---|---|
| `DapTransfer` | `dispatcher.rs`, `cursor.rs` | transfers, one step per access of the debug port |
| `DapTransferProofs` | | `TypeCorrect`, `Completes`, `ResponseOrder`, `Confirms`, `MatchesOwn`, `ReadsInside`, `Consumes`, `CountsOnce` |
| `DapSession` | | abstract: what a probe promises a host |
| `CmsisDapUsb` | `usb.rs`, `usbctrl_irq` and `dap_process` of `main.rs` | packets between host, interrupt and task; implements `DapSession` |
| `CmsisDapUsbProofs` | | `TypeCorrect`, `ResponsesInOrder`, `ResetClean`, `ProbeKeepsSession`, `AnswerKept` |
| `ByteChannel` | | abstract: what one direction of a serial link promises |
| `UartBridge` | `bridge.rs`, `idle`, `uart_irq` and `usbctrl_irq` of `main.rs` | the serial bridge; implements `ByteChannel` twice |
| `UartBridgeProofs` | | `StoppedRx`, `BridgeIsChannels` |
| `SwjWire` | transfers and sequences of `bitbang.rs`, `pio/swd.rs`, `pio/jtag.rs` | clock by clock against a debug port or a chain of TAPs |
| `SwjPins` | connect, disconnect, `swj_pins` and sequences of the same files | which pins are driven, and nRESET |
| `SwjProofs` | | of `SwjWire`: `SwdioDrivenOnce`, `WireInStep`, `TransfersExact` (SWD) and `ScansExact` (JTAG), together `WireResultExact`, `WireOnlyAsked`; of `SwjPins`: `PinTypes`, `NoStrayReset`, `Releases`, `Writes` |
| `ArmLink` | access layer of `arm-debug/src/lib.rs` | the caches, word, block and byte access, one step per transfer |
| `ArmLinkProofs` | | `CachesTrue`, `MemoryMoved` |
| `CoreDebug` | core debug of the same file | run control, bootrom calls, comparators, one step per access |
| `CoreDebugProofs` | | `TypeCorrect`, `WatchesWhole`, `ReasonsAreHeld`, `RepliesTrue`, `CallsTransparent` |
| `GdbTarget` | `RpTarget` and the session loop of `gdb_server.rs` | cores, breakpoints, stops |
| `GdbFlash` | flash families of `gdb_server.rs` | erase, program, mode, one step per access |
| `GdbServerProofs` | | of `GdbTarget`: `TypeCorrect`, `StoppedAtIdle`, `ArmedTogether`, `TableIsHosts`, `KindTold`; of `GdbFlash`: `FlashTypes`, `WritesLand`, `ReadsOutsideCommandMode` |
| `RttBridge` | `rtt_*` of `gdb_server.rs` | both rings, one step per access |
| `RttBridgeProofs` | | `UpReliable`, `DownReliable` |

`MC...` modules give the runs their constants. The modules are layered as the
code is: each takes the operations of the layer below as steps that succeed,
fail before, or fail after their effect. `SwjWire` is one transfer, of which
`DapTransfer` and `ArmLink` are sequences; an operation of `ArmLink` is one access of
`CoreDebug` and `GdbFlash`; a call of `CoreDebug` is one step of
`GdbTarget`. The two host-facing halves, probe and GDB server, do not
interact: they are different firmwares on the same transports.

### DapTransfer

The variables are the dispatcher's fields and the locals of `transfer` and
`transfer_block_inner`, plus `pc`, the access about to be made. `Fetch`,
`Exec` and `Skip` are the parts of the request loop between accesses; each
access has an action for the case that it is accepted (`DrainOk`, `PostOk`,
`DpReadOk`, `MatchPostOk`, `MatchOk`, `WriteOk`, `FinalOk` and the `Block...`
ones); the cases that fail are common to all (`Retry`, `WaitExhausted`, `Fault`,
`WireError`, `NotConnected`), because `transfer_with_retry` is.

A value is abstracted to its tag, the number of the request whose access
produced it. That is what "the right value" means, and the target needs no more
memory than `latch`, the tag RDBUFF holds. A wire error may have reached the
target or not: both are allowed. The bytes of a packet are what they decode to
as requests: the skip loop after an error decodes whatever it points at, so an
error that leaves the cursor at a data word is visible.

### CmsisDapUsb

`pending` and `nextIn` are the buffers of the class, `done`, `acc` and `length`
the locals of `process` (`bytes_processed` in commands, the responses in
`next_in_packet`, and `response_packet_length`); `outEp` and `inEp` the one-packet buffers of the endpoints; `task`
the state of `dap_process`. `ProcessStart`, `ProcessCommand` and `ProcessEnd`
are `process`, with the lock of `usb_dap` held from the first to the last:
`UsbctrlIrq` is taken only when `task # "running"`. `TaskEnd` is the completion of the
task's future, after the lock is released: in between, `spawn` fails. `IrqPoll`
is `poll` with both endpoint callbacks and the spawn behind it, `IrqReset` a
poll that finds a bus reset. The host sends one request at a time, as the
advertised Packet Count of 1 tells it to. `HostKill` ends a requester before
its answer came, and a new one starts; `HostReset` ends the bus session.

A response is abstracted to whom it answers; a command to the size of its
response and whether it ends its packet (unknown or malformed). What the
commands do is `DapTransfer`'s business.

### UartBridge

A byte is its number. The three drain loops are actions parameterised by who
runs them, `idle` or `usb`, one byte per step; `at` says in which loop each of
them is and `dequeued` is the flag the RX loop returns. `Runs` is RTIC's
priority order; `locked` is the lock (ceiling 2) `idle` holds over a loop, which
keeps the USB interrupt out while the UART interrupt may still come at every
byte. While the line coding changes the UART is disabled and the model lets
what is in its FIFOs survive or not.

A byte may arrive damaged, and the first one stored behind an overrun carries
the overrun error although it arrived whole; `rxMarked` is the set of such bytes in the
FIFO. `read()` takes them off it and returns an error, `on_uart_rx_irq` leaves
its loop, and the byte is gone: `ByteChannel` has this as `Refuse`, and promises
that no other byte is dropped. Which line codings `UartConfig::try_from`
converts is the constant `Supported` (no 1.5 stop bits, mark or space parity, other data
bits, rate 0); the two default codings differ, as those of the two libraries do. The one
`unwrap` on the way, of `enable`, fails for a zero rate only.

### SwjWire and SwjPins

`SwjWire` has two sides that share nothing but the line. The probe turns a
command into the list `todo` of clocks (level or release of SWDIO/TMS, level of TDI,
whether it samples) and, at an acknowledge, into the clocks that follow
(`BitBangAnswer`, `PioAnswer`). The debug port has a `plan` of what it drives
on the next clocks and the bits it has `heard`; the TAPs have the 16 states of
IEEE 1149.1, a shift register and an instruction each. `SwdClock` and
`JtagClock` advance both by one clock. `noise` counts the clocks since the last line
reset whose level the other side saw wrong. The debug port and the TAPs are external: what the
code relies on of ADIv5 and 1149.1.

A JTAG device may refuse a data scan (WAIT), and one that takes it gives the result of the access
before, not of this one: `given` is what it put into its data register for this scan,
`latched` what it will give to the next. The probe drops the acknowledge (`bitbang.rs:653`,
`pio/jtag.rs:703`), so nothing in it depends on `given` but the word a read returns. One
acknowledge bit stands for the three, a device has one register, and the sticky flags of a
JTAG-DP, which the code does not read here, are left out.

In `SwjPins` `driven` is what the hardware drives and `noted` the direction
fields of `SwdBits`, on five transports (bit-banged SWD, JTAG and SWJ, PIO SWD and
JTAG). A command is one action, `swj_pins` two (`SwjPinsCommand`, `Sampled`):
the pins are set, then waited for and read back.

### ArmLink and CoreDebug

In both `todo` is what is left of an operation, and an access is one step that
may go wrong. In `ArmLink` the steps are transfers; `SelectApBank` and
`EnsureCsw` put theirs in front when a cache says so, and the target has
its own `sel`, `csw`, `tar` and sticky error for each of the two debug ports of
an RP2040. `Acked`, `AckedNotDone`, `Refused`, `Unheard`, `Garbled`,
`AbortLost`, `Waited` and `NoTarget` are the ways a transfer ends. Memory is
bytes tagged with their origin. `stale` is a history variable: the reasons
found for which a cache may be wrong (see the known exceptions below).

In `CoreDebug` the core runs and stops by itself (`Core`): it takes a halt, a
breakpoint, any set of watchpoints, or returns from a called function. A
register is tagged `user`, `arg` or `call` by who wrote it.

### GdbTarget, GdbFlash, RttBridge

`GdbTarget`: `pc` and `core` say where the server is in its loop over the
cores, and each step is one call of arm-debug on one core, done, failed, or both.
A breakpoint that is armed takes no second comparator, a watchpoint does (`watchpoint_set` does not
look, `lib.rs:1158`): `again` has the ones beyond the first, of which a clear takes one.
`held` is what the host has been told is in force; the properties compare it
with `cmp` (comparators), `ram` (patched code) and `breakpoints` (the table).
`SessionEnd` is a host that goes away, at any time; `Connect` is
`connect_and_halt` of the next one. Where the core's pc or its comparators
cannot be read, the server reports a software breakpoint as a guess, and the
model says so (`guess`).

`GdbFlash`: what runs between two decisions of a routine is a list of accesses and of
assignments to the server's fields, in the order of the code (`Begin`, `Enter`,
`EraseSector`, `Program`, `Finish`), in `todo`. The two loops of `flash_write` are `loop` and
`next`: `NextSector` looks at the next sector of the span, which is erased unless it has
been, `NextCell` programs the next chunk. The ways an error is treated (`?`, ignored, or
guarding what follows) are the `how` of a step. A flash cell is the set of data programmed
into it since it was erased, as NOR flash holds their AND.

`RttBridge`: each ring has a writer and a reader; every access of the server is
a step between which the target writes, reads, or is reset. The descriptor as it
was read and the bytes in hand are `desc` and `chunk`.

## Runs

The bounds are named in the modules (`MaxRequests`, `MaxSent`, `MaxRx`, ...).

| run | shows | bounds |
|---|---|---|
| `transfer` | values are those asked for, in order and complete; requests are counted once; OK is true of writes; a match compares its own register; the cursor stays in the packet and in step; every command is answered | every DAP_Transfer of <= 4 requests over 7 kinds, every block of <= 3 words, every acknowledge at every access, packets of <= 3 requests, and longer ones with exactly one data request, with data words decoding as reads, writes and both; retry limits 0 and 2, match limit 1; SWD |
| `usb` | order, no loss, no leak across a reset, `DapSession` implemented, a request that finds the task unscheduled is executed | 4 requests of 3 shapes (one command, two that share a packet before a third, one that ends its packet), 2 kills, 2 resets |
| `uart` | `ByteChannel` implemented both ways; the RX interrupt is not forgotten; bytes move; supported line codings take effect, others never do | RX queue of 2, every other buffer of 1, 3 bytes in, damaged or not, 2 out, 1 line coding asked for on top of the default, 3 to choose from of which the UART has 2 |
| `swj_wire` | no contention on SWDIO, both sides at the same bit, no register changed unasked; over SWD, with every acknowledge, results true; over JTAG, scans carried exactly, whether or not the target took them | 4 commands, both transports and ports, words of 2 bits, turnaround 1 and 2, idle clocks 0 and 2, data phase on and off, chains of one and two, one disturbed clock after each line reset |
| `swj_pins` | nRESET low only when asked, nothing driven when disconnected, written pins are outputs | 12 commands on five transports, sequences of <= 2 parts (the state space is finite and closes: more commands add no state but the counter) |
| `arm_link` | caches equal registers; memory accesses are exact | 4 operations, 2 faults, spans ragged at both ends, aligned, and of one byte, across a TAR boundary |
| `core_debug` | calls are transparent; breakpoint comparators are never duplicated, watchpoints never half armed; a halt reason is that of the stop or one still held from before it | 5 operations, 1 failing access, 2 comparators of each kind, 2 registers |
| `gdb_target` | all-stop, both cores armed alike, code restored, stops reported, and as what they are | 4 requests, 2 cores, 1 failing operation, 1 comparator for breakpoints, 2 for watchpoints, table of 2 |
| `gdb_flash` | a write answered OK is in flash, with what earlier writes of the same stretch of writing put elsewhere; flash is not read in command mode | 3 requests, 2 sectors of 2 cells, 3 families, 2 failing accesses |
| `rtt` | no byte lost, altered or out of order; bytes arrive | rings of 3 cells, chunks of 2, 2 bytes up, 3 down, 2 monitor commands, 1 reset, 1 failing access |
| `usb_wakeup` | *violation* of `RequestServed`: a spawn that fails strands a request | 3 requests, no kill, no reset |
| `gdb_reattach` | *violation* of `SavedIsOriginal`: a breakpoint left in RAM is saved as the program's code by the next session | as `gdb_target` with 1 comparator for watchpoints, no failing operation |

Why these are enough. In a transfer the bookkeeping that can go wrong links a
request to the one before it (posted value, buffered write) and to the rest of
the packet (skip loop): three requests show each pair between a first and a
last one, four leave one to spare. In `CmsisDapUsb` there are four places a
packet can be in (both endpoints, both buffers): four requests fill them. A
packet size of 4 bytes allows one or two responses a packet, an exact fit and
an overflow. In the bridge each buffer can be empty, partly filled (RX queue)
and full, and three bytes in are one more than the RX queue holds; one coding asked for
in place of the default meets a bridge that has, or has not, applied that one. On the wire no phase's length depends on the number of bits but the data's: two
bits tell first from last, and four commands are a reset, a transfer, one more, and
the reconnect or reset between them. Four operations of `ArmLink` are a connect,
an operation that fails, and two that follow it. Five of `CoreDebug` set,
run, stop, ask and clear. Two cores and one comparator for breakpoints let the
second core refuse what the first accepted; two for watchpoints let a core arm one twice. Two cells a sector tell the part that is written from the
part that an erase must not destroy. A ring of three wraps with two bytes
in it, is full with two and empty with none.

What the passing properties leave out is named in them, and each exclusion
was made for a counterexample:

- *JTAG values* (`dispatcher.rs:345`): a scan returns what was captured before the
  request; a DP read gets another request's value. `transfer` is on SWD.
- *JTAG acknowledges* (`bitbang.rs:653`, `pio/jtag.rs:703`) are dropped: a refused access is reported
  as done. That a result is true is stated of SWD only (`TransferExact`); over JTAG it is that the scan
  carries what it should both ways, and has its effect if the target took it (`ScanExact`).
  `ResultExact` is both.
- *Failed drain* (`:365`): the data word of the request after it stays and is
  decoded as requests; hence the name of `ConsumedExceptAfterDrain` and its
  exception `DrainFailedBeforeData`.
- *Exact fit* (`usb.rs:136`): an empty packet precedes a response of exactly
  the packet size. *Lost flush* (`:139`): a flush that would block loses its
  packet. Of an answer of three packets that is the middle one; the runs and
  the proofs are about answers of two. Of an answer of two it is the first, if a killed
  requester left its response in the endpoint: the next requester then waits for
  ever for responses that are gone, and `AnswerNotLost` has this one exception. *Own answer* (`:156`): the
  response of a killed requester that is already in the endpoint is read by the next.
- *Read errors of the UART* (`bridge.rs:129`): the byte that comes with one is
  dropped; behind an overrun it is one that arrived whole (`Refuse` of `ByteChannel`).
- *JTAG chains* (`bitbang.rs:600`, `pio/jtag.rs:530`): the DR scan pads by the
  wrong number of bits, or on the wrong side; `ScanExact` and
  `OnlyAskedAlone` are about a device alone on its chain. *PIO write over
  JTAG* (`pio/jtag.rs:701`) goes out as a read.
- *Disturbed idle clock* (`bitbang.rs:152`): an idle clock carries no parity. One that is seen high is
  the start bit of a request; if more idle clocks follow, the target counts them with the
  next request and may drive against it (`slipped`). Behind the last idle clock it only is one
  bit ahead, and notices.
- *PIO pins* (`pio/swd.rs:334`, `:541`): disconnecting leaves SWCLK and nRESET driven, and a pin
  that is not selected is driven low.
- *Caches* (`lib.rs:274`, `:400`, `:416`): a damaged SELECT write that is acknowledged, a failed switch
  of debug ports, and a CTRL-AP sequence that returns on an error (`stale`).
- *Calls that time out* (`lib.rs:965`) do not restore the registers; `CallTransparent` is
  about calls that return Ok.
- *Sticky halt reasons* (`lib.rs:1218`): DFSR and MATCHED keep the reason of a stop until
  `halt_reason` reads it, which nothing does after a step, and report it later; `ReasonHeld` admits
  what they held when the core was last started (`left`), and nothing older.
- *Z0 and Z1 at one address* (`gdb_server.rs:1659`) share a comparator; addresses of a failed
  request are open until the host settles them (`tainted`), and so are cores whose
  operation failed (`lost`).
- *Command mode* (`:605`, `:613`) outlives a failed `flash_finish` and a session that
  ends within it (`stranded`); a page programmed twice holds the AND (`loose`).
- *Reset within a step of RTT* (`:1208`): the fresh ring gets the offset of the old (`raced`).

The two violation runs are disagreements between what the code does and what
its comments or documents say; `PROJECT.json` quotes both sides.

### Fairness

- `DapTransfer`: weak fairness of the dispatcher's steps. `execute` is a
  function call; once entered it runs to its return. No fairness is put on what
  the target answers: it may say WAIT for ever.
- `CmsisDapUsb`: weak fairness of the interrupt *while an event of this device
  asks for it* (an interrupt for the serial port alone is never owed, and so
  cannot be counted on to rescue a stranded request), of the task while it is
  spawned, and of a waiting host's read.
- `UartBridge`: weak fairness of each interrupt, of `idle` (nothing else runs
  for ever), of the transmitter, and of a host that reads its serial port.
  The host need not write, and the line need not deliver.
- `GdbTarget`: weak fairness of the server: `idle` is a loop that never waits.
  Cores need not stop, nor the host send.
- `RttBridge`: weak fairness of the server, whose session loop polls the rings
  on its quiet turns, and of a host that reads its port.

The other specifications have no fairness, and their properties are safety.
Runs of specifications with bounded operations check no deadlock: they stop when the bound is reached.

## Proofs

Each module `XProofs` proves its theorems about module `X` (`GdbServerProofs` about
`GdbTarget` and `GdbFlash`) from the named
assumptions of `X` alone, unless a hypothesis is named below. All constants are
arbitrary: packets and requests of every length, buffers, rings, tables and
comparator sets of every size, any number of operations, resets, kills and
failing accesses. Every theorem has the form `Spec => []P`, or `Spec => P` for an action
property or a refinement. None of the invariants the runs check is inductive; what follows
is, for each component, the invariant that is and the reason for it. There is
one lemma per action, one case per disjunct, and a last step that combines
them with PTL. A leaf that takes a prover more than a second names it with a longer
limit (`SMTT(30)`, `ZenonT(30)`), so that the proofs do not depend on the speed of the machine.

### DapTransferProofs

The invariants build on each other.

- `TypeInv` is `TypeOK` with `Counters`: at each `pc`, how `request_count`, the
  position in the packet and `response_count` go together. `left - 1`, the tag
  of an access and `count + 1` stay in range only because of it (`TypeCorrect`).
- `LengthInv` adds `Aligned` (until the first error the cursor is at the end of
  the request it should be at, so what is decoded is what the host laid out)
  and `Lengths` (the number of values written is the rank of the last request
  executed, or one less exactly while a read is posted). It gives `Completes`,
  and with `Latched` (while a value is posted, RDBUFF holds it) `ResponseOrder`.
- `Confirmed`: while the target buffers a write, `write_issued` is set, up to the
  skip loop of a failed transfer; and where a new request begins with a read
  posted, nothing is buffered (`Confirms`).
- `MatchPosted`: while a match compares, RDBUFF holds a value of its own register
  (`MatchesOwn`).
- `Placed`: inside the skip loop the cursor is either at the end of request *m*
  with at most as many requests left to skip as there are behind *m*, or inside
  the data of *m* at an offset that the number of requests left makes up for.
  However the data words decode, the loop ends before the packet does
  (`ReadsInside`, `Consumes`).
- `Counted`: a request behind the counter has not been made, and one before it
  has been accepted once; `Tally` says what is true of the request at the counter at each
  `pc` (`CountsOnce`).

`ResponseOrder` and `MatchesOwn` have the hypothesis `"Jtag" \notin Ports`: on JTAG a
DP read of the second request returns the value of the first.

### CmsisDapUsbProofs

- `OrderInv`: responses pass through four places (`acc`, `nextIn`, `inEp`,
  `log`). `Pipe` says that each of the four is in order and comes before those
  behind it; `IdsOrdered` that what is still asked is younger than all of them.
  Packets are lost on the way, never overtaken (`ResponsesInOrder`).
- `SessionInv`: nothing in the probe is older than the session, unless the reset
  that began it is still to be handled (`ResetClean`).
- `KeptInv`: until a requester is killed, and while the bus is up, the one
  request under way is in one of four stages (`Stage`): nowhere; `Asked` and not
  begun; `Working` with its first *a* responses sent and *k* produced; `Answered`,
  in the endpoint, behind it, or both. In each of them the places hold exactly
  the part of the answer that is missing, so each packet read is a step of
  `Answer` in `DapSession` (`ProbeKeepsSession`: `SessionInit` is implied, and each step is a
  step of `DapSession` or hidden from the host).
- `EndInv`: with kills too, the end of the answer is in one place: its request, the
  packet under construction, `nextIn`, `inEp` or the log. With `KeptInv` it gives
  `AnswerKept`.

`ProbeKeepsSession` and `AnswerKept` assume that the requests have a longest one
(true of every finite set) and that the responses to each take at most two packets
(`FitsTwoPackets`): the code loses a third. `TwoPacketsAssumption` has TLC evaluate that
hypothesis for the requests of the run. Nothing bounds kills, resets or
interleavings.

### UartBridgeProofs

`StoppedRx` needs only the types beside the property itself (`RxType`): while the
RX interrupt is off, either the queue is full, so that the next dequeue
sets `dequeued`, or a drainer has dequeued and not yet enabled it.
`BridgeIsChannels` is the step simulation of `ByteChannel` for each direction: what is in
flight is the concatenation of the queues, and each step of the bridge is a
`Put`, `Get`, `Overrun`, `Refuse` or `Recode` of the channel or leaves the concatenation alone.

### SwjProofs

The wire. The four theorems hold for both ports, words of any even width, any registers,
words, turnarounds up to 4 and idle clocks, chains, either transport, data phase on and off, any number
of commands, and on SWD one disturbed clock after each line reset (`MaxNoise <= 1`; with two, TLC finds
`NoContention` violated: the second can make a damaged request look whole). A line reset has more ones
than any data phase (`ResetAssumption`: 50 against 32 + 8 + 4), or a word of ones would be one.

On SWD the two sides share nothing but the level of the line, so `WireInv` is what relates them:

- *Where both are.* Each phase has a number *k* of clocks done. The probe's `todo` is the phase's list
  from clock *k* on (`AskAhead`, `ReadAhead`, `WriteAhead`, `LineAhead`, stated element by
  element); the target's `plan` is its answer from clock *m* on (`Obeys`), and *m* is *k* plus a
  constant of the phase. `Requesting`, `Reading`, `Writing`, `Refused` and `Unheard` each say so for
  their own list. That is what `NoContention` follows from.
- *What was heard.* `Like`: the bits one side has taken are those the other sent, but for at most one, and
  that one only if the disturbance of this line reset is used up. A request with one wrong bit is
  not accepted (`NotWell`), an acknowledge with one is none (`AckBits`), a word with one has the wrong
  parity (`ParityOff`). The wrong start bit is a case of its own: the target is then one bit early (`Early`) or
  misses the beginning (`Late`), and what it makes of the rest is no request (`Lost`).
- *Who has given up.* `Untuned`: a target that drives nothing, and takes nothing for a request while
  it hears ones only. It is how the target may be left when the host is told (`Unheard`).
- *How many ones* the target has counted (`ones`), clock by clock, so that no data phase is a line reset.

`WireSafe` says all this until an idle clock has `slipped`, on SWD. The lists are joined from blocks by lemmas on
concatenation (`AskShape`, `ReadShape`, `WriteShape`, `LineShape`, `PlanShape`), one lemma moves each
by a clock (`AskStep`, ...), and one per phase (`ReadingClock`, ...) shows that a clock keeps it.

Over JTAG it is `ChainInv`, in which the targets are at one of four places: `Parked` at rest, `Forced`
to Test-Logic-Reset by DAP_Connect, `Homing` on the way to Run-Test/Idle, or `Scanning`. A
transfer is an instruction scan of *n* bits and a data scan of *m*, and *k* clocks of it are done:

- `ScanAhead` says which clocks of the rest have TMS high, and `Walk` in which state *n*, *m* and *k*
  put the TAPs. This needs nothing of a chain but that a scan is not empty, and gives `WireInStep` for
  chains of every length, with the wrong padding of the data scan too: it changes *m*, not
  the way home.
- `Carried` follows the bits of the only device of a chain. While the instruction is shifted in, its last
  bits are the first ones of the instruction (`Selected`); in the data scan the register is
  the rest of what was captured in front of the request's bits that are in, and what the probe
  has seen is what went out (`Exchanged`); behind it, the read or the write has been served if the
  device took it (`Served`).

How many bits a scan has is a sum over devices, in the model the number of pairs of a device and a bit of
it (`Total`). So the lengths follow from facts about finite sets, and no induction over the chain
is needed. Of a chain of several devices the data is not followed: its data scan is wrong in the code
(see the hazards), so `ScanExact` and `OnlyAskedAlone` are not about it.

The pins. `PinsInv`: the properties need to know that a transport of one protocol never has the
other port connected (`OwnPort`), that a pin command alone waits while nothing
is connected (`WaitIsLoose`), and `WritesReach` while a pin command waits (`Reach`).

### ArmLinkProofs

`CacheInv` has three parts. `Kinds`: what the steps of a list are about.
`Planned`: a list that writes SELECT or CSW, switches debug ports or resets
forgets or sets the cache in the steps that follow. `Agreed`: from the moment
nothing is left to be forgotten, a cache that is not `Unknown` equals the
register of the debug port the line is on. The exceptions are those of
`stale`. The lists are built by concatenation; the lemmas `ListOf`, `ListJoin`, ... say
what a concatenation keeps of its parts, which is all that is needed of the recursion.

`MemInv` adds what `MemoryMoved` needs, for memory, words, chunks, TAR runs and spans of every
size (`SizesAssumption`, `SpansAssumption`):

- `Settled` and `ReadsCtrl`: the nRF sequences come back from the CTRL-AP, on an error too
  where the code does so, so a memory access with `stale` empty is on the MEM-AP.
- `Progress`: the first `pos` bytes of a read are in the buffer, those of a write are in
  memory, and no byte outside the span has changed.
- `Working`, while a chunk is under way, says the same word by word. The list of transfers
  is the rest of the chunk's (`IsChunk`: at each distance from its end it has the transfer that belongs
  there). `Placed`: TAR is at the word the transfer next in line is for. `Fetched`: word *q*
  of the chunk is the *q*-th value read, and the one posted is in RDBUFF. `Stored`: every DRW
  write ahead carries the word the chunk should leave, and those done are in memory.

The runs check this on spans that are ragged at both ends; the theorem says that the division
into head, words and tail fits for each alignment and each limit.

### CoreDebugProofs

- `TypeInv`: with the types of the steps ahead and of what a scan looks for.
- `Fpb`: no two comparators hold the same address, and the one about to be
  written is written with an address that none holds.
- `Dwt`: COMP and MASK are written of a comparator that is off, with FUNCTION
  right behind them, which is what makes a watchpoint armed whole or not at all
  (`WatchesWhole`); what DFSR and the MATCHED bits hold is of this stop or was held when the
  core was last started (`Remembered`).
- `Replying`: where each breakpoint operation stands in its steps, so that what
  the reply ahead will say is already so (`RepliesTrue`). Watchpoints are not in it:
  `watchpoint_set` arms one more comparator for a watchpoint that is set already (`lib.rs:1158`)
  and `watchpoint_clear` turns off one of them.
- `Called`: the number of steps left tells which registers are saved, which
  hold an argument and which are back (`CallsTransparent`).
- `Reasoning`: the halt reason takes one step at a time, read DFSR, clear it,
  look for a match, and what it has read is `Remembered` still, as the core
  does not start in between (`ReasonsAreHeld`).

`SetsAssumption` keeps watched addresses and stop causes apart.

### GdbServerProofs

The target. For targets of one and of two cores (`NumCores \in 1 .. 2`), and addresses outside of RAM
and ROM where a core may be (`Elsewhere`). `TargetInv` is `TypeInv` (with the
server's place in its loop), `RunInv` (which cores may run and who knows of it:
`StoppedAtIdle`), `Books`, and `StopInv` (a core that stopped stands where something
stopped it: `KindTold`). `Books` relates the comparators (`ArmInv`), what the host holds
(`HeldInv`) and the table with the patched code (`TableInv`) *with the operation in
progress*: between the cores an address is armed on the first and not on the second
(`Half`), and the table and memory are changed in separate steps. `Single` says that a watchpoint
takes a second comparator only once a failure has left it open, so that a clear disarms it
(`ArmedTogether`, `TableIsHosts`).

Flash. `FlashInv` holds for any number of sectors, requests and failing accesses, under the
assumptions of the module only (the families are those three, data of the host are told from
`old` and `own`):

- `Course`: where the routine is. The list ahead is one of a few dozen named lists, each with
  what is true there: entering command mode, erasing a sector, programming a cell, leaving the
  mode, outside of it, or between two turns of a loop.
- `Modes`: the server thinks that flash is in command mode only while it is, up to the step
  that records that it was left; and while it is, the server knows, is about to record it, or
  the target is `stranded`. With `Course` it gives `ReadsOutsideCommandMode`.
- `Account`: in a stretch of writing, a cell of an erased sector holds at most what was
  programmed into it since, and what the host programmed lies in erased sectors. An erase comes
  to sectors outside of `erased` only, so it never destroys a write of the same stretch.
- `Progress`: during a write, each cell of the span is erased or still to be reached by the first
  loop, and holds the datum behind the second; each cell outside is as `WrittenIsFlash` says.
  Where no loop is left, this is `WritesLand`.

`WrittenIsFlash` is not inductive: that a cell holds its datum alone depends on its sector having been
erased, which may have happened in an earlier write, in part of an earlier failed one, or
before the target's own program wrote.

### RttBridgeProofs

`UpInv`: the cells of the ring that are in use hold the newest bytes
(`Newest`, `UpWindow`, in terms of `Low`, the last byte that is neither in the ring nor read off
it); what the server has read off and not acknowledged is at most what is in use; and
port, console and ring are increasing and disjoint (`UpOrder`). `DownInv`: the
bytes in hand are written to cells that are free (`DownWindow`), and `got`, the unread cells, the
bytes in hand and the queue are one increasing stream (`DownOrder`). Both hold until a reset
falls into a step of the server (`raced`). `Size` is arbitrary; the remainders of
the ring arithmetic are eliminated by one lemma (`Remainder`).

### Only model-checked

- All liveness, and what depends on ENABLED: out of the prover's reach.
- More than one disturbed clock after a line reset, and a `slipped` idle clock, are outside of the
  properties of `SwjWire`, not merely unproved.

An induction by hand is possible for a fact about natural numbers (`LeastNat`, from
`WFMin`: there is no least counterexample); it has been used where the statement is short.

## Not modelled

- USB descriptors and string tables, the fields of a line coding, linker
  scripts, demos and start-up code: constant data and straight-line code.
- DAP_Info, HostStatus, SWJ_Clock, SWD_Configure, JTAG_Configure and
  JTAG_IDCODE: they store a setting or return a constant; the settings are
  constants of `SwjWire`.
- The loading of PIO programs, their FIFOs and clock dividers: time and
  register-level code. `SwjWire` has the clocks they make. A sequence sent before
  `DAP_Connect` waits for ever once the FIFO is full (`pio/swd.rs:398`): `SwjPins` clocks connected ports only.
- `QueueConn` (its drop after a million spins is a matter of time), monitor
  commands other than reset and rtt, and the read-only scans `rtt_scan` and `rom_func_lookup`.
- The Xiao M0 firmware runs the same `process` as a task; its serial port is an
  echo.
- What happens to the words of a failed block write that are taken for
  commands, and what the USB stack does below the endpoint buffers.

## Plan

Every invariant that a passing run checks, the action property `NothingLeaksAcrossReset` and both
refinements (`SessionKept`, `ChannelsKept`) are theorems. Liveness and what uses ENABLED stay with
TLC. Open are the hazards without a property, foremost the data scan of a JTAG chain of
several devices: once the code pads it by bypass bits, `Carried` extends to each device of the chain, and with
it `ScanExact` and `OnlyAskedAlone`.
