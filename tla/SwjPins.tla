------------------------------ MODULE SwjPins ------------------------------
(***************************************************************************)
(* Which pins the probe drives, and nRESET, command by command:            *)
(* DAP_Connect, DAP_Disconnect, DAP_SWJ_Pins and the commands that clock   *)
(* bits out, on the bit-banged transports of rust-dap/src/bitbang.rs (SWD, *)
(* JTAG, and SWJ, which switches between the two on shared pins) and the   *)
(* PIO transports of rust-dap-rp/src/pio.                                  *)
(*                                                                         *)
(* The bit-banged SWD code keeps a note of the direction of SWCLK, SWDIO   *)
(* and nRESET and acts on it; the JTAG code moves the same pins and keeps  *)
(* none. The level of a pin other than nRESET is left out.                 *)
(***************************************************************************)
EXTENDS Naturals, Sequences

CONSTANTS
  Transports,  \* transports: a subset of BitBang \cup Pio
  MaxParts,    \* bound: parts of a DAP_SWD_Sequence
  MaxCommands  \* bound: commands

BitBang == {"swd", "jtag", "swj"}
Pio == {"pio_swd", "pio_jtag"}

ASSUME PinsAssumption == Transports \subseteq BitBang \cup Pio /\ {MaxParts, MaxCommands} \subseteq Nat

VARIABLES
  link,
  active,  \* the connected port: "Swd", "Jtag" or "none"
  driven,  \* the pins that are outputs
  nreset,  \* the level of nRESET, 1 where it is not driven
  noted,   \* bit-bang: the pins noted as outputs (clk_dir, dio_dir, reset_dir)
  waiting, \* DAP_SWJ_Pins has driven the pins and waits
  held,    \* history: the host has asked for nRESET low
  loose,   \* history: a pin command came while no port was connected
  cut,     \* history: a DAP_SWD_Sequence broke off after an input part
  commands

pinVars == <<link, active, driven, nreset, noted, waiting, held, loose, cut, commands>>

SwdPins == {"clk", "dio", "reset"}
Pins == SwdPins \cup {"tdi", "ntrst"}
Protocols == {"Swd", "Jtag"}

Drive(pins, level) ==
  /\ driven' = pins
  /\ nreset' = IF "reset" \in pins THEN level ELSE 1

PinsInit ==
  /\ link \in Transports /\ active = "none" /\ driven = {} /\ nreset = 1 /\ noted = {}
  /\ waiting = FALSE /\ held = FALSE /\ loose = FALSE /\ cut = FALSE /\ commands = 0

OneCommand == ~waiting /\ commands < MaxCommands /\ commands' = commands + 1 /\ UNCHANGED link
-----------------------------------------------------------------------------
(* Mutant: only the pins of SWD are released.                              *)
ReleasedSwdOnly == IF active = "none" THEN driven ELSE driven \ SwdPins

(* What a transport still drives, and notes, when it has disconnected.     *)
SwjReleased == IF active = "none" THEN driven \ {"tdi", "ntrst"} ELSE {}
SwjNoted == IF active = "Swd" THEN {} ELSE noted

(* The program that should release all pins is mapped to SWDIO alone.      *)
PioSwdReleased == driven \ {"dio"}

LeftDriven ==
  CASE link = "swj" -> SwjReleased
    [] link = "pio_swd" -> PioSwdReleased
    [] OTHER -> {}

Disconnect ==
  /\ OneCommand /\ active' = "none"
  /\ Drive(LeftDriven, nreset)
  /\ noted' = IF link = "swj" THEN SwjNoted ELSE {}
  /\ loose' = (loose /\ LeftDriven # {}) /\ held' = (held /\ "reset" \in LeftDriven)
  /\ cut' = FALSE /\ UNCHANGED waiting

SwdConnect == Drive(driven \cup SwdPins, 1) /\ noted' = SwdPins /\ held' = FALSE
JtagConnect == Drive(Pins, 1) /\ UNCHANGED noted /\ held' = FALSE

(* A port in use is disconnected first.                                    *)
SwjConnect(port) ==
  LET left == IF active = "none" THEN driven ELSE SwjReleased
      kept == IF active = "none" THEN noted ELSE SwjNoted
  IN  /\ Drive(left \cup (IF port = "Swd" THEN SwdPins ELSE Pins), 1)
      /\ noted' = IF port = "Swd" THEN SwdPins ELSE kept
      /\ held' = FALSE

PioSwdConnect == Drive(driven \cup {"clk", "dio"}, nreset) /\ UNCHANGED <<noted, held>>
PioJtagConnect == Drive(Pins, 1) /\ UNCHANGED noted /\ held' = FALSE

(* A transport of one port answers 0 for the other and keeps what it had.  *)
PinsConnect ==
  /\ OneCommand
  /\ \E port \in Protocols :
       \/ /\ active' = port
          /\ \/ link = "swj" /\ SwjConnect(port)
             \/ link = "swd" /\ port = "Swd" /\ SwdConnect
             \/ link = "jtag" /\ port = "Jtag" /\ JtagConnect
             \/ link = "pio_swd" /\ port = "Swd" /\ PioSwdConnect
             \/ link = "pio_jtag" /\ port = "Jtag" /\ PioJtagConnect
          /\ cut' = FALSE
       \/ /\ link \in (IF port = "Swd" THEN {"jtag", "pio_jtag"} ELSE {"swd", "pio_swd"})
          /\ UNCHANGED <<active, driven, nreset, noted, held, cut>>
  /\ UNCHANGED <<loose, waiting>>
-----------------------------------------------------------------------------
(* Mutant: nRESET follows the command whether it is selected or not.       *)
SwdPinsUnasked(select, high) ==
  IF "reset" \in noted THEN Drive(driven, high) /\ UNCHANGED noted
  ELSE Drive(driven \cup {"reset"}, high) /\ noted' = noted \cup {"reset"}

(* SwdBits: nRESET is made an output where it is noted as an input. A      *)
(* write leaves a pin that is an input as it is.                           *)
SetSwdPins(select, high) ==
  IF ~select THEN UNCHANGED <<driven, nreset, noted>>
  ELSE IF "reset" \in noted THEN Drive(driven, high) /\ UNCHANGED noted
  ELSE Drive(driven \cup {"reset"}, high) /\ noted' = noted \cup {"reset"}

SetJtagPins(select, high) ==
  Drive(driven, IF select THEN high ELSE nreset) /\ UNCHANGED noted

(* The PIO sets every pin at once: one that is not selected goes low.      *)
SetPioSwdPins(select, high) ==
  Drive({"clk", "reset"}, IF select THEN high ELSE 0) /\ UNCHANGED noted
SetPioJtagPins(select, high) ==
  Drive(Pins, IF select THEN high ELSE 0) /\ UNCHANGED noted

BySwdCode == link = "swd" \/ (link = "swj" /\ active # "Jtag")

(* DAP_SWJ_Pins, until the wait: whether nRESET is selected, and its level.*)
SwjPinsCommand ==
  /\ OneCommand /\ waiting' = TRUE
  /\ \E select \in BOOLEAN, high \in {0, 1} :
       /\ \/ BySwdCode /\ SetSwdPins(select, high)
          \/ link \in BitBang /\ ~BySwdCode /\ SetJtagPins(select, high)
          \/ link = "pio_swd" /\ SetPioSwdPins(select, high)
          \/ link = "pio_jtag" /\ SetPioJtagPins(select, high)
       /\ held' = IF select THEN high = 0 ELSE held
  /\ loose' = (loose \/ active = "none") /\ UNCHANGED <<active, cut>>

(* Mutant: the pins stay inputs after they were read.                      *)
NotRestored == driven \ noted

(* The noted outputs are read as inputs and then driven again.             *)
Restored == driven \cup noted

Sampled ==
  /\ waiting /\ waiting' = FALSE
  /\ IF BySwdCode THEN Drive(Restored, IF "reset" \in noted THEN 1 ELSE nreset)
     ELSE UNCHANGED <<driven, nreset>>
  /\ UNCHANGED <<link, active, noted, held, loose, cut, commands>>
-----------------------------------------------------------------------------
DioOut == driven' = driven \cup {"dio"} /\ noted' = noted \cup {"dio"}
DioIn == driven' = driven \ {"dio"} /\ noted' = noted \ {"dio"}

PartLists == UNION {[1 .. n -> {"in", "out"}] : n \in 0 .. MaxParts}

(* The bit-banged code moves SWDIO for every part, and makes it an output  *)
(* at the end unless the request ends before its last part.                *)
Direction(parts, whole) ==
  IF parts = <<>> THEN UNCHANGED <<driven, noted, cut>>
  ELSE LET out == whole \/ parts[Len(parts)] = "out"
       IN  cut' = ~out /\ IF out THEN DioOut ELSE DioIn

(* The PIO moves it with the clocks of the part.                           *)
PioDirection(parts) ==
  /\ UNCHANGED <<noted, cut>>
  /\ driven' = IF parts = <<>> THEN driven
               ELSE IF parts[Len(parts)] = "in" THEN driven \ {"dio"} ELSE driven \cup {"dio"}

PinsSwdSequence ==
  /\ OneCommand
  /\ \E parts \in PartLists, whole \in BOOLEAN :
       \/ link \in {"swd", "swj"} /\ Direction(parts, whole)
       \/ link = "pio_swd" /\ active = "Swd" /\ PioDirection(parts)
  /\ loose' = (loose \/ active = "none") /\ UNCHANGED <<active, nreset, waiting, held>>

(* A transfer over SWD ends with SWDIO an output; the PIO leaves it where  *)
(* its last clocks put it.                                                 *)
SwdTransfer ==
  /\ OneCommand /\ active = "Swd"
  /\ IF link \in BitBang THEN DioOut
     ELSE driven' \in {driven \cup {"dio"}, driven \ {"dio"}} /\ UNCHANGED noted
  /\ cut' = FALSE /\ UNCHANGED <<active, nreset, waiting, held, loose>>

(* DAP_SWJ_Sequence, DAP_JTAG_Sequence and transfers over JTAG write the   *)
(* pins as they are; the PIO makes SWDIO an output first. (Before          *)
(* DAP_Connect the PIO has no program that clocks bits: that is left out.) *)
Clocked ==
  /\ OneCommand /\ active # "none"
  /\ driven' = IF link = "pio_swd" THEN driven \cup {"dio"} ELSE driven
  /\ UNCHANGED <<active, nreset, noted, waiting, held, loose, cut>>

PinsNext ==
  \/ PinsConnect \/ Disconnect \/ SwjPinsCommand \/ Sampled
  \/ PinsSwdSequence \/ SwdTransfer \/ Clocked

PinsSpec == PinsInit /\ [][PinsNext]_pinVars
-----------------------------------------------------------------------------
TypeOK ==
  /\ link \in Transports /\ active \in Protocols \cup {"none"}
  /\ driven \subseteq Pins /\ noted \subseteq SwdPins /\ nreset \in {0, 1}
  /\ {waiting, held, loose, cut} \subseteq BOOLEAN /\ commands \in 0 .. MaxCommands

(* A bit-banged probe holds the target in reset only after the host has    *)
(* selected nRESET and asked for low, whatever is connected, switched or   *)
(* restored in between: reading the pins does not reset the target. (The   *)
(* PIO transports do: they drive a pin that is not selected low.)          *)
ResetOnlyAsked == link \in BitBang /\ nreset = 0 => held

(* With no port connected nothing is driven, after any switching between   *)
(* the protocols, as long as no pin command came while none was connected. *)
(* The SWD transport of the PIO is excepted: it leaves SWCLK and nRESET    *)
(* driven when it disconnects.                                             *)
ReleasedUnlessLoose ==
  active = "none" /\ ~loose /\ link # "pio_swd" => driven = {}

(* The pins that the commands of the connected port write are outputs, so  *)
(* that what the host sends reaches the target, except SWDIO/TMS after a   *)
(* DAP_SWD_Sequence that broke off in an input part.                       *)
WritesReach ==
  active # "none" /\ ~waiting =>
    /\ "clk" \in driven
    /\ active = "Jtag" => "tdi" \in driven
    /\ link # "pio_swd" /\ ~cut => "dio" \in driven
=============================================================================
