------------------------------ MODULE GdbFlash ------------------------------
(***************************************************************************)
(* Flash programming by boards/rpi_pico/src/bin/gdb_server.rs: what a GDB  *)
(* memory write into the flash window does on an RP2040 (through routines  *)
(* of its bootrom, with the flash in command mode), on an nRF52 (NVMC) and *)
(* on an nRF54 (RRAM). The server keeps, between writes, whether the flash *)
(* is in command mode and which sectors it has erased. Any access may      *)
(* fail, done or not, a session may end between two requests, and the      *)
(* target may program its flash itself while it runs.                      *)
(*                                                                         *)
(* A cell is the part of a sector that one programming call covers, two of *)
(* them to a sector. NOR flash holds the AND of what was programmed since  *)
(* it was erased: a cell is the set of those data, {} reads 0xFF.          *)
(***************************************************************************)
EXTENDS Naturals, Sequences

CONSTANTS
  Families,    \* the targets: "rp2040", "nrf52", "nrf54"
  NumSectors,  \* flash sectors or pages
  Data,        \* what the host writes
  MaxRequests, \* bound: requests of the host
  MaxFailures  \* bound: accesses that fail

ASSUME FlashFamilies == Families \subseteq {"rp2040", "nrf52", "nrf54"}
ASSUME FlashBounds == NumSectors \in Nat \ {0} /\ MaxRequests \in Nat /\ MaxFailures \in Nat

Cells == 0 .. 2 * NumSectors - 1

Sector(c) == c \div 2
Sectors == 0 .. NumSectors - 1
Old == "old"
Own == "own"  \* what the target's program writes
ASSUME FlashData == {Old, Own} \cap Data = {}

VARIABLES
  family,
  flash, mode, config,  \* target: cells, "xip" or "command", NVMC or RRAMC CONFIG
  flash_mode, erased,   \* server: Rp2040Family, Nrf52Family
  op, res,              \* the request, "busy", "ok" or "err"
  todo,                 \* the steps ahead of the routine that runs
  loop, next,           \* flash_write: the loop it is in, and the sector or cell that is next
  flash0, loose,        \* history: flash at the request, cells that held other data since erased
  programmed,           \* history: data sent to a cell in this stretch of writing
  stranded,             \* history: command mode outlived what the server knows of it
  requests, failures

chip == <<flash, mode, config>>
known == <<flash_mode, erased>>
place == <<loop, next>>
past == <<flash0, loose, programmed, stranded>>
flashVars == <<family, chip, known, op, res, todo, place, past, requests, failures>>

None == [kind |-> "none", span |-> <<0, 0>>, data |-> Old]
Blank == [c \in Cells |-> {}]

FlashInit ==
  /\ family \in Families /\ flash = [c \in Cells |-> {Old}] /\ mode = "xip" /\ config = "REN"
  /\ flash_mode = FALSE /\ erased = {} /\ op = None /\ todo = <<>> /\ res = "ok"
  /\ loop = "none" /\ next = 0
  /\ flash0 = flash /\ loose = {} /\ programmed = Blank /\ stranded = FALSE
  /\ requests = 0 /\ failures = 0
-----------------------------------------------------------------------------
(* The steps of a request: "do" an access that ends the request when it    *)
(* fails, "try" one that may fail, "skip" x steps when it fails, "set" the *)
(* fields of the server.                                                   *)
One(how, what, x) == [how |-> how, what |-> what, x |-> x]
Do(what, x) == One("do", what, x)

Enter ==
  IF flash_mode THEN <<>>
  ELSE <<Do("select", 0), Do("lookup", 0), Do("connect_flash", 0), Do("exit_xip", 0),
         One("set", "fresh", 0), One("set", "entered", 0)>>

(* Mutant: command mode is left only once the cache has been flushed.      *)
FinishFlushed ==
  IF ~flash_mode THEN <<>>
  ELSE <<One("skip", "select", 2), One("skip", "flush", 1), One("try", "enter_xip", 0),
         One("set", "left", 0)>>

Finish ==
  IF ~flash_mode THEN <<>>
  ELSE <<One("skip", "select", 2), One("try", "flush", 0), One("try", "enter_xip", 0),
         One("set", "left", 0)>>

(* Mutant: a sector counts as erased before it is.                         *)
EraseSectorEarly(s) ==
  IF family = "rp2040" THEN <<One("set", "erased", s), Do("erase", s)>>
  ELSE <<One("set", "erased", s), Do("config", "EEN"), Do("wait", 0), Do("erase", s), Do("wait", 0),
         Do("config", "REN")>>

EraseSector(s) ==
  IF family = "rp2040" THEN <<Do("erase", s), One("set", "erased", s)>>
  ELSE <<Do("config", "EEN"), Do("wait", 0), Do("erase", s), Do("wait", 0), Do("config", "REN"),
         One("set", "erased", s)>>

Program(c) ==
  CASE family = "rp2040" -> <<Do("stage", c), Do("program", c)>>
    [] family = "nrf52" -> <<Do("config", "WEN"), Do("wait", 0), Do("program", c), Do("wait", 0),
                             Do("config", "REN")>>
    [] OTHER -> <<Do("edge", c), Do("config", "WEN"), Do("program", c), Do("commit", 0), Do("wait", 0),
                  Do("config", "REN")>>

(* Before flash_write comes to the sectors, and what other requests do.    *)
Begin(o) ==
  CASE o.kind = "write" -> IF family = "rp2040" THEN <<Do("select", 0)>> \o Enter ELSE <<>>
    [] o.kind = "read" -> Finish \o <<Do("read", 0)>>
    [] o.kind = "resume" -> Finish \o <<Do("run", 0)>>
    [] o.kind = "reset" -> Finish \o <<Do("select", 0), Do("demcr", 0), One("try", "sysreset", 0),
                                       One("set", "forget", 0), Do("reconnect", 0)>>
    [] OTHER -> <<One("set", "forget", 0), Do("reconnect", 0)>>

Spans == {p \in Cells \X Cells : p[1] <= p[2]}
InSpan(c) == op.span[1] <= c /\ c <= op.span[2]
Asked == [kind : {"write"}, span : Spans, data : Data]
           \cup [kind : {"read", "resume", "reset", "end"}, span : {<<0, 0>>}, data : {Old}]

Loop(l, n) == loop' = l /\ next' = n

Ask(o) ==
  /\ res # "busy" /\ requests < MaxRequests /\ requests' = requests + 1
  /\ op' = o /\ todo' = Begin(o) /\ res' = "busy"
  /\ IF o.kind # "write" THEN Loop("none", 0)
     ELSE IF family = "nrf54" THEN Loop("program", o.span[1])
     ELSE Loop("erase", Sector(o.span[1]))
  /\ flash0' = flash /\ loose' = {c \in Cells : ~(programmed[c] \subseteq {o.data})}
  /\ UNCHANGED <<family, chip, known, programmed, stranded, failures>>

(* The next sector of the span, which is erased unless it has been, or the *)
(* next cell.                                                              *)
NextSector ==
  /\ loop = "erase"
  /\ IF next > Sector(op.span[2]) THEN Loop("program", op.span[1]) /\ UNCHANGED todo
     ELSE Loop("erase", next + 1) /\ todo' = IF next \in erased THEN <<>> ELSE EraseSector(next)

NextCell ==
  /\ loop = "program"
  /\ IF next > op.span[2] THEN Loop("none", 0) /\ UNCHANGED todo
     ELSE Loop("program", next + 1) /\ todo' = Program(next)

Iterate ==
  /\ todo = <<>> /\ res = "busy" /\ (NextSector \/ NextCell)
  /\ UNCHANGED <<family, chip, known, op, res, past, requests, failures>>
-----------------------------------------------------------------------------
(* What the target does on an access. The bootrom erases and programs in   *)
(* command mode only, the NVMC as CONFIG allows.                           *)
Erasable == IF family = "rp2040" THEN mode = "command" ELSE config = "EEN"
Programmable == IF family = "rp2040" THEN mode = "command" ELSE config = "WEN"

Wipe(C) == [c \in Cells |-> IF c \in C /\ Erasable THEN {} ELSE flash[c]]
Burn(c, d) == [flash EXCEPT ![c] = IF ~Programmable THEN @ ELSE IF family = "nrf54" THEN {d} ELSE @ \cup {d}]

Effect(s) ==
  /\ mode' = CASE s.what = "exit_xip" -> "command"
               [] s.what \in {"enter_xip", "sysreset"} -> "xip"
               [] OTHER -> mode
  /\ config' = CASE s.what = "config" -> s.x [] s.what = "sysreset" -> "REN" [] OTHER -> config
  /\ flash' = CASE s.what = "erase" -> Wipe({c \in Cells : Sector(c) = s.x})
                [] s.what = "program" -> Burn(s.x, op.data)
                [] OTHER -> flash

(* An erase that is cut short has erased some of the sector.               *)
Partly(s) == s.what = "erase" /\ \E C \in SUBSET {c \in Cells : Sector(c) = s.x} : flash' = Wipe(C)
             /\ UNCHANGED <<mode, config>>

(* A running program may write to its flash.                               *)
RunsAndWrites(s) == s.what = "run" /\ \E c \in Cells : flash' = [flash EXCEPT ![c] = @ \cup {Own}]
                    /\ UNCHANGED <<mode, config>>

Sent(s, d) == IF family = "nrf54" THEN programmed
              ELSE [programmed EXCEPT ![s.x] = @ \cup {d}]

Step == Head(todo)
Access == todo # <<>> /\ Step.how # "set" /\ UNCHANGED <<family, op, known, flash0, loose, requests>>

Succeeds ==
  /\ Access /\ Effect(Step) /\ todo' = Tail(todo) /\ UNCHANGED <<res, place, failures>>
  /\ programmed' = IF Step.what = "program" THEN Sent(Step, op.data) ELSE programmed
  /\ stranded' = (stranded /\ mode' = "command")

OwnWrite ==
  /\ Access /\ RunsAndWrites(Step) /\ todo' = Tail(todo) /\ UNCHANGED <<res, place, stranded, failures>>
  /\ programmed' = IF family = "nrf52"
                   THEN [c \in Cells |-> programmed[c] \cup (flash'[c] \ flash[c])] ELSE programmed

AccessFails ==
  /\ Access /\ failures < MaxFailures /\ failures' = failures + 1
  /\ UNCHANGED chip \/ Effect(Step) \/ Partly(Step)
  /\ programmed' = IF Step.what = "program" THEN Sent(Step, op.data) ELSE programmed
  /\ stranded' = (mode' = "command" /\ (stranded \/ Step.what \in {"select", "exit_xip", "enter_xip"}))
  /\ CASE Step.how = "do" -> todo' = <<>> /\ res' = "err" /\ Loop("none", 0)
       [] Step.how = "try" -> todo' = Tail(todo) /\ UNCHANGED <<res, place>>
       [] OTHER -> todo' = SubSeq(todo, 2 + Step.x, Len(todo)) /\ UNCHANGED <<res, place>>

(* Rp2040Family and Nrf52Family: flash_mode, erased, reset_flash_state.    *)
Forget == /\ flash_mode' = FALSE
          /\ erased' = IF family = "nrf52" THEN {} ELSE erased

Set ==
  /\ todo # <<>> /\ Step.how = "set" /\ todo' = Tail(todo)
  /\ CASE Step.what = "erased" -> erased' = erased \cup {Step.x} /\ UNCHANGED <<flash_mode, programmed, stranded>>
       [] Step.what = "fresh" -> erased' = {} /\ UNCHANGED <<flash_mode, programmed, stranded>>
       [] Step.what = "entered" -> flash_mode' = TRUE /\ programmed' = Blank /\ UNCHANGED <<erased, stranded>>
       [] Step.what = "left" -> flash_mode' = FALSE /\ programmed' = Blank /\ UNCHANGED <<erased, stranded>>
       [] OTHER -> Forget /\ programmed' = Blank /\ stranded' = (mode = "command")
  /\ UNCHANGED <<family, chip, op, res, place, flash0, loose, requests, failures>>

Finished ==
  /\ todo = <<>> /\ loop = "none" /\ res = "busy" /\ res' = "ok"
  /\ UNCHANGED <<family, chip, known, op, todo, place, past, requests, failures>>

FlashNext ==
  (\E o \in Asked : Ask(o)) \/ Iterate \/ Succeeds \/ OwnWrite \/ AccessFails \/ Set \/ Finished

FlashSpec == FlashInit /\ [][FlashNext]_flashVars
-----------------------------------------------------------------------------
FlashTypeOK ==
  /\ flash \in [Cells -> SUBSET (Data \cup {Old, Own})] /\ mode \in {"xip", "command"}
  /\ config \in {"REN", "EEN", "WEN"} /\ flash_mode \in BOOLEAN /\ erased \subseteq Sectors

(* A write that was answered OK is in flash: every cell of it holds that   *)
(* datum alone, whatever failed before, unless the host has sent other     *)
(* data to the cell since it was erased. What earlier writes of the same   *)
(* stretch put elsewhere is still there, although sectors are erased on    *)
(* the way, and an RRAM write changes nothing else at all.                 *)
WrittenIsFlash ==
  res = "ok" /\ op.kind = "write" => \A c \in Cells :
    IF InSpan(c) THEN flash[c] = {op.data} \/ c \in loose
    ELSE flash[c] = flash0[c] \/ (family # "nrf54" /\ programmed[c] \subseteq {Own} /\ flash[c] = {})

Using == todo # <<>> /\ Step.what \in {"read", "run"}

(* Flash is read, and code run from it, with the flash out of command      *)
(* mode, unless entering or leaving the mode failed or a session ended     *)
(* within it.                                                              *)
FlashReadable == Using /\ mode = "command" => stranded
=============================================================================
