------------------------------ MODULE ArmLink ------------------------------
(***************************************************************************)
(* ArmDebug of arm-debug/src/lib.rs: the access layer between the GDB      *)
(* server and the SWD transfers of the probe. It keeps three caches of     *)
(* what it last wrote into the target's debug port: select (DP SELECT),    *)
(* csw_valid (the CSW of the selected AP is programmed) and apsel, and     *)
(* skips the writes the caches say are redundant. Every transfer may be    *)
(* answered WAIT or FAULT, or be damaged on the wire.                      *)
(*                                                                         *)
(* An operation is the list of the transfers it makes (todo); ensure_csw   *)
(* and select_ap_bank put theirs in front of it. Memory is bytes, each     *)
(* tagged with where it came from: the address it had at the start, or the *)
(* operation and the offset in its buffer.                                 *)
(***************************************************************************)
EXTENDS Naturals, Sequences

CONSTANTS
  Families,     \* the targets connected: a subset of {"rp2040", "nrf"}
  WordBytes,    \* bytes of a word (4)
  RunBytes,     \* TAR auto-increments inside blocks of this size (1024)
  ChunkWords,   \* words read_mem and write_mem move at a time (16)
  MemBytes,     \* bytes of target memory
  Spans,        \* the <<address, length>> pairs accessed
  Retries,      \* ArmDebug.retries (64)
  Polls,        \* polls of a status register before giving up
  MaxOps,       \* bound: operations requested
  MaxFaults     \* bound: transfers that go wrong

ASSUME FamiliesAssumption == Families \subseteq {"rp2040", "nrf"}
ASSUME SizesAssumption ==
  /\ WordBytes \in Nat \ {0} /\ ChunkWords \in Nat \ {0} /\ MemBytes \in Nat
  /\ RunBytes \in Nat \ {0} /\ RunBytes % WordBytes = 0
  /\ Retries \in Nat /\ Polls \in Nat /\ MaxOps \in Nat /\ MaxFaults \in Nat
ASSUME SpansAssumption ==
  \A s \in Spans : s \in Nat \X Nat /\ s[1] + s[2] <= MemBytes

DPs == {0, 1}                      \* the debug port of each RP2040 core
MemAp == 0
CtrlAp == 1                        \* nrf52::CTRL_AP
Nobody == 2                        \* no debug port answers
Unknown == 65535                   \* the cached SELECT 0xffff_ffff
NoCore == 2                        \* cur_core is None
Junk == [j \in 1 .. WordBytes |-> 0]
Bank(r) == IF r = "IDR" THEN 15 ELSE 0

VARIABLES
  family,                          \* the target on the wire
  link, sel, csw, tar, sticky, latch, mem,  \* target, per debug port; memory is shared
  select, csw_valid, apsel,        \* ArmDebug
  cur_core,                        \* Rp2040Family.cur_core
  op, todo, pos, buf, got, tries, res,      \* the operation and its progress
  ops, faults, stale, mem0         \* bounds and history

target == <<link, sel, csw, tar, sticky, latch, mem>>
caches == <<select, csw_valid, apsel, cur_core>>
work   == <<op, pos, buf, got>>
history == <<ops, stale, mem0>>
vars == <<family, target, caches, work, todo, tries, res, faults, history>>
-----------------------------------------------------------------------------
(* The steps of an operation. Dp and Ap write, DpRead and ApRead read.      *)
Dp(r, v)   == [k |-> "dp", w |-> TRUE, r |-> r, v |-> v]
DpRead(r)  == [k |-> "dp", w |-> FALSE, r |-> r, v |-> 0]
Ap(r, v)   == [k |-> "ap", w |-> TRUE, r |-> r, v |-> v]
ApRead(r)  == [k |-> "ap", w |-> FALSE, r |-> r, v |-> 0]
Host(r, v) == [k |-> "host", w |-> FALSE, r |-> r, v |-> v]
Line(d)    == [k |-> "line", w |-> TRUE, r |-> "TARGETSEL", v |-> d]
Csw        == [k |-> "csw", w |-> FALSE, r |-> "", v |-> 0]
Poll(n)    == [k |-> "poll", w |-> FALSE, r |-> "", v |-> n]
Take       == [k |-> "take", w |-> FALSE, r |-> "", v |-> 0]
Done       == [k |-> "done", w |-> FALSE, r |-> "", v |-> 0]
GiveUp     == [k |-> "fail", w |-> FALSE, r |-> "", v |-> 0]

ApReg(r) == <<ApRead(r), DpRead("RDBUFF")>>   \* ap_read: posted, then RDBUFF

(* read_word and write_word are the block operations on one word.          *)
ReadWords(a, n) ==
  <<Csw, Ap("TAR", a)>> \o [i \in 1 .. n |-> ApRead("DRW")] \o <<DpRead("RDBUFF")>>

WriteWords(a, ws) ==
  <<Csw, Ap("TAR", a)>> \o [i \in 1 .. Len(ws) |-> Ap("DRW", ws[i])] \o <<DpRead("RDBUFF")>>

(* Mutant: the caches survive a switch to another debug port. *)
AttachCached(d) ==
  <<Line(d), DpRead("DPIDR"), Host("", 0), Dp("ABORT", 0), Dp("SELECT", 0),
    Dp("POWER", 0), DpRead("CTRLSTAT"), Poll(Polls)>>

(* What connect_multidrop, connect_swd and reselect share: address a debug *)
(* port, read its DPIDR, forget the caches, clear errors, SELECT, power up.*)
Attach(d) ==
  <<Line(d), DpRead("DPIDR"), Host("forget", 0), Dp("ABORT", 0), Dp("SELECT", 0),
    Dp("POWER", 0), DpRead("CTRLSTAT"), Poll(Polls)>>

ConnectMultidrop == <<Host("core", NoCore)>> \o Attach(0) \o <<Host("core", 0)>>
ConnectSwd == SubSeq(Attach(0), 1, 3) \o <<Host("apsel", MemAp)>> \o SubSeq(Attach(0), 4, 8)
SelectCore(c) == <<Host("core", NoCore)>> \o Attach(c) \o <<Host("core", c)>>

ApprotectStatus ==
  <<Host("apsel", CtrlAp)>> \o ApReg("IDR") \o ApReg("APPROTECT") \o <<Host("apsel", MemAp)>>
EraseAll ==
  <<Host("apsel", CtrlAp), Ap("ERASEALL", 1)>> \o ApReg("STATUS")
    \o <<Poll(Polls), Ap("RESET", 1), Ap("RESET", 0), Host("apsel", MemAp)>>

Prog(o) ==
  CASE o.name = "connect" -> IF family = "rp2040" THEN ConnectMultidrop ELSE ConnectSwd
    [] o.name = "select" -> SelectCore(o.span[1])
    [] o.name = "approtect" -> ApprotectStatus
    [] o.name = "erase_all" -> EraseAll
    [] OTHER -> <<>>               \* memory: NextChunk

Operations ==
  [name : {"connect"}, span : {<<0, 0>>}]
    \cup [name : {"select"}, span : {<<c, 0>> : c \in DPs}]
    \cup [name : {"approtect", "erase_all"}, span : {<<0, 0>>}]
    \cup [name : {"read", "write"}, span : Spans]
InMemory == op.name \in {"read", "write"}

Init ==
  /\ family \in Families
  /\ link = Nobody
  /\ sel = [d \in DPs |-> 0]
  /\ csw = [d \in DPs |-> FALSE]
  /\ tar = [d \in DPs |-> 0]
  /\ sticky = [d \in DPs |-> FALSE]
  /\ latch = [d \in DPs |-> Junk]
  /\ mem = [a \in 0 .. MemBytes - 1 |-> a]
  /\ select = Unknown /\ csw_valid = FALSE /\ apsel = MemAp /\ cur_core = NoCore
  /\ op = [name |-> "connect", span |-> <<0, 0>>]
  /\ todo = <<>> /\ pos = 0 /\ buf = <<>> /\ got = <<>> /\ tries = 0
  /\ res = "Start" /\ ops = 0 /\ faults = 0 /\ stale = {} /\ mem0 = mem

(* The server asks for an operation. select_core returns at once when the  *)
(* core is current, and only an RP2040 has a second one to select; memory  *)
(* is accessed through whichever debug port the link addresses.            *)
Request(o) ==
  /\ res # "Busy"
  /\ ops < MaxOps
  /\ res = "Start" => o.name = "connect"
  /\ o.name = "select" => family = "rp2040" /\ cur_core # o.span[1]
  /\ o.name \in {"approtect", "erase_all"} => family = "nrf"
  /\ op' = o /\ todo' = Prog(o) /\ pos' = 0 /\ buf' = <<>> /\ got' = <<>>
  /\ tries' = 0 /\ res' = "Busy" /\ ops' = ops + 1 /\ mem0' = mem
  /\ UNCHANGED <<family, target, caches, faults, stale>>
-----------------------------------------------------------------------------
(* Steps that make no transfer.                                            *)
Step == Head(todo)
At(k) == res = "Busy" /\ todo # <<>> /\ Step.k = k

Assign ==
  /\ At("host")
  /\ todo' = Tail(todo)
  /\ select' = IF Step.r = "forget" THEN Unknown ELSE select
  /\ csw_valid' = CASE Step.r = "forget" -> FALSE
                    [] Step.r = "apsel" -> csw_valid /\ Step.v = apsel    \* set_apsel
                    [] OTHER -> csw_valid
  /\ apsel' = IF Step.r = "apsel" THEN Step.v ELSE apsel
  /\ cur_core' = IF Step.r = "core" THEN Step.v ELSE cur_core
  /\ UNCHANGED <<family, target, work, tries, res, faults, history>>

(* ensure_csw *)
EnsureCsw ==
  /\ At("csw")
  /\ todo' = (IF csw_valid THEN <<>> ELSE <<Ap("CSW", 0)>>) \o Tail(todo)
  /\ UNCHANGED <<family, target, caches, work, tries, res, faults, history>>

(* The value of SELECT, as the code composes it: the AP above the bank.    *)
SelectValue(ap, bank) == ap * 16 + bank
Wanted == SelectValue(apsel, Bank(Step.r))

(* select_ap_bank: SELECT is written first when the cache differs.         *)
SelectApBank ==
  /\ At("ap") /\ select # Wanted
  /\ todo' = <<Dp("SELECT", Wanted)>> \o todo
  /\ UNCHANGED <<family, target, caches, work, tries, res, faults, history>>

(* The status register was read: it is ready, or it is polled again. When  *)
(* the polls run out power_up gives up; erase_all resets the target first. *)
PollStatus ==
  /\ At("poll")
  /\ todo' \in {Tail(todo),
               IF Step.v > 1
               THEN (IF op.name = "erase_all" THEN ApReg("STATUS") ELSE <<DpRead("CTRLSTAT")>>)
                      \o <<Poll(Step.v - 1)>> \o Tail(todo)
               ELSE IF op.name = "erase_all" THEN Append(Tail(todo), GiveUp) ELSE <<GiveUp>>}
  /\ UNCHANGED <<family, target, caches, work, tries, res, faults, history>>
-----------------------------------------------------------------------------
(* The target: what a transfer that it accepts does.                       *)
MinOf(a, b) == IF a <= b THEN a ELSE b
Offset(r) == CASE r \in {"CSW", "RESET"} -> 0
               [] r \in {"TAR", "ERASEALL"} -> 4
               [] r = "STATUS" -> 8
               [] OTHER -> 12
Hits(o) == /\ Step.k = "ap" /\ Offset(Step.r) = o
           /\ sel[link] = SelectValue(MemAp, 0)

ByteAt(a) == IF a < MemBytes THEN mem[a] ELSE 0
WordAt(a) == [j \in 1 .. WordBytes |-> ByteAt(a + j - 1)]
NextTar(a) == (a - (a % RunBytes)) + ((a + WordBytes) % RunBytes)

(* An access with another CSW has another size and does not increment.     *)
AccessWord ==
  /\ latch' = IF Step.w THEN latch
              ELSE [latch EXCEPT ![link] = IF csw[link] THEN WordAt(tar[link]) ELSE Junk]
  /\ mem' = IF ~Step.w THEN mem
            ELSE [a \in DOMAIN mem |->
                    IF a \in tar[link] .. tar[link] + (IF csw[link] THEN WordBytes ELSE 1) - 1
                    THEN Step.v[a - tar[link] + 1] ELSE mem[a]]
  /\ tar' = IF csw[link] THEN [tar EXCEPT ![link] = NextTar(@)] ELSE tar

Accept ==
  /\ sel' = IF Step.r = "SELECT" THEN [sel EXCEPT ![link] = Step.v] ELSE sel
  /\ csw' = IF Hits(0) /\ Step.w THEN [csw EXCEPT ![link] = Step.r = "CSW"] ELSE csw
  /\ IF Hits(12) THEN AccessWord
     ELSE /\ tar' = IF Hits(4) /\ Step.w THEN [tar EXCEPT ![link] = Step.v] ELSE tar
          /\ latch' = IF Step.k = "ap" /\ ~Step.w THEN [latch EXCEPT ![link] = Junk] ELSE latch
          /\ mem' = mem

(* While an error is latched only DPIDR, CTRL/STAT and ABORT are answered. *)
Barred == sticky[link] /\ (Step.k = "ap" \/ Step.r \in {"SELECT", "RDBUFF"})
-----------------------------------------------------------------------------
(* transfer: one SWD transfer, retried while the answer is WAIT.           *)
OnWire == At("dp") \/ (At("ap") /\ select = Wanted)
Fault(n) == faults + n <= MaxFaults /\ faults' = faults + n

(* The caches follow the writes that were acknowledged.                    *)
Acknowledge ==
  /\ todo' = Tail(todo) /\ tries' = 0
  /\ select' = IF Step.r = "SELECT" THEN Step.v ELSE select
  /\ csw_valid' = (csw_valid \/ Step.r = "CSW")
  /\ got' = IF InMemory /\ ~Step.w THEN Append(got, latch[link]) ELSE got
  /\ UNCHANGED <<family, apsel, cur_core, op, pos, buf, res, link, ops, mem0>>

Acked ==
  /\ OnWire /\ link # Nobody /\ ~Barred
  /\ Accept
  /\ sticky' = [sticky EXCEPT ![link] = @ /\ Step.r # "ABORT"]
  /\ Acknowledge
  /\ UNCHANGED <<faults, stale>>

(* Acknowledged but not done: a posted access that fails on the bus, or a  *)
(* write whose data is damaged on the wire. The target latches an error.   *)
AckedNotDone ==
  /\ OnWire /\ link # Nobody /\ ~Barred /\ (Step.w \/ Step.r = "DRW") /\ Fault(1)
  /\ sticky' = [sticky EXCEPT ![link] = TRUE]
  /\ Acknowledge
  /\ stale' = IF Step.r \in {"SELECT", "CSW"} THEN stale \cup {"wire"} ELSE stale
  /\ UNCHANGED <<sel, csw, tar, latch, mem>>

Fail(e) ==
  /\ todo' = <<>> /\ res' = e /\ tries' = 0
  /\ stale' = stale \cup (IF op.name \in {"approtect", "erase_all"} THEN {"apsel"} ELSE {})
  /\ UNCHANGED <<family, link, caches, work, ops, mem0>>

(* clear_sticky_errors: a write of ABORT whose own result is ignored.      *)
ClearSticky == sticky' = [d \in DPs |-> sticky[d] /\ d # link]

Refused ==
  /\ OnWire /\ link # Nobody
  /\ \/ Barred /\ UNCHANGED faults
     \/ Step.k = "ap" /\ Fault(1)
  /\ ClearSticky
  /\ Fail("Fault")
  /\ UNCHANGED <<sel, csw, tar, latch, mem>>

(* No acknowledge. Nobody may be listening at all.                         *)
Unheard ==
  /\ OnWire
  /\ IF link = Nobody THEN UNCHANGED faults ELSE Fault(1)
  /\ ClearSticky
  /\ Fail("NoAck")
  /\ UNCHANGED <<sel, csw, tar, latch, mem>>

(* The parity of the data read is wrong: the target has made the access.   *)
Garbled ==
  /\ OnWire /\ link # Nobody /\ ~Barred /\ ~Step.w /\ Fault(1)
  /\ Accept
  /\ ClearSticky
  /\ Fail("Parity")

(* The error is latched and the ABORT that should clear it is lost.        *)
AbortLost ==
  /\ OnWire /\ link # Nobody
  /\ IF Barred THEN Fault(1) ELSE Step.k = "ap" /\ Fault(2)
  /\ sticky' = [sticky EXCEPT ![link] = TRUE]
  /\ Fail("Fault")
  /\ UNCHANGED <<sel, csw, tar, latch, mem>>

Waited ==
  /\ OnWire /\ link # Nobody /\ ~Barred /\ (Step.k = "ap" \/ Step.r = "RDBUFF") /\ Fault(1)
  /\ IF tries < Retries
     THEN /\ tries' = tries + 1
          /\ UNCHANGED <<family, link, caches, work, todo, res, history>>
     ELSE Fail("Wait")
  /\ UNCHANGED <<sel, csw, tar, latch, mem, sticky>>

(* DPIDR reads 0 or all ones.                                              *)
NoTarget ==
  /\ At("dp") /\ Step.r = "DPIDR" /\ link # Nobody /\ Fault(1)
  /\ Fail("NoTarget")
  /\ UNCHANGED <<sel, csw, tar, latch, mem, sticky>>

(* The line is reset and a debug port addressed. From here until they are  *)
(* forgotten the caches speak of the debug port addressed before.          *)
Address ==
  /\ At("line")
  /\ todo' = Tail(todo)
  /\ \/ link' = Step.v /\ UNCHANGED faults
     \/ link' = Nobody /\ Fault(1)
  /\ stale' = (stale \ {"wire"}) \cup {"link"}
  /\ UNCHANGED <<family, sel, csw, tar, sticky, latch, mem, caches, work, tries, res, ops, mem0>>

(* The target loses power, and with it the state of its debug ports.       *)
PowerCycle ==
  /\ Fault(1)
  /\ link' = Nobody
  /\ sel' = [d \in DPs |-> 0] /\ csw' = [d \in DPs |-> FALSE]
  /\ sticky' = [d \in DPs |-> FALSE]
  /\ UNCHANGED <<family, tar, latch, mem, caches, work, todo, tries, res, history>>
-----------------------------------------------------------------------------
(* read_mem and write_mem: as many whole words as fit the TAR run and the  *)
(* buffer of 16 words; a ragged edge is one word, read and for a write     *)
(* merged and written back.                                                *)
Addr == op.span[1] + pos
Remaining == op.span[2] - pos
Skew == Addr % WordBytes

(* Mutant: the run crosses the boundary at which TAR wraps. *)
TarRunUnbounded(a, n) == n

TarRun(a, n) == MinOf((RunBytes - (a % RunBytes)) \div WordBytes, n)

Words == IF Skew = 0 /\ Remaining >= WordBytes
         THEN MinOf(TarRun(Addr, Remaining \div WordBytes), ChunkWords) ELSE 0

Bytes == IF Words > 0 THEN Words * WordBytes ELSE MinOf(WordBytes - Skew, Remaining)
Data(i) == 100 * ops + i           \* byte i of the buffer written

NextChunk ==
  /\ res = "Busy" /\ todo = <<>> /\ InMemory /\ Remaining > 0
  /\ todo' = IF op.name = "write" /\ Words > 0
             THEN Append(WriteWords(Addr, [i \in 1 .. Words |-> [j \in 1 .. WordBytes |->
                           Data(pos + (i - 1) * WordBytes + j - 1)]]), Done)
             ELSE Append(ReadWords(Addr - Skew, IF Words > 0 THEN Words ELSE 1), Take)
  /\ UNCHANGED <<family, target, caches, work, tries, res, faults, history>>

(* The byte at offset i of the words read; got[1] was posted before them.  *)
Read(i) == got[2 + (i \div WordBytes)][1 + (i % WordBytes)]

TakeChunk ==
  /\ At("take")
  /\ got' = <<>>
  /\ IF op.name = "read"
     THEN /\ buf' = buf \o [i \in 1 .. Bytes |-> Read(Skew + i - 1)]
          /\ pos' = pos + Bytes
          /\ todo' = Tail(todo)
     ELSE /\ todo' = Append(WriteWords(Addr - Skew, <<[j \in 1 .. WordBytes |->
                        IF j - 1 \in Skew .. Skew + Bytes - 1
                        THEN Data(pos + j - 1 - Skew) ELSE Read(j - 1)]>>), Done)
                       \o Tail(todo)
          /\ UNCHANGED <<buf, pos>>
  /\ UNCHANGED <<family, target, caches, op, tries, res, faults, history>>

ChunkWritten ==
  /\ At("done")
  /\ todo' = Tail(todo) /\ pos' = pos + Bytes /\ got' = <<>>
  /\ UNCHANGED <<family, target, caches, op, buf, tries, res, faults, history>>

Timeout ==
  /\ At("fail")
  /\ todo' = <<>> /\ res' = "Timeout"
  /\ UNCHANGED <<family, target, caches, work, tries, faults, history>>

Finish ==
  /\ res = "Busy" /\ todo = <<>> /\ (InMemory => Remaining = 0)
  /\ res' = "Ok"
  /\ stale' = (stale \ (IF op.name \in {"connect", "select"} THEN {"link"} ELSE {}))
                 \ (IF \/ op.name = "connect" /\ family = "nrf"
                       \/ op.name \in {"approtect", "erase_all"} THEN {"apsel"} ELSE {})
  /\ UNCHANGED <<family, target, caches, work, todo, tries, faults, ops, mem0>>

Perform == \/ Assign \/ EnsureCsw \/ SelectApBank \/ PollStatus \/ Address
           \/ NextChunk \/ TakeChunk \/ ChunkWritten \/ Timeout \/ Finish
Transfer == \/ Acked \/ AckedNotDone \/ Refused \/ Unheard \/ Garbled
            \/ AbortLost \/ Waited \/ NoTarget

Next == \/ \E o \in Operations : Request(o)
        \/ Perform
        \/ Transfer
        \/ PowerCycle

Spec == Init /\ [][Next]_vars
-----------------------------------------------------------------------------
(* The types of the variables; the progress stays inside the buffer and    *)
(* stale holds the reasons a cache may be wrong: a write damaged on the    *)
(* wire, a switch of debug ports that is not over, a CTRL-AP operation     *)
(* that returned on an error.                                              *)
TypeOK ==
  /\ family \in Families /\ link \in DPs \cup {Nobody}
  /\ sel \in [DPs -> Nat] /\ csw \in [DPs -> BOOLEAN] /\ sticky \in [DPs -> BOOLEAN]
  /\ tar \in [DPs -> Nat] /\ DOMAIN mem = 0 .. MemBytes - 1
  /\ select \in Nat /\ csw_valid \in BOOLEAN /\ apsel \in {MemAp, CtrlAp}
  /\ cur_core \in DPs \cup {NoCore}
  /\ op \in Operations /\ pos \in 0 .. op.span[2] /\ tries \in 0 .. Retries
  /\ res \in {"Start", "Busy", "Ok", "Fault", "NoAck", "Parity", "Wait", "NoTarget", "Timeout"}
  /\ ops \in 0 .. MaxOps /\ faults \in 0 .. MaxFaults
  /\ stale \subseteq {"wire", "link", "apsel"}

(* What the caches let the code skip is really in the target: SELECT holds *)
(* the cached value, and the MEM-AP has the CSW the code relies on, across *)
(* every connect, core switch and AP switch and after every failed access, *)
(* unless one of the reasons in stale stands.                              *)
CachesAgree ==
  stale \cap {"wire", "link"} = {} /\ link # Nobody
  => /\ select # Unknown => sel[link] = select
     /\ csw_valid /\ apsel = MemAp => csw[link]

(* Memory accesses are exact whatever their alignment and however they are *)
(* split into TAR runs and chunks: a read that returns Ok holds the memory *)
(* at the address asked for, byte for byte; a write changes no byte        *)
(* outside its range, not even when it fails half-way, and when it returns *)
(* Ok the whole range is in memory, with no posted write lost unnoticed.   *)
(* An operation that ended in an error must not spoil the ones after it,   *)
(* except for the reasons in stale.                                        *)
MemoryExact ==
  stale = {} =>
    /\ res = "Ok" /\ op.name = "read"
         => buf = [i \in 1 .. op.span[2] |-> mem[op.span[1] + i - 1]]
    /\ op.name = "write" =>
         \A a \in DOMAIN mem :
           LET i == a - op.span[1]
               inside == a >= op.span[1] /\ a < op.span[1] + op.span[2]
           IN  /\ mem[a] = mem0[a] \/ (inside /\ mem[a] = Data(i))
               /\ inside /\ res = "Ok" => mem[a] = Data(i)
=============================================================================
