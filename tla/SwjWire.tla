------------------------------ MODULE SwjWire ------------------------------
(***************************************************************************)
(* The wire of the two transports: rust-dap/src/bitbang.rs (BitBangSwj)    *)
(* and rust-dap-rp/src/pio/{swd,jtag}.rs, clock by clock, together with    *)
(* the debug port of a target (SWD) or a chain of TAPs (JTAG). The probe   *)
(* turns a command into clocks, and learns the rest of a transfer from     *)
(* what it samples; the target counts the same clocks on its own. A clock  *)
(* of a transfer at which the line is disturbed has the wrong level. A TAP *)
(* may refuse a scan (WAIT), and gives the result of the read before: the  *)
(* probe drops the acknowledge, and takes what it scanned for the answer.  *)
(*                                                                         *)
(* A word has Bits bits, least significant first; SWDIO is pulled up.      *)
(***************************************************************************)
EXTENDS Naturals, Sequences, FiniteSets

CONSTANTS
  Links,     \* which transports: a subset of {"bitbang", "pio"}
  Ports,     \* a subset of {"Swd", "Jtag"}
  Bits,      \* bits of a word, even: 32
  Addrs,     \* registers of a debug port: <<APnDP, A2, A3>>
  Words,     \* words that are written
  Trns,      \* turnaround clocks, as configured on both sides
  Idles,     \* idle clocks after a transfer
  Chains,    \* JTAG chains: the IR lengths, device 0 first
  ResetOnes, \* clocks with a high line that reset it: 50
  MaxOps,    \* bound: commands
  MaxNoise   \* bound: disturbed clocks since the last line reset

Word == [1 .. Bits -> {0, 1}]

ASSUME WiresAssumption ==
  /\ Links \subseteq {"bitbang", "pio"} /\ Ports \subseteq {"Swd", "Jtag"}
  /\ Bits \in Nat \ {0} /\ Bits % 2 = 0 /\ Words \subseteq Word
  /\ Addrs \subseteq ({0, 1} \X {0, 1} \X {0, 1})
  /\ Trns \subseteq 1 .. 4 /\ Idles \subseteq Nat
  /\ Chains \subseteq Seq(Nat \ {0, 1}) /\ <<>> \notin Chains
ASSUME BoundsAssumption == {ResetOnes, MaxOps, MaxNoise} \subseteq Nat
ASSUME ResetAssumption == \A t \in Trns : ResetOnes > Bits + 8 + t

VARIABLES
  cfg,           \* the set-up: [port, link, trn, phase, idle, chain]
  ready,         \* host: connected and the target put in step
  cmd, step,     \* the transfer that runs, and what follows its clocks
  todo, seen,    \* probe: clocks to do, and bits sampled
  result,        \* of the last transfer
  plan, heard,   \* SW-DP: what it does on the next clocks, and the bits it sampled
  mode, ones,    \* SW-DP: "sync", "lost", or "reset" until the line is low
  want, sticky,  \* SW-DP: where a write goes, and that one was damaged
  tap, scan, instr, \* JTAG: state of the TAPs, bits between TDI and TDO, instructions
  latched, given, \* JTAG-DP: result of the last read it took, data register it captured last
  regs,          \* the registers of the debug port, or of the devices
  asked,         \* history: what the host wrote to each
  ops, noise,
  slipped        \* history: a disturbed idle clock, not the last, was taken for a start bit

host == <<cfg, ready, cmd, asked, ops>>
probe == <<step, todo, seen, result>>
swdp == <<plan, heard, mode, ones, want, sticky>>
jtag == <<tap, scan, instr, latched, given>>
wire == <<noise, slipped>>
vars == <<host, probe, swdp, jtag, regs, wire>>

None == [rnw |-> 1, at |-> 0, word |-> <<>>]
NoResult == [st |-> "none", word |-> <<>>]
ResetWord == [i \in 1 .. Bits |-> IF i = 1 THEN 1 ELSE 0]
Devices(c) == 0 .. Len(c) - 1
Repeat(n, x) == [i \in 1 .. n |-> x]
Parity(s) == Cardinality({i \in DOMAIN s : s[i] = 1}) % 2

Init ==
  /\ \E p \in Ports, l \in Links, t \in Trns, i \in Idles, ph \in BOOLEAN, c \in Chains :
       /\ cfg = [port |-> p, link |-> l, trn |-> t, phase |-> ph, idle |-> i, chain |-> c]
       /\ p = "Swd" => c = CHOOSE any \in Chains : TRUE
       /\ p = "Jtag" => ~ph /\ t = CHOOSE any \in Trns : TRUE
       /\ regs = [a \in (IF p = "Swd" THEN Addrs ELSE Devices(c)) |-> ResetWord]
       /\ instr = [d \in Devices(c) |-> "bypass"]
       /\ latched = [d \in Devices(c) |-> ResetWord] /\ given = [d \in Devices(c) |-> <<0>>]
  /\ ready = FALSE /\ cmd = None /\ step = "none" /\ todo = <<>> /\ seen = <<>> /\ result = NoResult
  /\ plan = <<>> /\ heard = <<>> /\ mode = "lost" /\ ones = 0 /\ want = <<>> /\ sticky = FALSE
  /\ tap = "RTI" /\ scan = <<>> /\ asked = [a \in DOMAIN regs |-> {ResetWord}] /\ ops = 0
  /\ noise = 0 /\ slipped = FALSE
-----------------------------------------------------------------------------
(* Clocks of the probe: the level of SWDIO or TMS, 2 where it is released, *)
(* the level of TDI, and whether SWDIO or TDO is sampled.                  *)
Float == 2
Put(b) == [dio |-> b, tdi |-> 0, look |-> FALSE]
Look == [dio |-> Float, tdi |-> 0, look |-> TRUE]
Cycle == [dio |-> Float, tdi |-> 0, look |-> FALSE]
Shift(tms, tdi, look) == [dio |-> tms, tdi |-> tdi, look |-> look]
Tms(s) == [i \in DOMAIN s |-> Shift(s[i], 0, FALSE)]
PutAll(s) == [i \in DOMAIN s |-> Put(s[i])]
TurnAround == Repeat(cfg.trn, Cycle)

(* The request byte, start bit first.                                      *)
Header(c) ==
  LET four == <<c.at[1], c.rnw, c.at[2], c.at[3]>>
  IN  PutAll(<<1>> \o four \o <<Parity(four), 0, 1>>)

(* Up to the acknowledge: the PIO reads the turnaround of a write with it. *)
Ask(c) ==
  Header(c) \o TurnAround \o Repeat(3, Look)
    \o IF cfg.link = "pio" /\ c.rnw = 0 THEN TurnAround ELSE <<>>

OK == <<1, 0, 0>>
WAIT == <<0, 1, 0>>
FAULT == <<0, 0, 1>>

ReadPhase == Repeat(Bits + 1, Look) \o TurnAround
WritePhase(c) == PutAll(c.word \o <<Parity(c.word)>>)
Idle == Repeat(cfg.idle, Put(0))
Released == Repeat(Bits + 1, Cycle)

BitBangAnswer(c, ack) ==
  IF ack = OK THEN (IF c.rnw = 1 THEN ReadPhase ELSE TurnAround \o WritePhase(c)) \o Idle
  ELSE IF ack \in {WAIT, FAULT}
  THEN (IF cfg.phase /\ c.rnw = 1 THEN Released ELSE <<>>) \o TurnAround
         \o (IF cfg.phase /\ c.rnw = 0 THEN Repeat(Bits + 1, Put(0)) ELSE <<>>)
  ELSE TurnAround \o Released

PioAnswer(c, ack) ==
  IF ack = OK THEN (IF c.rnw = 1 THEN ReadPhase ELSE WritePhase(c)) \o Idle
  ELSE IF ack \in {WAIT, FAULT}
  THEN IF c.rnw = 1 THEN (IF cfg.phase THEN Released ELSE <<>>) \o TurnAround
       ELSE IF cfg.phase THEN Repeat(Bits + 1, Put(0)) ELSE <<>>
  ELSE Released \o IF c.rnw = 1 THEN TurnAround ELSE <<>>

(* Mutant: no turnaround before the probe drives the line again.           *)
AnswerEarly(c, ack) ==
  IF ack = OK /\ c.rnw = 1 THEN SubSeq(ReadPhase, 1, Bits) \o Idle
  ELSE IF cfg.link = "pio" THEN PioAnswer(c, ack) ELSE BitBangAnswer(c, ack)

(* Mutant: after a damaged acknowledge the probe drives the data phase.    *)
AnswerDriven(c, ack) ==
  IF ack \notin {OK, WAIT, FAULT}
  THEN (IF cfg.link = "pio" THEN <<>> ELSE TurnAround) \o Repeat(Bits + 1, Put(0))
  ELSE IF cfg.link = "pio" THEN PioAnswer(c, ack) ELSE BitBangAnswer(c, ack)

Answer(c, ack) == IF cfg.link = "pio" THEN PioAnswer(c, ack) ELSE BitBangAnswer(c, ack)

(* DAP_SWJ_Sequence, and DAP_SWD_Sequence of an output part.               *)
SwjSequence(s) == PutAll(s)
SwdSequence(s) == PutAll(s)
JtagSequence(tms, n) == Repeat(n, Shift(tms, 0, FALSE))

(* The bits of some devices of a chain, given how many each has.           *)
Total(sizes, devices) == Cardinality(UNION {{d} \X (1 .. sizes[d]) : d \in devices})

(* write_ir: bypass, which is all ones, for every device but one, the last *)
(* device first, and TMS with the last bit.                                *)
AccBits(n) == [i \in 1 .. n |-> IF i = 1 THEN 0 ELSE 1]
IrBits(c, at) ==
  [i \in 1 .. Total(c, DOMAIN c) |-> IF i = Total(c, at + 2 .. Len(c)) + 1 THEN 0 ELSE 1]

(* Mutant: TMS comes one bit late, when the scan is over.                  *)
LastLate(n) == n + 1

LastBit(n) == n
Scan(tdi, look) ==
  [i \in DOMAIN tdi |-> Shift(IF i = LastBit(Len(tdi)) THEN 1 ELSE 0, tdi[i], i \in look)]
WriteIr(at) == Tms(<<1, 1, 0, 0>>) \o Scan(IrBits(cfg.chain, at), {}) \o Tms(<<1, 0>>)

(* read_write_dr: the bits around the register of the device. The bit-bang *)
(* transport counts the instructions of the other devices, the PIO the     *)
(* devices, with those ahead of this one on the wrong side.                *)
DrBefore(at) ==
  IF cfg.link = "pio" THEN Repeat(at, 1)
  ELSE Repeat(Total(cfg.chain, at + 2 .. Len(cfg.chain)), 0)
DrAfter(at) ==
  IF cfg.link = "pio" THEN Repeat(Len(cfg.chain) - 1 - at, 1)
  ELSE Repeat(Total(cfg.chain, 1 .. at), 0)
ReadWriteDr(at, dr) ==
  LET b == DrBefore(at)
  IN  Tms(<<1, 0, 0>>) \o Scan(b \o dr \o DrAfter(at), Len(b) + 1 .. Len(b) + Len(dr))
        \o Tms(<<1, 0>>)

(* Mutant: the bit-banged transport asks for a read too.                   *)
AccRead(c) == <<1>> \o c.word

(* build_acc: the PIO asks for a read whatever the request is.             *)
Acc(c) == <<IF cfg.link = "pio" THEN 1 ELSE c.rnw>> \o c.word
-----------------------------------------------------------------------------
(* The host. It puts the target in step after it connects, and after the   *)
(* probe has seen no acknowledge.                                          *)
Quiet == todo = <<>> /\ step = "none"
Command(clocks, next) ==
  /\ Quiet /\ ops < MaxOps /\ ops' = ops + 1 /\ todo' = clocks /\ step' = next /\ seen' = <<>>
  /\ UNCHANGED <<cfg, swdp, regs, slipped>>

(* DAP_Connect, which the host may use at any time.                        *)
Connect ==
  /\ Command(IF cfg.port = "Jtag" /\ cfg.link = "bitbang" THEN JtagSequence(1, 10) ELSE <<>>, "none")
  /\ ready' = FALSE /\ cmd' = None /\ result' = NoResult
  /\ tap' = IF cfg.port = "Jtag" /\ cfg.link = "bitbang" THEN "TLR" ELSE tap
  /\ UNCHANGED <<asked, scan, instr, latched, given, noise>>

LineReset ==
  /\ cfg.port = "Swd" /\ ready' = TRUE /\ cmd' = None /\ result' = NoResult
  /\ LET line == Repeat(ResetOnes, 1) \o <<0, 0>>
     IN  Command(SwjSequence(line), "none") \/ Command(SwdSequence(line), "none")
  /\ noise' = 0 /\ UNCHANGED <<asked, jtag>>

ToIdle ==
  /\ cfg.port = "Jtag" /\ ready' = TRUE /\ cmd' = None /\ result' = NoResult
  /\ Command(JtagSequence(1, 5) \o JtagSequence(0, 1), "none")
  /\ UNCHANGED <<asked, jtag, noise>>

Transfer ==
  /\ ready
  /\ \E rnw \in {0, 1}, at \in DOMAIN regs, w \in Words :
       LET c == [rnw |-> rnw, at |-> at, word |-> w] IN
       /\ cmd' = c /\ asked' = IF rnw = 1 THEN asked ELSE [asked EXCEPT ![at] = @ \cup {w}]
       /\ IF cfg.port = "Swd" THEN Command(Ask(c), "ack")
          ELSE Command(WriteIr(at) \o ReadWriteDr(at, Acc(c)), "scanned")
  /\ result' = NoResult /\ UNCHANGED <<ready, jtag, noise>>

(* The probe has the acknowledge.                                          *)
Acknowledged ==
  /\ todo = <<>> /\ step = "ack"
  /\ todo' = Answer(cmd, seen) /\ seen' = <<>>
  /\ step' = CASE seen = OK -> "data" [] seen \in {WAIT, FAULT} -> "refused" [] OTHER -> "unheard"
  /\ UNCHANGED <<host, result, swdp, jtag, regs, wire>>

(* Mutant: the parity of the word read is not looked at.                   *)
IntactAlways(s) == TRUE

Intact(s) == Parity(SubSeq(s, 1, Bits)) = s[Bits + 1]

(* The end of transfer().                                                  *)
Finish ==
  /\ todo = <<>> /\ step \in {"data", "refused", "unheard", "scanned"}
  /\ result' = IF step \in {"refused", "unheard"} \/ (step = "data" /\ cmd.rnw = 1 /\ ~Intact(seen))
               THEN [st |-> "error", word |-> <<>>]
               ELSE [st |-> "ok", word |-> IF cmd.rnw = 0 THEN <<>>
                                           ELSE IF step = "data" THEN SubSeq(seen, 1, Bits) ELSE Tail(seen)]
  /\ ready' = (step # "unheard") /\ step' = "none" /\ seen' = <<>>
  /\ UNCHANGED <<cfg, cmd, asked, ops, todo, swdp, jtag, regs, wire>>
-----------------------------------------------------------------------------
(* The debug port. Its plan: drive 0 or 1, release the line, or sample it. *)
Sample == 3
Drives == plan # <<>> /\ Head(plan) < Float
Release(n) == Repeat(n, Float)

Well(h) == h[6] = Parity(SubSeq(h, 2, 5)) /\ h[7] = 0 /\ h[8] = 1
HeardAt(h) == <<h[2], h[4], h[5]>>
ReadPlan(w) == w \o <<Parity(w)>> \o Release(cfg.trn)
Refusal(rnw) ==
  IF ~cfg.phase THEN Release(cfg.trn) ELSE Release(Bits + 1 + cfg.trn)

(* It has heard a request.                                                 *)
Decide(h) ==
  IF ~Well(h) \/ HeardAt(h) \notin Addrs
  THEN mode' = "lost" /\ plan' = <<>> /\ want' = <<>>
  ELSE \E ack \in IF sticky THEN {FAULT} ELSE {OK, WAIT, FAULT} :
         /\ mode' = mode
         /\ want' = IF ack = OK /\ h[3] = 0 THEN HeardAt(h) ELSE <<>>
         /\ plan' = Release(cfg.trn) \o ack \o
              IF ack # OK THEN Refusal(h[3])
              ELSE IF h[3] = 1 THEN ReadPlan(regs[HeardAt(h)])
              ELSE Release(cfg.trn) \o Repeat(Bits + 1, Sample)

(* It has heard a word.                                                    *)
Store(h) ==
  LET w == SubSeq(h, 1, Bits) IN
  IF Parity(w) = h[Bits + 1] THEN regs' = [regs EXCEPT ![want] = w] /\ UNCHANGED sticky
  ELSE sticky' = TRUE /\ UNCHANGED regs

Follow(level) ==
  LET count == IF Drives THEN 0 ELSE IF level = 0 THEN 0 ELSE IF ones < ResetOnes THEN ones + 1 ELSE ones
      h == Append(heard, level)
  IN  /\ ones' = count
      /\ IF count = ResetOnes
         THEN mode' = "reset" /\ plan' = <<>> /\ heard' = <<>> /\ want' = <<>> /\ UNCHANGED <<regs, sticky>>
         ELSE IF mode # "sync"
         THEN /\ mode' = IF mode = "reset" /\ level = 0 THEN "sync" ELSE mode
              /\ UNCHANGED <<plan, heard, want, sticky, regs>>
         ELSE IF plan # <<>>
         THEN /\ plan' = Tail(plan) /\ UNCHANGED mode
              /\ IF Head(plan) # Sample THEN UNCHANGED <<heard, want, regs, sticky>>
                 ELSE IF Len(plan) > 1 THEN heard' = h /\ UNCHANGED <<want, regs, sticky>>
                 ELSE heard' = <<>> /\ want' = <<>> /\ Store(h)
         ELSE /\ UNCHANGED <<regs, sticky>>
              /\ IF heard = <<>> /\ level = 0 THEN UNCHANGED <<plan, heard, mode, want>>
                 ELSE IF Len(h) < 8 THEN heard' = h /\ UNCHANGED <<plan, mode, want>>
                 ELSE heard' = <<>> /\ Decide(h)

SwdClock ==
  /\ cfg.port = "Swd" /\ todo # <<>>
  /\ LET op == Head(todo)
         line == IF op.dio # Float THEN op.dio ELSE IF Drives THEN Head(plan) ELSE 1
     IN  \E flip \in {0, 1} :
           /\ noise + flip <= (IF step = "none" THEN noise ELSE MaxNoise) /\ noise' = noise + flip
           /\ slipped' = (slipped \/ (flip = 1 /\ step = "data" /\ plan = <<>> /\ Len(todo) > 1))
           /\ seen' = (IF op.look THEN Append(seen, (line + flip) % 2) ELSE seen)
           /\ Follow((line + flip) % 2)
  /\ todo' = Tail(todo) /\ UNCHANGED <<host, step, result, jtag>>
-----------------------------------------------------------------------------
(* The TAPs, which share TMS: the state after TMS = 0 and after TMS = 1.   *)
TapNext ==
  [TLR |-> <<"RTI", "TLR">>, RTI |-> <<"RTI", "SelDR">>,
   SelDR |-> <<"CapDR", "SelIR">>, CapDR |-> <<"ShDR", "Ex1DR">>, ShDR |-> <<"ShDR", "Ex1DR">>,
   Ex1DR |-> <<"PauDR", "UpdDR">>, PauDR |-> <<"PauDR", "Ex2DR">>, Ex2DR |-> <<"ShDR", "UpdDR">>,
   UpdDR |-> <<"RTI", "SelDR">>,
   SelIR |-> <<"CapIR", "TLR">>, CapIR |-> <<"ShIR", "Ex1IR">>, ShIR |-> <<"ShIR", "Ex1IR">>,
   Ex1IR |-> <<"PauIR", "UpdIR">>, PauIR |-> <<"PauIR", "Ex2IR">>, Ex2IR |-> <<"ShIR", "UpdIR">>,
   UpdIR |-> <<"RTI", "SelDR">>]

(* Bits from TDO to TDI: the last device first. A data register is one bit *)
(* in bypass, else the acknowledge and the word: here one bit stands for   *)
(* the three of the acknowledge, 1 for OK/FAULT and 0 for WAIT.            *)
DrSize(d) == IF instr[d] = "acc" THEN Bits + 1 ELSE 1
Size(ir, d) == IF ir THEN cfg.chain[d + 1] ELSE DrSize(d)
Sizes(ir) == [e \in DOMAIN cfg.chain |-> Size(ir, e - 1)]
Offset(ir, d) == Total(Sizes(ir), d + 2 .. Len(cfg.chain))
Part(ir, d) == SubSeq(scan, Offset(ir, d) + 1, Offset(ir, d) + Size(ir, d))
Holder(ir, i) == CHOOSE d \in Devices(cfg.chain) : i \in Offset(ir, d) + 1 .. Offset(ir, d) + Size(ir, d)

(* What the devices capture: one that is still busy says WAIT, with a word *)
(* that means nothing, and will take no notice of the scan. Else it gives  *)
(* the result of the access before.                                        *)
Captured(d, ack, any) ==
  IF instr[d] # "acc" THEN <<0>> ELSE IF ack = 1 THEN <<1>> \o latched[d] ELSE <<0>> \o any
Captures == {[d \in DOMAIN instr |-> Captured(d, ack, any)] : ack \in {0, 1}, any \in Word}
Capture(ir, drs) ==
  [i \in 1 .. Total(Sizes(ir), DOMAIN cfg.chain) |->
     LET d == Holder(ir, i) IN IF ir THEN 0 ELSE drs[d][i - Offset(ir, d)]]

Takes(d, rnw) == instr[d] = "acc" /\ given[d][1] = 1 /\ Part(FALSE, d)[1] = rnw
Update(to) ==
  /\ instr' = CASE to = "UpdIR" -> [d \in DOMAIN instr |->
                                     IF Part(TRUE, d) = AccBits(cfg.chain[d + 1]) THEN "acc" ELSE "bypass"]
                [] to = "TLR" -> [d \in DOMAIN instr |-> "bypass"]
                [] OTHER -> instr
  /\ regs' = IF to # "UpdDR" THEN regs
             ELSE [d \in DOMAIN regs |-> IF Takes(d, 0) THEN Tail(Part(FALSE, d)) ELSE regs[d]]
  /\ latched' = IF to # "UpdDR" THEN latched
                ELSE [d \in DOMAIN latched |-> IF Takes(d, 1) THEN regs[d] ELSE latched[d]]

JtagClock ==
  /\ cfg.port = "Jtag" /\ todo # <<>>
  /\ LET op == Head(todo)
         to == TapNext[tap][op.dio + 1]
     IN  /\ tap' = to /\ Update(to)
         /\ given' \in IF tap = "CapDR" THEN Captures ELSE {given}
         /\ scan' = CASE tap = "CapDR" -> Capture(FALSE, given')
                      [] tap = "CapIR" -> Capture(TRUE, given)
                      [] tap \in {"ShDR", "ShIR"} -> Append(Tail(scan), op.tdi)
                      [] OTHER -> IF to = "RTI" THEN <<>> ELSE scan
         /\ seen' = IF op.look THEN Append(seen, IF scan = <<>> THEN 1 ELSE Head(scan)) ELSE seen
  /\ todo' = Tail(todo) /\ UNCHANGED <<host, step, result, swdp, wire>>

Next ==
  Connect \/ LineReset \/ ToIdle \/ Transfer \/ Acknowledged \/ Finish \/ SwdClock \/ JtagClock

Spec == Init /\ [][Next]_vars
-----------------------------------------------------------------------------
(* The probe and the target never drive SWDIO at the same clock, even      *)
(* where a disturbed clock has made them disagree, unless the target has   *)
(* taken an idle clock for the start of a request.                         *)
NoContention == cfg.port = "Swd" /\ todo # <<>> /\ Drives => Head(todo).dio = Float \/ slipped

(* When a command is over the target waits for the next one, at the bit    *)
(* where the probe will begin, whatever was acknowledged and whichever     *)
(* clock was disturbed, or the host knows that it has to reset the line.   *)
(* Only the last idle clock may have been taken for the start of a request *)
(* (or one before it, after which nothing is said).                        *)
InStep ==
  ready /\ Quiet =>
    \/ cfg.port = "Jtag" /\ tap = "RTI"
    \/ /\ cfg.port = "Swd" /\ mode = "sync" /\ plan = <<>>
       /\ heard = <<>> \/ (noise > 0 /\ Len(heard) = 1)
    \/ slipped

(* A transfer over SWD that is reported as done was done: the word read is *)
(* the register, and a word written is in it unless the target has taken   *)
(* note that it was damaged. (Over JTAG the probe cannot tell: it drops    *)
(* the acknowledge.)                                                       *)
Done(c) ==
  IF c.rnw = 1 THEN result.word = regs[c.at] ELSE regs[c.at] = c.word \/ sticky
TransferExact ==
  cfg.port = "Swd" /\ Quiet /\ result.st = "ok" /\ ~slipped => Done(cmd)

(* A transfer over JTAG to an only device is scanned bit by bit: a read    *)
(* returns the word that the device gave, and if the device did not refuse *)
(* the scan, a word written is in the register and a register read is what *)
(* the device will give to the next scan. A write of the PIO is excepted:  *)
(* it goes out as a read.                                                  *)
Alone == cfg.port = "Swd" \/ Len(cfg.chain) = 1
Scanned(c) ==
  /\ c.rnw = 1 => result.word = Tail(given[c.at])
  /\ given[c.at][1] = 1 =>
       IF c.rnw = 1 THEN latched[c.at] = regs[c.at] ELSE regs[c.at] = c.word
ScanExact ==
  cfg.port = "Jtag" /\ Alone /\ Quiet /\ result.st = "ok" /\ ~(cfg.link = "pio" /\ cmd.rnw = 0)
  => Scanned(cmd)

(* What read and write of either transport report as done was done, as far *)
(* as the probe can tell: by the acknowledge over SWD, by the scan alone   *)
(* over JTAG.                                                              *)
ResultExact == TransferExact /\ ScanExact

(* No register of an only device ever holds a word that the host did not   *)
(* write to it, even where the request, the acknowledge or the word was    *)
(* damaged. (On a longer chain the PIO puts the data register in front of  *)
(* the wrong device.)                                                      *)
OnlyAskedAlone ==
  Alone /\ ~slipped => \A a \in DOMAIN regs : regs[a] \in asked[a]
=============================================================================
