----------------------------- MODULE CoreDebug -----------------------------
(***************************************************************************)
(* The Cortex-M debug operations of arm-debug/src/lib.rs on one core: run  *)
(* control through DHCSR, bootrom calls, the FPB and DWT comparators and   *)
(* the halt reason. No host state is kept between operations: what is set  *)
(* is read back from the target. Each operation is a sequence of accesses, *)
(* any of which may fail, before or after the target has made it, while    *)
(* the core runs and stops on its own.                                     *)
(*                                                                         *)
(* todo holds the accesses ahead. One step on a core register stands for   *)
(* the DCRSR/DCRDR handshake of read_core_reg and write_core_reg, which    *)
(* nothing else takes part in. A register is tagged with who wrote it.     *)
(***************************************************************************)
EXTENDS Naturals, Sequences

CONSTANTS
  Clobbered,   \* the registers call_function uses, in order (r0-r3, sp, lr, pc, xPSR)
  Breakable,   \* code addresses an FPB comparator can hold
  Unbreakable, \* addresses it cannot (RAM, FPBv1)
  Watches,     \* the watchpoints: address, length and access as one value
  NumFp,       \* FPB comparators
  NumDwt,      \* DWT comparators
  Polls,       \* polls of DHCSR before CoreTimeout
  MaxOps,      \* bound: operations requested
  MaxErrs      \* bound: accesses that fail

ASSUME CountsAssumption ==
  NumFp \in Nat /\ NumDwt \in Nat /\ Polls \in Nat \ {0} /\ MaxOps \in Nat /\ MaxErrs \in Nat

Regs == {Clobbered[i] : i \in DOMAIN Clobbered}
ASSUME ClobberedAssumption == Clobbered \in Seq(Regs) /\ "pc" \in Regs

Free == "free"
Causes == {"HALTED", "BKPT", "DWTTRAP"}    \* of DFSR
ASSUME SetsAssumption ==
  /\ Breakable \cap Unbreakable = {} /\ Free \notin Breakable \cup Unbreakable \cup Watches
  /\ Watches \cap Causes = {}
FpComps == 1 .. NumFp
DwtComps == 1 .. NumDwt

VARIABLES
  halted, c_halt, c_maskints, c_step,  \* target: S_HALT and the controls of DHCSR
  regs, tramp,                         \* target: core registers, BKPT planted in RAM
  dfsr, fp_on, fp,                     \* target: halt causes, FP_CTRL.ENABLE, FP_COMPn
  dwt, half, matched,                  \* target: FUNCTIONn, COMPn/MASKn, MATCHED
  op, todo, free, saved, res, reply,   \* the operation
  ops, errs, regs0, asked,             \* bounds and history
  why, left                            \* history: see Stop and Restart

run == <<halted, c_halt, c_maskints, c_step>>
units == <<fp_on, fp, dwt, half>>
target == <<run, regs, tramp, dfsr, matched, units>>
reasons == <<why, left>>
history == <<ops, errs, regs0, asked, reasons>>
vars == <<target, op, todo, free, saved, res, reply, history>>
-----------------------------------------------------------------------------
(* The steps of an operation.                                              *)
S(k, x)  == [k |-> k, x |-> x]
Dhcsr(h, m, s) == S("dhcsr", <<h, m, s>>)
Wait(n)  == S("wait", n)

Each(k) == [i \in DOMAIN Clobbered |-> S(k, Clobbered[i])]

Halt == <<Dhcsr(TRUE, FALSE, FALSE), Wait(Polls)>>
Resume == <<Dhcsr(FALSE, FALSE, FALSE)>>
StepOne == <<Dhcsr(FALSE, TRUE, TRUE), Wait(Polls)>>

(* Mutant: the registers are restored while interrupts stay masked. *)
CallFunctionMasked ==
  Each("save") \o <<S("tramp", 0)>> \o Each("arg")
    \o <<Dhcsr(TRUE, TRUE, FALSE), Dhcsr(FALSE, TRUE, FALSE), S("callwait", Polls),
         Dhcsr(TRUE, TRUE, FALSE), S("waited", 0)>>
    \o Each("restore")

CallFunction ==
  Each("save") \o <<S("tramp", 0)>> \o Each("arg")
    \o <<Dhcsr(TRUE, TRUE, FALSE), Dhcsr(FALSE, TRUE, FALSE), S("callwait", Polls),
         Dhcsr(TRUE, TRUE, FALSE), Dhcsr(TRUE, FALSE, FALSE), S("waited", 0)>>
    \o Each("restore")

BreakSet == <<S("fpctrl", 0), S("fpscan", 1)>>
BreakClear == <<S("fpfind", 1)>>
WatchSet == <<S("dwtscan", 1)>>
WatchClear == <<S("dwtfind", 1)>>
UnitsClear == [i \in 1 .. NumFp + NumDwt |->
                 IF i <= NumFp THEN S("fpwrite", <<i, Free>>) ELSE S("function", <<i - NumFp, Free>>)]
HaltReason == <<S("dfsr", 0)>>

Prog(o) == CASE o.name = "halt" -> Halt
             [] o.name = "resume" -> Resume
             [] o.name = "step" -> StepOne
             [] o.name = "call" -> CallFunction
             [] o.name = "break" -> IF o.x \in Unbreakable THEN <<S("reply", FALSE)>> ELSE BreakSet
             [] o.name = "unbreak" -> IF o.x \in Unbreakable THEN <<S("reply", FALSE)>> ELSE BreakClear
             [] o.name = "watch" -> WatchSet
             [] o.name = "unwatch" -> WatchClear
             [] o.name = "clear" -> UnitsClear
             [] OTHER -> HaltReason

Operations ==
  [name : {"halt", "resume", "step", "call", "clear", "reason"}, x : {Free}]
    \cup [name : {"break", "unbreak"}, x : Breakable \cup Unbreakable]
    \cup [name : {"watch", "unwatch"}, x : Watches]

Init ==
  /\ halted = FALSE /\ c_halt = FALSE /\ c_maskints = FALSE /\ c_step = FALSE
  /\ regs = [r \in Regs |-> "user"] /\ tramp = FALSE
  /\ dfsr = {} /\ fp_on = FALSE /\ fp = [i \in FpComps |-> Free]
  /\ dwt = [i \in DwtComps |-> Free] /\ half = [i \in DwtComps |-> Free]
  /\ matched = [i \in DwtComps |-> FALSE]
  /\ op = [name |-> "clear", x |-> Free] /\ todo = <<>> /\ free = 0 /\ saved = regs
  /\ res = "Idle" /\ reply = {} /\ ops = 0 /\ errs = 0 /\ regs0 = regs /\ asked = {}
  /\ why = {} /\ left = {}

(* What the server may ask for: a step, a resume or a bootrom call of a    *)
(* halted core only, a halt of a running one.                              *)
Request(o) ==
  /\ res # "Busy" /\ ops < MaxOps
  /\ o.name \in {"resume", "step", "call", "reason"} => halted
  /\ o.name = "halt" => ~halted
  /\ op' = o /\ todo' = Prog(o) /\ free' = 0 /\ res' = "Busy" /\ reply' = {}
  /\ ops' = ops + 1 /\ regs0' = regs
  /\ asked' = IF o.name = "watch" THEN asked \cup {o.x} ELSE asked
  /\ UNCHANGED <<target, saved, errs, reasons>>
-----------------------------------------------------------------------------
(* The core. why is what stopped it this time: the cause, and the          *)
(* watchpoints that matched.                                               *)
Stop(cause, seen) ==
  /\ halted' = TRUE /\ c_halt' = TRUE /\ dfsr' = dfsr \cup {cause}
  /\ why' = why \cup seen \cup {cause} /\ left' = left
Unhosted == UNCHANGED <<op, todo, free, saved, res, reply, ops, errs, regs0, asked>>

TakeHalt ==
  /\ ~halted /\ (c_halt \/ c_step)
  /\ Stop("HALTED", {}) /\ c_step' = FALSE
  /\ Unhosted /\ UNCHANGED <<c_maskints, regs, tramp, matched, units>>

HitBreakpoint ==
  /\ ~halted /\ fp_on /\ \E i \in FpComps : fp[i] # Free
  /\ Stop("BKPT", {})
  /\ Unhosted /\ UNCHANGED <<c_maskints, c_step, regs, tramp, matched, units>>

(* One instruction may touch what several comparators watch.               *)
HitWatchpoints(I) ==
  /\ ~halted /\ I # {} /\ \A i \in I : dwt[i] # Free
  /\ Stop("DWTTRAP", {dwt[i] : i \in I})
  /\ matched' = [i \in DwtComps |-> matched[i] \/ i \in I]
  /\ Unhosted /\ UNCHANGED <<c_maskints, c_step, regs, tramp, units>>

(* The function called returns to the trampoline; it may use every one of  *)
(* the registers.                                                          *)
FunctionReturns ==
  /\ ~halted /\ regs["pc"] = "arg" /\ tramp
  /\ Stop("BKPT", {}) /\ regs' = [r \in Regs |-> "call"]
  /\ Unhosted /\ UNCHANGED <<c_maskints, c_step, tramp, matched, units>>
-----------------------------------------------------------------------------
(* One access: what the target does (Effect) and what the code does next.  *)
Step == Head(todo)
X == Step.x

(* Mutant: FUNCTION is written before COMP and MASK. *)
DwtArmFunctionFirst(i) ==
  <<S("function", <<i, op.x>>), S("comp", <<i, op.x>>), S("reply", TRUE)>>

DwtArm(i) == <<S("comp", <<i, op.x>>), S("function", <<i, op.x>>), S("reply", TRUE)>>

Effect ==
  /\ CASE Step.k = "dhcsr" -> /\ c_halt' = X[1] /\ c_maskints' = X[2] /\ c_step' = X[3]
                              /\ halted' = (halted /\ X[1])
       [] OTHER -> UNCHANGED run
  /\ regs' = CASE Step.k = "arg" -> [regs EXCEPT ![X] = "arg"]
               [] Step.k = "restore" -> [regs EXCEPT ![X] = saved[X]]
               [] OTHER -> regs
  /\ tramp' = (tramp \/ Step.k = "tramp")
  /\ dfsr' = IF Step.k = "clrdfsr" THEN dfsr \ X ELSE dfsr
  /\ fp_on' = (fp_on \/ Step.k = "fpctrl")
  /\ fp' = IF Step.k = "fpwrite" THEN [fp EXCEPT ![X[1]] = X[2]] ELSE fp
  /\ half' = IF Step.k = "comp" THEN [half EXCEPT ![X[1]] = X[2]] ELSE half
  /\ dwt' = IF Step.k = "function" THEN [dwt EXCEPT ![X[1]] = X[2]] ELSE dwt
  /\ matched' = IF Step.k \in {"dwtscan", "dwtfind", "match"} /\ X \in DwtComps
               THEN [matched EXCEPT ![X] = FALSE] ELSE matched

Return(r, v) == res' = r /\ reply' = v /\ todo' = <<>> /\ UNCHANGED <<free, saved>>
Go(t) == todo' = t \o Tail(todo) /\ UNCHANGED <<free, saved, res, reply>>

(* Mutant: the scan takes the first free comparator without looking on. *)
FpScanGreedy ==
  IF X > NumFp THEN Return("Ok", {FALSE})
  ELSE IF fp[X] = op.x THEN Return("Ok", {TRUE})
  ELSE IF fp[X] = Free THEN Go(<<S("fpwrite", <<X, op.x>>), S("reply", TRUE)>>)
  ELSE Go(<<S("fpscan", X + 1)>>)

(* hw_breakpoint_set: all comparators are read before one is taken.        *)
FpScan ==
  IF X > NumFp
  THEN IF free = 0 THEN Return("Ok", {FALSE})
       ELSE Go(<<S("fpwrite", <<free, op.x>>), S("reply", TRUE)>>)
  ELSE IF fp[X] = op.x THEN Return("Ok", {TRUE})
  ELSE /\ todo' = <<S("fpscan", X + 1)>> \o Tail(todo)
       /\ free' = IF free = 0 /\ fp[X] = Free THEN X ELSE free
       /\ UNCHANGED <<saved, res, reply>>

FpFind ==
  IF X > NumFp THEN Return("Ok", {FALSE})
  ELSE IF fp[X] = op.x THEN Go(<<S("fpwrite", <<X, Free>>), S("reply", TRUE)>>)
  ELSE Go(<<S("fpfind", X + 1)>>)

DwtScan ==
  IF X > NumDwt THEN Return("Ok", {FALSE})
  ELSE IF dwt[X] = Free THEN Go(DwtArm(X)) ELSE Go(<<S("dwtscan", X + 1)>>)

DwtFind ==
  IF X > NumDwt THEN Return("Ok", {FALSE})
  ELSE IF dwt[X] # Free /\ dwt[X] = op.x /\ half[X] = op.x
  THEN Go(<<S("function", <<X, Free>>), S("reply", TRUE)>>)
  ELSE Go(<<S("dwtfind", X + 1)>>)

(* halt_reason: DFSR is cleared before it is decoded, watchpoints first.   *)
Decode(d) ==
  IF "DWTTRAP" \in d THEN Go(<<S("match", 1)>>)
  ELSE Return("Ok", IF "BKPT" \in d THEN {"BKPT"} ELSE IF "HALTED" \in d THEN {"HALTED"} ELSE {})

(* Mutant: the first armed comparator is taken for the one that matched. *)
FindMatchArmed ==
  IF X > NumDwt THEN Return("Ok", {"DWTTRAP"})
  ELSE IF dwt[X] # Free THEN Return("Ok", {"DWTTRAP", half[X]})
  ELSE Go(<<S("match", X + 1)>>)

FindMatch ==
  IF X > NumDwt THEN Return("Ok", {"DWTTRAP"})
  ELSE IF matched[X] THEN Return("Ok", {"DWTTRAP", half[X]})
  ELSE Go(<<S("match", X + 1)>>)

Poll(again, timeout) ==
  IF halted THEN Go(<<>>) ELSE IF X > 1 THEN again ELSE timeout

Proceed ==
  CASE Step.k = "save" -> /\ saved' = [saved EXCEPT ![X] = regs[X]] /\ todo' = Tail(todo)
                          /\ UNCHANGED <<free, res, reply>>
    [] Step.k = "wait" -> Poll(Go(<<Wait(X - 1)>>), Return("Timeout", {}))
    [] Step.k = "callwait" ->
         Poll(Go(<<S("callwait", X - 1)>>),
              /\ todo' = [i \in 1 .. Len(todo) - 1 |->
                            IF todo[i + 1].k = "waited" THEN S("expired", 0) ELSE todo[i + 1]]
              /\ UNCHANGED <<free, saved, res, reply>>)
    [] Step.k = "fpscan" -> FpScan
    [] Step.k = "fpfind" -> FpFind
    [] Step.k = "dwtscan" -> DwtScan
    [] Step.k = "dwtfind" -> DwtFind
    [] Step.k = "dfsr" -> Go(<<S("clrdfsr", dfsr)>>)
    [] Step.k = "clrdfsr" -> Decode(X)
    [] Step.k = "match" -> FindMatch
    [] OTHER -> Go(<<>>)

Hosted == Step.k \in {"waited", "expired", "reply"}    \* no access
Pending == res = "Busy" /\ todo # <<>>
OpVars == <<op, ops, regs0, asked>>

(* When the core starts, nothing has stopped it yet; left is what DFSR and *)
(* the MATCHED bits still hold of the stops before.                        *)
Held == dfsr \cup {half[i] : i \in {j \in DwtComps : matched[j]}}
Restart ==
  /\ why' = IF halted /\ ~halted' THEN {} ELSE why
  /\ left' = IF halted /\ ~halted' THEN Held ELSE left

Access ==
  /\ Pending /\ ~Hosted
  /\ Effect /\ Proceed /\ Restart
  /\ UNCHANGED <<OpVars, errs>>

(* The access fails, and whether the target made it is not known. The wait *)
(* of call_function keeps its error until the core is halted again.        *)
AccessFails ==
  /\ Pending /\ ~Hosted /\ errs < MaxErrs /\ errs' = errs + 1
  /\ Effect \/ UNCHANGED target
  /\ Restart
  /\ IF Step.k = "callwait"
     THEN /\ todo' = [i \in 1 .. Len(todo) - 1 |->
                        IF todo[i + 1].k = "waited" THEN S("expired", 0) ELSE todo[i + 1]]
          /\ UNCHANGED <<free, saved, res, reply>>
     ELSE Return("Err", {})
  /\ UNCHANGED OpVars

Local ==
  /\ Pending /\ Hosted
  /\ CASE Step.k = "waited" -> Go(<<>>)
       [] Step.k = "expired" -> Return("Timeout", {})
       [] OTHER -> Return("Ok", {X})
  /\ UNCHANGED <<target, OpVars, errs, reasons>>

Finish ==
  /\ res = "Busy" /\ todo = <<>>
  /\ Return("Ok", {})
  /\ UNCHANGED <<target, op, history>>

Core == TakeHalt \/ HitBreakpoint \/ (\E I \in SUBSET DwtComps : HitWatchpoints(I)) \/ FunctionReturns
Next == (\E o \in Operations : Request(o)) \/ Access \/ AccessFails \/ Local \/ Finish \/ Core

Spec == Init /\ [][Next]_vars
-----------------------------------------------------------------------------
(* The types of the variables.                                             *)
TypeOK ==
  /\ halted \in BOOLEAN /\ c_halt \in BOOLEAN /\ c_maskints \in BOOLEAN /\ c_step \in BOOLEAN
  /\ regs \in [Regs -> {"user", "arg", "call"}] /\ saved \in [Regs -> {"user", "arg", "call"}]
  /\ tramp \in BOOLEAN /\ fp_on \in BOOLEAN
  /\ dfsr \subseteq Causes
  /\ why \subseteq Causes \cup Watches /\ left \subseteq Causes \cup Watches \cup {Free}
  /\ fp \in [FpComps -> Breakable \cup {Free}]
  /\ dwt \in [DwtComps -> Watches \cup {Free}] /\ half \in [DwtComps -> Watches \cup {Free}]
  /\ matched \in [DwtComps -> BOOLEAN] /\ free \in 0 .. NumFp
  /\ op \in Operations /\ res \in {"Idle", "Busy", "Ok", "Err", "Timeout"}
  /\ ops \in 0 .. MaxOps /\ errs \in 0 .. MaxErrs

(* call_function "The registers it uses (r0-r3, sp, lr, pc, xPSR) are      *)
(* saved and restored": a call that returns Ok leaves every register as it *)
(* was, the core halted and its interrupts unmasked, wherever the core     *)
(* stopped meanwhile.                                                      *)
CallTransparent ==
  op.name = "call" /\ res = "Ok" => regs = regs0 /\ halted /\ ~c_maskints

(* A breakpoint reported set is armed; one reported cleared is in no       *)
(* comparator at all, also when an access that failed had hidden that it   *)
(* was written, and the host has set it again.                             *)
ReplyIsArmed ==
  res = "Ok" => /\ op.name = "break" /\ reply = {TRUE} => fp_on /\ \E i \in FpComps : fp[i] = op.x
                /\ op.name = "unbreak" => \A i \in FpComps : fp[i] # op.x
                /\ op.name = "clear" => /\ \A i \in FpComps : fp[i] = Free
                                        /\ \A i \in DwtComps : dwt[i] = Free

(* A comparator that can fire has the address and mask of a watchpoint     *)
(* that was asked for, whichever of the writes that arm it failed.         *)
WatchArmedWhole ==
  \A i \in DwtComps : dwt[i] # Free => half[i] = dwt[i] /\ dwt[i] \in asked

(* halt_reason "Decode (and clear) why the core halted. For a watchpoint   *)
(* stop, the matched comparator supplies the data address and access       *)
(* kind": every part of the reason reported, the cause and the watchpoint, *)
(* is of this stop, or it is one that DFSR or a MATCHED bit still held     *)
(* when the core was last started, an earlier stop whose reason was not    *)
(* read to the end. An armed comparator that did not match is never named, *)
(* nor a stop whose reason has been read and cleared.                      *)
ReasonHeld == op.name = "reason" /\ res = "Ok" => reply \subseteq why \cup left
=============================================================================
