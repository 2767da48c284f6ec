----------------------------- MODULE GdbTarget -----------------------------
(***************************************************************************)
(* RpTarget of boards/rpi_pico/src/bin/gdb_server.rs: run control of the   *)
(* cores of a target, its breakpoints and watchpoints, and the session     *)
(* loop around them. The server reaches one core at a time over a link     *)
(* that may fail, before or after the target has done what was asked;      *)
(* meanwhile the cores that run stop on their own.                         *)
(*                                                                         *)
(* pc is where the server is and core the core it is at. What one call of  *)
(* arm-debug does to a core is one step here, CoreDebug has its accesses.  *)
(***************************************************************************)
EXTENDS Naturals, Sequences, FiniteSets

CONSTANTS
  NumCores,   \* family.num_cores()
  Ram,        \* code addresses that are patched
  Rom,        \* code addresses below 0x2000_0000: an FPB comparator each
  Watches,    \* watchpoints
  FpbComps,   \* FPB comparators of a core, for addresses in ROM
  DwtComps,   \* DWT comparators of a core, for watchpoints
  TableSize,  \* breakpoints: heapless::Vec<SwBp, 8>
  MaxOps,     \* bound: requests of the host
  MaxErrs     \* bound: link operations that fail

(* The families have one core (nRF52) or two.                              *)
ASSUME SizesAssumption ==
  /\ NumCores \in 1 .. 2 /\ {FpbComps, DwtComps, TableSize} \subseteq Nat
  /\ MaxOps \in Nat /\ MaxErrs \in Nat

Cores == 0 .. NumCores - 1
NoCore == NumCores
Items == Rom \cup Watches
Elsewhere == "elsewhere"

ASSUME AddressesAssumption ==
  /\ Ram \cap Rom = {} /\ Ram \cap Watches = {} /\ Rom \cap Watches = {}
  /\ Elsewhere \notin Ram \cup Rom

NoReq == [z |-> 0, insert |-> FALSE, x |-> Elsewhere]
NoReply == [kind |-> "none", core |-> NoCore]

VARIABLES
  halted, at, dfsr, cmp,           \* per core: S_HALT, its pc, halt causes, comparators
  again,                           \* per core: more comparators with a watchpoint in cmp
  ram,                             \* what the target's memory holds at Ram
  running, stepped, actions, lock, \* RpTarget
  breakpoints,                     \* RpTarget: software breakpoints
  pc, core, who, why, req, any,    \* the server
  ctrlC,                           \* the host has sent 0x03
  reply,                           \* the last answer
  held,                            \* history: requests in force, as the host was told
  tainted,                         \* history: what a failure, a sharing or a session end left open
  lost,                            \* history: cores a failed operation may have left running
  ops, errs

target == <<halted, at, dfsr, cmp, again, ram>>
rp == <<running, stepped, actions, lock, breakpoints>>
server == <<pc, core, who, why, req, any>>
history == <<held, tainted, lost>>
vars == <<target, rp, server, ctrlC, reply, history, ops, errs>>

TypeOK ==
  /\ halted \in [Cores -> BOOLEAN] /\ at \in [Cores -> Ram \cup Rom \cup {Elsewhere}]
  /\ dfsr \in [Cores -> SUBSET {"HALTED", "BKPT", "DWTTRAP"}]
  /\ cmp \in [Cores -> SUBSET Items] /\ ram \in [Ram -> {"code", "BKPT"}]
  /\ running \in [Cores -> BOOLEAN] /\ stepped \in Cores \cup {NoCore}
  /\ breakpoints \in Seq([addr : Ram \cup Rom, orig : {"code", "BKPT", "Fpb"}])
  /\ Len(breakpoints) <= TableSize
  /\ core \in Cores /\ who \in Cores \cup {NoCore}

Init ==
  /\ halted = [c \in Cores |-> TRUE] /\ at = [c \in Cores |-> Elsewhere]
  /\ dfsr = [c \in Cores |-> {}] /\ ram = [a \in Ram |-> "code"]
  /\ cmp = [c \in Cores |-> {}] /\ again = [c \in Cores |-> {}]
  /\ running = [c \in Cores |-> FALSE] /\ stepped = NoCore
  /\ actions = [c \in Cores |-> "Default"] /\ lock = FALSE /\ breakpoints = <<>>
  /\ pc = "idle" /\ core = 0 /\ who = NoCore /\ why = "stop" /\ req = NoReq /\ any = FALSE
  /\ ctrlC = FALSE /\ reply = NoReply
  /\ held = {} /\ tainted = {} /\ lost = {} /\ ops = 0 /\ errs = 0
-----------------------------------------------------------------------------
(* The cores.                                                              *)
Stop(c, where, cause) ==
  /\ halted' = [halted EXCEPT ![c] = TRUE] /\ at' = [at EXCEPT ![c] = where]
  /\ dfsr' = [dfsr EXCEPT ![c] = @ \cup {cause}]

Trap(c) ==
  /\ ~halted[c]
  /\ \/ \E a \in (cmp[c] \cap Rom) \cup {r \in Ram : ram[r] = "BKPT"} : Stop(c, a, "BKPT")
     \/ cmp[c] \cap Watches # {} /\ Stop(c, Elsewhere, "DWTTRAP")
  /\ UNCHANGED <<cmp, again, ram, rp, server, ctrlC, reply, history, ops, errs>>
-----------------------------------------------------------------------------
(* The link: an operation on a core that fails has been done or not.       *)
Ok == UNCHANGED errs
Fails == errs < MaxErrs /\ errs' = errs + 1

Keep == UNCHANGED target
At(p, c) == pc' = p /\ core' = c
HasNext == core + 1 < NumCores

(* The locals of a call end with it.                                       *)
Done(r) ==
  /\ At("idle", 0) /\ who' = NoCore /\ why' = "stop" /\ req' = NoReq /\ any' = FALSE
  /\ reply' = r

(* What the host is told of its request: it holds what was answered OK and *)
(* not removed since.                                                      *)
Answer(r) ==
  /\ Done([kind |-> r, core |-> NoCore])
  /\ held' = IF r # "ok" THEN held
             ELSE IF req.insert THEN held \cup {<<req.z, req.x>>} ELSE held \ {<<req.z, req.x>>}
  /\ tainted' = IF r = "err" \/ {<<0, req.x>>, <<1, req.x>>} \subseteq held'
                THEN tainted \cup {req.x} ELSE tainted
  /\ UNCHANGED lost

Quiet == UNCHANGED <<rp, ctrlC, ops>>
-----------------------------------------------------------------------------
(* Comparators: fpb_set_both and fpb_clear_both, and the same loops in     *)
(* add_hw_watchpoint and remove_hw_watchpoint.                             *)
Copies(c, x) == {p \in again[c] : p[1] = x}
Fpbs(c) == Cardinality(cmp[c] \cap Rom)
Dwts(c) == Cardinality(cmp[c] \cap Watches) + Cardinality(again[c])

(* An address that is armed needs no comparator; a watchpoint takes one    *)
(* whether it is armed or not.                                             *)
Room(c, x) == IF x \in Rom THEN x \in cmp[c] \/ Fpbs(c) < FpbComps ELSE Dwts(c) < DwtComps

Arm(c, x) ==
  /\ UNCHANGED <<halted, at, dfsr, ram>>
  /\ IF x \in Watches \cap cmp[c]
     THEN again' = [again EXCEPT ![c] = @ \cup {<<x, Cardinality(Copies(c, x))>>}] /\ UNCHANGED cmp
     ELSE cmp' = [cmp EXCEPT ![c] = @ \cup {x}] /\ UNCHANGED again

(* The first comparator that matches: another one leaves it armed.         *)
Disarm(c, x) ==
  /\ UNCHANGED <<halted, at, dfsr, ram>>
  /\ \/ /\ Copies(c, x) = {}
        /\ cmp' = [cmp EXCEPT ![c] = @ \ {x}] /\ UNCHANGED again
     \/ /\ Copies(c, x) # {}
        /\ again' = [again EXCEPT ![c] = @ \ {<<x, Cardinality(Copies(c, x)) - 1>>}] /\ UNCHANGED cmp

Saved(a, w) == breakpoints' = Append(breakpoints, [addr |-> a, orig |-> w])
IsPromoted == req.z = 0

(* Mutant: a comparator that is refused on the second core stays armed on  *)
(* the first.                                                              *)
RefusedKept == /\ Ok /\ Keep /\ Quiet /\ Answer("no")

Refused ==
  /\ Ok /\ Keep /\ Quiet
  /\ IF core = 1 THEN At("rollback", 0) /\ UNCHANGED <<who, why, req, any, reply, history>>
     ELSE Answer("no")

SetBoth ==
  /\ pc = "set"
  /\ \/ /\ Room(core, req.x) /\ Arm(core, req.x) /\ Ok /\ UNCHANGED <<ctrlC, ops>>
        /\ IF HasNext
           THEN At("set", core + 1) /\ UNCHANGED <<rp, who, why, req, any, reply, history>>
           ELSE /\ Answer("ok") /\ UNCHANGED <<running, stepped, actions, lock>>
                /\ IF IsPromoted THEN Saved(req.x, "Fpb") ELSE UNCHANGED breakpoints
     \/ ~Room(core, req.x) /\ Refused
     \/ /\ Fails /\ Answer("err") /\ Quiet
        /\ \/ Keep
           \/ Room(core, req.x) /\ Arm(core, req.x)

RollBack ==
  /\ pc = "rollback" /\ Quiet
  /\ \/ Ok /\ Disarm(0, req.x) /\ Answer("no")
     \/ Fails /\ (Keep \/ Disarm(0, req.x))
        /\ Done([kind |-> "no", core |-> NoCore])
        /\ tainted' = tainted \cup {req.x} /\ UNCHANGED <<held, lost>>

Found == any \/ req.x \in cmp[core]

ClearBoth ==
  /\ pc = "clear" /\ Quiet
  /\ \/ /\ Ok /\ Disarm(core, req.x)
        /\ IF HasNext
           THEN At("clear", core + 1) /\ any' = Found /\ UNCHANGED <<who, why, req, reply, history>>
           ELSE Answer(IF Found THEN "ok" ELSE "no")
     \/ Fails /\ Answer("err") /\ (Keep \/ Disarm(core, req.x))
-----------------------------------------------------------------------------
(* Software breakpoints.                                                   *)
Patch(a, w) == ram' = [ram EXCEPT ![a] = w] /\ UNCHANGED <<halted, at, dfsr, cmp, again>>

AddRam ==
  /\ pc = "patch" /\ UNCHANGED <<ctrlC, ops, running, stepped, actions, lock>>
  /\ \/ Ok /\ Patch(req.x, "BKPT") /\ Saved(req.x, ram[req.x]) /\ Answer("ok")
     \/ Fails /\ (Keep \/ Patch(req.x, "BKPT")) /\ UNCHANGED breakpoints /\ Answer("err")

Positions(a) == {i \in DOMAIN breakpoints : breakpoints[i].addr = a}
First(a) == CHOOSE i \in Positions(a) : \A j \in Positions(a) : i <= j

(* Mutant: the last entry is not moved into the gap.                       *)
SwapRemoveLast(i) == SubSeq(breakpoints, 1, Len(breakpoints) - 1)

SwapRemove(i) ==
  SubSeq([breakpoints EXCEPT ![i] = breakpoints[Len(breakpoints)]], 1, Len(breakpoints) - 1)

(* The entry is gone before the target has been asked.                     *)
RemoveSw ==
  /\ pc = "remove"
  /\ \/ /\ Positions(req.x) = {} /\ Ok /\ Keep /\ Quiet /\ Answer("no")
     \/ /\ Positions(req.x) # {} /\ breakpoints' = SwapRemove(First(req.x))
        /\ UNCHANGED <<ctrlC, ops, running, stepped, actions, lock>>
        /\ LET old == breakpoints[First(req.x)].orig IN
           \/ old = "Fpb" /\ Ok /\ Keep /\ At("clear", 0) /\ UNCHANGED <<who, why, req, any, reply, history>>
           \/ old # "Fpb" /\ Ok /\ Patch(req.x, old) /\ Answer("ok")
           \/ old # "Fpb" /\ Fails /\ (Keep \/ Patch(req.x, old)) /\ Answer("err")

Breakable(x) == x \notin Ram

IsFull == Len(breakpoints) >= TableSize

(* Where a Z or z packet starts.                                           *)
Entry(r) == CASE r.z = 0 /\ r.insert -> IF IsFull THEN "refuse" ELSE IF r.x \in Ram THEN "patch" ELSE "set"
              [] r.z = 0 /\ ~r.insert -> "remove"
              [] OTHER -> IF ~Breakable(r.x) THEN "refuse" ELSE IF r.insert THEN "set" ELSE "clear"

Requests == [z : {0}, insert : BOOLEAN, x : Ram \cup Rom] \cup [z : {1}, insert : BOOLEAN, x : Ram \cup Rom]
              \cup [z : {2}, insert : BOOLEAN, x : Watches]

(* The host inserts what it does not hold and removes what it holds.       *)
Request(r) ==
  /\ pc = "idle" /\ ops < MaxOps /\ ops' = ops + 1
  /\ r.insert <=> <<r.z, r.x>> \notin held
  /\ req' = r /\ At(Entry(r), 0) /\ reply' = NoReply
  /\ Ok /\ UNCHANGED <<target, rp, any, who, why, ctrlC, history>>

Refuse == pc = "refuse" /\ Ok /\ Keep /\ Quiet /\ Answer("no")
-----------------------------------------------------------------------------
(* Run control.                                                            *)
Settle == UNCHANGED <<ops, held, tainted>>
Started(c) == halted' = [halted EXCEPT ![c] = FALSE] /\ UNCHANGED <<at, dfsr, cmp, again, ram>>

(* vCont: clear_resume_actions, the actions, the scheduler lock. Nothing   *)
(* reads them again before the next vCont clears them, so that the model   *)
(* clears them as soon as resume is through.                               *)
Continue(acts, locked) ==
  /\ pc = "idle" /\ ops < MaxOps /\ ops' = ops + 1
  /\ actions' = acts /\ lock' = locked /\ stepped' = NoCore
  /\ At("resume", 0) /\ reply' = NoReply
  /\ Ok /\ UNCHANGED <<target, running, breakpoints, who, why, req, any, ctrlC, history>>

(* What resume does for one core. A core under the scheduler lock without  *)
(* an action of its own stays halted.                                      *)
Act(c) == IF actions[c] # "Default" THEN actions[c] ELSE IF lock THEN "Stay" ELSE "Continue"

MayRun == lost' = lost \cup {core}

Resume ==
  /\ pc = "resume" /\ Settle /\ UNCHANGED <<breakpoints, who, why, req, any, ctrlC, reply>>
  /\ IF HasNext THEN At("resume", core + 1) /\ UNCHANGED <<actions, lock>>
     ELSE At("run", 0) /\ actions' = [c \in Cores |-> "Default"] /\ lock' = FALSE
  /\ \/ Act(core) = "Stay" /\ Ok /\ Keep /\ UNCHANGED <<running, stepped, lost>>
     \/ /\ Act(core) = "Continue" /\ UNCHANGED stepped
        /\ \/ Ok /\ Started(core) /\ running' = [running EXCEPT ![core] = TRUE] /\ UNCHANGED lost
           \/ Fails /\ (Keep \/ Started(core)) /\ UNCHANGED running /\ MayRun
     \/ /\ Act(core) = "Step" /\ UNCHANGED running
        /\ \/ /\ Ok /\ UNCHANGED <<cmp, again, ram, lost>> /\ stepped' = core
              /\ \/ Stop(core, Elsewhere, "HALTED")
                 \/ cmp[core] \cap Watches # {} /\ Stop(core, Elsewhere, "DWTTRAP")
           \/ Fails /\ (Keep \/ Started(core)) /\ MayRun /\ stepped' \in {stepped, core}

(* GdbStubStateMachine::Running: a byte from the host goes first.          *)
Interrupt == pc = "run" /\ ~ctrlC /\ ctrlC' = TRUE
             /\ UNCHANGED <<target, rp, server, reply, history, ops, errs>>

HaltFor(c, reason) == At("halt", 0) /\ who' = c /\ why' = reason

TakeByte ==
  /\ pc = "run" /\ ctrlC /\ ctrlC' = FALSE /\ HaltFor(NoCore, "interrupt")
  /\ Ok /\ UNCHANGED <<target, rp, req, any, reply, history, ops>>

PollStep ==
  /\ pc = "run" /\ ~ctrlC /\ stepped # NoCore
  /\ stepped' = NoCore /\ HaltFor(stepped, "step")
  /\ Ok /\ UNCHANGED <<target, running, actions, lock, breakpoints, req, any, ctrlC, reply, history, ops>>

(* Mutant: core 0 is not asked.                                            *)
PollRest ==
  /\ pc = "run" /\ ~ctrlC /\ stepped = NoCore /\ At("poll", IF NumCores > 1 THEN 1 ELSE 0)
  /\ Ok /\ UNCHANGED <<target, rp, who, why, req, any, ctrlC, reply, history, ops>>

Poll ==
  /\ pc = "run" /\ ~ctrlC /\ stepped = NoCore /\ At("poll", 0)
  /\ Ok /\ UNCHANGED <<target, rp, who, why, req, any, ctrlC, reply, history, ops>>

(* select_core and is_halted: a failure counts as running.                 *)
PollCore ==
  /\ pc = "poll" /\ UNCHANGED <<target, rp, req, any, ctrlC, reply, history, ops>>
  /\ \/ running[core] /\ halted[core] /\ Ok /\ HaltFor(core, "stop")
     \/ /\ \/ ~(running[core] /\ halted[core]) /\ Ok
           \/ running[core] /\ Fails
        /\ IF HasNext THEN At("poll", core + 1) ELSE At("run", 0)
        /\ UNCHANGED <<who, why>>

HaltNow(c) == IF halted[c] THEN Keep ELSE Stop(c, Elsewhere, "HALTED") /\ UNCHANGED <<cmp, again, ram>>

(* Mutant: the cores polled before the one that stopped are not halted.    *)
ExceptedBelow == why = "stop" /\ core <= who

Excepted == why = "stop" /\ core = who

HaltCore ==
  /\ pc = "halt" /\ Settle /\ UNCHANGED <<stepped, actions, lock, breakpoints, who, why, req, any, ctrlC, reply>>
  /\ IF HasNext THEN At("halt", core + 1) /\ UNCHANGED running
     ELSE At("report", 0) /\ running' = [c \in Cores |-> FALSE]
  /\ \/ (~running[core] \/ Excepted) /\ Ok /\ Keep /\ UNCHANGED lost
     \/ /\ running[core] /\ ~Excepted
        /\ \/ Ok /\ HaltNow(core) /\ lost' = lost \ {core}
           \/ Fails /\ (Keep \/ HaltNow(core)) /\ MayRun

(* Mutant: any Z0 breakpoint but a promoted one.                           *)
PromotedRam(a) == \E i \in DOMAIN breakpoints : breakpoints[i].addr = a /\ breakpoints[i].orig # "Fpb"

Promoted(a) == \E i \in DOMAIN breakpoints : breakpoints[i] = [addr |-> a, orig |-> "Fpb"]

(* stop_reason: DFSR is cleared as it is read.                             *)
Reason(c) == IF "DWTTRAP" \in dfsr[c] THEN "watch"
             ELSE IF "BKPT" \notin dfsr[c] THEN "trap"
             ELSE IF at[c] \in cmp[c] /\ ~Promoted(at[c]) THEN "hw" ELSE "sw"
ClearDfsr(c) == dfsr' = [dfsr EXCEPT ![c] = {}] /\ UNCHANGED <<halted, at, cmp, again, ram>>

(* The core's pc or its comparators cannot be read: SwBreak, as a guess.   *)
Guess == "BKPT" \in dfsr[who] /\ "DWTTRAP" \notin dfsr[who]
           /\ ClearDfsr(who) /\ Done([kind |-> "guess", core |-> who])

Report ==
  /\ pc = "report" /\ UNCHANGED <<rp, ctrlC, lost>> /\ Settle
  /\ \/ why # "stop" /\ Ok /\ Keep
        /\ Done([kind |-> why, core |-> IF why = "step" THEN who ELSE 0])
     \/ why = "stop" /\ Ok /\ ClearDfsr(who) /\ Done([kind |-> Reason(who), core |-> who])
     \/ why = "stop" /\ Fails /\ (Keep \/ ClearDfsr(who)) /\ Done([kind |-> "trap", core |-> who])
     \/ why = "stop" /\ Fails /\ Guess
-----------------------------------------------------------------------------
(* A new session, and monitor reset: the table of software breakpoints is  *)
(* kept while the comparators are cleared. After two attempts that fail,   *)
(* and for monitor reset, the target is reset: its program may reload its  *)
(* code before the cores are halted.                                       *)
Open == {breakpoints[i].addr : i \in DOMAIN breakpoints} \cup {h[2] : h \in held}

Reconnect ==
  /\ ops < MaxOps /\ ops' = ops + 1 /\ At("connect", 0) /\ reply' = NoReply
  /\ running' = [c \in Cores |-> FALSE] /\ tainted' = tainted \cup Open
  /\ ram' \in {ram, [a \in Ram |-> "code"]} /\ UNCHANGED <<halted, at, dfsr, cmp, again>>
  /\ Ok /\ UNCHANGED <<stepped, actions, lock, breakpoints, who, why, req, any, lost>>

SessionEnd ==
  /\ pc \in {"idle", "run"} /\ Reconnect /\ ctrlC' = FALSE /\ held' = {}

TargetReset == pc = "idle" /\ Reconnect /\ UNCHANGED <<ctrlC, held>>

Connect ==
  /\ pc = "connect" /\ UNCHANGED <<rp, who, why, ctrlC, reply>> /\ UNCHANGED <<req, any, ops, held, tainted, ram>>
  /\ \/ /\ core = 0 /\ Fails /\ At("idle", 0) /\ lost' = Cores /\ UNCHANGED <<halted, at, dfsr, cmp, again>>
     \/ /\ IF HasNext THEN At("connect", core + 1) ELSE At("idle", 0)
        /\ \/ /\ Ok /\ lost' = lost \ {core}
              /\ cmp' = [cmp EXCEPT ![core] = {}] /\ again' = [again EXCEPT ![core] = {}]
              /\ IF halted[core] THEN UNCHANGED <<halted, at, dfsr>> ELSE Stop(core, Elsewhere, "HALTED")
           \/ Fails /\ core > 0 /\ UNCHANGED <<halted, at, dfsr, cmp, again>> /\ MayRun

Server == SetBoth \/ RollBack \/ ClearBoth \/ AddRam \/ RemoveSw \/ Refuse \/ Resume
            \/ TakeByte \/ PollStep \/ Poll \/ PollCore \/ HaltCore \/ Report \/ Connect

Host == \/ \E r \in Requests : Request(r)
        \/ \E acts \in [Cores -> {"Default", "Continue", "Step"}], locked \in BOOLEAN : Continue(acts, locked)
        \/ Interrupt \/ SessionEnd \/ TargetReset

Next == Server \/ Host \/ \E c \in Cores : Trap(c)

Spec == Init /\ [][Next]_vars

(* idle() never waits: each turn of its loop ends.                         *)
FairSpec == Spec /\ WF_vars(Server)
-----------------------------------------------------------------------------
Settled(x) == x \notin tainted
Holds(z) == {x \in Ram \cup Items : <<z, x>> \in held}

(* All-stop: whenever the server has answered and waits for the host, no   *)
(* core runs, unless an operation on that very core has failed.            *)
AllStop == pc = "idle" => \A c \in Cores : halted[c] \/ c \in lost

(* A breakpoint or watchpoint the host holds is armed on every core, and   *)
(* one it does not hold on none: also when the other core ran out of       *)
(* comparators, or an operation on some other address failed half way.     *)
ArmedOnAll ==
  pc = "idle" => \A x \in Items, c \in Cores :
    Settled(x) => (x \in cmp[c] <=> \E z \in 0 .. 2 : x \in Holds(z))

(* The table has what the host holds as software breakpoints, whatever     *)
(* order they are removed in, and the target's code is patched there and   *)
(* nowhere else.                                                           *)
CodeRestored ==
  pc = "idle" => \A a \in Ram \cup Rom : Settled(a) =>
    /\ a \in Holds(0) <=> Positions(a) # {}
    /\ a \in Ram => (ram[a] = "BKPT" <=> a \in Holds(0))

(* A stop is reported as the kind of breakpoint the host has put there:    *)
(* a promoted Z0 breakpoint as software, although a comparator hit. Where  *)
(* the link fails as the kind is told, software is a guess.                *)
StopKind ==
  \A a \in Ram \cup Rom : reply.core \in Cores /\ at[reply.core] = a /\ Settled(a) =>
    /\ reply.kind = "sw" => a \in Holds(0)
    /\ reply.kind = "hw" => a \in Holds(1)

(* A core that has stopped, and a Ctrl-C, end the run: the host is told.   *)
StopReported ==
  (pc = "run" /\ (ctrlC \/ \E c \in Cores : running[c] /\ halted[c])) ~> pc = "idle"

(* What is kept to be restored is the program's code: add_sw_breakpoint    *)
(* says "save the original halfword and patch a Thumb BKPT". It does not   *)
(* hold once a session has ended with a breakpoint in RAM.                 *)
SavedIsOriginal == \A i \in DOMAIN breakpoints : breakpoints[i].orig # "BKPT"
=============================================================================
