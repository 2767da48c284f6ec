---------------------------- MODULE CmsisDapUsb ----------------------------
(***************************************************************************)
(* The USB side of the probe: CmsisDap of rust-dap/src/usb.rs, driven by   *)
(* the USB interrupt and the dap_process task of the board's RTIC          *)
(* application (boards/rpi_pico/src/main.rs), with a host that sends one   *)
(* request at a time (Packet Count = 1), may be killed, and may reset the  *)
(* bus.                                                                    *)
(*                                                                         *)
(* A request packet is the sequence of its commands, a command the size of *)
(* its response and whether it ends the packet. A response is abstracted   *)
(* to <<request, command>>, the numbers of what it answers.                *)
(***************************************************************************)
EXTENDS Naturals, Sequences, SequencesExt

CONSTANTS
  Requests,    \* the request packets of the host: sequences of Command
  MaxPacket,   \* MAX_PACKET_SIZE
  MaxSent,     \* bound: requests the host sends
  MaxKills,    \* bound: times the requester is killed before it has its answer
  MaxResets    \* bound: USB bus resets

Command == [size : 1 .. MaxPacket, stops : BOOLEAN]

ASSUME RequestsAssumption == Requests \subseteq Seq(Command) \ {<<>>}
ASSUME SizesAssumption == MaxPacket \in Nat \ {0}
ASSUME BoundsAssumption == MaxSent \in Nat /\ MaxKills \in Nat /\ MaxResets \in Nat

VARIABLES
  sent,      \* host: requests sent so far; the last is request number sent
  waiting,   \* host: the requester waits for its answer
  have,      \* host: responses read since that request was sent
  log,       \* host: every response read, in order
  session,   \* host: the first request of each bus session
  kills,     \* host: requesters killed
  outEp,     \* OUT endpoint buffer: a request, or None
  inEp,      \* IN endpoint buffer: a packet of responses, or None
  inDone,    \* an IN packet was read and the interrupt not handled yet
  busReset,  \* a bus reset was seen and the interrupt not handled yet
  pending,   \* pending_out_packet
  nextIn,    \* next_in_packet up to next_in_packet_size
  task,      \* dap_process
  done,      \* process(): commands executed, bytes_processed
  acc,       \* process(): the responses in next_in_packet
  length     \* process(): response_packet_length, the bytes they take

hostVars == <<sent, waiting, have, log, session, kills>>
endpoints == <<outEp, inEp, inDone, busReset>>
dap == <<pending, nextIn, done, acc, length>>
vars == <<hostVars, endpoints, dap, task>>

(* A buffer for one packet is a sequence of at most one. *)
None == <<>>
Some(p) == <<p>>
Packet(id, cmds) == [id |-> id, cmds |-> cmds]

(* The number of responses a request gets: a command that is unknown or    *)
(* fails ends its packet.                                                  *)
Answers(cmds) ==
  LET ends == {i \in 1 .. Len(cmds) : cmds[i].stops}
  IN  IF ends = {} THEN Len(cmds) ELSE CHOOSE i \in ends : \A j \in ends : i <= j
-----------------------------------------------------------------------------
(* The host. *)

Init ==
  /\ sent = 0 /\ waiting = 0 /\ have = 0 /\ log = <<>> /\ session = <<1>> /\ kills = 0
  /\ outEp = None /\ inEp = None /\ inDone = FALSE /\ busReset = FALSE
  /\ pending = None /\ nextIn = None /\ done = 0 /\ acc = <<>> /\ length = 0
  /\ task = "free"

(* A requester sends a request and waits for its responses. *)
HostSend ==
  /\ waiting = 0 /\ outEp = None /\ ~busReset
  /\ sent < MaxSent
  /\ \E cmds \in Requests :
       /\ outEp' = Some(Packet(sent + 1, cmds))
       /\ waiting' = Answers(cmds)
  /\ sent' = sent + 1
  /\ have' = 0
  /\ UNCHANGED <<log, session, kills, inEp, inDone, busReset, dap, task>>

(* It reads a packet; what it reads it takes for its answer. *)
HostRead ==
  /\ waiting > 0 /\ inEp # None /\ ~busReset
  /\ log' = log \o inEp[1]
  /\ have' = have + Len(inEp[1])
  /\ waiting' = IF have' >= waiting THEN 0 ELSE waiting
  /\ inEp' = None
  /\ inDone' = TRUE
  /\ UNCHANGED <<sent, session, kills, outEp, busReset, dap, task>>

(* The requester is killed: nobody reads the answer it waited for. *)
HostKill ==
  /\ waiting > 0 /\ kills < MaxKills
  /\ kills' = kills + 1
  /\ waiting' = 0
  /\ UNCHANGED <<sent, have, log, session, endpoints, dap, task>>

(* A bus reset ends the session. *)
HostReset ==
  /\ ~busReset /\ Len(session) <= MaxResets
  /\ busReset' = TRUE
  /\ waiting' = 0
  /\ session' = Append(session, sent + 1)
  /\ UNCHANGED <<sent, have, log, kills, outEp, inEp, inDone, dap, task>>
-----------------------------------------------------------------------------
(* usb.rs *)

(* Mutant of Send: the packet counts as sent when the endpoint is busy. *)
SendLossy(p) ==
  /\ inEp' = IF inEp = None THEN p ELSE inEp
  /\ nextIn' = None

(* send_next_packet with p buffered: WouldBlock keeps it. *)
Send(p) ==
  IF p # None /\ inEp = None
  THEN inEp' = p /\ nextIn' = None
  ELSE inEp' = inEp /\ nextIn' = p

(* process_out_packet, the part of it that can be named before the step. *)
Received == IF pending = None THEN outEp ELSE pending
Receive ==
  /\ pending' = Received
  /\ outEp' = IF pending = None THEN None ELSE outEp

(* A new request means that the buffered response will never be read. *)
DropUnread == IF Received # None THEN None ELSE nextIn

(* process() up to its loop: nothing to do but retry a buffered response,  *)
(* or a request to execute.                                                *)
ProcessStart ==
  /\ task = "spawned"
  /\ Receive
  /\ done' = 0 /\ acc' = <<>> /\ length' = 0
  /\ IF Received = None \/ DropUnread # None
     THEN Send(DropUnread) /\ task' = "finishing"
     ELSE nextIn' = DropUnread /\ inEp' = inEp /\ task' = "running"
  /\ UNCHANGED <<hostVars, inDone, busReset>>

(* "Flush when the accumulated responses exceed the packet size." *)
Full(size) == MaxPacket <= length + size

(* The loop body: execute a command and append its response, behind a      *)
(* flush when it does not fit. A flush that would block loses its packet.  *)
ProcessCommand ==
  /\ task = "running" /\ done < Len(pending[1].cmds)
  /\ LET c == pending[1].cmds[done + 1]
         r == <<pending[1].id, done + 1>>
     IN  /\ IF Full(c.size)
            THEN Send(Some(acc)) /\ acc' = <<r>> /\ length' = c.size
            ELSE acc' = Append(acc, r) /\ length' = length + c.size /\ UNCHANGED <<inEp, nextIn>>
         /\ done' = IF c.stops THEN Len(pending[1].cmds) ELSE done + 1
  /\ UNCHANGED <<hostVars, outEp, inDone, busReset, pending, task>>

(* Mutant of ProcessEnd: the request stays pending. *)
ProcessEndAgain ==
  /\ task = "running" /\ done = Len(pending[1].cmds)
  /\ Send(Some(acc))
  /\ task' = "finishing"
  /\ UNCHANGED <<hostVars, outEp, inDone, busReset, pending, done, acc, length>>

(* The end of process(): the request is done with, its responses go out or *)
(* wait for the IN endpoint.                                               *)
ProcessEnd ==
  /\ task = "running" /\ done = Len(pending[1].cmds)
  /\ pending' = None
  /\ Send(Some(acc))
  /\ task' = "finishing"
  /\ done' = 0 /\ acc' = <<>> /\ length' = 0
  /\ UNCHANGED <<hostVars, outEp, inDone, busReset>>

(* dap_process has unlocked usb_dap, and now its future completes: until   *)
(* then a spawn fails.                                                     *)
TaskEnd ==
  /\ task = "finishing"
  /\ task' = "free"
  /\ UNCHANGED <<hostVars, endpoints, dap>>
-----------------------------------------------------------------------------
(* usbctrl_irq *)

DapEvent == outEp # None \/ inDone \/ busReset

(* Mutant of Reset: the buffered response survives. *)
ResetPendingOnly ==
  /\ pending' = None
  /\ UNCHANGED nextIn

(* CmsisDap::reset *)
Reset ==
  /\ pending' = None
  /\ nextIn' = None

(* usb_bus.poll sees the bus reset, and reports nothing to process. *)
IrqReset ==
  /\ busReset
  /\ Reset
  /\ busReset' = FALSE
  /\ outEp' = None /\ inEp' = None /\ inDone' = FALSE
  /\ UNCHANGED <<hostVars, done, acc, length, task>>

(* poll calls endpoint_in_complete and endpoint_out, then dap_process is   *)
(* spawned. The interrupt may also be about the serial port alone.         *)
IrqPoll ==
  /\ ~busReset
  /\ Receive
  /\ IF inDone THEN Send(nextIn) ELSE UNCHANGED <<inEp, nextIn>>
  /\ inDone' = FALSE
  /\ task' = IF task = "free" THEN "spawned" ELSE task
  /\ UNCHANGED <<hostVars, busReset, done, acc, length>>

(* dap_process holds the lock of usb_dap while it runs process(), which    *)
(* keeps the interrupt out; it preempts the task everywhere else.          *)
UsbctrlIrq ==
  /\ task # "running"
  /\ IrqReset \/ IrqPoll

-----------------------------------------------------------------------------
Host == HostSend \/ HostRead \/ HostKill \/ HostReset
DapProcess == ProcessStart \/ ProcessCommand \/ ProcessEnd \/ TaskEnd

Next == Host \/ DapProcess \/ UsbctrlIrq

Spec == Init /\ [][Next]_vars

(* The interrupt is taken while a DAP event asks for it, the task runs     *)
(* while it is spawned, and a host that waits reads what there is.         *)
Fairness ==
  /\ WF_vars(UsbctrlIrq /\ DapEvent)
  /\ WF_vars(DapProcess)
  /\ WF_vars(HostRead)

FairSpec == Spec /\ Fairness
-----------------------------------------------------------------------------
Response == (1 .. MaxSent) \X (Nat \ {0})
OneRequest == {Some(p) : p \in [id : 1 .. sent, cmds : Requests]}
OneAnswer(p) == p = None \/ (Len(p) = 1 /\ p[1] \in Seq(Response))

(* The type of every variable. What is in the packet under construction    *)
(* fits into it: the copy into next_in_packet never goes past its end.     *)
TypeOK ==
  /\ sent \in 0 .. MaxSent /\ waiting \in Nat /\ have \in Nat
  /\ log \in Seq(Response) /\ session \in Seq(1 .. MaxSent + 1) /\ kills \in 0 .. MaxKills
  /\ outEp \in OneRequest \cup {None} /\ pending \in OneRequest \cup {None}
  /\ OneAnswer(inEp) /\ OneAnswer(nextIn)
  /\ inDone \in BOOLEAN /\ busReset \in BOOLEAN
  /\ task \in {"free", "spawned", "running", "finishing"}
  /\ task = "running" => pending # None
  /\ acc \in Seq(Response) /\ done \in Nat /\ length \in Nat
  /\ task = "running" => done <= Len(pending[1].cmds) /\ length <= MaxPacket

(* No response is read twice, and none after a later one, whoever was      *)
(* killed and however the interrupt and the task interleave.               *)
DeliveredInOrder ==
  \A i, j \in 1 .. Len(log) :
    i < j => \/ log[i][1] < log[j][1]
             \/ log[i][1] = log[j][1] /\ log[i][2] < log[j][2]

(* "any buffered request or response is now stale and must not leak into   *)
(* the next one" (CmsisDap::reset): a response read in a session answers a *)
(* request of that session.                                                *)
NothingLeaksAcrossReset ==
  [][HostRead => \A i \in 1 .. Len(inEp[1]) : inEp[1][i][1] >= Last(session)]_vars

(* What a requester still waits for is somewhere in the probe: its request *)
(* or the rest of its answer. Behind a response that a killed requester    *)
(* left in the endpoint, an answer may lose the packet it begins with (the *)
(* flush blocks), but never its end.                                       *)
AnswerNotLost ==
  waiting > 0 /\ ~busReset =>
    \/ outEp # None \/ pending # None \/ nextIn # None \/ inEp # None
    \/ kills > 0 /\ log # <<>> /\ Last(log) = <<sent, waiting>>

(* What does not fit into the first packet of an answer fits into a second *)
(* one: total is the running sum of the sizes of its responses.            *)
FitsTwoPackets(cmds) ==
  LET n == Answers(cmds) IN
  \E total \in [0 .. n -> 0 .. n * MaxPacket] :
    /\ total[0] = 0
    /\ \A i \in 1 .. n : cmds[i].size < MaxPacket /\ total[i] = total[i - 1] + cmds[i].size
    /\ \A i, j \in 1 .. n : i <= j /\ MaxPacket <= total[i] => total[j] - total[i - 1] < MaxPacket

(* The probe keeps the promise of DapSession to a host that reads every    *)
(* answer before it asks again: until a requester is killed, each step is  *)
(* one of DapSession.                                                      *)
Owed == [i \in 1 .. (IF waiting = 0 THEN 0 ELSE waiting - have) |-> <<sent, have + i>>]
Session == INSTANCE DapSession WITH
  MaxResponses <- Max({Len(cmds) : cmds \in Requests}),
  asked <- sent,
  owed  <- Owed,
  read  <- log
SessionKept ==
  /\ Session!SessionInit
  /\ [][kills' > 0 \/ Session!SessionNext]_(Session!sessionVars)

(* A request that arrives while dap_process is not scheduled, and no other *)
(* waits for it, is executed, unless the bus is reset.                     *)
IdleRequestServed ==
  \A n \in 1 .. MaxSent :
    (outEp # None /\ outEp[1].id = n /\ pending = None /\ task = "free") ~>
      (outEp = None /\ (pending = None \/ pending[1].id # n))

(* A requester that waits is answered, or killed, or the bus is reset: "a  *)
(* fresh request ... serve the new request" (usb.rs), at any time.         *)
RequestServed == waiting > 0 ~> waiting = 0
=============================================================================
