----------------------------- MODULE RttBridge -----------------------------
(***************************************************************************)
(* The RTT bridge of boards/rpi_pico/src/bin/gdb_server.rs: bytes between  *)
(* two ring buffers in the RAM of a running target and a serial port of    *)
(* the host. A ring has one writer and one reader, who share it through    *)
(* WrOff and RdOff: up, the target writes and the server reads; down, the  *)
(* other way round. The server reaches the ring by accesses that may fail, *)
(* and the target may be reset and initialise its rings between any two.   *)
(*                                                                         *)
(* A byte is its number in the order in which it was written; 0 is what a  *)
(* ring holds that nobody has written.                                     *)
(***************************************************************************)
EXTENDS Naturals, Sequences, SequencesExt

CONSTANTS
  Size,      \* SizeOfBuffer of both rings
  Chunk,     \* bytes moved by one streaming step: 256 up, 64 down
  DumpMax,   \* bytes printed by one monitor rtt dump: 1024
  TxRoom,    \* RTT_TX_QUEUE_SIZE
  MinRoom,   \* free room of the queue that starts a step: 64
  RxRoom,    \* RTT_RX_QUEUE_SIZE
  MaxUp,     \* bound: bytes the target writes
  MaxDown,   \* bound: bytes the host sends
  MaxDumps,  \* bound: monitor commands
  MaxResets, \* bound: resets of the target
  MaxErrs    \* bound: accesses that fail

ASSUME RoomsAssumption ==
  /\ Size \in Nat \ {0, 1} /\ Chunk \in Nat \ {0} /\ DumpMax \in Nat \ {0}
  /\ MinRoom \in 1 .. TxRoom /\ TxRoom \in Nat /\ RxRoom \in Nat \ {0}
ASSUME BoundsAssumption == {MaxUp, MaxDown, MaxDumps, MaxResets, MaxErrs} \subseteq Nat

VARIABLES
  up, down,            \* target: the rings, [wr, rd, cell]
  cb, up_desc, down_desc, \* RttState: whether it is attached, and knows the descriptor
  flashing,            \* in_flash_mode(): between vFlashErase and vFlashDone
  tx, rx,              \* the queues between idle and the USB interrupt
  pc, desc, chunk,     \* rtt_stream and rtt_dump: the descriptor as read, bytes in hand
  total,               \* rtt_dump: bytes printed
  out, con,            \* what the host has received, on its port and on its console
  got,                 \* what the target has received
  sent, fed, dropped,  \* history: bytes written by either end, and refused by a full queue
  gone,                \* history: bytes unread in the up ring when the target was reset
  raced,               \* history: a reset came between two accesses of one step
  dumps, resets, errs

rings == <<up, down>>
state == <<cb, up_desc, down_desc, flashing>>
queues == <<tx, rx>>
work == <<pc, desc, chunk, total>>
host == <<out, con, fed, dropped>>
counts == <<dumps, resets, errs>>
vars == <<rings, state, queues, work, host, got, sent, gone, raced, counts>>

Offsets == 0 .. Size - 1
NoDesc == [wr |-> 0, rd |-> 0]
Fresh(r) == [r EXCEPT !.wr = 0, !.rd = 0]

(* The target has been running for a while.                                *)
Init ==
  /\ \E o \in Offsets : up = [wr |-> o, rd |-> o, cell |-> [i \in Offsets |-> 0]]
  /\ down = Fresh(up)
  /\ cb = FALSE /\ up_desc = FALSE /\ down_desc = FALSE /\ flashing = FALSE
  /\ tx = <<>> /\ rx = <<>>
  /\ pc = "idle" /\ desc = NoDesc /\ chunk = <<>> /\ total = 0
  /\ out = <<>> /\ con = <<>> /\ got = <<>> /\ sent = 0 /\ fed = 0 /\ dropped = {} /\ gone = {} /\ raced = FALSE
  /\ dumps = 0 /\ resets = 0 /\ errs = 0
-----------------------------------------------------------------------------
Used(d) == (d.wr + Size - d.rd) % Size
Least(a, b) == IF a < b THEN a ELSE b

(* Mutant: the run is not cut at the end of the buffer.                    *)
RunAcross(d) == Used(d)

Run(d) == IF d.wr > d.rd THEN d.wr - d.rd ELSE Size - d.rd

(* Mutant: the cell that tells a full ring from an empty one is filled.    *)
FreeAll(d) == Size - Used(d)

Free(d) == (d.rd + Size - d.wr - 1) % Size

At(r, i) == IF i < Size THEN r.cell[i] ELSE 0
Bytes(r, from, n) == [i \in 1 .. n |-> At(r, from + i - 1)]
Unread(r) == [i \in 1 .. Used(r) |-> r.cell[(r.rd + i - 1) % Size]]

(* The target.                                                             *)
TargetWrites ==
  /\ sent < MaxUp /\ Used(up) < Size - 1 /\ sent' = sent + 1
  /\ up' = [up EXCEPT !.cell[up.wr] = sent + 1, !.wr = (up.wr + 1) % Size]
  /\ UNCHANGED <<down, state, queues, work, host, got, gone, raced, counts>>

TargetReads ==
  /\ Used(down) > 0 /\ got' = Append(got, down.cell[down.rd])
  /\ down' = [down EXCEPT !.rd = (down.rd + 1) % Size]
  /\ UNCHANGED <<up, state, queues, work, host, sent, gone, raced, counts>>

TargetReset ==
  /\ resets < MaxResets /\ resets' = resets + 1
  /\ up' = Fresh(up) /\ down' = Fresh(down) /\ raced' = (raced \/ pc # "idle")
  /\ gone' = gone \cup Range(Unread(up)) /\ dropped' = dropped \cup Range(Unread(down))
  /\ UNCHANGED <<state, queues, work, out, con, fed, got, sent, dumps, errs>>

(* The host and the USB interrupt.                                         *)
HostReads ==
  /\ tx # <<>> /\ out' = Append(out, Head(tx)) /\ tx' = Tail(tx)
  /\ UNCHANGED <<rings, state, rx, work, con, fed, dropped, got, sent, gone, raced, counts>>

HostWrites ==
  /\ fed < MaxDown /\ fed' = fed + 1
  /\ IF Len(rx) < RxRoom THEN rx' = Append(rx, fed + 1) /\ UNCHANGED dropped
     ELSE dropped' = dropped \cup {fed + 1} /\ UNCHANGED rx
  /\ UNCHANGED <<rings, state, tx, work, out, con, got, sent, gone, raced, counts>>
-----------------------------------------------------------------------------
(* The accesses of the server.                                             *)
Ok == UNCHANGED errs
Fails == errs < MaxErrs /\ errs' = errs + 1
Rest == UNCHANGED <<state, fed, dropped, got, sent, gone, raced, dumps, resets>>

Monitor ==
  /\ pc = "idle" /\ dumps < MaxDumps /\ dumps' = dumps + 1
  /\ UNCHANGED <<rings, queues, work, host, got, sent, gone, raced, resets>>

(* monitor rtt attach: the id is read, then where either descriptor is;    *)
(* what cannot be read, one of them or both, is not known.                 *)
Missed(u, d) == (IF u THEN 0 ELSE 1) + (IF d THEN 0 ELSE 1)

Attach ==
  /\ Monitor /\ UNCHANGED flashing
  /\ \/ /\ cb' = TRUE /\ up_desc' \in BOOLEAN /\ down_desc' \in BOOLEAN
        /\ errs' = errs + Missed(up_desc', down_desc') /\ errs' <= MaxErrs
     \/ Fails /\ UNCHANGED <<cb, up_desc, down_desc>>

(* monitor rtt stop                                                        *)
Detach ==
  /\ Monitor /\ UNCHANGED <<flashing, errs>>
  /\ cb' = FALSE /\ up_desc' = FALSE /\ down_desc' = FALSE

(* A flash session of the debugger begins or ends.                         *)
Flash == Monitor /\ flashing' = ~flashing /\ UNCHANGED <<cb, up_desc, down_desc, errs>>

Go(p) == pc' = p
End == pc' = "idle" /\ desc' = NoDesc /\ chunk' = <<>> /\ total' = 0

(* The descriptor is plausible.                                            *)
Sound(r) == r.wr < Size /\ r.rd < Size
Readable(r) == Sound(r) /\ r.wr # r.rd

(* rtt_stream, up. Where the ring is found wanting the step goes on below. *)
Stream ==
  /\ pc = "idle" /\ (up_desc \/ down_desc) /\ ~flashing
  /\ IF up_desc /\ TxRoom - Len(tx) >= MinRoom THEN Go("up") ELSE Go("down")
  /\ Ok /\ Rest /\ UNCHANGED <<rings, queues, desc, chunk, total, out, con>>

UpDesc ==
  /\ pc = "up" /\ Rest /\ UNCHANGED <<rings, queues, chunk, total, out, con>>
  /\ \/ Ok /\ Readable(up) /\ desc' = [wr |-> up.wr, rd |-> up.rd] /\ Go("read")
     \/ ((Ok /\ ~Readable(up)) \/ Fails) /\ UNCHANGED desc /\ Go("down")

UpRead ==
  /\ pc = "read" /\ Rest /\ UNCHANGED <<rings, rx, desc, total, out, con>>
  /\ \/ LET n == Least(Least(Run(desc), Chunk), TxRoom - Len(tx)) IN
        Ok /\ chunk' = Bytes(up, desc.rd, n) /\ tx' = tx \o chunk' /\ Go("ack")
     \/ Fails /\ UNCHANGED <<tx, chunk>> /\ Go("down")

(* Mutant: RdOff is left one past the end of the buffer.                   *)
AdvancePast(r) == [r EXCEPT !.rd = desc.rd + Len(chunk)]

(* RdOff, written back. The result is ignored.                             *)
Advance(r) == [r EXCEPT !.rd = (desc.rd + Len(chunk)) % Size]

UpAck ==
  /\ pc = "ack" /\ Rest /\ UNCHANGED <<down, queues, total, out, con>>
  /\ \/ Ok /\ up' = Advance(up)
     \/ Fails /\ up' \in {up, Advance(up)}
  /\ desc' = NoDesc /\ chunk' = <<>> /\ Go("down")

(* Down: the bytes leave the queue before they are written.                *)
DownDesc ==
  /\ pc = "down" /\ Rest /\ UNCHANGED <<rings, tx, out, con>>
  /\ LET n == Least(Least(Least(Free(down), Size - down.wr), Chunk), Len(rx)) IN
     \/ /\ down_desc /\ Sound(down) /\ n > 0 /\ Ok /\ desc' = [wr |-> down.wr, rd |-> down.rd]
        /\ chunk' = SubSeq(rx, 1, n) /\ rx' = SubSeq(rx, n + 1, Len(rx)) /\ Go("write") /\ UNCHANGED total
     \/ (~down_desc \/ ~Sound(down) \/ n = 0) /\ Ok /\ UNCHANGED rx /\ End
     \/ down_desc /\ rx # <<>> /\ Fails /\ UNCHANGED rx /\ End

Filled(r, n) == [r EXCEPT !.cell = [i \in Offsets |->
                   IF i \in desc.wr .. desc.wr + n - 1 THEN chunk[i - desc.wr + 1] ELSE @[i]]]
Published(r) == [r EXCEPT !.wr = (desc.wr + Len(chunk)) % Size]

DownWrite ==
  /\ pc = "write" /\ Rest /\ UNCHANGED <<up, queues, out, con>>
  /\ \/ Ok /\ down' = Filled(down, Len(chunk)) /\ Go("publish") /\ UNCHANGED <<desc, chunk, total>>
     \/ Fails /\ (\E n \in 0 .. Len(chunk) : down' = Filled(down, n)) /\ End

DownPublish ==
  /\ pc = "publish" /\ Rest /\ UNCHANGED <<up, queues, out, con>> /\ End
  /\ \/ Ok /\ down' = Published(down)
     \/ Fails /\ down' \in {down, Published(down)}
-----------------------------------------------------------------------------
(* monitor rtt dump: runs of bytes onto the console until the descriptor   *)
(* as it was read is used up, then RdOff.                                  *)
Dump ==
  /\ pc = "idle" /\ cb /\ dumps < MaxDumps /\ dumps' = dumps + 1
  /\ \/ Ok /\ Readable(up) /\ desc' = [wr |-> up.wr, rd |-> up.rd] /\ Go("print")
     \/ ((Ok /\ ~Readable(up)) \/ Fails) /\ UNCHANGED <<desc, pc>>
  /\ UNCHANGED <<rings, state, queues, chunk, total, host, got, sent, gone, raced, resets>>

Unfinished == desc.rd # desc.wr /\ total < DumpMax

Show ==
  /\ pc = "print" /\ Unfinished /\ Ok /\ Rest /\ UNCHANGED <<rings, queues, pc, chunk, out>>
  /\ LET n == Least(Least(Run(desc), Chunk), DumpMax - total) IN
     /\ con' = con \o Bytes(up, desc.rd, n) /\ total' = total + n
     /\ desc' = [desc EXCEPT !.rd = (@ + n) % Size]

Consume ==
  /\ pc = "print" /\ IF Unfinished THEN Fails ELSE Ok
  /\ Go("consume") /\ Rest /\ UNCHANGED <<rings, queues, desc, chunk, total, out, con>>

ConsumeAck ==
  /\ pc = "consume" /\ Rest /\ UNCHANGED <<down, queues, out, con>> /\ End
  /\ \/ Ok /\ up' = Advance(up)
     \/ Fails /\ up' \in {up, Advance(up)}

Server == Stream \/ UpDesc \/ UpRead \/ UpAck \/ DownDesc \/ DownWrite \/ DownPublish \/ Show
            \/ Consume \/ ConsumeAck

Next == Server \/ Attach \/ Detach \/ Flash \/ Dump \/ TargetWrites \/ TargetReads \/ TargetReset
          \/ HostReads \/ HostWrites

Spec == Init /\ [][Next]_vars

(* The session loop polls the rings on every few of its quiet turns, and   *)
(* the host reads its port.                                                *)
FairSpec == Spec /\ WF_vars(Server) /\ WF_vars(HostReads)
-----------------------------------------------------------------------------
TypeOK ==
  /\ {up.wr, up.rd, down.wr, down.rd} \subseteq Offsets
  /\ Len(tx) <= TxRoom /\ Len(rx) <= RxRoom
  /\ Range(tx) \cup Range(out) \subseteq 0 .. MaxUp /\ Range(got) \subseteq 0 .. MaxDown

Increasing(s) == \A i, j \in DOMAIN s : i < j => s[i] < s[j]

(* Every byte the target has written is still in its ring or goes to the   *)
(* host: to its port after the ones before it and never without them, or   *)
(* to its console. It goes there twice only after an access has failed.    *)
(* Bytes a reset of the target threw away are missing, and nothing is      *)
(* promised once a reset has come in the middle of a step.                 *)
UpKept ==
  LET port == out \o tx
      away == gone \cup Range(con)
  IN  ~raced =>
        /\ \A k \in 1 .. sent : k \in away \cup Range(Unread(up)) \cup Range(port)
        /\ \A i \in DOMAIN port : port[i] > 0
             /\ \A k \in 1 .. port[i] - 1 : k \in away \cup Range(SubSeq(port, 1, i - 1))
        /\ errs = 0 => /\ Increasing(port) /\ Increasing(con)
                       /\ Range(port) \cap Range(con) = {}

(* What the target receives from the host is in order, once, and nothing   *)
(* that the host did not write, whichever accesses fail; none of it is     *)
(* missing if none fails, except what a full queue refused and what was    *)
(* unread when the target was reset.                                       *)
DownKept ==
  LET hand == IF pc \in {"write", "publish"} THEN chunk ELSE <<>>
      stream == got \o Unread(down) \o hand \o rx
  IN  ~raced =>
        /\ Increasing(stream) /\ 0 \notin Range(stream)
        /\ errs = 0 => \A k \in 1 .. fed : k \in Range(stream) \cup dropped

(* What the target writes reaches the host, on its port or its console, if *)
(* the bridge stays attached and no flash session is left open, whatever   *)
(* the size of the ring, the queue and the steps.                          *)
UpArrives ==
  \A k \in 1 .. MaxUp :
    sent >= k ~> k \in Range(out) \cup Range(con) \cup gone \/ raced \/ ~up_desc \/ flashing
=============================================================================
