---------------------------- MODULE DapTransfer ----------------------------
(***************************************************************************)
(* DAP_Transfer and DAP_TransferBlock of rust-dap/src/dispatcher.rs: the   *)
(* request cursor, the posted-read and buffered-write bookkeeping, the     *)
(* WAIT and match retries, and the error paths, one step per access the    *)
(* dispatcher makes on the debug port.                                     *)
(*                                                                         *)
(* A register value is abstracted to its tag: the number of the request    *)
(* whose access produced it (0: produced by no request of this command).   *)
(* The bytes of a packet are abstracted to what read_swd_request would     *)
(* decode them to, so a cursor that is out of step with the packet reads   *)
(* data bytes as requests, as the code would.                              *)
(***************************************************************************)
EXTENDS Naturals, Sequences

CONSTANTS
  Packets,      \* the requests the host may send, laid out (IsPacket)
  Ports,        \* the ports DAP_Connect can select: a subset of {"Swd", "Jtag"}
  RetryCounts,  \* the values of config.retry_count
  MatchRetries  \* the values of config.match_retry_count

(* A request byte: DP/AP, Read/Write/Match (read until equal), or MATCH_MASK. *)
Op == {"DPR", "APR", "DPM", "APM", "DPW", "APW", "MASK"}
IsRead(o)  == o \in {"DPR", "APR"}          \* its value goes into the response
IsMatch(o) == o \in {"DPM", "APM"}
IsWrite(o) == o \in {"DPW", "APW", "MASK"}
IsAP(o)    == o \in {"APR", "APM", "APW"}
HasData(o) == IsMatch(o) \/ IsWrite(o)      \* followed by a 32-bit word

WordBytes == 4
Size(kind, o) == (IF kind = "transfer" THEN 1 ELSE 0) + (IF HasData(o) THEN WordBytes ELSE 0)

(***************************************************************************)
(* A well-formed request packet, past its header. req[i] is what the host  *)
(* asks for i-th, end[i] the offset just behind it, rank[i] the number of  *)
(* values the first i requests return, byte[p + 1] what the byte at offset *)
(* p decodes to. A block transfer repeats one request without its byte.    *)
(***************************************************************************)
IsPacket(p) ==
  /\ p.kind \in {"transfer", "block"}
  /\ p.req \in Seq(Op)
  /\ p.byte \in Seq(Op)
  /\ p.end \in [0 .. Len(p.req) -> Nat]
  /\ p.rank \in [0 .. Len(p.req) -> Nat]
  /\ p.end[0] = 0 /\ p.end[Len(p.req)] = Len(p.byte) /\ p.rank[0] = 0
  /\ \A i \in 1 .. Len(p.req) :
       /\ p.end[i] = p.end[i - 1] + Size(p.kind, p.req[i])
       /\ p.end[i] <= Len(p.byte)
       /\ p.rank[i] = p.rank[i - 1] + (IF IsRead(p.req[i]) THEN 1 ELSE 0)
       /\ p.kind = "transfer" => p.byte[p.end[i - 1] + 1] = p.req[i]
       /\ p.kind = "block" => p.req[i] = p.req[1] /\ p.req[i] \in {"DPR", "APR", "DPW", "APW"}

(* The request of no command: what cmd holds while the probe is idle. *)
NoCommand == [kind |-> "transfer", req |-> <<>>, byte |-> <<>>,
              end |-> [i \in 0 .. 0 |-> 0], rank |-> [i \in 0 .. 0 |-> 0]]

ASSUME PacketsAssumption == \A p \in Packets : IsPacket(p)
ASSUME PortsAssumption == Ports \subseteq {"Swd", "Jtag"}
ASSUME RetryAssumption == RetryCounts \subseteq Nat /\ MatchRetries \subseteq Nat

VARIABLES
  active,    \* Dispatcher.active: the connected port, or "None"
  limit,     \* config.retry_count and config.match_retry_count
  cmd,       \* the packet being executed
  pc,        \* where transfer() or transfer_block_inner() stands
  pos,       \* position of the request cursor behind the header
  left,      \* request_count
  op,        \* swd_request, the request being executed
  posted,    \* posted_read
  written,   \* write_issued
  count,     \* response_count
  words,     \* the tags of the values written into the response
  ack,       \* last_response / result
  retry,     \* retry_count of transfer_with_retry
  mretry,    \* match_retry_count
  latch,     \* target: tag of the access whose result RDBUFF holds
  buffered,  \* target: a write was acknowledged and nothing accepted since
  hits       \* target: how often the register of request i was accessed

host   == <<active, limit, cmd>>
cursor == <<pos, left, op>>
resp   == <<count, words, ack>>
target == <<latch, buffered, hits>>
vars == <<host, pc, cursor, posted, written, resp, retry, mretry, target>>

Requests == Len(cmd.req)
Total == Len(cmd.byte)
Cur == Requests - left        \* the number of the request being executed
-----------------------------------------------------------------------------
(* The target, reached through DapTransport::swd_transfer / jtag_transfer. *)

(* Mutant of Register: every drain reads RDBUFF. *)
RegisterDrainRdbuff ==
  IF \/ pc \in {"final", "bcheck", "drain"}
     \/ pc = "bread" /\ op = "APR" /\ left = 1
  THEN "RDBUFF"
  ELSE IF IsAP(op) THEN "AP" ELSE "DP"

(* The register the access at pc addresses, and the request it is made for. *)
Register ==
  IF \/ pc \in {"final", "bcheck"}
     \/ pc = "drain" /\ op # "APR"
     \/ pc = "bread" /\ op = "APR" /\ left = 1
  THEN "RDBUFF"
  ELSE IF IsAP(op) THEN "AP" ELSE "DP"
Tag == IF cmd.kind = "transfer" THEN Cur
       ELSE IF pc = "bread" /\ op = "APR" THEN count + 2 ELSE count + 1

Writing == pc \in {"write", "bwrite"}

(* The tag of the value an accepted read returns. An SWD read of the AP    *)
(* returns the result of the AP read before it; every JTAG scan returns    *)
(* what was captured before the request was shifted in.                    *)
Value == IF active # "Jtag" /\ Register = "DP" THEN Tag ELSE latch

(* What an accepted access changes in the target. *)
Accept ==
  /\ latch' = IF Writing \/ (Register = "DP" /\ active # "Jtag") THEN latch
              ELSE IF Register = "RDBUFF" THEN 0 ELSE Tag
  /\ hits' = IF Register = "RDBUFF" THEN hits ELSE [hits EXCEPT ![Tag] = @ + 1]
  /\ buffered' = Writing
-----------------------------------------------------------------------------
(* The host. *)

Init ==
  /\ active = "None"
  /\ limit \in [retry : RetryCounts, match : MatchRetries]
  /\ cmd = NoCommand
  /\ pc = "idle"
  /\ pos = 0 /\ left = 0 /\ op = "DPR"
  /\ posted = FALSE /\ written = FALSE
  /\ count = 0 /\ words = <<>> /\ ack = "OK"
  /\ retry = 0 /\ mretry = 0
  /\ latch = 0 /\ buffered = FALSE /\ hits = <<>>

(* The locals of transfer() and transfer_block() when they are called with *)
(* packet p; the tags of the target are relative to that packet.           *)
Load(p) ==
  /\ cmd' = p
  /\ pos' = 0 /\ left' = Len(p.req) /\ op' = "DPR"
  /\ posted' = FALSE /\ written' = FALSE
  /\ count' = 0 /\ words' = <<>> /\ ack' = "OK"
  /\ retry' = 0 /\ mretry' = 0
  /\ latch' = 0 /\ buffered' = FALSE /\ hits' = [i \in 1 .. Len(p.req) |-> 0]

(* DAP_Connect: the port changes only when the transport could connect. *)
Connect ==
  /\ pc = "idle"
  /\ \E port \in Ports : active' = port
  /\ UNCHANGED <<limit, cmd, pc, cursor, posted, written, resp, retry, mretry, target>>

(* DAP_Disconnect clears the port before it touches the pins. *)
Disconnect ==
  /\ pc = "idle"
  /\ active' = "None"
  /\ UNCHANGED <<limit, cmd, pc, cursor, posted, written, resp, retry, mretry, target>>

(* DAP_TransferConfigure. *)
TransferConfigure ==
  /\ pc = "idle"
  /\ limit' \in [retry : RetryCounts, match : MatchRetries]
  /\ UNCHANGED <<active, cmd, pc, cursor, posted, written, resp, retry, mretry, target>>

(* The entry of transfer() and transfer_block(): a transfer starts its     *)
(* loop, an empty block is answered at once, a block reads its request.    *)
Command ==
  /\ pc = "idle"
  /\ \E p \in Packets :
       /\ Load(p)
       /\ pc' = IF p.kind = "transfer" THEN "fetch" ELSE "bstart"
  /\ UNCHANGED <<active, limit>>

(* The response is handed back and the probe waits for the next command. *)
Respond ==
  /\ pc = "done"
  /\ pc' = "idle"
  /\ Load(NoCommand)
  /\ UNCHANGED <<active, limit>>
-----------------------------------------------------------------------------
(* transfer(): the request cursor. *)

(* The end of an iteration of the request loop. *)
Complete == count' = count + 1 /\ pc' = "fetch"

(* A read past the end of the request panics (cursor.rs): no step is then  *)
(* enabled, and NeverPanics says that it does not happen.                  *)
Available(n) == pos + n <= Total

(* Mutants of NeedsFinal: one of the two reasons is forgotten. *)
NeedsFinalWritten == written
NeedsFinalPosted == posted

(* The trailing RDBUFF read is for a posted value or an unchecked write. *)
NeedsFinal == posted \/ written

(* The head of the loop. Draining with RDBUFF clears posted_read first in  *)
(* a read, after the access in a write.                                    *)
Fetch ==
  /\ pc = "fetch"
  /\ \/ /\ left = 0
        /\ pc' = IF NeedsFinal THEN "final" ELSE "done"
        /\ UNCHANGED <<cursor, posted>>
     \/ /\ left > 0
        /\ Available(1)
        /\ left' = left - 1
        /\ op' = cmd.byte[pos + 1]
        /\ pos' = pos + 1
        /\ pc' = IF posted THEN "drain" ELSE "exec"
        /\ posted' = (posted /\ (op' = "APR" \/ IsWrite(op')))
  /\ UNCHANGED <<host, written, resp, retry, mretry, target>>

(* Mutant of AfterData: the match compares what the access before it posted. *)
AfterDataNoPost == IF IsMatch(op) THEN "match" ELSE "write"

(* A match on an AP register issues a first read of it. *)
AfterData == IF op = "APM" THEN "mpost" ELSE IF op = "DPM" THEN "match" ELSE "write"

(* The part of an iteration behind the drain: which access comes next. *)
Exec ==
  /\ pc = "exec"
  /\ \/ /\ op = "APR" /\ posted
        /\ Complete
        /\ written' = FALSE
        /\ UNCHANGED <<pos, words, ack>>
     \/ /\ op = "APR" /\ ~posted
        /\ pc' = "post"
        /\ UNCHANGED <<pos, written, resp>>
     \/ /\ op = "DPR"
        /\ pc' = "dpread"
        /\ UNCHANGED <<pos, written, resp>>
     \/ /\ HasData(op) /\ op # "MASK"
        /\ Available(WordBytes)
        /\ pos' = pos + WordBytes
        /\ pc' = AfterData
        /\ UNCHANGED <<written, resp>>
     \/ /\ op = "MASK"
        /\ Available(WordBytes)
        /\ pos' = pos + WordBytes
        /\ Complete
        /\ UNCHANGED <<written, words, ack>>
  /\ mretry' = 0
  /\ UNCHANGED <<host, left, op, posted, retry, target>>

(* Mutants of SkipSize: a word behind every request, none behind a match.  *)
SkipSizeAlways(o) == 1 + WordBytes
SkipSizeNoMatch(o) == IF IsWrite(o) THEN 1 + WordBytes ELSE 1

(* The bytes the skip loop takes for a request. *)
SkipSize(o) == IF IsMatch(o) \/ IsWrite(o) THEN 1 + WordBytes ELSE 1

(* "Skip remaining requests after an error": one iteration of that loop. *)
Skip ==
  /\ pc = "skip"
  /\ \/ /\ left = 0
        /\ pc' = "done"
        /\ UNCHANGED cursor
     \/ /\ left > 0
        /\ Available(1)
        /\ Available(SkipSize(cmd.byte[pos + 1]))
        /\ left' = left - 1
        /\ op' = cmd.byte[pos + 1]
        /\ pos' = pos + SkipSize(op')
        /\ pc' = "skip"
  /\ UNCHANGED <<host, posted, written, resp, retry, mretry, target>>

-----------------------------------------------------------------------------
(* transfer(): the accesses that the port accepts. *)

Accepted == active # "None" /\ Accept /\ retry' = 0

(* The posted value is read out: by the AP read itself, or by RDBUFF. *)
DrainOk ==
  /\ pc = "drain"
  /\ Accepted
  /\ words' = Append(words, Value)
  /\ posted' = (op = "APR")
  /\ pc' = "exec"
  /\ UNCHANGED <<host, cursor, written, count, ack, mretry>>

PostOk ==
  /\ pc = "post"
  /\ Accepted
  /\ posted' = TRUE
  /\ written' = FALSE
  /\ Complete
  /\ UNCHANGED <<host, cursor, words, ack, mretry>>

DpReadOk ==
  /\ pc = "dpread"
  /\ Accepted
  /\ words' = Append(words, Value)
  /\ written' = FALSE
  /\ Complete
  /\ UNCHANGED <<host, cursor, posted, ack, mretry>>

(* Mutant of MatchRetried: an unequal value or a WAIT is not counted. *)
MatchRetriedUncounted == mretry' = mretry

MatchRetried == mretry' = mretry + 1

(* The AP read a match starts with; the value it returns is dropped. *)
MatchPostOk ==
  /\ pc = "mpost"
  /\ Accepted
  /\ pc' = "match"
  /\ UNCHANGED <<host, cursor, posted, written, resp, mretry>>

MatchOk ==
  /\ pc = "match"
  /\ Accepted
  /\ \/ /\ Complete                          \* value & match_mask == match_value
        /\ written' = FALSE
        /\ UNCHANGED <<words, ack, mretry>>
     \/ /\ mretry < limit.match
        /\ MatchRetried
        /\ UNCHANGED <<pc, written, resp>>
     \/ /\ mretry = limit.match              \* DapError::ExceedRetryCount
        /\ ack' = "ERROR"
        /\ pc' = "skip"
        /\ UNCHANGED <<written, count, words, mretry>>
  /\ UNCHANGED <<host, cursor, posted>>

WriteOk ==
  /\ pc = "write"
  /\ Accepted
  /\ written' = TRUE
  /\ Complete
  /\ UNCHANGED <<host, cursor, posted, words, ack, mretry>>

(* The trailing RDBUFF read: the last posted value, or the write's result. *)
FinalOk ==
  /\ pc = "final"
  /\ Accepted
  /\ words' = IF posted THEN Append(words, Value) ELSE words
  /\ pc' = "done"
  /\ UNCHANGED <<host, cursor, posted, written, count, ack, mretry>>
-----------------------------------------------------------------------------
(* transfer_block_inner() *)

BlockStart ==
  /\ pc = "bstart"
  /\ IF left = 0
     THEN pc' = "done" /\ ack' = "NONE" /\ op' = op
     ELSE /\ op' = cmd.req[1]
          /\ pc' = IF op' = "APR" THEN "bpost" ELSE IF op' = "DPR" THEN "bread" ELSE "bfetch"
          /\ ack' = ack
  /\ UNCHANGED <<host, pos, left, posted, written, count, words, retry, mretry, target>>

BlockPostOk ==
  /\ pc = "bpost"
  /\ Accepted
  /\ pc' = "bread"
  /\ UNCHANGED <<host, cursor, posted, written, resp, mretry>>

BlockReadOk ==
  /\ pc = "bread"
  /\ Accepted
  /\ left' = left - 1
  /\ words' = Append(words, Value)
  /\ count' = count + 1
  /\ pc' = IF left = 1 THEN "done" ELSE "bread"
  /\ UNCHANGED <<host, pos, op, posted, written, ack, mretry>>

(* read_u32 of the next data word. *)
BlockFetch ==
  /\ pc = "bfetch"
  /\ Available(WordBytes)
  /\ left' = left - 1
  /\ pos' = pos + WordBytes
  /\ pc' = "bwrite"
  /\ UNCHANGED <<host, op, posted, written, resp, retry, mretry, target>>


BlockWriteOk ==
  /\ pc = "bwrite"
  /\ Accepted
  /\ count' = count + 1
  /\ pc' = IF left = 0 THEN "bcheck" ELSE "bfetch"
  /\ UNCHANGED <<host, cursor, posted, written, words, ack, mretry>>

BlockCheckOk ==
  /\ pc = "bcheck"
  /\ Accepted
  /\ pc' = "done"
  /\ UNCHANGED <<host, cursor, posted, written, resp, mretry>>
-----------------------------------------------------------------------------
(* The accesses that fail: transfer_with_retry and the error paths. *)

AccessPoints == {"drain", "post", "dpread", "mpost", "match", "write", "final",
                 "bpost", "bread", "bwrite", "bcheck"}

(* transfer_with_retry repeats the access, only after a WAIT. *)
Retry ==
  /\ pc \in AccessPoints /\ active = "Swd"
  /\ retry < limit.retry
  /\ retry' = retry + 1
  /\ UNCHANGED <<host, pc, cursor, posted, written, resp, mretry, target>>

(* Where an error leads: a transfer skips the requests that remain, the    *)
(* trailing access and a block return at once.                             *)
Fail(err) ==
  /\ ack' = err
  /\ pc' = IF pc = "final" \/ cmd.kind = "block" THEN "done" ELSE "skip"
  /\ retry' = 0
  /\ UNCHANGED <<host, cursor, posted, written, count, words, mretry>>

(* The last WAIT; a match absorbs it while its own retries last. *)
WaitExhausted ==
  /\ pc \in AccessPoints /\ active = "Swd"
  /\ retry = limit.retry
  /\ IF pc = "match" /\ mretry < limit.match
     THEN /\ MatchRetried
          /\ retry' = 0
          /\ UNCHANGED <<host, pc, cursor, posted, written, resp>>
     ELSE Fail("WAIT")
  /\ UNCHANGED target

Fault ==
  /\ pc \in AccessPoints /\ active = "Swd"
  /\ Fail("FAULT")
  /\ UNCHANGED target

(* Mutant of WireError: an access that may have been made is repeated. *)
WireErrorRetried ==
  /\ pc \in AccessPoints /\ active = "Swd"
  /\ retry < limit.retry
  /\ retry' = retry + 1
  /\ UNCHANGED <<host, pc, cursor, posted, written, resp, mretry>>
  /\ Accept \/ UNCHANGED target

(* No or a garbled acknowledge, or a parity error in the data phase: the   *)
(* target may have made the access or not.                                 *)
WireError ==
  /\ pc \in AccessPoints /\ active = "Swd"
  /\ Fail("ERROR")
  /\ Accept \/ UNCHANGED target

(* transfer_once without an active port: DapError::NotSupported. *)
NotConnected ==
  /\ pc \in AccessPoints /\ active = "None"
  /\ Fail("ERROR")
  /\ UNCHANGED target

AccessFailed == Retry \/ WaitExhausted \/ Fault \/ WireError \/ NotConnected
-----------------------------------------------------------------------------
Host == Connect \/ Disconnect \/ TransferConfigure \/ Command

Transfer == \/ Fetch \/ Exec \/ Skip
            \/ DrainOk \/ PostOk \/ DpReadOk \/ MatchPostOk \/ MatchOk \/ WriteOk \/ FinalOk

TransferBlock == \/ BlockStart \/ BlockPostOk \/ BlockReadOk
                 \/ BlockFetch \/ BlockWriteOk \/ BlockCheckOk

Dispatcher == Transfer \/ TransferBlock \/ AccessFailed \/ Respond

Next == Host \/ Dispatcher

Spec == Init /\ [][Next]_vars

(* execute() is a plain function call: once entered it runs to its return. *)
FairSpec == Spec /\ WF_vars(Dispatcher)
-----------------------------------------------------------------------------
PC == AccessPoints \cup {"idle", "fetch", "exec", "skip", "done", "bstart", "bfetch"}

(* The type of every variable. *)
TypeOK ==
  /\ active \in Ports \cup {"None"}
  /\ limit \in [retry : RetryCounts, match : MatchRetries]
  /\ cmd \in Packets \cup {NoCommand}
  /\ pc \in PC
  /\ pos \in 0 .. Total /\ left \in 0 .. Requests /\ op \in Op
  /\ posted \in BOOLEAN /\ written \in BOOLEAN
  /\ count \in 0 .. Requests /\ words \in Seq(0 .. Requests)
  /\ ack \in {"OK", "WAIT", "FAULT", "ERROR", "NONE"}
  /\ retry \in Nat /\ mretry \in Nat
  /\ latch \in 0 .. Requests /\ buffered \in BOOLEAN
  /\ hits \in [1 .. Requests -> Nat]

(* The j-th value of the response is the one the j-th read of the request  *)
(* asked for, although an AP read returns the value of the read before it  *)
(* and posted values are drained by reads, RDBUFF or the trailing access.  *)
ResponseInOrder ==
  \A j \in DOMAIN words :
    /\ words[j] \in 1 .. Requests
    /\ IsRead(cmd.req[words[j]])
    /\ cmd.rank[words[j]] = j

(* response_count and the values agree: DAP_OK answers every request with  *)
(* a value for every read; after an error at most the value of the last    *)
(* counted read, still posted when the next access failed, is missing.     *)
ResponseComplete ==
  pc = "done" =>
    /\ Len(words) <= cmd.rank[count]
    /\ cmd.rank[count] <= Len(words) + 1
    /\ ack = "OK" => count = Requests /\ Len(words) = cmd.rank[Requests]

(* A request counted in the response reached its register exactly once,    *)
(* whatever was retried (a match at least once, MATCH_MASK never), nothing *)
(* ran twice, and nothing behind the failing request ran at all. A block   *)
(* of AP reads is one access ahead of its values.                          *)
CountedOnceInOrder ==
  pc = "done" =>
    \A i \in 1 .. Requests :
      /\ i <= count => hits[i] >= (IF cmd.req[i] = "MASK" THEN 0 ELSE 1)
      /\ ~IsMatch(cmd.req[i]) => hits[i] <= (IF cmd.req[i] = "MASK" THEN 0 ELSE 1)
      /\ i > count + (IF cmd.kind = "block" /\ cmd.req[1] = "APR" THEN 2 ELSE 1)
            => hits[i] = 0

(* DAP_OK is only reported once a later access was accepted behind the     *)
(* last write: a buffered write whose fault shows on the next access is    *)
(* never reported as done ("Check the last write result").                 *)
OkMeansConfirmed == pc = "done" /\ ack = "OK" => ~buffered

(* The value a match compares was read from the register the match names,  *)
(* never the posted result of the access before it.                        *)
MatchComparesOwnRegister == pc = "match" => Value = Cur

(* No cursor read goes past the end of the request (it would panic), also  *)
(* not when the skip loop decodes data bytes as requests: a data word it   *)
(* takes for a write swallows as many requests as it is out of step.       *)
NeverPanics ==
  /\ pc = "fetch" /\ left > 0 => Available(1)
  /\ pc = "exec" /\ HasData(op) => Available(WordBytes)
  /\ pc = "bfetch" => Available(WordBytes)
  /\ pc = "skip" /\ left > 0 =>
       Available(1) /\ Available(SkipSize(cmd.byte[pos + 1]))

(* An error while the posted value of request count was drained ahead of a *)
(* request with data: the cursor stands before the data, which the skip    *)
(* loop decodes as requests.                                               *)
DrainFailedBeforeData ==
  /\ cmd.kind = "transfer" /\ count < Requests
  /\ Len(words) < cmd.rank[count] /\ HasData(cmd.req[count + 1])

(* A finished DAP_Transfer consumed its whole request, so the next command *)
(* of the packet starts where its bytes start, with that one exception.    *)
ConsumedExceptAfterDrain ==
  pc = "done" /\ cmd.kind = "transfer" => pos = Total \/ DrainFailedBeforeData

(* A call of execute() comes to its end, however often the target answers  *)
(* WAIT and however long a match stays unequal: all retries are bounded.   *)
CommandAnswered == pc \in {"fetch", "bstart"} ~> pc = "done"
=============================================================================
