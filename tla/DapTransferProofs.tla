------------------------- MODULE DapTransferProofs -------------------------
(***************************************************************************)
(* Proofs about DapTransfer, for every set of well-formed packets, every   *)
(* retry limit and (where said) every port.                                *)
(***************************************************************************)
EXTENDS DapTransfer, TLAPS

TransferPoints == {"fetch", "drain", "exec", "post", "dpread", "mpost", "match",
                   "write", "final", "skip"}
BlockPoints == {"bstart", "bpost", "bread", "bfetch", "bwrite", "bcheck"}
InRequest == {"drain", "exec", "post", "dpread", "mpost", "match", "write", "bwrite"}

(* How the loop counter and response_count go together at each point. *)
Counters ==
  /\ pc \in TransferPoints => cmd.kind = "transfer"
  /\ pc \in BlockPoints => cmd.kind = "block"
  /\ pc \in {"fetch", "bpost", "bread", "bfetch"} => count = Cur
  /\ pc \in {"final", "bcheck"} => count = Cur /\ left = 0
  /\ pc \in InRequest => count + 1 = Cur
  /\ pc = "bstart" => count = 0 /\ left = Requests
  /\ pc = "bpost" => count = 0 /\ op = "APR"
  /\ pc \in {"bpost", "bread", "bfetch"} => left > 0

TypeInv == TypeOK /\ Counters
-----------------------------------------------------------------------------
(* A byte inside the packet decodes to a request. *)
LEMMA ByteIsOp ==
  ASSUME NEW b \in Seq(Op), NEW i \in Nat, i + 1 <= Len(b)
  PROVE  b[i + 1] \in Op
  <1>1. i + 1 \in 1 .. Len(b)  OBVIOUS
  <1>2. QED  BY <1>1

LEMMA NoCommandIsPacket == IsPacket(NoCommand)
  BY DEF IsPacket, NoCommand

LEMMA KnownPackets == \A p \in Packets \cup {NoCommand} : IsPacket(p)
  BY PacketsAssumption, NoCommandIsPacket

LEMMA PacketFacts ==
  ASSUME NEW p \in Packets \cup {NoCommand}
  PROVE  /\ p.kind \in {"transfer", "block"}
         /\ p.req \in Seq(Op) /\ Len(p.req) \in Nat
         /\ p.byte \in Seq(Op) /\ Len(p.byte) \in Nat
  <1>1. IsPacket(p)  BY KnownPackets
  <1>2. QED  BY <1>1 DEF IsPacket

(* The same for the packet being executed. *)
LEMMA CmdFacts ==
  ASSUME TypeOK
  PROVE  /\ Requests \in Nat /\ Total \in Nat
         /\ cmd.req \in Seq(Op) /\ cmd.byte \in Seq(Op)
         /\ left \in 0 .. Requests /\ Cur \in 0 .. Requests
  BY PacketFacts DEF TypeOK, Requests, Total, Cur

(* The tag of a register access is the number of a request of the packet. *)
LEMMA TagInRange ==
  ASSUME TypeInv, pc \in AccessPoints, Register # "RDBUFF"
  PROVE  Tag \in 0 .. Requests
  <1>1. TypeOK /\ Counters  BY DEF TypeInv
  <1>2. Cur = Requests - left  BY DEF Cur
  <1>0. /\ Requests \in Nat /\ left \in 0 .. Requests /\ count \in 0 .. Requests
        /\ Cur \in 0 .. Requests
    BY <1>1, CmdFacts DEF TypeOK
  <1>3. CASE pc = "bread"
    <2>1. count = Cur /\ left > 0  BY <1>1, <1>3 DEF Counters
    <2>2. op = "APR" => left # 1  BY <1>3 DEF Register
    <2>3. cmd.kind # "transfer"  BY <1>1, <1>3 DEF Counters, BlockPoints
    <2>4. Tag = IF op = "APR" THEN count + 2 ELSE count + 1  BY <1>3, <2>3 DEF Tag
    <2>5. QED  BY <1>0, <1>2, <2>1, <2>2, <2>4
  <1>4. CASE pc \in {"bpost", "bwrite"}
    <2>1. cmd.kind # "transfer"  BY <1>1, <1>4 DEF Counters, BlockPoints
    <2>2. Tag = count + 1  BY <1>4, <2>1 DEF Tag
    <2>3. CASE pc = "bpost"
      <3>1. count = 0 /\ left > 0  BY <1>1, <2>3 DEF Counters
      <3>2. QED  BY <1>0, <2>2, <3>1
    <2>4. CASE pc = "bwrite"
      <3>1. count + 1 = Cur  BY <1>1, <2>4 DEF Counters, InRequest
      <3>2. QED  BY <1>0, <2>2, <3>1
    <2>5. QED  BY <1>4, <2>3, <2>4
  <1>5. CASE pc \notin {"bread", "bpost", "bwrite"}
    <2>1. pc # "bcheck"  BY DEF Register
    <2>2. cmd.kind = "transfer"
      BY <1>1, <1>5, <2>1 DEF Counters, AccessPoints, TransferPoints
    <2>3. QED  BY <1>1, <2>2, CmdFacts DEF Tag
  <1>6. QED  BY <1>3, <1>4, <1>5

(* Counting an access keeps hits a function into the naturals. *)
LEMMA BumpType ==
  ASSUME NEW n \in Nat, NEW h \in [1 .. n -> Nat], NEW t
  PROVE  [h EXCEPT ![t] = @ + 1] \in [1 .. n -> Nat]
  <1>1. CASE t \in 1 .. n
    <2>1. h[t] + 1 \in Nat  BY <1>1
    <2>2. QED  BY <1>1, <2>1
  <1>2. CASE t \notin 1 .. n
    <2>1. \A i \in 1 .. n : [h EXCEPT ![t] = @ + 1][i] = h[i]  BY <1>2
    <2>2. QED  BY <1>2, <2>1
  <1>3. QED  BY <1>1, <1>2

LEMMA AcceptType ==
  ASSUME TypeInv, pc \in AccessPoints, Accept
  PROVE  /\ latch' \in 0 .. Requests
         /\ buffered' \in BOOLEAN
         /\ hits' \in [1 .. Requests -> Nat]
         /\ Value \in 0 .. Requests
  <1>1. /\ latch \in 0 .. Requests
        /\ hits \in [1 .. Requests -> Nat]
        /\ Requests \in Nat
    BY CmdFacts DEF TypeInv, TypeOK
  <1>2. Register # "RDBUFF" => Tag \in 0 .. Requests  BY TagInRange
  <1>3. latch' \in 0 .. Requests
    BY <1>1, <1>2 DEF Accept
  <1>4. buffered' \in BOOLEAN
    BY DEF Accept, Writing
  <1>5. hits' \in [1 .. Requests -> Nat]
    <2>1. CASE Register = "RDBUFF"  BY <1>1, <2>1 DEF Accept
    <2>2. CASE Register # "RDBUFF"
      <3>1. hits' = [hits EXCEPT ![Tag] = @ + 1]  BY <2>2 DEF Accept
      <3>2. QED  BY <1>1, <3>1, BumpType
    <2>3. QED  BY <2>1, <2>2
  <1>6. Value \in 0 .. Requests
    BY <1>1, <1>2 DEF Value
  <1>7. QED  BY <1>3, <1>4, <1>5, <1>6
-----------------------------------------------------------------------------
LEMMA InitTypeInv == Init => TypeInv
  BY NoCommandIsPacket DEF Init, TypeInv, TypeOK, Counters, PC, Total, Requests, Cur,
     NoCommand, Op, TransferPoints, BlockPoints, InRequest

LEMMA LoadTypeInv ==
  ASSUME TypeInv, NEW p \in Packets \cup {NoCommand}, Load(p), active' = active, limit' = limit,
         \/ pc' = "idle"
         \/ p.kind = "transfer" /\ pc' = "fetch"
         \/ p.kind = "block" /\ pc' = "bstart"
  PROVE  TypeInv'
  <1>1. Len(p.req) \in Nat /\ Len(p.byte) \in Nat  BY PacketFacts
  <1>2. TypeOK'
    <2>1. words' \in Seq(0 .. Requests') /\ hits' \in [1 .. Requests' -> Nat]
      BY <1>1 DEF Load, Requests
    <2>2. left' \in 0 .. Requests' /\ pos' \in 0 .. Total' /\ count' \in 0 .. Requests'
          /\ latch' \in 0 .. Requests'
      BY <1>1 DEF Load, Requests, Total
    <2>3. QED  BY <2>1, <2>2 DEF TypeInv, TypeOK, Load, PC, Op
  <1>3. /\ cmd' = p /\ count' = 0 /\ left' = Len(p.req) /\ Cur' = 0
        /\ Requests' = Len(p.req)
    BY <1>1 DEF Load, Cur, Requests
  <1>4. Counters'
    BY <1>3 DEF Counters, TransferPoints, BlockPoints, InRequest
  <1>5. QED  BY <1>2, <1>4 DEF TypeInv

LEMMA FetchTypeInv == TypeInv /\ Fetch => TypeInv'
  <1> SUFFICES ASSUME TypeInv, Fetch PROVE TypeInv'  OBVIOUS
  <1>1. op' \in Op
    BY CmdFacts, ByteIsOp DEF TypeInv, TypeOK, Fetch, cursor, Available, Total
  <1>0. posted' \in BOOLEAN
    BY DEF TypeInv, TypeOK, Fetch
  <1>2. TypeOK'
    BY SMTT(60), <1>0, <1>1, CmdFacts
    DEF TypeInv, Counters, Fetch, Available, Complete, HasData, IsMatch, IsWrite, WordBytes, NeedsFinal, AfterData, SkipSize, Op,
        TypeOK, host, cursor, resp, target, Requests, Total, PC, AccessPoints, Cur, TransferPoints, BlockPoints, InRequest
  <1>3. Counters'
    BY SMTT(60), CmdFacts
    DEF TypeInv, Fetch, Available, Complete, HasData, IsMatch, IsWrite, WordBytes, NeedsFinal, AfterData, SkipSize, Op,
        Counters, host, cursor, resp, Requests, Cur, TransferPoints, BlockPoints, InRequest
  <1>4. QED  BY <1>2, <1>3 DEF TypeInv

LEMMA ExecTypeInv == TypeInv /\ Exec => TypeInv'
  <1> SUFFICES ASSUME TypeInv, Exec PROVE TypeInv'  OBVIOUS
  <1>1. /\ pos' \in 0 .. Total
        /\ count' \in 0 .. Requests
        /\ pc' \in PC
    BY SMTT(30), CmdFacts
    DEF TypeInv, TypeOK, Counters, InRequest, Exec, Available, WordBytes, Complete, PC, resp,
        AccessPoints, AfterData, Cur
  <1>2. TypeOK'
    BY ZenonT(60), <1>1 DEF TypeInv, TypeOK, Exec, host, resp, target, Requests, Total, Complete
  <1>3. Counters'
    BY SMTT(60), CmdFacts
    DEF TypeInv, Exec, Available, Complete, HasData, IsMatch, IsWrite, WordBytes, NeedsFinal, AfterData, SkipSize, Op,
        Counters, host, cursor, resp, Requests, Cur, TransferPoints, BlockPoints, InRequest
  <1>4. QED  BY <1>2, <1>3 DEF TypeInv

LEMMA SkipTypeInv == TypeInv /\ Skip => TypeInv'
  <1> SUFFICES ASSUME TypeInv, Skip PROVE TypeInv'  OBVIOUS
  <1>1. op' \in Op
    BY CmdFacts, ByteIsOp DEF TypeInv, TypeOK, Skip, cursor, Available, Total
  <1>2. TypeOK'
    BY SMTT(60), <1>1, CmdFacts
    DEF TypeInv, Counters, Skip, Available, Complete, HasData, IsMatch, IsWrite, WordBytes, NeedsFinal, AfterData, SkipSize, Op,
        TypeOK, host, cursor, resp, target, Requests, Total, PC, AccessPoints, Cur, TransferPoints, BlockPoints, InRequest
  <1>3. Counters'
    BY SMTT(60), CmdFacts
    DEF TypeInv, Skip, Available, Complete, HasData, IsMatch, IsWrite, WordBytes, NeedsFinal, AfterData, SkipSize, Op,
        Counters, host, cursor, resp, Requests, Cur, TransferPoints, BlockPoints, InRequest
  <1>4. QED  BY <1>2, <1>3 DEF TypeInv

LEMMA BlockStartTypeInv == TypeInv /\ BlockStart => TypeInv'
  <1> SUFFICES ASSUME TypeInv, BlockStart PROVE TypeInv'  OBVIOUS
  <1>2. TypeOK'
    BY SMTT(60), CmdFacts
    DEF TypeInv, Counters, BlockStart, Available, Complete, HasData, IsMatch, IsWrite, WordBytes, NeedsFinal, AfterData, SkipSize, Op,
        TypeOK, host, cursor, resp, target, Requests, Total, PC, AccessPoints, Cur, TransferPoints, BlockPoints, InRequest
  <1>3. Counters'
    BY SMTT(60), CmdFacts
    DEF TypeInv, BlockStart, Available, Complete, HasData, IsMatch, IsWrite, WordBytes, NeedsFinal, AfterData, SkipSize, Op,
        Counters, host, cursor, resp, Requests, Cur, TransferPoints, BlockPoints, InRequest
  <1>4. QED  BY <1>2, <1>3 DEF TypeInv

LEMMA BlockFetchTypeInv == TypeInv /\ BlockFetch => TypeInv'
  <1> SUFFICES ASSUME TypeInv, BlockFetch PROVE TypeInv'  OBVIOUS
  <1>2. TypeOK'
    BY SMTT(60), CmdFacts
    DEF TypeInv, Counters, BlockFetch, Available, Complete, HasData, IsMatch, IsWrite, WordBytes, NeedsFinal, AfterData, SkipSize, Op,
        TypeOK, host, cursor, resp, target, Requests, Total, PC, AccessPoints, Cur, TransferPoints, BlockPoints, InRequest
  <1>3. Counters'
    BY SMTT(60), CmdFacts
    DEF TypeInv, BlockFetch, Available, Complete, HasData, IsMatch, IsWrite, WordBytes, NeedsFinal, AfterData, SkipSize, Op,
        Counters, host, cursor, resp, Requests, Cur, TransferPoints, BlockPoints, InRequest
  <1>4. QED  BY <1>2, <1>3 DEF TypeInv

LEMMA DrainOkTypeInv == TypeInv /\ DrainOk => TypeInv'
  <1> SUFFICES ASSUME TypeInv, DrainOk PROVE TypeInv'  OBVIOUS
  <1>1. /\ latch' \in 0 .. Requests /\ buffered' \in BOOLEAN
        /\ hits' \in [1 .. Requests -> Nat] /\ Value \in 0 .. Requests
    BY AcceptType DEF DrainOk, Accepted, AccessPoints
  <1>0. words' \in Seq(0 .. Requests)
    BY <1>1, CmdFacts DEF DrainOk, TypeInv, TypeOK
  <1>2. TypeOK'
    BY SMTT(60), <1>0, <1>1, CmdFacts
    DEF TypeInv, Counters, DrainOk, Accepted, Complete, MatchRetried,
        TypeOK, host, cursor, resp, target, Requests, Total, PC, AccessPoints, Cur, TransferPoints, BlockPoints, InRequest
  <1>3. Counters'
    BY SMTT(60), CmdFacts
    DEF TypeInv, DrainOk, Accepted, Complete, MatchRetried,
        Counters, host, cursor, resp, Requests, Cur, TransferPoints, BlockPoints, InRequest
  <1>4. QED  BY <1>2, <1>3 DEF TypeInv

LEMMA PostOkTypeInv == TypeInv /\ PostOk => TypeInv'
  <1> SUFFICES ASSUME TypeInv, PostOk PROVE TypeInv'  OBVIOUS
  <1>1. /\ latch' \in 0 .. Requests /\ buffered' \in BOOLEAN
        /\ hits' \in [1 .. Requests -> Nat] /\ Value \in 0 .. Requests
    BY AcceptType DEF PostOk, Accepted, AccessPoints
  <1>2. TypeOK'
    BY ZenonT(60), <1>1, CmdFacts
    DEF TypeInv, Counters, PostOk, Accepted, Complete, MatchRetried,
        TypeOK, host, cursor, resp, target, Requests, Total, PC, AccessPoints, Cur, TransferPoints, BlockPoints, InRequest
  <1>3. Counters'
    BY SMTT(60), CmdFacts
    DEF TypeInv, PostOk, Accepted, Complete, MatchRetried,
        Counters, host, cursor, resp, Requests, Cur, TransferPoints, BlockPoints, InRequest
  <1>4. QED  BY <1>2, <1>3 DEF TypeInv

LEMMA DpReadOkTypeInv == TypeInv /\ DpReadOk => TypeInv'
  <1> SUFFICES ASSUME TypeInv, DpReadOk PROVE TypeInv'  OBVIOUS
  <1>1. /\ latch' \in 0 .. Requests /\ buffered' \in BOOLEAN
        /\ hits' \in [1 .. Requests -> Nat] /\ Value \in 0 .. Requests
    BY AcceptType DEF DpReadOk, Accepted, AccessPoints
  <1>0. words' \in Seq(0 .. Requests)
    BY <1>1, CmdFacts DEF DpReadOk, TypeInv, TypeOK
  <1>2. TypeOK'
    BY ZenonT(60), <1>0, <1>1, CmdFacts
    DEF TypeInv, Counters, DpReadOk, Accepted, Complete, MatchRetried,
        TypeOK, host, cursor, resp, target, Requests, Total, PC, AccessPoints, Cur, TransferPoints, BlockPoints, InRequest
  <1>3. Counters'
    BY SMTT(60), CmdFacts
    DEF TypeInv, DpReadOk, Accepted, Complete, MatchRetried,
        Counters, host, cursor, resp, Requests, Cur, TransferPoints, BlockPoints, InRequest
  <1>4. QED  BY <1>2, <1>3 DEF TypeInv

LEMMA MatchPostOkTypeInv == TypeInv /\ MatchPostOk => TypeInv'
  <1> SUFFICES ASSUME TypeInv, MatchPostOk PROVE TypeInv'  OBVIOUS
  <1>1. /\ latch' \in 0 .. Requests /\ buffered' \in BOOLEAN
        /\ hits' \in [1 .. Requests -> Nat] /\ Value \in 0 .. Requests
    BY AcceptType DEF MatchPostOk, Accepted, AccessPoints
  <1>2. TypeOK'
    BY SMTT(60), <1>1, CmdFacts
    DEF TypeInv, Counters, MatchPostOk, Accepted, Complete, MatchRetried,
        TypeOK, host, cursor, resp, target, Requests, Total, PC, AccessPoints, Cur, TransferPoints, BlockPoints, InRequest
  <1>3. Counters'
    BY SMTT(60), CmdFacts
    DEF TypeInv, MatchPostOk, Accepted, Complete, MatchRetried,
        Counters, host, cursor, resp, Requests, Cur, TransferPoints, BlockPoints, InRequest
  <1>4. QED  BY <1>2, <1>3 DEF TypeInv

LEMMA MatchOkTypeInv == TypeInv /\ MatchOk => TypeInv'
  <1> SUFFICES ASSUME TypeInv, MatchOk PROVE TypeInv'  OBVIOUS
  <1>1. /\ latch' \in 0 .. Requests /\ buffered' \in BOOLEAN
        /\ hits' \in [1 .. Requests -> Nat] /\ Value \in 0 .. Requests
    BY AcceptType DEF MatchOk, Accepted, AccessPoints
  <1>4. mretry' = mretry \/ mretry' = mretry + 1
    BY DEF MatchOk, MatchRetried
  <1>5. mretry' \in Nat /\ written' \in BOOLEAN
    <2>1. written' = FALSE \/ written' = written  BY DEF MatchOk
    <2>2. written' \in BOOLEAN  BY <2>1 DEF TypeInv, TypeOK
    <2>3. mretry' \in Nat  BY <1>4 DEF TypeInv, TypeOK
    <2>4. QED  BY <2>2, <2>3
  <1>6. count' \in 0 .. Requests
    BY CmdFacts DEF TypeInv, TypeOK, Counters, InRequest, MatchOk, Complete, resp, Cur
  <1>7. pc' \in PC /\ ack' \in {"OK", "WAIT", "FAULT", "ERROR", "NONE"}
    BY DEF TypeInv, TypeOK, MatchOk, Complete, PC, resp
  <1>2. TypeOK'
    BY SMTT(60), <1>1, <1>5, <1>6, <1>7
    DEF TypeInv, TypeOK, MatchOk, Accepted, host, cursor, resp, Requests, Total, Complete
  <1>3. Counters'
    BY SMTT(60), CmdFacts
    DEF TypeInv, MatchOk, Accepted, Complete, MatchRetried,
        Counters, host, cursor, resp, Requests, Cur, TransferPoints, BlockPoints, InRequest
  <1>8. QED  BY <1>2, <1>3 DEF TypeInv

LEMMA WriteOkTypeInv == TypeInv /\ WriteOk => TypeInv'
  <1> SUFFICES ASSUME TypeInv, WriteOk PROVE TypeInv'  OBVIOUS
  <1>1. /\ latch' \in 0 .. Requests /\ buffered' \in BOOLEAN
        /\ hits' \in [1 .. Requests -> Nat] /\ Value \in 0 .. Requests
    BY AcceptType DEF WriteOk, Accepted, AccessPoints
  <1>2. TypeOK'
    BY SMTT(60), <1>1, CmdFacts
    DEF TypeInv, Counters, WriteOk, Accepted, Complete, MatchRetried,
        TypeOK, host, cursor, resp, target, Requests, Total, PC, AccessPoints, Cur, TransferPoints, BlockPoints, InRequest
  <1>3. Counters'
    BY SMTT(60), CmdFacts
    DEF TypeInv, WriteOk, Accepted, Complete, MatchRetried,
        Counters, host, cursor, resp, Requests, Cur, TransferPoints, BlockPoints, InRequest
  <1>4. QED  BY <1>2, <1>3 DEF TypeInv

LEMMA FinalOkTypeInv == TypeInv /\ FinalOk => TypeInv'
  <1> SUFFICES ASSUME TypeInv, FinalOk PROVE TypeInv'  OBVIOUS
  <1>1. /\ latch' \in 0 .. Requests /\ buffered' \in BOOLEAN
        /\ hits' \in [1 .. Requests -> Nat] /\ Value \in 0 .. Requests
    BY AcceptType DEF FinalOk, Accepted, AccessPoints
  <1>0. words' \in Seq(0 .. Requests)
    <2>1. words \in Seq(0 .. Requests)  BY DEF TypeInv, TypeOK
    <2>2. Append(words, Value) \in Seq(0 .. Requests)  BY <1>1, <2>1
    <2>3. QED  BY <2>1, <2>2 DEF FinalOk
  <1>2. TypeOK'
    BY SMTT(60), <1>0, <1>1, CmdFacts
    DEF TypeInv, Counters, FinalOk, Accepted, Complete, MatchRetried,
        TypeOK, host, cursor, resp, target, Requests, Total, PC, AccessPoints, Cur, TransferPoints, BlockPoints, InRequest
  <1>3. Counters'
    BY SMTT(60), CmdFacts
    DEF TypeInv, FinalOk, Accepted, Complete, MatchRetried,
        Counters, host, cursor, resp, Requests, Cur, TransferPoints, BlockPoints, InRequest
  <1>4. QED  BY <1>2, <1>3 DEF TypeInv

LEMMA BlockPostOkTypeInv == TypeInv /\ BlockPostOk => TypeInv'
  <1> SUFFICES ASSUME TypeInv, BlockPostOk PROVE TypeInv'  OBVIOUS
  <1>1. /\ latch' \in 0 .. Requests /\ buffered' \in BOOLEAN
        /\ hits' \in [1 .. Requests -> Nat] /\ Value \in 0 .. Requests
    BY AcceptType DEF BlockPostOk, Accepted, AccessPoints
  <1>2. TypeOK'
    BY SMTT(60), <1>1, CmdFacts
    DEF TypeInv, Counters, BlockPostOk, Accepted, Complete, MatchRetried,
        TypeOK, host, cursor, resp, target, Requests, Total, PC, AccessPoints, Cur, TransferPoints, BlockPoints, InRequest
  <1>3. Counters'
    BY SMTT(60), CmdFacts
    DEF TypeInv, BlockPostOk, Accepted, Complete, MatchRetried,
        Counters, host, cursor, resp, Requests, Cur, TransferPoints, BlockPoints, InRequest
  <1>4. QED  BY <1>2, <1>3 DEF TypeInv

LEMMA BlockReadOkTypeInv == TypeInv /\ BlockReadOk => TypeInv'
  <1> SUFFICES ASSUME TypeInv, BlockReadOk PROVE TypeInv'  OBVIOUS
  <1>1. /\ latch' \in 0 .. Requests /\ buffered' \in BOOLEAN
        /\ hits' \in [1 .. Requests -> Nat] /\ Value \in 0 .. Requests
    BY AcceptType DEF BlockReadOk, Accepted, AccessPoints
  <1>0. words' \in Seq(0 .. Requests)
    BY <1>1, CmdFacts DEF BlockReadOk, TypeInv, TypeOK
  <1>2. TypeOK'
    BY SMTT(60), <1>0, <1>1, CmdFacts
    DEF TypeInv, Counters, BlockReadOk, Accepted, Complete, MatchRetried,
        TypeOK, host, cursor, resp, target, Requests, Total, PC, AccessPoints, Cur, TransferPoints, BlockPoints, InRequest
  <1>3. Counters'
    BY SMTT(60), CmdFacts
    DEF TypeInv, BlockReadOk, Accepted, Complete, MatchRetried,
        Counters, host, cursor, resp, Requests, Cur, TransferPoints, BlockPoints, InRequest
  <1>4. QED  BY <1>2, <1>3 DEF TypeInv

LEMMA BlockWriteOkTypeInv == TypeInv /\ BlockWriteOk => TypeInv'
  <1> SUFFICES ASSUME TypeInv, BlockWriteOk PROVE TypeInv'  OBVIOUS
  <1>1. /\ latch' \in 0 .. Requests /\ buffered' \in BOOLEAN
        /\ hits' \in [1 .. Requests -> Nat] /\ Value \in 0 .. Requests
    BY AcceptType DEF BlockWriteOk, Accepted, AccessPoints
  <1>2. TypeOK'
    BY SMTT(60), <1>1, CmdFacts
    DEF TypeInv, Counters, BlockWriteOk, Accepted, Complete, MatchRetried,
        TypeOK, host, cursor, resp, target, Requests, Total, PC, AccessPoints, Cur, TransferPoints, BlockPoints, InRequest
  <1>3. Counters'
    BY SMTT(60), CmdFacts
    DEF TypeInv, BlockWriteOk, Accepted, Complete, MatchRetried,
        Counters, host, cursor, resp, Requests, Cur, TransferPoints, BlockPoints, InRequest
  <1>4. QED  BY <1>2, <1>3 DEF TypeInv

LEMMA BlockCheckOkTypeInv == TypeInv /\ BlockCheckOk => TypeInv'
  <1> SUFFICES ASSUME TypeInv, BlockCheckOk PROVE TypeInv'  OBVIOUS
  <1>1. /\ latch' \in 0 .. Requests /\ buffered' \in BOOLEAN
        /\ hits' \in [1 .. Requests -> Nat] /\ Value \in 0 .. Requests
    BY AcceptType DEF BlockCheckOk, Accepted, AccessPoints
  <1>2. TypeOK'
    BY SMTT(60), <1>1, CmdFacts
    DEF TypeInv, Counters, BlockCheckOk, Accepted, Complete, MatchRetried,
        TypeOK, host, cursor, resp, target, Requests, Total, PC, AccessPoints, Cur, TransferPoints, BlockPoints, InRequest
  <1>3. Counters'
    BY SMTT(60), CmdFacts
    DEF TypeInv, BlockCheckOk, Accepted, Complete, MatchRetried,
        Counters, host, cursor, resp, Requests, Cur, TransferPoints, BlockPoints, InRequest
  <1>4. QED  BY <1>2, <1>3 DEF TypeInv

LEMMA RetryTypeInv == TypeInv /\ Retry => TypeInv'
  <1> SUFFICES ASSUME TypeInv, Retry PROVE TypeInv'  OBVIOUS
  <1>2. TypeOK'
    BY SMTT(60), CmdFacts
    DEF TypeInv, Counters, Retry, Fail, MatchRetried, AccessPoints,
        TypeOK, host, cursor, resp, target, Requests, Total, PC, AccessPoints, Cur, TransferPoints, BlockPoints, InRequest
  <1>3. Counters'
    BY SMTT(60), CmdFacts
    DEF TypeInv, Retry, Fail, MatchRetried, AccessPoints,
        Counters, host, cursor, resp, Requests, Cur, TransferPoints, BlockPoints, InRequest
  <1>4. QED  BY <1>2, <1>3 DEF TypeInv

LEMMA WaitExhaustedTypeInv == TypeInv /\ WaitExhausted => TypeInv'
  <1> SUFFICES ASSUME TypeInv, WaitExhausted PROVE TypeInv'  OBVIOUS
  <1>2. TypeOK'
    BY SMTT(60), CmdFacts
    DEF TypeInv, Counters, WaitExhausted, Fail, MatchRetried, AccessPoints,
        TypeOK, host, cursor, resp, target, Requests, Total, PC, AccessPoints, Cur, TransferPoints, BlockPoints, InRequest
  <1>3. Counters'
    BY SMTT(60), CmdFacts
    DEF TypeInv, WaitExhausted, Fail, MatchRetried, AccessPoints,
        Counters, host, cursor, resp, Requests, Cur, TransferPoints, BlockPoints, InRequest
  <1>4. QED  BY <1>2, <1>3 DEF TypeInv

LEMMA FaultTypeInv == TypeInv /\ Fault => TypeInv'
  <1> SUFFICES ASSUME TypeInv, Fault PROVE TypeInv'  OBVIOUS
  <1>2. TypeOK'
    BY SMTT(60), CmdFacts
    DEF TypeInv, Counters, Fault, Fail, MatchRetried, AccessPoints,
        TypeOK, host, cursor, resp, target, Requests, Total, PC, AccessPoints, Cur, TransferPoints, BlockPoints, InRequest
  <1>3. Counters'
    BY SMTT(60), CmdFacts
    DEF TypeInv, Fault, Fail, MatchRetried, AccessPoints,
        Counters, host, cursor, resp, Requests, Cur, TransferPoints, BlockPoints, InRequest
  <1>4. QED  BY <1>2, <1>3 DEF TypeInv

LEMMA NotConnectedTypeInv == TypeInv /\ NotConnected => TypeInv'
  <1> SUFFICES ASSUME TypeInv, NotConnected PROVE TypeInv'  OBVIOUS
  <1>2. TypeOK'
    BY SMTT(60), CmdFacts
    DEF TypeInv, Counters, NotConnected, Fail, MatchRetried, AccessPoints,
        TypeOK, host, cursor, resp, target, Requests, Total, PC, AccessPoints, Cur, TransferPoints, BlockPoints, InRequest
  <1>3. Counters'
    BY SMTT(60), CmdFacts
    DEF TypeInv, NotConnected, Fail, MatchRetried, AccessPoints,
        Counters, host, cursor, resp, Requests, Cur, TransferPoints, BlockPoints, InRequest
  <1>4. QED  BY <1>2, <1>3 DEF TypeInv

LEMMA WireErrorTypeInv == TypeInv /\ WireError => TypeInv'
  <1> SUFFICES ASSUME TypeInv, WireError PROVE TypeInv'  OBVIOUS
  <1>1. /\ latch' \in 0 .. Requests /\ buffered' \in BOOLEAN
        /\ hits' \in [1 .. Requests -> Nat]
    BY AcceptType DEF WireError, target, TypeInv, TypeOK
  <1>2. TypeOK'
    BY SMTT(60), <1>1, CmdFacts
    DEF TypeInv, Counters, WireError, Fail, MatchRetried, AccessPoints,
        TypeOK, host, cursor, resp, target, Requests, Total, PC, AccessPoints, Cur, TransferPoints, BlockPoints, InRequest
  <1>3. Counters'
    BY SMTT(60), CmdFacts
    DEF TypeInv, WireError, Fail, MatchRetried, AccessPoints,
        Counters, host, cursor, resp, Requests, Cur, TransferPoints, BlockPoints, InRequest
  <1>4. QED  BY <1>2, <1>3 DEF TypeInv

LEMMA HostTypeInv == TypeInv /\ Host => TypeInv'
  <1> SUFFICES ASSUME TypeInv, Host PROVE TypeInv'  OBVIOUS
  <1>1. CASE Command
    <2>1. PICK p \in Packets :
             Load(p) /\ pc' = IF p.kind = "transfer" THEN "fetch" ELSE "bstart"
      BY <1>1 DEF Command
    <2>2. p.kind \in {"transfer", "block"}  BY PacketFacts
    <2>3. QED  BY <1>1, <2>1, <2>2, LoadTypeInv DEF Command
  <1>2. CASE Connect \/ Disconnect \/ TransferConfigure
    <2>1. UNCHANGED <<cmd, pc, cursor, posted, written, resp, retry, mretry, target>>
      BY <1>2 DEF Connect, Disconnect, TransferConfigure
    <2>2. /\ active' \in Ports \cup {"None"}
          /\ limit' \in [retry : RetryCounts, match : MatchRetries]
      BY <1>2 DEF Connect, Disconnect, TransferConfigure, TypeInv, TypeOK
    <2>3. TypeOK'
      BY <2>1, <2>2 DEF TypeInv, TypeOK, cursor, resp, target, Requests, Total
    <2>4. Counters'
      BY <2>1 DEF TypeInv, Counters, cursor, resp, Requests, Cur
    <2>5. QED  BY <2>3, <2>4 DEF TypeInv
  <1>3. QED  BY <1>1, <1>2 DEF Host

LEMMA RespondTypeInv == TypeInv /\ Respond => TypeInv'
  BY LoadTypeInv DEF Respond

(* Every step preserves the type invariant and the counters it rests on. *)
LEMMA StepTypeInv == TypeInv /\ [Next]_vars => TypeInv'
  <1> SUFFICES ASSUME TypeInv, [Next]_vars PROVE TypeInv'  OBVIOUS
  <1>1. CASE UNCHANGED vars
    BY <1>1 DEF vars, host, cursor, resp, target, TypeInv, TypeOK, Counters, Requests, Total, Cur
  <1>2. CASE Host  BY <1>2, HostTypeInv
  <1>3. CASE Transfer
    BY <1>3, FetchTypeInv, ExecTypeInv, SkipTypeInv, DrainOkTypeInv, PostOkTypeInv,
       DpReadOkTypeInv, MatchPostOkTypeInv, MatchOkTypeInv, WriteOkTypeInv, FinalOkTypeInv
    DEF Transfer
  <1>4. CASE TransferBlock
    BY <1>4, BlockStartTypeInv, BlockPostOkTypeInv, BlockReadOkTypeInv, BlockFetchTypeInv,
       BlockWriteOkTypeInv, BlockCheckOkTypeInv
    DEF TransferBlock
  <1>5. CASE AccessFailed
    BY <1>5, RetryTypeInv, WaitExhaustedTypeInv, FaultTypeInv, WireErrorTypeInv,
       NotConnectedTypeInv
    DEF AccessFailed
  <1>6. CASE Respond  BY <1>6, RespondTypeInv
  <1>7. QED  BY <1>1, <1>2, <1>3, <1>4, <1>5, <1>6 DEF Next, Dispatcher

LEMMA TypeInvAlways == Spec => []TypeInv
  BY InitTypeInv, StepTypeInv, PTL DEF Spec

(* TypeOK holds for every set of packets and every retry limit: the loop   *)
(* counters of the dispatcher never run past the requests of the packet,   *)
(* and the cursor never leaves it.                                         *)
THEOREM TypeCorrect == Spec => []TypeOK
  <1>1. TypeInv => TypeOK  BY DEF TypeInv
  <1>2. QED  BY <1>1, TypeInvAlways, PTL
-----------------------------------------------------------------------------
(* What an access that is not accepted leaves behind: it is made again, or *)
(* the command ends with its error. WireError may have been accepted.      *)
Again ==
  /\ pc \in AccessPoints
  /\ UNCHANGED <<host, pc, cursor, posted, written, resp, target>>

Ended ==
  /\ pc \in AccessPoints
  /\ ack' \in {"WAIT", "FAULT", "ERROR"}
  /\ pc' = IF pc = "final" \/ cmd.kind = "block" THEN "done" ELSE "skip"
  /\ UNCHANGED <<host, cursor, posted, written, count, words>>
  /\ Accept \/ UNCHANGED target

LEMMA FailureOutcomes == AccessFailed => Again \/ Ended
  BY DEF AccessFailed, Retry, WaitExhausted, Fault, WireError, NotConnected, Fail, Again, Ended

(* The layout of the packet at request i. *)
LEMMA RequestFacts ==
  ASSUME TypeOK, NEW i \in 1 .. Requests
  PROVE  /\ i - 1 \in 0 .. Requests
         /\ cmd.req[i] \in Op
         /\ cmd.end[i] = cmd.end[i - 1] + Size(cmd.kind, cmd.req[i])
         /\ cmd.rank[i] = cmd.rank[i - 1] + (IF IsRead(cmd.req[i]) THEN 1 ELSE 0)
         /\ cmd.kind = "transfer" => cmd.byte[cmd.end[i - 1] + 1] = cmd.req[i]
         /\ cmd.kind = "block" => cmd.req[i] = cmd.req[1]
         /\ cmd.end[i - 1] \in Nat /\ cmd.rank[i - 1] \in Nat
  <1>1. IsPacket(cmd)  BY KnownPackets DEF TypeOK
  <1>2. /\ Requests = Len(cmd.req) /\ Requests \in Nat /\ cmd.req \in Seq(Op)
    BY CmdFacts DEF Requests
  <1>3. i - 1 \in 0 .. Requests /\ cmd.req[i] \in Op  BY <1>2
  <1>4. /\ cmd.end[i] = cmd.end[i - 1] + Size(cmd.kind, cmd.req[i])
        /\ cmd.rank[i] = cmd.rank[i - 1] + (IF IsRead(cmd.req[i]) THEN 1 ELSE 0)
        /\ cmd.kind = "transfer" => cmd.byte[cmd.end[i - 1] + 1] = cmd.req[i]
        /\ cmd.kind = "block" => cmd.req[i] = cmd.req[1]
    BY <1>1, <1>2 DEF IsPacket
  <1>5. cmd.end[i - 1] \in Nat /\ cmd.rank[i - 1] \in Nat
    BY <1>1, <1>2, <1>3 DEF IsPacket
  <1>6. QED  BY <1>3, <1>4, <1>5

LEMMA StartFacts ==
  ASSUME TypeOK
  PROVE  cmd.end[0] = 0 /\ cmd.rank[0] = 0
  BY KnownPackets DEF TypeOK, IsPacket

(* What stands at an access or in the middle of an iteration. *)
LEMMA InRequestFacts ==
  ASSUME TypeInv, pc \in InRequest \ {"bwrite"}
  PROVE  /\ cmd.kind = "transfer" /\ Cur \in 1 .. Requests
         /\ cmd.end[Cur] = cmd.end[Cur - 1] + Size("transfer", cmd.req[Cur])
         /\ cmd.rank[Cur] = cmd.rank[Cur - 1] + (IF IsRead(cmd.req[Cur]) THEN 1 ELSE 0)
         /\ cmd.end[Cur - 1] \in Nat /\ cmd.rank[Cur - 1] \in Nat
  <1>1. cmd.kind = "transfer"
    BY DEF TypeInv, Counters, TransferPoints, InRequest
  <1>2. Cur \in 1 .. Requests
    BY CmdFacts DEF TypeInv, TypeOK, Counters, InRequest
  <1>3. QED  BY <1>1, <1>2, RequestFacts DEF TypeInv

(* The tag of an access of a request is that request. *)
LEMMA TagFacts ==
  ASSUME TypeInv, pc \in InRequest \ {"bwrite"}
  PROVE  Tag = Cur
  BY InRequestFacts DEF Tag
-----------------------------------------------------------------------------
(* How far the cursor and the response are, on any port. *)

(* While requests are executed the cursor stands where the host laid out   *)
(* the current one, and op is that request.                                *)
Aligned ==
  /\ pc \in InRequest \ {"bwrite"} => op = cmd.req[Cur]
  /\ pc = "fetch" => pos = cmd.end[Cur]
  /\ pc \in {"drain", "exec"} => pos = cmd.end[Cur - 1] + 1
  /\ pc \in {"post", "dpread", "mpost", "match", "write"} => pos = cmd.end[Cur]
  /\ pc = "post" => op = "APR"
  /\ pc = "dpread" => op = "DPR"
  /\ pc \in {"mpost", "match", "write"} => ~IsRead(op)
  /\ pc \in {"bpost", "bread"} => op = cmd.req[1] /\ IsRead(op)

(* How many values the response has, on any port.                          *)
Lengths ==
  /\ pc \in {"fetch", "final"} /\ posted =>
       Cur > 0 /\ cmd.req[Cur] = "APR" /\ Len(words) + 1 = cmd.rank[Cur]
  /\ pc \in {"fetch", "final"} /\ ~posted => Len(words) = cmd.rank[Cur]
  /\ pc = "drain" => Cur > 1 /\ cmd.req[Cur - 1] = "APR" /\ Len(words) + 1 = cmd.rank[Cur - 1]
  /\ pc \in {"exec", "post", "dpread", "mpost", "match", "write"} =>
       Len(words) = cmd.rank[Cur - 1]
  /\ pc = "exec" /\ posted => op = "APR"
  /\ pc \in {"post", "dpread", "mpost", "match", "write"} => ~posted
  /\ pc \in BlockPoints => Len(words) = cmd.rank[count]
  /\ pc \in {"bfetch", "bwrite", "bcheck"} => IsWrite(cmd.req[1])
  /\ pc = "skip" =>
       ack # "OK" /\ Len(words) <= cmd.rank[count] /\ cmd.rank[count] <= Len(words) + 1
  /\ ResponseComplete

LengthInv == Aligned /\ Lengths
LEMMA InitLength == Init => LengthInv
  BY DEF Init, LengthInv, Aligned, Lengths, ResponseComplete, InRequest, BlockPoints

LEMMA LoadLength ==
  ASSUME NEW p \in Packets \cup {NoCommand}, Load(p), pc' \in {"idle", "fetch", "bstart"}
  PROVE  LengthInv'
  <1>1. p.end[0] = 0 /\ p.rank[0] = 0 /\ Len(p.req) \in Nat
    BY KnownPackets DEF IsPacket
  <1>2. /\ cmd' = p /\ pos' = 0 /\ Cur' = 0 /\ Len(words') = 0 /\ posted' = FALSE /\ count' = 0
    BY <1>1 DEF Load, Cur, Requests
  <1>3. Aligned'  BY <1>1, <1>2 DEF Aligned, InRequest
  <1>4. Lengths'  BY <1>1, <1>2 DEF Lengths, ResponseComplete, BlockPoints
  <1>5. QED  BY <1>3, <1>4 DEF LengthInv

LEMMA HostLength == LengthInv /\ (Host \/ Respond) => LengthInv'
  <1> SUFFICES ASSUME LengthInv, Host \/ Respond PROVE LengthInv'  OBVIOUS
  <1>1. CASE Command \/ Respond
    BY <1>1, LoadLength DEF Command, Respond
  <1>2. CASE Connect \/ Disconnect \/ TransferConfigure
    BY <1>2 DEF Connect, Disconnect, TransferConfigure, LengthInv, Aligned, Lengths,
                ResponseComplete, InRequest, BlockPoints
  <1>3. QED  BY <1>1, <1>2 DEF Host

(* The number of values is that of the reads before the current request,   *)
(* or one less, wherever an access is made.                                *)
LEMMA RankFacts ==
  ASSUME TypeOK, NEW i \in 0 .. Requests
  PROVE  cmd.rank[i] \in Nat /\ cmd.end[i] \in Nat /\ cmd.end[i] <= Total
  <1>1. IsPacket(cmd) /\ Requests = Len(cmd.req) /\ Total = Len(cmd.byte)
    BY KnownPackets DEF TypeOK, Requests, Total
  <1>2. cmd.rank[i] \in Nat /\ cmd.end[i] \in Nat  BY <1>1 DEF IsPacket
  <1>3. CASE i = 0  BY <1>1, <1>3, CmdFacts DEF IsPacket
  <1>4. CASE i \in 1 .. Requests  BY <1>1, <1>4 DEF IsPacket
  <1>5. QED  BY <1>2, <1>3, <1>4, CmdFacts

LEMMA FailuresLength == LengthInv /\ TypeInv /\ AccessFailed => LengthInv'
  <1> SUFFICES ASSUME LengthInv, TypeInv, AccessFailed PROVE LengthInv'  OBVIOUS
  <1>1. CASE Again
    BY <1>1 DEF Again, host, cursor, resp, LengthInv, Aligned, Lengths, ResponseComplete,
                Requests, Cur
  <1>2. CASE Ended
    <2>1. /\ UNCHANGED <<cmd, count, words>> /\ ack' # "OK" /\ pc' \in {"skip", "done"}
          /\ pc \in AccessPoints
      BY <1>2 DEF Ended, host
    <2>2. /\ count \in 0 .. Requests /\ Len(words) \in Nat
      BY DEF TypeInv, TypeOK
    <2>3. Len(words) = cmd.rank[count] \/ Len(words) + 1 = cmd.rank[count]
      <3>1. CASE pc \in InRequest \ {"bwrite"}
        <4>1. count = Cur - 1
          BY <2>2, <3>1, CmdFacts DEF TypeInv, Counters
        <4>2. QED  BY <3>1, <4>1 DEF LengthInv, Lengths, InRequest
      <3>2. CASE pc = "final"
        <4>1. count = Cur  BY <3>2 DEF TypeInv, Counters
        <4>2. QED  BY <3>2, <4>1 DEF LengthInv, Lengths
      <3>3. CASE pc \in BlockPoints
        BY <3>3 DEF LengthInv, Lengths
      <3>4. QED  BY <2>1, <3>1, <3>2, <3>3 DEF AccessPoints, InRequest, BlockPoints
    <2>4. cmd.rank[count] \in Nat  BY <2>2, RankFacts DEF TypeInv
    <2>5. Len(words) <= cmd.rank[count] /\ cmd.rank[count] <= Len(words) + 1
      BY <2>2, <2>3, <2>4
    <2>6. Aligned'  BY <2>1 DEF Aligned, InRequest
    <2>7. Lengths'  BY <2>1, <2>5 DEF Lengths, ResponseComplete, BlockPoints
    <2>8. QED  BY <2>6, <2>7 DEF LengthInv
  <1>3. QED  BY <1>1, <1>2, FailureOutcomes

(* Taking the next request off the packet. *)
LEMMA FetchLength == LengthInv /\ TypeInv /\ Fetch => LengthInv'
  <1> SUFFICES ASSUME LengthInv, TypeInv, Fetch PROVE LengthInv'  OBVIOUS
  <1>0. TypeOK /\ pc = "fetch" /\ cmd' = cmd /\ words' = words /\ count' = count
    BY DEF TypeInv, Fetch, host, resp
  <1>1. /\ posted => Cur > 0 /\ cmd.req[Cur] = "APR" /\ Len(words) + 1 = cmd.rank[Cur]
        /\ ~posted => Len(words) = cmd.rank[Cur]
        /\ pos = cmd.end[Cur] /\ count = Cur
    BY <1>0 DEF LengthInv, Aligned, Lengths, TypeInv, Counters
  <1>2. CASE left = 0
    <2>1. Cur' = Cur /\ posted' = posted /\ pc' = (IF NeedsFinal THEN "final" ELSE "done")
      BY <1>0, <1>2, CmdFacts DEF Fetch, cursor, Cur, Requests
    <2>2. pc' = "done" => ~posted  BY <2>1 DEF NeedsFinal
    <2>3. Aligned'  BY <2>1 DEF Aligned, InRequest
    <2>4. Cur = Requests  BY <1>0, <1>2, CmdFacts DEF Cur
    <2>5. pc' = "done" => ResponseComplete'
      BY <1>0, <1>1, <2>2, <2>4, RankFacts, CmdFacts DEF ResponseComplete, Requests, TypeOK
    <2>6. Lengths'
      BY <1>0, <1>1, <2>1, <2>5 DEF Lengths, BlockPoints, ResponseComplete
    <2>7. QED  BY <2>3, <2>6 DEF LengthInv
  <1>3. CASE left # 0
    <2>1. /\ left' = left - 1 /\ op' = cmd.byte[pos + 1] /\ pos' = pos + 1
          /\ pc' = (IF posted THEN "drain" ELSE "exec")
          /\ (~posted => ~posted')
      BY <1>0, <1>3 DEF Fetch
    <2>2. Cur' = Cur + 1 /\ Cur' \in 1 .. Requests /\ Cur \in Nat
      BY <1>0, <1>3, <2>1, CmdFacts DEF Cur, Requests
    <2>3. cmd.kind = "transfer"  BY <1>0 DEF TypeInv, Counters, TransferPoints
    <2>4. op' = cmd.req[Cur + 1]  BY SMTT(30), <1>0, <1>1, <2>1, <2>2, <2>3, RequestFacts
    <2>5. Aligned'  BY <1>0, <1>1, <2>1, <2>2, <2>4 DEF Aligned, InRequest
    <2>6. Lengths'
      BY <1>0, <1>1, <2>1, <2>2 DEF Lengths, ResponseComplete, BlockPoints
    <2>7. QED  BY <2>5, <2>6 DEF LengthInv
  <1>4. QED  BY <1>2, <1>3

LEMMA ExecLength == LengthInv /\ TypeInv /\ Exec => LengthInv'
  <1> SUFFICES ASSUME LengthInv, TypeInv, Exec PROVE LengthInv'  OBVIOUS
  <1>0. /\ pc = "exec" /\ cmd' = cmd /\ words' = words
        /\ op' = op /\ posted' = posted /\ Cur' = Cur
    BY DEF Exec, host, resp, Cur, Requests
  <1>1. /\ op = cmd.req[Cur] /\ pos = cmd.end[Cur - 1] + 1
        /\ Len(words) = cmd.rank[Cur - 1]
        /\ posted => op = "APR"
    BY <1>0 DEF LengthInv, Aligned, Lengths, InRequest
  <1>2. /\ Cur \in 1 .. Requests /\ cmd.end[Cur - 1] \in Nat /\ cmd.rank[Cur - 1] \in Nat
        /\ cmd.end[Cur] = cmd.end[Cur - 1] + 1 + (IF HasData(op) THEN 4 ELSE 0)
        /\ cmd.rank[Cur] = cmd.rank[Cur - 1] + (IF IsRead(op) THEN 1 ELSE 0)
    BY <1>0, <1>1, InRequestFacts DEF InRequest, Size, WordBytes
  <1>3. /\ pos' = cmd.end[Cur]
        /\ pc' \in {"fetch", "post", "dpread", "mpost", "match", "write"}
        /\ pc' = "fetch" => (op = "APR" /\ posted) \/ op = "MASK"
        /\ pc' = "post" => op = "APR" /\ ~posted
        /\ pc' = "dpread" => op = "DPR"
        /\ pc' \in {"mpost", "match", "write"} => ~IsRead(op)
    BY <1>1, <1>2 DEF Exec, Complete, AfterData, HasData, IsMatch, IsWrite, IsRead, WordBytes
  <1>4. Aligned'
    BY <1>0, <1>1, <1>3 DEF Aligned, InRequest
  <1>5. Lengths'
    BY <1>0, <1>1, <1>2, <1>3 DEF Lengths, IsRead, ResponseComplete, BlockPoints
  <1>6. QED  BY <1>4, <1>5 DEF LengthInv

LEMMA SkipLength == LengthInv /\ Skip => LengthInv'
  <1> SUFFICES ASSUME LengthInv, Skip PROVE LengthInv'  OBVIOUS
  <1>1. /\ pc = "skip" /\ pc' \in {"skip", "done"} /\ UNCHANGED <<cmd, count, words, ack>>
    BY DEF Skip, host, resp
  <1>2. Aligned'  BY <1>1 DEF Aligned, InRequest
  <1>3. Lengths'  BY <1>1 DEF LengthInv, Lengths, ResponseComplete, BlockPoints
  <1>4. QED  BY <1>2, <1>3 DEF LengthInv

(* One more value. *)
LEMMA AppendLength ==
  ASSUME TypeOK, NEW v \in 0 .. Requests, words' = Append(words, v)
  PROVE  Len(words) \in Nat /\ Len(words') = Len(words) + 1
  BY DEF TypeOK

LEMMA DrainOkLength == LengthInv /\ TypeInv /\ DrainOk => LengthInv'
  <1> SUFFICES ASSUME LengthInv, TypeInv, DrainOk PROVE LengthInv'  OBVIOUS
  <1>0. /\ pc = "drain" /\ pc' = "exec" /\ cmd' = cmd
        /\ op' = op /\ pos' = pos /\ Cur' = Cur /\ posted' = (op = "APR") /\ TypeOK
    BY DEF DrainOk, TypeInv, host, cursor, Cur, Requests
  <1>1. Len(words') = Len(words) + 1
    BY <1>0, AcceptType, AppendLength DEF DrainOk, Accepted, AccessPoints
  <1>2. Aligned'  BY <1>0 DEF LengthInv, Aligned, InRequest
  <1>3. Lengths'  BY <1>0, <1>1 DEF LengthInv, Lengths, ResponseComplete, BlockPoints
  <1>4. QED  BY <1>2, <1>3 DEF LengthInv

(* A request is complete: its value is returned, posted, or there is none. *)
LEMMA CompleteLength ==
  ASSUME LengthInv, TypeInv, pc \in {"post", "dpread", "match", "write"}, pc' = "fetch",
         UNCHANGED <<cmd, pos, left>>,
         \/ pc = "post" /\ posted' = TRUE /\ words' = words
         \/ pc = "dpread" /\ posted' = posted /\ Len(words') = Len(words) + 1
         \/ pc \in {"match", "write"} /\ posted' = posted /\ words' = words
  PROVE  LengthInv'
  <1>0. Cur' = Cur  BY DEF Cur, Requests
  <1>1. /\ op = cmd.req[Cur] /\ pos = cmd.end[Cur] /\ Len(words) = cmd.rank[Cur - 1] /\ ~posted
        /\ pc = "post" => op = "APR"
        /\ pc = "dpread" => op = "DPR"
        /\ pc \in {"match", "write"} => ~IsRead(op)
    BY DEF LengthInv, Aligned, Lengths, InRequest
  <1>2. /\ Cur \in 1 .. Requests /\ cmd.rank[Cur - 1] \in Nat
        /\ cmd.rank[Cur] = cmd.rank[Cur - 1] + (IF IsRead(op) THEN 1 ELSE 0)
    BY <1>1, InRequestFacts DEF InRequest
  <1>3. Aligned'  BY <1>0, <1>1 DEF Aligned, InRequest
  <1>4. Lengths'
    BY <1>0, <1>1, <1>2 DEF Lengths, IsRead, ResponseComplete, BlockPoints
  <1>5. QED  BY <1>3, <1>4 DEF LengthInv

LEMMA CompletionsLength ==
  ASSUME LengthInv, TypeInv, PostOk \/ DpReadOk \/ WriteOk
  PROVE  LengthInv'
  <1>1. CASE PostOk \/ WriteOk
    BY <1>1, CompleteLength DEF PostOk, WriteOk, Complete, host, cursor
  <1>2. CASE DpReadOk
    <2>1. Len(words') = Len(words) + 1
      BY <1>2, AcceptType, AppendLength DEF DpReadOk, Accepted, AccessPoints, TypeInv
    <2>2. QED  BY <1>2, <2>1, CompleteLength DEF DpReadOk, Complete, host, cursor
  <1>3. QED  BY <1>1, <1>2

LEMMA MatchLength ==
  ASSUME LengthInv, TypeInv, MatchPostOk \/ MatchOk
  PROVE  LengthInv'
  <1>1. /\ pc \in {"mpost", "match"} /\ UNCHANGED <<cmd, words, pos, left, op, posted>>
        /\ Cur' = Cur
    BY DEF MatchPostOk, MatchOk, host, cursor, resp, Cur, Requests
  <1>2. CASE pc' = "fetch"
    BY <1>1, <1>2, CompleteLength DEF MatchPostOk, MatchOk
  <1>3. CASE pc' = "match"
    <2>1. Aligned'  BY <1>1, <1>3 DEF LengthInv, Aligned, InRequest
    <2>2. Lengths'
      BY <1>1, <1>3 DEF LengthInv, Lengths, ResponseComplete, BlockPoints
    <2>3. QED  BY <2>1, <2>2 DEF LengthInv
  <1>4. CASE pc' = "skip"
    <2>1. pc = "match" /\ ack' = "ERROR" /\ count' = count
      BY <1>4 DEF MatchPostOk, MatchOk, Complete
    <2>2. count = Cur - 1 /\ Len(words) \in Nat
      BY <2>1, CmdFacts DEF TypeInv, TypeOK, Counters, InRequest
    <2>3. Len(words) = cmd.rank[count]  BY <2>1, <2>2 DEF LengthInv, Lengths
    <2>4. Aligned'  BY <1>4 DEF Aligned, InRequest
    <2>5. Lengths'
      BY <1>1, <1>4, <2>1, <2>2, <2>3 DEF Lengths, ResponseComplete, BlockPoints
    <2>6. QED  BY <2>4, <2>5 DEF LengthInv
  <1>5. QED  BY <1>2, <1>3, <1>4 DEF MatchPostOk, MatchOk, Complete

LEMMA FinalOkLength == LengthInv /\ TypeInv /\ FinalOk => LengthInv'
  <1> SUFFICES ASSUME LengthInv, TypeInv, FinalOk PROVE LengthInv'  OBVIOUS
  <1>0. /\ pc = "final" /\ pc' = "done" /\ cmd' = cmd /\ count' = count /\ TypeOK
    BY DEF FinalOk, TypeInv, host
  <1>1. count = Cur /\ Cur = Requests
    BY <1>0, CmdFacts DEF TypeInv, Counters, Cur
  <1>2. Len(words') = cmd.rank[Requests]
    <2>1. CASE posted
      <3>1. Len(words) + 1 = cmd.rank[Cur]  BY <1>0, <2>1 DEF LengthInv, Lengths
      <3>2. Len(words') = Len(words) + 1
        BY <1>0, <2>1, AcceptType, AppendLength DEF FinalOk, Accepted, AccessPoints
      <3>3. QED  BY <1>1, <3>1, <3>2
    <2>2. CASE ~posted
      BY <1>0, <1>1, <2>2 DEF FinalOk, LengthInv, Lengths
    <2>3. QED  BY <2>1, <2>2
  <1>3. Requests' = Requests /\ cmd.rank[Requests] \in Nat
    BY <1>0, CmdFacts, RankFacts DEF Requests
  <1>4. ResponseComplete'
    BY <1>0, <1>1, <1>2, <1>3 DEF ResponseComplete
  <1>5. Aligned' /\ Lengths'
    BY <1>0, <1>4 DEF Aligned, Lengths, InRequest, BlockPoints
  <1>6. QED  BY <1>5 DEF LengthInv

LEMMA BlockStartLength == LengthInv /\ TypeInv /\ BlockStart => LengthInv'
  <1> SUFFICES ASSUME LengthInv, TypeInv, BlockStart PROVE LengthInv'  OBVIOUS
  <1>0. /\ pc = "bstart" /\ UNCHANGED <<cmd, words, count>> /\ TypeOK
        /\ cmd.kind = "block" /\ count = 0 /\ left = Requests
    BY DEF BlockStart, TypeInv, Counters, BlockPoints, host
  <1>1. Len(words) = cmd.rank[0] /\ cmd.rank[0] = 0
    BY <1>0, StartFacts DEF LengthInv, Lengths, BlockPoints
  <1>2. CASE left = 0
    <2>1. pc' = "done" /\ ack' = "NONE"  BY <1>0, <1>2 DEF BlockStart
    <2>2. Aligned' /\ Lengths'
      BY <1>0, <1>1, <1>2, <2>1 DEF Aligned, Lengths, InRequest, BlockPoints, ResponseComplete
    <2>3. QED  BY <2>2 DEF LengthInv
  <1>3. CASE left # 0
    <2>1. /\ op' = cmd.req[1]
          /\ pc' = IF op' = "APR" THEN "bpost" ELSE IF op' = "DPR" THEN "bread" ELSE "bfetch"
      BY <1>0, <1>3 DEF BlockStart
    <2>2. op' \in {"DPR", "APR", "DPW", "APW"}
      <3>1. 1 \in 1 .. Len(cmd.req)
        BY <1>0, <1>3, CmdFacts DEF Requests
      <3>2. QED  BY <1>0, <2>1, <3>1, KnownPackets DEF TypeOK, IsPacket
    <2>3. Aligned'  BY <1>0, <2>1 DEF Aligned, InRequest, IsRead
    <2>4. Lengths'
      BY <1>0, <1>1, <2>1, <2>2 DEF Lengths, BlockPoints, IsWrite, ResponseComplete
    <2>5. QED  BY <2>3, <2>4 DEF LengthInv
  <1>4. QED  BY <1>2, <1>3

LEMMA BlockReadOkLength == LengthInv /\ TypeInv /\ BlockReadOk => LengthInv'
  <1> SUFFICES ASSUME LengthInv, TypeInv, BlockReadOk PROVE LengthInv'  OBVIOUS
  <1>0. /\ pc = "bread" /\ pc' = (IF left = 1 THEN "done" ELSE "bread")
        /\ cmd' = cmd /\ op' = op /\ count' = count + 1
        /\ cmd.kind = "block" /\ TypeOK
    BY DEF BlockReadOk, TypeInv, Counters, BlockPoints, host
  <1>1. Len(words) = cmd.rank[count] /\ op = cmd.req[1] /\ IsRead(op)
    BY <1>0 DEF LengthInv, Aligned, Lengths, BlockPoints
  <1>2. /\ count \in Nat /\ count + 1 \in 1 .. Requests /\ (count + 1) - 1 = count
        /\ left = 1 => count + 1 = Requests
    BY <1>0, CmdFacts DEF TypeInv, TypeOK, Counters, Cur, Requests
  <1>3. Len(words') = Len(words) + 1
    BY <1>0, AcceptType, AppendLength DEF BlockReadOk, Accepted, AccessPoints
  <1>4. cmd.rank[count + 1] = Len(words') /\ cmd.rank[count + 1] \in Nat
    <2>1. cmd.rank[count] \in Nat /\ cmd.req[count + 1] = op
      BY <1>0, <1>1, <1>2, RequestFacts
    <2>2. cmd.rank[count + 1] = cmd.rank[count] + 1
      BY <1>0, <1>1, <1>2, <2>1, RequestFacts
    <2>3. QED  BY <1>1, <1>3, <2>1, <2>2
  <1>5. Aligned'  BY <1>0, <1>1 DEF Aligned, InRequest
  <1>6. ResponseComplete'
    BY <1>0, <1>2, <1>4 DEF ResponseComplete, Requests
  <1>7. Lengths'  BY <1>0, <1>4, <1>6 DEF Lengths, BlockPoints
  <1>8. QED  BY <1>5, <1>7 DEF LengthInv

LEMMA BlockLength ==
  ASSUME LengthInv, TypeInv, BlockPostOk \/ BlockFetch \/ BlockCheckOk \/ BlockWriteOk
  PROVE  LengthInv'
  <1>0. /\ pc \in BlockPoints /\ UNCHANGED <<cmd, words>> /\ TypeOK
        /\ count \in 0 .. Requests /\ Len(words) = cmd.rank[count] /\ cmd.kind = "block"
    BY DEF BlockPostOk, BlockFetch, BlockCheckOk, BlockWriteOk, BlockPoints, host, resp,
           LengthInv, Lengths, TypeInv, TypeOK, Counters
  <1>1. CASE BlockPostOk
    <2>1. pc = "bpost" /\ pc' = "bread" /\ op' = op /\ count' = count /\ op = "APR"
      BY <1>1 DEF BlockPostOk, cursor, resp, TypeInv, Counters
    <2>2. Aligned'  BY <1>0, <2>1 DEF LengthInv, Aligned, InRequest
    <2>3. Lengths'  BY <1>0, <2>1 DEF Lengths, BlockPoints, ResponseComplete
    <2>4. QED  BY <2>2, <2>3 DEF LengthInv
  <1>2. CASE BlockFetch
    <2>1. pc = "bfetch" /\ pc' = "bwrite" /\ count' = count
      BY <1>2 DEF BlockFetch, resp
    <2>2. Aligned'  BY <2>1 DEF Aligned, InRequest
    <2>3. Lengths'
      BY <1>0, <2>1 DEF LengthInv, Lengths, BlockPoints, ResponseComplete
    <2>4. QED  BY <2>2, <2>3 DEF LengthInv
  <1>3. CASE BlockWriteOk
    <2>1. pc = "bwrite" /\ pc' \in {"bcheck", "bfetch"} /\ count' = count + 1
      BY <1>3 DEF BlockWriteOk
    <2>2. /\ count + 1 \in 1 .. Requests /\ (count + 1) - 1 = count /\ Requests \in Nat
      BY <1>0, <2>1, CmdFacts DEF TypeInv, Counters, InRequest
    <2>3. IsWrite(cmd.req[1])  BY <2>1 DEF LengthInv, Lengths
    <2>4. cmd.rank[count + 1] = cmd.rank[count] + 0
      BY <1>0, <2>2, <2>3, RequestFacts DEF IsWrite, IsRead
    <2>5. cmd.rank[count + 1] = cmd.rank[count]
      BY <1>0, <2>4, RankFacts
    <2>6. Aligned'  BY <2>1 DEF Aligned, InRequest
    <2>7. Lengths'
      BY <1>0, <2>1, <2>3, <2>5 DEF Lengths, BlockPoints, ResponseComplete
    <2>8. QED  BY <2>6, <2>7 DEF LengthInv
  <1>4. CASE BlockCheckOk
    <2>1. pc = "bcheck" /\ pc' = "done" /\ count' = count /\ Requests' = Requests
      BY <1>0, <1>4 DEF BlockCheckOk, resp, Requests
    <2>2. count = Requests
      BY <1>0, <2>1, CmdFacts DEF TypeInv, Counters, Cur
    <2>3. cmd.rank[count] \in Nat  BY <1>0, RankFacts
    <2>4. Aligned' /\ Lengths'
      BY <1>0, <2>1, <2>2, <2>3 DEF Aligned, Lengths, InRequest, BlockPoints, ResponseComplete
    <2>5. QED  BY <2>4 DEF LengthInv
  <1>5. QED  BY <1>1, <1>2, <1>3, <1>4

LEMMA StepLength == LengthInv /\ TypeInv /\ [Next]_vars => LengthInv'
  <1> SUFFICES ASSUME LengthInv, TypeInv, [Next]_vars PROVE LengthInv'  OBVIOUS
  <1>1. CASE UNCHANGED vars
    BY <1>1 DEF vars, host, cursor, resp, LengthInv, Aligned, Lengths, ResponseComplete,
                Requests, Cur
  <1>2. CASE Transfer
    BY <1>2, FetchLength, ExecLength, SkipLength, DrainOkLength, CompletionsLength, MatchLength,
       FinalOkLength
    DEF Transfer
  <1>3. CASE TransferBlock
    BY <1>3, BlockStartLength, BlockReadOkLength, BlockLength DEF TransferBlock
  <1>4. QED
    BY <1>1, <1>2, <1>3, HostLength, FailuresLength DEF Next, Dispatcher

LEMMA LengthAlways == Spec => []LengthInv
  BY InitLength, StepLength, TypeInvAlways, PTL DEF Spec

(* On either port, for every packet and every acknowledge: DAP_OK answers  *)
(* every request, with a value for every read; behind an error at most the *)
(* value of the last counted read is missing.                              *)
THEOREM Completes == Spec => []ResponseComplete
  <1>1. LengthInv => ResponseComplete  BY DEF LengthInv, Lengths
  <1>2. QED  BY <1>1, LengthAlways, PTL
-----------------------------------------------------------------------------
(* The order of the response, on a port that answers a DP read at once.    *)

(* The one value that is missing is what the target holds.                 *)
Latched ==
  /\ pc \in {"fetch", "final", "exec"} /\ posted => latch = Cur
  /\ pc = "drain" => latch = Cur - 1
  /\ pc = "bread" /\ op = "APR" => latch = count + 1

LEMMA LatchedTransfer ==
  ASSUME Latched, LengthInv, TypeInv, Transfer
  PROVE  Latched'
  <1>1. CASE Fetch
    <2>1. /\ pc = "fetch" /\ latch' = latch /\ Cur \in Nat /\ (posted => latch = Cur)
      BY <1>1, CmdFacts DEF Fetch, target, Latched, TypeInv
    <2>2. CASE left = 0
      <3>1. Cur' = Cur /\ posted' = posted /\ pc' \in {"final", "done"}
        BY <1>1, <2>2, CmdFacts DEF Fetch, host, cursor, Cur, Requests, TypeInv
      <3>2. QED  BY <2>1, <3>1 DEF Latched
    <2>3. CASE left # 0
      <3>1. /\ left' = left - 1 /\ cmd' = cmd
            /\ pc' = (IF posted THEN "drain" ELSE "exec")
            /\ (~posted => ~posted')
        BY <1>1, <2>3 DEF Fetch, host
      <3>2. Cur' = Cur + 1
        BY <2>3, <3>1, CmdFacts DEF Cur, Requests, TypeInv
      <3>3. QED  BY <2>1, <3>1, <3>2 DEF Latched
    <2>4. QED  BY <2>2, <2>3
  <1>2. CASE Exec
    <2>1. /\ pc = "exec" /\ UNCHANGED <<latch, posted>> /\ Cur' = Cur
          /\ pc' \in {"fetch", "post", "dpread", "mpost", "match", "write"}
      BY <1>2 DEF Exec, Complete, AfterData, host, target, Cur, Requests
    <2>2. QED  BY <2>1 DEF Latched
  <1>3. CASE DrainOk \/ PostOk
    <2>1. /\ pc \in {"drain", "post"} /\ Cur' = Cur /\ Accept
          /\ pc = "drain" => posted' = (op = "APR") /\ pc' = "exec"
          /\ pc = "post" => op = "APR" /\ pc' = "fetch"
      BY <1>3 DEF DrainOk, PostOk, Accepted, Complete, host, cursor, Cur, Requests, LengthInv,
                  Aligned
    <2>2. op = "APR" => latch' = Cur
      BY <2>1, TagFacts DEF Accept, Register, Writing, IsAP, InRequest
    <2>3. QED  BY <2>1, <2>2 DEF Latched
  <1>4. CASE DpReadOk \/ WriteOk \/ MatchOk
    <2>1. pc \in {"dpread", "write", "match"} /\ posted' = posted
          /\ pc' \in {"fetch", "match", "skip"}
      BY <1>4 DEF DpReadOk, WriteOk, MatchOk, Complete
    <2>2. ~posted  BY <2>1 DEF LengthInv, Lengths
    <2>3. QED  BY <2>1, <2>2 DEF Latched
  <1>5. CASE Skip \/ MatchPostOk \/ FinalOk
    BY <1>5 DEF Skip, MatchPostOk, FinalOk, Latched
  <1>6. QED  BY <1>1, <1>2, <1>3, <1>4, <1>5 DEF Transfer

LEMMA LatchedBlock ==
  ASSUME Latched, LengthInv, TypeInv, TransferBlock
  PROVE  Latched'
  <1>1. CASE BlockStart
    BY <1>1 DEF BlockStart, Latched
  <1>2. CASE BlockPostOk
    <2>1. /\ pc = "bpost" /\ pc' = "bread" /\ count' = count /\ cmd.kind = "block" /\ op = "APR"
      BY <1>2 DEF BlockPostOk, TypeInv, Counters, BlockPoints, resp
    <2>2. latch' = count + 1
      BY <1>2, <2>1 DEF BlockPostOk, Accepted, Accept, Register, Tag, Writing, IsAP
    <2>3. QED  BY <2>1, <2>2 DEF Latched
  <1>3. CASE BlockReadOk
    <2>1. /\ pc = "bread" /\ pc' = (IF left = 1 THEN "done" ELSE "bread") /\ op' = op
          /\ count' = count + 1 /\ cmd.kind = "block" /\ count \in Nat
      BY <1>3 DEF BlockReadOk, TypeInv, TypeOK, Counters, BlockPoints
    <2>2. op = "APR" /\ left # 1 => latch' = count + 2
      BY <1>3, <2>1 DEF BlockReadOk, Accepted, Accept, Register, Tag, Writing, IsAP
    <2>3. QED  BY <2>1, <2>2 DEF Latched
  <1>4. CASE BlockFetch \/ BlockWriteOk \/ BlockCheckOk
    BY <1>4 DEF BlockFetch, BlockWriteOk, BlockCheckOk, Latched
  <1>5. QED  BY <1>1, <1>2, <1>3, <1>4 DEF TransferBlock

LEMMA StepLatched == Latched /\ LengthInv /\ TypeInv /\ [Next]_vars => Latched'
  <1> SUFFICES ASSUME Latched, LengthInv, TypeInv, [Next]_vars PROVE Latched'  OBVIOUS
  <1>1. CASE UNCHANGED vars
    BY <1>1 DEF vars, host, cursor, resp, target, Latched, Cur, Requests
  <1>2. CASE Host \/ Respond
    <2>1. pc' \in {"idle", "bstart"} \/ (pc' = "fetch" /\ posted' = FALSE)
      BY <1>2 DEF Host, Connect, Disconnect, TransferConfigure, Command, Respond, Load
    <2>2. QED  BY <2>1 DEF Latched
  <1>3. CASE AccessFailed
    <2>1. CASE Again
      BY <2>1 DEF Again, host, cursor, resp, target, Latched, Cur, Requests
    <2>2. CASE Ended  BY <2>2 DEF Ended, Latched
    <2>3. QED  BY <1>3, <2>1, <2>2, FailureOutcomes
  <1>4. QED
    BY <1>1, <1>2, <1>3, LatchedTransfer, LatchedBlock DEF Next, Dispatcher

LEMMA LatchedAlways == Spec => []Latched
  <1>1. Init => Latched  BY DEF Init, Latched
  <1>2. QED  BY <1>1, StepLatched, LengthAlways, TypeInvAlways, PTL DEF Spec
-----------------------------------------------------------------------------
(* A value that belongs to the next read keeps the response in order. *)
LEMMA AppendInOrder ==
  ASSUME TypeOK, ResponseInOrder, cmd' = cmd,
         NEW v \in 1 .. Requests, IsRead(cmd.req[v]), cmd.rank[v] = Len(words) + 1,
         words' = Append(words, v)
  PROVE  ResponseInOrder'
  <1>1. words \in Seq(0 .. Requests) /\ Len(words) \in Nat  BY DEF TypeOK
  <1>2. /\ DOMAIN words' = 1 .. Len(words) + 1
        /\ words'[Len(words) + 1] = v
        /\ \A j \in 1 .. Len(words) : words'[j] = words[j]
        /\ DOMAIN words = 1 .. Len(words)
    BY <1>1
  <1>3. ASSUME NEW j \in DOMAIN words'
        PROVE  /\ words'[j] \in 1 .. Requests
               /\ IsRead(cmd.req[words'[j]])
               /\ cmd.rank[words'[j]] = j
    <2>1. CASE j = Len(words) + 1  BY <1>2, <2>1
    <2>2. CASE j \in 1 .. Len(words)  BY <1>2, <2>2 DEF ResponseInOrder
    <2>3. QED  BY <1>1, <1>2, <2>1, <2>2
  <1>4. QED  BY <1>3 DEF ResponseInOrder, Requests

(* A step that returns no value and makes no access keeps the response. *)
LEMMA SameWordsInOrder ==
  ResponseInOrder /\ words' = words /\ cmd' = cmd => ResponseInOrder'
  BY DEF ResponseInOrder, Requests

LEMMA DrainOkOrder ==
  ASSUME ResponseInOrder, Latched, LengthInv, TypeInv, DrainOk, active # "Jtag"
  PROVE  ResponseInOrder'
  <1>1. /\ pc = "drain" /\ cmd' = cmd /\ words' = Append(words, Value) /\ TypeOK
    BY DEF DrainOk, TypeInv, host
  <1>2. /\ Cur > 1 /\ cmd.req[Cur - 1] = "APR" /\ Len(words) + 1 = cmd.rank[Cur - 1]
        /\ latch = Cur - 1
    BY <1>1 DEF LengthInv, Lengths, Latched
  <1>3. Cur - 1 \in 1 .. Requests
    <2>1. Cur \in 1 .. Requests /\ Requests \in Nat
      BY <1>1, InRequestFacts, CmdFacts DEF InRequest
    <2>2. QED  BY <1>2, <2>1
  <1>4. Value = Cur - 1
    BY <1>1, <1>2 DEF Value, Register, IsAP
  <1>5. QED  BY <1>1, <1>2, <1>3, <1>4, AppendInOrder DEF IsRead

LEMMA DpReadOkOrder ==
  ASSUME ResponseInOrder, LengthInv, TypeInv, DpReadOk, active # "Jtag"
  PROVE  ResponseInOrder'
  <1>1. /\ pc = "dpread" /\ cmd' = cmd /\ words' = Append(words, Value) /\ TypeOK
    BY DEF DpReadOk, TypeInv, host
  <1>2. op = "DPR" /\ op = cmd.req[Cur] /\ Len(words) = cmd.rank[Cur - 1]
    BY <1>1 DEF LengthInv, Aligned, Lengths, InRequest
  <1>3. Cur \in 1 .. Requests /\ cmd.rank[Cur] = Len(words) + 1
    BY <1>1, <1>2, InRequestFacts DEF InRequest, IsRead
  <1>4. Value = Cur
    BY <1>1, <1>2, TagFacts DEF Value, Register, IsAP, InRequest
  <1>5. QED  BY <1>1, <1>2, <1>3, <1>4, AppendInOrder DEF IsRead

LEMMA FinalOkOrder ==
  ASSUME ResponseInOrder, Latched, LengthInv, TypeInv, FinalOk
  PROVE  ResponseInOrder'
  <1>1. /\ pc = "final" /\ cmd' = cmd /\ TypeOK
        /\ words' = IF posted THEN Append(words, Value) ELSE words
    BY DEF FinalOk, TypeInv, host
  <1>2. CASE ~posted
    BY <1>1, <1>2, SameWordsInOrder
  <1>3. CASE posted
    <2>1. /\ Cur > 0 /\ cmd.req[Cur] = "APR" /\ Len(words) + 1 = cmd.rank[Cur] /\ latch = Cur
      BY <1>1, <1>3 DEF LengthInv, Lengths, Latched
    <2>2. Cur \in 1 .. Requests  BY <1>1, <2>1, CmdFacts
    <2>3. Value = Cur  BY <1>1, <2>1 DEF Value, Register
    <2>4. QED
      BY <1>1, <1>3, <2>1, <2>2, <2>3, AppendInOrder DEF IsRead
  <1>4. QED  BY <1>2, <1>3

LEMMA BlockReadOkOrder ==
  ASSUME ResponseInOrder, Latched, LengthInv, TypeInv, BlockReadOk, active # "Jtag"
  PROVE  ResponseInOrder'
  <1>0. /\ pc = "bread" /\ cmd' = cmd /\ words' = Append(words, Value)
        /\ cmd.kind = "block" /\ TypeOK
    BY DEF BlockReadOk, TypeInv, Counters, BlockPoints, host
  <1>1. /\ op = cmd.req[1] /\ IsRead(op) /\ Len(words) = cmd.rank[count]
        /\ op = "APR" => latch = count + 1
    BY <1>0 DEF LengthInv, Aligned, Lengths, Latched, BlockPoints
  <1>2. count \in Nat /\ count + 1 \in 1 .. Requests
    BY <1>0, CmdFacts DEF TypeInv, TypeOK, Counters, Cur, Requests
  <1>3. cmd.req[count + 1] = op /\ cmd.rank[count + 1] = Len(words) + 1
    <2>1. (count + 1) - 1 = count  BY <1>2
    <2>2. cmd.rank[count] \in Nat  BY <1>0, <1>2, <2>1, RequestFacts
    <2>3. QED  BY <1>0, <1>1, <1>2, <2>1, <2>2, RequestFacts
  <1>4. Value = count + 1
    BY <1>0, <1>1 DEF Value, Register, Tag, IsAP, IsRead
  <1>5. QED  BY <1>0, <1>1, <1>2, <1>3, <1>4, AppendInOrder

(* One step, on a port that is not JTAG. *)
LEMMA StepOrder ==
  ASSUME ResponseInOrder, Latched, LengthInv, TypeInv, active # "Jtag", [Next]_vars
  PROVE  ResponseInOrder'
  <1>1. CASE Command \/ Respond
    BY <1>1 DEF Command, Respond, Load, ResponseInOrder
  <1>2. CASE UNCHANGED <<words, cmd>>
    BY <1>2, SameWordsInOrder
  <1>3. CASE DrainOk \/ DpReadOk \/ FinalOk \/ BlockReadOk
    BY <1>3, DrainOkOrder, DpReadOkOrder, FinalOkOrder, BlockReadOkOrder
  <1>4. CASE Transfer
    <2>1. \/ DrainOk \/ DpReadOk \/ FinalOk
          \/ UNCHANGED <<words, cmd>>
      BY <1>4 DEF Transfer, Fetch, Exec, Skip, PostOk, MatchPostOk, MatchOk, WriteOk, host, resp
    <2>2. QED  BY <1>2, <1>3, <2>1
  <1>5. CASE TransferBlock
    <2>1. BlockReadOk \/ UNCHANGED <<words, cmd>>
      BY <1>5 DEF TransferBlock, BlockStart, BlockPostOk, BlockFetch, BlockWriteOk, BlockCheckOk,
                  host, resp
    <2>2. QED  BY <1>2, <1>3, <2>1
  <1>6. CASE AccessFailed
    BY <1>2, <1>6, FailureOutcomes DEF Again, Ended, host, resp
  <1>7. CASE Connect \/ Disconnect \/ TransferConfigure \/ UNCHANGED vars
    BY <1>2, <1>7 DEF Connect, Disconnect, TransferConfigure, vars, host, resp
  <1>8. QED  BY <1>1, <1>4, <1>5, <1>6, <1>7 DEF Next, Dispatcher, Host

(* On a port that answers a read of the DP at once, the j-th value of      *)
(* every response of transfer() and transfer_block() is the one the j-th   *)
(* read asked for, for every packet the host can lay out, every retry      *)
(* limit and every acknowledge.                                            *)
THEOREM ResponseOrder ==
  ASSUME "Jtag" \notin Ports
  PROVE  Spec => []ResponseInOrder
  <1>1. TypeInv => active # "Jtag"
    BY DEF TypeInv, TypeOK
  <1>2. ResponseInOrder /\ Latched /\ LengthInv /\ TypeInv /\ [Next]_vars => ResponseInOrder'
    BY <1>1, StepOrder
  <1>3. Init => ResponseInOrder  BY DEF Init, ResponseInOrder
  <1>4. QED  BY <1>2, <1>3, LatchedAlways, LengthAlways, TypeInvAlways, PTL DEF Spec
-----------------------------------------------------------------------------
(* The accesses that are accepted, at the point each is made. *)
LEMMA AcceptsBuffer ==
  ASSUME Accepted
  PROVE  buffered' = (pc \in {"write", "bwrite"})
  BY DEF Accepted, Accept, Writing

(* A write the target still buffers is never forgotten by transfer():      *)
(* write_issued is set until some later access was accepted, and a read    *)
(* that was posted by the access that drained another is one.              *)
Confirmed ==
  /\ pc \in TransferPoints \ {"skip"} => (buffered => written)
  /\ pc = "exec" /\ posted => ~buffered
  /\ pc = "skip" => ack # "OK"
  /\ OkMeansConfirmed

LEMMA ConfirmedFetch == Confirmed /\ TypeInv /\ Fetch => Confirmed'
  <1> SUFFICES ASSUME Confirmed, TypeInv, Fetch PROVE Confirmed'  OBVIOUS
  <1>0. pc = "fetch" /\ UNCHANGED <<written, buffered, ack>>
    BY DEF Fetch, resp, target
  <1>1. buffered => written
    BY <1>0 DEF Confirmed, TransferPoints
  <1>5. buffered' => written'
    BY Zenon, <1>0, <1>1
  <1>2. CASE left = 0
    <2>1. pc' = IF NeedsFinal THEN "final" ELSE "done"
      BY <1>0, <1>2, CmdFacts DEF Fetch, TypeInv
    <2>2. pc' = "final" \/ (pc' = "done" /\ ~written)
      BY <2>1 DEF NeedsFinal
    <2>3. pc' = "final" => ~(pc' = "done")  OBVIOUS
    <2>4. pc' = "done" => ~buffered'  BY Zenon, <1>0, <1>1, <2>2, <2>3
    <2>5. pc' # "exec" /\ pc' # "skip"  BY <2>2
    <2>6. QED  BY Zenon, <1>5, <2>4, <2>5 DEF Confirmed, OkMeansConfirmed
  <1>3. CASE left # 0
    <2>1. pc' = (IF posted THEN "drain" ELSE "exec") /\ (~posted => ~posted')
      BY <1>0, <1>3 DEF Fetch
    <2>3. pc' # "skip" /\ pc' # "done" /\ ~(pc' = "exec" /\ posted')  BY <2>1
    <2>4. QED  BY Zenon, <1>5, <2>3 DEF Confirmed, OkMeansConfirmed
  <1>4. QED  BY <1>2, <1>3

LEMMA ConfirmedExec == Confirmed /\ Exec => Confirmed'
  <1> SUFFICES ASSUME Confirmed, Exec PROVE Confirmed'  OBVIOUS
  <1>1. /\ pc = "exec" /\ buffered' = buffered
        /\ buffered => written
        /\ posted => ~buffered
        /\ pc' \in {"fetch", "post", "dpread", "mpost", "match", "write"}
        /\ written' = written \/ posted
    BY DEF Exec, Complete, AfterData, Confirmed, TransferPoints, target
  <1>2. QED  BY <1>1 DEF Confirmed, OkMeansConfirmed, TransferPoints

LEMMA ConfirmedAccepts ==
  ASSUME Confirmed,
         \/ DrainOk \/ PostOk \/ DpReadOk \/ MatchPostOk \/ MatchOk \/ WriteOk \/ FinalOk
         \/ BlockPostOk \/ BlockReadOk \/ BlockWriteOk \/ BlockCheckOk
  PROVE  Confirmed'
  <1>1. Accepted
    BY DEF DrainOk, PostOk, DpReadOk, MatchPostOk, MatchOk, WriteOk, FinalOk, BlockPostOk,
           BlockReadOk, BlockWriteOk, BlockCheckOk
  <1>2. CASE pc = "write"
    <2>1. written' = TRUE /\ pc' = "fetch"
      BY <1>2 DEF DrainOk, PostOk, DpReadOk, MatchPostOk, MatchOk, WriteOk, FinalOk,
                  BlockPostOk, BlockReadOk, BlockWriteOk, BlockCheckOk, Complete
    <2>2. QED  BY <2>1 DEF Confirmed, OkMeansConfirmed
  <1>3. CASE pc = "bwrite"
    <2>1. pc' \in {"bcheck", "bfetch"}
      BY <1>3 DEF DrainOk, PostOk, DpReadOk, MatchPostOk, MatchOk, WriteOk, FinalOk,
                  BlockPostOk, BlockReadOk, BlockWriteOk, BlockCheckOk
    <2>2. QED  BY <2>1 DEF Confirmed, OkMeansConfirmed, TransferPoints
  <1>4. CASE pc \notin {"write", "bwrite"}
    <2>1. ~buffered'  BY <1>1, <1>4, AcceptsBuffer
    <2>2. pc' = "skip" => ack' = "ERROR"
      BY DEF DrainOk, PostOk, DpReadOk, MatchPostOk, MatchOk, WriteOk, FinalOk,
             BlockPostOk, BlockReadOk, BlockWriteOk, BlockCheckOk, Complete
    <2>3. QED  BY <2>1, <2>2 DEF Confirmed, OkMeansConfirmed
  <1>5. QED  BY <1>2, <1>3, <1>4

LEMMA ConfirmedFailures == Confirmed /\ TypeInv /\ AccessFailed => Confirmed'
  <1> SUFFICES ASSUME Confirmed, TypeInv, AccessFailed PROVE Confirmed'  OBVIOUS
  <1>1. CASE Again
    BY <1>1 DEF Again, Confirmed, OkMeansConfirmed, resp, target
  <1>2. CASE Ended
    <2>1. ack' # "OK" /\ pc' \in {"done", "skip"}  BY <1>2 DEF Ended
    <2>2. QED  BY <2>1 DEF Confirmed, OkMeansConfirmed, TransferPoints
  <1>3. QED  BY <1>1, <1>2, FailureOutcomes

LEMMA ConfirmedHost == Confirmed /\ (Host \/ Respond) => Confirmed'
  <1> SUFFICES ASSUME Confirmed, Host \/ Respond PROVE Confirmed'  OBVIOUS
  <1>1. CASE Command \/ Respond
    <2>1. pc' \in {"idle", "fetch", "bstart"} /\ buffered' = FALSE
      BY <1>1 DEF Command, Respond, Load
    <2>2. QED  BY <2>1 DEF Confirmed, OkMeansConfirmed
  <1>2. CASE Connect \/ Disconnect \/ TransferConfigure
    BY <1>2 DEF Connect, Disconnect, TransferConfigure, Confirmed, OkMeansConfirmed, TransferPoints
  <1>3. QED  BY <1>1, <1>2 DEF Host

LEMMA ConfirmedRest ==
  ASSUME Confirmed, Skip \/ BlockStart \/ BlockFetch
  PROVE  Confirmed'
  <1>1. CASE Skip
    BY <1>1 DEF Skip, Confirmed, OkMeansConfirmed, TransferPoints, resp, target
  <1>2. CASE BlockStart
    BY <1>2 DEF BlockStart, Confirmed, OkMeansConfirmed, TransferPoints
  <1>3. CASE BlockFetch
    BY <1>3 DEF BlockFetch, Confirmed, OkMeansConfirmed, TransferPoints
  <1>4. QED  BY <1>1, <1>2, <1>3

LEMMA StepConfirmed == Confirmed /\ TypeInv /\ [Next]_vars => Confirmed'
  <1> SUFFICES ASSUME Confirmed, TypeInv, [Next]_vars PROVE Confirmed'  OBVIOUS
  <1>1. CASE UNCHANGED vars
    BY <1>1 DEF vars, resp, target, Confirmed, OkMeansConfirmed
  <1>2. CASE Transfer
    BY <1>2, ConfirmedFetch, ConfirmedExec, ConfirmedAccepts, ConfirmedRest DEF Transfer
  <1>3. CASE TransferBlock
    BY <1>3, ConfirmedAccepts, ConfirmedRest DEF TransferBlock
  <1>4. QED
    BY <1>1, <1>2, <1>3, ConfirmedHost, ConfirmedFailures DEF Next, Dispatcher

(* DAP_OK means that some access was accepted behind the last write, on    *)
(* either port, for every packet and every acknowledge: no fault of a      *)
(* buffered write is left for the next command to meet.                    *)
THEOREM Confirms == Spec => []OkMeansConfirmed
  <1>1. Init => Confirmed
    BY DEF Init, Confirmed, OkMeansConfirmed, TransferPoints
  <1>2. Confirmed => OkMeansConfirmed  BY DEF Confirmed
  <1>3. QED  BY <1>1, <1>2, StepConfirmed, TypeInvAlways, PTL DEF Spec
-----------------------------------------------------------------------------
(* A match on an AP register was preceded by an AP read of the same        *)
(* request, so what the target holds is the value of that register.        *)
MatchPosted ==
  /\ pc = "mpost" => op = "APM"
  /\ pc = "match" => IsMatch(op) /\ (op = "APM" => latch = Cur)

LEMMA MatchPostedExec == MatchPosted /\ Exec => MatchPosted'
  <1> SUFFICES ASSUME MatchPosted, Exec PROVE MatchPosted'  OBVIOUS
  <1>1. op' = op /\ pc = "exec"  BY DEF Exec
  <1>2. pc' = "mpost" => op = "APM"
    BY <1>1 DEF Exec, Complete, AfterData
  <1>3. pc' = "match" => op = "DPM"
    BY <1>1 DEF Exec, Complete, AfterData
  <1>4. QED  BY <1>1, <1>2, <1>3 DEF MatchPosted, IsMatch

LEMMA MatchPostedMatch ==
  ASSUME MatchPosted, TypeInv, MatchPostOk \/ MatchOk
  PROVE  MatchPosted'
  <1>1. /\ pc \in {"mpost", "match"} /\ op' = op /\ Cur' = Cur /\ Accept
        /\ IsMatch(op)
        /\ pc' # "mpost"
    BY DEF MatchPostOk, MatchOk, Accepted, Complete, MatchPosted, IsMatch, host, cursor, Cur,
           Requests
  <1>2. op = "APM" => latch' = Cur
    BY <1>1, TagFacts DEF Accept, Register, Writing, IsAP, InRequest
  <1>3. QED  BY <1>1, <1>2 DEF MatchPosted

LEMMA StepMatchPosted == MatchPosted /\ TypeInv /\ [Next]_vars => MatchPosted'
  <1> SUFFICES ASSUME MatchPosted, TypeInv, [Next]_vars PROVE MatchPosted'  OBVIOUS
  <1>1. CASE UNCHANGED vars
    BY <1>1 DEF vars, host, cursor, target, MatchPosted, Cur, Requests
  <1>2. CASE Host \/ Respond
    BY <1>2 DEF Host, Connect, Disconnect, TransferConfigure, Command, Respond, MatchPosted
  <1>3. CASE Fetch \/ Skip \/ DrainOk \/ PostOk \/ DpReadOk \/ WriteOk \/ FinalOk \/ TransferBlock
    BY <1>3 DEF Fetch, Skip, DrainOk, PostOk, DpReadOk, WriteOk, FinalOk, Complete,
                TransferBlock, BlockStart, BlockPostOk, BlockReadOk, BlockFetch, BlockWriteOk,
                BlockCheckOk, MatchPosted
  <1>4. CASE AccessFailed
    <2>1. CASE Again
      BY <2>1 DEF Again, host, cursor, target, MatchPosted, Cur, Requests
    <2>2. CASE Ended  BY <2>2 DEF Ended, MatchPosted
    <2>3. QED  BY <1>4, <2>1, <2>2, FailureOutcomes
  <1>5. QED
    BY <1>1, <1>2, <1>3, <1>4, MatchPostedExec, MatchPostedMatch
    DEF Next, Dispatcher, Transfer

(* On SWD the value a match is compared with comes from the register the   *)
(* match names, for every packet: never from the AP read posted before it. *)
THEOREM MatchesOwn ==
  ASSUME "Jtag" \notin Ports
  PROVE  Spec => []MatchComparesOwnRegister
  <1>1. Init => MatchPosted  BY DEF Init, MatchPosted
  <1>2. MatchPosted /\ TypeInv => MatchComparesOwnRegister
    <2> SUFFICES ASSUME MatchPosted, TypeInv, pc = "match" PROVE Value = Cur
      BY DEF MatchComparesOwnRegister
    <2>1. Tag = Cur  BY TagFacts DEF InRequest
    <2>2. active # "Jtag"  BY DEF TypeInv, TypeOK
    <2>3. op \in {"DPM", "APM"} /\ (op = "APM" => latch = Cur)
      BY DEF MatchPosted, IsMatch
    <2>4. QED  BY <2>1, <2>2, <2>3 DEF Value, Register, IsAP
  <1>3. QED  BY <1>1, <1>2, StepMatchPosted, TypeInvAlways, PTL DEF Spec
-----------------------------------------------------------------------------
(* Where the cursor can stand, with how many requests left to take: at the *)
(* end of request m with no more requests left than the packet has, or     *)
(* inside the data of request m, and then at least as many requests short  *)
(* as it has taken bytes of the data for requests.                         *)
Boundary(p, l) == \E m \in 0 .. Requests : p = cmd.end[m] /\ l <= Requests - m
Inside(p, l) ==
  \E m \in 1 .. Requests, o \in 0 .. 3 :
    HasData(cmd.req[m]) /\ p + WordBytes = cmd.end[m] + o /\ l + o <= Requests - m
Place(p, l) == Boundary(p, l) \/ Inside(p, l)

LEMMA NextEnd ==
  ASSUME TypeOK, cmd.kind = "transfer", NEW m \in 0 .. Requests, m < Requests
  PROVE  /\ m + 1 \in 1 .. Requests
         /\ cmd.end[m] \in Nat
         /\ cmd.byte[cmd.end[m] + 1] = cmd.req[m + 1]
         /\ cmd.end[m + 1] = cmd.end[m] + (IF HasData(cmd.req[m + 1]) THEN 5 ELSE 1)
  <1>1. m + 1 \in 1 .. Requests /\ (m + 1) - 1 = m  BY CmdFacts
  <1>2. QED  BY <1>1, RequestFacts DEF Size, WordBytes

LEMMA PlaceBound ==
  ASSUME TypeOK, NEW p \in Nat, NEW l \in Nat, Place(p, l)
  PROVE  p <= Total
  <1>1. CASE Boundary(p, l)
    BY <1>1, RankFacts DEF Boundary
  <1>2. CASE Inside(p, l)
    <2>1. PICK m \in 1 .. Requests, o \in 0 .. 3 : p + 4 = cmd.end[m] + o
      BY <1>2 DEF Inside, WordBytes
    <2>2. cmd.end[m] \in Nat /\ cmd.end[m] <= Total /\ Total \in Nat
      BY RankFacts, CmdFacts
    <2>3. QED  BY <2>1, <2>2
  <1>3. QED  BY <1>1, <1>2 DEF Place

(* Taking one byte and counting one request leads to a place again. *)
LEMMA PlaceNext ==
  ASSUME TypeOK, cmd.kind = "transfer", NEW p \in Nat, NEW l \in Nat, l > 0, Place(p, l)
  PROVE  Place(p + 1, l - 1)
  <1>0. Requests \in Nat /\ l - 1 \in Nat  BY CmdFacts
  <1>1. CASE Boundary(p, l)
    <2>1. PICK m \in 0 .. Requests : p = cmd.end[m] /\ l <= Requests - m
      BY <1>1 DEF Boundary
    <2>2. m < Requests /\ l - 1 <= Requests - (m + 1)  BY <1>0, <2>1
    <2>3. /\ m + 1 \in 1 .. Requests /\ m + 1 \in 0 .. Requests
          /\ cmd.end[m + 1] = cmd.end[m] + (IF HasData(cmd.req[m + 1]) THEN 5 ELSE 1)
      BY <1>0, <2>2, NextEnd
    <2>4. CASE HasData(cmd.req[m + 1])
      <3>1. (p + 1) + WordBytes = cmd.end[m + 1] + 0 /\ (l - 1) + 0 <= Requests - (m + 1)
        BY <1>0, <2>1, <2>2, <2>3, <2>4 DEF WordBytes
      <3>2. Inside(p + 1, l - 1)  BY <2>3, <2>4, <3>1 DEF Inside
      <3>3. QED  BY <3>2 DEF Place
    <2>5. CASE ~HasData(cmd.req[m + 1])
      <3>1. Boundary(p + 1, l - 1)  BY <2>1, <2>2, <2>3, <2>5 DEF Boundary
      <3>2. QED  BY <3>1 DEF Place
    <2>6. QED  BY <2>4, <2>5
  <1>2. CASE Inside(p, l)
    <2>1. PICK m \in 1 .. Requests, o \in 0 .. 3 :
            HasData(cmd.req[m]) /\ p + WordBytes = cmd.end[m] + o /\ l + o <= Requests - m
      BY <1>2 DEF Inside
    <2>2. cmd.end[m] \in Nat /\ m \in 0 .. Requests  BY <1>0, RankFacts
    <2>3. CASE o < 3
      <3>1. /\ o + 1 \in 0 .. 3 /\ (p + 1) + WordBytes = cmd.end[m] + (o + 1)
            /\ (l - 1) + (o + 1) <= Requests - m
        BY <1>0, <2>1, <2>2, <2>3 DEF WordBytes
      <3>2. Inside(p + 1, l - 1)  BY <2>1, <3>1 DEF Inside
      <3>3. QED  BY <3>2 DEF Place
    <2>4. CASE o = 3
      <3>1. p + 1 = cmd.end[m] /\ l - 1 <= Requests - m
        BY <1>0, <2>1, <2>2, <2>4 DEF WordBytes
      <3>2. Boundary(p + 1, l - 1)  BY <2>2, <3>1 DEF Boundary
      <3>3. QED  BY <3>2 DEF Place
    <2>5. QED  BY <2>3, <2>4
  <1>3. QED  BY <1>1, <1>2 DEF Place

(* So does whatever the skip loop takes for a request: inside data, a word *)
(* behind the byte ends as far behind the next boundary as requests lack.  *)
LEMMA PlaceSkip ==
  ASSUME TypeOK, cmd.kind = "transfer", NEW p \in Nat, NEW l \in Nat, l > 0, Place(p, l)
  PROVE  Place(p + SkipSize(cmd.byte[p + 1]), l - 1)
  <1>0. Requests \in Nat  BY CmdFacts
  <1>1. CASE Boundary(p, l)
    <2>1. PICK m \in 0 .. Requests : p = cmd.end[m] /\ l <= Requests - m
      BY <1>1 DEF Boundary
    <2>2. m < Requests /\ l - 1 <= Requests - (m + 1)  BY <1>0, <2>1
    <2>3. /\ m + 1 \in 0 .. Requests
          /\ cmd.byte[p + 1] = cmd.req[m + 1]
          /\ cmd.end[m + 1] = p + (IF HasData(cmd.req[m + 1]) THEN 5 ELSE 1)
      BY <1>0, <2>1, <2>2, NextEnd
    <2>4. p + SkipSize(cmd.byte[p + 1]) = cmd.end[m + 1]
      BY <2>3 DEF SkipSize, HasData, WordBytes
    <2>5. QED  BY <2>2, <2>3, <2>4 DEF Place, Boundary
  <1>2. CASE Inside(p, l) /\ SkipSize(cmd.byte[p + 1]) = 1
    BY <1>2, PlaceNext
  <1>3. CASE Inside(p, l) /\ SkipSize(cmd.byte[p + 1]) = 5
    <2>1. PICK m \in 1 .. Requests, o \in 0 .. 3 :
            p + 4 = cmd.end[m] + o /\ l + o <= Requests - m
      BY <1>3 DEF Inside, WordBytes
    <2>2. cmd.end[m] \in Nat /\ m \in 0 .. Requests  BY <1>0, RankFacts
    <2> DEFINE At(k) == Place(cmd.end[m] + k, (l + o) - k)
    <2>3. At(0)
      <3>1. cmd.end[m] + 0 = cmd.end[m] /\ (l + o) - 0 <= Requests - m  BY <1>0, <2>1, <2>2
      <3>2. QED  BY <2>2, <3>1 DEF Place, Boundary
    <2>4. ASSUME NEW k \in 0 .. 3, k <= o, At(k) PROVE At(k + 1)
      <3>1. /\ cmd.end[m] + k \in Nat /\ (l + o) - k \in Nat /\ (l + o) - k > 0
            /\ (cmd.end[m] + k) + 1 = cmd.end[m] + (k + 1)
            /\ ((l + o) - k) - 1 = (l + o) - (k + 1)
        BY <2>1, <2>2, <2>4
      <3>2. Place((cmd.end[m] + k) + 1, ((l + o) - k) - 1)
        BY <2>4, <3>1, PlaceNext
      <3>3. QED  BY <3>1, <3>2
    <2> HIDE DEF At
    <2>5. At(1)  BY <2>1, <2>3, <2>4
    <2>6. o >= 1 => At(2)  BY <2>1, <2>4, <2>5
    <2>7. o >= 2 => At(3)  BY <2>1, <2>4, <2>6
    <2>8. o >= 3 => At(4)  BY <2>1, <2>4, <2>7
    <2>9. At(o + 1)  BY <2>1, <2>5, <2>6, <2>7, <2>8
    <2>10. cmd.end[m] + (o + 1) = p + 5 /\ (l + o) - (o + 1) = l - 1
      BY <2>1, <2>2
    <2>11. QED  BY <1>3, <2>9, <2>10 DEF At
  <1>4. SkipSize(cmd.byte[p + 1]) \in {1, 5}  BY DEF SkipSize, WordBytes
  <1>5. QED  BY <1>1, <1>2, <1>3, <1>4 DEF Place
-----------------------------------------------------------------------------
(* Behind an error the cursor stands at a place, and at the right one      *)
(* unless a drain failed ahead of data.                                    *)
Placed ==
  /\ pc \in {"final", "bstart", "bfetch", "bwrite"} => pos = cmd.end[Cur]
  /\ pc = "skip" => Place(pos, left)
  /\ pc = "skip" => pos = cmd.end[Cur] \/ DrainFailedBeforeData
  /\ ConsumedExceptAfterDrain

LEMMA AllConsumed ==
  ASSUME TypeOK
  PROVE  cmd.end[Requests] = Total
  BY KnownPackets DEF TypeOK, IsPacket, Requests, Total

LEMMA PlacedSkip ==
  ASSUME Placed, TypeInv, Skip
  PROVE  Placed'
  <1>1. /\ pc = "skip" /\ UNCHANGED <<cmd, count, words>> /\ cmd.kind = "transfer" /\ TypeOK
        /\ Place(pos, left) /\ (pos = cmd.end[Cur] \/ DrainFailedBeforeData)
        /\ pos \in Nat /\ left \in Nat
    BY CmdFacts DEF Skip, TypeInv, TypeOK, Counters, TransferPoints, Placed, host, resp
  <1>2. /\ DrainFailedBeforeData' = DrainFailedBeforeData
        /\ Requests' = Requests /\ Total' = Total
    BY <1>1 DEF DrainFailedBeforeData, Requests, Total
  <1>3. CASE left = 0
    <2>1. pc' = "done" /\ pos' = pos  BY <1>1, <1>3, CmdFacts DEF Skip, cursor
    <2>2. Cur = Requests  BY <1>1, <1>3, CmdFacts DEF Cur
    <2>3. pos' = Total' \/ DrainFailedBeforeData'
      BY <1>1, <1>2, <2>1, <2>2, AllConsumed
    <2>4. QED  BY <2>1, <2>3 DEF Placed, ConsumedExceptAfterDrain
  <1>4. CASE left # 0
    <2>1. /\ pc' = "skip" /\ left' = left - 1 /\ pos' = pos + SkipSize(cmd.byte[pos + 1])
      BY <1>1, <1>4 DEF Skip
    <2>2. Place(pos', left')  BY <1>1, <1>4, <2>1, PlaceSkip
    <2>3. Place(pos, left)'
      BY <1>1, <1>2, <2>2 DEF Place, Boundary, Inside
    <2>4. pos = cmd.end[Cur] => pos' = cmd.end[Cur + 1]
      <3>1. Cur \in 0 .. Requests /\ Cur < Requests
        BY <1>1, <1>4, CmdFacts DEF Cur
      <3>2. QED  BY <1>1, <2>1, <3>1, NextEnd DEF SkipSize, HasData, WordBytes
    <2>5. Cur' = Cur + 1
      BY <1>1, <1>2, <1>4, <2>1, CmdFacts DEF Cur
    <2>6. pos' = cmd'.end[Cur'] \/ DrainFailedBeforeData'
      BY <1>1, <1>2, <2>4, <2>5
    <2>7. QED  BY <2>1, <2>3, <2>6 DEF Placed, ConsumedExceptAfterDrain
  <1>5. QED  BY <1>3, <1>4

(* Where the skip loop starts: behind the request that failed, or before   *)
(* its data.                                                               *)
LEMMA SkipStarts ==
  ASSUME LengthInv, TypeInv, pc \in InRequest \ {"bwrite", "exec"}
  PROVE  Place(pos, left) /\ (pos = cmd.end[Cur] \/ DrainFailedBeforeData)
  <1>1. /\ cmd.kind = "transfer" /\ Cur \in 1 .. Requests /\ Requests \in Nat
        /\ left = Requests - Cur /\ left \in Nat
        /\ cmd.end[Cur - 1] \in Nat
        /\ cmd.end[Cur] = cmd.end[Cur - 1] + (IF HasData(cmd.req[Cur]) THEN 5 ELSE 1)
    BY InRequestFacts, CmdFacts DEF InRequest, Size, WordBytes, TypeInv, Cur
  <1>2. CASE pos = cmd.end[Cur]
    <2>1. Cur \in 0 .. Requests /\ left <= Requests - Cur  BY <1>1
    <2>2. QED  BY <1>2, <2>1 DEF Place, Boundary
  <1>3. CASE pos # cmd.end[Cur]
    <2>1. pc = "drain" /\ pos = cmd.end[Cur - 1] + 1
      BY <1>3 DEF LengthInv, Aligned, InRequest
    <2>2. HasData(cmd.req[Cur]) /\ cmd.end[Cur] = cmd.end[Cur - 1] + 5
      BY <1>1, <1>3, <2>1
    <2>3. pos + WordBytes = cmd.end[Cur] + 0 /\ left + 0 <= Requests - Cur
      BY <1>1, <2>1, <2>2 DEF WordBytes
    <2>4. Inside(pos, left)  BY <1>1, <2>2, <2>3 DEF Inside
    <2>5. count = Cur - 1 /\ count + 1 = Cur /\ Len(words) \in Nat
      BY <1>1, <2>1 DEF TypeInv, TypeOK, Counters, InRequest
    <2>6. Len(words) + 1 = cmd.rank[Cur - 1]  BY <2>1 DEF LengthInv, Lengths
    <2>7. Len(words) < cmd.rank[count] /\ count < Requests
      BY <1>1, <2>5, <2>6
    <2>8. DrainFailedBeforeData  BY <1>1, <2>2, <2>5, <2>7 DEF DrainFailedBeforeData
    <2>9. QED  BY <2>4, <2>8 DEF Place
  <1>4. QED  BY <1>2, <1>3

LEMMA PlacedError ==
  ASSUME LengthInv, TypeInv, pc \in InRequest \ {"bwrite", "exec"}, pc' = "skip",
         UNCHANGED <<cmd, pos, left, count, words>>
  PROVE  Placed'
  <1>1. Place(pos, left) /\ (pos = cmd.end[Cur] \/ DrainFailedBeforeData)
    BY SkipStarts
  <1>2. Requests' = Requests /\ Cur' = Cur  BY DEF Requests, Cur
  <1>3. Place(pos, left)'  BY <1>1, <1>2 DEF Place, Boundary, Inside
  <1>4. pos' = cmd'.end[Cur'] \/ DrainFailedBeforeData'
    BY <1>1, <1>2 DEF DrainFailedBeforeData
  <1>5. QED  BY <1>3, <1>4 DEF Placed, ConsumedExceptAfterDrain

LEMMA PlacedFailures ==
  ASSUME Placed, LengthInv, TypeInv, AccessFailed
  PROVE  Placed'
  <1>1. CASE Again
    BY <1>1 DEF Again, host, cursor, resp, Placed, ConsumedExceptAfterDrain,
                DrainFailedBeforeData, Place, Boundary, Inside, Requests, Total, Cur
  <1>2. CASE Ended
    <2>1. /\ UNCHANGED <<cmd, pos, left, count, words>> /\ pc \in AccessPoints
          /\ pc' = IF pc = "final" \/ cmd.kind = "block" THEN "done" ELSE "skip"
      BY <1>2 DEF Ended, host, cursor
    <2>2. CASE pc = "final"
      <3>1. left = 0 /\ pos = cmd.end[Cur] /\ Cur = Requests /\ TypeOK
        BY <2>2, CmdFacts DEF Placed, TypeInv, Counters, Cur
      <3>2. pos = Total  BY <3>1, AllConsumed
      <3>3. pc' = "done" /\ pos' = Total'  BY <2>1, <2>2, <3>2 DEF Total
      <3>4. QED  BY <3>3 DEF Placed, ConsumedExceptAfterDrain
    <2>3. CASE cmd.kind = "block"
      BY <2>1, <2>3 DEF Placed, ConsumedExceptAfterDrain
    <2>4. CASE pc # "final" /\ cmd.kind # "block"
      <3>1. pc \in InRequest \ {"bwrite", "exec"}
        BY <2>1, <2>4 DEF AccessPoints, InRequest, TypeInv, Counters, BlockPoints
      <3>2. QED  BY <2>1, <2>4, <3>1, PlacedError
    <2>5. QED  BY <2>2, <2>3, <2>4
  <1>3. QED  BY <1>1, <1>2, FailureOutcomes

LEMMA PlacedTransfer ==
  ASSUME Placed, LengthInv, TypeInv, Transfer
  PROVE  Placed'
  <1>1. CASE (Fetch /\ left = 0) \/ FinalOk
    <2>1. /\ pc \in {"fetch", "final"} /\ left = 0 /\ pos' = pos /\ cmd' = cmd /\ Cur' = Cur
          /\ pc' \in {"final", "done"} /\ TypeOK
      BY <1>1, CmdFacts DEF Fetch, FinalOk, host, cursor, TypeInv, Counters, Cur, Requests
    <2>2. pos = cmd.end[Cur]
      BY <2>1 DEF LengthInv, Aligned, Placed
    <2>3. Cur = Requests  BY <2>1, CmdFacts DEF Cur
    <2>4. pos' = Total'  BY <2>1, <2>2, <2>3, AllConsumed DEF Total
    <2>5. QED  BY <2>1, <2>2, <2>4 DEF Placed, ConsumedExceptAfterDrain
  <1>2. CASE Fetch /\ left # 0
    <2>1. pc' \in {"drain", "exec"}  BY <1>2 DEF Fetch
    <2>2. QED  BY <2>1 DEF Placed, ConsumedExceptAfterDrain
  <1>3. CASE Exec \/ DrainOk \/ PostOk \/ DpReadOk \/ MatchPostOk \/ WriteOk
    <2>1. pc' \in {"fetch", "exec", "post", "dpread", "mpost", "match", "write"}
      BY <1>3 DEF Exec, AfterData, DrainOk, PostOk, DpReadOk, MatchPostOk, WriteOk, Complete
    <2>2. QED  BY <2>1 DEF Placed, ConsumedExceptAfterDrain
  <1>4. CASE MatchOk
    <2>1. CASE pc' = "skip"
      <3>1. pc = "match" /\ UNCHANGED <<cmd, pos, left, count, words>>
        BY <1>4, <2>1 DEF MatchOk, Complete, host, cursor
      <3>2. QED  BY <2>1, <3>1, PlacedError DEF InRequest
    <2>2. CASE pc' # "skip"
      <3>1. pc' \in {"fetch", "match"}  BY <1>4, <2>2 DEF MatchOk, Complete
      <3>2. QED  BY <3>1 DEF Placed, ConsumedExceptAfterDrain
    <2>3. QED  BY <2>1, <2>2
  <1>5. CASE Skip  BY <1>5, PlacedSkip
  <1>6. QED  BY <1>1, <1>2, <1>3, <1>4, <1>5 DEF Transfer

(* A block of writes takes one data word for each. *)
LEMMA NextWord ==
  ASSUME LengthInv, TypeInv, pc = "bfetch"
  PROVE  /\ cmd.end[Cur + 1] = cmd.end[Cur] + WordBytes
         /\ Cur + 1 \in 0 .. Requests
         /\ cmd.end[Cur] \in Nat
  <1>1. /\ cmd.kind = "block" /\ left > 0 /\ IsWrite(cmd.req[1])
    BY DEF TypeInv, Counters, BlockPoints, LengthInv, Lengths
  <1>2. Cur + 1 \in 1 .. Requests /\ (Cur + 1) - 1 = Cur /\ Cur + 1 \in 0 .. Requests
    BY <1>1, CmdFacts DEF TypeInv, Cur
  <1>3. /\ cmd.req[Cur + 1] = cmd.req[1] /\ cmd.end[Cur] \in Nat
        /\ cmd.end[Cur + 1] = cmd.end[Cur] + Size("block", cmd.req[Cur + 1])
    BY <1>1, <1>2, RequestFacts DEF TypeInv
  <1>4. Size("block", cmd.req[Cur + 1]) = WordBytes
    BY <1>1, <1>3 DEF Size, HasData, WordBytes
  <1>5. QED  BY <1>2, <1>3, <1>4

LEMMA PlacedBlock ==
  ASSUME Placed, LengthInv, TypeInv, TransferBlock
  PROVE  Placed'
  <1>0. cmd.kind = "block" /\ cmd' = cmd
    BY DEF TransferBlock, BlockStart, BlockPostOk, BlockReadOk, BlockFetch, BlockWriteOk,
           BlockCheckOk, TypeInv, Counters, BlockPoints, host
  <1>1. CASE BlockStart \/ BlockWriteOk
    <2>1. /\ pc \in {"bstart", "bwrite"} /\ pos' = pos /\ Cur' = Cur /\ pc' # "skip"
      BY <1>0, <1>1 DEF BlockStart, BlockWriteOk, cursor, Cur, Requests
    <2>2. pos = cmd.end[Cur]  BY <2>1 DEF Placed
    <2>3. QED  BY <1>0, <2>1, <2>2 DEF Placed, ConsumedExceptAfterDrain
  <1>2. CASE BlockFetch
    <2>1. /\ pc = "bfetch" /\ pos' = pos + WordBytes /\ left' = left - 1 /\ pc' = "bwrite"
          /\ pos = cmd.end[Cur]
      BY <1>2 DEF BlockFetch, Placed
    <2>2. Cur' = Cur + 1
      BY <1>0, <2>1, CmdFacts DEF Cur, Requests, TypeInv
    <2>3. pos' = cmd.end[Cur + 1]  BY <2>1, NextWord
    <2>4. QED  BY <1>0, <2>1, <2>2, <2>3 DEF Placed, ConsumedExceptAfterDrain
  <1>3. CASE BlockPostOk \/ BlockReadOk \/ BlockCheckOk
    <2>1. pc' \in {"bread", "done"}  BY <1>3 DEF BlockPostOk, BlockReadOk, BlockCheckOk
    <2>2. QED  BY <1>0, <2>1 DEF Placed, ConsumedExceptAfterDrain
  <1>4. QED  BY <1>1, <1>2, <1>3 DEF TransferBlock

LEMMA PlacedHost ==
  ASSUME Placed, Host \/ Respond
  PROVE  Placed'
  <1>1. CASE Command \/ Respond
    <2>1. PICK p \in Packets \cup {NoCommand} : Load(p) /\ pc' \in {"idle", "fetch", "bstart"}
      BY <1>1 DEF Command, Respond
    <2>2. p.end[0] = 0 /\ Len(p.req) \in Nat
      BY KnownPackets DEF IsPacket
    <2>3. cmd' = p /\ pos' = 0 /\ Cur' = 0
      BY <2>1, <2>2 DEF Load, Cur, Requests
    <2>4. QED  BY <2>1, <2>2, <2>3 DEF Placed, ConsumedExceptAfterDrain
  <1>2. CASE Connect \/ Disconnect \/ TransferConfigure
    BY <1>2 DEF Connect, Disconnect, TransferConfigure, Placed, ConsumedExceptAfterDrain
  <1>3. QED  BY <1>1, <1>2 DEF Host

LEMMA StepPlaced == Placed /\ LengthInv /\ TypeInv /\ [Next]_vars => Placed'
  <1> SUFFICES ASSUME Placed, LengthInv, TypeInv, [Next]_vars PROVE Placed'  OBVIOUS
  <1>1. CASE UNCHANGED vars
    BY <1>1 DEF vars, host, cursor, resp, Placed, ConsumedExceptAfterDrain,
                DrainFailedBeforeData, Place, Boundary, Inside, Requests, Total, Cur
  <1>2. QED
    BY <1>1, PlacedTransfer, PlacedBlock, PlacedFailures, PlacedHost DEF Next, Dispatcher

LEMMA PlacedAlways == Spec => []Placed
  <1>1. Init => Placed  BY DEF Init, Placed, ConsumedExceptAfterDrain
  <1>2. QED  BY <1>1, StepPlaced, LengthAlways, TypeInvAlways, PTL DEF Spec

(* No read of transfer() or transfer_block_inner() goes past the end of    *)
(* the request, for every packet, port and acknowledge, and whatever the   *)
(* bytes decode to that the skip loop meets: cursor.rs never panics.       *)
THEOREM ReadsInside == Spec => []NeverPanics
  <1>1. Placed /\ LengthInv /\ TypeInv => NeverPanics
    <2> SUFFICES ASSUME Placed, LengthInv, TypeInv PROVE NeverPanics  OBVIOUS
    <2>0. TypeOK /\ Counters /\ Aligned  BY DEF TypeInv, LengthInv
    <2>1. ASSUME pc = "fetch", left > 0 PROVE Available(1)
      <3>1. cmd.kind = "transfer" /\ pos = cmd.end[Cur]
        BY <2>0, <2>1 DEF Counters, TransferPoints, Aligned
      <3>2. Cur \in 0 .. Requests /\ Cur < Requests
        BY <2>0, <2>1, CmdFacts DEF Cur
      <3>3. /\ Cur + 1 \in 1 .. Requests /\ cmd.end[Cur] \in Nat
            /\ cmd.end[Cur + 1] = cmd.end[Cur] + (IF HasData(cmd.req[Cur + 1]) THEN 5 ELSE 1)
        BY <2>0, <3>1, <3>2, NextEnd
      <3>4. Cur + 1 \in 0 .. Requests /\ cmd.end[Cur] + 1 <= cmd.end[Cur + 1]
        BY <2>0, <3>3, CmdFacts
      <3>5. cmd.end[Cur + 1] \in Nat /\ cmd.end[Cur + 1] <= Total /\ Total \in Nat
        BY <2>0, <3>4, RankFacts, CmdFacts
      <3>6. QED  BY <3>1, <3>3, <3>4, <3>5 DEF Available
    <2>2. ASSUME pc = "exec", HasData(op) PROVE Available(WordBytes)
      <3>1. op = cmd.req[Cur] /\ pos = cmd.end[Cur - 1] + 1
        BY <2>0, <2>2 DEF Aligned, InRequest
      <3>2. /\ Cur \in 1 .. Requests /\ cmd.end[Cur - 1] \in Nat
            /\ cmd.end[Cur] = cmd.end[Cur - 1] + 5
        BY <2>2, <3>1, InRequestFacts DEF InRequest, Size, WordBytes
      <3>3. Cur \in 0 .. Requests /\ Total \in Nat  BY <2>0, CmdFacts
      <3>4. cmd.end[Cur] <= Total  BY <2>0, <3>3, RankFacts
      <3>5. QED  BY <3>1, <3>2, <3>3, <3>4 DEF Available, WordBytes
    <2>3. ASSUME pc = "bfetch" PROVE Available(WordBytes)
      <3>1. pos = cmd.end[Cur]  BY <2>3 DEF Placed
      <3>2. cmd.end[Cur + 1] = pos + WordBytes /\ Cur + 1 \in 0 .. Requests
        BY <2>3, <3>1, NextWord
      <3>3. cmd.end[Cur + 1] <= Total  BY <2>0, <3>2, RankFacts
      <3>4. QED  BY <3>2, <3>3 DEF Available
    <2>4. ASSUME pc = "skip", left > 0
          PROVE  Available(1) /\ Available(SkipSize(cmd.byte[pos + 1]))
      <3>1. /\ cmd.kind = "transfer" /\ Place(pos, left) /\ pos \in Nat /\ left \in Nat
            /\ left - 1 \in Nat
        BY <2>0, <2>4, CmdFacts DEF Counters, TransferPoints, Placed, TypeOK
      <3>2. Place(pos + 1, left - 1) /\ Place(pos + SkipSize(cmd.byte[pos + 1]), left - 1)
        BY <2>0, <2>4, <3>1, PlaceNext, PlaceSkip
      <3>3. pos + 1 \in Nat /\ pos + SkipSize(cmd.byte[pos + 1]) \in Nat
        BY <3>1 DEF SkipSize, WordBytes
      <3>4. QED  BY <2>0, <3>1, <3>2, <3>3, PlaceBound DEF Available
    <2>5. QED  BY <2>1, <2>2, <2>3, <2>4 DEF NeverPanics
  <1>2. QED  BY <1>1, PlacedAlways, LengthAlways, TypeInvAlways, PTL

(* A finished DAP_Transfer consumed its request to the last byte, for      *)
(* every packet, port and acknowledge, unless a drain failed ahead of a    *)
(* request with data.                                                      *)
THEOREM Consumes == Spec => []ConsumedExceptAfterDrain
  <1>1. Placed => ConsumedExceptAfterDrain  BY DEF Placed
  <1>2. QED  BY <1>1, PlacedAlways, PTL
-----------------------------------------------------------------------------
(* How often the register of each request was accessed. *)
Once(i) ==
  IF IsMatch(cmd.req[i]) THEN hits[i] >= 1
  ELSE hits[i] = IF cmd.req[i] = "MASK" THEN 0 ELSE 1

(* What CountedOnceInOrder says at the end, wherever the code stands. *)
Tally ==
  \A i \in 1 .. Requests :
    /\ i <= count => hits[i] >= (IF cmd.req[i] = "MASK" THEN 0 ELSE 1)
    /\ ~IsMatch(cmd.req[i]) => hits[i] <= (IF cmd.req[i] = "MASK" THEN 0 ELSE 1)
    /\ i > count + (IF cmd.kind = "block" /\ cmd.req[1] = "APR" THEN 2 ELSE 1) => hits[i] = 0

(* How far a block has come: a read of the AP is one access ahead. *)
Reached == IF pc = "bread" /\ op = "APR" THEN count + 1 ELSE count

Counted ==
  /\ pc \in TransferPoints \ {"skip"} =>
       \A i \in 1 .. Requests : (i < Cur => Once(i)) /\ (i > Cur => hits[i] = 0)
  /\ pc \in {"fetch", "final"} => \A i \in 1 .. Requests : i = Cur => Once(i)
  /\ pc \in {"drain", "post", "dpread", "mpost", "write"} => hits[Cur] = 0
  /\ pc = "exec" => hits[Cur] = IF posted THEN 1 ELSE 0
  /\ pc \in {"mpost", "match"} => IsMatch(op)
  /\ pc = "write" => op \in {"DPW", "APW"}
  /\ pc \in BlockPoints => \A i \in 1 .. Requests : hits[i] = IF i <= Reached THEN 1 ELSE 0
  /\ pc = "skip" => Tally
  /\ pc = "done" => Tally

(* An accepted access of a request of a transfer is one of its register,   *)
(* but for a drain through RDBUFF.                                         *)
LEMMA HitsTransfer ==
  ASSUME TypeInv, pc \in InRequest \ {"bwrite", "exec"}, Accept
  PROVE  /\ \A i \in 1 .. Requests : i # Cur => hits'[i] = hits[i]
         /\ hits'[Cur] = IF pc = "drain" /\ op # "APR" THEN hits[Cur] ELSE hits[Cur] + 1
  <1>1. Tag = Cur /\ Cur \in 1 .. Requests  BY TagFacts, InRequestFacts DEF InRequest
  <1>2. hits \in [1 .. Requests -> Nat]  BY DEF TypeInv, TypeOK
  <1>3. CASE pc = "drain" /\ op # "APR"
    BY <1>3 DEF Accept, Register
  <1>4. CASE ~(pc = "drain" /\ op # "APR")
    <2>1. Register # "RDBUFF"  BY <1>4 DEF Register, InRequest
    <2>2. hits' = [hits EXCEPT ![Cur] = @ + 1]  BY <1>1, <2>1 DEF Accept
    <2>3. QED  BY <1>1, <1>2, <1>4, <2>2
  <1>5. QED  BY <1>3, <1>4

(* In a block an access is of the register of the next request. *)
LEMMA HitsBlock ==
  ASSUME TypeInv, cmd.kind = "block", Accept
  PROVE  \A i \in 1 .. Requests :
           hits'[i] = IF i = Reached + 1 /\ Register # "RDBUFF" THEN hits[i] + 1 ELSE hits[i]
  <1>1. Tag = Reached + 1
    BY DEF Tag, Reached, TypeInv, TypeOK
  <1>2. hits \in [1 .. Requests -> Nat]  BY DEF TypeInv, TypeOK
  <1>3. QED  BY <1>1, <1>2 DEF Accept

LEMMA BlockOps ==
  ASSUME TypeOK, cmd.kind = "block", NEW i \in 1 .. Requests
  PROVE  cmd.req[i] = cmd.req[1] /\ ~IsMatch(cmd.req[i]) /\ cmd.req[i] # "MASK"
  <1>1. cmd.req[i] \in {"DPR", "APR", "DPW", "APW"} /\ cmd.req[i] = cmd.req[1]
    BY KnownPackets DEF TypeOK, IsPacket, Requests
  <1>2. QED  BY <1>1 DEF IsMatch

(* All requests before the last that is counted were made once. *)
LEMMA OnceTally ==
  ASSUME TypeOK, NEW i \in 1 .. Requests, Once(i)
  PROVE  /\ hits[i] >= (IF cmd.req[i] = "MASK" THEN 0 ELSE 1)
         /\ ~IsMatch(cmd.req[i]) => hits[i] <= (IF cmd.req[i] = "MASK" THEN 0 ELSE 1)
  <1>1. hits[i] \in Nat  BY DEF TypeOK
  <1>2. QED  BY <1>1 DEF Once, IsMatch

LEMMA AllOnceTally ==
  ASSUME TypeOK, count = Requests, \A i \in 1 .. Requests : Once(i)
  PROVE  Tally
  <1> SUFFICES ASSUME NEW i \in 1 .. Requests
               PROVE  /\ i <= count => hits[i] >= (IF cmd.req[i] = "MASK" THEN 0 ELSE 1)
                      /\ ~IsMatch(cmd.req[i])
                           => hits[i] <= (IF cmd.req[i] = "MASK" THEN 0 ELSE 1)
                      /\ ~(i > count + (IF cmd.kind = "block" /\ cmd.req[1] = "APR" THEN 2 ELSE 1))
    BY DEF Tally
  <1>1. QED  BY OnceTally, CmdFacts

(* Where a transfer breaks off, the current request was made at most once. *)
LEMMA ErrorTally ==
  ASSUME Counted, LengthInv, TypeInv, pc \in InRequest \ {"bwrite", "exec"},
         UNCHANGED <<cmd, count>>, Accept \/ hits' = hits
  PROVE  Tally'
  <1>0. /\ cmd.kind = "transfer" /\ count = Cur - 1 /\ Cur \in 1 .. Requests
        /\ op = cmd.req[Cur] /\ TypeOK /\ Requests' = Requests /\ Requests \in Nat
        /\ hits \in [1 .. Requests -> Nat]
    <2>1. cmd.kind = "transfer" /\ Cur \in 1 .. Requests  BY InRequestFacts
    <2>2. count \in Nat /\ count + 1 = Cur /\ TypeOK
          /\ hits \in [1 .. Requests -> Nat]
      BY DEF TypeInv, TypeOK, Counters, InRequest
    <2>3. op = cmd.req[Cur]  BY DEF LengthInv, Aligned
    <2>4. QED  BY <2>1, <2>2, <2>3, CmdFacts DEF Requests
  <1>1. \A i \in 1 .. Requests : i # Cur => hits'[i] = hits[i]
    BY HitsTransfer
  <1>2. ~IsMatch(op) => hits'[Cur] <= (IF op = "MASK" THEN 0 ELSE 1)
    <2> SUFFICES ASSUME ~IsMatch(op) PROVE hits'[Cur] <= (IF op = "MASK" THEN 0 ELSE 1)
      OBVIOUS
    <2>1. /\ pc \in {"drain", "post", "dpread", "write"} /\ hits[Cur] = 0
          /\ pc # "drain" => op # "MASK"
      BY DEF InRequest, Counted, LengthInv, Aligned
    <2>2. hits'[Cur] = 0 \/ (hits'[Cur] = 1 /\ op # "MASK")
      <3>1. CASE hits' = hits  BY <2>1, <3>1
      <3>2. CASE Accept
        <4>1. hits'[Cur] = IF pc = "drain" /\ op # "APR" THEN hits[Cur] ELSE hits[Cur] + 1
          BY <3>2, HitsTransfer
        <4>2. QED  BY <2>1, <4>1
      <3>3. QED  BY <3>1, <3>2
    <2>3. QED  BY <2>2
  <1>3. \A i \in 1 .. Requests : (i < Cur => Once(i)) /\ (i > Cur => hits[i] = 0)
    BY DEF Counted, TransferPoints, InRequest
  <1>4. ASSUME NEW i \in 1 .. Requests
        PROVE  /\ i <= count => hits'[i] >= (IF cmd.req[i] = "MASK" THEN 0 ELSE 1)
               /\ ~IsMatch(cmd.req[i])
                    => hits'[i] <= (IF cmd.req[i] = "MASK" THEN 0 ELSE 1)
               /\ i > count + 1 => hits'[i] = 0
    <2>1. CASE i < Cur
      <3>1. hits'[i] = hits[i] /\ Once(i)  BY <1>0, <1>1, <1>3, <2>1
      <3>2. ~(i > count + 1)  BY <1>0, <2>1
      <3>3. QED  BY <1>0, <3>1, <3>2, OnceTally
    <2>2. CASE i = Cur
      <3>1. ~(i <= count) /\ ~(i > count + 1)  BY <1>0, <2>2
      <3>2. QED  BY <1>0, <1>2, <2>2, <3>1
    <2>3. CASE i > Cur
      <3>1. hits'[i] = 0 /\ ~(i <= count)  BY <1>0, <1>1, <1>3, <2>3
      <3>2. QED  BY <3>1
    <2>4. QED  BY <1>0, <2>1, <2>2, <2>3
  <1>5. QED  BY <1>0, <1>4 DEF Tally

(* Where a block breaks off, or ends, none was made twice and at most one  *)
(* more than Reached.                                                      *)
LEMMA BlockTally ==
  ASSUME Counted, LengthInv, TypeInv, pc \in BlockPoints, cmd' = cmd,
         \/ count' = count /\ (Accept \/ hits' = hits)
         \/ BlockReadOk /\ pc' = "done"
  PROVE  Tally'
  <1>0. /\ cmd.kind = "block" /\ TypeOK /\ Requests' = Requests /\ Requests \in Nat
        /\ count \in Nat /\ Reached \in {count, count + 1}
        /\ hits \in [1 .. Requests -> Nat]
    BY CmdFacts DEF TypeInv, TypeOK, Counters, Requests, Reached
  <1>1. \A i \in 1 .. Requests : hits[i] = IF i <= Reached THEN 1 ELSE 0
    BY DEF Counted
  <1>2. \A i \in 1 .. Requests :
          \/ hits'[i] = hits[i]
          \/ i = Reached + 1 /\ hits'[i] = hits[i] + 1 /\ Register # "RDBUFF"
    BY <1>0, HitsBlock DEF BlockReadOk, Accepted
  <1>3. \A i \in 1 .. Requests :
          /\ hits'[i] \in {0, 1}
          /\ i <= Reached => hits'[i] = 1
          /\ i > Reached + 1 => hits'[i] = 0
    <2> SUFFICES ASSUME NEW i \in 1 .. Requests
                 PROVE  /\ hits'[i] \in {0, 1}
                        /\ i <= Reached => hits'[i] = 1
                        /\ i > Reached + 1 => hits'[i] = 0
      OBVIOUS
    <2>1. CASE i <= Reached
      <3>1. hits[i] = 1 /\ i # Reached + 1 /\ ~(i > Reached + 1)  BY <1>0, <1>1, <2>1
      <3>2. QED  BY <1>2, <3>1
    <2>2. CASE i > Reached
      <3>1. hits[i] = 0 /\ ~(i <= Reached)  BY <1>0, <1>1, <2>2
      <3>2. hits'[i] = 0 \/ (i = Reached + 1 /\ hits'[i] = 1)  BY <1>2, <3>1
      <3>3. QED  BY <1>0, <3>1, <3>2
    <2>3. QED  BY <1>0, <2>1, <2>2
  <1>4. Reached = count + 1 => cmd.req[1] = "APR"
    BY <1>0 DEF Reached, LengthInv, Aligned
  <1>5. count' \in Nat /\ \A i \in 1 .. Requests : i <= count' => hits'[i] = 1
    <2>1. CASE count' = count
      <3>1. \A i \in 1 .. Requests : i <= count => i <= Reached  BY <1>0
      <3>2. QED  BY <1>0, <1>3, <2>1, <3>1
    <2>2. CASE BlockReadOk /\ pc' = "done"
      <3>1. /\ pc = "bread" /\ count' = count + 1 /\ left = 1 /\ Accept /\ IsRead(op)
        BY <2>2 DEF BlockReadOk, Accepted, LengthInv, Aligned
      <3>2. ASSUME NEW i \in 1 .. Requests, i <= count + 1 PROVE hits'[i] = 1
        <4>1. CASE op = "APR"
          <5>1. i <= Reached  BY <3>1, <3>2, <4>1 DEF Reached
          <5>2. QED  BY <1>3, <5>1
        <4>2. CASE op = "DPR"
          <5>1. Reached = count /\ Register = "DP"
            BY <3>1, <4>2 DEF Reached, Register, IsAP
          <5>2. CASE i = count + 1
            <6>1. hits[i] = 0  BY <1>0, <1>1, <5>1, <5>2
            <6>2. hits'[i] = hits[i] + 1  BY <1>0, <3>1, <5>1, <5>2, HitsBlock
            <6>3. QED  BY <6>1, <6>2
          <5>3. CASE i <= count  BY <1>3, <5>1, <5>3
          <5>4. QED  BY <1>0, <3>2, <5>2, <5>3
        <4>3. QED  BY <3>1, <4>1, <4>2 DEF IsRead
      <3>3. QED  BY <1>0, <3>1, <3>2
    <2>3. QED  BY <2>1, <2>2
  <1>6. count' >= count  BY <1>0 DEF BlockReadOk
  <1>7. ASSUME NEW i \in 1 .. Requests
        PROVE  /\ i <= count' => hits'[i] >= (IF cmd.req[i] = "MASK" THEN 0 ELSE 1)
               /\ ~IsMatch(cmd.req[i])
                    => hits'[i] <= (IF cmd.req[i] = "MASK" THEN 0 ELSE 1)
               /\ i > count' + (IF cmd.req[1] = "APR" THEN 2 ELSE 1) => hits'[i] = 0
    <2>1. cmd.req[i] # "MASK"  BY <1>0, BlockOps
    <2>2. i > count' + (IF cmd.req[1] = "APR" THEN 2 ELSE 1) => i > Reached + 1
      <3>1. i \in Nat /\ count \in Nat /\ count' \in Nat /\ count <= count'
        BY <1>0, <1>5, <1>6
      <3>2. /\ i > count' + 1 => i > count + 1
            /\ i > count' + 2 => i > count + 1 /\ i > (count + 1) + 1
        <4> DEFINE c == count  d == count'
        <4>1. c \in Nat /\ d \in Nat /\ c <= d /\ i \in Nat  BY <3>1
        <4> HIDE DEF c, d
        <4>2. /\ i > d + 1 => i > c + 1
              /\ i > d + 2 => i > c + 1 /\ i > (c + 1) + 1
          BY <4>1
        <4>3. QED  BY <4>2 DEF c, d
      <3>3. CASE Reached = count
        <4>1. CASE cmd.req[1] = "APR"  BY <3>2, <3>3, <4>1
        <4>2. CASE cmd.req[1] # "APR"  BY <3>2, <3>3, <4>2
        <4>3. QED  BY <4>1, <4>2
      <3>4. CASE Reached = count + 1
        <4>1. cmd.req[1] = "APR"  BY <1>4, <3>4
        <4>2. QED  BY <3>2, <3>4, <4>1
      <3>5. QED  BY <1>0, <3>3, <3>4
    <2>3. hits'[i] = 0 \/ hits'[i] = 1  BY <1>3
    <2>4. QED  BY <1>3, <1>5, <2>1, <2>2, <2>3
  <1>8. QED  BY <1>0, <1>7 DEF Tally

LEMMA CountedFetch ==
  ASSUME Counted, TypeInv, Fetch
  PROVE  Counted'
  <1>0. /\ pc = "fetch" /\ UNCHANGED <<cmd, count, hits>> /\ TypeOK /\ count = Cur
        /\ Requests' = Requests /\ Requests \in Nat /\ Cur \in 0 .. Requests
    BY CmdFacts DEF Fetch, host, resp, target, TypeInv, Counters, Requests
  <1>1. \A i \in 1 .. Requests : (i <= Cur => Once(i)) /\ (i > Cur => hits[i] = 0)
    BY <1>0 DEF Counted, TransferPoints
  <1>2. \A i \in 1 .. Requests : Once(i)' <=> Once(i)
    BY <1>0 DEF Once
  <1>3. CASE left = 0
    <2>1. Cur' = Cur /\ pc' \in {"final", "done"} /\ Cur = Requests
      BY <1>0, <1>3, CmdFacts DEF Fetch, cursor, Cur
    <2>2. \A i \in 1 .. Requests : Once(i)  BY <1>0, <1>1, <2>1
    <2>3. Tally  BY <1>0, <2>1, <2>2, AllOnceTally
    <2>4. Tally'  BY <1>0, <2>3 DEF Tally
    <2>5. \A i \in 1 .. Requests' : Once(i)' /\ ~(i > Cur')
      BY <1>0, <1>2, <2>1, <2>2
    <2>6. QED  BY <2>1, <2>4, <2>5 DEF Counted, BlockPoints
  <1>4. CASE left # 0
    <2>1. /\ left' = left - 1 /\ pc' = (IF posted THEN "drain" ELSE "exec")
          /\ (~posted => ~posted')
      BY <1>0, <1>4 DEF Fetch
    <2>2. Cur' = Cur + 1 /\ Cur + 1 \in 1 .. Requests
      BY <1>0, <1>4, <2>1, CmdFacts DEF Cur
    <2>3. hits'[Cur'] = 0  BY <1>0, <1>1, <2>2
    <2>4. \A i \in 1 .. Requests' : (i < Cur' => Once(i)') /\ (i > Cur' => hits'[i] = 0)
      BY <1>0, <1>1, <1>2, <2>2
    <2>5. pc' = "exec" => ~posted'  BY <2>1
    <2>6. pc' = "drain" \/ pc' = "exec"  BY <2>1
    <2>7. CASE pc' = "drain"  BY <2>3, <2>4, <2>7 DEF Counted, BlockPoints
    <2>8. CASE pc' = "exec"  BY <2>3, <2>4, <2>5, <2>8 DEF Counted, BlockPoints
    <2>9. QED  BY <2>6, <2>7, <2>8
  <1>5. QED  BY <1>3, <1>4

(* The requests before and behind the current one are not touched by it. *)
LEMMA CountedOthers ==
  ASSUME Counted, TypeInv, pc \in InRequest \ {"bwrite"}, UNCHANGED <<cmd, left>>,
         \A i \in 1 .. Requests : i # Cur => hits'[i] = hits[i]
  PROVE  \A i \in 1 .. Requests' : (i < Cur' => Once(i)') /\ (i > Cur' => hits'[i] = 0)
  <1>0. Requests' = Requests /\ Cur' = Cur /\ Cur \in 1 .. Requests /\ Requests \in Nat
    BY InRequestFacts, CmdFacts DEF Requests, Cur, TypeInv
  <1>1. \A i \in 1 .. Requests : (i < Cur => Once(i)) /\ (i > Cur => hits[i] = 0)
    BY DEF Counted, TransferPoints, InRequest
  <1>2. \A i \in 1 .. Requests : i # Cur => (Once(i)' <=> Once(i))
    BY DEF Once
  <1>3. \A i \in 1 .. Requests : (i < Cur => i # Cur) /\ (i > Cur => i # Cur)
    BY <1>0
  <1>4. QED  BY <1>0, <1>1, <1>2, <1>3

LEMMA CountedExec ==
  ASSUME Counted, LengthInv, TypeInv, Exec
  PROVE  Counted'
  <1>0. /\ pc = "exec" /\ UNCHANGED <<cmd, hits, left, op, posted>>
        /\ Cur' = Cur /\ Requests' = Requests
        /\ op = cmd.req[Cur] /\ (posted => op = "APR")
        /\ hits[Cur] = (IF posted THEN 1 ELSE 0)
    BY DEF Exec, host, target, Cur, Requests, LengthInv, Aligned, Lengths, InRequest, Counted
  <1>1. \A i \in 1 .. Requests' : (i < Cur' => Once(i)') /\ (i > Cur' => hits'[i] = 0)
    BY <1>0, CountedOthers DEF InRequest
  <1>2. CASE pc' = "fetch"
    <2>1. (op = "APR" /\ posted) \/ (op = "MASK" /\ ~posted)
      BY <1>0, <1>2 DEF Exec, AfterData, HasData, IsMatch, IsWrite
    <2>2. Once(Cur)'
      BY <1>0, <2>1 DEF Once, IsMatch
    <2>3. QED  BY <1>1, <1>2, <2>2 DEF Counted, BlockPoints
  <1>3. CASE pc' # "fetch"
    <2>1. /\ pc' \in {"post", "dpread", "mpost", "match", "write"}
          /\ pc' \in {"mpost", "match"} => IsMatch(op)
          /\ pc' = "write" => op \in {"DPW", "APW"}
          /\ ~posted
      BY <1>0, <1>3 DEF Exec, Complete, AfterData, HasData, IsMatch, IsWrite
    <2>2. hits'[Cur'] = 0  BY <1>0, <2>1
    <2>3. QED  BY <1>0, <1>1, <2>1, <2>2 DEF Counted, BlockPoints
  <1>4. QED  BY <1>2, <1>3

LEMMA CountedAccepts ==
  ASSUME Counted, LengthInv, TypeInv,
         DrainOk \/ PostOk \/ DpReadOk \/ MatchPostOk \/ MatchOk \/ WriteOk
  PROVE  Counted'
  <1>0. /\ pc \in {"drain", "post", "dpread", "mpost", "match", "write"} /\ Accept
        /\ UNCHANGED <<cmd, left, op>> /\ Cur' = Cur /\ Requests' = Requests
    BY DEF DrainOk, PostOk, DpReadOk, MatchPostOk, MatchOk, WriteOk, Accepted, host, cursor,
           Cur, Requests
  <1>1. /\ op = cmd.req[Cur] /\ Cur \in 1 .. Requests
        /\ hits \in [1 .. Requests -> Nat]
        /\ pc = "post" => op = "APR"
        /\ pc = "dpread" => op = "DPR"
        /\ pc \in {"mpost", "match"} => IsMatch(op)
        /\ pc = "write" => op \in {"DPW", "APW"}
        /\ pc \in {"drain", "post", "dpread", "mpost", "write"} => hits[Cur] = 0
    BY <1>0, InRequestFacts DEF LengthInv, Aligned, InRequest, Counted, TypeInv, TypeOK
  <1>2. /\ \A i \in 1 .. Requests : i # Cur => hits'[i] = hits[i]
        /\ hits'[Cur] = IF pc = "drain" /\ op # "APR" THEN hits[Cur] ELSE hits[Cur] + 1
    BY <1>0, HitsTransfer DEF InRequest
  <1>3. \A i \in 1 .. Requests' : (i < Cur' => Once(i)') /\ (i > Cur' => hits'[i] = 0)
    BY <1>0, <1>2, CountedOthers DEF InRequest
  <1>4. CASE DrainOk
    <2>1. pc = "drain" /\ pc' = "exec" /\ posted' = (op = "APR")
      BY <1>4 DEF DrainOk
    <2>2. CASE op = "APR"
      <3>1. hits'[Cur] = 1  BY <1>1, <1>2, <2>1, <2>2
      <3>2. hits'[Cur'] = 1  BY <1>0, <3>1
      <3>3. posted'  BY <2>1, <2>2
      <3>4. QED  BY <1>3, <2>1, <3>2, <3>3 DEF Counted, BlockPoints
    <2>3. CASE op # "APR"
      <3>1. hits'[Cur'] = 0 /\ ~posted'  BY <1>0, <1>1, <1>2, <2>1, <2>3
      <3>2. QED  BY <1>3, <2>1, <3>1 DEF Counted, BlockPoints
    <2>4. QED  BY <2>2, <2>3
  <1>5. CASE PostOk \/ DpReadOk \/ WriteOk
    <2>1. pc \in {"post", "dpread", "write"} /\ pc' = "fetch"
      BY <1>5 DEF PostOk, DpReadOk, WriteOk, Complete
    <2>2. hits'[Cur] = 1 /\ op # "MASK" /\ ~IsMatch(op)
      BY <1>1, <1>2, <2>1 DEF IsMatch
    <2>3. Once(Cur)'  BY <1>0, <1>1, <2>2 DEF Once
    <2>4. QED  BY <1>3, <2>1, <2>3 DEF Counted, BlockPoints
  <1>6. CASE MatchPostOk
    <2>1. pc = "mpost" /\ pc' = "match"  BY <1>6 DEF MatchPostOk
    <2>2. QED  BY <1>0, <1>1, <1>3, <2>1 DEF Counted, BlockPoints
  <1>7. CASE MatchOk
    <2>1. pc = "match" /\ pc' \in {"fetch", "match", "skip"} /\ (pc' = "skip" => count' = count)
      BY <1>7 DEF MatchOk, Complete
    <2>2. CASE pc' = "fetch"
      <3>1. hits'[Cur] >= 1  BY <1>1, <1>2, <2>1
      <3>2. Once(Cur)'  BY <1>0, <1>1, <2>1, <3>1 DEF Once
      <3>3. QED  BY <1>3, <2>2, <3>2 DEF Counted, BlockPoints
    <2>3. CASE pc' = "match"
      BY <1>0, <1>1, <1>3, <2>1, <2>3 DEF Counted, BlockPoints
    <2>4. CASE pc' = "skip"
      <3>1. Tally'  BY <1>0, <2>1, <2>4, ErrorTally DEF InRequest
      <3>2. QED  BY <2>4, <3>1 DEF Counted, BlockPoints
    <2>5. QED  BY <2>1, <2>2, <2>3, <2>4
  <1>8. QED  BY <1>4, <1>5, <1>6, <1>7

(* The trailing access reads RDBUFF, and a finished command rests. *)
LEMMA CountedEnd ==
  ASSUME Counted, TypeInv, pc = "final", UNCHANGED <<cmd, count>>, pc' = "done",
         Accept \/ hits' = hits
  PROVE  Counted'
  <1>1. hits' = hits  BY DEF Accept, Register
  <1>2. /\ TypeOK /\ count = Requests /\ Cur = Requests /\ Requests \in Nat
    BY CmdFacts DEF TypeInv, Counters, Cur
  <1>3. \A i \in 1 .. Requests : Once(i)
    <2>1. \A i \in 1 .. Requests : (i < Cur => Once(i)) /\ (i = Cur => Once(i))
      BY DEF Counted, TransferPoints
    <2>2. \A i \in 1 .. Requests : i < Cur \/ i = Cur  BY <1>2
    <2>3. QED  BY <2>1, <2>2
  <1>4. Tally  BY <1>2, <1>3, AllOnceTally
  <1>5. Tally'  BY <1>1, <1>4 DEF Tally, Requests
  <1>6. QED  BY <1>5 DEF Counted, BlockPoints, TransferPoints

LEMMA CountedBlock ==
  ASSUME Counted, LengthInv, TypeInv, TransferBlock
  PROVE  Counted'
  <1>0. /\ pc \in BlockPoints /\ cmd' = cmd /\ Requests' = Requests /\ TypeOK
        /\ cmd.kind = "block" /\ Requests \in Nat /\ count \in 0 .. Requests
        /\ \A i \in 1 .. Requests : hits[i] = IF i <= Reached THEN 1 ELSE 0
    BY CmdFacts DEF TransferBlock, BlockStart, BlockPostOk, BlockReadOk, BlockFetch, BlockWriteOk,
           BlockCheckOk, TypeInv, TypeOK, Counters, BlockPoints, host, Requests, Counted
  <1>1. CASE BlockStart \/ BlockFetch
    <2>1. /\ UNCHANGED <<count, hits>> /\ Reached = count
          /\ pc' \in {"bpost", "bread", "bfetch", "bwrite", "done"}
          /\ pc' = "bread" => op' = "DPR"
      BY <1>1 DEF BlockStart, BlockFetch, resp, target, Reached
    <2>2. CASE pc' = "done"
      <3>1. Tally'  BY <1>0, <2>1, BlockTally
      <3>2. QED  BY <2>2, <3>1 DEF Counted, BlockPoints, TransferPoints
    <2>3. CASE pc' # "done"
      <3>1. Reached' = count  BY <2>1, <2>3 DEF Reached
      <3>2. QED  BY <1>0, <2>1, <2>3, <3>1 DEF Counted, BlockPoints, TransferPoints
    <2>4. QED  BY <2>2, <2>3
  <1>2. CASE BlockPostOk \/ BlockWriteOk \/ BlockReadOk
    <2>1. CASE pc' = "done"
      <3>1. BlockReadOk  BY <1>2, <2>1 DEF BlockPostOk, BlockWriteOk
      <3>2. Tally'  BY <1>0, <2>1, <3>1, BlockTally
      <3>3. QED  BY <2>1, <3>2 DEF Counted, BlockPoints, TransferPoints
    <2>2. CASE pc' # "done"
      <3>1. /\ pc' \in {"bread", "bfetch", "bcheck"} /\ Accept
            /\ pc \in {"bpost", "bwrite", "bread"}
            /\ ~(pc = "bread" /\ op = "APR" /\ left = 1)
        BY <1>2, <2>2 DEF BlockPostOk, BlockWriteOk, BlockReadOk, Accepted
      <3>2. Register # "RDBUFF"  BY <3>1 DEF Register
      <3>3. Reached' = Reached + 1
        <4>1. CASE BlockPostOk
          BY <4>1 DEF BlockPostOk, Reached, TypeInv, Counters, resp, cursor
        <4>2. CASE BlockWriteOk
          BY <4>2 DEF BlockWriteOk, Reached
        <4>3. CASE BlockReadOk
          BY <4>3, <2>2 DEF BlockReadOk, Reached
        <4>4. QED  BY <1>2, <4>1, <4>2, <4>3
      <3>4. Reached \in Nat  BY <1>0 DEF Reached
      <3>5. \A i \in 1 .. Requests' : hits'[i] = IF i <= Reached' THEN 1 ELSE 0
        <4> SUFFICES ASSUME NEW i \in 1 .. Requests
                     PROVE  hits'[i] = IF i <= Reached + 1 THEN 1 ELSE 0
          BY <1>0, <3>3
        <4>1. hits'[i] = IF i = Reached + 1 THEN hits[i] + 1 ELSE hits[i]
          BY <1>0, <3>1, <3>2, HitsBlock
        <4>2. hits[i] = IF i <= Reached THEN 1 ELSE 0  BY <1>0
        <4>3. QED  BY <3>4, <4>1, <4>2
      <3>6. QED  BY <3>1, <3>5 DEF Counted, BlockPoints, TransferPoints
    <2>3. QED  BY <2>1, <2>2
  <1>3. CASE BlockCheckOk
    <2>1. pc' = "done" /\ count' = count /\ Accept
      BY <1>3 DEF BlockCheckOk, Accepted, resp
    <2>2. Tally'  BY <1>0, <2>1, BlockTally
    <2>3. QED  BY <2>1, <2>2 DEF Counted, BlockPoints, TransferPoints
  <1>4. QED  BY <1>1, <1>2, <1>3 DEF TransferBlock

LEMMA CountedFailures ==
  ASSUME Counted, LengthInv, TypeInv, AccessFailed
  PROVE  Counted'
  <1>1. CASE Again
    BY <1>1 DEF Again, host, cursor, resp, target, Counted, Once, Tally, Reached, Requests, Cur
  <1>2. CASE Ended
    <2>1. /\ UNCHANGED <<cmd, count>> /\ pc \in AccessPoints /\ (Accept \/ hits' = hits)
          /\ pc' = IF pc = "final" \/ cmd.kind = "block" THEN "done" ELSE "skip"
      BY <1>2 DEF Ended, host, target
    <2>2. CASE pc = "final"
      BY <2>1, <2>2, CountedEnd
    <2>3. CASE pc \in BlockPoints
      <3>1. Tally'  BY <2>1, <2>3, BlockTally
      <3>2. QED  BY <2>1, <3>1 DEF Counted, BlockPoints, TransferPoints
    <2>4. CASE pc \in InRequest \ {"bwrite", "exec"}
      <3>1. Tally'  BY <2>1, <2>4, ErrorTally
      <3>2. QED  BY <2>1, <3>1 DEF Counted, BlockPoints, TransferPoints
    <2>5. QED  BY <2>1, <2>2, <2>3, <2>4 DEF AccessPoints, InRequest, BlockPoints
  <1>3. QED  BY <1>1, <1>2, FailureOutcomes

LEMMA CountedHost ==
  ASSUME Counted, Host \/ Respond
  PROVE  Counted'
  <1>1. CASE Command \/ Respond
    <2>1. PICK p \in Packets \cup {NoCommand} : Load(p) /\ pc' \in {"idle", "fetch", "bstart"}
      BY <1>1 DEF Command, Respond
    <2>2. Len(p.req) \in Nat  BY PacketFacts
    <2>3. /\ Cur' = 0 /\ count' = 0 /\ Requests' = Len(p.req)
          /\ \A i \in 1 .. Requests' : hits'[i] = 0
      BY <2>1, <2>2 DEF Load, Cur, Requests
    <2>4. pc' = "bstart" => Reached' = 0  BY <2>3 DEF Reached
    <2>5. \A i \in 1 .. Requests' : ~(i < 0) /\ ~(i = 0) /\ ~(i <= 0)
      BY <2>2, <2>3
    <2>6. QED  BY <2>1, <2>3, <2>4, <2>5 DEF Counted, BlockPoints
  <1>2. CASE Connect \/ Disconnect \/ TransferConfigure
    BY <1>2 DEF Connect, Disconnect, TransferConfigure, Counted, TransferPoints, BlockPoints
  <1>3. QED  BY <1>1, <1>2 DEF Host

LEMMA StepCounted == Counted /\ LengthInv /\ TypeInv /\ [Next]_vars => Counted'
  <1> SUFFICES ASSUME Counted, LengthInv, TypeInv, [Next]_vars PROVE Counted'  OBVIOUS
  <1>1. CASE UNCHANGED vars
    BY <1>1 DEF vars, host, cursor, resp, target, Counted, Once, Tally, Reached, Requests, Cur
  <1>2. CASE Skip
    <2>1. pc' \in {"skip", "done"} /\ Tally /\ UNCHANGED <<cmd, count, hits>>
      BY <1>2 DEF Skip, Counted, host, resp, target
    <2>2. Tally'  BY <2>1 DEF Tally, Requests
    <2>3. QED  BY <2>1, <2>2 DEF Counted, BlockPoints, TransferPoints
  <1>3. CASE FinalOk
    BY <1>3, CountedEnd DEF FinalOk, Accepted, host
  <1>4. CASE Transfer
    BY <1>2, <1>3, <1>4, CountedFetch, CountedExec, CountedAccepts DEF Transfer
  <1>5. QED
    BY <1>1, <1>4, CountedBlock, CountedFailures, CountedHost DEF Next, Dispatcher

(* On either port and for every packet, retry limit and acknowledge: a     *)
(* request that is counted in the response reached its register exactly    *)
(* once, none is made twice, and none behind the one that failed is made.  *)
THEOREM CountsOnce == Spec => []CountedOnceInOrder
  <1>1. Init => Counted
    BY DEF Init, Counted, TransferPoints, BlockPoints
  <1>2. Counted => CountedOnceInOrder
    BY DEF Counted, Tally, CountedOnceInOrder
  <1>3. QED  BY <1>1, <1>2, StepCounted, LengthAlways, TypeInvAlways, PTL DEF Spec
=============================================================================
