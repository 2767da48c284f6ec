------------------------- MODULE CmsisDapUsbProofs -------------------------
(***************************************************************************)
(* The order of the responses on the bus, and what a bus reset leaves of   *)
(* them, for every set of requests, packets of every size and any number   *)
(* of kills and resets.                                                    *)
(*                                                                         *)
(* Responses pass through four places: the packet under construction       *)
(* (acc), the buffered packet (nextIn), the IN endpoint and the log of the *)
(* host. Packets are lost on the way, never overtaken: what is in one      *)
(* place comes before what is in the places behind it, and before what     *)
(* the requests still in the probe will add.                               *)
(***************************************************************************)
EXTENDS CmsisDapUsb, SequenceTheorems, WellFoundedInduction, TLAPS

Resp == Nat \X Nat
Req == [id : Nat, cmds : Requests]
Box(S) == {None} \cup {Some(x) : x \in S}

(* The responses in a buffer for one packet. *)
Held(p) == IF p = None THEN <<>> ELSE p[1]

Before(r, s) == r[1] < s[1] \/ (r[1] = s[1] /\ r[2] < s[2])
Ordered(s) == \A i, j \in 1 .. Len(s) : i < j => Before(s[i], s[j])
Precedes(s, t) == \A i \in 1 .. Len(s), j \in 1 .. Len(t) : Before(s[i], t[j])

(* No response in s is later than the one to command n of request a. *)
Upto(s, a, n) == \A i \in 1 .. Len(s) : s[i][1] < a \/ (s[i][1] = a /\ s[i][2] <= n)

(* Every response in s is to a request up to a, or from a on. *)
Till(s, a) == \A i \in 1 .. Len(s) : s[i][1] <= a
Since(s, a) == \A i \in 1 .. Len(s) : s[i][1] >= a
-----------------------------------------------------------------------------
(* Four queues, the first of them the oldest. *)
Pipe(l, e, b, a) ==
  /\ Ordered(l) /\ Ordered(e) /\ Ordered(b) /\ Ordered(a)
  /\ Precedes(l, e) /\ Precedes(l, b) /\ Precedes(l, a)
  /\ Precedes(e, b) /\ Precedes(e, a)
  /\ Precedes(b, a)

AllUpto(l, e, b, a, id, n) == Upto(l, id, n) /\ Upto(e, id, n) /\ Upto(b, id, n) /\ Upto(a, id, n)
AllTill(l, e, b, a, id) == Till(l, id) /\ Till(e, id) /\ Till(b, id) /\ Till(a, id)

UsbType ==
  /\ sent \in Nat
  /\ log \in Seq(Resp) /\ acc \in Seq(Resp)
  /\ inEp \in Box(Seq(Resp)) /\ nextIn \in Box(Seq(Resp))
  /\ outEp \in Box(Req) /\ pending \in Box(Req)
  /\ done \in Nat
  /\ task = "running" => pending # None
  /\ task # "running" => done = 0 /\ acc = <<>>

(* What has been answered is before what is still asked: the requests in   *)
(* the probe are younger than all responses, but for those the running     *)
(* process() has produced for its own.                                     *)
InFlight(id, n) == AllUpto(log, Held(inEp), Held(nextIn), acc, id, n)
IdsOrdered ==
  /\ AllTill(log, Held(inEp), Held(nextIn), acc, sent)
  /\ pending # None => pending[1].id <= sent /\ InFlight(pending[1].id, done)
  /\ outEp # None => outEp[1].id <= sent /\ InFlight(outEp[1].id, 0)
  /\ outEp # None /\ pending # None => pending[1].id < outEp[1].id

OrderInv == UsbType /\ Pipe(log, Held(inEp), Held(nextIn), acc) /\ IdsOrdered

(* Nothing in the probe is older than the session, unless the reset that   *)
(* began the session is still to be handled.                               *)
SessionInv ==
  /\ session \in Seq(Nat) /\ session # <<>> /\ Last(session) <= sent + 1
  /\ ~busReset =>
       /\ Since(Held(inEp), Last(session)) /\ Since(Held(nextIn), Last(session))
       /\ Since(acc, Last(session))
       /\ pending # None => pending[1].id >= Last(session)
       /\ outEp # None => outEp[1].id >= Last(session)
-----------------------------------------------------------------------------
LEMMA EmptyFacts ==
  /\ Ordered(<<>>)
  /\ \A s : Precedes(<<>>, s) /\ Precedes(s, <<>>)
  /\ \A id, n : Upto(<<>>, id, n) /\ Till(<<>>, id) /\ Since(<<>>, id)
  BY DEF Ordered, Precedes, Upto, Till, Since

LEMMA HeldFacts ==
  /\ Held(None) = <<>>
  /\ \A s : Held(Some(s)) = s /\ Some(s) # None /\ Some(s)[1] = s
  BY DEF Held, None, Some

LEMMA BoxFacts ==
  ASSUME NEW S, NEW p \in Box(S), p # None
  PROVE  p[1] \in S /\ p = Some(p[1])
  BY DEF Box, None, Some

LEMMA HeldType ==
  ASSUME NEW p \in Box(Seq(Resp))
  PROVE  Held(p) \in Seq(Resp)
  BY DEF Box, Held, None, Some

LEMMA RespFacts ==
  ASSUME NEW s \in Seq(Resp), NEW i \in 1 .. Len(s)
  PROVE  s[i][1] \in Nat /\ s[i][2] \in Nat
  <1>1. s[i] \in Resp  OBVIOUS
  <1>2. QED  BY <1>1 DEF Resp

(* The packet that the host reads goes behind its log. *)
LEMMA ConcatFacts ==
  ASSUME NEW s \in Seq(Resp), NEW t \in Seq(Resp)
  PROVE  /\ s \o t \in Seq(Resp)
         /\ Ordered(s) /\ Ordered(t) /\ Precedes(s, t) => Ordered(s \o t)
         /\ \A u : Precedes(s, u) /\ Precedes(t, u) => Precedes(s \o t, u)
         /\ \A id, n : Upto(s, id, n) /\ Upto(t, id, n) => Upto(s \o t, id, n)
         /\ \A id : Till(s, id) /\ Till(t, id) => Till(s \o t, id)
  <1>1. s \o t \in Seq(Resp) /\ Len(s \o t) = Len(s) + Len(t)  OBVIOUS
  <1>2. \A i \in 1 .. Len(s \o t) :
          \/ i \in 1 .. Len(s) /\ (s \o t)[i] = s[i]
          \/ i - Len(s) \in 1 .. Len(t) /\ (s \o t)[i] = t[i - Len(s)]
    OBVIOUS
  <1>3. ASSUME Ordered(s), Ordered(t), Precedes(s, t) PROVE Ordered(s \o t)
    <2> SUFFICES ASSUME NEW i \in 1 .. Len(s \o t), NEW j \in 1 .. Len(s \o t), i < j
                 PROVE  Before((s \o t)[i], (s \o t)[j])
      BY DEF Ordered
    <2>1. CASE i \in 1 .. Len(s) /\ j \in 1 .. Len(s)
      BY <1>1, <1>2, <1>3, <2>1 DEF Ordered
    <2>2. CASE i \in 1 .. Len(s) /\ j \notin 1 .. Len(s)
      BY <1>1, <1>2, <1>3, <2>2 DEF Precedes
    <2>3. CASE i \notin 1 .. Len(s)
      <3>1. i - Len(s) \in 1 .. Len(t) /\ j - Len(s) \in 1 .. Len(t) /\ i - Len(s) < j - Len(s)
        BY <1>1, <1>2, <2>3
      <3>2. (s \o t)[i] = t[i - Len(s)] /\ (s \o t)[j] = t[j - Len(s)]
        BY <1>1, <1>2, <2>3
      <3>3. QED  BY <1>3, <3>1, <3>2 DEF Ordered
    <2>4. QED  BY <2>1, <2>2, <2>3
  <1>4. ASSUME NEW u, Precedes(s, u), Precedes(t, u) PROVE Precedes(s \o t, u)
    BY <1>2, <1>4 DEF Precedes
  <1>5. ASSUME NEW id, NEW n, Upto(s, id, n), Upto(t, id, n) PROVE Upto(s \o t, id, n)
    BY <1>2, <1>5 DEF Upto
  <1>6. ASSUME NEW id, Till(s, id), Till(t, id) PROVE Till(s \o t, id)
    BY <1>2, <1>6 DEF Till
  <1>7. QED  BY <1>1, <1>3, <1>4, <1>5, <1>6

LEMMA AppendFacts ==
  ASSUME NEW s \in Seq(Resp), NEW r \in Resp
  PROVE  /\ Append(s, r) \in Seq(Resp) /\ Len(Append(s, r)) = Len(s) + 1
         /\ \A i \in 1 .. Len(Append(s, r)) :
              \/ i \in 1 .. Len(s) /\ Append(s, r)[i] = s[i]
              \/ i = Len(s) + 1 /\ Append(s, r)[i] = r
         /\ Append(<<>>, r) = <<r>>
  OBVIOUS

(* What is executed next comes after all there is. *)
LEMMA UptoPrecedes ==
  ASSUME NEW s \in Seq(Resp), NEW t \in Seq(Resp), NEW id \in Nat, NEW n \in Nat,
         Upto(s, id, n), Precedes(s, t)
  PROVE  Precedes(s, Append(t, <<id, n + 1>>))
  <1>1. <<id, n + 1>> \in Resp  BY DEF Resp
  <1> SUFFICES ASSUME NEW i \in 1 .. Len(s), NEW j \in 1 .. Len(Append(t, <<id, n + 1>>))
               PROVE  Before(s[i], Append(t, <<id, n + 1>>)[j])
    BY DEF Precedes
  <1>2. CASE j \in 1 .. Len(t) /\ Append(t, <<id, n + 1>>)[j] = t[j]
    BY <1>2 DEF Precedes
  <1>3. CASE Append(t, <<id, n + 1>>)[j] = <<id, n + 1>>
    BY SMTT(30), <1>3, RespFacts DEF Upto, Before
  <1>4. QED  BY <1>1, <1>2, <1>3, AppendFacts

LEMMA UptoOrdered ==
  ASSUME NEW s \in Seq(Resp), NEW id \in Nat, NEW n \in Nat, Upto(s, id, n), Ordered(s)
  PROVE  Ordered(Append(s, <<id, n + 1>>))
  <1>1. <<id, n + 1>> \in Resp  BY DEF Resp
  <1> DEFINE t == Append(s, <<id, n + 1>>)
  <1> SUFFICES ASSUME NEW i \in 1 .. Len(t), NEW j \in 1 .. Len(t), i < j
               PROVE  Before(t[i], t[j])
    BY DEF Ordered
  <1>2. i \in 1 .. Len(s) /\ t[i] = s[i]  BY <1>1, AppendFacts
  <1>3. CASE j \in 1 .. Len(s) /\ t[j] = s[j]
    BY <1>2, <1>3 DEF Ordered
  <1>4. CASE t[j] = <<id, n + 1>>
    <2>1. Before(s[i], <<id, n + 1>>)  BY <1>2, RespFacts DEF Upto, Before
    <2>2. QED  BY <1>2, <1>4, <2>1
  <1>5. QED  BY <1>1, <1>3, <1>4, AppendFacts

LEMMA UptoAppend ==
  ASSUME NEW s \in Seq(Resp), NEW id \in Nat, NEW n \in Nat, NEW m \in Nat, n < m, Upto(s, id, n)
  PROVE  Upto(s, id, m) /\ Upto(Append(s, <<id, n + 1>>), id, m)
  <1>1. <<id, n + 1>> \in Resp  BY DEF Resp
  <1>2. Upto(s, id, m)  BY RespFacts DEF Upto
  <1>3. QED  BY <1>1, <1>2, AppendFacts DEF Upto
-----------------------------------------------------------------------------
(* What may happen to the four places. *)
LEMMA PipeMoves ==
  ASSUME NEW l, NEW e, NEW b, NEW a, Pipe(l, e, b, a)
  PROVE  /\ Pipe(l, e, b, <<>>) /\ Pipe(l, b, <<>>, <<>>) /\ Pipe(l, e, <<>>, <<>>)
         /\ Pipe(l, a, <<>>, <<>>) /\ Pipe(l, e, a, <<>>) /\ Pipe(l, <<>>, <<>>, <<>>)
  BY EmptyFacts DEF Pipe

LEMMA PipeRead ==
  ASSUME NEW l \in Seq(Resp), NEW e \in Seq(Resp), NEW b, NEW a, Pipe(l, e, b, a)
  PROVE  Pipe(l \o e, <<>>, b, a)
  BY EmptyFacts, ConcatFacts DEF Pipe

LEMMA PipeAppend ==
  ASSUME NEW l \in Seq(Resp), NEW e \in Seq(Resp), NEW b \in Seq(Resp), NEW a \in Seq(Resp),
         NEW id \in Nat, NEW n \in Nat, NEW m \in Nat, n < m,
         Pipe(l, e, b, a), AllUpto(l, e, b, a, id, n)
  PROVE  /\ Pipe(l, e, b, Append(a, <<id, n + 1>>))
         /\ AllUpto(l, e, b, Append(a, <<id, n + 1>>), id, m)
  BY UptoPrecedes, UptoOrdered, UptoAppend DEF Pipe, AllUpto
-----------------------------------------------------------------------------
LEMMA SendFacts ==
  ASSUME NEW p \in Box(Seq(Resp)), inEp \in Box(Seq(Resp)), Send(p)
  PROVE  /\ inEp' \in Box(Seq(Resp)) /\ nextIn' \in Box(Seq(Resp))
         /\ \/ Held(inEp') = Held(p) /\ Held(nextIn') = <<>>
            \/ Held(inEp') = Held(inEp) /\ Held(nextIn') = Held(p)
  <1>1. None \in Box(Seq(Resp))  BY DEF Box
  <1>2. QED  BY <1>1, HeldFacts DEF Send

(* The queues before a step, all in order and in their types. *)
LEMMA QueueTypes ==
  ASSUME UsbType
  PROVE  /\ Held(inEp) \in Seq(Resp) /\ Held(nextIn) \in Seq(Resp)
         /\ <<>> \in Seq(Resp) /\ None \in Box(Seq(Resp)) /\ None \in Box(Req)
         /\ Some(acc) \in Box(Seq(Resp)) /\ Held(Some(acc)) = acc
         /\ pending # None => pending[1] \in Req /\ pending[1].id \in Nat
         /\ outEp # None => outEp[1] \in Req /\ outEp[1].id \in Nat
  <1>1. \A p \in Box(Req) : p # None => p[1] \in Req /\ p[1].id \in Nat
    BY BoxFacts DEF Req
  <1>2. QED  BY <1>1, HeldType, HeldFacts DEF UsbType, Box

(* A request, once sent, is younger than everything before it. *)
LEMMA TillUpto ==
  ASSUME NEW s \in Seq(Resp), NEW k \in Nat, Till(s, k)
  PROVE  Upto(s, k + 1, 0) /\ Till(s, k + 1)
  BY RespFacts DEF Till, Upto

LEMMA UptoTill ==
  ASSUME NEW s \in Seq(Resp), NEW id \in Nat, NEW n, NEW k \in Nat, Upto(s, id, n), id <= k
  PROVE  Till(s, k)
  BY RespFacts DEF Till, Upto

LEMMA UptoLower ==
  ASSUME NEW s \in Seq(Resp), NEW id \in Nat, NEW n, NEW k \in Nat, Upto(s, id, n), id < k
  PROVE  Upto(s, k, 0)
  BY RespFacts DEF Upto

LEMMA InitOrder == Init => OrderInv
  <1> SUFFICES ASSUME Init PROVE OrderInv  OBVIOUS
  <1>1. UsbType  BY DEF Init, UsbType, Box, None
  <1>2. Held(inEp) = <<>> /\ Held(nextIn) = <<>>  BY HeldFacts DEF Init
  <1>3. Pipe(log, Held(inEp), Held(nextIn), acc)
    BY <1>2, EmptyFacts DEF Init, Pipe
  <1>4. IdsOrdered  BY <1>2, EmptyFacts DEF Init, IdsOrdered, AllTill
  <1>5. QED  BY <1>1, <1>3, <1>4 DEF OrderInv

(* A step that leaves the probe alone. *)
LEMMA QuietOrder ==
  ASSUME OrderInv, UNCHANGED <<sent, log, outEp, inEp, dap, task>>
  PROVE  OrderInv'
  BY DEF OrderInv, UsbType, IdsOrdered, InFlight, Held, dap

LEMMA HostSendOrder == OrderInv /\ HostSend => OrderInv'
  <1> SUFFICES ASSUME OrderInv, HostSend PROVE OrderInv'  OBVIOUS
  <1>0. /\ UsbType /\ Pipe(log, Held(inEp), Held(nextIn), acc) /\ IdsOrdered
        /\ UNCHANGED <<log, inEp, pending, nextIn, done, acc, task>> /\ sent' = sent + 1
    BY DEF OrderInv, HostSend, dap
  <1>1. PICK cmds \in Requests : outEp' = Some(Packet(sent + 1, cmds))
    BY DEF HostSend
  <1>2. Packet(sent + 1, cmds) \in Req /\ Packet(sent + 1, cmds).id = sent + 1
    BY <1>0 DEF Packet, Req, UsbType
  <1>3. outEp' \in Box(Req) /\ outEp'[1].id = sent + 1
    BY <1>1, <1>2, HeldFacts DEF Box
  <1>4. UsbType'  BY <1>0, <1>3 DEF UsbType
  <1>5. /\ AllTill(log, Held(inEp), Held(nextIn), acc, sent + 1)
        /\ AllUpto(log, Held(inEp), Held(nextIn), acc, sent + 1, 0)
    BY <1>0, TillUpto, QueueTypes DEF IdsOrdered, AllTill, AllUpto, UsbType
  <1>6. IdsOrdered'
    <2>1. pending # None => pending[1].id \in Nat /\ pending[1].id <= sent
      BY <1>0, QueueTypes DEF IdsOrdered
    <2>2. QED  BY <1>0, <1>3, <1>5, <2>1 DEF IdsOrdered, InFlight, UsbType
  <1>7. QED  BY <1>0, <1>4, <1>6 DEF OrderInv

LEMMA HostReadOrder == OrderInv /\ HostRead => OrderInv'
  <1> SUFFICES ASSUME OrderInv, HostRead PROVE OrderInv'  OBVIOUS
  <1>0. /\ UsbType /\ Pipe(log, Held(inEp), Held(nextIn), acc) /\ IdsOrdered
        /\ UNCHANGED <<sent, outEp, pending, nextIn, done, acc, task>>
    BY DEF OrderInv, HostRead, dap
  <1>1. log' = log \o Held(inEp) /\ inEp' = None /\ Held(inEp') = <<>>
    BY HeldFacts DEF HostRead, Held
  <1>2. UsbType'
    BY <1>0, <1>1, QueueTypes, ConcatFacts DEF UsbType
  <1>3. Pipe(log', Held(inEp'), Held(nextIn'), acc')
    BY <1>0, <1>1, QueueTypes, PipeRead DEF UsbType
  <1>4. \A id, n : InFlight(id, n) => InFlight(id, n)'
    BY <1>0, <1>1, QueueTypes, ConcatFacts, EmptyFacts DEF InFlight, AllUpto, UsbType
  <1>5. AllTill(log', Held(inEp'), Held(nextIn'), acc', sent)
    <2>1. Till(log, sent) /\ Till(Held(inEp), sent) /\ Till(Held(nextIn), sent) /\ Till(acc, sent)
      BY <1>0 DEF IdsOrdered, AllTill
    <2>2. Till(log \o Held(inEp), sent)
      BY <1>0, <2>1, QueueTypes, ConcatFacts DEF UsbType
    <2>3. QED  BY <1>0, <1>1, <2>1, <2>2, EmptyFacts DEF AllTill
  <1>6. IdsOrdered'  BY <1>0, <1>4, <1>5 DEF IdsOrdered
  <1>7. QED  BY <1>2, <1>3, <1>6 DEF OrderInv

(* The requests of the probe, as good as the ones before the step.         *)
RequestsOrdered(p, o, n) ==
  /\ p \in Box(Req) /\ o \in Box(Req)
  /\ p # None => p[1].id <= sent /\ InFlight(p[1].id, n)
  /\ o # None => o[1].id <= sent /\ InFlight(o[1].id, 0)
  /\ o # None /\ p # None => p[1].id < o[1].id

LEMMA ReceiveOrder ==
  ASSUME UsbType, IdsOrdered, Receive, task # "running"
  PROVE  RequestsOrdered(pending', outEp', 0)
  <1>1. done = 0 /\ None \in Box(Req)  BY QueueTypes DEF UsbType
  <1>2. CASE pending = None
    BY <1>1, <1>2 DEF Receive, Received, RequestsOrdered, IdsOrdered, UsbType
  <1>3. CASE pending # None
    BY <1>1, <1>3 DEF Receive, Received, RequestsOrdered, IdsOrdered, UsbType
  <1>4. QED  BY <1>2, <1>3

(* Packets move on, or are lost, and nothing is being executed.            *)
LEMMA MoveOrder ==
  ASSUME OrderInv, task' # "running" \/ pending' # None, UNCHANGED <<sent, log>>,
         done' = 0, acc' = <<>>, RequestsOrdered(pending', outEp', 0),
         inEp' \in Box(Seq(Resp)), nextIn' \in Box(Seq(Resp)),
         \/ Held(inEp') = Held(inEp) /\ Held(nextIn') \in {<<>>, Held(nextIn), acc}
         \/ Held(inEp') \in {<<>>, Held(nextIn), acc} /\ Held(nextIn') = <<>>
  PROVE  OrderInv'
  <1>1. UsbType'
    BY QueueTypes DEF OrderInv, UsbType, RequestsOrdered
  <1>2. Pipe(log', Held(inEp'), Held(nextIn'), acc')
    <2>1. Pipe(log, Held(inEp), Held(nextIn), acc)  BY DEF OrderInv
    <2>2. QED  BY <2>1, PipeMoves
  <1>3. \A id, n : InFlight(id, n) => InFlight(id, n)'
    BY EmptyFacts DEF InFlight, AllUpto
  <1>4. AllTill(log', Held(inEp'), Held(nextIn'), acc', sent)
    BY EmptyFacts DEF OrderInv, IdsOrdered, AllTill
  <1>5. IdsOrdered'
    BY <1>3, <1>4 DEF IdsOrdered, RequestsOrdered
  <1>6. QED  BY <1>1, <1>2, <1>5 DEF OrderInv

LEMMA ProcessStartOrder == OrderInv /\ ProcessStart => OrderInv'
  <1> SUFFICES ASSUME OrderInv, ProcessStart PROVE OrderInv'  OBVIOUS
  <1>1. /\ UsbType /\ IdsOrdered /\ task = "spawned" /\ Receive
        /\ UNCHANGED <<sent, log>> /\ done' = 0 /\ acc' = <<>>
    BY DEF OrderInv, ProcessStart, hostVars
  <1>2. RequestsOrdered(pending', outEp', 0)  BY <1>1, ReceiveOrder
  <1>3. DropUnread \in Box(Seq(Resp)) /\ Held(DropUnread) \in {<<>>, Held(nextIn)}
        /\ inEp \in Box(Seq(Resp))
    BY <1>1, QueueTypes, HeldFacts DEF DropUnread, UsbType
  <1>4. CASE Received = None \/ DropUnread # None
    <2>1. Send(DropUnread) /\ task' = "finishing"  BY <1>4 DEF ProcessStart
    <2>2. QED  BY <1>1, <1>2, <1>3, <2>1, SendFacts, MoveOrder
  <1>5. CASE ~(Received = None \/ DropUnread # None)
    <2>1. nextIn' = DropUnread /\ inEp' = inEp /\ pending' # None
      BY <1>1, <1>5 DEF ProcessStart, Receive
    <2>2. QED  BY <1>1, <1>2, <1>3, <2>1, MoveOrder
  <1>6. QED  BY <1>4, <1>5

LEMMA IrqOrder == OrderInv /\ UsbctrlIrq => OrderInv'
  <1> SUFFICES ASSUME OrderInv, UsbctrlIrq PROVE OrderInv'  OBVIOUS
  <1>1. /\ UsbType /\ IdsOrdered /\ task # "running" /\ task' # "running"
        /\ UNCHANGED <<sent, log>> /\ done = 0 /\ acc = <<>> /\ done' = 0 /\ acc' = <<>>
    BY DEF OrderInv, UsbType, UsbctrlIrq, IrqReset, IrqPoll, hostVars
  <1>2. CASE IrqReset
    <2>1. /\ pending' = None /\ outEp' = None /\ inEp' = None /\ nextIn' = None
      BY <1>2 DEF IrqReset, Reset
    <2>2. RequestsOrdered(pending', outEp', 0) /\ None \in Box(Seq(Resp)) /\ Held(None) = <<>>
      BY <1>1, <2>1, QueueTypes, HeldFacts DEF RequestsOrdered
    <2>3. QED  BY <1>1, <2>1, <2>2, MoveOrder
  <1>3. CASE IrqPoll
    <2>1. RequestsOrdered(pending', outEp', 0)  BY <1>1, <1>3, ReceiveOrder DEF IrqPoll
    <2>2. CASE Send(nextIn)
      BY <1>1, <2>1, <2>2, SendFacts, MoveOrder DEF UsbType
    <2>3. CASE UNCHANGED <<inEp, nextIn>>
      BY <1>1, <2>1, <2>3, MoveOrder DEF UsbType
    <2>4. QED  BY <1>3, <2>2, <2>3 DEF IrqPoll
  <1>4. QED  BY <1>2, <1>3 DEF UsbctrlIrq

LEMMA ProcessEndOrder == OrderInv /\ ProcessEnd => OrderInv'
  <1> SUFFICES ASSUME OrderInv, ProcessEnd PROVE OrderInv'  OBVIOUS
  <1>1. /\ UsbType /\ IdsOrdered /\ UNCHANGED <<sent, log>> /\ done' = 0 /\ acc' = <<>>
        /\ task' # "running" /\ Send(Some(acc)) /\ pending' = None /\ outEp' = outEp
    BY DEF OrderInv, ProcessEnd, hostVars
  <1>2. RequestsOrdered(pending', outEp', 0)
    BY <1>1, QueueTypes DEF IdsOrdered, RequestsOrdered, UsbType
  <1>3. Held(Some(acc)) = acc /\ Some(acc) \in Box(Seq(Resp)) /\ inEp \in Box(Seq(Resp))
    BY <1>1, QueueTypes DEF UsbType
  <1>4. QED  BY <1>1, <1>2, <1>3, SendFacts, MoveOrder

LEMMA TaskEndOrder == OrderInv /\ TaskEnd => OrderInv'
  <1> SUFFICES ASSUME OrderInv, TaskEnd PROVE OrderInv'  OBVIOUS
  <1>1. /\ UsbType /\ IdsOrdered /\ task' # "running" /\ done = 0 /\ acc = <<>>
        /\ UNCHANGED <<sent, log, inEp, nextIn, done, acc, pending, outEp>>
    BY DEF OrderInv, UsbType, TaskEnd, hostVars, endpoints, dap
  <1>2. RequestsOrdered(pending', outEp', 0)
    BY <1>1 DEF RequestsOrdered, IdsOrdered, UsbType
  <1>3. QED  BY <1>1, <1>2, MoveOrder DEF UsbType

(* The counter goes past the command that was executed.                    *)
LEMMA DoneFacts ==
  ASSUME UsbType, task = "running", done < Len(pending[1].cmds),
         done' = IF pending[1].cmds[done + 1].stops THEN Len(pending[1].cmds) ELSE done + 1
  PROVE  done' \in Nat /\ done < done'
  <1>1. pending[1].cmds \in Seq(Command)
    BY QueueTypes, RequestsAssumption DEF UsbType, Req
  <1>2. Len(pending[1].cmds) \in Nat /\ done \in Nat  BY <1>1 DEF UsbType
  <1>3. QED  BY <1>2

LEMMA ProcessCommandOrder == OrderInv /\ ProcessCommand => OrderInv'
  <1> SUFFICES ASSUME OrderInv, ProcessCommand PROVE OrderInv'  OBVIOUS
  <1> DEFINE id == pending[1].id
             r == <<id, done + 1>>
  <1>1. /\ UsbType /\ IdsOrdered /\ task = "running" /\ pending # None
        /\ UNCHANGED <<sent, log, outEp, pending, task>>
        /\ id \in Nat /\ id <= sent /\ sent \in Nat /\ done \in Nat
    BY QueueTypes DEF OrderInv, UsbType, IdsOrdered, ProcessCommand, hostVars
  <1>2. done' \in Nat /\ done < done'
    BY <1>1, DoneFacts DEF ProcessCommand
  <1>3. PICK e \in Seq(Resp), b \in Seq(Resp), a \in Seq(Resp) :
          /\ inEp' \in Box(Seq(Resp)) /\ nextIn' \in Box(Seq(Resp))
          /\ Held(inEp') = e /\ Held(nextIn') = b /\ acc' = Append(a, r)
          /\ \/ e = acc /\ b = <<>> /\ a = <<>>
             \/ e = Held(inEp) /\ b = acc /\ a = <<>>
             \/ e = Held(inEp) /\ b = Held(nextIn) /\ a = acc
    <2>1. r \in Resp /\ Append(<<>>, r) = <<r>>  BY <1>1, AppendFacts DEF Resp
    <2>2. CASE Send(Some(acc)) /\ acc' = <<r>>
      BY <1>1, <2>1, <2>2, QueueTypes, SendFacts DEF UsbType
    <2>3. CASE acc' = Append(acc, r) /\ UNCHANGED <<inEp, nextIn>>
      BY <1>1, <2>3, QueueTypes DEF UsbType
    <2>4. QED  BY <2>2, <2>3 DEF ProcessCommand
  <1>4. Pipe(log, e, b, a)
    BY <1>3, PipeMoves DEF OrderInv
  <1>5. AllUpto(log, e, b, a, id, done)
    BY <1>1, <1>3, EmptyFacts DEF IdsOrdered, InFlight, AllUpto
  <1>6. /\ Pipe(log, e, b, Append(a, r))
        /\ AllUpto(log, e, b, Append(a, r), id, done')
    BY <1>1, <1>2, <1>4, <1>5, PipeAppend DEF UsbType
  <1>7. UsbType'
    <2>1. r \in Resp  BY <1>1 DEF Resp
    <2>2. acc' \in Seq(Resp)  BY <1>3, <2>1, AppendFacts
    <2>3. QED  BY <1>1, <1>2, <1>3, <2>2 DEF UsbType
  <1>8. IdsOrdered'
    <2>1. InFlight(pending[1].id, done)'  BY <1>1, <1>3, <1>6 DEF InFlight
    <2>2. acc' \in Seq(Resp) /\ log \in Seq(Resp)  BY <1>1, <1>7 DEF UsbType
    <2>3. AllTill(log, e, b, acc', sent)
      BY <1>1, <1>2, <1>3, <1>6, <2>2, UptoTill DEF AllUpto, AllTill
    <2>4. ASSUME outEp # None PROVE InFlight(outEp[1].id, 0)'
      <3>1. outEp[1].id \in Nat /\ id < outEp[1].id
        BY <1>1, <2>4, QueueTypes DEF IdsOrdered
      <3>2. \A s \in Seq(Resp) : Upto(s, id, done') => Upto(s, outEp[1].id, 0)
        BY <1>1, <3>1, UptoLower
      <3>3. AllUpto(log, e, b, acc', outEp[1].id, 0)
        BY <1>3, <1>6, <2>2, <3>2 DEF AllUpto
      <3>4. QED  BY <1>1, <1>3, <3>3 DEF InFlight
    <2>5. QED  BY <1>1, <1>3, <2>1, <2>3, <2>4 DEF IdsOrdered
  <1>9. QED  BY <1>1, <1>3, <1>6, <1>7, <1>8 DEF OrderInv

LEMMA StepOrder == OrderInv /\ [Next]_vars => OrderInv'
  <1> SUFFICES ASSUME OrderInv, [Next]_vars PROVE OrderInv'  OBVIOUS
  <1>1. CASE UNCHANGED vars \/ HostKill \/ HostReset
    BY <1>1, QuietOrder DEF vars, hostVars, endpoints, dap, HostKill, HostReset
  <1>2. CASE HostSend \/ HostRead  BY <1>2, HostSendOrder, HostReadOrder
  <1>3. CASE DapProcess
    BY <1>3, ProcessStartOrder, ProcessCommandOrder, ProcessEndOrder, TaskEndOrder DEF DapProcess
  <1>4. CASE UsbctrlIrq  BY <1>4, IrqOrder
  <1>5. QED  BY <1>1, <1>2, <1>3, <1>4 DEF Next, Host

(* The host never reads a response twice or after a later one, for every   *)
(* set of requests: answers of any number of packets, a requester killed   *)
(* at any time, and any interleaving of the interrupt, the task and the    *)
(* host. A packet that is lost is lost; it is never overtaken.             *)
THEOREM ResponsesInOrder == Spec => []DeliveredInOrder
  <1>1. OrderInv => DeliveredInOrder
    BY DEF OrderInv, Pipe, Ordered, Before, DeliveredInOrder
  <1>2. QED  BY <1>1, InitOrder, StepOrder, PTL DEF Spec
-----------------------------------------------------------------------------
LEMMA SinceFacts ==
  ASSUME NEW s \in Seq(Resp), NEW a, Since(s, a), NEW r \in Resp, r[1] >= a
  PROVE  Since(Append(s, r), a)
  BY AppendFacts DEF Since

LEMMA LastAppend ==
  ASSUME NEW s \in Seq(Nat), NEW n \in Nat
  PROVE  Append(s, n) \in Seq(Nat) /\ Append(s, n) # <<>> /\ Last(Append(s, n)) = n
  BY DEF Last

LEMMA InitSession == Init => SessionInv
  <1> SUFFICES ASSUME Init PROVE SessionInv  OBVIOUS
  <1>1. Held(inEp) = <<>> /\ Held(nextIn) = <<>>  BY HeldFacts DEF Init
  <1>2. session = <<1>> /\ Last(session) = 1 /\ session \in Seq(Nat) /\ session # <<>>
    BY DEF Init, Last
  <1>3. QED  BY <1>1, <1>2, EmptyFacts DEF Init, SessionInv

(* Nothing new in the probe but what a request in it asks for.             *)
LEMMA MoveSession ==
  ASSUME SessionInv, UNCHANGED <<sent, session>>, busReset' \/ ~busReset,
         Held(inEp') \in {<<>>, Held(inEp), Held(nextIn), acc},
         Held(nextIn') \in {<<>>, Held(nextIn), acc},
         Since(acc', Last(session)) \/ busReset, pending' \in {None, pending, outEp},
         outEp' \in {None, outEp}
  PROVE  SessionInv'
  BY EmptyFacts DEF SessionInv

LEMMA HostSession == OrderInv /\ SessionInv /\ Host => SessionInv'
  <1> SUFFICES ASSUME OrderInv, SessionInv, Host PROVE SessionInv'  OBVIOUS
  <1>0. sent \in Nat /\ sent + 1 \in Nat /\ session \in Seq(Nat) /\ Last(session) \in Nat
    <2>1. session[Len(session)] \in Nat  BY DEF SessionInv
    <2>2. QED  BY <2>1 DEF OrderInv, UsbType, SessionInv, Last
  <1>1. CASE HostSend
    <2>1. outEp'[1].id = sent + 1
      BY <1>1, HeldFacts DEF HostSend, Packet
    <2>2. QED  BY <1>0, <1>1, <2>1 DEF HostSend, SessionInv, dap
  <1>2. CASE HostRead
    <2>1. Held(inEp') = <<>>  BY <1>2, HeldFacts DEF HostRead
    <2>2. QED  BY <1>2, <2>1, EmptyFacts DEF HostRead, SessionInv, dap
  <1>3. CASE HostKill
    BY <1>3 DEF HostKill, endpoints, dap, SessionInv
  <1>4. CASE HostReset
    <2>1. /\ session' \in Seq(Nat) /\ session' # <<>> /\ Last(session') = sent + 1
      BY <1>0, <1>4, LastAppend DEF HostReset
    <2>2. QED  BY <1>0, <1>4, <2>1 DEF HostReset, SessionInv
  <1>5. QED  BY <1>1, <1>2, <1>3, <1>4 DEF Host

LEMMA ProcessSession == OrderInv /\ SessionInv /\ DapProcess => SessionInv'
  <1> SUFFICES ASSUME OrderInv, SessionInv, DapProcess PROVE SessionInv'  OBVIOUS
  <1>0. UsbType /\ UNCHANGED <<sent, session, busReset>> /\ inEp \in Box(Seq(Resp))
    BY DEF OrderInv, UsbType, DapProcess, ProcessStart, ProcessCommand, ProcessEnd, TaskEnd,
           hostVars, endpoints
  <1>1. CASE ProcessStart
    <2>1. DropUnread \in Box(Seq(Resp)) /\ Held(DropUnread) \in {<<>>, Held(nextIn)}
      BY <1>0, QueueTypes, HeldFacts DEF DropUnread, UsbType
    <2>2. pending' \in {pending, outEp} /\ outEp' \in {None, outEp} /\ acc' = <<>>
      BY <1>1 DEF ProcessStart, Receive, Received
    <2>3. Send(DropUnread) \/ (nextIn' = DropUnread /\ inEp' = inEp)
      BY <1>1 DEF ProcessStart
    <2>4. QED  BY <1>0, <2>1, <2>2, <2>3, SendFacts, MoveSession, EmptyFacts
  <1>2. CASE ProcessCommand
    <2> DEFINE r == <<pending[1].id, done + 1>>
    <2>1. /\ pending # None /\ pending[1].id \in Nat /\ r \in Resp /\ r[1] = pending[1].id
          /\ UNCHANGED <<outEp, pending>>
      <3>1. task = "running" /\ UNCHANGED <<outEp, pending>>  BY <1>2 DEF ProcessCommand
      <3>2. pending # None /\ pending[1].id \in Nat /\ done \in Nat
        BY <1>0, <3>1, QueueTypes DEF UsbType
      <3>3. QED  BY <3>1, <3>2 DEF Resp
    <2>2. \/ Send(Some(acc)) /\ acc' = <<r>>
          \/ acc' = Append(acc, r) /\ UNCHANGED <<inEp, nextIn>>
      BY <1>2 DEF ProcessCommand
    <2>3. /\ Held(inEp') \in {<<>>, Held(inEp), acc}
          /\ Held(nextIn') \in {<<>>, Held(nextIn), acc}
      BY <1>0, <2>2, QueueTypes, SendFacts
    <2>4. acc' \in {Append(<<>>, r), Append(acc, r)}  BY <2>1, <2>2, AppendFacts, QueueTypes, <1>0
    <2>5. Since(acc', Last(session)) \/ busReset
      BY <1>0, <2>1, <2>4, SinceFacts, EmptyFacts, QueueTypes DEF SessionInv, UsbType
    <2>6. QED  BY <1>0, <2>1, <2>3, <2>5, MoveSession
  <1>3. CASE ProcessEnd
    BY <1>0, <1>3, QueueTypes, SendFacts, MoveSession, EmptyFacts DEF ProcessEnd
  <1>4. CASE TaskEnd
    BY <1>0, <1>4 DEF TaskEnd, endpoints, dap, SessionInv
  <1>5. QED  BY <1>1, <1>2, <1>3, <1>4 DEF DapProcess

LEMMA IrqSession == OrderInv /\ SessionInv /\ UsbctrlIrq => SessionInv'
  <1> SUFFICES ASSUME OrderInv, SessionInv, UsbctrlIrq PROVE SessionInv'  OBVIOUS
  <1>0. UsbType /\ UNCHANGED <<sent, session, acc>> /\ acc = <<>> /\ inEp \in Box(Seq(Resp))
        /\ nextIn \in Box(Seq(Resp))
    BY DEF OrderInv, UsbType, UsbctrlIrq, IrqReset, IrqPoll, hostVars
  <1>1. CASE IrqReset
    <2>1. pending' = None /\ outEp' = None /\ Held(inEp') = <<>> /\ Held(nextIn') = <<>>
      BY <1>1, HeldFacts DEF IrqReset, Reset
    <2>2. QED  BY <1>0, <2>1, EmptyFacts DEF SessionInv
  <1>2. CASE IrqPoll
    <2>1. pending' \in {pending, outEp} /\ outEp' \in {None, outEp} /\ ~busReset /\ ~busReset'
      BY <1>2 DEF IrqPoll, Receive, Received
    <2>2. /\ Held(inEp') \in {<<>>, Held(inEp), Held(nextIn)}
          /\ Held(nextIn') \in {<<>>, Held(nextIn)}
      BY <1>0, <1>2, SendFacts DEF IrqPoll
    <2>3. QED  BY <1>0, <2>1, <2>2, MoveSession, EmptyFacts
  <1>3. QED  BY <1>1, <1>2 DEF UsbctrlIrq

LEMMA StepSession == OrderInv /\ SessionInv /\ [Next]_vars => SessionInv'
  <1> SUFFICES ASSUME OrderInv, SessionInv, [Next]_vars PROVE SessionInv'  OBVIOUS
  <1>1. CASE UNCHANGED vars
    BY <1>1 DEF vars, hostVars, endpoints, dap, SessionInv
  <1>2. QED  BY <1>1, HostSession, ProcessSession, IrqSession DEF Next

(* No response is read in another bus session than its request was sent    *)
(* in: a reset leaves nothing, whatever process() was doing when it came   *)
(* and whenever the interrupt gets to handle it.                           *)
THEOREM ResetClean == Spec => NothingLeaksAcrossReset
  <1>1. SessionInv /\ [Next]_vars =>
          [HostRead => \A i \in 1 .. Len(inEp[1]) : inEp[1][i][1] >= Last(session)]_vars
    BY DEF SessionInv, HostRead, Since, Held
  <1>2. QED
    BY <1>1, InitOrder, StepOrder, InitSession, StepSession, PTL DEF Spec, NothingLeaksAcrossReset
-----------------------------------------------------------------------------
(* What a requester is answered. The responses a + 1 to b of request n:    *)
Span(n, a, b) == [i \in 1 .. b - a |-> <<n, a + i>>]
Boxed(n, a, b) == IF a = b THEN None ELSE Some(Span(n, a, b))

Fits(c, total) ==
  /\ total \in [0 .. Answers(c) -> Nat] /\ total[0] = 0
  /\ \A i \in 1 .. Answers(c) : c[i].size < MaxPacket /\ total[i] = total[i - 1] + c[i].size
  /\ \A i, j \in 1 .. Answers(c) :
       i <= j /\ MaxPacket <= total[i] => total[j] - total[i - 1] < MaxPacket

(* Between its kills, a request is in one of these places: nowhere, not    *)
(* begun, being executed with its first a responses sent and k produced,   *)
(* or answered by a packet in the endpoint, one behind it, or both.        *)
Quiet == waiting = 0 /\ task # "running" /\ outEp = None /\ pending = None /\ inEp = None /\ nextIn = None

Asked(c) ==
  /\ waiting = Answers(c) /\ have = 0 /\ task # "running" /\ inEp = None /\ nextIn = None
  /\ \/ outEp = Some(Packet(sent, c)) /\ pending = None
     \/ outEp = None /\ pending = Some(Packet(sent, c))

Working(c, total, a, k) ==
  /\ waiting = Answers(c) /\ task = "running" /\ pending = Some(Packet(sent, c)) /\ outEp = None
  /\ k <= waiting /\ have <= a /\ a <= k /\ (k > 0 => a < k)
  /\ done = IF k = waiting THEN Len(c) ELSE k
  /\ acc = Span(sent, a, k) /\ length = total[k] - total[a]
  /\ a > 0 => MaxPacket <= total[a + 1]
  /\ inEp = Boxed(sent, have, a) /\ nextIn = None

Answered(a) ==
  /\ task # "running" /\ outEp = None /\ pending = None
  /\ have < waiting /\ have <= a /\ a <= waiting
  /\ inEp = Boxed(sent, have, a) /\ nextIn = Boxed(sent, a, waiting)

Stage ==
  \/ Quiet
  \/ \E c \in Requests : Asked(c)
  \/ \E c \in Requests : \E total : Fits(c, total) /\ \E a, k \in Nat : Working(c, total, a, k)
  \/ \E a \in Nat : Answered(a)

KeptInv ==
  /\ sent \in Nat /\ have \in Nat /\ waiting \in Nat /\ kills \in Nat
  /\ busReset => waiting = 0
  /\ kills = 0 /\ ~busReset => Stage

LEMMA LeastNat ==
  ASSUME NEW S, S \subseteq Nat, S # {}
  PROVE  \E x \in S : \A y \in S : x <= y
  <1>1. IsWellFoundedOn(OpToRel(<, Nat), Nat)  BY NatLessThanWellFounded DEF OpToRel, IsWellFoundedOn
  <1>2. PICK x \in S : \A y \in S : ~(<<y, x>> \in OpToRel(<, Nat))
    BY <1>1, WFMin
  <1>3. \A y \in S : ~(y < x)  BY <1>2 DEF OpToRel
  <1>4. QED  BY <1>3

LEMMA AnswersIs ==
  ASSUME NEW c \in Requests
  PROVE  /\ c \in Seq(Command) /\ Len(c) \in Nat /\ Answers(c) \in 1 .. Len(c)
         /\ Answers(c) = Len(c) \/ c[Answers(c)].stops
         /\ \A j \in 1 .. Len(c) : j < Answers(c) => ~c[j].stops
         /\ \A j \in 1 .. Len(c) : c[j].size \in Nat /\ c[j].stops \in BOOLEAN
  <1>1. c \in Seq(Command) /\ c # <<>>  BY RequestsAssumption
  <1>2. Len(c) \in Nat /\ Len(c) > 0  BY <1>1
  <1>3. \A j \in 1 .. Len(c) : c[j] \in Command  BY <1>1
  <1>4. \A j \in 1 .. Len(c) : c[j].size \in Nat /\ c[j].stops \in BOOLEAN
    BY <1>3, SizesAssumption DEF Command
  <1> DEFINE ends == {i \in 1 .. Len(c) : c[i].stops}
             least == CHOOSE i \in ends : \A j \in ends : i <= j
  <1>5. Answers(c) = IF ends = {} THEN Len(c) ELSE least  BY DEF Answers
  <1>6. CASE ends = {}
    BY <1>1, <1>2, <1>4, <1>5, <1>6
  <1>7. CASE ends # {}
    <2>1. ends \subseteq Nat  OBVIOUS
    <2>2. \E x \in ends : \A y \in ends : x <= y  BY <1>7, <2>1, LeastNat
    <2>3. least \in ends /\ \A j \in ends : least <= j  BY <2>2
    <2>4. Answers(c) = least  BY <1>5, <1>7
    <2> HIDE DEF least
    <2>5. Answers(c) \in 1 .. Len(c) /\ c[Answers(c)].stops  BY <2>3, <2>4
    <2>6. \A j \in 1 .. Len(c) : j < Answers(c) => ~c[j].stops
      <3>1. SUFFICES ASSUME NEW j \in 1 .. Len(c), j < Answers(c), c[j].stops PROVE FALSE
        OBVIOUS
      <3>2. j \in ends  BY <3>1
      <3>3. least <= j /\ least \in Nat /\ j \in Nat  BY <2>3, <3>2
      <3>4. QED  BY <2>4, <3>1, <3>3
    <2>7. QED  BY <1>1, <1>2, <1>4, <2>5, <2>6
  <1>8. QED  BY <1>6, <1>7

LEMMA SpanIs ==
  ASSUME NEW n \in Nat, NEW a \in Nat, NEW b \in Nat, a <= b
  PROVE  /\ Span(n, a, b) \in Seq(Resp) /\ Len(Span(n, a, b)) = b - a
         /\ \A i \in 1 .. b - a : Span(n, a, b)[i] = <<n, a + i>>
  <1>1. b - a \in Nat  OBVIOUS
  <1>2. \A i \in 1 .. b - a : <<n, a + i>> \in Resp  BY DEF Resp
  <1>3. Span(n, a, b) \in [1 .. b - a -> Resp]  BY <1>2 DEF Span
  <1>4. Span(n, a, b) \in Seq(Resp)  BY <1>1, <1>3
  <1>5. DOMAIN Span(n, a, b) = 1 .. b - a  BY DEF Span
  <1>6. Len(Span(n, a, b)) = b - a  BY <1>1, <1>4, <1>5
  <1>7. QED  BY <1>4, <1>6 DEF Span

LEMMA SpanGrows ==
  ASSUME NEW n \in Nat, NEW a \in Nat, NEW b \in Nat, a <= b
  PROVE  /\ Append(Span(n, a, b), <<n, b + 1>>) = Span(n, a, b + 1)
         /\ Span(n, a, a) = <<>> /\ << <<n, a + 1>> >> = Span(n, a, a + 1)
  <1> DEFINE s == Span(n, a, b)
             t == Span(n, a, b + 1)
  <1>1. <<n, b + 1>> \in Resp  BY DEF Resp
  <1>2. /\ s \in Seq(Resp) /\ Len(s) = b - a /\ \A i \in 1 .. b - a : s[i] = <<n, a + i>>
        /\ t \in Seq(Resp) /\ Len(t) = (b + 1) - a /\ \A i \in 1 .. (b + 1) - a : t[i] = <<n, a + i>>
    <2>1. b + 1 \in Nat /\ a <= b + 1  OBVIOUS
    <2>2. QED  BY ZenonT(30), <2>1, SpanIs
  <1>3. Span(n, a, a) \in Seq(Resp) /\ Len(Span(n, a, a)) = a - a  BY SpanIs
  <1> HIDE DEF s, t
  <1>4. Append(s, <<n, b + 1>>) = t
    <2>1. Append(s, <<n, b + 1>>) \in Seq(Resp) /\ Len(Append(s, <<n, b + 1>>)) = Len(s) + 1
      BY <1>1, <1>2
    <2>2. Len(t) = Len(s) + 1  BY <1>2
    <2>3. ASSUME NEW i \in 1 .. Len(s) + 1 PROVE Append(s, <<n, b + 1>>)[i] = t[i]
      <3>1. CASE i \in 1 .. Len(s)
        <4>1. Append(s, <<n, b + 1>>)[i] = s[i]  BY <1>1, <1>2, <3>1
        <4>2. i \in 1 .. b - a /\ i \in 1 .. (b + 1) - a  BY <1>2, <3>1
        <4>3. QED  BY <1>2, <4>1, <4>2
      <3>2. CASE i = Len(s) + 1
        <4>1. Append(s, <<n, b + 1>>)[i] = <<n, b + 1>>  BY <1>1, <1>2, <3>2
        <4>2. i \in 1 .. (b + 1) - a /\ a + i = b + 1  BY <1>2, <3>2
        <4>3. QED  BY <1>2, <4>1, <4>2
      <3>3. QED  BY <1>2, <3>1, <3>2
    <2>4. QED  BY <1>2, <2>1, <2>2, <2>3
  <1>5. Span(n, a, a) = <<>>
    <2>1. a - a = 0  OBVIOUS
    <2>2. QED  BY <1>3, <2>1
  <1>6. << <<n, a + 1>> >> = Span(n, a, a + 1)
    <2>1. \A i \in 1 .. 1 : i = 1  OBVIOUS
    <2>2. (a + 1) - a = 1  OBVIOUS
    <2>3. Span(n, a, a + 1) = [i \in 1 .. 1 |-> <<n, a + i>>]  BY <2>2 DEF Span
    <2>4. QED  BY <2>1, <2>3
  <1>7. QED  BY <1>4, <1>5, <1>6 DEF s, t

LEMMA SpanEqual ==
  ASSUME NEW n \in Nat, NEW a \in Nat, NEW b \in Nat, a <= b,
         NEW s \in Seq(Resp), Len(s) = b - a, \A i \in 1 .. b - a : s[i] = <<n, a + i>>
  PROVE  s = Span(n, a, b)
  <1> DEFINE t == Span(n, a, b)
  <1>1. t \in Seq(Resp) /\ Len(t) = b - a /\ \A i \in 1 .. b - a : t[i] = <<n, a + i>>
    BY SpanIs
  <1> HIDE DEF t
  <1>2. Len(s) = Len(t) /\ \A i \in 1 .. Len(s) : s[i] = t[i]  BY <1>1
  <1>3. s = t  BY <1>1, <1>2
  <1>4. QED  BY <1>3 DEF t

(* Reading the first packet of an answer leaves the rest of it.            *)
First(s, k) == SubSeq(s, 1, k)
Rest(s, k) == SubSeq(s, k + 1, Len(s))

LEMMA SpanCut ==
  ASSUME NEW n \in Nat, NEW a \in Nat, NEW m \in Nat, NEW b \in Nat, a <= m, m <= b
  PROVE  /\ First(Span(n, a, b), m - a) = Span(n, a, m)
         /\ Rest(Span(n, a, b), m - a) = Span(n, m, b)
  <1> DEFINE s == Span(n, a, b)
  <1>0. a <= b  OBVIOUS
  <1>1. s \in Seq(Resp) /\ Len(s) = b - a /\ \A i \in 1 .. b - a : s[i] = <<n, a + i>>
    BY <1>0, SpanIs
  <1> HIDE DEF s
  <1>2. SubSeq(s, 1, m - a) = Span(n, a, m)
    <2> DEFINE t == SubSeq(s, 1, m - a)
    <2>1. \A i \in 1 .. m - a : s[i] \in Resp  BY <1>1
    <2>2. /\ t \in Seq(Resp) /\ Len(t) = IF 1 <= m - a THEN (m - a) - 1 + 1 ELSE 0
          /\ \A i \in 1 .. (m - a) - 1 + 1 : t[i] = s[1 + i - 1]
      <3>1. 1 \in Int /\ m - a \in Int  OBVIOUS
      <3>2. QED  BY <2>1, <3>1, SubSeqProperties
    <2> HIDE DEF t
    <2>3. Len(t) = m - a  BY <2>2
    <2>4. ASSUME NEW i \in 1 .. m - a PROVE t[i] = <<n, a + i>>
      <3>1. i \in 1 .. (m - a) - 1 + 1 /\ 1 + i - 1 = i /\ i \in 1 .. b - a  OBVIOUS
      <3>2. t[i] = s[1 + i - 1]  BY <2>2, <3>1
      <3>3. QED  BY <1>1, <3>1, <3>2
    <2>5. t = Span(n, a, m)  BY <2>2, <2>3, <2>4, SpanEqual
    <2>6. QED  BY <2>5 DEF t
  <1>3. SubSeq(s, m - a + 1, b - a) = Span(n, m, b)
    <2> DEFINE p == m - a + 1
               q == b - a
               t == SubSeq(s, p, q)
    <2>1. \A i \in p .. q : s[i] \in Resp  BY <1>1
    <2>2. /\ t \in Seq(Resp) /\ Len(t) = IF p <= q THEN q - p + 1 ELSE 0
          /\ \A i \in 1 .. q - p + 1 : t[i] = s[p + i - 1]
      <3>1. p \in Int /\ q \in Int  OBVIOUS
      <3> HIDE DEF p, q
      <3>2. QED  BY <2>1, <3>1, SubSeqProperties
    <2> HIDE DEF t
    <2>3. Len(t) = b - m  BY <2>2
    <2>4. ASSUME NEW i \in 1 .. b - m PROVE t[i] = <<n, m + i>>
      <3>1. i \in 1 .. q - p + 1 /\ p + i - 1 \in 1 .. b - a /\ a + (p + i - 1) = m + i  OBVIOUS
      <3>2. t[i] = s[p + i - 1]  BY <2>2, <3>1
      <3>3. s[p + i - 1] = <<n, a + (p + i - 1)>>  BY <1>1, <3>1
      <3>4. QED  BY <3>1, <3>2, <3>3
    <2>5. t = Span(n, m, b)  BY <2>2, <2>3, <2>4, SpanEqual
    <2>6. QED  BY <2>5 DEF t
  <1>4. Rest(s, m - a) = SubSeq(s, m - a + 1, b - a)  BY <1>1 DEF Rest
  <1>5. QED  BY <1>2, <1>3, <1>4 DEF s, First

LEMMA BoxedFacts ==
  ASSUME NEW n \in Nat, NEW a \in Nat, NEW b \in Nat, a <= b
  PROVE  /\ a = b => Boxed(n, a, b) = None
         /\ a < b => /\ Boxed(n, a, b) = Some(Span(n, a, b)) /\ Boxed(n, a, b) # None
                     /\ Boxed(n, a, b)[1] = Span(n, a, b)
  <1>1. CASE a = b  BY <1>1 DEF Boxed
  <1>2. CASE a < b
    <2>1. Boxed(n, a, b) = Some(Span(n, a, b))  BY <1>2 DEF Boxed
    <2>2. QED  BY <1>2, <2>1, HeldFacts
  <1>3. QED  BY <1>1, <1>2

LEMMA OwedIs == waiting \in Nat /\ have \in Nat =>
  /\ waiting = 0 => Owed = <<>>
  /\ waiting > 0 /\ have <= waiting => Owed = Span(sent, have, waiting)
  <1> SUFFICES ASSUME waiting \in Nat, have \in Nat
               PROVE  /\ waiting = 0 => Owed = <<>>
                      /\ waiting > 0 /\ have <= waiting => Owed = Span(sent, have, waiting)
    OBVIOUS
  <1>1. ASSUME waiting = 0 PROVE Owed = <<>>
    <2>1. Owed = [i \in 1 .. 0 |-> <<sent, have + i>>]  BY <1>1 DEF Owed
    <2>2. 1 .. 0 = {}  OBVIOUS
    <2>3. Owed = [i \in {} |-> <<sent, have + i>>]  BY <2>1, <2>2
    <2>4. <<>> = [i \in {} |-> <<sent, have + i>>]  OBVIOUS
    <2>5. QED  BY <2>3, <2>4
  <1>2. ASSUME waiting > 0, have <= waiting PROVE Owed = Span(sent, have, waiting)
    BY <1>2 DEF Owed, Span
  <1>3. QED  BY <1>1, <1>2

LEMMA InitKept == Init => KeptInv
  BY DEF Init, KeptInv, Stage, Quiet

(* The packet in the endpoint is the next part of the answer.              *)
LEMMA ReadPacket ==
  ASSUME KeptInv, HostRead, NEW a \in Nat, have <= a, a <= waiting, inEp = Boxed(sent, have, a)
  PROVE  /\ have' = a /\ waiting' = (IF a = waiting THEN 0 ELSE waiting)
         /\ Session!Answer
  <1>0. /\ sent \in Nat /\ have \in Nat /\ waiting \in Nat /\ waiting > 0
        /\ inEp # None /\ sent' = sent
    BY DEF KeptInv, HostRead
  <1>1. have < a /\ inEp[1] = Span(sent, have, a)
    <2>1. have # a  BY <1>0, BoxedFacts
    <2>2. have < a  BY <1>0, <2>1
    <2>3. QED  BY <1>0, <2>2, BoxedFacts
  <1>2. Len(inEp[1]) = a - have
    <2>1. have <= a  BY <1>1
    <2>2. QED  BY <1>0, <1>1, <2>1, SpanIs
  <1>3. have' = a
    <2>1. have' = have + Len(inEp[1])  BY DEF HostRead
    <2>2. QED  BY <1>0, <1>2, <2>1
  <1>4. waiting' = (IF a = waiting THEN 0 ELSE waiting)
    <2>1. waiting' = IF a >= waiting THEN 0 ELSE waiting  BY <1>3 DEF HostRead
    <2>2. QED  BY <1>0, <2>1
  <1>5. Owed = Span(sent, have, waiting)
    <2>1. have <= waiting  BY <1>0
    <2>2. QED  BY <1>0, <2>1, OwedIs
  <1>6. Owed' = Span(sent, a, waiting)
    <2>1. CASE a = waiting
      <3>1. Owed' = <<>>
        <4>1. waiting' = 0 /\ waiting' \in Nat /\ have' \in Nat  BY <1>3, <1>4, <2>1
        <4>2. (waiting \in Nat /\ have \in Nat => (waiting = 0 => Owed = <<>>))'
          BY <4>1 DEF Owed
        <4>3. QED  BY <4>1, <4>2
      <3>2. QED  BY <1>0, <2>1, <3>1, SpanGrows
    <2>2. CASE a # waiting
      <3>1. waiting' = waiting /\ waiting > 0  BY <1>0, <1>4, <2>2
      <3>2. QED  BY <1>0, <1>3, <3>1 DEF Owed, Span
    <2>3. QED  BY <2>1, <2>2
  <1> DEFINE whole == Span(sent, have, waiting)
  <1>7. First(whole, a - have) = Span(sent, have, a) /\ Rest(whole, a - have) = Span(sent, a, waiting)
    BY <1>0, SpanCut
  <1> HIDE DEF whole
  <1>8. Owed = whole  BY <1>5 DEF whole
  <1>9. Len(Owed) = waiting - have
    <2>1. have <= waiting  BY <1>0
    <2>2. QED  BY <1>0, <1>5, <2>1, SpanIs
  <1>10. log' = log \o Span(sent, have, a)  BY <1>1 DEF HostRead
  <1>11. Session!Answer
    <2>1. a - have \in 1 .. Len(Owed)  BY <1>0, <1>1, <1>9
    <2>2. log' = log \o First(Owed, a - have)  BY <1>7, <1>8, <1>10
    <2>3. Owed' = Rest(Owed, a - have)  BY <1>6, <1>7, <1>8
    <2>4. QED  BY <1>0, <2>1, <2>2, <2>3 DEF Session!Answer, First, Rest
  <1>12. QED  BY <1>3, <1>4, <1>11
-----------------------------------------------------------------------------
(* What a step keeps: the stages, and the promise of DapSession.           *)
Kept == KeptInv' /\ [kills' > 0 \/ Session!SessionNext]_(Session!sessionVars)

(* The longest request bounds the answers, and every answer takes at most  *)
(* two packets.                                                            *)
Bounded == \E longest \in Requests : \A c \in Requests : Len(c) <= Len(longest)
AllFit == \A c \in Requests : \E total : Fits(c, total)

(* Steps of the probe are hidden from the host.                            *)
LEMMA HiddenStep ==
  ASSUME KeptInv, UNCHANGED <<sent, have, waiting, log, kills>>,
         busReset' => waiting = 0, kills = 0 /\ ~busReset' => Stage'
  PROVE  Kept
  <1>1. Owed' = Owed  BY DEF Owed
  <1>2. QED  BY <1>1 DEF Kept, KeptInv, Session!sessionVars

LEMMA StageIs ==
  ASSUME KeptInv, kills = 0, ~busReset
  PROVE  /\ Stage /\ sent \in Nat /\ have \in Nat /\ waiting \in Nat
         /\ waiting = 0 => Quiet
         /\ task = "running" => waiting > 0
  <1>1. \A c \in Requests : Answers(c) > 0  BY AnswersIs
  <1>2. Stage /\ sent \in Nat /\ have \in Nat /\ waiting \in Nat  BY DEF KeptInv
  <1>3. CASE Quiet  BY <1>2, <1>3 DEF Quiet
  <1>4. ASSUME NEW c \in Requests, Asked(c) PROVE waiting > 0 /\ task # "running"
    BY <1>1, <1>4 DEF Asked
  <1>5. ASSUME NEW c \in Requests, NEW total, NEW a \in Nat, NEW k \in Nat, Working(c, total, a, k)
        PROVE  waiting > 0
    BY <1>1, <1>5 DEF Working
  <1>6. ASSUME NEW a \in Nat, Answered(a) PROVE waiting > 0 /\ task # "running"
    BY <1>2, <1>6 DEF Answered
  <1>7. QED  BY <1>2, <1>3, <1>4, <1>5, <1>6 DEF Stage

LEMMA HostSendKept == Bounded /\ KeptInv /\ HostSend => Kept
  <1> SUFFICES ASSUME Bounded, KeptInv, HostSend PROVE Kept  OBVIOUS
  <1>0. /\ sent \in Nat /\ kills \in Nat /\ waiting = 0 /\ ~busReset /\ sent' = sent + 1
        /\ have' = 0 /\ UNCHANGED <<log, kills, busReset, inEp, pending, nextIn, task>>
    BY DEF KeptInv, HostSend, dap
  <1>1. PICK c \in Requests : outEp' = Some(Packet(sent + 1, c)) /\ waiting' = Answers(c)
    BY DEF HostSend
  <1>2. Answers(c) \in Nat /\ Answers(c) > 0 /\ Answers(c) <= Len(c)  BY AnswersIs
  <1>3. CASE kills > 0
    BY <1>0, <1>1, <1>2, <1>3 DEF Kept, KeptInv
  <1>4. CASE kills = 0
    <2>1. Quiet /\ have \in Nat  BY <1>0, <1>4, StageIs
    <2>2. Asked(c)'  BY <1>0, <1>1, <2>1 DEF Quiet, Asked
    <2>3. KeptInv'  BY <1>0, <1>1, <1>2, <2>2 DEF KeptInv, Stage
    <2>4. Session!Ask
      <3>1. Owed = <<>>  BY <1>0, <2>1, OwedIs
      <3>2. Owed' = [i \in 1 .. Answers(c) |-> <<sent', i>>]
        <4>1. Owed' = [i \in 1 .. Answers(c) - 0 |-> <<sent', 0 + i>>]
          BY <1>0, <1>1, <1>2 DEF Owed
        <4>2. Answers(c) - 0 = Answers(c) /\ \A i \in 1 .. Answers(c) : 0 + i = i  BY <1>2
        <4>3. QED  BY <4>1, <4>2
      <3> DEFINE lens == {Len(d) : d \in Requests}
      <3>3. Answers(c) <= Max(lens) /\ Max(lens) \in Nat
        <4>1. \E m \in lens : \A l \in lens : m >= l
          <5>1. PICK longest \in Requests : \A d \in Requests : Len(d) <= Len(longest)
            BY DEF Bounded
          <5>2. QED  BY <5>1
        <4>2. Max(lens) \in lens /\ \A l \in lens : Max(lens) >= l
          BY <4>1 DEF Max
        <4>3. \A d \in Requests : Len(d) \in Nat  BY AnswersIs
        <4>4. Max(lens) \in Nat /\ Len(c) \in Nat /\ Max(lens) >= Len(c)
          <5> HIDE DEF lens
          <5>1. Len(c) \in lens /\ lens \subseteq Nat  BY <4>3 DEF lens
          <5>2. QED  BY <4>2, <5>1
        <4>5. QED  BY <1>2, <4>4
      <3>4. Answers(c) \in 1 .. Max(lens)  BY <1>2, <3>3
      <3>5. QED  BY <1>0, <3>1, <3>2, <3>4 DEF Session!Ask
    <2>5. QED  BY <2>3, <2>4 DEF Kept, Session!SessionNext
  <1>5. QED  BY <1>0, <1>3, <1>4

LEMMA HostReadKept == KeptInv /\ HostRead => Kept
  <1> SUFFICES ASSUME KeptInv, HostRead PROVE Kept  OBVIOUS
  <1>0. /\ sent \in Nat /\ kills \in Nat /\ have \in Nat /\ waiting \in Nat /\ waiting > 0
        /\ inEp # None /\ inEp' = None /\ ~busReset
        /\ UNCHANGED <<sent, kills, outEp, busReset, pending, nextIn, done, acc, length, task>>
    BY DEF KeptInv, HostRead, dap
  <1>1. CASE kills > 0
    <2>1. have' \in Nat /\ waiting' \in Nat
      <3>1. have' = have + Len(inEp[1])  BY DEF HostRead
      <3>2. QED  BY <1>0, <3>1 DEF HostRead
    <2>2. QED  BY <1>0, <1>1, <2>1 DEF Kept, KeptInv
  <1>2. CASE kills = 0
    <2>1. Stage  BY <1>0, <1>2, StageIs
    <2>2. ASSUME NEW c \in Requests, NEW total, Fits(c, total), NEW a \in Nat, NEW k \in Nat,
                 Working(c, total, a, k)
          PROVE  Kept
      <3>1. /\ have <= a /\ a <= waiting /\ inEp = Boxed(sent, have, a) /\ waiting = Answers(c)
            /\ (k > 0 => a < k) /\ k <= waiting /\ a <= k
        BY <1>0, <2>2 DEF Working
      <3>2. have' = a /\ waiting' = (IF a = waiting THEN 0 ELSE waiting) /\ Session!Answer
        BY <3>1, ReadPacket
      <3>3. waiting' = waiting  BY <1>0, <3>1, <3>2
      <3>4. inEp' = Boxed(sent, a, a)  BY <1>0, BoxedFacts
      <3>5. Working(c, total, a, k)'
        BY <1>0, <2>2, <3>1, <3>2, <3>3, <3>4 DEF Working
      <3>6. Stage'  BY <2>2, <3>5 DEF Stage
      <3>7. QED  BY <1>0, <3>2, <3>3, <3>6 DEF Kept, KeptInv, Session!SessionNext
    <2>3. ASSUME NEW a \in Nat, Answered(a) PROVE Kept
      <3>1. /\ have <= a /\ a <= waiting /\ inEp = Boxed(sent, have, a)
            /\ nextIn = Boxed(sent, a, waiting) /\ task # "running" /\ outEp = None /\ pending = None
        BY <2>3 DEF Answered
      <3>2. have' = a /\ waiting' = (IF a = waiting THEN 0 ELSE waiting) /\ Session!Answer
        BY <3>1, ReadPacket
      <3>3. waiting' \in Nat  BY <1>0, <3>2
      <3>4. Stage'
        <4>1. CASE a = waiting
          <5>1. nextIn = None  BY <1>0, <3>1, <4>1, BoxedFacts
          <5>2. Quiet'  BY <1>0, <3>1, <3>2, <4>1, <5>1 DEF Quiet
          <5>3. QED  BY <5>2 DEF Stage
        <4>2. CASE a # waiting
          <5>1. inEp' = Boxed(sent, a, a)  BY <1>0, BoxedFacts
          <5>2. Answered(a)'  BY <1>0, <3>1, <3>2, <4>2, <5>1 DEF Answered
          <5>3. QED  BY <5>2 DEF Stage
        <4>3. QED  BY <4>1, <4>2
      <3>5. QED  BY <1>0, <3>2, <3>3, <3>4 DEF Kept, KeptInv, Session!SessionNext
    <2>4. ~Quiet  BY <1>0 DEF Quiet
    <2>5. \A c \in Requests : ~Asked(c)  BY <1>0 DEF Asked
    <2>6. QED  BY <2>1, <2>2, <2>3, <2>4, <2>5 DEF Stage
  <1>3. QED  BY <1>0, <1>1, <1>2

LEMMA HostLeavesKept == KeptInv /\ (HostKill \/ HostReset) => Kept
  <1> SUFFICES ASSUME KeptInv, HostKill \/ HostReset PROVE Kept  OBVIOUS
  <1>1. CASE HostKill
    <2>1. kills \in Nat /\ kills' = kills + 1 /\ waiting' = 0 /\ UNCHANGED <<sent, have>>
      BY <1>1 DEF HostKill, KeptInv
    <2>2. kills' > 0 /\ kills' \in Nat  BY <2>1
    <2>3. QED  BY <2>1, <2>2 DEF Kept, KeptInv
  <1>2. CASE HostReset
    <2>1. busReset' = TRUE /\ waiting' = 0 /\ UNCHANGED <<sent, have, log, kills>>
      BY <1>2 DEF HostReset
    <2>2. Owed' = <<>>
      <3>1. Owed' = [i \in 1 .. 0 |-> <<sent', have' + i>>]  BY <2>1 DEF Owed
      <3>2. 1 .. 0 = {}  OBVIOUS
      <3>3. Owed' = [i \in {} |-> <<sent', have' + i>>]  BY <3>1, <3>2
      <3>4. <<>> = [i \in {} |-> <<sent', have' + i>>]  OBVIOUS
      <3>5. QED  BY <3>3, <3>4
    <2>3. Session!GiveUp  BY <2>1, <2>2 DEF Session!GiveUp
    <2>4. QED  BY <2>1, <2>3 DEF Kept, KeptInv, Session!SessionNext
  <1>3. QED  BY <1>1, <1>2
-----------------------------------------------------------------------------
(* The packet behind the endpoint follows when the endpoint is free.       *)
LEMMA SendAnswered ==
  ASSUME KeptInv, NEW a \in Nat, Answered(a), Send(nextIn), UNCHANGED <<sent, have, waiting>>,
         outEp' = None, pending' = None, task' # "running"
  PROVE  Stage'
  <1>0. /\ sent \in Nat /\ have \in Nat /\ waiting \in Nat /\ have < waiting /\ have <= a /\ a <= waiting
        /\ inEp = Boxed(sent, have, a) /\ nextIn = Boxed(sent, a, waiting)
    BY DEF KeptInv, Answered
  <1>1. CASE nextIn # None /\ inEp = None
    <2>1. a = have
      <3>1. have < a => Boxed(sent, have, a) # None  BY <1>0, BoxedFacts
      <3>2. QED  BY <1>0, <1>1, <3>1
    <2>2. inEp' = Boxed(sent, have, waiting) /\ nextIn' = None
      BY <1>0, <1>1, <2>1 DEF Send
    <2>3. nextIn' = Boxed(sent, waiting, waiting)  BY <1>0, <2>2, BoxedFacts
    <2>4. Answered(waiting)'  BY <1>0, <2>2, <2>3 DEF Answered
    <2>5. QED  BY <1>0, <2>4 DEF Stage
  <1>2. CASE ~(nextIn # None /\ inEp = None)
    <2>1. inEp' = inEp /\ nextIn' = nextIn  BY <1>2 DEF Send
    <2>2. Answered(a)'  BY <1>0, <2>1 DEF Answered
    <2>3. QED  BY <2>2 DEF Stage
  <1>3. QED  BY <1>1, <1>2

LEMMA SendNone == nextIn = None /\ Send(nextIn) => inEp' = inEp /\ nextIn' = None
  BY DEF Send

LEMMA IrqKept == KeptInv /\ UsbctrlIrq => Kept
  <1> SUFFICES ASSUME KeptInv, UsbctrlIrq PROVE Kept  OBVIOUS
  <1>1. CASE IrqReset
    <2>1. /\ waiting = 0 /\ busReset' = FALSE /\ task' # "running"
          /\ UNCHANGED <<sent, have, waiting, log, kills>>
          /\ outEp' = None /\ inEp' = None /\ pending' = None /\ nextIn' = None
      BY <1>1 DEF UsbctrlIrq, IrqReset, Reset, KeptInv, hostVars
    <2>2. Stage'  BY <2>1 DEF Stage, Quiet
    <2>3. QED  BY <2>1, <2>2, HiddenStep
  <1>2. CASE IrqPoll
    <2>0. /\ ~busReset /\ ~busReset' /\ task # "running" /\ task' # "running" /\ Receive
          /\ UNCHANGED <<sent, have, waiting, log, kills>>
      BY <1>2 DEF UsbctrlIrq, IrqPoll, hostVars
    <2>1. Send(nextIn) \/ (inEp' = inEp /\ nextIn' = nextIn)  BY <1>2 DEF IrqPoll
    <2>2. ASSUME kills = 0 PROVE Stage'
      <3>1. Stage  BY <2>0, <2>2, StageIs
      <3>2. CASE Quiet
        <4>1. inEp' = None /\ nextIn' = None  BY <2>1, <3>2, SendNone DEF Quiet
        <4>2. pending' = None /\ outEp' = None  BY <2>0, <3>2 DEF Quiet, Receive, Received
        <4>3. QED  BY <2>0, <3>2, <4>1, <4>2 DEF Quiet, Stage
      <3>3. ASSUME NEW c \in Requests, Asked(c) PROVE Stage'
        <4>1. inEp' = None /\ nextIn' = None  BY <2>1, <3>3, SendNone DEF Asked
        <4>2. pending' = Some(Packet(sent, c)) /\ outEp' = None
          BY <2>0, <3>3, HeldFacts DEF Asked, Receive, Received
        <4>3. Asked(c)'  BY <2>0, <3>3, <4>1, <4>2 DEF Asked
        <4>4. QED  BY <4>3 DEF Stage
      <3>4. ASSUME NEW a \in Nat, Answered(a) PROVE Stage'
        <4>1. pending' = None /\ outEp' = None  BY <2>0, <3>4 DEF Answered, Receive, Received
        <4>2. CASE Send(nextIn)  BY <2>0, <3>4, <4>1, <4>2, SendAnswered
        <4>3. CASE inEp' = inEp /\ nextIn' = nextIn
          <5>1. Answered(a)'  BY <2>0, <3>4, <4>1, <4>3 DEF Answered
          <5>2. QED  BY <5>1 DEF Stage
        <4>4. QED  BY <2>1, <4>2, <4>3
      <3>5. QED  BY <2>0, <3>1, <3>2, <3>3, <3>4 DEF Stage, Working
    <2>3. QED  BY <2>0, <2>2, HiddenStep
  <1>3. QED  BY <1>1, <1>2 DEF UsbctrlIrq

(* A step of dap_process matters while nobody was killed and the bus is up. *)
LEMMA ProcessHidden ==
  ASSUME KeptInv, UNCHANGED <<hostVars, busReset>>, kills = 0 /\ ~busReset => Stage'
  PROVE  Kept
  BY HiddenStep DEF hostVars, KeptInv

LEMMA ProcessStartKept == AllFit /\ KeptInv /\ ProcessStart => Kept
  <1> SUFFICES ASSUME AllFit, KeptInv, ProcessStart PROVE Kept  OBVIOUS
  <1>0. /\ UNCHANGED <<hostVars, busReset>> /\ UNCHANGED <<sent, have, waiting>>
        /\ Receive /\ task = "spawned" /\ done' = 0 /\ acc' = <<>> /\ length' = 0
        /\ IF Received = None \/ DropUnread # None
           THEN Send(DropUnread) /\ task' = "finishing"
           ELSE nextIn' = DropUnread /\ inEp' = inEp /\ task' = "running"
    BY DEF ProcessStart, hostVars
  <1>1. ASSUME kills = 0, ~busReset PROVE Stage'
    <2>1. Stage  BY <1>1, StageIs
    <2>2. CASE Quiet
      <3>1. Received = None /\ pending' = None /\ outEp' = None /\ DropUnread = nextIn
        BY <1>0, <2>2 DEF Quiet, Receive, Received, DropUnread
      <3>2. inEp' = None /\ nextIn' = None /\ task' = "finishing"
        BY <1>0, <2>2, <3>1, SendNone DEF Quiet
      <3>3. QED  BY <1>0, <2>2, <3>1, <3>2 DEF Quiet, Stage
    <2>3. ASSUME NEW c \in Requests, Asked(c) PROVE Stage'
      <3>1. /\ Received = Some(Packet(sent, c)) /\ pending' = Received /\ outEp' = None
            /\ Received # None
        BY <1>0, <2>3, HeldFacts DEF Asked, Receive, Received
      <3>2. nextIn' = None /\ inEp' = None /\ task' = "running"
        BY <1>0, <2>3, <3>1 DEF DropUnread, Asked
      <3>3. PICK total : Fits(c, total)  BY DEF AllFit
      <3>4. sent \in Nat /\ have = 0 /\ waiting = Answers(c) /\ Answers(c) \in Nat /\ Answers(c) > 0
        BY <2>3, AnswersIs DEF Asked, KeptInv
      <3>5. acc' = Span(sent, 0, 0) /\ inEp' = Boxed(sent, 0, 0) /\ length' = total[0] - total[0]
        <4>1. Span(sent, 0, 0) = <<>> /\ Boxed(sent, 0, 0) = None
          <5>1. 0 \in Nat /\ 0 <= 0  OBVIOUS
          <5>2. Span(sent, 0, 0) = <<>>  BY <3>4, <5>1, SpanGrows
          <5>3. Boxed(sent, 0, 0) = None  BY DEF Boxed
          <5>4. QED  BY <5>2, <5>3
        <4>2. total[0] = 0  BY <3>3 DEF Fits
        <4>3. QED  BY <1>0, <3>2, <4>1, <4>2
      <3>6. Working(c, total, 0, 0)'
        <4>1. sent' = sent /\ have' = 0 /\ waiting' = Answers(c)  BY <1>0, <3>4
        <4>2. pending' = Some(Packet(sent', c)) /\ outEp' = None  BY <3>1, <4>1
        <4>3. inEp' = Boxed(sent', have', 0) /\ acc' = Span(sent', 0, 0)  BY <3>5, <4>1
        <4>4. /\ 0 <= waiting' /\ have' <= 0 /\ 0 <= 0 /\ (0 > 0 => 0 < 0)
              /\ (0 > 0 => MaxPacket <= total[0 + 1])
          BY <3>4, <4>1
        <4>5. done' = IF 0 = waiting' THEN Len(c) ELSE 0  BY <1>0, <3>4
        <4>6. QED  BY <3>2, <3>5, <4>1, <4>2, <4>3, <4>4, <4>5, Zenon DEF Working
      <3>7. QED  BY <3>3, <3>6 DEF Stage
    <2>4. ASSUME NEW a \in Nat, Answered(a) PROVE Stage'
      <3>1. Received = None /\ pending' = None /\ outEp' = None /\ DropUnread = nextIn
        BY <1>0, <2>4 DEF Answered, Receive, Received, DropUnread
      <3>2. Send(nextIn) /\ task' # "running"  BY <1>0, <3>1
      <3>3. QED  BY <1>0, <2>4, <3>1, <3>2, SendAnswered
    <2>5. QED  BY <1>0, <2>1, <2>2, <2>3, <2>4 DEF Stage, Working
  <1>2. QED  BY <1>0, <1>1, ProcessHidden

LEMMA TaskEndKept == KeptInv /\ TaskEnd => Kept
  <1> SUFFICES ASSUME KeptInv, TaskEnd PROVE Kept  OBVIOUS
  <1>0. /\ UNCHANGED <<hostVars, busReset>> /\ task = "finishing" /\ task' = "free"
        /\ UNCHANGED <<sent, have, waiting, outEp, inEp, pending, nextIn>>
    BY DEF TaskEnd, hostVars, endpoints, dap
  <1>1. ASSUME kills = 0, ~busReset PROVE Stage'
    <2>1. Stage  BY <1>1, StageIs
    <2>2. Quiet => Quiet'  BY <1>0 DEF Quiet
    <2>3. \A c \in Requests : Asked(c) => Asked(c)'  BY <1>0 DEF Asked
    <2>4. \A a \in Nat : Answered(a) => Answered(a)'  BY <1>0 DEF Answered
    <2>5. QED  BY <1>0, <2>1, <2>2, <2>3, <2>4 DEF Stage, Working
  <1>2. QED  BY <1>0, <1>1, ProcessHidden

(* The command after the first k: its response is counted in the running   *)
(* sum, it does not fit only where the first packet ends, and it ends the  *)
(* packet exactly when it is the last that is answered.                    *)
LEMMA CommandFits ==
  ASSUME NEW c \in Requests, NEW total, Fits(c, total),
         NEW a \in Nat, NEW k \in Nat, a <= k, k < Answers(c), a > 0 => MaxPacket <= total[a + 1],
         length = total[k] - total[a]
  PROVE  LET size == c[k + 1].size IN
         /\ size \in Nat /\ length + size = total[k + 1] - total[a] /\ size = total[k + 1] - total[k]
         /\ Full(size) => a = 0 /\ k > 0 /\ MaxPacket <= total[k + 1]
         /\ c[k + 1].stops => k + 1 = Answers(c)
         /\ ~c[k + 1].stops /\ k + 1 = Answers(c) => k + 1 = Len(c)
  <1> DEFINE n == Answers(c)
             size == c[k + 1].size
  <1>1. n \in Nat /\ n <= Len(c) /\ Len(c) \in Nat /\ a \in 0 .. n /\ k \in 0 .. n
    BY AnswersIs
  <1>2. total[a] \in Nat /\ total[k] \in Nat /\ total[0] = 0 /\ MaxPacket \in Nat
    BY <1>1, SizesAssumption DEF Fits
  <1>3. k + 1 \in 1 .. n /\ k + 1 \in 1 .. Len(c) /\ (k + 1) - 1 = k  BY <1>1
  <1>4. size \in Nat  BY <1>3, AnswersIs
  <1>5. size < MaxPacket /\ total[k + 1] = total[k] + size
    BY <1>3 DEF Fits
  <1> HIDE DEF size
  <1>6. /\ length + size = total[k + 1] - total[a] /\ size = total[k + 1] - total[k]
    BY <1>2, <1>4, <1>5
  <1>7. ASSUME Full(size) PROVE a = 0 /\ k > 0 /\ MaxPacket <= total[k + 1]
    <2>1. MaxPacket <= total[k + 1] - total[a]  BY <1>6, <1>7 DEF Full
    <2>2. a = 0
      <3>1. SUFFICES ASSUME a > 0 PROVE FALSE  OBVIOUS
      <3>2. MaxPacket <= total[a + 1]  BY <3>1
      <3>3. a + 1 \in 1 .. n /\ a + 1 <= k + 1 /\ (a + 1) - 1 = a  BY <1>1, <1>3
      <3>4. total[k + 1] - total[(a + 1) - 1] < MaxPacket
        BY <1>3, <3>2, <3>3 DEF Fits
      <3>5. total[k + 1] - total[a] < MaxPacket  BY <3>3, <3>4
      <3>6. QED  BY <1>2, <1>4, <1>5, <2>1, <3>5
    <2>3. MaxPacket <= total[k + 1]  BY <1>2, <1>4, <1>5, <2>1, <2>2
    <2>4. k > 0
      <3>1. SUFFICES ASSUME k = 0 PROVE FALSE  OBVIOUS
      <3>2. QED  BY <1>2, <1>4, <1>5, <2>3, <3>1
    <2>5. QED  BY <2>2, <2>3, <2>4
  <1>8. c[k + 1].stops => k + 1 = n
    <2>1. k + 1 < n => ~c[k + 1].stops  BY <1>3, AnswersIs
    <2>2. QED  BY <1>1, <1>3, <2>1
  <1>9. ~c[k + 1].stops /\ k + 1 = n => k + 1 = Len(c)
    BY AnswersIs
  <1>10. QED  BY <1>4, <1>6, <1>7, <1>8, <1>9 DEF size

LEMMA ProcessCommandKept == KeptInv /\ ProcessCommand => Kept
  <1> SUFFICES ASSUME KeptInv, ProcessCommand PROVE Kept  OBVIOUS
  <1>0. /\ UNCHANGED <<hostVars, busReset>> /\ UNCHANGED <<sent, have, waiting, outEp, pending, task>>
        /\ task = "running" /\ done < Len(pending[1].cmds)
    BY DEF ProcessCommand, hostVars
  <1>1. ASSUME kills = 0, ~busReset PROVE Stage'
    <2>1. Stage /\ sent \in Nat /\ have \in Nat /\ waiting \in Nat  BY <1>1, StageIs
    <2>2. ASSUME NEW c \in Requests, NEW total, Fits(c, total), NEW a \in Nat, NEW k \in Nat,
                 Working(c, total, a, k)
          PROVE  Stage'
      <3>0. /\ waiting = Answers(c) /\ pending = Some(Packet(sent, c)) /\ outEp = None
            /\ k <= waiting /\ have <= a /\ a <= k /\ (k > 0 => a < k)
            /\ done = (IF k = waiting THEN Len(c) ELSE k)
            /\ acc = Span(sent, a, k) /\ length = total[k] - total[a]
            /\ (a > 0 => MaxPacket <= total[a + 1])
            /\ inEp = Boxed(sent, have, a) /\ nextIn = None
        BY <2>2 DEF Working
      <3>1. pending[1].cmds = c /\ pending[1].id = sent
        BY <3>0, HeldFacts DEF Packet
      <3>2. Len(c) \in Nat /\ Answers(c) <= Len(c)  BY AnswersIs
      <3>3. k < waiting /\ done = k
        <4>1. done # Len(c)  BY <1>0, <3>1, <3>2
        <4>2. k # waiting  BY <3>0, <4>1
        <4>3. QED  BY <2>1, <3>0, <4>2
      <3> DEFINE size == c[k + 1].size
                 r == <<sent, k + 1>>
      <3>4. /\ size \in Nat /\ length + size = total[k + 1] - total[a]
            /\ size = total[k + 1] - total[k]
            /\ (Full(size) => a = 0 /\ k > 0 /\ MaxPacket <= total[k + 1])
            /\ (c[k + 1].stops => k + 1 = waiting)
            /\ (~c[k + 1].stops /\ k + 1 = waiting => k + 1 = Len(c))
        BY <2>2, <3>0, <3>3, CommandFits
      <3>5. /\ IF Full(size)
               THEN Send(Some(acc)) /\ acc' = <<r>> /\ length' = size
               ELSE acc' = Append(acc, r) /\ length' = length + size /\ UNCHANGED <<inEp, nextIn>>
            /\ done' = IF c[k + 1].stops THEN Len(c) ELSE k + 1
        BY <3>1, <3>3 DEF ProcessCommand
      <3>6. done' = IF k + 1 = waiting THEN Len(c) ELSE k + 1  BY <3>4, <3>5
      <3> HIDE DEF size
      <3>7. CASE Full(size)
        <4>1. a = 0 /\ have = 0 /\ k > 0 /\ MaxPacket <= total[k + 1]  BY <2>1, <3>0, <3>4, <3>7
        <4>2. inEp = None  BY <3>0, <4>1 DEF Boxed
        <4>3. inEp' = Some(acc) /\ nextIn' = None
          BY <3>5, <3>7, <4>2, HeldFacts DEF Send
        <4>4. inEp' = Boxed(sent, have, k)
          BY <2>1, <3>0, <4>1, <4>3, BoxedFacts
        <4>5. acc' = Span(sent, k, k + 1)
          <5>1. k <= k  OBVIOUS
          <5>2. <<r>> = Span(sent, k, k + 1)  BY <2>1, <5>1, SpanGrows
          <5>3. QED  BY <3>5, <3>7, <5>2
        <4>6. length' = total[k + 1] - total[k]  BY <3>4, <3>5, <3>7
        <4>7. k + 1 <= waiting /\ have <= k /\ k <= k + 1 /\ k < k + 1 /\ k + 1 \in Nat
          BY <2>1, <3>3, <4>1
        <4>8. Working(c, total, k, k + 1)'
          BY <1>0, <3>0, <3>6, <4>1, <4>3, <4>4, <4>5, <4>6, <4>7 DEF Working
        <4>9. QED  BY <2>2, <4>7, <4>8 DEF Stage
      <3>8. CASE ~Full(size)
        <4>1. inEp' = Boxed(sent, have, a) /\ nextIn' = None  BY <3>0, <3>5, <3>8
        <4>2. acc' = Span(sent, a, k + 1)
          <5>1. acc' = Append(acc, r) /\ acc = Span(sent, a, k)  BY <3>0, <3>5, <3>8
          <5>2. sent \in Nat /\ a \in Nat /\ k \in Nat /\ a <= k  BY <2>1, <3>0
          <5>3. Append(Span(sent, a, k), r) = Span(sent, a, k + 1)  BY ONLY <5>2, SpanGrows
          <5>4. QED  BY ONLY <5>1, <5>3
        <4>3. length' = total[k + 1] - total[a]  BY <3>4, <3>5, <3>8
        <4>4. k + 1 <= waiting /\ have <= a /\ a <= k + 1 /\ a < k + 1 /\ k + 1 \in Nat
          BY <2>1, <3>0, <3>3
        <4>5. Working(c, total, a, k + 1)'
          BY <1>0, <3>0, <3>6, <4>1, <4>2, <4>3, <4>4 DEF Working
        <4>6. QED  BY <2>2, <4>4, <4>5 DEF Stage
      <3>9. QED  BY <3>7, <3>8
    <2>3. QED  BY <1>0, <2>1, <2>2 DEF Stage, Quiet, Asked, Answered
  <1>2. QED  BY <1>0, <1>1, ProcessHidden

LEMMA ProcessEndKept == KeptInv /\ ProcessEnd => Kept
  <1> SUFFICES ASSUME KeptInv, ProcessEnd PROVE Kept  OBVIOUS
  <1>0. /\ UNCHANGED <<hostVars, busReset>> /\ UNCHANGED <<sent, have, waiting, outEp>>
        /\ task = "running" /\ done = Len(pending[1].cmds) /\ pending' = None
        /\ Send(Some(acc)) /\ task' = "finishing"
    BY DEF ProcessEnd, hostVars
  <1>1. ASSUME kills = 0, ~busReset PROVE Stage'
    <2>1. Stage /\ sent \in Nat /\ have \in Nat /\ waiting \in Nat  BY <1>1, StageIs
    <2>2. ASSUME NEW c \in Requests, NEW total, Fits(c, total), NEW a \in Nat, NEW k \in Nat,
                 Working(c, total, a, k)
          PROVE  Stage'
      <3>0. /\ waiting = Answers(c) /\ pending = Some(Packet(sent, c)) /\ outEp = None
            /\ k <= waiting /\ have <= a /\ a <= k /\ (k > 0 => a < k)
            /\ done = (IF k = waiting THEN Len(c) ELSE k)
            /\ acc = Span(sent, a, k)
            /\ inEp = Boxed(sent, have, a) /\ nextIn = None
        BY <2>2 DEF Working
      <3>1. pending[1].cmds = c  BY <3>0, HeldFacts DEF Packet
      <3>2. Len(c) \in Nat /\ Answers(c) <= Len(c) /\ Answers(c) > 0  BY AnswersIs
      <3>3. k = waiting /\ a < waiting
        <4>1. done = Len(c)  BY <1>0, <3>1
        <4>2. k = waiting  BY <2>1, <3>0, <3>2, <4>1
        <4>3. QED  BY <2>1, <3>0, <3>2, <4>2
      <3>4. Some(acc) = Boxed(sent, a, waiting)  BY <2>1, <3>0, <3>3, BoxedFacts
      <3>5. have < waiting /\ a <= waiting /\ have <= waiting  BY <2>1, <3>0, <3>3
      <3>6. CASE inEp = None
        <4>1. a = have
          <5>1. have < a => Boxed(sent, have, a) # None  BY <2>1, <3>0, BoxedFacts
          <5>2. QED  BY <2>1, <3>0, <3>6, <5>1
        <4>2. inEp' = Some(acc) /\ nextIn' = None
          BY <1>0, <3>6, HeldFacts DEF Send
        <4>3. inEp' = Boxed(sent, have, waiting)  BY <3>4, <4>1, <4>2
        <4>4. nextIn' = Boxed(sent, waiting, waiting)  BY <4>2 DEF Boxed
        <4>5. Answered(waiting)'
          BY <1>0, <2>1, <3>0, <3>5, <4>3, <4>4 DEF Answered
        <4>6. QED  BY <1>0, <2>1, <4>5 DEF Stage
      <3>7. CASE inEp # None
        <4>1. inEp' = Boxed(sent, have, a) /\ nextIn' = Boxed(sent, a, waiting)
          BY <1>0, <3>0, <3>4, <3>7 DEF Send
        <4>2. Answered(a)'  BY <1>0, <3>0, <3>5, <4>1 DEF Answered
        <4>3. QED  BY <4>2 DEF Stage
      <3>8. QED  BY <3>6, <3>7
    <2>3. QED  BY <1>0, <2>1, <2>2 DEF Stage, Quiet, Asked, Answered
  <1>2. QED  BY <1>0, <1>1, ProcessHidden

LEMMA StepKept == Bounded /\ AllFit /\ KeptInv /\ [Next]_vars => Kept
  <1> SUFFICES ASSUME Bounded, AllFit, KeptInv, [Next]_vars PROVE Kept  OBVIOUS
  <1>1. CASE UNCHANGED vars
    <2>1. UNCHANGED <<sent, waiting, have, log, kills, outEp, inEp, busReset, pending, nextIn, task,
                      done, acc, length>>
      BY <1>1 DEF vars, hostVars, endpoints, dap
    <2>2. Stage' = Stage  BY <2>1 DEF Stage, Quiet, Asked, Working, Answered
    <2>3. QED  BY <2>1, <2>2, HiddenStep DEF KeptInv
  <1>2. CASE Host  BY <1>2, HostSendKept, HostReadKept, HostLeavesKept DEF Host
  <1>3. CASE DapProcess
    BY <1>3, ProcessStartKept, ProcessCommandKept, ProcessEndKept, TaskEndKept DEF DapProcess
  <1>4. CASE UsbctrlIrq  BY <1>4, IrqKept
  <1>5. QED  BY <1>1, <1>2, <1>3, <1>4 DEF Next

LEMMA TwoPacketsFit == (\A c \in Requests : FitsTwoPackets(c)) => AllFit
  <1> SUFFICES ASSUME \A c \in Requests : FitsTwoPackets(c) PROVE AllFit  OBVIOUS
  <1>1. ASSUME NEW c \in Requests PROVE \E total : Fits(c, total)
    <2>1. Answers(c) \in Nat /\ MaxPacket \in Nat  BY AnswersIs, SizesAssumption
    <2>2. 0 .. Answers(c) * MaxPacket \subseteq Nat  BY <2>1
    <2>3. PICK total \in [0 .. Answers(c) -> 0 .. Answers(c) * MaxPacket] :
            /\ total[0] = 0
            /\ \A i \in 1 .. Answers(c) :
                 c[i].size < MaxPacket /\ total[i] = total[i - 1] + c[i].size
            /\ \A i, j \in 1 .. Answers(c) :
                 i <= j /\ MaxPacket <= total[i] => total[j] - total[i - 1] < MaxPacket
      BY DEF FitsTwoPackets
    <2>4. total \in [0 .. Answers(c) -> Nat]  BY <2>2
    <2>5. QED  BY <2>3, <2>4 DEF Fits
  <1>2. QED  BY <1>1 DEF AllFit

(* The probe implements DapSession towards a host that reads every answer  *)
(* before it asks again, until a requester is killed: whatever the order   *)
(* of the interrupt, the task and the host, and however often the bus is   *)
(* reset, each packet read is the next part of what the last request is    *)
(* owed. It is assumed that some request is the longest and that the       *)
(* responses to each request take at most two packets: a third would find  *)
(* the endpoint busy, and process() drops a flush that would block.        *)
THEOREM ProbeKeepsSession ==
  ASSUME \E longest \in Requests : \A c \in Requests : Len(c) <= Len(longest),
         \A c \in Requests : FitsTwoPackets(c)
  PROVE  Spec => SessionKept
  <1>1. Bounded  BY DEF Bounded
  <1>2. AllFit  BY TwoPacketsFit
  <1>3. Init => Session!SessionInit
    <2>1. SUFFICES ASSUME Init PROVE Session!SessionInit  OBVIOUS
    <2>2. Owed = <<>>  BY <2>1, OwedIs DEF Init
    <2>3. QED  BY <2>1, <2>2 DEF Init, Session!SessionInit
  <1>4. KeptInv /\ [Next]_vars =>
          KeptInv' /\ [kills' > 0 \/ Session!SessionNext]_(Session!sessionVars)
    BY <1>1, <1>2, StepKept DEF Kept
  <1>5. QED  BY <1>3, <1>4, InitKept, PTL DEF Spec, SessionKept
-----------------------------------------------------------------------------
LEMMA InitType == Init => TypeOK
  <1> SUFFICES ASSUME Init PROVE TypeOK  OBVIOUS
  <1>1. MaxSent \in Nat /\ MaxKills \in Nat  BY BoundsAssumption
  <1>2. session \in Seq(1 .. MaxSent + 1)
    <2>1. 1 \in 1 .. MaxSent + 1  BY <1>1
    <2>2. <<1>> \in Seq(1 .. MaxSent + 1)  BY <2>1
    <2>3. QED  BY <2>2 DEF Init
  <1>3. <<>> \in Seq(Response)  OBVIOUS
  <1>4. sent \in 0 .. MaxSent /\ kills \in 0 .. MaxKills  BY <1>1 DEF Init
  <1>5. QED  BY <1>2, <1>3, <1>4 DEF Init, TypeOK, OneAnswer

LEMMA SendType ==
  ASSUME NEW p, OneAnswer(p), OneAnswer(inEp), Send(p)
  PROVE  OneAnswer(inEp') /\ OneAnswer(nextIn')
  BY DEF Send, OneAnswer

LEMMA SomeAnswer ==
  ASSUME NEW s \in Seq(Response)
  PROVE  OneAnswer(Some(s)) /\ OneAnswer(None)
  BY DEF OneAnswer, Some

(* The requests in the probe have been sent. *)
LEMMA RequestIs ==
  ASSUME NEW p \in OneRequest \cup {None}, p # None
  PROVE  p[1].id \in 1 .. sent /\ p[1].cmds \in Requests /\ p = Some(p[1])
  BY DEF OneRequest, Some

LEMMA HostType == TypeOK /\ Host => TypeOK'
  <1> SUFFICES ASSUME TypeOK, Host PROVE TypeOK'  OBVIOUS
  <1>0. MaxSent \in Nat /\ MaxKills \in Nat  BY BoundsAssumption
  <1>1. CASE HostSend
    <2>1. PICK c \in Requests : outEp' = Some(Packet(sent + 1, c)) /\ waiting' = Answers(c)
      BY <1>1 DEF HostSend
    <2>2. sent + 1 \in 0 .. MaxSent /\ sent \in Nat  BY <1>0, <1>1 DEF HostSend, TypeOK
    <2>3. OneRequest \subseteq OneRequest'
      <3>1. 1 .. sent \subseteq 1 .. sent'  BY <1>1, <2>2 DEF HostSend
      <3>2. [id : 1 .. sent, cmds : Requests] \subseteq [id : 1 .. sent', cmds : Requests]
        BY <3>1
      <3>3. QED  BY <3>2 DEF OneRequest
    <2>4. outEp' \in OneRequest'
      <3>1. sent' = sent + 1 /\ sent + 1 \in 1 .. sent + 1  BY <1>1, <2>2 DEF HostSend
      <3>2. Packet(sent + 1, c) \in [id : 1 .. sent', cmds : Requests]  BY <3>1 DEF Packet
      <3>3. QED  BY <2>1, <3>2 DEF OneRequest
    <2>5. waiting' \in Nat  BY <2>1, AnswersIs
    <2>6. QED
      BY <1>1, <2>2, <2>3, <2>4, <2>5 DEF HostSend, TypeOK, OneAnswer, dap
  <1>2. CASE HostRead
    <2>1. inEp # None /\ inEp[1] \in Seq(Response) /\ log \in Seq(Response)
      BY <1>2 DEF HostRead, TypeOK, OneAnswer
    <2>2. log' \in Seq(Response)  BY <1>2, <2>1 DEF HostRead
    <2>3. have' \in Nat
      <3>1. have \in Nat /\ Len(inEp[1]) \in Nat  BY <2>1 DEF TypeOK
      <3>2. QED  BY <1>2, <3>1 DEF HostRead
    <2>4. waiting' \in Nat  BY <1>2 DEF HostRead, TypeOK
    <2>5. QED
      BY <1>2, <2>2, <2>3, <2>4 DEF HostRead, TypeOK, OneAnswer, OneRequest, dap
  <1>3. CASE HostKill
    <2>1. kills' \in 0 .. MaxKills  BY <1>0, <1>3 DEF HostKill, TypeOK
    <2>2. QED
      BY <1>3, <2>1 DEF HostKill, TypeOK, OneAnswer, OneRequest, endpoints, dap
  <1>4. CASE HostReset
    <2>1. session' \in Seq(1 .. MaxSent + 1)
      <3>1. sent + 1 \in 1 .. MaxSent + 1  BY <1>0 DEF TypeOK
      <3>2. session \in Seq(1 .. MaxSent + 1)  BY DEF TypeOK
      <3>3. Append(session, sent + 1) \in Seq(1 .. MaxSent + 1)  BY <3>1, <3>2
      <3>4. QED  BY <1>4, <3>3 DEF HostReset
    <2>2. QED
      BY <1>4, <2>1 DEF HostReset, TypeOK, OneAnswer, OneRequest, dap
  <1>5. QED  BY <1>1, <1>2, <1>3, <1>4 DEF Host

(* A step of the probe does not touch the host.                            *)
LEMMA ProbeType ==
  ASSUME TypeOK, UNCHANGED hostVars,
         outEp' \in OneRequest \cup {None}, pending' \in OneRequest \cup {None},
         OneAnswer(inEp'), OneAnswer(nextIn'), inDone' \in BOOLEAN, busReset' \in BOOLEAN,
         task' \in {"free", "spawned", "running", "finishing"},
         acc' \in Seq(Response), done' \in Nat, length' \in Nat,
         task' = "running" =>
           pending' # None /\ done' <= Len(pending'[1].cmds) /\ length' <= MaxPacket
  PROVE  TypeOK'
  <1>1. OneRequest' = OneRequest /\ UNCHANGED <<sent, waiting, have, log, session, kills>>
    BY DEF hostVars, OneRequest
  <1>2. QED  BY <1>1 DEF TypeOK, OneAnswer

LEMMA ReceiveType ==
  ASSUME TypeOK, Receive
  PROVE  outEp' \in OneRequest \cup {None} /\ pending' \in OneRequest \cup {None} /\ pending' = Received
  BY DEF TypeOK, Receive, Received

LEMMA ProcessType == TypeOK /\ DapProcess => TypeOK'
  <1> SUFFICES ASSUME TypeOK, DapProcess PROVE TypeOK'  OBVIOUS
  <1>0. /\ OneAnswer(inEp) /\ OneAnswer(nextIn) /\ OneAnswer(None) /\ OneAnswer(Some(acc))
        /\ acc \in Seq(Response) /\ <<>> \in Seq(Response) /\ done \in Nat /\ length \in Nat
        /\ inDone \in BOOLEAN /\ busReset \in BOOLEAN /\ MaxPacket \in Nat /\ MaxPacket > 0
        /\ outEp \in OneRequest \cup {None} /\ pending \in OneRequest \cup {None}
    BY SomeAnswer, SizesAssumption DEF TypeOK
  <1>1. CASE ProcessStart
    <2>1. /\ outEp' \in OneRequest \cup {None} /\ pending' \in OneRequest \cup {None}
          /\ pending' = Received
      BY <1>1, ReceiveType DEF ProcessStart
    <2>2. /\ UNCHANGED hostVars /\ UNCHANGED <<inDone, busReset>>
          /\ done' = 0 /\ acc' = <<>> /\ length' = 0
          /\ IF Received = None \/ DropUnread # None
             THEN Send(DropUnread) /\ task' = "finishing"
             ELSE nextIn' = DropUnread /\ inEp' = inEp /\ task' = "running"
      BY <1>1 DEF ProcessStart
    <2>3. OneAnswer(DropUnread)  BY <1>0 DEF DropUnread
    <2>4. OneAnswer(inEp') /\ OneAnswer(nextIn')
      <3>1. CASE Received = None \/ DropUnread # None  BY <1>0, <2>2, <2>3, <3>1, SendType
      <3>2. CASE ~(Received = None \/ DropUnread # None)  BY <1>0, <2>2, <2>3, <3>2
      <3>3. QED  BY <3>1, <3>2
    <2>5. task' = "running" => pending' # None /\ done' <= Len(pending'[1].cmds)
      <3>1. SUFFICES ASSUME task' = "running"
                     PROVE  pending' # None /\ done' <= Len(pending'[1].cmds)
        OBVIOUS
      <3>2. pending' # None  BY <2>1, <2>2, <3>1
      <3>3. pending'[1].cmds \in Requests  BY <2>1, <3>2, RequestIs
      <3>4. Len(pending'[1].cmds) \in Nat  BY <3>3, AnswersIs
      <3>5. QED  BY <2>2, <3>2, <3>4
    <2>6. task' \in {"free", "spawned", "running", "finishing"}  BY <2>2
    <2>7. done' \in Nat /\ length' \in Nat /\ length' <= MaxPacket  BY <1>0, <2>2
    <2>8. QED  BY <1>0, <2>1, <2>2, <2>4, <2>5, <2>6, <2>7, ProbeType
  <1>2. CASE ProcessCommand
    <2>1. /\ UNCHANGED hostVars /\ UNCHANGED <<outEp, inDone, busReset, pending, task>>
          /\ task = "running" /\ done < Len(pending[1].cmds)
      BY <1>2 DEF ProcessCommand
    <2>2. pending # None  BY <2>1 DEF TypeOK
    <2>3. PICK c \in Requests : pending[1].cmds = c  BY <1>0, <2>2, RequestIs
    <2>4. /\ Len(c) \in Nat /\ done + 1 \in 1 .. Len(c) /\ c[done + 1] \in Command
          /\ c[done + 1].size \in 1 .. MaxPacket
      <3>1. c \in Seq(Command) /\ Len(c) \in Nat  BY AnswersIs
      <3>2. done + 1 \in 1 .. Len(c)  BY <1>0, <2>1, <2>3, <3>1
      <3>3. c[done + 1] \in Command  BY <3>1, <3>2
      <3>4. QED  BY <3>1, <3>2, <3>3 DEF Command
    <2> DEFINE size == c[done + 1].size
               r == <<pending[1].id, done + 1>>
    <2>5. /\ IF Full(size)
             THEN Send(Some(acc)) /\ acc' = <<r>> /\ length' = size
             ELSE acc' = Append(acc, r) /\ length' = length + size /\ UNCHANGED <<inEp, nextIn>>
          /\ done' = IF c[done + 1].stops THEN Len(c) ELSE done + 1
      BY <1>2, <2>3 DEF ProcessCommand
    <2>6. r \in Response
      <3>1. pending[1].id \in 1 .. sent  BY <1>0, <2>2, RequestIs
      <3>2. sent \in 0 .. MaxSent /\ MaxSent \in Nat  BY BoundsAssumption DEF TypeOK
      <3>3. pending[1].id \in 1 .. MaxSent /\ done + 1 \in Nat \ {0}  BY <1>0, <3>1, <3>2
      <3>4. QED  BY <3>3 DEF Response
    <2> HIDE DEF size, r
    <2>7. size \in Nat /\ size <= MaxPacket  BY <1>0, <2>4 DEF size
    <2>8. /\ OneAnswer(inEp') /\ OneAnswer(nextIn') /\ acc' \in Seq(Response)
          /\ length' \in Nat /\ length' <= MaxPacket
      <3>1. CASE Full(size)
        <4>1. <<r>> \in Seq(Response)  BY <2>6
        <4>2. OneAnswer(inEp') /\ OneAnswer(nextIn')  BY <1>0, <2>5, <3>1, SendType
        <4>3. QED  BY <2>5, <2>7, <3>1, <4>1, <4>2
      <3>2. CASE ~Full(size)
        <4>1. length' = length + size /\ acc' = Append(acc, r) /\ inEp' = inEp /\ nextIn' = nextIn
          BY <2>5, <3>2
        <4>2. length' \in Nat /\ length' <= MaxPacket  BY <1>0, <2>7, <3>2, <4>1 DEF Full
        <4>3. Append(acc, r) \in Seq(Response)  BY <1>0, <2>6
        <4>4. QED  BY <1>0, <4>1, <4>2, <4>3
      <3>3. QED  BY <3>1, <3>2
    <2>9. done' \in Nat /\ done' <= Len(pending'[1].cmds)
      <3>1. done' \in {Len(c), done + 1}  BY <2>5
      <3>2. pending'[1].cmds = c  BY <2>1, <2>3
      <3>3. QED  BY <1>0, <2>4, <3>1, <3>2
    <2>10. task' \in {"free", "spawned", "running", "finishing"} /\ pending' # None
      BY <2>1, <2>2 DEF TypeOK
    <2>11. QED  BY <1>0, <2>1, <2>8, <2>9, <2>10, ProbeType
  <1>3. CASE ProcessEnd
    <2>1. /\ UNCHANGED hostVars /\ UNCHANGED <<outEp, inDone, busReset>> /\ task' = "finishing"
          /\ pending' = None /\ Send(Some(acc)) /\ done' = 0 /\ acc' = <<>> /\ length' = 0
      BY <1>3 DEF ProcessEnd
    <2>2. OneAnswer(inEp') /\ OneAnswer(nextIn')  BY <1>0, <2>1, SendType
    <2>3. QED  BY <1>0, <2>1, <2>2, ProbeType
  <1>4. CASE TaskEnd
    BY <1>4 DEF TaskEnd, TypeOK, OneAnswer, OneRequest, hostVars, endpoints, dap
  <1>5. QED  BY <1>1, <1>2, <1>3, <1>4 DEF DapProcess

LEMMA IrqType == TypeOK /\ UsbctrlIrq => TypeOK'
  <1> SUFFICES ASSUME TypeOK, UsbctrlIrq PROVE TypeOK'  OBVIOUS
  <1>0. /\ OneAnswer(inEp) /\ OneAnswer(nextIn) /\ OneAnswer(None)
        /\ acc \in Seq(Response) /\ done \in Nat /\ length \in Nat
        /\ task \in {"free", "spawned", "running", "finishing"} /\ task # "running"
    BY SomeAnswer DEF TypeOK, UsbctrlIrq
  <1>1. CASE IrqReset
    BY <1>0, <1>1, ProbeType DEF IrqReset, Reset
  <1>2. CASE IrqPoll
    <2>1. /\ UNCHANGED hostVars /\ UNCHANGED <<busReset, done, acc, length>> /\ inDone' = FALSE
          /\ task' \in {"free", "spawned", "running", "finishing"} /\ task' # "running"
          /\ Receive /\ ~busReset
          /\ Send(nextIn) \/ (inEp' = inEp /\ nextIn' = nextIn)
      BY <1>0, <1>2 DEF IrqPoll
    <2>2. outEp' \in OneRequest \cup {None} /\ pending' \in OneRequest \cup {None}
      BY <2>1, ReceiveType
    <2>3. OneAnswer(inEp') /\ OneAnswer(nextIn')  BY <1>0, <2>1, SendType
    <2>4. busReset' \in BOOLEAN  BY <2>1 DEF TypeOK
    <2>5. QED  BY <1>0, <2>1, <2>2, <2>3, <2>4, ProbeType
  <1>3. QED  BY <1>1, <1>2 DEF UsbctrlIrq

LEMMA StepType == TypeOK /\ [Next]_vars => TypeOK'
  <1> SUFFICES ASSUME TypeOK, [Next]_vars PROVE TypeOK'  OBVIOUS
  <1>1. CASE UNCHANGED vars
    BY <1>1 DEF vars, TypeOK, OneAnswer, OneRequest, hostVars, endpoints, dap
  <1>2. QED  BY <1>1, HostType, ProcessType, IrqType DEF Next

(* Every variable keeps its type, for every set of requests. The responses *)
(* of process() never take more bytes than its packet has, whatever their  *)
(* sizes: the copy into next_in_packet cannot panic.                       *)
THEOREM TypeCorrect == Spec => []TypeOK
  BY InitType, StepType, PTL DEF Spec
-----------------------------------------------------------------------------
(* Where the end of an answer is, whoever was killed before: the request   *)
(* is not begun, or being executed and its last response so far is the     *)
(* last one that was produced, or the end of the answer is behind the      *)
(* endpoint, in it, or read.                                               *)
Ends(s, id, n) == s # <<>> /\ Last(s) = <<id, n>>

Begun(c) ==
  /\ pending = Some(Packet(sent, c)) /\ outEp = None
  /\ task = "running" =>
       \/ done = 0
       \/ done = Len(c) /\ Ends(acc, sent, waiting)
       \/ done \in Nat /\ done < waiting /\ Ends(acc, sent, done)

EndIsAt ==
  \/ \E c \in Requests : waiting = Answers(c) /\ outEp = Some(Packet(sent, c))
  \/ \E c \in Requests : waiting = Answers(c) /\ Begun(c)
  \/ /\ outEp = None /\ pending = None
     /\ \/ nextIn # None /\ Ends(nextIn[1], sent, waiting)
        \/ nextIn = None /\ inEp # None /\ Ends(inEp[1], sent, waiting)
        \/ nextIn = None /\ inEp = None /\ Ends(log, sent, waiting)

EndInv ==
  /\ waiting \in Nat
  /\ busReset => waiting = 0
  /\ waiting > 0 => EndIsAt

LEMMA EndsAppend ==
  ASSUME NEW s \in Seq(Resp), NEW t \in Seq(Resp), NEW r \in Resp
  PROVE  /\ Append(s, r) # <<>> /\ Last(Append(s, r)) = r
         /\ <<r>> # <<>> /\ Last(<<r>>) = r
         /\ t # <<>> => s \o t # <<>> /\ Last(s \o t) = Last(t)
  <1>1. Append(s, r) # <<>> /\ Last(Append(s, r)) = r  BY DEF Last
  <1>2. <<r>> # <<>> /\ Last(<<r>>) = r  BY DEF Last
  <1>3. ASSUME t # <<>> PROVE s \o t # <<>> /\ Last(s \o t) = Last(t)
    <2>1. Len(t) > 0 /\ Len(t) \in Nat /\ Len(s) \in Nat  BY <1>3
    <2>2. Len(s \o t) = Len(s) + Len(t)  OBVIOUS
    <2>3. (s \o t)[Len(s) + Len(t)] = t[Len(t)]  BY <2>1
    <2>4. s \o t # <<>>  BY <2>1, <2>2
    <2>5. QED  BY <2>2, <2>3, <2>4 DEF Last
  <1>4. QED  BY <1>1, <1>2, <1>3

LEMMA InitEnd == Init => EndInv
  BY DEF Init, EndInv

LEMMA HostEnd == OrderInv /\ EndInv /\ Host => EndInv'
  <1> SUFFICES ASSUME OrderInv, EndInv, Host PROVE EndInv'  OBVIOUS
  <1>1. CASE HostSend
    <2>1. PICK c \in Requests : outEp' = Some(Packet(sent + 1, c)) /\ waiting' = Answers(c)
      BY <1>1 DEF HostSend
    <2>2. sent' = sent + 1 /\ ~busReset /\ busReset' = busReset  BY <1>1 DEF HostSend
    <2>3. EndIsAt'  BY <2>1, <2>2 DEF EndIsAt
    <2>4. waiting' \in Nat  BY <2>1, AnswersIs
    <2>5. QED  BY <2>2, <2>3, <2>4 DEF EndInv
  <1>2. CASE HostRead
    <2>1. /\ log' = log \o inEp[1] /\ inEp # None /\ inEp' = None /\ ~busReset /\ waiting > 0
          /\ waiting' \in {0, waiting}
          /\ UNCHANGED <<sent, outEp, busReset, pending, nextIn, done, acc, task>>
      BY <1>2 DEF HostRead, dap
    <2>2. EndIsAt /\ waiting' \in Nat  BY <2>1 DEF EndInv
    <2>3. inEp[1] \in Seq(Resp) /\ log \in Seq(Resp)
      BY <2>1, BoxFacts DEF OrderInv, UsbType
    <2>4. ASSUME waiting' = waiting PROVE EndIsAt'
      <3>1. ASSUME Ends(inEp[1], sent, waiting) PROVE Ends(log', sent, waiting)
        <4>1. <<0, 0>> \in Resp  BY DEF Resp
        <4>2. QED  BY <2>1, <2>3, <3>1, <4>1, EndsAppend DEF Ends
      <3>2. CASE \E c \in Requests : waiting = Answers(c) /\ outEp = Some(Packet(sent, c))
        BY <2>1, <2>4, <3>2 DEF EndIsAt
      <3>3. CASE \E c \in Requests : waiting = Answers(c) /\ Begun(c)
        <4>1. PICK c \in Requests : waiting = Answers(c) /\ Begun(c)  BY <3>3
        <4>2. Begun(c)'  BY <2>1, <2>4, <4>1 DEF Begun
        <4>3. QED  BY <2>4, <4>1, <4>2 DEF EndIsAt
      <3>4. CASE outEp = None /\ pending = None /\ nextIn # None /\ Ends(nextIn[1], sent, waiting)
        BY <2>1, <2>4, <3>4 DEF EndIsAt
      <3>5. CASE outEp = None /\ pending = None /\ nextIn = None /\ Ends(inEp[1], sent, waiting)
        BY <2>1, <2>4, <3>1, <3>5 DEF EndIsAt
      <3>6. QED  BY <2>1, <2>2, <3>2, <3>3, <3>4, <3>5 DEF EndIsAt
    <2>5. QED  BY <2>1, <2>2, <2>4 DEF EndInv
  <1>3. CASE HostKill \/ HostReset
    BY <1>3 DEF HostKill, HostReset, EndInv
  <1>4. QED  BY <1>1, <1>2, <1>3 DEF Host

(* Nothing is asked any more: the end of the answer moves on.              *)
LEMMA SendEnd ==
  ASSUME EndIsAt, outEp = None, pending = None, UNCHANGED <<sent, waiting, log>>,
         outEp' = None, pending' = None, Send(nextIn) \/ UNCHANGED <<inEp, nextIn>>
  PROVE  EndIsAt'
  <1>1. \/ nextIn # None /\ Ends(nextIn[1], sent, waiting)
        \/ nextIn = None /\ inEp # None /\ Ends(inEp[1], sent, waiting)
        \/ nextIn = None /\ inEp = None /\ Ends(log, sent, waiting)
    BY HeldFacts DEF EndIsAt, Begun
  <1>2. CASE nextIn # None /\ inEp = None /\ Send(nextIn)
    <2>1. inEp' = nextIn /\ nextIn' = None  BY <1>2 DEF Send
    <2>2. Ends(inEp'[1], sent, waiting')  BY <1>1, <1>2, <2>1
    <2>3. QED  BY <1>2, <2>1, <2>2 DEF EndIsAt
  <1>3. CASE inEp' = inEp /\ nextIn' = nextIn
    BY <1>1, <1>3 DEF EndIsAt
  <1>4. QED  BY <1>2, <1>3 DEF Send

(* A request that is received is not begun.                                *)
LEMMA ReceiveEnd ==
  ASSUME EndIsAt, Receive, UNCHANGED <<sent, waiting, log>>, task # "running",
         Received # None, task' = "running" => done' = 0
  PROVE  EndIsAt'
  <1>1. PICK c \in Requests :
          /\ waiting = Answers(c)
          /\ \/ outEp = Some(Packet(sent, c))
             \/ pending = Some(Packet(sent, c)) /\ outEp = None
    BY HeldFacts DEF EndIsAt, Begun, Received
  <1>2. CASE pending = None
    <2>1. pending' = Some(Packet(sent, c)) /\ outEp' = None
      BY <1>1, <1>2, HeldFacts DEF Receive, Received
    <2>2. Begun(c)'  BY <2>1 DEF Begun
    <2>3. QED  BY <1>1, <2>2 DEF EndIsAt
  <1>3. CASE pending # None /\ outEp = Some(Packet(sent, c))
    <2>1. outEp' = Some(Packet(sent, c))  BY <1>3 DEF Receive
    <2>2. QED  BY <1>1, <2>1 DEF EndIsAt
  <1>4. CASE pending = Some(Packet(sent, c)) /\ outEp = None
    <2>1. pending' = Some(Packet(sent, c)) /\ outEp' = None
      BY <1>4, HeldFacts DEF Receive, Received
    <2>2. Begun(c)'  BY <2>1 DEF Begun
    <2>3. QED  BY <1>1, <2>2 DEF EndIsAt
  <1>5. QED  BY <1>1, <1>2, <1>3, <1>4

LEMMA ReceiveNothing ==
  Receive /\ Received = None => outEp = None /\ pending = None /\ outEp' = None /\ pending' = None
  BY DEF Receive, Received

(* A step of the probe leaves what the host waits for.                     *)
LEMMA HiddenEnd ==
  ASSUME EndInv, waiting' = waiting, busReset' => busReset,
         waiting > 0 /\ ~busReset => EndIsAt'
  PROVE  EndInv'
  BY DEF EndInv

LEMMA ProcessEndsKept == OrderInv /\ EndInv /\ DapProcess => EndInv'
  <1> SUFFICES ASSUME OrderInv, EndInv, DapProcess PROVE EndInv'  OBVIOUS
  <1>0. /\ UNCHANGED <<sent, waiting, log, busReset>> /\ waiting \in Nat
        /\ acc \in Seq(Resp) /\ <<>> \in Seq(Resp) /\ done \in Nat
        /\ task = "running" => pending # None
    BY DEF DapProcess, ProcessStart, ProcessCommand, ProcessEnd, TaskEnd, hostVars, endpoints,
           OrderInv, UsbType, EndInv
  <1> SUFFICES ASSUME waiting > 0, ~busReset PROVE EndIsAt'
    BY <1>0, HiddenEnd
  <1>1. EndIsAt  BY DEF EndInv
  <1>2. CASE ProcessStart
    <2>1. /\ Receive /\ task # "running" /\ done' = 0
          /\ Received = None => Send(DropUnread)
      BY <1>2 DEF ProcessStart
    <2>2. CASE Received = None
      <3>1. Send(nextIn)  BY <2>1, <2>2 DEF DropUnread
      <3>2. QED  BY <1>0, <1>1, <2>1, <2>2, <3>1, ReceiveNothing, SendEnd
    <2>3. CASE Received # None
      BY <1>0, <1>1, <2>1, <2>3, ReceiveEnd
    <2>4. QED  BY <2>2, <2>3
  <1>3. CASE ProcessCommand
    <2>1. /\ task = "running" /\ done < Len(pending[1].cmds) /\ UNCHANGED <<outEp, pending, task>>
      BY <1>3 DEF ProcessCommand
    <2>2. CASE \E c \in Requests : waiting = Answers(c) /\ outEp = Some(Packet(sent, c))
      BY <1>0, <2>1, <2>2 DEF EndIsAt
    <2>3. CASE \E c \in Requests : waiting = Answers(c) /\ Begun(c)
      <3>1. PICK c \in Requests : waiting = Answers(c) /\ Begun(c)  BY <2>3
      <3>2. /\ pending = Some(Packet(sent, c)) /\ outEp = None
            /\ \/ done = 0
               \/ done = Len(c) /\ Ends(acc, sent, waiting)
               \/ done \in Nat /\ done < waiting /\ Ends(acc, sent, done)
        BY <2>1, <3>1 DEF Begun
      <3>3. pending[1].cmds = c /\ pending[1].id = sent  BY <3>2, HeldFacts DEF Packet
      <3>4. Len(c) \in Nat /\ waiting <= Len(c)  BY <3>1, AnswersIs
      <3>5. done < waiting /\ done + 1 \in 1 .. Len(c)
        <4>1. done < Len(c)  BY <2>1, <3>3
        <4>2. done < waiting  BY <1>0, <3>2, <3>4, <4>1
        <4>3. QED  BY <1>0, <3>4, <4>1, <4>2
      <3> DEFINE r == <<sent, done + 1>>
      <3>6. /\ acc' \in {<<r>>, Append(acc, r)}
            /\ done' = IF c[done + 1].stops THEN Len(c) ELSE done + 1
        BY <1>3, <3>3 DEF ProcessCommand
      <3>7. Ends(acc', sent, done + 1)
        <4>1. r \in Resp  BY <1>0 DEF Resp, OrderInv, UsbType
        <4>2. Append(acc, r) # <<>> /\ Last(Append(acc, r)) = r /\ <<r>> # <<>> /\ Last(<<r>>) = r
          BY <1>0, <4>1, EndsAppend
        <4> HIDE DEF r
        <4>3. acc' # <<>> /\ Last(acc') = r  BY <3>6, <4>2
        <4>4. QED  BY <4>3 DEF Ends, r
      <3>8. c[done + 1].stops => done + 1 = waiting
        <4>1. done + 1 < Answers(c) => ~c[done + 1].stops  BY <3>5, AnswersIs
        <4>2. QED  BY <1>0, <3>1, <3>5, <4>1
      <3>9. done + 1 = waiting => done' = Len(c)
        BY <3>1, <3>6, AnswersIs
      <3>10. \/ done' = Len(c) /\ Ends(acc', sent, waiting)
             \/ done' \in Nat /\ done' < waiting /\ Ends(acc', sent, done')
        <4>1. CASE done + 1 = waiting  BY <3>7, <3>9, <4>1
        <4>2. CASE done + 1 # waiting
          <5>1. done' = done + 1  BY <3>6, <3>8, <4>2
          <5>2. QED  BY <1>0, <3>5, <3>7, <4>2, <5>1
        <4>3. QED  BY <4>1, <4>2
      <3>11. Begun(c)'  BY <1>0, <2>1, <3>2, <3>10 DEF Begun
      <3>12. QED  BY <1>0, <3>1, <3>11 DEF EndIsAt
    <2>4. QED  BY <1>0, <1>1, <2>1, <2>2, <2>3 DEF EndIsAt
  <1>4. CASE ProcessEnd
    <2>1. /\ task = "running" /\ done = Len(pending[1].cmds) /\ outEp' = outEp /\ pending' = None
          /\ Send(Some(acc))
      BY <1>4 DEF ProcessEnd
    <2>2. CASE \E c \in Requests : waiting = Answers(c) /\ outEp = Some(Packet(sent, c))
      BY <1>0, <2>1, <2>2 DEF EndIsAt
    <2>3. CASE \E c \in Requests : waiting = Answers(c) /\ Begun(c)
      <3>1. PICK c \in Requests : waiting = Answers(c) /\ Begun(c)  BY <2>3
      <3>2. /\ pending = Some(Packet(sent, c)) /\ outEp = None
            /\ \/ done = 0
               \/ done = Len(c) /\ Ends(acc, sent, waiting)
               \/ done \in Nat /\ done < waiting /\ Ends(acc, sent, done)
        BY <2>1, <3>1 DEF Begun
      <3>3. done = Len(c)  BY <2>1, <3>2, HeldFacts DEF Packet
      <3>4. Len(c) \in Nat /\ waiting <= Len(c) /\ waiting \in 1 .. Len(c)  BY <3>1, AnswersIs
      <3>5. Ends(acc, sent, waiting)  BY <3>2, <3>3, <3>4
      <3>6. CASE inEp = None
        <4>1. inEp' = Some(acc) /\ nextIn' = None  BY <2>1, <3>6, HeldFacts DEF Send
        <4>2. inEp' # None /\ Ends(inEp'[1], sent', waiting')  BY <1>0, <3>5, <4>1, HeldFacts
        <4>3. outEp' = None /\ pending' = None  BY <2>1, <3>2
        <4>4. QED  BY <4>1, <4>2, <4>3 DEF EndIsAt
      <3>7. CASE inEp # None
        <4>1. nextIn' = Some(acc)  BY <2>1, <3>7 DEF Send
        <4>2. nextIn' # None /\ Ends(nextIn'[1], sent', waiting')  BY <1>0, <3>5, <4>1, HeldFacts
        <4>3. outEp' = None /\ pending' = None  BY <2>1, <3>2
        <4>4. QED  BY <4>2, <4>3 DEF EndIsAt
      <3>8. QED  BY <3>6, <3>7
    <2>4. QED  BY <1>0, <1>1, <2>1, <2>2, <2>3 DEF EndIsAt
  <1>5. CASE TaskEnd
    <2>1. UNCHANGED <<outEp, inEp, pending, nextIn, done, acc>> /\ task' # "running"
      BY <1>5 DEF TaskEnd, endpoints, dap
    <2>2. \A c \in Requests : Begun(c) => Begun(c)'  BY <1>0, <2>1 DEF Begun
    <2>3. QED  BY <1>0, <1>1, <2>1, <2>2 DEF EndIsAt
  <1>6. QED  BY <1>2, <1>3, <1>4, <1>5 DEF DapProcess

LEMMA IrqEnd == EndInv /\ UsbctrlIrq => EndInv'
  <1> SUFFICES ASSUME EndInv, UsbctrlIrq PROVE EndInv'  OBVIOUS
  <1>1. CASE IrqReset
    BY <1>1 DEF IrqReset, hostVars, EndInv
  <1>2. CASE IrqPoll
    <2>1. /\ UNCHANGED <<sent, waiting, log, busReset>> /\ Receive /\ task # "running"
          /\ task' # "running" /\ (Send(nextIn) \/ UNCHANGED <<inEp, nextIn>>)
      BY <1>2 DEF UsbctrlIrq, IrqPoll, hostVars
    <2> SUFFICES ASSUME waiting > 0 PROVE EndIsAt'
      BY <2>1, HiddenEnd
    <2>2. EndIsAt  BY DEF EndInv
    <2>3. CASE Received = None  BY <2>1, <2>2, <2>3, ReceiveNothing, SendEnd
    <2>4. CASE Received # None  BY <2>1, <2>2, <2>4, ReceiveEnd
    <2>5. QED  BY <2>3, <2>4
  <1>3. QED  BY <1>1, <1>2 DEF UsbctrlIrq

LEMMA StepEnd == OrderInv /\ EndInv /\ [Next]_vars => EndInv'
  <1> SUFFICES ASSUME OrderInv, EndInv, [Next]_vars PROVE EndInv'  OBVIOUS
  <1>1. CASE UNCHANGED vars
    <2>1. UNCHANGED <<sent, waiting, log, outEp, inEp, busReset, pending, nextIn, task, done, acc>>
      BY <1>1 DEF vars, hostVars, endpoints, dap
    <2>2. QED  BY <2>1 DEF EndInv, EndIsAt, Begun
  <1>2. QED  BY <1>1, HostEnd, ProcessEndsKept, IrqEnd DEF Next

(* While nobody was killed, the answer is in the probe as a whole.         *)
LEMMA KeptInProbe ==
  KeptInv /\ kills = 0 /\ waiting > 0 /\ ~busReset =>
    outEp # None \/ pending # None \/ nextIn # None \/ inEp # None
  <1> SUFFICES ASSUME KeptInv, kills = 0, waiting > 0, ~busReset
               PROVE  outEp # None \/ pending # None \/ nextIn # None \/ inEp # None
    OBVIOUS
  <1>1. Stage /\ sent \in Nat /\ have \in Nat /\ waiting \in Nat  BY StageIs
  <1>2. ASSUME NEW a \in Nat, Answered(a) PROVE nextIn # None \/ inEp # None
    <2>1. /\ have < waiting /\ have <= a /\ a <= waiting
          /\ inEp = Boxed(sent, have, a) /\ nextIn = Boxed(sent, a, waiting)
      BY <1>2 DEF Answered
    <2>2. CASE have < a  BY <1>1, <2>1, <2>2, BoxedFacts
    <2>3. CASE have = a
      <3>1. a < waiting  BY <2>1, <2>3
      <3>2. QED  BY <1>1, <2>1, <3>1, BoxedFacts
    <2>4. QED  BY <1>1, <2>1, <2>2, <2>3
  <1>3. \A c \in Requests : Asked(c) => outEp # None \/ pending # None
    BY HeldFacts DEF Asked
  <1>4. \A c \in Requests : \A total, a, k : Working(c, total, a, k) => pending # None
    BY HeldFacts DEF Working
  <1>5. QED  BY <1>1, <1>2, <1>3, <1>4 DEF Stage, Quiet

(* A requester that waits has its request or the rest of its answer in the *)
(* probe, or it has read the end of an answer that lost its first packet   *)
(* behind the response of a killed requester. The end of an answer is      *)
(* never lost, for every set of requests; nothing is, before a kill, if    *)
(* the answers take at most two packets (ProbeKeepsSession).               *)
THEOREM AnswerKept ==
  ASSUME \E longest \in Requests : \A c \in Requests : Len(c) <= Len(longest),
         \A c \in Requests : FitsTwoPackets(c)
  PROVE  Spec => []AnswerNotLost
  <1>1. Bounded /\ AllFit  BY TwoPacketsFit DEF Bounded
  <1>2. KeptInv /\ EndInv => AnswerNotLost
    <2>1. SUFFICES ASSUME KeptInv, EndInv, waiting > 0, ~busReset,
                          outEp = None, pending = None, nextIn = None, inEp = None
                   PROVE  kills > 0 /\ log # <<>> /\ Last(log) = <<sent, waiting>>
      BY DEF AnswerNotLost
    <2>2. kills \in Nat /\ kills # 0  BY <2>1, KeptInProbe DEF KeptInv
    <2>3. EndIsAt  BY <2>1 DEF EndInv
    <2>4. Ends(log, sent, waiting)  BY <2>1, <2>3, HeldFacts DEF EndIsAt, Begun
    <2>5. QED  BY <2>2, <2>4 DEF Ends
  <1>3. KeptInv /\ [Next]_vars => KeptInv'  BY <1>1, StepKept DEF Kept
  <1>4. QED  BY <1>2, <1>3, InitKept, InitOrder, StepOrder, InitEnd, StepEnd, PTL DEF Spec
=============================================================================
