-------------------------- MODULE UartBridgeProofs --------------------------
(***************************************************************************)
(* The RX interrupt of the bridge and its two byte channels, for queues    *)
(* and FIFOs of every size and any number of bytes and line codings.       *)
(***************************************************************************)
EXTENDS UartBridge, SequenceTheorems, TLAPS

(* What the steps need of the types. *)
RxType ==
  /\ line \in Nat
  /\ rxFifo \in Seq(Nat) /\ rxQueue \in Seq(Nat)
  /\ Len(rxQueue) <= RxRoom
  /\ at \in [Drainers -> Places]
  /\ dequeued \in [Drainers -> BOOLEAN]

IInv == RxType /\ StoppedOnlyWhileFull
-----------------------------------------------------------------------------
LEMMA QueueFacts ==
  ASSUME NEW s \in Seq(Nat)
  PROVE  /\ Len(s) \in Nat
         /\ \A x \in Nat : Append(s, x) \in Seq(Nat) /\ Len(Append(s, x)) = Len(s) + 1
         /\ s # <<>> => Tail(s) \in Seq(Nat) /\ Len(Tail(s)) = Len(s) - 1 /\ Head(s) \in Nat
  OBVIOUS

LEMMA InitIInv == Init => IInv
  <1> SUFFICES ASSUME Init PROVE IInv  OBVIOUS
  <1>1. RxType
    BY RoomAssumption DEF Init, RxType, Drainers, Places
  <1>2. StoppedOnlyWhileFull  BY DEF Init, StoppedOnlyWhileFull
  <1>3. QED  BY <1>1, <1>2 DEF IInv

(* A step that touches neither the queue nor the interrupt nor a drainer. *)
LEMMA QuietIInv ==
  ASSUME IInv, UNCHANGED <<rxQueue, rxIrq, at, dequeued>>, line' \in Nat, rxFifo' \in Seq(Nat)
  PROVE  IInv'
  BY DEF IInv, RxType, StoppedOnlyWhileFull, WillEnable

LEMMA EnvironmentIInv == IInv /\ Environment => IInv'
  <1> SUFFICES ASSUME IInv, Environment PROVE IInv'  OBVIOUS
  <1>1. line' \in Nat /\ rxFifo' \in Seq(Nat)
    <2>1. line \in Nat /\ rxFifo \in Seq(Nat)  BY DEF IInv, RxType
    <2>2. CASE LineByte
      <3>1. line' = line + 1 /\ line' \in Nat  BY <2>1, <2>2 DEF LineByte
      <3>2. rxFifo' = Append(rxFifo, line') \/ rxFifo' = rxFifo  BY <2>2 DEF LineByte
      <3>3. QED  BY <2>1, <3>1, <3>2, QueueFacts
    <2>3. CASE WireByte \/ HostRead \/ HostWrite \/ HostSetCoding
      BY <2>1, <2>3 DEF WireByte, HostRead, HostWrite, HostSetCoding, rx
    <2>4. QED  BY <2>2, <2>3 DEF Environment
  <1>2. UNCHANGED <<rxQueue, rxIrq, at, dequeued>>
    BY DEF Environment, LineByte, WireByte, HostRead, HostWrite, HostSetCoding, rx, control
  <1>3. QED  BY <1>1, <1>2, QuietIInv

LEMMA UartIInv == IInv /\ Uart => IInv'
  <1> SUFFICES ASSUME IInv, Uart PROVE IInv'  OBVIOUS
  <1>0. /\ line \in Nat /\ rxFifo \in Seq(Nat) /\ rxQueue \in Seq(Nat) /\ Len(rxQueue) <= RxRoom
        /\ Len(rxQueue) \in Nat /\ RxRoom \in Nat
    BY QueueFacts, RoomAssumption DEF IInv, RxType
  <1>1. CASE UartIrq
    BY <1>0, <1>1, QuietIInv DEF UartIrq, rx
  <1>2. CASE UartIrqByte
    <2>0. UNCHANGED <<line, at, dequeued>>  BY <1>2 DEF UartIrqByte
    <2>1. CASE ~QueueReady /\ rxIrq' = FALSE /\ UNCHANGED <<rxFifo, rxQueue>>
      <3>1. Len(rxQueue') = RxRoom  BY <1>0, <2>1 DEF QueueReady
      <3>2. RxType'  BY <2>0, <2>1 DEF IInv, RxType
      <3>3. StoppedOnlyWhileFull'  BY <3>1 DEF StoppedOnlyWhileFull
      <3>4. QED  BY <3>2, <3>3 DEF IInv
    <2>2. CASE QueueReady /\ rxFifo # <<>> /\ rxQueue' = Append(rxQueue, Head(rxFifo))
               /\ rxFifo' = Tail(rxFifo) /\ rxIrq' = rxIrq
      <3>1. /\ Head(rxFifo) \in Nat /\ rxFifo' \in Seq(Nat)
            /\ rxQueue' \in Seq(Nat) /\ Len(rxQueue') = Len(rxQueue) + 1
        BY <1>0, <2>2, QueueFacts
      <3>2. Len(rxQueue) < RxRoom  BY <2>2 DEF QueueReady
      <3>3. RxType'  BY <1>0, <2>0, <3>1, <3>2 DEF IInv, RxType
      <3>4. StoppedOnlyWhileFull'
        BY <1>0, <2>0, <2>2, <3>2 DEF IInv, StoppedOnlyWhileFull, WillEnable
      <3>5. QED  BY <3>3, <3>4 DEF IInv
    <2>3. CASE UNCHANGED <<rxIrq, rxFifo, rxQueue>>
      BY <1>0, <2>0, <2>3, QuietIInv
    <2>4. CASE rxFifo # <<>> /\ RefuseByte /\ UNCHANGED <<rxQueue, rxIrq>>
      <3>1. rxFifo' \in Seq(Nat)  BY <1>0, <2>4, QueueFacts DEF RefuseByte
      <3>2. QED  BY <1>0, <2>0, <2>4, <3>1, QuietIInv
    <2>5. QED  BY <1>2, <2>1, <2>2, <2>3, <2>4 DEF UartIrqByte, QueueReady
  <1>3. QED  BY <1>1, <1>2 DEF Uart

(* A drainer that moves on without having dequeued anything. *)
LEMMA MoveIInv ==
  ASSUME IInv, NEW c \in Drainers, NEW next \in Places, at' = [at EXCEPT ![c] = next],
         ~WillEnable(c), dequeued' = dequeued \/ dequeued' = [dequeued EXCEPT ![c] = FALSE],
         UNCHANGED <<line, rxFifo, rxQueue, rxIrq>>
  PROVE  IInv'
  <1>1. RxType'  BY DEF IInv, RxType
  <1>2. \A d \in Drainers : WillEnable(d) => WillEnable(d)'
    BY DEF IInv, RxType, WillEnable
  <1>3. StoppedOnlyWhileFull'
    BY <1>2 DEF IInv, StoppedOnlyWhileFull
  <1>4. QED  BY <1>1, <1>3 DEF IInv

(* The interrupt is on after the step. *)
LEMMA EnabledIInv ==
  ASSUME RxType', rxIrq' = TRUE
  PROVE  IInv'
  BY DEF IInv, StoppedOnlyWhileFull

LEMMA DrainIInv == ASSUME NEW c \in Drainers PROVE IInv /\ Drain(c) => IInv'
  <1> SUFFICES ASSUME IInv, Drain(c) PROVE IInv'  OBVIOUS
  <1>0. AfterRx(c) \in Places  BY DEF AfterRx, Places
  <1>1. CASE DrainUsbToUartTx(c)
    <2>1. UNCHANGED <<line, rxFifo, rxQueue, rxIrq, dequeued>> /\ ~WillEnable(c)
      BY <1>1 DEF DrainUsbToUartTx, rx, WillEnable
    <2>2. CASE at' = at
      BY <2>1, <2>2, QuietIInv DEF IInv, RxType
    <2>3. CASE at' = [at EXCEPT ![c] = "tx_queue"]
      <3>1. "tx_queue" \in Places  BY DEF Places
      <3>2. QED  BY <2>1, <2>3, <3>1, MoveIInv
    <2>4. QED  BY <1>1, <2>2, <2>3 DEF DrainUsbToUartTx, Again, Leave
  <1>2. CASE DrainUartTxQueue(c)
    <2>1. UNCHANGED <<line, rxFifo, rxQueue, rxIrq>> /\ ~WillEnable(c)
      BY <1>2 DEF DrainUartTxQueue, rx, WillEnable
    <2>2. CASE at' = at /\ dequeued' = dequeued
      BY <2>1, <2>2, QuietIInv DEF IInv, RxType
    <2>3. CASE at' = [at EXCEPT ![c] = "rx_queue"] /\ dequeued' = [dequeued EXCEPT ![c] = FALSE]
      <3>1. "rx_queue" \in Places  BY DEF Places
      <3>2. QED  BY <2>1, <2>3, <3>1, MoveIInv
    <2>4. QED  BY <1>2, <2>2, <2>3 DEF DrainUartTxQueue, Again, Leave
  <1>3. CASE DrainUartRxQueue(c)
    <2>1. UNCHANGED <<line, rxFifo, rxIrq>> /\ at[c] = "rx_queue"
      BY <1>3 DEF DrainUartRxQueue
    <2>2. CASE rxQueue # <<>> /\ rxQueue' = Tail(rxQueue) /\ at' = at
               /\ dequeued' = [dequeued EXCEPT ![c] = TRUE]
      <3>1. rxQueue' \in Seq(Nat) /\ Len(rxQueue') <= RxRoom
        BY <2>2, QueueFacts, RoomAssumption DEF IInv, RxType
      <3>2. RxType'  BY <2>1, <2>2, <3>1 DEF IInv, RxType
      <3>3. WillEnable(c)'  BY <2>1, <2>2 DEF IInv, RxType, WillEnable
      <3>4. QED  BY <3>2, <3>3 DEF IInv, StoppedOnlyWhileFull
    <2>3. CASE UNCHANGED <<rxQueue, dequeued>> /\ at' = [at EXCEPT ![c] = AfterDrain(c)]
      <3>1. CASE dequeued[c]
        <4>1. AfterDrain(c) = "enable" /\ "enable" \in Places
          BY <3>1 DEF AfterDrain, Places
        <4>2. RxType'  BY <2>1, <2>3, <4>1 DEF IInv, RxType
        <4>3. WillEnable(c)'  BY <2>3, <4>1 DEF IInv, RxType, WillEnable
        <4>4. QED  BY <4>2, <4>3 DEF IInv, StoppedOnlyWhileFull
      <3>2. CASE ~dequeued[c]
        <4>1. AfterDrain(c) = AfterRx(c) /\ ~WillEnable(c)
          BY <2>1, <3>2 DEF AfterDrain, WillEnable
        <4>2. QED  BY <1>0, <2>1, <2>3, <4>1, MoveIInv
      <3>3. QED  BY <3>1, <3>2
    <2>4. QED  BY <1>3, <2>2, <2>3 DEF DrainUartRxQueue, Again, Leave
  <1>4. CASE EnableRxInterrupt(c)
    <2>1. RxType'
      BY <1>0, <1>4 DEF EnableRxInterrupt, Leave, rx, IInv, RxType
    <2>2. QED  BY <1>4, <2>1, EnabledIInv DEF EnableRxInterrupt
  <1>5. QED  BY <1>1, <1>2, <1>3, <1>4 DEF Drain

LEMMA UsbIInv == IInv /\ Usb => IInv'
  <1> SUFFICES ASSUME IInv, Usb PROVE IInv'  OBVIOUS
  <1>0. "usb" \in Drainers  BY DEF Drainers
  <1>1. CASE UsbctrlIrq
    <2>1. "usb_to_tx" \in Places /\ ~WillEnable("usb")
      BY <1>1 DEF UsbctrlIrq, Places, WillEnable
    <2>2. QED  BY <1>0, <1>1, <2>1, MoveIInv DEF UsbctrlIrq, rx
  <1>2. CASE Drain("usb")  BY <1>0, <1>2, DrainIInv
  <1>3. CASE ReconfigureUart
    <2>1. "off" \in Places /\ ~WillEnable("usb") /\ at' = [at EXCEPT !["usb"] = "off"]
          /\ UNCHANGED <<line, rxQueue, dequeued>>
      BY <1>3 DEF ReconfigureUart, Leave, Places, WillEnable
    <2>2. CASE MustReconfigure
      <3>1. rxFifo' \in Seq(Nat)
        <4>1. rxFifo' = rxFifo \/ rxFifo' = <<>>
          BY <1>3, <2>2 DEF ReconfigureUart
        <4>2. <<>> \in Seq(Nat) /\ rxFifo \in Seq(Nat)  BY DEF IInv, RxType
        <4>3. QED  BY <4>1, <4>2
      <3>2. RxType'  BY <2>1, <3>1 DEF IInv, RxType
      <3>3. QED  BY <1>3, <2>2, <3>2, EnabledIInv DEF ReconfigureUart, Reconfigured
    <2>3. CASE ~MustReconfigure
      BY <1>0, <1>3, <2>1, <2>3, MoveIInv DEF ReconfigureUart
    <2>4. QED  BY <2>2, <2>3
  <1>4. QED  BY <1>1, <1>2, <1>3 DEF Usb

LEMMA StepIInv == IInv /\ [Next]_vars => IInv'
  <1> SUFFICES ASSUME IInv, [Next]_vars PROVE IInv'  OBVIOUS
  <1>1. CASE UNCHANGED vars
    BY <1>1, QuietIInv DEF vars, rx, control, IInv, RxType
  <1>2. CASE Environment  BY <1>2, EnvironmentIInv
  <1>3. CASE Uart  BY <1>3, UartIInv
  <1>4. CASE Usb  BY <1>4, UsbIInv
  <1>5. CASE Drain("idle")  BY <1>5, DrainIInv DEF Drainers
  <1>6. QED  BY <1>1, <1>2, <1>3, <1>4, <1>5 DEF Next

(* The stopped RX interrupt is never forgotten, whatever the sizes of the  *)
(* queue and the FIFO, and however idle and the USB interrupt share the    *)
(* draining of the queue.                                                  *)
THEOREM StoppedRx == Spec => []StoppedOnlyWhileFull
  <1>1. IInv => StoppedOnlyWhileFull  BY DEF IInv
  <1>2. QED  BY <1>1, InitIInv, StepIInv, PTL DEF Spec
-----------------------------------------------------------------------------
(* Moving a byte from one queue to the next leaves the bytes in flight as  *)
(* they are.                                                               *)
LEMMA Shift ==
  ASSUME NEW a \in Seq(Nat), NEW b \in Seq(Nat), b # <<>>
  PROVE  Append(a, Head(b)) \o Tail(b) = a \o b
  <1>1. /\ Append(a, Head(b)) \o Tail(b) \in Seq(Nat) /\ a \o b \in Seq(Nat)
        /\ Len(Append(a, Head(b)) \o Tail(b)) = Len(a \o b)
    OBVIOUS
  <1>2. \A i \in 1 .. Len(a \o b) : (Append(a, Head(b)) \o Tail(b))[i] = (a \o b)[i]
    OBVIOUS
  <1>3. QED  BY <1>1, <1>2, SeqEqual

LEMMA Front ==
  ASSUME NEW a \in Seq(Nat), NEW b \in Seq(Nat), a # <<>>
  PROVE  Head(a \o b) = Head(a) /\ Tail(a \o b) = Tail(a) \o b /\ a \o b # <<>>
  <1>1. Head(a \o b) = Head(a) /\ a \o b # <<>>  OBVIOUS
  <1>2. /\ Tail(a \o b) \in Seq(Nat) /\ Tail(a) \o b \in Seq(Nat)
        /\ Len(Tail(a \o b)) = Len(Tail(a) \o b)
    OBVIOUS
  <1>3. \A i \in 1 .. Len(Tail(a \o b)) : Tail(a \o b)[i] = (Tail(a) \o b)[i]  OBVIOUS
  <1>4. QED  BY <1>1, <1>2, <1>3, SeqEqual

LEMMA Back ==
  ASSUME NEW a \in Seq(Nat), NEW b \in Seq(Nat), NEW x \in Nat
  PROVE  a \o Append(b, x) = Append(a \o b, x)
  <1>1. /\ a \o Append(b, x) \in Seq(Nat) /\ Append(a \o b, x) \in Seq(Nat)
        /\ Len(a \o Append(b, x)) = Len(Append(a \o b, x))
    OBVIOUS
  <1>2. \A i \in 1 .. Len(a \o Append(b, x)) : (a \o Append(b, x))[i] = Append(a \o b, x)[i]
    OBVIOUS
  <1>3. QED  BY <1>1, <1>2, SeqEqual

LEMMA Cut ==
  ASSUME NEW a \in Seq(Nat), NEW b \in Seq(Nat)
  PROVE  a = SubSeq(a \o b, 1, Len(a)) /\ b = SubSeq(a \o b, Len(a) + 1, Len(a \o b))
  <1>1. a = SubSeq(a \o b, 1, Len(a))  OBVIOUS
  <1>2. /\ SubSeq(a \o b, Len(a) + 1, Len(a \o b)) \in Seq(Nat)
        /\ Len(SubSeq(a \o b, Len(a) + 1, Len(a \o b))) = Len(b)
    OBVIOUS
  <1>3. \A i \in 1 .. Len(b) : SubSeq(a \o b, Len(a) + 1, Len(a \o b))[i] = b[i]  BY SMTT(30)
  <1>4. QED  BY <1>1, <1>2, <1>3, SeqEqual

(* The same for the three queues of a direction, a the one nearest to its  *)
(* end and c the one nearest to its beginning.                             *)
LEMMA QueueMoves ==
  ASSUME NEW a \in Seq(Nat), NEW b \in Seq(Nat), NEW c \in Seq(Nat)
  PROVE  /\ \A x \in Nat : a \o b \o Append(c, x) = Append(a \o b \o c, x)
         /\ b # <<>> => Append(a, Head(b)) \o Tail(b) \o c = a \o b \o c
         /\ c # <<>> => a \o Append(b, Head(c)) \o Tail(c) = a \o b \o c
         /\ a # <<>> => /\ Head(a \o b \o c) = Head(a) /\ a \o b \o c # <<>>
                        /\ Tail(a \o b \o c) = Tail(a) \o b \o c
  <1>1. a \o b \in Seq(Nat)  OBVIOUS
  <1>2. \A x \in Nat : a \o b \o Append(c, x) = Append(a \o b \o c, x)
    BY <1>1, Back
  <1>3. b # <<>> => Append(a, Head(b)) \o Tail(b) \o c = a \o b \o c
    BY Shift
  <1>4. ASSUME c # <<>> PROVE a \o Append(b, Head(c)) \o Tail(c) = a \o b \o c
    <2>1. Head(c) \in Nat  BY <1>4
    <2>2. a \o Append(b, Head(c)) = Append(a \o b, Head(c))  BY <2>1, Back
    <2>3. QED  BY <1>1, <1>4, <2>2, Shift
  <1>5. ASSUME a # <<>>
        PROVE  /\ Head(a \o b \o c) = Head(a) /\ a \o b \o c # <<>>
               /\ Tail(a \o b \o c) = Tail(a) \o b \o c
    <2>1. Head(a \o b) = Head(a) /\ Tail(a \o b) = Tail(a) \o b /\ a \o b # <<>>
      BY <1>5, Front
    <2>2. /\ Head(a \o b \o c) = Head(a \o b) /\ a \o b \o c # <<>>
          /\ Tail(a \o b \o c) = Tail(a \o b) \o c
      BY <1>1, <2>1, Front
    <2>3. QED  BY <2>1, <2>2
  <1>6. QED  BY <1>2, <1>3, <1>4, <1>5

(* A FIFO that is flushed is an end of what is in flight.                  *)
LEMMA FlushRx ==
  ASSUME NEW a \in Seq(Nat), NEW b \in Seq(Nat), NEW c \in Seq(Nat)
  PROVE  \E i \in 1 .. Len(a \o b \o c) + 1, j \in 0 .. Len(a \o b \o c) :
            a \o b \o <<>> = SubSeq(a \o b \o c, i, j)
  <1>1. a \o b \in Seq(Nat) /\ Len(a \o b) \in 0 .. Len(a \o b \o c)
        /\ 1 \in 1 .. Len(a \o b \o c) + 1
    OBVIOUS
  <1>2. a \o b \o <<>> = a \o b  BY <1>1
  <1>3. a \o b = SubSeq(a \o b \o c, 1, Len(a \o b))  BY <1>1, Cut
  <1>4. QED  BY <1>1, <1>2, <1>3

LEMMA FlushTx ==
  ASSUME NEW a \in Seq(Nat), NEW b \in Seq(Nat), NEW c \in Seq(Nat)
  PROVE  \E i \in 1 .. Len(a \o b \o c) + 1, j \in 0 .. Len(a \o b \o c) :
            <<>> \o b \o c = SubSeq(a \o b \o c, i, j)
  <1>1. b \o c \in Seq(Nat) /\ <<>> \o b \o c = b \o c  OBVIOUS
  <1>2. a \o b \o c = a \o (b \o c)  BY SMTT(30), ConcatAssociative
  <1>3. b \o c = SubSeq(a \o b \o c, Len(a) + 1, Len(a \o b \o c))  BY SMTT(30), <1>1, <1>2, Cut
  <1>4. Len(a) + 1 \in 1 .. Len(a \o b \o c) + 1 /\ Len(a \o b \o c) \in 0 .. Len(a \o b \o c)
    OBVIOUS
  <1>5. QED  BY <1>1, <1>3, <1>4

(* A byte dropped from the FIFO is one dropped from what is in flight.     *)
LEMMA DropRx ==
  ASSUME NEW a \in Seq(Nat), NEW b \in Seq(Nat), NEW c \in Seq(Nat), c # <<>>
  PROVE  \E i \in 1 .. Len(a \o b \o c) :
            /\ (a \o b \o c)[i] = Head(c)
            /\ a \o b \o Tail(c)
                 = SubSeq(a \o b \o c, 1, i - 1) \o SubSeq(a \o b \o c, i + 1, Len(a \o b \o c))
  <1> DEFINE s == a \o b \o c
             i == Len(a \o b) + 1
  <1>1. /\ a \o b \in Seq(Nat) /\ Head(c) \in Nat /\ Tail(c) \in Seq(Nat)
        /\ Len(a \o b) \in Nat /\ s \in Seq(Nat)
    OBVIOUS
  <1>2. Append(a \o b, Head(c)) \o Tail(c) = s  BY <1>1, Shift
  <1>3. /\ Append(a \o b, Head(c)) \in Seq(Nat)
        /\ Len(Append(a \o b, Head(c))) = i
    BY <1>1
  <1>4. a \o b = SubSeq(s, 1, Len(a \o b))  BY <1>1, Cut
  <1>5. Tail(c) = SubSeq(s, i + 1, Len(s))
    <2>1. Tail(c) = SubSeq(Append(a \o b, Head(c)) \o Tail(c),
                           Len(Append(a \o b, Head(c))) + 1,
                           Len(Append(a \o b, Head(c)) \o Tail(c)))
      BY <1>1, <1>3, Cut
    <2>2. QED  BY <2>1, <1>2, <1>3
  <1>6. i \in 1 .. Len(s) /\ s[i] = Head(c)
    <2>1. Len(s) = Len(a \o b) + Len(c) /\ Len(c) \in Nat /\ Len(c) >= 1  BY <1>1
    <2>2. i \in 1 .. Len(s)  BY <1>1, <2>1
    <2>3. s[i] = c[1]  BY SMTT(30), <1>1, <2>1
    <2>4. QED  BY <2>2, <2>3
  <1>7. i - 1 = Len(a \o b)  BY <1>1
  <1>8. a \o b \o Tail(c) = SubSeq(s, 1, i - 1) \o SubSeq(s, i + 1, Len(s))
    BY <1>4, <1>5, <1>7
  <1>9. QED  BY <1>6, <1>8

LEMMA FlushNone ==
  ASSUME NEW s \in Seq(Nat)
  PROVE  \E i \in 1 .. Len(s) + 1, j \in 0 .. Len(s) : s = SubSeq(s, i, j)
  <1>1. s = SubSeq(s, 1, Len(s)) /\ 1 \in 1 .. Len(s) + 1 /\ Len(s) \in 0 .. Len(s)  OBVIOUS
  <1>2. QED  BY <1>1
-----------------------------------------------------------------------------
(* The bytes of a direction are numbers; bounds play no part.              *)
RxBytes == line \in Nat /\ rxFifo \in Seq(Nat) /\ rxQueue \in Seq(Nat) /\ usbIn \in Seq(Nat)
TxBytes == sent \in Nat /\ usbOut \in Seq(Nat) /\ txQueue \in Seq(Nat) /\ txFifo \in Seq(Nat)

RxKept == RxBytes' /\ [Rx!ChannelNext]_(Rx!channelVars)
TxKept == TxBytes' /\ [Tx!ChannelNext]_(Tx!channelVars)

LEMMA ChannelsInit == Init => RxBytes /\ TxBytes /\ Rx!ChannelInit /\ Tx!ChannelInit
  <1> SUFFICES ASSUME Init PROVE RxBytes /\ TxBytes /\ Rx!ChannelInit /\ Tx!ChannelInit  OBVIOUS
  <1>1. RxBytes /\ TxBytes  BY DEF Init, RxBytes, TxBytes
  <1>2. RxInFlight = <<>> /\ TxInFlight = <<>>  BY DEF Init, RxInFlight, TxInFlight
  <1>3. QED  BY <1>1, <1>2 DEF Init, Rx!ChannelInit, Tx!ChannelInit

(* A step that has nothing to do with a direction.                         *)
LEMMA RxQuiet == ASSUME RxBytes, UNCHANGED <<rx, config>> PROVE RxKept
  BY DEF RxKept, RxBytes, rx, marks, RxInFlight, Rx!channelVars

LEMMA TxQuiet == ASSUME TxBytes, UNCHANGED <<tx, config>> PROVE TxKept
  BY DEF TxKept, TxBytes, tx, TxInFlight, Tx!channelVars

LEMMA LineByteRx == ASSUME RxBytes, LineByte PROVE RxKept
  <1>1. /\ line' = line + 1 /\ line' \in Nat
        /\ UNCHANGED <<rxQueue, usbIn, rxGot, config>>
    BY DEF LineByte, RxBytes, codings
  <1>2. CASE rxFifo' = Append(rxFifo, line') /\ rxMarked' \in {rxMarked, rxMarked \cup {line'}}
    <2>1. rxFifo' \in Seq(Nat)  BY <1>1, <1>2 DEF RxBytes
    <2>2. RxInFlight' = Append(RxInFlight, line')
      BY SMTT(30), <1>1, <1>2, QueueMoves DEF RxInFlight, RxBytes
    <2>3. QED  BY <1>1, <1>2, <2>1, <2>2 DEF RxKept, RxBytes, Rx!ChannelNext, Rx!Put
  <1>3. CASE Len(rxFifo) >= FifoRoom /\ UNCHANGED <<rxFifo, rxMarked>>
    <2>1. RxInFlight' = RxInFlight  BY <1>1, <1>3 DEF RxInFlight
    <2>2. FifoRoom \in Nat \ {0} /\ Len(rxFifo) \in Nat /\ Len(rxFifo) >= FifoRoom
      BY <1>3, RoomAssumption DEF RxBytes
    <2>3. Len(RxInFlight) >= FifoRoom /\ FifoRoom > 0
      BY <2>2 DEF RxInFlight, RxBytes
    <2>4. QED  BY <1>1, <1>3, <2>1, <2>3 DEF RxKept, RxBytes, Rx!ChannelNext, Rx!Overrun
  <1>4. QED  BY <1>2, <1>3 DEF LineByte

LEMMA HostReadRx == ASSUME RxBytes, HostRead PROVE RxKept
  <1>1. /\ usbIn # <<>> /\ rxGot' = Append(rxGot, Head(usbIn)) /\ usbIn' = Tail(usbIn)
        /\ usbIn' \in Seq(Nat) /\ UNCHANGED <<line, rxFifo, rxQueue, rxMarked, config>>
    BY DEF HostRead, RxBytes, codings, marks
  <1>2. /\ RxInFlight # <<>> /\ Head(usbIn) = Head(RxInFlight)
        /\ RxInFlight' = Tail(RxInFlight)
    <2>1. /\ Head(usbIn \o rxQueue \o rxFifo) = Head(usbIn) /\ usbIn \o rxQueue \o rxFifo # <<>>
          /\ Tail(usbIn \o rxQueue \o rxFifo) = Tail(usbIn) \o rxQueue \o rxFifo
      BY SMTT(30), <1>1, QueueMoves DEF RxBytes
    <2>2. QED  BY <1>1, <2>1 DEF RxInFlight
  <1>3. QED  BY <1>1, <1>2 DEF RxKept, RxBytes, Rx!ChannelNext, Rx!Get

LEMMA UartRx == ASSUME RxBytes, Uart PROVE RxKept
  <1>1. UNCHANGED <<line, usbIn, rxGot, config>>
    BY DEF Uart, UartIrq, UartIrqByte, rx, codings
  <1>2. CASE UNCHANGED <<rxFifo, rxQueue, rxMarked>>
    BY <1>1, <1>2 DEF RxKept, RxBytes, RxInFlight, Rx!channelVars
  <1>3. CASE /\ rxFifo # <<>> /\ rxQueue' = Append(rxQueue, Head(rxFifo)) /\ rxFifo' = Tail(rxFifo)
             /\ rxMarked' = rxMarked
    <2>1. rxQueue' \in Seq(Nat) /\ rxFifo' \in Seq(Nat)  BY <1>3 DEF RxBytes
    <2>2. RxInFlight' = RxInFlight
      BY <1>1, <1>3, QueueMoves DEF RxInFlight, RxBytes
    <2>3. RxBytes'  BY <1>1, <2>1 DEF RxBytes
    <2>4. UNCHANGED Rx!channelVars  BY <1>1, <1>3, <2>2 DEF Rx!channelVars
    <2>5. QED  BY <2>3, <2>4 DEF RxKept
  <1>4. CASE rxFifo # <<>> /\ Head(rxFifo) \in rxMarked /\ RefuseByte /\ rxQueue' = rxQueue
    <2>0. usbIn \in Seq(Nat) /\ rxQueue \in Seq(Nat) /\ rxFifo \in Seq(Nat)  BY DEF RxBytes
    <2>1. rxFifo' = Tail(rxFifo) /\ rxMarked' = rxMarked \ {Head(rxFifo)}
      BY <1>4 DEF RefuseByte
    <2>2. rxFifo' \in Seq(Nat)  BY <1>4, <2>0, <2>1
    <2>3. RxInFlight' = usbIn \o rxQueue \o Tail(rxFifo)  BY <1>1, <1>4, <2>1 DEF RxInFlight
    <2>4. PICK i \in 1 .. Len(RxInFlight) :
            /\ RxInFlight[i] = Head(rxFifo)
            /\ RxInFlight' = SubSeq(RxInFlight, 1, i - 1)
                               \o SubSeq(RxInFlight, i + 1, Len(RxInFlight))
      <3>1. \E i \in 1 .. Len(usbIn \o rxQueue \o rxFifo) :
              /\ (usbIn \o rxQueue \o rxFifo)[i] = Head(rxFifo)
              /\ usbIn \o rxQueue \o Tail(rxFifo)
                   = SubSeq(usbIn \o rxQueue \o rxFifo, 1, i - 1)
                       \o SubSeq(usbIn \o rxQueue \o rxFifo, i + 1,
                                 Len(usbIn \o rxQueue \o rxFifo))
        BY <1>4, <2>0, DropRx
      <3>2. QED  BY ONLY <2>3, <3>1, Zenon DEF RxInFlight
    <2>5. Rx!Refuse
      <3>1. RxInFlight[i] \in rxMarked /\ rxMarked' = rxMarked \ {RxInFlight[i]}
        BY <1>4, <2>1, <2>4
      <3>2. QED  BY <1>1, <2>4, <3>1 DEF Rx!Refuse
    <2>6. QED  BY <1>1, <1>4, <2>0, <2>2, <2>5 DEF RxKept, RxBytes, Rx!ChannelNext
  <1>5. CASE Uart /\ uartOn
    BY <1>2, <1>3, <1>4, <1>5 DEF Uart, UartIrq, UartIrqByte, QueueReady
  <1>6. CASE UartIrq
    BY <1>2, <1>6 DEF UartIrq, rx, marks
  <1>7. QED  BY <1>5, <1>6 DEF Uart, UartIrqByte

LEMMA DrainRx == ASSUME RxBytes, NEW c, Drain(c) PROVE RxKept
  <1>1. CASE DrainUartRxQueue(c) /\ rxQueue # <<>> /\ usbIn' = Append(usbIn, Head(rxQueue))
             /\ rxQueue' = Tail(rxQueue)
    <2>1. UNCHANGED <<line, rxFifo, rxGot, rxMarked, config>>
      BY <1>1 DEF DrainUartRxQueue, codings, marks
    <2>2. usbIn' \in Seq(Nat) /\ rxQueue' \in Seq(Nat)  BY <1>1 DEF RxBytes
    <2>3. RxInFlight' = RxInFlight
      BY <1>1, <2>1, QueueMoves DEF RxInFlight, RxBytes
    <2>4. QED  BY <2>1, <2>2, <2>3 DEF RxKept, RxBytes, Rx!channelVars
  <1>2. CASE UNCHANGED <<rx, config>>  BY <1>2, RxQuiet
  <1>3. QED
    BY <1>1, <1>2
    DEF Drain, DrainUsbToUartTx, DrainUartTxQueue, DrainUartRxQueue, EnableRxInterrupt, rx, marks, codings

LEMMA ReconfigureRx == ASSUME RxBytes, ReconfigureUart PROVE RxKept
  <1>1. UNCHANGED <<line, rxQueue, usbIn, rxGot>>  BY DEF ReconfigureUart
  <1>2. CASE MustReconfigure
    <2>1. config' # config /\ (rxFifo' = rxFifo \/ rxFifo' = <<>>) /\ rxMarked' \subseteq rxMarked
      BY <1>2 DEF ReconfigureUart, Reconfigured, MustReconfigure, marks
    <2>2. /\ rxFifo' \in Seq(Nat) /\ RxInFlight \in Seq(Nat)
          /\ RxInFlight' = RxInFlight \/ RxInFlight' = usbIn \o rxQueue \o <<>>
      <3>1. rxFifo' \in Seq(Nat) /\ RxInFlight \in Seq(Nat)
        <4>1. <<>> \in Seq(Nat) /\ rxFifo \in Seq(Nat)  BY DEF RxBytes
        <4>2. RxInFlight \in Seq(Nat)  BY DEF RxBytes, RxInFlight
        <4>3. QED  BY <2>1, <4>1, <4>2
      <3>2. CASE rxFifo' = rxFifo  BY <1>1, <3>1, <3>2 DEF RxInFlight
      <3>3. CASE rxFifo' = <<>>  BY <1>1, <3>1, <3>3 DEF RxInFlight
      <3>4. QED  BY <2>1, <3>1, <3>2, <3>3
    <2>3. \E i \in 1 .. Len(RxInFlight) + 1, j \in 0 .. Len(RxInFlight) :
            RxInFlight' = SubSeq(RxInFlight, i, j)
      <3>1. CASE RxInFlight' = RxInFlight  BY <2>2, <3>1, FlushNone
      <3>2. CASE RxInFlight' = usbIn \o rxQueue \o <<>>
        <4>1. usbIn \in Seq(Nat) /\ rxQueue \in Seq(Nat) /\ rxFifo \in Seq(Nat)  BY DEF RxBytes
        <4>2. \E i \in 1 .. Len(RxInFlight) + 1, j \in 0 .. Len(RxInFlight) :
                usbIn \o rxQueue \o <<>> = SubSeq(RxInFlight, i, j)
          BY <4>1, FlushRx DEF RxInFlight
        <4>3. QED  BY <3>2, <4>2
      <3>3. QED  BY <2>2, <3>1, <3>2
    <2>4. QED  BY <1>1, <2>1, <2>2, <2>3 DEF RxKept, RxBytes, Rx!ChannelNext, Rx!Recode
  <1>3. CASE ~MustReconfigure
    BY <1>1, <1>3, RxQuiet DEF ReconfigureUart, rx
  <1>4. QED  BY <1>2, <1>3

LEMMA RxStep == RxBytes /\ [Next]_vars => RxKept
  <1> SUFFICES ASSUME RxBytes, [Next]_vars PROVE RxKept  OBVIOUS
  <1>1. CASE UNCHANGED vars \/ WireByte \/ HostWrite \/ HostSetCoding \/ UsbctrlIrq
    BY <1>1, RxQuiet DEF vars, codings, WireByte, HostWrite, HostSetCoding, UsbctrlIrq
  <1>2. QED
    BY <1>1, LineByteRx, HostReadRx, UartRx, DrainRx, ReconfigureRx DEF Next, Environment, Usb
-----------------------------------------------------------------------------
LEMMA WireByteTx == ASSUME TxBytes, WireByte PROVE TxKept
  <1>1. /\ txFifo # <<>> /\ txGot' = Append(txGot, Head(txFifo)) /\ txFifo' = Tail(txFifo)
        /\ txFifo' \in Seq(Nat) /\ UNCHANGED <<sent, usbOut, txQueue, config>>
    BY DEF WireByte, TxBytes, codings
  <1>2. /\ TxInFlight # <<>> /\ Head(txFifo) = Head(TxInFlight)
        /\ TxInFlight' = Tail(TxInFlight)
    <2>1. /\ Head(txFifo \o txQueue \o usbOut) = Head(txFifo) /\ txFifo \o txQueue \o usbOut # <<>>
          /\ Tail(txFifo \o txQueue \o usbOut) = Tail(txFifo) \o txQueue \o usbOut
      BY SMTT(30), <1>1, QueueMoves DEF TxBytes
    <2>2. QED  BY <1>1, <2>1 DEF TxInFlight
  <1>3. QED  BY <1>1, <1>2 DEF TxKept, TxBytes, Tx!ChannelNext, Tx!Get

LEMMA HostWriteTx == ASSUME TxBytes, HostWrite PROVE TxKept
  <1>1. /\ sent' = sent + 1 /\ sent' \in Nat /\ usbOut' = Append(usbOut, sent')
        /\ UNCHANGED <<txQueue, txFifo, txGot, config>>
    BY DEF HostWrite, TxBytes, codings
  <1>2. usbOut' \in Seq(Nat)  BY <1>1 DEF TxBytes
  <1>3. TxInFlight' = Append(TxInFlight, sent')
    BY SMTT(30), <1>1, QueueMoves DEF TxInFlight, TxBytes
  <1>4. QED  BY <1>1, <1>2, <1>3 DEF TxKept, TxBytes, Tx!ChannelNext, Tx!Put

LEMMA DrainTx == ASSUME TxBytes, NEW c, Drain(c) PROVE TxKept
  <1>1. CASE DrainUsbToUartTx(c) /\ usbOut # <<>> /\ txQueue' = Append(txQueue, Head(usbOut))
             /\ usbOut' = Tail(usbOut)
    <2>1. UNCHANGED <<sent, txFifo, txGot, config>>  BY <1>1 DEF DrainUsbToUartTx, codings
    <2>2. txQueue' \in Seq(Nat) /\ usbOut' \in Seq(Nat)  BY <1>1 DEF TxBytes
    <2>3. TxInFlight' = TxInFlight
      BY <1>1, <2>1, QueueMoves DEF TxInFlight, TxBytes
    <2>4. QED  BY <2>1, <2>2, <2>3 DEF TxKept, TxBytes, Tx!channelVars
  <1>2. CASE DrainUartTxQueue(c) /\ WriteUart
    <2>1. /\ txQueue # <<>> /\ txFifo' = Append(txFifo, Head(txQueue)) /\ txQueue' = Tail(txQueue)
          /\ UNCHANGED <<sent, usbOut, txGot, config>>
      BY <1>2 DEF DrainUartTxQueue, WriteUart, codings
    <2>2. txQueue' \in Seq(Nat) /\ txFifo' \in Seq(Nat)  BY <2>1 DEF TxBytes
    <2>3. TxInFlight' = TxInFlight
      BY <2>1, QueueMoves DEF TxInFlight, TxBytes
    <2>4. QED  BY <2>1, <2>2, <2>3 DEF TxKept, TxBytes, Tx!channelVars
  <1>3. CASE UNCHANGED <<tx, config>>  BY <1>3, TxQuiet
  <1>4. QED
    BY <1>1, <1>2, <1>3
    DEF Drain, DrainUsbToUartTx, DrainUartTxQueue, DrainUartRxQueue, EnableRxInterrupt, tx, codings

LEMMA ReconfigureTx == ASSUME TxBytes, ReconfigureUart PROVE TxKept
  <1>1. UNCHANGED <<sent, usbOut, txQueue, txGot>>  BY DEF ReconfigureUart
  <1>2. CASE MustReconfigure
    <2>1. config' # config /\ (txFifo' = txFifo \/ txFifo' = <<>>)
      BY <1>2 DEF ReconfigureUart, Reconfigured, MustReconfigure
    <2>2. /\ txFifo' \in Seq(Nat) /\ TxInFlight \in Seq(Nat)
          /\ TxInFlight' = TxInFlight \/ TxInFlight' = <<>> \o txQueue \o usbOut
      <3>1. txFifo' \in Seq(Nat) /\ TxInFlight \in Seq(Nat)
        <4>1. <<>> \in Seq(Nat) /\ txFifo \in Seq(Nat)  BY DEF TxBytes
        <4>2. TxInFlight \in Seq(Nat)  BY DEF TxBytes, TxInFlight
        <4>3. QED  BY <2>1, <4>1, <4>2
      <3>2. CASE txFifo' = txFifo  BY <1>1, <3>1, <3>2 DEF TxInFlight
      <3>3. CASE txFifo' = <<>>  BY <1>1, <3>1, <3>3 DEF TxInFlight
      <3>4. QED  BY <2>1, <3>1, <3>2, <3>3
    <2>3. \E i \in 1 .. Len(TxInFlight) + 1, j \in 0 .. Len(TxInFlight) :
            TxInFlight' = SubSeq(TxInFlight, i, j)
      <3>1. CASE TxInFlight' = TxInFlight  BY <2>2, <3>1, FlushNone
      <3>2. CASE TxInFlight' = <<>> \o txQueue \o usbOut
        <4>1. txFifo \in Seq(Nat) /\ txQueue \in Seq(Nat) /\ usbOut \in Seq(Nat)  BY DEF TxBytes
        <4>2. \E i \in 1 .. Len(TxInFlight) + 1, j \in 0 .. Len(TxInFlight) :
                <<>> \o txQueue \o usbOut = SubSeq(TxInFlight, i, j)
          BY <4>1, FlushTx DEF TxInFlight
        <4>3. QED  BY <3>2, <4>2
      <3>3. QED  BY <2>2, <3>1, <3>2
    <2>4. QED  BY <1>1, <2>1, <2>2, <2>3 DEF TxKept, TxBytes, Tx!ChannelNext, Tx!Recode
  <1>3. CASE ~MustReconfigure
    BY <1>1, <1>3, TxQuiet DEF ReconfigureUart, tx
  <1>4. QED  BY <1>2, <1>3

LEMMA TxStep == TxBytes /\ [Next]_vars => TxKept
  <1> SUFFICES ASSUME TxBytes, [Next]_vars PROVE TxKept  OBVIOUS
  <1>1. CASE UNCHANGED vars \/ LineByte \/ HostRead \/ HostSetCoding \/ Uart \/ UsbctrlIrq
    BY <1>1, TxQuiet
    DEF vars, codings, LineByte, HostRead, HostSetCoding, Uart, UartIrq, UartIrqByte, UsbctrlIrq
  <1>2. QED
    BY <1>1, WireByteTx, HostWriteTx, DrainTx, ReconfigureTx DEF Next, Environment, Usb

(* Both directions of the bridge implement ByteChannel, whatever the sizes *)
(* of the queues, the FIFOs and the USB buffers: the firmware repeats and  *)
(* reorders nothing, and loses nothing but the bytes that come with a read *)
(* error and what a new line coding flushes.                               *)
THEOREM BridgeIsChannels == Spec => ChannelsKept
  <1>1. RxBytes /\ [Next]_vars => RxBytes' /\ [Rx!ChannelNext]_(Rx!channelVars)
    BY RxStep DEF RxKept
  <1>2. TxBytes /\ [Next]_vars => TxBytes' /\ [Tx!ChannelNext]_(Tx!channelVars)
    BY TxStep DEF TxKept
  <1>3. QED
    BY <1>1, <1>2, ChannelsInit, PTL DEF Spec, ChannelsKept, Rx!ChannelSpec, Tx!ChannelSpec
=============================================================================
