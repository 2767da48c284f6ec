----------------------------- MODULE UartBridge -----------------------------
(***************************************************************************)
(* The USB-UART bridge of the RP2040 boards: rust-dap-rp/src/bridge.rs and *)
(* its callers in boards/rpi_pico/src/main.rs. The idle loop and the USB   *)
(* interrupt (priority 2) run the same drain loops; the UART interrupt     *)
(* (priority 3) fills the receive queue. A byte is its number on the line. *)
(*                                                                         *)
(* The drain loops hold locks of ceiling 2, which keep the USB interrupt   *)
(* out of a loop of idle, not the UART interrupt.                          *)
(***************************************************************************)
EXTENDS Naturals, Sequences

CONSTANTS
  RxRoom,     \* capacity of the receive queue (UART_RX_QUEUE_SIZE - 1)
  TxRoom,     \* capacity of the transmit queue (UART_TX_QUEUE_SIZE - 1)
  FifoRoom,   \* depth of the UART's FIFOs
  UsbRoom,    \* capacity of the serial port's buffers
  MaxRx,      \* bound: bytes on the receive line
  MaxTx,      \* bound: bytes the host sends
  MaxAsks,    \* bound: line codings the host asks for
  Codings,    \* the line codings
  Supported,  \* those UartConfig::try_from converts
  UsbCoding,  \* the default of the USB serial port ...
  UartCoding  \* ... and that of the UART

ASSUME RoomAssumption == {RxRoom, TxRoom, FifoRoom, UsbRoom} \subseteq Nat \ {0}
ASSUME BoundAssumption == {MaxRx, MaxTx, MaxAsks} \subseteq Nat
ASSUME CodingAssumption == Supported \subseteq Codings /\ {UsbCoding, UartCoding} \subseteq Supported

VARIABLES
  line, rxFifo, rxQueue, usbIn, rxGot,    \* receive: bytes on the line ... read by the host
  sent, usbOut, txQueue, txFifo, txGot,   \* transmit: bytes of the host ... on the wire
  rxMarked,  \* bytes of rxFifo that read() takes off it and reports as an error
  overrun,   \* a byte found the receive FIFO full: the next one stored is marked
  rxIrq,     \* the UART RX interrupt is enabled
  asks,      \* line codings the host has asked for
  coding,    \* usb_serial.line_coding()
  config,    \* uart_config.config
  usbEvent,  \* the USB controller asks for its interrupt
  at,        \* where idle and usbctrl_irq stand
  dequeued,  \* their local dequeued / rx_dequeued
  locked,    \* idle is inside a drain loop
  uartOn     \* uart_irq is running

marks == <<rxMarked, overrun>>
rx == <<line, rxFifo, rxQueue, usbIn, rxGot, marks>>
tx == <<sent, usbOut, txQueue, txFifo, txGot>>
codings == <<asks, coding, config>>
control == <<at, dequeued, locked, uartOn>>
vars == <<rx, tx, rxIrq, codings, usbEvent, control>>

Drainers == {"idle", "usb"}

(* The host has just enumerated the probe. *)
Init ==
  /\ line = 0 /\ rxFifo = <<>> /\ rxQueue = <<>> /\ usbIn = <<>> /\ rxGot = <<>>
  /\ sent = 0 /\ usbOut = <<>> /\ txQueue = <<>> /\ txFifo = <<>> /\ txGot = <<>>
  /\ rxMarked = {} /\ overrun = FALSE
  /\ rxIrq = TRUE
  /\ asks = 0 /\ coding = UsbCoding /\ config = UartCoding
  /\ usbEvent = TRUE
  /\ at = [c \in Drainers |-> IF c = "idle" THEN "usb_to_tx" ELSE "off"]
  /\ dequeued = [c \in Drainers |-> FALSE]
  /\ locked = FALSE /\ uartOn = FALSE
-----------------------------------------------------------------------------
(* The wire and the host. *)

(* A byte arrives, whole or damaged (framing, parity, break); a full FIFO  *)
(* loses it. The first byte stored after that carries the overrun error,   *)
(* although it arrived whole.                                              *)
LineByte ==
  /\ line < MaxRx
  /\ line' = line + 1
  /\ \/ /\ Len(rxFifo) < FifoRoom
        /\ rxFifo' = Append(rxFifo, line')
        /\ \E damaged \in BOOLEAN :
              rxMarked' = IF damaged \/ overrun THEN rxMarked \cup {line'} ELSE rxMarked
        /\ overrun' = FALSE
     \/ /\ Len(rxFifo) >= FifoRoom
        /\ overrun' = TRUE
        /\ UNCHANGED <<rxFifo, rxMarked>>
  /\ UNCHANGED <<rxQueue, usbIn, rxGot, tx, rxIrq, codings, usbEvent, control>>

WireByte ==
  /\ txFifo # <<>>
  /\ txGot' = Append(txGot, Head(txFifo))
  /\ txFifo' = Tail(txFifo)
  /\ UNCHANGED <<rx, sent, usbOut, txQueue, rxIrq, codings, usbEvent, control>>

HostRead ==
  /\ usbIn # <<>>
  /\ rxGot' = Append(rxGot, Head(usbIn))
  /\ usbIn' = Tail(usbIn)
  /\ usbEvent' = TRUE
  /\ UNCHANGED <<line, rxFifo, rxQueue, marks, tx, rxIrq, codings, control>>

HostWrite ==
  /\ sent < MaxTx /\ Len(usbOut) < UsbRoom
  /\ sent' = sent + 1
  /\ usbOut' = Append(usbOut, sent')
  /\ usbEvent' = TRUE
  /\ UNCHANGED <<rx, txQueue, txFifo, txGot, rxIrq, codings, control>>

HostSetCoding ==
  /\ asks < MaxAsks
  /\ asks' = asks + 1
  /\ coding' \in Codings
  /\ usbEvent' = TRUE
  /\ UNCHANGED <<rx, tx, rxIrq, config, control>>
-----------------------------------------------------------------------------
(* uart_irq: on_uart_rx_irq, a byte at a time. *)

UartIrq ==
  /\ ~uartOn /\ rxIrq /\ rxFifo # <<>>
  /\ uartOn' = TRUE
  /\ UNCHANGED <<rx, tx, rxIrq, codings, usbEvent, at, dequeued, locked>>

(* uart_rx_producer.ready() *)
QueueReady == Len(rxQueue) < RxRoom

(* read() returns an error: the byte is off the FIFO and nobody has it. *)
RefuseByte ==
  /\ rxFifo' = Tail(rxFifo)
  /\ rxMarked' = rxMarked \ {Head(rxFifo)}

UartIrqByte ==
  /\ uartOn
  /\ \/ /\ ~QueueReady
        /\ rxIrq' = FALSE
        /\ uartOn' = FALSE
        /\ UNCHANGED <<rxFifo, rxQueue, rxMarked>>
     \/ /\ QueueReady /\ rxFifo # <<>> /\ Head(rxFifo) \in rxMarked
        /\ RefuseByte
        /\ uartOn' = FALSE
        /\ UNCHANGED <<rxQueue, rxIrq>>
     \/ /\ QueueReady /\ rxFifo # <<>> /\ Head(rxFifo) \notin rxMarked
        /\ rxQueue' = IF Len(rxQueue) < RxRoom THEN Append(rxQueue, Head(rxFifo)) ELSE rxQueue
        /\ rxFifo' = Tail(rxFifo)
        /\ UNCHANGED <<rxMarked, rxIrq, uartOn>>
     \/ /\ QueueReady /\ rxFifo = <<>>
        /\ uartOn' = FALSE
        /\ UNCHANGED <<rxIrq, rxFifo, rxQueue, rxMarked>>
  /\ UNCHANGED <<line, usbIn, rxGot, overrun, tx, codings, usbEvent, at, dequeued, locked>>
-----------------------------------------------------------------------------
(* The drain loops of idle and of usbctrl_irq. *)

(* Preemption: the UART interrupt goes first, then the USB interrupt. *)
Runs(c) == ~uartOn /\ (c = "idle" => at["usb"] = "off")

(* Another turn of the loop c is in. *)
Again(c) ==
  /\ locked' = (locked \/ c = "idle")
  /\ UNCHANGED at

(* c leaves its loop, and its lock, for the next one. *)
Leave(c, next) ==
  /\ at' = [at EXCEPT ![c] = next]
  /\ locked' = FALSE

(* usb_bus.poll reported an event. *)
UsbctrlIrq ==
  /\ usbEvent /\ at["usb"] = "off" /\ ~uartOn /\ ~locked
  /\ usbEvent' = FALSE
  /\ at' = [at EXCEPT !["usb"] = "usb_to_tx"]
  /\ UNCHANGED <<rx, tx, rxIrq, codings, dequeued, locked, uartOn>>

(* uart_tx_producer.ready(), without which enqueue(data).unwrap() panics. *)
TxReady == Len(txQueue) < TxRoom

(* drain_usb_to_uart_tx *)
DrainUsbToUartTx(c) ==
  /\ at[c] = "usb_to_tx" /\ Runs(c)
  /\ IF TxReady /\ usbOut # <<>>
     THEN /\ txQueue' = Append(txQueue, Head(usbOut))
          /\ usbOut' = Tail(usbOut)
          /\ Again(c)
     ELSE /\ UNCHANGED <<txQueue, usbOut>>
          /\ Leave(c, "tx_queue")
  /\ UNCHANGED <<rx, sent, txFifo, txGot, rxIrq, codings, usbEvent, dequeued, uartOn>>

(* Mutant of WriteUart: the byte is dequeued although the FIFO was full. *)
WriteUartLossy ==
  /\ txQueue # <<>>
  /\ txQueue' = Tail(txQueue)
  /\ txFifo' = IF Len(txFifo) < FifoRoom THEN Append(txFifo, Head(txQueue)) ELSE txFifo

(* uart.write of the byte peeked, which is then dequeued. *)
WriteUart ==
  /\ txQueue # <<>> /\ Len(txFifo) < FifoRoom
  /\ txQueue' = Tail(txQueue)
  /\ txFifo' = Append(txFifo, Head(txQueue))

(* drain_uart_tx_queue *)
DrainUartTxQueue(c) ==
  /\ at[c] = "tx_queue" /\ Runs(c)
  /\ \/ WriteUart /\ Again(c) /\ UNCHANGED dequeued
     \/ /\ txQueue = <<>> \/ Len(txFifo) = FifoRoom
        /\ UNCHANGED <<txQueue, txFifo>>
        /\ Leave(c, "rx_queue")
        /\ dequeued' = [dequeued EXCEPT ![c] = FALSE]
  /\ UNCHANGED <<rx, sent, usbOut, txGot, rxIrq, codings, usbEvent, uartOn>>

AfterRx(c) == IF c = "idle" THEN "usb_to_tx" ELSE "config"

(* Mutants of AfterDrain: the interrupt is enabled when the queue is empty, *)
(* or left to the USB interrupt.                                           *)
AfterDrainEmpty(c) == IF dequeued[c] /\ rxQueue = <<>> THEN "enable" ELSE AfterRx(c)
AfterDrainUsbOnly(c) == IF dequeued[c] /\ c = "usb" THEN "enable" ELSE AfterRx(c)

(* "restart the UART RX interrupt in case uart_irq stopped it" *)
AfterDrain(c) == IF dequeued[c] THEN "enable" ELSE AfterRx(c)

(* drain_uart_rx_queue *)
DrainUartRxQueue(c) ==
  /\ at[c] = "rx_queue" /\ Runs(c)
  /\ IF rxQueue # <<>> /\ Len(usbIn) < UsbRoom
     THEN /\ usbIn' = Append(usbIn, Head(rxQueue))
          /\ rxQueue' = Tail(rxQueue)
          /\ dequeued' = [dequeued EXCEPT ![c] = TRUE]
          /\ Again(c)
     ELSE /\ UNCHANGED <<usbIn, rxQueue, dequeued>>
          /\ Leave(c, AfterDrain(c))
  /\ UNCHANGED <<line, rxFifo, rxGot, marks, tx, rxIrq, codings, usbEvent, uartOn>>

EnableRxInterrupt(c) ==
  /\ at[c] = "enable" /\ Runs(c)
  /\ rxIrq' = TRUE
  /\ Leave(c, AfterRx(c))
  /\ UNCHANGED <<rx, tx, codings, usbEvent, dequeued, uartOn>>

(* Mutant of Reconfigured: the configuration in effect is not remembered. *)
ReconfiguredForgotten == rxIrq' = TRUE /\ config' = config

(* The part of reconfigure_uart that is state of the firmware. *)
Reconfigured == rxIrq' = TRUE /\ config' = coding

(* Mutant of MustReconfigure: a coding that is not converted is put in     *)
(* effect all the same.                                                    *)
MustReconfigureAny == coding # config

(* UartConfig::try_from(line_coding) is Ok, and not what is in effect. *)
MustReconfigure == coding \in Supported /\ coding # config

(* usbctrl_irq: "Check if the UART transmitter must be re-configured". What *)
(* is in the FIFOs while the UART is off may be lost. enable() refuses a    *)
(* zero rate only, which try_from has refused before.                       *)
ReconfigureUart ==
  /\ at["usb"] = "config" /\ Runs("usb")
  /\ \/ /\ MustReconfigure
        /\ Reconfigured
        /\ \/ rxFifo' = <<>> /\ rxMarked' = {} /\ overrun' = FALSE
           \/ UNCHANGED <<rxFifo, marks>>
        /\ txFifo' \in {txFifo, <<>>}
     \/ /\ ~MustReconfigure
        /\ UNCHANGED <<rxIrq, config, rxFifo, marks, txFifo>>
  /\ Leave("usb", "off")
  /\ UNCHANGED <<line, rxQueue, usbIn, rxGot, sent, usbOut, txQueue, txGot, asks, coding,
                 usbEvent, dequeued, uartOn>>
-----------------------------------------------------------------------------
Environment == LineByte \/ WireByte \/ HostRead \/ HostWrite \/ HostSetCoding

Drain(c) == \/ DrainUsbToUartTx(c) \/ DrainUartTxQueue(c)
            \/ DrainUartRxQueue(c) \/ EnableRxInterrupt(c)

Uart == UartIrq \/ UartIrqByte
Usb == UsbctrlIrq \/ Drain("usb") \/ ReconfigureUart

Next == Environment \/ Uart \/ Usb \/ Drain("idle")

Spec == Init /\ [][Next]_vars

(* Interrupts are taken and return, idle runs whenever nothing else does,  *)
(* the UART sends what is in its FIFO and the host reads its serial port.  *)
Fairness ==
  /\ WF_vars(Uart) /\ WF_vars(Usb) /\ WF_vars(Drain("idle"))
  /\ WF_vars(WireByte) /\ WF_vars(HostRead)

FairSpec == Spec /\ Fairness
-----------------------------------------------------------------------------
Places == {"usb_to_tx", "tx_queue", "rx_queue", "enable", "config", "off"}

(* The type of every variable, with the capacity of every buffer. *)
TypeOK ==
  /\ line \in 0 .. MaxRx /\ sent \in 0 .. MaxTx
  /\ {rxFifo, rxQueue, usbIn, rxGot} \subseteq Seq(1 .. MaxRx)
  /\ {usbOut, txQueue, txFifo, txGot} \subseteq Seq(1 .. MaxTx)
  /\ Len(rxFifo) <= FifoRoom /\ Len(rxQueue) <= RxRoom /\ Len(usbIn) <= UsbRoom
  /\ Len(usbOut) <= UsbRoom /\ Len(txQueue) <= TxRoom /\ Len(txFifo) <= FifoRoom
  /\ rxMarked \subseteq 1 .. MaxRx /\ overrun \in BOOLEAN
  /\ asks \in 0 .. MaxAsks /\ coding \in Codings /\ config \in Supported
  /\ rxIrq \in BOOLEAN /\ usbEvent \in BOOLEAN /\ locked \in BOOLEAN /\ uartOn \in BOOLEAN
  /\ at \in [Drainers -> Places] /\ dequeued \in [Drainers -> BOOLEAN]

(* c has made room in the receive queue and will enable the interrupt. *)
WillEnable(c) == at[c] = "enable" \/ (at[c] = "rx_queue" /\ dequeued[c])

(* A stopped RX interrupt is not forgotten: while it is off, the queue is  *)
(* full, or one of the two drainers is about to enable it. Both may drain  *)
(* at once, and the queue may fill again between their last dequeue and    *)
(* their enabling.                                                         *)
StoppedOnlyWhileFull ==
  ~rxIrq => Len(rxQueue) = RxRoom \/ \E c \in Drainers : WillEnable(c)

RxInFlight == usbIn \o rxQueue \o rxFifo
Rx == INSTANCE ByteChannel WITH
  Room <- FifoRoom, put <- line, flight <- RxInFlight, got <- rxGot, coding <- config, marked <- rxMarked
TxInFlight == txFifo \o txQueue \o usbOut
Tx == INSTANCE ByteChannel WITH
  Room <- 0, put <- sent, flight <- TxInFlight, got <- txGot, coding <- config, marked <- {}

(* Both directions keep the promise of ByteChannel: the host reads the     *)
(* bytes of the line, and the wire carries those of the host, in order and *)
(* once, whoever drains a queue and whenever it is full ("no data loss",   *)
(* doc/verification-2026-07-13.ja.md on the flow control). The firmware    *)
(* drops a byte in two cases only: read() reports an error with it (on an  *)
(* overrun with one that arrived whole), or the line coding changes.       *)
ChannelsKept == Rx!ChannelSpec /\ Tx!ChannelSpec

(* Every byte that made it into the probe leaves it, in both directions:   *)
(* no drainer waits for the other, and the stopped interrupt comes back.   *)
(* ([]<>~P is P ~> ~P.)                                                    *)
InFlight(n, s) == \E i \in 1 .. Len(s) : s[i] = n
BytesMove ==
  /\ \A n \in 1 .. MaxRx : []<>~InFlight(n, RxInFlight)
  /\ \A n \in 1 .. MaxTx : []<>~InFlight(n, TxInFlight)

(* A line coding that the UART supports is put into effect, unless the     *)
(* host asks for another one first; one it does not support never is,      *)
(* and does not undo the one in effect.                                    *)
CodingApplied ==
  /\ \A k \in Supported : []<>(coding = k => config = k)
  /\ [][config' # config => config' \in Supported]_config
=============================================================================
