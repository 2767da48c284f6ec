---------------------------- MODULE ByteChannel ----------------------------
(***************************************************************************)
(* What one direction of the serial bridge promises: the bytes come out    *)
(* once and in the order they went in. A byte may be lost on arrival when  *)
(* at least Room bytes are in flight (Room = 0: never); in flight, one     *)
(* that was marked on arrival may be, and others only while the line       *)
(* coding changes.                                                         *)
(***************************************************************************)
EXTENDS Naturals, Sequences

CONSTANT Room

VARIABLES
  put,     \* the number of bytes put in; byte n is the n-th of them
  flight,  \* the bytes in flight
  got,     \* the bytes taken out
  coding,  \* the line coding in effect
  marked   \* bytes in flight that arrived with an error

channelVars == <<put, flight, got, coding, marked>>

ChannelInit == put = 0 /\ flight = <<>> /\ got = <<>> /\ marked = {}

Put ==
  /\ put' = put + 1
  /\ flight' = Append(flight, put')
  /\ marked' \in {marked, marked \cup {put'}}
  /\ UNCHANGED <<got, coding>>

Overrun ==
  /\ Room > 0 /\ Len(flight) >= Room
  /\ put' = put + 1
  /\ UNCHANGED <<flight, got, coding, marked>>

Get ==
  /\ flight # <<>>
  /\ got' = Append(got, Head(flight))
  /\ flight' = Tail(flight)
  /\ UNCHANGED <<put, coding, marked>>

(* A marked byte is dropped. *)
Refuse ==
  /\ \E i \in 1 .. Len(flight) :
        /\ flight[i] \in marked
        /\ flight' = SubSeq(flight, 1, i - 1) \o SubSeq(flight, i + 1, Len(flight))
        /\ marked' = marked \ {flight[i]}
  /\ UNCHANGED <<put, got, coding>>

(* Changing the coding may drop bytes at either end of the channel. *)
Recode ==
  /\ coding' # coding
  /\ \E a \in 1 .. Len(flight) + 1, b \in 0 .. Len(flight) : flight' = SubSeq(flight, a, b)
  /\ marked' \subseteq marked
  /\ UNCHANGED <<put, got>>

ChannelNext == Put \/ Overrun \/ Get \/ Refuse \/ Recode

ChannelSpec == ChannelInit /\ [][ChannelNext]_channelVars
=============================================================================
