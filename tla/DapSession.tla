----------------------------- MODULE DapSession -----------------------------
(***************************************************************************)
(* What a probe promises a host that has one request outstanding at a time *)
(* (Packet Count = 1): the responses to that request, each of them once,   *)
(* in order and in packets that are not empty, and nothing else.           *)
(***************************************************************************)
EXTENDS Naturals, Sequences

CONSTANT MaxResponses   \* the most responses a request can ask for

VARIABLES
  asked,  \* requests sent so far
  owed,   \* the responses still owed to the last of them
  read    \* the responses read, in order

sessionVars == <<asked, owed, read>>

SessionInit == asked = 0 /\ owed = <<>> /\ read = <<>>

Ask ==
  /\ owed = <<>>
  /\ asked' = asked + 1
  /\ \E n \in 1 .. MaxResponses : owed' = [i \in 1 .. n |-> <<asked', i>>]
  /\ read' = read

(* The next packet of the answer. *)
Answer ==
  \E k \in 1 .. Len(owed) :
    /\ read' = read \o SubSeq(owed, 1, k)
    /\ owed' = SubSeq(owed, k + 1, Len(owed))
    /\ asked' = asked

(* The session ends before the answer was read. *)
GiveUp ==
  /\ owed' = <<>>
  /\ UNCHANGED <<asked, read>>

SessionNext == Ask \/ Answer \/ GiveUp

SessionSpec == SessionInit /\ [][SessionNext]_sessionVars
=============================================================================
