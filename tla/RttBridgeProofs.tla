-------------------------- MODULE RttBridgeProofs --------------------------
(***************************************************************************)
(* The two rings of RTT between a running target and the host, for rings,  *)
(* chunks and queues of every size, and any number of bytes, monitor       *)
(* commands, resets and failing accesses.                                  *)
(***************************************************************************)
EXTENDS RttBridge, Integers, SequenceTheorems, TLAPS

Rings == [wr : Offsets, rd : Offsets, cell : [Offsets -> Nat]]

RingType ==
  /\ up \in Rings /\ down \in Rings /\ desc \in [wr : Offsets, rd : Offsets]
  /\ tx \in Seq(Nat) /\ rx \in Seq(Nat) /\ out \in Seq(Nat) /\ con \in Seq(Nat)
  /\ got \in Seq(Nat) /\ chunk \in Seq(Nat)
  /\ sent \in Nat /\ fed \in Nat /\ total \in Nat /\ errs \in Nat
  /\ Len(tx) <= TxRoom
  /\ pc \notin {"ack", "write", "publish"} => chunk = <<>>
  /\ pc = "idle" => total = 0

(* The bytes the server has read off the up ring and not yet consumed.     *)
Ahead ==
  IF pc = "ack" THEN Len(chunk) ELSE IF pc \in {"print", "consume"} THEN total ELSE 0

(* The last byte that is not in the up ring, or has been read off it.      *)
Low == sent - Used(up) + Ahead

(* The up ring has the bytes written last.                                 *)
Newest ==
  /\ Used(up) <= sent
  /\ \A i \in 1 .. Used(up) : Unread(up)[i] = sent - Used(up) + i

Slot(o, i) == (o + i) % Size

(* The descriptor as it was read is a part of the up ring.                 *)
UpWindow ==
  /\ pc \in {"read", "print", "consume"} => desc.rd = Slot(up.rd, Ahead) /\ Ahead + Used(desc) <= Used(up)
  /\ pc = "read" => desc.rd # desc.wr
  /\ pc = "ack" => desc.rd = up.rd /\ Ahead <= Used(up)

Port == out \o tx
Away == gone \cup Range(con)

UpOrder ==
  /\ \A k \in 1 .. Low : k \in Away \cup Range(Port)
  /\ \A i \in DOMAIN Port : Port[i] > 0 /\ \A k \in 1 .. Port[i] - 1 : k \in Away \cup Range(SubSeq(Port, 1, i - 1))
  /\ errs = 0 =>
       /\ Increasing(Port) /\ Increasing(con)
       /\ Range(Port) \cap Range(con) = {}
       /\ \A i \in DOMAIN Port : Port[i] <= Low
       /\ \A i \in DOMAIN con : con[i] <= Low

UpInv == RingType /\ (~raced => Newest /\ UpWindow /\ UpOrder)

Hand == IF pc \in {"write", "publish"} THEN chunk ELSE <<>>
Stream4 == got \o Unread(down) \o Hand \o rx

DownWindow ==
  /\ pc \in {"write", "publish"} =>
       desc.wr = down.wr /\ Used(down) + Len(chunk) < Size /\ desc.wr + Len(chunk) <= Size
  /\ pc = "publish" => \A i \in 1 .. Len(chunk) : down.cell[desc.wr + i - 1] = chunk[i]

DownOrder ==
  /\ Increasing(Stream4) /\ Range(Stream4) \subseteq 1 .. fed
  /\ errs = 0 => \A k \in 1 .. fed : k \in Range(Stream4) \cup dropped

DownInv == RingType /\ (~raced => DownWindow /\ DownOrder)
-----------------------------------------------------------------------------
(* Offsets in a ring, without the remainders.                              *)
LEMMA SizeFacts == Size \in Nat /\ Size > 1
  BY RoomsAssumption

LEMMA Remainder ==
  ASSUME NEW n \in Nat, n > 0, NEW x \in Nat, x < 2 * n
  PROVE  x % n = (IF x < n THEN x ELSE x - n)
  <1>1. CASE x < n
    <2>1. x \in 0 .. n - 1  BY <1>1
    <2>2. QED  BY <1>1, <2>1
  <1>2. CASE ~(x < n)
    <2>1. x \in n .. 2 * n - 1  BY <1>2
    <2>2. QED  BY <1>2, <2>1
  <1>3. QED  BY <1>1, <1>2

LEMMA SlotIs ==
  ASSUME NEW o \in Offsets, NEW i \in 0 .. Size
  PROVE  Slot(o, i) = (IF o + i < Size THEN o + i ELSE o + i - Size) /\ Slot(o, i) \in Offsets
  <1>1. o + i \in Nat /\ o + i < 2 * Size  BY SizeFacts DEF Offsets
  <1>2. o \in Nat /\ i \in Nat  BY SizeFacts DEF Offsets
  <1>3. \A x \in Nat : x < 2 * Size => x % Size = (IF x < Size THEN x ELSE x - Size)
    BY SizeFacts, Remainder
  <1>4. (o + i) % Size = (IF o + i < Size THEN o + i ELSE (o + i) - Size)
    <2> DEFINE x == o + i
    <2>1. x \in Nat /\ x < 2 * Size  BY <1>1
    <2> HIDE DEF x
    <2>2. x % Size = (IF x < Size THEN x ELSE x - Size)  BY <1>3, <2>1
    <2>3. QED  BY <2>2 DEF x
  <1>5. QED  BY <1>2, <1>4, SizeFacts DEF Slot, Offsets

LEMMA SlotOfSlot ==
  ASSUME NEW o \in Offsets, NEW i \in Nat, NEW j \in Nat, i + j <= Size
  PROVE  Slot(Slot(o, i), j) = Slot(o, i + j)
  <1>1. i \in 0 .. Size /\ j \in 0 .. Size /\ i + j \in 0 .. Size  BY SizeFacts
  <1>2. Slot(o, i) \in Offsets /\ Slot(o, i) = (IF o + i < Size THEN o + i ELSE o + i - Size)
    BY <1>1, SlotIs
  <1>3. Slot(o, i + j) = (IF o + (i + j) < Size THEN o + (i + j) ELSE o + (i + j) - Size)
    BY <1>1, SlotIs
  <1>4. \A p \in Offsets : Slot(p, j) = (IF p + j < Size THEN p + j ELSE p + j - Size)
    BY <1>1, SlotIs
  <1>5. QED  BY <1>1, <1>2, <1>3, <1>4, SizeFacts DEF Offsets

LEMMA UsedIs ==
  ASSUME NEW d, d.wr \in Offsets, d.rd \in Offsets
  PROVE  /\ Used(d) = (IF d.rd <= d.wr THEN d.wr - d.rd ELSE d.wr + Size - d.rd)
         /\ Used(d) \in 0 .. Size - 1
         /\ Slot(d.rd, Used(d)) = d.wr
  <1>1. d.wr + Size - d.rd \in Nat /\ d.wr + Size - d.rd < 2 * Size  BY SizeFacts DEF Offsets
  <1>2. (d.wr + Size - d.rd) % Size =
          (IF d.wr + Size - d.rd < Size THEN d.wr + Size - d.rd ELSE (d.wr + Size - d.rd) - Size)
    BY <1>1, SizeFacts, Remainder
  <1>3. Used(d) = (IF d.rd <= d.wr THEN d.wr - d.rd ELSE d.wr + Size - d.rd)
    BY <1>2, SizeFacts DEF Used, Offsets
  <1>4. Used(d) \in 0 .. Size - 1  BY <1>3, SizeFacts DEF Offsets
  <1>5. Used(d) \in 0 .. Size  BY <1>4, SizeFacts
  <1>6. Slot(d.rd, Used(d)) = (IF d.rd + Used(d) < Size THEN d.rd + Used(d) ELSE d.rd + Used(d) - Size)
    BY <1>5, SlotIs
  <1>7. QED  BY <1>3, <1>4, <1>6, SizeFacts DEF Offsets

(* The other way round: the distance to a slot.                            *)
LEMMA UsedOfSlot ==
  ASSUME NEW d, d.rd \in Offsets, NEW n \in 0 .. Size - 1, d.wr = Slot(d.rd, n)
  PROVE  Used(d) = n
  <1>1. n \in 0 .. Size  BY SizeFacts
  <1>2. d.wr \in Offsets /\ d.wr = (IF d.rd + n < Size THEN d.rd + n ELSE d.rd + n - Size)
    BY <1>1, SlotIs
  <1>3. Used(d) = (IF d.rd <= d.wr THEN d.wr - d.rd ELSE d.wr + Size - d.rd)
    BY <1>2, UsedIs
  <1>4. QED  BY <1>2, <1>3, SizeFacts DEF Offsets

LEMMA FreeIs ==
  ASSUME NEW d, d.wr \in Offsets, d.rd \in Offsets
  PROVE  Free(d) = Size - 1 - Used(d)
  <1>1. d.rd + Size - d.wr - 1 \in Nat /\ d.rd + Size - d.wr - 1 < 2 * Size
    BY SizeFacts DEF Offsets
  <1>2. (d.rd + Size - d.wr - 1) % Size =
          (IF d.rd + Size - d.wr - 1 < Size THEN d.rd + Size - d.wr - 1
           ELSE (d.rd + Size - d.wr - 1) - Size)
    BY <1>1, SizeFacts, Remainder
  <1>3. Used(d) = (IF d.rd <= d.wr THEN d.wr - d.rd ELSE d.wr + Size - d.rd)
    BY UsedIs
  <1>4. QED  BY <1>2, <1>3, SizeFacts DEF Free, Offsets

LEMMA RunIs ==
  ASSUME NEW d, d.wr \in Offsets, d.rd \in Offsets
  PROVE  /\ Run(d) \in Nat /\ Run(d) > 0 /\ d.rd + Run(d) <= Size
         /\ d.wr # d.rd => Run(d) <= Used(d)
  BY SizeFacts, UsedIs DEF Run, Offsets

(* What is unread in a ring.                                               *)
LEMMA MakeSeq ==
  ASSUME NEW n \in Nat, NEW s, DOMAIN s = 1 .. n, \A i \in 1 .. n : s[i] \in Nat,
         s = [i \in 1 .. n |-> s[i]]
  PROVE  s \in Seq(Nat) /\ Len(s) = n
  <1>1. s \in [1 .. n -> Nat]  OBVIOUS
  <1>2. s \in Seq(Nat)  BY <1>1, SeqDef
  <1>3. QED  BY <1>1, <1>2, LenProperties

LEMMA UnreadIs ==
  ASSUME NEW r \in Rings
  PROVE  /\ Unread(r) \in Seq(Nat) /\ Len(Unread(r)) = Used(r) /\ Used(r) \in 0 .. Size - 1
         /\ \A i \in 1 .. Used(r) : Slot(r.rd, i - 1) \in Offsets /\ Unread(r)[i] = r.cell[Slot(r.rd, i - 1)]
  <1>1. r.wr \in Offsets /\ r.rd \in Offsets /\ r.cell \in [Offsets -> Nat]  BY DEF Rings
  <1>2. Used(r) \in 0 .. Size - 1  BY <1>1, UsedIs
  <1>3. ASSUME NEW i \in 1 .. Used(r)
        PROVE  Slot(r.rd, i - 1) \in Offsets /\ (r.rd + i - 1) % Size = Slot(r.rd, i - 1)
    <2>1. i - 1 \in 0 .. Size  BY <1>2, SizeFacts
    <2>2. r.rd + i - 1 = r.rd + (i - 1)  BY <1>1, SizeFacts DEF Offsets
    <2>3. QED  BY <1>1, <2>1, <2>2, SlotIs DEF Slot
  <1>4. DOMAIN Unread(r) = 1 .. Used(r) /\ Unread(r) = [i \in 1 .. Used(r) |-> Unread(r)[i]]
    BY DEF Unread
  <1>5. \A i \in 1 .. Used(r) : Unread(r)[i] = r.cell[Slot(r.rd, i - 1)]
    BY <1>3 DEF Unread
  <1>6. \A i \in 1 .. Used(r) : Unread(r)[i] \in Nat
    BY <1>1, <1>3, <1>5
  <1>7. Unread(r) \in Seq(Nat) /\ Len(Unread(r)) = Used(r)
    <2>1. Used(r) \in Nat  BY <1>2, SizeFacts
    <2>2. QED  BY <1>4, <1>6, <2>1, MakeSeq
  <1>8. QED  BY <1>2, <1>3, <1>5, <1>7

LEMMA FreshIs ==
  ASSUME NEW r \in Rings
  PROVE  Fresh(r) \in Rings /\ Used(Fresh(r)) = 0 /\ Unread(Fresh(r)) = <<>>
  <1>0. 0 \in Offsets  BY SizeFacts DEF Offsets
  <1>1. Fresh(r) \in Rings /\ Fresh(r).wr = 0 /\ Fresh(r).rd = 0
    BY <1>0 DEF Fresh, Rings
  <1>2. Used(Fresh(r)) = 0
    <2>1. Used(Fresh(r)) = 0 - 0  BY <1>0, <1>1, UsedIs
    <2>2. QED  BY <2>1
  <1>3. Unread(Fresh(r)) \in Seq(Nat) /\ Len(Unread(Fresh(r))) = 0  BY <1>1, <1>2, UnreadIs
  <1>4. QED  BY <1>1, <1>2, <1>3, EmptySeq

(* The reader moves n bytes on.                                            *)
LEMMA ReadOff ==
  ASSUME NEW r \in Rings, NEW n \in 0 .. Used(r), NEW q,
         q = [r EXCEPT !.rd = Slot(r.rd, n)]
  PROVE  /\ q \in Rings /\ Used(q) = Used(r) - n
         /\ \A i \in 1 .. Used(r) - n : Unread(q)[i] = Unread(r)[n + i]
  <1>1. r.wr \in Offsets /\ r.rd \in Offsets /\ r.cell \in [Offsets -> Nat]  BY DEF Rings
  <1>2. Used(r) \in 0 .. Size - 1 /\ Slot(r.rd, Used(r)) = r.wr  BY <1>1, UsedIs
  <1>3. n \in 0 .. Size /\ n \in Nat /\ Used(r) - n \in 0 .. Size - 1 /\ Used(r) - n \in Nat
    BY <1>2, SizeFacts
  <1>4. Slot(r.rd, n) \in Offsets  BY <1>1, <1>3, SlotIs
  <1>5. q \in Rings /\ q.wr = r.wr /\ q.rd = Slot(r.rd, n) /\ q.cell = r.cell
    BY <1>4 DEF Rings
  <1>6. Used(q) = Used(r) - n
    <2>1. Slot(q.rd, Used(r) - n) = Slot(r.rd, n + (Used(r) - n))
      <3>1. n + (Used(r) - n) <= Size  BY <1>2, <1>3, SizeFacts
      <3>2. QED  BY <1>1, <1>3, <1>5, <3>1, SlotOfSlot
    <2>2. n + (Used(r) - n) = Used(r)  BY <1>2, <1>3, SizeFacts
    <2>3. q.wr = Slot(q.rd, Used(r) - n)  BY <1>2, <1>5, <2>1, <2>2
    <2>4. QED  BY <1>3, <1>4, <1>5, <2>3, UsedOfSlot
  <1>7. ASSUME NEW i \in 1 .. Used(r) - n
        PROVE  Unread(q)[i] = Unread(r)[n + i]
    <2>1. i - 1 \in Nat /\ n + (i - 1) <= Size /\ n + i \in 1 .. Used(r) /\ n + (i - 1) = (n + i) - 1
      BY <1>2, <1>3, SizeFacts
    <2>2. Slot(q.rd, i - 1) = Slot(r.rd, n + (i - 1))
      BY <1>1, <1>3, <1>5, <2>1, SlotOfSlot
    <2>3. Unread(q)[i] = q.cell[Slot(q.rd, i - 1)]  BY <1>5, <1>6, UnreadIs
    <2>4. Unread(r)[n + i] = r.cell[Slot(r.rd, (n + i) - 1)]  BY <2>1, UnreadIs
    <2>5. QED  BY <1>5, <2>1, <2>2, <2>3, <2>4
  <1>8. QED  BY <1>5, <1>6, <1>7

(* The writer moves n bytes on.                                            *)
LEMMA WriteOn ==
  ASSUME NEW r \in Rings, NEW n \in Nat, Used(r) + n < Size, NEW q \in Rings,
         q.rd = r.rd, q.wr = Slot(r.wr, n),
         \A i \in 1 .. Used(r) : q.cell[Slot(r.rd, i - 1)] = r.cell[Slot(r.rd, i - 1)]
  PROVE  /\ Used(q) = Used(r) + n
         /\ \A i \in 1 .. Used(r) : Unread(q)[i] = Unread(r)[i]
         /\ \A i \in 1 .. n : Unread(q)[Used(r) + i] = q.cell[Slot(r.wr, i - 1)]
  <1>1. r.wr \in Offsets /\ r.rd \in Offsets /\ q.wr \in Offsets  BY DEF Rings
  <1>2. Used(r) \in 0 .. Size - 1 /\ Used(r) \in Nat /\ Slot(r.rd, Used(r)) = r.wr
    BY <1>1, UsedIs, SizeFacts
  <1>3. Used(q) = Used(r) + n
    <2>1. Used(r) + n \in 0 .. Size - 1 /\ Used(r) + n <= Size  BY <1>2, SizeFacts
    <2>2. Slot(Slot(r.rd, Used(r)), n) = Slot(r.rd, Used(r) + n)
      BY <1>1, <1>2, <2>1, SlotOfSlot
    <2>3. q.wr = Slot(q.rd, Used(r) + n)  BY <1>2, <2>2
    <2>4. QED  BY <1>1, <2>1, <2>3, UsedOfSlot
  <1>4. ASSUME NEW i \in 1 .. Used(r)
        PROVE  Unread(q)[i] = Unread(r)[i]
    <2>1. i \in 1 .. Used(q)  BY <1>2, <1>3
    <2>2. Unread(q)[i] = q.cell[Slot(q.rd, i - 1)]  BY <2>1, UnreadIs
    <2>3. Unread(r)[i] = r.cell[Slot(r.rd, i - 1)]  BY UnreadIs
    <2>4. QED  BY <2>2, <2>3
  <1>5. ASSUME NEW i \in 1 .. n
        PROVE  Unread(q)[Used(r) + i] = q.cell[Slot(r.wr, i - 1)]
    <2>1. Used(r) + i \in 1 .. Used(q) /\ i - 1 \in Nat /\ Used(r) + (i - 1) <= Size
          /\ Used(r) + (i - 1) = (Used(r) + i) - 1
      BY <1>2, <1>3, SizeFacts
    <2>2. Unread(q)[Used(r) + i] = q.cell[Slot(q.rd, (Used(r) + i) - 1)]  BY <2>1, UnreadIs
    <2>3. Slot(Slot(r.rd, Used(r)), i - 1) = Slot(r.rd, Used(r) + (i - 1))
      BY <1>1, <1>2, <2>1, SlotOfSlot
    <2>4. QED  BY <1>2, <2>1, <2>2, <2>3
  <1>6. QED  BY <1>3, <1>4, <1>5

(* The slots of unread bytes and the slots behind them are distinct.       *)
LEMMA Apart ==
  ASSUME NEW r \in Rings, NEW i \in 1 .. Used(r), NEW n \in 0 .. Size - 1, Used(r) + n < Size
  PROVE  Slot(r.rd, i - 1) # Slot(r.wr, n)
  <1>1. r.wr \in Offsets /\ r.rd \in Offsets  BY DEF Rings
  <1>2. /\ Used(r) = (IF r.rd <= r.wr THEN r.wr - r.rd ELSE r.wr + Size - r.rd)
        /\ Used(r) \in 0 .. Size - 1
    BY <1>1, UsedIs
  <1>3. i - 1 \in 0 .. Size /\ n \in 0 .. Size  BY <1>2, SizeFacts
  <1>4. Slot(r.rd, i - 1) = (IF r.rd + (i - 1) < Size THEN r.rd + (i - 1) ELSE r.rd + (i - 1) - Size)
    BY <1>1, <1>3, SlotIs
  <1>5. Slot(r.wr, n) = (IF r.wr + n < Size THEN r.wr + n ELSE r.wr + n - Size)
    BY <1>1, <1>3, SlotIs
  <1>6. QED  BY <1>1, <1>2, <1>3, <1>4, <1>5, SizeFacts DEF Offsets
-----------------------------------------------------------------------------
(* The types.                                                              *)
LEMMA InSlots ==
  ASSUME NEW x \in Nat
  PROVE  x % Size \in Offsets
  <1>1. \A n \in Nat : n > 0 => x % n \in 0 .. n - 1  OBVIOUS
  <1>2. QED  BY <1>1, SizeFacts DEF Offsets

LEMMA BytesIs ==
  ASSUME NEW r \in Rings, NEW o \in Offsets, NEW n \in Nat
  PROVE  /\ Bytes(r, o, n) \in Seq(Nat) /\ Len(Bytes(r, o, n)) = n
         /\ \A i \in 1 .. n : o + i - 1 < Size =>
              o + i - 1 \in Offsets /\ Bytes(r, o, n)[i] = r.cell[o + i - 1]
  <1>1. r.cell \in [Offsets -> Nat]  BY DEF Rings
  <1>2. ASSUME NEW i \in 1 .. n
        PROVE  /\ Bytes(r, o, n)[i] \in Nat
               /\ o + i - 1 < Size =>
                    o + i - 1 \in Offsets /\ Bytes(r, o, n)[i] = r.cell[o + i - 1]
    <2>1. o \in Nat /\ o + i - 1 = o + (i - 1) /\ i - 1 \in Nat  BY SizeFacts DEF Offsets
    <2>2. Bytes(r, o, n)[i] = At(r, o + i - 1)  BY DEF Bytes
    <2>3. CASE o + i - 1 < Size
      <3>1. o + i - 1 \in Offsets  BY <2>1, <2>3, SizeFacts DEF Offsets
      <3>2. At(r, o + i - 1) = r.cell[o + i - 1]  BY <2>3 DEF At
      <3>3. r.cell[o + i - 1] \in Nat  BY <1>1, <3>1
      <3>4. QED  BY <2>2, <3>1, <3>2, <3>3
    <2>4. CASE ~(o + i - 1 < Size)
      BY <2>2, <2>4 DEF At
    <2>5. QED  BY <2>3, <2>4
  <1>3. DOMAIN Bytes(r, o, n) = 1 .. n /\ Bytes(r, o, n) = [i \in 1 .. n |-> Bytes(r, o, n)[i]]
    BY DEF Bytes
  <1>4. Bytes(r, o, n) \in Seq(Nat) /\ Len(Bytes(r, o, n)) = n
    BY <1>2, <1>3, MakeSeq
  <1>5. QED  BY <1>2, <1>4

LEMMA AppendIs ==
  ASSUME NEW s \in Seq(Nat), NEW x \in Nat
  PROVE  /\ Append(s, x) \in Seq(Nat) /\ Len(Append(s, x)) = Len(s) + 1
         /\ \A i \in 1 .. Len(s) : Append(s, x)[i] = s[i]
         /\ Append(s, x)[Len(s) + 1] = x
         /\ Append(s, x) = s \o <<x>>
  OBVIOUS

LEMMA HeadTailIs ==
  ASSUME NEW s \in Seq(Nat), s # <<>>
  PROVE  /\ Head(s) \in Nat /\ Tail(s) \in Seq(Nat) /\ Len(s) \in Nat /\ Len(s) > 0
         /\ Len(Tail(s)) = Len(s) - 1 /\ Head(s) = s[1]
         /\ \A i \in 1 .. Len(s) - 1 : Tail(s)[i] = s[i + 1]
         /\ s = <<Head(s)>> \o Tail(s)
  <1>1. /\ Head(s) \in Nat /\ Tail(s) \in Seq(Nat) /\ Len(s) \in Nat /\ Len(s) > 0
        /\ Len(Tail(s)) = Len(s) - 1 /\ Head(s) = s[1]
        /\ \A i \in 1 .. Len(s) - 1 : Tail(s)[i] = s[i + 1]
    OBVIOUS
  <1>2. s = <<Head(s)>> \o Tail(s)
    <2>1. <<Head(s)>> \in Seq(Nat) /\ Len(<<Head(s)>>) = 1 /\ <<Head(s)>>[1] = Head(s)
      BY <1>1
    <2> DEFINE t == <<Head(s)>> \o Tail(s)
    <2>2. /\ t \in Seq(Nat) /\ Len(t) = 1 + Len(Tail(s))
          /\ \A i \in 1 .. 1 + Len(Tail(s)) :
               t[i] = IF i <= 1 THEN <<Head(s)>>[i] ELSE Tail(s)[i - 1]
      BY <1>1, <2>1, ConcatProperties
    <2> HIDE DEF t
    <2>3. \A i \in 1 .. Len(s) : s[i] = t[i]
      BY <1>1, <2>1, <2>2
    <2>4. Len(s) = Len(t)  BY <1>1, <2>2
    <2>5. s = t  BY <1>1, <2>2, <2>3, <2>4, SeqEqual
    <2>6. QED  BY <2>5 DEF t
  <1>3. QED  BY <1>1, <1>2

(* A queue that is cut in two.                                             *)
LEMMA CutIs ==
  ASSUME NEW s \in Seq(Nat), NEW n \in 0 .. Len(s)
  PROVE  /\ SubSeq(s, 1, n) \in Seq(Nat) /\ Len(SubSeq(s, 1, n)) = n
         /\ SubSeq(s, n + 1, Len(s)) \in Seq(Nat)
         /\ SubSeq(s, 1, n) \o SubSeq(s, n + 1, Len(s)) = s
  <1>1. Len(s) \in Nat /\ n \in Nat  BY LenProperties
  <1>2. \A i \in 1 .. Len(s) : s[i] \in Nat  BY ElementOfSeq
  <1>3. SubSeq(s, 1, n) \in Seq(Nat) /\ Len(SubSeq(s, 1, n)) = IF 1 <= n THEN n - 1 + 1 ELSE 0
    <2>1. \A i \in 1 .. n : s[i] \in Nat  BY <1>1, <1>2
    <2>2. 1 \in Int /\ n \in Int  BY <1>1
    <2>3. QED  BY <2>1, <2>2, SubSeqProperties
  <1>4. SubSeq(s, n + 1, Len(s)) \in Seq(Nat)
    <2>1. \A i \in n + 1 .. Len(s) : s[i] \in Nat  BY <1>1, <1>2
    <2>2. n + 1 \in Int /\ Len(s) \in Int  BY <1>1
    <2>3. QED  BY <2>1, <2>2, SubSeqProperties
  <1>5. SubSeq(s, 1, n) \o SubSeq(s, n + 1, Len(s)) = s
    <2>1. 1 \in 1 .. Len(s) + 1 /\ n \in 1 - 1 .. Len(s) /\ Len(s) \in n .. Len(s)  BY <1>1
    <2>2. SubSeq(s, 1, n) \o SubSeq(s, n + 1, Len(s)) = SubSeq(s, 1, Len(s))
      BY <2>1, ConcatAdjacentSubSeq
    <2>3. QED  BY <2>2, SubSeqFull
  <1>6. Len(SubSeq(s, 1, n)) = n  BY <1>1, <1>3
  <1>7. QED  BY <1>3, <1>4, <1>5, <1>6

LEMMA WroteIs ==
  ASSUME NEW r \in Rings, NEW v \in Nat, NEW q,
         q = [wr |-> (r.wr + 1) % Size, rd |-> r.rd, cell |-> [r.cell EXCEPT ![r.wr] = v]]
  PROVE  /\ q \in Rings /\ q.rd = r.rd /\ q.wr = Slot(r.wr, 1) /\ q.cell[r.wr] = v
         /\ \A o \in Offsets : o # r.wr => q.cell[o] = r.cell[o]
  <1>1. r.wr \in Offsets /\ r.rd \in Offsets /\ r.cell \in [Offsets -> Nat]  BY DEF Rings
  <1>2. r.wr + 1 \in Nat  BY <1>1, SizeFacts DEF Offsets
  <1>3. (r.wr + 1) % Size \in Offsets  BY <1>2, InSlots
  <1>4. [r.cell EXCEPT ![r.wr] = v] \in [Offsets -> Nat]  BY <1>1
  <1>5. QED  BY <1>1, <1>3, <1>4 DEF Rings, Slot

LEMMA InitType == Init => RingType
  <1> SUFFICES ASSUME Init PROVE RingType  OBVIOUS
  <1>1. PICK o \in Offsets : up = [wr |-> o, rd |-> o, cell |-> [i \in Offsets |-> 0]]
    BY DEF Init
  <1>2. up \in Rings  BY <1>1 DEF Rings
  <1>3. down \in Rings  BY <1>2, FreshIs DEF Init
  <1>4. desc \in [wr : Offsets, rd : Offsets]
    <2>1. 0 \in Offsets  BY SizeFacts DEF Offsets
    <2>2. QED  BY <2>1 DEF Init, NoDesc
  <1>5. TxRoom \in Nat  BY RoomsAssumption
  <1>6. QED  BY <1>2, <1>3, <1>4, <1>5, EmptySeq DEF Init, RingType

LEMMA TypeKept ==
  ASSUME RingType,
         UNCHANGED <<up, down, desc, chunk, total, tx, rx, out, con, got, sent, fed, pc>>,
         errs' \in Nat
  PROVE  RingType'
  BY DEF RingType

LEMMA TypeTarget ==
  ASSUME RingType, TargetWrites \/ TargetReads \/ TargetReset
  PROVE  RingType'
  <1>1. up \in Rings /\ down \in Rings /\ sent \in Nat /\ got \in Seq(Nat)  BY DEF RingType
  <1>2. CASE TargetWrites
    <2>1. up' \in Rings
      <3>1. sent + 1 \in Nat  BY <1>1
      <3>2. up' = [wr |-> (up.wr + 1) % Size, rd |-> up.rd, cell |-> [up.cell EXCEPT ![up.wr] = sent + 1]]
        BY <1>1, <1>2 DEF TargetWrites, Rings
      <3>3. QED  BY <1>1, <3>1, <3>2, WroteIs
    <2>2. sent' \in Nat /\ UNCHANGED <<down, desc, chunk, total, tx, rx, out, con, got, fed, pc, errs>>
      BY <1>1, <1>2 DEF TargetWrites, queues, work, host, counts
    <2>3. QED  BY <2>1, <2>2 DEF RingType
  <1>3. CASE TargetReads
    <2>0. down.rd \in Offsets  BY <1>1 DEF Rings
    <2>1. down.rd + 1 \in Nat  BY <2>0, SizeFacts DEF Offsets
    <2>2. down' = [down EXCEPT !.rd = (down.rd + 1) % Size]  BY <1>3 DEF TargetReads
    <2>3. down' \in Rings  BY <1>1, <2>1, <2>2, InSlots DEF Rings
    <2>4. down.cell[down.rd] \in Nat  BY <1>1 DEF Rings
    <2>5. got' \in Seq(Nat)  BY <1>1, <1>3, <2>4, AppendIs DEF TargetReads
    <2>6. UNCHANGED <<up, desc, chunk, total, tx, rx, out, con, sent, fed, pc, errs>>
      BY <1>3 DEF TargetReads, queues, work, host, counts
    <2>7. QED  BY <2>3, <2>5, <2>6 DEF RingType
  <1>4. CASE TargetReset
    <2>1. up' \in Rings /\ down' \in Rings  BY <1>1, <1>4, FreshIs DEF TargetReset
    <2>2. UNCHANGED <<desc, chunk, total, tx, rx, out, con, got, sent, fed, pc, errs>>
      BY <1>4 DEF TargetReset, queues, work
    <2>3. QED  BY <2>1, <2>2 DEF RingType
  <1>5. QED  BY <1>2, <1>3, <1>4

LEMMA TypeHost ==
  ASSUME RingType, HostReads \/ HostWrites
  PROVE  RingType'
  <1>1. tx \in Seq(Nat) /\ rx \in Seq(Nat) /\ out \in Seq(Nat) /\ fed \in Nat  BY DEF RingType
  <1>2. CASE HostReads
    <2>1. tx # <<>> /\ out' = Append(out, Head(tx)) /\ tx' = Tail(tx)  BY <1>2 DEF HostReads
    <2>2. out' \in Seq(Nat) /\ tx' \in Seq(Nat) /\ Len(tx') <= Len(tx) /\ Len(tx') \in Int /\ Len(tx) \in Int
      BY <1>1, <2>1, HeadTailIs, AppendIs
    <2>3. TxRoom \in Nat  BY RoomsAssumption
    <2>4. Len(tx') <= TxRoom  BY <2>2, <2>3 DEF RingType
    <2>5. UNCHANGED <<up, down, desc, chunk, total, rx, con, got, sent, fed, pc, errs>>
      BY <1>2 DEF HostReads, rings, work, counts
    <2>6. QED  BY <2>2, <2>4, <2>5 DEF RingType
  <1>3. CASE HostWrites
    <2>1. fed' \in Nat /\ rx' \in Seq(Nat)
      <3>1. fed + 1 \in Nat /\ fed' = fed + 1  BY <1>1, <1>3 DEF HostWrites
      <3>2. rx' = rx \/ rx' = Append(rx, fed + 1)  BY <1>3 DEF HostWrites
      <3>3. QED  BY ZenonT(30), <1>1, <3>1, <3>2, AppendIs
    <2>2. UNCHANGED <<up, down, desc, chunk, total, tx, out, con, got, sent, pc, errs>>
      BY <1>3 DEF HostWrites, rings, work, counts
    <2>3. QED  BY <2>1, <2>2 DEF RingType
  <1>4. QED  BY <1>2, <1>3

LEMMA ErrsKept == ASSUME errs \in Nat, Ok \/ Fails PROVE errs' \in Nat
  BY DEF Ok, Fails

LEMMA MonitorErrs ==
  ASSUME errs \in Nat, Attach \/ Detach \/ Flash
  PROVE  errs' \in Nat /\ (errs' = 0 => errs = 0)
  <1>1. CASE Ok \/ Fails  BY <1>1 DEF Ok, Fails
  <1>2. CASE errs' = errs + Missed(up_desc', down_desc')  BY <1>2 DEF Missed
  <1>3. QED  BY <1>1, <1>2 DEF Attach, Detach, Flash, Ok

LEMMA TypeMonitor ==
  ASSUME RingType, Attach \/ Detach \/ Flash
  PROVE  RingType'
  <1>1. errs' \in Nat  BY MonitorErrs DEF RingType
  <1>2. Monitor  BY DEF Attach, Detach, Flash
  <1>3. QED  BY <1>1, <1>2, TypeKept DEF Monitor, rings, queues, work, host

LEMMA EndType ==
  ASSUME End
  PROVE  /\ pc' = "idle" /\ desc' \in [wr : Offsets, rd : Offsets] /\ chunk' \in Seq(Nat)
         /\ chunk' = <<>> /\ total' = 0
  <1>1. 0 \in Offsets  BY SizeFacts DEF Offsets
  <1>2. QED  BY <1>1, EmptySeq DEF End, NoDesc

LEMMA AdvanceType ==
  ASSUME RingType, NEW r \in Rings
  PROVE  Advance(r) \in Rings /\ Published(r) \in Rings
  <1>1. desc.rd \in Offsets /\ desc.wr \in Offsets /\ Len(chunk) \in Nat  BY DEF RingType
  <1>2. desc.rd + Len(chunk) \in Nat /\ desc.wr + Len(chunk) \in Nat
    BY <1>1, SizeFacts DEF Offsets
  <1>3. (desc.rd + Len(chunk)) % Size \in Offsets /\ (desc.wr + Len(chunk)) % Size \in Offsets
    BY <1>2, InSlots
  <1>4. QED  BY <1>3 DEF Advance, Published, Rings

LEMMA FilledIs ==
  ASSUME RingType, NEW r \in Rings, NEW n \in 0 .. Len(chunk)
  PROVE  /\ Filled(r, n) \in Rings /\ Filled(r, n).wr = r.wr /\ Filled(r, n).rd = r.rd
         /\ \A o \in Offsets :
              Filled(r, n).cell[o] = IF o \in desc.wr .. desc.wr + n - 1 THEN chunk[o - desc.wr + 1]
                                     ELSE r.cell[o]
  <1> DEFINE c == [o \in Offsets |-> IF o \in desc.wr .. desc.wr + n - 1 THEN chunk[o - desc.wr + 1]
                                     ELSE r.cell[o]]
  <1>1. desc.wr \in Offsets /\ Len(chunk) \in Nat /\ chunk \in Seq(Nat)  BY DEF RingType
  <1>2. r.cell \in [Offsets -> Nat]  BY DEF Rings
  <1>3. \A o \in Offsets : c[o] \in Nat
    <2>1. SUFFICES ASSUME NEW o \in Offsets, o \in desc.wr .. desc.wr + n - 1
                   PROVE chunk[o - desc.wr + 1] \in Nat
      BY <1>2
    <2>2. o - desc.wr + 1 \in 1 .. Len(chunk)  BY <1>1, <2>1, SizeFacts DEF Offsets
    <2>3. QED  BY <1>1, <2>2, ElementOfSeq
  <1>4. c \in [Offsets -> Nat]  BY <1>3
  <1>5. Filled(r, n) = [r EXCEPT !.cell = c]  BY DEF Filled
  <1>6. \A o \in Offsets :
          c[o] = IF o \in desc.wr .. desc.wr + n - 1 THEN chunk[o - desc.wr + 1] ELSE r.cell[o]
    OBVIOUS
  <1> HIDE DEF c
  <1>7. Filled(r, n) = [wr |-> r.wr, rd |-> r.rd, cell |-> c]  BY <1>5 DEF Rings
  <1>8. QED  BY <1>4, <1>6, <1>7 DEF Rings

LEMMA TypeStream ==
  ASSUME RingType, Stream \/ UpDesc \/ Consume
  PROVE  RingType'
  <1>0. errs \in Nat /\ up \in Rings  BY DEF RingType
  <1>1. CASE Stream
    <2>1. UNCHANGED <<up, down, desc, chunk, total, tx, rx, out, con, got, sent, fed, errs>>
          /\ pc = "idle" /\ pc' \in {"up", "down"}
      BY <1>1 DEF Stream, Ok, Rest, rings, queues, Go
    <2>2. QED  BY <2>1 DEF RingType
  <1>2. CASE UpDesc
    <2>1. UNCHANGED <<up, down, chunk, total, tx, rx, out, con, got, sent, fed>>
          /\ pc = "up" /\ pc' \in {"read", "down"}
      BY <1>2 DEF UpDesc, Rest, rings, queues, Go
    <2>2. errs' \in Nat
      <3>1. Ok \/ Fails  BY <1>2 DEF UpDesc
      <3>2. QED  BY <1>0, <3>1, ErrsKept
    <2>3. desc' \in [wr : Offsets, rd : Offsets]
      <3>1. desc' = desc \/ desc' = [wr |-> up.wr, rd |-> up.rd]  BY <1>2 DEF UpDesc
      <3>2. desc \in [wr : Offsets, rd : Offsets]  BY DEF RingType
      <3>3. [wr |-> up.wr, rd |-> up.rd] \in [wr : Offsets, rd : Offsets]
        <4>1. up.wr \in Offsets /\ up.rd \in Offsets  BY <1>0 DEF Rings
        <4>2. QED  BY ONLY <4>1
      <3>4. QED  BY ONLY <3>1, <3>2, <3>3
    <2>4. QED  BY <2>1, <2>2, <2>3 DEF RingType
  <1>3. CASE Consume
    <2>1. UNCHANGED <<up, down, desc, chunk, total, tx, rx, out, con, got, sent, fed>>
          /\ pc = "print" /\ pc' = "consume"
      BY <1>3 DEF Consume, Rest, rings, queues, Go
    <2>2. errs' \in Nat
      <3>1. Ok \/ Fails  BY <1>3 DEF Consume
      <3>2. QED  BY <1>0, <3>1, ErrsKept
    <2>3. QED  BY <2>1, <2>2 DEF RingType
  <1>4. QED  BY <1>1, <1>2, <1>3

(* The bytes of one read of the up ring.                                   *)
Count == Least(Least(Run(desc), Chunk), TxRoom - Len(tx))

LEMMA CountIs ==
  ASSUME RingType
  PROVE  /\ Count \in Nat /\ Count <= Run(desc) /\ Count <= TxRoom - Len(tx) /\ Run(desc) \in Nat
         /\ desc.rd + Count <= Size
  <1>1. desc.rd \in Offsets /\ desc.wr \in Offsets /\ Len(tx) \in Nat /\ Len(tx) <= TxRoom
    BY DEF RingType
  <1>2. TxRoom \in Nat /\ Chunk \in Nat  BY RoomsAssumption
  <1>3. Run(desc) \in Nat /\ desc.rd + Run(desc) <= Size  BY <1>1, RunIs
  <1>4. TxRoom - Len(tx) \in Nat  BY <1>1, <1>2
  <1>5. Least(Run(desc), Chunk) \in Nat /\ Least(Run(desc), Chunk) <= Run(desc)
    BY <1>2, <1>3 DEF Least
  <1>6. Count \in Nat /\ Count <= TxRoom - Len(tx) /\ Count <= Least(Run(desc), Chunk)
    BY <1>4, <1>5 DEF Least, Count
  <1>7. QED  BY <1>1, <1>3, <1>4, <1>5, <1>6, SizeFacts DEF Offsets

LEMMA TypeRead ==
  ASSUME RingType, UpRead
  PROVE  RingType'
  <1>0. /\ errs \in Nat /\ up \in Rings /\ desc.rd \in Offsets /\ tx \in Seq(Nat) /\ Len(tx) \in Nat
        /\ pc = "read"
    BY DEF RingType, UpRead
  <1>1. UNCHANGED <<up, down, desc, total, rx, out, con, got, sent, fed>>
    BY DEF UpRead, Rest, rings
  <1>2. errs' \in Nat
    <2>1. Ok \/ Fails  BY DEF UpRead
    <2>2. QED  BY <1>0, <2>1, ErrsKept
  <1>3. CASE chunk' = Bytes(up, desc.rd, Count) /\ tx' = tx \o chunk' /\ pc' = "ack"
    <2>1. Count \in Nat /\ Count <= TxRoom - Len(tx)  BY CountIs
    <2>2. chunk' \in Seq(Nat) /\ Len(chunk') = Count  BY <1>0, <1>3, <2>1, BytesIs
    <2>3. tx' \in Seq(Nat) /\ Len(tx') = Len(tx) + Len(chunk')
      BY <1>0, <1>3, <2>2, ConcatProperties
    <2>4. TxRoom \in Nat  BY RoomsAssumption
    <2>5. Len(tx') <= TxRoom  BY <1>0, <2>1, <2>2, <2>3, <2>4
    <2>6. QED  BY <1>1, <1>2, <1>3, <2>2, <2>3, <2>5 DEF RingType
  <1>4. CASE UNCHANGED <<tx, chunk>> /\ pc' = "down"
    BY <1>0, <1>1, <1>2, <1>4 DEF RingType
  <1>5. QED  BY <1>3, <1>4 DEF UpRead, Go, Count

LEMMA TypeAck ==
  ASSUME RingType, UpAck \/ ConsumeAck
  PROVE  RingType'
  <1>0. errs \in Nat /\ up \in Rings  BY DEF RingType
  <1>1. up' \in Rings
    <2>1. up' = up \/ up' = Advance(up)  BY DEF UpAck, ConsumeAck
    <2>2. QED  BY <1>0, <2>1, AdvanceType
  <1>2. errs' \in Nat
    <2>1. Ok \/ Fails  BY DEF UpAck, ConsumeAck
    <2>2. QED  BY <1>0, <2>1, ErrsKept
  <1>3. UNCHANGED <<down, tx, rx, out, con, got, sent, fed>>
    BY DEF UpAck, ConsumeAck, Rest, queues
  <1>4. CASE UpAck
    <2>1. desc' = NoDesc /\ chunk' = <<>> /\ total' = total /\ pc' = "down"
      BY <1>4 DEF UpAck, Go
    <2>2. 0 \in Offsets  BY SizeFacts DEF Offsets
    <2>3. desc' \in [wr : Offsets, rd : Offsets]  BY <2>1, <2>2 DEF NoDesc
    <2>4. chunk' \in Seq(Nat)  BY <2>1, EmptySeq
    <2>5. QED  BY <1>1, <1>2, <1>3, <2>1, <2>3, <2>4 DEF RingType
  <1>5. CASE ConsumeAck
    <2>1. End  BY <1>5 DEF ConsumeAck
    <2>2. QED  BY <1>1, <1>2, <1>3, <2>1, EndType DEF RingType
  <1>6. QED  BY <1>4, <1>5

(* The bytes of one write of the down ring, and of one print.              *)
Take == Least(Least(Least(Free(down), Size - down.wr), Chunk), Len(rx))
Shown == Least(Least(Run(desc), Chunk), DumpMax - total)

LEMMA TakeIs ==
  ASSUME RingType
  PROVE  /\ Take \in 0 .. Len(rx) /\ Used(down) + Take < Size /\ down.wr + Take <= Size
         /\ down.wr \in Offsets /\ Used(down) \in Nat
  <1>1. down.wr \in Offsets /\ down.rd \in Offsets /\ Len(rx) \in Nat  BY DEF RingType, Rings
  <1>2. Free(down) = Size - 1 - Used(down) /\ Used(down) \in 0 .. Size - 1
    BY <1>1, FreeIs, UsedIs
  <1>3. Free(down) \in Nat /\ Size - down.wr \in Nat /\ Chunk \in Nat
    BY <1>1, <1>2, RoomsAssumption, SizeFacts DEF Offsets
  <1> DEFINE a == Least(Free(down), Size - down.wr)
  <1>4. a \in Nat /\ a <= Free(down) /\ a <= Size - down.wr  BY <1>3 DEF Least
  <1> HIDE DEF a
  <1>5. Least(a, Chunk) \in Nat /\ Least(a, Chunk) <= a  BY <1>3, <1>4 DEF Least
  <1>6. Least(Least(a, Chunk), Len(rx)) \in 0 .. Len(rx) /\ Least(Least(a, Chunk), Len(rx)) <= a
    BY <1>1, <1>4, <1>5 DEF Least
  <1>7. Take = Least(Least(a, Chunk), Len(rx))  BY DEF Take, a
  <1>8. QED  BY <1>1, <1>2, <1>4, <1>6, <1>7, SizeFacts DEF Offsets

LEMMA ShownIs ==
  ASSUME RingType, total < DumpMax
  PROVE  Shown \in Nat /\ Shown <= Run(desc) /\ Run(desc) \in Nat /\ desc.rd + Shown <= Size
  <1>1. desc.rd \in Offsets /\ desc.wr \in Offsets /\ total \in Nat  BY DEF RingType
  <1>2. DumpMax \in Nat /\ Chunk \in Nat  BY RoomsAssumption
  <1>3. Run(desc) \in Nat /\ desc.rd + Run(desc) <= Size  BY <1>1, RunIs
  <1>4. DumpMax - total \in Nat  BY <1>1, <1>2
  <1>5. Least(Run(desc), Chunk) \in Nat /\ Least(Run(desc), Chunk) <= Run(desc)
    BY <1>2, <1>3 DEF Least
  <1>6. Shown \in Nat /\ Shown <= Least(Run(desc), Chunk)
    BY <1>4, <1>5 DEF Least, Shown
  <1>7. QED  BY <1>1, <1>3, <1>5, <1>6, SizeFacts DEF Offsets

LEMMA TypeDown ==
  ASSUME RingType, DownDesc
  PROVE  RingType'
  <1>0. errs \in Nat /\ down \in Rings /\ rx \in Seq(Nat)  BY DEF RingType
  <1>1. UNCHANGED <<up, down, tx, out, con, got, sent, fed>>
    BY DEF DownDesc, Rest, rings
  <1>2. errs' \in Nat
    <2>1. Ok \/ Fails  BY DEF DownDesc
    <2>2. QED  BY <1>0, <2>1, ErrsKept
  <1>3. CASE /\ desc' = [wr |-> down.wr, rd |-> down.rd] /\ chunk' = SubSeq(rx, 1, Take)
             /\ rx' = SubSeq(rx, Take + 1, Len(rx)) /\ pc' = "write" /\ total' = total
    <2>1. Take \in 0 .. Len(rx)  BY TakeIs
    <2>2. chunk' \in Seq(Nat) /\ rx' \in Seq(Nat)  BY <1>0, <1>3, <2>1, CutIs
    <2>3. desc' \in [wr : Offsets, rd : Offsets]  BY <1>0, <1>3 DEF Rings
    <2>4. QED  BY <1>1, <1>2, <1>3, <2>2, <2>3 DEF RingType
  <1>4. CASE rx' = rx /\ End
    BY <1>0, <1>1, <1>2, <1>4, EndType DEF RingType
  <1>5. QED  BY <1>3, <1>4 DEF DownDesc, Go, Take

LEMMA TypeWrite ==
  ASSUME RingType, DownWrite \/ DownPublish
  PROVE  RingType'
  <1>0. errs \in Nat /\ down \in Rings /\ Len(chunk) \in Nat  BY DEF RingType
  <1>1. UNCHANGED <<up, tx, rx, out, con, got, sent, fed>>
    BY DEF DownWrite, DownPublish, Rest, queues
  <1>2. errs' \in Nat
    <2>1. Ok \/ Fails  BY DEF DownWrite, DownPublish
    <2>2. QED  BY <1>0, <2>1, ErrsKept
  <1>3. down' \in Rings
    <2>1. \/ \E n \in 0 .. Len(chunk) : down' = Filled(down, n)
          \/ down' \in {down, Published(down)}
      <3>1. Len(chunk) \in 0 .. Len(chunk)  BY <1>0
      <3>2. QED  BY <3>1 DEF DownWrite, DownPublish
    <2>2. QED  BY <1>0, <2>1, FilledIs, AdvanceType
  <1>4. CASE pc' = "publish" /\ UNCHANGED <<desc, chunk, total>>
    BY <1>1, <1>2, <1>3, <1>4 DEF RingType
  <1>5. CASE End
    BY <1>1, <1>2, <1>3, <1>5, EndType DEF RingType
  <1>6. QED  BY <1>4, <1>5 DEF DownWrite, DownPublish, Go

LEMMA TypeDump ==
  ASSUME RingType, Dump \/ Show
  PROVE  RingType'
  <1>0. errs \in Nat /\ up \in Rings  BY DEF RingType
  <1>1. CASE Dump
    <2>1. UNCHANGED <<up, down, chunk, total, tx, rx, out, con, got, sent, fed>> /\ pc = "idle"
      BY <1>1 DEF Dump, rings, queues, host
    <2>2. errs' \in Nat
      <3>1. Ok \/ Fails  BY <1>1 DEF Dump
      <3>2. QED  BY <1>0, <3>1, ErrsKept
    <2>3. CASE desc' = [wr |-> up.wr, rd |-> up.rd] /\ pc' = "print"
      <3>1. desc' \in [wr : Offsets, rd : Offsets]  BY <1>0, <2>3 DEF Rings
      <3>2. QED  BY <2>1, <2>2, <2>3, <3>1 DEF RingType
    <2>4. CASE UNCHANGED <<desc, pc>>
      BY <2>1, <2>2, <2>4 DEF RingType
    <2>5. QED  BY <1>1, <2>3, <2>4 DEF Dump, Go
  <1>2. CASE Show
    <2>1. /\ UNCHANGED <<up, down, chunk, tx, rx, out, got, sent, fed, errs>> /\ pc = "print"
          /\ pc' = "print" /\ total < DumpMax
          /\ con' = con \o Bytes(up, desc.rd, Shown) /\ total' = total + Shown
          /\ desc' = [desc EXCEPT !.rd = (@ + Shown) % Size]
      BY <1>2 DEF Show, Ok, Rest, rings, queues, Unfinished, Shown
    <2>2. Shown \in Nat /\ desc.rd \in Offsets /\ con \in Seq(Nat) /\ total \in Nat
      BY <2>1, ShownIs DEF RingType
    <2>3. con' \in Seq(Nat)
      <3>1. Bytes(up, desc.rd, Shown) \in Seq(Nat)  BY <1>0, <2>2, BytesIs
      <3>2. QED  BY <2>1, <2>2, <3>1, ConcatProperties
    <2>4. desc' \in [wr : Offsets, rd : Offsets]
      <3>1. desc.rd + Shown \in Nat  BY <2>2, SizeFacts DEF Offsets
      <3>2. (desc.rd + Shown) % Size \in Offsets  BY <3>1, InSlots
      <3>3. QED  BY <2>1, <3>2 DEF RingType
    <2>5. total' \in Nat  BY <2>1, <2>2
    <2>6. QED  BY <2>1, <2>3, <2>4, <2>5 DEF RingType
  <1>3. QED  BY <1>1, <1>2

LEMMA TypeNext == RingType /\ [Next]_vars => RingType'
  <1> SUFFICES ASSUME RingType, [Next]_vars PROVE RingType'  OBVIOUS
  <1>1. CASE UNCHANGED vars
    <2>1. errs' = errs /\ UNCHANGED <<up, down, desc, chunk, total, tx, rx, out, con, got, sent, fed, pc>>
      BY <1>1 DEF vars, rings, queues, work, host, counts
    <2>2. QED  BY <2>1, TypeKept DEF RingType
  <1>2. CASE Server
    BY <1>2, TypeStream, TypeRead, TypeAck, TypeDown, TypeWrite, TypeDump DEF Server
  <1>3. CASE Attach \/ Detach \/ Flash  BY <1>3, TypeMonitor
  <1>4. CASE Dump  BY <1>4, TypeDump
  <1>5. CASE TargetWrites \/ TargetReads \/ TargetReset  BY <1>5, TypeTarget
  <1>6. CASE HostReads \/ HostWrites  BY <1>6, TypeHost
  <1>7. QED  BY <1>1, <1>2, <1>3, <1>4, <1>5, <1>6 DEF Next
-----------------------------------------------------------------------------
(* What becomes of an increasing sequence.                                 *)
LEMMA RangeIs ==
  ASSUME NEW s \in Seq(Nat)
  PROVE  /\ Len(s) \in Nat /\ DOMAIN s = 1 .. Len(s)
         /\ Range(s) = {s[i] : i \in 1 .. Len(s)}
         /\ \A i \in 1 .. Len(s) : s[i] \in Nat
  <1>1. Len(s) \in Nat /\ DOMAIN s = 1 .. Len(s) /\ \A i \in 1 .. Len(s) : s[i] \in Nat
    BY LenProperties, ElementOfSeq
  <1>2. Range(s) = {s[i] : i \in 1 .. Len(s)}  BY <1>1 DEF Range
  <1>3. QED  BY <1>1, <1>2

LEMMA RangeJoin ==
  ASSUME NEW s \in Seq(Nat), NEW t \in Seq(Nat)
  PROVE  Range(s \o t) = Range(s) \cup Range(t)
  <1>1. /\ s \o t \in Seq(Nat) /\ Len(s \o t) = Len(s) + Len(t)
        /\ \A i \in 1 .. Len(s) + Len(t) : (s \o t)[i] = IF i <= Len(s) THEN s[i] ELSE t[i - Len(s)]
    BY ConcatProperties
  <1>2. Len(s) \in Nat /\ Len(t) \in Nat  BY RangeIs
  <1>3. ASSUME NEW x \in Range(s \o t) PROVE x \in Range(s) \cup Range(t)
    <2>0. Range(s \o t) = {(s \o t)[i] : i \in 1 .. Len(s) + Len(t)}
      <3>1. Range(s \o t) = {(s \o t)[i] : i \in 1 .. Len(s \o t)}  BY <1>1, RangeIs
      <3>2. QED  BY <1>1, <3>1
    <2>1. PICK i \in 1 .. Len(s) + Len(t) : x = (s \o t)[i]  BY ONLY <1>3, <2>0
    <2>2. CASE i <= Len(s)
      <3>1. i \in 1 .. Len(s) /\ x = s[i]  BY <1>1, <1>2, <2>1, <2>2
      <3>2. QED  BY <3>1, RangeIs
    <2>3. CASE ~(i <= Len(s))
      <3>1. i - Len(s) \in 1 .. Len(t) /\ x = t[i - Len(s)]  BY <1>1, <1>2, <2>1, <2>3
      <3>2. QED  BY <3>1, RangeIs
    <2>4. QED  BY <2>2, <2>3
  <1>4. ASSUME NEW x \in Range(s) PROVE x \in Range(s \o t)
    <2>1. PICK i \in 1 .. Len(s) : x = s[i]  BY RangeIs
    <2>2. i \in 1 .. Len(s) + Len(t) /\ i <= Len(s)  BY <1>2
    <2>3. x = (s \o t)[i]  BY <1>1, <2>1, <2>2
    <2>4. QED  BY <1>1, <2>2, <2>3, RangeIs
  <1>5. ASSUME NEW x \in Range(t) PROVE x \in Range(s \o t)
    <2>1. PICK i \in 1 .. Len(t) : x = t[i]  BY RangeIs
    <2>2. Len(s) + i \in 1 .. Len(s) + Len(t) /\ ~(Len(s) + i <= Len(s)) /\ (Len(s) + i) - Len(s) = i
      BY <1>2
    <2>3. x = (s \o t)[Len(s) + i]  BY <1>1, <2>1, <2>2
    <2>4. QED  BY <1>1, <2>2, <2>3, RangeIs
  <1>6. QED  BY <1>3, <1>4, <1>5

LEMMA IncreasingIs ==
  ASSUME NEW s \in Seq(Nat)
  PROVE  Increasing(s) <=> \A i, j \in 1 .. Len(s) : i < j => s[i] < s[j]
  BY RangeIs DEF Increasing

(* Two increasing sequences, one behind the other.                         *)
LEMMA IncreasingJoin ==
  ASSUME NEW s \in Seq(Nat), NEW t \in Seq(Nat)
  PROVE  Increasing(s \o t) <=>
           Increasing(s) /\ Increasing(t) /\ \A x \in Range(s), y \in Range(t) : x < y
  <1>1. /\ s \o t \in Seq(Nat) /\ Len(s \o t) = Len(s) + Len(t)
        /\ \A i \in 1 .. Len(s) + Len(t) : (s \o t)[i] = IF i <= Len(s) THEN s[i] ELSE t[i - Len(s)]
    BY ConcatProperties
  <1>2. Len(s) \in Nat /\ Len(t) \in Nat  BY RangeIs
  <1>3. ASSUME Increasing(s \o t)
        PROVE  Increasing(s) /\ Increasing(t) /\ \A x \in Range(s), y \in Range(t) : x < y
    <2>0. \A i, j \in 1 .. Len(s) + Len(t) : i < j => (s \o t)[i] < (s \o t)[j]
      BY <1>1, <1>3, IncreasingIs
    <2>1. ASSUME NEW i \in 1 .. Len(s), NEW j \in 1 .. Len(s), i < j PROVE s[i] < s[j]
      <3>1. i \in 1 .. Len(s) + Len(t) /\ j \in 1 .. Len(s) + Len(t) /\ i <= Len(s) /\ j <= Len(s)
        BY <1>2
      <3>2. (s \o t)[i] = s[i] /\ (s \o t)[j] = s[j]  BY <1>1, <3>1
      <3>3. QED  BY <2>0, <2>1, <3>1, <3>2
    <2>2. ASSUME NEW i \in 1 .. Len(t), NEW j \in 1 .. Len(t), i < j PROVE t[i] < t[j]
      <3>1. /\ Len(s) + i \in 1 .. Len(s) + Len(t) /\ Len(s) + j \in 1 .. Len(s) + Len(t)
            /\ ~(Len(s) + i <= Len(s)) /\ ~(Len(s) + j <= Len(s))
            /\ (Len(s) + i) - Len(s) = i /\ (Len(s) + j) - Len(s) = j /\ Len(s) + i < Len(s) + j
        BY <1>2, <2>2
      <3>2. (s \o t)[Len(s) + i] = t[i] /\ (s \o t)[Len(s) + j] = t[j]  BY <1>1, <3>1
      <3>3. QED  BY <2>0, <3>1, <3>2
    <2>3. ASSUME NEW x \in Range(s), NEW y \in Range(t) PROVE x < y
      <3>1. PICK i \in 1 .. Len(s) : x = s[i]  BY RangeIs
      <3>2. PICK j \in 1 .. Len(t) : y = t[j]  BY RangeIs
      <3>3. /\ i \in 1 .. Len(s) + Len(t) /\ Len(s) + j \in 1 .. Len(s) + Len(t)
            /\ i <= Len(s) /\ ~(Len(s) + j <= Len(s)) /\ (Len(s) + j) - Len(s) = j /\ i < Len(s) + j
        BY <1>2
      <3>4. (s \o t)[i] = s[i] /\ (s \o t)[Len(s) + j] = t[j]  BY <1>1, <3>3
      <3>5. QED  BY <2>0, <3>1, <3>2, <3>3, <3>4
    <2>4. QED  BY <2>1, <2>2, <2>3, IncreasingIs
  <1>4. ASSUME Increasing(s), Increasing(t), \A x \in Range(s), y \in Range(t) : x < y
        PROVE  Increasing(s \o t)
    <2>1. ASSUME NEW i \in 1 .. Len(s) + Len(t), NEW j \in 1 .. Len(s) + Len(t), i < j
          PROVE  (s \o t)[i] < (s \o t)[j]
      <3>1. CASE j <= Len(s)
        <4>1. i \in 1 .. Len(s) /\ j \in 1 .. Len(s) /\ i <= Len(s)  BY <1>2, <2>1, <3>1
        <4>2. s[i] < s[j]  BY <1>4, <2>1, <4>1, IncreasingIs
        <4>3. QED  BY <1>1, <3>1, <4>1, <4>2
      <3>2. CASE i <= Len(s) /\ ~(j <= Len(s))
        <4>1. i \in 1 .. Len(s) /\ j - Len(s) \in 1 .. Len(t)  BY <1>2, <3>2
        <4>2. s[i] \in Range(s) /\ t[j - Len(s)] \in Range(t)  BY <4>1, RangeIs
        <4>3. (s \o t)[i] = s[i] /\ (s \o t)[j] = t[j - Len(s)]  BY <1>1, <3>2
        <4>4. QED  BY <1>4, <4>2, <4>3
      <3>3. CASE ~(i <= Len(s))
        <4>1. /\ i - Len(s) \in 1 .. Len(t) /\ j - Len(s) \in 1 .. Len(t) /\ i - Len(s) < j - Len(s)
              /\ ~(j <= Len(s))
          BY <1>2, <2>1, <3>3
        <4>2. t[i - Len(s)] < t[j - Len(s)]  BY <1>4, <4>1, IncreasingIs
        <4>3. (s \o t)[i] = t[i - Len(s)] /\ (s \o t)[j] = t[j - Len(s)]  BY <1>1, <3>3, <4>1
        <4>4. QED  BY <4>2, <4>3
      <3>4. QED  BY <3>1, <3>2, <3>3
    <2>2. QED  BY <1>1, <2>1, IncreasingIs
  <1>5. QED  BY <1>3, <1>4

LEMMA SingleIs ==
  ASSUME NEW x \in Nat
  PROVE  <<x>> \in Seq(Nat) /\ Len(<<x>>) = 1 /\ Range(<<x>>) = {x} /\ Increasing(<<x>>)
  <1>1. <<x>> \in Seq(Nat) /\ Len(<<x>>) = 1 /\ <<x>>[1] = x  OBVIOUS
  <1>2. Range(<<x>>) = {<<x>>[i] : i \in 1 .. 1}  BY <1>1, RangeIs
  <1>3. \A i \in 1 .. 1 : i = 1  OBVIOUS
  <1>4. 1 \in 1 .. 1  OBVIOUS
  <1>5. Range(<<x>>) = {x}  BY <1>1, <1>2, <1>3, <1>4
  <1>6. \A i, j \in 1 .. 1 : ~(i < j)  OBVIOUS
  <1>7. Increasing(<<x>>)  BY <1>1, <1>6, IncreasingIs
  <1>8. QED  BY <1>1, <1>5, <1>7

LEMMA OneMore ==
  ASSUME NEW s \in Seq(Nat), NEW x \in Nat, Increasing(s), \A y \in Range(s) : y < x
  PROVE  Increasing(s \o <<x>>) /\ Range(s \o <<x>>) = Range(s) \cup {x}
  <1>1. <<x>> \in Seq(Nat) /\ Range(<<x>>) = {x} /\ Increasing(<<x>>)  BY SingleIs
  <1>2. \A y \in Range(s), z \in Range(<<x>>) : y < z  BY <1>1
  <1>3. Increasing(s \o <<x>>)  BY <1>1, <1>2, IncreasingJoin
  <1>4. QED  BY <1>1, <1>3, RangeJoin

LEMMA Joined ==
  ASSUME NEW a \in Seq(Nat), NEW c \in Seq(Nat), NEW r \in Seq(Nat)
  PROVE  (a \o c) \o r = a \o (c \o r)
  BY ONLY ConcatAssociative, a \in Seq(Nat), c \in Seq(Nat), r \in Seq(Nat), SMTT(30)
-----------------------------------------------------------------------------
(* The down ring.                                                          *)
LEMMA StreamIs ==
  ASSUME RingType
  PROVE  /\ got \in Seq(Nat) /\ Unread(down) \in Seq(Nat) /\ Hand \in Seq(Nat) /\ rx \in Seq(Nat)
         /\ got \o Unread(down) \in Seq(Nat) /\ (got \o Unread(down)) \o Hand \in Seq(Nat)
         /\ Stream4 \in Seq(Nat)
         /\ Stream4 = ((got \o Unread(down)) \o Hand) \o rx
         /\ Range(Stream4) = ((Range(got) \cup Range(Unread(down))) \cup Range(Hand)) \cup Range(rx)
  <1>1. got \in Seq(Nat) /\ Unread(down) \in Seq(Nat) /\ Hand \in Seq(Nat) /\ rx \in Seq(Nat)
    BY UnreadIs, EmptySeq DEF RingType, Hand
  <1>2. got \o Unread(down) \in Seq(Nat)  BY <1>1, ConcatProperties
  <1>3. (got \o Unread(down)) \o Hand \in Seq(Nat)  BY <1>1, <1>2, ConcatProperties
  <1>4. Stream4 = ((got \o Unread(down)) \o Hand) \o rx  BY DEF Stream4
  <1>5. Stream4 \in Seq(Nat)  BY <1>1, <1>3, <1>4, ConcatProperties
  <1>6. Range(got \o Unread(down)) = Range(got) \cup Range(Unread(down))  BY <1>1, RangeJoin
  <1>7. Range((got \o Unread(down)) \o Hand) = Range(got \o Unread(down)) \cup Range(Hand)
    BY <1>1, <1>2, RangeJoin
  <1>8. Range(Stream4) = Range((got \o Unread(down)) \o Hand) \cup Range(rx)
    BY <1>1, <1>3, <1>4, RangeJoin
  <1>9. QED  BY <1>1, <1>2, <1>3, <1>4, <1>5, <1>6, <1>7, <1>8

(* Nothing is lost of the stream, or only what a failed access threw away. *)
LEMMA StreamKept ==
  ASSUME DownOrder, Stream4' = Stream4, fed' = fed, dropped \subseteq dropped', errs' = 0 => errs = 0
  PROVE  DownOrder'
  BY DEF DownOrder

LEMMA HandLost ==
  ASSUME RingType, RingType', DownOrder, fed' = fed, errs' # 0,
         got' = got, Unread(down)' = Unread(down), rx' = rx, Hand' = <<>>
  PROVE  DownOrder'
  <1> DEFINE a == got \o Unread(down)
  <1>1. /\ a \in Seq(Nat) /\ Hand \in Seq(Nat) /\ rx \in Seq(Nat) /\ a \o Hand \in Seq(Nat)
        /\ Stream4 = (a \o Hand) \o rx
        /\ Range(Stream4) = (Range(a) \cup Range(Hand)) \cup Range(rx)
    BY StreamIs, RangeJoin
  <1>2. Stream4' = a \o rx
    <2>1. Stream4' = (a \o <<>>) \o rx  BY DEF Stream4
    <2>2. a \o <<>> = a  BY <1>1, ConcatEmptySeq
    <2>3. QED  BY <2>1, <2>2
  <1> HIDE DEF a
  <1>3. Increasing((a \o Hand) \o rx) /\ Range(Stream4) \subseteq 1 .. fed
    BY <1>1 DEF DownOrder
  <1>4. Increasing(a \o Hand) /\ Increasing(rx) /\ \A x \in Range(a \o Hand), y \in Range(rx) : x < y
    BY <1>1, <1>3, IncreasingJoin
  <1>5. Increasing(a)  BY <1>1, <1>4, IncreasingJoin
  <1>6. Range(a \o Hand) = Range(a) \cup Range(Hand)  BY <1>1, RangeJoin
  <1>7. Increasing(a \o rx)  BY <1>1, <1>4, <1>5, <1>6, IncreasingJoin
  <1>8. Range(a \o rx) = Range(a) \cup Range(rx)  BY <1>1, RangeJoin
  <1>9. QED  BY <1>1, <1>2, <1>3, <1>7, <1>8 DEF DownOrder

(* A step that has nothing to do with the down ring.                       *)
LEMMA DownQuiet ==
  ASSUME DownWindow, DownOrder, UNCHANGED <<down, got, rx, fed, dropped>>, errs' = 0 => errs = 0,
         \/ UNCHANGED <<pc, desc, chunk>>
         \/ pc \notin {"write", "publish"} /\ pc' \notin {"write", "publish"}
  PROVE  DownWindow' /\ DownOrder'
  <1>1. Hand' = Hand  BY DEF Hand
  <1>2. Stream4' = Stream4  BY <1>1 DEF Stream4
  <1>3. DownOrder'  BY <1>2, StreamKept
  <1>4. DownWindow'  BY DEF DownWindow
  <1>5. QED  BY <1>3, <1>4

LEMMA DownReads ==
  ASSUME RingType, RingType', DownWindow, DownOrder, TargetReads
  PROVE  DownWindow' /\ DownOrder'
  <1> DEFINE u == Unread(down)
  <1>1. /\ down \in Rings /\ got \in Seq(Nat) /\ u \in Seq(Nat) /\ Len(u) = Used(down)
        /\ Used(down) \in 0 .. Size - 1 /\ down.rd \in Offsets /\ down.wr \in Offsets
    BY UnreadIs DEF RingType, Rings
  <1>2. /\ Used(down) > 0 /\ got' = Append(got, down.cell[down.rd])
        /\ down' = [down EXCEPT !.rd = Slot(down.rd, 1)]
        /\ UNCHANGED <<pc, desc, chunk, rx, fed, dropped, errs>>
    BY DEF TargetReads, Slot, queues, work, host, counts
  <1>3. /\ down' \in Rings /\ Used(down') = Used(down) - 1
        /\ \A i \in 1 .. Used(down) - 1 : Unread(down')[i] = u[1 + i]
        /\ down'.wr = down.wr /\ down'.cell = down.cell
    <2>1. 1 \in 0 .. Used(down)  BY <1>1, <1>2, SizeFacts
    <2>2. down'.wr = down.wr /\ down'.cell = down.cell  BY <1>1, <1>2 DEF Rings
    <2>3. /\ down' \in Rings /\ Used(down') = Used(down) - 1
          /\ \A i \in 1 .. Used(down) - 1 : Unread(down')[i] = Unread(down)[1 + i]
      <3>1. PICK q : q = [down EXCEPT !.rd = Slot(down.rd, 1)]  OBVIOUS
      <3>2. down \in Rings  BY <1>1
      <3>3. /\ q \in Rings /\ Used(q) = Used(down) - 1
            /\ \A i \in 1 .. Used(down) - 1 : Unread(q)[i] = Unread(down)[1 + i]
        BY ONLY <2>1, <3>1, <3>2, ReadOff
      <3>4. down' = q  BY <1>2, <3>1
      <3>5. QED  BY ONLY <3>3, <3>4
    <2>4. QED  BY <2>2, <2>3
  <1>4. u[1] = down.cell[down.rd]
    <2>1. 1 \in 1 .. Used(down) /\ 1 - 1 = 0 /\ 0 \in 0 .. Size  BY <1>1, <1>2, SizeFacts
    <2>2. u[1] = down.cell[Slot(down.rd, 0)]  BY <1>1, <2>1, UnreadIs
    <2>3. Slot(down.rd, 0) = (IF down.rd + 0 < Size THEN down.rd + 0 ELSE down.rd + 0 - Size)
      BY <1>1, <2>1, SlotIs
    <2>4. Slot(down.rd, 0) = down.rd  BY <1>1, <2>3, SizeFacts DEF Offsets
    <2>5. QED  BY <2>2, <2>4
  <1> HIDE DEF u
  <1>5. u # <<>>  BY <1>1, <1>2, EmptySeq, SizeFacts
  <1>6. /\ Head(u) = u[1] /\ Head(u) \in Nat /\ u = <<Head(u)>> \o Tail(u)
        /\ Tail(u) \in Seq(Nat) /\ Len(Tail(u)) = Len(u) - 1
        /\ \A i \in 1 .. Len(u) - 1 : Tail(u)[i] = u[i + 1]
    BY <1>1, <1>5, HeadTailIs
  <1>7. Unread(down') = Tail(u)
    <2>1. Unread(down') \in Seq(Nat) /\ Len(Unread(down')) = Used(down) - 1  BY <1>3, UnreadIs
    <2>2. \A i \in 1 .. Len(Unread(down')) : Unread(down')[i] = Tail(u)[i]
      <3>1. SUFFICES ASSUME NEW i \in 1 .. Used(down) - 1 PROVE Unread(down')[i] = Tail(u)[i]
        BY <2>1
      <3>2. Unread(down')[i] = u[1 + i]  BY <1>3
      <3>3. i \in 1 .. Len(u) - 1  BY <1>1
      <3>4. Tail(u)[i] = u[i + 1]  BY <1>6, <3>3
      <3>5. 1 + i = i + 1  BY <1>1, SizeFacts
      <3>6. QED  BY <3>2, <3>4, <3>5
    <2>3. Len(Unread(down')) = Len(Tail(u))  BY <1>1, <1>6, <2>1
    <2>4. QED  BY <1>6, <2>1, <2>2, <2>3, SeqEqual
  <1>8. got' \o Unread(down') = got \o u
    <2>0. Head(u) \in Nat /\ down.cell[down.rd] = Head(u)  BY <1>4, <1>6
    <2>1. got' = got \o <<Head(u)>>  BY <1>1, <1>2, <2>0, AppendIs
    <2>2. <<Head(u)>> \in Seq(Nat)  BY <2>0
    <2>3. (got \o <<Head(u)>>) \o Tail(u) = got \o (<<Head(u)>> \o Tail(u))
      BY Zenon, <1>1, <1>6, <2>2, Joined
    <2>4. QED  BY <1>6, <1>7, <2>1, <2>3
  <1>9. Stream4' = Stream4
    <2>1. Hand' = Hand  BY <1>2 DEF Hand
    <2>2. QED  BY <1>2, <1>8, <2>1 DEF Stream4, u
  <1>10. DownOrder'  BY <1>2, <1>9, StreamKept
  <1>11. DownWindow'
    <2>1. Len(chunk) \in Nat  BY DEF RingType
    <2>2. pc \in {"write", "publish"} =>
            Used(down') + Len(chunk) < Size /\ desc.wr = down'.wr /\ desc.wr + Len(chunk) <= Size
      BY <1>1, <1>3, <2>1, SizeFacts DEF DownWindow
    <2>3. pc = "publish" => \A i \in 1 .. Len(chunk) : down'.cell[desc.wr + i - 1] = chunk[i]
      BY <1>3 DEF DownWindow
    <2>4. QED  BY <1>2, <2>2, <2>3 DEF DownWindow
  <1>12. QED  BY <1>10, <1>11

LEMMA DownReset ==
  ASSUME RingType, RingType', DownWindow, DownOrder, TargetReset, ~raced'
  PROVE  DownWindow' /\ DownOrder'
  <1>1. /\ pc = "idle" /\ down' = Fresh(down) /\ dropped' = dropped \cup Range(Unread(down))
        /\ UNCHANGED <<pc, chunk, got, rx, fed, errs>>
    BY DEF TargetReset, work, queues
  <1>2. Hand = <<>> /\ Hand' = <<>> /\ DownWindow'  BY <1>1 DEF Hand, DownWindow
  <1>3. Unread(down') = <<>>
    <2>1. down \in Rings  BY DEF RingType
    <2>2. QED  BY <1>1, <2>1, FreshIs
  <1> DEFINE u == Unread(down)
  <1>4. got \in Seq(Nat) /\ u \in Seq(Nat) /\ rx \in Seq(Nat) /\ got \o u \in Seq(Nat)
    BY StreamIs
  <1>5. Stream4 = (got \o u) \o rx
    <2>1. (got \o u) \o <<>> = got \o u  BY <1>4, ConcatEmptySeq
    <2>2. QED  BY <1>2, <2>1 DEF Stream4
  <1>6. Stream4' = got \o rx
    <2>1. Stream4' = ((got \o <<>>) \o <<>>) \o rx  BY <1>1, <1>2, <1>3 DEF Stream4
    <2>2. got \o <<>> = got  BY <1>4, ConcatEmptySeq
    <2>3. QED  BY <2>1, <2>2
  <1>7. Range(Stream4) = (Range(got) \cup Range(u)) \cup Range(rx)
    <2>1. Range(got \o u) = Range(got) \cup Range(u)  BY <1>4, RangeJoin
    <2>2. Range((got \o u) \o rx) = Range(got \o u) \cup Range(rx)  BY <1>4, RangeJoin
    <2>3. QED  BY <1>5, <2>1, <2>2
  <1>8. Range(Stream4') = Range(got) \cup Range(rx)  BY <1>4, <1>6, RangeJoin
  <1>9. dropped' = dropped \cup Range(u)  BY <1>1
  <1> HIDE DEF u
  <1>10. Increasing((got \o u) \o rx)  BY <1>5 DEF DownOrder
  <1>11. Increasing(got \o u) /\ Increasing(rx) /\ \A x \in Range(got \o u), y \in Range(rx) : x < y
    BY <1>4, <1>10, IncreasingJoin
  <1>12. Increasing(got)  BY <1>4, <1>11, IncreasingJoin
  <1>13. Range(got \o u) = Range(got) \cup Range(u)  BY <1>4, RangeJoin
  <1>14. Increasing(got \o rx)  BY <1>4, <1>11, <1>12, <1>13, IncreasingJoin
  <1>15. DownOrder'
    <2>1. Increasing(Stream4')  BY <1>6, <1>14
    <2>2. Range(Stream4') \subseteq 1 .. fed'  BY <1>1, <1>7, <1>8 DEF DownOrder
    <2>3. errs' = 0 => \A k \in 1 .. fed' : k \in Range(Stream4') \cup dropped'
      BY <1>1, <1>7, <1>8, <1>9 DEF DownOrder
    <2>4. QED  BY <2>1, <2>2, <2>3 DEF DownOrder
  <1>16. QED  BY <1>2, <1>15

LEMMA DownHost ==
  ASSUME RingType, RingType', DownWindow, DownOrder, HostWrites
  PROVE  DownWindow' /\ DownOrder'
  <1>1. fed' = fed + 1 /\ UNCHANGED <<down, pc, desc, chunk, got, errs>>
    BY DEF HostWrites, rings, work, counts
  <1>2. DownWindow' /\ Hand' = Hand  BY <1>1 DEF DownWindow, Hand
  <1> DEFINE a == (got \o Unread(down)) \o Hand
  <1>3. a \in Seq(Nat) /\ rx \in Seq(Nat) /\ fed \in Nat /\ Stream4 = a \o rx /\ Stream4 \in Seq(Nat)
        /\ Stream4' = a \o rx'
    <2>1. fed \in Nat  BY DEF RingType
    <2>2. Stream4' = a \o rx'  BY <1>1, <1>2 DEF Stream4
    <2>3. QED  BY <2>1, <2>2, StreamIs
  <1> HIDE DEF a
  <1>4. CASE rx' = rx /\ dropped' = dropped \cup {fed + 1}
    <2>1. Stream4' = Stream4  BY <1>3, <1>4
    <2>2. Increasing(Stream4')  BY <2>1 DEF DownOrder
    <2>3. Range(Stream4') \subseteq 1 .. fed'
      <3>1. Range(Stream4') \subseteq 1 .. fed  BY <2>1 DEF DownOrder
      <3>2. 1 .. fed \subseteq 1 .. fed + 1  BY <1>3
      <3>3. QED  BY <1>1, <3>1, <3>2
    <2>4. ASSUME errs' = 0, NEW k \in 1 .. fed' PROVE k \in Range(Stream4') \cup dropped'
      <3>1. k \in 1 .. fed \/ k = fed + 1  BY <1>1, <1>3
      <3>2. k \in 1 .. fed => k \in Range(Stream4) \cup dropped  BY <1>1, <2>4 DEF DownOrder
      <3>3. QED  BY <1>4, <2>1, <3>1, <3>2
    <2>5. QED  BY <1>2, <2>2, <2>3, <2>4 DEF DownOrder
  <1>5. CASE rx' = Append(rx, fed + 1) /\ dropped' = dropped
    <2>1. rx' = rx \o <<fed + 1>> /\ <<fed + 1>> \in Seq(Nat)  BY <1>3, <1>5, AppendIs
    <2>2. Stream4' = Stream4 \o <<fed + 1>>
      BY ZenonT(30), <1>3, <2>1, Joined
    <2>3. Increasing(Stream4) /\ \A y \in Range(Stream4) : y < fed + 1
      BY <1>3 DEF DownOrder
    <2>4. Increasing(Stream4') /\ Range(Stream4') = Range(Stream4) \cup {fed + 1}
      <3>1. fed + 1 \in Nat  BY <1>3
      <3>2. QED  BY <1>3, <2>2, <2>3, <3>1, OneMore
    <2>6. Range(Stream4') \subseteq 1 .. fed'
      <3>1. Range(Stream4) \subseteq 1 .. fed  BY DEF DownOrder
      <3>2. 1 .. fed \subseteq 1 .. fed + 1 /\ fed + 1 \in 1 .. fed + 1  BY <1>3
      <3>3. QED  BY <1>1, <2>4, <3>1, <3>2
    <2>7. ASSUME errs' = 0, NEW k \in 1 .. fed' PROVE k \in Range(Stream4') \cup dropped'
      <3>1. k \in 1 .. fed \/ k = fed + 1  BY <1>1, <1>3
      <3>2. k \in 1 .. fed => k \in Range(Stream4) \cup dropped  BY <1>1, <2>7 DEF DownOrder
      <3>3. QED  BY <1>5, <2>4, <3>1, <3>2
    <2>8. QED  BY <1>2, <2>4, <2>6, <2>7 DEF DownOrder
  <1>6. QED  BY <1>4, <1>5 DEF HostWrites

LEMMA DownTakes ==
  ASSUME RingType, RingType', DownWindow, DownOrder, DownDesc
  PROVE  DownWindow' /\ DownOrder'
  <1>1. pc = "down" /\ UNCHANGED <<down, got, fed, dropped>> /\ (errs' = 0 => errs = 0)
    <2>1. errs \in Nat  BY DEF RingType
    <2>2. Ok \/ Fails  BY DEF DownDesc
    <2>3. QED  BY <2>1, <2>2 DEF DownDesc, Rest, rings, Ok, Fails
  <1>2. CASE /\ desc' = [wr |-> down.wr, rd |-> down.rd] /\ chunk' = SubSeq(rx, 1, Take)
             /\ rx' = SubSeq(rx, Take + 1, Len(rx)) /\ pc' = "write"
    <2>1. /\ Take \in 0 .. Len(rx) /\ Used(down) + Take < Size /\ down.wr + Take <= Size
          /\ down.wr \in Offsets /\ Used(down) \in Nat
      BY TakeIs
    <2> DEFINE a == got \o Unread(down)
    <2>2. a \in Seq(Nat) /\ rx \in Seq(Nat)  BY StreamIs
    <2>3. chunk' \in Seq(Nat) /\ Len(chunk') = Take /\ rx' \in Seq(Nat) /\ chunk' \o rx' = rx
      BY <1>2, <2>1, <2>2, CutIs
    <2>4. Hand = <<>> /\ Hand' = chunk'  BY <1>1, <1>2 DEF Hand
    <2>5. Stream4' = (a \o chunk') \o rx'  BY <1>1, <2>4 DEF Stream4
    <2>6. Stream4 = a \o rx
      <3>1. a \o <<>> = a  BY <2>2, ConcatEmptySeq
      <3>2. Stream4 = (a \o <<>>) \o rx  BY <2>4 DEF Stream4
      <3>3. QED  BY <3>1, <3>2
    <2> HIDE DEF a
    <2>7. Stream4' = Stream4
      <3>1. (a \o chunk') \o rx' = a \o (chunk' \o rx')  BY ZenonT(30), <2>2, <2>3, Joined
      <3>2. QED  BY Zenon, <2>3, <2>5, <2>6, <3>1
    <2>8. DownOrder'  BY <1>1, <2>7, StreamKept
    <2>9. DownWindow'
      <3>1. desc'.wr = down'.wr /\ down' = down  BY <1>1, <1>2
      <3>2. Used(down') + Len(chunk') < Size /\ desc'.wr + Len(chunk') <= Size
        BY <1>2, <2>1, <2>3, <3>1
      <3>3. QED  BY <1>2, <3>1, <3>2 DEF DownWindow
    <2>10. QED  BY <2>8, <2>9
  <1>3. CASE rx' = rx /\ End
    <2>1. pc' = "idle"  BY <1>3 DEF End
    <2>2. QED  BY <1>1, <1>3, <2>1, DownQuiet
  <1>4. QED  BY <1>2, <1>3 DEF DownDesc, Go, Take

LEMMA DownWrites ==
  ASSUME RingType, RingType', DownWindow, DownOrder, DownWrite
  PROVE  DownWindow' /\ DownOrder'
  <1>1. /\ pc = "write" /\ UNCHANGED <<got, rx, fed, dropped>>
        /\ down \in Rings /\ Len(chunk) \in Nat /\ errs \in Nat
        /\ desc.wr = down.wr /\ Used(down) + Len(chunk) < Size /\ desc.wr + Len(chunk) <= Size
    BY DEF DownWrite, Rest, queues, RingType, DownWindow
  <1>2. down.wr \in Offsets /\ down.rd \in Offsets /\ Used(down) \in 0 .. Size - 1
    BY <1>1, UsedIs DEF Rings
  (* What is filled is behind what is unread.                              *)
  <1>3. ASSUME NEW n \in 0 .. Len(chunk), NEW q, q = Filled(down, n)
        PROVE  /\ q \in Rings /\ q.wr = down.wr /\ Used(q) = Used(down) /\ Unread(q) = Unread(down)
    <2>1. /\ q \in Rings /\ q.wr = down.wr /\ q.rd = down.rd
          /\ \A o \in Offsets : ~(o \in desc.wr .. desc.wr + n - 1) => q.cell[o] = down.cell[o]
      BY <1>1, <1>3, FilledIs
    <2>2. Used(q) = Used(down)  BY <2>1 DEF Used
    <2>3. ASSUME NEW i \in 1 .. Used(down)
          PROVE  q.cell[Slot(down.rd, i - 1)] = down.cell[Slot(down.rd, i - 1)]
      <3>1. Slot(down.rd, i - 1) \in Offsets  BY <1>1, UnreadIs
      <3>2. ASSUME Slot(down.rd, i - 1) \in desc.wr .. desc.wr + n - 1 PROVE FALSE
        <4> DEFINE m == Slot(down.rd, i - 1) - desc.wr
        <4>1. m \in 0 .. Size - 1 /\ Used(down) + m < Size /\ m \in 0 .. Size
          BY SMTT(30), <1>1, <1>2, <3>1, <3>2, SizeFacts DEF Offsets
        <4>2. Slot(down.rd, i - 1) = down.wr + m /\ down.wr + m < Size
          BY <1>1, <1>2, <3>1, SizeFacts DEF Offsets
        <4> HIDE DEF m
        <4>3. Slot(down.wr, m) = (IF down.wr + m < Size THEN down.wr + m ELSE down.wr + m - Size)
          BY <1>2, <4>1, SlotIs
        <4>4. Slot(down.rd, i - 1) # Slot(down.wr, m)  BY <1>1, <4>1, Apart
        <4>5. QED  BY <4>2, <4>3, <4>4
      <3>3. QED  BY <2>1, <3>1, <3>2
    <2>4. /\ Unread(q) \in Seq(Nat) /\ Len(Unread(q)) = Used(down)
          /\ Unread(down) \in Seq(Nat) /\ Len(Unread(down)) = Used(down)
      BY <1>1, <2>1, <2>2, UnreadIs
    <2>5. \A i \in 1 .. Used(down) : Unread(q)[i] = Unread(down)[i]
      <3>1. \A i \in 1 .. Used(down) : Unread(q)[i] = q.cell[Slot(q.rd, i - 1)]
        BY ONLY <2>1, <2>2, UnreadIs
      <3>2. \A i \in 1 .. Used(down) : Unread(down)[i] = down.cell[Slot(down.rd, i - 1)]
        BY ONLY <1>1, UnreadIs
      <3>3. q.rd = down.rd  BY <2>1
      <3>4. QED  BY ONLY <2>3, <3>1, <3>2, <3>3
    <2>6. Unread(q) = Unread(down)  BY <2>4, <2>5, SeqEqual
    <2>7. QED  BY <2>1, <2>2, <2>6
  <1>4. CASE Ok /\ down' = Filled(down, Len(chunk)) /\ pc' = "publish" /\ UNCHANGED <<desc, chunk>>
    <2>1. Len(chunk) \in 0 .. Len(chunk)  BY <1>1
    <2>2. Unread(down') = Unread(down) /\ Used(down') = Used(down) /\ down'.wr = down.wr
      BY <1>3, <1>4, <2>1
    <2>3. Hand' = Hand  BY <1>1, <1>4 DEF Hand
    <2>4. Stream4' = Stream4  BY <1>1, <2>2, <2>3 DEF Stream4
    <2>5. DownOrder'  BY <1>1, <1>4, <2>4, StreamKept DEF Ok
    <2>6. ASSUME NEW i \in 1 .. Len(chunk) PROVE down'.cell[desc.wr + i - 1] = chunk[i]
      <3>1. desc.wr + i - 1 \in Offsets /\ desc.wr + i - 1 \in desc.wr .. desc.wr + Len(chunk) - 1
            /\ (desc.wr + i - 1) - desc.wr + 1 = i
        BY <1>1, <1>2, SizeFacts DEF Offsets
      <3>2. down'.cell[desc.wr + i - 1] = chunk[(desc.wr + i - 1) - desc.wr + 1]
        BY <1>1, <1>4, <2>1, <3>1, FilledIs
      <3>3. QED  BY <3>1, <3>2
    <2>7. DownWindow'
      BY <1>1, <1>4, <2>2, <2>6 DEF DownWindow
    <2>8. QED  BY <2>5, <2>7
  <1>5. CASE Fails /\ (\E n \in 0 .. Len(chunk) : down' = Filled(down, n)) /\ End
    <2>1. Unread(down') = Unread(down)  BY <1>3, <1>5
    <2>2. errs' # 0  BY <1>1, <1>5 DEF Fails
    <2>3. pc' = "idle"  BY <1>5 DEF End
    <2>4. Hand' = <<>> /\ DownWindow'  BY <2>3 DEF Hand, DownWindow
    <2>5. DownOrder'  BY <1>1, <2>1, <2>2, <2>4, HandLost
    <2>6. QED  BY <2>4, <2>5
  <1>6. QED  BY <1>4, <1>5 DEF DownWrite, Go

LEMMA DownPublishes ==
  ASSUME RingType, RingType', DownWindow, DownOrder, DownPublish
  PROVE  DownWindow' /\ DownOrder'
  <1>1. /\ pc = "publish" /\ UNCHANGED <<got, rx, fed, dropped>> /\ pc' = "idle"
        /\ down \in Rings /\ Len(chunk) \in Nat /\ errs \in Nat /\ chunk \in Seq(Nat)
        /\ desc.wr = down.wr /\ Used(down) + Len(chunk) < Size /\ desc.wr + Len(chunk) <= Size
    BY DEF DownPublish, End, Rest, queues, RingType, DownWindow
  <1>2. \A i \in 1 .. Len(chunk) : down.cell[desc.wr + i - 1] = chunk[i]
    BY <1>1 DEF DownWindow
  <1>3. Hand = chunk /\ Hand' = <<>> /\ DownWindow'  BY <1>1 DEF Hand, DownWindow
  <1>4. ASSUME down' = Published(down)
        PROVE  Unread(down') = Unread(down) \o chunk
    <2>1. down.wr \in Offsets /\ down.rd \in Offsets /\ Used(down) \in 0 .. Size - 1
      BY <1>1, UsedIs DEF Rings
    <2>2. /\ down' \in Rings /\ down'.rd = down.rd /\ down'.cell = down.cell
          /\ down'.wr = Slot(down.wr, Len(chunk))
      <3>1. down' \in Rings  BY <1>1, <1>4, AdvanceType
      <3>2. QED  BY <1>1, <1>4, <3>1 DEF Published, Slot, Rings
    <2>3. /\ Used(down') = Used(down) + Len(chunk)
          /\ \A i \in 1 .. Used(down) : Unread(down')[i] = Unread(down)[i]
          /\ \A i \in 1 .. Len(chunk) : Unread(down')[Used(down) + i] = down.cell[Slot(down.wr, i - 1)]
      BY <1>1, <2>2, WriteOn
    <2>4. ASSUME NEW i \in 1 .. Len(chunk) PROVE Unread(down')[Used(down) + i] = chunk[i]
      <3>1. i - 1 \in 0 .. Size /\ down.wr + (i - 1) < Size /\ down.wr + (i - 1) = desc.wr + i - 1
        BY <1>1, <2>1, SizeFacts DEF Offsets
      <3>2. Slot(down.wr, i - 1) = (IF down.wr + (i - 1) < Size THEN down.wr + (i - 1)
                                    ELSE down.wr + (i - 1) - Size)
        BY <2>1, <3>1, SlotIs
      <3>3. Slot(down.wr, i - 1) = desc.wr + i - 1  BY <3>1, <3>2
      <3>4. QED  BY <1>2, <2>3, <3>3
    <2>5. /\ Unread(down') \in Seq(Nat) /\ Len(Unread(down')) = Used(down')
          /\ Unread(down) \in Seq(Nat) /\ Len(Unread(down)) = Used(down)
      BY <1>1, <2>2, UnreadIs
    <2> DEFINE t == Unread(down) \o chunk
    <2>6. /\ t \in Seq(Nat) /\ Len(t) = Used(down) + Len(chunk)
          /\ \A i \in 1 .. Used(down) + Len(chunk) :
               t[i] = IF i <= Used(down) THEN Unread(down)[i] ELSE chunk[i - Used(down)]
      BY <1>1, <2>5, ConcatProperties
    <2> HIDE DEF t
    <2>7. ASSUME NEW i \in 1 .. Used(down) + Len(chunk) PROVE Unread(down')[i] = t[i]
      <3>1. CASE i <= Used(down)
        <4>1. i \in 1 .. Used(down)  BY <1>1, <2>1, <3>1, SizeFacts
        <4>2. QED  BY <2>3, <2>6, <3>1, <4>1
      <3>2. CASE ~(i <= Used(down))
        <4>1. i - Used(down) \in 1 .. Len(chunk) /\ Used(down) + (i - Used(down)) = i
          BY <1>1, <2>1, <3>2, SizeFacts
        <4>2. Unread(down')[Used(down) + (i - Used(down))] = chunk[i - Used(down)]  BY <2>4, <4>1
        <4>3. QED  BY <2>6, <3>2, <4>1, <4>2
      <3>3. QED  BY <3>1, <3>2
    <2>8. Unread(down') = t  BY <2>3, <2>5, <2>6, <2>7, SeqEqual
    <2>9. QED  BY <2>8 DEF t
  <1>5. errs' = 0 => errs = 0  BY <1>1 DEF DownPublish, Ok, Fails
  <1>6. CASE down' = Published(down)
    <2> DEFINE u == Unread(down)
    <2>1. Unread(down') = u \o chunk  BY <1>4, <1>6
    <2>2. got \in Seq(Nat) /\ u \in Seq(Nat) /\ u \o chunk \in Seq(Nat) /\ got \o u \in Seq(Nat)
      BY <1>1, StreamIs, ConcatProperties
    <2>3. Stream4' = ((got \o (u \o chunk)) \o <<>>) \o rx  BY <1>1, <1>3, <2>1 DEF Stream4
    <2>4. Stream4 = ((got \o u) \o chunk) \o rx  BY <1>3 DEF Stream4
    <2> HIDE DEF u
    <2>5. got \o (u \o chunk) \in Seq(Nat)  BY <2>2, ConcatProperties
    <2>6. (got \o (u \o chunk)) \o <<>> = got \o (u \o chunk)
      <3>1. PICK v \in Seq(Nat) : v = got \o (u \o chunk)  BY ONLY <2>5, Zenon
      <3>2. v \o <<>> = v  BY ONLY v \in Seq(Nat), ConcatEmptySeq
      <3>3. QED  BY ONLY <3>1, <3>2, Zenon
    <2>7. (got \o u) \o chunk = got \o (u \o chunk)
      <3>1. got \in Seq(Nat) /\ u \in Seq(Nat) /\ chunk \in Seq(Nat)  BY <1>1, <2>2
      <3>2. QED  BY ONLY <3>1, Joined, Zenon
    <2>8. Stream4' = Stream4  BY Zenon, <2>3, <2>4, <2>6, <2>7
    <2>9. DownOrder'  BY <1>1, <1>5, <2>8, StreamKept
    <2>10. QED  BY <1>3, <2>9
  <1>7. CASE Fails /\ down' = down
    <2>1. errs' # 0  BY <1>1, <1>7 DEF Fails
    <2>2. DownOrder'  BY <1>1, <1>3, <1>7, <2>1, HandLost
    <2>3. QED  BY <1>3, <2>2
  <1>8. QED  BY <1>6, <1>7 DEF DownPublish

(* Steps on the side of the up ring.                                       *)
LEMMA ErrsGrow == ASSUME errs \in Nat, Ok \/ Fails PROVE errs' = 0 => errs = 0
  BY DEF Ok, Fails

LEMMA DownOthers ==
  ASSUME RingType, DownWindow, DownOrder,
         \/ TargetWrites \/ HostReads \/ Attach \/ Detach \/ Flash \/ UNCHANGED vars
         \/ Stream \/ UpDesc \/ UpRead \/ UpAck \/ Dump \/ Show \/ Consume \/ ConsumeAck
  PROVE  DownWindow' /\ DownOrder'
  <1>0. errs \in Nat  BY DEF RingType
  <1>1. CASE TargetWrites \/ HostReads \/ UNCHANGED vars
    <2>1. UNCHANGED <<down, got, rx, fed, dropped, pc, desc, chunk, errs>>
      BY <1>1 DEF TargetWrites, HostReads, vars, rings, queues, work, host, counts
    <2>2. QED  BY <2>1, DownQuiet
  <1>2. CASE Attach \/ Detach \/ Flash
    <2>1. UNCHANGED <<down, got, rx, fed, dropped, pc, desc, chunk>>
      BY <1>2 DEF Attach, Detach, Flash, Monitor, rings, queues, work, host
    <2>2. errs' = 0 => errs = 0  BY <1>0, <1>2, MonitorErrs
    <2>3. QED  BY <2>1, <2>2, DownQuiet
  <1>3. CASE Stream \/ UpDesc \/ UpRead \/ UpAck
    <2>1. /\ UNCHANGED <<down, got, rx, fed, dropped>>
          /\ pc \notin {"write", "publish"} /\ pc' \notin {"write", "publish"}
      BY <1>3 DEF Stream, UpDesc, UpRead, UpAck, Rest, rings, queues, Go
    <2>2. Ok \/ Fails  BY <1>3 DEF Stream, UpDesc, UpRead, UpAck
    <2>3. QED  BY <1>0, <2>1, <2>2, ErrsGrow, DownQuiet
  <1>4. CASE Dump \/ Show \/ Consume \/ ConsumeAck
    <2>1. /\ UNCHANGED <<down, got, rx, fed, dropped>>
          /\ pc \notin {"write", "publish"} /\ pc' \notin {"write", "publish"}
      BY <1>4 DEF Dump, Show, Consume, ConsumeAck, End, Rest, rings, queues, host, Go
    <2>2. Ok \/ Fails  BY <1>4 DEF Dump, Show, Consume, ConsumeAck
    <2>3. QED  BY <1>0, <2>1, <2>2, ErrsGrow, DownQuiet
  <1>5. QED  BY <1>1, <1>2, <1>3, <1>4

LEMMA RacedStays == [Next]_vars /\ ~raced' => ~raced
  <1> SUFFICES ASSUME [Next]_vars, ~raced' PROVE ~raced  OBVIOUS
  <1>1. CASE TargetReset  BY <1>1 DEF TargetReset
  <1>2. CASE Server
    BY <1>2 DEF Server, Stream, UpDesc, UpRead, UpAck, DownDesc, DownWrite, DownPublish, Show,
                Consume, ConsumeAck, Rest
  <1>3. CASE Attach \/ Detach \/ Flash \/ Dump \/ UNCHANGED vars
    BY <1>3 DEF Attach, Detach, Flash, Monitor, Dump, vars
  <1>4. CASE TargetWrites \/ TargetReads \/ HostReads \/ HostWrites
    BY <1>4 DEF TargetWrites, TargetReads, HostReads, HostWrites
  <1>5. QED  BY <1>1, <1>2, <1>3, <1>4 DEF Next

LEMMA InitDown == Init => DownInv
  <1> SUFFICES ASSUME Init PROVE DownInv  OBVIOUS
  <1>1. RingType  BY InitType
  <1>2. pc = "idle" /\ got = <<>> /\ rx = <<>> /\ fed = 0 /\ down = Fresh(up) /\ up \in Rings
    BY <1>1 DEF Init, RingType
  <1>3. Unread(down) = <<>>  BY <1>2, FreshIs
  <1>4. Stream4 = <<>>
    <2>1. Hand = <<>>  BY <1>2 DEF Hand
    <2>2. Stream4 = ((<<>> \o <<>>) \o <<>>) \o <<>>  BY <1>2, <1>3, <2>1 DEF Stream4
    <2>3. QED  BY <2>2
  <1>5. Increasing(<<>>) /\ Range(<<>>) = {}  BY DEF Increasing, Range
  <1>6. DownOrder  BY <1>2, <1>4, <1>5 DEF DownOrder
  <1>7. DownWindow  BY <1>2 DEF DownWindow
  <1>8. QED  BY <1>1, <1>6, <1>7 DEF DownInv

LEMMA NextDown == DownInv /\ [Next]_vars => DownInv'
  <1> SUFFICES ASSUME DownInv, [Next]_vars PROVE DownInv'  OBVIOUS
  <1>1. RingType /\ RingType'  BY TypeNext DEF DownInv
  <1>2. SUFFICES ASSUME ~raced' PROVE DownWindow' /\ DownOrder'
    BY <1>1 DEF DownInv
  <1>3. DownWindow /\ DownOrder  BY <1>2, RacedStays DEF DownInv
  <1>4. CASE Server
    <2>1. CASE Stream \/ UpDesc \/ UpRead \/ UpAck \/ Show \/ Consume \/ ConsumeAck
      BY <1>1, <1>3, <2>1, DownOthers
    <2>2. CASE DownDesc  BY <1>1, <1>3, <2>2, DownTakes
    <2>3. CASE DownWrite  BY <1>1, <1>3, <2>3, DownWrites
    <2>4. CASE DownPublish  BY <1>1, <1>3, <2>4, DownPublishes
    <2>5. QED  BY <1>4, <2>1, <2>2, <2>3, <2>4 DEF Server
  <1>5. CASE Attach \/ Detach \/ Flash \/ Dump \/ TargetWrites \/ HostReads \/ UNCHANGED vars
    BY <1>1, <1>3, <1>5, DownOthers
  <1>6. CASE TargetReads  BY <1>1, <1>3, <1>6, DownReads
  <1>7. CASE TargetReset  BY <1>1, <1>2, <1>3, <1>7, DownReset
  <1>8. CASE HostWrites  BY <1>1, <1>3, <1>8, DownHost
  <1>9. QED  BY <1>4, <1>5, <1>6, <1>7, <1>8 DEF Next

(* rtt_stream, down: what the host sends reaches the target in order and   *)
(* once, whichever accesses fail and however the ring wraps.               *)
THEOREM DownReliable == Spec => []DownKept
  <1>1. DownInv => DownKept
    <2> SUFFICES ASSUME DownInv, ~raced PROVE DownKept  BY DEF DownKept
    <2>1. RingType /\ DownOrder  BY DEF DownInv
    <2>2. 0 \notin 1 .. fed  BY <2>1 DEF RingType
    <2>3. 0 \notin Range(Stream4)  BY <2>1, <2>2 DEF DownOrder
    <2>4. QED  BY <2>1, <2>3 DEF DownKept, DownOrder, Stream4, Hand
  <1>2. QED  BY <1>1, InitDown, NextDown, PTL DEF Spec
-----------------------------------------------------------------------------
(* The up ring.                                                            *)
LEMMA PrefixIs ==
  ASSUME NEW s \in Seq(Nat), NEW i \in 1 .. Len(s)
  PROVE  Range(SubSeq(s, 1, i - 1)) = {s[j] : j \in 1 .. i - 1}
  <1>1. Len(s) \in Nat /\ i - 1 \in 0 .. Len(s) /\ i - 1 \in Nat /\ i - 1 \in Int  BY RangeIs
  <1>2. \A j \in 1 .. i - 1 : s[j] \in Nat  BY <1>1, RangeIs
  <1> DEFINE n == i - 1
  <1> HIDE DEF n
  <1>3. n \in 0 .. Len(s) /\ n \in Nat /\ n \in Int /\ \A j \in 1 .. n : s[j] \in Nat
    BY <1>1, <1>2 DEF n
  <1>4. SubSeq(s, 1, n) \in Seq(Nat) /\ Len(SubSeq(s, 1, n)) = n  BY <1>3, CutIs
  <1>5. \A j \in 1 .. n - 1 + 1 : SubSeq(s, 1, n)[j] = s[1 + j - 1]
    BY <1>3, SubSeqProperties
  <1>6. \A j \in 1 .. n : SubSeq(s, 1, n)[j] = s[j]
    <2>1. SUFFICES ASSUME NEW j \in 1 .. n PROVE SubSeq(s, 1, n)[j] = s[j]  OBVIOUS
    <2>2. j \in 1 .. n - 1 + 1 /\ 1 + j - 1 = j  BY <1>3
    <2>3. QED  BY <1>5, <2>2
  <1>7. Range(SubSeq(s, 1, n)) = {SubSeq(s, 1, n)[j] : j \in 1 .. n}  BY <1>4, RangeIs
  <1>8. Range(SubSeq(s, 1, n)) = {s[j] : j \in 1 .. n}  BY <1>6, <1>7
  <1>9. QED  BY <1>8 DEF n

(* A run of numbers behind low.                                            *)
LEMMA RunOf ==
  ASSUME NEW c \in Seq(Nat), NEW low \in Nat, \A i \in 1 .. Len(c) : c[i] = low + i
  PROVE  Increasing(c) /\ Range(c) = low + 1 .. low + Len(c)
  <1>1. Len(c) \in Nat /\ Range(c) = {c[i] : i \in 1 .. Len(c)}  BY RangeIs
  <1>2. Increasing(c)
    <2>1. \A i, j \in 1 .. Len(c) : i < j => c[i] < c[j]  BY <1>1
    <2>2. QED  BY <2>1, IncreasingIs
  <1>3. \A x \in Range(c) : x \in low + 1 .. low + Len(c)  BY <1>1
  <1>4. ASSUME NEW x \in low + 1 .. low + Len(c) PROVE x \in Range(c)
    <2>1. x - low \in 1 .. Len(c) /\ low + (x - low) = x  BY <1>1
    <2>2. c[x - low] = x  BY <2>1
    <2>3. QED  BY <1>1, <2>1, <2>2
  <1>5. QED  BY <1>2, <1>3, <1>4

LEMMA UpFacts ==
  ASSUME RingType, Newest
  PROVE  /\ up \in Rings /\ up.rd \in Offsets /\ up.wr \in Offsets
         /\ Used(up) \in 0 .. Size - 1 /\ Used(up) \in Nat /\ sent \in Nat /\ sent - Used(up) \in Nat
         /\ Ahead \in Nat /\ Low \in Nat /\ Port \in Seq(Nat) /\ con \in Seq(Nat) /\ errs \in Nat
         /\ out \in Seq(Nat) /\ tx \in Seq(Nat)
  <1>1. up \in Rings /\ sent \in Nat /\ con \in Seq(Nat) /\ errs \in Nat
        /\ out \in Seq(Nat) /\ tx \in Seq(Nat)
    BY DEF RingType
  <1>2. up.rd \in Offsets /\ up.wr \in Offsets  BY <1>1 DEF Rings
  <1>3. Used(up) \in 0 .. Size - 1 /\ Used(up) \in Nat  BY <1>2, UsedIs, SizeFacts
  <1>4. sent - Used(up) \in Nat  BY <1>1, <1>3 DEF Newest
  <1>5. Ahead \in Nat
    <2>1. Len(chunk) \in Nat /\ total \in Nat  BY DEF RingType
    <2>2. QED  BY <2>1 DEF Ahead
  <1>6. Low \in Nat  BY <1>4, <1>5 DEF Low
  <1>7. Port \in Seq(Nat)  BY <1>1, ConcatProperties DEF Port
  <1>8. QED  BY <1>1, <1>2, <1>3, <1>4, <1>5, <1>6, <1>7

(* A read of n bytes, a bytes behind RdOff.                                *)
LEMMA ReadBytes ==
  ASSUME RingType, Newest, NEW a \in Nat, NEW n \in Nat, a + n <= Used(up),
         desc.rd = Slot(up.rd, a), desc.rd + n <= Size
  PROVE  /\ Bytes(up, desc.rd, n) \in Seq(Nat) /\ Len(Bytes(up, desc.rd, n)) = n
         /\ \A i \in 1 .. n : Bytes(up, desc.rd, n)[i] = (sent - Used(up) + a) + i
  <1>1. /\ up \in Rings /\ up.rd \in Offsets /\ Used(up) \in 0 .. Size - 1 /\ sent \in Nat
        /\ desc.rd \in Offsets
    BY UpFacts DEF RingType
  <1>2. Bytes(up, desc.rd, n) \in Seq(Nat) /\ Len(Bytes(up, desc.rd, n)) = n
    BY <1>1, BytesIs
  <1>3. ASSUME NEW i \in 1 .. n
        PROVE  Bytes(up, desc.rd, n)[i] = (sent - Used(up) + a) + i
    <2>1. /\ desc.rd + i - 1 < Size /\ i - 1 \in 0 .. Size /\ i - 1 \in Nat
          /\ desc.rd + (i - 1) = desc.rd + i - 1
          /\ a + i \in 1 .. Used(up) /\ a + (i - 1) = (a + i) - 1 /\ a + (i - 1) <= Size
      BY <1>1, SizeFacts DEF Offsets
    <2>2. Bytes(up, desc.rd, n)[i] = up.cell[desc.rd + i - 1]  BY <1>1, <2>1, BytesIs
    <2>3. Slot(desc.rd, i - 1) = (IF desc.rd + (i - 1) < Size THEN desc.rd + (i - 1)
                                  ELSE desc.rd + (i - 1) - Size)
      BY <1>1, <2>1, SlotIs
    <2>4. Slot(desc.rd, i - 1) = desc.rd + i - 1  BY <2>1, <2>3
    <2>5. Slot(Slot(up.rd, a), i - 1) = Slot(up.rd, a + (i - 1))  BY <1>1, <2>1, SlotOfSlot
    <2>6. Unread(up)[a + i] = up.cell[Slot(up.rd, (a + i) - 1)]  BY <1>1, <2>1, UnreadIs
    <2>7. Unread(up)[a + i] = sent - Used(up) + (a + i)  BY <2>1 DEF Newest
    <2>8. Bytes(up, desc.rd, n)[i] = sent - Used(up) + (a + i)
      BY <2>1, <2>2, <2>4, <2>5, <2>6, <2>7
    <2>9. QED  BY <1>1, <2>8
  <1>4. QED  BY <1>2, <1>3

(* What was told stays told.                                               *)
LEMMA UpOrderKept ==
  ASSUME RingType, Newest, UpOrder, Port' = Port, con' = con, gone \subseteq gone',
         \A k \in 1 .. Low' : k \in 1 .. Low \cup gone',
         errs' = 0 => errs = 0 /\ Low <= Low', Low' \in Nat
  PROVE  UpOrder'
  <1>1. Low \in Nat /\ Port \in Seq(Nat) /\ con \in Seq(Nat)  BY UpFacts
  <1>2. Away \subseteq Away'  BY DEF Away
  <1>3. \A k \in 1 .. Low' : k \in Away' \cup Range(Port')
    <2>1. gone' \subseteq Away'  BY DEF Away
    <2>2. QED  BY <1>2, <2>1 DEF UpOrder
  <1>4. \A i \in DOMAIN Port' : Port'[i] > 0
          /\ \A k \in 1 .. Port'[i] - 1 : k \in Away' \cup Range(SubSeq(Port', 1, i - 1))
    <2>1. \A i \in DOMAIN Port : Port[i] > 0
            /\ \A k \in 1 .. Port[i] - 1 : k \in Away \cup Range(SubSeq(Port, 1, i - 1))
      BY DEF UpOrder
    <2>2. QED  BY <1>2, <2>1
  <1>5. ASSUME errs' = 0
        PROVE  /\ Increasing(Port') /\ Increasing(con') /\ Range(Port') \cap Range(con') = {}
               /\ \A i \in DOMAIN Port' : Port'[i] <= Low'
               /\ \A i \in DOMAIN con' : con'[i] <= Low'
    <2>1. errs = 0 /\ Low <= Low'  BY <1>5
    <2>2. /\ Increasing(Port) /\ Increasing(con) /\ Range(Port) \cap Range(con) = {}
          /\ \A i \in DOMAIN Port : Port[i] <= Low
          /\ \A i \in DOMAIN con : con[i] <= Low
      BY <2>1 DEF UpOrder
    <2>3. /\ \A i \in DOMAIN Port : Port[i] \in Nat
          /\ \A i \in DOMAIN con : con[i] \in Nat
      BY <1>1, RangeIs
    <2>4. QED  BY <1>1, <2>1, <2>2, <2>3
  <1>6. QED  BY <1>3, <1>4, <1>5 DEF UpOrder

LEMMA Below ==
  ASSUME NEW s \in Seq(Nat), NEW m \in Nat, \A i \in DOMAIN s : s[i] <= m
  PROVE  \A x \in Range(s) : x \in Nat /\ x <= m
  <1>1. SUFFICES ASSUME NEW x \in Range(s) PROVE x \in Nat /\ x <= m
    OBVIOUS
  <1>2. PICK i \in 1 .. Len(s) : x = s[i]  BY RangeIs
  <1>3. i \in DOMAIN s /\ s[i] \in Nat  BY RangeIs
  <1>4. QED  BY <1>2, <1>3

(* The next bytes go to the port.                                          *)
LEMMA PortGrows ==
  ASSUME RingType, Newest, UpOrder, NEW c \in Seq(Nat), \A i \in 1 .. Len(c) : c[i] = Low + i,
         Port' = Port \o c, Low' = Low + Len(c), UNCHANGED <<con, gone, errs>>
  PROVE  UpOrder'
  <1>1. Low \in Nat /\ Port \in Seq(Nat) /\ con \in Seq(Nat) /\ Len(c) \in Nat /\ Len(Port) \in Nat
    BY UpFacts, RangeIs
  <1>2. Increasing(c) /\ Range(c) = Low + 1 .. Low + Len(c)  BY <1>1, RunOf
  <1> DEFINE p == Port \o c
  <1>3. /\ p \in Seq(Nat) /\ Len(p) = Len(Port) + Len(c) /\ Range(p) = Range(Port) \cup Range(c)
        /\ \A i \in 1 .. Len(Port) + Len(c) : p[i] = IF i <= Len(Port) THEN Port[i] ELSE c[i - Len(Port)]
    BY <1>1, ConcatProperties, RangeJoin
  <1>4. Port' = p /\ Away' = Away  BY DEF Away
  <1> HIDE DEF p
  <1>5. \A k \in 1 .. Low : k \in Away \cup Range(Port)  BY DEF UpOrder
  <1>6. \A k \in 1 .. Low' : k \in Away' \cup Range(Port')
    <2>1. SUFFICES ASSUME NEW k \in 1 .. Low + Len(c) PROVE k \in Away \cup Range(p)
      BY <1>4
    <2>2. k \in 1 .. Low \/ k \in Low + 1 .. Low + Len(c)  BY <1>1
    <2>3. QED  BY <1>2, <1>3, <1>5, <2>2
  <1>7. ASSUME NEW i \in 1 .. Len(p)
        PROVE  p[i] > 0 /\ \A k \in 1 .. p[i] - 1 : k \in Away \cup Range(SubSeq(p, 1, i - 1))
    <2>1. Range(SubSeq(p, 1, i - 1)) = {p[j] : j \in 1 .. i - 1}  BY <1>3, PrefixIs
    <2>2. CASE i <= Len(Port)
      <3>1. i \in 1 .. Len(Port) /\ i \in DOMAIN Port /\ p[i] = Port[i]
        BY SMTT(30), <1>1, <1>3, <2>2, RangeIs
      <3>2. Port[i] > 0 /\ \A k \in 1 .. Port[i] - 1 : k \in Away \cup Range(SubSeq(Port, 1, i - 1))
        BY <3>1 DEF UpOrder
      <3>3. Range(SubSeq(Port, 1, i - 1)) = {Port[j] : j \in 1 .. i - 1}  BY <1>1, <3>1, PrefixIs
      <3>4. \A j \in 1 .. i - 1 : p[j] = Port[j]
        <4>1. SUFFICES ASSUME NEW j \in 1 .. i - 1 PROVE p[j] = Port[j]  OBVIOUS
        <4>2. j \in 1 .. Len(Port) + Len(c) /\ j <= Len(Port)
          <5>1. Len(Port) \in Nat /\ Len(c) \in Nat  BY <1>1
          <5>2. QED  BY ONLY <3>1, <5>1, j \in 1 .. i - 1
        <4>3. QED  BY <1>3, <4>2
      <3>5. {Port[j] : j \in 1 .. i - 1} = {p[j] : j \in 1 .. i - 1}  BY <3>4
      <3>6. Range(SubSeq(p, 1, i - 1)) = Range(SubSeq(Port, 1, i - 1))  BY Zenon, <2>1, <3>3, <3>5
      <3>7. QED  BY <3>1, <3>2, <3>6
    <2>3. CASE ~(i <= Len(Port))
      <3>1. i - Len(Port) \in 1 .. Len(c)  BY <1>1, <1>3, <2>3
      <3>2. p[i] = Low + (i - Len(Port))  BY <1>1, <1>3, <2>3, <3>1
      <3>3. p[i] > 0  BY <1>1, <3>1, <3>2
      <3>4. ASSUME NEW k \in 1 .. p[i] - 1 PROVE k \in Away \cup Range(SubSeq(p, 1, i - 1))
        <4>1. CASE k \in 1 .. Low
          <5>1. CASE k \in Range(Port)
            <6>1. PICK j \in 1 .. Len(Port) : Port[j] = k  BY <1>1, <5>1, RangeIs
            <6>2. j \in 1 .. Len(Port) + Len(c) /\ j <= Len(Port)  BY <1>1, <6>1
            <6>3. p[j] = k  BY <1>3, <6>1, <6>2
            <6>4. i \in Nat /\ j \in Nat  BY <1>1, <1>3, <6>2
            <6>5. j \in 1 .. i - 1  BY <1>1, <2>3, <6>1, <6>2, <6>4
            <6>6. QED  BY <2>1, <6>3, <6>5
          <5>2. QED  BY <1>5, <4>1, <5>1
        <4>2. CASE ~(k \in 1 .. Low)
          <5>1. k - Low \in 1 .. Len(c) /\ k - Low < i - Len(Port)
            <6>1. Low \in Nat /\ Len(Port) \in Nat /\ Len(c) \in Nat /\ i \in Nat  BY <1>1, <1>3
            <6>2. k \in 1 .. p[i] - 1  OBVIOUS
            <6>3. QED  BY ONLY <3>1, <3>2, <4>2, <6>1, <6>2
          <5> DEFINE m == k - Low
          <5>2. m \in 1 .. Len(c) /\ m < i - Len(Port) /\ Low + m = k
            <6>1. k \in Nat /\ k - Low \in Int  BY <1>1, <3>1, <3>2
            <6>2. Low + (k - Low) = k  BY <1>1, <6>1
            <6>3. QED  BY <5>1, <6>2
          <5> HIDE DEF m
          <5> DEFINE j == Len(Port) + m
          <5>3. m \in Nat /\ m > 0 /\ m <= Len(c) /\ i \in Nat  BY <1>1, <1>3, <5>2
          <5>4. j \in Nat /\ j > Len(Port) /\ j <= Len(Port) + Len(c) /\ j < i /\ j - Len(Port) = m
            BY SMTT(30), <1>1, <5>2, <5>3
          <5> HIDE DEF j
          <5>5. j \in 1 .. i - 1 /\ ~(j <= Len(Port)) /\ j \in 1 .. Len(Port) + Len(c)
            BY SMTT(30), <1>1, <5>3, <5>4
          <5>6. p[j] = c[m]  BY <1>3, <5>4, <5>5
          <5>7. p[j] = k  BY <5>2, <5>6
          <5>8. QED  BY <2>1, <5>5, <5>7
        <4>3. QED  BY <4>1, <4>2
      <3>5. QED  BY <3>3, <3>4
    <2>4. QED  BY <2>2, <2>3
  <1>8. \A i \in DOMAIN Port' : Port'[i] > 0
          /\ \A k \in 1 .. Port'[i] - 1 : k \in Away' \cup Range(SubSeq(Port', 1, i - 1))
    <2>1. DOMAIN p = 1 .. Len(p)  BY <1>3, RangeIs
    <2>2. QED  BY <1>4, <1>7, <2>1
  <1>9. ASSUME errs' = 0
        PROVE  /\ Increasing(Port') /\ Increasing(con') /\ Range(Port') \cap Range(con') = {}
               /\ \A i \in DOMAIN Port' : Port'[i] <= Low'
               /\ \A i \in DOMAIN con' : con'[i] <= Low'
    <2>1. /\ Increasing(Port) /\ Increasing(con) /\ Range(Port) \cap Range(con) = {}
          /\ \A i \in DOMAIN Port : Port[i] <= Low
          /\ \A i \in DOMAIN con : con[i] <= Low
      BY <1>9 DEF UpOrder
    <2>2. /\ \A x \in Range(Port) : x \in Nat /\ x <= Low
          /\ \A x \in Range(con) : x \in Nat /\ x <= Low
      <3>1. \A x \in Range(Port) : x \in Nat /\ x <= Low  BY <1>1, <2>1, Below
      <3>2. \A x \in Range(con) : x \in Nat /\ x <= Low  BY <1>1, <2>1, Below
      <3>3. QED  BY <3>1, <3>2
    <2>3. \A x \in Range(Port), y \in Range(c) : x < y  BY <1>1, <1>2, <2>2
    <2>4. Increasing(p)  BY <1>1, <1>2, <2>1, <2>3, IncreasingJoin DEF p
    <2>5. Range(p) \cap Range(con) = {}
      <3>1. \A y \in Range(c) : y \notin Range(con)  BY <1>1, <1>2, <2>2
      <3>2. QED  BY <1>3, <2>1, <3>1
    <2>6. \A x \in Range(p) : x <= Low + Len(c)
      <3>1. \A x \in Range(Port) : x <= Low + Len(c)  BY <1>1, <2>2
      <3>2. \A x \in Range(c) : x <= Low + Len(c)  BY <1>1, <1>2
      <3>3. QED  BY <1>3, <3>1, <3>2
    <2>7. \A i \in DOMAIN p : p[i] <= Low + Len(c)
      <3>1. \A i \in DOMAIN p : p[i] \in Range(p)  BY DEF Range
      <3>2. QED  BY <2>6, <3>1
    <2>8. \A i \in DOMAIN con : con[i] <= Low + Len(c)
      <3>1. \A i \in DOMAIN con : con[i] \in Nat  BY <1>1, RangeIs
      <3>2. QED  BY <1>1, <2>1, <3>1
    <2>9. QED  BY <1>4, <2>1, <2>4, <2>5, <2>7, <2>8
  <1>10. QED  BY <1>6, <1>8, <1>9 DEF UpOrder

(* The next bytes go to the console.                                       *)
LEMMA ConsoleGrows ==
  ASSUME RingType, Newest, UpOrder, NEW c \in Seq(Nat), \A i \in 1 .. Len(c) : c[i] = Low + i,
         con' = con \o c, Low' = Low + Len(c), Port' = Port, UNCHANGED <<gone, errs>>
  PROVE  UpOrder'
  <1>1. Low \in Nat /\ Port \in Seq(Nat) /\ con \in Seq(Nat) /\ Len(c) \in Nat
    BY UpFacts, RangeIs
  <1>2. Increasing(c) /\ Range(c) = Low + 1 .. Low + Len(c)  BY <1>1, RunOf
  <1>3. Range(con') = Range(con) \cup Range(c)  BY <1>1, RangeJoin
  <1>4. Away' = Away \cup Range(c)  BY <1>3 DEF Away
  <1>5. \A k \in 1 .. Low' : k \in Away' \cup Range(Port')
    <2>1. SUFFICES ASSUME NEW k \in 1 .. Low + Len(c) PROVE k \in (Away \cup Range(c)) \cup Range(Port)
      BY <1>4
    <2>2. k \in 1 .. Low \/ k \in Low + 1 .. Low + Len(c)  BY <1>1
    <2>3. k \in 1 .. Low => k \in Away \cup Range(Port)  BY DEF UpOrder
    <2>4. QED  BY <1>2, <2>2, <2>3
  <1>6. \A i \in DOMAIN Port' : Port'[i] > 0
          /\ \A k \in 1 .. Port'[i] - 1 : k \in Away' \cup Range(SubSeq(Port', 1, i - 1))
    BY <1>4 DEF UpOrder
  <1>7. ASSUME errs' = 0
        PROVE  /\ Increasing(Port') /\ Increasing(con') /\ Range(Port') \cap Range(con') = {}
               /\ \A i \in DOMAIN Port' : Port'[i] <= Low'
               /\ \A i \in DOMAIN con' : con'[i] <= Low'
    <2>1. /\ Increasing(Port) /\ Increasing(con) /\ Range(Port) \cap Range(con) = {}
          /\ \A i \in DOMAIN Port : Port[i] <= Low
          /\ \A i \in DOMAIN con : con[i] <= Low
      BY <1>7 DEF UpOrder
    <2>2. /\ \A x \in Range(Port) : x \in Nat /\ x <= Low
          /\ \A x \in Range(con) : x \in Nat /\ x <= Low
      <3>1. \A x \in Range(Port) : x \in Nat /\ x <= Low  BY <1>1, <2>1, Below
      <3>2. \A x \in Range(con) : x \in Nat /\ x <= Low  BY <1>1, <2>1, Below
      <3>3. QED  BY <3>1, <3>2
    <2>3. \A x \in Range(con), y \in Range(c) : x < y  BY <1>1, <1>2, <2>2
    <2>4. Increasing(con \o c)  BY <1>1, <1>2, <2>1, <2>3, IncreasingJoin
    <2>5. Range(Port) \cap Range(con') = {}
      <3>1. \A y \in Range(c) : y \notin Range(Port)  BY <1>1, <1>2, <2>2
      <3>2. QED  BY <1>3, <2>1, <3>1
    <2>6. \A x \in Range(con') : x <= Low + Len(c)
      <3>1. \A x \in Range(con) : x <= Low + Len(c)  BY <1>1, <2>2
      <3>2. \A x \in Range(c) : x <= Low + Len(c)  BY <1>1, <1>2
      <3>3. QED  BY <1>3, <3>1, <3>2
    <2>7. \A i \in DOMAIN con' : con'[i] <= Low + Len(c)
      <3>1. \A i \in DOMAIN con' : con'[i] \in Range(con')  BY DEF Range
      <3>2. QED  BY <2>6, <3>1
    <2>8. \A i \in DOMAIN Port : Port[i] <= Low + Len(c)
      <3>1. \A i \in DOMAIN Port : Port[i] \in Nat  BY <1>1, RangeIs
      <3>2. QED  BY <1>1, <2>1, <3>1
    <2>9. QED  BY <2>1, <2>4, <2>5, <2>7, <2>8
  <1>8. QED  BY <1>5, <1>6, <1>7 DEF UpOrder

(* A step that has nothing to do with the up ring.                         *)
LEMMA UpStill ==
  ASSUME RingType, Newest, UpOrder, UNCHANGED <<up, sent, con, gone>>, Port' = Port, Ahead' = Ahead,
         errs' = 0 => errs = 0
  PROVE  Newest' /\ UpOrder'
  <1>1. Low \in Nat  BY UpFacts
  <1>2. Low' = Low  BY DEF Low
  <1>3. Low' \in Nat /\ Low <= Low'  BY <1>1, <1>2
  <1>4. UpOrder'  BY <1>2, <1>3, UpOrderKept
  <1>5. Newest'  BY DEF Newest
  <1>6. QED  BY <1>4, <1>5

LEMMA UpQuiet ==
  ASSUME RingType, Newest, UpWindow, UpOrder, UNCHANGED <<up, sent, con, gone>>, Port' = Port,
         errs' = 0 => errs = 0,
         \/ UNCHANGED <<pc, desc, chunk, total>>
         \/ /\ pc \notin {"ack", "print", "consume"}
            /\ pc' \notin {"read", "ack", "print", "consume"}
         \/ pc = "print" /\ pc' = "consume" /\ UNCHANGED <<desc, total>>
  PROVE  Newest' /\ UpWindow' /\ UpOrder'
  <1>1. Ahead' = Ahead  BY DEF Ahead
  <1>2. Newest' /\ UpOrder'  BY <1>1, UpStill
  <1>3. UpWindow'  BY <1>1 DEF UpWindow
  <1>4. QED  BY <1>2, <1>3

(* A step that reads the descriptor.                                       *)
LEMMA UpDescRead ==
  ASSUME RingType, Newest, UpWindow, UpOrder, UNCHANGED <<up, sent, con, gone, total>>, Port' = Port,
         errs' = 0 => errs = 0, up.wr # up.rd, desc' = [wr |-> up.wr, rd |-> up.rd],
         (pc = "up" /\ pc' = "read") \/ (pc = "idle" /\ pc' = "print")
  PROVE  Newest' /\ UpWindow' /\ UpOrder'
  <1>1. Ahead = 0 /\ Ahead' = 0  BY DEF Ahead, RingType
  <1>2. Newest' /\ UpOrder'  BY <1>1, UpStill
  <1>3. up.rd \in Offsets /\ up.wr \in Offsets /\ Used(up) \in Nat  BY UpFacts
  <1>4. Slot(up.rd, 0) = up.rd
    <2>1. 0 \in 0 .. Size  BY SizeFacts
    <2>2. Slot(up.rd, 0) = (IF up.rd + 0 < Size THEN up.rd + 0 ELSE up.rd + 0 - Size)
      BY <1>3, <2>1, SlotIs
    <2>3. QED  BY <1>3, <2>2, SizeFacts DEF Offsets
  <1>5. desc'.rd = up.rd /\ desc'.wr = up.wr  OBVIOUS
  <1>6. Used(desc') = Used(up)  BY <1>5 DEF Used
  <1>7. 0 + Used(desc') <= Used(up)  BY <1>3, <1>6
  <1>8. UpWindow'  BY <1>1, <1>4, <1>5, <1>7 DEF UpWindow
  <1>9. QED  BY <1>2, <1>8

(* A step that reads bytes for the port.                                   *)
LEMMA UpReads ==
  ASSUME RingType, Newest, UpWindow, UpOrder, pc = "read", pc' = "ack",
         chunk' = Bytes(up, desc.rd, Count), tx' = tx \o chunk',
         UNCHANGED <<up, sent, con, gone, total, desc, out, errs>>
  PROVE  Newest' /\ UpWindow' /\ UpOrder'
  <1>1. /\ up.rd \in Offsets /\ Used(up) \in Nat /\ out \in Seq(Nat) /\ tx \in Seq(Nat) /\ Ahead = 0
        /\ sent - Used(up) \in Nat /\ Low = sent - Used(up) /\ sent \in Nat
    <2>1. Ahead = 0  BY DEF Ahead
    <2>2. QED  BY <2>1, UpFacts DEF Low
  <1>2. desc.rd = Slot(up.rd, 0) /\ Used(desc) <= Used(up) /\ desc.wr # desc.rd
        /\ desc.rd \in Offsets /\ desc.wr \in Offsets /\ Used(desc) \in Nat
    <2>1. desc.rd \in Offsets /\ desc.wr \in Offsets  BY DEF RingType
    <2>2. Used(desc) \in Nat  BY <2>1, UsedIs, SizeFacts
    <2>3. desc.rd = Slot(up.rd, 0) /\ 0 + Used(desc) <= Used(up) /\ desc.rd # desc.wr
      BY <1>1 DEF UpWindow
    <2>4. QED  BY <1>1, <2>1, <2>2, <2>3
  <1>3. Count \in Nat /\ Count <= Used(up) /\ desc.rd + Count <= Size
    <2>1. Run(desc) <= Used(desc)  BY <1>2, RunIs
    <2>2. QED  BY <1>1, <1>2, <2>1, CountIs
  <1> DEFINE c == Bytes(up, desc.rd, Count)
  <1>4. c \in Seq(Nat) /\ Len(c) = Count /\ \A i \in 1 .. Count : c[i] = Low + i
    <2>1. 0 \in Nat /\ 0 + Count <= Used(up)  BY <1>1, <1>3
    <2>2. c \in Seq(Nat) /\ Len(c) = Count /\ \A i \in 1 .. Count : c[i] = (sent - Used(up) + 0) + i
      BY <1>2, <1>3, <2>1, ReadBytes
    <2>3. sent - Used(up) + 0 = Low  BY <1>1
    <2>4. QED  BY <2>2, <2>3
  <1>5. chunk' = c  OBVIOUS
  <1> HIDE DEF c
  <1>6. Port' = Port \o c
    <2>1. Port' = out \o (tx \o c)  BY <1>5 DEF Port
    <2>2. (out \o tx) \o c = out \o (tx \o c)  BY <1>1, <1>4, Joined
    <2>3. QED  BY Zenon, <2>1, <2>2 DEF Port
  <1>7. Ahead' = Count  BY <1>4, <1>5 DEF Ahead
  <1>8. Low' = Low + Len(c)  BY <1>1, <1>3, <1>4, <1>7 DEF Low
  <1>9. UpOrder'  BY <1>4, <1>6, <1>8, PortGrows
  <1>10. Newest'  BY DEF Newest
  <1>11. Slot(up.rd, 0) = up.rd
    <2>1. 0 \in 0 .. Size  BY SizeFacts
    <2>2. Slot(up.rd, 0) = (IF up.rd + 0 < Size THEN up.rd + 0 ELSE up.rd + 0 - Size)
      BY <1>1, <2>1, SlotIs
    <2>3. QED  BY <1>1, <2>2, SizeFacts DEF Offsets
  <1>12. UpWindow'  BY <1>2, <1>3, <1>7, <1>11 DEF UpWindow
  <1>13. QED  BY <1>9, <1>10, <1>12

(* RdOff is written back, or the write is lost.                            *)
LEMMA UpAcks ==
  ASSUME RingType, Newest, UpWindow, UpOrder, UpAck \/ ConsumeAck
  PROVE  Newest' /\ UpWindow' /\ UpOrder'
  <1>1. /\ up \in Rings /\ up.rd \in Offsets /\ Used(up) \in Nat /\ Ahead \in Nat /\ Low \in Nat
        /\ sent \in Nat /\ sent - Used(up) \in Nat /\ errs \in Nat /\ Used(up) \in 0 .. Size - 1
    BY UpFacts
  <1>2. UNCHANGED <<sent, con, gone, out, tx>> /\ pc' \in {"down", "idle"}
    BY DEF UpAck, ConsumeAck, Rest, queues, Go, End
  <1>3. Ahead' = 0 /\ UpWindow' /\ Port' = Port  BY <1>2 DEF Ahead, UpWindow, Port
  <1>4. CASE up' = up /\ Fails
    <2>1. errs' # 0  BY <1>1, <1>4 DEF Fails
    <2>2. Newest'  BY <1>2, <1>4 DEF Newest
    <2>3. Low' = sent - Used(up)  BY <1>1, <1>2, <1>3, <1>4 DEF Low
    <2>4. Low = sent - Used(up) + Ahead  BY DEF Low
    <2>5. Low' \in Nat /\ Low' <= Low  BY <1>1, <2>3, <2>4
    <2>6. \A k \in 1 .. Low' : k \in 1 .. Low  BY <1>1, <2>5
    <2>7. UpOrder'  BY <1>2, <1>3, <2>1, <2>5, <2>6, UpOrderKept
    <2>8. QED  BY <1>3, <2>2, <2>7
  <1>5. CASE up' = Advance(up) /\ (Ok \/ Fails)
    <2>1. desc.rd \in Offsets /\ Ahead <= Used(up) /\ Slot(desc.rd, Len(chunk)) = Slot(up.rd, Ahead)
      <3>1. CASE UpAck
        <4>1. pc = "ack" /\ Ahead = Len(chunk)  BY <3>1 DEF UpAck, Ahead
        <4>2. QED  BY <4>1 DEF UpWindow, RingType
      <3>2. CASE ConsumeAck
        <4>1. pc = "consume" /\ chunk = <<>>  BY <3>2 DEF ConsumeAck, RingType
        <4>2. desc.rd = Slot(up.rd, Ahead) /\ Ahead + Used(desc) <= Used(up)  BY <4>1 DEF UpWindow
        <4>3. desc.rd \in Offsets /\ desc.wr \in Offsets  BY DEF RingType
        <4>4. Used(desc) \in Nat  BY <4>3, UsedIs, SizeFacts
        <4>5. Ahead <= Used(up)  BY <1>1, <4>2, <4>4
        <4>6. Slot(Slot(up.rd, Ahead), 0) = Slot(up.rd, Ahead + 0)
          <5>1. Ahead + 0 <= Size  BY <1>1, <4>5, SizeFacts
          <5>2. QED  BY <1>1, <5>1, SlotOfSlot
        <4>7. Len(chunk) = 0 /\ Ahead + 0 = Ahead  BY <1>1, <4>1
        <4>8. QED  BY <4>2, <4>3, <4>5, <4>6, <4>7
      <3>3. QED  BY <3>1, <3>2
    <2>2. up' = [up EXCEPT !.rd = Slot(up.rd, Ahead)]  BY <1>5, <2>1 DEF Advance, Slot
    <2>3. Ahead \in 0 .. Used(up)  BY <1>1, <2>1
    <2>4. /\ Used(up') = Used(up) - Ahead
          /\ \A i \in 1 .. Used(up) - Ahead : Unread(up')[i] = Unread(up)[Ahead + i]
      BY <1>1, <2>2, <2>3, ReadOff
    <2>5. Newest'
      <3>1. Used(up') <= sent'  BY <1>1, <1>2, <2>3, <2>4
      <3>2. ASSUME NEW i \in 1 .. Used(up') PROVE Unread(up')[i] = sent' - Used(up') + i
        <4>1. i \in 1 .. Used(up) - Ahead /\ Ahead + i \in 1 .. Used(up)  BY <1>1, <2>3, <2>4
        <4>2. Unread(up)[Ahead + i] = sent - Used(up) + (Ahead + i)  BY <4>1 DEF Newest
        <4>3. Unread(up')[i] = sent - Used(up) + (Ahead + i)  BY <2>4, <4>1, <4>2
        <4>4. QED  BY <1>1, <1>2, <2>4, <4>1, <4>3
      <3>3. QED  BY <3>1, <3>2 DEF Newest
    <2>6. Low' = sent - (Used(up) - Ahead) + 0  BY <1>2, <1>3, <2>4 DEF Low
    <2>7. Low = sent - Used(up) + Ahead  BY DEF Low
    <2>8. Low' = Low /\ Low' \in Nat /\ Low <= Low'  BY <1>1, <2>3, <2>6, <2>7
    <2>9. errs' = 0 => errs = 0  BY <1>1, <1>5, ErrsGrow
    <2>10. UpOrder'  BY <1>2, <1>3, <2>8, <2>9, UpOrderKept
    <2>11. QED  BY <1>3, <2>5, <2>10
  <1>6. QED  BY <1>4, <1>5 DEF UpAck, ConsumeAck

(* A step that shows bytes on the console.                                 *)
LEMMA UpShows ==
  ASSUME RingType, Newest, UpWindow, UpOrder, Show
  PROVE  Newest' /\ UpWindow' /\ UpOrder'
  <1>1. /\ UNCHANGED <<up, sent, gone, out, tx, errs>> /\ pc = "print" /\ pc' = "print"
        /\ total < DumpMax /\ desc.rd # desc.wr
        /\ con' = con \o Bytes(up, desc.rd, Shown) /\ total' = total + Shown
        /\ desc' = [desc EXCEPT !.rd = (desc.rd + Shown) % Size]
    BY DEF Show, Ok, Rest, rings, queues, Unfinished, Shown
  <1>2. /\ up.rd \in Offsets /\ Used(up) \in 0 .. Size - 1 /\ Used(up) \in Nat /\ sent \in Nat
        /\ sent - Used(up) \in Nat /\ total \in Nat /\ Ahead = total /\ Low = sent - Used(up) + total
    <2>1. Ahead = total  BY <1>1 DEF Ahead
    <2>2. QED  BY <2>1, UpFacts DEF Low, RingType
  <1>3. /\ desc \in [wr : Offsets, rd : Offsets] /\ desc.rd \in Offsets /\ desc.wr \in Offsets
        /\ desc.rd = Slot(up.rd, total) /\ total + Used(desc) <= Used(up)
    BY <1>1, <1>2 DEF RingType, UpWindow
  <1>4. Used(desc) \in 0 .. Size - 1 /\ Used(desc) \in Nat /\ Slot(desc.rd, Used(desc)) = desc.wr
    BY <1>3, UsedIs, SizeFacts
  <1>5. /\ Shown \in Nat /\ desc.rd + Shown <= Size /\ Shown <= Used(desc)
        /\ total + Shown <= Used(up) /\ total + Shown <= Size
    <2>1. Run(desc) <= Used(desc)  BY <1>1, <1>3, RunIs
    <2>2. Shown \in Nat /\ Shown <= Run(desc) /\ Run(desc) \in Nat /\ desc.rd + Shown <= Size
      BY <1>1, ShownIs
    <2>3. Shown <= Used(desc)  BY <1>4, <2>1, <2>2
    <2>4. QED  BY <1>2, <1>3, <1>4, <2>2, <2>3, SizeFacts
  <1> DEFINE c == Bytes(up, desc.rd, Shown)
  <1>6. c \in Seq(Nat) /\ Len(c) = Shown /\ \A i \in 1 .. Shown : c[i] = Low + i
    BY <1>2, <1>3, <1>5, ReadBytes
  <1>7. con' = con \o c  BY <1>1
  <1> HIDE DEF c
  <1>8. Ahead' = total + Shown  BY <1>1 DEF Ahead
  <1>9. Low' = Low + Len(c)  BY <1>1, <1>2, <1>5, <1>6, <1>8 DEF Low
  <1>10. UpOrder'
    <2>1. Port' = Port  BY <1>1 DEF Port
    <2>2. QED  BY <1>1, <1>6, <1>7, <1>9, <2>1, ConsoleGrows
  <1>11. Newest'  BY <1>1 DEF Newest
  <1>12. desc'.wr = desc.wr /\ desc'.rd = Slot(desc.rd, Shown)  BY <1>1, <1>3 DEF Slot
  <1>13. desc'.rd = Slot(up.rd, total + Shown)
    BY <1>2, <1>3, <1>5, <1>12, SlotOfSlot
  <1>14. Used(desc') = Used(desc) - Shown
    <2> DEFINE n == Used(desc) - Shown
    <2>1. n \in 0 .. Size - 1 /\ n \in Nat /\ Shown + n = Used(desc) /\ Used(desc) <= Size
      BY <1>4, <1>5, SizeFacts
    <2> HIDE DEF n
    <2>2. Slot(Slot(desc.rd, Shown), n) = Slot(desc.rd, Shown + n)
      BY <1>3, <1>5, <2>1, SlotOfSlot
    <2>3. desc'.wr = Slot(desc'.rd, n)  BY <1>4, <1>12, <2>1, <2>2
    <2>4. desc'.rd \in Offsets
      <3>1. Shown \in 0 .. Size  BY <1>4, <1>5, SizeFacts
      <3>2. QED  BY <1>3, <1>12, <3>1, SlotIs
    <2>5. Used(desc') = n  BY <2>1, <2>3, <2>4, UsedOfSlot
    <2>6. QED  BY <2>5 DEF n
  <1>15. (total + Shown) + Used(desc') <= Used(up)  BY <1>2, <1>3, <1>4, <1>5, <1>14
  <1>16. UpWindow'  BY <1>1, <1>8, <1>13, <1>15 DEF UpWindow
  <1>17. QED  BY <1>10, <1>11, <1>16

(* The target, which writes between any two accesses of the server.        *)
LEMMA UpTarget ==
  ASSUME RingType, RingType', Newest, UpWindow, UpOrder, TargetWrites
  PROVE  Newest' /\ UpWindow' /\ UpOrder'
  <1>1. /\ up \in Rings /\ up.rd \in Offsets /\ up.wr \in Offsets /\ Used(up) \in 0 .. Size - 1
        /\ Used(up) \in Nat /\ sent \in Nat /\ sent - Used(up) \in Nat /\ Ahead \in Nat /\ Low \in Nat
    BY UpFacts
  <1>2. /\ Used(up) < Size - 1 /\ sent' = sent + 1
        /\ up' = [up EXCEPT !.cell[up.wr] = sent + 1, !.wr = (up.wr + 1) % Size]
        /\ UNCHANGED <<out, tx, con, gone, errs, pc, desc, chunk, total>>
    BY DEF TargetWrites, queues, work, host, counts
  <1>3. /\ up' \in Rings /\ up'.rd = up.rd /\ up'.wr = Slot(up.wr, 1) /\ up'.cell[up.wr] = sent + 1
        /\ \A o \in Offsets : o # up.wr => up'.cell[o] = up.cell[o]
    <2>1. up' = [wr |-> (up.wr + 1) % Size, rd |-> up.rd, cell |-> [up.cell EXCEPT ![up.wr] = sent + 1]]
      BY <1>1, <1>2 DEF Rings
    <2>2. sent + 1 \in Nat  BY <1>1
    <2>3. QED  BY <1>1, <2>1, <2>2, WroteIs
  <1>4. Slot(up.wr, 0) = up.wr
    <2>1. 0 \in 0 .. Size  BY SizeFacts
    <2>2. Slot(up.wr, 0) = (IF up.wr + 0 < Size THEN up.wr + 0 ELSE up.wr + 0 - Size)
      BY <1>1, <2>1, SlotIs
    <2>3. QED  BY <1>1, <2>2, SizeFacts DEF Offsets
  <1>5. \A i \in 1 .. Used(up) : up'.cell[Slot(up.rd, i - 1)] = up.cell[Slot(up.rd, i - 1)]
    <2>1. SUFFICES ASSUME NEW i \in 1 .. Used(up)
                   PROVE  up'.cell[Slot(up.rd, i - 1)] = up.cell[Slot(up.rd, i - 1)]
      OBVIOUS
    <2>2. 0 \in 0 .. Size - 1 /\ Used(up) + 0 < Size  BY <1>1, SizeFacts
    <2>3. Slot(up.rd, i - 1) # Slot(up.wr, 0)  BY <1>1, <2>2, Apart
    <2>4. Slot(up.rd, i - 1) \in Offsets  BY <1>1, UnreadIs
    <2>5. QED  BY <1>3, <1>4, <2>3, <2>4
  <1>6. /\ Used(up') = Used(up) + 1
        /\ \A i \in 1 .. Used(up) : Unread(up')[i] = Unread(up)[i]
        /\ \A i \in 1 .. 1 : Unread(up')[Used(up) + i] = up'.cell[Slot(up.wr, i - 1)]
    <2>1. 1 \in Nat /\ Used(up) + 1 < Size  BY <1>1, <1>2, SizeFacts
    <2>2. QED  BY <1>1, <1>3, <1>5, <2>1, WriteOn
  <1>7. Unread(up')[Used(up) + 1] = sent + 1
    <2>1. 1 \in 1 .. 1 /\ 1 - 1 = 0  OBVIOUS
    <2>2. Unread(up')[Used(up) + 1] = up'.cell[Slot(up.wr, 0)]  BY <1>6, <2>1
    <2>3. QED  BY <1>3, <1>4, <2>2
  <1>8. Newest'
    <2>1. Used(up') <= sent'  BY <1>1, <1>2, <1>6
    <2>2. ASSUME NEW i \in 1 .. Used(up') PROVE Unread(up')[i] = sent' - Used(up') + i
      <3>1. CASE i \in 1 .. Used(up)
        <4>1. Unread(up')[i] = sent - Used(up) + i  BY <1>6, <3>1 DEF Newest
        <4>2. QED  BY <1>1, <1>2, <1>6, <3>1, <4>1
      <3>2. CASE ~(i \in 1 .. Used(up))
        <4>1. i = Used(up) + 1  BY <1>1, <1>6, <3>2
        <4>2. sent' - Used(up') + i = sent + 1  BY <1>1, <1>2, <1>6, <4>1
        <4>3. QED  BY <1>7, <4>1, <4>2
      <3>3. QED  BY <3>1, <3>2
    <2>3. QED  BY <2>1, <2>2 DEF Newest
  <1>9. Ahead' = Ahead /\ Port' = Port  BY <1>2 DEF Ahead, Port
  <1>10. UpOrder'
    <2>1. Low' = (sent + 1) - (Used(up) + 1) + Ahead  BY <1>2, <1>6, <1>9 DEF Low
    <2>2. Low = sent - Used(up) + Ahead  BY DEF Low
    <2>3. Low' = Low  BY <1>1, <2>1, <2>2
    <2>4. Low' \in Nat /\ Low <= Low'  BY <1>1, <2>3
    <2>5. QED  BY <1>2, <1>9, <2>3, <2>4, UpOrderKept
  <1>11. UpWindow'
    <2>1. desc.rd \in Offsets /\ desc.wr \in Offsets  BY DEF RingType
    <2>2. Used(desc) \in Nat  BY <2>1, UsedIs, SizeFacts
    <2>3. pc \in {"read", "print", "consume"} =>
            desc.rd = Slot(up.rd, Ahead) /\ Ahead + Used(desc) <= Used(up')
      BY <1>1, <1>6, <2>2 DEF UpWindow
    <2>4. pc = "ack" => desc.rd = up.rd /\ Ahead <= Used(up')  BY <1>1, <1>6 DEF UpWindow
    <2>5. pc = "read" => desc.rd # desc.wr  BY DEF UpWindow
    <2>6. Used(desc') = Used(desc) /\ up'.rd = up.rd  BY <1>2, <1>3
    <2>7. QED  BY <1>2, <1>9, <2>3, <2>4, <2>5, <2>6 DEF UpWindow
  <1>12. QED  BY <1>8, <1>10, <1>11

LEMMA UpReset ==
  ASSUME RingType, Newest, UpWindow, UpOrder, TargetReset, ~raced'
  PROVE  Newest' /\ UpWindow' /\ UpOrder'
  <1>1. /\ up \in Rings /\ Used(up) \in 0 .. Size - 1 /\ Used(up) \in Nat /\ sent \in Nat
        /\ sent - Used(up) \in Nat /\ errs \in Nat
    BY UpFacts
  <1>2. /\ pc = "idle" /\ up' = Fresh(up) /\ gone' = gone \cup Range(Unread(up))
        /\ UNCHANGED <<pc, desc, chunk, total, out, tx, con, errs, sent>>
    BY DEF TargetReset, queues, work
  <1>3. Ahead = 0 /\ Ahead' = 0 /\ Port' = Port  BY <1>2 DEF Ahead, Port
  <1>4. Used(up') = 0  BY <1>1, <1>2, FreshIs
  <1>5. UpWindow'  BY <1>2 DEF UpWindow
  <1>6. Newest'
    <2>1. Used(up') <= sent'  BY <1>1, <1>2, <1>4
    <2>2. \A i \in 1 .. Used(up') : FALSE  BY <1>4
    <2>3. QED  BY <2>1, <2>2 DEF Newest
  <1>7. Low = sent - Used(up)  BY <1>1, <1>3 DEF Low
  <1>8. Low' = sent  BY <1>1, <1>2, <1>3, <1>4 DEF Low
  <1>9. \A k \in 1 .. sent : k \in 1 .. Low \cup gone'
    <2>1. SUFFICES ASSUME NEW k \in 1 .. sent, ~(k \in 1 .. Low) PROVE k \in Range(Unread(up))
      BY <1>2
    <2> DEFINE i == k - Low
    <2>2. i \in 1 .. Used(up) /\ sent - Used(up) + i = k  BY <1>1, <1>7, <2>1
    <2> HIDE DEF i
    <2>3. Unread(up)[i] = k  BY <2>2 DEF Newest
    <2>4. Unread(up) \in Seq(Nat) /\ Len(Unread(up)) = Used(up)  BY <1>1, UnreadIs
    <2>5. QED  BY <2>2, <2>3, <2>4, RangeIs
  <1>10. Low' \in Nat /\ Low <= Low'  BY <1>1, <1>7, <1>8
  <1>11. UpOrder'  BY <1>2, <1>3, <1>8, <1>9, <1>10, UpOrderKept
  <1>12. QED  BY <1>5, <1>6, <1>11

LEMMA UpOthers ==
  ASSUME RingType, Newest, UpWindow, UpOrder,
         \/ TargetReads \/ HostReads \/ HostWrites \/ Attach \/ Detach \/ Flash \/ UNCHANGED vars
         \/ Stream \/ DownDesc \/ DownWrite \/ DownPublish \/ Consume
  PROVE  Newest' /\ UpWindow' /\ UpOrder'
  <1>0. errs \in Nat /\ out \in Seq(Nat) /\ tx \in Seq(Nat)  BY DEF RingType
  <1>1. CASE TargetReads \/ HostWrites \/ UNCHANGED vars
    <2>1. UNCHANGED <<up, sent, con, gone, out, tx, pc, desc, chunk, total, errs>>
      BY <1>1 DEF TargetReads, HostWrites, vars, rings, queues, work, host, counts
    <2>2. Port' = Port  BY <2>1 DEF Port
    <2>3. QED  BY <2>1, <2>2, UpQuiet
  <1>2. CASE Attach \/ Detach \/ Flash
    <2>1. UNCHANGED <<up, sent, con, gone, out, tx, pc, desc, chunk, total>>
      BY <1>2 DEF Attach, Detach, Flash, Monitor, rings, queues, work, host
    <2>2. errs' = 0 => errs = 0  BY <1>0, <1>2, MonitorErrs
    <2>3. Port' = Port  BY <2>1 DEF Port
    <2>4. QED  BY <1>0, <2>1, <2>2, <2>3, UpQuiet
  <1>3. CASE Stream \/ DownDesc \/ DownWrite \/ DownPublish
    <2>1. /\ UNCHANGED <<up, sent, con, gone, out, tx>>
          /\ pc \notin {"ack", "print", "consume"} /\ pc' \notin {"read", "ack", "print", "consume"}
      BY <1>3 DEF Stream, DownDesc, DownWrite, DownPublish, Rest, End, rings, queues, Go
    <2>2. Ok \/ Fails  BY <1>3 DEF Stream, DownDesc, DownWrite, DownPublish
    <2>3. Port' = Port  BY <2>1 DEF Port
    <2>4. QED  BY <1>0, <2>1, <2>2, <2>3, ErrsGrow, UpQuiet
  <1>4. CASE Consume
    <2>1. /\ UNCHANGED <<up, sent, con, gone, out, tx, desc, total>> /\ pc = "print" /\ pc' = "consume"
      BY <1>4 DEF Consume, Rest, rings, queues, Go
    <2>2. Ok \/ Fails  BY <1>4 DEF Consume
    <2>3. Port' = Port  BY <2>1 DEF Port
    <2>4. QED  BY <1>0, <2>1, <2>2, <2>3, ErrsGrow, UpQuiet
  <1>5. CASE HostReads
    <2>1. /\ tx # <<>> /\ out' = Append(out, Head(tx)) /\ tx' = Tail(tx)
          /\ UNCHANGED <<up, sent, con, gone, pc, desc, chunk, total, errs>>
      BY <1>5 DEF HostReads, rings, work, counts
    <2>2. Head(tx) \in Nat /\ Tail(tx) \in Seq(Nat) /\ tx = <<Head(tx)>> \o Tail(tx)
      BY <1>0, <2>1, HeadTailIs
    <2>3. <<Head(tx)>> \in Seq(Nat) /\ Append(out, Head(tx)) = out \o <<Head(tx)>>
      BY <1>0, <2>2, AppendIs, SingleIs
    <2>4. (out \o <<Head(tx)>>) \o Tail(tx) = out \o (<<Head(tx)>> \o Tail(tx))
      BY <1>0, <2>2, <2>3, Joined
    <2>5. out' \o tx' = out \o tx  BY Zenon, <2>1, <2>2, <2>3, <2>4
    <2>6. Port' = Port  BY <2>5 DEF Port
    <2>7. QED  BY <2>1, <2>6, UpQuiet
  <1>6. QED  BY <1>1, <1>2, <1>3, <1>4, <1>5

(* The steps of the server that read the up ring.                          *)
LEMMA UpSteps ==
  ASSUME RingType, Newest, UpWindow, UpOrder, UpDesc \/ Dump \/ UpRead
  PROVE  Newest' /\ UpWindow' /\ UpOrder'
  <1>0. errs \in Nat  BY DEF RingType
  <1>1. CASE UpDesc \/ Dump
    <2>1. UNCHANGED <<up, sent, con, gone, out, tx, chunk, total>>
      BY <1>1 DEF UpDesc, Dump, Rest, rings, queues, host
    <2>2. Ok \/ Fails  BY <1>1 DEF UpDesc, Dump
    <2>3. Port' = Port /\ (errs' = 0 => errs = 0)  BY <1>0, <2>1, <2>2, ErrsGrow DEF Port
    <2>4. \/ UNCHANGED <<desc, pc>>
          \/ pc = "up" /\ pc' = "down"
          \/ /\ up.wr # up.rd /\ desc' = [wr |-> up.wr, rd |-> up.rd]
             /\ (pc = "up" /\ pc' = "read") \/ (pc = "idle" /\ pc' = "print")
      BY <1>1 DEF UpDesc, Dump, Go, Readable
    <2>5. QED  BY <2>1, <2>3, <2>4, UpQuiet, UpDescRead
  <1>2. CASE UpRead
    <2>1. UNCHANGED <<up, sent, con, gone, out, desc, total>> /\ pc = "read"
      BY <1>2 DEF UpRead, Rest, rings
    <2>2. CASE chunk' = Bytes(up, desc.rd, Count) /\ tx' = tx \o chunk' /\ pc' = "ack" /\ errs' = errs
      BY <2>1, <2>2, UpReads
    <2>3. CASE Fails /\ tx' = tx /\ pc' = "down"
      <3>1. Port' = Port /\ (errs' = 0 => errs = 0)  BY <1>0, <2>1, <2>3, ErrsGrow DEF Port
      <3>2. QED  BY <2>1, <2>3, <3>1, UpQuiet
    <2>4. QED  BY <1>2, <2>2, <2>3 DEF UpRead, Go, Count, Ok
  <1>3. QED  BY <1>1, <1>2

LEMMA InitUp == Init => UpInv
  <1> SUFFICES ASSUME Init PROVE UpInv  OBVIOUS
  <1>1. RingType  BY InitType
  <1>2. /\ pc = "idle" /\ out = <<>> /\ tx = <<>> /\ con = <<>> /\ sent = 0 /\ up.wr = up.rd
        /\ up \in Rings
    BY <1>1 DEF Init, RingType
  <1>3. Used(up) = 0
    <2>1. up.rd \in Offsets /\ up.rd \in Nat  BY <1>2, SizeFacts DEF Rings, Offsets
    <2>2. Used(up) = up.wr - up.rd  BY <1>2, <2>1, UsedIs
    <2>3. QED  BY <1>2, <2>1, <2>2
  <1>4. Newest
    <2>1. \A i \in 1 .. Used(up) : FALSE  BY <1>3
    <2>2. QED  BY <1>2, <1>3, <2>1 DEF Newest
  <1>5. UpWindow  BY <1>2 DEF UpWindow
  <1>6. Low = 0 /\ Port = <<>>
    <2>1. Ahead = 0  BY <1>2 DEF Ahead
    <2>2. QED  BY <1>2, <1>3, <2>1 DEF Low, Port
  <1>7. UpOrder
    <2>1. Increasing(<<>>) /\ Range(<<>>) = {} /\ DOMAIN <<>> = {}  BY DEF Increasing, Range
    <2>2. \A k \in 1 .. Low : FALSE  BY <1>6
    <2>3. QED  BY <1>2, <1>6, <2>1, <2>2 DEF UpOrder
  <1>8. QED  BY <1>1, <1>4, <1>5, <1>7 DEF UpInv

LEMMA NextUp == UpInv /\ [Next]_vars => UpInv'
  <1> SUFFICES ASSUME UpInv, [Next]_vars PROVE UpInv'  OBVIOUS
  <1>1. RingType /\ RingType'  BY TypeNext DEF UpInv
  <1>2. SUFFICES ASSUME ~raced' PROVE Newest' /\ UpWindow' /\ UpOrder'
    BY <1>1 DEF UpInv
  <1>3. Newest /\ UpWindow /\ UpOrder  BY <1>2, RacedStays DEF UpInv
  <1>4. CASE Server
    <2>1. CASE Stream \/ DownDesc \/ DownWrite \/ DownPublish \/ Consume
      BY <1>1, <1>3, <2>1, UpOthers
    <2>2. CASE UpDesc \/ UpRead  BY <1>1, <1>3, <2>2, UpSteps
    <2>3. CASE UpAck \/ ConsumeAck  BY <1>1, <1>3, <2>3, UpAcks
    <2>4. CASE Show  BY <1>1, <1>3, <2>4, UpShows
    <2>5. QED  BY <1>4, <2>1, <2>2, <2>3, <2>4 DEF Server
  <1>5. CASE Attach \/ Detach \/ Flash \/ TargetReads \/ HostReads \/ HostWrites \/ UNCHANGED vars
    BY <1>1, <1>3, <1>5, UpOthers
  <1>6. CASE Dump  BY <1>1, <1>3, <1>6, UpSteps
  <1>7. CASE TargetWrites  BY <1>1, <1>3, <1>7, UpTarget
  <1>8. CASE TargetReset  BY <1>1, <1>2, <1>3, <1>8, UpReset
  <1>9. QED  BY <1>4, <1>5, <1>6, <1>7, <1>8 DEF Next

(* rtt_stream and rtt_dump, up: every byte of the target is still in its   *)
(* ring or goes to the host, to its port behind the ones before it, and    *)
(* twice only after an access has failed.                                  *)
THEOREM UpReliable == Spec => []UpKept
  <1>1. UpInv => UpKept
    <2> SUFFICES ASSUME UpInv, ~raced PROVE UpKept  BY DEF UpKept
    <2>1. RingType /\ Newest /\ UpOrder  BY DEF UpInv
    <2>2. /\ up \in Rings /\ sent \in Nat /\ Used(up) \in Nat /\ sent - Used(up) \in Nat /\ Ahead \in Nat
          /\ Low \in Nat
      BY <2>1, UpFacts
    <2>3. \A k \in 1 .. sent : k \in Away \cup Range(Unread(up)) \cup Range(Port)
      <3>1. SUFFICES ASSUME NEW k \in 1 .. sent, ~(k \in 1 .. Low) PROVE k \in Range(Unread(up))
        BY <2>1 DEF UpOrder
      <3> DEFINE i == k - (sent - Used(up))
      <3>2. i \in 1 .. Used(up) /\ sent - Used(up) + i = k  BY <2>2, <3>1 DEF Low
      <3> HIDE DEF i
      <3>3. Unread(up)[i] = k  BY <2>1, <3>2 DEF Newest
      <3>4. Unread(up) \in Seq(Nat) /\ Len(Unread(up)) = Used(up)  BY <2>2, UnreadIs
      <3>5. QED  BY <3>2, <3>3, <3>4, RangeIs
    <2>4. \A i \in DOMAIN Port : Port[i] > 0
            /\ \A k \in 1 .. Port[i] - 1 : k \in Away \cup Range(SubSeq(Port, 1, i - 1))
      BY <2>1 DEF UpOrder
    <2>5. errs = 0 => Increasing(Port) /\ Increasing(con) /\ Range(Port) \cap Range(con) = {}
      BY <2>1 DEF UpOrder
    <2>6. QED  BY <2>3, <2>4, <2>5 DEF UpKept, Port, Away
  <1>2. QED  BY <1>1, InitUp, NextUp, PTL DEF Spec
=============================================================================
