----------------------------- MODULE SwjProofs -----------------------------
(***************************************************************************)
(* SWD and JTAG on the wire, for words of any width, any registers, turn-  *)
(* arounds, idle clocks, chains and number of commands, with one disturbed *)
(* clock of SWD after each line reset. Then what the pins carry, for every *)
(* set of transports and any number of commands and parts of a             *)
(* DAP_SWD_Sequence.                                                       *)
(***************************************************************************)
EXTENDS SwjWire, SwjPins, FiniteSetTheorems, SequenceTheorems, TLAPS

Bit == {0, 1}
Clocks == [dio : {0, 1, 2}, tdi : Bit, look : BOOLEAN]
Transfers == [rnw : Bit, at : Addrs, word : Words]
Acks == {OK, WAIT, FAULT}

(* The bits of a request, and those of a word with its parity.             *)
Bits8(c) == <<1, c.at[1], c.rnw, c.at[2], c.at[3], Parity(<<c.at[1], c.rnw, c.at[2], c.at[3]>>), 0, 1>>
WithParity(w) == w \o <<Parity(w)>>

(* The first n of s are those of f, but for one that was disturbed.        *)
Agree(s, f, n) == \A i \in 1 .. n : s[i] = f[i]
OneOff(s, f, n) == \E j \in 1 .. n : s[j] = 1 - f[j] /\ \A i \in 1 .. n : i # j => s[i] = f[i]
Like(s, f, n, disturbed) == Agree(s, f, n) \/ (disturbed = 1 /\ OneOff(s, f, n))

WireTypes ==
  /\ cfg.port = "Swd" /\ cfg.link \in Links /\ cfg.trn \in Trns /\ cfg.idle \in Idles /\ cfg.phase \in BOOLEAN
  /\ todo \in Seq(Clocks) /\ plan \in Seq(0 .. 3) /\ heard \in Seq(Bit) /\ seen \in Seq(Bit)
  /\ mode \in {"sync", "lost", "reset"} /\ ones \in 0 .. ResetOnes /\ (mode = "sync" => ones < ResetOnes)
  /\ noise \in Bit /\ sticky \in BOOLEAN /\ want \in Addrs \cup {<<>>} /\ ready \in BOOLEAN
  /\ regs \in [Addrs -> Word] /\ asked \in [Addrs -> SUBSET Word]
  /\ step \in {"none", "ack", "data", "refused", "unheard"}

(* What the host asked for, and that a register only has that.             *)
Commanded ==
  /\ \A a \in Addrs : regs[a] \in asked[a]
  /\ step # "none" => /\ cmd \in Transfers /\ (cmd.rnw = 0 => cmd.word \in asked[cmd.at])
                      /\ result = NoResult
-----------------------------------------------------------------------------
(* The clocks ahead of the probe, k of a request or k of a data phase done.*)
AskLen == 11 + cfg.trn + (IF cfg.link = "pio" /\ cmd.rnw = 0 THEN cfg.trn ELSE 0)
AskAhead(k) ==
  /\ k \in 0 .. AskLen /\ Len(todo) = AskLen - k
  /\ \A i \in 1 .. Len(todo) :
       /\ todo[i].dio = IF k + i <= 8 THEN Bits8(cmd)[k + i] ELSE Float
       /\ (todo[i].look <=> 8 + cfg.trn < k + i /\ k + i <= 11 + cfg.trn)

DataLen == Bits + 1 + cfg.trn
ReadAhead(k) ==
  /\ k \in 0 .. DataLen + cfg.idle /\ Len(todo) = DataLen + cfg.idle - k
  /\ \A i \in 1 .. Len(todo) :
       /\ todo[i].dio = IF k + i <= DataLen THEN Float ELSE 0
       /\ (todo[i].look <=> k + i <= Bits + 1)
WriteAt(j) ==
  IF j <= cfg.trn THEN Float ELSE IF j <= DataLen THEN WithParity(cmd.word)[j - cfg.trn] ELSE 0
WriteAhead(k) ==
  /\ k \in 0 .. DataLen + cfg.idle /\ Len(todo) = DataLen + cfg.idle - k
  /\ \A i \in 1 .. Len(todo) : todo[i].dio = WriteAt(k + i) /\ ~todo[i].look

LineAhead(k) ==
  /\ k \in 0 .. ResetOnes + 2 /\ Len(todo) = ResetOnes + 2 - k
  /\ \A i \in 1 .. Len(todo) : todo[i].dio = (IF k + i <= ResetOnes THEN 1 ELSE 0) /\ ~todo[i].look
-----------------------------------------------------------------------------
(* What the target does once it has heard the request, m of it done.       *)
RestLen(ack) == IF ack = OK \/ cfg.phase THEN DataLen ELSE cfg.trn
RestAt(ack, j) ==
  IF ack # OK THEN Float
  ELSE IF cmd.rnw = 0 THEN (IF j <= cfg.trn THEN Float ELSE Sample)
  ELSE IF j <= Bits + 1 THEN WithParity(regs[cmd.at])[j] ELSE Float
PlanLen(ack) == cfg.trn + 3 + RestLen(ack)
PlanAt(ack, j) ==
  IF j <= cfg.trn THEN Float
  ELSE IF j <= cfg.trn + 3 THEN ack[j - cfg.trn] ELSE RestAt(ack, j - (cfg.trn + 3))
Storing(ack) == ack = OK /\ cmd.rnw = 0
Received(ack, m) == IF Storing(ack) /\ m > 2 * cfg.trn + 3 THEN m - (2 * cfg.trn + 3) ELSE 0
Obeys(ack, m) ==
  /\ ack \in Acks /\ mode = "sync" /\ m \in 0 .. PlanLen(ack) /\ (ack = OK => m < PlanLen(ack))
  /\ Len(plan) = PlanLen(ack) - m /\ \A i \in 1 .. Len(plan) : plan[i] = PlanAt(ack, m + i)
  /\ want = IF Storing(ack) THEN cmd.at ELSE <<>>
  /\ Len(heard) = Received(ack, m)

Hearing == mode = "sync" /\ plan = <<>>

(* It does not drive, and will not take what it hears for a request, as    *)
(* long as it hears ones.                                                  *)
Untuned == plan = <<>> /\ (mode = "sync" => Len(heard) <= 7 /\ (heard = <<>> \/ heard[Len(heard)] = 1))

(* A disturbed last idle clock.                                            *)
Waiting == heard = <<>> \/ (heard = <<1>> /\ noise = 1)
-----------------------------------------------------------------------------
AtRest ==
  /\ step = "none" /\ todo = <<>>
  /\ IF ready THEN Hearing /\ Waiting /\ ones <= cfg.trn + Bits + 2 ELSE Untuned
  /\ result.st = "ok" => Done(cmd)

Resetting ==
  /\ step = "none" /\ ready /\ result = NoResult /\ plan = <<>>
  /\ \E k \in 0 .. ResetOnes + 1 :
       /\ LineAhead(k)
       /\ IF k > ResetOnes THEN mode = "sync" /\ heard = <<>> /\ ones = 0
          ELSE Untuned /\ ones >= k /\ (k = ResetOnes => mode = "reset" /\ heard = <<>>)

(* The target hears the request as it is sent, but for a bit, or one clock *)
(* early behind a disturbed idle clock, or after a start bit it missed.    *)
Hears(k) == Len(heard) = k /\ Like(heard, Bits8(cmd), k, noise) /\ (k > 0 => heard[1] = 1)
            /\ (k = 7 /\ heard[7] = 0 => ones = 0)
Early(k) == noise = 1 /\ k <= 6 /\ Len(heard) = k + 1 /\ \A i \in 1 .. k : heard[i + 1] = Bits8(cmd)[i]
Late(k) == noise = 1 /\ k > 0 /\ Len(heard) < k
Lost(k) == noise = 1 /\ k >= 7 /\ Untuned /\ (k = 7 => mode # "sync")

Heard(k) == IF k <= 8 + cfg.trn THEN 0 ELSE IF k <= 11 + cfg.trn THEN k - (8 + cfg.trn) ELSE 3
OnesFrom(k, last) == IF k <= last THEN 0 ELSE k - last
AckOnes(k) == IF k <= 8 + cfg.trn THEN k - 7 ELSE OnesFrom(k, 11 + cfg.trn)
Requesting ==
  /\ step = "ack" /\ \E k \in 0 .. AskLen :
       /\ AskAhead(k) /\ Len(seen) = Heard(k)
       /\ \/ k <= 7 /\ Hearing /\ ones <= cfg.trn + Bits + 2 + k /\ (Hears(k) \/ Early(k) \/ Late(k))
          \/ Lost(k) /\ \A i \in 1 .. Len(seen) : seen[i] = 1
          \/ k >= 8 /\ \E ack \in Acks :
               /\ Obeys(ack, k - 8) /\ Like(seen, ack, Len(seen), noise)
               /\ ones <= AckOnes(k)

SeenLen(k) == IF k <= Bits + 1 THEN k ELSE Bits + 1
Reading ==
  /\ step = "data" /\ cmd.rnw = 1 /\ \E k \in 0 .. DataLen + cfg.idle :
       /\ ReadAhead(k) /\ Len(seen) = SeenLen(k)
       /\ Like(seen, WithParity(regs[cmd.at]), Len(seen), noise)
       /\ IF k < DataLen THEN Obeys(OK, cfg.trn + 3 + k) /\ ones <= OnesFrom(k, Bits + 1)
          ELSE Hearing /\ Waiting /\ (todo # <<>> => heard = <<>>) /\ ones <= cfg.trn + 1
               /\ (heard = <<>> => ones <= cfg.trn)

Writing ==
  /\ step = "data" /\ cmd.rnw = 0 /\ seen = <<>> /\ \E k \in 0 .. DataLen + cfg.idle :
       /\ WriteAhead(k)
       /\ IF k < DataLen THEN /\ Obeys(OK, cfg.trn + 3 + k) /\ ones <= k
                              /\ Like(heard, WithParity(cmd.word), Len(heard), noise)
          ELSE Hearing /\ Waiting /\ (todo # <<>> => heard = <<>>) /\ ones <= DataLen + 1
               /\ (heard = <<>> => ones <= DataLen) /\ (regs[cmd.at] = cmd.word \/ sticky)

(* Both sides let the clocks of a refused transfer pass.                   *)
Refused ==
  /\ step = "refused" /\ mode = "sync" /\ heard = <<>> /\ ones + Len(todo) <= DataLen
  /\ Len(plan) = Len(todo) /\ \A i \in 1 .. Len(plan) : plan[i] = Float
  /\ \A i \in 1 .. Len(todo) : ~todo[i].look

(* The probe has seen no acknowledge; the target may be at work.           *)
Unheard ==
  /\ step = "unheard" /\ noise = 1 /\ \A i \in 1 .. Len(todo) : todo[i].dio = Float
  /\ \/ Untuned
     \/ /\ \A i \in 1 .. Len(heard) : heard[i] = 1
        /\ \E ack \in Acks : \E m \in 0 .. PlanLen(ack) : Obeys(ack, m) /\ Len(plan) <= Len(todo)

WireInv ==
  /\ WireTypes /\ Commanded
  /\ AtRest \/ Resetting \/ Requesting \/ Reading \/ Writing \/ Refused \/ Unheard
-----------------------------------------------------------------------------
(* Lists of clocks.                                                        *)
LEMMA RepeatList ==
  ASSUME NEW S, NEW n \in Nat, NEW x \in S
  PROVE  Repeat(n, x) \in Seq(S) /\ Len(Repeat(n, x)) = n /\ \A i \in 1 .. n : Repeat(n, x)[i] = x
  <1>1. Repeat(n, x) \in [1 .. n -> S]  BY DEF Repeat
  <1>2. Repeat(n, x) \in Seq(S)  BY <1>1, SeqDef
  <1>3. Len(Repeat(n, x)) = n  BY <1>1, <1>2, LenProperties
  <1>4. \A i \in 1 .. n : Repeat(n, x)[i] = x  BY DEF Repeat
  <1>5. QED  BY <1>2, <1>3, <1>4

LEMMA PutList ==
  ASSUME NEW s \in Seq(Bit)
  PROVE  /\ PutAll(s) \in Seq(Clocks) /\ Len(PutAll(s)) = Len(s)
         /\ \A i \in 1 .. Len(s) : PutAll(s)[i].dio = s[i] /\ ~PutAll(s)[i].look
  <1>1. Len(s) \in Nat /\ DOMAIN s = 1 .. Len(s) /\ \A i \in 1 .. Len(s) : s[i] \in Bit  BY LenProperties
  <1>2. \A b \in Bit : Put(b) \in Clocks /\ Put(b).dio = b /\ ~Put(b).look  BY DEF Put, Clocks, Bit
  <1>3. PutAll(s) \in [1 .. Len(s) -> Clocks]  BY <1>1, <1>2 DEF PutAll
  <1>4. PutAll(s) \in Seq(Clocks)  BY <1>1, <1>3, SeqDef
  <1>5. Len(PutAll(s)) = Len(s)  BY <1>1, <1>3, <1>4, LenProperties
  <1>6. \A i \in 1 .. Len(s) : PutAll(s)[i] = Put(s[i])  BY <1>1 DEF PutAll
  <1>7. QED  BY <1>1, <1>2, <1>4, <1>5, <1>6

LEMMA OneClocks ==
  /\ Cycle \in Clocks /\ Cycle.dio = Float /\ ~Cycle.look
  /\ Look \in Clocks /\ Look.dio = Float /\ Look.look
  /\ Put(0) \in Clocks /\ Put(0).dio = 0 /\ ~Put(0).look /\ Float = 2
  BY DEF Cycle, Look, Put, Clocks, Float, Bit

(* Parity is a bit, and a word with its parity has one bit more.           *)
LEMMA ParityBit == ASSUME NEW s \in Seq(Bit) PROVE Parity(s) \in Bit
  <1>1. Len(s) \in Nat /\ DOMAIN s = 1 .. Len(s)  BY LenProperties
  <1> DEFINE Marked == {i \in DOMAIN s : s[i] = 1}
  <1>2. IsFiniteSet(1 .. Len(s))  BY <1>1, FS_Interval
  <1>3. IsFiniteSet(Marked)  BY <1>1, <1>2, FS_Subset
  <1>4. Cardinality(Marked) \in Nat  BY <1>3, FS_CardinalityType
  <1> HIDE DEF Marked
  <1>5. Cardinality(Marked) % 2 \in {0, 1}  BY <1>4
  <1>6. QED  BY <1>5 DEF Marked, Parity, Bit

LEMMA WordList ==
  ASSUME NEW w \in Word
  PROVE  /\ Bits \in Nat \ {0} /\ w \in Seq(Bit) /\ Len(w) = Bits /\ \A i \in 1 .. Bits : w[i] \in Bit
         /\ WithParity(w) \in Seq(Bit) /\ Len(WithParity(w)) = Bits + 1
         /\ \A i \in 1 .. Bits : WithParity(w)[i] = w[i]
         /\ WithParity(w)[Bits + 1] = Parity(w) /\ Parity(w) \in Bit
  <1>1. Bits \in Nat \ {0} /\ w \in [1 .. Bits -> Bit]  BY WiresAssumption DEF Word, Bit
  <1>2. w \in Seq(Bit)  BY <1>1, SeqDef
  <1>3. Len(w) = Bits  BY <1>1, <1>2, LenProperties
  <1>4. Parity(w) \in Bit  BY <1>2, ParityBit
  <1> DEFINE one == <<Parity(w)>>
  <1>5. one \in Seq(Bit) /\ Len(one) = 1 /\ one[1] = Parity(w)  BY <1>4
  <1>a. WithParity(w) = w \o one  BY DEF WithParity
  <1> HIDE DEF one
  <1>6. /\ w \o one \in Seq(Bit) /\ Len(w \o one) = Len(w) + Len(one)
        /\ \A i \in 1 .. Len(w) + Len(one) : (w \o one)[i] = IF i <= Len(w) THEN w[i] ELSE one[i - Len(w)]
    BY <1>2, <1>5, ConcatProperties
  <1>7. WithParity(w) \in Seq(Bit) /\ Len(WithParity(w)) = Bits + 1  BY <1>3, <1>5, <1>6, <1>a
  <1>8. \A i \in 1 .. Bits + 1 : WithParity(w)[i] = IF i <= Bits THEN w[i] ELSE one[i - Bits]
    BY <1>3, <1>5, <1>6, <1>a
  <1>9. \A i \in 1 .. Bits : WithParity(w)[i] = w[i]
    <2>1. \A i \in 1 .. Bits : i \in 1 .. Bits + 1 /\ i <= Bits  BY <1>1
    <2>2. QED  BY <1>8, <2>1
  <1>10. WithParity(w)[Bits + 1] = Parity(w)
    <2>1. PICK n \in 1 .. Bits + 1 : n = Bits + 1  BY <1>1
    <2>2. ~(n <= Bits) /\ n - Bits = 1  BY <1>1, <2>1
    <2>3. WithParity(w)[n] = one[n - Bits]  BY <1>8, <2>1, <2>2
    <2>4. QED  BY <1>5, <2>1, <2>2, <2>3
  <1>11. QED  BY <1>1, <1>2, <1>3, <1>4, <1>7, <1>9, <1>10

LEMMA PartOf ==
  ASSUME NEW S, NEW s \in Seq(S), NEW m \in Nat, NEW n \in Nat, 1 <= m, m <= n, n <= Len(s)
  PROVE  /\ SubSeq(s, m, n) \in Seq(S) /\ Len(SubSeq(s, m, n)) = n - m + 1
         /\ \A i \in 1 .. n - m + 1 : SubSeq(s, m, n)[i] = s[m + i - 1]
  <1>1. Len(s) \in Nat /\ \A i \in 1 .. Len(s) : s[i] \in S  BY LenProperties
  <1>2. m \in Int /\ n \in Int /\ \A i \in m .. n : s[i] \in S  BY <1>1
  <1>3. QED  BY <1>2, SubSeqProperties

LEMMA FourBits ==
  ASSUME NEW h \in Seq(Bit), Len(h) = 8
  PROVE  /\ SubSeq(h, 2, 5) \in Seq(Bit) /\ Len(SubSeq(h, 2, 5)) = 4
         /\ \A i \in 1 .. 4 : SubSeq(h, 2, 5)[i] = h[i + 1]
  <1>1. 2 \in Nat /\ 5 \in Nat /\ 5 - 2 + 1 = 4 /\ 1 <= 2 /\ 2 <= 5 /\ 5 <= Len(h)  OBVIOUS
  <1>2. /\ SubSeq(h, 2, 5) \in Seq(Bit) /\ Len(SubSeq(h, 2, 5)) = 5 - 2 + 1
        /\ \A i \in 1 .. 5 - 2 + 1 : SubSeq(h, 2, 5)[i] = h[2 + i - 1]
    BY ZenonT(30), <1>1, PartOf
  <1>3. \A i \in 1 .. 4 : 2 + i - 1 = i + 1  OBVIOUS
  <1>4. QED  BY <1>1, <1>2, <1>3

LEMMA RequestBits ==
  ASSUME NEW c \in Transfers
  PROVE  /\ Bits8(c) \in Seq(Bit) /\ Len(Bits8(c)) = 8 /\ \A i \in 1 .. 8 : Bits8(c)[i] \in Bit
         /\ Bits8(c)[1] = 1 /\ Bits8(c)[7] = 0 /\ Bits8(c)[8] = 1
         /\ Bits8(c)[6] = Parity(SubSeq(Bits8(c), 2, 5)) /\ Bits8(c)[3] = c.rnw
         /\ <<Bits8(c)[2], Bits8(c)[4], Bits8(c)[5]>> = c.at
         /\ c.at \in Addrs /\ c.rnw \in Bit /\ c.word \in Words /\ c.word \in Word
  <1>1. c.at \in Addrs /\ c.rnw \in Bit /\ c.word \in Words  BY DEF Transfers
  <1>2. c.at \in Bit \X Bit \X Bit /\ c.word \in Word  BY <1>1, WiresAssumption DEF Bit
  <1>3. c.at = <<c.at[1], c.at[2], c.at[3]>> /\ c.at[1] \in Bit /\ c.at[2] \in Bit /\ c.at[3] \in Bit  BY <1>2
  <1> DEFINE four == <<c.at[1], c.rnw, c.at[2], c.at[3]>>
             p == Parity(four)
  <1>4. four \in Seq(Bit)  BY <1>1, <1>3
  <1>5. p \in Bit  BY <1>4, ParityBit
  <1> HIDE DEF p
  <1>6. Bits8(c) = <<1, c.at[1], c.rnw, c.at[2], c.at[3], p, 0, 1>>  BY DEF Bits8, p
  <1>7. 0 \in Bit /\ 1 \in Bit  BY DEF Bit
  <1>8. Bits8(c) \in Seq(Bit) /\ Len(Bits8(c)) = 8  BY <1>1, <1>3, <1>5, <1>6, <1>7
  <1>9. \A i \in 1 .. 8 : Bits8(c)[i] \in Bit  BY <1>8, LenProperties
  <1>10. /\ Bits8(c)[1] = 1 /\ Bits8(c)[2] = c.at[1] /\ Bits8(c)[3] = c.rnw /\ Bits8(c)[4] = c.at[2]
         /\ Bits8(c)[5] = c.at[3] /\ Bits8(c)[6] = p /\ Bits8(c)[7] = 0 /\ Bits8(c)[8] = 1
    BY <1>6
  <1>11. SubSeq(Bits8(c), 2, 5) = four
    <2> DEFINE t == SubSeq(Bits8(c), 2, 5)
    <2>1. t \in Seq(Bit) /\ Len(t) = 4 /\ \A i \in 1 .. 4 : t[i] = Bits8(c)[2 + i - 1]
      <3>1. \A i \in 2 .. 5 : Bits8(c)[i] \in Bit  BY ONLY <1>9
      <3>2. 5 - 2 + 1 = 4  OBVIOUS
      <3>3. QED  BY ONLY <3>1, <3>2, SubSeqProperties
    <2>2. t[1] = four[1] /\ t[2] = four[2] /\ t[3] = four[3] /\ t[4] = four[4]  BY <2>1, <1>10
    <2>3. Len(four) = 4  OBVIOUS
    <2> HIDE DEF t, four
    <2>4. \A i \in 1 .. 4 : t[i] = four[i]  BY <2>2
    <2>5. t = four  BY <1>4, <2>1, <2>3, <2>4, SeqEqual
    <2>6. QED  BY <2>5 DEF t
  <1>12. Bits8(c)[6] = Parity(SubSeq(Bits8(c), 2, 5))  BY <1>10, <1>11 DEF p
  <1>13. QED  BY <1>1, <1>2, <1>3, <1>8, <1>9, <1>10, <1>12
-----------------------------------------------------------------------------
(* One bit that is wrong shows in the parity, and a word of ones is even.  *)
LEMMA ParityOff ==
  ASSUME NEW s \in Seq(Bit), NEW t \in Seq(Bit), Len(s) = Len(t), OneOff(s, t, Len(t))
  PROVE  Parity(s) # Parity(t)
  <1> DEFINE n == Len(t)
             S == {i \in DOMAIN s : s[i] = 1}
             U == {i \in DOMAIN t : t[i] = 1}
  <1>1. /\ n \in Nat /\ DOMAIN s = 1 .. n /\ DOMAIN t = 1 .. n
        /\ \A i \in 1 .. n : s[i] \in Bit /\ t[i] \in Bit
    BY LenProperties
  <1>2. PICK j \in 1 .. n : s[j] = 1 - t[j] /\ \A i \in 1 .. n : i # j => s[i] = t[i]
    BY DEF OneOff
  <1>3. IsFiniteSet(1 .. n)  BY <1>1, FS_Interval
  <1>4. IsFiniteSet(S) /\ IsFiniteSet(U)  BY <1>1, <1>3, FS_Subset
  <1>5. Cardinality(S) \in Nat /\ Cardinality(U) \in Nat  BY <1>4, FS_CardinalityType
  <1>6. \/ t[j] = 0 /\ s[j] = 1 /\ j \notin U /\ S = U \cup {j}
        \/ t[j] = 1 /\ s[j] = 0 /\ j \notin S /\ U = S \cup {j}
    <2>1. CASE t[j] = 0
      <3>1. s[j] = 1  BY <1>2, <2>1
      <3>2. j \notin U  BY <2>1
      <3>3. S = U \cup {j}  BY <1>1, <1>2, <2>1, <3>1
      <3>4. QED  BY <2>1, <3>1, <3>2, <3>3
    <2>2. CASE t[j] = 1
      <3>1. s[j] = 0  BY <1>2, <2>2
      <3>2. j \notin S  BY <3>1
      <3>3. U = S \cup {j}  BY <1>1, <1>2, <2>2, <3>1
      <3>4. QED  BY <2>2, <3>1, <3>2, <3>3
    <2>3. QED  BY <1>1, <2>1, <2>2 DEF Bit
  <1> HIDE DEF S, U, n
  <1>7. Cardinality(S) = Cardinality(U) + 1 \/ Cardinality(U) = Cardinality(S) + 1
    BY <1>4, <1>6, FS_AddElement
  <1>8. Cardinality(S) % 2 # Cardinality(U) % 2  BY <1>5, <1>7
  <1>9. QED  BY <1>8 DEF S, U, Parity

LEMMA ParityOnes ==
  ASSUME NEW w \in Word, \A i \in 1 .. Bits : w[i] = 1
  PROVE  Parity(w) = 0
  <1>1. Bits \in Nat /\ Bits % 2 = 0 /\ DOMAIN w = 1 .. Bits  BY WiresAssumption DEF Word
  <1>2. {i \in DOMAIN w : w[i] = 1} = 1 .. Bits  BY <1>1
  <1>3. Cardinality(1 .. Bits) = Bits
    <2>1. 1 \in Int /\ Bits \in Int /\ ~(1 > Bits) /\ Bits - 1 + 1 = Bits  BY WiresAssumption
    <2>2. QED  BY <2>1, FS_Interval
  <1>4. QED  BY <1>1, <1>2, <1>3 DEF Parity

(* What has been heard so far, and one bit more.                           *)
LEMMA LikeAppend ==
  ASSUME NEW s \in Seq(Bit), NEW f, NEW n \in Nat, Len(s) = n, NEW z \in Bit, NEW flip \in Bit,
         z + flip <= 1, Like(s, f, n, z), NEW b \in Bit, f[n + 1] \in Bit,
         b = IF flip = 0 THEN f[n + 1] ELSE 1 - f[n + 1]
  PROVE  Like(Append(s, b), f, n + 1, z + flip)
  <1> DEFINE t == Append(s, b)
  <1>1. t \in Seq(Bit) /\ Len(t) = n + 1 /\ (\A i \in 1 .. n : t[i] = s[i]) /\ t[n + 1] = b
    BY AppendProperties
  <1> HIDE DEF t
  <1>2. CASE flip = 1
    <2>1. z = 0 /\ z + flip = 1  BY <1>2 DEF Bit
    <2>2. Agree(s, f, n)  BY <2>1 DEF Like
    <2>3. \A i \in 1 .. n + 1 : i # n + 1 => t[i] = f[i]  BY <1>1, <2>2 DEF Agree
    <2>4. OneOff(t, f, n + 1)
      <3>1. n + 1 \in 1 .. n + 1 /\ t[n + 1] = 1 - f[n + 1]  BY <1>1, <1>2
      <3>2. QED  BY <2>3, <3>1 DEF OneOff
    <2>5. QED  BY <2>1, <2>4 DEF Like, t
  <1>3. CASE flip = 0
    <2>1. z + flip = z /\ t[n + 1] = f[n + 1]  BY <1>1, <1>3 DEF Bit
    <2>2. CASE Agree(s, f, n)
      <3>1. \A i \in 1 .. n + 1 : t[i] = f[i]  BY <1>1, <2>1, <2>2 DEF Agree
      <3>2. QED  BY <3>1 DEF Like, Agree, t
    <2>3. CASE z = 1 /\ OneOff(s, f, n)
      <3>1. PICK j \in 1 .. n : s[j] = 1 - f[j] /\ \A i \in 1 .. n : i # j => s[i] = f[i]
        BY <2>3 DEF OneOff
      <3>2. j \in 1 .. n + 1 /\ t[j] = 1 - f[j]  BY <1>1, <3>1
      <3>3. \A i \in 1 .. n + 1 : i # j => t[i] = f[i]  BY <1>1, <2>1, <3>1
      <3>4. OneOff(t, f, n + 1)  BY <3>2, <3>3 DEF OneOff
      <3>5. QED  BY <2>1, <2>3, <3>4 DEF Like, t
    <2>4. QED  BY <2>2, <2>3 DEF Like
  <1>4. QED  BY <1>2, <1>3 DEF Bit

(* A request that was heard wrong is not one.                              *)
LEMMA NotWell ==
  ASSUME NEW c \in Transfers, NEW h \in Seq(Bit), Len(h) = 8, h[1] = 1, OneOff(h, Bits8(c), 8)
  PROVE  ~Well(h)
  <1> DEFINE f == Bits8(c)
  <1>1. /\ f \in Seq(Bit) /\ Len(f) = 8 /\ f[1] = 1 /\ f[7] = 0 /\ f[8] = 1
        /\ f[6] = Parity(SubSeq(f, 2, 5)) /\ \A i \in 1 .. 8 : f[i] \in Bit
    BY RequestBits
  <1> HIDE DEF f
  <1>2. PICK j \in 1 .. 8 : h[j] = 1 - f[j] /\ \A i \in 1 .. 8 : i # j => h[i] = f[i]
    BY DEF OneOff, f
  <1>3. j # 1  BY <1>1, <1>2
  <1>4. CASE j = 7  BY <1>1, <1>2, <1>4 DEF Well
  <1>5. CASE j = 8  BY <1>1, <1>2, <1>5 DEF Well
  <1> DEFINE s == SubSeq(h, 2, 5)
             t == SubSeq(f, 2, 5)
  <1>6. s \in Seq(Bit) /\ Len(s) = 4 /\ \A i \in 1 .. 4 : s[i] = h[i + 1]  BY FourBits
  <1>7. t \in Seq(Bit) /\ Len(t) = 4 /\ \A i \in 1 .. 4 : t[i] = f[i + 1]  BY <1>1, FourBits
  <1>8. Well(h) => h[6] = Parity(s)  BY DEF Well
  <1> HIDE DEF s, t
  <1>9. CASE j = 6
    <2>1. \A i \in 1 .. 4 : s[i] = t[i]  BY <1>2, <1>6, <1>7, <1>9
    <2>2. s = t  BY <1>6, <1>7, <2>1, SeqEqual
    <2>3. h[6] = 1 - Parity(s) /\ Parity(s) \in Bit  BY <1>1, <1>2, <1>6, <1>9, <2>2, ParityBit DEF t
    <2>4. QED  BY <1>8, <2>3 DEF Bit
  <1>10. CASE j \in 2 .. 5
    <2>1. j - 1 \in 1 .. 4 /\ s[j - 1] = 1 - t[j - 1]  BY <1>2, <1>6, <1>7, <1>10
    <2>2. \A i \in 1 .. 4 : i # j - 1 => s[i] = t[i]  BY <1>2, <1>6, <1>7, <1>10
    <2>3. OneOff(s, t, 4)  BY <2>1, <2>2 DEF OneOff
    <2>4. Parity(s) # Parity(t)  BY <1>6, <1>7, <2>3, ParityOff
    <2>5. h[6] = Parity(t)  BY <1>1, <1>2, <1>10 DEF t
    <2>6. QED  BY <1>8, <2>4, <2>5
  <1>11. QED  BY <1>3, <1>4, <1>5, <1>9, <1>10

(* A word whose parity fits is the one that was sent.                      *)
LEMMA WordIntact ==
  ASSUME NEW w \in Word, NEW h \in Seq(Bit), Len(h) = Bits + 1, NEW z,
         Like(h, WithParity(w), Bits + 1, z)
  PROVE  /\ SubSeq(h, 1, Bits) \in Word
         /\ Parity(SubSeq(h, 1, Bits)) = h[Bits + 1] => SubSeq(h, 1, Bits) = w
  <1> DEFINE f == WithParity(w)
             s == SubSeq(h, 1, Bits)
  <1>1. /\ Bits \in Nat \ {0} /\ w \in Seq(Bit) /\ Len(w) = Bits /\ \A i \in 1 .. Bits : f[i] = w[i] /\ w[i] \in Bit
        /\ f[Bits + 1] = Parity(w) /\ Parity(w) \in Bit
    BY WordList
  <1>2. s \in Seq(Bit) /\ Len(s) = Bits /\ \A i \in 1 .. Bits : s[i] = h[i]
    <2>1. s \in Seq(Bit) /\ Len(s) = Bits /\ \A i \in 1 .. Bits : s[i] = h[1 + i - 1]
      BY <1>1, PartOf
    <2>2. QED  BY <2>1, <1>1
  <1> HIDE DEF s, f
  <1>3. s \in Word
    <2>1. s \in [1 .. Bits -> Bit]  BY <1>2, LenProperties
    <2>2. QED  BY <2>1 DEF Word, Bit
  <1>4. CASE Agree(h, f, Bits + 1)
    <2>1. \A i \in 1 .. Bits : s[i] = w[i]  BY <1>1, <1>2, <1>4 DEF Agree
    <2>2. s = w  BY <1>1, <1>2, <2>1, SeqEqual
    <2>3. QED  BY <1>3, <2>2 DEF s
  <1>5. CASE OneOff(h, f, Bits + 1)
    <2>1. PICK j \in 1 .. Bits + 1 : h[j] = 1 - f[j] /\ \A i \in 1 .. Bits + 1 : i # j => h[i] = f[i]
      BY <1>5 DEF OneOff
    <2>2. CASE j = Bits + 1
      <3>1. \A i \in 1 .. Bits : s[i] = w[i]  BY <1>1, <1>2, <2>1, <2>2
      <3>2. s = w  BY <1>1, <1>2, <3>1, SeqEqual
      <3>3. QED  BY <1>3, <3>2 DEF s
    <2>3. CASE j \in 1 .. Bits
      <3>1. s[j] = 1 - w[j]  BY <1>1, <1>2, <2>1, <2>3
      <3>2. \A i \in 1 .. Bits : i # j => s[i] = w[i]  BY <1>1, <1>2, <2>1, <2>3
      <3>3. OneOff(s, w, Len(w))  BY <1>1, <2>3, <3>1, <3>2 DEF OneOff
      <3>4. Parity(s) # Parity(w)  BY <1>1, <1>2, <3>3, ParityOff
      <3>5. h[Bits + 1] = Parity(w)  BY <1>1, <2>1, <2>3
      <3>6. QED  BY <1>3, <3>4, <3>5 DEF s
    <2>4. QED  BY <1>1, <2>2, <2>3
  <1>6. QED  BY <1>4, <1>5 DEF Like, f
-----------------------------------------------------------------------------
(* Joining lists, the second of which may be one clock over and over.      *)
LEMMA Join ==
  ASSUME NEW S, NEW s \in Seq(S), NEW t \in Seq(S)
  PROVE  /\ s \o t \in Seq(S) /\ Len(s) \in Nat /\ Len(t) \in Nat /\ Len(s \o t) = Len(s) + Len(t)
         /\ \A i \in 1 .. Len(s) : (s \o t)[i] = s[i]
         /\ \A i \in 1 .. Len(s) + Len(t) : i > Len(s) => (s \o t)[i] = t[i - Len(s)]
  <1>1. /\ s \o t \in Seq(S) /\ Len(s \o t) = Len(s) + Len(t)
        /\ \A i \in 1 .. Len(s) + Len(t) : (s \o t)[i] = IF i <= Len(s) THEN s[i] ELSE t[i - Len(s)]
    BY ConcatProperties
  <1>2. Len(s) \in Nat /\ Len(t) \in Nat  BY LenProperties
  <1>3. ASSUME NEW i \in 1 .. Len(s) PROVE (s \o t)[i] = s[i]
    <2>1. i \in 1 .. Len(s) + Len(t) /\ i <= Len(s)  BY <1>2
    <2>2. QED  BY <2>1, <1>1
  <1>4. ASSUME NEW i \in 1 .. Len(s) + Len(t), i > Len(s) PROVE (s \o t)[i] = t[i - Len(s)]
    <2>1. ~(i <= Len(s))  BY <1>2, <1>4
    <2>2. QED  BY <2>1, <1>1
  <1>5. QED  BY <1>1, <1>2, <1>3, <1>4

(* n clocks; n times one clock; and the latter behind m clocks.            *)
IsList(s, n) == s \in Seq(Clocks) /\ n \in Nat /\ Len(s) = n
Block(s, n, dio, look) == IsList(s, n) /\ \A i \in 1 .. n : s[i].dio = dio /\ s[i].look = look
Joined(r, s, t, m, n) ==
  /\ IsList(r, m + n) /\ m \in Nat /\ n \in Nat
  /\ \A i \in 1 .. m : r[i] = s[i]
  /\ \A i \in 1 .. m + n : i > m => r[i] = t[i - m]
Behind(r, s, m, n, dio, look) ==
  /\ IsList(r, m + n) /\ \A i \in 1 .. m : r[i] = s[i]
  /\ \A i \in 1 .. m + n : i > m => r[i].dio = dio /\ r[i].look = look

LEMMA JoinLists ==
  ASSUME NEW s, NEW t, NEW m, NEW n, IsList(s, m), IsList(t, n)
  PROVE  Joined(s \o t, s, t, m, n)
  <1>1. s \in Seq(Clocks) /\ t \in Seq(Clocks)  BY DEF IsList
  <1>2. m \in Nat /\ n \in Nat /\ Len(s) = m /\ Len(t) = n  BY DEF IsList
  <1>3. /\ s \o t \in Seq(Clocks) /\ Len(s \o t) = Len(s) + Len(t)
        /\ \A i \in 1 .. Len(s) : (s \o t)[i] = s[i]
        /\ \A i \in 1 .. Len(s) + Len(t) : i > Len(s) => (s \o t)[i] = t[i - Len(s)]
    BY ONLY <1>1, Join
  <1>4. QED  BY <1>2, <1>3 DEF IsList, Joined

LEMMA JoinBlock ==
  ASSUME NEW s, NEW t, NEW m, NEW n, NEW d, NEW l, IsList(s, m), Block(t, n, d, l)
  PROVE  Behind(s \o t, s, m, n, d, l)
  <1>a. IsList(t, n)  BY DEF Block
  <1>b. Joined(s \o t, s, t, m, n)  BY <1>a, JoinLists
  <1>1. /\ IsList(s \o t, m + n) /\ m \in Nat /\ n \in Nat /\ \A i \in 1 .. m : (s \o t)[i] = s[i]
        /\ \A i \in 1 .. m + n : i > m => (s \o t)[i] = t[i - m]
    BY <1>b DEF Joined
  <1>2. ASSUME NEW i \in 1 .. m + n, i > m
        PROVE  (s \o t)[i].dio = d /\ (s \o t)[i].look = l
    <2>1. (s \o t)[i] = t[i - m]  BY <1>1, <1>2
    <2>2. m \in Nat /\ n \in Nat  BY <1>1
    <2>3. i - m \in 1 .. n  BY <2>2, <1>2
    <2>4. QED  BY <2>1, <2>3 DEF Block
  <1>3. QED  BY <1>1, <1>2 DEF Behind

LEMMA Blocks ==
  ASSUME NEW n \in Nat
  PROVE  /\ Block(Repeat(n, Cycle), n, Float, FALSE) /\ Block(Repeat(n, Look), n, Float, TRUE)
         /\ Block(Repeat(n, Put(0)), n, 0, FALSE) /\ \A d, l : Block(<<>>, 0, d, l)
  <1>0. Cycle \in Clocks /\ Look \in Clocks /\ Put(0) \in Clocks  BY OneClocks
  <1>1. /\ Repeat(n, Cycle) \in Seq(Clocks) /\ Len(Repeat(n, Cycle)) = n
        /\ \A i \in 1 .. n : Repeat(n, Cycle)[i] = Cycle
    BY ONLY <1>0, n \in Nat, RepeatList, Zenon
  <1>2. /\ Repeat(n, Look) \in Seq(Clocks) /\ Len(Repeat(n, Look)) = n
        /\ \A i \in 1 .. n : Repeat(n, Look)[i] = Look
    BY ONLY <1>0, n \in Nat, RepeatList, Zenon
  <1>3. /\ Repeat(n, Put(0)) \in Seq(Clocks) /\ Len(Repeat(n, Put(0))) = n
        /\ \A i \in 1 .. n : Repeat(n, Put(0))[i] = Put(0)
    BY ONLY <1>0, n \in Nat, RepeatList, Zenon
  <1>4. <<>> \in Seq(Clocks) /\ Len(<<>>) = 0  BY EmptySeq
  <1>5. QED  BY <1>1, <1>2, <1>3, <1>4, OneClocks DEF Block, IsList

LEMMA ByteJoin ==
  ASSUME NEW a \in Bit, NEW b \in Bit, NEW d \in Bit, NEW e \in Bit, NEW p \in Bit
  PROVE  <<1>> \o <<a, b, d, e>> \o <<p, 0, 1>> = <<1, a, b, d, e, p, 0, 1>>
  <1> DEFINE x == <<1>>
             y == <<a, b, d, e>>
             z == <<p, 0, 1>>
             r == <<1, a, b, d, e, p, 0, 1>>
             q == x \o y
  <1>1. x \in Seq(Bit) /\ Len(x) = 1 /\ x[1] = 1  BY DEF Bit
  <1>2. y \in Seq(Bit) /\ Len(y) = 4 /\ y[1] = a /\ y[2] = b /\ y[3] = d /\ y[4] = e  OBVIOUS
  <1>3. z \in Seq(Bit) /\ Len(z) = 3 /\ z[1] = p /\ z[2] = 0 /\ z[3] = 1  BY DEF Bit
  <1>4. /\ r \in Seq(Bit) /\ Len(r) = 8 /\ r[1] = 1 /\ r[2] = a /\ r[3] = b /\ r[4] = d /\ r[5] = e
        /\ r[6] = p /\ r[7] = 0 /\ r[8] = 1
    BY DEF Bit
  <1> HIDE DEF x, y, z, r
  <1>5. /\ q \in Seq(Bit) /\ Len(q) = 1 + 4 /\ \A i \in 1 .. 1 : q[i] = x[i]
        /\ \A i \in 1 .. 1 + 4 : i > 1 => q[i] = y[i - 1]
    <2>1. x \in Seq(Bit) /\ y \in Seq(Bit)  BY <1>1, <1>2
    <2>2. /\ q \in Seq(Bit) /\ Len(q) = Len(x) + Len(y) /\ \A i \in 1 .. Len(x) : q[i] = x[i]
          /\ \A i \in 1 .. Len(x) + Len(y) : i > Len(x) => q[i] = y[i - Len(x)]
      BY ONLY <2>1, Join
    <2>3. QED  BY <2>2, <1>1, <1>2
  <1> HIDE DEF q
  <1>6. Len(q) = 5 /\ q[1] = 1 /\ q[2] = a /\ q[3] = b /\ q[4] = d /\ q[5] = e
    <2>1. 2 - 1 = 1 /\ 3 - 1 = 2 /\ 4 - 1 = 3 /\ 5 - 1 = 4  OBVIOUS
    <2>2. 1 \in 1 .. 1 /\ 2 \in 1 .. 1 + 4 /\ 3 \in 1 .. 1 + 4 /\ 4 \in 1 .. 1 + 4 /\ 5 \in 1 .. 1 + 4  OBVIOUS
    <2>3. QED  BY <1>1, <1>2, <1>5, <2>1, <2>2
  <1>7. /\ q \o z \in Seq(Bit) /\ Len(q \o z) = 5 + 3 /\ \A i \in 1 .. 5 : (q \o z)[i] = q[i]
        /\ \A i \in 1 .. 5 + 3 : i > 5 => (q \o z)[i] = z[i - 5]
    <2>1. q \in Seq(Bit) /\ z \in Seq(Bit)  BY <1>3, <1>5
    <2>2. /\ q \o z \in Seq(Bit) /\ Len(q \o z) = Len(q) + Len(z) /\ \A i \in 1 .. Len(q) : (q \o z)[i] = q[i]
          /\ \A i \in 1 .. Len(q) + Len(z) : i > Len(q) => (q \o z)[i] = z[i - Len(q)]
      BY ONLY <2>1, Join
    <2>3. QED  BY <2>2, <1>3, <1>6
  <1> DEFINE u == q \o z
  <1> HIDE DEF u
  <1>8. u \in Seq(Bit) /\ Len(u) = 8 /\ u[1] = r[1] /\ u[2] = r[2] /\ u[3] = r[3] /\ u[4] = r[4] /\ u[5] = r[5]
    <2>1. u \in Seq(Bit) /\ Len(u) = 5 + 3 /\ \A i \in 1 .. 5 : u[i] = q[i]  BY ONLY <1>7 DEF u
    <2>2. 5 + 3 = 8 /\ 1 \in 1 .. 5 /\ 2 \in 1 .. 5 /\ 3 \in 1 .. 5 /\ 4 \in 1 .. 5 /\ 5 \in 1 .. 5  OBVIOUS
    <2>3. QED  BY ONLY <1>4, <1>6, <2>1, <2>2
  <1>9. u[6] = r[6] /\ u[7] = r[7] /\ u[8] = r[8]
    <2>1. \A i \in 1 .. 8 : i > 5 => u[i] = z[i - 5]
      <3>1. 1 .. 8 = 1 .. 5 + 3  OBVIOUS
      <3>2. QED  BY ONLY <1>7, <3>1 DEF u
    <2>2. 6 - 5 = 1 /\ 7 - 5 = 2 /\ 8 - 5 = 3  OBVIOUS
    <2>3. QED  BY <1>3, <1>4, <2>1, <2>2
  <1>10. \A i \in 1 .. 8 : u[i] = r[i]  BY <1>8, <1>9
  <1>11. u = r  BY <1>4, <1>8, <1>10, SeqEqual
  <1>12. QED  BY <1>11 DEF u, q, x, y, z, r

(* The clocks of a request.                                                *)
LEMMA HeaderList ==
  ASSUME NEW c \in Transfers
  PROVE  /\ Header(c) \in Seq(Clocks) /\ Len(Header(c)) = 8
         /\ \A i \in 1 .. 8 : Header(c)[i].dio = Bits8(c)[i] /\ Header(c)[i].look = FALSE
  <1> DEFINE p == Parity(<<c.at[1], c.rnw, c.at[2], c.at[3]>>)
  <1>1. Header(c) = PutAll(<<1>> \o <<c.at[1], c.rnw, c.at[2], c.at[3]>> \o <<p, 0, 1>>)  BY DEF Header
  <1>2. Bits8(c) = <<1, c.at[1], c.rnw, c.at[2], c.at[3], p, 0, 1>>  BY DEF Bits8
  <1> HIDE DEF p
  <1>3. c.at[1] \in Bit /\ c.at[2] \in Bit /\ c.at[3] \in Bit /\ c.rnw \in Bit /\ p \in Bit
    <2>1. c.at \in Bit \X Bit \X Bit /\ c.rnw \in Bit  BY RequestBits, WiresAssumption DEF Bit
    <2>2. c.at[1] \in Bit /\ c.at[2] \in Bit /\ c.at[3] \in Bit  BY <2>1
    <2>3. <<c.at[1], c.rnw, c.at[2], c.at[3]>> \in Seq(Bit)  BY <2>1, <2>2
    <2>4. QED  BY <2>1, <2>2, <2>3, ParityBit DEF p
  <1>4. <<1>> \o <<c.at[1], c.rnw, c.at[2], c.at[3]>> \o <<p, 0, 1>>
          = <<1, c.at[1], c.rnw, c.at[2], c.at[3], p, 0, 1>>
    BY <1>3, ByteJoin
  <1>5. Header(c) = PutAll(Bits8(c))  BY <1>1, <1>2, <1>4
  <1>6. QED  BY SMTT(30), <1>5, RequestBits, PutList

LEMMA AskShape ==
  ASSUME NEW c \in Transfers, cfg.trn \in Nat,
         NEW n, n = 11 + cfg.trn + (IF cfg.link = "pio" /\ c.rnw = 0 THEN cfg.trn ELSE 0)
  PROVE  /\ IsList(Ask(c), n)
         /\ \A i \in 1 .. n :
              /\ Ask(c)[i].dio = IF i <= 8 THEN Bits8(c)[i] ELSE Float
              /\ Ask(c)[i].look <=> (8 + cfg.trn < i /\ i <= 11 + cfg.trn)
  <1> DEFINE a == Header(c)
             t == TurnAround
             l == Repeat(3, Look)
             e == IF cfg.link = "pio" /\ c.rnw = 0 THEN TurnAround ELSE <<>>
             m == IF cfg.link = "pio" /\ c.rnw = 0 THEN cfg.trn ELSE 0
             u == a \o t
             v == u \o l
             r == v \o e
  <1>1. IsList(a, 8) /\ \A i \in 1 .. 8 : a[i].dio = Bits8(c)[i] /\ a[i].look = FALSE
    BY HeaderList DEF IsList
  <1>2. Block(t, cfg.trn, Float, FALSE)  BY Blocks DEF TurnAround
  <1>3. Block(l, 3, Float, TRUE)  BY Blocks
  <1>4. Block(e, m, Float, FALSE)
    <2>1. CASE cfg.link = "pio" /\ c.rnw = 0  BY <2>1, <1>2
    <2>2. CASE ~(cfg.link = "pio" /\ c.rnw = 0)  BY <2>2, Blocks
    <2>3. QED  BY <2>1, <2>2
  <1>5. Ask(c) = r  BY DEF Ask
  <1>m. m \in Nat /\ n = 11 + cfg.trn + m  OBVIOUS
  <1> HIDE DEF a, t, l, e, m
  <1>6. Behind(u, a, 8, cfg.trn, Float, FALSE)  BY <1>1, <1>2, JoinBlock
  <1> HIDE DEF u
  <1>b. IsList(u, 8 + cfg.trn)  BY <1>6 DEF Behind
  <1>7. Behind(v, u, 8 + cfg.trn, 3, Float, TRUE)  BY <1>3, <1>b, JoinBlock
  <1> HIDE DEF v
  <1>d. IsList(v, 8 + cfg.trn + 3)  BY <1>7 DEF Behind
  <1>8. Behind(r, v, 8 + cfg.trn + 3, m, Float, FALSE)  BY <1>4, <1>d, JoinBlock
  <1> HIDE DEF r
  <1>9. IsList(r, n)
    <2>1. 8 + cfg.trn + 3 + m = n  BY <1>m
    <2>2. QED  BY <1>8, <2>1 DEF Behind
  <1>10. ASSUME NEW i \in 1 .. n
         PROVE  /\ r[i].dio = IF i <= 8 THEN Bits8(c)[i] ELSE Float
                /\ r[i].look <=> (8 + cfg.trn < i /\ i <= 11 + cfg.trn)
    <2>1. CASE i > 11 + cfg.trn
      <3>1. i > 8 + cfg.trn + 3 /\ i \in 1 .. 8 + cfg.trn + 3 + m  BY <2>1, <1>m
      <3>2. r[i].dio = Float /\ r[i].look = FALSE  BY <3>1, <1>8 DEF Behind
      <3>3. QED  BY <2>1, <3>2
    <2>2. CASE ~(i > 11 + cfg.trn) /\ i > 8 + cfg.trn
      <3>1. i \in 1 .. 8 + cfg.trn + 3  BY <2>2
      <3>2. r[i] = v[i]  BY <3>1, <1>8 DEF Behind
      <3>3. v[i].dio = Float /\ v[i].look = TRUE  BY <2>2, <3>1, <1>7 DEF Behind
      <3>4. QED  BY <2>2, <3>2, <3>3
    <2>3. CASE ~(i > 8 + cfg.trn)
      <3>1. i \in 1 .. 8 + cfg.trn + 3 /\ i \in 1 .. 8 + cfg.trn  BY <2>3
      <3>2. r[i] = u[i]  BY <3>1, <1>7, <1>8 DEF Behind
      <3>3. CASE i > 8
        <4>1. u[i].dio = Float /\ u[i].look = FALSE  BY <3>1, <3>3, <1>6 DEF Behind
        <4>2. QED  BY <2>3, <3>2, <3>3, <4>1
      <3>4. CASE ~(i > 8)
        <4>1. i \in 1 .. 8  BY <3>4
        <4>2. u[i] = a[i]  BY <4>1, <1>6 DEF Behind
        <4>3. QED  BY <2>3, <3>2, <3>4, <4>1, <4>2, <1>1
      <3>5. QED  BY <3>3, <3>4
    <2>4. QED  BY <2>1, <2>2, <2>3
  <1>11. QED  BY <1>5, <1>9, <1>10

(* Clocks with the line let go, and clocks at which nothing is sampled.    *)
Mute(s, n) == IsList(s, n) /\ \A i \in 1 .. n : ~s[i].look

LEMMA JoinSame ==
  ASSUME NEW s, NEW t, NEW m, NEW n
  PROVE  /\ Mute(s, m) /\ Mute(t, n) => Mute(s \o t, m + n)
         /\ Block(s, m, Float, FALSE) /\ Block(t, n, Float, FALSE) => Block(s \o t, m + n, Float, FALSE)
  <1>1. ASSUME IsList(s, m), IsList(t, n)
        PROVE  /\ IsList(s \o t, m + n) /\ m \in Nat /\ n \in Nat
               /\ \A i \in 1 .. m : (s \o t)[i] = s[i]
               /\ \A i \in 1 .. m + n : i > m => (s \o t)[i] = t[i - m]
    <2>1. Joined(s \o t, s, t, m, n)  BY <1>1, JoinLists
    <2>2. QED  BY <2>1 DEF Joined
  <1>2. ASSUME Mute(s, m), Mute(t, n) PROVE Mute(s \o t, m + n)
    <2>1. IsList(s, m) /\ IsList(t, n)  BY <1>2 DEF Mute
    <2>2. ASSUME NEW i \in 1 .. m + n PROVE ~(s \o t)[i].look
      <3>1. CASE i > m
        <4>1. i - m \in 1 .. n  BY <1>1, <2>1, <3>1
        <4>2. QED  BY <1>1, <1>2, <2>1, <3>1, <4>1 DEF Mute
      <3>2. CASE ~(i > m)
        <4>1. i \in 1 .. m  BY <1>1, <2>1, <3>2
        <4>2. QED  BY <1>1, <1>2, <2>1, <4>1 DEF Mute
      <3>3. QED  BY <3>1, <3>2
    <2>3. QED  BY <1>1, <2>1, <2>2 DEF Mute
  <1>3. ASSUME Block(s, m, Float, FALSE), Block(t, n, Float, FALSE) PROVE Block(s \o t, m + n, Float, FALSE)
    <2>1. IsList(s, m) /\ IsList(t, n)  BY <1>3 DEF Block
    <2>2. ASSUME NEW i \in 1 .. m + n PROVE (s \o t)[i].dio = Float /\ (s \o t)[i].look = FALSE
      <3>1. CASE i > m
        <4>1. i - m \in 1 .. n  BY <1>1, <2>1, <3>1
        <4>2. QED  BY <1>1, <1>3, <2>1, <3>1, <4>1 DEF Block
      <3>2. CASE ~(i > m)
        <4>1. i \in 1 .. m  BY <1>1, <2>1, <3>2
        <4>2. QED  BY <1>1, <1>3, <2>1, <4>1 DEF Block
      <3>3. QED  BY <3>1, <3>2
    <2>3. QED  BY <1>1, <2>1, <2>2 DEF Block
  <1>4. QED  BY <1>2, <1>3

LEMMA BlockMute == ASSUME NEW s, NEW n, NEW d, Block(s, n, d, FALSE) PROVE Mute(s, n)
  BY DEF Block, Mute

(* A line reset.                                                           *)
LEMMA LineShape ==
  ASSUME NEW r, r = PutAll(Repeat(ResetOnes, 1) \o <<0, 0>>)
  PROVE  /\ IsList(r, ResetOnes + 2)
         /\ \A i \in 1 .. ResetOnes + 2 : r[i].dio = (IF i <= ResetOnes THEN 1 ELSE 0) /\ ~r[i].look
  <1> DEFINE s == Repeat(ResetOnes, 1)
             t == <<0, 0>>
             q == s \o t
  <1>1. ResetOnes \in Nat  BY BoundsAssumption
  <1>2. s \in Seq(Bit) /\ Len(s) = ResetOnes /\ \A i \in 1 .. ResetOnes : s[i] = 1
    BY <1>1, RepeatList DEF Bit
  <1>3. t \in Seq(Bit) /\ Len(t) = 2 /\ t[1] = 0 /\ t[2] = 0  BY DEF Bit
  <1>4. r = PutAll(q)  OBVIOUS
  <1> HIDE DEF s, t
  <1>5. s \in Seq(Bit) /\ t \in Seq(Bit)  BY <1>2, <1>3
  <1>6. /\ q \in Seq(Bit) /\ Len(q) = Len(s) + Len(t) /\ \A i \in 1 .. Len(s) : q[i] = s[i]
        /\ \A i \in 1 .. Len(s) + Len(t) : i > Len(s) => q[i] = t[i - Len(s)]
    BY ONLY <1>5, Join
  <1> HIDE DEF q
  <1>7. /\ PutAll(q) \in Seq(Clocks) /\ Len(PutAll(q)) = Len(q)
        /\ \A i \in 1 .. Len(q) : PutAll(q)[i].dio = q[i] /\ ~PutAll(q)[i].look
    BY ONLY <1>6, PutList
  <1>8. Len(q) = ResetOnes + 2  BY <1>1, <1>2, <1>3, <1>6
  <1>9. ASSUME NEW i \in 1 .. ResetOnes + 2
        PROVE  q[i] = IF i <= ResetOnes THEN 1 ELSE 0
    <2>1. CASE i <= ResetOnes
      <3>1. i \in 1 .. ResetOnes  BY <1>1, <2>1
      <3>2. QED  BY <3>1, <2>1, <1>2, <1>6
    <2>2. CASE ~(i <= ResetOnes)
      <3>1. i - ResetOnes \in 1 .. 2  BY <1>1, <2>2
      <3>2. t[i - ResetOnes] = 0  BY <3>1, <1>3
      <3>3. i \in 1 .. Len(s) + Len(t) /\ i > Len(s)  BY <1>1, <1>2, <1>3, <2>2
      <3>4. QED  BY <3>2, <3>3, <2>2, <1>2, <1>6
    <2>3. QED  BY <2>1, <2>2
  <1>10. IsList(r, ResetOnes + 2)  BY <1>1, <1>4, <1>7, <1>8 DEF IsList
  <1>11. \A i \in 1 .. ResetOnes + 2 : r[i].dio = q[i] /\ ~r[i].look  BY <1>4, <1>7, <1>8
  <1>12. QED  BY <1>9, <1>10, <1>11

(* The data phase of a read and of a write.                                *)
LEMMA ReadShape ==
  ASSUME NEW c, c.rnw = 1, cfg.trn \in Nat, cfg.idle \in Nat, NEW r, r = Answer(c, OK)
  PROVE  /\ IsList(r, DataLen + cfg.idle)
         /\ \A i \in 1 .. DataLen + cfg.idle :
              /\ r[i].dio = IF i <= DataLen THEN Float ELSE 0
              /\ r[i].look <=> i <= Bits + 1
  <1>0. Bits \in Nat  BY WiresAssumption
  <1> DEFINE n == Bits + 1
             s == Repeat(n, Look)
             t == TurnAround
             e == Idle
             u == s \o t
             v == u \o e
  <1>1. n \in Nat  BY <1>0
  <1> HIDE DEF n
  <1>2. Block(s, n, Float, TRUE) /\ Block(t, cfg.trn, Float, FALSE) /\ Block(e, cfg.idle, 0, FALSE)
    BY <1>1, Blocks DEF TurnAround, Idle
  <1>3. r = v  BY DEF Answer, PioAnswer, BitBangAnswer, ReadPhase, n
  <1> HIDE DEF s, t, e
  <1>4. IsList(s, n)  BY <1>2 DEF Block
  <1>5. Behind(u, s, n, cfg.trn, Float, FALSE)  BY <1>2, <1>4, JoinBlock
  <1> HIDE DEF u
  <1>6. IsList(u, n + cfg.trn)  BY <1>5 DEF Behind
  <1>7. Behind(v, u, n + cfg.trn, cfg.idle, 0, FALSE)  BY <1>2, <1>6, JoinBlock
  <1> HIDE DEF v
  <1>8. DataLen = n + cfg.trn  BY DEF DataLen, n
  <1>9. IsList(v, DataLen + cfg.idle)  BY <1>7, <1>8 DEF Behind
  <1>10. ASSUME NEW i \in 1 .. DataLen + cfg.idle
         PROVE  v[i].dio = (IF i <= DataLen THEN Float ELSE 0) /\ (v[i].look <=> i <= n)
    <2>1. CASE i > DataLen
      <3>1. v[i].dio = 0 /\ v[i].look = FALSE  BY <2>1, <1>7, <1>8 DEF Behind
      <3>2. QED  BY <2>1, <3>1, <1>1, <1>8
    <2>2. CASE ~(i > DataLen)
      <3>1. i \in 1 .. n + cfg.trn  BY <2>2, <1>1, <1>8
      <3>2. v[i] = u[i]  BY <3>1, <1>7 DEF Behind
      <3>3. CASE i > n
        <4>1. u[i].dio = Float /\ u[i].look = FALSE  BY <3>1, <3>3, <1>5 DEF Behind
        <4>2. QED  BY <2>2, <3>1, <3>2, <3>3, <4>1, <1>1, <1>8
      <3>4. CASE ~(i > n)
        <4>1. i \in 1 .. n  BY <3>1, <3>4, <1>1
        <4>2. u[i] = s[i]  BY <4>1, <1>5 DEF Behind
        <4>3. s[i].dio = Float /\ s[i].look = TRUE  BY <4>1, <1>2 DEF Block
        <4>4. QED  BY <2>2, <3>1, <3>2, <3>4, <4>2, <4>3, <1>1, <1>8
      <3>5. QED  BY <3>3, <3>4
    <2>3. QED  BY <2>1, <2>2
  <1>11. QED  BY <1>3, <1>9, <1>10 DEF n

LEMMA WordClocks ==
  ASSUME NEW c, c.word \in Word
  PROVE  /\ Bits + 1 \in Nat /\ IsList(WritePhase(c), Bits + 1)
         /\ \A i \in 1 .. Bits + 1 : WritePhase(c)[i].dio = WithParity(c.word)[i] /\ ~WritePhase(c)[i].look
  <1> DEFINE s == WithParity(c.word)
  <1>1. Bits \in Nat /\ s \in Seq(Bit) /\ Len(s) = Bits + 1  BY WordList
  <1>2. WritePhase(c) = PutAll(s)  BY DEF WritePhase, WithParity
  <1> HIDE DEF s
  <1>3. /\ PutAll(s) \in Seq(Clocks) /\ Len(PutAll(s)) = Len(s)
        /\ \A i \in 1 .. Len(s) : PutAll(s)[i].dio = s[i] /\ ~PutAll(s)[i].look
    BY ONLY <1>1, PutList
  <1>4. QED  BY <1>1, <1>2, <1>3 DEF IsList, s

LEMMA WriteShape ==
  ASSUME NEW c \in Transfers, c.rnw = 0, cfg.trn \in Nat, cfg.idle \in Nat, NEW r, r = Answer(c, OK),
         NEW k, k = IF cfg.link = "pio" THEN cfg.trn ELSE 0, NEW n, n = DataLen + cfg.idle - k
  PROVE  /\ IsList(r, n)
         /\ \A i \in 1 .. n :
              /\ r[i].dio = IF k + i <= cfg.trn THEN Float
                            ELSE IF k + i <= DataLen THEN WithParity(c.word)[k + i - cfg.trn] ELSE 0
              /\ ~r[i].look
  <1> DEFINE b == Bits + 1
             s == WritePhase(c)
             t == TurnAround
             e == Idle
             u == t \o s
             x == u \o e
             y == s \o e
  <1>1. b \in Nat /\ IsList(s, b) /\ \A i \in 1 .. b : s[i].dio = WithParity(c.word)[i] /\ ~s[i].look
    BY WordClocks, RequestBits
  <1>2. Block(t, cfg.trn, Float, FALSE) /\ Block(e, cfg.idle, 0, FALSE)  BY Blocks DEF TurnAround, Idle
  <1>3. r = IF cfg.link = "pio" THEN y ELSE x  BY DEF Answer, PioAnswer, BitBangAnswer
  <1>d. DataLen = b + cfg.trn  BY DEF DataLen
  <1> HIDE DEF b, s, t, e
  <1>4. CASE cfg.link = "pio"
    <2>1. r = y /\ k = cfg.trn /\ n = b + cfg.idle
      <3>1. r = y /\ k = cfg.trn  BY <1>3, <1>4
      <3>2. DataLen + cfg.idle - cfg.trn = b + cfg.idle  BY <1>1, <1>d
      <3>3. QED  BY <3>1, <3>2
    <2>2. Behind(y, s, b, cfg.idle, 0, FALSE)  BY <1>1, <1>2, JoinBlock
    <2> HIDE DEF y
    <2>3. IsList(r, n)  BY <2>1, <2>2 DEF Behind
    <2>4. ASSUME NEW i \in 1 .. n
          PROVE  /\ r[i].dio = IF k + i <= cfg.trn THEN Float
                               ELSE IF k + i <= DataLen THEN WithParity(c.word)[k + i - cfg.trn] ELSE 0
                 /\ ~r[i].look
      <3>1. ~(k + i <= cfg.trn) /\ k + i - cfg.trn = i  BY <2>1, <2>4, <1>1
      <3>2. CASE i > b
        <4>1. r[i].dio = 0 /\ r[i].look = FALSE  BY <2>1, <2>2, <3>2 DEF Behind
        <4>2. ~(k + i <= DataLen)  BY <3>2, <2>1, <1>d, <1>1
        <4>3. QED  BY <3>1, <4>1, <4>2
      <3>3. CASE ~(i > b)
        <4>1. i \in 1 .. b  BY <3>3, <1>1
        <4>2. r[i].dio = WithParity(c.word)[i] /\ ~r[i].look  BY <4>1, <1>1, <2>1, <2>2 DEF Behind
        <4>3. k + i <= DataLen  BY <4>1, <2>1, <1>d, <1>1
        <4>4. QED  BY <3>1, <4>2, <4>3
      <3>4. QED  BY <3>2, <3>3
    <2>5. QED  BY <2>3, <2>4
  <1>5. CASE cfg.link # "pio"
    <2>1. r = x /\ k = 0 /\ n = cfg.trn + b + cfg.idle  BY <1>1, <1>3, <1>5, <1>d
    <2>2. IsList(t, cfg.trn)  BY <1>2 DEF Block
    <2>3. /\ IsList(u, cfg.trn + b) /\ \A i \in 1 .. cfg.trn : u[i] = t[i]
          /\ \A i \in 1 .. cfg.trn + b : i > cfg.trn => u[i] = s[i - cfg.trn]
      <3>1. Joined(u, t, s, cfg.trn, b)  BY <2>2, <1>1, JoinLists
      <3> HIDE DEF u
      <3>2. QED  BY <3>1 DEF Joined
    <2> HIDE DEF u
    <2>4. Behind(x, u, cfg.trn + b, cfg.idle, 0, FALSE)  BY <1>2, <2>3, JoinBlock
    <2> HIDE DEF x
    <2>5. IsList(r, n)  BY <2>1, <2>4 DEF Behind
    <2>6. ASSUME NEW i \in 1 .. n
          PROVE  /\ r[i].dio = IF k + i <= cfg.trn THEN Float
                               ELSE IF k + i <= DataLen THEN WithParity(c.word)[k + i - cfg.trn] ELSE 0
                 /\ ~r[i].look
      <3>1. k + i = i  BY <2>1
      <3>2. CASE i > cfg.trn + b
        <4>1. r[i].dio = 0 /\ r[i].look = FALSE  BY <2>1, <2>4, <3>2 DEF Behind
        <4>2. ~(k + i <= DataLen) /\ ~(k + i <= cfg.trn)  BY <3>1, <3>2, <1>d, <1>1
        <4>3. QED  BY <4>1, <4>2
      <3>3. CASE ~(i > cfg.trn + b)
        <4>1. i \in 1 .. cfg.trn + b  BY <3>3, <1>1
        <4>2. r[i] = u[i]  BY <4>1, <2>1, <2>4 DEF Behind
        <4>3. CASE i > cfg.trn
          <5>1. i - cfg.trn \in 1 .. b /\ u[i] = s[i - cfg.trn]  BY <4>1, <4>3, <2>3, <1>1
          <5>2. r[i].dio = WithParity(c.word)[i - cfg.trn] /\ ~r[i].look  BY <5>1, <4>2, <1>1
          <5>3. ~(k + i <= cfg.trn) /\ k + i <= DataLen  BY <3>1, <4>1, <4>3, <1>d, <1>1
          <5>4. QED  BY <5>2, <5>3, <3>1
        <4>4. CASE ~(i > cfg.trn)
          <5>1. i \in 1 .. cfg.trn /\ u[i] = t[i]  BY <4>1, <4>4, <2>3
          <5>2. r[i].dio = Float /\ r[i].look = FALSE  BY <5>1, <4>2, <1>2 DEF Block
          <5>3. k + i <= cfg.trn  BY <3>1, <4>4
          <5>4. QED  BY <5>2, <5>3
        <4>5. QED  BY <4>3, <4>4
      <3>4. QED  BY <3>2, <3>3
    <2>7. QED  BY <2>5, <2>6
  <1>6. QED  BY <1>4, <1>5

(* A refused transfer, and one without an acknowledge.                     *)
LEMMA RefusedShape ==
  ASSUME NEW c \in Transfers, cfg.trn \in Nat, cfg.phase \in BOOLEAN, NEW ack \in {WAIT, FAULT}, NEW r, r = Answer(c, ack)
  PROVE  Mute(r, RestLen(ack) - (IF cfg.link = "pio" /\ c.rnw = 0 THEN cfg.trn ELSE 0))
  <1> DEFINE b == Bits + 1
             t == TurnAround
             s == Released
             p == Repeat(b, Put(0))
  <1>1. b \in Nat  BY WiresAssumption
  <1>2. Mute(t, cfg.trn) /\ Mute(s, b) /\ Mute(p, b) /\ Mute(<<>>, 0)
    BY <1>1, Blocks, BlockMute DEF TurnAround, Released
  <1>3. ack # OK /\ c.rnw \in {0, 1}  BY RequestBits DEF OK, WAIT, FAULT, Bit
  <1>4. RestLen(ack) = IF cfg.phase THEN b + cfg.trn ELSE cfg.trn  BY <1>3 DEF RestLen, DataLen
  <1>5. r = IF cfg.link = "pio"
            THEN IF c.rnw = 1 THEN (IF cfg.phase THEN s ELSE <<>>) \o t ELSE IF cfg.phase THEN p ELSE <<>>
            ELSE (IF cfg.phase /\ c.rnw = 1 THEN s ELSE <<>>) \o t \o (IF cfg.phase /\ c.rnw = 0 THEN p ELSE <<>>)
    BY <1>3 DEF Answer, PioAnswer, BitBangAnswer
  <1> HIDE DEF b, t, s, p
  <1>6. /\ Mute(s \o t, b + cfg.trn) /\ Mute(<<>> \o t, 0 + cfg.trn)
        /\ Mute((s \o t) \o <<>>, b + cfg.trn + 0) /\ Mute((<<>> \o t) \o <<>>, 0 + cfg.trn + 0)
        /\ Mute((<<>> \o t) \o p, 0 + cfg.trn + b)
    <2>1. Mute(s \o t, b + cfg.trn) /\ Mute(<<>> \o t, 0 + cfg.trn)  BY <1>2, JoinSame
    <2>2. QED  BY <2>1, <1>2, JoinSame
  <1>7. CASE cfg.link = "pio"
    <2>1. CASE c.rnw = 1 /\ cfg.phase
      <3>1. r = s \o t /\ RestLen(ack) - 0 = b + cfg.trn  BY <1>1, <1>4, <1>5, <1>7, <2>1
      <3>2. QED  BY <3>1, <2>1, <1>6
    <2>2. CASE c.rnw = 1 /\ ~cfg.phase
      <3>1. r = <<>> \o t /\ RestLen(ack) - 0 = 0 + cfg.trn  BY <1>1, <1>4, <1>5, <1>7, <2>2
      <3>2. QED  BY <3>1, <2>2, <1>6
    <2>3. CASE c.rnw = 0 /\ cfg.phase
      <3>1. r = p /\ RestLen(ack) - cfg.trn = b  BY <1>1, <1>4, <1>5, <1>7, <2>3
      <3>2. QED  BY <3>1, <2>3, <1>2, <1>7
    <2>4. CASE c.rnw = 0 /\ ~cfg.phase
      <3>1. r = <<>> /\ RestLen(ack) - cfg.trn = 0  BY <1>1, <1>4, <1>5, <1>7, <2>4
      <3>2. QED  BY <3>1, <2>4, <1>2, <1>7
    <2>5. QED  BY <2>1, <2>2, <2>3, <2>4, <1>3
  <1>8. CASE cfg.link # "pio"
    <2>1. CASE c.rnw = 1 /\ cfg.phase
      <3>1. r = (s \o t) \o <<>> /\ RestLen(ack) - 0 = b + cfg.trn + 0  BY <1>1, <1>4, <1>5, <1>8, <2>1
      <3>2. QED  BY <3>1, <1>8, <1>6
    <2>2. CASE ~cfg.phase
      <3>1. r = (<<>> \o t) \o <<>> /\ RestLen(ack) - 0 = 0 + cfg.trn + 0  BY <1>1, <1>4, <1>5, <1>8, <2>2
      <3>2. QED  BY <3>1, <1>8, <1>6
    <2>3. CASE c.rnw = 0 /\ cfg.phase
      <3>1. r = (<<>> \o t) \o p /\ RestLen(ack) - 0 = 0 + cfg.trn + b  BY <1>1, <1>4, <1>5, <1>8, <2>3
      <3>2. QED  BY <3>1, <1>8, <1>6
    <2>4. QED  BY <2>1, <2>2, <2>3, <1>3
  <1>9. QED  BY <1>7, <1>8

LEMMA UnheardShape ==
  ASSUME NEW c \in Transfers, cfg.trn \in Nat, NEW ack, ack \notin Acks, NEW r, r = Answer(c, ack)
  PROVE  Block(r, DataLen - (IF cfg.link = "pio" /\ c.rnw = 0 THEN cfg.trn ELSE 0), Float, FALSE)
  <1> DEFINE b == Bits + 1
             t == TurnAround
             s == Released
  <1>1. b \in Nat  BY WiresAssumption
  <1>2. Block(t, cfg.trn, Float, FALSE) /\ Block(s, b, Float, FALSE) /\ Block(<<>>, 0, Float, FALSE)
    BY <1>1, Blocks DEF TurnAround, Released
  <1>3. ack # OK /\ ack \notin {WAIT, FAULT} /\ c.rnw \in {0, 1}  BY RequestBits DEF Acks, Bit
  <1>4. DataLen = b + cfg.trn  BY DEF DataLen
  <1>5. r = IF cfg.link = "pio" THEN s \o (IF c.rnw = 1 THEN t ELSE <<>>) ELSE t \o s
    BY <1>3 DEF Answer, PioAnswer, BitBangAnswer
  <1> HIDE DEF b, t, s
  <1>6. /\ Block(s \o t, b + cfg.trn, Float, FALSE) /\ Block(s \o <<>>, b + 0, Float, FALSE)
        /\ Block(t \o s, cfg.trn + b, Float, FALSE)
    BY <1>2, JoinSame
  <1> DEFINE z == IF cfg.link = "pio" /\ c.rnw = 0 THEN cfg.trn ELSE 0
  <1>7. CASE cfg.link = "pio" /\ c.rnw = 1
    <2>1. z = 0 /\ r = s \o t  BY <1>5, <1>7
    <2>2. DataLen - 0 = b + cfg.trn  BY <1>1, <1>4
    <2>3. QED  BY <2>1, <2>2, <1>6
  <1>8. CASE cfg.link = "pio" /\ c.rnw = 0
    <2>1. z = cfg.trn /\ r = s \o <<>>  BY <1>5, <1>8
    <2>2. DataLen - cfg.trn = b + 0  BY <1>1, <1>4
    <2>3. QED  BY <2>1, <2>2, <1>6
  <1>9. CASE cfg.link # "pio"
    <2>1. z = 0 /\ r = t \o s  BY <1>5, <1>9
    <2>2. DataLen - 0 = cfg.trn + b  BY <1>1, <1>4
    <2>3. QED  BY <2>1, <2>2, <1>6
  <1>10. QED  BY <1>3, <1>7, <1>8, <1>9
-----------------------------------------------------------------------------
(* The plan of the target behind a request.                                *)
Level == 0 .. 3
IsPlan(s, n) == s \in Seq(Level) /\ n \in Nat /\ Len(s) = n

JoinedPlan(r, s, t, m, n) ==
  /\ IsPlan(r, m + n) /\ m \in Nat /\ n \in Nat
  /\ \A i \in 1 .. m : r[i] = s[i]
  /\ \A i \in 1 .. m + n : i > m => r[i] = t[i - m]

LEMMA JoinPlans ==
  ASSUME NEW s, NEW t, NEW m, NEW n, IsPlan(s, m), IsPlan(t, n)
  PROVE  JoinedPlan(s \o t, s, t, m, n)
  <1>1. s \in Seq(Level) /\ t \in Seq(Level)  BY DEF IsPlan
  <1>2. m \in Nat /\ n \in Nat /\ Len(s) = m /\ Len(t) = n  BY DEF IsPlan
  <1>3. /\ s \o t \in Seq(Level) /\ Len(s \o t) = Len(s) + Len(t)
        /\ \A i \in 1 .. Len(s) : (s \o t)[i] = s[i]
        /\ \A i \in 1 .. Len(s) + Len(t) : i > Len(s) => (s \o t)[i] = t[i - Len(s)]
    BY ONLY <1>1, Join
  <1>4. QED  BY <1>2, <1>3 DEF IsPlan, JoinedPlan

LEMMA RepeatPlan ==
  ASSUME NEW n \in Nat, NEW x \in Level
  PROVE  IsPlan(Repeat(n, x), n) /\ \A i \in 1 .. n : Repeat(n, x)[i] = x
  BY RepeatList DEF IsPlan

LEMMA WordPlan ==
  ASSUME NEW w \in Word
  PROVE  IsPlan(WithParity(w), Bits + 1)
  <1>1. WithParity(w) \in Seq(Bit) /\ Len(WithParity(w)) = Bits + 1 /\ Bits \in Nat  BY WordList
  <1>2. Bit \subseteq Level  BY DEF Bit, Level
  <1>3. WithParity(w) \in Seq(Level)  BY <1>1, <1>2, SeqMonotonic
  <1>4. QED  BY <1>1, <1>3 DEF IsPlan

LEMMA AckPlan ==
  ASSUME NEW ack \in Acks
  PROVE  IsPlan(ack, 3) /\ ack \in Seq(Bit) /\ Len(ack) = 3 /\ ack[1] \in Bit /\ ack[2] \in Bit /\ ack[3] \in Bit
         /\ \A i \in 1 .. 3 : ack[i] \in Bit
  <1>1. ack \in Seq(Bit) /\ Len(ack) = 3
    <2>1. OK \in Seq(Bit) /\ Len(OK) = 3  BY DEF OK, Bit
    <2>2. WAIT \in Seq(Bit) /\ Len(WAIT) = 3  BY DEF WAIT, Bit
    <2>3. FAULT \in Seq(Bit) /\ Len(FAULT) = 3  BY DEF FAULT, Bit
    <2>4. ack = OK \/ ack = WAIT \/ ack = FAULT  BY DEF Acks
    <2>5. QED  BY ONLY <2>1, <2>2, <2>3, <2>4
  <1>2. ack \in Seq(Level)
    <2>1. Bit \subseteq Level  BY DEF Bit, Level
    <2>2. QED  BY <1>1, <2>1, SeqMonotonic
  <1>3. \A i \in 1 .. 3 : ack[i] \in Bit  BY <1>1, LenProperties
  <1>4. QED  BY <1>1, <1>2, <1>3 DEF IsPlan

(* The part behind the acknowledge.                                        *)
Rest(ack) ==
  IF ack # OK THEN Refusal(cmd.rnw)
  ELSE IF cmd.rnw = 1 THEN ReadPlan(regs[cmd.at]) ELSE Release(cfg.trn) \o Repeat(Bits + 1, Sample)

LEMMA RestShape ==
  ASSUME cmd \in Transfers, regs[cmd.at] \in Word, cfg.trn \in Nat, cfg.phase \in BOOLEAN, NEW ack \in Acks
  PROVE  /\ IsPlan(Rest(ack), RestLen(ack))
         /\ \A j \in 1 .. RestLen(ack) : Rest(ack)[j] = RestAt(ack, j)
  <1> DEFINE b == Bits + 1
             w == regs[cmd.at]
             t == Release(cfg.trn)
             s == WithParity(w)
             q == Repeat(b, Sample)
             u == s \o t
             v == t \o q
  <1>1. b \in Nat  BY WiresAssumption
  <1>2. IsPlan(t, cfg.trn) /\ \A i \in 1 .. cfg.trn : t[i] = Float
    BY RepeatPlan DEF Release, Float, Level
  <1>3. IsPlan(s, b)  BY WordPlan
  <1>4. IsPlan(q, b) /\ \A i \in 1 .. b : q[i] = Sample  BY <1>1, RepeatPlan DEF Sample, Level
  <1>5. cmd.rnw \in {0, 1}  BY RequestBits DEF Bit
  <1>6. DataLen = b + cfg.trn  BY DEF DataLen
  <1>7. CASE ack # OK
    <2>1. Rest(ack) = Repeat(RestLen(ack), Float)
      BY <1>7 DEF Rest, Refusal, Release, RestLen, DataLen
    <2>2. RestLen(ack) \in Nat  BY <1>1, <1>6, <1>7 DEF RestLen
    <2>3. RestLen(ack) \in Nat /\ Float \in Level  BY <2>2 DEF Float, Level
    <2>4. QED  BY <2>1, <2>3, <1>7, RepeatPlan DEF RestAt
  <1>8. CASE ack = OK /\ cmd.rnw = 1
    <2>1. Rest(ack) = u  BY <1>8 DEF Rest, ReadPlan, WithParity
    <2>2. RestLen(ack) = b + cfg.trn  BY <1>6, <1>8 DEF RestLen
    <2> HIDE DEF s, t, b, w
    <2>3. /\ IsPlan(u, b + cfg.trn) /\ \A i \in 1 .. b : u[i] = s[i]
          /\ \A i \in 1 .. b + cfg.trn : i > b => u[i] = t[i - b]
      <3>1. JoinedPlan(u, s, t, b, cfg.trn)  BY <1>2, <1>3, JoinPlans
      <3> HIDE DEF u
      <3>2. QED  BY <3>1 DEF JoinedPlan
    <2> HIDE DEF u
    <2>4. ASSUME NEW j \in 1 .. b + cfg.trn PROVE u[j] = IF j <= b THEN s[j] ELSE Float
      <3>1. CASE j <= b
        <4>1. j \in 1 .. b  BY <3>1, <1>1
        <4>2. QED  BY <4>1, <3>1, <2>3
      <3>2. CASE ~(j <= b)
        <4>1. j - b \in 1 .. cfg.trn /\ j > b  BY <3>2, <1>1
        <4>2. QED  BY <4>1, <3>2, <2>3, <1>2
      <3>3. QED  BY <3>1, <3>2
    <2>5. \A j : RestAt(ack, j) = IF j <= b THEN s[j] ELSE Float  BY <1>8 DEF RestAt, s, w, b
    <2>6. QED  BY <2>1, <2>2, <2>3, <2>4, <2>5
  <1>9. CASE ack = OK /\ cmd.rnw = 0
    <2>1. Rest(ack) = v  BY <1>9 DEF Rest
    <2>2. RestLen(ack) = cfg.trn + b  BY <1>1, <1>6, <1>9 DEF RestLen
    <2> HIDE DEF t, q, b
    <2>3. /\ IsPlan(v, cfg.trn + b) /\ \A i \in 1 .. cfg.trn : v[i] = t[i]
          /\ \A i \in 1 .. cfg.trn + b : i > cfg.trn => v[i] = q[i - cfg.trn]
      <3>1. JoinedPlan(v, t, q, cfg.trn, b)  BY <1>2, <1>4, JoinPlans
      <3> HIDE DEF v
      <3>2. QED  BY <3>1 DEF JoinedPlan
    <2> HIDE DEF v
    <2>4. ASSUME NEW j \in 1 .. cfg.trn + b PROVE v[j] = IF j <= cfg.trn THEN Float ELSE Sample
      <3>1. CASE j <= cfg.trn
        <4>1. j \in 1 .. cfg.trn  BY <3>1, <1>1
        <4>2. QED  BY <4>1, <3>1, <2>3, <1>2
      <3>2. CASE ~(j <= cfg.trn)
        <4>1. j - cfg.trn \in 1 .. b /\ j > cfg.trn  BY <3>2, <1>1
        <4>2. QED  BY <4>1, <3>2, <2>3, <1>4
      <3>3. QED  BY <3>1, <3>2
    <2>5. \A j : RestAt(ack, j) = IF j <= cfg.trn THEN Float ELSE Sample  BY <1>9 DEF RestAt
    <2>6. QED  BY <2>1, <2>2, <2>3, <2>4, <2>5
  <1>10. QED  BY <1>5, <1>7, <1>8, <1>9

LEMMA PlanShape ==
  ASSUME cmd \in Transfers, regs[cmd.at] \in Word, cfg.trn \in Nat, cfg.phase \in BOOLEAN, NEW ack \in Acks,
         NEW p, p = Release(cfg.trn) \o ack \o Rest(ack)
  PROVE  IsPlan(p, PlanLen(ack)) /\ \A i \in 1 .. PlanLen(ack) : p[i] = PlanAt(ack, i)
  <1> DEFINE t == Release(cfg.trn)
             e == Rest(ack)
             n == RestLen(ack)
             u == t \o ack
             v == u \o e
  <1>1. IsPlan(t, cfg.trn) /\ \A i \in 1 .. cfg.trn : t[i] = Float
    BY RepeatPlan DEF Release, Float, Level
  <1>2. IsPlan(ack, 3)  BY AckPlan
  <1>3. IsPlan(e, n) /\ \A j \in 1 .. n : e[j] = RestAt(ack, j)  BY RestShape
  <1>4. p = v /\ PlanLen(ack) = cfg.trn + 3 + n  BY DEF PlanLen
  <1> HIDE DEF t, e, n
  <1>5. /\ IsPlan(u, cfg.trn + 3) /\ \A i \in 1 .. cfg.trn : u[i] = t[i]
        /\ \A i \in 1 .. cfg.trn + 3 : i > cfg.trn => u[i] = ack[i - cfg.trn]
    <2>1. JoinedPlan(u, t, ack, cfg.trn, 3)  BY <1>1, <1>2, JoinPlans
    <2> HIDE DEF u
    <2>2. QED  BY <2>1 DEF JoinedPlan
  <1> HIDE DEF u
  <1>6. /\ IsPlan(v, cfg.trn + 3 + n) /\ n \in Nat /\ \A i \in 1 .. cfg.trn + 3 : v[i] = u[i]
        /\ \A i \in 1 .. cfg.trn + 3 + n : i > cfg.trn + 3 => v[i] = e[i - (cfg.trn + 3)]
    <2>1. JoinedPlan(v, u, e, cfg.trn + 3, n)  BY <1>3, <1>5, JoinPlans
    <2> HIDE DEF v
    <2>2. QED  BY <2>1 DEF JoinedPlan
  <1> HIDE DEF v
  <1>7. ASSUME NEW i \in 1 .. cfg.trn + 3 + n PROVE v[i] = PlanAt(ack, i)
    <2>1. CASE i > cfg.trn + 3
      <3>1. i - (cfg.trn + 3) \in 1 .. n  BY <2>1, <1>6
      <3>2. v[i] = RestAt(ack, i - (cfg.trn + 3))  BY <3>1, <2>1, <1>3, <1>6
      <3>3. QED  BY <3>2, <2>1 DEF PlanAt
    <2>2. CASE ~(i > cfg.trn + 3) /\ i > cfg.trn
      <3>1. i \in 1 .. cfg.trn + 3  BY <2>2
      <3>2. v[i] = ack[i - cfg.trn]  BY <3>1, <2>2, <1>5, <1>6
      <3>3. QED  BY <3>2, <2>2 DEF PlanAt
    <2>3. CASE ~(i > cfg.trn)
      <3>1. i \in 1 .. cfg.trn + 3 /\ i \in 1 .. cfg.trn  BY <2>3
      <3>2. v[i] = Float  BY <3>1, <1>1, <1>5, <1>6
      <3>3. QED  BY <3>2, <2>3 DEF PlanAt
    <2>4. QED  BY <2>1, <2>2, <2>3
  <1>8. QED  BY <1>4, <1>6, <1>7
-----------------------------------------------------------------------------
(* One clock. The level of the line, before it is disturbed.               *)
Line == IF todo[1].dio # Float THEN todo[1].dio ELSE IF plan # <<>> /\ plan[1] < Float THEN plan[1] ELSE 1
Ticks(flip, level) ==
  /\ flip \in Bit /\ level = (IF flip = 0 THEN Line ELSE 1 - Line) /\ level \in Bit /\ Line \in Bit
  /\ todo # <<>> /\ todo' = Tail(todo)
  /\ noise' = noise + flip /\ noise' \in Bit /\ (step = "none" => flip = 0)
  /\ slipped' = (slipped \/ (flip = 1 /\ step = "data" /\ plan = <<>> /\ Len(todo) > 1))
  /\ seen' = (IF todo[1].look THEN Append(seen, level) ELSE seen)
  /\ Follow(level) /\ UNCHANGED <<cfg, ready, cmd, asked, ops, step, result, jtag>>

LEMMA TailOf ==
  ASSUME NEW S, NEW s \in Seq(S), s # <<>>
  PROVE  /\ Len(s) \in Nat /\ Len(s) >= 1 /\ Head(s) = s[1] /\ s[1] \in S /\ Tail(s) \in Seq(S)
         /\ Len(Tail(s)) = Len(s) - 1
         /\ \A i \in 1 .. Len(s) - 1 : Tail(s)[i] = s[i + 1]
  BY HeadTailProperties, LenProperties, EmptySeq

LEMMA WidthFacts ==
  ASSUME WireTypes
  PROVE  /\ cfg.trn \in Nat /\ cfg.trn >= 1 /\ cfg.idle \in Nat /\ cfg.phase \in BOOLEAN /\ Bits \in Nat /\ Bits >= 2
         /\ ResetOnes \in Nat /\ ResetOnes > Bits + 8 + cfg.trn /\ DataLen \in Nat /\ DataLen = Bits + 1 + cfg.trn
         /\ Len(todo) \in Nat /\ Len(plan) \in Nat /\ Len(heard) \in Nat /\ Len(seen) \in Nat
         /\ ones \in Nat /\ noise \in Bit
  <1>1. cfg.trn \in Trns /\ cfg.idle \in Idles /\ cfg.phase \in BOOLEAN  BY DEF WireTypes
  <1>2. cfg.trn \in 1 .. 4 /\ cfg.idle \in Nat  BY <1>1, WiresAssumption
  <1>3. ResetOnes > Bits + 8 + cfg.trn  BY <1>1, ResetAssumption
  <1>4. Bits \in Nat \ {0} /\ Bits % 2 = 0 /\ ResetOnes \in Nat  BY WiresAssumption, BoundsAssumption
  <1>5. Bits >= 2  BY <1>4
  <1>6. DataLen = Bits + 1 + cfg.trn  BY DEF DataLen
  <1>7. Len(todo) \in Nat /\ Len(plan) \in Nat /\ Len(heard) \in Nat /\ Len(seen) \in Nat
    BY LenProperties DEF WireTypes
  <1>8. ones \in Nat /\ noise \in Bit  BY <1>4 DEF WireTypes
  <1>9. cfg.trn \in Nat /\ cfg.trn >= 1 /\ Bits \in Nat  BY ONLY <1>2, <1>4
  <1>10. DataLen \in Nat  BY ONLY <1>6, <1>9
  <1>11. QED  BY ONLY <1>1, <1>2, <1>3, <1>4, <1>5, <1>6, <1>7, <1>8, <1>9, <1>10

LEMMA ClockTicks ==
  ASSUME WireTypes, MaxNoise <= 1, SwdClock
  PROVE  \E flip, level : Ticks(flip, level)
  <1>1. todo # <<>> /\ todo \in Seq(Clocks) /\ plan \in Seq(Level) /\ noise \in Bit
    BY DEF SwdClock, WireTypes, Level
  <1>2. Head(todo) = todo[1] /\ todo[1] \in Clocks  BY <1>1, TailOf
  <1>3. todo[1].dio \in {0, 1, 2}  BY <1>2 DEF Clocks
  <1>4. plan # <<>> => Head(plan) = plan[1] /\ plan[1] \in Level  BY <1>1, TailOf
  <1>5. Line \in Bit  BY <1>3, <1>4 DEF Line, Float, Level, Bit
  <1>6. PICK flip \in {0, 1} :
          /\ noise + flip <= (IF step = "none" THEN noise ELSE MaxNoise) /\ noise' = noise + flip
          /\ slipped' = (slipped \/ (flip = 1 /\ step = "data" /\ plan = <<>> /\ Len(todo) > 1))
          /\ seen' = (IF todo[1].look THEN Append(seen, (Line + flip) % 2) ELSE seen)
          /\ Follow((Line + flip) % 2)
    BY <1>2, <1>4 DEF SwdClock, Line, Drives
  <1> DEFINE level == (Line + flip) % 2
  <1>7. level = (IF flip = 0 THEN Line ELSE 1 - Line) /\ level \in Bit  BY <1>5 DEF Bit
  <1> HIDE DEF level
  <1>8. noise' = noise + flip /\ noise' \in Bit /\ (step = "none" => flip = 0)
    <2>1. MaxNoise \in Nat  BY BoundsAssumption
    <2>2. QED  BY <1>1, <1>6, <2>1 DEF Bit
  <1>9. /\ slipped' = (slipped \/ (flip = 1 /\ step = "data" /\ plan = <<>> /\ Len(todo) > 1))
        /\ seen' = (IF todo[1].look THEN Append(seen, level) ELSE seen)
        /\ Follow(level)
    BY <1>6 DEF level
  <1>10. todo' = Tail(todo) /\ UNCHANGED <<cfg, ready, cmd, asked, ops, step, result, jtag>>
    BY DEF SwdClock, host
  <1>11. flip \in Bit  BY DEF Bit
  <1>12. Ticks(flip, level)  BY <1>1, <1>5, <1>7, <1>8, <1>9, <1>10, <1>11 DEF Ticks
  <1>13. QED  BY <1>12

(* What the target does with a clock.                                      *)
LEMMA Counts ==
  ASSUME WireTypes, NEW level \in Bit, Follow(level)
  PROVE  /\ ones' = IF (plan # <<>> /\ plan[1] < Float) \/ level = 0 THEN 0
                    ELSE IF ones < ResetOnes THEN ones + 1 ELSE ones
         /\ ones' \in 0 .. ResetOnes /\ ResetOnes \in Nat \ {0} /\ ones' <= ones + 1
  <1>1. ones \in 0 .. ResetOnes /\ ResetOnes \in Nat \ {0}
    BY WidthFacts DEF WireTypes
  <1>2. ones' = IF Drives THEN 0 ELSE IF level = 0 THEN 0 ELSE IF ones < ResetOnes THEN ones + 1 ELSE ones
    BY DEF Follow
  <1>3. Drives <=> (plan # <<>> /\ plan[1] < Float)  BY TailOf DEF Drives, WireTypes
  <1>4. QED  BY <1>1, <1>2, <1>3

LEMMA LineReseen ==
  ASSUME WireTypes, NEW level \in Bit, Follow(level), ones' = ResetOnes
  PROVE  mode' = "reset" /\ plan' = <<>> /\ heard' = <<>> /\ want' = <<>> /\ UNCHANGED <<regs, sticky>>
  BY DEF Follow

LEMMA Asleep ==
  ASSUME WireTypes, NEW level \in Bit, Follow(level), ones' # ResetOnes, mode # "sync"
  PROVE  /\ mode' = (IF mode = "reset" /\ level = 0 THEN "sync" ELSE mode)
         /\ UNCHANGED <<plan, heard, want, sticky, regs>>
  BY DEF Follow

LEMMA Passes ==
  ASSUME WireTypes, NEW level \in Bit, Follow(level), ones' # ResetOnes, mode = "sync", plan # <<>>, plan[1] # Sample
  PROVE  plan' = Tail(plan) /\ UNCHANGED <<mode, heard, want, sticky, regs>>
  <1>1. Head(plan) = plan[1]  BY TailOf DEF WireTypes
  <1>2. QED  BY <1>1 DEF Follow

LEMMA Samples ==
  ASSUME WireTypes, NEW level \in Bit, Follow(level), ones' # ResetOnes, mode = "sync", plan # <<>>, plan[1] = Sample
  PROVE  /\ plan' = Tail(plan) /\ UNCHANGED mode
         /\ Len(plan) > 1 => heard' = Append(heard, level) /\ UNCHANGED <<want, sticky, regs>>
         /\ ~(Len(plan) > 1) => heard' = <<>> /\ want' = <<>> /\ Store(Append(heard, level))
  <1>1. Head(plan) = plan[1]  BY TailOf DEF WireTypes
  <1>2. QED  BY <1>1 DEF Follow

LEMMA Listens ==
  ASSUME WireTypes, NEW level \in Bit, Follow(level), ones' # ResetOnes, mode = "sync", plan = <<>>
  PROVE  /\ UNCHANGED <<regs, sticky>>
         /\ heard = <<>> /\ level = 0 => UNCHANGED <<plan, heard, mode, want>>
         /\ ~(heard = <<>> /\ level = 0) /\ Len(heard) < 7
              => heard' = Append(heard, level) /\ UNCHANGED <<plan, mode, want>>
         /\ ~(heard = <<>> /\ level = 0) /\ ~(Len(heard) < 7) => heard' = <<>> /\ Decide(Append(heard, level))
  <1>1. Len(Append(heard, level)) = Len(heard) + 1 /\ Len(heard) \in Nat
    BY AppendProperties, LenProperties DEF WireTypes
  <1>2. Len(Append(heard, level)) < 8 <=> Len(heard) < 7  BY <1>1
  <1>3. QED  BY <1>2 DEF Follow

LEMMA StaysUntuned ==
  ASSUME WireTypes, NEW level \in Bit, Follow(level), Untuned, level = 1
  PROVE  /\ Untuned' /\ UNCHANGED <<regs, sticky>>
         /\ ones' = IF ones < ResetOnes THEN ones + 1 ELSE ones
         /\ ones' = ResetOnes => mode' = "reset" /\ heard' = <<>>
  <1>1. plan = <<>> /\ heard \in Seq(Bit) /\ Len(heard) \in Nat /\ mode \in {"sync", "lost", "reset"}
    BY WidthFacts DEF Untuned, WireTypes
  <1>2. ones' = IF ones < ResetOnes THEN ones + 1 ELSE ones  BY <1>1, Counts
  <1>3. CASE ones' = ResetOnes  BY <1>2, <1>3, LineReseen DEF Untuned
  <1>4. CASE ones' # ResetOnes /\ mode # "sync"
    <2>1. mode' = mode /\ UNCHANGED <<plan, heard, sticky, regs>>  BY <1>4, Asleep
    <2>2. QED  BY <1>1, <1>2, <1>4, <2>1 DEF Untuned
  <1>5. CASE ones' # ResetOnes /\ mode = "sync" /\ Len(heard) < 7
    <2>1. heard' = Append(heard, level) /\ UNCHANGED <<plan, mode, regs, sticky>>  BY <1>1, <1>5, Listens
    <2>2. Len(heard') = Len(heard) + 1 /\ heard'[Len(heard) + 1] = 1  BY <1>1, <2>1, AppendProperties
    <2>3. Len(heard') <= 7 /\ heard'[Len(heard')] = 1  BY <1>1, <1>5, <2>2
    <2>4. QED  BY <1>1, <1>2, <1>5, <2>1, <2>3 DEF Untuned
  <1>6. CASE ones' # ResetOnes /\ mode = "sync" /\ ~(Len(heard) < 7)
    <2>0. Len(heard) = 7
      <3>1. PICK n \in Nat : n = Len(heard)  BY <1>1
      <3>2. Len(heard) <= 7 /\ ~(Len(heard) < 7)  BY <1>6 DEF Untuned
      <3>3. n <= 7 /\ ~(n < 7)  BY <3>1, <3>2
      <3>4. n = 7  BY <3>3
      <3>5. QED  BY <3>1, <3>4
    <2>1. Len(heard) = 7 /\ heard # <<>>
      <3>1. heard = <<>> => Len(heard) = 0  BY EmptySeq
      <3>2. QED  BY <2>0, <3>1
    <2>2. heard[7] = 1  BY <2>1, <1>6 DEF Untuned
    <2> DEFINE h == Append(heard, level)
    <2>3. h \in Seq(Bit) /\ Len(h) = 8 /\ h[7] = 1
      <3>1. /\ h \in Seq(Bit) /\ Len(h) = Len(heard) + 1 /\ \A i \in 1 .. Len(heard) : h[i] = heard[i]
        BY <1>1, AppendProperties
      <3>2. QED  BY <3>1, <2>1, <2>2
    <2>4. heard' = <<>> /\ Decide(h) /\ UNCHANGED <<regs, sticky>>  BY <1>1, <1>6, <2>1, Listens
    <2> HIDE DEF h
    <2>5. ~Well(h)  BY <2>3 DEF Well
    <2>6. mode' = "lost" /\ plan' = <<>>  BY <2>4, <2>5 DEF Decide
    <2>7. QED  BY <1>2, <1>6, <2>4, <2>6 DEF Untuned
  <1>7. QED  BY <1>3, <1>4, <1>5, <1>6

LEMMA PlanValue ==
  ASSUME WireTypes, cmd \in Transfers, NEW ack \in Acks, NEW j \in 1 .. PlanLen(ack)
  PROVE  /\ j <= cfg.trn => PlanAt(ack, j) = Float
         /\ cfg.trn < j /\ j <= cfg.trn + 3 => PlanAt(ack, j) = ack[j - cfg.trn] /\ ack[j - cfg.trn] \in Bit
         /\ cfg.trn + 3 < j /\ ack # OK => PlanAt(ack, j) = Float
         /\ cfg.trn + 3 < j /\ j <= 2 * cfg.trn + 3 /\ Storing(ack) => PlanAt(ack, j) = Float
         /\ 2 * cfg.trn + 3 < j /\ Storing(ack) => PlanAt(ack, j) = Sample
         /\ cfg.trn + 3 < j /\ ack = OK /\ cmd.rnw = 1 =>
              PlanAt(ack, j) = IF j <= cfg.trn + 4 + Bits THEN WithParity(regs[cmd.at])[j - (cfg.trn + 3)] ELSE Float
         /\ cfg.trn + 3 < j /\ j <= cfg.trn + 4 + Bits =>
              /\ j - (cfg.trn + 3) \in 1 .. Bits + 1
              /\ WithParity(regs[cmd.at])[j - (cfg.trn + 3)] \in Bit
         /\ PlanAt(ack, j) = Sample <=> Storing(ack) /\ 2 * cfg.trn + 3 < j
         /\ PlanLen(ack) \in Nat /\ (ack = OK => PlanLen(ack) = cfg.trn + 3 + DataLen)
         /\ (ack # OK => PlanLen(ack) = cfg.trn + 3 + (IF cfg.phase THEN DataLen ELSE cfg.trn))
  <1>1. cfg.trn \in Nat /\ Bits \in Nat /\ DataLen \in Nat /\ DataLen = Bits + 1 + cfg.trn /\ cfg.phase \in BOOLEAN
    BY WidthFacts
  <1>2. cmd.rnw \in {0, 1} /\ cmd.at \in Addrs  BY RequestBits DEF Bit
  <1>3. regs[cmd.at] \in Word  BY <1>2 DEF WireTypes
  <1>4. \A i \in 1 .. Bits + 1 : WithParity(regs[cmd.at])[i] \in Bit
    BY <1>3, WordList, LenProperties
  <1>5. \A i \in 1 .. 3 : ack[i] \in Bit  BY AckPlan
  <1>6. /\ PlanLen(ack) \in Nat /\ (ack = OK => PlanLen(ack) = cfg.trn + 3 + DataLen)
        /\ (ack # OK => PlanLen(ack) = cfg.trn + 3 + (IF cfg.phase THEN DataLen ELSE cfg.trn))
    BY <1>1 DEF PlanLen, RestLen
  <1>7. j \in Nat /\ j >= 1  BY <1>6
  <1>8. CASE j <= cfg.trn
    <2>1. PlanAt(ack, j) = Float  BY <1>8 DEF PlanAt
    <2>2. ~(cfg.trn < j) /\ ~(cfg.trn + 3 < j) /\ ~(2 * cfg.trn + 3 < j)  BY <1>1, <1>7, <1>8
    <2>3. QED  BY <2>1, <2>2, <1>6 DEF Float, Sample
  <1>9. CASE ~(j <= cfg.trn) /\ j <= cfg.trn + 3
    <2>1. PlanAt(ack, j) = ack[j - cfg.trn]  BY <1>9 DEF PlanAt
    <2>2. j - cfg.trn \in 1 .. 3  BY <1>1, <1>7, <1>9
    <2>3. ack[j - cfg.trn] \in Bit  BY <2>2, <1>5
    <2>4. ~(cfg.trn + 3 < j) /\ ~(2 * cfg.trn + 3 < j)  BY <1>1, <1>7, <1>9
    <2>5. QED  BY <2>1, <2>3, <2>4, <1>6, <1>9 DEF Sample, Bit
  <1>10. CASE ~(j <= cfg.trn + 3)
    <2>1. ~(j <= cfg.trn) /\ cfg.trn + 3 < j  BY <1>1, <1>7, <1>10
    <2> DEFINE i == j - (cfg.trn + 3)
    <2>2. PlanAt(ack, j) = RestAt(ack, i)  BY <2>1, <1>10 DEF PlanAt
    <2>3. i \in Nat /\ i >= 1 /\ (i <= cfg.trn <=> j <= 2 * cfg.trn + 3) /\ (i <= Bits + 1 <=> j <= cfg.trn + 4 + Bits)
      BY <1>1, <1>7, <1>10
    <2>4. j <= cfg.trn + 4 + Bits => i \in 1 .. Bits + 1  BY <1>1, <2>3
    <2>5. j <= cfg.trn + 4 + Bits => WithParity(regs[cmd.at])[i] \in Bit  BY <2>4, <1>4
    <2>6. j <= 2 * cfg.trn + 3 <=> ~(2 * cfg.trn + 3 < j)  BY <1>1, <1>7
    <2>7. CASE ack # OK
      <3>1. PlanAt(ack, j) = Float /\ ~Storing(ack)  BY <2>2, <2>7 DEF RestAt, Storing
      <3>2. QED  BY <3>1, <2>1, <2>4, <2>5, <2>7, <1>6, <1>10 DEF Float, Sample
    <2>8. CASE ack = OK /\ cmd.rnw = 0
      <3>1. Storing(ack) /\ PlanAt(ack, j) = IF i <= cfg.trn THEN Float ELSE Sample  BY <2>2, <2>8 DEF RestAt, Storing
      <3>2. QED  BY <3>1, <2>1, <2>3, <2>4, <2>5, <2>6, <2>8, <1>6, <1>10 DEF Float, Sample
    <2>9. CASE ack = OK /\ cmd.rnw = 1
      <3>1. /\ ~Storing(ack)
            /\ PlanAt(ack, j) = IF i <= Bits + 1 THEN WithParity(regs[cmd.at])[i] ELSE Float
        BY <2>2, <2>9 DEF RestAt, Storing
      <3>2. PlanAt(ack, j) # Sample  BY <3>1, <2>3, <2>5 DEF Float, Sample, Bit
      <3>3. QED  BY <3>1, <3>2, <2>1, <2>3, <2>4, <2>5, <2>9, <1>6, <1>10
    <2>10. QED  BY <2>7, <2>8, <2>9, <1>2
  <1>11. QED  BY <1>1, <1>7, <1>8, <1>9, <1>10

(* A clock at which the target goes on with its plan.                      *)
LEMMA StaysObeying ==
  ASSUME WireTypes, cmd \in Transfers, NEW level \in Bit, Follow(level), UNCHANGED <<cfg, cmd>>,
         NEW ack \in Acks, NEW m, Obeys(ack, m), ones' # ResetOnes,
         m + 1 <= PlanLen(ack), ack = OK => m + 1 < PlanLen(ack)
  PROVE  /\ Obeys(ack, m + 1)' /\ UNCHANGED <<regs, sticky>>
         /\ heard' = IF Storing(ack) /\ 2 * cfg.trn + 3 < m + 1 THEN Append(heard, level) ELSE heard
  <1>1. m \in Nat /\ PlanLen(ack) \in Nat /\ cfg.trn \in Nat /\ Len(plan) = PlanLen(ack) - m
    <2>1. 1 \in Nat /\ DataLen \in Nat /\ cfg.trn \in Nat /\ cfg.phase \in BOOLEAN  BY WidthFacts
    <2>2. PlanLen(ack) \in Nat  BY <2>1 DEF PlanLen, RestLen
    <2>3. QED  BY <2>1, <2>2 DEF Obeys
  <1>2. m + 1 \in 1 .. PlanLen(ack) /\ Len(plan) >= 1  BY <1>1
  <1>3. plan \in Seq(Level) /\ plan # <<>>  BY <1>1, <1>2, EmptySeq DEF WireTypes, Level
  <1>4. /\ Len(Tail(plan)) = Len(plan) - 1 /\ Tail(plan) \in Seq(Level)
        /\ \A i \in 1 .. Len(plan) - 1 : Tail(plan)[i] = plan[i + 1]
    BY <1>3, TailOf
  <1>5. plan[1] = PlanAt(ack, m + 1)  BY <1>2, <1>1 DEF Obeys
  <1>6. PlanAt(ack, m + 1) = Sample <=> Storing(ack) /\ 2 * cfg.trn + 3 < m + 1  BY <1>2, PlanValue
  <1>7. mode = "sync" /\ heard \in Seq(Bit) /\ Len(heard) \in Nat  BY WidthFacts DEF Obeys, WireTypes
  <1>8. /\ plan' = Tail(plan) /\ UNCHANGED <<mode, want, regs, sticky>>
        /\ heard' = IF Storing(ack) /\ 2 * cfg.trn + 3 < m + 1 THEN Append(heard, level) ELSE heard
    <2>1. CASE plan[1] # Sample  BY <2>1, <1>3, <1>5, <1>6, <1>7, Passes
    <2>2. CASE plan[1] = Sample
      <3>1. Len(plan) > 1  BY <2>2, <1>1, <1>5, <1>6 DEF Storing
      <3>2. QED  BY <2>2, <3>1, <1>3, <1>5, <1>6, <1>7, Samples
    <2>3. QED  BY <2>1, <2>2
  <1>9. PlanLen(ack)' = PlanLen(ack) /\ Storing(ack)' = Storing(ack) /\ \A j : PlanAt(ack, j)' = PlanAt(ack, j)
    BY <1>8 DEF PlanLen, RestLen, DataLen, Storing, PlanAt, RestAt
  <1>10. Len(plan') = PlanLen(ack) - (m + 1)  BY <1>1, <1>4, <1>8
  <1>11. ASSUME NEW i \in 1 .. Len(plan') PROVE plan'[i] = PlanAt(ack, m + 1 + i)
    <2>1. i \in 1 .. Len(plan) - 1 /\ i + 1 \in 1 .. Len(plan)  BY <1>1, <1>10
    <2>2. plan'[i] = plan[i + 1]  BY <2>1, <1>4, <1>8
    <2>3. plan[i + 1] = PlanAt(ack, m + (i + 1))  BY <2>1 DEF Obeys
    <2>4. m + (i + 1) = m + 1 + i  BY <1>1, <2>1
    <2>5. QED  BY <2>2, <2>3, <2>4
  <1>12. want' = IF Storing(ack) THEN cmd.at ELSE <<>>  BY <1>8 DEF Obeys
  <1> DEFINE n == m + 1
  <1>13. Len(heard') = Received(ack, n)
    <2>1. Len(heard) = IF Storing(ack) /\ m > 2 * cfg.trn + 3 THEN m - (2 * cfg.trn + 3) ELSE 0
      BY DEF Obeys, Received
    <2>2. Len(Append(heard, level)) = Len(heard) + 1  BY <1>7, AppendProperties
    <2>3. CASE Storing(ack) /\ 2 * cfg.trn + 3 < m + 1
      <3>1. Len(heard') = Len(heard) + 1  BY <1>8, <2>2, <2>3
      <3>2. QED  BY <3>1, <2>1, <2>3, <1>1 DEF Received
    <2>4. CASE ~(Storing(ack) /\ 2 * cfg.trn + 3 < m + 1)
      <3>1. Len(heard') = Len(heard)  BY <1>8, <2>4
      <3>2. QED  BY <3>1, <2>1, <2>4, <1>1 DEF Received
    <2>5. QED  BY <2>3, <2>4
  <1>14. Obeys(ack, n)'
    <2>1. n \in 0 .. PlanLen(ack)  BY <1>1, <1>2
    <2>2. cmd' = cmd /\ cfg' = cfg  OBVIOUS
    <2>3. (\A i \in 1 .. Len(plan) : plan[i] = PlanAt(ack, n + i))'  BY <1>9, <1>11
    <2>4. (want = IF Storing(ack) THEN cmd.at ELSE <<>>)'  BY <1>9, <1>12, <2>2
    <2>5. (Len(plan) = PlanLen(ack) - n)'  BY <1>9, <1>10
    <2>6. (mode = "sync" /\ ack \in Acks /\ n \in 0 .. PlanLen(ack) /\ (ack = OK => n < PlanLen(ack)))'
      BY <1>7, <1>8, <1>9, <2>1
    <2> HIDE DEF n
    <2>7. Received(ack, n)' = Received(ack, n)  BY <1>9, <2>2 DEF Received
    <2>8. QED  BY <2>3, <2>4, <2>5, <2>6, <2>7, <1>13 DEF Obeys
  <1>15. QED  BY <1>8, <1>14

(* The types of what a clock leaves.                                       *)
LEMMA DecideTypes ==
  ASSUME WireTypes, NEW h, Decide(h)
  PROVE  plan' \in Seq(Level) /\ want' \in Addrs \cup {<<>>} /\ mode' \in {mode, "lost"}
  <1>1. CASE ~Well(h) \/ HeardAt(h) \notin Addrs
    <2>1. plan' = <<>> /\ want' = <<>> /\ mode' = "lost"  BY <1>1 DEF Decide
    <2>2. QED  BY <2>1, EmptySeq
  <1>2. CASE ~(~Well(h) \/ HeardAt(h) \notin Addrs)
    <2>1. PICK ack \in Acks :
            /\ mode' = mode
            /\ want' = IF ack = OK /\ h[3] = 0 THEN HeardAt(h) ELSE <<>>
            /\ plan' = Release(cfg.trn) \o ack \o
                 IF ack # OK THEN Refusal(h[3])
                 ELSE IF h[3] = 1 THEN ReadPlan(regs[HeardAt(h)])
                 ELSE Release(cfg.trn) \o Repeat(Bits + 1, Sample)
      BY <1>2 DEF Decide, Acks
    <2>2. cfg.trn \in Nat /\ Bits \in Nat /\ Bits + 1 + cfg.trn \in Nat /\ Bits + 1 \in Nat  BY SMTT(30), WidthFacts
    <2>3. Float \in Level /\ Sample \in Level  BY DEF Float, Sample, Level
    <2>4. \A n \in Nat : Repeat(n, Float) \in Seq(Level)  BY <2>3, RepeatList
    <2>5. Repeat(Bits + 1, Sample) \in Seq(Level)  BY <2>2, <2>3, RepeatList
    <2>6. Release(cfg.trn) \in Seq(Level) /\ Refusal(h[3]) \in Seq(Level)
      BY <2>2, <2>4 DEF Release, Refusal
    <2>7. ack \in Seq(Level)  BY AckPlan DEF IsPlan
    <2>8. ReadPlan(regs[HeardAt(h)]) \in Seq(Level)
      <3>1. regs[HeardAt(h)] \in Word  BY <1>2 DEF WireTypes
      <3>2. WithParity(regs[HeardAt(h)]) \in Seq(Level)  BY <3>1, WordPlan DEF IsPlan
      <3>3. ReadPlan(regs[HeardAt(h)]) = WithParity(regs[HeardAt(h)]) \o Release(cfg.trn)
        BY DEF ReadPlan, WithParity
      <3>4. QED  BY <3>2, <3>3, <2>6, ConcatProperties
    <2>9. Release(cfg.trn) \o Repeat(Bits + 1, Sample) \in Seq(Level)  BY <2>5, <2>6, ConcatProperties
    <2>10. Release(cfg.trn) \o ack \in Seq(Level)  BY <2>6, <2>7, ConcatProperties
    <2> DEFINE e == IF ack # OK THEN Refusal(h[3]) ELSE IF h[3] = 1 THEN ReadPlan(regs[HeardAt(h)])
                    ELSE Release(cfg.trn) \o Repeat(Bits + 1, Sample)
    <2>11. e \in Seq(Level)  BY <2>6, <2>8, <2>9
    <2>12. plan' = Release(cfg.trn) \o ack \o e  BY <2>1
    <2> HIDE DEF e
    <2>13. plan' \in Seq(Level)  BY <2>10, <2>11, <2>12, ConcatProperties
    <2>14. want' \in Addrs \cup {<<>>}  BY <1>2, <2>1
    <2>15. QED  BY <2>1, <2>13, <2>14
  <1>3. QED  BY <1>1, <1>2

LEMMA TargetTypes ==
  ASSUME WireTypes, NEW level \in Bit, Follow(level)
  PROVE  /\ plan' \in Seq(Level) /\ heard' \in Seq(Bit) /\ mode' \in {"sync", "lost", "reset"}
         /\ ones' \in 0 .. ResetOnes /\ (mode' = "sync" => ones' < ResetOnes)
         /\ want' \in Addrs \cup {<<>>}
  <1>1. /\ plan \in Seq(Level) /\ heard \in Seq(Bit) /\ mode \in {"sync", "lost", "reset"}
        /\ want \in Addrs \cup {<<>>}
    BY DEF WireTypes, Level
  <1>2. ones' \in 0 .. ResetOnes /\ ResetOnes \in Nat  BY Counts
  <1>3. ones' # ResetOnes => ones' < ResetOnes  BY <1>2
  <1>4. <<>> \in Seq(Level) /\ <<>> \in Seq(Bit)  BY EmptySeq
  <1>5. Append(heard, level) \in Seq(Bit)  BY <1>1, AppendProperties
  <1>6. CASE ones' = ResetOnes
    <2>1. mode' = "reset" /\ plan' = <<>> /\ heard' = <<>> /\ want' = <<>>  BY <1>6, LineReseen
    <2>2. QED  BY <2>1, <1>2, <1>4
  <1>7. CASE ones' # ResetOnes /\ mode # "sync"
    <2>1. mode' = (IF mode = "reset" /\ level = 0 THEN "sync" ELSE mode) /\ UNCHANGED <<plan, heard, want>>
      BY <1>7, Asleep
    <2>2. QED  BY <2>1, <1>1, <1>2, <1>3, <1>7
  <1>8. CASE ones' # ResetOnes /\ mode = "sync" /\ plan # <<>>
    <2>1. Tail(plan) \in Seq(Level)  BY <1>1, <1>8, TailOf
    <2>2. CASE plan[1] # Sample
      <3>1. plan' = Tail(plan) /\ UNCHANGED <<mode, heard, want>>  BY <1>8, <2>2, Passes
      <3>2. QED  BY <3>1, <2>1, <1>1, <1>2, <1>3, <1>8
    <2>3. CASE plan[1] = Sample
      <3>1. /\ plan' = Tail(plan) /\ UNCHANGED mode
            /\ Len(plan) > 1 => heard' = Append(heard, level) /\ UNCHANGED <<want, sticky, regs>>
            /\ ~(Len(plan) > 1) => heard' = <<>> /\ want' = <<>> /\ Store(Append(heard, level))
        BY <1>8, <2>3, Samples
      <3>2. heard' \in Seq(Bit) /\ want' \in Addrs \cup {<<>>}  BY <3>1, <1>1, <1>4, <1>5
      <3>3. QED  BY <3>1, <3>2, <2>1, <1>1, <1>2, <1>3, <1>8
    <2>4. QED  BY <2>2, <2>3
  <1>9. CASE ones' # ResetOnes /\ mode = "sync" /\ plan = <<>>
    <2>1. CASE heard = <<>> /\ level = 0
      <3>1. UNCHANGED <<plan, heard, mode, want>>  BY <1>9, <2>1, Listens
      <3>2. QED  BY <3>1, <1>1, <1>2, <1>3, <1>9
    <2>2. CASE ~(heard = <<>> /\ level = 0) /\ Len(heard) < 7
      <3>1. heard' = Append(heard, level) /\ UNCHANGED <<plan, mode, want>>  BY <1>9, <2>2, Listens
      <3>2. QED  BY <3>1, <1>1, <1>2, <1>3, <1>5, <1>9
    <2>3. CASE ~(heard = <<>> /\ level = 0) /\ ~(Len(heard) < 7)
      <3>1. heard' = <<>> /\ Decide(Append(heard, level))  BY <1>9, <2>3, Listens
      <3>2. plan' \in Seq(Level) /\ want' \in Addrs \cup {<<>>} /\ mode' \in {mode, "lost"}
        BY <3>1, DecideTypes
      <3>3. QED  BY <3>1, <3>2, <1>1, <1>2, <1>3, <1>4, <1>9
    <2>4. QED  BY <2>1, <2>2, <2>3
  <1>10. QED  BY <1>6, <1>7, <1>8, <1>9

LEMMA ClockTypes ==
  ASSUME WireTypes, NEW flip, NEW level, Ticks(flip, level), regs' \in [Addrs -> Word], sticky' \in BOOLEAN
  PROVE  WireTypes'
  <1>1. level \in Bit /\ Follow(level) /\ todo # <<>> /\ UNCHANGED <<cfg, ready, asked, step>> /\ noise' \in Bit
        /\ todo' = Tail(todo) /\ seen' = (IF todo[1].look THEN Append(seen, level) ELSE seen)
    BY DEF Ticks
  <1>2. /\ plan' \in Seq(0 .. 3) /\ heard' \in Seq(Bit) /\ mode' \in {"sync", "lost", "reset"}
        /\ ones' \in 0 .. ResetOnes /\ (mode' = "sync" => ones' < ResetOnes)
        /\ want' \in Addrs \cup {<<>>}
    BY <1>1, TargetTypes DEF Level
  <1>3. todo' \in Seq(Clocks)  BY <1>1, TailOf DEF WireTypes
  <1>4. seen' \in Seq(Bit)  BY <1>1, AppendProperties DEF WireTypes
  <1>5. /\ cfg'.port = "Swd" /\ cfg'.link \in Links /\ cfg'.trn \in Trns /\ cfg'.idle \in Idles /\ cfg'.phase \in BOOLEAN
        /\ ready' \in BOOLEAN /\ asked' \in [Addrs -> SUBSET Word]
        /\ step' \in {"none", "ack", "data", "refused", "unheard"}
    BY <1>1 DEF WireTypes
  <1>6. QED  BY <1>1, <1>2, <1>3, <1>4, <1>5 DEF WireTypes
-----------------------------------------------------------------------------
(* The clocks ahead of the probe, after one of them.                       *)
LEMMA TodoStep ==
  ASSUME WireTypes, NEW flip, NEW level, Ticks(flip, level)
  PROVE  /\ Len(todo) \in Nat /\ Len(todo) >= 1 /\ Len(todo') = Len(todo) - 1
         /\ \A i \in 1 .. Len(todo') : todo'[i] = todo[i + 1] /\ i + 1 \in 1 .. Len(todo)
         /\ 1 \in 1 .. Len(todo)
  <1>1. todo \in Seq(Clocks) /\ todo # <<>> /\ todo' = Tail(todo)  BY DEF Ticks, WireTypes
  <1>2. /\ Len(todo) \in Nat /\ Len(todo) >= 1 /\ Len(Tail(todo)) = Len(todo) - 1
        /\ \A i \in 1 .. Len(todo) - 1 : Tail(todo)[i] = todo[i + 1]
    BY <1>1, TailOf
  <1>3. QED  BY <1>1, <1>2

LEMMA LineStep ==
  ASSUME WireTypes, NEW flip, NEW level, Ticks(flip, level), NEW k, LineAhead(k)
  PROVE  /\ k \in 0 .. ResetOnes + 1 /\ k + 1 \in 0 .. ResetOnes + 2 /\ LineAhead(k + 1)'
         /\ todo[1].dio = (IF k + 1 <= ResetOnes THEN 1 ELSE 0) /\ ~todo[1].look
  <1> DEFINE n == k + 1
  <1>1. /\ Len(todo) \in Nat /\ Len(todo) >= 1 /\ Len(todo') = Len(todo) - 1 /\ 1 \in 1 .. Len(todo)
        /\ \A i \in 1 .. Len(todo') : todo'[i] = todo[i + 1] /\ i + 1 \in 1 .. Len(todo)
    BY TodoStep
  <1>2. k \in Nat /\ ResetOnes \in Nat /\ Len(todo) = ResetOnes + 2 - k  BY WidthFacts DEF LineAhead
  <1>3. k \in 0 .. ResetOnes + 1 /\ n \in 0 .. ResetOnes + 2 /\ Len(todo') = ResetOnes + 2 - n
    BY <1>1, <1>2
  <1>4. todo[1].dio = (IF k + 1 <= ResetOnes THEN 1 ELSE 0) /\ ~todo[1].look  BY <1>1 DEF LineAhead
  <1>5. ASSUME NEW i \in 1 .. Len(todo')
        PROVE  todo'[i].dio = (IF n + i <= ResetOnes THEN 1 ELSE 0) /\ ~todo'[i].look
    <2>1. todo'[i] = todo[i + 1] /\ i + 1 \in 1 .. Len(todo)  BY <1>1
    <2>2. k + (i + 1) = n + i  BY <1>1, <1>2
    <2>3. todo[i + 1].dio = (IF k + (i + 1) <= ResetOnes THEN 1 ELSE 0) /\ ~todo[i + 1].look
      BY <2>1 DEF LineAhead
    <2>4. QED  BY <2>1, <2>2, <2>3
  <1>6. n = k + 1  OBVIOUS
  <1> HIDE DEF n
  <1>7. LineAhead(n)'  BY <1>3, <1>5 DEF LineAhead
  <1>8. QED  BY <1>3, <1>4, <1>6, <1>7

LEMMA AskStep ==
  ASSUME WireTypes, NEW flip, NEW level, Ticks(flip, level), NEW k, AskAhead(k)
  PROVE  /\ AskLen \in Nat /\ k \in 0 .. AskLen - 1 /\ k + 1 \in 0 .. AskLen /\ AskAhead(k + 1)'
         /\ todo[1].dio = (IF k + 1 <= 8 THEN Bits8(cmd)[k + 1] ELSE Float)
         /\ (todo[1].look <=> 8 + cfg.trn < k + 1 /\ k + 1 <= 11 + cfg.trn)
  <1> DEFINE n == k + 1
  <1>1. /\ Len(todo) \in Nat /\ Len(todo) >= 1 /\ Len(todo') = Len(todo) - 1 /\ 1 \in 1 .. Len(todo)
        /\ \A i \in 1 .. Len(todo') : todo'[i] = todo[i + 1] /\ i + 1 \in 1 .. Len(todo)
    BY TodoStep
  <1>2. AskLen \in Nat
    <2>1. cfg.trn \in Nat  BY WidthFacts
    <2>2. 11 + cfg.trn \in Nat /\ 11 + cfg.trn + cfg.trn \in Nat /\ 11 + cfg.trn + 0 \in Nat  BY <2>1
    <2>3. QED  BY <2>2 DEF AskLen
  <1>3. k \in Nat /\ Len(todo) = AskLen - k  BY <1>2 DEF AskAhead
  <1>4. k \in 0 .. AskLen - 1 /\ n \in 0 .. AskLen /\ Len(todo') = AskLen - n  BY <1>1, <1>2, <1>3
  <1>5. /\ todo[1].dio = (IF k + 1 <= 8 THEN Bits8(cmd)[k + 1] ELSE Float)
        /\ (todo[1].look <=> 8 + cfg.trn < k + 1 /\ k + 1 <= 11 + cfg.trn)
    BY <1>1 DEF AskAhead
  <1>6. cmd' = cmd /\ cfg' = cfg  BY DEF Ticks
  <1>7. ASSUME NEW i \in 1 .. Len(todo')
        PROVE  /\ todo'[i].dio = IF n + i <= 8 THEN Bits8(cmd)[n + i] ELSE Float
               /\ (todo'[i].look <=> 8 + cfg.trn < n + i /\ n + i <= 11 + cfg.trn)
    <2>1. todo'[i] = todo[i + 1] /\ i + 1 \in 1 .. Len(todo)  BY <1>1
    <2>2. k + (i + 1) = n + i  BY <1>1, <1>3
    <2> HIDE DEF n
    <2>3. /\ todo[i + 1].dio = IF k + (i + 1) <= 8 THEN Bits8(cmd)[k + (i + 1)] ELSE Float
          /\ (todo[i + 1].look <=> 8 + cfg.trn < k + (i + 1) /\ k + (i + 1) <= 11 + cfg.trn)
      BY <2>1 DEF AskAhead
    <2>4. QED  BY <2>1, <2>2, <2>3
  <1>8. n = k + 1  OBVIOUS
  <1> HIDE DEF n
  <1>9. AskLen' = AskLen /\ Bits8(cmd)' = Bits8(cmd)  BY <1>6 DEF AskLen, Bits8
  <1>10. AskAhead(n)'  BY <1>4, <1>6, <1>7, <1>9 DEF AskAhead
  <1>11. QED  BY <1>2, <1>4, <1>5, <1>8, <1>10

LEMMA ReadStep ==
  ASSUME WireTypes, NEW flip, NEW level, Ticks(flip, level), NEW k, ReadAhead(k)
  PROVE  /\ k \in 0 .. DataLen + cfg.idle - 1 /\ k + 1 \in 0 .. DataLen + cfg.idle /\ ReadAhead(k + 1)'
         /\ Len(todo) = DataLen + cfg.idle - k
         /\ todo[1].dio = (IF k + 1 <= DataLen THEN Float ELSE 0) /\ (todo[1].look <=> k + 1 <= Bits + 1)
  <1> DEFINE n == k + 1
  <1>1. /\ Len(todo) \in Nat /\ Len(todo) >= 1 /\ Len(todo') = Len(todo) - 1 /\ 1 \in 1 .. Len(todo)
        /\ \A i \in 1 .. Len(todo') : todo'[i] = todo[i + 1] /\ i + 1 \in 1 .. Len(todo)
    BY TodoStep
  <1>2. DataLen \in Nat /\ cfg.idle \in Nat  BY WidthFacts
  <1>3. k \in Nat /\ Len(todo) = DataLen + cfg.idle - k  BY <1>2 DEF ReadAhead
  <1>4. /\ k \in 0 .. DataLen + cfg.idle - 1 /\ n \in 0 .. DataLen + cfg.idle
        /\ Len(todo') = DataLen + cfg.idle - n
    <2>1. DataLen \in Nat /\ cfg.idle \in Nat  BY <1>2
    <2>2. Len(todo) >= 1 /\ Len(todo') = Len(todo) - 1 /\ n = k + 1  BY <1>1
    <2>3. QED  BY ONLY SMTT(30), <1>3, <2>1, <2>2
  <1>5. todo[1].dio = (IF k + 1 <= DataLen THEN Float ELSE 0) /\ (todo[1].look <=> k + 1 <= Bits + 1)
    BY <1>1 DEF ReadAhead
  <1>6. cfg' = cfg  BY DEF Ticks
  <1>7. ASSUME NEW i \in 1 .. Len(todo')
        PROVE  /\ todo'[i].dio = IF n + i <= DataLen THEN Float ELSE 0
               /\ (todo'[i].look <=> n + i <= Bits + 1)
    <2>1. todo'[i] = todo[i + 1] /\ i + 1 \in 1 .. Len(todo)  BY <1>1
    <2>2. k + (i + 1) = n + i  BY <1>1, <1>3
    <2> HIDE DEF n
    <2>3. /\ todo[i + 1].dio = IF k + (i + 1) <= DataLen THEN Float ELSE 0
          /\ (todo[i + 1].look <=> k + (i + 1) <= Bits + 1)
      BY <2>1 DEF ReadAhead
    <2>4. QED  BY <2>1, <2>2, <2>3
  <1>8. n = k + 1  OBVIOUS
  <1> HIDE DEF n
  <1>9. DataLen' = DataLen  BY <1>6 DEF DataLen
  <1>10. ReadAhead(n)'  BY <1>4, <1>6, <1>7, <1>9 DEF ReadAhead
  <1>11. QED  BY <1>3, <1>4, <1>5, <1>8, <1>10

LEMMA WriteStep ==
  ASSUME WireTypes, NEW flip, NEW level, Ticks(flip, level), NEW k, WriteAhead(k)
  PROVE  /\ k \in 0 .. DataLen + cfg.idle - 1 /\ k + 1 \in 0 .. DataLen + cfg.idle /\ WriteAhead(k + 1)'
         /\ Len(todo) = DataLen + cfg.idle - k
         /\ todo[1].dio = WriteAt(k + 1) /\ ~todo[1].look
  <1> DEFINE n == k + 1
  <1>1. /\ Len(todo) \in Nat /\ Len(todo) >= 1 /\ Len(todo') = Len(todo) - 1 /\ 1 \in 1 .. Len(todo)
        /\ \A i \in 1 .. Len(todo') : todo'[i] = todo[i + 1] /\ i + 1 \in 1 .. Len(todo)
    BY TodoStep
  <1>2. DataLen \in Nat /\ cfg.idle \in Nat  BY WidthFacts
  <1>3. k \in Nat /\ Len(todo) = DataLen + cfg.idle - k  BY <1>2 DEF WriteAhead
  <1>4. /\ k \in 0 .. DataLen + cfg.idle - 1 /\ n \in 0 .. DataLen + cfg.idle
        /\ Len(todo') = DataLen + cfg.idle - n
    <2>1. DataLen \in Nat /\ cfg.idle \in Nat  BY <1>2
    <2>2. Len(todo) >= 1 /\ Len(todo') = Len(todo) - 1 /\ n = k + 1  BY <1>1
    <2>3. QED  BY ONLY SMTT(30), <1>3, <2>1, <2>2
  <1>5. todo[1].dio = WriteAt(k + 1) /\ ~todo[1].look
    BY <1>1 DEF WriteAhead
  <1>6. cmd' = cmd /\ cfg' = cfg  BY DEF Ticks
  <1>7. ASSUME NEW i \in 1 .. Len(todo')
        PROVE  todo'[i].dio = WriteAt(n + i) /\ ~todo'[i].look
    <2>1. todo'[i] = todo[i + 1] /\ i + 1 \in 1 .. Len(todo)  BY <1>1
    <2>2. k + (i + 1) = n + i  BY <1>1, <1>3
    <2> HIDE DEF n
    <2>3. todo[i + 1].dio = WriteAt(k + (i + 1)) /\ ~todo[i + 1].look
      BY <2>1 DEF WriteAhead
    <2>4. QED  BY <2>1, <2>2, <2>3
  <1>8. n = k + 1  OBVIOUS
  <1> HIDE DEF n
  <1>9. DataLen' = DataLen /\ \A j : WriteAt(j)' = WriteAt(j)  BY <1>6 DEF DataLen, WriteAt, WithParity
  <1>10. WriteAhead(n)'  BY <1>4, <1>6, <1>7, <1>9 DEF WriteAhead
  <1>11. QED  BY <1>3, <1>4, <1>5, <1>8, <1>10
-----------------------------------------------------------------------------
(* What a clock may leave in the registers.                                *)
Sound == regs' \in [Addrs -> Word] /\ sticky' \in BOOLEAN /\ \A a \in Addrs : regs'[a] \in asked'[a]

LEMMA SoundSame ==
  ASSUME WireTypes, Commanded, NEW flip, NEW level, Ticks(flip, level), UNCHANGED <<regs, sticky>>
  PROVE  Sound
  <1>1. asked' = asked  BY DEF Ticks
  <1>2. QED  BY <1>1 DEF WireTypes, Commanded, Sound

LEMMA NoClocks == ASSUME NEW s, s \in Seq(Clocks), Len(s) = 0 PROVE s = <<>>
  BY EmptySeq, SeqEqual

(* A clock of a line reset.                                                *)
LEMMA ResettingClock ==
  ASSUME WireTypes, Commanded, NEW flip, NEW level, Ticks(flip, level), Resetting
  PROVE  Sound /\ (Resetting' \/ AtRest')
  <1>1. PICK k \in 0 .. ResetOnes + 1 :
          /\ LineAhead(k)
          /\ IF k > ResetOnes THEN mode = "sync" /\ heard = <<>> /\ ones = 0
             ELSE Untuned /\ ones >= k /\ (k = ResetOnes => mode = "reset" /\ heard = <<>>)
    BY DEF Resetting
  <1>2. step = "none" /\ ready /\ result = NoResult /\ plan = <<>>  BY DEF Resetting
  <1>3. step' = step /\ ready' = ready /\ result' = result /\ cfg' = cfg /\ Follow(level) /\ level \in Bit
    BY DEF Ticks
  <1>4. level = Line  BY <1>2 DEF Ticks
  <1>5. ResetOnes \in Nat \ {0} /\ k \in Nat /\ ones \in Nat /\ cfg.trn \in Nat /\ Bits \in Nat  BY WidthFacts, Counts, <1>3
  <1> DEFINE n == k + 1
  <1>6. n = k + 1 /\ n \in Nat /\ n \in 0 .. ResetOnes + 2  BY <1>5
  <1>7. LineAhead(n)' /\ todo[1].dio = (IF k + 1 <= ResetOnes THEN 1 ELSE 0)  BY <1>1, LineStep
  <1> HIDE DEF n
  <1>8. CASE k < ResetOnes
    <2>1. k + 1 <= ResetOnes /\ ~(k > ResetOnes)  BY <1>5, <1>8
    <2>2. todo[1].dio = 1  BY <1>7, <2>1
    <2>3. level = 1  BY <1>4, <2>2 DEF Line, Float
    <2>4. Untuned /\ ones >= k  BY <1>1, <2>1
    <2>5. /\ Untuned' /\ UNCHANGED <<regs, sticky>>
          /\ ones' = IF ones < ResetOnes THEN ones + 1 ELSE ones
          /\ ones' = ResetOnes => mode' = "reset" /\ heard' = <<>>
      BY <1>3, <2>3, <2>4, StaysUntuned
    <2>6. ones' \in 0 .. ResetOnes  BY <1>3, Counts
    <2>7. ones' >= n  BY <1>5, <1>6, <2>1, <2>4, <2>5
    <2>8. n = ResetOnes => mode' = "reset" /\ heard' = <<>>  BY <1>5, <1>6, <2>5, <2>6, <2>7
    <2>9. n \in 0 .. ResetOnes + 1 /\ ~(n > ResetOnes)  BY <1>5, <1>6, <2>1
    <2>10. plan' = <<>>  BY <2>5 DEF Untuned
    <2>11. Resetting'  BY <1>2, <1>3, <1>7, <2>5, <2>7, <2>8, <2>9, <2>10 DEF Resetting
    <2>12. Sound  BY <2>5, SoundSame
    <2>13. QED  BY <2>11, <2>12
  <1>9. CASE k = ResetOnes
    <2>1. ~(k + 1 <= ResetOnes) /\ ~(k > ResetOnes)  BY <1>5, <1>9
    <2>2. todo[1].dio = 0  BY <1>7, <2>1
    <2>3. level = 0  BY <1>4, <2>2 DEF Line, Float
    <2>4. mode = "reset" /\ heard = <<>>  BY <1>1, <1>9, <2>1
    <2>5. ones' = 0 /\ ones' # ResetOnes  BY <1>3, <1>5, <2>3, Counts
    <2>6. mode' = "sync" /\ UNCHANGED <<plan, heard, want, sticky, regs>>  BY <1>3, <2>3, <2>4, <2>5, Asleep
    <2>7. n \in 0 .. ResetOnes + 1 /\ n > ResetOnes  BY <1>5, <1>6, <1>9
    <2>8. Resetting'  BY <1>2, <1>3, <1>7, <2>4, <2>5, <2>6, <2>7 DEF Resetting
    <2>9. Sound  BY <2>6, SoundSame
    <2>10. QED  BY <2>8, <2>9
  <1>10. CASE k = ResetOnes + 1
    <2>1. ~(k + 1 <= ResetOnes) /\ k > ResetOnes  BY <1>5, <1>10
    <2>2. todo[1].dio = 0  BY <1>7, <2>1
    <2>3. level = 0  BY <1>4, <2>2 DEF Line, Float
    <2>4. mode = "sync" /\ heard = <<>>  BY <1>1, <2>1
    <2>5. ones' = 0 /\ ones' # ResetOnes  BY <1>3, <1>5, <2>3, Counts
    <2>6. UNCHANGED <<regs, sticky, plan, heard, mode, want>>  BY <1>2, <1>3, <2>3, <2>4, <2>5, Listens
    <2>7. Len(todo') = 0
      <3>1. Len(todo') = ResetOnes + 2 - n  BY <1>3, <1>7 DEF LineAhead
      <3>2. QED  BY <1>5, <1>6, <1>10, <3>1
    <2>8. todo' = <<>>
      <3>1. todo' \in Seq(Clocks)  BY TailOf DEF Ticks, WireTypes
      <3>2. QED  BY <2>7, <3>1, NoClocks
    <2>9. Sound  BY <2>6, SoundSame
    <2>10. result'.st # "ok"  BY <1>2, <1>3 DEF NoResult
    <2>11. Hearing' /\ Waiting'  BY <1>2, <2>4, <2>6 DEF Hearing, Waiting
    <2>12. ones' <= (cfg.trn + Bits + 2)'  BY <1>3, <1>5, <2>5
    <2>13. AtRest'  BY <1>2, <1>3, <2>8, <2>10, <2>11, <2>12 DEF AtRest
    <2>14. QED  BY <2>9, <2>13
  <1>11. QED  BY <1>5, <1>8, <1>9, <1>10

(* A clock of the request byte: n are over after it.                       *)
Sent(k, n, flip, level) ==
  /\ k \in 0 .. 7 /\ n = k + 1 /\ Hearing /\ step = "ack" /\ noise \in Bit /\ noise' = noise + flip /\ noise' \in Bit
  /\ flip \in Bit /\ level \in Bit /\ level = (IF flip = 0 THEN Bits8(cmd)[n] ELSE 1 - Bits8(cmd)[n])
  /\ AskAhead(n)' /\ step' = "ack" /\ cmd' = cmd /\ cfg' = cfg /\ Len(seen') = 0 /\ Follow(level)
  /\ ones' <= cfg.trn + Bits + 2 + n /\ (ones' = ResetOnes => n \in {7, 8} /\ level = 1)

LEMMA SentClock ==
  ASSUME WireTypes, Commanded, NEW flip, NEW level, Ticks(flip, level), step = "ack", Hearing,
         NEW k \in 0 .. 7, NEW n, n = k + 1, AskAhead(k), Len(seen) = Heard(k), ones <= cfg.trn + Bits + 2 + k
  PROVE  Sent(k, n, flip, level) /\ cmd \in Transfers
  <1>1. /\ cfg.trn \in Nat /\ cfg.trn >= 1 /\ Bits \in Nat /\ ResetOnes \in Nat /\ ResetOnes > Bits + 8 + cfg.trn
        /\ ones \in Nat /\ noise \in Bit
    BY WidthFacts
  <1>2. /\ flip \in Bit /\ level \in Bit /\ level = (IF flip = 0 THEN Line ELSE 1 - Line) /\ Follow(level)
        /\ noise' = noise + flip /\ noise' \in Bit /\ step' = step /\ cmd' = cmd /\ cfg' = cfg
        /\ seen' = (IF todo[1].look THEN Append(seen, level) ELSE seen)
    BY DEF Ticks
  <1>3. cmd \in Transfers  BY DEF Commanded
  <1>4. n \in 1 .. 8  OBVIOUS
  <1>5. /\ AskAhead(k + 1)' /\ todo[1].dio = (IF k + 1 <= 8 THEN Bits8(cmd)[k + 1] ELSE Float)
        /\ (todo[1].look <=> 8 + cfg.trn < k + 1 /\ k + 1 <= 11 + cfg.trn)
    BY AskStep
  <1>6. AskAhead(n)' /\ todo[1].dio = Bits8(cmd)[n] /\ ~todo[1].look
    <2>1. k + 1 = n /\ n <= 8 /\ ~(8 + cfg.trn < n)  BY ONLY <1>1, <1>4, n = k + 1
    <2>2. QED  BY <1>5, <2>1
  <1>7. Bits8(cmd)[n] \in Bit  BY <1>3, <1>4, RequestBits
  <1>8. Line = Bits8(cmd)[n]  BY <1>6, <1>7 DEF Line, Bit, Float
  <1>9. Len(seen') = 0
    <2>1. k <= 8 + cfg.trn  BY ONLY <1>1, k \in 0 .. 7
    <2>2. Heard(k) = 0  BY ONLY <2>1 DEF Heard
    <2>3. QED  BY <1>2, <1>6, <2>2
  <1>10. /\ ones' = IF (plan # <<>> /\ plan[1] < Float) \/ level = 0 THEN 0
                    ELSE IF ones < ResetOnes THEN ones + 1 ELSE ones
         /\ ones' \in 0 .. ResetOnes /\ ones' <= ones + 1
    BY <1>2, Counts
  <1>11. ones' <= cfg.trn + Bits + 2 + n
    <2>1. ones' \in Nat /\ ones' <= ones + 1  BY <1>1, <1>10
    <2>2. ones <= cfg.trn + Bits + 2 + k  OBVIOUS
    <2>3. QED  BY ONLY <1>1, <2>1, <2>2, k \in 0 .. 7, n = k + 1
  <1>12. ASSUME ones' = ResetOnes PROVE n \in {7, 8} /\ level = 1
    <2>1. n >= 7  BY <1>1, <1>4, <1>11, <1>12
    <2>2. ResetOnes # 0  BY <1>1
    <2>3. level # 0  BY <1>10, <1>12, <2>2
    <2>4. QED  BY <1>2, <1>4, <2>1, <2>3 DEF Bit
  <1>13. QED  BY <1>1, <1>2, <1>3, <1>6, <1>8, <1>9, <1>11, <1>12 DEF Sent

(* What is left to show of such a clock.                                   *)
LEMMA SentOn ==
  ASSUME WireTypes, NEW flip, NEW level, NEW k, NEW n, Sent(k, n, flip, level), n <= 7, Hearing',
         Hears(n)' \/ Early(n)' \/ Late(n)'
  PROVE  Requesting'
  <1>1. cfg.trn \in Nat /\ Bits \in Nat  BY WidthFacts
  <1>2. n \in 0 .. AskLen' /\ AskAhead(n)' /\ step' = "ack" /\ cfg' = cfg /\ Len(seen') = 0
    BY DEF Sent, AskAhead
  <1>3. Heard(n)' = 0  BY <1>1, <1>2 DEF Heard, Sent
  <1>4. ones' <= (cfg.trn + Bits + 2 + n)'  BY <1>2 DEF Sent
  <1>5. QED  BY <1>2, <1>3, <1>4 DEF Requesting

LEMMA SentLost ==
  ASSUME WireTypes, NEW flip, NEW level, NEW k, NEW n, Sent(k, n, flip, level), Lost(n)'
  PROVE  Requesting'
  <1>1. cfg.trn \in Nat /\ Bits \in Nat  BY WidthFacts
  <1>2. n \in 0 .. AskLen' /\ AskAhead(n)' /\ step' = "ack" /\ cfg' = cfg /\ Len(seen') = 0
    BY DEF Sent, AskAhead
  <1>3. Heard(n)' = 0  BY <1>1, <1>2 DEF Heard, Sent
  <1>4. \A i \in 1 .. Len(seen') : seen'[i] = 1  BY <1>2
  <1>5. QED  BY <1>2, <1>3, <1>4 DEF Requesting

LEMMA SentReset ==
  ASSUME WireTypes, NEW flip, NEW level, NEW k, NEW n, Sent(k, n, flip, level), ones' = ResetOnes, noise' = 1
  PROVE  Requesting' /\ UNCHANGED <<regs, sticky>>
  <1>1. level \in Bit /\ Follow(level) /\ n \in {7, 8}  BY DEF Sent
  <1>2. mode' = "reset" /\ plan' = <<>> /\ UNCHANGED <<regs, sticky>>  BY <1>1, LineReseen
  <1>3. Lost(n)'  BY <1>1, <1>2 DEF Lost, Untuned
  <1>4. QED  BY <1>2, <1>3, SentLost

LEMMA EarlyClock ==
  ASSUME WireTypes, cmd \in Transfers, NEW flip, NEW level, NEW k, NEW n, Sent(k, n, flip, level), Early(k)
  PROVE  Requesting' /\ UNCHANGED <<regs, sticky>>
  <1>1. /\ k \in 0 .. 7 /\ n = k + 1 /\ Hearing /\ level \in Bit /\ Follow(level) /\ cmd' = cmd /\ noise' = noise + flip
        /\ flip \in Bit /\ noise' \in Bit
    BY DEF Sent
  <1>2. noise = 1 /\ k <= 6 /\ Len(heard) = k + 1 /\ \A i \in 1 .. k : heard[i + 1] = Bits8(cmd)[i]  BY DEF Early
  <1>3. flip = 0 /\ noise' = 1  BY <1>1, <1>2 DEF Bit
  <1>4. level = Bits8(cmd)[n]  BY <1>3 DEF Sent
  <1>5. CASE ones' = ResetOnes  BY <1>3, <1>5, SentReset
  <1>6. CASE ones' # ResetOnes
    <2>1. mode = "sync" /\ plan = <<>>  BY <1>1 DEF Hearing
    <2>2. heard \in Seq(Bit) /\ heard # <<>>  BY <1>1, <1>2 DEF WireTypes
    <2>3. /\ UNCHANGED <<regs, sticky>>
          /\ Len(heard) < 7 => heard' = Append(heard, level) /\ UNCHANGED <<plan, mode, want>>
          /\ ~(Len(heard) < 7) => heard' = <<>> /\ Decide(Append(heard, level))
      BY <1>1, <1>6, <2>1, <2>2, Listens
    <2>4. /\ Len(Append(heard, level)) = k + 2 /\ Append(heard, level)[k + 2] = level
          /\ \A i \in 1 .. k + 1 : Append(heard, level)[i] = heard[i]
      BY <1>1, <1>2, <2>2, AppendProperties
    <2>5. CASE k <= 5
      <3>1. heard' = Append(heard, level) /\ UNCHANGED <<plan, mode, want>>  BY <1>1, <1>2, <2>3, <2>5
      <3>2. ASSUME NEW i \in 1 .. n PROVE heard'[i + 1] = Bits8(cmd)[i]
        <4>1. CASE i = n
          <5>1. i + 1 = k + 2  BY <1>1, <4>1
          <5>2. QED  BY <1>4, <2>4, <3>1, <4>1, <5>1
        <4>2. CASE i # n
          <5>1. i \in 1 .. k /\ i + 1 \in 1 .. k + 1  BY <1>1, <4>2
          <5>2. QED  BY <1>2, <2>4, <3>1, <5>1
        <4>3. QED  BY <4>1, <4>2
      <3>3. Len(heard') = n + 1 /\ n <= 6 /\ n <= 7  BY <1>1, <2>4, <2>5, <3>1
      <3>4. Bits8(cmd)' = Bits8(cmd)  BY <1>1 DEF Bits8
      <3>5. Early(n)'  BY <1>3, <3>2, <3>3, <3>4 DEF Early
      <3>6. Hearing'  BY <1>1, <3>1 DEF Hearing
      <3>7. QED  BY <2>3, <3>3, <3>5, <3>6, SentOn
    <2>6. CASE k = 6
      <3>1. Decide(Append(heard, level))  BY <1>2, <2>3, <2>6
      <3>2. Append(heard, level)[8] = 0
        <4>1. Bits8(cmd)[7] = 0  BY RequestBits
        <4>2. n = 7 /\ k + 2 = 8  BY <1>1, <2>6
        <4>3. QED  BY <1>4, <2>4, <4>1, <4>2
      <3>3. ~Well(Append(heard, level))  BY <3>2 DEF Well
      <3>4. mode' = "lost" /\ plan' = <<>>  BY <3>1, <3>3 DEF Decide
      <3>5. n = 7  BY <1>1, <2>6
      <3>6. Lost(n)'  BY <1>3, <3>4, <3>5 DEF Lost, Untuned
      <3>7. QED  BY <2>3, <3>6, SentLost
    <2>7. QED  BY <1>1, <1>2, <2>5, <2>6
  <1>7. QED  BY <1>5, <1>6

LEMMA LateClock ==
  ASSUME WireTypes, cmd \in Transfers, NEW flip, NEW level, NEW k, NEW n, Sent(k, n, flip, level), Late(k)
  PROVE  Requesting' /\ UNCHANGED <<regs, sticky>>
  <1>1. /\ k \in 0 .. 7 /\ n = k + 1 /\ Hearing /\ level \in Bit /\ Follow(level) /\ cmd' = cmd /\ noise' = noise + flip
        /\ flip \in Bit /\ noise' \in Bit
    BY DEF Sent
  <1>2. noise = 1 /\ k > 0 /\ Len(heard) < k  BY DEF Late
  <1>3. flip = 0 /\ noise' = 1  BY <1>1, <1>2 DEF Bit
  <1>4. level = Bits8(cmd)[n]  BY <1>3 DEF Sent
  <1>5. CASE ones' = ResetOnes  BY <1>3, <1>5, SentReset
  <1>6. CASE ones' # ResetOnes
    <2>1. mode = "sync" /\ plan = <<>>  BY <1>1 DEF Hearing
    <2>2. heard \in Seq(Bit) /\ Len(heard) \in Nat  BY LenProperties DEF WireTypes
    <2>3. Len(heard) < 7  BY <1>1, <1>2, <2>2
    <2>4. /\ UNCHANGED <<regs, sticky>>
          /\ heard = <<>> /\ level = 0 => UNCHANGED <<plan, heard, mode, want>>
          /\ ~(heard = <<>> /\ level = 0) => heard' = Append(heard, level) /\ UNCHANGED <<plan, mode, want>>
      BY <1>1, <1>6, <2>1, <2>3, Listens
    <2>5. Len(Append(heard, level)) = Len(heard) + 1 /\ Append(heard, level)[Len(heard) + 1] = level
      BY <1>1, <2>2, AppendProperties
    <2>6. Len(heard') < n /\ UNCHANGED <<plan, mode>>  BY <1>1, <1>2, <2>2, <2>4, <2>5
    <2>7. CASE n <= 7
      <3>1. Late(n)'  BY <1>1, <1>3, <2>6 DEF Late
      <3>2. Hearing'  BY <1>1, <2>6 DEF Hearing
      <3>3. QED  BY <2>4, <2>7, <3>1, <3>2, SentOn
    <2>8. CASE n = 8
      <3>1. level = 1  BY <1>4, <2>8, RequestBits
      <3>2. heard' = Append(heard, level)  BY <2>4, <3>1
      <3>3. Len(heard') <= 7 /\ heard'[Len(heard')] = 1  BY <2>2, <2>3, <2>5, <3>1, <3>2
      <3>4. Untuned'  BY <2>1, <2>6, <3>3 DEF Untuned
      <3>5. Lost(n)'  BY <1>3, <2>8, <3>4 DEF Lost
      <3>6. QED  BY <2>4, <3>5, SentLost
    <2>9. QED  BY <1>1, <2>7, <2>8
  <1>7. QED  BY <1>5, <1>6

(* The target has heard the request as it was sent.                        *)
LEMMA Recognised ==
  ASSUME WireTypes, cmd \in Transfers, UNCHANGED <<cfg, cmd, regs>>, NEW h \in Seq(Bit), Len(h) = 8,
         Agree(h, Bits8(cmd), 8), Decide(h), mode = "sync", heard' = <<>>
  PROVE  \E ack \in Acks : Obeys(ack, 0)'
  <1>1. /\ Bits8(cmd) \in Seq(Bit) /\ Len(Bits8(cmd)) = 8 /\ Bits8(cmd)[7] = 0 /\ Bits8(cmd)[8] = 1
        /\ Bits8(cmd)[6] = Parity(SubSeq(Bits8(cmd), 2, 5)) /\ Bits8(cmd)[3] = cmd.rnw
        /\ <<Bits8(cmd)[2], Bits8(cmd)[4], Bits8(cmd)[5]>> = cmd.at /\ cmd.at \in Addrs /\ cmd.rnw \in Bit
    BY RequestBits
  <1> DEFINE f == Bits8(cmd)
  <1>2. f \in Seq(Bit) /\ Len(f) = 8  BY <1>1
  <1>3. h = f
    <2> HIDE DEF f
    <2>1. \A i \in 1 .. Len(h) : h[i] = f[i]  BY DEF Agree, f
    <2>2. QED  BY <1>2, <2>1, SeqEqual
  <1>4. Well(h) /\ HeardAt(h) = cmd.at /\ h[3] = cmd.rnw  BY <1>1, <1>3 DEF Well, HeardAt
  <1> HIDE DEF f
  <1>5. PICK ack \in {OK, WAIT, FAULT} :
          /\ mode' = mode
          /\ want' = IF ack = OK /\ h[3] = 0 THEN HeardAt(h) ELSE <<>>
          /\ plan' = Release(cfg.trn) \o ack \o
               IF ack # OK THEN Refusal(h[3])
               ELSE IF h[3] = 1 THEN ReadPlan(regs[HeardAt(h)])
               ELSE Release(cfg.trn) \o Repeat(Bits + 1, Sample)
    <2>1. ~(~Well(h) \/ HeardAt(h) \notin Addrs)  BY <1>1, <1>4
    <2>2. QED  BY <2>1 DEF Decide
  <1>6. ack \in Acks  BY DEF Acks
  <1>7. plan' = Release(cfg.trn) \o ack \o Rest(ack)  BY <1>4, <1>5 DEF Rest
  <1>8. regs[cmd.at] \in Word  BY <1>1 DEF WireTypes
  <1>9. cfg.trn \in Nat /\ cfg.phase \in BOOLEAN /\ DataLen \in Nat /\ cfg.trn >= 1 /\ Bits \in Nat
    BY WidthFacts
  <1>10. IsPlan(plan', PlanLen(ack)) /\ \A i \in 1 .. PlanLen(ack) : plan'[i] = PlanAt(ack, i)
    BY <1>6, <1>7, <1>8, <1>9, PlanShape
  <1> DEFINE z == 0
  <1>11. z = 0  OBVIOUS
  <1> HIDE DEF z
  <1>12. PlanLen(ack) \in Nat /\ Len(plan') = PlanLen(ack)  BY <1>10 DEF IsPlan
  <1>13. PlanLen(ack)' = PlanLen(ack)  BY DEF PlanLen, RestLen, DataLen
  <1>14. \A j : PlanAt(ack, j)' = PlanAt(ack, j)  BY DEF PlanAt, RestAt, WithParity
  <1>15. z \in 0 .. PlanLen(ack) /\ Len(plan') = PlanLen(ack) - z  BY <1>11, <1>12
  <1>16. ASSUME NEW i \in 1 .. Len(plan') PROVE plan'[i] = PlanAt(ack, z + i)
    <2>1. z + i = i /\ i \in 1 .. PlanLen(ack)  BY <1>11, <1>12
    <2>2. QED  BY <1>10, <2>1
  <1>17. ack = OK => z < PlanLen(ack)  BY <1>9, <1>11 DEF PlanLen, RestLen
  <1>18. want' = (IF Storing(ack) THEN cmd.at ELSE <<>>)'  BY <1>1, <1>4, <1>5 DEF Storing
  <1>19. Len(heard') = Received(ack, z)'
    <2>1. Received(ack, z)' = 0  BY <1>9, <1>11 DEF Received
    <2>2. QED  BY <2>1
  <1>20. Obeys(ack, z)'  BY <1>5, <1>6, <1>13, <1>14, <1>15, <1>16, <1>17, <1>18, <1>19 DEF Obeys
  <1>21. QED  BY <1>6, <1>11, <1>20

LEMMA HearsClock ==
  ASSUME WireTypes, cmd \in Transfers, NEW flip, NEW level, NEW k, NEW n, Sent(k, n, flip, level), Hears(k)
  PROVE  Requesting' /\ UNCHANGED <<regs, sticky>>
  <1>1. /\ k \in 0 .. 7 /\ n = k + 1 /\ Hearing /\ level \in Bit /\ Follow(level) /\ cmd' = cmd /\ noise' = noise + flip
        /\ flip \in Bit /\ noise' \in Bit /\ noise \in Bit /\ cfg' = cfg
    BY DEF Sent
  <1>2. /\ Len(heard) = k /\ Like(heard, Bits8(cmd), k, noise) /\ (k > 0 => heard[1] = 1)
        /\ (k = 7 /\ heard[7] = 0 => ones = 0)
    BY DEF Hears
  <1>3. level = (IF flip = 0 THEN Bits8(cmd)[n] ELSE 1 - Bits8(cmd)[n])  BY DEF Sent
  <1>4. \A i \in 1 .. 8 : Bits8(cmd)[i] \in Bit  BY RequestBits
  <1>5. Bits8(cmd)[1] = 1 /\ Bits8(cmd)[7] = 0 /\ Bits8(cmd)[8] = 1  BY RequestBits
  <1>6. mode = "sync" /\ plan = <<>> /\ heard \in Seq(Bit)  BY <1>1 DEF Hearing, WireTypes
  <1>7. /\ ones' = IF (plan # <<>> /\ plan[1] < Float) \/ level = 0 THEN 0
                    ELSE IF ones < ResetOnes THEN ones + 1 ELSE ones
        /\ ones' \in 0 .. ResetOnes /\ ones' <= ones + 1
    BY <1>1, Counts
  <1>8. CASE ones' = ResetOnes
    <2>1. n \in {7, 8} /\ level = 1  BY <1>8 DEF Sent
    <2>2. CASE n = 7
      <3>1. flip = 1  BY <1>1, <1>3, <1>5, <2>1, <2>2 DEF Bit
      <3>2. noise' = 1  BY <1>1, <3>1 DEF Bit
      <3>3. QED  BY <1>8, <3>2, SentReset
    <2>3. CASE n = 8
      <3>1. k = 7  BY <1>1, <2>3
      <3>2. ResetOnes > 8 /\ ones \in Nat
        <4>1. ResetOnes > Bits + 8 + cfg.trn /\ Bits \in Nat /\ cfg.trn \in Nat /\ ones \in Nat /\ ResetOnes \in Nat
          BY WidthFacts
        <4>2. QED  BY <4>1
      <3>3. ones # 0  BY <1>7, <1>8, <3>2
      <3>4. heard[7] # 0  BY <1>2, <3>1, <3>3
      <3>5. ~Agree(heard, Bits8(cmd), k)
        <4>1. 7 \in 1 .. k  BY <3>1
        <4>2. QED  BY <1>5, <3>4, <4>1 DEF Agree
      <3>6. noise = 1  BY <1>2, <3>5 DEF Like
      <3>7. noise' = 1  BY <1>1, <3>6 DEF Bit
      <3>8. QED  BY <1>8, <3>7, SentReset
    <2>4. QED  BY <2>1, <2>2, <2>3
  <1>9. CASE ones' # ResetOnes
    <2>1. /\ UNCHANGED <<regs, sticky>>
          /\ heard = <<>> /\ level = 0 => UNCHANGED <<plan, heard, mode, want>>
          /\ ~(heard = <<>> /\ level = 0) /\ Len(heard) < 7
               => heard' = Append(heard, level) /\ UNCHANGED <<plan, mode, want>>
          /\ ~(heard = <<>> /\ level = 0) /\ ~(Len(heard) < 7) => heard' = <<>> /\ Decide(Append(heard, level))
      BY <1>1, <1>6, <1>9, Listens
    <2> DEFINE h == Append(heard, level)
    <2>2. h \in Seq(Bit) /\ Len(h) = n /\ h[n] = level /\ \A i \in 1 .. k : h[i] = heard[i]
      BY <1>1, <1>2, <1>6, AppendProperties
    <2>3. Like(h, Bits8(cmd), n, noise')
      <3>1. k \in Nat /\ noise + flip <= 1 /\ Bits8(cmd)[k + 1] \in Bit  BY <1>1, <1>4 DEF Bit
      <3>2. level = IF flip = 0 THEN Bits8(cmd)[k + 1] ELSE 1 - Bits8(cmd)[k + 1]  BY <1>1, <1>3
      <3>3. Like(Append(heard, level), Bits8(cmd), k + 1, noise + flip)
        BY <1>1, <1>2, <1>6, <3>1, <3>2, LikeAppend
      <3>4. QED  BY <1>1, <3>3
    <2> HIDE DEF h
    <2>4. CASE k = 0 /\ level = 0
      <3>1. flip = 1  BY <1>1, <1>3, <1>5, <2>4 DEF Bit
      <3>2. noise' = 1  BY <1>1, <3>1 DEF Bit
      <3>3. heard = <<>>  BY <1>2, <1>6, <2>4, EmptySeq, SeqEqual
      <3>4. UNCHANGED <<plan, heard, mode>>  BY <2>1, <2>4, <3>3
      <3>5. Late(n)'  BY <1>1, <1>2, <2>4, <3>2, <3>4 DEF Late
      <3>6. Hearing' /\ n <= 7  BY <1>1, <1>6, <2>4, <3>4 DEF Hearing
      <3>7. QED  BY <2>1, <3>5, <3>6, SentOn
    <2>5. CASE ~(k = 0 /\ level = 0)
      <3>1. ~(heard = <<>> /\ level = 0)  BY <1>2, <2>5
      <3>2. h[1] = 1
        <4>1. CASE k = 0
          <5>1. level = 1 /\ n = 1  BY <1>1, <2>5, <4>1 DEF Bit
          <5>2. QED  BY <2>2, <5>1
        <4>2. CASE k # 0
          <5>1. k > 0 /\ 1 \in 1 .. k  BY <1>1, <4>2
          <5>2. QED  BY <1>2, <2>2, <5>1
        <4>3. QED  BY <4>1, <4>2
      <3>3. CASE k <= 6
        <4>1. heard' = h /\ UNCHANGED <<plan, mode>>  BY <1>1, <1>2, <2>1, <3>1, <3>3 DEF h
        <4>2. Bits8(cmd)' = Bits8(cmd)  BY <1>1 DEF Bits8
        <4>3. ASSUME n = 7, h[7] = 0 PROVE ones' = 0  BY <1>7, <2>2, <4>3
        <4>4. Hears(n)'  BY <1>1, <2>2, <2>3, <3>2, <4>1, <4>2, <4>3 DEF Hears
        <4>5. Hearing' /\ n <= 7  BY <1>1, <1>6, <3>3, <4>1 DEF Hearing
        <4>6. QED  BY <2>1, <4>4, <4>5, SentOn
      <3>4. CASE k = 7
        <4>1. n = 8 /\ ~(Len(heard) < 7)  BY <1>1, <1>2, <3>4
        <4>2. heard' = <<>> /\ Decide(h)  BY <2>1, <3>1, <4>1 DEF h
        <4>3. CASE Agree(h, Bits8(cmd), 8)
          <5>1. UNCHANGED <<cfg, cmd, regs>>  BY <1>1, <2>1
          <5>2. PICK ack \in Acks : Obeys(ack, 0)'  BY <1>6, <2>2, <4>1, <4>2, <4>3, <5>1, Recognised
          <5>3. heard[7] = 0
            <6>1. 7 \in 1 .. k /\ 7 \in 1 .. 8  BY <3>4
            <6>2. QED  BY <1>5, <2>2, <4>3, <6>1 DEF Agree
          <5>4. ones' <= 1  BY <1>2, <1>7, <3>4, <5>3
          <5>5. cfg.trn \in Nat /\ cfg' = cfg /\ n \in 0 .. AskLen' /\ AskAhead(n)' /\ step' = "ack" /\ Len(seen') = 0
            BY WidthFacts DEF Sent, AskAhead
          <5>6. Heard(n)' = 0  BY <4>1, <5>5 DEF Heard
          <5>7. Like(seen, ack, Len(seen), noise)'  BY <5>5 DEF Like, Agree
          <5>8. n >= 8 /\ n - 8 = 0 /\ ones' <= AckOnes(n)'
            <6>1. n = 8 /\ n <= 8 + cfg.trn' /\ n - 7 = 1  BY <4>1, <5>5
            <6>2. AckOnes(n)' = n - 7  BY <6>1 DEF AckOnes
            <6>3. QED  BY <5>4, <6>1, <6>2
          <5>9. Obeys(ack, n - 8)'  BY <5>2, <5>8
          <5>10. QED  BY <2>1, <5>5, <5>6, <5>7, <5>8, <5>9 DEF Requesting
        <4>4. CASE ~Agree(h, Bits8(cmd), 8)
          <5>1. noise' = 1 /\ OneOff(h, Bits8(cmd), 8)  BY <2>3, <4>1, <4>4 DEF Like
          <5>2. ~Well(h)  BY <2>2, <3>2, <4>1, <5>1, NotWell
          <5>3. mode' = "lost" /\ plan' = <<>>  BY <4>2, <5>2 DEF Decide
          <5>4. Lost(n)'  BY <4>1, <5>1, <5>3 DEF Lost, Untuned
          <5>5. QED  BY <2>1, <5>4, SentLost
        <4>5. QED  BY <4>3, <4>4
      <3>5. QED  BY <1>1, <3>3, <3>4
    <2>6. QED  BY <2>4, <2>5
  <1>10. QED  BY <1>8, <1>9

(* A clock at which a target that is out of step sees a high line.         *)
LEMMA LostClock ==
  ASSUME WireTypes, Commanded, NEW flip, NEW level, Ticks(flip, level), step = "ack",
         NEW k \in Nat, AskAhead(k), Len(seen) = Heard(k), Lost(k), \A i \in 1 .. Len(seen) : seen[i] = 1
  PROVE  Requesting' /\ UNCHANGED <<regs, sticky>>
  <1> DEFINE n == k + 1
  <1>1. n = k + 1 /\ n \in Nat  OBVIOUS
  <1>2. /\ flip \in Bit /\ level \in Bit /\ level = (IF flip = 0 THEN Line ELSE 1 - Line) /\ Follow(level)
        /\ noise' = noise + flip /\ noise' \in Bit /\ step' = step /\ cmd' = cmd /\ cfg' = cfg
        /\ seen' = (IF todo[1].look THEN Append(seen, level) ELSE seen)
    BY DEF Ticks
  <1>3. noise = 1 /\ k >= 7 /\ Untuned /\ plan = <<>>  BY DEF Lost, Untuned
  <1>4. flip = 0 /\ noise' = 1  BY <1>2, <1>3 DEF Bit
  <1>5. /\ k + 1 \in 0 .. AskLen /\ AskAhead(k + 1)'
        /\ todo[1].dio = (IF k + 1 <= 8 THEN Bits8(cmd)[k + 1] ELSE Float)
        /\ (todo[1].look <=> 8 + cfg.trn < k + 1 /\ k + 1 <= 11 + cfg.trn)
    BY AskStep
  <1>6. AskAhead(n)' /\ n \in 0 .. AskLen' /\ (todo[1].look <=> 8 + cfg.trn < n /\ n <= 11 + cfg.trn)
    BY <1>5 DEF AskAhead
  <1>7. Line = 1
    <2>1. CASE k = 7
      <3>1. cmd \in Transfers  BY DEF Commanded
      <3>2. Bits8(cmd)[8] = 1  BY <3>1, RequestBits
      <3>3. k + 1 = 8  BY <2>1
      <3>4. todo[1].dio = 1  BY <1>5, <3>2, <3>3
      <3>5. QED  BY <3>4 DEF Line, Float
    <2>2. CASE k > 7
      <3>1. ~(k + 1 <= 8)  BY <2>2
      <3>2. todo[1].dio = Float  BY <1>5, <3>1
      <3>3. QED  BY <1>3, <3>2 DEF Line
    <2>3. QED  BY <1>3, <2>1, <2>2
  <1>8. level = 1  BY <1>2, <1>4, <1>7
  <1>9. Untuned' /\ UNCHANGED <<regs, sticky>>  BY <1>2, <1>3, <1>8, StaysUntuned
  <1>10. n # 7 /\ n >= 7  BY <1>1, <1>3
  <1>11. Lost(n)'  BY <1>4, <1>9, <1>10 DEF Lost
  <1>12. cfg.trn \in Nat /\ seen \in Seq(Bit)  BY WidthFacts DEF WireTypes
  <1> HIDE DEF n
  <1>13. Heard(n)' = Heard(n)  BY <1>2 DEF Heard
  <1>14. CASE todo[1].look
    <2>1. seen' = Append(seen, level) /\ 8 + cfg.trn < n /\ n <= 11 + cfg.trn  BY <1>2, <1>6, <1>14
    <2>2. Heard(k) = k - (8 + cfg.trn) /\ Heard(n) = n - (8 + cfg.trn)
      BY <1>1, <1>12, <2>1 DEF Heard
    <2>3. /\ Len(seen') = Len(seen) + 1 /\ seen'[Len(seen) + 1] = level
          /\ \A i \in 1 .. Len(seen) : seen'[i] = seen[i]
      BY <1>2, <1>12, <2>1, AppendProperties
    <2>4. Len(seen) \in Nat  BY <1>12, LenProperties
    <2>5. Len(seen') = Heard(n)  BY <1>1, <1>12, <2>2, <2>3
    <2>6. \A i \in 1 .. Len(seen') : seen'[i] = 1  BY <1>8, <2>3, <2>4
    <2>7. QED  BY <1>2, <1>6, <1>9, <1>11, <1>13, <2>5, <2>6 DEF Requesting
  <1>15. CASE ~todo[1].look
    <2>1. seen' = seen  BY <1>2, <1>15
    <2>2. Heard(n) = Heard(k)  BY SMTT(30), <1>1, <1>6, <1>12, <1>15 DEF Heard
    <2>3. QED  BY <1>2, <1>6, <1>9, <1>11, <1>13, <2>1, <2>2 DEF Requesting
  <1>16. QED  BY <1>14, <1>15

(* A clock of the acknowledge.                                             *)
LEMMA AckClock ==
  ASSUME WireTypes, Commanded, NEW flip, NEW level, Ticks(flip, level), step = "ack",
         NEW k \in Nat, AskAhead(k), Len(seen) = Heard(k), k >= 8, NEW ack \in Acks,
         Obeys(ack, k - 8), Like(seen, ack, Len(seen), noise),
         ones <= AckOnes(k)
  PROVE  Requesting' /\ UNCHANGED <<regs, sticky>>
  <1> DEFINE n == k + 1
             m == k - 8
             q == m + 1
  <1>1. n = k + 1 /\ n \in Nat /\ m = k - 8 /\ m \in Nat /\ q = m + 1 /\ q = n - 8 /\ n >= 8 /\ q \in Nat  OBVIOUS
  <1>2. /\ flip \in Bit /\ level \in Bit /\ level = (IF flip = 0 THEN Line ELSE 1 - Line) /\ Follow(level)
        /\ noise' = noise + flip /\ noise' \in Bit /\ step' = step /\ cmd' = cmd /\ cfg' = cfg
        /\ seen' = (IF todo[1].look THEN Append(seen, level) ELSE seen)
    BY DEF Ticks
  <1>3. cmd \in Transfers  BY DEF Commanded
  <1>4. /\ k + 1 \in 0 .. AskLen /\ AskAhead(k + 1)'
        /\ todo[1].dio = (IF k + 1 <= 8 THEN Bits8(cmd)[k + 1] ELSE Float)
        /\ (todo[1].look <=> 8 + cfg.trn < k + 1 /\ k + 1 <= 11 + cfg.trn)
    BY AskStep
  <1>5. AskAhead(n)' /\ n \in 0 .. AskLen' /\ (todo[1].look <=> 8 + cfg.trn < n /\ n <= 11 + cfg.trn)
    BY <1>4 DEF AskAhead
  <1>6. todo[1].dio = Float
    <2>1. ~(k + 1 <= 8)  BY <1>1
    <2>2. QED  BY <1>4, <2>1
  <1>7. /\ cfg.trn \in Nat /\ cfg.trn >= 1 /\ Bits \in Nat /\ ResetOnes \in Nat /\ ResetOnes > Bits + 8 + cfg.trn
        /\ ones \in Nat /\ noise \in Bit /\ DataLen = Bits + 1 + cfg.trn
    BY WidthFacts
  <1>8. n <= 11 + 2 * cfg.trn
    <2>1. k + 1 \in 0 .. AskLen  BY <1>4
    <2>2. AskLen \in {11 + cfg.trn, 11 + cfg.trn + cfg.trn}  BY ONLY <1>7 DEF AskLen
    <2>3. QED  BY ONLY <1>7, <2>1, <2>2, k \in Nat
  <1>9. Obeys(ack, m)  OBVIOUS
  <1>10. PlanLen(ack) >= 2 * cfg.trn + 3 /\ PlanLen(ack) \in Nat /\ (ack = OK => PlanLen(ack) > 2 * cfg.trn + 3)
    <2>1. RestLen(ack) \in {DataLen, cfg.trn} /\ (ack = OK => RestLen(ack) = DataLen)  BY DEF RestLen
    <2>2. PlanLen(ack) = cfg.trn + 3 + RestLen(ack)  BY DEF PlanLen
    <2>3. cfg.trn \in Nat /\ DataLen \in Nat /\ DataLen > cfg.trn  BY <1>7
    <2>4. QED  BY ONLY <2>1, <2>2, <2>3
  <1> HIDE DEF n, m, q
  <1>11. q <= PlanLen(ack) /\ (ack = OK => q < PlanLen(ack))
    <2>1. q <= 2 * cfg.trn + 3  BY ONLY <1>1, <1>7, <1>8
    <2>2. QED  BY ONLY <1>1, <1>7, <1>10, <2>1
  <1>12. plan # <<>> /\ plan[1] = PlanAt(ack, q) /\ q \in 1 .. PlanLen(ack)
    <2>1. Len(plan) = PlanLen(ack) - m /\ \A i \in 1 .. Len(plan) : plan[i] = PlanAt(ack, m + i)
      BY <1>9 DEF Obeys
    <2>2. Len(plan) >= 1 /\ 1 \in 1 .. Len(plan)  BY <1>1, <1>10, <1>11, <2>1
    <2>3. plan # <<>>  BY <2>2, EmptySeq
    <2>4. QED  BY <1>1, <1>11, <1>10, <2>1, <2>2, <2>3
  <1>13. cfg.trn < q /\ q <= cfg.trn + 3 =>
           plan[1] = ack[q - cfg.trn] /\ ack[q - cfg.trn] \in Bit
    BY <1>3, <1>12, PlanValue
  <1>14. /\ ones' = IF (plan # <<>> /\ plan[1] < Float) \/ level = 0 THEN 0
                    ELSE IF ones < ResetOnes THEN ones + 1 ELSE ones
         /\ ones' \in 0 .. ResetOnes /\ ones' <= ones + 1
    BY <1>2, Counts
  <1>15. ones' <= AckOnes(n) /\ AckOnes(n) <= cfg.trn + 1
    <2>1. CASE n <= 8 + cfg.trn
      <3>1. k <= 8 + cfg.trn  BY ONLY <1>1, <1>7, <2>1
      <3>2. AckOnes(k) = k - 7 /\ AckOnes(n) = n - 7  BY <2>1, <3>1 DEF AckOnes
      <3>a. ones' \in Nat /\ ones' <= ones + 1 /\ ones <= k - 7  BY <1>7, <1>14, <3>2
      <3>3. ones' <= n - 7 /\ n - 7 <= cfg.trn + 1  BY ONLY <1>1, <1>7, <2>1, <3>a
      <3>4. QED  BY <3>2, <3>3
    <2>2. CASE 8 + cfg.trn < n /\ n <= 11 + cfg.trn
      <3>a. cfg.trn \in Nat  BY <1>7
      <3>1. cfg.trn < q /\ q <= cfg.trn + 3  BY ONLY <1>1, <2>2, <3>a
      <3>2. plan[1] \in Bit  BY <1>13, <3>1
      <3>3. ones' = 0  BY <1>12, <1>14, <3>2 DEF Bit, Float
      <3>4. OnesFrom(n, 11 + cfg.trn) = 0 /\ ~(n <= 8 + cfg.trn)  BY SMTT(30), <1>1, <1>7, <2>2 DEF OnesFrom
      <3>5. AckOnes(n) = 0  BY <3>4 DEF AckOnes
      <3>6. QED  BY <1>7, <3>3, <3>5
    <2>3. CASE n > 11 + cfg.trn
      <3>1. ~(k <= 8 + cfg.trn) /\ ~(n <= 8 + cfg.trn)  BY SMTT(30), <1>1, <1>7, <2>3
      <3>2. ones <= k - (11 + cfg.trn)
        <4>1. AckOnes(k) = OnesFrom(k, 11 + cfg.trn)  BY <3>1 DEF AckOnes
        <4>2. OnesFrom(k, 11 + cfg.trn) = k - (11 + cfg.trn)  BY ONLY <1>1, <1>7, <2>3 DEF OnesFrom
        <4>3. QED  BY <4>1, <4>2
      <3>a. ones' \in Nat /\ ones' <= ones + 1  BY <1>7, <1>14
      <3>3. ones' <= n - (11 + cfg.trn)  BY ONLY <1>1, <1>7, <3>2, <3>a
      <3>4. OnesFrom(n, 11 + cfg.trn) = n - (11 + cfg.trn)  BY ONLY <1>1, <1>7, <2>3 DEF OnesFrom
      <3>5. AckOnes(n) = n - (11 + cfg.trn)  BY <3>1, <3>4 DEF AckOnes
      <3>6. n - (11 + cfg.trn) <= cfg.trn + 1  BY ONLY <1>1, <1>7, <1>8
      <3>7. QED  BY <3>3, <3>5, <3>6
    <2>4. n <= 8 + cfg.trn \/ (8 + cfg.trn < n /\ n <= 11 + cfg.trn) \/ n > 11 + cfg.trn  BY ONLY <1>1, <1>7
    <2>5. QED  BY ONLY <2>1, <2>2, <2>3, <2>4
  <1>16. ones' # ResetOnes
    <2>1. ones' <= cfg.trn + 1 /\ ones' \in Nat
      <3>1. ASSUME NEW a, ones' <= a, a <= cfg.trn + 1, a \in Int, ones' \in Nat PROVE ones' <= cfg.trn + 1
        BY SMTT(30), <1>7, <3>1
      <3>2. ones' \in Nat  BY <1>7, <1>14
      <3>3. OnesFrom(n, 11 + cfg.trn) \in Int  BY SMTT(30), <1>1, <1>7 DEF OnesFrom
      <3>4. AckOnes(n) \in Int  BY <1>1, <1>7, <3>3 DEF AckOnes
      <3>5. QED  BY <1>15, <3>1, <3>2, <3>4
    <2>2. QED  BY <1>7, <1>14, <2>1
  <1>17. Obeys(ack, q)' /\ UNCHANGED <<regs, sticky>>
    BY <1>1, <1>2, <1>3, <1>9, <1>11, <1>16, StaysObeying
  <1>18. Obeys(ack, n - 8)'
    <2>1. q = n - 8  BY <1>1
    <2>2. QED  BY <1>17, <2>1
  <1>19. Heard(n)' = Heard(n) /\ AckOnes(n)' = AckOnes(n)
    BY <1>2 DEF Heard, OnesFrom, AckOnes
  <1>20. (ones <= AckOnes(n))'  BY <1>2, <1>15, <1>19
  <1>21. Len(seen') = Heard(n) /\ Like(seen, ack, Len(seen), noise)'
    <2>1. seen \in Seq(Bit) /\ Len(seen) \in Nat  BY LenProperties DEF WireTypes
    <2>2. CASE todo[1].look
      <3>1. 8 + cfg.trn < n /\ n <= 11 + cfg.trn /\ seen' = Append(seen, level)  BY <1>2, <1>5, <2>2
      <3>2. Heard(k) = k - (8 + cfg.trn) /\ Heard(n) = n - (8 + cfg.trn)
        <4>a. n = k + 1 /\ k \in Nat /\ cfg.trn \in Nat  BY <1>1, <1>7
        <4>1. ~(n <= 8 + cfg.trn) /\ k <= 11 + cfg.trn /\ (k <= 8 + cfg.trn => 0 = k - (8 + cfg.trn))
          BY ONLY <4>a, <3>1
        <4>2. Heard(n) = n - (8 + cfg.trn)  BY ONLY <3>1, <4>1 DEF Heard
        <4>3. Heard(k) = k - (8 + cfg.trn)  BY ONLY <4>1 DEF Heard
        <4>4. QED  BY ONLY <4>2, <4>3
      <3>a. Len(seen) = k - (8 + cfg.trn)  BY <3>2
      <3>b. k \in Nat /\ cfg.trn \in Nat  BY <1>7
      <3>3. q - cfg.trn = Len(seen) + 1 /\ cfg.trn < q /\ q <= cfg.trn + 3
        BY ONLY SMTT(30), <1>1, <3>1, <3>a, <3>b
      <3>4. plan[1] = ack[Len(seen) + 1] /\ ack[Len(seen) + 1] \in Bit  BY <1>13, <3>3
      <3>5. Line = ack[Len(seen) + 1]  BY <1>6, <1>12, <3>4 DEF Line, Bit, Float
      <3>6. level = IF flip = 0 THEN ack[Len(seen) + 1] ELSE 1 - ack[Len(seen) + 1]  BY <1>2, <3>5
      <3>7. noise + flip <= 1  BY <1>2 DEF Bit
      <3>8. Like(Append(seen, level), ack, Len(seen) + 1, noise + flip)
        BY <1>2, <1>7, <2>1, <3>4, <3>6, <3>7, LikeAppend
      <3>9. Len(seen') = Len(seen) + 1
        <4>1. level \in Bit  BY <1>2
        <4>2. QED  BY ONLY <2>1, <3>1, <4>1, AppendProperties
      <3>10. Len(seen') = Heard(n)
        <4>1. Heard(n) = n - (8 + cfg.trn)  BY <3>2
        <4>2. QED  BY ONLY <1>1, <3>a, <3>b, <3>9, <4>1
      <3>11. Like(seen', ack, Len(seen'), noise')  BY <1>2, <3>1, <3>8, <3>9
      <3>12. QED  BY <3>10, <3>11
    <2>3. CASE ~todo[1].look
      <3>1. seen' = seen  BY <1>2, <2>3
      <3>2. Heard(n) = Heard(k)
        <4>1. CASE n <= 8 + cfg.trn
          <5>1. k <= 8 + cfg.trn  BY SMTT(30), <1>1, <1>7, <4>1
          <5>2. QED  BY <4>1, <5>1 DEF Heard
        <4>2. CASE n > 11 + cfg.trn
          <5>a. cfg.trn \in Nat /\ k \in Nat /\ n = k + 1  BY <1>1, <1>7
          <5>1. ~(n <= 8 + cfg.trn) /\ ~(n <= 11 + cfg.trn) /\ ~(k <= 8 + cfg.trn)  BY ONLY <4>2, <5>a
          <5>2. k <= 11 + cfg.trn => k - (8 + cfg.trn) = 3  BY ONLY <4>2, <5>a
          <5>3. QED  BY <5>1, <5>2 DEF Heard
        <4>3. n <= 8 + cfg.trn \/ n > 11 + cfg.trn  BY ONLY <1>1, <1>5, <1>7, <2>3
        <4>4. QED  BY ONLY <4>1, <4>2, <4>3
      <3>3. noise = 1 => noise' = 1  BY <1>2, <1>7 DEF Bit
      <3>4. Like(seen', ack, Len(seen'), noise')  BY <3>1, <3>3 DEF Like
      <3>5. QED  BY <3>1, <3>2, <3>4
    <2>4. QED  BY <2>2, <2>3
  <1>22. QED  BY <1>1, <1>2, <1>5, <1>17, <1>18, <1>19, <1>20, <1>21 DEF Requesting

LEMMA RequestingClock ==
  ASSUME WireTypes, Commanded, NEW flip, NEW level, Ticks(flip, level), Requesting
  PROVE  Sound /\ Requesting'
  <1>1. step = "ack" /\ cmd \in Transfers  BY DEF Requesting, Commanded
  <1>2. PICK k \in 0 .. AskLen :
       /\ AskAhead(k) /\ Len(seen) = Heard(k)
       /\ \/ k <= 7 /\ Hearing /\ ones <= cfg.trn + Bits + 2 + k /\ (Hears(k) \/ Early(k) \/ Late(k))
          \/ Lost(k) /\ \A i \in 1 .. Len(seen) : seen[i] = 1
          \/ k >= 8 /\ \E ack \in Acks :
               /\ Obeys(ack, k - 8) /\ Like(seen, ack, Len(seen), noise)
               /\ ones <= AckOnes(k)
    BY DEF Requesting
  <1>3. k \in Nat
    <2>1. cfg.trn \in Nat  BY WidthFacts
    <2>2. AskLen \in {11 + cfg.trn, 11 + cfg.trn + cfg.trn}  BY ONLY <2>1 DEF AskLen
    <2>3. QED  BY ONLY <2>1, <2>2, k \in 0 .. AskLen
  <1>4. CASE k <= 7 /\ Hearing /\ ones <= cfg.trn + Bits + 2 + k /\ (Hears(k) \/ Early(k) \/ Late(k))
    <2>1. k \in 0 .. 7  BY <1>3, <1>4
    <2> DEFINE n == k + 1
    <2>2. n = k + 1  OBVIOUS
    <2> HIDE DEF n
    <2>3. Sent(k, n, flip, level)  BY <1>1, <1>2, <1>4, <2>1, <2>2, SentClock
    <2>4. Requesting' /\ UNCHANGED <<regs, sticky>>
      BY <1>1, <1>4, <2>3, HearsClock, EarlyClock, LateClock
    <2>5. QED  BY <2>4, SoundSame
  <1>5. CASE Lost(k) /\ \A i \in 1 .. Len(seen) : seen[i] = 1
    <2>1. Requesting' /\ UNCHANGED <<regs, sticky>>  BY <1>1, <1>2, <1>3, <1>5, LostClock
    <2>2. QED  BY <2>1, SoundSame
  <1>6. CASE k >= 8 /\ \E ack \in Acks :
               /\ Obeys(ack, k - 8) /\ Like(seen, ack, Len(seen), noise)
               /\ ones <= AckOnes(k)
    <2>1. PICK ack \in Acks :
               /\ Obeys(ack, k - 8) /\ Like(seen, ack, Len(seen), noise)
               /\ ones <= AckOnes(k)
      BY <1>6
    <2>2. Requesting' /\ UNCHANGED <<regs, sticky>>  BY <1>1, <1>2, <1>3, <1>6, <2>1, AckClock
    <2>3. QED  BY <2>2, SoundSame
  <1>7. QED  BY <1>2, <1>4, <1>5, <1>6

-----------------------------------------------------------------------------
(* An idle clock: only the last one may be taken for a start bit.          *)
LEMMA IdleClock ==
  ASSUME WireTypes, NEW flip, NEW level, Ticks(flip, level), ~slipped', step = "data", Hearing, heard = <<>>,
         todo[1].dio = 0, ones + 1 < ResetOnes
  PROVE  /\ UNCHANGED <<regs, sticky>> /\ Hearing' /\ Waiting' /\ (todo' # <<>> => heard' = <<>>)
         /\ ones' <= ones + 1 /\ (heard' = <<>> => ones' = 0)
  <1>1. /\ flip \in Bit /\ level \in Bit /\ level = (IF flip = 0 THEN Line ELSE 1 - Line) /\ Follow(level)
        /\ noise' = noise + flip /\ noise' \in Bit /\ noise \in Bit /\ todo' = Tail(todo)
        /\ slipped' = (slipped \/ (flip = 1 /\ step = "data" /\ plan = <<>> /\ Len(todo) > 1))
    BY DEF Ticks, WireTypes
  <1>2. mode = "sync" /\ plan = <<>>  BY DEF Hearing
  <1>3. Line = 0  BY DEF Line, Float
  <1>4. level = flip  BY <1>1, <1>3 DEF Bit
  <1>5. ~(flip = 1 /\ Len(todo) > 1)  BY <1>1, <1>2
  <1>6. /\ ones' = IF (plan # <<>> /\ plan[1] < Float) \/ level = 0 THEN 0
                    ELSE IF ones < ResetOnes THEN ones + 1 ELSE ones
        /\ ones' \in 0 .. ResetOnes /\ ones' <= ones + 1
    BY <1>1, Counts
  <1>7. ones \in Nat /\ ResetOnes \in Nat  BY WidthFacts
  <1>8. ones' # ResetOnes  BY <1>6, <1>7
  <1>9. Len(heard) = 0  BY EmptySeq
  <1>10. /\ UNCHANGED <<regs, sticky>>
         /\ heard = <<>> /\ level = 0 => UNCHANGED <<plan, heard, mode, want>>
         /\ ~(heard = <<>> /\ level = 0) => heard' = Append(heard, level) /\ UNCHANGED <<plan, mode, want>>
    BY <1>1, <1>2, <1>8, <1>9, Listens
  <1>11. CASE flip = 0
    <2>1. UNCHANGED <<plan, heard, mode>>  BY <1>4, <1>10, <1>11
    <2>2. ones' = 0  BY <1>4, <1>6, <1>11
    <2>3. Hearing' /\ Waiting' /\ heard' = <<>>  BY <1>2, <2>1 DEF Hearing, Waiting
    <2>4. QED  BY <1>6, <1>10, <2>2, <2>3
  <1>12. CASE flip = 1
    <2>1. heard' = Append(heard, level) /\ UNCHANGED <<plan, mode>>  BY <1>4, <1>10, <1>12
    <2>2. heard' = <<1>>  BY <1>4, <1>12, <2>1
    <2>3. heard' # <<>>  BY <2>2
    <2>4. noise' = 1  BY <1>1, <1>12 DEF Bit
    <2>5. Hearing' /\ Waiting'  BY <1>2, <2>1, <2>2, <2>4 DEF Hearing, Waiting
    <2>6. todo' = <<>>
      <3>1. /\ Len(todo) \in Nat /\ Len(todo) >= 1 /\ Tail(todo) \in Seq(Clocks)
            /\ Len(Tail(todo)) = Len(todo) - 1
        BY TailOf DEF Ticks, WireTypes
      <3>2. Len(Tail(todo)) = 0  BY <1>5, <1>12, <3>1
      <3>3. QED  BY <1>1, <3>1, <3>2, NoClocks
    <2>7. QED  BY <1>6, <1>10, <2>3, <2>5, <2>6
  <1>13. QED  BY <1>1, <1>11, <1>12 DEF Bit

LEMMA LikeOn ==
  ASSUME NEW s, NEW f, NEW n, NEW y, NEW z, Like(s, f, n, y), y = 1 => z = 1
  PROVE  Like(s, f, n, z)
  BY DEF Like

LEMMA NothingHeard == ASSUME WireTypes, Len(heard) = 0 PROVE heard = <<>>
  BY EmptySeq, SeqEqual DEF WireTypes

(* A clock of the data phase of a read.                                    *)
LEMMA ReadingClock ==
  ASSUME WireTypes, Commanded, NEW flip, NEW level, Ticks(flip, level), Reading, ~slipped'
  PROVE  Sound /\ Reading'
  <1>1. step = "data" /\ cmd.rnw = 1 /\ cmd \in Transfers  BY DEF Reading, Commanded
  <1>2. PICK k \in 0 .. DataLen + cfg.idle :
       /\ ReadAhead(k) /\ Len(seen) = SeenLen(k)
       /\ Like(seen, WithParity(regs[cmd.at]), Len(seen), noise)
       /\ IF k < DataLen THEN Obeys(OK, cfg.trn + 3 + k) /\ ones <= OnesFrom(k, Bits + 1)
          ELSE Hearing /\ Waiting /\ (todo # <<>> => heard = <<>>) /\ ones <= cfg.trn + 1
               /\ (heard = <<>> => ones <= cfg.trn)
    BY DEF Reading
  <1>3. /\ cfg.trn \in Nat /\ cfg.trn >= 1 /\ Bits \in Nat /\ ResetOnes \in Nat /\ ResetOnes > Bits + 8 + cfg.trn
        /\ ones \in Nat /\ noise \in Bit /\ DataLen = Bits + 1 + cfg.trn /\ DataLen \in Nat /\ cfg.idle \in Nat
        /\ Len(seen) \in Nat /\ k \in Nat
    BY WidthFacts, <1>2
  <1> DEFINE n == k + 1
             f == WithParity(regs[cmd.at])
  <1>4. n = k + 1 /\ n \in Nat  BY <1>3
  <1>5. /\ flip \in Bit /\ level \in Bit /\ level = (IF flip = 0 THEN Line ELSE 1 - Line) /\ Follow(level)
        /\ noise' = noise + flip /\ noise' \in Bit /\ step' = step /\ cmd' = cmd /\ cfg' = cfg
        /\ seen' = (IF todo[1].look THEN Append(seen, level) ELSE seen) /\ todo # <<>>
    BY DEF Ticks
  <1>6. /\ k \in 0 .. DataLen + cfg.idle - 1 /\ k + 1 \in 0 .. DataLen + cfg.idle /\ ReadAhead(k + 1)'
        /\ todo[1].dio = (IF k + 1 <= DataLen THEN Float ELSE 0) /\ (todo[1].look <=> k + 1 <= Bits + 1)
    BY <1>2, ReadStep
  <1>7. /\ n \in 0 .. DataLen + cfg.idle /\ ReadAhead(n)' /\ (todo[1].look <=> n <= Bits + 1)
        /\ (n <= DataLen => todo[1].dio = Float) /\ (n > DataLen => todo[1].dio = 0)
    BY <1>3, <1>6
  <1>8. regs[cmd.at] \in Word  BY <1>1, RequestBits DEF WireTypes
  <1>9. \A i \in 1 .. Bits + 1 : f[i] \in Bit
    <2>1. f \in Seq(Bit) /\ Len(f) = Bits + 1  BY <1>8, WordList
    <2>2. QED  BY <2>1
  <1>10. noise = 1 => noise' = 1  BY <1>3, <1>5 DEF Bit
  <1>11. seen \in Seq(Bit)  BY DEF WireTypes
  <1>12. /\ ones' = IF (plan # <<>> /\ plan[1] < Float) \/ level = 0 THEN 0
                    ELSE IF ones < ResetOnes THEN ones + 1 ELSE ones
         /\ ones' \in 0 .. ResetOnes /\ ones' <= ones + 1
    BY <1>5, Counts
  <1>13. Len(seen) = SeenLen(k) /\ Like(seen, f, Len(seen), noise)  BY <1>2
  <1> HIDE DEF f, n
  <1>14. ASSUME UNCHANGED <<regs, sticky>>, Len(seen') = SeenLen(n), Like(seen', f, Len(seen'), noise'),
                \/ n < DataLen /\ Obeys(OK, cfg.trn + 3 + n)' /\ ones' <= OnesFrom(n, Bits + 1)
                \/ /\ n >= DataLen /\ Hearing' /\ Waiting' /\ (todo' # <<>> => heard' = <<>>) /\ ones' <= cfg.trn + 1
                   /\ (heard' = <<>> => ones' <= cfg.trn)
         PROVE  Sound /\ Reading'
    <2>1. Sound  BY <1>14, SoundSame
    <2>2. f = WithParity(regs[cmd.at])'  BY <1>5, <1>14 DEF f, WithParity
    <2>3. DataLen' = DataLen /\ OnesFrom(n, Bits + 1)' = OnesFrom(n, Bits + 1)  BY <1>5 DEF DataLen, OnesFrom
    <2>4. n \in 0 .. (DataLen + cfg.idle)'  BY <1>5, <1>7, <2>3
    <2>5. Len(seen') = SeenLen(n)'  BY <1>14 DEF SeenLen
    <2>6. Like(seen, WithParity(regs[cmd.at]), Len(seen), noise)'  BY <1>14, <2>2
    <2>7. CASE n < DataLen /\ Obeys(OK, cfg.trn + 3 + n)' /\ ones' <= OnesFrom(n, Bits + 1)
      <3>1. Obeys(OK, cfg.trn + 3 + n)' /\ (n < DataLen)' /\ (ones <= OnesFrom(n, Bits + 1))'
        BY <1>5, <2>3, <2>7
      <3>2. QED  BY <1>1, <1>5, <1>7, <2>1, <2>4, <2>5, <2>6, <3>1 DEF Reading
    <2>8. CASE /\ n >= DataLen /\ Hearing' /\ Waiting' /\ (todo' # <<>> => heard' = <<>>) /\ ones' <= cfg.trn + 1
               /\ (heard' = <<>> => ones' <= cfg.trn)
      <3>1. ~(n < DataLen')  BY <1>3, <1>4, <2>3, <2>8
      <3>2. QED  BY <1>1, <1>5, <1>7, <2>1, <2>4, <2>5, <2>6, <2>8, <3>1 DEF Reading
    <2>9. QED  BY <1>14, <2>7, <2>8
  <1>15. CASE k < DataLen
    <2>a. PICK m \in Nat : m = cfg.trn + 3 + k  BY <1>3
    <2> DEFINE q == m + 1
    <2>b. cfg.trn \in Nat /\ DataLen \in Nat /\ k \in Nat /\ Bits \in Nat  BY <1>3
    <2>c. m = cfg.trn + 3 + k /\ m \in Nat  BY <2>a
    <2>e. n = k + 1 /\ n \in Nat  BY <1>4
    <2>1. m \in Nat /\ q \in Nat /\ q = m + 1 /\ q = cfg.trn + 3 + n /\ m = cfg.trn + 3 + k
      BY ONLY <2>b, <2>c, <2>e
    <2>d. q = cfg.trn + 3 + n  BY <2>1
    <2>2. Obeys(OK, m) /\ ones <= OnesFrom(k, Bits + 1)  BY <1>2, <1>15, <2>a
    <2>3. PlanLen(OK) = cfg.trn + 3 + DataLen /\ ~Storing(OK) /\ OK \in Acks
      BY <1>1 DEF PlanLen, RestLen, Storing, Acks
    <2>f. PlanLen(OK) = cfg.trn + 3 + DataLen  BY <2>3
    <2>4. n <= DataLen /\ todo[1].dio = Float  BY <1>3, <1>4, <1>7, <1>15
    <2> HIDE DEF q
    <2>5. q \in 1 .. PlanLen(OK)
      <3>1. n <= DataLen  BY <2>4
      <3>2. QED  BY ONLY <2>b, <2>d, <2>e, <2>f, <3>1
    <2>6. Len(plan) = PlanLen(OK) - m /\ (\A i \in 1 .. Len(plan) : plan[i] = PlanAt(OK, m + i)) /\ mode = "sync"
      BY <2>2 DEF Obeys
    <2>7. Len(plan) = DataLen + 1 - n
      <3>1. Len(plan) = cfg.trn + 3 + DataLen - m  BY <2>b, <2>f, <2>6
      <3>2. QED  BY ONLY SMTT(30), <2>b, <2>c, <2>e, <3>1
    <2>8. plan # <<>> /\ plan[1] = PlanAt(OK, q)
      <3>1. 1 \in 1 .. Len(plan)  BY <1>3, <1>4, <2>4, <2>7
      <3>2. plan # <<>>  BY <3>1, EmptySeq
      <3>3. QED  BY <2>1, <2>6, <3>1, <3>2
    <2>9. n <= Bits + 1 => plan[1] = f[n] /\ f[n] \in Bit
      <3>1. ASSUME n <= Bits + 1 PROVE plan[1] = f[n] /\ f[n] \in Bit
        <4>1. q <= cfg.trn + 4 + Bits /\ cfg.trn + 3 < q /\ q - (cfg.trn + 3) = n /\ n \in 1 .. Bits + 1
          BY ONLY <2>b, <2>d, <2>e, <3>1
        <4>2. PlanAt(OK, q) = IF q <= cfg.trn + 4 + Bits THEN WithParity(regs[cmd.at])[q - (cfg.trn + 3)] ELSE Float
          BY <1>1, <2>3, <2>5, <4>1, PlanValue
        <4>3. PlanAt(OK, q) = f[q - (cfg.trn + 3)]  BY <4>1, <4>2 DEF f
        <4>4. PlanAt(OK, q) = f[n]  BY <4>1, <4>3
        <4>5. QED  BY <1>9, <2>8, <4>1, <4>4
      <3>2. QED  BY <3>1
    <2>10. OnesFrom(k, Bits + 1) \in Nat /\ OnesFrom(k, Bits + 1) < cfg.trn
           /\ (n > Bits + 1 => OnesFrom(k, Bits + 1) + 1 = n - (Bits + 1))
      BY <1>3, <1>4, <1>15 DEF OnesFrom
    <2>11. ones' <= OnesFrom(n, Bits + 1) /\ ones' <= cfg.trn
      <3>1. ones' \in Nat /\ ones' <= cfg.trn  BY <1>3, <1>12, <2>2, <2>10
      <3>2. CASE n <= Bits + 1
        <4>1. plan[1] < Float  BY <2>9, <3>2 DEF Bit, Float
        <4>2. ones' = 0  BY <1>12, <2>8, <4>1
        <4>3. OnesFrom(n, Bits + 1) = 0  BY <3>2 DEF OnesFrom
        <4>4. QED  BY <3>1, <4>2, <4>3
      <3>3. CASE n > Bits + 1
        <4>1. OnesFrom(n, Bits + 1) = n - (Bits + 1)  BY <1>3, <1>4, <3>3 DEF OnesFrom
        <4>2. ones' <= n - (Bits + 1)  BY <1>3, <1>4, <1>12, <2>2, <2>10, <3>3
        <4>3. QED  BY <3>1, <4>1, <4>2
      <3>4. QED  BY <1>3, <1>4, <3>2, <3>3
    <2>12. ones' # ResetOnes  BY <1>3, <1>12, <2>11
    <2>13. Len(seen') = SeenLen(n) /\ Like(seen', f, Len(seen'), noise')
      <3>1. CASE n <= Bits + 1
        <4>1. Len(seen) = k
          <5>1. k <= Bits + 1  BY <1>3, <1>4, <3>1
          <5>2. QED  BY <1>13, <5>1 DEF SeenLen
        <4>2. seen' = Append(seen, level)  BY <1>5, <1>7, <3>1
        <4>3. Line = f[n] /\ f[k + 1] \in Bit  BY <1>4, <2>4, <2>8, <2>9, <3>1 DEF Line, Bit, Float
        <4>4. level = IF flip = 0 THEN f[k + 1] ELSE 1 - f[k + 1]  BY <1>4, <1>5, <4>3
        <4>5. noise + flip <= 1 /\ Like(seen, f, k, noise)  BY <1>5, <1>13, <4>1 DEF Bit
        <4>6. Like(Append(seen, level), f, k + 1, noise + flip)
          BY <1>3, <1>5, <1>11, <4>1, <4>3, <4>4, <4>5, LikeAppend
        <4>7. Len(seen') = n  BY <1>4, <1>5, <1>11, <4>1, <4>2, AppendProperties
        <4>8. Like(seen', f, n, noise')  BY <1>4, <1>5, <4>2, <4>6
        <4>9. SeenLen(n) = n  BY <3>1 DEF SeenLen
        <4>10. QED  BY <4>7, <4>8, <4>9
      <3>2. CASE ~(n <= Bits + 1)
        <4>1. seen' = seen  BY <1>5, <1>7, <3>2
        <4>2. Len(seen) = Bits + 1
          <5>1. k <= Bits + 1 => k = Bits + 1  BY <1>3, <1>4, <3>2
          <5>2. SeenLen(k) = Bits + 1  BY <5>1 DEF SeenLen
          <5>3. QED  BY <1>13, <5>2
        <4>3. SeenLen(n) = Bits + 1  BY <3>2 DEF SeenLen
        <4>4. Like(seen, f, Len(seen), noise)  BY <1>13
        <4>5. Like(seen', f, Len(seen'), noise')  BY <1>10, <4>1, <4>4, LikeOn
        <4>6. QED  BY <4>1, <4>2, <4>3, <4>5
      <3>3. QED  BY <3>1, <3>2
    <2>14. CASE n < DataLen
      <3>1. q <= PlanLen(OK) /\ q < PlanLen(OK)  BY ONLY <2>b, <2>d, <2>e, <2>f, <2>14
      <3>a. UNCHANGED <<cfg, cmd>> /\ level \in Bit /\ Follow(level)  BY <1>5
      <3>b. m + 1 <= PlanLen(OK) /\ (OK = OK => m + 1 < PlanLen(OK))  BY <2>1, <3>1
      <3>2. Obeys(OK, q)' /\ UNCHANGED <<regs, sticky>>
        <4>1. Obeys(OK, m + 1)' /\ UNCHANGED <<regs, sticky>>
          BY <1>1, <2>2, <2>3, <2>12, <3>a, <3>b, StaysObeying
        <4>2. QED  BY <2>1, <4>1
      <3>3. Obeys(OK, cfg.trn + 3 + n)'
        <4>1. q = cfg.trn + 3 + n  BY <2>1
        <4>2. cfg' = cfg  BY <1>5
        <4>3. QED  BY <3>2, <4>1, <4>2
      <3>4. QED  BY <1>14, <2>11, <2>13, <2>14, <3>2, <3>3
    <2>15. CASE n = DataLen
      <3>1. Len(plan) = 1  BY <1>3, <2>7, <2>15
      <3>2. plan[1] = Float
        <4>1. ~(q <= cfg.trn + 4 + Bits) /\ cfg.trn + 3 < q
          <5>1. DataLen = Bits + 1 + cfg.trn /\ cfg.trn >= 1  BY <1>3
          <5>2. QED  BY ONLY <2>b, <2>d, <2>15, <5>1
        <4>2. PlanAt(OK, q) = IF q <= cfg.trn + 4 + Bits THEN WithParity(regs[cmd.at])[q - (cfg.trn + 3)] ELSE Float
          BY <1>1, <2>3, <2>5, <4>1, PlanValue
        <4>3. QED  BY <2>8, <4>1, <4>2
      <3>3. plan[1] # Sample  BY <3>2 DEF Float, Sample
      <3>4. plan' = Tail(plan) /\ UNCHANGED <<mode, heard, want, sticky, regs>>
        BY <1>5, <2>6, <2>8, <2>12, <3>3, Passes
      <3>5. plan' = <<>>
        <4>1. plan \in Seq(0 .. 3)  BY DEF WireTypes
        <4>2. Tail(plan) \in Seq(0 .. 3) /\ Len(Tail(plan)) = 0
          <5>1. Tail(plan) \in Seq(0 .. 3) /\ Len(Tail(plan)) = Len(plan) - 1  BY <2>8, <4>1, TailOf
          <5>2. QED  BY <3>1, <5>1
        <4>3. QED  BY <3>4, <4>2, EmptySeq, SeqEqual
      <3>6. heard = <<>>
        <4>1. Len(heard) = 0  BY <2>2, <2>3 DEF Obeys, Received
        <4>2. QED  BY <4>1, NothingHeard
      <3>7. Hearing' /\ Waiting' /\ heard' = <<>>  BY <2>6, <3>4, <3>5, <3>6 DEF Hearing, Waiting
      <3>8. n >= DataLen /\ ones' <= cfg.trn + 1  BY SMTT(30), <1>3, <1>12, <2>11, <2>15
      <3>9. QED  BY <1>14, <2>11, <2>13, <3>4, <3>7, <3>8
    <2>16. QED  BY <1>3, <1>4, <2>4, <2>14, <2>15
  <1>16. CASE ~(k < DataLen)
    <2>1. Hearing /\ heard = <<>> /\ ones <= cfg.trn  BY <1>2, <1>5, <1>16
    <2>2. n > DataLen /\ n > Bits + 1 /\ k > Bits + 1  BY <1>3, <1>4, <1>16
    <2>3. todo[1].dio = 0 /\ seen' = seen
      <3>1. ~(n <= Bits + 1)  BY <1>3, <1>4, <2>2
      <3>2. QED  BY <1>5, <1>7, <2>2, <3>1
    <2>4. ones + 1 < ResetOnes  BY <1>3, <2>1
    <2>5. /\ UNCHANGED <<regs, sticky>> /\ Hearing' /\ Waiting' /\ (todo' # <<>> => heard' = <<>>)
          /\ ones' <= ones + 1 /\ (heard' = <<>> => ones' = 0)
      BY <1>1, <2>1, <2>3, <2>4, IdleClock
    <2>6. ones' <= cfg.trn + 1 /\ (heard' = <<>> => ones' <= cfg.trn)  BY SMTT(30), <1>3, <1>12, <2>1, <2>5
    <2>7. Len(seen') = SeenLen(n)
      <3>1. ~(k <= Bits + 1) /\ ~(n <= Bits + 1)  BY <1>3, <1>4, <2>2
      <3>2. SeenLen(k) = Bits + 1 /\ SeenLen(n) = Bits + 1  BY <3>1 DEF SeenLen
      <3>3. QED  BY <1>13, <2>3, <3>2
    <2>8. Like(seen', f, Len(seen'), noise')
      <3>1. Like(seen, f, Len(seen), noise)  BY <1>13
      <3>2. QED  BY <1>10, <2>3, <3>1, LikeOn
    <2>9. n >= DataLen  BY <1>3, <1>4, <2>2
    <2>10. QED  BY <1>14, <2>5, <2>6, <2>7, <2>8, <2>9
  <1>17. QED  BY <1>15, <1>16

(* A clock of a refused transfer.                                          *)
LEMMA RefusedClock ==
  ASSUME WireTypes, Commanded, NEW flip, NEW level, Ticks(flip, level), Refused
  PROVE  Sound /\ Refused'
  <1>1. /\ step = "refused" /\ mode = "sync" /\ heard = <<>> /\ ones + Len(todo) <= DataLen
        /\ Len(plan) = Len(todo) /\ \A i \in 1 .. Len(plan) : plan[i] = Float
    BY DEF Refused
  <1>2. \A i \in 1 .. Len(todo) : ~todo[i].look  BY DEF Refused
  <1>3. /\ level \in Bit /\ Follow(level) /\ step' = step /\ cfg' = cfg  BY DEF Ticks
  <1>4. /\ Len(todo) \in Nat /\ Len(todo) >= 1 /\ Len(todo') = Len(todo) - 1 /\ 1 \in 1 .. Len(todo)
        /\ \A i \in 1 .. Len(todo') : todo'[i] = todo[i + 1] /\ i + 1 \in 1 .. Len(todo)
    BY TodoStep
  <1>5. plan # <<>> /\ plan[1] = Float
    <2>1. plan[1] = Float  BY <1>1, <1>4
    <2>2. Len(plan) # 0  BY <1>1, <1>4
    <2>3. plan # <<>>  BY <2>2, EmptySeq
    <2>4. QED  BY <2>1, <2>3
  <1>6. ones' \in 0 .. ResetOnes /\ ones' <= ones + 1  BY <1>3, Counts
  <1>7. ones \in Nat /\ DataLen \in Nat /\ ResetOnes \in Nat /\ ResetOnes > DataLen
    <2>1. ResetOnes > Bits + 8 + cfg.trn /\ DataLen = Bits + 1 + cfg.trn  BY WidthFacts
    <2>2. Bits \in Nat /\ cfg.trn \in Nat /\ ResetOnes \in Nat /\ ones \in Nat  BY WidthFacts
    <2>3. QED  BY <2>1, <2>2
  <1>8. ones' + Len(todo') <= DataLen /\ ones' # ResetOnes
    <2>1. ones + Len(todo) <= DataLen  BY <1>1
    <2>2. Len(todo) \in Nat /\ Len(todo) >= 1 /\ Len(todo') = Len(todo) - 1  BY <1>4
    <2>3. QED  BY ONLY <1>6, <1>7, <2>1, <2>2
  <1>9. plan[1] # Sample  BY <1>5 DEF Float, Sample
  <1>10. plan' = Tail(plan) /\ UNCHANGED <<mode, heard, want, sticky, regs>>
    BY <1>1, <1>3, <1>5, <1>8, <1>9, Passes
  <1>11. Len(plan') = Len(todo') /\ \A i \in 1 .. Len(plan') : plan'[i] = Float
    <2>1. plan \in Seq(0 .. 3)  BY DEF WireTypes
    <2>2. Len(Tail(plan)) = Len(plan) - 1 /\ \A i \in 1 .. Len(plan) - 1 : Tail(plan)[i] = plan[i + 1]
      BY <1>5, <2>1, TailOf
    <2>3. Len(plan) \in Nat  BY <2>1, LenProperties
    <2>4. \A i \in 1 .. Len(plan) - 1 : i + 1 \in 1 .. Len(plan)  BY <2>3
    <2>5. QED  BY <1>1, <1>4, <1>10, <2>2, <2>4
  <1>12. \A i \in 1 .. Len(todo') : ~todo'[i].look  BY <1>2, <1>4
  <1>13. DataLen' = DataLen  BY <1>3 DEF DataLen
  <1>14. Sound  BY <1>10, SoundSame
  <1>15. QED  BY <1>1, <1>3, <1>8, <1>10, <1>11, <1>12, <1>13, <1>14 DEF Refused

LEMMA WordPart ==
  ASSUME NEW h \in Seq(Bit), Len(h) = Bits + 1
  PROVE  SubSeq(h, 1, Bits) \in Word /\ \A i \in 1 .. Bits : SubSeq(h, 1, Bits)[i] = h[i]
  <1>1. Bits \in Nat /\ Bits >= 1  BY WiresAssumption
  <1> DEFINE w == SubSeq(h, 1, Bits)
  <1>2. w \in Seq(Bit) /\ Len(w) = Bits - 1 + 1 /\ \A i \in 1 .. Bits - 1 + 1 : w[i] = h[1 + i - 1]
    <2>1. 1 \in Nat /\ Bits \in Nat /\ 1 <= 1 /\ 1 <= Bits /\ Bits <= Len(h)  BY <1>1
    <2>2. QED  BY <2>1, PartOf
  <1> HIDE DEF w
  <1>3. Len(w) = Bits /\ \A i \in 1 .. Bits : w[i] = h[i]
    <2>1. Bits - 1 + 1 = Bits /\ \A i \in 1 .. Bits : 1 + i - 1 = i  BY <1>1
    <2>2. QED  BY <1>2, <2>1
  <1>4. w \in Word
    <2>1. DOMAIN w = 1 .. Len(w) /\ \A i \in 1 .. Len(w) : w[i] \in Bit  BY <1>2, LenProperties
    <2>2. w = [i \in 1 .. Len(w) |-> w[i]]  BY <1>2, SeqDef
    <2>3. QED  BY <1>3, <2>1, <2>2 DEF Word, Bit
  <1>5. QED  BY <1>3, <1>4 DEF w

(* A clock that the probe leaves to a target it has not heard.             *)
LEMMA UnheardClock ==
  ASSUME WireTypes, Commanded, NEW flip, NEW level, Ticks(flip, level), Unheard
  PROVE  Sound /\ Unheard'
  <1>1. step = "unheard" /\ noise = 1 /\ cmd \in Transfers  BY DEF Unheard, Commanded
  <1>2. \A i \in 1 .. Len(todo) : todo[i].dio = Float  BY DEF Unheard
  <1>3. /\ flip \in Bit /\ level \in Bit /\ level = (IF flip = 0 THEN Line ELSE 1 - Line) /\ Follow(level)
        /\ noise' = noise + flip /\ noise' \in Bit /\ UNCHANGED <<step, cmd, cfg>>
    BY DEF Ticks
  <1>4. /\ Len(todo) \in Nat /\ Len(todo) >= 1 /\ Len(todo') = Len(todo) - 1 /\ 1 \in 1 .. Len(todo)
        /\ \A i \in 1 .. Len(todo') : todo'[i] = todo[i + 1] /\ i + 1 \in 1 .. Len(todo)
    BY TodoStep
  <1>5. flip = 0 /\ noise' = 1  BY <1>1, <1>3 DEF Bit
  <1>6. \A i \in 1 .. Len(todo') : todo'[i].dio = Float  BY <1>2, <1>4
  <1>7. todo[1].dio = Float  BY <1>2, <1>4
  <1>8. level = (IF plan # <<>> /\ plan[1] < Float THEN plan[1] ELSE 1)  BY <1>3, <1>5, <1>7 DEF Line
  <1>9. ASSUME UNCHANGED <<regs, sticky>>, Untuned' PROVE Sound /\ Unheard'
    <2>1. Sound  BY <1>9, SoundSame
    <2>2. QED  BY <1>1, <1>3, <1>5, <1>6, <1>9, <2>1 DEF Unheard
  <1>10. CASE Untuned
    <2>1. plan = <<>>  BY <1>10 DEF Untuned
    <2>2. level = 1  BY <1>8, <2>1
    <2>3. Untuned' /\ UNCHANGED <<regs, sticky>>  BY <1>3, <1>10, <2>2, StaysUntuned
    <2>4. QED  BY <1>9, <2>3
  <1>11. CASE ~Untuned
    <2>1. /\ \A i \in 1 .. Len(heard) : heard[i] = 1
          /\ \E ack \in Acks : \E m \in 0 .. PlanLen(ack) : Obeys(ack, m) /\ Len(plan) <= Len(todo)
      BY <1>11 DEF Unheard
    <2>2. PICK ack \in Acks : \E m \in 0 .. PlanLen(ack) : Obeys(ack, m) /\ Len(plan) <= Len(todo)  BY <2>1
    <2>3. PICK m \in 0 .. PlanLen(ack) : Obeys(ack, m) /\ Len(plan) <= Len(todo)  BY <2>2
    <2> DEFINE q == m + 1
    <2>4. PlanLen(ack) \in Nat /\ Len(plan) = PlanLen(ack) - m /\ Len(plan) \in Nat /\ mode = "sync"
      <3>1. /\ cfg.trn \in Nat /\ DataLen \in Nat /\ Len(plan) \in Nat  BY WidthFacts
      <3>2. RestLen(ack) \in {DataLen, cfg.trn}  BY DEF RestLen
      <3>3. PlanLen(ack) \in Nat  BY <3>1, <3>2 DEF PlanLen
      <3>4. QED  BY <2>3, <3>1, <3>3 DEF Obeys
    <2>5. q = m + 1 /\ q \in Nat /\ m \in Nat  BY <2>4
    <2>6. \A i \in 1 .. Len(plan) : plan[i] = PlanAt(ack, m + i)  BY <2>3 DEF Obeys
    <2>7. plan # <<>>
      <3>1. SUFFICES ASSUME plan = <<>> PROVE FALSE  OBVIOUS
      <3>2. Len(plan) = 0  BY <3>1, EmptySeq
      <3>3. m = PlanLen(ack)  BY <2>4, <2>5, <3>2
      <3>4. ~(ack = OK)  BY <2>3, <2>4, <2>5, <3>3 DEF Obeys
      <3>5. Len(heard) = 0  BY <2>3, <3>4 DEF Obeys, Received, Storing
      <3>6. heard = <<>>  BY <3>5, NothingHeard
      <3>7. Untuned  BY <3>1, <3>5, <3>6 DEF Untuned
      <3>8. QED  BY <1>11, <3>7
    <2>8. Len(plan) >= 1
      <3>1. Len(plan) # 0
        <4>1. plan \in Seq(0 .. 3)  BY DEF WireTypes
        <4>2. QED  BY <2>7, <4>1, EmptySeq, SeqEqual
      <3>2. QED  BY <2>4, <3>1
    <2>9. q <= PlanLen(ack) /\ q \in 1 .. PlanLen(ack)  BY <2>4, <2>5, <2>8
    <2> HIDE DEF q
    <2>10. plan[1] = PlanAt(ack, q)
      <3>1. 1 \in 1 .. Len(plan)  BY <2>4, <2>8
      <3>2. QED  BY <2>5, <2>6, <3>1
    <2>11. PlanAt(ack, q) = Sample <=> Storing(ack) /\ 2 * cfg.trn + 3 < q  BY <1>1, <2>9, PlanValue
    <2>12. CASE ones' = ResetOnes
      <3>1. mode' = "reset" /\ plan' = <<>> /\ UNCHANGED <<regs, sticky>>  BY <1>3, <2>12, LineReseen
      <3>2. Untuned'  BY <3>1 DEF Untuned
      <3>3. QED  BY <1>9, <3>1, <3>2
    <2>13. CASE ones' # ResetOnes /\ (ack = OK => q < PlanLen(ack))
      <3>1. /\ Obeys(ack, q)' /\ UNCHANGED <<regs, sticky>>
            /\ heard' = IF Storing(ack) /\ 2 * cfg.trn + 3 < q THEN Append(heard, level) ELSE heard
        <4>1. m + 1 <= PlanLen(ack) /\ (ack = OK => m + 1 < PlanLen(ack))  BY <2>5, <2>9, <2>13
        <4>2. /\ Obeys(ack, m + 1)' /\ UNCHANGED <<regs, sticky>>
              /\ heard' = IF Storing(ack) /\ 2 * cfg.trn + 3 < m + 1 THEN Append(heard, level) ELSE heard
          BY <1>1, <1>3, <2>3, <2>13, <4>1, StaysObeying
        <4>3. QED  BY <2>5, <4>2
      <3>2. \A i \in 1 .. Len(heard') : heard'[i] = 1
        <4>1. CASE Storing(ack) /\ 2 * cfg.trn + 3 < q
          <5>1. plan[1] = Sample  BY <2>10, <2>11, <4>1
          <5>2. level = 1  BY <1>8, <5>1 DEF Sample, Float
          <5>3. heard' = Append(heard, 1)  BY <3>1, <4>1, <5>2
          <5>4. heard \in Seq(Bit) /\ Len(heard) \in Nat /\ 1 \in Bit  BY LenProperties DEF WireTypes, Bit
          <5>5. /\ Len(heard') = Len(heard) + 1 /\ heard'[Len(heard) + 1] = 1
                /\ \A i \in 1 .. Len(heard) : heard'[i] = heard[i]
            BY <5>3, <5>4, AppendProperties
          <5>6. QED  BY <2>1, <5>4, <5>5
        <4>2. CASE ~(Storing(ack) /\ 2 * cfg.trn + 3 < q)
          <5>1. heard' = heard  BY <3>1, <4>2
          <5>2. QED  BY <2>1, <5>1
        <4>3. QED  BY <4>1, <4>2
      <3>3. PlanLen(ack)' = PlanLen(ack)  BY <1>3 DEF PlanLen, RestLen, DataLen
      <3>4. q \in 0 .. PlanLen(ack)'  BY <2>4, <2>5, <2>9, <3>3
      <3>5. Len(plan') <= Len(todo')
        <4>1. Len(plan') = PlanLen(ack) - q  BY <3>1, <3>3 DEF Obeys
        <4>2. Len(plan) <= Len(todo)  BY <2>3
        <4>3. Len(todo) \in Nat /\ Len(todo') = Len(todo) - 1  BY <1>4
        <4>4. QED  BY ONLY <2>4, <2>5, <4>1, <4>2, <4>3
      <3>6. Sound  BY <3>1, SoundSame
      <3>7. QED  BY <1>1, <1>3, <1>5, <1>6, <3>1, <3>2, <3>4, <3>5, <3>6 DEF Unheard
    <2>14. CASE ones' # ResetOnes /\ ack = OK /\ q = PlanLen(ack)
      <3>1. Len(plan) = 1  BY <2>4, <2>5, <2>14
      <3>a. plan \in Seq(0 .. 3)  BY DEF WireTypes
      <3>2. Tail(plan) = <<>>
        <4>2. Tail(plan) \in Seq(0 .. 3) /\ Len(Tail(plan)) = Len(plan) - 1  BY <2>7, <3>a, TailOf
        <4>3. Len(Tail(plan)) = 0  BY <3>1, <4>2
        <4>4. QED  BY <4>2, <4>3, EmptySeq, SeqEqual
      <3>3. CASE ~Storing(ack)
        <4>1. plan[1] # Sample  BY <2>10, <2>11, <3>3
        <4>2. plan' = Tail(plan) /\ UNCHANGED <<mode, heard, want, sticky, regs>>
          BY <1>3, <2>4, <2>7, <2>14, <4>1, Passes
        <4>3. Len(heard) = 0  BY <2>3, <3>3 DEF Obeys, Received
        <4>4. heard = <<>>  BY <4>3, NothingHeard
        <4>5. Untuned'  BY <3>2, <4>2, <4>3, <4>4 DEF Untuned
        <4>6. QED  BY <1>9, <4>2, <4>5
      <3>4. CASE Storing(ack)
        <4>a. /\ cfg.trn \in Nat /\ DataLen \in Nat /\ Bits \in Nat /\ DataLen = Bits + 1 + cfg.trn /\ cfg.trn >= 1  BY WidthFacts
        <4>b. PlanLen(ack) = cfg.trn + 3 + DataLen  BY <2>14 DEF PlanLen, RestLen
        <4>1. 2 * cfg.trn + 3 < q /\ m > 2 * cfg.trn + 3 /\ m - (2 * cfg.trn + 3) = Bits
          <5>0. Bits >= 2  BY WidthFacts
          <5>1. q = PlanLen(ack)  BY <2>14
          <5>2. QED  BY ONLY <2>5, <4>a, <4>b, <5>0, <5>1
        <4>2. plan[1] = Sample  BY <2>10, <2>11, <3>4, <4>1
        <4>3. level = 1  BY <1>8, <4>2 DEF Sample, Float
        <4>4. plan' = Tail(plan) /\ UNCHANGED mode /\ heard' = <<>> /\ Store(Append(heard, level))
          <5>1. ~(Len(plan) > 1)  BY <3>1
          <5>2. QED  BY <1>3, <2>4, <2>7, <2>14, <4>2, <5>1, Samples
        <4>5. Len(heard) = Bits
          <5>1. Len(heard) = Received(ack, m)  BY <2>3 DEF Obeys
          <5>2. Received(ack, m) = m - (2 * cfg.trn + 3)  BY <3>4, <4>1 DEF Received
          <5>3. QED  BY <4>1, <5>1, <5>2
        <4> DEFINE h == Append(heard, level)
                   w == SubSeq(h, 1, Bits)
        <4>6. h \in Seq(Bit) /\ Len(h) = Bits + 1 /\ h[Bits + 1] = 1 /\ \A i \in 1 .. Bits : h[i] = 1
          <5>1. heard \in Seq(Bit)  BY DEF WireTypes
          <5>2. h \in Seq(Bit) /\ Len(h) = Len(heard) + 1 /\ h[Len(heard) + 1] = level
                /\ \A i \in 1 .. Len(heard) : h[i] = heard[i]
            BY <1>3, <5>1, AppendProperties
          <5> HIDE DEF h
          <5>3. QED  BY <2>1, <4>3, <4>5, <5>2
        <4>7. Store(h)  BY <4>4
        <4> HIDE DEF h
        <4>8. w \in Word /\ \A i \in 1 .. Bits : w[i] = 1  BY <4>6, WordPart
        <4>9. Parity(w) = 0
          <5> HIDE DEF w
          <5>1. QED  BY <4>8, ParityOnes
        <4>10. sticky' = TRUE /\ UNCHANGED regs  BY <4>6, <4>7, <4>9 DEF Store
        <4>11. Sound
          <5>1. asked' = asked  BY DEF Ticks
          <5>2. QED  BY <4>10, <5>1 DEF Sound, WireTypes, Commanded
        <4>12. Untuned'
          <5>1. plan' = <<>> /\ heard' = <<>>  BY <3>2, <4>4
          <5>2. Len(heard') = 0  BY <5>1, EmptySeq
          <5>3. QED  BY <5>1, <5>2 DEF Untuned
        <4>13. QED  BY <1>1, <1>3, <1>5, <1>6, <4>11, <4>12 DEF Unheard
      <3>5. QED  BY <3>3, <3>4
    <2>15. QED  BY <2>4, <2>5, <2>9, <2>12, <2>13, <2>14
  <1>12. QED  BY <1>10, <1>11

(* The last clock of a word: the target stores what it heard.              *)
LEMMA WordStored ==
  ASSUME WireTypes, Commanded, NEW flip, NEW level, Ticks(flip, level), step = "data", cmd.rnw = 0,
         want = cmd.at, NEW h \in Seq(Bit), Len(h) = Bits + 1, Like(h, WithParity(cmd.word), Bits + 1, noise'), Store(h)
  PROVE  Sound /\ (regs[cmd.at] = cmd.word \/ sticky)'
  <1>1. cmd \in Transfers /\ cmd.word \in asked[cmd.at]  BY DEF Commanded
  <1>2. cmd.at \in Addrs /\ cmd.word \in Word  BY <1>1, RequestBits
  <1>3. cmd' = cmd /\ asked' = asked  BY DEF Ticks
  <1> DEFINE w == SubSeq(h, 1, Bits)
  <1>4. w \in Word /\ (Parity(w) = h[Bits + 1] => w = cmd.word)  BY <1>2, WordIntact
  <1>5. CASE Parity(w) = h[Bits + 1]
    <2>1. regs' = [regs EXCEPT ![cmd.at] = w] /\ UNCHANGED sticky  BY <1>5 DEF Store
    <2>2. w = cmd.word  BY <1>4, <1>5
    <2> HIDE DEF w
    <2>3. regs \in [Addrs -> Word] /\ sticky \in BOOLEAN  BY DEF WireTypes
    <2>4. regs' \in [Addrs -> Word] /\ regs'[cmd.at] = cmd.word  BY <1>2, <1>4, <2>1, <2>2, <2>3
    <2>5. ASSUME NEW a \in Addrs PROVE regs'[a] \in asked'[a]
      <3>1. regs[a] \in asked[a]  BY DEF Commanded
      <3>2. regs'[a] = IF a = cmd.at THEN cmd.word ELSE regs[a]  BY <1>2, <2>1, <2>2, <2>3
      <3>3. QED  BY <1>1, <1>3, <3>1, <3>2
    <2>6. QED  BY <1>3, <2>1, <2>3, <2>4, <2>5 DEF Sound
  <1>6. CASE Parity(w) # h[Bits + 1]
    <2>1. sticky' = TRUE /\ UNCHANGED regs  BY <1>6 DEF Store
    <2>2. QED  BY <1>3, <2>1 DEF Sound, WireTypes, Commanded
  <1>7. QED  BY <1>5, <1>6

(* A clock of the data phase of a write.                                   *)
LEMMA WritingClock ==
  ASSUME WireTypes, Commanded, NEW flip, NEW level, Ticks(flip, level), Writing, ~slipped'
  PROVE  Sound /\ Writing'
  <1>1. step = "data" /\ cmd.rnw = 0 /\ seen = <<>> /\ cmd \in Transfers  BY DEF Writing, Commanded
  <1>2. PICK k \in 0 .. DataLen + cfg.idle :
       /\ WriteAhead(k)
       /\ IF k < DataLen THEN /\ Obeys(OK, cfg.trn + 3 + k) /\ ones <= k
                              /\ Like(heard, WithParity(cmd.word), Len(heard), noise)
          ELSE Hearing /\ Waiting /\ (todo # <<>> => heard = <<>>) /\ ones <= DataLen + 1
               /\ (heard = <<>> => ones <= DataLen) /\ (regs[cmd.at] = cmd.word \/ sticky)
    BY DEF Writing
  <1>3. /\ cfg.trn \in Nat /\ cfg.trn >= 1 /\ Bits \in Nat /\ ResetOnes \in Nat /\ ResetOnes > Bits + 8 + cfg.trn
        /\ ones \in Nat /\ noise \in Bit /\ DataLen = Bits + 1 + cfg.trn /\ DataLen \in Nat /\ cfg.idle \in Nat
        /\ k \in Nat
    BY WidthFacts, <1>2
  <1> DEFINE n == k + 1
             f == WithParity(cmd.word)
  <1>4. n = k + 1 /\ n \in Nat  BY <1>3
  <1>5. /\ flip \in Bit /\ level \in Bit /\ level = (IF flip = 0 THEN Line ELSE 1 - Line) /\ Follow(level)
        /\ noise' = noise + flip /\ noise' \in Bit /\ step' = step /\ cmd' = cmd /\ cfg' = cfg
        /\ seen' = (IF todo[1].look THEN Append(seen, level) ELSE seen) /\ todo # <<>>
    BY DEF Ticks
  <1>6. /\ k \in 0 .. DataLen + cfg.idle - 1 /\ k + 1 \in 0 .. DataLen + cfg.idle /\ WriteAhead(k + 1)'
        /\ todo[1].dio = WriteAt(k + 1) /\ ~todo[1].look
    BY <1>2, WriteStep
  <1>7. n \in 0 .. DataLen + cfg.idle /\ WriteAhead(n)' /\ todo[1].dio = WriteAt(n) /\ seen' = <<>>
    BY <1>1, <1>5, <1>6
  <1>8. cmd.word \in Word  BY <1>1, RequestBits
  <1>9. \A i \in 1 .. Bits + 1 : f[i] \in Bit
    <2>1. f \in Seq(Bit) /\ Len(f) = Bits + 1  BY <1>8, WordList
    <2>2. QED  BY <2>1
  <1>10. noise = 1 => noise' = 1  BY <1>3, <1>5 DEF Bit
  <1>11. heard \in Seq(Bit) /\ Len(heard) \in Nat  BY LenProperties DEF WireTypes
  <1>12. ones' \in 0 .. ResetOnes /\ ones' <= ones + 1  BY <1>5, Counts
  <1> HIDE DEF f, n
  <1>13. f = WithParity(cmd.word)' /\ DataLen' = DataLen  BY <1>5 DEF f, WithParity, DataLen
  <1>14. n \in 0 .. (DataLen + cfg.idle)'  BY <1>5, <1>7, <1>13
  <1>b. cfg.trn \in Nat /\ DataLen \in Nat /\ k \in Nat /\ Bits \in Nat  BY <1>3
  <1>15. CASE k < DataLen
    <2>a. PICK m \in Nat : m = cfg.trn + 3 + k  BY <1>3
    <2> DEFINE q == m + 1
    <2>c. m = cfg.trn + 3 + k  BY <2>a
    <2>d. q = cfg.trn + 3 + n /\ q = m + 1 /\ q \in Nat  BY <1>3, <1>4, <2>a
    <2>2. Obeys(OK, m) /\ ones <= k /\ Like(heard, f, Len(heard), noise)  BY <1>2, <1>15, <2>a DEF f
    <2>3. PlanLen(OK) = cfg.trn + 3 + DataLen /\ Storing(OK) /\ OK \in Acks
      BY <1>1 DEF PlanLen, RestLen, Storing, Acks
    <2>f. PlanLen(OK) = cfg.trn + 3 + DataLen  BY <2>3
    <2>4. n <= DataLen  BY <1>3, <1>4, <1>15
    <2> HIDE DEF q
    <2>5. q \in 1 .. PlanLen(OK)  BY ONLY <1>b, <1>4, <2>d, <2>f, <2>4
    <2>6. Len(plan) = PlanLen(OK) - m /\ (\A i \in 1 .. Len(plan) : plan[i] = PlanAt(OK, m + i)) /\ mode = "sync"
      BY <2>2 DEF Obeys
    <2>7. Len(plan) = DataLen + 1 - n
      <3>1. Len(plan) = cfg.trn + 3 + DataLen - m  BY <1>b, <2>f, <2>6
      <3>2. QED  BY ONLY SMTT(30), <1>b, <1>4, <2>c, <3>1
    <2>8. plan # <<>> /\ plan[1] = PlanAt(OK, q)
      <3>1. 1 \in 1 .. Len(plan)  BY <1>3, <1>4, <2>4, <2>7
      <3>2. plan # <<>>  BY <3>1, EmptySeq
      <3>3. QED  BY <2>d, <2>6, <3>1, <3>2
    <2>9. plan[1] = Sample <=> 2 * cfg.trn + 3 < q  BY <1>1, <2>3, <2>5, <2>8, PlanValue
    <2>10. ones' <= n /\ ones' # ResetOnes
      <3>1. ones' <= n  BY <1>3, <1>4, <1>12, <2>2
      <3>2. QED  BY <1>3, <1>4, <1>12, <2>4, <3>1
    <2>11. Len(heard) = IF k > cfg.trn THEN k - cfg.trn ELSE 0
      <3>1. Len(heard) = Received(OK, m)  BY <2>2 DEF Obeys
      <3>2. CASE k > cfg.trn
        <4>1. m > 2 * cfg.trn + 3 /\ m - (2 * cfg.trn + 3) = k - cfg.trn  BY ONLY <1>b, <2>c, <3>2
        <4>2. QED  BY <2>3, <3>1, <3>2, <4>1 DEF Received
      <3>3. CASE ~(k > cfg.trn)
        <4>1. ~(m > 2 * cfg.trn + 3)  BY ONLY <1>b, <2>c, <3>3
        <4>2. QED  BY <2>3, <3>1, <3>3, <4>1 DEF Received
      <3>4. QED  BY <3>2, <3>3
    <2>12. ASSUME n > cfg.trn
           PROVE  /\ Len(heard) + 1 = n - cfg.trn
                  /\ Append(heard, level) \in Seq(Bit) /\ Len(Append(heard, level)) = n - cfg.trn
                  /\ Like(Append(heard, level), f, n - cfg.trn, noise')
      <3>1. Len(heard) = k - cfg.trn
        <4>1. ~(k > cfg.trn) => k - cfg.trn = 0  BY <1>b, <1>4, <2>12
        <4>2. QED  BY <2>11, <4>1
      <3>2. Len(heard) + 1 = n - cfg.trn /\ n - cfg.trn \in 1 .. Bits + 1
        <4>1. DataLen = Bits + 1 + cfg.trn  BY <1>3
        <4>2. QED  BY ONLY SMTT(30), <1>b, <1>4, <2>4, <2>12, <3>1, <4>1
      <3>3. todo[1].dio = f[n - cfg.trn]
        <4>1. ~(n <= cfg.trn)  BY <1>b, <1>4, <2>12
        <4>2. WriteAt(n) = f[n - cfg.trn]  BY <2>4, <4>1 DEF WriteAt, f
        <4>3. QED  BY <1>7, <4>2
      <3>4. f[Len(heard) + 1] \in Bit /\ Line = f[Len(heard) + 1]
        <4>1. f[n - cfg.trn] \in Bit  BY <1>9, <3>2
        <4>2. Line = f[n - cfg.trn]  BY <3>3, <4>1 DEF Line, Bit, Float
        <4>3. QED  BY <3>2, <4>1, <4>2
      <3>5. level = IF flip = 0 THEN f[Len(heard) + 1] ELSE 1 - f[Len(heard) + 1]  BY <1>5, <3>4
      <3>6. noise + flip <= 1  BY <1>5 DEF Bit
      <3>7. Like(Append(heard, level), f, Len(heard) + 1, noise + flip)
        BY <1>3, <1>5, <1>11, <2>2, <3>4, <3>5, <3>6, LikeAppend
      <3>8. Append(heard, level) \in Seq(Bit) /\ Len(Append(heard, level)) = Len(heard) + 1
        BY <1>5, <1>11, AppendProperties
      <3>9. QED  BY <1>5, <3>2, <3>7, <3>8
    <2>13. CASE n < DataLen
      <3>1. q <= PlanLen(OK) /\ q < PlanLen(OK)  BY ONLY <1>b, <1>4, <2>d, <2>f, <2>13
      <3>a. UNCHANGED <<cfg, cmd>> /\ level \in Bit /\ Follow(level)  BY <1>5
      <3>b. m + 1 <= PlanLen(OK) /\ (OK = OK => m + 1 < PlanLen(OK))  BY <2>d, <3>1
      <3>2. /\ Obeys(OK, q)' /\ UNCHANGED <<regs, sticky>>
            /\ heard' = IF Storing(OK) /\ 2 * cfg.trn + 3 < q THEN Append(heard, level) ELSE heard
        <4>1. /\ Obeys(OK, m + 1)' /\ UNCHANGED <<regs, sticky>>
              /\ heard' = IF Storing(OK) /\ 2 * cfg.trn + 3 < m + 1 THEN Append(heard, level) ELSE heard
          BY <1>1, <2>2, <2>3, <2>10, <3>a, <3>b, StaysObeying
        <4>2. QED  BY <2>d, <4>1
      <3>3. Obeys(OK, cfg.trn + 3 + n)'
        <4>1. q = cfg.trn + 3 + n  BY <2>d
        <4>2. cfg' = cfg  BY <1>5
        <4>3. QED  BY <3>2, <4>1, <4>2
      <3>4. Like(heard', f, Len(heard'), noise')
        <4>1. CASE n > cfg.trn
          <5>1. 2 * cfg.trn + 3 < q  BY ONLY <1>b, <1>4, <2>d, <4>1
          <5>2. heard' = Append(heard, level)  BY <2>3, <3>2, <5>1
          <5>3. QED  BY <2>12, <4>1, <5>2
        <4>2. CASE ~(n > cfg.trn)
          <5>1. ~(2 * cfg.trn + 3 < q)  BY ONLY <1>b, <1>4, <2>d, <4>2
          <5>2. heard' = heard  BY <3>2, <5>1
          <5>3. Like(heard, f, Len(heard), noise)  BY <2>2
          <5>4. QED  BY <1>10, <5>2, <5>3, LikeOn
        <4>3. QED  BY <4>1, <4>2
      <3>5. Sound  BY <3>2, SoundSame
      <3>6. Like(heard, WithParity(cmd.word), Len(heard), noise)'  BY <1>13, <3>4
      <3>7. (n < DataLen)' /\ (ones <= n)'  BY <1>13, <2>10, <2>13
      <3>8. QED  BY <1>1, <1>5, <1>7, <1>14, <3>3, <3>5, <3>6, <3>7 DEF Writing
    <2>14. CASE n = DataLen
      <3>1. Len(plan) = 1  BY <1>3, <2>7, <2>14
      <3>2. n > cfg.trn /\ 2 * cfg.trn + 3 < q /\ n - cfg.trn = Bits + 1
        <4>1. DataLen = Bits + 1 + cfg.trn  BY <1>3
        <4>2. QED  BY ONLY <1>b, <1>4, <2>d, <2>14, <4>1
      <3>3. plan[1] = Sample  BY <2>9, <3>2
      <3>4. plan' = Tail(plan) /\ UNCHANGED mode /\ heard' = <<>> /\ Store(Append(heard, level))
        <4>1. ~(Len(plan) > 1)  BY <3>1
        <4>2. QED  BY <1>5, <2>6, <2>8, <2>10, <3>3, <4>1, Samples
      <3>5. plan' = <<>>
        <4>1. plan \in Seq(0 .. 3)  BY DEF WireTypes
        <4>2. Tail(plan) \in Seq(0 .. 3) /\ Len(Tail(plan)) = 0
          <5>1. Tail(plan) \in Seq(0 .. 3) /\ Len(Tail(plan)) = Len(plan) - 1  BY <2>8, <4>1, TailOf
          <5>2. QED  BY <3>1, <5>1
        <4>3. QED  BY <3>4, <4>2, EmptySeq, SeqEqual
      <3> DEFINE h == Append(heard, level)
      <3>6. h \in Seq(Bit) /\ Len(h) = Bits + 1 /\ Like(h, f, Bits + 1, noise')  BY <2>12, <3>2
      <3>7. Store(h)  BY <3>4
      <3> HIDE DEF h
      <3>8. want = cmd.at  BY <2>2, <2>3 DEF Obeys
      <3>9. Sound /\ (regs[cmd.at] = cmd.word \/ sticky)'  BY <1>1, <3>6, <3>7, <3>8, WordStored DEF f
      <3>10. Hearing' /\ Waiting' /\ heard' = <<>>  BY <2>6, <3>4, <3>5 DEF Hearing, Waiting
      <3>11. ~(n < DataLen')  BY <1>3, <1>4, <1>13, <2>14
      <3>12. (ones <= DataLen + 1)' /\ (ones <= DataLen)'  BY <1>3, <1>12, <1>13, <2>10, <2>14
      <3>13. QED  BY <1>1, <1>5, <1>7, <1>14, <3>9, <3>10, <3>11, <3>12 DEF Writing
    <2>15. QED  BY <1>3, <1>4, <2>4, <2>13, <2>14
  <1>16. CASE ~(k < DataLen)
    <2>1. Hearing /\ heard = <<>> /\ ones <= DataLen /\ (regs[cmd.at] = cmd.word \/ sticky)  BY <1>2, <1>5, <1>16
    <2>2. n > DataLen /\ n > cfg.trn  BY <1>3, <1>4, <1>16
    <2>3. todo[1].dio = 0
      <3>1. ~(n <= DataLen) /\ ~(n <= cfg.trn)  BY <1>3, <1>4, <2>2
      <3>2. QED  BY <1>7, <3>1 DEF WriteAt
    <2>4. ones + 1 < ResetOnes  BY SMTT(30), <1>3, <2>1
    <2>5. /\ UNCHANGED <<regs, sticky>> /\ Hearing' /\ Waiting' /\ (todo' # <<>> => heard' = <<>>)
          /\ ones' <= ones + 1 /\ (heard' = <<>> => ones' = 0)
      BY <1>1, <2>1, <2>3, <2>4, IdleClock
    <2>6. (ones <= DataLen + 1)' /\ (heard = <<>> => ones <= DataLen)'
      <3>1. ones' <= DataLen + 1  BY <1>3, <1>12, <2>1, <2>5
      <3>2. 0 <= DataLen  BY <1>b
      <3>3. QED  BY <1>13, <2>5, <3>1, <3>2
    <2>7. (regs[cmd.at] = cmd.word \/ sticky)'  BY <1>5, <2>1, <2>5
    <2>8. Sound  BY <2>5, SoundSame
    <2>9. ~(n < DataLen')  BY <1>3, <1>4, <1>13, <2>2
    <2>10. QED  BY <1>1, <1>5, <1>7, <1>14, <2>5, <2>6, <2>7, <2>8, <2>9 DEF Writing
  <1>17. QED  BY <1>15, <1>16

-----------------------------------------------------------------------------
(* What the host and the probe do between clocks.                          *)
Phases == AtRest \/ Resetting \/ Requesting \/ Reading \/ Writing \/ Refused \/ Unheard

LEMMA SameTypes ==
  ASSUME WireTypes, UNCHANGED <<cfg, swdp, regs>>, todo' \in Seq(Clocks), seen' \in Seq(Bit), noise' \in Bit,
         ready' \in BOOLEAN, asked' \in [Addrs -> SUBSET Word], step' \in {"none", "ack", "data", "refused", "unheard"}
  PROVE  WireTypes'
  BY DEF WireTypes, swdp

LEMMA NoBits == <<>> \in Seq(Bit) /\ Len(<<>>) = 0 /\ <<>> \in Seq(Clocks)
  BY EmptySeq

(* With nothing under way the target waits, or has been given up.          *)
LEMMA Resting ==
  ASSUME WireTypes, Phases, Quiet
  PROVE  AtRest /\ Untuned
  <1>1. todo = <<>> /\ step = "none" /\ Len(todo) = 0  BY EmptySeq DEF Quiet
  <1>2. ~Resetting
    <2>1. SUFFICES ASSUME NEW k \in 0 .. ResetOnes + 1, LineAhead(k) PROVE FALSE  BY DEF Resetting
    <2>2. ResetOnes \in Nat /\ Len(todo) = ResetOnes + 2 - k  BY <2>1, WidthFacts DEF LineAhead
    <2>3. QED  BY <1>1, <2>2
  <1>3. AtRest  BY <1>1, <1>2 DEF Phases, Requesting, Reading, Writing, Refused, Unheard
  <1>4. CASE ready
    <2>1. plan = <<>> /\ (heard = <<>> \/ heard = <<1>>)  BY <1>3, <1>4 DEF AtRest, Hearing, Waiting
    <2>2. Len(heard) <= 7 /\ (heard = <<>> \/ heard[Len(heard)] = 1)
      <3>1. CASE heard = <<>>  BY <3>1, EmptySeq
      <3>2. CASE heard = <<1>>  BY <3>2
      <3>3. QED  BY <2>1, <3>1, <3>2
    <2>3. QED  BY <1>3, <2>1, <2>2 DEF Untuned
  <1>5. CASE ~ready  BY <1>3, <1>5 DEF AtRest
  <1>6. QED  BY <1>4, <1>5

LEMMA ConnectStep ==
  ASSUME WireInv, Connect
  PROVE  WireInv'
  <1>1. WireTypes /\ Commanded /\ Phases  BY DEF WireInv, Phases
  <1>2. cfg.port = "Swd"  BY <1>1 DEF WireTypes
  <1>3. /\ Quiet /\ todo' = <<>> /\ step' = "none" /\ seen' = <<>> /\ UNCHANGED <<cfg, swdp, regs, slipped>>
        /\ ready' = FALSE /\ result' = NoResult /\ UNCHANGED <<asked, noise>>
    BY <1>2 DEF Connect, Command
  <1>4. Untuned  BY <1>1, <1>3, Resting
  <1>5. WireTypes'
    <2>1. noise' \in Bit /\ asked' \in [Addrs -> SUBSET Word]  BY <1>1, <1>3 DEF WireTypes
    <2>2. QED  BY <1>1, <1>3, <2>1, NoBits, SameTypes
  <1>6. Untuned'  BY <1>3, <1>4 DEF Untuned, swdp
  <1>7. Commanded'  BY <1>1, <1>3 DEF Commanded
  <1>8. AtRest'  BY <1>3, <1>6 DEF AtRest, NoResult
  <1>9. QED  BY <1>5, <1>7, <1>8 DEF WireInv

LEMMA LineResetStep ==
  ASSUME WireInv, LineReset
  PROVE  WireInv'
  <1>1. WireTypes /\ Commanded /\ Phases  BY DEF WireInv, Phases
  <1>2. /\ Quiet /\ todo' = PutAll(Repeat(ResetOnes, 1) \o <<0, 0>>) /\ step' = "none" /\ seen' = <<>>
        /\ UNCHANGED <<cfg, swdp, regs, slipped>>
        /\ ready' = TRUE /\ result' = NoResult /\ noise' = 0 /\ UNCHANGED <<asked>>
    BY DEF LineReset, Command, SwjSequence, SwdSequence
  <1>3. Untuned  BY <1>1, <1>2, Resting
  <1>4. IsList(todo', ResetOnes + 2)
        /\ \A i \in 1 .. ResetOnes + 2 : todo'[i].dio = (IF i <= ResetOnes THEN 1 ELSE 0) /\ ~todo'[i].look
    BY <1>2, LineShape
  <1>5. todo' \in Seq(Clocks) /\ Len(todo') = ResetOnes + 2  BY <1>4 DEF IsList
  <1>6. WireTypes'
    <2>1. noise' \in Bit /\ asked' \in [Addrs -> SUBSET Word]  BY <1>1, <1>2 DEF WireTypes, Bit
    <2>2. QED  BY <1>1, <1>2, <1>5, <2>1, NoBits, SameTypes
  <1>7. Untuned'  BY <1>2, <1>3 DEF Untuned, swdp
  <1>8. Commanded'  BY <1>1, <1>2 DEF Commanded
  <1>9. ResetOnes \in Nat /\ ResetOnes > 0 /\ ones \in Nat
    <2>1. Bits \in Nat /\ cfg.trn \in Nat /\ ResetOnes \in Nat /\ ResetOnes > Bits + 8 + cfg.trn /\ ones \in Nat
      BY <1>1, WidthFacts
    <2>2. QED  BY <2>1
  <1> DEFINE z == 0
  <1>10. z = 0 /\ z \in 0 .. ResetOnes + 1 /\ z \in 0 .. ResetOnes + 2 /\ ~(z > ResetOnes) /\ z # ResetOnes
    BY <1>9
  <1> HIDE DEF z
  <1>11. LineAhead(z)'
    <2>1. Len(todo') = ResetOnes + 2 - z  BY <1>5, <1>9, <1>10
    <2>2. \A i \in 1 .. Len(todo') : todo'[i].dio = (IF z + i <= ResetOnes THEN 1 ELSE 0) /\ ~todo'[i].look
      <3>1. \A i \in 1 .. Len(todo') : z + i = i  BY <1>5, <1>9, <1>10
      <3>2. QED  BY <1>4, <1>5, <3>1
    <2>3. QED  BY <1>10, <2>1, <2>2 DEF LineAhead
  <1>12. plan' = <<>> /\ ones' >= z
    <2>1. ones' = ones  BY <1>2 DEF swdp
    <2>2. QED  BY <1>7, <1>9, <1>10, <2>1 DEF Untuned
  <1>13. Resetting'  BY <1>2, <1>7, <1>10, <1>11, <1>12 DEF Resetting
  <1>14. QED  BY <1>6, <1>8, <1>13 DEF WireInv

LEMMA TransferStep ==
  ASSUME WireInv, Transfer
  PROVE  WireInv'
  <1>1. WireTypes /\ Commanded /\ Phases  BY DEF WireInv, Phases
  <1>2. cfg.port = "Swd" /\ DOMAIN regs = Addrs  BY <1>1 DEF WireTypes
  <1>3. PICK rnw \in {0, 1}, at \in Addrs, w \in Words :
          LET c == [rnw |-> rnw, at |-> at, word |-> w] IN
          /\ cmd' = c /\ asked' = IF rnw = 1 THEN asked ELSE [asked EXCEPT ![at] = @ \cup {w}]
          /\ Command(Ask(c), "ack")
    BY <1>2 DEF Transfer
  <1> DEFINE c == [rnw |-> rnw, at |-> at, word |-> w]
  <1>4. c \in Transfers /\ c.rnw = rnw /\ c.at = at /\ c.word = w /\ w \in Word
    BY WiresAssumption DEF Transfers, Bit
  <1>5. /\ Quiet /\ todo' = Ask(c) /\ step' = "ack" /\ seen' = <<>> /\ UNCHANGED <<cfg, swdp, regs, slipped>>
        /\ ready /\ ready' = ready /\ result' = NoResult /\ cmd' = c /\ noise' = noise
    BY <1>3 DEF Transfer, Command
  <1>6. asked' = IF rnw = 1 THEN asked ELSE [asked EXCEPT ![at] = @ \cup {w}]  BY <1>3
  <1> HIDE DEF c
  <1>7. asked \in [Addrs -> SUBSET Word]  BY <1>1 DEF WireTypes
  <1>8. asked' \in [Addrs -> SUBSET Word] /\ \A a \in Addrs : asked[a] \subseteq asked'[a]
    BY <1>4, <1>6, <1>7
  <1>9. rnw = 0 => w \in asked'[at]  BY <1>6, <1>7
  <1>10. cfg.trn \in Nat /\ Bits \in Nat /\ ones \in Nat /\ cfg' = cfg /\ cfg.trn >= 1
    BY <1>1, <1>5, WidthFacts
  <1>11. AskLen' = 11 + cfg.trn + (IF cfg.link = "pio" /\ c.rnw = 0 THEN cfg.trn ELSE 0)
    BY <1>5 DEF AskLen
  <1> DEFINE n == 11 + cfg.trn + (IF cfg.link = "pio" /\ c.rnw = 0 THEN cfg.trn ELSE 0)
  <1>12. n \in Nat /\ AskLen' = n
    <2>1. 11 + cfg.trn \in Nat /\ 11 + cfg.trn + cfg.trn \in Nat /\ 11 + cfg.trn + 0 \in Nat  BY <1>10
    <2>2. QED  BY <1>11, <2>1
  <1>13. /\ IsList(Ask(c), n)
         /\ \A i \in 1 .. n :
              /\ Ask(c)[i].dio = IF i <= 8 THEN Bits8(c)[i] ELSE Float
              /\ Ask(c)[i].look <=> (8 + cfg.trn < i /\ i <= 11 + cfg.trn)
    BY <1>4, <1>10, AskShape
  <1> HIDE DEF n
  <1>14. todo' \in Seq(Clocks) /\ Len(todo') = n  BY <1>5, <1>13 DEF IsList
  <1>15. WireTypes'
    <2>1. noise' \in Bit /\ ready' \in BOOLEAN  BY <1>1, <1>5 DEF WireTypes
    <2>2. QED  BY <1>1, <1>5, <1>8, <1>14, <2>1, NoBits, SameTypes
  <1>16. Commanded'  BY <1>1, <1>4, <1>5, <1>8, <1>9 DEF Commanded
  <1> DEFINE z == 0
  <1>17. z = 0 /\ z \in Nat /\ z \in 0 .. n /\ n - z = n  BY <1>12
  <1> HIDE DEF z
  <1>18. AskAhead(z)'
    <2>1. \A i \in 1 .. Len(todo') : z + i = i /\ i \in 1 .. n  BY <1>14, <1>17
    <2>2. Bits8(cmd)' = Bits8(c)  BY <1>5 DEF Bits8
    <2>3. ASSUME NEW i \in 1 .. Len(todo')
          PROVE  /\ todo'[i].dio = IF z + i <= 8 THEN Bits8(c)[z + i] ELSE Float
                 /\ (todo'[i].look <=> 8 + cfg.trn < z + i /\ z + i <= 11 + cfg.trn)
      BY <1>5, <1>13, <2>1
    <2>4. Len(todo') = AskLen' - z /\ z \in 0 .. AskLen'  BY <1>12, <1>14, <1>17
    <2>5. QED  BY <1>10, <2>2, <2>3, <2>4 DEF AskAhead
  <1>19. AtRest  BY <1>1, <1>5, Resting
  <1>20. Hearing' /\ Waiting' /\ (ones <= cfg.trn + Bits + 2)'
    <2>1. Hearing /\ Waiting /\ ones <= cfg.trn + Bits + 2  BY <1>5, <1>19 DEF AtRest
    <2>2. QED  BY <1>5, <2>1 DEF Hearing, Waiting, swdp
  <1>21. (ones <= cfg.trn + Bits + 2 + z)'
    <2>1. cfg.trn + Bits + 2 + z = cfg.trn + Bits + 2  BY <1>10, <1>17
    <2>2. QED  BY <1>10, <1>20, <2>1
  <1>22. Hears(z)' \/ Early(z)'
    <2>1. CASE heard' = <<>>
      <3>1. Len(heard') = z /\ ~(z > 0) /\ z # 7  BY <1>17, <2>1, EmptySeq
      <3>2. Like(heard, Bits8(cmd), z, noise)'
        <4>1. \A i \in 1 .. z : heard'[i] = (Bits8(cmd)')[i]  BY <1>17
        <4>2. QED  BY <4>1 DEF Like, Agree
      <3>3. QED  BY <3>1, <3>2 DEF Hears
    <2>2. CASE heard' = <<1>> /\ noise' = 1
      <3>1. Len(heard') = z + 1 /\ z <= 6  BY <1>17, <2>2
      <3>2. \A i \in 1 .. z : (heard'[i + 1] = Bits8(cmd)'[i])  BY <1>17
      <3>3. QED  BY <2>2, <3>1, <3>2 DEF Early
    <2>3. QED  BY <1>20, <2>1, <2>2 DEF Waiting
  <1>23. Len(seen') = Heard(z)'
    <2>1. Heard(z)' = 0
      <3>1. z <= 8 + cfg.trn'  BY <1>10, <1>17
      <3>2. QED  BY <3>1 DEF Heard
    <2>2. QED  BY <1>5, <2>1, NoBits
  <1>24. z <= 7 /\ z \in 0 .. AskLen'  BY <1>12, <1>17
  <1>25. Requesting'  BY <1>5, <1>18, <1>20, <1>21, <1>22, <1>23, <1>24 DEF Requesting
  <1>26. QED  BY <1>15, <1>16, <1>25 DEF WireInv

(* The probe has three bits of the acknowledge: one wrong bit makes it     *)
(* none of the three.                                                      *)
LEMMA AckBits ==
  ASSUME NEW s \in Seq(Bit), Len(s) = 3, NEW ack \in Acks, NEW z, Like(s, ack, 3, z)
  PROVE  s = ack \/ (s \notin Acks /\ z = 1)
  <1>1. ack \in Seq(Bit) /\ Len(ack) = 3 /\ ack[1] \in Bit /\ ack[2] \in Bit /\ ack[3] \in Bit  BY AckPlan
  <1>2. CASE Agree(s, ack, 3)
    <2>1. \A i \in 1 .. 3 : s[i] = ack[i]  BY <1>2 DEF Agree
    <2>2. s = ack  BY <1>1, <2>1, SeqEqual
    <2>3. QED  BY <2>2
  <1>3. CASE OneOff(s, ack, 3) /\ z = 1
    <2>1. PICK j \in 1 .. 3 : s[j] = 1 - ack[j] /\ \A i \in 1 .. 3 : j # i => s[i] = ack[i]  BY <1>3 DEF OneOff
    <2>2. ASSUME NEW t \in Acks, s = t PROVE FALSE
      <3>1. t \in {OK, WAIT, FAULT} /\ ack \in {OK, WAIT, FAULT}  BY DEF Acks
      <3>2. /\ OK[1] = 1 /\ OK[2] = 0 /\ OK[3] = 0 /\ WAIT[1] = 0 /\ WAIT[2] = 1 /\ WAIT[3] = 0
            /\ FAULT[1] = 0 /\ FAULT[2] = 0 /\ FAULT[3] = 1
        BY DEF OK, WAIT, FAULT
      <3>3. j = 1 \/ j = 2 \/ j = 3  OBVIOUS
      <3>4. (j # 1 => s[1] = ack[1]) /\ (j # 2 => s[2] = ack[2]) /\ (j # 3 => s[3] = ack[3])  BY <2>1
      <3>5. QED  BY <2>1, <2>2, <3>1, <3>2, <3>3, <3>4
    <2>3. QED  BY <1>3, <2>2
  <1>4. QED  BY <1>2, <1>3 DEF Like

(* The request is over.                                                    *)
LEMMA AskOver ==
  ASSUME WireTypes, Commanded, Phases, step = "ack", todo = <<>>
  PROVE  /\ cmd \in Transfers /\ seen \in Seq(Bit) /\ Len(seen) = 3
         /\ \/ noise = 1 /\ Untuned /\ seen \notin Acks
            \/ \E ack \in Acks : \E x :
                 /\ x = (IF cfg.link = "pio" /\ cmd.rnw = 0 THEN cfg.trn ELSE 0)
                 /\ Obeys(ack, cfg.trn + 3 + x) /\ ones <= x
                 /\ seen = ack \/ (seen \notin Acks /\ noise = 1)
  <1>1. Requesting  BY DEF Phases, AtRest, Resetting, Reading, Writing, Refused, Unheard
  <1>2. PICK k \in 0 .. AskLen :
       /\ AskAhead(k) /\ Len(seen) = Heard(k)
       /\ \/ k <= 7 /\ Hearing /\ ones <= cfg.trn + Bits + 2 + k /\ (Hears(k) \/ Early(k) \/ Late(k))
          \/ Lost(k) /\ \A i \in 1 .. Len(seen) : seen[i] = 1
          \/ k >= 8 /\ \E ack \in Acks :
               Obeys(ack, k - 8) /\ Like(seen, ack, Len(seen), noise) /\ ones <= AckOnes(k)
    BY <1>1 DEF Requesting
  <1>3. cmd \in Transfers /\ cfg.trn \in Nat /\ cfg.trn >= 1 /\ seen \in Seq(Bit) /\ ones \in Nat
    BY WidthFacts DEF Commanded, WireTypes
  <1> DEFINE x == IF cfg.link = "pio" /\ cmd.rnw = 0 THEN cfg.trn ELSE 0
  <1>4. x \in Nat /\ x <= cfg.trn  BY <1>3
  <1>5. AskLen = 11 + cfg.trn + x  BY DEF AskLen
  <1> HIDE DEF x
  <1>6. Len(todo) = 0  BY EmptySeq
  <1>7. k = 11 + cfg.trn + x
    <2>1. k \in 0 .. AskLen /\ 0 = AskLen - k  BY <1>2, <1>6 DEF AskAhead
    <2>2. AskLen \in Nat  BY <1>3, <1>4, <1>5
    <2>3. QED  BY <1>5, <2>1, <2>2
  <1>8. k > 7 /\ k - 8 = cfg.trn + 3 + x /\ ~(k <= 8 + cfg.trn) /\ k \in Nat  BY <1>3, <1>4, <1>7
  <1>9. Len(seen) = 3
    <2>1. k <= 11 + cfg.trn => k - (8 + cfg.trn) = 3  BY SMTT(30), <1>3, <1>4, <1>7
    <2>2. Heard(k) = 3  BY <1>8, <2>1 DEF Heard
    <2>3. QED  BY <1>2, <2>2
  <1>10. CASE Lost(k) /\ \A i \in 1 .. Len(seen) : seen[i] = 1
    <2>1. noise = 1 /\ Untuned  BY <1>10 DEF Lost
    <2>2. seen[1] = 1 /\ seen[2] = 1  BY <1>9, <1>10
    <2>3. seen \notin Acks
      <3>1. OK[2] = 0 /\ WAIT[1] = 0 /\ FAULT[1] = 0  BY DEF OK, WAIT, FAULT
      <3>2. QED  BY <2>2, <3>1 DEF Acks
    <2>4. QED  BY <1>3, <1>9, <2>1, <2>3
  <1>11. CASE \E ack \in Acks :
               Obeys(ack, k - 8) /\ Like(seen, ack, Len(seen), noise) /\ ones <= AckOnes(k)
    <2>1. PICK ack \in Acks : Obeys(ack, k - 8) /\ Like(seen, ack, Len(seen), noise) /\ ones <= AckOnes(k)
      BY <1>11
    <2>2. Like(seen, ack, 3, noise)  BY <1>9, <2>1
    <2>3. seen = ack \/ (seen \notin Acks /\ noise = 1)  BY <1>3, <1>9, <2>2, AckBits
    <2>4. Obeys(ack, cfg.trn + 3 + x)
      <3>1. k - 8 = cfg.trn + 3 + x  BY <1>8
      <3>2. Obeys(ack, k - 8)  BY <2>1
      <3>3. QED  BY ONLY <3>1, <3>2
    <2>5. ones <= x
      <3>1. AckOnes(k) = OnesFrom(k, 11 + cfg.trn)  BY <1>8 DEF AckOnes
      <3>2. OnesFrom(k, 11 + cfg.trn) = x
        <4>1. CASE x = 0
          <5>1. k <= 11 + cfg.trn  BY <1>3, <1>7, <4>1
          <5>2. QED  BY <4>1, <5>1 DEF OnesFrom
        <4>2. CASE x # 0
          <5>1. ~(k <= 11 + cfg.trn) /\ k - (11 + cfg.trn) = x  BY <1>3, <1>4, <1>7, <4>2
          <5>2. QED  BY <5>1 DEF OnesFrom
        <4>3. QED  BY <4>1, <4>2
      <3>3. QED  BY <2>1, <3>1, <3>2
    <2>6. QED  BY <1>3, <1>9, <2>3, <2>4, <2>5 DEF x
  <1>12. QED  BY <1>2, <1>8, <1>10, <1>11

LEMMA AcknowledgedStep ==
  ASSUME WireInv, Acknowledged
  PROVE  WireInv'
  <1>1. WireTypes /\ Commanded /\ Phases  BY DEF WireInv, Phases
  <1>2. /\ todo = <<>> /\ step = "ack" /\ todo' = Answer(cmd, seen) /\ seen' = <<>>
        /\ step' = CASE seen = OK -> "data" [] seen \in {WAIT, FAULT} -> "refused" [] OTHER -> "unheard"
        /\ UNCHANGED <<cfg, ready, cmd, asked, ops, result, swdp, jtag, regs, noise, slipped>>
    BY DEF Acknowledged, host, wire
  <1>3. cmd \in Transfers /\ seen \in Seq(Bit) /\ Len(seen) = 3  BY <1>1, <1>2, AskOver
  <1>4. /\ cfg.trn \in Nat /\ cfg.trn >= 1 /\ cfg.idle \in Nat /\ Bits \in Nat /\ DataLen \in Nat /\ ones \in Nat
        /\ cfg.phase \in BOOLEAN /\ DataLen = Bits + 1 + cfg.trn
    BY <1>1, WidthFacts
  <1> DEFINE x == IF cfg.link = "pio" /\ cmd.rnw = 0 THEN cfg.trn ELSE 0
             r == Answer(cmd, seen)
  <1>5. x \in Nat /\ x <= cfg.trn /\ (cmd.rnw = 1 => x = 0)
    <2>1. cmd.rnw = 1 => ~(cmd.rnw = 0)  OBVIOUS
    <2>2. QED  BY <1>4, <2>1
  <1>6. r = todo'  BY <1>2
  <1>7. \/ noise = 1 /\ Untuned /\ seen \notin Acks
        \/ \E ack \in Acks : /\ Obeys(ack, cfg.trn + 3 + x) /\ ones <= x
                             /\ seen = ack \/ (seen \notin Acks /\ noise = 1)
    <2>1. \/ noise = 1 /\ Untuned /\ seen \notin Acks
          \/ \E ack \in Acks : \E y :
               /\ y = (IF cfg.link = "pio" /\ cmd.rnw = 0 THEN cfg.trn ELSE 0)
               /\ Obeys(ack, cfg.trn + 3 + y) /\ ones <= y
               /\ seen = ack \/ (seen \notin Acks /\ noise = 1)
      BY <1>1, <1>2, AskOver
    <2>2. QED  BY ONLY <2>1
  <1>8. ASSUME todo' \in Seq(Clocks), step' \in {"data", "refused", "unheard"}
        PROVE  WireTypes' /\ Commanded'
    <2>1. noise' \in Bit /\ asked' \in [Addrs -> SUBSET Word] /\ ready' \in BOOLEAN  BY <1>1, <1>2 DEF WireTypes
    <2>2. step' \in {"none", "ack", "data", "refused", "unheard"}  BY <1>8
    <2>3. WireTypes'  BY <1>1, <1>2, <1>8, <2>1, <2>2, NoBits, SameTypes
    <2>4. Commanded'  BY <1>1, <1>2 DEF Commanded
    <2>5. QED  BY <2>3, <2>4
  <1>9. ASSUME NEW m, NEW ack, Obeys(ack, m) PROVE Obeys(ack, m)'
    <2>1. UNCHANGED <<cfg, cmd, regs, plan, heard, mode, want>>  BY <1>2 DEF swdp
    <2>2. PlanLen(ack)' = PlanLen(ack)  BY <2>1 DEF PlanLen, RestLen, DataLen
    <2>3. \A j : PlanAt(ack, j)' = PlanAt(ack, j)  BY <2>1 DEF PlanAt, RestAt, WithParity
    <2>4. Storing(ack)' = Storing(ack) /\ Received(ack, m)' = Received(ack, m)  BY <2>1 DEF Storing, Received
    <2>5. QED  BY <1>9, <2>1, <2>2, <2>3, <2>4 DEF Obeys
  <1>10. DataLen' = DataLen /\ cfg' = cfg /\ cmd' = cmd /\ noise' = noise /\ ones' = ones
    BY <1>2 DEF DataLen, swdp
  <1>11. ASSUME seen \notin Acks, noise = 1, Len(plan) <= DataLen - x \/ Untuned,
                Untuned \/ (heard = <<>> /\ \E ack \in Acks : \E m \in 0 .. PlanLen(ack) : Obeys(ack, m))
         PROVE  WireInv'
    <2>1. step' = "unheard"  BY <1>2, <1>11 DEF Acks
    <2>2. Block(r, DataLen - x, Float, FALSE)  BY <1>3, <1>4, <1>11, UnheardShape
    <2> HIDE DEF r, x
    <2>3. todo' \in Seq(Clocks) /\ Len(todo') = DataLen - x /\ \A i \in 1 .. Len(todo') : todo'[i].dio = Float
      BY <1>6, <2>2 DEF Block, IsList
    <2>4. WireTypes' /\ Commanded'  BY <1>8, <2>1, <2>3
    <2>5. CASE Untuned
      <3>1. Untuned'  BY <1>2, <2>5 DEF Untuned, swdp
      <3>2. Unheard'  BY <1>10, <1>11, <2>1, <2>3, <3>1 DEF Unheard
      <3>3. QED  BY <2>4, <3>2 DEF WireInv
    <2>6. CASE ~Untuned
      <3>1. PICK ack \in Acks : \E m \in 0 .. PlanLen(ack) : Obeys(ack, m)  BY <1>11, <2>6
      <3>2. PICK m \in 0 .. PlanLen(ack) : Obeys(ack, m)  BY <3>1
      <3>3. PlanLen(ack)' = PlanLen(ack)  BY <1>10 DEF PlanLen, RestLen
      <3>4. Obeys(ack, m)' /\ m \in 0 .. PlanLen(ack)'  BY <1>9, <3>2, <3>3
      <3>5. Len(plan') <= Len(todo') /\ \A i \in 1 .. Len(heard') : heard'[i] = 1
        <4>1. plan' = plan /\ heard' = heard  BY <1>2 DEF swdp
        <4>2. Len(heard) = 0  BY <1>11, <2>6, EmptySeq
        <4>3. \A i \in 1 .. Len(heard) : heard[i] = 1  BY <4>2
        <4>4. Len(plan) <= DataLen - x  BY <1>11, <2>6
        <4>5. QED  BY <2>3, <4>1, <4>3, <4>4
      <3>6. Unheard'  BY <1>10, <1>11, <2>1, <2>3, <3>4, <3>5 DEF Unheard
      <3>7. QED  BY <2>4, <3>6 DEF WireInv
    <2>7. QED  BY <2>5, <2>6
  <1>12. CASE noise = 1 /\ Untuned /\ seen \notin Acks  BY <1>11, <1>12
  <1>13. ASSUME NEW ack \in Acks, Obeys(ack, cfg.trn + 3 + x), ones <= x,
                seen = ack \/ (seen \notin Acks /\ noise = 1)
         PROVE  WireInv'
    <2>1. PICK m \in Nat : m = cfg.trn + 3 + x  BY <1>4, <1>5
    <2>2. Obeys(ack, m)  BY <1>13, <2>1
    <2>3. PlanLen(ack) = cfg.trn + 3 + RestLen(ack)  BY DEF PlanLen
    <2>4. RestLen(ack) \in Nat /\ RestLen(ack) >= cfg.trn /\ RestLen(ack) <= DataLen
          /\ (ack = OK => RestLen(ack) = DataLen)
      <3>1. RestLen(ack) \in {DataLen, cfg.trn} /\ (ack = OK => RestLen(ack) = DataLen)  BY DEF RestLen
      <3>2. cfg.trn \in Nat /\ DataLen \in Nat /\ DataLen >= cfg.trn  BY <1>4
      <3>3. QED  BY ONLY <3>1, <3>2
    <2>a. x \in Nat /\ x <= cfg.trn /\ (cmd.rnw = 1 => x = 0)  BY <1>5
    <2>b. cfg.trn \in Nat /\ DataLen \in Nat  BY <1>4
    <2>c. m = cfg.trn + 3 + x /\ m \in Nat  BY <2>1
    <2> HIDE DEF x, r
    <2>5. Len(plan) = RestLen(ack) - x /\ m \in 0 .. PlanLen(ack)
      <3>1. Len(plan) = PlanLen(ack) - m /\ m \in 0 .. PlanLen(ack)  BY <2>2 DEF Obeys
      <3>2. QED  BY ONLY <2>3, <2>4, <2>a, <2>b, <2>c, <3>1
    <2>6. heard = <<>>
      <3>1. Len(heard) = Received(ack, m)  BY <2>2 DEF Obeys
      <3>2. ~(m > 2 * cfg.trn + 3)  BY ONLY <2>a, <2>b, <2>c
      <3>3. Received(ack, m) = 0  BY <3>2 DEF Received
      <3>4. QED  BY <1>1, <3>1, <3>3, NothingHeard
    <2>7. CASE seen \notin Acks /\ noise = 1
      <3>1. Len(plan) <= DataLen - x  BY ONLY <2>4, <2>5, <2>a, <2>b
      <3>2. QED  BY <1>11, <2>2, <2>5, <2>6, <2>7, <3>1
    <2>8. CASE seen = ack /\ ack \in {WAIT, FAULT}
      <3>1. ack # OK
        <4>1. OK[1] = 1 /\ WAIT[1] = 0 /\ FAULT[1] = 0  BY DEF OK, WAIT, FAULT
        <4>2. QED  BY <2>8, <4>1
      <3>2. step' = "refused"  BY <1>2, <2>8, <3>1
      <3>3. Mute(r, RestLen(ack) - x)  BY <1>3, <1>4, <2>8, RefusedShape DEF r, x
      <3>4. /\ todo' \in Seq(Clocks) /\ Len(todo') = RestLen(ack) - x
            /\ \A i \in 1 .. Len(todo') : ~todo'[i].look
        BY <1>6, <3>3 DEF Mute, IsList
      <3>5. WireTypes' /\ Commanded'  BY <1>8, <3>2, <3>4
      <3>6. \A i \in 1 .. Len(plan) : plan[i] = Float
        <4>1. ASSUME NEW i \in 1 .. Len(plan) PROVE plan[i] = Float
          <5>1. m + i \in 1 .. PlanLen(ack) /\ cfg.trn + 3 < m + i
            <6>1. RestLen(ack) \in Nat /\ Len(plan) = RestLen(ack) - x  BY <2>4, <2>5
            <6>2. i \in Nat /\ i >= 1 /\ i <= RestLen(ack) - x  BY ONLY <2>a, <4>1, <6>1
            <6>3. m + i = cfg.trn + 3 + (x + i) /\ x + i \in Nat /\ x + i >= 1 /\ x + i <= RestLen(ack)
              BY ONLY SMTT(30), <2>a, <2>b, <2>c, <6>1, <6>2
            <6>4. QED  BY ONLY <2>3, <2>b, <6>1, <6>3
          <5>2. PICK j \in 1 .. PlanLen(ack) : j = m + i /\ cfg.trn + 3 < j  BY <5>1
          <5>3. PlanAt(ack, j) = Float  BY <1>1, <1>3, <3>1, <5>2, PlanValue
          <5>4. plan[i] = PlanAt(ack, m + i)  BY <2>2 DEF Obeys
          <5>5. QED  BY <5>2, <5>3, <5>4
        <4>2. QED  BY <4>1
      <3>7. ones' + Len(todo') <= DataLen
        <4>1. ones <= x /\ ones \in Nat /\ ones' = ones  BY <1>4, <1>10, <1>13
        <4>2. Len(todo') = RestLen(ack) - x  BY <3>4
        <4>3. QED  BY ONLY <2>4, <2>a, <2>b, <4>1, <4>2
      <3>8. mode' = "sync" /\ heard' = <<>> /\ plan' = plan  BY <1>2, <2>2, <2>6 DEF Obeys, swdp
      <3>9. Len(plan') = Len(todo') /\ \A i \in 1 .. Len(plan') : plan'[i] = Float
        BY <2>5, <3>4, <3>6, <3>8
      <3>10. Refused'  BY <1>10, <3>2, <3>4, <3>7, <3>8, <3>9 DEF Refused
      <3>11. QED  BY <3>5, <3>10 DEF WireInv
    <2>9. CASE seen = ack /\ ack = OK /\ cmd.rnw = 1
      <3>1. step' = "data" /\ x = 0
        <4>1. seen = OK  BY <2>9
        <4>2. seen \notin {WAIT, FAULT}  BY <4>1 DEF OK, WAIT, FAULT
        <4>3. step' = "data"  BY <1>2, <4>1, <4>2
        <4>4. x = 0  BY <2>9, <2>a
        <4>5. QED  BY <4>3, <4>4
      <3>2. r = Answer(cmd, OK)  BY <2>9 DEF r
      <3>3. /\ IsList(r, DataLen + cfg.idle)
            /\ \A i \in 1 .. DataLen + cfg.idle :
                 /\ r[i].dio = IF i <= DataLen THEN Float ELSE 0
                 /\ r[i].look <=> i <= Bits + 1
        BY <1>4, <2>9, <3>2, ReadShape
      <3>4. todo' \in Seq(Clocks) /\ Len(todo') = DataLen + cfg.idle  BY <1>6, <3>3 DEF IsList
      <3>5. WireTypes' /\ Commanded'  BY <1>8, <3>1, <3>4
      <3> DEFINE z == 0
      <3>6. z = 0 /\ z \in 0 .. DataLen + cfg.idle /\ Len(todo') = DataLen + cfg.idle - z /\ z < DataLen
            /\ z <= Bits + 1 /\ cfg.trn + 3 + z = m
        BY <1>4, <2>c, <3>1, <3>4
      <3> HIDE DEF z
      <3>7. ReadAhead(z)'
        <4>1. \A i \in 1 .. Len(todo') : z + i = i /\ i \in 1 .. DataLen + cfg.idle  BY <3>4, <3>6
        <4>2. ASSUME NEW i \in 1 .. Len(todo')
              PROVE  /\ todo'[i].dio = IF z + i <= DataLen THEN Float ELSE 0
                     /\ (todo'[i].look <=> z + i <= Bits + 1)
          BY <1>6, <3>3, <4>1
        <4>3. QED  BY <1>10, <3>6, <4>2 DEF ReadAhead
      <3>8. Len(seen') = SeenLen(z)'  BY <1>2, <3>6, NoBits DEF SeenLen
      <3>9. Like(seen, WithParity(regs[cmd.at]), Len(seen), noise)'
        <4>1. Len(seen') = 0  BY <1>2, NoBits
        <4>2. QED  BY <4>1 DEF Like, Agree
      <3>10. Obeys(OK, cfg.trn + 3 + z)'
        <4>1. Obeys(OK, m)'  BY <1>9, <2>2, <2>9
        <4>2. m = cfg.trn' + 3 + z  BY <1>10, <3>6
        <4>3. QED  BY <4>1, <4>2
      <3>11. (ones <= OnesFrom(z, Bits + 1))'
        <4>1. OnesFrom(z, Bits + 1) = 0  BY <3>6 DEF OnesFrom
        <4>2. ones' = 0  BY <1>4, <1>10, <1>13, <3>1
        <4>3. QED  BY <4>1, <4>2 DEF OnesFrom
      <3>12. Reading'  BY <1>10, <2>9, <3>1, <3>6, <3>7, <3>8, <3>9, <3>10, <3>11 DEF Reading
      <3>13. QED  BY <3>5, <3>12 DEF WireInv
    <2>10. CASE seen = ack /\ ack = OK /\ cmd.rnw = 0
      <3>1. step' = "data" /\ x = IF cfg.link = "pio" THEN cfg.trn ELSE 0
        <4>1. seen = OK  BY <2>10
        <4>2. seen \notin {WAIT, FAULT}  BY <4>1 DEF OK, WAIT, FAULT
        <4>3. step' = "data"  BY <1>2, <4>1, <4>2
        <4>4. x = IF cfg.link = "pio" THEN cfg.trn ELSE 0  BY <2>10 DEF x
        <4>5. QED  BY <4>3, <4>4
      <3>2. r = Answer(cmd, OK)  BY <2>10 DEF r
      <3>n. PICK n \in Int : n = DataLen + cfg.idle - x  BY <1>4, <2>a
      <3>3. /\ IsList(r, n)
            /\ \A i \in 1 .. n :
              /\ r[i].dio = IF x + i <= cfg.trn THEN Float
                            ELSE IF x + i <= DataLen THEN WithParity(cmd.word)[x + i - cfg.trn] ELSE 0
              /\ ~r[i].look
        <4>1. cmd \in Transfers /\ cmd.rnw = 0 /\ cfg.trn \in Nat /\ cfg.idle \in Nat  BY <1>3, <1>4, <2>10
        <4>2. x = IF cfg.link = "pio" THEN cfg.trn ELSE 0  BY <3>1
        <4>3. QED  BY ONLY <3>2, <3>n, <4>1, <4>2, WriteShape
      <3>4. todo' \in Seq(Clocks) /\ Len(todo') = n  BY <1>6, <3>3 DEF IsList
      <3>5. WireTypes' /\ Commanded'  BY <1>8, <3>1, <3>4
      <3>6. PICK k \in Nat : k = x  BY <2>a
      <3>7. k \in 0 .. DataLen + cfg.idle /\ Len(todo') = DataLen + cfg.idle - k /\ k < DataLen /\ cfg.trn + 3 + k = m
        <4>1. DataLen > cfg.trn /\ cfg.idle \in Nat  BY <1>4
        <4>2. QED  BY ONLY SMTT(30), <2>a, <2>b, <2>c, <3>n, <3>4, <3>6, <4>1
      <3>8. WriteAhead(k)'
        <4>0. ASSUME NEW i \in 1 .. n PROVE r[i].dio = WriteAt(x + i) /\ ~r[i].look
          <5>0. /\ r[i].dio = IF x + i <= cfg.trn THEN Float
                              ELSE IF x + i <= DataLen THEN WithParity(cmd.word)[x + i - cfg.trn] ELSE 0
                /\ ~r[i].look
            BY ONLY <3>3, <4>0
          <5>1. PICK j \in Nat : j = x + i  BY <2>a, <4>0
          <5>a. x \in Nat /\ i \in Nat /\ cfg.trn \in Nat /\ DataLen \in Nat /\ j \in Nat  BY <2>a, <2>b, <4>0, <5>1
          <5>b. CASE j <= cfg.trn
            <6>1. x + i <= cfg.trn  BY ONLY <5>1, <5>a, <5>b
            <6>2. r[i].dio = Float  BY ONLY <5>0, <6>1
            <6>3. WriteAt(j) = Float  BY ONLY <5>b DEF WriteAt
            <6>4. QED  BY <5>1, <6>2, <6>3, <5>0
          <5>c. CASE ~(j <= cfg.trn) /\ j <= DataLen
            <6>1. ~(x + i <= cfg.trn) /\ x + i <= DataLen  BY ONLY <5>1, <5>a, <5>c
            <6>2. r[i].dio = WithParity(cmd.word)[x + i - cfg.trn]  BY ONLY <5>0, <6>1
            <6>3. WriteAt(j) = WithParity(cmd.word)[j - cfg.trn]  BY ONLY <5>c DEF WriteAt
            <6>4. x + i - cfg.trn = j - cfg.trn  BY ONLY <5>1, <5>a
            <6>5. QED  BY <5>0, <5>1, <6>2, <6>3, <6>4
          <5>d. CASE ~(j <= cfg.trn) /\ ~(j <= DataLen)
            <6>1. ~(x + i <= cfg.trn) /\ ~(x + i <= DataLen)  BY ONLY <5>1, <5>a, <5>d
            <6>2. r[i].dio = 0  BY ONLY <5>0, <6>1
            <6>3. WriteAt(j) = 0  BY ONLY <5>d DEF WriteAt
            <6>4. QED  BY <5>1, <6>2, <6>3, <5>0
          <5>4. QED  BY <5>b, <5>c, <5>d
        <4>1. ASSUME NEW i \in 1 .. Len(todo') PROVE todo'[i].dio = WriteAt(k + i) /\ ~todo'[i].look
          <5>1. r[i].dio = WriteAt(x + i) /\ ~r[i].look  BY <3>4, <4>0
          <5>2. QED  BY <1>6, <3>6, <5>1
        <4>2. \A j : WriteAt(j)' = WriteAt(j)  BY <1>10 DEF WriteAt, WithParity
        <4>3. QED  BY <1>10, <3>7, <4>1, <4>2 DEF WriteAhead
      <3>9. Obeys(OK, cfg.trn + 3 + k)'
        <4>1. Obeys(OK, m)'  BY <1>9, <2>2, <2>10
        <4>2. m = cfg.trn' + 3 + k  BY <1>10, <3>7
        <4>3. QED  BY <4>1, <4>2
      <3>10. (ones <= k)' /\ (k < DataLen)'  BY <1>10, <1>13, <3>6, <3>7
      <3>11. Like(heard, WithParity(cmd.word), Len(heard), noise)'
        <4>1. heard' = <<>> /\ Len(heard') = 0  BY <1>2, <2>6, NoBits DEF swdp
        <4>2. QED  BY <4>1 DEF Like, Agree
      <3>12. k \in 0 .. (DataLen + cfg.idle)'  BY <1>10, <3>7
      <3>13. Writing'  BY <1>2, <1>10, <2>10, <3>1, <3>8, <3>9, <3>10, <3>11, <3>12 DEF Writing
      <3>14. QED  BY <3>5, <3>13 DEF WireInv
    <2>11. cmd.rnw = 0 \/ cmd.rnw = 1  BY <1>3, RequestBits DEF Bit
    <2>12. QED  BY <1>13, <2>7, <2>8, <2>9, <2>10, <2>11 DEF Acks
  <1>14. QED  BY <1>7, <1>12, <1>13

-----------------------------------------------------------------------------
(* The end of a transfer.                                                  *)
LEMMA ReadDone ==
  ASSUME WireTypes, Commanded, Reading, todo = <<>>, Finish
  PROVE  Hearing /\ Waiting /\ ones <= cfg.trn + Bits + 2 /\ (result'.st = "ok" => Done(cmd)')
  <1>1. PICK k \in 0 .. DataLen + cfg.idle :
       /\ ReadAhead(k) /\ Len(seen) = SeenLen(k)
       /\ Like(seen, WithParity(regs[cmd.at]), Len(seen), noise)
       /\ IF k < DataLen THEN Obeys(OK, cfg.trn + 3 + k) /\ ones <= OnesFrom(k, Bits + 1)
          ELSE Hearing /\ Waiting /\ (todo # <<>> => heard = <<>>) /\ ones <= cfg.trn + 1
               /\ (heard = <<>> => ones <= cfg.trn)
    BY DEF Reading
  <1>2. /\ cfg.trn \in Nat /\ cfg.idle \in Nat /\ Bits \in Nat /\ DataLen \in Nat /\ ones \in Nat
        /\ DataLen = Bits + 1 + cfg.trn /\ cfg.trn >= 1
    BY WidthFacts
  <1>3. Len(todo) = 0  BY EmptySeq
  <1>4. Len(todo) = DataLen + cfg.idle - k /\ k \in 0 .. DataLen + cfg.idle  BY <1>1 DEF ReadAhead
  <1>5. ~(k < DataLen) /\ ~(k <= Bits + 1)
    <2>1. k \in Nat /\ k = DataLen + cfg.idle  BY ONLY SMTT(30), <1>2, <1>3, <1>4
    <2>2. ~(k < DataLen)  BY ONLY <1>2, <2>1
    <2>3. QED  BY ONLY <1>2, <2>1, <2>2
  <1>6. Hearing /\ Waiting /\ ones <= cfg.trn + 1  BY <1>1, <1>5
  <1>7. ones <= cfg.trn + Bits + 2  BY <1>2, <1>6
  <1>8. step = "data" /\ cmd.rnw = 1 /\ cmd \in Transfers  BY DEF Reading, Commanded
  <1>9. regs[cmd.at] \in Word
    <2>1. cmd.at \in Addrs  BY <1>8, RequestBits
    <2>2. QED  BY <2>1 DEF WireTypes
  <1>10. Len(seen) = Bits + 1 /\ seen \in Seq(Bit)
    <2>1. SeenLen(k) = Bits + 1  BY <1>5 DEF SeenLen
    <2>2. QED  BY <1>1, <2>1 DEF WireTypes
  <1>11. Like(seen, WithParity(regs[cmd.at]), Bits + 1, noise)  BY <1>1, <1>10
  <1>12. Intact(seen) => SubSeq(seen, 1, Bits) = regs[cmd.at]  BY <1>9, <1>10, <1>11, WordIntact DEF Intact
  <1>13. ASSUME result'.st = "ok" PROVE Done(cmd)'
    <2>1. result' = IF ~Intact(seen) THEN [st |-> "error", word |-> <<>>]
                    ELSE [st |-> "ok", word |-> SubSeq(seen, 1, Bits)]
      BY <1>8 DEF Finish
    <2>2. Intact(seen) /\ result'.word = SubSeq(seen, 1, Bits)
      <3>1. CASE Intact(seen)  BY <2>1, <3>1
      <3>2. CASE ~Intact(seen)
        <4>1. result'.st = "error"  BY <2>1, <3>2
        <4>2. QED  BY <1>13, <4>1
      <3>3. QED  BY <3>1, <3>2
    <2>3. regs' = regs /\ cmd' = cmd  BY DEF Finish
    <2>4. QED  BY <1>8, <1>12, <2>2, <2>3 DEF Done
  <1>14. QED  BY <1>6, <1>7, <1>13

LEMMA WriteDone ==
  ASSUME WireTypes, Writing, todo = <<>>, Finish
  PROVE  Hearing /\ Waiting /\ ones <= cfg.trn + Bits + 2 /\ Done(cmd)'
  <1>1. PICK k \in 0 .. DataLen + cfg.idle :
       /\ WriteAhead(k)
       /\ IF k < DataLen THEN /\ Obeys(OK, cfg.trn + 3 + k) /\ ones <= k
                              /\ Like(heard, WithParity(cmd.word), Len(heard), noise)
          ELSE Hearing /\ Waiting /\ (todo # <<>> => heard = <<>>) /\ ones <= DataLen + 1
               /\ (heard = <<>> => ones <= DataLen) /\ (regs[cmd.at] = cmd.word \/ sticky)
    BY DEF Writing
  <1>2. /\ cfg.trn \in Nat /\ cfg.idle \in Nat /\ Bits \in Nat /\ DataLen \in Nat /\ ones \in Nat
        /\ DataLen = Bits + 1 + cfg.trn
    BY WidthFacts
  <1>3. Len(todo) = 0  BY EmptySeq
  <1>4. Len(todo) = DataLen + cfg.idle - k /\ k \in 0 .. DataLen + cfg.idle  BY <1>1 DEF WriteAhead
  <1>a. DataLen \in Nat /\ cfg.idle \in Nat /\ 0 = DataLen + cfg.idle - k /\ k \in 0 .. DataLen + cfg.idle
    BY <1>2, <1>3, <1>4
  <1>5. ~(k < DataLen)  BY ONLY <1>a
  <1>6. Hearing /\ Waiting /\ ones <= DataLen + 1 /\ (regs[cmd.at] = cmd.word \/ sticky)  BY <1>1, <1>5
  <1>7. ones <= cfg.trn + Bits + 2  BY ONLY <1>2, <1>6
  <1>8. cmd.rnw = 0 /\ regs' = regs /\ cmd' = cmd /\ sticky' = sticky  BY DEF Writing, Finish, swdp
  <1>9. Done(cmd)'
    <2>1. cmd'.rnw # 1  BY <1>8
    <2>2. QED  BY <1>6, <1>8, <2>1 DEF Done
  <1>10. QED  BY <1>6, <1>7, <1>9

LEMMA UnheardDone ==
  ASSUME WireTypes, Unheard, todo = <<>>
  PROVE  Untuned
  <1>1. SUFFICES ASSUME NEW ack \in Acks, NEW m \in 0 .. PlanLen(ack), Obeys(ack, m), Len(plan) <= Len(todo)
                 PROVE  Untuned
    BY DEF Unheard
  <1>2. Len(todo) = 0 /\ Len(plan) \in Nat /\ plan \in Seq(Level)  BY EmptySeq, WidthFacts DEF WireTypes, Level
  <1>3. Len(plan) = 0  BY <1>1, <1>2
  <1>4. plan = <<>>  BY <1>2, <1>3, EmptySeq, SeqEqual
  <1>5. Len(plan) = PlanLen(ack) - m /\ (ack = OK => m < PlanLen(ack)) /\ Len(heard) = Received(ack, m)
    BY <1>1 DEF Obeys
  <1>6. ack # OK
    <2>1. SUFFICES ASSUME ack = OK PROVE FALSE  OBVIOUS
    <2>2. m < PlanLen(ack) /\ m \in Nat /\ PlanLen(ack) - m = 0  BY <1>3, <1>5, <2>1
    <2>3. PlanLen(ack) \in Nat
      <3>1. PlanLen(ack) = cfg.trn + 3 + RestLen(ack) /\ RestLen(ack) \in {DataLen, cfg.trn}  BY DEF PlanLen, RestLen
      <3>2. cfg.trn \in Nat /\ DataLen \in Nat  BY WidthFacts
      <3>3. QED  BY ONLY <3>1, <3>2
    <2>4. QED  BY ONLY <2>2, <2>3
  <1>7. Len(heard) = 0  BY <1>5, <1>6 DEF Received, Storing
  <1>8. heard = <<>>  BY <1>7, NothingHeard
  <1>9. QED  BY <1>4, <1>7, <1>8 DEF Untuned

LEMMA FinishStep ==
  ASSUME WireInv, Finish
  PROVE  WireInv'
  <1>1. WireTypes /\ Commanded /\ Phases  BY DEF WireInv, Phases
  <1>2. step \in {"data", "refused", "unheard"}  BY <1>1 DEF Finish, WireTypes
  <1>3. /\ todo = <<>> /\ todo' = <<>> /\ step' = "none" /\ seen' = <<>> /\ ready' = (step # "unheard")
        /\ UNCHANGED <<cfg, cmd, asked, swdp, regs, noise>>
    BY DEF Finish, wire
  <1>4. WireTypes' /\ Commanded'
    <2>1. noise' \in Bit /\ asked' \in [Addrs -> SUBSET Word] /\ ready' \in BOOLEAN  BY <1>1, <1>3 DEF WireTypes
    <2>2. WireTypes'  BY <1>1, <1>3, <2>1, NoBits, SameTypes
    <2>3. Commanded'  BY <1>1, <1>3 DEF Commanded
    <2>4. QED  BY <2>2, <2>3
  <1>5. ASSUME step # "unheard", Hearing, Waiting, ones <= cfg.trn + Bits + 2, result'.st = "ok" => Done(cmd)'
        PROVE  WireInv'
    <2>1. ready' = TRUE  BY <1>3, <1>5
    <2>2. Hearing' /\ Waiting' /\ (ones <= cfg.trn + Bits + 2)'  BY <1>3, <1>5 DEF Hearing, Waiting, swdp
    <2>3. AtRest'  BY <1>3, <1>5, <2>1, <2>2 DEF AtRest
    <2>4. QED  BY <1>4, <2>3 DEF WireInv
  <1>6. CASE step = "data"
    <2>1. Reading \/ Writing  BY <1>1, <1>6 DEF Phases, AtRest, Resetting, Requesting, Refused, Unheard
    <2>2. CASE Reading  BY <1>1, <1>3, <1>5, <1>6, <2>2, ReadDone
    <2>3. CASE Writing  BY <1>1, <1>3, <1>5, <1>6, <2>3, WriteDone
    <2>4. QED  BY <2>1, <2>2, <2>3
  <1>7. CASE step = "refused"
    <2>1. Refused  BY <1>1, <1>7 DEF Phases, AtRest, Resetting, Requesting, Reading, Writing, Unheard
    <2>2. Len(plan) = 0 /\ ones + Len(todo) <= DataLen /\ mode = "sync" /\ heard = <<>> /\ Len(todo) = 0
      BY <1>3, <2>1, EmptySeq DEF Refused
    <2>3. plan = <<>>
      <3>1. plan \in Seq(Level)  BY <1>1 DEF WireTypes, Level
      <3>2. QED  BY <2>2, <3>1, EmptySeq, SeqEqual
    <2>4. ones <= cfg.trn + Bits + 2
      <3>1. ones \in Nat /\ cfg.trn \in Nat /\ Bits \in Nat /\ DataLen = Bits + 1 + cfg.trn  BY <1>1, WidthFacts
      <3>2. QED  BY ONLY <2>2, <3>1
    <2>5. result'.st # "ok"  BY <1>7 DEF Finish
    <2>6. QED  BY <1>5, <1>7, <2>2, <2>3, <2>4, <2>5 DEF Hearing, Waiting
  <1>8. CASE step = "unheard"
    <2>1. Unheard  BY <1>1, <1>8 DEF Phases, AtRest, Resetting, Requesting, Reading, Writing, Refused
    <2>2. Untuned  BY <1>1, <1>3, <2>1, UnheardDone
    <2>3. Untuned'  BY <1>3, <2>2 DEF Untuned, swdp
    <2>4. ready' = FALSE  BY <1>3, <1>8
    <2>5. result'.st # "ok"  BY <1>8 DEF Finish
    <2>6. AtRest'  BY <1>3, <2>3, <2>4, <2>5 DEF AtRest
    <2>7. QED  BY <1>4, <2>6 DEF WireInv
  <1>9. QED  BY <1>2, <1>6, <1>7, <1>8
-----------------------------------------------------------------------------
(* One clock.                                                              *)
LEMMA ClockStep ==
  ASSUME WireInv, SwdClock, MaxNoise <= 1, ~slipped'
  PROVE  WireInv'
  <1>1. WireTypes /\ Commanded /\ Phases  BY DEF WireInv, Phases
  <1>2. PICK flip, level : Ticks(flip, level)  BY <1>1, ClockTicks
  <1>3. todo # <<>> /\ UNCHANGED <<asked, step, cmd, result>>  BY <1>2 DEF Ticks
  <1>4. ASSUME Sound, Phases' PROVE WireInv'
    <2>1. WireTypes'  BY <1>1, <1>2, <1>4, ClockTypes DEF Sound
    <2>2. Commanded'  BY <1>1, <1>3, <1>4 DEF Commanded, Sound
    <2>3. QED  BY <1>4, <2>1, <2>2 DEF WireInv, Phases
  <1>5. CASE AtRest  BY <1>3, <1>5 DEF AtRest
  <1>6. CASE Resetting  BY <1>1, <1>2, <1>4, <1>6, ResettingClock DEF Phases
  <1>7. CASE Requesting  BY <1>1, <1>2, <1>4, <1>7, RequestingClock DEF Phases
  <1>8. CASE Reading  BY <1>1, <1>2, <1>4, <1>8, ReadingClock DEF Phases
  <1>9. CASE Writing  BY <1>1, <1>2, <1>4, <1>9, WritingClock DEF Phases
  <1>10. CASE Refused  BY <1>1, <1>2, <1>4, <1>10, RefusedClock DEF Phases
  <1>11. CASE Unheard  BY <1>1, <1>2, <1>4, <1>11, UnheardClock DEF Phases
  <1>12. QED  BY <1>1, <1>5, <1>6, <1>7, <1>8, <1>9, <1>10, <1>11 DEF Phases

(* Nothing happens.                                                        *)
LEMMA StandsStill ==
  ASSUME WireInv, UNCHANGED vars
  PROVE  WireInv'
  <1>1. /\ UNCHANGED <<cfg, ready, cmd, asked, ops>> /\ UNCHANGED <<step, todo, seen, result>>
        /\ UNCHANGED <<plan, heard, mode, ones, want, sticky>> /\ UNCHANGED <<regs, noise, slipped>>
    BY DEF vars, host, probe, swdp, wire
  <1>2. WireTypes' /\ Commanded'  BY <1>1 DEF WireInv, WireTypes, Commanded
  <1>3. Untuned' = Untuned /\ Hearing' = Hearing /\ Waiting' = Waiting /\ Done(cmd)' = Done(cmd)
    BY <1>1 DEF Untuned, Hearing, Waiting, Done
  <1>4. /\ \A j : WriteAt(j)' = WriteAt(j)
        /\ \A ack : PlanLen(ack)' = PlanLen(ack) /\ Storing(ack)' = Storing(ack)
        /\ \A ack, j : PlanAt(ack, j)' = PlanAt(ack, j)
        /\ \A ack, m : Received(ack, m)' = Received(ack, m)
    BY <1>1 DEF WriteAt, PlanAt, RestAt, PlanLen, RestLen, Storing, Received, DataLen, WithParity
  <1>5. \A ack, m : Obeys(ack, m)' = Obeys(ack, m)  BY <1>1, <1>4 DEF Obeys
  <1>6. DataLen' = DataLen /\ AskLen' = AskLen /\ Bits8(cmd)' = Bits8(cmd)  BY <1>1 DEF DataLen, AskLen, Bits8
  <1>7. CASE AtRest  BY <1>1, <1>2, <1>3, <1>7 DEF AtRest, WireInv
  <1>8. CASE Resetting
    <2>1. \A k : LineAhead(k)' = LineAhead(k)  BY <1>1 DEF LineAhead
    <2>2. Resetting'  BY <1>1, <1>3, <1>8, <2>1 DEF Resetting
    <2>3. QED  BY <1>2, <2>2 DEF WireInv
  <1>9. CASE Requesting
    <2>1. \A k : AskAhead(k)' = AskAhead(k)  BY <1>1, <1>6 DEF AskAhead
    <2>2. \A k : /\ Heard(k)' = Heard(k) /\ AckOnes(k)' = AckOnes(k) /\ Hears(k)' = Hears(k)
                 /\ Early(k)' = Early(k) /\ Late(k)' = Late(k) /\ Lost(k)' = Lost(k)
      BY <1>1, <1>3, <1>6 DEF Heard, AckOnes, OnesFrom, Hears, Early, Late, Lost
    <2>3. Requesting'  BY <1>1, <1>3, <1>5, <1>6, <1>9, <2>1, <2>2 DEF Requesting
    <2>4. QED  BY <1>2, <2>3 DEF WireInv
  <1>10. CASE Reading
    <2>1. \A k : ReadAhead(k)' = ReadAhead(k) /\ SeenLen(k)' = SeenLen(k)
                 /\ OnesFrom(k, Bits + 1)' = OnesFrom(k, Bits + 1)
      BY <1>1, <1>6 DEF ReadAhead, SeenLen, OnesFrom
    <2>2. Reading'  BY <1>1, <1>3, <1>5, <1>6, <1>10, <2>1 DEF Reading
    <2>3. QED  BY <1>2, <2>2 DEF WireInv
  <1>11. CASE Writing
    <2>1. \A k : WriteAhead(k)' = WriteAhead(k)  BY <1>1, <1>4, <1>6 DEF WriteAhead
    <2>2. Writing'  BY <1>1, <1>3, <1>5, <1>6, <1>11, <2>1 DEF Writing
    <2>3. QED  BY <1>2, <2>2 DEF WireInv
  <1>12. CASE Refused  BY <1>1, <1>2, <1>6, <1>12 DEF Refused, WireInv
  <1>13. CASE Unheard
    <2>1. Unheard'  BY <1>1, <1>3, <1>4, <1>5, <1>13 DEF Unheard
    <2>2. QED  BY <1>2, <2>1 DEF WireInv
  <1>14. QED  BY <1>7, <1>8, <1>9, <1>10, <1>11, <1>12, <1>13 DEF WireInv

(* As long as the target has not taken an idle clock for a start bit.      *)
WireSafe == slipped \/ cfg.port # "Swd" \/ WireInv

LEMMA WireSafeInit == Init => WireSafe
  <1>1. SUFFICES ASSUME Init, cfg.port = "Swd" PROVE WireInv  BY DEF WireSafe
  <1>2. PICK p \in Ports, l \in Links, t \in Trns, i \in Idles, ph \in BOOLEAN, c \in Chains :
          /\ cfg = [port |-> p, link |-> l, trn |-> t, phase |-> ph, idle |-> i, chain |-> c]
          /\ regs = [a \in (IF p = "Swd" THEN Addrs ELSE Devices(c)) |-> ResetWord]
    BY <1>1 DEF Init
  <1>3. regs = [a \in Addrs |-> ResetWord] /\ cfg.link \in Links /\ cfg.trn \in Trns /\ cfg.idle \in Idles
        /\ cfg.phase \in BOOLEAN
    <2>1. p = "Swd"  BY <1>1, <1>2
    <2>2. QED  BY <1>2, <2>1
  <1>4. /\ ready = FALSE /\ step = "none" /\ todo = <<>> /\ seen = <<>> /\ result = NoResult
        /\ plan = <<>> /\ heard = <<>> /\ mode = "lost" /\ ones = 0 /\ want = <<>> /\ sticky = FALSE
        /\ asked = [a \in DOMAIN regs |-> {ResetWord}] /\ noise = 0
    BY <1>1 DEF Init
  <1>5. ResetWord \in Word  BY DEF ResetWord, Word
  <1>6. WireTypes
    <2>1. /\ todo \in Seq(Clocks) /\ plan \in Seq(0 .. 3) /\ heard \in Seq(Bit) /\ seen \in Seq(Bit)
      BY <1>4, EmptySeq
    <2>2. regs \in [Addrs -> Word] /\ asked \in [Addrs -> SUBSET Word]  BY <1>3, <1>4, <1>5
    <2>3. ones \in 0 .. ResetOnes  BY <1>4, BoundsAssumption
    <2>4. QED  BY <1>1, <1>3, <1>4, <2>1, <2>2, <2>3 DEF WireTypes, Bit
  <1>7. Commanded  BY <1>3, <1>4 DEF Commanded
  <1>8. AtRest  BY <1>4 DEF AtRest, Untuned, NoResult
  <1>9. QED  BY <1>6, <1>7, <1>8 DEF WireInv

LEMMA WireSafeNext ==
  ASSUME MaxNoise <= 1, WireSafe, [Next]_vars
  PROVE  WireSafe'
  <1>1. cfg' = cfg /\ (slipped => slipped')
    <2>1. \A s, n : Command(s, n) => cfg' = cfg /\ slipped' = slipped  BY DEF Command
    <2>2. Connect \/ LineReset \/ ToIdle => cfg' = cfg /\ slipped' = slipped  BY <2>1 DEF Connect, LineReset, ToIdle
    <2>3. CASE Transfer  BY <2>1, <2>3 DEF Transfer
    <2>4. Acknowledged \/ Finish => cfg' = cfg /\ slipped' = slipped  BY DEF Acknowledged, Finish, host, wire
    <2>5. CASE SwdClock  BY <2>5 DEF SwdClock, host
    <2>6. CASE JtagClock  BY <2>6 DEF JtagClock, host, wire
    <2>7. UNCHANGED vars => cfg' = cfg /\ slipped' = slipped  BY DEF vars, host, wire
    <2>8. QED  BY <2>2, <2>3, <2>4, <2>5, <2>6, <2>7 DEF Next
  <1>2. SUFFICES ASSUME WireInv, ~slipped' PROVE WireInv'  BY <1>1 DEF WireSafe
  <1>3. cfg.port = "Swd"  BY <1>2 DEF WireInv, WireTypes
  <1>4. CASE Connect  BY <1>2, <1>4, ConnectStep
  <1>5. CASE LineReset  BY <1>2, <1>5, LineResetStep
  <1>6. CASE ToIdle  BY <1>3, <1>6 DEF ToIdle
  <1>7. CASE Transfer  BY <1>2, <1>7, TransferStep
  <1>8. CASE Acknowledged  BY <1>2, <1>8, AcknowledgedStep
  <1>9. CASE Finish  BY <1>2, <1>9, FinishStep
  <1>10. CASE SwdClock  BY <1>2, <1>10, ClockStep
  <1>11. CASE JtagClock  BY <1>3, <1>11 DEF JtagClock
  <1>12. CASE UNCHANGED vars  BY <1>2, <1>12, StandsStill
  <1>13. QED  BY <1>4, <1>5, <1>6, <1>7, <1>8, <1>9, <1>10, <1>11, <1>12 DEF Next

LEMMA WireSafety ==
  ASSUME MaxNoise <= 1
  PROVE  Spec => []WireSafe
  <1>1. Init => WireSafe  BY WireSafeInit
  <1>2. WireSafe /\ [Next]_vars => WireSafe'  BY WireSafeNext
  <1>3. QED  BY <1>1, <1>2, PTL DEF Spec
-----------------------------------------------------------------------------
(* JTAG. A transfer is two scans, of n and of m bits: where TMS is high,   *)
(* and the state of the TAPs when k clocks are done.                       *)
Taps == DOMAIN TapNext
High(n, m, j) == j \in {1, 2, n + 4, n + 5, n + 7, n + m + 9, n + m + 10}
TmsOf(n, m, j) == IF High(n, m, j) THEN 1 ELSE 0
Walk(n, m, k, t) ==
  \/ k = 0 /\ t = "RTI"
  \/ k = 1 /\ t = "SelDR"
  \/ k = 2 /\ t = "SelIR"
  \/ k = 3 /\ t = "CapIR"
  \/ 4 <= k /\ k < n + 4 /\ t = "ShIR"
  \/ k = n + 4 /\ t = "Ex1IR"
  \/ k = n + 5 /\ t = "UpdIR"
  \/ k = n + 6 /\ t = "RTI"
  \/ k = n + 7 /\ t = "SelDR"
  \/ k = n + 8 /\ t = "CapDR"
  \/ n + 9 <= k /\ k < n + m + 9 /\ t = "ShDR"
  \/ k = n + m + 9 /\ t = "Ex1DR"
  \/ k = n + m + 10 /\ t = "UpdDR"
  \/ k = n + m + 11 /\ t = "RTI"

ScanAhead(n, m, k) ==
  /\ Len(todo) = n + m + 11 - k
  /\ \A i \in 1 .. Len(todo) : todo[i].dio = TmsOf(n, m, k + i)

(* What an only device has of it: the instruction that is shifted in, then *)
(* what the device captured, which goes out while the request comes in.    *)
Only == Len(cfg.chain) = 1
Taken == given[0]
SentAt(c, n, m, j, op) ==
  /\ 4 < j /\ j < n + 5 => op.tdi = AccBits(n)[j - 4]
  /\ n + 9 < j /\ j < n + m + 10 => op.tdi = Acc(c)[j - (n + 9)]
  /\ op.look <=> n + 9 < j /\ j < n + m + 10
Loaded(n, m, k) == \A i \in 1 .. Len(todo) : SentAt(cmd, n, m, k + i, todo[i])
Moved(s, in, n, j) == s \in Seq(Bit) /\ Len(s) = n /\ \A i \in 1 .. j : s[n - j + i] = in[i]
Exchanged(m, j) ==
  /\ Taken \in Seq(Bit) /\ Len(Taken) = m
  /\ Moved(scan, Acc(cmd), m, j) /\ \A i \in 1 .. m - j : scan[i] = Taken[j + i]
  /\ seen \in Seq(Bit) /\ Len(seen) = j /\ \A i \in 1 .. j : seen[i] = Taken[i]
Wanted ==
  cmd.rnw \in Bit /\ cmd.at = 0 /\ cmd.word \in Word /\ (cmd.rnw = 0 => cmd.word \in asked[0])
Served ==
  /\ cmd.rnw = 1 => Tail(seen) = Tail(Taken)
  /\ Taken[1] = 1 => IF cmd.rnw = 1 THEN latched[0] = regs[0] ELSE cfg.link # "pio" => regs[0] = cmd.word
Selected(n, k) ==
  /\ 4 <= k /\ k < n + 5 => Moved(scan, AccBits(n), n, k - 4)
  /\ n + 5 <= k => instr[0] = "acc"
Answered(n, m, k) ==
  /\ k < n + 9 => seen = <<>>
  /\ n + 9 <= k /\ k < n + m + 10 => Exchanged(m, k - (n + 9))
  /\ n + m + 10 <= k => Served
Carried(n, m, k) ==
  n = cfg.chain[1] /\ m = Bits + 1 /\ Wanted /\ Loaded(n, m, k) /\ Selected(n, k) /\ Answered(n, m, k)

ChainTypes ==
  /\ cfg.port = "Jtag" /\ cfg.chain \in Chains /\ todo \in Seq(Clocks)
  /\ step \in {"none", "scanned"} /\ ready \in BOOLEAN
  /\ DOMAIN regs = Devices(cfg.chain) /\ DOMAIN instr = Devices(cfg.chain)
  /\ DOMAIN latched = Devices(cfg.chain) /\ asked \in [Devices(cfg.chain) -> SUBSET Word]
  /\ Only => regs[0] \in Word /\ regs[0] \in asked[0] /\ latched[0] \in Word

(* At rest or after DAP_Connect, on the way to Run-Test/Idle, in a         *)
(* transfer.                                                               *)
Parked ==
  /\ step = "none" /\ todo = <<>> /\ tap \in {"RTI", "TLR"} /\ (ready => tap = "RTI")
  /\ result.st = "ok" /\ Only /\ ~(cfg.link = "pio" /\ cmd.rnw = 0) => Scanned(cmd)
Forced ==
  /\ step = "none" /\ ~ready /\ result = NoResult /\ tap = "TLR"
  /\ \A i \in 1 .. Len(todo) : todo[i].dio = 1
Home(k) ==
  /\ Len(todo) = 6 - k /\ \A i \in 1 .. Len(todo) : todo[i].dio = IF k + i <= 5 THEN 1 ELSE 0
  /\ \/ tap = "TLR"
     \/ k = 0 /\ tap = "RTI"
     \/ k = 1 /\ tap = "SelDR"
     \/ k = 2 /\ tap = "SelIR"
Homing == step = "none" /\ ready /\ result = NoResult /\ \E k \in 0 .. 5 : Home(k)
ScanPoint(n, m, k) ==
  k <= n + m + 11 /\ ScanAhead(n, m, k) /\ Walk(n, m, k, tap) /\ (Only => Carried(n, m, k))
Scanning ==
  step = "scanned" /\ ready /\ \E n, m \in Nat \ {0} : \E k \in Nat : ScanPoint(n, m, k)

ChainInv == ChainTypes /\ (Parked \/ Forced \/ Homing \/ Scanning)
-----------------------------------------------------------------------------
(* The bits of some devices of a chain are finitely many; those of one     *)
(* device, and of none.                                                    *)
LEMMA TotalNat ==
  ASSUME NEW c \in Seq(Nat), NEW D \in SUBSET DOMAIN c
  PROVE  /\ Total(c, D) \in Nat
         /\ \A d \in D : c[d] # 0 => Total(c, D) # 0
  <1> DEFINE of(d) == {d} \X (1 .. c[d])
             parts == {of(d) : d \in D}
             f == [d \in D |-> of(d)]
  <1>1. Len(c) \in Nat /\ DOMAIN c = 1 .. Len(c) /\ \A d \in D : c[d] \in Nat  BY LenProperties
  <1>2. IsFiniteSet(D)
    <2>1. IsFiniteSet(1 .. Len(c))  BY <1>1, FS_Interval
    <2>2. QED  BY <1>1, <2>1, FS_Subset
  <1>3. f \in Surjection(D, parts)  BY DEF Surjection
  <1>4. IsFiniteSet(parts)  BY <1>2, <1>3, FS_Surjection
  <1>5. \A T \in parts : IsFiniteSet(T)
    <2>1. SUFFICES ASSUME NEW d \in D PROVE IsFiniteSet(of(d))  OBVIOUS
    <2>2. 1 \in Int /\ c[d] \in Int  BY <1>1
    <2>3. IsFiniteSet({d}) /\ IsFiniteSet(1 .. c[d])  BY <2>2, FS_Singleton, FS_Interval
    <2>4. QED  BY <2>3, FS_Product
  <1>6. IsFiniteSet(UNION parts)  BY <1>4, <1>5, FS_UNION
  <1>7. Total(c, D) = Cardinality(UNION parts)  BY DEF Total
  <1>8. Cardinality(UNION parts) \in Nat  BY <1>6, FS_CardinalityType
  <1>9. ASSUME NEW d \in D, c[d] # 0 PROVE Total(c, D) # 0
    <2>1. <<d, 1>> \in of(d)  BY <1>1, <1>9
    <2>2. <<d, 1>> \in UNION parts  BY <2>1
    <2>3. Cardinality(UNION parts) # 0
      <3> HIDE DEF parts
      <3>1. QED  BY <1>6, <2>2, FS_EmptySet
    <2>4. QED  BY <1>7, <2>3
  <1>10. QED  BY <1>7, <1>8, <1>9

LEMMA TotalNone == \A c : Total(c, {}) = 0
  <1>1. SUFFICES ASSUME NEW c PROVE Total(c, {}) = 0  OBVIOUS
  <1>2. UNION {{d} \X (1 .. c[d]) : d \in {}} = {}  OBVIOUS
  <1>3. QED  BY <1>2, FS_EmptySet DEF Total

LEMMA TotalOne ==
  ASSUME NEW c, c[1] \in Nat
  PROVE  Total(c, {1}) = c[1]
  <1> DEFINE n == c[1]
  <1>1. UNION {{d} \X (1 .. c[d]) : d \in {1}} = {1} \X (1 .. n)  OBVIOUS
  <1>2. IsFiniteSet({1}) /\ Cardinality({1}) = 1  BY FS_Singleton
  <1>3. IsFiniteSet(1 .. n) /\ Cardinality(1 .. n) = n
    <2>1. IsFiniteSet(1 .. n) /\ Cardinality(1 .. n) = IF 1 > n THEN 0 ELSE n - 1 + 1  BY SMTT(30), FS_Interval
    <2>2. QED  BY <2>1
  <1>4. Cardinality({1} \X (1 .. n)) = Cardinality({1}) * Cardinality(1 .. n)  BY <1>2, <1>3, FS_Product
  <1>5. 1 * n = n  OBVIOUS
  <1>6. QED  BY <1>1, <1>2, <1>3, <1>4, <1>5 DEF Total

(* A chain, its devices, and the bits ahead of one and behind it.          *)
LEMMA ChainBits ==
  ASSUME NEW c \in Chains, NEW at \in Devices(c)
  PROVE  /\ c \in Seq(Nat) /\ Len(c) \in Nat \ {0} /\ DOMAIN c = 1 .. Len(c)
         /\ at \in Nat /\ at < Len(c)
         /\ Total(c, DOMAIN c) \in Nat \ {0} /\ Total(c, at + 2 .. Len(c)) \in Nat
         /\ Total(c, 1 .. at) \in Nat /\ c[1] \in Nat \ {0, 1}
         /\ Len(c) = 1 => /\ at = 0 /\ Total(c, DOMAIN c) = c[1]
                          /\ Total(c, at + 2 .. Len(c)) = 0 /\ Total(c, 1 .. at) = 0
  <1>1. c \in Seq(Nat \ {0, 1}) /\ c # <<>>  BY WiresAssumption
  <1>2. Len(c) \in Nat \ {0} /\ DOMAIN c = 1 .. Len(c) /\ \A d \in 1 .. Len(c) : c[d] \in Nat \ {0, 1}
    BY <1>1, LenProperties, EmptySeq
  <1>3. c \in Seq(Nat)
    <2>1. c \in [1 .. Len(c) -> Nat \ {0, 1}]  BY <1>1, LenProperties
    <2>2. c \in [1 .. Len(c) -> Nat]  BY <2>1
    <2>3. QED  BY <1>2, <2>2, SeqDef
  <1>4. at \in Nat /\ at < Len(c)  BY <1>2 DEF Devices
  <1>5. 1 \in DOMAIN c /\ c[1] \in Nat \ {0, 1}  BY <1>2
  <1>6. at + 2 .. Len(c) \in SUBSET DOMAIN c /\ 1 .. at \in SUBSET DOMAIN c  BY <1>2, <1>4
  <1>7. Total(c, DOMAIN c) \in Nat \ {0}
    <2>1. DOMAIN c \in SUBSET DOMAIN c  OBVIOUS
    <2>2. QED  BY <1>3, <1>5, <2>1, TotalNat
  <1>8. Total(c, at + 2 .. Len(c)) \in Nat /\ Total(c, 1 .. at) \in Nat  BY <1>3, <1>6, TotalNat
  <1>9. ASSUME Len(c) = 1
        PROVE  /\ at = 0 /\ Total(c, DOMAIN c) = c[1]
               /\ Total(c, at + 2 .. Len(c)) = 0 /\ Total(c, 1 .. at) = 0
    <2>1. at = 0 /\ DOMAIN c = {1} /\ at + 2 .. Len(c) = {} /\ 1 .. at = {}  BY <1>2, <1>4, <1>9
    <2>2. QED  BY <1>5, <2>1, TotalOne, TotalNone
  <1>10. QED  BY <1>2, <1>3, <1>4, <1>5, <1>7, <1>8, <1>9
-----------------------------------------------------------------------------
(* The next state of the TAPs on the way of a transfer.                    *)
LEMMA TapSteps ==
  /\ TapNext["TLR"] = <<"RTI", "TLR">> /\ TapNext["RTI"] = <<"RTI", "SelDR">>
  /\ TapNext["SelDR"] = <<"CapDR", "SelIR">> /\ TapNext["CapDR"] = <<"ShDR", "Ex1DR">>
  /\ TapNext["ShDR"] = <<"ShDR", "Ex1DR">> /\ TapNext["Ex1DR"] = <<"PauDR", "UpdDR">>
  /\ TapNext["UpdDR"] = <<"RTI", "SelDR">> /\ TapNext["SelIR"] = <<"CapIR", "TLR">>
  /\ TapNext["CapIR"] = <<"ShIR", "Ex1IR">> /\ TapNext["ShIR"] = <<"ShIR", "Ex1IR">>
  /\ TapNext["Ex1IR"] = <<"PauIR", "UpdIR">> /\ TapNext["UpdIR"] = <<"RTI", "SelDR">>
  BY SMTT(30) DEF TapNext

LEMMA WalkStep ==
  ASSUME NEW n \in Nat \ {0}, NEW m \in Nat \ {0}, NEW k \in Nat, k < n + m + 11, NEW t, Walk(n, m, k, t)
  PROVE  Walk(n, m, k + 1, TapNext[t][TmsOf(n, m, k + 1) + 1])
  <1> DEFINE to == TapNext[t][TmsOf(n, m, k + 1) + 1]
  <1>0. High(n, m, k + 1) => to = TapNext[t][2]  BY DEF TmsOf
  <1>a. ~High(n, m, k + 1) => to = TapNext[t][1]  BY DEF TmsOf
  <1> HIDE DEF to
  <1>1. CASE k = 0 /\ t = "RTI"
    <2>1. High(n, m, k + 1)  BY <1>1 DEF High
    <2>2. to = "SelDR"  BY <1>0, <1>1, <2>1, TapSteps
    <2>3. QED  BY <1>1, <2>2 DEF Walk, to
  <1>2. CASE k = 1 /\ t = "SelDR"
    <2>1. High(n, m, k + 1)  BY <1>2 DEF High
    <2>2. to = "SelIR"  BY <1>0, <1>2, <2>1, TapSteps
    <2>3. QED  BY <1>2, <2>2 DEF Walk, to
  <1>3. CASE k = 2 /\ t = "SelIR"
    <2>1. ~High(n, m, k + 1)  BY <1>3 DEF High
    <2>2. to = "CapIR"  BY <1>a, <1>3, <2>1, TapSteps
    <2>3. QED  BY <1>3, <2>2 DEF Walk, to
  <1>4. CASE k = 3 /\ t = "CapIR"
    <2>1. ~High(n, m, k + 1)  BY <1>4 DEF High
    <2>2. to = "ShIR"  BY <1>a, <1>4, <2>1, TapSteps
    <2>3. QED  BY <1>4, <2>2 DEF Walk, to
  <1>5. CASE 4 <= k /\ k < n + 4 /\ t = "ShIR"
    <2>1. CASE k + 1 = n + 4
      <3>1. High(n, m, k + 1)  BY <2>1 DEF High
      <3>2. to = "Ex1IR"  BY <1>0, <1>5, <3>1, TapSteps
      <3>3. QED  BY <2>1, <3>2 DEF Walk, to
    <2>2. CASE k + 1 < n + 4
      <3>1. ~High(n, m, k + 1)  BY <1>5, <2>2 DEF High
      <3>2. to = "ShIR"  BY <1>a, <1>5, <3>1, TapSteps
      <3>3. QED  BY <1>5, <2>2, <3>2 DEF Walk, to
    <2>3. QED  BY <1>5, <2>1, <2>2
  <1>6. CASE k = n + 4 /\ t = "Ex1IR"
    <2>1. High(n, m, k + 1)  BY <1>6 DEF High
    <2>2. to = "UpdIR"  BY <1>0, <1>6, <2>1, TapSteps
    <2>3. QED  BY <1>6, <2>2 DEF Walk, to
  <1>7. CASE k = n + 5 /\ t = "UpdIR"
    <2>1. ~High(n, m, k + 1)  BY <1>7 DEF High
    <2>2. to = "RTI"  BY <1>a, <1>7, <2>1, TapSteps
    <2>3. QED  BY <1>7, <2>2 DEF Walk, to
  <1>8. CASE k = n + 6 /\ t = "RTI"
    <2>1. High(n, m, k + 1)  BY <1>8 DEF High
    <2>2. to = "SelDR"  BY <1>0, <1>8, <2>1, TapSteps
    <2>3. QED  BY <1>8, <2>2 DEF Walk, to
  <1>9. CASE k = n + 7 /\ t = "SelDR"
    <2>1. ~High(n, m, k + 1)  BY <1>9 DEF High
    <2>2. to = "CapDR"  BY <1>a, <1>9, <2>1, TapSteps
    <2>3. QED  BY <1>9, <2>2 DEF Walk, to
  <1>10. CASE k = n + 8 /\ t = "CapDR"
    <2>1. ~High(n, m, k + 1)  BY <1>10 DEF High
    <2>2. to = "ShDR"  BY <1>a, <1>10, <2>1, TapSteps
    <2>3. QED  BY <1>10, <2>2 DEF Walk, to
  <1>11. CASE n + 9 <= k /\ k < n + m + 9 /\ t = "ShDR"
    <2>1. CASE k + 1 = n + m + 9
      <3>1. High(n, m, k + 1)  BY <2>1 DEF High
      <3>2. to = "Ex1DR"  BY <1>0, <1>11, <3>1, TapSteps
      <3>3. QED  BY <2>1, <3>2 DEF Walk, to
    <2>2. CASE k + 1 < n + m + 9
      <3>1. ~High(n, m, k + 1)  BY <1>11, <2>2 DEF High
      <3>2. to = "ShDR"  BY <1>a, <1>11, <3>1, TapSteps
      <3>3. QED  BY <1>11, <2>2, <3>2 DEF Walk, to
    <2>3. QED  BY <1>11, <2>1, <2>2
  <1>12. CASE k = n + m + 9 /\ t = "Ex1DR"
    <2>1. High(n, m, k + 1)  BY <1>12 DEF High
    <2>2. to = "UpdDR"  BY <1>0, <1>12, <2>1, TapSteps
    <2>3. QED  BY <1>12, <2>2 DEF Walk, to
  <1>13. CASE k = n + m + 10 /\ t = "UpdDR"
    <2>1. ~High(n, m, k + 1)  BY <1>13 DEF High
    <2>2. to = "RTI"  BY <1>a, <1>13, <2>1, TapSteps
    <2>3. QED  BY <1>13, <2>2 DEF Walk, to
  <1>14. QED
    BY <1>1, <1>2, <1>3, <1>4, <1>5, <1>6, <1>7, <1>8, <1>9, <1>10, <1>11, <1>12, <1>13 DEF Walk
-----------------------------------------------------------------------------
(* The clocks of a transfer.                                               *)
LEMMA BitAndWord ==
  ASSUME NEW b \in Bit, NEW w \in Word
  PROVE  /\ <<b>> \o w \in Seq(Bit) /\ Len(<<b>> \o w) = Bits + 1 /\ (<<b>> \o w)[1] = b
         /\ Tail(<<b>> \o w) = w /\ w \in Seq(Bit) /\ Bits \in Nat \ {0}
  <1>1. Bits \in Nat \ {0} /\ w \in [1 .. Bits -> Bit]  BY WiresAssumption DEF Word, Bit
  <1>2. w \in Seq(Bit)  BY <1>1, SeqDef
  <1>3. Len(w) = Bits  BY <1>1, <1>2, LenProperties
  <1> DEFINE s == <<b>>
             r == s \o w
  <1>4. s \in Seq(Bit) /\ Len(s) = 1 /\ s[1] = b  OBVIOUS
  <1> HIDE DEF s
  <1>5. /\ r \in Seq(Bit) /\ Len(r) = 1 + Bits /\ r[1] = b
        /\ \A i \in 1 .. 1 + Bits : i > 1 => r[i] = w[i - 1]
    <2>1. /\ r \in Seq(Bit) /\ Len(r) = Len(s) + Len(w) /\ \A i \in 1 .. Len(s) : r[i] = s[i]
          /\ \A i \in 1 .. Len(s) + Len(w) : i > Len(s) => r[i] = w[i - Len(s)]
      BY ONLY <1>2, <1>4, Join
    <2>2. 1 \in 1 .. Len(s)  BY <1>4
    <2>3. QED  BY <1>3, <1>4, <2>1, <2>2
  <1> HIDE DEF r
  <1>6. r # <<>>  BY <1>1, <1>5
  <1>7. Tail(r) \in Seq(Bit) /\ Len(Tail(r)) = Bits /\ \A i \in 1 .. Bits : Tail(r)[i] = r[i + 1]
    <2>a. r \in Seq(Bit) /\ Len(r) = 1 + Bits  BY <1>5
    <2>b. /\ Tail(r) \in Seq(Bit) /\ Len(Tail(r)) = Len(r) - 1
          /\ \A i \in 1 .. Len(r) - 1 : Tail(r)[i] = r[i + 1]
      BY ONLY <2>a, <1>6, TailOf
    <2>1. Len(r) - 1 = Bits  BY <1>1, <2>a
    <2>2. QED  BY ONLY <2>b, <2>1, Zenon
  <1>8. ASSUME NEW i \in 1 .. Bits PROVE Tail(r)[i] = w[i]
    <2>1. PICK j \in 1 .. 1 + Bits : j = i + 1  BY <1>1
    <2>2. j > 1 /\ j - 1 = i  BY <2>1
    <2>3. QED  BY <1>5, <1>7, <2>1, <2>2
  <1>9. Tail(r) = w  BY <1>2, <1>3, <1>7, <1>8, SeqEqual
  <1>10. Len(r) = Bits + 1  BY <1>1, <1>5
  <1>11. QED  BY <1>1, <1>2, <1>5, <1>9, <1>10 DEF r, s

LEMMA TmsList ==
  ASSUME NEW s \in Seq(Bit)
  PROVE  /\ IsList(Tms(s), Len(s))
         /\ \A i \in 1 .. Len(s) : Tms(s)[i].dio = s[i] /\ ~Tms(s)[i].look
  <1>1. Len(s) \in Nat /\ DOMAIN s = 1 .. Len(s) /\ \A i \in 1 .. Len(s) : s[i] \in Bit  BY LenProperties
  <1>2. \A b \in Bit : LET c == Shift(b, 0, FALSE) IN c \in Clocks /\ c.dio = b /\ ~c.look
    BY DEF Shift, Clocks, Bit
  <1>3. Tms(s) \in [1 .. Len(s) -> Clocks]  BY <1>1, <1>2 DEF Tms
  <1>4. Tms(s) \in Seq(Clocks)  BY <1>1, <1>3, SeqDef
  <1>5. Len(Tms(s)) = Len(s)  BY <1>1, <1>3, <1>4, LenProperties
  <1>6. \A i \in 1 .. Len(s) : Tms(s)[i] = Shift(s[i], 0, FALSE)  BY SMTT(30), <1>1 DEF Tms
  <1>7. QED  BY <1>1, <1>2, <1>4, <1>5, <1>6 DEF IsList

LEMMA ScanList ==
  ASSUME NEW s \in Seq(Bit), NEW look
  PROVE  /\ IsList(Scan(s, look), Len(s))
         /\ \A i \in 1 .. Len(s) : /\ Scan(s, look)[i].dio = IF i = Len(s) THEN 1 ELSE 0
                                   /\ Scan(s, look)[i].tdi = s[i] /\ (Scan(s, look)[i].look <=> i \in look)
  <1>1. Len(s) \in Nat /\ DOMAIN s = 1 .. Len(s) /\ \A i \in 1 .. Len(s) : s[i] \in Bit  BY LenProperties
  <1> DEFINE f(i) == Shift(IF i = Len(s) THEN 1 ELSE 0, s[i], i \in look)
  <1>3. ASSUME NEW i \in 1 .. Len(s)
        PROVE  /\ f(i) \in Clocks /\ f(i).dio = (IF i = Len(s) THEN 1 ELSE 0)
               /\ f(i).tdi = s[i] /\ (f(i).look <=> i \in look)
    <2>1. PICK d \in Bit : d = IF i = Len(s) THEN 1 ELSE 0  BY DEF Bit
    <2>2. PICK l \in BOOLEAN : l = (i \in look)
      <3>1. CASE i \in look
        <4>1. TRUE = (i \in look)  BY <3>1
        <4>2. QED  BY <4>1, Zenon
      <3>2. CASE i \notin look
        <4>1. FALSE = (i \in look)  BY <3>2
        <4>2. QED  BY <4>1, Zenon
      <3>3. QED  BY <3>1, <3>2
    <2>3. f(i) = Shift(d, s[i], l)  BY ONLY <2>1, <2>2, Zenon
    <2>4. s[i] \in Bit  BY <1>1
    <2>5. LET c == Shift(d, s[i], l) IN c \in Clocks /\ c.dio = d /\ c.tdi = s[i] /\ c.look = l
      BY ONLY <2>4, d \in Bit, l \in BOOLEAN DEF Shift, Clocks, Bit
    <2>6. f(i) \in Clocks /\ f(i).dio = d /\ f(i).tdi = s[i] /\ f(i).look = l
      BY ONLY <2>3, <2>5, Zenon
    <2>7. QED  BY ONLY <2>1, <2>2, <2>6, Zenon
  <1>4. Scan(s, look) = [i \in 1 .. Len(s) |-> f(i)]  BY <1>1 DEF Scan, LastBit
  <1> HIDE DEF f
  <1>5. Scan(s, look) \in [1 .. Len(s) -> Clocks]  BY <1>3, <1>4
  <1>6. Scan(s, look) \in Seq(Clocks)  BY <1>1, <1>5, SeqDef
  <1>7. Len(Scan(s, look)) = Len(s)  BY <1>1, <1>5, <1>6, LenProperties
  <1>8. \A i \in 1 .. Len(s) : Scan(s, look)[i] = f(i)  BY <1>4
  <1>9. QED  BY <1>1, <1>3, <1>6, <1>7, <1>8 DEF IsList

(* A list between two others.                                              *)
Framed(r, a, s, b, p, n, q) ==
  /\ IsList(r, p + n + q) /\ \A i \in 1 .. p : r[i] = a[i]
  /\ \A i \in 1 .. n : r[p + i] = s[i]
  /\ \A i \in 1 .. q : r[p + n + i] = b[i]

LEMMA JoinThree ==
  ASSUME NEW a, NEW s, NEW b, NEW p, NEW n, NEW q, IsList(a, p), IsList(s, n), IsList(b, q)
  PROVE  Framed(a \o s \o b, a, s, b, p, n, q)
  <1> DEFINE t == a \o s
             r == t \o b
  <1>1. p \in Nat /\ n \in Nat /\ q \in Nat  BY DEF IsList
  <1>2. Joined(t, a, s, p, n)  BY JoinLists
  <1>3. IsList(t, p + n)  BY <1>2 DEF Joined
  <1> HIDE DEF t
  <1>4. Joined(r, t, b, p + n, q)  BY <1>3, JoinLists
  <1> HIDE DEF r
  <1>5. /\ IsList(r, p + n + q) /\ \A i \in 1 .. p + n : r[i] = t[i]
        /\ \A i \in 1 .. p + n + q : i > p + n => r[i] = b[i - (p + n)]
    BY <1>4 DEF Joined
  <1>6. /\ \A i \in 1 .. p : t[i] = a[i]
        /\ \A i \in 1 .. p + n : i > p => t[i] = s[i - p]
    BY <1>2 DEF Joined
  <1>7. ASSUME NEW i \in 1 .. p PROVE r[i] = a[i]
    <2>1. i \in 1 .. p + n  BY <1>1
    <2>2. QED  BY <1>5, <1>6, <2>1
  <1>8. ASSUME NEW i \in 1 .. n PROVE r[p + i] = s[i]
    <2>1. PICK j \in 1 .. p + n : j = p + i  BY <1>1
    <2>2. j > p /\ j - p = i  BY <1>1, <2>1
    <2>3. QED  BY <1>5, <1>6, <2>1, <2>2
  <1>9. ASSUME NEW i \in 1 .. q PROVE r[p + n + i] = b[i]
    <2>1. PICK j \in 1 .. p + n + q : j = p + n + i  BY <1>1
    <2>2. j > p + n /\ j - (p + n) = i  BY <1>1, <2>1
    <2>3. QED  BY <1>5, <2>1, <2>2
  <1>10. QED  BY <1>5, <1>7, <1>8, <1>9 DEF Framed, r, t
LEMMA IrShape ==
  ASSUME cfg.chain \in Chains, NEW at \in Devices(cfg.chain)
  PROVE  \E n \in Nat \ {0} :
           /\ IrBits(cfg.chain, at) \in Seq(Bit) /\ Len(IrBits(cfg.chain, at)) = n
           /\ Only => n = cfg.chain[1] /\ IrBits(cfg.chain, at) = AccBits(n)
  <1> DEFINE s == IrBits(cfg.chain, at)
             z == Total(cfg.chain, at + 2 .. Len(cfg.chain)) + 1
  <1>1. PICK n \in Nat \ {0} : n = Total(cfg.chain, DOMAIN cfg.chain)  BY ChainBits
  <1>2. s = [i \in 1 .. n |-> IF i = z THEN 0 ELSE 1]  BY <1>1 DEF IrBits
  <1>3. Only => n = cfg.chain[1] /\ z = 1  BY <1>1, ChainBits DEF Only
  <1> HIDE DEF s, z
  <1>4. s \in [1 .. n -> Bit]  BY <1>2 DEF Bit
  <1>5. s \in Seq(Bit)  BY <1>4, SeqDef
  <1>6. Len(s) = n  BY <1>4, <1>5, LenProperties
  <1>7. Only => s = AccBits(n)  BY <1>2, <1>3 DEF AccBits
  <1>8. QED  BY <1>3, <1>5, <1>6, <1>7 DEF s

LEMMA DrShape ==
  ASSUME cfg.chain \in Chains, NEW at \in Devices(cfg.chain), NEW dr \in Seq(Bit), Len(dr) = Bits + 1
  PROVE  \E m \in Nat \ {0} :
           /\ DrBefore(at) \o dr \o DrAfter(at) \in Seq(Bit) /\ Len(DrBefore(at) \o dr \o DrAfter(at)) = m
           /\ Only => /\ m = Bits + 1 /\ DrBefore(at) \o dr \o DrAfter(at) = dr
                      /\ Len(DrBefore(at)) = 0
  <1> DEFINE x == DrBefore(at)
             y == DrAfter(at)
             len == Len(cfg.chain)
  <1>1. 0 \in Bit /\ 1 \in Bit /\ Bits \in Nat  BY WiresAssumption DEF Bit
  <1>2. /\ at \in Nat /\ len - 1 - at \in Nat
        /\ Total(cfg.chain, at + 2 .. len) \in Nat /\ Total(cfg.chain, 1 .. at) \in Nat
        /\ Only => at = 0 /\ len - 1 - at = 0 /\ Total(cfg.chain, at + 2 .. len) = 0
                   /\ Total(cfg.chain, 1 .. at) = 0
    <2>1. /\ len \in Nat \ {0} /\ at \in Nat /\ at < len
          /\ Total(cfg.chain, at + 2 .. len) \in Nat /\ Total(cfg.chain, 1 .. at) \in Nat
          /\ len = 1 => at = 0 /\ Total(cfg.chain, at + 2 .. len) = 0 /\ Total(cfg.chain, 1 .. at) = 0
      BY ChainBits
    <2>2. len - 1 - at \in Nat  BY <2>1
    <2>3. len = 1 => len - 1 - at = 0
      <3>1. ASSUME len = 1 PROVE len - 1 - at = 0
        <4>1. at = 0 /\ len - 1 = 0  BY <2>1, <3>1
        <4>2. QED  BY <4>1
      <3>2. QED  BY <3>1
    <2>4. Only <=> len = 1  BY DEF Only
    <2> HIDE DEF len
    <2>5. QED  BY <2>1, <2>2, <2>3, <2>4
  <1>3. PICK p \in Nat, u \in Bit : x = Repeat(p, u) /\ (Only => p = 0)  BY <1>1, <1>2 DEF DrBefore
  <1>4. PICK q \in Nat, v \in Bit : y = Repeat(q, v) /\ (Only => q = 0)  BY <1>1, <1>2 DEF DrAfter
  <1>5. x \in Seq(Bit) /\ Len(x) = p /\ y \in Seq(Bit) /\ Len(y) = q  BY <1>3, <1>4, RepeatList
  <1> HIDE DEF x, y
  <1>6. x \o dr \in Seq(Bit) /\ Len(x \o dr) = p + Bits + 1
    <2>1. x \o dr \in Seq(Bit) /\ Len(x \o dr) = Len(x) + Len(dr)  BY <1>5, ConcatProperties
    <2>2. QED  BY <1>1, <1>5, <2>1
  <1>7. x \o dr \o y \in Seq(Bit) /\ Len(x \o dr \o y) = p + Bits + 1 + q
    <2>1. PICK t \in Seq(Bit) : t = x \o dr  BY <1>6
    <2>2. t \o y \in Seq(Bit) /\ Len(t \o y) = Len(t) + Len(y)  BY <1>5, <2>1, ConcatProperties
    <2>3. QED  BY <1>5, <1>6, <2>1, <2>2
  <1>8. Only => x \o dr \o y = dr
    <2>1. SUFFICES ASSUME Only PROVE x \o dr \o y = dr  OBVIOUS
    <2>2. x = <<>> /\ y = <<>>  BY <1>3, <1>4, <1>5, <2>1, EmptySeq
    <2>3. <<>> \o dr = dr /\ dr \o <<>> = dr  BY ConcatEmptySeq
    <2>4. QED  BY <2>2, <2>3
  <1>9. PICK m \in Nat \ {0} : m = p + Bits + 1 + q  BY <1>1
  <1>10. QED  BY <1>1, <1>3, <1>4, <1>5, <1>7, <1>8, <1>9 DEF x, y

LEMMA TmsLists ==
  /\ IsList(Tms(<<1, 1, 0, 0>>), 4) /\ \A i \in 1 .. 4 : ~Tms(<<1, 1, 0, 0>>)[i].look
  /\ Tms(<<1, 1, 0, 0>>)[1].dio = 1 /\ Tms(<<1, 1, 0, 0>>)[2].dio = 1
  /\ Tms(<<1, 1, 0, 0>>)[3].dio = 0 /\ Tms(<<1, 1, 0, 0>>)[4].dio = 0
  /\ IsList(Tms(<<1, 0, 0>>), 3) /\ \A i \in 1 .. 3 : ~Tms(<<1, 0, 0>>)[i].look
  /\ Tms(<<1, 0, 0>>)[1].dio = 1 /\ Tms(<<1, 0, 0>>)[2].dio = 0 /\ Tms(<<1, 0, 0>>)[3].dio = 0
  /\ IsList(Tms(<<1, 0>>), 2) /\ \A i \in 1 .. 2 : ~Tms(<<1, 0>>)[i].look
  /\ Tms(<<1, 0>>)[1].dio = 1 /\ Tms(<<1, 0>>)[2].dio = 0
  <1> DEFINE a == <<1, 1, 0, 0>>
             b == <<1, 0, 0>>
             e == <<1, 0>>
  <1>1. a \in Seq(Bit) /\ b \in Seq(Bit) /\ e \in Seq(Bit)  BY DEF Bit
  <1>2. Len(a) = 4 /\ a[1] = 1 /\ a[2] = 1 /\ a[3] = 0 /\ a[4] = 0  OBVIOUS
  <1>3. Len(b) = 3 /\ b[1] = 1 /\ b[2] = 0 /\ b[3] = 0 /\ Len(e) = 2 /\ e[1] = 1 /\ e[2] = 0  OBVIOUS
  <1> HIDE DEF a, b, e
  <1>4. IsList(Tms(a), 4) /\ \A i \in 1 .. 4 : Tms(a)[i].dio = a[i] /\ ~Tms(a)[i].look  BY <1>1, <1>2, TmsList
  <1>5. IsList(Tms(b), 3) /\ \A i \in 1 .. 3 : Tms(b)[i].dio = b[i] /\ ~Tms(b)[i].look  BY <1>1, <1>3, TmsList
  <1>6. IsList(Tms(e), 2) /\ \A i \in 1 .. 2 : Tms(e)[i].dio = e[i] /\ ~Tms(e)[i].look  BY <1>1, <1>3, TmsList
  <1>7. QED  BY <1>2, <1>3, <1>4, <1>5, <1>6 DEF a, b, e

(* One clock of a transfer as it has to be, and all of them.               *)
Right(c, n, m, j, op) == op.dio = TmsOf(n, m, j) /\ (Only => SentAt(c, n, m, j, op))
TwoScans(r, c, n, m) ==
  /\ IsList(r, n + m + 11) /\ \A j \in 1 .. n + m + 11 : Right(c, n, m, j, r[j])
  /\ Only => n = cfg.chain[1] /\ m = Bits + 1

LEMMA TransferShape ==
  ASSUME cfg.chain \in Chains, NEW at \in Devices(cfg.chain), NEW c, c.rnw \in Bit, c.word \in Word,
         NEW r, r = WriteIr(at) \o ReadWriteDr(at, Acc(c))
  PROVE  \E n, m \in Nat \ {0} : TwoScans(r, c, n, m)
  <1> DEFINE ir == IrBits(cfg.chain, at)
             before == DrBefore(at)
             dr == Acc(c)
             bits == before \o dr \o DrAfter(at)
             look == Len(before) + 1 .. Len(before) + Len(dr)
  <1>1. dr \in Seq(Bit) /\ Len(dr) = Bits + 1 /\ Bits \in Nat \ {0}  BY BitAndWord DEF Acc, Bit
  <1>2. PICK n \in Nat \ {0} : ir \in Seq(Bit) /\ Len(ir) = n /\ (Only => n = cfg.chain[1] /\ ir = AccBits(n))
    BY IrShape
  <1> HIDE DEF dr
  <1>3. PICK m \in Nat \ {0} : /\ bits \in Seq(Bit) /\ Len(bits) = m
                               /\ Only => m = Bits + 1 /\ bits = dr /\ Len(before) = 0
    BY <1>1, DrShape
  <1>4. Only => look = 1 .. m  BY <1>1, <1>3
  <1> DEFINE a == Tms(<<1, 1, 0, 0>>)
             b == Tms(<<1, 0, 0>>)
             e == Tms(<<1, 0>>)
             s == Scan(ir, {})
             d == Scan(bits, look)
             w == a \o s \o e
             v == b \o d \o e
  <1>5. r = w \o v  BY DEF WriteIr, ReadWriteDr, dr
  <1>6. /\ IsList(a, 4) /\ a[1].dio = 1 /\ a[2].dio = 1 /\ a[3].dio = 0 /\ a[4].dio = 0
        /\ \A i \in 1 .. 4 : ~a[i].look
    BY TmsLists
  <1>7. /\ IsList(b, 3) /\ b[1].dio = 1 /\ b[2].dio = 0 /\ b[3].dio = 0 /\ \A i \in 1 .. 3 : ~b[i].look
    BY TmsLists
  <1>8. /\ IsList(e, 2) /\ e[1].dio = 1 /\ e[2].dio = 0 /\ \A i \in 1 .. 2 : ~e[i].look
    BY TmsLists
  <1> HIDE DEF ir, bits, look, before
  <1>9. /\ IsList(s, n) /\ \A i \in 1 .. n : s[i].dio = (IF i = n THEN 1 ELSE 0) /\ s[i].tdi = ir[i] /\ ~s[i].look
    BY <1>2, ScanList
  <1>10. /\ IsList(d, m) /\ \A i \in 1 .. m : /\ d[i].dio = (IF i = m THEN 1 ELSE 0) /\ d[i].tdi = bits[i]
                                              /\ (d[i].look <=> i \in look)
    BY <1>3, ScanList
  <1> HIDE DEF a, b, e, s, d
  <1>11. Framed(w, a, s, e, 4, n, 2)  BY <1>6, <1>8, <1>9, JoinThree
  <1>12. Framed(v, b, d, e, 3, m, 2)  BY <1>7, <1>8, <1>10, JoinThree
  <1> HIDE DEF w, v
  <1>13. IsList(w, 4 + n + 2) /\ IsList(v, 3 + m + 2)  BY <1>11, <1>12 DEF Framed
  <1>14. Joined(r, w, v, 4 + n + 2, 3 + m + 2)  BY <1>5, <1>13, JoinLists
  <1>15. /\ IsList(r, n + m + 11) /\ \A j \in 1 .. n + 6 : r[j] = w[j]
         /\ \A i \in 1 .. m + 5 : r[n + 6 + i] = v[i]
    <2>1. 4 + n + 2 = n + 6 /\ 3 + m + 2 = m + 5 /\ n + 6 + (m + 5) = n + m + 11  OBVIOUS
    <2>2. /\ IsList(r, n + 6 + (m + 5)) /\ \A j \in 1 .. n + 6 : r[j] = w[j]
          /\ \A j \in 1 .. n + 6 + (m + 5) : j > n + 6 => r[j] = v[j - (n + 6)]
      BY <1>14, <2>1 DEF Joined
    <2>3. ASSUME NEW i \in 1 .. m + 5 PROVE r[n + 6 + i] = v[i]
      <3>1. PICK j \in 1 .. n + 6 + (m + 5) : j = n + 6 + i  OBVIOUS
      <3>2. j > n + 6 /\ j - (n + 6) = i  BY <3>1
      <3>3. QED  BY <2>2, <3>1, <3>2
    <2>4. QED  BY <2>1, <2>2, <2>3
  <1>16. ASSUME NEW j \in 1 .. n + m + 11 PROVE Right(c, n, m, j, r[j])
    <2>1. CASE j <= 4
      <3>1. j \in 1 .. 4 /\ j \in 1 .. n + 6  BY <2>1
      <3>2. r[j] = a[j]  BY <1>11, <1>15, <3>1 DEF Framed
      <3>3. TmsOf(n, m, j) = IF j <= 2 THEN 1 ELSE 0  BY <3>1 DEF TmsOf, High
      <3>4. a[j].dio = IF j <= 2 THEN 1 ELSE 0
        <4>1. j = 1 \/ j = 2 \/ j = 3 \/ j = 4  BY <3>1
        <4>2. QED  BY <1>6, <4>1
      <3>5. SentAt(c, n, m, j, a[j])  BY <1>6, <3>1 DEF SentAt
      <3>6. QED  BY <3>2, <3>3, <3>4, <3>5 DEF Right
    <2>2. CASE 4 < j /\ j <= n + 4
      <3>1. PICK i \in 1 .. n : i = j - 4  BY <2>2
      <3>2. j = 4 + i /\ j \in 1 .. n + 6  BY <2>2, <3>1
      <3>3. r[j] = s[i]  BY <1>11, <1>15, <3>2 DEF Framed
      <3>4. TmsOf(n, m, j) = IF i = n THEN 1 ELSE 0  BY <2>2, <3>1 DEF TmsOf, High
      <3>5. Only => s[i].tdi = AccBits(n)[j - 4]  BY <1>2, <1>9, <3>1
      <3>6. Only => SentAt(c, n, m, j, s[i])
        <4>1. ~(n + 9 < j)  BY <2>2
        <4>2. QED  BY <1>9, <3>5, <4>1 DEF SentAt
      <3>7. QED  BY <1>9, <3>3, <3>4, <3>6 DEF Right
    <2>3. CASE n + 4 < j /\ j <= n + 6
      <3>1. PICK i \in 1 .. 2 : i = j - (n + 4)  BY <2>3
      <3>2. j = 4 + n + i /\ j \in 1 .. n + 6  BY <2>3, <3>1
      <3>3. r[j] = e[i]  BY <1>11, <1>15, <3>2 DEF Framed
      <3>4. TmsOf(n, m, j) = IF i = 1 THEN 1 ELSE 0  BY <3>1, <3>2 DEF TmsOf, High
      <3>5. e[i].dio = IF i = 1 THEN 1 ELSE 0
        <4>1. i = 1 \/ i = 2  BY <3>1
        <4>2. QED  BY <1>8, <4>1
      <3>6. SentAt(c, n, m, j, e[i])
        <4>1. ~(n + 9 < j) /\ ~(j < n + 5)  BY <2>3
        <4>2. QED  BY <1>8, <4>1 DEF SentAt
      <3>7. QED  BY <3>3, <3>4, <3>5, <3>6 DEF Right
    <2>4. CASE n + 6 < j /\ j <= n + 9
      <3>1. PICK i \in 1 .. 3 : i = j - (n + 6)  BY <2>4
      <3>2. j = n + 6 + i /\ i \in 1 .. m + 5  BY <2>4, <3>1
      <3>3. r[j] = b[i]  BY <1>12, <1>15, <3>2 DEF Framed
      <3>4. TmsOf(n, m, j) = IF i = 1 THEN 1 ELSE 0  BY <3>1, <3>2 DEF TmsOf, High
      <3>5. b[i].dio = IF i = 1 THEN 1 ELSE 0
        <4>1. i = 1 \/ i = 2 \/ i = 3  BY <3>1
        <4>2. QED  BY <1>7, <4>1
      <3>6. SentAt(c, n, m, j, b[i])
        <4>1. ~(n + 9 < j) /\ ~(j < n + 5)  BY <2>4
        <4>2. QED  BY <1>7, <4>1 DEF SentAt
      <3>7. QED  BY <3>3, <3>4, <3>5, <3>6 DEF Right
    <2>5. CASE n + 9 < j /\ j <= n + m + 9
      <3>1. PICK i \in 1 .. m : i = j - (n + 9)  BY <2>5
      <3>2. PICK h \in 1 .. m + 5 : h = 3 + i  BY <3>1
      <3>3. j = n + 6 + h  BY <3>1, <3>2
      <3>4. r[j] = d[i]
        <4>1. r[n + 6 + h] = v[h] /\ v[3 + i] = d[i]  BY <1>12, <1>15 DEF Framed
        <4>2. QED  BY <3>2, <3>3, <4>1
      <3>5. TmsOf(n, m, j) = IF i = m THEN 1 ELSE 0  BY <2>5, <3>1 DEF TmsOf, High
      <3>6. Only => d[i].tdi = Acc(c)[j - (n + 9)] /\ d[i].look  BY <1>3, <1>4, <1>10, <3>1 DEF dr
      <3>7. Only => SentAt(c, n, m, j, d[i])
        <4>1. ~(j < n + 5) /\ j < n + m + 10  BY <2>5
        <4>2. QED  BY <2>5, <3>6, <4>1 DEF SentAt
      <3>8. QED  BY <1>10, <3>4, <3>5, <3>7 DEF Right
    <2>6. CASE n + m + 9 < j
      <3>1. PICK i \in 1 .. 2 : i = j - (n + m + 9)  BY <2>6
      <3>2. PICK h \in 1 .. m + 5 : h = 3 + m + i  BY <3>1
      <3>3. j = n + 6 + h  BY <3>1, <3>2
      <3>4. r[j] = e[i]
        <4>1. r[n + 6 + h] = v[h] /\ v[3 + m + i] = e[i]  BY <1>12, <1>15 DEF Framed
        <4>2. QED  BY <3>2, <3>3, <4>1
      <3>5. TmsOf(n, m, j) = IF i = 1 THEN 1 ELSE 0  BY <3>1, <3>3 DEF TmsOf, High
      <3>6. e[i].dio = IF i = 1 THEN 1 ELSE 0
        <4>1. i = 1 \/ i = 2  BY <3>1
        <4>2. QED  BY <1>8, <4>1
      <3>7. SentAt(c, n, m, j, e[i])
        <4>1. ~(j < n + m + 10) /\ ~(j < n + 5)  BY <2>6
        <4>2. QED  BY <1>8, <4>1 DEF SentAt
      <3>8. QED  BY <3>4, <3>5, <3>6, <3>7 DEF Right
    <2>7. \/ j <= 4 \/ (4 < j /\ j <= n + 4) \/ (n + 4 < j /\ j <= n + 6) \/ (n + 6 < j /\ j <= n + 9)
          \/ (n + 9 < j /\ j <= n + m + 9) \/ n + m + 9 < j
      OBVIOUS
    <2>8. QED  BY ONLY <2>1, <2>2, <2>3, <2>4, <2>5, <2>6, <2>7
  <1>17. TwoScans(r, c, n, m)  BY <1>2, <1>3, <1>15, <1>16 DEF TwoScans
  <1>18. QED  BY <1>17
-----------------------------------------------------------------------------
(* What an only device captures, and what a shift does.                    *)
LEMMA OnlyPlace ==
  ASSUME cfg.chain \in Chains, Only, NEW ir \in BOOLEAN, NEW n \in Nat, Size(ir, 0) = n
  PROVE  /\ Devices(cfg.chain) = {0} /\ Total(Sizes(ir), DOMAIN cfg.chain) = n
         /\ Offset(ir, 0) = 0 /\ \A i \in 1 .. n : Holder(ir, i) = 0
         /\ Part(ir, 0) = SubSeq(scan, 1, n)
         /\ \A drs : Capture(ir, drs) = [i \in 1 .. n |-> IF ir THEN 0 ELSE drs[0][i]]
  <1>1. Devices(cfg.chain) = {0}  BY DEF Devices, Only
  <1>2. DOMAIN cfg.chain = {1} /\ Len(cfg.chain) = 1
    <2>1. 0 \in Devices(cfg.chain)  BY <1>1
    <2>2. DOMAIN cfg.chain = 1 .. Len(cfg.chain)  BY <2>1, ChainBits
    <2>3. QED  BY <2>2 DEF Only
  <1>3. Sizes(ir)[1] = n  BY <1>2 DEF Sizes
  <1>4. Total(Sizes(ir), DOMAIN cfg.chain) = n  BY <1>2, <1>3, TotalOne
  <1>5. Offset(ir, 0) = 0
    <2>1. 0 + 2 .. Len(cfg.chain) = {}  BY <1>2
    <2>2. QED  BY <2>1, TotalNone DEF Offset
  <1>6. ASSUME NEW i \in 1 .. n PROVE Holder(ir, i) = 0
    <2>1. i \in Offset(ir, 0) + 1 .. Offset(ir, 0) + Size(ir, 0)  BY <1>5
    <2>2. QED  BY <1>1, <2>1 DEF Holder
  <1>7. Part(ir, 0) = SubSeq(scan, 1, n)
    <2>1. 0 + 1 = 1 /\ 0 + n = n  OBVIOUS
    <2>2. Part(ir, 0) = SubSeq(scan, 0 + 1, 0 + n)  BY <1>5 DEF Part
    <2>3. QED  BY <2>1, <2>2
  <1>8. ASSUME NEW drs PROVE Capture(ir, drs) = [i \in 1 .. n |-> IF ir THEN 0 ELSE drs[0][i]]
    <2>1. Capture(ir, drs) =
            [i \in 1 .. n |-> IF ir THEN 0 ELSE drs[Holder(ir, i)][i - Offset(ir, Holder(ir, i))]]
      BY <1>4 DEF Capture
    <2>2. ASSUME NEW i \in 1 .. n
          PROVE  drs[Holder(ir, i)][i - Offset(ir, Holder(ir, i))] = drs[0][i]
      <3>1. i - 0 = i  OBVIOUS
      <3>2. QED  BY <1>5, <1>6, <3>1
    <2>3. QED  BY <2>1, <2>2
  <1>9. QED  BY <1>1, <1>4, <1>5, <1>6, <1>7, <1>8

LEMMA BitList ==
  ASSUME NEW n \in Nat, NEW s \in [1 .. n -> Bit]
  PROVE  s \in Seq(Bit) /\ Len(s) = n
  <1>1. s \in Seq(Bit)  BY SeqDef
  <1>2. QED  BY <1>1, LenProperties

LEMMA AccList ==
  ASSUME NEW n \in Nat
  PROVE  AccBits(n) \in Seq(Bit) /\ Len(AccBits(n)) = n /\ \A i \in 1 .. n : AccBits(n)[i] \in Bit
  <1>1. AccBits(n) \in [1 .. n -> Bit]  BY DEF AccBits, Bit
  <1>2. QED  BY <1>1, BitList

LEMMA InstructionCaptured ==
  ASSUME cfg.chain \in Chains, Only, NEW n \in Nat, n = cfg.chain[1], NEW drs
  PROVE  /\ Capture(TRUE, drs) \in Seq(Bit) /\ Len(Capture(TRUE, drs)) = n
         /\ Part(TRUE, 0) = SubSeq(scan, 1, n)
  <1>1. Size(TRUE, 0) = n  BY DEF Size
  <1>2. Capture(TRUE, drs) = [i \in 1 .. n |-> IF TRUE THEN 0 ELSE drs[0][i]] /\ Part(TRUE, 0) = SubSeq(scan, 1, n)
    BY <1>1, OnlyPlace
  <1>3. Capture(TRUE, drs) \in [1 .. n -> Bit]  BY <1>2 DEF Bit
  <1>4. QED  BY <1>2, <1>3, BitList

LEMMA RegisterCaptured ==
  ASSUME cfg.chain \in Chains, Only, DOMAIN instr = {0}, latched[0] \in Word, instr[0] = "acc",
         NEW m \in Nat, m = Bits + 1
  PROVE  /\ \A drs \in Captures :
              /\ drs[0] \in Seq(Bit) /\ Len(drs[0]) = m
              /\ Capture(FALSE, drs) \in Seq(Bit) /\ Len(Capture(FALSE, drs)) = m
              /\ \A i \in 1 .. m : Capture(FALSE, drs)[i] = drs[0][i]
         /\ Part(FALSE, 0) = SubSeq(scan, 1, m)
  <1>1. Size(FALSE, 0) = m  BY DEF Size, DrSize
  <1>2. Part(FALSE, 0) = SubSeq(scan, 1, m)  BY <1>1, OnlyPlace
  <1>3. SUFFICES ASSUME NEW drs \in Captures
                 PROVE  /\ drs[0] \in Seq(Bit) /\ Len(drs[0]) = m
                        /\ Capture(FALSE, drs) \in Seq(Bit) /\ Len(Capture(FALSE, drs)) = m
                        /\ \A i \in 1 .. m : Capture(FALSE, drs)[i] = drs[0][i]
    BY <1>2
  <1>4. PICK ack \in {0, 1}, any \in Word : drs = [d \in DOMAIN instr |-> Captured(d, ack, any)]
    BY DEF Captures
  <1>5. PICK b \in Bit, w \in Word : drs[0] = <<b>> \o w
    <2>1. drs[0] = Captured(0, ack, any)  BY <1>4
    <2>2. Captured(0, ack, any) = IF ack = 1 THEN <<1>> \o latched[0] ELSE <<0>> \o any  BY DEF Captured
    <2>3. 0 \in Bit /\ 1 \in Bit  BY DEF Bit
    <2>4. CASE ack = 1  BY <2>1, <2>2, <2>3, <2>4
    <2>5. CASE ack # 1  BY <2>1, <2>2, <2>3, <2>5
    <2>6. QED  BY <2>4, <2>5
  <1>6. drs[0] \in Seq(Bit) /\ Len(drs[0]) = m  BY <1>5, BitAndWord
  <1>7. Capture(FALSE, drs) = [i \in 1 .. m |-> IF FALSE THEN 0 ELSE drs[0][i]]  BY <1>1, OnlyPlace
  <1>8. \A i \in 1 .. m : drs[0][i] \in Bit  BY <1>6, LenProperties
  <1>9. Capture(FALSE, drs) \in [1 .. m -> Bit]  BY <1>7, <1>8
  <1>10. QED  BY <1>6, <1>7, <1>9, BitList

Passed(t, s, n) == \A i \in 1 .. n - 1 : t[i] = s[i + 1]
LEMMA ShiftOne ==
  ASSUME NEW n \in Nat \ {0}, NEW j \in Nat, j < n, NEW s, NEW in, Moved(s, in, n, j),
         NEW b \in Bit, b = in[j + 1], NEW t, t = Append(Tail(s), b)
  PROVE  Moved(t, in, n, j + 1) /\ Passed(t, s, n)
  <1>1. s \in Seq(Bit) /\ Len(s) = n /\ \A i \in 1 .. j : s[n - j + i] = in[i]  BY DEF Moved
  <1>2. s # <<>>  BY <1>1
  <1>3. PICK u \in Seq(Bit) : u = Tail(s) /\ Len(u) = n - 1 /\ \A i \in 1 .. n - 1 : u[i] = s[i + 1]
    <2>1. /\ Tail(s) \in Seq(Bit) /\ Len(Tail(s)) = Len(s) - 1
          /\ \A i \in 1 .. Len(s) - 1 : Tail(s)[i] = s[i + 1]
      BY ONLY <1>1, <1>2, TailOf
    <2>2. QED  BY ONLY <1>1, <2>1, Zenon
  <1>4. t \in Seq(Bit) /\ Len(t) = n - 1 + 1 /\ (\A i \in 1 .. n - 1 : t[i] = u[i]) /\ t[n - 1 + 1] = b
    BY <1>3, AppendProperties
  <1>5. n - 1 + 1 = n  OBVIOUS
  <1>6. \A i \in 1 .. n - 1 : t[i] = s[i + 1]  BY <1>3, <1>4
  <1>7. ASSUME NEW i \in 1 .. j + 1 PROVE t[n - (j + 1) + i] = in[i]
    <2>1. CASE i = j + 1
      <3>1. n - (j + 1) + i = n  BY <2>1
      <3>2. QED  BY <1>4, <1>5, <2>1, <3>1
    <2>2. CASE i # j + 1
      <3>1. i \in 1 .. j  BY <2>2
      <3>2. PICK h \in 1 .. n - 1 : h = n - (j + 1) + i  BY <3>1
      <3>3. h + 1 = n - j + i  BY <3>1, <3>2
      <3>4. QED  BY <1>1, <1>6, <3>1, <3>2, <3>3
    <2>3. QED  BY <2>1, <2>2
  <1>8. QED  BY <1>4, <1>5, <1>6, <1>7 DEF Moved, Passed

LEMMA ShiftedAll ==
  ASSUME NEW n \in Nat, NEW s, NEW in \in Seq(Bit), Len(in) = n, Moved(s, in, n, n)
  PROVE  s = in /\ SubSeq(s, 1, n) = in
  <1>1. s \in Seq(Bit) /\ Len(s) = n /\ \A i \in 1 .. n : s[n - n + i] = in[i]  BY DEF Moved
  <1>2. ASSUME NEW i \in 1 .. n PROVE s[i] = in[i]
    <2>1. n - n + i = i  OBVIOUS
    <2>2. QED  BY <1>1, <2>1
  <1>3. s = in  BY <1>1, <1>2, SeqEqual
  <1>4. SubSeq(in, 1, n) = in
    <2>1. \A i \in 1 .. n : in[i] \in Bit  BY LenProperties
    <2>2. 1 \in Int /\ n \in Int  OBVIOUS
    <2>3. /\ SubSeq(in, 1, n) \in Seq(Bit) /\ Len(SubSeq(in, 1, n)) = (IF 1 <= n THEN n - 1 + 1 ELSE 0)
          /\ \A i \in 1 .. n - 1 + 1 : SubSeq(in, 1, n)[i] = in[1 + i - 1]
      BY ONLY <2>1, <2>2, SubSeqProperties
    <2>4. Len(SubSeq(in, 1, n)) = n  BY <2>3
    <2>5. ASSUME NEW i \in 1 .. n PROVE SubSeq(in, 1, n)[i] = in[i]
      <3>1. i \in 1 .. n - 1 + 1 /\ 1 + i - 1 = i  OBVIOUS
      <3>2. QED  BY <2>3, <3>1
    <2>6. QED  BY <2>3, <2>4, <2>5, SeqEqual
  <1>5. QED  BY <1>3, <1>4
-----------------------------------------------------------------------------
(* A clock of the chain.                                                   *)
LEMMA WalkPlaces ==
  ASSUME NEW n \in Nat \ {0}, NEW m \in Nat \ {0}, NEW k \in Nat, NEW t, Walk(n, m, k, t)
  PROVE  /\ t = "CapIR" <=> k = 3
         /\ t = "ShIR" <=> 4 <= k /\ k < n + 4
         /\ t = "UpdIR" <=> k = n + 5
         /\ t = "CapDR" <=> k = n + 8
         /\ t = "ShDR" <=> n + 9 <= k /\ k < n + m + 9
         /\ t = "UpdDR" <=> k = n + m + 10
         /\ t # "TLR" /\ (k = n + m + 11 => t = "RTI")
  BY DEF Walk

LEMMA JtagClocked ==
  ASSUME todo \in Seq(Clocks), JtagClock
  PROVE  /\ Len(todo) \in Nat /\ Len(todo) >= 1 /\ todo[1] \in Clocks
         /\ todo' \in Seq(Clocks) /\ Len(todo') = Len(todo) - 1
         /\ \A i \in 1 .. Len(todo) - 1 : todo'[i] = todo[i + 1]
         /\ cfg' = cfg /\ ready' = ready /\ cmd' = cmd /\ asked' = asked /\ step' = step /\ result' = result
         /\ sticky' = sticky
         /\ tap' = TapNext[tap][todo[1].dio + 1] /\ Update(tap')
         /\ tap = "CapDR" => given' \in Captures /\ scan' = Capture(FALSE, given')
         /\ tap = "CapIR" => scan' = Capture(TRUE, given)
         /\ tap # "CapDR" => given' = given
         /\ tap \in {"ShDR", "ShIR"} => scan' = Append(Tail(scan), todo[1].tdi)
         /\ ~todo[1].look => seen' = seen
         /\ todo[1].look => seen' = Append(seen, IF scan = <<>> THEN 1 ELSE Head(scan))
  <1>1. todo # <<>> /\ todo' = Tail(todo)  BY DEF JtagClock
  <1>2. /\ Len(todo) \in Nat /\ Len(todo) >= 1 /\ Head(todo) = todo[1] /\ todo[1] \in Clocks
        /\ Tail(todo) \in Seq(Clocks) /\ Len(Tail(todo)) = Len(todo) - 1
        /\ \A i \in 1 .. Len(todo) - 1 : Tail(todo)[i] = todo[i + 1]
    BY ONLY <1>1, todo \in Seq(Clocks), TailOf
  <1>3. UNCHANGED <<cfg, ready, cmd, asked, ops>> /\ UNCHANGED <<step, result, swdp>>
    BY DEF JtagClock, host
  <1>4. sticky' = sticky  BY <1>3 DEF swdp
  <1>5. PICK op : op = todo[1]  OBVIOUS
  <1>6. /\ tap' = TapNext[tap][op.dio + 1] /\ Update(TapNext[tap][op.dio + 1])
        /\ seen' = IF op.look THEN Append(seen, IF scan = <<>> THEN 1 ELSE Head(scan)) ELSE seen
        /\ given' \in IF tap = "CapDR" THEN Captures ELSE {given}
        /\ scan' = CASE tap = "CapDR" -> Capture(FALSE, given')
                      [] tap = "CapIR" -> Capture(TRUE, given)
                      [] tap \in {"ShDR", "ShIR"} -> Append(Tail(scan), op.tdi)
                      [] OTHER -> IF TapNext[tap][op.dio + 1] = "RTI" THEN <<>> ELSE scan
    BY <1>2, <1>5 DEF JtagClock
  <1>7. /\ tap = "CapDR" => given' \in Captures /\ scan' = Capture(FALSE, given')
        /\ tap = "CapIR" => scan' = Capture(TRUE, given)
        /\ tap # "CapDR" => given' = given
        /\ tap \in {"ShDR", "ShIR"} => scan' = Append(Tail(scan), op.tdi)
    BY ONLY <1>6
  <1>8. tap' = TapNext[tap][op.dio + 1] /\ Update(tap')  BY ONLY <1>6
  <1>9. /\ ~op.look => seen' = seen
        /\ op.look => seen' = Append(seen, IF scan = <<>> THEN 1 ELSE Head(scan))
    BY ONLY <1>6
  <1>10. QED  BY <1>1, <1>2, <1>3, <1>4, <1>5, <1>7, <1>8, <1>9

LEMMA Updated ==
  ASSUME NEW to, Update(to)
  PROVE  /\ DOMAIN instr' = DOMAIN instr /\ DOMAIN regs' = DOMAIN regs /\ DOMAIN latched' = DOMAIN latched
         /\ to # "UpdDR" => regs' = regs /\ latched' = latched
         /\ to # "UpdIR" /\ to # "TLR" => instr' = instr
         /\ to = "UpdIR" => \A d \in DOMAIN instr :
              instr'[d] = IF Part(TRUE, d) = AccBits(cfg.chain[d + 1]) THEN "acc" ELSE "bypass"
         /\ to = "UpdDR" => \A d \in DOMAIN regs :
              regs'[d] = IF Takes(d, 0) THEN Tail(Part(FALSE, d)) ELSE regs[d]
         /\ to = "UpdDR" => \A d \in DOMAIN latched : latched'[d] = IF Takes(d, 1) THEN regs[d] ELSE latched[d]
  <1>1. /\ to # "UpdDR" => regs' = regs /\ latched' = latched
        /\ to = "UpdDR" =>
             /\ regs' = [d \in DOMAIN regs |-> IF Takes(d, 0) THEN Tail(Part(FALSE, d)) ELSE regs[d]]
             /\ latched' = [d \in DOMAIN latched |-> IF Takes(d, 1) THEN regs[d] ELSE latched[d]]
    BY DEF Update
  <1>2. instr' = CASE to = "UpdIR" -> [d \in DOMAIN instr |->
                                         IF Part(TRUE, d) = AccBits(cfg.chain[d + 1]) THEN "acc" ELSE "bypass"]
                   [] to = "TLR" -> [d \in DOMAIN instr |-> "bypass"]
                   [] OTHER -> instr
    BY DEF Update
  <1>3. /\ to = "UpdIR" => instr' = [d \in DOMAIN instr |->
                                       IF Part(TRUE, d) = AccBits(cfg.chain[d + 1]) THEN "acc" ELSE "bypass"]
        /\ to = "TLR" => instr' = [d \in DOMAIN instr |-> "bypass"]
        /\ to # "UpdIR" /\ to # "TLR" => instr' = instr
    BY ONLY <1>2
  <1>4. DOMAIN regs' = DOMAIN regs /\ DOMAIN latched' = DOMAIN latched  BY <1>1
  <1>5. DOMAIN instr' = DOMAIN instr  BY <1>3
  <1>6. QED  BY <1>1, <1>3, <1>4, <1>5

LEMMA ScanStep ==
  ASSUME ChainTypes, JtagClock, NEW n \in Nat \ {0}, NEW m \in Nat \ {0}, NEW k \in Nat, ScanPoint(n, m, k)
  PROVE  /\ k + 1 <= n + m + 11 /\ ScanAhead(n, m, k + 1)' /\ Walk(n, m, k + 1, tap')
         /\ Only => SentAt(cmd, n, m, k + 1, todo[1]) /\ Loaded(n, m, k + 1)'
  <1>1. todo \in Seq(Clocks)  BY DEF ChainTypes
  <1>2. /\ Len(todo) \in Nat /\ Len(todo) >= 1
        /\ Len(todo') = Len(todo) - 1 /\ \A i \in 1 .. Len(todo) - 1 : todo'[i] = todo[i + 1]
        /\ cfg' = cfg /\ cmd' = cmd /\ tap' = TapNext[tap][todo[1].dio + 1]
    BY <1>1, JtagClocked
  <1>3. /\ k <= n + m + 11 /\ Len(todo) = n + m + 11 - k /\ Walk(n, m, k, tap)
        /\ \A i \in 1 .. Len(todo) : todo[i].dio = TmsOf(n, m, k + i)
        /\ Only => \A i \in 1 .. Len(todo) : SentAt(cmd, n, m, k + i, todo[i])
    BY DEF ScanPoint, ScanAhead, Carried, Loaded
  <1>4. k < n + m + 11 /\ k + 1 <= n + m + 11 /\ 1 \in 1 .. Len(todo)  BY ONLY <1>2, <1>3, n \in Nat, m \in Nat, k \in Nat
  <1>5. Walk(n, m, k + 1, tap')
    <2>1. todo[1].dio = TmsOf(n, m, k + 1)  BY <1>3, <1>4
    <2>2. QED  BY <1>2, <1>3, <1>4, <2>1, WalkStep
  <1>6. Len(todo') = n + m + 11 - (k + 1)  BY <1>2, <1>3
  <1>7. ASSUME NEW i \in 1 .. Len(todo')
        PROVE  /\ todo'[i].dio = TmsOf(n, m, k + 1 + i)
               /\ Only => SentAt(cmd, n, m, k + 1 + i, todo'[i])
    <2>1. PICK j \in 1 .. Len(todo) : j = i + 1  BY <1>2
    <2>2. k + j = k + 1 + i /\ i \in 1 .. Len(todo) - 1  BY <1>2, <2>1
    <2>3. todo'[i] = todo[j]  BY <1>2, <2>1, <2>2
    <2>4. QED  BY <1>3, <2>2, <2>3
  <1>8. ScanAhead(n, m, k + 1)'  BY <1>6, <1>7 DEF ScanAhead
  <1>9. Only => Loaded(n, m, k + 1)'
    <2>1. Only => \A i \in 1 .. Len(todo') : SentAt(cmd, n, m, k + 1 + i, todo'[i])  BY <1>7
    <2>2. \A j, op : SentAt(cmd, n, m, j, op)' = SentAt(cmd, n, m, j, op)  BY <1>2 DEF SentAt, Acc
    <2>3. QED  BY <1>2, <2>1, <2>2 DEF Loaded, SentAt, Acc
  <1>10. Only => SentAt(cmd, n, m, k + 1, todo[1])  BY <1>3, <1>4
  <1>11. QED  BY <1>4, <1>5, <1>8, <1>9, <1>10
LEMMA CarriedStep ==
  ASSUME ChainTypes, JtagClock, Only,
         NEW n \in Nat \ {0}, NEW m \in Nat \ {0}, NEW k \in Nat, ScanPoint(n, m, k)
  PROVE  Carried(n, m, k + 1)' /\ regs'[0] \in Word /\ regs'[0] \in asked[0] /\ latched'[0] \in Word
  <1> DEFINE op == todo[1]
  <1>1. /\ op \in Clocks /\ cfg' = cfg /\ cmd' = cmd /\ asked' = asked /\ Update(tap')
        /\ tap = "CapDR" => given' \in Captures /\ scan' = Capture(FALSE, given')
        /\ tap = "CapIR" => scan' = Capture(TRUE, given)
        /\ tap # "CapDR" => given' = given
        /\ tap \in {"ShDR", "ShIR"} => scan' = Append(Tail(scan), op.tdi)
        /\ ~op.look => seen' = seen
        /\ op.look => seen' = Append(seen, IF scan = <<>> THEN 1 ELSE Head(scan))
    BY JtagClocked DEF ChainTypes
  <1>2. /\ k + 1 <= n + m + 11 /\ Walk(n, m, k, tap) /\ Walk(n, m, k + 1, tap')
        /\ SentAt(cmd, n, m, k + 1, op) /\ Loaded(n, m, k + 1)'
    BY ScanStep DEF ScanPoint
  <1>3. Carried(n, m, k)  BY DEF ScanPoint
  <1>4. /\ cfg.chain \in Chains /\ regs[0] \in Word /\ regs[0] \in asked[0] /\ latched[0] \in Word
        /\ DOMAIN regs = {0} /\ DOMAIN instr = {0} /\ DOMAIN latched = {0}
    BY DEF ChainTypes, Devices, Only
  <1>5. n = cfg.chain[1] /\ m = Bits + 1 /\ Wanted  BY <1>3 DEF Carried
  <1>6. op.tdi \in Bit /\ cmd.rnw \in Bit /\ cmd.at = 0 /\ cmd.word \in Word /\ (cmd.rnw = 0 => cmd.word \in asked[0])
    BY <1>1, <1>5 DEF Clocks, Wanted
  <1>7. /\ tap = "CapIR" <=> k = 3
        /\ tap = "ShIR" <=> 4 <= k /\ k < n + 4
        /\ tap = "CapDR" <=> k = n + 8
        /\ tap = "ShDR" <=> n + 9 <= k /\ k < n + m + 9
    BY <1>2, WalkPlaces
  <1>8. tap' # "TLR" /\ (tap' = "UpdIR" <=> k = n + 4) /\ (tap' = "UpdDR" <=> k = n + m + 9)
    <2>1. k + 1 \in Nat  OBVIOUS
    <2>2. tap' # "TLR" /\ (tap' = "UpdIR" <=> k + 1 = n + 5) /\ (tap' = "UpdDR" <=> k + 1 = n + m + 10)
      BY <1>2, <2>1, WalkPlaces
    <2>3. QED  BY <2>2
  <1>9. /\ op.look <=> n + 9 < k + 1 /\ k + 1 < n + m + 10
        /\ 4 < k + 1 /\ k + 1 < n + 5 => op.tdi = AccBits(n)[k + 1 - 4]
        /\ n + 9 < k + 1 /\ k + 1 < n + m + 10 => op.tdi = Acc(cmd)[k + 1 - (n + 9)]
    BY <1>2 DEF SentAt
  <1>10. /\ tap' # "UpdDR" => regs' = regs /\ latched' = latched
         /\ tap' # "UpdIR" => instr' = instr
         /\ tap' = "UpdIR" => instr'[0] = IF Part(TRUE, 0) = AccBits(cfg.chain[1]) THEN "acc" ELSE "bypass"
         /\ tap' = "UpdDR" => /\ regs'[0] = IF Takes(0, 0) THEN Tail(Part(FALSE, 0)) ELSE regs[0]
                              /\ latched'[0] = IF Takes(0, 1) THEN regs[0] ELSE latched[0]
    <2>1. 0 + 1 = 1  OBVIOUS
    <2>2. 0 \in DOMAIN regs /\ 0 \in DOMAIN instr /\ 0 \in DOMAIN latched  BY <1>4
    <2>3. QED  BY <1>1, <1>8, <2>1, <2>2, Updated
  <1> HIDE DEF op
  <1>11. /\ 4 <= k /\ k < n + 5 => Moved(scan, AccBits(n), n, k - 4)
         /\ n + 5 <= k => instr[0] = "acc"
         /\ k < n + 9 => seen = <<>>
         /\ n + 9 <= k /\ k < n + m + 10 => Exchanged(m, k - (n + 9))
         /\ n + m + 10 <= k => Served
    BY <1>3 DEF Carried, Selected, Answered
  <1>12. k # n + 8 => Taken' = Taken  BY <1>1, <1>7 DEF Taken
  <1>13. Acc(cmd) \in Seq(Bit) /\ Len(Acc(cmd)) = m /\ Tail(Acc(cmd)) = cmd.word
         /\ Acc(cmd)[1] = IF cfg.link = "pio" THEN 1 ELSE cmd.rnw
    <2>1. (IF cfg.link = "pio" THEN 1 ELSE cmd.rnw) \in Bit  BY <1>6 DEF Bit
    <2>2. QED  BY SMTT(30), <1>5, <1>6, <2>1, BitAndWord DEF Acc
  <1>14. AccBits(n) \in Seq(Bit) /\ Len(AccBits(n)) = n  BY AccList
  (* The instruction. *)
  <1>15. 4 <= k + 1 /\ k + 1 < n + 5 => Moved(scan, AccBits(n), n, k + 1 - 4)'
    <2>1. CASE k = 3
      <3>1. scan' \in Seq(Bit) /\ Len(scan') = n  BY <1>1, <1>4, <1>5, <1>7, <2>1, InstructionCaptured
      <3>2. 1 .. k + 1 - 4 = {}  BY <2>1
      <3>3. QED  BY <3>1, <3>2 DEF Moved
    <2>2. CASE 4 <= k /\ k < n + 4
      <3>1. PICK j \in Nat : j = k - 4  BY <2>2
      <3>2. j < n /\ j + 1 = k + 1 - 4  BY <2>2, <3>1
      <3>3. Moved(scan, AccBits(n), n, j)  BY <1>11, <2>2, <3>1
      <3>4. scan' = Append(Tail(scan), op.tdi)  BY <1>1, <1>7, <2>2 DEF op
      <3>5. op.tdi = AccBits(n)[j + 1]  BY <1>9, <2>2, <3>2
      <3>6. Moved(scan', AccBits(n), n, j + 1)  BY <1>6, <3>2, <3>3, <3>4, <3>5, ShiftOne DEF op
      <3>7. QED  BY <3>2, <3>6 DEF Moved, AccBits
    <2>3. QED  BY <2>1, <2>2
  <1>16. n + 5 <= k + 1 => instr'[0] = "acc"
    <2>1. CASE k = n + 4
      <3>1. Moved(scan, AccBits(n), n, n)
        <4>1. 4 <= k /\ k < n + 5 /\ k - 4 = n  BY <2>1
        <4>2. QED  BY <1>11, <4>1
      <3>2. SubSeq(scan, 1, n) = AccBits(n)
        <4>1. scan = AccBits(n)  BY <1>14, <3>1, ShiftedAll
        <4>2. QED  BY <1>14, <3>1, <4>1, ShiftedAll
      <3>3. Part(TRUE, 0) = SubSeq(scan, 1, n)  BY <1>4, <1>5, InstructionCaptured
      <3>4. tap' = "UpdIR"  BY <1>8, <2>1
      <3>5. QED  BY <1>5, <1>10, <3>2, <3>3, <3>4
    <2>2. CASE n + 5 <= k
      <3>1. tap' # "UpdIR"  BY <1>8, <2>2
      <3>2. QED  BY <1>10, <1>11, <2>2, <3>1
    <2>3. QED  BY <2>1, <2>2
  <1>17. k + 1 < n + 9 => seen' = <<>>
    <2>1. SUFFICES ASSUME k + 1 < n + 9 PROVE seen' = <<>>  OBVIOUS
    <2>2. ~op.look /\ k < n + 9  BY <1>9, <2>1 DEF op
    <2>3. QED  BY <1>1, <1>11, <2>2 DEF op
  (* The register. *)
  <1>18. k < n + m + 9 => regs' = regs /\ latched' = latched
    <2>1. SUFFICES ASSUME k < n + m + 9 PROVE regs' = regs /\ latched' = latched  OBVIOUS
    <2>2. tap' # "UpdDR"  BY <1>8, <2>1
    <2>3. QED  BY <1>10, <2>2
  <1>19. n + 9 <= k + 1 /\ k + 1 < n + m + 10 => Exchanged(m, k + 1 - (n + 9))'
    <2>1. CASE k = n + 8
      <3>1. instr[0] = "acc" /\ seen = <<>>  BY <1>11, <2>1
      <3>2. PICK drs \in Captures : drs = given' /\ scan' = Capture(FALSE, drs)  BY <1>1, <1>7, <2>1
      <3>3. /\ drs[0] \in Seq(Bit) /\ Len(drs[0]) = m
            /\ Capture(FALSE, drs) \in Seq(Bit) /\ Len(Capture(FALSE, drs)) = m
            /\ \A i \in 1 .. m : Capture(FALSE, drs)[i] = drs[0][i]
        BY <1>4, <1>5, <3>1, RegisterCaptured
      <3>4. ~op.look  BY <1>9, <2>1 DEF op
      <3>5. seen' = <<>>  BY <1>1, <3>1, <3>4 DEF op
      <3>6. k + 1 - (n + 9) = 0  BY <2>1
      <3>7. Taken' = drs[0]  BY <3>2 DEF Taken
      <3>8. /\ scan' \in Seq(Bit) /\ Len(scan') = m /\ (\A i \in 1 .. m : scan'[i] = Taken'[i])
            /\ Taken' \in Seq(Bit) /\ Len(Taken') = m
        BY <3>2, <3>3, <3>7
      <3>9. seen' \in Seq(Bit) /\ Len(seen') = 0  BY <3>5, EmptySeq
      <3>10. Moved(scan, Acc(cmd), m, 0)'  BY <3>8 DEF Moved
      <3>11. ASSUME NEW i \in 1 .. m - 0 PROVE scan'[i] = Taken'[0 + i]
        <4>1. i \in 1 .. m /\ 0 + i = i  OBVIOUS
        <4>2. QED  BY <3>8, <4>1
      <3>12. Exchanged(m, 0)'  BY <3>8, <3>9, <3>10, <3>11 DEF Exchanged
      <3>13. QED  BY <3>6, <3>12
    <2>2. CASE n + 9 <= k /\ k < n + m + 9
      <3>1. PICK j \in Nat : j = k - (n + 9)  BY <2>2
      <3>2. j < m /\ j + 1 = k + 1 - (n + 9)  BY <2>2, <3>1
      <3>3. Exchanged(m, j)  BY <1>11, <2>2, <3>1
      <3>4. /\ Taken \in Seq(Bit) /\ Len(Taken) = m
            /\ Moved(scan, Acc(cmd), m, j) /\ (\A i \in 1 .. m - j : scan[i] = Taken[j + i])
            /\ seen \in Seq(Bit) /\ Len(seen) = j /\ \A i \in 1 .. j : seen[i] = Taken[i]
        BY <3>3 DEF Exchanged
      <3>5. op.tdi = Acc(cmd)[j + 1] /\ op.look
        <4>1. n + 9 < k + 1 /\ k + 1 < n + m + 10  BY <2>2
        <4>2. QED  BY <1>9, <3>2, <4>1 DEF op
      <3>6. scan' = Append(Tail(scan), op.tdi)  BY <1>1, <1>7, <2>2 DEF op
      <3>7. Moved(scan', Acc(cmd), m, j + 1) /\ \A i \in 1 .. m - 1 : scan'[i] = scan[i + 1]
        <4>1. PICK b \in Bit : b = op.tdi  BY <1>6 DEF op
        <4>2. Moved(scan, Acc(cmd), m, j) /\ b = Acc(cmd)[j + 1] /\ scan' = Append(Tail(scan), b)
          BY <3>4, <3>5, <3>6, <4>1
        <4>3. PICK s, t, in : s = scan /\ t = scan' /\ in = Acc(cmd)  OBVIOUS
        <4>4. Moved(s, in, m, j) /\ b = in[j + 1] /\ t = Append(Tail(s), b)  BY <4>2, <4>3
        <4>5. Moved(t, in, m, j + 1)  BY <3>2, <4>4, ShiftOne
        <4>6. Passed(t, s, m)  BY <3>2, <4>4, ShiftOne
        <4>7. QED  BY <4>3, <4>5, <4>6 DEF Passed
      <3>8. Taken' = Taken
        <4>1. k # n + 8  BY <2>2
        <4>2. QED  BY <1>12, <4>1
      <3>9. \A i \in 1 .. m - (j + 1) : scan'[i] = Taken[j + 1 + i]
        <4>1. TAKE i \in 1 .. m - (j + 1)
        <4>2. PICK h \in 1 .. m - j : h = i + 1  BY <3>2
        <4>3. i \in 1 .. m - 1 /\ j + h = j + 1 + i  BY <4>2
        <4>4. QED  BY <3>4, <3>7, <4>2, <4>3
      <3>10. PICK b \in Bit : b = Taken[j + 1] /\ seen' = Append(seen, b)
        <4>1. scan \in Seq(Bit) /\ Len(scan) = m  BY <3>4 DEF Moved
        <4>2. scan # <<>> /\ 1 \in 1 .. m - j  BY <3>2, <4>1
        <4>3. Head(scan) = scan[1] /\ scan[1] \in Bit  BY <4>1, <4>2, TailOf
        <4>4. scan[1] = Taken[j + 1]  BY <3>4, <4>2
        <4>5. seen' = Append(seen, Head(scan))  BY <1>1, <3>5, <4>2 DEF op
        <4>6. QED  BY <4>3, <4>4, <4>5
      <3>11. seen' \in Seq(Bit) /\ Len(seen') = j + 1 /\ \A i \in 1 .. j + 1 : seen'[i] = Taken[i]
        <4>1. /\ seen' \in Seq(Bit) /\ Len(seen') = j + 1 /\ seen'[j + 1] = b
              /\ \A i \in 1 .. j : seen'[i] = seen[i]
          BY <3>4, <3>10, AppendProperties
        <4>2. ASSUME NEW i \in 1 .. j + 1 PROVE seen'[i] = Taken[i]
          <5>1. CASE i = j + 1  BY <3>10, <4>1, <5>1
          <5>2. CASE i # j + 1
            <6>1. i \in 1 .. j  BY <5>2
            <6>2. QED  BY <3>4, <4>1, <6>1
          <5>3. QED  BY <5>1, <5>2
        <4>3. QED  BY <4>1, <4>2
      <3>12. Acc(cmd)' = Acc(cmd)  BY <1>1 DEF Acc
      <3>13. Exchanged(m, j + 1)'
        <4>1. Moved(scan, Acc(cmd), m, j + 1)'  BY <3>7, <3>12 DEF Moved
        <4>2. QED  BY <3>4, <3>8, <3>9, <3>11, <4>1 DEF Exchanged
      <3>14. QED  BY <3>2, <3>13
    <2>3. QED  BY <2>1, <2>2
  <1>20. (n + m + 10 <= k + 1 => Served') /\ regs'[0] \in Word /\ regs'[0] \in asked[0] /\ latched'[0] \in Word
    <2>1. CASE k < n + m + 9
      <3>1. ~(n + m + 10 <= k + 1)  BY <2>1
      <3>2. QED  BY <1>4, <1>18, <2>1, <3>1
    <2>2. CASE k = n + m + 9
      <3>1. n + 9 <= k /\ k < n + m + 10 /\ k - (n + 9) = m /\ n + 5 <= k  BY <2>2
      <3>2. Exchanged(m, m) /\ instr[0] = "acc"  BY <1>11, <3>1
      <3>3. /\ Taken \in Seq(Bit) /\ Len(Taken) = m /\ Moved(scan, Acc(cmd), m, m)
            /\ seen \in Seq(Bit) /\ Len(seen) = m /\ \A i \in 1 .. m : seen[i] = Taken[i]
        BY <3>2 DEF Exchanged
      <3>4. seen = Taken  BY <3>3, SeqEqual
      <3>5. SubSeq(scan, 1, m) = Acc(cmd)
        <4>1. scan = Acc(cmd)  BY <1>13, <3>3, ShiftedAll
        <4>2. QED  BY <1>13, <3>3, <4>1, ShiftedAll
      <3>6. Part(FALSE, 0) = Acc(cmd)  BY <1>4, <1>5, <3>2, <3>5, RegisterCaptured
      <3>7. tap' = "UpdDR"  BY <1>8, <2>2
      <3>8. /\ Takes(0, 0) <=> Taken[1] = 1 /\ Acc(cmd)[1] = 0
            /\ Takes(0, 1) <=> Taken[1] = 1 /\ Acc(cmd)[1] = 1
        BY <3>2, <3>6 DEF Takes, Taken
      <3>9. /\ regs'[0] = IF Taken[1] = 1 /\ Acc(cmd)[1] = 0 THEN cmd.word ELSE regs[0]
            /\ latched'[0] = IF Taken[1] = 1 /\ Acc(cmd)[1] = 1 THEN regs[0] ELSE latched[0]
        BY <1>10, <1>13, <3>6, <3>7, <3>8
      <3>10. ~op.look  BY <1>9, <2>2 DEF op
      <3>11. seen' = Taken  BY <1>1, <3>4, <3>10 DEF op
      <3>12. Taken' = Taken
        <4>1. k # n + 8  BY <2>2
        <4>2. QED  BY <1>12, <4>1
      <3>13. CASE Acc(cmd)[1] = 0
        <4>1. cfg.link # "pio" /\ cmd.rnw = 0  BY <1>13, <3>13
        <4>2. regs'[0] = (IF Taken[1] = 1 THEN cmd.word ELSE regs[0]) /\ latched'[0] = latched[0]  BY <3>9, <3>13
        <4>3. Served'  BY <1>1, <3>12, <4>1, <4>2 DEF Served
        <4>4. QED  BY <1>4, <1>6, <4>1, <4>2, <4>3
      <3>14. CASE Acc(cmd)[1] # 0
        <4>1. Acc(cmd)[1] = 1 /\ (cfg.link = "pio" \/ cmd.rnw = 1)  BY <1>6, <1>13, <3>14 DEF Bit
        <4>2. regs'[0] = regs[0] /\ latched'[0] = IF Taken[1] = 1 THEN regs[0] ELSE latched[0]  BY <3>9, <4>1
        <4>3. Served'  BY <1>1, <1>6, <3>11, <3>12, <4>1, <4>2 DEF Served, Bit
        <4>4. QED  BY <1>4, <4>2, <4>3
      <3>15. QED  BY <3>13, <3>14
    <2>3. CASE n + m + 10 <= k
      <3>1. tap' # "UpdDR"  BY <1>8, <2>3
      <3>2. regs' = regs /\ latched' = latched  BY <1>10, <3>1
      <3>3. ~op.look  BY <1>9, <2>3 DEF op
      <3>4. seen' = seen  BY <1>1, <3>3 DEF op
      <3>5. Served  BY <1>11, <2>3
      <3>6. Taken' = Taken
        <4>1. k # n + 8  BY <2>3
        <4>2. QED  BY <1>12, <4>1
      <3>7. Served'  BY <1>1, <3>2, <3>4, <3>5, <3>6 DEF Served
      <3>8. QED  BY <1>4, <3>2, <3>7
    <2>4. QED  BY <2>1, <2>2, <2>3
  <1>21. Wanted'  BY <1>1, <1>5 DEF Wanted
  <1>22. Carried(n, m, k + 1)'
    <2>1. n = cfg'.chain[1] /\ m = Bits + 1 /\ Wanted' /\ Loaded(n, m, k + 1)'  BY <1>1, <1>2, <1>5, <1>21
    <2>2. Selected(n, k + 1)'  BY <1>15, <1>16 DEF Selected
    <2>3. Answered(n, m, k + 1)'  BY <1>17, <1>19, <1>20 DEF Answered
    <2>4. QED  BY <2>1, <2>2, <2>3 DEF Carried
  <1>23. QED  BY <1>20, <1>22
LEMMA ChainTypesOn ==
  ASSUME ChainTypes, JtagClock, Only => regs'[0] \in Word /\ regs'[0] \in asked[0] /\ latched'[0] \in Word
  PROVE  ChainTypes'
  <1>1. todo \in Seq(Clocks)  BY DEF ChainTypes
  <1>2. /\ todo' \in Seq(Clocks) /\ cfg' = cfg /\ ready' = ready /\ asked' = asked /\ step' = step
        /\ Update(tap')
    BY <1>1, JtagClocked
  <1>3. DOMAIN instr' = DOMAIN instr /\ DOMAIN regs' = DOMAIN regs /\ DOMAIN latched' = DOMAIN latched  BY <1>2, Updated
  <1>4. QED  BY <1>2, <1>3 DEF ChainTypes, Only, Devices

LEMMA ForcedStep ==
  ASSUME ChainTypes, Forced, JtagClock
  PROVE  ChainInv'
  <1>1. todo \in Seq(Clocks)  BY DEF ChainTypes
  <1>2. /\ Len(todo) \in Nat /\ Len(todo) >= 1 /\ Len(todo') = Len(todo) - 1
        /\ \A i \in 1 .. Len(todo) - 1 : todo'[i] = todo[i + 1]
        /\ ready' = ready /\ step' = step /\ result' = result
        /\ tap' = TapNext[tap][todo[1].dio + 1] /\ Update(tap')
    BY <1>1, JtagClocked
  <1>3. todo[1].dio = 1
    <2>1. 1 \in 1 .. Len(todo)  BY <1>2
    <2>2. QED  BY <2>1 DEF Forced
  <1>4. tap' = "TLR"
    <2>1. tap = "TLR" /\ 1 + 1 = 2  BY DEF Forced
    <2>2. QED  BY <1>2, <1>3, <2>1, TapSteps
  <1>5. regs' = regs /\ latched' = latched  BY <1>2, <1>4, Updated
  <1>6. ChainTypes'  BY <1>5, ChainTypesOn DEF ChainTypes
  <1>7. \A i \in 1 .. Len(todo') : todo'[i].dio = 1
    <2>1. TAKE i \in 1 .. Len(todo')
    <2>2. PICK j \in 1 .. Len(todo) : j = i + 1  BY <1>2
    <2>3. todo'[i] = todo[j]  BY <1>2, <2>2
    <2>4. QED  BY <2>3 DEF Forced
  <1>8. Forced'  BY <1>2, <1>4, <1>7 DEF Forced, NoResult
  <1>9. QED  BY <1>6, <1>8 DEF ChainInv

LEMMA HomingStep ==
  ASSUME ChainTypes, Homing, JtagClock
  PROVE  ChainInv'
  <1>1. todo \in Seq(Clocks)  BY DEF ChainTypes
  <1>2. /\ Len(todo) \in Nat /\ Len(todo) >= 1 /\ Len(todo') = Len(todo) - 1 /\ todo' \in Seq(Clocks)
        /\ \A i \in 1 .. Len(todo) - 1 : todo'[i] = todo[i + 1]
        /\ ready' = ready /\ step' = step /\ result' = result
        /\ tap' = TapNext[tap][todo[1].dio + 1] /\ Update(tap')
    BY <1>1, JtagClocked
  <1>3. PICK k \in 0 .. 5 : Home(k)  BY DEF Homing
  <1>4. /\ Len(todo) = 6 - k /\ (\A i \in 1 .. Len(todo) : todo[i].dio = IF k + i <= 5 THEN 1 ELSE 0)
        /\ tap = "TLR" \/ (k = 0 /\ tap = "RTI") \/ (k = 1 /\ tap = "SelDR") \/ (k = 2 /\ tap = "SelIR")
    BY <1>3 DEF Home
  <1>5. 1 \in 1 .. Len(todo)  BY <1>2
  <1>6. todo[1].dio = IF k + 1 <= 5 THEN 1 ELSE 0  BY <1>4, <1>5
  <1>7. k < 5 => \/ tap' = "TLR"
                 \/ k = 0 /\ tap' = "SelDR"
                 \/ k = 1 /\ tap' = "SelIR"
    <2>1. SUFFICES ASSUME k < 5 PROVE tap' = TapNext[tap][2]
      BY <1>4, TapSteps
    <2>2. todo[1].dio = 1 /\ 1 + 1 = 2  BY <1>6, <2>1
    <2>3. QED  BY <1>2, <2>2
  <1>8. k = 5 => tap' = "RTI"
    <2>1. SUFFICES ASSUME k = 5 PROVE tap' = "RTI"  OBVIOUS
    <2>2. todo[1].dio = 0 /\ 0 + 1 = 1 /\ tap = "TLR"  BY <1>4, <1>6, <2>1
    <2>3. QED  BY <1>2, <2>2, TapSteps
  <1>9. tap' \in {"TLR", "SelDR", "SelIR", "RTI"}
    <2>1. k < 5 \/ k = 5  OBVIOUS
    <2>2. QED  BY <1>7, <1>8, <2>1
  <1>10. regs' = regs /\ latched' = latched
    <2>1. tap' # "UpdDR"  BY <1>9
    <2>2. QED  BY <1>2, <2>1, Updated
  <1>11. ChainTypes'  BY <1>10, ChainTypesOn DEF ChainTypes
  <1>12. CASE k < 5
    <2>1. k + 1 \in 0 .. 5 /\ Len(todo') = 6 - (k + 1)  BY <1>2, <1>4, <1>12
    <2>2. \A i \in 1 .. Len(todo') : todo'[i].dio = IF k + 1 + i <= 5 THEN 1 ELSE 0
      <3>1. TAKE i \in 1 .. Len(todo')
      <3>2. PICK j \in 1 .. Len(todo) : j = i + 1  BY <1>2
      <3>3. todo'[i] = todo[j] /\ k + j = k + 1 + i  BY <1>2, <3>2
      <3>4. QED  BY <1>4, <3>3
    <2>3. tap' = "TLR" \/ (k + 1 = 1 /\ tap' = "SelDR") \/ (k + 1 = 2 /\ tap' = "SelIR")  BY <1>7, <1>12
    <2>4. Home(k + 1)'  BY <2>1, <2>2, <2>3 DEF Home
    <2>5. Homing'  BY <1>2, <2>1, <2>4 DEF Homing, NoResult
    <2>6. QED  BY <1>11, <2>5 DEF ChainInv
  <1>13. CASE k = 5
    <2>1. Len(todo') = 0  BY <1>2, <1>4, <1>13
    <2>2. todo' = <<>>  BY <1>2, <2>1, EmptySeq
    <2>3. result'.st = "none"  BY <1>2 DEF Homing, NoResult
    <2>4. Parked'  BY <1>2, <1>8, <1>13, <2>2, <2>3 DEF Homing, Parked
    <2>5. QED  BY <1>11, <2>4 DEF ChainInv
  <1>14. k < 5 \/ k = 5  OBVIOUS
  <1>15. QED  BY <1>12, <1>13, <1>14

LEMMA ScanningStep ==
  ASSUME ChainTypes, Scanning, JtagClock
  PROVE  ChainInv'
  <1>1. PICK n \in Nat \ {0}, m \in Nat \ {0} : \E k \in Nat : ScanPoint(n, m, k)  BY DEF Scanning
  <1>2. PICK k \in Nat : ScanPoint(n, m, k)  BY <1>1
  <1>3. cfg' = cfg /\ ready' = ready /\ step' = step  BY JtagClocked DEF ChainTypes
  <1>4. k + 1 \in Nat /\ k + 1 <= n + m + 11 /\ ScanAhead(n, m, k + 1)' /\ Walk(n, m, k + 1, tap')
    BY <1>2, ScanStep
  <1>5. Only => Carried(n, m, k + 1)' /\ regs'[0] \in Word /\ regs'[0] \in asked[0] /\ latched'[0] \in Word
    BY <1>2, CarriedStep
  <1>6. ChainTypes'  BY <1>5, ChainTypesOn
  <1>7. Only' = Only  BY <1>3 DEF Only
  <1>8. ScanPoint(n, m, k + 1)'  BY <1>4, <1>5, <1>7 DEF ScanPoint
  <1>9. Scanning'  BY <1>3, <1>4, <1>8 DEF Scanning
  <1>10. QED  BY <1>6, <1>9 DEF ChainInv

LEMMA JtagClockStep ==
  ASSUME ChainInv, JtagClock
  PROVE  ChainInv'
  <1>1. todo # <<>>  BY DEF JtagClock
  <1>2. ~Parked  BY <1>1 DEF Parked
  <1>3. QED  BY <1>2, ForcedStep, HomingStep, ScanningStep DEF ChainInv
-----------------------------------------------------------------------------
(* The commands over JTAG, and the end of a transfer.                      *)
LEMMA OneLevel ==
  ASSUME NEW tms \in Bit, NEW n \in Nat
  PROVE  /\ IsList(JtagSequence(tms, n), n) /\ \A i \in 1 .. n : JtagSequence(tms, n)[i].dio = tms
  <1> DEFINE x == Shift(tms, 0, FALSE)
  <1>1. x \in Clocks /\ x.dio = tms  BY DEF Shift, Clocks, Bit
  <1> HIDE DEF x
  <1>2. Repeat(n, x) \in Seq(Clocks) /\ Len(Repeat(n, x)) = n /\ \A i \in 1 .. n : Repeat(n, x)[i] = x
    BY <1>1, RepeatList
  <1>3. JtagSequence(tms, n) = Repeat(n, x)  BY DEF JtagSequence, x
  <1>4. QED  BY <1>1, <1>2, <1>3 DEF IsList

LEMMA Asked ==
  ASSUME cfg.port = "Jtag", ChainInv, NEW clocks, NEW next, Command(clocks, next)
  PROVE  /\ Parked \/ Forced
         /\ todo = <<>> /\ step = "none" /\ todo' = clocks /\ step' = next
         /\ cfg' = cfg /\ regs' = regs /\ seen' = <<>>
  <1>1. /\ todo = <<>> /\ step = "none" /\ todo' = clocks /\ step' = next
        /\ cfg' = cfg /\ regs' = regs /\ seen' = <<>>
    BY DEF Command, Quiet
  <1>2. ~Homing
    <2>1. SUFFICES ASSUME NEW k \in 0 .. 5, Home(k) PROVE FALSE  BY DEF Homing
    <2>2. Len(todo) = 6 - k /\ Len(todo) = 0  BY <1>1, <2>1, EmptySeq DEF Home
    <2>3. QED  BY <2>2
  <1>3. ~Scanning  BY <1>1 DEF Scanning
  <1>4. QED  BY <1>1, <1>2, <1>3 DEF ChainInv

LEMMA ChainConnect ==
  ASSUME cfg.port = "Jtag", ChainInv, Connect
  PROVE  ChainInv'
  <1>1. /\ ready' = FALSE /\ result' = NoResult /\ asked' = asked /\ instr' = instr /\ latched' = latched
        /\ cfg.link = "bitbang" => tap' = "TLR" /\ Command(JtagSequence(1, 10), "none")
        /\ cfg.link # "bitbang" => tap' = tap /\ Command(<<>>, "none")
    BY DEF Connect
  <1>2. ChainTypes  BY DEF ChainInv
  <1>3. CASE cfg.link = "bitbang"
    <2>1. todo' = JtagSequence(1, 10) /\ step' = "none" /\ cfg' = cfg /\ regs' = regs  BY <1>1, <1>3, Asked
    <2>2. 1 \in Bit /\ 10 \in Nat  BY DEF Bit
    <2>3. IsList(todo', 10) /\ \A i \in 1 .. 10 : todo'[i].dio = 1  BY <2>1, <2>2, OneLevel
    <2>4. ChainTypes'  BY <1>1, <1>2, <2>1, <2>3 DEF ChainTypes, IsList, Only, Devices
    <2>5. Forced'  BY <1>1, <1>3, <2>1, <2>3 DEF Forced, IsList, NoResult
    <2>6. QED  BY <2>4, <2>5 DEF ChainInv
  <1>4. CASE cfg.link # "bitbang"
    <2>1. todo' = <<>> /\ step' = "none" /\ cfg' = cfg /\ regs' = regs /\ (Parked \/ Forced)  BY <1>1, <1>4, Asked
    <2>2. <<>> \in Seq(Clocks)  BY EmptySeq
    <2>3. ChainTypes'  BY <1>1, <1>2, <2>1, <2>2 DEF ChainTypes, Only, Devices
    <2>4. tap' \in {"RTI", "TLR"}  BY <1>1, <1>4, <2>1 DEF Parked, Forced
    <2>5. Parked'  BY <1>1, <2>1, <2>4 DEF Parked, NoResult
    <2>6. QED  BY <2>3, <2>5 DEF ChainInv
  <1>5. QED  BY <1>3, <1>4

LEMMA ChainToIdle ==
  ASSUME cfg.port = "Jtag", ChainInv, ToIdle
  PROVE  ChainInv'
  <1> DEFINE s == JtagSequence(1, 5)
             t == JtagSequence(0, 1)
  <1>1. /\ ready' = TRUE /\ result' = NoResult /\ asked' = asked /\ tap' = tap /\ instr' = instr
        /\ latched' = latched /\ Command(s \o t, "none")
    BY DEF ToIdle, jtag
  <1>2. ChainTypes  BY DEF ChainInv
  <1>3. todo' = s \o t /\ step' = "none" /\ cfg' = cfg /\ regs' = regs /\ (Parked \/ Forced)  BY <1>1, Asked
  <1>4. IsList(s, 5) /\ IsList(t, 1) /\ (\A i \in 1 .. 5 : s[i].dio = 1) /\ t[1].dio = 0
    <2>1. 1 \in Bit /\ 0 \in Bit /\ 5 \in Nat /\ 1 \in Nat  BY DEF Bit
    <2>2. IsList(s, 5) /\ \A i \in 1 .. 5 : s[i].dio = 1  BY <2>1, OneLevel
    <2>3. IsList(t, 1) /\ \A i \in 1 .. 1 : t[i].dio = 0  BY <2>1, OneLevel
    <2>4. 1 \in 1 .. 1  OBVIOUS
    <2>5. QED  BY <2>2, <2>3, <2>4
  <1> HIDE DEF s, t
  <1>5. Joined(todo', s, t, 5, 1)  BY <1>3, <1>4, JoinLists
  <1>6. IsList(todo', 6) /\ \A i \in 1 .. 6 : todo'[i].dio = IF i <= 5 THEN 1 ELSE 0
    <2>1. /\ IsList(todo', 5 + 1) /\ \A i \in 1 .. 5 : todo'[i] = s[i]
          /\ \A i \in 1 .. 5 + 1 : i > 5 => todo'[i] = t[i - 5]
      BY <1>5 DEF Joined
    <2>2. ASSUME NEW i \in 1 .. 6 PROVE todo'[i].dio = IF i <= 5 THEN 1 ELSE 0
      <3>1. CASE i <= 5
        <4>1. i \in 1 .. 5  BY <3>1
        <4>2. QED  BY <1>4, <2>1, <4>1
      <3>2. CASE ~(i <= 5)
        <4>1. i = 6 /\ i - 5 = 1 /\ i > 5 /\ i \in 1 .. 5 + 1  BY <3>2
        <4>2. todo'[i] = t[1]  BY <2>1, <4>1
        <4>3. QED  BY <1>4, <3>2, <4>2
      <3>3. QED  BY <3>1, <3>2
    <2>3. 5 + 1 = 6  OBVIOUS
    <2>4. QED  BY <2>1, <2>2, <2>3
  <1>7. ChainTypes'  BY <1>1, <1>2, <1>3, <1>6 DEF ChainTypes, IsList, Only, Devices
  <1>8. Home(0)'
    <2>1. tap' = "RTI" \/ tap' = "TLR"  BY <1>1, <1>3 DEF Parked, Forced
    <2>2. Len(todo') = 6 - 0  BY <1>6 DEF IsList
    <2>3. \A i \in 1 .. Len(todo') : todo'[i].dio = IF 0 + i <= 5 THEN 1 ELSE 0
      <3>1. TAKE i \in 1 .. Len(todo')
      <3>2. i \in 1 .. 6 /\ 0 + i = i  BY <2>2
      <3>3. QED  BY <1>6, <3>2
    <2>4. QED  BY <2>1, <2>2, <2>3 DEF Home
  <1>9. Homing'
    <2>1. 0 \in 0 .. 5  OBVIOUS
    <2>2. QED  BY <1>1, <1>3, <1>8, <2>1 DEF Homing, NoResult
  <1>10. QED  BY <1>7, <1>9 DEF ChainInv

LEMMA ChainTransfer ==
  ASSUME cfg.port = "Jtag", ChainInv, Transfer
  PROVE  ChainInv'
  <1>1. PICK rnw \in {0, 1}, at \in DOMAIN regs, w \in Words :
          LET c == [rnw |-> rnw, at |-> at, word |-> w] IN
          /\ cmd' = c /\ asked' = IF rnw = 1 THEN asked ELSE [asked EXCEPT ![at] = @ \cup {w}]
          /\ IF cfg.port = "Swd" THEN Command(Ask(c), "ack")
             ELSE Command(WriteIr(at) \o ReadWriteDr(at, Acc(c)), "scanned")
    BY DEF Transfer
  <1>2. ready /\ ready' = ready /\ tap' = tap /\ instr' = instr /\ latched' = latched  BY DEF Transfer, jtag
  <1>3. ChainTypes  BY DEF ChainInv
  <1>4. PICK c : c = [rnw |-> rnw, at |-> at, word |-> w]  OBVIOUS
  <1>5. PICK r : r = WriteIr(at) \o ReadWriteDr(at, Acc(c))  OBVIOUS
  <1>6. /\ cmd' = c /\ Command(r, "scanned")
        /\ asked' = IF rnw = 1 THEN asked ELSE [asked EXCEPT ![at] = @ \cup {w}]
    <2>1. cfg.port # "Swd"  OBVIOUS
    <2>2. QED  BY <1>1, <1>4, <1>5, <2>1
  <1>7. /\ todo' = r /\ step' = "scanned" /\ cfg' = cfg /\ regs' = regs /\ seen' = <<>>
        /\ Parked \/ Forced
    BY <1>6, Asked
  <1>8. tap' = "RTI"  BY <1>2, <1>7 DEF Parked, Forced
  <1>9. /\ cfg.chain \in Chains /\ at \in Devices(cfg.chain) /\ w \in Word
        /\ c.rnw = rnw /\ c.at = at /\ c.word = w /\ rnw \in Bit
    BY <1>3, <1>4, WiresAssumption DEF ChainTypes, Bit
  <1>a. PICK n \in Nat \ {0}, m \in Nat \ {0} : TwoScans(r, c, n, m)  BY <1>5, <1>9, TransferShape
  <1>10. /\ IsList(r, n + m + 11) /\ \A j \in 1 .. n + m + 11 : Right(c, n, m, j, r[j])
         /\ Only => n = cfg.chain[1] /\ m = Bits + 1
    BY <1>a DEF TwoScans
  <1>11. asked' \in [Devices(cfg.chain) -> SUBSET Word] /\ asked[at] \in SUBSET Word
         /\ (rnw = 0 => w \in asked'[at])
         /\ \A d \in Devices(cfg.chain) : asked[d] \subseteq asked'[d]
    BY <1>3, <1>6, <1>9 DEF ChainTypes
  <1>12. Only => at = 0 /\ Devices(cfg.chain) = {0}  BY <1>9 DEF Only, Devices
  <1>13. ChainTypes'
    <2>1. todo' \in Seq(Clocks)  BY <1>7, <1>10 DEF IsList
    <2>2. Only' = Only  BY <1>7 DEF Only
    <2>3. Only => regs[0] \in asked'[0]
      <3>1. SUFFICES ASSUME Only PROVE regs[0] \in asked'[0]  OBVIOUS
      <3>2. regs[0] \in asked[0] /\ 0 \in Devices(cfg.chain)  BY <1>3, <1>12, <3>1 DEF ChainTypes
      <3>3. QED  BY <1>11, <3>2
    <2>4. QED  BY <1>2, <1>3, <1>7, <1>11, <2>1, <2>2, <2>3 DEF ChainTypes
  <1>14. Len(todo') = n + m + 11 /\ \A i \in 1 .. Len(todo') : Right(c, n, m, 0 + i, todo'[i])
    <2>1. Len(todo') = n + m + 11  BY <1>7, <1>10 DEF IsList
    <2>2. \A i \in 1 .. n + m + 11 : 0 + i = i  OBVIOUS
    <2>3. QED  BY <1>7, <1>10, <2>1, <2>2
  <1>15. ScanAhead(n, m, 0)'
    <2>1. Len(todo') = n + m + 11 - 0  BY <1>14
    <2>2. QED  BY <1>14, <2>1 DEF ScanAhead, Right
  <1>16. ASSUME Only PROVE Carried(n, m, 0)'
    <2>1. Loaded(n, m, 0)'
      <3>1. \A i \in 1 .. Len(todo') : SentAt(c, n, m, 0 + i, todo'[i])  BY <1>14, <1>16 DEF Right
      <3>2. \A i : SentAt(c, n, m, 0 + i, todo'[i]) => SentAt(cmd', n, m, 0 + i, todo'[i])  BY <1>6
      <3>3. Acc(cmd)' = Acc(c)  BY <1>6, <1>7 DEF Acc
      <3>4. QED  BY <1>6, <3>1, <3>3 DEF Loaded, SentAt
    <2>2. Wanted'  BY <1>6, <1>9, <1>11, <1>12, <1>16 DEF Wanted
    <2>3. ~(4 <= 0) /\ ~(n + 5 <= 0) /\ ~(n + 9 <= 0) /\ ~(n + m + 10 <= 0)  OBVIOUS
    <2>4. n = cfg'.chain[1] /\ m = Bits + 1 /\ seen' = <<>>  BY <1>7, <1>10, <1>16
    <2>5. QED  BY ONLY <2>1, <2>2, <2>3, <2>4 DEF Carried, Selected, Answered
  <1>17. Only' = Only  BY <1>7 DEF Only
  <1>18. Walk(n, m, 0, tap)'  BY <1>8 DEF Walk
  <1>19. ScanPoint(n, m, 0)'
    <2>1. 0 <= n + m + 11  OBVIOUS
    <2>2. QED  BY <1>15, <1>16, <1>17, <1>18, <2>1 DEF ScanPoint
  <1>20. Scanning'
    <2>1. 0 \in Nat  OBVIOUS
    <2>2. QED  BY <1>2, <1>7, <1>19, <2>1 DEF Scanning
  <1>21. QED  BY <1>13, <1>20 DEF ChainInv

LEMMA ChainFinish ==
  ASSUME ChainInv, Finish
  PROVE  ChainInv'
  <1>1. /\ todo = <<>> /\ step \in {"data", "refused", "unheard", "scanned"}
        /\ ready' = (step # "unheard") /\ step' = "none"
        /\ cfg' = cfg /\ cmd' = cmd /\ asked' = asked /\ todo' = todo /\ regs' = regs
        /\ tap' = tap /\ instr' = instr /\ latched' = latched /\ given' = given
    BY DEF Finish, swdp, jtag
  <1>2. ChainTypes /\ step = "scanned" /\ Scanning
    BY <1>1 DEF ChainInv, ChainTypes, Parked, Forced, Homing
  <1>3. result' = [st |-> "ok", word |-> IF cmd.rnw = 0 THEN <<>> ELSE Tail(seen)]
    BY <1>2 DEF Finish
  <1>4. ready' = TRUE  BY <1>1, <1>2
  <1>5. PICK n \in Nat \ {0}, m \in Nat \ {0} : \E k \in Nat : ScanPoint(n, m, k)  BY <1>2 DEF Scanning
  <1>6. PICK k \in Nat : ScanPoint(n, m, k)  BY <1>5
  <1>7. k = n + m + 11 /\ Walk(n, m, k, tap)
    <2>1. k <= n + m + 11 /\ Len(todo) = n + m + 11 - k /\ Walk(n, m, k, tap)  BY <1>6 DEF ScanPoint, ScanAhead
    <2>2. Len(todo) = 0  BY <1>1, EmptySeq
    <2>3. QED  BY <2>1, <2>2
  <1>8. tap = "RTI"  BY <1>7, WalkPlaces
  <1>9. ASSUME Only, ~(cfg.link = "pio" /\ cmd.rnw = 0) PROVE Scanned(cmd)'
    <2>1. Carried(n, m, k)  BY <1>6, <1>9 DEF ScanPoint
    <2>2. n + m + 10 <= k  BY <1>7
    <2>3. Served /\ Wanted  BY <2>1, <2>2 DEF Carried, Answered
    <2>4. cmd.at = 0 /\ cmd.rnw \in {0, 1}  BY <2>3 DEF Wanted, Bit
    <2>5. cmd.rnw = 1 => result'.word = Tail(given[cmd.at])  BY <1>3, <2>3, <2>4 DEF Served, Taken
    <2>6. given[cmd.at][1] = 1 => IF cmd.rnw = 1 THEN latched[cmd.at] = regs[cmd.at] ELSE regs[cmd.at] = cmd.word
      BY <1>9, <2>3, <2>4 DEF Served, Taken
    <2>7. QED  BY <1>1, <2>5, <2>6 DEF Scanned
  <1>10. ChainTypes'  BY <1>1, <1>2, <1>4 DEF ChainTypes, Only, Devices
  <1>11. Parked'  BY <1>1, <1>4, <1>8, <1>9 DEF Parked, Only
  <1>12. QED  BY <1>10, <1>11 DEF ChainInv

LEMMA ChainStill ==
  ASSUME ChainInv, UNCHANGED vars
  PROVE  ChainInv'
  <1>1. /\ UNCHANGED <<cfg, ready, cmd, asked, ops>> /\ UNCHANGED <<step, todo, seen, result>>
        /\ UNCHANGED <<tap, scan, instr, latched, given>> /\ regs' = regs
    BY DEF vars, host, probe, swdp, jtag
  <1>2. Only' = Only /\ Taken' = Taken /\ Acc(cmd)' = Acc(cmd) /\ Scanned(cmd)' = Scanned(cmd)
    BY <1>1 DEF Only, Taken, Acc, Scanned
  <1>3. ChainTypes'  BY <1>1, <1>2 DEF ChainInv, ChainTypes, Devices
  <1>4. CASE Parked  BY <1>1, <1>2, <1>3, <1>4 DEF Parked, ChainInv
  <1>5. CASE Forced  BY <1>1, <1>3, <1>5 DEF Forced, ChainInv, NoResult
  <1>6. CASE Homing
    <2>1. \A k : Home(k)' = Home(k)  BY <1>1 DEF Home
    <2>2. Homing'  BY <1>1, <1>6, <2>1 DEF Homing, NoResult
    <2>3. QED  BY <1>3, <2>2 DEF ChainInv
  <1>7. CASE Scanning
    <2>1. \A n, m, k : ScanAhead(n, m, k)' = ScanAhead(n, m, k)  BY <1>1 DEF ScanAhead
    <2>2. \A n, m, k : Loaded(n, m, k)' = Loaded(n, m, k)  BY <1>1, <1>2 DEF Loaded, SentAt
    <2>3. \A m, j : Exchanged(m, j)' = Exchanged(m, j)  BY <1>1, <1>2 DEF Exchanged, Moved
    <2>4. Wanted' = Wanted /\ Served' = Served  BY <1>1, <1>2 DEF Wanted, Served
    <2>5. \A n, j : Moved(scan, AccBits(n), n, j)' = Moved(scan, AccBits(n), n, j)  BY <1>1 DEF Moved, AccBits
    <2>6. \A n, m, k : Carried(n, m, k)' = Carried(n, m, k)  BY <1>1, <2>2, <2>3, <2>4, <2>5 DEF Carried, Selected, Answered
    <2>7. \A n, m, k : ScanPoint(n, m, k)' = ScanPoint(n, m, k)  BY <1>1, <1>2, <2>1, <2>6 DEF ScanPoint
    <2>8. Scanning'  BY <1>1, <1>7, <2>7 DEF Scanning
    <2>9. QED  BY <1>3, <2>8 DEF ChainInv
  <1>8. QED  BY <1>4, <1>5, <1>6, <1>7 DEF ChainInv

ChainSafe == cfg.port \in {"Swd", "Jtag"} /\ (cfg.port = "Jtag" => ChainInv)

LEMMA ChainSafeInit == Init => ChainSafe
  <1> SUFFICES ASSUME Init PROVE ChainSafe  OBVIOUS
  <1>1. PICK p \in Ports, l \in Links, t \in Trns, i \in Idles, ph \in BOOLEAN, c \in Chains :
          /\ cfg = [port |-> p, link |-> l, trn |-> t, phase |-> ph, idle |-> i, chain |-> c]
          /\ regs = [a \in (IF p = "Swd" THEN Addrs ELSE Devices(c)) |-> ResetWord]
          /\ instr = [d \in Devices(c) |-> "bypass"] /\ latched = [d \in Devices(c) |-> ResetWord]
    BY DEF Init
  <1>2. cfg.port = p /\ cfg.chain = c /\ p \in {"Swd", "Jtag"}  BY <1>1, WiresAssumption
  <1>3. SUFFICES ASSUME p = "Jtag" PROVE ChainInv  BY <1>2 DEF ChainSafe
  <1>4. regs = [d \in Devices(c) |-> ResetWord] /\ DOMAIN instr = Devices(c) /\ latched = regs  BY <1>1, <1>3
  <1>5. ResetWord \in Word  BY DEF ResetWord, Word
  <1>6. asked = [a \in Devices(c) |-> {ResetWord}]  BY <1>4 DEF Init
  <1>7. /\ ready = FALSE /\ step = "none" /\ todo = <<>> /\ result = NoResult /\ tap = "RTI"  BY DEF Init
  <1>8. <<>> \in Seq(Clocks)  BY EmptySeq
  <1>9. Only => 0 \in Devices(c)  BY <1>2 DEF Only, Devices
  <1>10. ChainTypes  BY <1>2, <1>3, <1>4, <1>5, <1>6, <1>7, <1>8, <1>9 DEF ChainTypes
  <1>11. Parked  BY <1>7 DEF Parked, NoResult
  <1>12. QED  BY <1>10, <1>11 DEF ChainInv

LEMMA ChainSafeNext ==
  ASSUME ChainSafe, [Next]_vars
  PROVE  ChainSafe'
  <1>1. cfg' = cfg
    BY DEF Next, vars, host, Connect, LineReset, ToIdle, Transfer, Acknowledged, Finish, SwdClock, JtagClock,
           Command
  <1>2. SUFFICES ASSUME cfg.port = "Jtag", ChainInv PROVE ChainInv'  BY <1>1 DEF ChainSafe
  <1>3. CASE Connect  BY <1>2, <1>3, ChainConnect
  <1>4. CASE LineReset  BY <1>2, <1>4 DEF LineReset
  <1>5. CASE ToIdle  BY <1>2, <1>5, ChainToIdle
  <1>6. CASE Transfer  BY <1>2, <1>6, ChainTransfer
  <1>7. CASE Acknowledged  BY <1>2, <1>7 DEF Acknowledged, ChainInv, ChainTypes
  <1>8. CASE Finish  BY <1>2, <1>8, ChainFinish
  <1>9. CASE SwdClock  BY <1>2, <1>9 DEF SwdClock
  <1>10. CASE JtagClock  BY <1>2, <1>10, JtagClockStep
  <1>11. CASE UNCHANGED vars  BY <1>2, <1>11, ChainStill
  <1>12. QED  BY <1>3, <1>4, <1>5, <1>6, <1>7, <1>8, <1>9, <1>10, <1>11 DEF Next

LEMMA ChainSafety == Spec => []ChainSafe
  <1>1. Init => ChainSafe  BY ChainSafeInit
  <1>2. ChainSafe /\ [Next]_vars => ChainSafe'  BY ChainSafeNext
  <1>3. QED  BY <1>1, <1>2, PTL DEF Spec

LEMMA AtRunTest ==
  ASSUME ChainSafe, cfg.port = "Jtag", Quiet
  PROVE  ChainTypes /\ (Parked \/ (Forced /\ ~ready /\ result.st = "none"))
  <1>1. ChainInv /\ todo = <<>> /\ step = "none"  BY DEF ChainSafe, Quiet
  <1>2. ~Homing
    <2>1. SUFFICES ASSUME NEW k \in 0 .. 5, Home(k) PROVE FALSE  BY DEF Homing
    <2>2. Len(todo) = 6 - k /\ Len(todo) = 0  BY <1>1, <2>1, EmptySeq DEF Home
    <2>3. QED  BY <2>2
  <1>3. ~Scanning  BY <1>1 DEF Scanning
  <1>4. QED  BY <1>1, <1>2, <1>3 DEF ChainInv, Forced, NoResult

LEMMA ChainInStep == ASSUME ChainSafe, cfg.port = "Jtag" PROVE InStep
  <1>1. SUFFICES ASSUME ready, Quiet PROVE tap = "RTI"  BY DEF InStep
  <1>2. QED  BY <1>1, AtRunTest DEF Parked

LEMMA ChainResult == ASSUME ChainSafe PROVE ScanExact
  <1>1. SUFFICES ASSUME cfg.port = "Jtag", Quiet, result.st = "ok", Alone, ~(cfg.link = "pio" /\ cmd.rnw = 0)
                 PROVE  Scanned(cmd)
    BY DEF ScanExact
  <1>2. Only  BY <1>1 DEF Alone, Only
  <1>3. Parked  BY <1>1, AtRunTest
  <1>4. QED  BY <1>1, <1>2, <1>3 DEF Parked

LEMMA ChainAsked == ASSUME ChainSafe, cfg.port = "Jtag" PROVE OnlyAskedAlone
  <1>1. SUFFICES ASSUME Alone PROVE \A a \in DOMAIN regs : regs[a] \in asked[a]  BY DEF OnlyAskedAlone
  <1>2. ChainTypes /\ Only  BY <1>1 DEF ChainSafe, ChainInv, Alone, Only
  <1>3. DOMAIN regs = {0} /\ regs[0] \in asked[0]  BY <1>2 DEF ChainTypes, Only, Devices
  <1>4. QED  BY <1>3
-----------------------------------------------------------------------------
(* SWDIO is never driven from both ends (write_bits, read_bits and the     *)
(* turnaround of bitbang.rs and swd.rs): at every clock at which the       *)
(* target drives, the probe has released the line, for every width of a    *)
(* word, every turnaround, data phase setting and number of idle clocks,   *)
(* with one disturbed clock after each line reset. With two it is false.   *)
THEOREM SwdioDrivenOnce ==
  ASSUME MaxNoise <= 1
  PROVE  Spec => []NoContention
  <1>1. ASSUME WireSafe PROVE NoContention
    <2>1. SUFFICES ASSUME WireInv, todo # <<>>, Drives PROVE Head(todo).dio = Float
      BY <1>1 DEF NoContention, WireSafe
    <2>2. WireTypes /\ Commanded /\ Phases  BY <2>1 DEF WireInv, Phases
    <2>3. /\ Head(todo) = todo[1] /\ Len(todo) \in Nat /\ Len(todo) >= 1 /\ 1 \in 1 .. Len(todo)
          /\ plan # <<>> /\ plan[1] < 2 /\ Len(plan) \in Nat /\ Len(plan) >= 1 /\ 1 \in 1 .. Len(plan)
      <3>1. todo \in Seq(Clocks) /\ plan \in Seq(Level)  BY <2>2 DEF WireTypes, Level
      <3>2. plan # <<>> /\ Head(plan) < 2  BY <2>1 DEF Drives, Float
      <3>3. Len(todo) \in Nat /\ Len(todo) >= 1 /\ Head(todo) = todo[1]  BY <2>1, <3>1, TailOf
      <3>4. Len(plan) \in Nat /\ Len(plan) >= 1 /\ Head(plan) = plan[1]  BY <3>1, <3>2, TailOf
      <3>5. QED  BY <3>2, <3>3, <3>4
    <2>4. CASE AtRest  BY <2>1, <2>4 DEF AtRest
    <2>5. CASE Resetting  BY <2>3, <2>5 DEF Resetting
    <2>6. CASE Requesting
      <3>1. PICK k \in 0 .. AskLen : AskAhead(k) /\ (Hearing \/ Lost(k) \/ k >= 8)  BY <2>6 DEF Requesting
      <3>2. k >= 8  BY <2>3, <3>1 DEF Hearing, Lost, Untuned
      <3>3. ~(k + 1 <= 8)  BY <3>1, <3>2
      <3>4. todo[1].dio = IF k + 1 <= 8 THEN Bits8(cmd)[k + 1] ELSE Float  BY <2>3, <3>1 DEF AskAhead
      <3>5. QED  BY <2>3, <3>3, <3>4
    <2>7. CASE Reading
      <3>1. PICK k \in 0 .. DataLen + cfg.idle : ReadAhead(k) /\ (k < DataLen \/ Hearing)  BY <2>7 DEF Reading
      <3>2. k < DataLen  BY <2>3, <3>1 DEF Hearing
      <3>3. k + 1 <= DataLen
        <4>1. DataLen \in Nat  BY <2>2, WidthFacts
        <4>2. QED  BY <3>1, <3>2, <4>1
      <3>4. todo[1].dio = IF k + 1 <= DataLen THEN Float ELSE 0  BY <2>3, <3>1 DEF ReadAhead
      <3>5. QED  BY <2>3, <3>3, <3>4
    <2>8. CASE Writing
      <3>1. PICK k \in 0 .. DataLen + cfg.idle : Hearing \/ Obeys(OK, cfg.trn + 3 + k)  BY <2>8 DEF Writing
      <3>2. PICK m \in Nat : m = cfg.trn + 3 + k
        <4>1. cfg.trn \in Nat /\ k \in Nat  BY <2>2, WidthFacts
        <4>2. QED  BY <4>1
      <3>3. Obeys(OK, m)  BY <2>3, <3>1, <3>2 DEF Hearing
      <3>4. plan[1] = PlanAt(OK, m + 1) /\ Len(plan) = PlanLen(OK) - m  BY <2>3, <3>3 DEF Obeys
      <3>5. cfg.trn \in Nat /\ m + 1 \in Nat /\ cfg.trn + 3 < m + 1 /\ m + 1 <= PlanLen(OK)
        <4>1. cfg.trn \in Nat /\ DataLen \in Nat  BY <2>2, WidthFacts
        <4>2. PlanLen(OK) \in Nat
          <5>1. PlanLen(OK) = cfg.trn + 3 + DataLen  BY DEF PlanLen, RestLen
          <5>2. QED  BY <4>1, <5>1
        <4>3. k \in Nat  BY <4>1
        <4>4. Len(plan) = PlanLen(OK) - m /\ Len(plan) \in Nat /\ Len(plan) >= 1 /\ m \in Nat  BY <2>3, <3>2, <3>4
        <4>5. m = cfg.trn + 3 + k  BY <3>2
        <4>6. m + 1 <= PlanLen(OK)  BY ONLY <4>2, <4>4
        <4>7. cfg.trn + 3 < m + 1  BY ONLY <4>1, <4>3, <4>4, <4>5
        <4>8. QED  BY <4>1, <4>4, <4>6, <4>7
      <3>6. PICK j \in 1 .. PlanLen(OK) : j = m + 1
        <4>1. PlanLen(OK) \in Int
          <5>1. cfg.trn \in Nat /\ DataLen \in Nat  BY <2>2, WidthFacts
          <5>2. PlanLen(OK) = cfg.trn + 3 + DataLen  BY DEF PlanLen, RestLen
          <5>3. QED  BY <5>1, <5>2
        <4>2. QED  BY <3>2, <3>5, <4>1
      <3>7. cmd \in Transfers /\ Storing(OK) /\ OK \in Acks
        <4>1. cmd.rnw = 0 /\ step = "data"  BY <2>8 DEF Writing
        <4>2. QED  BY <2>2, <4>1 DEF Commanded, Storing, Acks
      <3>8. PlanAt(OK, j) \in {Float, Sample}
        <4>1. cfg.trn + 3 < j /\ (j <= 2 * cfg.trn + 3 \/ 2 * cfg.trn + 3 < j)  BY <3>5, <3>6
        <4>2. QED  BY <2>2, <3>7, <4>1, PlanValue
      <3>9. plan[1] \in {2, 3}  BY <3>4, <3>6, <3>8 DEF Float, Sample
      <3>10. QED  BY <2>3, <3>9
    <2>9. CASE Refused
      <3>1. plan[1] = 2  BY <2>3, <2>9 DEF Refused, Float
      <3>2. QED  BY <2>3, <3>1
    <2>10. CASE Unheard  BY <2>3, <2>10 DEF Unheard
    <2>11. QED  BY <2>2, <2>4, <2>5, <2>6, <2>7, <2>8, <2>9, <2>10 DEF Phases
  <1>2. Spec => []WireSafe  BY WireSafety
  <1>3. QED  BY <1>1, <1>2, PTL

(* With nothing under way, a target that the host takes to be in step      *)
(* (transfer() and its error paths in bitbang.rs and swd.rs, write_ir and  *)
(* read_write_dr in bitbang.rs and jtag.rs) is where the next transfer     *)
(* begins: an SWD target waits for a request, at its first bit or one bit  *)
(* late behind a disturbed last idle clock; the TAPs of a chain of any     *)
(* number of devices, with instructions of any length, are in              *)
(* Run-Test/Idle.                                                          *)
THEOREM WireInStep ==
  ASSUME MaxNoise <= 1
  PROVE  Spec => []InStep
  <1>1. ASSUME WireSafe, cfg.port = "Swd" PROVE InStep
    <2>1. SUFFICES ASSUME WireInv, ready, Quiet
                   PROVE  mode = "sync" /\ plan = <<>> /\ (heard = <<>> \/ (noise > 0 /\ Len(heard) = 1))
      BY <1>1 DEF InStep, WireSafe
    <2>2. AtRest  BY <2>1, Resting DEF WireInv, Phases
    <2>3. Hearing /\ Waiting  BY <2>1, <2>2 DEF AtRest
    <2>4. CASE heard = <<>>  BY <2>3, <2>4 DEF Hearing
    <2>5. CASE heard = <<1>> /\ noise = 1
      <3>1. Len(heard) = 1 /\ noise > 0  BY <2>5
      <3>2. QED  BY <2>3, <3>1 DEF Hearing
    <2>6. QED  BY <2>3, <2>4, <2>5 DEF Waiting
  <1>2. WireSafe /\ ChainSafe => InStep  BY <1>1, ChainInStep DEF ChainSafe
  <1>3. Spec => []WireSafe /\ []ChainSafe  BY WireSafety, ChainSafety
  <1>4. QED  BY <1>2, <1>3, PTL

(* A transfer over SWD that is reported as done was done (bitbang.rs and   *)
(* swd.rs): the word read is the one in the register, and the word of a    *)
(* write is in it, or the target has seen that it was damaged.             *)
THEOREM TransfersExact ==
  ASSUME MaxNoise <= 1
  PROVE  Spec => []TransferExact
  <1>1. ASSUME WireSafe PROVE TransferExact
    <2>1. SUFFICES ASSUME WireInv, Quiet, result.st = "ok" PROVE Done(cmd)  BY <1>1 DEF TransferExact, WireSafe
    <2>2. AtRest  BY <2>1, Resting DEF WireInv, Phases
    <2>3. QED  BY <2>1, <2>2 DEF AtRest
  <1>2. Spec => []WireSafe  BY WireSafety
  <1>3. QED  BY <1>1, <1>2, PTL

(* The scans of a transfer over JTAG (write_ir and read_write_dr in        *)
(* bitbang.rs and jtag.rs) carry it bit by bit, on a chain of one device   *)
(* with an instruction register of any length: the word that a read        *)
(* returns is the word that the device gave, and unless it refused, it     *)
(* holds the word written, or gives the register read to the next scan.    *)
(* A write of the PIO is excepted, which goes out as a read.               *)
THEOREM ScansExact == Spec => []ScanExact
  <1>1. ChainSafe => ScanExact  BY ChainResult
  <1>2. QED  BY <1>1, ChainSafety, PTL

(* Both together: what the transports report as done was done over SWD,    *)
(* and scanned exactly over JTAG.                                          *)
THEOREM WireResultExact ==
  ASSUME MaxNoise <= 1
  PROVE  Spec => []ResultExact
  <1>1. TransferExact /\ ScanExact => ResultExact  BY DEF ResultExact
  <1>2. QED  BY <1>1, TransfersExact, ScansExact, PTL

(* No register of an SWD target, or of the only device of a JTAG chain,    *)
(* ever holds a word that the host did not write to it, whichever bit of a *)
(* request, an acknowledge or a word was damaged on SWD (the parity of the *)
(* request and of the word in bitbang.rs and swd.rs).                      *)
THEOREM WireOnlyAsked ==
  ASSUME MaxNoise <= 1
  PROVE  Spec => []OnlyAskedAlone
  <1>1. ASSUME WireSafe, cfg.port = "Swd" PROVE OnlyAskedAlone
    <2>1. SUFFICES ASSUME WireInv PROVE \A a \in DOMAIN regs : regs[a] \in asked[a]
      BY <1>1 DEF OnlyAskedAlone, WireSafe
    <2>2. DOMAIN regs = Addrs  BY <2>1 DEF WireInv, WireTypes
    <2>3. QED  BY <2>1, <2>2 DEF WireInv, Commanded
  <1>2. WireSafe /\ ChainSafe => OnlyAskedAlone  BY <1>1, ChainAsked DEF ChainSafe
  <1>3. Spec => []WireSafe /\ []ChainSafe  BY WireSafety, ChainSafety
  <1>4. QED  BY <1>2, <1>3, PTL
-----------------------------------------------------------------------------
(* A transport of one protocol never has the other port connected.         *)
OwnPort ==
  /\ link \in {"swd", "pio_swd"} => active # "Jtag"
  /\ link \in {"jtag", "pio_jtag"} => active # "Swd"

(* Only a pin command waits.                                               *)
WaitIsLoose == waiting /\ active = "none" => loose

(* WritesReach holds while DAP_SWJ_Pins waits, too: what the pins are read *)
(* back into contains what they were.                                      *)
Reach ==
  active # "none" =>
    /\ "clk" \in driven
    /\ active = "Jtag" => "tdi" \in driven
    /\ link # "pio_swd" /\ ~cut => "dio" \in driven

PinsInv ==
  /\ TypeOK /\ OwnPort /\ WaitIsLoose
  /\ ResetOnlyAsked /\ ReleasedUnlessLoose /\ Reach
-----------------------------------------------------------------------------
LEMMA InitPins == PinsInit => PinsInv
  <1> SUFFICES ASSUME PinsInit PROVE PinsInv  OBVIOUS
  <1>1. TypeOK
    <2>1. commands \in 0 .. MaxCommands  BY PinsAssumption DEF PinsInit
    <2>2. {waiting, held, loose, cut} \subseteq BOOLEAN  BY DEF PinsInit
    <2>3. QED  BY <2>1, <2>2 DEF PinsInit, TypeOK
  <1>2. OwnPort /\ WaitIsLoose /\ ResetOnlyAsked /\ ReleasedUnlessLoose /\ Reach
    BY DEF PinsInit, OwnPort, WaitIsLoose, ResetOnlyAsked, ReleasedUnlessLoose, Reach
  <1>3. QED  BY <1>1, <1>2 DEF PinsInv

(* The counter of the commands keeps its bound.                            *)
LEMMA CommandType ==
  ASSUME TypeOK, OneCommand
  PROVE  commands' \in 0 .. MaxCommands /\ link' = link /\ ~waiting
  BY PinsAssumption DEF TypeOK, OneCommand

LEMMA DriveType ==
  ASSUME NEW pins \in SUBSET Pins, NEW level \in {0, 1}, Drive(pins, level)
  PROVE  /\ driven' = pins /\ driven' \subseteq Pins /\ nreset' \in {0, 1}
         /\ nreset' = 0 => level = 0 /\ "reset" \in pins
  BY DEF Drive

LEMMA DisconnectPins == PinsInv /\ Disconnect => PinsInv'
  <1> SUFFICES ASSUME PinsInv, Disconnect PROVE PinsInv'  OBVIOUS
  <1> USE DEF PinsInv
  <1>1. commands' \in 0 .. MaxCommands /\ link' = link /\ ~waiting  BY CommandType DEF Disconnect
  <1>2. LeftDriven \in SUBSET Pins /\ (link # "swj" /\ link # "pio_swd" => LeftDriven = {})
    BY DEF LeftDriven, SwjReleased, PioSwdReleased, TypeOK
  <1>3. /\ driven' = LeftDriven /\ nreset' \in {0, 1}
        /\ nreset' = 0 => nreset = 0 /\ "reset" \in LeftDriven
    BY <1>2, DriveType DEF Disconnect, TypeOK
  <1>4. active' = "none" /\ waiting' = FALSE /\ held' = (held /\ "reset" \in LeftDriven)
        /\ loose' = (loose /\ LeftDriven # {}) /\ cut' = FALSE
    BY <1>1, CommandType DEF Disconnect, TypeOK
  <1>5. TypeOK'
    <2>1. noted' \subseteq SwdPins  BY DEF Disconnect, TypeOK, SwjNoted
    <2>2. QED  BY <1>1, <1>2, <1>3, <1>4, <2>1 DEF TypeOK
  <1>6. ResetOnlyAsked'  BY <1>1, <1>3, <1>4 DEF ResetOnlyAsked
  <1>7. ReleasedUnlessLoose'
    <2>1. CASE link = "swj"
      <3>1. ~loose /\ active = "none" => LeftDriven = {}
        BY <2>1 DEF ReleasedUnlessLoose, LeftDriven, SwjReleased
      <3>2. active # "none" => LeftDriven = {}  BY <2>1 DEF LeftDriven, SwjReleased
      <3>3. QED  BY <1>1, <1>3, <1>4, <3>1, <3>2 DEF ReleasedUnlessLoose
    <2>2. CASE link # "swj"  BY <1>1, <1>2, <1>3, <2>2 DEF ReleasedUnlessLoose
    <2>3. QED  BY <2>1, <2>2
  <1>8. QED  BY <1>1, <1>4, <1>5, <1>6, <1>7 DEF OwnPort, WaitIsLoose, Reach

(* What DAP_Connect leaves when the port is the transport's own.           *)
ConnectedPins(port) ==
  /\ driven' \subseteq Pins /\ noted' \subseteq SwdPins
  /\ port = "Swd" => {"clk", "dio"} \subseteq driven'
  /\ port = "Jtag" => Pins \subseteq driven'

ConnectedReset ==
  /\ nreset' \in {0, 1}
  /\ nreset' = 0 => link = "pio_swd"

OwnConnect(port) ==
  \/ link = "swj" /\ SwjConnect(port)
  \/ link = "swd" /\ port = "Swd" /\ SwdConnect
  \/ link = "jtag" /\ port = "Jtag" /\ JtagConnect
  \/ link = "pio_swd" /\ port = "Swd" /\ PioSwdConnect
  \/ link = "pio_jtag" /\ port = "Jtag" /\ PioJtagConnect

LEMMA ConnectedOwn ==
  ASSUME TypeOK, NEW port \in Protocols, OwnConnect(port)
  PROVE  ConnectedPins(port) /\ ConnectedReset /\ (held' = FALSE \/ held' = held)
  <1>0. driven \in SUBSET Pins /\ noted \in SUBSET SwdPins /\ nreset \in {0, 1}
    BY DEF TypeOK
  <1>1. CASE link = "swj" /\ SwjConnect(port)
    <2>1. SwjReleased \in SUBSET Pins /\ SwjNoted \in SUBSET SwdPins
      BY <1>0 DEF SwjReleased, SwjNoted
    <2>2. PICK left \in SUBSET Pins : Drive(left \cup (IF port = "Swd" THEN SwdPins ELSE Pins), 1)
      BY <1>0, <1>1, <2>1 DEF SwjConnect
    <2>3. noted' \subseteq SwdPins /\ held' = FALSE
      BY <1>0, <1>1, <2>1 DEF SwjConnect
    <2>4. ConnectedPins(port)
      BY <2>2, <2>3 DEF ConnectedPins, Drive, SwdPins, Pins
    <2>5. ConnectedReset  BY <2>2 DEF ConnectedReset, Drive
    <2>6. QED  BY <2>3, <2>4, <2>5
  <1>2. CASE link = "swd" /\ port = "Swd" /\ SwdConnect
    <2>1. ConnectedPins(port)
      BY <1>0, <1>2 DEF SwdConnect, ConnectedPins, Drive, SwdPins, Pins
    <2>2. ConnectedReset  BY <1>2 DEF SwdConnect, ConnectedReset, Drive
    <2>3. QED  BY <1>2, <2>1, <2>2 DEF SwdConnect
  <1>3. CASE link \in {"jtag", "pio_jtag"} /\ port = "Jtag" /\ (JtagConnect \/ PioJtagConnect)
    <2>1. ConnectedPins(port)
      BY <1>0, <1>3 DEF JtagConnect, PioJtagConnect, ConnectedPins, Drive
    <2>2. ConnectedReset  BY <1>3 DEF JtagConnect, PioJtagConnect, ConnectedReset, Drive
    <2>3. QED  BY <1>3, <2>1, <2>2 DEF JtagConnect, PioJtagConnect
  <1>4. CASE link = "pio_swd" /\ port = "Swd" /\ PioSwdConnect
    <2>1. ConnectedPins(port)
      BY <1>0, <1>4 DEF PioSwdConnect, ConnectedPins, Drive, SwdPins, Pins
    <2>2. ConnectedReset  BY <1>0, <1>4 DEF PioSwdConnect, ConnectedReset, Drive
    <2>3. QED  BY <1>4, <2>1, <2>2 DEF PioSwdConnect
  <1>5. QED  BY <1>1, <1>2, <1>3, <1>4 DEF OwnConnect

LEMMA ConnectPins == PinsInv /\ PinsConnect => PinsInv'
  <1> SUFFICES ASSUME PinsInv, PinsConnect PROVE PinsInv'  OBVIOUS
  <1> USE DEF PinsInv
  <1>1. commands' \in 0 .. MaxCommands /\ link' = link /\ ~waiting /\ waiting' = waiting /\ loose' = loose
    BY CommandType DEF PinsConnect
  <1>2. PICK port \in Protocols :
       \/ active' = port /\ OwnConnect(port) /\ cut' = FALSE
       \/ UNCHANGED <<active, driven, nreset, noted, held, cut>>
    BY DEF PinsConnect, OwnConnect
  <1>3. CASE UNCHANGED <<active, driven, nreset, noted, held, cut>>
    BY <1>1, <1>3
    DEF TypeOK, OwnPort, WaitIsLoose, ResetOnlyAsked, ReleasedUnlessLoose, Reach
  <1>4. CASE active' = port /\ OwnConnect(port) /\ cut' = FALSE
    <2>1. ConnectedPins(port) /\ ConnectedReset /\ (held' = FALSE \/ held' = held)
      BY <1>4, ConnectedOwn
    <2>2. OwnPort'  BY <1>1, <1>4 DEF OwnConnect, OwnPort, Protocols
    <2>3. TypeOK'
      <3>1. {waiting', held', loose', cut'} \subseteq BOOLEAN
        BY <1>1, <1>4, <2>1 DEF TypeOK
      <3>2. driven' \subseteq Pins /\ noted' \subseteq SwdPins /\ nreset' \in {0, 1}
        BY <2>1 DEF ConnectedPins, ConnectedReset
      <3>3. QED  BY <1>1, <1>4, <3>1, <3>2 DEF TypeOK
    <2>4. ResetOnlyAsked'
      BY <1>1, <2>1 DEF ConnectedReset, ResetOnlyAsked, BitBang
    <2>5. WaitIsLoose' /\ ReleasedUnlessLoose'
      BY <1>1, <1>4 DEF WaitIsLoose, ReleasedUnlessLoose, Protocols
    <2>6. Reach'
      BY <1>1, <1>4, <2>1 DEF ConnectedPins, Reach, Protocols, Pins, SwdPins
    <2>7. QED  BY <2>2, <2>3, <2>4, <2>5, <2>6
  <1>5. QED  BY <1>2, <1>3, <1>4

LEMMA PinsCommandPins == PinsInv /\ SwjPinsCommand => PinsInv'
  <1> SUFFICES ASSUME PinsInv, SwjPinsCommand PROVE PinsInv'  OBVIOUS
  <1> USE DEF PinsInv
  <1>1. /\ commands' \in 0 .. MaxCommands /\ link' = link /\ active' = active /\ cut' = cut
        /\ waiting' = TRUE /\ loose' = (loose \/ active = "none")
    BY CommandType DEF SwjPinsCommand
  <1>2. PICK select \in BOOLEAN, high \in {0, 1} :
          /\ \/ BySwdCode /\ SetSwdPins(select, high)
             \/ link \in BitBang /\ ~BySwdCode /\ SetJtagPins(select, high)
             \/ link = "pio_swd" /\ SetPioSwdPins(select, high)
             \/ link = "pio_jtag" /\ SetPioJtagPins(select, high)
          /\ held' = IF select THEN high = 0 ELSE held
    BY DEF SwjPinsCommand
  <1>3. /\ driven' \subseteq Pins /\ noted' \subseteq SwdPins /\ nreset' \in {0, 1}
        /\ link \in BitBang => driven \subseteq driven' /\ (nreset' = 0 => held')
        /\ link = "pio_swd" => driven' = {"clk", "reset"}
        /\ link = "pio_jtag" => driven' = Pins
    BY <1>2
    DEF TypeOK, BySwdCode, SetSwdPins, SetJtagPins, SetPioSwdPins, SetPioJtagPins, Drive,
        SwdPins, Pins, BitBang, ResetOnlyAsked
  <1>4. held' \in BOOLEAN  BY <1>2 DEF TypeOK
  <1>5. TypeOK'  BY <1>1, <1>3, <1>4 DEF TypeOK
  <1>6. Reach'
    <2>1. link \in BitBang \cup Pio  BY PinsAssumption DEF TypeOK
    <2>2. CASE active # "none" /\ link \in BitBang
      <3>1. active = "Jtag" => "tdi" \in driven'  BY <1>3, <2>2 DEF Reach
      <3>2. "clk" \in driven' /\ (~cut => "dio" \in driven')
        BY <1>3, <2>2 DEF Reach, BitBang
      <3>3. QED  BY <1>1, <3>1, <3>2 DEF Reach
    <2>3. CASE active # "none" /\ link = "pio_swd"
      BY <1>1, <1>3, <2>3 DEF Reach, OwnPort
    <2>4. CASE active # "none" /\ link = "pio_jtag"
      BY <1>1, <1>3, <2>4 DEF Reach, Pins, SwdPins
    <2>5. QED  BY <1>1, <2>1, <2>2, <2>3, <2>4 DEF Reach, Pio
  <1>7. QED
    BY <1>1, <1>3, <1>5, <1>6 DEF OwnPort, WaitIsLoose, ResetOnlyAsked, ReleasedUnlessLoose

LEMMA SampledPins == PinsInv /\ Sampled => PinsInv'
  <1> SUFFICES ASSUME PinsInv, Sampled PROVE PinsInv'  OBVIOUS
  <1> USE DEF PinsInv
  <1>1. driven \subseteq driven' /\ driven' \subseteq Pins /\ nreset' \in {0, 1}
        /\ (nreset' = 0 => nreset = 0)
    BY DEF Sampled, TypeOK, Drive, Restored, SwdPins, Pins
  <1>2. UNCHANGED <<link, active, noted, held, loose, cut, commands>> /\ waiting /\ waiting' = FALSE
    BY DEF Sampled
  <1>3. QED
    BY <1>1, <1>2
    DEF TypeOK, OwnPort, WaitIsLoose, ResetOnlyAsked, ReleasedUnlessLoose, Reach

(* A command that moves SWDIO and nothing else.                            *)
LEMMA DioPins ==
  ASSUME PinsInv, OneCommand, driven' \subseteq Pins, noted' \subseteq SwdPins, cut' \in BOOLEAN,
         driven \ {"dio"} \subseteq driven',
         link = "pio_swd" \/ cut' \/ "dio" \in driven' \/ (driven' = driven /\ cut' = cut),
         loose' = (loose \/ active = "none") \/ (active # "none" /\ loose' = loose),
         UNCHANGED <<active, nreset, waiting, held>>
  PROVE  PinsInv'
  BY CommandType
  DEF PinsInv, TypeOK, OwnPort, WaitIsLoose, ResetOnlyAsked, ReleasedUnlessLoose, Reach

LEMMA MovesPins ==
  PinsInv /\ (PinsSwdSequence \/ SwdTransfer \/ Clocked) => PinsInv'
  <1> SUFFICES ASSUME PinsInv, PinsSwdSequence \/ SwdTransfer \/ Clocked PROVE PinsInv'  OBVIOUS
  <1>0. driven \subseteq Pins /\ noted \subseteq SwdPins /\ cut \in BOOLEAN /\ loose \in BOOLEAN
        /\ "dio" \in SwdPins /\ "dio" \in Pins
        /\ link \in BitBang \cup Pio
    BY PinsAssumption DEF PinsInv, TypeOK, SwdPins, Pins
  <1>1. CASE PinsSwdSequence
    <2>1. PICK parts \in PartLists, whole \in BOOLEAN :
            \/ link \in {"swd", "swj"} /\ Direction(parts, whole)
            \/ link = "pio_swd" /\ active = "Swd" /\ PioDirection(parts)
      BY <1>1 DEF PinsSwdSequence
    <2>2. /\ driven' \subseteq Pins /\ noted' \subseteq SwdPins /\ cut' \in BOOLEAN
          /\ driven \ {"dio"} \subseteq driven'
          /\ link = "pio_swd" \/ cut' \/ "dio" \in driven' \/ (driven' = driven /\ cut' = cut)
      BY <1>0, <2>1 DEF Direction, PioDirection, DioOut, DioIn
    <2>3. QED  BY <1>1, <2>2, DioPins DEF PinsSwdSequence
  <1>2. CASE SwdTransfer
    <2>1. /\ driven' \subseteq Pins /\ noted' \subseteq SwdPins /\ cut' \in BOOLEAN
          /\ driven \ {"dio"} \subseteq driven'
          /\ link \in BitBang => "dio" \in driven'
      BY <1>0, <1>2 DEF SwdTransfer, DioOut
    <2>2. link \in BitBang \/ link = "pio_swd"
      BY <1>0, <1>2 DEF PinsInv, OwnPort, SwdTransfer, Pio
    <2>3. QED  BY <1>2, <2>1, <2>2, DioPins DEF SwdTransfer
  <1>3. CASE Clocked
    BY <1>0, <1>3, DioPins DEF Clocked
  <1>4. QED  BY <1>1, <1>2, <1>3

LEMMA StepPins == PinsInv /\ [PinsNext]_pinVars => PinsInv'
  <1> SUFFICES ASSUME PinsInv, [PinsNext]_pinVars PROVE PinsInv'  OBVIOUS
  <1>1. CASE UNCHANGED pinVars
    BY <1>1
    DEF pinVars, PinsInv, TypeOK, OwnPort, WaitIsLoose, ResetOnlyAsked, ReleasedUnlessLoose, Reach
  <1>2. CASE PinsNext
    BY <1>2, ConnectPins, DisconnectPins, PinsCommandPins, SampledPins, MovesPins DEF PinsNext
  <1>3. QED  BY <1>1, <1>2

LEMMA PinsInvariant == PinsSpec => []PinsInv
  BY InitPins, StepPins, PTL DEF PinsSpec

(* Every command leaves the pins, the notes and the port in their types.   *)
THEOREM PinTypes == PinsSpec => []TypeOK
  <1>1. PinsInv => TypeOK  BY DEF PinsInv
  <1>2. QED  BY <1>1, PinsInvariant, PTL

(* A bit-banged probe never resets a target that the host did not ask it   *)
(* to reset, over any sequence of commands and port changes.               *)
THEOREM NoStrayReset == PinsSpec => []ResetOnlyAsked
  <1>1. PinsInv => ResetOnlyAsked  BY DEF PinsInv
  <1>2. QED  BY <1>1, PinsInvariant, PTL

(* A disconnected probe lets go of the target, whatever ports it went      *)
(* through before.                                                         *)
THEOREM Releases == PinsSpec => []ReleasedUnlessLoose
  <1>1. PinsInv => ReleasedUnlessLoose  BY DEF PinsInv
  <1>2. QED  BY <1>1, PinsInvariant, PTL

(* The pins that a connected port writes are outputs, also right after the *)
(* pins were read or the protocol was switched.                            *)
THEOREM Writes == PinsSpec => []WritesReach
  <1>1. PinsInv => WritesReach  BY DEF PinsInv, Reach, WritesReach
  <1>2. QED  BY <1>1, PinsInvariant, PTL
=============================================================================
