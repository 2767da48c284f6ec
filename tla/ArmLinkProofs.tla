--------------------------- MODULE ArmLinkProofs ---------------------------
(***************************************************************************)
(* The caches of ArmDebug agree with the target, and a memory access moves *)
(* exactly the bytes asked for: for any memory, word, TAR run and chunk,   *)
(* any spans accessed, any number of polls, retries, operations and        *)
(* damaged transfers.                                                      *)
(***************************************************************************)
EXTENDS ArmLink, Integers, SequenceTheorems, TLAPS

(* A list of steps, whatever they carry.                                   *)
IsList(s) == s \in Seq({s[i] : i \in 1 .. Len(s)})

(* SELECT is written through the DP only and the registers that decide the *)
(* CSW through an AP; what a step is asked of nobody else.                 *)
StepAt(s) ==
  /\ s.r = "SELECT" => s.k = "dp" /\ s.w /\ s.v \in Nat
  /\ s.r \in {"CSW", "RESET"} => s.k = "ap" /\ s.w
  /\ s.r = "apsel" => s.k = "host" /\ s.v \in {MemAp, CtrlAp}
  /\ s.r = "forget" => s.k = "host"
  /\ s.k = "line" => s.v \in DPs

(* Whoever addresses a debug port forgets the caches behind it.            *)
LinesForget(s) ==
  \A j \in 1 .. Len(s) :
    s[j].k = "line" => \E i \in 1 .. Len(s) : i > j /\ s[i].r = "forget"

(* RESET of the CTRL-AP is at the offset of CSW in the MEM-AP: it is       *)
(* written with the CTRL-AP selected, from the first write of EraseAll on. *)
ResetsCtrl ==
  \A j \in 1 .. Len(todo) :
    todo[j].r = "RESET" =>
      \/ apsel = CtrlAp /\ \A i \in 1 .. j : todo[i].r # "apsel"
      \/ /\ todo[1] = Host("apsel", CtrlAp)
         /\ \A i \in 2 .. j : todo[i].r # "apsel"

Planned ==
  /\ IsList(todo)
  /\ \A j \in 1 .. Len(todo) : StepAt(todo[j])
  /\ LinesForget(todo)
  /\ ResetsCtrl

Kinds ==
  /\ link \in DPs \cup {Nobody} /\ sel \in [DPs -> Nat] /\ csw \in [DPs -> BOOLEAN]
  /\ select \in Nat /\ csw_valid \in BOOLEAN /\ apsel \in {MemAp, CtrlAp}
  /\ pos \in Int /\ op.span[1] \in Nat /\ op.span[2] \in Nat

(* The caches have been forgotten since the debug port was addressed.      *)
Forgotten ==
  /\ res = "Busy" /\ op.name \in {"connect", "select"}
  /\ \A j \in 1 .. Len(todo) : todo[j].r # "forget" /\ todo[j].k # "fail"

(* The caches agree already when the operation that addressed a debug port *)
(* has still to end: what it writes behind the forgetting is cached.       *)
Agreed ==
  "wire" \notin stale /\ link # Nobody /\ ("link" \notin stale \/ Forgotten)
  => /\ select # Unknown => sel[link] = select
     /\ csw_valid /\ apsel = MemAp => csw[link]

CacheInv == Kinds /\ Planned /\ Agreed
-----------------------------------------------------------------------------
(* Lists of steps.                                                         *)
LEMMA ListOf ==
  ASSUME NEW Q, NEW s \in Seq(Q)
  PROVE  IsList(s) /\ Len(s) \in Nat
  <1>1. Len(s) \in Nat /\ s \in [1 .. Len(s) -> Q]
    BY LenProperties
  <1>2. s \in [1 .. Len(s) -> {s[i] : i \in 1 .. Len(s)}]  BY <1>1
  <1>3. s \in Seq({s[i] : i \in 1 .. Len(s)})  BY <1>1, <1>2, SeqDef
  <1>4. QED  BY <1>1, <1>3 DEF IsList

LEMMA ListJoin ==
  ASSUME NEW s, NEW t, IsList(s), IsList(t)
  PROVE  /\ IsList(s \o t) /\ Len(s \o t) = Len(s) + Len(t) /\ Len(s) \in Nat /\ Len(t) \in Nat
         /\ \A i \in 1 .. Len(s) : (s \o t)[i] = s[i]
         /\ \A i \in 1 .. Len(t) : (s \o t)[Len(s) + i] = t[i]
         /\ \A i \in Len(s) + 1 .. Len(s) + Len(t) : (s \o t)[i] = t[i - Len(s)]
  <1> DEFINE Q == {s[i] : i \in 1 .. Len(s)} \cup {t[i] : i \in 1 .. Len(t)}
  <1>1. s \in Seq(Q) /\ t \in Seq(Q)
    BY SeqMonotonic DEF IsList
  <1> HIDE DEF Q
  <1>2. s \o t \in Seq(Q)  BY <1>1
  <1>3. Len(s) \in Nat /\ Len(t) \in Nat /\ Len(s \o t) = Len(s) + Len(t)
    BY <1>1, ConcatProperties
  <1>4. \A i \in 1 .. Len(s) + Len(t) :
          (s \o t)[i] = IF i <= Len(s) THEN s[i] ELSE t[i - Len(s)]
    BY <1>1, ConcatProperties
  <1>5. ASSUME NEW i \in 1 .. Len(s) PROVE (s \o t)[i] = s[i]
    <2>1. i \in 1 .. Len(s) + Len(t) /\ i <= Len(s)  BY <1>3
    <2>2. QED  BY <1>4, <2>1
  <1>6. ASSUME NEW i \in 1 .. Len(t) PROVE (s \o t)[Len(s) + i] = t[i]
    <2>1. Len(s) + i \in 1 .. Len(s) + Len(t) /\ ~(Len(s) + i <= Len(s))
          /\ (Len(s) + i) - Len(s) = i
      BY <1>3
    <2>2. QED  BY <1>4, <2>1
  <1>7. ASSUME NEW i \in Len(s) + 1 .. Len(s) + Len(t) PROVE (s \o t)[i] = t[i - Len(s)]
    <2>1. i \in 1 .. Len(s) + Len(t) /\ ~(i <= Len(s))  BY <1>3
    <2>2. QED  BY <1>4, <2>1
  <1>8. IsList(s \o t)  BY <1>2, ListOf
  <1>9. QED  BY <1>3, <1>5, <1>6, <1>7, <1>8

LEMMA ListTail ==
  ASSUME NEW s, IsList(s), s # <<>>
  PROVE  /\ IsList(Tail(s)) /\ Len(Tail(s)) = Len(s) - 1 /\ Len(s) \in Nat /\ Len(s) >= 1
         /\ Head(s) = s[1] /\ \A i \in 1 .. Len(s) - 1 : Tail(s)[i] = s[i + 1]
  <1> DEFINE Q == {s[i] : i \in 1 .. Len(s)}
  <1>1. s \in Seq(Q)  BY DEF IsList
  <1> HIDE DEF Q
  <1>2. Tail(s) \in Seq(Q)  BY <1>1
  <1>3. /\ Len(Tail(s)) = Len(s) - 1 /\ Len(s) \in Nat /\ Len(s) >= 1
        /\ Head(s) = s[1] /\ \A i \in 1 .. Len(s) - 1 : Tail(s)[i] = s[i + 1]
    BY <1>1
  <1>4. QED  BY <1>2, <1>3, ListOf

LEMMA ListAppend ==
  ASSUME NEW s, NEW a, IsList(s)
  PROVE  /\ IsList(Append(s, a)) /\ Len(Append(s, a)) = Len(s) + 1 /\ Len(s) \in Nat
         /\ \A i \in 1 .. Len(s) : Append(s, a)[i] = s[i]
         /\ Append(s, a)[Len(s) + 1] = a
  <1> DEFINE Q == {s[i] : i \in 1 .. Len(s)} \cup {a}
  <1>1. s \in Seq(Q) /\ a \in Q
    BY SeqMonotonic DEF IsList
  <1> HIDE DEF Q
  <1>2. /\ Append(s, a) \in Seq(Q) /\ Len(Append(s, a)) = Len(s) + 1
        /\ \A i \in 1 .. Len(s) : Append(s, a)[i] = s[i]
        /\ Append(s, a)[Len(s) + 1] = a
    BY <1>1, AppendProperties
  <1>3. Len(s) \in Nat  BY <1>1
  <1>4. QED  BY <1>2, <1>3, ListOf

LEMMA ListOne == ASSUME NEW a PROVE IsList(<<a>>) /\ Len(<<a>>) = 1 /\ <<a>>[1] = a
  <1>1. <<a>> \in Seq({a}) /\ Len(<<a>>) = 1 /\ <<a>>[1] = a  OBVIOUS
  <1>2. QED  BY <1>1, ListOf

LEMMA ListTwo ==
  ASSUME NEW a, NEW b
  PROVE  IsList(<<a, b>>) /\ Len(<<a, b>>) = 2 /\ <<a, b>>[1] = a /\ <<a, b>>[2] = b
  <1>1. <<a, b>> \in Seq({a, b}) /\ Len(<<a, b>>) = 2 /\ <<a, b>>[1] = a /\ <<a, b>>[2] = b
    OBVIOUS
  <1>2. QED  BY <1>1, ListOf

LEMMA ListNone == IsList(<<>>) /\ Len(<<>>) = 0 /\ 1 .. Len(<<>>) = {}
  <1>1. <<>> \in Seq({}) /\ Len(<<>>) = 0  OBVIOUS
  <1>2. 1 .. 0 = {}  OBVIOUS
  <1>3. QED  BY <1>1, <1>2, ListOf
-----------------------------------------------------------------------------
(* Steps that neither address, forget nor reset, and lists without RESET.  *)
QuietStep(s) ==
  StepAt(s) /\ s.r \notin {"RESET", "forget", "apsel"} /\ s.k \notin {"line", "fail"}
Quiet(s) == IsList(s) /\ \A j \in 1 .. Len(s) : QuietStep(s[j])

Forgets(s) == \E j \in 1 .. Len(s) : s[j].r = "forget"
Sound(s) ==
  /\ IsList(s) /\ \A j \in 1 .. Len(s) : StepAt(s[j]) /\ s[j].r # "RESET"
  /\ LinesForget(s)

LEMMA QuietKinds ==
  /\ QuietStep(Csw) /\ QuietStep(Take) /\ QuietStep(Done)
  /\ QuietStep(DpRead("RDBUFF")) /\ QuietStep(DpRead("CTRLSTAT")) /\ QuietStep(DpRead("DPIDR"))
  /\ QuietStep(ApRead("DRW")) /\ QuietStep(ApRead("STATUS")) /\ QuietStep(ApRead("IDR"))
  /\ QuietStep(ApRead("APPROTECT")) /\ QuietStep(Ap("CSW", 0)) /\ QuietStep(Ap("ERASEALL", 1))
  /\ QuietStep(Dp("ABORT", 0)) /\ QuietStep(Dp("POWER", 0))
  /\ \A v \in Nat : QuietStep(Dp("SELECT", v))
  /\ \A v : QuietStep(Ap("TAR", v)) /\ QuietStep(Ap("DRW", v)) /\ QuietStep(Poll(v))
            /\ QuietStep(Host("core", v))
  BY DEF QuietStep, StepAt, Csw, Take, Done, DpRead, ApRead, Ap, Dp, Poll, Host

LEMMA QuietOne == ASSUME NEW a, QuietStep(a) PROVE Quiet(<<a>>)
  <1>1. \A j \in 1 .. Len(<<a>>) : <<a>>[j] = a  BY ListOne
  <1>2. QED  BY <1>1, ListOne DEF Quiet

LEMMA QuietJoin == ASSUME NEW s, NEW t, Quiet(s), Quiet(t) PROVE Quiet(s \o t)
  <1>1. IsList(s) /\ IsList(t)  BY DEF Quiet
  <1>2. IsList(s \o t) /\ Len(s \o t) = Len(s) + Len(t) /\ Len(s) \in Nat /\ Len(t) \in Nat
    BY <1>1, ListJoin
  <1>3. ASSUME NEW j \in 1 .. Len(s \o t) PROVE QuietStep((s \o t)[j])
    <2>1. CASE j <= Len(s)
      <3>1. j \in 1 .. Len(s)  BY <1>2, <2>1
      <3>2. (s \o t)[j] = s[j]  BY <1>1, <3>1, ListJoin
      <3>3. QED  BY <3>1, <3>2 DEF Quiet
    <2>2. CASE j > Len(s)
      <3>1. j \in Len(s) + 1 .. Len(s) + Len(t) /\ j - Len(s) \in 1 .. Len(t)  BY <1>2, <2>2
      <3>2. (s \o t)[j] = t[j - Len(s)]  BY <1>1, <3>1, ListJoin
      <3>3. QED  BY <3>1, <3>2 DEF Quiet
    <2>3. QED  BY <1>2, <2>1, <2>2
  <1>4. QED  BY <1>2, <1>3 DEF Quiet

LEMMA QuietAppend == ASSUME NEW s, NEW a, Quiet(s), QuietStep(a) PROVE Quiet(Append(s, a))
  <1>1. IsList(s)  BY DEF Quiet
  <1>2. /\ IsList(Append(s, a)) /\ Len(Append(s, a)) = Len(s) + 1 /\ Len(s) \in Nat
        /\ \A i \in 1 .. Len(s) : Append(s, a)[i] = s[i]
        /\ Append(s, a)[Len(s) + 1] = a
    BY <1>1, ListAppend
  <1>3. ASSUME NEW j \in 1 .. Len(Append(s, a)) PROVE QuietStep(Append(s, a)[j])
    <2>1. j \in 1 .. Len(s) \/ j = Len(s) + 1  BY <1>2
    <2>2. QED  BY <1>2, <2>1 DEF Quiet
  <1>4. QED  BY <1>2, <1>3 DEF Quiet

LEMMA QuietIsSound == ASSUME NEW s, Quiet(s) PROVE Sound(s)
  BY DEF Quiet, QuietStep, Sound, LinesForget

LEMMA SoundJoin ==
  ASSUME NEW s, NEW t, Sound(s), Sound(t)
  PROVE  Sound(s \o t) /\ (Forgets(s) \/ Forgets(t) => Forgets(s \o t))
  <1>1. IsList(s) /\ IsList(t)  BY DEF Sound
  <1>2. /\ IsList(s \o t) /\ Len(s \o t) = Len(s) + Len(t) /\ Len(s) \in Nat /\ Len(t) \in Nat
        /\ \A i \in 1 .. Len(s) : (s \o t)[i] = s[i] /\ i \in 1 .. Len(s \o t)
        /\ \A i \in 1 .. Len(t) : (s \o t)[Len(s) + i] = t[i] /\ Len(s) + i \in 1 .. Len(s \o t)
    BY <1>1, ListJoin
  <1>3. ASSUME NEW j \in 1 .. Len(s \o t)
        PROVE  \/ j \in 1 .. Len(s)
               \/ \E i \in 1 .. Len(t) : j = Len(s) + i
    <2>1. CASE j <= Len(s)  BY <1>2, <2>1
    <2>2. CASE j > Len(s)
      <3>1. j - Len(s) \in 1 .. Len(t) /\ j = Len(s) + (j - Len(s))  BY <1>2, <2>2
      <3>2. QED  BY <3>1
    <2>3. QED  BY <1>2, <2>1, <2>2
  <1>4. \A j \in 1 .. Len(s \o t) : StepAt((s \o t)[j]) /\ (s \o t)[j].r # "RESET"
    <2>1. SUFFICES ASSUME NEW j \in 1 .. Len(s \o t)
          PROVE  StepAt((s \o t)[j]) /\ (s \o t)[j].r # "RESET"
      OBVIOUS
    <2>2. CASE j \in 1 .. Len(s)
      <3>1. (s \o t)[j] = s[j]  BY <1>2, <2>2
      <3>2. StepAt(s[j]) /\ s[j].r # "RESET"  BY <2>2 DEF Sound
      <3>3. QED  BY Zenon, <3>1, <3>2
    <2>3. ASSUME NEW i \in 1 .. Len(t), j = Len(s) + i
          PROVE  StepAt((s \o t)[j]) /\ (s \o t)[j].r # "RESET"
      <3>1. (s \o t)[j] = t[i]  BY <1>2, <2>3
      <3>2. StepAt(t[i]) /\ t[i].r # "RESET"  BY DEF Sound
      <3>3. QED  BY Zenon, <3>1, <3>2
    <2>4. QED  BY <1>3, <2>2, <2>3
  <1>5. ASSUME NEW j \in 1 .. Len(s \o t), (s \o t)[j].k = "line"
        PROVE  \E i \in 1 .. Len(s \o t) : i > j /\ (s \o t)[i].r = "forget"
    <2>1. CASE j \in 1 .. Len(s)
      <3>1. PICK i \in 1 .. Len(s) : i > j /\ s[i].r = "forget"
        BY <1>2, <1>5, <2>1 DEF Sound, LinesForget
      <3>2. QED  BY <1>2, <3>1
    <2>2. ASSUME NEW m \in 1 .. Len(t), j = Len(s) + m
          PROVE  \E i \in 1 .. Len(s \o t) : i > j /\ (s \o t)[i].r = "forget"
      <3>1. PICK i \in 1 .. Len(t) : i > m /\ t[i].r = "forget"
        BY <1>2, <1>5, <2>2 DEF Sound, LinesForget
      <3>2. Len(s) + i > j  BY <1>2, <2>2, <3>1
      <3>3. QED  BY <1>2, <3>1, <3>2
    <2>3. QED  BY <1>3, <2>1, <2>2
  <1>6. Forgets(s) \/ Forgets(t) => Forgets(s \o t)
    BY <1>2 DEF Forgets
  <1>7. QED  BY <1>2, <1>4, <1>5, <1>6 DEF Sound, LinesForget

-----------------------------------------------------------------------------
(* The programs.                                                           *)
LEMMA QuietTwo == ASSUME NEW a, NEW b, QuietStep(a), QuietStep(b) PROVE Quiet(<<a, b>>)
  <1>1. \A j \in 1 .. Len(<<a, b>>) : <<a, b>>[j] = a \/ <<a, b>>[j] = b
    <2>1. \A j \in 1 .. 2 : j = 1 \/ j = 2  OBVIOUS
    <2>2. QED  BY <2>1, ListTwo
  <1>2. QED  BY <1>1, ListTwo DEF Quiet

LEMMA ApRegQuiet ==
  Quiet(ApReg("STATUS")) /\ Quiet(ApReg("IDR")) /\ Quiet(ApReg("APPROTECT"))
  BY QuietKinds, QuietTwo DEF ApReg

LEMMA ReadWordsQuiet == ASSUME NEW a, NEW n \in Nat PROVE Quiet(ReadWords(a, n))
  <1> DEFINE r == [i \in 1 .. n |-> ApRead("DRW")]
  <1>1. Quiet(r)
    <2>1. r \in [1 .. n -> {ApRead("DRW")}]  OBVIOUS
    <2>2. r \in Seq({ApRead("DRW")}) /\ Len(r) = n
      <3>1. r \in Seq({ApRead("DRW")})  BY <2>1, SeqDef
      <3>2. QED  BY <2>1, <3>1, LenProperties
    <2>3. IsList(r)  BY <2>2, ListOf
    <2>4. \A j \in 1 .. Len(r) : r[j] = ApRead("DRW")  BY <2>2
    <2>5. QED  BY <2>3, <2>4, QuietKinds DEF Quiet
  <1> HIDE DEF r
  <1>2. Quiet(<<Csw, Ap("TAR", a)>>) /\ Quiet(<<DpRead("RDBUFF")>>)
    BY QuietKinds, QuietOne, QuietTwo
  <1>3. Quiet(<<Csw, Ap("TAR", a)>> \o r \o <<DpRead("RDBUFF")>>)
    BY <1>1, <1>2, QuietJoin
  <1>4. ReadWords(a, n) = <<Csw, Ap("TAR", a)>> \o r \o <<DpRead("RDBUFF")>>
    BY DEF ReadWords, r
  <1>5. QED  BY <1>3, <1>4

LEMMA WriteWordsQuiet == ASSUME NEW a, NEW ws, Len(ws) \in Nat PROVE Quiet(WriteWords(a, ws))
  <1> DEFINE r == [i \in 1 .. Len(ws) |-> Ap("DRW", ws[i])]
  <1>1. Quiet(r)
    <2>1. r \in [1 .. Len(ws) -> {Ap("DRW", ws[i]) : i \in 1 .. Len(ws)}]  OBVIOUS
    <2>2. r \in Seq({Ap("DRW", ws[i]) : i \in 1 .. Len(ws)}) /\ Len(r) = Len(ws)
      <3>1. r \in Seq({Ap("DRW", ws[i]) : i \in 1 .. Len(ws)})  BY <2>1, SeqDef
      <3>2. QED  BY <2>1, <3>1, LenProperties
    <2>3. IsList(r)  BY <2>2, ListOf
    <2>4. \A j \in 1 .. Len(r) : r[j] = Ap("DRW", ws[j])  BY <2>2
    <2>5. QED  BY <2>3, <2>4, QuietKinds DEF Quiet
  <1> HIDE DEF r
  <1>2. Quiet(<<Csw, Ap("TAR", a)>>) /\ Quiet(<<DpRead("RDBUFF")>>)
    BY QuietKinds, QuietOne, QuietTwo
  <1>3. Quiet(<<Csw, Ap("TAR", a)>> \o r \o <<DpRead("RDBUFF")>>)
    BY <1>1, <1>2, QuietJoin
  <1>4. WriteWords(a, ws) = <<Csw, Ap("TAR", a)>> \o r \o <<DpRead("RDBUFF")>>
    BY DEF WriteWords, r
  <1>5. QED  BY <1>3, <1>4

(* The eight steps of Attach.                                              *)
LEMMA AttachSteps ==
  ASSUME NEW d
  PROVE  /\ IsList(Attach(d)) /\ Len(Attach(d)) = 8
         /\ Attach(d)[1] = Line(d) /\ Attach(d)[2] = DpRead("DPIDR")
         /\ Attach(d)[3] = Host("forget", 0) /\ Attach(d)[4] = Dp("ABORT", 0)
         /\ Attach(d)[5] = Dp("SELECT", 0) /\ Attach(d)[6] = Dp("POWER", 0)
         /\ Attach(d)[7] = DpRead("CTRLSTAT") /\ Attach(d)[8] = Poll(Polls)
  <1> DEFINE Q == {Line(d), DpRead("DPIDR"), Host("forget", 0), Dp("ABORT", 0), Dp("SELECT", 0),
                   Dp("POWER", 0), DpRead("CTRLSTAT"), Poll(Polls)}
  <1>1. Attach(d) \in Seq(Q)  BY DEF Attach
  <1>2. IsList(Attach(d))  BY <1>1, ListOf
  <1>3. QED  BY <1>2 DEF Attach

LEMMA AttachSound ==
  ASSUME NEW d \in DPs
  PROVE  Sound(Attach(d)) /\ Forgets(Attach(d))
  <1> DEFINE a == Attach(d)
  <1>1. /\ IsList(a) /\ Len(a) = 8 /\ a[1] = Line(d) /\ a[2] = DpRead("DPIDR")
        /\ a[3] = Host("forget", 0) /\ a[4] = Dp("ABORT", 0)
        /\ a[5] = Dp("SELECT", 0) /\ a[6] = Dp("POWER", 0)
        /\ a[7] = DpRead("CTRLSTAT") /\ a[8] = Poll(Polls)
    BY AttachSteps
  <1> HIDE DEF a
  <1>2. \A j \in 1 .. Len(a) : j = 1 \/ j = 2 \/ j = 3 \/ j = 4 \/ j = 5 \/ j = 6 \/ j = 7 \/ j = 8
    <2>1. \A j \in 1 .. 8 : j = 1 \/ j = 2 \/ j = 3 \/ j = 4 \/ j = 5 \/ j = 6 \/ j = 7 \/ j = 8
      OBVIOUS
    <2>2. QED  BY <1>1, <2>1
  <1>3. /\ StepAt(a[1]) /\ a[1].r # "RESET"
        /\ StepAt(a[3]) /\ a[3].r = "forget" /\ a[3].k # "line"
    BY <1>1 DEF StepAt, Line, Host
  <1>4. /\ QuietStep(a[2]) /\ QuietStep(a[4]) /\ QuietStep(a[5]) /\ QuietStep(a[6])
        /\ QuietStep(a[7]) /\ QuietStep(a[8])
    BY <1>1, QuietKinds
  <1>5. \A j \in 1 .. Len(a) : StepAt(a[j]) /\ a[j].r # "RESET" /\ (j # 1 => a[j].k # "line")
    BY <1>2, <1>3, <1>4 DEF QuietStep
  <1>6. 3 \in 1 .. Len(a) /\ 3 > 1  BY <1>1
  <1>7. LinesForget(a)  BY <1>3, <1>5, <1>6 DEF LinesForget
  <1>8. Forgets(a)  BY <1>3, <1>6 DEF Forgets
  <1>9. Sound(a) /\ Forgets(a)  BY <1>1, <1>5, <1>7, <1>8 DEF Sound
  <1>10. QED  BY <1>9 DEF a

LEMMA ConnectsSound ==
  /\ Sound(ConnectMultidrop) /\ Forgets(ConnectMultidrop)
  /\ \A c \in DPs : Sound(SelectCore(c)) /\ Forgets(SelectCore(c))
  <1>1. ASSUME NEW c \in DPs
        PROVE  LET s == <<Host("core", NoCore)>> \o Attach(c) \o <<Host("core", c)>>
               IN  Sound(s) /\ Forgets(s)
    <2>1. /\ Sound(<<Host("core", NoCore)>>) /\ Sound(<<Host("core", c)>>)
      BY QuietKinds, QuietOne, QuietIsSound
    <2>2. Sound(Attach(c)) /\ Forgets(Attach(c))  BY AttachSound
    <2>3. /\ Sound(<<Host("core", NoCore)>> \o Attach(c))
          /\ Forgets(<<Host("core", NoCore)>> \o Attach(c))
      BY <2>1, <2>2, SoundJoin
    <2>4. QED  BY <2>1, <2>3, SoundJoin
  <1>2. 0 \in DPs  BY DEF DPs
  <1>3. QED  BY <1>1, <1>2 DEF ConnectMultidrop, SelectCore

LEMMA ConnectSwdSound == Sound(ConnectSwd) /\ Forgets(ConnectSwd)
  <1> DEFINE a == Attach(0)
             s == SubSeq(a, 1, 3)
             m == <<Host("apsel", MemAp)>>
             t == SubSeq(a, 4, 8)
  <1>1. /\ IsList(a) /\ Len(a) = 8 /\ a[1] = Line(0) /\ a[2] = DpRead("DPIDR")
        /\ a[3] = Host("forget", 0) /\ a[4] = Dp("ABORT", 0)
        /\ a[5] = Dp("SELECT", 0) /\ a[6] = Dp("POWER", 0)
        /\ a[7] = DpRead("CTRLSTAT") /\ a[8] = Poll(Polls)
    BY AttachSteps
  <1> HIDE DEF a
  <1> DEFINE Q == {a[i] : i \in 1 .. 8}
  <1>2. /\ s \in Seq(Q) /\ Len(s) = 3 /\ s[1] = a[1] /\ s[2] = a[2] /\ s[3] = a[3]
    <2>1. \A i \in 1 .. 3 : a[i] \in Q  OBVIOUS
    <2>2. /\ s \in Seq(Q) /\ Len(s) = (IF 1 <= 3 THEN 3 - 1 + 1 ELSE 0)
          /\ \A i \in 1 .. 3 - 1 + 1 : s[i] = a[1 + i - 1]
      BY <2>1, SubSeqProperties
    <2>3. QED  BY <2>2
  <1>3. /\ t \in Seq(Q) /\ Len(t) = 5 /\ t[1] = a[4] /\ t[2] = a[5] /\ t[3] = a[6]
        /\ t[4] = a[7] /\ t[5] = a[8]
    <2>1. \A i \in 4 .. 8 : a[i] \in Q  OBVIOUS
    <2>2. /\ t \in Seq(Q) /\ Len(t) = (IF 4 <= 8 THEN 8 - 4 + 1 ELSE 0)
          /\ \A i \in 1 .. 8 - 4 + 1 : t[i] = a[4 + i - 1]
      BY <2>1, SubSeqProperties
    <2>3. QED  BY <2>2
  <1> HIDE DEF s, t
  <1>4. Sound(s) /\ Forgets(s)
    <2>1. IsList(s)  BY <1>2, ListOf
    <2>2. \A j \in 1 .. Len(s) : j = 1 \/ j = 2 \/ j = 3
      <3>1. \A j \in 1 .. 3 : j = 1 \/ j = 2 \/ j = 3  OBVIOUS
      <3>2. QED  BY <1>2, <3>1
    <2>3. /\ StepAt(s[1]) /\ s[1].r # "RESET"
          /\ StepAt(s[3]) /\ s[3].r = "forget" /\ s[3].k # "line"
      BY <1>1, <1>2 DEF StepAt, Line, Host, DPs
    <2>4. QuietStep(s[2])  BY <1>1, <1>2, QuietKinds
    <2>5. \A j \in 1 .. Len(s) : StepAt(s[j]) /\ s[j].r # "RESET" /\ (j # 1 => s[j].k # "line")
      BY <2>2, <2>3, <2>4 DEF QuietStep
    <2>6. 3 \in 1 .. Len(s) /\ 3 > 1  BY <1>2
    <2>7. LinesForget(s)  BY <2>3, <2>5, <2>6 DEF LinesForget
    <2>8. Forgets(s)  BY <2>3, <2>6 DEF Forgets
    <2>9. QED  BY <2>1, <2>5, <2>7, <2>8 DEF Sound
  <1>5. Sound(t)
    <2>1. IsList(t)  BY <1>3, ListOf
    <2>2. \A j \in 1 .. Len(t) : j = 1 \/ j = 2 \/ j = 3 \/ j = 4 \/ j = 5
      <3>1. \A j \in 1 .. 5 : j = 1 \/ j = 2 \/ j = 3 \/ j = 4 \/ j = 5  OBVIOUS
      <3>2. QED  BY <1>3, <3>1
    <2>3. /\ QuietStep(t[1]) /\ QuietStep(t[2]) /\ QuietStep(t[3]) /\ QuietStep(t[4])
          /\ QuietStep(t[5])
      BY <1>1, <1>3, QuietKinds
    <2>4. QED  BY <2>1, <2>2, <2>3, QuietIsSound DEF Quiet
  <1>6. Sound(m)
    <2>1. StepAt(Host("apsel", MemAp)) /\ Host("apsel", MemAp).r # "RESET"
          /\ Host("apsel", MemAp).k # "line"
      BY DEF StepAt, Host, MemAp, CtrlAp
    <2>2. \A j \in 1 .. Len(m) : m[j] = Host("apsel", MemAp)  BY ListOne
    <2>3. QED  BY <2>1, <2>2, ListOne DEF Sound, LinesForget
  <1> HIDE DEF m
  <1>7. Sound(s \o m) /\ Forgets(s \o m)  BY <1>4, <1>6, SoundJoin
  <1>8. Sound(s \o m \o t) /\ Forgets(s \o m \o t)  BY <1>5, <1>7, SoundJoin
  <1>9. ConnectSwd = s \o m \o t  BY DEF ConnectSwd, a, s, m, t
  <1>10. QED  BY <1>8, <1>9

LEMMA ApprotectSound == Sound(ApprotectStatus)
  <1> DEFINE c == <<Host("apsel", CtrlAp)>>
             m == <<Host("apsel", MemAp)>>
  <1>1. ASSUME NEW v \in {MemAp, CtrlAp} PROVE Sound(<<Host("apsel", v)>>)
    <2>1. StepAt(Host("apsel", v)) /\ Host("apsel", v).r # "RESET" /\ Host("apsel", v).k # "line"
      BY DEF StepAt, Host, MemAp, CtrlAp
    <2>2. \A j \in 1 .. Len(<<Host("apsel", v)>>) : <<Host("apsel", v)>>[j] = Host("apsel", v)
      BY ListOne
    <2>3. QED  BY <2>1, <2>2, ListOne DEF Sound, LinesForget
  <1>2. Sound(c) /\ Sound(m)  BY <1>1
  <1>3. Sound(ApReg("IDR")) /\ Sound(ApReg("APPROTECT"))  BY ApRegQuiet, QuietIsSound
  <1> HIDE DEF c, m
  <1>4. Sound(c \o ApReg("IDR") \o ApReg("APPROTECT") \o m)
    BY <1>2, <1>3, SoundJoin
  <1>5. ApprotectStatus = c \o ApReg("IDR") \o ApReg("APPROTECT") \o m
    BY DEF ApprotectStatus, c, m
  <1>6. QED  BY <1>4, <1>5

(* Two, two and four steps joined.                                         *)
HasSteps(s, n) == IsList(s) /\ Len(s) = n
Joins(e, s, m, t, n) ==
  /\ HasSteps(e, m + n)
  /\ \A i \in 1 .. m : e[i] = s[i]
  /\ \A i \in 1 .. n : e[m + i] = t[i]

LEMMA JoinSteps ==
  ASSUME NEW s, NEW t, NEW m \in Nat, NEW n \in Nat, HasSteps(s, m), HasSteps(t, n)
  PROVE  Joins(s \o t, s, m, t, n)
  <1>1. IsList(s) /\ IsList(t)  BY DEF HasSteps
  <1>2. /\ IsList(s \o t) /\ Len(s \o t) = Len(s) + Len(t)
        /\ \A i \in 1 .. Len(s) : (s \o t)[i] = s[i]
        /\ \A i \in 1 .. Len(t) : (s \o t)[Len(s) + i] = t[i]
    BY <1>1, ListJoin
  <1>3. Len(s) = m /\ Len(t) = n  BY DEF HasSteps
  <1>4. QED  BY <1>2, <1>3 DEF HasSteps, Joins

LEMMA EraseSteps ==
  /\ IsList(EraseAll) /\ Len(EraseAll) = 8 /\ EraseAll[1] = Host("apsel", CtrlAp)
  /\ EraseAll[2] = Ap("ERASEALL", 1) /\ EraseAll[3] = ApRead("STATUS")
  /\ EraseAll[4] = DpRead("RDBUFF") /\ EraseAll[5] = Poll(Polls) /\ EraseAll[6] = Ap("RESET", 1)
  /\ EraseAll[7] = Ap("RESET", 0) /\ EraseAll[8] = Host("apsel", MemAp)
  <1> DEFINE s == <<Host("apsel", CtrlAp), Ap("ERASEALL", 1)>>
             t == ApReg("STATUS")
             u == <<Poll(Polls), Ap("RESET", 1), Ap("RESET", 0), Host("apsel", MemAp)>>
             w == s \o t
  <1>1. HasSteps(s, 2) /\ s[1] = Host("apsel", CtrlAp) /\ s[2] = Ap("ERASEALL", 1)
    BY ListTwo DEF HasSteps
  <1>2. HasSteps(t, 2) /\ t[1] = ApRead("STATUS") /\ t[2] = DpRead("RDBUFF")
    BY ListTwo DEF ApReg, HasSteps
  <1>3. /\ u \in Seq({Poll(Polls), Ap("RESET", 1), Ap("RESET", 0), Host("apsel", MemAp)})
        /\ Len(u) = 4 /\ u[1] = Poll(Polls) /\ u[2] = Ap("RESET", 1) /\ u[3] = Ap("RESET", 0)
        /\ u[4] = Host("apsel", MemAp)
    OBVIOUS
  <1>4. HasSteps(u, 4)  BY <1>3, ListOf DEF HasSteps
  <1>5. EraseAll = w \o u  BY DEF EraseAll
  <1> HIDE DEF s, t, u
  <1>6. Joins(w, s, 2, t, 2)
    BY <1>1, <1>2, JoinSteps
  <1> HIDE DEF w
  <1>7. HasSteps(w, 4) /\ w[1] = s[1] /\ w[2] = s[2] /\ w[3] = t[1] /\ w[4] = t[2]
    BY <1>6 DEF Joins
  <1>8. Joins(w \o u, w, 4, u, 4)
    BY <1>4, <1>7, JoinSteps
  <1>9. PICK e : e = w \o u  OBVIOUS
  <1>10. /\ HasSteps(e, 8)
         /\ e[1] = w[1] /\ e[2] = w[2] /\ e[3] = w[3] /\ e[4] = w[4]
         /\ e[5] = u[1] /\ e[6] = u[2] /\ e[7] = u[3] /\ e[8] = u[4]
    <2>1. Joins(e, w, 4, u, 4)  BY <1>8, <1>9
    <2>2. QED  BY <2>1 DEF Joins
  <1>11. e = EraseAll  BY <1>5, <1>9
  <1>12. IsList(e) /\ Len(e) = 8  BY <1>10 DEF HasSteps
  <1>13. /\ e[1] = Host("apsel", CtrlAp) /\ e[2] = Ap("ERASEALL", 1) /\ e[3] = ApRead("STATUS")
         /\ e[4] = DpRead("RDBUFF") /\ e[5] = Poll(Polls) /\ e[6] = Ap("RESET", 1)
         /\ e[7] = Ap("RESET", 0) /\ e[8] = Host("apsel", MemAp)
    BY <1>1, <1>2, <1>3, <1>7, <1>10, Zenon
  <1>14. QED  BY <1>11, <1>12, <1>13, Zenon
-----------------------------------------------------------------------------
(* How the steps ahead change.                                             *)
Clear(s) == \A j \in 1 .. Len(s) : s[j].r # "forget" /\ s[j].k # "fail"

LEMMA SoundPlanned == ASSUME Sound(todo') PROVE Planned'
  BY DEF Sound, Planned, ResetsCtrl, IsList, LinesForget

LEMMA NonePlanned == ASSUME todo' = <<>> PROVE Planned'
  <1>1. IsList(todo') /\ 1 .. Len(todo') = {}  BY ListNone
  <1>2. Sound(todo')  BY <1>1 DEF Sound, LinesForget
  <1>3. QED  BY <1>2, SoundPlanned

LEMMA HeadFacts ==
  ASSUME Planned, todo # <<>>
  PROVE  /\ Step = todo[1] /\ Len(todo) \in Nat /\ Len(todo) >= 1 /\ IsList(todo)
         /\ StepAt(Step) /\ 1 \in 1 .. Len(todo)
  <1>1. Step = todo[1] /\ Len(todo) \in Nat /\ Len(todo) >= 1 /\ IsList(todo)
    BY ListTail DEF Planned, Step
  <1>2. 1 \in 1 .. Len(todo)  BY <1>1
  <1>3. QED  BY <1>1, <1>2 DEF Planned

LEMMA TailPlanned ==
  ASSUME Planned, todo # <<>>, todo' = Tail(todo),
         apsel' = IF Step.r = "apsel" THEN Step.v ELSE apsel
  PROVE  /\ Planned'
         /\ Step.r # "forget" /\ Step.k # "fail" /\ Clear(todo') => Clear(todo)
         /\ Step.k = "line" => ~Clear(todo')
  <1>1. /\ IsList(todo') /\ Len(todo') = Len(todo) - 1 /\ Len(todo) \in Nat
        /\ \A i \in 1 .. Len(todo) - 1 : todo'[i] = todo[i + 1]
        /\ Step = todo[1]
    BY ListTail, HeadFacts DEF Planned
  <1>2. ASSUME NEW j \in 1 .. Len(todo') PROVE todo'[j] = todo[j + 1] /\ j + 1 \in 1 .. Len(todo)
    BY <1>1
  <1>3. ASSUME NEW j \in 1 .. Len(todo), j # 1
        PROVE  j - 1 \in 1 .. Len(todo') /\ todo'[j - 1] = todo[j]
    <2>1. j - 1 \in 1 .. Len(todo') /\ (j - 1) + 1 = j  BY <1>1, <1>3
    <2>2. QED  BY <1>2, <2>1
  <1>4. \A j \in 1 .. Len(todo') : StepAt(todo'[j])  BY <1>2 DEF Planned
  <1>5. ASSUME NEW j \in 1 .. Len(todo), todo[j].k = "line"
        PROVE  \E i \in 1 .. Len(todo') : i > j - 1 /\ todo'[i].r = "forget"
    <2>1. PICK i \in 1 .. Len(todo) : i > j /\ todo[i].r = "forget"
      BY <1>5 DEF Planned, LinesForget
    <2>2. i # 1 /\ i - 1 > j - 1  BY <1>1, <2>1
    <2>3. QED  BY <1>3, <2>1, <2>2
  <1>6. LinesForget(todo')
    <2> SUFFICES ASSUME NEW j \in 1 .. Len(todo'), todo'[j].k = "line"
                 PROVE  \E i \in 1 .. Len(todo') : i > j /\ todo'[i].r = "forget"
      BY DEF LinesForget
    <2>1. todo[j + 1].k = "line" /\ j + 1 \in 1 .. Len(todo) /\ (j + 1) - 1 = j  BY <1>2
    <2>2. QED  BY <1>5, <2>1
  <1>7. ResetsCtrl'
    <2> SUFFICES ASSUME NEW j \in 1 .. Len(todo'), todo'[j].r = "RESET"
                 PROVE  apsel' = CtrlAp /\ \A i \in 1 .. j : todo'[i].r # "apsel"
      BY DEF ResetsCtrl
    <2>1. todo[j + 1].r = "RESET" /\ j + 1 \in 1 .. Len(todo)  BY <1>2
    <2>2. \A i \in 1 .. j : i \in 1 .. Len(todo') /\ i + 1 \in 1 .. j + 1 /\ i + 1 \in 2 .. j + 1
      BY <1>1
    <2>3. \A i \in 1 .. j : todo'[i] = todo[i + 1]  BY <1>2, <2>2
    <2>4. CASE apsel = CtrlAp /\ \A i \in 1 .. j + 1 : todo[i].r # "apsel"
      <3>1. 1 \in 1 .. j + 1  BY <1>1
      <3>2. apsel' = CtrlAp  BY <1>1, <2>4, <3>1
      <3>3. QED  BY <2>2, <2>3, <2>4, <3>2
    <2>5. CASE todo[1] = Host("apsel", CtrlAp) /\ \A i \in 2 .. j + 1 : todo[i].r # "apsel"
      <3>1. apsel' = CtrlAp  BY <1>1, <2>5 DEF Host
      <3>2. QED  BY <2>2, <2>3, <2>5, <3>1
    <2>6. QED  BY <2>1, <2>4, <2>5 DEF Planned, ResetsCtrl
  <1>8. Step.r # "forget" /\ Step.k # "fail" /\ Clear(todo') => Clear(todo)
    BY <1>1, <1>3 DEF Clear
  <1>9. ASSUME Step.k = "line" PROVE ~Clear(todo')
    <2>1. 1 \in 1 .. Len(todo)  BY HeadFacts
    <2>2. QED  BY <1>1, <1>5, <1>9, <2>1 DEF Clear
  <1>10. QED  BY <1>1, <1>4, <1>6, <1>7, <1>8, <1>9 DEF Planned

LEMMA LastOrBefore == \A n \in Nat : \A j \in 1 .. n : j \in 1 .. n - 1 \/ (j = n)
  OBVIOUS

(* Quiet steps put in front of all that is ahead.                          *)
LEMMA PutPlanned ==
  ASSUME Planned, todo # <<>>, NEW t, Quiet(t), apsel' = apsel,
         \/ todo' = t \o todo /\ Step.r # "apsel"
         \/ todo' = t \o Tail(todo) /\ QuietStep(Step)
  PROVE  Planned' /\ (Clear(todo') => Clear(todo))
  <1>1. /\ Step = todo[1] /\ Len(todo) \in Nat /\ Len(todo) >= 1 /\ IsList(todo) /\ IsList(t)
        /\ Step.r # "apsel"
    BY HeadFacts DEF Quiet, QuietStep
  <1>2. PICK m \in {0, 1} :
          /\ m = 1 => QuietStep(Step)
          /\ IsList(todo') /\ Len(todo') = Len(t) + Len(todo) - m /\ Len(t) \in Nat
          /\ \A i \in 1 .. Len(t) : todo'[i] = t[i]
          /\ \A i \in 1 .. Len(todo) - m : todo'[Len(t) + i] = todo[i + m]
    <2>1. CASE todo' = t \o todo /\ Step.r # "apsel"
      <3>1. /\ IsList(todo') /\ Len(todo') = Len(t) + Len(todo) - 0 /\ Len(t) \in Nat
            /\ \A i \in 1 .. Len(t) : todo'[i] = t[i]
            /\ \A i \in 1 .. Len(todo) : todo'[Len(t) + i] = todo[i]
        BY <1>1, <2>1, ListJoin
      <3>2. \A i \in 1 .. Len(todo) - 0 : i \in 1 .. Len(todo) /\ i + 0 = i  BY <1>1
      <3>3. \A i \in 1 .. Len(todo) - 0 : todo'[Len(t) + i] = todo[i + 0]  BY <3>1, <3>2
      <3>4. QED  BY <3>1, <3>3
    <2>2. CASE todo' = t \o Tail(todo) /\ QuietStep(Step)
      <3>1. /\ IsList(Tail(todo)) /\ Len(Tail(todo)) = Len(todo) - 1
            /\ \A i \in 1 .. Len(todo) - 1 : Tail(todo)[i] = todo[i + 1]
        BY <1>1, ListTail
      <3>2. /\ IsList(todo') /\ Len(todo') = Len(t) + Len(Tail(todo)) /\ Len(t) \in Nat
            /\ \A i \in 1 .. Len(t) : todo'[i] = t[i]
            /\ \A i \in 1 .. Len(Tail(todo)) : todo'[Len(t) + i] = Tail(todo)[i]
        BY <1>1, <2>2, <3>1, ListJoin
      <3>3. Len(todo') = Len(t) + Len(todo) - 1  BY <1>1, <3>1, <3>2
      <3>4. \A i \in 1 .. Len(todo) - 1 : todo'[Len(t) + i] = todo[i + 1]
        BY <3>1, <3>2
      <3>5. QED  BY <2>2, <3>2, <3>3, <3>4
    <2>3. QED  BY <2>1, <2>2
  <1> DEFINE n == Len(t)
  <1>3. n \in Nat  BY <1>2
  <1> HIDE DEF n
  <1>4. /\ \A i \in 1 .. n : todo'[i] = t[i] /\ QuietStep(todo'[i])
        /\ \A i \in 1 .. Len(todo) - m : todo'[n + i] = todo[i + m]
        /\ Len(todo') = n + Len(todo) - m
    BY <1>2 DEF n, Quiet
  <1>5. ASSUME NEW j \in 1 .. Len(todo'), j > n
        PROVE  /\ j - n \in 1 .. Len(todo) - m /\ j - n + m \in 1 .. Len(todo)
               /\ todo'[j] = todo[j - n + m]
    <2>1. j - n \in 1 .. Len(todo) - m /\ j - n + m \in 1 .. Len(todo) /\ n + (j - n) = j
      BY SMTT(30), <1>1, <1>3, <1>4, <1>5
    <2>2. QED  BY <1>4, <2>1
  <1>6. ASSUME NEW j \in 1 .. Len(todo), j > m
        PROVE  j - m + n \in 1 .. Len(todo') /\ todo'[j - m + n] = todo[j]
    <2>1. j - m \in 1 .. Len(todo) - m /\ n + (j - m) = j - m + n /\ j - m + m = j
          /\ j - m + n \in 1 .. Len(todo')
      BY <1>1, <1>3, <1>4, <1>6
    <2>2. todo'[n + (j - m)] = todo[(j - m) + m]  BY <1>4, <2>1
    <2>3. QED  BY <2>1, <2>2
  <1>7. ASSUME NEW j \in 1 .. Len(todo), ~(j > m) PROVE j = 1 /\ QuietStep(todo[j])
    BY <1>1, <1>2, <1>7
  <1>8. ASSUME NEW j \in 1 .. Len(todo') PROVE StepAt(todo'[j])
    <2>1. CASE j > n  BY <1>5, <2>1 DEF Planned
    <2>2. CASE ~(j > n)
      <3>1. j \in 1 .. n  BY <1>3, <2>2
      <3>2. QED  BY <1>4, <3>1 DEF QuietStep
    <2>3. QED  BY <2>1, <2>2
  <1>9. LinesForget(todo')
    <2> SUFFICES ASSUME NEW j \in 1 .. Len(todo'), todo'[j].k = "line"
                 PROVE  \E i \in 1 .. Len(todo') : i > j /\ todo'[i].r = "forget"
      BY DEF LinesForget
    <2>1. j > n
      <3>1. SUFFICES ASSUME ~(j > n) PROVE FALSE  OBVIOUS
      <3>2. j \in 1 .. n  BY <1>3, <3>1
      <3>3. QED  BY <1>4, <3>2 DEF QuietStep
    <2>2. j - n + m \in 1 .. Len(todo) /\ todo[j - n + m].k = "line"  BY <1>5, <2>1
    <2>3. PICK i \in 1 .. Len(todo) : i > j - n + m /\ todo[i].r = "forget"
      BY <2>2 DEF Planned, LinesForget
    <2>4. i > m /\ i - m + n > j  BY <1>3, <2>1, <2>3
    <2>5. QED  BY <1>6, <2>3, <2>4
  <1>10. ResetsCtrl'
    <2> SUFFICES ASSUME NEW j \in 1 .. Len(todo'), todo'[j].r = "RESET"
                 PROVE  apsel' = CtrlAp /\ \A i \in 1 .. j : todo'[i].r # "apsel"
      BY DEF ResetsCtrl
    <2>1. j > n
      <3>1. SUFFICES ASSUME ~(j > n) PROVE FALSE  OBVIOUS
      <3>2. j \in 1 .. n  BY <1>3, <3>1
      <3>3. QED  BY <1>4, <3>2 DEF QuietStep
    <2>2. j - n + m \in 1 .. Len(todo) /\ todo[j - n + m].r = "RESET"  BY <1>5, <2>1
    <2>3. todo[1] # Host("apsel", CtrlAp)  BY <1>1 DEF Host
    <2>4. apsel = CtrlAp /\ \A i \in 1 .. j - n + m : todo[i].r # "apsel"
      BY <2>2, <2>3 DEF Planned, ResetsCtrl
    <2>5. ASSUME NEW i \in 1 .. j PROVE todo'[i].r # "apsel"
      <3>1. CASE i > n
        <4>1. i \in 1 .. Len(todo') /\ i - n + m \in 1 .. j - n + m
          BY <1>1, <1>3, <1>4, <2>1, <3>1
        <4>2. QED  BY <1>5, <2>4, <3>1, <4>1
      <3>2. CASE ~(i > n)
        <4>1. i \in 1 .. n  BY <1>3, <3>2
        <4>2. QED  BY <1>4, <4>1 DEF QuietStep
      <3>3. QED  BY <3>1, <3>2
    <2>6. QED  BY <2>4, <2>5
  <1>11. Clear(todo') => Clear(todo)
    BY <1>6, <1>7 DEF Clear, QuietStep
  <1>12. QED  BY <1>2, <1>8, <1>9, <1>10, <1>11 DEF Planned

LEMMA QuitPlanned ==
  ASSUME Planned, todo # <<>>, QuietStep(Step), apsel' = apsel,
         todo' = <<GiveUp>> \/ todo' = Append(Tail(todo), GiveUp)
  PROVE  Planned' /\ ~Clear(todo')
  <1>0. StepAt(GiveUp) /\ GiveUp.k = "fail" /\ GiveUp.r = ""  BY DEF StepAt, GiveUp
  <1>1. CASE todo' = <<GiveUp>>
    <2>1. IsList(todo') /\ Len(todo') = 1 /\ todo'[1] = GiveUp /\ 1 \in 1 .. Len(todo')
          /\ \A j \in 1 .. Len(todo') : todo'[j] = GiveUp
      BY <1>1, ListOne
    <2>2. Sound(todo') /\ ~Clear(todo')  BY <1>0, <2>1 DEF Sound, LinesForget, Clear
    <2>3. QED  BY <2>2, SoundPlanned
  <1>2. CASE todo' = Append(Tail(todo), GiveUp)
    <2>1. /\ Step = todo[1] /\ IsList(Tail(todo)) /\ Len(Tail(todo)) = Len(todo) - 1
          /\ Len(todo) \in Nat /\ Len(todo) >= 1
          /\ \A i \in 1 .. Len(todo) - 1 : Tail(todo)[i] = todo[i + 1]
      BY HeadFacts, ListTail
    <2>2. /\ IsList(todo') /\ Len(todo') = Len(Tail(todo)) + 1
          /\ \A i \in 1 .. Len(Tail(todo)) : todo'[i] = Tail(todo)[i]
          /\ todo'[Len(Tail(todo)) + 1] = GiveUp
      BY <1>2, <2>1, ListAppend
    <2>3. /\ Len(todo') = Len(todo) /\ todo'[Len(todo)] = GiveUp
      BY <2>1, <2>2
    <2>4. \A i \in 1 .. Len(todo) - 1 : todo'[i] = todo[i + 1] /\ i + 1 \in 1 .. Len(todo)
      BY <2>1, <2>2
    <2>5. \A j \in 1 .. Len(todo') : j \in 1 .. Len(todo) - 1 \/ (j = Len(todo))
      <3>1. \A j \in 1 .. Len(todo) : j \in 1 .. Len(todo) - 1 \/ (j = Len(todo))
        BY <2>1, LastOrBefore
      <3>2. QED  BY SMTT(30), <2>3, <3>1
    <2>6. \A j \in 1 .. Len(todo') : StepAt(todo'[j])
      BY <1>0, <2>3, <2>4, <2>5 DEF Planned
    <2>7. LinesForget(todo')
      <3> SUFFICES ASSUME NEW j \in 1 .. Len(todo'), todo'[j].k = "line"
                   PROVE  \E i \in 1 .. Len(todo') : i > j /\ todo'[i].r = "forget"
        BY DEF LinesForget
      <3>1. j \in 1 .. Len(todo) - 1  BY <1>0, <2>3, <2>5
      <3>2. PICK i \in 1 .. Len(todo) : i > j + 1 /\ todo[i].r = "forget"
        BY <2>4, <3>1 DEF Planned, LinesForget
      <3>3. i - 1 \in 1 .. Len(todo) - 1 /\ (i - 1) + 1 = i /\ i - 1 > j
            /\ i - 1 \in 1 .. Len(todo')
        BY <2>1, <2>3, <3>1, <3>2
      <3>4. todo'[i - 1] = todo[i]  BY <2>4, <3>3
      <3>5. QED  BY <3>2, <3>3, <3>4
    <2>8. ResetsCtrl'
      <3> SUFFICES ASSUME NEW j \in 1 .. Len(todo'), todo'[j].r = "RESET"
                   PROVE  apsel' = CtrlAp /\ \A i \in 1 .. j : todo'[i].r # "apsel"
        BY DEF ResetsCtrl
      <3>1. j \in 1 .. Len(todo) - 1  BY <1>0, <2>3, <2>5
      <3>2. todo[j + 1].r = "RESET" /\ j + 1 \in 1 .. Len(todo)  BY <2>4, <3>1
      <3>3. todo[1] # Host("apsel", CtrlAp)  BY <2>1 DEF Host, QuietStep
      <3>4. apsel = CtrlAp /\ \A i \in 1 .. j + 1 : todo[i].r # "apsel"
        BY <3>2, <3>3 DEF Planned, ResetsCtrl
      <3>5. \A i \in 1 .. j : i \in 1 .. Len(todo) - 1 /\ i + 1 \in 1 .. j + 1
        BY <2>1, <3>1
      <3>6. QED  BY <2>4, <3>4, <3>5
    <2>9. ~Clear(todo')
      <3>1. Len(todo) \in 1 .. Len(todo')  BY <2>1, <2>3
      <3>2. QED  BY <1>0, <2>3, <3>1 DEF Clear
    <2>10. QED  BY <2>2, <2>6, <2>7, <2>8, <2>9 DEF Planned
  <1>3. QED  BY <1>1, <1>2
LEMMA QuietNone == Quiet(<<>>)
  <1>1. IsList(<<>>) /\ 1 .. Len(<<>>) = {}  BY ListNone
  <1>2. QED  BY <1>1 DEF Quiet

(* RESET is written between the two selections of the AP.                  *)
LEMMA ErasePlanned ==
  ASSUME todo' = EraseAll PROVE Planned'
  <1> DEFINE e == EraseAll
  <1>1. /\ IsList(e) /\ Len(e) = 8 /\ e[1] = Host("apsel", CtrlAp)
        /\ e[2] = Ap("ERASEALL", 1) /\ e[3] = ApRead("STATUS")
        /\ e[4] = DpRead("RDBUFF") /\ e[5] = Poll(Polls) /\ e[6] = Ap("RESET", 1)
        /\ e[7] = Ap("RESET", 0) /\ e[8] = Host("apsel", MemAp)
    BY EraseSteps
  <1>2. todo' = e  OBVIOUS
  <1> HIDE DEF e
  <1>3. \A j \in 1 .. Len(e) : j = 1 \/ j = 2 \/ j = 3 \/ j = 4 \/ j = 5 \/ j = 6 \/ j = 7 \/ j = 8
    <2>1. \A j \in 1 .. 8 : j = 1 \/ j = 2 \/ j = 3 \/ j = 4 \/ j = 5 \/ j = 6 \/ j = 7 \/ j = 8
      OBVIOUS
    <2>2. QED  BY <1>1, <2>1
  <1>4. /\ StepAt(e[1]) /\ e[1].r # "RESET" /\ e[1].k # "line"
        /\ StepAt(e[8]) /\ e[8].r # "RESET" /\ e[8].k # "line"
    BY <1>1 DEF StepAt, Host
  <1>5. /\ StepAt(e[6]) /\ e[6].r # "apsel" /\ e[6].k # "line"
        /\ StepAt(e[7]) /\ e[7].r # "apsel" /\ e[7].k # "line"
    BY <1>1 DEF StepAt, Ap
  <1>6. QuietStep(e[2]) /\ QuietStep(e[3]) /\ QuietStep(e[4]) /\ QuietStep(e[5])
    BY <1>1, QuietKinds
  <1>7. \A j \in 1 .. Len(e) :
          /\ StepAt(e[j]) /\ e[j].k # "line"
          /\ e[j].r = "RESET" => j = 6 \/ j = 7
          /\ j # 1 /\ j # 8 => e[j].r # "apsel"
    BY <1>3, <1>4, <1>5, <1>6 DEF QuietStep
  <1>8. \A j \in 1 .. Len(e) : \A i \in 2 .. j : i \in 1 .. Len(e) /\ (j = 6 \/ j = 7 => i # 1 /\ i # 8)
    BY <1>1
  <1>9. \A j \in 1 .. Len(e) :
          e[j].r = "RESET" => e[1] = Host("apsel", CtrlAp) /\ \A i \in 2 .. j : e[i].r # "apsel"
    BY <1>1, <1>7, <1>8
  <1>10. ResetsCtrl'  BY <1>2, <1>9 DEF ResetsCtrl
  <1>11. IsList(todo') /\ (\A j \in 1 .. Len(todo') : StepAt(todo'[j])) /\ LinesForget(todo')
    BY <1>1, <1>2, <1>7 DEF LinesForget
  <1>12. QED  BY <1>10, <1>11 DEF Planned
-----------------------------------------------------------------------------
(* The steps of an operation are planned, from its request to its end.     *)
LEMMA RequestPlanned ==
  ASSUME NEW o \in Operations, Request(o)
  PROVE  Planned' /\ (o.name \in {"connect", "select"} => ~Clear(todo'))
  <1>1. todo' = Prog(o)  BY DEF Request
  <1>2. ASSUME Sound(todo'), Forgets(todo') PROVE Planned' /\ ~Clear(todo')
    BY <1>2, SoundPlanned DEF Forgets, Clear
  <1>3. CASE o.name = "connect"
    <2>1. todo' = ConnectMultidrop \/ todo' = ConnectSwd  BY <1>1, <1>3 DEF Prog
    <2>2. Sound(todo') /\ Forgets(todo')
      <3>1. CASE todo' = ConnectMultidrop  BY <3>1, ConnectsSound
      <3>2. CASE todo' = ConnectSwd  BY <3>2, ConnectSwdSound
      <3>3. QED  BY <2>1, <3>1, <3>2
    <2>3. QED  BY <1>2, <2>2
  <1>4. CASE o.name = "select"
    <2>1. PICK c \in DPs : o.span = <<c, 0>>  BY <1>4 DEF Operations
    <2>2. o.span[1] = c  BY <2>1
    <2>3. todo' = SelectCore(c)  BY <1>1, <1>4, <2>2 DEF Prog
    <2>4. Sound(todo') /\ Forgets(todo')  BY <2>3, ConnectsSound
    <2>5. QED  BY <1>2, <2>4
  <1>5. CASE o.name = "approtect"
    <2>1. todo' = ApprotectStatus  BY <1>1, <1>5 DEF Prog
    <2>2. Sound(todo')  BY <2>1, ApprotectSound
    <2>3. QED  BY <1>5, <2>2, SoundPlanned
  <1>6. CASE o.name = "erase_all"
    <2>1. todo' = EraseAll  BY <1>1, <1>6 DEF Prog
    <2>2. QED  BY <1>6, <2>1, ErasePlanned
  <1>7. CASE o.name \notin {"connect", "select", "approtect", "erase_all"}
    <2>1. todo' = <<>>  BY <1>1, <1>7 DEF Prog
    <2>2. QED  BY <1>7, <2>1, NonePlanned
  <1>8. QED  BY <1>3, <1>4, <1>5, <1>6, <1>7

(* Forgetting and giving up change hands with a step of their own only.    *)
LEMMA TailStep ==
  ASSUME Planned, todo # <<>>, todo' = Tail(todo), apsel' = apsel, Step.k # "host"
  PROVE  Planned' /\ (Step.k # "fail" => (Clear(todo') => Clear(todo)))
         /\ (Step.k = "line" => ~Clear(todo'))
  <1>1. Step.r # "apsel" /\ Step.r # "forget"  BY HeadFacts DEF StepAt
  <1>2. apsel' = IF Step.r = "apsel" THEN Step.v ELSE apsel  BY <1>1
  <1>3. QED  BY <1>1, <1>2, TailPlanned

LEMMA QuietHead ==
  ASSUME Planned, todo # <<>>, Step.k \in {"csw", "poll", "take", "done"}
  PROVE  QuietStep(Step)
  BY HeadFacts DEF StepAt, QuietStep

LEMMA EnsureCswPlanned ==
  ASSUME Kinds, Planned, EnsureCsw
  PROVE  Planned' /\ (Clear(todo') => Clear(todo))
  <1>1. todo # <<>> /\ Step.k = "csw" /\ apsel' = apsel  BY DEF EnsureCsw, At, caches
  <1>2. QuietStep(Step)  BY <1>1, QuietHead
  <1>3. PICK t : todo' = t \o Tail(todo) /\ (t = <<>> \/ t = <<Ap("CSW", 0)>>)
    BY DEF EnsureCsw
  <1>4. Quiet(t)
    <2>1. CASE t = <<>>  BY <2>1, QuietNone
    <2>2. CASE t = <<Ap("CSW", 0)>>  BY <2>2, QuietKinds, QuietOne
    <2>3. QED  BY <1>3, <2>1, <2>2
  <1>5. QED  BY <1>1, <1>2, <1>3, <1>4, PutPlanned

LEMMA SelectApBankPlanned ==
  ASSUME Kinds, Planned, SelectApBank
  PROVE  Planned' /\ (Clear(todo') => Clear(todo))
  <1>1. todo # <<>> /\ Step.k = "ap" /\ apsel' = apsel  BY DEF SelectApBank, At, caches
  <1>2. Step.r # "apsel"  BY <1>1, HeadFacts DEF StepAt
  <1>3. Wanted \in Nat  BY DEF Kinds, Wanted, SelectValue, Bank, MemAp, CtrlAp
  <1>4. Quiet(<<Dp("SELECT", Wanted)>>)  BY <1>3, QuietKinds, QuietOne
  <1>5. todo' = <<Dp("SELECT", Wanted)>> \o todo  BY DEF SelectApBank
  <1>6. QED  BY <1>1, <1>2, <1>4, <1>5, PutPlanned

LEMMA PollStatusPlanned ==
  ASSUME Planned, PollStatus
  PROVE  Planned' /\ (Clear(todo') => Clear(todo))
  <1>1. todo # <<>> /\ Step.k = "poll" /\ apsel' = apsel  BY DEF PollStatus, At, caches
  <1>2. QuietStep(Step)  BY <1>1, QuietHead
  <1>3. \/ todo' = Tail(todo)
        \/ todo' = ApReg("STATUS") \o <<Poll(Step.v - 1)>> \o Tail(todo)
        \/ todo' = <<DpRead("CTRLSTAT")>> \o <<Poll(Step.v - 1)>> \o Tail(todo)
        \/ todo' = <<GiveUp>> \/ todo' = Append(Tail(todo), GiveUp)
    BY DEF PollStatus
  <1>4. CASE todo' = Tail(todo)  BY <1>1, <1>4, TailStep
  <1>5. Quiet(ApReg("STATUS") \o <<Poll(Step.v - 1)>>)
    BY ApRegQuiet, QuietKinds, QuietOne, QuietJoin
  <1>6. Quiet(<<DpRead("CTRLSTAT")>> \o <<Poll(Step.v - 1)>>)
    BY QuietKinds, QuietOne, QuietJoin
  <1>7. CASE todo' = ApReg("STATUS") \o <<Poll(Step.v - 1)>> \o Tail(todo)
    BY <1>1, <1>2, <1>5, <1>7, PutPlanned
  <1>8. CASE todo' = <<DpRead("CTRLSTAT")>> \o <<Poll(Step.v - 1)>> \o Tail(todo)
    BY <1>1, <1>2, <1>6, <1>8, PutPlanned
  <1>9. CASE todo' = <<GiveUp>> \/ todo' = Append(Tail(todo), GiveUp)
    BY <1>1, <1>2, <1>9, QuitPlanned
  <1>10. QED  BY <1>3, <1>4, <1>7, <1>8, <1>9
-----------------------------------------------------------------------------
(* The words of a chunk are whole ones.                                    *)
LEMMA MinIsInt ==
  ASSUME NEW a \in Int, NEW b \in Int PROVE MinOf(a, b) \in Int
  BY DEF MinOf

LEMMA DivModInt ==
  ASSUME NEW a \in Int, NEW n \in Nat \ {0} PROVE a % n \in Int /\ a \div n \in Int
  OBVIOUS

LEMMA ChunkInts ==
  ASSUME Kinds
  PROVE  Addr \in Int /\ Skew \in Int /\ Words \in Int /\ Bytes \in Int
  <1>1. /\ WordBytes \in Nat \ {0} /\ RunBytes \in Nat \ {0} /\ ChunkWords \in Nat
        /\ WordBytes \in Int
    BY SizesAssumption
  <1>2. Addr \in Int /\ Remaining \in Int  BY DEF Kinds, Addr, Remaining
  <1>3. Skew \in Int  BY <1>1, <1>2, DivModInt DEF Skew
  <1>4. ASSUME NEW a \in Int, NEW n \in Int PROVE TarRun(a, n) \in Int
    <2>1. a % RunBytes \in Int  BY <1>1, DivModInt
    <2>2. RunBytes - (a % RunBytes) \in Int  BY <1>1, <2>1
    <2>3. (RunBytes - (a % RunBytes)) \div WordBytes \in Int  BY <1>1, <2>2, DivModInt
    <2>4. QED  BY <2>3, MinIsInt DEF TarRun
  <1>5. Words \in Int
    <2>1. Remaining \div WordBytes \in Int  BY <1>1, <1>2, DivModInt
    <2>2. TarRun(Addr, Remaining \div WordBytes) \in Int  BY <1>2, <1>4, <2>1
    <2>3. MinOf(TarRun(Addr, Remaining \div WordBytes), ChunkWords) \in Int
      BY <1>1, <2>2, MinIsInt
    <2>4. QED  BY <2>3 DEF Words
  <1>6. Bytes \in Int
    <2>1. Words * WordBytes \in Int  BY <1>1, <1>5
    <2>2. MinOf(WordBytes - Skew, Remaining) \in Int  BY <1>1, <1>2, <1>3, MinIsInt
    <2>3. QED  BY <2>1, <2>2 DEF Bytes
  <1>7. QED  BY <1>2, <1>3, <1>5, <1>6

LEMMA WriteDone ==
  ASSUME NEW a, NEW ws, Len(ws) \in Nat PROVE Quiet(Append(WriteWords(a, ws), Done))
  BY WriteWordsQuiet, QuietAppend, QuietKinds

LEMMA NextChunkPlanned == ASSUME Kinds, NextChunk PROVE Planned'
  <1>1. Words \in Int  BY ChunkInts
  <1>2. ASSUME op.name = "write", Words > 0 PROVE Planned'
    <2>1. PICK ws : /\ todo' = Append(WriteWords(Addr, ws), Done)
                    /\ ws = [i \in 1 .. Words |-> [j \in 1 .. WordBytes |->
                               Data(pos + (i - 1) * WordBytes + j - 1)]]
      BY <1>2 DEF NextChunk
    <2>2. PICK n : n = Words  OBVIOUS
    <2>3. Len(ws) \in Nat
      <3>1. n \in Nat /\ DOMAIN ws = 1 .. n
        BY <1>1, <1>2, <2>1, <2>2
      <3>2. ws = [i \in 1 .. n |-> ws[i]]  BY <2>1, <2>2, <3>1
      <3>3. ws \in Seq({ws[i] : i \in 1 .. n})  BY <3>1, <3>2, SeqDef
      <3>4. QED  BY <3>3, LenProperties
    <2>4. QED  BY <2>1, <2>3, WriteDone, QuietIsSound, SoundPlanned
  <1>3. ASSUME ~(op.name = "write" /\ Words > 0) PROVE Planned'
    <2>0. PICK n : n = IF Words > 0 THEN Words ELSE 1  OBVIOUS
    <2>1. todo' = Append(ReadWords(Addr - Skew, n), Take)  BY <1>3, <2>0 DEF NextChunk
    <2>2. n \in Nat  BY <1>1, <2>0
    <2>3. Quiet(ReadWords(Addr - Skew, n))  BY <2>2, ReadWordsQuiet
    <2>4. Quiet(todo')  BY <2>1, <2>3, QuietAppend, QuietKinds
    <2>5. QED  BY <2>4, QuietIsSound, SoundPlanned
  <1>4. QED  BY <1>2, <1>3

LEMMA TakeChunkPlanned ==
  ASSUME Planned, TakeChunk PROVE Planned' /\ (Clear(todo') => Clear(todo))
  <1>1. todo # <<>> /\ Step.k = "take" /\ apsel' = apsel  BY DEF TakeChunk, At, caches
  <1>2. QuietStep(Step)  BY <1>1, QuietHead
  <1>3. CASE op.name = "read"
    <2>1. todo' = Tail(todo)  BY <1>3 DEF TakeChunk
    <2>2. QED  BY <1>1, <2>1, TailStep
  <1>4. CASE op.name # "read"
    <2>1. PICK w : todo' = Append(WriteWords(Addr - Skew, <<w>>), Done) \o Tail(todo)
      BY <1>4 DEF TakeChunk
    <2>2. Len(<<w>>) \in Nat  OBVIOUS
    <2>3. Quiet(Append(WriteWords(Addr - Skew, <<w>>), Done))  BY <2>2, WriteDone
    <2>4. QED  BY <1>1, <1>2, <2>1, <2>3, PutPlanned
  <1>5. QED  BY <1>3, <1>4

LEMMA OnWireStep ==
  ASSUME Planned, OnWire
  PROVE  /\ todo # <<>> /\ res = "Busy" /\ (Step.k = "dp" \/ (Step.k = "ap" /\ select = Wanted))
         /\ StepAt(Step) /\ Step.r # "apsel" /\ Step.r # "forget"
  <1>1. todo # <<>> /\ res = "Busy" /\ (Step.k = "dp" \/ (Step.k = "ap" /\ select = Wanted))
    BY DEF OnWire, At
  <1>2. QED  BY <1>1, HeadFacts DEF StepAt

LEMMA AcknowledgePlanned ==
  ASSUME Planned, OnWire, Acknowledge
  PROVE  Planned' /\ (Clear(todo') => Clear(todo))
  <1>1. todo # <<>> /\ Step.k \in {"dp", "ap"}  BY OnWireStep
  <1>2. todo' = Tail(todo) /\ apsel' = apsel  BY DEF Acknowledge
  <1>3. QED  BY <1>1, <1>2, TailStep

LEMMA FailPlanned == ASSUME NEW e, Fail(e) PROVE Planned'
  BY NonePlanned DEF Fail

LEMMA AssignPlanned ==
  ASSUME Planned, Assign
  PROVE  Planned' /\ (Step.r # "forget" => (Clear(todo') => Clear(todo)))
  <1>1. todo # <<>> /\ Step.k = "host"  BY DEF Assign, At
  <1>2. todo' = Tail(todo) /\ apsel' = IF Step.r = "apsel" THEN Step.v ELSE apsel
    BY DEF Assign
  <1>3. QED  BY <1>1, <1>2, TailPlanned
-----------------------------------------------------------------------------
(* The kinds of the caches and of what they describe.                      *)
LEMMA KindsKept ==
  ASSUME Kinds, UNCHANGED <<link, sel, csw, select, csw_valid, apsel, op>>, pos' \in Int
  PROVE  Kinds'
  BY DEF Kinds

LEMMA RequestKinds == ASSUME Kinds, NEW o \in Operations, Request(o) PROVE Kinds'
  <1>1. /\ UNCHANGED <<link, sel, csw, select, csw_valid, apsel>> /\ op' = o /\ pos' = 0
    BY DEF Request, target, caches
  <1>2. o.span[1] \in Nat /\ o.span[2] \in Nat
    <2>1. CASE o.span \in Spans
      <3>1. o.span \in Nat \X Nat  BY <2>1, SpansAssumption
      <3>2. QED  BY <3>1
    <2>2. CASE \E c \in DPs \cup {0} : o.span = <<c, 0>>  BY <2>2 DEF DPs
    <2>3. QED  BY <2>1, <2>2 DEF Operations
  <1>3. QED  BY <1>1, <1>2 DEF Kinds

LEMMA AssignKinds == ASSUME Kinds, Planned, Assign PROVE Kinds'
  <1>1. todo # <<>> /\ Step.k = "host"  BY DEF Assign, At
  <1>2. StepAt(Step)  BY <1>1, HeadFacts
  <1>3. UNCHANGED <<link, sel, csw, op, pos>>  BY DEF Assign, target, work
  <1>4. select' \in Nat  BY DEF Assign, Kinds, Unknown
  <1>5. apsel' \in {MemAp, CtrlAp}  BY <1>2 DEF Assign, Kinds, StepAt
  <1>6. csw_valid' \in BOOLEAN
    <2>1. CASE Step.r = "forget"
      <3>1. csw_valid' = FALSE  BY <2>1 DEF Assign
      <3>2. QED  BY <3>1
    <2>2. CASE Step.r = "apsel"
      <3>1. csw_valid' = (csw_valid /\ Step.v = apsel)  BY <2>2 DEF Assign
      <3>2. QED  BY <3>1 DEF Kinds
    <2>3. CASE Step.r # "forget" /\ Step.r # "apsel"
      <3>1. csw_valid' = csw_valid  BY <2>3 DEF Assign
      <3>2. QED  BY <3>1 DEF Kinds
    <2>4. QED  BY <2>1, <2>2, <2>3
  <1>7. QED  BY <1>3, <1>4, <1>5, <1>6 DEF Kinds

LEMMA AcknowledgeKinds ==
  ASSUME Kinds, Planned, OnWire, Acknowledge
  PROVE  /\ link' = link /\ apsel' = apsel /\ op' = op /\ pos' = pos
         /\ select' \in Nat /\ csw_valid' \in BOOLEAN
  <1>1. StepAt(Step)  BY OnWireStep
  <1>2. link' = link /\ apsel' = apsel /\ op' = op /\ pos' = pos  BY DEF Acknowledge
  <1>3. select' \in Nat  BY <1>1 DEF Acknowledge, Kinds, StepAt
  <1>4. csw_valid' = (csw_valid \/ Step.r = "CSW")  BY DEF Acknowledge
  <1>5. csw_valid' \in BOOLEAN  BY <1>4
  <1>6. QED  BY <1>2, <1>3, <1>5

LEMMA AcceptKinds ==
  ASSUME Kinds, StepAt(Step), Accept
  PROVE  sel' \in [DPs -> Nat] /\ csw' \in [DPs -> BOOLEAN]
  <1>1. sel' \in [DPs -> Nat]
    <2>1. CASE Step.r = "SELECT"
      <3>1. sel' = [sel EXCEPT ![link] = Step.v] /\ Step.v \in Nat  BY <2>1 DEF Accept, StepAt
      <3>2. QED  BY <3>1 DEF Kinds
    <2>2. CASE Step.r # "SELECT"  BY <2>2 DEF Accept, Kinds
    <2>3. QED  BY <2>1, <2>2
  <1>2. csw' \in [DPs -> BOOLEAN]
    <2>1. CASE Hits(0) /\ Step.w
      <3>1. PICK b \in BOOLEAN : b = (Step.r = "CSW")  OBVIOUS
      <3>2. csw' = [csw EXCEPT ![link] = b]  BY <2>1, <3>1 DEF Accept
      <3>3. QED  BY <3>2 DEF Kinds
    <2>2. CASE ~(Hits(0) /\ Step.w)  BY <2>2 DEF Accept, Kinds
    <2>3. QED  BY <2>1, <2>2
  <1>3. QED  BY <1>1, <1>2

LEMMA FailKinds ==
  ASSUME Kinds, NEW e, Fail(e), sel' \in [DPs -> Nat], csw' \in [DPs -> BOOLEAN]
  PROVE  Kinds'
  BY DEF Kinds, Fail, caches, work

LEMMA PowerCycleKinds == ASSUME Kinds, PowerCycle PROVE Kinds'
  <1>1. UNCHANGED <<select, csw_valid, apsel, op, pos>>  BY DEF PowerCycle, caches, work
  <1>2. link' = Nobody /\ sel' = [d \in DPs |-> 0] /\ csw' = [d \in DPs |-> FALSE]
    BY DEF PowerCycle
  <1>3. QED  BY <1>1, <1>2 DEF Kinds

LEMMA AddressKinds == ASSUME Kinds, Planned, Address PROVE Kinds'
  <1>1. todo # <<>> /\ Step.k = "line"  BY DEF Address, At
  <1>2. Step.v \in DPs  BY <1>1, HeadFacts DEF StepAt
  <1>3. link' \in DPs \cup {Nobody}  BY <1>2 DEF Address
  <1>4. UNCHANGED <<sel, csw, select, csw_valid, apsel, op, pos>>
    BY DEF Address, caches, work
  <1>5. QED  BY <1>3, <1>4 DEF Kinds

LEMMA TakeChunkKinds == ASSUME Kinds, TakeChunk PROVE Kinds'
  <1>1. UNCHANGED <<link, sel, csw, select, csw_valid, apsel, op>>
    BY DEF TakeChunk, target, caches
  <1>2. pos' \in Int
    <2>1. pos' = pos + Bytes \/ pos' = pos  BY DEF TakeChunk
    <2>2. Bytes \in Int  BY ChunkInts
    <2>3. QED  BY <2>1, <2>2 DEF Kinds
  <1>3. QED  BY <1>1, <1>2, KindsKept

LEMMA ChunkWrittenKinds == ASSUME Kinds, ChunkWritten PROVE Kinds'
  <1>1. UNCHANGED <<link, sel, csw, select, csw_valid, apsel, op>>
    BY DEF ChunkWritten, target, caches
  <1>2. pos' = pos + Bytes /\ Bytes \in Int  BY ChunkInts DEF ChunkWritten
  <1>3. pos' \in Int  BY <1>2 DEF Kinds
  <1>4. QED  BY <1>1, <1>3, KindsKept
-----------------------------------------------------------------------------
(* The caches agree with the target.                                       *)
LEMMA AgreedKept ==
  ASSUME Agreed, UNCHANGED <<link, sel, csw, select, csw_valid, apsel, stale>>,
         Forgotten' => Forgotten
  PROVE  Agreed'
  BY DEF Agreed

LEMMA ForgottenKept ==
  ASSUME op' = op, res' = res, Clear(todo') => Clear(todo)
  PROVE  Forgotten' => Forgotten
  BY DEF Forgotten, Clear

LEMMA NotForgottenNext == ASSUME res' # "Busy" PROVE ~Forgotten'
  BY DEF Forgotten

LEMMA RequestAgreed ==
  ASSUME Kinds, Agreed, NEW o \in Operations, Request(o) PROVE Agreed'
  <1>1. UNCHANGED <<link, sel, csw, select, csw_valid, apsel, stale>> /\ op' = o
    BY DEF Request, target, caches
  <1>2. o.name \in {"connect", "select"} => ~Clear(todo')  BY RequestPlanned
  <1>3. ~Forgotten'  BY <1>1, <1>2 DEF Forgotten, Clear
  <1>4. QED  BY <1>1, <1>3, AgreedKept

(* Forgetting makes any caches agree; another AP has another CSW.          *)
LEMMA AssignAgreed ==
  ASSUME Kinds, Planned, Agreed, Assign PROVE Agreed'
  <1>1. UNCHANGED <<link, sel, csw, stale, op, res>>  BY DEF Assign, target, work, history
  <1>2. CASE Step.r = "forget"
    <2>1. select' = Unknown /\ csw_valid' = FALSE  BY <1>2 DEF Assign
    <2>2. QED  BY <2>1 DEF Agreed
  <1>3. CASE Step.r # "forget"
    <2>1. select' = select  BY <1>3 DEF Assign
    <2>2. Forgotten' => Forgotten  BY <1>1, <1>3, AssignPlanned, ForgottenKept
    <2>3. csw_valid' /\ apsel' = MemAp => csw_valid /\ apsel = MemAp
      <3>1. CASE Step.r = "apsel"
        <4>1. csw_valid' = (csw_valid /\ Step.v = apsel) /\ apsel' = Step.v
          BY <3>1 DEF Assign
        <4>2. QED  BY <4>1
      <3>2. CASE Step.r # "apsel"
        <4>1. csw_valid' = csw_valid /\ apsel' = apsel  BY <1>3, <3>2 DEF Assign
        <4>2. QED  BY <4>1
      <3>3. QED  BY <3>1, <3>2
    <2>4. QED  BY <1>1, <2>1, <2>2, <2>3 DEF Agreed
  <1>4. QED  BY <1>2, <1>3

(* What the target does with an accepted transfer, and what the caches     *)
(* make of it: SELECT is written with the value cached, CSW in the AP that *)
(* SELECT selects, RESET elsewhere.                                        *)
LEMMA AcceptCsw ==
  ASSUME Kinds, Planned, OnWire, Accept, link \in DPs,
         select # Unknown => sel[link] = select, apsel = MemAp,
         csw_valid => csw[link],
         csw_valid \/ Step.r = "CSW"
  PROVE  csw'[link]
  <1>1. StepAt(Step) /\ todo # <<>>  BY OnWireStep
  <1>2. CASE Step.r = "CSW"
    <2>1. Step.k = "ap" /\ Step.w  BY <1>1, <1>2 DEF StepAt
    <2>2. select = Wanted  BY <2>1, OnWireStep
    <2>3. Wanted = 0  BY <1>2 DEF Wanted, SelectValue, Bank, MemAp
    <2>4. sel[link] = 0  BY <2>2, <2>3 DEF Unknown
    <2>5. SelectValue(MemAp, 0) = 0  BY DEF SelectValue, MemAp
    <2>6. Offset(Step.r) = 0  BY <1>2 DEF Offset
    <2>7. Hits(0)  BY <2>1, <2>4, <2>5, <2>6 DEF Hits
    <2>8. PICK b \in BOOLEAN : b = (Step.r = "CSW")  OBVIOUS
    <2>9. csw' = [csw EXCEPT ![link] = b]  BY <2>1, <2>7, <2>8 DEF Accept
    <2>10. csw'[link] = b  BY <2>9 DEF Kinds
    <2>11. QED  BY <1>2, <2>8, <2>10
  <1>3. CASE Step.r # "CSW"
    <2>1. csw[link]  BY <1>3
    <2>2. CASE Hits(0) /\ Step.w
      <3>1. Step.k = "ap" /\ Offset(Step.r) = 0  BY <2>2 DEF Hits
      <3>2. Step.r = "RESET"  BY <1>3, <3>1 DEF Offset
      <3>3. 1 \in 1 .. Len(todo) /\ Step = todo[1]  BY <1>1, HeadFacts
      <3>4. todo[1].r = "RESET" /\ todo[1].k # "host"  BY <3>1, <3>2, <3>3
      <3>5. todo[1] # Host("apsel", CtrlAp)  BY <3>4 DEF Host
      <3>6. apsel = CtrlAp  BY <3>3, <3>4, <3>5 DEF Planned, ResetsCtrl
      <3>7. QED  BY <3>6 DEF MemAp, CtrlAp
    <2>3. CASE ~(Hits(0) /\ Step.w)
      <3>1. csw' = csw  BY <2>3 DEF Accept
      <3>2. QED  BY <2>1, <3>1
    <2>4. QED  BY <2>2, <2>3
  <1>4. QED  BY <1>2, <1>3

LEMMA AckedAgreed ==
  ASSUME Kinds, Planned, Agreed, Acked PROVE Agreed'
  <1>1. OnWire /\ Accept /\ Acknowledge /\ stale' = stale /\ link # Nobody
    BY DEF Acked
  <1>2. link' = link /\ apsel' = apsel /\ op' = op /\ res' = res
        /\ select' = (IF Step.r = "SELECT" THEN Step.v ELSE select)
    BY <1>1 DEF Acknowledge
  <1>3. csw_valid' = (csw_valid \/ Step.r = "CSW")  BY <1>1 DEF Acknowledge
  <1>4. Forgotten' => Forgotten  BY <1>1, <1>2, AcknowledgePlanned, ForgottenKept
  <1>5. link \in DPs  BY <1>1 DEF Kinds
  <1>6. SUFFICES ASSUME "wire" \notin stale, "link" \notin stale \/ Forgotten
                 PROVE  /\ select' # Unknown => sel'[link] = select'
                        /\ csw_valid' /\ apsel = MemAp => csw'[link]
    BY <1>1, <1>2, <1>4 DEF Agreed
  <1>7. /\ select # Unknown => sel[link] = select
        /\ csw_valid /\ apsel = MemAp => csw[link]
    BY <1>1, <1>6 DEF Agreed
  <1>8. select' # Unknown => sel'[link] = select'
    <2>1. CASE Step.r = "SELECT"
      <3>1. sel' = [sel EXCEPT ![link] = Step.v] /\ select' = Step.v
        BY <1>1, <1>2, <2>1 DEF Accept
      <3>2. QED  BY <1>5, <3>1 DEF Kinds
    <2>2. CASE Step.r # "SELECT"
      <3>1. sel' = sel /\ select' = select  BY <1>1, <1>2, <2>2 DEF Accept
      <3>2. QED  BY <1>7, <3>1
    <2>3. QED  BY <2>1, <2>2
  <1>9. csw_valid' /\ apsel = MemAp => csw'[link]
    <2>1. SUFFICES ASSUME csw_valid \/ Step.r = "CSW", apsel = MemAp PROVE csw'[link]
      BY <1>3
    <2>2. csw_valid => csw[link]  BY <1>7, <2>1
    <2>3. QED  BY <1>1, <1>5, <1>7, <2>1, <2>2, AcceptCsw
  <1>10. QED  BY <1>8, <1>9

LEMMA AckedNotDoneAgreed ==
  ASSUME Kinds, Planned, Agreed, AckedNotDone PROVE Agreed'
  <1>1. OnWire /\ Acknowledge /\ UNCHANGED <<sel, csw>>  BY DEF AckedNotDone
  <1>2. CASE Step.r \in {"SELECT", "CSW"}
    <2>1. "wire" \in stale'  BY <1>2 DEF AckedNotDone
    <2>2. QED  BY <2>1 DEF Agreed
  <1>3. CASE Step.r \notin {"SELECT", "CSW"}
    <2>1. link' = link /\ apsel' = apsel /\ op' = op /\ res' = res /\ select' = select
      BY <1>1, <1>3 DEF Acknowledge
    <2>2. csw_valid' = (csw_valid \/ Step.r = "CSW")  BY <1>1 DEF Acknowledge
    <2>3. csw_valid' = csw_valid
      <3>1. ~(Step.r = "CSW")  BY <1>3
      <3>2. csw_valid \in BOOLEAN  BY DEF Kinds
      <3>3. QED  BY <2>2, <3>1, <3>2
    <2>4. stale' = stale  BY <1>3 DEF AckedNotDone
    <2>5. Forgotten' => Forgotten  BY <1>1, <2>1, AcknowledgePlanned, ForgottenKept
    <2>6. QED  BY <1>1, <2>1, <2>3, <2>4, <2>5, AgreedKept
  <1>4. QED  BY <1>2, <1>3

LEMMA FailAgreed ==
  ASSUME Agreed, NEW e, e # "Busy", Fail(e), UNCHANGED <<sel, csw>>
  PROVE  Agreed'
  <1>1. UNCHANGED <<link, select, csw_valid, apsel>>  BY DEF Fail, caches
  <1>2. ~Forgotten'
    <2>1. res' # "Busy"  BY DEF Fail
    <2>2. QED  BY <2>1, NotForgottenNext
  <1>3. "wire" \notin stale' => "wire" \notin stale  BY DEF Fail
  <1>4. "link" \notin stale' => "link" \notin stale  BY DEF Fail
  <1>5. QED  BY <1>1, <1>2, <1>3, <1>4 DEF Agreed

LEMMA AddressAgreed ==
  ASSUME Planned, Address PROVE Agreed'
  <1>1. todo # <<>> /\ Step.k = "line" /\ todo' = Tail(todo) /\ apsel' = apsel
    BY DEF Address, At, caches
  <1>2. ~Clear(todo')  BY <1>1, TailStep
  <1>3. ~Forgotten'  BY <1>2 DEF Forgotten, Clear
  <1>4. "link" \in stale'  BY DEF Address
  <1>5. QED  BY <1>3, <1>4 DEF Agreed

LEMMA PowerCycleAgreed == ASSUME PowerCycle PROVE Agreed'
  BY DEF PowerCycle, Agreed

(* When an operation ends well all of it is behind it.                     *)
LEMMA FinishAgreed ==
  ASSUME Agreed, Finish PROVE Agreed'
  <1>1. UNCHANGED <<link, sel, csw, select, csw_valid, apsel>>  BY DEF Finish, target, caches
  <1>2. ~Forgotten'
    <2>1. res' # "Busy"  BY DEF Finish
    <2>2. QED  BY <2>1, NotForgottenNext
  <1>3. "wire" \notin stale' => "wire" \notin stale  BY DEF Finish
  <1>4. "link" \notin stale' => "link" \notin stale \/ Forgotten
    <2>1. CASE op.name \in {"connect", "select"}
      <3>1. res = "Busy" /\ todo = <<>>  BY DEF Finish
      <3>2. 1 .. Len(todo) = {}  BY <3>1, ListNone
      <3>3. Forgotten  BY <2>1, <3>1, <3>2 DEF Forgotten
      <3>4. QED  BY <3>3
    <2>2. CASE op.name \notin {"connect", "select"}
      <3>1. "link" \notin stale' => "link" \notin stale  BY <2>2 DEF Finish
      <3>2. QED  BY <3>1
    <2>3. QED  BY <2>1, <2>2
  <1>5. QED  BY <1>1, <1>2, <1>3, <1>4 DEF Agreed
-----------------------------------------------------------------------------
(* Every step keeps the caches true.                                       *)
LEMMA InitCache == ASSUME Init PROVE CacheInv
  <1>1. Kinds
    BY SMTT(30) DEF Init, Kinds, DPs, Nobody, Unknown, MemAp, CtrlAp
  <1>2. Planned
    <2>1. IsList(todo) /\ 1 .. Len(todo) = {}  BY ListNone DEF Init
    <2>2. QED  BY <2>1 DEF Planned, LinesForget, ResetsCtrl
  <1>3. Agreed  BY DEF Init, Agreed
  <1>4. QED  BY <1>1, <1>2, <1>3 DEF CacheInv

LEMMA PerformCache == ASSUME CacheInv, Perform PROVE CacheInv'
  <1> USE DEF CacheInv
  <1>1. CASE Assign
    <2>1. Planned'  BY <1>1, AssignPlanned
    <2>2. QED  BY <1>1, <2>1, AssignKinds, AssignAgreed
  <1>2. CASE EnsureCsw
    <2>1. /\ UNCHANGED <<link, sel, csw, select, csw_valid, apsel, op, stale, res>> /\ pos' = pos
      BY <1>2 DEF EnsureCsw, target, caches, work, history
    <2>2. pos' \in Int  BY <2>1 DEF Kinds
    <2>3. Planned' /\ (Clear(todo') => Clear(todo))  BY <1>2, EnsureCswPlanned
    <2>4. QED  BY <2>1, <2>2, <2>3, KindsKept, AgreedKept, ForgottenKept
  <1>3. CASE SelectApBank
    <2>1. /\ UNCHANGED <<link, sel, csw, select, csw_valid, apsel, op, stale, res>> /\ pos' = pos
      BY <1>3 DEF SelectApBank, target, caches, work, history
    <2>2. pos' \in Int  BY <2>1 DEF Kinds
    <2>3. Planned' /\ (Clear(todo') => Clear(todo))  BY <1>3, SelectApBankPlanned
    <2>4. QED  BY <2>1, <2>2, <2>3, KindsKept, AgreedKept, ForgottenKept
  <1>4. CASE PollStatus
    <2>1. /\ UNCHANGED <<link, sel, csw, select, csw_valid, apsel, op, stale, res>> /\ pos' = pos
      BY <1>4 DEF PollStatus, target, caches, work, history
    <2>2. pos' \in Int  BY <2>1 DEF Kinds
    <2>3. Planned' /\ (Clear(todo') => Clear(todo))  BY <1>4, PollStatusPlanned
    <2>4. QED  BY <2>1, <2>2, <2>3, KindsKept, AgreedKept, ForgottenKept
  <1>5. CASE Address
    <2>1. todo # <<>> /\ Step.k = "line" /\ todo' = Tail(todo) /\ apsel' = apsel
      BY <1>5 DEF Address, At, caches
    <2>2. Planned'  BY <2>1, TailStep
    <2>3. QED  BY <1>5, <2>2, AddressKinds, AddressAgreed
  <1>6. CASE NextChunk
    <2>1. /\ UNCHANGED <<link, sel, csw, select, csw_valid, apsel, op, stale, res>> /\ pos' = pos
      BY <1>6 DEF NextChunk, target, caches, work, history
    <2>2. pos' \in Int  BY <2>1 DEF Kinds
    <2>3. Planned'  BY <1>6, NextChunkPlanned
    <2>4. ~Forgotten'  BY <1>6, <2>1 DEF NextChunk, InMemory, Forgotten
    <2>5. QED  BY <2>1, <2>2, <2>3, <2>4, KindsKept, AgreedKept
  <1>7. CASE TakeChunk
    <2>1. UNCHANGED <<link, sel, csw, select, csw_valid, apsel, op, stale, res>>
      BY <1>7 DEF TakeChunk, target, caches, history
    <2>2. Planned' /\ (Clear(todo') => Clear(todo))  BY <1>7, TakeChunkPlanned
    <2>3. QED  BY <1>7, <2>1, <2>2, TakeChunkKinds, AgreedKept, ForgottenKept
  <1>8. CASE ChunkWritten
    <2>1. UNCHANGED <<link, sel, csw, select, csw_valid, apsel, op, stale, res>>
      BY <1>8 DEF ChunkWritten, target, caches, history
    <2>2. todo # <<>> /\ Step.k = "done" /\ todo' = Tail(todo)
      BY <1>8 DEF ChunkWritten, At
    <2>3. Planned' /\ (Clear(todo') => Clear(todo))  BY <2>1, <2>2, TailStep
    <2>4. QED  BY <1>8, <2>1, <2>3, ChunkWrittenKinds, AgreedKept, ForgottenKept
  <1>9. CASE Timeout
    <2>1. /\ UNCHANGED <<link, sel, csw, select, csw_valid, apsel, op, stale>> /\ pos' = pos
          /\ todo' = <<>> /\ res' # "Busy"
      BY <1>9 DEF Timeout, target, caches, work, history
    <2>2. pos' \in Int  BY <2>1 DEF Kinds
    <2>3. QED  BY <2>1, <2>2, NonePlanned, KindsKept, AgreedKept, NotForgottenNext
  <1>10. CASE Finish
    <2>1. /\ UNCHANGED <<link, sel, csw, select, csw_valid, apsel, op>> /\ pos' = pos
          /\ todo' = <<>>
      BY <1>10 DEF Finish, target, caches, work
    <2>2. pos' \in Int  BY <2>1 DEF Kinds
    <2>3. QED  BY <1>10, <2>1, <2>2, NonePlanned, KindsKept, FinishAgreed
  <1>11. QED
    BY <1>1, <1>2, <1>3, <1>4, <1>5, <1>6, <1>7, <1>8, <1>9, <1>10 DEF Perform

LEMMA FailCache ==
  ASSUME CacheInv, NEW e, e # "Busy", Fail(e), sel' = sel, csw' = csw
  PROVE  CacheInv'
  <1>1. sel' \in [DPs -> Nat] /\ csw' \in [DPs -> BOOLEAN]  BY DEF CacheInv, Kinds
  <1>2. Kinds'  BY <1>1, FailKinds DEF CacheInv
  <1>3. Planned'  BY FailPlanned
  <1>4. Agreed'  BY FailAgreed DEF CacheInv
  <1>5. QED  BY <1>2, <1>3, <1>4 DEF CacheInv

LEMMA TransferCache == ASSUME CacheInv, Transfer PROVE CacheInv'
  <1>1. CASE Acked
    <2>1. OnWire /\ Acknowledge /\ Accept  BY <1>1 DEF Acked
    <2>2. Kinds'
      <3>1. StepAt(Step)  BY <2>1, OnWireStep DEF CacheInv
      <3>2. sel' \in [DPs -> Nat] /\ csw' \in [DPs -> BOOLEAN]
        BY <2>1, <3>1, AcceptKinds DEF CacheInv
      <3>3. /\ link' = link /\ apsel' = apsel /\ op' = op /\ pos' = pos
            /\ select' \in Nat /\ csw_valid' \in BOOLEAN
        BY <2>1, AcknowledgeKinds DEF CacheInv
      <3>4. QED  BY <3>2, <3>3 DEF CacheInv, Kinds
    <2>3. Planned'  BY <2>1, AcknowledgePlanned DEF CacheInv
    <2>4. QED  BY <1>1, <2>2, <2>3, AckedAgreed DEF CacheInv
  <1>2. CASE AckedNotDone
    <2>1. OnWire /\ Acknowledge /\ sel' = sel /\ csw' = csw  BY <1>2 DEF AckedNotDone
    <2>2. Kinds'
      <3>1. /\ link' = link /\ apsel' = apsel /\ op' = op /\ pos' = pos
            /\ select' \in Nat /\ csw_valid' \in BOOLEAN
        BY <2>1, AcknowledgeKinds DEF CacheInv
      <3>2. QED  BY <2>1, <3>1 DEF CacheInv, Kinds
    <2>3. Planned'  BY <2>1, AcknowledgePlanned DEF CacheInv
    <2>4. QED  BY <1>2, <2>2, <2>3, AckedNotDoneAgreed DEF CacheInv
  <1>3. CASE Refused
    <2>1. Fail("Fault") /\ sel' = sel /\ csw' = csw  BY <1>3 DEF Refused
    <2>2. QED  BY <2>1, FailCache
  <1>4. CASE Unheard
    <2>1. Fail("NoAck") /\ sel' = sel /\ csw' = csw  BY <1>4 DEF Unheard
    <2>2. QED  BY <2>1, FailCache
  <1>5. CASE Garbled
    <2>1. OnWire /\ ~Step.w /\ Accept /\ Fail("Parity")  BY <1>5 DEF Garbled
    <2>2. StepAt(Step)  BY <2>1, OnWireStep DEF CacheInv
    <2>3. Step.r # "SELECT"  BY <2>1, <2>2 DEF StepAt
    <2>4. sel' = sel /\ csw' = csw  BY <2>1, <2>3 DEF Accept
    <2>5. QED  BY <2>1, <2>4, FailCache
  <1>6. CASE AbortLost
    <2>1. Fail("Fault") /\ sel' = sel /\ csw' = csw  BY <1>6 DEF AbortLost
    <2>2. QED  BY <2>1, FailCache
  <1>7. CASE Waited
    <2>1. sel' = sel /\ csw' = csw  BY <1>7 DEF Waited
    <2>2. CASE Fail("Wait")  BY <2>1, <2>2, FailCache
    <2>3. CASE UNCHANGED <<family, link, caches, work, todo, res, history>>
      <3>1. /\ UNCHANGED <<link, sel, csw, select, csw_valid, apsel, op, stale, res, todo>>
            /\ pos' = pos
        BY <2>1, <2>3 DEF caches, work, history
      <3>2. pos' \in Int  BY <3>1 DEF CacheInv, Kinds
      <3>3. Planned'  BY <3>1 DEF CacheInv, Planned, ResetsCtrl
      <3>4. QED  BY <3>1, <3>2, <3>3, KindsKept, AgreedKept, ForgottenKept DEF CacheInv
    <2>4. QED  BY <1>7, <2>2, <2>3 DEF Waited
  <1>8. CASE NoTarget
    <2>1. Fail("NoTarget") /\ sel' = sel /\ csw' = csw  BY <1>8 DEF NoTarget
    <2>2. QED  BY <2>1, FailCache
  <1>9. QED
    BY <1>1, <1>2, <1>3, <1>4, <1>5, <1>6, <1>7, <1>8 DEF Transfer

LEMMA StepCache == ASSUME CacheInv, [Next]_vars PROVE CacheInv'
  <1>1. CASE \E o \in Operations : Request(o)
    <2>1. PICK o \in Operations : Request(o)  BY <1>1
    <2>2. QED  BY <2>1, RequestKinds, RequestPlanned, RequestAgreed DEF CacheInv
  <1>2. CASE Perform  BY <1>2, PerformCache
  <1>3. CASE Transfer  BY <1>3, TransferCache
  <1>4. CASE PowerCycle
    <2>1. todo' = todo /\ apsel' = apsel  BY <1>4 DEF PowerCycle, caches
    <2>2. Planned'  BY <2>1 DEF CacheInv, Planned, ResetsCtrl
    <2>3. QED  BY <1>4, <2>2, PowerCycleKinds, PowerCycleAgreed DEF CacheInv
  <1>5. CASE UNCHANGED vars
    <2>1. /\ UNCHANGED <<link, sel, csw, select, csw_valid, apsel, op, stale, res, todo>>
          /\ pos' = pos
      BY <1>5 DEF vars, target, caches, work, history
    <2>2. pos' \in Int  BY <2>1 DEF CacheInv, Kinds
    <2>3. Planned'  BY <2>1 DEF CacheInv, Planned, ResetsCtrl
    <2>4. QED  BY <2>1, <2>2, <2>3, KindsKept, AgreedKept, ForgottenKept DEF CacheInv
  <1>6. QED  BY <1>1, <1>2, <1>3, <1>4, <1>5 DEF Next

LEMMA CacheAlways == Spec => []CacheInv
  <1>1. Init => CacheInv  BY InitCache
  <1>2. CacheInv /\ [Next]_vars => CacheInv'  BY StepCache
  <1>3. QED  BY <1>1, <1>2, PTL DEF Spec

(* The writes to SELECT and CSW that ArmDebug leaves out because its caches *)
(* say they are redundant really are: whatever is asked, whatever goes      *)
(* wrong and however often, SELECT of the addressed debug port holds the    *)
(* cached value and its MEM-AP the CSW the memory accesses rely on, unless  *)
(* a write was damaged on the wire or a switch of debug ports was cut short.*)
THEOREM CachesTrue == Spec => []CachesAgree
  <1>1. CacheInv => CachesAgree
    <2>1. stale \cap {"wire", "link"} = {} => "wire" \notin stale /\ "link" \notin stale
      OBVIOUS
    <2>2. QED  BY <2>1 DEF CacheInv, Agreed, CachesAgree
  <1>2. QED  BY <1>1, CacheAlways, PTL
-----------------------------------------------------------------------------
(* The chunk being moved: it begins at the word that holds the next byte.  *)
Base == Addr - Skew
Count == IF Words > 0 THEN Words ELSE 1
Nth(b, q) == b + q * WordBytes
-----------------------------------------------------------------------------
(* Words and bytes.                                                        *)
LEMMA WordSizes == WordBytes \in Nat /\ WordBytes > 0 /\ RunBytes \in Nat /\ RunBytes > 0
                   /\ ChunkWords \in Nat /\ ChunkWords > 0 /\ MemBytes \in Nat
  BY SizesAssumption

LEMMA DivMod ==
  ASSUME NEW x \in Nat, NEW n \in Nat, n > 0
  PROVE  /\ x \div n \in Nat /\ x % n \in Nat /\ x % n < n /\ x = ((x \div n) * n) + (x % n)
         /\ (x \div n) * n <= x /\ (x % n) <= x
  OBVIOUS

LEMMA SameDivMod ==
  ASSUME NEW n \in Nat, n > 0, NEW q \in Nat, NEW r \in Nat, r < n
  PROVE  (q * n + r) % n = r /\ (q * n + r) \div n = q
  OBVIOUS

LEMMA Products ==
  ASSUME NEW n \in Nat
  PROVE  /\ 0 * n = 0 /\ 1 * n = n
         /\ \A q \in Nat : q * n \in Nat /\ (q + 1) * n = q * n + n
         /\ \A p, q \in Nat : p <= q => p * n <= q * n
         /\ \A p, q \in Nat : p < q => p * n + n <= q * n
  OBVIOUS

(* What is moved next is inside the words moved, and those inside one run  *)
(* of TAR.                                                                 *)
InOp == pos \in Nat /\ op.span[1] \in Nat /\ op.span[2] \in Nat /\ pos < op.span[2]

LEMMA Placement ==
  ASSUME InOp
  PROVE  /\ Addr \in Nat /\ Remaining \in Nat /\ Remaining > 0
         /\ Skew \in Nat /\ Skew < WordBytes /\ Base \in Nat /\ Base + Skew = Addr
         /\ Base % WordBytes = 0
  <1>1. Addr \in Nat /\ Remaining \in Nat /\ Remaining > 0  BY DEF InOp, Addr, Remaining
  <1>2. /\ Skew \in Nat /\ Skew < WordBytes /\ Skew <= Addr
        /\ Addr = ((Addr \div WordBytes) * WordBytes) + Skew /\ Addr \div WordBytes \in Nat
    BY <1>1, WordSizes, DivMod DEF Skew
  <1>3. Base \in Nat /\ Base + Skew = Addr  BY <1>1, <1>2 DEF Base
  <1>4. Base = (Addr \div WordBytes) * WordBytes + 0
    <2>1. (Addr \div WordBytes) * WordBytes \in Nat  BY <1>2, WordSizes, Products
    <2>2. QED  BY <1>2, <1>3, <2>1
  <1>5. Base % WordBytes = 0  BY <1>2, <1>4, WordSizes, SameDivMod
  <1>6. QED  BY <1>1, <1>2, <1>3, <1>5

LEMMA WordsFit ==
  ASSUME InOp, ~(Words = 0)
  PROVE  /\ Words \in Nat /\ Words > 0 /\ Skew = 0 /\ Base = Addr
         /\ Bytes = Words * WordBytes /\ Bytes \in Nat /\ Bytes > 0 /\ Bytes <= Remaining
         /\ (Addr % RunBytes) + Bytes <= RunBytes /\ Count = Words
  <1>1. /\ Addr \in Nat /\ Remaining \in Nat /\ Remaining > 0 /\ Skew \in Nat
        /\ Base + Skew = Addr /\ Base \in Nat
    BY Placement
  <1>2. Skew = 0 /\ Remaining >= WordBytes
        /\ Words = MinOf(TarRun(Addr, Remaining \div WordBytes), ChunkWords)
    BY DEF Words
  <1> DEFINE a == Addr % RunBytes
             r == (RunBytes - a) \div WordBytes
             m == Remaining \div WordBytes
  <1>3. a \in Nat /\ a < RunBytes /\ RunBytes - a \in Nat
    BY <1>1, WordSizes, DivMod
  <1>4. TarRun(Addr, Remaining \div WordBytes) = MinOf(r, m)  BY DEF TarRun
  <1> HIDE DEF a
  <1>5. r \in Nat /\ r * WordBytes <= RunBytes - a  BY <1>3, WordSizes, DivMod
  <1>6. m \in Nat /\ m * WordBytes <= Remaining  BY <1>1, WordSizes, DivMod
  <1> HIDE DEF r, m
  <1>7. Words \in Nat /\ Words <= r /\ Words <= m
    BY <1>2, <1>4, <1>5, <1>6, WordSizes DEF MinOf
  <1>8. Words > 0  BY <1>7
  <1>9. Words * WordBytes <= r * WordBytes /\ Words * WordBytes <= m * WordBytes
        /\ Words * WordBytes \in Nat /\ 1 * WordBytes <= Words * WordBytes /\ 1 * WordBytes = WordBytes
        /\ r * WordBytes \in Nat /\ m * WordBytes \in Nat
    BY <1>5, <1>6, <1>7, <1>8, WordSizes, Products
  <1>10. Bytes = Words * WordBytes /\ Count = Words  BY <1>8 DEF Bytes, Count
  <1>11. Bytes \in Nat /\ Bytes > 0 /\ Bytes <= Remaining /\ a + Bytes <= RunBytes
    BY <1>1, <1>3, <1>5, <1>6, <1>9, <1>10, WordSizes
  <1>12. Base = Addr  BY <1>1, <1>2
  <1>13. QED  BY <1>2, <1>7, <1>8, <1>10, <1>11, <1>12 DEF a

LEMMA OneWord ==
  ASSUME InOp, Words = 0
  PROVE  Count = 1 /\ Bytes \in Nat /\ Bytes > 0 /\ Bytes <= Remaining /\ Skew + Bytes <= WordBytes
  BY Placement, WordSizes DEF Count, Bytes, MinOf

LEMMA ChunkFacts ==
  ASSUME InOp
  PROVE  /\ Count \in Nat /\ Count > 0 /\ Words \in Nat
         /\ Bytes \in Nat /\ Bytes > 0 /\ pos + Bytes <= op.span[2]
         /\ Skew + Bytes <= Count * WordBytes /\ Count * WordBytes \in Nat
  <1>1. /\ Addr \in Nat /\ Remaining \in Nat /\ Skew \in Nat /\ Remaining = op.span[2] - pos
        /\ pos \in Nat /\ op.span[2] \in Nat
    BY Placement DEF InOp, Remaining
  <1>2. CASE Words = 0
    <2>1. Count * WordBytes = WordBytes  BY <1>2, OneWord, WordSizes
    <2>2. QED  BY <1>1, <1>2, <2>1, OneWord, WordSizes
  <1>3. CASE ~(Words = 0)
    <2>1. Count * WordBytes = Bytes  BY <1>3, WordsFit
    <2>2. QED  BY <1>1, <1>3, <2>1, WordsFit
  <1>4. QED  BY <1>2, <1>3

(* TAR goes from word to word.                                             *)
LEMMA Nths ==
  ASSUME NEW b \in Nat, NEW q \in Nat
  PROVE  /\ Nth(b, 0) = b /\ Nth(b, q) \in Nat /\ b <= Nth(b, q)
         /\ Nth(b, q + 1) = Nth(b, q) + WordBytes
         /\ \A p \in Nat : p < q => Nth(b, p) + WordBytes <= Nth(b, q)
         /\ \A p \in Nat : p <= q => Nth(b, p) <= Nth(b, q)
  <1>1. WordBytes \in Nat  BY WordSizes
  <1>2. q * WordBytes \in Nat /\ 0 * WordBytes = 0 /\ (q + 1) * WordBytes = q * WordBytes + WordBytes
    BY <1>1, Products
  <1>3. ASSUME NEW p \in Nat, p < q PROVE Nth(b, p) + WordBytes <= Nth(b, q)
    <2>1. p * WordBytes \in Nat /\ p * WordBytes + WordBytes <= q * WordBytes
      BY <1>1, <1>3, Products
    <2>2. QED  BY <1>1, <1>2, <2>1 DEF Nth
  <1>4. ASSUME NEW p \in Nat, p <= q PROVE Nth(b, p) <= Nth(b, q)
    <2>1. p * WordBytes \in Nat /\ p * WordBytes <= q * WordBytes
      BY <1>1, <1>4, Products
    <2>2. QED  BY <1>2, <2>1 DEF Nth
  <1>5. /\ Nth(b, 0) = b /\ Nth(b, q) \in Nat /\ b <= Nth(b, q)
        /\ Nth(b, q + 1) = Nth(b, q) + WordBytes
    BY <1>1, <1>2 DEF Nth
  <1>6. QED  BY <1>3, <1>4, <1>5

LEMMA ChunkEnd ==
  ASSUME InOp
  PROVE  Addr + Bytes <= Nth(Base, Count) /\ Base <= Addr /\ Base \in Nat /\ Addr \in Nat
  <1>1. /\ Base \in Nat /\ Skew \in Nat /\ Addr \in Nat /\ Base + Skew = Addr  BY Placement
  <1>2. Bytes \in Nat /\ Skew + Bytes <= Count * WordBytes /\ Count * WordBytes \in Nat
    BY ChunkFacts
  <1>3. QED  BY <1>1, <1>2 DEF Nth

LEMMA TarSteps ==
  ASSUME InOp, NEW q \in Nat, q + 1 < Count
  PROVE  NextTar(Nth(Base, q)) = Nth(Base, q + 1)
  <1>1. ~(Words = 0)  BY OneWord
  <1>2. /\ Words \in Nat /\ Base = Addr /\ Bytes = Words * WordBytes /\ Count = Words
        /\ (Addr % RunBytes) + Bytes <= RunBytes /\ Bytes \in Nat
    BY <1>1, WordsFit
  <1> DEFINE a == Addr % RunBytes
             k == Addr \div RunBytes
             x == Nth(Base, q)
             d == q * WordBytes
  <1>3. /\ Addr \in Nat /\ a \in Nat /\ k \in Nat /\ Addr = (k * RunBytes) + a /\ a < RunBytes
    BY Placement, WordSizes, DivMod
  <1>4. /\ d \in Nat /\ d + WordBytes \in Nat /\ (q + 1) * WordBytes = d + WordBytes
        /\ (q + 1) * WordBytes < Words * WordBytes
    <2>1. q + 1 \in Nat /\ q + 1 < Words  BY <1>2
    <2>2. (q + 1) * WordBytes + WordBytes <= Words * WordBytes
      BY <1>2, <2>1, WordSizes, Products
    <2>3. (q + 1) * WordBytes \in Nat /\ Words * WordBytes \in Nat
      BY <1>2, <2>1, WordSizes, Products
    <2>4. d \in Nat /\ (q + 1) * WordBytes = d + WordBytes
      BY WordSizes, Products
    <2>5. QED  BY <2>2, <2>3, <2>4, WordSizes
  <1>5. k * RunBytes \in Nat  BY <1>3, WordSizes, Products
  <1>6. x = Addr + d  BY <1>2 DEF Nth
  <1>7. a + Words * WordBytes <= RunBytes  BY <1>2
  <1>8. Words * WordBytes \in Nat  BY <1>2
  <1> HIDE DEF a, k, x, d
  <1>9. a + d \in Nat /\ a + d < RunBytes /\ a + d + WordBytes \in Nat /\ a + d + WordBytes < RunBytes
    BY <1>3, <1>4, <1>7, <1>8, WordSizes
  <1>10. x = (k * RunBytes) + (a + d) /\ x + WordBytes = (k * RunBytes) + (a + d + WordBytes)
    BY <1>3, <1>4, <1>5, <1>6, WordSizes
  <1>11. x % RunBytes = a + d /\ (x + WordBytes) % RunBytes = a + d + WordBytes
    <2>1. ((k * RunBytes) + (a + d)) % RunBytes = a + d
      BY <1>3, <1>9, WordSizes, SameDivMod
    <2>2. ((k * RunBytes) + (a + d + WordBytes)) % RunBytes = a + d + WordBytes
      BY <1>3, <1>9, WordSizes, SameDivMod
    <2>3. QED  BY <1>10, <2>1, <2>2
  <1>12. NextTar(x) = (x - (a + d)) + (a + d + WordBytes)  BY <1>11 DEF NextTar
  <1>13. x \in Nat  BY <1>3, <1>4, <1>6
  <1>14. NextTar(x) = x + WordBytes  BY <1>9, <1>12, <1>13, WordSizes
  <1>15. Nth(Base, q + 1) = x + WordBytes
    <2>1. Base \in Nat  BY <1>2, <1>3
    <2>2. QED  BY <2>1, Nths DEF x
  <1>16. QED  BY <1>14, <1>15 DEF x
-----------------------------------------------------------------------------
(* The list of steps that moves a chunk.                                   *)
MemWord(m, a) == [j \in 1 .. WordBytes |-> IF a + j - 1 < MemBytes THEN m[a + j - 1] ELSE 0]
Carries(v, a, m) == \A j \in 1 .. WordBytes : a + j - 1 \in DOMAIN m => v[j] = m[a + j - 1]

Lead(s) == IF s # <<>> /\ s[1].r = "SELECT" THEN Len(s) - 1 ELSE Len(s)
Slot(i, s, n, b, z) ==
  /\ i \in 0 .. n + 3
  /\ i = 0 => s = z /\ (s = Take \/ s = Done)
  /\ i = 1 => s = DpRead("RDBUFF")
  /\ i \in 2 .. n + 1 => s.k = "ap" /\ s.r = "DRW" /\ (s.w <=> z # Take)
  /\ i = n + 2 => s = Ap("TAR", b)
  /\ i = n + 3 => s = Csw \/ s = Ap("CSW", 0)
IsChunk(s, n, b) ==
  /\ Lead(s) \in 1 .. n + 4
  /\ \A j \in 1 .. Len(s) :
       \/ j = 1 /\ s[1].r = "SELECT" /\ s[1] = Dp("SELECT", 0)
       \/ Slot(Len(s) - j, s[j], n, b, s[Len(s)])
Loaded(s, n, b, m) ==
  \A j \in 1 .. Len(s) :
    s[j].r = "DRW" => Carries(s[j].v, Nth(b, n + 1 - (Len(s) - j)), m)
Sends(ws, n, b, m) == Len(ws) = n /\ \A i \in 1 .. n : Carries(ws[i], Nth(b, i - 1), m)

LEMMA SlotKinds ==
  ASSUME NEW n \in Nat, n > 0, NEW b, NEW s, NEW z, NEW i \in Int, Slot(i, s, n, b, z)
  PROVE  /\ s.r # "SELECT" /\ s.k \in {"take", "done", "dp", "ap", "csw"}
         /\ s.k \in {"take", "done"} => i = 0 /\ s = z /\ (s = Take \/ s = Done)
         /\ s.k = "dp" => i = 1 /\ s = DpRead("RDBUFF")
         /\ s.k = "csw" => i = n + 3 /\ s = Csw
         /\ s.k = "ap" => s.r \in {"DRW", "TAR", "CSW"}
         /\ s.r = "DRW" => i \in 2 .. n + 1 /\ s.k = "ap" /\ (s.w <=> z # Take)
         /\ s.r = "TAR" => i = n + 2 /\ s = Ap("TAR", b)
         /\ s.r = "CSW" => i = n + 3 /\ s = Ap("CSW", 0)
  <1>1. i = 0 \/ i = 1 \/ i \in 2 .. n + 1 \/ i = n + 2 \/ i = n + 3  BY DEF Slot
  <1>2. CASE i = 0
    <2>1. s = z /\ (s = Take \/ s = Done)  BY <1>2 DEF Slot
    <2> Take.k = "take" /\ Take.r = "" /\ Done.k = "done" /\ Done.r = ""  BY DEF Take, Done
    <2>2. s.k \in {"take", "done"} /\ s.r = ""  BY <2>1
    <2>3. QED  BY <1>2, <2>1, <2>2
  <1>3. CASE i = 1  BY <1>3 DEF Slot, DpRead
  <1>4. CASE i \in 2 .. n + 1  BY <1>4 DEF Slot
  <1>5. CASE i = n + 2  BY <1>5 DEF Slot, Ap
  <1>6. CASE i = n + 3
    <2>1. s = Csw \/ s = Ap("CSW", 0)  BY <1>6 DEF Slot
    <2>2. CASE s = Csw  BY <1>6, <2>2 DEF Csw
    <2>3. CASE s = Ap("CSW", 0)  BY <1>6, <2>3 DEF Ap
    <2>4. QED  BY <2>1, <2>2, <2>3
  <1>7. QED  BY <1>1, <1>2, <1>3, <1>4, <1>5, <1>6

(* What stands first in the list.                                          *)
LEMMA ChunkHead ==
  ASSUME NEW n \in Nat, n > 0, NEW b, NEW s, IsList(s), IsChunk(s, n, b)
  PROVE  /\ s # <<>> /\ Len(s) \in Nat /\ Len(s) >= 1 /\ Lead(s) \in 1 .. n + 4
         /\ s[1].r = "SELECT" => s[1] = Dp("SELECT", 0) /\ Len(s) = Lead(s) + 1
         /\ s[1].r # "SELECT" =>
              Len(s) = Lead(s) /\ Slot(Lead(s) - 1, s[1], n, b, s[Len(s)])
         /\ \A j \in 2 .. Len(s) : Slot(Len(s) - j, s[j], n, b, s[Len(s)])
  <1>1. Lead(s) \in 1 .. n + 4  BY DEF IsChunk
  <1>2. s # <<>>  BY <1>1, ListNone DEF Lead
  <1>3. Len(s) \in Nat /\ Len(s) >= 1 /\ 1 \in 1 .. Len(s)  BY <1>2, ListTail
  <1>4. s[1] = Dp("SELECT", 0) \/ Slot(Len(s) - 1, s[1], n, b, s[Len(s)])
    BY <1>3 DEF IsChunk
  <1>5. ASSUME s[1].r = "SELECT" PROVE s[1] = Dp("SELECT", 0) /\ Len(s) = Lead(s) + 1
    <2>0. Len(s) - 1 \in Int  BY <1>3
    <2>1. ~Slot(Len(s) - 1, s[1], n, b, s[Len(s)])  BY <1>5, <2>0, SlotKinds
    <2>2. QED  BY <1>2, <1>3, <1>4, <1>5, <2>1 DEF Lead
  <1>6. ASSUME s[1].r # "SELECT"
        PROVE  Len(s) = Lead(s) /\ Slot(Lead(s) - 1, s[1], n, b, s[Len(s)])
    BY <1>4, <1>6 DEF Lead, Dp
  <1>7. ASSUME NEW j \in 2 .. Len(s) PROVE Slot(Len(s) - j, s[j], n, b, s[Len(s)])
    <2>1. j \in 1 .. Len(s) /\ j # 1  BY <1>3
    <2>2. QED  BY <2>1 DEF IsChunk
  <1>8. QED  BY <1>1, <1>2, <1>3, <1>5, <1>6, <1>7

LEMMA ChunkTail ==
  ASSUME NEW n \in Nat, n > 0, NEW b, NEW s, IsList(s), IsChunk(s, n, b),
         Lead(s) > 1 \/ s[1].r = "SELECT"
  PROVE  /\ IsList(Tail(s)) /\ IsChunk(Tail(s), n, b) /\ Tail(s) # <<>>
         /\ Lead(Tail(s)) = IF s[1].r = "SELECT" THEN Lead(s) ELSE Lead(s) - 1
         /\ Tail(s)[Len(Tail(s))] = s[Len(s)]
         /\ \A m : Loaded(s, n, b, m) => Loaded(Tail(s), n, b, m)
  <1> DEFINE t == Tail(s)
  <1>1. /\ Len(s) \in Nat /\ Len(s) >= 2 /\ Lead(s) \in 1 .. n + 4
        /\ Len(s) = IF s[1].r = "SELECT" THEN Lead(s) + 1 ELSE Lead(s)
        /\ \A j \in 2 .. Len(s) : Slot(Len(s) - j, s[j], n, b, s[Len(s)])
    BY ChunkHead
  <1>2. /\ IsList(t) /\ Len(t) = Len(s) - 1
        /\ \A i \in 1 .. Len(s) - 1 : t[i] = s[i + 1]
    <2>1. s # <<>>  BY <1>1, ListNone
    <2>2. QED  BY <2>1, ListTail
  <1> HIDE DEF t
  <1>3. t # <<>>  BY <1>1, <1>2, ListNone
  <1>4. t[Len(t)] = s[Len(s)]
    <2>1. Len(t) \in 1 .. Len(s) - 1 /\ Len(t) + 1 = Len(s)  BY <1>1, <1>2
    <2>2. QED  BY <1>2, <2>1
  <1>5. ASSUME NEW j \in 1 .. Len(t)
        PROVE  t[j] = s[j + 1] /\ Len(t) - j = Len(s) - (j + 1) /\ j + 1 \in 2 .. Len(s)
               /\ j + 1 \in 1 .. Len(s) /\ Len(t) - j \in Int
    <2>1. j \in 1 .. Len(s) - 1 /\ Len(t) = Len(s) - 1  BY <1>2
    <2>2. t[j] = s[j + 1]  BY <1>2, <2>1
    <2>3. /\ j \in Nat /\ j >= 1 /\ j <= Len(s) - 1 /\ Len(s) \in Nat
      BY <1>1, <2>1
    <2>4. /\ Len(t) - j = Len(s) - (j + 1) /\ j + 1 \in 2 .. Len(s)
          /\ j + 1 \in 1 .. Len(s) /\ Len(t) - j \in Int
      BY <2>1, <2>3
    <2>5. QED  BY <2>2, <2>4
  <1>6. \A j \in 1 .. Len(t) : Slot(Len(t) - j, t[j], n, b, t[Len(t)])
    BY <1>1, <1>4, <1>5
  <1>7. Lead(t) = Len(t)
    <2>1. 1 \in 1 .. Len(t)  BY <1>1, <1>2
    <2>2. t[1].r # "SELECT"  BY <1>5, <1>6, <2>1, SlotKinds
    <2>3. QED  BY <2>2 DEF Lead
  <1>8. IsChunk(t, n, b)
    <2>1. Lead(t) \in 1 .. n + 4  BY <1>1, <1>2, <1>7
    <2>2. QED  BY <1>6, <2>1 DEF IsChunk
  <1>9. ASSUME NEW m, Loaded(s, n, b, m) PROVE Loaded(t, n, b, m)
    <2>1. ASSUME NEW j \in 1 .. Len(t), t[j].r = "DRW"
          PROVE  Carries(t[j].v, Nth(b, n + 1 - (Len(t) - j)), m)
      <3>1. t[j] = s[j + 1] /\ Len(t) - j = Len(s) - (j + 1) /\ j + 1 \in 1 .. Len(s)  BY <1>5
      <3>2. PICK q \in 1 .. Len(s) : q = j + 1  BY <3>1
      <3>3. Carries(s[q].v, Nth(b, n + 1 - (Len(s) - q)), m)  BY <1>9, <2>1, <3>1, <3>2 DEF Loaded
      <3>4. QED  BY <3>1, <3>2, <3>3
    <2>2. QED  BY <2>1 DEF Loaded
  <1>10. QED  BY SMTT(30), <1>1, <1>2, <1>3, <1>4, <1>7, <1>8, <1>9 DEF t

LEMMA ChunkEnds ==
  ASSUME NEW n \in Nat, n > 0, NEW b, NEW s, IsList(s), IsChunk(s, n, b),
         Lead(s) = 1, s[1].r # "SELECT"
  PROVE  Tail(s) = <<>> /\ Len(s) = 1
  <1>1. Len(s) = 1 /\ s # <<>>  BY ChunkHead
  <1>2. IsList(Tail(s)) /\ Len(Tail(s)) = 0  BY <1>1, ListTail
  <1>3. QED  BY <1>1, <1>2, EmptySeq DEF IsList

(* A write of SELECT put in front, and the CSW made out.                   *)
LEMMA PutStep ==
  ASSUME NEW a, NEW s, IsList(s)
  PROVE  /\ IsList(<<a>> \o s) /\ Len(<<a>> \o s) = Len(s) + 1 /\ (<<a>> \o s)[1] = a
         /\ <<a>> \o s # <<>> /\ Len(s) \in Nat
         /\ \A i \in 2 .. Len(s) + 1 : (<<a>> \o s)[i] = s[i - 1]
  <1>1. IsList(<<a>>) /\ Len(<<a>>) = 1 /\ <<a>>[1] = a  BY ListOne
  <1>2. /\ IsList(<<a>> \o s) /\ Len(<<a>> \o s) = 1 + Len(s) /\ Len(s) \in Nat
        /\ \A i \in 1 .. 1 : (<<a>> \o s)[i] = <<a>>[i]
        /\ \A i \in 1 + 1 .. 1 + Len(s) : (<<a>> \o s)[i] = s[i - 1]
    BY <1>1, ListJoin
  <1>3. Len(<<a>> \o s) = Len(s) + 1 /\ 1 \in 1 .. 1 /\ 2 .. Len(s) + 1 = 1 + 1 .. 1 + Len(s)
    BY <1>2
  <1>4. <<a>> \o s # <<>>  BY <1>2, <1>3, ListNone
  <1>5. QED  BY <1>1, <1>2, <1>3, <1>4

SameChunkOf(t, s, n, b) ==
  /\ t # <<>> /\ IsChunk(t, n, b) /\ t[Len(t)] = s[Len(s)]
  /\ \A m : Loaded(s, n, b, m) => Loaded(t, n, b, m)

LEMMA ChunkSelect ==
  ASSUME NEW n \in Nat, n > 0, NEW b, NEW s, IsList(s), IsChunk(s, n, b), s[1].r # "SELECT",
         NEW t, t = <<Dp("SELECT", 0)>> \o s
  PROVE  SameChunkOf(t, s, n, b) /\ Lead(t) = Lead(s)
  <1>1. /\ Len(s) \in Nat /\ Len(s) >= 1 /\ Lead(s) \in 1 .. n + 4 /\ Len(s) = Lead(s)
        /\ Slot(Lead(s) - 1, s[1], n, b, s[Len(s)])
        /\ \A j \in 2 .. Len(s) : Slot(Len(s) - j, s[j], n, b, s[Len(s)])
    BY ChunkHead
  <1>2. /\ IsList(t) /\ Len(t) = Len(s) + 1 /\ t[1] = Dp("SELECT", 0) /\ t # <<>>
        /\ \A i \in 2 .. Len(s) + 1 : t[i] = s[i - 1]
    BY PutStep
  <1>3. Lead(t) = Lead(s)
    <2>1. t[1].r = "SELECT"  BY <1>2 DEF Dp
    <2>2. QED  BY <1>1, <1>2, <2>1 DEF Lead
  <1>4. t[Len(t)] = s[Len(s)]  BY <1>1, <1>2
  <1>5. ASSUME NEW j \in 1 .. Len(t), j # 1
        PROVE  t[j] = s[j - 1] /\ Len(t) - j = Len(s) - (j - 1) /\ j - 1 \in 1 .. Len(s)
    <2>1. j \in 2 .. Len(s) + 1  BY <1>1, <1>2, <1>5
    <2>2. QED  BY <1>1, <1>2, <2>1
  <1>6. ASSUME NEW i \in 1 .. Len(s) PROVE Slot(Len(s) - i, s[i], n, b, s[Len(s)])
    <2>1. CASE i = 1  BY <1>1, <2>1
    <2>2. CASE i # 1
      <3>1. i \in 2 .. Len(s)  BY <1>1, <2>2
      <3>2. QED  BY <1>1, <3>1
    <2>3. QED  BY <2>1, <2>2
  <1>7. \A j \in 1 .. Len(t) : j # 1 => Slot(Len(t) - j, t[j], n, b, t[Len(t)])
    BY <1>4, <1>5, <1>6
  <1>8. IsChunk(t, n, b)
    <2>1. t[1].r = "SELECT"  BY <1>2 DEF Dp
    <2>2. QED  BY <1>1, <1>2, <1>3, <1>7, <2>1 DEF IsChunk
  <1>9. ASSUME NEW m, Loaded(s, n, b, m) PROVE Loaded(t, n, b, m)
    <2> SUFFICES ASSUME NEW j \in 1 .. Len(t), t[j].r = "DRW"
                 PROVE  Carries(t[j].v, Nth(b, n + 1 - (Len(t) - j)), m)
      BY DEF Loaded
    <2>1. j # 1  BY <1>2 DEF Dp
    <2>2. QED  BY <1>5, <1>9, <2>1 DEF Loaded
  <1>10. QED  BY <1>2, <1>3, <1>4, <1>8, <1>9 DEF SameChunkOf

LEMMA ChunkCsw ==
  ASSUME NEW n \in Nat, n > 0, NEW b, NEW s, IsList(s), IsChunk(s, n, b), s[1] = Csw,
         NEW t, t = <<Ap("CSW", 0)>> \o Tail(s)
  PROVE  SameChunkOf(t, s, n, b) /\ Lead(s) = n + 4 /\ Lead(t) = n + 4
  <1>1. s[1].r # "SELECT" /\ s[1].k = "csw"
    <2>1. Csw.r = "" /\ Csw.k = "csw"  BY DEF Csw
    <2>2. QED  BY <2>1
  <1>2. /\ Len(s) \in Nat /\ s # <<>> /\ Len(s) = Lead(s)
        /\ Slot(Lead(s) - 1, s[1], n, b, s[Len(s)]) /\ Lead(s) \in 1 .. n + 4
        /\ \A j \in 2 .. Len(s) : Slot(Len(s) - j, s[j], n, b, s[Len(s)])
    BY <1>1, ChunkHead
  <1>3. Len(s) = n + 4 /\ Lead(s) = n + 4
    <2>1. Lead(s) - 1 \in Int  BY <1>2
    <2>2. Lead(s) - 1 = n + 3  BY <1>1, <1>2, <2>1, SlotKinds
    <2>3. QED  BY <1>2, <2>2
  <1>4. /\ IsList(Tail(s)) /\ Len(Tail(s)) = n + 3
        /\ \A i \in 1 .. n + 3 : Tail(s)[i] = s[i + 1]
    BY <1>2, <1>3, ListTail
  <1>5. /\ IsList(t) /\ Len(t) = n + 4 /\ t[1] = Ap("CSW", 0) /\ t # <<>>
        /\ \A i \in 2 .. n + 4 : t[i] = Tail(s)[i - 1]
    <2>1. /\ IsList(t) /\ Len(t) = (n + 3) + 1 /\ t[1] = Ap("CSW", 0) /\ t # <<>>
          /\ \A i \in 2 .. (n + 3) + 1 : t[i] = Tail(s)[i - 1]
      BY <1>4, PutStep
    <2>2. (n + 3) + 1 = n + 4  OBVIOUS
    <2>3. QED  BY <2>1, <2>2
  <1>6. \A i \in 2 .. n + 4 : t[i] = s[i]
    <2> SUFFICES ASSUME NEW i \in 2 .. n + 4 PROVE t[i] = s[i]  OBVIOUS
    <2>1. i - 1 \in 1 .. n + 3 /\ (i - 1) + 1 = i  OBVIOUS
    <2>2. QED  BY <1>4, <1>5, <2>1
  <1>7. n + 4 \in 2 .. n + 4  OBVIOUS
  <1>8. t[Len(t)] = s[Len(s)]  BY <1>3, <1>5, <1>6, <1>7
  <1>9. Lead(t) = n + 4
    <2>1. t[1].r # "SELECT"  BY <1>5 DEF Ap
    <2>2. QED  BY <1>5, <2>1 DEF Lead
  <1>10. Slot(n + 3, t[1], n, b, t[Len(t)])
    <2>1. /\ n + 3 \in 0 .. n + 3 /\ n + 3 # 0 /\ n + 3 # 1 /\ ~(n + 3 \in 2 .. n + 1)
          /\ n + 3 # n + 2
      OBVIOUS
    <2>2. QED  BY <1>5, <2>1 DEF Slot
  <1>11. ASSUME NEW j \in 1 .. Len(t) PROVE Slot(Len(t) - j, t[j], n, b, t[Len(t)])
    <2>1. CASE j = 1
      <3>1. Len(t) - j = n + 3  BY <1>5, <2>1
      <3>2. QED  BY <1>10, <2>1, <3>1
    <2>2. CASE j # 1
      <3>1. j \in 2 .. n + 4 /\ j \in 2 .. Len(s)  BY <1>3, <1>5, <2>2
      <3>2. QED  BY <1>2, <1>3, <1>5, <1>6, <1>8, <3>1
    <2>3. QED  BY <2>1, <2>2
  <1>12. IsChunk(t, n, b)
    <2>1. Lead(t) \in 1 .. n + 4  BY <1>9
    <2>2. QED  BY <1>11, <2>1 DEF IsChunk
  <1>13. ASSUME NEW m, Loaded(s, n, b, m) PROVE Loaded(t, n, b, m)
    <2> SUFFICES ASSUME NEW j \in 1 .. Len(t), t[j].r = "DRW"
                 PROVE  Carries(t[j].v, Nth(b, n + 1 - (Len(t) - j)), m)
      BY DEF Loaded
    <2>1. j # 1  BY <1>5 DEF Ap
    <2>2. j \in 2 .. n + 4 /\ j \in 1 .. Len(s)  BY <1>3, <1>5, <2>1
    <2>3. QED  BY <1>3, <1>5, <1>6, <1>13, <2>2 DEF Loaded
  <1>14. QED  BY <1>3, <1>5, <1>8, <1>9, <1>12, <1>13 DEF SameChunkOf

(* The lists that read and write words.                                    *)
Framed(a, r, z) == Append(<<Csw, Ap("TAR", a)>> \o r \o <<DpRead("RDBUFF")>>, z)

LEMMA FramedSteps ==
  ASSUME NEW n \in Nat, NEW b, NEW z, NEW r, IsList(r), Len(r) = n,
         NEW s, s = Framed(b, r, z), NEW a, a = Csw, NEW c, c = Ap("TAR", b),
         NEW e, e = DpRead("RDBUFF")
  PROVE  /\ IsList(s) /\ Len(s) = n + 4 /\ s[1] = a /\ s[2] = c /\ s[n + 3] = e /\ s[n + 4] = z
         /\ \A i \in 1 .. n : s[i + 2] = r[i]
  <1> DEFINE u == <<a, c>> \o r
             v == u \o <<e>>
  <1>1. /\ IsList(u) /\ Len(u) = n + 2 /\ u[1] = a /\ u[2] = c
        /\ \A i \in 1 .. n : u[i + 2] = r[i]
    <2>1. IsList(<<a, c>>) /\ Len(<<a, c>>) = 2 /\ <<a, c>>[1] = a /\ <<a, c>>[2] = c  BY ListTwo
    <2>2. /\ IsList(u) /\ Len(u) = 2 + n
          /\ \A i \in 1 .. 2 : u[i] = <<a, c>>[i]
          /\ \A i \in 1 .. n : u[2 + i] = r[i]
      BY <2>1, ListJoin
    <2>3. 1 \in 1 .. 2 /\ 2 \in 1 .. 2 /\ 2 + n = n + 2 /\ \A i \in 1 .. n : 2 + i = i + 2
      OBVIOUS
    <2>4. QED  BY <2>1, <2>2, <2>3
  <1> HIDE DEF u
  <1>2. /\ IsList(v) /\ Len(v) = n + 3 /\ v[n + 3] = e
        /\ \A i \in 1 .. n + 2 : v[i] = u[i]
    <2>1. IsList(<<e>>) /\ Len(<<e>>) = 1 /\ <<e>>[1] = e  BY ListOne
    <2>2. /\ IsList(v) /\ Len(v) = (n + 2) + 1 /\ v[(n + 2) + 1] = <<e>>[1]
          /\ \A i \in 1 .. n + 2 : v[i] = u[i]
      <3>1. 1 \in 1 .. 1  OBVIOUS
      <3>2. QED  BY <1>1, <2>1, <3>1, ListJoin
    <2>3. (n + 2) + 1 = n + 3  OBVIOUS
    <2>4. QED  BY <2>1, <2>2, <2>3
  <1> HIDE DEF v
  <1>3. /\ IsList(s) /\ Len(s) = n + 4 /\ s[n + 4] = z /\ \A i \in 1 .. n + 3 : s[i] = v[i]
    <2>1. s = Append(v, z)  BY DEF u, v, Framed
    <2>2. /\ IsList(s) /\ Len(s) = Len(v) + 1 /\ s[Len(v) + 1] = z
          /\ \A i \in 1 .. Len(v) : s[i] = v[i]
      BY <1>2, <2>1, ListAppend
    <2>3. Len(v) + 1 = n + 4 /\ Len(v) = n + 3  BY <1>2
    <2>4. QED  BY <2>2, <2>3
  <1>4. /\ 1 \in 1 .. n + 2 /\ 2 \in 1 .. n + 2 /\ 1 \in 1 .. n + 3 /\ 2 \in 1 .. n + 3
        /\ n + 3 \in 1 .. n + 3
        /\ \A i \in 1 .. n : i + 2 \in 1 .. n + 2 /\ i + 2 \in 1 .. n + 3
    OBVIOUS
  <1>5. QED  BY <1>1, <1>2, <1>3, <1>4

DataSteps(r, z) ==
  \A i \in 1 .. Len(r) : r[i].k = "ap" /\ r[i].r = "DRW" /\ (r[i].w <=> z # Take)

DataAt(s, r, n) ==
  \A j \in 1 .. Len(s) :
    s[j].r = "DRW" => j \in 3 .. n + 2 /\ s[j] = r[j - 2] /\ n + 1 - (Len(s) - j) = j - 3

LEMMA FramedChunk ==
  ASSUME NEW n \in Nat, n > 0, NEW b, NEW z, z = Take \/ z = Done, NEW r, IsList(r), Len(r) = n,
         DataSteps(r, z), NEW s, s = Framed(b, r, z)
  PROVE  /\ IsList(s) /\ IsChunk(s, n, b) /\ Lead(s) = n + 4 /\ s # <<>> /\ s[Len(s)] = z
         /\ DataAt(s, r, n)
  <1>1. /\ IsList(s) /\ Len(s) = n + 4 /\ s[1] = Csw /\ s[2] = Ap("TAR", b)
        /\ s[n + 3] = DpRead("RDBUFF") /\ s[n + 4] = z
        /\ \A i \in 1 .. n : s[i + 2] = r[i]
    BY FramedSteps
  <1>2. ASSUME NEW j \in 3 .. n + 2 PROVE s[j] = r[j - 2] /\ j - 2 \in 1 .. n
    <2>1. j - 2 \in 1 .. n /\ (j - 2) + 2 = j  OBVIOUS
    <2>2. QED  BY <1>1, <2>1
  <1>3. Csw.r = "" /\ Ap("TAR", b).r = "TAR" /\ DpRead("RDBUFF").r = "RDBUFF" /\ Take.r = "" /\ Done.r = ""
    BY DEF Csw, Ap, DpRead, Take, Done
  <1>4. Lead(s) = n + 4  BY <1>1, <1>3 DEF Lead
  <1>5. ASSUME NEW j \in 1 .. Len(s) PROVE j = 1 \/ j = 2 \/ j \in 3 .. n + 2 \/ j = n + 3 \/ j = n + 4
    BY <1>1
  <1>6. ASSUME NEW j \in 1 .. Len(s) PROVE Slot(Len(s) - j, s[j], n, b, s[Len(s)])
    <2>1. CASE j = 1
      <3>1. /\ Len(s) - j = n + 3 /\ n + 3 \in 0 .. n + 3 /\ n + 3 # 0 /\ n + 3 # 1
            /\ ~(n + 3 \in 2 .. n + 1) /\ n + 3 # n + 2
        BY <1>1, <2>1
      <3>2. QED  BY <1>1, <2>1, <3>1 DEF Slot
    <2>2. CASE j = 2
      <3>1. /\ Len(s) - j = n + 2 /\ n + 2 \in 0 .. n + 3 /\ n + 2 # 0 /\ n + 2 # 1
            /\ ~(n + 2 \in 2 .. n + 1) /\ n + 2 # n + 3
        BY <1>1, <2>2
      <3>2. QED  BY <1>1, <2>2, <3>1 DEF Slot
    <2>3. CASE j \in 3 .. n + 2
      <3>1. /\ Len(s) - j \in 2 .. n + 1 /\ Len(s) - j \in 0 .. n + 3 /\ Len(s) - j # 0
            /\ Len(s) - j # 1 /\ Len(s) - j # n + 2 /\ Len(s) - j # n + 3
        BY <1>1, <2>3
      <3>2. s[j].k = "ap" /\ s[j].r = "DRW" /\ (s[j].w <=> z # Take)  BY <1>2, <2>3 DEF DataSteps
      <3>3. QED  BY <1>1, <3>1, <3>2 DEF Slot
    <2>4. CASE j = n + 3
      <3>1. /\ Len(s) - j = 1 /\ 1 \in 0 .. n + 3 /\ 1 # 0 /\ ~(1 \in 2 .. n + 1)
            /\ 1 # n + 2 /\ 1 # n + 3
        BY <1>1, <2>4
      <3>2. QED  BY <1>1, <2>4, <3>1 DEF Slot
    <2>5. CASE j = n + 4
      <3>1. /\ Len(s) - j = 0 /\ 0 \in 0 .. n + 3 /\ 0 # 1 /\ ~(0 \in 2 .. n + 1)
            /\ 0 # n + 2 /\ 0 # n + 3
        BY <1>1, <2>5
      <3>2. QED  BY <1>1, <2>5, <3>1 DEF Slot
    <2>6. QED  BY <1>5, <2>1, <2>2, <2>3, <2>4, <2>5
  <1>7. IsChunk(s, n, b)
    <2>1. Lead(s) \in 1 .. n + 4  BY <1>4
    <2>2. QED  BY <1>6, <2>1 DEF IsChunk
  <1>8. ASSUME NEW j \in 1 .. Len(s), s[j].r = "DRW"
        PROVE  j \in 3 .. n + 2 /\ s[j] = r[j - 2] /\ n + 1 - (Len(s) - j) = j - 3
    <2>1. j # 1 /\ j # 2 /\ j # n + 3 /\ j # n + 4  BY <1>1, <1>3, <1>8
    <2>2. j \in 3 .. n + 2  BY <1>5, <2>1
    <2>3. n + 1 - (Len(s) - j) = j - 3  BY <1>1, <2>2
    <2>4. QED  BY <1>2, <2>2, <2>3
  <1>9. s # <<>>  BY <1>1, ListNone
  <1>10. QED  BY <1>1, <1>4, <1>7, <1>8, <1>9 DEF DataAt

LEMMA MadeList ==
  ASSUME NEW n \in Nat, NEW f, f = [i \in 1 .. n |-> f[i]]
  PROVE  IsList(f) /\ Len(f) = n
  <1>1. f \in [1 .. n -> {f[i] : i \in 1 .. n}]  OBVIOUS
  <1>2. f \in Seq({f[i] : i \in 1 .. n})  BY <1>1, SeqDef
  <1>3. Len(f) = n  BY <1>1, <1>2, LenProperties
  <1>4. QED  BY <1>2, <1>3, ListOf

LEMMA ReadChunk ==
  ASSUME NEW n \in Nat, n > 0, NEW b, NEW s, s = Append(ReadWords(b, n), Take)
  PROVE  /\ IsList(s) /\ IsChunk(s, n, b) /\ Lead(s) = n + 4 /\ s # <<>> /\ s[Len(s)] = Take
  <1> DEFINE r == [i \in 1 .. n |-> ApRead("DRW")]
  <1>1. IsList(r) /\ Len(r) = n
    <2>1. r = [i \in 1 .. n |-> r[i]]  OBVIOUS
    <2>2. QED  BY <2>1, MadeList
  <1>2. s = Framed(b, r, Take)  BY DEF ReadWords, Framed
  <1>3. \A i \in 1 .. n : r[i] = ApRead("DRW")  OBVIOUS
  <1> HIDE DEF r
  <1>4. ApRead("DRW").k = "ap" /\ ApRead("DRW").r = "DRW" /\ ApRead("DRW").w = FALSE  BY DEF ApRead
  <1>5. DataSteps(r, Take)  BY <1>1, <1>3, <1>4 DEF DataSteps
  <1>6. QED  BY <1>1, <1>2, <1>5, FramedChunk

LEMMA WriteChunk ==
  ASSUME NEW n \in Nat, n > 0, NEW b, NEW m, NEW ws, Sends(ws, n, b, m),
         NEW s, s = Append(WriteWords(b, ws), Done)
  PROVE  /\ IsList(s) /\ IsChunk(s, n, b) /\ Lead(s) = n + 4 /\ s # <<>> /\ s[Len(s)] = Done
         /\ Loaded(s, n, b, m)
  <1> DEFINE r == [i \in 1 .. n |-> Ap("DRW", ws[i])]
  <1>0. Len(ws) = n  BY DEF Sends
  <1>1. IsList(r) /\ Len(r) = n
    <2>1. r = [i \in 1 .. n |-> r[i]]  OBVIOUS
    <2>2. QED  BY <2>1, MadeList
  <1>2. s = Framed(b, r, Done)  BY <1>0 DEF WriteWords, Framed
  <1>3. \A i \in 1 .. n : r[i] = Ap("DRW", ws[i])  OBVIOUS
  <1> HIDE DEF r
  <1>4. \A v : Ap("DRW", v).k = "ap" /\ Ap("DRW", v).r = "DRW" /\ Ap("DRW", v).w = TRUE
               /\ Ap("DRW", v).v = v
    BY DEF Ap
  <1>5. Done # Take
    <2>1. Done.k = "done" /\ Take.k = "take"  BY DEF Done, Take
    <2>2. QED  BY <2>1
  <1>6. DataSteps(r, Done)  BY <1>1, <1>3, <1>4, <1>5 DEF DataSteps
  <1>7. /\ IsList(s) /\ IsChunk(s, n, b) /\ Lead(s) = n + 4 /\ s # <<>> /\ s[Len(s)] = Done
        /\ DataAt(s, r, n)
    <2> PICK z : z = Done  OBVIOUS
    <2>1. s = Framed(b, r, z) /\ DataSteps(r, z)  BY <1>2, <1>6
    <2>2. QED  BY <1>1, <2>1, FramedChunk
  <1>8. Loaded(s, n, b, m)
    <2> SUFFICES ASSUME NEW j \in 1 .. Len(s), s[j].r = "DRW"
                 PROVE  Carries(s[j].v, Nth(b, n + 1 - (Len(s) - j)), m)
      BY DEF Loaded
    <2>1. j \in 3 .. n + 2 /\ s[j] = r[j - 2] /\ n + 1 - (Len(s) - j) = j - 3
      BY <1>7 DEF DataAt
    <2>2. j - 2 \in 1 .. n /\ (j - 2) - 1 = j - 3  BY <2>1
    <2>3. s[j].v = ws[j - 2]  BY <1>3, <1>4, <2>1, <2>2
    <2>4. Carries(ws[j - 2], Nth(b, (j - 2) - 1), m)  BY <2>2 DEF Sends
    <2>5. QED  BY <2>1, <2>2, <2>3, <2>4
  <1>9. QED  BY <1>7, <1>8
-----------------------------------------------------------------------------
(* What is done of the chunk when its first steps are. A target that has   *)
(* latched an error owes nothing: the reading of RDBUFF will fail.         *)
Live == link # Nobody /\ ~sticky[link]
Fetching == todo[Len(todo)] = Take

(* The memory when the chunk has been written.                             *)
Merged ==
  [b \in DOMAIN mem |-> IF b \in Addr .. Addr + Bytes - 1 THEN Data(b - op.span[1]) ELSE mem[b]]

Placed ==
  /\ Lead(todo) <= Count + 3 => csw_valid
  /\ Lead(todo) \in 3 .. Count + 2 /\ Live => tar[link] = Nth(Base, Count + 2 - Lead(todo))

(* got[1] was posted before the chunk; the word read last is still posted. *)
Fetched ==
  /\ op.name = "write" => Words = 0
  /\ IsList(got)
  /\ Len(got) = (IF Lead(todo) >= Count + 2 THEN 0
                 ELSE IF Lead(todo) >= 2 THEN Count + 2 - Lead(todo) ELSE Count + 1)
  /\ Lead(todo) \in 2 .. Count + 1 /\ Live =>
       latch[link] = MemWord(mem, Nth(Base, Count + 1 - Lead(todo)))
  /\ Lead(todo) = 1 \/ (Lead(todo) \in 2 .. Count + 1 /\ Live) =>
       \A q \in 2 .. Len(got) : got[q] = MemWord(mem, Nth(Base, q - 2))

Sent == IF Lead(todo) = 1 THEN Count ELSE Count + 2 - Lead(todo)

Stored ==
  /\ op.name = "write"
  /\ Loaded(todo, Count, Base, Merged)
  /\ Lead(todo) = 1 \/ (Lead(todo) \in 2 .. Count + 2 /\ Live) =>
       \A b \in DOMAIN mem : b < Nth(Base, Sent) => mem[b] = Merged[b]

Working ==
  todo # <<>> =>
    /\ pos < op.span[2] /\ IsChunk(todo, Count, Base) /\ Placed
    /\ IF Fetching THEN Fetched ELSE Stored

(* What is done of the operation when its first pos bytes are.             *)
InSpan(a, s) == a >= s[1] /\ a < s[1] + s[2]

Progress ==
  /\ op.name = "read" => buf = [i \in 1 .. pos |-> mem[op.span[1] + i - 1]]
  /\ op.name = "write" => \A a \in DOMAIN mem :
       /\ mem[a] = mem0[a] \/ (InSpan(a, op.span) /\ mem[a] = Data(a - op.span[1]))
       /\ InSpan(a, op.span) /\ a - op.span[1] < pos /\ res \in {"Busy", "Ok"} =>
            mem[a] = Data(a - op.span[1])

Moved ==
  /\ Progress
  /\ res = "Ok" => pos = op.span[2]
  /\ res = "Busy" => Working /\ (todo = <<>> => got = <<>>)

MemKinds ==
  /\ DOMAIN tar = DPs /\ DOMAIN latch = DPs /\ sticky \in [DPs -> BOOLEAN]
  /\ DOMAIN mem = 0 .. MemBytes - 1
  /\ InMemory /\ stale = {} => pos \in 0 .. op.span[2] /\ op.span \in Spans

(* A memory access with nothing amiss, and one with its chunk under way.   *)
Access == InMemory /\ stale = {} /\ apsel = MemAp /\ CacheInv /\ MemKinds
InChunk == Access /\ res = "Busy" /\ todo # <<>> /\ Working

LEMMA SpanFacts ==
  ASSUME Access
  PROVE  /\ pos \in Nat /\ op.span[1] \in Nat /\ op.span[2] \in Nat /\ pos <= op.span[2]
         /\ op.span[1] + op.span[2] <= MemBytes
  <1>1. pos \in 0 .. op.span[2] /\ op.span \in Spans  BY DEF Access, MemKinds
  <1>2. op.span \in Nat \X Nat /\ op.span[1] + op.span[2] <= MemBytes
    BY <1>1, SpansAssumption
  <1>3. op.span[1] \in Nat /\ op.span[2] \in Nat  BY <1>2
  <1>4. QED  BY <1>1, <1>2, <1>3

LEMMA InChunkFacts ==
  ASSUME InChunk
  PROVE  /\ InOp /\ Count \in Nat /\ Count > 0 /\ Base \in Nat
         /\ IsList(todo) /\ IsChunk(todo, Count, Base)
         /\ Step = todo[1] /\ StepAt(Step)
  <1>1. pos < op.span[2] /\ IsChunk(todo, Count, Base)  BY DEF InChunk, Working
  <1>2. InOp  BY <1>1, SpanFacts DEF InChunk, InOp
  <1>3. IsList(todo) /\ Step = todo[1] /\ StepAt(Step)
    BY HeadFacts DEF InChunk, Access, CacheInv
  <1>4. QED  BY <1>1, <1>2, <1>3, ChunkFacts, Placement

LEMMA StepCases ==
  ASSUME InChunk
  PROVE  /\ Step.k \in {"take", "done", "dp", "ap", "csw"} /\ Lead(todo) \in 1 .. Count + 4
         /\ Step.r = "SELECT" => Step = Dp("SELECT", 0)
         /\ Step.k \in {"take", "done"} =>
              Lead(todo) = 1 /\ Step = todo[Len(todo)] /\ (Step = Take \/ Step = Done)
         /\ Step.k = "dp" => \/ Step = Dp("SELECT", 0)
                             \/ Lead(todo) = 2 /\ Step = DpRead("RDBUFF")
         /\ Step.k = "csw" => Lead(todo) = Count + 4 /\ Step = Csw
         /\ Step.k = "ap" => \/ Step.r = "DRW" /\ Lead(todo) \in 3 .. Count + 2 /\ (Step.w <=> ~Fetching)
                             \/ Lead(todo) = Count + 3 /\ Step = Ap("TAR", Base)
                             \/ Lead(todo) = Count + 4 /\ Step = Ap("CSW", 0)
  <1>1. /\ Count \in Nat /\ Count > 0 /\ IsList(todo) /\ IsChunk(todo, Count, Base)
        /\ Step = todo[1]
    BY InChunkFacts
  <1>2. /\ Lead(todo) \in 1 .. Count + 4
        /\ Step.r = "SELECT" => Step = Dp("SELECT", 0)
        /\ Step.r # "SELECT" => Slot(Lead(todo) - 1, Step, Count, Base, todo[Len(todo)])
    BY <1>1, ChunkHead
  <1>3. CASE Step.r = "SELECT"
    <2>1. Dp("SELECT", 0).k = "dp"  BY DEF Dp
    <2>2. QED  BY <1>2, <1>3, <2>1
  <1>4. CASE Step.r # "SELECT"
    <2>1. Lead(todo) - 1 \in Int  BY <1>1, <1>2
    <2>2. /\ Step.k \in {"take", "done", "dp", "ap", "csw"}
          /\ Step.k \in {"take", "done"} => Lead(todo) - 1 = 0 /\ Step = todo[Len(todo)]
                                            /\ (Step = Take \/ Step = Done)
          /\ Step.k = "dp" => Lead(todo) - 1 = 1 /\ Step = DpRead("RDBUFF")
          /\ Step.k = "csw" => Lead(todo) - 1 = Count + 3 /\ Step = Csw
          /\ Step.k = "ap" => Step.r \in {"DRW", "TAR", "CSW"}
          /\ Step.r = "DRW" => Lead(todo) - 1 \in 2 .. Count + 1 /\ (Step.w <=> todo[Len(todo)] # Take)
          /\ Step.r = "TAR" => Lead(todo) - 1 = Count + 2 /\ Step = Ap("TAR", Base)
          /\ Step.r = "CSW" => Lead(todo) - 1 = Count + 3 /\ Step = Ap("CSW", 0)
      BY <1>1, <1>2, <1>4, <2>1, SlotKinds
    <2>3. Lead(todo) \in Nat  BY <1>1, <1>2
    <2>4. /\ Lead(todo) - 1 = 0 => Lead(todo) = 1
          /\ Lead(todo) - 1 = 1 => Lead(todo) = 2
          /\ Lead(todo) - 1 = Count + 3 => Lead(todo) = Count + 4
          /\ Lead(todo) - 1 = Count + 2 => Lead(todo) = Count + 3
          /\ Lead(todo) - 1 \in 2 .. Count + 1 => Lead(todo) \in 3 .. Count + 2
      BY <1>1, <2>3
    <2>5. QED  BY <1>2, <1>4, <2>2, <2>4 DEF Fetching
  <1>5. QED  BY <1>3, <1>4

(* The chunk is the same while the progress is.                            *)
LEMMA SameChunk ==
  ASSUME UNCHANGED <<op, pos>>
  PROVE  /\ Addr' = Addr /\ Remaining' = Remaining /\ Skew' = Skew /\ Words' = Words
         /\ Bytes' = Bytes /\ Base' = Base /\ Count' = Count
  BY DEF Addr, Remaining, Skew, Words, Bytes, Base, Count

LEMMA SameMerged ==
  ASSUME UNCHANGED <<op, pos, ops, mem>>
  PROVE  Merged' = Merged
  BY SameChunk DEF Merged, Data
-----------------------------------------------------------------------------
(* Steps that transfer nothing.                                            *)
LEMMA SameProgress ==
  ASSUME Progress, UNCHANGED <<op, pos, ops, mem, mem0, buf>>,
         res' \in {"Busy", "Ok"} => res \in {"Busy", "Ok"}
  PROVE  Progress'
  BY DEF Progress, Data

LEMMA NextStep ==
  ASSUME InChunk, Lead(todo) > 1 \/ Step.r = "SELECT", todo' = Tail(todo), UNCHANGED <<op, pos>>
  PROVE  /\ todo' # <<>> /\ pos' < op'.span[2] /\ IsChunk(todo', Count', Base')
         /\ Lead(todo') = IF Step.r = "SELECT" THEN Lead(todo) ELSE Lead(todo) - 1
         /\ Fetching' <=> Fetching
         /\ \A m : Loaded(todo, Count, Base, m) => Loaded(todo', Count', Base', m)
  <1>1. /\ Count \in Nat /\ Count > 0 /\ IsList(todo) /\ IsChunk(todo, Count, Base)
        /\ Step = todo[1]
    BY InChunkFacts
  <1>2. /\ todo' # <<>> /\ IsChunk(todo', Count, Base)
        /\ Lead(todo') = IF Step.r = "SELECT" THEN Lead(todo) ELSE Lead(todo) - 1
        /\ todo'[Len(todo')] = todo[Len(todo)]
        /\ \A m : Loaded(todo, Count, Base, m) => Loaded(todo', Count, Base, m)
    BY <1>1, ChunkTail
  <1>3. Count' = Count /\ Base' = Base  BY SameChunk
  <1>4. pos' < op'.span[2]  BY DEF InChunk, Working
  <1>5. QED  BY <1>2, <1>3, <1>4 DEF Fetching

(* Only the list changes, and nothing the chunk owes for its place in it.  *)
LEMMA SameWork ==
  ASSUME InChunk, Progress,
         UNCHANGED <<target, caches, work, res, history>>,
         SameChunkOf(todo', todo, Count, Base),
         Lead(todo') = Lead(todo) \/ (csw_valid /\ Lead(todo) = Count + 4 /\ Lead(todo') = Count + 3)
  PROVE  Moved'
  <1> USE DEF InChunk, SameChunkOf
  <1>1. /\ UNCHANGED <<op, pos, buf, got, ops, mem0, mem, link, sticky, tar, latch, csw_valid, res>>
    BY DEF target, caches, work, history
  <1>2. Count' = Count /\ Base' = Base /\ Words' = Words  BY <1>1, SameChunk
  <1>3. Merged' = Merged  BY <1>1, SameMerged
  <1>4. Live' <=> Live  BY <1>1 DEF Live
  <1>5. Count \in Nat /\ Count > 0 /\ Lead(todo) \in 1 .. Count + 4
    BY InChunkFacts, StepCases
  <1>6. pos' < op'.span[2] /\ IsChunk(todo', Count', Base')
    BY <1>1, <1>2 DEF Working
  <1>7. Placed'
    <2>1. Lead(todo') <= Count + 3 => csw_valid  BY <1>5 DEF Working, Placed
    <2>2. Lead(todo') \in 3 .. Count + 2 => Lead(todo') = Lead(todo)  BY <1>5
    <2>3. QED  BY <1>1, <1>2, <1>4, <2>1, <2>2 DEF Working, Placed
  <1>8. /\ Lead(todo') \in 2 .. Count + 2 \/ Lead(todo') = 1 => Lead(todo') = Lead(todo)
        /\ Lead(todo') \in 2 .. Count + 1 => Lead(todo') = Lead(todo)
        /\ Lead(todo') >= Count + 2 <=> Lead(todo) >= Count + 2
        /\ Lead(todo') # Lead(todo) => Lead(todo') >= Count + 2
    BY <1>5
  <1>9. ASSUME Fetched PROVE Fetched'
    <2>1. op'.name = "write" => Words' = 0  BY <1>1, <1>2, <1>9 DEF Fetched
    <2>2. IsList(got')  BY <1>1, <1>9 DEF Fetched
    <2>3. Len(got') = (IF Lead(todo') >= Count + 2 THEN 0
                       ELSE IF Lead(todo') >= 2 THEN Count + 2 - Lead(todo') ELSE Count + 1)
      BY <1>1, <1>8, <1>9 DEF Fetched
    <2>4. Lead(todo') \in 2 .. Count + 1 /\ Live =>
            latch[link] = MemWord(mem, Nth(Base, Count + 1 - Lead(todo')))
      BY <1>8, <1>9 DEF Fetched
    <2>5. Lead(todo') = 1 \/ (Lead(todo') \in 2 .. Count + 1 /\ Live) =>
            \A q \in 2 .. Len(got) : got[q] = MemWord(mem, Nth(Base, q - 2))
      BY <1>8, <1>9 DEF Fetched
    <2>6. QED  BY <1>1, <1>2, <1>4, <2>1, <2>2, <2>3, <2>4, <2>5 DEF Fetched
  <1>10. ASSUME Stored PROVE Stored'
    <2>1. op'.name = "write" /\ Loaded(todo', Count', Base', Merged')
      BY <1>1, <1>2, <1>3, <1>10 DEF Stored
    <2>2. Lead(todo') = 1 \/ (Lead(todo') \in 2 .. Count + 2 /\ Live) =>
            /\ Sent' = Sent
            /\ \A b \in DOMAIN mem : b < Nth(Base, Sent) => mem[b] = Merged[b]
      BY <1>2, <1>8, <1>10 DEF Stored, Sent
    <2>3. QED  BY <1>1, <1>2, <1>3, <1>4, <2>1, <2>2 DEF Stored
  <1>11. Fetching' <=> Fetching  BY DEF Fetching
  <1>12. Working'  BY <1>6, <1>7, <1>9, <1>10, <1>11 DEF Working
  <1>13. Progress'  BY <1>1, SameProgress
  <1>14. QED  BY <1>1, <1>12, <1>13 DEF Moved

LEMMA EnsureCswMoved == ASSUME InChunk, Progress, EnsureCsw PROVE Moved'
  <1>1. /\ Count \in Nat /\ Count > 0 /\ Base \in Nat /\ IsList(todo) /\ IsChunk(todo, Count, Base)
        /\ Step = todo[1]
    BY InChunkFacts
  <1>2. /\ Step.k = "csw" /\ UNCHANGED <<target, caches, work, res, history>>
        /\ todo' = (IF csw_valid THEN <<>> ELSE <<Ap("CSW", 0)>>) \o Tail(todo)
    BY DEF EnsureCsw, At
  <1>3. Step = Csw /\ Lead(todo) = Count + 4  BY <1>2, StepCases
  <1>4. CASE csw_valid
    <2>1. Step.r # "SELECT"
      <3>1. Csw.r = ""  BY DEF Csw
      <3>2. QED  BY <1>3, <3>1
    <2>2. Lead(todo) > 1  BY <1>1, <1>3
    <2>3. /\ IsList(Tail(todo)) /\ IsChunk(Tail(todo), Count, Base) /\ Tail(todo) # <<>>
          /\ Lead(Tail(todo)) = Lead(todo) - 1
          /\ Tail(todo)[Len(Tail(todo))] = todo[Len(todo)]
          /\ \A m : Loaded(todo, Count, Base, m) => Loaded(Tail(todo), Count, Base, m)
      BY <1>1, <2>1, <2>2, ChunkTail
    <2>4. todo' = Tail(todo)
      <3>1. <<>> \o Tail(todo) = Tail(todo)  BY <2>3, ConcatEmptySeq DEF IsList
      <3>2. QED  BY <1>2, <1>4, <3>1
    <2>5. Lead(todo') = Count + 3  BY <1>1, <1>3, <2>3, <2>4
    <2>6. SameChunkOf(todo', todo, Count, Base)  BY <2>3, <2>4 DEF SameChunkOf
    <2>7. QED  BY <1>2, <1>3, <1>4, <2>5, <2>6, SameWork
  <1>5. CASE ~csw_valid
    <2>1. todo' = <<Ap("CSW", 0)>> \o Tail(todo)  BY <1>2, <1>5
    <2>2. SameChunkOf(todo', todo, Count, Base) /\ Lead(todo') = Count + 4
      BY <1>1, <1>3, <2>1, ChunkCsw
    <2>3. QED  BY <1>2, <1>3, <2>2, SameWork
  <1>6. QED  BY <1>4, <1>5

LEMMA WantedZero == ASSUME InChunk, Step.k = "ap" PROVE Wanted = 0
  <1>1. Step.r # "IDR"
    <2>1. Ap("TAR", Base).r = "TAR" /\ Ap("CSW", 0).r = "CSW"  BY DEF Ap
    <2>2. QED  BY <2>1, StepCases
  <1>2. Bank(Step.r) = 0  BY <1>1 DEF Bank
  <1>3. QED  BY <1>2 DEF Wanted, SelectValue, MemAp, InChunk, Access

LEMMA SelectApBankMoved == ASSUME InChunk, Progress, SelectApBank PROVE Moved'
  <1>1. /\ Count \in Nat /\ Count > 0 /\ Base \in Nat /\ IsList(todo) /\ IsChunk(todo, Count, Base)
        /\ Step = todo[1] /\ StepAt(Step)
    BY InChunkFacts
  <1>2. /\ Step.k = "ap" /\ UNCHANGED <<target, caches, work, res, history>>
        /\ todo' = <<Dp("SELECT", Wanted)>> \o todo
    BY DEF SelectApBank, At
  <1>3. todo[1].r # "SELECT"  BY <1>1, <1>2 DEF StepAt
  <1>4. todo' = <<Dp("SELECT", 0)>> \o todo  BY <1>2, WantedZero
  <1>5. SameChunkOf(todo', todo, Count, Base) /\ Lead(todo') = Lead(todo)
    BY <1>1, <1>3, <1>4, ChunkSelect
  <1>6. QED  BY <1>2, <1>5, SameWork

LEMMA IdleMoved ==
  ASSUME InChunk, Progress, UNCHANGED <<target, caches, work, todo, res, history>>
  PROVE  Moved'
  <1>1. todo' = todo  OBVIOUS
  <1>2. SameChunkOf(todo', todo, Count, Base)
    BY <1>1, InChunkFacts DEF SameChunkOf, InChunk
  <1>3. QED  BY <1>1, <1>2, SameWork
-----------------------------------------------------------------------------
(* Transfers that the target acknowledges.                                 *)
LEMMA AcceptControl ==
  ASSUME Accept, Step.k = "dp" \/ Step = Ap("CSW", 0)
  PROVE  tar' = tar /\ latch' = latch /\ mem' = mem
  <1>1. ~Hits(12) /\ ~Hits(4)
    <2>1. CASE Step.k = "dp"  BY <2>1 DEF Hits
    <2>2. CASE Step = Ap("CSW", 0)
      <3>1. Step.r = "CSW"  BY <2>2 DEF Ap
      <3>2. Offset(Step.r) = 0  BY <3>1 DEF Offset
      <3>3. QED  BY <3>2 DEF Hits
    <2>3. QED  BY <2>1, <2>2
  <1>2. ~(Step.k = "ap" /\ ~Step.w)  BY DEF Ap
  <1>3. QED  BY <1>1, <1>2 DEF Accept

LEMMA Selected ==
  ASSUME InChunk, OnWire, Step.k = "ap", link # Nobody
  PROVE  /\ link \in DPs /\ sel[link] = SelectValue(MemAp, 0)
         /\ csw_valid => csw[link]
  <1>1. select = Wanted  BY DEF OnWire, At
  <1>2. select = 0  BY <1>1, WantedZero
  <1>3. "wire" \notin stale /\ "link" \notin stale  BY DEF InChunk, Access
  <1>4. sel[link] = 0 /\ (csw_valid => csw[link])
    BY <1>2, <1>3 DEF InChunk, Access, CacheInv, Agreed, Unknown
  <1>5. link \in DPs  BY DEF InChunk, Access, CacheInv, Kinds
  <1>6. QED  BY <1>4, <1>5 DEF SelectValue, MemAp

LEMMA AcceptTar ==
  ASSUME InChunk, OnWire, link # Nobody, Step = Ap("TAR", Base), Accept
  PROVE  tar' = [tar EXCEPT ![link] = Base] /\ latch' = latch /\ mem' = mem
  <1>1. Step.k = "ap" /\ Step.r = "TAR" /\ Step.w /\ Step.v = Base  BY DEF Ap
  <1>2. Offset(Step.r) = 4  BY <1>1 DEF Offset
  <1>3. sel[link] = SelectValue(MemAp, 0)  BY <1>1, Selected
  <1>4. Hits(4) /\ ~Hits(12)  BY <1>1, <1>2, <1>3 DEF Hits
  <1>5. QED  BY <1>1, <1>4 DEF Accept

LEMMA AcceptDrw ==
  ASSUME InChunk, OnWire, link # Nobody, Step.k = "ap", Step.r = "DRW", Accept
  PROVE  AccessWord
  <1>1. Offset(Step.r) = 12  BY DEF Offset
  <1>2. Hits(12)  BY <1>1, Selected DEF Hits
  <1>3. QED  BY <1>2 DEF Accept

LEMMA StickyKept ==
  ASSUME InChunk, link # Nobody, link' = link, Step.r # "ABORT",
         sticky' = [sticky EXCEPT ![link] = @ /\ Step.r # "ABORT"]
  PROVE  Live' <=> Live
  <1>1. link \in DPs /\ sticky \in [DPs -> BOOLEAN]
    BY DEF InChunk, Access, CacheInv, Kinds, MemKinds
  <1>2. PICK v \in BOOLEAN : v = (sticky[link] /\ Step.r # "ABORT")  OBVIOUS
  <1>3. sticky' = [sticky EXCEPT ![link] = v]  BY <1>2
  <1>4. sticky'[link] = v  BY <1>1, <1>3
  <1>5. v <=> sticky[link]  BY <1>2
  <1>6. QED  BY <1>4, <1>5 DEF Live

LEMMA Advance ==
  ASSUME InChunk, Lead(todo) > 1 \/ Step.r = "SELECT", Acknowledge, Progress', Placed',
         Fetching => Fetched', ~Fetching => Stored'
  PROVE  Moved'
  <1>1. todo' = Tail(todo) /\ UNCHANGED <<op, pos, res>>  BY DEF Acknowledge
  <1>2. /\ todo' # <<>> /\ pos' < op'.span[2] /\ IsChunk(todo', Count', Base')
        /\ Fetching' <=> Fetching
    BY <1>1, NextStep
  <1>3. Working'  BY <1>2 DEF Working
  <1>4. QED  BY <1>1, <1>2, <1>3 DEF Moved, InChunk

(* Writing SELECT and CSW.                                                 *)
LEMMA ControlMoved ==
  ASSUME InChunk, Progress, Acked, Step = Dp("SELECT", 0) \/ Step = Ap("CSW", 0)
  PROVE  Moved'
  <1> USE DEF InChunk
  <1>1. /\ Accept /\ Acknowledge /\ link # Nobody
        /\ sticky' = [sticky EXCEPT ![link] = @ /\ Step.r # "ABORT"]
    BY DEF Acked
  <1>2. \/ Step.k = "dp" /\ Step.r = "SELECT" /\ Step.w
        \/ Step.k = "ap" /\ Step.r = "CSW" /\ Step.w /\ Step = Ap("CSW", 0)
    <2>1. Dp("SELECT", 0).k = "dp" /\ Dp("SELECT", 0).r = "SELECT" /\ Dp("SELECT", 0).w
      BY DEF Dp
    <2>2. Ap("CSW", 0).k = "ap" /\ Ap("CSW", 0).r = "CSW" /\ Ap("CSW", 0).w  BY DEF Ap
    <2>3. QED  BY <2>1, <2>2
  <1>3. tar' = tar /\ latch' = latch /\ mem' = mem  BY <1>1, <1>2, AcceptControl
  <1>4. /\ UNCHANGED <<op, pos, buf, res, link, ops, mem0, got>> /\ todo' = Tail(todo)
        /\ csw_valid' = (csw_valid \/ Step.r = "CSW")
    BY <1>1, <1>2 DEF Acknowledge
  <1>5. Live' <=> Live  BY <1>1, <1>2, <1>4, StickyKept
  <1>6. Count' = Count /\ Base' = Base /\ Words' = Words  BY <1>4, SameChunk
  <1>7. Merged' = Merged  BY <1>3, <1>4, SameMerged
  <1>8. Count \in Nat /\ Count > 0 /\ Lead(todo) \in 1 .. Count + 4
    BY InChunkFacts, StepCases
  <1>9. Step.r = "CSW" => Lead(todo) = Count + 4
    <2>1. Ap("TAR", Base).r = "TAR"  BY DEF Ap
    <2>2. QED  BY <1>2, <2>1, StepCases
  <1>10. Step.r = "SELECT" \/ Lead(todo) > 1  BY <1>2, <1>8, <1>9
  <1>11. /\ Lead(todo') = IF Step.r = "SELECT" THEN Lead(todo) ELSE Lead(todo) - 1
         /\ \A m : Loaded(todo, Count, Base, m) => Loaded(todo', Count', Base', m)
    BY <1>4, <1>10, NextStep
  <1>12. \/ Lead(todo') = Lead(todo) /\ (csw_valid => csw_valid')
         \/ Lead(todo) = Count + 4 /\ Lead(todo') = Count + 3 /\ csw_valid'
    <2>1. CASE Step.r = "SELECT"
      <3>1. csw_valid => csw_valid'  BY <1>4
      <3>2. QED  BY <1>11, <2>1, <3>1
    <2>2. CASE Step.r = "CSW"
      <3>1. csw_valid'  BY <1>4, <2>2
      <3>2. Lead(todo) = Count + 4 /\ Lead(todo') = Lead(todo) - 1  BY <1>9, <1>11, <2>2
      <3>3. QED  BY <1>8, <3>1, <3>2
    <2>3. QED  BY <1>2, <2>1, <2>2
  <1>13. Placed'
    <2>1. Lead(todo') <= Count + 3 => csw_valid'
      BY <1>8, <1>12 DEF Working, Placed
    <2>2. Lead(todo') \in 3 .. Count + 2 => Lead(todo') = Lead(todo)  BY <1>8, <1>12
    <2>3. QED  BY <1>3, <1>4, <1>5, <1>6, <2>1, <2>2 DEF Working, Placed
  <1>14. /\ Lead(todo') \in 2 .. Count + 2 \/ Lead(todo') = 1 => Lead(todo') = Lead(todo)
         /\ Lead(todo') \in 2 .. Count + 1 => Lead(todo') = Lead(todo)
         /\ Lead(todo') # Lead(todo) => Lead(todo') >= Count + 2 /\ Lead(todo) >= Count + 2
    BY <1>8, <1>12
  <1>15. ASSUME Fetching PROVE Fetched'
    <2>1. Fetched  BY <1>15 DEF Working
    <2>2. op'.name = "write" => Words' = 0  BY <1>4, <1>6, <2>1 DEF Fetched
    <2>3. IsList(got')  BY <1>4, <2>1 DEF Fetched
    <2>4. Len(got') = (IF Lead(todo') >= Count + 2 THEN 0
                       ELSE IF Lead(todo') >= 2 THEN Count + 2 - Lead(todo') ELSE Count + 1)
      BY <1>4, <1>14, <2>1 DEF Fetched
    <2>5. Lead(todo') \in 2 .. Count + 1 /\ Live =>
            latch[link] = MemWord(mem, Nth(Base, Count + 1 - Lead(todo')))
      BY <1>14, <2>1 DEF Fetched
    <2>6. Lead(todo') = 1 \/ (Lead(todo') \in 2 .. Count + 1 /\ Live) =>
            \A q \in 2 .. Len(got) : got[q] = MemWord(mem, Nth(Base, q - 2))
      BY <1>14, <2>1 DEF Fetched
    <2>7. QED  BY <1>3, <1>4, <1>5, <1>6, <2>2, <2>3, <2>4, <2>5, <2>6 DEF Fetched
  <1>16. ASSUME ~Fetching PROVE Stored'
    <2>1. Stored  BY <1>16 DEF Working
    <2>2. op'.name = "write" /\ Loaded(todo', Count', Base', Merged')
      BY <1>4, <1>7, <1>11, <2>1 DEF Stored
    <2>3. Lead(todo') = 1 \/ (Lead(todo') \in 2 .. Count + 2 /\ Live) =>
            /\ Sent' = Sent
            /\ \A b \in DOMAIN mem : b < Nth(Base, Sent) => mem[b] = Merged[b]
      BY <1>6, <1>14, <2>1 DEF Stored, Sent
    <2>4. QED  BY <1>3, <1>4, <1>5, <1>6, <1>7, <2>2, <2>3 DEF Stored
  <1>17. Progress'  BY <1>3, <1>4, SameProgress
  <1>18. QED  BY <1>1, <1>10, <1>13, <1>15, <1>16, <1>17, Advance

LEMMA WordStep ==
  ASSUME InChunk, Acknowledge, Lead(todo) > 1, Step.r # "SELECT"
  PROVE  /\ UNCHANGED <<op, pos, buf, res, link, ops, mem0>> /\ (csw_valid => csw_valid')
         /\ Count' = Count /\ Base' = Base /\ Words' = Words
         /\ Count \in Nat /\ Count > 0 /\ Base \in Nat /\ Lead(todo) \in 2 .. Count + 4
         /\ Lead(todo') = Lead(todo) - 1
         /\ \A m : Loaded(todo, Count, Base, m) => Loaded(todo', Count', Base', m)
         /\ got' = IF ~Step.w THEN Append(got, latch[link]) ELSE got
  <1>1. /\ UNCHANGED <<op, pos, buf, res, link, ops, mem0>> /\ todo' = Tail(todo)
        /\ csw_valid' = (csw_valid \/ Step.r = "CSW")
        /\ got' = IF ~Step.w THEN Append(got, latch[link]) ELSE got
    BY DEF Acknowledge, InChunk, Access
  <1>2. Count' = Count /\ Base' = Base /\ Words' = Words  BY <1>1, SameChunk
  <1>3. Count \in Nat /\ Count > 0 /\ Base \in Nat /\ Lead(todo) \in 1 .. Count + 4
    BY InChunkFacts, StepCases
  <1>4. /\ Lead(todo') = Lead(todo) - 1
        /\ \A m : Loaded(todo, Count, Base, m) => Loaded(todo', Count', Base', m)
    BY <1>1, NextStep
  <1>5. Lead(todo) \in 2 .. Count + 4  BY <1>3
  <1>6. csw_valid => csw_valid'  BY <1>1
  <1>7. QED  BY <1>1, <1>2, <1>3, <1>4, <1>5, <1>6

(* Nothing is stored, and nothing need be read, while TAR is not written.  *)
LEMMA NothingYet ==
  ASSUME InChunk, Acknowledge, Step = Ap("TAR", Base), mem' = mem,
         csw_valid' /\ Live' => tar'[link'] = Base
  PROVE  Placed' /\ (Fetching => Fetched') /\ (~Fetching => Stored') /\ Lead(todo) > 1
  <1>1. Step.r = "TAR" /\ Step.w /\ Step.k = "ap"  BY DEF Ap
  <1>2. Count \in Nat /\ Count > 0 /\ Base \in Nat  BY InChunkFacts
  <1>3. Lead(todo) = Count + 3
    <2>1. Ap("CSW", 0).r = "CSW"  BY DEF Ap
    <2>2. QED  BY <1>1, <2>1, StepCases
  <1>4. Lead(todo) > 1  BY <1>2, <1>3
  <1>5. /\ UNCHANGED <<op, pos, buf, res, link, ops, mem0>> /\ (csw_valid => csw_valid')
        /\ Count' = Count /\ Base' = Base /\ Words' = Words
        /\ Lead(todo') = Lead(todo) - 1
        /\ \A m : Loaded(todo, Count, Base, m) => Loaded(todo', Count', Base', m)
        /\ got' = got
    BY <1>1, <1>4, WordStep
  <1>6. Lead(todo') = Count + 2  BY <1>2, <1>3, <1>5
  <1>7. csw_valid  BY <1>2, <1>3 DEF InChunk, Working, Placed
  <1>8. Placed'
    <2>1. Count + 2 - Lead(todo') = 0  BY <1>2, <1>6
    <2>2. Live' => tar'[link'] = Nth(Base, 0)  BY <1>2, <1>5, <1>7, Nths
    <2>3. QED  BY <1>5, <1>7, <2>1, <2>2 DEF Placed
  <1>9. ASSUME Fetching PROVE Fetched'
    <2>1. Fetched  BY <1>9 DEF InChunk, Working
    <2>2. op'.name = "write" => Words' = 0  BY <1>5, <2>1 DEF Fetched
    <2>3. IsList(got') /\ Len(got') = 0  BY <1>2, <1>3, <1>5, <2>1 DEF Fetched
    <2>4. Lead(todo') >= Count + 2 /\ ~(Lead(todo') \in 2 .. Count + 1) /\ Lead(todo') # 1
      BY <1>2, <1>6
    <2>5. QED  BY <1>5, <2>2, <2>3, <2>4 DEF Fetched
  <1>10. ASSUME ~Fetching PROVE Stored'
    <2>1. Stored  BY <1>10 DEF InChunk, Working
    <2>2. Merged' = Merged  BY <1>5, SameMerged
    <2>3. op'.name = "write" /\ Loaded(todo', Count', Base', Merged')
      BY <1>5, <2>1, <2>2 DEF Stored
    <2>4. Nth(Base', Sent') = Base
      <3>1. Sent' = 0  BY <1>2, <1>5, <1>6 DEF Sent
      <3>2. QED  BY <1>2, <1>5, <3>1, Nths
    <2>5. ASSUME NEW b \in DOMAIN mem, b < Base PROVE mem[b] = Merged[b]
      <3>1. b \in Int  BY DEF InChunk, Access, MemKinds
      <3>2. Base <= Addr /\ Addr \in Nat  BY InChunkFacts, ChunkEnd
      <3>3. ~(b \in Addr .. Addr + Bytes - 1)  BY <1>2, <2>5, <3>1, <3>2
      <3>4. QED  BY <3>3 DEF Merged
    <2>6. QED  BY <2>2, <2>3, <2>4, <2>5 DEF Stored
  <1>11. QED  BY <1>4, <1>8, <1>9, <1>10

LEMMA TarMoved ==
  ASSUME InChunk, Progress, Acked, Step = Ap("TAR", Base) PROVE Moved'
  <1>1. OnWire /\ Accept /\ Acknowledge /\ link # Nobody  BY DEF Acked
  <1>2. /\ tar' = [tar EXCEPT ![link] = Base] /\ mem' = mem  BY <1>1, AcceptTar
  <1>3. UNCHANGED <<op, pos, buf, res, link, ops, mem0>>  BY <1>1 DEF Acknowledge
  <1>4. tar'[link'] = Base
    <2>1. link \in DPs /\ DOMAIN tar = DPs
      BY <1>1 DEF InChunk, Access, CacheInv, Kinds, MemKinds
    <2>2. QED  BY <1>2, <1>3, <2>1
  <1>5. Placed' /\ (Fetching => Fetched') /\ (~Fetching => Stored') /\ Lead(todo) > 1
    BY <1>1, <1>2, <1>4, NothingYet
  <1>6. Progress'  BY <1>2, <1>3, SameProgress
  <1>7. QED  BY <1>1, <1>5, <1>6, Advance

(* The word posted before is appended to the words read.                   *)
LEMMA GotGrows ==
  ASSUME NEW n \in Nat, n > 0, Count = n, NEW l \in 2 .. n + 2, Lead(todo) = l, Fetched,
         got' = Append(got, latch[link])
  PROVE  /\ IsList(got') /\ Len(got') = n + 3 - l
         /\ Live => \A q \in 2 .. Len(got') : got'[q] = MemWord(mem, Nth(Base, q - 2))
  <1>1. IsList(got) /\ Len(got) = n + 2 - l
    <2>1. l >= 2 /\ (l >= n + 2 => n + 2 - l = 0)  OBVIOUS
    <2>2. QED  BY <2>1 DEF Fetched
  <1>2. /\ IsList(got') /\ Len(got') = Len(got) + 1
        /\ \A i \in 1 .. Len(got) : got'[i] = got[i]
        /\ got'[Len(got) + 1] = latch[link]
    BY <1>1, ListAppend
  <1>3. Len(got') = n + 3 - l  BY <1>1, <1>2
  <1>4. ASSUME Live, NEW q \in 2 .. Len(got') PROVE got'[q] = MemWord(mem, Nth(Base, q - 2))
    <2>1. l \in 2 .. n + 1  BY <1>3, <1>4
    <2>2. CASE q = Len(got) + 1
      <3>1. q - 2 = n + 1 - l  BY <1>1, <2>2
      <3>2. latch[link] = MemWord(mem, Nth(Base, n + 1 - l))  BY <1>4, <2>1 DEF Fetched
      <3>3. QED  BY <1>2, <2>2, <3>1, <3>2
    <2>3. CASE q # Len(got) + 1
      <3>1. q \in 1 .. Len(got) /\ q \in 2 .. Len(got)  BY <1>1, <1>3, <2>3
      <3>2. got[q] = MemWord(mem, Nth(Base, q - 2))  BY <1>4, <2>1, <3>1 DEF Fetched
      <3>3. QED  BY <1>2, <3>1, <3>2
    <2>4. QED  BY <2>2, <2>3
  <1>5. QED  BY <1>2, <1>3, <1>4

LEMMA WordRead ==
  ASSUME InChunk, Acknowledge, Step.k = "ap", Step.r = "DRW", ~Step.w, mem' = mem,
         Live' => /\ Live /\ latch'[link] = MemWord(mem, tar[link])
                  /\ tar'[link] = NextTar(tar[link])
  PROVE  Placed' /\ Fetching /\ Fetched' /\ Lead(todo) > 1
  <1>1. /\ InOp /\ Count \in Nat /\ Count > 0 /\ Base \in Nat /\ Fetching
        /\ Lead(todo) \in 3 .. Count + 2
    <2>1. Ap("TAR", Base).r = "TAR" /\ Ap("CSW", 0).r = "CSW"  BY DEF Ap
    <2>2. QED  BY <2>1, InChunkFacts, StepCases
  <1>2. Lead(todo) > 1  BY <1>1
  <1>3. /\ UNCHANGED <<op, pos, buf, res, link, ops, mem0>> /\ (csw_valid => csw_valid')
        /\ Count' = Count /\ Base' = Base /\ Words' = Words
        /\ Lead(todo') = Lead(todo) - 1
        /\ got' = Append(got, latch[link])
    BY <1>2, WordStep
  <1> DEFINE l == Lead(todo)
             n == Count
  <1>4. Fetched /\ Placed  BY <1>1 DEF InChunk, Working
  <1>5. l \in 2 .. n + 2  BY <1>1
  <1>6. /\ IsList(got') /\ Len(got') = n + 3 - l
        /\ Live => \A q \in 2 .. Len(got') : got'[q] = MemWord(mem, Nth(Base, q - 2))
    BY <1>1, <1>3, <1>4, <1>5, GotGrows
  <1>7. Live => tar[link] = Nth(Base, n + 2 - l)  BY <1>1, <1>4 DEF Placed
  <1>8. Placed'
    <2>1. csw_valid'
      <3>1. l <= n + 3  BY <1>1
      <3>2. QED  BY <1>3, <1>4, <3>1 DEF Placed
    <2>2. ASSUME Lead(todo') \in 3 .. n + 2, Live'
          PROVE  tar'[link] = Nth(Base, n + 2 - Lead(todo'))
      <3>1. n + 2 - l \in Nat /\ (n + 2 - l) + 1 < n /\ (n + 2 - l) + 1 = n + 2 - Lead(todo')
        BY <1>1, <1>3, <2>2
      <3>2. NextTar(Nth(Base, n + 2 - l)) = Nth(Base, (n + 2 - l) + 1)
        BY <1>1, <3>1, TarSteps
      <3>3. QED  BY <1>7, <2>2, <3>1, <3>2
    <2>3. QED  BY <1>3, <2>1, <2>2 DEF Placed
  <1>9. Fetched'
    <2>1. op'.name = "write" => Words' = 0  BY <1>3, <1>4 DEF Fetched
    <2>2. /\ Lead(todo') \in 2 .. n + 1 /\ ~(Lead(todo') >= n + 2) /\ Lead(todo') >= 2
          /\ n + 2 - Lead(todo') = n + 3 - l /\ Lead(todo') # 1
          /\ n + 1 - Lead(todo') = n + 2 - l
      BY <1>1, <1>3
    <2>3. Live' => latch'[link] = MemWord(mem, Nth(Base, n + 1 - Lead(todo')))
      BY <1>7, <2>2
    <2>4. Live' => \A q \in 2 .. Len(got') : got'[q] = MemWord(mem, Nth(Base, q - 2))
      BY <1>6
    <2>5. QED  BY <1>3, <1>6, <2>1, <2>2, <2>3, <2>4 DEF Fetched
  <1>10. QED  BY <1>1, <1>2, <1>8, <1>9

LEMMA WordAtMem == \A a : WordAt(a) = MemWord(mem, a)
  BY DEF WordAt, MemWord, ByteAt

LEMMA ReadMoved ==
  ASSUME InChunk, Progress, Acked, Step.k = "ap", Step.r = "DRW", ~Step.w PROVE Moved'
  <1>1. /\ OnWire /\ Accept /\ Acknowledge /\ link # Nobody /\ ~Barred
        /\ sticky' = [sticky EXCEPT ![link] = @ /\ Step.r # "ABORT"]
    BY DEF Acked
  <1>2. AccessWord  BY <1>1, AcceptDrw
  <1>3. UNCHANGED <<op, pos, buf, res, link, ops, mem0>>  BY <1>1 DEF Acknowledge
  <1>4. Live  BY <1>1 DEF Barred, Live
  <1>5. Lead(todo) \in 3 .. Count + 2 /\ Count \in Nat
    <2>1. Ap("TAR", Base).r = "TAR" /\ Ap("CSW", 0).r = "CSW"  BY DEF Ap
    <2>2. QED  BY <2>1, InChunkFacts, StepCases
  <1>6. link \in DPs /\ csw[link]
    <2>1. Lead(todo) <= Count + 3  BY <1>5
    <2>2. csw_valid  BY <2>1 DEF InChunk, Working, Placed
    <2>3. QED  BY <1>1, <2>2, Selected
  <1>7. mem' = mem  BY <1>2 DEF AccessWord
  <1>8. latch'[link] = MemWord(mem, tar[link]) /\ tar'[link] = NextTar(tar[link])
    <2>1. /\ latch' = [latch EXCEPT ![link] = WordAt(tar[link])]
          /\ tar' = [tar EXCEPT ![link] = NextTar(@)]
      BY <1>2, <1>6 DEF AccessWord
    <2>2. DOMAIN latch = DPs /\ DOMAIN tar = DPs  BY DEF InChunk, Access, MemKinds
    <2>3. latch'[link] = WordAt(tar[link]) /\ tar'[link] = NextTar(tar[link])
      BY <1>6, <2>1, <2>2
    <2>4. QED  BY <2>3, WordAtMem
  <1>9. Placed' /\ Fetching /\ Fetched' /\ Lead(todo) > 1
    BY <1>1, <1>4, <1>7, <1>8, WordRead
  <1>10. Progress'  BY <1>3, <1>7, SameProgress
  <1>11. QED  BY <1>1, <1>9, <1>10, Advance

(* A word of the chunk written into memory.                                *)
LEMMA WriteWordAt ==
  ASSUME InChunk, ~Fetching, Step.k = "ap", Step.r = "DRW", Step.w
  PROVE  /\ InOp /\ Count \in Nat /\ Count > 0 /\ Base \in Nat
         /\ Lead(todo) \in 3 .. Count + 2 /\ Stored /\ Placed
         /\ Carries(Step.v, Nth(Base, Count + 2 - Lead(todo)), Merged)
  <1>1. /\ InOp /\ Count \in Nat /\ Count > 0 /\ Base \in Nat /\ IsList(todo)
        /\ IsChunk(todo, Count, Base) /\ Step = todo[1] /\ Lead(todo) \in 3 .. Count + 2
    <2>1. Ap("TAR", Base).r = "TAR" /\ Ap("CSW", 0).r = "CSW"  BY DEF Ap
    <2>2. QED  BY <2>1, InChunkFacts, StepCases
  <1>2. Stored /\ Placed  BY DEF InChunk, Working
  <1>3. Len(todo) \in Nat /\ Len(todo) >= 1 /\ Len(todo) = Lead(todo)
    BY <1>1, ChunkHead
  <1>4. 1 \in 1 .. Len(todo) /\ Count + 1 - (Len(todo) - 1) = Count + 2 - Lead(todo)
    BY <1>1, <1>3
  <1>5. Carries(todo[1].v, Nth(Base, Count + 1 - (Len(todo) - 1)), Merged)
    BY <1>1, <1>2, <1>4 DEF Stored, Loaded
  <1>6. QED  BY <1>1, <1>2, <1>4, <1>5

LEMMA WordStored ==
  ASSUME InChunk, Progress, ~Fetching, Step.k = "ap", Step.r = "DRW", Step.w, Live,
         UNCHANGED <<op, pos, ops, mem0, buf, res>>,
         NEW x \in Nat, x = Nth(Base, Count + 2 - Lead(todo)),
         mem' = [a \in DOMAIN mem |-> IF a \in x .. x + WordBytes - 1
                                      THEN Step.v[a - x + 1] ELSE mem[a]]
  PROVE  /\ Merged' = Merged /\ Progress'
         /\ \A b \in DOMAIN mem' : b < Nth(Base, Count + 3 - Lead(todo)) => mem'[b] = Merged[b]
  <1>1. /\ InOp /\ Count \in Nat /\ Count > 0 /\ Base \in Nat
        /\ Lead(todo) \in 3 .. Count + 2 /\ Stored /\ Carries(Step.v, x, Merged)
    BY WriteWordAt
  <1>2. DOMAIN mem = 0 .. MemBytes - 1 /\ DOMAIN mem' = DOMAIN mem /\ DOMAIN Merged = DOMAIN mem
    BY DEF InChunk, Access, MemKinds, Merged
  <1>3. /\ Addr' = Addr /\ Bytes' = Bytes /\ Addr \in Nat /\ Bytes \in Nat
        /\ op.span[1] \in Nat /\ op.span[2] \in Nat /\ pos \in Nat
        /\ Addr = op.span[1] + pos /\ pos + Bytes <= op.span[2]
    BY <1>1, SameChunk, Placement, ChunkFacts DEF InOp, Addr
  <1>4. ASSUME NEW a \in DOMAIN mem
        PROVE  /\ a \in Int
               /\ a \in x .. x + WordBytes - 1 => mem'[a] = Merged[a]
               /\ a \notin x .. x + WordBytes - 1 => mem'[a] = mem[a]
    <2>1. a \in Int  BY <1>2
    <2>2. ASSUME a \in x .. x + WordBytes - 1 PROVE mem'[a] = Merged[a]
      <3>1. a - x + 1 \in 1 .. WordBytes /\ x + (a - x + 1) - 1 = a
        BY <2>1, <2>2, WordSizes
      <3>2. Step.v[a - x + 1] = Merged[x + (a - x + 1) - 1]
        BY <1>1, <1>2, <3>1 DEF Carries
      <3>3. QED  BY <2>2, <3>1, <3>2
    <2>3. QED  BY <2>1, <2>2
  <1>5. ASSUME NEW a \in DOMAIN mem
        PROVE  /\ a \in Addr .. Addr + Bytes - 1 => Merged[a] = Data(a - op.span[1])
               /\ a \notin Addr .. Addr + Bytes - 1 => Merged[a] = mem[a]
    BY DEF Merged
  <1>6. ASSUME NEW a \in DOMAIN mem PROVE mem'[a] = mem[a] \/ mem'[a] = Merged[a]
    BY <1>4
  <1>7. Merged' = Merged
    <2>1. Merged' = [b \in DOMAIN mem |-> IF b \in Addr .. Addr + Bytes - 1
                                          THEN 100 * ops + (b - op.span[1]) ELSE mem'[b]]
      BY <1>2, <1>3 DEF Merged, Data
    <2>2. Merged = [b \in DOMAIN mem |-> IF b \in Addr .. Addr + Bytes - 1
                                         THEN 100 * ops + (b - op.span[1]) ELSE mem[b]]
      BY DEF Merged, Data
    <2>3. \A b \in DOMAIN mem : b \notin Addr .. Addr + Bytes - 1 => mem'[b] = mem[b]
      BY <1>5, <1>6
    <2>4. QED  BY <2>1, <2>2, <2>3
  <1>8. ASSUME NEW b \in DOMAIN mem', b < Nth(Base, Count + 3 - Lead(todo))
        PROVE  mem'[b] = Merged[b]
    <2>1. b \in DOMAIN mem /\ b \in Int  BY <1>2
    <2>2. CASE b < x
      <3>1. b \notin x .. x + WordBytes - 1  BY <2>1, <2>2
      <3>2. Sent = Count + 2 - Lead(todo) /\ Lead(todo) \in 2 .. Count + 2
        BY <1>1 DEF Sent
      <3>3. mem[b] = Merged[b]  BY <1>1, <2>1, <2>2, <3>2 DEF Stored
      <3>4. QED  BY <1>4, <2>1, <3>1, <3>3
    <2>3. CASE ~(b < x)
      <3>1. Count + 2 - Lead(todo) \in Nat /\ (Count + 2 - Lead(todo)) + 1 = Count + 3 - Lead(todo)
        BY <1>1
      <3>2. Nth(Base, Count + 3 - Lead(todo)) = x + WordBytes  BY <1>1, <3>1, Nths
      <3>3. b \in x .. x + WordBytes - 1  BY <1>8, <2>1, <2>3, <3>2, WordSizes
      <3>4. QED  BY <1>4, <2>1, <3>3
    <2>4. QED  BY <2>2, <2>3
  <1>9. Progress'
    <2>1. op.name = "write"  BY <1>1 DEF Stored
    <2> SUFFICES ASSUME NEW a \in DOMAIN mem
                 PROVE  /\ mem'[a] = mem0[a] \/ (InSpan(a, op.span) /\ mem'[a] = Data(a - op.span[1]))
                        /\ InSpan(a, op.span) /\ a - op.span[1] < pos /\ res \in {"Busy", "Ok"} =>
                             mem'[a] = Data(a - op.span[1])
      BY <1>2, <2>1 DEF Progress, Data
    <2>2. /\ mem[a] = mem0[a] \/ (InSpan(a, op.span) /\ mem[a] = Data(a - op.span[1]))
          /\ InSpan(a, op.span) /\ a - op.span[1] < pos /\ res \in {"Busy", "Ok"} =>
               mem[a] = Data(a - op.span[1])
      BY <2>1 DEF Progress
    <2>3. CASE a \in Addr .. Addr + Bytes - 1
      <3>1. Merged[a] = Data(a - op.span[1])  BY <1>5, <2>3
      <3>2. a \in Int  BY <1>4
      <3>3. InSpan(a, op.span) /\ ~(a - op.span[1] < pos)
        BY <1>3, <2>3, <3>2 DEF InSpan
      <3>4. QED  BY <1>6, <2>2, <3>1, <3>3
    <2>4. CASE a \notin Addr .. Addr + Bytes - 1
      <3>1. mem'[a] = mem[a]  BY <1>5, <1>6, <2>4
      <3>2. QED  BY <2>2, <3>1
    <2>5. QED  BY <2>3, <2>4
  <1>10. QED  BY <1>7, <1>8, <1>9

LEMMA WordSent ==
  ASSUME InChunk, Acknowledge, ~Fetching, Step.k = "ap", Step.r = "DRW", Step.w, Merged' = Merged,
         Live' => /\ Live /\ tar'[link] = NextTar(tar[link])
                  /\ \A b \in DOMAIN mem' :
                       b < Nth(Base, Count + 3 - Lead(todo)) => mem'[b] = Merged[b]
  PROVE  Placed' /\ Stored' /\ Lead(todo) > 1
  <1>1. /\ InOp /\ Count \in Nat /\ Count > 0 /\ Base \in Nat
        /\ Lead(todo) \in 3 .. Count + 2 /\ Stored /\ Placed
    BY WriteWordAt
  <1>2. Lead(todo) > 1  BY <1>1
  <1>3. /\ UNCHANGED <<op, pos, buf, res, link, ops, mem0>> /\ (csw_valid => csw_valid')
        /\ Count' = Count /\ Base' = Base /\ Words' = Words
        /\ Lead(todo') = Lead(todo) - 1
        /\ \A m : Loaded(todo, Count, Base, m) => Loaded(todo', Count', Base', m)
    BY <1>2, WordStep
  <1>4. Placed'
    <2>1. csw_valid'
      <3>1. Lead(todo) <= Count + 3  BY <1>1
      <3>2. QED  BY <1>1, <1>3, <3>1 DEF Placed
    <2>2. ASSUME Lead(todo') \in 3 .. Count + 2, Live'
          PROVE  tar'[link] = Nth(Base, Count + 2 - Lead(todo'))
      <3> DEFINE q == Count + 2 - Lead(todo)
      <3>1. q \in Nat /\ q + 1 < Count /\ q + 1 = Count + 2 - Lead(todo')
        BY <1>1, <1>3, <2>2
      <3>2. tar[link] = Nth(Base, q)  BY <1>1, <2>2 DEF Placed
      <3>3. NextTar(Nth(Base, q)) = Nth(Base, q + 1)  BY <1>1, <3>1, TarSteps
      <3>4. QED  BY <2>2, <3>1, <3>2, <3>3
    <2>3. QED  BY <1>3, <2>1, <2>2 DEF Placed
  <1>5. Stored'
    <2>1. op'.name = "write" /\ Loaded(todo', Count', Base', Merged')  BY <1>1, <1>3 DEF Stored
    <2>2. Lead(todo') # 1 /\ Sent' = Count + 3 - Lead(todo)
      <3>1. Lead(todo') # 1 /\ Lead(todo') <= Count + 2
            /\ Count + 2 - Lead(todo') = Count + 3 - Lead(todo)
        BY <1>1, <1>3
      <3>2. QED  BY <1>3, <3>1 DEF Sent
    <2>3. QED  BY <1>3, <2>1, <2>2 DEF Stored
  <1>6. QED  BY <1>2, <1>4, <1>5

LEMMA WriteMoved ==
  ASSUME InChunk, Progress, Acked, Step.k = "ap", Step.r = "DRW", Step.w PROVE Moved'
  <1>1. /\ OnWire /\ Accept /\ Acknowledge /\ link # Nobody /\ ~Barred
    BY DEF Acked
  <1>2. AccessWord  BY <1>1, AcceptDrw
  <1>3. UNCHANGED <<op, pos, buf, res, link, ops, mem0>>  BY <1>1 DEF Acknowledge
  <1>4. Live  BY <1>1 DEF Barred, Live
  <1>5. ~Fetching
    <2>1. Ap("TAR", Base).r = "TAR" /\ Ap("CSW", 0).r = "CSW"  BY DEF Ap
    <2>2. QED  BY <2>1, StepCases
  <1>6. /\ Count \in Nat /\ Base \in Nat /\ Lead(todo) \in 3 .. Count + 2 /\ Placed
    BY <1>5, WriteWordAt
  <1>7. link \in DPs /\ csw[link]
    <2>1. Lead(todo) <= Count + 3  BY <1>6
    <2>2. csw_valid  BY <1>6, <2>1 DEF Placed
    <2>3. QED  BY <1>1, <2>2, Selected
  <1> DEFINE x == Nth(Base, Count + 2 - Lead(todo))
  <1>8. tar[link] = x  BY <1>4, <1>6 DEF Placed
  <1>9. x \in Nat
    <2>1. Count + 2 - Lead(todo) \in Nat  BY <1>6
    <2>2. QED  BY <1>6, <2>1, Nths
  <1>10. mem' = [a \in DOMAIN mem |-> IF a \in x .. x + WordBytes - 1
                                      THEN Step.v[a - x + 1] ELSE mem[a]]
    BY <1>2, <1>7, <1>8 DEF AccessWord
  <1>11. /\ Merged' = Merged /\ Progress'
         /\ \A b \in DOMAIN mem' : b < Nth(Base, Count + 3 - Lead(todo)) => mem'[b] = Merged[b]
    BY <1>3, <1>4, <1>5, <1>9, <1>10, WordStored
  <1>12. tar'[link] = NextTar(tar[link])
    <2>1. tar' = [tar EXCEPT ![link] = NextTar(@)]  BY <1>2, <1>7 DEF AccessWord
    <2>2. DOMAIN tar = DPs  BY DEF InChunk, Access, MemKinds
    <2>3. QED  BY <1>7, <2>1, <2>2
  <1>13. Placed' /\ Stored' /\ Lead(todo) > 1
    BY <1>1, <1>4, <1>5, <1>11, <1>12, WordSent
  <1>14. QED  BY <1>1, <1>5, <1>11, <1>13, Advance

(* Reading RDBUFF: it answers only when no error is latched.               *)
LEMMA RdbuffMoved ==
  ASSUME InChunk, Progress, Acked, Step = DpRead("RDBUFF") PROVE Moved'
  <1>1. Step.k = "dp" /\ Step.r = "RDBUFF" /\ ~Step.w  BY DEF DpRead
  <1>2. /\ OnWire /\ Accept /\ Acknowledge /\ link # Nobody /\ ~Barred
    BY DEF Acked
  <1>3. tar' = tar /\ latch' = latch /\ mem' = mem  BY <1>1, <1>2, AcceptControl
  <1>4. Live  BY <1>1, <1>2 DEF Barred, Live
  <1>5. Lead(todo) = 2
    <2>1. Dp("SELECT", 0).r = "SELECT"  BY DEF Dp
    <2>2. QED  BY <1>1, <2>1, StepCases
  <1>6. Lead(todo) > 1  BY <1>5
  <1>7. /\ UNCHANGED <<op, pos, buf, res, link, ops, mem0>> /\ (csw_valid => csw_valid')
        /\ Count' = Count /\ Base' = Base /\ Words' = Words
        /\ Count \in Nat /\ Count > 0 /\ Base \in Nat
        /\ Lead(todo') = Lead(todo) - 1
        /\ \A m : Loaded(todo, Count, Base, m) => Loaded(todo', Count', Base', m)
        /\ got' = Append(got, latch[link])
    BY <1>1, <1>2, <1>6, WordStep
  <1>8. Lead(todo') = 1  BY <1>5, <1>7
  <1>9. Placed'
    <2>1. csw_valid  BY <1>5, <1>7 DEF InChunk, Working, Placed
    <2>2. ~(Lead(todo') \in 3 .. Count' + 2)  BY <1>8
    <2>3. QED  BY <1>7, <2>1, <2>2 DEF Placed
  <1>10. ASSUME Fetching PROVE Fetched'
    <2>1. Fetched  BY <1>10 DEF InChunk, Working
    <2>2. 2 \in 2 .. Count + 2  BY <1>7
    <2>3. /\ IsList(got') /\ Len(got') = Count + 3 - 2
          /\ Live => \A q \in 2 .. Len(got') : got'[q] = MemWord(mem, Nth(Base, q - 2))
      BY <1>5, <1>7, <2>1, <2>2, GotGrows
    <2>4. /\ Len(got') = Count + 1 /\ ~(1 >= Count + 2) /\ ~(1 >= 2) /\ ~(1 \in 2 .. Count + 1)
      BY <1>7, <2>3
    <2>5. op'.name = "write" => Words' = 0  BY <1>7, <2>1 DEF Fetched
    <2>6. QED  BY <1>3, <1>4, <1>7, <1>8, <2>3, <2>4, <2>5 DEF Fetched
  <1>11. ASSUME ~Fetching PROVE Stored'
    <2>1. Stored  BY <1>11 DEF InChunk, Working
    <2>2. Merged' = Merged  BY <1>3, <1>7, SameMerged
    <2>3. op'.name = "write" /\ Loaded(todo', Count', Base', Merged')
      BY <1>7, <2>1, <2>2 DEF Stored
    <2>4. Sent' = Count /\ Sent = Count
      <3>1. 2 <= Count + 2 /\ Count + 2 - 2 = Count  BY <1>7
      <3>2. QED  BY <1>5, <1>7, <1>8, <3>1 DEF Sent
    <2>5. Lead(todo) \in 2 .. Count + 2  BY <1>5, <1>7
    <2>6. QED  BY <1>3, <1>4, <1>7, <2>1, <2>2, <2>3, <2>4, <2>5 DEF Stored
  <1>12. Progress'  BY <1>3, <1>7, SameProgress
  <1>13. QED  BY <1>2, <1>6, <1>9, <1>10, <1>11, <1>12, Advance

LEMMA AckedMoved == ASSUME InChunk, Progress, Acked PROVE Moved'
  <1>1. Step.k = "dp" \/ Step.k = "ap"  BY DEF Acked, OnWire, At
  <1>2. CASE Step.k = "dp"
    <2>1. Step = Dp("SELECT", 0) \/ Step = DpRead("RDBUFF")  BY <1>2, StepCases
    <2>2. QED  BY <2>1, ControlMoved, RdbuffMoved
  <1>3. CASE Step.k = "ap"
    <2>1. Step.r = "DRW" \/ Step = Ap("TAR", Base) \/ Step = Ap("CSW", 0)  BY <1>3, StepCases
    <2>2. QED  BY <1>3, <2>1, ControlMoved, TarMoved, ReadMoved, WriteMoved
  <1>4. QED  BY <1>1, <1>2, <1>3

(* Acknowledged but not done: RDBUFF will not be answered.                 *)
LEMMA NotDoneMoved == ASSUME InChunk, Progress, AckedNotDone, stale' = {} PROVE Moved'
  <1>1. /\ OnWire /\ Acknowledge /\ link # Nobody /\ (Step.w \/ Step.r = "DRW")
        /\ sticky' = [sticky EXCEPT ![link] = TRUE] /\ mem' = mem
        /\ UNCHANGED <<op, pos, buf, res, link, ops, mem0>>
    BY DEF AckedNotDone, Acknowledge
  <1>2. Step.r \notin {"SELECT", "CSW"}  BY DEF AckedNotDone
  <1>3. ~Live'
    <2>1. link \in DPs /\ sticky \in [DPs -> BOOLEAN]
      BY <1>1 DEF InChunk, Access, CacheInv, Kinds, MemKinds
    <2>2. sticky'[link]  BY <1>1, <2>1
    <2>3. QED  BY <1>1, <2>2 DEF Live
  <1>4. Step = Ap("TAR", Base) \/ (Step.k = "ap" /\ Step.r = "DRW" /\ (Step.w <=> ~Fetching))
    <2>1. Dp("SELECT", 0).r = "SELECT" /\ ~DpRead("RDBUFF").w /\ DpRead("RDBUFF").r = "RDBUFF"
          /\ Ap("CSW", 0).r = "CSW"
      BY DEF Dp, DpRead, Ap
    <2>2. Step.k = "dp" \/ Step.k = "ap"  BY <1>1 DEF OnWire, At
    <2>3. QED  BY <1>1, <1>2, <2>1, <2>2, StepCases
  <1>5. Progress'  BY <1>1, SameProgress
  <1>6. Merged' = Merged  BY <1>1, SameMerged
  <1>7. CASE Step = Ap("TAR", Base)
    <2>1. Placed' /\ (Fetching => Fetched') /\ (~Fetching => Stored') /\ Lead(todo) > 1
      BY <1>1, <1>3, <1>7, NothingYet
    <2>2. QED  BY <1>1, <1>5, <2>1, Advance
  <1>8. CASE Step.k = "ap" /\ Step.r = "DRW" /\ Step.w /\ ~Fetching
    <2>1. Placed' /\ Stored' /\ Lead(todo) > 1  BY <1>1, <1>3, <1>6, <1>8, WordSent
    <2>2. QED  BY <1>1, <1>5, <1>8, <2>1, Advance
  <1>9. CASE Step.k = "ap" /\ Step.r = "DRW" /\ ~Step.w
    <2>1. Placed' /\ Fetching /\ Fetched' /\ Lead(todo) > 1  BY <1>1, <1>3, <1>9, WordRead
    <2>2. QED  BY <1>1, <1>5, <2>1, Advance
  <1>10. QED  BY <1>4, <1>7, <1>8, <1>9

(* What ends an operation, and the power.                                  *)
LEMMA FailMoved ==
  ASSUME Progress, NEW e, e \notin {"Busy", "Ok"}, Fail(e), mem' = mem PROVE Moved'
  <1>1. UNCHANGED <<op, pos, buf, ops, mem0>> /\ res' = e  BY DEF Fail, work
  <1>2. Progress'  BY <1>1, SameProgress
  <1>3. QED  BY <1>1, <1>2 DEF Moved

LEMMA PowerCycleMoved == ASSUME Moved, PowerCycle PROVE Moved'
  <1>1. /\ UNCHANGED <<op, pos, buf, got, todo, res, ops, mem0, mem, csw_valid>>
        /\ link' = Nobody
    BY DEF PowerCycle, caches, work, history
  <1>2. ~Live'  BY <1>1 DEF Live
  <1>3. Count' = Count /\ Base' = Base /\ Words' = Words  BY <1>1, SameChunk
  <1>4. Merged' = Merged  BY <1>1, SameMerged
  <1>5. Placed => Placed'  BY <1>1, <1>2, <1>3 DEF Placed
  <1>6. Fetched => Fetched'  BY <1>1, <1>2, <1>3 DEF Fetched
  <1>7. Sent' = Sent  BY <1>1, <1>3 DEF Sent
  <1>8. Stored => Stored'  BY <1>1, <1>2, <1>3, <1>4, <1>7 DEF Stored
  <1>9. Working => Working'  BY <1>1, <1>3, <1>5, <1>6, <1>8 DEF Working, Fetching
  <1>10. Progress => Progress'  BY <1>1, SameProgress
  <1>11. QED  BY <1>1, <1>9, <1>10 DEF Moved
-----------------------------------------------------------------------------
(* Chunk by chunk.                                                         *)
LEMMA WithinWords ==
  ASSUME NEW n \in Nat, NEW i \in Nat, i < n * WordBytes
  PROVE  /\ i \div WordBytes \in Nat /\ i % WordBytes \in Nat /\ i \div WordBytes < n
         /\ i % WordBytes < WordBytes
         /\ i = ((i \div WordBytes) * WordBytes) + (i % WordBytes)
  <1>1. /\ i \div WordBytes \in Nat /\ i % WordBytes \in Nat /\ i % WordBytes < WordBytes
        /\ i = ((i \div WordBytes) * WordBytes) + (i % WordBytes)
        /\ (i \div WordBytes) * WordBytes <= i
    BY WordSizes, DivMod
  <1>2. i \div WordBytes < n
    <2> SUFFICES ASSUME ~(i \div WordBytes < n) PROVE FALSE  OBVIOUS
    <2> PICK d : d = i \div WordBytes  OBVIOUS
    <2>1. d \in Nat /\ n <= d  BY <1>1
    <2>2. n * WordBytes <= d * WordBytes /\ n * WordBytes \in Nat /\ d * WordBytes \in Nat
      BY <2>1, WordSizes, Products
    <2>3. QED  BY <1>1, <2>2
  <1>3. QED  BY <1>1, <1>2

(* What the words read hold.                                               *)
LEMMA ReadsMemory ==
  ASSUME InChunk, Lead(todo) = 1, Fetching, NEW i \in Nat, i < Count * WordBytes
  PROVE  Read(i) = IF Base + i < MemBytes THEN mem[Base + i] ELSE 0
  <1>1. Count \in Nat /\ Count > 0 /\ Base \in Nat  BY InChunkFacts
  <1> DEFINE q == i \div WordBytes
             r == i % WordBytes
  <1>2. /\ q \in Nat /\ r \in Nat /\ q < Count /\ r < WordBytes /\ i = (q * WordBytes) + r
    BY <1>1, WithinWords
  <1>3. Read(i) = got[2 + q][1 + r]  BY DEF Read
  <1>4. Fetched  BY DEF InChunk, Working
  <1>5. Len(got) = Count + 1
    <2>1. ~(1 >= Count + 2) /\ ~(1 >= 2)  BY <1>1
    <2>2. QED  BY <1>4, <2>1 DEF Fetched
  <1> HIDE DEF q, r
  <1>6. 2 + q \in 2 .. Len(got) /\ (2 + q) - 2 = q  BY <1>1, <1>2, <1>5
  <1>7. got[2 + q] = MemWord(mem, Nth(Base, q))  BY <1>4, <1>6 DEF Fetched
  <1>8. 1 + r \in 1 .. WordBytes  BY <1>2, WordSizes
  <1>9. q * WordBytes \in Nat  BY <1>2, WordSizes, Products
  <1>10. Nth(Base, q) + (1 + r) - 1 = Base + i  BY <1>1, <1>2, <1>9 DEF Nth
  <1>11. MemWord(mem, Nth(Base, q))[1 + r]
           = IF Nth(Base, q) + (1 + r) - 1 < MemBytes THEN mem[Nth(Base, q) + (1 + r) - 1] ELSE 0
    BY <1>8 DEF MemWord
  <1>12. QED  BY <1>3, <1>7, <1>10, <1>11

LEMMA MadeJoin ==
  ASSUME NEW p \in Nat, NEW k \in Nat, NEW h,
         NEW s, s = [i \in 1 .. p |-> h[i]], NEW t, t = [i \in 1 .. k |-> h[p + i]]
  PROVE  s \o t = [i \in 1 .. p + k |-> h[i]]
  <1>1. IsList(s) /\ Len(s) = p
    <2>1. s = [i \in 1 .. p |-> s[i]]  OBVIOUS
    <2>2. QED  BY <2>1, MadeList
  <1>2. IsList(t) /\ Len(t) = k
    <2>1. t = [i \in 1 .. k |-> t[i]]  OBVIOUS
    <2>2. QED  BY <2>1, MadeList
  <1> DEFINE u == s \o t
  <1>3. /\ IsList(u) /\ Len(u) = p + k /\ \A i \in 1 .. p : u[i] = s[i]
        /\ \A i \in 1 .. k : u[p + i] = t[i]
    BY <1>1, <1>2, ListJoin
  <1> HIDE DEF u
  <1>4. ASSUME NEW i \in 1 .. p + k PROVE u[i] = h[i]
    <2>1. CASE i \in 1 .. p  BY <1>3, <2>1
    <2>2. CASE i \notin 1 .. p
      <3>1. i - p \in 1 .. k /\ p + (i - p) = i  BY <2>2
      <3>2. u[p + (i - p)] = t[i - p] /\ t[i - p] = h[p + (i - p)]  BY <1>3, <3>1
      <3>3. QED  BY <3>1, <3>2
    <2>3. QED  BY <2>1, <2>2
  <1>5. u = [i \in 1 .. p + k |-> u[i]]
    <2>1. u \in [1 .. p + k -> {u[i] : i \in 1 .. p + k}]
      BY <1>3, LenProperties DEF IsList
    <2>2. QED  BY <2>1
  <1>6. u = [i \in 1 .. p + k |-> h[i]]  BY <1>4, <1>5
  <1>7. QED  BY <1>6 DEF u

LEMMA TakenMoved ==
  ASSUME InChunk, Progress, TakeChunk, op.name = "read" PROVE Moved'
  <1>1. /\ At("take") /\ got' = <<>> /\ pos' = pos + Bytes /\ todo' = Tail(todo)
        /\ buf' = buf \o [i \in 1 .. Bytes |-> Read(Skew + i - 1)]
        /\ UNCHANGED <<mem, op, res, ops, mem0>>
    BY DEF TakeChunk, target, history
  <1>2. Step = Take /\ Lead(todo) = 1 /\ Fetching
    <2>1. Step.k = "take" /\ Done.k = "done"  BY <1>1 DEF At, Done
    <2>2. QED  BY <2>1, StepCases DEF Fetching
  <1>3. /\ InOp /\ Count \in Nat /\ Count > 0 /\ IsList(todo) /\ IsChunk(todo, Count, Base)
        /\ Step = todo[1]
    BY InChunkFacts
  <1>4. todo' = <<>>
    <2>1. Take.r # "SELECT"  BY DEF Take
    <2>2. QED  BY <1>1, <1>2, <1>3, <2>1, ChunkEnds
  <1>5. /\ Addr \in Nat /\ Skew \in Nat /\ Base \in Nat /\ Base + Skew = Addr
        /\ Bytes \in Nat /\ pos + Bytes <= op.span[2] /\ Skew + Bytes <= Count * WordBytes
        /\ Count * WordBytes \in Nat /\ Addr = op.span[1] + pos
    BY <1>3, Placement, ChunkFacts DEF Addr
  <1>6. /\ pos \in Nat /\ op.span[1] \in Nat /\ op.span[2] \in Nat
        /\ op.span[1] + op.span[2] <= MemBytes
    BY SpanFacts DEF InChunk
  <1> DEFINE h == [i \in 1 .. pos + Bytes |-> mem[op.span[1] + i - 1]]
             t == [i \in 1 .. Bytes |-> Read(Skew + i - 1)]
  <1>7. ASSUME NEW i \in 1 .. Bytes PROVE Read(Skew + i - 1) = mem[op.span[1] + (pos + i) - 1]
    <2>1. Skew + i - 1 \in Nat /\ Skew + i - 1 < Count * WordBytes  BY <1>5
    <2>2. Base + (Skew + i - 1) = op.span[1] + (pos + i) - 1
          /\ op.span[1] + (pos + i) - 1 < MemBytes
      BY <1>5, <1>6, WordSizes
    <2>3. QED  BY <1>2, <2>1, <2>2, ReadsMemory
  <1>8. ASSUME NEW i \in 1 .. Bytes PROVE Read(Skew + i - 1) = h[pos + i]
    <2>1. pos + i \in 1 .. pos + Bytes  BY <1>5, <1>6
    <2>2. QED  BY <1>7, <2>1
  <1>9. t = [i \in 1 .. Bytes |-> h[pos + i]]  BY <1>8
  <1>10. buf = [i \in 1 .. pos |-> h[i]]
    <2>1. buf = [i \in 1 .. pos |-> mem[op.span[1] + i - 1]]  BY DEF Progress
    <2>2. \A i \in 1 .. pos : i \in 1 .. pos + Bytes  BY <1>5, <1>6
    <2>3. QED  BY <2>1, <2>2
  <1>11. buf \o t = [i \in 1 .. pos + Bytes |-> h[i]]
    <2> HIDE DEF h, t
    <2>1. QED  BY SMTT(30), <1>5, <1>6, <1>9, <1>10, MadeJoin
  <1>12. buf' = [i \in 1 .. pos' |-> mem[op.span[1] + i - 1]]  BY <1>1, <1>11
  <1>13. Progress'
    <2>1. op'.name # "write"  BY <1>1
    <2>2. QED  BY <1>1, <1>12, <2>1 DEF Progress
  <1>14. res' = "Busy"  BY <1>1 DEF InChunk
  <1>15. QED  BY <1>1, <1>4, <1>13, <1>14 DEF Moved, Working

LEMMA MergedMoved ==
  ASSUME InChunk, Progress, TakeChunk, op.name # "read" PROVE Moved'
  <1> DEFINE w == [j \in 1 .. WordBytes |->
                     IF j - 1 \in Skew .. Skew + Bytes - 1
                     THEN Data(pos + j - 1 - Skew) ELSE Read(j - 1)]
  <1>1. /\ At("take") /\ got' = <<>> /\ UNCHANGED <<buf, pos, mem, op, res, ops, mem0>>
        /\ todo' = Append(WriteWords(Addr - Skew, <<w>>), Done) \o Tail(todo)
    BY DEF TakeChunk, target, history
  <1>2. Step = Take /\ Lead(todo) = 1 /\ Fetching
    <2>1. Step.k = "take" /\ Done.k = "done"  BY <1>1 DEF At, Done
    <2>2. QED  BY <2>1, StepCases DEF Fetching
  <1>3. /\ InOp /\ Count \in Nat /\ Count > 0 /\ IsList(todo) /\ IsChunk(todo, Count, Base)
        /\ Step = todo[1] /\ Base \in Nat
    BY InChunkFacts
  <1>4. op.name = "write"  BY DEF InChunk, Access, InMemory
  <1>5. Words = 0 /\ Count = 1
    <2>1. Words = 0  BY <1>2, <1>4 DEF InChunk, Working, Fetched
    <2>2. QED  BY <1>3, <2>1, OneWord
  <1>6. /\ Addr \in Nat /\ Skew \in Nat /\ Base \in Nat /\ Base + Skew = Addr /\ Bytes \in Nat
        /\ Addr = op.span[1] + pos /\ op.span[1] \in Nat /\ pos \in Nat
    BY <1>3, Placement, ChunkFacts DEF Addr, InOp
  <1>7. 1 * WordBytes = WordBytes  BY WordSizes
  <1>8. Carries(w, Base, Merged)
    <2> SUFFICES ASSUME NEW j \in 1 .. WordBytes, Base + j - 1 \in DOMAIN Merged
                 PROVE  w[j] = Merged[Base + j - 1]
      BY DEF Carries
    <2>1. DOMAIN Merged = DOMAIN mem /\ DOMAIN mem = 0 .. MemBytes - 1
      BY DEF Merged, InChunk, Access, MemKinds
    <2> PICK b : b = Base + j - 1  OBVIOUS
    <2>2. CASE j - 1 \in Skew .. Skew + Bytes - 1
      <3>1. j \in Nat /\ j - 1 >= Skew /\ j - 1 <= Skew + Bytes - 1
        BY <1>6, <2>2, WordSizes
      <3>2. b \in Addr .. Addr + Bytes - 1  BY <1>6, <3>1
      <3>3. b - op.span[1] = pos + j - 1 - Skew  BY <1>6, <3>1
      <3>4. Merged[b] = Data(b - op.span[1])  BY <2>1, <3>2 DEF Merged
      <3>5. w[j] = Data(b - op.span[1])  BY <2>2, <3>3
      <3>6. QED  BY <3>4, <3>5
    <2>3. CASE j - 1 \notin Skew .. Skew + Bytes - 1
      <3>1. b \notin Addr .. Addr + Bytes - 1  BY <1>6, <2>3, WordSizes
      <3>2. Merged[b] = mem[b]  BY <2>1, <3>1 DEF Merged
      <3>3. /\ j - 1 \in Nat /\ j - 1 < Count * WordBytes /\ Base + (j - 1) = b /\ b < MemBytes
        BY <1>5, <1>6, <1>7, <2>1, WordSizes
      <3>4. Read(j - 1) = mem[b]  BY <1>2, <3>3, ReadsMemory
      <3>5. QED  BY <2>3, <3>2, <3>4
    <2>4. QED  BY <2>2, <2>3
  <1> HIDE DEF w
  <1>9. todo' = Append(WriteWords(Base, <<w>>), Done)
    <2>1. Take.r # "SELECT"  BY DEF Take
    <2>2. Tail(todo) = <<>>  BY <1>2, <1>3, <2>1, ChunkEnds
    <2>3. IsList(Append(WriteWords(Base, <<w>>), Done))
      <3>1. Len(<<w>>) \in Nat  OBVIOUS
      <3>2. QED  BY <3>1, WriteDone DEF Quiet
    <2>4. Append(WriteWords(Base, <<w>>), Done) \o <<>> = Append(WriteWords(Base, <<w>>), Done)
      BY <2>3, ConcatEmptySeq DEF IsList
    <2>5. QED  BY <1>1, <2>2, <2>4 DEF Base
  <1>10. /\ IsChunk(todo', 1, Base) /\ Lead(todo') = 1 + 4 /\ todo' # <<>>
         /\ todo'[Len(todo')] = Done /\ Loaded(todo', 1, Base, Merged)
    <2>1. Len(<<w>>) = 1 /\ <<w>>[1] = w  OBVIOUS
    <2>2. \A i \in 1 .. 1 : Carries(<<w>>[i], Nth(Base, i - 1), Merged)
      <3>1. Nth(Base, 0) = Base  BY <1>6, Nths
      <3>2. \A i \in 1 .. 1 : i = 1 /\ i - 1 = 0  OBVIOUS
      <3>3. QED  BY <1>8, <2>1, <3>1, <3>2
    <2>3. Sends(<<w>>, 1, Base, Merged)  BY <2>1, <2>2 DEF Sends
    <2>4. 1 \in Nat /\ 1 > 0  OBVIOUS
    <2>5. QED  BY <1>9, <2>3, <2>4, WriteChunk
  <1>11. Count' = 1 /\ Base' = Base  BY <1>1, <1>5, SameChunk
  <1>12. Merged' = Merged  BY <1>1, SameMerged
  <1>13. Placed'
    <2>1. ~(Lead(todo') <= 1 + 3) /\ ~(Lead(todo') \in 3 .. 1 + 2)  BY <1>10
    <2>2. QED  BY <1>11, <2>1 DEF Placed
  <1>14. Stored'
    <2>1. ~(Lead(todo') = 1) /\ ~(Lead(todo') \in 2 .. 1 + 2)  BY <1>10
    <2>2. QED  BY <1>1, <1>4, <1>10, <1>11, <1>12, <2>1 DEF Stored
  <1>15. ~Fetching'
    <2>1. Done.k = "done" /\ Take.k = "take"  BY DEF Done, Take
    <2>2. QED  BY <1>10, <2>1 DEF Fetching
  <1>16. pos' < op'.span[2]  BY <1>1 DEF InChunk, Working
  <1>17. Working'  BY <1>10, <1>11, <1>13, <1>14, <1>15, <1>16 DEF Working
  <1>18. Progress'  BY <1>1, SameProgress
  <1>19. QED  BY <1>1, <1>10, <1>17, <1>18 DEF Moved, InChunk

LEMMA WrittenMoved == ASSUME InChunk, Progress, ChunkWritten PROVE Moved'
  <1>1. /\ At("done") /\ got' = <<>> /\ pos' = pos + Bytes /\ todo' = Tail(todo)
        /\ UNCHANGED <<buf, mem, op, res, ops, mem0>>
    BY DEF ChunkWritten, target, history
  <1>2. Step = Done /\ Lead(todo) = 1 /\ ~Fetching
    <2>1. Step.k = "done" /\ Take.k = "take"  BY <1>1 DEF At, Take
    <2>2. QED  BY <2>1, StepCases DEF Fetching
  <1>3. /\ InOp /\ Count \in Nat /\ Count > 0 /\ IsList(todo) /\ IsChunk(todo, Count, Base)
        /\ Step = todo[1]
    BY InChunkFacts
  <1>4. todo' = <<>>
    <2>1. Done.r # "SELECT"  BY DEF Done
    <2>2. QED  BY <1>1, <1>2, <1>3, <2>1, ChunkEnds
  <1>5. /\ Base \in Nat /\ Base <= Addr /\ Addr + Bytes <= Nth(Base, Count) /\ Bytes \in Nat
        /\ Addr = op.span[1] + pos /\ Addr \in Nat /\ op.span[1] \in Nat /\ pos \in Nat
        /\ Nth(Base, Count) \in Nat
    BY <1>3, ChunkEnd, ChunkFacts, Nths DEF Addr, InOp
  <1>6. op.name = "write" /\ \A b \in DOMAIN mem : b < Nth(Base, Count) => mem[b] = Merged[b]
    BY <1>2 DEF InChunk, Working, Stored, Sent
  <1>7. DOMAIN mem = 0 .. MemBytes - 1 /\ DOMAIN Merged = DOMAIN mem
    BY DEF Merged, InChunk, Access, MemKinds
  <1>8. ASSUME NEW a \in DOMAIN mem, InSpan(a, op.span), a - op.span[1] < pos + Bytes
        PROVE  mem[a] = Data(a - op.span[1])
    <2>1. a \in Nat /\ a >= op.span[1] /\ a < Addr + Bytes
      <3>1. MemBytes \in Nat  BY WordSizes
      <3>2. a \in Nat  BY <1>7, <3>1
      <3>3. a >= op.span[1]  BY <1>8 DEF InSpan
      <3>4. a < Addr + Bytes  BY <1>5, <1>8, <3>2
      <3>5. QED  BY <3>2, <3>3, <3>4
    <2>2. CASE a < Addr
      <3>1. a - op.span[1] < pos  BY <1>5, <2>1, <2>2
      <3>2. QED  BY <1>6, <1>8, <3>1 DEF Progress, InChunk
    <2>3. CASE ~(a < Addr)
      <3>1. a \in Addr .. Addr + Bytes - 1 /\ a < Nth(Base, Count)  BY <1>5, <2>1, <2>3
      <3>2. Merged[a] = Data(a - op.span[1])  BY <3>1 DEF Merged
      <3>3. QED  BY <1>6, <3>1, <3>2
    <2>4. QED  BY <2>2, <2>3
  <1>9. Progress'
    <2>1. op'.name = "write" /\ op'.name # "read"  BY <1>1, <1>6
    <2>2. QED  BY <1>1, <1>6, <1>8, <2>1 DEF Progress, Data
  <1>10. QED  BY <1>1, <1>4, <1>9 DEF Moved, Working, InChunk
-----------------------------------------------------------------------------
(* The next chunk, the end and the beginning.                              *)
LEMMA ByteSent ==
  ASSUME NEW s \in Nat, NEW p \in Nat, NEW a, a = s + p, NEW d \in Nat, NEW w \in Nat,
         NEW n \in Nat, d + w <= n, NEW j \in 1 .. w, NEW b, b = a + d + j - 1
  PROVE  b \in a .. a + n - 1 /\ b - s = p + d + j - 1
  OBVIOUS

LEMMA ChunkSent ==
  ASSUME InOp, Words # 0, DOMAIN mem = 0 .. MemBytes - 1,
         NEW ws, ws = [i \in 1 .. Words |-> [j \in 1 .. WordBytes |->
                                               Data(pos + (i - 1) * WordBytes + j - 1)]]
  PROVE  Sends(ws, Count, Base, Merged)
  <1>1. /\ Words \in Nat /\ Words > 0 /\ Base = Addr /\ Bytes = Words * WordBytes
        /\ Bytes \in Nat /\ Count = Words
    BY WordsFit
  <1>2. /\ Addr \in Nat /\ Addr = op.span[1] + pos /\ op.span[1] \in Nat /\ pos \in Nat
    BY Placement DEF Addr, InOp
  <1>3. DOMAIN Merged = DOMAIN mem  BY DEF Merged
  <1>4. Len(ws) = Count
    <2>1. ws = [i \in 1 .. Words |-> ws[i]]  OBVIOUS
    <2>2. QED  BY <1>1, <2>1, MadeList
  <1>5. ASSUME NEW i \in 1 .. Count PROVE Carries(ws[i], Nth(Base, i - 1), Merged)
    <2> SUFFICES ASSUME NEW j \in 1 .. WordBytes, Nth(Base, i - 1) + j - 1 \in DOMAIN Merged
                 PROVE  ws[i][j] = Merged[Nth(Base, i - 1) + j - 1]
      BY DEF Carries
    <2>8. PICK d : d = (i - 1) * WordBytes  OBVIOUS
    <2>9. PICK b : b = Nth(Base, i - 1) + j - 1  OBVIOUS
    <2>1. i - 1 \in Nat /\ i - 1 < Words /\ i \in 1 .. Words  BY <1>1
    <2>2. d \in Nat /\ d + WordBytes <= Bytes  BY <1>1, <2>1, <2>8, WordSizes, Products
    <2>3. ws[i][j] = Data(pos + d + j - 1)  BY <2>1, <2>8
    <2>4. b = Addr + d + j - 1  BY <1>1, <2>8, <2>9 DEF Nth
    <2>5. /\ b \in Addr .. Addr + Bytes - 1 /\ b - op.span[1] = pos + d + j - 1
      <3>1. Bytes \in Nat /\ WordBytes \in Nat  BY <1>1, WordSizes
      <3>2. PICK s \in Nat : s = op.span[1]  BY <1>2
      <3>3. PICK p \in Nat : p = pos  BY <1>2
      <3>4. PICK a : a = Addr  OBVIOUS
      <3>5. PICK n \in Nat : n = Bytes  BY <3>1
      <3>6. a = s + p /\ d \in Nat /\ d + WordBytes <= n /\ b = a + d + j - 1
        BY <1>2, <2>2, <2>4, <3>2, <3>3, <3>4, <3>5
      <3>7. b \in a .. a + n - 1 /\ b - s = p + d + j - 1
        BY <3>1, <3>6, ByteSent
      <3>8. QED  BY <3>2, <3>3, <3>4, <3>5, <3>7
    <2>6. Merged[b] = Data(b - op.span[1])
      <3>1. b \in DOMAIN mem  BY <1>3, <2>9
      <3>2. QED  BY <2>5, <3>1 DEF Merged
    <2>7. QED  BY <2>3, <2>5, <2>6, <2>9
  <1>6. QED  BY <1>4, <1>5 DEF Sends

LEMMA NextChunkMoved == ASSUME Access, Moved, NextChunk PROVE Moved'
  <1>1. /\ res = "Busy" /\ todo = <<>> /\ Remaining > 0 /\ got = <<>> /\ Progress
        /\ UNCHANGED <<op, pos, buf, got, mem, res, ops, mem0>>
    BY DEF NextChunk, Moved, target, work, history
  <1>2. InOp
    <2>1. pos \in Nat /\ op.span[1] \in Nat /\ op.span[2] \in Nat  BY SpanFacts
    <2>2. QED  BY <1>1, <2>1 DEF Remaining, InOp
  <1>3. Count \in Nat /\ Count > 0 /\ Words \in Nat /\ Base \in Nat
    BY <1>2, ChunkFacts, Placement
  <1>4. Count' = Count /\ Base' = Base /\ Words' = Words  BY <1>1, SameChunk
  <1>5. Merged' = Merged  BY <1>1, SameMerged
  <1>6. Progress'  BY <1>1, SameProgress
  <1>7. pos' < op'.span[2]  BY <1>1, <1>2 DEF InOp
  <1>8. ASSUME Lead(todo') = Count + 4
        PROVE  /\ ~(Lead(todo') <= Count + 3) /\ ~(Lead(todo') \in 3 .. Count + 2)
               /\ ~(Lead(todo') = 1) /\ ~(Lead(todo') \in 2 .. Count + 2)
               /\ ~(Lead(todo') \in 2 .. Count + 1) /\ Lead(todo') >= Count + 2
    BY <1>3, <1>8
  <1>9. CASE op.name = "write" /\ Words > 0
    <2> PICK ws : ws = [i \in 1 .. Words |-> [j \in 1 .. WordBytes |->
                                               Data(pos + (i - 1) * WordBytes + j - 1)]]
      OBVIOUS
    <2>1. DOMAIN mem = 0 .. MemBytes - 1 /\ Words # 0  BY <1>9 DEF Access, MemKinds
    <2>2. Sends(ws, Count, Base, Merged)  BY <1>2, <2>1, ChunkSent
    <2>3. todo' = Append(WriteWords(Base, ws), Done)
      <3>1. todo' = Append(WriteWords(Addr, ws), Done)  BY <1>9 DEF NextChunk
      <3>2. QED  BY <1>2, <2>1, <3>1, WordsFit
    <2>4. /\ IsChunk(todo', Count, Base) /\ Lead(todo') = Count + 4 /\ todo' # <<>>
          /\ todo'[Len(todo')] = Done /\ Loaded(todo', Count, Base, Merged)
      BY <1>3, <2>2, <2>3, WriteChunk
    <2>5. ~Fetching'
      <3>1. Done.k = "done" /\ Take.k = "take"  BY DEF Done, Take
      <3>2. QED  BY <2>4, <3>1 DEF Fetching
    <2>6. Placed'  BY <1>4, <1>8, <2>4 DEF Placed
    <2>7. Stored'  BY <1>1, <1>4, <1>5, <1>8, <1>9, <2>4 DEF Stored
    <2>8. Working'  BY <1>4, <1>7, <2>4, <2>5, <2>6, <2>7 DEF Working
    <2>9. QED  BY <1>1, <1>6, <2>4, <2>8 DEF Moved
  <1>10. CASE ~(op.name = "write" /\ Words > 0)
    <2>1. todo' = Append(ReadWords(Base, Count), Take)  BY <1>10 DEF NextChunk, Base, Count
    <2>2. /\ IsChunk(todo', Count, Base) /\ Lead(todo') = Count + 4 /\ todo' # <<>>
          /\ todo'[Len(todo')] = Take
      BY <1>3, <2>1, ReadChunk
    <2>3. Fetching'  BY <2>2 DEF Fetching
    <2>4. Placed'  BY <1>4, <1>8, <2>2 DEF Placed
    <2>5. Fetched'
      <3>1. op'.name = "write" => Words' = 0  BY <1>1, <1>3, <1>4, <1>10
      <3>2. IsList(got') /\ Len(got') = 0  BY <1>1, ListNone
      <3>3. QED  BY <1>4, <1>8, <2>2, <3>1, <3>2 DEF Fetched
    <2>6. Working'  BY <1>4, <1>7, <2>2, <2>3, <2>4, <2>5 DEF Working
    <2>7. QED  BY <1>1, <1>6, <2>2, <2>6 DEF Moved
  <1>11. QED  BY <1>9, <1>10

LEMMA FinishMoved == ASSUME Access, Moved, Finish PROVE Moved'
  <1>1. /\ res = "Busy" /\ res' = "Ok" /\ Remaining = 0 /\ Progress
        /\ UNCHANGED <<op, pos, buf, mem, ops, mem0>>
    BY DEF Finish, Moved, Access, target, work
  <1>2. pos \in Nat /\ op.span[2] \in Nat  BY SpanFacts
  <1>3. pos = op.span[2]  BY <1>1, <1>2 DEF Remaining
  <1>4. Progress'  BY <1>1, SameProgress
  <1>5. QED  BY <1>1, <1>3, <1>4 DEF Moved

LEMMA RequestMoved ==
  ASSUME Kinds, DOMAIN mem = 0 .. MemBytes - 1, NEW o \in Operations, Request(o), InMemory'
  PROVE  Moved'
  <1>1. /\ op' = o /\ todo' = Prog(o) /\ pos' = 0 /\ buf' = <<>> /\ got' = <<>>
        /\ res' = "Busy" /\ mem0' = mem /\ mem' = mem
    BY DEF Request, target
  <1>2. o.name \in {"read", "write"}  BY <1>1 DEF InMemory
  <1>3. todo' = <<>>  BY <1>1, <1>2 DEF Prog
  <1>4. o.span[1] \in Nat /\ o.span[2] \in Nat
    <2>1. Kinds'  BY RequestKinds
    <2>2. QED  BY <1>1, <2>1 DEF Kinds
  <1>5. Progress'
    <2>1. buf' = [i \in 1 .. pos' |-> mem'[op'.span[1] + i - 1]]  BY <1>1
    <2>2. ASSUME NEW a \in DOMAIN mem, InSpan(a, o.span), a - o.span[1] < 0 PROVE FALSE
      <3>1. a \in Int  BY <2>2, WordSizes
      <3>2. QED  BY <1>4, <2>2, <3>1 DEF InSpan
    <2>3. QED  BY <1>1, <2>1, <2>2 DEF Progress
  <1>6. QED  BY <1>1, <1>3, <1>5 DEF Moved, Working
-----------------------------------------------------------------------------
(* Every operation leaves the MEM-AP selected, unless an error cuts it     *)
(* short. What the steps ahead say of it are those that select an AP and   *)
(* those that give up.                                                     *)
CtrlOp == op.name \in {"approtect", "erase_all"}
ReturnsHome == CtrlOp \/ (op.name = "connect" /\ family = "nrf")

Marked(s) == s.r = "apsel" \/ s.k = "fail"
Fails(s) == \E j \in 1 .. Len(s) : s[j].k = "fail"
OnlyHome(s) == \A j \in 1 .. Len(s) : s[j].r = "apsel" => s[j].v = MemAp
HomeAfter(s, j) == \E i \in 1 .. Len(s) : i > j /\ s[i].r = "apsel" /\ s[i].v = MemAp
Home(a, s) ==
  /\ a # MemAp => HomeAfter(s, 0)
  /\ \A j \in 1 .. Len(s) : s[j].r = "apsel" /\ s[j].v # MemAp => HomeAfter(s, j)
  /\ \A i, j \in 1 .. Len(s) : s[i].k = "fail" /\ s[j].r = "apsel" => j < i

Settled ==
  /\ res = "Busy" /\ ReturnsHome /\ (op.name = "connect" => ~Fails(todo)) => Home(apsel, todo)
  /\ res = "Busy" /\ ~CtrlOp => OnlyHome(todo)
  /\ "apsel" \notin stale /\ ~(res = "Busy" /\ CtrlOp) => apsel = MemAp

(* The marked steps of two lists are the same, so far apart.               *)
Apart(t, s, d) ==
  /\ \A j \in 1 .. Len(t) : Marked(t[j]) => j + d \in 1 .. Len(s) /\ s[j + d] = t[j]
  /\ \A j \in 1 .. Len(s) : Marked(s[j]) => j - d \in 1 .. Len(t) /\ t[j - d] = s[j]
SameMarks(t, s) == \E d \in Int : Apart(t, s, d)


LEMMA HomeApart ==
  ASSUME NEW s, NEW t, Len(s) \in Nat, Len(t) \in Nat, NEW d \in Int, Apart(t, s, d), NEW a
  PROVE  /\ Home(a, s) => Home(a, t)
         /\ OnlyHome(s) => OnlyHome(t)
         /\ Fails(s) => Fails(t)
  <1>1. ASSUME NEW j \in 1 .. Len(t), Marked(t[j])
        PROVE  j + d \in 1 .. Len(s) /\ s[j + d] = t[j]
    BY <1>1 DEF Apart
  <1>2. ASSUME NEW j \in 1 .. Len(s), Marked(s[j])
        PROVE  j - d \in 1 .. Len(t) /\ t[j - d] = s[j]
    BY <1>2 DEF Apart
  <1>3. ASSUME NEW i \in 1 .. Len(s), s[i].r = "apsel", s[i].v = MemAp,
               NEW j \in 0 .. Len(t), i > j + d
        PROVE  HomeAfter(t, j)
    <2>1. i - d \in 1 .. Len(t) /\ t[i - d] = s[i]  BY <1>2, <1>3 DEF Marked
    <2>2. i - d > j  BY <1>3
    <2>3. QED  BY <1>3, <2>1, <2>2 DEF HomeAfter
  <1>4. ASSUME Home(a, s) PROVE Home(a, t)
    <2>1. ASSUME a # MemAp PROVE HomeAfter(t, 0)
      <3>1. PICK i \in 1 .. Len(s) : i > 0 /\ s[i].r = "apsel" /\ s[i].v = MemAp
        BY <1>4, <2>1 DEF Home, HomeAfter
      <3>2. i - d \in 1 .. Len(t) /\ t[i - d] = s[i]  BY <1>2, <3>1 DEF Marked
      <3>3. i - d > 0  BY <3>2
      <3>4. QED  BY <3>1, <3>2, <3>3 DEF HomeAfter
    <2>2. ASSUME NEW j \in 1 .. Len(t), t[j].r = "apsel", t[j].v # MemAp PROVE HomeAfter(t, j)
      <3>1. j + d \in 1 .. Len(s) /\ s[j + d] = t[j]  BY <1>1, <2>2 DEF Marked
      <3>2. PICK i \in 1 .. Len(s) : i > j + d /\ s[i].r = "apsel" /\ s[i].v = MemAp
        BY <1>4, <2>2, <3>1 DEF Home, HomeAfter
      <3>3. j \in 0 .. Len(t)  OBVIOUS
      <3>4. QED  BY <1>3, <3>2, <3>3
    <2>3. ASSUME NEW i \in 1 .. Len(t), NEW j \in 1 .. Len(t), t[i].k = "fail", t[j].r = "apsel"
          PROVE  j < i
      <3>1. /\ i + d \in 1 .. Len(s) /\ s[i + d] = t[i]
            /\ j + d \in 1 .. Len(s) /\ s[j + d] = t[j]
        BY <1>1, <2>3 DEF Marked
      <3>2. j + d < i + d  BY <1>4, <2>3, <3>1 DEF Home
      <3>3. QED  BY <3>2
    <2>4. QED  BY <2>1, <2>2, <2>3 DEF Home
  <1>5. OnlyHome(s) => OnlyHome(t)  BY <1>1 DEF OnlyHome, Marked
  <1>6. Fails(s) => Fails(t)  BY <1>2 DEF Fails, Marked
  <1>7. QED  BY <1>4, <1>5, <1>6

LEMMA TailMarks ==
  ASSUME NEW s, IsList(s), s # <<>>, ~Marked(s[1])
  PROVE  SameMarks(Tail(s), s)
  <1> DEFINE t == Tail(s)
  <1>1. /\ Len(t) = Len(s) - 1 /\ Len(s) \in Nat /\ Len(s) >= 1
        /\ \A i \in 1 .. Len(s) - 1 : t[i] = s[i + 1]
    BY ListTail
  <1> HIDE DEF t
  <1>2. ASSUME NEW j \in 1 .. Len(t) PROVE j + 1 \in 1 .. Len(s) /\ s[j + 1] = t[j]
    <2>1. j \in 1 .. Len(s) - 1  BY <1>1
    <2>2. QED  BY <1>1, <2>1
  <1>3. ASSUME NEW j \in 1 .. Len(s), Marked(s[j]) PROVE j - 1 \in 1 .. Len(t) /\ t[j - 1] = s[j]
    <2>1. j # 1  BY <1>3
    <2>2. j - 1 \in 1 .. Len(s) - 1 /\ (j - 1) + 1 = j  BY <1>1, <2>1
    <2>3. QED  BY <1>1, <2>2
  <1>4. Apart(t, s, 1)  BY <1>2, <1>3 DEF Apart
  <1>5. QED  BY <1>4 DEF SameMarks, t

LEMMA PutMarks ==
  ASSUME NEW s, NEW t, IsList(s), Quiet(t)
  PROVE  SameMarks(t \o s, s)
  <1> DEFINE u == t \o s
             n == Len(t)
  <1>1. /\ Len(u) = n + Len(s) /\ Len(s) \in Nat /\ n \in Nat
        /\ \A i \in 1 .. n : u[i] = t[i]
        /\ \A i \in 1 .. Len(s) : u[n + i] = s[i]
        /\ \A i \in n + 1 .. n + Len(s) : u[i] = s[i - n]
    BY ListJoin DEF Quiet
  <1>2. \A i \in 1 .. n : ~Marked(t[i])  BY DEF Quiet, QuietStep, Marked
  <1> HIDE DEF u, n
  <1>3. ASSUME NEW j \in 1 .. Len(u), Marked(u[j])
        PROVE  j + (0 - n) \in 1 .. Len(s) /\ s[j + (0 - n)] = u[j]
    <2>1. j \notin 1 .. n  BY <1>1, <1>2, <1>3
    <2>2. j \in n + 1 .. n + Len(s) /\ j - n \in 1 .. Len(s) /\ j + (0 - n) = j - n
      BY <1>1, <2>1
    <2>3. QED  BY <1>1, <2>2
  <1>4. ASSUME NEW j \in 1 .. Len(s)
        PROVE  j - (0 - n) \in 1 .. Len(u) /\ u[j - (0 - n)] = s[j]
    <2>1. j - (0 - n) = n + j /\ n + j \in 1 .. Len(u)  BY <1>1
    <2>2. QED  BY <1>1, <2>1
  <1>5. Apart(u, s, 0 - n) /\ 0 - n \in Int  BY <1>1, <1>3, <1>4 DEF Apart
  <1>6. QED  BY <1>5 DEF SameMarks, u
LEMMA SettledKept ==
  ASSUME Settled, UNCHANGED <<op, res, family, apsel>>, "apsel" \notin stale' => "apsel" \notin stale,
         IsList(todo), IsList(todo'), SameMarks(todo', todo)
  PROVE  Settled'
  <1>1. PICK d \in Int : Apart(todo', todo, d)  BY DEF SameMarks
  <1>2. Len(todo) \in Nat /\ Len(todo') \in Nat
    <2>1. \A x : IsList(x) => Len(x) \in Nat  BY ListAppend
    <2>2. QED  BY <2>1
  <1>3. /\ Home(apsel, todo) => Home(apsel, todo')
        /\ OnlyHome(todo) => OnlyHome(todo')
        /\ Fails(todo) => Fails(todo')
    BY <1>1, <1>2, HomeApart
  <1>4. (CtrlOp' <=> CtrlOp) /\ (ReturnsHome' <=> ReturnsHome)  BY DEF CtrlOp, ReturnsHome
  <1>5. QED  BY <1>3, <1>4 DEF Settled

LEMMA SettledSame ==
  ASSUME Settled, UNCHANGED <<op, res, family, apsel, todo>>,
         "apsel" \notin stale' => "apsel" \notin stale
  PROVE  Settled'
  <1>1. (CtrlOp' <=> CtrlOp) /\ (ReturnsHome' <=> ReturnsHome)  BY DEF CtrlOp, ReturnsHome
  <1>2. QED  BY <1>1 DEF Settled

LEMMA SettledTail ==
  ASSUME Settled, Planned, todo # <<>>, todo' = Tail(todo), Step.k \notin {"host", "fail"},
         UNCHANGED <<op, res, family, apsel>>, "apsel" \notin stale' => "apsel" \notin stale
  PROVE  Settled'
  <1>1. Step = todo[1] /\ IsList(todo) /\ StepAt(Step)  BY HeadFacts
  <1>2. ~Marked(todo[1])  BY <1>1 DEF Marked, StepAt
  <1>3. IsList(todo')  BY <1>1, ListTail
  <1>4. SameMarks(todo', todo)  BY <1>1, <1>2, TailMarks
  <1>5. QED  BY <1>1, <1>3, <1>4, SettledKept

LEMMA PutTailMarks ==
  ASSUME NEW s, IsList(s), s # <<>>, ~Marked(s[1]), NEW t, Quiet(t)
  PROVE  SameMarks(t \o Tail(s), s) /\ IsList(t \o Tail(s))
  <1> DEFINE r == Tail(s)
             u == t \o r
  <1>1. IsList(r)  BY ListTail
  <1>2. IsList(u)  BY <1>1, ListJoin DEF Quiet
  <1>3. SameMarks(r, s)  BY TailMarks
  <1> HIDE DEF r
  <1>4. SameMarks(u, r)  BY <1>1, PutMarks
  <1> HIDE DEF u
  <1>5. PICK c \in Int : Apart(r, s, c)  BY <1>3 DEF SameMarks
  <1>6. PICK d \in Int : Apart(u, r, d)  BY <1>4 DEF SameMarks
  <1>7. ASSUME NEW j \in 1 .. Len(u), Marked(u[j])
        PROVE  j + (d + c) \in 1 .. Len(s) /\ s[j + (d + c)] = u[j]
    <2>1. j + d \in 1 .. Len(r) /\ r[j + d] = u[j]  BY <1>6, <1>7 DEF Apart
    <2>2. (j + d) + c \in 1 .. Len(s) /\ s[(j + d) + c] = r[j + d]  BY <1>5, <1>7, <2>1 DEF Apart
    <2>3. (j + d) + c = j + (d + c)  OBVIOUS
    <2>4. QED  BY <2>1, <2>2, <2>3
  <1>8. ASSUME NEW j \in 1 .. Len(s), Marked(s[j])
        PROVE  j - (d + c) \in 1 .. Len(u) /\ u[j - (d + c)] = s[j]
    <2>1. j - c \in 1 .. Len(r) /\ r[j - c] = s[j]  BY <1>5, <1>8 DEF Apart
    <2>2. (j - c) - d \in 1 .. Len(u) /\ u[(j - c) - d] = r[j - c]  BY <1>6, <1>8, <2>1 DEF Apart
    <2>3. (j - c) - d = j - (d + c)  OBVIOUS
    <2>4. QED  BY <2>1, <2>2, <2>3
  <1>9. Apart(u, s, d + c) /\ d + c \in Int  BY <1>7, <1>8 DEF Apart
  <1>10. QED  BY <1>2, <1>9 DEF SameMarks, u, r

LEMMA SettledPut ==
  ASSUME Settled, Planned, todo # <<>>, NEW t, Quiet(t),
         \/ todo' = t \o todo
         \/ todo' = t \o Tail(todo) /\ Step.k \notin {"host", "fail"},
         UNCHANGED <<op, res, family, apsel>>, "apsel" \notin stale' => "apsel" \notin stale
  PROVE  Settled'
  <1>1. Step = todo[1] /\ IsList(todo) /\ StepAt(Step)  BY HeadFacts
  <1>2. CASE todo' = t \o todo
    <2>1. SameMarks(todo', todo)  BY <1>1, <1>2, PutMarks
    <2>2. IsList(todo')  BY <1>1, <1>2, ListJoin DEF Quiet
    <2>3. QED  BY <1>1, <2>1, <2>2, SettledKept
  <1>3. CASE todo' = t \o Tail(todo) /\ Step.k \notin {"host", "fail"}
    <2>1. ~Marked(todo[1])  BY <1>1, <1>3 DEF Marked, StepAt
    <2>2. SameMarks(todo', todo) /\ IsList(todo')  BY <1>1, <1>3, <2>1, PutTailMarks
    <2>3. QED  BY <1>1, <2>2, SettledKept
  <1>4. QED  BY <1>2, <1>3

(* An operation that ends.                                                 *)
LEMMA SettledEnd ==
  ASSUME res' # "Busy", "apsel" \notin stale' => apsel' = MemAp PROVE Settled'
  BY DEF Settled

LEMMA FailSettled ==
  ASSUME Settled, NEW e, e # "Busy", Fail(e) PROVE Settled'
  <1>1. res' # "Busy" /\ apsel' = apsel  BY DEF Fail, caches
  <1>2. ASSUME "apsel" \notin stale' PROVE apsel = MemAp
    <2>1. ~CtrlOp /\ "apsel" \notin stale  BY <1>2 DEF Fail, CtrlOp
    <2>2. QED  BY <2>1 DEF Settled
  <1>3. QED  BY <1>1, <1>2, SettledEnd

LEMMA NoneAfter == ASSUME NEW n PROVE ~HomeAfter(<<>>, n)
  BY ListNone DEF HomeAfter

LEMMA FinishSettled ==
  ASSUME Settled, Finish PROVE Settled'
  <1>1. res = "Busy" /\ todo = <<>> /\ res' = "Ok" /\ apsel' = apsel
    BY DEF Finish, caches
  <1>2. ASSUME "apsel" \notin stale' PROVE apsel = MemAp
    <2>1. CASE ReturnsHome
      <3>1. ~Fails(todo)  BY <1>1, ListNone DEF Fails
      <3>2. Home(apsel, todo)  BY <1>1, <2>1, <3>1 DEF Settled
      <3>3. ~HomeAfter(todo, 0)  BY <1>1, NoneAfter
      <3>4. QED  BY <3>2, <3>3 DEF Home
    <2>2. CASE ~ReturnsHome
      <3>1. "apsel" \notin stale  BY <1>2, <2>2 DEF Finish, ReturnsHome, CtrlOp
      <3>2. QED  BY <2>2, <3>1 DEF Settled, ReturnsHome
    <2>3. QED  BY <2>1, <2>2
  <1>3. QED  BY <1>1, <1>2, SettledEnd

LEMMA TimeoutSettled ==
  ASSUME Settled, Planned, Timeout PROVE Settled'
  <1>1. /\ res = "Busy" /\ todo # <<>> /\ Step.k = "fail" /\ res' = "Timeout" /\ apsel' = apsel
        /\ stale' = stale
    BY DEF Timeout, At, caches, history
  <1>2. Step = todo[1] /\ 1 \in 1 .. Len(todo) /\ Len(todo) \in Nat  BY <1>1, HeadFacts
  <1>3. ASSUME "apsel" \notin stale' PROVE apsel = MemAp
    <2>1. CASE CtrlOp
      <3>1. Home(apsel, todo)  BY <1>1, <2>1 DEF Settled, ReturnsHome, CtrlOp
      <3>2. \A j \in 1 .. Len(todo) : todo[j].r = "apsel" => j < 1
        BY <1>1, <1>2, <3>1 DEF Home
      <3>3. ~HomeAfter(todo, 0)  BY <1>2, <3>2 DEF HomeAfter
      <3>4. QED  BY <3>1, <3>3 DEF Home
    <2>2. CASE ~CtrlOp  BY <1>1, <1>3, <2>2 DEF Settled
    <2>3. QED  BY <2>1, <2>2
  <1>4. QED  BY <1>1, <1>3, SettledEnd

LEMMA AssignSettled ==
  ASSUME Settled, Planned, Assign PROVE Settled'
  <1>1. /\ res = "Busy" /\ todo # <<>> /\ Step.k = "host" /\ todo' = Tail(todo)
        /\ apsel' = IF Step.r = "apsel" THEN Step.v ELSE apsel
        /\ UNCHANGED <<op, res, family, stale>>
    BY DEF Assign, At, work, history
  <1>2. /\ Step = todo[1] /\ 1 \in 1 .. Len(todo) /\ Len(todo) \in Nat /\ IsList(todo)
        /\ IsList(todo')
    BY <1>1, HeadFacts, ListTail
  <1>3. CASE Step.r # "apsel"
    <2>1. ~Marked(todo[1])  BY <1>1, <1>2, <1>3 DEF Marked
    <2>2. SameMarks(todo', todo)  BY <1>1, <1>2, <2>1, TailMarks
    <2>3. QED  BY <1>1, <1>2, <1>3, <2>2, SettledKept
  <1>4. CASE Step.r = "apsel"
    <2>1. /\ Len(todo') = Len(todo) - 1
          /\ \A i \in 1 .. Len(todo) - 1 : todo'[i] = todo[i + 1]
      BY <1>1, <1>2, ListTail
    <2>2. ASSUME NEW j \in 1 .. Len(todo') PROVE j + 1 \in 1 .. Len(todo) /\ todo'[j] = todo[j + 1]
      <3>1. j \in 1 .. Len(todo) - 1  BY <2>1
      <3>2. QED  BY <1>2, <2>1, <3>1
    <2>3. ASSUME NEW j \in 1 .. Len(todo), j # 1 PROVE j - 1 \in 1 .. Len(todo') /\ todo'[j - 1] = todo[j]
      <3>1. j - 1 \in 1 .. Len(todo) - 1 /\ (j - 1) + 1 = j  BY <1>2, <2>3
      <3>2. QED  BY <2>1, <3>1
    <2>4. ASSUME NEW j \in 0 .. Len(todo'), HomeAfter(todo, j + 1) PROVE HomeAfter(todo', j)
      <3>1. PICK i \in 1 .. Len(todo) : i > j + 1 /\ todo[i].r = "apsel" /\ todo[i].v = MemAp
        BY <2>4 DEF HomeAfter
      <3>2. i # 1 /\ i - 1 > j  BY <3>1
      <3>3. i - 1 \in 1 .. Len(todo') /\ todo'[i - 1] = todo[i]  BY <2>3, <3>2
      <3>4. QED  BY <3>1, <3>2, <3>3 DEF HomeAfter
    <2>5. ASSUME Home(apsel, todo) PROVE Home(apsel', todo')
      <3>1. ASSUME apsel' # MemAp PROVE HomeAfter(todo', 0)
        <4>1. HomeAfter(todo, 1)  BY <1>1, <1>2, <1>4, <2>5, <3>1 DEF Home
        <4>2. 0 \in 0 .. Len(todo') /\ 0 + 1 = 1  BY <1>2, <2>1
        <4>3. QED  BY <2>4, <4>1, <4>2
      <3>2. ASSUME NEW j \in 1 .. Len(todo'), todo'[j].r = "apsel", todo'[j].v # MemAp
            PROVE  HomeAfter(todo', j)
        <4>1. HomeAfter(todo, j + 1)  BY <2>2, <2>5, <3>2 DEF Home
        <4>2. j \in 0 .. Len(todo')  OBVIOUS
        <4>3. QED  BY <2>4, <4>1, <4>2
      <3>3. ASSUME NEW i \in 1 .. Len(todo'), NEW j \in 1 .. Len(todo'),
                   todo'[i].k = "fail", todo'[j].r = "apsel"
            PROVE  j < i
        <4>1. /\ i + 1 \in 1 .. Len(todo) /\ todo[i + 1].k = "fail"
              /\ j + 1 \in 1 .. Len(todo) /\ todo[j + 1].r = "apsel"
          BY <2>2, <3>3
        <4>2. j + 1 < i + 1  BY <2>5, <4>1 DEF Home
        <4>3. QED  BY <4>2
      <3>4. QED  BY <3>1, <3>2, <3>3 DEF Home
    <2>6. Fails(todo) => Fails(todo')  BY <1>1, <1>2, <2>3 DEF Fails
    <2>7. OnlyHome(todo) => OnlyHome(todo') /\ apsel' = MemAp
      BY <1>1, <1>2, <1>4, <2>2 DEF OnlyHome
    <2>8. (CtrlOp' <=> CtrlOp) /\ (ReturnsHome' <=> ReturnsHome)  BY <1>1 DEF CtrlOp, ReturnsHome
    <2>9. QED  BY <1>1, <2>5, <2>6, <2>7, <2>8 DEF Settled
  <1>5. QED  BY <1>3, <1>4

(* The status of the CTRL-AP is read without a poll.                       *)
Plain(s) == \A j \in 1 .. Len(s) : s[j].k \in {"host", "ap", "dp"}
ReadsCtrl == res = "Busy" /\ op.name = "approtect" => Plain(todo)

LEMMA GiveUpMarks == ASSUME NEW s, IsList(s), NEW a, Home(a, s) PROVE Home(a, Append(s, GiveUp))
  <1> DEFINE t == Append(s, GiveUp)
             n == Len(s)
  <1>1. /\ Len(t) = n + 1 /\ n \in Nat /\ t[n + 1] = GiveUp /\ \A i \in 1 .. n : t[i] = s[i]
    BY ListAppend
  <1> HIDE DEF t, n
  <1>2. GiveUp.r # "apsel" /\ GiveUp.k = "fail"  BY DEF GiveUp
  <1>3. ASSUME NEW j \in 1 .. Len(t), t[j].r = "apsel" PROVE j \in 1 .. n /\ s[j] = t[j] /\ j < n + 1
    <2>1. j # n + 1  BY <1>1, <1>2, <1>3
    <2>2. j \in 1 .. n /\ j < n + 1  BY <1>1, <2>1
    <2>3. QED  BY <1>1, <2>2
  <1>4. 1 .. Len(s) = 1 .. n  BY DEF n
  <1>5. ASSUME NEW j, HomeAfter(s, j) PROVE HomeAfter(t, j)
    <2>1. PICK i \in 1 .. n : i > j /\ s[i].r = "apsel" /\ s[i].v = MemAp
      BY <1>4, <1>5 DEF HomeAfter
    <2>2. i \in 1 .. Len(t) /\ t[i] = s[i]  BY <1>1
    <2>3. QED  BY <2>1, <2>2 DEF HomeAfter
  <1>6. ASSUME NEW i \in 1 .. Len(t), NEW j \in 1 .. Len(t), t[i].k = "fail", t[j].r = "apsel"
        PROVE  j < i
    <2>1. j \in 1 .. n /\ s[j] = t[j] /\ j < n + 1  BY <1>3, <1>6
    <2>2. CASE i = n + 1  BY <2>1, <2>2
    <2>3. CASE i # n + 1
      <3>1. i \in 1 .. n  BY <1>1, <2>3
      <3>2. s[i] = t[i]  BY <1>1, <3>1
      <3>3. QED  BY <1>4, <1>6, <2>1, <3>1, <3>2 DEF Home
    <2>4. QED  BY <2>2, <2>3
  <1>7. ASSUME NEW j \in 1 .. Len(t), t[j].r = "apsel", t[j].v # MemAp PROVE HomeAfter(t, j)
    <2>1. j \in 1 .. n /\ s[j] = t[j]  BY <1>3, <1>7
    <2>2. HomeAfter(s, j)  BY <1>4, <1>7, <2>1 DEF Home
    <2>3. QED  BY <1>5, <2>2
  <1>8. a # MemAp => HomeAfter(t, 0)  BY <1>5 DEF Home
  <1>9. Home(a, t)  BY <1>6, <1>7, <1>8 DEF Home
  <1>10. QED  BY <1>9 DEF t

LEMMA PollSettled ==
  ASSUME Settled, ReadsCtrl, Planned, PollStatus PROVE Settled'
  <1>1. /\ todo # <<>> /\ Step.k = "poll" /\ res = "Busy" /\ UNCHANGED <<op, res, family, apsel, stale>>
    BY DEF PollStatus, At, caches, work, history
  <1>2. Step = todo[1] /\ IsList(todo) /\ StepAt(Step) /\ 1 \in 1 .. Len(todo)
    BY <1>1, HeadFacts
  <1>3. op.name # "approtect"  BY <1>1, <1>2 DEF ReadsCtrl, Plain
  <1>4. \/ todo' = Tail(todo)
        \/ todo' = ApReg("STATUS") \o <<Poll(Step.v - 1)>> \o Tail(todo)
        \/ todo' = <<DpRead("CTRLSTAT")>> \o <<Poll(Step.v - 1)>> \o Tail(todo)
        \/ todo' = <<GiveUp>> /\ op.name # "erase_all"
        \/ todo' = Append(Tail(todo), GiveUp) /\ op.name = "erase_all"
    BY DEF PollStatus
  <1>5. CASE todo' = Tail(todo)  BY <1>1, <1>5, SettledTail
  <1>6. Quiet(ApReg("STATUS") \o <<Poll(Step.v - 1)>>)
    BY ApRegQuiet, QuietKinds, QuietOne, QuietJoin
  <1>7. Quiet(<<DpRead("CTRLSTAT")>> \o <<Poll(Step.v - 1)>>)
    BY QuietKinds, QuietOne, QuietJoin
  <1>8. CASE todo' = ApReg("STATUS") \o <<Poll(Step.v - 1)>> \o Tail(todo)
    BY <1>1, <1>6, <1>8, SettledPut
  <1>9. CASE todo' = <<DpRead("CTRLSTAT")>> \o <<Poll(Step.v - 1)>> \o Tail(todo)
    BY <1>1, <1>7, <1>9, SettledPut
  <1>10. (CtrlOp' <=> CtrlOp) /\ (ReturnsHome' <=> ReturnsHome)  BY <1>1 DEF CtrlOp, ReturnsHome
  <1>11. CASE todo' = <<GiveUp>> /\ op.name # "erase_all"
    <2>1. ~CtrlOp  BY <1>3, <1>11 DEF CtrlOp
    <2>2. /\ Len(todo') = 1 /\ todo'[1] = GiveUp /\ 1 \in 1 .. Len(todo')
          /\ \A j \in 1 .. Len(todo') : todo'[j] = GiveUp
      BY <1>11, ListOne
    <2>3. GiveUp.r # "apsel" /\ GiveUp.k = "fail"  BY DEF GiveUp
    <2>4. Fails(todo') /\ OnlyHome(todo')  BY <2>2, <2>3 DEF Fails, OnlyHome
    <2>5. QED  BY <1>1, <1>10, <2>1, <2>4 DEF Settled, ReturnsHome
  <1>12. CASE todo' = Append(Tail(todo), GiveUp) /\ op.name = "erase_all"
    <2>1. CtrlOp /\ ReturnsHome  BY <1>12 DEF CtrlOp, ReturnsHome
    <2>2. Home(apsel, todo)  BY <1>1, <1>12, <2>1 DEF Settled
    <2>3. IsList(Tail(todo)) /\ Len(Tail(todo)) \in Nat /\ Len(todo) \in Nat
      BY <1>1, <1>2, ListTail
    <2>4. SameMarks(Tail(todo), todo)  BY <1>1, <1>2, TailMarks DEF Marked, StepAt
    <2>5. PICK d \in Int : Apart(Tail(todo), todo, d)  BY <2>4 DEF SameMarks
    <2>6. Home(apsel, Tail(todo))  BY <2>2, <2>3, <2>5, HomeApart
    <2>7. Home(apsel, todo')  BY <1>12, <2>3, <2>6, GiveUpMarks
    <2>8. QED  BY <1>1, <1>10, <2>1, <2>7 DEF Settled
  <1>13. QED  BY <1>4, <1>5, <1>8, <1>9, <1>11, <1>12

(* The programs.                                                           *)
SomeHome(s) == \E i \in 1 .. Len(s) : s[i].r = "apsel" /\ s[i].v = MemAp

LEMMA QuietMarks == ASSUME NEW s, Quiet(s) PROVE OnlyHome(s) /\ ~Fails(s)
  BY DEF Quiet, QuietStep, OnlyHome, Fails

LEMMA JoinMarks ==
  ASSUME NEW s, NEW t, IsList(s), IsList(t)
  PROVE  /\ IsList(s \o t)
         /\ OnlyHome(s) /\ OnlyHome(t) => OnlyHome(s \o t)
         /\ ~Fails(s) /\ ~Fails(t) => ~Fails(s \o t)
         /\ Plain(s) /\ Plain(t) => Plain(s \o t)
         /\ SomeHome(s) => SomeHome(s \o t)
         /\ SomeHome(t) => SomeHome(s \o t)
  <1> DEFINE u == s \o t
  <1>1. /\ IsList(u) /\ Len(u) = Len(s) + Len(t) /\ Len(s) \in Nat /\ Len(t) \in Nat
        /\ \A i \in 1 .. Len(s) : u[i] = s[i]
        /\ \A i \in 1 .. Len(t) : u[Len(s) + i] = t[i]
        /\ \A i \in Len(s) + 1 .. Len(s) + Len(t) : u[i] = t[i - Len(s)]
    BY ListJoin
  <1> HIDE DEF u
  <1>2. ASSUME NEW j \in 1 .. Len(u)
        PROVE  (\E i \in 1 .. Len(s) : u[j] = s[i]) \/ (\E i \in 1 .. Len(t) : u[j] = t[i])
    <2>1. CASE j <= Len(s)
      <3>1. j \in 1 .. Len(s)  BY <1>1, <2>1
      <3>2. QED  BY <1>1, <3>1
    <2>2. CASE ~(j <= Len(s))
      <3>1. j \in Len(s) + 1 .. Len(s) + Len(t) /\ j - Len(s) \in 1 .. Len(t)  BY <1>1, <2>2
      <3>2. QED  BY <1>1, <3>1
    <2>3. QED  BY <2>1, <2>2
  <1>3. \A i \in 1 .. Len(s) : i \in 1 .. Len(u) /\ u[i] = s[i]  BY <1>1
  <1>4. \A i \in 1 .. Len(t) : Len(s) + i \in 1 .. Len(u) /\ u[Len(s) + i] = t[i]  BY <1>1
  <1>5. OnlyHome(s) /\ OnlyHome(t) => OnlyHome(u)  BY <1>2 DEF OnlyHome
  <1>6. ~Fails(s) /\ ~Fails(t) => ~Fails(u)  BY <1>2 DEF Fails
  <1>7. Plain(s) /\ Plain(t) => Plain(u)  BY <1>2 DEF Plain
  <1>8. (SomeHome(s) => SomeHome(u)) /\ (SomeHome(t) => SomeHome(u))  BY <1>3, <1>4 DEF SomeHome
  <1>9. QED  BY <1>1, <1>5, <1>6, <1>7, <1>8 DEF u

LEMMA HomeLast ==
  ASSUME NEW s, Len(s) \in Nat, Len(s) > 0, s[Len(s)] = Host("apsel", MemAp), ~Fails(s), NEW a
  PROVE  Home(a, s)
  <1>1. Len(s) \in 1 .. Len(s) /\ s[Len(s)].r = "apsel" /\ s[Len(s)].v = MemAp  BY DEF Host
  <1>2. HomeAfter(s, 0)  BY <1>1 DEF HomeAfter
  <1>3. ASSUME NEW j \in 1 .. Len(s), s[j].v # MemAp PROVE HomeAfter(s, j)
    <2>1. Len(s) > j  BY <1>1, <1>3
    <2>2. QED  BY <1>1, <2>1 DEF HomeAfter
  <1>4. QED  BY <1>2, <1>3 DEF Home, Fails

LEMMA HomeOnly ==
  ASSUME NEW s, OnlyHome(s), ~Fails(s), SomeHome(s), NEW a PROVE Home(a, s)
  <1>1. HomeAfter(s, 0)
    <2>1. PICK i \in 1 .. Len(s) : s[i].r = "apsel" /\ s[i].v = MemAp  BY DEF SomeHome
    <2>2. i > 0  OBVIOUS
    <2>3. QED  BY <2>1, <2>2 DEF HomeAfter
  <1>2. QED  BY <1>1 DEF Home, OnlyHome, Fails

LEMMA AttachMarks ==
  ASSUME NEW d, NEW j \in 1 .. 8 PROVE ~Marked(Attach(d)[j])
  <1>1. j = 1 \/ j = 2 \/ j = 3 \/ j = 4 \/ j = 5 \/ j = 6 \/ j = 7 \/ j = 8  OBVIOUS
  <1>2. /\ ~Marked(Line(d)) /\ ~Marked(DpRead("DPIDR")) /\ ~Marked(Host("forget", 0))
        /\ ~Marked(Dp("ABORT", 0)) /\ ~Marked(Dp("SELECT", 0)) /\ ~Marked(Dp("POWER", 0))
        /\ ~Marked(DpRead("CTRLSTAT")) /\ ~Marked(Poll(Polls))
    BY DEF Marked, Line, DpRead, Host, Dp, Poll
  <1>3. QED  BY <1>1, <1>2, AttachSteps, Zenon

LEMMA ConnectsHome ==
  ASSUME NEW d, NEW s, s = <<Host("core", NoCore)>> \o Attach(d) \o <<Host("core", d)>>
  PROVE  OnlyHome(s)
  <1>1. OnlyHome(<<Host("core", NoCore)>>) /\ OnlyHome(<<Host("core", d)>>)
    BY QuietKinds, QuietOne, QuietMarks
  <1>2. IsList(<<Host("core", NoCore)>>) /\ IsList(<<Host("core", d)>>)  BY ListOne
  <1>3. OnlyHome(Attach(d)) /\ IsList(Attach(d))
    BY AttachSteps, AttachMarks DEF OnlyHome, Marked
  <1>4. /\ OnlyHome(<<Host("core", NoCore)>> \o Attach(d))
        /\ IsList(<<Host("core", NoCore)>> \o Attach(d))
    BY <1>1, <1>2, <1>3, JoinMarks
  <1>5. QED  BY <1>1, <1>2, <1>4, JoinMarks

LEMMA PartMarks ==
  ASSUME NEW m \in 1 .. 8, NEW n \in 1 .. 8, m <= n, NEW s, s = SubSeq(Attach(0), m, n)
  PROVE  IsList(s) /\ OnlyHome(s) /\ ~Fails(s)
  <1> DEFINE a == Attach(0)
             Q == {a[i] : i \in 1 .. 8}
  <1>1. IsList(a) /\ Len(a) = 8  BY AttachSteps
  <1>2. /\ s \in Seq(Q) /\ Len(s) = n - m + 1 /\ \A i \in 1 .. n - m + 1 : s[i] = a[m + i - 1]
    <2> HIDE DEF a
    <2>0. \A i \in m .. n : i \in 1 .. 8  OBVIOUS
    <2>1. \A i \in m .. n : a[i] \in Q  BY <2>0
    <2>2. /\ s \in Seq(Q) /\ Len(s) = (IF m <= n THEN n - m + 1 ELSE 0)
          /\ \A i \in 1 .. n - m + 1 : s[i] = a[m + i - 1]
      BY <2>1, SubSeqProperties DEF a
    <2>3. QED  BY <2>2
  <1>3. IsList(s)  BY <1>2, ListOf
  <1>4. ASSUME NEW i \in 1 .. Len(s) PROVE ~Marked(s[i])
    <2>1. i \in 1 .. n - m + 1 /\ m + i - 1 \in 1 .. 8  BY <1>2
    <2>2. QED  BY <1>2, <2>1, AttachMarks
  <1>5. QED  BY <1>3, <1>4 DEF OnlyHome, Fails, Marked

LEMMA ConnectSwdHome == OnlyHome(ConnectSwd) /\ \A a : Home(a, ConnectSwd)
  <1> DEFINE s == SubSeq(Attach(0), 1, 3)
             m == <<Host("apsel", MemAp)>>
             t == SubSeq(Attach(0), 4, 8)
  <1>0. 1 \in 1 .. 8 /\ 3 \in 1 .. 8 /\ 1 <= 3 /\ 4 \in 1 .. 8 /\ 8 \in 1 .. 8 /\ 4 <= 8  OBVIOUS
  <1>1. IsList(s) /\ OnlyHome(s) /\ ~Fails(s)  BY <1>0, PartMarks
  <1>2. IsList(t) /\ OnlyHome(t) /\ ~Fails(t)  BY <1>0, PartMarks
  <1>3. IsList(m) /\ OnlyHome(m) /\ ~Fails(m) /\ SomeHome(m)
    <2>1. /\ IsList(m) /\ Len(m) = 1 /\ m[1] = Host("apsel", MemAp)  BY ListOne
    <2>2. \A j \in 1 .. Len(m) : m[j] = Host("apsel", MemAp)  BY <2>1
    <2>3. 1 \in 1 .. Len(m)  BY <2>1
    <2>4. Host("apsel", MemAp).r = "apsel" /\ Host("apsel", MemAp).v = MemAp
          /\ Host("apsel", MemAp).k = "host"
      BY DEF Host
    <2> HIDE DEF m
    <2>5. QED  BY <2>1, <2>2, <2>3, <2>4 DEF OnlyHome, Fails, SomeHome
  <1> HIDE DEF s, m, t
  <1>4. IsList(s \o m) /\ OnlyHome(s \o m) /\ ~Fails(s \o m) /\ SomeHome(s \o m)
    BY <1>1, <1>3, JoinMarks
  <1>5. OnlyHome(s \o m \o t) /\ ~Fails(s \o m \o t) /\ SomeHome(s \o m \o t)
    BY <1>2, <1>4, JoinMarks
  <1>6. ConnectSwd = s \o m \o t  BY DEF ConnectSwd, s, m, t
  <1>7. QED  BY <1>5, <1>6, HomeOnly

LEMMA ApprotectHome == Plain(ApprotectStatus) /\ \A a : Home(a, ApprotectStatus)
  <1> DEFINE c == <<Host("apsel", CtrlAp)>>
             m == <<Host("apsel", MemAp)>>
  <1>1. ASSUME NEW v PROVE IsList(<<Host("apsel", v)>>) /\ Plain(<<Host("apsel", v)>>)
                           /\ ~Fails(<<Host("apsel", v)>>)
    <2>1. IsList(<<Host("apsel", v)>>)
          /\ \A j \in 1 .. Len(<<Host("apsel", v)>>) : <<Host("apsel", v)>>[j] = Host("apsel", v)
      BY ListOne
    <2>2. Host("apsel", v).k = "host"  BY DEF Host
    <2>3. QED  BY <2>1, <2>2 DEF Plain, Fails
  <1>2. ASSUME NEW r \in {"IDR", "APPROTECT"}
        PROVE  IsList(ApReg(r)) /\ Plain(ApReg(r)) /\ ~Fails(ApReg(r))
    <2>1. /\ IsList(ApReg(r)) /\ Len(ApReg(r)) = 2 /\ ApReg(r)[1] = ApRead(r)
          /\ ApReg(r)[2] = DpRead("RDBUFF")
      BY ListTwo DEF ApReg
    <2>2. \A j \in 1 .. 2 : j = 1 \/ j = 2  OBVIOUS
    <2>3. ApRead(r).k = "ap" /\ DpRead("RDBUFF").k = "dp"  BY DEF ApRead, DpRead
    <2>4. QED  BY <2>1, <2>2, <2>3 DEF Plain, Fails
  <1>3. IsList(m) /\ Len(m) = 1 /\ m[1] = Host("apsel", MemAp)  BY ListOne
  <1>4. /\ IsList(c) /\ Plain(c) /\ ~Fails(c) /\ IsList(m) /\ Plain(m) /\ ~Fails(m)  BY <1>1
  <1> HIDE DEF c, m
  <1> DEFINE u == c \o ApReg("IDR") \o ApReg("APPROTECT")
  <1>5. IsList(u) /\ Plain(u) /\ ~Fails(u)
    <2>1. /\ IsList(c \o ApReg("IDR")) /\ Plain(c \o ApReg("IDR")) /\ ~Fails(c \o ApReg("IDR"))
      BY <1>2, <1>4, JoinMarks
    <2>2. QED  BY <1>2, <2>1, JoinMarks
  <1> HIDE DEF u
  <1>6. Plain(u \o m) /\ ~Fails(u \o m)  BY <1>4, <1>5, JoinMarks
  <1>7. /\ Len(u \o m) = Len(u) + 1 /\ Len(u) \in Nat /\ (u \o m)[Len(u) + 1] = m[1]
    <2>1. /\ Len(u \o m) = Len(u) + Len(m) /\ Len(u) \in Nat
          /\ \A i \in 1 .. Len(m) : (u \o m)[Len(u) + i] = m[i]
      BY <1>4, <1>5, ListJoin
    <2>2. 1 \in 1 .. Len(m)  BY <1>3
    <2>3. QED  BY <1>3, <2>1, <2>2
  <1>8. \A a : Home(a, u \o m)
    <2>1. PICK w : w = u \o m  OBVIOUS
    <2>2. Len(w) \in Nat /\ Len(w) > 0 /\ w[Len(w)] = Host("apsel", MemAp) /\ ~Fails(w)
      BY <1>3, <1>6, <1>7, <2>1
    <2>3. QED  BY <2>1, <2>2, HomeLast
  <1>9. ApprotectStatus = u \o m  BY DEF ApprotectStatus, u, c, m
  <1>10. QED  BY <1>6, <1>8, <1>9

LEMMA EraseHome == \A a : Home(a, EraseAll)
  <1> DEFINE e == EraseAll
  <1>1. /\ IsList(e) /\ Len(e) = 8 /\ e[1] = Host("apsel", CtrlAp)
        /\ e[2] = Ap("ERASEALL", 1) /\ e[3] = ApRead("STATUS")
        /\ e[4] = DpRead("RDBUFF") /\ e[5] = Poll(Polls) /\ e[6] = Ap("RESET", 1)
        /\ e[7] = Ap("RESET", 0) /\ e[8] = Host("apsel", MemAp)
    BY EraseSteps
  <1> HIDE DEF e
  <1>2. \A j \in 1 .. 8 : j = 1 \/ j = 2 \/ j = 3 \/ j = 4 \/ j = 5 \/ j = 6 \/ j = 7 \/ j = 8
    OBVIOUS
  <1>3. /\ e[1].k = "host" /\ e[2].k = "ap" /\ e[3].k = "ap" /\ e[4].k = "dp" /\ e[5].k = "poll"
        /\ e[6].k = "ap" /\ e[7].k = "ap" /\ e[8].k = "host"
    <2>1. \A r, v : Host(r, v).k = "host"  BY DEF Host
    <2>2. \A r, v : Ap(r, v).k = "ap"  BY DEF Ap
    <2>3. \A r : ApRead(r).k = "ap" /\ DpRead(r).k = "dp"  BY DEF ApRead, DpRead
    <2>4. \A n : Poll(n).k = "poll"  BY DEF Poll
    <2>5. QED  BY <1>1, <2>1, <2>2, <2>3, <2>4
  <1>4. ~Fails(e)  BY <1>1, <1>2, <1>3 DEF Fails
  <1>5. \A a : Home(a, e)  BY <1>1, <1>4, HomeLast
  <1>6. QED  BY <1>5 DEF e

LEMMA RequestSettled ==
  ASSUME Settled, NEW o \in Operations, Request(o) PROVE Settled' /\ ReadsCtrl'
  <1>1. /\ res # "Busy" /\ todo' = Prog(o) /\ op' = o /\ UNCHANGED <<family, apsel, stale>>
    BY DEF Request, caches
  <1>2. "apsel" \notin stale => apsel = MemAp  BY <1>1 DEF Settled
  <1>3. /\ CtrlOp' <=> o.name \in {"approtect", "erase_all"}
        /\ ReturnsHome' <=> o.name \in {"approtect", "erase_all"} \/ (o.name = "connect" /\ family = "nrf")
    BY <1>1 DEF CtrlOp, ReturnsHome
  <1>4. CASE o.name = "connect"
    <2>1. CASE family = "rp2040"
      <3>1. todo' = ConnectMultidrop  BY <1>1, <1>4, <2>1 DEF Prog
      <3>2. OnlyHome(todo')  BY <3>1, ConnectsHome DEF ConnectMultidrop
      <3>3. QED  BY <1>1, <1>2, <1>3, <1>4, <2>1, <3>2 DEF Settled, ReadsCtrl
    <2>2. CASE family # "rp2040"
      <3>1. todo' = ConnectSwd  BY <1>1, <1>4, <2>2 DEF Prog
      <3>2. OnlyHome(todo') /\ Home(apsel', todo')  BY <3>1, ConnectSwdHome
      <3>3. QED  BY <1>1, <1>2, <1>3, <1>4, <3>2 DEF Settled, ReadsCtrl
    <2>3. QED  BY <2>1, <2>2
  <1>5. CASE o.name = "select"
    <2>1. todo' = SelectCore(o.span[1])  BY <1>1, <1>5 DEF Prog
    <2>2. OnlyHome(todo')  BY <2>1, ConnectsHome DEF SelectCore
    <2>3. QED  BY <1>1, <1>2, <1>3, <1>5, <2>2 DEF Settled, ReadsCtrl
  <1>6. CASE o.name = "approtect"
    <2>1. todo' = ApprotectStatus  BY <1>1, <1>6 DEF Prog
    <2>2. Home(apsel', todo') /\ Plain(todo')  BY <2>1, ApprotectHome
    <2>3. QED  BY <1>1, <1>3, <1>6, <2>2 DEF Settled, ReadsCtrl, Request
  <1>7. CASE o.name = "erase_all"
    <2>1. todo' = EraseAll  BY <1>1, <1>7 DEF Prog
    <2>2. Home(apsel', todo')  BY <2>1, EraseHome
    <2>3. QED  BY <1>1, <1>3, <1>7, <2>2 DEF Settled, ReadsCtrl, Request
  <1>8. CASE o.name \notin {"connect", "select", "approtect", "erase_all"}
    <2>1. todo' = <<>>  BY <1>1, <1>8 DEF Prog
    <2>2. OnlyHome(todo')  BY <2>1, ListNone DEF OnlyHome
    <2>3. QED  BY <1>1, <1>2, <1>3, <1>8, <2>2 DEF Settled, ReadsCtrl
  <1>9. QED  BY <1>4, <1>5, <1>6, <1>7, <1>8
-----------------------------------------------------------------------------
(* Every step keeps the MEM-AP settled.                                    *)
LEMMA PlainHead ==
  ASSUME Planned, ReadsCtrl, todo # <<>>, res = "Busy", Step.k \notin {"host", "ap", "dp"}
  PROVE  op.name # "approtect"
  BY HeadFacts DEF ReadsCtrl, Plain

LEMMA PlainTail ==
  ASSUME Planned, ReadsCtrl, todo # <<>>, todo' = Tail(todo), UNCHANGED <<op, res>>
  PROVE  ReadsCtrl'
  <1>1. IsList(todo) /\ Len(todo) \in Nat  BY HeadFacts
  <1>2. /\ Len(todo') = Len(todo) - 1 /\ \A i \in 1 .. Len(todo) - 1 : todo'[i] = todo[i + 1]
    BY <1>1, ListTail
  <1>3. ASSUME NEW j \in 1 .. Len(todo') PROVE j + 1 \in 1 .. Len(todo) /\ todo'[j] = todo[j + 1]
    <2>1. j \in 1 .. Len(todo) - 1  BY <1>2
    <2>2. QED  BY <1>1, <1>2, <2>1
  <1>4. QED  BY <1>3 DEF ReadsCtrl, Plain

LEMMA NotReading ==
  ASSUME op' = op, (res' # "Busy" \/ op.name # "approtect") PROVE ReadsCtrl'
  BY DEF ReadsCtrl

LEMMA PerformSettled ==
  ASSUME Settled, ReadsCtrl, Kinds, Planned, Perform PROVE Settled' /\ ReadsCtrl'
  <1>1. CASE Assign
    <2>1. todo # <<>> /\ todo' = Tail(todo) /\ UNCHANGED <<op, res>>
      BY <1>1 DEF Assign, At, work
    <2>2. QED  BY <1>1, <2>1, AssignSettled, PlainTail
  <1>2. CASE EnsureCsw
    <2>1. /\ todo # <<>> /\ Step.k = "csw" /\ res = "Busy"
          /\ UNCHANGED <<op, res, family, apsel, stale>>
      BY <1>2 DEF EnsureCsw, At, caches, work, history
    <2>2. PICK t : todo' = t \o Tail(todo) /\ (t = <<>> \/ t = <<Ap("CSW", 0)>>)
      BY <1>2 DEF EnsureCsw
    <2>3. Quiet(t)
      <3>1. CASE t = <<>>  BY <3>1, QuietNone
      <3>2. CASE t = <<Ap("CSW", 0)>>  BY <3>2, QuietKinds, QuietOne
      <3>3. QED  BY <2>2, <3>1, <3>2
    <2>4. Settled'  BY <2>1, <2>2, <2>3, SettledPut
    <2>5. QED  BY <2>1, <2>4, PlainHead, NotReading
  <1>3. CASE SelectApBank
    <2>1. /\ todo # <<>> /\ Step.k = "ap" /\ todo' = <<Dp("SELECT", Wanted)>> \o todo
          /\ UNCHANGED <<op, res, family, apsel, stale>>
      BY <1>3 DEF SelectApBank, At, caches, work, history
    <2>2. Wanted \in Nat  BY DEF Kinds, Wanted, SelectValue, Bank, MemAp, CtrlAp
    <2>3. Quiet(<<Dp("SELECT", Wanted)>>)  BY <2>2, QuietKinds, QuietOne
    <2>4. Settled'  BY <2>1, <2>3, SettledPut
    <2>5. Plain(<<Dp("SELECT", Wanted)>>) /\ IsList(<<Dp("SELECT", Wanted)>>)
      <3>1. Dp("SELECT", Wanted).k = "dp"  BY DEF Dp
      <3>2. \A j \in 1 .. Len(<<Dp("SELECT", Wanted)>>) :
              <<Dp("SELECT", Wanted)>>[j] = Dp("SELECT", Wanted)
        BY ListOne
      <3>3. QED  BY <3>1, <3>2, ListOne DEF Plain
    <2>6. IsList(todo)  BY <2>1, HeadFacts
    <2>7. Plain(todo) => Plain(todo')  BY <2>1, <2>5, <2>6, JoinMarks
    <2>8. ReadsCtrl'  BY <2>1, <2>7 DEF ReadsCtrl
    <2>9. QED  BY <2>4, <2>8
  <1>4. CASE PollStatus
    <2>1. todo # <<>> /\ Step.k = "poll" /\ res = "Busy" /\ op' = op
      BY <1>4 DEF PollStatus, At, work
    <2>2. QED  BY <1>4, <2>1, PollSettled, PlainHead, NotReading
  <1>5. CASE Address
    <2>1. /\ todo # <<>> /\ Step.k = "line" /\ res = "Busy" /\ todo' = Tail(todo)
          /\ UNCHANGED <<op, res, family, apsel>> /\ stale' = (stale \ {"wire"}) \cup {"link"}
      BY <1>5 DEF Address, At, caches, work
    <2>2. "apsel" \notin stale' => "apsel" \notin stale  BY <2>1
    <2>3. QED  BY <2>1, <2>2, SettledTail, PlainHead, NotReading
  <1>6. CASE NextChunk
    <2>1. /\ todo = <<>> /\ InMemory /\ UNCHANGED <<op, res, family, apsel, stale>>
      BY <1>6 DEF NextChunk, caches, work, history
    <2>2. op.name # "approtect" /\ ~CtrlOp /\ ~ReturnsHome  BY <2>1 DEF InMemory, CtrlOp, ReturnsHome
    <2>3. OnlyHome(todo')
      <3>1. Words \in Int  BY ChunkInts
      <3>2. CASE op.name = "write" /\ Words > 0
        <4>1. PICK n : n = Words  OBVIOUS
        <4>2. PICK ws : /\ todo' = Append(WriteWords(Addr, ws), Done)
                        /\ ws = [i \in 1 .. n |-> [j \in 1 .. WordBytes |->
                                   Data(pos + (i - 1) * WordBytes + j - 1)]]
          BY <1>6, <3>2, <4>1 DEF NextChunk
        <4>3. n \in Nat  BY <3>1, <3>2, <4>1
        <4>4. ws = [i \in 1 .. n |-> ws[i]]  BY <4>2
        <4>5. Len(ws) \in Nat  BY <4>3, <4>4, MadeList
        <4>6. QED  BY <4>2, <4>5, WriteDone, QuietMarks
      <3>3. CASE ~(op.name = "write" /\ Words > 0)
        <4>0. PICK n : n = IF Words > 0 THEN Words ELSE 1  OBVIOUS
        <4>1. todo' = Append(ReadWords(Addr - Skew, n), Take)  BY <1>6, <3>3, <4>0 DEF NextChunk
        <4>2. n \in Nat  BY <3>1, <4>0
        <4>3. Quiet(ReadWords(Addr - Skew, n))  BY <4>2, ReadWordsQuiet
        <4>4. Quiet(todo')  BY <4>1, <4>3, QuietAppend, QuietKinds
        <4>5. QED  BY <4>4, QuietMarks
      <3>4. QED  BY <3>2, <3>3
    <2>4. ~CtrlOp' /\ ~ReturnsHome'  BY <2>1, <2>2 DEF CtrlOp, ReturnsHome
    <2>5. Settled'  BY <2>1, <2>2, <2>3, <2>4 DEF Settled
    <2>6. QED  BY <2>1, <2>2, <2>5, NotReading
  <1>7. CASE TakeChunk
    <2>1. todo # <<>> /\ Step.k = "take" /\ res = "Busy" /\ UNCHANGED <<op, res, family, apsel, stale>>
      BY <1>7 DEF TakeChunk, At, caches, history
    <2>2. CASE op.name = "read"
      <3>1. todo' = Tail(todo)  BY <1>7, <2>2 DEF TakeChunk
      <3>2. QED  BY <2>1, <3>1, SettledTail, PlainHead, NotReading
    <2>3. CASE op.name # "read"
      <3>1. PICK w : todo' = Append(WriteWords(Addr - Skew, <<w>>), Done) \o Tail(todo)
        BY <1>7, <2>3 DEF TakeChunk
      <3>2. Len(<<w>>) \in Nat  OBVIOUS
      <3>3. Quiet(Append(WriteWords(Addr - Skew, <<w>>), Done))  BY <3>2, WriteDone
      <3>4. Settled'  BY <2>1, <3>1, <3>3, SettledPut
      <3>5. QED  BY <2>1, <3>4, PlainHead, NotReading
    <2>4. QED  BY <2>2, <2>3
  <1>8. CASE ChunkWritten
    <2>1. /\ todo # <<>> /\ Step.k = "done" /\ res = "Busy" /\ todo' = Tail(todo)
          /\ UNCHANGED <<op, res, family, apsel, stale>>
      BY <1>8 DEF ChunkWritten, At, caches, history
    <2>2. QED  BY <2>1, SettledTail, PlainHead, NotReading
  <1>9. CASE Timeout
    <2>1. res' # "Busy" /\ op' = op  BY <1>9 DEF Timeout, work
    <2>2. QED  BY <1>9, <2>1, TimeoutSettled, NotReading
  <1>10. CASE Finish
    <2>1. res' # "Busy" /\ op' = op  BY <1>10 DEF Finish, work
    <2>2. QED  BY <1>10, <2>1, FinishSettled, NotReading
  <1>11. QED
    BY <1>1, <1>2, <1>3, <1>4, <1>5, <1>6, <1>7, <1>8, <1>9, <1>10 DEF Perform

LEMMA AckSettled ==
  ASSUME Settled, ReadsCtrl, Planned, OnWire, Acknowledge,
         "apsel" \notin stale' => "apsel" \notin stale
  PROVE  Settled' /\ ReadsCtrl'
  <1>1. todo # <<>> /\ Step.k \in {"dp", "ap"}  BY OnWireStep
  <1>2. todo' = Tail(todo) /\ UNCHANGED <<op, res, family, apsel>>  BY DEF Acknowledge
  <1>3. QED  BY <1>1, <1>2, SettledTail, PlainTail

LEMMA SameSettled ==
  ASSUME Settled, ReadsCtrl, UNCHANGED <<op, res, family, apsel, todo, stale>>
  PROVE  Settled' /\ ReadsCtrl'
  BY SettledSame DEF ReadsCtrl, Plain

LEMMA FailEnds ==
  ASSUME Settled, NEW e, e # "Busy", Fail(e) PROVE Settled' /\ ReadsCtrl'
  <1>1. res' # "Busy" /\ op' = op  BY DEF Fail, work
  <1>2. QED  BY <1>1, FailSettled, NotReading

LEMMA TransferSettled ==
  ASSUME Settled, ReadsCtrl, Planned, Transfer PROVE Settled' /\ ReadsCtrl'
  <1>1. CASE Acked  BY <1>1, AckSettled DEF Acked
  <1>2. CASE AckedNotDone
    <2>1. OnWire /\ Acknowledge /\ ("apsel" \notin stale' => "apsel" \notin stale)
      BY <1>2 DEF AckedNotDone
    <2>2. QED  BY <2>1, AckSettled
  <1>3. CASE Refused
    <2>1. Fail("Fault")  BY <1>3 DEF Refused
    <2>2. QED  BY <2>1, FailEnds
  <1>4. CASE Unheard
    <2>1. Fail("NoAck")  BY <1>4 DEF Unheard
    <2>2. QED  BY <2>1, FailEnds
  <1>5. CASE Garbled
    <2>1. Fail("Parity")  BY <1>5 DEF Garbled
    <2>2. QED  BY <2>1, FailEnds
  <1>6. CASE AbortLost
    <2>1. Fail("Fault")  BY <1>6 DEF AbortLost
    <2>2. QED  BY <2>1, FailEnds
  <1>7. CASE Waited
    <2>1. CASE Fail("Wait")  BY <2>1, FailEnds
    <2>2. CASE UNCHANGED <<family, link, caches, work, todo, res, history>>
      <3>1. UNCHANGED <<op, res, family, apsel, todo, stale>>  BY <2>2 DEF caches, work, history
      <3>2. QED  BY <3>1, SameSettled
    <2>3. QED  BY <1>7, <2>1, <2>2 DEF Waited
  <1>8. CASE NoTarget
    <2>1. Fail("NoTarget")  BY <1>8 DEF NoTarget
    <2>2. QED  BY <2>1, FailEnds
  <1>9. QED
    BY <1>1, <1>2, <1>3, <1>4, <1>5, <1>6, <1>7, <1>8 DEF Transfer

LEMMA StepSettled ==
  ASSUME Settled, ReadsCtrl, CacheInv, [Next]_vars PROVE Settled' /\ ReadsCtrl'
  <1>1. CASE \E o \in Operations : Request(o)
    <2>1. PICK o \in Operations : Request(o)  BY <1>1
    <2>2. QED  BY <2>1, RequestSettled
  <1>2. CASE Perform  BY <1>2, PerformSettled DEF CacheInv
  <1>3. CASE Transfer  BY <1>3, TransferSettled DEF CacheInv
  <1>4. CASE PowerCycle
    <2>1. UNCHANGED <<op, res, family, apsel, todo, stale>>
      BY <1>4 DEF PowerCycle, caches, work, history
    <2>2. QED  BY <2>1, SameSettled
  <1>5. CASE UNCHANGED vars
    <2>1. UNCHANGED <<op, res, family, apsel, todo, stale>>
      BY <1>5 DEF vars, caches, work, history
    <2>2. QED  BY <2>1, SameSettled
  <1>6. QED  BY <1>1, <1>2, <1>3, <1>4, <1>5 DEF Next
-----------------------------------------------------------------------------
(* Every step keeps the kinds of the target, and moves what it should.     *)
TargetKinds ==
  /\ DOMAIN tar = DPs /\ DOMAIN latch = DPs /\ sticky \in [DPs -> BOOLEAN]
  /\ DOMAIN mem = 0 .. MemBytes - 1
Inside == InMemory /\ stale = {} => pos \in 0 .. op.span[2] /\ op.span \in Spans

LEMMA TargetSame ==
  ASSUME TargetKinds, UNCHANGED <<tar, latch, sticky, mem>> PROVE TargetKinds'
  BY DEF TargetKinds

LEMMA AcceptTarget ==
  ASSUME TargetKinds, Accept
  PROVE  DOMAIN tar' = DPs /\ DOMAIN latch' = DPs /\ DOMAIN mem' = 0 .. MemBytes - 1
  <1>1. CASE Hits(12)
    <2>1. AccessWord  BY <1>1 DEF Accept
    <2>2. DOMAIN tar' = DPs  BY <2>1 DEF AccessWord, TargetKinds
    <2>3. DOMAIN latch' = DPs  BY <2>1 DEF AccessWord, TargetKinds
    <2>4. DOMAIN mem' = DOMAIN mem
      <3>1. CASE Step.w
        <4>1. PICK n : n = (IF csw[link] THEN WordBytes ELSE 1)  OBVIOUS
        <4>2. mem' = [a \in DOMAIN mem |-> IF a \in tar[link] .. tar[link] + n - 1
                                           THEN Step.v[a - tar[link] + 1] ELSE mem[a]]
          BY <2>1, <3>1, <4>1 DEF AccessWord
        <4>3. QED  BY <4>2
      <3>2. CASE ~Step.w  BY <2>1, <3>2 DEF AccessWord
      <3>3. QED  BY <3>1, <3>2
    <2>5. QED  BY <2>2, <2>3, <2>4 DEF TargetKinds
  <1>2. CASE ~Hits(12)
    <2>1. /\ tar' = IF Hits(4) /\ Step.w THEN [tar EXCEPT ![link] = Step.v] ELSE tar
          /\ latch' = IF Step.k = "ap" /\ ~Step.w THEN [latch EXCEPT ![link] = Junk] ELSE latch
          /\ mem' = mem
      BY <1>2 DEF Accept
    <2>2. QED  BY <2>1 DEF TargetKinds
  <1>3. QED  BY <1>1, <1>2

LEMMA ClearTarget == ASSUME ClearSticky PROVE sticky' \in [DPs -> BOOLEAN]
  <1>1. \A d \in DPs : (sticky[d] /\ d # link) \in BOOLEAN  OBVIOUS
  <1>2. QED  BY <1>1 DEF ClearSticky

LEMMA StickyTarget ==
  ASSUME TargetKinds, NEW b \in BOOLEAN, sticky' = [sticky EXCEPT ![link] = b]
  PROVE  sticky' \in [DPs -> BOOLEAN]
  BY DEF TargetKinds

LEMMA TransferTarget == ASSUME TargetKinds, Transfer PROVE TargetKinds'
  <1>1. CASE Acked
    <2>1. PICK b \in BOOLEAN : b = (sticky[link] /\ Step.r # "ABORT")  OBVIOUS
    <2>2. sticky' = [sticky EXCEPT ![link] = b]  BY <1>1, <2>1 DEF Acked
    <2>3. Accept  BY <1>1 DEF Acked
    <2>4. QED  BY <2>2, <2>3, AcceptTarget, StickyTarget DEF TargetKinds
  <1>2. CASE AckedNotDone
    <2>1. sticky' = [sticky EXCEPT ![link] = TRUE] /\ UNCHANGED <<tar, latch, mem>>
      BY <1>2 DEF AckedNotDone
    <2>2. QED  BY <2>1, StickyTarget DEF TargetKinds
  <1>3. CASE Refused
    <2>1. ClearSticky /\ UNCHANGED <<tar, latch, mem>>  BY <1>3 DEF Refused
    <2>2. QED  BY <2>1, ClearTarget DEF TargetKinds
  <1>4. CASE Unheard
    <2>1. ClearSticky /\ UNCHANGED <<tar, latch, mem>>  BY <1>4 DEF Unheard
    <2>2. QED  BY <2>1, ClearTarget DEF TargetKinds
  <1>5. CASE Garbled
    <2>1. ClearSticky /\ Accept  BY <1>5 DEF Garbled
    <2>2. QED  BY <2>1, AcceptTarget, ClearTarget DEF TargetKinds
  <1>6. CASE AbortLost
    <2>1. sticky' = [sticky EXCEPT ![link] = TRUE] /\ UNCHANGED <<tar, latch, mem>>
      BY <1>6 DEF AbortLost
    <2>2. QED  BY <2>1, StickyTarget DEF TargetKinds
  <1>7. CASE Waited
    <2>1. UNCHANGED <<tar, latch, sticky, mem>>  BY <1>7 DEF Waited
    <2>2. QED  BY <2>1, TargetSame
  <1>8. CASE NoTarget
    <2>1. UNCHANGED <<tar, latch, sticky, mem>>  BY <1>8 DEF NoTarget
    <2>2. QED  BY <2>1, TargetSame
  <1>9. QED
    BY <1>1, <1>2, <1>3, <1>4, <1>5, <1>6, <1>7, <1>8 DEF Transfer

LEMMA StepTarget == ASSUME TargetKinds, [Next]_vars PROVE TargetKinds'
  <1>1. CASE \E o \in Operations : Request(o)
    <2>1. UNCHANGED <<tar, latch, sticky, mem>>  BY <1>1 DEF Request, target
    <2>2. QED  BY <2>1, TargetSame
  <1>2. CASE Perform
    <2>1. UNCHANGED <<tar, latch, sticky, mem>>
      BY <1>2 DEF Perform, Assign, EnsureCsw, SelectApBank, PollStatus, Address, NextChunk,
                  TakeChunk, ChunkWritten, Timeout, Finish, target
    <2>2. QED  BY <2>1, TargetSame
  <1>3. CASE Transfer  BY <1>3, TransferTarget
  <1>4. CASE PowerCycle
    <2>1. /\ UNCHANGED <<tar, latch, mem>> /\ sticky' = [d \in DPs |-> FALSE]
      BY <1>4 DEF PowerCycle
    <2>2. QED  BY <2>1 DEF TargetKinds
  <1>5. CASE UNCHANGED vars
    <2>1. UNCHANGED <<tar, latch, sticky, mem>>  BY <1>5 DEF vars, target
    <2>2. QED  BY <2>1, TargetSame
  <1>6. QED  BY <1>1, <1>2, <1>3, <1>4, <1>5 DEF Next

(* A memory access with nothing amiss began with nothing amiss.            *)
MemInv ==
  /\ CacheInv /\ TargetKinds /\ Inside /\ Settled /\ ReadsCtrl
  /\ InMemory /\ stale = {} => Moved

LEMMA StillAccess ==
  ASSUME MemInv, Perform \/ Transfer \/ PowerCycle \/ UNCHANGED vars, InMemory', stale' = {}
  PROVE  Access /\ Moved /\ op' = op /\ stale = {}
  <1>1. op' = op
    BY DEF Perform, Assign, EnsureCsw, SelectApBank, PollStatus, Address, NextChunk,
           TakeChunk, ChunkWritten, Timeout, Finish, Transfer, Acked, AckedNotDone, Acknowledge,
           Refused, Unheard, Garbled, AbortLost, Waited, NoTarget, Fail, PowerCycle, vars, work
  <1>2. InMemory  BY <1>1 DEF InMemory
  <1>3. op.name \notin {"connect", "select", "approtect", "erase_all"}  BY <1>2 DEF InMemory
  <1>4. stale = {}
    <2>1. CASE Finish
      <3>1. stale' = (stale \ {}) \ {}  BY <1>3, <2>1 DEF Finish
      <3>2. QED  BY <3>1
    <2>2. CASE Address
      <3>1. "link" \in stale'  BY <2>2 DEF Address
      <3>2. QED  BY <3>1
    <2>3. CASE \E e : Fail(e)
      <3>1. stale \subseteq stale'  BY <2>3 DEF Fail
      <3>2. QED  BY <3>1
    <2>4. CASE Acked \/ AckedNotDone
      <3>1. stale \subseteq stale'  BY <2>4 DEF Acked, AckedNotDone
      <3>2. QED  BY <3>1
    <2>5. CASE UNCHANGED stale  BY <2>5
    <2>6. \/ Finish \/ Address \/ Acked \/ AckedNotDone \/ (\E e : Fail(e)) \/ UNCHANGED stale
      BY DEF Perform, Assign, EnsureCsw, SelectApBank, PollStatus, NextChunk,
             TakeChunk, ChunkWritten, Timeout, Transfer, Refused, Unheard, Garbled, AbortLost,
             Waited, NoTarget, PowerCycle, vars, history
    <2>7. QED  BY <2>1, <2>2, <2>3, <2>4, <2>5, <2>6
  <1>5. ~CtrlOp  BY <1>3 DEF CtrlOp
  <1>6. apsel = MemAp  BY <1>4, <1>5 DEF MemInv, Settled
  <1>7. MemKinds  BY DEF MemInv, TargetKinds, Inside, MemKinds
  <1>8. QED  BY <1>1, <1>2, <1>4, <1>6, <1>7 DEF MemInv, Access

LEMMA UnderWay ==
  ASSUME Access, Moved, todo # <<>>, res = "Busy" PROVE InChunk /\ Progress
  BY DEF Moved, InChunk

(* In a memory access no step is assigned, polled, addressed or given up.  *)
LEMMA NotInChunk ==
  ASSUME Access, Moved PROVE ~(At("host") \/ At("poll") \/ At("line") \/ At("fail"))
  <1> SUFFICES ASSUME At("host") \/ At("poll") \/ At("line") \/ At("fail") PROVE FALSE
    OBVIOUS
  <1>1. todo # <<>> /\ res = "Busy" /\ Step.k \in {"host", "poll", "line", "fail"}  BY DEF At
  <1>2. InChunk  BY <1>1, UnderWay
  <1>3. QED  BY <1>1, <1>2, StepCases

LEMMA PerformMoved == ASSUME Access, Moved, Perform PROVE Moved'
  <1>1. ASSUME At("csw") \/ At("ap") \/ At("take") \/ At("done") PROVE InChunk /\ Progress
    BY <1>1, UnderWay DEF At
  <1>2. ~(Assign \/ PollStatus \/ Address \/ Timeout)
    BY NotInChunk DEF Assign, PollStatus, Address, Timeout
  <1>3. CASE EnsureCsw  BY <1>1, <1>3, EnsureCswMoved DEF EnsureCsw
  <1>4. CASE SelectApBank  BY <1>1, <1>4, SelectApBankMoved DEF SelectApBank
  <1>5. CASE NextChunk  BY <1>5, NextChunkMoved
  <1>6. CASE TakeChunk
    <2>1. InChunk /\ Progress  BY <1>1, <1>6 DEF TakeChunk
    <2>2. QED  BY <1>6, <2>1, TakenMoved, MergedMoved
  <1>7. CASE ChunkWritten
    <2>1. InChunk /\ Progress  BY <1>1, <1>7 DEF ChunkWritten
    <2>2. QED  BY <1>7, <2>1, WrittenMoved
  <1>8. CASE Finish  BY <1>8, FinishMoved
  <1>9. QED  BY <1>2, <1>3, <1>4, <1>5, <1>6, <1>7, <1>8 DEF Perform

LEMMA TransferMoved == ASSUME Access, Moved, Transfer, stale' = {} PROVE Moved'
  <1>0. Transfer => todo # <<>> /\ res = "Busy"
    BY DEF Transfer, Acked, AckedNotDone, Refused, Unheard, Garbled, AbortLost, Waited, NoTarget,
           OnWire, At
  <1>1. InChunk /\ Progress  BY <1>0, UnderWay
  <1>2. ASSUME NEW e, e \notin {"Busy", "Ok"}, Fail(e), mem' = mem PROVE Moved'
    BY <1>1, <1>2, FailMoved
  <1>3. CASE Acked  BY <1>1, <1>3, AckedMoved
  <1>4. CASE AckedNotDone  BY <1>1, <1>4, NotDoneMoved
  <1>5. CASE Refused
    <2>1. Fail("Fault") /\ mem' = mem  BY <1>5 DEF Refused
    <2>2. QED  BY <1>2, <2>1
  <1>6. CASE Unheard
    <2>1. Fail("NoAck") /\ mem' = mem  BY <1>6 DEF Unheard
    <2>2. QED  BY <1>2, <2>1
  <1>7. CASE Garbled
    <2>1. Fail("Parity") /\ Accept /\ ~Step.w  BY <1>7 DEF Garbled
    <2>2. mem' = mem  BY <2>1 DEF Accept, AccessWord
    <2>3. QED  BY <1>2, <2>1, <2>2
  <1>8. CASE AbortLost
    <2>1. Fail("Fault") /\ mem' = mem  BY <1>8 DEF AbortLost
    <2>2. QED  BY <1>2, <2>1
  <1>9. CASE Waited
    <2>1. UNCHANGED <<sel, csw, tar, latch, mem, sticky>>  BY <1>9 DEF Waited
    <2>2. CASE Fail("Wait")  BY <1>2, <2>1, <2>2
    <2>3. CASE UNCHANGED <<family, link, caches, work, todo, res, history>>
      <3>1. UNCHANGED <<target, caches, work, todo, res, history>>  BY <2>1, <2>3 DEF target
      <3>2. QED  BY <1>1, <3>1, IdleMoved
    <2>4. QED  BY <1>9, <2>2, <2>3 DEF Waited
  <1>10. CASE NoTarget
    <2>1. Fail("NoTarget") /\ mem' = mem  BY <1>10 DEF NoTarget
    <2>2. QED  BY <1>2, <2>1
  <1>11. QED
    BY <1>3, <1>4, <1>5, <1>6, <1>7, <1>8, <1>9, <1>10 DEF Transfer

LEMMA StandMoved == ASSUME Access, Moved, UNCHANGED vars PROVE Moved'
  <1>1. UNCHANGED <<target, caches, work, todo, res, history>>  BY DEF vars
  <1>2. UNCHANGED <<op, pos, buf, got, ops, mem, mem0>>  BY <1>1 DEF target, work, history
  <1>3. Progress'  BY <1>1, <1>2, SameProgress DEF Moved
  <1>4. CASE res = "Busy" /\ todo # <<>>
    <2>1. InChunk /\ Progress  BY <1>4, UnderWay
    <2>2. QED  BY <1>1, <2>1, IdleMoved
  <1>5. CASE res # "Busy" \/ todo = <<>>
    <2>1. todo' = todo /\ res' = res  BY <1>1
    <2>2. QED  BY <1>2, <1>3, <1>5, <2>1 DEF Moved, Working
  <1>6. QED  BY <1>4, <1>5

LEMMA StepMoved ==
  ASSUME MemInv, [Next]_vars, InMemory', stale' = {} PROVE Moved'
  <1>1. CASE \E o \in Operations : Request(o)
    <2>1. PICK o \in Operations : Request(o)  BY <1>1
    <2>2. DOMAIN mem = 0 .. MemBytes - 1 /\ Kinds  BY DEF MemInv, CacheInv, TargetKinds
    <2>3. QED  BY <2>1, <2>2, RequestMoved
  <1>2. CASE Perform  BY <1>2, StillAccess, PerformMoved
  <1>3. CASE Transfer  BY <1>3, StillAccess, TransferMoved
  <1>4. CASE PowerCycle  BY <1>4, StillAccess, PowerCycleMoved
  <1>5. CASE UNCHANGED vars  BY <1>5, StillAccess, StandMoved
  <1>6. QED  BY <1>1, <1>2, <1>3, <1>4, <1>5 DEF Next

LEMMA StepInside ==
  ASSUME MemInv, [Next]_vars, InMemory', stale' = {}
  PROVE  pos' \in 0 .. op'.span[2] /\ op'.span \in Spans
  <1>1. CASE \E o \in Operations : Request(o)
    <2>1. PICK o \in Operations : Request(o)  BY <1>1
    <2>2. op' = o /\ pos' = 0  BY <2>1 DEF Request
    <2>3. o.name \in {"read", "write"}  BY <2>2 DEF InMemory
    <2>4. o.span \in Spans  BY <2>3 DEF Operations
    <2>5. o.span[2] \in Nat
      <3>1. o.span \in Nat \X Nat  BY <2>4, SpansAssumption
      <3>2. QED  BY <3>1
    <2>6. QED  BY <2>2, <2>4, <2>5
  <1>2. CASE Perform \/ Transfer \/ PowerCycle \/ UNCHANGED vars
    <2>1. Access /\ Moved /\ op' = op  BY <1>2, StillAccess
    <2>2. pos \in 0 .. op.span[2] /\ op.span \in Spans  BY <2>1 DEF Access, MemKinds
    <2>3. CASE pos' = pos  BY <2>1, <2>2, <2>3
    <2>4. CASE At("take") \/ At("done")
      <3>1. InChunk  BY <2>1, <2>4, UnderWay DEF At
      <3>2. InOp  BY <3>1, InChunkFacts
      <3>3. Bytes \in Nat /\ pos \in Nat /\ pos + Bytes <= op.span[2] /\ op.span[2] \in Nat
        BY <3>2, ChunkFacts DEF InOp
      <3>4. CASE pos' = pos + Bytes  BY <2>1, <2>2, <3>3, <3>4
      <3>5. QED  BY <1>2, <2>3, <2>4, <3>4
        DEF Perform, Assign, EnsureCsw, SelectApBank, PollStatus, Address, NextChunk,
            TakeChunk, ChunkWritten, Timeout, Finish, Transfer, Acked, AckedNotDone, Acknowledge,
            Refused, Unheard, Garbled, AbortLost, Waited, NoTarget, Fail, PowerCycle, vars, work
    <2>5. QED  BY <1>2, <2>3, <2>4
      DEF Perform, Assign, EnsureCsw, SelectApBank, PollStatus, Address, NextChunk,
          TakeChunk, ChunkWritten, Timeout, Finish, Transfer, Acked, AckedNotDone, Acknowledge,
          Refused, Unheard, Garbled, AbortLost, Waited, NoTarget, Fail, PowerCycle, vars, work
  <1>3. QED  BY <1>1, <1>2 DEF Next

LEMMA InitMem == ASSUME Init PROVE MemInv
  <1>1. CacheInv  BY InitCache
  <1>2. TargetKinds
    <2>1. sticky \in [DPs -> BOOLEAN]  BY DEF Init
    <2>2. QED  BY <2>1 DEF Init, TargetKinds
  <1>3. ~InMemory /\ res = "Start" /\ apsel = MemAp  BY DEF Init, InMemory
  <1>4. Settled /\ ReadsCtrl /\ Inside  BY <1>3 DEF Settled, ReadsCtrl, Inside
  <1>5. QED  BY <1>1, <1>2, <1>3, <1>4 DEF MemInv

LEMMA MemAlways == Spec => []MemInv
  <1>1. Init => MemInv  BY InitMem
  <1>2. ASSUME MemInv, [Next]_vars PROVE MemInv'
    <2>1. CacheInv'  BY <1>2, StepCache DEF MemInv
    <2>2. TargetKinds'  BY <1>2, StepTarget DEF MemInv
    <2>3. Settled' /\ ReadsCtrl'  BY <1>2, StepSettled DEF MemInv
    <2>4. Inside'  BY <1>2, StepInside DEF Inside
    <2>5. InMemory' /\ stale' = {} => Moved'  BY <1>2, StepMoved
    <2>6. QED  BY <2>1, <2>2, <2>3, <2>4, <2>5 DEF MemInv
  <1>3. QED  BY <1>1, <1>2, PTL DEF Spec

(* A read that returns Ok holds the memory at the address asked for, byte   *)
(* for byte; a write changes no byte outside its range, not even when it    *)
(* fails half-way, and when it returns Ok the whole range is in memory:     *)
(* whatever the alignment, the sizes of the words, the TAR runs and the     *)
(* chunks, the operations before it and the transfers that go wrong, unless *)
(* one of the reasons in stale stands.                                      *)
THEOREM MemoryMoved == Spec => []MemoryExact
  <1>1. MemInv => MemoryExact
    <2> SUFFICES ASSUME MemInv, stale = {} PROVE MemoryExact
      BY DEF MemoryExact
    <2>1. InMemory => Progress /\ (res = "Ok" => pos = op.span[2])  BY DEF MemInv, Moved
    <2>2. ASSUME res = "Ok", op.name = "read"
          PROVE  buf = [i \in 1 .. op.span[2] |-> mem[op.span[1] + i - 1]]
      BY <2>1, <2>2 DEF InMemory, Progress
    <2>3. ASSUME op.name = "write", NEW a \in DOMAIN mem
          PROVE  /\ mem[a] = mem0[a] \/ (InSpan(a, op.span) /\ mem[a] = Data(a - op.span[1]))
                 /\ InSpan(a, op.span) /\ res = "Ok" => mem[a] = Data(a - op.span[1])
      <3>1. Progress /\ (res = "Ok" => pos = op.span[2])  BY <2>1, <2>3 DEF InMemory
      <3>2. a \in Int /\ op.span[1] \in Nat /\ op.span[2] \in Nat
        BY DEF MemInv, TargetKinds, CacheInv, Kinds
      <3>3. InSpan(a, op.span) => a - op.span[1] < op.span[2]  BY <3>2 DEF InSpan
      <3>4. QED  BY <2>3, <3>1, <3>3 DEF Progress
    <2>4. QED  BY <2>2, <2>3 DEF MemoryExact, InSpan
  <1>2. QED  BY <1>1, MemAlways, PTL
=============================================================================
