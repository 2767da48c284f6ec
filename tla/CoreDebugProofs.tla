-------------------------- MODULE CoreDebugProofs --------------------------
(***************************************************************************)
(* Run control, bootrom calls, comparators and the halt reason of one      *)
(* core, for any registers, addresses and watchpoints, any number of       *)
(* comparators, polls, operations and failing accesses.                    *)
(***************************************************************************)
EXTENDS CoreDebug, SequenceTheorems, TLAPS

Levels == {"user", "arg", "call"}

(* The steps an operation can have ahead.                                  *)
Steps ==
  [k : {"dhcsr"}, x : BOOLEAN \X BOOLEAN \X BOOLEAN]
    \cup [k : {"save", "arg", "restore"}, x : Regs]
    \cup [k : {"wait", "callwait", "fpscan", "fpfind", "dwtscan", "dwtfind", "match"}, x : Nat \ {0}]
    \cup [k : {"tramp", "fpctrl", "dfsr", "waited", "expired"}, x : {0}]
    \cup [k : {"fpwrite"}, x : FpComps \X (Breakable \cup {Free})]
    \cup [k : {"comp"}, x : DwtComps \X Watches]
    \cup [k : {"function"}, x : DwtComps \X (Watches \cup {Free})]
    \cup [k : {"reply"}, x : BOOLEAN]
    \cup [k : {"clrdfsr"}, x : SUBSET Causes]

(* What is scanned for can be put into a comparator.                       *)
Scans ==
  \A j \in 1 .. Len(todo) :
    /\ todo[j].k = "fpscan" => op.x \in Breakable
    /\ todo[j].k = "dwtscan" => op.x \in asked

TypeInv ==
  /\ TypeOK /\ todo \in Seq(Steps) /\ asked \subseteq Watches
  /\ regs0 \in [Regs -> Levels] /\ Scans

(* The FPB: no two comparators hold the same address, an address is        *)
(* written only where none holds it. A scan is the last step ahead.        *)
FpbAt(j) ==
  /\ todo[j].k = "fpscan" => j = Len(todo)
  /\ todo[j].k = "fpscan" =>
       \/ /\ j = 1 /\ (free # 0 => fp[free] = Free)
          /\ \A i \in FpComps : i < todo[j].x => fp[i] # op.x
       \/ todo[j].x = 1 /\ free = 0
  /\ todo[j].k = "fpwrite" /\ todo[j].x[2] # Free =>
       j = 1 /\ \A i \in FpComps : fp[i] # todo[j].x[2]

Fpb ==
  /\ \A i, j \in FpComps : fp[i] # Free /\ fp[i] = fp[j] => i = j
  /\ \A j \in 1 .. Len(todo) : FpbAt(j)

(* The DWT: COMP and MASK are written of a comparator that is off, and     *)
(* FUNCTION right behind them.                                             *)
DwtAt(j) ==
  /\ todo[j].k = "comp" =>
       /\ j = 1 /\ todo[j].x[2] \in asked
       /\ dwt[todo[j].x[1]] = Free /\ ~matched[todo[j].x[1]]
  /\ todo[j].k = "function" /\ todo[j].x[2] # Free =>
       \/ j = 1 /\ half[todo[j].x[1]] = todo[j].x[2] /\ todo[j].x[2] \in asked
       \/ j = 2 /\ todo[1] = S("comp", todo[2].x)

(* What DFSR and the MATCHED bits hold is of this stop, or was held when   *)
(* the core was last started.                                              *)
Known == why \cup left
Remembered == dfsr \subseteq Known /\ \A i \in DwtComps : matched[i] => half[i] \in Known

Dwt ==
  /\ WatchArmedWhole /\ Remembered
  /\ \A j \in 1 .. Len(todo) : DwtAt(j)

(* Where hw_breakpoint_set and hw_breakpoint_clear are.                    *)
Setting ==
  \/ Len(todo) = 1 /\ todo[1] = S("reply", FALSE)
  \/ Len(todo) = 2 /\ todo[1] = S("fpctrl", 0) /\ todo[2] = S("fpscan", 1)
  \/ /\ fp_on
     /\ \/ Len(todo) = 1 /\ todo[1].k = "fpscan"
        \/ Len(todo) = 2 /\ todo[1].k = "fpwrite" /\ todo[1].x[2] = op.x /\ todo[2] = S("reply", TRUE)
        \/ Len(todo) = 1 /\ todo[1] = S("reply", TRUE) /\ \E i \in FpComps : fp[i] = op.x

Clearing ==
  \/ /\ Len(todo) = 1 /\ todo[1].k = "reply" /\ \A i \in FpComps : fp[i] # op.x
  \/ /\ Len(todo) = 1 /\ todo[1].k = "fpfind"
     /\ \A i \in FpComps : i < todo[1].x => fp[i] # op.x
  \/ /\ Len(todo) = 2 /\ todo[1].k = "fpwrite" /\ todo[1].x[2] = Free
     /\ fp[todo[1].x[1]] = op.x /\ todo[2] = S("reply", TRUE)

(* How far clear_all has come.                                             *)
Units == NumFp + NumDwt
ClearedUnits == Units - Len(todo)
Sweeping ==
  /\ Len(todo) <= Units
  /\ \A j \in 1 .. Len(todo) : todo[j] = UnitsClear[ClearedUnits + j]
  /\ \A i \in FpComps : i <= ClearedUnits => fp[i] = Free
  /\ \A i \in DwtComps : NumFp + i <= ClearedUnits => dwt[i] = Free

Replying ==
  /\ res = "Busy" /\ op.name = "break" => Setting
  /\ res = "Busy" /\ op.name = "unbreak" => Clearing
  /\ res = "Busy" /\ op.name = "clear" => Sweeping
  /\ ReplyIsArmed

(* Where a bootrom call is: todo is what is left of CallFunction, but for  *)
(* the polls and for the wait that has run out.                            *)
N == Len(Clobbered)
Total == 3 * N + 7
Made == Total - Len(todo)
SameStep(s, t) ==
  IF t.k = "callwait" THEN s.k = "callwait"
  ELSE IF t.k = "waited" THEN s.k \in {"waited", "expired"} ELSE s = t
Expired == \E j \in 1 .. Len(todo) : todo[j].k = "expired"

Calling ==
  /\ Len(todo) <= Total
  /\ \A j \in 1 .. Len(todo) : SameStep(todo[j], CallFunction[Made + j])
  /\ Made <= 2 * N + 2 \/ (Made >= 2 * N + 4 /\ ~Expired) => halted
  /\ Made >= 2 * N + 6 => ~c_maskints
  /\ Made <= N + 1 => regs = regs0
  /\ \A i \in 1 .. N : i <= Made => saved[Clobbered[i]] = regs0[Clobbered[i]]
  /\ \A i \in 1 .. N : i + 2 * N + 7 <= Made => regs[Clobbered[i]] = regs0[Clobbered[i]]

Called ==
  /\ res = "Busy" /\ op.name = "call" => Calling
  /\ CallTransparent

(* The reason of a halt: what has been read of it is still known.          *)
ReasonAt(j) ==
  /\ todo[j].k \in {"dfsr", "clrdfsr", "match"}
  /\ todo[j].k = "clrdfsr" => todo[j].x \subseteq Known
  /\ todo[j].k = "match" => "DWTTRAP" \in Known

Reasoning ==
  /\ ReasonHeld
  /\ res = "Busy" /\ op.name = "reason" =>
       Len(todo) <= 1 /\ \A j \in 1 .. Len(todo) : ReasonAt(j)

-----------------------------------------------------------------------------
(* Steps put in front of what is left behind the one made.                 *)
LEMMA Onto ==
  ASSUME NEW Q, NEW s \in Seq(Q), NEW t \in Seq(Q), s # <<>>
  PROVE  /\ t \o Tail(s) \in Seq(Q) /\ Len(t \o Tail(s)) = Len(t) + Len(s) - 1
         /\ Len(s) >= 1 /\ Head(s) = s[1]
         /\ \A j \in 1 .. Len(t) : (t \o Tail(s))[j] = t[j]
         /\ \A j \in Len(t) + 1 .. Len(t) + Len(s) - 1 : (t \o Tail(s))[j] = s[j - Len(t) + 1]
  <1>1. Tail(s) \in Seq(Q) /\ Len(Tail(s)) = Len(s) - 1 /\ Len(s) \in Nat /\ Len(s) >= 1
        /\ Len(t) \in Nat /\ Head(s) = s[1]
    OBVIOUS
  <1>2. \A j \in 1 .. Len(s) - 1 : Tail(s)[j] = s[j + 1]  OBVIOUS
  <1>3. t \o Tail(s) \in Seq(Q) /\ Len(t \o Tail(s)) = Len(t) + Len(Tail(s))
        /\ \A j \in 1 .. Len(t) + Len(Tail(s)) :
             (t \o Tail(s))[j] = IF j <= Len(t) THEN t[j] ELSE Tail(s)[j - Len(t)]
    BY <1>1, ConcatProperties
  <1>4. ASSUME NEW j \in Len(t) + 1 .. Len(t) + Len(s) - 1
        PROVE  (t \o Tail(s))[j] = s[j - Len(t) + 1]
    <2>1. j \in 1 .. Len(t) + Len(Tail(s)) /\ ~(j <= Len(t)) /\ j - Len(t) \in 1 .. Len(s) - 1
      BY <1>1
    <2>2. (t \o Tail(s))[j] = Tail(s)[j - Len(t)]  BY <1>3, <2>1
    <2>3. QED  BY <1>2, <2>1, <2>2
  <1>5. \A j \in 1 .. Len(t) : (t \o Tail(s))[j] = t[j]
    BY <1>1, <1>3
  <1>6. QED  BY <1>1, <1>3, <1>4, <1>5

(* n steps stand in front of what was behind the first one.                *)
Ahead(n) ==
  /\ Len(todo') = n + Len(todo) - 1
  /\ \A j \in n + 1 .. Len(todo') : todo'[j] = todo[j - n + 1]

LEMMA NextStep ==
  ASSUME todo \in Seq(Steps), todo # <<>>
  PROVE  Step = todo[1] /\ Step \in Steps /\ Len(todo) \in Nat /\ Len(todo) >= 1
         /\ \A j \in 1 .. Len(todo) : todo[j] \in Steps
  <1>1. Head(todo) = todo[1] /\ Len(todo) \in Nat /\ Len(todo) >= 1
        /\ \A j \in 1 .. Len(todo) : todo[j] \in Steps
    OBVIOUS
  <1>2. QED  BY <1>1 DEF Step

LEMMA GoNone ==
  ASSUME todo \in Seq(Steps), todo # <<>>, todo' = <<>> \o Tail(todo)
  PROVE  todo' \in Seq(Steps) /\ Ahead(0)
  <1>1. <<>> \in Seq(Steps) /\ Len(<<>>) = 0  OBVIOUS
  <1>2. /\ todo' \in Seq(Steps) /\ Len(todo') = 0 + Len(todo) - 1
        /\ \A j \in 0 + 1 .. 0 + Len(todo) - 1 : todo'[j] = todo[j - 0 + 1]
    BY <1>1, Onto
  <1>3. QED  BY <1>2 DEF Ahead

LEMMA GoTail ==
  ASSUME todo \in Seq(Steps), todo # <<>>, todo' = Tail(todo)
  PROVE  todo' \in Seq(Steps) /\ Ahead(0)
  <1>1. Tail(todo) \in Seq(Steps) /\ Len(Tail(todo)) = Len(todo) - 1 /\ Len(todo) \in Nat
        /\ \A j \in 1 .. Len(todo) - 1 : Tail(todo)[j] = todo[j + 1]
    OBVIOUS
  <1>2. ASSUME NEW j \in 0 + 1 .. Len(todo') PROVE todo'[j] = todo[j - 0 + 1]
    BY <1>1
  <1>3. Len(todo') = 0 + Len(todo) - 1  BY <1>1
  <1>4. QED  BY <1>1, <1>2, <1>3 DEF Ahead

LEMMA GoOne ==
  ASSUME todo \in Seq(Steps), todo # <<>>, NEW a \in Steps, todo' = <<a>> \o Tail(todo)
  PROVE  todo' \in Seq(Steps) /\ Ahead(1) /\ todo'[1] = a
  <1>1. <<a>> \in Seq(Steps) /\ Len(<<a>>) = 1 /\ <<a>>[1] = a  OBVIOUS
  <1>2. /\ todo' \in Seq(Steps) /\ Len(todo') = 1 + Len(todo) - 1
        /\ \A j \in 1 .. 1 : todo'[j] = <<a>>[j]
        /\ \A j \in 1 + 1 .. 1 + Len(todo) - 1 : todo'[j] = todo[j - 1 + 1]
    BY <1>1, Onto
  <1>3. QED  BY <1>1, <1>2 DEF Ahead

LEMMA GoTwo ==
  ASSUME todo \in Seq(Steps), todo # <<>>, NEW a \in Steps, NEW b \in Steps,
         todo' = <<a, b>> \o Tail(todo)
  PROVE  todo' \in Seq(Steps) /\ Ahead(2) /\ todo'[1] = a /\ todo'[2] = b
  <1>1. <<a, b>> \in Seq(Steps) /\ Len(<<a, b>>) = 2 /\ <<a, b>>[1] = a /\ <<a, b>>[2] = b
    OBVIOUS
  <1>2. /\ todo' \in Seq(Steps) /\ Len(todo') = 2 + Len(todo) - 1
        /\ \A j \in 1 .. 2 : todo'[j] = <<a, b>>[j]
        /\ \A j \in 2 + 1 .. 2 + Len(todo) - 1 : todo'[j] = todo[j - 2 + 1]
    BY <1>1, Onto
  <1>3. QED  BY <1>1, <1>2 DEF Ahead

LEMMA GoThree ==
  ASSUME todo \in Seq(Steps), todo # <<>>, NEW a \in Steps, NEW b \in Steps, NEW c \in Steps,
         todo' = <<a, b, c>> \o Tail(todo)
  PROVE  todo' \in Seq(Steps) /\ Ahead(3) /\ todo'[1] = a /\ todo'[2] = b /\ todo'[3] = c
  <1>1. /\ <<a, b, c>> \in Seq(Steps) /\ Len(<<a, b, c>>) = 3
        /\ <<a, b, c>>[1] = a /\ <<a, b, c>>[2] = b /\ <<a, b, c>>[3] = c
    OBVIOUS
  <1>2. /\ todo' \in Seq(Steps) /\ Len(todo') = 3 + Len(todo) - 1
        /\ \A j \in 1 .. 3 : todo'[j] = <<a, b, c>>[j]
        /\ \A j \in 3 + 1 .. 3 + Len(todo) - 1 : todo'[j] = todo[j - 3 + 1]
    BY <1>1, Onto
  <1>3. QED  BY <1>1, <1>2 DEF Ahead

(* The wait that has run out marks the error it will return.               *)
Expire ==
  todo' = [i \in 1 .. Len(todo) - 1 |->
             IF todo[i + 1].k = "waited" THEN S("expired", 0) ELSE todo[i + 1]]

LEMMA GoExpired ==
  ASSUME todo \in Seq(Steps), todo # <<>>, Expire
  PROVE  /\ todo' \in Seq(Steps) /\ Len(todo') = Len(todo) - 1
         /\ \A j \in 1 .. Len(todo') :
              todo'[j] = IF todo[j + 1].k = "waited" THEN S("expired", 0) ELSE todo[j + 1]
  <1>1. Len(todo) \in Nat /\ Len(todo) >= 1 /\ \A j \in 1 .. Len(todo) : todo[j] \in Steps
    BY NextStep
  <1>2. S("expired", 0) \in Steps  BY DEF Steps, S
  <1>3. \A i \in 1 .. Len(todo) - 1 :
          (IF todo[i + 1].k = "waited" THEN S("expired", 0) ELSE todo[i + 1]) \in Steps
    BY <1>1, <1>2
  <1>4. Len(todo) - 1 \in Nat  BY <1>1
  <1>5. todo' \in [1 .. Len(todo) - 1 -> Steps]  BY <1>3 DEF Expire
  <1>6. todo' \in Seq(Steps) /\ Len(todo') = Len(todo) - 1
    BY <1>4, <1>5, SeqDef, LenProperties
  <1>7. QED  BY <1>6 DEF Expire

(* What a step of each kind carries.                                       *)
LEMMA Carried ==
  ASSUME NEW s \in Steps
  PROVE  /\ s.k = "dhcsr" => s.x[1] \in BOOLEAN /\ s.x[2] \in BOOLEAN /\ s.x[3] \in BOOLEAN
         /\ s.k \in {"save", "arg", "restore"} => s.x \in Regs
         /\ s.k \in {"wait", "callwait", "fpscan", "fpfind", "dwtscan", "dwtfind", "match"}
              => s.x \in Nat \ {0}
         /\ s.k = "fpwrite" => s.x[1] \in FpComps /\ s.x[2] \in Breakable \cup {Free}
         /\ s.k = "comp" => s.x[1] \in DwtComps /\ s.x[2] \in Watches
         /\ s.k = "function" => s.x[1] \in DwtComps /\ s.x[2] \in Watches \cup {Free}
         /\ s.k = "clrdfsr" => s.x \subseteq Causes
         /\ s.k = "reply" => s.x \in BOOLEAN
         /\ s.k \in {"dhcsr", "save", "arg", "restore", "wait", "callwait", "fpscan", "fpfind",
                     "dwtscan", "dwtfind", "match", "tramp", "fpctrl", "dfsr", "waited",
                     "expired", "fpwrite", "comp", "function", "reply", "clrdfsr"}
         /\ s = S(s.k, s.x)
  BY DEF Steps, S

(* One access keeps the types of the target.                               *)
LEMMA EffectType ==
  ASSUME TypeInv, Pending, Effect \/ UNCHANGED target
  PROVE  /\ halted' \in BOOLEAN /\ c_halt' \in BOOLEAN /\ c_maskints' \in BOOLEAN
         /\ c_step' \in BOOLEAN /\ regs' \in [Regs -> Levels] /\ tramp' \in BOOLEAN
         /\ fp_on' \in BOOLEAN /\ dfsr' \subseteq Causes
         /\ fp' \in [FpComps -> Breakable \cup {Free}]
         /\ dwt' \in [DwtComps -> Watches \cup {Free}]
         /\ half' \in [DwtComps -> Watches \cup {Free}]
         /\ matched' \in [DwtComps -> BOOLEAN]
  <1>0. /\ halted \in BOOLEAN /\ c_halt \in BOOLEAN /\ c_maskints \in BOOLEAN
        /\ c_step \in BOOLEAN /\ regs \in [Regs -> Levels] /\ tramp \in BOOLEAN
        /\ saved \in [Regs -> Levels]
        /\ fp_on \in BOOLEAN /\ dfsr \subseteq Causes
        /\ fp \in [FpComps -> Breakable \cup {Free}]
        /\ dwt \in [DwtComps -> Watches \cup {Free}]
        /\ half \in [DwtComps -> Watches \cup {Free}]
        /\ matched \in [DwtComps -> BOOLEAN]
        /\ todo \in Seq(Steps) /\ todo # <<>>
    BY DEF TypeInv, TypeOK, Levels, Pending
  <1>1. Step \in Steps  BY <1>0, NextStep
  <1>2. CASE UNCHANGED target
    BY <1>0, <1>2 DEF target, run, units
  <1>3. CASE Effect
    <2>1. /\ halted' \in BOOLEAN /\ c_halt' \in BOOLEAN
          /\ c_maskints' \in BOOLEAN /\ c_step' \in BOOLEAN
      <3>1. CASE Step.k = "dhcsr"
        <4>1. X[1] \in BOOLEAN /\ X[2] \in BOOLEAN /\ X[3] \in BOOLEAN
          BY <1>1, <3>1, Carried DEF X
        <4>2. c_halt' = X[1] /\ c_maskints' = X[2] /\ c_step' = X[3]
              /\ halted' = (halted /\ X[1])
          BY <1>3, <3>1 DEF Effect
        <4>3. (halted /\ X[1]) \in BOOLEAN  OBVIOUS
        <4>4. halted' \in BOOLEAN  BY <4>2, <4>3, Zenon
        <4>5. QED  BY <4>1, <4>2, <4>4, Zenon
      <3>2. CASE Step.k # "dhcsr"
        <4>1. UNCHANGED run  BY <1>3, <3>2 DEF Effect
        <4>2. QED  BY <1>0, <4>1 DEF run
      <3>3. QED  BY <3>1, <3>2
    <2>2. regs' \in [Regs -> Levels]
      <3>1. CASE Step.k = "arg"
        BY <1>0, <1>3, <3>1 DEF Effect, Levels
      <3>2. CASE Step.k = "restore"
        <4>1. X \in Regs  BY <1>1, <3>2, Carried DEF X
        <4>2. saved[X] \in Levels  BY <1>0, <4>1
        <4>3. regs' = [regs EXCEPT ![X] = saved[X]]  BY <1>3, <3>2 DEF Effect
        <4>4. QED  BY <1>0, <4>2, <4>3
      <3>3. CASE Step.k \notin {"arg", "restore"}
        BY <1>0, <1>3, <3>3 DEF Effect
      <3>4. QED  BY <3>1, <3>2, <3>3
    <2>3. tramp' \in BOOLEAN /\ fp_on' \in BOOLEAN
      <3>1. tramp' = (tramp \/ Step.k = "tramp") /\ fp_on' = (fp_on \/ Step.k = "fpctrl")
        BY <1>3 DEF Effect
      <3>2. QED  BY <3>1, Zenon
    <2>4. dfsr' \subseteq Causes
      BY <1>0, <1>3 DEF Effect
    <2>5. fp' \in [FpComps -> Breakable \cup {Free}]
      <3>1. CASE Step.k = "fpwrite"
        <4>1. X[1] \in FpComps /\ X[2] \in Breakable \cup {Free}
          BY <1>1, <3>1, Carried DEF X
        <4>2. fp' = [fp EXCEPT ![X[1]] = X[2]]  BY <1>3, <3>1 DEF Effect
        <4>3. QED  BY <1>0, <4>1, <4>2
      <3>2. CASE Step.k # "fpwrite"
        BY <1>0, <1>3, <3>2 DEF Effect
      <3>3. QED  BY <3>1, <3>2
    <2>6. dwt' \in [DwtComps -> Watches \cup {Free}]
      <3>1. CASE Step.k = "function"
        <4>1. X[1] \in DwtComps /\ X[2] \in Watches \cup {Free}
          BY <1>1, <3>1, Carried DEF X
        <4>2. dwt' = [dwt EXCEPT ![X[1]] = X[2]]  BY <1>3, <3>1 DEF Effect
        <4>3. QED  BY <1>0, <4>1, <4>2
      <3>2. CASE Step.k # "function"
        BY <1>0, <1>3, <3>2 DEF Effect
      <3>3. QED  BY <3>1, <3>2
    <2>7. half' \in [DwtComps -> Watches \cup {Free}]
      <3>1. CASE Step.k = "comp"
        <4>1. X[1] \in DwtComps /\ X[2] \in Watches \cup {Free}
          BY <1>1, <3>1, Carried DEF X
        <4>2. half' = [half EXCEPT ![X[1]] = X[2]]  BY <1>3, <3>1 DEF Effect
        <4>3. QED  BY <1>0, <4>1, <4>2
      <3>2. CASE Step.k # "comp"
        BY <1>0, <1>3, <3>2 DEF Effect
      <3>3. QED  BY <3>1, <3>2
    <2>8. matched' \in [DwtComps -> BOOLEAN]
      BY <1>0, <1>3 DEF Effect
    <2>9. QED  BY <2>1, <2>2, <2>3, <2>4, <2>5, <2>6, <2>7, <2>8
  <1>4. QED  BY <1>2, <1>3

(* No scan begins but of the operation's own.                              *)
LEMMA ScansAhead ==
  ASSUME Scans, todo \in Seq(Steps), todo # <<>>, UNCHANGED <<op, asked>>,
         NEW n \in Nat, Ahead(n), todo' \in Seq(Steps),
         \A j \in 1 .. n : /\ todo'[j].k = "fpscan" => op.x \in Breakable
                           /\ todo'[j].k = "dwtscan" => op.x \in asked
  PROVE  Scans'
  <1>1. Len(todo) \in Nat /\ Len(todo') = n + Len(todo) - 1  BY NextStep DEF Ahead
  <1> SUFFICES ASSUME NEW j \in 1 .. Len(todo')
               PROVE  /\ todo'[j].k = "fpscan" => op.x \in Breakable
                      /\ todo'[j].k = "dwtscan" => op.x \in asked
    BY DEF Scans
  <1>2. CASE j <= n  BY <1>2
  <1>3. CASE j > n
    <2>1. j \in n + 1 .. Len(todo') /\ j - n + 1 \in 1 .. Len(todo)  BY <1>1, <1>3
    <2>2. todo'[j] = todo[j - n + 1]  BY <2>1 DEF Ahead
    <2>3. QED  BY <2>1, <2>2 DEF Scans
  <1>4. QED  BY <1>2, <1>3

LEMMA EachStep ==
  ASSUME NEW k \in {"save", "arg", "restore"}
  PROVE  /\ N \in Nat /\ \A i \in 1 .. N : Clobbered[i] \in Regs
         /\ Each(k) \in Seq(Steps) /\ Len(Each(k)) = N
         /\ \A i \in 1 .. N : Each(k)[i] = S(k, Clobbered[i])
  <1>1. N \in Nat /\ DOMAIN Clobbered = 1 .. N /\ \A i \in 1 .. N : Clobbered[i] \in Regs
    BY ClobberedAssumption DEF N
  <1>2. \A i \in 1 .. N : S(k, Clobbered[i]) \in Steps
    BY <1>1 DEF S, Steps
  <1>3. Each(k) = [i \in 1 .. N |-> S(k, Clobbered[i])]  BY <1>1 DEF Each
  <1>4. Each(k) \in [1 .. N -> Steps]  BY <1>2, <1>3
  <1>5. Each(k) \in Seq(Steps) /\ Len(Each(k)) = N  BY <1>1, <1>4, SeqDef, LenProperties
  <1>6. QED  BY <1>1, <1>3, <1>5

LEMMA Joined ==
  ASSUME NEW Q, NEW s \in Seq(Q), NEW t \in Seq(Q)
  PROVE  /\ s \o t \in Seq(Q) /\ Len(s \o t) = Len(s) + Len(t)
         /\ \A i \in 1 .. Len(s) : (s \o t)[i] = s[i]
         /\ \A i \in 1 .. Len(t) : (s \o t)[Len(s) + i] = t[i]
  <1>1. /\ s \o t \in Seq(Q) /\ Len(s \o t) = Len(s) + Len(t)
        /\ \A i \in 1 .. Len(s) + Len(t) :
             (s \o t)[i] = IF i <= Len(s) THEN s[i] ELSE t[i - Len(s)]
    BY ConcatProperties
  <1>2. Len(s) \in Nat /\ Len(t) \in Nat  OBVIOUS
  <1>3. ASSUME NEW i \in 1 .. Len(s) PROVE (s \o t)[i] = s[i]
    <2>1. i \in 1 .. Len(s) + Len(t) /\ i <= Len(s)  BY <1>2
    <2>2. QED  BY <1>1, <2>1
  <1>4. ASSUME NEW i \in 1 .. Len(t) PROVE (s \o t)[Len(s) + i] = t[i]
    <2>1. Len(s) + i \in 1 .. Len(s) + Len(t) /\ ~(Len(s) + i <= Len(s))
          /\ (Len(s) + i) - Len(s) = i
      BY <1>2
    <2>2. QED  BY <1>1, <2>1
  <1>5. QED  BY <1>1, <1>3, <1>4

LEMMA SixSteps ==
  ASSUME NEW Q, NEW a \in Q, NEW b \in Q, NEW c \in Q, NEW d \in Q, NEW e \in Q, NEW f \in Q
  PROVE  LET s == <<a, b, c, d, e, f>>
         IN  /\ s \in Seq(Q) /\ Len(s) = 6 /\ s[1] = a /\ s[2] = b /\ s[3] = c
             /\ s[4] = d /\ s[5] = e /\ s[6] = f
  OBVIOUS

(* The bootrom call, step by step.                                         *)
LEMMA CallProgram ==
  /\ N \in Nat /\ CallFunction \in Seq(Steps) /\ Len(CallFunction) = Total
  /\ \A i \in 1 .. N : CallFunction[i] = S("save", Clobbered[i])
  /\ CallFunction[N + 1] = S("tramp", 0)
  /\ \A i \in 1 .. N : CallFunction[N + 1 + i] = S("arg", Clobbered[i])
  /\ CallFunction[2 * N + 2] = Dhcsr(TRUE, TRUE, FALSE)
  /\ CallFunction[2 * N + 3] = Dhcsr(FALSE, TRUE, FALSE)
  /\ CallFunction[2 * N + 4] = S("callwait", Polls)
  /\ CallFunction[2 * N + 5] = Dhcsr(TRUE, TRUE, FALSE)
  /\ CallFunction[2 * N + 6] = Dhcsr(TRUE, FALSE, FALSE)
  /\ CallFunction[2 * N + 7] = S("waited", 0)
  /\ \A i \in 1 .. N : CallFunction[2 * N + 7 + i] = S("restore", Clobbered[i])
  <1> DEFINE a == Each("save")
             b == <<S("tramp", 0)>>
             c == Each("arg")
             d == <<Dhcsr(TRUE, TRUE, FALSE), Dhcsr(FALSE, TRUE, FALSE), S("callwait", Polls),
                    Dhcsr(TRUE, TRUE, FALSE), Dhcsr(TRUE, FALSE, FALSE), S("waited", 0)>>
             e == Each("restore")
  <1>1. /\ N \in Nat /\ a \in Seq(Steps) /\ c \in Seq(Steps) /\ e \in Seq(Steps)
        /\ Len(a) = N /\ Len(c) = N /\ Len(e) = N
        /\ \A i \in 1 .. N : a[i] = S("save", Clobbered[i])
        /\ \A i \in 1 .. N : c[i] = S("arg", Clobbered[i])
        /\ \A i \in 1 .. N : e[i] = S("restore", Clobbered[i])
    BY EachStep
  <1>2. b \in Seq(Steps) /\ Len(b) = 1 /\ b[1] = S("tramp", 0)
    <2>1. S("tramp", 0) \in Steps  BY DEF S, Steps
    <2>2. QED  BY <2>1
  <1>3. /\ d \in Seq(Steps) /\ Len(d) = 6
        /\ d[1] = Dhcsr(TRUE, TRUE, FALSE) /\ d[2] = Dhcsr(FALSE, TRUE, FALSE)
        /\ d[3] = S("callwait", Polls) /\ d[4] = Dhcsr(TRUE, TRUE, FALSE)
        /\ d[5] = Dhcsr(TRUE, FALSE, FALSE) /\ d[6] = S("waited", 0)
    <2>1. \A x, y, z \in BOOLEAN : Dhcsr(x, y, z) \in Steps
      BY DEF S, Dhcsr, Steps
    <2>2. S("callwait", Polls) \in Steps /\ S("waited", 0) \in Steps
      BY CountsAssumption DEF S, Steps
    <2>3. /\ Dhcsr(TRUE, TRUE, FALSE) \in Steps /\ Dhcsr(FALSE, TRUE, FALSE) \in Steps
          /\ Dhcsr(TRUE, FALSE, FALSE) \in Steps
      BY <2>1
    <2>4. QED  BY <2>2, <2>3, SixSteps
  <1>4. CallFunction = (((a \o b) \o c) \o d) \o e
    BY DEF CallFunction
  <1> HIDE DEF a, b, c, d, e
  <1>5. /\ a \o b \in Seq(Steps) /\ Len(a \o b) = N + 1
        /\ \A i \in 1 .. N : (a \o b)[i] = a[i]
        /\ \A i \in 1 .. 1 : (a \o b)[N + i] = b[i]
    <2>1. a \in Seq(Steps) /\ b \in Seq(Steps)  BY <1>1, <1>2
    <2>2. /\ a \o b \in Seq(Steps) /\ Len(a \o b) = Len(a) + Len(b)
          /\ \A i \in 1 .. Len(a) : (a \o b)[i] = a[i]
          /\ \A i \in 1 .. Len(b) : (a \o b)[Len(a) + i] = b[i]
      BY <2>1, Joined
    <2>3. QED  BY <1>1, <1>2, <2>2, Zenon
  <1> DEFINE ab == a \o b
  <1>6. ab \in Seq(Steps) /\ Len(ab) = N + 1 /\ N + 1 \in Nat
    BY <1>1, <1>5
  <1> HIDE DEF ab
  <1>7. /\ ab \o c \in Seq(Steps) /\ Len(ab \o c) = (N + 1) + N
        /\ \A i \in 1 .. N + 1 : (ab \o c)[i] = ab[i]
        /\ \A i \in 1 .. N : (ab \o c)[(N + 1) + i] = c[i]
    <2>1. ab \in Seq(Steps) /\ c \in Seq(Steps)  BY <1>1, <1>6
    <2>2. /\ ab \o c \in Seq(Steps) /\ Len(ab \o c) = Len(ab) + Len(c)
          /\ \A i \in 1 .. Len(ab) : (ab \o c)[i] = ab[i]
          /\ \A i \in 1 .. Len(c) : (ab \o c)[Len(ab) + i] = c[i]
      BY <2>1, Joined
    <2>3. QED  BY <1>1, <1>6, <2>2, Zenon
  <1> DEFINE abc == ab \o c
  <1>8. abc \in Seq(Steps) /\ Len(abc) = 2 * N + 1 /\ 2 * N + 1 \in Nat
    BY <1>1, <1>7
  <1> HIDE DEF abc
  <1>9. /\ abc \o d \in Seq(Steps) /\ Len(abc \o d) = (2 * N + 1) + 6
        /\ \A i \in 1 .. 2 * N + 1 : (abc \o d)[i] = abc[i]
        /\ \A i \in 1 .. 6 : (abc \o d)[(2 * N + 1) + i] = d[i]
    <2>1. abc \in Seq(Steps) /\ d \in Seq(Steps)  BY <1>1, <1>3, <1>8
    <2>2. /\ abc \o d \in Seq(Steps) /\ Len(abc \o d) = Len(abc) + Len(d)
          /\ \A i \in 1 .. Len(abc) : (abc \o d)[i] = abc[i]
          /\ \A i \in 1 .. Len(d) : (abc \o d)[Len(abc) + i] = d[i]
      BY <2>1, Joined
    <2>3. QED  BY <1>1, <1>3, <1>8, <2>2, Zenon
  <1> DEFINE abcd == abc \o d
  <1>10. abcd \in Seq(Steps) /\ Len(abcd) = 2 * N + 7 /\ 2 * N + 7 \in Nat
    BY <1>1, <1>9
  <1> HIDE DEF abcd
  <1>11. /\ abcd \o e \in Seq(Steps) /\ Len(abcd \o e) = (2 * N + 7) + N
         /\ \A i \in 1 .. 2 * N + 7 : (abcd \o e)[i] = abcd[i]
         /\ \A i \in 1 .. N : (abcd \o e)[(2 * N + 7) + i] = e[i]
    <2>1. abcd \in Seq(Steps) /\ e \in Seq(Steps)  BY <1>1, <1>10
    <2>2. /\ abcd \o e \in Seq(Steps) /\ Len(abcd \o e) = Len(abcd) + Len(e)
          /\ \A i \in 1 .. Len(abcd) : (abcd \o e)[i] = abcd[i]
          /\ \A i \in 1 .. Len(e) : (abcd \o e)[Len(abcd) + i] = e[i]
      BY <2>1, Joined
    <2>3. QED  BY <1>1, <1>10, <2>2, Zenon
  <1>12. CallFunction = abcd \o e  BY <1>4 DEF ab, abc, abcd
  <1>13. CallFunction \in Seq(Steps) /\ Len(CallFunction) = Total
    BY <1>1, <1>12, <1>11 DEF Total
  <1>14. ASSUME NEW i \in 1 .. N
         PROVE  /\ CallFunction[i] = S("save", Clobbered[i])
                /\ CallFunction[N + 1 + i] = S("arg", Clobbered[i])
                /\ CallFunction[2 * N + 7 + i] = S("restore", Clobbered[i])
    <2>1. i \in 1 .. 2 * N + 7 /\ i \in 1 .. 2 * N + 1 /\ i \in 1 .. N + 1
          /\ N + 1 + i \in 1 .. 2 * N + 7 /\ N + 1 + i \in 1 .. 2 * N + 1
      BY <1>1
    <2>2. CallFunction[i] = a[i]
      <3>1. (abcd \o e)[i] = abcd[i]  BY <1>11, <2>1
      <3>2. abcd[i] = abc[i]  BY <1>9, <2>1 DEF abcd
      <3>3. abc[i] = ab[i]  BY <1>7, <2>1 DEF abc
      <3>4. ab[i] = a[i]  BY <1>5 DEF ab
      <3>5. QED  BY <1>12, <3>1, <3>2, <3>3, <3>4
    <2>3. CallFunction[N + 1 + i] = c[i]
      <3>1. (abcd \o e)[N + 1 + i] = abcd[N + 1 + i]  BY <1>11, <2>1
      <3>2. abcd[N + 1 + i] = abc[N + 1 + i]  BY <1>9, <2>1 DEF abcd
      <3>3. abc[N + 1 + i] = c[i]  BY <1>7 DEF abc
      <3>4. QED  BY <1>12, <3>1, <3>2, <3>3
    <2>4. CallFunction[2 * N + 7 + i] = e[i]
      BY <1>12, <1>11
    <2>5. QED  BY <1>1, <2>2, <2>3, <2>4
  <1>15. CallFunction[N + 1] = S("tramp", 0)
    <2>1. N + 1 \in 1 .. 2 * N + 7 /\ N + 1 \in 1 .. 2 * N + 1 /\ N + 1 \in 1 .. N + 1
      BY <1>1
    <2>2. (abcd \o e)[N + 1] = abcd[N + 1]  BY <1>11, <2>1
    <2>3. abcd[N + 1] = abc[N + 1]  BY <1>9, <2>1 DEF abcd
    <2>4. abc[N + 1] = ab[N + 1]  BY <1>7, <2>1 DEF abc
    <2>5. ab[N + 1] = b[1]
      <3>1. 1 \in 1 .. 1  OBVIOUS
      <3>2. QED  BY <1>5, <3>1 DEF ab
    <2>6. QED  BY <1>2, <1>12, <2>2, <2>3, <2>4, <2>5
  <1>16. \A i \in 1 .. 6 : CallFunction[2 * N + 1 + i] = d[i]
    <2> SUFFICES ASSUME NEW i \in 1 .. 6 PROVE CallFunction[2 * N + 1 + i] = d[i]  OBVIOUS
    <2>1. 2 * N + 1 + i \in 1 .. 2 * N + 7  BY <1>1
    <2>2. (abcd \o e)[2 * N + 1 + i] = abcd[2 * N + 1 + i]  BY <1>11, <2>1
    <2>3. abcd[2 * N + 1 + i] = d[i]
      <3>1. \A j \in 1 .. Len(d) : abcd[Len(abc) + j] = d[j]
        <4>1. abc \in Seq(Steps) /\ d \in Seq(Steps)  BY <1>3, <1>8
        <4>2. QED  BY <4>1, Joined DEF abcd
      <3>2. QED  BY <1>3, <1>8, <3>1, Zenon
    <2>4. QED  BY <1>12, <2>2, <2>3
  <1>17. /\ CallFunction[2 * N + 2] = d[1] /\ CallFunction[2 * N + 3] = d[2]
         /\ CallFunction[2 * N + 4] = d[3] /\ CallFunction[2 * N + 5] = d[4]
         /\ CallFunction[2 * N + 6] = d[5] /\ CallFunction[2 * N + 7] = d[6]
    <2>1. /\ 2 * N + 1 + 1 = 2 * N + 2 /\ 2 * N + 1 + 2 = 2 * N + 3 /\ 2 * N + 1 + 3 = 2 * N + 4
          /\ 2 * N + 1 + 4 = 2 * N + 5 /\ 2 * N + 1 + 5 = 2 * N + 6 /\ 2 * N + 1 + 6 = 2 * N + 7
      BY <1>1
    <2>2. 1 \in 1 .. 6 /\ 2 \in 1 .. 6 /\ 3 \in 1 .. 6 /\ 4 \in 1 .. 6 /\ 5 \in 1 .. 6 /\ 6 \in 1 .. 6  OBVIOUS
    <2>3. /\ CallFunction[2 * N + 1 + 1] = d[1] /\ CallFunction[2 * N + 1 + 2] = d[2]
          /\ CallFunction[2 * N + 1 + 3] = d[3] /\ CallFunction[2 * N + 1 + 4] = d[4]
          /\ CallFunction[2 * N + 1 + 5] = d[5] /\ CallFunction[2 * N + 1 + 6] = d[6]
      BY ONLY <1>16, <2>2, Zenon
    <2>4. QED  BY ONLY <2>1, <2>3, Zenon
  <1>18. QED  BY <1>1, <1>3, <1>13, <1>14, <1>15, <1>17

(* No comparator is touched by a call.                                     *)
CallKinds == {"save", "tramp", "arg", "dhcsr", "callwait", "waited", "restore"}

LEMMA CallIsQuiet == \A p \in 1 .. Total : CallFunction[p].k \in CallKinds
  <1> SUFFICES ASSUME NEW p \in 1 .. Total PROVE CallFunction[p].k \in CallKinds  OBVIOUS
  <1>0. N \in Nat  BY CallProgram
  <1>1. CASE p \in 1 .. N
    <2>1. CallFunction[p] = S("save", Clobbered[p])  BY <1>1, CallProgram
    <2>2. QED  BY <2>1 DEF S, CallKinds
  <1>2. CASE p \in N + 1 .. 2 * N + 1
    <2>1. CASE p = N + 1
      <3>1. CallFunction[p] = S("tramp", 0)  BY <2>1, CallProgram
      <3>2. QED  BY <3>1 DEF S, CallKinds
    <2>2. CASE p # N + 1
      <3>1. PICK i \in 1 .. N : p = N + 1 + i
        <4>1. p - N - 1 \in 1 .. N /\ p = N + 1 + (p - N - 1)  BY <1>0, <1>2, <2>2
        <4>2. QED  BY <4>1
      <3>2. CallFunction[p] = S("arg", Clobbered[i])  BY <3>1, CallProgram
      <3>3. QED  BY <3>2 DEF S, CallKinds
    <2>3. QED  BY <2>1, <2>2
  <1>3. CASE p \in 2 * N + 2 .. 2 * N + 7
    <2>1. \/ p = 2 * N + 2 \/ p = 2 * N + 3 \/ p = 2 * N + 4
          \/ p = 2 * N + 5 \/ p = 2 * N + 6 \/ p = 2 * N + 7
      BY <1>0, <1>3
    <2>2. /\ CallFunction[2 * N + 2].k = "dhcsr" /\ CallFunction[2 * N + 3].k = "dhcsr"
          /\ CallFunction[2 * N + 4].k = "callwait" /\ CallFunction[2 * N + 5].k = "dhcsr"
          /\ CallFunction[2 * N + 6].k = "dhcsr" /\ CallFunction[2 * N + 7].k = "waited"
      <3>1. /\ CallFunction[2 * N + 2] = Dhcsr(TRUE, TRUE, FALSE)
            /\ CallFunction[2 * N + 3] = Dhcsr(FALSE, TRUE, FALSE)
            /\ CallFunction[2 * N + 4] = S("callwait", Polls)
            /\ CallFunction[2 * N + 5] = Dhcsr(TRUE, TRUE, FALSE)
            /\ CallFunction[2 * N + 6] = Dhcsr(TRUE, FALSE, FALSE)
            /\ CallFunction[2 * N + 7] = S("waited", 0)
        BY CallProgram
      <3>2. \A x, y, z \in BOOLEAN : Dhcsr(x, y, z).k = "dhcsr"  BY DEF Dhcsr, S
      <3>3. S("callwait", Polls).k = "callwait" /\ S("waited", 0).k = "waited"  BY DEF S
      <3>4. QED  BY <3>1, <3>2, <3>3
    <2>3. QED  BY <2>1, <2>2 DEF CallKinds
  <1>4. CASE p > 2 * N + 7
    <2>1. PICK i \in 1 .. N : p = 2 * N + 7 + i
      <3>1. p - 2 * N - 7 \in 1 .. N /\ p = 2 * N + 7 + (p - 2 * N - 7)
        BY <1>0, <1>4 DEF Total
      <3>2. QED  BY <3>1
    <2>2. CallFunction[p] = S("restore", Clobbered[i])  BY <2>1, CallProgram
    <2>3. QED  BY <2>2 DEF S, CallKinds
  <1>5. QED  BY <1>0, <1>1, <1>2, <1>3, <1>4 DEF Total

LEMMA UnitsProgram ==
  /\ Units \in Nat /\ UnitsClear \in Seq(Steps) /\ Len(UnitsClear) = Units
  /\ \A i \in FpComps : i \in 1 .. Units /\ UnitsClear[i] = S("fpwrite", <<i, Free>>)
  /\ \A i \in DwtComps :
       NumFp + i \in 1 .. Units /\ UnitsClear[NumFp + i] = S("function", <<i, Free>>)
  /\ \A p \in 1 .. Units : p \in FpComps \/ (p - NumFp \in DwtComps /\ ~(p <= NumFp))
  <1>1. Units \in Nat /\ NumFp \in Nat /\ NumDwt \in Nat /\ Units = NumFp + NumDwt
    BY CountsAssumption DEF Units
  <1>2. UnitsClear = [p \in 1 .. Units |->
           IF p <= NumFp THEN S("fpwrite", <<p, Free>>) ELSE S("function", <<p - NumFp, Free>>)]
    BY DEF UnitsClear, Units
  <1>3. ASSUME NEW p \in 1 .. Units
        PROVE  /\ p <= NumFp => p \in FpComps /\ UnitsClear[p] = S("fpwrite", <<p, Free>>)
                                /\ UnitsClear[p] \in Steps
               /\ ~(p <= NumFp) => p - NumFp \in DwtComps
                                /\ UnitsClear[p] = S("function", <<p - NumFp, Free>>)
                                /\ UnitsClear[p] \in Steps
    <2>1. CASE p <= NumFp
      <3>1. p \in FpComps  BY <1>1, <2>1 DEF FpComps
      <3>2. S("fpwrite", <<p, Free>>) \in Steps  BY <3>1 DEF S, Steps
      <3>3. QED  BY <1>2, <2>1, <3>1, <3>2
    <2>2. CASE ~(p <= NumFp)
      <3>1. p - NumFp \in DwtComps  BY <1>1, <2>2 DEF DwtComps
      <3>2. S("function", <<p - NumFp, Free>>) \in Steps  BY <3>1 DEF S, Steps
      <3>3. QED  BY <1>2, <2>2, <3>1, <3>2
    <2>3. QED  BY <2>1, <2>2
  <1>4. \A p \in 1 .. Units : UnitsClear[p] \in Steps  BY <1>3
  <1>5. UnitsClear \in [1 .. Units -> Steps]  BY <1>2, <1>4
  <1>6. UnitsClear \in Seq(Steps) /\ Len(UnitsClear) = Units
    BY <1>1, <1>5, SeqDef, LenProperties
  <1>7. ASSUME NEW i \in FpComps
        PROVE  i \in 1 .. Units /\ UnitsClear[i] = S("fpwrite", <<i, Free>>)
    <2>1. i \in 1 .. Units /\ i <= NumFp  BY <1>1 DEF FpComps
    <2>2. QED  BY <1>3, <2>1
  <1>8. ASSUME NEW i \in DwtComps
        PROVE  NumFp + i \in 1 .. Units /\ UnitsClear[NumFp + i] = S("function", <<i, Free>>)
    <2>1. NumFp + i \in 1 .. Units /\ ~(NumFp + i <= NumFp) /\ (NumFp + i) - NumFp = i
      BY <1>1 DEF DwtComps
    <2>2. QED  BY <1>3, <2>1
  <1>9. \A p \in 1 .. Units : p \in FpComps \/ (p - NumFp \in DwtComps /\ ~(p <= NumFp))
    BY <1>3
  <1>10. QED  BY <1>1, <1>6, <1>7, <1>8, <1>9

LEMMA UnitsKinds ==
  \A p \in 1 .. Units : UnitsClear[p].k \in {"fpwrite", "function"} /\ UnitsClear[p].x[2] = Free
  <1> SUFFICES ASSUME NEW p \in 1 .. Units
               PROVE  UnitsClear[p].k \in {"fpwrite", "function"} /\ UnitsClear[p].x[2] = Free
    OBVIOUS
  <1>1. CASE p \in FpComps
    <2>1. UnitsClear[p] = S("fpwrite", <<p, Free>>)  BY <1>1, UnitsProgram
    <2>2. QED  BY <2>1 DEF S
  <1>2. CASE p - NumFp \in DwtComps
    <2>1. NumFp + (p - NumFp) = p  BY UnitsProgram, CountsAssumption
    <2>2. UnitsClear[p] = S("function", <<p - NumFp, Free>>)  BY <1>2, <2>1, UnitsProgram
    <2>3. QED  BY <2>2 DEF S
  <1>3. QED  BY <1>1, <1>2, UnitsProgram

(* The operation asked for, and what it has ahead.                         *)
LEMMA OneStep ==
  ASSUME NEW a \in Steps
  PROVE  <<a>> \in Seq(Steps) /\ Len(<<a>>) = 1 /\ <<a>>[1] = a
  OBVIOUS

LEMMA TwoSteps ==
  ASSUME NEW a \in Steps, NEW b \in Steps
  PROVE  <<a, b>> \in Seq(Steps) /\ Len(<<a, b>>) = 2 /\ <<a, b>>[1] = a /\ <<a, b>>[2] = b
  OBVIOUS

(* The programs of one and of two steps.                                   *)
LEMMA ShortPrograms ==
  ASSUME NEW o \in Operations
  PROVE  /\ o.name = "halt" => /\ Len(Prog(o)) = 2 /\ Prog(o)[1] = Dhcsr(TRUE, FALSE, FALSE)
                               /\ Prog(o)[2] = Wait(Polls)
         /\ o.name = "resume" => Len(Prog(o)) = 1 /\ Prog(o)[1] = Dhcsr(FALSE, FALSE, FALSE)
         /\ o.name = "step" => /\ Len(Prog(o)) = 2 /\ Prog(o)[1] = Dhcsr(FALSE, TRUE, TRUE)
                               /\ Prog(o)[2] = Wait(Polls)
         /\ o.name = "call" => Prog(o) = CallFunction
         /\ o.name = "clear" => Prog(o) = UnitsClear
         /\ o.name = "break" =>
              \/ o.x \in Unbreakable /\ Len(Prog(o)) = 1 /\ Prog(o)[1] = S("reply", FALSE)
              \/ o.x \in Breakable /\ Len(Prog(o)) = 2 /\ Prog(o)[1] = S("fpctrl", 0)
                 /\ Prog(o)[2] = S("fpscan", 1)
         /\ o.name = "unbreak" =>
              \/ o.x \in Unbreakable /\ Len(Prog(o)) = 1 /\ Prog(o)[1] = S("reply", FALSE)
              \/ o.x \in Breakable /\ Len(Prog(o)) = 1 /\ Prog(o)[1] = S("fpfind", 1)
         /\ o.name = "watch" => /\ o.x \in Watches /\ Len(Prog(o)) = 1
                                /\ Prog(o)[1] = S("dwtscan", 1)
         /\ o.name = "unwatch" => Len(Prog(o)) = 1 /\ Prog(o)[1] = S("dwtfind", 1)
         /\ o.name = "reason" => Len(Prog(o)) = 1 /\ Prog(o)[1] = S("dfsr", 0)
         /\ Prog(o) \in Seq(Steps)
         /\ o.name \in {"halt", "resume", "step", "call", "clear", "break", "unbreak", "watch",
                        "unwatch", "reason"}
  <1>1. /\ o.name \in {"halt", "resume", "step", "call", "clear", "break", "unbreak", "watch",
                       "unwatch", "reason"}
        /\ o.name \in {"break", "unbreak"} => o.x \in Breakable \/ o.x \in Unbreakable
        /\ o.name = "watch" => o.x \in Watches
    BY DEF Operations
  <1>2. /\ Dhcsr(TRUE, FALSE, FALSE) \in Steps /\ Dhcsr(FALSE, FALSE, FALSE) \in Steps
        /\ Dhcsr(FALSE, TRUE, TRUE) \in Steps
    <2>1. \A x, y, z \in BOOLEAN : Dhcsr(x, y, z) \in Steps  BY DEF S, Dhcsr, Steps
    <2>2. QED  BY <2>1
  <1>3. Wait(Polls) \in Steps  BY CountsAssumption DEF Wait, S, Steps
  <1>4. /\ S("reply", FALSE) \in Steps /\ S("fpctrl", 0) \in Steps /\ S("fpscan", 1) \in Steps
        /\ S("fpfind", 1) \in Steps /\ S("dwtscan", 1) \in Steps /\ S("dwtfind", 1) \in Steps
        /\ S("dfsr", 0) \in Steps
    BY DEF S, Steps
  <1>5. CASE o.name = "halt"
    <2>1. Prog(o) = <<Dhcsr(TRUE, FALSE, FALSE), Wait(Polls)>>  BY <1>5 DEF Prog, Halt
    <2>2. /\ Prog(o) \in Seq(Steps) /\ Len(Prog(o)) = 2
          /\ Prog(o)[1] = Dhcsr(TRUE, FALSE, FALSE) /\ Prog(o)[2] = Wait(Polls)
      <3> DEFINE a == Dhcsr(TRUE, FALSE, FALSE)  b == Wait(Polls)
      <3>1. a \in Steps /\ b \in Steps /\ Prog(o) = <<a, b>>  BY <1>2, <1>3, <2>1
      <3> HIDE DEF a, b
      <3>2. Prog(o) \in Seq(Steps) /\ Len(Prog(o)) = 2 /\ Prog(o)[1] = a /\ Prog(o)[2] = b
        BY <3>1, TwoSteps
      <3>3. QED  BY <3>2 DEF a, b
    <2>3. QED  BY <1>5, <2>2
  <1>6. CASE o.name = "resume"
    <2>1. Prog(o) = <<Dhcsr(FALSE, FALSE, FALSE)>>  BY <1>6 DEF Prog, Resume
    <2>2. QED  BY <1>2, <1>6, <2>1, OneStep
  <1>7. CASE o.name = "step"
    <2>1. Prog(o) = <<Dhcsr(FALSE, TRUE, TRUE), Wait(Polls)>>  BY <1>7 DEF Prog, StepOne
    <2>2. /\ Prog(o) \in Seq(Steps) /\ Len(Prog(o)) = 2
          /\ Prog(o)[1] = Dhcsr(FALSE, TRUE, TRUE) /\ Prog(o)[2] = Wait(Polls)
      <3> DEFINE a == Dhcsr(FALSE, TRUE, TRUE)  b == Wait(Polls)
      <3>1. a \in Steps /\ b \in Steps /\ Prog(o) = <<a, b>>  BY <1>2, <1>3, <2>1
      <3> HIDE DEF a, b
      <3>2. Prog(o) \in Seq(Steps) /\ Len(Prog(o)) = 2 /\ Prog(o)[1] = a /\ Prog(o)[2] = b
        BY <3>1, TwoSteps
      <3>3. QED  BY <3>2 DEF a, b
    <2>3. QED  BY <1>7, <2>2
  <1>8. CASE o.name = "call"
    <2>1. Prog(o) = CallFunction  BY <1>8 DEF Prog
    <2>2. QED  BY <1>8, <2>1, CallProgram
  <1>9. CASE o.name = "clear"
    <2>1. Prog(o) = UnitsClear  BY <1>9 DEF Prog
    <2>2. QED  BY <1>9, <2>1, UnitsProgram
  <1>10. CASE o.name = "break"
    <2>1. CASE o.x \in Unbreakable
      <3>1. Prog(o) = <<S("reply", FALSE)>>  BY <1>10, <2>1 DEF Prog
      <3>2. QED  BY <1>4, <1>10, <2>1, <3>1, OneStep
    <2>2. CASE o.x \notin Unbreakable
      <3>1. Prog(o) = <<S("fpctrl", 0), S("fpscan", 1)>>  BY <1>10, <2>2 DEF Prog, BreakSet
      <3>2. QED  BY <1>1, <1>4, <1>10, <2>2, <3>1, TwoSteps
    <2>3. QED  BY <2>1, <2>2
  <1>11. CASE o.name = "unbreak"
    <2>1. CASE o.x \in Unbreakable
      <3>1. Prog(o) = <<S("reply", FALSE)>>  BY <1>11, <2>1 DEF Prog
      <3>2. QED  BY <1>4, <1>11, <2>1, <3>1, OneStep
    <2>2. CASE o.x \notin Unbreakable
      <3>1. Prog(o) = <<S("fpfind", 1)>>  BY <1>11, <2>2 DEF Prog, BreakClear
      <3>2. QED  BY <1>1, <1>4, <1>11, <2>2, <3>1, OneStep
    <2>3. QED  BY <2>1, <2>2
  <1>12. CASE o.name = "watch"
    <2>1. Prog(o) = <<S("dwtscan", 1)>>  BY <1>12 DEF Prog, WatchSet
    <2>2. QED  BY <1>1, <1>4, <1>12, <2>1, OneStep
  <1>13. CASE o.name = "unwatch"
    <2>1. Prog(o) = <<S("dwtfind", 1)>>  BY <1>13 DEF Prog, WatchClear
    <2>2. QED  BY <1>4, <1>13, <2>1, OneStep
  <1>14. CASE o.name = "reason"
    <2>1. Prog(o) = <<S("dfsr", 0)>>  BY <1>14 DEF Prog, HaltReason
    <2>2. QED  BY <1>4, <1>14, <2>1, OneStep
  <1>15. QED
    BY <1>1, <1>5, <1>6, <1>7, <1>8, <1>9, <1>10, <1>11, <1>12, <1>13, <1>14
-----------------------------------------------------------------------------
(* What the code does next, by the kind of the access made.                *)
Same == UNCHANGED <<free, saved, res, reply>>
PlainKinds == {"dhcsr", "tramp", "arg", "restore", "fpctrl", "fpwrite", "comp", "function"}

LEMMA PendingFacts ==
  ASSUME TypeInv, Pending
  PROVE  /\ todo \in Seq(Steps) /\ todo # <<>> /\ Len(todo) \in Nat /\ Len(todo) >= 1
         /\ Step = todo[1] /\ Step \in Steps /\ X = todo[1].x /\ res = "Busy"
         /\ \A j \in 1 .. Len(todo) : todo[j] \in Steps
         /\ Step.k = "fpscan" => op.x \in Breakable
         /\ Step.k = "dwtscan" => op.x \in asked /\ op.x \in Watches
  <1>1. /\ todo \in Seq(Steps) /\ todo # <<>> /\ res = "Busy"
    BY DEF TypeInv, Pending
  <1>2. /\ Len(todo) \in Nat /\ Len(todo) >= 1 /\ Step = todo[1] /\ Step \in Steps
        /\ \A j \in 1 .. Len(todo) : todo[j] \in Steps
    BY <1>1, NextStep
  <1>3. 1 \in 1 .. Len(todo)  BY <1>2
  <1>4. QED  BY <1>1, <1>2, <1>3 DEF X, TypeInv, Scans

LEMMA EmptyTodo == <<>> \in Seq(Steps) /\ Len(<<>>) = 0
  OBVIOUS

LEMMA PlainMoves ==
  ASSUME TypeInv, Pending, Proceed, Step.k \in PlainKinds
  PROVE  todo' \in Seq(Steps) /\ Ahead(0) /\ Same
  <1>1. Go(<<>>)  BY DEF Proceed, PlainKinds
  <1>2. QED  BY <1>1, PendingFacts, GoNone DEF Go, Same

LEMMA SaveMoves ==
  ASSUME TypeInv, Pending, Proceed, Step.k = "save"
  PROVE  /\ todo' \in Seq(Steps) /\ Ahead(0) /\ UNCHANGED <<free, res, reply>>
         /\ saved' = [saved EXCEPT ![X] = regs[X]] /\ X \in Regs
  <1>1. /\ saved' = [saved EXCEPT ![X] = regs[X]] /\ todo' = Tail(todo)
        /\ UNCHANGED <<free, res, reply>>
    BY DEF Proceed
  <1>2. X \in Regs  BY PendingFacts, Carried DEF X
  <1>3. QED  BY <1>1, <1>2, PendingFacts, GoTail

LEMMA WaitMoves ==
  ASSUME TypeInv, Pending, Proceed, Step.k = "wait"
  PROVE  /\ todo' \in Seq(Steps) /\ UNCHANGED <<free, saved>>
         /\ \/ Same /\ Ahead(0)
            \/ Same /\ Ahead(1) /\ todo'[1].k = "wait"
            \/ todo' = <<>> /\ res' = "Timeout" /\ reply' = {}
  <1>0. Poll(Go(<<Wait(X - 1)>>), Return("Timeout", {}))  BY DEF Proceed
  <1>1. CASE halted
    <2>1. Go(<<>>)  BY <1>0, <1>1 DEF Poll
    <2>2. QED  BY <2>1, PendingFacts, GoNone DEF Go, Same
  <1>2. CASE ~halted /\ X > 1
    <2>1. Go(<<Wait(X - 1)>>)  BY <1>0, <1>2 DEF Poll
    <2>2. X \in Nat \ {0}  BY PendingFacts, Carried DEF X
    <2>3. X - 1 \in Nat \ {0}  BY <1>2, <2>2
    <2>4. Wait(X - 1) \in Steps /\ Wait(X - 1).k = "wait"  BY <2>3 DEF Wait, S, Steps
    <2>5. QED  BY <2>1, <2>4, PendingFacts, GoOne DEF Go, Same
  <1>3. CASE ~halted /\ ~(X > 1)
    <2>1. Return("Timeout", {})  BY <1>0, <1>3 DEF Poll
    <2>2. QED  BY <2>1, EmptyTodo DEF Return
  <1>4. QED  BY <1>1, <1>2, <1>3

LEMMA CallWaitMoves ==
  ASSUME TypeInv, Pending, Proceed, Step.k = "callwait"
  PROVE  /\ todo' \in Seq(Steps) /\ Same
         /\ \/ halted /\ Ahead(0)
            \/ Ahead(1) /\ todo'[1].k = "callwait"
            \/ Expire
  <1>0. \/ halted /\ Go(<<>>)
        \/ X > 1 /\ Go(<<S("callwait", X - 1)>>)
        \/ Expire /\ Same
    BY DEF Proceed, Poll, Expire, Same
  <1>1. CASE halted /\ Go(<<>>)
    BY <1>1, PendingFacts, GoNone DEF Go, Same
  <1>2. CASE X > 1 /\ Go(<<S("callwait", X - 1)>>)
    <2>2. X \in Nat \ {0}  BY PendingFacts, Carried DEF X
    <2>3. X - 1 \in Nat \ {0}  BY <1>2, <2>2
    <2>4. S("callwait", X - 1) \in Steps /\ S("callwait", X - 1).k = "callwait"
      BY <2>3 DEF S, Steps
    <2>5. QED  BY <1>2, <2>4, PendingFacts, GoOne DEF Go, Same
  <1>3. CASE Expire /\ Same
    BY <1>3, PendingFacts, GoExpired
  <1>4. QED  BY <1>0, <1>1, <1>2, <1>3

LEMMA FpScanMoves ==
  ASSUME TypeInv, Pending, Proceed, Step.k = "fpscan"
  PROVE  /\ todo' \in Seq(Steps) /\ UNCHANGED saved
         /\ X \in Nat /\ X >= 1
         /\ \/ X > NumFp /\ free = 0 /\ todo' = <<>> /\ res' = "Ok" /\ reply' = {FALSE}
               /\ free' = free
            \/ /\ X > NumFp /\ free \in FpComps /\ Same /\ Ahead(2)
               /\ todo'[1] = S("fpwrite", <<free, op.x>>) /\ todo'[2] = S("reply", TRUE)
            \/ X \in FpComps /\ fp[X] = op.x /\ todo' = <<>> /\ res' = "Ok" /\ reply' = {TRUE}
               /\ free' = free
            \/ /\ X \in FpComps /\ fp[X] # op.x /\ UNCHANGED <<res, reply>> /\ Ahead(1)
               /\ todo'[1] = S("fpscan", X + 1)
               /\ free' = IF free = 0 /\ fp[X] = Free THEN X ELSE free
  <1>0. FpScan  BY DEF Proceed
  <1>1. X \in Nat /\ X >= 1
    <2>1. X \in Nat \ {0}  BY PendingFacts, Carried DEF X
    <2>2. QED  BY <2>1
  <1>2. NumFp \in Nat /\ free \in 0 .. NumFp  BY CountsAssumption DEF TypeInv, TypeOK
  <1>3. CASE X > NumFp /\ free = 0
    <2>1. Return("Ok", {FALSE})  BY <1>0, <1>3 DEF FpScan
    <2>2. QED  BY <1>1, <1>3, <2>1, EmptyTodo DEF Return
  <1>4. CASE X > NumFp /\ free # 0
    <2>1. Go(<<S("fpwrite", <<free, op.x>>), S("reply", TRUE)>>)
      BY <1>0, <1>4 DEF FpScan
    <2>2. free \in FpComps  BY <1>2, <1>4 DEF FpComps
    <2>3. S("fpwrite", <<free, op.x>>) \in Steps /\ S("reply", TRUE) \in Steps
      BY <2>2, PendingFacts DEF S, Steps
    <2>4. todo' \in Seq(Steps) /\ Ahead(2) /\ todo'[1] = S("fpwrite", <<free, op.x>>)
          /\ todo'[2] = S("reply", TRUE)
      BY <2>1, <2>3, PendingFacts, GoTwo DEF Go
    <2>5. QED  BY <1>1, <1>4, <2>1, <2>2, <2>4 DEF Go, Same
  <1>5. CASE ~(X > NumFp) /\ fp[X] = op.x
    <2>1. Return("Ok", {TRUE})  BY <1>0, <1>5 DEF FpScan
    <2>2. X \in FpComps  BY <1>1, <1>2, <1>5 DEF FpComps
    <2>3. QED  BY <1>1, <1>5, <2>1, <2>2, EmptyTodo DEF Return
  <1>6. CASE ~(X > NumFp) /\ fp[X] # op.x
    <2>1. /\ todo' = <<S("fpscan", X + 1)>> \o Tail(todo)
          /\ free' = IF free = 0 /\ fp[X] = Free THEN X ELSE free
          /\ UNCHANGED <<saved, res, reply>>
      BY <1>0, <1>6 DEF FpScan
    <2>2. S("fpscan", X + 1) \in Steps  BY <1>1 DEF S, Steps
    <2>3. todo' \in Seq(Steps) /\ Ahead(1) /\ todo'[1] = S("fpscan", X + 1)
      BY <2>1, <2>2, PendingFacts, GoOne
    <2>4. X \in FpComps  BY <1>1, <1>2, <1>6 DEF FpComps
    <2>5. QED  BY <1>1, <1>6, <2>1, <2>3, <2>4
  <1>7. QED  BY <1>3, <1>4, <1>5, <1>6

LEMMA FpFindMoves ==
  ASSUME TypeInv, Pending, Proceed, Step.k = "fpfind"
  PROVE  /\ todo' \in Seq(Steps) /\ UNCHANGED <<free, saved>>
         /\ X \in Nat /\ X >= 1
         /\ \/ X > NumFp /\ todo' = <<>> /\ res' = "Ok" /\ reply' = {FALSE}
            \/ /\ X \in FpComps /\ fp[X] = op.x /\ Same /\ Ahead(2)
               /\ todo'[1] = S("fpwrite", <<X, Free>>) /\ todo'[2] = S("reply", TRUE)
            \/ /\ X \in FpComps /\ fp[X] # op.x /\ Same /\ Ahead(1)
               /\ todo'[1] = S("fpfind", X + 1)
  <1>0. FpFind  BY DEF Proceed
  <1>1. X \in Nat /\ X >= 1
    <2>1. X \in Nat \ {0}  BY PendingFacts, Carried DEF X
    <2>2. QED  BY <2>1
  <1>2. NumFp \in Nat  BY CountsAssumption
  <1>3. CASE X > NumFp
    <2>1. Return("Ok", {FALSE})  BY <1>0, <1>3 DEF FpFind
    <2>2. QED  BY <1>1, <1>3, <2>1, EmptyTodo DEF Return
  <1>4. CASE ~(X > NumFp) /\ fp[X] = op.x
    <2>1. Go(<<S("fpwrite", <<X, Free>>), S("reply", TRUE)>>)
      BY <1>0, <1>4 DEF FpFind
    <2>2. X \in FpComps  BY <1>1, <1>2, <1>4 DEF FpComps
    <2>3. S("fpwrite", <<X, Free>>) \in Steps /\ S("reply", TRUE) \in Steps
      BY <2>2 DEF S, Steps
    <2>4. todo' \in Seq(Steps) /\ Ahead(2) /\ todo'[1] = S("fpwrite", <<X, Free>>)
          /\ todo'[2] = S("reply", TRUE)
      BY <2>1, <2>3, PendingFacts, GoTwo DEF Go
    <2>5. QED  BY <1>1, <1>4, <2>1, <2>2, <2>4 DEF Go, Same
  <1>5. CASE ~(X > NumFp) /\ fp[X] # op.x
    <2>1. Go(<<S("fpfind", X + 1)>>)  BY <1>0, <1>5 DEF FpFind
    <2>2. S("fpfind", X + 1) \in Steps  BY <1>1 DEF S, Steps
    <2>3. todo' \in Seq(Steps) /\ Ahead(1) /\ todo'[1] = S("fpfind", X + 1)
      BY <2>1, <2>2, PendingFacts, GoOne DEF Go
    <2>4. X \in FpComps  BY <1>1, <1>2, <1>5 DEF FpComps
    <2>5. QED  BY <1>1, <1>5, <2>1, <2>3, <2>4 DEF Go, Same
  <1>6. QED  BY <1>3, <1>4, <1>5

LEMMA DwtScanMoves ==
  ASSUME TypeInv, Pending, Proceed, Step.k = "dwtscan"
  PROVE  /\ todo' \in Seq(Steps) /\ UNCHANGED <<free, saved>>
         /\ \/ todo' = <<>> /\ res' = "Ok" /\ reply' = {FALSE}
            \/ /\ X \in DwtComps /\ dwt[X] = Free /\ Same /\ Ahead(3)
               /\ todo'[1] = S("comp", <<X, op.x>>) /\ todo'[2] = S("function", <<X, op.x>>)
               /\ todo'[3] = S("reply", TRUE)
            \/ Same /\ Ahead(1) /\ todo'[1] = S("dwtscan", X + 1)
  <1>0. DwtScan  BY DEF Proceed
  <1>1. X \in Nat /\ X >= 1
    <2>1. X \in Nat \ {0}  BY PendingFacts, Carried DEF X
    <2>2. QED  BY <2>1
  <1>2. NumDwt \in Nat  BY CountsAssumption
  <1>3. CASE X > NumDwt
    <2>1. Return("Ok", {FALSE})  BY <1>0, <1>3 DEF DwtScan
    <2>2. QED  BY <2>1, EmptyTodo DEF Return
  <1>4. CASE ~(X > NumDwt) /\ dwt[X] = Free
    <2>1. Go(<<S("comp", <<X, op.x>>), S("function", <<X, op.x>>), S("reply", TRUE)>>)
      BY <1>0, <1>4 DEF DwtScan, DwtArm
    <2>2. X \in DwtComps  BY <1>1, <1>2, <1>4 DEF DwtComps
    <2>3. S("comp", <<X, op.x>>) \in Steps /\ S("function", <<X, op.x>>) \in Steps
          /\ S("reply", TRUE) \in Steps
      BY <2>2, PendingFacts DEF S, Steps
    <2>4. todo' \in Seq(Steps) /\ Ahead(3) /\ todo'[1] = S("comp", <<X, op.x>>)
          /\ todo'[2] = S("function", <<X, op.x>>) /\ todo'[3] = S("reply", TRUE)
      BY ZenonT(30), <2>1, <2>3, PendingFacts, GoThree DEF Go
    <2>5. QED  BY <1>4, <2>1, <2>2, <2>4 DEF Go, Same
  <1>5. CASE ~(X > NumDwt) /\ dwt[X] # Free
    <2>1. Go(<<S("dwtscan", X + 1)>>)  BY <1>0, <1>5 DEF DwtScan
    <2>2. S("dwtscan", X + 1) \in Steps  BY <1>1 DEF S, Steps
    <2>3. todo' \in Seq(Steps) /\ Ahead(1) /\ todo'[1] = S("dwtscan", X + 1)
      BY <2>1, <2>2, PendingFacts, GoOne DEF Go
    <2>4. QED  BY <2>1, <2>3 DEF Go, Same
  <1>6. QED  BY <1>3, <1>4, <1>5

LEMMA DwtFindMoves ==
  ASSUME TypeInv, Pending, Proceed, Step.k = "dwtfind"
  PROVE  /\ todo' \in Seq(Steps) /\ UNCHANGED <<free, saved>>
         /\ \/ todo' = <<>> /\ res' = "Ok" /\ reply' = {FALSE}
            \/ /\ X \in DwtComps /\ Same /\ Ahead(2)
               /\ todo'[1] = S("function", <<X, Free>>) /\ todo'[2] = S("reply", TRUE)
            \/ Same /\ Ahead(1) /\ todo'[1] = S("dwtfind", X + 1)
  <1>0. DwtFind  BY DEF Proceed
  <1>1. X \in Nat /\ X >= 1
    <2>1. X \in Nat \ {0}  BY PendingFacts, Carried DEF X
    <2>2. QED  BY <2>1
  <1>2. NumDwt \in Nat  BY CountsAssumption
  <1>3. CASE X > NumDwt
    <2>1. Return("Ok", {FALSE})  BY <1>0, <1>3 DEF DwtFind
    <2>2. QED  BY <2>1, EmptyTodo DEF Return
  <1>4. CASE ~(X > NumDwt) /\ dwt[X] # Free /\ dwt[X] = op.x /\ half[X] = op.x
    <2>1. Go(<<S("function", <<X, Free>>), S("reply", TRUE)>>)
      BY <1>0, <1>4 DEF DwtFind
    <2>2. X \in DwtComps  BY <1>1, <1>2, <1>4 DEF DwtComps
    <2>3. S("function", <<X, Free>>) \in Steps /\ S("reply", TRUE) \in Steps
      BY <2>2 DEF S, Steps
    <2>4. todo' \in Seq(Steps) /\ Ahead(2) /\ todo'[1] = S("function", <<X, Free>>)
          /\ todo'[2] = S("reply", TRUE)
      BY <2>1, <2>3, PendingFacts, GoTwo DEF Go
    <2>5. QED  BY <2>1, <2>2, <2>4 DEF Go, Same
  <1>5. CASE ~(X > NumDwt) /\ ~(dwt[X] # Free /\ dwt[X] = op.x /\ half[X] = op.x)
    <2>1. Go(<<S("dwtfind", X + 1)>>)  BY <1>0, <1>5 DEF DwtFind
    <2>2. S("dwtfind", X + 1) \in Steps  BY <1>1 DEF S, Steps
    <2>3. todo' \in Seq(Steps) /\ Ahead(1) /\ todo'[1] = S("dwtfind", X + 1)
      BY <2>1, <2>2, PendingFacts, GoOne DEF Go
    <2>4. QED  BY <2>1, <2>3 DEF Go, Same
  <1>6. QED  BY <1>3, <1>4, <1>5

LEMMA ReasonMoves ==
  ASSUME TypeInv, Pending, Proceed, Step.k \in {"dfsr", "clrdfsr", "match"}
  PROVE  /\ todo' \in Seq(Steps) /\ UNCHANGED <<free, saved>>
         /\ \/ /\ Same /\ Ahead(1) /\ todo'[1].k = "clrdfsr" /\ todo'[1].x = dfsr
            \/ /\ Same /\ Ahead(1) /\ todo'[1].k = "match"
               /\ Step.k = "match" \/ (Step.k = "clrdfsr" /\ "DWTTRAP" \in X)
            \/ /\ todo' = <<>> /\ res' = "Ok"
               /\ \/ Step.k = "clrdfsr" /\ reply' \subseteq X
                  \/ Step.k = "match" /\ reply' = {"DWTTRAP"}
            \/ /\ todo' = <<>> /\ res' = "Ok" /\ Step.k = "match" /\ X \in DwtComps
               /\ matched[X] /\ reply' = {"DWTTRAP", half[X]}
  <1>1. CASE Step.k = "dfsr"
    <2>1. Go(<<S("clrdfsr", dfsr)>>)  BY <1>1 DEF Proceed
    <2>2. /\ S("clrdfsr", dfsr) \in Steps /\ S("clrdfsr", dfsr).k = "clrdfsr"
          /\ S("clrdfsr", dfsr).x = dfsr
      BY DEF TypeInv, TypeOK, S, Steps
    <2>3. todo' \in Seq(Steps) /\ Ahead(1) /\ todo'[1] = S("clrdfsr", dfsr)
      BY <2>1, <2>2, PendingFacts, GoOne DEF Go
    <2>4. QED  BY <2>1, <2>2, <2>3 DEF Go, Same
  <1>2. CASE Step.k = "clrdfsr"
    <2>0. Decode(X)  BY <1>2 DEF Proceed
    <2>1. CASE "DWTTRAP" \in X
      <3>1. Go(<<S("match", 1)>>)  BY <2>0, <2>1 DEF Decode
      <3>2. S("match", 1) \in Steps /\ S("match", 1).k = "match"  BY DEF S, Steps
      <3>3. todo' \in Seq(Steps) /\ Ahead(1) /\ todo'[1] = S("match", 1)
        BY <3>1, <3>2, PendingFacts, GoOne DEF Go
      <3>4. QED  BY <1>2, <2>1, <3>1, <3>2, <3>3 DEF Go, Same
    <2>2. CASE "DWTTRAP" \notin X
      <3>1. Return("Ok", IF "BKPT" \in X THEN {"BKPT"}
                         ELSE IF "HALTED" \in X THEN {"HALTED"} ELSE {})
        BY <2>0, <2>2 DEF Decode
      <3>2. reply' \subseteq X  BY <3>1 DEF Return
      <3>3. QED  BY <1>2, <3>1, <3>2, EmptyTodo DEF Return
    <2>3. QED  BY <2>1, <2>2
  <1>3. CASE Step.k = "match"
    <2>0. FindMatch  BY <1>3 DEF Proceed
    <2>1. X \in Nat /\ X >= 1
      <3>1. X \in Nat \ {0}  BY <1>3, PendingFacts, Carried DEF X
      <3>2. QED  BY <3>1
    <2>2. CASE X > NumDwt
      <3>1. Return("Ok", {"DWTTRAP"})  BY <2>0, <2>2 DEF FindMatch
      <3>2. QED  BY <1>3, <3>1, EmptyTodo DEF Return
    <2>3. CASE ~(X > NumDwt) /\ matched[X]
      <3>1. Return("Ok", {"DWTTRAP", half[X]})  BY <2>0, <2>3 DEF FindMatch
      <3>2. X \in DwtComps  BY <2>1, <2>3, CountsAssumption DEF DwtComps
      <3>3. QED  BY <1>3, <2>3, <3>1, <3>2, EmptyTodo DEF Return
    <2>4. CASE ~(X > NumDwt) /\ ~matched[X]
      <3>1. Go(<<S("match", X + 1)>>)  BY <2>0, <2>4 DEF FindMatch
      <3>2. S("match", X + 1) \in Steps /\ S("match", X + 1).k = "match"
        BY <2>1 DEF S, Steps
      <3>3. todo' \in Seq(Steps) /\ Ahead(1) /\ todo'[1] = S("match", X + 1)
        BY <3>1, <3>2, PendingFacts, GoOne DEF Go
      <3>4. QED  BY <1>3, <3>1, <3>2, <3>3 DEF Go, Same
    <2>5. QED  BY <2>2, <2>3, <2>4
  <1>4. QED  BY <1>1, <1>2, <1>3

(* No invariant about steps ahead is left where none is.                   *)
LEMMA Nothing ==
  ASSUME todo' = <<>>
  PROVE  todo' \in Seq(Steps) /\ Len(todo') = 0 /\ 1 .. Len(todo') = {} /\ Scans'
  <1>1. todo' \in Seq(Steps) /\ Len(todo') = 0  BY EmptyTodo
  <1>2. 1 .. Len(todo') = {}  BY <1>1
  <1>3. QED  BY <1>1, <1>2 DEF Scans

LEMMA AccessKinds ==
  ASSUME TypeInv, Pending, ~Hosted
  PROVE  Step.k \in PlainKinds \cup {"save", "wait", "callwait", "fpscan", "fpfind", "dwtscan",
                                     "dwtfind", "dfsr", "clrdfsr", "match"}
  BY PendingFacts, Carried DEF Hosted, PlainKinds

LEMMA ExpireScans ==
  ASSUME TypeInv, Pending, Expire, UNCHANGED <<op, asked>>
  PROVE  todo' \in Seq(Steps) /\ Scans'
  <1>1. /\ todo' \in Seq(Steps) /\ Len(todo') = Len(todo) - 1 /\ Len(todo) \in Nat
        /\ \A j \in 1 .. Len(todo') :
             todo'[j] = IF todo[j + 1].k = "waited" THEN S("expired", 0) ELSE todo[j + 1]
    BY PendingFacts, GoExpired
  <1>2. ASSUME NEW j \in 1 .. Len(todo')
        PROVE  /\ todo'[j].k = "fpscan" => op.x \in Breakable
               /\ todo'[j].k = "dwtscan" => op.x \in asked
    <2>1. j + 1 \in 1 .. Len(todo)  BY <1>1
    <2>2. todo'[j] = S("expired", 0) \/ todo'[j] = todo[j + 1]  BY <1>1
    <2>3. S("expired", 0).k = "expired"  BY DEF S
    <2>4. QED  BY <2>1, <2>2, <2>3 DEF TypeInv, Scans
  <1>3. QED  BY <1>1, <1>2 DEF Scans

LEMMA ProceedType ==
  ASSUME TypeInv, Pending, ~Hosted, Proceed, UNCHANGED <<op, asked>>
  PROVE  /\ todo' \in Seq(Steps) /\ Scans' /\ free' \in 0 .. NumFp
         /\ saved' \in [Regs -> Levels]
         /\ res' \in {"Idle", "Busy", "Ok", "Err", "Timeout"}
  <1>0. /\ todo \in Seq(Steps) /\ todo # <<>> /\ Scans /\ free \in 0 .. NumFp
        /\ saved \in [Regs -> Levels] /\ regs \in [Regs -> Levels]
        /\ res \in {"Idle", "Busy", "Ok", "Err", "Timeout"}
        /\ NumFp \in Nat
    BY PendingFacts, CountsAssumption DEF TypeInv, TypeOK, Levels
  <1> DEFINE k == Step.k
  <1>1. CASE k \in PlainKinds
    <2>1. todo' \in Seq(Steps) /\ Ahead(0) /\ Same  BY <1>1, PlainMoves
    <2>2. Scans'  BY <1>0, <2>1, ScansAhead
    <2>3. QED  BY <1>0, <2>1, <2>2 DEF Same
  <1>2. CASE k = "save"
    <2>1. /\ todo' \in Seq(Steps) /\ Ahead(0) /\ UNCHANGED <<free, res, reply>>
          /\ saved' = [saved EXCEPT ![X] = regs[X]] /\ X \in Regs
      BY <1>2, SaveMoves
    <2>2. Scans'  BY <1>0, <2>1, ScansAhead
    <2>3. saved' \in [Regs -> Levels]  BY <1>0, <2>1
    <2>4. QED  BY <1>0, <2>1, <2>2, <2>3
  <1>3. CASE k = "wait"
    <2>1. /\ todo' \in Seq(Steps) /\ UNCHANGED <<free, saved>>
          /\ \/ Same /\ Ahead(0)
             \/ Same /\ Ahead(1) /\ todo'[1].k = "wait"
             \/ todo' = <<>> /\ res' = "Timeout" /\ reply' = {}
      BY <1>3, WaitMoves
    <2>2. CASE Ahead(0)  BY <1>0, <2>1, <2>2, ScansAhead, Nothing DEF Same
    <2>3. CASE Same /\ Ahead(1) /\ todo'[1].k = "wait"
      <3>1. Scans'  BY <1>0, <2>1, <2>3, ScansAhead
      <3>2. QED  BY <1>0, <2>1, <2>3, <3>1 DEF Same
    <2>4. CASE todo' = <<>>  BY <1>0, <2>1, <2>4, Nothing DEF Same
    <2>5. QED  BY <2>1, <2>2, <2>3, <2>4
  <1>4. CASE k = "callwait"
    <2>1. /\ todo' \in Seq(Steps) /\ Same
          /\ \/ halted /\ Ahead(0)
             \/ Ahead(1) /\ todo'[1].k = "callwait"
             \/ Expire
      BY <1>4, CallWaitMoves
    <2>2. CASE Ahead(0)
      <3>1. Scans'  BY <1>0, <2>1, <2>2, ScansAhead
      <3>2. QED  BY <1>0, <2>1, <3>1 DEF Same
    <2>3. CASE Ahead(1) /\ todo'[1].k = "callwait"
      <3>1. Scans'  BY <1>0, <2>1, <2>3, ScansAhead
      <3>2. QED  BY <1>0, <2>1, <3>1 DEF Same
    <2>4. CASE Expire
      <3>1. Scans'  BY <2>4, ExpireScans
      <3>2. QED  BY <1>0, <2>1, <3>1 DEF Same
    <2>5. QED  BY <2>1, <2>2, <2>3, <2>4
  <1>5. CASE k = "fpscan"
    <2>0. op.x \in Breakable /\ todo' \in Seq(Steps) /\ UNCHANGED saved
      BY <1>5, PendingFacts, FpScanMoves
    <2>1. CASE todo' = <<>> /\ res' = "Ok" /\ free' = free
      BY <1>0, <2>0, <2>1, Nothing
    <2>2. CASE Same /\ Ahead(2)
               /\ todo'[1] = S("fpwrite", <<free, op.x>>) /\ todo'[2] = S("reply", TRUE)
      <3>1. todo'[1].k = "fpwrite" /\ todo'[2].k = "reply"  BY <2>2 DEF S
      <3>2. \A j \in 1 .. 2 : todo'[j].k # "fpscan" /\ todo'[j].k # "dwtscan"  BY <3>1
      <3>3. Scans'  BY <1>0, <2>0, <2>2, <3>2, ScansAhead
      <3>4. QED  BY <1>0, <2>0, <2>2, <3>3 DEF Same
    <2>3. CASE /\ X \in FpComps /\ UNCHANGED <<res, reply>> /\ Ahead(1)
               /\ todo'[1] = S("fpscan", X + 1)
               /\ free' = IF free = 0 /\ fp[X] = Free THEN X ELSE free
      <3>1. todo'[1].k = "fpscan"  BY <2>3 DEF S
      <3>2. \A j \in 1 .. 1 : todo'[j].k # "dwtscan"  BY <3>1
      <3>3. Scans'  BY <1>0, <2>0, <2>3, <3>2, ScansAhead
      <3>4. free' \in 0 .. NumFp  BY <1>0, <2>3 DEF FpComps
      <3>5. QED  BY <1>0, <2>0, <2>3, <3>3, <3>4
    <2>4. QED  BY <1>5, <2>1, <2>2, <2>3, FpScanMoves
  <1>6. CASE k = "fpfind"
    <2>0. todo' \in Seq(Steps) /\ UNCHANGED <<free, saved>>
      BY <1>6, FpFindMoves
    <2>1. CASE todo' = <<>> /\ res' = "Ok"
      BY <1>0, <2>0, <2>1, Nothing
    <2>2. CASE Same /\ Ahead(2)
               /\ todo'[1] = S("fpwrite", <<X, Free>>) /\ todo'[2] = S("reply", TRUE)
      <3>1. todo'[1].k = "fpwrite" /\ todo'[2].k = "reply"  BY <2>2 DEF S
      <3>2. \A j \in 1 .. 2 : todo'[j].k # "fpscan" /\ todo'[j].k # "dwtscan"  BY <3>1
      <3>3. Scans'  BY <1>0, <2>0, <2>2, <3>2, ScansAhead
      <3>4. QED  BY <1>0, <2>0, <2>2, <3>3 DEF Same
    <2>3. CASE Same /\ Ahead(1) /\ todo'[1] = S("fpfind", X + 1)
      <3>1. todo'[1].k = "fpfind"  BY <2>3 DEF S
      <3>2. \A j \in 1 .. 1 : todo'[j].k # "fpscan" /\ todo'[j].k # "dwtscan"  BY <3>1
      <3>3. Scans'  BY <1>0, <2>0, <2>3, <3>2, ScansAhead
      <3>4. QED  BY <1>0, <2>0, <2>3, <3>3 DEF Same
    <2>4. QED  BY <1>6, <2>1, <2>2, <2>3, FpFindMoves
  <1>7. CASE k = "dwtscan"
    <2>0. op.x \in asked /\ todo' \in Seq(Steps) /\ UNCHANGED <<free, saved>>
      BY <1>7, PendingFacts, DwtScanMoves
    <2>1. CASE todo' = <<>> /\ res' = "Ok"
      BY <1>0, <2>0, <2>1, Nothing
    <2>2. CASE Same /\ Ahead(3)
               /\ todo'[1] = S("comp", <<X, op.x>>) /\ todo'[2] = S("function", <<X, op.x>>)
               /\ todo'[3] = S("reply", TRUE)
      <3>1. todo'[1].k = "comp" /\ todo'[2].k = "function" /\ todo'[3].k = "reply"
        BY <2>2 DEF S
      <3>2. \A j \in 1 .. 3 : todo'[j].k # "fpscan" /\ todo'[j].k # "dwtscan"  BY <3>1
      <3>3. Scans'  BY <1>0, <2>0, <2>2, <3>2, ScansAhead
      <3>4. QED  BY <1>0, <2>0, <2>2, <3>3 DEF Same
    <2>3. CASE Same /\ Ahead(1) /\ todo'[1] = S("dwtscan", X + 1)
      <3>1. todo'[1].k = "dwtscan"  BY <2>3 DEF S
      <3>2. \A j \in 1 .. 1 : todo'[j].k # "fpscan"  BY <3>1
      <3>3. Scans'  BY <1>0, <2>0, <2>3, <3>2, ScansAhead
      <3>4. QED  BY <1>0, <2>0, <2>3, <3>3 DEF Same
    <2>4. QED  BY <1>7, <2>1, <2>2, <2>3, DwtScanMoves
  <1>8. CASE k = "dwtfind"
    <2>0. todo' \in Seq(Steps) /\ UNCHANGED <<free, saved>>
      BY <1>8, DwtFindMoves
    <2>1. CASE todo' = <<>> /\ res' = "Ok"
      BY <1>0, <2>0, <2>1, Nothing
    <2>2. CASE Same /\ Ahead(2)
               /\ todo'[1] = S("function", <<X, Free>>) /\ todo'[2] = S("reply", TRUE)
      <3>1. todo'[1].k = "function" /\ todo'[2].k = "reply"  BY <2>2 DEF S
      <3>2. \A j \in 1 .. 2 : todo'[j].k # "fpscan" /\ todo'[j].k # "dwtscan"  BY <3>1
      <3>3. Scans'  BY <1>0, <2>0, <2>2, <3>2, ScansAhead
      <3>4. QED  BY <1>0, <2>0, <2>2, <3>3 DEF Same
    <2>3. CASE Same /\ Ahead(1) /\ todo'[1] = S("dwtfind", X + 1)
      <3>1. todo'[1].k = "dwtfind"  BY <2>3 DEF S
      <3>2. \A j \in 1 .. 1 : todo'[j].k # "fpscan" /\ todo'[j].k # "dwtscan"  BY <3>1
      <3>3. Scans'  BY <1>0, <2>0, <2>3, <3>2, ScansAhead
      <3>4. QED  BY <1>0, <2>0, <2>3, <3>3 DEF Same
    <2>4. QED  BY <1>8, <2>1, <2>2, <2>3, DwtFindMoves
  <1>9. CASE k \in {"dfsr", "clrdfsr", "match"}
    <2>0. todo' \in Seq(Steps) /\ UNCHANGED <<free, saved>>
      BY <1>9, ReasonMoves
    <2>1. CASE todo' = <<>> /\ res' = "Ok"
      BY <1>0, <2>0, <2>1, Nothing
    <2>2. CASE Same /\ Ahead(1) /\ todo'[1].k \in {"clrdfsr", "match"}
      <3>1. \A j \in 1 .. 1 : todo'[j].k # "fpscan" /\ todo'[j].k # "dwtscan"  BY <2>2
      <3>2. Scans'  BY <1>0, <2>0, <2>2, <3>1, ScansAhead
      <3>3. QED  BY <1>0, <2>0, <2>2, <3>2 DEF Same
    <2>3. QED  BY <1>9, <2>1, <2>2, ReasonMoves
  <1>10. QED
    BY <1>1, <1>2, <1>3, <1>4, <1>5, <1>6, <1>7, <1>8, <1>9, AccessKinds

LEMMA LocalMoves ==
  ASSUME TypeInv, Local
  PROVE  /\ Pending /\ UNCHANGED <<target, op, asked, reasons, regs0, ops, errs>>
         /\ todo' \in Seq(Steps) /\ UNCHANGED <<free, saved>>
         /\ \/ Step.k = "waited" /\ Same /\ Ahead(0)
            \/ Step.k = "expired" /\ todo' = <<>> /\ res' = "Timeout" /\ reply' = {}
            \/ Step.k = "reply" /\ todo' = <<>> /\ res' = "Ok" /\ reply' = {X}
  <1>0. /\ Pending /\ UNCHANGED <<target, op, asked, reasons, regs0, ops, errs>>
        /\ Step.k \in {"waited", "expired", "reply"}
    BY DEF Local, OpVars, Hosted
  <1>1. CASE Step.k = "waited"
    <2>1. Go(<<>>)  BY <1>1 DEF Local
    <2>2. QED  BY <1>0, <1>1, <2>1, PendingFacts, GoNone DEF Go, Same
  <1>2. CASE Step.k = "expired"
    <2>1. Return("Timeout", {})  BY <1>2 DEF Local
    <2>2. QED  BY <1>0, <1>2, <2>1, EmptyTodo DEF Return
  <1>3. CASE Step.k = "reply"
    <2>1. Return("Ok", {X})  BY <1>3 DEF Local
    <2>2. QED  BY <1>0, <1>3, <2>1, EmptyTodo DEF Return
  <1>4. QED  BY <1>0, <1>1, <1>2, <1>3

(* An access that fails ends the operation, but for the wait of a call.    *)
LEMMA FailMoves ==
  ASSUME TypeInv, AccessFails
  PROVE  /\ Pending /\ ~Hosted /\ (Effect \/ UNCHANGED target)
         /\ UNCHANGED <<op, asked, regs0, ops, free, saved>> /\ Restart
         /\ errs' \in 0 .. MaxErrs /\ todo' \in Seq(Steps) /\ Scans'
         /\ \/ Step.k = "callwait" /\ Expire /\ UNCHANGED <<res, reply>>
            \/ Step.k # "callwait" /\ todo' = <<>> /\ res' = "Err" /\ reply' = {}
  <1>0. /\ Pending /\ ~Hosted /\ (Effect \/ UNCHANGED target)
        /\ UNCHANGED <<op, asked, regs0, ops>> /\ Restart /\ errs' = errs + 1 /\ errs < MaxErrs
    BY DEF AccessFails, OpVars
  <1>1. errs' \in 0 .. MaxErrs  BY <1>0, CountsAssumption DEF TypeInv, TypeOK
  <1>2. CASE Step.k = "callwait"
    <2>1. Expire /\ UNCHANGED <<free, saved, res, reply>>  BY <1>2 DEF AccessFails, Expire
    <2>2. QED  BY <1>0, <1>1, <1>2, <2>1, ExpireScans
  <1>3. CASE Step.k # "callwait"
    <2>1. Return("Err", {})  BY <1>3 DEF AccessFails
    <2>2. QED  BY <1>0, <1>1, <1>3, <2>1, Nothing DEF Return
  <1>4. QED  BY <1>2, <1>3

(* The core stops, and nothing of the operation moves.                     *)
LEMMA CoreSteps ==
  ASSUME TypeInv, Core
  PROVE  /\ ~halted /\ halted' /\ c_halt' /\ UNCHANGED <<op, todo, free, saved, res, reply, asked>>
         /\ UNCHANGED <<ops, errs, regs0, c_maskints, tramp, units>>
         /\ c_step' \in BOOLEAN /\ dfsr' \subseteq Causes
         /\ regs' \in [Regs -> Levels] /\ matched' \in [DwtComps -> BOOLEAN]
         /\ why \subseteq why' /\ left' = left /\ dfsr' \subseteq dfsr \cup why'
         /\ why' \subseteq Causes \cup Watches
         /\ \A i \in DwtComps : matched'[i] => matched[i] \/ (dwt[i] \in why' /\ dwt[i] # Free)
  <1>0. /\ regs \in [Regs -> Levels] /\ matched \in [DwtComps -> BOOLEAN]
        /\ why \subseteq Causes \cup Watches
        /\ c_step \in BOOLEAN /\ dfsr \subseteq Causes
        /\ dwt \in [DwtComps -> Watches \cup {Free}]
    BY DEF TypeInv, TypeOK, Levels
  <1>1. CASE TakeHalt
    <2>1. /\ ~halted /\ Stop("HALTED", {}) /\ c_step' = FALSE /\ Unhosted
          /\ UNCHANGED <<c_maskints, regs, tramp, matched, units>>
      BY <1>1 DEF TakeHalt
    <2>2. dfsr' \subseteq Causes  BY <1>0, <2>1 DEF Stop, Causes
    <2>3. QED  BY <1>0, <2>1, <2>2 DEF Stop, Unhosted, Causes
  <1>2. CASE HitBreakpoint
    <2>1. /\ ~halted /\ Stop("BKPT", {}) /\ Unhosted
          /\ UNCHANGED <<c_maskints, c_step, regs, tramp, matched, units>>
      BY <1>2 DEF HitBreakpoint
    <2>2. dfsr' \subseteq Causes  BY <1>0, <2>1 DEF Stop, Causes
    <2>3. QED  BY <1>0, <2>1, <2>2 DEF Stop, Unhosted, Causes
  <1>3. CASE \E I \in SUBSET DwtComps : HitWatchpoints(I)
    <2>1. PICK I \in SUBSET DwtComps : HitWatchpoints(I)  BY <1>3
    <2>2. /\ ~halted /\ Stop("DWTTRAP", {dwt[i] : i \in I}) /\ Unhosted
          /\ \A i \in I : dwt[i] # Free
          /\ matched' = [i \in DwtComps |-> matched[i] \/ i \in I]
          /\ UNCHANGED <<c_maskints, c_step, regs, tramp, units>>
      BY <2>1 DEF HitWatchpoints
    <2>3. dfsr' \subseteq Causes  BY <1>0, <2>2 DEF Stop, Causes
    <2>4. why' \subseteq Causes \cup Watches
      <3>1. \A i \in I : dwt[i] \in Watches  BY <1>0, <2>2
      <3>2. why' = why \cup {dwt[i] : i \in I} \cup {"DWTTRAP"}  BY <2>2 DEF Stop
      <3>3. QED  BY <1>0, <3>1, <3>2 DEF Causes
    <2>5. matched' \in [DwtComps -> BOOLEAN]  BY <1>0, <2>2
    <2>6. \A i \in DwtComps : matched'[i] => matched[i] \/ (dwt[i] \in why' /\ dwt[i] # Free)
      <3> SUFFICES ASSUME NEW i \in DwtComps, matched'[i], ~matched[i]
                   PROVE  dwt[i] \in why' /\ dwt[i] # Free
        OBVIOUS
      <3>1. i \in I  BY <2>2
      <3>2. dwt[i] \in why'  BY <2>2, <3>1 DEF Stop
      <3>3. QED  BY <2>2, <3>1, <3>2
    <2>7. QED  BY <1>0, <2>2, <2>3, <2>4, <2>5, <2>6 DEF Stop, Unhosted
  <1>4. CASE FunctionReturns
    <2>1. /\ ~halted /\ Stop("BKPT", {}) /\ Unhosted /\ regs' = [r \in Regs |-> "call"]
          /\ UNCHANGED <<c_maskints, c_step, tramp, matched, units>>
      BY <1>4 DEF FunctionReturns
    <2>2. dfsr' \subseteq Causes  BY <1>0, <2>1 DEF Stop, Causes
    <2>3. regs' \in [Regs -> Levels]  BY <2>1 DEF Levels
    <2>4. QED  BY <1>0, <2>1, <2>2, <2>3 DEF Stop, Unhosted, Causes
  <1>5. QED  BY <1>1, <1>2, <1>3, <1>4 DEF Core

(* What is asked for, and the steps it has ahead.                          *)
LEMMA RequestMoves ==
  ASSUME TypeInv, NEW o \in Operations, Request(o)
  PROVE  /\ op' = o /\ todo' = Prog(o) /\ todo' \in Seq(Steps) /\ free' = 0 /\ res' = "Busy"
         /\ regs0' = regs /\ UNCHANGED <<target, saved, errs, reasons>>
         /\ (o.name \in {"resume", "step", "call", "reason"} => halted)
         /\ asked' = (IF o.name = "watch" THEN asked \cup {o.x} ELSE asked)
         /\ asked' \subseteq Watches /\ asked \subseteq asked' /\ ops' \in 0 .. MaxOps
  <1>1. /\ op' = o /\ todo' = Prog(o) /\ free' = 0 /\ res' = "Busy"
        /\ regs0' = regs /\ UNCHANGED <<target, saved, errs, reasons>>
        /\ (o.name \in {"resume", "step", "call", "reason"} => halted)
        /\ asked' = (IF o.name = "watch" THEN asked \cup {o.x} ELSE asked)
        /\ ops' = ops + 1 /\ ops < MaxOps
    BY DEF Request
  <1>2. ops' \in 0 .. MaxOps  BY <1>1, CountsAssumption DEF TypeInv, TypeOK
  <1>3. todo' \in Seq(Steps) /\ (o.name = "watch" => o.x \in Watches)
    BY <1>1, ShortPrograms
  <1>4. asked' \subseteq Watches /\ asked \subseteq asked'
    BY <1>1, <1>3 DEF TypeInv
  <1>5. QED  BY <1>1, <1>2, <1>3, <1>4

LEMMA ProgKinds ==
  ASSUME NEW o \in Operations, NEW j \in 1 .. Len(Prog(o))
  PROVE  /\ o.name \in {"halt", "resume", "step"} => Prog(o)[j].k \in {"dhcsr", "wait"}
         /\ o.name = "call" => Prog(o)[j].k \in CallKinds
         /\ o.name = "clear" => /\ Prog(o)[j].k \in {"fpwrite", "function"}
                                /\ Prog(o)[j].x[2] = Free
         /\ o.name = "break" => \/ Prog(o)[j].k \in {"reply", "fpctrl"}
                                \/ Prog(o)[j] = S("fpscan", 1) /\ o.x \in Breakable
         /\ o.name = "unbreak" => Prog(o)[j].k \in {"reply", "fpfind"}
         /\ o.name = "watch" => Prog(o)[j].k = "dwtscan"
         /\ o.name = "unwatch" => Prog(o)[j].k = "dwtfind"
         /\ o.name = "reason" => Prog(o)[j].k = "dfsr"
         /\ o.name \in {"halt", "resume", "step", "call", "clear", "break", "unbreak", "watch",
                        "unwatch", "reason"}
  <1>1. CASE o.name \in {"halt", "step"}
    <2>1. Len(Prog(o)) = 2  BY <1>1, ShortPrograms
    <2>2. j = 1 \/ j = 2  BY <2>1
    <2>3. Prog(o)[j].k \in {"dhcsr", "wait"}
      BY <1>1, <2>2, ShortPrograms DEF Dhcsr, Wait, S
    <2>4. QED  BY <1>1, <2>3
  <1>2. CASE o.name \in {"resume", "unwatch", "reason", "unbreak", "watch"}
    <2>1. Len(Prog(o)) = 1  BY <1>2, ShortPrograms
    <2>2. j = 1  BY <2>1
    <2>3. /\ o.name = "resume" => Prog(o)[j].k = "dhcsr"
          /\ o.name = "unwatch" => Prog(o)[j].k = "dwtfind"
          /\ o.name = "watch" => Prog(o)[j].k = "dwtscan"
          /\ o.name = "reason" => Prog(o)[j].k = "dfsr"
          /\ o.name = "unbreak" => Prog(o)[j].k \in {"reply", "fpfind"}
      BY <2>2, ShortPrograms DEF Dhcsr, S
    <2>4. QED  BY <1>2, <2>3
  <1>3. CASE o.name = "call"
    <2>1. Prog(o)[j].k \in CallKinds  BY <1>3, ShortPrograms, CallProgram, CallIsQuiet
    <2>2. QED  BY <1>3, <2>1
  <1>4. CASE o.name = "clear"
    <2>1. Prog(o)[j].k \in {"fpwrite", "function"} /\ Prog(o)[j].x[2] = Free
      BY <1>4, ShortPrograms, UnitsProgram, UnitsKinds
    <2>2. QED  BY <1>4, <2>1
  <1>5. CASE o.name = "break"
    <2>1. CASE Len(Prog(o)) = 1 /\ Prog(o)[1] = S("reply", FALSE)
      <3>1. j = 1  BY <2>1
      <3>2. Prog(o)[j].k = "reply"  BY <2>1, <3>1 DEF S
      <3>3. QED  BY <1>5, <3>2
    <2>2. CASE /\ o.x \in Breakable /\ Len(Prog(o)) = 2 /\ Prog(o)[1] = S("fpctrl", 0)
               /\ Prog(o)[2] = S("fpscan", 1)
      <3>1. j = 1 \/ j = 2  BY <2>2
      <3>2. Prog(o)[1].k = "fpctrl"  BY <2>2 DEF S
      <3>3. QED  BY <1>5, <2>2, <3>1, <3>2
    <2>3. QED  BY <1>5, <2>1, <2>2, ShortPrograms
  <1>6. QED  BY <1>1, <1>2, <1>3, <1>4, <1>5, ShortPrograms

LEMMA RequestScans ==
  ASSUME TypeInv, NEW o \in Operations, Request(o)
  PROVE  Scans'
  <1>1. /\ op' = o /\ todo' = Prog(o)
        /\ asked' = (IF o.name = "watch" THEN asked \cup {o.x} ELSE asked)
    BY RequestMoves
  <1> SUFFICES ASSUME NEW j \in 1 .. Len(Prog(o))
               PROVE  /\ Prog(o)[j].k = "fpscan" => o.x \in Breakable
                      /\ Prog(o)[j].k = "dwtscan" => o.x \in asked'
    BY <1>1 DEF Scans
  <1>2. Prog(o)[j].k = "fpscan" => o.x \in Breakable
    BY ProgKinds DEF CallKinds
  <1>3. Prog(o)[j].k = "dwtscan" => o.name = "watch"
    BY ProgKinds DEF CallKinds, S
  <1>4. QED  BY <1>1, <1>2, <1>3

LEMMA RestartType ==
  ASSUME TypeInv, Restart
  PROVE  why' \subseteq Causes \cup Watches /\ left' \subseteq Causes \cup Watches \cup {Free}
  <1>1. /\ why \subseteq Causes \cup Watches /\ left \subseteq Causes \cup Watches \cup {Free}
        /\ dfsr \subseteq Causes /\ half \in [DwtComps -> Watches \cup {Free}]
    BY DEF TypeInv, TypeOK
  <1>2. Held \subseteq Causes \cup Watches \cup {Free}  BY <1>1 DEF Held
  <1>3. QED  BY <1>1, <1>2 DEF Restart

LEMMA InitType == Init => TypeInv
  <1> SUFFICES ASSUME Init PROVE TypeInv  OBVIOUS
  <1>1. todo' = todo' /\ todo \in Seq(Steps) /\ 1 .. Len(todo) = {}
    <2>1. todo = <<>> /\ Len(todo) = 0  BY EmptyTodo DEF Init
    <2>2. QED  BY <2>1, EmptyTodo
  <1>2. Scans  BY <1>1 DEF Scans
  <1>3. regs \in [Regs -> Levels] /\ saved \in [Regs -> Levels] /\ regs0 \in [Regs -> Levels]
    BY DEF Init, Levels
  <1>4. op \in Operations  BY DEF Init, Operations
  <1>5. free \in 0 .. NumFp /\ ops \in 0 .. MaxOps /\ errs \in 0 .. MaxErrs
    BY CountsAssumption DEF Init
  <1>6. /\ asked \subseteq Watches /\ dfsr \subseteq Causes
        /\ why \subseteq Causes \cup Watches /\ left \subseteq Causes \cup Watches \cup {Free}
    BY DEF Init
  <1>7. /\ fp \in [FpComps -> Breakable \cup {Free}] /\ dwt \in [DwtComps -> Watches \cup {Free}]
        /\ half \in [DwtComps -> Watches \cup {Free}] /\ matched \in [DwtComps -> BOOLEAN]
    BY DEF Init
  <1>8. halted \in BOOLEAN /\ c_halt \in BOOLEAN /\ c_maskints \in BOOLEAN /\ c_step \in BOOLEAN
        /\ tramp \in BOOLEAN /\ fp_on \in BOOLEAN
        /\ res \in {"Idle", "Busy", "Ok", "Err", "Timeout"}
    BY DEF Init
  <1>9. QED
    BY <1>1, <1>2, <1>3, <1>4, <1>5, <1>6, <1>7, <1>8 DEF TypeInv, TypeOK, Levels

LEMMA StepType == TypeInv /\ [Next]_vars => TypeInv'
  <1> SUFFICES ASSUME TypeInv, [Next]_vars PROVE TypeInv'  OBVIOUS
  <1>0. /\ op \in Operations /\ regs0 \in [Regs -> Levels] /\ asked \subseteq Watches
        /\ ops \in 0 .. MaxOps /\ errs \in 0 .. MaxErrs
        /\ why \subseteq Causes \cup Watches /\ left \subseteq Causes \cup Watches \cup {Free}
        /\ free \in 0 .. NumFp /\ saved \in [Regs -> Levels]
        /\ res \in {"Idle", "Busy", "Ok", "Err", "Timeout"}
        /\ regs \in [Regs -> Levels] /\ Scans /\ todo \in Seq(Steps)
    BY DEF TypeInv, TypeOK, Levels
  <1>1. CASE UNCHANGED vars
    BY <1>1 DEF vars, target, run, units, history, reasons, TypeInv, TypeOK, Scans
  <1>2. ASSUME NEW o \in Operations, Request(o) PROVE TypeInv'
    <2>1. /\ op' = o /\ todo' \in Seq(Steps) /\ free' = 0 /\ res' = "Busy" /\ regs0' = regs
          /\ UNCHANGED <<target, saved, errs, reasons>> /\ asked' \subseteq Watches
          /\ ops' \in 0 .. MaxOps
      BY <1>2, RequestMoves
    <2>2. Scans'  BY <1>2, RequestScans
    <2>3. free' \in 0 .. NumFp  BY <2>1, CountsAssumption
    <2>4. QED  BY <1>0, <2>1, <2>2, <2>3 DEF TypeInv, TypeOK, target, run, units, reasons, Levels
  <1>3. CASE Access
    <2>1. /\ Pending /\ ~Hosted /\ Effect /\ Proceed /\ UNCHANGED <<op, ops, regs0, asked, errs>>
          /\ Restart
      BY <1>3 DEF Access, OpVars
    <2>2. /\ halted' \in BOOLEAN /\ c_halt' \in BOOLEAN /\ c_maskints' \in BOOLEAN
          /\ c_step' \in BOOLEAN /\ regs' \in [Regs -> Levels] /\ tramp' \in BOOLEAN
          /\ fp_on' \in BOOLEAN /\ dfsr' \subseteq Causes
          /\ fp' \in [FpComps -> Breakable \cup {Free}]
          /\ dwt' \in [DwtComps -> Watches \cup {Free}]
          /\ half' \in [DwtComps -> Watches \cup {Free}]
          /\ matched' \in [DwtComps -> BOOLEAN]
      BY <2>1, EffectType
    <2>3. /\ todo' \in Seq(Steps) /\ Scans' /\ free' \in 0 .. NumFp
          /\ saved' \in [Regs -> Levels]
          /\ res' \in {"Idle", "Busy", "Ok", "Err", "Timeout"}
      BY <2>1, ProceedType
    <2>4. /\ why' \subseteq Causes \cup Watches /\ left' \subseteq Causes \cup Watches \cup {Free}
      BY <2>1, RestartType
    <2>5. QED  BY <1>0, <2>1, <2>2, <2>3, <2>4 DEF TypeInv, TypeOK, Levels
  <1>4. CASE AccessFails
    <2>1. /\ Pending /\ (Effect \/ UNCHANGED target)
          /\ UNCHANGED <<op, asked, regs0, ops, free, saved>> /\ Restart
          /\ errs' \in 0 .. MaxErrs /\ todo' \in Seq(Steps) /\ Scans'
          /\ res' \in {"Idle", "Busy", "Ok", "Err", "Timeout"}
      BY <1>0, <1>4, FailMoves
    <2>2. /\ halted' \in BOOLEAN /\ c_halt' \in BOOLEAN /\ c_maskints' \in BOOLEAN
          /\ c_step' \in BOOLEAN /\ regs' \in [Regs -> Levels] /\ tramp' \in BOOLEAN
          /\ fp_on' \in BOOLEAN /\ dfsr' \subseteq Causes
          /\ fp' \in [FpComps -> Breakable \cup {Free}]
          /\ dwt' \in [DwtComps -> Watches \cup {Free}]
          /\ half' \in [DwtComps -> Watches \cup {Free}]
          /\ matched' \in [DwtComps -> BOOLEAN]
      BY <2>1, EffectType
    <2>3. /\ why' \subseteq Causes \cup Watches /\ left' \subseteq Causes \cup Watches \cup {Free}
      BY <2>1, RestartType
    <2>4. QED  BY <1>0, <2>1, <2>2, <2>3 DEF TypeInv, TypeOK, Levels
  <1>5. CASE Local
    <2>1. /\ Pending /\ UNCHANGED <<target, op, asked, reasons, regs0, ops, errs, free, saved>>
          /\ todo' \in Seq(Steps) /\ res' \in {"Idle", "Busy", "Ok", "Err", "Timeout"}
          /\ (Ahead(0) \/ todo' = <<>>)
      BY <1>0, <1>5, LocalMoves DEF Same
    <2>2. Scans'
      <3>1. CASE todo' = <<>>  BY <3>1, Nothing
      <3>2. CASE Ahead(0)  BY <1>0, <2>1, <3>2, PendingFacts, ScansAhead
      <3>3. QED  BY <2>1, <3>1, <3>2
    <2>3. QED  BY <1>0, <2>1, <2>2 DEF TypeInv, TypeOK, target, run, units, reasons
  <1>6. CASE Finish
    <2>1. /\ res' = "Ok" /\ todo' = <<>> /\ UNCHANGED <<target, op, history, free, saved>>
      BY <1>6 DEF Finish, Return
    <2>2. todo' \in Seq(Steps) /\ Scans'  BY <2>1, Nothing
    <2>3. QED  BY <1>0, <2>1, <2>2 DEF TypeInv, TypeOK, target, run, units, history, reasons
  <1>7. CASE Core
    <2>1. /\ halted' /\ c_halt' /\ UNCHANGED <<op, todo, free, saved, res, reply, asked>>
          /\ UNCHANGED <<ops, errs, regs0, c_maskints, tramp, units>>
          /\ c_step' \in BOOLEAN /\ dfsr' \subseteq Causes
          /\ regs' \in [Regs -> Levels] /\ matched' \in [DwtComps -> BOOLEAN]
          /\ why' \subseteq Causes \cup Watches /\ left' = left
      BY <1>7, CoreSteps
    <2>2. halted' \in BOOLEAN /\ c_halt' \in BOOLEAN
      BY <1>7 DEF Core, TakeHalt, HitBreakpoint, HitWatchpoints, FunctionReturns, Stop
    <2>3. Scans'  BY <1>0, <2>1 DEF Scans
    <2>4. QED  BY <1>0, <2>1, <2>2, <2>3 DEF TypeInv, TypeOK, Levels, units
  <1>8. QED  BY <1>1, <1>2, <1>3, <1>4, <1>5, <1>6, <1>7 DEF Next

LEMMA TypeAlways == Spec => []TypeInv
  BY InitType, StepType, PTL DEF Spec

(* Every variable keeps its type, and the steps ahead are ones the code    *)
(* makes, for any sets of registers, addresses and watchpoints.            *)
THEOREM TypeCorrect == Spec => []TypeOK
  <1>1. TypeInv => TypeOK  BY DEF TypeInv
  <1>2. QED  BY <1>1, TypeAlways, PTL
-----------------------------------------------------------------------------
(* What can stand in front after an access.                                *)
ScanKinds == {"wait", "callwait", "fpscan", "fpfind", "dwtscan", "dwtfind", "clrdfsr", "match"}

LEMMA Outcomes ==
  ASSUME TypeInv, Pending, ~Hosted, Proceed
  PROVE  \/ todo' = <<>> /\ Step.k \notin PlainKinds
         \/ Step.k = "callwait" /\ Expire
         \/ Ahead(0)
         \/ Ahead(1) /\ todo'[1].k \in ScanKinds /\ Step.k \notin PlainKinds
         \/ /\ Step.k \in {"fpscan", "fpfind"} /\ Ahead(2)
            /\ todo'[1].k = "fpwrite" /\ todo'[2].k = "reply"
         \/ /\ Step.k = "dwtfind" /\ Ahead(2) /\ X \in DwtComps
            /\ todo'[1] = S("function", <<X, Free>>) /\ todo'[2].k = "reply"
         \/ /\ Step.k = "dwtscan" /\ Ahead(3) /\ X \in DwtComps /\ dwt[X] = Free
            /\ todo'[1] = S("comp", <<X, op.x>>) /\ todo'[2] = S("function", <<X, op.x>>)
            /\ todo'[3].k = "reply"
  <1>1. CASE Step.k \in PlainKinds \cup {"save"}
    BY <1>1, PlainMoves, SaveMoves
  <1>2. CASE Step.k = "wait"
    BY <1>2, WaitMoves DEF ScanKinds, PlainKinds
  <1>3. CASE Step.k = "callwait"
    BY <1>3, CallWaitMoves DEF ScanKinds, PlainKinds
  <1>4. CASE Step.k = "fpscan"
    <2>1. \/ todo' = <<>>
          \/ Ahead(2) /\ todo'[1] = S("fpwrite", <<free, op.x>>) /\ todo'[2] = S("reply", TRUE)
          \/ Ahead(1) /\ todo'[1] = S("fpscan", X + 1)
      BY <1>4, FpScanMoves
    <2>2. QED  BY <1>4, <2>1 DEF ScanKinds, PlainKinds, S
  <1>5. CASE Step.k = "fpfind"
    <2>1. \/ todo' = <<>>
          \/ Ahead(2) /\ todo'[1] = S("fpwrite", <<X, Free>>) /\ todo'[2] = S("reply", TRUE)
          \/ Ahead(1) /\ todo'[1] = S("fpfind", X + 1)
      BY <1>5, FpFindMoves
    <2>2. QED  BY <1>5, <2>1 DEF ScanKinds, PlainKinds, S
  <1>6. CASE Step.k = "dwtscan"
    <2>1. \/ todo' = <<>>
          \/ /\ Ahead(3) /\ X \in DwtComps /\ dwt[X] = Free
             /\ todo'[1] = S("comp", <<X, op.x>>) /\ todo'[2] = S("function", <<X, op.x>>)
             /\ todo'[3] = S("reply", TRUE)
          \/ Ahead(1) /\ todo'[1] = S("dwtscan", X + 1)
      BY <1>6, DwtScanMoves
    <2>2. todo'[3] = S("reply", TRUE) => todo'[3].k = "reply"  BY DEF S
    <2>3. todo'[1] = S("dwtscan", X + 1) => todo'[1].k \in ScanKinds  BY DEF S, ScanKinds
    <2>4. Step.k \notin PlainKinds  BY <1>6 DEF PlainKinds
    <2>5. QED  BY <1>6, <2>1, <2>2, <2>3, <2>4
  <1>7. CASE Step.k = "dwtfind"
    <2>1. \/ todo' = <<>>
          \/ /\ Ahead(2) /\ X \in DwtComps
             /\ todo'[1] = S("function", <<X, Free>>) /\ todo'[2] = S("reply", TRUE)
          \/ Ahead(1) /\ todo'[1] = S("dwtfind", X + 1)
      BY <1>7, DwtFindMoves
    <2>2. todo'[2] = S("reply", TRUE) => todo'[2].k = "reply"  BY DEF S
    <2>3. todo'[1] = S("dwtfind", X + 1) => todo'[1].k \in ScanKinds  BY DEF S, ScanKinds
    <2>4. Step.k \notin PlainKinds  BY <1>7 DEF PlainKinds
    <2>5. QED  BY <1>7, <2>1, <2>2, <2>3, <2>4
  <1>8. CASE Step.k \in {"dfsr", "clrdfsr", "match"}
    BY <1>8, ReasonMoves DEF ScanKinds, PlainKinds
  <1>9. QED
    BY <1>1, <1>2, <1>3, <1>4, <1>5, <1>6, <1>7, <1>8, AccessKinds

-----------------------------------------------------------------------------
(* The watchpoint comparators.                                             *)
LEMMA DwtRest ==
  ASSUME TypeInv, Dwt, Pending, Step.k # "comp", NEW j \in 2 .. Len(todo)
  PROVE  todo[j].k # "comp" /\ (todo[j].k = "function" => todo[j].x[2] = Free)
  <1>1. j \in 1 .. Len(todo) /\ j # 1  BY PendingFacts
  <1>2. DwtAt(j)  BY <1>1 DEF Dwt
  <1>3. todo[1] # S("comp", todo[2].x)  BY PendingFacts DEF S
  <1>4. QED  BY <1>1, <1>2, <1>3 DEF DwtAt

(* What stands behind the steps put in front is off or switches off.       *)
LEMMA DwtAhead ==
  ASSUME TypeInv, Dwt, Pending, Step.k # "comp", NEW n \in Nat, Ahead(n), todo' \in Seq(Steps),
         \A j \in 1 .. n : (j \in 1 .. Len(todo')) => DwtAt(j)'
  PROVE  \A j \in 1 .. Len(todo') : DwtAt(j)'
  <1>1. Len(todo) \in Nat /\ Len(todo') = n + Len(todo) - 1  BY PendingFacts DEF Ahead
  <1> SUFFICES ASSUME NEW j \in 1 .. Len(todo') PROVE DwtAt(j)'  OBVIOUS
  <1>2. CASE j <= n  BY <1>2
  <1>3. CASE j > n
    <2>1. j \in n + 1 .. Len(todo') /\ j - n + 1 \in 2 .. Len(todo)  BY <1>1, <1>3
    <2>2. todo'[j] = todo[j - n + 1]  BY <2>1 DEF Ahead
    <2>3. todo'[j].k # "comp" /\ (todo'[j].k = "function" => todo'[j].x[2] = Free)
      BY <2>1, <2>2, DwtRest
    <2>4. QED  BY <2>3 DEF DwtAt
  <1>4. QED  BY <1>2, <1>3

LEMMA DwtExpire ==
  ASSUME TypeInv, Dwt, Pending, Step.k = "callwait", Expire
  PROVE  \A j \in 1 .. Len(todo') : DwtAt(j)'
  <1>1. /\ Len(todo') = Len(todo) - 1 /\ Len(todo) \in Nat
        /\ \A j \in 1 .. Len(todo') :
             todo'[j] = IF todo[j + 1].k = "waited" THEN S("expired", 0) ELSE todo[j + 1]
    BY PendingFacts, GoExpired
  <1> SUFFICES ASSUME NEW j \in 1 .. Len(todo') PROVE DwtAt(j)'  OBVIOUS
  <1>2. j + 1 \in 2 .. Len(todo)  BY <1>1
  <1>3. todo'[j].k # "comp" /\ (todo'[j].k = "function" => todo'[j].x[2] = Free)
    <2>1. CASE todo'[j] = S("expired", 0)  BY <2>1 DEF S
    <2>2. CASE todo'[j] = todo[j + 1]  BY <1>2, <2>2, DwtRest
    <2>3. QED  BY <1>1, <2>1, <2>2
  <1>4. QED  BY <1>3 DEF DwtAt

(* One access keeps every armed comparator whole.                          *)
LEMMA EffectDwt ==
  ASSUME TypeInv, Dwt, Pending, Effect \/ UNCHANGED target, UNCHANGED asked,
         Restart \/ UNCHANGED reasons
  PROVE  WatchArmedWhole' /\ Remembered'
  <1>0. /\ dwt \in [DwtComps -> Watches \cup {Free}] /\ half \in [DwtComps -> Watches \cup {Free}]
        /\ matched \in [DwtComps -> BOOLEAN]
        /\ \A i \in DwtComps : dwt[i] # Free => half[i] = dwt[i] /\ dwt[i] \in asked
        /\ \A i \in DwtComps : matched[i] => half[i] \in Known
        /\ dfsr \subseteq Known
    BY DEF TypeInv, TypeOK, Dwt, WatchArmedWhole, Remembered
  <1>1. DwtAt(1) /\ Step = todo[1] /\ X = todo[1].x /\ Step \in Steps
    <2>1. 1 \in 1 .. Len(todo)  BY PendingFacts
    <2>2. QED  BY <2>1, PendingFacts DEF Dwt
  <1> DEFINE Kept == dfsr' \subseteq Known /\ \A i \in DwtComps : matched'[i] => half'[i] \in Known
  <1>a. Effect => dfsr' \subseteq Known  BY <1>0 DEF Effect
  <1>2. ASSUME UNCHANGED target PROVE WatchArmedWhole' /\ Kept
    <2>1. WatchArmedWhole' /\ Kept  BY <1>0, <1>2 DEF target, units, WatchArmedWhole
    <2>2. QED  BY <2>1
  <1>3. ASSUME Effect /\ Step.k = "comp" PROVE WatchArmedWhole' /\ Kept
    <2>1. X[1] \in DwtComps /\ X[2] \in asked /\ dwt[X[1]] = Free /\ ~matched[X[1]]
      BY <1>1, <1>3, Carried DEF DwtAt
    <2>2. half' = [half EXCEPT ![X[1]] = X[2]] /\ dwt' = dwt /\ matched' = matched
      BY <1>3 DEF Effect
    <2>3. ASSUME NEW i \in DwtComps
          PROVE  /\ dwt'[i] # Free => half'[i] = dwt'[i] /\ dwt'[i] \in asked
                 /\ matched'[i] => half'[i] \in Known
      <3>1. CASE i = X[1]  BY <2>1, <2>2, <3>1
      <3>2. CASE i # X[1]  BY <1>0, <2>1, <2>2, <3>2
      <3>3. QED  BY <3>1, <3>2
    <2>4. QED  BY <1>a, <1>3, <2>3 DEF WatchArmedWhole
  <1>4. ASSUME Effect /\ Step.k = "function" PROVE WatchArmedWhole' /\ Kept
    <2>1. X[1] \in DwtComps /\ X[2] \in Watches \cup {Free}
      BY <1>1, <1>4, Carried
    <2>2. X[2] # Free => half[X[1]] = X[2] /\ X[2] \in asked
      BY <1>1, <1>4 DEF DwtAt
    <2>3. dwt' = [dwt EXCEPT ![X[1]] = X[2]] /\ half' = half /\ matched' = matched
      BY <1>4 DEF Effect
    <2>4. ASSUME NEW i \in DwtComps
          PROVE  /\ dwt'[i] # Free => half'[i] = dwt'[i] /\ dwt'[i] \in asked
                 /\ matched'[i] => half'[i] \in Known
      <3>1. CASE i = X[1]  BY <1>0, <2>1, <2>2, <2>3, <3>1
      <3>2. CASE i # X[1]  BY <1>0, <2>1, <2>3, <3>2
      <3>3. QED  BY <3>1, <3>2
    <2>5. QED  BY <1>a, <1>4, <2>4 DEF WatchArmedWhole
  <1>5. ASSUME Effect /\ Step.k \notin {"comp", "function"}
        PROVE  WatchArmedWhole' /\ Kept
    <2>1. half' = half /\ dwt' = dwt
      BY <1>5 DEF Effect
    <2>2. \A i \in DwtComps : matched'[i] => matched[i]
      BY <1>0, <1>5 DEF Effect
    <2>3. QED  BY <1>0, <1>a, <1>5, <2>1, <2>2 DEF WatchArmedWhole
  <1>6. WatchArmedWhole' /\ Kept  BY <1>2, <1>3, <1>4, <1>5
  <1>7. Remembered'
    <2>1. CASE halted /\ ~halted' /\ Restart
      <3>1. left' = Held  BY <2>1 DEF Restart
      <3>2. UNCHANGED <<dfsr, half, matched>>
        <4>1. Effect  BY <2>1 DEF target, run
        <4>2. Step.k = "dhcsr"  BY <2>1, <4>1 DEF Effect, run
        <4>3. QED  BY <4>1, <4>2 DEF Effect
      <3>3. QED  BY <3>1, <3>2 DEF Remembered, Known, Held
    <2>2. CASE ~(halted /\ ~halted') \/ UNCHANGED reasons
      <3>1. Known' = Known  BY <2>2 DEF Restart, reasons, Known
      <3>2. QED  BY <1>6, <3>1 DEF Remembered
    <2>3. QED  BY <2>1, <2>2
  <1>8. QED  BY <1>6, <1>7

LEMMA AccessDwt ==
  ASSUME TypeInv, TypeInv', Dwt, Access
  PROVE  Dwt'
  <1>0. /\ Pending /\ ~Hosted /\ Effect /\ Proceed /\ UNCHANGED <<asked, op>> /\ Restart
        /\ todo' \in Seq(Steps)
    BY DEF Access, OpVars, TypeInv
  <1>1. WatchArmedWhole' /\ Remembered'
    BY <1>0, EffectDwt
  <1> DEFINE k == Step.k
             Front(n) == \A j \in 1 .. n : (j \in 1 .. Len(todo')) => DwtAt(j)'
  <1>2. CASE k = "comp"
    <2>1. Ahead(0) /\ Len(todo) \in Nat  BY <1>0, <1>2, PlainMoves, PendingFacts DEF PlainKinds
    <2>2. DwtAt(1) /\ X = todo[1].x /\ X[1] \in DwtComps /\ X[2] \in asked
          /\ half \in [DwtComps -> Watches \cup {Free}]
      <3>1. 1 \in 1 .. Len(todo) /\ Step = todo[1] /\ Step \in Steps /\ X = todo[1].x
        BY <1>0, PendingFacts
      <3>2. DwtAt(1)  BY <3>1 DEF Dwt
      <3>3. QED  BY <1>2, <3>1, <3>2, Carried DEF DwtAt, TypeInv, TypeOK
    <2>3. half' = [half EXCEPT ![X[1]] = X[2]]  BY <1>0, <1>2 DEF Effect
    <2>4. ASSUME NEW j \in 1 .. Len(todo') PROVE DwtAt(j)'
      <3>1. j + 1 \in 1 .. Len(todo) /\ todo'[j] = todo[j + 1] /\ j + 1 # 1 /\ j \in Nat
        BY <2>1 DEF Ahead
      <3>2. DwtAt(j + 1)  BY <3>1 DEF Dwt
      <3>3. todo'[j].k # "comp"  BY <3>1, <3>2 DEF DwtAt
      <3>4. ASSUME todo'[j].k = "function", todo'[j].x[2] # Free
            PROVE  j = 1 /\ half'[todo'[j].x[1]] = todo'[j].x[2] /\ todo'[j].x[2] \in asked'
        <4>1. j + 1 = 2 /\ todo[1] = S("comp", todo[2].x)
          BY <3>1, <3>2, <3>4 DEF DwtAt
        <4>2. j = 1 /\ X = todo[2].x /\ todo'[1] = todo[2]  BY <2>2, <3>1, <4>1 DEF S
        <4>3. half'[X[1]] = X[2]  BY <2>2, <2>3
        <4>4. QED  BY <1>0, <2>2, <4>2, <4>3
      <3>5. QED  BY <3>3, <3>4 DEF DwtAt
    <2>5. QED  BY <1>1, <2>4 DEF Dwt
  <1>3. CASE k # "comp" /\ todo' = <<>>
    <2>1. 1 .. Len(todo') = {}  BY <1>3, Nothing
    <2>2. QED  BY <1>1, <2>1 DEF Dwt
  <1>4. CASE k # "comp" /\ k = "callwait" /\ Expire
    BY <1>0, <1>1, <1>4, DwtExpire DEF Dwt
  <1>5. CASE k # "comp" /\ Ahead(0)
    <2>1. Front(0)  OBVIOUS
    <2>2. \A j \in 1 .. Len(todo') : DwtAt(j)'  BY <1>0, <1>5, <2>1, DwtAhead
    <2>3. QED  BY <1>1, <2>2 DEF Dwt
  <1>6. CASE k # "comp" /\ Ahead(1) /\ todo'[1].k \in ScanKinds
    <2>1. DwtAt(1)'  BY <1>6 DEF DwtAt, ScanKinds
    <2>2. Front(1)  BY <2>1
    <2>3. \A j \in 1 .. Len(todo') : DwtAt(j)'  BY <1>0, <1>6, <2>2, DwtAhead
    <2>4. QED  BY <1>1, <2>3 DEF Dwt
  <1>7. CASE k # "comp" /\ Ahead(2) /\ todo'[1].k = "fpwrite" /\ todo'[2].k = "reply"
    <2>1. DwtAt(1)' /\ DwtAt(2)'  BY <1>7 DEF DwtAt
    <2>2. Front(2)  BY <2>1
    <2>3. \A j \in 1 .. Len(todo') : DwtAt(j)'  BY <1>0, <1>7, <2>2, DwtAhead
    <2>4. QED  BY <1>1, <2>3 DEF Dwt
  <1>8. CASE /\ k # "comp" /\ Ahead(2) /\ X \in DwtComps
             /\ todo'[1] = S("function", <<X, Free>>) /\ todo'[2].k = "reply"
    <2>0. todo'[1].k = "function" /\ todo'[1].x[2] = Free  BY <1>8 DEF S
    <2>1. DwtAt(1)' /\ DwtAt(2)'  BY <1>8, <2>0 DEF DwtAt
    <2>2. Front(2)  BY <2>1
    <2>3. \A j \in 1 .. Len(todo') : DwtAt(j)'  BY <1>0, <1>8, <2>2, DwtAhead
    <2>4. QED  BY <1>1, <2>3 DEF Dwt
  <1>9. CASE /\ k = "dwtscan" /\ Ahead(3) /\ X \in DwtComps /\ dwt[X] = Free
             /\ todo'[1] = S("comp", <<X, op.x>>) /\ todo'[2] = S("function", <<X, op.x>>)
             /\ todo'[3].k = "reply"
    <2>0. /\ todo'[1].k = "comp" /\ todo'[1].x[1] = X /\ todo'[1].x[2] = op.x
          /\ todo'[2].k = "function" /\ todo'[2].x = <<X, op.x>>
          /\ todo'[1] = S("comp", todo'[2].x)
      BY <1>9 DEF S
    <2>1. op.x \in asked'  BY <1>0, <1>9, PendingFacts
    <2>2. dwt'[X] = Free  BY <1>0, <1>9 DEF Effect
    <2>3. ~matched'[X]
      <3>1. matched' = [matched EXCEPT ![X] = FALSE] /\ matched \in [DwtComps -> BOOLEAN]
        BY <1>0, <1>9 DEF Effect, TypeInv, TypeOK
      <3>2. QED  BY <1>9, <3>1
    <2>4. DwtAt(1)'
      <3>1. dwt'[todo'[1].x[1]] = Free /\ ~matched'[todo'[1].x[1]] /\ todo'[1].x[2] \in asked'
        BY <2>0, <2>1, <2>2, <2>3
      <3>2. QED  BY <2>0, <3>1 DEF DwtAt
    <2>5. DwtAt(2)'  BY <2>0 DEF DwtAt
    <2>6. DwtAt(3)'  BY <1>9 DEF DwtAt
    <2>7. Front(3)  BY <2>4, <2>5, <2>6
    <2>8. \A j \in 1 .. Len(todo') : DwtAt(j)'
      <3>1. k # "comp"  BY <1>9
      <3>2. QED  BY <1>0, <1>9, <2>7, <3>1, DwtAhead
    <2>9. QED  BY <1>1, <2>8 DEF Dwt
  <1>10. QED
    <2>1. CASE k # "comp"
      BY <1>0, <1>3, <1>4, <1>5, <1>6, <1>7, <1>8, <1>9, <2>1, Outcomes
    <2>2. QED  BY <1>2, <2>1

LEMMA StepDwt == TypeInv /\ TypeInv' /\ Dwt /\ [Next]_vars => Dwt'
  <1> SUFFICES ASSUME TypeInv, TypeInv', Dwt, [Next]_vars PROVE Dwt'  OBVIOUS
  <1>1. CASE UNCHANGED vars
    BY <1>1 DEF vars, target, units, history, reasons, Dwt, DwtAt, WatchArmedWhole, Remembered, Known
  <1>2. ASSUME NEW o \in Operations, Request(o) PROVE Dwt'
    <2>1. /\ op' = o /\ todo' = Prog(o) /\ UNCHANGED <<target, reasons>> /\ asked \subseteq asked'
      BY <1>2, RequestMoves
    <2>2. WatchArmedWhole' /\ Remembered'
      BY <2>1 DEF Dwt, WatchArmedWhole, Remembered, Known, reasons, target, units
    <2>3. ASSUME NEW j \in 1 .. Len(todo') PROVE DwtAt(j)'
      <3>1. todo'[j].k # "comp" /\ (todo'[j].k = "function" => todo'[j].x[2] = Free)
        <4>1. j \in 1 .. Len(Prog(o)) /\ todo'[j] = Prog(o)[j]  BY <2>1
        <4>2. CASE o.name = "clear"  BY <4>1, <4>2, ProgKinds
        <4>3. CASE o.name = "break"
          <5>1. Prog(o)[j].k \in {"reply", "fpctrl", "fpscan"}  BY <4>1, <4>3, ProgKinds DEF S
          <5>2. QED  BY <4>1, <5>1
        <4>4. CASE o.name \notin {"clear", "break"}
          <5>1. Prog(o)[j].k \in CallKinds \cup {"wait", "reply", "fpfind", "dwtscan",
                                                  "dwtfind", "dfsr"}
            BY <4>1, <4>4, ProgKinds DEF CallKinds
          <5>2. QED  BY <4>1, <5>1 DEF CallKinds
        <4>5. QED  BY <4>2, <4>3, <4>4
      <3>2. QED  BY <3>1 DEF DwtAt
    <2>4. QED  BY <2>2, <2>3 DEF Dwt
  <1>3. CASE Access  BY <1>3, AccessDwt
  <1>4. CASE AccessFails
    <2>1. WatchArmedWhole' /\ Remembered'
      BY <1>4, FailMoves, EffectDwt
    <2>2. \A j \in 1 .. Len(todo') : DwtAt(j)'
      <3>1. CASE Step.k = "callwait" /\ Expire
        BY <1>4, <3>1, FailMoves, DwtExpire
      <3>2. CASE todo' = <<>>
        <4>1. 1 .. Len(todo') = {}  BY <3>2, Nothing
        <4>2. QED  BY <4>1
      <3>3. QED  BY <1>4, <3>1, <3>2, FailMoves
    <2>3. QED  BY <2>1, <2>2 DEF Dwt
  <1>5. CASE Local
    <2>0. /\ Pending /\ UNCHANGED <<target, asked, reasons>> /\ todo' \in Seq(Steps)
          /\ Step.k # "comp" /\ (Ahead(0) \/ todo' = <<>>)
      BY <1>5, LocalMoves
    <2>1. WatchArmedWhole' /\ Remembered'
      BY <2>0, EffectDwt
    <2>2. CASE Ahead(0)
      <3>1. \A j \in 1 .. 0 : (j \in 1 .. Len(todo')) => DwtAt(j)'  OBVIOUS
      <3>2. \A j \in 1 .. Len(todo') : DwtAt(j)'  BY <2>0, <2>2, <3>1, DwtAhead
      <3>3. QED  BY <2>1, <3>2 DEF Dwt
    <2>3. CASE todo' = <<>>
      <3>1. 1 .. Len(todo') = {}  BY <2>3, Nothing
      <3>2. QED  BY <2>1, <3>1 DEF Dwt
    <2>4. QED  BY <2>0, <2>2, <2>3
  <1>6. CASE Finish
    <2>1. todo' = <<>> /\ UNCHANGED <<target, history>>  BY <1>6 DEF Finish, Return
    <2>2. 1 .. Len(todo') = {}  BY <2>1, Nothing
    <2>3. QED
      BY <2>1, <2>2 DEF Dwt, WatchArmedWhole, Remembered, Known, reasons, target, units, history
  <1>7. CASE Core
    <2>0. /\ UNCHANGED <<todo, asked, units>> /\ why \subseteq why' /\ left' = left
          /\ dfsr' \subseteq dfsr \cup why'
          /\ \A i \in DwtComps : matched'[i] => matched[i] \/ (dwt[i] \in why' /\ dwt[i] # Free)
      BY <1>7, CoreSteps
    <2>1. WatchArmedWhole'  BY <2>0 DEF Dwt, WatchArmedWhole, units
    <2>2. Remembered'
      <3>1. Known \subseteq Known' /\ why' \subseteq Known'  BY <2>0 DEF Known
      <3>2. dfsr \subseteq Known /\ \A i \in DwtComps : matched[i] => half[i] \in Known
        BY DEF Dwt, Remembered
      <3>3. ASSUME NEW i \in DwtComps, matched'[i] PROVE half'[i] \in Known'
        BY <2>0, <3>1, <3>2, <3>3 DEF Dwt, WatchArmedWhole, units
      <3>4. QED  BY <2>0, <3>1, <3>2, <3>3 DEF Remembered
    <2>3. ASSUME NEW j \in 1 .. Len(todo') PROVE DwtAt(j)'
      <3>1. DwtAt(j) /\ todo' = todo /\ dwt' = dwt /\ half' = half /\ asked' = asked
        BY <2>0 DEF Dwt, units
      <3>2. CASE todo[j].k = "comp"
        <4>1. todo[j] \in Steps  BY <2>0 DEF TypeInv
        <4>2. todo[j].x[1] \in DwtComps  BY <3>2, <4>1, Carried
        <4>3. dwt[todo[j].x[1]] = Free /\ ~matched[todo[j].x[1]] /\ j = 1
              /\ todo[j].x[2] \in asked
          BY <3>1, <3>2 DEF DwtAt
        <4>4. ~matched'[todo[j].x[1]]  BY <2>0, <4>2, <4>3
        <4>5. QED  BY <3>1, <3>2, <4>3, <4>4 DEF DwtAt
      <3>3. CASE todo[j].k # "comp"  BY <3>1, <3>3 DEF DwtAt
      <3>4. QED  BY <3>2, <3>3
    <2>4. QED  BY <2>1, <2>2, <2>3 DEF Dwt
  <1>8. QED  BY <1>1, <1>2, <1>3, <1>4, <1>5, <1>6, <1>7 DEF Next

LEMMA DwtAlways == Spec => []Dwt
  <1>1. Init => Dwt
    <2> SUFFICES ASSUME Init PROVE Dwt  OBVIOUS
    <2>1. \A i \in DwtComps : dwt[i] = Free /\ ~matched[i]  BY DEF Init
    <2>2. todo = <<>> /\ Len(todo) = 0  BY EmptyTodo DEF Init
    <2>3. 1 .. Len(todo) = {}  BY <2>2
    <2>4. dfsr = {}  BY DEF Init
    <2>5. QED  BY <2>1, <2>3, <2>4 DEF Dwt, WatchArmedWhole, Remembered
  <1>2. QED  BY <1>1, StepDwt, TypeAlways, PTL DEF Spec

(* For any comparators and watchpoints, and wherever an access that arms   *)
(* one fails: a comparator that can fire has the address and mask of a     *)
(* watchpoint that was asked for.                                          *)
THEOREM WatchesWhole == Spec => []WatchArmedWhole
  <1>1. Dwt => WatchArmedWhole  BY DEF Dwt
  <1>2. QED  BY <1>1, DwtAlways, PTL
-----------------------------------------------------------------------------
(* The reason of a halt.                                                   *)
LEMMA StepReasoning == TypeInv /\ Dwt /\ Reasoning /\ [Next]_vars => Reasoning'
  <1> SUFFICES ASSUME TypeInv, Dwt, Reasoning, [Next]_vars PROVE Reasoning'  OBVIOUS
  <1>1. CASE UNCHANGED vars
    BY <1>1 DEF vars, history, reasons, Reasoning, ReasonAt, Known, ReasonHeld
  <1>2. ASSUME NEW o \in Operations, Request(o) PROVE Reasoning'
    <2>1. op' = o /\ todo' = Prog(o) /\ res' = "Busy"  BY <1>2, RequestMoves
    <2>2. CASE o.name # "reason"  BY <2>1, <2>2 DEF Reasoning, ReasonHeld
    <2>3. CASE o.name = "reason"
      <3>1. Len(todo') = 1  BY <2>1, <2>3, ShortPrograms
      <3>2. \A j \in 1 .. Len(todo') : todo'[j].k = "dfsr"  BY <2>1, <2>3, ProgKinds
      <3>3. QED  BY <2>1, <3>1, <3>2 DEF Reasoning, ReasonAt, ReasonHeld
    <2>4. QED  BY <2>2, <2>3
  <1>3. ASSUME op.name # "reason", op' = op PROVE Reasoning'
    BY <1>3 DEF Reasoning, ReasonHeld
  <1>4. ASSUME op.name = "reason", Pending
        PROVE  /\ Len(todo) = 1 /\ Step.k \in {"dfsr", "clrdfsr", "match"}
               /\ Step.k = "clrdfsr" => X \subseteq Known
               /\ Step.k = "match" => "DWTTRAP" \in Known
    <2>1. 1 \in 1 .. Len(todo) /\ Len(todo) \in Nat /\ Len(todo) >= 1 /\ Step = todo[1]
          /\ res = "Busy"
      BY <1>4, PendingFacts
    <2>2. Len(todo) <= 1 /\ ReasonAt(1)  BY <1>4, <2>1 DEF Reasoning
    <2>3. Len(todo) = 1  BY <2>1, <2>2
    <2>4. QED  BY <2>1, <2>2, <2>3 DEF ReasonAt, X
  <1>5. CASE Access /\ op.name = "reason"
    <2>0. Pending /\ Effect /\ Proceed /\ UNCHANGED op /\ Restart
      BY <1>5 DEF Access, OpVars
    <2>1. /\ Len(todo) = 1 /\ Step.k \in {"dfsr", "clrdfsr", "match"}
          /\ Step.k = "clrdfsr" => X \subseteq Known
          /\ Step.k = "match" => "DWTTRAP" \in Known
      BY <1>4, <1>5, <2>0
    <2>a. Known' = Known
      <3>1. halted' = halted  BY <2>0, <2>1 DEF Effect, run
      <3>2. QED  BY <2>0, <3>1 DEF Restart, Known
    <2>b. dfsr \subseteq Known /\ \A i \in DwtComps : matched[i] => half[i] \in Known
      BY DEF Dwt, Remembered
    <2>2. CASE Same /\ Ahead(1) /\ ReasonAt(1)'
      <3>1. Len(todo') = 1  BY <2>1, <2>2 DEF Ahead
      <3>2. \A j \in 1 .. Len(todo') : j = 1  BY <3>1
      <3>3. res' = "Busy"  BY <2>0, <2>2 DEF Pending, Same
      <3>4. QED  BY <2>2, <3>1, <3>2, <3>3 DEF Reasoning, ReasonHeld
    <2>3. CASE res' = "Ok" /\ reply' \subseteq Known
      BY <2>3, <2>a DEF Reasoning, ReasonHeld, Known
    <2>4. todo'[1].k = "clrdfsr" /\ todo'[1].x = dfsr => ReasonAt(1)'
      BY <2>a, <2>b DEF ReasonAt
    <2>5. todo'[1].k = "match" /\ "DWTTRAP" \in Known => ReasonAt(1)'
      BY <2>a DEF ReasonAt
    <2>6. CASE res' = "Ok" /\ Step.k = "match" /\ X \in DwtComps /\ matched[X]
               /\ reply' = {"DWTTRAP", half[X]}
      BY <2>1, <2>3, <2>6, <2>b
    <2>7. QED  BY <2>0, <2>1, <2>2, <2>3, <2>4, <2>5, <2>6, ReasonMoves
  <1>6. CASE AccessFails /\ op.name = "reason"
    <2>1. Pending  BY <1>6 DEF AccessFails
    <2>2. Step.k # "callwait"  BY <1>4, <1>6, <2>1
    <2>3. res' = "Err"  BY <1>6, <2>2, FailMoves
    <2>4. QED  BY <2>3 DEF Reasoning, ReasonHeld
  <1>7. CASE Local /\ op.name = "reason"
    <2>1. Pending /\ Hosted  BY <1>7 DEF Local
    <2>2. QED  BY <1>4, <1>7, <2>1 DEF Hosted
  <1>8. CASE Finish
    <2>1. res' = "Ok" /\ reply' = {}  BY <1>8 DEF Finish, Return
    <2>2. QED  BY <2>1 DEF Reasoning, ReasonHeld
  <1>9. CASE Core
    <2>1. UNCHANGED <<op, todo, res, reply>> /\ why \subseteq why' /\ left' = left
      BY <1>9, CoreSteps
    <2>2. Known \subseteq Known'  BY <2>1 DEF Known
    <2>3. ReasonHeld'  BY <2>1 DEF Reasoning, ReasonHeld
    <2>4. \A j \in 1 .. Len(todo) : ReasonAt(j) => ReasonAt(j)'  BY <2>1, <2>2 DEF ReasonAt
    <2>5. QED  BY <2>1, <2>3, <2>4 DEF Reasoning
  <1>10. QED
    <2>1. Access \/ AccessFails \/ Local => op' = op  BY DEF Access, AccessFails, Local, OpVars
    <2>2. QED
      BY <1>1, <1>2, <1>3, <1>5, <1>6, <1>7, <1>8, <1>9, <2>1 DEF Next

(* For any comparators, and wherever an access fails: each part of the     *)
(* reason that halt_reason reports, the cause and the watchpoint, is of    *)
(* this stop, or DFSR or a MATCHED bit still held it when the core was     *)
(* last started.                                                           *)
THEOREM ReasonsAreHeld == Spec => []ReasonHeld
  <1>1. Init => Reasoning  BY DEF Init, Reasoning, ReasonHeld
  <1>2. Reasoning => ReasonHeld  BY DEF Reasoning
  <1>3. QED  BY <1>1, <1>2, StepReasoning, TypeAlways, DwtAlways, PTL DEF Spec
-----------------------------------------------------------------------------
(* The breakpoint comparators.                                             *)
(* Only clear_all has writes behind the first step, and a scan begins      *)
(* behind nothing but FP_CTRL.                                             *)
LEMMA FpbRest ==
  ASSUME TypeInv, Fpb, Pending, NEW j \in 2 .. Len(todo)
  PROVE  /\ todo[j].k = "fpscan" => todo[j].x = 1 /\ free = 0 /\ j = Len(todo)
         /\ todo[j].k = "fpwrite" => todo[j].x[2] = Free
  <1>1. j \in 1 .. Len(todo) /\ j # 1  BY PendingFacts
  <1>2. QED  BY <1>1 DEF Fpb, FpbAt

LEMMA FpbAhead ==
  ASSUME TypeInv, Fpb, Pending, NEW n \in Nat, Ahead(n),
         free' = free \/ \A j \in 2 .. Len(todo) : todo[j].k # "fpscan",
         \A j \in 1 .. n : (j \in 1 .. Len(todo')) => FpbAt(j)'
  PROVE  \A j \in 1 .. Len(todo') : FpbAt(j)'
  <1>1. Len(todo) \in Nat /\ Len(todo') = n + Len(todo) - 1  BY PendingFacts DEF Ahead
  <1> SUFFICES ASSUME NEW j \in 1 .. Len(todo') PROVE FpbAt(j)'  OBVIOUS
  <1>2. CASE j <= n  BY <1>2
  <1>3. CASE j > n
    <2>1. j \in n + 1 .. Len(todo') /\ j - n + 1 \in 2 .. Len(todo)  BY <1>1, <1>3
    <2>2. todo'[j] = todo[j - n + 1]  BY <2>1 DEF Ahead
    <2>3. /\ todo'[j].k = "fpscan" => todo'[j].x = 1 /\ free' = 0
          /\ todo'[j].k = "fpscan" => j - n + 1 = Len(todo)
          /\ todo'[j].k = "fpwrite" => todo'[j].x[2] = Free
      BY <2>1, <2>2, FpbRest
    <2>4. todo'[j].k = "fpscan" => j = Len(todo')  BY <1>1, <2>1, <2>3
    <2>5. QED  BY <2>3, <2>4 DEF FpbAt
  <1>4. QED  BY <1>2, <1>3

LEMMA FpbExpire ==
  ASSUME TypeInv, Fpb, Pending, Expire, free' = free
  PROVE  \A j \in 1 .. Len(todo') : FpbAt(j)'
  <1>1. /\ Len(todo') = Len(todo) - 1 /\ Len(todo) \in Nat
        /\ \A j \in 1 .. Len(todo') :
             todo'[j] = IF todo[j + 1].k = "waited" THEN S("expired", 0) ELSE todo[j + 1]
    BY PendingFacts, GoExpired
  <1> SUFFICES ASSUME NEW j \in 1 .. Len(todo') PROVE FpbAt(j)'  OBVIOUS
  <1>2. j + 1 \in 2 .. Len(todo)  BY <1>1
  <1>3. /\ todo'[j].k = "fpscan" => todo'[j].x = 1 /\ free' = 0
        /\ todo'[j].k = "fpscan" => j + 1 = Len(todo)
        /\ todo'[j].k = "fpwrite" => todo'[j].x[2] = Free
    <2>1. CASE todo'[j] = S("expired", 0)  BY <2>1 DEF S
    <2>2. CASE todo'[j] = todo[j + 1]  BY <1>2, <2>2, FpbRest
    <2>3. QED  BY <1>1, <2>1, <2>2
  <1>4. todo'[j].k = "fpscan" => j = Len(todo')  BY <1>1, <1>2, <1>3
  <1>5. QED  BY <1>3, <1>4 DEF FpbAt

Distinct == \A i, j \in FpComps : fp[i] # Free /\ fp[i] = fp[j] => i = j

LEMMA EffectFpb ==
  ASSUME TypeInv, Fpb, Pending, Effect \/ UNCHANGED target
  PROVE  /\ Distinct'
         /\ Step.k # "fpwrite" => fp' = fp
  <1>0. /\ fp \in [FpComps -> Breakable \cup {Free}] /\ Distinct
    BY DEF TypeInv, TypeOK, Fpb, Distinct
  <1>1. CASE UNCHANGED target
    BY <1>0, <1>1 DEF target, units, Distinct
  <1>2. CASE Effect /\ Step.k = "fpwrite"
    <2>1. FpbAt(1) /\ X = todo[1].x /\ Step = todo[1] /\ X[1] \in FpComps
      <3>1. 1 \in 1 .. Len(todo) /\ X = todo[1].x /\ Step = todo[1] /\ Step \in Steps
        BY PendingFacts
      <3>2. QED  BY <1>2, <3>1, Carried DEF Fpb
    <2>2. X[2] = Free \/ \A i \in FpComps : fp[i] # X[2]
      BY <1>2, <2>1 DEF FpbAt
    <2>3. fp' = [fp EXCEPT ![X[1]] = X[2]]  BY <1>2 DEF Effect
    <2>4. ASSUME NEW i \in FpComps, NEW j \in FpComps, fp'[i] # Free, fp'[i] = fp'[j]
          PROVE  i = j
      <3>1. CASE i = X[1] /\ j # X[1]
        <4>1. fp'[i] = X[2] /\ fp'[j] = fp[j]  BY <1>0, <2>1, <2>3, <3>1
        <4>2. QED  BY <2>2, <2>4, <4>1
      <3>2. CASE i # X[1] /\ j = X[1]
        <4>1. fp'[j] = X[2] /\ fp'[i] = fp[i]  BY <1>0, <2>1, <2>3, <3>2
        <4>2. QED  BY <2>2, <2>4, <4>1
      <3>3. CASE i # X[1] /\ j # X[1]
        <4>1. fp'[j] = fp[j] /\ fp'[i] = fp[i]  BY <1>0, <2>1, <2>3, <3>3
        <4>2. QED  BY <1>0, <2>4, <4>1 DEF Distinct
      <3>4. QED  BY <3>1, <3>2, <3>3
    <2>5. QED  BY <1>2, <2>4 DEF Distinct
  <1>3. CASE Effect /\ Step.k # "fpwrite"
    <2>1. fp' = fp  BY <1>3 DEF Effect
    <2>2. QED  BY <1>0, <2>1 DEF Distinct
  <1>4. QED  BY <1>1, <1>2, <1>3

LEMMA AccessFpb ==
  ASSUME TypeInv, TypeInv', Fpb, Access
  PROVE  Fpb'
  <1>0. /\ Pending /\ ~Hosted /\ Effect /\ Proceed /\ UNCHANGED <<asked, op>>
        /\ todo' \in Seq(Steps)
    BY DEF Access, OpVars, TypeInv
  <1>1. Distinct' /\ (Step.k # "fpwrite" => fp' = fp)  BY <1>0, EffectFpb
  <1> DEFINE k == Step.k
             Front(n) == \A j \in 1 .. n : (j \in 1 .. Len(todo')) => FpbAt(j)'
  <1>2. CASE k = "fpscan"
    <2>0. /\ FpbAt(1) /\ X = todo[1].x /\ k = todo[1].k /\ fp' = fp /\ Len(todo) = 1
          /\ fp \in [FpComps -> Breakable \cup {Free}] /\ 0 \notin FpComps
      <3>1. 1 \in 1 .. Len(todo) /\ X = todo[1].x /\ Step = todo[1]  BY <1>0, PendingFacts
      <3>2. 0 \notin FpComps  BY DEF FpComps
      <3>3. FpbAt(1)  BY <3>1 DEF Fpb
      <3>4. Len(todo) = 1  BY <1>2, <3>1, <3>3 DEF FpbAt
      <3>5. QED  BY <1>1, <1>2, <3>1, <3>2, <3>3, <3>4 DEF TypeInv, TypeOK
    <2>1. /\ free # 0 => fp[free] = Free
          /\ \A i \in FpComps : i < X => fp[i] # op.x
      <3>1. CASE X = 1 /\ free = 0
        <4>1. \A i \in FpComps : ~(i < 1)  BY CountsAssumption DEF FpComps
        <4>2. QED  BY <3>1, <4>1
      <3>2. QED  BY <1>2, <2>0, <3>1 DEF FpbAt
    <2>2. \A j \in 2 .. Len(todo) : todo[j].k # "fpscan"  BY <2>0
    <2>3. CASE todo' = <<>>
      <3>1. 1 .. Len(todo') = {}  BY <2>3, Nothing
      <3>2. QED  BY <1>1, <3>1 DEF Fpb, Distinct
    <2>4. CASE /\ X > NumFp /\ Same /\ Ahead(2)
               /\ todo'[1] = S("fpwrite", <<free, op.x>>) /\ todo'[2] = S("reply", TRUE)
      <3>1. /\ todo'[1].k = "fpwrite" /\ todo'[1].x[2] = op.x /\ todo'[2].k = "reply"
        BY <2>4 DEF S
      <3>2. \A i \in FpComps : i < X
        <4>1. X \in Nat  BY <1>0, <1>2, FpScanMoves
        <4>2. QED  BY <2>4, <4>1, CountsAssumption DEF FpComps
      <3>3. \A i \in FpComps : fp'[i] # todo'[1].x[2]  BY <2>0, <2>1, <3>1, <3>2
      <3>4. FpbAt(1)' /\ FpbAt(2)'  BY <3>1, <3>3 DEF FpbAt
      <3>5. Front(2)  BY <3>4
      <3>6. \A j \in 1 .. Len(todo') : FpbAt(j)'
        BY <1>0, <2>2, <2>4, <3>5, FpbAhead
      <3>7. QED  BY <1>1, <3>6 DEF Fpb, Distinct
    <2>5. CASE /\ X \in FpComps /\ fp[X] # op.x /\ Ahead(1)
               /\ todo'[1] = S("fpscan", X + 1)
               /\ free' = IF free = 0 /\ fp[X] = Free THEN X ELSE free
      <3>1. todo'[1].k = "fpscan" /\ todo'[1].x = X + 1  BY <2>5 DEF S
      <3>2. free' # 0 => fp'[free'] = Free  BY <2>0, <2>1, <2>5
      <3>3. \A i \in FpComps : i < X + 1 => i < X \/ i = X
        BY <2>5 DEF FpComps
      <3>4. \A i \in FpComps : i < X + 1 => fp'[i] # op'.x
        BY <1>0, <2>0, <2>1, <2>5, <3>3
      <3>45. Len(todo') = 1  BY <2>0, <2>5 DEF Ahead
      <3>5. FpbAt(1)'  BY <3>1, <3>2, <3>4, <3>45 DEF FpbAt
      <3>6. Front(1)  BY <3>5
      <3>7. \A j \in 1 .. Len(todo') : FpbAt(j)'
        BY <1>0, <2>2, <2>5, <3>6, FpbAhead
      <3>8. QED  BY <1>1, <3>7 DEF Fpb, Distinct
    <2>6. QED  BY <1>0, <1>2, <2>3, <2>4, <2>5, FpScanMoves
  <1>3. CASE k = "fpfind"
    <2>0. free' = free  BY <1>0, <1>3, FpFindMoves
    <2>1. CASE todo' = <<>>
      <3>1. 1 .. Len(todo') = {}  BY <2>1, Nothing
      <3>2. QED  BY <1>1, <3>1 DEF Fpb, Distinct
    <2>2. CASE /\ Ahead(2) /\ todo'[1] = S("fpwrite", <<X, Free>>)
               /\ todo'[2] = S("reply", TRUE)
      <3>1. todo'[1].k = "fpwrite" /\ todo'[1].x[2] = Free /\ todo'[2].k = "reply"
        BY <2>2 DEF S
      <3>2. FpbAt(1)' /\ FpbAt(2)'  BY <3>1 DEF FpbAt
      <3>3. Front(2)  BY <3>2
      <3>4. \A j \in 1 .. Len(todo') : FpbAt(j)'  BY <1>0, <2>0, <2>2, <3>3, FpbAhead
      <3>5. QED  BY <1>1, <3>4 DEF Fpb, Distinct
    <2>3. CASE Ahead(1) /\ todo'[1] = S("fpfind", X + 1)
      <3>1. todo'[1].k = "fpfind"  BY <2>3 DEF S
      <3>2. FpbAt(1)'  BY <3>1 DEF FpbAt
      <3>3. Front(1)  BY <3>2
      <3>4. \A j \in 1 .. Len(todo') : FpbAt(j)'  BY <1>0, <2>0, <2>3, <3>3, FpbAhead
      <3>5. QED  BY <1>1, <3>4 DEF Fpb, Distinct
    <2>4. QED  BY <1>0, <1>3, <2>1, <2>2, <2>3, FpFindMoves
  <1>4. CASE k \notin {"fpscan", "fpfind"}
    <2>0. free' = free
      BY <1>0, <1>4, AccessKinds, PlainMoves, SaveMoves, WaitMoves, CallWaitMoves, DwtScanMoves,
         DwtFindMoves, ReasonMoves DEF Same
    <2>1. CASE todo' = <<>>
      <3>1. 1 .. Len(todo') = {}  BY <2>1, Nothing
      <3>2. QED  BY <1>1, <3>1 DEF Fpb, Distinct
    <2>2. CASE Expire
      BY <1>0, <1>1, <2>0, <2>2, FpbExpire DEF Fpb, Distinct
    <2>3. CASE Ahead(0)
      <3>1. Front(0)  OBVIOUS
      <3>2. \A j \in 1 .. Len(todo') : FpbAt(j)'  BY <1>0, <2>0, <2>3, <3>1, FpbAhead
      <3>3. QED  BY <1>1, <3>2 DEF Fpb, Distinct
    <2>4. CASE Ahead(1) /\ todo'[1].k \in ScanKinds /\ todo'[1].k # "fpscan"
      <3>1. FpbAt(1)'  BY <2>4 DEF FpbAt, ScanKinds
      <3>2. Front(1)  BY <3>1
      <3>3. \A j \in 1 .. Len(todo') : FpbAt(j)'  BY <1>0, <2>0, <2>4, <3>2, FpbAhead
      <3>4. QED  BY <1>1, <3>3 DEF Fpb, Distinct
    <2>5. CASE /\ Ahead(2) /\ todo'[1] = S("function", <<X, Free>>) /\ todo'[2].k = "reply"
      <3>1. todo'[1].k = "function"  BY <2>5 DEF S
      <3>2. FpbAt(1)' /\ FpbAt(2)'  BY <2>5, <3>1 DEF FpbAt
      <3>3. Front(2)  BY <3>2
      <3>4. \A j \in 1 .. Len(todo') : FpbAt(j)'  BY <1>0, <2>0, <2>5, <3>3, FpbAhead
      <3>5. QED  BY <1>1, <3>4 DEF Fpb, Distinct
    <2>6. CASE /\ Ahead(3) /\ todo'[1] = S("comp", <<X, op.x>>)
               /\ todo'[2] = S("function", <<X, op.x>>) /\ todo'[3].k = "reply"
      <3>1. todo'[1].k = "comp" /\ todo'[2].k = "function"  BY <2>6 DEF S
      <3>2. FpbAt(1)' /\ FpbAt(2)' /\ FpbAt(3)'  BY <2>6, <3>1 DEF FpbAt
      <3>3. Front(3)  BY <3>2
      <3>4. \A j \in 1 .. Len(todo') : FpbAt(j)'  BY <1>0, <2>0, <2>6, <3>3, FpbAhead
      <3>5. QED  BY <1>1, <3>4 DEF Fpb, Distinct
    <2>7. CASE k \in PlainKinds \cup {"save"}
      BY <1>0, <2>3, <2>7, PlainMoves, SaveMoves
    <2>8. CASE k \in {"wait", "callwait"}
      <3>1. todo'[1].k \in {"wait", "callwait"} =>
              todo'[1].k \in ScanKinds /\ todo'[1].k # "fpscan"
        BY DEF ScanKinds
      <3>2. \/ todo' = <<>> \/ Expire \/ Ahead(0)
            \/ Ahead(1) /\ todo'[1].k \in {"wait", "callwait"}
        BY <1>0, <2>8, WaitMoves, CallWaitMoves
      <3>3. QED  BY <2>1, <2>2, <2>3, <2>4, <3>1, <3>2
    <2>9. CASE k = "dwtscan"
      <3>1. /\ S("dwtscan", X + 1).k \in ScanKinds /\ S("dwtscan", X + 1).k # "fpscan"
            /\ S("reply", TRUE).k = "reply"
        BY DEF S, ScanKinds
      <3>2. QED  BY <1>0, <2>1, <2>4, <2>6, <2>9, <3>1, DwtScanMoves
    <2>10. CASE k = "dwtfind"
      <3>1. /\ S("dwtfind", X + 1).k \in ScanKinds /\ S("dwtfind", X + 1).k # "fpscan"
            /\ S("reply", TRUE).k = "reply"
        BY DEF S, ScanKinds
      <3>2. QED  BY <1>0, <2>1, <2>4, <2>5, <2>10, <3>1, DwtFindMoves
    <2>11. CASE k \in {"dfsr", "clrdfsr", "match"}
      <3>1. todo'[1].k \in {"clrdfsr", "match"} =>
              todo'[1].k \in ScanKinds /\ todo'[1].k # "fpscan"
        BY DEF ScanKinds
      <3>2. todo' = <<>> \/ (Ahead(1) /\ todo'[1].k \in {"clrdfsr", "match"})
        BY <1>0, <2>11, ReasonMoves
      <3>3. QED  BY <2>1, <2>4, <3>1, <3>2
    <2>12. QED  BY <1>0, <1>4, <2>7, <2>8, <2>9, <2>10, <2>11, AccessKinds
  <1>5. QED  BY <1>2, <1>3, <1>4

LEMMA StepFpb == TypeInv /\ TypeInv' /\ Fpb /\ [Next]_vars => Fpb'
  <1> SUFFICES ASSUME TypeInv, TypeInv', Fpb, [Next]_vars PROVE Fpb'  OBVIOUS
  <1>1. CASE UNCHANGED vars
    BY <1>1 DEF vars, target, units, Fpb, FpbAt
  <1>2. ASSUME NEW o \in Operations, Request(o) PROVE Fpb'
    <2>1. op' = o /\ todo' = Prog(o) /\ free' = 0 /\ UNCHANGED target
      BY <1>2, RequestMoves
    <2>2. fp' = fp  BY <2>1 DEF target, units
    <2>3. ASSUME NEW j \in 1 .. Len(todo') PROVE FpbAt(j)'
      <3>1. todo'[j].k = "fpwrite" => todo'[j].x[2] = Free
        <4>1. todo'[j] = S("fpscan", 1) => todo'[j].k = "fpscan"  BY DEF S
        <4>2. j \in 1 .. Len(Prog(o)) /\ todo'[j] = Prog(o)[j]  BY <2>1
        <4>3. QED  BY <4>1, <4>2, ProgKinds DEF CallKinds
      <3>2. todo'[j].k = "fpscan" => o.name = "break" /\ todo'[j] = S("fpscan", 1)
        BY <2>1, ProgKinds DEF CallKinds
      <3>3. todo'[j].k = "fpscan" => todo'[j].x = 1  BY <3>2 DEF S
      <3>4. todo'[j].k = "fpscan" => j = Len(todo')
        <4>1. SUFFICES ASSUME todo'[j].k = "fpscan" PROVE j = Len(todo')  OBVIOUS
        <4>2. o.name = "break"  BY <3>2, <4>1
        <4>3. CASE Len(todo') = 1  BY <4>3
        <4>4. CASE Len(todo') = 2 /\ todo'[1] = S("fpctrl", 0)
          <5>1. todo'[1].k # "fpscan"  BY <4>4 DEF S
          <5>2. j \in 1 .. 2 /\ j # 1  BY <4>1, <4>4, <5>1
          <5>3. QED  BY <4>4, <5>2
        <4>5. QED  BY <2>1, <4>2, <4>3, <4>4, ShortPrograms
      <3>5. QED  BY <2>1, <3>1, <3>3, <3>4 DEF FpbAt
    <2>4. QED  BY <2>2, <2>3 DEF Fpb
  <1>3. CASE Access  BY <1>3, AccessFpb
  <1>4. CASE AccessFails
    <2>1. /\ Pending /\ (Effect \/ UNCHANGED target) /\ free' = free
      BY <1>4, FailMoves
    <2>2. Distinct'  BY <2>1, EffectFpb
    <2>3. CASE todo' = <<>>
      <3>1. 1 .. Len(todo') = {}  BY <2>3, Nothing
      <3>2. QED  BY <2>2, <3>1 DEF Fpb, Distinct
    <2>4. CASE Expire
      BY <2>1, <2>2, <2>4, FpbExpire DEF Fpb, Distinct
    <2>5. QED  BY <1>4, <2>3, <2>4, FailMoves
  <1>5. CASE Local
    <2>1. Pending /\ fp' = fp /\ free' = free  BY <1>5, LocalMoves DEF target, units
    <2>2. CASE todo' = <<>>
      <3>1. 1 .. Len(todo') = {}  BY <2>2, Nothing
      <3>2. QED  BY <2>1, <3>1 DEF Fpb
    <2>3. CASE Ahead(0)
      <3>1. \A j \in 1 .. 0 : (j \in 1 .. Len(todo')) => FpbAt(j)'  OBVIOUS
      <3>2. \A j \in 1 .. Len(todo') : FpbAt(j)'  BY <2>1, <2>3, <3>1, FpbAhead
      <3>3. QED  BY <2>1, <3>2 DEF Fpb
    <2>4. QED  BY <1>5, <2>2, <2>3, LocalMoves
  <1>6. CASE Finish
    <2>1. todo' = <<>> /\ fp' = fp  BY <1>6 DEF Finish, Return, target, units
    <2>2. 1 .. Len(todo') = {}  BY <2>1, Nothing
    <2>3. QED  BY <2>1, <2>2 DEF Fpb
  <1>7. CASE Core
    <2>1. UNCHANGED <<op, todo, free, fp>>  BY <1>7, CoreSteps DEF units
    <2>2. QED  BY <2>1 DEF Fpb, FpbAt
  <1>8. QED  BY <1>1, <1>2, <1>3, <1>4, <1>5, <1>6, <1>7 DEF Next

LEMMA FpbAlways == Spec => []Fpb
  <1>1. Init => Fpb
    <2> SUFFICES ASSUME Init PROVE Fpb  OBVIOUS
    <2>1. todo = <<>> /\ fp = [i \in FpComps |-> Free]  BY DEF Init
    <2>2. 1 .. Len(todo) = {}  BY <2>1
    <2>3. QED  BY <2>1, <2>2 DEF Fpb
  <1>2. QED  BY <1>1, StepFpb, TypeAlways, PTL DEF Spec
-----------------------------------------------------------------------------
(* What the replies of hw_breakpoint_set, hw_breakpoint_clear and          *)
(* clear_all mean.                                                         *)
LEMMA EffectUnits ==
  ASSUME TypeInv, Pending, Effect
  PROVE  /\ Step.k = "fpwrite" => X[1] \in FpComps /\ fp' = [fp EXCEPT ![X[1]] = X[2]]
         /\ Step.k # "fpwrite" => fp' = fp
         /\ Step.k = "function" => X[1] \in DwtComps /\ dwt' = [dwt EXCEPT ![X[1]] = X[2]]
         /\ Step.k # "function" => dwt' = dwt
         /\ fp_on \/ Step.k = "fpctrl" => fp_on'
         /\ fp \in [FpComps -> Breakable \cup {Free}] /\ dwt \in [DwtComps -> Watches \cup {Free}]
  <1>1. Step \in Steps /\ X = Step.x  BY PendingFacts DEF X
  <1>2. /\ Step.k = "fpwrite" => X[1] \in FpComps
        /\ Step.k = "function" => X[1] \in DwtComps
    BY <1>1, Carried
  <1>3. fp_on' = (fp_on \/ Step.k = "fpctrl")  BY DEF Effect
  <1>4. fp_on \/ Step.k = "fpctrl" => fp_on'  BY <1>3, Zenon
  <1>5. /\ Step.k = "fpwrite" => fp' = [fp EXCEPT ![X[1]] = X[2]]
        /\ Step.k # "fpwrite" => fp' = fp
        /\ Step.k = "function" => dwt' = [dwt EXCEPT ![X[1]] = X[2]]
        /\ Step.k # "function" => dwt' = dwt
    BY DEF Effect
  <1>6. /\ fp \in [FpComps -> Breakable \cup {Free}]
        /\ dwt \in [DwtComps -> Watches \cup {Free}]
    BY DEF TypeInv, TypeOK
  <1>7. QED  BY <1>2, <1>4, <1>5, <1>6

LEMMA AccessSetting ==
  ASSUME TypeInv, TypeInv', Access, op.name = "break", Setting
  PROVE  /\ res' = "Busy" => Setting'
         /\ res' = "Ok" /\ reply' = {TRUE} => fp_on' /\ \E i \in FpComps : fp'[i] = op.x
  <1>0. Pending /\ ~Hosted /\ Effect /\ Proceed /\ op' = op  BY DEF Access, OpVars
  <1>1. /\ Step = todo[1] /\ X = todo[1].x /\ Len(todo) \in Nat /\ res = "Busy"
        /\ todo[1].k # "reply"
    BY <1>0, PendingFacts DEF Hosted
  <1>2. CASE Len(todo) = 2 /\ todo[1] = S("fpctrl", 0) /\ todo[2] = S("fpscan", 1)
    <2>1. Step.k = "fpctrl" /\ todo[2].k = "fpscan"  BY <1>1, <1>2 DEF S
    <2>2. Ahead(0) /\ Same  BY <1>0, <2>1, PlainMoves DEF PlainKinds
    <2>3. Len(todo') = 1  BY <1>2, <2>2 DEF Ahead
    <2>4. 1 \in 0 + 1 .. Len(todo') /\ 1 - 0 + 1 = 2  BY <2>3
    <2>5. todo'[1] = todo[2]  BY <2>2, <2>4 DEF Ahead
    <2>6. fp_on'  BY <1>0, <2>1, EffectUnits
    <2>7. Setting'  BY <2>1, <2>3, <2>5, <2>6 DEF Setting
    <2>8. QED  BY <1>1, <2>2, <2>7 DEF Same
  <1>3. CASE fp_on /\ Len(todo) = 1 /\ todo[1].k = "fpscan"
    <2>0. Step.k = "fpscan" /\ fp_on' /\ fp' = fp  BY <1>0, <1>1, <1>3, EffectUnits
    <2>1. CASE res' = "Ok" /\ reply' = {FALSE}  BY <2>1
    <2>2. CASE /\ Same /\ Ahead(2)
               /\ todo'[1] = S("fpwrite", <<free, op.x>>) /\ todo'[2] = S("reply", TRUE)
      <3>1. Len(todo') = 2  BY <1>3, <2>2 DEF Ahead
      <3>2. todo'[1].k = "fpwrite" /\ todo'[1].x[2] = op'.x  BY <1>0, <2>2 DEF S
      <3>3. Setting'  BY <2>0, <2>2, <3>1, <3>2 DEF Setting
      <3>4. QED  BY <1>1, <2>2, <3>3 DEF Same
    <2>3. CASE X \in FpComps /\ fp[X] = op.x /\ res' = "Ok"
      BY <2>0, <2>3
    <2>4. CASE UNCHANGED <<res, reply>> /\ Ahead(1) /\ todo'[1] = S("fpscan", X + 1)
      <3>1. Len(todo') = 1  BY <1>3, <2>4 DEF Ahead
      <3>2. todo'[1].k = "fpscan"  BY <2>4 DEF S
      <3>3. Setting'  BY <2>0, <3>1, <3>2 DEF Setting
      <3>4. QED  BY <1>1, <2>4, <3>3
    <2>5. QED  BY <1>0, <2>0, <2>1, <2>2, <2>3, <2>4, FpScanMoves
  <1>4. CASE /\ fp_on /\ Len(todo) = 2 /\ todo[1].k = "fpwrite" /\ todo[1].x[2] = op.x
             /\ todo[2] = S("reply", TRUE)
    <2>1. Ahead(0) /\ Same  BY <1>0, <1>1, <1>4, PlainMoves DEF PlainKinds
    <2>2. Len(todo') = 1  BY <1>4, <2>1 DEF Ahead
    <2>3. 1 \in 0 + 1 .. Len(todo') /\ 1 - 0 + 1 = 2  BY <2>2
    <2>4. todo'[1] = S("reply", TRUE)  BY <1>4, <2>1, <2>3 DEF Ahead
    <2>5. /\ X[1] \in FpComps /\ fp' = [fp EXCEPT ![X[1]] = X[2]] /\ fp_on'
          /\ fp \in [FpComps -> Breakable \cup {Free}]
      BY <1>0, <1>1, <1>4, EffectUnits
    <2>6. fp'[X[1]] = op'.x  BY <1>0, <1>1, <1>4, <2>5
    <2>7. Setting'  BY <2>2, <2>4, <2>5, <2>6 DEF Setting
    <2>8. QED  BY <1>1, <2>1, <2>7 DEF Same
  <1>5. CASE todo[1] = S("reply", FALSE) \/ todo[1] = S("reply", TRUE)
    <2>1. todo[1].k = "reply"  BY <1>5 DEF S
    <2>2. QED  BY <1>1, <2>1
  <1>6. QED  BY <1>2, <1>3, <1>4, <1>5 DEF Setting

LEMMA AccessClearing ==
  ASSUME TypeInv, TypeInv', Fpb, Access, op.name = "unbreak", Clearing
  PROVE  /\ res' = "Busy" => Clearing'
         /\ res' = "Ok" => \A i \in FpComps : fp'[i] # op.x
  <1>0. Pending /\ ~Hosted /\ Effect /\ Proceed /\ op' = op  BY DEF Access, OpVars
  <1>1. /\ Step = todo[1] /\ X = todo[1].x /\ Len(todo) \in Nat /\ res = "Busy"
        /\ todo[1].k # "reply"
    BY <1>0, PendingFacts DEF Hosted
  <1>2. CASE /\ Len(todo) = 1 /\ todo[1].k = "fpfind"
             /\ \A i \in FpComps : i < todo[1].x => fp[i] # op.x
    <2>0. Step.k = "fpfind" /\ fp' = fp /\ X \in Nat
      BY <1>0, <1>1, <1>2, EffectUnits, FpFindMoves
    <2>1. CASE X > NumFp /\ res' = "Ok"
      <3>1. \A i \in FpComps : i < X  BY <2>0, <2>1, CountsAssumption DEF FpComps
      <3>2. QED  BY <1>1, <1>2, <2>0, <2>1, <3>1
    <2>2. CASE /\ X \in FpComps /\ fp[X] = op.x /\ Same /\ Ahead(2)
               /\ todo'[1] = S("fpwrite", <<X, Free>>) /\ todo'[2] = S("reply", TRUE)
      <3>1. Len(todo') = 2  BY <1>2, <2>2 DEF Ahead
      <3>2. todo'[1].k = "fpwrite" /\ todo'[1].x[2] = Free /\ todo'[1].x[1] = X
        BY <2>2 DEF S
      <3>3. fp'[X] = op'.x  BY <1>0, <2>0, <2>2
      <3>4. Clearing'  BY <2>2, <3>1, <3>2, <3>3 DEF Clearing
      <3>5. QED  BY <1>1, <2>2, <3>4 DEF Same
    <2>3. CASE /\ X \in FpComps /\ fp[X] # op.x /\ Same /\ Ahead(1)
               /\ todo'[1] = S("fpfind", X + 1)
      <3>1. Len(todo') = 1  BY <1>2, <2>3 DEF Ahead
      <3>2. todo'[1].k = "fpfind" /\ todo'[1].x = X + 1  BY <2>3 DEF S
      <3>3. \A i \in FpComps : i < X + 1 => i < X \/ i = X  BY <2>0 DEF FpComps
      <3>4. \A i \in FpComps : i < X + 1 => fp'[i] # op'.x
        BY <1>0, <1>1, <1>2, <2>0, <2>3, <3>3
      <3>5. Clearing'  BY <3>1, <3>2, <3>4 DEF Clearing
      <3>6. QED  BY <1>1, <2>3, <3>5 DEF Same
    <2>4. QED  BY <1>0, <2>0, <2>1, <2>2, <2>3, FpFindMoves
  <1>3. CASE /\ Len(todo) = 2 /\ todo[1].k = "fpwrite" /\ todo[1].x[2] = Free
             /\ fp[todo[1].x[1]] = op.x /\ todo[2] = S("reply", TRUE)
    <2>1. Ahead(0) /\ Same  BY <1>0, <1>1, <1>3, PlainMoves DEF PlainKinds
    <2>2. Len(todo') = 1  BY <1>3, <2>1 DEF Ahead
    <2>3. 1 \in 0 + 1 .. Len(todo') /\ 1 - 0 + 1 = 2  BY <2>2
    <2>4. todo'[1].k = "reply"  BY <1>3, <2>1, <2>3 DEF Ahead, S
    <2>5. /\ X[1] \in FpComps /\ fp' = [fp EXCEPT ![X[1]] = Free]
          /\ fp \in [FpComps -> Breakable \cup {Free}]
      BY <1>0, <1>1, <1>3, EffectUnits
    <2>6. op.x # Free
      <3>1. op \in Operations  BY DEF TypeInv, TypeOK
      <3>2. op.x \in Breakable \cup Unbreakable  BY <3>1 DEF Operations
      <3>3. QED  BY <3>2, SetsAssumption
    <2>7. ASSUME NEW i \in FpComps PROVE fp'[i] # op'.x
      <3>1. CASE i = X[1]  BY <1>0, <2>5, <2>6, <3>1
      <3>2. CASE i # X[1]
        <4>1. fp'[i] = fp[i]  BY <2>5, <3>2
        <4>2. fp[X[1]] = op.x  BY <1>1, <1>3
        <4>3. QED  BY <1>0, <2>5, <2>6, <3>2, <4>1, <4>2 DEF Fpb
      <3>3. QED  BY <3>1, <3>2
    <2>8. Clearing'  BY <2>2, <2>4, <2>7 DEF Clearing
    <2>9. QED  BY <1>1, <2>1, <2>8 DEF Same
  <1>4. QED  BY <1>1, <1>2, <1>3 DEF Clearing

LEMMA SweepFacts ==
  ASSUME TypeInv, Sweeping
  PROVE  /\ ClearedUnits \in Nat /\ Len(todo) \in Nat /\ NumFp \in Nat /\ Units \in Nat
         /\ ClearedUnits + Len(todo) = Units
         /\ todo # <<>> => /\ ClearedUnits + 1 \in 1 .. Units
                           /\ todo[1] = UnitsClear[ClearedUnits + 1]
                           /\ todo[1].k \in {"fpwrite", "function"} /\ todo[1].x[2] = Free
                           /\ \A i \in FpComps : i = ClearedUnits + 1 =>
                                todo[1].k = "fpwrite" /\ todo[1].x[1] = i
                           /\ \A i \in DwtComps : NumFp + i = ClearedUnits + 1 =>
                                todo[1].k = "function" /\ todo[1].x[1] = i
  <1>1. Units \in Nat /\ NumFp \in Nat  BY CountsAssumption DEF Units
  <1>2. todo \in Seq(Steps)  BY DEF TypeInv
  <1>3. Len(todo) \in Nat /\ Len(todo) <= Units  BY <1>2 DEF Sweeping
  <1>4. ClearedUnits \in Nat /\ ClearedUnits + Len(todo) = Units  BY <1>1, <1>3 DEF ClearedUnits
  <1>5. ASSUME todo # <<>>
        PROVE  ClearedUnits + 1 \in 1 .. Units /\ todo[1] = UnitsClear[ClearedUnits + 1]
    <2>1. Len(todo) >= 1 /\ 1 \in 1 .. Len(todo)  BY <1>2, <1>5
    <2>2. ClearedUnits + 1 \in 1 .. Units  BY <1>1, <1>3, <1>4, <2>1
    <2>3. QED  BY <2>1, <2>2 DEF Sweeping
  <1>6. ASSUME todo # <<>>
        PROVE  todo[1].k \in {"fpwrite", "function"} /\ todo[1].x[2] = Free
    BY <1>5, <1>6, UnitsKinds
  <1>7. ASSUME todo # <<>>, NEW i \in FpComps, i = ClearedUnits + 1
        PROVE  todo[1].k = "fpwrite" /\ todo[1].x[1] = i
    <2>1. todo[1] = S("fpwrite", <<i, Free>>)  BY <1>5, <1>7, UnitsProgram
    <2>2. QED  BY <2>1 DEF S
  <1>8. ASSUME todo # <<>>, NEW i \in DwtComps, NumFp + i = ClearedUnits + 1
        PROVE  todo[1].k = "function" /\ todo[1].x[1] = i
    <2>1. todo[1] = S("function", <<i, Free>>)  BY <1>5, <1>8, UnitsProgram
    <2>2. QED  BY <2>1 DEF S
  <1>9. QED  BY <1>1, <1>3, <1>4, <1>5, <1>6, <1>7, <1>8

LEMMA AccessSweeping ==
  ASSUME TypeInv, TypeInv', Access, Sweeping
  PROVE  res' = "Busy" /\ Sweeping'
  <1>0. Pending /\ Effect /\ Proceed /\ op' = op  BY DEF Access, OpVars
  <1>1. /\ Step = todo[1] /\ X = todo[1].x /\ res = "Busy" /\ todo # <<>>
    BY <1>0, PendingFacts
  <1>2. /\ ClearedUnits \in Nat /\ Len(todo) \in Nat /\ Units \in Nat /\ NumFp \in Nat
        /\ Step.k \in {"fpwrite", "function"} /\ X[2] = Free
        /\ ClearedUnits + Len(todo) = Units
    BY <1>1, SweepFacts
  <1>3. Ahead(0) /\ Same  BY <1>0, <1>2, PlainMoves DEF PlainKinds
  <1>4. Len(todo') = Len(todo) - 1  BY <1>2, <1>3 DEF Ahead
  <1>5. ClearedUnits' = ClearedUnits + 1  BY <1>2, <1>4 DEF ClearedUnits, Units
  <1>6. Len(todo') <= Units  BY <1>2, <1>4 DEF Sweeping
  <1>7. ASSUME NEW j \in 1 .. Len(todo') PROVE todo'[j] = UnitsClear[ClearedUnits' + j]
    <2>1. j \in 0 + 1 .. Len(todo') /\ j - 0 + 1 = j + 1 /\ j + 1 \in 1 .. Len(todo)
      BY <1>2, <1>4
    <2>2. todo'[j] = todo[j + 1]  BY <1>3, <2>1 DEF Ahead
    <2>3. todo[j + 1] = UnitsClear[ClearedUnits + (j + 1)]  BY <2>1 DEF Sweeping
    <2>4. ClearedUnits + (j + 1) = (ClearedUnits + 1) + j  BY <1>2
    <2>5. QED  BY <1>5, <2>2, <2>3, <2>4
  <1>8. ASSUME NEW i \in FpComps, i <= ClearedUnits' PROVE fp'[i] = Free
    <2>1. i <= ClearedUnits \/ i = ClearedUnits + 1  BY <1>2, <1>5, <1>8 DEF FpComps
    <2>2. i <= ClearedUnits => fp[i] = Free  BY DEF Sweeping
    <2>3. i = ClearedUnits + 1 => Step.k = "fpwrite" /\ X[1] = i  BY <1>1, SweepFacts
    <2>4. /\ Step.k = "fpwrite" => X[1] \in FpComps /\ fp' = [fp EXCEPT ![X[1]] = Free]
          /\ Step.k # "fpwrite" => fp' = fp /\ fp \in [FpComps -> Breakable \cup {Free}]
          /\ fp \in [FpComps -> Breakable \cup {Free}]
      BY <1>0, <1>2, EffectUnits
    <2>5. QED  BY <2>1, <2>2, <2>3, <2>4
  <1>9. ASSUME NEW i \in DwtComps, NumFp + i <= ClearedUnits' PROVE dwt'[i] = Free
    <2>1. NumFp + i <= ClearedUnits \/ NumFp + i = ClearedUnits + 1
      BY <1>2, <1>5, <1>9 DEF DwtComps
    <2>2. NumFp + i <= ClearedUnits => dwt[i] = Free  BY DEF Sweeping
    <2>3. NumFp + i = ClearedUnits + 1 => Step.k = "function" /\ X[1] = i
      BY <1>1, SweepFacts
    <2>4. /\ Step.k = "function" => X[1] \in DwtComps /\ dwt' = [dwt EXCEPT ![X[1]] = Free]
          /\ Step.k # "function" => dwt' = dwt
          /\ dwt \in [DwtComps -> Watches \cup {Free}]
      BY <1>0, <1>2, EffectUnits
    <2>5. QED  BY <2>1, <2>2, <2>3, <2>4
  <1>10. Sweeping'  BY <1>6, <1>7, <1>8, <1>9 DEF Sweeping
  <1>11. QED  BY <1>1, <1>3, <1>10 DEF Same

LEMMA RequestReplying ==
  ASSUME TypeInv, NEW o \in Operations, Request(o)
  PROVE  Replying'
  <1>0. /\ op' = o /\ todo' = Prog(o) /\ res' = "Busy" /\ UNCHANGED target
        /\ fp \in [FpComps -> Breakable \cup {Free}]
    BY RequestMoves DEF TypeInv, TypeOK
  <1>1. fp' = fp /\ dwt' = dwt  BY <1>0 DEF target, units
  <1>2. CASE o.name = "break"
    <2>1. Setting'  BY <1>0, <1>2, ShortPrograms DEF Setting
    <2>2. QED  BY <1>0, <1>2, <2>1 DEF Replying, ReplyIsArmed
  <1>3. CASE o.name = "unbreak"
    <2>1. CASE o.x \in Unbreakable /\ Len(todo') = 1 /\ todo'[1] = S("reply", FALSE)
      <3>1. \A i \in FpComps : fp'[i] # op'.x  BY <1>0, <1>1, <2>1, SetsAssumption
      <3>2. todo'[1].k = "reply"  BY <2>1 DEF S
      <3>3. QED  BY <2>1, <3>1, <3>2, <1>0, <1>3 DEF Clearing, Replying, ReplyIsArmed
    <2>2. CASE Len(todo') = 1 /\ todo'[1] = S("fpfind", 1)
      <3>1. todo'[1].k = "fpfind" /\ todo'[1].x = 1  BY <2>2 DEF S
      <3>2. \A i \in FpComps : ~(i < 1)  BY CountsAssumption DEF FpComps
      <3>3. Clearing'  BY <2>2, <3>1, <3>2 DEF Clearing
      <3>4. QED  BY <3>3, <1>0, <1>3 DEF Replying, ReplyIsArmed
    <2>3. QED  BY <1>0, <1>3, <2>1, <2>2, ShortPrograms
  <1>4. CASE o.name = "clear"
    <2>1. todo' = UnitsClear  BY <1>0, <1>4, ShortPrograms
    <2>2. Len(todo') = Units /\ Units \in Nat /\ NumFp \in Nat
      BY <2>1, UnitsProgram, CountsAssumption
    <2>3. ClearedUnits' = 0  BY <2>2 DEF ClearedUnits, Units
    <2>4. \A j \in 1 .. Len(todo') : ClearedUnits' + j = j  BY <2>3
    <2>5. \A i \in FpComps : ~(i <= ClearedUnits')  BY <2>3 DEF FpComps
    <2>6. \A i \in DwtComps : ~(NumFp + i <= ClearedUnits')  BY <2>2, <2>3 DEF DwtComps
    <2>7. Len(todo') <= Units  BY <2>2
    <2>8. \A j \in 1 .. Len(todo') : todo'[j] = UnitsClear[ClearedUnits' + j]
      BY <2>1, <2>4
    <2>9. Sweeping'  BY <2>5, <2>6, <2>7, <2>8 DEF Sweeping
    <2>10. QED  BY <1>0, <1>4, <2>9 DEF Replying, ReplyIsArmed
  <1>5. CASE o.name \notin {"break", "unbreak", "clear"}
    BY <1>0, <1>5 DEF Replying, ReplyIsArmed
  <1>6. QED  BY <1>2, <1>3, <1>4, <1>5

LEMMA LocalReplying ==
  ASSUME TypeInv, Replying, Local
  PROVE  Replying'
  <1>0. /\ Pending /\ Hosted /\ UNCHANGED <<target, op>> /\ fp' = fp /\ dwt' = dwt
        /\ Step = todo[1] /\ X = todo[1].x /\ res = "Busy" /\ fp_on' = fp_on
    BY LocalMoves, PendingFacts DEF Local, target, units
  <1>1. CASE op.name = "break"
    <2>1. Setting /\ todo[1].k \in {"waited", "expired", "reply"}
      BY <1>0, <1>1 DEF Replying, Hosted
    <2>2. /\ S("fpctrl", 0).k = "fpctrl" /\ S("reply", TRUE).k = "reply" /\ S("reply", TRUE).x = TRUE
          /\ S("reply", FALSE).k = "reply" /\ S("reply", FALSE).x = FALSE
      BY DEF S
    <2>3. \/ todo[1] = S("reply", FALSE)
          \/ fp_on /\ todo[1] = S("reply", TRUE) /\ \E i \in FpComps : fp[i] = op.x
      BY <2>1, <2>2 DEF Setting
    <2>4. Step.k = "reply"  BY <1>0, <2>2, <2>3
    <2>5. res' = "Ok" /\ reply' = {X}  BY <2>4, LocalMoves
    <2>6. CASE todo[1] = S("reply", FALSE)
      <3>1. reply' # {TRUE}  BY <1>0, <2>2, <2>5, <2>6
      <3>2. QED  BY <1>0, <1>1, <2>5, <3>1 DEF Replying, ReplyIsArmed
    <2>7. CASE fp_on /\ \E i \in FpComps : fp[i] = op.x
      BY <1>0, <1>1, <2>5, <2>7 DEF Replying, ReplyIsArmed
    <2>8. QED  BY <2>3, <2>6, <2>7
  <1>2. CASE op.name = "unbreak"
    <2>1. Clearing /\ todo[1].k \in {"waited", "expired", "reply"}
      BY <1>0, <1>2 DEF Replying, Hosted
    <2>2. Step.k = "reply" /\ \A i \in FpComps : fp[i] # op.x  BY <1>0, <2>1 DEF Clearing
    <2>3. res' = "Ok"  BY <2>2, LocalMoves
    <2>4. QED  BY <1>0, <1>2, <2>2, <2>3 DEF Replying, ReplyIsArmed
  <1>3. CASE op.name = "clear"
    <2>1. Sweeping  BY <1>0, <1>3 DEF Replying
    <2>2. todo[1].k \in {"fpwrite", "function"}  BY <1>0, <2>1, SweepFacts DEF Pending
    <2>3. QED  BY <1>0, <2>2 DEF Hosted
  <1>4. CASE op.name \notin {"break", "unbreak", "clear"}
    BY <1>0, <1>4 DEF Replying, ReplyIsArmed
  <1>5. QED  BY <1>1, <1>2, <1>3, <1>4

LEMMA StepReplying == TypeInv /\ TypeInv' /\ Fpb /\ Replying /\ [Next]_vars => Replying'
  <1> SUFFICES ASSUME TypeInv, TypeInv', Fpb, Replying, [Next]_vars PROVE Replying'  OBVIOUS
  <1> USE DEF Replying, ReplyIsArmed
  <1>1. CASE UNCHANGED <<op, todo, res, reply, units>>
    BY <1>1 DEF units, Setting, Clearing, Sweeping, ClearedUnits
  <1>2. CASE \E o \in Operations : Request(o)
    BY <1>2, RequestReplying
  <1>3. CASE Access
    <2>0. op' = op /\ res = "Busy"  BY <1>3 DEF Access, OpVars, Pending
    <2>1. CASE op.name = "break"  BY <1>3, <2>0, <2>1, AccessSetting
    <2>2. CASE op.name = "unbreak"  BY <1>3, <2>0, <2>2, AccessClearing
    <2>3. CASE op.name = "clear"  BY <1>3, <2>0, <2>3, AccessSweeping
    <2>4. CASE op.name \notin {"break", "unbreak", "clear"}  BY <2>0, <2>4
    <2>5. QED  BY <2>1, <2>2, <2>3, <2>4
  <1>4. CASE AccessFails
    <2>0. op' = op /\ Pending /\ Step = todo[1] /\ res = "Busy" /\ todo # <<>>
      BY <1>4, FailMoves, PendingFacts
    <2>1. CASE Step.k # "callwait"
      <3>1. res' = "Err"  BY <1>4, <2>1, FailMoves
      <3>2. QED  BY <3>1
    <2>2. CASE Step.k = "callwait"
      <3>1. op.name \notin {"break", "unbreak", "clear"}
        <4>1. ASSUME op.name = "break" PROVE FALSE
          <5>1. Setting  BY <2>0, <4>1
          <5>2. /\ S("fpctrl", 0).k = "fpctrl" /\ S("reply", TRUE).k = "reply"
                /\ S("reply", FALSE).k = "reply"
            BY DEF S
          <5>3. QED  BY <2>0, <2>2, <5>1, <5>2 DEF Setting
        <4>2. ASSUME op.name = "unbreak" PROVE FALSE
          <5>1. Clearing  BY <2>0, <4>2
          <5>2. QED  BY <2>0, <2>2, <5>1 DEF Clearing
        <4>3. ASSUME op.name = "clear" PROVE FALSE
          <5>1. Sweeping  BY <2>0, <4>3
          <5>2. QED  BY <2>0, <2>2, <5>1, SweepFacts
        <4>4. QED  BY <4>1, <4>2, <4>3
      <3>2. QED  BY <2>0, <3>1
    <2>3. QED  BY <2>1, <2>2
  <1>5. CASE Local  BY <1>5, LocalReplying
  <1>6. CASE Finish
    <2>0. res = "Busy" /\ todo = <<>> /\ Len(todo) = 0 /\ res' = "Ok" /\ reply' = {}
          /\ UNCHANGED <<target, op>>
      BY <1>6 DEF Finish, Return
    <2>1. fp' = fp /\ dwt' = dwt  BY <2>0 DEF target, units
    <2>2. op.name # "unbreak"  BY <2>0 DEF Clearing
    <2>3. CASE op.name = "clear"
      <3>1. Sweeping  BY <2>0, <2>3
      <3>2. ClearedUnits = Units /\ Units \in Nat  BY <2>0, <3>1, SweepFacts
      <3>3. \A i \in FpComps : i \in 1 .. Units  BY UnitsProgram
      <3>4. \A i \in DwtComps : NumFp + i \in 1 .. Units  BY UnitsProgram
      <3>5. \A i \in FpComps : i <= ClearedUnits  BY <3>2, <3>3
      <3>6. \A i \in DwtComps : NumFp + i <= ClearedUnits  BY <3>2, <3>4
      <3>7. \A i \in FpComps : fp[i] = Free  BY <3>1, <3>5 DEF Sweeping
      <3>8. \A i \in DwtComps : dwt[i] = Free  BY <3>1, <3>6 DEF Sweeping
      <3>9. QED  BY <2>0, <2>1, <2>3, <3>7, <3>8
    <2>4. CASE op.name # "clear"
      BY <2>0, <2>2, <2>4
    <2>5. QED  BY <2>3, <2>4
  <1>7. CASE Core
    <2>1. UNCHANGED <<op, todo, res, reply, units>>  BY <1>7, CoreSteps
    <2>2. QED  BY <1>1, <2>1
  <1>8. CASE UNCHANGED vars
    BY <1>1, <1>8 DEF vars, target
  <1>9. QED  BY <1>2, <1>3, <1>4, <1>5, <1>6, <1>7, <1>8 DEF Next

(* For any comparators and addresses, and wherever an access of an earlier *)
(* operation failed: a breakpoint reported set is armed, one reported      *)
(* cleared is in no comparator, and nothing is armed after a clear_all.    *)
THEOREM RepliesTrue == Spec => []ReplyIsArmed
  <1>1. Init => Replying  BY DEF Init, Replying, ReplyIsArmed
  <1>2. Replying => ReplyIsArmed  BY DEF Replying
  <1>3. QED  BY <1>1, <1>2, StepReplying, TypeAlways, FpbAlways, PTL DEF Spec
-----------------------------------------------------------------------------
(* The bootrom call.                                                       *)
LEMMA CallHead ==
  ASSUME TypeInv, Calling
  PROVE  /\ N \in Nat /\ Made \in Nat /\ Len(todo) \in Nat /\ Total \in Nat
         /\ Made + Len(todo) = Total /\ Total = 3 * N + 7
         /\ \A j \in 1 .. Len(todo) : SameStep(todo[j], CallFunction[Made + j])
  <1>1. N \in Nat  BY CallProgram
  <1>2. Len(todo) \in Nat  BY DEF TypeInv
  <1>3. Total = 3 * N + 7 /\ Total \in Nat  BY <1>1 DEF Total
  <1>4. Made \in Nat /\ Made + Len(todo) = Total  BY <1>2, <1>3 DEF Calling, Made
  <1>5. QED  BY <1>1, <1>2, <1>3, <1>4 DEF Calling

(* The steps of a call that wait.                                          *)
LEMMA CallWaits ==
  ASSUME NEW p \in 1 .. Total, CallFunction[p].k \in {"callwait", "waited"}
  PROVE  \/ p = 2 * N + 4 /\ CallFunction[p].k = "callwait"
         \/ p = 2 * N + 7 /\ CallFunction[p].k = "waited"
  <1>1. N \in Nat /\ Total = 3 * N + 7 /\ p \in Nat /\ p >= 1 /\ p <= 3 * N + 7
    BY CallProgram DEF Total
  <1> DEFINE c == CallFunction[p]
  <1>2. CASE p \in 1 .. N
    <2>1. c = S("save", Clobbered[p])  BY <1>2, CallProgram
    <2>2. QED  BY <2>1 DEF S
  <1>3. CASE p = N + 1
    <2>1. c = S("tramp", 0)  BY <1>3, CallProgram
    <2>2. QED  BY <2>1 DEF S
  <1>4. CASE p > N + 1 /\ p <= 2 * N + 1
    <2>1. p - (N + 1) \in 1 .. N /\ p = N + 1 + (p - (N + 1))  BY <1>1, <1>4
    <2>2. c = S("arg", Clobbered[p - (N + 1)])  BY <2>1, CallProgram
    <2>3. QED  BY <2>2 DEF S
  <1>5. CASE p = 2 * N + 2 \/ p = 2 * N + 3 \/ p = 2 * N + 5 \/ p = 2 * N + 6
    <2>1. /\ CallFunction[2 * N + 2] = Dhcsr(TRUE, TRUE, FALSE)
          /\ CallFunction[2 * N + 3] = Dhcsr(FALSE, TRUE, FALSE)
          /\ CallFunction[2 * N + 5] = Dhcsr(TRUE, TRUE, FALSE)
          /\ CallFunction[2 * N + 6] = Dhcsr(TRUE, FALSE, FALSE)
      BY CallProgram
    <2>2. /\ CallFunction[2 * N + 2].k = "dhcsr" /\ CallFunction[2 * N + 3].k = "dhcsr"
          /\ CallFunction[2 * N + 5].k = "dhcsr" /\ CallFunction[2 * N + 6].k = "dhcsr"
      BY <2>1 DEF S, Dhcsr
    <2>3. c.k = "dhcsr"  BY <1>5, <2>2
    <2>4. QED  BY <2>3
  <1>6. CASE p = 2 * N + 4
    <2>1. c = S("callwait", Polls)  BY <1>6, CallProgram
    <2>2. QED  BY <1>6, <2>1 DEF S
  <1>7. CASE p = 2 * N + 7
    <2>1. c = S("waited", 0)  BY <1>7, CallProgram
    <2>2. QED  BY <1>7, <2>1 DEF S
  <1>8. CASE p > 2 * N + 7
    <2>1. p - (2 * N + 7) \in 1 .. N /\ p = 2 * N + 7 + (p - (2 * N + 7))  BY <1>1, <1>8
    <2>2. c = S("restore", Clobbered[p - (2 * N + 7)])  BY <2>1, CallProgram
    <2>3. QED  BY <2>2 DEF S
  <1>9. QED  BY <1>1, <1>2, <1>3, <1>4, <1>5, <1>6, <1>7, <1>8

(* What is made next, by how much has been made.                           *)
LEMMA CallNext ==
  ASSUME TypeInv, Calling, Pending
  PROVE  \/ Made + 1 \in 1 .. N /\ Step.k = "save" /\ X = Clobbered[Made + 1]
         \/ Made + 1 = N + 1 /\ Step.k = "tramp"
         \/ Made + 1 > N + 1 /\ Made + 1 <= 2 * N + 1 /\ Step.k = "arg"
         \/ Made + 1 = 2 * N + 2 /\ Step.k = "dhcsr" /\ X[1] = TRUE
         \/ Made + 1 = 2 * N + 3 /\ Step.k = "dhcsr"
         \/ Made + 1 = 2 * N + 4 /\ Step.k = "callwait"
         \/ Made + 1 = 2 * N + 5 /\ Step.k = "dhcsr" /\ X[1] = TRUE
         \/ Made + 1 = 2 * N + 6 /\ Step.k = "dhcsr" /\ X[1] = TRUE /\ X[2] = FALSE
         \/ Made + 1 = 2 * N + 7 /\ Step.k \in {"waited", "expired"}
         \/ Made + 1 > 2 * N + 7 /\ Step.k = "restore" /\ X \in Regs
            /\ X = Clobbered[Made - 2 * N - 6]
  <1>1. /\ N \in Nat /\ Made \in Nat /\ Total = 3 * N + 7 /\ Made + Len(todo) = Total
        /\ \A j \in 1 .. Len(todo) : SameStep(todo[j], CallFunction[Made + j])
    BY CallHead
  <1>2. Step = todo[1] /\ X = todo[1].x /\ Len(todo) \in Nat /\ Len(todo) >= 1 /\ Step \in Steps
    BY PendingFacts
  <1> DEFINE p == Made + 1
             c == CallFunction[p]
  <1>3. SameStep(Step, c)  BY <1>1, <1>2
  <1>4. p \in 1 .. Total /\ p \in Nat  BY <1>1, <1>2
  <1>5. CASE c.k \notin {"callwait", "waited"}
    <2>1. Step = c /\ X = c.x  BY <1>2, <1>3, <1>5 DEF SameStep
    <2>2. CASE p \in 1 .. N
      <3>1. c = S("save", Clobbered[p])  BY <2>2, CallProgram
      <3>2. QED  BY <2>1, <2>2, <3>1 DEF S
    <2>3. CASE p = N + 1
      <3>1. c = S("tramp", 0)  BY <2>3, CallProgram
      <3>2. QED  BY <2>1, <2>3, <3>1 DEF S
    <2>4. CASE p > N + 1 /\ p <= 2 * N + 1
      <3>1. PICK i \in 1 .. N : p = N + 1 + i
        <4>1. p - (N + 1) \in 1 .. N /\ p = N + 1 + (p - (N + 1))  BY <1>1, <1>4, <2>4
        <4>2. QED  BY <4>1
      <3>2. c = S("arg", Clobbered[i])  BY <3>1, CallProgram
      <3>3. Step.k = "arg"  BY <2>1, <3>2 DEF S
      <3>4. QED  BY <2>4, <3>3
    <2>5. CASE p = 2 * N + 2
      <3>1. c = Dhcsr(TRUE, TRUE, FALSE)  BY <2>5, CallProgram
      <3>2. QED  BY <2>1, <2>5, <3>1 DEF S, Dhcsr
    <2>6. CASE p = 2 * N + 3
      <3>1. c = Dhcsr(FALSE, TRUE, FALSE)  BY <2>6, CallProgram
      <3>2. QED  BY <2>1, <2>6, <3>1 DEF S, Dhcsr
    <2>7. CASE p = 2 * N + 4
      <3>1. c = S("callwait", Polls)  BY <2>7, CallProgram
      <3>2. QED  BY <1>5, <3>1 DEF S
    <2>8. CASE p = 2 * N + 5
      <3>1. c = Dhcsr(TRUE, TRUE, FALSE)  BY <2>8, CallProgram
      <3>2. QED  BY <2>1, <2>8, <3>1 DEF S, Dhcsr
    <2>9. CASE p = 2 * N + 6
      <3>1. c = Dhcsr(TRUE, FALSE, FALSE)  BY <2>9, CallProgram
      <3>2. QED  BY <2>1, <2>9, <3>1 DEF S, Dhcsr
    <2>10. CASE p = 2 * N + 7
      <3>1. c = S("waited", 0)  BY <2>10, CallProgram
      <3>2. QED  BY <1>5, <3>1 DEF S
    <2>11. CASE p > 2 * N + 7
      <3>1. PICK i \in 1 .. N : p = 2 * N + 7 + i /\ i = Made - 2 * N - 6
        <4>1. p - (2 * N + 7) \in 1 .. N /\ p = 2 * N + 7 + (p - (2 * N + 7))
              /\ p - (2 * N + 7) = Made - 2 * N - 6
          BY <1>1, <1>4, <2>11
        <4>2. QED  BY <4>1
      <3>2. c = S("restore", Clobbered[i])  BY <3>1, CallProgram
      <3>3. Step.k = "restore" /\ X = Clobbered[i]  BY <2>1, <3>2 DEF S
      <3>4. Clobbered[i] \in Regs  BY EachStep
      <3>5. QED  BY <2>11, <3>1, <3>3, <3>4
    <2>12. \/ p \in 1 .. N \/ p = N + 1 \/ (p > N + 1 /\ p <= 2 * N + 1)
           \/ p = 2 * N + 2 \/ p = 2 * N + 3 \/ p = 2 * N + 4 \/ p = 2 * N + 5
           \/ p = 2 * N + 6 \/ p = 2 * N + 7 \/ p > 2 * N + 7
      BY <1>1, <1>4
    <2>13. QED
      BY <2>2, <2>3, <2>4, <2>5, <2>6, <2>7, <2>8, <2>9, <2>10, <2>11, <2>12
  <1>6. CASE c.k = "callwait" \/ c.k = "waited"
    <2>1. (p = 2 * N + 4 /\ c.k = "callwait") \/ (p = 2 * N + 7 /\ c.k = "waited")
      BY <1>4, <1>6, CallWaits
    <2>2. QED  BY <1>3, <2>1 DEF SameStep
  <1>7. QED  BY <1>5, <1>6

(* One step of the call is over.                                           *)
LEMMA CallShift ==
  ASSUME TypeInv, Calling, Pending, Ahead(0)
  PROVE  /\ Made' = Made + 1 /\ Len(todo') <= Total
         /\ \A j \in 1 .. Len(todo') : SameStep(todo'[j], CallFunction[Made' + j])
         /\ Step.k # "expired" /\ Expired => Expired'
  <1>1. /\ N \in Nat /\ Made \in Nat /\ Total \in Nat /\ Made + Len(todo) = Total
        /\ Len(todo) \in Nat
        /\ \A j \in 1 .. Len(todo) : SameStep(todo[j], CallFunction[Made + j])
    BY CallHead
  <1>2. Step = todo[1]  BY PendingFacts
  <1>3. Len(todo') = Len(todo) - 1  BY <1>1 DEF Ahead
  <1>4. Made' = Made + 1  BY <1>1, <1>3 DEF Made, Total, N
  <1>5. ASSUME NEW j \in 1 .. Len(todo')
        PROVE  todo'[j] = todo[j + 1] /\ j + 1 \in 1 .. Len(todo) /\ Made + (j + 1) = Made' + j
    <2>1. j \in 0 + 1 .. Len(todo') /\ j - 0 + 1 = j + 1 /\ j + 1 \in 1 .. Len(todo)
      BY <1>1, <1>3
    <2>2. todo'[j] = todo[j + 1]  BY <2>1 DEF Ahead
    <2>3. Made + (j + 1) = Made' + j  BY <1>1, <1>4
    <2>4. QED  BY <2>1, <2>2, <2>3
  <1>6. \A j \in 1 .. Len(todo') : SameStep(todo'[j], CallFunction[Made' + j])
    BY <1>1, <1>5
  <1>7. ASSUME Step.k # "expired", Expired PROVE Expired'
    <2>1. PICK j \in 1 .. Len(todo) : todo[j].k = "expired"  BY <1>7 DEF Expired
    <2>2. j # 1  BY <1>2, <1>7, <2>1
    <2>3. j - 1 \in 1 .. Len(todo') /\ (j - 1) + 1 = j  BY <1>1, <1>3, <2>1, <2>2
    <2>4. todo'[j - 1] = todo[j]  BY <1>5, <2>3
    <2>5. QED  BY <2>1, <2>3, <2>4 DEF Expired
  <1>8. Len(todo') <= Total  BY <1>1, <1>3
  <1>9. QED  BY <1>4, <1>6, <1>7, <1>8

(* The wait has run out: the error is kept for when the core is halted.    *)
LEMMA CallExpires ==
  ASSUME TypeInv, Calling, Pending, Step.k = "callwait", Expire
  PROVE  /\ Made' = Made + 1 /\ Len(todo') <= Total
         /\ \A j \in 1 .. Len(todo') : SameStep(todo'[j], CallFunction[Made' + j])
         /\ Expired'
  <1>1. /\ N \in Nat /\ Made \in Nat /\ Total \in Nat /\ Made + Len(todo) = Total
        /\ Len(todo) \in Nat /\ Total = 3 * N + 7
        /\ \A j \in 1 .. Len(todo) : SameStep(todo[j], CallFunction[Made + j])
    BY CallHead
  <1>2. /\ Len(todo') = Len(todo) - 1
        /\ \A j \in 1 .. Len(todo') :
             todo'[j] = IF todo[j + 1].k = "waited" THEN S("expired", 0) ELSE todo[j + 1]
    BY PendingFacts, GoExpired
  <1>3. Made' = Made + 1  BY <1>1, <1>2 DEF Made, Total, N
  <1>4. S("expired", 0).k = "expired"  BY DEF S
  <1>5. ASSUME NEW j \in 1 .. Len(todo') PROVE SameStep(todo'[j], CallFunction[Made' + j])
    <2>1. j + 1 \in 1 .. Len(todo) /\ Made + (j + 1) = Made' + j  BY <1>1, <1>2, <1>3
    <2>2. SameStep(todo[j + 1], CallFunction[Made' + j])  BY <1>1, <2>1
    <2>3. CASE todo[j + 1].k = "waited"
      <3>1. CallFunction[Made' + j].k = "waited"  BY <2>2, <2>3 DEF SameStep
      <3>2. QED  BY <1>2, <1>4, <2>3, <3>1 DEF SameStep
    <2>4. CASE todo[j + 1].k # "waited"
      BY <1>2, <2>2, <2>4
    <2>5. QED  BY <2>3, <2>4
  <1>6. Expired'
    <2>1. Made + 1 = 2 * N + 4  BY CallNext
    <2>2. 3 \in 1 .. Len(todo') /\ 4 \in 1 .. Len(todo) /\ Made + 4 = 2 * N + 7
      BY SMTT(30), <1>1, <1>2, <2>1
    <2>3. CallFunction[2 * N + 7].k = "waited"
      <3>1. CallFunction[2 * N + 7] = S("waited", 0)  BY CallProgram
      <3>2. QED  BY <3>1 DEF S
    <2>4. SameStep(todo[4], CallFunction[2 * N + 7])  BY <1>1, <2>2
    <2>5. todo[4].k \in {"waited", "expired"}  BY <2>3, <2>4 DEF SameStep
    <2>6. todo'[3] = IF todo[4].k = "waited" THEN S("expired", 0) ELSE todo[4]
      BY <1>2, <2>2
    <2>7. todo'[3].k = "expired"  BY <1>4, <2>5, <2>6
    <2>8. QED  BY <2>2, <2>7 DEF Expired
  <1>7. QED  BY <1>1, <1>2, <1>3, <1>5, <1>6

(* What an access of a call does to the core.                              *)
LEMMA EffectCall ==
  ASSUME TypeInv, Pending, Effect
  PROVE  /\ Step.k # "dhcsr" => halted' = halted /\ c_maskints' = c_maskints
         /\ Step.k = "dhcsr" /\ X[1] = TRUE /\ halted => halted'
         /\ Step.k = "dhcsr" /\ X[2] = FALSE => ~c_maskints'
         /\ Step.k = "restore" => regs' = [regs EXCEPT ![X] = saved[X]]
         /\ Step.k \notin {"arg", "restore"} => regs' = regs
         /\ regs \in [Regs -> Levels] /\ saved \in [Regs -> Levels]
  <1>1. Step.k # "dhcsr" => halted' = halted /\ c_maskints' = c_maskints
    BY DEF Effect, run
  <1>2. ASSUME Step.k = "dhcsr", X[1] = TRUE, halted PROVE halted'
    <2>1. halted' = (halted /\ X[1])  BY <1>2 DEF Effect
    <2>2. QED  BY <1>2, <2>1, Zenon
  <1>3. ASSUME Step.k = "dhcsr", X[2] = FALSE PROVE ~c_maskints'
    <2>1. c_maskints' = X[2]  BY <1>3 DEF Effect
    <2>2. QED  BY <1>3, <2>1, Zenon
  <1>4. /\ Step.k = "restore" => regs' = [regs EXCEPT ![X] = saved[X]]
        /\ Step.k \notin {"arg", "restore"} => regs' = regs
    BY DEF Effect
  <1>5. regs \in [Regs -> Levels] /\ saved \in [Regs -> Levels]
    BY DEF TypeInv, TypeOK, Levels
  <1>6. QED  BY <1>1, <1>2, <1>3, <1>4, <1>5

(* The registers are saved before any is used and restored behind the      *)
(* wait, while the core stands still.                                      *)
LEMMA AccessCalling ==
  ASSUME TypeInv, TypeInv', op.name = "call", Calling, Access
  PROVE  res' = "Busy" /\ Calling'
  <1>0. Pending /\ ~Hosted /\ Effect /\ Proceed /\ UNCHANGED <<op, regs0>> /\ res = "Busy"
    BY DEF Access, OpVars, Pending
  <1>1. /\ N \in Nat /\ Made \in Nat /\ Total = 3 * N + 7 /\ Made + Len(todo) = Total
        /\ Len(todo) \in Nat
    BY CallHead
  <1>2. /\ Made <= 2 * N + 2 \/ (Made >= 2 * N + 4 /\ ~Expired) => halted
        /\ Made >= 2 * N + 6 => ~c_maskints
        /\ Made <= N + 1 => regs = regs0
        /\ \A i \in 1 .. N : i <= Made => saved[Clobbered[i]] = regs0[Clobbered[i]]
        /\ \A i \in 1 .. N : i + 2 * N + 7 <= Made => regs[Clobbered[i]] = regs0[Clobbered[i]]
    BY DEF Calling
  <1>3. \A i \in 1 .. N : Clobbered[i] \in Regs  BY EachStep
  <1>4. CASE Step.k \in {"tramp", "arg", "dhcsr", "restore"}
    <2>1. Ahead(0) /\ Same /\ res' = "Busy"  BY <1>0, <1>4, PlainMoves DEF PlainKinds, Same
    <2>2. /\ Made' = Made + 1 /\ Len(todo') <= Total
          /\ \A j \in 1 .. Len(todo') : SameStep(todo'[j], CallFunction[Made' + j])
          /\ Expired => Expired'
      BY <1>0, <1>4, <2>1, CallShift
    <2>3. saved' = saved /\ regs0' = regs0  BY <1>0, <2>1 DEF Same
    <2>35. Made' \in Nat  BY <1>1, <2>2
    <2>4. Made >= N
      <3>1. \/ Made + 1 = N + 1 \/ Made + 1 > N + 1 \/ Made + 1 = 2 * N + 2
            \/ Made + 1 = 2 * N + 3 \/ Made + 1 = 2 * N + 5 \/ Made + 1 = 2 * N + 6
            \/ Made + 1 > 2 * N + 7
        BY <1>0, <1>4, CallNext
      <3>2. QED  BY <1>1, <3>1
    <2>5. \A i \in 1 .. N : i <= Made' => saved'[Clobbered[i]] = regs0'[Clobbered[i]]
      BY <1>1, <1>2, <2>3, <2>4
    <2>6. CASE Step.k = "tramp"
      <3>1. Made = N  BY <1>0, <1>1, <2>6, CallNext
      <3>2. regs' = regs /\ halted' = halted  BY <1>0, <2>6, EffectCall
      <3>3. halted /\ regs = regs0  BY <1>1, <1>2, <3>1
      <3>4. Made' = N + 1  BY <2>2, <3>1
      <3>5. /\ Made' <= 2 * N + 2 \/ (Made' >= 2 * N + 4 /\ ~Expired') => halted'
        BY <3>2, <3>3
      <3>6. ~(Made' >= 2 * N + 6)  BY <1>1, <2>35, <3>4
      <3>7. Made' <= N + 1 => regs' = regs0'  BY <2>3, <3>2, <3>3
      <3>8. \A i \in 1 .. N : ~(i + 2 * N + 7 <= Made')  BY <1>1, <2>35, <3>4
      <3>9. QED  BY <2>1, <2>2, <2>5, <3>5, <3>6, <3>7, <3>8 DEF Calling
    <2>7. CASE Step.k = "arg"
      <3>1. Made + 1 > N + 1 /\ Made + 1 <= 2 * N + 1  BY <1>0, <1>1, <2>7, CallNext
      <3>2. halted' = halted  BY <1>0, <2>7, EffectCall
      <3>3. halted  BY <1>1, <1>2, <3>1
      <3>4. Made' > N + 1 /\ Made' <= 2 * N + 1  BY <2>2, <3>1
      <3>5. /\ Made' <= 2 * N + 2 \/ (Made' >= 2 * N + 4 /\ ~Expired') => halted'
        BY <3>2, <3>3
      <3>6. ~(Made' >= 2 * N + 6)  BY <1>1, <2>35, <3>4
      <3>7. ~(Made' <= N + 1)  BY <1>1, <2>35, <3>4
      <3>8. \A i \in 1 .. N : ~(i + 2 * N + 7 <= Made')  BY <1>1, <2>35, <3>4
      <3>9. QED  BY <2>1, <2>2, <2>5, <3>5, <3>6, <3>7, <3>8 DEF Calling
    <2>8. CASE Step.k = "dhcsr"
      <3>1. \/ Made + 1 = 2 * N + 2 /\ X[1] = TRUE
            \/ Made + 1 = 2 * N + 3
            \/ Made + 1 = 2 * N + 5 /\ X[1] = TRUE
            \/ Made + 1 = 2 * N + 6 /\ X[1] = TRUE /\ X[2] = FALSE
        BY <1>0, <1>1, <2>8, CallNext
      <3>2. Made + 1 # 2 * N + 3 => X[1] = TRUE  BY <1>1, <3>1
      <3>3. Made' <= 2 * N + 2 \/ (Made' >= 2 * N + 4 /\ ~Expired') => halted'
        <4>1. SUFFICES ASSUME Made' <= 2 * N + 2 \/ (Made' >= 2 * N + 4 /\ ~Expired')
                       PROVE  halted'
          OBVIOUS
        <4>2. Made + 1 # 2 * N + 3  BY <1>1, <2>2, <4>1
        <4>3. Made <= 2 * N + 2 \/ (Made >= 2 * N + 4 /\ ~Expired)
          BY <1>1, <2>2, <3>1, <4>1
        <4>4. QED  BY <1>0, <1>2, <2>8, <3>2, <4>2, <4>3, EffectCall
      <3>4. Made' >= 2 * N + 6 => ~c_maskints'
        <4>1. SUFFICES ASSUME Made' >= 2 * N + 6 PROVE ~c_maskints'  OBVIOUS
        <4>2. X[2] = FALSE  BY <1>1, <2>2, <3>1, <4>1
        <4>3. QED  BY <1>0, <2>8, <4>2, EffectCall
      <3>5. Made' > N + 1 /\ Made' <= 2 * N + 6  BY <1>1, <2>2, <3>1
      <3>6. ~(Made' <= N + 1)  BY <1>1, <2>35, <3>5
      <3>7. \A i \in 1 .. N : ~(i + 2 * N + 7 <= Made')  BY <1>1, <2>35, <3>5
      <3>8. QED  BY <2>1, <2>2, <2>5, <3>3, <3>4, <3>6, <3>7 DEF Calling
    <2>9. CASE Step.k = "restore"
      <3>1. Made + 1 > 2 * N + 7 /\ X \in Regs /\ X = Clobbered[Made - 2 * N - 6]
        BY <1>0, <1>1, <2>9, CallNext
      <3>2. /\ halted' = halted /\ c_maskints' = c_maskints
            /\ regs' = [regs EXCEPT ![X] = saved[X]]
            /\ regs \in [Regs -> Levels] /\ saved \in [Regs -> Levels]
        BY <1>0, <2>9, EffectCall
      <3>3. Made' <= 2 * N + 2 \/ (Made' >= 2 * N + 4 /\ ~Expired') => halted'
        BY <1>1, <1>2, <2>2, <3>1, <3>2
      <3>4. Made' >= 2 * N + 6 => ~c_maskints'
        <4>1. Made >= 2 * N + 6  BY <1>1, <3>1
        <4>2. QED  BY <1>2, <3>2, <4>1
      <3>5. Made' <= N + 1 => regs' = regs0'  BY <1>1, <2>2, <3>1
      <3>6. \A i \in 1 .. N : saved[Clobbered[i]] = regs0[Clobbered[i]]
        BY <1>1, <1>2, <3>1
      <3>7. ASSUME NEW i \in 1 .. N, i + 2 * N + 7 <= Made'
            PROVE  regs'[Clobbered[i]] = regs0'[Clobbered[i]]
        <4>1. i + 2 * N + 7 <= Made \/ i = Made - 2 * N - 6  BY <1>1, <2>2, <3>7
        <4>2. CASE Clobbered[i] = X
          BY <1>3, <2>3, <3>1, <3>2, <3>6, <4>2
        <4>3. CASE Clobbered[i] # X
          <5>1. i + 2 * N + 7 <= Made  BY <3>1, <4>1, <4>3
          <5>2. regs[Clobbered[i]] = regs0[Clobbered[i]]  BY <1>2, <5>1
          <5>3. QED  BY <1>3, <2>3, <3>2, <4>3, <5>2
        <4>4. QED  BY <4>2, <4>3
      <3>8. QED  BY <2>1, <2>2, <2>5, <3>3, <3>4, <3>5, <3>7 DEF Calling
    <2>10. QED  BY <1>4, <2>6, <2>7, <2>8, <2>9
  <1>5. CASE Step.k = "save"
    <2>1. /\ Ahead(0) /\ UNCHANGED <<free, res, reply>>
          /\ saved' = [saved EXCEPT ![X] = regs[X]] /\ X \in Regs
      BY <1>0, <1>5, SaveMoves
    <2>2. /\ Made' = Made + 1 /\ Len(todo') <= Total
          /\ \A j \in 1 .. Len(todo') : SameStep(todo'[j], CallFunction[Made' + j])
      BY <1>0, <2>1, CallShift
    <2>3. Made + 1 \in 1 .. N /\ X = Clobbered[Made + 1]  BY <1>0, <1>1, <1>5, CallNext
    <2>4. /\ halted' = halted /\ regs' = regs
          /\ regs \in [Regs -> Levels] /\ saved \in [Regs -> Levels]
      BY <1>0, <1>5, EffectCall
    <2>5. halted /\ regs = regs0  BY <1>1, <1>2, <2>3
    <2>6. Made' <= 2 * N + 2 \/ (Made' >= 2 * N + 4 /\ ~Expired') => halted'  BY <2>4, <2>5
    <2>7. Made' <= N /\ Made' \in Nat  BY <1>1, <2>2, <2>3
    <2>8. ~(Made' >= 2 * N + 6)  BY <1>1, <2>7
    <2>9. Made' <= N + 1 => regs' = regs0'  BY <1>0, <2>4, <2>5
    <2>10. \A i \in 1 .. N : ~(i + 2 * N + 7 <= Made')  BY <1>1, <2>7
    <2>11. ASSUME NEW i \in 1 .. N, i <= Made'
           PROVE  saved'[Clobbered[i]] = regs0'[Clobbered[i]]
      <3>1. i <= Made \/ i = Made + 1  BY <1>1, <2>2, <2>11
      <3>2. CASE Clobbered[i] = X  BY <1>0, <2>1, <2>4, <2>5, <3>2
      <3>3. CASE Clobbered[i] # X
        <4>1. i <= Made  BY <2>3, <3>1, <3>3
        <4>2. saved[Clobbered[i]] = regs0[Clobbered[i]]  BY <1>2, <4>1
        <4>3. QED  BY <1>0, <1>3, <2>1, <2>4, <3>3, <4>2
      <3>4. QED  BY <3>2, <3>3
    <2>12. Calling'  BY <2>2, <2>6, <2>8, <2>9, <2>10, <2>11 DEF Calling
    <2>13. QED  BY <1>0, <2>1, <2>12
  <1>6. CASE Step.k = "callwait"
    <2>1. Made + 1 = 2 * N + 4  BY <1>0, <1>1, <1>6, CallNext
    <2>2. Same /\ res' = "Busy" /\ saved' = saved
      BY <1>0, <1>6, CallWaitMoves DEF Same
    <2>3. halted' = halted  BY <1>0, <1>6, EffectCall
    <2>4. \A i \in 1 .. N : saved'[Clobbered[i]] = regs0'[Clobbered[i]]
      BY <1>0, <1>1, <1>2, <2>1, <2>2
    <2>5. CASE Made' \in {2 * N + 3, 2 * N + 4}
      <3>1. ~(Made' >= 2 * N + 6) /\ ~(Made' <= N + 1) /\ ~(Made' <= 2 * N + 2)
        BY <1>1, <2>5
      <3>2. \A i \in 1 .. N : ~(i + 2 * N + 7 <= Made')  BY <1>1, <2>5
      <3>3. ASSUME Len(todo') <= Total, Made' = 2 * N + 4 /\ ~Expired' => halted',
                   \A j \in 1 .. Len(todo') : SameStep(todo'[j], CallFunction[Made' + j])
            PROVE  Calling'
        <4>1. Made' >= 2 * N + 4 /\ ~Expired' => halted'  BY <1>1, <2>5, <3>3
        <4>2. QED  BY <2>4, <3>1, <3>2, <3>3, <4>1 DEF Calling
      <3>4. CASE halted /\ Ahead(0)
        BY <1>0, <2>2, <2>3, <3>3, <3>4, CallShift
      <3>5. CASE Expire
        BY <1>0, <1>6, <2>2, <3>3, <3>5, CallExpires
      <3>6. CASE Ahead(1) /\ todo'[1].k = "callwait"
        <4>1. Len(todo') = Len(todo)  BY <1>1, <3>6 DEF Ahead
        <4>2. Made' = Made  BY <4>1 DEF Made, Total, N
        <4>3. ASSUME NEW j \in 1 .. Len(todo')
              PROVE  SameStep(todo'[j], CallFunction[Made' + j])
          <5>1. SameStep(todo[j], CallFunction[Made + j])  BY <4>1, CallHead
          <5>2. CASE j = 1
            <6>1. Made' + j = 2 * N + 4  BY <1>1, <2>1, <4>2, <5>2
            <6>2. CallFunction[2 * N + 4] = S("callwait", Polls)  BY CallProgram
            <6>3. CallFunction[2 * N + 4].k = "callwait"  BY <6>2 DEF S
            <6>4. QED  BY <3>6, <5>2, <6>1, <6>3 DEF SameStep
          <5>3. CASE j # 1
            <6>1. j \in 1 + 1 .. Len(todo') /\ j - 1 + 1 = j  BY <1>1, <4>1, <5>3
            <6>2. todo'[j] = todo[j]  BY <3>6, <6>1 DEF Ahead
            <6>3. QED  BY <4>2, <5>1, <6>2
          <5>4. QED  BY <5>2, <5>3
        <4>4. Len(todo') <= Total  BY <1>1, <4>1
        <4>5. Made' # 2 * N + 4  BY <1>1, <2>1, <4>2
        <4>6. QED  BY <2>2, <3>3, <4>3, <4>4, <4>5
      <3>7. QED  BY <1>0, <1>6, <3>4, <3>5, <3>6, CallWaitMoves
    <2>6. Made' \in {2 * N + 3, 2 * N + 4}
      <3>1. CASE Ahead(0)  BY <1>0, <1>1, <2>1, <3>1, CallShift
      <3>2. CASE Expire  BY <1>0, <1>1, <1>6, <2>1, <3>2, CallExpires
      <3>3. CASE Ahead(1)
        <4>1. Len(todo') = Len(todo)  BY <1>1, <3>3 DEF Ahead
        <4>2. Made' = Made  BY <4>1 DEF Made, Total, N
        <4>3. QED  BY <1>1, <2>1, <4>2
      <3>4. QED  BY <1>0, <1>6, <3>1, <3>2, <3>3, CallWaitMoves
    <2>7. QED  BY <2>5, <2>6
  <1>7. QED  BY <1>0, <1>4, <1>5, <1>6, CallNext DEF Hosted

LEMMA BackIsDone ==
  ASSUME TypeInv, Calling, Made >= 2 * N + 7
  PROVE  ~Expired
  <1>1. /\ N \in Nat /\ Made \in Nat /\ Total = 3 * N + 7 /\ Made + Len(todo) = Total
        /\ Len(todo) \in Nat
        /\ \A j \in 1 .. Len(todo) : SameStep(todo[j], CallFunction[Made + j])
    BY CallHead
  <1> SUFFICES ASSUME NEW j \in 1 .. Len(todo), todo[j].k = "expired" PROVE FALSE
    BY DEF Expired
  <1>2. Made + j - (2 * N + 7) \in 1 .. N /\ Made + j = 2 * N + 7 + (Made + j - (2 * N + 7))
    BY <1>1
  <1>3. CallFunction[Made + j] = S("restore", Clobbered[Made + j - (2 * N + 7)])
    BY <1>2, CallProgram
  <1>4. CallFunction[Made + j].k = "restore"  BY <1>3 DEF S
  <1>5. todo[j] = CallFunction[Made + j]  BY <1>1, <1>4 DEF SameStep
  <1>6. QED  BY <1>4, <1>5

(* Nothing but the position is asked of the steps while the core runs.     *)
LEMMA CoreCalling ==
  ASSUME TypeInv, Calling, Core
  PROVE  Calling'
  <1>1. /\ N \in Nat /\ Made \in Nat /\ Total = 3 * N + 7
    BY CallHead
  <1>2. /\ ~halted /\ halted' /\ UNCHANGED <<todo, saved, regs0, c_maskints>>
    BY CoreSteps
  <1>3. Made' = Made  BY <1>2 DEF Made
  <1>4. ~(Made <= 2 * N + 2 \/ (Made >= 2 * N + 4 /\ ~Expired))
    BY <1>2 DEF Calling
  <1>5. ~(Made >= 2 * N + 7)  BY <1>1, <1>4, BackIsDone
  <1>6. ~(Made <= N + 1)  BY <1>1, <1>4
  <1>7. \A i \in 1 .. N : ~(i + 2 * N + 7 <= Made)  BY <1>1, <1>5
  <1>8. /\ Len(todo) <= Total
        /\ \A j \in 1 .. Len(todo) : SameStep(todo[j], CallFunction[Made + j])
        /\ Made >= 2 * N + 6 => ~c_maskints
        /\ \A i \in 1 .. N : i <= Made => saved[Clobbered[i]] = regs0[Clobbered[i]]
    BY DEF Calling
  <1>9. QED  BY <1>2, <1>3, <1>6, <1>7, <1>8 DEF Calling

LEMMA LocalCalling ==
  ASSUME TypeInv, Calling, Local
  PROVE  res' = "Timeout" \/ (res' = "Busy" /\ Calling')
  <1>0. Pending /\ Hosted /\ UNCHANGED <<target, saved, regs0>> /\ res = "Busy"
    BY LocalMoves DEF Local, Pending
  <1>1. /\ N \in Nat /\ Made \in Nat
    BY CallHead
  <1>2. Made + 1 = 2 * N + 7 /\ Step.k \in {"waited", "expired"}
    BY <1>0, <1>1, CallNext DEF Hosted
  <1>3. CASE Step.k = "expired"
    BY <1>3, LocalMoves
  <1>4. CASE Step.k = "waited"
    <2>1. Ahead(0) /\ Same  BY <1>4, LocalMoves
    <2>2. /\ Made' = Made + 1 /\ Len(todo') <= Total
          /\ \A j \in 1 .. Len(todo') : SameStep(todo'[j], CallFunction[Made' + j])
          /\ Expired => Expired'
      BY <1>0, <1>4, <2>1, CallShift
    <2>3. halted' = halted /\ c_maskints' = c_maskints /\ regs' = regs
      BY <1>0 DEF target, run
    <2>4. Made' = 2 * N + 7 /\ Made' \in Nat  BY <1>1, <1>2, <2>2
    <2>5. Made' <= 2 * N + 2 \/ (Made' >= 2 * N + 4 /\ ~Expired') => halted'
      <3>1. SUFFICES ASSUME Made' <= 2 * N + 2 \/ (Made' >= 2 * N + 4 /\ ~Expired')
                     PROVE  halted'
        OBVIOUS
      <3>2. ~Expired' /\ Made >= 2 * N + 4  BY <1>1, <1>2, <2>4, <3>1
      <3>3. ~Expired  BY <2>2, <3>2
      <3>4. halted  BY <3>2, <3>3 DEF Calling
      <3>5. QED  BY <2>3, <3>4
    <2>6. ~c_maskints
      <3>1. Made >= 2 * N + 6  BY <1>1, <1>2
      <3>2. QED  BY <3>1 DEF Calling
    <2>7. ~(Made' <= N + 1)  BY <1>1, <2>4
    <2>8. \A i \in 1 .. N : ~(i + 2 * N + 7 <= Made')  BY <1>1, <2>4
    <2>9. \A i \in 1 .. N : i <= Made  BY <1>1, <1>2
    <2>10. \A i \in 1 .. N : saved'[Clobbered[i]] = regs0'[Clobbered[i]]
      BY <1>0, <2>9 DEF Calling
    <2>11. Calling'  BY <2>2, <2>3, <2>5, <2>6, <2>7, <2>8, <2>10 DEF Calling
    <2>12. QED  BY <1>0, <2>1, <2>11 DEF Same
  <1>5. QED  BY <1>2, <1>3, <1>4

(* A wait that fails is kept like one that runs out.                       *)
LEMMA FailCalling ==
  ASSUME TypeInv, Calling, AccessFails
  PROVE  res' = "Err" \/ (res' = "Busy" /\ Calling')
  <1>0. Pending /\ (Effect \/ UNCHANGED target) /\ UNCHANGED <<saved, regs0>> /\ res = "Busy"
    BY FailMoves DEF Pending
  <1>1. /\ N \in Nat /\ Made \in Nat
    BY CallHead
  <1>2. CASE Step.k = "callwait"
    <2>1. Made + 1 = 2 * N + 4  BY <1>0, <1>1, <1>2, CallNext
    <2>2. Expire /\ res' = res  BY <1>2, FailMoves
    <2>3. /\ Made' = Made + 1 /\ Len(todo') <= Total
          /\ \A j \in 1 .. Len(todo') : SameStep(todo'[j], CallFunction[Made' + j])
          /\ Expired'
      BY <1>0, <1>2, <2>2, CallExpires
    <2>4. Made' = 2 * N + 4 /\ Made' \in Nat  BY <1>1, <2>1, <2>3
    <2>5. /\ ~(Made' <= 2 * N + 2) /\ ~(Made' >= 2 * N + 6) /\ ~(Made' <= N + 1)
      BY <1>1, <2>4
    <2>6. \A i \in 1 .. N : ~(i + 2 * N + 7 <= Made')  BY <1>1, <2>4
    <2>7. \A i \in 1 .. N : i <= Made  BY <1>1, <2>1
    <2>8. \A i \in 1 .. N : saved'[Clobbered[i]] = regs0'[Clobbered[i]]
      BY <1>0, <2>7 DEF Calling
    <2>9. Calling'  BY <2>3, <2>5, <2>6, <2>8 DEF Calling
    <2>10. QED  BY <1>0, <2>2, <2>9
  <1>3. CASE Step.k # "callwait"  BY <1>3, FailMoves
  <1>4. QED  BY <1>2, <1>3

LEMMA RequestCalling ==
  ASSUME TypeInv, NEW o \in Operations, Request(o), o.name = "call"
  PROVE  Calling'
  <1>1. /\ todo' = CallFunction /\ regs0' = regs /\ regs' = regs /\ halted' = halted /\ halted
    <2>1. todo' = Prog(o) /\ regs0' = regs /\ UNCHANGED target /\ halted
      BY RequestMoves
    <2>2. QED  BY <2>1, ShortPrograms DEF target, run
  <1>2. N \in Nat /\ Len(todo') = Total /\ Total \in Nat  BY <1>1, CallProgram DEF Total
  <1>3. Made' = 0
    <2>1. Made' = Total - Len(todo')  BY DEF Made, Total, N
    <2>2. QED  BY <1>2, <2>1
  <1>4. \A j \in 1 .. Len(todo') : Made' + j = j  BY <1>3
  <1>5. \A j \in 1 .. Len(todo') : SameStep(todo'[j], CallFunction[Made' + j])
    BY <1>1, <1>4 DEF SameStep
  <1>6. ~(Made' >= 2 * N + 6)  BY <1>2, <1>3
  <1>7. \A i \in 1 .. N : ~(i <= Made') /\ ~(i + 2 * N + 7 <= Made')  BY <1>2, <1>3
  <1>8. Len(todo') <= Total  BY <1>2
  <1>9. QED  BY <1>1, <1>5, <1>6, <1>7, <1>8 DEF Calling

LEMMA FinishCalling ==
  ASSUME TypeInv, Calling, Finish
  PROVE  regs' = regs0' /\ halted' /\ ~c_maskints'
  <1>1. /\ N \in Nat /\ Made \in Nat /\ Total = 3 * N + 7 /\ Made + Len(todo) = Total
    BY CallHead
  <1>2. todo = <<>> /\ Len(todo) = 0 /\ UNCHANGED <<target, regs0>>
    BY DEF Finish, history
  <1>3. Made = 3 * N + 7  BY <1>1, <1>2
  <1>4. Made >= 2 * N + 6 /\ Made >= 2 * N + 4  BY <1>1, <1>3
  <1>5. ~Expired  BY <1>2 DEF Expired
  <1>6. halted /\ ~c_maskints  BY <1>4, <1>5 DEF Calling
  <1>7. \A i \in 1 .. N : i + 2 * N + 7 <= Made  BY <1>1, <1>3
  <1>8. \A i \in 1 .. N : regs[Clobbered[i]] = regs0[Clobbered[i]]
    BY <1>7 DEF Calling
  <1>9. \A r \in Regs : \E i \in 1 .. N : r = Clobbered[i]
    <2>1. DOMAIN Clobbered = 1 .. N  BY ClobberedAssumption DEF N
    <2>2. QED  BY <2>1 DEF Regs
  <1>10. \A r \in Regs : regs[r] = regs0[r]  BY <1>8, <1>9
  <1>11. regs \in [Regs -> Levels] /\ regs0 \in [Regs -> Levels]
    BY DEF TypeInv, TypeOK, Levels
  <1>12. regs = regs0  BY <1>10, <1>11
  <1>13. QED  BY <1>2, <1>6, <1>12 DEF target, run

LEMMA StepCalled == TypeInv /\ TypeInv' /\ Called /\ [Next]_vars => Called'
  <1> SUFFICES ASSUME TypeInv, TypeInv', Called, [Next]_vars PROVE Called'  OBVIOUS
  <1>1. CASE UNCHANGED vars
    BY <1>1 DEF vars, target, run, history, Called, CallTransparent, Calling, Made, Expired
  <1>2. ASSUME NEW o \in Operations, Request(o) PROVE Called'
    <2>1. op' = o /\ res' = "Busy"  BY <1>2, RequestMoves
    <2>2. QED  BY <1>2, <2>1, RequestCalling DEF Called, CallTransparent
  <1>3. ASSUME op' = op, op.name # "call" PROVE Called'
    BY <1>3 DEF Called, CallTransparent
  <1>4. CASE Access /\ op.name = "call"
    <2>1. op' = op /\ Calling  BY <1>4 DEF Access, OpVars, Called, Pending
    <2>2. res' = "Busy" /\ Calling'  BY <1>4, <2>1, AccessCalling
    <2>3. QED  BY <2>2 DEF Called, CallTransparent
  <1>5. CASE AccessFails /\ op.name = "call"
    <2>1. Calling  BY <1>5 DEF AccessFails, Called, Pending
    <2>2. QED  BY <1>5, <2>1, FailCalling DEF Called, CallTransparent
  <1>6. CASE Local /\ op.name = "call"
    <2>1. Calling  BY <1>6 DEF Local, Called, Pending
    <2>2. QED  BY <1>6, <2>1, LocalCalling DEF Called, CallTransparent
  <1>7. CASE Finish /\ op.name = "call"
    <2>1. Calling /\ res' = "Ok"  BY <1>7 DEF Finish, Return, Called
    <2>2. QED  BY <1>7, <2>1, FinishCalling DEF Called, CallTransparent
  <1>8. CASE Core /\ op.name = "call"
    <2>1. ~halted /\ UNCHANGED <<op, res>>  BY <1>8, CoreSteps
    <2>2. res # "Ok"  BY <1>8, <2>1 DEF Called, CallTransparent
    <2>3. res = "Busy" => Calling'  BY <1>8, CoreCalling DEF Called
    <2>4. QED  BY <2>1, <2>2, <2>3 DEF Called, CallTransparent
  <1>9. Access \/ AccessFails \/ Local \/ Finish \/ Core => op' = op
    <2>1. Core => op' = op  BY CoreSteps
    <2>2. QED  BY <2>1 DEF Access, AccessFails, Local, Finish, OpVars
  <1>10. QED
    BY <1>1, <1>2, <1>3, <1>4, <1>5, <1>6, <1>7, <1>8, <1>9 DEF Next

(* For any registers, and wherever the core stops, the wait runs out or an *)
(* access fails: a bootrom call that returns Ok leaves every register as   *)
(* it was, the core halted and its interrupts unmasked.                    *)
THEOREM CallsTransparent == Spec => []CallTransparent
  <1>1. Init => Called  BY DEF Init, Called, CallTransparent
  <1>2. Called => CallTransparent  BY DEF Called
  <1>3. QED  BY <1>1, <1>2, StepCalled, TypeAlways, PTL DEF Spec
=============================================================================
