-------------------------- MODULE GdbServerProofs --------------------------
(***************************************************************************)
(* The GDB server. Run control and breakpoints, for targets of one and of  *)
(* two cores, any addresses and watchpoints, comparators and tables of     *)
(* every size, and any number of requests and of link failures. Then flash *)
(* programming, for any number of sectors, requests and failing accesses.  *)
(***************************************************************************)
EXTENDS GdbTarget, GdbFlash, Integers, SequenceTheorems, WellFoundedInduction, TLAPS

Asking == {"set", "rollback", "clear", "patch", "remove", "refuse"}
Running == {"resume", "run", "poll", "halt"}

(* The server's place, what it is at and the request it works on.          *)
Placed ==
  /\ pc \in {"idle", "report", "connect"} \cup Asking \cup Running
  /\ core \in Cores /\ who \in Cores \cup {NoCore}
  /\ pc \in Asking => req \in Requests
  /\ pc \in {"set", "rollback", "clear"} => req.x \in Items
  /\ pc = "patch" => req.x \in Ram /\ req.z = 0
  /\ pc = "remove" => req.z = 0
  /\ pc = "rollback" => core = 0
  /\ pc \in {"set", "rollback", "patch"} => req.insert
  /\ pc \in {"clear", "remove"} => ~req.insert
  /\ pc = "clear" /\ req.z = 0 => req.x \in Rom
  /\ pc \in {"patch", "set"} /\ req.z = 0 => Len(breakpoints) < TableSize

(* Promoted breakpoints are those in ROM.                                  *)
Tagged ==
  \A i \in 1 .. Len(breakpoints) : breakpoints[i].addr \in Rom <=> breakpoints[i].orig = "Fpb"

TypeInv == TypeOK /\ Placed /\ Tagged

(* Which cores may run, and who knows of it.                               *)
Stopped(c) == halted[c] \/ c \in lost
RunInv ==
  /\ pc \in Running => \A c \in Cores : Stopped(c) \/ running[c]
  /\ pc \notin Running => \A c \in Cores : ~running[c]
  /\ pc \notin Running \cup {"connect"} => \A c \in Cores : Stopped(c)
  /\ pc \in {"halt", "connect"} => \A c \in Cores : c < core => Stopped(c)
  /\ pc \in {"halt", "report"} /\ why = "stop" => who \in Cores /\ halted[who]

HeldShape == held \subseteq ({0, 1} \X (Ram \cup Rom)) \cup ({2} \X Watches)
Some(x) == \E z \in 0 .. 2 : <<z, x>> \in held

(* A comparator address the server is in the middle of.                    *)
Busy(x) == x = req.x /\ pc \in {"set", "rollback", "clear"}

Armed(x) == \A c \in Cores : x \in cmp[c] <=> Some(x)
Half(x) ==
  /\ pc = "set" => \A c \in Cores : x \in cmp[c] <=> c < core \/ Some(x)
  /\ pc = "rollback" => ~Some(x) /\ \A c \in Cores : c # 0 => x \notin cmp[c]
  /\ pc = "clear" => \A c \in Cores : x \in cmp[c] <=> core <= c

(* A second comparator is only armed for a watchpoint that a failure, or a *)
(* session end, has left open.                                             *)
Single ==
  /\ again = [c \in Cores |-> again[c]]
  /\ \A x \in Items, c \in Cores : Settled(x) => Copies(c, x) = {}

ArmInv == \A x \in Items : Settled(x) => IF Busy(x) THEN Half(x) ELSE Armed(x)

(* The requests in force, and the one in work.                             *)
HeldInv ==
  /\ HeldShape
  /\ \A a \in Ram \cup Rom : {<<0, a>>, <<1, a>>} \subseteq held => a \in tainted
  /\ pc \in {"set", "rollback", "patch"} => <<req.z, req.x>> \notin held
  /\ pc \in {"clear", "remove"} => <<req.z, req.x>> \in held
  /\ pc = "connect" => \A h \in held : h[2] \in tainted

Leaving(a) == a = req.x /\ pc = "clear" /\ req.z = 0
TableInv ==
  \A a \in Ram \cup Rom : Settled(a) =>
    /\ \A i, j \in Positions(a) : i = j
    /\ Positions(a) # {} <=> <<0, a>> \in held /\ ~Leaving(a)
    /\ a \in Ram => /\ ram[a] = "BKPT" <=> <<0, a>> \in held
                    /\ \A i \in Positions(a) : breakpoints[i].orig = "code"

(* A core that has stopped on its own stands where something stopped it.   *)
Hit(c) == at[c] \in Ram \cup Rom =>
            at[c] \in cmp[c] \cap Rom \/ (at[c] \in Ram /\ ram[at[c]] = "BKPT")
StopInv ==
  /\ why \in {"stop", "step", "interrupt"}
  /\ pc \in Running => \A c \in Cores : running[c] /\ halted[c] => Hit(c)
  /\ pc \in {"halt", "report"} /\ why = "stop" => Hit(who)
  /\ pc # "idle" => reply = NoReply
  /\ reply.core \in Cores /\ reply.kind \in {"sw", "hw"} => halted[reply.core]
  /\ StopKind
-----------------------------------------------------------------------------
LEMMA CoreFacts ==
  /\ NumCores \in Nat /\ 0 \in Cores /\ NoCore \notin Cores /\ Cores \subseteq Nat
  /\ \A c \in Cores : c = 0 \/ c = 1
  /\ \A c \in Cores : c + 1 < NumCores => c + 1 \in Cores
  /\ \A c, d \in Cores : ~(c + 1 < NumCores) => d <= c
  BY SizesAssumption DEF Cores, NoCore

LEMMA RequestFacts ==
  ASSUME NEW r \in Requests
  PROVE  /\ r.z \in 0 .. 2 /\ r.insert \in BOOLEAN /\ r.x \in Ram \cup Rom \cup Watches
         /\ r.z = 2 => r.x \in Watches /\ r.x \notin Ram \cup Rom
         /\ r.z # 2 => r.x \in Ram \cup Rom /\ r.x \notin Watches
  BY AddressesAssumption DEF Requests

LEMMA EntryFacts ==
  ASSUME NEW r \in Requests
  PROVE  /\ Entry(r) \in Asking /\ Entry(r) # "rollback"
         /\ Entry(r) = "set" => r.insert /\ r.x \in Items /\ (r.z = 0 => ~IsFull)
         /\ Entry(r) = "patch" => r.insert /\ r.x \in Ram /\ r.z = 0 /\ ~IsFull
         /\ Entry(r) = "remove" => r.z = 0 /\ ~r.insert
         /\ Entry(r) = "clear" => r.z # 0 /\ ~r.insert /\ r.x \in Items
  <1>1. r.x \notin Ram => r.x \in Items
    BY RequestFacts DEF Items
  <1>2. CASE r.z = 0 /\ r.insert
    <2>2. CASE IsFull
      <3>1. Entry(r) = "refuse"  BY <1>2, <2>2 DEF Entry
      <3>2. QED  BY <3>1 DEF Asking
    <2>3. CASE ~IsFull /\ r.x \in Ram
      <3>1. Entry(r) = "patch"  BY <1>2, <2>3 DEF Entry
      <3>2. QED  BY <1>2, <2>3, <3>1 DEF Asking
    <2>4. CASE ~IsFull /\ r.x \notin Ram
      <3>1. Entry(r) = "set"  BY <1>2, <2>4 DEF Entry
      <3>2. QED  BY <1>1, <1>2, <2>4, <3>1 DEF Asking
    <2>5. QED  BY <2>2, <2>3, <2>4
  <1>3. CASE r.z = 0 /\ ~r.insert
    BY <1>3 DEF Entry, Asking
  <1>4. CASE r.z # 0
    <2>1. CASE r.x \in Ram
      <3>1. Entry(r) = "refuse"  BY <1>4, <2>1 DEF Entry, Breakable
      <3>2. QED  BY <3>1 DEF Asking
    <2>2. CASE r.x \notin Ram /\ r.insert
      BY <1>1, <1>4, <2>2 DEF Entry, Breakable, Asking
    <2>3. CASE r.x \notin Ram /\ ~r.insert
      BY <1>1, <1>4, <2>3 DEF Entry, Breakable, Asking
    <2>4. QED  BY <2>1, <2>2, <2>3
  <1>5. QED  BY <1>2, <1>3, <1>4

(* What the steps of the cores and of the link do to the target's types.   *)
TargetType ==
  /\ halted \in [Cores -> BOOLEAN] /\ at \in [Cores -> Ram \cup Rom \cup {Elsewhere}]
  /\ dfsr \in [Cores -> SUBSET {"HALTED", "BKPT", "DWTTRAP"}]
  /\ cmp \in [Cores -> SUBSET Items] /\ ram \in [Ram -> {"code", "BKPT"}]

LEMMA KeepType == TargetType /\ Keep => TargetType'
  BY DEF TargetType, Keep, target

LEMMA StopType ==
  ASSUME TargetType, NEW c \in Cores, NEW a \in Ram \cup Rom \cup {Elsewhere},
         NEW cause \in {"HALTED", "BKPT", "DWTTRAP"}, Stop(c, a, cause), UNCHANGED <<cmp, ram>>
  PROVE  TargetType'
  <1>1. dfsr[c] \cup {cause} \in SUBSET {"HALTED", "BKPT", "DWTTRAP"}  BY DEF TargetType
  <1>2. QED  BY <1>1 DEF TargetType, Stop

LEMMA ArmType ==
  ASSUME TargetType, NEW c \in Cores, NEW x \in Items, Arm(c, x) \/ Disarm(c, x)
  PROVE  TargetType'
  <1>1. cmp[c] \cup {x} \in SUBSET Items /\ cmp[c] \ {x} \in SUBSET Items  BY DEF TargetType
  <1>2. QED  BY <1>1 DEF TargetType, Arm, Disarm

LEMMA PatchType ==
  ASSUME TargetType, NEW a, NEW w \in {"code", "BKPT"}, Patch(a, w)
  PROVE  TargetType'
  BY DEF TargetType, Patch

LEMMA StartType == ASSUME TargetType, NEW c \in Cores, Started(c) PROVE TargetType'
  BY DEF TargetType, Started

LEMMA ClearType == ASSUME TargetType, NEW c \in Cores, ClearDfsr(c) PROVE TargetType'
  <1>1. {} \in SUBSET {"HALTED", "BKPT", "DWTTRAP"}  OBVIOUS
  <1>2. QED  BY <1>1 DEF TargetType, ClearDfsr

LEMMA HaltType == ASSUME TargetType, NEW c \in Cores, HaltNow(c) PROVE TargetType'
  BY StopType, KeepType DEF HaltNow
-----------------------------------------------------------------------------
(* Taking an entry out of the table, the last one into the gap.            *)
LEMMA SwapRemoveFacts ==
  ASSUME NEW S, breakpoints \in Seq(S), NEW i \in 1 .. Len(breakpoints)
  PROVE  /\ SwapRemove(i) \in Seq(S)
         /\ Len(SwapRemove(i)) = Len(breakpoints) - 1
         /\ \A j \in 1 .. Len(breakpoints) - 1 :
              SwapRemove(i)[j] = IF j = i THEN breakpoints[Len(breakpoints)] ELSE breakpoints[j]
  <1> DEFINE last == breakpoints[Len(breakpoints)]
             t == [breakpoints EXCEPT ![i] = last]
  <1>1. last \in S /\ Len(breakpoints) \in Nat  OBVIOUS
  <1>2. t \in Seq(S) /\ Len(t) = Len(breakpoints)  BY <1>1
  <1>3. \A j \in 1 .. Len(breakpoints) : t[j] = IF j = i THEN last ELSE breakpoints[j]
    OBVIOUS
  <1> HIDE DEF t
  <1>4. /\ SubSeq(t, 1, Len(breakpoints) - 1) \in Seq(S)
        /\ Len(SubSeq(t, 1, Len(breakpoints) - 1)) = Len(breakpoints) - 1
        /\ \A j \in 1 .. Len(breakpoints) - 1 : SubSeq(t, 1, Len(breakpoints) - 1)[j] = t[j]
    BY <1>1, <1>2
  <1>5. SwapRemove(i) = SubSeq(t, 1, Len(breakpoints) - 1)  BY DEF SwapRemove, t
  <1>6. QED  BY <1>3, <1>4, <1>5

LEMMA LeastNat ==
  ASSUME NEW T \in SUBSET Nat, T # {}
  PROVE  \E x \in T : \A y \in T : x <= y
  <1> DEFINE R == {p \in Nat \X Nat : p[1] < p[2]}
  <1>1. R = OpToRel(<, Nat)  BY Zenon DEF OpToRel
  <1>2. IsWellFoundedOn(R, Nat)  BY <1>1, NatLessThanWellFounded
  <1>3. PICK x \in T : \A y \in T : ~(<<y, x>> \in R)
    <2> HIDE DEF R
    <2>1. QED  BY <1>2, WFMin
  <1>4. ASSUME NEW y \in T PROVE x <= y
    <2>1. x \in Nat /\ y \in Nat  OBVIOUS
    <2>2. ~(<<y, x>> \in R)  BY <1>3
    <2>3. <<y, x>> \in Nat \X Nat /\ <<y, x>>[1] = y /\ <<y, x>>[2] = x  BY <2>1
    <2>4. ~(y < x)  BY <2>2, <2>3
    <2>5. QED  BY <2>1, <2>4
  <1>5. QED  BY <1>4

LEMMA FirstFacts ==
  ASSUME NEW S, breakpoints \in Seq(S), NEW a, Positions(a) # {}
  PROVE  /\ First(a) \in 1 .. Len(breakpoints) /\ First(a) \in Positions(a)
         /\ breakpoints[First(a)].addr = a
  <1>1. DOMAIN breakpoints = 1 .. Len(breakpoints) /\ Len(breakpoints) \in Nat  OBVIOUS
  <1>2. Positions(a) \in SUBSET Nat  BY <1>1 DEF Positions
  <1>3. \E i \in Positions(a) : \A j \in Positions(a) : i <= j  BY <1>2, LeastNat
  <1>4. First(a) \in Positions(a)  BY <1>3 DEF First
  <1>5. QED  BY <1>1, <1>4 DEF Positions
-----------------------------------------------------------------------------
Slot == [addr : Ram \cup Rom, orig : {"code", "BKPT", "Fpb"}]
RpType ==
  /\ running \in [Cores -> BOOLEAN] /\ stepped \in Cores \cup {NoCore}
  /\ breakpoints \in Seq(Slot) /\ Len(breakpoints) <= TableSize /\ Tagged

LEMMA TypeParts ==
  TypeInv <=> TargetType /\ RpType /\ Placed
  BY DEF TypeInv, TypeOK, TargetType, RpType, Slot, Placed

LEMMA NextTypeParts == TargetType' /\ RpType' /\ Placed' => TypeInv'
  BY DEF TypeInv, TypeOK, TargetType, RpType, Slot, Placed

LEMMA SavedType ==
  ASSUME RpType, NEW a, NEW w, <<a, w>> \in (Rom \X {"Fpb"}) \cup (Ram \X {"code", "BKPT"}),
         Saved(a, w), Len(breakpoints) < TableSize, UNCHANGED <<running, stepped>>
  PROVE  RpType'
  <1>1. [addr |-> a, orig |-> w] \in Slot  BY DEF Slot
  <1>2. /\ breakpoints' \in Seq(Slot) /\ Len(breakpoints') = Len(breakpoints) + 1
        /\ \A i \in 1 .. Len(breakpoints') :
             \/ i \in 1 .. Len(breakpoints) /\ breakpoints'[i] = breakpoints[i]
             \/ breakpoints'[i] = [addr |-> a, orig |-> w]
    BY <1>1 DEF Saved, RpType
  <1>3. Tagged'
    <2>1. a \in Rom <=> w = "Fpb"  BY AddressesAssumption
    <2>2. QED  BY <1>2, <2>1 DEF RpType, Tagged
  <1>4. Len(breakpoints') <= TableSize
    BY <1>2, SizesAssumption DEF RpType
  <1>5. QED  BY <1>2, <1>3, <1>4 DEF RpType

LEMMA RemovedType ==
  ASSUME RpType, NEW i \in 1 .. Len(breakpoints), breakpoints' = SwapRemove(i),
         UNCHANGED <<running, stepped>>
  PROVE  RpType'
  <1>1. breakpoints \in Seq(Slot) /\ Len(breakpoints) \in Nat  BY DEF RpType
  <1>2. /\ breakpoints' \in Seq(Slot) /\ Len(breakpoints') = Len(breakpoints) - 1
        /\ \A j \in 1 .. Len(breakpoints) - 1 :
             breakpoints'[j] = IF j = i THEN breakpoints[Len(breakpoints)] ELSE breakpoints[j]
    BY <1>1, SwapRemoveFacts
  <1>3. Tagged'
    <2>1. \A j \in 1 .. Len(breakpoints') : \E k \in 1 .. Len(breakpoints) : breakpoints'[j] = breakpoints[k]
      BY <1>1, <1>2
    <2>2. QED  BY <2>1 DEF RpType, Tagged
  <1>4. QED  BY <1>1, <1>2, <1>3, SizesAssumption DEF RpType

LEMMA QuietRp == RpType /\ UNCHANGED <<running, stepped, breakpoints>> => RpType'
  BY DEF RpType, Tagged

(* A place that has no request in work.                                    *)
LEMMA PlacedFree ==
  ASSUME pc' \in {"idle", "report", "connect"} \cup Running, core' \in Cores,
         who' \in Cores \cup {NoCore}
  PROVE  Placed'
  BY DEF Placed, Asking, Running

LEMMA DonePlaced == ASSUME NEW r, Done(r) PROVE Placed'
  <1>1. pc' = "idle" /\ core' = 0 /\ who' = NoCore  BY DEF Done, At
  <1>2. QED  BY <1>1, CoreFacts, PlacedFree

LEMMA AnswerPlaced == ASSUME NEW r, Answer(r) PROVE Placed'
  BY DonePlaced DEF Answer
-----------------------------------------------------------------------------
LEMMA InitType == Init => TypeInv
  <1> SUFFICES ASSUME Init PROVE TypeInv  OBVIOUS
  <1>1. TargetType
    <2>1. {} \in SUBSET {"HALTED", "BKPT", "DWTTRAP"} /\ {} \in SUBSET Items  OBVIOUS
    <2>2. QED  BY <2>1 DEF Init, TargetType
  <1>2. RpType  BY SizesAssumption DEF Init, RpType, Tagged
  <1>3. Placed  BY CoreFacts DEF Init, Placed, Asking
  <1>4. QED  BY <1>1, <1>2, <1>3, TypeParts

LEMMA TrapTypeInv == ASSUME TypeInv, NEW c \in Cores, Trap(c) PROVE TypeInv'
  <1>1. TargetType /\ RpType /\ Placed  BY TypeParts
  <1>2. TargetType'
    <2>1. CASE \E a \in (cmp[c] \cap Rom) \cup {r \in Ram : ram[r] = "BKPT"} : Stop(c, a, "BKPT")
      BY <1>1, <2>1, StopType DEF Trap
    <2>2. CASE Stop(c, Elsewhere, "DWTTRAP")
      BY <1>1, <2>2, StopType DEF Trap
    <2>3. QED  BY <2>1, <2>2 DEF Trap
  <1>3. RpType'  BY <1>1, QuietRp DEF Trap, rp
  <1>4. Placed'  BY <1>1 DEF Placed, Trap, rp, server
  <1>5. QED  BY <1>2, <1>3, <1>4, NextTypeParts

LEMMA SetBothType == TypeInv /\ SetBoth => TypeInv'
  <1> SUFFICES ASSUME TypeInv, SetBoth PROVE TypeInv'  OBVIOUS
  <1>1. /\ TargetType /\ RpType /\ Placed /\ pc = "set" /\ core \in Cores /\ req \in Requests
        /\ req.x \in Items
    BY TypeParts DEF SetBoth, Placed, Asking
  <1>2. CASE /\ Arm(core, req.x)
             /\ \/ HasNext /\ At("set", core + 1) /\ UNCHANGED <<rp, who, why, req, any>>
                \/ /\ Answer("ok") /\ UNCHANGED <<running, stepped, actions, lock>>
                   /\ IF IsPromoted THEN Saved(req.x, "Fpb") ELSE UNCHANGED breakpoints
    <2>1. TargetType'  BY <1>1, <1>2, ArmType
    <2>2. CASE HasNext /\ At("set", core + 1) /\ UNCHANGED <<rp, who, why, req, any>>
      <3>1. core' \in Cores /\ pc' = "set"  BY <1>1, <2>2, CoreFacts DEF HasNext, At
      <3>2. Placed'  BY <1>1, <2>2, <3>1 DEF Placed, rp
      <3>3. QED  BY <1>1, <2>1, <2>2, <3>2, QuietRp, NextTypeParts DEF rp
    <2>3. CASE /\ Answer("ok") /\ UNCHANGED <<running, stepped, actions, lock>>
               /\ IF IsPromoted THEN Saved(req.x, "Fpb") ELSE UNCHANGED breakpoints
      <3>1. RpType'
        <4>1. CASE IsPromoted
          <5>1. req.x \in Rom /\ Len(breakpoints) < TableSize
            BY <1>1, <4>1, RequestFacts DEF IsPromoted, Items, Placed
          <5>2. QED  BY <1>1, <2>3, <4>1, <5>1, SavedType
        <4>2. CASE ~IsPromoted  BY <1>1, <2>3, <4>2, QuietRp
        <4>3. QED  BY <4>1, <4>2
      <3>2. QED  BY <2>1, <2>3, <3>1, AnswerPlaced, NextTypeParts
    <2>4. QED  BY <1>2, <2>2, <2>3
  <1>3. CASE Refused
    <2>1. TargetType' /\ RpType'
      BY <1>1, <1>3, KeepType, QuietRp DEF Refused, Quiet, rp
    <2>2. Placed'
      <3>1. CASE At("rollback", 0) /\ UNCHANGED <<who, why, req, any, reply, history>>
        BY <1>1, <3>1, CoreFacts DEF At, Placed, Asking
      <3>2. CASE Answer("no")  BY <3>2, AnswerPlaced
      <3>3. QED  BY <1>3, <3>1, <3>2 DEF Refused
    <2>3. QED  BY <2>1, <2>2, NextTypeParts
  <1>4. CASE Answer("err") /\ Quiet /\ (Keep \/ Arm(core, req.x))
    <2>1. TargetType' /\ RpType'
      BY <1>1, <1>4, KeepType, ArmType, QuietRp DEF Quiet, rp
    <2>2. QED  BY <1>4, <2>1, AnswerPlaced, NextTypeParts
  <1>5. QED  BY <1>2, <1>3, <1>4 DEF SetBoth

LEMMA RollBackType == TypeInv /\ RollBack => TypeInv'
  <1> SUFFICES ASSUME TypeInv, RollBack PROVE TypeInv'  OBVIOUS
  <1>1. TargetType /\ RpType /\ Placed /\ pc = "rollback" /\ req.x \in Items /\ 0 \in Cores
    BY TypeParts, CoreFacts DEF RollBack, Placed
  <1>2. TargetType'  BY <1>1, ArmType, KeepType DEF RollBack
  <1>3. RpType'  BY <1>1, QuietRp DEF RollBack, Quiet, rp
  <1>4. Placed'  BY AnswerPlaced, DonePlaced DEF RollBack
  <1>5. QED  BY <1>2, <1>3, <1>4, NextTypeParts

LEMMA ClearBothType == TypeInv /\ ClearBoth => TypeInv'
  <1> SUFFICES ASSUME TypeInv, ClearBoth PROVE TypeInv'  OBVIOUS
  <1>1. TargetType /\ RpType /\ Placed /\ pc = "clear" /\ req.x \in Items /\ core \in Cores
    BY TypeParts DEF ClearBoth, Placed
  <1>2. TargetType'  BY <1>1, ArmType, KeepType DEF ClearBoth
  <1>3. RpType'  BY <1>1, QuietRp DEF ClearBoth, Quiet, rp
  <1>4. Placed'
    <2>1. CASE HasNext /\ At("clear", core + 1) /\ UNCHANGED <<who, why, req>>
      <3>1. core' \in Cores /\ pc' = "clear"  BY <1>1, <2>1, CoreFacts DEF HasNext, At
      <3>2. QED  BY <1>1, <2>1, <3>1 DEF Placed, Asking
    <2>2. CASE \E r : Answer(r)  BY <2>2, AnswerPlaced
    <2>3. QED  BY <2>1, <2>2 DEF ClearBoth
  <1>5. QED  BY <1>2, <1>3, <1>4, NextTypeParts

LEMMA AddRamType == TypeInv /\ AddRam => TypeInv'
  <1> SUFFICES ASSUME TypeInv, AddRam PROVE TypeInv'  OBVIOUS
  <1>1. /\ TargetType /\ RpType /\ Placed /\ pc = "patch" /\ req.x \in Ram
        /\ Len(breakpoints) < TableSize /\ ram[req.x] \in {"code", "BKPT"}
    BY TypeParts DEF AddRam, Placed, TargetType
  <1>2. TargetType'  BY <1>1, PatchType, KeepType DEF AddRam
  <1>3. RpType'  BY <1>1, SavedType, QuietRp DEF AddRam
  <1>4. Placed'  BY AnswerPlaced DEF AddRam
  <1>5. QED  BY <1>2, <1>3, <1>4, NextTypeParts

LEMMA RemoveSwType == TypeInv /\ RemoveSw => TypeInv'
  <1> SUFFICES ASSUME TypeInv, RemoveSw PROVE TypeInv'  OBVIOUS
  <1>1. TargetType /\ RpType /\ Placed /\ pc = "remove" /\ req.z = 0 /\ ~req.insert
    BY TypeParts DEF RemoveSw, Placed
  <1>2. CASE Keep /\ Quiet /\ Answer("no")
    BY <1>1, <1>2, KeepType, QuietRp, AnswerPlaced, NextTypeParts DEF Quiet, rp
  <1>3. CASE Positions(req.x) # {}
    <2> DEFINE i == First(req.x)
               old == breakpoints[i].orig
    <2>1. i \in 1 .. Len(breakpoints) /\ breakpoints[i].addr = req.x /\ breakpoints[i] \in Slot
      BY <1>1, <1>3, FirstFacts DEF RpType
    <2>2. RpType'  BY <1>1, <1>3, <2>1, RemovedType DEF RemoveSw
    <2>3. (old = "Fpb" <=> req.x \in Rom) /\ (old # "Fpb" => old \in {"code", "BKPT"})
      BY <1>1, <2>1 DEF RpType, Tagged, Slot
    <2>4. TargetType'  BY <1>1, <1>3, <2>3, KeepType, PatchType DEF RemoveSw
    <2>5. Placed'
      <3>1. CASE old = "Fpb" /\ At("clear", 0) /\ UNCHANGED <<who, why, req, any>>
        BY <1>1, <2>3, <3>1, CoreFacts DEF At, Placed, Asking, Items
      <3>2. CASE \E r : Answer(r)  BY <3>2, AnswerPlaced
      <3>3. QED  BY <1>1, <1>3, <3>1, <3>2 DEF RemoveSw
    <2>6. QED  BY <2>2, <2>4, <2>5, NextTypeParts
  <1>4. QED  BY <1>2, <1>3 DEF RemoveSw

LEMMA RefuseType == TypeInv /\ Refuse => TypeInv'
  BY TypeParts, KeepType, QuietRp, AnswerPlaced, NextTypeParts DEF Refuse, Quiet, rp

LEMMA RequestType == ASSUME TypeInv, NEW r \in Requests, Request(r) PROVE TypeInv'
  <1>1. TargetType /\ RpType /\ Placed  BY TypeParts
  <1>2. req' = r /\ pc' = Entry(r) /\ core' = 0 /\ UNCHANGED <<target, rp, who>>
    BY DEF Request, At
  <1>3. TargetType' /\ RpType'
    BY <1>1, <1>2, QuietRp DEF TargetType, target, rp
  <1>4. Placed'
    <2>1. pc' \in Asking /\ pc' # "rollback" /\ core' \in Cores /\ who' \in Cores \cup {NoCore}
      BY <1>1, <1>2, CoreFacts, EntryFacts DEF Placed
    <2>2. IsFull' <=> ~(Len(breakpoints') < TableSize)
      BY <1>3, SizesAssumption DEF IsFull, RpType
    <2>3. IsFull' <=> IsFull  BY <1>2 DEF IsFull, rp
    <2>4. QED  BY <1>2, <2>1, <2>2, <2>3, EntryFacts DEF Placed
  <1>5. QED  BY <1>3, <1>4, NextTypeParts

LEMMA ContinueType == ASSUME TypeInv, NEW a, NEW l, Continue(a, l) PROVE TypeInv'
  <1>1. TargetType /\ RpType /\ Placed  BY TypeParts
  <1>2. TargetType'  BY <1>1 DEF Continue, TargetType, target
  <1>3. RpType'  BY <1>1 DEF Continue, RpType, Tagged
  <1>4. Placed'  BY <1>1, CoreFacts, PlacedFree DEF Continue, At, Running, Placed
  <1>5. QED  BY <1>2, <1>3, <1>4, NextTypeParts

LEMMA ResumeType == TypeInv /\ Resume => TypeInv'
  <1> SUFFICES ASSUME TypeInv, Resume PROVE TypeInv'  OBVIOUS
  <1>1. TargetType /\ RpType /\ Placed /\ core \in Cores  BY TypeParts DEF Placed
  <1>2. TargetType'
    <2>1. CASE Keep \/ Started(core)  BY <1>1, <2>1, KeepType, StartType
    <2>2. CASE \E cause \in {"HALTED", "DWTTRAP"} : Stop(core, Elsewhere, cause) /\ UNCHANGED <<cmp, ram>>
      BY <1>1, <2>2, StopType
    <2>3. QED  BY <2>1, <2>2 DEF Resume
  <1>3. RpType'
    BY <1>1 DEF Resume, RpType, Tagged
  <1>4. Placed'
    BY <1>1, CoreFacts, PlacedFree DEF Resume, At, HasNext, Running, Placed
  <1>5. QED  BY <1>2, <1>3, <1>4, NextTypeParts

LEMMA RunType == TypeInv /\ (Interrupt \/ TakeByte \/ PollStep \/ Poll \/ PollCore) => TypeInv'
  <1> SUFFICES ASSUME TypeInv, Interrupt \/ TakeByte \/ PollStep \/ Poll \/ PollCore PROVE TypeInv'
    OBVIOUS
  <1>1. TargetType /\ RpType /\ Placed /\ core \in Cores /\ who \in Cores \cup {NoCore}
    BY TypeParts DEF Placed
  <1>2. UNCHANGED target /\ UNCHANGED <<running, breakpoints>> /\ stepped' \in {stepped, NoCore}
    BY DEF Interrupt, TakeByte, PollStep, Poll, PollCore, rp
  <1>3. TargetType'  BY <1>1, <1>2 DEF TargetType, target
  <1>4. RpType'  BY <1>1, <1>2 DEF RpType, Tagged
  <1>5. pc' \in Running /\ core' \in Cores /\ who' \in Cores \cup {NoCore}
    <2>1. CASE Interrupt  BY <1>1, <2>1 DEF Interrupt, server, Running
    <2>2. CASE TakeByte  BY <2>2, CoreFacts DEF TakeByte, HaltFor, At, Running
    <2>3. CASE PollStep
      BY <1>1, <2>3, CoreFacts DEF PollStep, HaltFor, At, Running, RpType
    <2>4. CASE Poll  BY <1>1, <2>4, CoreFacts DEF Poll, At, Running
    <2>5. CASE PollCore
      BY <1>1, <2>5, CoreFacts DEF PollCore, HaltFor, HasNext, At, Running
    <2>6. QED  BY <2>1, <2>2, <2>3, <2>4, <2>5
  <1>6. QED  BY <1>3, <1>4, <1>5, PlacedFree, NextTypeParts

LEMMA HaltCoreType == TypeInv /\ HaltCore => TypeInv'
  <1> SUFFICES ASSUME TypeInv, HaltCore PROVE TypeInv'  OBVIOUS
  <1>1. TargetType /\ RpType /\ Placed /\ core \in Cores  BY TypeParts DEF Placed
  <1>2. TargetType'  BY <1>1, KeepType, HaltType DEF HaltCore
  <1>3. RpType'  BY <1>1 DEF HaltCore, RpType, Tagged
  <1>4. Placed'
    BY <1>1, CoreFacts, PlacedFree DEF HaltCore, At, HasNext, Running, Placed
  <1>5. QED  BY <1>2, <1>3, <1>4, NextTypeParts

LEMMA ConnectType == TypeInv /\ Connect => TypeInv'
  <1> SUFFICES ASSUME TypeInv, Connect PROVE TypeInv'  OBVIOUS
  <1>1. TargetType /\ RpType /\ Placed /\ core \in Cores /\ 0 \in Cores /\ UNCHANGED <<rp, who, ram>>
    BY TypeParts, CoreFacts DEF Placed, Connect
  <1>2. TargetType'
    <2>1. /\ UNCHANGED <<halted, at, dfsr>> \/ Stop(core, Elsewhere, "HALTED")
          /\ cmp' = cmp \/ cmp' = [cmp EXCEPT ![core] = {}]
      BY DEF Connect
    <2>2. cmp' \in [Cores -> SUBSET Items]
      <3>1. {} \in SUBSET Items  OBVIOUS
      <3>2. QED  BY <1>1, <2>1, <3>1 DEF TargetType
    <2>3. dfsr[core] \cup {"HALTED"} \in SUBSET {"HALTED", "BKPT", "DWTTRAP"}
      BY <1>1 DEF TargetType
    <2>4. CASE UNCHANGED <<halted, at, dfsr>>
      BY <1>1, <2>2, <2>4 DEF TargetType
    <2>5. CASE Stop(core, Elsewhere, "HALTED")
      BY <1>1, <2>2, <2>3, <2>5 DEF TargetType, Stop
    <2>6. QED  BY <2>1, <2>4, <2>5
  <1>3. RpType'  BY <1>1, QuietRp DEF rp
  <1>4. Placed'
    BY <1>1, CoreFacts, PlacedFree DEF Connect, At, HasNext, Placed
  <1>5. QED  BY <1>2, <1>3, <1>4, NextTypeParts

LEMMA ReconnectType == TypeInv /\ Reconnect => TypeInv'
  <1> SUFFICES ASSUME TypeInv, Reconnect PROVE TypeInv'  OBVIOUS
  <1>1. TargetType /\ RpType /\ Placed  BY TypeParts
  <1>2. TargetType'
    <2>1. [a \in Ram |-> "code"] \in [Ram -> {"code", "BKPT"}]  OBVIOUS
    <2>2. QED  BY <1>1, <2>1 DEF Reconnect, TargetType
  <1>3. RpType'  BY <1>1 DEF Reconnect, RpType, Tagged
  <1>4. Placed'  BY <1>1, CoreFacts, PlacedFree DEF Reconnect, At, Placed
  <1>5. QED  BY <1>2, <1>3, <1>4, NextTypeParts

LEMMA ReportType == TypeInv /\ RunInv /\ Report => TypeInv'
  <1> SUFFICES ASSUME TypeInv, RunInv, Report PROVE TypeInv'  OBVIOUS
  <1>1. TargetType /\ RpType /\ Placed /\ (why = "stop" => who \in Cores)
    BY TypeParts DEF Report, RunInv
  <1>2. TargetType'
    <2>1. CASE why # "stop"  BY <1>1, <2>1, KeepType DEF Report
    <2>2. CASE why = "stop"  BY <1>1, <2>2, KeepType, ClearType DEF Report, Guess
    <2>3. QED  BY <2>1, <2>2
  <1>3. RpType'  BY <1>1, QuietRp DEF Report, rp
  <1>4. Placed'  BY DonePlaced DEF Report, Guess
  <1>5. QED  BY <1>2, <1>3, <1>4, NextTypeParts

LEMMA StepType == TypeInv /\ RunInv /\ [Next]_vars => TypeInv'
  <1> SUFFICES ASSUME TypeInv, RunInv, [Next]_vars PROVE TypeInv'  OBVIOUS
  <1>1. CASE UNCHANGED vars
    <2>1. TargetType /\ RpType /\ Placed  BY TypeParts
    <2>2. TargetType'  BY <1>1, <2>1 DEF vars, target, TargetType
    <2>3. RpType'  BY <1>1, <2>1, QuietRp DEF vars, rp
    <2>4. Placed'  BY <1>1, <2>1 DEF vars, rp, server, Placed
    <2>5. QED  BY <2>2, <2>3, <2>4, NextTypeParts
  <1>2. CASE Server
    BY <1>2, SetBothType, RollBackType, ClearBothType, AddRamType, RemoveSwType, RefuseType,
       ResumeType, RunType, HaltCoreType, ReportType, ConnectType DEF Server
  <1>3. CASE Host
    BY <1>3, RequestType, ContinueType, RunType, ReconnectType DEF Host, SessionEnd, TargetReset
  <1>4. CASE \E c \in Cores : Trap(c)  BY <1>4, TrapTypeInv
  <1>5. QED  BY <1>1, <1>2, <1>3, <1>4 DEF Next
-----------------------------------------------------------------------------
(* Which cores may run.                                                    *)
LEMMA RunFrame ==
  ASSUME RunInv, pc \notin Running \cup {"connect"}, pc' \in {"idle"} \cup Asking,
         UNCHANGED <<halted, running, lost>>
  PROVE  RunInv'
  BY DEF RunInv, Running, Asking, Stopped

LEMMA AskRun ==
  ASSUME TypeInv, RunInv,
         SetBoth \/ RollBack \/ ClearBoth \/ AddRam \/ RemoveSw \/ Refuse
  PROVE  RunInv'
  <1>1. pc \notin Running \cup {"connect"}
    BY DEF SetBoth, RollBack, ClearBoth, AddRam, RemoveSw, Refuse, Running
  <1>2. UNCHANGED <<running, lost>>
    BY DEF SetBoth, RollBack, ClearBoth, AddRam, RemoveSw, Refuse, Refused, Quiet, Answer, rp, history
  <1>3. UNCHANGED halted
    BY DEF SetBoth, RollBack, ClearBoth, AddRam, RemoveSw, Refuse, Refused, Keep, Arm, Disarm, Patch, target
  <1>4. pc' \in {"idle"} \cup Asking
    BY DEF SetBoth, RollBack, ClearBoth, AddRam, RemoveSw, Refuse, Refused, Answer, Done, At, Asking
  <1>5. QED  BY <1>1, <1>2, <1>3, <1>4, RunFrame

LEMMA ResumeRun == TypeInv /\ RunInv /\ Resume => RunInv'
  <1> SUFFICES ASSUME TypeInv, RunInv, Resume PROVE RunInv'  OBVIOUS
  <1>1. /\ core \in Cores /\ halted \in [Cores -> BOOLEAN] /\ running \in [Cores -> BOOLEAN]
        /\ pc = "resume" /\ pc' \in {"resume", "run"}
        /\ \A c \in Cores : Stopped(c) \/ running[c]
    BY DEF TypeInv, TypeOK, Resume, At, RunInv, Running
  <1>2. ASSUME NEW c \in Cores PROVE Stopped(c)' \/ running'[c]
    <2>1. lost \subseteq lost'  BY DEF Resume, MayRun
    <2>2. CASE Keep /\ UNCHANGED running
      BY <1>1, <2>1, <2>2 DEF Stopped, Keep, target
    <2>3. CASE Started(core) /\ running' = [running EXCEPT ![core] = TRUE]
      BY <1>1, <2>1, <2>3 DEF Stopped, Started
    <2>4. CASE Started(core) /\ UNCHANGED running /\ MayRun
      BY <1>1, <2>1, <2>4 DEF Stopped, Started, MayRun
    <2>5. CASE (\E cause : Stop(core, Elsewhere, cause)) /\ UNCHANGED running
      BY <1>1, <2>1, <2>5 DEF Stopped, Stop
    <2>6. QED  BY <2>2, <2>3, <2>4, <2>5 DEF Resume
  <1>3. QED  BY <1>1, <1>2 DEF RunInv, Running

LEMMA PollRun ==
  ASSUME TypeInv, RunInv, Interrupt \/ TakeByte \/ PollStep \/ Poll \/ PollCore
  PROVE  RunInv'
  <1>1. /\ pc \in Running /\ pc' \in Running /\ UNCHANGED <<halted, running, lost>>
        /\ core \in Cores
    BY DEF Interrupt, TakeByte, PollStep, Poll, PollCore, HaltFor, At, Running, target, rp, history,
           server, TypeInv, TypeOK
  <1>2. pc' = "halt" => core' = 0 /\ (why' = "stop" => who' \in Cores /\ halted[who'])
    BY <1>1 DEF Interrupt, TakeByte, PollStep, Poll, PollCore, HaltFor, At, server
  <1>3. Cores \subseteq Nat  BY CoreFacts
  <1>4. QED  BY <1>1, <1>2, <1>3 DEF RunInv, Running, Stopped

LEMMA HaltRun == TypeInv /\ RunInv /\ HaltCore => RunInv'
  <1> SUFFICES ASSUME TypeInv, RunInv, HaltCore PROVE RunInv'  OBVIOUS
  <1>1. /\ core \in Cores /\ halted \in [Cores -> BOOLEAN] /\ running \in [Cores -> BOOLEAN]
        /\ pc = "halt" /\ UNCHANGED <<who, why>>
        /\ \A c \in Cores : Stopped(c) \/ running[c]
        /\ \A c \in Cores : c < core => Stopped(c)
        /\ why = "stop" => who \in Cores /\ halted[who]
    BY DEF TypeInv, TypeOK, HaltCore, RunInv, Running
  <1>2. \A c \in Cores : (halted[c] => halted'[c]) /\ (Stopped(c) => Stopped(c)')
    <2>1. CASE Keep /\ lost \subseteq lost'
      BY <2>1 DEF Keep, target, Stopped
    <2>2. CASE HaltNow(core) /\ lost \ {core} \subseteq lost'
      BY <1>1, <2>2 DEF HaltNow, Keep, target, Stop, Stopped
    <2>3. QED  BY <2>1, <2>2 DEF HaltCore, MayRun
  <1>3. \A c \in Cores : c = core => Stopped(c)'
    <2>1. CASE (~running[core] \/ Excepted) /\ Keep /\ UNCHANGED lost
      BY <1>1, <2>1 DEF Excepted, Keep, target, Stopped
    <2>2. CASE HaltNow(core)
      BY <1>1, <2>2 DEF HaltNow, Keep, target, Stop, Stopped
    <2>3. CASE MayRun  BY <2>3 DEF MayRun, Stopped
    <2>4. QED  BY <2>1, <2>2, <2>3 DEF HaltCore
  <1>4. CASE HasNext
    <2>1. pc' = "halt" /\ core' = core + 1 /\ running' = running
      BY <1>4 DEF HaltCore, At
    <2>2. \A c \in Cores : c < core + 1 => c < core \/ c = core
      BY <1>1, CoreFacts
    <2>3. \A c \in Cores : c < core' => Stopped(c)'  BY <1>1, <1>2, <1>3, <2>1, <2>2
    <2>4. QED  BY <1>1, <1>2, <2>1, <2>3 DEF RunInv, Running
  <1>5. CASE ~HasNext
    <2>1. pc' = "report" /\ running' = [c \in Cores |-> FALSE]
      BY <1>5 DEF HaltCore, At
    <2>2. \A c \in Cores : c < core \/ c = core
      BY <1>1, <1>5, CoreFacts DEF HasNext
    <2>3. \A c \in Cores : Stopped(c)'  BY <1>1, <1>2, <1>3, <2>2
    <2>4. QED  BY <1>1, <1>2, <2>1, <2>3 DEF RunInv, Running
  <1>6. QED  BY <1>4, <1>5

LEMMA ConnectRun == TypeInv /\ RunInv /\ Connect => RunInv'
  <1> SUFFICES ASSUME TypeInv, RunInv, Connect PROVE RunInv'  OBVIOUS
  <1>1. /\ core \in Cores /\ halted \in [Cores -> BOOLEAN] /\ pc = "connect" /\ UNCHANGED running
        /\ \A c \in Cores : ~running[c]
        /\ \A c \in Cores : c < core => Stopped(c)
    BY DEF TypeInv, TypeOK, Connect, RunInv, Running, rp
  <1>2. CASE At("idle", 0) /\ lost' = Cores
    BY <1>1, <1>2 DEF At, RunInv, Running, Stopped
  <1>3. CASE /\ IF HasNext THEN At("connect", core + 1) ELSE At("idle", 0)
             /\ \/ /\ lost' = lost \ {core}
                   /\ (UNCHANGED halted /\ halted[core]) \/ Stop(core, Elsewhere, "HALTED")
                \/ UNCHANGED halted /\ MayRun
    <2>1. \A c \in Cores : (Stopped(c) => Stopped(c)') /\ (c = core => Stopped(c)')
      BY <1>1, <1>3 DEF Stopped, Stop, MayRun
    <2>2. CASE HasNext
      <3>1. \A c \in Cores : c < core + 1 => c < core \/ c = core
        BY <1>1, CoreFacts
      <3>2. \A c \in Cores : c < core' => Stopped(c)'  BY <1>1, <1>3, <2>1, <2>2, <3>1 DEF At
      <3>3. QED  BY <1>1, <1>3, <2>2, <3>2 DEF RunInv, Running, At
    <2>3. CASE ~HasNext
      <3>1. \A c \in Cores : c < core \/ c = core
        BY <1>1, <2>3, CoreFacts DEF HasNext
      <3>2. \A c \in Cores : Stopped(c)'  BY <1>1, <2>1, <3>1
      <3>3. QED  BY <1>1, <1>3, <2>3, <3>2 DEF RunInv, Running, At
    <2>4. QED  BY <2>2, <2>3
  <1>4. QED  BY <1>2, <1>3 DEF Connect

LEMMA StepRun == TypeInv /\ RunInv /\ [Next]_vars => RunInv'
  <1> SUFFICES ASSUME TypeInv, RunInv, [Next]_vars PROVE RunInv'  OBVIOUS
  <1>1. CASE UNCHANGED vars
    BY <1>1 DEF vars, target, rp, server, history, RunInv, Stopped
  <1>2. CASE Report
    <2>1. pc = "report" /\ pc' = "idle" /\ UNCHANGED <<halted, running, lost>>
      BY <1>2 DEF Report, Guess, Done, At, Keep, ClearDfsr, target, rp
    <2>2. QED  BY <2>1, RunFrame DEF Running
  <1>3. CASE \E r \in Requests : Request(r)
    <2>1. PICK r \in Requests : Request(r)  BY <1>3
    <2>2. pc = "idle" /\ pc' \in Asking /\ UNCHANGED <<halted, running, lost>>
      BY <2>1, EntryFacts DEF Request, At, target, rp, history
    <2>3. QED  BY <2>2, RunFrame DEF Running
  <1>4. ASSUME NEW a, NEW l, Continue(a, l) PROVE RunInv'
    <2>1. pc = "idle" /\ pc' = "resume" /\ UNCHANGED <<halted, running, lost>>
      BY <1>4 DEF Continue, At, target, history
    <2>2. QED  BY <2>1 DEF RunInv, Running, Stopped
  <1>5. CASE Reconnect
    <2>1. pc' = "connect" /\ core' = 0 /\ running' = [c \in Cores |-> FALSE]
      BY <1>5 DEF Reconnect, At
    <2>2. Cores \subseteq Nat  BY CoreFacts
    <2>3. QED  BY <2>1, <2>2 DEF RunInv, Running
  <1>6. ASSUME NEW c \in Cores, Trap(c) PROVE RunInv'
    <2>1. halted \in [Cores -> BOOLEAN]  BY DEF TypeInv, TypeOK
    <2>2. UNCHANGED <<running, lost, pc, core, why, who>> /\ halted' = [halted EXCEPT ![c] = TRUE]
      BY <1>6 DEF Trap, Stop, rp, server, history
    <2>3. \A d \in Cores : (halted[d] => halted'[d]) /\ (Stopped(d) => Stopped(d)')
      BY <2>1, <2>2 DEF Stopped
    <2>4. QED  BY <2>2, <2>3 DEF RunInv
  <1>7. CASE Server
    BY <1>2, <1>7, AskRun, ResumeRun, PollRun, HaltRun, ConnectRun DEF Server
  <1>8. CASE Host
    BY <1>3, <1>4, <1>5, <1>8, PollRun DEF Host, SessionEnd, TargetReset
  <1>9. QED  BY <1>1, <1>6, <1>7, <1>8 DEF Next
-----------------------------------------------------------------------------
(* Breakpoints: the comparators, the table and what the host holds.        *)
Books == ArmInv /\ HeldInv /\ TableInv

LEMMA BooksKept ==
  ASSUME Books, UNCHANGED <<cmp, ram, breakpoints, held>>, tainted \subseteq tainted',
         pc \notin Asking, pc' \notin Asking,
         pc' = "connect" => pc = "connect"
  PROVE  Books'
  <1>1. ArmInv'  BY DEF Books, ArmInv, Armed, Busy, Asking, Some, Settled
  <1>2. HeldInv'  BY DEF Books, HeldInv, HeldShape, Asking
  <1>3. TableInv'  BY DEF Books, TableInv, Leaving, Positions, Asking, Settled
  <1>4. QED  BY <1>1, <1>2, <1>3 DEF Books

(* What an answer does to them.                                            *)
LEMMA AnswerFacts ==
  ASSUME NEW r \in {"ok", "no", "err"}, Answer(r)
  PROVE  /\ pc' = "idle" /\ tainted \subseteq tainted'
         /\ r = "err" => req.x \in tainted' /\ held' = held
         /\ r = "no" => held' = held
         /\ r = "ok" => held' = IF req.insert THEN held \cup {<<req.z, req.x>>}
                                            ELSE held \ {<<req.z, req.x>>}
         /\ {<<0, req.x>>, <<1, req.x>>} \subseteq held' => req.x \in tainted'
  BY DEF Answer, Done, At

LEMMA AnswerHeld ==
  ASSUME NEW r \in {"ok", "no", "err"}, Answer(r), HeldInv, req \in Requests
  PROVE  HeldInv'
  <1>1. pc' = "idle" /\ tainted \subseteq tainted' /\ held' \subseteq held \cup {<<req.z, req.x>>}
    BY AnswerFacts
  <1>2. <<req.z, req.x>> \in ({0, 1} \X (Ram \cup Rom)) \cup ({2} \X Watches)
    BY RequestFacts
  <1>3. HeldShape'  BY <1>1, <1>2 DEF HeldInv, HeldShape
  <1>4. ASSUME NEW a \in Ram \cup Rom, {<<0, a>>, <<1, a>>} \subseteq held' PROVE a \in tainted'
    <2>1. CASE a = req.x  BY <1>4, <2>1, AnswerFacts
    <2>2. CASE a # req.x
      <3>1. {<<0, a>>, <<1, a>>} \subseteq held  BY <1>1, <1>4, <2>2
      <3>2. QED  BY <1>1, <3>1 DEF HeldInv
    <2>3. QED  BY <2>1, <2>2
  <1>5. QED  BY <1>1, <1>3, <1>4 DEF HeldInv

(* An address the request is not about: nothing happens to it.             *)
LEMMA ArmedOther ==
  ASSUME ArmInv, NEW x \in Items, x # req.x, Settled(x)', tainted \subseteq tainted',
         \A c \in Cores : x \in cmp'[c] <=> x \in cmp[c],
         \A z \in 0 .. 2 : <<z, x>> \in held' <=> <<z, x>> \in held
  PROVE  Armed(x)'
  <1>1. Armed(x)  BY DEF ArmInv, Busy, Settled
  <1>2. QED  BY <1>1 DEF Armed, Some

Listed(a) ==
  /\ \A i, j \in Positions(a) : i = j
  /\ Positions(a) # {} <=> <<0, a>> \in held
  /\ a \in Ram => /\ ram[a] = "BKPT" <=> <<0, a>> \in held
                  /\ \A i \in Positions(a) : breakpoints[i].orig = "code"

LEMMA ListedOther ==
  ASSUME TableInv, NEW a \in Ram \cup Rom, a # req.x, Settled(a)', tainted \subseteq tainted',
         a \in Ram => ram'[a] = ram[a], <<0, a>> \in held' <=> <<0, a>> \in held, UNCHANGED breakpoints
  PROVE  Listed(a)'
  <1>1. Listed(a)  BY DEF TableInv, Leaving, Listed, Settled
  <1>2. QED  BY <1>1 DEF Listed, Positions

LEMMA SavedFacts ==
  ASSUME RpType, NEW b, NEW w, Saved(b, w)
  PROVE  /\ DOMAIN breakpoints = 1 .. Len(breakpoints) /\ Len(breakpoints) \in Nat
         /\ DOMAIN breakpoints' = 1 .. Len(breakpoints) + 1
         /\ \A i \in 1 .. Len(breakpoints) : breakpoints'[i] = breakpoints[i]
         /\ breakpoints'[Len(breakpoints) + 1] = [addr |-> b, orig |-> w]
  BY DEF Saved, RpType

LEMMA ListedSaved ==
  ASSUME RpType, TableInv, NEW a \in Ram \cup Rom, Settled(a)', tainted \subseteq tainted',
         NEW b, NEW w, Saved(b, w), b # a, ~Leaving(a),
         a \in Ram => ram'[a] = ram[a], <<0, a>> \in held' <=> <<0, a>> \in held
  PROVE  Listed(a)'
  <1>1. Listed(a)  BY DEF TableInv, Listed, Settled
  <1>2. /\ DOMAIN breakpoints = 1 .. Len(breakpoints) /\ DOMAIN breakpoints' = 1 .. Len(breakpoints) + 1
        /\ Len(breakpoints) \in Nat
        /\ \A i \in 1 .. Len(breakpoints) : breakpoints'[i] = breakpoints[i]
        /\ breakpoints'[Len(breakpoints) + 1] = [addr |-> b, orig |-> w]
    BY SavedFacts
  <1>3. Positions(a)' = Positions(a)  BY <1>2 DEF Positions
  <1>4. \A i \in Positions(a) : breakpoints'[i] = breakpoints[i]  BY <1>2 DEF Positions
  <1>5. QED  BY <1>1, <1>3, <1>4 DEF Listed

(* The entry that is taken out, and the ones that stay.                    *)
LEMMA RemovedPositions ==
  ASSUME RpType, NEW a, NEW i \in Positions(a), breakpoints' = SwapRemove(i),
         \A j, k \in Positions(a) : j = k
  PROVE  Positions(a)' = {}
  <1>1. /\ breakpoints \in Seq(Slot) /\ Len(breakpoints) \in Nat /\ i \in 1 .. Len(breakpoints)
        /\ DOMAIN breakpoints = 1 .. Len(breakpoints)
    BY SMTT(30) DEF RpType, Positions
  <1>2. /\ breakpoints' \in Seq(Slot) /\ Len(breakpoints') = Len(breakpoints) - 1
        /\ \A j \in 1 .. Len(breakpoints) - 1 :
             breakpoints'[j] = IF j = i THEN breakpoints[Len(breakpoints)] ELSE breakpoints[j]
    BY <1>1, SwapRemoveFacts
  <1>3. DOMAIN breakpoints' = 1 .. Len(breakpoints) - 1  BY <1>1, <1>2
  <1>4. ASSUME NEW j \in 1 .. Len(breakpoints) - 1, breakpoints'[j].addr = a PROVE FALSE
    <2>1. CASE j = i
      <3>1. breakpoints[Len(breakpoints)].addr = a  BY <1>2, <1>4, <2>1
      <3>2. Len(breakpoints) \in Positions(a)  BY <1>1, <3>1 DEF Positions
      <3>3. QED  BY <1>1, <2>1, <3>2
    <2>2. CASE j # i
      <3>1. j \in Positions(a)  BY SMTT(30), <1>1, <1>2, <1>4, <2>2 DEF Positions
      <3>2. QED  BY <2>2, <3>1
    <2>3. QED  BY <2>1, <2>2
  <1>5. QED  BY <1>3, <1>4 DEF Positions

LEMMA ListedRemoved ==
  ASSUME RpType, TableInv, NEW a \in Ram \cup Rom, Settled(a)', tainted \subseteq tainted',
         NEW b, NEW i \in Positions(b), breakpoints' = SwapRemove(i), b # a, ~Leaving(a),
         a \in Ram => ram'[a] = ram[a], <<0, a>> \in held' <=> <<0, a>> \in held
  PROVE  Listed(a)'
  <1>1. Listed(a)  BY DEF TableInv, Listed, Settled
  <1>2. /\ breakpoints \in Seq(Slot) /\ Len(breakpoints) \in Nat /\ i \in 1 .. Len(breakpoints)
        /\ DOMAIN breakpoints = 1 .. Len(breakpoints) /\ breakpoints[i].addr = b
    BY DEF RpType, Positions
  <1>3. /\ breakpoints' \in Seq(Slot) /\ Len(breakpoints') = Len(breakpoints) - 1
        /\ \A j \in 1 .. Len(breakpoints) - 1 :
             breakpoints'[j] = IF j = i THEN breakpoints[Len(breakpoints)] ELSE breakpoints[j]
    BY <1>2, SwapRemoveFacts
  <1>4. DOMAIN breakpoints' = 1 .. Len(breakpoints) - 1  BY <1>2, <1>3
  <1> DEFINE Source(j) == IF j = i THEN Len(breakpoints) ELSE j
  <1>5. ASSUME NEW j \in Positions(a)'
        PROVE  /\ Source(j) \in Positions(a) /\ breakpoints'[j] = breakpoints[Source(j)]
               /\ j \in 1 .. Len(breakpoints) - 1
    BY <1>2, <1>3, <1>4 DEF Positions
  <1>6. \A j, k \in Positions(a)' : j = k
    <2> SUFFICES ASSUME NEW j \in Positions(a)', NEW k \in Positions(a)' PROVE j = k  OBVIOUS
    <2>1. Source(j) = Source(k)  BY <1>1, <1>5 DEF Listed
    <2>2. j \in 1 .. Len(breakpoints) - 1 /\ k \in 1 .. Len(breakpoints) - 1  BY <1>5
    <2>3. QED  BY <1>2, <2>1, <2>2
  <1>7. ASSUME NEW k \in Positions(a) PROVE Positions(a)' # {}
    <2>1. k \in 1 .. Len(breakpoints) /\ breakpoints[k].addr = a /\ k # i
      BY <1>2 DEF Positions
    <2>2. CASE k = Len(breakpoints)
      <3>0. i \in 1 .. Len(breakpoints) /\ i # Len(breakpoints) /\ Len(breakpoints) \in Nat
        BY <1>2, <2>1, <2>2
      <3>1. i \in 1 .. Len(breakpoints) - 1  BY <3>0
      <3>2. i \in Positions(a)'  BY SMTT(30), <1>3, <1>4, <2>1, <2>2, <3>1 DEF Positions
      <3>3. QED  BY SMTT(30), <3>2
    <2>3. CASE k # Len(breakpoints)
      <3>0. PICK n \in Nat : n = Len(breakpoints)  BY <1>2
      <3>4. k \in 1 .. n /\ k # n  BY <2>1, <2>3, <3>0
      <3>5. k \in 1 .. n - 1  BY <3>4
      <3>1. k \in 1 .. Len(breakpoints) - 1  BY <3>0, <3>5
      <3>2. k \in Positions(a)'  BY <1>3, <1>4, <2>1, <3>1 DEF Positions
      <3>3. QED  BY <3>2
    <2>4. QED  BY <2>2, <2>3
  <1>8. Positions(a)' # {} <=> Positions(a) # {}  BY <1>5, <1>7
  <1>9. a \in Ram => \A j \in Positions(a)' : breakpoints'[j].orig = "code"
    BY <1>1, <1>5 DEF Listed
  <1>10. a \in Ram => (ram'[a] = "BKPT" <=> <<0, a>> \in held')
    BY <1>1 DEF Listed
  <1>11. Positions(a)' # {} <=> <<0, a>> \in held'  BY <1>1, <1>8 DEF Listed
  <1>12. QED  BY <1>6, <1>9, <1>10, <1>11 DEF Listed
-----------------------------------------------------------------------------
(* Every request in work, step by step. A conclusion about the address the *)
(* request is about needs it settled: a failure opens it.                  *)
LEMMA ArmDisarm ==
  ASSUME TypeInv, NEW c \in Cores, NEW y \in Items
  PROVE  /\ Arm(c, y) => \A x \in Items, d \in Cores :
                           x \in cmp'[d] <=> x \in cmp[d] \/ (x = y /\ d = c)
         /\ Disarm(c, y) => \A x \in Items, d \in Cores :
                           x # y => (x \in cmp'[d] <=> x \in cmp[d])
         /\ Disarm(c, y) /\ Copies(c, y) = {} => \A x \in Items, d \in Cores :
                           x \in cmp'[d] <=> x \in cmp[d] /\ ~(x = y /\ d = c)
         /\ Arm(c, y) \/ Disarm(c, y) => UNCHANGED ram
  <1>1. cmp \in [Cores -> SUBSET Items]  BY DEF TypeInv, TypeOK
  <1>2. QED  BY <1>1 DEF Arm, Disarm

(* All that an answer says about the comparators, once the address asked   *)
(* about has been seen to.                                                 *)
LEMMA AnsweredArms ==
  ASSUME ArmInv, NEW r \in {"ok", "no", "err"}, Answer(r), NEW y, y = req.x,
         \A x \in Items, c \in Cores : x # y => (x \in cmp'[c] <=> x \in cmp[c]),
         y \in Items /\ Settled(y)' => \A c \in Cores : y \in cmp'[c] <=> Some(y)'
  PROVE  ArmInv'
  <1>1. pc' = "idle" /\ tainted \subseteq tainted'
        /\ held \ {<<req.z, y>>} \subseteq held' /\ held' \subseteq held \cup {<<req.z, y>>}
    BY AnswerFacts
  <1>2. ASSUME NEW x \in Items, Settled(x)' PROVE Armed(x)'
    <2>1. CASE x = y  BY <1>2, <2>1 DEF Armed
    <2>2. CASE x # y
      <3>1. \A z \in 0 .. 2 : <<z, x>> \in held' <=> <<z, x>> \in held  BY <1>1, <2>2
      <3>2. QED  BY <1>1, <1>2, <2>2, <3>1, ArmedOther
    <2>3. QED  BY <2>1, <2>2
  <1>3. QED  BY <1>1, <1>2 DEF ArmInv, Busy

LEMMA AnsweredTable ==
  ASSUME TableInv, NEW r \in {"ok", "no", "err"}, Answer(r),
         \A a \in Ram \cup Rom : a # req.x /\ Settled(a)' => Listed(a)',
         \A a \in Ram \cup Rom : a = req.x /\ Settled(a)' => Listed(a)'
  PROVE  TableInv'
  <1>1. pc' = "idle"  BY AnswerFacts
  <1>2. \A a \in Ram \cup Rom : Settled(a)' => Listed(a)'  BY DEF Settled
  <1>3. QED  BY <1>1, <1>2 DEF TableInv, Leaving, Listed

(* A watchpoint that is asked for and settled is not armed on the core.    *)
LEMMA WatchFresh ==
  ASSUME Books, pc = "set", core \in Cores, req \in Requests, req.x \in Watches, Settled(req.x)
  PROVE  ~Some(req.x) /\ req.x \notin cmp[core]
  <1>1. req.z = 2 /\ req.x \notin Ram \cup Rom /\ req.x \in Items
    BY RequestFacts DEF Items
  <1>2. ~Some(req.x)
    <2>1. SUFFICES ASSUME NEW z \in 0 .. 2, <<z, req.x>> \in held PROVE FALSE  BY DEF Some
    <2>2. z = 2  BY <1>1, <2>1 DEF Books, HeldInv, HeldShape
    <2>3. QED  BY <1>1, <2>1, <2>2 DEF Books, HeldInv
  <1>3. req.x \in cmp[core] <=> core < core \/ Some(req.x)
    BY <1>1 DEF Books, ArmInv, Busy, Half
  <1>4. QED  BY <1>2, <1>3, CoreFacts

LEMMA SetBothBooks == TypeInv /\ Single /\ Books /\ SetBoth => Books'
  <1> SUFFICES ASSUME TypeInv, Single, Books, SetBoth PROVE Books'  OBVIOUS
  <1> PICK y : y = req.x  OBVIOUS
  <1>1. /\ pc = "set" /\ core \in Cores /\ req \in Requests /\ y \in Items /\ req.insert
        /\ <<req.z, y>> \notin held /\ req.z \in 0 .. 2 /\ RpType
        /\ y \notin Ram /\ Cores \subseteq Nat
    BY TypeParts, RequestFacts, CoreFacts, AddressesAssumption
    DEF SetBoth, TypeInv, Placed, Asking, Books, HeldInv, Items
  <1>2. Settled(y) => \A c \in Cores : y \in cmp[c] <=> c < core \/ Some(y)
    BY <1>1 DEF Books, ArmInv, Busy, Half
  <1>3. \A z \in 0 .. 2 : \A x : x # y => <<z, x>> # <<req.z, y>>  OBVIOUS
  <1>4. CASE Arm(core, y) /\ HasNext /\ At("set", core + 1) /\ UNCHANGED <<rp, who, why, req, any, reply, history>>
    <2>1. /\ pc' = "set" /\ core' = core + 1 /\ req' = req /\ held' = held /\ tainted' = tainted
          /\ breakpoints' = breakpoints /\ ram' = ram
      BY <1>4 DEF At, history, rp, Arm
    <2>2. HeldInv'  BY <1>1, <2>1 DEF Books, HeldInv, HeldShape
    <2>3. TableInv'  BY <1>1, <2>1 DEF Books, TableInv, Leaving, Positions, Settled
    <2>4. \A x \in Items, c \in Cores : x \in cmp'[c] <=> x \in cmp[c] \/ (x = y /\ c = core)
      BY <1>1, <1>4, ArmDisarm
    <2>5. ASSUME NEW x \in Items, Settled(x)' PROVE IF Busy(x)' THEN Half(x)' ELSE Armed(x)'
      <3>1. CASE x = y
        <4>1. \A c \in Cores : c < core + 1 <=> c < core \/ c = core  BY <1>1
        <4>2. \A c \in Cores : x \in cmp'[c] <=> c < core' \/ Some(x)'
          BY <1>2, <2>1, <2>4, <2>5, <3>1, <4>1 DEF Some, Settled
        <4>3. Half(x)'  BY <2>1, <4>2 DEF Half
        <4>4. Busy(x)'  BY <2>1, <3>1 DEF Busy
        <4>5. QED  BY <4>3, <4>4
      <3>2. CASE x # y
        <4>1. Armed(x)'  BY <2>1, <2>4, <2>5, <3>2, ArmedOther DEF Books
        <4>2. QED  BY <2>1, <3>2, <4>1 DEF Busy
      <3>3. QED  BY <3>1, <3>2
    <2>6. QED  BY <2>2, <2>3, <2>5 DEF Books, ArmInv
  <1>5. CASE /\ Arm(core, y) /\ ~HasNext /\ Answer("ok")
             /\ IF IsPromoted THEN Saved(y, "Fpb") ELSE UNCHANGED breakpoints
    <2>1. /\ pc' = "idle" /\ tainted \subseteq tainted' /\ held' = held \cup {<<req.z, y>>} /\ ram' = ram
      BY <1>1, <1>5, AnswerFacts DEF Arm
    <2>2. HeldInv'  BY <1>1, <1>5, AnswerHeld DEF Books
    <2>3. \A x \in Items, c \in Cores : x \in cmp'[c] <=> x \in cmp[c] \/ (x = y /\ c = core)
      BY <1>1, <1>5, ArmDisarm
    <2>4. ArmInv'
      <3>1. Some(y)'  BY <1>1, <2>1 DEF Some
      <3>2. \A c \in Cores : c < core \/ c = core
        BY <1>1, <1>5, CoreFacts DEF HasNext
      <3>3. Settled(y)' => \A c \in Cores : y \in cmp'[c]
        BY <1>1, <1>2, <2>1, <2>3, <3>2 DEF Settled
      <3>4. QED  BY <1>1, <1>5, <2>3, <3>1, <3>3, AnsweredArms DEF Books
    <2>5. TableInv'
      <3>1. ASSUME NEW a \in Ram \cup Rom, a # y, Settled(a)' PROVE Listed(a)'
        <4>1. <<0, a>> \in held' <=> <<0, a>> \in held  BY <2>1, <3>1
        <4>2. ~Leaving(a)  BY <3>1 DEF Leaving
        <4>3. QED
          BY <1>1, <1>5, <2>1, <3>1, <4>1, <4>2, ListedOther, ListedSaved DEF Books
      <3>2. ASSUME NEW a \in Ram \cup Rom, a = y, Settled(a)' PROVE Listed(a)'
        <4>1. Listed(a)
          BY <1>1, <2>1, <3>2 DEF Books, TableInv, Leaving, Listed, Settled
        <4>2. CASE IsPromoted
          <5>1. Positions(a) = {}  BY <1>1, <3>2, <4>1, <4>2 DEF Listed, IsPromoted
          <5>2. /\ DOMAIN breakpoints = 1 .. Len(breakpoints) /\ Len(breakpoints) \in Nat
                /\ DOMAIN breakpoints' = 1 .. Len(breakpoints) + 1
                /\ \A i \in 1 .. Len(breakpoints) : breakpoints'[i] = breakpoints[i]
                /\ breakpoints'[Len(breakpoints) + 1] = [addr |-> y, orig |-> "Fpb"]
            BY <1>1, <1>5, <4>2, SavedFacts
          <5>3. Positions(a)' = {Len(breakpoints) + 1}  BY <3>2, <5>1, <5>2 DEF Positions
          <5>4. <<0, a>> \in held'  BY <2>1, <3>2, <4>2 DEF IsPromoted
          <5>5. QED  BY <1>1, <3>2, <5>3, <5>4 DEF Listed
        <4>3. CASE ~IsPromoted
          <5>1. <<0, a>> \in held' <=> <<0, a>> \in held  BY <2>1, <4>3 DEF IsPromoted
          <5>2. UNCHANGED breakpoints  BY <1>5, <4>3
          <5>3. QED  BY <2>1, <4>1, <5>1, <5>2 DEF Listed, Positions
        <4>4. QED  BY <4>2, <4>3
      <3>3. QED  BY <1>5, <3>1, <3>2, AnsweredTable DEF Books
    <2>6. QED  BY <2>2, <2>4, <2>5 DEF Books
  <1>6. CASE ~Room(core, y) /\ Refused
    <2>1. UNCHANGED <<cmp, ram, breakpoints>>
      BY <1>6 DEF Refused, Keep, target, Quiet, rp
    <2>2. Settled(y) => ~Some(y) /\ y \notin cmp[core]
      <3>1. CASE y \in Rom  BY <1>1, <1>2, <1>6, <3>1 DEF Room
      <3>2. CASE y \in Watches  BY <1>1, <1>2, <3>2, WatchFresh
      <3>3. QED  BY <1>1, <3>1, <3>2 DEF Items
    <2>3. CASE core = 1 /\ At("rollback", 0) /\ UNCHANGED <<who, why, req, any, reply, history>>
      <3>1. pc' = "rollback" /\ req' = req /\ held' = held /\ tainted' = tainted
        BY <2>3 DEF At, history
      <3>2. HeldInv'  BY <1>1, <3>1 DEF Books, HeldInv, HeldShape
      <3>3. TableInv'  BY <1>1, <2>1, <3>1 DEF Books, TableInv, Leaving, Positions, Settled
      <3>4. Settled(y) => \A c \in Cores : c # 0 => y \notin cmp[c]
        BY <2>2, <2>3, CoreFacts
      <3>5. ASSUME NEW x \in Items, Settled(x)' PROVE IF Busy(x)' THEN Half(x)' ELSE Armed(x)'
        <4>1. CASE x = y
          <5>1. ~Some(x)' /\ \A c \in Cores : c # 0 => x \notin cmp'[c]
            BY <2>1, <2>2, <3>1, <3>4, <3>5, <4>1 DEF Settled, Some
          <5>2. Half(x)'  BY <3>1, <5>1 DEF Half
          <5>3. QED  BY <3>1, <4>1, <5>2 DEF Busy
        <4>2. CASE x # y
          <5>1. Armed(x)'  BY <2>1, <3>1, <3>5, <4>2, ArmedOther DEF Books
          <5>2. QED  BY <3>1, <4>2, <5>1 DEF Busy
        <4>3. QED  BY <4>1, <4>2
      <3>6. QED  BY <3>2, <3>3, <3>5 DEF Books, ArmInv
    <2>4. CASE core # 1 /\ Answer("no")
      <3>1. core = 0  BY <1>1, <2>4, CoreFacts
      <3>2. held' = held /\ tainted \subseteq tainted'  BY <2>4, AnswerFacts
      <3>3. HeldInv'  BY <1>1, <2>4, AnswerHeld DEF Books
      <3>4. Settled(y)' => \A c \in Cores : y \in cmp'[c] <=> Some(y)'
        BY <1>1, <1>2, <2>1, <2>2, <3>1, <3>2 DEF Settled, Some
      <3>5. ArmInv'  BY <1>1, <2>1, <2>4, <3>4, AnsweredArms DEF Books
      <3>6. \A a \in Ram \cup Rom : Settled(a)' => Listed(a)'
        BY <1>1, <2>1, <3>2 DEF Books, TableInv, Leaving, Listed, Positions, Settled
      <3>7. TableInv'  BY <2>4, <3>6, AnsweredTable DEF Books
      <3>8. QED  BY <3>3, <3>5, <3>7 DEF Books
    <2>5. QED  BY <1>6, <2>3, <2>4 DEF Refused
  <1>7. CASE Answer("err") /\ Quiet /\ (Keep \/ Arm(core, y))
    <2>1. /\ y \in tainted' /\ held' = held /\ tainted \subseteq tainted'
      BY <1>7, AnswerFacts
    <2>2. \A x \in Items, c \in Cores : x # y => (x \in cmp'[c] <=> x \in cmp[c])
      BY <1>1, <1>7, ArmDisarm DEF Keep, target
    <2>3. UNCHANGED <<ram, breakpoints>>
      BY <1>7 DEF Keep, target, Arm, Quiet, rp
    <2>4. HeldInv'  BY <1>1, <1>7, AnswerHeld DEF Books
    <2>5. ~Settled(y)'  BY <2>1 DEF Settled
    <2>6. ArmInv'  BY <1>1, <1>7, <2>2, <2>5, AnsweredArms DEF Books
    <2>7. \A a \in Ram \cup Rom : Settled(a)' => Listed(a)'
      BY <1>1, <2>1, <2>3 DEF Books, TableInv, Leaving, Listed, Positions, Settled
    <2>8. TableInv'  BY <1>7, <2>7, AnsweredTable DEF Books
    <2>9. QED  BY <2>4, <2>6, <2>8 DEF Books
  <1>8. QED  BY <1>4, <1>5, <1>6, <1>7 DEF SetBoth

LEMMA RollBackBooks == TypeInv /\ Single /\ Books /\ RollBack => Books'
  <1> SUFFICES ASSUME TypeInv, Single, Books, RollBack PROVE Books'  OBVIOUS
  <1> PICK y : y = req.x  OBVIOUS
  <1>1. /\ pc = "rollback" /\ req \in Requests /\ y \in Items /\ 0 \in Cores /\ req.insert
    BY CoreFacts DEF RollBack, TypeInv, Placed, Asking
  <1>2. Settled(y) => ~Some(y) /\ \A c \in Cores : c # 0 => y \notin cmp[c]
    BY <1>1 DEF Books, ArmInv, Busy, Half
  <1>3. /\ \A x \in Items, c \in Cores : x # y => (x \in cmp'[c] <=> x \in cmp[c])
        /\ UNCHANGED <<ram, breakpoints>>
    <2>1. Keep \/ Disarm(0, y)  BY DEF RollBack
    <2>2. UNCHANGED breakpoints  BY DEF RollBack, Quiet, rp
    <2>3. QED  BY <1>1, <2>1, <2>2, ArmDisarm DEF Keep, target
  <1>4. CASE Disarm(0, y) /\ Answer("no")
    <2>1. held' = held /\ tainted \subseteq tainted'  BY <1>4, AnswerFacts
    <2>2. HeldInv'  BY <1>1, <1>4, AnswerHeld DEF Books
    <2>3. Settled(y) => \A c \in Cores : y \in cmp'[c] <=> y \in cmp[c] /\ c # 0
      BY <1>1, <1>4, ArmDisarm DEF Single
    <2>4. Settled(y)' => \A c \in Cores : y \in cmp'[c] <=> Some(y)'
      BY <1>2, <2>1, <2>3 DEF Settled, Some
    <2>5. ArmInv'  BY <1>3, <1>4, <2>4, AnsweredArms DEF Books
    <2>6. \A a \in Ram \cup Rom : Settled(a)' => Listed(a)'
      BY <1>1, <1>3, <2>1 DEF Books, TableInv, Leaving, Listed, Positions, Settled
    <2>7. TableInv'  BY <1>4, <2>6, AnsweredTable DEF Books
    <2>8. QED  BY <2>2, <2>5, <2>7 DEF Books
  <1>5. CASE Done([kind |-> "no", core |-> NoCore]) /\ tainted' = tainted \cup {y} /\ UNCHANGED held
    <2>1. pc' = "idle" /\ y \in tainted' /\ tainted \subseteq tainted'  BY <1>5 DEF Done, At
    <2>2. HeldInv'  BY <1>5, <2>1 DEF Books, HeldInv, HeldShape
    <2>3. ASSUME NEW x \in Items, Settled(x)' PROVE Armed(x)'
      <3>1. x # y  BY <2>1, <2>3 DEF Settled
      <3>2. QED  BY <1>3, <1>5, <2>1, <2>3, <3>1, ArmedOther DEF Books
    <2>4. ArmInv'  BY <2>1, <2>3 DEF ArmInv, Busy
    <2>5. TableInv'
      BY <1>1, <1>3, <1>5, <2>1 DEF Books, TableInv, Leaving, Positions, Settled
    <2>6. QED  BY <2>2, <2>4, <2>5 DEF Books
  <1>6. QED  BY <1>4, <1>5 DEF RollBack

LEMMA ClearBothBooks == TypeInv /\ Single /\ Books /\ ClearBoth => Books'
  <1> SUFFICES ASSUME TypeInv, Single, Books, ClearBoth PROVE Books'  OBVIOUS
  <1> PICK y : y = req.x  OBVIOUS
  <1>1. /\ pc = "clear" /\ core \in Cores /\ req \in Requests /\ y \in Items /\ ~req.insert
        /\ <<req.z, y>> \in held /\ req.z \in 0 .. 2 /\ (req.z = 0 => y \in Rom)
        /\ Cores \subseteq Nat /\ y \notin Ram
    BY RequestFacts, CoreFacts, AddressesAssumption
    DEF ClearBoth, TypeInv, Placed, Asking, Books, HeldInv, Items
  <1>2. Settled(y) => \A c \in Cores : y \in cmp[c] <=> core <= c
    BY <1>1 DEF Books, ArmInv, Busy, Half
  <1>3. /\ \A x \in Items, c \in Cores : x # y => (x \in cmp'[c] <=> x \in cmp[c])
        /\ UNCHANGED <<ram, breakpoints>>
    <2>1. Keep \/ Disarm(core, y)  BY DEF ClearBoth
    <2>2. UNCHANGED breakpoints  BY DEF ClearBoth, Quiet, rp
    <2>3. QED  BY <1>1, <2>1, <2>2, ArmDisarm DEF Keep, target
  <1>4. Settled(y) /\ Disarm(core, y) => \A c \in Cores : y \in cmp'[c] <=> y \in cmp[c] /\ c # core
    BY <1>1, ArmDisarm DEF Single
  <1>5. CASE Disarm(core, y) /\ HasNext /\ At("clear", core + 1) /\ UNCHANGED <<who, why, req, reply, history>>
    <2>1. pc' = "clear" /\ core' = core + 1 /\ req' = req /\ held' = held /\ tainted' = tainted
      BY <1>5 DEF At, history
    <2>2. HeldInv'  BY <1>1, <2>1 DEF Books, HeldInv, HeldShape
    <2>3. TableInv'  BY <1>1, <1>3, <2>1 DEF Books, TableInv, Leaving, Positions, Settled
    <2>4. ASSUME NEW x \in Items, Settled(x)' PROVE IF Busy(x)' THEN Half(x)' ELSE Armed(x)'
      <3>1. CASE x = y
        <4>1. \A c \in Cores : core + 1 <= c <=> core <= c /\ c # core  BY <1>1
        <4>2. \A c \in Cores : x \in cmp'[c] <=> core' <= c
          BY <1>2, <1>4, <1>5, <2>1, <2>4, <3>1, <4>1 DEF Settled
        <4>3. Half(x)'  BY <2>1, <4>2 DEF Half
        <4>4. QED  BY <2>1, <3>1, <4>3 DEF Busy
      <3>2. CASE x # y
        <4>1. Armed(x)'  BY <1>3, <2>1, <2>4, <3>2, ArmedOther DEF Books
        <4>2. QED  BY <2>1, <3>2, <4>1 DEF Busy
      <3>3. QED  BY <3>1, <3>2
    <2>5. QED  BY <2>2, <2>3, <2>4 DEF Books, ArmInv
  <1>6. CASE Disarm(core, y) /\ ~HasNext /\ Answer(IF Found THEN "ok" ELSE "no")
    <2>1. PICK r \in {"ok", "no"} : Answer(r) /\ (Found => r = "ok")  BY <1>6
    <2>2. /\ pc' = "idle" /\ tainted \subseteq tainted'
          /\ \A z : \A x : x # y => (<<z, x>> \in held' <=> <<z, x>> \in held)
          /\ r = "ok" => held' = held \ {<<req.z, y>>}
      BY <1>1, <2>1, AnswerFacts
    <2>3. HeldInv'  BY <1>1, <2>1, AnswerHeld DEF Books
    <2>4. Settled(y) => r = "ok"  BY <1>1, <1>2, <2>1 DEF Found
    <2>5. Settled(y)' => ~Some(y)'
      <3>1. SUFFICES ASSUME Settled(y)', NEW z \in 0 .. 2, <<z, y>> \in held' PROVE FALSE
        BY DEF Some
      <3>2. y \notin tainted /\ r = "ok"  BY <2>2, <2>4, <3>1 DEF Settled
      <3>3. z # req.z /\ <<z, y>> \in held  BY <2>2, <3>1, <3>2
      <3>4. (z = 2 <=> y \in Watches) /\ (req.z = 2 <=> y \in Watches)
        BY <1>1, <3>3, RequestFacts, AddressesAssumption DEF Books, HeldInv, HeldShape
      <3>5. {<<0, y>>, <<1, y>>} \subseteq held /\ y \in Ram \cup Rom
        BY <1>1, <3>3, <3>4 DEF Items
      <3>6. QED  BY <3>2, <3>5 DEF Books, HeldInv
    <2>6. \A c \in Cores : core <= c /\ c # core => FALSE
      <3>1. \A c \in Cores : c <= core  BY <1>1, <1>6, CoreFacts DEF HasNext
      <3>2. QED  BY <1>1, <3>1
    <2>7. Settled(y)' => \A c \in Cores : y \notin cmp'[c]
      BY <1>2, <1>4, <1>6, <2>2, <2>6 DEF Settled
    <2>8. ArmInv'  BY <1>3, <2>1, <2>5, <2>7, AnsweredArms DEF Books
    <2>9. ASSUME NEW a \in Ram \cup Rom, a # y, Settled(a)' PROVE Listed(a)'
      BY <1>3, <2>2, <2>9, ListedOther DEF Books
    <2>10. ASSUME NEW a \in Ram \cup Rom, a = y, Settled(a)' PROVE Listed(a)'
      <3>1. /\ \A i, j \in Positions(a) : i = j
            /\ Positions(a) # {} <=> <<0, a>> \in held /\ ~Leaving(a)
        BY <2>2, <2>10 DEF Books, TableInv, Settled
      <3>2. ~Some(a)' /\ held' = held \ {<<req.z, y>>}  BY <2>2, <2>4, <2>5, <2>10 DEF Settled
      <3>3. <<0, a>> \notin held'  BY <3>2 DEF Some
      <3>4. Positions(a) = {}
        BY <1>1, <2>10, <3>1, <3>2, <3>3 DEF Leaving
      <3>5. Positions(a)' = {}  BY <1>3, <3>4 DEF Positions
      <3>6. QED  BY <1>1, <2>10, <3>3, <3>5 DEF Listed
    <2>11. TableInv'  BY <2>1, <2>9, <2>10, AnsweredTable DEF Books
    <2>12. QED  BY <2>3, <2>8, <2>11 DEF Books
  <1>7. CASE Answer("err")
    <2>1. /\ y \in tainted' /\ held' = held /\ tainted \subseteq tainted' /\ pc' = "idle"
      BY <1>7, AnswerFacts
    <2>2. ~Settled(y)'  BY <2>1 DEF Settled
    <2>3. HeldInv'  BY <1>1, <1>7, AnswerHeld DEF Books
    <2>4. ArmInv'  BY <1>3, <1>7, <2>2, AnsweredArms DEF Books
    <2>5. ASSUME NEW a \in Ram \cup Rom, a # y, Settled(a)' PROVE Listed(a)'
      BY <1>3, <2>1, <2>5, ListedOther DEF Books
    <2>6. TableInv'  BY <1>7, <2>2, <2>5, AnsweredTable DEF Books
    <2>7. QED  BY <2>3, <2>4, <2>6 DEF Books
  <1>8. QED  BY <1>5, <1>6, <1>7 DEF ClearBoth

(* An answer that comes with no change of a comparator an address of Items *)
(* is in.                                                                  *)
LEMMA AnsweredStill ==
  ASSUME ArmInv, NEW r \in {"ok", "no", "err"}, Answer(r), ~(pc \in {"set", "rollback", "clear"}),
         UNCHANGED cmp,
         r = "ok" => req.x \notin Items
  PROVE  ArmInv'
  <1> PICK y : y = req.x  OBVIOUS
  <1>1. tainted \subseteq tainted' /\ (r # "ok" => held' = held)  BY AnswerFacts
  <1>2. y \in Items /\ Settled(y)' => \A c \in Cores : y \in cmp'[c] <=> Some(y)'
    BY <1>1 DEF ArmInv, Busy, Armed, Settled, Some
  <1>3. QED  BY <1>2, AnsweredArms

LEMMA AddRamBooks == TypeInv /\ Books /\ AddRam => Books'
  <1> SUFFICES ASSUME TypeInv, Books, AddRam PROVE Books'  OBVIOUS
  <1> PICK y : y = req.x  OBVIOUS
  <1>1. /\ pc = "patch" /\ req \in Requests /\ y \in Ram /\ req.insert /\ req.z = 0
        /\ <<0, y>> \notin held /\ y \notin Items /\ ram \in [Ram -> {"code", "BKPT"}] /\ RpType
    BY TypeParts, AddressesAssumption
    DEF AddRam, TypeInv, TypeOK, Placed, Asking, Books, HeldInv, Items
  <1>2. UNCHANGED cmp /\ \A a \in Ram : a # y => ram'[a] = ram[a]
    BY <1>1 DEF AddRam, Patch, Keep, target
  <1>3. CASE Patch(y, "BKPT") /\ Saved(y, ram[y]) /\ Answer("ok")
    <2>1. /\ held' = held \cup {<<0, y>>} /\ tainted \subseteq tainted'
      BY <1>1, <1>3, AnswerFacts
    <2>2. HeldInv'  BY <1>1, <1>3, AnswerHeld DEF Books
    <2>3. ArmInv'  BY <1>1, <1>2, <1>3, AnsweredStill DEF Books
    <2>4. ASSUME NEW a \in Ram \cup Rom, a # y, Settled(a)' PROVE Listed(a)'
      <3>1. a \in Ram => ram'[a] = ram[a]
        BY <1>1, <1>3, <2>4 DEF Patch
      <3>2. <<0, a>> \in held' <=> <<0, a>> \in held  BY <2>1, <2>4
      <3>3. ~Leaving(a)  BY <1>1 DEF Leaving
      <3>4. QED  BY <1>1, <1>3, <2>1, <2>4, <3>1, <3>2, <3>3, ListedSaved DEF Books
    <2>5. ASSUME NEW a \in Ram \cup Rom, a = y, Settled(a)' PROVE Listed(a)'
      <3>1. Listed(a)  BY <1>1, <2>1, <2>5 DEF Books, TableInv, Leaving, Listed, Settled
      <3>2. Positions(a) = {} /\ ram[a] = "code"
        BY <1>1, <2>5, <3>1 DEF Listed
      <3>3. /\ DOMAIN breakpoints = 1 .. Len(breakpoints) /\ Len(breakpoints) \in Nat
            /\ DOMAIN breakpoints' = 1 .. Len(breakpoints) + 1
            /\ \A i \in 1 .. Len(breakpoints) : breakpoints'[i] = breakpoints[i]
            /\ breakpoints'[Len(breakpoints) + 1] = [addr |-> y, orig |-> ram[y]]
        BY <1>1, <1>3, SavedFacts
      <3>4. Positions(a)' = {Len(breakpoints) + 1}  BY <2>5, <3>2, <3>3 DEF Positions
      <3>5. ram'[a] = "BKPT" /\ <<0, a>> \in held'  BY <1>1, <1>3, <2>1, <2>5 DEF Patch
      <3>6. breakpoints'[Len(breakpoints) + 1].orig = "code"  BY <2>5, <3>2, <3>3
      <3>7. QED  BY <3>4, <3>5, <3>6 DEF Listed
    <2>6. TableInv'  BY <1>3, <2>4, <2>5, AnsweredTable DEF Books
    <2>7. QED  BY <2>2, <2>3, <2>6 DEF Books
  <1>4. CASE Answer("err") /\ UNCHANGED breakpoints
    <2>1. y \in tainted' /\ held' = held /\ tainted \subseteq tainted'
      BY <1>4, AnswerFacts
    <2>2. HeldInv'  BY <1>1, <1>4, AnswerHeld DEF Books
    <2>3. ArmInv'  BY <1>1, <1>2, <1>4, AnsweredStill DEF Books
    <2>4. ASSUME NEW a \in Ram \cup Rom, a # y, Settled(a)' PROVE Listed(a)'
      <3>1. a \in Ram => ram'[a] = ram[a]
        BY <1>1, <2>4 DEF AddRam, Patch, Keep, target
      <3>2. QED  BY <1>4, <2>1, <2>4, <3>1, ListedOther DEF Books
    <2>5. ~Settled(y)'  BY <2>1 DEF Settled
    <2>6. TableInv'  BY <1>4, <2>4, <2>5, AnsweredTable DEF Books
    <2>7. QED  BY <2>2, <2>3, <2>6 DEF Books
  <1>5. QED  BY <1>3, <1>4 DEF AddRam

LEMMA RemoveSwBooks == TypeInv /\ Books /\ RemoveSw => Books'
  <1> SUFFICES ASSUME TypeInv, Books, RemoveSw PROVE Books'  OBVIOUS
  <1> PICK y : y = req.x  OBVIOUS
  <1>1. /\ pc = "remove" /\ req \in Requests /\ y \in Ram \cup Rom /\ ~req.insert /\ req.z = 0
        /\ <<0, y>> \in held /\ ram \in [Ram -> {"code", "BKPT"}] /\ RpType
        /\ (y \in Ram => y \notin Items /\ y \notin Rom) /\ (y \in Rom => y \in Items)
    <2>1. /\ pc = "remove" /\ req \in Requests /\ ~req.insert /\ req.z = 0
          /\ <<0, y>> \in held /\ ram \in [Ram -> {"code", "BKPT"}] /\ RpType
      BY TypeParts DEF RemoveSw, TypeInv, TypeOK, Placed, Asking, Books, HeldInv
    <2>2. y \in Ram \cup Rom  BY <2>1, RequestFacts
    <2>3. (y \in Ram => y \notin Items /\ y \notin Rom) /\ (y \in Rom => y \in Items)
      BY AddressesAssumption DEF Items
    <2>4. QED  BY <2>1, <2>2, <2>3
  <1>2. Settled(y) => Listed(y) /\ Positions(y) # {}
    BY <1>1 DEF Books, TableInv, Leaving, Listed, Settled
  <1>3. CASE Positions(y) = {} /\ Keep /\ Quiet /\ Answer("no")
    <2>1. held' = held /\ tainted \subseteq tainted' /\ UNCHANGED <<cmp, ram, breakpoints>>
      BY <1>3, AnswerFacts DEF Keep, target, Quiet, rp
    <2>2. HeldInv'  BY <1>1, <1>3, AnswerHeld DEF Books
    <2>3. ArmInv'  BY <1>1, <1>3, <2>1, AnsweredStill DEF Books
    <2>4. ASSUME NEW a \in Ram \cup Rom, a # y, Settled(a)' PROVE Listed(a)'
      BY <2>1, <2>4, ListedOther DEF Books
    <2>5. ~Settled(y)'  BY <1>2, <1>3, <2>1 DEF Settled
    <2>6. TableInv'  BY <1>3, <2>4, <2>5, AnsweredTable DEF Books
    <2>7. QED  BY <2>2, <2>3, <2>6 DEF Books
  <1>4. CASE Positions(y) # {}
    <2>1. PICK i : i = First(y)  OBVIOUS
    <2>2. PICK old : old = breakpoints[i].orig  OBVIOUS
    <2>3. i \in Positions(y) /\ i \in 1 .. Len(breakpoints) /\ breakpoints[i].addr = y
      BY <1>1, <1>4, <2>1, FirstFacts DEF RpType
    <2>4. breakpoints' = SwapRemove(i)
      BY <1>4, <2>1 DEF RemoveSw
    <2>5. y \in Rom <=> old = "Fpb"
      BY <1>1, <2>2, <2>3 DEF RpType, Tagged
    <2>6. Settled(y) => Positions(y)' = {}
      BY <1>1, <1>2, <2>3, <2>4, RemovedPositions DEF Listed
    <2>7. CASE old = "Fpb" /\ Keep /\ At("clear", 0) /\ UNCHANGED <<who, why, req, any, reply, history>>
      <3>1. /\ pc' = "clear" /\ core' = 0 /\ req' = req /\ held' = held /\ tainted' = tainted
            /\ UNCHANGED <<cmp, ram>>
        BY <2>7 DEF At, history, Keep, target
      <3>2. HeldInv'  BY <1>1, <3>1 DEF Books, HeldInv, HeldShape
      <3>3. ASSUME NEW x \in Items, Settled(x)' PROVE IF Busy(x)' THEN Half(x)' ELSE Armed(x)'
        <4>1. Armed(x)  BY <1>1, <3>1, <3>3 DEF Books, ArmInv, Busy, Settled
        <4>2. CASE x = y
          <5>1. Some(x)  BY <1>1, <4>2 DEF Some
          <5>2. \A c \in Cores : 0 <= c  BY CoreFacts
          <5>3. \A c \in Cores : x \in cmp'[c] <=> core' <= c
            BY <3>1, <4>1, <5>1, <5>2 DEF Armed
          <5>4. Half(x)'  BY <3>1, <5>3 DEF Half
          <5>5. QED  BY <3>1, <4>2, <5>4 DEF Busy
        <4>3. CASE x # y
          <5>1. Armed(x)'  BY <3>1, <4>1 DEF Armed, Some
          <5>2. QED  BY <3>1, <4>3, <5>1 DEF Busy
        <4>4. QED  BY <4>2, <4>3
      <3>4. ASSUME NEW a \in Ram \cup Rom, a # y, Settled(a)' PROVE Listed(a)' /\ ~Leaving(a)'
        <4>1. ~Leaving(a)  BY <1>1 DEF Leaving
        <4>2. Listed(a)'  BY <1>1, <2>3, <2>4, <3>1, <3>4, <4>1, ListedRemoved DEF Books
        <4>3. ~Leaving(a)'  BY <3>1, <3>4 DEF Leaving
        <4>4. QED  BY <4>2, <4>3
      <3>5. ASSUME NEW a \in Ram \cup Rom, a = y, Settled(a)'
            PROVE  Positions(a)' = {} /\ Leaving(a)' /\ a \notin Ram
        BY <1>1, <2>5, <2>6, <2>7, <3>1, <3>5 DEF Leaving, Settled
      <3>6. TableInv'
        <4>1. SUFFICES ASSUME NEW a \in Ram \cup Rom, Settled(a)'
              PROVE  /\ \A j, k \in Positions(a)' : j = k
                     /\ Positions(a)' # {} <=> <<0, a>> \in held' /\ ~Leaving(a)'
                     /\ a \in Ram => /\ ram'[a] = "BKPT" <=> <<0, a>> \in held'
                                     /\ \A j \in Positions(a)' : breakpoints'[j].orig = "code"
          BY DEF TableInv
        <4>2. CASE a = y
          <5>1. Positions(a)' = {} /\ Leaving(a)' /\ a \notin Ram  BY <3>5, <4>1, <4>2
          <5>2. QED  BY <5>1
        <4>3. CASE a # y
          <5>1. Listed(a)' /\ ~Leaving(a)'  BY <3>4, <4>1, <4>3
          <5>2. QED  BY <5>1 DEF Listed
        <4>4. QED  BY <4>2, <4>3
      <3>7. QED  BY <3>2, <3>3, <3>6 DEF Books, ArmInv
    <2>8. CASE old # "Fpb" /\ Patch(y, old) /\ Answer("ok")
      <3>1. /\ held' = held \ {<<0, y>>} /\ tainted \subseteq tainted' /\ UNCHANGED cmp
            /\ y \in Ram /\ y \notin Items
        BY <1>1, <2>5, <2>8, AnswerFacts DEF Patch
      <3>2. HeldInv'  BY <1>1, <2>8, AnswerHeld DEF Books
      <3>3. ArmInv'  BY <1>1, <2>8, <3>1, AnsweredStill DEF Books
      <3>4. ASSUME NEW a \in Ram \cup Rom, a # y, Settled(a)' PROVE Listed(a)'
        <4>1. a \in Ram => ram'[a] = ram[a]  BY <1>1, <2>8, <3>4 DEF Patch
        <4>2. <<0, a>> \in held' <=> <<0, a>> \in held  BY <3>1, <3>4
        <4>3. ~Leaving(a)  BY <1>1 DEF Leaving
        <4>4. QED  BY <1>1, <2>3, <2>4, <3>1, <3>4, <4>1, <4>2, <4>3, ListedRemoved DEF Books
      <3>5. ASSUME NEW a \in Ram \cup Rom, a = y, Settled(a)' PROVE Listed(a)'
        <4>1. Settled(y)  BY <3>1, <3>5 DEF Settled
        <4>2. old = "code"
          BY <1>2, <2>2, <2>3, <3>1, <4>1 DEF Listed
        <4>3. Positions(a)' = {}  BY <2>6, <3>5, <4>1
        <4>4. ram'[a] = "code" /\ <<0, a>> \notin held'
          BY <1>1, <2>8, <3>1, <3>5, <4>2 DEF Patch
        <4>5. QED  BY <4>3, <4>4 DEF Listed
      <3>6. TableInv'  BY <2>8, <3>4, <3>5, AnsweredTable DEF Books
      <3>7. QED  BY <3>2, <3>3, <3>6 DEF Books
    <2>9. CASE old # "Fpb" /\ (Keep \/ Patch(y, old)) /\ Answer("err")
      <3>1. /\ y \in tainted' /\ held' = held /\ tainted \subseteq tainted' /\ UNCHANGED cmp
        BY <2>9, AnswerFacts DEF Keep, target, Patch
      <3>2. HeldInv'  BY <1>1, <2>9, AnswerHeld DEF Books
      <3>3. ArmInv'  BY <1>1, <2>9, <3>1, AnsweredStill DEF Books
      <3>4. ASSUME NEW a \in Ram \cup Rom, a # y, Settled(a)' PROVE Listed(a)'
        <4>1. a \in Ram => ram'[a] = ram[a]  BY <1>1, <2>9, <3>4 DEF Keep, target, Patch
        <4>2. ~Leaving(a)  BY <1>1 DEF Leaving
        <4>3. QED  BY <1>1, <2>3, <2>4, <3>1, <3>4, <4>1, <4>2, ListedRemoved DEF Books
      <3>5. ~Settled(y)'  BY <3>1 DEF Settled
      <3>6. TableInv'  BY <2>9, <3>4, <3>5, AnsweredTable DEF Books
      <3>7. QED  BY <3>2, <3>3, <3>6 DEF Books
    <2>10. \/ old = "Fpb" /\ Keep /\ At("clear", 0) /\ UNCHANGED <<who, why, req, any, reply, history>>
           \/ old # "Fpb" /\ Patch(y, old) /\ Answer("ok")
           \/ old # "Fpb" /\ (Keep \/ Patch(y, old)) /\ Answer("err")
      BY <1>4, <2>1, <2>2 DEF RemoveSw
    <2>11. QED  BY <2>7, <2>8, <2>9, <2>10
  <1>5. QED  BY <1>3, <1>4 DEF RemoveSw

LEMMA RefuseBooks == TypeInv /\ Books /\ Refuse => Books'
  <1> SUFFICES ASSUME TypeInv, Books, Refuse PROVE Books'  OBVIOUS
  <1>1. /\ pc = "refuse" /\ req \in Requests /\ Answer("no")
        /\ UNCHANGED <<cmp, ram, breakpoints>>
    BY DEF Refuse, Keep, target, Quiet, rp, TypeInv, Placed, Asking
  <1>2. held' = held /\ tainted \subseteq tainted'  BY <1>1, AnswerFacts
  <1>3. HeldInv'  BY <1>1, AnswerHeld DEF Books
  <1>4. ArmInv'  BY <1>1, AnsweredStill DEF Books
  <1>5. \A a \in Ram \cup Rom : Settled(a)' => Listed(a)'
    BY <1>1, <1>2 DEF Books, TableInv, Leaving, Listed, Positions, Settled
  <1>6. TableInv'  BY <1>1, <1>5, AnsweredTable DEF Books
  <1>7. QED  BY <1>3, <1>4, <1>6 DEF Books

LEMMA RequestBooks == ASSUME TypeInv, Books, NEW r \in Requests, Request(r) PROVE Books'
  <1>1. /\ pc = "idle" /\ pc' = Entry(r) /\ req' = r /\ core' = 0 /\ held' = held /\ tainted' = tainted
        /\ UNCHANGED <<cmp, ram, breakpoints>>
        /\ r.insert <=> <<r.z, r.x>> \notin held
    BY DEF Request, At, target, rp, history
  <1>2. /\ Entry(r) \in Asking /\ Entry(r) # "rollback" /\ r.z \in 0 .. 2
        /\ Entry(r) \in {"set", "patch"} => r.insert
        /\ Entry(r) \in {"clear", "remove"} => ~r.insert
        /\ Entry(r) = "clear" => r.z # 0
    BY EntryFacts, RequestFacts
  <1>3. HeldInv'
    BY <1>1, <1>2 DEF Books, HeldInv, HeldShape, Asking
  <1>4. ASSUME NEW x \in Items, Settled(x)' PROVE IF Busy(x)' THEN Half(x)' ELSE Armed(x)'
    <2>1. Armed(x) /\ Armed(x)'
      BY <1>1, <1>4 DEF Books, ArmInv, Busy, Settled, Armed, Some
    <2>2. CASE x = r.x
      <3>1. \A c \in Cores : 0 <= c /\ ~(c < 0)  BY CoreFacts
      <3>2. Entry(r) = "set" => \A c \in Cores : x \in cmp'[c] <=> c < core' \/ Some(x)'
        BY <1>1, <2>1, <3>1 DEF Armed
      <3>3. Entry(r) = "clear" => Some(x)'
        BY <1>1, <1>2, <2>2 DEF Some
      <3>4. Entry(r) = "clear" => \A c \in Cores : x \in cmp'[c] <=> core' <= c
        BY <1>1, <2>1, <3>1, <3>3 DEF Armed
      <3>5. Half(x)'  BY <1>1, <1>2, <3>2, <3>4 DEF Half
      <3>6. QED  BY <2>1, <3>5
    <2>3. CASE x # r.x  BY <1>1, <2>1, <2>3 DEF Busy
    <2>4. QED  BY <2>2, <2>3
  <1>5. TableInv'
    BY <1>1, <1>2 DEF Books, TableInv, Leaving, Positions, Settled
  <1>6. QED  BY <1>3, <1>4, <1>5 DEF Books, ArmInv

LEMMA ReconnectBooks ==
  ASSUME TypeInv, Books, pc \notin Asking, Reconnect, held' = held \/ held' = {}
  PROVE  Books'
  <1>1. /\ pc' = "connect" /\ tainted' = tainted \cup Open
        /\ UNCHANGED <<cmp, breakpoints>> /\ ram' \in {ram, [a \in Ram |-> "code"]}
        /\ \A a : (\E z : <<z, a>> \in held) => a \in tainted'
        /\ \A a : Positions(a) # {} => a \in tainted'
    <2>1. /\ \A a : (\E z : <<z, a>> \in held) => a \in Open
          /\ \A a : Positions(a) # {} => a \in Open
      <3>1. ASSUME NEW a, NEW z, <<z, a>> \in held PROVE a \in Open
        <4>1. <<z, a>>[2] = a  OBVIOUS
        <4>2. QED  BY <3>1, <4>1 DEF Open
      <3>2. QED  BY <3>1 DEF Open, Positions
    <2>2. QED  BY <2>1 DEF Reconnect, At
  <1>2. HeldInv'
    <2>1. HeldShape'  BY DEF Books, HeldInv, HeldShape
    <2>2. \A h \in held' : h[2] \in tainted'  BY <1>1 DEF Open
    <2>3. \A a \in Ram \cup Rom : {<<0, a>>, <<1, a>>} \subseteq held' => a \in tainted'
      BY <1>1
    <2>4. QED  BY <1>1, <2>1, <2>2, <2>3 DEF HeldInv
  <1>3. ASSUME NEW x \in Items, Settled(x)' PROVE Armed(x)'
    <2>1. Armed(x)  BY <1>1, <1>3 DEF Books, ArmInv, Busy, Asking, Settled
    <2>2. ~Some(x) /\ ~Some(x)'  BY <1>1, <1>3 DEF Settled, Some
    <2>3. QED  BY <1>1, <2>1, <2>2 DEF Armed
  <1>4. ASSUME NEW a \in Ram \cup Rom, Settled(a)' PROVE Listed(a)'
    <2>1. Listed(a)
      BY <1>1, <1>4 DEF Books, TableInv, Leaving, Asking, Settled, Listed
    <2>2. <<0, a>> \notin held /\ <<0, a>> \notin held' /\ Positions(a) = {}
      BY <1>1, <1>4 DEF Settled
    <2>3. Positions(a)' = {}  BY <1>1, <2>2 DEF Positions
    <2>4. a \in Ram => ram'[a] # "BKPT"
      BY <1>1, <2>1, <2>2 DEF Listed
    <2>5. QED  BY <2>2, <2>3, <2>4 DEF Listed
  <1>5. QED  BY <1>1, <1>2, <1>3, <1>4 DEF Books, ArmInv, Busy, TableInv, Leaving, Listed

LEMMA ConnectBooks == TypeInv /\ Books /\ Connect => Books'
  <1> SUFFICES ASSUME TypeInv, Books, Connect PROVE Books'  OBVIOUS
  <1>1. /\ pc = "connect" /\ pc' \in {"connect", "idle"} /\ held' = held /\ tainted' = tainted
        /\ UNCHANGED <<breakpoints, ram>>
        /\ cmp' = cmp \/ cmp' = [cmp EXCEPT ![core] = {}]
    BY DEF Connect, At, rp
  <1>2. HeldInv'  BY <1>1 DEF Books, HeldInv, HeldShape
  <1>3. TableInv'  BY <1>1 DEF Books, TableInv, Leaving, Positions, Settled
  <1>4. ASSUME NEW x \in Items, Settled(x)' PROVE Armed(x)'
    <2>1. Armed(x)  BY <1>1, <1>4 DEF Books, ArmInv, Busy, Settled
    <2>2. ~Some(x)
      <3>1. SUFFICES ASSUME NEW z \in 0 .. 2, <<z, x>> \in held PROVE FALSE  BY DEF Some
      <3>2. <<z, x>>[2] \in tainted  BY <1>1, <3>1 DEF Books, HeldInv
      <3>3. QED  BY <1>1, <1>4, <3>2 DEF Settled
    <2>3. cmp \in [Cores -> SUBSET Items]  BY DEF TypeInv, TypeOK
    <2>4. QED  BY <1>1, <2>1, <2>2, <2>3 DEF Armed, Some
  <1>5. QED  BY <1>1, <1>2, <1>3, <1>4 DEF Books, ArmInv, Busy

(* Second comparators.                                                     *)
LEMMA SingleKept ==
  ASSUME Single, UNCHANGED again, tainted \subseteq tainted'
  PROVE  Single'
  BY DEF Single, Copies, Settled

LEMMA SingleLess ==
  ASSUME Single, NEW c \in Cores, NEW y, Disarm(c, y), tainted \subseteq tainted'
  PROVE  Single'
  <1>1. again' = [d \in Cores |-> again'[d]] /\ \A d \in Cores : again'[d] \subseteq again[d]
    <2>1. CASE UNCHANGED again  BY <2>1 DEF Single
    <2>2. CASE again' = [again EXCEPT ![c] = @ \ {<<y, Cardinality(Copies(c, y)) - 1>>}]
      BY <2>2 DEF Single
    <2>3. QED  BY <2>1, <2>2 DEF Disarm
  <1>2. QED  BY <1>1 DEF Single, Copies, Settled

LEMMA SingleMore ==
  ASSUME TypeInv, Books, Single, pc = "set", Arm(core, req.x), tainted \subseteq tainted'
  PROVE  Single'
  <1>1. CASE UNCHANGED again  BY <1>1, SingleKept
  <1>2. CASE /\ req.x \in Watches \cap cmp[core]
             /\ again' = [again EXCEPT ![core] = @ \cup {<<req.x, Cardinality(Copies(core, req.x))>>}]
    <2>1. core \in Cores /\ ~Settled(req.x)
      BY <1>2, WatchFresh DEF TypeInv, Placed, Asking
    <2>2. \A d \in Cores : \A p \in again'[d] : p \in again[d] \/ p[1] = req.x
      BY <1>2, <2>1 DEF Single
    <2>3. again' = [d \in Cores |-> again'[d]]  BY <1>2, <2>1 DEF Single
    <2>4. QED  BY <2>1, <2>2, <2>3 DEF Single, Copies, Settled
  <1>3. QED  BY <1>1, <1>2 DEF Arm

LEMMA StepSingle == TypeInv /\ Books /\ Single /\ [Next]_vars => Single'
  <1> SUFFICES ASSUME TypeInv, Books, Single, [Next]_vars PROVE Single'  OBVIOUS
  <1>1. ASSUME NEW r, Answer(r) PROVE tainted \subseteq tainted'  BY <1>1 DEF Answer
  <1>2. CASE SetBoth
    <2>1. tainted \subseteq tainted'  BY <1>1, <1>2 DEF SetBoth, Refused, history
    <2>2. CASE Keep  BY <2>1, <2>2, SingleKept DEF Keep, target
    <2>3. CASE Arm(core, req.x)  BY <1>2, <2>1, <2>3, SingleMore DEF SetBoth
    <2>4. QED  BY <1>2, <2>2, <2>3 DEF SetBoth, Refused
  <1>3. CASE RollBack \/ ClearBoth
    <2>1. tainted \subseteq tainted'  BY <1>1, <1>3 DEF RollBack, ClearBoth, history
    <2>2. CASE Keep  BY <2>1, <2>2, SingleKept DEF Keep, target
    <2>3. CASE \E c \in Cores : Disarm(c, req.x)  BY <2>1, <2>3, SingleLess
    <2>4. core \in Cores /\ 0 \in Cores  BY CoreFacts DEF TypeInv, Placed
    <2>5. QED  BY <1>3, <2>2, <2>3, <2>4 DEF RollBack, ClearBoth
  <1>4. CASE AddRam \/ RemoveSw \/ Refuse
    <2>1. tainted \subseteq tainted'  BY <1>1, <1>4 DEF AddRam, RemoveSw, Refuse, history
    <2>2. UNCHANGED again  BY <1>4 DEF AddRam, RemoveSw, Refuse, Keep, Patch, target
    <2>3. QED  BY <2>1, <2>2, SingleKept
  <1>5. CASE Resume \/ HaltCore \/ Report
    <2>1. tainted \subseteq tainted'  BY <1>5 DEF Resume, HaltCore, Report, Settle
    <2>2. UNCHANGED again
      <3>1. CASE Resume  BY <3>1 DEF Resume, Keep, target, Started
      <3>2. CASE HaltCore  BY <3>2 DEF HaltCore, HaltNow, Keep, target
      <3>3. CASE Report  BY <3>3 DEF Report, Guess, Keep, target, ClearDfsr
      <3>4. QED  BY <1>5, <3>1, <3>2, <3>3
    <2>3. QED  BY <2>1, <2>2, SingleKept
  <1>6. CASE \/ TakeByte \/ PollStep \/ Poll \/ PollCore \/ Interrupt \/ UNCHANGED vars
             \/ \E a, l : Continue(a, l)
             \/ \E r \in Requests : Request(r)
             \/ \E c \in Cores : Trap(c)
    <2>1. UNCHANGED <<again, tainted>>
      BY <1>6 DEF TakeByte, PollStep, Poll, PollCore, Interrupt, Continue, Request, Trap,
                  vars, target, history
    <2>2. QED  BY <2>1, SingleKept
  <1>7. CASE SessionEnd \/ TargetReset
    <2>1. UNCHANGED again /\ tainted \subseteq tainted'
      BY <1>7 DEF SessionEnd, TargetReset, Reconnect
    <2>2. QED  BY <2>1, SingleKept
  <1>8. CASE Connect
    <2>1. core \in Cores /\ tainted' = tainted  BY <1>8 DEF Connect, TypeInv, Placed
    <2>2. CASE UNCHANGED again  BY <2>1, <2>2, SingleKept
    <2>3. CASE again' = [again EXCEPT ![core] = {}]
      <3>1. again' = [d \in Cores |-> again'[d]] /\ \A d \in Cores : again'[d] \subseteq again[d]
        BY <2>1, <2>3 DEF Single
      <3>2. QED  BY <2>1, <3>1 DEF Single, Copies, Settled
    <2>4. QED  BY <1>8, <2>2, <2>3 DEF Connect
  <1>9. CASE Server
    BY <1>2, <1>3, <1>4, <1>5, <1>6, <1>8, <1>9 DEF Server
  <1>10. CASE Host  BY <1>6, <1>7, <1>10 DEF Host
  <1>11. QED  BY <1>6, <1>9, <1>10 DEF Next

LEMMA StepBooks == TypeInv /\ Single /\ Books /\ [Next]_vars => Books'
  <1> SUFFICES ASSUME TypeInv, Single, Books, [Next]_vars PROVE Books'  OBVIOUS
  <1>1. CASE UNCHANGED vars \/ \E c \in Cores : Trap(c)
    <2>1. UNCHANGED <<cmp, ram, breakpoints, held, tainted, pc, req, core>>
      BY <1>1 DEF vars, target, rp, server, history, Trap, Stop
    <2>2. ArmInv'
      BY <2>1 DEF Books, ArmInv, Busy, Half, Armed, Some, Settled
    <2>3. HeldInv'  BY <2>1 DEF Books, HeldInv, HeldShape
    <2>4. TableInv'  BY <2>1 DEF Books, TableInv, Leaving, Positions, Settled
    <2>5. QED  BY <2>2, <2>3, <2>4 DEF Books
  <1>2. CASE Resume \/ HaltCore \/ Report
    <2>1. UNCHANGED <<breakpoints, held, tainted>>
      BY <1>2 DEF Resume, HaltCore, Report, Settle, rp
    <2>2. UNCHANGED <<cmp, ram>>
      <3>1. CASE Resume  BY <3>1 DEF Resume, Keep, target, Started
      <3>2. CASE HaltCore  BY <3>2 DEF HaltCore, HaltNow, Keep, target
      <3>3. CASE Report  BY <3>3 DEF Report, Guess, Keep, target, ClearDfsr
      <3>4. QED  BY <1>2, <3>1, <3>2, <3>3
    <2>3. pc \notin Asking /\ pc' \notin Asking /\ pc' # "connect"
      BY <1>2 DEF Resume, HaltCore, Report, Guess, Done, At, Asking
    <2>4. QED  BY <2>1, <2>2, <2>3, BooksKept
  <1>3. CASE \/ TakeByte \/ PollStep \/ Poll \/ PollCore \/ Interrupt
             \/ \E a, l : Continue(a, l)
    <2>1. UNCHANGED <<cmp, ram, breakpoints, held, tainted>>
      BY <1>3 DEF TakeByte, PollStep, Poll, PollCore, Interrupt, Continue, target, rp, history
    <2>2. pc \notin Asking /\ pc' \notin Asking /\ pc' # "connect"
      BY <1>3 DEF TakeByte, PollStep, Poll, PollCore, Interrupt, Continue, HaltFor, At, server, Asking
    <2>3. QED  BY <2>1, <2>2, BooksKept
  <1>4. CASE SessionEnd \/ TargetReset
    <2>1. pc \notin Asking /\ Reconnect /\ (held' = held \/ held' = {})
      BY <1>4 DEF SessionEnd, TargetReset, Asking
    <2>2. QED  BY <2>1, ReconnectBooks
  <1>5. CASE Server
    BY <1>2, <1>3, <1>5, SetBothBooks, RollBackBooks, ClearBothBooks, AddRamBooks, RemoveSwBooks,
       RefuseBooks, ConnectBooks DEF Server
  <1>6. CASE Host  BY <1>3, <1>4, <1>6, RequestBooks DEF Host
  <1>7. QED  BY <1>1, <1>5, <1>6 DEF Next
-----------------------------------------------------------------------------
(* Where the cores stand that stopped on their own.                        *)
LEMMA Silent ==
  ASSUME reply'.core \notin Cores
  PROVE  StopKind' /\ (reply'.core \in Cores /\ reply'.kind \in {"sw", "hw"} => halted'[reply'.core])
  BY DEF StopKind

LEMMA QuietStop ==
  ASSUME why' \in {"stop", "step", "interrupt"}, pc' \notin Running \cup {"report"},
         \/ reply' = NoReply
         \/ pc' = "idle" /\ \E k : reply' = [kind |-> k, core |-> NoCore]
  PROVE  StopInv'
  <1>1. reply'.core \notin Cores  BY CoreFacts DEF NoReply
  <1>2. QED  BY <1>1, Silent DEF StopInv, Running

LEMMA AskStop ==
  ASSUME TypeInv, StopInv,
         SetBoth \/ RollBack \/ ClearBoth \/ AddRam \/ RemoveSw \/ Refuse \/ Connect \/ SessionEnd
           \/ TargetReset \/ \E r \in Requests : Request(r)
  PROVE  StopInv'
  <1>1. why \in {"stop", "step", "interrupt"}  BY DEF StopInv
  <1>2. ASSUME NEW r, Answer(r) \/ Done([kind |-> r, core |-> NoCore]) PROVE StopInv'
    <2>1. why' = "stop" /\ pc' = "idle" /\ reply' = [kind |-> r, core |-> NoCore]
      BY <1>2 DEF Answer, Done, At
    <2>2. QED  BY <2>1, QuietStop DEF Running
  <1>3. ASSUME UNCHANGED <<why, reply>>, pc # "idle", pc' \in {"set", "rollback", "clear", "connect", "idle"}
        PROVE  StopInv'
    <2>1. reply' = NoReply  BY <1>3 DEF StopInv
    <2>2. QED  BY <1>1, <1>3, <2>1, QuietStop DEF Running
  <1>4. CASE SetBoth  BY <1>2, <1>3, <1>4 DEF SetBoth, Refused, At
  <1>5. CASE RollBack  BY <1>2, <1>5 DEF RollBack
  <1>6. CASE ClearBoth  BY <1>2, <1>3, <1>6 DEF ClearBoth, At
  <1>7. CASE AddRam  BY <1>2, <1>7 DEF AddRam
  <1>8. CASE RemoveSw  BY <1>2, <1>3, <1>8 DEF RemoveSw, At
  <1>9. CASE Refuse  BY <1>2, <1>9 DEF Refuse
  <1>10. CASE Connect  BY <1>3, <1>10 DEF Connect, At
  <1>11. CASE SessionEnd \/ TargetReset
    <2>1. why' = why /\ pc' = "connect" /\ reply' = NoReply
      BY <1>11 DEF SessionEnd, TargetReset, Reconnect, At
    <2>2. QED  BY <1>1, <2>1, QuietStop DEF Running
  <1>12. CASE \E r \in Requests : Request(r)
    <2>1. PICK r \in Requests : Request(r)  BY <1>12
    <2>2. why' = why /\ pc' = Entry(r) /\ reply' = NoReply  BY <2>1 DEF Request, At
    <2>3. QED  BY <1>1, <2>2, EntryFacts, QuietStop DEF Running, Asking
  <1>13. QED  BY <1>4, <1>5, <1>6, <1>7, <1>8, <1>9, <1>10, <1>11, <1>12

(* A step of run control, which answers nothing.                           *)
LEMMA BusyStop ==
  ASSUME StopInv, why' \in {"stop", "step", "interrupt"}, pc' # "idle", reply' = NoReply,
         pc' \in Running => \A c \in Cores : running'[c] /\ halted'[c] => Hit(c)',
         pc' \in {"halt", "report"} /\ why' = "stop" => \A c \in Cores : c = who' => Hit(c)',
         pc' \in {"halt", "report"} /\ why' = "stop" => who' \in Cores
  PROVE  StopInv'
  <1>1. reply'.core \notin Cores  BY CoreFacts DEF NoReply
  <1>2. StopKind' /\ (reply'.core \in Cores /\ reply'.kind \in {"sw", "hw"} => halted'[reply'.core])
    BY <1>1, Silent
  <1>3. pc' \in {"halt", "report"} /\ why' = "stop" => Hit(who)'  BY DEF Hit
  <1>4. QED  BY <1>2, <1>3 DEF StopInv

LEMMA ResumeStop ==
  ASSUME TypeInv, RunInv, StopInv, Resume \/ \E a, l : Continue(a, l)
  PROVE  StopInv'
  <1>1. CASE \E a, l : Continue(a, l)
    <2>1. /\ pc = "idle" /\ pc' = "resume" /\ why' = why /\ running' = running /\ reply' = NoReply
      BY <1>1 DEF Continue, At
    <2>2. \A c \in Cores : ~running'[c]  BY <2>1 DEF RunInv, Running
    <2>3. QED  BY <2>1, <2>2, BusyStop DEF StopInv
  <1>2. CASE Resume
    <2>1. /\ pc = "resume" /\ pc' \in {"resume", "run"} /\ why' = why /\ reply' = NoReply
      BY <1>2 DEF Resume, At, StopInv
    <2>2. /\ core \in Cores /\ halted \in [Cores -> BOOLEAN] /\ running \in [Cores -> BOOLEAN]
          /\ at \in [Cores -> Ram \cup Rom \cup {Elsewhere}]
      BY DEF TypeInv, TypeOK
    <2>3. UNCHANGED <<cmp, ram>>  BY <1>2 DEF Resume, Keep, target, Started
    <2>4. ASSUME NEW c \in Cores, running'[c], halted'[c] PROVE Hit(c)'
      <3>1. running[c] /\ halted[c] => Hit(c)  BY <2>1 DEF StopInv, Running
      <3>2. CASE Keep /\ UNCHANGED running
        BY <2>4, <3>1, <3>2 DEF Keep, target, Hit
      <3>3. CASE Started(core) /\ (running' = running \/ running' = [running EXCEPT ![core] = TRUE])
        <4>1. c # core /\ running[c] /\ halted[c] /\ at'[c] = at[c]
          BY <2>2, <2>4, <3>3 DEF Started
        <4>2. QED  BY <2>3, <3>1, <4>1 DEF Hit
      <3>4. CASE (\E cause : Stop(core, Elsewhere, cause)) /\ UNCHANGED running
        <4>1. CASE c = core
          <5>1. at'[c] = Elsewhere  BY <2>2, <3>4, <4>1 DEF Stop
          <5>2. QED  BY <5>1, AddressesAssumption DEF Hit
        <4>2. CASE c # core
          <5>1. running[c] /\ halted[c] /\ at'[c] = at[c]
            BY <2>2, <2>4, <3>4, <4>2 DEF Stop
          <5>2. QED  BY <2>3, <3>1, <5>1 DEF Hit
        <4>3. QED  BY <4>1, <4>2
      <3>5. QED  BY <1>2, <3>2, <3>3, <3>4 DEF Resume
    <2>5. QED  BY <2>1, <2>4, BusyStop DEF StopInv
  <1>3. QED  BY <1>1, <1>2

LEMMA PollStop ==
  ASSUME TypeInv, RunInv, StopInv, Interrupt \/ TakeByte \/ PollStep \/ Poll \/ PollCore
  PROVE  StopInv'
  <1>1. /\ pc \in Running /\ pc' \in Running /\ UNCHANGED <<halted, at, cmp, ram, running, reply>>
        /\ core \in Cores
    BY DEF Interrupt, TakeByte, PollStep, Poll, PollCore, HaltFor, At, Running, target, rp,
           server, TypeInv, TypeOK
  <1>2. why' \in {"stop", "step", "interrupt"}
    BY DEF Interrupt, TakeByte, PollStep, Poll, PollCore, HaltFor, server, StopInv
  <1>3. \A c \in Cores : Hit(c) => Hit(c)'  BY <1>1 DEF Hit
  <1>4. reply' = NoReply  BY <1>1 DEF StopInv, Running
  <1>5. pc' = "halt" /\ why' = "stop" => who' = core /\ running[core] /\ halted[core]
    BY DEF Interrupt, TakeByte, PollStep, Poll, PollCore, HaltFor, At, server
  <1>6. \A c \in Cores : running[c] /\ halted[c] => Hit(c)'  BY <1>1, <1>3 DEF StopInv
  <1>7. pc' # "idle" /\ pc' # "report"  BY <1>1 DEF Running
  <1>8. QED  BY <1>1, <1>2, <1>4, <1>5, <1>6, <1>7, BusyStop

LEMMA HaltStop == TypeInv /\ RunInv /\ StopInv /\ HaltCore => StopInv'
  <1> SUFFICES ASSUME TypeInv, RunInv, StopInv, HaltCore PROVE StopInv'  OBVIOUS
  <1>1. /\ core \in Cores /\ halted \in [Cores -> BOOLEAN] /\ running \in [Cores -> BOOLEAN]
        /\ at \in [Cores -> Ram \cup Rom \cup {Elsewhere}]
        /\ pc = "halt" /\ pc' \in {"halt", "report"} /\ UNCHANGED <<who, why>> /\ reply' = NoReply
        /\ why \in {"stop", "step", "interrupt"} /\ (why = "stop" => who \in Cores)
        /\ running' \in {running, [c \in Cores |-> FALSE]}
    BY DEF TypeInv, TypeOK, HaltCore, At, StopInv, RunInv, Running
  <1>2. UNCHANGED <<cmp, ram>>  BY DEF HaltCore, HaltNow, Keep, target
  <1>3. ASSUME NEW c \in Cores, Hit(c) PROVE Hit(c)'
    <2>1. CASE Keep  BY <1>3, <2>1 DEF Keep, target, Hit
    <2>2. CASE Stop(core, Elsewhere, "HALTED")
      <3>1. CASE c = core
        <4>1. at'[c] = Elsewhere  BY <1>1, <2>2, <3>1 DEF Stop
        <4>2. QED  BY <4>1, AddressesAssumption DEF Hit
      <3>2. CASE c # core
        <4>1. at'[c] = at[c]  BY <1>1, <2>2, <3>2 DEF Stop
        <4>2. QED  BY <1>2, <1>3, <4>1 DEF Hit
      <3>3. QED  BY <3>1, <3>2
    <2>3. QED  BY <2>1, <2>2 DEF HaltCore, HaltNow
  <1>4. ASSUME NEW c \in Cores, running'[c], halted'[c] PROVE Hit(c)'
    <2>1. CASE halted[c]
      <3>1. Hit(c)  BY <1>1, <1>4, <2>1 DEF StopInv, Running
      <3>2. QED  BY <1>3, <3>1
    <2>2. CASE ~halted[c]
      <3>1. c = core /\ Stop(core, Elsewhere, "HALTED")
        BY <1>1, <1>4, <2>2 DEF HaltCore, HaltNow, Keep, target, Stop
      <3>2. at'[c] = Elsewhere  BY <1>1, <3>1 DEF Stop
      <3>3. QED  BY <3>2, AddressesAssumption DEF Hit
    <2>3. QED  BY <2>1, <2>2
  <1>5. ASSUME why' = "stop", NEW c \in Cores, c = who' PROVE Hit(c)'
    <2>1. Hit(c)  BY <1>1, <1>5 DEF StopInv
    <2>2. QED  BY <1>3, <2>1
  <1>6. QED  BY <1>1, <1>4, <1>5, BusyStop

LEMMA TrapStop == ASSUME TypeInv, RunInv, StopInv, NEW c \in Cores, Trap(c) PROVE StopInv'
  <1>1. /\ UNCHANGED <<cmp, ram, rp, pc, core, who, why, reply, held, tainted>> /\ ~halted[c]
        /\ halted \in [Cores -> BOOLEAN] /\ at \in [Cores -> Ram \cup Rom \cup {Elsewhere}]
    BY DEF Trap, server, history, TypeInv, TypeOK
  <1>2. \E a : /\ halted' = [halted EXCEPT ![c] = TRUE] /\ at' = [at EXCEPT ![c] = a]
               /\ a \in (cmp[c] \cap Rom) \cup {r \in Ram : ram[r] = "BKPT"} \/ a = Elsewhere
    BY DEF Trap, Stop
  <1>3. PICK a : /\ halted' = [halted EXCEPT ![c] = TRUE] /\ at' = [at EXCEPT ![c] = a]
                 /\ a \in (cmp[c] \cap Rom) \cup {r \in Ram : ram[r] = "BKPT"} \/ a = Elsewhere
    BY <1>2
  <1>4. Hit(c)'
    <2>1. at'[c] = a  BY <1>1, <1>3
    <2>2. QED  BY <1>1, <1>3, <2>1, AddressesAssumption DEF Hit
  <1>5. \A d \in Cores : d # c => at'[d] = at[d] /\ halted'[d] = halted[d]  BY <1>1, <1>3
  <1>6. \A d \in Cores : halted[d] => d # c /\ halted'[d]  BY <1>1, <1>5
  <1>7. \A d \in Cores : d # c /\ Hit(d) => Hit(d)'  BY <1>1, <1>5 DEF Hit
  <1>8. pc' \in Running => \A d \in Cores : running'[d] /\ halted'[d] => Hit(d)'
    BY <1>1, <1>4, <1>5, <1>7 DEF StopInv, rp
  <1>9. pc' \in {"halt", "report"} /\ why' = "stop" => Hit(who)'
    <2>1. SUFFICES ASSUME pc \in {"halt", "report"}, why = "stop", NEW w \in Cores, w = who PROVE Hit(w)'
      BY <1>1 DEF RunInv, Hit
    <2>2. Hit(w) /\ w # c  BY <1>6, <2>1 DEF StopInv, RunInv
    <2>3. QED  BY <1>7, <2>2
  <1>10. reply'.core \in Cores /\ reply'.kind \in {"sw", "hw"} =>
           halted'[reply'.core] /\ at'[reply'.core] = at[reply.core]
    BY <1>1, <1>5, <1>6 DEF StopInv
  <1>11. StopKind'
    BY <1>1, <1>10 DEF StopInv, StopKind, Settled, Holds
  <1>12. QED  BY <1>1, <1>8, <1>9, <1>10, <1>11 DEF StopInv

LEMMA ReasonTold ==
  ASSUME TypeInv, Books, NEW w \in Cores, Hit(w), pc \notin Asking,
         at[w] \in Ram \cup Rom, Settled(at[w])
  PROVE  /\ Reason(w) = "sw" => at[w] \in Holds(0)
         /\ Reason(w) = "hw" => at[w] \in Holds(1)
  <1> PICK a : a = at[w]  OBVIOUS
  <1>1. /\ a \in Ram \cup Rom /\ Settled(a) /\ cmp[w] \subseteq Items /\ RpType
        /\ a \in Items => a \in Rom
        /\ a \in cmp[w] \cap Rom \/ (a \in Ram /\ ram[a] = "BKPT")
    BY TypeParts, AddressesAssumption DEF TypeInv, TypeOK, Items, Hit
  <1>2. Listed(a)
    BY <1>1 DEF Books, TableInv, Leaving, Asking, Listed
  <1>3. a \in Ram \cup Items  BY <1>1 DEF Items
  <1>4. a \in Holds(0) <=> <<0, a>> \in held  BY <1>3 DEF Holds
  <1>5. a \in Holds(1) <=> <<1, a>> \in held  BY <1>3 DEF Holds
  <1>6. ASSUME Promoted(a) \/ a \notin cmp[w] PROVE a \in Holds(0)
    <2>1. CASE Promoted(a)
      <3>1. PICK i \in DOMAIN breakpoints : breakpoints[i] = [addr |-> a, orig |-> "Fpb"]
        BY <2>1 DEF Promoted
      <3>2. Positions(a) # {}  BY <3>1 DEF Positions
      <3>3. QED  BY <1>2, <1>4, <3>2 DEF Listed
    <2>2. CASE a \notin cmp[w]  BY <1>1, <1>2, <1>4, <2>2 DEF Listed
    <2>3. QED  BY <1>6, <2>1, <2>2
  <1>7. ASSUME ~Promoted(a), a \in cmp[w] PROVE a \in Holds(1)
    <2>1. a \in Items /\ a \in Rom /\ a \notin Watches
      BY <1>1, <1>7, AddressesAssumption
    <2>2. Some(a)  BY <1>1, <1>7, <2>1 DEF Books, ArmInv, Busy, Asking, Armed
    <2>3. PICK z \in 0 .. 2 : <<z, a>> \in held  BY <2>2 DEF Some
    <2>4. z # 2  BY <2>1, <2>3 DEF Books, HeldInv, HeldShape
    <2>5. z # 0
      <3>1. SUFFICES ASSUME Positions(a) # {} PROVE FALSE  BY <1>2, <2>3 DEF Listed
      <3>2. PICK i \in Positions(a) : TRUE  BY <3>1
      <3>3. i \in DOMAIN breakpoints /\ breakpoints[i].addr = a  BY <3>2 DEF Positions
      <3>4. DOMAIN breakpoints = 1 .. Len(breakpoints) /\ breakpoints[i] \in Slot
        BY <1>1, <3>3 DEF RpType
      <3>5. breakpoints[i].orig = "Fpb"  BY <1>1, <2>1, <3>3, <3>4 DEF RpType, Tagged
      <3>6. breakpoints[i] = [addr |-> a, orig |-> "Fpb"]  BY <3>3, <3>4, <3>5 DEF Slot
      <3>7. QED  BY <1>7, <3>3, <3>6 DEF Promoted
    <2>6. z = 1  BY <2>4, <2>5
    <2>7. QED  BY <1>5, <2>3, <2>6
  <1>8. QED  BY <1>6, <1>7 DEF Reason

LEMMA ReportStop ==
  ASSUME TypeInv, RunInv, Books, StopInv, Report
  PROVE  StopInv'
  <1>1. /\ pc = "report" /\ pc' = "idle" /\ why' = "stop" /\ why \in {"stop", "step", "interrupt"}
        /\ UNCHANGED <<halted, at, held, tainted>>
    BY DEF Report, Guess, Done, At, Keep, ClearDfsr, target, Settle, StopInv
  <1>2. ASSUME reply'.kind \notin {"sw", "hw"} PROVE StopInv'
    BY <1>1, <1>2 DEF StopInv, StopKind, Running
  <1>3. CASE why # "stop"
    <2>1. reply'.kind = why  BY <1>3 DEF Report, Done
    <2>2. QED  BY <1>1, <1>2, <1>3, <2>1
  <1>4. CASE why = "stop"
    <2>1. CASE reply' = [kind |-> "trap", core |-> who] \/ reply' = [kind |-> "guess", core |-> who]
      BY <1>2, <2>1
    <2>2. CASE reply' = [kind |-> Reason(who), core |-> who]
      <3>1. who \in Cores /\ halted[who] /\ Hit(who)  BY <1>1, <1>4 DEF RunInv, StopInv
      <3>2. PICK w \in Cores : w = who  BY <3>1
      <3>3. Hit(w) /\ pc \notin Asking  BY <1>1, <3>1, <3>2 DEF Asking
      <3>4. reply'.core = w /\ reply'.kind = Reason(w)  BY <2>2, <3>2
      <3>5. StopKind'
        <4>1. SUFFICES ASSUME at[w] \in Ram \cup Rom, Settled(at[w])
                       PROVE  /\ Reason(w) = "sw" => at[w] \in Holds(0)
                              /\ Reason(w) = "hw" => at[w] \in Holds(1)
          BY <1>1, <3>4 DEF StopKind, Settled, Holds
        <4>2. QED  BY <3>3, <4>1, ReasonTold
      <3>6. QED  BY <1>1, <3>1, <3>2, <3>4, <3>5 DEF StopInv, Running
    <2>3. QED  BY <1>4, <2>1, <2>2 DEF Report, Guess, Done
  <1>5. QED  BY <1>3, <1>4

LEMMA StepStop ==
  ASSUME TypeInv, RunInv, Books, StopInv, [Next]_vars
  PROVE  StopInv'
  <1>1. CASE UNCHANGED vars
    <2>1. UNCHANGED <<halted, at, cmp, ram, running, pc, who, why, reply, held, tainted>>
      BY <1>1 DEF vars, target, rp, server, history
    <2>2. StopKind'  BY <2>1 DEF StopInv, StopKind, Settled, Holds
    <2>3. QED  BY <2>1, <2>2 DEF StopInv, Hit
  <1>2. CASE Server
    BY <1>2, AskStop, ResumeStop, PollStop, HaltStop, ReportStop DEF Server
  <1>3. CASE Host  BY <1>3, AskStop, ResumeStop, PollStop DEF Host
  <1>4. CASE \E c \in Cores : Trap(c)  BY <1>4, TrapStop
  <1>5. QED  BY <1>1, <1>2, <1>3, <1>4 DEF Next
-----------------------------------------------------------------------------
(* All of it holds together, and holds from the start.                     *)
TargetInv == TypeInv /\ RunInv /\ Single /\ Books /\ StopInv

LEMMA InitInv == Init => TargetInv
  <1> SUFFICES ASSUME Init PROVE TargetInv  OBVIOUS
  <1>1. TypeInv  BY InitType
  <1>2. RunInv  BY DEF Init, RunInv, Running, Stopped
  <1>3. Books
    <2>1. ArmInv  BY DEF Init, ArmInv, Busy, Armed, Some
    <2>2. HeldInv  BY DEF Init, HeldInv, HeldShape
    <2>3. TableInv  BY DEF Init, TableInv, Positions
    <2>4. QED  BY <2>1, <2>2, <2>3 DEF Books
  <1>4. StopInv
    <2>1. reply.core \notin Cores  BY CoreFacts DEF Init, NoReply
    <2>2. QED  BY <2>1 DEF Init, StopInv, StopKind, Running
  <1>5. Single  BY DEF Init, Single, Copies
  <1>6. QED  BY <1>1, <1>2, <1>3, <1>4, <1>5 DEF TargetInv

LEMMA NextInv == TargetInv /\ [Next]_vars => TargetInv'
  BY StepType, StepRun, StepSingle, StepBooks, StepStop DEF TargetInv

LEMMA AlwaysInv == Spec => []TargetInv
  BY InitInv, NextInv, PTL DEF Spec

(* Every variable keeps its type: the table never overflows, and no core   *)
(* is addressed that the family does not have.                             *)
THEOREM TypeCorrect == Spec => []TypeOK
  <1>1. TargetInv => TypeOK  BY DEF TargetInv, TypeInv
  <1>2. QED  BY <1>1, AlwaysInv, PTL

(* All-stop: poll_stopped, halt_running and resume leave no core running   *)
(* while the server waits for the host, unless the link to it failed.      *)
THEOREM StoppedAtIdle == Spec => []AllStop
  <1>1. TargetInv => AllStop
    BY DEF TargetInv, RunInv, AllStop, Running, Asking, Stopped
  <1>2. QED  BY <1>1, AlwaysInv, PTL

(* fpb_set_both, fpb_clear_both and their watchpoint twins leave a         *)
(* comparator armed on all cores or on none, as the host was told.         *)
THEOREM ArmedTogether == Spec => []ArmedOnAll
  <1>1. TargetInv => ArmedOnAll
    <2>1. SUFFICES ASSUME TargetInv, pc = "idle", NEW x \in Items, NEW c \in Cores, Settled(x)
                   PROVE  x \in cmp[c] <=> \E z \in 0 .. 2 : x \in Holds(z)
      BY DEF ArmedOnAll
    <2>2. x \in cmp[c] <=> Some(x)
      BY <2>1 DEF TargetInv, Books, ArmInv, Busy, Armed
    <2>3. QED  BY <2>2 DEF Some, Holds
  <1>2. QED  BY <1>1, AlwaysInv, PTL

(* add_sw_breakpoint and remove_sw_breakpoint keep the table the host's,   *)
(* whatever order swap_remove leaves it in, and give the code back.        *)
THEOREM TableIsHosts == Spec => []CodeRestored
  <1>1. TargetInv => CodeRestored
    <2>1. SUFFICES ASSUME TargetInv, pc = "idle", NEW a \in Ram \cup Rom, Settled(a)
                   PROVE  /\ a \in Holds(0) <=> Positions(a) # {}
                          /\ a \in Ram => (ram[a] = "BKPT" <=> a \in Holds(0))
      BY DEF CodeRestored
    <2>2. Listed(a)  BY <2>1 DEF TargetInv, Books, TableInv, Leaving, Listed
    <2>3. a \in Holds(0) <=> <<0, a>> \in held  BY DEF Holds, Items
    <2>4. QED  BY <2>2, <2>3 DEF Listed
  <1>2. QED  BY <1>1, AlwaysInv, PTL

(* stop_reason tells the host its own kind of breakpoint, of whichever     *)
(* core stopped and however many stop at once.                             *)
THEOREM KindTold == Spec => []StopKind
  <1>1. TargetInv => StopKind  BY DEF TargetInv, StopInv
  <1>2. QED  BY <1>1, AlwaysInv, PTL
-----------------------------------------------------------------------------
(***************************************************************************)
(* Flash programming.                                                      *)
(***************************************************************************)
(* The steps ahead, from each point of a routine.                          *)
Entered1 == <<One("set", "entered", 0)>>
Entered2 == <<One("set", "fresh", 0), One("set", "entered", 0)>>
Enter3 == <<Do("exit_xip", 0), One("set", "fresh", 0), One("set", "entered", 0)>>
Enter4 == <<Do("connect_flash", 0), Do("exit_xip", 0), One("set", "fresh", 0), One("set", "entered", 0)>>
Enter5 == <<Do("lookup", 0), Do("connect_flash", 0), Do("exit_xip", 0), One("set", "fresh", 0),
            One("set", "entered", 0)>>
Enter6 == <<Do("select", 0), Do("lookup", 0), Do("connect_flash", 0), Do("exit_xip", 0),
            One("set", "fresh", 0), One("set", "entered", 0)>>
Enter7 == <<Do("select", 0), Do("select", 0), Do("lookup", 0), Do("connect_flash", 0),
            Do("exit_xip", 0), One("set", "fresh", 0), One("set", "entered", 0)>>

Noted(s) == <<One("set", "erased", s)>>
RomErase(s) == <<Do("erase", s), One("set", "erased", s)>>
Nvmc2(s) == <<Do("config", "REN"), One("set", "erased", s)>>
Nvmc3(s) == <<Do("wait", 0), Do("config", "REN"), One("set", "erased", s)>>
Nvmc4(s) == <<Do("erase", s), Do("wait", 0), Do("config", "REN"), One("set", "erased", s)>>
Nvmc5(s) == <<Do("wait", 0), Do("erase", s), Do("wait", 0), Do("config", "REN"), One("set", "erased", s)>>
Nvmc6(s) == <<Do("config", "EEN"), Do("wait", 0), Do("erase", s), Do("wait", 0), Do("config", "REN"),
              One("set", "erased", s)>>

RomProgram1(c) == <<Do("program", c)>>
RomProgram2(c) == <<Do("stage", c), Do("program", c)>>
Closing1 == <<Do("config", "REN")>>
Closing2 == <<Do("wait", 0), Do("config", "REN")>>
Burning3(c) == <<Do("program", c), Do("wait", 0), Do("config", "REN")>>
Burning4(c) == <<Do("wait", 0), Do("program", c), Do("wait", 0), Do("config", "REN")>>
Burning5(c) == <<Do("config", "WEN"), Do("wait", 0), Do("program", c), Do("wait", 0), Do("config", "REN")>>
Rram3 == <<Do("commit", 0), Do("wait", 0), Do("config", "REN")>>
Rram4(c) == <<Do("program", c), Do("commit", 0), Do("wait", 0), Do("config", "REN")>>
Rram5(c) == <<Do("config", "WEN"), Do("program", c), Do("commit", 0), Do("wait", 0), Do("config", "REN")>>
Rram6(c) == <<Do("edge", c), Do("config", "WEN"), Do("program", c), Do("commit", 0), Do("wait", 0),
              Do("config", "REN")>>

Use(w) == <<Do(w, 0)>>
Use1(w) == <<One("set", "left", 0), Do(w, 0)>>
Use2(w) == <<One("try", "enter_xip", 0), One("set", "left", 0), Do(w, 0)>>
Use3(w) == <<One("try", "flush", 0), One("try", "enter_xip", 0), One("set", "left", 0), Do(w, 0)>>
Use4(w) == <<One("skip", "select", 2), One("try", "flush", 0), One("try", "enter_xip", 0), One("set", "left", 0),
             Do(w, 0)>>
Over1 == <<Do("reconnect", 0)>>
Over2 == <<One("set", "forget", 0), Do("reconnect", 0)>>
Reset3 == <<One("try", "sysreset", 0), One("set", "forget", 0), Do("reconnect", 0)>>
Reset4 == <<Do("demcr", 0), One("try", "sysreset", 0), One("set", "forget", 0), Do("reconnect", 0)>>
Reset5 == <<Do("select", 0), Do("demcr", 0), One("try", "sysreset", 0), One("set", "forget", 0),
            Do("reconnect", 0)>>
Reset6 == <<One("set", "left", 0), Do("select", 0), Do("demcr", 0), One("try", "sysreset", 0),
            One("set", "forget", 0), Do("reconnect", 0)>>
Reset7 == <<One("try", "enter_xip", 0), One("set", "left", 0), Do("select", 0), Do("demcr", 0),
            One("try", "sysreset", 0), One("set", "forget", 0), Do("reconnect", 0)>>
Reset8 == <<One("try", "flush", 0), One("try", "enter_xip", 0), One("set", "left", 0), Do("select", 0),
            Do("demcr", 0), One("try", "sysreset", 0), One("set", "forget", 0), Do("reconnect", 0)>>
Reset9 == <<One("skip", "select", 2), One("try", "flush", 0), One("try", "enter_xip", 0), One("set", "left", 0),
            Do("select", 0), Do("demcr", 0), One("try", "sysreset", 0), One("set", "forget", 0),
            Do("reconnect", 0)>>

Xip == mode = "command" => stranded
Writing == op.kind = "write" /\ res = "busy"
Wiped(s) == \A c \in Cells : Sector(c) = s => flash[c] = {}
Taken(c) == flash[c] = {op.data} \/ c \in loose
Ready == family = "rp2040" => flash_mode

Entering ==
  /\ Writing /\ family = "rp2040" /\ loop = "erase" /\ next = Sector(op.span[1])
  /\ ~flash_mode /\ flash = flash0
  /\ \/ todo \in {Enter7, Enter6, Enter5, Enter4, Enter3} /\ Xip
     \/ todo = Entered2 /\ mode = "command"
     \/ todo = Entered1 /\ mode = "command" /\ erased = {}

Erasing ==
  /\ Writing /\ loop = "erase" /\ Ready
  /\ \E s \in Sectors :
       /\ next = s + 1 /\ s \notin erased
       /\ \/ family = "rp2040" /\ todo = RomErase(s)
          \/ family = "rp2040" /\ todo = Noted(s) /\ Wiped(s)
          \/ family = "nrf52" /\ todo = Nvmc6(s)
          \/ family = "nrf52" /\ todo \in {Nvmc5(s), Nvmc4(s)} /\ config = "EEN"
          \/ family = "nrf52" /\ todo \in {Nvmc3(s), Nvmc2(s), Noted(s)} /\ Wiped(s)

Programming ==
  /\ Writing /\ loop = "program" /\ Ready
  /\ \E c \in Cells :
       /\ next = c + 1 /\ InSpan(c)
       /\ \/ family = "rp2040" /\ todo \in {RomProgram2(c), RomProgram1(c)}
          \/ family = "nrf52" /\ todo = Burning5(c)
          \/ family = "nrf52" /\ todo \in {Burning4(c), Burning3(c)} /\ config = "WEN"
          \/ family = "nrf54" /\ todo \in {Rram6(c), Rram5(c)}
          \/ family = "nrf54" /\ todo = Rram4(c) /\ config = "WEN"
          \/ family = "nrf54" /\ todo = Rram3 /\ Taken(c)
          \/ family \in {"nrf52", "nrf54"} /\ todo \in {Closing2, Closing1} /\ Taken(c)

Finishing ==
  /\ op.kind \in {"read", "resume", "reset"} /\ res = "busy" /\ loop = "none" /\ family = "rp2040" /\ flash_mode
  /\ \/ \E w \in {"read", "run"} :
          \/ todo \in {Use4(w), Use3(w), Use2(w)}
          \/ todo = Use1(w) /\ Xip
     \/ todo \in {Reset9, Reset8, Reset7}
     \/ todo = Reset6 /\ Xip

Out ==
  /\ op.kind \in {"read", "resume", "reset", "end"} /\ res = "busy" /\ loop = "none"
  /\ \/ todo \in {Use("read"), Use("run"), Reset5, Reset4, Reset3} /\ ~flash_mode
     \/ todo \in {Over2, Over1}

Between ==
  /\ todo = <<>>
  /\ loop = "erase" => Writing /\ Ready /\ family # "nrf54"
  /\ loop = "program" => Writing /\ Ready /\ op.span[1] <= next

Selecting ==
  /\ Writing /\ family = "rp2040" /\ loop = "erase" /\ next = Sector(op.span[1]) /\ flash_mode
  /\ todo = Use("select")

Course ==
  /\ loop \in {"erase", "program", "none"} /\ next \in Nat
  /\ Between \/ Entering \/ Selecting \/ Erasing \/ Programming \/ Finishing \/ Out

Modes ==
  /\ family # "rp2040" => mode = "xip" /\ ~flash_mode
  /\ flash_mode => mode = "command" \/ (todo # <<>> /\ Head(todo) = One("set", "left", 0))
  /\ mode = "command" => stranded \/ flash_mode \/ todo \in {Entered2, Entered1}

Stretch == family = "nrf52" \/ flash_mode
Account ==
  /\ Stretch => \A c \in Cells :
                  /\ Sector(c) \in erased => flash[c] \subseteq programmed[c]
                  /\ programmed[c] \subseteq {Own} \/ Sector(c) \in erased
  /\ ~Stretch => \A c \in Cells : programmed[c] = {}

Erased(c) ==
  \/ Sector(c) \in erased
  \/ loop = "erase" /\ (next <= Sector(c) \/ (Erasing /\ next = Sector(c) + 1))
Written(c) == loop = "none" \/ (loop = "program" /\ (c + 1 < next \/ (todo = <<>> /\ c < next)))

Progress ==
  op.kind = "write" /\ res # "err" => \A c \in Cells :
    /\ c \in loose \/ programmed[c] \subseteq {op.data}
    /\ IF InSpan(c)
       THEN (family # "nrf54" => Erased(c)) /\ (Written(c) => Taken(c))
       ELSE flash[c] = flash0[c] \/ (family # "nrf54" /\ programmed[c] \subseteq {Own} /\ flash[c] = {})

Types ==
  /\ family \in {"rp2040", "nrf52", "nrf54"} /\ op \in Asked \cup {None} /\ res \in {"busy", "ok", "err"}
  /\ flash \in [Cells -> SUBSET (Data \cup {Old, Own})] /\ mode \in {"xip", "command"}
  /\ config \in {"REN", "EEN", "WEN"} /\ flash_mode \in BOOLEAN /\ erased \subseteq Sectors
  /\ programmed \in [Cells -> SUBSET (Data \cup {Own})]
  /\ res = "busy" => op \in Asked
  /\ res # "busy" => todo = <<>> /\ loop = "none"

FlashInv == Types /\ Course /\ Modes /\ Account /\ Progress
-----------------------------------------------------------------------------
LEMMA Fields ==
  /\ \A h, w, x : One(h, w, x).how = h /\ One(h, w, x).what = w /\ One(h, w, x).x = x
  /\ \A w, x : Do(w, x).how = "do" /\ Do(w, x).what = w /\ Do(w, x).x = x
  BY DEF One, Do

(* What each point comes to next.                                          *)
LEMMA EnterAhead ==
  /\ Enter7 # <<>> /\ Head(Enter7) = Do("select", 0) /\ Tail(Enter7) = Enter6
  /\ Enter6 # <<>> /\ Head(Enter6) = Do("select", 0) /\ Tail(Enter6) = Enter5
  /\ Enter5 # <<>> /\ Head(Enter5) = Do("lookup", 0) /\ Tail(Enter5) = Enter4
  /\ Enter4 # <<>> /\ Head(Enter4) = Do("connect_flash", 0) /\ Tail(Enter4) = Enter3
  /\ Enter3 # <<>> /\ Head(Enter3) = Do("exit_xip", 0) /\ Tail(Enter3) = Entered2
  /\ Entered2 # <<>> /\ Head(Entered2) = One("set", "fresh", 0) /\ Tail(Entered2) = Entered1
  /\ Entered1 # <<>> /\ Head(Entered1) = One("set", "entered", 0) /\ Tail(Entered1) = <<>>
  BY DEF Enter7, Enter6, Enter5, Enter4, Enter3, Entered2, Entered1

LEMMA EraseAhead ==
  \A s :
  /\ RomErase(s) # <<>> /\ Head(RomErase(s)) = Do("erase", s) /\ Tail(RomErase(s)) = Noted(s)
  /\ Nvmc6(s) # <<>> /\ Head(Nvmc6(s)) = Do("config", "EEN") /\ Tail(Nvmc6(s)) = Nvmc5(s)
  /\ Nvmc5(s) # <<>> /\ Head(Nvmc5(s)) = Do("wait", 0) /\ Tail(Nvmc5(s)) = Nvmc4(s)
  /\ Nvmc4(s) # <<>> /\ Head(Nvmc4(s)) = Do("erase", s) /\ Tail(Nvmc4(s)) = Nvmc3(s)
  /\ Nvmc3(s) # <<>> /\ Head(Nvmc3(s)) = Do("wait", 0) /\ Tail(Nvmc3(s)) = Nvmc2(s)
  /\ Nvmc2(s) # <<>> /\ Head(Nvmc2(s)) = Do("config", "REN") /\ Tail(Nvmc2(s)) = Noted(s)
  /\ Noted(s) # <<>> /\ Head(Noted(s)) = One("set", "erased", s) /\ Tail(Noted(s)) = <<>>
  BY DEF RomErase, Nvmc6, Nvmc5, Nvmc4, Nvmc3, Nvmc2, Noted

LEMMA ProgramAhead ==
  \A c :
  /\ RomProgram2(c) # <<>> /\ Head(RomProgram2(c)) = Do("stage", c) /\ Tail(RomProgram2(c)) = RomProgram1(c)
  /\ RomProgram1(c) # <<>> /\ Head(RomProgram1(c)) = Do("program", c) /\ Tail(RomProgram1(c)) = <<>>
  /\ Burning5(c) # <<>> /\ Head(Burning5(c)) = Do("config", "WEN") /\ Tail(Burning5(c)) = Burning4(c)
  /\ Burning4(c) # <<>> /\ Head(Burning4(c)) = Do("wait", 0) /\ Tail(Burning4(c)) = Burning3(c)
  /\ Burning3(c) # <<>> /\ Head(Burning3(c)) = Do("program", c) /\ Tail(Burning3(c)) = Closing2
  /\ Rram6(c) # <<>> /\ Head(Rram6(c)) = Do("edge", c) /\ Tail(Rram6(c)) = Rram5(c)
  /\ Rram5(c) # <<>> /\ Head(Rram5(c)) = Do("config", "WEN") /\ Tail(Rram5(c)) = Rram4(c)
  /\ Rram4(c) # <<>> /\ Head(Rram4(c)) = Do("program", c) /\ Tail(Rram4(c)) = Rram3
  /\ Rram3 # <<>> /\ Head(Rram3) = Do("commit", 0) /\ Tail(Rram3) = Closing2
  /\ Closing2 # <<>> /\ Head(Closing2) = Do("wait", 0) /\ Tail(Closing2) = Closing1
  /\ Closing1 # <<>> /\ Head(Closing1) = Do("config", "REN") /\ Tail(Closing1) = <<>>
  BY DEF RomProgram2, RomProgram1, Burning5, Burning4, Burning3, Rram6, Rram5, Rram4, Rram3, Closing2, Closing1

LEMMA ProgramHeads ==
  /\ \A c : Head(RomProgram2(c)).how = "do" /\ Head(RomProgram2(c)).what = "stage"
  /\ \A c : Head(RomProgram1(c)).how = "do" /\ Head(RomProgram1(c)).what = "program" /\ Head(RomProgram1(c)).x = c
  /\ \A c : Head(Burning5(c)).how = "do" /\ Head(Burning5(c)).what = "config" /\ Head(Burning5(c)).x = "WEN"
  /\ \A c : Head(Burning4(c)).how = "do" /\ Head(Burning4(c)).what = "wait"
  /\ \A c : Head(Burning3(c)).how = "do" /\ Head(Burning3(c)).what = "program" /\ Head(Burning3(c)).x = c
  /\ \A c : Head(Rram6(c)).how = "do" /\ Head(Rram6(c)).what = "edge"
  /\ \A c : Head(Rram5(c)).how = "do" /\ Head(Rram5(c)).what = "config" /\ Head(Rram5(c)).x = "WEN"
  /\ \A c : Head(Rram4(c)).how = "do" /\ Head(Rram4(c)).what = "program" /\ Head(Rram4(c)).x = c
  /\ Head(Rram3).how = "do" /\ Head(Rram3).what = "commit"
  /\ Head(Closing2).how = "do" /\ Head(Closing2).what = "wait"
  /\ Head(Closing1).how = "do" /\ Head(Closing1).what = "config" /\ Head(Closing1).x = "REN"
  <1>1. ASSUME NEW c PROVE Head(RomProgram2(c)).how = "do" /\ Head(RomProgram2(c)).what = "stage"
    BY ProgramAhead, Fields
  <1>2. ASSUME NEW c PROVE Head(RomProgram1(c)).how = "do" /\ Head(RomProgram1(c)).what = "program" /\ Head(RomProgram1(c)).x = c
    BY ProgramAhead, Fields
  <1>3. ASSUME NEW c PROVE Head(Burning5(c)).how = "do" /\ Head(Burning5(c)).what = "config" /\ Head(Burning5(c)).x = "WEN"
    BY SMTT(30), ProgramAhead, Fields
  <1>4. ASSUME NEW c PROVE Head(Burning4(c)).how = "do" /\ Head(Burning4(c)).what = "wait"
    BY ProgramAhead, Fields
  <1>5. ASSUME NEW c PROVE Head(Burning3(c)).how = "do" /\ Head(Burning3(c)).what = "program" /\ Head(Burning3(c)).x = c
    BY ProgramAhead, Fields
  <1>6. ASSUME NEW c PROVE Head(Rram6(c)).how = "do" /\ Head(Rram6(c)).what = "edge"
    BY SMTT(30), ProgramAhead, Fields
  <1>7. ASSUME NEW c PROVE Head(Rram5(c)).how = "do" /\ Head(Rram5(c)).what = "config" /\ Head(Rram5(c)).x = "WEN"
    BY SMTT(30), ProgramAhead, Fields
  <1>8. ASSUME NEW c PROVE Head(Rram4(c)).how = "do" /\ Head(Rram4(c)).what = "program" /\ Head(Rram4(c)).x = c
    BY SMTT(30), ProgramAhead, Fields
  <1>9. Head(Rram3).how = "do" /\ Head(Rram3).what = "commit"
    BY ProgramAhead, Fields
  <1>10. Head(Closing2).how = "do" /\ Head(Closing2).what = "wait"
    BY ProgramAhead, Fields
  <1>11. Head(Closing1).how = "do" /\ Head(Closing1).what = "config" /\ Head(Closing1).x = "REN"
    BY ProgramAhead, Fields
  <1>12. QED  BY <1>1, <1>2, <1>3, <1>4, <1>5, <1>6, <1>7, <1>8, <1>9, <1>10, <1>11

LEMMA Programs ==
  ASSUME Programming PROVE todo # <<>> /\ Step.how = "do"
  <1>1. PICK c \in Cells : \/ todo \in {RomProgram2(c), RomProgram1(c)}
                          \/ todo \in {Burning5(c), Burning4(c), Burning3(c)}
                          \/ todo \in {Rram6(c), Rram5(c), Rram4(c)}
                          \/ todo \in {Rram3, Closing2, Closing1}
    BY DEF Programming
  <1>2. CASE todo \in {RomProgram2(c), RomProgram1(c)}  BY <1>2, ProgramHeads, ProgramAhead DEF Step
  <1>3. CASE todo \in {Burning5(c), Burning4(c), Burning3(c)}  BY <1>3, ProgramHeads, ProgramAhead DEF Step
  <1>4. CASE todo \in {Rram6(c), Rram5(c), Rram4(c)}  BY SMTT(30), <1>4, ProgramHeads, ProgramAhead DEF Step
  <1>5. CASE todo \in {Rram3, Closing2, Closing1}  BY ZenonT(30), <1>5, ProgramHeads, ProgramAhead DEF Step
  <1>6. QED  BY <1>1, <1>2, <1>3, <1>4, <1>5

LEMMA UseAhead ==
  \A w :
  /\ Use4(w) # <<>> /\ Head(Use4(w)) = One("skip", "select", 2) /\ Tail(Use4(w)) = Use3(w)
  /\ Use3(w) # <<>> /\ Head(Use3(w)) = One("try", "flush", 0) /\ Tail(Use3(w)) = Use2(w)
  /\ Use2(w) # <<>> /\ Head(Use2(w)) = One("try", "enter_xip", 0) /\ Tail(Use2(w)) = Use1(w)
  /\ Use1(w) # <<>> /\ Head(Use1(w)) = One("set", "left", 0) /\ Tail(Use1(w)) = Use(w)
  /\ Use(w) # <<>> /\ Head(Use(w)) = Do(w, 0) /\ Tail(Use(w)) = <<>>
  BY DEF Use4, Use3, Use2, Use1, Use

LEMMA ResetAhead ==
  /\ Reset9 # <<>> /\ Head(Reset9) = One("skip", "select", 2) /\ Tail(Reset9) = Reset8
  /\ Reset8 # <<>> /\ Head(Reset8) = One("try", "flush", 0) /\ Tail(Reset8) = Reset7
  /\ Reset7 # <<>> /\ Head(Reset7) = One("try", "enter_xip", 0) /\ Tail(Reset7) = Reset6
  /\ Reset6 # <<>> /\ Head(Reset6) = One("set", "left", 0) /\ Tail(Reset6) = Reset5
  /\ Reset5 # <<>> /\ Head(Reset5) = Do("select", 0) /\ Tail(Reset5) = Reset4
  /\ Reset4 # <<>> /\ Head(Reset4) = Do("demcr", 0) /\ Tail(Reset4) = Reset3
  /\ Reset3 # <<>> /\ Head(Reset3) = One("try", "sysreset", 0) /\ Tail(Reset3) = Over2
  /\ Over2 # <<>> /\ Head(Over2) = One("set", "forget", 0) /\ Tail(Over2) = Over1
  /\ Over1 # <<>> /\ Head(Over1) = Do("reconnect", 0) /\ Tail(Over1) = <<>>
  BY DEF Reset9, Reset8, Reset7, Reset6, Reset5, Reset4, Reset3, Over2, Over1

LEMMA Skip ==
  ASSUME NEW X, NEW t \in Seq(X), t # <<>>, Tail(t) # <<>>, Tail(Tail(t)) # <<>>
  PROVE  SubSeq(t, 4, Len(t)) = Tail(Tail(Tail(t)))
  <1> DEFINE u == Tail(t)
             v == Tail(u)
             w == Tail(v)
             z == SubSeq(t, 4, Len(t))
  <1>1. /\ Len(t) \in Nat /\ Len(t) > 0 /\ u \in Seq(X) /\ Len(u) = Len(t) - 1
        /\ \A i \in 1 .. Len(u) : u[i] = t[i + 1]
    BY HeadTailProperties, EmptySeq, LenProperties
  <1>2. /\ v \in Seq(X) /\ Len(v) = Len(u) - 1 /\ Len(u) > 0
        /\ \A i \in 1 .. Len(v) : v[i] = u[i + 1]
    BY <1>1, HeadTailProperties, EmptySeq, LenProperties
  <1>3. /\ w \in Seq(X) /\ Len(w) = Len(v) - 1 /\ Len(v) > 0
        /\ \A i \in 1 .. Len(w) : w[i] = v[i + 1]
    <2>1. v # <<>>  OBVIOUS
    <2> HIDE DEF v, u
    <2>2. QED  BY <1>2, <2>1, HeadTailProperties, EmptySeq, LenProperties
  <1>4. Len(w) = Len(t) - 3 /\ Len(w) \in Nat  BY <1>1, <1>2, <1>3, LenProperties
  <1>5. \A i \in 1 .. Len(w) : w[i] = t[i + 3]  BY <1>1, <1>2, <1>3, <1>4
  <1>6. /\ z \in Seq(X) /\ Len(z) = Len(t) - 3
        /\ \A i \in 1 .. Len(z) : z[i] = t[i + 3]
    <2>1. PICK n : n = Len(t)  OBVIOUS
    <2>2. n \in Nat /\ n > 2 /\ \A i \in 4 .. n : t[i] \in X
      BY <1>1, <1>4, <2>1, ElementOfSeq
    <2>3. /\ SubSeq(t, 4, n) \in Seq(X)
          /\ Len(SubSeq(t, 4, n)) = (IF 4 <= n THEN n - 4 + 1 ELSE 0)
          /\ \A i \in 1 .. n - 4 + 1 : SubSeq(t, 4, n)[i] = t[4 + i - 1]
      BY <2>2, SubSeqProperties
    <2>4. z = SubSeq(t, 4, n)  BY <2>1
    <2> HIDE DEF z
    <2>5. \A i \in 1 .. n - 3 : 4 + i - 1 = i + 3  BY <2>2
    <2>6. QED  BY SMTT(30), <2>1, <2>2, <2>3, <2>4, <2>5
  <1> HIDE DEF u, v, w, z
  <1>7. z = w  BY <1>3, <1>4, <1>5, <1>6, SeqEqual
  <1>8. QED  BY <1>7 DEF u, v, w, z

LEMMA SkipUse == ASSUME NEW w PROVE SubSeq(Use4(w), 4, Len(Use4(w))) = Use1(w)
  <1>1. PICK X : {One("skip", "select", 2), One("try", "flush", 0), One("try", "enter_xip", 0),
                  One("set", "left", 0), Do(w, 0)} \subseteq X
    OBVIOUS
  <1>2. Use4(w) \in Seq(X)  BY <1>1 DEF Use4
  <1>3. Tail(Tail(Tail(Use4(w)))) = Use1(w) /\ Use4(w) # <<>> /\ Tail(Use4(w)) # <<>>
        /\ Tail(Tail(Use4(w))) # <<>>
    BY UseAhead
  <1>4. QED  BY <1>2, <1>3, Skip

LEMMA SkipReset == SubSeq(Reset9, 4, Len(Reset9)) = Reset6
  <1>1. PICK X : {One("skip", "select", 2), One("try", "flush", 0), One("try", "enter_xip", 0),
                  One("set", "left", 0), Do("select", 0), Do("demcr", 0), One("try", "sysreset", 0),
                  One("set", "forget", 0), Do("reconnect", 0)} \subseteq X
    OBVIOUS
  <1>2. Reset9 \in Seq(X)  BY <1>1 DEF Reset9
  <1>3. QED  BY <1>2, ResetAhead, Skip

LEMMA SectorOrder ==
  \A c \in Cells : /\ c \in Nat /\ Sector(c) \in Sectors /\ Sector(c) \in Nat
                   /\ \A d \in Cells : c <= d => Sector(c) <= Sector(d)
  BY FlashBounds DEF Cells, Sector, Sectors

LEMMA AskedKinds ==
  /\ \A o \in Asked : /\ o.span[1] \in Cells \/ o.kind # "write"
                      /\ o.kind \in {"write", "read", "resume", "reset", "end"}
                      /\ o.kind = "write" => /\ o.span[1] \in Cells /\ o.span[2] \in Cells
                                             /\ o.span[1] <= o.span[2] /\ o.data \in Data
  /\ None.kind = "none"
  BY DEF Asked, Spans, None
-----------------------------------------------------------------------------
(* Where the accesses stand that matter.                                   *)
LEMMA Heads ==
  ASSUME Course, todo # <<>>
  PROVE  /\ Step.what = "config" => Step.x \in {"REN", "EEN", "WEN"}
         /\ Step.what = "erase" =>
              /\ Erasing /\ Step.x \in Sectors \ erased /\ next = Step.x + 1
              /\ family = "rp2040" \/ (family = "nrf52" /\ config = "EEN")
         /\ Step.what = "program" =>
              /\ Programming /\ Step.x \in Cells /\ InSpan(Step.x) /\ next = Step.x + 1
              /\ family = "rp2040" \/ config = "WEN"
         /\ Step.what \in {"read", "run", "sysreset"} =>
              Out /\ ~flash_mode /\ todo \notin {Entered2, Entered1}
         /\ Step.what = "exit_xip" => Entering /\ todo = Enter3
         /\ Step.what = "enter_xip" => Finishing
  <1> DEFINE Goal ==
         /\ Step.what = "config" => Step.x \in {"REN", "EEN", "WEN"}
         /\ Step.what = "erase" =>
              /\ Erasing /\ Step.x \in Sectors \ erased /\ next = Step.x + 1
              /\ family = "rp2040" \/ (family = "nrf52" /\ config = "EEN")
         /\ Step.what = "program" =>
              /\ Programming /\ Step.x \in Cells /\ InSpan(Step.x) /\ next = Step.x + 1
              /\ family = "rp2040" \/ config = "WEN"
         /\ Step.what \in {"read", "run", "sysreset"} =>
              Out /\ ~flash_mode /\ todo \notin {Entered2, Entered1}
         /\ Step.what = "exit_xip" => Entering /\ todo = Enter3
         /\ Step.what = "enter_xip" => Finishing
  <1>1. CASE Between  BY <1>1 DEF Between
  <1>2. CASE Entering  BY <1>2, EnterAhead, Fields DEF Entering, Step
  <1>3. CASE Selecting  BY <1>3, UseAhead, Fields DEF Selecting, Step
  <1>4. CASE Erasing
    <2>1. PICK s \in Sectors :
            /\ next = s + 1 /\ s \notin erased
            /\ \/ family = "rp2040" /\ todo = RomErase(s)
               \/ family = "rp2040" /\ todo = Noted(s) /\ Wiped(s)
               \/ family = "nrf52" /\ todo = Nvmc6(s)
               \/ family = "nrf52" /\ todo \in {Nvmc5(s), Nvmc4(s)} /\ config = "EEN"
               \/ family = "nrf52" /\ todo \in {Nvmc3(s), Nvmc2(s), Noted(s)} /\ Wiped(s)
      BY <1>4 DEF Erasing
    <2>2. QED  BY <1>4, <2>1, EraseAhead, Fields DEF Step
  <1>5. CASE Programming
    <2>1. PICK c \in Cells :
            /\ next = c + 1 /\ InSpan(c)
            /\ \/ family = "rp2040" /\ todo \in {RomProgram2(c), RomProgram1(c)}
               \/ family = "nrf52" /\ todo = Burning5(c)
               \/ family = "nrf52" /\ todo \in {Burning4(c), Burning3(c)} /\ config = "WEN"
               \/ family = "nrf54" /\ todo \in {Rram6(c), Rram5(c)}
               \/ family = "nrf54" /\ todo = Rram4(c) /\ config = "WEN"
               \/ family = "nrf54" /\ todo = Rram3 /\ Taken(c)
               \/ family \in {"nrf52", "nrf54"} /\ todo \in {Closing2, Closing1} /\ Taken(c)
      BY <1>5 DEF Programming
    <2>2. CASE family = "rp2040" /\ todo \in {RomProgram2(c), RomProgram1(c)}
      <3>1. Step.what = "stage" \/ (Step.what = "program" /\ Step.x = c)
        BY <2>2, ProgramHeads DEF Step
      <3>2. QED  BY <1>5, <2>1, <2>2, <3>1
    <2>3. CASE todo \in {Burning4(c), Burning3(c), Rram4(c)} /\ config = "WEN"
      <3>1. Step.what = "wait" \/ (Step.what = "program" /\ Step.x = c)
        BY <2>3, ProgramHeads DEF Step
      <3>2. QED  BY <1>5, <2>1, <2>3, <3>1
    <2>4. CASE todo \in {Burning5(c), Rram6(c), Rram5(c), Rram3, Closing2, Closing1}
      <3>1. Step.what \in {"edge", "commit", "wait"} \/ (Step.what = "config" /\ Step.x \in {"REN", "WEN"})
        BY <2>4, ProgramHeads DEF Step
      <3>2. QED  BY <3>1
    <2>5. QED  BY <2>1, <2>2, <2>3, <2>4
  <1>6. CASE Finishing
    <2>1. ASSUME NEW w, todo \in {Use4(w), Use3(w), Use2(w), Use1(w)} PROVE Goal
      BY <1>6, <2>1, UseAhead, Fields DEF Step
    <2>2. CASE todo \in {Reset9, Reset8, Reset7, Reset6}
      BY SMTT(30), <1>6, <2>2, ResetAhead, Fields DEF Step
    <2>3. QED  BY <1>6, <2>1, <2>2 DEF Finishing
  <1>7. CASE Out
    <2>1. CASE todo \in {Use("read"), Use("run"), Reset5, Reset4, Reset3} /\ ~flash_mode
      <3> DEFINE Plain == Step.how # "set" /\ Step.what \in {"read", "run", "select", "demcr", "sysreset"}
      <3>4. ASSUME todo = Use("read") \/ todo = Use("run") PROVE Plain
        BY <3>4, UseAhead, Fields DEF Step
      <3>5. ASSUME todo \in {Reset5, Reset4, Reset3} PROVE Plain
        BY SMTT(30), <3>5, ResetAhead, Fields DEF Step
      <3>1. Plain  BY <2>1, <3>4, <3>5
      <3>2. todo \notin {Entered2, Entered1}  BY <3>1, EnterAhead, Fields DEF Step
      <3>3. QED  BY <1>7, <2>1, <3>1, <3>2
    <2>2. CASE todo \in {Over2, Over1}  BY <1>7, <2>2, ResetAhead, Fields DEF Step
    <2>3. QED  BY <1>7, <2>1, <2>2 DEF Out
  <1>8. QED  BY <1>1, <1>2, <1>3, <1>4, <1>5, <1>6, <1>7 DEF Course
-----------------------------------------------------------------------------
(* An access that succeeds goes to the next point.                         *)
LEMMA Kept ==
  ASSUME Succeeds \/ OwnWrite
  PROVE  /\ UNCHANGED <<family, op, flash_mode, erased, flash0, loose, res, loop, next>>
         /\ todo # <<>> /\ todo' = Tail(todo) /\ Step.how # "set"
  BY DEF Succeeds, OwnWrite, Access, known, place

LEMMA Same ==
  ASSUME Succeeds, Step.what \notin {"erase", "program"}
  PROVE  flash' = flash /\ programmed' = programmed
  BY DEF Succeeds, Effect

LEMMA SucceedsEntering == ASSUME Entering, Succeeds PROVE Entering'
  <1>1. /\ UNCHANGED <<family, op, flash_mode, erased, flash0, loose, res, loop, next>>
        /\ todo # <<>> /\ todo' = Tail(todo) /\ Step.how # "set"
    BY Kept
  <1>2. Writing' /\ family' = "rp2040" /\ loop' = "erase" /\ next' = Sector(op'.span[1]) /\ ~flash_mode'
    BY <1>1 DEF Entering, Writing
  <1>3. todo \in {Enter7, Enter6, Enter5, Enter4, Enter3} /\ Xip /\ flash = flash0
    <2>1. Head(todo).how # "set"  BY <1>1 DEF Step
    <2>2. QED  BY <2>1, EnterAhead, Fields DEF Entering
  <1>4. flash' = flash0' /\ (todo = Enter3 => mode' = "command") /\ (todo # Enter3 => Xip')
    <2>1. CASE todo = Enter3
      <3>1. Step.what = "exit_xip"  BY <2>1, EnterAhead, Fields DEF Step
      <3>2. QED  BY <1>1, <1>3, <2>1, <3>1, Same DEF Succeeds, Effect
    <2>2. CASE todo \in {Enter7, Enter6, Enter5, Enter4}
      <3>1. Step.what \in {"select", "lookup", "connect_flash"}
        BY <2>2, EnterAhead, Fields DEF Step
      <3>2. mode' = mode  BY <3>1 DEF Succeeds, Effect
      <3>3. QED  BY <1>1, <1>3, <2>2, <3>1, <3>2, Same, EnterAhead, Fields DEF Succeeds, Xip
    <2>3. QED  BY <1>3, <2>1, <2>2
  <1>5. CASE todo = Enter3
    <2>1. todo' = Entered2  BY <1>1, <1>5, EnterAhead
    <2>2. QED  BY <1>2, <1>4, <1>5, <2>1 DEF Entering
  <1>6. CASE todo \in {Enter7, Enter6, Enter5, Enter4} /\ todo # Enter3
    <2>1. todo' \in {Enter6, Enter5, Enter4, Enter3}  BY <1>1, <1>6, EnterAhead
    <2>2. QED  BY <1>2, <1>4, <1>6, <2>1 DEF Entering
  <1>7. QED  BY <1>3, <1>5, <1>6

LEMMA SucceedsErasing ==
  ASSUME Types, Course, Modes, Erasing, Succeeds PROVE Erasing'
  <1>1. /\ UNCHANGED <<family, op, flash_mode, erased, flash0, loose, res, loop, next>>
        /\ todo # <<>> /\ todo' = Tail(todo) /\ Step.how # "set"
    BY Kept
  <1>2. PICK s \in Sectors :
          /\ next = s + 1 /\ s \notin erased
          /\ \/ family = "rp2040" /\ todo = RomErase(s)
             \/ family = "rp2040" /\ todo = Noted(s) /\ Wiped(s)
             \/ family = "nrf52" /\ todo = Nvmc6(s)
             \/ family = "nrf52" /\ todo \in {Nvmc5(s), Nvmc4(s)} /\ config = "EEN"
             \/ family = "nrf52" /\ todo \in {Nvmc3(s), Nvmc2(s), Noted(s)} /\ Wiped(s)
    BY DEF Erasing
  <1>3. todo # Noted(s)  BY <1>1, EraseAhead, Fields DEF Step
  <1>4. Writing' /\ loop' = "erase" /\ Ready' /\ next' = s + 1 /\ s \notin erased' /\ Writing /\ Ready
    BY <1>1, <1>2 DEF Erasing, Writing, Ready
  <1>5. ASSUME Step = Do("erase", s), Erasable PROVE Wiped(s)'
    <2>1. Step.what = "erase" /\ Step.x = s  BY <1>5, Fields
    <2>3. flash' = Wipe({c \in Cells : Sector(c) = s})  BY <2>1 DEF Succeeds, Effect
    <2>2. QED  BY <1>5, <2>3 DEF Wiped, Wipe
  <1>6. CASE family = "rp2040" /\ todo = RomErase(s)
    <2>1. Step = Do("erase", s) /\ todo' = Noted(s)  BY <1>1, <1>6, EraseAhead DEF Step
    <2>2. mode = "command"
      <3>1. flash_mode  BY <1>4, <1>6 DEF Ready
      <3>2. Step # One("set", "left", 0)  BY <2>1, Fields
      <3>3. QED  BY <3>1, <3>2 DEF Modes, Step
    <2>3. Wiped(s)'  BY <1>5, <1>6, <2>1, <2>2 DEF Erasable
    <2>4. QED  BY <1>1, <1>4, <1>6, <2>1, <2>3 DEF Erasing
  <1>7. CASE family = "nrf52" /\ todo = Nvmc6(s)
    <2>1. Step = Do("config", "EEN") /\ todo' = Nvmc5(s)  BY <1>1, <1>7, EraseAhead DEF Step
    <2>2. Step.what = "config" /\ Step.x = "EEN"  BY <2>1, Fields
    <2>3. config' = "EEN"  BY <2>2 DEF Succeeds, Effect
    <2>4. QED  BY <1>1, <1>4, <1>7, <2>1, <2>3 DEF Erasing
  <1>8. CASE family = "nrf52" /\ todo \in {Nvmc5(s), Nvmc4(s)} /\ config = "EEN"
    <2>1. CASE todo = Nvmc5(s)
      <3>1. Step.what = "wait" /\ todo' = Nvmc4(s)  BY <1>1, <2>1, EraseAhead, Fields DEF Step
      <3>2. config' = "EEN"  BY <1>8, <3>1 DEF Succeeds, Effect
      <3>3. QED  BY <1>1, <1>4, <1>8, <3>1, <3>2 DEF Erasing
    <2>2. CASE todo = Nvmc4(s)
      <3>1. Step = Do("erase", s) /\ todo' = Nvmc3(s)  BY <1>1, <2>2, EraseAhead DEF Step
      <3>2. Wiped(s)'  BY <1>5, <1>8, <3>1 DEF Erasable
      <3>3. QED  BY <1>1, <1>4, <1>8, <3>1, <3>2 DEF Erasing
    <2>3. QED  BY <1>8, <2>1, <2>2
  <1>9. CASE family = "nrf52" /\ todo \in {Nvmc3(s), Nvmc2(s)} /\ Wiped(s)
    <2>1. Step.what \in {"wait", "config"} /\ todo' \in {Nvmc2(s), Noted(s)}
      BY <1>1, <1>9, EraseAhead, Fields DEF Step
    <2>2. Wiped(s)'  BY <1>9, <2>1, Same DEF Wiped
    <2>3. QED  BY <1>1, <1>4, <1>9, <2>1, <2>2 DEF Erasing
  <1>10. QED  BY <1>2, <1>3, <1>6, <1>7, <1>8, <1>9

(* A cell that is programmed holds the datum alone: its sector is erased,  *)
(* and nothing else has been sent to it since.                             *)
LEMMA Burnt ==
  ASSUME FlashInv, Programming, Succeeds, NEW c \in Cells, Step = Do("program", c), InSpan(c),
         family = "rp2040" \/ config = "WEN"
  PROVE  Taken(c)'
  <1>1. /\ UNCHANGED <<family, op, flash_mode, erased, flash0, loose, res, loop, next>>
        /\ todo # <<>>
    BY Kept
  <1>2. Step.what = "program" /\ Step.x = c  BY Fields
  <1>3. flash' = Burn(c, op.data)  BY <1>2 DEF Succeeds, Effect
  <1>4. Writing /\ loop = "program" /\ Ready  BY DEF Programming
  <1>5. DOMAIN flash = Cells  BY DEF FlashInv, Types
  <1>6. Programmable
    <2>1. CASE family = "rp2040"
      <3>1. Step # One("set", "left", 0)  BY <1>2, Fields
      <3>2. QED  BY <1>4, <2>1, <3>1 DEF Ready, FlashInv, Modes, Step, Programmable
    <2>2. QED  BY <2>1 DEF Programmable
  <1>7. CASE family = "nrf54"
    <2>1. flash'[c] = {op.data}  BY <1>3, <1>5, <1>6, <1>7 DEF Burn
    <2>2. QED  BY <1>1, <2>1 DEF Taken
  <1>8. CASE family # "nrf54"
    <2>1. flash'[c] = flash[c] \cup {op.data}  BY <1>3, <1>5, <1>6, <1>8 DEF Burn
    <2>2. op.kind = "write" /\ res # "err"  BY <1>4 DEF Writing
    <2>3. Sector(c) \in erased /\ (c \in loose \/ programmed[c] \subseteq {op.data})
      BY <1>4, <1>8, <2>2 DEF FlashInv, Progress, Erased
    <2>4. Stretch  BY <1>4, <1>8 DEF FlashInv, Types, Ready, Stretch
    <2>5. flash[c] \subseteq programmed[c]  BY <2>3, <2>4 DEF FlashInv, Account
    <2>6. QED  BY <1>1, <2>1, <2>3, <2>5 DEF Taken
  <1>9. QED  BY <1>7, <1>8

LEMMA SucceedsProgramming ==
  ASSUME FlashInv, Programming, Succeeds
  PROVE  Programming' \/ (todo' = <<>> /\ \E c \in Cells : next = c + 1 /\ Taken(c)')
  <1>1. /\ UNCHANGED <<family, op, flash_mode, erased, flash0, loose, res, loop, next>>
        /\ todo # <<>> /\ todo' = Tail(todo) /\ Step.how # "set"
    BY Kept
  <1>2. PICK c \in Cells :
          /\ next = c + 1 /\ InSpan(c)
          /\ \/ family = "rp2040" /\ todo \in {RomProgram2(c), RomProgram1(c)}
             \/ family = "nrf52" /\ todo = Burning5(c)
             \/ family = "nrf52" /\ todo \in {Burning4(c), Burning3(c)} /\ config = "WEN"
             \/ family = "nrf54" /\ todo \in {Rram6(c), Rram5(c)}
             \/ family = "nrf54" /\ todo = Rram4(c) /\ config = "WEN"
             \/ family = "nrf54" /\ todo = Rram3 /\ Taken(c)
             \/ family \in {"nrf52", "nrf54"} /\ todo \in {Closing2, Closing1} /\ Taken(c)
    BY DEF Programming
  <1>3. Writing' /\ loop' = "program" /\ Ready' /\ next' = c + 1 /\ InSpan(c)'
    BY <1>1, <1>2 DEF Programming, Writing, Ready, InSpan
  <1>5. ASSUME Step.what \notin {"erase", "program"}, Taken(c) PROVE Taken(c)'
    BY <1>1, <1>5, Same DEF Taken
  <1>6. ASSUME Step.what = "config", Step.x = "WEN" PROVE config' = "WEN"
    BY <1>6 DEF Succeeds, Effect
  <1>7. CASE family = "rp2040" /\ todo = RomProgram2(c)
    <2>1. todo' = RomProgram1(c)  BY <1>1, <1>7, ProgramAhead
    <2>2. QED  BY <1>1, <1>3, <1>7, <2>1 DEF Programming
  <1>8. CASE family = "rp2040" /\ todo = RomProgram1(c)
    <2>1. Step = Do("program", c) /\ todo' = <<>>  BY <1>1, <1>8, ProgramAhead DEF Step
    <2>2. QED  BY <1>2, <1>8, <2>1, Burnt
  <1>9. CASE family = "nrf52" /\ todo = Burning5(c)
    <2>1. Step = Do("config", "WEN") /\ todo' = Burning4(c)  BY <1>1, <1>9, ProgramAhead DEF Step
    <2>2. config' = "WEN"  BY <1>6, <2>1, Fields
    <2>3. QED  BY <1>1, <1>3, <1>9, <2>1, <2>2 DEF Programming
  <1>10. CASE family = "nrf52" /\ todo = Burning4(c) /\ config = "WEN"
    <2>1. Step.what = "wait" /\ todo' = Burning3(c)
      BY <1>1, <1>10, ProgramAhead, Fields DEF Step
    <2>2. config' = "WEN"  BY <1>10, <2>1 DEF Succeeds, Effect
    <2>3. QED  BY <1>1, <1>3, <1>10, <2>1, <2>2 DEF Programming
  <1>11. CASE family = "nrf52" /\ todo = Burning3(c) /\ config = "WEN"
    <2>1. Step = Do("program", c) /\ todo' = Closing2  BY <1>1, <1>11, ProgramAhead DEF Step
    <2>2. Taken(c)'  BY <1>2, <1>11, <2>1, Burnt
    <2>3. QED  BY <1>1, <1>3, <1>11, <2>1, <2>2 DEF Programming
  <1>12. CASE family = "nrf54" /\ todo = Rram6(c)
    <2>1. todo' = Rram5(c)  BY <1>1, <1>12, ProgramAhead
    <2>2. QED  BY <1>1, <1>3, <1>12, <2>1 DEF Programming
  <1>13. CASE family = "nrf54" /\ todo = Rram5(c)
    <2>1. Step = Do("config", "WEN") /\ todo' = Rram4(c)  BY <1>1, <1>13, ProgramAhead DEF Step
    <2>2. config' = "WEN"  BY <1>6, <2>1, Fields
    <2>3. QED  BY <1>1, <1>3, <1>13, <2>1, <2>2 DEF Programming
  <1>14. CASE family = "nrf54" /\ todo = Rram4(c) /\ config = "WEN"
    <2>1. Step = Do("program", c) /\ todo' = Rram3  BY <1>1, <1>14, ProgramAhead DEF Step
    <2>2. Taken(c)'  BY <1>2, <1>14, <2>1, Burnt
    <2>3. QED  BY <1>1, <1>3, <1>14, <2>1, <2>2 DEF Programming
  <1>15. CASE family = "nrf54" /\ todo = Rram3 /\ Taken(c)
    <2>1. Step.what = "commit" /\ todo' = Closing2  BY <1>1, <1>15, ProgramAhead, Fields DEF Step
    <2>2. Taken(c)'  BY <1>5, <1>15, <2>1
    <2>3. QED  BY <1>1, <1>3, <1>15, <2>1, <2>2 DEF Programming
  <1>16. CASE family \in {"nrf52", "nrf54"} /\ todo = Closing2 /\ Taken(c)
    <2>1. Step.what = "wait" /\ todo' = Closing1  BY <1>1, <1>16, ProgramAhead, Fields DEF Step
    <2>2. Taken(c)'  BY <1>5, <1>16, <2>1
    <2>3. QED  BY <1>1, <1>3, <1>16, <2>1, <2>2 DEF Programming
  <1>17. CASE family \in {"nrf52", "nrf54"} /\ todo = Closing1 /\ Taken(c)
    <2>1. Step.what = "config" /\ todo' = <<>>  BY <1>1, <1>17, ProgramAhead, Fields DEF Step
    <2>2. QED  BY <1>2, <1>5, <1>17, <2>1
  <1>18. QED
    BY <1>2, <1>7, <1>8, <1>9, <1>10, <1>11, <1>12, <1>13, <1>14, <1>15, <1>16, <1>17

LEMMA SucceedsFinishing ==
  ASSUME Finishing, Succeeds
  PROVE  Finishing' /\ (Step.what = "enter_xip" => Head(todo') = One("set", "left", 0) /\ todo' # <<>>)
  <1>1. /\ UNCHANGED <<family, op, flash_mode, erased, flash0, loose, res, loop, next>>
        /\ todo # <<>> /\ todo' = Tail(todo) /\ Head(todo).how # "set"
    BY Kept DEF Step
  <1>2. /\ op'.kind \in {"read", "resume", "reset"} /\ res' = "busy" /\ loop' = "none"
        /\ family' = "rp2040" /\ flash_mode'
    BY <1>1 DEF Finishing
  <1>3. ASSUME Step.what = "enter_xip" PROVE Xip'
    BY <1>3 DEF Succeeds, Effect, Xip
  <1>4. ASSUME NEW w \in {"read", "run"}, todo \in {Use4(w), Use3(w), Use2(w)}
        PROVE  Finishing' /\ (Step.what = "enter_xip" => Head(todo') = One("set", "left", 0) /\ todo' # <<>>)
    <2>1. CASE todo \in {Use4(w), Use3(w)}
      <3>1. todo' \in {Use3(w), Use2(w)} /\ Step.what # "enter_xip"
        BY <1>1, <2>1, UseAhead, Fields DEF Step
      <3>2. QED  BY <1>2, <3>1 DEF Finishing
    <2>2. CASE todo = Use2(w)
      <3>1. todo' = Use1(w) /\ Step.what = "enter_xip" /\ Head(Use1(w)) = One("set", "left", 0)
            /\ Use1(w) # <<>>
        BY <1>1, <2>2, UseAhead, Fields DEF Step
      <3>2. QED  BY <1>2, <1>3, <3>1 DEF Finishing
    <2>3. QED  BY <1>4, <2>1, <2>2
  <1>5. CASE todo \in {Reset9, Reset8}
    <2>1. Step.what \in {"select", "flush"}  BY <1>5, ResetAhead, Fields DEF Step
    <2>3. todo' \in {Reset8, Reset7}  BY <1>1, <1>5, ResetAhead
    <2>2. QED  BY <1>2, <2>1, <2>3 DEF Finishing
  <1>6. CASE todo = Reset7
    <2>1. todo' = Reset6 /\ Step.what = "enter_xip" /\ Head(Reset6) = One("set", "left", 0)
          /\ Reset6 # <<>>
      BY <1>1, <1>6, ResetAhead, Fields DEF Step
    <2>2. QED  BY <1>2, <1>3, <2>1 DEF Finishing
  <1>7. \A w : todo # Use1(w)  BY <1>1, UseAhead, Fields
  <1>8. todo # Reset6  BY <1>1, ResetAhead, Fields
  <1>9. QED  BY <1>4, <1>5, <1>6, <1>7, <1>8 DEF Finishing

LEMMA SucceedsOut ==
  ASSUME Out, Succeeds \/ OwnWrite
  PROVE  (Out' \/ todo' = <<>>) /\ loop' = "none"
  <1>1. /\ UNCHANGED <<family, op, flash_mode, erased, flash0, loose, res, loop, next>>
        /\ todo # <<>> /\ todo' = Tail(todo) /\ Head(todo).how # "set"
    BY Kept DEF Step
  <1>2. op'.kind \in {"read", "resume", "reset", "end"} /\ res' = "busy" /\ loop' = "none"
    BY <1>1 DEF Out
  <1>3. CASE todo \in {Use("read"), Use("run")}
    <2>1. todo' = <<>>  BY <1>1, <1>3, UseAhead
    <2>2. QED  BY <1>2, <2>1
  <1>4. CASE todo \in {Reset5, Reset4} /\ ~flash_mode
    <2>1. todo' \in {Reset4, Reset3}  BY <1>1, <1>4, ResetAhead
    <2>2. ~flash_mode'  BY <1>1, <1>4
    <2>3. QED  BY <1>2, <2>1, <2>2 DEF Out
  <1>5. CASE todo = Reset3
    <2>1. todo' = Over2  BY <1>1, <1>5, ResetAhead
    <2>2. QED  BY <1>2, <2>1 DEF Out
  <1>6. CASE todo = Over1
    <2>1. todo' = <<>>  BY <1>1, <1>6, ResetAhead
    <2>2. QED  BY <1>2, <2>1
  <1>7. todo # Over2  BY <1>1, ResetAhead, Fields
  <1>8. QED  BY <1>3, <1>4, <1>5, <1>6, <1>7 DEF Out

LEMMA SucceedsCourse == ASSUME FlashInv, Succeeds PROVE Course'
  <1>1. /\ UNCHANGED <<family, op, flash_mode, erased, flash0, loose, res, loop, next>>
        /\ todo # <<>> /\ todo' = Tail(todo)
    BY Kept
  <1>2. Types /\ Course /\ Modes  BY DEF FlashInv
  <1>3. loop' \in {"erase", "program", "none"} /\ next' \in Nat  BY <1>1, <1>2 DEF Course
  <1>4. CASE Entering  BY <1>3, <1>4, SucceedsEntering DEF Course
  <1>5. CASE Selecting
    <2>1. todo' = <<>>  BY <1>1, <1>5, UseAhead DEF Selecting
    <2>2. Writing' /\ Ready' /\ loop' = "erase" /\ family' # "nrf54"
      BY <1>1, <1>5 DEF Selecting, Writing, Ready
    <2>3. QED  BY <1>3, <2>1, <2>2 DEF Course, Between
  <1>6. CASE Erasing  BY <1>2, <1>3, <1>6, SucceedsErasing DEF Course
  <1>7. CASE Programming
    <2>1. CASE Programming'  BY <1>3, <2>1 DEF Course
    <2>2. CASE todo' = <<>>
      <3>1. Writing' /\ Ready' /\ loop' = "program"
        BY <1>1, <1>7 DEF Programming, Writing, Ready
      <3>2. op.span[1] <= next
        <4>1. PICK c \in Cells : next = c + 1 /\ InSpan(c)  BY <1>7 DEF Programming
        <4>2. op.span[1] \in Cells
          BY <1>2, <1>7, AskedKinds DEF Types, Programming, Writing
        <4>3. QED  BY <4>1, <4>2, SectorOrder DEF InSpan
      <3>3. op'.span[1] <= next'  BY <1>1, <3>2
      <3>4. QED  BY <1>3, <2>2, <3>1, <3>3 DEF Course, Between
    <2>3. QED  BY <1>7, <2>1, <2>2, SucceedsProgramming
  <1>8. CASE Finishing  BY <1>3, <1>8, SucceedsFinishing DEF Course
  <1>9. CASE Out
    <2>1. (Out' \/ todo' = <<>>) /\ loop' = "none"  BY <1>9, SucceedsOut
    <2>2. QED  BY <1>3, <2>1 DEF Course, Between
  <1>10. ~Between  BY <1>1 DEF Between
  <1>11. QED  BY <1>2, <1>4, <1>5, <1>6, <1>7, <1>8, <1>9, <1>10 DEF Course

LEMMA OwnWriteCourse == ASSUME FlashInv, OwnWrite PROVE Course' /\ Out
  <1>1. /\ UNCHANGED <<family, op, flash_mode, erased, flash0, loose, res, loop, next>>
        /\ todo # <<>> /\ todo' = Tail(todo)
    BY Kept
  <1>2. Out /\ Course
    <2>1. Step.what = "run"  BY DEF OwnWrite, RunsAndWrites
    <2>2. Course  BY DEF FlashInv
    <2>3. QED  BY <1>1, <2>1, <2>2, Heads
  <1>3. (Out' \/ todo' = <<>>) /\ loop' = "none"  BY <1>2, SucceedsOut
  <1>4. next' \in Nat  BY <1>1, <1>2 DEF Course
  <1>5. QED  BY <1>2, <1>3, <1>4 DEF Course, Between
-----------------------------------------------------------------------------
(* An access that fails ends the request, unless it is one that may fail.  *)
LEMMA MayFail ==
  ASSUME Course, todo # <<>>, Step.how \notin {"do", "set"}
  PROVE  \/ Finishing /\ \/ \E w \in {"read", "run"} : todo \in {Use4(w), Use3(w), Use2(w)}
                         \/ todo \in {Reset9, Reset8, Reset7}
         \/ Out /\ todo = Reset3
  <1>1. ~Between  BY DEF Between
  <1>2. ~Entering  BY EnterAhead, Fields DEF Entering, Step
  <1>3. ~Selecting  BY UseAhead, Fields DEF Selecting, Step
  <1>4. ~Erasing  BY EraseAhead, Fields DEF Erasing, Step
  <1>5. ~Programming  BY Programs
  <1>6. CASE Finishing
    <2>1. \A w : todo # Use1(w)  BY UseAhead, Fields DEF Step
    <2>2. todo # Reset6  BY ResetAhead, Fields DEF Step
    <2>3. QED  BY <1>6, <2>1, <2>2 DEF Finishing
  <1>7. CASE Out
    <2>1. \A w : todo # Use(w)  BY UseAhead, Fields DEF Step
    <2>2. todo \notin {Reset5, Reset4, Over2, Over1}  BY ResetAhead, Fields DEF Step
    <2>3. QED  BY <1>7, <2>1, <2>2 DEF Out
  <1>8. QED  BY <1>1, <1>2, <1>3, <1>4, <1>5, <1>6, <1>7 DEF Course

LEMMA Lost ==
  ASSUME AccessFails
  PROVE  /\ UNCHANGED <<family, op, flash_mode, erased, flash0, loose>>
         /\ todo # <<>> /\ Step.how # "set"
         /\ Step.how = "do" => todo' = <<>> /\ res' = "err" /\ loop' = "none" /\ next' = 0
         /\ Step.how = "try" => todo' = Tail(todo) /\ UNCHANGED <<res, loop, next>>
         /\ Step.how \notin {"do", "try"} =>
              todo' = SubSeq(todo, 2 + Step.x, Len(todo)) /\ UNCHANGED <<res, loop, next>>
  BY DEF AccessFails, Access, known, place, Loop

LEMMA FailsFinishing ==
  ASSUME Finishing, AccessFails, Step.how \notin {"do", "set"},
         \/ \E w \in {"read", "run"} : todo \in {Use4(w), Use3(w), Use2(w)}
         \/ todo \in {Reset9, Reset8, Reset7}
  PROVE  /\ Finishing' /\ UNCHANGED <<res, loop, next>>
         /\ Step.what = "enter_xip" => todo' # <<>> /\ Head(todo') = One("set", "left", 0)
  <1> DEFINE Goal == /\ Finishing' /\ UNCHANGED <<res, loop, next>>
                     /\ Step.what = "enter_xip" => todo' # <<>> /\ Head(todo') = One("set", "left", 0)
  <1>1. /\ UNCHANGED <<family, op, flash_mode, res, loop, next>>
        /\ Step.how = "try" => todo' = Tail(todo)
        /\ Step.how # "try" => todo' = SubSeq(todo, 2 + Step.x, Len(todo))
    BY Lost
  <1>2. /\ op'.kind \in {"read", "resume", "reset"} /\ res' = "busy" /\ loop' = "none"
        /\ family' = "rp2040" /\ flash_mode'
    BY <1>1 DEF Finishing
  <1>3. ASSUME Step.what \in {"enter_xip", "select"} PROVE Xip'
    BY <1>3 DEF AccessFails, Xip
  <1>4. ASSUME NEW w \in {"read", "run"}, todo \in {Use4(w), Use3(w), Use2(w)} PROVE Goal
    <2>1. CASE todo = Use4(w)
      <3>1. Step = One("skip", "select", 2)  BY <2>1, UseAhead DEF Step
      <3>2. Step.how # "try" /\ Step.x = 2 /\ Step.what = "select"  BY <3>1, Fields
      <3>5. 2 + Step.x = 4  BY <3>2
      <3>6. todo' = SubSeq(todo, 4, Len(todo))  BY <1>1, <3>2, <3>5
      <3>3. todo' = Use1(w)  BY <2>1, <3>6, SkipUse
      <3>4. QED  BY <1>1, <1>2, <1>3, <3>2, <3>3 DEF Finishing
    <2>2. CASE todo = Use3(w)
      <3>1. Step.how = "try" /\ Step.what = "flush"  BY <2>2, UseAhead, Fields DEF Step
      <3>2. todo' = Use2(w)  BY <1>1, <2>2, <3>1, UseAhead
      <3>3. QED  BY <1>1, <1>2, <3>1, <3>2 DEF Finishing
    <2>3. CASE todo = Use2(w)
      <3>1. Step.how = "try" /\ Step.what = "enter_xip"  BY <2>3, UseAhead, Fields DEF Step
      <3>2. todo' = Use1(w) /\ Head(Use1(w)) = One("set", "left", 0) /\ Use1(w) # <<>>
        BY <1>1, <2>3, <3>1, UseAhead
      <3>3. QED  BY <1>1, <1>2, <1>3, <3>1, <3>2 DEF Finishing
    <2>4. QED  BY <1>4, <2>1, <2>2, <2>3
  <1>5. CASE todo = Reset9
    <2>1. Step = One("skip", "select", 2)  BY <1>5, ResetAhead DEF Step
    <2>2. Step.how # "try" /\ Step.x = 2 /\ Step.what = "select"  BY <2>1, Fields
    <2>5. 2 + Step.x = 4  BY <2>2
    <2>6. todo' = SubSeq(todo, 4, Len(todo))  BY <1>1, <2>2, <2>5
    <2>3. todo' = Reset6  BY <1>5, <2>6, SkipReset
    <2>4. QED  BY <1>1, <1>2, <1>3, <2>2, <2>3 DEF Finishing
  <1>6. CASE todo = Reset8
    <2>1. Step.how = "try" /\ Step.what = "flush"  BY <1>6, ResetAhead, Fields DEF Step
    <2>2. todo' = Reset7  BY <1>1, <1>6, <2>1, ResetAhead
    <2>3. QED  BY <1>1, <1>2, <2>1, <2>2 DEF Finishing
  <1>7. CASE todo = Reset7
    <2>1. Step.how = "try" /\ Step.what = "enter_xip"  BY <1>7, ResetAhead, Fields DEF Step
    <2>2. todo' = Reset6 /\ Head(Reset6) = One("set", "left", 0) /\ Reset6 # <<>>
      BY <1>1, <1>7, <2>1, ResetAhead
    <2>3. QED  BY <1>1, <1>2, <1>3, <2>1, <2>2 DEF Finishing
  <1>8. QED  BY <1>4, <1>5, <1>6, <1>7

LEMMA FailsCourse ==
  ASSUME FlashInv, AccessFails
  PROVE  /\ Course'
         /\ \/ todo' = <<>> /\ res' = "err" /\ loop' = "none" /\ Step.how = "do"
            \/ /\ Finishing \/ Out
               /\ UNCHANGED <<res, loop, next>>
               /\ Step.what = "enter_xip" => todo' # <<>> /\ Head(todo') = One("set", "left", 0)
  <1>1. Course /\ todo # <<>> /\ Step.how # "set"  BY Lost DEF FlashInv
  <1>2. CASE Step.how = "do"
    <2>1. todo' = <<>> /\ loop' = "none" /\ next' = 0 /\ res' = "err"  BY <1>2, Lost
    <2>2. QED  BY <1>2, <2>1 DEF Course, Between
  <1>3. CASE Step.how # "do"
    <2>1. CASE /\ Finishing
               /\ \/ \E w \in {"read", "run"} : todo \in {Use4(w), Use3(w), Use2(w)}
                  \/ todo \in {Reset9, Reset8, Reset7}
      <3>1. /\ Finishing' /\ UNCHANGED <<res, loop, next>>
            /\ Step.what = "enter_xip" => todo' # <<>> /\ Head(todo') = One("set", "left", 0)
        BY <1>1, <1>3, <2>1, FailsFinishing
      <3>2. QED  BY <1>1, <2>1, <3>1 DEF Course
    <2>2. CASE Out /\ todo = Reset3
      <3>1. Step.how = "try" /\ Step.what = "sysreset"  BY <2>2, ResetAhead, Fields DEF Step
      <3>2. todo' = Over2 /\ UNCHANGED <<op, res, loop, next>>
        BY <2>2, <3>1, Lost, ResetAhead
      <3>3. Out'  BY <2>2, <3>2 DEF Out
      <3>4. QED  BY <1>1, <2>2, <3>1, <3>2, <3>3 DEF Course
    <2>3. QED  BY <1>1, <1>3, <2>1, <2>2, MayFail
  <1>4. QED  BY <1>2, <1>3
-----------------------------------------------------------------------------
(* The server sets its fields.                                             *)
LEMMA SetCases ==
  ASSUME Course, Set
  PROVE  \/ Entering /\ todo = Entered2 /\ Step = One("set", "fresh", 0)
         \/ Entering /\ todo = Entered1 /\ Step = One("set", "entered", 0)
         \/ Erasing /\ \E s \in Sectors :
                         /\ todo = Noted(s) /\ Step = One("set", "erased", s) /\ next = s + 1
                         /\ s \notin erased /\ Wiped(s)
         \/ Finishing /\ Xip /\ Step = One("set", "left", 0)
            /\ (todo = Reset6 \/ \E w \in {"read", "run"} : todo = Use1(w))
         \/ Out /\ todo = Over2 /\ Step = One("set", "forget", 0)
  <1>1. todo # <<>> /\ Head(todo).how = "set" /\ Step = Head(todo)  BY DEF Set, Step
  <1>2. ~Between  BY <1>1 DEF Between
  <1>3. CASE Entering
    <2>1. todo \notin {Enter7, Enter6, Enter5, Enter4, Enter3}  BY <1>1, EnterAhead, Fields
    <2>2. QED  BY <1>1, <1>3, <2>1, EnterAhead DEF Entering
  <1>4. ~Selecting  BY <1>1, UseAhead, Fields DEF Selecting
  <1>5. CASE Erasing
    <2>1. PICK s \in Sectors :
            /\ next = s + 1 /\ s \notin erased
            /\ \/ family = "rp2040" /\ todo = RomErase(s)
               \/ family = "rp2040" /\ todo = Noted(s) /\ Wiped(s)
               \/ family = "nrf52" /\ todo = Nvmc6(s)
               \/ family = "nrf52" /\ todo \in {Nvmc5(s), Nvmc4(s)} /\ config = "EEN"
               \/ family = "nrf52" /\ todo \in {Nvmc3(s), Nvmc2(s), Noted(s)} /\ Wiped(s)
      BY <1>5 DEF Erasing
    <2>2. todo \notin {RomErase(s), Nvmc6(s), Nvmc5(s), Nvmc4(s), Nvmc3(s), Nvmc2(s)}
      BY <1>1, EraseAhead, Fields
    <2>3. todo = Noted(s) /\ Wiped(s)  BY <2>1, <2>2
    <2>4. QED  BY <1>1, <1>5, <2>1, <2>3, EraseAhead
  <1>6. ~Programming  BY <1>1, Programs
  <1>7. CASE Finishing
    <2>1. \A w : todo \notin {Use4(w), Use3(w), Use2(w)}  BY <1>1, UseAhead, Fields
    <2>2. todo \notin {Reset9, Reset8, Reset7}  BY <1>1, ResetAhead, Fields
    <2>3. Xip /\ (todo = Reset6 \/ \E w \in {"read", "run"} : todo = Use1(w))
      BY <1>7, <2>1, <2>2 DEF Finishing
    <2>4. Step = One("set", "left", 0)  BY <1>1, <2>3, UseAhead, ResetAhead
    <2>5. QED  BY <1>7, <2>3, <2>4
  <1>8. CASE Out
    <2>1. \A w : todo # Use(w)  BY <1>1, UseAhead, Fields
    <2>2. todo \notin {Reset5, Reset4, Reset3, Over1}  BY <1>1, ResetAhead, Fields
    <2>3. todo = Over2  BY <1>8, <2>1, <2>2 DEF Out
    <2>4. QED  BY <1>1, <1>8, <2>3, ResetAhead
  <1>9. QED  BY <1>2, <1>3, <1>4, <1>5, <1>6, <1>7, <1>8 DEF Course

LEMMA SetFields ==
  ASSUME Set
  PROVE  /\ UNCHANGED <<family, flash, mode, config, op, res, loop, next, flash0, loose>>
         /\ todo' = Tail(todo) /\ todo # <<>>
         /\ Step.what = "erased" =>
              erased' = erased \cup {Step.x} /\ UNCHANGED <<flash_mode, programmed, stranded>>
         /\ Step.what = "fresh" => erased' = {} /\ UNCHANGED <<flash_mode, programmed, stranded>>
         /\ Step.what = "entered" => flash_mode' /\ programmed' = Blank /\ UNCHANGED <<erased, stranded>>
         /\ Step.what = "left" => ~flash_mode' /\ programmed' = Blank /\ UNCHANGED <<erased, stranded>>
         /\ Step.what = "forget" =>
              /\ ~flash_mode' /\ programmed' = Blank /\ stranded' = (mode = "command")
              /\ erased' = IF family = "nrf52" THEN {} ELSE erased
  <1>1. /\ UNCHANGED <<family, flash, mode, config, op, res, loop, next, flash0, loose>>
        /\ todo' = Tail(todo) /\ todo # <<>>
    BY DEF Set, chip, place
  <1>2. Step.what = "erased" =>
          erased' = erased \cup {Step.x} /\ UNCHANGED <<flash_mode, programmed, stranded>>
    BY DEF Set
  <1>3. Step.what = "fresh" => erased' = {} /\ UNCHANGED <<flash_mode, programmed, stranded>>
    BY DEF Set
  <1>4. Step.what = "entered" => flash_mode' /\ programmed' = Blank /\ UNCHANGED <<erased, stranded>>
    BY DEF Set
  <1>5. Step.what = "left" => ~flash_mode' /\ programmed' = Blank /\ UNCHANGED <<erased, stranded>>
    BY DEF Set
  <1>6. Step.what = "forget" =>
          /\ ~flash_mode' /\ programmed' = Blank /\ stranded' = (mode = "command")
          /\ erased' = IF family = "nrf52" THEN {} ELSE erased
    BY DEF Set, Forget
  <1>7. QED  BY <1>1, <1>2, <1>3, <1>4, <1>5, <1>6

LEMMA SetCourse == ASSUME FlashInv, Set PROVE Course'
  <1>1. /\ UNCHANGED <<family, flash, mode, config, op, res, loop, next, flash0, loose>>
        /\ todo' = Tail(todo) /\ Course
    BY SetFields DEF FlashInv
  <1>2. loop' \in {"erase", "program", "none"} /\ next' \in Nat  BY <1>1 DEF Course
  <1>3. CASE Entering /\ todo = Entered2 /\ Step = One("set", "fresh", 0)
    <2>1. Step.what = "fresh"  BY <1>3, Fields
    <2>2. erased' = {} /\ flash_mode' = flash_mode /\ todo' = Entered1
      BY <1>1, <1>3, <2>1, SetFields, EnterAhead
    <2>3. mode = "command"
      <3>1. \A t \in {Enter7, Enter6, Enter5, Enter4, Enter3} : Entered2 # t
        BY EnterAhead, Fields
      <3>2. Entered2 # Entered1
        <4>1. Head(Entered2).what # Head(Entered1).what  BY EnterAhead, Fields
        <4>2. QED  BY <4>1
      <3>3. QED  BY <1>3, <3>1, <3>2 DEF Entering
    <2>4. Entering'  BY <1>1, <1>3, <2>2, <2>3 DEF Entering, Writing
    <2>5. QED  BY <1>2, <2>4 DEF Course
  <1>4. CASE Entering /\ todo = Entered1 /\ Step = One("set", "entered", 0)
    <2>1. Step.what = "entered"  BY <1>4, Fields
    <2>2. flash_mode' /\ todo' = <<>>  BY <1>1, <1>4, <2>1, SetFields, EnterAhead
    <2>3. Writing' /\ loop' = "erase" /\ Ready' /\ family' # "nrf54"
      BY <1>1, <1>4, <2>2 DEF Entering, Writing, Ready
    <2>4. QED  BY <1>2, <2>2, <2>3 DEF Course, Between
  <1>5. CASE Erasing /\ \E s \in Sectors :
                          /\ todo = Noted(s) /\ Step = One("set", "erased", s) /\ next = s + 1
                          /\ s \notin erased /\ Wiped(s)
    <2>1. Step.what = "erased" /\ todo' = <<>>  BY <1>1, <1>5, Fields, EraseAhead
    <2>2. flash_mode' = flash_mode  BY <2>1, SetFields
    <2>3. Writing' /\ loop' = "erase" /\ Ready' /\ family' # "nrf54"
      BY <1>1, <1>5, <2>2 DEF Erasing, Writing, Ready
    <2>4. QED  BY <1>2, <2>1, <2>3 DEF Course, Between
  <1>6. CASE /\ Finishing /\ Xip /\ Step = One("set", "left", 0)
             /\ todo = Reset6 \/ \E w \in {"read", "run"} : todo = Use1(w)
    <2>1. Step.what = "left"  BY <1>6, Fields
    <2>2. ~flash_mode'  BY <2>1, SetFields
    <2>3. todo' \in {Use("read"), Use("run"), Reset5}  BY ZenonT(30), <1>1, <1>6, UseAhead, ResetAhead
    <2>4. Out'  BY <1>1, <1>6, <2>2, <2>3 DEF Out, Finishing
    <2>5. QED  BY <1>2, <2>4 DEF Course
  <1>7. CASE Out /\ todo = Over2
    <2>1. todo' = Over1  BY <1>1, <1>7, ResetAhead
    <2>2. Out'  BY <1>1, <1>7, <2>1 DEF Out
    <2>3. QED  BY <1>2, <2>2 DEF Course
  <1>8. QED  BY <1>1, <1>3, <1>4, <1>5, <1>6, <1>7, SetCases
-----------------------------------------------------------------------------
(* A concatenation, element by element.                                    *)
LEMMA Join ==
  ASSUME NEW X, NEW s \in Seq(X), NEW t \in Seq(X), NEW u \in Seq(X), Len(u) = Len(s) + Len(t),
         \A i \in 1 .. Len(s) : u[i] = s[i], \A i \in 1 .. Len(t) : u[Len(s) + i] = t[i]
  PROVE  s \o t = u
  <1>1. /\ s \o t \in Seq(X) /\ Len(s \o t) = Len(u)
        /\ \A i \in 1 .. Len(u) : (s \o t)[i] = IF i <= Len(s) THEN s[i] ELSE t[i - Len(s)]
    BY ConcatProperties
  <1>2. \A i \in 1 .. Len(u) : (s \o t)[i] = u[i] 
    <2>1. ASSUME NEW i \in 1 .. Len(u), ~(i <= Len(s)) PROVE t[i - Len(s)] = u[i]
      <3>1. Len(s) \in Nat /\ Len(t) \in Nat BY LenProperties
      <3>2. PICK j : j = i - Len(s)  OBVIOUS
      <3>3. j \in 1 .. Len(t) /\ i = Len(s) + j BY <2>1, <3>1, <3>2
      <3>4. QED BY <3>2, <3>3
    <2>2. ASSUME NEW i \in 1 .. Len(u), i <= Len(s) PROVE s[i] = u[i]
      <3>1. Len(s) \in Nat /\ Len(t) \in Nat BY LenProperties
      <3>2. QED BY <2>2, <3>1
    <2>3. QED BY <1>1, <2>1, <2>2
  <1>3. QED BY <1>1, <1>2, SeqEqual

LEMMA JoinEnter ==
  ASSUME NEW a, NEW b, NEW c, NEW d, NEW e, NEW f, NEW g
  PROVE  <<a>> \o <<b, c, d, e, f, g>> = <<a, b, c, d, e, f, g>>
  <1> DEFINE s == <<a>>
             t == <<b, c, d, e, f, g>>
             u == <<a, b, c, d, e, f, g>>
  <1>1. PICK X : {a, b, c, d, e, f, g} \subseteq X  OBVIOUS
  <1>2. s \in Seq(X) /\ t \in Seq(X) /\ u \in Seq(X)  BY <1>1
  <1>3. Len(s) = 1 /\ Len(t) = 6 /\ Len(u) = 7  OBVIOUS
  <1>4. \A k \in 1 .. 1 : u[k] = s[k]
    <2>1. \A k \in 1 .. 1 : k \in {1}  OBVIOUS
    <2>2. QED  BY <2>1
  <1>5. \A k \in 1 .. 6 : u[1 + k] = t[k]
    <2>1. \A k \in 1 .. 6 : k \in {1, 2, 3, 4, 5, 6}  OBVIOUS
    <2>2. QED  BY <2>1
  <1> HIDE DEF s, t, u
  <1>6. /\ Len(u) = Len(s) + Len(t) /\ \A k \in 1 .. Len(s) : u[k] = s[k]
        /\ \A k \in 1 .. Len(t) : u[Len(s) + k] = t[k]
    BY <1>3, <1>4, <1>5
  <1>7. s \o t = u  BY <1>2, <1>6, Join
  <1>8. QED  BY <1>7 DEF s, t, u

LEMMA JoinUse ==
  ASSUME NEW a, NEW b, NEW c, NEW d, NEW e
  PROVE  <<a, b, c, d>> \o <<e>> = <<a, b, c, d, e>>
  <1> DEFINE s == <<a, b, c, d>>
             t == <<e>>
             u == <<a, b, c, d, e>>
  <1>1. PICK X : {a, b, c, d, e} \subseteq X  OBVIOUS
  <1>2. s \in Seq(X) /\ t \in Seq(X) /\ u \in Seq(X)  BY <1>1
  <1>3. Len(s) = 4 /\ Len(t) = 1 /\ Len(u) = 5  OBVIOUS
  <1>4. \A k \in 1 .. 4 : u[k] = s[k]
    <2>1. \A k \in 1 .. 4 : k \in {1, 2, 3, 4}  OBVIOUS
    <2>2. QED  BY <2>1
  <1>5. \A k \in 1 .. 1 : u[4 + k] = t[k]
    <2>1. \A k \in 1 .. 1 : k \in {1}  OBVIOUS
    <2>2. QED  BY <2>1
  <1> HIDE DEF s, t, u
  <1>6. /\ Len(u) = Len(s) + Len(t) /\ \A k \in 1 .. Len(s) : u[k] = s[k]
        /\ \A k \in 1 .. Len(t) : u[Len(s) + k] = t[k]
    BY <1>3, <1>4, <1>5
  <1>7. s \o t = u  BY <1>2, <1>6, Join
  <1>8. QED  BY <1>7 DEF s, t, u

LEMMA JoinReset ==
  ASSUME NEW a, NEW b, NEW c, NEW d, NEW e, NEW f, NEW g, NEW h, NEW i
  PROVE  <<a, b, c, d>> \o <<e, f, g, h, i>> = <<a, b, c, d, e, f, g, h, i>>
  <1> DEFINE s == <<a, b, c, d>>
             t == <<e, f, g, h, i>>
             u == <<a, b, c, d, e, f, g, h, i>>
  <1>1. PICK X : {a, b, c, d, e, f, g, h, i} \subseteq X  OBVIOUS
  <1>2. s \in Seq(X) /\ t \in Seq(X) /\ u \in Seq(X)  BY <1>1
  <1>3. Len(s) = 4 /\ Len(t) = 5 /\ Len(u) = 9  OBVIOUS
  <1>4. \A k \in 1 .. 4 : u[k] = s[k]
    <2>1. \A k \in 1 .. 4 : k \in {1, 2, 3, 4}  OBVIOUS
    <2>2. QED  BY <2>1
  <1>5. \A k \in 1 .. 5 : u[4 + k] = t[k]
    <2>1. \A k \in 1 .. 5 : k \in {1, 2, 3, 4, 5}  OBVIOUS
    <2>2. QED  BY <2>1
  <1> HIDE DEF s, t, u
  <1>6. /\ Len(u) = Len(s) + Len(t) /\ \A k \in 1 .. Len(s) : u[k] = s[k]
        /\ \A k \in 1 .. Len(t) : u[Len(s) + k] = t[k]
    BY <1>3, <1>4, <1>5
  <1>7. s \o t = u  BY <1>2, <1>6, Join
  <1>8. QED  BY <1>7 DEF s, t, u

(* What a request begins with.                                             *)
LEMMA Begins ==
  ASSUME NEW o \in Asked
  PROVE  /\ o.kind = "write" /\ family # "rp2040" => Begin(o) = <<>>
         /\ o.kind = "write" /\ family = "rp2040" /\ ~flash_mode => Begin(o) = Enter7
         /\ o.kind = "write" /\ family = "rp2040" /\ flash_mode => Begin(o) = Use("select")
         /\ o.kind \in {"read", "resume"} =>
              \E w \in {"read", "run"} : Begin(o) = IF flash_mode THEN Use4(w) ELSE Use(w)
         /\ o.kind = "reset" => Begin(o) = IF flash_mode THEN Reset9 ELSE Reset5
         /\ o.kind = "end" => Begin(o) = Over2
  <1>1. o.kind \in {"write", "read", "resume", "reset", "end"}  BY AskedKinds
  <1>2. PICK X : {Do("select", 0), Do("demcr", 0), One("try", "sysreset", 0), One("set", "forget", 0),
                  Do("reconnect", 0)} \subseteq X
    OBVIOUS
  <1>3. ASSUME o.kind = "write" PROVE Begin(o) = IF family = "rp2040" THEN <<Do("select", 0)>> \o Enter ELSE <<>>
    BY <1>3 DEF Begin
  <1>4. ASSUME o.kind = "write", family = "rp2040", ~flash_mode PROVE Begin(o) = Enter7
    <2>1. Begin(o) = <<Do("select", 0)>> \o Enter  BY <1>3, <1>4
    <2>2. Enter = <<Do("select", 0), Do("lookup", 0), Do("connect_flash", 0), Do("exit_xip", 0),
                    One("set", "fresh", 0), One("set", "entered", 0)>>
      BY <1>4 DEF Enter
    <2>3. QED  BY <2>1, <2>2, JoinEnter DEF Enter7
  <1>5. ASSUME o.kind = "write", family = "rp2040", flash_mode PROVE Begin(o) = Use("select")
    <2>1. Begin(o) = <<Do("select", 0)>> \o Enter  BY <1>3, <1>5
    <2>2. Enter = <<>>  BY <1>5 DEF Enter
    <2>3. <<Do("select", 0)>> \in Seq(X)  BY <1>2
    <2>4. QED  BY <2>1, <2>2, <2>3, ConcatEmptySeq DEF Use
  <1>6. ASSUME NEW w
        PROVE  Finish \o <<Do(w, 0)>> = IF flash_mode THEN Use4(w) ELSE Use(w)
    <2>1. CASE flash_mode
      <3>1. Finish = <<One("skip", "select", 2), One("try", "flush", 0), One("try", "enter_xip", 0),
                       One("set", "left", 0)>>
        BY <2>1 DEF Finish
      <3>2. QED  BY <2>1, <3>1, JoinUse DEF Use4
    <2>2. CASE ~flash_mode
      <3>1. Finish = <<>>  BY <2>2 DEF Finish
      <3>2. <<Do(w, 0)>> \in Seq({Do(w, 0)})  OBVIOUS
      <3>3. QED  BY <2>2, <3>1, <3>2, ConcatEmptySeq DEF Use
    <2>3. QED  BY <2>1, <2>2
  <1>7. ASSUME o.kind = "read" PROVE Begin(o) = IF flash_mode THEN Use4("read") ELSE Use("read")
    BY <1>6, <1>7 DEF Begin
  <1>8. ASSUME o.kind = "resume" PROVE Begin(o) = IF flash_mode THEN Use4("run") ELSE Use("run")
    BY <1>6, <1>8 DEF Begin
  <1>9. ASSUME o.kind = "reset" PROVE Begin(o) = IF flash_mode THEN Reset9 ELSE Reset5
    <2>1. Begin(o) = Finish \o Reset5  BY <1>9 DEF Begin, Reset5
    <2>2. CASE flash_mode
      <3>1. Finish = <<One("skip", "select", 2), One("try", "flush", 0), One("try", "enter_xip", 0),
                       One("set", "left", 0)>>
        BY <2>2 DEF Finish
      <3>2. QED  BY <2>1, <2>2, <3>1, JoinReset DEF Reset5, Reset9
    <2>3. CASE ~flash_mode
      <3>1. Finish = <<>>  BY <2>3 DEF Finish
      <3>2. Reset5 \in Seq(X)  BY <1>2 DEF Reset5
      <3>3. QED  BY <2>1, <2>3, <3>1, <3>2, ConcatEmptySeq
    <2>4. QED  BY <2>2, <2>3
  <1>10. ASSUME o.kind = "end" PROVE Begin(o) = Over2
    BY <1>10 DEF Begin, Over2
  <1>11. QED  BY <1>3, <1>4, <1>5, <1>7, <1>8, <1>9, <1>10

LEMMA AskFields ==
  ASSUME NEW o, Ask(o)
  PROVE  /\ UNCHANGED <<family, flash, mode, config, flash_mode, erased, programmed, stranded>>
         /\ res # "busy" /\ op' = o /\ todo' = Begin(o) /\ res' = "busy" /\ flash0' = flash
         /\ loose' = {c \in Cells : ~(programmed[c] \subseteq {o.data})}
         /\ o.kind # "write" => loop' = "none" /\ next' = 0
         /\ o.kind = "write" /\ family = "nrf54" => loop' = "program" /\ next' = o.span[1]
         /\ o.kind = "write" /\ family # "nrf54" => loop' = "erase" /\ next' = Sector(o.span[1])
  <1>1. /\ UNCHANGED <<family, flash, mode, config, flash_mode, erased, programmed, stranded>>
        /\ res # "busy" /\ op' = o /\ todo' = Begin(o) /\ res' = "busy" /\ flash0' = flash
        /\ loose' = {c \in Cells : ~(programmed[c] \subseteq {o.data})}
        /\ IF o.kind # "write" THEN Loop("none", 0)
           ELSE IF family = "nrf54" THEN Loop("program", o.span[1])
           ELSE Loop("erase", Sector(o.span[1]))
    BY DEF Ask, chip, known
  <1>2. o.kind # "write" => Loop("none", 0)
    <2>1. ASSUME o.kind # "write" PROVE Loop("none", 0)  BY <1>1, <2>1 DEF Loop
    <2>2. QED  BY <2>1
  <1>3. o.kind = "write" /\ family = "nrf54" => Loop("program", o.span[1])  BY <1>1 DEF Loop
  <1>4. o.kind = "write" /\ family # "nrf54" => Loop("erase", Sector(o.span[1]))  BY <1>1 DEF Loop
  <1>5. QED  BY <1>1, <1>2, <1>3, <1>4 DEF Loop

LEMMA AskCourse == ASSUME FlashInv, NEW o \in Asked, Ask(o) PROVE Course'
  <1>1. /\ UNCHANGED <<family, flash, mode, config, flash_mode, erased, programmed, stranded>>
        /\ res # "busy" /\ op' = o /\ todo' = Begin(o) /\ res' = "busy" /\ flash0' = flash
    BY AskFields
  <1>2. /\ family \in {"rp2040", "nrf52", "nrf54"} /\ todo = <<>> /\ loop = "none" /\ Modes
        /\ flash_mode \in BOOLEAN
    BY <1>1 DEF FlashInv, Types
  <1>3. ~flash_mode => Xip'  BY <1>1, <1>2, EnterAhead DEF Modes, Xip
  <1>4. loop' \in {"erase", "program", "none"} /\ next' \in Nat
    BY <1>2, AskFields, AskedKinds, SectorOrder
  <1>5. CASE o.kind = "write" /\ family = "rp2040"
    <2>1. Writing' /\ family' = "rp2040" /\ loop' = "erase" /\ next' = Sector(op'.span[1])
      BY <1>1, <1>5, AskFields DEF Writing
    <2>2. CASE flash_mode
      <3>1. todo' = Use("select") /\ flash_mode'  BY <1>1, <1>5, <2>2, Begins
      <3>2. Selecting'  BY <2>1, <3>1 DEF Selecting
      <3>3. QED  BY <1>4, <3>2 DEF Course
    <2>3. CASE ~flash_mode
      <3>1. todo' = Enter7 /\ ~flash_mode' /\ flash' = flash0'  BY <1>1, <1>5, <2>3, Begins
      <3>2. Entering'  BY <1>3, <2>1, <2>3, <3>1 DEF Entering
      <3>3. QED  BY <1>4, <3>2 DEF Course
    <2>4. QED  BY <2>2, <2>3
  <1>6. CASE o.kind = "write" /\ family # "rp2040"
    <2>1. Writing' /\ Ready' /\ todo' = <<>> /\ (loop' = "erase" => family' # "nrf54")
      <3>1. loop' = "erase" => family' # "nrf54"  BY <1>1, <1>6, AskFields
      <3>2. QED  BY <1>1, <1>6, <3>1, Begins DEF Writing, Ready
    <2>2. loop' = "program" => op'.span[1] <= next'
      BY <1>1, <1>4, <1>6, AskFields
    <2>3. QED  BY <1>4, <2>1, <2>2 DEF Course, Between
  <1>7. CASE o.kind \in {"read", "resume"}
    <2>1. op'.kind \in {"read", "resume", "reset"} /\ res' = "busy" /\ loop' = "none"
      BY <1>1, <1>7, AskFields
    <2>2. PICK w \in {"read", "run"} : todo' = IF flash_mode THEN Use4(w) ELSE Use(w)
      BY <1>1, <1>7, Begins
    <2>3. CASE flash_mode
      <3>1. family' = "rp2040" /\ flash_mode'  BY <1>1, <1>2, <2>3 DEF Modes
      <3>2. Finishing'  BY <2>1, <2>2, <2>3, <3>1 DEF Finishing
      <3>3. QED  BY <1>4, <3>2 DEF Course
    <2>4. CASE ~flash_mode
      <3>1. todo' \in {Use("read"), Use("run")} /\ ~flash_mode'  BY <1>1, <2>2, <2>4
      <3>2. Out'  BY <2>1, <3>1 DEF Out
      <3>3. QED  BY <1>4, <3>2 DEF Course
    <2>5. QED  BY <2>3, <2>4
  <1>8. CASE o.kind = "reset"
    <2>1. op'.kind \in {"read", "resume", "reset"} /\ res' = "busy" /\ loop' = "none"
      BY <1>1, <1>8, AskFields
    <2>2. todo' = IF flash_mode THEN Reset9 ELSE Reset5  BY <1>1, <1>8, Begins
    <2>3. CASE flash_mode
      <3>1. family' = "rp2040" /\ flash_mode'  BY <1>1, <1>2, <2>3 DEF Modes
      <3>2. Finishing'  BY <2>1, <2>2, <2>3, <3>1 DEF Finishing
      <3>3. QED  BY <1>4, <3>2 DEF Course
    <2>4. CASE ~flash_mode
      <3>1. todo' = Reset5 /\ ~flash_mode'  BY <1>1, <2>2, <2>4
      <3>2. Out'  BY <2>1, <3>1 DEF Out
      <3>3. QED  BY <1>4, <3>2 DEF Course
    <2>5. QED  BY <2>3, <2>4
  <1>9. CASE o.kind = "end"
    <2>1. todo' = Over2 /\ op'.kind = "end" /\ res' = "busy" /\ loop' = "none"
      BY <1>1, <1>9, AskFields, Begins
    <2>2. Out'  BY <2>1 DEF Out
    <2>3. QED  BY <1>4, <2>2 DEF Course
  <1>10. QED  BY <1>5, <1>6, <1>7, <1>8, <1>9, AskedKinds

LEMMA IterateCases ==
  ASSUME FlashInv, Iterate
  PROVE  /\ UNCHANGED <<family, flash, mode, config, flash_mode, erased, op, res, flash0, loose,
                        programmed, stranded>>
         /\ todo = <<>> /\ Writing /\ Ready /\ op \in Asked /\ next \in Nat
         /\ loop = "erase" => family # "nrf54"
         /\ \/ /\ loop = "erase" /\ next > Sector(op.span[2]) /\ loop' = "program"
               /\ next' = op.span[1] /\ todo' = <<>>
            \/ /\ loop = "erase" /\ next <= Sector(op.span[2]) /\ next \in erased
               /\ loop' = "erase" /\ next' = next + 1 /\ todo' = <<>>
            \/ /\ loop = "erase" /\ next <= Sector(op.span[2]) /\ next \notin erased
               /\ loop' = "erase" /\ next' = next + 1 /\ todo' = EraseSector(next)
            \/ /\ loop = "program" /\ op.span[1] <= next /\ next > op.span[2] /\ loop' = "none"
               /\ next' = 0 /\ todo' = <<>>
            \/ /\ loop = "program" /\ op.span[1] <= next /\ next <= op.span[2] /\ loop' = "program"
               /\ next' = next + 1 /\ todo' = Program(next)
  <1>1. /\ UNCHANGED <<family, flash, mode, config, flash_mode, erased, op, res, flash0, loose,
                        programmed, stranded>>
        /\ todo = <<>> /\ res = "busy" /\ (NextSector \/ NextCell)
    BY DEF Iterate, chip, known, past
  <1>2. Between
    <2>1. Course  BY DEF FlashInv
    <2>2. ~Entering /\ ~Selecting /\ ~Erasing /\ ~Programming
      BY ZenonT(30), <1>1, EnterAhead, UseAhead, EraseAhead, ProgramAhead DEF Entering, Selecting, Erasing, Programming
    <2>3. ~Finishing /\ ~Out  BY <1>1, UseAhead, ResetAhead DEF Finishing, Out
    <2>4. QED  BY <2>1, <2>2, <2>3 DEF Course
  <1>3. op \in Asked /\ next \in Nat  BY <1>1 DEF FlashInv, Types, Course
  <1>4. CASE NextSector
    <2>1. loop = "erase" /\ Writing /\ Ready /\ family # "nrf54"
      BY <1>1, <1>2, <1>4 DEF NextSector, Between
    <2>2. Sector(op.span[2]) \in Nat  BY <1>3, <2>1, AskedKinds, SectorOrder DEF Writing
    <2>3. CASE next > Sector(op.span[2])
      BY <1>1, <1>3, <1>4, <2>1, <2>3 DEF NextSector, Loop
    <2>4. CASE next <= Sector(op.span[2])
      <3>1. loop' = "erase" /\ next' = next + 1 /\ todo' = IF next \in erased THEN <<>> ELSE EraseSector(next)
        BY <1>3, <1>4, <2>2, <2>4 DEF NextSector, Loop
      <3>2. QED  BY <1>1, <1>3, <2>1, <2>4, <3>1
    <2>5. QED  BY <1>3, <2>2, <2>3, <2>4
  <1>5. CASE NextCell
    <2>1. loop = "program" /\ Writing /\ Ready /\ op.span[1] <= next
      BY <1>1, <1>2, <1>5 DEF NextCell, Between
    <2>2. op.span[2] \in Nat  BY <1>3, <2>1, AskedKinds, SectorOrder DEF Writing
    <2>3. CASE next > op.span[2]
      BY <1>1, <1>3, <1>5, <2>1, <2>3 DEF NextCell, Loop
    <2>4. CASE next <= op.span[2]
      <3>1. loop' = "program" /\ next' = next + 1 /\ todo' = Program(next)
        BY <1>3, <1>5, <2>2, <2>4 DEF NextCell, Loop
      <3>2. QED  BY <1>1, <1>3, <2>1, <2>4, <3>1
    <2>5. QED  BY <1>3, <2>2, <2>3, <2>4
  <1>6. QED  BY <1>1, <1>4, <1>5

LEMMA Begun ==
  /\ \A s : EraseSector(s) = IF family = "rp2040" THEN RomErase(s) ELSE Nvmc6(s)
  /\ \A c : Program(c) = CASE family = "rp2040" -> RomProgram2(c) [] family = "nrf52" -> Burning5(c)
                           [] OTHER -> Rram6(c)
  BY DEF EraseSector, Program, RomErase, Nvmc6, RomProgram2, Burning5, Rram6

LEMMA SectorBegins ==
  ASSUME FlashInv, Iterate, loop = "erase", next <= Sector(op.span[2]), next \notin erased,
         loop' = "erase", next' = next + 1, todo' = EraseSector(next)
  PROVE  Erasing'
  <1>1. /\ UNCHANGED <<family, flash, mode, config, flash_mode, erased, op, res, flash0, loose,
                       programmed, stranded>>
        /\ todo = <<>> /\ Writing /\ Ready /\ op \in Asked /\ next \in Nat /\ family # "nrf54"
    BY IterateCases
  <1>2. Writing' /\ Ready' /\ family \in {"rp2040", "nrf52", "nrf54"}
    <2>1. family \in {"rp2040", "nrf52", "nrf54"}  BY DEF FlashInv, Types
    <2>2. QED  BY <1>1, <2>1 DEF Writing, Ready
  <1>3. op.span[2] \in Cells  BY <1>1, AskedKinds DEF Writing
  <1>4. next \in Sectors
    <2>1. Sector(op.span[2]) \in Sectors /\ Sector(op.span[2]) \in Nat  BY <1>3, SectorOrder
    <2>2. QED  BY <1>1, <2>1, FlashBounds DEF Sectors
  <1>5. PICK s \in Sectors : s = next  BY <1>4
  <1>6. next' = s + 1 /\ s \notin erased' /\ family' = family /\ todo' = EraseSector(s)
    BY <1>1, <1>5
  <1>7. CASE family = "rp2040"
    <2>1. todo' = RomErase(s)  BY <1>6, <1>7, Begun
    <2>2. QED  BY <1>2, <1>6, <1>7, <2>1 DEF Erasing
  <1>8. CASE family = "nrf52"
    <2>1. todo' = Nvmc6(s)  BY <1>6, <1>8, Begun
    <2>2. QED  BY <1>2, <1>6, <1>8, <2>1 DEF Erasing
  <1>9. QED  BY <1>1, <1>2, <1>7, <1>8

LEMMA IterateCourse == ASSUME FlashInv, Iterate PROVE Course'
  <1>1. /\ UNCHANGED <<family, flash, mode, config, flash_mode, erased, op, res, flash0, loose,
                       programmed, stranded>>
        /\ todo = <<>> /\ Writing /\ Ready /\ op \in Asked /\ next \in Nat
    BY IterateCases
  <1>2. Writing' /\ Ready' /\ family \in {"rp2040", "nrf52", "nrf54"}
    <2>1. family \in {"rp2040", "nrf52", "nrf54"}  BY DEF FlashInv, Types
    <2>2. QED  BY <1>1, <2>1 DEF Writing, Ready
  <1>3. op.span[1] \in Cells /\ op.span[2] \in Cells /\ op.span[1] \in Nat /\ op.span[2] \in Nat
    BY <1>1, AskedKinds, SectorOrder DEF Writing
  <1>4. CASE /\ loop = "erase" /\ next > Sector(op.span[2]) /\ loop' = "program"
             /\ next' = op.span[1] /\ todo' = <<>>
    <2>1. op'.span[1] <= next' /\ next' \in Nat  BY <1>1, <1>3, <1>4
    <2>2. QED  BY <1>2, <1>4, <2>1 DEF Course, Between
  <1>5. CASE /\ loop = "erase" /\ next <= Sector(op.span[2]) /\ next \in erased
             /\ loop' = "erase" /\ next' = next + 1 /\ todo' = <<>>
    <2>1. family' # "nrf54" /\ next' \in Nat  BY <1>1, <1>5, IterateCases
    <2>2. QED  BY <1>2, <1>5, <2>1 DEF Course, Between
  <1>6. CASE /\ loop = "erase" /\ next <= Sector(op.span[2]) /\ next \notin erased
             /\ loop' = "erase" /\ next' = next + 1 /\ todo' = EraseSector(next)
    <2>1. Erasing' /\ next' \in Nat  BY <1>1, <1>6, SectorBegins
    <2>2. QED  BY <1>6, <2>1 DEF Course
  <1>7. CASE /\ loop = "program" /\ op.span[1] <= next /\ next > op.span[2] /\ loop' = "none"
             /\ next' = 0 /\ todo' = <<>>
    BY <1>7 DEF Course, Between
  <1>8. CASE /\ loop = "program" /\ op.span[1] <= next /\ next <= op.span[2] /\ loop' = "program"
             /\ next' = next + 1 /\ todo' = Program(next)
    <2>1. next \in Cells  BY <1>1, <1>3, <1>8, FlashBounds DEF Cells
    <2>2. PICK c \in Cells : c = next  BY <2>1
    <2>3. /\ next' = c + 1 /\ next' \in Nat /\ family' = family /\ todo' = Program(c)
          /\ op.span[1] <= c /\ c <= op.span[2] /\ op' = op
      BY <1>1, <1>8, <2>2
    <2>4. InSpan(c)'  BY <2>3 DEF InSpan
    <2>5. Programming'
      <3>1. CASE family = "rp2040"
        <4>1. todo' = RomProgram2(c)  BY <2>3, <3>1, Begun
        <4>2. QED  BY <1>2, <1>8, <2>3, <2>4, <3>1, <4>1 DEF Programming
      <3>2. CASE family = "nrf52"
        <4>1. todo' = Burning5(c)  BY <2>3, <3>2, Begun
        <4>2. QED  BY <1>2, <1>8, <2>3, <2>4, <3>2, <4>1 DEF Programming
      <3>3. CASE family = "nrf54"
        <4>1. todo' = Rram6(c)  BY <2>3, <3>3, Begun
        <4>2. QED  BY <1>2, <1>8, <2>3, <2>4, <3>3, <4>1 DEF Programming
      <3>4. QED  BY <1>2, <3>1, <3>2, <3>3
    <2>6. QED  BY <1>8, <2>3, <2>5 DEF Course
  <1>9. QED
    <2> DEFINE A == /\ loop = "erase" /\ next > Sector(op.span[2]) /\ loop' = "program"
                    /\ next' = op.span[1] /\ todo' = <<>>
               B == /\ loop = "erase" /\ next <= Sector(op.span[2]) /\ next \in erased
                    /\ loop' = "erase" /\ next' = next + 1 /\ todo' = <<>>
               C == /\ loop = "erase" /\ next <= Sector(op.span[2]) /\ next \notin erased
                    /\ loop' = "erase" /\ next' = next + 1 /\ todo' = EraseSector(next)
               D == /\ loop = "program" /\ op.span[1] <= next /\ next > op.span[2] /\ loop' = "none"
                    /\ next' = 0 /\ todo' = <<>>
               E == /\ loop = "program" /\ op.span[1] <= next /\ next <= op.span[2] /\ loop' = "program"
                    /\ next' = next + 1 /\ todo' = Program(next)
    <2>1. A \/ B \/ C \/ D \/ E  BY IterateCases
    <2>2. QED  BY <1>4, <1>5, <1>6, <1>7, <1>8, <2>1

LEMMA FinishedCourse == ASSUME FlashInv, Finished \/ UNCHANGED flashVars PROVE Course'
  <1>1. Course  BY DEF FlashInv
  <1>2. CASE Finished
    <2>1. todo' = <<>> /\ loop' = "none" /\ next' = next  BY <1>2 DEF Finished, place
    <2>2. next \in Nat  BY <1>1 DEF Course
    <2>3. QED  BY <2>1, <2>2 DEF Course, Between
  <1>3. CASE UNCHANGED flashVars
    <2>1. /\ UNCHANGED <<family, flash, mode, config, flash_mode, erased, op, res, todo, loop, next>>
          /\ UNCHANGED <<flash0, loose, programmed, stranded>>
      BY <1>3 DEF flashVars, chip, known, place, past
    <2>2. /\ Writing' = Writing /\ Ready' = Ready /\ Xip' = Xip
          /\ \A c \in Cells : Taken(c)' = Taken(c) /\ InSpan(c)' = InSpan(c)
          /\ \A s \in Sectors : Wiped(s)' = Wiped(s)
      BY <2>1 DEF Writing, Ready, Xip, Taken, InSpan, Wiped
    <2>3. QED
      BY <1>1, <2>1, <2>2 DEF Course, Between, Entering, Selecting, Erasing, Programming, Finishing, Out
  <1>4. QED  BY <1>2, <1>3
-----------------------------------------------------------------------------
(* What an access does to the target, whether it is answered or not.       *)
Touches == UNCHANGED chip \/ Effect(Step) \/ Partly(Step)
Wiping == Step.what = "erase" /\ \A c \in Cells : flash'[c] = flash[c] \/ (Sector(c) = Step.x /\ flash'[c] = {})
Burning ==
  /\ Step.what = "program" /\ Step.x \in Cells
  /\ \A c \in Cells \ {Step.x} : flash'[c] = flash[c]
  /\ flash'[Step.x] \subseteq flash[Step.x] \cup {op.data}

LEMMA Touched ==
  ASSUME FlashInv, todo # <<>>, Touches
  PROVE  /\ flash' \in [Cells -> SUBSET (Data \cup {Old, Own})]
         /\ mode' \in {"xip", "command"} /\ config' \in {"REN", "EEN", "WEN"}
         /\ flash' = flash \/ Wiping \/ Burning
         /\ mode' = mode \/ (Step.what = "exit_xip" /\ mode' = "command")
            \/ (Step.what \in {"enter_xip", "sysreset"} /\ mode' = "xip")
  <1>1. /\ flash \in [Cells -> SUBSET (Data \cup {Old, Own})] /\ mode \in {"xip", "command"}
        /\ config \in {"REN", "EEN", "WEN"} /\ Course
    BY DEF FlashInv, Types
  <1>2. ASSUME NEW C \in SUBSET Cells, flash' = Wipe(C), \A c \in C : Sector(c) = Step.x, Step.what = "erase"
        PROVE  flash' \in [Cells -> SUBSET (Data \cup {Old, Own})] /\ Wiping
    <2>1. flash' \in [Cells -> SUBSET (Data \cup {Old, Own})]  BY <1>1, <1>2 DEF Wipe
    <2>2. Wiping  BY <1>1, <1>2 DEF Wipe, Wiping
    <2>3. QED  BY <2>1, <2>2
  <1>3. CASE UNCHANGED chip  BY <1>1, <1>3 DEF chip
  <1>4. CASE Partly(Step)
    <2>1. PICK C \in SUBSET {c \in Cells : Sector(c) = Step.x} : flash' = Wipe(C)  BY <1>4 DEF Partly
    <2>2. Step.what = "erase" /\ UNCHANGED <<mode, config>>  BY <1>4 DEF Partly
    <2>3. QED  BY <1>1, <1>2, <2>1, <2>2
  <1>5. CASE Effect(Step)
    <2>1. /\ Step.what = "erase" => flash' = Wipe({c \in Cells : Sector(c) = Step.x})
          /\ Step.what = "program" => flash' = Burn(Step.x, op.data)
          /\ Step.what \notin {"erase", "program"} => flash' = flash
      BY <1>5 DEF Effect
    <2>2. /\ Step.what = "exit_xip" => mode' = "command"
          /\ Step.what \in {"enter_xip", "sysreset"} => mode' = "xip"
          /\ Step.what \notin {"exit_xip", "enter_xip", "sysreset"} => mode' = mode
      BY <1>5 DEF Effect
    <2>3. /\ Step.what = "config" => config' = Step.x
          /\ Step.what = "sysreset" => config' = "REN"
          /\ Step.what \notin {"config", "sysreset"} => config' = config
      BY <1>5 DEF Effect
    <2>4. config' \in {"REN", "EEN", "WEN"} /\ mode' \in {"xip", "command"}
      BY <1>1, <2>2, <2>3, Heads
    <2>5. CASE Step.what = "erase"  BY <1>2, <2>1, <2>2, <2>4, <2>5
    <2>6. CASE Step.what = "program"
      <3>1. Programming /\ Step.x \in Cells  BY <1>1, <2>6, Heads
      <3>2. PICK x \in Cells : x = Step.x  BY <3>1
      <3>3. flash' = Burn(x, op.data)  BY <2>1, <2>6, <3>2
      <3>4. op.data \in Data
        BY <3>1, AskedKinds DEF Programming, Writing, FlashInv, Types
      <3>5. flash' \in [Cells -> SUBSET (Data \cup {Old, Own})]  BY <1>1, <3>3, <3>4 DEF Burn
      <3>6. flash'[x] \subseteq flash[x] \cup {op.data} /\ \A c \in Cells \ {x} : flash'[c] = flash[c]
        BY <1>1, <3>3 DEF Burn
      <3>7. Burning  BY <2>6, <3>2, <3>6 DEF Burning
      <3>8. QED  BY <2>2, <2>4, <3>5, <3>7
    <2>7. CASE Step.what \notin {"erase", "program"}
      BY <1>1, <2>1, <2>2, <2>4, <2>7
    <2>8. QED  BY <2>5, <2>6, <2>7
  <1>6. QED  BY <1>3, <1>4, <1>5 DEF Touches

(* Data is noted as sent before it is known to have arrived.               *)
Noting ==
  /\ DOMAIN programmed' = Cells
  /\ \A c \in Cells : programmed[c] \subseteq programmed'[c]
  /\ Step.what # "program" \/ family = "nrf54" => programmed' = programmed
  /\ \A c \in Cells : Step.what = "program" /\ c # Step.x => programmed'[c] = programmed[c]
  /\ Step.what = "program" /\ family # "nrf54" => programmed'[Step.x] = programmed[Step.x] \cup {op.data}

LEMMA Noticed ==
  ASSUME FlashInv, Succeeds \/ AccessFails
  PROVE  Noting /\ programmed' \in [Cells -> SUBSET (Data \cup {Own})]
  <1>1. programmed' = IF Step.what = "program" THEN Sent(Step, op.data) ELSE programmed
    BY DEF Succeeds, AccessFails
  <1>2. programmed \in [Cells -> SUBSET (Data \cup {Own})] /\ Course /\ todo # <<>>
    BY DEF FlashInv, Types, Succeeds, AccessFails, Access
  <1>3. CASE Step.what # "program" \/ family = "nrf54"
    <2>1. programmed' = programmed  BY <1>1, <1>3 DEF Sent
    <2>2. QED  BY <1>2, <1>3, <2>1 DEF Noting
  <1>4. CASE Step.what = "program" /\ family # "nrf54"
    <2>1. Programming /\ Step.x \in Cells  BY <1>2, <1>4, Heads
    <2>2. PICK x \in Cells : x = Step.x  BY <2>1
    <2>3. programmed' = [programmed EXCEPT ![x] = @ \cup {op.data}]  BY <1>1, <1>4, <2>2 DEF Sent
    <2>4. op.data \in Data  BY <2>1, AskedKinds DEF Programming, Writing, FlashInv, Types
    <2>5. QED  BY <1>2, <1>4, <2>2, <2>3, <2>4 DEF Noting
  <1>5. QED  BY <1>3, <1>4

LEMMA AccessKept ==
  ASSUME Succeeds \/ AccessFails
  PROVE  /\ UNCHANGED <<family, op, flash_mode, erased, flash0, loose>> /\ Touches /\ todo # <<>>
         /\ Step.how # "set"
         /\ Succeeds => stranded' = (stranded /\ mode' = "command")
         /\ AccessFails => stranded' = (mode' = "command" /\ (stranded \/ Step.what \in {"select", "exit_xip", "enter_xip"}))
  BY DEF Succeeds, AccessFails, Access, known, Touches
-----------------------------------------------------------------------------
(* The kinds of the variables.                                             *)
LEMMA AccessTypes == ASSUME FlashInv, Succeeds \/ AccessFails PROVE Types'
  <1>1. UNCHANGED <<family, op, flash_mode, erased>> /\ Touches /\ todo # <<>>  BY AccessKept
  <1>2. Types /\ res = "busy" /\ op \in Asked  BY <1>1 DEF FlashInv, Types
  <1>3. /\ flash' \in [Cells -> SUBSET (Data \cup {Old, Own})]
        /\ mode' \in {"xip", "command"} /\ config' \in {"REN", "EEN", "WEN"}
    BY <1>1, Touched
  <1>4. programmed' \in [Cells -> SUBSET (Data \cup {Own})]  BY Noticed
  <1>5. res' = "busy" \/ (res' = "err" /\ todo' = <<>> /\ loop' = "none")
    <2>1. CASE Succeeds  BY <1>2, <2>1, Kept
    <2>2. CASE AccessFails  BY <1>2, <2>2, FailsCourse
    <2>3. QED  BY <2>1, <2>2
  <1>6. QED  BY <1>1, <1>2, <1>3, <1>4, <1>5 DEF Types

LEMMA OwnWriteFields ==
  ASSUME FlashInv, OwnWrite
  PROVE  /\ UNCHANGED <<family, op, flash_mode, erased, flash0, loose, res, loop, next, mode, config, stranded>>
         /\ Step.what = "run" /\ todo # <<>> /\ todo' = Tail(todo)
         /\ flash' \in [Cells -> SUBSET (Data \cup {Old, Own})]
         /\ programmed' \in [Cells -> SUBSET (Data \cup {Own})]
         /\ \A c \in Cells : flash[c] \subseteq flash'[c] /\ flash'[c] \subseteq flash[c] \cup {Own}
         /\ family = "nrf52" => \A c \in Cells : programmed'[c] = programmed[c] \cup (flash'[c] \ flash[c])
         /\ family # "nrf52" => programmed' = programmed
  <1>1. /\ UNCHANGED <<family, op, flash_mode, erased, flash0, loose, res, loop, next>>
        /\ todo # <<>> /\ todo' = Tail(todo)
    BY Kept
  <1>2. UNCHANGED <<mode, config, stranded>> /\ Step.what = "run"  BY DEF OwnWrite, RunsAndWrites
  <1>3. PICK x \in Cells : flash' = [flash EXCEPT ![x] = @ \cup {Own}]  BY DEF OwnWrite, RunsAndWrites
  <1>4. /\ flash \in [Cells -> SUBSET (Data \cup {Old, Own})]
        /\ programmed \in [Cells -> SUBSET (Data \cup {Own})]
    BY DEF FlashInv, Types
  <1>5. /\ flash' \in [Cells -> SUBSET (Data \cup {Old, Own})]
        /\ \A c \in Cells : flash[c] \subseteq flash'[c] /\ flash'[c] \subseteq flash[c] \cup {Own}
    BY <1>3, <1>4
  <1>6. CASE family = "nrf52"
    <2>1. programmed' = [c \in Cells |-> programmed[c] \cup (flash'[c] \ flash[c])]
      BY <1>6 DEF OwnWrite
    <2>2. \A c \in Cells : programmed[c] \cup (flash'[c] \ flash[c]) \in SUBSET (Data \cup {Own})
      <3>1. TAKE c \in Cells
      <3>2. flash'[c] \ flash[c] \subseteq {Own}  BY <1>5
      <3>3. programmed[c] \subseteq Data \cup {Own}  BY <1>4
      <3>4. QED  BY <3>2, <3>3
    <2>3. programmed' \in [Cells -> SUBSET (Data \cup {Own})]  BY <2>1, <2>2
    <2>4. QED  BY <1>1, <1>2, <1>5, <1>6, <2>1, <2>3
  <1>7. CASE family # "nrf52"
    <2>1. programmed' = programmed  BY <1>7 DEF OwnWrite
    <2>2. QED  BY <1>1, <1>2, <1>4, <1>5, <1>7, <2>1
  <1>8. QED  BY <1>6, <1>7

LEMMA TypesKept ==
  ASSUME FlashInv, FlashNext \/ UNCHANGED flashVars PROVE Types'
  <1>1. Types  BY DEF FlashInv
  <1>2. ASSUME NEW o \in Asked, Ask(o) PROVE Types'
    <2>1. /\ UNCHANGED <<family, flash, mode, config, flash_mode, erased, programmed>>
          /\ op' = o /\ res' = "busy"
      BY <1>2, AskFields
    <2>2. QED  BY <1>1, <1>2, <2>1 DEF Types
  <1>3. CASE Iterate
    <2>1. /\ UNCHANGED <<family, flash, mode, config, flash_mode, erased, op, res, programmed>>
          /\ Writing
      BY <1>3, IterateCases
    <2>2. QED  BY <1>1, <2>1 DEF Types, Writing
  <1>4. CASE Succeeds \/ AccessFails  BY <1>4, AccessTypes
  <1>5. CASE OwnWrite
    <2>1. res = "busy"  BY <1>1, <1>5, OwnWriteFields DEF Types
    <2>2. QED  BY <1>1, <1>5, <2>1, OwnWriteFields DEF Types
  <1>6. CASE Set
    <2>1. UNCHANGED <<family, flash, mode, config, op, res>> /\ todo # <<>>  BY <1>6, SetFields
    <2>2. res = "busy"  BY <1>1, <2>1 DEF Types
    <2>3. Blank \in [Cells -> SUBSET (Data \cup {Own})]  BY DEF Blank
    <2>4. flash_mode' \in BOOLEAN /\ erased' \subseteq Sectors
          /\ programmed' \in [Cells -> SUBSET (Data \cup {Own})]
      <3>1. Course  BY DEF FlashInv
      <3>2. \/ Step = One("set", "fresh", 0) \/ Step = One("set", "entered", 0)
            \/ \E s \in Sectors : Step = One("set", "erased", s)
            \/ Step = One("set", "left", 0) \/ Step = One("set", "forget", 0)
        BY <1>6, <3>1, SetCases
      <3>3. flash_mode \in BOOLEAN /\ erased \subseteq Sectors
            /\ programmed \in [Cells -> SUBSET (Data \cup {Own})]
        BY <1>1 DEF Types
      <3>4. CASE Step = One("set", "fresh", 0)
        <4>1. Step.what = "fresh"  BY <3>4, Fields
        <4>2. QED  BY <1>6, <3>3, <4>1, SetFields
      <3>5. CASE Step = One("set", "entered", 0)
        <4>1. Step.what = "entered"  BY <3>5, Fields
        <4>2. flash_mode' = TRUE  BY <1>6, <4>1 DEF Set
        <4>3. QED  BY <1>6, <2>3, <3>3, <4>1, <4>2, SetFields
      <3>6. ASSUME NEW s \in Sectors, Step = One("set", "erased", s)
            PROVE  flash_mode' \in BOOLEAN /\ erased' \subseteq Sectors
                   /\ programmed' \in [Cells -> SUBSET (Data \cup {Own})]
        <4>1. Step.what = "erased" /\ Step.x = s  BY <3>6, Fields
        <4>2. QED  BY <1>6, <3>3, <4>1, SetFields
      <3>7. CASE Step = One("set", "left", 0)
        <4>1. Step.what = "left"  BY <3>7, Fields
        <4>2. flash_mode' = FALSE  BY <1>6, <4>1 DEF Set
        <4>3. QED  BY <1>6, <2>3, <3>3, <4>1, <4>2, SetFields
      <3>8. CASE Step = One("set", "forget", 0)
        <4>1. Step.what = "forget"  BY <3>8, Fields
        <4>2. flash_mode' = FALSE  BY <1>6, <4>1 DEF Set, Forget
        <4>3. QED  BY <1>6, <2>3, <3>3, <4>1, <4>2, SetFields
      <3>9. QED  BY <3>2, <3>4, <3>5, <3>6, <3>7, <3>8
    <2>5. QED  BY <1>1, <2>1, <2>2, <2>4 DEF Types
  <1>7. CASE Finished
    <2>1. /\ UNCHANGED <<family, flash, mode, config, flash_mode, erased, op, todo, loop, programmed>>
          /\ res = "busy" /\ res' = "ok" /\ todo = <<>> /\ loop = "none"
      BY <1>7 DEF Finished, chip, known, place, past
    <2>2. QED  BY <1>1, <2>1 DEF Types
  <1>8. CASE UNCHANGED flashVars
    <2>1. UNCHANGED <<family, flash, mode, config, flash_mode, erased, op, res, todo, loop, programmed>>
      BY <1>8 DEF flashVars, chip, known, place, past
    <2>2. QED  BY <1>1, <2>1 DEF Types
  <1>9. QED  BY <1>2, <1>3, <1>4, <1>5, <1>6, <1>7, <1>8 DEF FlashNext
-----------------------------------------------------------------------------
(* Whether the flash is in command mode.                                   *)
LEMMA FinishingTries ==
  ASSUME Finishing, todo # <<>> PROVE Step.how # "do"
  <1>1. ASSUME NEW w, todo \in {Use4(w), Use3(w), Use2(w), Use1(w)} PROVE Step.how # "do"
    BY <1>1, UseAhead, Fields DEF Step
  <1>2. CASE todo \in {Reset9, Reset8, Reset7, Reset6}  BY <1>2, ResetAhead, Fields DEF Step
  <1>3. QED  BY <1>1, <1>2 DEF Finishing

LEMMA Distinct == Entered2 # Entered1 /\ Enter3 \notin {Entered2, Entered1}
  <1>1. Head(Entered2).what # Head(Entered1).what /\ Head(Enter3).how # Head(Entered2).how
        /\ Head(Enter3).how # Head(Entered1).how
    BY EnterAhead, Fields
  <1>2. QED  BY <1>1

LEMMA EnteredMode ==
  ASSUME Entering, todo \in {Entered2, Entered1}
  PROVE  mode = "command" /\ (todo = Entered1 => erased = {})
  <1>1. Entered2 \notin {Enter7, Enter6, Enter5, Enter4, Enter3}
        /\ Entered1 \notin {Enter7, Enter6, Enter5, Enter4, Enter3}
    BY EnterAhead, Fields
  <1>2. QED  BY <1>1, Distinct DEF Entering

LEMMA AccessModes == ASSUME FlashInv, Succeeds \/ AccessFails PROVE Modes'
  <1>1. /\ UNCHANGED <<family, flash_mode>> /\ Touches /\ todo # <<>> /\ Step.how # "set"
        /\ Succeeds => stranded' = (stranded /\ mode' = "command")
        /\ AccessFails => stranded' = (mode' = "command" /\ (stranded \/ Step.what \in {"select", "exit_xip", "enter_xip"}))
    BY AccessKept
  <1>2. Types /\ Course /\ Modes  BY DEF FlashInv
  <1>3. \/ mode' = mode
        \/ Step.what = "exit_xip" /\ mode' = "command"
        \/ Step.what \in {"enter_xip", "sysreset"} /\ mode' = "xip"
    BY <1>1, Touched
  <1>4. Step.what = "exit_xip" => Entering /\ todo = Enter3  BY <1>1, <1>2, Heads
  <1>5. family' # "rp2040" => mode' = "xip" /\ ~flash_mode'
    <2>1. Entering => family = "rp2040"  BY DEF Entering
    <2>2. QED  BY <1>1, <1>2, <1>3, <1>4, <2>1 DEF Modes
  <1>6. Step # One("set", "left", 0)  BY <1>1, Fields
  <1>7. flash_mode' => mode' = "command" \/ (todo' # <<>> /\ Head(todo') = One("set", "left", 0))
    <2>1. SUFFICES ASSUME flash_mode
                   PROVE  mode' = "command" \/ (todo' # <<>> /\ Head(todo') = One("set", "left", 0))
      BY <1>1
    <2>2. mode = "command"  BY <1>2, <1>6, <2>1 DEF Modes, Step
    <2>3. Step.what # "sysreset"  BY <1>1, <1>2, <2>1, Heads
    <2>4. CASE Step.what # "enter_xip"  BY <1>3, <2>2, <2>3, <2>4
    <2>5. CASE Step.what = "enter_xip"
      <3>1. Finishing  BY <1>1, <1>2, <2>5, Heads
      <3>2. Step.how # "do"  BY <1>1, <3>1, FinishingTries
      <3>3. CASE Succeeds  BY <2>5, <3>1, <3>3, SucceedsFinishing
      <3>4. CASE AccessFails  BY <2>5, <3>2, <3>4, FailsCourse
      <3>5. QED  BY <3>3, <3>4
    <2>6. QED  BY <2>4, <2>5
  <1>8. ~(todo \in {Entered2, Entered1})
    <2>1. Head(Entered2).how = "set" /\ Head(Entered1).how = "set"  BY EnterAhead, Fields
    <2>2. QED  BY <1>1, <2>1 DEF Step
  <1>9. mode' = "command" => stranded' \/ flash_mode' \/ todo' \in {Entered2, Entered1}
    <2>1. SUFFICES ASSUME mode' = "command"
                   PROVE  stranded' \/ flash_mode' \/ todo' \in {Entered2, Entered1}
      OBVIOUS
    <2>2. CASE Step.what = "exit_xip"
      <3>1. CASE Succeeds
        <4>1. todo' = Tail(todo)  BY <3>1, Kept
        <4>2. todo' = Entered2  BY <1>4, <2>2, <4>1, EnterAhead
        <4>3. QED  BY <4>2
      <3>2. CASE AccessFails  BY <1>1, <2>1, <2>2, <3>2
      <3>3. QED  BY <3>1, <3>2
    <2>3. CASE Step.what # "exit_xip"
      <3>1. mode = "command"  BY <1>3, <2>1, <2>3
      <3>2. stranded \/ flash_mode  BY <1>2, <1>8, <3>1 DEF Modes
      <3>3. CASE flash_mode  BY <1>1, <3>3
      <3>4. CASE stranded
        <4>1. stranded'  BY <1>1, <2>1, <3>4
        <4>2. QED  BY <4>1
      <3>5. QED  BY <3>2, <3>3, <3>4
    <2>4. QED  BY <2>2, <2>3
  <1>10. QED  BY <1>5, <1>7, <1>9 DEF Modes

(* Where no access is ahead.                                               *)
LEMMA IdleModes ==
  ASSUME Modes, todo = <<>>, UNCHANGED <<family, mode, flash_mode, stranded>> PROVE Modes'
  <1>1. todo \notin {Entered2, Entered1}  BY EnterAhead
  <1>2. flash_mode => mode = "command"  BY DEF Modes
  <1>3. mode = "command" => stranded \/ flash_mode  BY <1>1 DEF Modes
  <1>4. flash_mode' => mode' = "command"  BY <1>2
  <1>5. mode' = "command" => stranded' \/ flash_mode'
    <2>1. CASE stranded  BY <2>1
    <2>2. CASE ~stranded  BY <1>3, <2>2
    <2>3. QED  BY <2>1, <2>2
  <1>6. family' # "rp2040" => mode' = "xip" /\ ~flash_mode'  BY DEF Modes
  <1>7. QED  BY <1>4, <1>5, <1>6 DEF Modes

LEMMA SetModes == ASSUME FlashInv, Set PROVE Modes'
  <1>1. UNCHANGED <<family, mode>> /\ Types /\ Course /\ Modes /\ todo # <<>> /\ todo' = Tail(todo)
    BY SetFields DEF FlashInv
  <1>2. CASE Entering /\ todo = Entered2 /\ Step = One("set", "fresh", 0)
    <2>1. Step.what = "fresh"  BY <1>2, Fields
    <2>2. ~flash_mode' /\ todo' = Entered1 /\ family' = "rp2040"
      BY <1>1, <1>2, <2>1, SetFields, EnterAhead DEF Entering
    <2>3. QED  BY <2>2 DEF Modes
  <1>3. CASE Entering /\ todo = Entered1 /\ Step = One("set", "entered", 0)
    <2>1. Step.what = "entered"  BY <1>3, Fields
    <2>2. flash_mode' /\ family' = "rp2040" /\ mode' = "command"
      BY <1>1, <1>3, <2>1, SetFields, EnteredMode DEF Entering
    <2>3. QED  BY <2>2 DEF Modes
  <1>4. CASE Erasing /\ \E s \in Sectors :
                          /\ todo = Noted(s) /\ Step = One("set", "erased", s) /\ next = s + 1
                          /\ s \notin erased /\ Wiped(s)
    <2>1. Step.what = "erased" /\ Step # One("set", "left", 0)  BY <1>4, Fields
    <2>2. UNCHANGED <<flash_mode, stranded>>  BY <2>1, SetFields
    <2>3. flash_mode => mode = "command"  BY <1>1, <2>1 DEF Modes, Step
    <2>4. mode = "command" => flash_mode
      <3>1. Ready  BY <1>4 DEF Erasing
      <3>2. QED  BY <1>1, <3>1 DEF Ready, Modes
    <2>5. flash_mode' => mode' = "command"  BY <1>1, <2>2, <2>3
    <2>6. mode' = "command" => flash_mode'  BY <1>1, <2>2, <2>4
    <2>7. family' # "rp2040" => mode' = "xip" /\ ~flash_mode'  BY <1>1, <2>2 DEF Modes
    <2>8. QED  BY <2>5, <2>6, <2>7 DEF Modes
  <1>5. CASE Finishing /\ Xip /\ Step = One("set", "left", 0)
    <2>1. Step.what = "left"  BY <1>5, Fields
    <2>2. ~flash_mode' /\ stranded' = stranded /\ family' = "rp2040"
      BY <1>1, <1>5, <2>1, SetFields DEF Finishing
    <2>3. mode' = "command" => stranded'
      <3>1. mode = "command" => stranded  BY <1>5 DEF Xip
      <3>2. CASE stranded  BY <2>2, <3>2
      <3>3. CASE mode # "command"  BY <1>1, <3>3
      <3>4. QED  BY <3>1, <3>2, <3>3
    <2>4. QED  BY <2>2, <2>3 DEF Modes
  <1>6. CASE Out /\ todo = Over2 /\ Step = One("set", "forget", 0)
    <2>1. Step.what = "forget"  BY <1>6, Fields
    <2>2. ~flash_mode' /\ stranded' = (mode = "command")  BY <2>1, SetFields
    <2>3. mode' = "command" => stranded'  BY <1>1, <2>2
    <2>4. family' # "rp2040" => mode' = "xip"  BY <1>1 DEF Modes
    <2>5. QED  BY <2>2, <2>3, <2>4 DEF Modes
  <1>7. QED  BY <1>1, <1>2, <1>3, <1>4, <1>5, <1>6, SetCases

LEMMA ModesKept ==
  ASSUME FlashInv, FlashNext \/ UNCHANGED flashVars PROVE Modes'
  <1>1. Types /\ Modes  BY DEF FlashInv
  <1>2. ASSUME NEW o \in Asked, Ask(o) PROVE Modes'
    <2>1. UNCHANGED <<family, mode, flash_mode, stranded>> /\ res # "busy"  BY <1>2, AskFields
    <2>2. todo = <<>>  BY <1>1, <2>1 DEF Types
    <2>3. QED  BY <1>1, <2>1, <2>2, IdleModes
  <1>3. CASE Iterate
    <2>1. UNCHANGED <<family, mode, flash_mode, stranded>> /\ todo = <<>>  BY <1>3, IterateCases
    <2>2. QED  BY <1>1, <2>1, IdleModes
  <1>4. CASE Succeeds \/ AccessFails  BY <1>4, AccessModes
  <1>5. CASE OwnWrite
    <2>1. UNCHANGED <<family, mode, flash_mode, stranded>> /\ Step.what = "run" /\ todo # <<>>
      BY <1>5, OwnWriteFields
    <2>2. Course  BY DEF FlashInv
    <2>3. ~flash_mode /\ todo \notin {Entered2, Entered1}  BY <2>1, <2>2, Heads
    <2>4. mode = "command" => stranded  BY <1>1, <2>3 DEF Modes
    <2>5. mode' = "command" => stranded'
      <3>1. CASE stranded  BY <2>1, <3>1
      <3>2. CASE mode # "command"  BY <2>1, <3>2
      <3>3. QED  BY <2>4, <3>1, <3>2
    <2>6. ~flash_mode' /\ (family' # "rp2040" => mode' = "xip")  BY <1>1, <2>1, <2>3 DEF Modes
    <2>7. QED  BY <2>5, <2>6 DEF Modes
  <1>6. CASE Set  BY <1>6, SetModes
  <1>7. CASE Finished
    <2>1. UNCHANGED <<family, mode, flash_mode, stranded>> /\ todo = <<>>
      BY <1>7 DEF Finished, chip, known, past
    <2>2. QED  BY <1>1, <2>1, IdleModes
  <1>8. CASE UNCHANGED flashVars
    <2>1. UNCHANGED <<family, mode, flash_mode, stranded, todo>>
      BY <1>8 DEF flashVars, chip, known, past
    <2>2. QED  BY <1>1, <2>1 DEF Modes
  <1>9. QED  BY <1>2, <1>3, <1>4, <1>5, <1>6, <1>7, <1>8 DEF FlashNext
-----------------------------------------------------------------------------
(* What is recorded of each cell.                                          *)
LEMMA SameAccount ==
  ASSUME Account, UNCHANGED <<family, flash_mode, erased, flash, programmed>> PROVE Account'
  <1>1. Stretch' = Stretch  BY DEF Stretch
  <1>2. QED  BY <1>1 DEF Account

LEMMA AccessAccount == ASSUME FlashInv, Succeeds \/ AccessFails PROVE Account'
  <1>1. UNCHANGED <<family, op, flash_mode, erased>> /\ Touches /\ todo # <<>>  BY AccessKept
  <1>2. Types /\ Course /\ Modes /\ Account /\ Progress  BY DEF FlashInv
  <1>3. flash' = flash \/ Wiping \/ Burning  BY <1>1, Touched
  <1>4. Noting  BY Noticed
  <1>5. Stretch' = Stretch  BY <1>1 DEF Stretch
  <1>6. CASE Stretch
    <2>1. family # "nrf54"  BY <1>2, <1>6 DEF Stretch, Modes
    <2>2. ASSUME NEW c \in Cells, Sector(c) \in erased PROVE flash'[c] \subseteq programmed'[c]
      <3>1. flash[c] \subseteq programmed[c] /\ programmed[c] \subseteq programmed'[c]
        BY <1>2, <1>4, <1>6, <2>2 DEF Account, Noting
      <3>2. CASE flash' = flash  BY <3>1, <3>2
      <3>3. CASE Wiping
        <4>1. flash'[c] = flash[c] \/ flash'[c] = {}  BY <3>3 DEF Wiping
        <4>2. QED  BY <3>1, <4>1
      <3>4. CASE Burning /\ c = Step.x
        <4>1. Step.what = "program" /\ flash'[c] \subseteq flash[c] \cup {op.data}
          BY <3>4 DEF Burning
        <4>2. programmed'[c] = programmed[c] \cup {op.data}  BY <1>4, <2>1, <3>4, <4>1 DEF Noting
        <4>3. QED  BY <3>1, <4>1, <4>2
      <3>5. CASE Burning /\ c # Step.x
        <4>1. flash'[c] = flash[c]  BY <3>5 DEF Burning
        <4>2. QED  BY <3>1, <4>1
      <3>6. QED  BY <1>3, <3>2, <3>3, <3>4, <3>5
    <2>3. ASSUME NEW c \in Cells PROVE programmed'[c] \subseteq {Own} \/ Sector(c) \in erased
      <3>1. programmed[c] \subseteq {Own} \/ Sector(c) \in erased  BY <1>2, <1>6 DEF Account
      <3>2. CASE Step.what # "program" \/ c # Step.x
        <4>1. programmed'[c] = programmed[c]  BY <1>4, <3>2 DEF Noting
        <4>2. QED  BY <3>1, <4>1
      <3>3. CASE Step.what = "program" /\ c = Step.x
        <4>1. Programming /\ InSpan(c)  BY <1>1, <1>2, <3>3, Heads
        <4>2. op.kind = "write" /\ res # "err" /\ loop = "program"  BY <4>1 DEF Programming, Writing
        <4>3. Sector(c) \in erased  BY <1>2, <2>1, <4>1, <4>2 DEF Progress, Erased
        <4>4. QED  BY <4>3
      <3>4. QED  BY <3>2, <3>3
    <2>4. Stretch'  BY <1>5, <1>6
    <2>5. QED  BY <1>1, <2>2, <2>3, <2>4 DEF Account
  <1>7. CASE ~Stretch
    <2>1. programmed' = programmed
      <3>1. CASE Step.what # "program"  BY <1>4, <3>1 DEF Noting
      <3>2. CASE Step.what = "program"
        <4>1. Programming  BY <1>1, <1>2, <3>2, Heads
        <4>2. family = "nrf54"  BY <1>2, <1>7, <4>1 DEF Programming, Ready, Stretch, Types
        <4>3. QED  BY <1>4, <4>2 DEF Noting
      <3>3. QED  BY <3>1, <3>2
    <2>2. ~Stretch'  BY <1>5, <1>7
    <2>3. QED  BY <1>2, <1>7, <2>1, <2>2 DEF Account
  <1>8. QED  BY <1>6, <1>7

LEMMA OwnWriteAccount == ASSUME FlashInv, OwnWrite PROVE Account'
  <1>1. UNCHANGED <<family, flash_mode, erased>> /\ todo # <<>> /\ Step.what = "run"  BY OwnWriteFields
  <1>2. Types /\ Course /\ Modes /\ Account  BY DEF FlashInv
  <1>3. ~flash_mode  BY <1>1, <1>2, Heads
  <1>4. CASE family = "nrf52"
    <2>1. Stretch /\ Stretch'  BY <1>1, <1>4 DEF Stretch
    <2>2. \A c \in Cells : /\ flash'[c] \subseteq flash[c] \cup {Own}
                           /\ programmed'[c] = programmed[c] \cup (flash'[c] \ flash[c])
      BY <1>4, OwnWriteFields
    <2>3. ASSUME NEW c \in Cells
          PROVE  /\ Sector(c) \in erased => flash'[c] \subseteq programmed'[c]
                 /\ programmed'[c] \subseteq {Own} \/ Sector(c) \in erased
      <3>1. /\ Sector(c) \in erased => flash[c] \subseteq programmed[c]
            /\ programmed[c] \subseteq {Own} \/ Sector(c) \in erased
        BY <1>2, <2>1 DEF Account
      <3>2. QED  BY <2>2, <3>1
    <2>4. QED  BY <1>1, <2>1, <2>3 DEF Account
  <1>5. CASE family # "nrf52"
    <2>1. ~Stretch /\ ~Stretch'  BY <1>1, <1>3, <1>5 DEF Stretch
    <2>2. programmed' = programmed  BY <1>5, OwnWriteFields
    <2>3. QED  BY <1>2, <2>1, <2>2 DEF Account
  <1>6. QED  BY <1>4, <1>5

LEMMA SetAccount == ASSUME FlashInv, Set PROVE Account'
  <1>1. UNCHANGED <<family, flash>> /\ Types /\ Course /\ Modes /\ Account  BY SetFields DEF FlashInv
  <1>2. CASE Entering /\ todo = Entered2 /\ Step = One("set", "fresh", 0)
    <2>1. Step.what = "fresh"  BY <1>2, Fields
    <2>2. UNCHANGED <<flash_mode, programmed>>  BY <2>1, SetFields
    <2>3. ~Stretch /\ ~Stretch'  BY <1>1, <1>2, <2>2 DEF Entering, Stretch
    <2>4. QED  BY <1>1, <2>2, <2>3 DEF Account
  <1>3. CASE Entering /\ todo = Entered1 /\ Step = One("set", "entered", 0)
    <2>1. Step.what = "entered"  BY <1>3, Fields
    <2>2. programmed' = Blank /\ erased' = erased  BY <2>1, SetFields
    <2>3. erased = {}  BY <1>3, EnteredMode
    <2>4. \A c \in Cells : programmed'[c] = {} /\ Sector(c) \notin erased'
      BY <2>2, <2>3 DEF Blank
    <2>5. QED  BY <2>4 DEF Account
  <1>4. CASE Erasing /\ \E s \in Sectors :
                          /\ todo = Noted(s) /\ Step = One("set", "erased", s) /\ next = s + 1
                          /\ s \notin erased /\ Wiped(s)
    <2>1. PICK s \in Sectors : Step = One("set", "erased", s) /\ Wiped(s)  BY <1>4
    <2>2. Step.what = "erased" /\ Step.x = s  BY <2>1, Fields
    <2>3. erased' = erased \cup {s} /\ UNCHANGED <<flash_mode, programmed>>  BY <2>2, SetFields
    <2>4. Stretch' = Stretch  BY <1>1, <2>3 DEF Stretch
    <2>5. \A c \in Cells : Sector(c) = s => flash'[c] = {}  BY <1>1, <2>1 DEF Wiped
    <2>6. QED  BY <1>1, <2>3, <2>4, <2>5 DEF Account
  <1>5. CASE Finishing /\ Step = One("set", "left", 0)
    <2>1. Step.what = "left"  BY <1>5, Fields
    <2>2. ~flash_mode' /\ programmed' = Blank  BY <2>1, SetFields
    <2>3. ~Stretch'  BY <1>1, <1>5, <2>2 DEF Finishing, Stretch
    <2>4. QED  BY <2>2, <2>3 DEF Account, Blank
  <1>6. CASE Out /\ Step = One("set", "forget", 0)
    <2>1. Step.what = "forget"  BY <1>6, Fields
    <2>2. ~flash_mode' /\ programmed' = Blank /\ (family = "nrf52" => erased' = {})
      BY <2>1, SetFields
    <2>3. \A c \in Cells : programmed'[c] = {}  BY <2>2 DEF Blank
    <2>4. Stretch' => erased' = {}  BY <1>1, <2>2 DEF Stretch
    <2>5. QED  BY <2>3, <2>4 DEF Account
  <1>7. QED  BY <1>1, <1>2, <1>3, <1>4, <1>5, <1>6, SetCases

LEMMA AccountKept ==
  ASSUME FlashInv, FlashNext \/ UNCHANGED flashVars PROVE Account'
  <1>1. Account  BY DEF FlashInv
  <1>2. ASSUME NEW o \in Asked, Ask(o) PROVE Account'
    <2>1. UNCHANGED <<family, flash_mode, erased, flash, programmed>>  BY <1>2, AskFields
    <2>2. QED  BY <1>1, <2>1, SameAccount
  <1>3. CASE Iterate
    <2>1. UNCHANGED <<family, flash_mode, erased, flash, programmed>>  BY <1>3, IterateCases
    <2>2. QED  BY <1>1, <2>1, SameAccount
  <1>4. CASE Succeeds \/ AccessFails  BY <1>4, AccessAccount
  <1>5. CASE OwnWrite  BY <1>5, OwnWriteAccount
  <1>6. CASE Set  BY <1>6, SetAccount
  <1>7. CASE Finished \/ UNCHANGED flashVars
    <2>1. UNCHANGED <<family, flash_mode, erased, flash, programmed>>
      BY <1>7 DEF Finished, flashVars, chip, known, past
    <2>2. QED  BY <1>1, <2>1, SameAccount
  <1>8. QED  BY <1>2, <1>3, <1>4, <1>5, <1>6, <1>7 DEF FlashNext
-----------------------------------------------------------------------------
(* What a write has done so far.                                           *)
LEMMA WriteCourse ==
  ASSUME Course, todo # <<>>, op.kind = "write"
  PROVE  Entering \/ Selecting \/ Erasing \/ Programming
  BY DEF Course, Between, Finishing, Out

(* A cell whose part of Progress is kept.                                  *)
CellDone(c) ==
  /\ c \in loose \/ programmed[c] \subseteq {op.data}
  /\ IF InSpan(c)
     THEN (family # "nrf54" => Erased(c)) /\ (Written(c) => Taken(c))
     ELSE flash[c] = flash0[c] \/ (family # "nrf54" /\ programmed[c] \subseteq {Own} /\ flash[c] = {})

LEMMA CellProgress ==
  /\ Progress <=> (op.kind = "write" /\ res # "err" => \A c \in Cells : CellDone(c))
  /\ (\A c \in Cells : CellDone(c)') => Progress'
  BY DEF Progress, CellDone

(* The next access of the loop ahead, the cells as they were.              *)
LEMMA CellKept ==
  ASSUME NEW c \in Cells, CellDone(c),
         UNCHANGED <<family, op, flash, flash0, loose, programmed>>,
         InSpan(c) /\ family # "nrf54" => Erased(c)',
         InSpan(c) /\ Written(c)' => Written(c) \/ Taken(c)
  PROVE  CellDone(c)'
  <1>1. InSpan(c)' = InSpan(c) /\ Taken(c)' = Taken(c)  BY DEF InSpan, Taken
  <1>2. CASE InSpan(c)
    <2>1. Written(c)' => Taken(c)'
      <3>1. ASSUME Written(c)' PROVE Taken(c)  BY <1>2, <3>1 DEF CellDone
      <3>2. ASSUME Written(c)' PROVE Taken(c)'
        <4>1. Taken(c)  BY <3>1, <3>2
        <4>2. QED  BY <4>1 DEF Taken
      <3>3. QED  BY <3>2
    <2>2. InSpan(c)'  BY <1>2 DEF InSpan
    <2>3. family' # "nrf54" => Erased(c)'  BY <1>2
    <2>4. c \in loose' \/ programmed'[c] \subseteq {op'.data}  BY DEF CellDone
    <2>5. QED  BY <2>1, <2>2, <2>3, <2>4 DEF CellDone
  <1>3. CASE ~InSpan(c)
    <2>1. ~InSpan(c)'  BY <1>3 DEF InSpan
    <2>2. QED  BY <1>3, <2>1 DEF CellDone
  <1>4. QED  BY <1>2, <1>3

LEMMA AskProgress == ASSUME FlashInv, NEW o \in Asked, Ask(o) PROVE Progress'
  <1>1. /\ UNCHANGED <<family, flash, mode, config, flash_mode, erased, programmed, stranded>>
        /\ res # "busy" /\ op' = o /\ todo' = Begin(o) /\ res' = "busy" /\ flash0' = flash
        /\ loose' = {c \in Cells : ~(programmed[c] \subseteq {o.data})}
        /\ o.kind = "write" /\ family = "nrf54" => loop' = "program" /\ next' = o.span[1]
        /\ o.kind = "write" /\ family # "nrf54" => loop' = "erase" /\ next' = Sector(o.span[1])
    BY AskFields
  <1>2. SUFFICES ASSUME o.kind = "write", NEW c \in Cells PROVE CellDone(c)'
    BY <1>1 DEF Progress, CellDone
  <1>3. o.span[1] \in Cells /\ o.span[1] \in Nat /\ c \in Nat  BY <1>2, AskedKinds, SectorOrder
  <1>4. c \in loose' \/ programmed'[c] \subseteq {op'.data}  BY <1>1
  <1>5. flash'[c] = flash0'[c]  BY <1>1
  <1>6. ASSUME InSpan(c)' PROVE (family' # "nrf54" => Erased(c)') /\ ~Written(c)'
    <2>1. o.span[1] <= c  BY <1>1, <1>6 DEF InSpan
    <2>2. Sector(o.span[1]) <= Sector(c)  BY <1>3, <2>1, SectorOrder
    <2>3. family' # "nrf54" => Erased(c)'  BY <1>1, <1>2, <2>2 DEF Erased
    <2>4. ~Written(c)'
      <3>1. CASE family = "nrf54"
        <4>1. loop' = "program" /\ next' = o.span[1]  BY <1>1, <1>2, <3>1
        <4>2. ~(c + 1 < next') /\ ~(c < next')  BY <1>3, <2>1, <4>1
        <4>3. QED  BY <4>1, <4>2 DEF Written
      <3>2. CASE family # "nrf54"  BY <1>1, <1>2, <3>2 DEF Written
      <3>3. QED  BY <3>1, <3>2
    <2>5. QED  BY <2>3, <2>4
  <1>7. QED  BY <1>4, <1>5, <1>6 DEF CellDone

LEMMA IterateProgress == ASSUME FlashInv, Iterate PROVE Progress'
  <1>1. /\ UNCHANGED <<family, flash, mode, config, flash_mode, erased, op, res, flash0, loose,
                       programmed, stranded>>
        /\ todo = <<>> /\ Writing /\ op \in Asked /\ next \in Nat
    BY IterateCases
  <1>2. \A c \in Cells : CellDone(c)  BY <1>1 DEF FlashInv, Progress, CellDone, Writing
  <1>3. SUFFICES ASSUME NEW c \in Cells PROVE CellDone(c)'
    BY CellProgress
  <1>4. op.span[1] \in Cells /\ op.span[2] \in Cells /\ op.span[1] \in Nat /\ op.span[2] \in Nat
    BY <1>1, AskedKinds, SectorOrder DEF Writing
  <1>5. c \in Nat /\ Sector(c) \in Nat /\ Sector(op.span[2]) \in Nat /\ CellDone(c)
    BY <1>2, <1>4, SectorOrder
  <1>6. ~Erasing  BY <1>1, EraseAhead DEF Erasing
  <1>7. InSpan(c) => op.span[1] <= c /\ c <= op.span[2] /\ Sector(c) <= Sector(op.span[2])
    BY <1>4, SectorOrder DEF InSpan
  <1>8. InSpan(c) /\ family # "nrf54" => Sector(c) \in erased \/ (loop = "erase" /\ next <= Sector(c))
    BY <1>5, <1>6 DEF CellDone, Erased
  <1>9. CASE /\ loop = "erase" /\ next > Sector(op.span[2]) /\ loop' = "program"
             /\ next' = op.span[1] /\ todo' = <<>>
    <2>1. InSpan(c) /\ family # "nrf54" => Sector(c) \in erased'
      BY <1>1, <1>5, <1>7, <1>8, <1>9
    <2>2. InSpan(c) => ~Written(c)'
      <3>1. InSpan(c) => ~(c + 1 < next') /\ ~(c < next')  BY <1>4, <1>5, <1>7, <1>9
      <3>2. QED  BY <1>9, <3>1 DEF Written
    <2>3. InSpan(c) /\ family # "nrf54" => Erased(c)'  BY <2>1 DEF Erased
    <2>4. QED  BY <1>1, <1>5, <2>2, <2>3, CellKept
  <1>10. CASE /\ loop = "erase" /\ next <= Sector(op.span[2]) /\ next \in erased
              /\ loop' = "erase" /\ next' = next + 1 /\ todo' = <<>>
    <2>1. InSpan(c) /\ family # "nrf54" => Sector(c) \in erased' \/ next' <= Sector(c)
      BY <1>1, <1>5, <1>8, <1>10
    <2>2. InSpan(c) /\ family # "nrf54" => Erased(c)'  BY <1>10, <2>1 DEF Erased
    <2>3. ~Written(c)'  BY <1>10 DEF Written
    <2>4. QED  BY <1>1, <1>5, <2>2, <2>3, CellKept
  <1>11. CASE /\ loop = "erase" /\ next <= Sector(op.span[2]) /\ next \notin erased
              /\ loop' = "erase" /\ next' = next + 1 /\ todo' = EraseSector(next)
    <2>1. Erasing'  BY <1>11, SectorBegins
    <2>2. InSpan(c) /\ family # "nrf54" =>
            Sector(c) \in erased' \/ next' <= Sector(c) \/ next' = Sector(c) + 1
      BY <1>1, <1>5, <1>8, <1>11
    <2>3. InSpan(c) /\ family # "nrf54" => Erased(c)'  BY <1>11, <2>1, <2>2 DEF Erased
    <2>4. ~Written(c)'  BY <1>11 DEF Written
    <2>5. QED  BY <1>1, <1>5, <2>3, <2>4, CellKept
  <1>12. CASE /\ loop = "program" /\ op.span[1] <= next /\ next > op.span[2] /\ loop' = "none"
              /\ next' = 0 /\ todo' = <<>>
    <2>1. InSpan(c) => Written(c)
      <3>1. InSpan(c) => c < next  BY <1>1, <1>4, <1>5, <1>7, <1>12
      <3>2. QED  BY <1>1, <1>12, <3>1 DEF Written
    <2>2. InSpan(c) /\ family # "nrf54" => Erased(c)'
      <3>1. InSpan(c) /\ family # "nrf54" => Sector(c) \in erased'  BY <1>1, <1>8, <1>12
      <3>2. QED  BY <3>1 DEF Erased
    <2>3. QED  BY <1>1, <1>5, <2>1, <2>2, CellKept
  <1>13. CASE /\ loop = "program" /\ op.span[1] <= next /\ next <= op.span[2] /\ loop' = "program"
              /\ next' = next + 1 /\ todo' = Program(next)
    <2>1. todo' # <<>>  BY <1>13, Begun, ProgramAhead
    <2>2. Written(c)' => Written(c)
      <3>1. Written(c)' => c + 1 < next'  BY <1>13, <2>1 DEF Written
      <3>2. c + 1 < next' => c < next  BY <1>1, <1>5, <1>13
      <3>3. QED  BY <1>1, <1>13, <3>1, <3>2 DEF Written
    <2>3. InSpan(c) /\ family # "nrf54" => Erased(c)'
      <3>1. InSpan(c) /\ family # "nrf54" => Sector(c) \in erased'  BY <1>1, <1>8, <1>13
      <3>2. QED  BY <3>1 DEF Erased
    <2>4. QED  BY <1>1, <1>5, <2>2, <2>3, CellKept
  <1>14. QED
    <2> DEFINE A == /\ loop = "erase" /\ next > Sector(op.span[2]) /\ loop' = "program"
                    /\ next' = op.span[1] /\ todo' = <<>>
               B == /\ loop = "erase" /\ next <= Sector(op.span[2]) /\ next \in erased
                    /\ loop' = "erase" /\ next' = next + 1 /\ todo' = <<>>
               C == /\ loop = "erase" /\ next <= Sector(op.span[2]) /\ next \notin erased
                    /\ loop' = "erase" /\ next' = next + 1 /\ todo' = EraseSector(next)
               D == /\ loop = "program" /\ op.span[1] <= next /\ next > op.span[2] /\ loop' = "none"
                    /\ next' = 0 /\ todo' = <<>>
               E == /\ loop = "program" /\ op.span[1] <= next /\ next <= op.span[2] /\ loop' = "program"
                    /\ next' = next + 1 /\ todo' = Program(next)
    <2>1. A \/ B \/ C \/ D \/ E  BY IterateCases
    <2>2. QED  BY <1>9, <1>10, <1>11, <1>12, <1>13, <2>1

(* Whether a cell is erased or written is a matter of the loop.            *)
LEMMA SameErased ==
  ASSUME NEW c \in Cells, Erased(c), UNCHANGED <<erased, loop, next>>, Erasing => Erasing'
  PROVE  Erased(c)'
  BY DEF Erased

LEMMA ProgramsNext == ASSUME Programming' PROVE todo' # <<>>
  <1>1. PICK d \in Cells : todo' \in {RomProgram2(d), RomProgram1(d), Burning5(d), Burning4(d),
                                      Burning3(d), Rram6(d), Rram5(d), Rram4(d), Rram3,
                                      Closing2, Closing1}
    BY DEF Programming
  <1>2. QED  BY <1>1, ProgramAhead

LEMMA SucceedsProgress == ASSUME FlashInv, Succeeds PROVE Progress'
  <1>1. /\ UNCHANGED <<family, op, flash_mode, erased, flash0, loose, res, loop, next>>
        /\ todo # <<>> /\ todo' = Tail(todo)
    BY Kept
  <1>2. Types /\ Course /\ Modes /\ Account /\ Progress  BY DEF FlashInv
  <1>3. CASE ~(op.kind = "write" /\ res # "err")  BY <1>1, <1>3 DEF Progress
  <1>4. CASE op.kind = "write" /\ res # "err"
    <2>1. Entering \/ Selecting \/ Erasing \/ Programming  BY <1>1, <1>2, <1>4, WriteCourse
    <2>2. Noting  BY Noticed
    <2>3. flash' = flash \/ Wiping \/ Burning  BY <1>1, AccessKept, Touched
    <2>4. SUFFICES ASSUME NEW c \in Cells PROVE CellDone(c)'
      BY CellProgress
    <2>5. CellDone(c) /\ c \in Nat /\ next \in Nat  BY <1>2, <1>4, SectorOrder DEF Progress, CellDone, Course
    <2>6. InSpan(c)' = InSpan(c)  BY <1>1 DEF InSpan
    <2>7. Erasing => Erasing'  BY <1>2, SucceedsErasing
    <2>8. Erased(c) => Erased(c)'  BY <1>1, <2>7, SameErased
    <2>9. ASSUME ~Programming PROVE ~Written(c)'
      <3>1. loop = "erase"  BY <2>1, <2>9 DEF Entering, Selecting, Erasing
      <3>2. QED  BY <1>1, <3>1 DEF Written
    <2>10. CASE flash' = flash /\ Step.what # "program"
      <3>1. programmed' = programmed  BY <2>2, <2>10 DEF Noting
      <3>2. InSpan(c) /\ family # "nrf54" => Erased(c)'  BY <2>5, <2>8 DEF CellDone
      <3>3. InSpan(c) /\ Written(c)' => Written(c) \/ Taken(c)
        <4>1. CASE ~Programming  BY <2>9, <4>1
        <4>2. CASE Programming /\ Programming'
          <5>1. todo' # <<>>  BY <4>2, ProgramsNext
          <5>2. QED  BY <1>1, <5>1 DEF Written
        <4>3. CASE Programming /\ todo' = <<>> /\ \E d \in Cells : next = d + 1 /\ Taken(d)'
          <5>1. PICK d \in Cells : next = d + 1 /\ Taken(d)'  BY <4>3
          <5>2. Taken(d)  BY <1>1, <2>10, <5>1 DEF Taken
          <5>3. loop = "program" /\ d \in Nat  BY <4>3, SectorOrder DEF Programming
          <5>4. Written(c)' => c < next  BY <1>1, <2>5, <5>3 DEF Written
          <5>5. c < next => c + 1 < next \/ c = d  BY <2>5, <5>1, <5>3
          <5>6. QED  BY <5>2, <5>3, <5>4, <5>5 DEF Written
        <4>4. QED  BY <4>1, <4>2, <4>3, SucceedsProgramming
      <3>4. QED  BY <1>1, <2>5, <2>10, <3>1, <3>2, <3>3, CellKept
    <2>11. CASE Wiping
      <3>1. Step.what = "erase" /\ (flash'[c] = flash[c] \/ (Sector(c) = Step.x /\ flash'[c] = {}))
        BY <2>11 DEF Wiping
      <3>2. Erasing /\ Step.x \notin erased  BY <1>1, <1>2, <3>1, Heads
      <3>3. loop = "erase" /\ family # "nrf54" /\ Ready  BY <3>2 DEF Erasing
      <3>4. ~Written(c)'  BY <1>1, <3>3 DEF Written
      <3>5. programmed' = programmed  BY <2>2, <3>1 DEF Noting
      <3>6. Stretch  BY <1>2, <3>3 DEF Stretch, Ready, Types
      <3>7. Sector(c) = Step.x => programmed[c] \subseteq {Own}
        BY <1>2, <3>2, <3>6 DEF Account
      <3>8. c \in loose' \/ programmed'[c] \subseteq {op'.data}  BY <1>1, <2>5, <3>5 DEF CellDone
      <3>9. CASE InSpan(c)
        <4>1. Erased(c)'  BY <2>5, <2>8, <3>3, <3>9 DEF CellDone
        <4>2. InSpan(c)'  BY <1>1, <3>9 DEF InSpan
        <4>3. QED  BY <3>4, <3>8, <4>1, <4>2 DEF CellDone
      <3>10. CASE ~InSpan(c)
        <4>1. ~InSpan(c)'  BY <1>1, <3>10 DEF InSpan
        <4>2. flash[c] = flash0[c] \/ (programmed[c] \subseteq {Own} /\ flash[c] = {})
          BY <2>5, <3>10 DEF CellDone
        <4>3. flash'[c] = flash0'[c] \/ (family' # "nrf54" /\ programmed'[c] \subseteq {Own} /\ flash'[c] = {})
          BY <1>1, <3>1, <3>3, <3>5, <3>7, <4>2
        <4>4. QED  BY <3>8, <4>1, <4>3 DEF CellDone
      <3>11. QED  BY <3>9, <3>10
    <2>12. CASE Step.what = "program"
      <3>1. Programming /\ Step.x \in Cells /\ InSpan(Step.x) /\ next = Step.x + 1
        BY <1>1, <1>2, <2>12, Heads
      <3>2. PICK x \in Cells : x = Step.x  BY <3>1
      <3>3. loop = "program" /\ x \in Nat /\ next = x + 1 /\ InSpan(x)
        BY <3>1, <3>2, SectorOrder DEF Programming
      <3>4. c # x => flash'[c] = flash[c] /\ programmed'[c] = programmed[c]
        <4>1. flash' = flash \/ Burning  BY <2>3, <2>12 DEF Wiping
        <4>2. c # x => flash'[c] = flash[c]  BY <3>2, <4>1 DEF Burning
        <4>3. c # x => programmed'[c] = programmed[c]  BY <2>2, <2>12, <3>2 DEF Noting
        <4>4. QED  BY <4>2, <4>3
      <3>5. c = x => programmed'[c] \subseteq programmed[c] \cup {op.data}
        <4>1. CASE family = "nrf54"
          <5>1. programmed' = programmed  BY <2>2, <4>1 DEF Noting
          <5>2. QED  BY <5>1
        <4>2. CASE family # "nrf54"
          <5>1. programmed'[x] = programmed[x] \cup {op.data}  BY <2>2, <2>12, <3>2, <4>2 DEF Noting
          <5>2. QED  BY <5>1
        <4>3. QED  BY <4>1, <4>2
      <3>6. c \in loose' \/ programmed'[c] \subseteq {op'.data}
        BY <1>1, <2>5, <3>4, <3>5 DEF CellDone
      <3>7. CASE InSpan(c)
        <4>1. InSpan(c)'  BY <1>1, <3>7 DEF InSpan
        <4>2. family' # "nrf54" => Erased(c)'  BY <1>1, <2>5, <2>8, <3>7 DEF CellDone
        <4>3. Written(c)' => Taken(c)'
          <5>1. CASE Programming'
            <6>1. todo' # <<>>  BY <5>1, ProgramsNext
            <6>2. Written(c)' => c + 1 < next  BY <1>1, <3>3, <6>1 DEF Written
            <6>3. c + 1 < next => Taken(c) /\ c # x
              <7>1. c + 1 < next => Written(c)  BY <3>3 DEF Written
              <7>2. c + 1 < next => c # x  BY <2>5, <3>3
              <7>3. QED  BY <2>5, <3>7, <7>1, <7>2 DEF CellDone
            <6>4. Taken(c) /\ c # x => Taken(c)'  BY <1>1, <3>4 DEF Taken
            <6>5. QED  BY <6>2, <6>3, <6>4
          <5>2. CASE \E d \in Cells : next = d + 1 /\ Taken(d)'
            <6>1. PICK d \in Cells : next = d + 1 /\ Taken(d)'  BY <5>2
            <6>2. d \in Nat  BY SectorOrder
            <6>3. d = x  BY <3>3, <6>1, <6>2
            <6>4. Written(c)' => c < next  BY <1>1, <2>5, <3>3 DEF Written
            <6>5. c < next /\ c # x => c + 1 < next  BY <2>5, <3>3
            <6>6. c + 1 < next => Taken(c)
              <7>1. c + 1 < next => Written(c)  BY <3>3 DEF Written
              <7>2. QED  BY <2>5, <3>7, <7>1 DEF CellDone
            <6>7. Taken(c) /\ c # x => Taken(c)'  BY <1>1, <3>4 DEF Taken
            <6>8. c = x => Taken(c)'  BY <6>1, <6>3
            <6>9. QED  BY <6>4, <6>5, <6>6, <6>7, <6>8
          <5>3. QED  BY <3>1, <5>1, <5>2, SucceedsProgramming
        <4>4. QED  BY <3>6, <4>1, <4>2, <4>3 DEF CellDone
      <3>8. CASE ~InSpan(c)
        <4>1. ~InSpan(c)' /\ c # x  BY <1>1, <3>3, <3>8 DEF InSpan
        <4>2. QED  BY <1>1, <2>5, <3>4, <3>6, <3>8, <4>1 DEF CellDone
      <3>9. QED  BY <3>7, <3>8
    <2>13. QED  BY <2>3, <2>10, <2>11, <2>12 DEF Burning
  <1>5. QED  BY <1>3, <1>4

LEMMA AllSets ==
  ASSUME FlashInv, Set, Entering PROVE programmed' = programmed \/ programmed' = Blank
  <1>1. Course  BY DEF FlashInv
  <1>2. \/ Step = One("set", "fresh", 0) \/ Step = One("set", "entered", 0)
        \/ \E s \in Sectors : Step = One("set", "erased", s)
        \/ Step = One("set", "left", 0) \/ Step = One("set", "forget", 0)
    BY <1>1, SetCases
  <1>3. Step.what \in {"fresh", "entered", "erased", "left", "forget"}  BY <1>2, Fields
  <1>4. QED  BY <1>3, SetFields

LEMMA StutterErasing == ASSUME Erasing, UNCHANGED flashVars PROVE Erasing'
  <1>1. UNCHANGED <<family, flash, config, flash_mode, erased, op, res, todo, loop, next>>
    BY DEF flashVars, chip, known, place, past
  <1>2. Writing' = Writing /\ Ready' = Ready /\ \A s \in Sectors : Wiped(s)' = Wiped(s)
    BY <1>1 DEF Writing, Ready, Wiped
  <1>3. QED  BY <1>1, <1>2 DEF Erasing

LEMMA SetProgress == ASSUME FlashInv, Set PROVE Progress'
  <1>1. /\ UNCHANGED <<family, flash, mode, config, op, res, loop, next, flash0, loose>>
        /\ todo' = Tail(todo) /\ todo # <<>> /\ Course /\ Progress
    BY SetFields DEF FlashInv
  <1>2. CASE op.kind # "write" \/ res = "err"  BY <1>1, <1>2 DEF Progress
  <1>3. CASE op.kind = "write" /\ res # "err"
    <2>1. SUFFICES ASSUME NEW c \in Cells PROVE CellDone(c)'
      BY CellProgress
    <2>2. CellDone(c) /\ InSpan(c)' = InSpan(c)  BY <1>1, <1>3 DEF Progress, CellDone, InSpan
    <2>3. CASE Entering
      <3>1. loop' = "erase" /\ next' = Sector(op.span[1]) /\ flash'[c] = flash0'[c]
        BY <1>1, <2>3 DEF Entering
      <3>2. ~Written(c)'  BY <3>1 DEF Written
      <3>3. op \in Asked  BY <1>1, <2>3 DEF FlashInv, Types, Entering, Writing
      <3>4. InSpan(c) => Sector(op.span[1]) <= Sector(c)
        <4>1. op.span[1] \in Cells  BY <1>3, <3>3, AskedKinds
        <4>2. QED  BY <4>1, SectorOrder DEF InSpan
      <3>5. InSpan(c) => Erased(c)'  BY <3>1, <3>4 DEF Erased
      <3>6. programmed' = programmed \/ programmed' = Blank  BY <1>1, <2>3, AllSets
      <3>7. c \in loose' \/ programmed'[c] \subseteq {op'.data}
        BY <1>1, <2>2, <3>6 DEF CellDone, Blank
      <3>8. QED  BY <2>2, <3>1, <3>2, <3>5, <3>7 DEF CellDone
    <2>4. CASE Erasing /\ \E s \in Sectors :
                            /\ todo = Noted(s) /\ Step = One("set", "erased", s) /\ next = s + 1
                            /\ s \notin erased /\ Wiped(s)
      <3>1. PICK s \in Sectors : Step = One("set", "erased", s) /\ next = s + 1  BY <2>4
      <3>2. Step.what = "erased" /\ Step.x = s  BY <3>1, Fields
      <3>3. erased' = erased \cup {s} /\ programmed' = programmed  BY <3>2, SetFields
      <3>4. loop = "erase" /\ s \in Nat /\ Sector(c) \in Nat
        BY <2>4, FlashBounds, SectorOrder DEF Erasing, Sectors
      <3>5. Erased(c) => Sector(c) \in erased \/ next <= Sector(c) \/ Sector(c) = s
        BY <3>1, <3>4 DEF Erased
      <3>6. Erased(c) => Erased(c)'  BY <1>1, <3>3, <3>4, <3>5 DEF Erased
      <3>7. InSpan(c) /\ family # "nrf54" => Erased(c)'  BY <2>2, <3>6 DEF CellDone
      <3>8. ~Written(c)'  BY <1>1, <3>4 DEF Written
      <3>9. QED  BY <1>1, <2>2, <3>3, <3>7, <3>8, CellKept
    <2>5. ~Finishing /\ ~Out  BY <1>3 DEF Finishing, Out
    <2>6. QED  BY <1>1, <2>3, <2>4, <2>5, SetCases
  <1>4. QED  BY <1>2, <1>3

LEMMA ProgressKept ==
  ASSUME FlashInv, FlashNext \/ UNCHANGED flashVars PROVE Progress'
  <1>1. Types /\ Course /\ Progress  BY DEF FlashInv
  <1>2. ASSUME NEW o \in Asked, Ask(o) PROVE Progress'  BY <1>2, AskProgress
  <1>3. CASE Iterate  BY <1>3, IterateProgress
  <1>4. CASE Succeeds  BY <1>4, SucceedsProgress
  <1>5. CASE AccessFails
    <2>1. op' = op  BY <1>5, Lost
    <2>2. res' = "err" \/ Finishing \/ Out  BY <1>5, FailsCourse
    <2>3. op'.kind # "write" \/ res' = "err"  BY <2>1, <2>2 DEF Finishing, Out
    <2>4. QED  BY <2>3 DEF Progress
  <1>6. CASE OwnWrite
    <2>1. Out /\ op' = op  BY <1>6, OwnWriteCourse, OwnWriteFields
    <2>2. op'.kind # "write"  BY <2>1 DEF Out
    <2>3. QED  BY <2>2 DEF Progress
  <1>7. CASE Set  BY <1>7, SetProgress
  <1>8. CASE Finished \/ UNCHANGED flashVars
    <2>1. /\ UNCHANGED <<family, flash, mode, config, flash_mode, erased, op, todo, loop, next, flash0,
                         loose, programmed>>
          /\ res' # "err" => res # "err"
      BY <1>8 DEF Finished, flashVars, chip, known, place, past
    <2>2. CASE ~(op.kind = "write" /\ res # "err")  BY <2>1, <2>2 DEF Progress
    <2>3. CASE op.kind = "write" /\ res # "err"
      <3>1. SUFFICES ASSUME NEW c \in Cells PROVE CellDone(c)'
        BY CellProgress
      <3>2. CellDone(c)  BY <1>1, <2>3 DEF Progress, CellDone
      <3>3. Erased(c) => Erased(c)'
        <4>1. CASE Erasing
          <5>1. res = "busy" /\ loop = "erase" /\ todo # <<>>
            BY <4>1, EraseAhead DEF Erasing, Writing
          <5>2. UNCHANGED flashVars  BY <1>8, <5>1 DEF Finished
          <5>3. Erasing'  BY <4>1, <5>2, StutterErasing
          <5>4. QED  BY <2>1, <5>3, SameErased
        <4>2. CASE ~Erasing  BY <2>1, <4>2, SameErased
        <4>3. QED  BY <4>1, <4>2
      <3>4. InSpan(c) /\ family # "nrf54" => Erased(c)'  BY <3>2, <3>3 DEF CellDone
      <3>5. Written(c)' => Written(c)  BY <2>1 DEF Written
      <3>6. QED  BY <2>1, <3>2, <3>4, <3>5, CellKept
    <2>4. QED  BY <2>2, <2>3
  <1>9. QED  BY <1>2, <1>3, <1>4, <1>5, <1>6, <1>7, <1>8 DEF FlashNext
-----------------------------------------------------------------------------
LEMMA FlashStarts == FlashInit => FlashInv
  <1> SUFFICES ASSUME FlashInit PROVE FlashInv
    OBVIOUS
  <1>1. /\ family \in Families /\ flash = [c \in Cells |-> {Old}] /\ mode = "xip" /\ config = "REN"
        /\ flash_mode = FALSE /\ erased = {} /\ op = None /\ todo = <<>> /\ res = "ok"
        /\ loop = "none" /\ next = 0 /\ programmed = Blank
    BY DEF FlashInit
  <1>2. op.kind = "none"  BY <1>1, AskedKinds
  <1>3. Types  BY <1>1, FlashFamilies DEF Types, Blank
  <1>4. Course  BY <1>1 DEF Course, Between
  <1>5. Modes  BY <1>1 DEF Modes
  <1>6. Account  BY <1>1 DEF Account, Stretch, Blank
  <1>7. Progress  BY <1>2 DEF Progress
  <1>8. QED  BY <1>3, <1>4, <1>5, <1>6, <1>7 DEF FlashInv

LEMMA CourseKept == ASSUME FlashInv, FlashNext \/ UNCHANGED flashVars PROVE Course'
  BY AskCourse, IterateCourse, SucceedsCourse, OwnWriteCourse, FailsCourse, SetCourse, FinishedCourse
  DEF FlashNext

LEMMA FlashAlways == FlashSpec => []FlashInv
  <1>1. FlashInv /\ [FlashNext]_flashVars => FlashInv'
    BY TypesKept, CourseKept, ModesKept, AccountKept, ProgressKept DEF FlashInv
  <1>2. QED  BY <1>1, FlashStarts, PTL DEF FlashSpec

(* Flash, its mode and the server's record of it keep their types.         *)
THEOREM FlashTypes == FlashSpec => []FlashTypeOK
  <1>1. FlashInv => FlashTypeOK  BY DEF FlashInv, Types, FlashTypeOK
  <1>2. QED  BY <1>1, FlashAlways, PTL

(* A write that was answered OK is in flash, for any number of sectors and  *)
(* requests and whichever accesses failed before: the sectors are erased   *)
(* once in a stretch of writing and before a cell of them is programmed,   *)
(* and never a cell that was programmed since.                             *)
THEOREM WritesLand == FlashSpec => []WrittenIsFlash
  <1>1. FlashInv => WrittenIsFlash
    <2> SUFFICES ASSUME FlashInv, res = "ok", op.kind = "write", NEW c \in Cells
                 PROVE  IF InSpan(c) THEN flash[c] = {op.data} \/ c \in loose
                        ELSE flash[c] = flash0[c]
                             \/ (family # "nrf54" /\ programmed[c] \subseteq {Own} /\ flash[c] = {})
      BY DEF WrittenIsFlash
    <2>1. loop = "none"  BY DEF FlashInv, Types
    <2>2. Written(c)  BY <2>1 DEF Written
    <2>3. QED  BY <2>2 DEF FlashInv, Progress, Taken
  <1>2. QED  BY <1>1, FlashAlways, PTL

(* Flash is not read, nor code run from it, in command mode, unless an     *)
(* access that enters or leaves the mode failed or a session ended within  *)
(* it.                                                                     *)
THEOREM ReadsOutsideCommandMode == FlashSpec => []FlashReadable
  <1>1. FlashInv => FlashReadable
    <2> SUFFICES ASSUME FlashInv, todo # <<>>, Step.what \in {"read", "run"}, mode = "command"
                 PROVE  stranded
      BY DEF FlashReadable, Using
    <2>1. Course /\ Modes  BY DEF FlashInv
    <2>2. ~flash_mode /\ todo \notin {Entered2, Entered1}  BY <2>1, Heads
    <2>3. QED  BY <2>1, <2>2 DEF Modes
  <1>2. QED  BY <1>1, FlashAlways, PTL
=============================================================================
