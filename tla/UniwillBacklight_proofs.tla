---------------------- MODULE UniwillBacklight_proofs ----------------------
(***************************************************************************)
(* Theorems about UniwillBacklight, for any levels and any environments:   *)
(* the updates of 0x078c keep the white-only bit; the operations of every  *)
(* context keep to the order its callback laid out; the machine sleeps     *)
(* dark and wakes lit while only stores and events overlap; and with one   *)
(* context at a time the keyboard shows the level the LED class reports.   *)
(***************************************************************************)
EXTENDS UniwillBacklight, SequenceTheorems, TLAPS

\* A value of the register whose white-only bit is set; the values of the other
\* fields do not matter.
WhiteStatus(s) == \E O, L : s \in [white : {TRUE}, off : O, level : L]

\* The bit can only survive the next write of a context if the copy the
\* context took has it: that is what makes the invariant inductive.
WhiteInv ==
  /\ WhiteStatus(status)
  /\ pc = [c \in Contexts |-> pc[c]]
  /\ data = [c \in Contexts |-> data[c]]
  /\ \A c \in Contexts : pc[c] = "use" => WhiteStatus(data[c])

\* Updates of the other fields keep the bit.
LEMMA UpdatesKeepWhite ==
  ASSUME NEW s, WhiteStatus(s), NEW l, NEW o
  PROVE  /\ WhiteStatus([s EXCEPT !.level = l])
         /\ WhiteStatus([s EXCEPT !.off = o])
         /\ WhiteStatus([s EXCEPT !.off = o, !.level = l])
<1> PICK O, L : s \in [white : {TRUE}, off : O, level : L]
  BY DEF WhiteStatus
<1>1. [s EXCEPT !.level = l] \in [white : {TRUE}, off : O, level : L \cup {l}]
  OBVIOUS
<1>2. [s EXCEPT !.off = o] \in [white : {TRUE}, off : O \cup {o}, level : L]
  OBVIOUS
<1>3. [s EXCEPT !.off = o, !.level = l]
        \in [white : {TRUE}, off : O \cup {o}, level : L \cup {l}]
  OBVIOUS
<1> QED BY <1>1, <1>2, <1>3 DEF WhiteStatus

\* No operation starts with the write.
LEMMA FirstPcReads == \A name : FirstPc(name) # "use"
  BY DEF FirstPc

\* The keyboard is a white one at the start.
LEMMA InitWhite == Init => WhiteInv
  BY DEF Init, WhiteInv, WhiteStatus

\* What starts a context leaves the bit and the copies alone.
LEMMA StartWhite ==
  ASSUME WhiteInv,
         \/ \E b \in Levels : Store(b) \/ FnKey(b)
         \/ KeyEvent \/ AdapterEvent \/ Suspend \/ Sleep \/ Wake \/ Resume \/ Thaw
         \/ Probe \/ Remove
  PROVE  WhiteInv'
<1> USE FirstPcReads DEF WhiteInv
<1>1. ASSUME NEW c \in Contexts, NEW ops, Begin(c, ops), UNCHANGED status
      PROVE  WhiteInv'
  BY <1>1 DEF Begin
<1>2. {"sysfs", "event", "pm", "driver"} \subseteq Contexts
  BY DEF Contexts
<1>3. ASSUME NEW b \in Levels, Store(b) PROVE WhiteInv'
  BY <1>1, <1>2, <1>3 DEF Store, ec
<1>4. ASSUME NEW b \in Levels, FnKey(b) PROVE WhiteInv'
  <2>1. WhiteStatus(status)'
    BY <1>4, UpdatesKeepWhite DEF FnKey
  <2> QED BY <1>4, <2>1 DEF FnKey
<1>5. CASE KeyEvent \/ AdapterEvent \/ Suspend \/ Resume \/ Probe
  BY <1>1, <1>2, <1>5 DEF KeyEvent, AdapterEvent, Suspend, Resume, Probe, ec
<1>6. CASE Remove
  BY <1>1, <1>2, <1>6 DEF Remove, ec
<1>7. CASE Sleep \/ Thaw
  BY <1>7 DEF Sleep, Thaw, ec
<1>8. CASE Wake
  <2>1. PICK o \in BOOLEAN, l \in Levels :
          status' = [status EXCEPT !.off = o, !.level = l]
    BY <1>8 DEF Wake
  <2>2. WhiteStatus([status EXCEPT !.off = o, !.level = l])
    BY UpdatesKeepWhite
  <2>3. WhiteStatus(status)'
    BY <2>1, <2>2
  <2> QED BY <1>8, <2>3 DEF Wake
<1> QED
  BY <1>3, <1>4, <1>5, <1>6, <1>7, <1>8

\* Each step of an operation; without failures a read copies the register and
\* a write changes one field of the copy.
LEMMA StepWhite ==
  ASSUME ~env.faults, WhiteInv, NEW c \in Contexts, Step(c)
  PROVE  WhiteInv'
<1> USE FirstPcReads DEF WhiteInv
<1>1. ASSUME Finish(c), UNCHANGED status PROVE WhiteInv'
  BY <1>1 DEF Finish
<1>2. ASSUME NEW op, Becomes(c, op), UNCHANGED status PROVE WhiteInv'
  BY <1>2 DEF Becomes
<1>3. ASSUME NEW next, next # "use", Continue(c, next), UNCHANGED <<status, data>>
      PROVE  WhiteInv'
  BY <1>3 DEF Continue
<1>4. CASE StartRestore(c) \/ StartSetExtern(c)
  BY <1>1, <1>2, <1>4 DEF StartRestore, StartSetExtern, ec
<1>5. CASE Unregister(c) \/ Assign(c) \/ Notify(c) \/ InitEarly(c)
  BY <1>1, <1>5 DEF Unregister, Assign, Notify, InitEarly, ec
<1>6. CASE ReadBlue(c) \/ Kick(c)
  BY <1>3, <1>6 DEF ReadBlue, Kick, ec
<1>7. CASE Read(c)
  BY <1>7 DEF Read, Seen, Continue, ec
<1>8. CASE WriteLevel(c)
  <2>1. WhiteStatus(data[c])
    BY <1>8 DEF WriteLevel, AtPc
  <2>2. PICK l : status' = [data[c] EXCEPT !.level = l]
    BY <1>8 DEF WriteLevel, Written
  <2>3. WhiteStatus([data[c] EXCEPT !.level = l])
    BY <2>1, UpdatesKeepWhite
  <2>4. WhiteStatus(status)'
    BY <2>2, <2>3
  <2> QED BY <1>8, <2>1, <2>4 DEF WriteLevel, Finish, Continue
<1>9. CASE WriteEnable(c)
  <2>1. WhiteStatus(data[c])
    BY <1>9 DEF WriteEnable, AtPc
  <2>2. status' \in {[data[c] EXCEPT !.off = ~Current(c).on]}
    BY <1>9, Zenon DEF WriteEnable, Written
  <2>3. PICK o : status' = [data[c] EXCEPT !.off = o]
    BY <2>2, Zenon
  <2>4. WhiteStatus([data[c] EXCEPT !.off = o])
    BY <2>1, UpdatesKeepWhite
  <2>5. WhiteStatus(status)'
    BY <2>3, <2>4
  <2> QED BY <1>9, <2>1, <2>5 DEF WriteEnable, Finish
<1> QED
  BY <1>4, <1>5, <1>6, <1>7, <1>8, <1>9 DEF Step

\* What may happen is settled at the start.
LEMMA EnvConstant == [Next]_vars => env' = env
<1> SUFFICES ASSUME [Next]_vars PROVE env' = env
  OBVIOUS
<1>1. CASE UNCHANGED vars
  BY <1>1 DEF vars
<1>2. ASSUME NEW b \in Levels, Store(b) \/ FnKey(b) PROVE env' = env
  BY <1>2 DEF Store, FnKey
<1>3. CASE KeyEvent \/ AdapterEvent \/ Suspend \/ Sleep \/ Wake \/ Resume \/ Thaw
  BY <1>3 DEF KeyEvent, AdapterEvent, Suspend, Sleep, Wake, Resume, Thaw
<1>4. CASE Probe \/ Remove
  BY <1>4 DEF Probe, Remove
<1>5. ASSUME NEW c \in Contexts, Step(c) PROVE env' = env
  BY <1>5 DEF Step, StartRestore, StartSetExtern, Unregister, ReadBlue, Kick, Read,
              WriteLevel, Assign, WriteEnable, Notify, InitEarly
<1> QED BY <1>1, <1>2, <1>3, <1>4, <1>5 DEF Next

\* On an EC that answers every access, no overlap of the LED class, the event
\* handler, suspend and resume, and probe and remove ever loses the white-only
\* bit, although none of their updates of 0x078c is atomic.
THEOREM WhiteBitIsPreserved == Spec => []WhiteBitPreserved
<1> DEFINE Inv == ~env.faults => WhiteInv
<1>1. Init => Inv
  BY InitWhite
<1>2. Inv /\ [Next]_vars => Inv'
  <2> SUFFICES ASSUME Inv, [Next]_vars, ~env'.faults PROVE WhiteInv'
    OBVIOUS
  <2>1. ~env.faults /\ WhiteInv
    BY EnvConstant
  <2>2. CASE UNCHANGED vars
    BY <2>1, <2>2 DEF vars, ec, WhiteInv, WhiteStatus
  <2>3. CASE Next
    BY <2>1, <2>3, StartWhite, StepWhite DEF Next
  <2> QED BY <2>2, <2>3
<1>3. Inv => WhiteBitPreserved
  BY DEF WhiteInv, WhiteStatus, WhiteBitPreserved
<1> QED BY <1>1, <1>2, <1>3, PTL DEF Spec

-----------------------------------------------------------------------------
(***************************************************************************)
(* The operations of a context, what is left of them, and the types        *)
(***************************************************************************)

\* What each context may still have to do.
EnableOn == Enable(TRUE)
EnableOff == Enable(FALSE)
Rewrites == {Rewrite(b) : b \in 0 .. 3}
SysfsWork(t) == Len(t) = 1 /\ t[1] \in {Set(b) : b \in 0 .. 3}
EventWork(t) == Len(t) = 1 /\ t[1] \in {Op("notify"), Op("restore")} \cup Rewrites
SuspendWork(t) == Len(t) = 1 /\ t[1] = EnableOff
ResumeWork(t) ==
  \/ Len(t) = 1 /\ t[1] = EnableOn
  \/ Len(t) = 2 /\ t[1] \in {Op("restore")} \cup Rewrites /\ t[2] = EnableOn
ProbeWork(t) ==
  \/ Len(t) = 1 /\ t[1] = EnableOn
  \/ Len(t) = 2 /\ t[1] = Op("init_early") /\ t[2] = EnableOn
RemoveWork(t) ==
  /\ Len(t) > 0 /\ t[Len(t)] = EnableOff
  /\ \A i \in 1 .. Len(t) - 1 :
       t[i] \in {Op("set_extern"), Set(0)} \/ (i = Len(t) - 1 /\ t[i] = Op("unregister"))
UnregisterWork(t) == RemoveWork(t) /\ Len(t) > 1 /\ t[Len(t) - 1] = Op("unregister")

WorkOf(c, t) ==
  CASE c = "sysfs" -> SysfsWork(t)
    [] c = "event" -> EventWork(t)
    [] c = "pm" -> SuspendWork(t) \/ ResumeWork(t)
    [] c = "driver" -> ProbeWork(t) \/ RemoveWork(t)

WorkInv ==
  /\ todo \in [Contexts -> Seq(Operations)]
  /\ \A c \in Contexts : Idle(c) \/ WorkOf(c, todo[c])

\* A brightness is only assigned by an operation that sets it.
AssignInv == \A c \in Contexts : AtPc(c, "assign") => Current(c).op = "set"

TypeInv == TypeOK /\ WorkInv /\ AssignInv

\* Suspend, resume, probe and remove run alone.
Alone ==
  \A c \in {"pm", "driver"} : ~Idle(c) => \A d \in Contexts \ {c} : Idle(d)

\* The copies of the register agree with it on the off bit.
CopiesOff == \A c \in Contexts : AtPc(c, "use") => data[c].off = status.off

\* What the off bit is between the operations that write it, and that those
\* are under way whenever it is not.
PowerInv ==
  /\ power # "awake" => bound /\ Idle("sysfs") /\ Idle("driver")
  /\ power \in {"awake", "asleep", "waking"} => Idle("pm")
  /\ power = "asleep" => status.off /\ Idle("event")
  /\ power = "suspending" => SuspendWork(todo["pm"]) \/ (Idle("pm") /\ status.off)
  /\ power = "resuming" => ResumeWork(todo["pm"]) \/ (Idle("pm") /\ ~status.off)
  /\ bound => ProbeWork(todo["driver"]) \/ Idle("driver")
  /\ bound /\ power = "awake" => ProbeWork(todo["driver"]) \/ ~status.off

OffInv == Alone /\ CopiesOff /\ PowerInv

\* One context at a time.
OneAtATime == \A c, d \in Contexts : c # d => Idle(c) \/ Idle(d)

\* The LED class device and what the driver remembers of it.
RegisteredInv ==
  /\ initialized => bound
  /\ registered => type = "fixed"
  /\ initialized /\ type = "fixed" => registered
  /\ registered => initialized \/ UnregisterWork(todo["driver"])
  /\ UnregisterWork(todo["driver"]) => registered
  /\ \A i \in 1 .. Len(todo["driver"]) :
       todo["driver"][i].op = "set" => UnregisterWork(todo["driver"])
  /\ synced => registered
  /\ ProbeWork(todo["driver"]) => bound /\ ~synced

\* The level an operation under way writes or has read.
OperationsInv ==
  \A c \in Contexts : ~Idle(c) =>
    /\ Current(c).op \in {"set", "rewrite"} => registered
    /\ Current(c).op = "rewrite" => Current(c).level = led
    /\ c = "sysfs" => Current(c).level = led
    /\ pc[c] = "use" =>
         /\ data[c].level \in 0 .. 3
         /\ data[c].level = status.level \/ keyEvent \/ ~bound

\* The store under way has not written yet, the event that is being handled has
\* not read yet, or resume has not restored the level yet.
Unsettled ==
  \/ power \in {"asleep", "waking"}
  \/ power = "resuming" /\ ~Idle("pm") /\ Current("pm").op # "enable"
  \/ ~Idle("sysfs") /\ pc["sysfs"] # "assign"
  \/ ~Idle("event") /\ Current("event").op = "notify"

LevelInv ==
  /\ status.level \in 0 .. 3
  /\ registered /\ synced /\ ~keyEvent /\ Idle("driver") =>
       status.level = led \/ Unsettled

SerialInv == OneAtATime /\ RegisteredInv /\ OperationsInv /\ LevelInv

\* What is left when the first operation ends, and when another takes its place.
LEMMA Rest ==
  ASSUME NEW t \in Seq(Operations), t # <<>>
  PROVE  /\ Len(t) \in Nat /\ Len(t) > 0
         /\ Head(t) = t[1] /\ t[1] \in Operations
         /\ Tail(t) \in Seq(Operations) /\ Len(Tail(t)) = Len(t) - 1
         /\ \A i \in 1 .. Len(t) - 1 : Tail(t)[i] = t[i + 1]
         /\ Tail(t) = <<>> <=> Len(t) = 1
<1>1. Len(t) \in Nat /\ Len(t) > 0
  BY EmptySeq
<1>2. Head(t) = t[1] /\ t[1] \in Operations
  BY <1>1, ElementOfSeq
<1>3. /\ Tail(t) \in Seq(Operations) /\ Len(Tail(t)) = Len(t) - 1
      /\ \A i \in 1 .. Len(Tail(t)) : Tail(t)[i] = t[i + 1]
  BY HeadTailProperties
<1> DEFINE u == Tail(t)
<1>4. u = <<>> <=> Len(t) = 1
  <2>1. u \in Seq(Operations) /\ Len(u) = Len(t) - 1
    BY <1>3
  <2> HIDE DEF u
  <2>2. u = <<>> <=> Len(u) = 0
    BY <2>1, EmptySeq
  <2> QED BY <1>1, <2>1, <2>2
<1> QED BY <1>1, <1>2, <1>3, <1>4

LEMMA Replaced ==
  ASSUME NEW t \in Seq(Operations), t # <<>>, NEW op \in Operations
  PROVE  /\ <<op>> \o Tail(t) \in Seq(Operations) /\ Len(<<op>> \o Tail(t)) = Len(t)
         /\ (<<op>> \o Tail(t))[1] = op
         /\ \A i \in 2 .. Len(t) : (<<op>> \o Tail(t))[i] = t[i]
<1>1. <<op>> \in Seq(Operations) /\ Len(<<op>>) = 1 /\ <<op>>[1] = op
  OBVIOUS
<1>2. Tail(t) \in Seq(Operations) /\ Len(Tail(t)) = Len(t) - 1 /\ Len(t) \in Nat /\ Len(t) > 0
      /\ \A i \in 1 .. Len(t) - 1 : Tail(t)[i] = t[i + 1]
  BY Rest
<1> DEFINE s == <<op>> \o Tail(t)
<1>3. /\ s \in Seq(Operations) /\ Len(s) = 1 + Len(Tail(t))
      /\ \A i \in 1 .. 1 + Len(Tail(t)) :
           s[i] = IF i <= 1 THEN <<op>>[i] ELSE Tail(t)[i - 1]
  BY <1>1, <1>2, ConcatProperties
<1> HIDE DEF s
<1>4. s[1] = op
  BY <1>1, <1>2, <1>3
<1>5. ASSUME NEW i \in 2 .. Len(t) PROVE s[i] = t[i]
  <2>1. s[i] = Tail(t)[i - 1]
    BY <1>2, <1>3
  <2>2. Tail(t)[i - 1] = t[(i - 1) + 1]
    BY <1>2
  <2> QED BY <1>2, <2>1, <2>2
<1> QED BY <1>2, <1>3, <1>4, <1>5 DEF s

\* What distinguishes the operations.
LEMMA OperationNames ==
  /\ \A b : Set(b).op = "set" /\ Set(b).level = b
  /\ \A b : Rewrite(b).op = "rewrite" /\ Rewrite(b).level = b
  /\ EnableOn.op = "enable" /\ EnableOff.op = "enable" /\ EnableOn # EnableOff
  /\ \A name : Op(name).op = name
  BY DEF Set, Rewrite, EnableOn, EnableOff, Enable, Op

LEMMA AreOperations ==
  /\ \A b \in 0 .. 3 : Set(b) \in Operations /\ Rewrite(b) \in Operations
  /\ {EnableOn, EnableOff} \subseteq Operations
  /\ \A name \in {"restore", "notify", "init_early", "set_extern", "unregister"} :
       Op(name) \in Operations
  BY DEF Set, Rewrite, EnableOn, EnableOff, Enable, Op, Operations

LEMMA WorkProceeds ==
  ASSUME NEW c \in Contexts, NEW t \in Seq(Operations), t # <<>>, WorkOf(c, t)
  PROVE  /\ Tail(t) = <<>> \/ WorkOf(c, Tail(t))
         /\ c = "pm" => ~SuspendWork(Tail(t))
         /\ c = "driver" => /\ ProbeWork(t) => Tail(t) = <<>> \/ ProbeWork(Tail(t))
                            /\ ~(ProbeWork(t) /\ RemoveWork(t))
                            /\ ProbeWork(Tail(t)) => ProbeWork(t)
                            /\ RemoveWork(Tail(t)) => RemoveWork(t)
                            /\ UnregisterWork(Tail(t)) => UnregisterWork(t)
                            /\ UnregisterWork(t) => UnregisterWork(Tail(t)) \/ Head(t) = Op("unregister")
<1> DEFINE u == Tail(t)
           n == Len(t)
<1>1. /\ n \in Nat /\ n > 0 /\ Head(t) = t[1]
      /\ Len(u) = n - 1 /\ \A i \in 1 .. n - 1 : u[i] = t[i + 1]
      /\ u = <<>> <=> n = 1
  BY Rest
<1> HIDE DEF u
<1>2. CASE c \in {"sysfs", "event"}
  BY <1>1, <1>2 DEF WorkOf, SysfsWork, EventWork, u
<1>3. CASE c = "pm"
  <2>1. EnableOn # EnableOff
    BY OperationNames
  <2>2. n = 1 \/ (n = 2 /\ t[2] = EnableOn)
    BY <1>1, <1>3 DEF WorkOf, SuspendWork, ResumeWork
  <2>3. n = 1 \/ (Len(u) = 1 /\ u[1] = EnableOn)
    BY <1>1, <2>2
  <2>4. (n = 1 /\ Len(u) = 0) \/ (ResumeWork(u) /\ ~SuspendWork(u))
    BY <1>1, <2>1, <2>3 DEF ResumeWork, SuspendWork
  <2>5. Len(u) = 0 => ~SuspendWork(u)
    BY DEF SuspendWork
  <2> QED BY <1>1, <1>3, <2>4, <2>5 DEF WorkOf, u
<1>4. CASE c = "driver" /\ ProbeWork(t)
  <2>1. EnableOn # EnableOff
    BY OperationNames
  <2>2. n = 1 \/ (n = 2 /\ t[2] = EnableOn)
    BY <1>1, <1>4 DEF ProbeWork
  <2>3. Len(u) = 0 \/ (Len(u) = 1 /\ u[1] = EnableOn)
    BY <1>1, <2>2
  <2>4. t[n] = EnableOn
    BY <1>4, <1>1 DEF ProbeWork
  <2>5. ~RemoveWork(u) /\ ~RemoveWork(t)
    BY <2>1, <2>3, <2>4 DEF RemoveWork
  <2>6. u = <<>> \/ ProbeWork(u)
    BY <1>1, <2>3 DEF ProbeWork
  <2> QED BY <1>4, <2>5, <2>6 DEF WorkOf, UnregisterWork, u
<1>5. CASE c = "driver" /\ RemoveWork(t)
  <2>1. n = 1 \/ RemoveWork(u)
    <3>1. SUFFICES ASSUME n # 1 PROVE RemoveWork(u)
      OBVIOUS
    <3>2. Len(u) > 0 /\ u[Len(u)] = EnableOff
      BY <1>1, <1>5, <3>1 DEF RemoveWork
    <3>3. ASSUME NEW i \in 1 .. Len(u) - 1
          PROVE  \/ u[i] \in {Op("set_extern"), Set(0)}
                 \/ i = Len(u) - 1 /\ u[i] = Op("unregister")
      <4>1. i + 1 \in 1 .. n - 1 /\ u[i] = t[i + 1]
        BY <1>1
      <4> QED BY <1>1, <1>5, <4>1 DEF RemoveWork
    <3> QED BY <3>2, <3>3 DEF RemoveWork
  <2>2. ~ProbeWork(u)
    <3>1. EnableOn # EnableOff
      BY OperationNames
    <3>2. Len(u) = 0 \/ u[Len(u)] # EnableOn
      BY <1>1, <2>1, <3>1 DEF RemoveWork
    <3> QED BY <3>2 DEF ProbeWork
  <2>3. UnregisterWork(u) => UnregisterWork(t)
    <3>1. SUFFICES ASSUME UnregisterWork(u) PROVE n > 1 /\ t[n - 1] = Op("unregister")
      BY <1>5 DEF UnregisterWork
    <3>2. Len(u) - 1 \in 1 .. n - 1 /\ u[Len(u) - 1] = Op("unregister")
      BY <1>1, <3>1 DEF UnregisterWork
    <3> QED BY <1>1, <3>2
  <2>4. UnregisterWork(t) => UnregisterWork(u) \/ Head(t) = Op("unregister")
    <3>1. SUFFICES ASSUME UnregisterWork(t), n # 2 PROVE UnregisterWork(u)
      BY <1>1 DEF UnregisterWork
    <3>2. n - 2 \in 1 .. n - 1 /\ t[n - 1] = Op("unregister") /\ n - 1 > 1
      BY <1>1, <3>1 DEF UnregisterWork
    <3>3. u[n - 2] = t[n - 1]
      BY <1>1, <3>2
    <3> QED BY <1>1, <2>1, <3>2, <3>3 DEF UnregisterWork
  <2>5. ~ProbeWork(t)
    BY <1>1, <1>5, OperationNames DEF ProbeWork, RemoveWork
  <2> QED BY <1>1, <1>5, <2>1, <2>2, <2>3, <2>4, <2>5 DEF WorkOf, u
<1> QED BY <1>2, <1>3, <1>4, <1>5 DEF Contexts, WorkOf

LEMMA WorkReplaced ==
  ASSUME NEW c \in Contexts, NEW t \in Seq(Operations), t # <<>>, WorkOf(c, t),
         NEW l \in 0 .. 3
  PROVE  /\ Head(t) = Op("restore") =>
              /\ WorkOf(c, <<Rewrite(l)>> \o Tail(t))
              /\ c = "pm" => ResumeWork(t) /\ ResumeWork(<<Rewrite(l)>> \o Tail(t))
              /\ c # "driver"
         /\ Head(t) = Op("set_extern") =>
              c = "driver" /\ RemoveWork(t) /\ RemoveWork(<<Set(0)>> \o Tail(t))
<1>1. Head(t) = t[1] /\ Len(t) \in Nat /\ Len(t) > 0
  BY Rest
<1> USE AreOperations
<1> DEFINE u == <<Rewrite(l)>> \o Tail(t)
           v == <<Set(0)>> \o Tail(t)
<1>2. u \in Seq(Operations) /\ Len(u) = Len(t) /\ u[1] = Rewrite(l)
      /\ \A i \in 2 .. Len(t) : u[i] = t[i]
  BY Replaced
<1>3. v \in Seq(Operations) /\ Len(v) = Len(t) /\ v[1] = Set(0)
      /\ \A i \in 2 .. Len(t) : v[i] = t[i]
  BY Replaced
<1> HIDE DEF u, v
<1>4. Rewrite(l) \in Rewrites
  BY DEF Rewrites
<1>5. /\ Op("restore") # Op("set_extern") /\ Op("restore") # Op("notify")
      /\ Op("restore") # Op("init_early") /\ Op("restore") # Op("unregister")
      /\ Op("set_extern") # Op("notify") /\ Op("set_extern") # Op("init_early")
      /\ Op("restore") # EnableOn /\ Op("restore") # EnableOff
      /\ Op("set_extern") # EnableOn /\ Op("set_extern") # EnableOff
      /\ Op("restore") # Set(0)
  BY OperationNames
<1>6. \A b : Set(b) # Op("restore") /\ Set(b) # Op("set_extern") /\ Rewrite(b) # Op("set_extern")
  BY OperationNames
<1>7. CASE c \in {"sysfs", "event"}
  BY <1>1, <1>2, <1>4, <1>5, <1>6, <1>7 DEF WorkOf, SysfsWork, EventWork, Rewrites, u
<1>8. CASE c = "pm"
  <2>1. t[1] # Op("set_extern")
    BY <1>1, <1>5, <1>6, <1>8 DEF WorkOf, SuspendWork, ResumeWork, Rewrites
  <2>2. t[1] = Op("restore") => Len(t) = 2 /\ t[2] = EnableOn
    BY <1>1, <1>5, <1>8 DEF WorkOf, SuspendWork, ResumeWork
  <2>3. t[1] = Op("restore") => ResumeWork(t) /\ ResumeWork(u)
    BY <1>2, <1>4, <2>2 DEF ResumeWork
  <2> QED BY <1>1, <1>8, <2>1, <2>3 DEF WorkOf, u
<1>9. CASE c = "driver"
  <2>1. t[1] # Op("restore")
    BY <1>1, <1>5, <1>6, <1>9 DEF WorkOf, ProbeWork, RemoveWork
  <2>2. ASSUME t[1] = Op("set_extern") PROVE RemoveWork(t) /\ RemoveWork(v)
    <3>1. RemoveWork(t) /\ Len(t) # 1
      BY <1>1, <1>5, <1>9, <2>2 DEF WorkOf, ProbeWork, RemoveWork
    <3>2. v[Len(v)] = EnableOff
      BY <1>1, <1>3, <3>1 DEF RemoveWork
    <3>3. ASSUME NEW i \in 1 .. Len(v) - 1
          PROVE  \/ v[i] \in {Op("set_extern"), Set(0)}
                 \/ i = Len(v) - 1 /\ v[i] = Op("unregister")
      BY <1>1, <1>3, <3>1 DEF RemoveWork
    <3> QED BY <1>3, <3>1, <3>2, <3>3 DEF RemoveWork
  <2> QED BY <1>1, <1>9, <2>1, <2>2 DEF v
<1> QED BY <1>7, <1>8, <1>9 DEF Contexts

\* Which operations a context performs.
LEMMA WorkHeads ==
  ASSUME NEW c \in Contexts, NEW t \in Seq(Operations), t # <<>>, WorkOf(c, t)
  PROVE  /\ Head(t) \in Operations
         /\ c = "sysfs" => Head(t).op = "set"
         /\ c = "event" => Head(t).op \in {"notify", "restore", "rewrite"}
         /\ c = "pm" => \/ SuspendWork(t) /\ Head(t) = EnableOff /\ Len(t) = 1
                        \/ ResumeWork(t) /\ Head(t) = EnableOn /\ Len(t) = 1
                        \/ /\ ResumeWork(t) /\ Head(t).op \in {"restore", "rewrite"}
                           /\ Tail(t) # <<>> /\ Len(t) = 2
         /\ c = "driver" => \/ ProbeWork(t) /\ Head(t) = EnableOn /\ Len(t) = 1
                            \/ ProbeWork(t) /\ Head(t).op = "init_early" /\ Len(t) = 2
                            \/ /\ RemoveWork(t) /\ Head(t) = EnableOff /\ Len(t) = 1
                               /\ ~UnregisterWork(t)
                            \/ /\ RemoveWork(t) /\ Head(t).op \in {"set_extern", "set"}
                               /\ Len(t) # 1
                            \/ /\ UnregisterWork(t) /\ Head(t).op = "unregister" /\ Len(t) = 2
<1>1. /\ Head(t) = t[1] /\ t[1] \in Operations /\ Len(t) \in Nat /\ Len(t) > 0
      /\ Tail(t) = <<>> <=> Len(t) = 1
  BY Rest
<1>2. CASE c = "sysfs"
  BY <1>1, <1>2, OperationNames DEF WorkOf, SysfsWork
<1>3. CASE c = "event"
  <2>1. t[1] = Op("notify") \/ t[1] = Op("restore") \/ \E b \in 0 .. 3 : t[1] = Rewrite(b)
    BY <1>3 DEF WorkOf, EventWork, Rewrites
  <2> QED BY <1>1, <1>3, <2>1, OperationNames
<1>4. CASE c = "pm"
  BY <1>1, <1>4, OperationNames DEF WorkOf, SuspendWork, ResumeWork, Rewrites
<1>5. CASE c = "driver" /\ ProbeWork(t)
  BY <1>1, <1>5, OperationNames DEF ProbeWork
<1>6. CASE c = "driver" /\ RemoveWork(t)
  <2>1. CASE Len(t) = 1
    BY <1>1, <1>6, <2>1 DEF RemoveWork, UnregisterWork
  <2>2. CASE Len(t) # 1
    <3>1. \/ t[1] \in {Op("set_extern"), Set(0)}
          \/ 1 = Len(t) - 1 /\ t[1] = Op("unregister")
      <4>1. 1 \in 1 .. Len(t) - 1
        BY <1>1, <2>2
      <4> QED BY <1>6, <4>1 DEF RemoveWork
    <3>2. CASE t[1] \in {Op("set_extern"), Set(0)}
      BY <1>1, <1>6, <2>2, <3>2, OperationNames
    <3>3. CASE Len(t) = 2 /\ t[1] = Op("unregister")
      BY <1>1, <1>6, <3>3, OperationNames DEF UnregisterWork
    <3> QED BY <1>1, <3>1, <3>2, <3>3
  <2> QED BY <2>1, <2>2
<1> QED BY <1>1, <1>2, <1>3, <1>4, <1>5, <1>6 DEF Contexts, WorkOf

LEMMA FirstPcType == \A name : FirstPc(name) \in {"start", "read_blue", "read"}
  BY DEF FirstPc

\* The steps of a context keep its list one of those, and its program counter and
\* its copy of the register of their types.
ContextsOK ==
  /\ WorkInv /\ AssignInv
  /\ pc \in [Contexts -> {"idle", "start", "read_blue", "kick", "read", "use",
                          "assign"}]
  /\ data \in [Contexts -> Status]

LEMMA BeginOK ==
  ASSUME ContextsOK, NEW c \in Contexts, NEW ops \in Seq(Operations), WorkOf(c, ops),
         Begin(c, ops)
  PROVE  ContextsOK'
<1> DEFINE p == FirstPc(Head(ops).op)
<1>1. p \in {"start", "read_blue", "read"}
  BY FirstPcType
<1> HIDE DEF p
<1>2. /\ todo' = [todo EXCEPT ![c] = ops] /\ pc' = [pc EXCEPT ![c] = p] /\ data' = data
  BY DEF Begin, p
<1> QED
  BY <1>1, <1>2 DEF ContextsOK, WorkInv, AssignInv, AtPc, Idle, Current

LEMMA FinishOK ==
  ASSUME ContextsOK, NEW c \in Contexts, ~Idle(c), Finish(c)
  PROVE  ContextsOK' /\ todo'[c] = Tail(todo[c])
<1> DEFINE t == Tail(todo[c])
           p == IF Len(todo[c]) = 1 THEN "idle" ELSE FirstPc(todo[c][2].op)
<1>1. p \in {"idle", "start", "read_blue", "read"}
  BY FirstPcType
<1>2. Garbage \in Status
  BY DEF Garbage, Status
<1>3. t \in Seq(Operations) /\ (t = <<>> \/ WorkOf(c, t))
  BY Rest, WorkProceeds DEF ContextsOK, WorkInv, Idle
<1>4. /\ todo' = [todo EXCEPT ![c] = t] /\ pc' = [pc EXCEPT ![c] = p]
      /\ data' = [data EXCEPT ![c] = Garbage]
  BY DEF Finish
<1> HIDE DEF p, t
<1>5. WorkInv' /\ todo'[c] = t
  BY <1>3, <1>4 DEF ContextsOK, WorkInv, Idle
<1>6. AssignInv'
  BY <1>1, <1>4 DEF ContextsOK, WorkInv, AssignInv, AtPc, Idle, Current
<1> QED
  BY <1>1, <1>2, <1>4, <1>5, <1>6 DEF ContextsOK, t

LEMMA ContinueOK ==
  ASSUME ContextsOK, NEW c \in Contexts, ~Idle(c),
         NEW next \in {"kick", "read", "use", "assign"}, Continue(c, next),
         next = "assign" => Current(c).op = "set",
         NEW d \in Status, data' = [data EXCEPT ![c] = d]
  PROVE  ContextsOK'
<1> QED
  BY DEF Continue, ContextsOK, WorkInv, AssignInv, AtPc, Idle, Current

LEMMA BecomesOK ==
  ASSUME ContextsOK, NEW c \in Contexts, ~Idle(c), NEW op \in Operations, Becomes(c, op),
         WorkOf(c, <<op>> \o Tail(todo[c]))
  PROVE  ContextsOK' /\ todo'[c] = <<op>> \o Tail(todo[c]) /\ Current(c)' = op
<1> DEFINE t == <<op>> \o Tail(todo[c])
           p == FirstPc(op.op)
<1>1. p \in {"start", "read_blue", "read"}
  BY FirstPcType
<1>2. t \in Seq(Operations) /\ WorkOf(c, t) /\ t # <<>> /\ Head(t) = op
  <2>1. t \in Seq(Operations) /\ Len(t) = Len(todo[c]) /\ t[1] = op /\ Len(todo[c]) > 0
    BY Replaced, Rest DEF ContextsOK, WorkInv, Idle
  <2> HIDE DEF t
  <2>2. t # <<>>
    BY <2>1
  <2>3. Head(t) = t[1]
    BY <2>1, <2>2, Rest
  <2> QED BY <2>1, <2>2, <2>3 DEF t
<1>3. /\ todo' = [todo EXCEPT ![c] = t] /\ pc' = [pc EXCEPT ![c] = p] /\ data' = data
  BY DEF Becomes
<1> HIDE DEF p, t
<1>4. WorkInv' /\ todo'[c] = t /\ Current(c)' = op
  BY <1>2, <1>3 DEF ContextsOK, WorkInv, Idle, Current
<1>5. AssignInv'
  BY <1>1, <1>3 DEF ContextsOK, WorkInv, AssignInv, AtPc, Idle, Current
<1> QED
  BY <1>1, <1>3, <1>4, <1>5 DEF ContextsOK, t

\* What remove sets out to do.
LEMMA RemovalWork ==
  ASSUME NEW s \in {<<>>, <<Op("set_extern")>>,
                    <<Op("set_extern"), Set(0), Op("unregister")>>}
  PROVE  /\ s \o <<EnableOff>> \in Seq(Operations)
         /\ WorkOf("driver", s \o <<EnableOff>>)
         /\ ~ProbeWork(s \o <<EnableOff>>)
         /\ UnregisterWork(s \o <<EnableOff>>) <=> Len(s) = 3
<1> DEFINE w == s \o <<EnableOff>>
<1>1. s \in Seq(Operations) /\ <<EnableOff>> \in Seq(Operations)
  <2>1. /\ Op("set_extern") \in Operations /\ Set(0) \in Operations
        /\ Op("unregister") \in Operations /\ EnableOff \in Operations
    BY AreOperations
  <2>2. /\ <<>> \in Seq(Operations) /\ <<Op("set_extern")>> \in Seq(Operations)
        /\ <<Op("set_extern"), Set(0), Op("unregister")>> \in Seq(Operations)
        /\ <<EnableOff>> \in Seq(Operations)
    BY <2>1
  <2> QED BY <2>2, Zenon
<1>2. /\ w \in Seq(Operations) /\ Len(w) = Len(s) + 1
      /\ \A i \in 1 .. Len(s) + 1 : w[i] = IF i <= Len(s) THEN s[i] ELSE <<EnableOff>>[i - Len(s)]
  BY <1>1, ConcatProperties
<1> HIDE DEF w
<1>3. w[Len(w)] = EnableOff
  BY <1>1, <1>2
<1>4. \A i \in 1 .. Len(s) : w[i] = s[i]
  BY <1>1, <1>2
<1>5. \/ Len(s) = 0
      \/ Len(s) = 1 /\ s[1] = Op("set_extern")
      \/ Len(s) = 3 /\ s[1] = Op("set_extern") /\ s[2] = Set(0) /\ s[3] = Op("unregister")
  OBVIOUS
<1>6. RemoveWork(w)
  BY <1>2, <1>3, <1>4, <1>5 DEF RemoveWork
<1>7. ~ProbeWork(w)
  BY <1>2, <1>3, OperationNames DEF ProbeWork
<1>8. UnregisterWork(w) <=> Len(s) = 3
  <2>1. Op("set_extern") # Op("unregister")
    BY OperationNames
  <2>2. CASE Len(s) = 0
    BY <1>2, <2>2 DEF UnregisterWork
  <2>3. CASE Len(s) = 1 /\ s[1] = Op("set_extern")
    BY <1>2, <1>4, <2>1, <2>3 DEF UnregisterWork
  <2>4. CASE Len(s) = 3 /\ s[3] = Op("unregister")
    BY <1>2, <1>4, <1>6, <2>4 DEF UnregisterWork
  <2> QED BY <1>5, <2>2, <2>3, <2>4
<1> QED BY <1>2, <1>6, <1>7, <1>8 DEF WorkOf, w

\* The remaining variables.
MemoryOK ==
  /\ env \in Environments
  /\ status \in Status
  /\ blue \in BOOLEAN
  /\ led \in 0 .. 3
  /\ type \in {"none", "fixed"}
  /\ {initialized, registered, bound, keyEvent, synced, offAtStart} \subseteq BOOLEAN
  /\ power \in {"awake", "suspending", "asleep", "waking", "resuming"}

LEMMA TypeParts ==
  /\ TypeInv <=> ContextsOK /\ MemoryOK
  /\ TypeInv' <=> ContextsOK' /\ MemoryOK'
<1>1. ContextsOK => \A c \in Contexts : \A i \in DOMAIN todo[c] : todo[c][i] \in Operations
  BY DEF ContextsOK, WorkInv
<1>2. ContextsOK' =>
        \A c \in Contexts : \A i \in DOMAIN todo'[c] : todo'[c][i] \in Operations
  BY DEF ContextsOK, WorkInv
<1> QED BY <1>1, <1>2 DEF TypeInv, TypeOK, ContextsOK, MemoryOK

LEMMA InitTypes == Init => TypeInv
<1> SUFFICES ASSUME Init PROVE TypeInv
  OBVIOUS
<1>1. status \in [white : {TRUE}, off : BOOLEAN, level : Levels]
  BY DEF Init
<1>2. status \in Status
  <2>1. Levels \subseteq 0 .. 7
    BY BacklightAssumption
  <2> QED BY <1>1, <2>1 DEF Status
<1>3. offAtStart \in BOOLEAN
  <2>1. status.off \in BOOLEAN
    BY <1>1
  <2> QED BY <2>1, Zenon DEF Init
<1>4. MemoryOK
  <2>1. env \in Environments /\ blue \in BOOLEAN /\ led = 0 /\ type = "none" /\ power = "awake"
        /\ initialized = FALSE /\ registered = FALSE /\ bound = FALSE /\ keyEvent = FALSE
        /\ synced = FALSE
    BY DEF Init
  <2>2. {initialized, registered, bound, keyEvent, synced} \subseteq BOOLEAN
    BY <2>1
  <2> QED BY <1>2, <1>3, <2>1, <2>2 DEF MemoryOK
<1>5. ContextsOK
  BY EmptySeq DEF Init, ContextsOK, WorkInv, AssignInv, AtPc, Idle, Garbage, Status
<1> QED BY <1>4, <1>5, TypeParts

LEMMA LevelsAreLow == \A l \in Levels : l \in 0 .. 7
  BY BacklightAssumption

\* What starts a context.
LEMMA StartTypes ==
  ASSUME TypeInv,
         \/ \E b \in Levels : Store(b) \/ FnKey(b)
         \/ KeyEvent \/ AdapterEvent \/ Suspend \/ Sleep \/ Wake \/ Resume \/ Thaw
         \/ Probe \/ Remove
  PROVE  TypeInv'
<1> ContextsOK /\ MemoryOK
  BY TypeParts
<1> SUFFICES ContextsOK' /\ MemoryOK'
  BY TypeParts
<1> USE AreOperations, BacklightAssumption DEF MemoryOK
<1>1. {"sysfs", "event", "pm", "driver"} \subseteq Contexts
  BY DEF Contexts
<1>2. ASSUME UNCHANGED <<todo, pc, data>> PROVE ContextsOK'
  BY <1>2 DEF ContextsOK, WorkInv, AssignInv, AtPc, Idle, Current
<1>3. ASSUME NEW b \in Levels, Store(b) PROVE ContextsOK' /\ MemoryOK'
  <2>1. b \in 0 .. 3 /\ <<Set(b)>> \in Seq(Operations) /\ WorkOf("sysfs", <<Set(b)>>)
    BY DEF WorkOf, SysfsWork
  <2> QED BY <1>1, <1>3, <2>1, BeginOK DEF Store, ec, world
<1>4. ASSUME NEW b \in Levels, FnKey(b) PROVE ContextsOK' /\ MemoryOK'
  BY <1>2, <1>4 DEF FnKey, memory, Status
<1>5. CASE KeyEvent
  <2>1. <<Op("notify")>> \in Seq(Operations) /\ WorkOf("event", <<Op("notify")>>)
    BY DEF WorkOf, EventWork
  <2> QED BY <1>1, <1>5, <2>1, BeginOK DEF KeyEvent, ec, memory
<1>6. CASE AdapterEvent
  <2>1. <<Op("restore")>> \in Seq(Operations) /\ WorkOf("event", <<Op("restore")>>)
    BY DEF WorkOf, EventWork
  <2> QED BY <1>1, <1>6, <2>1, BeginOK DEF AdapterEvent, ec, memory, world
<1>7. CASE Suspend
  <2>1. <<EnableOff>> \in Seq(Operations) /\ WorkOf("pm", <<EnableOff>>)
    BY DEF WorkOf, SuspendWork
  <2> QED BY <1>1, <1>7, <2>1, BeginOK DEF Suspend, ec, memory, EnableOff
<1>8. CASE Sleep \/ Thaw
  BY <1>2, <1>8 DEF Sleep, Thaw, ec, memory
<1>9. CASE Wake
  <2>1. PICK o \in BOOLEAN, l \in Levels : status' = [status EXCEPT !.off = o, !.level = l]
    BY <1>9 DEF Wake
  <2>2. l \in 0 .. 7
    BY LevelsAreLow, Zenon
  <2>3. status' \in Status
    BY <2>1, <2>2 DEF Status
  <2> QED BY <1>2, <1>9, <2>3 DEF Wake, memory
<1>10. CASE Resume
  <2>1. /\ <<Op("restore"), EnableOn>> \in Seq(Operations)
        /\ WorkOf("pm", <<Op("restore"), EnableOn>>)
    BY DEF WorkOf, ResumeWork
  <2> QED BY <1>1, <1>10, <2>1, BeginOK DEF Resume, ec, memory, EnableOn
<1>11. CASE Probe
  <2>1. /\ <<Op("init_early"), EnableOn>> \in Seq(Operations)
        /\ WorkOf("driver", <<Op("init_early"), EnableOn>>)
    BY DEF WorkOf, ProbeWork
  <2>2. ContextsOK'
    BY <1>1, <1>11, <2>1, BeginOK DEF Probe, EnableOn
  <2>3. status.off \in BOOLEAN
    BY DEF Status
  <2> QED BY <1>11, <2>2, <2>3 DEF Probe, ec, memory
<1>12. CASE Remove
  <2> DEFINE work == (IF ~initialized THEN <<>>
                      ELSE IF type # "fixed" THEN <<Op("set_extern")>>
                      ELSE <<Op("set_extern"), Set(0), Op("unregister")>>) \o <<EnableOff>>
  <2>1. work \in Seq(Operations) /\ WorkOf("driver", work)
    BY RemovalWork
  <2> QED BY <1>1, <1>12, <2>1, BeginOK DEF Remove, ec, EnableOff
<1> QED
  BY <1>3, <1>4, <1>5, <1>6, <1>7, <1>8, <1>9, <1>10, <1>11, <1>12

\* The values an EC access reads or writes.
LEMMA AccessTypes ==
  ASSUME MemoryOK, NEW d \in Status
  PROVE  /\ Seen(status) \subseteq Status
         /\ \A l \in 0 .. 7 : Written(status, [d EXCEPT !.level = l]) \subseteq Status
         /\ \A o \in BOOLEAN : Written(status, [d EXCEPT !.off = o]) \subseteq Status
<1>1. status \in Status /\ Garbage \in Status
  BY DEF MemoryOK, Garbage, Status
<1>2. \A l \in 0 .. 7 : [d EXCEPT !.level = l] \in Status
  BY DEF Status
<1>3. \A o \in BOOLEAN : [d EXCEPT !.off = o] \in Status
  BY DEF Status
<1> QED BY <1>1, <1>2, <1>3 DEF Seen, Written

\* Each step of an operation.
LEMMA StepTypes ==
  ASSUME TypeInv, NEW c \in Contexts, Step(c)
  PROVE  TypeInv'
<1>1. ContextsOK /\ MemoryOK
  BY TypeParts
<1>2. ~Idle(c)
  BY DEF Step, StartRestore, StartSetExtern, Unregister, ReadBlue, Kick, Read,
         WriteLevel, Assign, WriteEnable, Notify, InitEarly, AtPc
<1>3. /\ todo[c] \in Seq(Operations) /\ todo[c] # <<>> /\ WorkOf(c, todo[c])
      /\ Current(c) \in Operations /\ data[c] \in Status
  BY <1>1, <1>2, Rest DEF ContextsOK, WorkInv, Idle, Current
<1>4. Current(c).op \in {"set", "rewrite"} => Current(c).level \in 0 .. 3
  BY <1>3 DEF Operations
<1> SUFFICES ContextsOK' /\ MemoryOK'
  BY TypeParts
<1> USE <1>1 DEF MemoryOK
<1>5. CASE StartRestore(c)
  <2>1. CASE Finish(c)
    BY <1>2, <1>5, <2>1, FinishOK DEF StartRestore, ec, memory, world
  <2>2. CASE Becomes(c, Rewrite(led))
    <3>1. Current(c) = Op("restore")
      BY <1>3, <1>5 DEF StartRestore, Op, Operations
    <3>2. WorkOf(c, <<Rewrite(led)>> \o Tail(todo[c]))
      BY <1>3, <3>1, WorkReplaced DEF Current
    <3> QED
      BY <1>2, <1>5, <2>2, <3>2, BecomesOK, AreOperations
      DEF StartRestore, ec, memory, world
  <2> QED BY <1>5, <2>1, <2>2 DEF StartRestore
<1>6. CASE StartSetExtern(c)
  <2>1. CASE Finish(c)
    BY <1>2, <1>6, <2>1, FinishOK DEF StartSetExtern, ec, memory, world
  <2>2. CASE Becomes(c, Set(0))
    <3>1. Current(c) = Op("set_extern")
      BY <1>3, <1>6 DEF StartSetExtern, Op, Operations
    <3>2. WorkOf(c, <<Set(0)>> \o Tail(todo[c]))
      BY <1>3, <3>1, WorkReplaced DEF Current, WorkOf
    <3> QED
      BY <1>2, <1>6, <2>2, <3>2, BecomesOK, AreOperations
      DEF StartSetExtern, ec, memory, world
  <2> QED BY <1>6, <2>1, <2>2 DEF StartSetExtern
<1>7. CASE Unregister(c)
  BY <1>2, <1>7, FinishOK DEF Unregister, ec, world
<1>8. ASSUME NEW next \in {"kick", "read", "use"}, Continue(c, next), data' = data
      PROVE  ContextsOK'
  <2>1. data' = [data EXCEPT ![c] = data[c]]
    BY <1>8 DEF ContextsOK
  <2> QED BY <1>2, <1>3, <1>8, <2>1, ContinueOK
<1>9. CASE ReadBlue(c)
  BY <1>8, <1>9 DEF ReadBlue, ec, memory, world
<1>10. CASE Kick(c)
  BY <1>8, <1>10 DEF Kick, Written, memory, world
<1>11. CASE Read(c)
  <2>1. PICK s \in Status : data' = [data EXCEPT ![c] = s]
    BY <1>3, <1>11, AccessTypes DEF Read
  <2>2. ContextsOK'
    BY <1>2, <1>11, <2>1, ContinueOK DEF Read
  <2> QED BY <1>11, <2>2 DEF Read, ec, memory, world
<1>12. CASE WriteLevel(c)
  <2>1. status' \in Status
    <3>1. Current(c).level \in 0 .. 7
      BY <1>4, <1>12 DEF WriteLevel
    <3> QED BY <1>3, <1>12, <3>1, AccessTypes DEF WriteLevel
  <2>2. CASE Current(c).op = "set" /\ Continue(c, "assign") /\ UNCHANGED data
    <3>1. data' = [data EXCEPT ![c] = data[c]]
      BY <2>2 DEF ContextsOK
    <3>2. ContextsOK'
      BY <1>2, <1>3, <2>2, <3>1, ContinueOK
    <3> QED BY <1>12, <2>1, <3>2 DEF WriteLevel, memory, world
  <2>3. CASE Finish(c)
    BY <1>2, <1>12, <2>1, <2>3, FinishOK DEF WriteLevel, memory, world
  <2> QED BY <1>12, <2>2, <2>3 DEF WriteLevel
<1>13. CASE Assign(c)
  <2>1. Current(c).level \in 0 .. 3
    BY <1>4, <1>13 DEF Assign, ContextsOK, AssignInv
  <2> QED BY <1>2, <1>13, <2>1, FinishOK DEF Assign, ec, world
<1>14. CASE WriteEnable(c)
  <2>1. Current(c).on \in BOOLEAN
    BY <1>3, <1>14 DEF WriteEnable, Operations
  <2>2. status' \in Status
    BY <1>3, <1>14, <2>1, AccessTypes DEF WriteEnable
  <2> QED BY <1>2, <1>14, <2>2, FinishOK DEF WriteEnable, memory, world
<1>15. CASE Notify(c)
  <2>1. data[c].level % 4 \in 0 .. 3
    BY <1>3 DEF Status
  <2>2. led' \in 0 .. 3 /\ synced' \in BOOLEAN
    BY <1>15, <2>1 DEF Notify
  <2> QED BY <1>2, <1>15, <2>2, FinishOK DEF Notify, ec, world
<1>16. CASE InitEarly(c)
  <2>1. type' \in {"none", "fixed"} /\ registered' \in BOOLEAN /\ initialized' \in BOOLEAN
    BY <1>16 DEF InitEarly
  <2> QED BY <1>2, <1>16, <2>1, FinishOK DEF InitEarly, ec, world
<1> QED
  BY <1>5, <1>6, <1>7, <1>9, <1>10, <1>11, <1>12, <1>13, <1>14, <1>15, <1>16 DEF Step

\* Whatever overlaps and whatever fails, every context performs only operations of
\* its own, in the order its caller laid out, and the variables keep their types.
THEOREM TypesStayRight == Spec => []TypeInv
<1>1. Init => TypeInv
  BY InitTypes
<1>2. TypeInv /\ [Next]_vars => TypeInv'
  <2> SUFFICES ASSUME TypeInv, [Next]_vars PROVE TypeInv'
    OBVIOUS
  <2>1. CASE UNCHANGED vars
    <3>1. UNCHANGED <<env, status, blue, led, type, initialized, registered, bound, power,
                      keyEvent, offAtStart, synced, todo, pc, data>>
      BY <2>1 DEF vars, ec, memory, world
    <3> QED
      BY <3>1 DEF TypeInv, TypeOK, WorkInv, AssignInv, AtPc, Idle, Current
  <2>2. CASE Next
    BY <2>2, StartTypes, StepTypes DEF Next
  <2> QED BY <2>1, <2>2
<1> QED BY <1>1, <1>2, PTL DEF Spec

-----------------------------------------------------------------------------
(***************************************************************************)
(* Suspend and resume, while only the LED class and the event handler overlap*)
(***************************************************************************)

\* What starts a context when only the LED class and the event handler overlap.
StoresAndEvents == Undisturbed({{"sysfs", "event"}})

LEMMA BeginAlone ==
  ASSUME StoresAndEvents, TypeInv, NEW c \in Contexts, NEW ops \in Seq(Operations), ops # <<>>,
         Begin(c, ops)
  PROVE  /\ Idle(c) /\ ~Idle(c)' /\ todo'[c] = ops
         /\ \A d \in Contexts : d # c => todo'[d] = todo[d] /\ pc'[d] = pc[d]
         /\ \A d \in Contexts : c \in {"pm", "driver"} => Idle(d)
         /\ Idle("pm") /\ Idle("driver")
         /\ pc'[c] # "use" /\ pc'[c] # "assign" /\ data' = data
<1>1. /\ todo \in [Contexts -> Seq(Operations)] /\ pc \in [Contexts -> {"idle", "start",
            "read_blue", "kick", "read", "use", "assign"}]
  BY DEF TypeInv, TypeOK, WorkInv
<1>2. /\ todo' = [todo EXCEPT ![c] = ops] /\ Idle(c) /\ data' = data
      /\ pc' = [pc EXCEPT ![c] = FirstPc(Head(ops).op)]
  BY DEF Begin
<1>3. FirstPc(Head(ops).op) \in {"start", "read_blue", "read"}
  BY FirstPcType
<1>4. ASSUME NEW d \in Contexts, ~Idle(d) PROVE {c, d} = {"sysfs", "event"}
  BY <1>4 DEF Begin, StoresAndEvents, Undisturbed
<1>5. ASSUME NEW d \in Contexts, {c, d} = {"sysfs", "event"}
      PROVE c \notin {"pm", "driver"} /\ d \notin {"pm", "driver"}
  BY <1>5
<1> QED
  BY <1>1, <1>2, <1>3, <1>4, <1>5 DEF Idle, Contexts

LEMMA FinishAlone ==
  ASSUME TypeInv, NEW c \in Contexts, ~Idle(c), Finish(c)
  PROVE  /\ todo'[c] = Tail(todo[c]) /\ (Idle(c)' <=> Len(todo[c]) = 1)
         /\ \A d \in Contexts : d # c => todo'[d] = todo[d] /\ pc'[d] = pc[d] /\ data'[d] = data[d]
         /\ pc'[c] # "use" /\ pc'[c] # "assign"
<1>1. /\ todo \in [Contexts -> Seq(Operations)] /\ pc \in [Contexts -> {"idle", "start",
            "read_blue", "kick", "read", "use", "assign"}] /\ data \in [Contexts -> Status]
  BY DEF TypeInv, TypeOK, WorkInv
<1> DEFINE p == IF Len(todo[c]) = 1 THEN "idle" ELSE FirstPc(todo[c][2].op)
<1>2. p \in {"idle", "start", "read_blue", "read"}
  BY FirstPcType
<1>3. /\ todo' = [todo EXCEPT ![c] = Tail(todo[c])] /\ pc' = [pc EXCEPT ![c] = p]
      /\ data' = [data EXCEPT ![c] = Garbage]
  BY DEF Finish
<1> HIDE DEF p
<1>4. Tail(todo[c]) = <<>> <=> Len(todo[c]) = 1
  BY <1>1, Rest DEF Idle
<1> QED BY <1>1, <1>2, <1>3, <1>4 DEF Idle

LEMMA InitOff == Init => OffInv
  BY DEF Init, OffInv, Alone, CopiesOff, PowerInv, AtPc, Idle, Contexts

\* A context that starts with no copy yet, and the rest of the world as it is.
LEMMA BeginCopies ==
  ASSUME StoresAndEvents, TypeInv, OffInv, NEW c \in Contexts, NEW ops \in Seq(Operations),
         ops # <<>>, Begin(c, ops), UNCHANGED status
  PROVE  Alone' /\ CopiesOff'
<1>1. /\ Idle(c) /\ ~Idle(c)' /\ todo'[c] = ops
      /\ \A d \in Contexts : d # c => todo'[d] = todo[d] /\ pc'[d] = pc[d]
      /\ \A d \in Contexts : c \in {"pm", "driver"} => Idle(d)
      /\ Idle("pm") /\ Idle("driver")
      /\ pc'[c] # "use" /\ data' = data
  BY BeginAlone
<1>2. Alone'
  BY <1>1 DEF Alone, Idle, Contexts
<1>3. CopiesOff'
  BY <1>1 DEF OffInv, CopiesOff, AtPc, Idle
<1> QED BY <1>2, <1>3

LEMMA StartOff ==
  ASSUME StoresAndEvents, TypeInv, OffInv,
         \/ \E b \in Levels : Store(b) \/ FnKey(b)
         \/ KeyEvent \/ AdapterEvent \/ Suspend \/ Sleep \/ Wake \/ Resume \/ Thaw
         \/ Probe \/ Remove
  PROVE  OffInv'
<1>1. {"sysfs", "event", "pm", "driver"} = Contexts
  BY DEF Contexts
<1>2. /\ status \in Status /\ data \in [Contexts -> Status]
      /\ power \in {"awake", "suspending", "asleep", "waking", "resuming"}
  BY DEF TypeInv, TypeOK
<1>3. ASSUME NEW c \in {"sysfs", "event"}, NEW ops \in Seq(Operations), ops # <<>>,
             Begin(c, ops), c = "sysfs" => power = "awake", power # "asleep",
             UNCHANGED <<status, bound, power>>
      PROVE  OffInv'
  <2>1. /\ \A d \in Contexts : d # c => todo'[d] = todo[d]
        /\ Idle("pm") /\ Idle("driver") /\ Alone' /\ CopiesOff'
    BY <1>1, <1>3, BeginAlone, BeginCopies
  <2>2. PowerInv'
    BY <1>1, <1>3, <2>1 DEF OffInv, PowerInv, Idle
  <2> QED BY <2>1, <2>2 DEF OffInv
<1>4. ASSUME NEW b \in Levels, Store(b) PROVE OffInv'
  <2>1. b \in 0 .. 3 /\ <<Set(b)>> \in Seq(Operations) /\ <<Set(b)>> # <<>>
    BY AreOperations, BacklightAssumption
  <2> QED BY <1>3, <1>4, <2>1 DEF Store, ec, world
<1>5. CASE KeyEvent \/ AdapterEvent
  <2>1. ASSUME NEW op \in {Op("notify"), Op("restore")}
        PROVE  <<op>> \in Seq(Operations) /\ <<op>> # <<>>
    BY AreOperations
  <2> QED BY <1>3, <1>5, <2>1 DEF KeyEvent, AdapterEvent, ec, world
<1>6. ASSUME NEW b \in Levels, FnKey(b) PROVE OffInv'
  <2>1. status'.off = status.off
    BY <1>2, <1>6 DEF FnKey, Status
  <2>2. UNCHANGED <<todo, pc, data, bound, power>>
    BY <1>6 DEF FnKey
  <2> QED BY <2>1, <2>2 DEF OffInv, Alone, CopiesOff, PowerInv, AtPc, Idle
<1>7. CASE Suspend
  <2>1. <<EnableOff>> \in Seq(Operations) /\ <<EnableOff>> # <<>> /\ SuspendWork(<<EnableOff>>)
    BY AreOperations DEF SuspendWork
  <2>2. Begin("pm", <<EnableOff>>) /\ bound /\ power' = "suspending" /\ UNCHANGED <<status, bound>>
    BY <1>7 DEF Suspend, EnableOff, ec
  <2>3. /\ \A d \in Contexts : Idle(d) /\ (d # "pm" => todo'[d] = todo[d])
        /\ todo'["pm"] = <<EnableOff>> /\ Alone' /\ CopiesOff'
    BY <1>1, <2>1, <2>2, BeginAlone, BeginCopies
  <2>4. PowerInv'
    BY <1>1, <2>1, <2>2, <2>3 DEF PowerInv, Idle
  <2> QED BY <2>3, <2>4 DEF OffInv
<1>8. CASE Sleep
  <2>1. UNCHANGED <<todo, pc, data, bound, status>> /\ power' = "asleep" /\ power = "suspending"
        /\ Idle("pm") /\ Idle("event")
    BY <1>8 DEF Sleep, ec
  <2>2. ~SuspendWork(todo["pm"])
    BY <2>1 DEF Idle, SuspendWork
  <2> QED BY <2>1, <2>2 DEF OffInv, Alone, CopiesOff, PowerInv, AtPc, Idle
<1>9. CASE Wake
  <2>1. UNCHANGED <<todo, pc, data, bound>> /\ power' = "waking" /\ power = "asleep"
    BY <1>9 DEF Wake
  <2>2. \A d \in Contexts : Idle(d)
    BY <1>1, <2>1 DEF OffInv, PowerInv
  <2> QED BY <2>1, <2>2 DEF OffInv, Alone, CopiesOff, PowerInv, AtPc, Idle
<1>10. CASE Resume
  <2> DEFINE work == <<Op("restore"), EnableOn>>
  <2>1. work \in Seq(Operations) /\ work # <<>> /\ ResumeWork(work)
    BY AreOperations DEF ResumeWork
  <2>2. Begin("pm", work) /\ power = "waking" /\ power' = "resuming" /\ UNCHANGED <<status, bound>>
    BY <1>10 DEF Resume, EnableOn, ec
  <2> HIDE DEF work
  <2>3. /\ \A d \in Contexts : Idle(d) /\ (d # "pm" => todo'[d] = todo[d])
        /\ todo'["pm"] = work /\ Alone' /\ CopiesOff'
    BY <1>1, <2>1, <2>2, BeginAlone, BeginCopies
  <2>4. PowerInv'
    BY <1>1, <2>1, <2>2, <2>3 DEF OffInv, PowerInv, Idle
  <2> QED BY <2>3, <2>4 DEF OffInv
<1>11. CASE Thaw
  <2>1. UNCHANGED <<todo, pc, data, bound, status>> /\ power' = "awake" /\ power = "resuming"
        /\ Idle("pm")
    BY <1>11 DEF Thaw, ec
  <2>2. ~ResumeWork(todo["pm"])
    BY <2>1 DEF Idle, ResumeWork
  <2> QED BY <2>1, <2>2 DEF OffInv, Alone, CopiesOff, PowerInv, AtPc, Idle
<1>12. CASE Probe
  <2> DEFINE work == <<Op("init_early"), EnableOn>>
  <2>1. work \in Seq(Operations) /\ work # <<>> /\ ProbeWork(work)
    BY AreOperations DEF ProbeWork
  <2>2. Begin("driver", work) /\ power = "awake" /\ bound' /\ UNCHANGED <<status, power>>
    BY <1>12 DEF Probe, EnableOn, ec
  <2> HIDE DEF work
  <2>3. /\ \A d \in Contexts : Idle(d) /\ (d # "driver" => todo'[d] = todo[d])
        /\ todo'["driver"] = work /\ Alone' /\ CopiesOff'
    BY <1>1, <2>1, <2>2, BeginAlone, BeginCopies
  <2>4. PowerInv'
    BY <1>1, <2>1, <2>2, <2>3 DEF OffInv, PowerInv, Idle
  <2> QED BY <2>3, <2>4 DEF OffInv
<1>13. CASE Remove
  <2> DEFINE work == (IF ~initialized THEN <<>>
                      ELSE IF type # "fixed" THEN <<Op("set_extern")>>
                      ELSE <<Op("set_extern"), Set(0), Op("unregister")>>) \o <<EnableOff>>
  <2>1. work \in Seq(Operations) /\ work # <<>>
    <3>1. work \in Seq(Operations) /\ (RemoveWork(work) \/ ProbeWork(work))
      BY RemovalWork DEF WorkOf
    <3> HIDE DEF work
    <3>2. work \in Seq(Operations) /\ Len(work) > 0
      BY <3>1 DEF RemoveWork, ProbeWork
    <3> QED BY <3>2
  <2>2. Begin("driver", work) /\ power = "awake" /\ ~bound' /\ UNCHANGED <<status, power>>
    BY <1>13 DEF Remove, EnableOff, ec
  <2> HIDE DEF work
  <2>3. /\ \A d \in Contexts : Idle(d) /\ (d # "driver" => todo'[d] = todo[d])
        /\ Alone' /\ CopiesOff'
    BY <1>1, <2>1, <2>2, BeginAlone, BeginCopies
  <2>4. PowerInv'
    BY <1>1, <2>2, <2>3 DEF OffInv, PowerInv, Idle
  <2> QED BY <2>3, <2>4 DEF OffInv
<1> QED
  BY <1>4, <1>5, <1>6, <1>7, <1>8, <1>9, <1>10, <1>11, <1>12, <1>13

\* An operation ends that does not write the off bit.
LEMMA FinishOff ==
  ASSUME TypeInv, OffInv, NEW c \in Contexts, ~Idle(c), Finish(c), Current(c).op # "enable",
         status'.off = status.off, UNCHANGED <<bound, power>>
  PROVE  OffInv'
<1>1. /\ todo'[c] = Tail(todo[c]) /\ (Idle(c)' <=> Len(todo[c]) = 1)
      /\ \A d \in Contexts : d # c => todo'[d] = todo[d] /\ pc'[d] = pc[d] /\ data'[d] = data[d]
      /\ pc'[c] # "use"
  BY FinishAlone
<1>2. todo[c] \in Seq(Operations) /\ todo[c] # <<>> /\ WorkOf(c, todo[c])
  BY DEF TypeInv, WorkInv, Idle
<1>3. EnableOn.op = "enable" /\ EnableOff.op = "enable"
  BY OperationNames
<1>4. c = "pm" => /\ ResumeWork(todo[c]) /\ Len(todo[c]) # 1 /\ ~SuspendWork(todo[c])
                  /\ ResumeWork(todo'[c])
  <2>1. SUFFICES ASSUME c = "pm"
                 PROVE  /\ ResumeWork(todo[c]) /\ Len(todo[c]) # 1 /\ ~SuspendWork(todo[c])
                        /\ ResumeWork(todo'[c])
    OBVIOUS
  <2>2. ResumeWork(todo[c]) /\ Len(todo[c]) = 2 /\ Tail(todo[c]) # <<>>
    BY <1>2, <1>3, <2>1, WorkHeads DEF Current
  <2>3. WorkOf(c, Tail(todo[c])) /\ ~SuspendWork(Tail(todo[c]))
    BY <1>2, <2>1, <2>2, WorkProceeds
  <2>4. ResumeWork(Tail(todo[c]))
    BY <2>1, <2>3 DEF WorkOf
  <2>5. ~SuspendWork(todo[c])
    BY <2>2 DEF SuspendWork
  <2> QED BY <1>1, <2>2, <2>4, <2>5
<1>5. c = "driver" /\ ProbeWork(todo[c]) => ProbeWork(todo'[c])
  <2>1. SUFFICES ASSUME c = "driver", ProbeWork(todo[c]) PROVE ProbeWork(todo'[c])
    OBVIOUS
  <2>2. ~RemoveWork(todo[c]) /\ (Tail(todo[c]) = <<>> \/ ProbeWork(Tail(todo[c])))
    BY <1>2, <2>1, WorkProceeds
  <2>3. Len(todo[c]) # 1
    BY <1>2, <1>3, <2>1, <2>2, WorkHeads DEF Current, UnregisterWork
  <2>4. Tail(todo[c]) # <<>>
    BY <1>2, <2>3, Rest
  <2> QED BY <1>1, <2>2, <2>4
<1>6. Alone'
  BY <1>1 DEF OffInv, Alone, Idle, Contexts
<1>7. CopiesOff'
  BY <1>1 DEF OffInv, CopiesOff, AtPc, Idle
<1>8. PowerInv'
  <2>1. CASE c = "pm"
    BY <1>1, <1>4, <2>1 DEF OffInv, PowerInv, Idle, Contexts
  <2>2. CASE c = "driver"
    BY <1>1, <1>5, <2>2 DEF OffInv, PowerInv, Idle, Contexts
  <2>3. CASE c = "sysfs"
    BY <1>1, <2>3 DEF OffInv, PowerInv, Idle, Contexts
  <2>4. CASE c = "event"
    BY <1>1, <2>4 DEF OffInv, PowerInv, Idle, Contexts
  <2> QED BY <2>1, <2>2, <2>3, <2>4 DEF Contexts
<1> QED BY <1>6, <1>7, <1>8 DEF OffInv

\* Another operation takes the place of restore or set_extern.
LEMMA BecomesOff ==
  ASSUME TypeInv, OffInv, NEW c \in Contexts, ~Idle(c), NEW op \in Operations,
         Becomes(c, op), UNCHANGED <<status, bound, power>>,
         \/ op = Rewrite(led) /\ Current(c) = Op("restore")
         \/ op = Set(0) /\ Current(c) = Op("set_extern")
  PROVE  OffInv'
<1>1. todo[c] \in Seq(Operations) /\ todo[c] # <<>> /\ WorkOf(c, todo[c]) /\ led \in 0 .. 3
  BY DEF TypeInv, TypeOK, WorkInv, Idle
<1> DEFINE t == <<op>> \o Tail(todo[c])
<1>2. t \in Seq(Operations) /\ t # <<>>
  <2>1. t \in Seq(Operations) /\ Len(t) = Len(todo[c]) /\ Len(todo[c]) > 0
    BY <1>1, Replaced, Rest
  <2> QED BY <2>1
<1>3. /\ c = "pm" => ResumeWork(todo[c]) /\ ResumeWork(t)
      /\ c = "driver" => RemoveWork(todo[c])
  BY <1>1, WorkReplaced DEF Current
<1> HIDE DEF t
<1>4. /\ todo' = [todo EXCEPT ![c] = t] /\ pc' = [pc EXCEPT ![c] = FirstPc(op.op)]
      /\ data' = data
  BY DEF Becomes, t
<1>5. /\ todo'[c] = t /\ pc'[c] # "use"
      /\ \A d \in Contexts : d # c => todo'[d] = todo[d] /\ pc'[d] = pc[d]
  BY <1>4, FirstPcType DEF TypeInv, TypeOK, WorkInv
<1>6. Alone' /\ CopiesOff'
  BY <1>2, <1>4, <1>5 DEF OffInv, Alone, CopiesOff, AtPc, Idle, Contexts
<1>7. c = "pm" => ~SuspendWork(todo[c])
  BY <1>3, OperationNames DEF SuspendWork, ResumeWork, Current, Rewrites
<1>8. c = "driver" => ~ProbeWork(todo[c])
  BY <1>1, <1>3, WorkProceeds
<1>9. PowerInv'
  <2>1. CASE c = "pm"
    BY <1>2, <1>3, <1>5, <1>7, <2>1 DEF OffInv, PowerInv, Idle, Contexts
  <2>2. CASE c = "driver"
    BY <1>2, <1>3, <1>5, <1>8, <2>2 DEF OffInv, PowerInv, Idle, Contexts
  <2>3. CASE c = "sysfs"
    BY <1>2, <1>5, <2>3 DEF OffInv, PowerInv, Idle, Contexts
  <2>4. CASE c = "event"
    BY <1>2, <1>5, <2>4 DEF OffInv, PowerInv, Idle, Contexts
  <2> QED BY <2>1, <2>2, <2>3, <2>4 DEF Contexts
<1> QED BY <1>6, <1>9 DEF OffInv

\* An operation goes on; its copy, once it has one, agrees with the register.
LEMMA ContinueOff ==
  ASSUME TypeInv, OffInv, NEW c \in Contexts, ~Idle(c), NEW next, Continue(c, next),
         \A d \in Contexts : d # c => data'[d] = data[d],
         status'.off = status.off, UNCHANGED <<bound, power>>,
         next = "use" => data'[c].off = status.off
  PROVE  OffInv'
<1>1. /\ todo' = todo /\ pc'[c] = next
      /\ \A d \in Contexts : d # c => pc'[d] = pc[d]
  BY DEF Continue, TypeInv, TypeOK
<1>2. Alone' /\ PowerInv'
  BY <1>1 DEF OffInv, Alone, PowerInv, Idle
<1>3. CopiesOff'
  BY <1>1 DEF OffInv, CopiesOff, AtPc, Idle
<1> QED BY <1>2, <1>3 DEF OffInv

LEMMA StepOff ==
  ASSUME StoresAndEvents, TypeInv, OffInv, NEW c \in Contexts, Step(c)
  PROVE  OffInv'
<1>1. ~Idle(c)
  BY DEF Step, StartRestore, StartSetExtern, Unregister, ReadBlue, Kick, Read,
         WriteLevel, Assign, WriteEnable, Notify, InitEarly, AtPc
<1>2. /\ todo[c] \in Seq(Operations) /\ todo[c] # <<>> /\ WorkOf(c, todo[c])
      /\ Current(c) \in Operations /\ data[c] \in Status /\ status \in Status
      /\ led \in 0 .. 3 /\ todo \in [Contexts -> Seq(Operations)]
      /\ data \in [Contexts -> Status]
  BY <1>1, Rest DEF TypeInv, TypeOK, WorkInv, Idle, Current
<1>3. ~env.faults
  BY DEF StoresAndEvents, Undisturbed
<1>4. CASE StartRestore(c)
  <2>1. Current(c) = Op("restore") /\ Current(c).op # "enable" /\ UNCHANGED <<status, bound, power>>
    BY <1>2, <1>4 DEF StartRestore, Op, Operations, ec, world
  <2>2. CASE Finish(c)
    BY <1>1, <2>1, <2>2, FinishOff
  <2>3. CASE Becomes(c, Rewrite(led))
    BY <1>1, <1>2, <2>1, <2>3, BecomesOff, AreOperations
  <2> QED BY <1>4, <2>2, <2>3 DEF StartRestore
<1>5. CASE StartSetExtern(c)
  <2>1. /\ Current(c) = Op("set_extern") /\ Current(c).op # "enable"
        /\ UNCHANGED <<status, bound, power>>
    BY <1>2, <1>5 DEF StartSetExtern, Op, Operations, ec, world
  <2>2. CASE Finish(c)
    BY <1>1, <2>1, <2>2, FinishOff
  <2>3. CASE Becomes(c, Set(0))
    BY <1>1, <1>2, <2>1, <2>3, BecomesOff, AreOperations
  <2> QED BY <1>5, <2>2, <2>3 DEF StartSetExtern
<1>6. CASE Unregister(c) \/ Notify(c) \/ InitEarly(c)
  <2>1. /\ Finish(c) /\ Current(c).op # "enable" /\ UNCHANGED <<status, bound, power>>
    BY <1>6 DEF Unregister, Notify, InitEarly, ec, world
  <2> QED BY <1>1, <2>1, FinishOff
<1>7. CASE Assign(c)
  <2>1. /\ Finish(c) /\ Current(c).op # "enable" /\ UNCHANGED <<status, bound, power>>
    BY <1>7 DEF Assign, TypeInv, AssignInv, ec, world
  <2> QED BY <1>1, <2>1, FinishOff
<1>8. CASE ReadBlue(c) \/ Kick(c)
  <2>1. /\ \E next \in {"kick", "read"} : Continue(c, next)
        /\ UNCHANGED <<status, bound, power, data>>
    BY <1>8 DEF ReadBlue, Kick, ec, world
  <2> QED BY <1>1, <2>1, ContinueOff
<1>9. CASE Read(c)
  <2>1. /\ Continue(c, "use") /\ data' = [data EXCEPT ![c] = status]
        /\ UNCHANGED <<status, bound, power>>
    BY <1>3, <1>9 DEF Read, Seen, ec, world
  <2>2. data'[c] = status /\ \A d \in Contexts : d # c => data'[d] = data[d]
    BY <1>2, <2>1
  <2> QED BY <1>1, <2>1, <2>2, ContinueOff
<1>10. CASE WriteLevel(c)
  <2>1. /\ status' = [data[c] EXCEPT !.level = Current(c).level] /\ data[c].off = status.off
        /\ UNCHANGED <<bound, power>> /\ Current(c).op # "enable"
    BY <1>3, <1>10 DEF WriteLevel, Written, OffInv, CopiesOff, world
  <2>2. status'.off = status.off
    BY <1>2, <2>1 DEF Status
  <2>3. CASE Continue(c, "assign") /\ UNCHANGED data
    BY <1>1, <2>1, <2>2, <2>3, ContinueOff
  <2>4. CASE Finish(c)
    BY <1>1, <2>1, <2>2, <2>4, FinishOff
  <2> QED BY <1>10, <2>3, <2>4 DEF WriteLevel
<1>11. CASE WriteEnable(c)
  <2>1. /\ status' = [data[c] EXCEPT !.off = ~Current(c).on] /\ Finish(c)
        /\ UNCHANGED <<bound, power>> /\ Current(c).op = "enable"
    BY <1>3, <1>11 DEF WriteEnable, Written, world
  <2>2. /\ c = "pm" => \/ SuspendWork(todo[c]) /\ Current(c) = EnableOff /\ Len(todo[c]) = 1
                       \/ ResumeWork(todo[c]) /\ Current(c) = EnableOn /\ Len(todo[c]) = 1
        /\ c = "driver" => \/ ProbeWork(todo[c]) /\ Current(c) = EnableOn /\ Len(todo[c]) = 1
                           \/ RemoveWork(todo[c]) /\ Current(c) = EnableOff /\ Len(todo[c]) = 1
        /\ c \in {"pm", "driver"}
    BY <1>2, <2>1, WorkHeads DEF Current, Contexts
  <2>3. Current(c) = EnableOff => status'.off
    <3>1. SUFFICES ASSUME Current(c) = EnableOff PROVE status'.off
      OBVIOUS
    <3>2. Current(c).on = FALSE
      BY <3>1 DEF EnableOff, Enable
    <3>3. status' = [data[c] EXCEPT !.off = TRUE]
      BY <2>1, <3>2, Zenon
    <3> QED BY <1>2, <3>3 DEF Status
  <2>4. Current(c) = EnableOn => ~status'.off
    <3>1. SUFFICES ASSUME Current(c) = EnableOn PROVE ~status'.off
      OBVIOUS
    <3>2. Current(c).on = TRUE
      BY <3>1 DEF EnableOn, Enable
    <3>3. status' = [data[c] EXCEPT !.off = FALSE]
      BY <2>1, <3>2, Zenon
    <3> QED BY <1>2, <3>3 DEF Status
  <2>5. /\ \A d \in Contexts : d # c => Idle(d) /\ Idle(d)'
        /\ Idle(c)' /\ pc'[c] # "use"
    BY <1>1, <2>1, <2>2, FinishAlone DEF OffInv, Alone, Idle
  <2>6. Alone' /\ CopiesOff'
    BY <2>5 DEF Alone, CopiesOff, AtPc, Contexts
  <2>7. c = "pm" => \/ SuspendWork(todo[c]) /\ ~ResumeWork(todo[c])
                    \/ ResumeWork(todo[c]) /\ ~SuspendWork(todo[c])
    BY <2>2, OperationNames DEF SuspendWork, ResumeWork
  <2>8. c = "driver" => ~(ProbeWork(todo[c]) /\ RemoveWork(todo[c]))
    BY <1>2, WorkProceeds
  <2>9. PowerInv'
    <3>1. CASE c = "pm"
      BY <1>1, <2>1, <2>2, <2>3, <2>4, <2>5, <2>7, <3>1 DEF OffInv, PowerInv, Contexts, TypeInv, TypeOK
    <3>2. CASE c = "driver"
      BY <1>1, <2>1, <2>2, <2>3, <2>4, <2>5, <2>8, <3>2 DEF OffInv, PowerInv, Contexts
    <3> QED BY <2>2, <3>1, <3>2
  <2> QED BY <2>6, <2>9 DEF OffInv
<1> QED
  BY <1>4, <1>5, <1>6, <1>7, <1>8, <1>9, <1>10, <1>11 DEF Step

\* The off bit under an EC that answers, whatever userspace does during an event.
LEMMA OffInvariant == Spec => [](StoresAndEvents => OffInv)
<1> DEFINE Inv == StoresAndEvents => OffInv
<1>1. Init => Inv
  BY InitOff
<1>2. TypeInv /\ Inv /\ [Next]_vars => Inv'
  <2> SUFFICES ASSUME TypeInv, Inv, [Next]_vars, StoresAndEvents' PROVE OffInv'
    OBVIOUS
  <2>1. StoresAndEvents /\ OffInv
    BY EnvConstant DEF StoresAndEvents, Undisturbed
  <2>2. CASE UNCHANGED vars
    <3>1. UNCHANGED <<status, bound, power, todo, pc, data>>
      BY <2>2 DEF vars, ec, world
    <3> QED
      BY <2>1, <3>1 DEF OffInv, Alone, CopiesOff, PowerInv, AtPc, Idle
  <2>3. CASE Next
    BY <2>1, <2>3, StartOff, StepOff DEF Next
  <2> QED BY <2>2, <2>3
<1> QED BY <1>1, <1>2, TypesStayRight, PTL DEF Spec

\* While only stores and events overlap, whatever the suspend callback finds
\* under way, the machine goes to sleep with the backlight off.
THEOREM MachineSleepsDark == Spec => []SleepsDark
<1>1. (StoresAndEvents => OffInv) => SleepsDark
  BY DEF OffInv, PowerInv, SleepsDark, StoresAndEvents
<1> QED BY <1>1, OffInvariant, PTL

\* ... and with probe or resume done it is lit until suspend or remove begins.
THEOREM LitWhileAwake == Spec => []LitWhenAwake
<1>1. TypeInv /\ (StoresAndEvents => OffInv) => LitWhenAwake
  <2> SUFFICES ASSUME TypeInv, StoresAndEvents => OffInv, StoresAndEvents, bound,
                      power = "awake", Quiescent
               PROVE  ~status.off
    BY DEF LitWhenAwake, StoresAndEvents
  <2>1. todo["driver"] = <<>>
    BY DEF Quiescent, Idle, Contexts
  <2>2. ~ProbeWork(todo["driver"])
    BY <2>1 DEF ProbeWork
  <2> QED BY <2>2 DEF OffInv, PowerInv
<1> QED BY <1>1, OffInvariant, TypesStayRight, PTL

-----------------------------------------------------------------------------
(***************************************************************************)
(* The level, with one context at a time                                   *)
(***************************************************************************)

\* One context at a time.
Serially == Undisturbed({})

LEMMA SerialIsQuiet == Serially => StoresAndEvents
  BY DEF Serially, StoresAndEvents, Undisturbed

\* A context starts: nothing else is under way.
LEMMA BeginSerial ==
  ASSUME Serially, TypeInv, SerialInv, NEW c \in Contexts, NEW ops \in Seq(Operations),
         ops # <<>>, Begin(c, ops)
  PROVE  /\ \A d \in Contexts : Idle(d) /\ (d # c => Idle(d)' /\ todo'[d] = todo[d])
         /\ todo'[c] = ops /\ Current(c)' = Head(ops) /\ ~Idle(c)'
         /\ pc'[c] # "use" /\ pc'[c] # "assign" /\ OneAtATime'
<1>1. StoresAndEvents
  BY SerialIsQuiet
<1>2. /\ Idle(c) /\ ~Idle(c)' /\ todo'[c] = ops
      /\ \A d \in Contexts : d # c => todo'[d] = todo[d]
      /\ pc'[c] # "use" /\ pc'[c] # "assign"
  BY <1>1, BeginAlone
<1>3. \A d \in Contexts : Idle(d)
  BY DEF Begin, Serially, Undisturbed
<1>4. \A d \in Contexts : d # c => Idle(d)'
  BY <1>2, <1>3 DEF Idle
<1> QED BY <1>2, <1>3, <1>4 DEF OneAtATime, Current

LEMMA InitSerial == Init => SerialInv
<1> SUFFICES ASSUME Init PROVE SerialInv
  OBVIOUS
<1>1. \A c \in Contexts : todo[c] = <<>> /\ Idle(c)
  BY DEF Init, Idle
<1>2. todo["driver"] = <<>> /\ Len(todo["driver"]) = 0
  BY <1>1, EmptySeq DEF Contexts
<1>3. ~ProbeWork(todo["driver"]) /\ ~UnregisterWork(todo["driver"])
  BY <1>2 DEF ProbeWork, UnregisterWork, RemoveWork
<1>4. status.level \in 0 .. 3 /\ ~registered /\ ~initialized /\ ~synced
  <2>1. status \in [white : {TRUE}, off : BOOLEAN, level : Levels]
    BY DEF Init
  <2>2. Levels \subseteq 0 .. 3
    BY BacklightAssumption
  <2>3. status.level \in Levels
    BY <2>1
  <2> QED BY <2>2, <2>3 DEF Init
<1> QED
  BY <1>1, <1>2, <1>3, <1>4 DEF SerialInv, OneAtATime, RegisteredInv, OperationsInv, LevelInv

\* The driver's part changes only when the driver does something.
LEMMA RegisteredKept ==
  ASSUME RegisteredInv, todo'["driver"] = todo["driver"],
         UNCHANGED <<initialized, type, registered, bound, synced>>
  PROVE  RegisteredInv'
  BY DEF RegisteredInv

LEMMA StartSerial ==
  ASSUME Serially, TypeInv, OffInv, SerialInv,
         \/ \E b \in Levels : Store(b) \/ FnKey(b)
         \/ KeyEvent \/ AdapterEvent \/ Suspend \/ Sleep \/ Wake \/ Resume \/ Thaw
         \/ Probe \/ Remove
  PROVE  SerialInv'
<1>1. {"sysfs", "event", "pm", "driver"} = Contexts
  BY DEF Contexts
<1>2. /\ status \in Status
      /\ power \in {"awake", "suspending", "asleep", "waking", "resuming"}
  BY DEF TypeInv, TypeOK
<1>3. Idle("driver") => ~UnregisterWork(todo["driver"]) /\ ~ProbeWork(todo["driver"])
  BY EmptySeq DEF Idle, UnregisterWork, RemoveWork, ProbeWork
<1>4. Idle("driver") /\ registered => initialized /\ type = "fixed" /\ bound
  BY <1>3 DEF SerialInv, RegisteredInv
<1>5. ASSUME NEW b \in Levels, Store(b) PROVE SerialInv'
  <2>1. /\ b \in 0 .. 3 /\ <<Set(b)>> \in Seq(Operations) /\ <<Set(b)>> # <<>>
        /\ Head(<<Set(b)>>) = Set(b)
    BY AreOperations, BacklightAssumption
  <2>2. /\ registered /\ Begin("sysfs", <<Set(b)>>) /\ led' = b
        /\ UNCHANGED <<status, type, initialized, registered, bound, power, keyEvent, synced>>
    BY <1>5 DEF Store, ec, world
  <2>3. /\ \A d \in Contexts : d # "sysfs" => Idle(d)' /\ todo'[d] = todo[d]
        /\ Current("sysfs")' = Set(b) /\ ~Idle("sysfs")'
        /\ pc'["sysfs"] # "use" /\ pc'["sysfs"] # "assign" /\ OneAtATime'
    BY <1>1, <2>1, <2>2, BeginSerial
  <2>4. RegisteredInv'
    BY <1>1, <2>2, <2>3, RegisteredKept DEF SerialInv
  <2>5. OperationsInv'
    BY <2>2, <2>3, OperationNames DEF OperationsInv
  <2>6. LevelInv'
    BY <2>2, <2>3 DEF SerialInv, LevelInv, Unsettled
  <2> QED BY <2>3, <2>4, <2>5, <2>6 DEF SerialInv
<1>6. ASSUME NEW b \in Levels, FnKey(b) PROVE SerialInv'
  <2>1. /\ status' = [status EXCEPT !.level = b] /\ b \in 0 .. 3 /\ keyEvent' = bound
        /\ UNCHANGED <<led, type, initialized, registered, bound, power, synced, todo, pc, data>>
    BY <1>6, BacklightAssumption DEF FnKey, memory
  <2>2. status'.level = b
    BY <1>2, <2>1 DEF Status
  <2>3. OneAtATime' /\ RegisteredInv'
    BY <2>1, RegisteredKept DEF SerialInv, OneAtATime, Idle
  <2>4. OperationsInv'
    <3>1. keyEvent' \/ ~bound'
      BY <2>1 DEF TypeInv, TypeOK
    <3> QED BY <2>1, <3>1 DEF SerialInv, OperationsInv, Idle, Current
  <2>5. LevelInv'
    BY <1>4, <2>1, <2>2 DEF LevelInv, Idle
  <2> QED BY <2>3, <2>4, <2>5 DEF SerialInv
<1>7. CASE KeyEvent
  <2>1. /\ <<Op("notify")>> \in Seq(Operations) /\ <<Op("notify")>> # <<>>
        /\ Head(<<Op("notify")>>) = Op("notify")
    BY AreOperations
  <2>2. /\ Begin("event", <<Op("notify")>>)
        /\ UNCHANGED <<status, led, type, initialized, registered, bound, power, synced>>
    BY <1>7 DEF KeyEvent, ec, memory
  <2>3. /\ \A d \in Contexts : d # "event" => Idle(d)' /\ todo'[d] = todo[d]
        /\ Current("event")' = Op("notify") /\ ~Idle("event")'
        /\ pc'["event"] # "use" /\ OneAtATime'
    BY <1>1, <2>1, <2>2, BeginSerial
  <2>4. RegisteredInv'
    BY <1>1, <2>2, <2>3, RegisteredKept DEF SerialInv
  <2>5. OperationsInv'
    BY <2>3, OperationNames DEF OperationsInv
  <2>6. LevelInv'
    BY <2>2, <2>3, OperationNames DEF SerialInv, LevelInv, Unsettled
  <2> QED BY <2>3, <2>4, <2>5, <2>6 DEF SerialInv
<1>8. CASE AdapterEvent
  <2>1. /\ <<Op("restore")>> \in Seq(Operations) /\ <<Op("restore")>> # <<>>
        /\ Head(<<Op("restore")>>) = Op("restore")
    BY AreOperations
  <2>2. /\ Begin("event", <<Op("restore")>>)
        /\ UNCHANGED <<status, led, type, initialized, registered, bound, power, keyEvent,
                          synced>>
    BY <1>8 DEF AdapterEvent, ec, memory, world
  <2>3. /\ \A d \in Contexts : Idle(d) /\ (d # "event" => Idle(d)' /\ todo'[d] = todo[d])
        /\ Current("event")' = Op("restore") /\ ~Idle("event")'
        /\ pc'["event"] # "use" /\ OneAtATime'
    BY <1>1, <2>1, <2>2, BeginSerial
  <2>4. RegisteredInv'
    BY <1>1, <2>2, <2>3, RegisteredKept DEF SerialInv
  <2>5. OperationsInv'
    BY <2>3, OperationNames DEF OperationsInv
  <2>6. LevelInv'
    BY <1>1, <2>2, <2>3 DEF SerialInv, LevelInv, Unsettled
  <2> QED BY <2>3, <2>4, <2>5, <2>6 DEF SerialInv
<1>9. CASE Suspend
  <2>1. <<EnableOff>> \in Seq(Operations) /\ <<EnableOff>> # <<>> /\ Head(<<EnableOff>>) = EnableOff
    BY AreOperations
  <2>2. /\ Begin("pm", <<EnableOff>>) /\ power = "awake"
        /\ UNCHANGED <<status, led, type, initialized, registered, bound, keyEvent, synced>>
    BY <1>9 DEF Suspend, EnableOff, ec, memory
  <2>3. /\ \A d \in Contexts : Idle(d) /\ (d # "pm" => Idle(d)' /\ todo'[d] = todo[d])
        /\ Current("pm")' = EnableOff /\ ~Idle("pm")'
        /\ pc'["pm"] # "use" /\ OneAtATime'
    BY <1>1, <2>1, <2>2, BeginSerial
  <2>4. RegisteredInv'
    BY <1>1, <2>2, <2>3, RegisteredKept DEF SerialInv
  <2>5. OperationsInv'
    BY <2>3, OperationNames DEF OperationsInv
  <2>6. LevelInv'
    BY <1>1, <2>2, <2>3 DEF SerialInv, LevelInv, Unsettled
  <2> QED BY <2>3, <2>4, <2>5, <2>6 DEF SerialInv
<1>10. CASE Sleep
  <2>1. /\ power' = "asleep"
        /\ UNCHANGED <<status, led, type, initialized, registered, bound, keyEvent, synced, todo,
                       pc, data>>
    BY <1>10 DEF Sleep, ec, memory
  <2>2. OneAtATime' /\ RegisteredInv' /\ OperationsInv'
    BY <2>1, RegisteredKept DEF SerialInv, OneAtATime, OperationsInv, Idle, Current
  <2> QED BY <2>1, <2>2 DEF SerialInv, LevelInv, Unsettled
<1>11. CASE Wake
  <2>1. PICK o \in BOOLEAN, l \in Levels : status' = [status EXCEPT !.off = o, !.level = l]
    BY <1>11 DEF Wake
  <2>2. /\ power' = "waking" /\ power = "asleep"
        /\ UNCHANGED <<led, type, initialized, registered, bound, keyEvent, synced, todo, pc, data>>
    BY <1>11 DEF Wake, memory
  <2>3. status'.level \in 0 .. 3
    BY <1>2, <2>1, BacklightAssumption DEF Status
  <2>4. \A d \in Contexts : Idle(d)
    BY <1>1, <2>2 DEF OffInv, PowerInv
  <2>5. OneAtATime' /\ RegisteredInv' /\ OperationsInv'
    BY <2>2, <2>4, RegisteredKept DEF SerialInv, OneAtATime, OperationsInv, Idle
  <2> QED BY <2>2, <2>3, <2>5 DEF SerialInv, LevelInv, Unsettled
<1>12. CASE Resume
  <2> DEFINE work == <<Op("restore"), EnableOn>>
  <2>1. work \in Seq(Operations) /\ work # <<>> /\ Head(work) = Op("restore")
    BY AreOperations
  <2>2. /\ Begin("pm", work) /\ power' = "resuming"
        /\ UNCHANGED <<status, led, type, initialized, registered, bound, keyEvent, synced>>
    BY <1>12 DEF Resume, EnableOn, ec, memory
  <2> HIDE DEF work
  <2>3. /\ \A d \in Contexts : Idle(d) /\ (d # "pm" => Idle(d)' /\ todo'[d] = todo[d])
        /\ Current("pm")' = Op("restore") /\ ~Idle("pm")'
        /\ pc'["pm"] # "use" /\ OneAtATime'
    BY <1>1, <2>1, <2>2, BeginSerial
  <2>4. RegisteredInv'
    BY <1>1, <2>2, <2>3, RegisteredKept DEF SerialInv
  <2>5. OperationsInv'
    BY <2>3, OperationNames DEF OperationsInv
  <2>6. LevelInv'
    BY <2>2, <2>3, OperationNames DEF SerialInv, LevelInv, Unsettled
  <2> QED BY <2>3, <2>4, <2>5, <2>6 DEF SerialInv
<1>13. CASE Thaw
  <2>1. /\ power' = "awake" /\ power = "resuming" /\ Idle("pm")
        /\ UNCHANGED <<status, led, type, initialized, registered, bound, keyEvent, synced, todo,
                       pc, data>>
    BY <1>13 DEF Thaw, ec, memory
  <2>2. OneAtATime' /\ RegisteredInv' /\ OperationsInv'
    BY <2>1, RegisteredKept DEF SerialInv, OneAtATime, OperationsInv, Idle, Current
  <2> QED BY <2>1, <2>2 DEF SerialInv, LevelInv, Unsettled, Idle, Current
<1>14. CASE Probe
  <2> DEFINE work == <<Op("init_early"), EnableOn>>
  <2>1. /\ work \in Seq(Operations) /\ work # <<>> /\ Head(work) = Op("init_early")
        /\ Len(work) = 2 /\ work[1] = Op("init_early") /\ work[2] = EnableOn
    BY AreOperations
  <2>2. /\ Begin("driver", work) /\ ~bound /\ bound'
        /\ UNCHANGED <<status, led, type, initialized, registered, power, keyEvent, synced>>
    BY <1>14 DEF Probe, EnableOn, ec, memory
  <2> HIDE DEF work
  <2>3. /\ \A d \in Contexts : Idle(d) /\ (d # "driver" => Idle(d)')
        /\ Current("driver")' = Op("init_early") /\ ~Idle("driver")' /\ todo'["driver"] = work
        /\ pc'["driver"] # "use" /\ OneAtATime'
    BY <1>1, <2>1, <2>2, BeginSerial
  <2>4. ~registered /\ ~initialized /\ ~synced
    BY <1>1, <1>4, <2>2, <2>3 DEF SerialInv, RegisteredInv
  <2>5. RegisteredInv'
    <3>1. ~UnregisterWork(work)
      BY <2>1, OperationNames DEF UnregisterWork
    <3>2. \A i \in 1 .. Len(work) : work[i].op # "set"
      BY <2>1, OperationNames
    <3> QED BY <2>2, <2>3, <2>4, <3>1, <3>2 DEF RegisteredInv
  <2>6. OperationsInv'
    BY <2>3, OperationNames DEF OperationsInv
  <2>7. LevelInv'
    BY <2>2, <2>3 DEF SerialInv, LevelInv
  <2> QED BY <2>3, <2>5, <2>6, <2>7 DEF SerialInv
<1>15. CASE Remove
  <2> DEFINE first == IF ~initialized THEN <<>>
                      ELSE IF type # "fixed" THEN <<Op("set_extern")>>
                      ELSE <<Op("set_extern"), Set(0), Op("unregister")>>
             work == first \o <<EnableOff>>
  <2>1. /\ work \in Seq(Operations) /\ RemoveWork(work) /\ ~ProbeWork(work)
        /\ UnregisterWork(work) <=> Len(first) = 3
    BY RemovalWork DEF WorkOf
  <2>2. Len(first) = 3 <=> initialized /\ type = "fixed"
    OBVIOUS
  <2>3. UnregisterWork(work) \/ \A i \in 1 .. Len(work) : work[i].op # "set"
    <3>1. SUFFICES ASSUME Len(first) # 3 PROVE \A i \in 1 .. Len(work) : work[i].op # "set"
      BY <2>1
    <3>2. CASE first = <<>>
      <4>1. work = <<EnableOff>>
        <5>1. <<EnableOff>> \in Seq(Operations)
          BY AreOperations
        <5>2. <<>> \o <<EnableOff>> = <<EnableOff>>
          BY <5>1, ConcatEmptySeq
        <5> QED BY <3>2, <5>2, Zenon
      <4> QED BY <4>1, OperationNames
    <3>3. CASE first = <<Op("set_extern")>>
      <4>1. <<Op("set_extern")>> \in Seq(Operations) /\ <<EnableOff>> \in Seq(Operations)
        BY AreOperations
      <4>2. Len(work) = 2 /\ work[1] = Op("set_extern") /\ work[2] = EnableOff
        BY <3>3, <4>1, ConcatProperties
      <4> QED BY <4>2, OperationNames
    <3> QED BY <3>1, <3>2, <3>3
  <2>4. /\ Begin("driver", work) /\ bound /\ ~bound' /\ ~initialized'
        /\ UNCHANGED <<status, led, type, registered, power, synced>>
    BY <1>15 DEF Remove, EnableOff, ec
  <2> HIDE DEF first, work
  <2>5. work # <<>>
    BY <2>1 DEF RemoveWork
  <2>6. /\ \A d \in Contexts : Idle(d) /\ (d # "driver" => Idle(d)')
        /\ Current("driver")' = Head(work) /\ ~Idle("driver")' /\ todo'["driver"] = work
        /\ pc'["driver"] # "use" /\ OneAtATime'
    BY <1>1, <2>1, <2>4, <2>5, BeginSerial
  <2>7. registered <=> initialized /\ type = "fixed"
    BY <1>1, <1>4, <2>6 DEF SerialInv, RegisteredInv
  <2>8. RegisteredInv'
    BY <2>1, <2>2, <2>3, <2>4, <2>6, <2>7 DEF SerialInv, RegisteredInv
  <2>9. Head(work).op # "rewrite" /\ (Head(work).op = "set" => UnregisterWork(work))
    <3>1. Head(work) = work[1] /\ 1 \in 1 .. Len(work)
      BY <2>1, <2>5, Rest
    <3>2. Head(work).op # "rewrite"
      BY <2>1, <2>5, <3>1, WorkHeads, OperationNames DEF WorkOf, Contexts
    <3> QED BY <2>3, <3>1, <3>2
  <2>10. OperationsInv'
    BY <2>1, <2>2, <2>4, <2>6, <2>7, <2>9 DEF OperationsInv
  <2>11. LevelInv'
    BY <2>4, <2>6 DEF SerialInv, LevelInv
  <2> QED BY <2>6, <2>8, <2>10, <2>11 DEF SerialInv
<1> QED
  BY <1>5, <1>6, <1>7, <1>8, <1>9, <1>10, <1>11, <1>12, <1>13, <1>14, <1>15

\* The end of an operation: its context is the only one that is under way.
LEMMA FinishSerial ==
  ASSUME TypeInv, SerialInv, NEW c \in Contexts, ~Idle(c), Finish(c)
  PROVE  /\ \A d \in Contexts : d # c => Idle(d) /\ Idle(d)' /\ todo'[d] = todo[d]
         /\ todo'[c] = Tail(todo[c]) /\ (Idle(c)' <=> Len(todo[c]) = 1)
         /\ pc'[c] # "use" /\ pc'[c] # "assign" /\ OneAtATime'
         /\ c \in {"sysfs", "event"} => Idle(c)'
         /\ c = "pm" /\ ~Idle(c)' =>
              Current(c)' = EnableOn /\ Current(c).op \in {"restore", "rewrite"}
         /\ c = "pm" /\ Idle(c)' => Current(c).op = "enable"
         /\ c = "driver" /\ Idle(c)' => Current(c).op = "enable"
         /\ c = "driver" /\ ~Idle(c)' => Current(c)'.op # "rewrite"
<1>1. /\ todo'[c] = Tail(todo[c]) /\ (Idle(c)' <=> Len(todo[c]) = 1)
      /\ \A d \in Contexts : d # c => todo'[d] = todo[d]
      /\ pc'[c] # "use" /\ pc'[c] # "assign"
  BY FinishAlone
<1>2. todo[c] \in Seq(Operations) /\ todo[c] # <<>> /\ WorkOf(c, todo[c])
  BY DEF TypeInv, WorkInv, Idle
<1>3. Tail(todo[c]) \in Seq(Operations) /\ (Tail(todo[c]) = <<>> <=> Len(todo[c]) = 1)
  BY <1>2, Rest
<1>4. \A d \in Contexts : d # c => Idle(d) /\ Idle(d)'
  BY <1>1 DEF SerialInv, OneAtATime, Idle
<1>5. c \in {"sysfs", "event"} => Len(todo[c]) = 1
  BY <1>2 DEF WorkOf, SysfsWork, EventWork
<1>6. EnableOn.op = "enable" /\ EnableOff.op = "enable"
  BY OperationNames
<1>7. c = "pm" /\ Len(todo[c]) = 1 => Current(c).op = "enable"
  BY <1>2, <1>3, <1>6, WorkHeads DEF Current
<1>8. c = "pm" /\ Len(todo[c]) # 1 =>
        Head(Tail(todo[c])) = EnableOn /\ Current(c).op \in {"restore", "rewrite"}
  <2>1. SUFFICES ASSUME c = "pm", Len(todo[c]) # 1
                 PROVE  /\ Head(Tail(todo[c])) = EnableOn
                        /\ Current(c).op \in {"restore", "rewrite"}
    OBVIOUS
  <2>2. Len(todo[c]) = 2 /\ Current(c).op \in {"restore", "rewrite"}
    BY <1>2, <2>1, WorkHeads DEF Current
  <2>3. ResumeWork(Tail(todo[c])) /\ Len(Tail(todo[c])) = 1
    <3>1. WorkOf(c, Tail(todo[c])) /\ ~SuspendWork(Tail(todo[c])) /\ Len(Tail(todo[c])) = 1
      BY <1>2, <1>3, <2>1, <2>2, WorkProceeds, Rest
    <3> QED BY <2>1, <3>1 DEF WorkOf
  <2>4. Head(Tail(todo[c])) = Tail(todo[c])[1]
    BY <1>3, <2>1, Rest
  <2> QED BY <2>2, <2>3, <2>4 DEF ResumeWork
<1>9. c = "driver" /\ Len(todo[c]) = 1 => Current(c).op = "enable"
  <2>1. SUFFICES ASSUME c = "driver", Len(todo[c]) = 1 PROVE Head(todo[c]).op = "enable"
    BY DEF Current
  <2>2. Head(todo[c]) = EnableOn \/ Head(todo[c]) = EnableOff
    <3> DEFINE t == todo[c]
    <3>1. t \in Seq(Operations) /\ t # <<>> /\ WorkOf(c, t) /\ Len(t) = 1
      BY <1>2, <2>1
    <3> HIDE DEF t
    <3>2. Head(t) = EnableOn \/ Head(t) = EnableOff
      BY <2>1, <3>1, WorkHeads
    <3> QED BY <3>2 DEF t
  <2> QED BY <1>6, <2>2
<1>10. c = "driver" /\ Len(todo[c]) # 1 => Head(Tail(todo[c])).op # "rewrite"
  <2>1. SUFFICES ASSUME c = "driver", Len(todo[c]) # 1
                 PROVE  Head(Tail(todo[c])).op # "rewrite"
    OBVIOUS
  <2>2. WorkOf(c, Tail(todo[c])) /\ Tail(todo[c]) # <<>>
    BY <1>2, <1>3, <2>1, WorkProceeds
  <2> QED BY <1>3, <1>6, <2>1, <2>2, WorkHeads
<1>11. OneAtATime'
  BY <1>4 DEF OneAtATime
<1> QED
  BY <1>1, <1>4, <1>5, <1>7, <1>8, <1>9, <1>10, <1>11 DEF Current

\* The driver's list after one of its operations.
LEMMA DriverFinishes ==
  ASSUME TypeInv, SerialInv, Finish("driver"), ~Idle("driver"), "driver" \in Contexts
  PROVE  /\ ProbeWork(todo'["driver"]) => ProbeWork(todo["driver"])
         /\ UnregisterWork(todo'["driver"]) => UnregisterWork(todo["driver"])
         /\ Current("driver").op # "unregister" /\ UnregisterWork(todo["driver"]) =>
              UnregisterWork(todo'["driver"])
         /\ Current("driver").op # "unregister" =>
              \A i \in 1 .. Len(todo'["driver"]) :
                todo'["driver"][i].op = "set" => UnregisterWork(todo'["driver"])
         /\ ~Idle("driver")' => Current("driver")' = todo'["driver"][1] /\ Len(todo'["driver"]) > 0
<1> DEFINE t == todo["driver"]
           u == Tail(t)
<1>1. t \in Seq(Operations) /\ t # <<>> /\ WorkOf("driver", t)
  BY DEF TypeInv, WorkInv, Idle
<1>2. todo'["driver"] = u
  BY FinishAlone
<1>3. /\ ProbeWork(u) => ProbeWork(t)
      /\ UnregisterWork(u) => UnregisterWork(t)
      /\ UnregisterWork(t) => UnregisterWork(u) \/ Head(t) = Op("unregister")
  BY <1>1, WorkProceeds
<1>4. Op("unregister").op = "unregister"
  BY OperationNames
<1>5. /\ Len(u) = Len(t) - 1 /\ Len(t) \in Nat /\ Len(t) > 0 /\ u \in Seq(Operations)
      /\ \A i \in 1 .. Len(t) - 1 : u[i] = t[i + 1]
  BY <1>1, Rest
<1>6. u # <<>> => Head(u) = u[1] /\ Len(u) > 0
  BY <1>5, Rest
<1>7. \A i \in 1 .. Len(t) : t[i].op = "set" => UnregisterWork(t)
  BY DEF SerialInv, RegisteredInv
<1> HIDE DEF u, t
<1>8. \A i \in 1 .. Len(u) : u[i].op = "set" => UnregisterWork(t)
  BY <1>5, <1>7
<1>9. Current("driver") = Head(t)
  BY DEF Current, t
<1> QED BY <1>2, <1>3, <1>4, <1>6, <1>8, <1>9 DEF Idle, Current, t

LEMMA BecomesSerial ==
  ASSUME TypeInv, NEW c \in Contexts, ~Idle(c), NEW op \in Operations, Becomes(c, op),
         \A d \in Contexts : d # c => Idle(d)
  PROVE  /\ \A d \in Contexts : d # c => Idle(d)' /\ todo'[d] = todo[d]
         /\ Current(c)' = op /\ ~Idle(c)' /\ pc'[c] # "use"
<1>1. todo[c] \in Seq(Operations) /\ todo[c] # <<>>
  BY DEF TypeInv, WorkInv, Idle
<1> DEFINE t == <<op>> \o Tail(todo[c])
<1>2. t \in Seq(Operations) /\ t # <<>> /\ Head(t) = op
  <2>1. t \in Seq(Operations) /\ Len(t) = Len(todo[c]) /\ t[1] = op /\ Len(todo[c]) > 0
    BY <1>1, Replaced, Rest
  <2> HIDE DEF t
  <2>2. t # <<>>
    BY <2>1
  <2> QED BY <2>1, <2>2, Rest DEF t
<1>3. /\ todo' = [todo EXCEPT ![c] = t] /\ pc' = [pc EXCEPT ![c] = FirstPc(op.op)]
  BY DEF Becomes
<1> HIDE DEF t
<1> QED BY <1>2, <1>3, FirstPcType DEF TypeInv, TypeOK, WorkInv, Idle, Current

\* An operation of the driver that is not its last ends, changing nothing but its list.
LEMMA DriverGoesOn ==
  ASSUME TypeInv, SerialInv, "driver" \in Contexts, ~Idle("driver"), Finish("driver"),
         Current("driver").op \notin {"enable", "unregister", "init_early"},
         ~ProbeWork(todo["driver"]),
         UNCHANGED <<status, type, initialized, registered, bound, power, keyEvent, synced>>
  PROVE  SerialInv'
<1>1. /\ \A d \in Contexts : d # "driver" => Idle(d)'
      /\ pc'["driver"] # "use" /\ OneAtATime' /\ ~Idle("driver")'
      /\ Current("driver")'.op # "rewrite"
  BY FinishSerial
<1>2. RegisteredInv'
  BY DriverFinishes DEF SerialInv, RegisteredInv
<1>3. OperationsInv'
  <2>1. Current("driver")'.op = "set" => UnregisterWork(todo'["driver"])
    BY <1>1, DriverFinishes
  <2>2. Current("driver")'.op = "set" => registered'
    BY <1>2, <2>1 DEF RegisteredInv
  <2> QED BY <1>1, <2>2 DEF OperationsInv
<1>4. LevelInv'
  BY <1>1 DEF SerialInv, LevelInv
<1> QED BY <1>1, <1>2, <1>3, <1>4 DEF SerialInv

LEMMA UnregisterEnds ==
  ASSUME NEW t \in Seq(Operations), t # <<>>, WorkOf("driver", t), Head(t).op = "unregister"
  PROVE  Len(Tail(t)) = 1 /\ Tail(t)[1] = EnableOff /\ Head(Tail(t)) = EnableOff
<1>1. UnregisterWork(t) /\ Len(t) = 2
  BY WorkHeads, OperationNames DEF Contexts
<1>2. t[2] = EnableOff
  BY <1>1 DEF UnregisterWork, RemoveWork
<1>3. Tail(t) \in Seq(Operations) /\ Len(Tail(t)) = 1 /\ Tail(t)[1] = EnableOff /\ Tail(t) # <<>>
  <2>1. Tail(t) \in Seq(Operations) /\ Len(Tail(t)) = 1
    BY <1>1, Rest
  <2>2. Tail(t)[1] = t[2]
    <3> DEFINE u == Tail(t)
    <3>1. \A i \in 1 .. Len(t) - 1 : u[i] = t[i + 1]
      BY Rest
    <3> HIDE DEF u
    <3>2. u[1] = t[2]
      BY <1>1, <3>1
    <3> QED BY <3>2 DEF u
  <2>3. Tail(t) # <<>>
    <3>1. Tail(t) = <<>> <=> Len(t) = 1
      BY Rest
    <3>2. Len(t) # 1
      BY <1>1
    <3> QED BY <3>1, <3>2
  <2> QED BY <1>2, <2>1, <2>2, <2>3
<1>4. Head(Tail(t)) = Tail(t)[1]
  BY <1>3, Rest
<1> QED BY <1>3, <1>4

LEMMA OperationsOf ==
  ASSUME NEW c \in Contexts, NEW t \in Seq(Operations), t # <<>>, WorkOf(c, t)
  PROVE  /\ c = "sysfs" => Head(t).op = "set"
         /\ c = "event" => Head(t).op \in {"notify", "restore", "rewrite"}
         /\ c = "pm" => Head(t).op \in {"enable", "restore", "rewrite"}
         /\ c = "driver" =>
              Head(t).op \in {"enable", "init_early", "set_extern", "set", "unregister"}
         /\ c = "driver" /\ Head(t).op \in {"set_extern", "set", "unregister"} =>
              RemoveWork(t) /\ ~ProbeWork(t)
<1>1. EnableOn.op = "enable" /\ EnableOff.op = "enable"
  BY OperationNames
<1>2. /\ c = "sysfs" => Head(t).op = "set"
      /\ c = "event" => Head(t).op \in {"notify", "restore", "rewrite"}
  BY WorkHeads
<1>3. c = "pm" => Head(t).op \in {"enable", "restore", "rewrite"}
  BY <1>1, WorkHeads
<1>4. c = "driver" => Head(t).op \in {"enable", "init_early", "set_extern", "set", "unregister"}
  BY <1>1, WorkHeads
<1>5. c = "driver" /\ Head(t).op \in {"set_extern", "set", "unregister"} => RemoveWork(t)
  BY <1>1, WorkHeads DEF UnregisterWork
<1>6. c = "driver" => ~(ProbeWork(t) /\ RemoveWork(t))
  BY WorkProceeds
<1> QED BY <1>2, <1>3, <1>4, <1>5, <1>6

\* The off bit is written last.
LEMMA EnableIsLast ==
  ASSUME NEW c \in Contexts, NEW t \in Seq(Operations), t # <<>>, WorkOf(c, t),
         Head(t).op = "enable"
  PROVE  /\ Len(t) = 1
         /\ c = "driver" => /\ ProbeWork(t) \/ RemoveWork(t)
                            /\ ~UnregisterWork(t)
<1>1. c # "sysfs" /\ c # "event"
  BY WorkHeads, OperationNames
<1>2. c = "pm" => Len(t) = 1
  BY WorkHeads, OperationNames
<1>3. c = "driver" => Len(t) = 1
  BY WorkHeads, OperationNames
<1>4. c = "driver" => ProbeWork(t) \/ RemoveWork(t)
  BY DEF WorkOf
<1>5. Len(t) = 1
  BY <1>1, <1>2, <1>3 DEF Contexts
<1>6. ~UnregisterWork(t)
  BY <1>5 DEF UnregisterWork
<1> QED BY <1>4, <1>5, <1>6

\* Each step of an operation.
LEMMA StepSerial ==
  ASSUME Serially, TypeInv, OffInv, SerialInv, NEW c \in Contexts, Step(c)
  PROVE  SerialInv'
<1>1. ~Idle(c)
  BY DEF Step, StartRestore, StartSetExtern, Unregister, ReadBlue, Kick, Read,
         WriteLevel, Assign, WriteEnable, Notify, InitEarly, AtPc
<1>2. /\ todo[c] \in Seq(Operations) /\ todo[c] # <<>> /\ WorkOf(c, todo[c])
      /\ Current(c) = Head(todo[c]) /\ Current(c) \in Operations
      /\ data[c] \in Status /\ status \in Status /\ led \in 0 .. 3
      /\ todo \in [Contexts -> Seq(Operations)] /\ data \in [Contexts -> Status]
      /\ pc \in [Contexts -> {"idle", "start", "read_blue", "kick", "read", "use", "assign"}]
      /\ power \in {"awake", "suspending", "asleep", "waking", "resuming"}
  BY <1>1, Rest DEF TypeInv, TypeOK, WorkInv, Idle, Current
<1>3. ~env.faults
  BY DEF Serially, Undisturbed
<1>4. \A d \in Contexts : d # c => Idle(d)
  BY <1>1 DEF SerialInv, OneAtATime
<1>5. /\ c = "sysfs" => Current(c).op = "set"
      /\ c = "event" => Current(c).op \in {"notify", "restore", "rewrite"}
      /\ c = "pm" => Current(c).op \in {"enable", "restore", "rewrite"}
      /\ c = "driver" => Current(c).op \in {"enable", "init_early", "set_extern", "set", "unregister"}
      /\ c = "driver" /\ Current(c).op \in {"set_extern", "set", "unregister"} =>
           RemoveWork(todo[c]) /\ ~ProbeWork(todo[c])
  BY <1>2, OperationsOf
<1>6. c # "driver" => ~ProbeWork(todo["driver"]) /\ ~UnregisterWork(todo["driver"])
  BY <1>4, EmptySeq DEF Idle, UnregisterWork, RemoveWork, ProbeWork, Contexts
<1>7. c # "driver" /\ registered => initialized /\ type = "fixed" /\ bound
  BY <1>6 DEF SerialInv, RegisteredInv
<1>8. c = "driver" /\ RemoveWork(todo[c]) /\ ~ProbeWork(todo[c]) => ~bound /\ ~initialized
  BY <1>1 DEF OffInv, PowerInv, SerialInv, RegisteredInv
<1>9. /\ power # "awake" => c \in {"pm", "event"}
      /\ c = "pm" => power \in {"suspending", "resuming"} /\ bound
  BY <1>1, <1>2 DEF OffInv, PowerInv, Contexts
\* Nothing but the operation's own end moves the list of the driver.
<1>10. ASSUME c # "driver", UNCHANGED <<initialized, type, registered, bound>>,
              todo'["driver"] = todo["driver"], synced' => registered
       PROVE  RegisteredInv'
  BY <1>6, <1>10 DEF SerialInv, RegisteredInv
<1>11. CASE StartRestore(c)
  <2>1. /\ Current(c).op = "restore" /\ c # "driver"
        /\ UNCHANGED <<status, led, type, initialized, registered, bound, power, keyEvent,
                          synced>>
    BY <1>5, <1>11 DEF StartRestore, ec, memory, world
  <2>2. CASE Finish(c) /\ ~(initialized /\ type = "fixed")
    <3>1. /\ \A d \in Contexts : d # c => Idle(d)' /\ todo'[d] = todo[d]
          /\ pc'[c] # "use" /\ OneAtATime' /\ (Idle(c)' \/ (c = "pm" /\ Current(c)' = EnableOn))
      BY <1>1, <2>1, <2>2, FinishSerial DEF Contexts
    <3>2. ~registered
      BY <1>7, <2>1, <2>2
    <3>3. RegisteredInv'
      BY <1>10, <2>1, <3>1 DEF SerialInv, RegisteredInv, Contexts
    <3>4. OperationsInv'
      BY <3>1, OperationNames DEF OperationsInv
    <3>5. LevelInv'
      BY <2>1, <3>2 DEF SerialInv, LevelInv
    <3> QED BY <3>1, <3>3, <3>4, <3>5 DEF SerialInv
  <2>3. CASE Becomes(c, Rewrite(led)) /\ initialized /\ type = "fixed"
    <3>1. registered
      BY <2>3 DEF SerialInv, RegisteredInv
    <3>2. /\ \A d \in Contexts : d # c => Idle(d)' /\ todo'[d] = todo[d]
          /\ Current(c)' = Rewrite(led) /\ ~Idle(c)' /\ pc'[c] # "use"
      <4>1. Rewrite(led) \in Operations
        BY <1>2, AreOperations
      <4> QED BY <1>1, <1>4, <2>3, <4>1, BecomesSerial
    <3>3. OneAtATime'
      BY <3>2 DEF OneAtATime
    <3>4. RegisteredInv'
      BY <1>10, <2>1, <3>2 DEF SerialInv, RegisteredInv, Contexts
    <3>5. OperationsInv'
      BY <1>5, <2>1, <3>1, <3>2, OperationNames DEF OperationsInv
    <3>6. LevelInv'
      <4>1. CASE c = "pm"
        BY <1>1, <1>9, <2>1, <3>2, <4>1, OperationNames DEF SerialInv, LevelInv, Unsettled, Contexts, Idle
      <4>2. CASE c = "event"
        BY <1>1, <1>4, <2>1, <3>2, <4>2, OperationNames DEF SerialInv, LevelInv, Unsettled, Contexts, Idle
      <4> QED BY <1>5, <2>1, <4>1, <4>2 DEF Contexts
    <3> QED BY <3>3, <3>4, <3>5, <3>6 DEF SerialInv
  <2> QED BY <1>11, <2>2, <2>3 DEF StartRestore
<1>12. CASE StartSetExtern(c)
  <2>1. /\ Current(c).op = "set_extern" /\ c = "driver"
        /\ UNCHANGED <<status, led, type, initialized, registered, bound, power, keyEvent,
                          synced>>
    BY <1>5, <1>12 DEF StartSetExtern, Contexts, ec, memory, world
  <2>2. RemoveWork(todo[c]) /\ ~ProbeWork(todo[c]) /\ ~bound /\ ~initialized
    BY <1>5, <1>8, <2>1
  <2>3. Finish(c)
    BY <1>12, <2>2 DEF StartSetExtern
  <2> QED BY <1>1, <1>4, <2>1, <2>2, <2>3, DriverGoesOn
<1>13. CASE Unregister(c)
  <2>1. /\ Current(c).op = "unregister" /\ c = "driver" /\ Finish(c) /\ ~registered' /\ ~synced'
        /\ UNCHANGED <<status, led, type, initialized, bound, power, keyEvent>>
    BY <1>5, <1>13 DEF Unregister, Contexts, ec, world
  <2>2. RemoveWork(todo[c]) /\ ~ProbeWork(todo[c]) /\ ~bound /\ ~initialized
    BY <1>5, <1>8, <2>1
  <2>3. todo'[c] = Tail(todo[c])
    BY <1>1, <2>1, FinishSerial
  <2>4. Len(todo'[c]) = 1 /\ todo'[c][1] = EnableOff /\ Head(todo'[c]) = EnableOff
    BY <1>2, <2>1, <2>3, UnregisterEnds
  <2>5. RegisteredInv'
    BY <2>1, <2>2, <2>4, OperationNames DEF RegisteredInv, ProbeWork, UnregisterWork
  <2>6. /\ \A d \in Contexts : d # c => Idle(d)'
        /\ pc'[c] # "use" /\ OneAtATime'
    BY <1>1, <2>1, FinishSerial
  <2>7. Current(c)' = EnableOff
    BY <2>4 DEF Current
  <2>8. OperationsInv'
    BY <2>1, <2>6, <2>7, OperationNames DEF OperationsInv
  <2>9. LevelInv'
    BY <2>1 DEF SerialInv, LevelInv
  <2> QED BY <2>5, <2>6, <2>8, <2>9 DEF SerialInv
<1>14. ASSUME NEW next \in {"kick", "read", "use"}, Continue(c, next), pc[c] # "assign",
              \A d \in Contexts : d # c => data'[d] = data[d], next = "use" => data'[c] = status,
              UNCHANGED <<status, led, type, initialized, registered, bound, power, keyEvent,
                          synced>>
       PROVE  SerialInv'
  <2>1. todo' = todo /\ pc'[c] = next /\ \A d \in Contexts : d # c => pc'[d] = pc[d]
    BY <1>2, <1>14 DEF Continue
  <2>2. OneAtATime' /\ RegisteredInv'
    BY <1>14, <2>1, RegisteredKept DEF SerialInv, OneAtATime, Idle
  <2>3. OperationsInv'
    BY <1>4, <1>14, <2>1 DEF SerialInv, OperationsInv, LevelInv, Idle, Current
  <2>4. LevelInv'
    BY <1>4, <1>14, <2>1 DEF SerialInv, LevelInv, Unsettled, Idle, Current, Contexts
  <2> QED BY <2>2, <2>3, <2>4 DEF SerialInv
<1>15. CASE ReadBlue(c) \/ Kick(c)
  <2>1. /\ \E next \in {"kick", "read"} : Continue(c, next)
        /\ pc[c] # "assign" /\ data' = data
        /\ UNCHANGED <<status, led, type, initialized, registered, bound, power, keyEvent,
                          synced>>
    BY <1>15 DEF ReadBlue, Kick, AtPc, ec, memory, world
  <2> QED BY <1>14, <2>1
<1>16. CASE Read(c)
  <2>1. /\ Continue(c, "use") /\ data' = [data EXCEPT ![c] = status] /\ pc[c] # "assign"
        /\ UNCHANGED <<status, led, type, initialized, registered, bound, power, keyEvent,
                          synced>>
    BY <1>3, <1>16 DEF Read, Seen, AtPc, ec, memory, world
  <2>2. data'[c] = status /\ \A d \in Contexts : d # c => data'[d] = data[d]
    BY <1>2, <2>1
  <2> QED BY <1>14, <2>1, <2>2
<1>17. CASE WriteLevel(c)
  <2>1. /\ status' = [data[c] EXCEPT !.level = Current(c).level] /\ synced'
        /\ Current(c).op \in {"set", "rewrite"}
        /\ UNCHANGED <<led, type, initialized, registered, bound, power, keyEvent>>
    BY <1>3, <1>17 DEF WriteLevel, Written, memory, world
  <2>2. status'.level = Current(c).level /\ Current(c).level \in 0 .. 3
    BY <1>2, <2>1 DEF Status, Operations
  <2>3. registered /\ (c # "driver" => status'.level = led)
    BY <1>1, <1>5, <2>1, <2>2 DEF SerialInv, OperationsInv, Contexts
  <2>4. CASE Current(c).op = "set" /\ Continue(c, "assign") /\ UNCHANGED data
    <3>1. todo' = todo /\ pc'[c] = "assign" /\ \A d \in Contexts : d # c => pc'[d] = pc[d]
      BY <1>2, <2>4 DEF Continue
    <3>2. OneAtATime'
      BY <3>1 DEF SerialInv, OneAtATime, Idle
    <3>3. RegisteredInv'
      <4>1. ~ProbeWork(todo["driver"])
        BY <1>5, <1>6, <2>4
      <4> QED BY <2>1, <2>3, <3>1, <4>1 DEF SerialInv, RegisteredInv
    <3>4. OperationsInv'
      BY <1>4, <2>1, <3>1 DEF SerialInv, OperationsInv, Idle, Current
    <3>5. LevelInv'
      BY <1>1, <2>1, <2>2, <2>3, <3>1 DEF SerialInv, LevelInv, Idle
    <3> QED BY <3>2, <3>3, <3>4, <3>5 DEF SerialInv
  <2>5. CASE Current(c).op = "rewrite" /\ Finish(c)
    <3>1. c # "driver"
      BY <1>5, <2>5
    <3>2. /\ \A d \in Contexts : d # c => Idle(d)' /\ todo'[d] = todo[d]
          /\ pc'[c] # "use" /\ OneAtATime' /\ (Idle(c)' \/ (c = "pm" /\ Current(c)' = EnableOn))
      BY <1>1, <2>5, <3>1, FinishSerial DEF Contexts
    <3>3. RegisteredInv'
      BY <1>10, <2>1, <2>3, <3>1, <3>2 DEF Contexts
    <3>4. OperationsInv'
      BY <3>2, OperationNames DEF OperationsInv
    <3>5. LevelInv'
      BY <2>1, <2>2, <2>3, <3>1 DEF LevelInv
    <3> QED BY <3>2, <3>3, <3>4, <3>5 DEF SerialInv
  <2> QED BY <1>3, <1>17, <2>4, <2>5 DEF WriteLevel
<1>18. CASE Assign(c)
  <2>1. /\ led' = Current(c).level /\ Finish(c) /\ Current(c).op = "set" /\ pc[c] = "assign"
        /\ UNCHANGED <<status, type, initialized, registered, bound, power, keyEvent, synced>>
    BY <1>18 DEF Assign, AtPc, TypeInv, AssignInv, ec, world
  <2>2. CASE c = "driver"
    BY <1>1, <1>5, <2>1, <2>2, DriverGoesOn
  <2>3. CASE c = "sysfs"
    <3>1. led' = led /\ registered
      BY <1>1, <2>1, <2>3 DEF SerialInv, OperationsInv
    <3>2. /\ \A d \in Contexts : d # c => Idle(d)' /\ todo'[d] = todo[d]
          /\ OneAtATime' /\ Idle(c)'
      BY <1>1, <2>1, <2>3, FinishSerial
    <3>3. RegisteredInv'
      BY <1>10, <2>1, <2>3, <3>1, <3>2 DEF Contexts
    <3>4. OperationsInv'
      BY <3>2 DEF OperationsInv
    <3>5. LevelInv'
      BY <1>4, <1>9, <2>1, <2>3, <3>1 DEF SerialInv, LevelInv, Unsettled, Idle, Contexts
    <3> QED BY <3>2, <3>3, <3>4, <3>5 DEF SerialInv
  <2> QED BY <1>5, <2>1, <2>2, <2>3 DEF Contexts
<1>19. CASE WriteEnable(c)
  <2>1. /\ status' = [data[c] EXCEPT !.off = ~Current(c).on] /\ Finish(c)
        /\ Current(c).op = "enable" /\ pc[c] = "use"
        /\ UNCHANGED <<led, type, initialized, registered, bound, power, keyEvent, synced>>
    BY <1>3, <1>19 DEF WriteEnable, AtPc, Written, memory, world
  <2>2. status'.level = data[c].level
    BY <1>2, <2>1 DEF Status
  <2>3. data[c].level \in 0 .. 3 /\ (data[c].level = status.level \/ keyEvent \/ ~bound)
    BY <1>1, <2>1 DEF SerialInv, OperationsInv
  <2>4. /\ \A d \in Contexts : d # c => Idle(d)' /\ todo'[d] = todo[d]
        /\ OneAtATime' /\ Idle(c)'
    <3>1. Idle(c)'
      <4>1. Len(todo[c]) = 1
        BY <1>2, <2>1, EnableIsLast
      <4> QED BY <1>1, <2>1, <4>1, FinishSerial
    <3> QED BY <1>1, <2>1, <3>1, FinishSerial
  <2>5. OperationsInv'
    BY <2>4 DEF OperationsInv
  <2>6. CASE c = "pm"
    <3>1. RegisteredInv'
      BY <1>10, <2>1, <2>4, <2>6 DEF SerialInv, RegisteredInv, Contexts
    <3>2. LevelInv'
      BY <1>4, <1>9, <2>1, <2>2, <2>3, <2>4, <2>6 DEF SerialInv, LevelInv, Unsettled, Idle, Contexts
    <3> QED BY <2>4, <2>5, <3>1, <3>2 DEF SerialInv
  <2>7. CASE c = "driver"
    <3>1. ~registered \/ ~synced
      <4>1. ProbeWork(todo[c]) \/ (RemoveWork(todo[c]) /\ ~UnregisterWork(todo[c]))
        BY <1>2, <2>1, <2>7, EnableIsLast
      <4> QED BY <1>8, <2>7, <4>1 DEF SerialInv, RegisteredInv
    <3>2. RegisteredInv'
      <4>1. Len(todo'[c]) = 0
        BY <2>4, EmptySeq DEF Idle
      <4>2. ~ProbeWork(todo'[c]) /\ ~UnregisterWork(todo'[c])
        BY <4>1 DEF ProbeWork, UnregisterWork
      <4>3. ~UnregisterWork(todo[c])
        BY <1>2, <2>1, <2>7, EnableIsLast
      <4> QED BY <2>1, <2>7, <4>1, <4>2, <4>3 DEF SerialInv, RegisteredInv
    <3>3. LevelInv'
      BY <2>1, <2>2, <2>3, <3>1 DEF LevelInv
    <3> QED BY <2>4, <2>5, <3>2, <3>3 DEF SerialInv
  <2> QED BY <1>5, <2>1, <2>6, <2>7 DEF Contexts
<1>20. CASE Notify(c)
  <2>1. /\ Current(c).op = "notify" /\ Finish(c) /\ pc[c] = "use" /\ c = "event"
        /\ UNCHANGED <<status, type, initialized, registered, bound, power, keyEvent>>
    BY <1>5, <1>20 DEF Notify, AtPc, ec, world, Contexts
  <2>2. data[c].level \in 0 .. 3 /\ (data[c].level = status.level \/ keyEvent \/ ~bound)
    BY <1>1, <2>1 DEF SerialInv, OperationsInv
  <2>3. /\ \A d \in Contexts : d # c => Idle(d)' /\ todo'[d] = todo[d]
        /\ OneAtATime' /\ Idle(c)'
    BY <1>1, <2>1, FinishSerial
  <2>4. OperationsInv'
    BY <2>3 DEF OperationsInv
  <2>5. CASE initialized /\ type = "fixed"
    <3>1. led' = data[c].level % 4 /\ synced' /\ registered /\ bound
      BY <1>20, <2>5 DEF Notify, SerialInv, RegisteredInv
    <3>2. led' = data[c].level
      BY <2>2, <3>1
    <3>3. RegisteredInv'
      BY <1>10, <2>1, <2>3, <3>1 DEF Contexts
    <3>4. LevelInv'
      BY <2>1, <2>2, <3>1, <3>2 DEF SerialInv, LevelInv
    <3> QED BY <2>3, <2>4, <3>3, <3>4 DEF SerialInv
  <2>6. CASE ~(initialized /\ type = "fixed")
    <3>1. led' = led /\ synced' = synced /\ ~registered
      BY <1>7, <1>20, <2>1, <2>6 DEF Notify
    <3>2. RegisteredInv'
      BY <1>10, <2>1, <2>3, <3>1 DEF SerialInv, RegisteredInv, Contexts
    <3>3. LevelInv'
      BY <2>1, <3>1 DEF SerialInv, LevelInv
    <3> QED BY <2>3, <2>4, <3>2, <3>3 DEF SerialInv
  <2> QED BY <2>5, <2>6
<1>21. CASE InitEarly(c)
  <2>1. /\ Current(c).op = "init_early" /\ Finish(c) /\ c = "driver"
        /\ registered' = (type' = "fixed") /\ initialized'
        /\ UNCHANGED <<status, bound, power, keyEvent, synced>>
    BY <1>3, <1>5, <1>21 DEF InitEarly, ec, world, Contexts
  <2>2. ProbeWork(todo[c]) /\ bound /\ ~synced
    <3>1. ProbeWork(todo[c])
      BY <1>2, <2>1, WorkHeads, OperationNames DEF UnregisterWork
    <3> QED BY <2>1, <3>1 DEF SerialInv, RegisteredInv
  <2>3. /\ \A d \in Contexts : d # c => Idle(d)'
        /\ pc'[c] # "use" /\ OneAtATime' /\ ~Idle(c)'
    BY <1>1, <2>1, FinishSerial
  <2>4. ~UnregisterWork(todo[c])
    BY <1>2, <2>1, <2>2, WorkProceeds DEF UnregisterWork
  <2>5. \A i \in 1 .. Len(todo'[c]) : todo'[c][i].op # "set"
    BY <1>1, <2>1, <2>4, DriverFinishes
  <2>6. ~UnregisterWork(todo'[c])
    BY <1>1, <2>1, <2>4, DriverFinishes
  <2>7. RegisteredInv'
    BY <2>1, <2>2, <2>5, <2>6 DEF RegisteredInv
  <2>8. Current(c)'.op \notin {"set", "rewrite"}
    BY <1>1, <2>1, <2>3, <2>5, DriverFinishes, FinishSerial
  <2>9. OperationsInv'
    BY <2>1, <2>3, <2>8 DEF OperationsInv
  <2>10. LevelInv'
    BY <2>1, <2>3 DEF SerialInv, LevelInv
  <2> QED BY <2>3, <2>7, <2>9, <2>10 DEF SerialInv
<1> QED
  BY <1>11, <1>12, <1>13, <1>15, <1>16, <1>17, <1>18, <1>19, <1>20, <1>21 DEF Step

LEMMA SerialInvariant == Spec => [](Serially => SerialInv)
<1> DEFINE Inv == Serially => SerialInv
<1>1. Init => Inv
  BY InitSerial
<1>2. TypeInv /\ (StoresAndEvents => OffInv) /\ Inv /\ [Next]_vars => Inv'
  <2> SUFFICES ASSUME TypeInv, StoresAndEvents => OffInv, Inv, [Next]_vars, Serially'
               PROVE  SerialInv'
    OBVIOUS
  <2>1. Serially /\ OffInv /\ SerialInv
    BY EnvConstant, SerialIsQuiet DEF Serially, Undisturbed
  <2>2. CASE UNCHANGED vars
    <3>1. UNCHANGED <<status, led, type, initialized, registered, bound, power, keyEvent, synced,
                      todo, pc, data>>
      BY <2>2 DEF vars, ec, memory, world
    <3> QED
      BY <2>1, <3>1 DEF SerialInv, OneAtATime, RegisteredInv, OperationsInv, LevelInv,
                        Unsettled, Idle, Current
  <2>3. CASE Next
    BY <2>1, <2>3, StartSerial, StepSerial DEF Next
  <2> QED BY <2>2, <2>3
<1> QED BY <1>1, <1>2, TypesStayRight, OffInvariant, PTL DEF Spec

\* With one context at a time, the level the keyboard shows when nothing is under
\* way is the brightness the LED class reports: stores, Fn keys, adapter changes,
\* sleep, probe and remove in any number and order.
THEOREM LevelStaysMatched == Spec => []LevelMatchesLed
<1>1. (Serially => SerialInv) => LevelMatchesLed
  <2> SUFFICES ASSUME Serially, SerialInv, registered, power = "awake", Quiescent, synced, ~keyEvent
               PROVE  status.level = led
    BY DEF LevelMatchesLed, Serially
  <2>1. Idle("sysfs") /\ Idle("event") /\ Idle("pm") /\ Idle("driver")
    BY DEF Quiescent, Contexts
  <2> QED BY <2>1 DEF SerialInv, LevelInv, Unsettled
<1> QED BY <1>1, SerialInvariant, PTL
=============
