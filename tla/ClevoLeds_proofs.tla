-------------------------- MODULE ClevoLeds_proofs --------------------------
(***************************************************************************)
(* Theorems about ClevoLeds, for any brightness levels, list of colours    *)
(* and environments: types; the keyboard is lit from probe and resume to   *)
(* suspend whatever overlaps; and with one context at a time it shows what *)
(* the LED class devices say.                                              *)
(***************************************************************************)
EXTENDS ClevoLeds, SequenceTheorems, TLAPS

-----------------------------------------------------------------------------
(***************************************************************************)
(* What a context still has to do, and the types                           *)
(***************************************************************************)

Colors == {ColorOf(id) : id \in ColorIds} \cup {Default}

Operations ==
  [op : {"brightness"}, zone : Zones, level : Values]
    \cup [op : {"off", "restore"}, zone : Zones]
    \cup [op : {"color"}, zone : Zones, color : Colors]
    \cup [op : {"send"}, zone : Zones, color : Triples]
    \cup [op : {"status"}, on : BOOLEAN]
    \cup [op : {"mode"}, mode : Modes]
    \cup [op : {"cycled"}, id : ColorIds]
    \cup [op : {"register", "unregister"}]
    \cup {x \in [op : {"notify"}] \cup [op : {"notify"}, level : Values] : ~Rgb}

StepNames == {"start", "assign", "assign0", "assign1", "assign2", "color"}

\* What was read of the brightness is there when it is assigned; and a context
\* that has nothing to do starts at the beginning.
WorkInv ==
  /\ todo \in [Contexts -> Seq(Operations)]
  /\ pc \in [Contexts -> StepNames]
  /\ \A c \in Contexts :
       /\ Idle(c) => pc[c] = "start"
       /\ At(c, "notify", "assign") => Current(c).level \in Values

TypeInv == TypeOK /\ intensity \in [Zones -> Colors] /\ WorkInv

-----------------------------------------------------------------------------
(***************************************************************************)
(* Suspend, resume and probe                                               *)
(***************************************************************************)

StatusOn == Status(TRUE)

\* Probe and remove do not run together with suspend and resume, stores only
\* while the machine is awake, and it is asleep with nothing under way.
PowerInv ==
  /\ ~Idle("driver") \/ ~Idle("sysfs") => power = "awake"
  /\ power = "awake" => Idle("pm")
  /\ power = "asleep" => Quiescent

\* Only suspend switches the keyboard off; only the driver registers LEDs.
StatusInv ==
  \A c \in Contexts : \A i \in 1 .. Len(todo[c]) :
    /\ todo[c][i].op = "status" =>
         c \in {"pm", "driver"} /\ (todo[c][i] = StatusOn \/ power = "suspending")
    /\ todo[c][i].op \in {"register", "unregister"} => c = "driver"

\* It is switched on before the LEDs are registered, and at the end of resume.
LitInv ==
  /\ registered /\ power = "awake" => lit
  /\ \A i \in 1 .. Len(todo["driver"]) :
       todo["driver"][i].op = "register" =>
         lit \/ \E j \in 1 .. i - 1 : todo["driver"][j].op = "status"
  /\ power = "resuming" =>
       IF Idle("pm") THEN lit ELSE todo["pm"][Len(todo["pm"])] = StatusOn

-----------------------------------------------------------------------------
(***************************************************************************)
(* One context at a time                                                   *)
(***************************************************************************)

\* Once remove has begun, the LEDs are registered until it unregisters them.
RegisteredInv ==
  /\ registered /\ ~bound =>
       \E i \in 1 .. Len(todo["driver"]) : todo["driver"][i].op = "unregister"
  /\ \A i \in 1 .. Len(todo["driver"]) : todo["driver"][i].op = "register" => bound

\* Only a white keyboard changes its brightness by itself; a colour is sent in
\* the operation that is performed.
WhiteInv ==
  /\ keyEvent => ~Rgb
  /\ \A c \in Contexts :
       /\ \A i \in 1 .. Len(todo[c]) : todo[c][i].op = "notify" => ~Rgb
       /\ \A i \in 2 .. Len(todo[c]) : todo[c][i].op # "send"

OneAtATime == \A c, d \in Contexts : c # d => Idle(c) \/ Idle(d)
Lone(c) == \A d \in Contexts \ {c} : Idle(d)

\* The operation that c is in will set the brightness by the firmware, or read it.
Calls(c) ==
  Current(c).op \in {"restore", "off", "color", "notify"} \/ At(c, "brightness", "start")

Same == \A y, z \in Zones : led[y] = led[z]
Shown(l) == bright = l \/ keyEvent \/ ~bound

\* The brightness of the keyboard and those of the LED class devices, by where
\* the call of c is.
BrightnessAt(c) ==
  IF Idle(c) THEN Same /\ (power \in {"asleep", "waking"} \/ Shown(led[0]))
  ELSE /\ Current(c).op # "brightness" => Same
       /\ At(c, "notify", "assign") => Shown(Current(c).level)
       /\ \A k \in 0 .. 2 : At(c, "brightness", AssignStep[k]) =>
            Shown(Current(c).level) /\ \A z \in Zones : z < k => led[z] = Current(c).level
       /\ At(c, "brightness", "color") => Same
       /\ At(c, "brightness", "color") \/ Current(c).op # "brightness" =>
            Calls(c) \/ power = "waking" \/ Shown(led[0])

\* The colour of a zone is still to be sent.
Pending(c, z) ==
  \E i \in 1 .. Len(todo[c]) :
    todo[c][i].op \in {"restore", "color", "brightness", "send"} /\ todo[c][i].zone = z

ColorAt(c) ==
  /\ At(c, "send", "start") => Current(c).color = Sent(intensity[Current(c).zone])
  /\ Rgb => \A z \in Zones :
       \/ Pending(c, z) \/ ~bound \/ power \in {"asleep", "waking"}
       \/ shown[z] = Sent(intensity[z])

SerialInv ==
  OneAtATime /\ \A c \in Contexts : Lone(c) => BrightnessAt(c) /\ ColorAt(c)


\* What is left of a sequence when its first element goes, or another one takes
\* its place.
LEMMA Rest ==
  ASSUME NEW S, NEW t \in Seq(S), t # <<>>
  PROVE  /\ Len(t) \in Nat /\ Len(t) > 0
         /\ Head(t) = t[1] /\ t[1] \in S
         /\ Tail(t) \in Seq(S) /\ Len(Tail(t)) = Len(t) - 1
         /\ \A i \in 1 .. Len(t) - 1 : Tail(t)[i] = t[i + 1]
         /\ Tail(t) = <<>> <=> Len(t) = 1
<1>1. Len(t) \in Nat /\ Len(t) > 0
  BY EmptySeq
<1>2. Head(t) = t[1] /\ t[1] \in S
  BY <1>1, ElementOfSeq
<1>3. /\ Tail(t) \in Seq(S) /\ Len(Tail(t)) = Len(t) - 1
      /\ \A i \in 1 .. Len(Tail(t)) : Tail(t)[i] = t[i + 1]
  BY HeadTailProperties
<1> DEFINE u == Tail(t)
<1>4. u = <<>> <=> Len(t) = 1
  <2>1. u \in Seq(S) /\ Len(u) = Len(t) - 1
    BY <1>3
  <2> HIDE DEF u
  <2>2. u = <<>> <=> Len(u) = 0
    BY <2>1, EmptySeq
  <2> QED BY <1>1, <2>1, <2>2
<1> QED BY <1>1, <1>2, <1>3, <1>4

LEMMA Joined ==
  ASSUME NEW S, NEW s \in Seq(S), NEW t \in Seq(S)
  PROVE  /\ s \o t \in Seq(S) /\ Len(s \o t) = Len(s) + Len(t)
         /\ Len(s) \in Nat /\ Len(t) \in Nat
         /\ \A i \in 1 .. Len(s) : (s \o t)[i] = s[i]
         /\ \A i \in 1 .. Len(t) : (s \o t)[Len(s) + i] = t[i]
<1> DEFINE u == s \o t
<1>1. Len(s) \in Nat /\ Len(t) \in Nat
  BY LenProperties
<1>2. /\ u \in Seq(S) /\ Len(u) = Len(s) + Len(t)
      /\ \A i \in 1 .. Len(s) + Len(t) : u[i] = IF i <= Len(s) THEN s[i] ELSE t[i - Len(s)]
  BY ConcatProperties
<1> HIDE DEF u
<1>3. \A i \in 1 .. Len(s) : u[i] = s[i]
  BY <1>1, <1>2
<1>4. ASSUME NEW i \in 1 .. Len(t) PROVE u[Len(s) + i] = t[i]
  <2>1. Len(s) + i \in 1 .. Len(s) + Len(t) /\ ~(Len(s) + i <= Len(s)) /\ Len(s) + i - Len(s) = i
    BY <1>1
  <2> QED BY <1>2, <2>1
<1> QED BY <1>1, <1>2, <1>3, <1>4 DEF u

LEMMA Replaced ==
  ASSUME NEW S, NEW t \in Seq(S), t # <<>>, NEW op \in S
  PROVE  /\ <<op>> \o Tail(t) \in Seq(S) /\ Len(<<op>> \o Tail(t)) = Len(t)
         /\ <<op>> \o Tail(t) # <<>> /\ Head(<<op>> \o Tail(t)) = op
         /\ (<<op>> \o Tail(t))[1] = op
         /\ \A i \in 2 .. Len(t) : (<<op>> \o Tail(t))[i] = t[i]
<1>1. <<op>> \in Seq(S) /\ Len(<<op>>) = 1 /\ <<op>>[1] = op
  OBVIOUS
<1> DEFINE s == <<op>> \o Tail(t)
           o == <<op>>
<1>2. /\ Len(t) \in Nat /\ Len(t) > 0 /\ Tail(t) \in Seq(S) /\ Len(Tail(t)) = Len(t) - 1
      /\ \A i \in 1 .. Len(t) - 1 : Tail(t)[i] = t[i + 1]
  BY Rest
<1>3. /\ s \in Seq(S) /\ Len(s) = 1 + Len(Tail(t))
      /\ s[1] = op
      /\ \A i \in 1 .. Len(Tail(t)) : s[1 + i] = Tail(t)[i]
  <2>1. o \in Seq(S) /\ Len(o) = 1 /\ o[1] = op
    BY <1>1
  <2>2. s = o \o Tail(t)
    OBVIOUS
  <2> HIDE DEF o, s
  <2>3. /\ o \o Tail(t) \in Seq(S) /\ Len(o \o Tail(t)) = Len(o) + Len(Tail(t))
        /\ \A i \in 1 .. Len(o) : (o \o Tail(t))[i] = o[i]
        /\ \A i \in 1 .. Len(Tail(t)) : (o \o Tail(t))[Len(o) + i] = Tail(t)[i]
    BY <1>2, <2>1, Joined
  <2>4. /\ s \in Seq(S) /\ Len(s) = Len(o) + Len(Tail(t))
        /\ \A i \in 1 .. Len(o) : s[i] = o[i]
        /\ \A i \in 1 .. Len(Tail(t)) : s[Len(o) + i] = Tail(t)[i]
    BY <2>2, <2>3, Zenon
  <2> QED BY <2>1, <2>4
<1> HIDE DEF s
<1>4. ASSUME NEW i \in 2 .. Len(t) PROVE s[i] = t[i]
  <2>1. i - 1 \in 1 .. Len(t) - 1 /\ 1 + (i - 1) = i /\ (i - 1) + 1 = i
    BY <1>2
  <2> QED BY <1>2, <1>3, <2>1
<1>5. Len(s) = Len(t)
  BY <1>2, <1>3
<1>6. s # <<>>
  BY <1>2, <1>3, <1>5, EmptySeq
<1>7. Head(s) = op
  BY <1>3, <1>6, Rest
<1> QED BY <1>3, <1>4, <1>5, <1>6, <1>7 DEF s

\* A level is a byte; a value that is none comes from a method that failed on a
\* white keyboard, and what the firmware is told of it is a byte.
LEMMA ValueFacts ==
  /\ Levels \subseteq Values /\ 0 \in Values
  /\ Rgb \/ ~env.faults => Values = Levels
  /\ ~Rgb /\ env.faults => Garbage \subseteq Values
  /\ \A l \in Levels : Byte(l) = l /\ l <= 255
  /\ \A l \in Values : Byte(l) \in Values /\ Byte(l) <= 255
<1>1. \A l \in Nat : Byte(l) \in 0 .. 255 /\ Byte(Byte(l)) = Byte(l)
  BY DEF Byte
<1>2. Garbage \subseteq Nat /\ Levels \subseteq 0 .. 255 /\ 0 \in Levels
  BY ClevoAssumption DEF ClevoAssumption
<1>3. \A l \in Levels : Byte(l) = l /\ l <= 255
  <2>1. \A l \in 0 .. 255 : Byte(l) = l /\ l <= 255
    BY DEF Byte
  <2> QED BY <1>2, <2>1
<1>4. ASSUME NEW l \in Values PROVE Byte(l) \in Values /\ Byte(l) <= 255
  <2>1. CASE l \in Levels
    BY <1>3, <1>4, <2>1
  <2>2. CASE l \in Garbage \/ \E b \in Garbage : l = Byte(b)
    <3>1. \/ Byte(l) \in {Byte(b) : b \in Garbage} /\ env.faults /\ ~Rgb
          \/ Byte(l) \in Levels
      <4>1. CASE env.faults /\ ~Rgb
        BY <1>1, <1>2, <2>2, <4>1
      <4>2. CASE ~(env.faults /\ ~Rgb)
        BY <1>3, <1>4, <4>2 DEF Values
      <4> QED BY <4>1, <4>2
    <3>2. Byte(l) \in 0 .. 255
      BY <1>1, <1>2, <2>2
    <3> QED BY <3>1, <3>2 DEF Values
  <2> QED BY <1>4, <2>1, <2>2 DEF Values
<1> QED BY <1>3, <1>2, <1>4 DEF Values

\* What distinguishes the operations.
LEMMA OperationFields ==
  ASSUME NEW x \in Operations
  PROVE  /\ x.op = "brightness" => x.zone \in Zones /\ x.level \in Values
         /\ x.op \in {"off", "restore", "color", "send"} => x.zone \in Zones
         /\ x.op = "color" => x.color \in Colors
         /\ x.op = "send" => x.color \in Triples
         /\ x.op = "status" => x.on \in BOOLEAN
         /\ x.op = "mode" => x.mode \in Modes
         /\ x.op = "cycled" => x.id \in ColorIds
         /\ x.op = "notify" => ~Rgb
  BY DEF Operations

LEMMA AreOperations ==
  /\ \A z \in Zones : /\ \A b \in Values : Brightness(z, b) \in Operations
                      /\ SwitchOff(z) \in Operations /\ RestoreZone(z) \in Operations
                      /\ \A c \in Colors : Color(z, c) \in Operations
                      /\ \A c \in Triples : [op |-> "send", zone |-> z, color |-> c] \in Operations
  /\ Status(TRUE) \in Operations /\ Status(FALSE) \in Operations
  /\ \A m \in Modes : Mode(m) \in Operations
  /\ \A id \in ColorIds : Cycled(id) \in Operations
  /\ ~Rgb => \A b \in Values : [op |-> "notify", level |-> b] \in Operations
  /\ ~Rgb => Op("notify") \in Operations
  /\ \A name \in {"register", "unregister"} : Op(name) \in Operations
<1> USE DEF Operations
<1>1. \A z \in Zones : /\ \A b \in Values : Brightness(z, b) \in Operations
                       /\ SwitchOff(z) \in Operations /\ RestoreZone(z) \in Operations
  BY DEF Brightness, SwitchOff, RestoreZone
<1>2. \A z \in Zones : \A c \in Colors : Color(z, c) \in Operations
  BY DEF Color
<1>3. \A z \in Zones : \A c \in Triples : [op |-> "send", zone |-> z, color |-> c] \in Operations
  OBVIOUS
<1>4. Status(TRUE) \in Operations /\ Status(FALSE) \in Operations
  BY DEF Status
<1>5. \A m \in Modes : Mode(m) \in Operations
  BY DEF Mode
<1>6. \A id \in ColorIds : Cycled(id) \in Operations
  BY DEF Cycled
<1>7. /\ ~Rgb => \A b \in Values : [op |-> "notify", level |-> b] \in Operations
      /\ ~Rgb => Op("notify") \in Operations
      /\ \A name \in {"register", "unregister"} : Op(name) \in Operations
  BY DEF Op
<1> QED BY <1>1, <1>2, <1>3, <1>4, <1>5, <1>6, <1>7

\* The zones, the colours and what the firmware is sent for them.
LEMMA ZoneTypes ==
  /\ Zones \in {{0}, 0 .. 2} /\ 0 \in Zones
  /\ (Zones = {0} /\ ZoneSeq = <<0>>) \/ (Zones = 0 .. 2 /\ ZoneSeq = <<0, 1, 2>>)
  /\ ~Rgb => Zones = {0}
  BY DEF Zones, ZoneSeq, Rgb

LEMMA ColorTypes ==
  /\ \A c \in Colors : Sent(c) \in Triples
  /\ Default \in Colors /\ \A id \in ColorIds : ColorOf(id) \in Colors
<1>1. /\ Default \in Colors /\ \A id \in ColorIds : ColorOf(id) \in Colors
  BY DEF Colors
<1>2. ASSUME NEW c \in Colors PROVE Sent(c) \in Triples
  <2>1. CASE c = Default
    BY <2>1 DEF Triples
  <2>2. CASE \E id \in ColorIds : c = ColorOf(id)
    BY <2>2 DEF Triples
  <2> QED BY <2>1, <2>2 DEF Colors
<1> QED BY <1>1, <1>2

\* What depends on env alone.
LEMMA EnvTells ==
  ASSUME env' = env
  PROVE  /\ Zones' = Zones /\ ZoneSeq' = ZoneSeq /\ Rgb' = Rgb
         /\ Triples' = Triples /\ Values' = Values /\ Operations' = Operations
         /\ \A c : Sent(c)' = Sent(c)
<1>1. Zones' = Zones /\ ZoneSeq' = ZoneSeq /\ Rgb' = Rgb
  BY DEF Zones, ZoneSeq, Rgb
<1>2. \A c : Sent(c)' = Sent(c)
  BY DEF Sent
<1>3. Triples' = Triples
  BY <1>2 DEF Triples, Sent
<1>4. Values' = Values
  BY <1>1 DEF Values
<1>5. Operations' = Operations
  BY <1>1, <1>3, <1>4 DEF Operations
<1> QED BY <1>1, <1>2, <1>3, <1>4, <1>5

\* How a step leaves what a context still has to do.
Others(c) ==
  /\ env' = env
  /\ \A d \in Contexts \ {c} : todo'[d] = todo[d] /\ pc'[d] = pc[d]

Finished(c) ==
  /\ todo[c] # <<>> /\ Len(todo[c]) \in Nat /\ Len(todo[c]) > 0
  /\ Head(todo[c]) = todo[c][1] /\ todo[c][1] \in Operations
  /\ Len(todo'[c]) = Len(todo[c]) - 1 /\ (todo'[c] = <<>> <=> Len(todo[c]) = 1)
  /\ \A i \in 1 .. Len(todo[c]) - 1 : todo'[c][i] = todo[c][i + 1]
  /\ todo'[c] # <<>> => Head(todo'[c]) = todo[c][2]
  /\ pc'[c] = "start"

HeadIs(c, op) ==
  /\ todo[c] # <<>> /\ Len(todo[c]) \in Nat /\ Len(todo[c]) > 0
  /\ Head(todo[c]) = todo[c][1] /\ todo[c][1] \in Operations
  /\ Len(todo'[c]) = Len(todo[c]) /\ todo'[c] # <<>>
  /\ Head(todo'[c]) = op /\ todo'[c][1] = op
  /\ \A i \in 2 .. Len(todo[c]) : todo'[c][i] = todo[c][i]

LEMMA FinishOK ==
  ASSUME WorkInv, NEW c \in Contexts, ~Idle(c), Finish(c), env' = env
  PROVE  WorkInv' /\ Others(c) /\ Finished(c)
<1> DEFINE t == Tail(todo[c])
<1>1. /\ todo[c] \in Seq(Operations) /\ todo[c] # <<>>
      /\ todo \in [Contexts -> Seq(Operations)] /\ pc \in [Contexts -> StepNames]
  BY DEF WorkInv, Idle
<1>2. /\ Len(todo[c]) \in Nat /\ Len(todo[c]) > 0
      /\ Head(todo[c]) = todo[c][1] /\ todo[c][1] \in Operations
      /\ t \in Seq(Operations) /\ Len(t) = Len(todo[c]) - 1 /\ (t = <<>> <=> Len(todo[c]) = 1)
      /\ \A i \in 1 .. Len(todo[c]) - 1 : t[i] = todo[c][i + 1]
  BY <1>1, Rest
<1>3. todo' = [todo EXCEPT ![c] = t] /\ pc' = [pc EXCEPT ![c] = "start"]
  BY DEF Finish
<1> HIDE DEF t
<1>4. t # <<>> => Head(t) = todo[c][2]
  <2> SUFFICES ASSUME t # <<>> PROVE Head(t) = todo[c][2]
    OBVIOUS
  <2>1. Head(t) = t[1]
    BY <1>2, Rest
  <2>2. Len(todo[c]) > 1
    BY <1>2
  <2>3. t[1] = todo[c][1 + 1]
    BY <1>2, <2>2
  <2> QED BY <2>1, <2>3
<1>5. todo'[c] = t /\ pc'[c] = "start" /\ Others(c)
  BY <1>1, <1>3 DEF Others
<1>6. Operations' = Operations /\ Values' = Values
  BY EnvTells
<1>7. /\ todo' \in [Contexts -> Seq(Operations)]
      /\ pc' \in [Contexts -> StepNames]
  BY <1>1, <1>2, <1>3 DEF StepNames
<1>8. WorkInv'
  BY <1>5, <1>6, <1>7 DEF WorkInv, Others, Idle, At, Current
<1> QED BY <1>1, <1>2, <1>4, <1>5, <1>8 DEF Finished

LEMMA BecomesOK ==
  ASSUME WorkInv, NEW c \in Contexts, ~Idle(c), NEW op \in Operations, Becomes(c, op), env' = env
  PROVE  WorkInv' /\ Others(c) /\ HeadIs(c, op) /\ pc'[c] = "start"
<1> DEFINE t == <<op>> \o Tail(todo[c])
<1>1. /\ todo[c] \in Seq(Operations) /\ todo[c] # <<>>
      /\ todo \in [Contexts -> Seq(Operations)] /\ pc \in [Contexts -> StepNames]
  BY DEF WorkInv, Idle
<1>2. /\ Len(todo[c]) \in Nat /\ Len(todo[c]) > 0
      /\ Head(todo[c]) = todo[c][1] /\ todo[c][1] \in Operations
  BY <1>1, Rest
<1>3. /\ t \in Seq(Operations) /\ Len(t) = Len(todo[c]) /\ t # <<>> /\ Head(t) = op /\ t[1] = op
      /\ \A i \in 2 .. Len(todo[c]) : t[i] = todo[c][i]
  BY <1>1, Replaced
<1>4. todo' = [todo EXCEPT ![c] = t] /\ pc' = [pc EXCEPT ![c] = "start"]
  BY DEF Becomes
<1> HIDE DEF t
<1>5. todo'[c] = t /\ pc'[c] = "start" /\ Others(c)
  BY <1>1, <1>4 DEF Others
<1>6. Operations' = Operations /\ Values' = Values
  BY EnvTells
<1>7. todo' \in [Contexts -> Seq(Operations)] /\ pc' \in [Contexts -> StepNames]
  BY <1>1, <1>3, <1>4 DEF StepNames
<1>8. WorkInv'
  BY <1>3, <1>5, <1>6, <1>7 DEF WorkInv, Others, Idle, At, Current
<1> QED BY <1>1, <1>2, <1>3, <1>5, <1>8 DEF HeadIs

\* The brightness that was read becomes part of the operation.
LEMMA NotifyOK ==
  ASSUME WorkInv, NEW c \in Contexts, ~Idle(c), ~Rgb, NEW b \in Values, env' = env,
         todo' = [todo EXCEPT ![c][1] = [op |-> "notify", level |-> b]],
         pc' = [pc EXCEPT ![c] = "assign"]
  PROVE  WorkInv' /\ Others(c) /\ HeadIs(c, [op |-> "notify", level |-> b]) /\ pc'[c] = "assign"
<1> DEFINE op == [op |-> "notify", level |-> b]
           t == [todo[c] EXCEPT ![1] = op]
<1>1. /\ todo[c] \in Seq(Operations) /\ todo[c] # <<>>
      /\ todo \in [Contexts -> Seq(Operations)] /\ pc \in [Contexts -> StepNames]
  BY DEF WorkInv, Idle
<1>2. /\ Len(todo[c]) \in Nat /\ Len(todo[c]) > 0
      /\ Head(todo[c]) = todo[c][1] /\ todo[c][1] \in Operations
  BY <1>1, Rest
<1>3. op \in Operations /\ op.op = "notify" /\ op.level \in Values
  BY AreOperations
<1>4. todo' = [todo EXCEPT ![c] = t]
  BY <1>1
<1> HIDE DEF op
<1>5. /\ t \in Seq(Operations) /\ Len(t) = Len(todo[c])
      /\ \A j \in 1 .. Len(todo[c]) : t[j] = IF j = 1 THEN op ELSE todo[c][j]
  <2>1. 1 \in 1 .. Len(todo[c])
    BY <1>2
  <2> QED BY <1>1, <1>3, <2>1, ExceptSeq
<1> HIDE DEF t
<1>6. t[1] = op /\ \A i \in 2 .. Len(todo[c]) : t[i] = todo[c][i]
  BY <1>2, <1>5
<1>7. t # <<>>
  BY <1>2, <1>5, EmptySeq
<1>8. Head(t) = op
  BY <1>5, <1>6, <1>7, Rest
<1>9. todo'[c] = t /\ pc'[c] = "assign" /\ Others(c)
  BY <1>1, <1>4 DEF Others
<1>10. Operations' = Operations /\ Values' = Values
  BY EnvTells
<1>11. todo' \in [Contexts -> Seq(Operations)] /\ pc' \in [Contexts -> StepNames]
  BY <1>1, <1>4, <1>5 DEF StepNames
<1>12. WorkInv'
  BY <1>3, <1>7, <1>8, <1>9, <1>10, <1>11 DEF WorkInv, Others, Idle, At, Current
<1> QED BY <1>1, <1>2, <1>5, <1>6, <1>7, <1>8, <1>9, <1>12 DEF HeadIs, op

LEMMA ContinueOK ==
  ASSUME WorkInv, NEW c \in Contexts, ~Idle(c), NEW step \in StepNames, step # "assign",
         Continue(c, step), env' = env
  PROVE  WorkInv' /\ Others(c) /\ todo' = todo /\ pc'[c] = step
<1>1. Operations' = Operations /\ Values' = Values
  BY EnvTells
<1>2. todo' = todo /\ pc' = [pc EXCEPT ![c] = step] /\ pc'[c] = step /\ Others(c)
  BY DEF Continue, WorkInv, Others
<1> QED BY <1>1, <1>2 DEF WorkInv, Others, Idle, At, Current

LEMMA BeginOK ==
  ASSUME WorkInv, NEW c \in Contexts, NEW ops \in Seq(Operations), Begin(c, ops), env' = env
  PROVE  /\ WorkInv' /\ Others(c) /\ todo'[c] = ops /\ Idle(c) /\ pc'[c] = "start"
         /\ pc' = pc
<1>1. Operations' = Operations /\ Values' = Values
  BY EnvTells
<1>2. /\ todo' = [todo EXCEPT ![c] = ops] /\ pc' = pc /\ todo'[c] = ops /\ Others(c) /\ Idle(c)
      /\ pc[c] = "start"
  BY DEF Begin, WorkInv, Others
<1> QED BY <1>1, <1>2 DEF WorkInv, Others, Idle, At, Current

-----------------------------------------------------------------------------
(***************************************************************************)
(* What suspend, resume, probe, remove and a cycle of colours begin with   *)
(***************************************************************************)

\* A sequence of operations of these kinds, the first of which is one of those.
Fits(t, names, first) ==
  /\ t \in Seq(Operations) /\ Len(t) \in Nat /\ Len(t) > 0 /\ t # <<>>
  /\ Head(t) = t[1] /\ t[1].op \in first
  /\ \A i \in 1 .. Len(t) : t[i].op \in names

Covers(t, name) ==
  \A z \in Zones : \E i \in 1 .. Len(t) : t[i].op = name /\ t[i].zone = z

LEMMA ZoneSeqTypes ==
  /\ Len(ZoneSeq) \in {1, 3} /\ \A i \in 1 .. Len(ZoneSeq) : ZoneSeq[i] \in Zones
  /\ \A z \in Zones : \E i \in 1 .. Len(ZoneSeq) : ZoneSeq[i] = z
<1>1. CASE Zones = {0} /\ ZoneSeq = <<0>>
  BY <1>1
<1>2. CASE Zones = 0 .. 2 /\ ZoneSeq = <<0, 1, 2>>
  <2>1. Len(ZoneSeq) = 3 /\ ZoneSeq[1] = 0 /\ ZoneSeq[2] = 1 /\ ZoneSeq[3] = 2
    BY <1>2
  <2>2. \A i \in 1 .. 3 : i = 1 \/ i = 2 \/ i = 3
    OBVIOUS
  <2>3. \A z \in Zones : z = 0 \/ z = 1 \/ z = 2
    BY <1>2
  <2>4. 0 \in Zones /\ 1 \in Zones /\ 2 \in Zones
    BY <1>2
  <2>5. \A i \in 1 .. Len(ZoneSeq) : ZoneSeq[i] \in Zones
    BY <2>1, <2>2, <2>4
  <2>6. \A z \in Zones : \E i \in 1 .. Len(ZoneSeq) : ZoneSeq[i] = z
    BY <2>1, <2>3
  <2> QED BY <2>1, <2>5, <2>6
<1> QED BY <1>1, <1>2, ZoneTypes

LEMMA ForZonesSeq ==
  ASSUME NEW f, f = [i \in 1 .. Len(ZoneSeq) |-> f[i]],
         \A i \in 1 .. Len(ZoneSeq) : f[i] \in Operations
  PROVE  f \in Seq(Operations) /\ Len(f) = Len(ZoneSeq)
<1>1. Len(ZoneSeq) \in Nat
  BY ZoneSeqTypes
<1>2. f \in [1 .. Len(ZoneSeq) -> Operations]
  BY Zenon
<1> QED BY <1>1, <1>2

LEMMA RestoreFits ==
  /\ Fits(Restore, {"restore"}, {"restore"}) /\ Covers(Restore, "restore")
  /\ Fits(ForZones(SwitchOff), {"off"}, {"off"})
<1>1. /\ Restore \in Seq(Operations) /\ Len(Restore) = Len(ZoneSeq)
      /\ \A i \in 1 .. Len(ZoneSeq) : Restore[i] = RestoreZone(ZoneSeq[i])
  <2>1. Restore = [i \in 1 .. Len(ZoneSeq) |-> RestoreZone(ZoneSeq[i])]
    BY DEF Restore, ForZones
  <2>2. \A i \in 1 .. Len(ZoneSeq) : Restore[i] = RestoreZone(ZoneSeq[i])
    BY <2>1
  <2>3. \A i \in 1 .. Len(ZoneSeq) : Restore[i] \in Operations
    BY <2>2, ZoneSeqTypes, AreOperations
  <2>4. Restore = [i \in 1 .. Len(ZoneSeq) |-> Restore[i]]
    BY <2>1
  <2> QED BY <2>2, <2>3, <2>4, ForZonesSeq
<1>2. /\ ForZones(SwitchOff) \in Seq(Operations) /\ Len(ForZones(SwitchOff)) = Len(ZoneSeq)
      /\ \A i \in 1 .. Len(ZoneSeq) : ForZones(SwitchOff)[i] = SwitchOff(ZoneSeq[i])
  <2> DEFINE f == ForZones(SwitchOff)
  <2>1. f = [i \in 1 .. Len(ZoneSeq) |-> SwitchOff(ZoneSeq[i])]
    BY DEF ForZones
  <2> HIDE DEF f
  <2>2. \A i \in 1 .. Len(ZoneSeq) : f[i] = SwitchOff(ZoneSeq[i])
    BY <2>1
  <2>3. \A i \in 1 .. Len(ZoneSeq) : f[i] \in Operations
    BY <2>2, ZoneSeqTypes, AreOperations
  <2>4. f = [i \in 1 .. Len(ZoneSeq) |-> f[i]]
    BY <2>1
  <2>5. f \in Seq(Operations) /\ Len(f) = Len(ZoneSeq)
    BY <2>3, <2>4, ForZonesSeq
  <2> QED BY <2>2, <2>5 DEF f
<1>3. \A z : RestoreZone(z).op = "restore" /\ RestoreZone(z).zone = z /\ SwitchOff(z).op = "off"
  BY DEF RestoreZone, SwitchOff
<1>4. Len(ZoneSeq) \in Nat /\ Len(ZoneSeq) > 0
  BY ZoneSeqTypes
<1>5. Fits(Restore, {"restore"}, {"restore"})
  <2>1. Restore # <<>>
    BY <1>1, <1>4, EmptySeq
  <2>2. Head(Restore) = Restore[1]
    BY <1>1, <2>1, Rest
  <2> QED BY <1>1, <1>3, <1>4, <2>1, <2>2 DEF Fits
<1>6. Covers(Restore, "restore")
  BY <1>1, <1>3, ZoneSeqTypes DEF Covers
<1>7. Fits(ForZones(SwitchOff), {"off"}, {"off"})
  <2> DEFINE f == ForZones(SwitchOff)
  <2>0. /\ f \in Seq(Operations) /\ Len(f) = Len(ZoneSeq)
        /\ \A i \in 1 .. Len(ZoneSeq) : f[i] = SwitchOff(ZoneSeq[i])
    BY <1>2
  <2> HIDE DEF f
  <2>1. f # <<>>
    BY <1>4, <2>0, EmptySeq
  <2>2. Head(f) = f[1]
    BY <2>0, <2>1, Rest
  <2>3. Fits(f, {"off"}, {"off"})
    BY <1>3, <1>4, <2>0, <2>1, <2>2 DEF Fits
  <2> QED BY <2>3 DEF f
<1> QED BY <1>5, <1>6, <1>7

LEMMA SetColorFits ==
  ASSUME Rgb, NEW color \in Colors
  PROVE  Fits(SetColor(color), {"color"}, {"color"}) /\ Covers(SetColor(color), "color")
<1> DEFINE f == SetColor(color)
<1>1. f = [i \in 1 .. Len(ZoneSeq) |-> Color(ZoneSeq[i], color)]
  BY DEF SetColor, ForZones
<1> HIDE DEF f
<1>2. \A i \in 1 .. Len(ZoneSeq) : f[i] = Color(ZoneSeq[i], color)
  BY <1>1
<1>3. f \in Seq(Operations) /\ Len(f) = Len(ZoneSeq)
  <2>1. \A i \in 1 .. Len(ZoneSeq) : f[i] \in Operations
    BY <1>2, ZoneSeqTypes, AreOperations
  <2>2. f = [i \in 1 .. Len(ZoneSeq) |-> f[i]]
    BY <1>1
  <2> QED BY <2>1, <2>2, ForZonesSeq
<1>4. \A z : Color(z, color).op = "color" /\ Color(z, color).zone = z
  BY DEF Color
<1>5. Len(ZoneSeq) \in Nat /\ Len(ZoneSeq) > 0
  BY ZoneSeqTypes
<1>6. f # <<>>
  BY <1>3, <1>5, EmptySeq
<1>7. Head(f) = f[1]
  BY <1>3, <1>6, Rest
<1>8. Fits(f, {"color"}, {"color"})
  BY <1>2, <1>3, <1>4, <1>5, <1>6, <1>7 DEF Fits
<1>9. Covers(f, "color")
  BY <1>2, <1>3, <1>4, ZoneSeqTypes DEF Covers
<1> QED BY <1>8, <1>9 DEF f

\* Operations that follow.
LEMMA JoinedFits ==
  ASSUME NEW s, NEW names, NEW first, Fits(s, names, first),
         NEW t \in Seq(Operations), NEW more, \A i \in 1 .. Len(t) : t[i].op \in more
  PROVE  /\ Fits(s \o t, names \cup more, first)
         /\ \A name : Covers(s, name) => Covers(s \o t, name)
         /\ Len(t) > 0 => (s \o t)[Len(s \o t)] = t[Len(t)]
<1> DEFINE u == s \o t
<1>1. s \in Seq(Operations) /\ Len(s) > 0 /\ s[1].op \in first
  BY DEF Fits
<1>2. /\ u \in Seq(Operations) /\ Len(u) = Len(s) + Len(t) /\ Len(s) \in Nat /\ Len(t) \in Nat
      /\ \A i \in 1 .. Len(s) : u[i] = s[i]
      /\ \A i \in 1 .. Len(t) : u[Len(s) + i] = t[i]
  BY <1>1, Joined
<1> HIDE DEF u
<1>3. \A i \in 1 .. Len(u) : u[i].op \in names \cup more
  <2>1. ASSUME NEW i \in 1 .. Len(u), i <= Len(s) PROVE u[i].op \in names
    BY <1>2, <2>1 DEF Fits
  <2>2. ASSUME NEW i \in 1 .. Len(u), i > Len(s) PROVE u[i].op \in more
    <3>1. i - Len(s) \in 1 .. Len(t) /\ Len(s) + (i - Len(s)) = i
      BY <1>2, <2>2
    <3> QED BY <1>2, <3>1
  <2>3. \A i \in 1 .. Len(u) : i <= Len(s) \/ i > Len(s)
    BY <1>2
  <2> QED BY <2>1, <2>2, <2>3
<1>4. u # <<>>
  BY <1>1, <1>2, EmptySeq
<1>5. Head(u) = u[1]
  BY <1>2, <1>4, Rest
<1>6. u[1] = s[1]
  BY <1>1, <1>2
<1>7. Fits(u, names \cup more, first)
  BY <1>1, <1>2, <1>3, <1>4, <1>5, <1>6 DEF Fits
<1>8. ASSUME NEW name, Covers(s, name) PROVE Covers(u, name)
  <2> SUFFICES ASSUME NEW z \in Zones PROVE \E i \in 1 .. Len(u) : u[i].op = name /\ u[i].zone = z
    BY DEF Covers
  <2>1. PICK i \in 1 .. Len(s) : s[i].op = name /\ s[i].zone = z
    BY <1>8 DEF Covers
  <2>2. i \in 1 .. Len(u) /\ u[i] = s[i]
    BY <1>2
  <2> QED BY <2>1, <2>2
<1>9. Len(t) > 0 => u[Len(u)] = t[Len(t)]
  <2> SUFFICES ASSUME Len(t) > 0 PROVE u[Len(u)] = t[Len(t)]
    OBVIOUS
  <2>1. Len(t) \in 1 .. Len(t)
    BY <1>2
  <2>2. u[Len(s) + Len(t)] = t[Len(t)] /\ Len(u) = Len(s) + Len(t)
    BY <1>2, <2>1
  <2> QED BY <2>2, Zenon
<1> QED BY <1>7, <1>8, <1>9 DEF u

\* Only suspend begins with switching the keyboard off.
OnlyOn(t) == \A i \in 1 .. Len(t) : t[i].op = "status" => t[i] = StatusOn

LEMMA JoinedOn ==
  ASSUME NEW s \in Seq(Operations), NEW t \in Seq(Operations), OnlyOn(s), OnlyOn(t)
  PROVE  OnlyOn(s \o t)
<1> DEFINE u == s \o t
<1>1. /\ u \in Seq(Operations) /\ Len(u) = Len(s) + Len(t) /\ Len(s) \in Nat /\ Len(t) \in Nat
      /\ \A i \in 1 .. Len(s) : u[i] = s[i]
      /\ \A i \in 1 .. Len(t) : u[Len(s) + i] = t[i]
  BY Joined
<1> HIDE DEF u
<1> SUFFICES ASSUME NEW i \in 1 .. Len(u), u[i].op = "status" PROVE u[i] = StatusOn
  BY DEF OnlyOn, u
<1>2. CASE i <= Len(s)
  BY <1>1, <1>2 DEF OnlyOn
<1>3. CASE i > Len(s)
  <2>1. i - Len(s) \in 1 .. Len(t) /\ Len(s) + (i - Len(s)) = i
    BY <1>1, <1>3
  <2> QED BY <1>1, <2>1 DEF OnlyOn
<1> QED BY <1>1, <1>2, <1>3

LEMMA StatusFacts ==
  /\ StatusOn \in Operations /\ StatusOn.op = "status" /\ StatusOn.on = TRUE
  /\ \A x \in Operations : x.op = "status" /\ x.on = TRUE => x = StatusOn
<1>1. StatusOn \in Operations /\ StatusOn.op = "status" /\ StatusOn.on = TRUE
  BY AreOperations DEF StatusOn, Status
<1>2. ASSUME NEW x \in Operations, x.op = "status", x.on = TRUE PROVE x = StatusOn
  BY <1>2 DEF Operations, StatusOn, Status
<1> QED BY <1>1, <1>2

\* Resume: brightness and colour of each zone, and then the keyboard is enabled.
ResumeOps == Restore \o IF Rgb THEN <<Status(TRUE)>> ELSE <<>>

LEMMA ResumeFits ==
  /\ Fits(ResumeOps, {"restore", "status"}, {"restore"}) /\ Covers(ResumeOps, "restore")
  /\ OnlyOn(ResumeOps)
  /\ Rgb => ResumeOps[Len(ResumeOps)] = StatusOn
<1> DEFINE t == IF Rgb THEN <<StatusOn>> ELSE <<>>
<1>1. ResumeOps = Restore \o t
  BY DEF ResumeOps, StatusOn
<1>2. /\ t \in Seq(Operations) /\ \A i \in 1 .. Len(t) : t[i] = StatusOn
      /\ Rgb => Len(t) = 1 /\ t[1] = StatusOn
  <2>1. CASE Rgb
    BY <2>1, StatusFacts
  <2>2. CASE ~Rgb
    BY <2>2
  <2> QED BY <2>1, <2>2
<1> HIDE DEF t
<1>3. \A i \in 1 .. Len(t) : t[i].op \in {"status"}
  BY <1>2, StatusFacts
<1>4. /\ Fits(Restore \o t, {"restore"} \cup {"status"}, {"restore"}) /\ Covers(Restore \o t, "restore")
      /\ Len(t) > 0 => (Restore \o t)[Len(Restore \o t)] = t[Len(t)]
  BY <1>2, <1>3, RestoreFits, JoinedFits
<1>5. {"restore"} \cup {"status"} = {"restore", "status"}
  OBVIOUS
<1>6. OnlyOn(Restore) /\ OnlyOn(t) /\ Restore \in Seq(Operations)
  BY <1>2, RestoreFits DEF OnlyOn, Fits
<1>7. OnlyOn(Restore \o t)
  BY <1>2, <1>6, JoinedOn
<1>8. Rgb => (Restore \o t)[Len(Restore \o t)] = StatusOn
  <2> SUFFICES ASSUME Rgb PROVE (Restore \o t)[Len(Restore \o t)] = StatusOn
    OBVIOUS
  <2>1. Len(t) = 1 /\ t[1] = StatusOn
    BY <1>2
  <2>2. Len(t) > 0 /\ t[Len(t)] = StatusOn
    BY <2>1
  <2> QED BY <1>4, <2>2, Zenon
<1> QED BY <1>1, <1>4, <1>5, <1>7, <1>8

\* Probe: the colours, the keyboard is enabled, and only then the LEDs exist.
FirstOps == IF Rgb THEN SetColor(Default) \o <<Status(TRUE)>> ELSE <<Brightness(0, led[0])>>
ProbeOps == FirstOps \o <<Op("register"), Mode(0)>>

LEMMA FirstFits ==
  ASSUME TypeInv
  PROVE  /\ Fits(FirstOps, {"color", "brightness", "status"}, {"color", "brightness"})
         /\ OnlyOn(FirstOps)
         /\ Rgb => Covers(FirstOps, "color") /\ FirstOps[Len(FirstOps)] = StatusOn
<1>1. CASE Rgb
  <2> DEFINE s == SetColor(Default)
             t == <<StatusOn>>
  <2>1. FirstOps = s \o t
    BY <1>1 DEF FirstOps, StatusOn
  <2>2. Fits(s, {"color"}, {"color"}) /\ Covers(s, "color")
    BY <1>1, SetColorFits, ColorTypes
  <2>3. t \in Seq(Operations) /\ Len(t) = 1 /\ t[1] = StatusOn
    BY StatusFacts
  <2> HIDE DEF s, t
  <2>4. \A i \in 1 .. Len(t) : t[i].op \in {"status"}
    BY <2>3, StatusFacts
  <2>5. /\ Fits(s \o t, {"color"} \cup {"status"}, {"color"}) /\ Covers(s \o t, "color")
        /\ Len(t) > 0 => (s \o t)[Len(s \o t)] = t[Len(t)]
    BY <2>2, <2>3, <2>4, JoinedFits
  <2>6. OnlyOn(s) /\ OnlyOn(t) /\ s \in Seq(Operations)
    BY <2>2, <2>3 DEF OnlyOn, Fits
  <2>7. OnlyOn(s \o t)
    BY <2>3, <2>6, JoinedOn
  <2>8. Fits(FirstOps, {"color"} \cup {"status"}, {"color"})
    BY <2>1, <2>5
  <2>9. Fits(FirstOps, {"color", "brightness", "status"}, {"color", "brightness"})
    BY <2>8 DEF Fits
  <2> QED BY <2>1, <2>3, <2>5, <2>7, <2>9
<1>2. CASE ~Rgb
  <2>1. FirstOps = <<Brightness(0, led[0])>>
    BY <1>2 DEF FirstOps
  <2>2. led[0] \in Values
    BY ZoneTypes DEF TypeInv, TypeOK
  <2>3. Brightness(0, led[0]) \in Operations /\ Brightness(0, led[0]).op = "brightness"
    BY <2>2, ZoneTypes, AreOperations DEF Brightness
  <2>4. FirstOps \in Seq(Operations) /\ Len(FirstOps) = 1 /\ FirstOps[1].op = "brightness"
    BY <2>1, <2>3
  <2>5. FirstOps # <<>>
    <3>1. Len(FirstOps) # 0
      BY <2>4
    <3> QED BY <2>4, <3>1, EmptySeq, Zenon
  <2>6. Head(FirstOps) = FirstOps[1]
    BY <2>4, <2>5, Rest
  <2> QED BY <1>2, <2>4, <2>5, <2>6 DEF Fits, OnlyOn
<1> QED BY <1>1, <1>2

LEMMA ProbeFits ==
  ASSUME TypeInv
  PROVE  /\ Fits(ProbeOps, {"color", "brightness", "status", "register", "mode"},
                 {"color", "brightness"})
         /\ OnlyOn(ProbeOps)
         /\ Rgb => Covers(ProbeOps, "color")
         /\ Rgb => \A i \in 1 .. Len(ProbeOps) : ProbeOps[i].op = "register" =>
                     \E j \in 1 .. i - 1 : ProbeOps[j].op = "status"
<1> DEFINE s == FirstOps
           t == <<Op("register"), Mode(0)>>
           u == ProbeOps
<1>1. u = s \o t
  BY DEF ProbeOps
<1>2. /\ Fits(s, {"color", "brightness", "status"}, {"color", "brightness"}) /\ OnlyOn(s)
      /\ Rgb => Covers(s, "color") /\ s[Len(s)] = StatusOn
  BY FirstFits
<1>3. t \in Seq(Operations) /\ \A i \in 1 .. Len(t) : t[i].op \in {"register", "mode"}
  <2>1. /\ Op("register") \in Operations /\ Op("register").op = "register"
        /\ Mode(0) \in Operations /\ Mode(0).op = "mode"
    BY AreOperations, ClevoAssumption DEF Op, Mode
  <2> DEFINE a == Op("register")
             b == Mode(0)
  <2> HIDE DEF a, b
  <2>2. <<a, b>> \in Seq(Operations) /\ Len(<<a, b>>) = 2 /\ <<a, b>>[1] = a /\ <<a, b>>[2] = b
    BY <2>1 DEF a, b
  <2>3. \A i \in 1 .. 2 : i = 1 \/ i = 2
    OBVIOUS
  <2>4. \A i \in 1 .. Len(<<a, b>>) : <<a, b>>[i].op \in {"register", "mode"}
    BY <2>1, <2>2, <2>3 DEF a, b
  <2> QED BY <2>2, <2>4 DEF a, b
<1> HIDE DEF s, t
<1>4. /\ Fits(s \o t, {"color", "brightness", "status"} \cup {"register", "mode"},
              {"color", "brightness"})
      /\ Covers(s, "color") => Covers(s \o t, "color")
  BY <1>2, <1>3, JoinedFits
<1>5. s \in Seq(Operations) /\ OnlyOn(t) /\ Len(s) > 0
  BY <1>2, <1>3 DEF Fits, OnlyOn
<1>6. OnlyOn(s \o t)
  BY <1>2, <1>3, <1>5, JoinedOn
<1>7. {"color", "brightness", "status"} \cup {"register", "mode"}
        = {"color", "brightness", "status", "register", "mode"}
  OBVIOUS
<1>8. /\ Len(s) \in Nat /\ Len(t) \in Nat /\ Len(s \o t) = Len(s) + Len(t)
      /\ \A i \in 1 .. Len(s) : (s \o t)[i] = s[i]
  BY <1>3, <1>5, Joined
<1>9. /\ Fits(u, {"color", "brightness", "status", "register", "mode"}, {"color", "brightness"})
      /\ OnlyOn(u) /\ (Covers(s, "color") => Covers(u, "color"))
      /\ Len(u) = Len(s) + Len(t)
      /\ \A i \in 1 .. Len(s) : u[i] = s[i]
  BY <1>1, <1>4, <1>6, <1>7, <1>8, Zenon
<1> HIDE DEF u
<1>10. ASSUME Rgb, NEW i \in 1 .. Len(u), u[i].op = "register"
       PROVE  \E j \in 1 .. i - 1 : u[j].op = "status"
  <2>1. ~(i <= Len(s))
    <3> SUFFICES ASSUME i <= Len(s) PROVE FALSE
      OBVIOUS
    <3>1. i \in 1 .. Len(s)
      BY <1>8
    <3>2. u[i] = s[i] /\ s[i].op \in {"color", "brightness", "status"}
      BY <1>2, <1>9, <3>1 DEF Fits
    <3> QED BY <1>10, <3>2
  <2>2. Len(s) \in 1 .. i - 1 /\ Len(s) \in 1 .. Len(s)
    BY <1>5, <1>8, <1>9, <2>1
  <2>3. u[Len(s)] = StatusOn
    BY <1>2, <1>9, <1>10, <2>2
  <2> QED BY <2>2, <2>3, StatusFacts
<1> QED BY <1>2, <1>9, <1>10 DEF u

\* Remove: each zone is switched off, and then they go.
RemoveOps == IF registered THEN ForZones(SwitchOff) \o <<Op("unregister")>> ELSE <<>>

LEMMA RemoveFits ==
  /\ registered => /\ Fits(RemoveOps, {"off", "unregister"}, {"off"})
                   /\ RemoveOps[Len(RemoveOps)].op = "unregister"
  /\ ~registered => RemoveOps = <<>>
  /\ RemoveOps \in Seq(Operations) /\ Len(RemoveOps) \in Nat
  /\ \A i \in 1 .. Len(RemoveOps) : RemoveOps[i].op \in {"off", "unregister"}
<1>1. CASE registered
  <2> DEFINE s == ForZones(SwitchOff)
             t == <<Op("unregister")>>
             u == RemoveOps
  <2>1. u = s \o t
    BY <1>1 DEF RemoveOps
  <2>2. Fits(s, {"off"}, {"off"})
    BY RestoreFits
  <2>3. t \in Seq(Operations) /\ Len(t) = 1 /\ t[1].op = "unregister"
    BY AreOperations DEF Op
  <2> HIDE DEF s, t
  <2>4. \A i \in 1 .. Len(t) : t[i].op \in {"unregister"}
    BY <2>3
  <2>5. /\ Fits(s \o t, {"off"} \cup {"unregister"}, {"off"})
        /\ Len(t) > 0 => (s \o t)[Len(s \o t)] = t[Len(t)]
    BY <2>2, <2>3, <2>4, JoinedFits
  <2>6. {"off"} \cup {"unregister"} = {"off", "unregister"}
    OBVIOUS
  <2>7. Fits(u, {"off", "unregister"}, {"off"}) /\ u[Len(u)] = t[Len(t)]
    <3>1. Len(t) > 0
      BY <2>3
    <3> QED BY <2>1, <2>5, <2>6, <3>1, Zenon
  <2> HIDE DEF u
  <2>8. u[Len(u)].op = "unregister"
    BY <2>3, <2>7
  <2> QED BY <1>1, <2>7, <2>8 DEF Fits, u
<1>2. CASE ~registered
  <2>1. RemoveOps = <<>>
    BY <1>2 DEF RemoveOps
  <2> QED BY <1>2, <2>1
<1> QED BY <1>1, <1>2

\* A cycle of colours: the next one for each zone, which is then remembered.
NextId == IF color_id + 1 >= Len(ColorList) THEN 1 ELSE color_id + 1
CycleOps == SetColor(ColorOf(NextId)) \o <<Cycled(NextId)>>

LEMMA CycleFits ==
  ASSUME TypeInv, Rgb
  PROVE  Fits(CycleOps, {"color", "cycled"}, {"color"}) /\ Covers(CycleOps, "color")
<1> DEFINE s == SetColor(ColorOf(NextId))
           t == <<Cycled(NextId)>>
<1>1. CycleOps = s \o t
  BY DEF CycleOps
<1>2. NextId \in ColorIds
  BY ClevoAssumption DEF NextId, ColorIds, TypeInv, TypeOK
<1>3. Fits(s, {"color"}, {"color"}) /\ Covers(s, "color")
  BY <1>2, SetColorFits, ColorTypes
<1>4. t \in Seq(Operations) /\ Len(t) = 1 /\ t[1].op = "cycled"
  BY <1>2, AreOperations DEF Cycled
<1> HIDE DEF s, t
<1>5. \A i \in 1 .. Len(t) : t[i].op \in {"cycled"}
  BY <1>4
<1>6. Fits(s \o t, {"color"} \cup {"cycled"}, {"color"}) /\ Covers(s \o t, "color")
  BY <1>3, <1>4, <1>5, JoinedFits
<1>7. {"color"} \cup {"cycled"} = {"color", "cycled"}
  OBVIOUS
<1> QED BY <1>1, <1>6, <1>7

-----------------------------------------------------------------------------
(***************************************************************************)
(* Types                                                                   *)
(***************************************************************************)

\* The operation that is performed, and what it names.
LEMMA CurrentFits ==
  ASSUME WorkInv, NEW c \in Contexts, ~Idle(c)
  PROVE  /\ Current(c) \in Operations /\ Current(c) = todo[c][1]
         /\ Len(todo[c]) \in Nat /\ Len(todo[c]) > 0 /\ todo[c] \in Seq(Operations)
         /\ Current(c).op = "brightness" => Current(c).zone \in Zones /\ Current(c).level \in Values
         /\ Current(c).op \in {"off", "restore", "color", "send"} => Current(c).zone \in Zones
         /\ Current(c).op = "color" => Current(c).color \in Colors
         /\ Current(c).op = "send" => Current(c).color \in Triples
         /\ Current(c).op = "status" => Current(c).on \in BOOLEAN
         /\ Current(c).op = "mode" => Current(c).mode \in Modes
         /\ Current(c).op = "cycled" => Current(c).id \in ColorIds
         /\ Current(c).op = "notify" => ~Rgb
<1>1. todo[c] \in Seq(Operations) /\ todo[c] # <<>>
  BY DEF WorkInv, Idle
<1>2. Current(c) \in Operations /\ Current(c) = todo[c][1] /\ Len(todo[c]) \in Nat /\ Len(todo[c]) > 0
  BY <1>1, Rest DEF Current
<1> QED BY <1>1, <1>2, OperationFields

\* What of the types depends on the environment and the variables alone.
DataInv ==
  /\ bright \in Values /\ bright <= 255 /\ lit \in BOOLEAN /\ effect \in Modes
  /\ shown \in [Zones -> Triples] /\ led \in [Zones -> Values]
  /\ intensity \in [Zones -> Colors] /\ mode \in Modes /\ color_id \in ColorIds
  /\ registered \in BOOLEAN /\ bound \in BOOLEAN /\ keyEvent \in BOOLEAN
  /\ power \in {"awake", "suspending", "asleep", "waking", "resuming"}

LEMMA TypeParts ==
  /\ TypeInv <=> env \in Environments /\ DataInv /\ WorkInv
  /\ TypeInv' <=> env' \in Environments /\ DataInv' /\ WorkInv'
<1>1. TypeInv <=> env \in Environments /\ DataInv /\ WorkInv
  <2>1. ASSUME TypeInv PROVE env \in Environments /\ DataInv /\ WorkInv
    BY <2>1 DEF TypeInv, TypeOK, DataInv
  <2>2. ASSUME env \in Environments, DataInv, WorkInv PROVE TypeInv
    <3>1. \A z \in Zones : Sent(intensity[z]) \in Triples
      BY <2>2, ColorTypes DEF DataInv
    <3>2. \A c \in Contexts : pc[c] \in StepNames
      BY <2>2 DEF WorkInv
    <3> QED BY <2>2, <3>1, <3>2 DEF TypeInv, TypeOK, DataInv, StepNames
  <2> QED BY <2>1, <2>2
<1>2. TypeInv' <=> env' \in Environments /\ DataInv' /\ WorkInv'
  <2>1. ASSUME TypeInv' PROVE env' \in Environments /\ DataInv' /\ WorkInv'
    BY <2>1 DEF TypeInv, TypeOK, DataInv
  <2>2. ASSUME env' \in Environments, DataInv', WorkInv' PROVE TypeInv'
    <3>1. (\A z \in Zones : Sent(intensity[z]) \in Triples)'
      <4>1. (\A c \in Colors : Sent(c) \in Triples)'
        BY ColorTypes, PTL
      <4> QED BY <2>2, <4>1 DEF DataInv
    <3>2. \A c \in Contexts : pc'[c] \in StepNames
      BY <2>2 DEF WorkInv
    <3> QED BY <2>2, <3>1, <3>2 DEF TypeInv, TypeOK, DataInv, StepNames
  <2> QED BY <2>1, <2>2
<1> QED BY <1>1, <1>2

LEMMA StoreFits ==
  ASSUME TypeInv, NEW z \in Zones, NEW b \in Levels, Store(z, b)
  PROVE  /\ TypeInv' /\ Others("sysfs") /\ Idle("sysfs") /\ pc' = pc
         /\ todo'["sysfs"] = <<Brightness(z, b)>>
<1>1. Brightness(z, b) \in Operations /\ env' = env /\ DataInv /\ env \in Environments /\ WorkInv
  BY AreOperations, TypeParts, ValueFacts DEF Store
<1>2. <<Brightness(z, b)>> \in Seq(Operations)
  BY <1>1
<1>3. /\ WorkInv' /\ Others("sysfs") /\ todo'["sysfs"] = <<Brightness(z, b)>>
      /\ Idle("sysfs") /\ pc' = pc
  BY <1>1, <1>2, BeginOK DEF Store, Contexts
<1>4. DataInv'
  BY <1>1, EnvTells, ValueFacts DEF Store, DataInv, firmware, world, ColorIds, Colors, ColorOf
<1> QED BY <1>1, <1>3, <1>4, TypeParts

LEMMA StoreIntensityFits ==
  ASSUME TypeInv, NEW z \in Zones, NEW id \in ColorIds, StoreIntensity(z, id)
  PROVE  /\ TypeInv' /\ Others("sysfs") /\ Idle("sysfs") /\ pc' = pc
         /\ todo'["sysfs"] = <<Brightness(z, led[z])>>
<1>1. led[z] \in Values /\ env' = env /\ DataInv /\ env \in Environments /\ WorkInv
  BY TypeParts DEF StoreIntensity, DataInv
<1>2. <<Brightness(z, led[z])>> \in Seq(Operations)
  BY <1>1, AreOperations
<1>3. /\ WorkInv' /\ Others("sysfs") /\ todo'["sysfs"] = <<Brightness(z, led[z])>>
      /\ Idle("sysfs") /\ pc' = pc
  BY <1>1, <1>2, BeginOK DEF StoreIntensity, Contexts
<1>4. ColorOf(id) \in Colors
  BY ColorTypes
<1>5. DataInv'
  BY <1>1, <1>4, EnvTells DEF StoreIntensity, DataInv, firmware, world, ColorIds, Colors, ColorOf
<1> QED BY <1>1, <1>3, <1>5, TypeParts

LEMMA StoreModeFits ==
  ASSUME TypeInv, NEW m \in Modes, StoreMode(m)
  PROVE  /\ TypeInv' /\ Others("sysfs") /\ Idle("sysfs") /\ pc' = pc
         /\ todo'["sysfs"] = <<Mode(m)>>
<1>1. env' = env /\ DataInv /\ env \in Environments /\ WorkInv
  BY TypeParts DEF StoreMode
<1>2. <<Mode(m)>> \in Seq(Operations)
  BY AreOperations
<1>3. /\ WorkInv' /\ Others("sysfs") /\ todo'["sysfs"] = <<Mode(m)>>
      /\ Idle("sysfs") /\ pc' = pc
  BY <1>1, <1>2, BeginOK DEF StoreMode, Contexts
<1>4. DataInv'
  BY <1>1, EnvTells DEF StoreMode, DataInv, firmware, memory, world, ColorIds, Colors, ColorOf
<1> QED BY <1>1, <1>3, <1>4, TypeParts

LEMMA FnKeyFits ==
  ASSUME TypeInv, NEW b \in Levels, FnKey(b)
  PROVE  TypeInv' /\ env' = env /\ todo' = todo /\ pc' = pc
<1>1. env' = env /\ todo' = todo /\ pc' = pc /\ DataInv /\ env \in Environments /\ WorkInv
  BY TypeParts DEF FnKey
<1>2. DataInv'
  BY <1>1, EnvTells, ValueFacts DEF FnKey, DataInv, memory, ColorIds, Colors, ColorOf
<1>3. WorkInv'
  BY <1>1, EnvTells DEF WorkInv, Idle, At, Current
<1> QED BY <1>1, <1>2, <1>3, TypeParts

\* Sleep, wake and thaw begin nothing.
LEMMA PowerFits ==
  ASSUME TypeInv, Sleep \/ Wake \/ Thaw
  PROVE  TypeInv' /\ env' = env /\ todo' = todo /\ pc' = pc
<1>1. env' = env /\ todo' = todo /\ pc' = pc /\ DataInv /\ env \in Environments /\ WorkInv
  BY TypeParts DEF Sleep, Wake, Thaw
<1>2. DataInv'
  <2>1. CASE Sleep
    BY <1>1, <2>1, EnvTells DEF Sleep, DataInv, firmware, memory, ColorIds, Colors, ColorOf
  <2>2. CASE Wake
    <3>1. bright' \in Values /\ bright' <= 255
      BY <1>1, <2>2, ValueFacts DEF Wake, DataInv
    <3>2. [z \in Zones |-> Sent(Default)] \in [Zones -> Triples]
      BY ColorTypes
    <3>3. shown' \in [Zones -> Triples]
      BY <1>1, <2>2, <3>2 DEF Wake, DataInv
    <3> QED BY <1>1, <2>2, <3>1, <3>3, EnvTells DEF Wake, DataInv, memory, ColorIds, Colors, ColorOf
  <2>3. CASE Thaw
    BY <1>1, <2>3, EnvTells DEF Thaw, DataInv, firmware, memory, ColorIds, Colors, ColorOf
  <2> QED BY <2>1, <2>2, <2>3
<1>3. WorkInv'
  BY <1>1, EnvTells DEF WorkInv, Idle, At, Current
<1> QED BY <1>1, <1>2, <1>3, TypeParts

LEMMA BrightnessEventFits ==
  ASSUME TypeInv, BrightnessEvent
  PROVE  /\ TypeInv' /\ Others("event") /\ Idle("event") /\ pc' = pc
         /\ todo'["event"] = <<Op("notify")>>
<1>1. env' = env /\ DataInv /\ env \in Environments /\ WorkInv
  BY TypeParts DEF BrightnessEvent
<1>2. <<Op("notify")>> \in Seq(Operations)
  BY AreOperations DEF BrightnessEvent
<1>3. /\ WorkInv' /\ Others("event") /\ todo'["event"] = <<Op("notify")>>
      /\ Idle("event") /\ pc' = pc
  BY <1>1, <1>2, BeginOK DEF BrightnessEvent, Contexts
<1>4. DataInv'
  BY <1>1, EnvTells DEF BrightnessEvent, DataInv, firmware, memory, ColorIds, Colors, ColorOf
<1> QED BY <1>1, <1>3, <1>4, TypeParts

LEMMA CycleEventFits ==
  ASSUME TypeInv, CycleEvent
  PROVE  /\ TypeInv' /\ Others("event") /\ Idle("event") /\ pc' = pc
         /\ todo'["event"] = CycleOps
<1>1. env' = env /\ DataInv /\ env \in Environments /\ WorkInv /\ Rgb
  BY TypeParts DEF CycleEvent
<1>2. CycleOps \in Seq(Operations) /\ Begin("event", CycleOps)
  BY <1>1, CycleFits DEF Fits, CycleOps, NextId, CycleEvent
<1>3. /\ WorkInv' /\ Others("event") /\ todo'["event"] = CycleOps
      /\ Idle("event") /\ pc' = pc
  BY <1>1, <1>2, BeginOK DEF Contexts
<1>4. DataInv'
  BY <1>1, EnvTells DEF CycleEvent, DataInv, firmware, memory, world, ColorIds, Colors, ColorOf
<1> QED BY <1>1, <1>3, <1>4, TypeParts

SuspendOps == IF Rgb THEN <<Status(FALSE)>> ELSE <<>>

LEMMA SuspendFits ==
  ASSUME TypeInv, Suspend
  PROVE  /\ TypeInv' /\ Others("pm") /\ Idle("pm") /\ pc' = pc
         /\ todo'["pm"] = SuspendOps
<1>1. env' = env /\ DataInv /\ env \in Environments /\ WorkInv
  BY TypeParts DEF Suspend
<1>2. SuspendOps \in Seq(Operations) /\ Begin("pm", SuspendOps)
  <2> DEFINE a == Status(FALSE)
  <2>1. a \in Operations
    BY AreOperations
  <2> HIDE DEF a
  <2>2. <<a>> \in Seq(Operations) /\ <<>> \in Seq(Operations)
    BY <2>1
  <2> QED BY <2>2 DEF SuspendOps, Suspend, a
<1>3. /\ WorkInv' /\ Others("pm") /\ todo'["pm"] = SuspendOps
      /\ Idle("pm") /\ pc' = pc
  BY <1>1, <1>2, BeginOK DEF Contexts
<1>4. DataInv'
  BY <1>1, EnvTells DEF Suspend, DataInv, firmware, memory, ColorIds, Colors, ColorOf
<1> QED BY <1>1, <1>3, <1>4, TypeParts

LEMMA ResumeTypes ==
  ASSUME TypeInv, Resume
  PROVE  /\ TypeInv' /\ Others("pm") /\ Idle("pm") /\ pc' = pc
         /\ todo'["pm"] = ResumeOps
<1>1. env' = env /\ DataInv /\ env \in Environments /\ WorkInv
  BY TypeParts DEF Resume
<1>2. ResumeOps \in Seq(Operations) /\ Begin("pm", ResumeOps)
  BY ResumeFits DEF Fits, ResumeOps, Resume
<1>3. /\ WorkInv' /\ Others("pm") /\ todo'["pm"] = ResumeOps
      /\ Idle("pm") /\ pc' = pc
  BY <1>1, <1>2, BeginOK DEF Contexts
<1>4. DataInv'
  BY <1>1, EnvTells DEF Resume, DataInv, firmware, memory, ColorIds, Colors, ColorOf
<1> QED BY <1>1, <1>3, <1>4, TypeParts

LEMMA ProbeTypes ==
  ASSUME TypeInv, Probe
  PROVE  /\ TypeInv' /\ Others("driver") /\ Idle("driver") /\ pc' = pc
         /\ todo'["driver"] = ProbeOps
<1>1. env' = env /\ DataInv /\ env \in Environments /\ WorkInv
  BY TypeParts DEF Probe
<1>2. ProbeOps \in Seq(Operations) /\ Begin("driver", ProbeOps)
  BY ProbeFits DEF Fits, ProbeOps, FirstOps, Probe
<1>3. /\ WorkInv' /\ Others("driver") /\ todo'["driver"] = ProbeOps
      /\ Idle("driver") /\ pc' = pc
  BY <1>1, <1>2, BeginOK DEF Contexts
<1>4. DataInv'
  BY <1>1, EnvTells DEF Probe, DataInv, firmware, memory, ColorIds, Colors, ColorOf
<1> QED BY <1>1, <1>3, <1>4, TypeParts

LEMMA RemoveTypes ==
  ASSUME TypeInv, Remove
  PROVE  /\ TypeInv' /\ Others("driver") /\ Idle("driver") /\ pc' = pc
         /\ todo'["driver"] = RemoveOps
<1>1. env' = env /\ DataInv /\ env \in Environments /\ WorkInv
  BY TypeParts DEF Remove
<1>2. RemoveOps \in Seq(Operations) /\ Begin("driver", RemoveOps)
  BY RemoveFits DEF RemoveOps, Remove
<1>3. /\ WorkInv' /\ Others("driver") /\ todo'["driver"] = RemoveOps
      /\ Idle("driver") /\ pc' = pc
  BY <1>1, <1>2, BeginOK DEF Contexts
<1>4. DataInv'
  BY <1>1, EnvTells DEF Remove, DataInv, firmware, memory, ColorIds, Colors, ColorOf
<1> QED BY <1>1, <1>3, <1>4, TypeParts

\* The operations, one method call at a time: what each leaves to do.
LEMMA StartRestoreFits ==
  ASSUME TypeInv, NEW c \in Contexts, StartRestore(c)
  PROVE  /\ TypeInv' /\ Others(c) /\ pc'[c] = "start"
         /\ HeadIs(c, Brightness(Current(c).zone, led[Current(c).zone]))
         /\ Current(c).zone \in Zones
<1> DEFINE z == Current(c).zone
           op == Brightness(z, led[z])
<1>1. env' = env /\ DataInv /\ env \in Environments /\ WorkInv /\ ~Idle(c)
  BY TypeParts DEF StartRestore, At
<1>2. z \in Zones
  BY <1>1, CurrentFits DEF StartRestore, At, Current
<1>3. led[z] \in Values
  BY <1>1, <1>2 DEF DataInv
<1> HIDE DEF z
<1>4. op \in Operations
  BY <1>2, <1>3, AreOperations
<1>5. Becomes(c, op)
  BY DEF StartRestore, z
<1> HIDE DEF op
<1>6. WorkInv' /\ Others(c) /\ HeadIs(c, op) /\ pc'[c] = "start"
  BY <1>1, <1>4, <1>5, BecomesOK
<1>7. DataInv'
  BY <1>1, EnvTells DEF StartRestore, DataInv, firmware, memory, world, ColorIds, Colors, ColorOf
<1> QED BY <1>1, <1>2, <1>6, <1>7, TypeParts DEF op, z

LEMMA StartOffFits ==
  ASSUME TypeInv, NEW c \in Contexts, StartOff(c)
  PROVE  /\ TypeInv' /\ Others(c) /\ pc'[c] = "start"
         /\ HeadIs(c, Brightness(Current(c).zone, 0))
         /\ Current(c).zone \in Zones
<1> DEFINE z == Current(c).zone
           op == Brightness(z, 0)
<1>1. env' = env /\ DataInv /\ env \in Environments /\ WorkInv /\ ~Idle(c)
  BY TypeParts DEF StartOff, At
<1>2. z \in Zones
  BY <1>1, CurrentFits DEF StartOff, At, Current
<1>3. 0 \in Values
  BY ValueFacts
<1>4. Becomes(c, op) /\ led' = [led EXCEPT ![z] = 0]
  BY DEF StartOff
<1> HIDE DEF z
<1>5. op \in Operations
  BY <1>2, <1>3, AreOperations
<1> HIDE DEF op
<1>6. WorkInv' /\ Others(c) /\ HeadIs(c, op) /\ pc'[c] = "start"
  BY <1>1, <1>4, <1>5, BecomesOK
<1>7. DataInv'
  BY <1>1, <1>3, <1>4, EnvTells DEF StartOff, DataInv, firmware, world, ColorIds, Colors, ColorOf
<1> QED BY <1>1, <1>2, <1>6, <1>7, TypeParts DEF op, z

LEMMA StartColorFits ==
  ASSUME TypeInv, NEW c \in Contexts, StartColor(c)
  PROVE  /\ TypeInv' /\ Others(c) /\ pc'[c] = "start"
         /\ HeadIs(c, Brightness(Current(c).zone, led[Current(c).zone]))
         /\ Current(c).zone \in Zones
<1> DEFINE z == Current(c).zone
           op == Brightness(z, led[z])
           color == Current(c).color
<1>1. env' = env /\ DataInv /\ env \in Environments /\ WorkInv /\ ~Idle(c)
  BY TypeParts DEF StartColor, At
<1>2. z \in Zones /\ color \in Colors
  BY <1>1, CurrentFits DEF StartColor, At, Current
<1>3. led[z] \in Values
  BY <1>1, <1>2 DEF DataInv
<1>4. Becomes(c, op) /\ intensity' = [intensity EXCEPT ![z] = color]
  BY DEF StartColor
<1> HIDE DEF z, color
<1>5. op \in Operations
  BY <1>2, <1>3, AreOperations
<1> HIDE DEF op
<1>6. WorkInv' /\ Others(c) /\ HeadIs(c, op) /\ pc'[c] = "start"
  BY <1>1, <1>4, <1>5, BecomesOK
<1>7. DataInv'
  BY <1>1, <1>2, <1>4, EnvTells DEF StartColor, DataInv, firmware, world, ColorIds, Colors, ColorOf
<1> QED BY <1>1, <1>2, <1>6, <1>7, TypeParts DEF op, z

LEMMA CallBrightnessFits ==
  ASSUME TypeInv, NEW c \in Contexts, CallBrightness(c)
  PROVE  /\ TypeInv' /\ Others(c) /\ env' = env /\ ~Idle(c)
         /\ \/ todo' = todo /\ pc'[c] = AssignStep[0]
            \/ Finished(c) /\ env.faults
<1>1. env' = env /\ DataInv /\ env \in Environments /\ WorkInv /\ ~Idle(c)
  BY TypeParts DEF CallBrightness, At
<1>2. Current(c).level \in Values
  BY <1>1, CurrentFits DEF CallBrightness, At, Current
<1>3. DataInv'
  BY <1>1, <1>2, EnvTells, ValueFacts DEF CallBrightness, DataInv, memory, world, ColorIds, Colors, ColorOf
<1>4. CASE bright' = Byte(Current(c).level) /\ Continue(c, AssignStep[0])
  <2>1. AssignStep[0] \in StepNames /\ AssignStep[0] # "assign"
    BY DEF AssignStep, StepNames
  <2>2. WorkInv' /\ Others(c) /\ todo' = todo /\ pc'[c] = AssignStep[0]
    BY <1>1, <1>4, <2>1, ContinueOK
  <2> QED BY <1>1, <1>3, <2>2, TypeParts
<1>5. CASE env.faults /\ Finish(c)
  BY <1>1, <1>3, <1>5, FinishOK, TypeParts
<1> QED BY <1>4, <1>5 DEF CallBrightness

LEMMA StepFacts ==
  /\ \A k \in 0 .. 2 : AssignStep[k] \in StepNames
                       /\ AssignStep[k] \notin {"start", "assign", "color"}
  /\ \A j, k \in 0 .. 2 : AssignStep[j] = AssignStep[k] => j = k
  /\ Zones \subseteq 0 .. 2
<1>1. AssignStep[0] = "assign0" /\ AssignStep[1] = "assign1" /\ AssignStep[2] = "assign2"
  BY DEF AssignStep
<1>2. \A k \in 0 .. 2 : k = 0 \/ k = 1 \/ k = 2
  OBVIOUS
<1>3. Zones \subseteq 0 .. 2
  BY ZoneTypes
<1> QED BY <1>1, <1>2, <1>3 DEF StepNames

LEMMA AssignBrightnessFits ==
  ASSUME TypeInv, NEW c \in Contexts, NEW z \in Zones, AssignBrightness(c, z)
  PROVE  /\ TypeInv' /\ Others(c) /\ ~Idle(c)
         /\ \/ z + 1 \in Zones /\ todo' = todo /\ pc'[c] = AssignStep[z + 1]
            \/ z + 1 \notin Zones /\ Rgb /\ todo' = todo /\ pc'[c] = "color"
            \/ z + 1 \notin Zones /\ ~Rgb /\ Finished(c)
<1>1. env' = env /\ DataInv /\ env \in Environments /\ WorkInv /\ ~Idle(c)
  BY TypeParts DEF AssignBrightness, At
<1>2. Current(c).level \in Values
  BY <1>1, CurrentFits DEF AssignBrightness, At, Current
<1>3. DataInv'
  BY <1>1, <1>2, EnvTells DEF AssignBrightness, DataInv, firmware, world, ColorIds, Colors, ColorOf
<1>4. CASE z + 1 \in Zones
  <2>1. AssignStep[z + 1] \in StepNames /\ AssignStep[z + 1] # "assign"
    BY <1>4, StepFacts
  <2>2. Continue(c, AssignStep[z + 1])
    BY <1>4 DEF AssignBrightness
  <2>3. WorkInv' /\ Others(c) /\ todo' = todo /\ pc'[c] = AssignStep[z + 1]
    BY <1>1, <2>1, <2>2, ContinueOK
  <2> QED BY <1>1, <1>3, <1>4, <2>3, TypeParts
<1>5. CASE z + 1 \notin Zones /\ Rgb
  <2>1. "color" \in StepNames /\ Continue(c, "color")
    BY <1>5 DEF AssignBrightness, StepNames
  <2>2. WorkInv' /\ Others(c) /\ todo' = todo /\ pc'[c] = "color"
    BY <1>1, <2>1, ContinueOK
  <2> QED BY <1>1, <1>3, <1>5, <2>2, TypeParts
<1>6. CASE z + 1 \notin Zones /\ ~Rgb
  <2>1. Finish(c)
    BY <1>6 DEF AssignBrightness
  <2> QED BY <1>1, <1>3, <1>6, <2>1, FinishOK, TypeParts
<1> QED BY <1>4, <1>5, <1>6

LEMMA ReadIntensityFits ==
  ASSUME TypeInv, NEW c \in Contexts, ReadIntensity(c)
  PROVE  /\ TypeInv' /\ Others(c) /\ pc'[c] = "start"
         /\ HeadIs(c, [op |-> "send", zone |-> Current(c).zone,
                       color |-> Sent(intensity[Current(c).zone])])
         /\ Current(c).zone \in Zones
<1> DEFINE z == Current(c).zone
           op == [op |-> "send", zone |-> z, color |-> Sent(intensity[z])]
<1>1. env' = env /\ DataInv /\ env \in Environments /\ WorkInv /\ ~Idle(c)
  BY TypeParts DEF ReadIntensity, At
<1>2. z \in Zones
  BY <1>1, CurrentFits DEF ReadIntensity, At, Current
<1>3. Sent(intensity[z]) \in Triples
  BY <1>1, <1>2, ColorTypes DEF DataInv
<1>4. Becomes(c, op)
  BY DEF ReadIntensity
<1> HIDE DEF z
<1>5. op \in Operations
  BY <1>2, <1>3, AreOperations
<1> HIDE DEF op
<1>6. WorkInv' /\ Others(c) /\ HeadIs(c, op) /\ pc'[c] = "start"
  BY <1>1, <1>4, <1>5, BecomesOK
<1>7. DataInv'
  BY <1>1, EnvTells DEF ReadIntensity, DataInv, firmware, memory, world, ColorIds, Colors, ColorOf
<1> QED BY <1>1, <1>2, <1>6, <1>7, TypeParts DEF op, z

LEMMA CallNotifyFits ==
  ASSUME TypeInv, NEW c \in Contexts, CallNotify(c)
  PROVE  /\ TypeInv' /\ Others(c) /\ pc'[c] = "assign"
         /\ \E b \in Values : /\ HeadIs(c, [op |-> "notify", level |-> b])
                              /\ ~env.faults => b = bright
<1>1. env' = env /\ DataInv /\ env \in Environments /\ WorkInv /\ ~Idle(c)
  BY TypeParts DEF CallNotify, At
<1>2. PICK b \in {bright} \cup IF env.faults THEN Garbage ELSE {} :
        todo' = [todo EXCEPT ![c][1] = [op |-> "notify", level |-> b]]
  BY DEF CallNotify
<1>3. ~Rgb
  BY <1>1, CurrentFits DEF CallNotify, At, Current
<1>4. b \in Values /\ (~env.faults => b = bright)
  <2>1. CASE env.faults
    BY <1>1, <1>2, <1>3, <2>1, ValueFacts DEF DataInv
  <2>2. CASE ~env.faults
    BY <1>1, <2>2 DEF DataInv
  <2> QED BY <2>1, <2>2
<1>5. pc' = [pc EXCEPT ![c] = "assign"]
  BY DEF CallNotify
<1>6. WorkInv' /\ Others(c) /\ HeadIs(c, [op |-> "notify", level |-> b]) /\ pc'[c] = "assign"
  BY <1>1, <1>2, <1>3, <1>4, <1>5, NotifyOK
<1>7. DataInv'
  BY <1>1, EnvTells DEF CallNotify, DataInv, firmware, memory, world, ColorIds, Colors, ColorOf
<1> QED BY <1>1, <1>4, <1>6, <1>7, TypeParts

\* The steps that end an operation.
Ends(c) ==
  CallColor(c) \/ AssignNotify(c) \/ CallStatus(c) \/ CallMode(c) \/ FinishCycle(c) \/ Register(c)

LEMMA EndsFits ==
  ASSUME TypeInv, NEW c \in Contexts, Ends(c)
  PROVE  TypeInv' /\ Others(c) /\ Finished(c) /\ ~Idle(c)
<1>1. env' = env /\ DataInv /\ env \in Environments /\ WorkInv /\ ~Idle(c) /\ Finish(c)
  BY TypeParts DEF Ends, CallColor, AssignNotify, CallStatus, CallMode, FinishCycle, Register, At
<1>2. WorkInv' /\ Others(c) /\ Finished(c)
  BY <1>1, FinishOK
<1>3. /\ Current(c).op = "send" => Current(c).zone \in Zones /\ Current(c).color \in Triples
      /\ Current(c).op = "mode" => Current(c).mode \in Modes
      /\ Current(c).op = "status" => Current(c).on \in BOOLEAN
      /\ Current(c).op = "cycled" => Current(c).id \in ColorIds
  BY <1>1, CurrentFits
<1>4. DataInv'
  <2>1. CASE CallColor(c)
    <3> DEFINE z == Current(c).zone
    <3>1. z \in Zones /\ Current(c).color \in Triples /\ shown[z] \in Triples
      BY <1>1, <1>3, <2>1 DEF CallColor, At, Current, DataInv
    <3>2. PICK s \in Called(shown[z], Current(c).color) : shown' = [shown EXCEPT ![z] = s]
      BY <2>1 DEF CallColor
    <3>3. s \in Triples
      <4>1. CASE env.faults
        BY <3>1, <3>2, <4>1 DEF Called
      <4>2. CASE ~env.faults
        BY <3>1, <3>2, <4>2 DEF Called
      <4> QED BY <4>1, <4>2
    <3> HIDE DEF z
    <3>4. shown' \in [Zones -> Triples]
      BY <1>1, <3>1, <3>2, <3>3 DEF DataInv
    <3> QED BY <1>1, <2>1, <3>4, EnvTells
            DEF CallColor, DataInv, memory, world, ColorIds, Colors, ColorOf
  <2>2. CASE AssignNotify(c)
    <3>1. Current(c).level \in Values
      BY <1>1, <2>2 DEF AssignNotify, WorkInv
    <3> QED BY <1>1, <2>2, <3>1, EnvTells
            DEF AssignNotify, DataInv, firmware, world, ColorIds, Colors, ColorOf
  <2>3. CASE CallStatus(c)
    <3>1. Current(c).on \in BOOLEAN /\ lit' \in Called(lit, Current(c).on)
      BY <1>3, <2>3 DEF CallStatus, At, Current
    <3>2. Called(lit, Current(c).on) \subseteq {lit, Current(c).on}
      <4>1. CASE env.faults
        BY <4>1 DEF Called
      <4>2. CASE ~env.faults
        BY <4>2 DEF Called
      <4> QED BY <4>1, <4>2
    <3>3. lit' \in BOOLEAN
      BY <1>1, <3>1, <3>2, Zenon DEF DataInv
    <3> QED BY <1>1, <2>3, <3>3, EnvTells, Zenon
            DEF CallStatus, DataInv, memory, world, ColorIds, Colors, ColorOf
  <2>4. CASE CallMode(c)
    <3>1. Current(c).mode \in Modes
      BY <1>3, <2>4 DEF CallMode, At, Current
    <3>2. effect' \in Modes /\ mode' \in Modes
      BY <1>1, <2>4, <3>1 DEF CallMode, DataInv
    <3> QED BY <1>1, <2>4, <3>2, EnvTells
            DEF CallMode, DataInv, memory, world, ColorIds, Colors, ColorOf
  <2>5. CASE FinishCycle(c)
    BY <1>1, <1>3, <2>5, EnvTells
    DEF FinishCycle, At, Current, DataInv, firmware, world, ColorIds, Colors, ColorOf
  <2>6. CASE Register(c)
    <3>1. registered' \in BOOLEAN
      BY <2>6, Zenon DEF Register
    <3> QED BY <1>1, <2>6, <3>1, EnvTells, Zenon
            DEF Register, DataInv, firmware, world, ColorIds, Colors, ColorOf
  <2> QED BY <2>1, <2>2, <2>3, <2>4, <2>5, <2>6 DEF Ends
<1> QED BY <1>1, <1>2, <1>4, TypeParts

LEMMA TypesInitially == Init => TypeInv
<1> SUFFICES ASSUME Init PROVE TypeInv
  OBVIOUS
<1>1. DataInv
  <2>1. Len(ColorList) - 1 \in ColorIds /\ 0 \in Levels /\ 0 \in Modes
    BY ClevoAssumption, LenProperties DEF ColorIds
  <2>2. bright \in Values /\ bright <= 255 /\ led \in [Zones -> Values]
    BY ValueFacts DEF Init
  <2> QED BY <2>1, <2>2, ColorTypes DEF Init, DataInv
<1>2. WorkInv
  BY DEF Init, WorkInv, StepNames, Idle, At
<1> QED BY <1>1, <1>2, TypeParts DEF Init

LEMMA TypesStay ==
  ASSUME TypeInv, [Next]_vars
  PROVE  TypeInv' /\ env' = env
<1>1. CASE \E z \in Zones : \/ \E b \in Levels : Store(z, b)
                            \/ \E id \in ColorIds : StoreIntensity(z, id)
  BY <1>1, StoreFits, StoreIntensityFits DEF Others
<1>2. CASE \E m \in Modes : StoreMode(m)
  BY <1>2, StoreModeFits DEF Others
<1>3. CASE \E b \in Levels : FnKey(b)
  BY <1>3, FnKeyFits
<1>4. CASE BrightnessEvent \/ CycleEvent
  BY <1>4, BrightnessEventFits, CycleEventFits DEF Others
<1>5. CASE Sleep \/ Wake \/ Thaw
  BY <1>5, PowerFits
<1>6. CASE Suspend \/ Resume \/ Probe \/ Remove
  BY <1>6, SuspendFits, ResumeTypes, ProbeTypes, RemoveTypes DEF Others
<1>7. ASSUME NEW c \in Contexts, Step(c) PROVE TypeInv' /\ env' = env
  <2>1. CASE StartRestore(c) \/ StartOff(c) \/ StartColor(c)
    BY <2>1, StartRestoreFits, StartOffFits, StartColorFits DEF Others
  <2>2. CASE CallBrightness(c) \/ \E z \in Zones : AssignBrightness(c, z)
    BY <2>2, CallBrightnessFits, AssignBrightnessFits DEF Others
  <2>3. CASE ReadIntensity(c) \/ CallNotify(c)
    BY <2>3, ReadIntensityFits, CallNotifyFits DEF Others
  <2>4. CASE Ends(c)
    BY <2>4, EndsFits DEF Others
  <2> QED BY <1>7, <2>1, <2>2, <2>3, <2>4 DEF Step, Ends
<1>8. CASE UNCHANGED vars
  <2>1. env' = env /\ todo' = todo /\ pc' = pc
    BY <1>8 DEF vars
  <2>2. DataInv'
    BY <1>8, EnvTells, TypeParts DEF vars, firmware, memory, world, DataInv, ColorIds, Colors, ColorOf
  <2>3. WorkInv'
    BY <2>1, EnvTells, TypeParts DEF WorkInv, Idle, At, Current
  <2> QED BY <2>1, <2>2, <2>3, TypeParts
<1> QED BY <1>1, <1>2, <1>3, <1>4, <1>5, <1>6, <1>7, <1>8 DEF Next

LEMMA TypeInvariant == Spec => []TypeInv
  BY TypesInitially, TypesStay, PTL DEF Spec

\* A brightness that is no level needs a white keyboard and a method that failed.
InRange == Rgb \/ ~env.faults => bright \in Levels /\ led \in [Zones -> Levels]

\* Whatever overlaps and fails, the colours and their number are ones that may
\* be set, the firmware is told of a byte, and on keyboards with colours, and
\* while no method fails, each brightness is in the range of the LED class
\* device.  On a white keyboard whose methods fail it is not: that is a finding.
THEOREM TypesStayRight == Spec => [](TypeOK /\ InRange)
<1>1. TypeInv => TypeOK
  BY DEF TypeInv
<1>2. TypeOK => InRange
  BY ValueFacts DEF TypeOK, InRange
<1> QED BY <1>1, <1>2, TypeInvariant, PTL

-----------------------------------------------------------------------------
(***************************************************************************)
(* The keyboard is enabled                                                 *)
(***************************************************************************)

\* What a step of c leaves to do, and of what the keyboard being enabled
\* depends on.
DriverOps == {"status", "register", "unregister"}
Stay == lit' = lit /\ registered' = registered

GoesOn(c) ==
  /\ Current(c).op \notin DriverOps
  /\ \E op \in Operations : /\ HeadIs(c, op) /\ op.op \notin DriverOps
                            /\ op.op = "notify" => Current(c).op = "notify"

Moves(c) ==
  \/ todo'[c] = todo[c] /\ Stay
  \/ GoesOn(c) /\ Stay
  \/ Current(c).op \notin DriverOps /\ Finished(c) /\ Stay
  \/ /\ Current(c).op = "status" /\ Finished(c)
     /\ registered' = registered /\ (~env.faults => lit' = Current(c).on)
  \/ /\ Current(c).op = "register" /\ Finished(c) /\ lit' = lit /\ registered'
  \/ /\ Current(c).op = "unregister" /\ Finished(c) /\ lit' = lit /\ ~registered'

LEMMA StepMoves ==
  ASSUME TypeInv, NEW c \in Contexts, Step(c)
  PROVE  Others(c) /\ power' = power /\ ~Idle(c) /\ Moves(c)
<1>1. power' = power /\ ~Idle(c)
  BY DEF Step, StartRestore, StartColor, StartOff, CallBrightness, AssignBrightness, ReadIntensity,
         CallColor, CallNotify, AssignNotify, CallStatus, CallMode, FinishCycle, Register, At, world
<1>2. CASE StartRestore(c) \/ StartOff(c) \/ StartColor(c)
  <2>1. Stay /\ Current(c).op \notin DriverOps
    BY <1>2 DEF Stay, StartRestore, StartOff, StartColor, At, Current, firmware, memory, DriverOps
  <2>2. PICK z \in Zones, b \in Values : Others(c) /\ HeadIs(c, Brightness(z, b))
    <3>1. 0 \in Values /\ \A z \in Zones : led[z] \in Values
      BY ValueFacts, TypeParts DEF DataInv
    <3>2. CASE StartRestore(c)
      BY <3>1, <3>2, StartRestoreFits
    <3>3. CASE StartOff(c)
      BY <3>1, <3>3, StartOffFits
    <3>4. CASE StartColor(c)
      BY <3>1, <3>4, StartColorFits
    <3> QED BY <1>2, <3>2, <3>3, <3>4
  <2>3. /\ Brightness(z, b) \in Operations
        /\ Brightness(z, b).op \notin DriverOps /\ Brightness(z, b).op # "notify"
    BY AreOperations DEF Brightness, DriverOps
  <2> QED BY <1>1, <2>1, <2>2, <2>3 DEF Moves, GoesOn
<1>3. CASE CallBrightness(c) \/ \E z \in Zones : AssignBrightness(c, z)
  <2>1. Stay /\ Current(c).op \notin DriverOps
    BY <1>3 DEF Stay, CallBrightness, AssignBrightness, At, Current, firmware, memory, DriverOps
  <2>2. Others(c) /\ (todo'[c] = todo[c] \/ Finished(c))
    BY <1>3, CallBrightnessFits, AssignBrightnessFits
  <2> QED BY <1>1, <2>1, <2>2 DEF Moves
<1>4. CASE ReadIntensity(c)
  <2>1. Stay /\ Current(c).op \notin DriverOps
    BY <1>4 DEF Stay, ReadIntensity, At, Current, firmware, memory, DriverOps
  <2>2. PICK color \in Triples : /\ Others(c)
                                 /\ HeadIs(c, [op |-> "send", zone |-> Current(c).zone, color |-> color])
                                 /\ Current(c).zone \in Zones
    BY <1>4, ReadIntensityFits, ColorTypes, TypeParts DEF DataInv
  <2>3. [op |-> "send", zone |-> Current(c).zone, color |-> color] \in Operations
    BY <2>2, AreOperations
  <2> QED BY <1>1, <2>1, <2>2, <2>3 DEF Moves, GoesOn, DriverOps
<1>5. CASE CallNotify(c)
  <2>1. Stay /\ Current(c).op \notin DriverOps /\ Current(c).op = "notify"
    BY <1>5 DEF Stay, CallNotify, At, Current, firmware, memory, DriverOps
  <2>2. PICK b \in Values : Others(c) /\ HeadIs(c, [op |-> "notify", level |-> b])
    BY <1>5, CallNotifyFits
  <2>3. [op |-> "notify", level |-> b] \in Operations
    <3>1. ~Rgb
      BY <1>1, <2>1, CurrentFits DEF TypeInv
    <3> QED BY <3>1, AreOperations
  <2> QED BY <1>1, <2>1, <2>2, <2>3 DEF Moves, GoesOn, DriverOps
<1>6. CASE CallStatus(c)
  <2>1. Current(c).op = "status" /\ registered' = registered /\ lit' \in Called(lit, Current(c).on)
    BY <1>6 DEF CallStatus, At, Current, memory
  <2>2. Others(c) /\ Finished(c)
    BY <1>6, EndsFits DEF Ends
  <2>3. ~env.faults => lit' = Current(c).on
    <3>1. ~env.faults => Called(lit, Current(c).on) = {Current(c).on}
      BY DEF Called
    <3> QED BY <2>1, <3>1, Zenon
  <2> QED BY <1>1, <2>1, <2>2, <2>3, Zenon DEF Moves
<1>7. CASE Register(c)
  <2>1. Others(c) /\ Finished(c)
    BY <1>7, EndsFits DEF Ends
  <2>2. CASE At(c, "register", "start") /\ registered' = TRUE
    <3>1. Current(c).op = "register" /\ lit' = lit
      BY <1>7, <2>2 DEF Register, At, Current, firmware
    <3> QED BY <1>1, <2>1, <2>2, <3>1, Zenon DEF Moves
  <2>3. CASE At(c, "unregister", "start") /\ registered' = FALSE
    <3>1. Current(c).op = "unregister" /\ lit' = lit
      BY <1>7, <2>3 DEF Register, At, Current, firmware
    <3> QED BY <1>1, <2>1, <2>3, <3>1, Zenon DEF Moves
  <2> QED BY <1>7, <2>2, <2>3, Zenon DEF Register
<1>8. CASE CallColor(c) \/ AssignNotify(c) \/ CallMode(c) \/ FinishCycle(c)
  <2>1. Stay /\ Current(c).op \notin DriverOps
    BY <1>8 DEF Stay, CallColor, AssignNotify, CallMode, FinishCycle, At, Current, firmware, memory,
                DriverOps
  <2>2. Others(c) /\ Finished(c)
    BY <1>8, EndsFits DEF Ends
  <2> QED BY <1>1, <2>1, <2>2 DEF Moves
<1> QED BY <1>2, <1>3, <1>4, <1>5, <1>6, <1>7, <1>8 DEF Step

PowerStatusInv == TypeInv /\ PowerInv /\ StatusInv

\* A step performs what is to be done, and adds nothing that is not to be done
\* but for what it goes on with.
LEMMA StepKeepsStatus ==
  ASSUME PowerStatusInv, NEW c \in Contexts, Step(c)
  PROVE  PowerInv' /\ StatusInv'
<1>1. Others(c) /\ power' = power /\ ~Idle(c) /\ Moves(c)
  BY StepMoves DEF PowerStatusInv
<1>2. PowerInv'
  <2>1. \A d \in Contexts \ {c} : todo'[d] = todo[d]
    BY <1>1 DEF Others
  <2>2. power # "asleep"
    BY <1>1 DEF PowerStatusInv, PowerInv, Quiescent
  <2> QED BY <1>1, <2>1, <2>2 DEF PowerStatusInv, PowerInv, Idle, Contexts
<1>3. ASSUME NEW d \in Contexts, NEW i \in 1 .. Len(todo'[d])
      PROVE  /\ todo'[d][i].op = "status" =>
                  d \in {"pm", "driver"} /\ (todo'[d][i] = StatusOn \/ power = "suspending")
             /\ todo'[d][i].op \in {"register", "unregister"} => d = "driver"
  <2>1. CASE todo'[d] = todo[d]
    BY <2>1 DEF PowerStatusInv, StatusInv
  <2>2. CASE d = c /\ Finished(c)
    <3>1. i + 1 \in 1 .. Len(todo[c]) /\ todo'[c][i] = todo[c][i + 1]
      BY <2>2 DEF Finished
    <3> QED BY <2>2, <3>1 DEF PowerStatusInv, StatusInv
  <2>3. CASE d = c /\ GoesOn(c)
    <3>1. PICK op \in Operations : HeadIs(c, op) /\ op.op \notin DriverOps
      BY <2>3 DEF GoesOn
    <3>2. CASE i = 1
      BY <2>3, <3>1, <3>2 DEF HeadIs, DriverOps
    <3>3. CASE i # 1
      <4>1. i \in 2 .. Len(todo[c]) /\ i \in 1 .. Len(todo[c])
        BY <2>3, <3>1, <3>3 DEF HeadIs
      <4>2. todo'[c][i] = todo[c][i]
        BY <3>1, <4>1 DEF HeadIs
      <4> QED BY <2>3, <4>1, <4>2 DEF PowerStatusInv, StatusInv
    <3> QED BY <3>2, <3>3
  <2>4. todo'[c] = todo[c] \/ Finished(c) \/ GoesOn(c)
    BY <1>1, Zenon DEF Moves
  <2> QED BY <1>1, <2>1, <2>2, <2>3, <2>4 DEF Others
<1> QED BY <1>1, <1>2, <1>3 DEF StatusInv

\* Suspend, resume, probe and remove each begin alone, but for events.
LEMMA Alone ==
  ASSUME TypeInv, NEW c \in Contexts, NEW ops, Begin(c, ops)
  PROVE  /\ c = "pm" => Idle("driver") /\ Idle("sysfs")
         /\ c = "driver" => Idle("pm")
<1>1. env.overlaps \subseteq Possible
  BY ClevoAssumption DEF TypeInv, TypeOK
<1>2. {"pm", "driver"} \notin Possible /\ {"driver", "pm"} \notin Possible
      /\ {"pm", "sysfs"} \notin Possible
  <2>1. ASSUME NEW a, NEW b, {a, b} \in Possible
        PROVE  {a, b} # {"pm", "driver"} /\ {a, b} # {"pm", "sysfs"}
    BY <2>1 DEF Possible
  <2>2. {"driver", "pm"} = {"pm", "driver"}
    OBVIOUS
  <2> QED BY <2>1, <2>2
<1>3. \A d \in Contexts : Idle(d) \/ {c, d} \in Possible
  BY <1>1 DEF Begin
<1> QED BY <1>2, <1>3 DEF Contexts

\* What begins leaves the others alone.
LEMMA BeginsStatus ==
  ASSUME PowerStatusInv, NEW c \in Contexts, Others(c),
         \A i \in 1 .. Len(todo'[c]) :
           /\ todo'[c][i].op = "status" => c \in {"pm", "driver"} /\ todo'[c][i] = StatusOn
           /\ todo'[c][i].op \in {"register", "unregister"} => c = "driver",
         power # "suspending"
  PROVE  StatusInv'
<1> SUFFICES ASSUME NEW d \in Contexts, NEW i \in 1 .. Len(todo'[d])
             PROVE  /\ todo'[d][i].op = "status" =>
                         d \in {"pm", "driver"} /\ (todo'[d][i] = StatusOn \/ power' = "suspending")
                    /\ todo'[d][i].op \in {"register", "unregister"} => d = "driver"
  BY DEF StatusInv
<1>1. CASE d = c
  BY <1>1
<1>2. CASE d # c
  <2>1. todo'[d] = todo[d]
    BY <1>2 DEF Others
  <2> QED BY <2>1 DEF PowerStatusInv, StatusInv
<1> QED BY <1>1, <1>2

LEMMA StatusStays ==
  ASSUME PowerStatusInv, [Next]_vars
  PROVE  PowerInv' /\ StatusInv'
<1>0. TypeInv /\ TypeInv' /\ PowerInv /\ StatusInv
  BY TypesStay DEF PowerStatusInv
<1>1. ASSUME NEW c \in Contexts, Step(c) PROVE PowerInv' /\ StatusInv'
  BY <1>1, StepKeepsStatus
<1>2. ASSUME NEW c \in {"sysfs", "event"}, Others(c), power' = power, power # "asleep",
             c = "sysfs" => power = "awake",
             \A i \in 1 .. Len(todo'[c]) : todo'[c][i].op \notin DriverOps
      PROVE  PowerInv' /\ StatusInv'
  <2>1. /\ todo'["driver"] = todo["driver"] /\ todo'["pm"] = todo["pm"]
        /\ c = "event" => todo'["sysfs"] = todo["sysfs"]
    BY <1>2 DEF Others, Contexts
  <2>2. PowerInv'
    BY <1>0, <1>2, <2>1 DEF PowerInv, Idle
  <2>3. ASSUME NEW d \in Contexts, NEW i \in 1 .. Len(todo'[d])
        PROVE  /\ todo'[d][i].op = "status" =>
                    d \in {"pm", "driver"} /\ (todo'[d][i] = StatusOn \/ power = "suspending")
               /\ todo'[d][i].op \in {"register", "unregister"} => d = "driver"
    <3>1. CASE d = c
      BY <1>2, <3>1 DEF DriverOps
    <3>2. CASE d # c
      <4>1. todo'[d] = todo[d]
        BY <1>2, <3>2 DEF Others
      <4> QED BY <1>0, <4>1 DEF StatusInv
    <3> QED BY <3>1, <3>2
  <2> QED BY <1>2, <2>2, <2>3 DEF StatusInv
<1>3. ASSUME NEW z \in Zones, NEW b, Others("sysfs"), todo'["sysfs"] = <<Brightness(z, b)>>
      PROVE  \A i \in 1 .. Len(todo'["sysfs"]) : todo'["sysfs"][i].op \notin DriverOps
  <2> DEFINE op == Brightness(z, b)
  <2>1. op.op = "brightness"
    BY DEF Brightness
  <2> HIDE DEF op
  <2>2. Len(<<op>>) = 1 /\ <<op>>[1] = op
    OBVIOUS
  <2> QED BY <1>3, <2>1, <2>2 DEF op, DriverOps
<1>4. ASSUME NEW z \in Zones, NEW b \in Levels, Store(z, b) PROVE PowerInv' /\ StatusInv'
  <2>1. power' = power /\ power = "awake"
    BY <1>4 DEF Store, world
  <2> QED BY <1>0, <1>2, <1>3, <1>4, <2>1, StoreFits
<1>5. ASSUME NEW z \in Zones, NEW id \in ColorIds, StoreIntensity(z, id) PROVE PowerInv' /\ StatusInv'
  <2>1. power' = power /\ power = "awake" /\ led[z] \in Values
    BY <1>0, <1>5, TypeParts DEF StoreIntensity, world, DataInv
  <2> QED BY <1>0, <1>2, <1>3, <1>5, <2>1, StoreIntensityFits
<1>6. ASSUME NEW m \in Modes, StoreMode(m) PROVE PowerInv' /\ StatusInv'
  <2>1. power' = power /\ power = "awake"
    BY <1>6 DEF StoreMode, world
  <2>2. \A i \in 1 .. Len(<<Mode(m)>>) : <<Mode(m)>>[i].op \notin DriverOps
    BY DEF Mode, DriverOps
  <2> QED BY <1>0, <1>2, <1>6, <2>1, <2>2, StoreModeFits
<1>7. CASE BrightnessEvent
  <2>1. power' = power /\ power # "asleep"
    BY <1>7 DEF BrightnessEvent
  <2>2. \A i \in 1 .. Len(<<Op("notify")>>) : <<Op("notify")>>[i].op \notin DriverOps
    BY DEF Op, DriverOps
  <2> QED BY <1>0, <1>2, <1>7, <2>1, <2>2, BrightnessEventFits
<1>8. CASE CycleEvent
  <2>1. power' = power /\ power # "asleep" /\ Rgb
    BY <1>8 DEF CycleEvent, world
  <2>2. \A i \in 1 .. Len(CycleOps) : CycleOps[i].op \notin DriverOps
    BY <1>0, <2>1, CycleFits DEF Fits, DriverOps
  <2> QED BY <1>0, <1>2, <1>8, <2>1, <2>2, CycleEventFits
<1>9. ASSUME NEW b \in Levels, FnKey(b) PROVE PowerInv' /\ StatusInv'
  <2>1. power' = power /\ todo' = todo
    BY <1>9 DEF FnKey
  <2> QED BY <1>0, <2>1 DEF PowerInv, StatusInv, Idle, Quiescent
<1>10. CASE UNCHANGED vars
  <2>1. power' = power /\ todo' = todo
    BY <1>10 DEF vars, world
  <2> QED BY <1>0, <2>1 DEF PowerInv, StatusInv, Idle, Quiescent
<1>11. CASE Sleep \/ Wake \/ Thaw
  <2>1. todo' = todo
    BY <1>11 DEF Sleep, Wake, Thaw
  <2>2. PowerInv'
    BY <1>0, <1>11, <2>1 DEF Sleep, Wake, Thaw, PowerInv, Idle, Quiescent, Contexts
  <2>3. ASSUME power = "suspending", NEW d \in Contexts, NEW i \in 1 .. Len(todo[d])
        PROVE  todo[d][i].op # "status"
    <3>1. todo["pm"] = <<>> /\ todo["driver"] = <<>>
      BY <1>0, <1>11, <2>3 DEF Sleep, Wake, Thaw, PowerInv, Idle
    <3>2. d # "pm" /\ d # "driver"
      BY <2>3, <3>1
    <3> QED BY <1>0, <3>2 DEF StatusInv
  <2> QED BY <1>0, <2>1, <2>2, <2>3 DEF StatusInv
<1>12. CASE Suspend
  <2>1. /\ Others("pm") /\ todo'["pm"] = SuspendOps /\ power' = "suspending" /\ power = "awake"
        /\ Idle("driver") /\ Idle("sysfs")
    BY <1>0, <1>12, SuspendFits, Alone DEF Suspend, Contexts
  <2>2. todo'["driver"] = todo["driver"] /\ todo'["sysfs"] = todo["sysfs"]
    BY <2>1 DEF Others, Contexts
  <2>3. PowerInv'
    BY <2>1, <2>2 DEF PowerInv, Idle
  <2>4. \A i \in 1 .. Len(SuspendOps) : SuspendOps[i].op \notin {"register", "unregister"}
    <3>1. CASE Rgb
      BY <3>1 DEF SuspendOps, Status
    <3>2. CASE ~Rgb
      BY <3>2 DEF SuspendOps
    <3> QED BY <3>1, <3>2
  <2>5. ASSUME NEW d \in Contexts, NEW i \in 1 .. Len(todo'[d])
        PROVE  /\ todo'[d][i].op = "status" => d \in {"pm", "driver"}
               /\ todo'[d][i].op \in {"register", "unregister"} => d = "driver"
    <3>1. CASE d = "pm"
      BY <2>1, <2>4, <3>1
    <3>2. CASE d # "pm"
      <4>1. todo'[d] = todo[d]
        BY <2>1, <3>2 DEF Others
      <4> QED BY <1>0, <4>1 DEF StatusInv
    <3> QED BY <3>1, <3>2
  <2> QED BY <2>1, <2>3, <2>5 DEF StatusInv
<1>13. CASE Resume
  <2>1. /\ Others("pm") /\ todo'["pm"] = ResumeOps /\ power' = "resuming" /\ power = "waking"
        /\ Idle("driver") /\ Idle("sysfs")
    BY <1>0, <1>13, ResumeTypes, Alone DEF Resume, Contexts
  <2>2. todo'["driver"] = todo["driver"] /\ todo'["sysfs"] = todo["sysfs"]
    BY <2>1 DEF Others, Contexts
  <2>3. PowerInv'
    BY <2>1, <2>2 DEF PowerInv, Idle
  <2>4. \A i \in 1 .. Len(ResumeOps) : /\ ResumeOps[i].op = "status" => ResumeOps[i] = StatusOn
                                       /\ ResumeOps[i].op \notin {"register", "unregister"}
    BY ResumeFits DEF Fits, OnlyOn
  <2> QED BY <2>1, <2>3, <2>4, BeginsStatus DEF Contexts
<1>14. CASE Probe
  <2>1. /\ Others("driver") /\ todo'["driver"] = ProbeOps /\ power' = power /\ power = "awake"
        /\ Idle("pm")
    BY <1>0, <1>14, ProbeTypes, Alone DEF Probe, Contexts
  <2>2. todo'["pm"] = todo["pm"]
    BY <2>1 DEF Others, Contexts
  <2>3. PowerInv'
    BY <2>1, <2>2 DEF PowerInv, Idle
  <2>4. \A i \in 1 .. Len(ProbeOps) : ProbeOps[i].op = "status" => ProbeOps[i] = StatusOn
    BY <1>0, ProbeFits DEF OnlyOn
  <2> QED BY <2>1, <2>3, <2>4, BeginsStatus DEF Contexts
<1>15. CASE Remove
  <2>1. /\ Others("driver") /\ todo'["driver"] = RemoveOps /\ power' = power /\ power = "awake"
        /\ Idle("pm")
    BY <1>0, <1>15, RemoveTypes, Alone DEF Remove, Contexts
  <2>2. todo'["pm"] = todo["pm"]
    BY <2>1 DEF Others, Contexts
  <2>3. PowerInv'
    BY <2>1, <2>2 DEF PowerInv, Idle
  <2>4. \A i \in 1 .. Len(RemoveOps) : RemoveOps[i].op # "status"
    BY RemoveFits
  <2> QED BY <2>1, <2>3, <2>4, BeginsStatus DEF Contexts
<1> QED BY <1>1, <1>4, <1>5, <1>6, <1>7, <1>8, <1>9, <1>10, <1>11, <1>12, <1>13, <1>14, <1>15 DEF Next

\* Whether the keyboard is enabled, after a step of c.
LEMMA StatusSwitches ==
  ASSUME PowerStatusInv, NEW c \in Contexts, Step(c), Rgb, ~env.faults
  PROVE  /\ Current(c) = todo[c][1] /\ Len(todo[c]) \in Nat /\ Len(todo[c]) > 0
         /\ lit' # lit => Current(c).op = "status" /\ Finished(c)
         /\ Current(c).op = "status" /\ Finished(c) =>
              /\ c \in {"pm", "driver"} /\ (c = "driver" => power = "awake")
              /\ power # "suspending" => lit' = TRUE
<1>1. Others(c) /\ power' = power /\ ~Idle(c) /\ Moves(c) /\ TypeInv
  BY StepMoves DEF PowerStatusInv
<1>2. /\ Current(c) = todo[c][1] /\ Current(c) \in Operations /\ Len(todo[c]) \in Nat
      /\ Len(todo[c]) > 0 /\ 1 \in 1 .. Len(todo[c])
  BY <1>1, CurrentFits DEF TypeInv
<1>3. lit' # lit => Current(c).op = "status" /\ Finished(c)
  BY <1>1, Zenon DEF Moves, Stay
<1>4. ASSUME Current(c).op = "status", Finished(c)
      PROVE  /\ c \in {"pm", "driver"} /\ (c = "driver" => power = "awake")
             /\ power # "suspending" => lit' = TRUE
  <2>1. c \in {"pm", "driver"} /\ (todo[c][1] = StatusOn \/ power = "suspending")
    BY <1>2, <1>4 DEF PowerStatusInv, StatusInv
  <2>2. c = "driver" => power = "awake"
    BY <1>1 DEF PowerStatusInv, PowerInv
  <2>3. lit' = Current(c).on
    <3>1. Len(todo'[c]) # Len(todo[c])
      BY <1>4 DEF Finished
    <3>2. todo'[c] # todo[c]
      BY <3>1
    <3>3. ~GoesOn(c)
      BY <1>4 DEF GoesOn, DriverOps
    <3>4. Current(c).op \notin {"register", "unregister"} /\ Current(c).op \in DriverOps
      BY <1>4 DEF DriverOps
    <3> QED BY <1>1, <1>4, <3>2, <3>3, <3>4 DEF Moves
  <2> QED BY <1>2, <2>1, <2>2, <2>3, StatusFacts
<1> QED BY <1>2, <1>3, <1>4

LEMMA MoreThanOne ==
  ASSUME NEW n \in Nat, n > 0, n # 1
  PROVE  n - 1 \in 1 .. n - 1 /\ (n - 1) + 1 = n /\ n \in 2 .. n
  OBVIOUS

LEMMA StepKeepsLit ==
  ASSUME PowerStatusInv, LitInv, Rgb, ~env.faults, NEW c \in Contexts, Step(c)
  PROVE  LitInv'
<1>1. Others(c) /\ power' = power /\ ~Idle(c) /\ Moves(c)
  BY StepMoves DEF PowerStatusInv
<1>2. /\ Current(c) = todo[c][1] /\ Len(todo[c]) \in Nat /\ Len(todo[c]) > 0
      /\ lit' # lit => Current(c).op = "status" /\ Finished(c)
      /\ Current(c).op = "status" /\ Finished(c) =>
           /\ c \in {"pm", "driver"} /\ (c = "driver" => power = "awake")
           /\ power # "suspending" => lit' = TRUE
  BY StatusSwitches, Zenon
<1>20. Len(todo[c]) \in Nat /\ Len(todo[c]) > 0 /\ 1 \in 1 .. Len(todo[c])
  <2>1. Len(todo[c]) \in Nat /\ Len(todo[c]) > 0
    BY <1>2, Zenon
  <2> QED BY <2>1
<1>3. ASSUME lit, power # "suspending" PROVE lit'
  BY <1>2, <1>3, Zenon
<1>4. registered' /\ power = "awake" => lit'
  <2> SUFFICES ASSUME registered', power = "awake" PROVE lit'
    OBVIOUS
  <2>1. CASE registered
    <3>1. lit
      BY <2>1 DEF LitInv
    <3> QED BY <1>3, <3>1
  <2>2. CASE ~registered
    <3>1. Current(c).op = "register"
      BY <1>1, <2>2, Zenon DEF Moves, Stay
    <3>2. c = "driver"
      BY <1>2, <1>20, <3>1 DEF PowerStatusInv, StatusInv
    <3>3. lit \/ \E j \in 1 .. 1 - 1 : todo["driver"][j].op = "status"
      BY <1>2, <1>20, <3>1, <3>2 DEF LitInv
    <3>4. lit
      BY <3>3
    <3> QED BY <1>3, <3>4
  <2> QED BY <2>1, <2>2
<1>5. ASSUME NEW i \in 1 .. Len(todo'["driver"]), todo'["driver"][i].op = "register"
      PROVE  lit' \/ \E j \in 1 .. i - 1 : todo'["driver"][j].op = "status"
  <2>0. power = "awake"
    <3>1. ~Idle("driver")
      <4>1. CASE c = "driver"
        BY <1>1, <4>1
      <4>2. CASE c # "driver"
        <5>1. todo'["driver"] = todo["driver"]
          BY <1>1, <4>2 DEF Others, Contexts
        <5> QED BY <1>5, <5>1 DEF Idle
      <4> QED BY <4>1, <4>2
    <3> QED BY <3>1 DEF PowerStatusInv, PowerInv
  <2> SUFFICES ASSUME ~lit' PROVE \E j \in 1 .. i - 1 : todo'["driver"][j].op = "status"
    OBVIOUS
  <2>1. ~lit
    BY <1>3, <2>0
  <2>2. CASE todo'["driver"] = todo["driver"]
    BY <1>5, <2>1, <2>2 DEF LitInv
  <2>3. CASE c = "driver" /\ Finished(c)
    <3>1. i + 1 \in 1 .. Len(todo[c]) /\ todo'[c][i] = todo[c][i + 1]
      BY <2>3 DEF Finished
    <3>2. PICK j \in 1 .. i : todo[c][j].op = "status"
      <4>1. todo[c][i + 1].op = "register"
        BY <1>5, <2>3, <3>1
      <4>2. \E j \in 1 .. (i + 1) - 1 : todo[c][j].op = "status"
        BY <2>1, <2>3, <3>1, <4>1, Zenon DEF LitInv
      <4>3. (i + 1) - 1 = i
        OBVIOUS
      <4> QED BY <4>2, <4>3
    <3>3. j # 1
      <4> SUFFICES ASSUME j = 1 PROVE FALSE
        OBVIOUS
      <4>1. Current(c).op = "status"
        BY <1>2, <3>2
      <4>2. lit' = TRUE
        BY <1>2, <2>0, <2>3, <4>1
      <4> QED BY <4>2
    <3>4. j - 1 \in 1 .. i - 1 /\ j - 1 \in 1 .. Len(todo[c]) - 1 /\ (j - 1) + 1 = j
      BY <1>2, <3>1, <3>2, <3>3
    <3>5. todo'[c][j - 1] = todo[c][j]
      BY <2>3, <3>4 DEF Finished
    <3> QED BY <2>3, <3>2, <3>4, <3>5
  <2>4. CASE c = "driver" /\ GoesOn(c)
    <3>1. PICK op \in Operations : HeadIs(c, op) /\ op.op \notin DriverOps
      BY <2>4 DEF GoesOn
    <3>2. i # 1
      BY <1>5, <2>4, <3>1 DEF HeadIs, DriverOps
    <3>3. i \in 2 .. Len(todo[c]) /\ i \in 1 .. Len(todo[c])
      BY <2>4, <3>1, <3>2 DEF HeadIs
    <3>4. todo'[c][i] = todo[c][i]
      BY <3>1, <3>3 DEF HeadIs
    <3>5. PICK j \in 1 .. i - 1 : todo[c][j].op = "status"
      BY <1>5, <2>1, <2>4, <3>3, <3>4 DEF LitInv
    <3>6. j # 1
      BY <1>2, <2>4, <3>5 DEF DriverOps, GoesOn
    <3>7. j \in 2 .. Len(todo[c])
      BY <3>3, <3>5, <3>6
    <3>8. todo'[c][j] = todo[c][j]
      BY <3>1, <3>7 DEF HeadIs
    <3> QED BY <2>4, <3>5, <3>8
  <2>5. CASE c # "driver"
    BY <1>1, <2>2, <2>5 DEF Others, Contexts
  <2>6. todo'[c] = todo[c] \/ Finished(c) \/ GoesOn(c)
    BY <1>1, Zenon DEF Moves
  <2> QED BY <2>2, <2>3, <2>4, <2>5, <2>6
<1>6. ASSUME power = "resuming"
      PROVE  IF todo'["pm"] = <<>> THEN lit' ELSE todo'["pm"][Len(todo'["pm"])] = StatusOn
  <2>1. IF todo["pm"] = <<>> THEN lit ELSE todo["pm"][Len(todo["pm"])] = StatusOn
    BY <1>6 DEF LitInv, Idle
  <2>2. CASE todo'["pm"] = todo["pm"]
    <3>1. CASE todo["pm"] = <<>>
      BY <1>3, <1>6, <2>1, <2>2, <3>1
    <3>2. CASE todo["pm"] # <<>>
      BY <2>1, <2>2, <3>2
    <3> QED BY <3>1, <3>2
  <2>3. CASE c # "pm"
    BY <1>1, <2>2, <2>3 DEF Others, Contexts
  <2>4. CASE c = "pm" /\ Finished(c)
    <3>1. todo[c][Len(todo[c])] = StatusOn /\ todo[c] # <<>>
      BY <1>1, <2>1, <2>4 DEF Idle
    <3>2. CASE Len(todo[c]) = 1
      <4>1. Current(c).op = "status"
        BY <1>2, <3>1, <3>2, StatusFacts
      <4>2. lit' = TRUE
        BY <1>2, <1>6, <2>4, <4>1
      <4>3. todo'["pm"] = <<>>
        BY <2>4, <3>2 DEF Finished
      <4> QED BY <4>2, <4>3
    <3>3. CASE Len(todo[c]) # 1
      <4>1. Len(todo[c]) - 1 \in 1 .. Len(todo[c]) - 1 /\ (Len(todo[c]) - 1) + 1 = Len(todo[c])
        BY <1>20, <3>3, MoreThanOne, Zenon
      <4>2. todo'[c][Len(todo[c]) - 1] = todo[c][Len(todo[c])] /\ Len(todo'[c]) = Len(todo[c]) - 1
            /\ todo'[c] # <<>>
        BY <2>4, <3>3, <4>1 DEF Finished
      <4>3. todo'[c][Len(todo'[c])] = StatusOn
        BY <3>1, <4>2, Zenon
      <4> QED BY <2>4, <4>2, <4>3
    <3> QED BY <3>2, <3>3
  <2>5. CASE c = "pm" /\ GoesOn(c)
    <3>1. PICK op \in Operations : HeadIs(c, op) /\ op.op \notin DriverOps
      BY <2>5 DEF GoesOn
    <3>2. todo[c][Len(todo[c])] = StatusOn
      BY <1>1, <2>1, <2>5 DEF Idle
    <3>3. Len(todo[c]) # 1
      BY <1>2, <2>5, <3>2, StatusFacts DEF DriverOps, GoesOn
    <3>4. Len(todo[c]) \in 2 .. Len(todo[c])
      BY <1>20, <3>3, MoreThanOne, Zenon
    <3>5. todo'[c][Len(todo[c])] = todo[c][Len(todo[c])] /\ Len(todo'[c]) = Len(todo[c])
          /\ todo'[c] # <<>>
      BY <3>1, <3>4 DEF HeadIs
    <3>6. todo'[c][Len(todo'[c])] = StatusOn
      BY <3>2, <3>5, Zenon
    <3> QED BY <2>5, <3>5, <3>6
  <2>6. todo'[c] = todo[c] \/ Finished(c) \/ GoesOn(c)
    BY <1>1, Zenon DEF Moves
  <2> QED BY <2>2, <2>3, <2>4, <2>5, <2>6
<1> QED BY <1>1, <1>4, <1>5, <1>6 DEF LitInv, Idle

LEMMA LitStays ==
  ASSUME PowerStatusInv, LitInv, Rgb, ~env.faults, [Next]_vars
  PROVE  LitInv'
<1>0. TypeInv
  BY DEF PowerStatusInv
<1>1. ASSUME NEW c \in Contexts, Step(c) PROVE LitInv'
  BY <1>1, StepKeepsLit
<1>2. ASSUME NEW c \in {"sysfs", "event"}, Others(c), UNCHANGED <<power, lit, registered>> PROVE LitInv'
  <2>1. todo'["driver"] = todo["driver"] /\ todo'["pm"] = todo["pm"]
    BY <1>2 DEF Others, Contexts
  <2> QED BY <1>2, <2>1, Zenon DEF LitInv, Idle
<1>3. CASE \E z \in Zones : \/ \E b \in Levels : Store(z, b)
                            \/ \E id \in ColorIds : StoreIntensity(z, id)
  <2>1. UNCHANGED <<power, lit, registered>>
    BY <1>3 DEF Store, StoreIntensity, firmware, world
  <2> QED BY <1>0, <1>2, <1>3, <2>1, StoreFits, StoreIntensityFits
<1>4. CASE \E m \in Modes : StoreMode(m)
  <2>1. UNCHANGED <<power, lit, registered>>
    BY <1>4 DEF StoreMode, firmware, memory, world
  <2> QED BY <1>0, <1>2, <1>4, <2>1, StoreModeFits
<1>5. CASE BrightnessEvent \/ CycleEvent
  <2>1. UNCHANGED <<power, lit, registered>>
    BY <1>5 DEF BrightnessEvent, CycleEvent, firmware, memory, world
  <2> QED BY <1>0, <1>2, <1>5, <2>1, BrightnessEventFits, CycleEventFits
<1>6. CASE (\E b \in Levels : FnKey(b)) \/ UNCHANGED vars
  <2>1. UNCHANGED <<power, lit, registered, todo>>
    BY <1>6 DEF FnKey, vars, firmware, memory, world
  <2> QED BY <2>1, Zenon DEF LitInv, Idle
<1>7. CASE Sleep \/ Wake \/ Thaw
  <2>1. UNCHANGED <<lit, registered, todo>> /\ power' # "resuming"
    BY <1>7 DEF Sleep, Wake, Thaw, firmware, memory
  <2>2. power' = "awake" => power = "resuming" /\ todo["pm"] = <<>>
    BY <1>7 DEF Sleep, Wake, Thaw, Idle
  <2>3. registered' /\ power' = "awake" => lit'
    <3>1. power' = "awake" => lit
      BY <2>2 DEF LitInv, Idle
    <3> QED BY <2>1, <3>1, Zenon
  <2>4. \A i \in 1 .. Len(todo'["driver"]) : todo'["driver"][i].op = "register" =>
           lit' \/ \E j \in 1 .. i - 1 : todo'["driver"][j].op = "status"
    BY <2>1, Zenon DEF LitInv
  <2> QED BY <2>1, <2>3, <2>4 DEF LitInv
<1>8. CASE Suspend \/ Resume
  <2>1. Others("pm") /\ Idle("driver") /\ UNCHANGED <<lit, registered>> /\ power' # "awake"
    BY <1>0, <1>8, SuspendFits, ResumeTypes, Alone
    DEF Suspend, Resume, firmware, memory, Contexts
  <2>2. todo'["driver"] = <<>>
    BY <2>1 DEF Others, Contexts, Idle
  <2>3. \A i \in 1 .. Len(todo'["driver"]) : FALSE
    BY <2>2
  <2>4. ASSUME power' = "resuming"
        PROVE  todo'["pm"] # <<>> /\ todo'["pm"][Len(todo'["pm"])] = StatusOn
    <3>1. todo'["pm"] = ResumeOps
      BY <1>0, <1>8, <2>4, ResumeTypes DEF Suspend
    <3> QED BY <3>1, ResumeFits, Zenon DEF Fits
  <2> QED BY <2>1, <2>3, <2>4 DEF LitInv, Idle
<1>9. CASE Probe \/ Remove
  <2>1. Others("driver") /\ Idle("pm") /\ UNCHANGED <<lit, registered, power>> /\ power = "awake"
    BY <1>0, <1>9, ProbeTypes, RemoveTypes, Alone
    DEF Probe, Remove, firmware, memory, Contexts
  <2>2. \A i \in 1 .. Len(todo'["driver"]) : todo'["driver"][i].op = "register" =>
           \E j \in 1 .. i - 1 : todo'["driver"][j].op = "status"
    <3>1. CASE Probe
      <4>1. todo'["driver"] = ProbeOps
        BY <1>0, <3>1, ProbeTypes
      <4> QED BY <1>0, <4>1, ProbeFits, Zenon
    <3>2. CASE Remove
      <4>1. todo'["driver"] = RemoveOps
        BY <1>0, <3>2, RemoveTypes
      <4> QED BY <4>1, RemoveFits
    <3> QED BY <1>9, <3>1, <3>2
  <2>3. registered' /\ power' = "awake" => lit'
    BY <2>1, Zenon DEF LitInv
  <2>4. power' # "resuming"
    BY <2>1
  <2> QED BY <2>2, <2>3, <2>4 DEF LitInv
<1> QED BY <1>1, <1>3, <1>4, <1>5, <1>6, <1>7, <1>8, <1>9 DEF Next

\* Whatever overlaps, a keyboard with colours is enabled from probe and resume
\* to suspend: clevo_leds_init enables it before it registers LEDs, and
\* clevo_keyboard_resume last.
THEOREM LitWhileAwake == Spec => []LitWhenAwake
<1> DEFINE Inv == PowerStatusInv /\ (Rgb /\ ~env.faults => LitInv)
<1>1. Init => Inv
  <2> SUFFICES ASSUME Init PROVE PowerStatusInv /\ LitInv
    OBVIOUS
  <2>1. power = "awake" /\ registered = FALSE /\ \A c \in Contexts : todo[c] = <<>>
    BY DEF Init
  <2>2. PowerInv /\ StatusInv
    BY <2>1 DEF PowerInv, StatusInv, Idle, Contexts, Quiescent
  <2>3. LitInv
    BY <2>1 DEF LitInv, Contexts
  <2> QED BY <2>2, <2>3, TypesInitially DEF PowerStatusInv
<1>2. Inv /\ [Next]_vars => Inv'
  <2> SUFFICES ASSUME Inv, [Next]_vars PROVE Inv'
    OBVIOUS
  <2>1. PowerStatusInv' /\ env' = env
    BY TypesStay, StatusStays DEF PowerStatusInv
  <2>2. Rgb' = Rgb
    BY <2>1, EnvTells
  <2> QED BY <2>1, <2>2, LitStays
<1>3. Inv => LitWhenAwake
  BY DEF LitWhenAwake, LitInv, Settled
<1> QED BY <1>1, <1>2, <1>3, PTL DEF Spec

-----------------------------------------------------------------------------
(***************************************************************************)
(* The keyboard shows what the LED class devices say                       *)
(***************************************************************************)

OrderInv == RegisteredInv /\ WhiteInv

LEMMA StepKeepsOrder ==
  ASSUME PowerStatusInv, OrderInv, NEW c \in Contexts, Step(c)
  PROVE  OrderInv'
<1>1. Others(c) /\ ~Idle(c) /\ Moves(c) /\ TypeInv
  BY StepMoves DEF PowerStatusInv
<1>2. /\ Current(c) = todo[c][1] /\ Len(todo[c]) \in Nat /\ Len(todo[c]) > 0
      /\ 1 \in 1 .. Len(todo[c])
  BY <1>1, CurrentFits DEF TypeInv
<1>3. bound' = bound /\ keyEvent' = keyEvent
  BY DEF Step, StartRestore, StartColor, StartOff, CallBrightness, AssignBrightness, ReadIntensity,
         CallColor, CallNotify, AssignNotify, CallStatus, CallMode, FinishCycle, Register, world
<1>4. Rgb' = Rgb
  BY <1>1, EnvTells DEF Others
<1>5. registered' /\ ~bound =>
        \E i \in 1 .. Len(todo'["driver"]) : todo'["driver"][i].op = "unregister"
  <2> SUFFICES ASSUME registered', ~bound
               PROVE  \E i \in 1 .. Len(todo'["driver"]) : todo'["driver"][i].op = "unregister"
    OBVIOUS
  <2>1. registered
    <3> SUFFICES ASSUME ~registered PROVE FALSE
      OBVIOUS
    <3>1. Current(c).op = "register"
      <4>1. registered' # registered
        OBVIOUS
      <4> QED BY <1>1, <4>1, Zenon DEF Moves, Stay
    <3>2. c = "driver"
      BY <1>2, <3>1 DEF PowerStatusInv, StatusInv
    <3>3. bound
      BY <1>2, <3>1, <3>2 DEF OrderInv, RegisteredInv
    <3> QED BY <3>3
  <2>2. PICK i \in 1 .. Len(todo["driver"]) : todo["driver"][i].op = "unregister"
    BY <2>1 DEF OrderInv, RegisteredInv
  <2>3. CASE todo'["driver"] = todo["driver"]
    BY <2>2, <2>3
  <2>4. CASE c = "driver" /\ Finished(c)
    <3>1. i # 1
      <4> SUFFICES ASSUME i = 1 PROVE FALSE
        OBVIOUS
      <4>1. Current(c).op = "unregister" /\ todo'[c] # todo[c]
        BY <1>2, <2>2, <2>4 DEF Finished
      <4>2. ~registered'
        <5>1. Current(c).op \notin {"status", "register"} /\ Current(c).op \in DriverOps
          BY <4>1 DEF DriverOps
        <5> QED BY <1>1, <4>1, <5>1, Zenon DEF Moves, GoesOn
      <4> QED BY <4>2
    <3>2. i - 1 \in 1 .. Len(todo[c]) - 1 /\ i - 1 \in 1 .. Len(todo'[c]) /\ (i - 1) + 1 = i
      BY <1>2, <2>2, <2>4, <3>1 DEF Finished
    <3>3. todo'[c][i - 1] = todo[c][i]
      BY <2>4, <3>2 DEF Finished
    <3> QED BY <2>2, <2>4, <3>2, <3>3
  <2>5. CASE c = "driver" /\ GoesOn(c)
    <3>1. PICK op \in Operations : HeadIs(c, op)
      BY <2>5 DEF GoesOn
    <3>2. i # 1
      BY <1>2, <2>2, <2>5 DEF DriverOps, GoesOn
    <3>3. i \in 2 .. Len(todo[c])
      BY <2>2, <2>5, <3>2
    <3>4. todo'[c][i] = todo[c][i] /\ Len(todo'[c]) = Len(todo[c])
      BY <3>1, <3>3 DEF HeadIs
    <3> QED BY <2>2, <2>5, <3>4
  <2>6. CASE c # "driver"
    BY <1>1, <2>3, <2>6 DEF Others, Contexts
  <2>7. todo'[c] = todo[c] \/ Finished(c) \/ GoesOn(c)
    BY <1>1, Zenon DEF Moves
  <2> QED BY <2>3, <2>4, <2>5, <2>6, <2>7
<1>6. ASSUME NEW d \in Contexts, NEW i \in 1 .. Len(todo'[d])
      PROVE  \/ /\ todo'[d][i].op = "notify" => ~Rgb
                /\ d = "driver" /\ todo'[d][i].op = "register" => bound
                /\ i \in 2 .. Len(todo'[d]) => todo'[d][i].op # "send"
  <2>1. CASE todo'[d] = todo[d]
    BY <2>1 DEF OrderInv, RegisteredInv, WhiteInv
  <2>2. CASE d = c /\ Finished(c)
    <3>1. i + 1 \in 1 .. Len(todo[c]) /\ i + 1 \in 2 .. Len(todo[c]) /\ todo'[c][i] = todo[c][i + 1]
      BY <2>2 DEF Finished
    <3> QED BY <2>2, <3>1 DEF OrderInv, RegisteredInv, WhiteInv
  <2>3. CASE d = c /\ GoesOn(c)
    <3>1. PICK op \in Operations : /\ HeadIs(c, op) /\ op.op \notin DriverOps
                                   /\ op.op = "notify" => Current(c).op = "notify"
      BY <2>3 DEF GoesOn
    <3>2. CASE i = 1
      <4>1. todo'[d][i] = op
        BY <2>3, <3>1, <3>2 DEF HeadIs
      <4>2. op.op = "notify" => ~Rgb
        BY <1>2, <3>1 DEF OrderInv, WhiteInv
      <4> QED BY <3>1, <3>2, <4>1, <4>2 DEF DriverOps
    <3>3. CASE i # 1
      <4>1. i \in 2 .. Len(todo[c]) /\ i \in 1 .. Len(todo[c])
        BY <2>3, <3>1, <3>3 DEF HeadIs
      <4>2. todo'[c][i] = todo[c][i]
        BY <3>1, <4>1 DEF HeadIs
      <4> QED BY <2>3, <4>1, <4>2 DEF OrderInv, RegisteredInv, WhiteInv
    <3> QED BY <3>2, <3>3
  <2>4. todo'[c] = todo[c] \/ Finished(c) \/ GoesOn(c)
    BY <1>1, Zenon DEF Moves
  <2> QED BY <1>1, <2>1, <2>2, <2>3, <2>4 DEF Others
<1>7. keyEvent => ~Rgb
  BY DEF OrderInv, WhiteInv
<1>8. \A d \in Contexts : \A i \in 2 .. Len(todo'[d]) : i \in 1 .. Len(todo'[d])
  OBVIOUS
<1>9. RegisteredInv'
  BY <1>3, <1>5, <1>6 DEF RegisteredInv, Contexts
<1>10. WhiteInv'
  BY <1>3, <1>4, <1>6, <1>7, <1>8 DEF WhiteInv
<1> QED BY <1>9, <1>10 DEF OrderInv

\* What begins tells of no change and sends no colour yet.
LEMMA BeginsOrder ==
  ASSUME OrderInv, NEW c \in Contexts, Others(c), keyEvent' => keyEvent,
         \A i \in 1 .. Len(todo'[c]) : todo'[c][i].op = "notify" => ~Rgb,
         \A i \in 2 .. Len(todo'[c]) : todo'[c][i].op # "send"
  PROVE  WhiteInv'
<1>1. Rgb' = Rgb
  BY EnvTells DEF Others
<1>2. ASSUME NEW d \in Contexts
      PROVE  /\ \A i \in 1 .. Len(todo'[d]) : todo'[d][i].op = "notify" => ~Rgb
             /\ \A i \in 2 .. Len(todo'[d]) : todo'[d][i].op # "send"
  <2>1. CASE d = c
    BY <2>1
  <2>2. CASE d # c
    <3>1. todo'[d] = todo[d]
      BY <2>2 DEF Others
    <3> QED BY <3>1 DEF OrderInv, WhiteInv
  <2> QED BY <2>1, <2>2
<1>3. keyEvent' => ~Rgb
  BY DEF OrderInv, WhiteInv
<1> QED BY <1>1, <1>2, <1>3 DEF WhiteInv

LEMMA OrderStays ==
  ASSUME PowerStatusInv, OrderInv, [Next]_vars
  PROVE  OrderInv'
<1>0. TypeInv /\ RegisteredInv /\ WhiteInv
  BY DEF PowerStatusInv, OrderInv
<1>1. ASSUME NEW c \in Contexts, Step(c) PROVE OrderInv'
  BY <1>1, StepKeepsOrder
<1>2. ASSUME NEW c \in Contexts \ {"driver"}, Others(c), keyEvent' => keyEvent,
             UNCHANGED <<bound, registered>>,
             \A i \in 1 .. Len(todo'[c]) : /\ todo'[c][i].op = "notify" => ~Rgb
                                           /\ todo'[c][i].op # "send"
      PROVE  OrderInv'
  <2>1. todo'["driver"] = todo["driver"]
    BY <1>2 DEF Others, Contexts
  <2>2. RegisteredInv'
    BY <1>0, <1>2, <2>1, Zenon DEF RegisteredInv
  <2>3. \A i \in 2 .. Len(todo'[c]) : i \in 1 .. Len(todo'[c])
    OBVIOUS
  <2>4. WhiteInv'
    BY <1>2, <2>3, BeginsOrder
  <2> QED BY <2>2, <2>4 DEF OrderInv
<1>3. ASSUME NEW op, op.op \notin {"notify", "send"}
      PROVE  \A i \in 1 .. Len(<<op>>) : /\ <<op>>[i].op = "notify" => ~Rgb
                                         /\ <<op>>[i].op # "send"
  <2>1. Len(<<op>>) = 1 /\ <<op>>[1] = op
    OBVIOUS
  <2> QED BY <1>3, <2>1
<1>4. ASSUME NEW z \in Zones, NEW b \in Levels, Store(z, b) \/ \E id \in ColorIds : StoreIntensity(z, id)
      PROVE  OrderInv'
  <2>1. UNCHANGED <<bound, registered, keyEvent>>
    BY <1>4 DEF Store, StoreIntensity, world
  <2>2. PICK l : Others("sysfs") /\ todo'["sysfs"] = <<Brightness(z, l)>>
    BY <1>0, <1>4, StoreFits, StoreIntensityFits
  <2>3. Brightness(z, l).op \notin {"notify", "send"}
    BY DEF Brightness
  <2> QED BY <1>2, <1>3, <2>1, <2>2, <2>3 DEF Contexts
<1>5. ASSUME NEW m \in Modes, StoreMode(m) PROVE OrderInv'
  <2>1. UNCHANGED <<bound, registered, keyEvent>>
    BY <1>5 DEF StoreMode, world, memory
  <2>2. Others("sysfs") /\ todo'["sysfs"] = <<Mode(m)>>
    BY <1>0, <1>5, StoreModeFits
  <2>3. Mode(m).op \notin {"notify", "send"}
    BY DEF Mode
  <2> QED BY <1>2, <1>3, <2>1, <2>2, <2>3 DEF Contexts
<1>6. CASE BrightnessEvent
  <2>1. UNCHANGED <<bound, registered>> /\ keyEvent' = FALSE /\ ~Rgb
    BY <1>0, <1>6 DEF BrightnessEvent, memory, WhiteInv
  <2>2. Others("event") /\ todo'["event"] = <<Op("notify")>>
    BY <1>0, <1>6, BrightnessEventFits
  <2>3. \A i \in 1 .. Len(<<Op("notify")>>) : <<Op("notify")>>[i].op # "send"
    BY DEF Op
  <2> QED BY <1>2, <2>1, <2>2, <2>3 DEF Contexts
<1>7. CASE CycleEvent
  <2>1. UNCHANGED <<bound, registered, keyEvent>> /\ Rgb
    BY <1>7 DEF CycleEvent, world, memory
  <2>2. Others("event") /\ todo'["event"] = CycleOps
    BY <1>0, <1>7, CycleEventFits
  <2>3. \A i \in 1 .. Len(CycleOps) : CycleOps[i].op \notin {"notify", "send"}
    BY <1>0, <2>1, CycleFits DEF Fits
  <2> QED BY <1>2, <2>1, <2>2, <2>3 DEF Contexts
<1>8. CASE Suspend
  <2>1. UNCHANGED <<bound, registered, keyEvent>>
    BY <1>8 DEF Suspend, memory
  <2>2. Others("pm") /\ todo'["pm"] = SuspendOps
    BY <1>0, <1>8, SuspendFits
  <2>3. \A i \in 1 .. Len(SuspendOps) : SuspendOps[i].op \notin {"notify", "send"}
    <3>1. CASE Rgb
      BY <3>1 DEF SuspendOps, Status
    <3>2. CASE ~Rgb
      BY <3>2 DEF SuspendOps
    <3> QED BY <3>1, <3>2
  <2> QED BY <1>2, <2>1, <2>2, <2>3 DEF Contexts
<1>9. CASE Resume
  <2>1. UNCHANGED <<bound, registered, keyEvent>>
    BY <1>9 DEF Resume, memory
  <2>2. Others("pm") /\ todo'["pm"] = ResumeOps
    BY <1>0, <1>9, ResumeTypes
  <2>3. \A i \in 1 .. Len(ResumeOps) : ResumeOps[i].op \notin {"notify", "send"}
    BY ResumeFits DEF Fits
  <2> QED BY <1>2, <2>1, <2>2, <2>3 DEF Contexts
<1>10. CASE Probe
  <2>1. bound' = TRUE /\ keyEvent' = keyEvent
    BY <1>10 DEF Probe
  <2>2. Others("driver") /\ todo'["driver"] = ProbeOps
    BY <1>0, <1>10, ProbeTypes
  <2>3. \A i \in 1 .. Len(ProbeOps) : ProbeOps[i].op \notin {"notify", "send"}
    BY <1>0, ProbeFits DEF Fits
  <2>4. \A i \in 2 .. Len(ProbeOps) : i \in 1 .. Len(ProbeOps)
    OBVIOUS
  <2>5. WhiteInv'
    BY <2>1, <2>2, <2>3, <2>4, BeginsOrder DEF Contexts
  <2>6. RegisteredInv'
    BY <2>1 DEF RegisteredInv
  <2> QED BY <2>5, <2>6 DEF OrderInv
<1>11. CASE Remove
  <2>1. bound' = FALSE /\ keyEvent' = FALSE /\ registered' = registered
    BY <1>11 DEF Remove, memory
  <2>2. Others("driver") /\ todo'["driver"] = RemoveOps
    BY <1>0, <1>11, RemoveTypes
  <2>3. \A i \in 1 .. Len(RemoveOps) : RemoveOps[i].op \in {"off", "unregister"}
    BY RemoveFits
  <2>4. \A i \in 2 .. Len(RemoveOps) : i \in 1 .. Len(RemoveOps)
    OBVIOUS
  <2>5. WhiteInv'
    BY <2>1, <2>2, <2>3, <2>4, BeginsOrder DEF Contexts
  <2>6. registered => Len(RemoveOps) \in 1 .. Len(RemoveOps) /\ RemoveOps[Len(RemoveOps)].op = "unregister"
    BY RemoveFits DEF Fits
  <2>7. RegisteredInv'
    BY <2>1, <2>2, <2>3, <2>6, Zenon DEF RegisteredInv
  <2> QED BY <2>5, <2>7 DEF OrderInv
<1>12. ASSUME NEW b \in Levels, FnKey(b) PROVE OrderInv'
  <2>1. UNCHANGED <<bound, registered, todo, env>> /\ ~Rgb
    BY <1>12 DEF FnKey, memory
  <2>2. Rgb' = Rgb
    BY <2>1, EnvTells
  <2>3. RegisteredInv'
    BY <1>0, <2>1, Zenon DEF RegisteredInv
  <2>4. WhiteInv'
    BY <1>0, <2>1, <2>2 DEF WhiteInv
  <2> QED BY <2>3, <2>4 DEF OrderInv
<1>13. CASE Sleep \/ Wake \/ Thaw \/ UNCHANGED vars
  <2>1. UNCHANGED <<bound, registered, keyEvent, todo, env>>
    BY <1>13 DEF Sleep, Wake, Thaw, vars, world, memory
  <2>2. Rgb' = Rgb
    BY <2>1, EnvTells
  <2>3. RegisteredInv'
    BY <1>0, <2>1, Zenon DEF RegisteredInv
  <2>4. WhiteInv'
    BY <1>0, <2>1, <2>2 DEF WhiteInv
  <2> QED BY <2>3, <2>4 DEF OrderInv
<1> QED BY <1>1, <1>4, <1>5, <1>6, <1>7, <1>8, <1>9, <1>10, <1>11, <1>12, <1>13, ClevoAssumption DEF Next

\* When no other context is busy, the one that is says all.
LEMMA OneSaysAll ==
  \A d \in Contexts : Lone(d) /\ BrightnessAt(d) /\ ColorAt(d) => SerialInv
<1> SUFFICES ASSUME NEW c \in Contexts, Lone(c), BrightnessAt(c), ColorAt(c) PROVE SerialInv
  OBVIOUS
<1>1. OneAtATime
  BY DEF OneAtATime, Lone
<1>2. ASSUME NEW d \in Contexts, Lone(d) PROVE BrightnessAt(d) /\ ColorAt(d)
  <2>1. CASE d = c
    BY <2>1
  <2>2. CASE d # c
    <3>1. Idle(c) /\ Idle(d)
      BY <1>2, <2>2 DEF Lone
    <3>2. BrightnessAt(d)
      BY <3>1 DEF BrightnessAt
    <3>3. \A z : ~Pending(c, z)
      BY <3>1 DEF Pending, Idle
    <3>4. ColorAt(d)
      BY <3>1, <3>3 DEF ColorAt, At
    <3> QED BY <3>2, <3>4
  <2> QED BY <2>1, <2>2
<1> QED BY <1>1, <1>2 DEF SerialInv

OneSpeaks == \A c \in Contexts : Lone(c) /\ BrightnessAt(c) /\ ColorAt(c) => SerialInv

LEMMA OneSpeaksAlways == OneSpeaks /\ OneSpeaks'
<1>1. OneSpeaks
  BY OneSaysAll DEF OneSpeaks
<1> QED BY <1>1, PTL

LEMMA OnlyOneMoves ==
  ASSUME NEW c \in Contexts, Lone(c), Others(c), BrightnessAt(c)', ColorAt(c)'
  PROVE  SerialInv'
<1>1. Lone(c)'
  BY DEF Lone, Others, Idle
<1> QED BY <1>1, OneSpeaksAlways DEF OneSpeaks

\* At the start of an operation, or with nothing under way.
LEMMA AtItsStart ==
  ASSUME NEW c \in Contexts, pc'[c] = "start",
         todo'[c] = <<>> => Same' /\ (power' \in {"asleep", "waking"} \/ Shown(led[0])'),
         todo'[c] # <<>> /\ Head(todo'[c]).op # "brightness" =>
           /\ Same'
           /\ \/ Head(todo'[c]).op \in {"restore", "off", "color", "notify"}
              \/ power' = "waking" \/ Shown(led[0])'
  PROVE  BrightnessAt(c)'
<1>1. CASE todo'[c] = <<>>
  BY <1>1 DEF BrightnessAt, Idle
<1>2. CASE todo'[c] # <<>>
  <2>1. /\ ~At(c, "notify", "assign")' /\ ~At(c, "brightness", "color")'
        /\ \A k \in 0 .. 2 : ~At(c, "brightness", AssignStep[k])'
    BY StepFacts DEF At
  <2>2. Current(c)' = Head(todo'[c]) /\ ~Idle(c)'
    BY <1>2 DEF Current, Idle
  <2>3. CASE Head(todo'[c]).op = "brightness"
    BY <2>1, <2>2, <2>3 DEF BrightnessAt
  <2>4. CASE Head(todo'[c]).op # "brightness"
    <3>1. Current(c)'.op \in {"restore", "off", "color", "notify"} => Calls(c)'
      BY DEF Calls
    <3>2. Same' /\ (Calls(c)' \/ power' = "waking" \/ Shown(led[0])')
      BY <1>2, <2>2, <2>4, <3>1
    <3> QED BY <2>1, <2>2, <3>2 DEF BrightnessAt
  <2> QED BY <2>3, <2>4
<1> QED BY <1>1, <1>2

\* The brightness, in each step of an operation.
LEMMA StepBrightness ==
  ASSUME PowerStatusInv, OrderInv, ~env.faults, NEW c \in Contexts, Step(c), BrightnessAt(c)
  PROVE  BrightnessAt(c)'
<1>0. /\ TypeInv /\ ~Idle(c) /\ env' = env /\ Zones' = Zones /\ Rgb' = Rgb /\ power' = power
      /\ bound' = bound /\ keyEvent' = keyEvent
  <2>1. TypeInv /\ Others(c) /\ power' = power /\ ~Idle(c)
    BY StepMoves DEF PowerStatusInv
  <2>2. bound' = bound /\ keyEvent' = keyEvent
    BY DEF Step, StartRestore, StartColor, StartOff, CallBrightness, AssignBrightness, ReadIntensity,
           CallColor, CallNotify, AssignNotify, CallStatus, CallMode, FinishCycle, Register, world
  <2> QED BY <2>1, <2>2, EnvTells DEF Others
<1>1. /\ Current(c).op # "brightness" => Same
      /\ At(c, "notify", "assign") => Shown(Current(c).level)
      /\ \A k \in 0 .. 2 : At(c, "brightness", AssignStep[k]) =>
           Shown(Current(c).level) /\ \A z \in Zones : z < k => led[z] = Current(c).level
      /\ At(c, "brightness", "color") => Same
      /\ At(c, "brightness", "color") \/ Current(c).op # "brightness" =>
           Calls(c) \/ power = "waking" \/ Shown(led[0])
  BY <1>0 DEF BrightnessAt
<1>2. led \in [Zones -> Values] /\ 0 \in Zones /\ Zones \subseteq 0 .. 2
  BY <1>0, TypeParts, StepFacts, ZoneTypes DEF DataInv
<1>3. CASE StartRestore(c) \/ StartOff(c) \/ StartColor(c)
  <2>1. pc'[c] = "start" /\ \E z, l : HeadIs(c, Brightness(z, l))
    BY <1>0, <1>3, StartRestoreFits, StartOffFits, StartColorFits
  <2>2. todo'[c] # <<>> /\ Head(todo'[c]).op = "brightness"
    BY <2>1 DEF HeadIs, Brightness
  <2> QED BY <2>1, <2>2, AtItsStart
<1>4. CASE CallBrightness(c)
  <2>1. Current(c).op = "brightness"
    BY <1>4 DEF CallBrightness, At, Current
  <2>2. Byte(Current(c).level) = Current(c).level
    BY <1>0, <1>4, <2>1, CurrentFits, ValueFacts DEF TypeInv, CallBrightness, At
  <2>3. todo' = todo /\ pc'[c] = AssignStep[0] /\ bright' = Current(c).level
    BY <1>0, <1>4, <2>2, CallBrightnessFits DEF CallBrightness, Finish, Finished
  <2>4. Current(c)' = Current(c) /\ ~Idle(c)'
    BY <1>0, <2>3 DEF Current, Idle
  <2>5. ~At(c, "notify", "assign")' /\ ~At(c, "brightness", "color")'
    BY <2>3, StepFacts DEF At
  <2>6. ASSUME NEW k \in 0 .. 2, At(c, "brightness", AssignStep[k])'
        PROVE  k = 0 /\ Shown(Current(c).level)'
    <3>1. AssignStep[k] = AssignStep[0] /\ 0 \in 0 .. 2
      BY <2>3, <2>6 DEF At
    <3>2. k = 0
      BY <3>1, StepFacts
    <3>3. bright' = Current(c)'.level
      BY <2>3, <2>4
    <3> QED BY <3>2, <3>3 DEF Shown
  <2>7. \A z \in Zones' : ~(z < 0)
    BY <1>0, <1>2
  <2> QED BY <2>1, <2>4, <2>5, <2>6, <2>7 DEF BrightnessAt
<1>5. ASSUME NEW z \in Zones, AssignBrightness(c, z) PROVE BrightnessAt(c)'
  <2>1. /\ Current(c).op = "brightness" /\ At(c, "brightness", AssignStep[z]) /\ z \in 0 .. 2
        /\ led' = [led EXCEPT ![z] = Current(c).level] /\ bright' = bright
    BY <1>2, <1>5 DEF AssignBrightness, At, Current, firmware
  <2>2. PICK l \in Values : l = Current(c).level
    BY <1>0, <2>1, CurrentFits DEF TypeInv
  <2>3. (bright = l \/ keyEvent \/ ~bound) /\ \A y \in Zones : y < z => led[y] = l
    BY <1>1, <2>1, <2>2 DEF Shown
  <2>4. \A y \in Zones : y <= z => led'[y] = l
    BY <1>2, <2>1, <2>2, <2>3
  <2>5. Shown(l)'
    BY <1>0, <2>1, <2>3 DEF Shown
  <2>6. z + 1 \notin Zones => /\ \A y \in Zones : led'[y] = l
                              /\ Same' /\ Shown(led[0])'
    <3> SUFFICES ASSUME z + 1 \notin Zones PROVE (\A y \in Zones : led'[y] = l) /\ Same' /\ Shown(led[0])'
      OBVIOUS
    <3>1. \A y \in Zones : y <= z
      BY <2>1, ZoneTypes
    <3>2. \A y \in Zones : led'[y] = l
      BY <2>4, <3>1
    <3>3. Same'
      BY <1>0, <3>2 DEF Same
    <3>4. led'[0] = l
      BY <1>2, <3>2
    <3> QED BY <2>5, <3>2, <3>3, <3>4 DEF Shown
  <2>7. CASE z + 1 \in Zones /\ todo' = todo /\ pc'[c] = AssignStep[z + 1]
    <3>1. Current(c)' = Current(c) /\ ~Idle(c)' /\ z + 1 \in 0 .. 2
      BY <1>0, <1>2, <2>7 DEF Current, Idle
    <3>2. ~At(c, "notify", "assign")' /\ ~At(c, "brightness", "color")'
      BY <2>7, <3>1, StepFacts DEF At
    <3>3. ASSUME NEW k \in 0 .. 2, At(c, "brightness", AssignStep[k])'
          PROVE  Shown(Current(c).level)' /\ \A y \in Zones' : y < k => led'[y] = Current(c)'.level
      <4>1. k = z + 1
        BY <2>7, <3>1, <3>3, StepFacts DEF At
      <4>2. \A y \in Zones : y < k => y <= z
        BY <1>2, <2>1, <4>1
      <4>3. Current(c)'.level = l
        BY <2>2, <3>1
      <4>4. Shown(Current(c).level)'
        BY <2>5, <4>3 DEF Shown
      <4> QED BY <1>0, <2>4, <4>2, <4>3, <4>4
    <3> QED BY <2>1, <3>1, <3>2, <3>3 DEF BrightnessAt
  <2>8. CASE z + 1 \notin Zones /\ Rgb /\ todo' = todo /\ pc'[c] = "color"
    <3>1. Current(c)' = Current(c) /\ ~Idle(c)'
      BY <1>0, <2>8 DEF Current, Idle
    <3>2. ~At(c, "notify", "assign")' /\ \A k \in 0 .. 2 : ~At(c, "brightness", AssignStep[k])'
      BY <2>8, StepFacts DEF At
    <3> QED BY <2>1, <2>6, <2>8, <3>1, <3>2 DEF BrightnessAt
  <2>9. CASE z + 1 \notin Zones /\ Finished(c)
    <3>1. pc'[c] = "start"
      BY <2>9 DEF Finished
    <3> QED BY <2>6, <2>9, <3>1, AtItsStart
  <2> QED BY <1>0, <1>5, <2>7, <2>8, <2>9, AssignBrightnessFits
<1>6. CASE ReadIntensity(c)
  <2>1. /\ Current(c).op = "brightness" /\ pc[c] = "color" /\ At(c, "brightness", "color")
        /\ led' = led /\ bright' = bright
    BY <1>6 DEF ReadIntensity, At, Current, memory, firmware
  <2>2. Same /\ (power = "waking" \/ Shown(led[0]))
    <3>1. ~Calls(c)
      BY <2>1 DEF Calls, At
    <3> QED BY <1>1, <2>1, <3>1
  <2>3. Same' /\ (power' = "waking" \/ Shown(led[0])')
    BY <1>0, <2>1, <2>2 DEF Same, Shown
  <2>4. pc'[c] = "start" /\ todo'[c] # <<>>
    BY <1>0, <1>6, ReadIntensityFits DEF HeadIs
  <2> QED BY <2>3, <2>4, AtItsStart
<1>7. CASE CallColor(c) \/ CallStatus(c) \/ CallMode(c) \/ FinishCycle(c) \/ Register(c)
  <2>1. /\ Current(c).op \in {"send", "status", "mode", "cycled", "register", "unregister"}
        /\ led' = led /\ bright' = bright
    BY <1>7 DEF CallColor, CallStatus, CallMode, FinishCycle, Register, At, Current, memory, firmware
  <2>2. Same /\ (power = "waking" \/ Shown(led[0]))
    <3>1. ~Calls(c)
      BY <2>1 DEF Calls, At, Current
    <3> QED BY <1>1, <2>1, <3>1
  <2>3. Same' /\ (power' = "waking" \/ Shown(led[0])')
    BY <1>0, <2>1, <2>2 DEF Same, Shown
  <2>4. pc'[c] = "start"
    BY <1>0, <1>7, EndsFits DEF Ends, Finished
  <2> QED BY <2>3, <2>4, AtItsStart
<1>8. CASE CallNotify(c)
  <2>1. /\ Current(c).op = "notify" /\ led' = led /\ bright' = bright
    BY <1>8 DEF CallNotify, At, Current, memory, firmware
  <2>2. PICK b \in Values : /\ HeadIs(c, [op |-> "notify", level |-> b]) /\ b = bright
                            /\ pc'[c] = "assign"
    BY <1>0, <1>8, CallNotifyFits
  <2>3. ~Idle(c)' /\ Current(c)' = [op |-> "notify", level |-> b]
    BY <2>2 DEF HeadIs, Idle, Current
  <2>4. Current(c)'.op = "notify" /\ Current(c)'.level = b
    BY <2>3
  <2>5. Same'
    BY <1>0, <1>1, <2>1 DEF Same
  <2>6. Shown(Current(c).level)'
    BY <2>1, <2>2, <2>4 DEF Shown
  <2>7. ~At(c, "brightness", "color")' /\ \A k \in 0 .. 2 : ~At(c, "brightness", AssignStep[k])'
    BY <2>2, StepFacts DEF At
  <2>8. Calls(c)'
    BY <2>4 DEF Calls
  <2> QED BY <2>3, <2>5, <2>6, <2>7, <2>8 DEF BrightnessAt
<1>9. CASE AssignNotify(c)
  <2>1. /\ At(c, "notify", "assign") /\ Current(c).op = "notify" /\ bright' = bright
        /\ led' = [led EXCEPT ![0] = Current(c).level]
    BY <1>9 DEF AssignNotify, At, Current, firmware
  <2>2. Zones = {0}
    <3>1. Current(c) = todo[c][1] /\ 1 \in 1 .. Len(todo[c])
      BY <1>0, CurrentFits DEF TypeInv
    <3>2. ~Rgb
      BY <2>1, <3>1 DEF OrderInv, WhiteInv
    <3> QED BY <3>2, ZoneTypes
  <2>3. led'[0] = Current(c).level /\ Shown(Current(c).level)
    BY <1>1, <1>2, <2>1
  <2>4. Same' /\ Shown(led[0])'
    BY <1>0, <2>1, <2>2, <2>3 DEF Same, Shown
  <2>5. pc'[c] = "start"
    BY <1>0, <1>9, EndsFits DEF Ends, Finished
  <2> QED BY <2>4, <2>5, AtItsStart
<1> QED BY <1>3, <1>4, <1>5, <1>6, <1>7, <1>8, <1>9 DEF Step

\* The colours that are still to be sent.
PendingOps == {"restore", "color", "brightness", "send"}

LEMMA PendingGoesOn ==
  ASSUME NEW c \in Contexts, NEW op, HeadIs(c, op), op.op \in PendingOps, op.zone = Current(c).zone
  PROVE  Pending(c, op.zone)' /\ \A z : Pending(c, z) => Pending(c, z)'
<1>1. 1 \in 1 .. Len(todo'[c]) /\ todo'[c][1] = op /\ Current(c) = todo[c][1]
      /\ Len(todo'[c]) = Len(todo[c]) /\ Len(todo[c]) \in Nat
  BY DEF HeadIs, Current
<1>2. ASSUME NEW z, z = op.zone PROVE Pending(c, z)'
  BY <1>1, <1>2 DEF Pending, PendingOps
<1>3. ASSUME NEW z, Pending(c, z) PROVE Pending(c, z)'
  <2>1. PICK i \in 1 .. Len(todo[c]) : todo[c][i].op \in PendingOps /\ todo[c][i].zone = z
    BY <1>3 DEF Pending, PendingOps
  <2>2. CASE i = 1
    BY <1>1, <1>2, <2>1, <2>2
  <2>3. CASE i # 1
    <3>1. i \in 2 .. Len(todo[c])
      BY <1>1, <2>3
    <3>2. todo'[c][i] = todo[c][i]
      BY <3>1 DEF HeadIs
    <3> QED BY <1>1, <2>1, <3>2 DEF Pending, PendingOps
  <2> QED BY <2>2, <2>3
<1> QED BY <1>2, <1>3

LEMMA PendingEnds ==
  ASSUME NEW c \in Contexts, Finished(c), NEW z, Pending(c, z),
         Current(c).op \notin PendingOps \/ Current(c).zone # z
  PROVE  Pending(c, z)'
<1>1. PICK i \in 1 .. Len(todo[c]) : todo[c][i].op \in PendingOps /\ todo[c][i].zone = z
  BY DEF Pending, PendingOps
<1>2. Current(c) = todo[c][1] /\ Len(todo[c]) \in Nat /\ Len(todo'[c]) = Len(todo[c]) - 1
  BY DEF Finished, Current
<1>3. i # 1
  BY <1>1, <1>2
<1>4. i - 1 \in 1 .. Len(todo[c]) - 1 /\ (i - 1) + 1 = i
  BY <1>2, <1>3
<1>5. todo'[c][i - 1] = todo[c][i] /\ i - 1 \in 1 .. Len(todo'[c])
  BY <1>2, <1>4 DEF Finished
<1> QED BY <1>1, <1>5 DEF Pending, PendingOps

LEMMA StepColor ==
  ASSUME PowerStatusInv, OrderInv, ~env.faults, NEW c \in Contexts, Step(c), ColorAt(c)
  PROVE  ColorAt(c)'
<1>0. /\ TypeInv /\ ~Idle(c) /\ env' = env /\ Zones' = Zones /\ Rgb' = Rgb /\ power' = power
      /\ bound' = bound /\ Current(c) = todo[c][1] /\ 1 \in 1 .. Len(todo[c])
  <2>1. TypeInv /\ Others(c) /\ power' = power /\ ~Idle(c)
    BY StepMoves DEF PowerStatusInv
  <2>2. bound' = bound
    BY DEF Step, StartRestore, StartColor, StartOff, CallBrightness, AssignBrightness, ReadIntensity,
           CallColor, CallNotify, AssignNotify, CallStatus, CallMode, FinishCycle, Register, world
  <2>3. Current(c) = todo[c][1] /\ 1 \in 1 .. Len(todo[c])
    BY <2>1, CurrentFits DEF TypeInv
  <2> QED BY <2>1, <2>2, <2>3, EnvTells DEF Others
<1>1. \A x : Sent(x)' = Sent(x)
  BY <1>0, EnvTells
<1>2. ASSUME Finished(c), UNCHANGED <<shown, intensity>>, Current(c).op \notin PendingOps \/ ~Rgb
      PROVE  ColorAt(c)'
  <2>1. ASSUME At(c, "send", "start")' PROVE FALSE
    <3>1. todo'[c] # <<>> /\ Head(todo'[c]).op = "send"
      BY <2>1 DEF At, Idle
    <3>2. Head(todo'[c]) = todo[c][2] /\ 2 \in 2 .. Len(todo[c])
      BY <1>2, <3>1 DEF Finished
    <3> QED BY <3>1, <3>2 DEF OrderInv, WhiteInv
  <2>2. ASSUME Rgb, NEW z \in Zones
        PROVE  \/ Pending(c, z)' \/ ~bound \/ power \in {"asleep", "waking"}
               \/ shown'[z] = Sent(intensity'[z])
    <3>1. CASE Pending(c, z)
      BY <1>2, <2>2, <3>1, PendingEnds
    <3>2. CASE ~Pending(c, z)
      BY <1>2, <2>2, <3>2 DEF ColorAt
    <3> QED BY <3>1, <3>2
  <2> QED BY <1>0, <1>1, <2>1, <2>2 DEF ColorAt
<1>3. ASSUME NEW op, HeadIs(c, op), op.op \in PendingOps, op.zone = Current(c).zone,
             shown' = shown, \A z \in Zones \ {op.zone} : intensity'[z] = intensity[z],
             op.op = "send" => op.color = Sent(intensity'[op.zone])
      PROVE  ColorAt(c)'
  <2>1. Current(c)' = op
    BY <1>3 DEF HeadIs, Current
  <2>2. Pending(c, op.zone)' /\ \A z : Pending(c, z) => Pending(c, z)'
    BY <1>3, PendingGoesOn
  <2>3. ASSUME At(c, "send", "start")' PROVE Current(c)'.color = Sent(intensity'[Current(c)'.zone])
    <3>1. op.op = "send"
      BY <2>1, <2>3 DEF At, Current
    <3> QED BY <1>3, <2>1, <3>1
  <2>4. ASSUME Rgb, NEW z \in Zones
        PROVE  \/ Pending(c, z)' \/ ~bound \/ power \in {"asleep", "waking"}
               \/ shown'[z] = Sent(intensity'[z])
    <3>1. CASE z = op.zone
      BY <2>2, <3>1
    <3>2. CASE z # op.zone
      BY <1>3, <2>2, <2>4, <3>2 DEF ColorAt
    <3> QED BY <3>1, <3>2
  <2> QED BY <1>0, <1>1, <2>3, <2>4 DEF ColorAt
<1>4. ASSUME todo'[c] = todo[c], Current(c).op = "brightness", UNCHANGED <<shown, intensity>>
      PROVE  ColorAt(c)'
  <2>1. ~At(c, "send", "start")'
    BY <1>4 DEF At, Current
  <2>2. \A z : Pending(c, z)' <=> Pending(c, z)
    BY <1>4 DEF Pending
  <2> QED BY <1>0, <1>1, <1>4, <2>1, <2>2 DEF ColorAt
<1>5. CASE StartRestore(c) \/ StartOff(c) \/ StartColor(c)
  <2>1. PICK l : HeadIs(c, Brightness(Current(c).zone, l))
    BY <1>0, <1>5, StartRestoreFits, StartOffFits, StartColorFits
  <2> DEFINE op == Brightness(Current(c).zone, l)
  <2>2. op.op = "brightness" /\ op.zone = Current(c).zone /\ HeadIs(c, op)
    BY <2>1 DEF Brightness
  <2> HIDE DEF op
  <2>3. shown' = shown /\ intensity \in [Zones -> Colors]
    BY <1>0, <1>5, TypeParts DEF StartRestore, StartOff, StartColor, firmware, DataInv
  <2>4. \A z \in Zones \ {op.zone} : intensity'[z] = intensity[z]
    BY <1>5, <2>2, <2>3 DEF StartRestore, StartOff, StartColor, memory
  <2> QED BY <1>3, <2>2, <2>3, <2>4 DEF PendingOps
<1>6. CASE CallBrightness(c)
  <2>1. UNCHANGED <<shown, intensity>> /\ Current(c).op = "brightness" /\ todo' = todo
    BY <1>0, <1>6, CallBrightnessFits DEF CallBrightness, memory, At, Current
  <2> QED BY <1>4, <2>1
<1>7. ASSUME NEW z \in Zones, AssignBrightness(c, z) PROVE ColorAt(c)'
  <2>1. UNCHANGED <<shown, intensity>> /\ Current(c).op = "brightness"
    BY <1>7 DEF AssignBrightness, firmware, At, Current
  <2>2. todo' = todo \/ (~Rgb /\ Finished(c))
    BY <1>0, <1>7, AssignBrightnessFits
  <2> QED BY <1>2, <1>4, <2>1, <2>2
<1>8. CASE ReadIntensity(c)
  <2> DEFINE op == [op |-> "send", zone |-> Current(c).zone,
                    color |-> Sent(intensity[Current(c).zone])]
  <2>1. HeadIs(c, op) /\ UNCHANGED <<shown, intensity>>
    BY <1>0, <1>8, ReadIntensityFits DEF ReadIntensity, firmware, memory
  <2>2. op.op = "send" /\ op.zone = Current(c).zone /\ op.color = Sent(intensity[op.zone])
    OBVIOUS
  <2> HIDE DEF op
  <2> QED BY <1>3, <2>1, <2>2 DEF PendingOps
<1>9. CASE CallColor(c)
  <2> DEFINE y == Current(c).zone
  <2>1. /\ At(c, "send", "start") /\ intensity' = intensity /\ Current(c).op = "send"
        /\ \E s \in Called(shown[y], Current(c).color) : shown' = [shown EXCEPT ![y] = s]
    BY <1>9 DEF CallColor, memory, At, Current
  <2>2. Current(c).color = Sent(intensity[y]) /\ y \in Zones
    BY <1>0, <2>1, CurrentFits DEF ColorAt, TypeInv
  <2>3. Called(shown[y], Current(c).color) = {Sent(intensity[y])}
    BY <2>2 DEF Called
  <2>4. shown' = [shown EXCEPT ![y] = Sent(intensity[y])] /\ shown \in [Zones -> Triples]
    BY <1>0, <2>1, <2>3, TypeParts DEF DataInv
  <2>5. Finished(c)
    BY <1>0, <1>9, EndsFits DEF Ends
  <2>6. ASSUME At(c, "send", "start")' PROVE FALSE
    <3>1. todo'[c] # <<>> /\ Head(todo'[c]).op = "send"
      BY <2>6 DEF At, Idle
    <3>2. Head(todo'[c]) = todo[c][2] /\ 2 \in 2 .. Len(todo[c])
      BY <2>5, <3>1 DEF Finished
    <3> QED BY <3>1, <3>2 DEF OrderInv, WhiteInv
  <2>7. ASSUME Rgb, NEW z \in Zones
        PROVE  \/ Pending(c, z)' \/ ~bound \/ power \in {"asleep", "waking"}
               \/ shown'[z] = Sent(intensity'[z])
    <3>1. CASE z = y
      BY <2>1, <2>2, <2>4, <3>1
    <3>2. CASE z # y /\ Pending(c, z)
      BY <2>5, <3>2, PendingEnds
    <3>3. CASE z # y /\ ~Pending(c, z)
      <4>1. shown'[z] = shown[z] /\ intensity'[z] = intensity[z]
        BY <2>1, <2>2, <2>4, <3>3
      <4> QED BY <2>7, <3>3, <4>1 DEF ColorAt
    <3> QED BY <3>1, <3>2, <3>3
  <2> QED BY <1>0, <1>1, <2>6, <2>7 DEF ColorAt
<1>10. CASE CallNotify(c)
  <2>1. UNCHANGED <<shown, intensity>> /\ Current(c).op = "notify"
    BY <1>10 DEF CallNotify, firmware, memory, At, Current
  <2>2. ~Rgb
    BY <1>0, <2>1 DEF OrderInv, WhiteInv
  <2>3. pc'[c] = "assign"
    BY <1>0, <1>10, CallNotifyFits
  <2> QED BY <1>0, <2>2, <2>3 DEF ColorAt, At
<1>11. CASE AssignNotify(c) \/ CallStatus(c) \/ CallMode(c) \/ FinishCycle(c) \/ Register(c)
  <2>1. UNCHANGED <<shown, intensity>> /\ Current(c).op \notin PendingOps
    BY <1>11 DEF AssignNotify, CallStatus, CallMode, FinishCycle, Register, firmware, memory, At,
                 Current, PendingOps
  <2>2. Finished(c)
    BY <1>0, <1>11, EndsFits DEF Ends
  <2> QED BY <1>2, <2>1, <2>2
<1> QED BY <1>5, <1>6, <1>7, <1>8, <1>9, <1>10, <1>11 DEF Step

\* With nothing under way.
LEMMA AtRest ==
  ASSUME SerialInv, Quiescent
  PROVE  /\ Same /\ (power \in {"asleep", "waking"} \/ Shown(led[0]))
         /\ Rgb => \A z \in Zones :
              ~bound \/ power \in {"asleep", "waking"} \/ shown[z] = Sent(intensity[z])
<1>1. "sysfs" \in Contexts /\ Idle("sysfs") /\ Lone("sysfs")
  BY DEF Contexts, Quiescent, Lone
<1>2. BrightnessAt("sysfs") /\ ColorAt("sysfs")
  BY <1>1 DEF SerialInv
<1>3. \A z : ~Pending("sysfs", z)
  BY <1>1 DEF Idle, Pending
<1> QED BY <1>1, <1>2, <1>3 DEF BrightnessAt, ColorAt

LEMMA BeginsAtRest ==
  ASSUME env.overlaps = {}, NEW c \in Contexts, NEW ops, Begin(c, ops)
  PROVE  Quiescent /\ Lone(c)
  BY DEF Begin, Quiescent, Lone

\* The colours, when an operation that is not sending one begins.
LEMMA BeginsColor ==
  ASSUME SerialInv, Quiescent, env' = env, NEW c \in Contexts, NEW z \in Zones \cup {-1},
         todo'[c] # <<>> => Head(todo'[c]).op # "send",
         shown' = shown, \A y \in Zones \ {z} : intensity'[y] = intensity[y],
         bound' => bound, power \in {"asleep", "waking"} => power' \in {"asleep", "waking"},
         z \in Zones => Pending(c, z)'
  PROVE  ColorAt(c)'
<1>1. Zones' = Zones /\ Rgb' = Rgb /\ \A x : Sent(x)' = Sent(x)
  BY EnvTells
<1>2. ~At(c, "send", "start")'
  BY DEF At, Idle
<1>3. ASSUME Rgb, NEW y \in Zones
      PROVE  \/ Pending(c, y)' \/ ~bound' \/ power' \in {"asleep", "waking"}
             \/ shown'[y] = Sent(intensity'[y])
  <2>1. CASE y = z
    BY <2>1
  <2>2. CASE y # z
    <3>1. ~bound \/ power \in {"asleep", "waking"} \/ shown[y] = Sent(intensity[y])
      BY <1>3, AtRest
    <3>2. intensity'[y] = intensity[y]
      BY <2>2
    <3> QED BY <3>1, <3>2
  <2> QED BY <2>1, <2>2
<1> QED BY <1>1, <1>2, <1>3 DEF ColorAt

\* The colours, when all will be sent.
LEMMA CoversColor ==
  ASSUME env' = env, NEW c \in Contexts, NEW name \in PendingOps \ {"send"},
         todo'[c] # <<>> => Head(todo'[c]).op # "send",
         Rgb => Covers(todo'[c], name)
  PROVE  ColorAt(c)'
<1>1. Zones' = Zones /\ Rgb' = Rgb
  BY EnvTells
<1>2. ~At(c, "send", "start")'
  BY DEF At, Idle
<1>3. ASSUME Rgb, NEW z \in Zones PROVE Pending(c, z)'
  BY <1>3 DEF Covers, Pending, PendingOps
<1> QED BY <1>1, <1>2, <1>3 DEF ColorAt

LEMMA SerialStays ==
  ASSUME PowerStatusInv, OrderInv, SerialInv, env.overlaps = {}, ~env.faults, [Next]_vars
  PROVE  SerialInv'
<1>0. TypeInv /\ OneAtATime /\ led \in [Zones -> Values] /\ intensity \in [Zones -> Colors]
      /\ bound \in BOOLEAN
  BY TypeParts DEF PowerStatusInv, SerialInv, DataInv
<1>1. ASSUME NEW c \in Contexts, Step(c) PROVE SerialInv'
  <2>1. Others(c) /\ ~Idle(c)
    BY <1>1, StepMoves DEF PowerStatusInv
  <2>2. Lone(c)
    BY <1>0, <2>1 DEF OneAtATime, Lone
  <2>3. BrightnessAt(c) /\ ColorAt(c)
    BY <2>2 DEF SerialInv
  <2> QED BY <1>1, <2>1, <2>2, <2>3, StepBrightness, StepColor, OnlyOneMoves
<1>2. ASSUME NEW c \in Contexts, NEW ops, Begin(c, ops), Others(c),
             todo'[c] # <<>> => Head(todo'[c]).op # "send"
      PROVE  /\ Quiescent /\ Lone(c) /\ pc'[c] = "start" /\ env' = env
             /\ Zones' = Zones /\ Rgb' = Rgb
  <2>1. Quiescent /\ Lone(c)
    BY <1>2, BeginsAtRest
  <2>2. pc'[c] = "start"
    BY <1>0, <1>2, <2>1, TypeParts DEF WorkInv, Begin, Quiescent
  <2> QED BY <1>2, <2>1, <2>2, EnvTells DEF Others
<1>3. ASSUME NEW z \in Zones, NEW b \in Levels,
             Store(z, b) \/ \E id \in ColorIds : StoreIntensity(z, id)
      PROVE  SerialInv'
  <2>1. PICK l : Begin("sysfs", <<Brightness(z, l)>>) /\ Others("sysfs")
                 /\ todo'["sysfs"] = <<Brightness(z, l)>>
    BY <1>0, <1>3, StoreFits, StoreIntensityFits DEF Store, StoreIntensity
  <2> DEFINE op == Brightness(z, l)
  <2>2. op.op = "brightness" /\ op.zone = z
    BY DEF Brightness
  <2> HIDE DEF op
  <2>3. <<op>> # <<>> /\ Head(<<op>>) = op /\ Len(<<op>>) = 1 /\ <<op>>[1] = op
    OBVIOUS
  <2>4. todo'["sysfs"] # <<>> /\ Head(todo'["sysfs"]).op = "brightness" /\ Pending("sysfs", z)'
    BY <2>1, <2>2, <2>3 DEF op, Pending
  <2>5. Quiescent /\ Lone("sysfs") /\ pc'["sysfs"] = "start" /\ env' = env
    BY <1>2, <2>1, <2>4 DEF Contexts
  <2>6. BrightnessAt("sysfs")'
    BY <2>4, <2>5, AtItsStart DEF Contexts
  <2>7. /\ shown' = shown /\ bound' = bound /\ power' = power
        /\ \A y \in Zones \ {z} : intensity'[y] = intensity[y]
    BY <1>0, <1>3 DEF Store, StoreIntensity, firmware, world
  <2>8. ColorAt("sysfs")'
    BY <2>4, <2>5, <2>7, BeginsColor DEF Contexts
  <2> QED BY <2>1, <2>5, <2>6, <2>8, OnlyOneMoves DEF Contexts
<1>4. ASSUME NEW c \in Contexts, NEW ops, Begin(c, ops), Others(c), todo'[c] = ops,
             UNCHANGED <<shown, led, bright, keyEvent, bound, intensity>>,
             power' \in {"asleep", "waking"} <=> power \in {"asleep", "waking"},
             power \notin {"asleep", "waking"},
             ops # <<>> => Head(ops).op # "send"
      PROVE  SerialInv'
  <2>1. Quiescent /\ Lone(c) /\ pc'[c] = "start" /\ env' = env /\ Zones' = Zones
    BY <1>2, <1>4
  <2>2. Same /\ Shown(led[0])
    BY <1>4, <2>1, AtRest
  <2>3. Same' /\ Shown(led[0])'
    BY <1>4, <2>1, <2>2 DEF Same, Shown
  <2>4. BrightnessAt(c)'
    BY <2>1, <2>3, AtItsStart
  <2>5. -1 \in Zones \cup {-1} /\ -1 \notin Zones
    BY ZoneTypes
  <2>6. ColorAt(c)'
    BY <1>4, <2>1, <2>5, BeginsColor
  <2> QED BY <1>4, <2>1, <2>4, <2>6, OnlyOneMoves
<1>5. ASSUME NEW m \in Modes, StoreMode(m) PROVE SerialInv'
  <2>1. /\ Begin("sysfs", <<Mode(m)>>) /\ Others("sysfs") /\ todo'["sysfs"] = <<Mode(m)>>
        /\ UNCHANGED <<shown, led, bright, keyEvent, bound, intensity, power>> /\ power = "awake"
    BY <1>0, <1>5, StoreModeFits DEF StoreMode, firmware, memory, world
  <2>2. Head(<<Mode(m)>>).op # "send"
    BY DEF Mode
  <2> QED BY <1>4, <2>1, <2>2 DEF Contexts
<1>6. CASE BrightnessEvent
  <2>1. /\ Begin("event", <<Op("notify")>>) /\ Others("event") /\ todo'["event"] = <<Op("notify")>>
        /\ UNCHANGED <<shown, led, intensity, bound, power>> /\ keyEvent
    BY <1>0, <1>6, BrightnessEventFits DEF BrightnessEvent, firmware, memory
  <2>2. Head(<<Op("notify")>>).op = "notify"
    BY DEF Op
  <2>3. Quiescent /\ Lone("event") /\ pc'["event"] = "start" /\ env' = env /\ Zones' = Zones
    BY <1>2, <2>1, <2>2 DEF Contexts
  <2>4. Same'
    BY <2>1, <2>3, AtRest DEF Same
  <2>5. <<Op("notify")>> # <<>>
    OBVIOUS
  <2>6. BrightnessAt("event")'
    BY <2>1, <2>2, <2>3, <2>4, <2>5, AtItsStart DEF Contexts
  <2>7. -1 \in Zones \cup {-1} /\ -1 \notin Zones
    BY ZoneTypes
  <2>8. ColorAt("event")'
    BY <2>1, <2>2, <2>3, <2>7, BeginsColor DEF Contexts
  <2> QED BY <2>1, <2>3, <2>6, <2>8, OnlyOneMoves DEF Contexts
<1>7. ASSUME NEW c \in Contexts, NEW ops, NEW name \in {"restore", "color"}, Begin(c, ops), Others(c),
             todo'[c] = ops, led' = led, Rgb => Covers(ops, name), ops # <<>>,
             Head(ops).op \in {"restore", "color", "brightness"}
      PROVE  SerialInv'
  <2>1. Quiescent /\ Lone(c) /\ pc'[c] = "start" /\ env' = env /\ Zones' = Zones
    BY <1>2, <1>7
  <2>2. Same'
    BY <1>7, <2>1, AtRest DEF Same
  <2>3. BrightnessAt(c)'
    BY <1>7, <2>1, <2>2, AtItsStart
  <2>4. name \in PendingOps \ {"send"}
    BY DEF PendingOps
  <2>5. ColorAt(c)'
    BY <1>7, <2>1, <2>4, CoversColor
  <2> QED BY <1>7, <2>1, <2>3, <2>5, OnlyOneMoves
<1>8. CASE CycleEvent
  <2>1. /\ Begin("event", CycleOps) /\ Others("event") /\ todo'["event"] = CycleOps
        /\ led' = led /\ Rgb
    BY <1>0, <1>8, CycleEventFits DEF CycleEvent, memory, CycleOps, NextId
  <2>2. /\ Covers(CycleOps, "color") /\ CycleOps # <<>>
        /\ Head(CycleOps).op \in {"restore", "color", "brightness"}
    BY <1>0, <2>1, CycleFits DEF Fits
  <2> QED BY <1>7, <2>1, <2>2 DEF Contexts
<1>9. CASE Resume
  <2>1. Begin("pm", ResumeOps) /\ Others("pm") /\ todo'["pm"] = ResumeOps /\ led' = led
    BY <1>0, <1>9, ResumeTypes DEF Resume, memory, ResumeOps
  <2>2. /\ Covers(ResumeOps, "restore") /\ ResumeOps # <<>>
        /\ Head(ResumeOps).op \in {"restore", "color", "brightness"}
    BY ResumeFits DEF Fits
  <2> QED BY <1>7, <2>1, <2>2 DEF Contexts
<1>10. CASE Probe
  <2>1. Begin("driver", ProbeOps) /\ Others("driver") /\ todo'["driver"] = ProbeOps /\ led' = led
    BY <1>0, <1>10, ProbeTypes DEF Probe, memory, ProbeOps, FirstOps
  <2>2. /\ Rgb => Covers(ProbeOps, "color")
        /\ ProbeOps # <<>> /\ Head(ProbeOps).op \in {"restore", "color", "brightness"}
    BY <1>0, ProbeFits DEF Fits
  <2> QED BY <1>7, <2>1, <2>2 DEF Contexts
<1>11. CASE Suspend
  <2>1. /\ Begin("pm", SuspendOps) /\ Others("pm") /\ todo'["pm"] = SuspendOps
        /\ UNCHANGED <<shown, led, bright, keyEvent, bound, intensity>>
        /\ power = "awake" /\ power' = "suspending"
    BY <1>0, <1>11, SuspendFits DEF Suspend, firmware, memory, SuspendOps
  <2>2. SuspendOps # <<>> => Head(SuspendOps).op # "send"
    <3>1. CASE Rgb
      BY <3>1 DEF SuspendOps, Status
    <3>2. CASE ~Rgb
      BY <3>2 DEF SuspendOps
    <3> QED BY <3>1, <3>2
  <2> QED BY <1>4, <2>1, <2>2 DEF Contexts
<1>12. CASE Remove
  <2>1. /\ Begin("driver", RemoveOps) /\ Others("driver") /\ todo'["driver"] = RemoveOps
        /\ led' = led /\ bound' = FALSE
    BY <1>0, <1>12, RemoveTypes DEF Remove, memory, RemoveOps
  <2>2. RemoveOps # <<>> => Head(RemoveOps).op = "off"
    <3>1. CASE registered
      BY <3>1, RemoveFits DEF Fits
    <3>2. CASE ~registered
      BY <3>2, RemoveFits
    <3> QED BY <3>1, <3>2
  <2>3. /\ Quiescent /\ Lone("driver") /\ pc'["driver"] = "start" /\ env' = env
        /\ Zones' = Zones /\ Rgb' = Rgb
    BY <1>2, <2>1, <2>2 DEF Contexts
  <2>4. Same' /\ Shown(led[0])'
    BY <2>1, <2>3, AtRest DEF Same, Shown
  <2>5. BrightnessAt("driver")'
    BY <2>3, <2>4, AtItsStart DEF Contexts
  <2>6. ColorAt("driver")'
    BY <2>1, <2>2 DEF ColorAt, At, Idle
  <2> QED BY <2>1, <2>3, <2>5, <2>6, OnlyOneMoves DEF Contexts
<1>13. ASSUME UNCHANGED <<env, todo, pc, led>>,
              \A c \in Contexts : Lone(c) /\ BrightnessAt(c) /\ ColorAt(c) =>
                BrightnessAt(c)' /\ ColorAt(c)'
       PROVE  SerialInv'
  <2>1. OneAtATime'
    BY <1>0, <1>13 DEF OneAtATime, Idle
  <2>2. \A c \in Contexts : Lone(c)' <=> Lone(c)
    BY <1>13 DEF Lone, Idle
  <2> QED BY <1>13, <2>1, <2>2 DEF SerialInv
<1>14. ASSUME UNCHANGED <<env, todo, pc, led>> PROVE
         /\ Zones' = Zones /\ Rgb' = Rgb /\ Same' = Same /\ \A x : Sent(x)' = Sent(x)
         /\ \A c : /\ Idle(c)' <=> Idle(c)
                   /\ Current(c)' = Current(c)
                   /\ \A name, step : At(c, name, step)' <=> At(c, name, step)
                   /\ Calls(c)' <=> Calls(c)
                   /\ \A z : Pending(c, z)' <=> Pending(c, z)
  BY <1>14, EnvTells DEF Same, Idle, Current, At, Calls, Pending
<1>15. ASSUME UNCHANGED <<env, todo, pc, led, bright, keyEvent, bound, shown, intensity>>,
              \/ power' = power
              \/ power' = "awake" /\ power = "resuming"
       PROVE  SerialInv'
  <2>1. \A l : Shown(l)' <=> Shown(l)
    BY <1>15 DEF Shown
  <2>2. ASSUME NEW c \in Contexts, BrightnessAt(c) PROVE BrightnessAt(c)'
    BY <1>14, <1>15, <2>1, <2>2 DEF BrightnessAt
  <2>3. ASSUME NEW c \in Contexts, ColorAt(c) PROVE ColorAt(c)'
    BY <1>14, <1>15, <2>3 DEF ColorAt
  <2> QED BY <1>13, <1>15, <2>2, <2>3
<1>16. ASSUME NEW b \in Levels, FnKey(b) PROVE SerialInv'
  <2>1. /\ UNCHANGED <<env, todo, pc, led, shown, intensity, bound, power>>
        /\ keyEvent' = bound
    BY <1>16 DEF FnKey, memory
  <2>2. keyEvent' \/ ~bound'
    BY <2>1
  <2>3. \A l : Shown(l)'
    BY <2>2 DEF Shown
  <2>4. ASSUME NEW c \in Contexts, BrightnessAt(c) PROVE BrightnessAt(c)'
    BY <1>14, <2>1, <2>3, <2>4 DEF BrightnessAt
  <2>5. ASSUME NEW c \in Contexts, ColorAt(c) PROVE ColorAt(c)'
    BY <1>14, <2>1, <2>5 DEF ColorAt
  <2> QED BY <1>13, <2>1, <2>4, <2>5
<1>17. CASE Sleep \/ Wake
  <2>1. UNCHANGED <<env, todo, pc, led>> /\ power' \in {"asleep", "waking"}
    BY <1>17 DEF Sleep, Wake, memory
  <2>2. Quiescent
    BY <1>17 DEF Sleep, Wake, Idle, Quiescent, Contexts, PowerStatusInv, PowerInv
  <2>3. Same
    BY <2>2, AtRest
  <2>4. ASSUME NEW c \in Contexts PROVE Idle(c)
    BY <2>2 DEF Quiescent
  <2>5. ASSUME NEW c \in Contexts PROVE BrightnessAt(c)'
    BY <1>14, <2>1, <2>3, <2>4 DEF BrightnessAt
  <2>6. ASSUME NEW c \in Contexts PROVE ColorAt(c)'
    BY <1>14, <2>1, <2>4 DEF ColorAt, At
  <2> QED BY <1>13, <2>1, <2>5, <2>6
<1>18. CASE Thaw \/ UNCHANGED vars
  BY <1>15, <1>18 DEF Thaw, vars, firmware, memory, world
<1> QED BY <1>1, <1>3, <1>5, <1>6, <1>8, <1>9, <1>10, <1>11, <1>12, <1>16, <1>17, <1>18, ClevoAssumption
        DEF Next

\* With one context at a time, and nothing under way, the keyboard shows what
\* the LED class devices say: the brightness, in all zones, and the colour of
\* each, also after resume, a cycle of colours, or a change by the firmware.
THEOREM KeyboardFollowsLeds == Spec => []KeyboardMatchesLeds
<1> DEFINE Inv == /\ PowerStatusInv /\ OrderInv
                  /\ env.overlaps = {} /\ ~env.faults => SerialInv
<1>1. Init => Inv
  <2> SUFFICES ASSUME Init PROVE PowerStatusInv /\ OrderInv /\ SerialInv
    OBVIOUS
  <2>1. /\ power = "awake" /\ registered = FALSE /\ bound = FALSE /\ keyEvent = FALSE
        /\ \A c \in Contexts : todo[c] = <<>>
        /\ led = [z \in Zones |-> 0]
    BY DEF Init
  <2>2. PowerInv /\ StatusInv
    BY <2>1 DEF PowerInv, StatusInv, Idle, Contexts, Quiescent
  <2>3. OrderInv
    BY <2>1 DEF OrderInv, RegisteredInv, WhiteInv, Contexts
  <2>4. Same /\ Shown(led[0])
    BY <2>1 DEF Same, Shown
  <2>5. \A c \in Contexts : Idle(c)
    BY <2>1 DEF Idle
  <2>6. \A c \in Contexts : BrightnessAt(c) /\ ColorAt(c)
    BY <2>1, <2>4, <2>5 DEF BrightnessAt, ColorAt, At
  <2>7. SerialInv
    BY <2>5, <2>6 DEF SerialInv, OneAtATime
  <2> QED BY <2>2, <2>3, <2>7, TypesInitially DEF PowerStatusInv
<1>2. Inv /\ [Next]_vars => Inv'
  <2> SUFFICES ASSUME Inv, [Next]_vars PROVE Inv'
    OBVIOUS
  <2>1. PowerStatusInv' /\ OrderInv' /\ env' = env
    BY TypesStay, StatusStays, OrderStays DEF PowerStatusInv
  <2>2. env.overlaps = {} /\ ~env.faults => SerialInv'
    BY SerialStays
  <2> QED BY <2>1, <2>2
<1>3. Inv => KeyboardMatchesLeds
  <2> SUFFICES ASSUME Inv, Settled, env.overlaps = {}, ~env.faults, NEW z \in Zones
               PROVE  led[z] = bright /\ (Rgb => shown[z] = Sent(intensity[z]))
    BY DEF KeyboardMatchesLeds
  <2>1. registered /\ power = "awake" /\ Quiescent /\ ~keyEvent
    BY DEF Settled
  <2>2. bound
    <3>1. todo["driver"] = <<>>
      BY <2>1 DEF Quiescent, Idle, Contexts
    <3> QED BY <2>1, <3>1 DEF OrderInv, RegisteredInv
  <2>3. Same /\ Shown(led[0]) /\ (Rgb => shown[z] = Sent(intensity[z]))
    BY <2>1, <2>2, AtRest
  <2>4. led[z] = led[0] /\ bright = led[0]
    BY <2>1, <2>2, <2>3, ZoneTypes DEF Same, Shown
  <2> QED BY <2>3, <2>4
<1> QED BY <1>1, <1>2, <1>3, PTL DEF Spec

=============================================================================
