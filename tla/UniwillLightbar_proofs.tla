----------------------- MODULE UniwillLightbar_proofs -----------------------
(***************************************************************************)
(* Theorems about UniwillLightbar and the UniwillProbe it extends, for any *)
(* length of the ROM id and any environments: the retries of set_rom_id    *)
(* and what they make up for, the bits next to the animation bit, what the *)
(* LEDs of the lightbar end with when their work overlaps and when remove  *)
(* has unregistered them, and what failed accesses do to manual mode.      *)
(***************************************************************************)
EXTENDS UniwillLightbar, FiniteSetTheorems, TLAPS

RomSteps == {"compare", "write", "verify"}

\* The types the proofs need.
ProbeTypes ==
  /\ env \in Environments /\ faults \in 0 .. env.faults
  /\ held \in [Targets -> BOOLEAN]
  /\ at \in Nat /\ tries \in Nat

LEMMA EnvTypes == ProbeTypes => env.faults \in Nat /\ env.romid \in BOOLEAN /\ env.silent \in BOOLEAN
  BY ProbeAssumption DEF ProbeTypes

LEMMA TargetTypes == Id \subseteq Targets /\ Targets \subseteq Nat /\ 0 \in Targets
  BY ProbeAssumption DEF Id, Targets, Special

\* A step of the work of an LED, or of userspace, leaves probe and its registers
\* alone but for the faults that are left.
BesideProbe ==
  /\ UNCHANGED <<env, held, pc, at, tries, result>>
  /\ faults' = faults \/ (faults > 0 /\ faults' = faults - 1)

LEMMA WorkIsBesideProbe ==
  ASSUME ProbeTypes, NEW l \in Leds, (\E v \in Levels(l) : Store(l, v)) \/ Work(l)
  PROVE  BesideProbe
<1> USE DEF ProbeTypes, BesideProbe, probeVars, ec, Fault, NoFault
<1>1. CASE \E v \in Levels(l) : Store(l, v)
  BY <1>1 DEF Store
<1>2. CASE SetColor(l)
  BY <1>2 DEF SetColor, WriteLight
<1>3. CASE SetAnimation
  BY <1>3 DEF SetAnimation
<1>4. CASE ReadBits(l)
  BY <1>4 DEF ReadBits, Read
<1>5. CASE WriteBits(l)
  BY <1>5 DEF WriteBits, WriteAnimation
<1> QED BY <1>1, <1>2, <1>3, <1>4, <1>5 DEF Work

\* The steps of probe and remove after set_rom_id, and those of the lightbar.
PastRomId ==
  /\ UNCHANGED <<env, held, result>>
  /\ faults' = faults \/ (faults > 0 /\ faults' = faults - 1)
  /\ pc \notin RomSteps /\ pc' \notin RomSteps
  /\ at' \in Nat /\ tries' \in Nat

LEMMA OthersArePastRomId ==
  ASSUME ProbeTypes,
         SetMode \/ ReadCurve \/ WriteCurve \/ SetBoost \/ SetManual \/ ZeroTemperature
           \/ DisableManual \/ Remove
  PROVE  PastRomId
<1> USE DEF ProbeTypes, PastRomId, RomSteps, ec, Fault, NoFault, Goto, Loop
<1>1. CASE SetMode
  BY <1>1 DEF SetMode
<1>2. CASE ReadCurve
  BY <1>2 DEF ReadCurve
<1>3. CASE WriteCurve
  BY <1>3 DEF WriteCurve
<1>4. CASE SetBoost
  BY <1>4 DEF SetBoost
<1>5. CASE SetManual \/ ZeroTemperature
  BY <1>5 DEF SetManual, ZeroTemperature
<1>6. CASE DisableManual \/ Remove
  BY <1>6 DEF DisableManual, Remove
<1> QED BY <1>1, <1>2, <1>3, <1>4, <1>5, <1>6

LEMMA DriverIsPastRomId == ProbeTypes /\ Driver => PastRomId
<1> SUFFICES ASSUME ProbeTypes, Driver PROVE PastRomId
  OBVIOUS
<1> USE DEF ProbeTypes, PastRomId, RomSteps, ec, Fault, NoFault, Goto, Loop
<1>1. CASE Register
  BY <1>1 DEF Register
<1>2. CASE InitRead
  BY <1>2 DEF InitRead, Read
<1>3. CASE InitWrite
  BY <1>3 DEF InitWrite, WriteAnimation
<1>4. CASE InitRgb
  BY <1>4 DEF InitRgb, WriteLight
<1>5. CASE RemoveLightbar
  BY <1>5 DEF RemoveLightbar
<1>6. CASE Unregister
  BY <1>6 DEF Unregister
<1>7. CASE Flush
  BY <1>7 DEF Flush
<1> QED BY <1>1, <1>2, <1>3, <1>4, <1>5, <1>6, <1>7 DEF Driver

-----------------------------------------------------------------------------
(***************************************************************************)
(* set_rom_id                                                              *)
(***************************************************************************)

\* A write that was acknowledged and not done is found out.
Sound == ~env.silent \/ env.faults < Retries

\* A silent fault that the verification has not met yet.
Undone == IF pc = "verify" /\ ~held[at] THEN 1 ELSE 0

\* The bytes before the loop index are right; and the faults that are left, the
\* attempts of this access and a silent fault still to be found are no more than
\* the faults there were, if those are few.
RomInv ==
  /\ pc = "compare" => at \in Id /\ \A t \in Id : t < at => held[t]
  /\ pc \in {"write", "verify"} => at \in Targets
  /\ pc \in RomSteps => result = "none"
  /\ ~env.silent /\ pc = "verify" => held[at]
  /\ env.faults < Retries /\ pc \in RomSteps => faults + tries + Undone <= env.faults
  /\ Sound /\ pc \in {"write", "verify"} => \A t \in Targets : t < at => held[t]
  /\ Sound /\ env.romid /\ result = "0" => \A t \in Id : held[t]
  /\ TwoFaultsTolerated

LEMMA BesideProbeKeepsRom ==
  ProbeTypes /\ RomInv /\ BesideProbe => (ProbeTypes /\ RomInv)'
  BY EnvTypes DEF ProbeTypes, RomInv, BesideProbe, RomSteps, Undone, Sound, TwoFaultsTolerated, Retries

LEMMA PastRomIdKeepsRom ==
  ProbeTypes /\ RomInv /\ PastRomId => (ProbeTypes /\ RomInv)'
  BY EnvTypes DEF ProbeTypes, RomInv, PastRomId, RomSteps, Undone, Sound, TwoFaultsTolerated, Retries

LEMMA ProbeKeepsRom ==
  ASSUME ProbeTypes, RomInv, Probe PROVE (ProbeTypes /\ RomInv)'
<1> USE EnvTypes, TargetTypes DEF Probe, ProbeTypes, ec, Goto, Loop
<1>1. CASE env.romid
  BY <1>1, ProbeAssumption DEF RomInv, RomSteps, Undone, Sound, TwoFaultsTolerated, Id
<1>2. CASE ~env.romid
  BY <1>2 DEF RomInv, RomSteps, Undone, Sound, TwoFaultsTolerated
<1> QED BY <1>1, <1>2

LEMMA CompareKeepsRom ==
  ASSUME ProbeTypes, RomInv, Compare PROVE (ProbeTypes /\ RomInv)'
<1>0. /\ env.faults \in Nat /\ faults \in 0 .. env.faults /\ tries \in Nat
      /\ at \in Id /\ at \in Nat /\ held \in [Targets -> BOOLEAN]
      /\ UNCHANGED <<env, held>>
      /\ result = "none" /\ (env.faults < Retries => faults + tries <= env.faults)
      /\ \A t \in Id : t < at => held[t]
  BY EnvTypes, TargetTypes DEF Compare, RomInv, RomSteps, Undone, ProbeTypes, ec
<1> USE EnvTypes, TargetTypes DEF ProbeTypes, Goto, Loop, RomInv, RomSteps, Undone,
     TwoFaultsTolerated, Retries, NoFault, Fault, ReturnFromRomId
<1>1. ASSUME NoFault, Goto("write"), Loop(0), UNCHANGED result
      PROVE  (ProbeTypes /\ RomInv)'
  BY <1>0, <1>1 DEF Sound
<1>2. ASSUME NoFault, held[at], at + 1 \in Id, Goto("compare"), Loop(at + 1), UNCHANGED result
      PROVE  (ProbeTypes /\ RomInv)'
  BY <1>0, <1>2 DEF Sound, Id
<1>3. ASSUME NoFault, held[at], at + 1 \notin Id, ReturnFromRomId("0")
      PROVE  (ProbeTypes /\ RomInv)'
  <2>1. \A t \in Id : held[t]
    BY <1>0, <1>3, ProbeAssumption DEF Id
  <2> QED BY <1>0, <1>3, <2>1 DEF Sound
<1>4. ASSUME Fault, tries + 1 = Retries, ReturnFromRomId("error")
      PROVE  (ProbeTypes /\ RomInv)'
  BY <1>0, <1>4 DEF Sound
<1>5. ASSUME Fault, tries' = tries + 1, UNCHANGED <<pc, at, result>>
      PROVE  (ProbeTypes /\ RomInv)'
  <2>1. pc = "compare"
    BY DEF Compare
  <2>2. env.faults < Retries => faults' + tries' <= env.faults
    BY <1>0, <1>5 DEF Unlimited
  <2> QED BY <1>0, <1>5, <2>1, <2>2 DEF Sound
<1> QED BY <1>1, <1>2, <1>3, <1>4, <1>5 DEF Compare

\* An attempt to write the register, or its verification.
Attempt ==
  /\ pc \in {"write", "verify"}
  /\ env' = env /\ faults' \in 0 .. env.faults
  /\ held' \in [Targets -> BOOLEAN]
  /\ \A t \in Targets : held[t] => held'[t]

\* The end of the loop of attempts: with status 0 the register is right, and
\* with few faults there is no error.
LEMMA ReturnFromWriteKeepsRom ==
  ASSUME ProbeTypes, RomInv, Attempt, NEW status \in {"0", "error"}, ReturnFromWrite(status),
         status = "0" /\ Sound => held'[at],
         status = "error" => ~(env.faults < Retries)
  PROVE  (ProbeTypes /\ RomInv)'
<1>0. /\ env.faults \in Nat /\ at \in Targets /\ at \in Nat /\ result = "none"
      /\ Sound => \A t \in Targets : t < at => held'[t]
  BY EnvTypes, TargetTypes DEF Attempt, RomInv, RomSteps, Sound
<1> USE EnvTypes, TargetTypes DEF ProbeTypes, Attempt, Goto, Loop, RomInv, RomSteps, Undone,
     TwoFaultsTolerated, Retries, ReturnFromRomId, ReturnFromWrite
<1>1. CASE status = "0" /\ at + 1 \in Targets
  <2>1. Sound => \A t \in Targets : t < at + 1 => held'[t]
    BY <1>0, <1>1
  <2> QED BY <1>0, <1>1, <2>1 DEF Sound
<1>2. CASE status = "0" /\ at + 1 \notin Targets
  <2>1. Sound => \A t \in Id : held'[t]
    BY <1>0, <1>2, ProbeAssumption DEF Id, Targets, Special
  <2> QED BY <1>0, <1>2, <2>1 DEF Sound
<1>3. CASE status = "error"
  BY <1>0, <1>3 DEF Sound
<1> QED BY <1>1, <1>2, <1>3

\* Another attempt, which takes one of the faults that were left.
LEMMA AgainKeepsRom ==
  ASSUME ProbeTypes, RomInv, Attempt, NEW status \in {"0", "error"}, Again(status),
         status = "0" /\ Sound => env.faults < Retries /\ ~held[at] /\ pc = "verify" /\ UNCHANGED <<faults, held>>,
         status = "error" => Fault
  PROVE  (ProbeTypes /\ RomInv)'
<1>0. /\ env.faults \in Nat /\ faults \in 0 .. env.faults /\ at \in Targets /\ at \in Nat
      /\ tries \in Nat /\ result = "none"
      /\ env.faults < Retries => faults + tries + Undone <= env.faults
      /\ Sound => \A t \in Targets : t < at => held'[t]
  BY EnvTypes, TargetTypes DEF Attempt, RomInv, RomSteps, Sound, ProbeTypes
<1>1. CASE tries + 1 = Retries
  <2>1. ~(Sound /\ status = "0")
    BY <1>0, <1>1 DEF Undone, Retries
  <2>2. status = "error" => ~(env.faults < Retries)
    BY <1>0, <1>1 DEF Undone, Retries, Fault
  <2> QED BY <1>1, <2>1, <2>2, ReturnFromWriteKeepsRom DEF Again
<1>2. CASE tries + 1 # Retries
  <2>1. tries' = tries + 1 /\ pc' = "write" /\ UNCHANGED <<at, result>>
    BY <1>2 DEF Again, Goto
  <2>2. env.faults < Retries => faults' + tries' <= env.faults
    BY <1>0, <2>1 DEF Undone, Fault, Unlimited, Retries, Sound
  <2> QED
    BY <1>0, <2>1, <2>2, EnvTypes, TargetTypes
    DEF ProbeTypes, Attempt, RomInv, RomSteps, Undone, TwoFaultsTolerated, Sound
<1> QED BY <1>1, <1>2

LEMMA WriteKeepsRom ==
  ASSUME ProbeTypes, RomInv, Write PROVE (ProbeTypes /\ RomInv)'
<1>0. /\ env.faults \in Nat /\ faults \in 0 .. env.faults /\ at \in Targets /\ at \in Nat
      /\ tries \in Nat /\ result = "none" /\ held \in [Targets -> BOOLEAN]
      /\ env' = env /\ pc = "write"
      /\ env.faults < Retries => faults + tries <= env.faults
      /\ Sound => \A t \in Targets : t < at => held[t]
  BY EnvTypes, TargetTypes DEF Write, RomInv, RomSteps, Sound, ProbeTypes, Undone
<1>1. ASSUME NoFault, held' = [held EXCEPT ![at] = TRUE], Goto("verify"), UNCHANGED <<at, tries, result>>
      PROVE  (ProbeTypes /\ RomInv)'
  BY <1>0, <1>1, EnvTypes, TargetTypes
  DEF ProbeTypes, RomInv, RomSteps, Undone, Sound, TwoFaultsTolerated, NoFault, Goto
<1>2. ASSUME Fault, NEW done \in BOOLEAN, held' = [held EXCEPT ![at] = @ \/ done], Again("error")
      PROVE  (ProbeTypes /\ RomInv)'
  <2>1. Attempt
    BY <1>0, <1>2 DEF Attempt, Fault
  <2> QED BY <1>2, <2>1, AgainKeepsRom
<1>3. ASSUME Fault, env.silent, UNCHANGED held, Goto("verify"), UNCHANGED <<at, tries, result>>
      PROVE  (ProbeTypes /\ RomInv)'
  <2>1. env.faults < Retries => faults' + tries + 1 <= env.faults
    BY <1>0, <1>3 DEF Fault, Unlimited, Retries
  <2>2. faults' \in 0 .. env.faults
    BY <1>0, <1>3 DEF Fault
  <2> QED
    BY <1>0, <1>3, <2>1, <2>2, EnvTypes, TargetTypes
    DEF ProbeTypes, RomInv, RomSteps, Undone, Sound, TwoFaultsTolerated, Goto
<1> QED BY <1>1, <1>2, <1>3 DEF Write

LEMMA VerifyKeepsRom ==
  ASSUME ProbeTypes, RomInv, Verify PROVE (ProbeTypes /\ RomInv)'
<1>0. env.faults \in Nat /\ faults \in 0 .. env.faults /\ UNCHANGED <<env, held>> /\ pc = "verify"
  BY EnvTypes DEF Verify, ProbeTypes, ec
<1>1. Attempt
  BY <1>0 DEF Verify, ProbeTypes, Attempt, NoFault, Fault
<1>2. ASSUME NoFault, held[at], ReturnFromWrite("0") PROVE (ProbeTypes /\ RomInv)'
  BY <1>0, <1>1, <1>2, ReturnFromWriteKeepsRom
<1>3. ASSUME NoFault, ~held[at], Again("0") PROVE (ProbeTypes /\ RomInv)'
  <2>1. Sound => env.faults < Retries
    BY <1>0, <1>3 DEF Sound, RomInv
  <2> QED BY <1>0, <1>1, <1>3, <2>1, AgainKeepsRom DEF NoFault
<1>4. ASSUME Fault, Again("error") PROVE (ProbeTypes /\ RomInv)'
  BY <1>1, <1>4, AgainKeepsRom
<1> QED BY <1>2, <1>3, <1>4 DEF Verify

LEMMA InitRom == BarInit => ProbeTypes /\ RomInv
<1> SUFFICES ASSUME BarInit PROVE ProbeTypes /\ RomInv
  OBVIOUS
<1>1. env.faults \in Nat /\ env.romid \in BOOLEAN
  BY ProbeAssumption DEF BarInit, Init
<1>2. held \in [Targets -> BOOLEAN]
  <2>1. CASE env.romid
    BY <2>1 DEF BarInit, Init
  <2>2. CASE ~env.romid
    BY <2>2 DEF BarInit, Init
  <2> QED BY <1>1, <2>1, <2>2
<1>3. ProbeTypes
  BY <1>1, <1>2 DEF BarInit, Init, ProbeTypes
<1>4. RomInv
  BY <1>1, <1>3 DEF BarInit, Init, RomInv, RomSteps, Undone, TwoFaultsTolerated
<1> QED BY <1>3, <1>4

LEMMA NextRom == ProbeTypes /\ RomInv /\ [BarNext]_barAll => (ProbeTypes /\ RomInv)'
<1> SUFFICES ASSUME ProbeTypes, RomInv, [BarNext]_barAll PROVE (ProbeTypes /\ RomInv)'
  OBVIOUS
<1>1. CASE Next
  BY <1>1, ProbeKeepsRom, CompareKeepsRom, WriteKeepsRom, VerifyKeepsRom, OthersArePastRomId,
     PastRomIdKeepsRom DEF Next, Step
<1>2. ASSUME NEW l \in Leds, (\E v \in Levels(l) : Store(l, v)) \/ Work(l)
      PROVE  (ProbeTypes /\ RomInv)'
  BY <1>2, WorkIsBesideProbe, BesideProbeKeepsRom
<1>3. CASE Driver
  BY <1>3, DriverIsPastRomId, PastRomIdKeepsRom
<1>4. CASE UNCHANGED barAll
  <2>1. BesideProbe
    BY <1>4 DEF barAll, probeVars, ec, BesideProbe
  <2> QED BY <2>1, BesideProbeKeepsRom
<1> QED BY <1>1, <1>2, <1>3, <1>4 DEF BarNext

\* When set_rom_id has returned 0, the machine has its ROM id, for an id of any
\* length: after any number of faults that are not silent, and any two that are.
THEOREM RomIdHolds == BarSpec => []RomIdIsRight
<1>1. RomInv => RomIdIsRight
  BY DEF RomInv, Sound, RomIdIsRight
<1> QED BY <1>1, InitRom, NextRom, PTL DEF BarSpec

\* Two faults anywhere in probe, or in the work of the LEDs beside it, never
\* make set_rom_id fail.
THEOREM RetriesSuffice == BarSpec => []TwoFaultsTolerated
<1>1. RomInv => TwoFaultsTolerated
  BY DEF RomInv
<1> QED BY <1>1, InitRom, NextRom, PTL DEF BarSpec

-----------------------------------------------------------------------------
(***************************************************************************)
(* The registers of the lightbar, on an EC that answers                    *)
(***************************************************************************)

BarTypes ==
  /\ light \in [Leds -> Nat] /\ light["animation"] \in 0 .. 1
  /\ registered \subseteq Leds /\ queued \subseteq Leds /\ stored \subseteq Leds
  /\ value \in [Leds -> Nat] /\ value["animation"] \in 0 .. 1
  /\ work \in [Leds -> {"idle", "read", "read_on", "write", "write_on"}]
  /\ held_bits \in [Leds \cup {"probe"} -> Bits]
  /\ others \in {"kept", "lost"}

LEMMA LevelTypes ==
  /\ \A l \in Leds : Levels(l) \subseteq Nat
  /\ Levels("animation") = 0 .. 1
  /\ "animation" \in Leds /\ "animation" \notin Colors
  /\ \A i \in {0, 1, 2, 3} : Order[i + 1] \in Leds
  /\ \A i \in {0, 1, 2} : Order[i + 1] \in Colors
  /\ Garbage \in Bits
  BY DEF Levels, Leds, Colors, Order, Garbage, Bits

\* Where the loops over the LEDs are: the LEDs before the index are gone while
\* they are unregistered.
PlaceInv ==
  /\ pc \in {"manual", "temperature", "remove_lightbar"} => at = 0
  /\ pc = "register" => at \in 0 .. 3
  /\ pc \in {"init_read", "init_write", "init_rgb"} => at \in 0 .. 2
  /\ pc \in {"unregister", "flush"} =>
       /\ at \in 0 .. 3
       /\ \A i \in 0 .. 3 : Order[i + 1] \in registered => i >= at /\ (pc = "flush" => i # at)

\* Whoever is about to write bit 7 holds the other bits as they are.
BitsInv ==
  /\ others = "kept"
  /\ \A l \in Leds : work[l] \in {"write", "write_on"} => held_bits[l].others = "kept"
  /\ pc = "init_write" => held_bits["probe"].others = "kept"

\* A colour that was set is still queued or it is shown; probe's own writes come
\* before.
ColorInv ==
  /\ pc \in {"init_read", "init_write", "init_rgb"} => stored = {}
  /\ \A l \in stored \cap Colors : l \in queued \/ light[l] = value[l]

\* What is on its way to the animation was asked for.
AnimInv ==
  /\ Calm /\ asked # {} => light["animation"] \in asked
  /\ "animation" \in queued => value["animation"] \in asked
  /\ queued \cap Colors # {} => 0 \in asked
  /\ \A l \in Leds : work[l] \in {"read", "write"} => 0 \in asked
  /\ \A l \in Leds : work[l] \in {"read_on", "write_on"} => 1 \in asked
  /\ pc = "init_write" => 0 \in asked

BarInv == faults = 0 /\ BarTypes /\ PlaceInv /\ BitsInv /\ ColorInv /\ AnimInv

LEMMA StoreKeepsBar ==
  ASSUME BarInv, NEW l \in Leds, NEW v \in Levels(l), Store(l, v) PROVE BarInv'
<1> USE LevelTypes DEF BarInv, Store, probeVars, ec, bar
<1>1. faults' = 0 /\ PlaceInv' /\ BitsInv'
  BY DEF PlaceInv, BitsInv
<1>2. BarTypes'
  BY DEF BarTypes
<1>3. ColorInv'
  BY DEF BarTypes, ColorInv
<1>4. AnimInv'
  <2>1. CASE Calm
    BY <2>1 DEF BarTypes, AnimInv, Calm, Asks
  <2>2. CASE ~Calm
    BY <2>2 DEF BarTypes, AnimInv, Calm, Asks
  <2> QED BY <2>1, <2>2
<1> QED BY <1>1, <1>2, <1>3, <1>4

LEMMA SetColorKeepsBar ==
  ASSUME BarInv, NEW l \in Leds, SetColor(l) PROVE BarInv'
<1> USE LevelTypes DEF BarInv, SetColor, WriteLight, NoFault, Fault, ec
<1>1. faults' = 0 /\ PlaceInv' /\ BitsInv'
  BY DEF PlaceInv, BitsInv, BarTypes
<1>2. BarTypes'
  BY DEF BarTypes
<1>3. ColorInv'
  BY DEF BarTypes, ColorInv
<1>4. AnimInv'
  BY DEF BarTypes, AnimInv, Calm
<1> QED BY <1>1, <1>2, <1>3, <1>4

LEMMA SetAnimationKeepsBar ==
  ASSUME BarInv, SetAnimation PROVE BarInv'
<1> USE LevelTypes DEF BarInv, SetAnimation, probeVars, ec, bar
<1>1. faults' = 0 /\ PlaceInv' /\ BitsInv'
  BY DEF PlaceInv, BitsInv, BarTypes
<1>2. BarTypes'
  BY DEF BarTypes
<1>3. ColorInv'
  BY DEF BarTypes, ColorInv
<1>4. AnimInv'
  BY DEF BarTypes, AnimInv, Calm
<1> QED BY <1>1, <1>2, <1>3, <1>4

LEMMA ReadBitsKeepsBar ==
  ASSUME BarInv, NEW l \in Leds, ReadBits(l) PROVE BarInv'
<1> USE LevelTypes DEF BarInv, ReadBits, Read, NoFault, Fault, ec, bar, requests
<1>1. faults' = 0 /\ PlaceInv'
  BY DEF PlaceInv, BarTypes
<1>2. BitsInv'
  <2>1. UNCHANGED <<pc, others>> /\ others = "kept"
    BY DEF BitsInv
  <2>2. \A k \in Leds \cup {"probe"} : k # l => held_bits'[k] = held_bits[k]
    BY DEF BarTypes
  <2>3. \A k \in Leds : k # l => work'[k] = work[k]
    BY DEF BarTypes
  <2>4. held_bits'[l].others = "kept"
    BY <2>1 DEF BarTypes
  <2> QED BY <2>1, <2>2, <2>3, <2>4 DEF BitsInv, Leds, Colors
<1>3. BarTypes'
  BY DEF BarTypes, Bits
<1>4. ColorInv'
  BY DEF BarTypes, ColorInv
<1>5. AnimInv'
  <2>1. ~Calm /\ ~Calm'
    BY DEF Calm, BarTypes
  <2>2. CASE work[l] = "read"
    BY <2>1, <2>2 DEF BarTypes, AnimInv
  <2>3. CASE work[l] = "read_on"
    BY <2>1, <2>3 DEF BarTypes, AnimInv
  <2> QED BY <2>2, <2>3
<1> QED BY <1>1, <1>2, <1>3, <1>4, <1>5

LEMMA WriteBitsKeepsBar ==
  ASSUME BarInv, NEW l \in Leds, WriteBits(l) PROVE BarInv'
<1> USE LevelTypes DEF BarInv, WriteBits, WriteAnimation, NoFault, Fault, ec, bar, requests
<1>1. faults' = 0 /\ PlaceInv'
  BY DEF PlaceInv, BarTypes
<1>2. BitsInv'
  <2>1. others' = "kept"
    BY DEF BitsInv
  <2>2. \A k \in Leds \cup {"probe"} : k # l => held_bits'[k] = held_bits[k]
    BY DEF BarTypes
  <2>3. \A k \in Leds : k # l => work'[k] = work[k]
    BY DEF BarTypes
  <2>4. work'[l] = "idle"
    BY DEF BarTypes
  <2> QED BY <2>1, <2>2, <2>3, <2>4 DEF BitsInv, Leds, Colors
<1>3. BarTypes'
  BY DEF BarTypes, Bits
<1>4. ColorInv'
  BY DEF BarTypes, ColorInv
<1>5. AnimInv'
  <2>1. light'["animation"] \in asked
    BY DEF BarTypes, AnimInv
  <2> QED BY <2>1 DEF BarTypes, AnimInv
<1> QED BY <1>1, <1>2, <1>3, <1>4, <1>5

LEMMA RegisterKeepsBar ==
  ASSUME BarInv, Register PROVE BarInv'
<1>0. at \in 0 .. 3 /\ Order[at + 1] \in Leds
  BY LevelTypes DEF BarInv, Register, PlaceInv
<1> USE <1>0 DEF BarInv, Register, ec, bar, Goto, Loop
<1>1. faults' = 0 /\ PlaceInv'
  BY DEF PlaceInv
<1>2. BitsInv'
  BY DEF BitsInv
<1>3. BarTypes'
  BY DEF BarTypes
<1>4. ColorInv'
  BY DEF ColorInv
<1>5. AnimInv'
  BY DEF AnimInv, Calm
<1> QED BY <1>1, <1>2, <1>3, <1>4, <1>5

LEMMA InitReadKeepsBar ==
  ASSUME BarInv, InitRead PROVE BarInv'
<1> USE LevelTypes DEF BarInv, InitRead, Read, NoFault, Fault, ec, bar, requests, Goto
<1>1. faults' = 0 /\ PlaceInv'
  BY DEF PlaceInv
<1>2. BitsInv'
  <2>1. others' = "kept" /\ others = "kept"
    BY DEF BitsInv
  <2>2. \A k \in Leds : held_bits'[k] = held_bits[k]
    BY DEF BarTypes, Leds, Colors
  <2>3. held_bits'["probe"].others = "kept"
    BY <2>1 DEF BarTypes
  <2> QED BY <2>1, <2>2, <2>3 DEF BitsInv
<1>3. BarTypes'
  BY DEF BarTypes, Bits
<1>4. ColorInv'
  BY DEF ColorInv
<1>5. AnimInv'
  <2>1. CASE Calm
    BY <2>1 DEF BarTypes, AnimInv, Calm, Asks
  <2>2. CASE ~Calm
    BY <2>2 DEF BarTypes, AnimInv, Calm, Asks
  <2> QED BY <2>1, <2>2
<1> QED BY <1>1, <1>2, <1>3, <1>4, <1>5

LEMMA InitWriteKeepsBar ==
  ASSUME BarInv, InitWrite PROVE BarInv'
<1> USE LevelTypes DEF BarInv, InitWrite, WriteAnimation, NoFault, Fault, ec, bar, requests, Goto
<1>1. faults' = 0 /\ PlaceInv'
  BY DEF PlaceInv
<1>2. BitsInv'
  <2>1. others' = "kept"
    BY DEF BitsInv
  <2>2. \A k \in Leds : held_bits'[k] = held_bits[k]
    BY DEF BarTypes, Leds, Colors
  <2> QED BY <2>1, <2>2 DEF BitsInv
<1>3. BarTypes'
  BY DEF BarTypes, Bits
<1>4. ColorInv'
  BY DEF BarTypes, ColorInv
<1>5. AnimInv'
  <2>1. light'["animation"] \in asked
    BY DEF BarTypes, AnimInv
  <2> QED BY <2>1 DEF BarTypes, AnimInv
<1> QED BY <1>1, <1>2, <1>3, <1>4, <1>5

LEMMA InitRgbKeepsBar ==
  ASSUME BarInv, InitRgb PROVE BarInv'
<1>0. at \in 0 .. 2 /\ Order[at + 1] \in Colors /\ stored = {}
  BY LevelTypes DEF BarInv, InitRgb, PlaceInv, ColorInv
<1> USE <1>0, LevelTypes DEF BarInv, InitRgb, WriteLight, NoFault, Fault, ec, requests, Goto, Loop
<1>1. faults' = 0 /\ PlaceInv'
  BY DEF PlaceInv
<1>2. BitsInv'
  BY DEF BitsInv
<1>3. BarTypes'
  BY DEF BarTypes
<1>4. ColorInv'
  BY DEF ColorInv
<1>5. AnimInv'
  BY DEF BarTypes, AnimInv, Calm
<1> QED BY <1>1, <1>2, <1>3, <1>4, <1>5

LEMMA RemoveLightbarKeepsBar ==
  ASSUME BarInv, RemoveLightbar PROVE BarInv'
<1> USE DEF BarInv, RemoveLightbar, barVars, Goto
<1>1. faults' = 0 /\ PlaceInv'
  BY DEF PlaceInv
<1>2. BitsInv' /\ BarTypes' /\ ColorInv'
  BY DEF BitsInv, BarTypes, ColorInv
<1>3. AnimInv'
  BY DEF AnimInv, Calm
<1> QED BY <1>1, <1>2, <1>3

LEMMA UnregisterKeepsBar ==
  ASSUME BarInv, Unregister PROVE BarInv'
<1>0. at \in 0 .. 3 /\ Order[at + 1] \in Leds
  BY LevelTypes DEF BarInv, Unregister, PlaceInv
<1> USE <1>0, LevelTypes DEF BarInv, Unregister, ec, bar, Goto
<1>1. faults' = 0 /\ PlaceInv'
  BY DEF PlaceInv
<1>2. BitsInv'
  BY DEF BitsInv
<1>3. BarTypes'
  BY DEF BarTypes
<1>4. ColorInv'
  BY DEF BarTypes, ColorInv
<1>5. AnimInv'
  <2>1. CASE Calm
    BY <2>1 DEF BarTypes, AnimInv, Calm, Asks
  <2>2. CASE ~Calm
    BY <2>2 DEF BarTypes, AnimInv, Calm, Asks
  <2> QED BY <2>1, <2>2
<1> QED BY <1>1, <1>2, <1>3, <1>4, <1>5

LEMMA FlushKeepsBar ==
  ASSUME BarInv, Flush PROVE BarInv'
<1> USE DEF BarInv, Flush, barVars, Goto, Loop
<1>1. faults' = 0 /\ BitsInv' /\ BarTypes' /\ ColorInv'
  BY DEF BitsInv, BarTypes, ColorInv
<1>2. PlaceInv'
  <2>1. CASE registered # {}
    <3>1. \E i \in 0 .. 3 : Order[i + 1] \in registered
      <4>1. \A l \in Leds : \E i \in 0 .. 3 : Order[i + 1] = l
        BY DEF Leds, Colors, Order
      <4> QED BY <2>1, <4>1 DEF BarTypes
    <3> QED BY <2>1, <3>1 DEF PlaceInv
  <2>2. CASE registered = {}
    BY <2>2 DEF PlaceInv
  <2> QED BY <2>1, <2>2
<1>3. AnimInv'
  BY DEF AnimInv, Calm
<1> QED BY <1>1, <1>2, <1>3

\* Probe and remove are outside the initialization of the lightbar.
LEMMA ProbeKeepsBar ==
  ASSUME BarInv, Next, UNCHANGED barVars PROVE BarInv'
<1>1. /\ faults' = 0 /\ PlaceInv'
      /\ pc \notin {"init_read", "init_write", "init_rgb"}
      /\ pc' \notin {"init_read", "init_write", "init_rgb"}
  <2> USE DEF BarInv, Goto, Loop, NoFault, Fault, barVars
  <2>1. CASE Probe
    BY <2>1 DEF Probe, PlaceInv
  <2>2. CASE Compare
    BY <2>2 DEF Compare, ReturnFromRomId, PlaceInv
  <2>3. CASE Write
    BY <2>3 DEF Write, Again, ReturnFromWrite, ReturnFromRomId, PlaceInv
  <2>4. CASE Verify
    BY <2>4 DEF Verify, Again, ReturnFromWrite, ReturnFromRomId, PlaceInv
  <2>5. CASE SetMode \/ ReadCurve
    BY <2>5 DEF SetMode, ReadCurve, PlaceInv
  <2>6. CASE WriteCurve
    BY <2>6 DEF WriteCurve, PlaceInv
  <2>7. CASE SetBoost
    BY <2>7 DEF SetBoost, PlaceInv
  <2>8. CASE SetManual \/ ZeroTemperature
    BY <2>8 DEF SetManual, ZeroTemperature, PlaceInv
  <2>9. CASE DisableManual \/ Remove
    BY <2>9 DEF DisableManual, Remove, PlaceInv
  <2> QED BY <2>1, <2>2, <2>3, <2>4, <2>5, <2>6, <2>7, <2>8, <2>9 DEF Next, Step
<1>2. BitsInv' /\ BarTypes' /\ ColorInv'
  BY <1>1 DEF BarInv, barVars, BitsInv, BarTypes, ColorInv
<1>3. AnimInv'
  BY <1>1 DEF BarInv, barVars, AnimInv, Calm
<1> QED BY <1>1, <1>2, <1>3 DEF BarInv

LEMMA InitBar == BarInit /\ env.faults = 0 => BarInv
<1> SUFFICES ASSUME BarInit, env.faults = 0 PROVE BarInv
  OBVIOUS
<1> USE LevelTypes DEF BarInit
<1>1. faults = 0 /\ PlaceInv
  BY DEF Init, PlaceInv
<1>2. light \in [Leds -> Nat] /\ light["animation"] \in 0 .. 1
  <2>1. CASE light \in [Leds -> {0}]
    BY <2>1
  <2>2. CASE light = [l \in Leds |-> IF l = "animation" THEN 1 ELSE 36]
    BY <2>2
  <2> QED BY <2>1, <2>2
<1>3. BarTypes
  BY <1>2 DEF BarTypes
<1>4. BitsInv /\ ColorInv
  BY DEF Init, BitsInv, ColorInv
<1>5. AnimInv
  BY DEF Init, AnimInv
<1> QED BY <1>1, <1>3, <1>4, <1>5 DEF BarInv

LEMMA EnvIsConstant == [BarNext]_barAll => UNCHANGED env
<1> SUFFICES ASSUME [BarNext]_barAll PROVE UNCHANGED env
  OBVIOUS
<1>1. CASE Next
  BY <1>1 DEF Next, Step, Probe, Compare, Write, Verify, SetMode, ReadCurve, WriteCurve, SetBoost,
     SetManual, ZeroTemperature, DisableManual, Remove
<1>2. ASSUME NEW l \in Leds, (\E v \in Levels(l) : Store(l, v)) \/ Work(l) PROVE UNCHANGED env
  BY <1>2 DEF Store, Work, SetColor, SetAnimation, ReadBits, WriteBits, probeVars
<1>3. CASE Driver
  BY <1>3 DEF Driver, Register, InitRead, InitWrite, InitRgb, RemoveLightbar, Unregister, Flush
<1>4. CASE UNCHANGED barAll
  BY <1>4 DEF barAll, probeVars
<1> QED BY <1>1, <1>2, <1>3, <1>4 DEF BarNext

LEMMA NextBar ==
  (env.faults = 0 => BarInv) /\ [BarNext]_barAll => (env.faults = 0 => BarInv)'
<1> SUFFICES ASSUME env.faults = 0 => BarInv, [BarNext]_barAll, env'.faults = 0 PROVE BarInv'
  OBVIOUS
<1>1. UNCHANGED env
  BY EnvIsConstant
<1>2. BarInv
  BY <1>1
<1>3. CASE Next /\ UNCHANGED barVars
  BY <1>2, <1>3, ProbeKeepsBar
<1>4. ASSUME NEW l \in Leds, \E v \in Levels(l) : Store(l, v) PROVE BarInv'
  BY <1>2, <1>4, StoreKeepsBar
<1>5. ASSUME NEW l \in Leds, Work(l) PROVE BarInv'
  BY <1>2, <1>5, SetColorKeepsBar, SetAnimationKeepsBar, ReadBitsKeepsBar, WriteBitsKeepsBar DEF Work
<1>6. CASE Driver
  BY <1>2, <1>6, RegisterKeepsBar, InitReadKeepsBar, InitWriteKeepsBar, InitRgbKeepsBar,
     RemoveLightbarKeepsBar, UnregisterKeepsBar, FlushKeepsBar DEF Driver
<1>7. CASE UNCHANGED barAll
  BY <1>2, <1>7 DEF barAll, probeVars, barVars, ec, BarInv, BarTypes, PlaceInv, BitsInv, ColorInv,
     AnimInv, Calm
<1> QED BY <1>3, <1>4, <1>5, <1>6, <1>7 DEF BarNext

LEMMA BarHolds == BarSpec => [](env.faults = 0 => BarInv)
<1>1. BarInit => (env.faults = 0 => BarInv)
  BY InitBar
<1> QED BY <1>1, NextBar, PTL DEF BarSpec

\* Five contexts read, modify and write 0x0748 without a lock and the seven bits
\* that are not the animation keep their values, because none of them changes one.
THEOREM BitsArePreserved == BarSpec => []OtherBitsPreserved
<1>1. (env.faults = 0 => BarInv) => OtherBitsPreserved
  BY DEF BarInv, BitsInv, OtherBitsPreserved
<1> QED BY <1>1, BarHolds, PTL

\* However the work of the LEDs, probe and remove interleave, a colour set while
\* the driver was bound is the one shown when all work has ended.
THEOREM ColorsAreShown == BarSpec => []ColorsAsStored
<1>1. (env.faults = 0 => BarInv) => ColorsAsStored
  BY DEF BarInv, ColorInv, Calm, ColorsAsStored
<1> QED BY <1>1, BarHolds, PTL

\* The animation ends in a state one of the overlapping calls asked for.
THEOREM AnimationIsAsked == BarSpec => []AnimationAsAsked
<1>1. (env.faults = 0 => BarInv) => AnimationAsAsked
  BY DEF BarInv, AnimInv, AnimationAsAsked
<1> QED BY <1>1, BarHolds, PTL

-----------------------------------------------------------------------------
(***************************************************************************)
(* The end of remove                                                       *)
(***************************************************************************)

\* LEDs can be registered and the EC answers.
Answers == env.faults = 0 /\ env.lightbar /\ ~env.registerFails

\* The lightbar was initialized before remove begins, so that it is unregistered.
LoadedInv ==
  pc \in {"bound", "remove_lightbar", "unregister", "flush", "disable_manual"} => uw_lightbar_loaded

\* The LEDs that userspace can set, by how far the loops are.
RegisteredInv ==
  \A i \in 0 .. 3 :
    Order[i + 1] \in registered <=>
      \/ pc = "register" /\ i < at
      \/ pc \in {"init_read", "init_write", "init_rgb", "bound", "remove_lightbar"}
      \/ pc = "unregister" /\ i >= at
      \/ pc = "flush" /\ i > at

\* Nothing of this LED is on its way, and it is dark.
Gone(l) == l \notin queued /\ work[l] = "idle" /\ light[l] = 0

\* It was switched off: the work is still to come, under way or done.
Leaving(l) ==
  /\ value[l] = 0
  /\ l \in queued \/ light[l] = 0 \/ (l = "animation" /\ work[l] \in {"read", "write"})
  /\ (l = "animation" /\ work[l] \in {"read_on", "write_on"}) => l \in queued

GoneInv ==
  /\ pc \in {"unregister", "flush"} => \A i \in 0 .. 3 : i < at => Gone(Order[i + 1])
  /\ pc = "flush" => Leaving(Order[at + 1])
  /\ pc = "disable_manual" => \A l \in Leds : Gone(l)

\* The work of a colour only switches the animation off.
ColorWorkInv == \A l \in Colors : work[l] \notin {"read_on", "write_on"}

DarkInv == LoadedInv /\ RegisteredInv /\ GoneInv /\ ColorWorkInv

LEMMA OrderTypes ==
  /\ \A i \in 0 .. 3 : Order[i + 1] \in Leds
  /\ \A i \in 0 .. 2 : Order[i + 1] \in Colors
  /\ \A l \in Leds : \E i \in 0 .. 3 : Order[i + 1] = l
  /\ \A i, j \in 0 .. 3 : Order[i + 1] = Order[j + 1] => i = j
  /\ Order[4] = "animation"
  BY DEF Order, Leds, Colors

\* What userspace can set is neither gone nor leaving.
LEMMA StoreKeepsDark ==
  ASSUME BarInv, DarkInv, NEW l \in Leds, NEW v \in Levels(l), Store(l, v) PROVE DarkInv'
<1>1. /\ l \in registered /\ UNCHANGED <<pc, at, registered, work, light, uw_lightbar_loaded>>
      /\ \A k \in Leds : k # l => value'[k] = value[k] /\ (k \in queued' <=> k \in queued)
  BY DEF Store, probeVars, bar, BarInv, BarTypes
<1>2. LoadedInv' /\ RegisteredInv' /\ ColorWorkInv'
  BY <1>1 DEF DarkInv, LoadedInv, RegisteredInv, ColorWorkInv
<1>3. ASSUME NEW k \in Leds, k # l PROVE (Gone(k) => Gone(k)') /\ (Leaving(k) => Leaving(k)')
  BY <1>1, <1>3 DEF Gone, Leaving
<1>4. GoneInv'
  <2>1. PlaceInv /\ RegisteredInv /\ GoneInv
    BY DEF BarInv, DarkInv
  <2>2. ASSUME pc \in {"unregister", "flush"}, NEW i \in 0 .. 3, i < at PROVE Gone(Order[i + 1])'
    <3>1. at \in 0 .. 3 /\ Order[i + 1] \in Leds
      BY <2>1, <2>2, OrderTypes DEF PlaceInv
    <3>2. Order[i + 1] \notin registered
      BY <2>1, <2>2, <3>1 DEF RegisteredInv
    <3>3. Gone(Order[i + 1])
      BY <2>1, <2>2 DEF GoneInv
    <3> QED BY <1>1, <1>3, <3>1, <3>2, <3>3
  <2>3. ASSUME pc = "flush" PROVE Leaving(Order[at + 1])'
    <3>1. at \in 0 .. 3 /\ Order[at + 1] \in Leds
      BY <2>1, <2>3, OrderTypes DEF PlaceInv
    <3>2. Order[at + 1] \notin registered
      BY <2>1, <2>3, <3>1 DEF RegisteredInv
    <3>3. Leaving(Order[at + 1])
      BY <2>1, <2>3 DEF GoneInv
    <3> QED BY <1>1, <1>3, <3>1, <3>2, <3>3
  <2>4. pc # "disable_manual"
    BY <1>1, <2>1, OrderTypes DEF RegisteredInv
  <2> QED BY <1>1, <2>2, <2>3, <2>4 DEF GoneInv
<1> QED BY <1>2, <1>4 DEF DarkInv

\* The work of an LED does not bring it back, nor another one.
LEMMA WorkKeepsLeaving ==
  ASSUME BarInv, ColorWorkInv, NEW l \in Leds, Work(l), NEW k \in Leds
  PROVE  (Gone(k) => Gone(k)') /\ (Leaving(k) => Leaving(k)')
<1> USE LevelTypes DEF BarInv, BarTypes, Gone, Leaving, NoFault, Fault, ec, bar, requests
<1>1. CASE SetColor(l)
  <2>1. /\ l \in Colors /\ l \in queued /\ light' = [light EXCEPT ![l] = value[l]]
        /\ queued' = queued \ {l} /\ work' = [work EXCEPT ![l] = "read"] /\ value' = value
    BY <1>1 DEF SetColor, WriteLight
  <2>2. CASE k = l
    BY <2>1, <2>2
  <2>3. CASE k # l
    BY <2>1, <2>3
  <2> QED BY <2>2, <2>3
<1>2. CASE l = "animation" /\ SetAnimation
  <2>1. CASE k = l
    BY <1>2, <2>1 DEF SetAnimation
  <2>2. CASE k # l
    BY <1>2, <2>2 DEF SetAnimation
  <2> QED BY <2>1, <2>2
<1>3. CASE ReadBits(l)
  <2>1. UNCHANGED <<light, queued, value>>
    BY <1>3 DEF ReadBits
  <2>2. CASE k = l
    BY <1>3, <2>1, <2>2 DEF ReadBits
  <2>3. CASE k # l
    BY <1>3, <2>1, <2>3 DEF ReadBits
  <2> QED BY <2>2, <2>3
<1>4. CASE WriteBits(l)
  <2>1. UNCHANGED <<queued, value>>
    BY <1>4 DEF WriteBits
  <2>2. CASE k = l
    BY <1>4, <2>1, <2>2 DEF WriteBits, WriteAnimation
  <2>3. CASE k # l
    <3>1. CASE k = "animation"
      <4>1. l \in Colors
        BY <2>3, <3>1 DEF Leds
      <4>2. light'["animation"] = 0
        BY <1>4, <4>1 DEF WriteBits, WriteAnimation, ColorWorkInv
      <4> QED BY <1>4, <2>1, <2>3, <3>1, <4>2 DEF WriteBits
    <3>2. CASE k # "animation"
      BY <1>4, <2>1, <2>3, <3>2 DEF WriteBits, WriteAnimation
    <3> QED BY <3>1, <3>2
  <2> QED BY <2>2, <2>3
<1> QED BY <1>1, <1>2, <1>3, <1>4 DEF Work

LEMMA WorkKeepsDark ==
  ASSUME BarInv, DarkInv, NEW l \in Leds, Work(l) PROVE DarkInv'
<1>1. UNCHANGED <<pc, at, registered, uw_lightbar_loaded>>
  BY DEF Work, SetColor, SetAnimation, ReadBits, WriteBits, probeVars, requests
<1>2. LoadedInv' /\ RegisteredInv'
  BY <1>1 DEF DarkInv, LoadedInv, RegisteredInv
<1>3. \A k \in Leds : (Gone(k) => Gone(k)') /\ (Leaving(k) => Leaving(k)')
  BY WorkKeepsLeaving DEF DarkInv
<1>4. GoneInv'
  BY <1>1, <1>3, OrderTypes DEF DarkInv, GoneInv, BarInv, PlaceInv
<1>5. ColorWorkInv'
  BY LevelTypes DEF DarkInv, ColorWorkInv, BarInv, BarTypes, Work, SetColor, SetAnimation,
     ReadBits, WriteBits, Leds
<1> QED BY <1>2, <1>4, <1>5 DEF DarkInv

LEMMA RegisterKeepsDark ==
  ASSUME Answers, BarInv, DarkInv, Register PROVE DarkInv'
<1>1. /\ pc = "register" /\ at \in 0 .. 3
      /\ registered' = registered \cup {Order[at + 1]}
      /\ IF at < 3 THEN at' = at + 1 /\ pc' = pc ELSE pc' = "init_read" /\ at' = 0
      /\ work' = work
  BY DEF Register, Answers, BarInv, PlaceInv, Loop, Goto
<1>2. RegisteredInv'
  <2>1. ASSUME NEW i \in 0 .. 3
        PROVE  Order[i + 1] \in registered' <=> (i < at \/ i = at)
    BY <1>1, <2>1, OrderTypes DEF DarkInv, RegisteredInv
  <2> QED BY <1>1, <2>1 DEF RegisteredInv
<1>3. LoadedInv' /\ GoneInv' /\ ColorWorkInv'
  BY <1>1 DEF DarkInv, LoadedInv, GoneInv, ColorWorkInv
<1> QED BY <1>2, <1>3 DEF DarkInv

LEMMA InitKeepsDark ==
  ASSUME BarInv, DarkInv, InitRead \/ InitWrite \/ InitRgb PROVE DarkInv'
<1>1. /\ pc \in {"init_read", "init_write", "init_rgb"}
      /\ pc' \in {"init_read", "init_write", "init_rgb", "bound"}
      /\ pc' = "bound" => uw_lightbar_loaded'
      /\ UNCHANGED <<registered, work>>
  BY DEF InitRead, InitWrite, InitRgb, Goto, requests
<1> QED BY <1>1 DEF DarkInv, LoadedInv, RegisteredInv, GoneInv, ColorWorkInv

LEMMA RemoveLightbarKeepsDark ==
  ASSUME BarInv, DarkInv, RemoveLightbar PROVE DarkInv'
<1>1. /\ pc = "remove_lightbar" /\ pc' = "unregister" /\ at' = 0 /\ uw_lightbar_loaded'
      /\ UNCHANGED <<registered, work>>
  BY DEF RemoveLightbar, barVars, Goto, BarInv, PlaceInv, DarkInv, LoadedInv
<1> QED BY <1>1 DEF DarkInv, LoadedInv, RegisteredInv, GoneInv, ColorWorkInv

LEMMA UnregisterKeepsDark ==
  ASSUME BarInv, DarkInv, Unregister PROVE DarkInv'
<1> DEFINE l == Order[at + 1]
<1>1. /\ pc = "unregister" /\ pc' = "flush" /\ at \in 0 .. 3 /\ at' = at /\ l \in Leds
      /\ registered' = registered \ {l} /\ UNCHANGED <<work, light, uw_lightbar_loaded>>
      /\ value' = [value EXCEPT ![l] = 0] /\ queued' = queued \cup {l}
  BY OrderTypes DEF Unregister, Goto, BarInv, PlaceInv, bar
<1> HIDE DEF l
<1>2. \A i \in 0 .. 3 : Order[i + 1] = l <=> i = at
  BY <1>1, OrderTypes DEF l
<1>3. RegisteredInv'
  BY <1>1, <1>2 DEF DarkInv, RegisteredInv
<1>4. GoneInv'
  <2>1. ASSUME NEW i \in 0 .. 3, i < at PROVE Gone(Order[i + 1])'
    <3>1. Gone(Order[i + 1]) /\ Order[i + 1] # l
      BY <1>1, <1>2, <2>1 DEF DarkInv, GoneInv
    <3> QED BY <1>1, <3>1 DEF Gone
  <2>2. value'[l] = 0 /\ l \in queued'
    BY <1>1 DEF BarInv, BarTypes
  <2>3. Leaving(Order[at + 1])'
    BY <1>1, <2>2 DEF Leaving, l
  <2> QED BY <1>1, <2>1, <2>3 DEF GoneInv
<1>5. LoadedInv' /\ ColorWorkInv'
  BY <1>1 DEF DarkInv, LoadedInv, ColorWorkInv
<1> QED BY <1>3, <1>4, <1>5 DEF DarkInv

LEMMA FlushKeepsDark ==
  ASSUME BarInv, DarkInv, Flush PROVE DarkInv'
<1> DEFINE l == Order[at + 1]
<1>1. /\ pc = "flush" /\ at \in 0 .. 3 /\ l \in Leds /\ l \notin queued /\ work[l] = "idle"
      /\ UNCHANGED barVars
      /\ uw_lightbar_loaded
  BY OrderTypes DEF Flush, BarInv, PlaceInv, DarkInv, LoadedInv
<1>2. Gone(l)
  <2>1. Leaving(l)
    BY <1>1 DEF DarkInv, GoneInv
  <2> QED BY <1>1, <2>1 DEF Leaving, Gone
<1> HIDE DEF l
<1>3. \A i \in 0 .. 3 : i < at + 1 => Gone(Order[i + 1])
  <2>1. ASSUME NEW i \in 0 .. 3, i < at PROVE Gone(Order[i + 1])
    BY <1>1, <2>1 DEF DarkInv, GoneInv
  <2> QED BY <1>1, <1>2, <2>1 DEF l
<1>4. \A i \in 0 .. 3 : Order[i + 1] \in registered <=> i > at
  BY <1>1 DEF DarkInv, RegisteredInv
<1>5. \A k \in Leds : Gone(k)' <=> Gone(k)
  BY <1>1 DEF barVars, Gone
<1>6. CASE registered # {}
  <2>1. pc' = "unregister" /\ at' = at + 1
    BY <1>6 DEF Flush, Goto, Loop
  <2>2. \A i \in 0 .. 3 : i < at' => Gone(Order[i + 1])'
    BY <1>3, <1>5, <2>1, OrderTypes
  <2>3. RegisteredInv'
    BY <1>1, <1>4, <2>1 DEF RegisteredInv, barVars
  <2> QED BY <1>1, <2>1, <2>2, <2>3 DEF DarkInv, LoadedInv, GoneInv, ColorWorkInv, barVars
<1>7. CASE registered = {}
  <2>1. pc' = "disable_manual"
    BY <1>1, <1>7 DEF Flush, Goto
  <2>2. at = 3
    BY <1>1, <1>4, <1>7
  <2>3. \A k \in Leds : Gone(k)'
    BY <1>3, <1>5, <2>2, OrderTypes
  <2>4. RegisteredInv'
    BY <1>1, <1>7, <2>1 DEF RegisteredInv, barVars
  <2> QED BY <1>1, <2>1, <2>3, <2>4 DEF DarkInv, LoadedInv, GoneInv, ColorWorkInv, barVars
<1> QED BY <1>6, <1>7

\* Before the lightbar is registered, and after it is gone, no LED is registered.
LEMMA ProbeKeepsDark ==
  ASSUME Answers, BarInv, DarkInv, Next, UNCHANGED barVars PROVE DarkInv'
<1> DEFINE Without == {"unbound", "compare", "write", "verify", "mode", "read_curve", "write_curve",
                       "boost", "manual", "temperature"}
<1>1. \/ pc \in Without /\ pc' \in Without
      \/ pc = "temperature" /\ pc' = "register" /\ at' = 0
      \/ pc = "bound" /\ pc' = "remove_lightbar"
      \/ pc = "disable_manual" /\ pc' = "unbound"
  <2> USE DEF Goto, Loop
  <2>1. CASE Probe
    BY <2>1 DEF Probe
  <2>2. CASE Compare
    BY <2>2 DEF Compare, ReturnFromRomId
  <2>3. CASE Write
    BY <2>3 DEF Write, Again, ReturnFromWrite, ReturnFromRomId
  <2>4. CASE Verify
    BY <2>4 DEF Verify, Again, ReturnFromWrite, ReturnFromRomId
  <2>5. CASE SetMode \/ ReadCurve
    BY <2>5 DEF SetMode, ReadCurve
  <2>6. CASE WriteCurve
    BY <2>6 DEF WriteCurve
  <2>7. CASE SetBoost
    BY <2>7 DEF SetBoost
  <2>8. CASE SetManual \/ ZeroTemperature
    BY <2>8 DEF SetManual, ZeroTemperature, Answers, BarInv, PlaceInv
  <2>9. CASE DisableManual \/ Remove
    BY <2>9 DEF DisableManual, Remove, Answers
  <2> QED BY <2>1, <2>2, <2>3, <2>4, <2>5, <2>6, <2>7, <2>8, <2>9 DEF Next, Step
<1>2. UNCHANGED <<registered, work, uw_lightbar_loaded>>
  BY DEF barVars
<1>3. RegisteredInv'
  BY <1>1, <1>2 DEF DarkInv, RegisteredInv
<1> QED BY <1>1, <1>2, <1>3 DEF DarkInv, LoadedInv, GoneInv, ColorWorkInv

LEMMA InitDark == BarInit => DarkInv
<1> SUFFICES ASSUME BarInit PROVE DarkInv
  OBVIOUS
<1>1. pc = "unbound" /\ registered = {} /\ work = [l \in Leds |-> "idle"]
  BY DEF BarInit, Init
<1> QED BY <1>1 DEF DarkInv, LoadedInv, RegisteredInv, GoneInv, ColorWorkInv, Leds

LEMMA NextDark ==
  (env.faults = 0 => BarInv) /\ (Answers => DarkInv) /\ [BarNext]_barAll => (Answers => DarkInv)'
<1> SUFFICES ASSUME env.faults = 0 => BarInv, Answers => DarkInv, [BarNext]_barAll, Answers'
             PROVE  DarkInv'
  OBVIOUS
<1>1. Answers /\ BarInv /\ DarkInv
  BY EnvIsConstant DEF Answers
<1>2. CASE Next /\ UNCHANGED barVars
  BY <1>1, <1>2, ProbeKeepsDark
<1>3. ASSUME NEW l \in Leds, \E v \in Levels(l) : Store(l, v) PROVE DarkInv'
  BY <1>1, <1>3, StoreKeepsDark
<1>4. ASSUME NEW l \in Leds, Work(l) PROVE DarkInv'
  BY <1>1, <1>4, WorkKeepsDark
<1>5. CASE Driver
  BY <1>1, <1>5, RegisterKeepsDark, InitKeepsDark, RemoveLightbarKeepsDark, UnregisterKeepsDark,
     FlushKeepsDark DEF Driver
<1>6. CASE UNCHANGED barAll
  BY <1>1, <1>6 DEF barAll, probeVars, barVars, DarkInv, LoadedInv, RegisteredInv, GoneInv,
     ColorWorkInv, Gone, Leaving
<1> QED BY <1>2, <1>3, <1>4, <1>5, <1>6 DEF BarNext

\* When remove has unregistered the lightbar, no work is on its way and the colours
\* and the animation are off: whatever userspace set until its LED went, and
\* whatever work was under way when the LED core switched the LED off.
THEOREM LightbarGoesDark == BarSpec => []DarkWhenRemoved
<1>1. BarInit => (Answers => DarkInv)
  BY InitDark
<1>2. BarInv /\ DarkInv /\ pc = "disable_manual" => Calm /\ \A l \in Leds : light[l] = 0
  BY DEF BarInv, BarTypes, DarkInv, GoneInv, Gone, Calm
<1>3. (env.faults = 0 => BarInv) /\ (Answers => DarkInv) => DarkWhenRemoved
  BY <1>2 DEF Answers, DarkWhenRemoved
<1> QED BY <1>1, <1>3, NextDark, BarHolds, PTL DEF BarSpec

-----------------------------------------------------------------------------
(***************************************************************************)
(* Manual mode and what it uses                                            *)
(***************************************************************************)

\* The steps from where manual mode is on to where it is switched off, if no
\* access has failed.
WithManual == {"temperature", "register", "init_read", "init_write", "init_rgb", "bound",
               "remove_lightbar", "unregister", "flush", "disable_manual"}

CurvePlaceInv ==
  /\ pc \in {"read_curve", "write_curve"} => at \in Curve /\ env.profile_v1
  /\ pc = "write_curve" => read \in {"default", "garbage"}
  /\ pc = "boost" => at \in 0 .. 2 /\ ~env.profile_v1

\* The points this probe has been at, or all of them if manual mode uses them.
Passed(k) ==
  \/ manual \/ pc = "manual"
  \/ pc \in {"read_curve", "write_curve"} /\ k < at
  \/ pc = "boost" /\ ((k = 3 /\ at > 0) \/ (k = 2 /\ at > 1))

\* Those of them that are not what they should be, and the one about to be written
\* with what a failed read has left.
Bad == {k \in Spoilt : Passed(k)} \cup
       (IF pc = "write_curve" /\ read = "garbage" THEN {at} ELSE {})

\* Each took a fault.
ManualInv ==
  /\ CurvePlaceInv
  /\ curve \in [Curve -> {"bios", "default", "garbage", "boost"}] /\ manual \in BOOLEAN
  /\ Cardinality(Bad) <= env.faults - faults
  /\ faults = env.faults => (manual <=> pc \in WithManual)

LEMMA PointsAreFinite ==
  ASSUME NEW B, B \subseteq 0 .. 4
  PROVE  IsFiniteSet(B) /\ Cardinality(B) \in Nat
<1>1. 0 \in Int /\ 4 \in Int
  OBVIOUS
<1>2. IsFiniteSet(0 .. 4)
  BY <1>1, FS_Interval, Zenon
<1> QED BY <1>2, FS_Subset, FS_CardinalityType

LEMMA BadIsFinite ==
  /\ CurvePlaceInv => IsFiniteSet(Bad) /\ Cardinality(Bad) \in Nat
  /\ CurvePlaceInv' => IsFiniteSet(Bad') /\ Cardinality(Bad') \in Nat
<1>1. CurvePlaceInv => Bad \subseteq 0 .. 4
  BY DEF Bad, Spoilt, Curve, Boost, CurvePlaceInv
<1>2. CurvePlaceInv' => Bad' \subseteq 0 .. 4
  BY DEF Bad, Spoilt, Curve, Boost, CurvePlaceInv
<1> QED BY <1>1, <1>2, PointsAreFinite

\* A fault adds one point at most, and nothing else adds one.
Counted ==
  \/ NoFault /\ Bad' \subseteq Bad
  \/ Fault /\ \E x : Bad' \subseteq Bad \cup {x}

\* A step that keeps ManualInv.
Prepares ==
  /\ CurvePlaceInv' /\ Counted
  /\ curve' \in [Curve -> {"bios", "default", "garbage", "boost"}] /\ manual' \in BOOLEAN
  /\ NoFault => ((manual <=> pc \in WithManual) => (manual' <=> pc' \in WithManual))

LEMMA PreparesKeepsManual ==
  ASSUME ProbeTypes, ProbeTypes', env' = env, env.faults < Unlimited, ManualInv, Prepares
  PROVE  ManualInv'
<1>1. /\ IsFiniteSet(Bad) /\ Cardinality(Bad) \in Nat /\ Cardinality(Bad) <= env.faults - faults
      /\ env.faults \in Nat /\ faults \in 0 .. env.faults /\ faults' \in 0 .. env.faults
  BY BadIsFinite, EnvTypes DEF ManualInv, ProbeTypes
<1>2. Cardinality(Bad') \in Nat
  BY BadIsFinite DEF Prepares
<1>3. CASE NoFault /\ Bad' \subseteq Bad
  <2>1. Cardinality(Bad') <= Cardinality(Bad)
    BY <1>1, <1>3, FS_Subset
  <2>2. faults' = faults
    BY <1>3 DEF NoFault
  <2>3. Cardinality(Bad') <= env.faults - faults'
    BY <1>1, <1>2, <2>1, <2>2
  <2> QED BY <1>3, <2>2, <2>3 DEF ManualInv, Prepares
<1>4. CASE Fault /\ \E x : Bad' \subseteq Bad \cup {x}
  <2>1. PICK x : Bad' \subseteq Bad \cup {x}
    BY <1>4
  <2>2. IsFiniteSet(Bad \cup {x}) /\ Cardinality(Bad \cup {x}) <= Cardinality(Bad) + 1
    <3>1. Cardinality(Bad \cup {x}) = IF x \in Bad THEN Cardinality(Bad) ELSE Cardinality(Bad) + 1
      BY <1>1, FS_AddElement
    <3>2. IsFiniteSet(Bad \cup {x})
      BY <1>1, FS_AddElement
    <3> QED BY <1>1, <3>1, <3>2
  <2>3. Cardinality(Bad \cup {x}) \in Nat
    BY <2>2, FS_CardinalityType
  <2>4. Cardinality(Bad') <= Cardinality(Bad \cup {x})
    BY <2>1, <2>2, FS_Subset
  <2>5. faults' = faults - 1
    BY <1>1, <1>4 DEF Fault, Unlimited
  <2>6. Cardinality(Bad') <= env.faults - faults'
    BY <1>1, <1>2, <2>2, <2>3, <2>4, <2>5
  <2>7. faults' # env.faults
    BY <1>1, <2>5
  <2> QED BY <2>6, <2>7 DEF ManualInv, Prepares
<1> QED BY <1>3, <1>4 DEF Prepares, Counted

\* Steps that leave the curve alone and pass no point of it.
LEMMA OthersKeepBad ==
  ASSUME UNCHANGED <<env, curve>>, manual' => manual, pc' \notin {"manual", "write_curve"},
         pc' \in {"read_curve", "boost"} => at' = 0
  PROVE  Bad' \subseteq Bad
<1>1. Spoilt' = Spoilt
  BY DEF Spoilt
<1>2. \A k \in 0 .. 4 : Passed(k)' => Passed(k)
  BY DEF Passed
<1> QED BY <1>1, <1>2 DEF Bad, Spoilt, Curve, Boost

LEMMA OthersPrepare ==
  ASSUME ManualInv, UNCHANGED <<env, curve>>, manual' \in BOOLEAN, manual' => manual,
         pc' \notin {"manual", "write_curve"},
         pc' = "read_curve" => at' = 0 /\ env.profile_v1, pc' = "boost" => at' = 0 /\ ~env.profile_v1,
         NoFault \/ Fault,
         NoFault => ((manual <=> pc \in WithManual) => (manual' <=> pc' \in WithManual))
  PROVE  Prepares
<1>1. Bad' \subseteq Bad
  BY OthersKeepBad
<1>2. CurvePlaceInv'
  BY DEF CurvePlaceInv, Curve
<1> QED BY <1>1, <1>2 DEF ManualInv, Prepares, Counted

LEMMA ReadCurvePrepares ==
  ASSUME ManualInv, ReadCurve PROVE Prepares
<1>1. /\ pc = "read_curve" /\ pc' = "write_curve" /\ UNCHANGED <<env, curve, manual, at>>
      /\ at \in Curve /\ env.profile_v1
  BY DEF ReadCurve, ec, Goto, ManualInv, CurvePlaceInv
<1>2. \A k \in 0 .. 4 : Passed(k)' <=> Passed(k)
  BY <1>1 DEF Passed
<1>3. Spoilt' = Spoilt /\ Spoilt \subseteq 0 .. 4
  BY <1>1 DEF Spoilt, Curve, Boost
<1>4. CurvePlaceInv'
  BY <1>1 DEF ReadCurve, CurvePlaceInv
<1>5. Bad' \subseteq Bad \cup {at} /\ (read' = "default" => Bad' \subseteq Bad)
  BY <1>1, <1>2, <1>3 DEF Bad
<1>6. Counted
  BY <1>5 DEF ReadCurve, Counted
<1> QED BY <1>1, <1>4, <1>6 DEF Prepares, ManualInv, WithManual

LEMMA WriteCurvePrepares ==
  ASSUME ManualInv, WriteCurve PROVE Prepares
<1>1. /\ pc = "write_curve" /\ UNCHANGED <<env, manual>> /\ at \in 0 .. 4 /\ env.profile_v1
      /\ read \in {"default", "garbage"}
      /\ \/ pc' = "read_curve" /\ at' = at + 1 /\ at < 4
         \/ pc' = "manual" /\ at = 4
  BY DEF WriteCurve, Goto, Loop, ManualInv, CurvePlaceInv, Curve
<1>2. \A k \in 0 .. 4 : Passed(k)' => Passed(k) \/ k = at
  BY <1>1 DEF Passed
<1>3. CurvePlaceInv'
  BY <1>1 DEF CurvePlaceInv, Curve
<1>4. ASSUME NoFault, curve' = [curve EXCEPT ![at] = read] PROVE Bad' \subseteq Bad
  <2>1. \A k \in 0 .. 4 : k # at => curve'[k] = curve[k]
    BY <1>4 DEF ManualInv, Curve
  <2>2. curve'[at] = read
    BY <1>1, <1>4 DEF ManualInv, Curve
  <2> QED BY <1>1, <1>2, <2>1, <2>2 DEF Bad, Spoilt, Curve
<1>5. UNCHANGED curve => Bad' \subseteq Bad \cup {at}
  BY <1>1, <1>2 DEF Bad, Spoilt, Curve
<1>6. Counted
  BY <1>4, <1>5 DEF WriteCurve, Counted
<1>7. curve' \in [Curve -> {"bios", "default", "garbage", "boost"}]
  BY <1>1 DEF WriteCurve, ManualInv
<1> QED BY <1>1, <1>3, <1>6, <1>7 DEF Prepares, ManualInv, WithManual

LEMMA SetBoostPrepares ==
  ASSUME ManualInv, SetBoost PROVE Prepares
<1> DEFINE k == <<3, 2, 0>>[at + 1]
<1>1. /\ pc = "boost" /\ UNCHANGED <<env, manual>> /\ at \in 0 .. 2 /\ ~env.profile_v1
      /\ \/ pc' = "boost" /\ at' = at + 1 /\ at < 2
         \/ pc' = "manual" /\ at = 2
      /\ k \in Boost /\ k = (IF at = 0 THEN 3 ELSE IF at = 1 THEN 2 ELSE 0)
  BY DEF SetBoost, Goto, Loop, ManualInv, CurvePlaceInv, Boost
<1>2. \/ NoFault /\ curve' = [curve EXCEPT ![k] = "boost"]
      \/ Fault /\ UNCHANGED curve
  BY DEF SetBoost
<1> HIDE DEF k
<1>3. \A j \in Boost : Passed(j)' => Passed(j) \/ j = k
  BY <1>1 DEF Passed, Boost
<1>4. CurvePlaceInv'
  BY <1>1 DEF CurvePlaceInv
<1>5. ASSUME NoFault, curve' = [curve EXCEPT ![k] = "boost"] PROVE Bad' \subseteq Bad
  <2>1. \A j \in Boost : j # k => curve'[j] = curve[j]
    BY <1>5 DEF ManualInv, Curve, Boost
  <2>2. curve'[k] = "boost"
    BY <1>1, <1>5 DEF ManualInv, Curve, Boost
  <2> QED BY <1>1, <1>3, <2>1, <2>2 DEF Bad, Spoilt
<1>6. UNCHANGED curve => Bad' \subseteq Bad \cup {k}
  BY <1>1, <1>3 DEF Bad, Spoilt
<1>7. Counted
  BY <1>2, <1>5, <1>6 DEF Counted
<1>8. curve' \in [Curve -> {"bios", "default", "garbage", "boost"}]
  BY <1>1, <1>2 DEF ManualInv
<1> QED BY <1>1, <1>4, <1>7, <1>8 DEF Prepares, ManualInv, WithManual

\* All points have been passed when manual mode is switched on.
LEMMA SetManualPrepares ==
  ASSUME ManualInv, faults \in Nat, faults < Unlimited, SetManual PROVE Prepares
<1>1. \/ NoFault /\ manual'
      \/ Fault /\ manual' = manual /\ ~NoFault
  BY DEF SetManual, NoFault, Fault, Unlimited
<1>2. pc = "manual" /\ pc' = "temperature" /\ UNCHANGED <<env, curve>>
  BY DEF SetManual, Goto
<1>3. Bad' \subseteq Spoilt /\ Spoilt \subseteq Bad
  BY <1>2 DEF Bad, Spoilt, Passed
<1>4. manual' \in BOOLEAN
  BY DEF SetManual, ManualInv
<1>5. CurvePlaceInv'
  BY <1>2 DEF CurvePlaceInv
<1>6. Counted
  BY <1>1, <1>3 DEF Counted
<1> QED BY <1>1, <1>2, <1>4, <1>5, <1>6 DEF Prepares, ManualInv, WithManual

\* What else probe and remove do.
LEMMA ProbePrepares ==
  ASSUME ManualInv, faults \in Nat, faults < Unlimited, Next PROVE Prepares
<1> USE DEF NoFault, Goto, Loop, ec, WithManual
<1>1. CASE Probe
  BY <1>1, OthersPrepare DEF Probe, ManualInv
<1>2. CASE Compare
  BY <1>2, OthersPrepare DEF Compare, ReturnFromRomId, ManualInv
<1>3. CASE Write
  BY <1>3, OthersPrepare DEF Write, Again, ReturnFromWrite, ReturnFromRomId, ManualInv
<1>4. CASE Verify
  BY <1>4, OthersPrepare DEF Verify, Again, ReturnFromWrite, ReturnFromRomId, ManualInv
<1>5. CASE SetMode
  BY <1>5, OthersPrepare DEF SetMode, ManualInv
<1>6. CASE ZeroTemperature
  BY <1>6, OthersPrepare DEF ZeroTemperature, ManualInv
<1>7. CASE Remove
  BY <1>7, OthersPrepare DEF Remove, ManualInv
<1>8. CASE DisableManual
  <2>1. \/ NoFault /\ manual' = FALSE
        \/ Fault /\ manual' = manual
    BY <1>8 DEF DisableManual
  <2>2. UNCHANGED <<env, curve>> /\ pc' = "unbound"
    BY <1>8 DEF DisableManual
  <2>3. Fault => ~NoFault
    BY DEF Fault, Unlimited
  <2>4. (manual' => manual) /\ manual' \in BOOLEAN /\ (NoFault => manual' = FALSE)
    <3> HIDE DEF NoFault
    <3>1. manual \in BOOLEAN
      BY DEF ManualInv
    <3>2. CASE NoFault
      BY <2>1, <2>3, <3>2
    <3>3. CASE ~NoFault
      BY <2>1, <3>1, <3>3
    <3> QED BY <3>2, <3>3
  <2>5. NoFault \/ Fault
    BY <2>1
  <2>6. NoFault => ((manual <=> pc \in WithManual) => (manual' <=> pc' \in WithManual))
    BY <2>2, <2>4
  <2> HIDE DEF NoFault, WithManual
  <2> QED BY <2>2, <2>4, <2>5, <2>6, OthersPrepare
<1> QED
  BY <1>1, <1>2, <1>3, <1>4, <1>5, <1>6, <1>7, <1>8, ReadCurvePrepares, WriteCurvePrepares,
     SetBoostPrepares, SetManualPrepares DEF Next, Step

\* The work of the LEDs fails beside probe.
LEMMA WorkPrepares ==
  ASSUME ManualInv, NEW l \in Leds, (\E v \in Levels(l) : Store(l, v)) \/ Work(l)
  PROVE  Prepares
<1>1. UNCHANGED <<env, curve, manual, pc, at, read>> /\ (NoFault \/ Fault)
  <2> USE DEF NoFault, ec, probeVars
  <2>1. CASE \E v \in Levels(l) : Store(l, v)
    BY <2>1 DEF Store
  <2>2. CASE SetColor(l)
    BY <2>2 DEF SetColor, WriteLight
  <2>3. CASE SetAnimation
    BY <2>3 DEF SetAnimation
  <2>4. CASE ReadBits(l)
    BY <2>4 DEF ReadBits, Read
  <2>5. CASE WriteBits(l)
    BY <2>5 DEF WriteBits, WriteAnimation
  <2> QED BY <2>1, <2>2, <2>3, <2>4, <2>5 DEF Work
<1>2. Bad' = Bad
  BY <1>1 DEF Bad, Spoilt, Passed
<1> QED BY <1>1, <1>2 DEF ManualInv, Prepares, Counted, CurvePlaceInv

LEMMA DriverPrepares ==
  ASSUME ManualInv, Driver PROVE Prepares
<1>1. /\ UNCHANGED <<env, curve, manual>> /\ (NoFault \/ Fault)
      /\ pc \in WithManual /\ pc' \in WithManual
  <2> USE DEF NoFault, ec, Goto, Loop, WithManual
  <2>1. CASE Register
    BY <2>1 DEF Register
  <2>2. CASE InitRead
    BY <2>2 DEF InitRead, Read
  <2>3. CASE InitWrite
    BY <2>3 DEF InitWrite, WriteAnimation
  <2>4. CASE InitRgb
    BY <2>4 DEF InitRgb, WriteLight
  <2>5. CASE RemoveLightbar
    BY <2>5 DEF RemoveLightbar
  <2>6. CASE Unregister
    BY <2>6 DEF Unregister
  <2>7. CASE Flush
    BY <2>7 DEF Flush
  <2> QED BY <2>1, <2>2, <2>3, <2>4, <2>5, <2>6, <2>7 DEF Driver
<1> QED BY <1>1, OthersPrepare DEF ManualInv, WithManual

LEMMA InitManual == BarInit => ManualInv
<1> SUFFICES ASSUME BarInit PROVE ManualInv
  OBVIOUS
<1>1. env.faults \in Nat /\ faults = env.faults
  BY ProbeAssumption DEF BarInit, Init
<1>2. Bad = {}
  BY DEF BarInit, Init, Bad, Passed
<1>3. Cardinality(Bad) <= env.faults - faults
  BY <1>1, <1>2, FS_EmptySet
<1>4. pc = "unbound" /\ manual = FALSE /\ curve = [k \in Curve |-> "bios"]
  BY DEF BarInit, Init
<1> QED BY <1>3, <1>4 DEF ManualInv, CurvePlaceInv, WithManual

LEMMA NextManual ==
  /\ ProbeTypes /\ ProbeTypes'
  /\ env.faults < Unlimited => ManualInv
  /\ [BarNext]_barAll
  => (env.faults < Unlimited => ManualInv)'
<1> SUFFICES ASSUME ProbeTypes, ProbeTypes', env.faults < Unlimited => ManualInv,
                    [BarNext]_barAll, (env.faults < Unlimited)'
             PROVE  ManualInv'
  OBVIOUS
<1>1. env' = env /\ env.faults < Unlimited /\ ManualInv /\ faults \in Nat /\ faults < Unlimited
  BY EnvIsConstant, EnvTypes DEF ProbeTypes, Unlimited
<1>2. CASE Next
  BY <1>1, <1>2, ProbePrepares, PreparesKeepsManual
<1>3. ASSUME NEW l \in Leds, (\E v \in Levels(l) : Store(l, v)) \/ Work(l) PROVE ManualInv'
  BY <1>1, <1>3, WorkPrepares, PreparesKeepsManual
<1>4. CASE Driver
  BY <1>1, <1>4, DriverPrepares, PreparesKeepsManual
<1>5. CASE UNCHANGED barAll
  BY <1>1, <1>5 DEF barAll, probeVars, ec, ManualInv, CurvePlaceInv, Bad, Spoilt, Passed
<1> QED BY <1>2, <1>3, <1>4, <1>5 DEF BarNext

\* However many accesses fail, in probe and in the work of the LEDs beside it, manual
\* mode is never on with more points spoilt than accesses have failed; and if none
\* has, it is on while the driver is bound and off when it is gone.
THEOREM ManualModeStaysPrepared == BarSpec => []ManualModeIsPrepared
<1>1. BarInit => (env.faults < Unlimited => ManualInv)
  BY InitManual
<1>2. ProbeTypes /\ ManualInv => ManualModeIsPrepared
  <2> SUFFICES ASSUME ProbeTypes, ManualInv, env.faults < Unlimited PROVE ManualModeIsPrepared
    BY DEF ManualModeIsPrepared
  <2>1. manual => Bad = Spoilt \cup (IF pc = "write_curve" /\ read = "garbage" THEN {at} ELSE {})
    BY DEF Bad, Passed
  <2>2. manual => Cardinality(Spoilt) \in Nat /\ Cardinality(Spoilt) <= Cardinality(Bad)
    BY <2>1, BadIsFinite, FS_Subset, FS_CardinalityType DEF ManualInv
  <2>3. Cardinality(Bad) \in Nat /\ Cardinality(Bad) <= env.faults - faults
    BY BadIsFinite DEF ManualInv
  <2>4. env.faults \in Nat /\ faults \in Nat
    BY EnvTypes DEF ProbeTypes
  <2>5. manual => Cardinality(Spoilt) <= env.faults - faults
    BY <2>2, <2>3, <2>4
  <2>6. faults = env.faults => (pc = "bound" => manual) /\ (pc = "unbound" => ~manual)
    BY DEF ManualInv, WithManual
  <2> QED BY <2>5, <2>6 DEF ManualModeIsPrepared
<1>3. ProbeTypes /\ (env.faults < Unlimited => ManualInv) => ManualModeIsPrepared
  BY <1>2 DEF ManualModeIsPrepared
<1> QED BY <1>1, <1>3, NextManual, InitRom, NextRom, PTL DEF BarSpec

=============================================================================
