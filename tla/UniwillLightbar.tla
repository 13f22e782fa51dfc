-------------------------- MODULE UniwillLightbar --------------------------
(***************************************************************************)
(* The lightbar of uniwill_keyboard.h: three LEDs for its colours and one  *)
(* for its animation, on four registers of the EC; the animation is bit 7  *)
(* of 0x0748, which setting a colour clears by read, modify and write.     *)
(*                                                                         *)
(* The LED core runs brightness_set_blocking in one work item per LED, so  *)
(* that the calls of different LEDs overlap, also with the initialization  *)
(* at the end of probe (UniwillProbe), which comes after the registration. *)
(***************************************************************************)
EXTENDS UniwillProbe

Colors == {"red", "green", "blue"}
Order == <<"red", "green", "blue", "animation">>  \* lightbar_led_classdevs
Leds == Colors \cup {"animation"}
Levels(l) == IF l \in Colors THEN {0, 36} ELSE {0, 1}  \* userspace sets

VARIABLES
  light,      \* light[l]: 0x0749, 0x074a, 0x074b, and bit 7 of 0x0748
  others,     \* the other bits of 0x0748: "kept" or "lost"
  registered, \* LEDs that userspace can set
  value,      \* value[l]: delayed_set_value, what was asked of l last
  queued,     \* LEDs whose work is queued
  work,       \* work[l]: where the work of l is
  held_bits,  \* held_bits[t]: what work l, or probe, has read of 0x0748
  uw_lightbar_loaded,
  stored,     \* history: colours set by userspace since the driver was bound
  asked       \* history: animation states asked for by work that overlaps

barVars == <<light, others, registered, value, queued, work, held_bits,
             uw_lightbar_loaded, stored, asked>>
bar == <<light, others>>
requests == <<registered, value, queued, stored>>

Bits == [animation : 0 .. 1, others : {"kept", "lost"}]
Garbage == [animation |-> 1, others |-> "lost"]  \* 0xfe

BarInit ==
  /\ Init
  /\ light \in [Leds -> {0}] \cup {[l \in Leds |-> IF l = "animation" THEN 1 ELSE 36]}
  /\ others = "kept"
  /\ registered = {} /\ queued = {}
  /\ value = [l \in Leds |-> 0]
  /\ work = [l \in Leds |-> "idle"]
  /\ held_bits = [t \in Leds \cup {"probe"} |-> Garbage]
  /\ uw_lightbar_loaded = FALSE
  /\ stored = {} /\ asked = {}

\* Nothing is on its way to the animation.
Calm ==
  /\ queued = {} /\ pc # "init_write"
  /\ \A l \in Leds : work[l] = "idle"

\* A state asked of the animation, along with the states asked for by work that
\* has not ended.
Asks(state) ==
  asked' = (IF Calm THEN {} ELSE asked) \cup {state}

Read(t) ==
  \/ /\ NoFault
     /\ held_bits' = [held_bits EXCEPT ![t] =
                        [animation |-> light["animation"], others |-> others]]
  \/ Fault /\ held_bits' = [held_bits EXCEPT ![t] = Garbage]

WriteLight(l, v) ==
  \/ NoFault /\ light' = [light EXCEPT ![l] = v]
  \/ Fault /\ UNCHANGED light

\* Mutant: the register is not read before.
WriteAnimationOnly(t, state) ==
  \/ NoFault /\ light' = [light EXCEPT !["animation"] = state] /\ others' = "lost"
  \/ Fault /\ UNCHANGED bar

\* Bit 7 of what was read.
WriteAnimation(t, state) ==
  \/ /\ NoFault
     /\ light' = [light EXCEPT !["animation"] = state]
     /\ others' = held_bits[t].others
  \/ Fault /\ UNCHANGED bar

-----------------------------------------------------------------------------
(***************************************************************************)
(* LED class devices: userspace, and lightbar_set_blocking in the work     *)
(***************************************************************************)

\* Userspace sets an LED that is there.
Store(l, v) ==
  /\ l \in registered \cap env.sets /\ (pc = "bound" \/ env.early)
  /\ value' = [value EXCEPT ![l] = v]
  /\ queued' = queued \cup {l}
  /\ stored' = IF pc = "bound" THEN stored \cup {l} ELSE stored
  /\ Asks(IF l = "animation" THEN v ELSE 0)
  /\ UNCHANGED <<probeVars, bar, registered, work, held_bits, uw_lightbar_loaded>>

\* Mutant: the two other colours are not left out.
SetColorAll(l) ==
  /\ l \in Colors \cap queued /\ work[l] = "idle"
  /\ queued' = queued \ {l}
  /\ light' = [k \in Leds |-> IF k = l THEN value[l] ELSE IF k \in Colors THEN 0 ELSE light[k]]
  /\ NoFault
  /\ work' = [work EXCEPT ![l] = "read"]
  /\ UNCHANGED <<env, ec, pc, at, tries, read, result, others, registered, value,
                 held_bits, uw_lightbar_loaded, stored, asked>>

\* Mutant: the animation stays on.
SetColorOnly(l) ==
  /\ l \in Colors \cap queued /\ work[l] = "idle"
  /\ queued' = queued \ {l}
  /\ WriteLight(l, value[l])
  /\ UNCHANGED work
  /\ UNCHANGED <<env, ec, pc, at, tries, read, result, others, registered, value,
                 held_bits, uw_lightbar_loaded, stored, asked>>

\* The work of a colour takes the value and writes it; the two other colours
\* are 0xff, which is not written.
SetColor(l) ==
  /\ l \in Colors \cap queued /\ work[l] = "idle"
  /\ queued' = queued \ {l}
  /\ WriteLight(l, value[l])
  /\ work' = [work EXCEPT ![l] = "read"]
  /\ UNCHANGED <<env, ec, pc, at, tries, read, result, others, registered, value,
                 held_bits, uw_lightbar_loaded, stored, asked>>

\* The work of the animation takes the value.
SetAnimation ==
  /\ "animation" \in queued /\ work["animation"] = "idle"
  /\ queued' = queued \ {"animation"}
  /\ work' = [work EXCEPT !["animation"] = IF value["animation"] = 1 THEN "read_on" ELSE "read"]
  /\ UNCHANGED <<probeVars, bar, registered, value, held_bits, uw_lightbar_loaded,
                 stored, asked>>

\* uniwill_write_lightbar_animation, in the work of an LED.
ReadBits(l) ==
  /\ work[l] \in {"read", "read_on"}
  /\ Read(l)
  /\ work' = [work EXCEPT ![l] = IF @ = "read" THEN "write" ELSE "write_on"]
  /\ UNCHANGED <<env, ec, pc, at, tries, read, result, bar, requests,
                 uw_lightbar_loaded, asked>>

WriteBits(l) ==
  /\ work[l] \in {"write", "write_on"}
  /\ WriteAnimation(l, IF work[l] = "write" THEN 0 ELSE 1)
  /\ work' = [work EXCEPT ![l] = "idle"]
  /\ held_bits' = [held_bits EXCEPT ![l] = Garbage]
  /\ UNCHANGED <<env, ec, pc, at, tries, read, result, requests,
                 uw_lightbar_loaded, asked>>

-----------------------------------------------------------------------------
(***************************************************************************)
(* uw_lightbar_init, uw_lightbar_remove                                    *)
(***************************************************************************)

\* One LED after another; if one fails those before it are unregistered.
Register ==
  LET l == Order[at + 1] IN
  /\ pc = "register"
  /\ \/ /\ registered' = registered \cup {l}
        /\ IF at < 3 THEN Loop(at + 1) /\ UNCHANGED pc
           ELSE Goto("init_read") /\ Loop(0)
        /\ UNCHANGED uw_lightbar_loaded
     \/ /\ env.registerFails
        /\ uw_lightbar_loaded' = FALSE
        /\ Goto(IF at = 0 THEN "bound" ELSE "unregister") /\ Loop(0)
        /\ UNCHANGED registered
  /\ stored' = {}
  /\ UNCHANGED <<env, faults, ec, read, result, bar, value, queued, work, held_bits, asked>>

\* Animation off, then all colours 0.
InitRead ==
  /\ pc = "init_read"
  /\ Read("probe")
  /\ Goto("init_write")
  /\ Asks(0)
  /\ UNCHANGED <<env, ec, at, tries, read, result, bar, requests, work, uw_lightbar_loaded>>

InitWrite ==
  /\ pc = "init_write"
  /\ WriteAnimation("probe", 0)
  /\ held_bits' = [held_bits EXCEPT !["probe"] = Garbage]
  /\ Goto("init_rgb")
  /\ UNCHANGED <<env, ec, at, tries, read, result, requests, work, uw_lightbar_loaded, asked>>

InitRgb ==
  /\ pc = "init_rgb"
  /\ WriteLight(Order[at + 1], 0)
  /\ IF at < 2 THEN Loop(at + 1) /\ UNCHANGED <<pc, uw_lightbar_loaded>>
     ELSE Goto("bound") /\ Loop(0) /\ uw_lightbar_loaded' = TRUE
  /\ UNCHANGED <<env, ec, read, result, others, requests, work, held_bits, asked>>

RemoveLightbar ==
  /\ pc = "remove_lightbar"
  /\ IF uw_lightbar_loaded THEN Goto("unregister") ELSE Goto("disable_manual")
  /\ UNCHANGED <<env, faults, ec, at, tries, read, result, barVars>>

\* led_classdev_unregister (LED core): the LED is switched off by its work,
\* which is waited for.
Unregister ==
  LET l == Order[at + 1] IN
  /\ pc = "unregister"
  /\ registered' = registered \ {l}
  /\ value' = [value EXCEPT ![l] = 0] /\ queued' = queued \cup {l}
  /\ Goto("flush")
  /\ Asks(0)
  /\ UNCHANGED <<env, faults, ec, at, tries, read, result, bar, work, held_bits,
                 uw_lightbar_loaded, stored>>

\* Mutant: the last LED stays.
FlushShort ==
  /\ pc = "flush"
  /\ Order[at + 1] \notin queued /\ work[Order[at + 1]] = "idle"
  /\ IF at < 2 THEN Goto("unregister") /\ Loop(at + 1)
     ELSE Goto(IF uw_lightbar_loaded THEN "disable_manual" ELSE "bound") /\ Loop(0)
  /\ UNCHANGED <<env, faults, ec, read, result, barVars>>

Flush ==
  /\ pc = "flush"
  /\ Order[at + 1] \notin queued /\ work[Order[at + 1]] = "idle"
  /\ IF registered # {} THEN Goto("unregister") /\ Loop(at + 1)
     ELSE Goto(IF uw_lightbar_loaded THEN "disable_manual" ELSE "bound") /\ Loop(0)
  /\ UNCHANGED <<env, faults, ec, read, result, barVars>>

Work(l) == SetColor(l) \/ (l = "animation" /\ SetAnimation) \/ ReadBits(l) \/ WriteBits(l)

Driver ==
  \/ Register \/ InitRead \/ InitWrite \/ InitRgb
  \/ RemoveLightbar \/ Unregister \/ Flush

BarNext ==
  \/ Next /\ UNCHANGED barVars
  \/ \E l \in Leds : (\E v \in Levels(l) : Store(l, v)) \/ Work(l)
  \/ Driver

barAll == <<probeVars, barVars>>

\* Threads and work items of the kernel run on.
BarSpec ==
  /\ BarInit /\ [][BarNext]_barAll
  /\ WF_barAll(Step /\ UNCHANGED barVars) /\ WF_barAll(Driver)
  /\ \A l \in Leds : WF_barAll(Work(l))

-----------------------------------------------------------------------------
(***************************************************************************)
(* Properties                                                              *)
(***************************************************************************)

BarTypeOK ==
  /\ TypeOK
  /\ \A l \in Leds : light[l] \in Levels(l) /\ value[l] \in Levels(l)
  /\ others \in {"kept", "lost"}
  /\ registered \subseteq Leds /\ queued \subseteq Leds
  /\ work \in [Leds -> {"idle", "read", "read_on", "write", "write_on"}]
  /\ held_bits \in [Leds \cup {"probe"} -> Bits]
  /\ uw_lightbar_loaded \in BOOLEAN
  /\ stored \subseteq Leds /\ asked \subseteq 0 .. 1

\* On an EC that answers, the seven bits that are not the animation are never
\* changed, although five contexts read, modify and write them without a lock.
OtherBitsPreserved == env.faults = 0 => others = "kept"

\* When all work has ended, each colour that was set while the driver was bound
\* is the one that was set last, whatever was done to the other LEDs meanwhile.
ColorsAsStored ==
  env.faults = 0 /\ Calm /\ pc = "bound" =>
    \A l \in stored \cap Colors : light[l] = value[l]

\* "Also make sure the animation is off": when all work has ended the animation
\* is in a state that one of the calls that overlapped last asked for, where a
\* colour asks for it to be off.
AnimationAsAsked ==
  env.faults = 0 /\ Calm /\ asked # {} => light["animation"] \in asked

\* When the driver is gone the lightbar is dark and still, unless it never had
\* the lightbar.
DarkWhenRemoved ==
  env.faults = 0 /\ env.lightbar /\ ~env.registerFails /\ pc = "disable_manual" =>
    Calm /\ \A l \in Leds : light[l] = 0

=============================================================================
