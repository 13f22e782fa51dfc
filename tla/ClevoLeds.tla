------------------------------ MODULE ClevoLeds ------------------------------
(***************************************************************************)
(* The keyboard backlight of Clevo notebooks: clevo_leds.h and the events, *)
(* suspend, resume and probe of clevo_keyboard.h that use it.              *)
(*                                                                         *)
(* Firmware methods set one brightness for the whole keyboard and a colour *)
(* for each zone; the LED class has a device with brightness and colour    *)
(* for each zone.  A call of a firmware method is one step; the contexts   *)
(* that make them, sysfs, events, suspend and resume, and probe and        *)
(* remove, share no lock.                                                  *)
(***************************************************************************)
EXTENDS Integers, Sequences

CONSTANTS
  Levels,        \* brightness values up to max_brightness, of which 0 is one
  Garbage,       \* values of an uninitialized u32
  ColorList,     \* color_list: colours <<red, green, blue>>, black first
  Modes,         \* values of kbd_backlight_mode that are set
  Environments   \* keyboards and what may happen to them; env is one of them

Kinds == {"white", "one_zone", "three_zones"}
Contexts == {"sysfs", "event", "pm", "driver"}
Possible == {{"sysfs", "event"}, {"sysfs", "driver"}, {"event", "pm"},
             {"event", "driver"}}

ASSUME ClevoAssumption ==
  /\ 0 \in Levels /\ Levels \subseteq 0 .. 255
  /\ Garbage \subseteq Nat
  /\ Len(ColorList) >= 2
  /\ \A i \in 1 .. Len(ColorList) : ColorList[i] \in [1 .. 3 -> 0 .. 255]
  /\ 0 \in Modes /\ Modes \subseteq 0 .. 7
  /\ Environments \subseteq [kind : Kinds, overlaps : SUBSET Possible, faults : BOOLEAN]

VARIABLES
  env,          \* env.kind: of keyboard; env.overlaps: pairs of contexts that may
                \* run at the same time; env.faults: a firmware method may fail
  bright,       \* firmware: brightness of the keyboard
  shown,        \* firmware: shown[z], the colour of zone z
  lit,          \* firmware: the keyboard is enabled
  effect,       \* firmware: the backlight mode
  led,          \* led[z]: brightness of the LED class device of zone z
  intensity,    \* intensity[z]: the colour it is set to
  mode,         \* kbd_led_state.mode
  color_id,     \* kbd_led_state.whole_kbd_color
  registered,   \* the LED class devices exist
  bound,        \* the platform device is probed
  power,        \* of the machine
  keyEvent,     \* firmware changed the brightness, the event is not handled yet
  todo,         \* todo[c]: the operations c still has to perform
  pc            \* pc[c]: what c does next in the first of them

firmware == <<bright, shown, lit, effect>>
memory == <<led, intensity, mode, color_id, registered>>
world == <<bound, power, keyEvent>>
vars == <<env, firmware, memory, world, todo, pc>>

Zones == IF env.kind = "three_zones" THEN 0 .. 2 ELSE {0}
ZoneSeq == IF env.kind = "three_zones" THEN <<0, 1, 2>> ELSE <<0>>
Rgb == env.kind # "white"
ColorIds == 0 .. Len(ColorList) - 1
ColorOf(id) == ColorList[id + 1]
Default == <<255, 255, 255>>  \* CLEVO_KB_COLOR_DEFAULT

\* color_scaling and the order blue, red, green of the firmware
Sent(color) ==
  LET red == IF env.kind = "one_zone" THEN (180 * color[1]) \div 255 ELSE color[1]
      blue == IF env.kind = "one_zone" THEN (200 * color[3]) \div 255 ELSE color[3]
  IN <<blue, red, color[2]>>

\* The methods for the brightness take a u8.
Byte(b) == b % 256

\* What a method leaves that sets old to new.
Called(old, new) == {new} \cup IF env.faults THEN {old} ELSE {}

\* Operations
Brightness(z, b) == [op |-> "brightness", zone |-> z, level |-> b]
SwitchOff(z) == [op |-> "off", zone |-> z]
RestoreZone(z) == [op |-> "restore", zone |-> z]
Color(z, c) == [op |-> "color", zone |-> z, color |-> c]
Status(on) == [op |-> "status", on |-> on]
Mode(m) == [op |-> "mode", mode |-> m]
Cycled(id) == [op |-> "cycled", id |-> id]
Op(name) == [op |-> name]
ForZones(op(_)) == [i \in 1 .. Len(ZoneSeq) |-> op(ZoneSeq[i])]

\* clevo_leds_restore_state_extern and clevo_leds_set_color_extern
Restore == ForZones(RestoreZone)
SetColor(c) == IF Rgb THEN ForZones(LAMBDA z : Color(z, c)) ELSE <<>>

AssignStep == [z \in 0 .. 2 |-> <<"assign0", "assign1", "assign2">>[z + 1]]

Idle(c) == todo[c] = <<>>
Quiescent == \A c \in Contexts : Idle(c)

Init ==
  /\ env \in Environments
  /\ bright \in Levels /\ shown = [z \in Zones |-> Sent(Default)]
  /\ lit \in BOOLEAN /\ effect \in Modes
  /\ led = [z \in Zones |-> 0]
  /\ intensity = [z \in Zones |-> Default]
  /\ mode = 0 /\ color_id = Len(ColorList) - 1
  /\ registered = FALSE /\ bound = FALSE
  /\ power = "awake" /\ keyEvent = FALSE
  /\ todo = [c \in Contexts |-> <<>>] /\ pc = [c \in Contexts |-> "start"]

-----------------------------------------------------------------------------
(***************************************************************************)
(* What starts a context                                                   *)
(***************************************************************************)

Begin(c, ops) ==
  /\ Idle(c)
  /\ \A d \in Contexts : Idle(d) \/ {c, d} \in env.overlaps
  /\ todo' = [todo EXCEPT ![c] = ops]
  /\ UNCHANGED pc

\* echo b > brightness.  The LED core stores b in the device of the zone.
Store(z, b) ==
  /\ registered /\ power = "awake"
  /\ Begin("sysfs", <<Brightness(z, b)>>)
  /\ led' = [led EXCEPT ![z] = b]
  /\ UNCHANGED <<env, firmware, intensity, mode, color_id, registered, world>>

\* echo r g b > multi_intensity.  The LED core stores the colour and sets the
\* brightness it has again.
StoreIntensity(z, id) ==
  /\ Rgb /\ registered /\ power = "awake"
  /\ Begin("sysfs", <<Brightness(z, led[z])>>)
  /\ intensity' = [intensity EXCEPT ![z] = ColorOf(id)]
  /\ UNCHANGED <<env, firmware, led, mode, color_id, registered, world>>

\* set_kbd_backlight_mode_fs
StoreMode(m) ==
  /\ env.kind = "three_zones" /\ bound /\ registered /\ power = "awake"
  /\ Begin("sysfs", <<Mode(m)>>)
  /\ UNCHANGED <<env, firmware, memory, world>>

\* The firmware changes the brightness of a white keyboard and tells.
FnKey(b) ==
  /\ ~Rgb /\ power = "awake" /\ ~keyEvent
  /\ b # bright /\ bright' = b
  /\ keyEvent' = bound
  /\ UNCHANGED <<env, shown, lit, effect, memory, bound, power, todo, pc>>

\* clevo_keyboard_event_callb, CLEVO_EVENT_KB_LEDS_CYCLE_BRIGHTNESS
BrightnessEvent ==
  /\ ~Rgb /\ keyEvent /\ bound /\ power # "asleep"
  /\ Begin("event", <<Op("notify")>>)
  /\ keyEvent' = FALSE
  /\ UNCHANGED <<env, firmware, memory, bound, power>>

\* clevo_keyboard_event_callb, CLEVO_EVENT_KB_LEDS_CYCLE_MODE: the next colour
\* for all zones; black is skipped.
CycleEvent ==
  LET next == IF color_id + 1 >= Len(ColorList) THEN 1 ELSE color_id + 1 IN
  /\ Rgb /\ bound /\ power # "asleep"
  /\ Begin("event", SetColor(ColorOf(next)) \o <<Cycled(next)>>)
  /\ UNCHANGED <<env, firmware, memory, world>>

\* clevo_leds_suspend
Suspend ==
  /\ bound /\ power = "awake" /\ Idle("sysfs")
  /\ Begin("pm", IF Rgb THEN <<Status(FALSE)>> ELSE <<>>)
  /\ power' = "suspending"
  /\ UNCHANGED <<env, firmware, memory, bound, keyEvent>>

Sleep ==
  /\ power = "suspending" /\ Idle("pm") /\ Idle("event")
  /\ power' = "asleep"
  /\ UNCHANGED <<env, firmware, memory, bound, keyEvent, todo, pc>>

\* "Sometimes clevo devices forget their last state after suspend".
Wake ==
  /\ power = "asleep"
  /\ power' = "waking"
  /\ bright' \in {bright, 0}
  /\ shown' \in {shown, [z \in Zones |-> Sent(Default)]}
  /\ UNCHANGED <<env, lit, effect, memory, bound, keyEvent, todo, pc>>

\* Mutant: resume only enables the keyboard again.
ResumeEnableOnly ==
  /\ power = "waking"
  /\ Begin("pm", IF Rgb THEN <<Status(TRUE)>> ELSE <<>>)
  /\ power' = "resuming"
  /\ UNCHANGED <<env, firmware, memory, bound, keyEvent>>

\* Mutant: resume restores brightness and colours, but does not enable them.
ResumeRestoreOnly ==
  /\ power = "waking"
  /\ Begin("pm", Restore)
  /\ power' = "resuming"
  /\ UNCHANGED <<env, firmware, memory, bound, keyEvent>>

\* clevo_keyboard_resume
Resume ==
  /\ power = "waking"
  /\ Begin("pm", Restore \o IF Rgb THEN <<Status(TRUE)>> ELSE <<>>)
  /\ power' = "resuming"
  /\ UNCHANGED <<env, firmware, memory, bound, keyEvent>>

Thaw ==
  /\ power = "resuming" /\ Idle("pm")
  /\ power' = "awake"
  /\ UNCHANGED <<env, firmware, memory, bound, keyEvent, todo, pc>>

\* clevo_keyboard_probe: clevo_leds_init, then clevo_keyboard_init
Probe ==
  /\ ~bound /\ power = "awake"
  /\ Begin("driver",
           (IF Rgb THEN SetColor(Default) \o <<Status(TRUE)>>
            ELSE <<Brightness(0, led[0])>>)
           \o <<Op("register"), Mode(0)>>)
  /\ bound' = TRUE
  /\ UNCHANGED <<env, firmware, memory, power, keyEvent>>

\* clevo_leds_remove.  The LED core switches each device off before it goes.
Remove ==
  /\ bound /\ power = "awake"
  /\ Begin("driver",
           IF registered THEN ForZones(SwitchOff) \o <<Op("unregister")>>
           ELSE <<>>)
  /\ bound' = FALSE
  /\ keyEvent' = FALSE
  /\ UNCHANGED <<env, firmware, memory, power>>

-----------------------------------------------------------------------------
(***************************************************************************)
(* The operations, one method call at a time                               *)
(***************************************************************************)

At(c, name, step) == ~Idle(c) /\ Head(todo[c]).op = name /\ pc[c] = step
Current(c) == Head(todo[c])

Finish(c) ==
  /\ todo' = [todo EXCEPT ![c] = Tail(@)]
  /\ pc' = [pc EXCEPT ![c] = "start"]
Continue(c, step) == pc' = [pc EXCEPT ![c] = step] /\ UNCHANGED todo
Becomes(c, op) ==
  /\ todo' = [todo EXCEPT ![c] = <<op>> \o Tail(@)]
  /\ pc' = [pc EXCEPT ![c] = "start"]

\* The brightness that is written back is read here.
StartRestore(c) ==
  /\ At(c, "restore", "start")
  /\ Becomes(c, Brightness(Current(c).zone, led[Current(c).zone]))
  /\ UNCHANGED <<env, firmware, memory, world>>

StartOff(c) ==
  /\ At(c, "off", "start")
  /\ led' = [led EXCEPT ![Current(c).zone] = 0]
  /\ Becomes(c, Brightness(Current(c).zone, 0))
  /\ UNCHANGED <<env, firmware, intensity, mode, color_id, registered, world>>

StartColor(c) ==
  /\ At(c, "color", "start")
  /\ intensity' = [intensity EXCEPT ![Current(c).zone] = Current(c).color]
  /\ Becomes(c, Brightness(Current(c).zone, led[Current(c).zone]))
  /\ UNCHANGED <<env, firmware, led, mode, color_id, registered, world>>

\* clevo_leds_set_brightness and clevo_leds_set_brightness_mc: the method for
\* the brightness of the whole keyboard, whose failure ends the call.
CallBrightness(c) ==
  /\ At(c, "brightness", "start")
  /\ \/ bright' = Byte(Current(c).level) /\ Continue(c, AssignStep[0])
     \/ env.faults /\ UNCHANGED bright /\ Finish(c)
  /\ UNCHANGED <<env, shown, lit, effect, memory, world>>

\* All zones have the brightness of the keyboard; one assignment after another.
AssignBrightness(c, z) ==
  /\ At(c, "brightness", AssignStep[z])
  /\ led' = [led EXCEPT ![z] = Current(c).level]
  /\ IF z + 1 \in Zones THEN Continue(c, AssignStep[z + 1])
     ELSE IF Rgb THEN Continue(c, "color") ELSE Finish(c)
  /\ UNCHANGED <<env, firmware, intensity, mode, color_id, registered, world>>

\* The colour is read here and sent in the next step.
ReadIntensity(c) ==
  /\ At(c, "brightness", "color")
  /\ Becomes(c, [op |-> "send", zone |-> Current(c).zone,
                 color |-> Sent(intensity[Current(c).zone])])
  /\ UNCHANGED <<env, firmware, memory, world>>

CallColor(c) ==
  LET z == Current(c).zone IN
  /\ At(c, "send", "start")
  /\ \E s \in Called(shown[z], Current(c).color) : shown' = [shown EXCEPT ![z] = s]
  /\ Finish(c)
  /\ UNCHANGED <<env, bright, lit, effect, memory, world>>

\* clevo_leds_notify_brightness_change_extern.  When the method fails, the
\* result is used all the same, and nothing has set it.
CallNotify(c) ==
  /\ At(c, "notify", "start")
  /\ \E b \in {bright} \cup IF env.faults THEN Garbage ELSE {} :
       todo' = [todo EXCEPT ![c][1] = [op |-> "notify", level |-> b]]
  /\ pc' = [pc EXCEPT ![c] = "assign"]
  /\ UNCHANGED <<env, firmware, memory, world>>

\* Mutant: userspace is told, but the device keeps its brightness.
AssignNotifyForgotten(c) ==
  /\ At(c, "notify", "assign")
  /\ Finish(c)
  /\ UNCHANGED <<env, firmware, memory, world>>

AssignNotify(c) ==
  /\ At(c, "notify", "assign")
  /\ led' = [led EXCEPT ![0] = Current(c).level]
  /\ Finish(c)
  /\ UNCHANGED <<env, firmware, intensity, mode, color_id, registered, world>>

\* clevo_evaluate_set_keyboard_status
CallStatus(c) ==
  /\ At(c, "status", "start")
  /\ lit' \in Called(lit, Current(c).on)
  /\ Finish(c)
  /\ UNCHANGED <<env, bright, shown, effect, memory, world>>

\* set_kbd_backlight_mode
CallMode(c) ==
  /\ At(c, "mode", "start")
  /\ \/ effect' = Current(c).mode /\ mode' = Current(c).mode
     \/ /\ env.faults
        /\ UNCHANGED effect
        /\ mode' = IF c = "driver" THEN Current(c).mode ELSE mode
  /\ Finish(c)
  /\ UNCHANGED <<env, bright, shown, lit, led, intensity, color_id, registered, world>>

\* Mutant: the number of the colour is counted on instead of set.
FinishCycleUnwrapped(c) ==
  /\ At(c, "cycled", "start")
  /\ color_id' = color_id + 1
  /\ Finish(c)
  /\ UNCHANGED <<env, firmware, led, intensity, mode, registered, world>>

FinishCycle(c) ==
  /\ At(c, "cycled", "start")
  /\ color_id' = Current(c).id
  /\ Finish(c)
  /\ UNCHANGED <<env, firmware, led, intensity, mode, registered, world>>

\* The end of clevo_leds_init and of clevo_leds_remove; a device goes when no
\* store is running on it.
Register(c) ==
  /\ \/ At(c, "register", "start") /\ registered' = TRUE
     \/ At(c, "unregister", "start") /\ Idle("sysfs") /\ registered' = FALSE
  /\ Finish(c)
  /\ UNCHANGED <<env, firmware, led, intensity, mode, color_id, world>>

-----------------------------------------------------------------------------
Step(c) ==
  \/ StartRestore(c) \/ StartColor(c) \/ StartOff(c)
  \/ CallBrightness(c) \/ \E z \in Zones : AssignBrightness(c, z)
  \/ ReadIntensity(c) \/ CallColor(c)
  \/ CallNotify(c) \/ AssignNotify(c) \/ CallStatus(c) \/ CallMode(c)
  \/ FinishCycle(c) \/ Register(c)

Next ==
  \/ \E z \in Zones : \/ \E b \in Levels : Store(z, b)
                      \/ \E id \in ColorIds : StoreIntensity(z, id)
  \/ \E m \in Modes : StoreMode(m)
  \/ \E b \in Levels : FnKey(b)
  \/ BrightnessEvent \/ CycleEvent
  \/ Suspend \/ Sleep \/ Wake \/ Resume \/ Thaw
  \/ Probe \/ Remove
  \/ \E c \in Contexts : Step(c)

Spec == Init /\ [][Next]_vars

-----------------------------------------------------------------------------
(***************************************************************************)
(* Properties                                                              *)
(***************************************************************************)

Triples == {Sent(ColorOf(id)) : id \in ColorIds} \cup {Sent(Default)}

\* What a brightness may be.  Only on a white keyboard, the kind whose firmware
\* tells of a brightness, can one that is read without success get around.
Values == IF env.faults /\ ~Rgb THEN Levels \cup Garbage \cup {Byte(b) : b \in Garbage}
          ELSE Levels

\* Types; and on keyboards with colours, and while no method fails, each
\* brightness is in the range of the LED class device.
TypeOK ==
  /\ env \in Environments
  /\ bright \in Values /\ bright <= 255 /\ lit \in BOOLEAN /\ effect \in Modes
  /\ shown \in [Zones -> Triples]
  /\ led \in [Zones -> Values]
  /\ \A z \in Zones : Sent(intensity[z]) \in Triples
  /\ mode \in Modes /\ color_id \in ColorIds
  /\ {registered, bound, keyEvent} \subseteq BOOLEAN
  /\ power \in {"awake", "suspending", "asleep", "waking", "resuming"}
  /\ \A c \in Contexts : pc[c] \in 
       {"start", "assign", "assign0", "assign1", "assign2", "color"}

Settled == registered /\ power = "awake" /\ Quiescent /\ ~keyEvent

\* With one context at a time, and nothing under way, the keyboard shows what
\* the LED class devices say: the brightness, in all zones, and the colour of
\* each, also after resume ("forget their last state after suspend, so let the
\* kernel ensure it"), a cycle of colours, or a change by the firmware.
KeyboardMatchesLeds ==
  Settled /\ env.overlaps = {} /\ ~env.faults =>
    \A z \in Zones : /\ led[z] = bright
                     /\ Rgb => shown[z] = Sent(intensity[z])

\* Whatever overlaps, a keyboard with colours is enabled from probe and resume
\* to suspend.
LitWhenAwake == Settled /\ Rgb /\ ~env.faults => lit

=============================================================================
