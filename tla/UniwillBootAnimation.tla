------------------------ MODULE UniwillBootAnimation ------------------------
(***************************************************************************)
(* The RGB keyboard backlight of Uniwill notebooks (uniwill_keyboard.h,    *)
(* uniwill_leds.h).                                                        *)
(*                                                                         *)
(* At boot the EC plays an animation on the keyboard.  Probe registers the *)
(* LED and arms a timer; the timer schedules a work item that reads the    *)
(* colour; when the last three colours it saw are the same the animation   *)
(* is taken to be over and the driver's colour and brightness are written. *)
(* Otherwise the timer is armed again, until a count of checks is used up. *)
(* The timer, the work item, probe and remove, userspace that sets         *)
(* colours, the adapter event, suspend and resume run concurrently.  Four  *)
(* of them write the colour, and put register 0x078c, which has the bit    *)
(* that enables the backlight, back as they have read it.                  *)
(***************************************************************************)
EXTENDS Integers

CONSTANTS
  Colors,         \* colours of the animation, and those userspace sets
  CheckCount,     \* initial value of uw_kbd_bl_check_count, 40
  Probes,         \* bound: how often the driver is probed
  CountBelow,     \* bound: how far uw_kbd_bl_check_count goes below 0
  Environments    \* what may happen around the driver; env is one of them

ASSUME AnimationAssumption ==
  /\ Colors \subseteq 1 .. 100
  /\ CheckCount \in Nat /\ Probes \in Nat /\ CountBelow \in Nat
  /\ Environments \subseteq [overlap : BOOLEAN, faults : BOOLEAN,
                             uses : SUBSET {"store", "event", "sleep"}]

Slots == 0 .. 2
White == 0         \* the colour of the LED class device at first
Black == 102
Mixed == 103       \* three components of two colours
NonColors == {-1, -2, -3}
Garbage == 101     \* what failed reads leave in the three variables
NoColor == 104
EcColors == Colors \cup {White, Black, Mixed}

\* Contexts that may write the colour of the LED class device back.
Restorers == {"work", "event", "pm"}

VARIABLES
  env,           \* env.overlap: contexts may run beside each other; env.faults:
                 \* an EC access may time out; env.uses: what else there is
  color,         \* what the EC shows
  animating,     \* the animation is running
  max,           \* EC register 0x1801, the maximal brightness
  lit,           \* the backlight is enabled
  prev,          \* uw_prev_colors
  index,         \* uw_prev_colors_index
  check_count,   \* uw_kbd_bl_check_count
  timer,         \* uw_kbd_bl_init_timer is pending
  queued,        \* the work item is queued
  work,          \* what the work item does next
  rgb,           \* uniwill_kb_backlight_type is 1_ZONE_RGB
  initialized,   \* uw_leds_initialized
  registered,    \* the LED class device exists
  own,           \* uw_mcled_cdev_subleds[*].brightness, the colour of the device
  storing,       \* the colour a call of userspace is about to write, or NoColor
  restore,       \* restore[c]: where c is in uniwill_leds_restore_state_extern
  status,        \* status[c]: the enable bit in its copy of 0x078c
  painting,      \* painting[c]: the colour it is about to write
  pm,            \* "awake", "suspending", "waking" or "resuming"
  driver,        \* what probe or remove does next, "unbound" or "bound"
  probes,        \* history: number of probes
  done,          \* history: uniwill_leds_init_late was done since probe
  animated       \* history: the animation has written the colour last

ec == <<color, animating, max, lit>>
checks == <<prev, index, check_count>>
leds == <<initialized, registered, own>>
restores == <<restore, status, painting>>
calls == <<storing, restores, pm>>
history == <<probes, done, animated>>
vars == <<env, ec, checks, timer, queued, work, rgb, leds, calls, driver, history>>

Init ==
  /\ env \in Environments
  /\ color \in Colors /\ animating = TRUE
  /\ max = 200 /\ lit = TRUE
  /\ prev = [i \in Slots |-> -1 - i] /\ index = 0
  /\ check_count = CheckCount
  /\ timer = FALSE /\ queued = FALSE
  /\ work = "idle"
  /\ rgb = FALSE /\ initialized = FALSE /\ registered = FALSE
  /\ own = White
  /\ storing = NoColor /\ pm = "awake"
  /\ restore = [c \in Restorers |-> "no"]
  /\ status = [c \in Restorers |-> FALSE]
  /\ painting = [c \in Restorers |-> White]
  /\ driver = "unbound"
  /\ probes = 0 /\ done = FALSE /\ animated = TRUE

\* What a write leaves in a register.
Write(old, new) == {new} \cup IF env.faults THEN {old} ELSE {}

\* uniwill_write_kbd_bl_rgb: three registers; the first failure ends it.
WriteColor(c) == {c} \cup IF env.faults THEN {color, Mixed} ELSE {}

\* No call of userspace, event, suspend or resume is under way.
NoCalls ==
  storing = NoColor /\ pm = "awake" /\ \A c \in Restorers : restore[c] = "no"

\* No context is at work.
Alone ==
  NoCalls /\ work = "idle" /\ ~queued /\ driver \in {"unbound", "bound"}

-----------------------------------------------------------------------------
(***************************************************************************)
(* The EC                                                                  *)
(***************************************************************************)

Animate ==
  /\ animating
  /\ color' \in Colors
  /\ animated' = TRUE
  /\ UNCHANGED <<env, rgb, animating, max, lit, checks, timer, queued, work, leds, calls, driver, probes, done>>

EndAnimation ==
  /\ animating' = FALSE
  /\ animating
  /\ UNCHANGED <<env, rgb, color, max, lit, checks, timer, queued, work, leds, driver, history, calls>>

-----------------------------------------------------------------------------
(***************************************************************************)
(* Timer and work item                                                     *)
(***************************************************************************)

\* uw_kbd_bl_init_ready_check
TimerExpires ==
  /\ timer
  /\ timer' = FALSE
  /\ queued' = TRUE
  /\ UNCHANGED <<env, rgb, ec, checks, work, leds, driver, history, calls>>

\* The work queue runs the item once at a time.
WorkStarts ==
  /\ queued /\ work = "idle"
  /\ queued' = FALSE
  /\ work' = "read"
  /\ UNCHANGED <<env, rgb, ec, checks, timer, leds, driver, history, calls>>

\* Mutant: the slot to write is not advanced.
ReadColorSameSlot ==
  /\ work = "read"
  /\ prev' = [prev EXCEPT ![index] = color]
  /\ work' = "compare"
  /\ UNCHANGED <<env, rgb, ec, index, check_count, timer, queued, leds, driver, history, calls>>

\* uniwill_read_kbd_bl_rgb; its result is ignored.
ReadColor ==
  /\ work = "read"
  /\ \E c \in {color} \cup IF env.faults THEN {Garbage} ELSE {} :
       prev' = [prev EXCEPT ![index] = c]
  /\ index' = (index + 1) % 3
  /\ work' = "compare"
  /\ UNCHANGED <<env, rgb, ec, check_count, timer, queued, leds, driver, history, calls>>

Same == \A i, j \in Slots : prev[i] = prev[j]

Compare ==
  /\ work = "compare"
  /\ work' = IF Same THEN "init_late" ELSE IF check_count # 0 THEN "again" ELSE "stop"
  /\ UNCHANGED <<env, rgb, ec, checks, timer, queued, leds, driver, history, calls>>

\* uniwill_leds_init_late: the maximal brightness; if that fails the LED is
\* removed again.
InitLate ==
  /\ work = "init_late"
  /\ \/ max' = 255 /\ work' = "restore"
     \/ env.faults /\ max' \in {max, 255} /\ work' = "leds_remove"
  /\ UNCHANGED <<env, rgb, color, animating, lit, checks, timer, queued, leds, driver, history, calls>>

\* uniwill_leds_restore_state_extern, of c: does nothing without an LED.
StartRestore(c) ==
  /\ restore' = [restore EXCEPT ![c] = IF initialized /\ rgb THEN "read" ELSE "no"]
  /\ UNCHANGED <<status, painting>>

\* Called by init_late
Restore ==
  /\ work = "restore"
  /\ StartRestore("work")
  /\ work' = "enable"
  /\ UNCHANGED <<env, rgb, ec, checks, timer, queued, leds, storing, pm, driver, history>>

\* uniwill_write_kbd_bl_enable(1); then del_timer.
EnableLate ==
  /\ work = "enable" /\ restore["work"] = "no"
  /\ lit' \in Write(lit, TRUE)
  /\ done' = TRUE
  /\ work' = "stop"
  /\ UNCHANGED <<env, rgb, color, animating, max, checks, timer, queued, leds, driver, probes, animated, calls>>

\* Mutant: the last check arms the timer as well.
ArmAgainAlways ==
  /\ work \in {"again", "stop"}
  /\ timer' = (work = "again" \/ ~done)
  /\ check_count' = check_count - 1
  /\ work' = "idle"
  /\ UNCHANGED <<env, rgb, ec, prev, index, queued, leds, driver, history, calls>>

\* mod_timer or del_timer, and uw_kbd_bl_check_count -= 1
ArmAgain ==
  /\ work \in {"again", "stop"}
  /\ timer' = (work = "again")
  /\ check_count' = check_count - 1
  /\ work' = "idle"
  /\ UNCHANGED <<env, rgb, ec, prev, index, queued, leds, driver, history, calls>>

-----------------------------------------------------------------------------
(***************************************************************************)
(* uniwill_keyboard_probe and uniwill_keyboard_remove                      *)
(***************************************************************************)

\* uw_kbd_bl_init: uniwill_leds_init_early finds the type of the keyboard and
\* registers the LED.  If it fails the type is what an earlier probe found, and
\* a keyboard not known to be RGB is enabled at once.
Probe ==
  /\ driver = "unbound" /\ probes < Probes
  /\ \/ rgb' = TRUE /\ initialized' = TRUE /\ registered' = TRUE
     \/ env.faults /\ UNCHANGED <<rgb, initialized, registered>>
  /\ IF rgb' THEN timer' = TRUE /\ UNCHANGED lit
     ELSE UNCHANGED timer /\ lit' \in Write(lit, TRUE)
  /\ driver' = "bound"
  /\ probes' = probes + 1 /\ done' = FALSE
  /\ UNCHANGED <<env, color, animating, max, checks, queued, work, own, animated, calls>>

Pending == timer \/ queued \/ work # "idle"

RemoveStarts ==
  /\ driver = "bound"
  /\ pm = "awake" /\ (env.overlap \/ Alone)
  /\ driver' = "leds_remove"
  /\ UNCHANGED <<env, rgb, ec, checks, timer, queued, work, leds, history, calls>>

\* uniwill_leds_remove, of remove or of the work item
At(caller, step) == IF caller = "work" THEN work = step ELSE driver = step
Goto(caller, step) ==
  IF caller = "work" THEN work' = step /\ UNCHANGED driver
  ELSE driver' = step /\ UNCHANGED work

RemoveLeds(caller) ==
  /\ At(caller, "leds_remove")
  /\ initialized' = FALSE
  /\ IF initialized THEN max' \in Write(max, 200) /\ Goto(caller, "switch_off")
     ELSE UNCHANGED max /\ Goto(caller, "enable")
  /\ UNCHANGED <<env, rgb, color, animating, lit, checks, timer, queued, registered, own, history, calls>>

\* devm_led_classdev_multicolor_unregister (LED core): the device is switched
\* off, which sets its colour, and goes when no call of userspace is in it.
SwitchOff(caller) ==
  /\ At(caller, "switch_off")
  /\ own' = Black
  /\ color' \in WriteColor(Black)
  /\ animated' = FALSE
  /\ Goto(caller, "unregister")
  /\ UNCHANGED <<env, rgb, animating, max, lit, checks, timer, queued, initialized, registered, probes, done, calls>>

Unregister(caller) ==
  /\ At(caller, "unregister") /\ storing = NoColor
  /\ registered' = FALSE
  /\ Goto(caller, "enable")
  /\ UNCHANGED <<env, rgb, ec, checks, timer, queued, initialized, own, history, calls>>

LedsRemove(caller) == RemoveLeds(caller) \/ SwitchOff(caller) \/ Unregister(caller)

\* uniwill_write_kbd_bl_enable with the state on start, which is always 0
RemoveDisables ==
  /\ driver = "enable"
  /\ lit' \in Write(lit, FALSE)
  /\ driver' = "del_timer"
  /\ UNCHANGED <<env, rgb, color, animating, max, checks, timer, queued, work, leds, history, calls>>

\* Mutant: the timer is left pending.
RemoveKeepsTimer ==
  /\ driver = "del_timer"
  /\ driver' = "unbound"
  /\ UNCHANGED <<env, rgb, ec, checks, timer, queued, work, leds, history, calls>>

\* del_timer; a work item that is queued or running is not waited for.
RemoveTimer ==
  /\ driver = "del_timer"
  /\ timer' = FALSE
  /\ driver' = "unbound"
  /\ UNCHANGED <<env, rgb, ec, checks, queued, work, leds, history, calls>>

-----------------------------------------------------------------------------
(***************************************************************************)
(* The LED class device, the adapter event, suspend and resume             *)
(***************************************************************************)

\* Userspace sets a colour: uniwill_leds_set_brightness_mc computes it,
Store(c) ==
  /\ "store" \in env.uses /\ (env.overlap \/ Alone)
  /\ registered /\ pm = "awake" /\ storing = NoColor
  /\ own' = c
  /\ storing' = c
  /\ UNCHANGED <<env, rgb, ec, checks, timer, queued, work, initialized, registered, restores, pm, driver, history>>

\* and writes it.
StoreWrites ==
  /\ storing # NoColor
  /\ color' \in WriteColor(storing)
  /\ storing' = NoColor
  /\ animated' = FALSE
  /\ UNCHANGED <<env, rgb, animating, max, lit, checks, timer, queued, work, leds, restores, pm, driver, probes, done>>

\* uniwill_leds_restore_state_extern: 0x078c is read,
RestoreRead(c) ==
  /\ restore[c] = "read"
  /\ \E on \in {lit} \cup IF env.faults THEN BOOLEAN ELSE {} :
       status' = [status EXCEPT ![c] = on]
  /\ restore' = [restore EXCEPT ![c] = "reset"]
  /\ UNCHANGED <<env, rgb, ec, checks, timer, queued, work, leds, storing, painting, pm, driver, history>>

\* written back with the reset command, and the colour of the device is read;
RestoreReset(c) ==
  /\ restore[c] = "reset"
  /\ lit' \in Write(lit, status[c])
  /\ painting' = [painting EXCEPT ![c] = own]
  /\ status' = [status EXCEPT ![c] = FALSE]
  /\ restore' = [restore EXCEPT ![c] = "paint"]
  /\ UNCHANGED <<env, rgb, color, animating, max, checks, timer, queued, work, leds, storing, pm, driver, history>>

\* that colour is written.
RestorePaint(c) ==
  /\ restore[c] = "paint"
  /\ color' \in WriteColor(painting[c])
  /\ animated' = FALSE
  /\ painting' = [painting EXCEPT ![c] = White]
  /\ restore' = [restore EXCEPT ![c] = "no"]
  /\ UNCHANGED <<env, rgb, animating, max, lit, checks, timer, queued, work, leds, storing, status, pm, driver, probes, done>>

Restoring(c) == RestoreRead(c) \/ RestoreReset(c) \/ RestorePaint(c)

\* uniwill_event_callb, UNIWILL_OSD_DC_ADAPTER_CHANGE: the firmware may have
\* changed the colour.
AdapterEvent ==
  /\ "event" \in env.uses /\ (env.overlap \/ Alone)
  /\ driver = "bound" /\ restore["event"] = "no"
  /\ color' \in {color} \cup Colors
  /\ StartRestore("event")
  /\ UNCHANGED <<env, rgb, animating, max, lit, checks, timer, queued, work, leds, storing, pm, driver, history>>

\* uniwill_keyboard_suspend: userspace is frozen, the others are not.
Suspend ==
  /\ "sleep" \in env.uses /\ (env.overlap \/ Alone)
  /\ driver = "bound" /\ pm = "awake" /\ storing = NoColor
  /\ lit' \in Write(lit, FALSE)
  /\ pm' = "suspending"
  /\ UNCHANGED <<env, rgb, color, animating, max, checks, timer, queued, work, leds, storing, restores, driver, history>>

\* The machine sleeps; the EC wakes up with a colour and enable bit of its own.
Sleep ==
  /\ pm = "suspending" /\ restore["event"] = "no"
  /\ pm' = "waking"
  /\ color' \in {color} \cup Colors /\ lit' \in BOOLEAN
  /\ UNCHANGED <<env, rgb, animating, max, checks, timer, queued, work, leds, storing, restores, driver, history>>

\* Mutant: resume only switches the backlight on again.
ResumeEnableOnly ==
  /\ pm = "waking"
  /\ pm' = "resuming"
  /\ UNCHANGED <<env, rgb, ec, checks, timer, queued, work, leds, storing, restores, driver, history>>

\* uniwill_keyboard_resume: restores,
Resume ==
  /\ pm = "waking"
  /\ StartRestore("pm")
  /\ pm' = "resuming"
  /\ UNCHANGED <<env, rgb, ec, checks, timer, queued, work, leds, storing, driver, history>>

\* and enables the backlight.
ResumeEnables ==
  /\ pm = "resuming" /\ restore["pm"] = "no"
  /\ lit' \in Write(lit, TRUE)
  /\ pm' = "awake"
  /\ UNCHANGED <<env, rgb, color, animating, max, checks, timer, queued, work, leds, storing, restores, driver, history>>

-----------------------------------------------------------------------------
Work ==
  \/ WorkStarts \/ ReadColor \/ Compare \/ InitLate \/ Restore
  \/ Restoring("work") \/ LedsRemove("work") \/ EnableLate \/ ArmAgain

Remove == LedsRemove("driver") \/ RemoveDisables \/ RemoveTimer

Calls ==
  \/ (\E c \in Colors : Store(c)) \/ StoreWrites
  \/ AdapterEvent \/ Restoring("event")
  \/ Suspend \/ Sleep \/ Resume \/ Restoring("pm") \/ ResumeEnables

\* Where contexts may not overlap the timer waits for them.
TimerMayExpire ==
  /\ env.overlap \/ (driver \in {"bound", "unbound"} /\ NoCalls)
  /\ check_count > -CountBelow

Next ==
  \/ Animate \/ EndAnimation
  \/ (TimerMayExpire /\ TimerExpires)
  \/ Work
  \/ Probe \/ RemoveStarts \/ Remove
  \/ Calls

Spec == Init /\ [][Next]_vars

\* A pending timer expires, a queued work item runs, and remove goes on.
Fairness == WF_vars(TimerMayExpire /\ TimerExpires) /\ WF_vars(Work) /\ WF_vars(Remove)

FairSpec == Spec /\ Fairness

-----------------------------------------------------------------------------
(***************************************************************************)
(* Properties                                                              *)
(***************************************************************************)

WorkSteps == {"idle", "read", "compare", "init_late", "restore", "leds_remove",
              "switch_off", "unregister", "enable", "again", "stop"}
DriverSteps == {"unbound", "bound", "leds_remove", "switch_off", "unregister",
                "enable", "del_timer"}

TypeOK ==
  /\ env \in Environments
  /\ color \in EcColors /\ max \in {200, 255}
  /\ animating \in BOOLEAN /\ lit \in BOOLEAN /\ timer \in BOOLEAN /\ queued \in BOOLEAN
  /\ rgb \in BOOLEAN /\ initialized \in BOOLEAN /\ registered \in BOOLEAN
  /\ done \in BOOLEAN /\ animated \in BOOLEAN
  /\ prev \in [Slots -> EcColors \cup NonColors \cup {Garbage}] /\ index \in Slots
  /\ check_count \in Int
  /\ own \in EcColors /\ storing \in Colors \cup {NoColor}
  /\ restore \in [Restorers -> {"no", "read", "reset", "paint"}]
  /\ status \in [Restorers -> BOOLEAN]
  /\ painting \in [Restorers -> EcColors]
  /\ pm \in {"awake", "suspending", "waking", "resuming"}
  /\ work \in WorkSteps /\ driver \in DriverSteps
  /\ probes \in 0 .. Probes

\* The checks end: no more than CheckCount + 1 are made after the first probe.
ChecksAreBounded == probes <= 1 => check_count >= -1

\* A driver that was removed while no check was running leaves neither a timer
\* nor a work item behind.
QuietAfterRemove == ~env.overlap /\ driver = "unbound" => ~Pending

AnimationOver ==
  driver = "bound" /\ ~animating /\ ~done /\ work = "idle" /\ check_count >= 2

\* With one context at a time and an EC that answers, the keyboard shows the
\* colour of the LED class device, also after sleep and adapter changes, unless
\* the animation has written it over; and once the animation was found to have
\* ended the backlight is enabled.
ColorMatchesLed ==
  ~env.overlap /\ ~env.faults /\ Alone /\ registered /\ ~animated =>
    color = own /\ (done => lit)

\* Once the animation is over, three more checks are enough: the colour of the
\* LED class device is shown at full range and the backlight is enabled, unless
\* the driver is removed before.  After a remove that overlapped a check, the del_timer of the
\* old work item may delete the timer of the next probe; that case is left out.
InitializedAfterAnimation ==
  ~env.faults /\ env.uses = {} /\ (env.overlap => probes = 1) /\ AnimationOver
    ~> (done /\ color = own /\ lit /\ max = 255) \/ driver # "bound"

=============================================================================
