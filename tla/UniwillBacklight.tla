-------------------------- MODULE UniwillBacklight --------------------------
(***************************************************************************)
(* The white keyboard backlight of Uniwill notebooks: uniwill_leds.h and   *)
(* the enable bit, suspend, resume and event handling of                   *)
(* uniwill_keyboard.h.                                                     *)
(*                                                                         *)
(* Everything is kept in one EC register, 0x078c: which keyboard it is     *)
(* (white-only bit), whether the backlight is off, and its level.  Four    *)
(* contexts read and write it back without a common lock: the LED class    *)
(* (sysfs), the WMI event handler, the suspend and resume callbacks, and   *)
(* probe and remove.  Each EC access is one step (UniwillEc implements     *)
(* EcRam), so the read and the write of an update are two.                 *)
(***************************************************************************)
EXTENDS Integers, Sequences

CONSTANTS
  Levels,       \* brightness levels userspace and firmware set, 0 .. 2
  Environments  \* what may happen around the driver; env is one of them

Contexts == {"sysfs", "event", "pm", "driver"}

\* Userspace is frozen while pm runs, and the device lock keeps suspend and
\* resume apart from probe and remove.  Nothing keeps the others apart.
Possible == {{"sysfs", "event"}, {"sysfs", "driver"}, {"event", "pm"},
             {"event", "driver"}}

ASSUME BacklightAssumption ==
  /\ 0 \in Levels /\ Levels \subseteq 0 .. 2
  /\ Environments \subseteq [overlaps : SUBSET Possible, faults : BOOLEAN]

VARIABLES
  env,          \* env.overlaps: pairs of contexts that may run at the same
                \* time; env.faults: an EC access may time out
  status,       \* EC register 0x078c: white-only bit, off bit, level
  blue,         \* EC register 0x1808 is not zero
  led,          \* uniwill_led_cdev.brightness
  type,         \* uniwill_kb_backlight_type
  initialized,  \* uw_leds_initialized
  registered,   \* the LED class device exists
  bound,        \* the platform device is probed
  power,        \* of the machine
  keyEvent,     \* firmware changed the level and its event is not handled yet
  synced,       \* history: led was written to or read from the EC
  offAtStart,   \* history: the off bit when the driver was probed
  todo,         \* todo[c]: the operations c still has to perform
  pc,           \* pc[c]: the next EC access of the first of them
  data          \* data[c]: its local copy of 0x078c

memory == <<led, type, initialized, registered>>
ec == <<status, blue>>
world == <<bound, power, keyEvent, offAtStart>>
vars == <<env, ec, memory, world, synced, todo, pc, data>>

Status == [white : BOOLEAN, off : BOOLEAN, level : 0 .. 7]
\* 0xfe, what a timed-out read leaves in the caller's variable.
Garbage == [white |-> FALSE, off |-> TRUE, level |-> 7]

Seen(s) == {s} \cup IF env.faults THEN {Garbage} ELSE {}
Written(old, new) == {new} \cup IF env.faults THEN {old} ELSE {}

\* Operations
Set(b) == [op |-> "set", level |-> b]
Rewrite(b) == [op |-> "rewrite", level |-> b]
Enable(b) == [op |-> "enable", on |-> b]
Op(name) == [op |-> name]
FirstPc(name) ==
  CASE name \in {"set", "rewrite"} -> "read_blue"
    [] name \in {"enable", "notify", "init_early"} -> "read"
    [] OTHER -> "start"

Idle(c) == todo[c] = <<>>
Quiescent == \A c \in Contexts : Idle(c)

Init ==
  /\ env \in Environments
  /\ status \in [white : {TRUE}, off : BOOLEAN, level : Levels]
  /\ blue \in BOOLEAN
  /\ led = 0
  /\ type = "none"
  /\ initialized = FALSE
  /\ registered = FALSE
  /\ bound = FALSE
  /\ power = "awake"
  /\ keyEvent = FALSE
  /\ synced = FALSE
  /\ offAtStart = status.off
  /\ todo = [c \in Contexts |-> <<>>]
  /\ pc = [c \in Contexts |-> "idle"]
  /\ data = [c \in Contexts |-> Garbage]

-----------------------------------------------------------------------------
(***************************************************************************)
(* What starts a context                                                   *)
(***************************************************************************)

Begin(c, ops) ==
  /\ Idle(c)
  /\ \A d \in Contexts : Idle(d) \/ {c, d} \in env.overlaps
  /\ todo' = [todo EXCEPT ![c] = ops]
  /\ pc' = [pc EXCEPT ![c] = FirstPc(Head(ops).op)]
  /\ UNCHANGED data

\* echo b > brightness.  The LED core stores b before it calls
\* uniwill_leds_set_brightness.
Store(b) ==
  /\ registered /\ power = "awake"
  /\ Begin("sysfs", <<Set(b)>>)
  /\ led' = b
  /\ UNCHANGED <<env, ec, type, initialized, registered, world, synced>>

\* The firmware changes the level on Fn+brightness and raises an event, which
\* is lost without a driver.
FnKey(b) ==
  /\ power = "awake" /\ ~keyEvent
  /\ b # status.level
  /\ status' = [status EXCEPT !.level = b]
  /\ keyEvent' = bound
  /\ UNCHANGED <<env, blue, memory, bound, power, offAtStart, synced, todo, pc, data>>

\* uniwill_event_callb, UNIWILL_OSD_KB_LED_LEVEL*
KeyEvent ==
  /\ keyEvent /\ bound /\ power # "asleep"
  /\ Begin("event", <<Op("notify")>>)
  /\ keyEvent' = FALSE
  /\ UNCHANGED <<env, ec, memory, bound, power, offAtStart, synced>>

\* uniwill_event_callb, UNIWILL_OSD_DC_ADAPTER_CHANGE
AdapterEvent ==
  /\ bound /\ power # "asleep"
  /\ Begin("event", <<Op("restore")>>)
  /\ UNCHANGED <<env, ec, memory, world, synced>>

\* uniwill_keyboard_suspend: userspace is frozen, the event handler is not.
Suspend ==
  /\ bound /\ power = "awake"
  /\ Begin("pm", <<Enable(FALSE)>>)
  /\ power' = "suspending"
  /\ UNCHANGED <<env, ec, memory, bound, keyEvent, offAtStart, synced>>

Sleep ==
  /\ power = "suspending" /\ Idle("pm") /\ Idle("event")
  /\ power' = "asleep"
  /\ UNCHANGED <<env, ec, memory, bound, keyEvent, offAtStart, synced, todo, pc, data>>

\* The EC wakes up with its own idea of the backlight; then
\* uniwill_keyboard_resume is called.
Wake ==
  /\ power = "asleep"
  /\ power' = "waking"
  /\ \E o \in BOOLEAN, l \in Levels :
       status' = [status EXCEPT !.off = o, !.level = l]
  /\ UNCHANGED <<env, blue, memory, bound, keyEvent, offAtStart, synced, todo, pc, data>>

\* Mutant: resume only switches the backlight on again.
ResumeEnableOnly ==
  /\ power = "waking"
  /\ Begin("pm", <<Enable(TRUE)>>)
  /\ power' = "resuming"
  /\ UNCHANGED <<env, ec, memory, bound, keyEvent, offAtStart, synced>>

\* Mutant: resume only restores the level.
ResumeRestoreOnly ==
  /\ power = "waking"
  /\ Begin("pm", <<Op("restore")>>)
  /\ power' = "resuming"
  /\ UNCHANGED <<env, ec, memory, bound, keyEvent, offAtStart, synced>>

Resume ==
  /\ power = "waking"
  /\ Begin("pm", <<Op("restore"), Enable(TRUE)>>)
  /\ power' = "resuming"
  /\ UNCHANGED <<env, ec, memory, bound, keyEvent, offAtStart, synced>>

Thaw ==
  /\ power = "resuming" /\ Idle("pm")
  /\ power' = "awake"
  /\ UNCHANGED <<env, ec, memory, bound, keyEvent, offAtStart, synced, todo, pc, data>>

\* uw_kbd_bl_init, called by uniwill_keyboard_probe
Probe ==
  /\ ~bound /\ power = "awake"
  /\ Begin("driver", <<Op("init_early"), Enable(TRUE)>>)
  /\ bound' = TRUE
  /\ offAtStart' = status.off
  /\ UNCHANGED <<env, ec, memory, power, keyEvent, synced>>

\* uniwill_keyboard_remove.  uw_leds_initialized is cleared before
\* uniwill_leds_set_brightness_extern(0x00) tests it; the LED core switches
\* the LED off when it is unregistered.
\* uniwill_kbd_bl_enable_state_on_start is never assigned: it is 0.
Remove ==
  /\ bound /\ power = "awake"
  /\ Begin("driver",
           (IF ~initialized THEN <<>>
            ELSE IF type # "fixed" THEN <<Op("set_extern")>>
            ELSE <<Op("set_extern"), Set(0), Op("unregister")>>)
           \o <<Enable(FALSE)>>)
  /\ bound' = FALSE
  /\ keyEvent' = FALSE
  /\ initialized' = FALSE
  /\ UNCHANGED <<env, ec, led, type, registered, power, offAtStart, synced>>

-----------------------------------------------------------------------------
(***************************************************************************)
(* The operations, one EC access at a time                                 *)
(***************************************************************************)

AtPc(c, name) == ~Idle(c) /\ pc[c] = name
Current(c) == Head(todo[c])

\* The operation ends with this step.
Finish(c) ==
  /\ todo' = [todo EXCEPT ![c] = Tail(@)]
  /\ pc' = [pc EXCEPT ![c] =
              IF Len(todo[c]) = 1 THEN "idle" ELSE FirstPc(todo[c][2].op)]
  /\ data' = [data EXCEPT ![c] = Garbage]

Continue(c, next) ==
  /\ pc' = [pc EXCEPT ![c] = next]
  /\ UNCHANGED todo

\* The operation is replaced by another.
Becomes(c, op) ==
  /\ todo' = [todo EXCEPT ![c] = <<op>> \o Tail(@)]
  /\ pc' = [pc EXCEPT ![c] = FirstPc(op.op)]
  /\ UNCHANGED data

\* uniwill_leds_restore_state_extern: the level to write is read here.
StartRestore(c) ==
  /\ AtPc(c, "start") /\ Current(c).op = "restore"
  /\ IF initialized /\ type = "fixed" THEN Becomes(c, Rewrite(led)) ELSE Finish(c)
  /\ UNCHANGED <<env, ec, memory, world, synced>>

\* uniwill_leds_set_brightness_extern(0x00)
StartSetExtern(c) ==
  /\ AtPc(c, "start") /\ Current(c).op = "set_extern"
  /\ IF initialized /\ type = "fixed" THEN Becomes(c, Set(0)) ELSE Finish(c)
  /\ UNCHANGED <<env, ec, memory, world, synced>>

\* led_classdev_unregister (LED core): the device goes when no store is
\* running on it.
Unregister(c) ==
  /\ AtPc(c, "start") /\ Current(c).op = "unregister"
  /\ Idle("sysfs")
  /\ registered' = FALSE
  /\ synced' = FALSE
  /\ Finish(c)
  /\ UNCHANGED <<env, ec, led, type, initialized, world>>

\* uniwill_write_kbd_bl_white: if 0x1808 is zero it has to be written first.
ReadBlue(c) ==
  /\ AtPc(c, "read_blue")
  /\ \E lit \in {blue} \cup IF env.faults THEN {TRUE} ELSE {} :
       Continue(c, IF ~lit /\ Current(c).level # 0 THEN "kick" ELSE "read")
  /\ UNCHANGED <<env, ec, memory, world, synced, data>>

Kick(c) ==
  /\ AtPc(c, "kick")
  /\ \E b \in Written(blue, TRUE) : blue' = b
  /\ Continue(c, "read")
  /\ UNCHANGED <<env, status, memory, world, synced, data>>

\* The read of every read-modify-write of 0x078c.
Read(c) ==
  /\ AtPc(c, "read")
  /\ \E s \in Seen(status) : data' = [data EXCEPT ![c] = s]
  /\ Continue(c, "use")
  /\ UNCHANGED <<env, ec, memory, world, synced>>

\* Mutant: the lower bits are not preserved.
WriteLevelZeroed(c) ==
  /\ AtPc(c, "use") /\ Current(c).op \in {"set", "rewrite"}
  /\ status' = [white |-> FALSE, off |-> FALSE, level |-> Current(c).level]
  /\ synced' = TRUE
  /\ IF Current(c).op = "set" THEN Continue(c, "assign") /\ UNCHANGED data
     ELSE Finish(c)
  /\ UNCHANGED <<env, blue, memory, world>>

\* The write of uniwill_write_kbd_bl_white.
WriteLevel(c) ==
  /\ AtPc(c, "use") /\ Current(c).op \in {"set", "rewrite"}
  /\ \E s \in Written(status, [data[c] EXCEPT !.level = Current(c).level]) :
       status' = s
  /\ synced' = TRUE
  /\ \/ Current(c).op = "set" /\ Continue(c, "assign") /\ UNCHANGED data
     \/ Current(c).op = "rewrite" /\ Finish(c)
     \/ env.faults /\ Finish(c)
  /\ UNCHANGED <<env, blue, memory, world>>

\* led_cdev->brightness = brightness, after a write that succeeded.
Assign(c) ==
  /\ AtPc(c, "assign")
  /\ led' = Current(c).level
  /\ Finish(c)
  /\ UNCHANGED <<env, ec, type, initialized, registered, world, synced>>

\* Mutant: the off bit is set to enable instead of !enable.
WriteEnableInverted(c) ==
  /\ AtPc(c, "use") /\ Current(c).op = "enable"
  /\ status' = [data[c] EXCEPT !.off = Current(c).on]
  /\ Finish(c)
  /\ UNCHANGED <<env, blue, memory, world, synced>>

\* uniwill_write_kbd_bl_enable
WriteEnable(c) ==
  /\ AtPc(c, "use") /\ Current(c).op = "enable"
  /\ \E s \in Written(status, [data[c] EXCEPT !.off = ~Current(c).on]) : status' = s
  /\ Finish(c)
  /\ UNCHANGED <<env, blue, memory, world, synced>>

\* uniwill_leds_notify_brightness_change_extern
Notify(c) ==
  /\ AtPc(c, "use") /\ Current(c).op = "notify"
  /\ IF initialized /\ type = "fixed"
     THEN led' = data[c].level % 4 /\ synced' = TRUE
     ELSE UNCHANGED <<led, synced>>
  /\ Finish(c)
  /\ UNCHANGED <<env, ec, type, initialized, registered, world>>

\* uniwill_leds_init_early, on a keyboard without RGB.  A failed read ends it.
InitEarly(c) ==
  /\ AtPc(c, "use") /\ Current(c).op = "init_early"
  /\ \/ /\ type' = IF data[c].white THEN "fixed" ELSE type
        /\ registered' = (type' = "fixed")
        /\ initialized' = TRUE
     \/ /\ env.faults
        /\ UNCHANGED <<type, registered, initialized>>
  /\ Finish(c)
  /\ UNCHANGED <<env, ec, led, world, synced>>

-----------------------------------------------------------------------------
Step(c) ==
  \/ StartRestore(c) \/ StartSetExtern(c) \/ Unregister(c)
  \/ ReadBlue(c) \/ Kick(c) \/ Read(c) \/ WriteLevel(c) \/ Assign(c)
  \/ WriteEnable(c) \/ Notify(c) \/ InitEarly(c)

Next ==
  \/ \E b \in Levels : Store(b) \/ FnKey(b)
  \/ KeyEvent \/ AdapterEvent
  \/ Suspend \/ Sleep \/ Wake \/ Resume \/ Thaw
  \/ Probe \/ Remove
  \/ \E c \in Contexts : Step(c)

Spec == Init /\ [][Next]_vars

-----------------------------------------------------------------------------
(***************************************************************************)
(* Properties                                                              *)
(***************************************************************************)

Operations ==
  [op : {"set", "rewrite"}, level : 0 .. 3] \cup [op : {"enable"}, on : BOOLEAN]
    \cup [op : {"restore", "notify", "init_early", "set_extern", "unregister"}]

TypeOK ==
  /\ env \in Environments
  /\ status \in Status
  /\ blue \in BOOLEAN
  /\ led \in 0 .. 3
  /\ type \in {"none", "fixed"}
  /\ {initialized, registered, bound, keyEvent, synced, offAtStart} \subseteq BOOLEAN
  /\ power \in {"awake", "suspending", "asleep", "waking", "resuming"}
  /\ \A c \in Contexts : \A i \in DOMAIN todo[c] : todo[c][i] \in Operations
  /\ pc \in [Contexts -> {"idle", "start", "read_blue", "kick", "read", "use",
                          "assign"}]
  /\ data \in [Contexts -> Status]

\* No EC access fails, and no contexts overlap but those of pairs.
Undisturbed(pairs) == ~env.faults /\ env.overlaps \subseteq pairs

\* "lower bits must be preserved": on an EC that answers, no update of 0x078c,
\* of whatever context and however interleaved, loses the bit by which
\* uniwill_leds_init_early recognizes the keyboard.
WhiteBitPreserved == ~env.faults => status.white

\* The machine sleeps with the backlight off, even if userspace stored a
\* brightness during an event just before.
SleepsDark ==
  Undisturbed({{"sysfs", "event"}}) /\ power = "asleep" => status.off

\* Once probe or resume is done and until suspend or remove begins, the
\* backlight is enabled.
LitWhenAwake ==
  Undisturbed({{"sysfs", "event"}}) /\ bound /\ power = "awake" /\ Quiescent =>
    ~status.off

\* With one context at a time, the level the keyboard shows when nothing is
\* under way is the brightness the LED class reports, also after Fn keys,
\* sleep and adapter changes.
LevelMatchesLed ==
  Undisturbed({}) /\ registered /\ power = "awake" /\ Quiescent /\ synced
      /\ ~keyEvent =>
    status.level = led

\* "Restore previous backlight enable state": once removed, the driver has
\* put the off bit back to what it was at probe.
RemoveRestoresEnable ==
  ~bound /\ Quiescent => status.off = offAtStart

=============================================================================
