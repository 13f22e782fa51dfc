# A verification of tuxedo-keyboard

TLA+ models of the kernel modules in `src/src/`: `tuxedo_keyboard` (keyboard backlight,
lightbar, charging, key events), `clevo_wmi`, `clevo_acpi` and `uniwill_wmi` (the bus
drivers below it) and `tuxedo_io` (fan, power and webcam ioctls). TLC checks them on small
instances; TLAPS proves every safety property of the runs for all instances.

    tlc -config UniwillEc_access.cfg MCUniwillEc.tla    # a run
    tlapm UniwillEc_proofs.tla                          # a proof

`PROJECT.json` lists runs, theorems, hazards and findings, and maps each definition
to the lines it models.

## 1. Inventory

The modules are small and short of locks. Hardware state lives in the embedded
controller (EC) or behind firmware methods; the driver keeps copies of some of it.
Everything below runs in several contexts: sysfs and ioctl calls of any number of
processes, WMI or ACPI event handlers, the keyboard notifier, a timer, work items (one of
the boot animation, one per LED), suspend and resume, and probe and remove.

| Component | State | Operations | What makes it correct |
|---|---|---|---|
| EC access, `uniwill_wmi.c` | mailbox registers FLAGS, LDAT, HDAT, CMDL; `uniwill_ec_lock`; `uniwill_ec_direct` | read and write a byte, directly or by a WMI method; switch between the two | accesses are atomic, or fail; none disturbs another; all return |
| Retry, `uniwill_keyboard.h` | none | write, verify, write again | 0 is returned only for a verified write; two faults are made up for |
| Driver core, `tuxedo_keyboard.c`, add/remove in `clevo_keyboard.h`, `uniwill_keyboard.h` | known and active interfaces, platform device, current driver, input device | add and remove an interface; set up and take down the driver | what is remembered is what is registered; ACPI before WMI |
| Key events | last keys, work item, input device per driver | notifier, touchpad combination, report | keys reach a registered device |
| Uniwill white backlight, `uniwill_leds.h`, `uniwill_keyboard.h` | EC register 0x078c; LED brightness | store, Fn key event, adapter event, suspend, resume, probe, remove | register bits are kept; LED and keyboard agree |
| Uniwill RGB backlight, boot animation | colour, range and enable bit; ring of three colours, check count, timer, work item | check, late initialization, store, adapter event, suspend, resume, probe, remove | initialization happens once the animation is over; LED and keyboard agree; nothing outlives the driver |
| Uniwill charging | bit 7 of 0x07cc, bits 4-5 of 0x07a6, last written priority | two attributes, adapter event, probe, remove | the chosen priority survives plugging in; other bits are kept |
| Uniwill ROM id and probe | ROM id, fan curve or boost, manual mode 0x0741 | compare and correct, prepare manual mode, leave it | the id is right when success is reported; manual mode finds what it uses |
| Uniwill lightbar | three colours, bit 7 of 0x0748; four LEDs with a work item each | store, probe, remove | stored colours are shown; other bits are kept; dark when gone |
| Uniwill features and TDP | feature cache, `uw_feats`, limit tables; 0x0783-0x0785 | identify, read and set a limit | the cache holds what the machine is; limits are kept |
| Uniwill fans and profile, `tuxedo_io.c` | 0x0751, 0x07c5, 0x07c6, fan tables, `fans_initialized` | set speed, automatic, profile, mode | what was set last is in force |
| Clevo ioctls | webcam switch | toggle after a read; forward | the webcam is as asked |
| Clevo backlight, `clevo_leds.h` | one brightness in firmware, a LED per zone, `color_list` position, mode | store brightness, colour and mode, events, suspend, resume, probe, remove | keyboard and LEDs agree; enabled while awake |
| Clevo methods, `clevo_wmi.c`, `clevo_acpi.c` | none | marshal and call | - |
| CPU tables, packaging | none at run time | - | not modelled |

Interaction. A bus driver probes and adds its interface to the core, which creates the
platform device and calls the vendor driver's probe. That registers LEDs, attributes, the
timer and an event callback the bus driver calls. `tuxedo_io` calls the same interface
without any state of the core, but shares the feature cache with the keyboard driver. On
Uniwill machines all of them end in `uniwill_wmi.c`, whose lock covers one byte access.
Everything longer, above all each read-modify-write, is interleaved with the others. This
shapes the models: UniwillEc has every mailbox register access as a step; the modules above
it have every EC access, or every firmware method, as a step, which the refinement
UniwillEc => EcRam justifies.

The hard behaviours: lost updates between a read and a write; remembered values that are
assigned after the hardware was written; failures of an access in the middle; an EC that
answers late, or acknowledges a write it has not done; bus drivers that come and go
together; a timer that re-arms itself while the driver is removed; a cache filled by
several callers; hardware that forgets its state in sleep. PROJECT.json lists them as
hazards with their lines.

## 2. Modules

| Module | Models | Checked by |
|---|---|---|
| `EcRam` | abstract: atomic byte registers whose operations may fail | property of `ec_access` |
| `UniwillEc` | mailbox protocol and WMI path | `ec_access`, `ec_timeout` |
| `TuxedoKeyboard` | driver core and key events | `core_machines`, `core_probefails` |
| `UniwillBacklight` | white keyboard backlight | `backlight_contexts`, `backlight_remove` |
| `UniwillBootAnimation` | RGB keyboard backlight with the boot animation check | `anim_checks` |
| `UniwillCharging` | charging priority and profile | `charging_attributes` |
| `UniwillFan` | fan and profile ioctls | `fan_fullmoderace`, and in TuxedoIo |
| `TuxedoIo` (extends UniwillFan) | identification, feature cache, TDP, Clevo ioctls, beside the fans | `io_ioctls` |
| `UniwillProbe` | access with retry, ROM id, preparation of manual mode | in UniwillLightbar |
| `UniwillLightbar` (extends UniwillProbe) | probe and remove as a whole, the LEDs of the lightbar | `device_probe` |
| `ClevoLeds` | Clevo keyboard backlight | `clevo_keyboards` |
| `MC<module>` | instance for TLC | |
| `<module>_proofs` | theorems (eight modules, section 6) | tlapm |

How state and actions correspond to the code:

- **Program counters.** `pc[t]`, `todo[c]` or `call[c]` says where a context is. A step ends
  where other contexts can see or change something: at an EC access, a firmware method, an
  assignment to a shared variable. Code in between belongs to the same step.
- **UniwillEc.** `ReadFlags` to `ClearFlags` are the statements of `uw_ec_read_addr_direct`
  and `uw_ec_write_addr_direct`, which differ in `PutData` and in what they collect; `Wmi*`
  is `uw_wmi_ec_evaluate`. `EcAccept` and `EcFinish` are firmware (external): it latches a
  request it finds, performs it and raises DRDY at any time or never.
- **EcRam.** A call takes effect at one instant between invocation and return or fails; an
  error promises nothing about the effect or the byte. The mapping takes a direct access to
  have its effect when DRDY goes up, a WMI access at `WmiEffect`.
- **TuxedoKeyboard.** One thread per bus driver; the part of add and remove under a lock
  where nobody can look is one step. `oops` is a NULL dereference: the thread dies with its
  locks held. `tuxedo_input_init` has two ways to fail: without memory it leaves
  `tuxedo_input_device` NULL, otherwise pointing at a device it has freed; `current_driver`
  is set all the same. A remove skips the first and unregisters the second, after which the
  model may go on or end the thread as `undefined`. Events of both vendors and the notifier with its work item run beside them;
  `keys` is the reference each driver keeps to its input device, and `reported` what that
  reference pointed at when a key was reported.
- **UniwillBacklight, ClevoLeds.** Four contexts. `todo` is the list of calls a handler
  makes, for example `<<restore, enable>>` for resume. The LED core (stores, switching off
  on unregister) is external and modelled as the driver uses it. `Garbage` holds what an
  uninitialized `u32` may be: a failed method leaves one in the brightness event of a white
  keyboard. The methods that set the brightness take its low byte (`Byte`).
- **UniwillBootAnimation.** `TimerExpires` schedules the work item, whose statements are
  `ReadColor` to `ArmAgain`; remove is a sequence of steps that may run between any of them.
  Restoring a colour (`RestoreRead`, `RestoreReset`, `RestorePaint`) is one procedure with
  three callers: work item, adapter event and resume. A colour is one value although it is
  three registers, so a write that fails halfway is the colour `Mixed`.
- **UniwillCharging, UniwillFan, TuxedoIo.** A call is a sequence of reads and writes.
  `rest` tells whether the register bits that belong to nobody here are as firmware left
  them. In TuxedoIo an identification fills `feats` field by field, with no more protection
  than the code has; `Tdp` holds the tables of limits as the code lists them. W_UW_MODE
  (kind `mode`) writes whatever byte it is given; kind `mixed_mode` are those of its bytes
  that hold the bits of two profiles.
- **UniwillProbe.** One thread, so interleaving adds nothing; an access may time out with
  its effect or without it, and a write may be acknowledged and not done. `faults` counts
  those to come, so that properties can say how many are tolerated.
- **UniwillLightbar.** The LED core runs `brightness_set_blocking` in one work item per LED;
  `value` is what it remembers for it. Read and write of 0x0748 are steps of their own in
  each work item and in probe. An LED that is taken down takes no more stores from its
  switching off on, slightly earlier than in the LED core.

**Environments.** In all modules but UniwillEc a variable `env` (in TuxedoIo also `machine`),
chosen in Init and never changed, says what may happen in a behaviour: which contexts
overlap, whether accesses fail, what machine it is, what userspace does. One run checks
several environments, and a property names in its premise those it is about. `Possible` is
what the kernel allows: userspace is frozen while suspend and resume run, and the device
lock orders them with probe and remove; everything else overlaps.

Variables marked `history` exist only for properties (`wanted`, `synced`, `done`, ...).

## 3. What the runs show

| Run | Properties | What they say |
|---|---|---|
| `ec_access` | AddressIntact, JobIsCurrent | the mailbox never offers a mixture of two callers' requests; nothing of a returned call is still under way |
| | ImplementsRegisters | the protocol, on both paths and across switches, implements EcRam |
| | EveryCallReturns | even if the firmware never answers |
| `core_machines` | TypeOK, AcpiTakesPriority, EveryCallReturns | with every overlap of the bus drivers and every failure |
| | CoreMatchesBus | adds overlap, removes do not; whether or not the input device can be set up |
| | DriverFollowsInterface, NoOops | the same, on machines of one vendor |
| | KeysReachDevice | keys pressed while no driver comes or goes, on machines with one interface |
| `backlight_contexts` | WhiteBitPreserved | no interleaved updates of 0x078c lose the bit that identifies the keyboard |
| | SleepsDark, LitWhenAwake | off in sleep, enabled awake, with stores during events |
| | LevelMatchesLed | one context at a time |
| `charging_attributes` | OthersPreserved | with all overlaps and failures |
| | PrioritySurvivesPlug | one call at a time |
| `anim_checks` | ChecksAreBounded | whatever overlaps and fails |
| | QuietAfterRemove | nothing pending after a remove beside no running check |
| | ColorMatchesLed | one context at a time: stores, adapter events, sleep |
| | InitializedAfterAnimation | colour, range and enable bit are set in the end |
| `device_probe` | RomIdIsRight, TwoFaultsTolerated, ManualModeIsPrepared | what faults can and cannot do to probe |
| | OtherBitsPreserved, ColorsAsStored, AnimationAsAsked | LEDs that overlap each other and probe do not disturb each other |
| | DarkWhenRemoved, ProbeReturns | remove waits for the work of the LEDs and leaves the bar dark; both end, however many accesses fail |
| `io_ioctls` | IoTypeOK | with overlaps and failures |
| | SpeedIsInForce, EcControlsFans, ProfileIsInForce | after any sequence of calls, both kinds of fan control, also when the identification comes between |
| | ProfileUnmixed | two processes at once, full fan mode, unless W_UW_MODE is asked for a mixture |
| | LoadedFeaturesAreRight, TdpWithinLimits | overlapping identifications, or failing ones |
| | WebcamAsAsked | overlapping calls, or firmware that toggles |
| `clevo_keyboards` | TypeOK | with failing methods; only white keyboards may then have a brightness out of range |
| | KeyboardMatchesLeds | one context at a time: white, one zone, three zones |
| | LitWhenAwake | all overlaps on one zone |

Each property has a mutant in its module (comments `Mutant:`), a plausible mistake in the
code under which TLC finds the property violated: a lock not taken, an index not wrapped, a
restore left out, a bit not masked.

### Disagreements with the code's own words

- `ec_timeout`: the busy wait decides by `count != 0` and not by the flag it waits for. An
  answer seen by the last poll becomes -EIO, after the access took effect
  (`uniwill_wmi.c:160`).
- `core_probefails`: if `platform_create_bundle` failed, removing the interface dereferences
  a NULL `current_driver` (`tuxedo_keyboard.c:141`).
- `backlight_remove`: "Restore previous backlight enable state" always disables;
  `uniwill_kbd_bl_enable_state_on_start` is never assigned (`uniwill_keyboard.h:1229`).
- `fan_fullmoderace`: two speeds set at once on an older device switch full fan mode on and
  off again, because the switch toggles on a second read (`tuxedo_io.c:305`).

Premises mark where a property stops holding. These limits were found by running the
property without its premise; the hazards in PROJECT.json say more:

- With a failing EC read, 0xfe is written back: the white-only bit is lost
  (`uniwill_leds.h:81`), or full fan mode switched on by setting a profile
  (`tuxedo_io.c:539`, where `result >= 0` tests an unsigned value). One failed read of the
  default fan curve puts 0xfe into the curve of manual mode (`uniwill_keyboard.h:1187`).
- Three acknowledged writes of a ROM id byte that were not done are reported as success:
  the last attempt is not verified into the status (`uniwill_keyboard.h:152`).
- Identifications that overlap on an EC that fails may mark features as loaded that one of
  them has not read.
- "White only keyboards can only be off, half, or full brightness" (`clevo_leds.h:57`), but
  the brightness event takes the result of a failed method, an uninitialized `u32`, for the
  brightness of the LED (`clevo_leds.h:489`), and the next restore writes its low byte to
  the firmware. TLC refutes TypeOK with `Levels` in place of `Values`.
- A store during a brightness event leaves LED and keyboard apart (`uniwill_leds.h:295`);
  during a Clevo colour event it leaves the zones apart.
- A store during probe, or an adapter event during resume, can undo the enabling of the
  backlight (`uniwill_keyboard.h:407`, `:1254`). Neither timer nor work item of the boot
  animation is stopped by suspend, so that the late initialization may enable the
  backlight in between.
- Colours of the lightbar set between its registration and the end of probe are
  overwritten by the initialization.
- A plug event between EC write and assignment brings the old charging priority back
  (`uniwill_keyboard.h:644`).
- Two first speeds on a newer device: the second initialization zeroes the first speed
  (`tuxedo_io.c:331`).
- Two calls that switch the webcam, with firmware that toggles, may cancel each other out
  (`tuxedo_io.c:274`).
- A remove that overlaps a check leaves a timer or a work item behind
  (`uniwill_keyboard.h:1234`), whose `del_timer` may delete the timer of the next probe.
- A remove that overlaps an add of another family takes the wrong driver down
  (`tuxedo_keyboard.c:134`). Keys pressed during or after a remove may be reported to a
  device that is no longer there. A remove after a failed `tuxedo_input_init` unregisters the
  input device that was freed (`tuxedo_keyboard.c:69`, `:128`), because the pointer is
  not reset.

## 4. Bounds

| Run | Instance | Distinct states |
|---|---|---|
| `ec_access` | 2 threads, 2 addresses, 2 bytes, 2 polls | 266 328 |
| `core_machines` | machines with 1, 2 and 3 interfaces, 11 environments | 220 349 |
| `backlight_contexts` | levels 0-2, 4 environments | 867 424 |
| `charging_attributes` | all values, 4 contexts, 2 environments | 1 094 142 |
| `io_ioctls` | 2 processes (symmetric), speeds 0 and 100, limits 0, 4, 38, 39, 300, settings 0 and 257, 38 machines | 632 872 |
| `anim_checks` | 2 colours, 5 checks, 2 probes, 4 environments | 723 232 |
| `device_probe` | 3 bytes of ROM id, 2 values per LED, 10 environments | 233 491 |
| `clevo_keyboards` | 2 levels, 2 values of garbage, 3 colours, 2 modes, 7 environments | 104 875 |

Why they are enough. The lock of UniwillEc makes a third thread wait like the second;
addresses that differ in one byte show a mixture of two requests, and two polls have a
first, a last and a missing answer (the source polls 30 times; the proofs leave the number
open). The driver core has no more interfaces than these three. One backlight context of
each kind suffices where each is serialized with itself: stores by the lock the LED core
keeps per device, events by their handler. The three zones of a Clevo keyboard are three
devices; stores to two of them at once are left to the plan. Of the levels a keyboard has two
are enough, and of the garbage one value that fits a byte and one that does not; a fan needs speed 0, which is treated differently, and one other. TDP arguments are
below, at, between and above limits of the tables, and 300 does not fit a byte; of the
settings 257 does not. All tables of limits are checked one call at a time, one of them with
overlap. Three equal samples out of three slots need five checks with a change in between.
`CountBelow = 3` stops the timer when `check_count` has passed below zero by more than
ChecksAreBounded allows, so the bound cannot hide a violation; `Probes` bounds how often the
driver is bound again. A ROM id has 14 bytes; a first, a middle and a last show how the
loops go on, and two faults hit the same byte or different ones (the proofs leave the length
open). `Unlimited` is a number of faults that is not counted down.

`CHECK_DEADLOCK FALSE` is used where the system may stop: after an oops in TuxedoKeyboard,
and after the last probe has been removed in UniwillBootAnimation.

## 5. Fairness

- UniwillEc: every thread that has begun a call goes on (WF), and gets the mutex at last
  (SF; kernel mutexes hand over to waiters). Nothing is assumed of firmware, of new calls or
  of the parameter.
- TuxedoKeyboard: the same (SF of each thread's call).
- UniwillBootAnimation: a pending timer expires, a queued work item runs, a remove that has
  begun goes on. The animation is not assumed to end: the property starts when it has.
- UniwillLightbar: a probe or remove that has begun goes on, and so does the work of each
  LED, for which remove waits. Nothing is assumed of userspace or of faults.

## 6. Proofs

| Theorem | For |
|---|---|
| `UniwillEc_proofs!TypeCorrect` | any threads, addresses, bytes, number of polls |
| `UniwillEc_proofs!AddressesStayIntact` | the same, and any firmware behaviour on cleared requests |
| `UniwillEc_proofs!JobsAreCurrent`, `RegistersImplemented` | firmware that drops cleared requests |
| `UniwillBacklight_proofs!WhiteBitIsPreserved`, `TypesStayRight`, `MachineSleepsDark`, `LitWhileAwake`, `LevelStaysMatched` | any levels, any environments |
| `TuxedoKeyboard_proofs!TypeCorrect`, `AcpiHasPriority` | any set of interfaces, all overlaps and failures |
| `TuxedoKeyboard_proofs!CoreIsOnBus`, `DriverIsFollowing`, `KeysAreReported` | the same, under the premises of the property |
| `TuxedoKeyboard_proofs!RemoveFindsDriver` | environments in which `platform_create_bundle` does not fail |
| `UniwillCharging_proofs!TypeCorrect`, `OthersArePreserved`, `PriorityIsKept` | any environments |
| `UniwillBootAnimation_proofs!TypeCorrect`, `ChecksEnd`, `RemoveIsQuiet`, `ColorIsShown` | any colours, number of checks and probes, any environments |
| `UniwillLightbar_proofs!RomIdHolds`, `RetriesSuffice` | any length of the ROM id, any faults |
| `UniwillLightbar_proofs!BitsArePreserved`, `ColorsAreShown`, `AnimationIsAsked`, `LightbarGoesDark`, `ManualModeStaysPrepared` | any environments |
| `ClevoLeds_proofs!TypesStayRight`, `LitWhileAwake`, `KeyboardFollowsLeds` | any levels, colours and modes, any environments |
| `TuxedoIo_proofs!ProfileIsUnmixed` (of UniwillFan alone) | any callers and speeds, any environments |
| `TuxedoIo_proofs!TypesStayRight`, `SpeedStaysInForce`, `EcKeepsControl`, `ProfileStaysInForce` | any callers, machines and arguments |
| `TuxedoIo_proofs!LoadedFeaturesStayRight`, `TdpStaysWithinLimits`, `WebcamStaysAsAsked`, `ProfileStaysUnmixed` | the same |

Assumptions are the named ASSUMEs of the modules (`EcAssumption`, `KeyboardAssumption`,
`BacklightAssumption`, `ChargingAssumption`, `AnimationAssumption`, `ProbeAssumption`,
`FanAssumption`, `IoAssumption`, `ClevoAssumption`), which TLC evaluates in the runs. A premise such as
`~env.overlap` is part of the property itself.

- **UniwillEc.** Types alone are not inductive: `count` could be decremented below 0. TypeInv
  adds that a polling thread has polls left. AddressIntact needs LockInv (who is between Lock
  and Unlock owns the lock, and nobody else is) and MailboxInv (which registers already hold
  the owner's arguments at which statement, and no access bit is set in any copy of FLAGS
  taken before the start). JobIsCurrent and the refinement need FirmwareInv (DRDY belongs to
  the thread that polls; the data byte stays in CMDL until the write is done). The refinement
  has one case per statement; lemmas Moved, NotMoved and Unmoved reduce it to the view of the
  one call that moves.
- **UniwillBacklight.** The bit survives the next write of a context only if the copy the
  context has taken has it. WhiteInv adds just this for every context that is about to write.
  The rest depends on what a context has still to do. WorkInv lists, for each context, the
  sequences of operations its handlers lay out, with all that is left of them later. OffInv
  says what the off bit is at each stage of suspend and resume, and that copies of the
  register agree on it: the pm and the driver context run alone, and the others never change
  the bit. SerialInv is for one context at a time: which brightness an operation under way
  writes or has read, and that keyboard and LED agree unless one is Unsettled, that is,
  about to be brought in line with the other.
- **TuxedoKeyboard.** TypeOK contains the mutual exclusion of `init_driver`. The priority needs
  RemoverHoldsLock: a remove in progress holds the modification lock and has taken its
  interface off the list already; else an ACPI interface added between the halves of a remove
  would be deactivated by the second half. CoreMatchesBus speaks of rest only; BusInv says at
  each statement of `init_driver` and `remove_driver` which parts are there already, FollowInv
  which interfaces are known meanwhile, and KeysInv that the reference to the key device is
  the registered one whenever a driver is bound. With a driver bound the input device is
  there, or absent or freed if it could not be set up.
- **UniwillCharging.** OthersPreserved is inductive once the copies between read and write
  are included. PlugInv relates the remembered priority, the register and the value a call
  carries, statement by statement.
- **UniwillBootAnimation.** BoundInv: in the first probe at most one of timer, work item
  and running check is there, and none is pending once `check_count` is below zero. QuietInv says that
  without overlap a remove begins with the work item idle and deletes the timer that is left.
  ColorIsShown needs SerialInv (of the contexts at most one is active), DeviceInv (what is
  registered and initialized at which step) and ColorInv (the colour at each step of a
  restore).
- **UniwillLightbar.** RomInv: the targets the loop has passed hold their byte, and the number of
  attempts made is paid for by faults. BarInv is PlaceInv (which work runs while the driver is where),
  BitsInv (each copy of 0x0748 has the other bits), ColorInv (a colour is its remembered
  value unless work for it is queued or running) and AnimInv (each bit about to be written is
  in the set of states asked for). DarkInv follows remove through its loop: the LEDs it has
  passed are gone (no work, dark), the one it waits for is leaving, and only LEDs it has not
  reached can be set; `uw_lightbar_loaded` makes sure that it gets there. ManualInv counts:
  of the points probe has passed, or of all once manual mode uses them, at most as many are
  spoilt as faults are used up, the point whose failed read is about to be written included.
- **ClevoLeds.** Types: garbage reaches `led` only in the brightness event, which white
  keyboards have, and `bright` only as a byte; InRange, proved with TypeOK, says that on all
  others and where no method fails both stay in range. StatusInv, LitInv: only suspend has an operation that disables the keyboard
  on its list, and an enabling one comes before the registration of the LEDs and at the end
  of resume. SerialInv says for the context that runs alone what brightness and what colours
  the keyboard will have after the operation it is in; OrderInv, what may be on the lists
  of operations that it relies on.
- **UniwillFan, TuxedoIo.** What a step may rely on depends on the step before it, and that on
  lists that other steps extend. The proofs first show, for lists of any length, that each
  guarded step is only ever reached from the one that belongs before it (`ListsInv`), and then
  say what its caller knows there. ProfileInv: a copy of 0x0751 about to be written back has
  one profile, and what W_UW_MODE writes has one too, unless it is asked for a mixture. CacheInv: a caller that fills the cache has right fields as far as it is, if no
  read of its own has failed. TablesInv: each table is that of this machine or none;
  LimitsInv: the lower limit a caller has found is positive and its own. WebcamInv: until
  someone has set a state that is asked for, everyone who has read the state is right about
  it, and a call is under way that will set it.

  What fans and profile are in the end takes more than the step before. `Program` names the
  17 lists of steps there are, with those that a step inserts as lists of their own; PlacesInv
  says that each call is at some position of one of them, that its arguments and what it has
  read are of the right kind (this gives the types), and, if nothing disturbs it, what holds
  at just this position (`Reliable`): for example that in the initialization of the tables full
  fan mode is off after the second step, and `custom` set after the eighth. A call that is
  not alone relies on nothing, so that no step has to be compared with those of others.
  FansInv says what speeds, profile and tables are at any time, and that between calls
  the tables are in use just when `fans_initialized` says so (`Steady`). Lemma Advances takes
  care of all steps but the first and the last of a list, lemma InsertLeaves of those that insert.

If a firmware did not drop a request whose FLAGS were cleared, a late answer could meet the
next caller; `DropsCleared` is the assumption that it does, and AddressesStayIntact is proved
without it.

## 7. Only model-checked

- Liveness: EveryCallReturns (both), InitializedAfterAnimation, ProbeReturns. It is out of the
  proof system's reach, as is everything that needs induction over data.
- That every action, and every disjunct of an action, can happen at all: the runs fire them.
- The disagreements of section 3, which are counterexamples.

Every other property of the passing runs has its theorem.

## 8. Not modelled

- Marshalling of ACPI/WMI arguments, sysfs formatting and parsing, logging, DMI and CPU tables,
  packaging: no shared state.
- Which kind of keyboard a Clevo machine has (the detection in `clevo_leds_init`): it is
  `env.kind`.
- Device features told by the machine's name alone (the kinds of profiles).
- Scaling of brightness, and the three registers of an RGB colour one by one.
- Time: timeouts count polls, timers expire at any time after they are armed.
- Compiler and CPU reordering of unlocked accesses. An uninitialized value that the code uses
  is any value of its range (`WmiFailure`) or of a set of them (`CallNotify`, from `Garbage`).

## 9. Plan

Written in the order of importance: EC access and its specification first, since all Uniwill
code rests on it, then the driver core, then the state the drivers keep. Every component
with state has its module now. What is left:

1. A sysfs context per zone in ClevoLeds; the detection of the keyboard with failing methods,
   per-key keyboards included.
2. An abstract backlight (one level, one enable bit) that the one-context behaviours of
   UniwillBacklight, UniwillBootAnimation and ClevoLeds implement; the composition of
   UniwillBacklight with EcRam.
