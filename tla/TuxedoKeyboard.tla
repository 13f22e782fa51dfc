--------------------------- MODULE TuxedoKeyboard ---------------------------
(***************************************************************************)
(* The driver core: which vendor interfaces are known and which Clevo one  *)
(* is active (clevo_keyboard.h, uniwill_keyboard.h), and the one platform  *)
(* driver that is set up when an interface is added and taken down when it *)
(* is removed (tuxedo_keyboard.c); and the keys that are reported through  *)
(* the input device it registers.                                          *)
(*                                                                         *)
(* An interface belongs to a bus driver (clevo_wmi.c, clevo_acpi.c,        *)
(* uniwill_wmi.c).  The bus calls its add and remove in turn, but nothing  *)
(* orders the calls of different bus drivers: one thread per interface.    *)
(* Adding and removing are done under the modification lock of the family, *)
(* init_driver under a lock of its own, remove_driver under neither.       *)
(***************************************************************************)
EXTENDS Naturals

CONSTANTS
  Interfaces,   \* that exist
  Environments  \* machines and what may happen on them; env is one of them

Family(i) == IF i = "uniwill_wmi" THEN "uniwill" ELSE "clevo"
Families == {"clevo", "uniwill"}
None == "none"

ASSUME KeyboardAssumption ==
  /\ Interfaces \subseteq {"clevo_wmi", "clevo_acpi", "uniwill_wmi"}
  /\ Environments \subseteq
       [present : SUBSET Interfaces, removesOverlap : BOOLEAN,
        bundleFails : BOOLEAN, inputFails : BOOLEAN,
        events : {"never", "at rest", "any time"}]

VARIABLES
  env,          \* env.present: the interfaces of this machine;
                \* env.removesOverlap: a remove may overlap the calls of other
                \* bus drivers; env.bundleFails: platform_create_bundle may run
                \* out of memory; env.inputFails: tuxedo_input_init may fail;
                \* env.events: when keys are pressed
  known,        \* clevo_interfaces and uniwill_interfaces: the non-NULL ones
  active,       \* active_clevo_interface
  device,       \* tuxedo_platform_device: None, "error" or the driver's family
  current,      \* current_driver: None or a family
  input,        \* tuxedo_input_device: None, "registered" or "freed"
  keys,         \* keys[f]: input_device of the driver of family f
  drivers,      \* platform drivers on the bus; they share one name
  modification, \* modification[f]: holder of the modification lock of f
  init_lock,    \* holder of tuxedo_keyboard_init_driver_lock
  pc,           \* pc[i]: where the bus driver of i is
  combination,  \* keys of the touchpad combination seen last, 0 .. 2
  work,         \* uniwill_key_event_work is queued
  reported      \* history: keys reported to devices in these states

core == <<device, current, input, keys, drivers>>
events == <<combination, work, reported>>
vars == <<env, known, active, core, modification, init_lock, pc, events>>

Init ==
  /\ env \in Environments
  /\ known = {} /\ active = None
  /\ device = None /\ current = None /\ input = None
  /\ keys = [f \in Families |-> None]
  /\ drivers = {}
  /\ modification = [f \in Families |-> None]
  /\ init_lock = None
  /\ pc = [i \in Interfaces |-> "unbound"]
  /\ combination = 0 /\ work = FALSE /\ reported = {}

\* A thread that the kernel has killed or that ran into freed memory ends where
\* it is.
AtRest(i) == pc[i] \in {"unbound", "bound", "oops", "undefined"}
Quiescent == \A i \in Interfaces : AtRest(i)

Go(i, from, to) ==
  /\ pc[i] = from
  /\ pc' = [pc EXCEPT ![i] = to]
  /\ UNCHANGED <<env, events>>

Adding(i) ==
  pc[i] \in {"add", "added", "init", "create", "input", "set_current", "init_exit"}

-----------------------------------------------------------------------------
(***************************************************************************)
(* clevo_keyboard_add_interface and uniwill_add_interface                  *)
(***************************************************************************)

\* Probe of the bus driver; it waits for the modification lock.
Probe(i) ==
  /\ i \in env.present
  /\ env.removesOverlap \/ \A j \in Interfaces : AtRest(j) \/ Adding(j)
  /\ Go(i, "unbound", "add")
  /\ UNCHANGED <<known, active, core, modification, init_lock>>

\* Mutant: the WMI interface takes over as well.
AddAlwaysActivates(i) ==
  /\ modification[Family(i)] = None
  /\ Go(i, "add", "added")
  /\ known' = known \cup {i}
  /\ active' = IF Family(i) = "clevo" THEN i ELSE active
  /\ UNCHANGED <<core, modification, init_lock>>

\* ACPI takes priority, WMI is used if there is no other.  Everything that is
\* done under the lock is one step.
Add(i) ==
  /\ modification[Family(i)] = None
  /\ Go(i, "add", "added")
  /\ known' = known \cup {i}
  /\ active' = IF i = "clevo_acpi" \/ (i = "clevo_wmi" /\ active = None)
               THEN i ELSE active
  /\ UNCHANGED <<core, modification, init_lock>>

\* Clevo: without an active interface there is nothing to do.
AddChecksActive(i) ==
  /\ Go(i, "added", IF Family(i) = "clevo" /\ active = None THEN "bound" ELSE "init")
  /\ UNCHANGED <<known, active, core, modification, init_lock>>

-----------------------------------------------------------------------------
(***************************************************************************)
(* tuxedo_keyboard_init_driver                                             *)
(***************************************************************************)

Usable == device \in Families

\* Mutant: the lock is not taken.
LockInitSkipped(i) ==
  /\ Go(i, "init", IF Usable THEN "init_exit" ELSE "create")
  /\ UNCHANGED <<known, active, core, modification, init_lock>>

\* Mutant: the early exit leaves the lock held.
LockInitLeaks(i) ==
  /\ init_lock = None
  /\ Go(i, "init", IF Usable THEN "bound" ELSE "create")
  /\ init_lock' = i
  /\ UNCHANGED <<known, active, core, modification>>

\* If already initialized, don't proceed.
LockInit(i) ==
  /\ init_lock = None
  /\ Go(i, "init", IF Usable THEN "init_exit" ELSE "create")
  /\ init_lock' = i
  /\ UNCHANGED <<known, active, core, modification>>

\* platform_create_bundle: registers the driver, whose name must be new on the
\* bus, creates the device and probes it.
CreateBundle(i) ==
  /\ \/ /\ drivers = {}
        /\ drivers' = {Family(i)} /\ device' = Family(i)
        /\ Go(i, "create", "input")
     \/ /\ drivers # {} \/ env.bundleFails
        /\ device' = "error" /\ UNCHANGED drivers
        /\ Go(i, "create", "init_exit")
  /\ UNCHANGED <<known, active, current, input, keys, modification, init_lock>>

\* Mutant: a failure leaves the reference of the driver as it was.
InitInputStale(i) ==
  /\ Go(i, "input", "set_current")
  /\ \/ /\ input' = "registered"
        /\ keys' = [keys EXCEPT ![Family(i)] = "registered"]
     \/ /\ env.inputFails
        /\ input' \in {None, "freed"}
        /\ UNCHANGED keys
  /\ UNCHANGED <<known, active, device, current, drivers, modification, init_lock>>

\* tuxedo_input_init: without memory there is no device; a failure after that
\* frees the device but not the reference.  The driver goes on without one.
InitInput(i) ==
  /\ Go(i, "input", "set_current")
  /\ \/ /\ input' = "registered"
        /\ keys' = [keys EXCEPT ![Family(i)] = "registered"]
     \/ /\ env.inputFails
        /\ input' \in {None, "freed"}
        /\ keys' = [keys EXCEPT ![Family(i)] = None]
  /\ UNCHANGED <<known, active, device, current, drivers, modification, init_lock>>

SetCurrent(i) ==
  /\ Go(i, "set_current", "init_exit")
  /\ current' = Family(i)
  /\ UNCHANGED <<known, active, device, input, keys, drivers, modification, init_lock>>

ExitInit(i) ==
  /\ Go(i, "init_exit", "bound")
  /\ init_lock' = None
  /\ UNCHANGED <<known, active, core, modification>>

-----------------------------------------------------------------------------
(***************************************************************************)
(* clevo_keyboard_remove_interface, uniwill_remove_interface and           *)
(* tuxedo_keyboard_remove_driver                                           *)
(***************************************************************************)

\* Remove of the bus driver; it waits for the modification lock.
Unbind(i) ==
  /\ env.removesOverlap \/ Quiescent
  /\ env.events = "at rest" => ~work
  /\ Go(i, "bound", "remove")
  /\ UNCHANGED <<known, active, core, modification, init_lock>>

\* A Clevo interface that is not the active one leaves the driver alone.
RemoveInactive(i) ==
  /\ modification[Family(i)] = None
  /\ Family(i) = "clevo" /\ active # i
  /\ Go(i, "remove", "unbound")
  /\ known' = known \ {i}
  /\ UNCHANGED <<active, core, modification, init_lock>>

\* Mutant: whichever interface goes takes the driver with it.
RemoveAny(i) ==
  /\ modification[Family(i)] = None
  /\ Go(i, "remove", IF current = None THEN "oops" ELSE "input_exit")
  /\ known' = IF Family(i) = "clevo" THEN known \ {i} ELSE known
  /\ modification' = [modification EXCEPT ![Family(i)] = i]
  /\ UNCHANGED <<active, core, init_lock>>

\* The names of the driver asked for and of the current one are the same for
\* all drivers, so that the comparison never ends the call; without a current
\* driver it dereferences NULL.
RemoveActive(i) ==
  /\ modification[Family(i)] = None
  /\ Family(i) = "uniwill" \/ active = i
  /\ Go(i, "remove", IF current = None THEN "oops" ELSE "input_exit")
  /\ known' = IF Family(i) = "clevo" THEN known \ {i} ELSE known
  /\ modification' = [modification EXCEPT ![Family(i)] = i]
  /\ UNCHANGED <<active, core, init_lock>>

\* tuxedo_input_exit: keys[f] keeps pointing to the device.  To unregister a
\* device that was freed is undefined: the thread may go on, or go no further.
ExitInput(i) ==
  /\ \/ /\ Go(i, "input_exit", "device_unregister")
        /\ keys' = [f \in Families |->
                     IF input = None \/ keys[f] = None THEN keys[f] ELSE "freed"]
        /\ input' = None
     \/ /\ input = "freed"
        /\ Go(i, "input_exit", "undefined")
        /\ UNCHANGED <<keys, input>>
  /\ UNCHANGED <<known, active, device, current, drivers, modification, init_lock>>

\* Mutant: tuxedo_platform_device is not reset.
UnregisterDeviceKept(i) ==
  /\ Go(i, "device_unregister", "driver_unregister")
  /\ UNCHANGED <<known, active, core, modification, init_lock>>

UnregisterDevice(i) ==
  /\ Go(i, "device_unregister", "driver_unregister")
  /\ device' = IF Usable THEN None ELSE device
  /\ UNCHANGED <<known, active, current, input, keys, drivers, modification, init_lock>>

UnregisterDriver(i) ==
  /\ Go(i, "driver_unregister", IF current = None THEN "clear" ELSE "reset")
  /\ drivers' = drivers \ {current}
  /\ UNCHANGED <<known, active, device, current, input, keys, modification, init_lock>>

ResetCurrent(i) ==
  /\ Go(i, "reset", "clear")
  /\ current' = None
  /\ UNCHANGED <<known, active, device, input, keys, drivers, modification, init_lock>>

\* The interface goes last.
Clear(i) ==
  /\ Go(i, "clear", "unbound")
  /\ active' = IF Family(i) = "clevo" THEN None ELSE active
  /\ known' = known \ {i}
  /\ modification' = [modification EXCEPT ![Family(i)] = None]
  /\ UNCHANGED <<core, init_lock>>

-----------------------------------------------------------------------------
(***************************************************************************)
(* uniwill_event_callb, clevo_keyboard_event_callb and the keyboard        *)
(* notifier: keys that are reported through the input device of a driver   *)
(***************************************************************************)

MayPress ==
  \/ env.events = "any time"
  \/ env.events = "at rest" /\ Quiescent

\* The bus tells its driver of an event; the callback is there once the
\* interface has been added.
Bound(i) == pc[i] \notin {"unbound", "add", "oops", "undefined"}

Report(dev) == reported' = reported \cup {dev}

\* The key that opens the control center is reported through the driver's own
\* device without asking whether there is one.
ControlCenterKey(i) ==
  /\ MayPress /\ Bound(i)
  /\ Report(keys[Family(i)])
  /\ UNCHANGED <<env, known, active, core, modification, init_lock, pc,
                 combination, work>>

\* Any other key is dropped when there is no device.  Uniwill asks its own
\* driver, Clevo the current one.
MappedKey(i) ==
  LET d == IF Family(i) = "uniwill" THEN "uniwill" ELSE current IN
  /\ MayPress /\ Bound(i)
  /\ d # None /\ keys[d] # None
  /\ Report(keys[d])
  /\ UNCHANGED <<env, known, active, core, modification, init_lock, pc,
                 combination, work>>

\* keyboard_notifier_callb, from the probe of the Uniwill driver to its remove:
\* keys 85, 29, 125 going up one after another are the touchpad switch.
KeyUp(key) ==
  /\ MayPress /\ device = "uniwill"
  /\ combination' = CASE key = "zenkaku" -> 1
                      [] key = "ctrl" /\ combination = 1 -> 2
                      [] OTHER -> 0
  /\ work' = (work \/ (key = "meta" /\ combination = 2))
  /\ UNCHANGED <<env, known, active, core, modification, init_lock, pc, reported>>

\* key_event_work: nothing waits for it or cancels it.
RunWork ==
  /\ work /\ work' = FALSE
  /\ Report(keys["uniwill"])
  /\ UNCHANGED <<env, known, active, core, modification, init_lock, pc, combination>>

PressKey ==
  \/ \E i \in Interfaces : ControlCenterKey(i) \/ MappedKey(i)
  \/ \E key \in {"zenkaku", "ctrl", "meta"} : KeyUp(key)
  \/ RunWork

-----------------------------------------------------------------------------
Call(i) ==
  \/ Add(i) \/ AddChecksActive(i)
  \/ LockInit(i) \/ CreateBundle(i) \/ InitInput(i) \/ SetCurrent(i) \/ ExitInit(i)
  \/ RemoveInactive(i) \/ RemoveActive(i)
  \/ ExitInput(i) \/ UnregisterDevice(i) \/ UnregisterDriver(i) \/ ResetCurrent(i)
  \/ Clear(i)

Next ==
  \/ \E i \in Interfaces : Probe(i) \/ Unbind(i) \/ Call(i)
  \/ PressKey

Spec == Init /\ [][Next]_vars

\* A thread in the kernel runs on, and a mutex is not withheld for ever from
\* a thread that waits for it: the kernel hands it over.
Fairness == \A i \in Interfaces : SF_vars(Call(i))

FairSpec == Spec /\ Fairness

-----------------------------------------------------------------------------
(***************************************************************************)
(* Properties                                                              *)
(***************************************************************************)

Initializing(i) == pc[i] \in {"create", "input", "set_current", "init_exit"}

\* Types; and whoever is inside init_driver holds its lock.
TypeOK ==
  /\ env \in Environments
  /\ known \subseteq Interfaces
  /\ active \in Interfaces \cup {None}
  /\ device \in Families \cup {None, "error"}
  /\ current \in Families \cup {None}
  /\ input \in {None, "registered", "freed"}
  /\ keys \in [Families -> {None, "registered", "freed"}]
  /\ drivers \subseteq Families
  /\ modification \in [Families -> Interfaces \cup {None}]
  /\ init_lock \in Interfaces \cup {None}
  /\ pc \in [Interfaces ->
       {"unbound", "add", "added", "init", "create", "input", "set_current",
        "init_exit", "bound", "remove", "input_exit", "device_unregister",
        "driver_unregister", "reset", "clear", "oops", "undefined"}]
  /\ combination \in 0 .. 2 /\ work \in BOOLEAN
  /\ reported \subseteq {None, "registered", "freed"}
  /\ \A i \in Interfaces : Initializing(i) <=> init_lock = i

\* Whatever the order in which the bus drivers come and go, the ACPI interface
\* is the active one for as long as it is known.
AcpiTakesPriority == "clevo_acpi" \in known => active = "clevo_acpi"

\* Removes wait until nothing else is under way, and memory suffices for the
\* device.
Orderly == ~env.removesOverlap /\ ~env.bundleFails

\* A machine has the interfaces of one vendor.
OneFamily == \A i, j \in env.present : Family(i) = Family(j)

\* The driver of family f refers to the input device if that is registered, and
\* to none if it could not be set up: a freed device is not taken for one.
HasInput(f) ==
  /\ input = "registered" \/ env.inputFails
  /\ keys[f] = IF input = "registered" THEN "registered" ELSE None

\* When no call is under way, what the core remembers is what is on the bus:
\* a platform device and the driver it is bound to, and the input device the
\* driver reports to; without a driver there is no input device either.
CoreMatchesBus ==
  Orderly /\ Quiescent =>
    /\ drivers = {current} \ {None}
    /\ device = current
    /\ IF current = None THEN input = None ELSE HasInput(current)

\* A driver is there when an interface is active, and only then.
DriverFollowsInterface ==
  Orderly /\ OneFamily /\ Quiescent =>
    (current # None <=> (active # None \/ "uniwill_wmi" \in known))

\* No remove of an interface dereferences the current driver when there is none.
NoOops == ~env.removesOverlap /\ OneFamily => \A i \in Interfaces : pc[i] # "oops"

\* On a machine with one interface, keys that are pressed while no driver comes
\* or goes are reported to a device that is registered, also after drivers have
\* come and gone: the reference a driver keeps to its device of the last time
\* has been replaced.  (With two, the driver may have gone with the other.)
KeysReachDevice ==
  Orderly /\ env.events = "at rest" /\ (\A i, j \in env.present : i = j) =>
    "freed" \notin reported /\ (~env.inputFails => None \notin reported)

\* Every add and every remove returns, whatever overlaps, unless a thread that
\* held a lock was killed or ran into freed memory.
Killed == \E i \in Interfaces : pc[i] \in {"oops", "undefined"}

EveryCallReturns == \A i \in Interfaces : ~AtRest(i) ~> AtRest(i) \/ Killed

=============================================================================
