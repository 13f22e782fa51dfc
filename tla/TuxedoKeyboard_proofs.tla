----------------------- MODULE TuxedoKeyboard_proofs -----------------------
(***************************************************************************)
(* Proofs about TuxedoKeyboard, for every set of interfaces: with every    *)
(* overlap of adds and removes the types with the mutual exclusion of      *)
(* init_driver, and the priority of the ACPI interface; while removes wait *)
(* for what is under way, the core against the bus and the interfaces, the *)
(* driver a remove finds, and the device that keys are reported to.        *)
(***************************************************************************)
EXTENDS TuxedoKeyboard, TLAPS

\* The part of a remove that holds the modification lock.
Removing(i) ==
  pc[i] \in {"input_exit", "device_unregister", "driver_unregister", "reset",
             "clear", "oops", "undefined"}

\* Whoever takes the driver down holds the lock of its family; a Clevo
\* interface is the active one and not known any more.
RemoverHoldsLock ==
  \A i \in Interfaces : Removing(i) =>
    /\ modification[Family(i)] = i
    /\ Family(i) = "clevo" => active = i /\ i \notin known

\* The inductive invariant behind the priority: without RemoverHoldsLock an
\* interface could be added between the two halves of a remove, and the second
\* half would clear it.
PriorityInv == TypeOK /\ RemoverHoldsLock /\ AcpiTakesPriority

\* An interface belongs to one of the two families.
LEMMA FamilyType == \A i : Family(i) \in Families
  BY DEF Family, Families

\* No interface is called "none".
LEMMA NoneIsNoInterface == None \notin Interfaces
  BY KeyboardAssumption DEF KeyboardAssumption, None

\* The initial state has the types.
LEMMA InitType == Init => TypeOK
<1> SUFFICES ASSUME Init PROVE TypeOK
  OBVIOUS
<1>1. /\ known \subseteq Interfaces /\ active \in Interfaces \cup {None}
      /\ device \in Families \cup {None, "error"}
      /\ current \in Families \cup {None} /\ drivers \subseteq Families
      /\ input \in {None, "registered", "freed"}
  BY DEF Init
<1>2. /\ keys \in [Families -> {None, "registered", "freed"}]
      /\ modification \in [Families -> Interfaces \cup {None}]
      /\ init_lock \in Interfaces \cup {None}
  BY DEF Init
<1>3. /\ env \in Environments /\ combination \in 0 .. 2
      /\ reported \subseteq {None, "registered", "freed"}
  BY DEF Init
<1>5. work \in BOOLEAN
  BY DEF Init
<1>4. \A i \in Interfaces : pc[i] = "unbound" /\ init_lock # i
  BY NoneIsNoInterface DEF Init
<1> QED BY <1>1, <1>2, <1>3, <1>4, <1>5 DEF Init, TypeOK, Initializing

\* The bus drivers are called and do nothing yet.
LEMMA CallsBegin ==
  \A i : Probe(i) \/ Unbind(i) =>
    /\ Go(i, "unbound", "add") \/ Go(i, "bound", "remove")
    /\ UNCHANGED <<known, active, core, modification, init_lock>>
  BY Zenon DEF Probe, Unbind

\* Keys change nothing but what the events are kept in.
LEMMA KeysLeaveCore ==
  PressKey => UNCHANGED <<env, known, active, core, modification, init_lock, pc>>
  BY DEF PressKey, ControlCenterKey, MappedKey, KeyUp, RunWork, core

\* A key is reported to a device in one of the three states.
LEMMA KeysType ==
  TypeOK /\ PressKey =>
    /\ combination' \in 0 .. 2 /\ work' \in BOOLEAN
    /\ reported' \subseteq {None, "registered", "freed"}
<1> SUFFICES ASSUME TypeOK, PressKey
             PROVE  /\ combination' \in 0 .. 2 /\ work' \in BOOLEAN
                    /\ reported' \subseteq {None, "registered", "freed"}
  OBVIOUS
<1> USE FamilyType
<1>1. ASSUME NEW i \in Interfaces, ControlCenterKey(i) \/ MappedKey(i)
      PROVE  /\ combination' = combination /\ work' = work
             /\ reported' \subseteq {None, "registered", "freed"}
  BY <1>1 DEF ControlCenterKey, MappedKey, Report, TypeOK, Families, None
<1>2. ASSUME NEW key \in {"zenkaku", "ctrl", "meta"}, KeyUp(key)
      PROVE  /\ combination' \in 0 .. 2 /\ work' \in BOOLEAN
             /\ reported' = reported
  <2>1. combination' \in 0 .. 2
    BY <1>2 DEF KeyUp
  <2>2. work' \in BOOLEAN
    BY <1>2 DEF KeyUp, TypeOK
  <2>3. reported' = reported
    BY <1>2 DEF KeyUp
  <2> QED BY <2>1, <2>2, <2>3
<1>3. CASE RunWork
  BY <1>3 DEF RunWork, Report, TypeOK, Families
<1> QED BY <1>1, <1>2, <1>3 DEF PressKey, TypeOK

\* Types, and the lock of init_driver, in every step: whoever enters takes the
\* lock, whoever leaves gives it back, and nobody else touches it.
LEMMA StepType == TypeOK /\ [Next]_vars => TypeOK'
<1> SUFFICES ASSUME TypeOK, [Next]_vars PROVE TypeOK'
  OBVIOUS
<1> USE FamilyType, NoneIsNoInterface
<1>1. CASE UNCHANGED vars
  BY <1>1 DEF vars, core, events, TypeOK, Initializing
<1>2. ASSUME NEW i \in Interfaces, Probe(i) \/ Unbind(i) PROVE TypeOK'
  BY <1>2, CallsBegin DEF Go, core, events, TypeOK, Initializing
<1>3. ASSUME NEW i \in Interfaces, Add(i) \/ AddChecksActive(i) PROVE TypeOK'
  BY <1>3 DEF Add, AddChecksActive, Go, core, events, TypeOK, Initializing
<1>4. ASSUME NEW i \in Interfaces, LockInit(i) \/ CreateBundle(i) PROVE TypeOK'
  <2>1. CASE LockInit(i)
    BY <2>1 DEF LockInit, Go, core, events, TypeOK, Initializing
  <2>2. CASE CreateBundle(i)
    BY <2>2 DEF CreateBundle, Go, core, events, TypeOK, Initializing
  <2> QED BY <1>4, <2>1, <2>2
<1>5. ASSUME NEW i \in Interfaces, InitInput(i) \/ SetCurrent(i) PROVE TypeOK'
  <2>1. CASE InitInput(i)
    BY <2>1 DEF InitInput, Go, core, events, TypeOK, Initializing
  <2>2. CASE SetCurrent(i)
    BY <2>2 DEF SetCurrent, Go, core, events, TypeOK, Initializing
  <2> QED BY <1>5, <2>1, <2>2
<1>6. ASSUME NEW i \in Interfaces, ExitInit(i) PROVE TypeOK'
  BY <1>6 DEF ExitInit, Go, core, events, TypeOK, Initializing
<1>7. ASSUME NEW i \in Interfaces, RemoveInactive(i) \/ RemoveActive(i) PROVE TypeOK'
  <2>1. CASE RemoveInactive(i)
    BY <2>1 DEF RemoveInactive, Go, core, events, TypeOK, Initializing
  <2>2. CASE RemoveActive(i)
    BY <2>2 DEF RemoveActive, Go, core, events, TypeOK, Initializing
  <2> QED BY <1>7, <2>1, <2>2
<1>8. ASSUME NEW i \in Interfaces, ExitInput(i) \/ UnregisterDevice(i) PROVE TypeOK'
  <2>1. CASE ExitInput(i)
    BY <2>1 DEF ExitInput, Go, core, events, TypeOK, Initializing
  <2>2. CASE UnregisterDevice(i)
    BY <2>2 DEF UnregisterDevice, Go, core, events, TypeOK, Initializing
  <2> QED BY <1>8, <2>1, <2>2
<1>9. ASSUME NEW i \in Interfaces, UnregisterDriver(i) \/ ResetCurrent(i) PROVE TypeOK'
  BY <1>9 DEF UnregisterDriver, ResetCurrent, Go, core, events, TypeOK, Initializing
<1>10. ASSUME NEW i \in Interfaces, Clear(i) PROVE TypeOK'
  BY <1>10 DEF Clear, Go, core, events, TypeOK, Initializing
<1>11. CASE PressKey
  BY <1>11, KeysLeaveCore, KeysType DEF core, TypeOK, Initializing
<1> QED
  BY <1>1, <1>2, <1>3, <1>4, <1>5, <1>6, <1>7, <1>8, <1>9, <1>10, <1>11 DEF Next, Call

\* No driver is being removed at the start.
LEMMA InitPriority == Init => PriorityInv
  BY InitType DEF Init, PriorityInv, RemoverHoldsLock, Removing, AcpiTakesPriority

\* The steps of one bus driver.  Only Add makes an interface known, only Add
\* and Clear change the active one, and both need the lock.
LEMMA StepPriority == PriorityInv /\ [Next]_vars => PriorityInv'
<1> SUFFICES ASSUME PriorityInv, [Next]_vars
             PROVE RemoverHoldsLock' /\ AcpiTakesPriority'
  BY StepType DEF PriorityInv
<1> USE FamilyType DEF PriorityInv, RemoverHoldsLock, Removing, AcpiTakesPriority
<1>1. CASE UNCHANGED vars
  BY <1>1 DEF vars, core, events
<1>2. ASSUME NEW i \in Interfaces, Probe(i) \/ Unbind(i) \/ AddChecksActive(i)
      PROVE RemoverHoldsLock' /\ AcpiTakesPriority'
  BY <1>2, CallsBegin DEF AddChecksActive, Go, TypeOK
<1>3. ASSUME NEW i \in Interfaces, Add(i)
      PROVE RemoverHoldsLock' /\ AcpiTakesPriority'
  <2>1. CASE i = "uniwill_wmi"
    BY <1>3, <2>1 DEF Add, Go, TypeOK, Family
  <2>2. CASE i \in {"clevo_wmi", "clevo_acpi"}
    <3>1. \A j \in Interfaces : Removing(j) => Family(j) # "clevo"
      BY <1>3, <2>2, NoneIsNoInterface DEF Add, Family
    <3> QED BY <1>3, <2>2, <3>1, NoneIsNoInterface DEF Add, Go, TypeOK, Family
  <2> QED BY <2>1, <2>2, KeyboardAssumption DEF KeyboardAssumption
<1>4. ASSUME NEW i \in Interfaces,
             LockInit(i) \/ CreateBundle(i) \/ InitInput(i) \/ SetCurrent(i) \/ ExitInit(i)
      PROVE RemoverHoldsLock' /\ AcpiTakesPriority'
  BY <1>4 DEF LockInit, CreateBundle, InitInput, SetCurrent, ExitInit, Go, TypeOK
<1>5. ASSUME NEW i \in Interfaces, RemoveInactive(i)
      PROVE RemoverHoldsLock' /\ AcpiTakesPriority'
  BY <1>5 DEF RemoveInactive, Go, TypeOK
<1>6. ASSUME NEW i \in Interfaces, RemoveActive(i)
      PROVE RemoverHoldsLock' /\ AcpiTakesPriority'
  <2>1. \A j \in Interfaces : Removing(j) => Family(j) # Family(i)
    BY <1>6, NoneIsNoInterface DEF RemoveActive
  <2> QED BY <1>6, <2>1 DEF RemoveActive, Go, TypeOK, Family
<1>7. ASSUME NEW i \in Interfaces,
             ExitInput(i) \/ UnregisterDevice(i) \/ UnregisterDriver(i) \/ ResetCurrent(i)
      PROVE RemoverHoldsLock' /\ AcpiTakesPriority'
  BY <1>7 DEF ExitInput, UnregisterDevice, UnregisterDriver, ResetCurrent, Go, TypeOK
<1>8. ASSUME NEW i \in Interfaces, Clear(i)
      PROVE RemoverHoldsLock' /\ AcpiTakesPriority'
  <2>1. Removing(i) /\ modification[Family(i)] = i
    BY <1>8 DEF Clear, Go
  <2>2. \A j \in Interfaces : j # i /\ Removing(j) => Family(j) # Family(i)
    BY <2>1
  <2> QED BY <1>8, <2>1, <2>2 DEF Clear, Go, TypeOK, Family
<1>9. CASE PressKey
  BY <1>9, KeysLeaveCore
<1> QED
  BY <1>1, <1>2, <1>3, <1>4, <1>5, <1>6, <1>7, <1>8, <1>9 DEF Next, Call

\* At every moment at most one thread is inside init_driver, the one that holds
\* its lock, and the variables have their types.
THEOREM TypeCorrect == Spec => []TypeOK
<1>1. Init => TypeOK BY InitType
<1>2. TypeOK /\ [Next]_vars => TypeOK' BY StepType
<1> QED BY <1>1, <1>2, PTL DEF Spec

\* Whatever adds and removes of bus drivers overlap, the ACPI interface is the
\* active one for as long as it is known.
THEOREM AcpiHasPriority == Spec => []AcpiTakesPriority
<1>1. Init => PriorityInv BY InitPriority
<1>2. PriorityInv /\ [Next]_vars => PriorityInv' BY StepPriority
<1>3. PriorityInv => AcpiTakesPriority BY DEF PriorityInv
<1> QED BY <1>1, <1>2, <1>3, PTL DEF Spec

-----------------------------------------------------------------------------
(***************************************************************************)
(* The core against the bus, while removes wait for what is under way      *)
(***************************************************************************)

\* A remove, from its first step to its last.
Taking(i) ==
  pc[i] \in {"remove", "input_exit", "device_unregister", "driver_unregister", "reset", "clear"}

\* Who takes a driver down is alone.
AloneInv == \A i, j \in Interfaces : Taking(i) /\ j # i => AtRest(j)

Empty == device = None /\ current = None /\ input = None /\ drivers = {}

Matched ==
  /\ drivers = {current} \ {None} /\ device = current
  /\ IF current = None THEN input = None ELSE HasInput(current)

\* The core at every step of setting a driver up and of taking it down; between
\* these steps it matches the bus.
CoreInv ==
  /\ \A i \in Interfaces :
       /\ pc[i] \in {"create", "clear"} => Empty
       /\ pc[i] \in {"input", "set_current"} =>
            /\ device = Family(i) /\ drivers = {Family(i)} /\ current = None
            /\ IF pc[i] = "input" THEN input = None ELSE HasInput(Family(i))
       /\ pc[i] = "input_exit" => current # None
       /\ pc[i] \in {"device_unregister", "driver_unregister"} =>
            /\ current # None /\ drivers = {current} /\ input = None
            /\ device = IF pc[i] = "device_unregister" THEN current ELSE None
       /\ pc[i] = "reset" => device = None /\ drivers = {} /\ input = None
  /\ (\A i \in Interfaces :
        pc[i] \notin {"input", "set_current", "device_unregister", "driver_unregister", "reset"})
       => Matched

\* The other half of RemoverHoldsLock is not needed here, but the types are: they
\* say that one thread at a time is inside init_driver.
BusInv == Orderly => AloneInv /\ CoreInv

\* Threads that neither set up nor take down.
LEMMA IdleStepKeepsCore ==
  ASSUME TypeOK, AloneInv, CoreInv, UNCHANGED core, NEW i \in Interfaces,
         NEW a, NEW b, Go(i, a, b),
         {a, b} \cap {"create", "input", "set_current", "input_exit", "device_unregister",
                      "driver_unregister", "reset", "clear"} = {}
  PROVE  CoreInv'
<1>1. UNCHANGED <<env, device, current, input, keys, drivers>>
  BY DEF core, Go
<1>2. \A j \in Interfaces : pc'[j] = IF j = i THEN b ELSE pc[j]
  BY DEF Go, TypeOK
<1>3. pc[i] = a
  BY DEF Go
<1> QED BY <1>1, <1>2, <1>3 DEF CoreInv, Matched, Empty, HasInput

\* Only the last call of a bus driver begins a remove, and only alone.
LEMMA StepKeepsAlone ==
  ASSUME TypeOK, ~env.removesOverlap, AloneInv,
         NEW i \in Interfaces, Probe(i) \/ Unbind(i) \/ Call(i)
  PROVE  AloneInv'
<1> USE DEF AloneInv, AtRest, Taking, TypeOK
<1>1. ASSUME NEW a, NEW b, Go(i, a, b), a \notin {"unbound", "bound", "oops", "undefined"}, b # "remove",
             b \in {"clear", "reset", "driver_unregister", "device_unregister", "input_exit"}
               => a \in {"remove", "input_exit", "device_unregister", "driver_unregister", "reset"}
      PROVE  AloneInv'
  BY <1>1 DEF Go
<1>2. CASE Probe(i)
  BY <1>2 DEF Probe, Go, Adding
<1>3. CASE Unbind(i)
  <2>1. \A j \in Interfaces : pc[j] \in {"unbound", "bound", "oops", "undefined"}
    BY <1>3 DEF Unbind, Quiescent
  <2>2. pc' = [pc EXCEPT ![i] = "remove"]
    BY <1>3 DEF Unbind, Go
  <2> QED BY <2>1, <2>2
<1>4. CASE Add(i) \/ AddChecksActive(i) \/ LockInit(i)
  <2>1. CASE Add(i)
    BY <1>1, <2>1 DEF Add
  <2>2. CASE AddChecksActive(i)
    BY <1>1, <2>2 DEF AddChecksActive
  <2>3. CASE LockInit(i)
    BY <1>1, <2>3 DEF LockInit
  <2> QED BY <1>4, <2>1, <2>2, <2>3
<1>5. CASE CreateBundle(i) \/ InitInput(i) \/ SetCurrent(i) \/ ExitInit(i)
  BY <1>1, <1>5 DEF CreateBundle, InitInput, SetCurrent, ExitInit
<1>6. CASE RemoveInactive(i) \/ RemoveActive(i)
  BY <1>1, <1>6 DEF RemoveInactive, RemoveActive
<1>7. CASE ExitInput(i) \/ UnregisterDevice(i) \/ UnregisterDriver(i)
  BY <1>1, <1>7 DEF ExitInput, UnregisterDevice, UnregisterDriver
<1>8. CASE ResetCurrent(i) \/ Clear(i)
  BY <1>1, <1>8 DEF ResetCurrent, Clear
<1> QED BY <1>2, <1>3, <1>4, <1>5, <1>6, <1>7, <1>8 DEF Call

\* While one thread is inside init_driver no other is, and nobody takes a driver
\* down; while one takes a driver down nobody is inside.
LEMMA OneAtATime ==
  ASSUME TypeOK, AloneInv, NEW i \in Interfaces, Initializing(i) \/ Taking(i)
  PROVE  \A j \in Interfaces : j # i => ~Initializing(j) /\ ~Taking(j)
  BY NoneIsNoInterface DEF TypeOK, AloneInv, Initializing, Taking, AtRest

\* The steps of init_driver.
LEMMA InitDriverKeepsCore ==
  ASSUME TypeOK, Orderly, AloneInv, CoreInv, NEW i \in Interfaces,
         LockInit(i) \/ CreateBundle(i) \/ InitInput(i) \/ SetCurrent(i) \/ ExitInit(i)
  PROVE  CoreInv'
<1> USE FamilyType DEF Initializing, Taking
<1>1. CASE LockInit(i)
  <2>1. \A j \in Interfaces : ~Initializing(j) /\ ~Taking(j)
    BY <1>1, NoneIsNoInterface DEF LockInit, Go, TypeOK, AloneInv, AtRest
  <2>2. Matched
    BY <2>1 DEF CoreInv
  <2>3. ~Usable => Empty
    BY <2>2 DEF Matched, Empty, Usable, TypeOK
  <2>4. UNCHANGED core /\ \A j \in Interfaces : pc'[j] = IF j = i THEN IF Usable THEN "init_exit" ELSE "create" ELSE pc[j]
    BY <1>1 DEF LockInit, Go, TypeOK
  <2>5. UNCHANGED env
    BY <1>1 DEF LockInit, Go
  <2> QED BY <2>1, <2>2, <2>3, <2>4, <2>5 DEF CoreInv, Matched, Empty, core, HasInput
<1>2. CASE CreateBundle(i)
  <2>1. \A j \in Interfaces : j # i => ~Initializing(j) /\ ~Taking(j)
    BY <1>2, OneAtATime DEF CreateBundle, Go
  <2>2. Empty /\ device' = Family(i) /\ drivers' = {Family(i)} /\ UNCHANGED <<current, input>>
    BY <1>2 DEF CreateBundle, Go, CoreInv, Empty, Orderly
  <2>3. \A j \in Interfaces : pc'[j] = IF j = i THEN "input" ELSE pc[j]
    BY <1>2, <2>2 DEF CreateBundle, Go, TypeOK, Empty, Orderly
  <2> QED BY <2>1, <2>2, <2>3 DEF CoreInv, Matched, Empty
<1>3. CASE InitInput(i)
  <2>1. \A j \in Interfaces : j # i => ~Initializing(j) /\ ~Taking(j)
    BY <1>3, OneAtATime DEF InitInput, Go
  <2>2. /\ device = Family(i) /\ drivers = {Family(i)} /\ current = None
        /\ UNCHANGED <<device, drivers, current>> /\ HasInput(Family(i))'
    BY <1>3 DEF InitInput, Go, CoreInv, None, HasInput, TypeOK
  <2>3. \A j \in Interfaces : pc'[j] = IF j = i THEN "set_current" ELSE pc[j]
    BY <1>3 DEF InitInput, Go, TypeOK
  <2> QED BY <2>1, <2>2, <2>3 DEF CoreInv, Matched, Empty
<1>4. CASE SetCurrent(i)
  <2>1. \A j \in Interfaces : j # i => ~Initializing(j) /\ ~Taking(j)
    BY <1>4, OneAtATime DEF SetCurrent, Go
  <2>2. /\ device = Family(i) /\ drivers = {Family(i)} /\ HasInput(Family(i))
        /\ UNCHANGED <<env, device, drivers, input, keys>>
        /\ current' = Family(i) /\ Family(i) # None
    BY <1>4 DEF SetCurrent, Go, CoreInv, None, Families
  <2>3. \A j \in Interfaces : pc'[j] = IF j = i THEN "init_exit" ELSE pc[j]
    BY <1>4 DEF SetCurrent, Go, TypeOK
  <2> QED BY <2>1, <2>2, <2>3 DEF CoreInv, Matched, Empty, HasInput
<1>5. CASE ExitInit(i)
  BY <1>5, IdleStepKeepsCore DEF ExitInit
<1> QED BY <1>1, <1>2, <1>3, <1>4, <1>5

\* The steps of remove_driver.
LEMMA RemoveDriverKeepsCore ==
  ASSUME TypeOK, Orderly, AloneInv, CoreInv, NEW i \in Interfaces,
         RemoveActive(i) \/ ExitInput(i) \/ UnregisterDevice(i) \/ UnregisterDriver(i)
           \/ ResetCurrent(i) \/ Clear(i)
  PROVE  CoreInv'
<1> USE DEF Initializing, Taking
<1>1. \A j \in Interfaces : j # i => ~Initializing(j) /\ ~Taking(j)
  BY OneAtATime DEF RemoveActive, ExitInput, UnregisterDevice, UnregisterDriver, ResetCurrent, Clear, Go
<1>2. CASE RemoveActive(i)
  <2>1. Matched
    BY <1>1, <1>2 DEF RemoveActive, Go, CoreInv
  <2>2. UNCHANGED core /\ \A j \in Interfaces : pc'[j] = IF j = i THEN IF current = None THEN "oops" ELSE "input_exit" ELSE pc[j]
    BY <1>2 DEF RemoveActive, Go, TypeOK
  <2>3. UNCHANGED env
    BY <1>2 DEF RemoveActive, Go
  <2> QED BY <1>1, <2>1, <2>2, <2>3 DEF CoreInv, Matched, Empty, core, HasInput
<1>3. CASE ExitInput(i)
  <2>1. Matched /\ current # None
    BY <1>1, <1>3 DEF ExitInput, Go, CoreInv
  <2>2. UNCHANGED <<env, device, drivers, current>>
    BY <1>3 DEF ExitInput, Go
  <2>3. CASE Go(i, "input_exit", "device_unregister") /\ input' = None
    <3>1. \A j \in Interfaces : pc'[j] = IF j = i THEN "device_unregister" ELSE pc[j]
      BY <2>3 DEF Go, TypeOK
    <3> QED BY <1>1, <2>1, <2>2, <2>3, <3>1 DEF CoreInv, Matched, Empty
  <2>4. CASE Go(i, "input_exit", "undefined") /\ UNCHANGED <<keys, input>>
    <3>1. \A j \in Interfaces : pc'[j] = IF j = i THEN "undefined" ELSE pc[j]
      BY <2>4 DEF Go, TypeOK
    <3> QED BY <1>1, <2>1, <2>2, <2>4, <3>1 DEF CoreInv, Matched, Empty, HasInput
  <2> QED BY <1>3, <2>3, <2>4 DEF ExitInput
<1>4. CASE UnregisterDevice(i)
  <2>1. current # None /\ drivers = {current} /\ input = None /\ device = current
    BY <1>4 DEF UnregisterDevice, Go, CoreInv
  <2>2. UNCHANGED <<input, drivers, current>> /\ device' = None
    BY <1>4, <2>1 DEF UnregisterDevice, Usable, TypeOK
  <2>3. \A j \in Interfaces : pc'[j] = IF j = i THEN "driver_unregister" ELSE pc[j]
    BY <1>4 DEF UnregisterDevice, Go, TypeOK
  <2> QED BY <1>1, <2>1, <2>2, <2>3 DEF CoreInv, Matched, Empty
<1>5. CASE UnregisterDriver(i)
  <2>1. current # None /\ drivers = {current} /\ input = None /\ device = None
    BY <1>5 DEF UnregisterDriver, Go, CoreInv
  <2>2. UNCHANGED <<input, device, current>> /\ drivers' = {}
    BY <1>5, <2>1 DEF UnregisterDriver
  <2>3. \A j \in Interfaces : pc'[j] = IF j = i THEN "reset" ELSE pc[j]
    BY <1>5, <2>1 DEF UnregisterDriver, Go, TypeOK
  <2> QED BY <1>1, <2>1, <2>2, <2>3 DEF CoreInv, Matched, Empty
<1>6. CASE ResetCurrent(i)
  <2>1. device = None /\ drivers = {} /\ input = None
    BY <1>6 DEF ResetCurrent, Go, CoreInv
  <2>2. UNCHANGED <<input, device, drivers>> /\ current' = None
    BY <1>6 DEF ResetCurrent
  <2>3. \A j \in Interfaces : pc'[j] = IF j = i THEN "clear" ELSE pc[j]
    BY <1>6 DEF ResetCurrent, Go, TypeOK
  <2> QED BY <1>1, <2>1, <2>2, <2>3 DEF CoreInv, Matched, Empty
<1>7. CASE Clear(i)
  <2>1. Empty
    BY <1>7 DEF Clear, Go, CoreInv
  <2>2. UNCHANGED core /\ \A j \in Interfaces : pc'[j] = IF j = i THEN "unbound" ELSE pc[j]
    BY <1>7 DEF Clear, Go, TypeOK
  <2> QED BY <1>1, <2>1, <2>2 DEF CoreInv, Matched, Empty, core, HasInput
<1> QED BY <1>2, <1>3, <1>4, <1>5, <1>6, <1>7

LEMMA CallKeepsEnv ==
  \A i : Probe(i) \/ Unbind(i) \/ Call(i) => UNCHANGED env
  BY CallsBegin DEF Call, Go, Add, AddChecksActive, LockInit, CreateBundle, InitInput,
     SetCurrent, ExitInit, RemoveInactive, RemoveActive, ExitInput, UnregisterDevice,
     UnregisterDriver, ResetCurrent, Clear

LEMMA InitBus == Init => BusInv
  BY DEF Init, BusInv, AloneInv, Taking, CoreInv, Matched

LEMMA StepBus == TypeOK /\ BusInv /\ [Next]_vars => BusInv'
<1> SUFFICES ASSUME TypeOK, BusInv, [Next]_vars, Orderly' PROVE AloneInv' /\ CoreInv'
  BY DEF BusInv
<1>1. ASSUME UNCHANGED <<env, core, pc>> PROVE AloneInv' /\ CoreInv'
  BY <1>1 DEF BusInv, AloneInv, Taking, AtRest, CoreInv, Matched, Empty, HasInput, Orderly, core
<1>2. CASE PressKey \/ UNCHANGED vars
  BY <1>1, <1>2, KeysLeaveCore DEF vars
<1>3. ASSUME NEW i \in Interfaces, Probe(i) \/ Unbind(i) \/ Call(i) PROVE AloneInv' /\ CoreInv'
  <2>1. UNCHANGED env
    BY <1>3, CallKeepsEnv
  <2>2. Orderly /\ AloneInv /\ CoreInv
    BY <2>1 DEF BusInv, Orderly
  <2>3. AloneInv'
    BY <1>3, <2>2, StepKeepsAlone DEF Orderly
  <2>4. CASE Probe(i) \/ Unbind(i)
    <3>1. UNCHANGED core /\ (Go(i, "unbound", "add") \/ Go(i, "bound", "remove"))
      BY <2>4, CallsBegin
    <3> QED BY <2>2, <2>3, <3>1, IdleStepKeepsCore
  <2>5. CASE Add(i) \/ AddChecksActive(i) \/ RemoveInactive(i)
    <3>1. /\ UNCHANGED core
          /\ \/ Go(i, "add", "added") \/ Go(i, "added", "bound") \/ Go(i, "added", "init")
             \/ Go(i, "remove", "unbound")
      BY <2>5 DEF Add, AddChecksActive, RemoveInactive
    <3> QED BY <2>2, <2>3, <3>1, IdleStepKeepsCore
  <2> QED
    BY <1>3, <2>2, <2>3, <2>4, <2>5, InitDriverKeepsCore, RemoveDriverKeepsCore DEF Call
<1> QED BY <1>2, <1>3 DEF Next

\* While memory suffices and removes wait for what is under way, the core
\* remembers what is on the bus, and its driver the input device or, if that
\* could not be set up, none, however adds of different bus drivers overlap.
THEOREM CoreIsOnBus == Spec => []CoreMatchesBus
<1>1. TypeOK /\ BusInv => CoreMatchesBus
  BY DEF BusInv, CoreInv, Matched, CoreMatchesBus, Quiescent, AtRest
<1> QED BY <1>1, InitBus, StepBus, TypeCorrect, PTL DEF Spec

-----------------------------------------------------------------------------
(***************************************************************************)
(* The driver against the interfaces                                       *)
(***************************************************************************)

HasInterface(f) == IF f = "uniwill" THEN "uniwill_wmi" \in known ELSE active # None
HasAny == active # None \/ "uniwill_wmi" \in known

\* A driver has its interface; and where an interface has no driver yet, or none
\* any more, a thread is on the way that will set one up, or clear the interface.
FollowInv ==
  /\ known \subseteq env.present /\ active \in env.present \cup {None}
  /\ active # None => Family(active) = "clevo"
  /\ \A i \in Interfaces :
       /\ pc[i] # "unbound" => i \in env.present
       /\ pc[i] \in {"added", "init", "create", "input", "set_current", "init_exit"} =>
            HasInterface(Family(i))
       /\ Family(i) = "uniwill" /\ pc[i] \notin {"unbound", "add"} => "uniwill_wmi" \in known
  /\ current # None => HasInterface(current)
  /\ OneFamily =>
       /\ HasAny => \/ current # None
                    \/ \E i \in Interfaces :
                         pc[i] \in {"added", "init", "create", "input", "set_current", "clear"}
       /\ \A i \in Interfaces : pc[i] # "oops"

LEMMA UniwillName == \A i \in Interfaces : Family(i) = "uniwill" => i = "uniwill_wmi"
  BY DEF Family

\* The interfaces of the machine are all Clevo's or it is Uniwill's.
LEMMA OneVendor ==
  ASSUME OneFamily, FollowInv, NEW i \in Interfaces, i \in env.present, TypeOK
  PROVE  /\ Family(i) = "clevo" => "uniwill_wmi" \notin known
         /\ Family(i) = "uniwill" => active = None
<1>1. env.present \subseteq Interfaces
  BY KeyboardAssumption DEF TypeOK
<1>2. CASE Family(i) = "clevo"
  BY <1>1, <1>2 DEF OneFamily, FollowInv, Family
<1>3. CASE Family(i) = "uniwill"
  <2>1. SUFFICES ASSUME active \in env.present PROVE FALSE
    BY <1>3 DEF FollowInv
  <2> QED BY <1>1, <1>3, <2>1, NoneIsNoInterface DEF OneFamily, FollowInv
<1> QED BY <1>2, <1>3, FamilyType DEF Families

\* A step of a thread that changes neither the interfaces nor the driver, and
\* that is on the way before and after, or neither.
LEMMA StepKeepsFollow ==
  ASSUME TypeOK, FollowInv, NEW i \in Interfaces, NEW a, NEW b, Go(i, a, b),
         UNCHANGED <<known, active, current>>,
         b # "unbound", b # "oops",
         a = "unbound" => b = "add" /\ i \in env.present,
         a = "add" => b = "add",
         b \in {"added", "init", "create", "input", "set_current", "init_exit"} =>
           a \in {"added", "init", "create", "input", "set_current"},
         a \in {"added", "init", "create", "input", "set_current", "clear"} =>
           current # None \/ b \in {"added", "init", "create", "input", "set_current", "clear"}
  PROVE  FollowInv'
<1>1. \A j \in Interfaces : pc'[j] = IF j = i THEN b ELSE pc[j]
  BY DEF Go, TypeOK
<1>2. pc[i] = a /\ UNCHANGED env
  BY DEF Go
<1>3. HasInterface(Family(i))' = HasInterface(Family(i)) /\ HasAny' = HasAny
  BY DEF HasInterface, HasAny
<1> QED BY <1>1, <1>2, <1>3 DEF FollowInv, HasInterface, HasAny, OneFamily

LEMMA AddingKeepsFollow ==
  ASSUME TypeOK, FollowInv, NEW i \in Interfaces, Add(i) \/ AddChecksActive(i)
  PROVE  FollowInv'
<1>1. CASE Add(i)
  <2>1. \A j \in Interfaces : pc'[j] = IF j = i THEN "added" ELSE pc[j]
    BY <1>1 DEF Add, Go, TypeOK
  <2>2. pc[i] = "add" /\ i \in env.present /\ UNCHANGED <<env, current>>
    BY <1>1 DEF Add, Go, FollowInv, core
  <2>3. /\ known' \subseteq env.present /\ active' \in env.present \cup {None}
        /\ active' # None => Family(active') = "clevo"
    BY <1>1, <2>2 DEF Add, FollowInv, Family
  <2>4. i \in {"clevo_wmi", "clevo_acpi", "uniwill_wmi"} /\ None # "clevo_wmi" /\ None # "clevo_acpi"
    BY KeyboardAssumption DEF None
  <2>5. (active # None => active' # None) /\ ("uniwill_wmi" \in known => "uniwill_wmi" \in known')
    BY <1>1, <2>4 DEF Add
  <2>6. IF Family(i) = "uniwill" THEN "uniwill_wmi" \in known' ELSE active' # None
    BY <1>1, <2>4 DEF Add, Family
  <2>7. \A f : HasInterface(f) => HasInterface(f)'
    BY <2>5 DEF HasInterface
  <2>8. HasInterface(Family(i))'
    BY <2>6 DEF HasInterface
  <2> QED BY <2>1, <2>2, <2>3, <2>6, <2>7, <2>8, <2>5, UniwillName DEF FollowInv, OneFamily
<1>2. CASE AddChecksActive(i)
  <2>1. Go(i, "added", "init") /\ UNCHANGED <<known, active, current>>
    BY <1>2 DEF AddChecksActive, Go, FollowInv, HasInterface, core
  <2> QED BY <2>1, StepKeepsFollow
<1> QED BY <1>1, <1>2

LEMMA InitDriverKeepsFollow ==
  ASSUME TypeOK, Orderly, AloneInv, CoreInv, FollowInv, NEW i \in Interfaces,
         LockInit(i) \/ CreateBundle(i) \/ InitInput(i) \/ SetCurrent(i) \/ ExitInit(i)
  PROVE  FollowInv'
<1>1. CASE LockInit(i)
  <2>1. \A j \in Interfaces : ~Initializing(j) /\ ~Taking(j)
    BY <1>1, NoneIsNoInterface DEF LockInit, Go, TypeOK, AloneInv, AtRest, Taking
  <2>2. Matched
    BY <2>1 DEF CoreInv, Initializing, Taking
  <2>3. Usable => current # None
    BY <2>2 DEF Matched, Usable, Families, None
  <2>4. /\ IF Usable THEN Go(i, "init", "init_exit") ELSE Go(i, "init", "create")
        /\ UNCHANGED <<known, active, current>>
    BY <1>1 DEF LockInit, core
  <2> QED BY <2>3, <2>4, StepKeepsFollow
<1>2. CASE CreateBundle(i)
  <2>1. drivers = {}
    BY <1>2 DEF CreateBundle, Go, CoreInv, Empty
  <2>2. Go(i, "create", "input") /\ UNCHANGED <<known, active, current>>
    BY <1>2, <2>1 DEF CreateBundle, Orderly
  <2> QED BY <2>2, StepKeepsFollow
<1>3. CASE InitInput(i)
  <2>1. Go(i, "input", "set_current") /\ UNCHANGED <<known, active, current>>
    BY <1>3 DEF InitInput
  <2> QED BY <2>1, StepKeepsFollow
<1>4. CASE SetCurrent(i)
  <2>1. \A j \in Interfaces : pc'[j] = IF j = i THEN "init_exit" ELSE pc[j]
    BY <1>4 DEF SetCurrent, Go, TypeOK
  <2>2. /\ pc[i] = "set_current" /\ UNCHANGED <<env, known, active>>
        /\ current' = Family(i) /\ Family(i) # None
    BY <1>4, FamilyType DEF SetCurrent, Go, Families, None
  <2> QED BY <2>1, <2>2 DEF FollowInv, HasInterface, HasAny, OneFamily
<1>5. CASE ExitInit(i)
  <2>1. Go(i, "init_exit", "bound") /\ UNCHANGED <<known, active, current>>
    BY <1>5 DEF ExitInit, core
  <2> QED BY <2>1, StepKeepsFollow
<1> QED BY <1>1, <1>2, <1>3, <1>4, <1>5

LEMMA RemoveKeepsFollow ==
  ASSUME TypeOK, AloneInv, CoreInv, FollowInv, NEW i \in Interfaces,
         RemoveInactive(i) \/ RemoveActive(i) \/ ExitInput(i) \/ UnregisterDevice(i)
           \/ UnregisterDriver(i) \/ ResetCurrent(i) \/ Clear(i)
  PROVE  FollowInv'
<1>1. CASE RemoveInactive(i)
  <2>1. \A j \in Interfaces : pc'[j] = IF j = i THEN "unbound" ELSE pc[j]
    BY <1>1 DEF RemoveInactive, Go, TypeOK
  <2>2. /\ pc[i] = "remove" /\ UNCHANGED <<env, active, current>>
        /\ known' \subseteq known /\ Family(i) = "clevo"
        /\ "uniwill_wmi" \in known' <=> "uniwill_wmi" \in known
    BY <1>1 DEF RemoveInactive, Go, core, Family
  <2> QED BY <2>1, <2>2 DEF FollowInv, HasInterface, HasAny, OneFamily
<1>2. CASE RemoveActive(i)
  <2>1. i \in env.present /\ pc[i] = "remove" /\ UNCHANGED <<env, active, current>>
    BY <1>2 DEF RemoveActive, Go, FollowInv, core
  <2>2. HasAny
    BY <1>2, <2>1, NoneIsNoInterface DEF RemoveActive, FollowInv, HasAny
  <2>3. \A j \in Interfaces :
          pc[j] \notin {"added", "init", "create", "input", "set_current", "clear"}
    BY <2>1 DEF AloneInv, Taking, AtRest
  <2>4. OneFamily => current # None
    BY <2>2, <2>3 DEF FollowInv
  <2>5. \A j \in Interfaces : pc'[j] = IF j = i THEN IF current = None THEN "oops" ELSE "input_exit" ELSE pc[j]
    BY <1>2 DEF RemoveActive, Go, TypeOK
  <2>6. known' \subseteq known /\ ("uniwill_wmi" \in known' <=> "uniwill_wmi" \in known)
    BY <1>2 DEF RemoveActive, Family
  <2> QED BY <2>1, <2>4, <2>5, <2>6 DEF FollowInv, HasInterface, HasAny, OneFamily
<1>3. CASE ExitInput(i)
  <2>1. /\ Go(i, "input_exit", "device_unregister") \/ Go(i, "input_exit", "undefined")
        /\ UNCHANGED <<known, active, current>>
    BY <1>3 DEF ExitInput
  <2> QED BY <2>1, StepKeepsFollow
<1>4. CASE UnregisterDevice(i)
  <2>1. Go(i, "device_unregister", "driver_unregister") /\ UNCHANGED <<known, active, current>>
    BY <1>4 DEF UnregisterDevice
  <2> QED BY <2>1, StepKeepsFollow
<1>5. CASE UnregisterDriver(i)
  <2>1. /\ Go(i, "driver_unregister", "reset") \/ Go(i, "driver_unregister", "clear")
        /\ UNCHANGED <<known, active, current>>
    BY <1>5 DEF UnregisterDriver
  <2> QED BY <2>1, StepKeepsFollow
<1>6. CASE ResetCurrent(i)
  <2>1. \A j \in Interfaces : pc'[j] = IF j = i THEN "clear" ELSE pc[j]
    BY <1>6 DEF ResetCurrent, Go, TypeOK
  <2>2. pc[i] = "reset" /\ UNCHANGED <<env, known, active>> /\ current' = None
    BY <1>6 DEF ResetCurrent, Go
  <2> QED BY <2>1, <2>2 DEF FollowInv, HasInterface, HasAny, OneFamily
<1>7. CASE Clear(i)
  <2>1. \A j \in Interfaces : pc'[j] = IF j = i THEN "unbound" ELSE pc[j]
    BY <1>7 DEF Clear, Go, TypeOK
  <2>2. pc[i] = "clear" /\ i \in env.present /\ UNCHANGED <<env, current>> /\ current = None
    BY <1>7 DEF Clear, Go, core, CoreInv, Empty, FollowInv
  <2>3. \A j \in Interfaces : j # i => pc[j] \in {"unbound", "bound", "oops", "undefined"}
    BY <2>2 DEF AloneInv, Taking, AtRest
  <2>4. known' = known \ {i} /\ active' = IF Family(i) = "clevo" THEN None ELSE active
    BY <1>7 DEF Clear
  <2>5. Family(i) = "clevo" => i # "uniwill_wmi"
    BY DEF Family
  <2>6. OneFamily => ~HasAny'
    BY <2>2, <2>4, OneVendor, UniwillName, FamilyType DEF HasAny, Families
  <2>7. \A j \in Interfaces : j # i => (Family(j) = "uniwill" /\ "uniwill_wmi" \in known => "uniwill_wmi" \in known')
    BY <2>4, UniwillName
  <2> QED BY <2>1, <2>2, <2>3, <2>4, <2>6, <2>7 DEF FollowInv, OneFamily
<1> QED BY <1>1, <1>2, <1>3, <1>4, <1>5, <1>6, <1>7

LEMMA InitFollow == Init => FollowInv
<1> SUFFICES ASSUME Init PROVE FollowInv
  OBVIOUS
<1>1. env.present \subseteq Interfaces
  BY KeyboardAssumption DEF Init
<1> QED BY <1>1 DEF Init, FollowInv, HasAny

LEMMA StepFollow ==
  TypeOK /\ BusInv /\ (Orderly => FollowInv) /\ [Next]_vars => (Orderly => FollowInv)'
<1> SUFFICES ASSUME TypeOK, BusInv, Orderly => FollowInv, [Next]_vars, Orderly' PROVE FollowInv'
  OBVIOUS
<1>1. CASE PressKey \/ UNCHANGED vars
  <2>1. UNCHANGED <<env, known, active, current, pc>>
    BY <1>1, KeysLeaveCore DEF vars, core
  <2> QED BY <2>1 DEF FollowInv, HasInterface, HasAny, OneFamily, Orderly
<1>2. ASSUME NEW i \in Interfaces, Probe(i) \/ Unbind(i) \/ Call(i) PROVE FollowInv'
  <2>1. Orderly /\ AloneInv /\ CoreInv /\ FollowInv
    BY <1>2, CallKeepsEnv DEF BusInv, Orderly
  <2>2. CASE Probe(i)
    <3>1. Go(i, "unbound", "add") /\ i \in env.present /\ UNCHANGED <<known, active, current>>
      BY <2>2 DEF Probe, core
    <3> QED BY <2>1, <3>1, StepKeepsFollow
  <2>3. CASE Unbind(i)
    <3>1. Go(i, "bound", "remove") /\ UNCHANGED <<known, active, current>>
      BY <2>3 DEF Unbind, core
    <3> QED BY <2>1, <3>1, StepKeepsFollow
  <2>4. CASE Call(i)
    BY <2>1, <2>4, AddingKeepsFollow, InitDriverKeepsFollow, RemoveKeepsFollow DEF Call
  <2> QED BY <1>2, <2>2, <2>3, <2>4
<1> QED BY <1>1, <1>2 DEF Next

LEMMA FollowHolds == Spec => [](TypeOK /\ (Orderly => FollowInv))
<1>1. Init => (Orderly => FollowInv)
  BY InitFollow
<1> QED BY <1>1, InitBus, StepBus, StepFollow, TypeCorrect, PTL DEF Spec

\* A driver is there when an interface is active and only then, however often
\* and in whatever order the interfaces of one vendor come and go.
THEOREM DriverIsFollowing == Spec => []DriverFollowsInterface
<1>1. (Orderly => FollowInv) /\ TypeOK => DriverFollowsInterface
  <2> SUFFICES ASSUME FollowInv, TypeOK, OneFamily, Quiescent
               PROVE  current # None <=> (active # None \/ "uniwill_wmi" \in known)
    BY DEF DriverFollowsInterface
  <2>1. \A i \in Interfaces :
          pc[i] \notin {"added", "init", "create", "input", "set_current", "clear"}
    BY DEF Quiescent, AtRest
  <2> QED BY <2>1 DEF FollowInv, HasInterface, HasAny
<1> QED BY <1>1, FollowHolds, PTL

\* While memory suffices, no remove dereferences a driver that is not there.
\* (Without the condition one does: that is a finding.)
THEOREM RemoveFindsDriver == Spec => [](~env.bundleFails => NoOops)
<1>1. (Orderly => FollowInv) /\ TypeOK => (~env.bundleFails => NoOops)
  BY DEF FollowInv, NoOops, Orderly
<1> QED BY <1>1, FollowHolds, PTL

-----------------------------------------------------------------------------
(***************************************************************************)
(* The keys of a machine with one interface                                *)
(***************************************************************************)

Single == env.events = "at rest" /\ \A i, j \in env.present : i = j

\* The device of a driver's last time, which is freed, is replaced before the
\* driver is at rest again.
Good(f) == keys[f] = "registered" \/ (env.inputFails /\ keys[f] = None)

Early == {"unbound", "add", "added", "init", "create", "input"}
Late == {"set_current", "init_exit", "bound", "remove", "input_exit", "undefined"}

KeysInv ==
  /\ \A i \in env.present :
       /\ pc[i] \in Early => current = None
       /\ pc[i] \in Late => Good(Family(i))
  /\ work => "uniwill_wmi" \in env.present /\ pc["uniwill_wmi"] \in {"bound", "undefined"}
  /\ "freed" \notin reported /\ (~env.inputFails => None \notin reported)

\* What the lemmas of this section assume of the one interface i.
CoreState == TypeOK /\ Orderly /\ AloneInv /\ CoreInv /\ FollowInv /\ Single /\ KeysInv

LEMMA PresentTypes == TypeOK => env.present \subseteq Interfaces /\ env.inputFails \in BOOLEAN
  BY KeyboardAssumption DEF TypeOK

LEMMA SingleFamily == CoreState => OneFamily
  BY DEF CoreState, Single, OneFamily

\* The driver is that of the interface.
LEMMA CurrentIsMine ==
  ASSUME CoreState, NEW i \in env.present, current # None PROVE current = Family(i)
<1>1. HasInterface(current) /\ current \in Families
  BY DEF CoreState, FollowInv, TypeOK
<1>2. CASE current = "uniwill"
  BY <1>1, <1>2 DEF HasInterface, CoreState, FollowInv, Single, Family
<1>3. CASE current = "clevo"
  BY <1>1, <1>3 DEF HasInterface, CoreState, FollowInv, Single
<1> QED BY <1>1, <1>2, <1>3 DEF Families

\* The keyboard notifier, the work it queues and the events of the bus.
LEMMA PressKeepsKeys == ASSUME CoreState, PressKey PROVE KeysInv'
<1>0. UNCHANGED <<env, current, keys, pc>> /\ env.present \subseteq Interfaces
  BY KeysLeaveCore, PresentTypes DEF core, CoreState
<1>1. ASSUME NEW i \in Interfaces, ControlCenterKey(i) \/ MappedKey(i) PROVE KeysInv'
  <2>1. Quiescent /\ Bound(i)
    BY <1>1 DEF ControlCenterKey, MappedKey, MayPress, CoreState, Single
  <2>2. pc[i] = "bound" /\ i \in env.present
    BY <2>1 DEF Quiescent, AtRest, Bound, CoreState, FollowInv
  <2>3. Good(Family(i))
    BY <2>2 DEF CoreState, KeysInv, Late
  <2>4. reported' = reported \cup {keys[Family(i)]} /\ work' = work
    <3>1. CASE ControlCenterKey(i)
      BY <3>1 DEF ControlCenterKey, Report
    <3>2. CASE MappedKey(i)
      <4>1. Family(i) # "uniwill" => current = Family(i)
        BY <2>2, <3>2, CurrentIsMine DEF MappedKey
      <4> QED BY <3>2, <4>1 DEF MappedKey, Report
    <3> QED BY <1>1, <3>1, <3>2
  <2> QED BY <1>0, <2>3, <2>4 DEF CoreState, KeysInv, Good, None
<1>2. ASSUME NEW key \in {"zenkaku", "ctrl", "meta"}, KeyUp(key) PROVE KeysInv'
  <2>1. Quiescent /\ device = "uniwill"
    BY <1>2 DEF KeyUp, MayPress, CoreState, Single
  <2>2. current = "uniwill"
    BY <2>1 DEF CoreState, CoreInv, Matched, Quiescent, AtRest
  <2>3. "uniwill_wmi" \in env.present
    BY <2>2 DEF CoreState, FollowInv, HasInterface, None
  <2>4. pc["uniwill_wmi"] \in {"bound", "undefined"}
    BY <1>0, <2>1, <2>2, <2>3, SingleFamily DEF Quiescent, AtRest, CoreState, FollowInv, KeysInv, Early, None
  <2> QED BY <1>0, <1>2, <2>3, <2>4 DEF KeyUp, CoreState, KeysInv, Good
<1>3. CASE RunWork
  <2>1. Good("uniwill")
    BY <1>3 DEF RunWork, CoreState, KeysInv, Late, Family
  <2> QED BY <1>0, <1>3, <2>1 DEF RunWork, Report, CoreState, KeysInv, Good, None
<1> QED BY <1>1, <1>2, <1>3 DEF PressKey

\* A step that changes neither the driver nor the references to its device.
LEMMA StepKeepsKeys ==
  ASSUME CoreState, NEW i \in env.present, NEW a, NEW b, Go(i, a, b),
         UNCHANGED <<current, keys>>,
         b \in Early => a \in Early \/ current = None,
         b \in Late => a \in Late,
         a \in {"bound", "undefined"} => ~work
  PROVE  KeysInv'
<1>1. env.present \subseteq Interfaces /\ \A j \in env.present : j = i
  BY PresentTypes DEF CoreState, Single
<1>2. pc[i] = a /\ pc'[i] = b /\ UNCHANGED <<env, work, reported>>
  BY <1>1 DEF Go, events, CoreState, TypeOK
<1> QED BY <1>1, <1>2 DEF CoreState, KeysInv, Good

LEMMA CallKeepsKeys ==
  ASSUME CoreState, NEW i \in Interfaces, Probe(i) \/ Unbind(i) \/ Call(i) PROVE KeysInv'
<1>0. i \in env.present
  <2>1. CASE Probe(i)
    BY <2>1 DEF Probe
  <2>2. CASE ~Probe(i)
    <3>1. pc[i] # "unbound"
      BY <2>2, CallsBegin DEF Call, Add, AddChecksActive, LockInit, CreateBundle, InitInput, SetCurrent,
         ExitInit, RemoveInactive, RemoveActive, ExitInput, UnregisterDevice, UnregisterDriver,
         ResetCurrent, Clear, Go, Unbind
    <3> QED BY <3>1 DEF CoreState, FollowInv
  <2> QED BY <2>1, <2>2
<1>1. env.present \subseteq Interfaces /\ \A j \in env.present : j = i
  BY <1>0, PresentTypes DEF CoreState, Single
<1>2. i = "uniwill_wmi" => (work => pc[i] \in {"bound", "undefined"})
  BY DEF CoreState, KeysInv
<1> USE DEF Early, Late
<1>3. CASE Probe(i) \/ Unbind(i)
  <2>1. CASE Probe(i)
    <3>1. Go(i, "unbound", "add") /\ UNCHANGED <<current, keys>>
      BY <2>1 DEF Probe, core
    <3> QED BY <1>0, <3>1, StepKeepsKeys
  <2>2. CASE Unbind(i)
    <3>1. Go(i, "bound", "remove") /\ UNCHANGED <<current, keys>> /\ ~work
      BY <2>2 DEF Unbind, core, CoreState, Single
    <3> QED BY <1>0, <3>1, StepKeepsKeys
  <2> QED BY <1>3, <2>1, <2>2
<1>4. CASE Add(i)
  <2>1. Go(i, "add", "added") /\ UNCHANGED <<current, keys>>
    BY <1>4 DEF Add, core
  <2> QED BY <1>0, <2>1, StepKeepsKeys
<1>5. CASE AddChecksActive(i)
  <2>1. Go(i, "added", "init") /\ UNCHANGED <<current, keys>>
    BY <1>5 DEF AddChecksActive, Go, CoreState, FollowInv, HasInterface, core
  <2> QED BY <1>0, <2>1, StepKeepsKeys
<1>6. CASE LockInit(i)
  <2>1. current = None
    BY <1>0, <1>6 DEF LockInit, Go, CoreState, KeysInv
  <2>2. \A j \in Interfaces : ~Initializing(j) /\ ~Taking(j)
    BY <1>6, NoneIsNoInterface DEF LockInit, Go, CoreState, TypeOK, AloneInv, AtRest, Taking
  <2>3. ~Usable
    BY <2>1, <2>2 DEF CoreState, CoreInv, Matched, Initializing, Taking, Usable, Families, None
  <2>4. Go(i, "init", "create") /\ UNCHANGED <<current, keys>>
    BY <1>6, <2>3 DEF LockInit, core
  <2> QED BY <1>0, <2>4, StepKeepsKeys
<1>7. CASE CreateBundle(i)
  <2>1. drivers = {}
    BY <1>7 DEF CreateBundle, Go, CoreState, CoreInv, Empty
  <2>2. Go(i, "create", "input") /\ UNCHANGED <<current, keys>>
    BY <1>7, <2>1 DEF CreateBundle, Orderly, CoreState
  <2> QED BY <1>0, <2>2, StepKeepsKeys
<1>8. CASE InitInput(i)
  <2>1. pc[i] = "input" /\ pc'[i] = "set_current" /\ UNCHANGED <<env, work, reported>>
    BY <1>8 DEF InitInput, Go, events, CoreState, TypeOK
  <2>2. Good(Family(i))'
    BY <1>8, <2>1, FamilyType DEF InitInput, Good, CoreState, TypeOK
  <2> QED BY <1>0, <1>1, <2>1, <2>2 DEF CoreState, KeysInv
<1>9. CASE SetCurrent(i)
  <2>1. /\ pc[i] = "set_current" /\ pc'[i] = "init_exit"
        /\ UNCHANGED <<env, work, reported, keys>>
    BY <1>9 DEF SetCurrent, Go, events, CoreState, TypeOK
  <2> QED BY <1>0, <1>1, <2>1 DEF CoreState, KeysInv, Good
<1>10. CASE ExitInit(i)
  <2>1. Go(i, "init_exit", "bound") /\ UNCHANGED <<current, keys>>
    BY <1>10 DEF ExitInit, core
  <2> QED BY <1>0, <2>1, StepKeepsKeys
<1>11. CASE RemoveInactive(i)
  <2>1. current = None
    <3>1. Family(i) = "clevo" /\ active = None
      BY <1>11, <1>1 DEF RemoveInactive, CoreState, FollowInv
    <3> QED BY <1>0, <3>1, CurrentIsMine DEF CoreState, FollowInv, HasInterface
  <2>2. Go(i, "remove", "unbound") /\ UNCHANGED <<current, keys>>
    BY <1>11 DEF RemoveInactive, core
  <2> QED BY <1>0, <2>1, <2>2, StepKeepsKeys
<1>12. CASE RemoveActive(i)
  <2>1. /\ Go(i, "remove", "input_exit") \/ Go(i, "remove", "oops")
        /\ UNCHANGED <<current, keys>>
    BY <1>12 DEF RemoveActive, core
  <2> QED BY <1>0, <2>1, StepKeepsKeys
<1>13. CASE ExitInput(i)
  <2>1. /\ pc[i] = "input_exit" /\ pc'[i] \in {"device_unregister", "undefined"}
        /\ pc'[i] = "undefined" => UNCHANGED keys
        /\ UNCHANGED <<env, work, reported, current>>
    BY <1>13 DEF ExitInput, Go, events, CoreState, TypeOK
  <2> QED BY <1>0, <1>1, <2>1 DEF CoreState, KeysInv, Good
<1>14. CASE UnregisterDevice(i)
  <2>1. Go(i, "device_unregister", "driver_unregister") /\ UNCHANGED <<current, keys>>
    BY <1>14 DEF UnregisterDevice
  <2> QED BY <1>0, <2>1, StepKeepsKeys
<1>15. CASE UnregisterDriver(i)
  <2>1. /\ Go(i, "driver_unregister", "reset") \/ Go(i, "driver_unregister", "clear")
        /\ UNCHANGED <<current, keys>>
    BY <1>15 DEF UnregisterDriver
  <2> QED BY <1>0, <2>1, StepKeepsKeys
<1>16. CASE ResetCurrent(i)
  <2>1. /\ pc[i] = "reset" /\ pc'[i] = "clear"
        /\ UNCHANGED <<env, work, reported>>
    BY <1>16 DEF ResetCurrent, Go, events, CoreState, TypeOK
  <2> QED BY <1>0, <1>1, <2>1 DEF CoreState, KeysInv
<1>17. CASE Clear(i)
  <2>1. Go(i, "clear", "unbound") /\ UNCHANGED <<current, keys>> /\ current = None
    BY <1>17 DEF Clear, Go, CoreState, CoreInv, Empty, core
  <2> QED BY <1>0, <2>1, StepKeepsKeys
<1> QED
  BY <1>3, <1>4, <1>5, <1>6, <1>7, <1>8, <1>9, <1>10, <1>11, <1>12, <1>13, <1>14, <1>15, <1>16, <1>17
  DEF Call

LEMMA StepKeys ==
  /\ TypeOK /\ BusInv /\ (Orderly => FollowInv) /\ (Orderly /\ Single => KeysInv) /\ [Next]_vars
  => (Orderly /\ Single => KeysInv)'
<1> SUFFICES ASSUME TypeOK, BusInv, Orderly => FollowInv, Orderly /\ Single => KeysInv, [Next]_vars,
                    Orderly', Single'
             PROVE  KeysInv'
  OBVIOUS
<1>1. UNCHANGED env
  BY CallKeepsEnv, KeysLeaveCore DEF Next, vars
<1>2. CoreState
  BY <1>1 DEF CoreState, BusInv, Orderly, Single
<1>3. CASE UNCHANGED vars
  BY <1>2, <1>3 DEF vars, core, events, CoreState, KeysInv, Good
<1> QED BY <1>2, <1>3, PressKeepsKeys, CallKeepsKeys DEF Next

\* On a machine with one interface no key pressed while the drivers are at rest
\* is reported to a device that was freed, however often they came and went.
THEOREM KeysAreReported == Spec => []KeysReachDevice
<1>1. Init => (Orderly /\ Single => KeysInv)
  BY InitType, PresentTypes DEF Init, KeysInv, Early, Late
<1>2. Init => (Orderly => FollowInv)
  BY InitFollow
<1>3. (Orderly /\ Single => KeysInv) => KeysReachDevice
  BY DEF Single, KeysInv, KeysReachDevice
<1> QED
  BY <1>1, <1>2, <1>3, InitBus, StepBus, StepFollow, StepKeys, TypeCorrect, PTL DEF Spec

=============================================================================
