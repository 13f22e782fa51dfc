--------------------- MODULE UniwillBootAnimation_proofs ---------------------
(***************************************************************************)
(* Theorems about UniwillBootAnimation, for any colours, any count of      *)
(* checks and any number of probes: types, the ring index among them; that *)
(* the checks end; and that a remove beside no check leaves none behind.   *)
(***************************************************************************)
EXTENDS UniwillBootAnimation, TLAPS

\* TypeOK in parts: the registers, the ring of colours, the counts, the flags,
\* the calls in progress, and the steps.
EcType == env \in Environments /\ color \in EcColors /\ max \in {200, 255}
RingType == prev \in [Slots -> EcColors \cup NonColors \cup {Garbage}] /\ index \in Slots
CountType == check_count \in Int /\ probes \in 0 .. Probes
FlagsType ==
  /\ animating \in BOOLEAN /\ lit \in BOOLEAN /\ timer \in BOOLEAN /\ queued \in BOOLEAN
  /\ rgb \in BOOLEAN /\ initialized \in BOOLEAN /\ registered \in BOOLEAN
  /\ done \in BOOLEAN /\ animated \in BOOLEAN
CallType ==
  /\ own \in EcColors /\ storing \in Colors \cup {NoColor}
  /\ restore \in [Restorers -> {"no", "read", "reset", "paint"}]
  /\ status \in [Restorers -> BOOLEAN]
  /\ painting \in [Restorers -> EcColors]
  /\ pm \in {"awake", "suspending", "waking", "resuming"}
StepType == work \in WorkSteps /\ driver \in DriverSteps

LEMMA TypeParts == TypeOK <=> EcType /\ RingType /\ CountType /\ FlagsType /\ CallType /\ StepType
  BY DEF TypeOK, EcType, RingType, CountType, FlagsType, CallType, StepType

LEMMA InitType == Init => TypeOK
<1> SUFFICES ASSUME Init PROVE TypeOK
  OBVIOUS
<1>1. EcType
  BY DEF Init, EcType, EcColors
<1>2. RingType
  BY DEF Init, RingType, Slots, NonColors
<1>3. CountType
  BY AnimationAssumption DEF Init, CountType
<1>4. FlagsType
  BY DEF Init, FlagsType
<1>5. CallType
  BY DEF Init, CallType, EcColors
<1>6. StepType
  BY DEF Init, StepType, WorkSteps, DriverSteps
<1> QED BY <1>1, <1>2, <1>3, <1>4, <1>5, <1>6, TypeParts

LEMMA RestoringType == ASSUME TypeOK, NEW c \in Restorers, Restoring(c) PROVE TypeOK'
<1>0. EcType /\ RingType /\ CountType /\ FlagsType /\ CallType /\ StepType
  BY TypeParts
<1> EcType' /\ RingType' /\ CountType' /\ FlagsType' /\ CallType' /\ StepType' => TypeOK'
  BY DEF TypeOK, EcType, RingType, CountType, FlagsType, CallType, StepType
<1> USE DEF ec, checks, leds, restores, calls, history
<1>1. CASE RestoreRead(c)
  <2>1. EcType'
    BY <1>0, <1>1 DEF RestoreRead, EcType
  <2>2. RingType'
    BY <1>0, <1>1 DEF RestoreRead, RingType
  <2>3. CountType'
    BY <1>0, <1>1 DEF RestoreRead, CountType
  <2>4. FlagsType'
    BY <1>0, <1>1 DEF RestoreRead, FlagsType
  <2>5. CallType'
    BY <1>0, <1>1 DEF RestoreRead, CallType, FlagsType
  <2>6. StepType'
    BY <1>0, <1>1 DEF RestoreRead, StepType
  <2> QED BY <2>1, <2>2, <2>3, <2>4, <2>5, <2>6
<1>2. CASE RestoreReset(c)
  <2>1. EcType'
    BY <1>0, <1>2 DEF RestoreReset, EcType
  <2>2. RingType'
    BY <1>0, <1>2 DEF RestoreReset, RingType
  <2>3. CountType'
    BY <1>0, <1>2 DEF RestoreReset, CountType
  <2>4. FlagsType'
    BY <1>0, <1>2 DEF RestoreReset, FlagsType, Write, CallType
  <2>5. CallType'
    BY <1>0, <1>2 DEF RestoreReset, CallType
  <2>6. StepType'
    BY <1>0, <1>2 DEF RestoreReset, StepType
  <2> QED BY <2>1, <2>2, <2>3, <2>4, <2>5, <2>6
<1>3. CASE RestorePaint(c)
  <2>1. EcType'
    BY <1>0, <1>3 DEF RestorePaint, EcType, WriteColor, CallType, EcColors
  <2>2. RingType'
    BY <1>0, <1>3 DEF RestorePaint, RingType
  <2>3. CountType'
    BY <1>0, <1>3 DEF RestorePaint, CountType
  <2>4. FlagsType'
    BY <1>0, <1>3 DEF RestorePaint, FlagsType
  <2>5. CallType'
    BY <1>0, <1>3 DEF RestorePaint, CallType, EcColors
  <2>6. StepType'
    BY <1>0, <1>3 DEF RestorePaint, StepType
  <2> QED BY <2>1, <2>2, <2>3, <2>4, <2>5, <2>6
<1> QED BY <1>1, <1>2, <1>3 DEF Restoring

LEMMA LedsRemoveType ==
  ASSUME TypeOK, NEW caller \in {"work", "driver"}, LedsRemove(caller) PROVE TypeOK'
<1>0. EcType /\ RingType /\ CountType /\ FlagsType /\ CallType /\ StepType
  BY TypeParts
<1> EcType' /\ RingType' /\ CountType' /\ FlagsType' /\ CallType' /\ StepType' => TypeOK'
  BY DEF TypeOK, EcType, RingType, CountType, FlagsType, CallType, StepType
<1> USE DEF ec, checks, leds, restores, calls, history
<1>1. CASE RemoveLeds(caller)
  <2>1. EcType'
    BY <1>0, <1>1 DEF RemoveLeds, EcType, Write
  <2>2. RingType'
    BY <1>0, <1>1 DEF RemoveLeds, RingType
  <2>3. CountType'
    BY <1>0, <1>1 DEF RemoveLeds, CountType
  <2>4. FlagsType'
    BY <1>0, <1>1 DEF RemoveLeds, FlagsType
  <2>5. CallType'
    BY <1>0, <1>1 DEF RemoveLeds, CallType
  <2>6. StepType'
    BY <1>0, <1>1 DEF RemoveLeds, StepType, Goto, WorkSteps, DriverSteps
  <2> QED BY <2>1, <2>2, <2>3, <2>4, <2>5, <2>6
<1>2. CASE SwitchOff(caller)
  <2>1. EcType'
    BY <1>0, <1>2 DEF SwitchOff, EcType, WriteColor, EcColors
  <2>2. RingType'
    BY <1>0, <1>2 DEF SwitchOff, RingType
  <2>3. CountType'
    BY <1>0, <1>2 DEF SwitchOff, CountType
  <2>4. FlagsType'
    BY <1>0, <1>2 DEF SwitchOff, FlagsType
  <2>5. CallType'
    BY <1>0, <1>2 DEF SwitchOff, CallType, EcColors
  <2>6. StepType'
    BY <1>0, <1>2 DEF SwitchOff, StepType, Goto, WorkSteps, DriverSteps
  <2> QED BY <2>1, <2>2, <2>3, <2>4, <2>5, <2>6
<1>3. CASE Unregister(caller)
  <2>1. EcType'
    BY <1>0, <1>3 DEF Unregister, EcType
  <2>2. RingType'
    BY <1>0, <1>3 DEF Unregister, RingType
  <2>3. CountType'
    BY <1>0, <1>3 DEF Unregister, CountType
  <2>4. FlagsType'
    BY <1>0, <1>3 DEF Unregister, FlagsType
  <2>5. CallType'
    BY <1>0, <1>3 DEF Unregister, CallType
  <2>6. StepType'
    BY <1>0, <1>3 DEF Unregister, StepType, Goto, WorkSteps, DriverSteps
  <2> QED BY <2>1, <2>2, <2>3, <2>4, <2>5, <2>6
<1> QED BY <1>1, <1>2, <1>3 DEF LedsRemove

LEMMA CallsType == TypeOK /\ Calls => TypeOK'
<1> SUFFICES ASSUME TypeOK, Calls PROVE TypeOK'
  OBVIOUS
<1>0. EcType /\ RingType /\ CountType /\ FlagsType /\ CallType /\ StepType
  BY TypeParts
<1> EcType' /\ RingType' /\ CountType' /\ FlagsType' /\ CallType' /\ StepType' => TypeOK'
  BY DEF TypeOK, EcType, RingType, CountType, FlagsType, CallType, StepType
<1> USE DEF ec, checks, leds, restores, calls, history
<1>1. CASE (\E c \in Colors : Store(c)) \/ StoreWrites
  <2>1. EcType'
    BY <1>0, <1>1 DEF Store, StoreWrites, EcType, WriteColor, EcColors, CallType
  <2>2. RingType'
    BY <1>0, <1>1 DEF Store, StoreWrites, RingType
  <2>3. CountType'
    BY <1>0, <1>1 DEF Store, StoreWrites, CountType
  <2>4. FlagsType'
    BY <1>0, <1>1 DEF Store, StoreWrites, FlagsType
  <2>5. CallType'
    BY <1>0, <1>1 DEF Store, StoreWrites, CallType, EcColors
  <2>6. StepType'
    BY <1>0, <1>1 DEF Store, StoreWrites, StepType
  <2> QED BY <2>1, <2>2, <2>3, <2>4, <2>5, <2>6
<1>2. CASE AdapterEvent
  <2>1. EcType'
    BY <1>0, <1>2 DEF AdapterEvent, EcType, EcColors
  <2>2. RingType'
    BY <1>0, <1>2 DEF AdapterEvent, RingType
  <2>3. CountType'
    BY <1>0, <1>2 DEF AdapterEvent, CountType
  <2>4. FlagsType'
    BY <1>0, <1>2 DEF AdapterEvent, FlagsType
  <2>5. CallType'
    BY <1>0, <1>2 DEF AdapterEvent, CallType, StartRestore
  <2>6. StepType'
    BY <1>0, <1>2 DEF AdapterEvent, StepType
  <2> QED BY <2>1, <2>2, <2>3, <2>4, <2>5, <2>6
<1>3. CASE Suspend \/ Sleep \/ ResumeEnables
  <2>1. EcType'
    <3>1. CASE Suspend
      BY <1>0, <3>1 DEF Suspend, EcType
    <3>2. CASE Sleep
      BY <1>0, <3>2 DEF Sleep, EcType, EcColors
    <3>3. CASE ResumeEnables
      BY <1>0, <3>3 DEF ResumeEnables, EcType
    <3> QED BY <1>3, <3>1, <3>2, <3>3
  <2>2. RingType'
    BY <1>0, <1>3 DEF Suspend, Sleep, ResumeEnables, RingType
  <2>3. CountType'
    BY <1>0, <1>3 DEF Suspend, Sleep, ResumeEnables, CountType
  <2>4. FlagsType'
    BY <1>0, <1>3 DEF Suspend, Sleep, ResumeEnables, FlagsType, Write
  <2>5. CallType'
    BY <1>0, <1>3 DEF Suspend, Sleep, ResumeEnables, CallType
  <2>6. StepType'
    BY <1>0, <1>3 DEF Suspend, Sleep, ResumeEnables, StepType
  <2> QED BY <2>1, <2>2, <2>3, <2>4, <2>5, <2>6
<1>4. CASE Resume
  <2>1. EcType'
    BY <1>0, <1>4 DEF Resume, EcType
  <2>2. RingType'
    BY <1>0, <1>4 DEF Resume, RingType
  <2>3. CountType'
    BY <1>0, <1>4 DEF Resume, CountType
  <2>4. FlagsType'
    BY <1>0, <1>4 DEF Resume, FlagsType
  <2>5. CallType'
    BY <1>0, <1>4 DEF Resume, CallType, StartRestore
  <2>6. StepType'
    BY <1>0, <1>4 DEF Resume, StepType
  <2> QED BY <2>1, <2>2, <2>3, <2>4, <2>5, <2>6
<1>5. ASSUME NEW c \in Restorers, Restoring(c) PROVE TypeOK'
  BY <1>5, RestoringType
<1> QED
  BY <1>1, <1>2, <1>3, <1>4, <1>5 DEF Calls, Restorers

LEMMA NextType == TypeOK /\ [Next]_vars => TypeOK'
<1> SUFFICES ASSUME TypeOK, [Next]_vars PROVE TypeOK'
  OBVIOUS
<1>0. EcType /\ RingType /\ CountType /\ FlagsType /\ CallType /\ StepType
  BY TypeParts
<1> EcType' /\ RingType' /\ CountType' /\ FlagsType' /\ CallType' /\ StepType' => TypeOK'
  BY DEF TypeOK, EcType, RingType, CountType, FlagsType, CallType, StepType
<1> USE DEF ec, checks, leds, restores, calls, history
<1>1. CASE Animate \/ EndAnimation \/ TimerExpires \/ WorkStarts
  <2>1. EcType'
    BY <1>0, <1>1 DEF Animate, EndAnimation, TimerExpires, WorkStarts, EcType, EcColors
  <2>2. RingType'
    BY <1>0, <1>1 DEF Animate, EndAnimation, TimerExpires, WorkStarts, RingType
  <2>3. CountType'
    BY <1>0, <1>1 DEF Animate, EndAnimation, TimerExpires, WorkStarts, CountType
  <2>4. FlagsType'
    BY <1>0, <1>1 DEF Animate, EndAnimation, TimerExpires, WorkStarts, FlagsType
  <2>5. CallType'
    BY <1>0, <1>1 DEF Animate, EndAnimation, TimerExpires, WorkStarts, CallType
  <2>6. StepType'
    BY <1>0, <1>1 DEF Animate, EndAnimation, TimerExpires, WorkStarts, StepType, WorkSteps
  <2> QED BY <2>1, <2>2, <2>3, <2>4, <2>5, <2>6
<1>2. CASE ReadColor
  <2>1. EcType'
    BY <1>0, <1>2 DEF ReadColor, EcType
  <2>2. RingType'
    BY <1>0, <1>2 DEF ReadColor, RingType, EcType, Slots
  <2>3. CountType'
    BY <1>0, <1>2 DEF ReadColor, CountType
  <2>4. FlagsType'
    BY <1>0, <1>2 DEF ReadColor, FlagsType
  <2>5. CallType'
    BY <1>0, <1>2 DEF ReadColor, CallType
  <2>6. StepType'
    BY <1>0, <1>2 DEF ReadColor, StepType, WorkSteps
  <2> QED BY <2>1, <2>2, <2>3, <2>4, <2>5, <2>6
<1>3. CASE Compare \/ ArmAgain
  <2>1. EcType'
    BY <1>0, <1>3 DEF Compare, ArmAgain, EcType
  <2>2. RingType'
    BY <1>0, <1>3 DEF Compare, ArmAgain, RingType
  <2>3. CountType'
    BY <1>0, <1>3 DEF Compare, ArmAgain, CountType
  <2>4. FlagsType'
    BY <1>0, <1>3 DEF Compare, ArmAgain, FlagsType
  <2>5. CallType'
    BY <1>0, <1>3 DEF Compare, ArmAgain, CallType
  <2>6. StepType'
    BY <1>0, <1>3 DEF Compare, ArmAgain, StepType, WorkSteps
  <2> QED BY <2>1, <2>2, <2>3, <2>4, <2>5, <2>6
<1>4. CASE InitLate \/ Restore
  <2>1. EcType'
    BY <1>0, <1>4 DEF InitLate, Restore, EcType
  <2>2. RingType'
    BY <1>0, <1>4 DEF InitLate, Restore, RingType
  <2>3. CountType'
    BY <1>0, <1>4 DEF InitLate, Restore, CountType
  <2>4. FlagsType'
    BY <1>0, <1>4 DEF InitLate, Restore, FlagsType
  <2>5. CallType'
    BY <1>0, <1>4 DEF InitLate, Restore, CallType, StartRestore
  <2>6. StepType'
    BY <1>0, <1>4 DEF InitLate, Restore, StepType, WorkSteps
  <2> QED BY <2>1, <2>2, <2>3, <2>4, <2>5, <2>6
<1>5. CASE EnableLate
  <2>1. EcType'
    BY <1>0, <1>5 DEF EnableLate, EcType
  <2>2. RingType'
    BY <1>0, <1>5 DEF EnableLate, RingType
  <2>3. CountType'
    BY <1>0, <1>5 DEF EnableLate, CountType
  <2>4. FlagsType'
    BY <1>0, <1>5 DEF EnableLate, FlagsType, Write
  <2>5. CallType'
    BY <1>0, <1>5 DEF EnableLate, CallType
  <2>6. StepType'
    BY <1>0, <1>5 DEF EnableLate, StepType, WorkSteps
  <2> QED BY <2>1, <2>2, <2>3, <2>4, <2>5, <2>6
<1>6. CASE Probe
  <2>1. EcType'
    BY <1>0, <1>6 DEF Probe, EcType
  <2>2. RingType'
    BY <1>0, <1>6 DEF Probe, RingType
  <2>3. CountType'
    BY <1>0, <1>6, AnimationAssumption DEF Probe, CountType
  <2>4. FlagsType'
    BY <1>0, <1>6 DEF Probe, FlagsType, Write
  <2>5. CallType'
    BY <1>0, <1>6 DEF Probe, CallType
  <2>6. StepType'
    BY <1>0, <1>6 DEF Probe, StepType, DriverSteps
  <2> QED BY <2>1, <2>2, <2>3, <2>4, <2>5, <2>6
<1>7. CASE RemoveStarts \/ RemoveDisables \/ RemoveTimer
  <2>1. EcType'
    <3>1. CASE RemoveStarts \/ RemoveTimer
      BY <1>0, <3>1 DEF RemoveStarts, RemoveTimer, EcType
    <3>2. CASE RemoveDisables
      BY <1>0, <3>2 DEF RemoveDisables, EcType
    <3> QED BY <1>7, <3>1, <3>2
  <2>2. RingType'
    BY <1>0, <1>7 DEF RemoveStarts, RemoveDisables, RemoveTimer, RingType
  <2>3. CountType'
    BY <1>0, <1>7 DEF RemoveStarts, RemoveDisables, RemoveTimer, CountType
  <2>4. FlagsType'
    BY <1>0, <1>7 DEF RemoveStarts, RemoveDisables, RemoveTimer, FlagsType, Write
  <2>5. CallType'
    BY <1>0, <1>7 DEF RemoveStarts, RemoveDisables, RemoveTimer, CallType
  <2>6. StepType'
    BY <1>0, <1>7 DEF RemoveStarts, RemoveDisables, RemoveTimer, StepType, DriverSteps
  <2> QED BY <2>1, <2>2, <2>3, <2>4, <2>5, <2>6
<1>8. ASSUME NEW caller \in {"work", "driver"}, LedsRemove(caller) PROVE TypeOK'
  BY <1>8, LedsRemoveType
<1>9. CASE Restoring("work")
  BY <1>9, RestoringType DEF Restorers
<1>10. CASE Calls
  BY <1>10, CallsType
<1>11. CASE UNCHANGED vars
  BY <1>11 DEF vars, TypeOK
<1> QED
  BY <1>1, <1>2, <1>3, <1>4, <1>5, <1>6, <1>7, <1>8, <1>9, <1>10, <1>11
  DEF Next, Work, Remove

\* Type correctness; the index stays within the ring of three colours.
THEOREM TypeCorrect == FairSpec => []TypeOK
  BY InitType, NextType, PTL DEF FairSpec, Spec

-----------------------------------------------------------------------------
\* Calls, and the restore of the work item, change nothing the checks and remove
\* go by.
LEMMA CallsKeepChecks ==
  Calls \/ (\E c \in Restorers : Restoring(c)) =>
    UNCHANGED <<env, timer, queued, work, checks, driver, probes>>
<1> USE DEF ec, checks, leds, restores, calls, history
<1>1. ASSUME NEW c \in Restorers, Restoring(c)
      PROVE UNCHANGED <<env, timer, queued, work, checks, driver, probes>>
  BY <1>1 DEF Restoring, RestoreRead, RestoreReset, RestorePaint
<1>2. CASE (\E c \in Colors : Store(c)) \/ StoreWrites
  BY <1>2 DEF Store, StoreWrites
<1>3. CASE AdapterEvent \/ Suspend \/ Sleep
  BY <1>3 DEF AdapterEvent, Suspend, Sleep
<1>4. CASE Resume \/ ResumeEnables
  BY <1>4 DEF Resume, ResumeEnables
<1> QED BY <1>1, <1>2, <1>3, <1>4 DEF Calls, Restorers

\* Removing the LED moves its caller on, and no other.
Removing == {"leds_remove", "switch_off", "unregister"}

LEMMA LedsRemoveMoves ==
  /\ LedsRemove("work") =>
       /\ work \in Removing /\ work' \in Removing \cup {"enable"}
       /\ UNCHANGED <<env, timer, queued, checks, driver, probes>>
  /\ LedsRemove("driver") =>
       /\ driver \in Removing /\ driver' \in Removing \cup {"enable"}
       /\ UNCHANGED <<env, timer, queued, checks, work, probes>>
<1> USE DEF LedsRemove, At, Goto, Removing, ec, checks, leds, restores, calls, history
<1>1. ASSUME NEW caller \in {"work", "driver"}, RemoveLeds(caller)
      PROVE At(caller, "leds_remove") /\ (Goto(caller, "switch_off") \/ Goto(caller, "enable"))
            /\ UNCHANGED <<env, timer, queued, checks, probes>>
  BY <1>1 DEF RemoveLeds
<1>2. ASSUME NEW caller \in {"work", "driver"}, SwitchOff(caller)
      PROVE At(caller, "switch_off") /\ Goto(caller, "unregister")
            /\ UNCHANGED <<env, timer, queued, checks, probes>>
  BY <1>2 DEF SwitchOff
<1>3. ASSUME NEW caller \in {"work", "driver"}, Unregister(caller)
      PROVE At(caller, "unregister") /\ Goto(caller, "enable")
            /\ UNCHANGED <<env, timer, queued, checks, probes>>
  BY <1>3 DEF Unregister
<1> QED BY <1>1, <1>2, <1>3

\* While there has been one probe the check is in one place, the timer, the queue
\* or the work item, and it goes on only with a count left; so the count ends
\* at -1, after the check that found it 0.
BoundInv ==
  /\ probes = 0 => ~Pending /\ check_count >= 0
  /\ probes <= 1 =>
       /\ ~(timer /\ queued)
       /\ timer \/ queued => work = "idle"
       /\ Pending => check_count >= 0
       /\ work = "again" => check_count >= 1
       /\ check_count >= -1

LEMMA InitBound == Init => BoundInv
  BY AnimationAssumption DEF Init, BoundInv, Pending

LEMMA NextBound == TypeOK /\ BoundInv /\ [Next]_vars => BoundInv'
<1> SUFFICES ASSUME TypeOK, BoundInv, [Next]_vars PROVE BoundInv'
  OBVIOUS
<1>0. CountType /\ FlagsType /\ StepType
  BY TypeParts
<1> USE <1>0 DEF CountType, FlagsType, StepType, WorkSteps, BoundInv, Pending, ec, checks, leds, history
<1>1. CASE Animate \/ EndAnimation \/ TimerExpires \/ WorkStarts
  BY <1>1 DEF Animate, EndAnimation, TimerExpires, WorkStarts
<1>2. CASE ReadColor
  BY <1>2 DEF ReadColor
<1>3. CASE Compare \/ ArmAgain
  BY <1>3 DEF Compare, ArmAgain
<1>4. CASE InitLate \/ Restore
  BY <1>4 DEF InitLate, Restore
<1>5. CASE EnableLate
  BY <1>5 DEF EnableLate
<1>6. CASE Probe
  BY <1>6 DEF Probe
<1>7. CASE RemoveStarts
  BY <1>7 DEF RemoveStarts
<1>8. CASE LedsRemove("work") \/ LedsRemove("driver")
  BY <1>8, LedsRemoveMoves DEF Removing
<1>9. CASE RemoveDisables
  BY <1>9 DEF RemoveDisables
<1>10. CASE RemoveTimer
  BY <1>10 DEF RemoveTimer
<1>11. CASE Calls \/ Restoring("work")
  BY <1>11, CallsKeepChecks DEF Restorers
<1>12. CASE UNCHANGED vars
  BY <1>12 DEF vars
<1> QED
  BY <1>1, <1>2, <1>3, <1>4, <1>5, <1>6, <1>7, <1>8, <1>9, <1>10, <1>11, <1>12
  DEF Next, Work, Remove

\* From the first probe on no more than CheckCount + 1 checks are made, however
\* the colours, the timer, the work item and remove interleave.
THEOREM ChecksEnd == FairSpec => []ChecksAreBounded
<1>1. TypeOK /\ BoundInv => ChecksAreBounded
  BY DEF BoundInv, ChecksAreBounded
<1> QED BY <1>1, InitBound, NextBound, TypeCorrect, PTL DEF FairSpec, Spec

-----------------------------------------------------------------------------
\* A remove that began beside no check goes ahead of the timer, so that none
\* begins before the timer is deleted.
QuietInv ==
  ~env.overlap =>
    /\ driver \notin {"bound", "unbound"} => work = "idle" /\ ~queued
    /\ driver = "unbound" => ~Pending

LEMMA NextQuiet == TypeOK /\ QuietInv /\ [Next]_vars => QuietInv'
<1> SUFFICES ASSUME TypeOK, QuietInv, [Next]_vars PROVE QuietInv'
  OBVIOUS
<1>0. FlagsType /\ StepType
  BY TypeParts
<1> USE <1>0 DEF FlagsType, StepType, WorkSteps, DriverSteps, QuietInv, Pending, ec, checks, leds, history
<1>1. CASE Animate \/ EndAnimation \/ WorkStarts
  BY <1>1 DEF Animate, EndAnimation, WorkStarts
<1>2. CASE TimerMayExpire /\ TimerExpires
  BY <1>2 DEF TimerMayExpire, TimerExpires
<1>3. CASE ReadColor \/ Compare \/ ArmAgain
  BY <1>3 DEF ReadColor, Compare, ArmAgain
<1>4. CASE InitLate \/ Restore
  BY <1>4 DEF InitLate, Restore
<1>5. CASE EnableLate
  BY <1>5 DEF EnableLate
<1>6. CASE Probe
  BY <1>6 DEF Probe
<1>7. CASE RemoveStarts
  <2>1. CASE env.overlap
    BY <1>7, <2>1 DEF RemoveStarts
  <2>2. CASE ~env.overlap
    BY <1>7, <2>2 DEF RemoveStarts, Alone
  <2> QED BY <2>1, <2>2
<1>8. CASE LedsRemove("work") \/ LedsRemove("driver")
  BY <1>8, LedsRemoveMoves DEF Removing
<1>9. CASE RemoveDisables \/ RemoveTimer
  BY <1>9 DEF RemoveDisables, RemoveTimer
<1>10. CASE Calls \/ Restoring("work")
  BY <1>10, CallsKeepChecks DEF Restorers
<1>11. CASE UNCHANGED vars
  BY <1>11 DEF vars
<1> QED
  BY <1>1, <1>2, <1>3, <1>4, <1>5, <1>6, <1>7, <1>8, <1>9, <1>10, <1>11
  DEF Next, Work, Remove

\* A driver that was removed beside no running check leaves neither a timer nor
\* a work item behind, however often it is probed and removed.
THEOREM RemoveIsQuiet == FairSpec => []QuietAfterRemove
<1>1. Init => QuietInv
  BY DEF Init, QuietInv, Pending
<1>2. QuietInv => QuietAfterRemove
  BY Zenon DEF QuietInv, QuietAfterRemove
<1> QED BY <1>1, <1>2, NextQuiet, TypeCorrect, PTL DEF FairSpec, Spec

-----------------------------------------------------------------------------
\* One context at a time: while one is at work the others rest.
Working == work # "idle" \/ queued

SerialInv ==
  /\ Working => driver = "bound" /\ storing = NoColor /\ pm = "awake" /\ restore["event"] = "no"
  /\ driver \notin {"bound", "unbound"} => storing = NoColor /\ restore["event"] = "no"
  /\ storing # NoColor => driver = "bound" /\ pm = "awake" /\ restore["event"] = "no"
  /\ pm # "awake" => driver = "bound" /\ restore["event"] = "no"
  /\ restore["event"] # "no" => driver = "bound"
  /\ restore["work"] # "no" => work = "enable"
  /\ restore["pm"] # "no" => pm = "resuming"
  /\ work \notin Removing

\* The LED class device and the flag that tells of it come and go with the driver.
DeviceInv ==
  /\ driver \in {"bound", "leds_remove"} => initialized /\ rgb
  /\ driver \in {"unbound", "enable", "del_timer"} => ~registered

\* What a context is about to write is still what it should write; and the
\* keyboard differs from the device only until the context at work has written.
ColorInv ==
  /\ storing # NoColor => own = storing
  /\ \A c \in Restorers : restore[c] = "reset" => status[c] = lit
  /\ \A c \in Restorers : restore[c] = "paint" => painting[c] = own
  /\ ~animated /\ storing = NoColor /\ (\A c \in Restorers : restore[c] = "no") /\ pm # "waking" =>
       color = own
  /\ done /\ driver = "bound" /\ pm = "awake" => lit

Sound == ~env.overlap /\ ~env.faults
SoundInv == TypeOK /\ QuietInv /\ SerialInv /\ DeviceInv /\ ColorInv

LEMMA CheckKeepsColor ==
  ASSUME Sound, SoundInv,
         \/ Animate \/ EndAnimation
         \/ TimerMayExpire /\ TimerExpires
         \/ WorkStarts \/ ReadColor \/ Compare \/ ArmAgain
         \/ InitLate
         \/ Restore
         \/ EnableLate
  PROVE SerialInv' /\ DeviceInv' /\ ColorInv'
<1> USE DEF Sound, SoundInv, Restorers, ec, checks, leds, restores, calls, history
<1>0. CallType /\ FlagsType /\ StepType
  BY TypeParts
<1> USE <1>0 DEF CallType, FlagsType, StepType, WorkSteps, DriverSteps, Working, Removing
<1>1. CASE Animate \/ EndAnimation
  <2>1. SerialInv'
    BY <1>1 DEF Animate, EndAnimation, SerialInv
  <2>2. DeviceInv'
    BY <1>1 DEF Animate, EndAnimation, SerialInv, DeviceInv
  <2>3. ColorInv'
    BY <1>1 DEF Animate, EndAnimation, SerialInv, DeviceInv, ColorInv
  <2> QED BY <2>1, <2>2, <2>3
<1>2. CASE TimerMayExpire /\ TimerExpires
  <2>1. SerialInv'
    BY <1>2 DEF TimerMayExpire, TimerExpires, NoCalls, QuietInv, Pending, SerialInv
  <2>2. DeviceInv'
    BY <1>2 DEF TimerMayExpire, TimerExpires, NoCalls, QuietInv, Pending, SerialInv, DeviceInv
  <2>3. ColorInv'
    BY <1>2 DEF TimerMayExpire, TimerExpires, NoCalls, QuietInv, Pending, SerialInv, DeviceInv, ColorInv
  <2> QED BY <2>1, <2>2, <2>3
<1>3. CASE WorkStarts \/ ReadColor \/ Compare \/ ArmAgain
  <2>1. SerialInv'
    BY <1>3 DEF WorkStarts, ReadColor, Compare, ArmAgain, SerialInv
  <2>2. DeviceInv'
    BY <1>3 DEF WorkStarts, ReadColor, Compare, ArmAgain, SerialInv, DeviceInv
  <2>3. ColorInv'
    BY <1>3 DEF WorkStarts, ReadColor, Compare, ArmAgain, SerialInv, DeviceInv, ColorInv
  <2> QED BY <2>1, <2>2, <2>3
<1>4. CASE InitLate
  <2>1. SerialInv'
    BY <1>4 DEF InitLate, SerialInv
  <2>2. DeviceInv'
    BY <1>4 DEF InitLate, SerialInv, DeviceInv
  <2>3. ColorInv'
    BY <1>4 DEF InitLate, SerialInv, DeviceInv, ColorInv
  <2> QED BY <2>1, <2>2, <2>3
<1>5. CASE Restore
  <2>1. SerialInv'
    BY <1>5 DEF Restore, StartRestore, SerialInv
  <2>2. DeviceInv'
    BY <1>5 DEF Restore, StartRestore, SerialInv, DeviceInv
  <2>3. ColorInv'
    BY <1>5 DEF Restore, StartRestore, SerialInv, DeviceInv, ColorInv
  <2> QED BY <2>1, <2>2, <2>3
<1>6. CASE EnableLate
  <2>1. SerialInv'
    BY <1>6 DEF EnableLate, Write, SerialInv
  <2>2. DeviceInv'
    BY <1>6 DEF EnableLate, Write, SerialInv, DeviceInv
  <2>3. ColorInv'
    BY <1>6 DEF EnableLate, Write, SerialInv, DeviceInv, ColorInv
  <2> QED BY <2>1, <2>2, <2>3
<1> QED BY <1>1, <1>2, <1>3, <1>4, <1>5, <1>6

LEMMA RemoveKeepsColor ==
  ASSUME Sound, SoundInv,
         \/ Probe
         \/ RemoveStarts
         \/ RemoveLeds("driver")
         \/ SwitchOff("driver")
         \/ Unregister("driver")
         \/ RemoveDisables
         \/ RemoveTimer
  PROVE SerialInv' /\ DeviceInv' /\ ColorInv'
<1> USE DEF Sound, SoundInv, Restorers, ec, checks, leds, restores, calls, history
<1>0. CallType /\ FlagsType /\ StepType
  BY TypeParts
<1> USE <1>0 DEF CallType, FlagsType, StepType, WorkSteps, DriverSteps, Working, Removing
<1>1. CASE Probe
  <2>1. SerialInv'
    BY <1>1 DEF Probe, Write, QuietInv, Pending, SerialInv
  <2>2. DeviceInv'
    BY <1>1 DEF Probe, Write, QuietInv, Pending, SerialInv, DeviceInv
  <2>3. ColorInv'
    BY <1>1 DEF Probe, Write, QuietInv, Pending, SerialInv, DeviceInv, ColorInv
  <2> QED BY <2>1, <2>2, <2>3
<1>2. CASE RemoveStarts
  <2>1. SerialInv'
    BY <1>2 DEF RemoveStarts, Alone, NoCalls, SerialInv
  <2>2. DeviceInv'
    BY <1>2 DEF RemoveStarts, Alone, NoCalls, SerialInv, DeviceInv
  <2>3. ColorInv'
    BY <1>2 DEF RemoveStarts, Alone, NoCalls, SerialInv, DeviceInv, ColorInv
  <2> QED BY <2>1, <2>2, <2>3
<1>3. CASE RemoveLeds("driver")
  <2>1. SerialInv'
    BY <1>3 DEF RemoveLeds, At, Goto, QuietInv, SerialInv
  <2>2. DeviceInv'
    BY <1>3 DEF RemoveLeds, At, Goto, QuietInv, SerialInv, DeviceInv
  <2>3. ColorInv'
    BY <1>3 DEF RemoveLeds, At, Goto, QuietInv, SerialInv, DeviceInv, ColorInv
  <2> QED BY <2>1, <2>2, <2>3
<1>4. CASE SwitchOff("driver")
  <2>1. SerialInv'
    BY <1>4 DEF SwitchOff, At, Goto, WriteColor, QuietInv, SerialInv
  <2>2. DeviceInv'
    BY <1>4 DEF SwitchOff, At, Goto, WriteColor, QuietInv, SerialInv, DeviceInv
  <2>3. ColorInv'
    BY <1>4 DEF SwitchOff, At, Goto, WriteColor, QuietInv, SerialInv, DeviceInv, ColorInv
  <2> QED BY <2>1, <2>2, <2>3
<1>5. CASE Unregister("driver")
  <2>1. SerialInv'
    BY <1>5 DEF Unregister, At, Goto, QuietInv, SerialInv
  <2>2. DeviceInv'
    BY <1>5 DEF Unregister, At, Goto, QuietInv, SerialInv, DeviceInv
  <2>3. ColorInv'
    BY <1>5 DEF Unregister, At, Goto, QuietInv, SerialInv, DeviceInv, ColorInv
  <2> QED BY <2>1, <2>2, <2>3
<1>6. CASE RemoveDisables
  <2>1. SerialInv'
    BY <1>6 DEF RemoveDisables, Write, QuietInv, SerialInv
  <2>2. DeviceInv'
    BY <1>6 DEF RemoveDisables, Write, QuietInv, SerialInv, DeviceInv
  <2>3. ColorInv'
    BY <1>6 DEF RemoveDisables, Write, QuietInv, SerialInv, DeviceInv, ColorInv
  <2> QED BY <2>1, <2>2, <2>3
<1>7. CASE RemoveTimer
  <2>1. SerialInv'
    BY <1>7 DEF RemoveTimer, QuietInv, SerialInv
  <2>2. DeviceInv'
    BY <1>7 DEF RemoveTimer, QuietInv, SerialInv, DeviceInv
  <2>3. ColorInv'
    BY <1>7 DEF RemoveTimer, QuietInv, SerialInv, DeviceInv, ColorInv
  <2> QED BY <2>1, <2>2, <2>3
<1> QED BY <1>1, <1>2, <1>3, <1>4, <1>5, <1>6, <1>7

LEMMA UseKeepsColor ==
  ASSUME Sound, SoundInv,
         (\E c \in Colors : Store(c)) \/ StoreWrites \/ AdapterEvent
           \/ Suspend \/ Sleep \/ Resume \/ ResumeEnables
  PROVE SerialInv' /\ DeviceInv' /\ ColorInv'
<1> USE DEF Sound, SoundInv, Restorers, ec, checks, leds, restores, calls, history
<1>0. CallType /\ FlagsType /\ StepType
  BY TypeParts
<1> USE <1>0 DEF CallType, FlagsType, StepType, WorkSteps, DriverSteps, Working, Removing
<1>1. CASE \E c \in Colors : Store(c)
  <2>1. SerialInv'
    BY <1>1, AnimationAssumption DEF Store, Alone, NoCalls, DeviceInv, NoColor, SerialInv
  <2>2. DeviceInv'
    BY <1>1, AnimationAssumption DEF Store, Alone, NoCalls, DeviceInv, NoColor, SerialInv
  <2>3. ColorInv'
    BY <1>1, AnimationAssumption DEF Store, Alone, NoCalls, DeviceInv, NoColor, SerialInv, ColorInv
  <2> QED BY <2>1, <2>2, <2>3
<1>2. CASE StoreWrites
  <2>1. SerialInv'
    BY <1>2 DEF StoreWrites, WriteColor, SerialInv
  <2>2. DeviceInv'
    BY <1>2 DEF StoreWrites, WriteColor, SerialInv, DeviceInv
  <2>3. ColorInv'
    BY <1>2 DEF StoreWrites, WriteColor, SerialInv, DeviceInv, ColorInv
  <2> QED BY <2>1, <2>2, <2>3
<1>3. CASE AdapterEvent
  <2>1. SerialInv'
    BY <1>3 DEF AdapterEvent, Alone, NoCalls, StartRestore, SerialInv
  <2>2. DeviceInv'
    BY <1>3 DEF AdapterEvent, Alone, NoCalls, StartRestore, SerialInv, DeviceInv
  <2>3. ColorInv'
    BY <1>3 DEF AdapterEvent, Alone, NoCalls, StartRestore, SerialInv, DeviceInv, ColorInv
  <2> QED BY <2>1, <2>2, <2>3
<1>4. CASE Suspend
  <2>1. SerialInv'
    BY <1>4 DEF Suspend, Alone, NoCalls, Write, SerialInv
  <2>2. DeviceInv'
    BY <1>4 DEF Suspend, Alone, NoCalls, Write, SerialInv, DeviceInv
  <2>3. ColorInv'
    BY <1>4 DEF Suspend, Alone, NoCalls, Write, SerialInv, DeviceInv, ColorInv
  <2> QED BY <2>1, <2>2, <2>3
<1>5. CASE Sleep
  <2>1. SerialInv'
    BY <1>5 DEF Sleep, SerialInv
  <2>2. DeviceInv'
    BY <1>5 DEF Sleep, SerialInv, DeviceInv
  <2>3. ColorInv'
    BY <1>5 DEF Sleep, SerialInv, DeviceInv, ColorInv
  <2> QED BY <2>1, <2>2, <2>3
<1>6. CASE Resume
  <2>1. SerialInv'
    BY <1>6 DEF Resume, StartRestore, SerialInv
  <2>2. DeviceInv'
    BY <1>6 DEF Resume, StartRestore, SerialInv, DeviceInv
  <2>3. ColorInv'
    BY <1>6 DEF Resume, StartRestore, SerialInv, DeviceInv, ColorInv
  <2> QED BY <2>1, <2>2, <2>3
<1>7. CASE ResumeEnables
  <2>1. SerialInv'
    BY <1>7 DEF ResumeEnables, Write, SerialInv
  <2>2. DeviceInv'
    BY <1>7 DEF ResumeEnables, Write, SerialInv, DeviceInv
  <2>3. ColorInv'
    BY <1>7 DEF ResumeEnables, Write, SerialInv, DeviceInv, ColorInv
  <2> QED BY <2>1, <2>2, <2>3
<1> QED BY <1>1, <1>2, <1>3, <1>4, <1>5, <1>6, <1>7

LEMMA RestoreKeepsColor ==
  ASSUME Sound, SoundInv, NEW c \in Restorers, Restoring(c)
  PROVE SerialInv' /\ DeviceInv' /\ ColorInv'
<1> USE DEF Sound, SoundInv, Restorers, ec, checks, leds, restores, calls, history
<1>0. CallType /\ FlagsType /\ StepType
  BY TypeParts
<1> USE <1>0 DEF CallType, FlagsType, StepType, WorkSteps, DriverSteps, Working, Removing
<1>1. CASE RestoreRead(c)
  <2>1. SerialInv'
    BY <1>1 DEF RestoreRead, SerialInv
  <2>2. DeviceInv'
    BY <1>1 DEF RestoreRead, SerialInv, DeviceInv
  <2>3. ColorInv'
    BY <1>1 DEF RestoreRead, SerialInv, DeviceInv, ColorInv
  <2> QED BY <2>1, <2>2, <2>3
<1>2. CASE RestoreReset(c)
  <2>1. SerialInv'
    BY <1>2 DEF RestoreReset, Write, SerialInv
  <2>2. DeviceInv'
    BY <1>2 DEF RestoreReset, Write, SerialInv, DeviceInv
  <2>3. ColorInv'
    BY <1>2 DEF RestoreReset, Write, SerialInv, DeviceInv, ColorInv
  <2> QED BY <2>1, <2>2, <2>3
<1>3. CASE RestorePaint(c)
  <2>1. SerialInv'
    BY <1>3 DEF RestorePaint, WriteColor, SerialInv
  <2>2. DeviceInv'
    BY <1>3 DEF RestorePaint, WriteColor, SerialInv, DeviceInv
  <2>3. ColorInv'
    BY <1>3 DEF RestorePaint, WriteColor, SerialInv, DeviceInv, ColorInv
  <2> QED BY <2>1, <2>2, <2>3
<1> QED BY <1>1, <1>2, <1>3 DEF Restoring

LEMMA EnvConstant == [Next]_vars => env' = env
<1> SUFFICES ASSUME [Next]_vars PROVE env' = env
  OBVIOUS
<1>1. CASE Calls \/ Restoring("work")
  BY <1>1, CallsKeepChecks DEF Restorers
<1>2. CASE LedsRemove("work") \/ LedsRemove("driver")
  BY <1>2, LedsRemoveMoves
<1>3. CASE Animate \/ EndAnimation \/ TimerExpires \/ WorkStarts \/ ReadColor
  BY <1>3 DEF Animate, EndAnimation, TimerExpires, WorkStarts, ReadColor
<1>4. CASE Compare \/ InitLate \/ Restore \/ EnableLate \/ ArmAgain
  BY <1>4 DEF Compare, InitLate, Restore, EnableLate, ArmAgain
<1>5. CASE Probe \/ RemoveStarts \/ RemoveDisables \/ RemoveTimer
  BY <1>5 DEF Probe, RemoveStarts, RemoveDisables, RemoveTimer
<1>6. CASE UNCHANGED vars
  BY <1>6 DEF vars
<1> QED BY <1>1, <1>2, <1>3, <1>4, <1>5, <1>6 DEF Next, Work, Remove

LEMMA NextSound == SoundInv /\ Sound /\ [Next]_vars => SerialInv' /\ DeviceInv' /\ ColorInv'
<1> SUFFICES ASSUME SoundInv, Sound, [Next]_vars PROVE SerialInv' /\ DeviceInv' /\ ColorInv'
  OBVIOUS
<1>1. CASE Calls \/ Restoring("work")
  BY <1>1, UseKeepsColor, RestoreKeepsColor DEF Calls, Restorers
<1>2. CASE Probe \/ RemoveStarts \/ LedsRemove("driver") \/ RemoveDisables \/ RemoveTimer
  BY <1>2, RemoveKeepsColor DEF LedsRemove
<1>3. CASE LedsRemove("work")
  BY <1>3, LedsRemoveMoves DEF SoundInv, SerialInv
<1>4. CASE \/ Animate \/ EndAnimation
           \/ TimerMayExpire /\ TimerExpires
           \/ WorkStarts \/ ReadColor \/ Compare \/ InitLate \/ Restore
           \/ EnableLate \/ ArmAgain
  BY <1>4, CheckKeepsColor
<1>5. CASE UNCHANGED vars
  BY <1>5 DEF SoundInv, SerialInv, DeviceInv, ColorInv, Working, vars, ec, checks, leds, restores, calls, history
<1> QED BY <1>1, <1>2, <1>3, <1>4, <1>5 DEF Next, Work, Remove

\* One context at a time and on an EC that answers, the keyboard shows the colour
\* of the LED class device, after any sequence of stores, adapter changes, sleep,
\* probes and removes, unless the animation wrote last; and once the end of the
\* animation was found the backlight is enabled.
THEOREM ColorIsShown == FairSpec => []ColorMatchesLed
<1>1. Init => SerialInv /\ DeviceInv /\ ColorInv
  BY DEF Init, SerialInv, DeviceInv, ColorInv, Working, Removing, Restorers
<1>2. Init => QuietInv
  BY DEF Init, QuietInv, Pending
<1>3. SoundInv /\ Sound => ColorMatchesLed
  <2> SUFFICES ASSUME SoundInv, Sound, Alone, registered, ~animated
               PROVE color = own /\ (done => lit)
    BY DEF ColorMatchesLed, Sound
  <2>1. driver = "bound"
    BY DEF Alone, SoundInv, DeviceInv
  <2> QED BY <2>1 DEF Alone, NoCalls, SoundInv, ColorInv
<1>4. ~Sound => ColorMatchesLed
  BY DEF Sound, ColorMatchesLed
<1>5. [Next]_vars => env' = env
  BY EnvConstant
<1>6. env' = env => (Sound <=> Sound')
  BY DEF Sound
<1>7. Spec => [](Sound => SerialInv /\ DeviceInv /\ ColorInv)
  <2>1. Init => (Sound => SerialInv /\ DeviceInv /\ ColorInv)
    BY <1>1
  <2>2. /\ TypeOK /\ QuietInv /\ (Sound => SerialInv /\ DeviceInv /\ ColorInv)
        /\ [Next]_vars
        => (Sound => SerialInv /\ DeviceInv /\ ColorInv)'
    BY <1>5, <1>6, NextSound DEF SoundInv
  <2> QED BY <2>1, <2>2, <1>2, InitType, NextType, NextQuiet, PTL DEF Spec
<1>8. TypeOK /\ QuietInv /\ (Sound => SerialInv /\ DeviceInv /\ ColorInv) => ColorMatchesLed
  BY <1>3, <1>4 DEF SoundInv
<1> QED BY <1>2, <1>7, <1>8, InitType, NextType, NextQuiet, PTL DEF FairSpec, Spec

=============================================================================
