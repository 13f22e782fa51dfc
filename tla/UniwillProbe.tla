---------------------------- MODULE UniwillProbe ----------------------------
(***************************************************************************)
(* What uniwill_keyboard_probe does to the EC before the LEDs are          *)
(* registered, and the last step of uniwill_keyboard_remove: the ROM id    *)
(* (set_rom_id), which is compared and corrected by accesses with retry    *)
(* (uniwill_read_ec_ram_with_retry, uniwill_write_ec_ram_with_retry), then *)
(* profile, fan curve, manual mode and fan temperature.                    *)
(*                                                                         *)
(* One thread, but an EC whose accesses may fail: a read or a write may    *)
(* time out (the write may have been done all the same), and a write may   *)
(* be acknowledged and not done, which is what the verification is for.    *)
(***************************************************************************)
EXTENDS Naturals, Sequences, FiniteSets

CONSTANTS
  RomLength,    \* bytes of the ROM id; 14 in the code
  Environments  \* machines and what may happen on them; env is one of them

Retries == 3       \* of every access with retry
Unlimited == 1000  \* a number of faults without end

ASSUME ProbeAssumption ==
  /\ RomLength \in Nat \ {0}
  /\ Environments \subseteq
       [romid : BOOLEAN, profile_v1 : BOOLEAN, lightbar : BOOLEAN, faults : Nat,
        silent : BOOLEAN, early : BOOLEAN, registerFails : BOOLEAN,
        sets : SUBSET {"red", "green", "blue", "animation"}]

\* Registers set_rom_id writes: the two special ones, and the id.
Special == {0, 1}
Id == 2 .. RomLength + 1
Targets == Special \cup Id

\* 0x0743 .. 0x0747: the fan curve in manual mode, or the parameters of the
\* graphics boost.
Curve == 0 .. 4
Boost == {0, 2, 3}

VARIABLES
  env,     \* env.romid: the machine is in uw_sku_romid_table; env.profile_v1:
           \* uniwill_profile_v1; env.lightbar: it has one; env.faults: how many
           \* accesses fail; env.silent: writes may fail without an error;
           \* env.early: LEDs are set before probe has returned;
           \* env.registerFails: an LED may not be registered;
           \* env.sets: LEDs of the lightbar that userspace sets
  faults,  \* accesses that may still fail
  held,    \* held[t]: register t holds the byte set_rom_id wants in it
  curve,   \* curve[k]: 0x0743 + k: "bios", "default", "garbage" or "boost"
  manual,  \* 0x0741: manual mode
  pc,      \* where probe or remove is
  at,      \* the loop index: a target or an entry of the curve
  tries,   \* attempts made of the access with retry
  read,    \* what was read of the default curve
  result   \* history: what set_rom_id returned: "none", "0" or "error"

ec == <<held, curve, manual>>
probeVars == <<env, faults, ec, pc, at, tries, read, result>>

Init ==
  /\ env \in Environments
  /\ faults = env.faults
  /\ held \in [Targets -> IF env.romid THEN BOOLEAN ELSE {FALSE}]
  /\ curve = [k \in Curve |-> "bios"]
  /\ manual = FALSE
  /\ pc = "unbound" /\ at = 0 /\ tries = 0 /\ read = "bios" /\ result = "none"

\* How an access ends: right, with an error (the write done or not), or, for a
\* write, without either.
Fault == faults > 0 /\ faults' = IF faults = Unlimited THEN faults ELSE faults - 1
NoFault == UNCHANGED faults

Goto(step) == pc' = step
Loop(k) == at' = k /\ tries' = 0

-----------------------------------------------------------------------------
(***************************************************************************)
(* set_rom_id                                                              *)
(***************************************************************************)

Probe ==
  /\ pc = "unbound"
  /\ IF env.romid THEN Goto("compare") /\ Loop(2) /\ result' = "none"
     ELSE Goto("mode") /\ Loop(0) /\ result' = "0"
  /\ UNCHANGED <<env, faults, ec, read>>

\* What it returns is not looked at.
ReturnFromRomId(status) == Goto("mode") /\ Loop(0) /\ result' = status

\* uniwill_read_ec_ram_with_retry
Compare ==
  /\ pc = "compare"
  /\ \/ /\ NoFault
        /\ IF ~held[at] THEN Goto("write") /\ Loop(0) /\ UNCHANGED result
           ELSE IF at + 1 \in Id
           THEN Goto("compare") /\ Loop(at + 1) /\ UNCHANGED result
           ELSE ReturnFromRomId("0")
     \/ /\ Fault
        /\ IF tries + 1 = Retries THEN ReturnFromRomId("error")
           ELSE tries' = tries + 1 /\ UNCHANGED <<pc, at, result>>
  /\ UNCHANGED <<env, ec, read>>

\* The next register, after an attempt that ended the loop with this status.
ReturnFromWrite(status) ==
  IF status = "0" /\ at + 1 \in Targets
  THEN Goto("write") /\ Loop(at + 1) /\ UNCHANGED result
  ELSE ReturnFromRomId(status)

\* Mutant: an attempt less.
AgainTooFew(status) ==
  IF tries + 2 = Retries THEN ReturnFromWrite(status)
  ELSE tries' = tries + 1 /\ Goto("write") /\ UNCHANGED <<at, result>>

\* Mutant: attempts are not counted.
AgainForever(status) ==
  tries' = tries /\ Goto("write") /\ UNCHANGED <<at, result>>

\* The next attempt; after the last one its status is returned.
Again(status) ==
  IF tries + 1 = Retries THEN ReturnFromWrite(status)
  ELSE tries' = tries + 1 /\ Goto("write") /\ UNCHANGED <<at, result>>

\* uniwill_write_ec_ram_with_retry: an attempt to write ...
Write ==
  /\ pc = "write"
  /\ \/ /\ NoFault /\ held' = [held EXCEPT ![at] = TRUE]
        /\ Goto("verify") /\ UNCHANGED <<at, tries, result>>
     \/ /\ Fault /\ (\E done \in BOOLEAN : held' = [held EXCEPT ![at] = @ \/ done])
        /\ Again("error")
     \/ /\ Fault /\ env.silent /\ UNCHANGED held
        /\ Goto("verify") /\ UNCHANGED <<at, tries, result>>
  /\ UNCHANGED <<env, curve, manual, read>>

\* Mutant: the value read back is not compared.
VerifyReadOnly ==
  /\ pc = "verify"
  /\ \/ NoFault /\ ReturnFromWrite("0")
     \/ Fault /\ Again("error")
  /\ UNCHANGED <<env, ec, read>>

\* ... and its verification.  When the value differs the status is that of the
\* read, 0, also after the last attempt.
Verify ==
  /\ pc = "verify"
  /\ \/ NoFault /\ IF held[at] THEN ReturnFromWrite("0") ELSE Again("0")
     \/ Fault /\ Again("error")
  /\ UNCHANGED <<env, ec, read>>

-----------------------------------------------------------------------------
(***************************************************************************)
(* The rest of probe: results of accesses are not looked at                *)
(***************************************************************************)

\* 0x0751 := 0, "balanced"; userspace sets it later, see UniwillFan.
SetMode ==
  /\ pc = "mode"
  /\ NoFault \/ Fault
  /\ Loop(0)
  /\ Goto(IF env.profile_v1 THEN "read_curve" ELSE "boost")
  /\ UNCHANGED <<env, ec, read, result>>

\* 0x0786 + at; 0xfe after a failure.
ReadCurve ==
  /\ pc = "read_curve"
  /\ \/ NoFault /\ read' = "default"
     \/ Fault /\ read' = "garbage"
  /\ Goto("write_curve")
  /\ UNCHANGED <<env, ec, at, tries, result>>

\* Mutant: the last entry is not copied.
WriteCurveShort ==
  /\ pc = "write_curve"
  /\ NoFault /\ curve' = [curve EXCEPT ![at] = read]
  /\ IF at + 2 \in Curve THEN Goto("read_curve") /\ Loop(at + 1)
     ELSE Goto("manual") /\ Loop(0)
  /\ UNCHANGED <<env, held, manual, read, result>>

WriteCurve ==
  /\ pc = "write_curve"
  /\ \/ NoFault /\ curve' = [curve EXCEPT ![at] = read]
     \/ Fault /\ UNCHANGED curve
  /\ IF at + 1 \in Curve THEN Goto("read_curve") /\ Loop(at + 1)
     ELSE Goto("manual") /\ Loop(0)
  /\ UNCHANGED <<env, held, manual, read, result>>

\* 0x0746, 0x0745 and 0x0743.
SetBoost ==
  LET k == <<3, 2, 0>>[at + 1] IN
  /\ pc = "boost"
  /\ \/ NoFault /\ curve' = [curve EXCEPT ![k] = "boost"]
     \/ Fault /\ UNCHANGED curve
  /\ IF at < 2 THEN Goto("boost") /\ Loop(at + 1) ELSE Goto("manual") /\ Loop(0)
  /\ UNCHANGED <<env, held, manual, read, result>>

SetManual ==
  /\ pc = "manual"
  /\ \/ NoFault /\ manual' = TRUE
     \/ Fault /\ UNCHANGED manual
  /\ Goto("temperature")
  /\ UNCHANGED <<env, held, curve, at, tries, read, result>>

\* 0x044f := 0; then what registers devices.
ZeroTemperature ==
  /\ pc = "temperature"
  /\ NoFault \/ Fault
  /\ Goto(IF env.lightbar THEN "register" ELSE "bound")
  /\ UNCHANGED <<env, ec, at, tries, read, result>>

-----------------------------------------------------------------------------
\* uniwill_keyboard_remove: the lightbar goes, then manual mode.
Remove ==
  /\ pc = "bound"
  /\ Goto(IF env.lightbar THEN "remove_lightbar" ELSE "disable_manual")
  /\ Loop(0)
  /\ UNCHANGED <<env, faults, ec, read, result>>

DisableManual ==
  /\ pc = "disable_manual"
  /\ \/ NoFault /\ manual' = FALSE
     \/ Fault /\ UNCHANGED manual
  /\ Goto("unbound")
  /\ UNCHANGED <<env, held, curve, at, tries, read, result>>

Step ==
  \/ Compare \/ Write \/ Verify
  \/ SetMode \/ ReadCurve \/ WriteCurve \/ SetBoost \/ SetManual \/ ZeroTemperature
  \/ DisableManual

Next == Probe \/ Remove \/ Step

\* A thread of the kernel runs on.
Spec == Init /\ [][Next]_probeVars /\ WF_probeVars(Step)

-----------------------------------------------------------------------------
(***************************************************************************)
(* Properties                                                              *)
(***************************************************************************)

Steps == {"unbound", "compare", "write", "verify", "mode", "read_curve", "write_curve",
          "boost", "manual", "temperature", "register", "init_read", "init_write",
          "init_rgb", "bound", "unregister", "flush", "remove_lightbar", "disable_manual"}

\* Types; and no access is attempted more often than its retries.
TypeOK ==
  /\ env \in Environments /\ faults \in 0 .. env.faults
  /\ held \in [Targets -> BOOLEAN]
  /\ curve \in [Curve -> {"bios", "default", "garbage", "boost"}]
  /\ manual \in BOOLEAN
  /\ pc \in Steps
  /\ at \in 0 .. RomLength + 5 /\ tries \in 0 .. Retries - 1
  /\ read \in {"bios", "default", "garbage"}
  /\ result \in {"none", "0", "error"}

\* When set_rom_id returns 0 the machine has its ROM id, whatever has failed,
\* half done, in this probe and the ones before.  (Not if three acknowledged
\* writes of one register were not done: then the last status is 0 as well.)
RomIdIsRight ==
  env.romid /\ result = "0" /\ (~env.silent \/ env.faults < Retries) =>
    \A t \in Id : held[t]

\* Any two faults, of whatever kind and wherever they hit, are made up for by
\* the retries.
TwoFaultsTolerated == env.faults < Retries => result # "error"

\* Results are not looked at, but each failed access spoils at most one point of
\* what manual mode uses: the fan curve, or the parameters of the boost.  If none
\* failed, manual mode is on while the driver is bound and off when it is gone.
Spoilt == IF env.profile_v1 THEN {k \in Curve : curve[k] # "default"}
          ELSE {k \in Boost : curve[k] # "boost"}

ManualModeIsPrepared ==
  env.faults < Unlimited =>
    /\ manual => Cardinality(Spoilt) <= env.faults - faults
    /\ faults = env.faults => (pc = "bound" => manual) /\ (pc = "unbound" => ~manual)

\* Probe and remove return, however many accesses fail.
ProbeReturns == pc \notin {"unbound", "bound"} ~> pc \in {"unbound", "bound"}

=============================================================================
