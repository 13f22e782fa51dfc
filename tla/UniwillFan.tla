----------------------------- MODULE UniwillFan -----------------------------
(***************************************************************************)
(* Fan control and performance profiles of Uniwill notebooks in tuxedo_io: *)
(* the ioctls W_UW_FANSPEED, W_UW_FANSPEED2, W_UW_FANAUTO, W_UW_PERF_PROF  *)
(* and W_UW_MODE of tuxedo_io/tuxedo_io.c.                                 *)
(*                                                                         *)
(* Newer devices have their fans controlled by a custom fan table in the   *)
(* EC, which is set up by the first speed that is set.  Older ones need    *)
(* "full fan mode", bit 6 of register 0x0751, which also holds the         *)
(* performance profile.  The ioctls take no lock, so that calls of two     *)
(* processes (or threads) interleave.  Each EC access is one step; a write *)
(* with retry is one step that may fail as a whole.                        *)
(***************************************************************************)
EXTENDS Naturals, Sequences

CONSTANTS
  Callers,      \* processes that call ioctl
  Speeds,       \* fan speeds they set
  Environments  \* machines and what may happen on them; env is one of them

Fans == 0 .. 1
\* Kinds of calls; with "mixed_mode" the byte W_UW_MODE writes may have the bits
\* of two profiles.
Kinds == {"speed", "auto", "profile", "mode", "mixed_mode"}

ASSUME FanAssumption ==
  /\ Speeds \subseteq 0 .. 200
  /\ Environments \subseteq [universal : BOOLEAN, overlap : BOOLEAN,
                              faults : BOOLEAN, calls : SUBSET Kinds]

VARIABLES
  env,              \* env.universal: the EC has universal fan control;
                    \* env.overlap: calls of different processes may overlap;
                    \* env.faults: an EC access may time out;
                    \* env.calls: the kinds of calls processes make
  universal,        \* uw_feats->uniwill_has_universal_ec_fan_control
  mode,             \* EC register 0x0751: full fan mode, profile bits, others
  separate,         \* bit 7 of 0x07c5: separate tables for the two fans
  custom,           \* bit 2 of 0x07c6: the custom tables are used
  table,            \* table[f]: first entry of fan f's speeds, 0x0f20 and 0x0f50
  direct,           \* direct[f]: 0x1804 and 0x1809, speeds in full fan mode
  fans_initialized,
  wanted,           \* history: wanted[f]: speed of the last call that returned
  chosen,           \* history: the profile of the last call that returned
  todo,             \* todo[c]: the steps c still has to perform
  call,             \* call[c]: the arguments of c's call
  data              \* data[c]: what c read last

registers == <<mode, separate, custom, table, direct>>
vars == <<env, universal, registers, fans_initialized, wanted, chosen, todo, call, data>>

None == 1000  \* no speed, no profile
\* Profile bits 0xa0 and 0x10; both in 0xfe, left by a timed-out read, and in
\* what userspace may write.
ProfileBits == {"0xa0", "0x00", "0x10", "0xb0"}
Mode == [full : BOOLEAN, profile : ProfileBits, rest : {"kept", "lost"}]
Garbage == [full |-> TRUE, profile |-> "0xb0", rest |-> "lost"]
Bits(profile) == CASE profile = 1 -> "0xa0" [] profile = 2 -> "0x00" [] OTHER -> "0x10"

FanInit ==
  /\ env \in Environments
  /\ mode \in [full : BOOLEAN, profile : {"0xa0"}, rest : {"kept"}]
  /\ separate = FALSE /\ custom = FALSE
  /\ table = [f \in Fans |-> 0] /\ direct = [f \in Fans |-> 0]
  /\ fans_initialized = FALSE
  /\ wanted = [f \in Fans |-> None]
  /\ chosen = None
  /\ todo = [c \in Callers |-> <<>>]
  /\ call = [c \in Callers |-> <<>>]
  /\ data = [c \in Callers |-> Garbage]

\* The device has been identified.
Init == FanInit /\ universal = env.universal

Idle(c) == todo[c] = <<>>
Quiescent == \A c \in Callers : Idle(c)

\* The value an access of the EC yields, or leaves behind.
Seen(value, garbage) == {value} \cup IF env.faults THEN {garbage} ELSE {}
Written(old, new) == {new} \cup IF env.faults THEN {old} ELSE {}

Start(c, args, steps) ==
  /\ Idle(c) /\ (env.overlap \/ Quiescent)
  /\ call' = [call EXCEPT ![c] = args]
  /\ todo' = [todo EXCEPT ![c] = steps]
  /\ UNCHANGED <<env, universal, registers, fans_initialized, wanted, chosen, data>>

Begin(c, args, steps) == args[1] \in env.calls /\ Start(c, args, steps)

At(c, step) == ~Idle(c) /\ Head(todo[c]) = step
\* The step is done, and what it read is d; at the end of a call nothing is
\* left of it.
ProceedWith(c, d) ==
  LET last == Len(todo[c]) = 1 IN
  /\ todo' = [todo EXCEPT ![c] = Tail(@)]
  /\ call' = [call EXCEPT ![c] = IF last THEN <<>> ELSE @]
  /\ data' = [data EXCEPT ![c] = IF last THEN Garbage ELSE d]
Proceed(c) == ProceedWith(c, data[c])
Insert(c, steps) ==
  /\ todo' = [todo EXCEPT ![c] = steps \o Tail(@)]
  /\ UNCHANGED <<env, universal, call, data>>

-----------------------------------------------------------------------------
(***************************************************************************)
(* The ioctls                                                              *)
(***************************************************************************)

\* uw_set_fan
SetFan(c, f, speed) ==
  Begin(c, <<"speed", f, speed>>,
        IF universal THEN <<"check_init", "write_table">>
        ELSE <<"read_mode", "use_full_mode">>)

\* Mutant: the custom tables stay in use.
SetFanAutoKeepsTables(c) ==
  Begin(c, <<"auto">>,
        IF universal THEN <<"read_separate", "clear_separate", "uninit">>
        ELSE <<"read_mode", "leave_full_mode">>)

\* uw_set_fan_auto
SetFanAuto(c) ==
  Begin(c, <<"auto">>,
        IF universal
        THEN <<"read_custom", "clear_custom", "read_separate", "clear_separate", "uninit">>
        ELSE <<"read_mode", "leave_full_mode">>)

\* uw_set_performance_profile_v1
SetProfile(c, profile) ==
  Begin(c, <<"profile", profile>>, <<"read_mode", "write_profile">>)

\* W_UW_MODE: whatever byte userspace passes is written to 0x0751, unchecked.
SetMode(c) == Begin(c, <<"mode">>, <<"write_mode">>)

WriteMode(c) ==
  /\ At(c, "write_mode")
  /\ \E m \in Mode :
       /\ m.profile = "0xb0" => "mixed_mode" \in env.calls
       /\ mode' \in Written(mode, m)
  /\ wanted' = [f \in Fans |-> None] /\ chosen' = None
  /\ Proceed(c)
  /\ UNCHANGED <<env, universal, separate, custom, table, direct, fans_initialized>>

\* Every read of 0x0751.
ReadMode(c) ==
  /\ At(c, "read_mode")
  /\ \E m \in Seen(mode, Garbage) : ProceedWith(c, m)
  /\ UNCHANGED <<env, universal, registers, fans_initialized, wanted, chosen>>

\* Mutant: the bits of the old profile are not cleared first.
WriteProfileUncleared(c) ==
  /\ At(c, "write_profile")
  /\ LET old == data[c].profile  new == Bits(call[c][2]) IN
     mode' = [data[c] EXCEPT !.profile =
                IF new = "0x00" THEN old
                ELSE IF old = "0x00" \/ old = new THEN new ELSE "0xb0"]
  /\ chosen' = call[c][2]
  /\ Proceed(c)
  /\ UNCHANGED <<env, universal, separate, custom, table, direct, fans_initialized, wanted>>

\* "result >= 0" holds for every u32: what a read that failed has left in
\* current_value is used.
WriteProfile(c) ==
  /\ At(c, "write_profile")
  /\ \E m \in Written(mode, [data[c] EXCEPT !.profile = Bits(call[c][2])]) : mode' = m
  /\ chosen' = call[c][2]
  /\ Proceed(c)
  /\ UNCHANGED <<env, universal, separate, custom, table, direct, fans_initialized, wanted>>

-----------------------------------------------------------------------------
(***************************************************************************)
(* Universal EC fan control                                                *)
(***************************************************************************)

\* uw_init_fan.  The 96 entries of the tables are written in two steps.
CheckInit(c) ==
  /\ At(c, "check_init")
  /\ IF fans_initialized \/ ~universal THEN Insert(c, <<"init_done">>)
     ELSE Insert(c, <<"read_mode", "not_full_mode", "read_separate", "set_separate",
                      "zero_cpu", "zero_gpu", "read_custom", "set_custom", "init_done">>)
  /\ UNCHANGED <<env, universal, registers, fans_initialized, wanted, chosen>>

\* set_full_fan_mode(false)
NotFullMode(c) ==
  /\ At(c, "not_full_mode")
  /\ mode' \in IF data[c].full THEN Written(mode, [data[c] EXCEPT !.full = FALSE])
               ELSE {mode}
  /\ Proceed(c)
  /\ UNCHANGED <<env, universal, separate, custom, table, direct, fans_initialized, wanted, chosen>>

\* The reads of 0x07c5 and 0x07c6: only the bit matters, it is set in 0xfe.
ReadSeparate(c) ==
  /\ At(c, "read_separate")
  /\ \E b \in Seen(separate, TRUE) : ProceedWith(c, [bit |-> b])
  /\ UNCHANGED <<env, universal, registers, fans_initialized, wanted, chosen>>

ReadCustom(c) ==
  /\ At(c, "read_custom")
  /\ \E b \in Seen(custom, TRUE) : ProceedWith(c, [bit |-> b])
  /\ UNCHANGED <<env, universal, registers, fans_initialized, wanted, chosen>>

SetSeparate(c) ==
  /\ At(c, "set_separate")
  /\ separate' \in IF data[c].bit THEN {separate} ELSE Written(separate, TRUE)
  /\ Proceed(c)
  /\ UNCHANGED <<env, universal, mode, custom, table, direct, fans_initialized, wanted, chosen>>

ZeroTable(c) ==
  /\ \E f \in Fans :
       /\ At(c, IF f = 0 THEN "zero_cpu" ELSE "zero_gpu")
       /\ \E v \in Written(table[f], 0) : table' = [table EXCEPT ![f] = v]
  /\ Proceed(c)
  /\ UNCHANGED <<env, universal, mode, separate, custom, direct, fans_initialized, wanted, chosen>>

SetCustom(c) ==
  /\ At(c, "set_custom")
  /\ custom' \in IF data[c].bit THEN {custom} ELSE Written(custom, TRUE)
  /\ Proceed(c)
  /\ UNCHANGED <<env, universal, mode, separate, table, direct, fans_initialized, wanted, chosen>>

\* Whether or not the writes succeeded.
InitDone(c) ==
  /\ At(c, "init_done")
  /\ fans_initialized' = TRUE
  /\ Proceed(c)
  /\ UNCHANGED <<env, universal, registers, wanted, chosen>>

\* Mutant: 1 is added to every speed.
WriteTableShifted(c) ==
  LET f == call[c][2] IN
  /\ At(c, "write_table")
  /\ table' = [table EXCEPT ![f] = call[c][3] + 1]
  /\ wanted' = [wanted EXCEPT ![f] = call[c][3]]
  /\ Proceed(c)
  /\ UNCHANGED <<env, universal, mode, separate, custom, direct, fans_initialized, chosen>>

\* Speed 0 would make the EC spin up the fan for some minutes: 1 is written.
WriteTable(c) ==
  LET f == call[c][2]  speed == IF call[c][3] = 0 THEN 1 ELSE call[c][3] IN
  /\ At(c, "write_table")
  /\ \E v \in Written(table[f], speed) : table' = [table EXCEPT ![f] = v]
  /\ wanted' = [wanted EXCEPT ![f] = call[c][3]]
  /\ Proceed(c)
  /\ UNCHANGED <<env, universal, mode, separate, custom, direct, fans_initialized, chosen>>

ClearCustom(c) ==
  /\ At(c, "clear_custom")
  /\ custom' \in IF data[c].bit THEN Written(custom, FALSE) ELSE {custom}
  /\ Proceed(c)
  /\ UNCHANGED <<env, universal, mode, separate, table, direct, fans_initialized, wanted, chosen>>

ClearSeparate(c) ==
  /\ At(c, "clear_separate")
  /\ separate' \in IF data[c].bit THEN Written(separate, FALSE) ELSE {separate}
  /\ Proceed(c)
  /\ UNCHANGED <<env, universal, mode, custom, table, direct, fans_initialized, wanted, chosen>>

\* Mutant: the tables are not set up again after automatic control.
UninitForgotten(c) ==
  /\ At(c, "uninit")
  /\ wanted' = [f \in Fans |-> None]
  /\ Proceed(c)
  /\ UNCHANGED <<env, universal, registers, fans_initialized, chosen>>

Uninit(c) ==
  /\ At(c, "uninit")
  /\ fans_initialized' = FALSE
  /\ wanted' = [f \in Fans |-> None]
  /\ Proceed(c)
  /\ UNCHANGED <<env, universal, registers, chosen>>

-----------------------------------------------------------------------------
(***************************************************************************)
(* Full fan mode                                                           *)
(***************************************************************************)

\* In full fan mode the chosen fan is set.  Otherwise full fan mode is
\* switched on by a function that reads 0x0751 again, and both fans are set.
UseFullMode(c) ==
  /\ At(c, "use_full_mode")
  /\ IF data[c].full THEN Insert(c, <<"write_fan">>)
     ELSE Insert(c, <<"read_mode", "set_full_mode", "write_both">>)
  /\ UNCHANGED <<env, universal, registers, fans_initialized, wanted, chosen>>

\* set_full_fan_mode(true): if the bit is set by now, it is cleared.
SetFullMode(c) ==
  /\ At(c, "set_full_mode")
  /\ \E m \in Written(mode, [data[c] EXCEPT !.full = ~@]) : mode' = m
  /\ Proceed(c)
  /\ UNCHANGED <<env, universal, separate, custom, table, direct, fans_initialized, wanted, chosen>>

WriteFan(c) ==
  LET f == call[c][2]  speed == call[c][3] IN
  /\ At(c, "write_fan")
  /\ \E v \in Written(direct[f], speed) : direct' = [direct EXCEPT ![f] = v]
  /\ wanted' = [wanted EXCEPT ![f] = speed]
  /\ Proceed(c)
  /\ UNCHANGED <<env, universal, mode, separate, custom, table, fans_initialized, chosen>>

\* Ten times both fans, before they ramp up.
WriteBoth(c) ==
  LET speed == call[c][3] IN
  /\ At(c, "write_both")
  /\ direct' \in [Fans -> IF env.faults THEN {speed} \cup {direct[f] : f \in Fans}
                          ELSE {speed}]
  /\ wanted' = [f \in Fans |-> IF f = call[c][2] THEN speed ELSE None]
  /\ Proceed(c)
  /\ UNCHANGED <<env, universal, mode, separate, custom, table, fans_initialized, chosen>>

\* Mutant: the other bits of the register are cleared.
LeaveFullModeZeroed(c) ==
  /\ At(c, "leave_full_mode")
  /\ mode' = [full |-> FALSE, profile |-> "0x00", rest |-> "lost"]
  /\ wanted' = [f \in Fans |-> None]
  /\ Proceed(c)
  /\ UNCHANGED <<env, universal, separate, custom, table, direct, fans_initialized, chosen>>

LeaveFullMode(c) ==
  /\ At(c, "leave_full_mode")
  /\ \E m \in Written(mode, [data[c] EXCEPT !.full = FALSE]) : mode' = m
  /\ wanted' = [f \in Fans |-> None]
  /\ Proceed(c)
  /\ UNCHANGED <<env, universal, separate, custom, table, direct, fans_initialized, chosen>>

-----------------------------------------------------------------------------
UniversalStep(c) ==
  \/ CheckInit(c) \/ NotFullMode(c) \/ ReadSeparate(c) \/ ReadCustom(c)
  \/ SetSeparate(c) \/ ZeroTable(c) \/ SetCustom(c) \/ InitDone(c)
  \/ WriteTable(c) \/ ClearCustom(c) \/ ClearSeparate(c) \/ Uninit(c)

FullModeStep(c) ==
  \/ UseFullMode(c) \/ SetFullMode(c) \/ WriteFan(c) \/ WriteBoth(c) \/ LeaveFullMode(c)

FanCall(c) ==
  \/ \E f \in Fans, s \in Speeds : SetFan(c, f, s)
  \/ SetFanAuto(c)
  \/ \E p \in 1 .. 3 : SetProfile(c, p)
  \/ SetMode(c)

FanStep(c) ==
  \/ ReadMode(c) \/ WriteProfile(c) \/ WriteMode(c)
  \/ UniversalStep(c)
  \/ FullModeStep(c)

Next == \E c \in Callers : FanCall(c) \/ FanStep(c)

Spec == Init /\ [][Next]_vars

-----------------------------------------------------------------------------
(***************************************************************************)
(* Properties                                                              *)
(***************************************************************************)

TypeOK ==
  /\ env \in Environments
  /\ mode \in Mode
  /\ {universal, separate, custom, fans_initialized} \subseteq BOOLEAN
  /\ table \in [Fans -> Speeds \cup {0, 1}]
  /\ direct \in [Fans -> Speeds \cup {0}]
  /\ wanted \in [Fans -> Speeds \cup {None}]
  /\ chosen \in 1 .. 3 \cup {None}
  /\ \A c \in Callers : Len(todo[c]) <= 10

\* One call at a time on an EC that answers, and none that writes 0x0751 whole.
Undisturbed == ~env.overlap /\ ~env.faults /\ "mode" \notin env.calls

\* A fan that was given a speed keeps it until automatic control is asked for,
\* whatever else is set: the mode and the tables the speed depends on are in
\* use.
SpeedIsInForce ==
  Undisturbed /\ Quiescent =>
    \A f \in {g \in Fans : wanted[g] # None} :
      IF env.universal
      THEN custom /\ separate /\ ~mode.full
             /\ table[f] = IF wanted[f] = 0 THEN 1 ELSE wanted[f]
      ELSE mode.full /\ direct[f] = wanted[f]

\* After W_UW_FANAUTO the EC controls the fans again: the custom tables are not
\* in use ("Fix default fan curve not being reenabled when tccd is stopped").
EcControlsFans ==
  Undisturbed /\ env.universal /\ Quiescent /\ (\A f \in Fans : wanted[f] = None) =>
    ~custom /\ ~separate

\* The profile that was set last stays set, whatever is done to the fans, whose
\* full mode is a bit of the same register.
ProfileIsInForce ==
  Undisturbed /\ Quiescent /\ chosen # None => mode.profile = Bits(chosen)

\* "Set profile 1-3 to 0xa0, 0x00 or 0x10": no two calls, with or without fan
\* calls in between, leave a mixture of two profiles that userspace has not
\* written itself.
ProfileUnmixed ==
  ~env.faults /\ "mixed_mode" \notin env.calls => mode.profile # "0xb0"

\* "If not "full fan mode" switch to it": when every call that sets a speed
\* has returned, full fan mode is on.
FullModeForSpeeds ==
  Quiescent /\ ~env.universal /\ (\E f \in Fans : wanted[f] # None) => mode.full

=============================================================================
