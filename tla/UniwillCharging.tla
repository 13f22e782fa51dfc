--------------------------- MODULE UniwillCharging ---------------------------
(***************************************************************************)
(* Charging priority and charging profile of Uniwill notebooks             *)
(* (uniwill_keyboard.h): two sysfs attributes, each a few bits of an EC    *)
(* register, and the handler that writes the priority again when the       *)
(* charger was plugged in.                                                 *)
(*                                                                         *)
(* The priority is bit 7 of 0x07cc, the profile bits 4 and 5 of 0x07a6.    *)
(* Two processes may write an attribute at once, and the event handler     *)
(* and probe run beside them, all without a lock.  Each EC access is one   *)
(* step.                                                                   *)
(***************************************************************************)
EXTENDS Naturals

CONSTANT
  Environments  \* what may happen around the driver; env is one of them

Contexts == {"sysfs1", "sysfs2", "event", "driver"}
Possible == {{c, d} : c \in Contexts, d \in Contexts}

ASSUME ChargingAssumption ==
  Environments \subseteq [overlaps : SUBSET Possible, faults : BOOLEAN]

Priorities == 0 .. 1
Profiles == 0 .. 2
\* rest: whether the bits that belong to others are as the firmware left them
Register == [value : 0 .. 3, rest : {"kept", "lost"}]
Garbage == [value |-> 1, rest |-> "lost"]  \* of 0xfe, left by a timed-out read
Unset == 9
Idle == [op |-> "idle"]

VARIABLES
  env,       \* env.overlaps: pairs of contexts that may run at the same time;
             \* env.faults: an EC access may time out
  prio,      \* EC register 0x07cc
  profile,   \* EC register 0x07a6
  bound,     \* the platform device is probed: the event handler may be called
  files,     \* the charging_priority and charging_profile groups exist
  loaded,    \* uw_charging_prio_loaded
  last,      \* uw_charging_prio_last_written_value
  adapter,   \* the charger was plugged in and the event is not handled yet
  wanted,    \* history: the priority of the last successful write to sysfs
  call       \* call[c]: what c is doing and its local variables

vars == <<env, prio, profile, bound, files, loaded, last, adapter, wanted, call>>

Init ==
  /\ env \in Environments
  /\ prio \in [value : Priorities, rest : {"kept"}]
  /\ profile \in [value : Profiles, rest : {"kept"}]
  /\ bound = FALSE /\ files = FALSE /\ loaded = FALSE
  /\ last = 0
  /\ adapter = FALSE
  /\ wanted = Unset
  /\ call = [c \in Contexts |-> Idle]

Quiescent == \A c \in Contexts : call[c] = Idle
Begin(c, start) ==
  /\ call[c] = Idle
  /\ \A d \in Contexts : call[d] = Idle \/ {c, d} \in env.overlaps
  /\ call' = [call EXCEPT ![c] = start]
Goto(c, next) == call' = [call EXCEPT ![c] = next]
Return(c) == Goto(c, Idle)

\* A call of uw_set_charging_priority or uw_set_charging_profile.
Set(reg, value) == [op |-> "read", reg |-> reg, value |-> value]

-----------------------------------------------------------------------------
\* uw_charging_prio_store, with one of charging_prio_options
StorePriority(c, value) ==
  /\ files
  /\ Begin(c, Set("prio", value))
  /\ UNCHANGED <<env, prio, profile, bound, files, loaded, last, adapter, wanted>>

\* uw_charging_profile_store, with one of charging_profile_options
StoreProfile(c, value) ==
  /\ files
  /\ Begin(c, Set("profile", value))
  /\ UNCHANGED <<env, prio, profile, bound, files, loaded, last, adapter, wanted>>

\* The charger is plugged in: the EC chooses a priority of its own and raises
\* UNIWILL_OSD_DC_ADAPTER_CHANGE.
Plug(value) ==
  /\ prio' = [prio EXCEPT !.value = value]
  /\ adapter' = bound
  /\ UNCHANGED <<env, profile, bound, files, loaded, last, wanted, call>>

\* Mutant: the priority is not written again.
HandleAdapterIgnored ==
  /\ adapter /\ bound
  /\ Begin("event", Idle)
  /\ adapter' = FALSE
  /\ UNCHANGED <<env, prio, profile, bound, files, loaded, last, wanted>>

\* uw_charging_priority_write_state, called by uniwill_event_callb
HandleAdapter ==
  /\ adapter /\ bound
  /\ Begin("event", IF loaded THEN Set("prio", last) ELSE Idle)
  /\ adapter' = FALSE
  /\ UNCHANGED <<env, prio, profile, bound, files, loaded, last, wanted>>

-----------------------------------------------------------------------------
RegisterOf(reg) == IF reg = "prio" THEN prio ELSE profile

\* Mutant: the result of the read is ignored.
ReadUnchecked(c) ==
  /\ call[c].op = "read"
  /\ \E seen \in {RegisterOf(call[c].reg)} \cup IF env.faults THEN {Garbage} ELSE {} :
       Goto(c, [op |-> "write", reg |-> call[c].reg, value |-> call[c].value,
                seen |-> seen])
  /\ UNCHANGED <<env, prio, profile, bound, files, loaded, last, adapter, wanted>>

\* A read that fails ends the call.
Read(c) ==
  /\ call[c].op = "read"
  /\ \/ Goto(c, [op |-> "write", reg |-> call[c].reg, value |-> call[c].value,
                 seen |-> RegisterOf(call[c].reg)])
     \/ env.faults /\ Return(c)
  /\ UNCHANGED <<env, prio, profile, bound, files, loaded, last, adapter, wanted>>

\* The other bits are those that were read.
Write(c) ==
  /\ call[c].op = "write"
  /\ \/ LET new == [call[c].seen EXCEPT !.value = call[c].value] IN
        /\ IF call[c].reg = "prio" THEN prio' = new /\ UNCHANGED profile
           ELSE profile' = new /\ UNCHANGED prio
        /\ Goto(c, [op |-> "assign", reg |-> call[c].reg, value |-> call[c].value])
     \/ env.faults /\ Return(c) /\ UNCHANGED <<prio, profile>>
  /\ UNCHANGED <<env, bound, files, loaded, last, adapter, wanted>>

\* The value that was written is kept: the shifted one, which the bool it is
\* kept in turns into 0 or 1.  The value kept of the profile is never used.
Assign(c) ==
  /\ call[c].op = "assign"
  /\ last' = IF call[c].reg = "prio" THEN call[c].value ELSE last
  /\ wanted' = IF call[c].reg = "prio" /\ c # "event" THEN call[c].value ELSE wanted
  /\ Return(c)
  /\ UNCHANGED <<env, prio, profile, bound, files, loaded, adapter>>

-----------------------------------------------------------------------------
\* uw_charging_priority_init: first the files, then the value they had; the
\* result of the read is ignored.
Probe ==
  /\ ~bound
  /\ Begin("driver", [op |-> "init"])
  /\ bound' = TRUE /\ files' = TRUE /\ loaded' = TRUE
  /\ UNCHANGED <<env, prio, profile, last, adapter, wanted>>

InitRead ==
  /\ call["driver"].op = "init"
  /\ \E seen \in {prio} \cup IF env.faults THEN {Garbage} ELSE {} :
       Goto("driver", [op |-> "init_assign", value |-> seen.value])
  /\ UNCHANGED <<env, prio, profile, bound, files, loaded, last, adapter, wanted>>

InitAssign ==
  /\ call["driver"].op = "init_assign"
  /\ last' = call["driver"].value
  /\ Return("driver")
  /\ UNCHANGED <<env, prio, profile, bound, files, loaded, adapter, wanted>>

\* uniwill_keyboard_remove: the groups go when no store is running in them;
\* uw_charging_prio_loaded stays.
Remove ==
  /\ bound
  /\ call["sysfs1"] = Idle /\ call["sysfs2"] = Idle
  /\ Begin("driver", Idle)
  /\ bound' = FALSE /\ files' = FALSE /\ adapter' = FALSE
  /\ wanted' = Unset
  /\ UNCHANGED <<env, prio, profile, loaded, last>>

-----------------------------------------------------------------------------
Next ==
  \/ \E c \in {"sysfs1", "sysfs2"} :
       \/ \E v \in Priorities : StorePriority(c, v)
       \/ \E v \in Profiles : StoreProfile(c, v)
  \/ \E v \in Priorities : Plug(v)
  \/ HandleAdapter
  \/ \E c \in Contexts : Read(c) \/ Write(c) \/ Assign(c)
  \/ Probe \/ InitRead \/ InitAssign \/ Remove

Spec == Init /\ [][Next]_vars

-----------------------------------------------------------------------------
(***************************************************************************)
(* Properties                                                              *)
(***************************************************************************)

TypeOK ==
  /\ env \in Environments
  /\ {prio, profile} \subseteq Register
  /\ {bound, files, loaded, adapter} \subseteq BOOLEAN
  /\ last \in Priorities
  /\ wanted \in Priorities \cup {Unset}
  /\ \A c \in Contexts :
       call[c].op \in {"idle", "read", "write", "assign", "init", "init_assign"}

\* Whoever writes the priority or the profile, at once or one after the other
\* and with EC accesses failing at any point, the other bits of the two
\* registers stay what they were.
OthersPreserved == prio.rest = "kept" /\ profile.rest = "kept"

\* "Re-write last set charging priority on barrel plug connect": with one call
\* at a time, the EC has the priority userspace set last, however often the
\* charger was plugged in since.
PrioritySurvivesPlug ==
  env = [overlaps |-> {}, faults |-> FALSE] =>
    (Quiescent /\ bound /\ ~adapter /\ wanted # Unset => prio.value = wanted)

=============================================================================
