------------------------------ MODULE TuxedoIo ------------------------------
(***************************************************************************)
(* The character device of tuxedo_io.c as a whole.  Before the fan calls   *)
(* of UniwillFan the device has to be identified: its features are read    *)
(* from the EC into a cache that the keyboard driver and tuxedo_io share   *)
(* (uniwill_get_device_features of uniwill_keyboard.h), and the limits of  *)
(* its thermal design power (TDP) follow from them.  Clevo machines have   *)
(* calls that are forwarded to the firmware instead, and a webcam switch.  *)
(*                                                                         *)
(* Nothing here takes a lock either.  The features that the machine tells  *)
(* by its name (the kinds of profiles) cannot go wrong and are left out.   *)
(***************************************************************************)
EXTENDS UniwillFan, Integers

CONSTANTS
  Machines,     \* machine is one of them
  TdpArguments, \* numbers userspace gives to W_UW_TDP0 .. W_UW_TDP2
  Settings      \* numbers it gives to the calls Clevo firmware gets as they are

IoKinds == {"features", "identify", "tdp", "webcam", "forward"}  \* of calls
Methods == {"fanspeed", "fanauto", "flightmode", "touchpad", "profile"}

\* Devices with limits, named like the tables in the code.
Models == {"ph4tux", "ph4trx", "ph4tqx", "ph4axx"}
Skus == {"phxpxx", "pfxluxg", "gmxngxx", "gmxmgxx", "gmxtgxx", "gmxzgxx",
         "gmxagxx", "gmxrgxx", "gmxpxxx", "gmxxgxx"}
Unknown == "unknown"
Null == "NULL"

\* A device is told by its model number or by its name; PH4TRX controls its
\* fans by full fan mode whatever the EC says.
ASSUME IoAssumption ==
  /\ Machines \subseteq
       [env : Environments, model : Models \cup {Unknown}, sku : Skus \cup {Unknown},
        ecfans : BOOLEAN, priority : BOOLEAN, profile : BOOLEAN,
        nocharging : BOOLEAN, toggles : BOOLEAN, calls : SUBSET IoKinds]
  /\ \A m \in Machines :
       /\ m.model = Unknown \/ m.sku = Unknown
       /\ m.env.universal = (m.ecfans /\ m.model # "ph4trx")
  /\ TdpArguments \subseteq Nat /\ Settings \subseteq Nat

VARIABLES
  machine,      \* machine.model: register 0x0740; machine.sku: DMI product;
                \* machine.ecfans: bit 6 of 0x078e; machine.priority: bit 5 of
                \* 0x0742; machine.profile: bit 3 of 0x078e; machine.nocharging:
                \* boards with neither; machine.toggles: setting the webcam
                \* toggles it; machine.calls: the kinds of calls that are made
  feats,        \* uniwill_device_features: model, charging_prio, charging_profile
  feats_loaded, \* uw_feats_loaded
  uw_feats,     \* of tuxedo_io: set once a device has been identified
  tdp_min_defs, tdp_max_defs, \* tables, by name, or Null
  tdp,          \* tdp[i]: register 0x0783 + i
  webcam,       \* 1 if it is on
  firmware,     \* firmware[m]: what Clevo method m was given last
  asked         \* history: the states asked of the webcam by calls that overlap

features == <<feats, feats_loaded, uw_feats>>
limits == <<tdp_min_defs, tdp_max_defs>>
clevo == <<webcam, firmware, asked>>
ioVars == <<machine, features, limits, tdp, clevo>>
fans == <<env, registers, fans_initialized, wanted, chosen>>

Indices == 0 .. 2
Factory == 1000  \* TDP registers hold it before the first call

IoInit ==
  /\ FanInit
  /\ machine \in Machines /\ env = machine.env
  /\ universal = FALSE
  /\ feats = [model |-> Unknown, charging_prio |-> FALSE, charging_profile |-> FALSE]
  /\ feats_loaded = FALSE /\ uw_feats = FALSE
  /\ tdp_min_defs = Null /\ tdp_max_defs = Null
  /\ tdp = [i \in Indices |-> Factory]
  /\ webcam \in IF "webcam" \in machine.calls THEN 0 .. 1 ELSE {0}
  /\ firmware = [m \in Methods |-> 0]
  /\ asked = {}

BeginIo(c, args, steps) == args[1] \in machine.calls /\ Start(c, args, steps)

-----------------------------------------------------------------------------
(***************************************************************************)
(* uniwill_get_device_features: called by the probe of the keyboard driver *)
(* and by uniwill_identify, which tuxedo_io runs when it is loaded and for *)
(* R_HWCHECK_UW                                                            *)
(***************************************************************************)

GetFeatures(c) ==
  BeginIo(c, <<"features">>, <<"check_loaded">>) /\ UNCHANGED ioVars

Identify(c) ==
  /\ BeginIo(c, <<"identify">>, <<"check_loaded", "assign_feats", "id_tdp", "assign_max">>)
  /\ UNCHANGED ioVars

\* data[c].complete: feats_loaded, the local variable.
CheckLoaded(c) ==
  /\ At(c, "check_loaded")
  /\ IF feats_loaded THEN Proceed(c)
     ELSE /\ todo' = [todo EXCEPT ![c] =
                 <<"read_model", "read_priority", "read_profile", "read_ecfans",
                   "set_loaded">> \o Tail(@)]
          /\ data' = [data EXCEPT ![c] = [complete |-> TRUE]]
          /\ UNCHANGED call
  /\ UNCHANGED <<fans, universal, ioVars>>

\* A read that may fail; the caller goes on and remembers.
Fails(c, failed) ==
  /\ failed => env.faults
  /\ ProceedWith(c, [complete |-> data[c].complete /\ ~failed])
  /\ UNCHANGED <<fans, machine, feats_loaded, uw_feats, limits, tdp, clevo>>

\* Straight into the cache.
ReadModel(c) ==
  /\ At(c, "read_model")
  /\ \E failed \in BOOLEAN :
       /\ Fails(c, failed)
       /\ feats' = [feats EXCEPT !.model = IF failed THEN Unknown ELSE machine.model]
  /\ UNCHANGED universal

\* uw_has_charging_priority and uw_has_charging_profile: boards that have
\* neither are not asked.
ReadPriority(c) ==
  /\ At(c, "read_priority")
  /\ \E failed \in IF machine.nocharging THEN {FALSE} ELSE BOOLEAN :
       /\ Fails(c, failed)
       /\ feats' = IF failed THEN feats
                   ELSE [feats EXCEPT !.charging_prio =
                           machine.priority /\ ~machine.nocharging]
  /\ UNCHANGED universal

ReadProfile(c) ==
  /\ At(c, "read_profile")
  /\ \E failed \in IF machine.nocharging THEN {FALSE} ELSE BOOLEAN :
       /\ Fails(c, failed)
       /\ feats' = IF failed THEN feats
                   ELSE [feats EXCEPT !.charging_profile =
                           machine.profile /\ ~machine.nocharging]
  /\ UNCHANGED universal

\* has_universal_ec_fan_control: by the model in the cache, or from the EC.
ReadEcFans(c) ==
  /\ At(c, "read_ecfans")
  /\ \E failed \in IF feats.model = "ph4trx" THEN {FALSE} ELSE BOOLEAN :
       /\ Fails(c, failed)
       /\ universal' = IF failed THEN universal
                       ELSE machine.ecfans /\ feats.model # "ph4trx"
  /\ UNCHANGED feats

\* Mutant: the features count as loaded although a read has failed.
SetLoadedAlways(c) ==
  /\ At(c, "set_loaded")
  /\ feats_loaded' = TRUE
  /\ Proceed(c)
  /\ UNCHANGED <<fans, universal, machine, feats, uw_feats, limits, tdp, clevo>>

SetLoaded(c) ==
  /\ At(c, "set_loaded")
  /\ feats_loaded' = data[c].complete
  /\ Proceed(c)
  /\ UNCHANGED <<fans, universal, machine, feats, uw_feats, limits, tdp, clevo>>

\* Complete or not.
AssignFeats(c) ==
  /\ At(c, "assign_feats")
  /\ uw_feats' = TRUE
  /\ Proceed(c)
  /\ UNCHANGED <<fans, universal, machine, feats, feats_loaded, limits, tdp, clevo>>

FeatureStep(c) ==
  \/ GetFeatures(c) \/ Identify(c) \/ CheckLoaded(c)
  \/ ReadModel(c) \/ ReadPriority(c) \/ ReadProfile(c) \/ ReadEcFans(c)
  \/ SetLoaded(c) \/ AssignFeats(c)

-----------------------------------------------------------------------------
(***************************************************************************)
(* TDP: uw_id_tdp, uw_get_tdp_min, uw_get_tdp_max, uw_set_tdp              *)
(***************************************************************************)

Tdp(name) ==
  LET Table(min, max) == [min |-> min, max |-> max]
      all5 == <<5, 5, 5>>  two5 == <<5, 5, 0>> IN
  CASE name = "ph4tux"  -> Table(two5, <<38, 38, 0>>)
    [] name \in {"ph4trx", "ph4tqx"} -> Table(two5, <<50, 50, 0>>)
    [] name = "ph4axx"  -> Table(two5, <<45, 60, 0>>)
    [] name = "phxpxx"  -> Table(all5, <<45, 60, 110>>)
    [] name = "pfxluxg" -> Table(all5, <<35, 35, 40>>)
    [] name \in {"gmxngxx", "gmxzgxx"} -> Table(all5, <<80, 80, 95>>)
    [] name \in {"gmxmgxx", "gmxtgxx"} -> Table(all5, <<120, 120, 200>>)
    [] name = "gmxagxx" -> Table(all5, <<120, 120, 215>>)
    [] name = "gmxrgxx" -> Table(all5, <<100, 100, 110>>)
    [] name = "gmxpxxx" -> Table(all5, <<130, 130, 200>>)
    [] name = "gmxxgxx" -> Table(all5, <<80, 80, 100>>)

\* The table for a model number, and if there is none the one for a name.
TableOf(model, sku) ==
  CASE model # Unknown -> model
    [] sku # Unknown   -> sku
    [] OTHER           -> Null

\* First the lower limits ...
IdTdp(c) ==
  /\ At(c, "id_tdp")
  /\ tdp_min_defs' = TableOf(feats.model, machine.sku)
  /\ ProceedWith(c, [table |-> TableOf(feats.model, machine.sku)])
  /\ UNCHANGED <<fans, universal, machine, features, tdp_max_defs, tdp, clevo>>

\* ... then the upper ones.
AssignMax(c) ==
  /\ At(c, "assign_max")
  /\ tdp_max_defs' = data[c].table
  /\ Proceed(c)
  /\ UNCHANGED <<fans, universal, machine, features, tdp_min_defs, tdp, clevo>>

ENODEV == -19

\* Mutant: an index that is not there is not told from one whose limit is 0.
LimitUnchecked(defs, bound, i) ==
  IF defs = Null THEN ENODEV ELSE Tdp(defs)[bound][i + 1]

\* The limit, or an error for a device or an index without one.
Limit(defs, bound, i) ==
  IF defs = Null THEN ENODEV
  ELSE LET l == Tdp(defs)[bound][i + 1] IN IF l <= 0 THEN ENODEV ELSE l

\* The argument becomes a byte.
SetTdp(c, i, argument) ==
  /\ BeginIo(c, <<"tdp", i, argument % 256>>, <<"check_min">>)
  /\ UNCHANGED ioVars

CheckMin(c) ==
  /\ At(c, "check_min")
  /\ IF Limit(tdp_min_defs, "min", call[c][2]) < 0 THEN Proceed(c)
     ELSE Insert(c, <<"read_min", "read_max", "write_tdp">>)
  /\ UNCHANGED <<fans, universal, ioVars>>

\* The tables are looked up again.
ReadMin(c) ==
  /\ At(c, "read_min")
  /\ ProceedWith(c, [min |-> Limit(tdp_min_defs, "min", call[c][2])])
  /\ UNCHANGED <<fans, universal, ioVars>>

ReadMax(c) ==
  /\ At(c, "read_max")
  /\ ProceedWith(c, [min |-> data[c].min, max |-> Limit(tdp_max_defs, "max", call[c][2])])
  /\ UNCHANGED <<fans, universal, ioVars>>

WriteTdp(c) ==
  LET i == call[c][2]  new == call[c][3] IN
  /\ At(c, "write_tdp")
  /\ \E v \in IF new \in data[c].min .. data[c].max THEN Written(tdp[i], new)
              ELSE {tdp[i]} :
       tdp' = [tdp EXCEPT ![i] = v]
  /\ Proceed(c)
  /\ UNCHANGED <<fans, universal, machine, features, limits, clevo>>

TdpStep(c) ==
  \/ IdTdp(c) \/ AssignMax(c)
  \/ (\E i \in Indices, a \in TdpArguments : SetTdp(c, i, a))
  \/ CheckMin(c) \/ ReadMin(c) \/ ReadMax(c) \/ WriteTdp(c)

-----------------------------------------------------------------------------
(***************************************************************************)
(* clevo_ioctl_interface                                                   *)
(***************************************************************************)

SwitchWebcam(c, argument) ==
  /\ BeginIo(c, <<"webcam", argument % 2>>, <<"get_webcam", "set_webcam">>)
  /\ asked' = (IF Quiescent THEN {} ELSE asked) \cup {argument % 2}
  /\ UNCHANGED <<machine, features, limits, tdp, webcam, firmware>>

\* A method that fails leaves result as it was initialized, 0.
GetWebcam(c) ==
  /\ At(c, "get_webcam")
  /\ \E s \in Seen(webcam, 0) : ProceedWith(c, [state |-> s])
  /\ UNCHANGED <<fans, universal, ioVars>>

\* Mutant: the state is set whatever it is.
SetWebcamAlways(c) ==
  /\ At(c, "set_webcam")
  /\ webcam' \in Written(webcam, IF machine.toggles THEN 1 - webcam ELSE call[c][2])
  /\ Proceed(c)
  /\ UNCHANGED <<fans, universal, machine, features, limits, tdp, firmware, asked>>

\* Only set the state if it is not already the right one.
SetWebcam(c) ==
  /\ At(c, "set_webcam")
  /\ webcam' \in IF call[c][2] = data[c].state THEN {webcam}
                 ELSE Written(webcam, IF machine.toggles THEN 1 - webcam ELSE call[c][2])
  /\ Proceed(c)
  /\ UNCHANGED <<fans, universal, machine, features, limits, tdp, firmware, asked>>

Forward(c, method, argument) ==
  /\ BeginIo(c, <<"forward", method, argument>>, <<"evaluate">>)
  /\ UNCHANGED ioVars

\* Mutant: all of the argument is sent.
EvaluateUnmasked(c) ==
  LET m == call[c][2]  new == call[c][3] IN
  /\ At(c, "evaluate")
  /\ \E v \in Written(firmware[m], new) : firmware' = [firmware EXCEPT ![m] = v]
  /\ Proceed(c)
  /\ UNCHANGED <<fans, universal, machine, features, limits, tdp, webcam, asked>>

\* A profile is one byte, sent with the number of a sub-command above it.
Evaluate(c) ==
  LET m == call[c][2]
      new == IF m = "profile" THEN call[c][3] % 256 ELSE call[c][3] IN
  /\ At(c, "evaluate")
  /\ \E v \in Written(firmware[m], new) : firmware' = [firmware EXCEPT ![m] = v]
  /\ Proceed(c)
  /\ UNCHANGED <<fans, universal, machine, features, limits, tdp, webcam, asked>>

ClevoStep(c) ==
  \/ (\E a \in Settings : SwitchWebcam(c, a)) \/ GetWebcam(c) \/ SetWebcam(c)
  \/ (\E m \in Methods, a \in Settings : Forward(c, m, a)) \/ Evaluate(c)

-----------------------------------------------------------------------------
\* Userspace asks R_HWCHECK_UW before it sets fans; uw_feats is NULL before.
IoNext ==
  \E c \in Callers :
    \/ uw_feats /\ FanCall(c) /\ UNCHANGED ioVars
    \/ FanStep(c) /\ UNCHANGED ioVars
    \/ FeatureStep(c) \/ TdpStep(c) \/ ClevoStep(c)

IoSpec == IoInit /\ [][IoNext]_<<vars, ioVars>>

-----------------------------------------------------------------------------
(***************************************************************************)
(* Properties                                                              *)
(***************************************************************************)

IoTypeOK ==
  /\ TypeOK
  /\ machine \in Machines
  /\ feats \in [model : Models \cup {Unknown}, charging_prio : BOOLEAN,
                charging_profile : BOOLEAN]
  /\ {feats_loaded, uw_feats} \subseteq BOOLEAN
  /\ {tdp_min_defs, tdp_max_defs} \subseteq Models \cup Skus \cup {Null}
  /\ tdp \in [Indices -> 0 .. 255 \cup {Factory}]
  /\ webcam \in 0 .. 1 /\ asked \subseteq 0 .. 1
  /\ firmware \in [Methods -> Nat] /\ firmware["profile"] \in 0 .. 255

\* Callers fill the cache one at a time, or the EC answers all of them.
CacheIsSafe == ~(env.overlap /\ env.faults)

\* Once the features count as loaded nobody reads them again, so they are those
\* of the machine, however many identifications have failed before or ran at
\* the same time.
LoadedFeaturesAreRight ==
  CacheIsSafe /\ feats_loaded =>
    /\ feats.model = machine.model
    /\ feats.charging_prio = (machine.priority /\ ~machine.nocharging)
    /\ feats.charging_profile = (machine.profile /\ ~machine.nocharging)
    /\ universal = env.universal

\* The power limits in the EC are within what the table of this machine allows,
\* or untouched where it has none, although the lookup depends on how far the
\* identification has come and the tables are read one after another.
TdpWithinLimits ==
  LET name == TableOf(machine.model, machine.sku) IN
  CacheIsSafe =>
    \A i \in {j \in Indices : tdp[j] # Factory} :
      /\ name # Null /\ Tdp(name).min[i + 1] > 0
      /\ tdp[i] \in Tdp(name).min[i + 1] .. Tdp(name).max[i + 1]

\* When calls that switch the webcam have returned it is in a state one of
\* them asked for, also with firmware that toggles on every write as long as
\* they do not overlap.
WebcamAsAsked ==
  ~env.faults /\ ~(machine.toggles /\ env.overlap) /\ Quiescent /\ asked # {} =>
    webcam \in asked

=============================================================================
