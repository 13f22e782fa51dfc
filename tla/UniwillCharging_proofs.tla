----------------------- MODULE UniwillCharging_proofs -----------------------
(***************************************************************************)
(* Theorems about UniwillCharging, for any overlaps and with EC accesses   *)
(* that fail at any point: types, and that the bits of others are kept;    *)
(* and, one call at a time, that the priority survives the charger.        *)
(***************************************************************************)
EXTENDS UniwillCharging, TLAPS

Kept == [value : 0 .. 3, rest : {"kept"}]

\* What a context holds while it is at work: the copy it has read is complete.
CallOK(c) ==
  \/ call[c] = Idle
  \/ call[c] \in [op : {"read", "assign"}, reg : {"prio"}, value : Priorities]
  \/ call[c] \in [op : {"read", "assign"}, reg : {"profile"}, value : Profiles]
  \/ call[c] \in [op : {"write"}, reg : {"prio"}, value : Priorities, seen : Kept]
  \/ call[c] \in [op : {"write"}, reg : {"profile"}, value : Profiles, seen : Kept]
  \/ call[c] = [op |-> "init"]
  \/ call[c] \in [op : {"init_assign"}, value : Priorities]

\* The registers can only stay as they were if every copy that will be written
\* back is: that is what makes the invariant inductive.
TypeInv ==
  /\ env \in Environments
  /\ prio \in [value : Priorities, rest : {"kept"}]
  /\ profile \in Kept
  /\ {bound, files, loaded, adapter} \subseteq BOOLEAN
  /\ last \in Priorities
  /\ wanted \in Priorities \cup {Unset}
  /\ call = [c \in Contexts |-> call[c]]
  /\ \A c \in Contexts : CallOK(c)

LEMMA InitType == Init => TypeInv
<1> SUFFICES ASSUME Init PROVE TypeInv
  OBVIOUS
<1>1. /\ env \in Environments
      /\ prio \in [value : Priorities, rest : {"kept"}]
      /\ last \in Priorities /\ wanted \in Priorities \cup {Unset}
  BY DEF Init, Priorities
<1>2. profile \in Kept
  BY DEF Init, Profiles, Kept
<1>3. {bound, files, loaded, adapter} \subseteq BOOLEAN
  BY DEF Init
<1>4. call = [c \in Contexts |-> call[c]] /\ \A c \in Contexts : CallOK(c)
  BY DEF Init, CallOK
<1> QED BY <1>1, <1>2, <1>3, <1>4 DEF TypeInv

\* One context moves on, to a call that is as it should be.
LEMMA CallMoves ==
  ASSUME TypeInv, NEW c \in Contexts, NEW next, Goto(c, next),
         \/ next = Idle
         \/ next \in [op : {"read", "assign"}, reg : {"prio"}, value : Priorities]
         \/ next \in [op : {"read", "assign"}, reg : {"profile"}, value : Profiles]
         \/ next \in [op : {"write"}, reg : {"prio"}, value : Priorities, seen : Kept]
         \/ next \in [op : {"write"}, reg : {"profile"}, value : Profiles, seen : Kept]
         \/ next = [op |-> "init"]
         \/ next \in [op : {"init_assign"}, value : Priorities]
  PROVE  /\ call' = [d \in Contexts |-> call'[d]]
         /\ \A d \in Contexts : CallOK(d)'
  BY DEF TypeInv, Goto, CallOK

LEMMA BeginGoes == \A c, start : Begin(c, start) => Goto(c, start)
  BY DEF Begin, Goto

LEMMA NextType == TypeInv /\ [Next]_vars => TypeInv'
<1> SUFFICES ASSUME TypeInv, [Next]_vars PROVE TypeInv'
  OBVIOUS
<1> {"sysfs1", "sysfs2", "event", "driver"} \subseteq Contexts
  BY DEF Contexts
<1>1. ASSUME NEW c \in {"sysfs1", "sysfs2"}, NEW v \in Priorities, StorePriority(c, v)
      PROVE  TypeInv'
  <2>1. Set("prio", v) \in [op : {"read", "assign"}, reg : {"prio"}, value : Priorities]
    BY DEF Set
  <2>2. Goto(c, Set("prio", v))
    BY <1>1, BeginGoes DEF StorePriority
  <2> QED BY <1>1, <2>1, <2>2, CallMoves DEF StorePriority, TypeInv
<1>2. ASSUME NEW c \in {"sysfs1", "sysfs2"}, NEW v \in Profiles, StoreProfile(c, v)
      PROVE  TypeInv'
  <2>1. Set("profile", v) \in [op : {"read", "assign"}, reg : {"profile"}, value : Profiles]
    BY DEF Set
  <2>2. Goto(c, Set("profile", v))
    BY <1>2, BeginGoes DEF StoreProfile
  <2> QED BY <1>2, <2>1, <2>2, CallMoves DEF StoreProfile, TypeInv
<1>3. ASSUME NEW v \in Priorities, Plug(v) PROVE TypeInv'
  BY <1>3 DEF Plug, TypeInv, CallOK
<1>4. CASE HandleAdapter
  <2> DEFINE next == IF loaded THEN Set("prio", last) ELSE Idle
  <2>1. Set("prio", last) \in [op : {"read", "assign"}, reg : {"prio"}, value : Priorities]
    BY DEF Set, TypeInv
  <2>2. Goto("event", next)
    BY <1>4, BeginGoes DEF HandleAdapter
  <2>3. next = Idle \/ next = Set("prio", last)
    OBVIOUS
  <2>4. /\ call' = [d \in Contexts |-> call'[d]]
        /\ \A d \in Contexts : CallOK(d)'
    BY <2>1, <2>2, <2>3, CallMoves
  <2> QED BY <1>4, <2>4 DEF HandleAdapter, TypeInv
<1>5. ASSUME NEW c \in Contexts, Read(c) PROVE TypeInv'
  <2>1. CallOK(c)
    BY DEF TypeInv
  <2>2. \/ call[c] \in [op : {"read", "assign"}, reg : {"prio"}, value : Priorities]
        \/ call[c] \in [op : {"read", "assign"}, reg : {"profile"}, value : Profiles]
    BY <1>5, <2>1 DEF Read, CallOK, Idle
  <2>3. RegisterOf(call[c].reg) \in Kept
    BY DEF RegisterOf, TypeInv, Kept, Priorities
  <2>4. CASE Return(c)
    BY <1>5, <2>4, CallMoves DEF Return, Read, TypeInv
  <2>5. CASE Goto(c, [op |-> "write", reg |-> call[c].reg, value |-> call[c].value,
                      seen |-> RegisterOf(call[c].reg)])
    <3> DEFINE next == [op |-> "write", reg |-> call[c].reg, value |-> call[c].value,
                        seen |-> RegisterOf(call[c].reg)]
    <3>1. \/ next \in [op : {"write"}, reg : {"prio"}, value : Priorities, seen : Kept]
          \/ next \in [op : {"write"}, reg : {"profile"}, value : Profiles, seen : Kept]
      BY <2>2, <2>3
    <3>2. Goto(c, next)
      BY <2>5
    <3> HIDE DEF next
    <3>3. /\ call' = [d \in Contexts |-> call'[d]]
          /\ \A d \in Contexts : CallOK(d)'
      BY <3>1, <3>2, CallMoves
    <3> QED BY <1>5, <3>3 DEF Read, TypeInv
  <2> QED BY <1>5, <2>4, <2>5 DEF Read
<1>6. ASSUME NEW c \in Contexts, Write(c) PROVE TypeInv'
  <2>1. CallOK(c)
    BY DEF TypeInv
  <2>2. \/ call[c] \in [op : {"write"}, reg : {"prio"}, value : Priorities, seen : Kept]
        \/ call[c] \in [op : {"write"}, reg : {"profile"}, value : Profiles, seen : Kept]
    BY <1>6, <2>1 DEF Write, CallOK, Idle
  <2>3. CASE Return(c) /\ UNCHANGED <<prio, profile>>
    BY <1>6, <2>3, CallMoves DEF Return, Write, TypeInv
  <2>4. CASE ~(Return(c) /\ UNCHANGED <<prio, profile>>)
    <3> DEFINE new == [call[c].seen EXCEPT !.value = call[c].value]
               next == [op |-> "assign", reg |-> call[c].reg, value |-> call[c].value]
    <3>1. /\ IF call[c].reg = "prio" THEN prio' = new /\ UNCHANGED profile
             ELSE profile' = new /\ UNCHANGED prio
          /\ Goto(c, next)
      BY <1>6, <2>4 DEF Write
    <3>2. \/ next \in [op : {"read", "assign"}, reg : {"prio"}, value : Priorities]
          \/ next \in [op : {"read", "assign"}, reg : {"profile"}, value : Profiles]
      BY <2>2
    <3>3. /\ call[c].reg = "prio" => new \in [value : Priorities, rest : {"kept"}]
          /\ call[c].reg # "prio" => new \in Kept
      BY <2>2 DEF Kept, Profiles
    <3>4. prio' \in [value : Priorities, rest : {"kept"}] /\ profile' \in Kept
      BY <3>1, <3>3 DEF TypeInv
    <3> HIDE DEF new, next
    <3>5. /\ call' = [d \in Contexts |-> call'[d]]
          /\ \A d \in Contexts : CallOK(d)'
      BY <3>1, <3>2, CallMoves
    <3> QED BY <1>6, <3>4, <3>5 DEF Write, TypeInv
  <2> QED BY <2>3, <2>4
<1>7. ASSUME NEW c \in Contexts, Assign(c) PROVE TypeInv'
  <2>1. CallOK(c)
    BY DEF TypeInv
  <2>2. call[c].reg = "prio" => call[c].value \in Priorities
    BY <1>7, <2>1 DEF Assign, CallOK, Idle
  <2> QED BY <1>7, <2>2, CallMoves DEF Assign, Return, TypeInv
<1>8. CASE Probe
  <2>1. Goto("driver", [op |-> "init"])
    BY <1>8, BeginGoes DEF Probe
  <2> QED BY <1>8, <2>1, CallMoves DEF Probe, TypeInv
<1>9. CASE InitRead
  <2>1. PICK seen \in {prio, Garbage} :
          Goto("driver", [op |-> "init_assign", value |-> seen.value])
    BY <1>9 DEF InitRead
  <2>2. seen.value \in Priorities
    BY DEF TypeInv, Garbage, Priorities
  <2>3. /\ call' = [d \in Contexts |-> call'[d]]
        /\ \A d \in Contexts : CallOK(d)'
    BY <2>1, <2>2, CallMoves
  <2> QED BY <1>9, <2>3 DEF InitRead, TypeInv
<1>10. CASE InitAssign
  <2>1. CallOK("driver")
    BY DEF TypeInv
  <2>2. call["driver"].value \in Priorities
    BY <1>10, <2>1 DEF InitAssign, CallOK, Idle
  <2> QED BY <1>10, <2>2, CallMoves DEF InitAssign, Return, TypeInv
<1>11. CASE Remove
  <2>1. Goto("driver", Idle)
    BY <1>11, BeginGoes DEF Remove
  <2> QED BY <1>11, <2>1, CallMoves DEF Remove, TypeInv
<1>12. CASE UNCHANGED vars
  BY <1>12 DEF vars, TypeInv, CallOK
<1> QED
  BY <1>1, <1>2, <1>3, <1>4, <1>5, <1>6, <1>7, <1>8, <1>9, <1>10, <1>11, <1>12 DEF Next

LEMMA TypeInvariant == Spec => []TypeInv
  BY InitType, NextType, PTL DEF Spec

\* Type correctness of the charging attributes.
THEOREM TypeCorrect == Spec => []TypeOK
<1>1. TypeInv => TypeOK
  BY DEF TypeInv, TypeOK, CallOK, Kept, Register, Priorities, Idle
<1> QED BY <1>1, TypeInvariant, PTL

\* No overlap of two writers of each attribute, the adapter event and probe,
\* and no failure in the middle of one, changes the bits of others.
THEOREM OthersArePreserved == Spec => []OthersPreserved
<1>1. TypeInv => OthersPreserved
  BY DEF TypeInv, OthersPreserved, Kept
<1> QED BY <1>1, TypeInvariant, PTL

-----------------------------------------------------------------------------
\* One call at a time on an EC that answers.
Single == env = [overlaps |-> {}, faults |-> FALSE]

SetsPriority(c) == call[c].op \in {"read", "write", "assign"} /\ call[c].reg = "prio"

\* What the property rests on, between and in the calls: what is remembered is
\* what was asked for; the event handler writes what is remembered; and the EC
\* has it, unless an event or a call that will write it is under way.
PlugInv ==
  /\ \A c, d \in Contexts : c = d \/ call[c] = Idle \/ call[d] = Idle
  /\ bound => loaded
  /\ files => bound
  /\ wanted # Unset => bound /\ last = wanted
  /\ \A c \in Contexts \ {"driver"} : call[c] # Idle => bound
  /\ call["driver"] # Idle => wanted = Unset
  /\ ~SetsPriority("driver")
  /\ SetsPriority("event") => call["event"].value = last
  /\ \A c \in Contexts :
       SetsPriority(c) /\ call[c].op = "assign" => adapter \/ prio.value = call[c].value
  /\ wanted # Unset /\ ~adapter => prio.value = last \/ \E c \in Contexts : SetsPriority(c)

LEMMA InitPlug == Init => PlugInv
  BY DEF Init, PlugInv, SetsPriority, Idle, Contexts

LEMMA SingleConstant == [Next]_vars => env' = env
  BY DEF Next, vars, StorePriority, StoreProfile, Plug, HandleAdapter, Read, Write, Assign,
         Probe, InitRead, InitAssign, Remove

\* Whoever begins is alone.
LEMMA BeginAlone ==
  ASSUME Single, NEW c, NEW start, Begin(c, start)
  PROVE  \A d \in Contexts : call[d] = Idle
  BY DEF Single, Begin

\* So is whoever goes on.
LEMMA RestIdle ==
  ASSUME PlugInv, NEW c \in Contexts, call[c] # Idle
  PROVE  \A d \in Contexts : d # c => call[d] = Idle
  BY DEF PlugInv

LEMMA NextPlug ==
  ASSUME Single, TypeInv, PlugInv, [Next]_vars
  PROVE  PlugInv'
<1> {"sysfs1", "sysfs2", "event", "driver"} = Contexts
  BY DEF Contexts
<1> USE DEF TypeInv
<1>1. ASSUME NEW c \in {"sysfs1", "sysfs2"}, NEW v \in Priorities, StorePriority(c, v)
      PROVE  PlugInv'
  <2>1. \A d \in Contexts : call[d] = Idle
    BY <1>1, BeginAlone DEF StorePriority
  <2> QED BY <1>1, <2>1 DEF StorePriority, Begin, Set, PlugInv, SetsPriority, Idle
<1>2. ASSUME NEW c \in {"sysfs1", "sysfs2"}, NEW v \in Profiles, StoreProfile(c, v)
      PROVE  PlugInv'
  <2>1. \A d \in Contexts : call[d] = Idle
    BY <1>2, BeginAlone DEF StoreProfile
  <2> QED BY <1>2, <2>1 DEF StoreProfile, Begin, Set, PlugInv, SetsPriority, Idle
<1>3. ASSUME NEW v \in Priorities, Plug(v) PROVE PlugInv'
  <2>1. UNCHANGED <<env, bound, files, loaded, last, wanted, call>>
    BY <1>3 DEF Plug
  <2>2. CASE bound
    <3>1. adapter'
      BY <1>3, <2>2 DEF Plug
    <3> QED BY <2>1, <3>1 DEF PlugInv, SetsPriority
  <2>3. CASE ~bound
    <3>1. wanted = Unset /\ \A c \in Contexts : ~SetsPriority(c)
      BY <2>3 DEF PlugInv, SetsPriority, Idle
    <3> QED BY <2>1, <3>1 DEF PlugInv, SetsPriority
  <2> QED BY <2>2, <2>3
<1>4. CASE HandleAdapter
  <2>1. \A d \in Contexts : call[d] = Idle
    BY <1>4, BeginAlone DEF HandleAdapter
  <2> QED BY <1>4, <2>1 DEF HandleAdapter, Begin, Set, PlugInv, SetsPriority, Idle
<1>5. ASSUME NEW c \in Contexts, Read(c) PROVE PlugInv'
  <2>1. call[c].op = "read" /\ call[c] # Idle
    BY <1>5 DEF Read, Idle
  <2>2. \A d \in Contexts : d # c => call[d] = Idle
    BY <2>1, RestIdle
  <2>3. Goto(c, [op |-> "write", reg |-> call[c].reg, value |-> call[c].value,
                 seen |-> RegisterOf(call[c].reg)])
    BY <1>5 DEF Read, Single
  <2> HIDE DEF RegisterOf
  <2> QED BY <1>5, <2>1, <2>2, <2>3 DEF Read, Goto, PlugInv, SetsPriority, Idle
<1>6. ASSUME NEW c \in Contexts, Write(c) PROVE PlugInv'
  <2>1. call[c].op = "write" /\ call[c] # Idle
    BY <1>6 DEF Write, Idle
  <2>2. \A d \in Contexts : d # c => call[d] = Idle
    BY <2>1, RestIdle
  <2>3. CallOK(c)
    OBVIOUS
  <2>4. Goto(c, [op |-> "assign", reg |-> call[c].reg, value |-> call[c].value])
    BY <1>6 DEF Write, Single
  <2>5. IF call[c].reg = "prio" THEN prio'.value = call[c].value ELSE prio' = prio
    BY <1>6, <2>1, <2>3 DEF Write, Single, CallOK, Kept, Idle
  <2>6. UNCHANGED <<env, bound, files, loaded, last, adapter, wanted>>
    BY <1>6 DEF Write
  <2> QED BY <2>1, <2>2, <2>4, <2>5, <2>6 DEF Goto, PlugInv, SetsPriority, Idle
<1>7. ASSUME NEW c \in Contexts, Assign(c) PROVE PlugInv'
  <2>1. call[c].op = "assign" /\ call[c] # Idle
    BY <1>7 DEF Assign, Idle
  <2>2. \A d \in Contexts : d # c => call[d] = Idle
    BY <2>1, RestIdle
  <2> QED BY <1>7, <2>1, <2>2 DEF Assign, Return, Goto, PlugInv, SetsPriority, Idle
<1>8. CASE Probe
  <2>1. \A d \in Contexts : call[d] = Idle
    BY <1>8, BeginAlone DEF Probe
  <2> QED BY <1>8, <2>1 DEF Probe, Begin, PlugInv, SetsPriority, Idle
<1>9. CASE InitRead \/ InitAssign
  <2>1. call["driver"] # Idle
    BY <1>9 DEF InitRead, InitAssign, Idle
  <2>2. \A d \in Contexts : d # "driver" => call[d] = Idle
    BY <2>1, RestIdle
  <2> QED BY <1>9, <2>1, <2>2 DEF InitRead, InitAssign, Return, Goto, PlugInv,
                                 SetsPriority, Idle
<1>10. CASE Remove
  <2>1. \A d \in Contexts : call[d] = Idle
    BY <1>10, BeginAlone DEF Remove
  <2> QED BY <1>10, <2>1 DEF Remove, Begin, PlugInv, SetsPriority, Idle
<1>11. CASE UNCHANGED vars
  BY <1>11 DEF vars, PlugInv, SetsPriority
<1> QED
  BY <1>1, <1>2, <1>3, <1>4, <1>5, <1>6, <1>7, <1>8, <1>9, <1>10, <1>11 DEF Next

\* With one call at a time, the EC has the charging priority userspace set last
\* when no event is pending, however often the charger was plugged in since.
THEOREM PriorityIsKept == Spec => []PrioritySurvivesPlug
<1> DEFINE Inv == Single => PlugInv
<1>1. Init => Inv
  BY InitPlug
<1>2. TypeInv /\ Inv /\ [Next]_vars => Inv'
  BY NextPlug, SingleConstant DEF Single
<1>3. Inv => PrioritySurvivesPlug
  BY DEF PlugInv, PrioritySurvivesPlug, Quiescent, Single, SetsPriority, Idle
<1> QED BY <1>1, <1>2, <1>3, TypeInvariant, PTL DEF Spec

=============================================================================
