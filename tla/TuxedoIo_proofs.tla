-------------------------- MODULE TuxedoIo_proofs --------------------------
(***************************************************************************)
(* Theorems about UniwillFan and TuxedoIo, for any callers, speeds and     *)
(* machines: the calls that share register 0x0751 never mix two profiles   *)
(* in it, alone and in the presence of all the other calls; what the       *)
(* feature cache holds, the limits of the thermal design power, and the    *)
(* webcam; that a fan's speed, automatic control and the profile stay in   *)
(* force; and the types of all of it.                                      *)
(***************************************************************************)
EXTENDS TuxedoIo, SequenceTheorems, TLAPS

-----------------------------------------------------------------------------
(***************************************************************************)
(* Lists of steps                                                          *)
(***************************************************************************)

IsList(s) == \E S : s \in Seq(S)

\* B maps some steps to the one that has to come before them.  In the rest of a
\* call they come right after it ...
Follows(s, B) ==
  \A i \in 1 .. Len(s) : i > 1 /\ s[i] \in DOMAIN B => s[i - 1] = B[s[i]]
\* ... unless the one before has been done just now.
Anew(s, B) == s # <<>> => s[1] \notin DOMAIN B
NoneAfter(step, B) == \A x \in DOMAIN B : B[x] # step

LEMMA TailFollows ==
  ASSUME NEW B, NEW s, IsList(s), s # <<>>, Follows(s, B)
  PROVE  /\ IsList(Tail(s)) /\ Follows(Tail(s), B)
         /\ ~Anew(Tail(s), B) =>
              Len(s) # 1 /\ Tail(s) # <<>> /\ s[1] = B[Tail(s)[1]]
<1> PICK S : s \in Seq(S)
  BY DEF IsList
<1>1. /\ Tail(s) \in Seq(S) /\ Len(Tail(s)) = Len(s) - 1 /\ Len(s) \in Nat \ {0}
      /\ \A i \in 1 .. Len(s) - 1 : Tail(s)[i] = s[i + 1]
  OBVIOUS
<1>2. Follows(Tail(s), B)
  <2> SUFFICES ASSUME NEW i \in 1 .. Len(Tail(s)), i > 1, Tail(s)[i] \in DOMAIN B
               PROVE  Tail(s)[i - 1] = B[Tail(s)[i]]
    BY DEF Follows
  <2>1. /\ i \in 1 .. Len(s) - 1 /\ i - 1 \in 1 .. Len(s) - 1
        /\ i + 1 \in 1 .. Len(s) /\ i + 1 > 1 /\ (i + 1) - 1 = i /\ (i - 1) + 1 = i
    BY <1>1
  <2>2. Tail(s)[i] = s[i + 1] /\ Tail(s)[i - 1] = s[i]
    BY <1>1, <2>1
  <2> QED BY <2>1, <2>2 DEF Follows
<1>3. ASSUME ~Anew(Tail(s), B)
      PROVE  Len(s) # 1 /\ Tail(s) # <<>> /\ s[1] = B[Tail(s)[1]]
  <2>1. Tail(s) # <<>> /\ Tail(s)[1] \in DOMAIN B
    BY <1>3 DEF Anew
  <2>2. Len(s) # 1 /\ 2 \in 1 .. Len(s) /\ Tail(s)[1] = s[2] /\ 2 - 1 = 1
    BY <1>1, <2>1
  <2> QED BY <2>1, <2>2 DEF Follows
<1> QED BY <1>1, <1>2, <1>3 DEF IsList

\* Steps put before the rest of a call.
LEMMA InsertFollows ==
  ASSUME NEW B, NEW s, NEW t, IsList(s), IsList(t), s # <<>>,
         Follows(s, B), Follows(t, B), Anew(t, B)
  PROVE  IsList(s \o t) /\ Follows(s \o t, B) /\ s \o t # <<>> /\ (s \o t)[1] = s[1]
<1> PICK S, T : s \in Seq(S) /\ t \in Seq(T)
  BY DEF IsList
<1>1. s \in Seq(S \cup T) /\ t \in Seq(S \cup T)
  OBVIOUS
<1>2. /\ s \o t \in Seq(S \cup T) /\ Len(s \o t) = Len(s) + Len(t)
      /\ Len(s) \in Nat \ {0} /\ Len(t) \in Nat
      /\ \A i \in 1 .. Len(s) : (s \o t)[i] = s[i]
      /\ \A i \in 1 .. Len(t) : (s \o t)[Len(s) + i] = t[i]
  BY <1>1
<1>3. ASSUME NEW i \in 1 .. Len(s \o t), i > 1, (s \o t)[i] \in DOMAIN B
      PROVE  (s \o t)[i - 1] = B[(s \o t)[i]]
  <2>1. CASE i <= Len(s)
    <3>1. i \in 1 .. Len(s) /\ i - 1 \in 1 .. Len(s)
      BY <1>2, <1>3, <2>1
    <3>2. (s \o t)[i] = s[i] /\ (s \o t)[i - 1] = s[i - 1]
      BY <1>2, <3>1
    <3> QED BY <1>3, <3>1, <3>2 DEF Follows
  <2>2. CASE i = Len(s) + 1
    <3>1. (s \o t)[i] = t[1] /\ t # <<>>
      BY <1>2, <2>2
    <3> QED BY <1>3, <3>1 DEF Anew
  <2>3. CASE i > Len(s) + 1
    <3> DEFINE j == i - Len(s)
    <3>1. /\ j \in 1 .. Len(t) /\ j > 1 /\ j - 1 \in 1 .. Len(t)
          /\ (s \o t)[Len(s) + j] = t[j] /\ (s \o t)[Len(s) + (j - 1)] = t[j - 1]
      BY <1>2, <2>3
    <3>2. Len(s) + j = i /\ Len(s) + (j - 1) = i - 1
      BY <1>2
    <3> QED BY <1>3, <3>1, <3>2 DEF Follows
  <2>4. i <= Len(s) \/ i = Len(s) + 1 \/ i > Len(s) + 1
    BY <1>2
  <2> QED BY <2>1, <2>2, <2>3, <2>4
<1>4. (s \o t)[1] = s[1] /\ s \o t # <<>>
  BY <1>2
<1> QED BY <1>2, <1>3, <1>4 DEF IsList, Follows

ListsInv(B) ==
  /\ todo = [c \in Callers |-> todo[c]]
  /\ call = [c \in Callers |-> call[c]]
  /\ data = [c \in Callers |-> data[c]]
  /\ \A c \in Callers : IsList(todo[c]) /\ Follows(todo[c], B)

\* Nothing happens to the other calls.
OnlyMoves(c) ==
  \A b \in Callers \ {c} : todo'[b] = todo[b] /\ call'[b] = call[b] /\ data'[b] = data[b]

\* A call begins.
LEMMA StartFollows ==
  ASSUME NEW CONSTANT B, ListsInv(B), NEW c \in Callers, NEW args,
         NEW steps, IsList(steps), Follows(steps, B), Start(c, args, steps)
  PROVE  ListsInv(B)' /\ OnlyMoves(c) /\ todo'[c] = steps /\ call'[c] = args
<1>1. /\ OnlyMoves(c) /\ todo'[c] = steps /\ call'[c] = args /\ data' = data
      /\ todo' = [b \in Callers |-> todo'[b]] /\ call' = [b \in Callers |-> call'[b]]
  BY DEF ListsInv, Start, OnlyMoves
<1>2. ASSUME NEW b \in Callers PROVE IsList(todo'[b]) /\ Follows(todo'[b], B)
  BY <1>1 DEF ListsInv, OnlyMoves
<1>3. ASSUME NEW b \in Callers PROVE IsList(todo[b])' /\ Follows(todo[b], B)'
  BY <1>2 DEF IsList, Follows
<1> QED BY <1>1, <1>3 DEF ListsInv

\* A step is done that has read d.
LEMMA ProceedFollows ==
  ASSUME NEW CONSTANT B, ListsInv(B), NEW c \in Callers, ~Idle(c),
         NEW d, ProceedWith(c, d)
  PROVE  /\ ListsInv(B)' /\ OnlyMoves(c)
         /\ ~Anew(todo'[c], B) =>
              /\ todo'[c] # <<>> /\ Head(todo[c]) = B[todo'[c][1]]
              /\ data'[c] = d /\ call'[c] = call[c]
<1>1. IsList(todo[c]) /\ todo[c] # <<>> /\ Follows(todo[c], B)
  BY DEF ListsInv, Idle
<1>2. /\ todo' = [b \in Callers |-> todo'[b]] /\ call' = [b \in Callers |-> call'[b]]
      /\ data' = [b \in Callers |-> data'[b]]
      /\ OnlyMoves(c) /\ todo'[c] = Tail(todo[c])
      /\ Len(todo[c]) # 1 => data'[c] = d /\ call'[c] = call[c]
  BY DEF ListsInv, ProceedWith, OnlyMoves
<1>3. ASSUME NEW b \in Callers PROVE IsList(todo'[b]) /\ Follows(todo'[b], B)
  <2>1. CASE b = c
    BY <1>1, <1>2, <2>1, TailFollows
  <2>2. CASE b # c
    BY <1>2, <2>2 DEF ListsInv, OnlyMoves
  <2> QED BY <2>1, <2>2
<1>4. ASSUME NEW b \in Callers PROVE IsList(todo[b])' /\ Follows(todo[b], B)'
  BY <1>3 DEF IsList, Follows
<1>5. ASSUME ~Anew(todo'[c], B)
      PROVE  /\ todo'[c] # <<>> /\ Head(todo[c]) = B[todo'[c][1]]
             /\ data'[c] = d /\ call'[c] = call[c]
  <2>1. Len(todo[c]) # 1 /\ todo'[c] # <<>> /\ todo[c][1] = B[todo'[c][1]]
    BY <1>1, <1>2, <1>5, TailFollows
  <2>2. Head(todo[c]) = todo[c][1]
    BY <1>1 DEF IsList
  <2> QED BY <1>2, <2>1, <2>2
<1> QED BY <1>2, <1>4, <1>5 DEF ListsInv

\* Steps are put before the rest of a call, for what d says.
Inserts(c, steps, d) ==
  /\ todo' = [todo EXCEPT ![c] = steps \o Tail(@)]
  /\ data' = [data EXCEPT ![c] = d]
  /\ call' = call

LEMMA InsertedFollow ==
  ASSUME NEW CONSTANT B, ListsInv(B), NEW c \in Callers, ~Idle(c),
         NoneAfter(Head(todo[c]), B),
         NEW steps, IsList(steps), steps # <<>>, Follows(steps, B),
         NEW d, Inserts(c, steps, d)
  PROVE  /\ ListsInv(B)' /\ OnlyMoves(c)
         /\ todo'[c] # <<>> /\ todo'[c][1] = steps[1] /\ data'[c] = d
<1>1. IsList(todo[c]) /\ todo[c] # <<>> /\ Follows(todo[c], B)
  BY DEF ListsInv, Idle
<1>2. Head(todo[c]) = todo[c][1]
  BY <1>1 DEF IsList
<1>3. IsList(Tail(todo[c])) /\ Follows(Tail(todo[c]), B) /\ Anew(Tail(todo[c]), B)
  BY <1>1, <1>2, TailFollows DEF Anew, NoneAfter
<1>4. /\ IsList(steps \o Tail(todo[c])) /\ Follows(steps \o Tail(todo[c]), B)
      /\ steps \o Tail(todo[c]) # <<>> /\ (steps \o Tail(todo[c]))[1] = steps[1]
  BY <1>3, InsertFollows
<1>5. /\ todo' = [b \in Callers |-> todo'[b]] /\ data' = [b \in Callers |-> data'[b]]
      /\ OnlyMoves(c) /\ todo'[c] = steps \o Tail(todo[c]) /\ data'[c] = d
  BY DEF ListsInv, OnlyMoves, Inserts
<1>6. ASSUME NEW b \in Callers PROVE IsList(todo'[b]) /\ Follows(todo'[b], B)
  BY <1>4, <1>5 DEF ListsInv, OnlyMoves
<1>7. ASSUME NEW b \in Callers PROVE IsList(todo[b])' /\ Follows(todo[b], B)'
  BY <1>6 DEF IsList, Follows
<1> QED BY <1>4, <1>5, <1>7 DEF ListsInv, Inserts

-----------------------------------------------------------------------------
(***************************************************************************)
(* The profile in register 0x0751                                          *)
(***************************************************************************)

\* The profiles that can be chosen, and values of the register with one of
\* them; the other fields do not matter.
Profiles == {"0xa0", "0x00", "0x10"}
PureMode(m) == \E F, R : m \in [full : F, profile : Profiles, rest : R]

\* The steps that write back the copy taken of the register, after its read.
WritesBack == {"write_profile", "not_full_mode", "set_full_mode", "leave_full_mode"}
AfterRead == [x \in WritesBack |-> "read_mode"]

\* The register can only stay unmixed if the copies are that are written next.
ProfileInv ==
  /\ PureMode(mode)
  /\ ListsInv(AfterRead)
  /\ \A c \in Callers : Anew(todo[c], AfterRead) \/ PureMode(data[c])

\* Changes of the other fields keep the profile, and a new profile is pure.
LEMMA UpdatesKeepPure ==
  ASSUME NEW m, PureMode(m), NEW f, NEW p \in Profiles
  PROVE  PureMode([m EXCEPT !.full = f]) /\ PureMode([m EXCEPT !.profile = p])
<1> PICK F, R : m \in [full : F, profile : Profiles, rest : R]
  BY DEF PureMode
<1>1. [m EXCEPT !.full = f] \in [full : F \cup {f}, profile : Profiles, rest : R]
  OBVIOUS
<1>2. [m EXCEPT !.profile = p] \in [full : F, profile : Profiles, rest : R]
  OBVIOUS
<1> QED BY <1>1, <1>2 DEF PureMode

LEMMA BitsArePure == \A p : Bits(p) \in Profiles
  BY DEF Bits, Profiles

LEMMA OthersStayPure ==
  ASSUME ProfileInv, NEW c \in Callers, ListsInv(AfterRead)', OnlyMoves(c), PureMode(mode'),
         Anew(todo'[c], AfterRead) \/ PureMode(data'[c])
  PROVE  ProfileInv'
<1>1. ASSUME NEW b \in Callers PROVE Anew(todo'[b], AfterRead) \/ PureMode(data'[b])
  BY DEF ProfileInv, OnlyMoves
<1>2. ASSUME NEW b \in Callers PROVE Anew(todo[b], AfterRead)' \/ PureMode(data[b])'
  BY <1>1 DEF Anew, PureMode, AfterRead
<1> QED BY <1>2 DEF ProfileInv, PureMode

LEMMA StartKeepsPure ==
  ASSUME ProfileInv, NEW c \in Callers, NEW args, NEW steps, IsList(steps),
         Follows(steps, AfterRead), Anew(steps, AfterRead), Start(c, args, steps)
  PROVE  ProfileInv'
<1>1. ListsInv(AfterRead)' /\ OnlyMoves(c) /\ todo'[c] = steps
  BY StartFollows DEF ProfileInv
<1>2. mode' = mode
  BY DEF Start, registers
<1> QED BY <1>1, <1>2, OthersStayPure DEF ProfileInv

\* A step that is no read of the register ends, whatever it has read.
LEMMA ProceedKeepsPure ==
  ASSUME ProfileInv, NEW c \in Callers, ~Idle(c), Head(todo[c]) # "read_mode",
         NEW d, ProceedWith(c, d), PureMode(mode')
  PROVE  ProfileInv'
<1>1. /\ ListsInv(AfterRead)' /\ OnlyMoves(c)
      /\ ~Anew(todo'[c], AfterRead) => Head(todo[c]) = AfterRead[todo'[c][1]]
  BY ProceedFollows DEF ProfileInv
<1>2. Anew(todo'[c], AfterRead)
  BY <1>1 DEF Anew, AfterRead
<1> QED BY <1>1, <1>2, OthersStayPure

\* The read of the register.
LEMMA ReadKeepsPure ==
  ASSUME ProfileInv, NEW c \in Callers, ~Idle(c), ProceedWith(c, mode), mode' = mode
  PROVE  ProfileInv'
<1>1. /\ ListsInv(AfterRead)' /\ OnlyMoves(c)
      /\ ~Anew(todo'[c], AfterRead) => data'[c] = mode
  BY ProceedFollows DEF ProfileInv
<1> QED BY <1>1, OthersStayPure DEF ProfileInv

LEMMA InsertKeepsPure ==
  ASSUME ProfileInv, NEW c \in Callers, ~Idle(c), Head(todo[c]) # "read_mode",
         NEW steps, IsList(steps), steps # <<>>,
         Follows(steps, AfterRead), Anew(steps, AfterRead),
         NEW d, Inserts(c, steps, d), mode' = mode
  PROVE  ProfileInv'
<1> NoneAfter(Head(todo[c]), AfterRead)
  BY DEF AfterRead, NoneAfter
<1>1. /\ ListsInv(AfterRead)' /\ OnlyMoves(c)
      /\ todo'[c] # <<>> /\ todo'[c][1] = steps[1]
  BY InsertedFollow DEF ProfileInv
<1>2. Anew(todo'[c], AfterRead)
  BY <1>1 DEF Anew
<1> QED BY <1>1, <1>2, OthersStayPure DEF ProfileInv

\* The lists of steps in the code of UniwillFan: calls, and what they insert.
FanCalls ==
  {<<"check_init", "write_table">>,
   <<"read_mode", "use_full_mode">>,
   <<"read_custom", "clear_custom", "read_separate", "clear_separate", "uninit">>,
   <<"read_mode", "leave_full_mode">>,
   <<"read_mode", "write_profile">>,
   <<"write_mode">>}
FanInserts ==
  {<<"init_done">>,
   <<"write_fan">>,
   <<"read_mode", "not_full_mode", "read_separate", "set_separate",
    "zero_cpu", "zero_gpu", "read_custom", "set_custom", "init_done">>,
   <<"read_mode", "set_full_mode", "write_both">>}

LEMMA StepsAreOrdered ==
  ASSUME NEW s \in FanCalls \cup FanInserts
  PROVE  IsList(s) /\ s # <<>> /\ Follows(s, AfterRead) /\ Anew(s, AfterRead)
<1> DEFINE Ordered(l) ==
      IsList(l) /\ l # <<>> /\ Follows(l, AfterRead) /\ Anew(l, AfterRead)
<1>1. Ordered(<<"check_init", "write_table">>)
  <2> DEFINE l == <<"check_init", "write_table">>
  <2>1. l \in Seq({"check_init", "write_table"})
    OBVIOUS
  <2>2. IsList(l)
    BY <2>1 DEF IsList
  <2>3. Follows(l, AfterRead) /\ Anew(l, AfterRead)
    BY DEF Follows, Anew, AfterRead, WritesBack
  <2> QED BY <2>2, <2>3
<1>2. Ordered(<<"read_mode", "use_full_mode">>)
  <2> DEFINE l == <<"read_mode", "use_full_mode">>
  <2>1. l \in Seq({"read_mode", "use_full_mode"})
    OBVIOUS
  <2>2. IsList(l)
    BY <2>1 DEF IsList
  <2>3. Follows(l, AfterRead) /\ Anew(l, AfterRead)
    BY DEF Follows, Anew, AfterRead, WritesBack
  <2> QED BY <2>2, <2>3
<1>3. Ordered(<<"read_custom", "clear_custom", "read_separate", "clear_separate", "uninit">>)
  <2> DEFINE l == <<"read_custom", "clear_custom", "read_separate", "clear_separate", "uninit">>
  <2>1. l \in Seq({"read_custom", "clear_custom", "read_separate", "clear_separate", "uninit"})
    OBVIOUS
  <2>2. IsList(l)
    BY <2>1 DEF IsList
  <2>3. Follows(l, AfterRead) /\ Anew(l, AfterRead)
    BY DEF Follows, Anew, AfterRead, WritesBack
  <2> QED BY <2>2, <2>3
<1>4. Ordered(<<"read_mode", "leave_full_mode">>)
  <2> DEFINE l == <<"read_mode", "leave_full_mode">>
  <2>1. l \in Seq({"read_mode", "leave_full_mode"})
    OBVIOUS
  <2>2. IsList(l)
    BY <2>1 DEF IsList
  <2>3. Follows(l, AfterRead) /\ Anew(l, AfterRead)
    BY DEF Follows, Anew, AfterRead, WritesBack
  <2> QED BY <2>2, <2>3
<1>5. Ordered(<<"read_mode", "write_profile">>)
  <2> DEFINE l == <<"read_mode", "write_profile">>
  <2>1. l \in Seq({"read_mode", "write_profile"})
    OBVIOUS
  <2>2. IsList(l)
    BY <2>1 DEF IsList
  <2>3. Follows(l, AfterRead) /\ Anew(l, AfterRead)
    BY DEF Follows, Anew, AfterRead, WritesBack
  <2> QED BY <2>2, <2>3
<1>6. Ordered(<<"write_mode">>)
  <2> DEFINE l == <<"write_mode">>
  <2>1. l \in Seq({"write_mode"})
    OBVIOUS
  <2>2. IsList(l)
    BY <2>1 DEF IsList
  <2>3. Follows(l, AfterRead) /\ Anew(l, AfterRead)
    BY DEF Follows, Anew, AfterRead, WritesBack
  <2> QED BY <2>2, <2>3
<1>7. Ordered(<<"init_done">>)
  <2> DEFINE l == <<"init_done">>
  <2>1. l \in Seq({"init_done"})
    OBVIOUS
  <2>2. IsList(l)
    BY <2>1 DEF IsList
  <2>3. Follows(l, AfterRead) /\ Anew(l, AfterRead)
    BY DEF Follows, Anew, AfterRead, WritesBack
  <2> QED BY <2>2, <2>3
<1>8. Ordered(<<"write_fan">>)
  <2> DEFINE l == <<"write_fan">>
  <2>1. l \in Seq({"write_fan"})
    OBVIOUS
  <2>2. IsList(l)
    BY <2>1 DEF IsList
  <2>3. Follows(l, AfterRead) /\ Anew(l, AfterRead)
    BY DEF Follows, Anew, AfterRead, WritesBack
  <2> QED BY <2>2, <2>3
<1>9. Ordered(<<"read_mode", "not_full_mode", "read_separate", "set_separate",
           "zero_cpu", "zero_gpu", "read_custom", "set_custom", "init_done">>)
  <2> DEFINE l == <<"read_mode", "not_full_mode", "read_separate", "set_separate",
           "zero_cpu", "zero_gpu", "read_custom", "set_custom", "init_done">>
  <2>1. l \in Seq({"read_mode", "not_full_mode", "read_separate", "set_separate",
             "zero_cpu", "zero_gpu", "read_custom", "set_custom", "init_done"})
    OBVIOUS
  <2>2. IsList(l)
    BY <2>1 DEF IsList
  <2>3. Follows(l, AfterRead) /\ Anew(l, AfterRead)
    BY DEF Follows, Anew, AfterRead, WritesBack
  <2> QED BY <2>2, <2>3
<1>10. Ordered(<<"read_mode", "set_full_mode", "write_both">>)
  <2> DEFINE l == <<"read_mode", "set_full_mode", "write_both">>
  <2>1. l \in Seq({"read_mode", "set_full_mode", "write_both"})
    OBVIOUS
  <2>2. IsList(l)
    BY <2>1 DEF IsList
  <2>3. Follows(l, AfterRead) /\ Anew(l, AfterRead)
    BY DEF Follows, Anew, AfterRead, WritesBack
  <2> QED BY <2>2, <2>3
<1> QED BY <1>1, <1>2, <1>3, <1>4, <1>5, <1>6, <1>7, <1>8, <1>9, <1>10 DEF FanCalls, FanInserts

\* A call of UniwillFan begins.
LEMMA FanCallKeepsPure ==
  ASSUME ProfileInv, NEW c \in Callers, FanCall(c)
  PROVE  ProfileInv'
<1>1. ASSUME NEW args, NEW s \in FanCalls, Start(c, args, s) PROVE ProfileInv'
  BY <1>1, StepsAreOrdered, StartKeepsPure
<1>2. ASSUME NEW f \in Fans, NEW v \in Speeds, SetFan(c, f, v) PROVE ProfileInv'
  BY <1>1, <1>2 DEF SetFan, Begin, FanCalls
<1>3. CASE SetFanAuto(c)
  BY <1>1, <1>3 DEF SetFanAuto, Begin, FanCalls
<1>4. ASSUME NEW p \in 1 .. 3, SetProfile(c, p) PROVE ProfileInv'
  BY <1>1, <1>4 DEF SetProfile, Begin, FanCalls
<1>5. CASE SetMode(c)
  BY <1>1, <1>5 DEF SetMode, Begin, FanCalls
<1> QED BY <1>2, <1>3, <1>4, <1>5 DEF FanCall

\* A step of UniwillFan on an EC that answers.
LEMMA FanStepKeepsPure ==
  ASSUME ~env.faults, "mixed_mode" \notin env.calls, ProfileInv, NEW c \in Callers, FanStep(c)
  PROVE  ProfileInv'
<1>1. ASSUME NEW d, ~Idle(c), Head(todo[c]) # "read_mode", ProceedWith(c, d), PureMode(mode')
      PROVE  ProfileInv'
  BY <1>1, ProceedKeepsPure
<1>2. Head(todo[c]) \in WritesBack => PureMode(data[c]) \/ Idle(c)
  BY DEF ProfileInv, ListsInv, IsList, Anew, AfterRead, Idle
<1>3. CASE ReadMode(c)
  BY <1>3, ReadKeepsPure DEF ReadMode, Seen, At, registers
<1>4. CASE WriteProfile(c) \/ NotFullMode(c) \/ SetFullMode(c) \/ LeaveFullMode(c)
  <2>1. /\ ~Idle(c) /\ Head(todo[c]) \in WritesBack /\ Proceed(c)
    BY <1>4 DEF WriteProfile, NotFullMode, SetFullMode, LeaveFullMode, At, WritesBack
  <2>2. PureMode(data[c])
    BY <1>2, <2>1
  <2>3. \A f : PureMode([data[c] EXCEPT !.full = f])
    BY <2>2, UpdatesKeepPure DEF Profiles
  <2>4. \A p : PureMode([data[c] EXCEPT !.profile = Bits(p)])
    BY <2>2, UpdatesKeepPure, BitsArePure
  <2>5. \A old, new : Written(old, new) = {new}
    BY DEF Written
  <2>6. ASSUME WriteProfile(c) PROVE PureMode(mode')
    <3>1. mode' = [data[c] EXCEPT !.profile = Bits(call[c][2])]
      BY <2>5, <2>6 DEF WriteProfile
    <3>2. PureMode([data[c] EXCEPT !.profile = Bits(call[c][2])])
      BY <2>4, Zenon
    <3> QED BY <3>1, <3>2, Zenon
  <2>7. ASSUME NotFullMode(c) PROVE PureMode(mode')
    <3>1. mode' = mode \/ mode' = [data[c] EXCEPT !.full = FALSE]
      BY <2>5, <2>7 DEF NotFullMode
    <3>2. PureMode([data[c] EXCEPT !.full = FALSE])
      BY <2>3, Zenon
    <3> QED BY <3>1, <3>2, Zenon DEF ProfileInv
  <2>8. ASSUME SetFullMode(c) \/ LeaveFullMode(c) PROVE PureMode(mode')
    <3>1. PICK f : mode' = [data[c] EXCEPT !.full = f]
      BY <2>5, <2>8, Zenon DEF SetFullMode, LeaveFullMode
    <3>2. PureMode([data[c] EXCEPT !.full = f])
      BY <2>3, Zenon
    <3> QED BY <3>1, <3>2, Zenon
  <2>9. PureMode(mode')
    BY <1>4, <2>6, <2>7, <2>8, Zenon
  <2> QED BY <1>1, <2>1, <2>9 DEF Proceed, WritesBack
<1>5. CASE WriteMode(c)
  <2>1. PICK m \in Mode : m.profile # "0xb0" /\ mode' = m
    BY <1>5 DEF WriteMode, Written
  <2>2. m \in [full : BOOLEAN, profile : Profiles, rest : {"kept", "lost"}]
    BY <2>1 DEF Mode, ProfileBits, Profiles
  <2>3. PureMode(mode')
    BY <2>1, <2>2 DEF PureMode
  <2> QED BY <1>1, <1>5, <2>3 DEF WriteMode, At, Proceed
<1>6. CASE CheckInit(c) \/ UseFullMode(c)
  <2>1. PICK s \in FanInserts :
          ~Idle(c) /\ Head(todo[c]) # "read_mode" /\ Insert(c, s) /\ mode' = mode
    BY <1>6 DEF CheckInit, UseFullMode, At, registers, FanInserts
  <2>2. IsList(s) /\ s # <<>> /\ Follows(s, AfterRead) /\ Anew(s, AfterRead)
    BY StepsAreOrdered
  <2>3. Inserts(c, s, data[c])
    BY <2>1 DEF Insert, Inserts, ProfileInv, ListsInv
  <2> QED BY <2>1, <2>2, <2>3, InsertKeepsPure
<1>7. CASE \/ ReadSeparate(c) \/ ReadCustom(c) \/ SetSeparate(c) \/ ZeroTable(c)
           \/ SetCustom(c) \/ InitDone(c) \/ WriteTable(c) \/ ClearCustom(c)
           \/ ClearSeparate(c) \/ Uninit(c) \/ WriteFan(c) \/ WriteBoth(c)
  <2>1. /\ ~Idle(c) /\ Head(todo[c]) # "read_mode"
        /\ \E d : ProceedWith(c, d)
        /\ mode' = mode
    BY <1>7, Zenon
       DEF ReadSeparate, ReadCustom, SetSeparate, ZeroTable, SetCustom, InitDone, WriteTable,
           ClearCustom, ClearSeparate, Uninit, WriteFan, WriteBoth, At, Proceed, registers
  <2> QED BY <1>1, <2>1 DEF ProfileInv
<1> QED BY <1>3, <1>4, <1>5, <1>6, <1>7 DEF FanStep, UniversalStep, FullModeStep

\* What the machine is and what may happen on it is settled at the start.
LEMMA FanEnvConstant ==
  ASSUME NEW c \in Callers, FanCall(c) \/ FanStep(c)
  PROVE  env' = env /\ universal' = universal
<1>1. CASE FanCall(c)
  BY <1>1 DEF FanCall, SetFan, SetFanAuto, SetProfile, SetMode, Begin, Start
<1>2. CASE FanStep(c)
  BY <1>2 DEF FanStep, UniversalStep, FullModeStep, ReadMode, WriteProfile, WriteMode,
       CheckInit, NotFullMode, ReadSeparate, ReadCustom, SetSeparate, ZeroTable, SetCustom,
       InitDone, WriteTable, ClearCustom, ClearSeparate, Uninit, UseFullMode, SetFullMode,
       WriteFan, WriteBoth, LeaveFullMode
<1> QED BY <1>1, <1>2

LEMMA InitPure == FanInit => ProfileInv
<1> SUFFICES ASSUME FanInit PROVE ProfileInv
  OBVIOUS
<1>1. PureMode(mode)
  BY DEF FanInit, PureMode, Profiles
<1> QED BY <1>1 DEF FanInit, ProfileInv, ListsInv, IsList, Follows, Anew

LEMMA PureIsUnmixed == ProfileInv => mode.profile # "0xb0"
  BY DEF ProfileInv, PureMode, Profiles

\* On an EC that answers, no interleaving of any number of calls, whatever they
\* set, leaves a mixture of two profiles in 0x0751, unless W_UW_MODE has been
\* asked to write one.
THEOREM ProfileIsUnmixed == Spec => []ProfileUnmixed
<1> DEFINE Inv == ~env.faults /\ "mixed_mode" \notin env.calls => ProfileInv
<1>1. Init => Inv
  BY InitPure DEF Init
<1>2. Inv /\ [Next]_vars => Inv'
  <2> SUFFICES ASSUME Inv, [Next]_vars PROVE Inv'
    OBVIOUS
  <2>1. CASE UNCHANGED vars
    BY <2>1 DEF vars, registers, ProfileInv, ListsInv, PureMode, IsList, Follows, Anew, AfterRead
  <2>2. CASE Next
    <3>1. PICK c \in Callers : FanCall(c) \/ FanStep(c)
      BY <2>2 DEF Next
    <3>2. env' = env
      BY <3>1, FanEnvConstant
    <3> QED BY <3>1, <3>2, FanCallKeepsPure, FanStepKeepsPure
  <2> QED BY <2>1, <2>2
<1>3. Inv => ProfileUnmixed
  BY PureIsUnmixed DEF ProfileUnmixed
<1> QED BY <1>1, <1>2, <1>3, PTL DEF Spec

-----------------------------------------------------------------------------
(***************************************************************************)
(* Calls                                                                   *)
(***************************************************************************)

\* The order of the steps that rely on what the one before has found out; some
\* of them only come where they are inserted or where a call begins.
Inserted == "an insertion"
Guarded == {"check_min", "read_min", "read_max", "write_tdp", "assign_max", "read_model",
            "read_priority", "read_profile", "read_ecfans", "set_loaded",
            "get_webcam", "set_webcam"}
Before(x) ==
  CASE x = "read_max"      -> "read_min"
    [] x = "write_tdp"     -> "read_max"
    [] x = "assign_max"    -> "id_tdp"
    [] x = "read_priority" -> "read_model"
    [] x = "read_profile"  -> "read_priority"
    [] x = "read_ecfans"   -> "read_profile"
    [] x = "set_loaded"    -> "read_ecfans"
    [] x = "set_webcam"    -> "get_webcam"
    [] OTHER               -> Inserted
IoAfter == [x \in Guarded |-> Before(x)]

LEMMA IoOrder ==
  /\ DOMAIN IoAfter = Guarded
  /\ \A x \in Guarded : IoAfter[x] = Before(x)
  BY DEF IoAfter

\* The lists of steps in the code of TuxedoIo: calls, and what they insert.
IoCalls ==
  {<<"check_loaded">>,
   <<"check_loaded", "assign_feats", "id_tdp", "assign_max">>,
   <<"check_min">>,
   <<"get_webcam", "set_webcam">>,
   <<"evaluate">>}
ReadFeatures == <<"read_model", "read_priority", "read_profile", "read_ecfans", "set_loaded">>
UseLimits == <<"read_min", "read_max", "write_tdp">>

LEMMA IoStepsFollow ==
  ASSUME NEW s \in IoCalls \cup {ReadFeatures, UseLimits} \cup FanCalls \cup FanInserts
  PROVE  IsList(s) /\ s # <<>> /\ Follows(s, IoAfter)
<1> DEFINE Ordered(l) == IsList(l) /\ l # <<>> /\ Follows(l, IoAfter)
<1>1. Ordered(<<"check_loaded">>)
  <2> DEFINE l == <<"check_loaded">>
  <2>1. l \in Seq({"check_loaded"})
    OBVIOUS
  <2>2. IsList(l)
    BY <2>1 DEF IsList
  <2>3. Follows(l, IoAfter)
    BY IoOrder DEF Follows, Guarded, Before
  <2> QED BY <2>2, <2>3
<1>2. Ordered(<<"check_loaded", "assign_feats", "id_tdp", "assign_max">>)
  <2> DEFINE l == <<"check_loaded", "assign_feats", "id_tdp", "assign_max">>
  <2>1. l \in Seq({"check_loaded", "assign_feats", "id_tdp", "assign_max"})
    OBVIOUS
  <2>2. IsList(l)
    BY <2>1 DEF IsList
  <2>3. Follows(l, IoAfter)
    BY IoOrder DEF Follows, Guarded, Before
  <2> QED BY <2>2, <2>3
<1>3. Ordered(<<"check_min">>)
  <2> DEFINE l == <<"check_min">>
  <2>1. l \in Seq({"check_min"})
    OBVIOUS
  <2>2. IsList(l)
    BY <2>1 DEF IsList
  <2>3. Follows(l, IoAfter)
    BY IoOrder DEF Follows, Guarded, Before
  <2> QED BY <2>2, <2>3
<1>4. Ordered(<<"get_webcam", "set_webcam">>)
  <2> DEFINE l == <<"get_webcam", "set_webcam">>
  <2>1. l \in Seq({"get_webcam", "set_webcam"})
    OBVIOUS
  <2>2. IsList(l)
    BY <2>1 DEF IsList
  <2>3. Follows(l, IoAfter)
    BY IoOrder DEF Follows, Guarded, Before
  <2> QED BY <2>2, <2>3
<1>5. Ordered(<<"evaluate">>)
  <2> DEFINE l == <<"evaluate">>
  <2>1. l \in Seq({"evaluate"})
    OBVIOUS
  <2>2. IsList(l)
    BY <2>1 DEF IsList
  <2>3. Follows(l, IoAfter)
    BY IoOrder DEF Follows, Guarded, Before
  <2> QED BY <2>2, <2>3
<1>6. Ordered(<<"read_model", "read_priority", "read_profile", "read_ecfans", "set_loaded">>)
  <2> DEFINE l == <<"read_model", "read_priority", "read_profile", "read_ecfans", "set_loaded">>
  <2>1. l \in Seq({"read_model", "read_priority", "read_profile", "read_ecfans", "set_loaded"})
    OBVIOUS
  <2>2. IsList(l)
    BY <2>1 DEF IsList
  <2>3. Follows(l, IoAfter)
    BY IoOrder DEF Follows, Guarded, Before
  <2> QED BY <2>2, <2>3
<1>7. Ordered(<<"read_min", "read_max", "write_tdp">>)
  <2> DEFINE l == <<"read_min", "read_max", "write_tdp">>
  <2>1. l \in Seq({"read_min", "read_max", "write_tdp"})
    OBVIOUS
  <2>2. IsList(l)
    BY <2>1 DEF IsList
  <2>3. Follows(l, IoAfter)
    BY IoOrder DEF Follows, Guarded, Before
  <2> QED BY <2>2, <2>3
<1>8. Ordered(<<"check_init", "write_table">>)
  <2> DEFINE l == <<"check_init", "write_table">>
  <2>1. Follows(l, IoAfter)
    BY IoOrder DEF Follows, Guarded, Before
  <2> QED BY <2>1, StepsAreOrdered DEF FanCalls, FanInserts
<1>9. Ordered(<<"read_mode", "use_full_mode">>)
  <2> DEFINE l == <<"read_mode", "use_full_mode">>
  <2>1. Follows(l, IoAfter)
    BY IoOrder DEF Follows, Guarded, Before
  <2> QED BY <2>1, StepsAreOrdered DEF FanCalls, FanInserts
<1>10. Ordered(<<"read_custom", "clear_custom", "read_separate", "clear_separate", "uninit">>)
  <2> DEFINE l == <<"read_custom", "clear_custom", "read_separate", "clear_separate", "uninit">>
  <2>1. Follows(l, IoAfter)
    BY IoOrder DEF Follows, Guarded, Before
  <2> QED BY <2>1, StepsAreOrdered DEF FanCalls, FanInserts
<1>11. Ordered(<<"read_mode", "leave_full_mode">>)
  <2> DEFINE l == <<"read_mode", "leave_full_mode">>
  <2>1. Follows(l, IoAfter)
    BY IoOrder DEF Follows, Guarded, Before
  <2> QED BY <2>1, StepsAreOrdered DEF FanCalls, FanInserts
<1>12. Ordered(<<"read_mode", "write_profile">>)
  <2> DEFINE l == <<"read_mode", "write_profile">>
  <2>1. Follows(l, IoAfter)
    BY IoOrder DEF Follows, Guarded, Before
  <2> QED BY <2>1, StepsAreOrdered DEF FanCalls, FanInserts
<1>13. Ordered(<<"write_mode">>)
  <2> DEFINE l == <<"write_mode">>
  <2>1. Follows(l, IoAfter)
    BY IoOrder DEF Follows, Guarded, Before
  <2> QED BY <2>1, StepsAreOrdered DEF FanCalls, FanInserts
<1>14. Ordered(<<"init_done">>)
  <2> DEFINE l == <<"init_done">>
  <2>1. Follows(l, IoAfter)
    BY IoOrder DEF Follows, Guarded, Before
  <2> QED BY <2>1, StepsAreOrdered DEF FanCalls, FanInserts
<1>15. Ordered(<<"write_fan">>)
  <2> DEFINE l == <<"write_fan">>
  <2>1. Follows(l, IoAfter)
    BY IoOrder DEF Follows, Guarded, Before
  <2> QED BY <2>1, StepsAreOrdered DEF FanCalls, FanInserts
<1>16. Ordered(<<"read_mode", "not_full_mode", "read_separate", "set_separate",
           "zero_cpu", "zero_gpu", "read_custom", "set_custom", "init_done">>)
  <2> DEFINE l == <<"read_mode", "not_full_mode", "read_separate", "set_separate",
           "zero_cpu", "zero_gpu", "read_custom", "set_custom", "init_done">>
  <2>1. Follows(l, IoAfter)
    BY IoOrder DEF Follows, Guarded, Before
  <2> QED BY <2>1, StepsAreOrdered DEF FanCalls, FanInserts
<1>17. Ordered(<<"read_mode", "set_full_mode", "write_both">>)
  <2> DEFINE l == <<"read_mode", "set_full_mode", "write_both">>
  <2>1. Follows(l, IoAfter)
    BY IoOrder DEF Follows, Guarded, Before
  <2> QED BY <2>1, StepsAreOrdered DEF FanCalls, FanInserts
<1> QED
  BY <1>1, <1>2, <1>3, <1>4, <1>5, <1>6, <1>7, <1>8, <1>9, <1>10, <1>11, <1>12, <1>13, <1>14,
     <1>15, <1>16, <1>17
     DEF IoCalls, ReadFeatures, UseLimits, FanCalls, FanInserts

LEMMA IoCallsAreOrdered ==
  ASSUME NEW s \in IoCalls \cup {ReadFeatures, UseLimits}
  PROVE  IsList(s) /\ s # <<>> /\ Follows(s, AfterRead) /\ Anew(s, AfterRead)
<1> DEFINE Ordered(l) == Follows(l, AfterRead) /\ Anew(l, AfterRead)
<1>1. Ordered(<<"check_loaded">>)
  BY DEF Follows, Anew, AfterRead, WritesBack
<1>2. Ordered(<<"check_loaded", "assign_feats", "id_tdp", "assign_max">>)
  BY DEF Follows, Anew, AfterRead, WritesBack
<1>3. Ordered(<<"check_min">>)
  BY DEF Follows, Anew, AfterRead, WritesBack
<1>4. Ordered(<<"get_webcam", "set_webcam">>)
  BY DEF Follows, Anew, AfterRead, WritesBack
<1>5. Ordered(<<"evaluate">>)
  BY DEF Follows, Anew, AfterRead, WritesBack
<1>6. Ordered(<<"read_model", "read_priority", "read_profile", "read_ecfans", "set_loaded">>)
  BY DEF Follows, Anew, AfterRead, WritesBack
<1>7. Ordered(<<"read_min", "read_max", "write_tdp">>)
  BY DEF Follows, Anew, AfterRead, WritesBack
<1> QED
  BY <1>1, <1>2, <1>3, <1>4, <1>5, <1>6, <1>7, IoStepsFollow
     DEF IoCalls, ReadFeatures, UseLimits

\* What a step of a call may be, as far as its list of steps goes.
Begins(c, calls) == \E args : \E s \in calls : Start(c, args, s)
Proceeds(c) == ~Idle(c) /\ \E d : ProceedWith(c, d)
Extends(c, steps, inserts) ==
  ~Idle(c) /\ Head(todo[c]) \in steps /\ \E d : \E s \in inserts : Inserts(c, s, d)

FanSteps ==
  {"read_mode", "write_profile", "write_mode", "not_full_mode", "read_separate",
   "read_custom", "set_separate", "zero_cpu", "zero_gpu", "set_custom", "init_done",
   "write_table", "clear_custom", "clear_separate", "uninit", "write_fan", "write_both",
   "set_full_mode", "leave_full_mode"}

LEMMA FanShapes ==
  ASSUME ListsInv(IoAfter), NEW c \in Callers, FanCall(c) \/ FanStep(c)
  PROVE  \/ Begins(c, FanCalls)
         \/ Proceeds(c) /\ Head(todo[c]) \in FanSteps
         \/ Extends(c, {"check_init", "use_full_mode"}, FanInserts)
<1>1. ASSUME NEW args, NEW s \in FanCalls, Start(c, args, s) PROVE Begins(c, FanCalls)
  BY <1>1 DEF Begins
<1>2. CASE FanCall(c)
  <2>1. ASSUME NEW f \in Fans, NEW v \in Speeds, SetFan(c, f, v) PROVE Begins(c, FanCalls)
    BY <1>1, <2>1 DEF SetFan, Begin, FanCalls
  <2>2. CASE SetFanAuto(c)
    BY <1>1, <2>2 DEF SetFanAuto, Begin, FanCalls
  <2>3. ASSUME NEW p \in 1 .. 3, SetProfile(c, p) PROVE Begins(c, FanCalls)
    BY <1>1, <2>3 DEF SetProfile, Begin, FanCalls
  <2>4. CASE SetMode(c)
    BY <1>1, <2>4 DEF SetMode, Begin, FanCalls
  <2> QED BY <1>2, <2>1, <2>2, <2>3, <2>4 DEF FanCall
<1>3. CASE CheckInit(c) \/ UseFullMode(c)
  <2>1. PICK s \in FanInserts :
          /\ ~Idle(c) /\ Head(todo[c]) \in {"check_init", "use_full_mode"}
          /\ Insert(c, s)
    BY <1>3 DEF CheckInit, UseFullMode, At, FanInserts
  <2>2. Inserts(c, s, data[c])
    BY <2>1 DEF Insert, Inserts, ListsInv
  <2> QED BY <2>1, <2>2, Zenon DEF Extends
<1>4. CASE \/ ReadMode(c) \/ WriteProfile(c) \/ WriteMode(c) \/ NotFullMode(c)
           \/ ReadSeparate(c) \/ ReadCustom(c) \/ SetSeparate(c) \/ ZeroTable(c)
           \/ SetCustom(c) \/ InitDone(c) \/ WriteTable(c) \/ ClearCustom(c)
           \/ ClearSeparate(c) \/ Uninit(c) \/ WriteFan(c) \/ WriteBoth(c)
           \/ SetFullMode(c) \/ LeaveFullMode(c)
  <2>1. Proceeds(c)
    BY <1>4, Zenon
       DEF ReadMode, WriteProfile, WriteMode, NotFullMode, ReadSeparate, ReadCustom,
           SetSeparate, ZeroTable, SetCustom, InitDone, WriteTable, ClearCustom,
           ClearSeparate, Uninit, WriteFan, WriteBoth, SetFullMode, LeaveFullMode,
           At, Proceed, Proceeds
  <2>2. Head(todo[c]) \in FanSteps
    BY <1>4
       DEF ReadMode, WriteProfile, WriteMode, NotFullMode, ReadSeparate, ReadCustom,
           SetSeparate, ZeroTable, SetCustom, InitDone, WriteTable, ClearCustom,
           ClearSeparate, Uninit, WriteFan, WriteBoth, SetFullMode, LeaveFullMode,
           At, FanSteps
  <2> QED BY <2>1, <2>2
<1> QED BY <1>2, <1>3, <1>4 DEF FanStep, UniversalStep, FullModeStep

\* One step of IoNext.
IoStep(c) ==
  \/ FanCall(c) /\ UNCHANGED ioVars
  \/ FanStep(c) /\ UNCHANGED ioVars
  \/ FeatureStep(c) \/ TdpStep(c) \/ ClevoStep(c)

Step(c) ==
  \/ Begins(c, IoCalls \cup FanCalls)
  \/ Proceeds(c)
  \/ Extends(c, {"check_init", "use_full_mode", "check_loaded", "check_min"},
             {ReadFeatures, UseLimits} \cup FanInserts)

LEMMA IoShapes ==
  ASSUME ListsInv(IoAfter), NEW c \in Callers, IoStep(c)
  PROVE  /\ Step(c)
         /\ env' = env /\ machine' = machine
<1>1. CASE (FanCall(c) \/ FanStep(c)) /\ UNCHANGED ioVars
  BY <1>1, FanShapes, FanEnvConstant DEF ioVars, Step, Begins, Extends
<1>2. ASSUME NEW args, NEW s \in IoCalls, BeginIo(c, args, s)
      PROVE  Step(c) /\ env' = env
  BY <1>2 DEF Step, Begins, BeginIo, Start
<1>3. CASE GetFeatures(c) \/ Identify(c)
  BY <1>2, <1>3 DEF GetFeatures, Identify, IoCalls, ioVars
<1>4. ASSUME NEW i \in Indices, NEW a \in TdpArguments, SetTdp(c, i, a)
      PROVE  Step(c) /\ env' = env /\ machine' = machine
  BY <1>2, <1>4 DEF SetTdp, IoCalls, ioVars
<1>5. ASSUME NEW a \in Settings, SwitchWebcam(c, a)
      PROVE  Step(c) /\ env' = env /\ machine' = machine
  BY <1>2, <1>5 DEF SwitchWebcam, IoCalls
<1>6. ASSUME NEW m \in Methods, NEW a \in Settings, Forward(c, m, a)
      PROVE  Step(c) /\ env' = env /\ machine' = machine
  BY <1>2, <1>6 DEF Forward, IoCalls, ioVars
<1>7. CASE CheckLoaded(c)
  <2>1. machine' = machine /\ env' = env
    BY <1>7 DEF CheckLoaded, ioVars, fans
  <2>2. CASE feats_loaded
    BY <1>7, <2>1, <2>2, Zenon DEF CheckLoaded, At, Proceed, Proceeds, Step
  <2>3. CASE ~feats_loaded
    <3>1. ~Idle(c) /\ Head(todo[c]) = "check_loaded"
      BY <1>7 DEF CheckLoaded, At
    <3>2. Inserts(c, ReadFeatures, [complete |-> TRUE])
      BY <1>7, <2>3 DEF CheckLoaded, Inserts, ReadFeatures
    <3> QED BY <2>1, <3>1, <3>2 DEF Extends, Step
  <2> QED BY <2>1, <2>2, <2>3
<1>8. CASE CheckMin(c)
  <2>1. machine' = machine /\ env' = env
    BY <1>8 DEF CheckMin, ioVars, fans
  <2>2. CASE Limit(tdp_min_defs, "min", call[c][2]) < 0
    BY <1>8, <2>1, <2>2, Zenon DEF CheckMin, At, Proceed, Proceeds, Step
  <2>3. CASE ~(Limit(tdp_min_defs, "min", call[c][2]) < 0)
    <3>1. ~Idle(c) /\ Head(todo[c]) = "check_min"
      BY <1>8 DEF CheckMin, At
    <3>2. Inserts(c, UseLimits, data[c])
      BY <1>8, <2>3 DEF CheckMin, Insert, Inserts, UseLimits, ListsInv
    <3> QED BY <2>1, <3>1, <3>2 DEF Extends, Step
  <2> QED BY <2>1, <2>2, <2>3
<1>9. CASE \/ ReadModel(c) \/ ReadPriority(c) \/ ReadProfile(c) \/ ReadEcFans(c)
           \/ SetLoaded(c) \/ AssignFeats(c)
  <2>1. Step(c)
    BY <1>9, Zenon
       DEF ReadModel, ReadPriority, ReadProfile, ReadEcFans, SetLoaded, AssignFeats, Fails,
           At, Proceed, Proceeds, Step
  <2>2. env' = env /\ machine' = machine
    BY <1>9 DEF ReadModel, ReadPriority, ReadProfile, ReadEcFans, SetLoaded, AssignFeats,
                Fails, fans
  <2> QED BY <2>1, <2>2
<1>10. CASE \/ IdTdp(c) \/ AssignMax(c) \/ ReadMin(c) \/ ReadMax(c) \/ WriteTdp(c)
            \/ GetWebcam(c) \/ SetWebcam(c) \/ Evaluate(c)
  <2>1. Step(c)
    BY <1>10, Zenon
       DEF IdTdp, AssignMax, ReadMin, ReadMax, WriteTdp, GetWebcam, SetWebcam, Evaluate,
           At, Proceed, Proceeds, Step
  <2>2. env' = env /\ machine' = machine
    BY <1>10 DEF IdTdp, AssignMax, ReadMin, ReadMax, WriteTdp, GetWebcam, SetWebcam,
                 Evaluate, fans, ioVars
  <2> QED BY <2>1, <2>2
<1> QED
  BY <1>1, <1>3, <1>4, <1>5, <1>6, <1>7, <1>8, <1>9, <1>10
     DEF IoStep, FeatureStep, TdpStep, ClevoStep

\* Of calls that do not overlap at most one is under way.
Serial == env.overlap \/ \A b, c \in Callers : b = c \/ Idle(b) \/ Idle(c)
CallsInv == ListsInv(IoAfter) /\ Serial /\ machine \in Machines /\ env = machine.env

Alone(c) == env.overlap \/ \A b \in Callers \ {c} : Idle(b)

\* Whatever a step does, it comes after what has to come before it.
LEMMA CallsStep ==
  ASSUME CallsInv, NEW c \in Callers, IoStep(c)
  PROVE  /\ CallsInv' /\ OnlyMoves(c) /\ Alone(c)
         /\ env' = env /\ machine' = machine
<1>1. /\ Step(c)
      /\ env' = env /\ machine' = machine
  BY IoShapes DEF CallsInv
<1>2. ListsInv(IoAfter)' /\ OnlyMoves(c)
  <2>1. CASE Begins(c, IoCalls \cup FanCalls)
    <3>1. PICK args, s : s \in IoCalls \cup FanCalls /\ Start(c, args, s)
      BY <2>1 DEF Begins
    <3> QED BY <3>1, IoStepsFollow, StartFollows DEF CallsInv
  <2>2. CASE Proceeds(c)
    BY <2>2, ProceedFollows DEF CallsInv, Proceeds
  <2>3. CASE Extends(c, {"check_init", "use_full_mode", "check_loaded", "check_min"},
                     {ReadFeatures, UseLimits} \cup FanInserts)
    <3>1. PICK d, s : s \in {ReadFeatures, UseLimits} \cup FanInserts /\ Inserts(c, s, d)
      BY <2>3 DEF Extends
    <3>2. NoneAfter(Head(todo[c]), IoAfter)
      BY <2>3, IoOrder DEF Extends, NoneAfter, Guarded, Before, Inserted
    <3> QED BY <2>3, <3>1, <3>2, IoStepsFollow, InsertedFollow DEF CallsInv, Extends
  <2> QED BY <1>1, <2>1, <2>2, <2>3 DEF Step
<1>3. Alone(c)
  <2>1. CASE Begins(c, IoCalls \cup FanCalls)
    BY <2>1 DEF Begins, Start, Quiescent, Alone
  <2>2. CASE Proceeds(c) \/ Extends(c, {"check_init", "use_full_mode", "check_loaded", "check_min"},
                                   {ReadFeatures, UseLimits} \cup FanInserts)
    BY <2>2 DEF Proceeds, Extends, CallsInv, Serial, Alone
  <2> QED BY <1>1, <2>1, <2>2 DEF Step
<1>4. Serial'
  BY <1>1, <1>2, <1>3 DEF Alone, Serial, OnlyMoves, Idle
<1> QED BY <1>1, <1>2, <1>3, <1>4 DEF CallsInv

\* The next step of a call, among those named.
NextIs(c, steps) == ~Idle(c) /\ todo[c][1] \in steps

LEMMA NextIsHead ==
  ASSUME CallsInv, NEW c \in Callers, NEW x, At(c, x)
  PROVE  ~Idle(c) /\ todo[c][1] = x /\ Head(todo[c]) = x
BY DEF CallsInv, ListsInv, IsList, At, Idle

\* What follows a step.
LEMMA NextAfter ==
  ASSUME CallsInv, NEW c \in Callers, ~Idle(c), NEW d, ProceedWith(c, d)
  PROVE  \/ todo'[c] = <<>>
         \/ todo'[c][1] \notin Guarded
         \/ /\ todo'[c][1] \in Guarded /\ Head(todo[c]) = Before(todo'[c][1])
            /\ data'[c] = d /\ call'[c] = call[c]
BY ProceedFollows, IoOrder DEF CallsInv, Anew

\* The steps that switch the webcam only rely on each other.
WebcamSteps == {"get_webcam", "set_webcam"}

\* A call begins with a step that relies on nothing but its arguments.
LEMMA BeginsAnew ==
  ASSUME CallsInv, NEW c \in Callers, NEW args, NEW s \in IoCalls \cup FanCalls,
         Start(c, args, s)
  PROVE  /\ todo'[c] = s /\ call'[c] = args
         /\ s # <<"check_min">> => todo'[c][1] \notin Guarded \ WebcamSteps
         /\ todo'[c][1] \in WebcamSteps => s = <<"get_webcam", "set_webcam">>
<1>1. todo'[c] = s /\ call'[c] = args
  BY IoStepsFollow, StartFollows DEF CallsInv
<1>2. /\ s # <<"check_min">> => s[1] \notin Guarded \ WebcamSteps
      /\ s[1] \in WebcamSteps => s = <<"get_webcam", "set_webcam">>
  BY DEF IoCalls, FanCalls, Guarded, WebcamSteps
<1> QED BY <1>1, <1>2

\* Steps that neither learn anything of the machine nor rely on it.
Quiet(c) ==
  /\ UNCHANGED <<universal, feats, feats_loaded, limits, tdp>>
  /\ todo'[c] = <<>> \/ todo'[c][1] \notin Guarded \ WebcamSteps

LEMMA QuietSteps ==
  ASSUME CallsInv, NEW c \in Callers,
         \/ FanCall(c) /\ UNCHANGED ioVars
         \/ FanStep(c) /\ UNCHANGED ioVars
         \/ GetFeatures(c) \/ Identify(c) \/ AssignFeats(c) \/ ClevoStep(c)
         \/ CheckLoaded(c) /\ feats_loaded
         \/ CheckMin(c) /\ Limit(tdp_min_defs, "min", call[c][2]) < 0
  PROVE  Quiet(c)
<1> DEFINE Unguarded == todo'[c] = <<>> \/ todo'[c][1] \notin Guarded \ WebcamSteps
<1>1. ASSUME NEW args, NEW s \in IoCalls \cup FanCalls, s # <<"check_min">>, Start(c, args, s)
      PROVE  Unguarded
  BY <1>1, BeginsAnew
<1>2. ASSUME NEW x, At(c, x), NEW d, ProceedWith(c, d),
             x \notin {"read_min", "read_max", "id_tdp", "read_model", "read_priority",
                       "read_profile", "read_ecfans", Inserted}
      PROVE  Unguarded
  <2>1. ~Idle(c) /\ Head(todo[c]) = x
    BY <1>2 DEF At
  <2>2. \A y \in Guarded \ WebcamSteps : Before(y) # x
    BY <1>2 DEF Guarded, Before, WebcamSteps
  <2> QED BY <1>2, <2>1, <2>2, NextAfter
<1>3. ASSUME NEW args, NEW s \in IoCalls, s # <<"check_min">>, BeginIo(c, args, s)
      PROVE  Unguarded /\ universal' = universal
  BY <1>1, <1>3 DEF BeginIo, Start
<1>4. CASE (FanCall(c) \/ FanStep(c)) /\ UNCHANGED ioVars
  <2>1. UNCHANGED <<universal, feats, feats_loaded, limits, tdp>>
    BY <1>4, FanEnvConstant DEF ioVars, features
  <2>2. ASSUME Begins(c, FanCalls) PROVE Unguarded
    BY <1>1, <2>2 DEF Begins, FanCalls
  <2>3. ASSUME Proceeds(c), Head(todo[c]) \in FanSteps PROVE Unguarded
    BY <1>2, <2>3 DEF Proceeds, At, FanSteps, Inserted
  <2>4. ASSUME Extends(c, {"check_init", "use_full_mode"}, FanInserts) PROVE Unguarded
    <3>1. PICK d, s : s \in FanInserts /\ Inserts(c, s, d)
      BY <2>4 DEF Extends
    <3>2. NoneAfter(Head(todo[c]), IoAfter)
      BY <2>4, IoOrder DEF Extends, NoneAfter, Guarded, Before, Inserted
    <3>3. s[1] \notin Guarded
      BY <3>1 DEF Guarded, FanInserts
    <3> QED BY <2>4, <3>1, <3>2, <3>3, IoStepsFollow, InsertedFollow DEF CallsInv, Extends
  <2>5. Unguarded
    BY <1>4, <2>2, <2>3, <2>4, FanShapes DEF CallsInv
  <2> QED BY <2>1, <2>5 DEF Quiet
<1>5. CASE GetFeatures(c) \/ Identify(c)
  BY <1>3, <1>5 DEF GetFeatures, Identify, IoCalls, ioVars, features, Quiet
<1>6. ASSUME NEW a \in Settings, SwitchWebcam(c, a) PROVE Quiet(c)
  BY <1>3, <1>6 DEF SwitchWebcam, IoCalls, features, Quiet
<1>7. ASSUME NEW m \in Methods, NEW a \in Settings, Forward(c, m, a) PROVE Quiet(c)
  BY <1>3, <1>7 DEF Forward, IoCalls, ioVars, features, Quiet
<1>8. CASE AssignFeats(c) \/ GetWebcam(c) \/ SetWebcam(c) \/ Evaluate(c)
  <2>1. UNCHANGED <<universal, feats, feats_loaded, limits, tdp>>
    BY <1>8 DEF AssignFeats, GetWebcam, SetWebcam, Evaluate, ioVars, features
  <2>2. \E x \in {"assign_feats", "get_webcam", "set_webcam", "evaluate"} : \E d :
           At(c, x) /\ ProceedWith(c, d)
    BY <1>8, Zenon DEF AssignFeats, GetWebcam, SetWebcam, Evaluate, Proceed
  <2> QED BY <1>2, <2>1, <2>2 DEF Inserted, Quiet
<1>9. CASE \/ CheckLoaded(c) /\ feats_loaded
           \/ CheckMin(c) /\ Limit(tdp_min_defs, "min", call[c][2]) < 0
  <2>1. UNCHANGED <<universal, feats, feats_loaded, limits, tdp>>
    BY <1>9 DEF CheckLoaded, CheckMin, ioVars, features
  <2>2. \E x \in {"check_loaded", "check_min"} : At(c, x) /\ ProceedWith(c, data[c])
    BY <1>9, Zenon DEF CheckLoaded, CheckMin, Proceed
  <2> QED BY <1>2, <2>1, <2>2 DEF Inserted, Quiet
<1> QED BY <1>4, <1>5, <1>6, <1>7, <1>8, <1>9 DEF ClevoStep

-----------------------------------------------------------------------------
(***************************************************************************)
(* The cache of features                                                   *)
(***************************************************************************)

Reads == {"read_model", "read_priority", "read_profile", "read_ecfans", "set_loaded"}

HasPriority == machine.priority /\ ~machine.nocharging
HasProfile == machine.profile /\ ~machine.nocharging

\* What a caller that fills the cache knows by now, if no read has failed; it
\* is the only one to fill it, or no read fails.
ReadSoFar(c) ==
  /\ data[c].complete \in BOOLEAN
  /\ ~env.overlap => ~feats_loaded
  /\ ~env.faults => data[c].complete
  /\ data[c].complete =>
       /\ todo[c][1] # "read_model" => feats.model = machine.model
       /\ todo[c][1] \notin {"read_model", "read_priority"} =>
            feats.charging_prio = HasPriority
       /\ todo[c][1] \in {"read_ecfans", "set_loaded"} => feats.charging_profile = HasProfile
       /\ todo[c][1] = "set_loaded" => universal = env.universal

FeaturesRight ==
  /\ feats.model = machine.model
  /\ feats.charging_prio = HasPriority /\ feats.charging_profile = HasProfile
  /\ universal = env.universal

FeatsType ==
  /\ feats \in [model : Models \cup {Unknown}, charging_prio : BOOLEAN,
                charging_profile : BOOLEAN]
  /\ feats_loaded \in BOOLEAN
  /\ feats.model \in {Unknown, machine.model}

CacheInv ==
  /\ feats_loaded => FeaturesRight
  /\ \A c \in Callers : NextIs(c, Reads) => ReadSoFar(c)

MachineTypes ==
  /\ machine \in [env : Environments, model : Models \cup {Unknown}, sku : Skus \cup {Unknown},
                  ecfans : BOOLEAN, priority : BOOLEAN, profile : BOOLEAN,
                  nocharging : BOOLEAN, toggles : BOOLEAN, calls : SUBSET IoKinds]
  /\ env \in [universal : BOOLEAN, overlap : BOOLEAN, faults : BOOLEAN, calls : SUBSET Kinds]
  /\ env.universal = (machine.ecfans /\ machine.model # "ph4trx")
  /\ machine.model = Unknown \/ machine.sku = Unknown

LEMMA MachineIsTyped == CallsInv => MachineTypes
  BY IoAssumption, FanAssumption DEF CallsInv, MachineTypes

\* A step that changes nothing that is right does not disturb the others.
LEMMA OthersKeepReading ==
  ASSUME CallsInv, CacheInv, NEW c \in Callers, OnlyMoves(c), Alone(c),
         env' = env, machine' = machine,
         env.overlap =>
           /\ feats.model = machine.model => feats'.model = machine.model
           /\ feats.charging_prio = HasPriority => feats'.charging_prio = HasPriority
           /\ feats.charging_profile = HasProfile => feats'.charging_profile = HasProfile
           /\ universal = env.universal => universal' = env.universal
  PROVE  \A b \in Callers \ {c} : NextIs(b, Reads)' => ReadSoFar(b)'
<1> SUFFICES ASSUME NEW b \in Callers \ {c}, NextIs(b, Reads)' PROVE ReadSoFar(b)'
  OBVIOUS
<1>1. todo'[b] = todo[b] /\ data'[b] = data[b] /\ NextIs(b, Reads)
  BY DEF OnlyMoves, NextIs, Idle
<1>2. env.overlap /\ ReadSoFar(b)
  BY <1>1 DEF Alone, NextIs, CacheInv
<1>3. HasPriority' = HasPriority /\ HasProfile' = HasProfile
  BY DEF HasPriority, HasProfile
<1> QED BY <1>1, <1>2, <1>3 DEF ReadSoFar

\* Reads of the identification.
FeatureRead(c) == ReadModel(c) \/ ReadPriority(c) \/ ReadProfile(c) \/ ReadEcFans(c)

\* A read that has failed is remembered; one that has not has found what is right.
LEMMA ReadsAreRight ==
  ASSUME CacheIsSafe, CallsInv, FeatsType, CacheInv, NEW c \in Callers, FeatureRead(c)
  PROVE  /\ FeatsType'
         /\ \E failed \in BOOLEAN :
              /\ failed => env.faults
              /\ ProceedWith(c, [complete |-> data[c].complete /\ ~failed])
              /\ ~failed =>
                   \/ At(c, "read_model") /\ feats'.model = machine.model
                   \/ At(c, "read_priority") /\ feats'.charging_prio = HasPriority
                   \/ At(c, "read_profile") /\ feats'.charging_profile = HasProfile
                   \/ /\ At(c, "read_ecfans")
                      /\ feats.model = machine.model => universal' = env.universal
         /\ UNCHANGED <<env, machine, feats_loaded, limits, tdp>>
         /\ ~At(c, "read_model") => feats'.model = feats.model
         /\ ~At(c, "read_priority") => feats'.charging_prio = feats.charging_prio
         /\ ~At(c, "read_profile") => feats'.charging_profile = feats.charging_profile
         /\ ~At(c, "read_ecfans") => universal' = universal
<1>1. MachineTypes
  BY MachineIsTyped
<1>2. CASE ReadModel(c)
  BY <1>1, <1>2 DEF ReadModel, Fails, fans, FeatsType, MachineTypes, At
<1>3. CASE ReadPriority(c)
  BY <1>1, <1>3 DEF ReadPriority, Fails, fans, FeatsType, MachineTypes, At, HasPriority
<1>4. CASE ReadProfile(c)
  BY <1>1, <1>4 DEF ReadProfile, Fails, fans, FeatsType, MachineTypes, At, HasProfile
<1>5. CASE ReadEcFans(c)
  BY <1>1, <1>5 DEF ReadEcFans, Fails, fans, FeatsType, MachineTypes, At
<1> QED BY <1>2, <1>3, <1>4, <1>5 DEF FeatureRead

LEMMA ReadKeepsCache ==
  ASSUME CacheIsSafe, CallsInv, FeatsType, CacheInv, NEW c \in Callers, FeatureRead(c)
  PROVE  FeatsType' /\ CacheInv'
<1>1. CallsInv' /\ OnlyMoves(c) /\ Alone(c) /\ env' = env /\ machine' = machine
  BY CallsStep DEF IoStep, FeatureStep, FeatureRead
<1>2. PICK failed \in BOOLEAN :
        /\ failed => env.faults
        /\ ProceedWith(c, [complete |-> data[c].complete /\ ~failed])
        /\ ~failed =>
             \/ At(c, "read_model") /\ feats'.model = machine.model
             \/ At(c, "read_priority") /\ feats'.charging_prio = HasPriority
             \/ At(c, "read_profile") /\ feats'.charging_profile = HasProfile
             \/ /\ At(c, "read_ecfans")
                /\ feats.model = machine.model => universal' = env.universal
  BY ReadsAreRight
<1>3. /\ UNCHANGED feats_loaded /\ FeatsType'
      /\ ~At(c, "read_model") => feats'.model = feats.model
      /\ ~At(c, "read_priority") => feats'.charging_prio = feats.charging_prio
      /\ ~At(c, "read_profile") => feats'.charging_profile = feats.charging_profile
      /\ ~At(c, "read_ecfans") => universal' = universal
  BY ReadsAreRight
<1>4. PICK x : At(c, x) /\ x \in Reads \ {"set_loaded"}
  BY DEF FeatureRead, ReadModel, ReadPriority, ReadProfile, ReadEcFans, Reads, At
<1>5. ~Idle(c) /\ todo[c][1] = x /\ Head(todo[c]) = x
  BY <1>4, NextIsHead
<1>6. ReadSoFar(c)
  BY <1>4, <1>5 DEF CacheInv, NextIs
<1>7. HasPriority' = HasPriority /\ HasProfile' = HasProfile
  BY <1>1 DEF HasPriority, HasProfile
<1>8. \A b \in Callers \ {c} : NextIs(b, Reads)' => ReadSoFar(b)'
  <2>1. env.overlap => ~failed /\ data[c].complete
    BY <1>2, <1>6 DEF CacheIsSafe, ReadSoFar
  <2> QED BY <1>1, <1>2, <1>3, <1>4, <1>5, <1>6, <2>1, OthersKeepReading DEF At, Reads, ReadSoFar
<1>9. ASSUME NextIs(c, Reads)' PROVE ReadSoFar(c)'
  <2> DEFINE y == todo'[c][1]
  <2>1. y \in Reads /\ x = Before(y) /\ data'[c] = [complete |-> data[c].complete /\ ~failed]
    BY <1>2, <1>5, <1>9, NextAfter DEF NextIs, Idle, Guarded, Reads
  <2>2. \/ x = "read_model" /\ y = "read_priority"
        \/ x = "read_priority" /\ y = "read_profile"
        \/ x = "read_profile" /\ y = "read_ecfans"
        \/ x = "read_ecfans" /\ y = "set_loaded"
    BY <1>4, <2>1 DEF Before, Reads, Inserted
  <2>3. data'[c].complete = (data[c].complete /\ ~failed)
    BY <2>1
  <2>4. CASE x = "read_model" /\ y = "read_priority"
    BY <1>1, <1>2, <1>3, <1>5, <1>6, <1>7, <2>3, <2>4 DEF ReadSoFar, At
  <2>5. CASE x = "read_priority" /\ y = "read_profile"
    BY <1>1, <1>2, <1>3, <1>5, <1>6, <1>7, <2>3, <2>5 DEF ReadSoFar, At
  <2>6. CASE x = "read_profile" /\ y = "read_ecfans"
    BY <1>1, <1>2, <1>3, <1>5, <1>6, <1>7, <2>3, <2>6 DEF ReadSoFar, At
  <2>7. CASE x = "read_ecfans" /\ y = "set_loaded"
    BY <1>1, <1>2, <1>3, <1>5, <1>6, <1>7, <2>3, <2>7 DEF ReadSoFar, At
  <2> QED BY <2>2, <2>4, <2>5, <2>6, <2>7
<1>10. ASSUME feats_loaded' PROVE FeaturesRight'
  <2>1. env.overlap /\ ~failed /\ data[c].complete
    BY <1>2, <1>3, <1>6, <1>10 DEF ReadSoFar, CacheIsSafe
  <2>2. FeaturesRight
    BY <1>3, <1>10 DEF CacheInv
  <2> QED BY <1>1, <1>2, <1>3, <1>7, <2>1, <2>2 DEF FeaturesRight, At
<1> QED BY <1>3, <1>8, <1>9, <1>10 DEF CacheInv

LEMMA FillKeepsCache ==
  ASSUME CacheIsSafe, CallsInv, FeatsType, CacheInv, NEW c \in Callers,
         SetLoaded(c) \/ (CheckLoaded(c) /\ ~feats_loaded)
  PROVE  FeatsType' /\ CacheInv'
<1>1. CallsInv' /\ OnlyMoves(c) /\ Alone(c) /\ env' = env /\ machine' = machine
  BY CallsStep DEF IoStep, FeatureStep
<1>2. UNCHANGED <<feats, universal>>
  BY DEF SetLoaded, CheckLoaded, ioVars, features
<1>3. \A b \in Callers \ {c} : NextIs(b, Reads)' => ReadSoFar(b)'
  BY <1>1, <1>2, OthersKeepReading
<1>4. HasPriority' = HasPriority /\ HasProfile' = HasProfile
  BY <1>1 DEF HasPriority, HasProfile
<1>5. CASE SetLoaded(c)
  <2>1. At(c, "set_loaded") /\ feats_loaded' = data[c].complete /\ ProceedWith(c, data[c])
    BY <1>5 DEF SetLoaded, Proceed
  <2>2. ~Idle(c) /\ todo[c][1] = "set_loaded" /\ Head(todo[c]) = "set_loaded"
    BY <2>1, NextIsHead
  <2>3. ReadSoFar(c)
    BY <2>2 DEF CacheInv, NextIs, Reads
  <2>4. \A y \in Guarded : Before(y) # "set_loaded"
    BY DEF Guarded, Before, Inserted
  <2>5. ~NextIs(c, Reads)'
    BY <2>1, <2>2, <2>4, NextAfter DEF NextIs, Idle, Guarded, Reads
  <2>6. feats_loaded' => FeaturesRight'
    BY <1>1, <1>2, <1>4, <2>1, <2>2, <2>3 DEF ReadSoFar, FeaturesRight
  <2>7. FeatsType'
    BY <1>1, <1>2, <2>1, <2>3 DEF FeatsType, ReadSoFar
  <2> QED BY <1>3, <2>5, <2>6, <2>7 DEF CacheInv
<1>6. CASE CheckLoaded(c) /\ ~feats_loaded
  <2>1. /\ ~Idle(c) /\ Head(todo[c]) = "check_loaded"
        /\ Inserts(c, ReadFeatures, [complete |-> TRUE])
        /\ feats_loaded' = feats_loaded
    BY <1>6 DEF CheckLoaded, Inserts, ReadFeatures, At, ioVars, features
  <2>2. NoneAfter(Head(todo[c]), IoAfter)
    BY <2>1, IoOrder DEF NoneAfter, Guarded, Before, Inserted
  <2>3. todo'[c][1] = ReadFeatures[1] /\ data'[c] = [complete |-> TRUE]
    BY <2>1, <2>2, IoStepsFollow, InsertedFollow DEF CallsInv
  <2>4. ReadSoFar(c)'
    BY <1>1, <1>6, <2>1, <2>3 DEF ReadSoFar, ReadFeatures
  <2>5. FeatsType'
    BY <1>1, <1>2, <2>1 DEF FeatsType
  <2> QED BY <1>3, <1>6, <2>1, <2>4, <2>5 DEF CacheInv
<1> QED BY <1>5, <1>6

\* The other steps do not touch the cache.
LEMMA OtherStepsKeepCache ==
  ASSUME CallsInv, FeatsType, CacheInv, NEW c \in Callers, IoStep(c),
         UNCHANGED <<feats, universal, feats_loaded>>, ~NextIs(c, Reads)'
  PROVE  FeatsType' /\ CacheInv'
<1>1. CallsInv' /\ OnlyMoves(c) /\ Alone(c) /\ env' = env /\ machine' = machine
  BY CallsStep
<1>2. \A b \in Callers \ {c} : NextIs(b, Reads)' => ReadSoFar(b)'
  BY <1>1, OthersKeepReading
<1>3. HasPriority' = HasPriority /\ HasProfile' = HasProfile
  BY <1>1 DEF HasPriority, HasProfile
<1>4. FeatsType'
  BY <1>1 DEF FeatsType
<1> QED BY <1>1, <1>2, <1>3, <1>4 DEF CacheInv, FeaturesRight

-----------------------------------------------------------------------------
(***************************************************************************)
(* The limits of the thermal design power                                  *)
(***************************************************************************)

\* The table of this machine, and the indices it has limits for.
OwnTable == TableOf(machine.model, machine.sku)
Has(i) == OwnTable # Null /\ Tdp(OwnTable).min[i + 1] > 0

TdpSteps == {"check_min", "read_min", "read_max", "write_tdp"}

\* What a caller that sets the power knows by now.
LimitsSoFar(c) ==
  /\ call[c][2] \in Indices
  /\ todo[c][1] = "read_min" => tdp_min_defs = OwnTable
  /\ todo[c][1] # "check_min" => Has(call[c][2])
  /\ todo[c][1] \in {"read_max", "write_tdp"} =>
       data[c].min = Tdp(OwnTable).min[call[c][2] + 1]
  /\ todo[c][1] = "write_tdp" =>
       data[c].max \in {ENODEV, Tdp(OwnTable).max[call[c][2] + 1]}

\* The identification finds the right tables or none, and keeps them unless a
\* read fails.
TablesInv ==
  /\ tdp_min_defs \in {Null, OwnTable} /\ tdp_max_defs \in {Null, OwnTable}
  /\ \A c \in Callers : NextIs(c, {"assign_max"}) => data[c].table \in {Null, OwnTable}
  /\ ~env.faults /\ tdp_min_defs # Null => TableOf(feats.model, machine.sku) = OwnTable

InLimits(i, v) == Has(i) /\ v \in Tdp(OwnTable).min[i + 1] .. Tdp(OwnTable).max[i + 1]

LimitsInv ==
  /\ \A c \in Callers : NextIs(c, TdpSteps) => LimitsSoFar(c)
  /\ tdp = [i \in Indices |-> tdp[i]]
  /\ \A i \in Indices : tdp[i] = Factory \/ InLimits(i, tdp[i])

LEMMA TablesOfMachine ==
  ASSUME MachineTypes, NEW m \in {Unknown, machine.model}
  PROVE  /\ TableOf(m, machine.sku) \in {Null, OwnTable}
         /\ OwnTable \in Models \cup Skus \cup {Null}
BY DEF MachineTypes, TableOf, OwnTable, Null, Unknown, Models, Skus

LEMMA TablesHoldNumbers ==
  ASSUME NEW name \in Models \cup Skus, NEW i \in Indices
  PROVE  Tdp(name).min[i + 1] \in Nat
<1> DEFINE Typed == Tdp(name).min = <<5, 5, 0>> \/ Tdp(name).min = <<5, 5, 5>>
<1>1. Typed => Tdp(name).min[i + 1] \in Nat
  BY DEF Indices
<1>2. ASSUME name = "ph4tux" PROVE Typed
  <2>1. Tdp(name) = [min |-> <<5, 5, 0>>, max |-> <<38, 38, 0>>]
    BY <1>2 DEF Tdp
  <2> QED BY <2>1
<1>3. ASSUME name \in {"ph4trx", "ph4tqx"} PROVE Typed
  <2>1. Tdp(name) = [min |-> <<5, 5, 0>>, max |-> <<50, 50, 0>>]
    BY <1>3 DEF Tdp
  <2> QED BY <2>1
<1>4. ASSUME name = "ph4axx" PROVE Typed
  <2>1. Tdp(name) = [min |-> <<5, 5, 0>>, max |-> <<45, 60, 0>>]
    BY <1>4 DEF Tdp
  <2> QED BY <2>1
<1>5. ASSUME name = "phxpxx" PROVE Typed
  <2>1. Tdp(name) = [min |-> <<5, 5, 5>>, max |-> <<45, 60, 110>>]
    BY <1>5 DEF Tdp
  <2> QED BY <2>1
<1>6. ASSUME name = "pfxluxg" PROVE Typed
  <2>1. Tdp(name) = [min |-> <<5, 5, 5>>, max |-> <<35, 35, 40>>]
    BY <1>6 DEF Tdp
  <2> QED BY <2>1
<1>7. ASSUME name \in {"gmxngxx", "gmxzgxx"} PROVE Typed
  <2>1. Tdp(name) = [min |-> <<5, 5, 5>>, max |-> <<80, 80, 95>>]
    BY <1>7 DEF Tdp
  <2> QED BY <2>1
<1>8. ASSUME name \in {"gmxmgxx", "gmxtgxx"} PROVE Typed
  <2>1. Tdp(name) = [min |-> <<5, 5, 5>>, max |-> <<120, 120, 200>>]
    BY <1>8 DEF Tdp
  <2> QED BY <2>1
<1>9. ASSUME name = "gmxagxx" PROVE Typed
  <2>1. Tdp(name) = [min |-> <<5, 5, 5>>, max |-> <<120, 120, 215>>]
    BY <1>9 DEF Tdp
  <2> QED BY <2>1
<1>10. ASSUME name = "gmxrgxx" PROVE Typed
  <2>1. Tdp(name) = [min |-> <<5, 5, 5>>, max |-> <<100, 100, 110>>]
    BY <1>10 DEF Tdp
  <2> QED BY <2>1
<1>11. ASSUME name = "gmxpxxx" PROVE Typed
  <2>1. Tdp(name) = [min |-> <<5, 5, 5>>, max |-> <<130, 130, 200>>]
    BY <1>11 DEF Tdp
  <2> QED BY <2>1
<1>12. ASSUME name = "gmxxgxx" PROVE Typed
  <2>1. Tdp(name) = [min |-> <<5, 5, 5>>, max |-> <<80, 80, 100>>]
    BY <1>12 DEF Tdp
  <2> QED BY <2>1
<1> QED
  BY <1>1, <1>2, <1>3, <1>4, <1>5, <1>6, <1>7, <1>8, <1>9, <1>10, <1>11, <1>12 DEF Models, Skus

\* A limit is the one in the table of the machine, or there is none.
LEMMA LimitsAreOwn ==
  ASSUME MachineTypes, NEW i \in Indices
  PROVE  /\ \A defs \in {Null, OwnTable} :
              Limit(defs, "min", i) >= 0 => defs = OwnTable /\ Has(i)
         /\ Has(i) => /\ Tdp(OwnTable).min[i + 1] \in Nat \ {0}
                      /\ Limit(OwnTable, "min", i) = Tdp(OwnTable).min[i + 1]
         /\ \A defs \in {Null, OwnTable} :
              Has(i) => Limit(defs, "max", i) \in {ENODEV, Tdp(OwnTable).max[i + 1]}
         /\ \A defs : Limit(defs, "min", i) < 0 \/ Limit(defs, "min", i) >= 0
            \/ defs \notin {Null, OwnTable}
<1>1. OwnTable # Null => Tdp(OwnTable).min[i + 1] \in Nat
  BY TablesOfMachine, TablesHoldNumbers
<1>2. ENODEV = -19
  BY DEF ENODEV
<1>3. /\ Limit(Null, "min", i) = ENODEV /\ Limit(Null, "max", i) = ENODEV
      /\ OwnTable # Null =>
           Limit(OwnTable, "min", i) =
             IF Tdp(OwnTable).min[i + 1] <= 0 THEN ENODEV ELSE Tdp(OwnTable).min[i + 1]
  BY DEF Limit
<1>4. OwnTable # Null => Limit(OwnTable, "max", i) \in {ENODEV, Tdp(OwnTable).max[i + 1]}
  BY DEF Limit
<1> QED BY <1>1, <1>2, <1>3, <1>4 DEF Has

\* What the machine is does not change, so its limits do not.
LEMMA LimitsConstant ==
  ASSUME machine' = machine
  PROVE  /\ OwnTable' = OwnTable
         /\ \A i : Has(i)' = Has(i)
         /\ \A i, v : InLimits(i, v)' = InLimits(i, v)
BY DEF OwnTable, TableOf, Has, InLimits

\* The others keep what they know: a call alone is the only one that knows
\* anything, and calls that overlap keep the lower limits they have found.
LEMMA OthersKeepLimits ==
  ASSUME CallsInv, TablesInv, LimitsInv, NEW c \in Callers, OnlyMoves(c), Alone(c),
         env' = env, machine' = machine,
         env.overlap => (tdp_min_defs = OwnTable /\ OwnTable # Null => tdp_min_defs' = OwnTable)
  PROVE  /\ \A b \in Callers \ {c} : NextIs(b, TdpSteps)' => LimitsSoFar(b)'
         /\ \A b \in Callers \ {c} :
              NextIs(b, {"assign_max"})' => data'[b].table \in {Null, OwnTable'}
<1>1. ASSUME NEW b \in Callers \ {c}, NextIs(b, TdpSteps)' PROVE LimitsSoFar(b)'
  <2>1. /\ todo'[b] = todo[b] /\ data'[b] = data[b] /\ call'[b] = call[b]
        /\ NextIs(b, TdpSteps)
    BY <1>1 DEF OnlyMoves, NextIs, Idle
  <2>2. env.overlap /\ LimitsSoFar(b)
    BY <2>1 DEF Alone, NextIs, LimitsInv
  <2>3. todo[b][1] = "read_min" => OwnTable # Null
    BY <2>2 DEF LimitsSoFar, Has
  <2> QED BY <2>1, <2>2, <2>3, LimitsConstant DEF LimitsSoFar
<1>2. ASSUME NEW b \in Callers \ {c}, NextIs(b, {"assign_max"})'
      PROVE  data'[b].table \in {Null, OwnTable'}
  BY <1>2, LimitsConstant DEF OnlyMoves, NextIs, Idle, TablesInv
<1> QED BY <1>1, <1>2

TdpInv == TablesInv /\ LimitsInv

\* Steps that neither look anything up nor set the power.
LEMMA OtherStepsKeepLimits ==
  ASSUME CallsInv, FeatsType, TdpInv, NEW c \in Callers, IoStep(c),
         UNCHANGED <<limits, tdp>>, ~NextIs(c, TdpSteps \cup {"assign_max"})',
         \/ feats' = feats
         \/ ~env.faults => feats'.model = machine.model \/ feats'.model = feats.model
  PROVE  TdpInv'
<1>1. CallsInv' /\ OnlyMoves(c) /\ Alone(c) /\ env' = env /\ machine' = machine
  BY CallsStep
<1>2. UNCHANGED <<tdp_min_defs, tdp_max_defs, tdp>>
  BY DEF limits
<1>3. ~NextIs(c, TdpSteps)' /\ ~NextIs(c, {"assign_max"})'
  BY DEF NextIs
<1>4. \A b \in Callers : /\ NextIs(b, TdpSteps)' => LimitsSoFar(b)'
                         /\ NextIs(b, {"assign_max"})' => data'[b].table \in {Null, OwnTable'}
  BY <1>1, <1>2, <1>3, OthersKeepLimits DEF TdpInv
<1>5. ~env.faults /\ tdp_min_defs # Null => TableOf(feats'.model, machine.sku) = OwnTable
  BY DEF TdpInv, TablesInv, OwnTable
<1> QED BY <1>1, <1>2, <1>4, <1>5, LimitsConstant DEF TdpInv, TablesInv, LimitsInv

LEMMA IdentifyKeepsLimits ==
  ASSUME CacheIsSafe, CallsInv, FeatsType, TdpInv, NEW c \in Callers,
         IdTdp(c) \/ AssignMax(c)
  PROVE  TdpInv'
<1>1. CallsInv' /\ OnlyMoves(c) /\ Alone(c) /\ env' = env /\ machine' = machine
  BY CallsStep DEF IoStep, TdpStep
<1>2. MachineTypes /\ TableOf(feats.model, machine.sku) \in {Null, OwnTable}
  BY MachineIsTyped, TablesOfMachine DEF FeatsType
<1>3. tdp' = tdp /\ feats' = feats
  BY DEF IdTdp, AssignMax, features
<1>4. CASE IdTdp(c)
  <2> DEFINE d == [table |-> TableOf(feats.model, machine.sku)]
  <2>1. /\ At(c, "id_tdp") /\ ProceedWith(c, d)
        /\ tdp_min_defs' = TableOf(feats.model, machine.sku) /\ tdp_max_defs' = tdp_max_defs
    BY <1>4 DEF IdTdp
  <2>2. ~Idle(c) /\ Head(todo[c]) = "id_tdp"
    BY <2>1, NextIsHead
  <2>3. env.overlap => (tdp_min_defs = OwnTable /\ OwnTable # Null => tdp_min_defs' = OwnTable)
    BY <2>1 DEF TdpInv, TablesInv, CacheIsSafe
  <2>4. NextIs(c, TdpSteps \cup {"assign_max"})' => todo'[c][1] = "assign_max" /\ data'[c] = d
    BY <2>1, <2>2, NextAfter DEF NextIs, Idle, Guarded, Before, Inserted, TdpSteps
  <2>5. /\ NextIs(c, TdpSteps)' => LimitsSoFar(c)'
        /\ NextIs(c, {"assign_max"})' => data'[c].table \in {Null, OwnTable'}
    BY <1>1, <1>2, <2>4, LimitsConstant DEF NextIs, TdpSteps
  <2>6. /\ \A b \in Callers : NextIs(b, TdpSteps)' => LimitsSoFar(b)'
        /\ \A b \in Callers : NextIs(b, {"assign_max"})' => data'[b].table \in {Null, OwnTable'}
    BY <1>1, <2>3, <2>5, OthersKeepLimits DEF TdpInv
  <2>7. tdp_min_defs' # Null => TableOf(feats'.model, machine'.sku) = OwnTable'
    BY <1>1, <1>2, <1>3, <2>1, LimitsConstant
  <2> QED BY <1>1, <1>2, <1>3, <2>1, <2>6, <2>7, LimitsConstant DEF TdpInv, TablesInv, LimitsInv
<1>5. CASE AssignMax(c)
  <2>1. /\ At(c, "assign_max") /\ ProceedWith(c, data[c])
        /\ tdp_max_defs' = data[c].table /\ tdp_min_defs' = tdp_min_defs
    BY <1>5 DEF AssignMax, Proceed
  <2>2. ~Idle(c) /\ Head(todo[c]) = "assign_max" /\ todo[c][1] = "assign_max"
    BY <2>1, NextIsHead
  <2>3. data[c].table \in {Null, OwnTable}
    BY <2>2 DEF TdpInv, TablesInv, NextIs
  <2>4. ~NextIs(c, TdpSteps)' /\ ~NextIs(c, {"assign_max"})'
    BY <2>1, <2>2, NextAfter DEF NextIs, Idle, Guarded, Before, Inserted, TdpSteps
  <2>5. /\ \A b \in Callers : NextIs(b, TdpSteps)' => LimitsSoFar(b)'
        /\ \A b \in Callers : NextIs(b, {"assign_max"})' => data'[b].table \in {Null, OwnTable'}
    BY <1>1, <2>1, <2>4, OthersKeepLimits DEF TdpInv
  <2> QED BY <1>1, <1>3, <2>1, <2>3, <2>5, LimitsConstant DEF TdpInv, TablesInv, LimitsInv
<1> QED BY <1>4, <1>5

LEMMA SetTdpKeepsLimits ==
  ASSUME CacheIsSafe, CallsInv, FeatsType, TdpInv, NEW c \in Callers,
         \/ \E i \in Indices, a \in TdpArguments : SetTdp(c, i, a)
         \/ CheckMin(c) /\ ~(Limit(tdp_min_defs, "min", call[c][2]) < 0)
         \/ ReadMin(c) \/ ReadMax(c)
  PROVE  TdpInv'
<1>1. CallsInv' /\ OnlyMoves(c) /\ Alone(c) /\ env' = env /\ machine' = machine
  BY CallsStep DEF IoStep, TdpStep
<1>2. MachineTypes
  BY MachineIsTyped
<1>3. UNCHANGED <<tdp, feats, tdp_min_defs, tdp_max_defs>>
  BY DEF SetTdp, CheckMin, ReadMin, ReadMax, ioVars, features, limits
<1>4. SUFFICES (NextIs(c, TdpSteps)' => LimitsSoFar(c)') /\ ~NextIs(c, {"assign_max"})'
  <2>1. /\ \A b \in Callers \ {c} : NextIs(b, TdpSteps)' => LimitsSoFar(b)'
        /\ \A b \in Callers \ {c} :
             NextIs(b, {"assign_max"})' => data'[b].table \in {Null, OwnTable'}
    BY <1>1, <1>3, OthersKeepLimits DEF TdpInv
  <2> QED BY <1>1, <1>3, <1>4, <2>1, LimitsConstant DEF TdpInv, TablesInv, LimitsInv
<1> DEFINE i == call[c][2]
<1>5. ASSUME NEW j \in Indices, NEW a \in TdpArguments, SetTdp(c, j, a)
      PROVE  (NextIs(c, TdpSteps)' => LimitsSoFar(c)') /\ ~NextIs(c, {"assign_max"})'
  <2>1. todo'[c] = <<"check_min">> /\ call'[c] = <<"tdp", j, a % 256>>
    BY <1>5, BeginsAnew DEF SetTdp, BeginIo, IoCalls
  <2> QED BY <2>1 DEF NextIs, LimitsSoFar
<1>6. CASE CheckMin(c) /\ ~(Limit(tdp_min_defs, "min", call[c][2]) < 0)
  <2>1. /\ At(c, "check_min") /\ Inserts(c, UseLimits, data[c])
    BY <1>6 DEF CheckMin, Insert, Inserts, UseLimits, CallsInv, ListsInv
  <2>2. ~Idle(c) /\ todo[c][1] = "check_min" /\ Head(todo[c]) = "check_min"
    BY <2>1, NextIsHead
  <2>3. i \in Indices
    BY <2>2 DEF TdpInv, LimitsInv, LimitsSoFar, NextIs, TdpSteps
  <2>4. tdp_min_defs = OwnTable /\ Has(i)
    BY <1>2, <1>6, <2>3, LimitsAreOwn DEF TdpInv, TablesInv
  <2>5. NoneAfter(Head(todo[c]), IoAfter)
    BY <2>2, IoOrder DEF NoneAfter, Guarded, Before, Inserted
  <2>6. todo'[c][1] = UseLimits[1]
    BY <2>1, <2>2, <2>5, IoStepsFollow, InsertedFollow DEF CallsInv
  <2>7. todo'[c][1] = "read_min" /\ call'[c] = call[c]
    BY <2>1, <2>6 DEF Inserts, UseLimits
  <2> QED BY <1>1, <1>3, <2>3, <2>4, <2>7, LimitsConstant DEF NextIs, LimitsSoFar
<1>7. CASE ReadMin(c)
  <2> DEFINE d == [min |-> Limit(tdp_min_defs, "min", i)]
  <2>1. At(c, "read_min") /\ ProceedWith(c, d)
    BY <1>7 DEF ReadMin
  <2>2. ~Idle(c) /\ todo[c][1] = "read_min" /\ Head(todo[c]) = "read_min"
    BY <2>1, NextIsHead
  <2>3. i \in Indices /\ tdp_min_defs = OwnTable /\ Has(i)
    BY <2>2 DEF TdpInv, LimitsInv, LimitsSoFar, NextIs, TdpSteps
  <2>4. NextIs(c, Guarded)' =>
          todo'[c][1] = "read_max" /\ call'[c] = call[c] /\ data'[c] = d
    BY <2>1, <2>2, NextAfter DEF NextIs, Idle, Guarded, Before, Inserted
  <2>5. d.min = Tdp(OwnTable).min[i + 1]
    BY <1>2, <2>3, LimitsAreOwn
  <2> QED BY <1>1, <1>3, <2>3, <2>4, <2>5, LimitsConstant
          DEF NextIs, LimitsSoFar, TdpSteps, Guarded
<1>8. CASE ReadMax(c)
  <2> DEFINE d == [min |-> data[c].min, max |-> Limit(tdp_max_defs, "max", i)]
  <2>1. At(c, "read_max") /\ ProceedWith(c, d)
    BY <1>8 DEF ReadMax
  <2>2. ~Idle(c) /\ todo[c][1] = "read_max" /\ Head(todo[c]) = "read_max"
    BY <2>1, NextIsHead
  <2>3. i \in Indices /\ Has(i) /\ data[c].min = Tdp(OwnTable).min[i + 1]
    BY <2>2 DEF TdpInv, LimitsInv, LimitsSoFar, NextIs, TdpSteps
  <2>4. NextIs(c, Guarded)' =>
          todo'[c][1] = "write_tdp" /\ call'[c] = call[c] /\ data'[c] = d
    BY <2>1, <2>2, NextAfter DEF NextIs, Idle, Guarded, Before, Inserted
  <2>5. d.max \in {ENODEV, Tdp(OwnTable).max[i + 1]} /\ d.min = data[c].min
    BY <1>2, <2>3, LimitsAreOwn DEF TdpInv, TablesInv
  <2> QED BY <1>1, <1>3, <2>3, <2>4, <2>5, LimitsConstant
          DEF NextIs, LimitsSoFar, TdpSteps, Guarded
<1> QED BY <1>5, <1>6, <1>7, <1>8

LEMMA WriteTdpKeepsLimits ==
  ASSUME CacheIsSafe, CallsInv, FeatsType, TdpInv, NEW c \in Callers, WriteTdp(c)
  PROVE  TdpInv'
<1>1. CallsInv' /\ OnlyMoves(c) /\ Alone(c) /\ env' = env /\ machine' = machine
  BY CallsStep DEF IoStep, TdpStep
<1>2. MachineTypes
  BY MachineIsTyped
<1>3. UNCHANGED <<feats, tdp_min_defs, tdp_max_defs>>
  BY DEF WriteTdp, features, limits
<1>4. At(c, "write_tdp") /\ ProceedWith(c, data[c])
  BY DEF WriteTdp, Proceed
<1>5. ~Idle(c) /\ todo[c][1] = "write_tdp" /\ Head(todo[c]) = "write_tdp"
  BY <1>4, NextIsHead
<1>6. ~NextIs(c, TdpSteps)' /\ ~NextIs(c, {"assign_max"})'
  BY <1>4, <1>5, NextAfter DEF NextIs, Idle, Guarded, Before, Inserted, TdpSteps
<1>7. \A b \in Callers : /\ NextIs(b, TdpSteps)' => LimitsSoFar(b)'
                         /\ NextIs(b, {"assign_max"})' => data'[b].table \in {Null, OwnTable'}
  BY <1>1, <1>3, <1>6, OthersKeepLimits DEF TdpInv
<1> DEFINE i == call[c][2]
           new == call[c][3]
<1>8. /\ i \in Indices /\ Has(i) /\ data[c].min = Tdp(OwnTable).min[i + 1]
      /\ data[c].max \in {ENODEV, Tdp(OwnTable).max[i + 1]}
      /\ tdp = [j \in Indices |-> tdp[j]]
  BY <1>5 DEF TdpInv, LimitsInv, LimitsSoFar, NextIs, TdpSteps
<1>9. PICK v : /\ tdp' = [tdp EXCEPT ![i] = v]
               /\ v = tdp[i] \/ (v = new /\ new \in data[c].min .. data[c].max)
  BY DEF WriteTdp, Written
<1>10. data[c].min \in Nat \ {0}
  BY <1>2, <1>8, LimitsAreOwn
<1>11. v = tdp[i] \/ InLimits(i, v)
  <2>1. CASE data[c].max = ENODEV
    BY <1>9, <1>10, <2>1 DEF ENODEV
  <2>2. CASE data[c].max = Tdp(OwnTable).max[i + 1]
    BY <1>8, <1>9, <2>2 DEF InLimits
  <2> QED BY <1>8, <2>1, <2>2
<1>12. \A j \in Indices : tdp'[j] = Factory \/ InLimits(j, tdp'[j])
  BY <1>8, <1>9, <1>11 DEF TdpInv, LimitsInv
<1>13. tdp' = [j \in Indices |-> tdp'[j]]
  BY <1>8, <1>9
<1> QED BY <1>1, <1>3, <1>7, <1>12, <1>13, LimitsConstant DEF TdpInv, TablesInv, LimitsInv

-----------------------------------------------------------------------------
(***************************************************************************)
(* The profile, when there are other calls                                 *)
(***************************************************************************)

LEMMA IoStepKeepsPure ==
  ASSUME ProfileInv, NEW c \in Callers, FeatureStep(c) \/ TdpStep(c) \/ ClevoStep(c)
  PROVE  ProfileInv'
<1>1. ASSUME NEW args, NEW s \in IoCalls, BeginIo(c, args, s) PROVE ProfileInv'
  BY <1>1, IoCallsAreOrdered, StartKeepsPure DEF BeginIo
<1>2. ASSUME NEW d, ~Idle(c), Head(todo[c]) # "read_mode", ProceedWith(c, d), mode' = mode
      PROVE  ProfileInv'
  BY <1>2, ProceedKeepsPure DEF ProfileInv
<1>3. CASE GetFeatures(c) \/ Identify(c)
  BY <1>1, <1>3 DEF GetFeatures, Identify, IoCalls
<1>4. ASSUME NEW i \in Indices, NEW a \in TdpArguments, SetTdp(c, i, a) PROVE ProfileInv'
  BY <1>1, <1>4 DEF SetTdp, IoCalls
<1>5. ASSUME NEW a \in Settings, SwitchWebcam(c, a) PROVE ProfileInv'
  BY <1>1, <1>5 DEF SwitchWebcam, IoCalls
<1>6. ASSUME NEW m \in Methods, NEW a \in Settings, Forward(c, m, a) PROVE ProfileInv'
  BY <1>1, <1>6 DEF Forward, IoCalls
<1>7. CASE \/ CheckLoaded(c) /\ ~feats_loaded
           \/ CheckMin(c) /\ ~(Limit(tdp_min_defs, "min", call[c][2]) < 0)
  <2>1. ~Idle(c) /\ Head(todo[c]) # "read_mode" /\ mode' = mode
    BY <1>7 DEF CheckLoaded, CheckMin, At, Insert, fans, registers
  <2>2. \/ Inserts(c, ReadFeatures, [complete |-> TRUE])
        \/ Inserts(c, UseLimits, data[c])
    BY <1>7 DEF CheckLoaded, CheckMin, Insert, Inserts, ReadFeatures, UseLimits, ProfileInv,
                ListsInv
  <2> QED BY <2>1, <2>2, IoCallsAreOrdered, InsertKeepsPure
<1>8. CASE \/ CheckLoaded(c) /\ feats_loaded
           \/ CheckMin(c) /\ Limit(tdp_min_defs, "min", call[c][2]) < 0
           \/ ReadModel(c) \/ ReadPriority(c) \/ ReadProfile(c) \/ ReadEcFans(c)
           \/ SetLoaded(c) \/ AssignFeats(c)
           \/ IdTdp(c) \/ AssignMax(c) \/ ReadMin(c) \/ ReadMax(c) \/ WriteTdp(c)
           \/ GetWebcam(c) \/ SetWebcam(c) \/ Evaluate(c)
  <2>1. \E d : ProceedWith(c, d)
    BY <1>8, Zenon
       DEF CheckLoaded, CheckMin, ReadModel, ReadPriority, ReadProfile, ReadEcFans, Fails,
           SetLoaded, AssignFeats, IdTdp, AssignMax, ReadMin, ReadMax, WriteTdp, GetWebcam,
           SetWebcam, Evaluate, Proceed
  <2>2. ~Idle(c) /\ Head(todo[c]) # "read_mode"
    BY <1>8 DEF CheckLoaded, CheckMin, ReadModel, ReadPriority, ReadProfile, ReadEcFans,
           SetLoaded, AssignFeats, IdTdp, AssignMax, ReadMin, ReadMax, WriteTdp, GetWebcam,
           SetWebcam, Evaluate, At
  <2>3. mode' = mode
    BY <1>8 DEF CheckLoaded, CheckMin, ReadModel, ReadPriority, ReadProfile, ReadEcFans,
           Fails, SetLoaded, AssignFeats, IdTdp, AssignMax, ReadMin, ReadMax, WriteTdp,
           GetWebcam, SetWebcam, Evaluate, fans, registers
  <2> QED BY <1>2, <2>1, <2>2, <2>3
<1> QED BY <1>3, <1>4, <1>5, <1>6, <1>7, <1>8 DEF FeatureStep, TdpStep, ClevoStep

-----------------------------------------------------------------------------
(***************************************************************************)
(* The webcam                                                              *)
(***************************************************************************)

WebcamIsSafe == ~env.faults /\ ~(machine.toggles /\ env.overlap)

\* As long as nobody has set the webcam to a state that is asked for, those who
\* have read its state are right about it, and one of them will set it.
WebcamSoFar(c) ==
  /\ todo[c] \in {<<"get_webcam", "set_webcam">>, <<"set_webcam">>}
  /\ call[c][2] \in asked
  /\ todo[c][1] = "set_webcam" =>
       /\ data[c].state \in 0 .. 1
       /\ data[c].state = webcam \/ (env.overlap /\ webcam \in asked)

WebcamInv ==
  /\ webcam \in 0 .. 1 /\ asked \subseteq 0 .. 1
  /\ \A c \in Callers : NextIs(c, WebcamSteps) => WebcamSoFar(c)
  /\ asked # {} => webcam \in asked \/ \E c \in Callers : NextIs(c, WebcamSteps)

\* The calls of the others see no difference.
LEMMA OthersKeepWebcam ==
  ASSUME CallsInv, WebcamInv, NEW c \in Callers, OnlyMoves(c), Alone(c), env' = env,
         webcam' = webcam \/ webcam' \in asked', asked \subseteq asked'
  PROVE  \A b \in Callers \ {c} :
           /\ NextIs(b, WebcamSteps)' <=> NextIs(b, WebcamSteps)
           /\ NextIs(b, WebcamSteps)' => WebcamSoFar(b)'
<1> SUFFICES ASSUME NEW b \in Callers \ {c}
             PROVE  /\ NextIs(b, WebcamSteps)' <=> NextIs(b, WebcamSteps)
                    /\ NextIs(b, WebcamSteps)' => WebcamSoFar(b)'
  OBVIOUS
<1>1. /\ todo'[b] = todo[b] /\ data'[b] = data[b] /\ call'[b] = call[b]
      /\ NextIs(b, WebcamSteps)' <=> NextIs(b, WebcamSteps)
  BY DEF OnlyMoves, NextIs, Idle
<1>2. ASSUME NextIs(b, WebcamSteps)' PROVE WebcamSoFar(b)'
  <2>1. env.overlap /\ WebcamSoFar(b)
    BY <1>1, <1>2 DEF Alone, NextIs, WebcamInv
  <2> QED BY <1>1, <2>1 DEF WebcamSoFar
<1> QED BY <1>1, <1>2

LEMMA SwitchKeepsWebcam ==
  ASSUME CallsInv, WebcamInv, NEW c \in Callers, NEW a \in Settings, SwitchWebcam(c, a)
  PROVE  WebcamInv'
<1>1. CallsInv' /\ OnlyMoves(c) /\ Alone(c) /\ env' = env /\ machine' = machine
  BY CallsStep DEF IoStep, ClevoStep
<1>2. /\ todo'[c] = <<"get_webcam", "set_webcam">> /\ call'[c] = <<"webcam", a % 2>>
      /\ asked' = (IF Quiescent THEN {} ELSE asked) \cup {a % 2} /\ webcam' = webcam
  BY BeginsAnew DEF SwitchWebcam, BeginIo, IoCalls
<1>3. a % 2 \in 0 .. 1
  BY IoAssumption
<1>4. NextIs(c, WebcamSteps)' /\ WebcamSoFar(c)'
  BY <1>2 DEF NextIs, Idle, WebcamSteps, WebcamSoFar
<1>5. CASE Quiescent
  <2>1. \A b \in Callers \ {c} : ~NextIs(b, WebcamSteps)'
    BY <1>1, <1>5 DEF NextIs, Idle, Quiescent, OnlyMoves
  <2> QED BY <1>2, <1>3, <1>4, <2>1 DEF WebcamInv
<1>6. CASE ~Quiescent
  <2>1. asked \subseteq asked'
    BY <1>2, <1>6
  <2> QED BY <1>1, <1>2, <1>3, <1>4, <1>6, <2>1, OthersKeepWebcam DEF WebcamInv
<1> QED BY <1>5, <1>6

LEMMA StepKeepsWebcam ==
  ASSUME WebcamIsSafe, CallsInv, WebcamInv, NEW c \in Callers, GetWebcam(c) \/ SetWebcam(c)
  PROVE  WebcamInv'
<1>1. CallsInv' /\ OnlyMoves(c) /\ Alone(c) /\ env' = env /\ machine' = machine
  BY CallsStep DEF IoStep, ClevoStep
<1>2. CASE GetWebcam(c)
  <2> DEFINE d == [state |-> webcam]
  <2>1. /\ At(c, "get_webcam") /\ ProceedWith(c, d)
        /\ webcam' = webcam /\ asked' = asked
    BY <1>2 DEF GetWebcam, Seen, WebcamIsSafe, ioVars, clevo
  <2>2. ~Idle(c) /\ todo[c][1] = "get_webcam"
    BY <2>1, NextIsHead
  <2>3. todo[c] = <<"get_webcam", "set_webcam">> /\ call[c][2] \in asked
    BY <2>2 DEF WebcamInv, NextIs, WebcamSteps, WebcamSoFar
  <2>4. Tail(todo[c]) = <<"set_webcam">> /\ Len(todo[c]) = 2
    BY <2>3
  <2>5. todo'[c] = <<"set_webcam">> /\ call'[c] = call[c] /\ data'[c] = d
    BY <2>1, <2>4 DEF ProceedWith, CallsInv, ListsInv
  <2>6. NextIs(c, WebcamSteps)' /\ WebcamSoFar(c)'
    BY <2>1, <2>3, <2>5 DEF NextIs, Idle, WebcamSteps, WebcamSoFar, WebcamInv
  <2> QED BY <1>1, <2>1, <2>6, OthersKeepWebcam DEF WebcamInv
<1>3. CASE SetWebcam(c)
  <2>1. /\ At(c, "set_webcam") /\ ProceedWith(c, data[c]) /\ asked' = asked
        /\ webcam' = IF call[c][2] = data[c].state THEN webcam
                     ELSE IF machine.toggles THEN 1 - webcam ELSE call[c][2]
    BY <1>3 DEF SetWebcam, Written, WebcamIsSafe, Proceed
  <2>2. ~Idle(c) /\ todo[c][1] = "set_webcam" /\ Head(todo[c]) = "set_webcam"
    BY <2>1, NextIsHead
  <2>3. /\ call[c][2] \in asked /\ call[c][2] \in 0 .. 1
        /\ data[c].state \in 0 .. 1
        /\ data[c].state = webcam \/ (env.overlap /\ webcam \in asked)
    BY <2>2 DEF WebcamInv, NextIs, WebcamSteps, WebcamSoFar
  <2>4. webcam' \in asked /\ webcam' \in 0 .. 1
    BY <2>1, <2>3 DEF WebcamIsSafe, WebcamInv
  <2>5. ~NextIs(c, WebcamSteps)'
    BY <2>1, <2>2, NextAfter DEF NextIs, Idle, Guarded, Before, Inserted, WebcamSteps
  <2> QED BY <1>1, <2>1, <2>4, <2>5, OthersKeepWebcam DEF WebcamInv
<1> QED BY <1>2, <1>3

\* Steps of the other calls.
LEMMA OtherStepsKeepWebcam ==
  ASSUME CallsInv, WebcamInv, NEW c \in Callers, IoStep(c),
         ~(\E a \in Settings : SwitchWebcam(c, a)), ~GetWebcam(c), ~SetWebcam(c)
  PROVE  WebcamInv'
<1>1. CallsInv' /\ OnlyMoves(c) /\ Alone(c) /\ env' = env /\ machine' = machine
  BY CallsStep
<1>2. webcam' = webcam /\ asked' = asked
  BY DEF IoStep, FeatureStep, TdpStep, ClevoStep, GetFeatures, Identify, CheckLoaded,
         ReadModel, ReadPriority, ReadProfile, ReadEcFans, Fails, SetLoaded, AssignFeats,
         IdTdp, AssignMax, SetTdp, CheckMin, ReadMin, ReadMax, WriteTdp, Forward, Evaluate,
         ioVars, clevo
<1> DEFINE Away == ~NextIs(c, WebcamSteps) /\ ~NextIs(c, WebcamSteps)'
<1>3. ASSUME NEW args, NEW s \in IoCalls \cup FanCalls, s # <<"get_webcam", "set_webcam">>,
             Start(c, args, s)
      PROVE  Away
  BY <1>3, BeginsAnew DEF Start, NextIs
<1>4. ASSUME ~Idle(c), Head(todo[c]) \notin WebcamSteps \cup {Inserted}, NEW d, ProceedWith(c, d)
      PROVE  Away
  <2>1. Head(todo[c]) = todo[c][1]
    BY <1>4 DEF CallsInv, ListsInv, IsList, Idle
  <2> QED BY <1>4, <2>1, NextAfter DEF NextIs, Idle, Guarded, Before, WebcamSteps
<1>5. ASSUME Extends(c, {"check_init", "use_full_mode", "check_loaded", "check_min"},
                     {ReadFeatures, UseLimits} \cup FanInserts)
      PROVE  Away
  <2>1. PICK d, s : s \in {ReadFeatures, UseLimits} \cup FanInserts /\ Inserts(c, s, d)
    BY <1>5 DEF Extends
  <2>2. NoneAfter(Head(todo[c]), IoAfter)
    BY <1>5, IoOrder DEF Extends, NoneAfter, Guarded, Before, Inserted
  <2>3. s[1] \notin WebcamSteps
    BY <2>1 DEF ReadFeatures, UseLimits, FanInserts, WebcamSteps
  <2>4. todo'[c][1] = s[1]
    BY <1>5, <2>1, <2>2, IoStepsFollow, InsertedFollow DEF CallsInv, Extends
  <2>5. Head(todo[c]) = todo[c][1]
    BY <1>5 DEF CallsInv, ListsInv, IsList, Idle, Extends
  <2> QED BY <1>5, <2>3, <2>4, <2>5 DEF NextIs, Extends, WebcamSteps
<1>6. ASSUME FanCall(c) \/ FanStep(c) PROVE Away
  <2>1. Begins(c, FanCalls) => Away
    BY <1>3 DEF Begins, FanCalls
  <2>2. Proceeds(c) /\ Head(todo[c]) \in FanSteps => Away
    BY <1>4 DEF Proceeds, FanSteps, WebcamSteps, Inserted
  <2>3. Extends(c, {"check_init", "use_full_mode"}, FanInserts) => Away
    BY <1>5 DEF Extends
  <2> QED BY <1>6, <2>1, <2>2, <2>3, FanShapes DEF CallsInv
<1>7. ASSUME \/ GetFeatures(c) \/ Identify(c)
             \/ \E i \in Indices, a \in TdpArguments : SetTdp(c, i, a)
             \/ \E m \in Methods, a \in Settings : Forward(c, m, a)
      PROVE  Away
  <2>1. \E args : \E s \in {<<"check_loaded">>,
                            <<"check_loaded", "assign_feats", "id_tdp", "assign_max">>,
                            <<"check_min">>, <<"evaluate">>} : Start(c, args, s)
    BY <1>7 DEF GetFeatures, Identify, SetTdp, Forward, BeginIo
  <2> QED BY <1>3, <2>1 DEF IoCalls
<1>8. ASSUME \/ CheckLoaded(c) /\ ~feats_loaded
             \/ CheckMin(c) /\ ~(Limit(tdp_min_defs, "min", call[c][2]) < 0)
      PROVE  Away
  <2>1. ~Idle(c) /\ Head(todo[c]) \in {"check_loaded", "check_min"}
    BY <1>8 DEF CheckLoaded, CheckMin, At
  <2>2. \/ Inserts(c, ReadFeatures, [complete |-> TRUE])
        \/ Inserts(c, UseLimits, data[c])
    BY <1>8 DEF CheckLoaded, CheckMin, Insert, Inserts, ReadFeatures, UseLimits, CallsInv,
                ListsInv
  <2> QED BY <1>5, <2>1, <2>2 DEF Extends
<1>9. ASSUME \/ CheckLoaded(c) /\ feats_loaded
             \/ CheckMin(c) /\ Limit(tdp_min_defs, "min", call[c][2]) < 0
             \/ ReadModel(c) \/ ReadPriority(c) \/ ReadProfile(c) \/ ReadEcFans(c)
             \/ SetLoaded(c) \/ AssignFeats(c)
             \/ IdTdp(c) \/ AssignMax(c) \/ ReadMin(c) \/ ReadMax(c) \/ WriteTdp(c)
             \/ Evaluate(c)
      PROVE  Away
  <2>1. \E d : ProceedWith(c, d)
    BY <1>9, Zenon
       DEF CheckLoaded, CheckMin, ReadModel, ReadPriority, ReadProfile, ReadEcFans, Fails,
           SetLoaded, AssignFeats, IdTdp, AssignMax, ReadMin, ReadMax, WriteTdp, Evaluate,
           Proceed
  <2>2. ~Idle(c) /\ Head(todo[c]) \notin WebcamSteps \cup {Inserted}
    BY <1>9 DEF CheckLoaded, CheckMin, ReadModel, ReadPriority, ReadProfile, ReadEcFans,
           SetLoaded, AssignFeats, IdTdp, AssignMax, ReadMin, ReadMax, WriteTdp, Evaluate,
           At, WebcamSteps, Inserted
  <2> QED BY <1>4, <2>1, <2>2
<1>10. Away
  BY <1>6, <1>7, <1>8, <1>9 DEF IoStep, FeatureStep, TdpStep, ClevoStep
<1> QED BY <1>1, <1>2, <1>10, OthersKeepWebcam DEF WebcamInv

-----------------------------------------------------------------------------
(***************************************************************************)
(* Where each call is in its list of steps, and what it may rely on there  *)
(***************************************************************************)

\* The lists of steps that calls perform: as they begin, or, where a step has
\* put others before the rest, from then on.
Programs == {"check", "set", "use", "fan", "both", "auto", "leave", "profile", "mode",
             "features", "fill", "identify", "fill_identify", "tdp", "limits",
             "webcam", "forward"}
Program(p) ==
  CASE p = "check" -> <<"check_init", "write_table">>
    [] p = "set" -> <<"read_mode", "not_full_mode", "read_separate", "set_separate",
                      "zero_cpu", "zero_gpu", "read_custom", "set_custom", "init_done",
                      "write_table">>
    [] p = "use" -> <<"read_mode", "use_full_mode">>
    [] p = "fan" -> <<"write_fan">>
    [] p = "both" -> <<"read_mode", "set_full_mode", "write_both">>
    [] p = "auto" -> <<"read_custom", "clear_custom", "read_separate", "clear_separate",
                       "uninit">>
    [] p = "leave" -> <<"read_mode", "leave_full_mode">>
    [] p = "profile" -> <<"read_mode", "write_profile">>
    [] p = "mode" -> <<"write_mode">>
    [] p = "features" -> <<"check_loaded">>
    [] p = "fill" -> <<"read_model", "read_priority", "read_profile", "read_ecfans",
                       "set_loaded">>
    [] p = "identify" -> <<"check_loaded", "assign_feats", "id_tdp", "assign_max">>
    [] p = "fill_identify" -> <<"read_model", "read_priority", "read_profile", "read_ecfans",
                                "set_loaded", "assign_feats", "id_tdp", "assign_max">>
    [] p = "tdp" -> <<"check_min">>
    [] p = "limits" -> <<"read_min", "read_max", "write_tdp">>
    [] p = "webcam" -> <<"get_webcam", "set_webcam">>
    [] p = "forward" -> <<"evaluate">>

\* The steps of program p from the n-th on are left.
Left(s, p, n) ==
  /\ p \in Programs /\ n \in 1 .. Len(Program(p))
  /\ Len(s) = Len(Program(p)) - n + 1
  /\ \A i \in 1 .. Len(s) : s[i] = Program(p)[n + i - 1]

Tables == Models \cup Skus \cup {Null}
UsesMode == {"write_profile", "not_full_mode", "set_full_mode", "leave_full_mode",
             "use_full_mode"}
SetsSpeed == {"check", "set", "use", "fan", "both"}

\* The arguments of a call, and what it has read, are of the right kind.
Arguments(c, p, n) ==
  /\ p = "check" => n = 1
  /\ p \in SetsSpeed => call[c][2] \in Fans /\ call[c][3] \in Speeds
  /\ p = "profile" => call[c][2] \in 1 .. 3
  /\ p \in {"tdp", "limits"} => call[c][2] \in Indices /\ call[c][3] \in 0 .. 255
  /\ p = "webcam" => call[c][2] \in 0 .. 1
  /\ p = "forward" => call[c][2] \in Methods /\ call[c][3] \in Nat
Found(c, p, n) ==
  LET x == Program(p)[n] IN
  /\ x \in UsesMode => data[c] \in Mode
  /\ x \in Reads => data[c].complete \in BOOLEAN
  /\ x = "assign_max" => data[c].table \in Tables

InUse == custom /\ separate /\ ~mode.full
Steady ==
  env.universal =>
    /\ fans_initialized => InUse /\ \E f \in Fans : wanted[f] # None
    /\ ~fans_initialized => ~custom /\ ~separate

\* What a call that nothing disturbs can rely on.
Unmoved == {"check", "profile", "features", "fill", "identify", "fill_identify", "tdp",
            "limits", "webcam", "forward"}
Reliable(c, p, n) ==
  LET x == Program(p)[n] IN
  /\ p # "mode"
  /\ p \in Unmoved => Steady
  /\ (p = "identify" /\ n > 1) \/ (p = "fill_identify" /\ n > 5) => feats_loaded
  /\ p \in {"check", "set", "auto"} => env.universal /\ uw_feats
  /\ p \in {"use", "fan", "both", "leave"} => ~env.universal
  /\ x \in UsesMode => data[c] = mode
  /\ x \in {"set_separate", "clear_separate"} => data[c] = [bit |-> separate]
  /\ x \in {"set_custom", "clear_custom"} => data[c] = [bit |-> custom]
  /\ p = "set" =>
       /\ n <= 8 => ~fans_initialized
       /\ n > 2 => ~mode.full
       /\ n > 4 => separate
       /\ n > 8 => custom
       /\ n = 10 => fans_initialized
  /\ p = "auto" => (n > 2 => ~custom) /\ (n > 4 => ~separate)
  /\ p = "fan" => mode.full
  /\ p = "both" => (n <= 2 => ~mode.full) /\ (n = 3 => mode.full)

Place(c, p, n) ==
  /\ Left(todo[c], p, n)
  /\ Arguments(c, p, n) /\ Found(c, p, n)
  /\ Undisturbed => Reliable(c, p, n)
PlacesInv == \A c \in Callers : Idle(c) \/ \E p \in Programs : \E n \in 1 .. 10 : Place(c, p, n)

InTable(speed) == IF speed = 0 THEN 1 ELSE speed
FansInv ==
  Undisturbed =>
    /\ uw_feats => feats_loaded /\ universal = env.universal
    /\ chosen # None => mode.profile = Bits(chosen)
    /\ env.universal => \A f \in Fans :
         /\ ~fans_initialized => wanted[f] = None
         /\ wanted[f] # None => table[f] = InTable(wanted[f])
    /\ ~env.universal => \A f \in Fans : wanted[f] # None => mode.full /\ direct[f] = wanted[f]
    /\ Quiescent => Steady

\* Lengths of the lists, and their steps.
LEMMA ProgramSteps ==
  /\ Len(Program("check")) = 2
  /\ Program("check")[1] = "check_init" /\ Program("check")[2] = "write_table"
  /\ Len(Program("set")) = 10
  /\ Program("set")[1] = "read_mode" /\ Program("set")[2] = "not_full_mode"
  /\ Program("set")[3] = "read_separate" /\ Program("set")[4] = "set_separate"
  /\ Program("set")[5] = "zero_cpu" /\ Program("set")[6] = "zero_gpu"
  /\ Program("set")[7] = "read_custom" /\ Program("set")[8] = "set_custom"
  /\ Program("set")[9] = "init_done" /\ Program("set")[10] = "write_table"
  /\ Len(Program("use")) = 2
  /\ Program("use")[1] = "read_mode" /\ Program("use")[2] = "use_full_mode"
  /\ Len(Program("fan")) = 1
  /\ Program("fan")[1] = "write_fan"
  /\ Len(Program("both")) = 3
  /\ Program("both")[1] = "read_mode" /\ Program("both")[2] = "set_full_mode"
  /\ Program("both")[3] = "write_both"
  /\ Len(Program("auto")) = 5
  /\ Program("auto")[1] = "read_custom" /\ Program("auto")[2] = "clear_custom"
  /\ Program("auto")[3] = "read_separate" /\ Program("auto")[4] = "clear_separate"
  /\ Program("auto")[5] = "uninit"
  /\ Len(Program("leave")) = 2
  /\ Program("leave")[1] = "read_mode" /\ Program("leave")[2] = "leave_full_mode"
  /\ Len(Program("profile")) = 2
  /\ Program("profile")[1] = "read_mode" /\ Program("profile")[2] = "write_profile"
  /\ Len(Program("mode")) = 1
  /\ Program("mode")[1] = "write_mode"
  /\ Len(Program("features")) = 1
  /\ Program("features")[1] = "check_loaded"
  /\ Len(Program("fill")) = 5
  /\ Program("fill")[1] = "read_model" /\ Program("fill")[2] = "read_priority"
  /\ Program("fill")[3] = "read_profile" /\ Program("fill")[4] = "read_ecfans"
  /\ Program("fill")[5] = "set_loaded"
  /\ Len(Program("identify")) = 4
  /\ Program("identify")[1] = "check_loaded" /\ Program("identify")[2] = "assign_feats"
  /\ Program("identify")[3] = "id_tdp" /\ Program("identify")[4] = "assign_max"
  /\ Len(Program("fill_identify")) = 8
  /\ Program("fill_identify")[1] = "read_model" /\ Program("fill_identify")[2] = "read_priority"
  /\ Program("fill_identify")[3] = "read_profile" /\ Program("fill_identify")[4] = "read_ecfans"
  /\ Program("fill_identify")[5] = "set_loaded" /\ Program("fill_identify")[6] = "assign_feats"
  /\ Program("fill_identify")[7] = "id_tdp" /\ Program("fill_identify")[8] = "assign_max"
  /\ Len(Program("tdp")) = 1
  /\ Program("tdp")[1] = "check_min"
  /\ Len(Program("limits")) = 3
  /\ Program("limits")[1] = "read_min" /\ Program("limits")[2] = "read_max"
  /\ Program("limits")[3] = "write_tdp"
  /\ Len(Program("webcam")) = 2
  /\ Program("webcam")[1] = "get_webcam" /\ Program("webcam")[2] = "set_webcam"
  /\ Len(Program("forward")) = 1
  /\ Program("forward")[1] = "evaluate"
BY DEF Program

LEMMA ProgramLengths ==
  ASSUME NEW p \in Programs
  PROVE  Len(Program(p)) \in 1 .. 10
BY ProgramSteps DEF Programs

LEMMA Positions ==
  ASSUME NEW l \in 1 .. 10, NEW n \in 1 .. l
  PROVE  n \in 1 .. 10 /\ n <= l /\ 1 + n - 1 = n
  OBVIOUS

LEMMA AllSteps ==
  ASSUME NEW l \in 1 .. 10
  PROVE  1 \in 1 .. l /\ l = l - 1 + 1
  OBVIOUS

\* The first step that is left, and how many there are.
LEMMA LeftHead ==
  ASSUME NEW s, IsList(s), NEW p, NEW n, Left(s, p, n)
  PROVE  /\ s # <<>> /\ s[1] = Program(p)[n] /\ Head(s) = Program(p)[n]
         /\ Len(s) = Len(Program(p)) - n + 1 /\ p \in Programs
         /\ n \in 1 .. 10 /\ n <= Len(Program(p)) /\ Len(Program(p)) \in 1 .. 10
<1> PICK S : s \in Seq(S)
  BY DEF IsList
<1>1. /\ Len(Program(p)) \in 1 .. 10 /\ n \in 1 .. Len(Program(p)) /\ p \in Programs
      /\ Len(s) = Len(Program(p)) - n + 1
      /\ \A i \in 1 .. Len(s) : s[i] = Program(p)[n + i - 1]
  BY ProgramLengths DEF Left
<1>2. Len(s) >= 1 /\ 1 \in 1 .. Len(s) /\ n + 1 - 1 = n
  BY <1>1
<1>3. s[1] = Program(p)[n]
  BY <1>1, <1>2
<1>4. s # <<>>
  BY <1>2
<1>5. Head(s) = s[1]
  BY <1>4
<1>6. n \in 1 .. 10 /\ n <= Len(Program(p))
  BY <1>1, Positions
<1> QED BY <1>1, <1>3, <1>4, <1>5, <1>6

LEMMA LeftTail ==
  ASSUME NEW s, IsList(s), NEW p, NEW n, Left(s, p, n)
  PROVE  /\ n = Len(Program(p)) => Len(s) = 1 /\ Tail(s) = <<>>
         /\ n # Len(Program(p)) => Len(s) # 1 /\ Left(Tail(s), p, n + 1)
<1> PICK S : s \in Seq(S)
  BY DEF IsList
<1>1. /\ Len(Program(p)) \in 1 .. 10 /\ n \in 1 .. Len(Program(p))
      /\ Len(s) = Len(Program(p)) - n + 1
      /\ \A i \in 1 .. Len(s) : s[i] = Program(p)[n + i - 1]
      /\ p \in Programs
  BY ProgramLengths DEF Left
<1>2. /\ Len(s) >= 1 /\ Tail(s) \in Seq(S) /\ Len(Tail(s)) = Len(s) - 1
      /\ \A i \in 1 .. Len(s) - 1 : Tail(s)[i] = s[i + 1]
  BY <1>1
<1>3. CASE n = Len(Program(p))
  <2>1. Len(s) = 1 /\ Len(Tail(s)) = 0
    BY <1>1, <1>2, <1>3
  <2>2. Tail(s) = <<>>
    BY <1>2, <2>1, EmptySeq
  <2> QED BY <1>3, <2>1, <2>2
<1>4. CASE n # Len(Program(p))
  <2>1. /\ n + 1 \in 1 .. Len(Program(p)) /\ Len(s) # 1
        /\ Len(Tail(s)) = Len(Program(p)) - (n + 1) + 1
    BY <1>1, <1>2, <1>4
  <2>2. ASSUME NEW i \in 1 .. Len(Tail(s))
        PROVE  Tail(s)[i] = Program(p)[(n + 1) + i - 1]
    <3>1. /\ i \in 1 .. Len(s) - 1 /\ i + 1 \in 1 .. Len(s) /\ (n + 1) + i - 1 = n + (i + 1) - 1
      BY <1>1, <1>2
    <3>2. Tail(s)[i] = s[i + 1] /\ s[i + 1] = Program(p)[n + (i + 1) - 1]
      BY <1>1, <1>2, <3>1
    <3> QED BY <3>1, <3>2
  <2> QED BY <1>1, <1>4, <2>1, <2>2 DEF Left
<1> QED BY <1>3, <1>4

\* A step that is done leaves the rest.
LEMMA ProceedLeaves ==
  ASSUME ListsInv(IoAfter), NEW c \in Callers, NEW p, NEW n, Left(todo[c], p, n),
         NEW d, ProceedWith(c, d)
  PROVE  /\ n = Len(Program(p)) => Idle(c)'
         /\ n # Len(Program(p)) =>
              Left(todo'[c], p, n + 1) /\ call'[c] = call[c] /\ data'[c] = d
<1>1. IsList(todo[c]) /\ todo[c] # <<>>
  BY LeftHead DEF ListsInv
<1>2. todo'[c] = Tail(todo[c]) /\ (Len(todo[c]) # 1 => call'[c] = call[c] /\ data'[c] = d)
  BY DEF ListsInv, ProceedWith
<1> QED BY <1>1, <1>2, LeftTail DEF Idle

\* Steps s and what is left of program p after step n are what is left of program
\* q from step m on.
Joins(s, p, n, q, m) ==
  /\ q \in Programs /\ m \in 1 .. Len(Program(q))
  /\ Len(s) + (Len(Program(p)) - n) = Len(Program(q)) - m + 1
  /\ \A i \in 1 .. Len(s) : s[i] = Program(q)[m + i - 1]
  /\ \A i \in 1 .. (Len(Program(p)) - n) :
       Program(p)[n + i] = Program(q)[m + Len(s) + i - 1]

\* Steps put before the rest of a call.
LEMMA InsertLeaves ==
  ASSUME ListsInv(IoAfter), NEW c \in Callers, NEW p, NEW n, Left(todo[c], p, n),
         NEW s, IsList(s), NEW d, Inserts(c, s, d), NEW q, NEW m, Joins(s, p, n, q, m)
  PROVE  Left(todo'[c], q, m) /\ call'[c] = call[c] /\ data'[c] = d
<1> DEFINE r == Tail(todo[c])
<1>1. IsList(todo[c]) /\ todo[c] # <<>> /\ Len(Program(p)) \in 1 .. 10 /\ n \in 1 .. 10
      /\ n <= Len(Program(p)) /\ Len(Program(q)) \in 1 .. 10
      /\ m \in 1 .. Len(Program(q))
  BY LeftHead, ProgramLengths DEF ListsInv, Joins
<1>2. /\ Len(todo[c]) = Len(Program(p)) - n + 1
      /\ \A i \in 1 .. Len(todo[c]) : todo[c][i] = Program(p)[n + i - 1]
  BY DEF Left
<1>3. PICK S, T : s \in Seq(S) /\ todo[c] \in Seq(T)
  BY <1>1 DEF IsList
<1>4. /\ r \in Seq(T) /\ Len(r) = Len(Program(p)) - n /\ Len(s) \in Nat
      /\ \A i \in 1 .. Len(r) : r[i] = Program(p)[n + i]
  <2>1. /\ r \in Seq(T) /\ Len(r) = Len(todo[c]) - 1
        /\ \A i \in 1 .. Len(todo[c]) - 1 : r[i] = todo[c][i + 1]
    BY <1>1, <1>3
  <2>2. ASSUME NEW i \in 1 .. Len(r) PROVE r[i] = Program(p)[n + i]
    <3>1. i \in 1 .. Len(todo[c]) - 1 /\ i + 1 \in 1 .. Len(todo[c]) /\ n + (i + 1) - 1 = n + i
      BY <1>1, <1>2, <2>1
    <3> QED BY <1>2, <2>1, <3>1
  <2>3. Len(r) = Len(Program(p)) - n /\ Len(s) \in Nat
    BY <1>1, <1>2, <1>3, <2>1
  <2> QED BY <2>1, <2>2, <2>3
<1> HIDE DEF r
<1>5. s \in Seq(S \cup T) /\ r \in Seq(S \cup T)
  BY <1>3, <1>4
<1> DEFINE all == s \o r
<1>6. /\ Len(all) = Len(s) + Len(r)
      /\ \A i \in 1 .. Len(s) : all[i] = s[i]
      /\ \A i \in 1 .. Len(r) : all[Len(s) + i] = r[i]
  BY <1>5
<1>7. todo'[c] = all /\ call'[c] = call[c] /\ data'[c] = d
  BY DEF r, Inserts, ListsInv
<1> HIDE DEF all
<1>8. ASSUME NEW i \in 1 .. Len(all) PROVE all[i] = Program(q)[m + i - 1]
  <2>1. CASE i <= Len(s)
    <3>1. i \in 1 .. Len(s)
      BY <1>4, <1>6, <2>1
    <3> QED BY <1>6, <3>1 DEF Joins
  <2>2. CASE i > Len(s)
    <3> DEFINE j == i - Len(s)
    <3>1. /\ j \in 1 .. Len(r) /\ j \in 1 .. (Len(Program(p)) - n) /\ Len(s) + j = i
          /\ m + Len(s) + j - 1 = m + i - 1
      BY <1>1, <1>4, <1>6, <2>2
    <3>2. all[Len(s) + j] = r[j] /\ r[j] = Program(p)[n + j]
      BY <1>4, <1>6, <3>1
    <3>3. Program(p)[n + j] = Program(q)[m + Len(s) + j - 1]
      BY <3>1 DEF Joins
    <3> QED BY <3>1, <3>2, <3>3
  <2> QED BY <1>4, <1>6, <2>1, <2>2
<1>9. Left(all, q, m)
  <2>1. Len(all) = Len(Program(q)) - m + 1
    BY <1>4, <1>6 DEF Joins
  <2> QED BY <1>8, <2>1 DEF Left, Joins
<1> QED BY <1>7, <1>9

\* A call begins.
LEMMA StartLeaves ==
  ASSUME ListsInv(IoAfter), NEW c \in Callers, NEW p \in Programs, NEW args,
         Start(c, args, Program(p))
  PROVE  Left(todo'[c], p, 1) /\ call'[c] = args /\ (Quiescent \/ env.overlap)
<1>1. todo'[c] = Program(p) /\ call'[c] = args /\ (env.overlap \/ Quiescent)
  BY DEF ListsInv, Start
<1>2. Len(Program(p)) \in 1 .. 10
  BY ProgramLengths
<1>3. Len(Program(p)) = Len(Program(p)) - 1 + 1 /\ 1 \in 1 .. Len(Program(p))
  BY <1>2, AllSteps
<1>4. \A i \in 1 .. Len(Program(p)) : Program(p)[i] = Program(p)[1 + i - 1]
  <2> SUFFICES ASSUME NEW i \in 1 .. Len(Program(p))
               PROVE  Program(p)[i] = Program(p)[1 + i - 1]
    OBVIOUS
  <2>1. 1 + i - 1 = i
    BY <1>2, Positions
  <2> QED BY <2>1
<1> QED BY <1>1, <1>3, <1>4 DEF Left

\* Where in the lists a step is.
IsAt(x, p, n) ==
  /\ x = "check_init" => p = "check" /\ n = 1
  /\ x = "write_table" => (p = "check" /\ n = 2) \/ (p = "set" /\ n = 10)
  /\ x = "read_mode" => p \in {"set", "use", "both", "leave", "profile"} /\ n = 1
  /\ x = "not_full_mode" => p = "set" /\ n = 2
  /\ x = "read_separate" => p \in {"set", "auto"} /\ n = 3
  /\ x = "set_separate" => p = "set" /\ n = 4
  /\ x = "zero_cpu" => p = "set" /\ n = 5
  /\ x = "zero_gpu" => p = "set" /\ n = 6
  /\ x = "read_custom" => (p = "set" /\ n = 7) \/ (p = "auto" /\ n = 1)
  /\ x = "set_custom" => p = "set" /\ n = 8
  /\ x = "init_done" => p = "set" /\ n = 9
  /\ x = "use_full_mode" => p = "use" /\ n = 2
  /\ x = "write_fan" => p = "fan" /\ n = 1
  /\ x = "set_full_mode" => p = "both" /\ n = 2
  /\ x = "write_both" => p = "both" /\ n = 3
  /\ x = "clear_custom" => p = "auto" /\ n = 2
  /\ x = "clear_separate" => p = "auto" /\ n = 4
  /\ x = "uninit" => p = "auto" /\ n = 5
  /\ x = "leave_full_mode" => p = "leave" /\ n = 2
  /\ x = "write_profile" => p = "profile" /\ n = 2
  /\ x = "write_mode" => p = "mode" /\ n = 1
  /\ x = "check_loaded" => p \in {"features", "identify"} /\ n = 1
  /\ x = "read_model" => p \in {"fill", "fill_identify"} /\ n = 1
  /\ x = "read_priority" => p \in {"fill", "fill_identify"} /\ n = 2
  /\ x = "read_profile" => p \in {"fill", "fill_identify"} /\ n = 3
  /\ x = "read_ecfans" => p \in {"fill", "fill_identify"} /\ n = 4
  /\ x = "set_loaded" => p \in {"fill", "fill_identify"} /\ n = 5
  /\ x = "assign_feats" => (p = "identify" /\ n = 2) \/ (p = "fill_identify" /\ n = 6)
  /\ x = "id_tdp" => (p = "identify" /\ n = 3) \/ (p = "fill_identify" /\ n = 7)
  /\ x = "assign_max" => (p = "identify" /\ n = 4) \/ (p = "fill_identify" /\ n = 8)
  /\ x = "check_min" => p = "tdp" /\ n = 1
  /\ x = "read_min" => p = "limits" /\ n = 1
  /\ x = "read_max" => p = "limits" /\ n = 2
  /\ x = "write_tdp" => p = "limits" /\ n = 3
  /\ x = "get_webcam" => p = "webcam" /\ n = 1
  /\ x = "set_webcam" => p = "webcam" /\ n = 2
  /\ x = "evaluate" => p = "forward" /\ n = 1

LEMMA StepsAreAt ==
  ASSUME NEW p \in Programs, NEW n \in 1 .. Len(Program(p))
  PROVE  IsAt(Program(p)[n], p, n)
<1>1. CASE p = "check"
  <2>1. n \in 1 .. 2
    BY <1>1, ProgramSteps
  <2> QED BY <1>1, <2>1, ProgramSteps DEF IsAt
<1>2. CASE p = "set"
  <2> DEFINE x == Program(p)[n]
  <2>1. n \in 1 .. 10
    BY <1>2, ProgramSteps
  <2>2. n = 1 => x = "read_mode"
    BY <1>2, ProgramSteps
  <2>3. n = 2 => x = "not_full_mode"
    BY <1>2, ProgramSteps
  <2>4. n = 3 => x = "read_separate"
    BY <1>2, ProgramSteps
  <2>5. n = 4 => x = "set_separate"
    BY <1>2, ProgramSteps
  <2>6. n = 5 => x = "zero_cpu"
    BY <1>2, ProgramSteps
  <2>7. n = 6 => x = "zero_gpu"
    BY <1>2, ProgramSteps
  <2>8. n = 7 => x = "read_custom"
    BY <1>2, ProgramSteps
  <2>9. n = 8 => x = "set_custom"
    BY <1>2, ProgramSteps
  <2>10. n = 9 => x = "init_done"
    BY <1>2, ProgramSteps
  <2>11. n = 10 => x = "write_table"
    BY <1>2, ProgramSteps
  <2> HIDE DEF x
  <2>12. IsAt(x, p, n)
    BY <1>2, <2>1, <2>2, <2>3, <2>4, <2>5, <2>6, <2>7, <2>8, <2>9, <2>10, <2>11 DEF IsAt
  <2> QED BY <2>12 DEF x
<1>3. CASE p = "use"
  <2>1. n \in 1 .. 2
    BY <1>3, ProgramSteps
  <2> QED BY <1>3, <2>1, ProgramSteps DEF IsAt
<1>4. CASE p = "fan"
  <2>1. n \in 1 .. 1
    BY <1>4, ProgramSteps
  <2> QED BY <1>4, <2>1, ProgramSteps DEF IsAt
<1>5. CASE p = "both"
  <2> DEFINE x == Program(p)[n]
  <2>1. n \in 1 .. 3
    BY <1>5, ProgramSteps
  <2>2. n = 1 => x = "read_mode"
    BY <1>5, ProgramSteps
  <2>3. n = 2 => x = "set_full_mode"
    BY <1>5, ProgramSteps
  <2>4. n = 3 => x = "write_both"
    BY <1>5, ProgramSteps
  <2> HIDE DEF x
  <2>5. IsAt(x, p, n)
    BY <1>5, <2>1, <2>2, <2>3, <2>4 DEF IsAt
  <2> QED BY <2>5 DEF x
<1>6. CASE p = "auto"
  <2> DEFINE x == Program(p)[n]
  <2>1. n \in 1 .. 5
    BY <1>6, ProgramSteps
  <2>2. n = 1 => x = "read_custom"
    BY <1>6, ProgramSteps
  <2>3. n = 2 => x = "clear_custom"
    BY <1>6, ProgramSteps
  <2>4. n = 3 => x = "read_separate"
    BY <1>6, ProgramSteps
  <2>5. n = 4 => x = "clear_separate"
    BY <1>6, ProgramSteps
  <2>6. n = 5 => x = "uninit"
    BY <1>6, ProgramSteps
  <2> HIDE DEF x
  <2>7. IsAt(x, p, n)
    BY <1>6, <2>1, <2>2, <2>3, <2>4, <2>5, <2>6 DEF IsAt
  <2> QED BY <2>7 DEF x
<1>7. CASE p = "leave"
  <2>1. n \in 1 .. 2
    BY <1>7, ProgramSteps
  <2> QED BY <1>7, <2>1, ProgramSteps DEF IsAt
<1>8. CASE p = "profile"
  <2>1. n \in 1 .. 2
    BY <1>8, ProgramSteps
  <2> QED BY <1>8, <2>1, ProgramSteps DEF IsAt
<1>9. CASE p = "mode"
  <2>1. n \in 1 .. 1
    BY <1>9, ProgramSteps
  <2> QED BY <1>9, <2>1, ProgramSteps DEF IsAt
<1>10. CASE p = "features"
  <2>1. n \in 1 .. 1
    BY <1>10, ProgramSteps
  <2> QED BY <1>10, <2>1, ProgramSteps DEF IsAt
<1>11. CASE p = "fill"
  <2> DEFINE x == Program(p)[n]
  <2>1. n \in 1 .. 5
    BY <1>11, ProgramSteps
  <2>2. n = 1 => x = "read_model"
    BY <1>11, ProgramSteps
  <2>3. n = 2 => x = "read_priority"
    BY <1>11, ProgramSteps
  <2>4. n = 3 => x = "read_profile"
    BY <1>11, ProgramSteps
  <2>5. n = 4 => x = "read_ecfans"
    BY <1>11, ProgramSteps
  <2>6. n = 5 => x = "set_loaded"
    BY <1>11, ProgramSteps
  <2> HIDE DEF x
  <2>7. IsAt(x, p, n)
    BY <1>11, <2>1, <2>2, <2>3, <2>4, <2>5, <2>6 DEF IsAt
  <2> QED BY <2>7 DEF x
<1>12. CASE p = "identify"
  <2> DEFINE x == Program(p)[n]
  <2>1. n \in 1 .. 4
    BY <1>12, ProgramSteps
  <2>2. n = 1 => x = "check_loaded"
    BY <1>12, ProgramSteps
  <2>3. n = 2 => x = "assign_feats"
    BY <1>12, ProgramSteps
  <2>4. n = 3 => x = "id_tdp"
    BY <1>12, ProgramSteps
  <2>5. n = 4 => x = "assign_max"
    BY <1>12, ProgramSteps
  <2> HIDE DEF x
  <2>6. IsAt(x, p, n)
    BY <1>12, <2>1, <2>2, <2>3, <2>4, <2>5 DEF IsAt
  <2> QED BY <2>6 DEF x
<1>13. CASE p = "fill_identify"
  <2> DEFINE x == Program(p)[n]
  <2>1. n \in 1 .. 8
    BY <1>13, ProgramSteps
  <2>2. n = 1 => x = "read_model"
    BY <1>13, ProgramSteps
  <2>3. n = 2 => x = "read_priority"
    BY <1>13, ProgramSteps
  <2>4. n = 3 => x = "read_profile"
    BY <1>13, ProgramSteps
  <2>5. n = 4 => x = "read_ecfans"
    BY <1>13, ProgramSteps
  <2>6. n = 5 => x = "set_loaded"
    BY <1>13, ProgramSteps
  <2>7. n = 6 => x = "assign_feats"
    BY <1>13, ProgramSteps
  <2>8. n = 7 => x = "id_tdp"
    BY <1>13, ProgramSteps
  <2>9. n = 8 => x = "assign_max"
    BY <1>13, ProgramSteps
  <2> HIDE DEF x
  <2>10. IsAt(x, p, n)
    BY <1>13, <2>1, <2>2, <2>3, <2>4, <2>5, <2>6, <2>7, <2>8, <2>9 DEF IsAt
  <2> QED BY <2>10 DEF x
<1>14. CASE p = "tdp"
  <2>1. n \in 1 .. 1
    BY <1>14, ProgramSteps
  <2> QED BY <1>14, <2>1, ProgramSteps DEF IsAt
<1>15. CASE p = "limits"
  <2> DEFINE x == Program(p)[n]
  <2>1. n \in 1 .. 3
    BY <1>15, ProgramSteps
  <2>2. n = 1 => x = "read_min"
    BY <1>15, ProgramSteps
  <2>3. n = 2 => x = "read_max"
    BY <1>15, ProgramSteps
  <2>4. n = 3 => x = "write_tdp"
    BY <1>15, ProgramSteps
  <2> HIDE DEF x
  <2>5. IsAt(x, p, n)
    BY <1>15, <2>1, <2>2, <2>3, <2>4 DEF IsAt
  <2> QED BY <2>5 DEF x
<1>16. CASE p = "webcam"
  <2>1. n \in 1 .. 2
    BY <1>16, ProgramSteps
  <2> QED BY <1>16, <2>1, ProgramSteps DEF IsAt
<1>17. CASE p = "forward"
  <2>1. n \in 1 .. 1
    BY <1>17, ProgramSteps
  <2> QED BY <1>17, <2>1, ProgramSteps DEF IsAt
<1> QED BY <1>1, <1>2, <1>3, <1>4, <1>5, <1>6, <1>7, <1>8, <1>9, <1>10,
          <1>11, <1>12, <1>13, <1>14, <1>15, <1>16, <1>17 DEF Programs

LEMMA LeftAt ==
  ASSUME CallsInv, NEW c \in Callers, NEW x, At(c, x), NEW p, NEW n, Left(todo[c], p, n)
  PROVE  IsAt(x, p, n) /\ Program(p)[n] = x /\ p \in Programs /\ n \in 1 .. 10 /\ ~Idle(c)
<1>1. IsList(todo[c]) /\ ~Idle(c) /\ Head(todo[c]) = x
  BY DEF CallsInv, ListsInv, At
<1>2. Program(p)[n] = x /\ p \in Programs /\ n \in 1 .. 10
  BY <1>1, LeftHead
<1> QED BY <1>1, <1>2, StepsAreAt DEF Left

-----------------------------------------------------------------------------
(***************************************************************************)
(* Steps of the fan calls                                                  *)
(***************************************************************************)

Placed(c) == Idle(c) \/ \E p \in Programs : \E n \in 1 .. 10 : Place(c, p, n)

FanTypes ==
  /\ mode \in Mode
  /\ {universal, separate, custom, fans_initialized} \subseteq BOOLEAN
  /\ table \in [Fans -> Speeds \cup {0, 1}]
  /\ direct \in [Fans -> Speeds \cup {0}]
  /\ wanted \in [Fans -> Speeds \cup {None}]
  /\ chosen \in 1 .. 3 \cup {None}

\* What is known of calls and fans while fans are controlled.
FansSoFar == CallsInv /\ FanTypes /\ PlacesInv /\ FansInv

\* A call that has returned is nowhere.
LEMMA IdleIsPlaced ==
  ASSUME NEW c \in Callers, Idle(c)'
  PROVE  Placed(c)'
BY DEF Placed

\* What a step that is done has to establish for the next one of its call.
Learned(x, d) ==
  /\ x \in UsesMode => d \in Mode
  /\ x \in Reads => d.complete \in BOOLEAN
  /\ x = "assign_max" => d.table \in Tables

\* A step that is done and not the last: the next one may rely on what it has to.
LEMMA Advances ==
  ASSUME CallsInv, NEW c \in Callers, NEW p \in Programs, NEW n \in 1 .. 10, Place(c, p, n),
         NEW d, ProceedWith(c, d), p # "check", n # Len(Program(p)),
         env' = env, Learned(Program(p)[n + 1], d),
         Undisturbed => Reliable(c, p, n + 1)'
  PROVE  Placed(c)'
<1>1. /\ Left(todo'[c], p, n + 1) /\ call'[c] = call[c] /\ data'[c] = d
  BY ProceedLeaves DEF CallsInv, Place
<1>2. n + 1 \in 1 .. 10
  <2>1. Len(Program(p)) \in 1 .. 10 /\ n \in 1 .. Len(Program(p))
    BY ProgramLengths DEF Place, Left
  <2> DEFINE l == Len(Program(p))
  <2> HIDE DEF l
  <2>2. l \in 1 .. 10 /\ n \in 1 .. l /\ n # l
    BY <2>1 DEF l
  <2> QED BY <2>2
<1>3. Left(todo[c], p, n + 1)'
  BY <1>1 DEF Left
<1>4. Arguments(c, p, n + 1)'
  BY <1>1 DEF Place, Arguments
<1>5. Found(c, p, n + 1)'
  BY <1>1 DEF Found, Learned
<1>6. Undisturbed' = Undisturbed
  BY DEF Undisturbed
<1>7. Place(c, p, n + 1)'
  BY <1>3, <1>4, <1>5, <1>6 DEF Place
<1> QED BY <1>2, <1>7 DEF Placed

\* A call with steps left has not returned.
LEMMA LeftIsBusy ==
  ASSUME CallsInv', NEW c \in Callers, NEW p, NEW n, Left(todo'[c], p, n)
  PROVE  ~Idle(c)' /\ ~Quiescent'
<1>1. IsList(todo'[c])
  BY DEF CallsInv, ListsInv, IsList
<1>2. ~Idle(c)'
  BY <1>1, LeftHead DEF Idle
<1> QED BY <1>2 DEF Quiescent

\* Nor has one whose step is not the last.
LEMMA AdvancesBusy ==
  ASSUME CallsInv, NEW c \in Callers, NEW p, NEW n, Place(c, p, n),
         n # Len(Program(p)), NEW d, ProceedWith(c, d)
  PROVE  ~Idle(c)' /\ ~Quiescent'
<1>1. Left(todo'[c], p, n + 1)
  BY ProceedLeaves DEF CallsInv, Place
<1>2. ListsInv(IoAfter)'
  BY ProceedFollows, LeftHead DEF CallsInv, Place, Idle, ListsInv
<1>3. IsList(todo'[c])
  BY <1>2 DEF ListsInv, IsList
<1>4. ~Idle(c)'
  BY <1>1, <1>3, LeftHead DEF Idle
<1> QED BY <1>4 DEF Quiescent

\* A step that is not the last of its call, and leaves alone what the fans are
\* known to do.
LEMMA BusyKeepsFans ==
  ASSUME CallsInv, FansInv, ~Quiescent',
         UNCHANGED <<env, mode, fans_initialized, wanted, chosen, table, direct, universal>>,
         UNCHANGED ioVars
  PROVE  FansInv'
<1>1. Undisturbed' = Undisturbed /\ UNCHANGED <<uw_feats, feats_loaded>>
  BY DEF Undisturbed, ioVars, features
<1> QED BY <1>1 DEF FansInv

LEMMA KeepsFans ==
  ASSUME CallsInv, FansInv, NEW c \in Callers, NEW p, NEW n, Place(c, p, n),
         n # Len(Program(p)), NEW d, ProceedWith(c, d),
         UNCHANGED <<env, mode, fans_initialized, wanted, chosen, table, direct, universal>>,
         UNCHANGED ioVars
  PROVE  FansInv'
BY AdvancesBusy, BusyKeepsFans

\* Each step of a fan call leaves its call where the next step may rely on what it
\* has to, and the fans as they are known to be.  First those that only move on.
LEMMA SetSeparatePlaces ==
  ASSUME FansSoFar, NEW c \in Callers, SetSeparate(c), UNCHANGED ioVars
  PROVE  Placed(c)' /\ FansInv'
<1>1. At(c, "set_separate") /\ ProceedWith(c, data[c]) /\ env' = env
  BY DEF SetSeparate, Proceed
<1>2. PICK p \in Programs, n \in 1 .. 10 : Place(c, p, n)
  BY <1>1 DEF FansSoFar, PlacesInv, At
<1> CallsInv /\ FansInv /\ FanTypes
  BY DEF FansSoFar
<1>0. IsAt("set_separate", p, n) /\ Program(p)[n] = "set_separate"
  BY <1>1, <1>2, LeftAt DEF Place
<1>3. p = "set" /\ n = 4
  BY <1>0 DEF IsAt
<1>4. /\ Len(Program("set")) = 10 /\ Program("set")[5] = "zero_cpu"
      /\ Program("set")[4] = "set_separate"
  BY ProgramSteps
<1>5. Learned("zero_cpu", data[c])
  BY DEF Learned, UsesMode, Reads
<1>6. UNCHANGED <<env, universal, mode, custom, table, direct, fans_initialized, wanted,
                  chosen, uw_feats>>
  BY DEF SetSeparate, ioVars, features
<1>7. ASSUME Undisturbed PROVE Reliable(c, "set", 5)'
  <2>1. Reliable(c, "set", 4)
    BY <1>2, <1>3, <1>7 DEF Place
  <2>2. separate' = TRUE
    <3>1. data[c] = [bit |-> separate] /\ ~env.faults
      BY <1>4, <1>7, <2>1 DEF Reliable, Undisturbed
    <3>2. data[c].bit = separate /\ separate \in BOOLEAN
      BY <3>1 DEF FanTypes
    <3>3. CASE separate
      BY <3>1, <3>2, <3>3 DEF SetSeparate, Written
    <3>4. CASE ~separate
      BY <3>1, <3>2, <3>4 DEF SetSeparate, Written
    <3> QED BY <3>3, <3>4
  <2> QED BY <1>4, <1>6, <2>1, <2>2 DEF Reliable, Unmoved, UsesMode
<1>8. Placed(c)'
  BY <1>1, <1>2, <1>3, <1>4, <1>5, <1>7, Advances
<1>9. FansInv'
  BY <1>1, <1>2, <1>3, <1>4, <1>6, KeepsFans DEF ioVars
<1> QED BY <1>8, <1>9

LEMMA SetCustomPlaces ==
  ASSUME FansSoFar, NEW c \in Callers, SetCustom(c), UNCHANGED ioVars
  PROVE  Placed(c)' /\ FansInv'
<1>1. At(c, "set_custom") /\ ProceedWith(c, data[c]) /\ env' = env
  BY DEF SetCustom, Proceed
<1>2. PICK p \in Programs, n \in 1 .. 10 : Place(c, p, n)
  BY <1>1 DEF FansSoFar, PlacesInv, At
<1> CallsInv /\ FansInv /\ FanTypes
  BY DEF FansSoFar
<1>0. IsAt("set_custom", p, n) /\ Program(p)[n] = "set_custom"
  BY <1>1, <1>2, LeftAt DEF Place
<1>3. p = "set" /\ n = 8
  BY <1>0 DEF IsAt
<1>4. /\ Len(Program("set")) = 10 /\ Program("set")[9] = "init_done"
      /\ Program("set")[8] = "set_custom"
  BY ProgramSteps
<1>5. Learned("init_done", data[c])
  BY DEF Learned, UsesMode, Reads
<1>6. UNCHANGED <<env, universal, mode, separate, table, direct, fans_initialized,
                  wanted, chosen, uw_feats>>
  BY DEF SetCustom, ioVars, features
<1>7. ASSUME Undisturbed PROVE Reliable(c, "set", 9)'
  <2>1. Reliable(c, "set", 8)
    BY <1>2, <1>3, <1>7 DEF Place
  <2>2. custom' = TRUE
    <3>1. data[c] = [bit |-> custom] /\ ~env.faults
      BY <1>4, <1>7, <2>1 DEF Reliable, Undisturbed
    <3>2. data[c].bit = custom /\ custom \in BOOLEAN
      BY <3>1 DEF FanTypes
    <3>3. CASE custom
      BY <3>1, <3>2, <3>3 DEF SetCustom, Written
    <3>4. CASE ~custom
      BY <3>1, <3>2, <3>4 DEF SetCustom, Written
    <3> QED BY <3>3, <3>4
  <2> QED BY <1>4, <1>6, <2>1, <2>2 DEF Reliable, Unmoved, UsesMode
<1>8. Placed(c)'
  BY <1>1, <1>2, <1>3, <1>4, <1>5, <1>7, Advances
<1>9. FansInv'
  BY <1>1, <1>2, <1>3, <1>4, <1>6, KeepsFans DEF ioVars
<1> QED BY <1>8, <1>9

LEMMA ClearCustomPlaces ==
  ASSUME FansSoFar, NEW c \in Callers, ClearCustom(c), UNCHANGED ioVars
  PROVE  Placed(c)' /\ FansInv'
<1>1. At(c, "clear_custom") /\ ProceedWith(c, data[c]) /\ env' = env
  BY DEF ClearCustom, Proceed
<1>2. PICK p \in Programs, n \in 1 .. 10 : Place(c, p, n)
  BY <1>1 DEF FansSoFar, PlacesInv, At
<1> CallsInv /\ FansInv /\ FanTypes
  BY DEF FansSoFar
<1>0. IsAt("clear_custom", p, n) /\ Program(p)[n] = "clear_custom"
  BY <1>1, <1>2, LeftAt DEF Place
<1>3. p = "auto" /\ n = 2
  BY <1>0 DEF IsAt
<1>4. /\ Len(Program("auto")) = 5 /\ Program("auto")[3] = "read_separate"
      /\ Program("auto")[2] = "clear_custom"
  BY ProgramSteps
<1>5. Learned("read_separate", data[c])
  BY DEF Learned, UsesMode, Reads
<1>6. UNCHANGED <<env, universal, mode, separate, table, direct, fans_initialized,
                  wanted, chosen, uw_feats>>
  BY DEF ClearCustom, ioVars, features
<1>7. ASSUME Undisturbed PROVE Reliable(c, "auto", 3)'
  <2>1. Reliable(c, "auto", 2)
    BY <1>2, <1>3, <1>7 DEF Place
  <2>2. custom' = FALSE
    <3>1. data[c] = [bit |-> custom] /\ ~env.faults
      BY <1>4, <1>7, <2>1 DEF Reliable, Undisturbed
    <3>2. data[c].bit = custom /\ custom \in BOOLEAN
      BY <3>1 DEF FanTypes
    <3>3. CASE custom
      BY <3>1, <3>2, <3>3 DEF ClearCustom, Written
    <3>4. CASE ~custom
      BY <3>1, <3>2, <3>4 DEF ClearCustom, Written
    <3> QED BY <3>3, <3>4
  <2> QED BY <1>4, <1>6, <2>1, <2>2 DEF Reliable, Unmoved, UsesMode
<1>8. Placed(c)'
  BY <1>1, <1>2, <1>3, <1>4, <1>5, <1>7, Advances
<1>9. FansInv'
  BY <1>1, <1>2, <1>3, <1>4, <1>6, KeepsFans DEF ioVars
<1> QED BY <1>8, <1>9

LEMMA ClearSeparatePlaces ==
  ASSUME FansSoFar, NEW c \in Callers, ClearSeparate(c), UNCHANGED ioVars
  PROVE  Placed(c)' /\ FansInv'
<1>1. At(c, "clear_separate") /\ ProceedWith(c, data[c]) /\ env' = env
  BY DEF ClearSeparate, Proceed
<1>2. PICK p \in Programs, n \in 1 .. 10 : Place(c, p, n)
  BY <1>1 DEF FansSoFar, PlacesInv, At
<1> CallsInv /\ FansInv /\ FanTypes
  BY DEF FansSoFar
<1>0. IsAt("clear_separate", p, n) /\ Program(p)[n] = "clear_separate"
  BY <1>1, <1>2, LeftAt DEF Place
<1>3. p = "auto" /\ n = 4
  BY <1>0 DEF IsAt
<1>4. /\ Len(Program("auto")) = 5 /\ Program("auto")[5] = "uninit"
      /\ Program("auto")[4] = "clear_separate"
  BY ProgramSteps
<1>5. Learned("uninit", data[c])
  BY DEF Learned, UsesMode, Reads
<1>6. UNCHANGED <<env, universal, mode, custom, table, direct, fans_initialized, wanted,
                  chosen, uw_feats>>
  BY DEF ClearSeparate, ioVars, features
<1>7. ASSUME Undisturbed PROVE Reliable(c, "auto", 5)'
  <2>1. Reliable(c, "auto", 4)
    BY <1>2, <1>3, <1>7 DEF Place
  <2>2. separate' = FALSE
    <3>1. data[c] = [bit |-> separate] /\ ~env.faults
      BY <1>4, <1>7, <2>1 DEF Reliable, Undisturbed
    <3>2. data[c].bit = separate /\ separate \in BOOLEAN
      BY <3>1 DEF FanTypes
    <3>3. CASE separate
      BY <3>1, <3>2, <3>3 DEF ClearSeparate, Written
    <3>4. CASE ~separate
      BY <3>1, <3>2, <3>4 DEF ClearSeparate, Written
    <3> QED BY <3>3, <3>4
  <2> QED BY <1>4, <1>6, <2>1, <2>2 DEF Reliable, Unmoved, UsesMode
<1>8. Placed(c)'
  BY <1>1, <1>2, <1>3, <1>4, <1>5, <1>7, Advances
<1>9. FansInv'
  BY <1>1, <1>2, <1>3, <1>4, <1>6, KeepsFans DEF ioVars
<1> QED BY <1>8, <1>9

LEMMA ReadSeparatePlaces ==
  ASSUME FansSoFar, NEW c \in Callers, ReadSeparate(c), UNCHANGED ioVars
  PROVE  Placed(c)' /\ FansInv'
<1>1. At(c, "read_separate") /\ env' = env
  BY DEF ReadSeparate
<1>2. PICK p \in Programs, n \in 1 .. 10 : Place(c, p, n)
  BY <1>1 DEF FansSoFar, PlacesInv, At
<1> CallsInv /\ FansInv /\ FanTypes
  BY DEF FansSoFar
<1>0. IsAt("read_separate", p, n) /\ Program(p)[n] = "read_separate"
  BY <1>1, <1>2, LeftAt DEF Place
<1>3. PICK b \in Seen(separate, TRUE) : ProceedWith(c, [bit |-> b])
  BY DEF ReadSeparate
<1>4. (p = "set" /\ n = 3) \/ (p = "auto" /\ n = 3)
  BY <1>0 DEF IsAt
<1>5. /\ Len(Program("set")) = 10 /\ Program("set")[4] = "set_separate"
      /\ Program("set")[3] = "read_separate"
      /\ Len(Program("auto")) = 5 /\ Program("auto")[4] = "clear_separate"
      /\ Program("auto")[3] = "read_separate"
  BY ProgramSteps
<1>6. Learned("set_separate", [bit |-> b]) /\ Learned("clear_separate", [bit |-> b])
  BY DEF Learned, UsesMode, Reads
<1>7. UNCHANGED <<env, universal, mode, separate, custom, table, direct, fans_initialized,
                  wanted, chosen, uw_feats>>
  BY DEF ReadSeparate, ioVars, features, registers
<1>8. ASSUME Undisturbed PROVE data'[c] = [bit |-> separate]
  <2>1. b = separate
    BY <1>8, Zenon DEF Undisturbed, Seen
  <2>2. n # Len(Program(p)) /\ Left(todo[c], p, n)
    BY <1>2, <1>4, <1>5 DEF Place
  <2>3. data'[c] = [bit |-> b]
    BY <1>3, <2>2, ProceedLeaves DEF CallsInv
  <2> QED BY <2>1, <2>3
<1>9. CASE p = "set" /\ n = 3
  <2>1. ASSUME Undisturbed PROVE Reliable(c, "set", 4)'
    <3>1. Reliable(c, "set", 3)
      BY <1>2, <1>9, <2>1 DEF Place
    <3> QED BY <1>5, <1>7, <1>8, <2>1, <3>1 DEF Reliable, Unmoved, UsesMode
  <2>2. Placed(c)'
    BY <1>1, <1>2, <1>3, <1>5, <1>6, <1>9, <2>1, Advances
  <2>3. FansInv'
    BY <1>2, <1>3, <1>5, <1>7, <1>9, KeepsFans
  <2> QED BY <2>2, <2>3
<1>10. CASE p = "auto" /\ n = 3
  <2>1. ASSUME Undisturbed PROVE Reliable(c, "auto", 4)'
    <3>1. Reliable(c, "auto", 3)
      BY <1>2, <1>10, <2>1 DEF Place
    <3> QED BY <1>5, <1>7, <1>8, <2>1, <3>1 DEF Reliable, Unmoved, UsesMode
  <2>2. Placed(c)'
    BY <1>1, <1>2, <1>3, <1>5, <1>6, <1>10, <2>1, Advances
  <2>3. FansInv'
    BY <1>2, <1>3, <1>5, <1>7, <1>10, KeepsFans
  <2> QED BY <2>2, <2>3
<1> QED BY <1>4, <1>9, <1>10

LEMMA ReadCustomPlaces ==
  ASSUME FansSoFar, NEW c \in Callers, ReadCustom(c), UNCHANGED ioVars
  PROVE  Placed(c)' /\ FansInv'
<1>1. At(c, "read_custom") /\ env' = env
  BY DEF ReadCustom
<1>2. PICK p \in Programs, n \in 1 .. 10 : Place(c, p, n)
  BY <1>1 DEF FansSoFar, PlacesInv, At
<1> CallsInv /\ FansInv /\ FanTypes
  BY DEF FansSoFar
<1>0. IsAt("read_custom", p, n) /\ Program(p)[n] = "read_custom"
  BY <1>1, <1>2, LeftAt DEF Place
<1>3. PICK b \in Seen(custom, TRUE) : ProceedWith(c, [bit |-> b])
  BY DEF ReadCustom
<1>4. (p = "set" /\ n = 7) \/ (p = "auto" /\ n = 1)
  BY <1>0 DEF IsAt
<1>5. /\ Len(Program("set")) = 10 /\ Program("set")[8] = "set_custom"
      /\ Program("set")[7] = "read_custom"
      /\ Len(Program("auto")) = 5 /\ Program("auto")[2] = "clear_custom"
      /\ Program("auto")[1] = "read_custom"
  BY ProgramSteps
<1>6. Learned("set_custom", [bit |-> b]) /\ Learned("clear_custom", [bit |-> b])
  BY DEF Learned, UsesMode, Reads
<1>7. UNCHANGED <<env, universal, mode, separate, custom, table, direct, fans_initialized,
                  wanted, chosen, uw_feats>>
  BY DEF ReadCustom, ioVars, features, registers
<1>8. ASSUME Undisturbed PROVE data'[c] = [bit |-> custom]
  <2>1. b = custom
    BY <1>8, Zenon DEF Undisturbed, Seen
  <2>2. n # Len(Program(p)) /\ Left(todo[c], p, n)
    BY <1>2, <1>4, <1>5 DEF Place
  <2>3. data'[c] = [bit |-> b]
    BY <1>3, <2>2, ProceedLeaves DEF CallsInv
  <2> QED BY <2>1, <2>3
<1>9. CASE p = "set" /\ n = 7
  <2>1. ASSUME Undisturbed PROVE Reliable(c, "set", 8)'
    <3>1. Reliable(c, "set", 7)
      BY <1>2, <1>9, <2>1 DEF Place
    <3> QED BY <1>5, <1>7, <1>8, <2>1, <3>1 DEF Reliable, Unmoved, UsesMode
  <2>2. Placed(c)'
    BY <1>1, <1>2, <1>3, <1>5, <1>6, <1>9, <2>1, Advances
  <2>3. FansInv'
    BY <1>2, <1>3, <1>5, <1>7, <1>9, KeepsFans
  <2> QED BY <2>2, <2>3
<1>10. CASE p = "auto" /\ n = 1
  <2>1. ASSUME Undisturbed PROVE Reliable(c, "auto", 2)'
    <3>1. Reliable(c, "auto", 1)
      BY <1>2, <1>10, <2>1 DEF Place
    <3> QED BY <1>5, <1>7, <1>8, <2>1, <3>1 DEF Reliable, Unmoved, UsesMode
  <2>2. Placed(c)'
    BY <1>1, <1>2, <1>3, <1>5, <1>6, <1>10, <2>1, Advances
  <2>3. FansInv'
    BY <1>2, <1>3, <1>5, <1>7, <1>10, KeepsFans
  <2> QED BY <2>2, <2>3
<1> QED BY <1>4, <1>9, <1>10

LEMMA ReadModePlaces ==
  ASSUME FansSoFar, NEW c \in Callers, ReadMode(c), UNCHANGED ioVars
  PROVE  Placed(c)' /\ FansInv'
<1>1. At(c, "read_mode") /\ env' = env
  BY DEF ReadMode
<1>2. PICK p \in Programs, n \in 1 .. 10 : Place(c, p, n)
  BY <1>1 DEF FansSoFar, PlacesInv, At
<1> CallsInv /\ FansInv /\ FanTypes
  BY DEF FansSoFar
<1>0. IsAt("read_mode", p, n) /\ Program(p)[n] = "read_mode"
  BY <1>1, <1>2, LeftAt DEF Place
<1>3. PICK m \in Seen(mode, Garbage) : ProceedWith(c, m)
  BY DEF ReadMode
<1>4. n = 1 /\ p \in {"set", "use", "both", "leave", "profile"}
  BY <1>0 DEF IsAt
<1> DEFINE x == Program(p)[2]
<1>5. /\ Len(Program(p)) # 1 /\ p # "check"
      /\ p = "set" => x = "not_full_mode"
      /\ p = "use" => x = "use_full_mode"
      /\ p = "both" => x = "set_full_mode"
      /\ p = "leave" => x = "leave_full_mode"
      /\ p = "profile" => x = "write_profile"
  BY <1>4, ProgramSteps
<1> HIDE DEF x
<1>6. Learned(x, m)
  <2>1. m \in Mode
    <3>1. Garbage \in Mode
      BY DEF Garbage, Mode, ProfileBits
    <3>2. m = mode \/ m = Garbage
      BY DEF Seen
    <3> QED BY <3>1, <3>2 DEF FanTypes
  <2>2. x \in UsesMode /\ x \notin Reads /\ x # "assign_max"
    BY <1>4, <1>5 DEF UsesMode, Reads
  <2> QED BY <2>1, <2>2 DEF Learned
<1>7. UNCHANGED <<env, universal, mode, separate, custom, table, direct, fans_initialized,
                  wanted, chosen, uw_feats>>
  BY DEF ReadMode, ioVars, features, registers
<1>8. ASSUME Undisturbed PROVE data'[c] = mode
  <2>1. m = mode
    BY <1>8 DEF Undisturbed, Seen
  <2>2. n # Len(Program(p)) /\ Left(todo[c], p, n)
    BY <1>2, <1>4, <1>5 DEF Place
  <2>3. data'[c] = m
    BY <1>3, <2>2, ProceedLeaves DEF CallsInv
  <2> QED BY <2>1, <2>3
<1>9. ASSUME Undisturbed PROVE Reliable(c, p, 2)'
  <2>1. Reliable(c, p, 1)
    BY <1>2, <1>4, <1>9 DEF Place
  <2>2. /\ x \notin {"set_separate", "clear_separate", "set_custom", "clear_custom"}
        /\ p # "identify" /\ p # "fill_identify" /\ p # "auto" /\ p # "fan" /\ p # "mode"
        /\ p \in Unmoved => p = "profile"
    BY <1>4, <1>5 DEF Unmoved
  <2>3. Program(p)[2] = x
    BY DEF x
  <2>4. p = "profile" => Steady'
    <3>1. p = "profile" => Steady
      BY <2>1 DEF Reliable, Unmoved
    <3> QED BY <1>7, <3>1, Zenon DEF Steady, InUse
  <2> QED BY <1>7, <1>8, <1>9, <2>1, <2>2, <2>3, <2>4 DEF Reliable
<1>10. Placed(c)'
  <2>1. Learned(Program(p)[1 + 1], m) /\ (Undisturbed => Reliable(c, p, 1 + 1)')
    BY <1>6, <1>9 DEF x
  <2> QED BY <1>1, <1>2, <1>3, <1>4, <1>5, <2>1, Advances
<1>11. FansInv'
  BY <1>2, <1>3, <1>4, <1>5, <1>7, KeepsFans
<1> QED BY <1>10, <1>11

\* Steps that are put before the rest of a call.
LEMMA Diverts ==
  ASSUME CallsInv, NEW c \in Callers, NEW p, NEW n, Place(c, p, n),
         NEW q \in Programs, NEW m \in 1 .. 10, q # "check",
         q \in SetsSpeed => p \in SetsSpeed,
         q \in SetsSpeed \cup {"fill", "fill_identify", "limits"},
         q = "limits" => p = "tdp",
         NEW d, Left(todo'[c], q, m), call'[c] = call[c], data'[c] = d,
         env' = env, Learned(Program(q)[m], d),
         Undisturbed => Reliable(c, q, m)'
  PROVE  Placed(c)'
<1>1. Left(todo[c], q, m)'
  BY DEF Left
<1>2. Arguments(c, q, m)'
  BY DEF Place, Arguments, SetsSpeed
<1>3. Found(c, q, m)'
  BY DEF Found, Learned
<1>4. Undisturbed' = Undisturbed
  BY DEF Undisturbed
<1>5. Place(c, q, m)'
  BY <1>1, <1>2, <1>3, <1>4 DEF Place
<1> QED BY <1>5 DEF Placed

\* Insert puts steps before the rest of the call.
LEMMA InsertIsInserts ==
  ASSUME CallsInv, NEW c \in Callers, NEW s, Insert(c, s)
  PROVE  Inserts(c, s, data[c])
BY DEF Insert, Inserts, CallsInv, ListsInv

\* The rest of the list for a speed is left, from the start or, where the tables
\* have been set up, from the end.
LEMMA CheckInitLeaves ==
  ASSUME CallsInv, NEW c \in Callers, Left(todo[c], "check", 1)
  PROVE  /\ Insert(c, <<"init_done">>) =>
              Left(todo'[c], "set", 9) /\ call'[c] = call[c] /\ data'[c] = data[c]
         /\ Insert(c, <<"read_mode", "not_full_mode", "read_separate", "set_separate",
                        "zero_cpu", "zero_gpu", "read_custom", "set_custom", "init_done">>) =>
              Left(todo'[c], "set", 1) /\ call'[c] = call[c] /\ data'[c] = data[c]
<1>1. /\ Len(Program("check")) = 2 /\ Program("check")[2] = "write_table"
      /\ Len(Program("set")) = 10 /\ "check" \in Programs /\ "set" \in Programs
  BY ProgramSteps DEF Programs
<1>2. ASSUME Insert(c, <<"init_done">>)
      PROVE  Left(todo'[c], "set", 9) /\ call'[c] = call[c] /\ data'[c] = data[c]
  <2> DEFINE s == <<"init_done">>
  <2>1. Len(s) = 1 /\ s[1] = "init_done"
    OBVIOUS
  <2>2. IsList(s) /\ Inserts(c, s, data[c])
    BY <1>2, InsertIsInserts, IoStepsFollow DEF FanInserts
  <2> HIDE DEF s
  <2>3. \A i \in 1 .. 1 : s[i] = Program("set")[9 + i - 1]
    BY <2>1, ProgramSteps
  <2>4. \A i \in 1 .. 2 - 1 : Program("check")[1 + i] = Program("set")[9 + 1 + i - 1]
    BY ProgramSteps
  <2>5. 1 + (2 - 1) = 10 - 9 + 1 /\ 9 \in 1 .. 10
    OBVIOUS
  <2>6. Joins(s, "check", 1, "set", 9)
    BY <1>1, <2>1, <2>3, <2>4, <2>5 DEF Joins
  <2> QED BY <2>2, <2>6, InsertLeaves DEF CallsInv
<1>3. ASSUME Insert(c, <<"read_mode", "not_full_mode", "read_separate", "set_separate",
                         "zero_cpu", "zero_gpu", "read_custom", "set_custom", "init_done">>)
      PROVE  Left(todo'[c], "set", 1) /\ call'[c] = call[c] /\ data'[c] = data[c]
  <2> DEFINE s == <<"read_mode", "not_full_mode", "read_separate", "set_separate",
                    "zero_cpu", "zero_gpu", "read_custom", "set_custom", "init_done">>
  <2>1. /\ Len(s) = 9 /\ s[1] = "read_mode" /\ s[2] = "not_full_mode" /\ s[3] = "read_separate"
        /\ s[4] = "set_separate" /\ s[5] = "zero_cpu" /\ s[6] = "zero_gpu"
        /\ s[7] = "read_custom" /\ s[8] = "set_custom" /\ s[9] = "init_done"
    OBVIOUS
  <2>2. IsList(s) /\ Inserts(c, s, data[c])
    BY <1>3, InsertIsInserts, IoStepsFollow DEF FanInserts
  <2> HIDE DEF s
  <2>3. ASSUME NEW i \in 1 .. 9 PROVE s[i] = Program("set")[1 + i - 1]
    <3>1. 1 + i - 1 = i
      OBVIOUS
    <3>2. s[i] = Program("set")[i]
      BY <2>1, ProgramSteps
    <3> QED BY <3>1, <3>2
  <2>4. \A i \in 1 .. 2 - 1 : Program("check")[1 + i] = Program("set")[1 + 9 + i - 1]
    BY ProgramSteps
  <2>5. 9 + (2 - 1) = 10 - 1 + 1 /\ 1 \in 1 .. 10
    OBVIOUS
  <2>6. Joins(s, "check", 1, "set", 1)
    BY <1>1, <2>1, <2>3, <2>4, <2>5 DEF Joins
  <2> QED BY <2>2, <2>6, InsertLeaves DEF CallsInv
<1> QED BY <1>2, <1>3

LEMMA CheckInitPlaces ==
  ASSUME FansSoFar, NEW c \in Callers, CheckInit(c), UNCHANGED ioVars
  PROVE  Placed(c)' /\ FansInv'
<1>1. At(c, "check_init") /\ env' = env
  BY DEF CheckInit
<1>2. PICK p \in Programs, n \in 1 .. 10 : Place(c, p, n)
  BY <1>1 DEF FansSoFar, PlacesInv, At
<1> CallsInv /\ FansInv /\ FanTypes
  BY DEF FansSoFar
<1>3. IsAt("check_init", p, n)
  BY <1>1, <1>2, LeftAt DEF Place
<1>4. p = "check" /\ n = 1
  BY <1>3 DEF IsAt
<1>5. /\ Program("set")[1] = "read_mode" /\ Program("set")[9] = "init_done"
      /\ Program("check")[1] = "check_init" /\ "set" \in Programs
  BY ProgramSteps DEF Programs
<1>6. UNCHANGED <<env, universal, mode, separate, custom, table, direct, fans_initialized,
                  wanted, chosen, uw_feats>>
  BY DEF CheckInit, ioVars, features, registers
<1>7. Learned("read_mode", data[c]) /\ Learned("init_done", data[c])
  BY DEF Learned, UsesMode, Reads
<1>8. CallsInv'
  BY CallsStep DEF IoStep, FanStep, UniversalStep
<1>9. Undisturbed => env.universal /\ uw_feats /\ universal = env.universal /\ Steady
  BY <1>2, <1>4, Zenon DEF Place, Reliable, FansInv, Unmoved
<1>10. Left(todo[c], "check", 1)
  BY <1>2, <1>4 DEF Place
<1>11. CASE fans_initialized \/ ~universal
  <2>1. Left(todo'[c], "set", 9) /\ call'[c] = call[c] /\ data'[c] = data[c]
    BY <1>10, <1>11, CheckInitLeaves DEF CheckInit
  <2>2. ASSUME Undisturbed PROVE Reliable(c, "set", 9)'
    <3>1. InUse
      BY <1>9, <1>11, <2>2 DEF Steady
    <3> QED BY <1>5, <1>6, <1>9, <2>2, <3>1 DEF Reliable, Unmoved, UsesMode, InUse
  <2>3. Placed(c)'
    BY <1>1, <1>2, <1>4, <1>5, <1>7, <2>1, <2>2, Diverts DEF SetsSpeed
  <2> QED BY <1>6, <1>8, <2>1, <2>3, LeftIsBusy, BusyKeepsFans
<1>12. CASE ~(fans_initialized \/ ~universal)
  <2>1. Left(todo'[c], "set", 1) /\ call'[c] = call[c] /\ data'[c] = data[c]
    BY <1>10, <1>12, CheckInitLeaves DEF CheckInit
  <2>2. ASSUME Undisturbed PROVE Reliable(c, "set", 1)'
    BY <1>5, <1>6, <1>9, <1>12, <2>2 DEF Reliable, Unmoved, UsesMode
  <2>3. Placed(c)'
    BY <1>1, <1>2, <1>4, <1>5, <1>7, <2>1, <2>2, Diverts DEF SetsSpeed
  <2> QED BY <1>6, <1>8, <2>1, <2>3, LeftIsBusy, BusyKeepsFans
<1> QED BY <1>11, <1>12

\* use_full_mode goes on with what it has inserted, and that is all of a program.
LEMMA UseFullModeLeaves ==
  ASSUME CallsInv, NEW c \in Callers, Left(todo[c], "use", 2)
  PROVE  /\ Insert(c, <<"write_fan">>) =>
              Left(todo'[c], "fan", 1) /\ call'[c] = call[c] /\ data'[c] = data[c]
         /\ Insert(c, <<"read_mode", "set_full_mode", "write_both">>) =>
              Left(todo'[c], "both", 1) /\ call'[c] = call[c] /\ data'[c] = data[c]
<1>1. /\ Len(Program("use")) = 2 /\ Len(Program("fan")) = 1 /\ Len(Program("both")) = 3
      /\ "fan" \in Programs /\ "both" \in Programs
  BY ProgramSteps DEF Programs
<1>2. ASSUME Insert(c, <<"write_fan">>)
      PROVE  Left(todo'[c], "fan", 1) /\ call'[c] = call[c] /\ data'[c] = data[c]
  <2> DEFINE s == <<"write_fan">>
  <2>1. Len(s) = 1 /\ s[1] = "write_fan"
    OBVIOUS
  <2>2. IsList(s) /\ Inserts(c, s, data[c])
    BY <1>2, InsertIsInserts, IoStepsFollow DEF FanInserts
  <2> HIDE DEF s
  <2>3. \A i \in 1 .. 1 : s[i] = Program("fan")[1 + i - 1]
    BY <2>1, ProgramSteps
  <2>4. Joins(s, "use", 2, "fan", 1)
    <3>1. 1 + (2 - 2) = 1 - 1 + 1 /\ 1 \in 1 .. 1
      OBVIOUS
    <3>2. \A i \in 1 .. 2 - 2 : Program("use")[2 + i] = Program("fan")[1 + 1 + i - 1]
      OBVIOUS
    <3> QED BY <1>1, <2>1, <2>3, <3>1, <3>2 DEF Joins
  <2> QED BY <2>2, <2>4, InsertLeaves DEF CallsInv
<1>3. ASSUME Insert(c, <<"read_mode", "set_full_mode", "write_both">>)
      PROVE  Left(todo'[c], "both", 1) /\ call'[c] = call[c] /\ data'[c] = data[c]
  <2> DEFINE s == <<"read_mode", "set_full_mode", "write_both">>
  <2>1. Len(s) = 3 /\ s[1] = "read_mode" /\ s[2] = "set_full_mode" /\ s[3] = "write_both"
    OBVIOUS
  <2>2. IsList(s) /\ Inserts(c, s, data[c])
    BY <1>3, InsertIsInserts, IoStepsFollow DEF FanInserts
  <2> HIDE DEF s
  <2>3. ASSUME NEW i \in 1 .. 3 PROVE s[i] = Program("both")[1 + i - 1]
    <3>1. 1 + i - 1 = i
      OBVIOUS
    <3>2. s[i] = Program("both")[i]
      BY <2>1, ProgramSteps
    <3> QED BY <3>1, <3>2
  <2>4. Joins(s, "use", 2, "both", 1)
    <3>1. 3 + (2 - 2) = 3 - 1 + 1 /\ 1 \in 1 .. 3
      OBVIOUS
    <3>2. \A i \in 1 .. 2 - 2 : Program("use")[2 + i] = Program("both")[1 + 3 + i - 1]
      OBVIOUS
    <3> QED BY <1>1, <2>1, <2>3, <3>1, <3>2 DEF Joins
  <2> QED BY <2>2, <2>4, InsertLeaves DEF CallsInv
<1> QED BY <1>2, <1>3

LEMMA UseFullModePlaces ==
  ASSUME FansSoFar, NEW c \in Callers, UseFullMode(c), UNCHANGED ioVars
  PROVE  Placed(c)' /\ FansInv'
<1>1. At(c, "use_full_mode") /\ env' = env
  BY DEF UseFullMode
<1>2. PICK p \in Programs, n \in 1 .. 10 : Place(c, p, n)
  BY <1>1 DEF FansSoFar, PlacesInv, At
<1> CallsInv /\ FansInv /\ FanTypes
  BY DEF FansSoFar
<1>0. IsAt("use_full_mode", p, n) /\ Program(p)[n] = "use_full_mode"
  BY <1>1, <1>2, LeftAt DEF Place
<1>3. p = "use" /\ n = 2
  BY <1>0 DEF IsAt
<1>4. /\ Program("fan")[1] = "write_fan" /\ Program("both")[1] = "read_mode"
      /\ "fan" \in Programs /\ "both" \in Programs /\ Program("use")[2] = "use_full_mode"
  BY ProgramSteps DEF Programs
<1>5. Learned("write_fan", data[c]) /\ Learned("read_mode", data[c])
  BY DEF Learned, UsesMode, Reads
<1>6. UNCHANGED <<env, universal, mode, separate, custom, table, direct, fans_initialized,
                  wanted, chosen, uw_feats>>
  BY DEF UseFullMode, ioVars, features, registers
<1>7. CallsInv'
  BY CallsStep DEF IoStep, FanStep, FullModeStep
<1>8. Left(todo[c], "use", 2)
  BY <1>2, <1>3 DEF Place
<1>9. ASSUME Undisturbed PROVE ~env.universal /\ data[c] = mode
  BY <1>2, <1>3, <1>4, <1>9 DEF Place, Reliable, UsesMode
<1>10. CASE data[c].full
  <2>1. Left(todo'[c], "fan", 1) /\ call'[c] = call[c] /\ data'[c] = data[c]
    BY <1>8, <1>10, UseFullModeLeaves DEF UseFullMode
  <2>2. ASSUME Undisturbed PROVE Reliable(c, "fan", 1)'
    <3>1. mode.full
      BY <1>9, <1>10, <2>2
    <3> QED BY <1>4, <1>6, <1>9, <2>2, <3>1 DEF Reliable, Unmoved, UsesMode
  <2>3. Placed(c)'
    BY <1>1, <1>2, <1>3, <1>4, <1>5, <2>1, <2>2, Diverts DEF SetsSpeed
  <2> QED BY <1>6, <1>7, <2>1, <2>3, LeftIsBusy, BusyKeepsFans
<1>11. CASE ~data[c].full
  <2>1. Left(todo'[c], "both", 1) /\ call'[c] = call[c] /\ data'[c] = data[c]
    BY <1>8, <1>11, UseFullModeLeaves DEF UseFullMode
  <2>2. ASSUME Undisturbed PROVE Reliable(c, "both", 1)'
    <3>1. ~mode.full
      BY <1>9, <1>11, <2>2
    <3> QED BY <1>4, <1>6, <1>9, <2>2, <3>1 DEF Reliable, Unmoved, UsesMode
  <2>3. Placed(c)'
    BY <1>1, <1>2, <1>3, <1>4, <1>5, <2>1, <2>2, Diverts DEF SetsSpeed
  <2> QED BY <1>6, <1>7, <2>1, <2>3, LeftIsBusy, BusyKeepsFans
<1> QED BY <1>10, <1>11

\* The parts of register 0x0751 are independent of each other.
LEMMA ModeParts ==
  ASSUME NEW m \in Mode, NEW b \in BOOLEAN
  PROVE  /\ [m EXCEPT !.full = b] \in Mode
         /\ [m EXCEPT !.full = b].full = b /\ [m EXCEPT !.full = b].profile = m.profile
BY DEF Mode

LEMMA NotFullModePlaces ==
  ASSUME FansSoFar, NEW c \in Callers, NotFullMode(c), UNCHANGED ioVars
  PROVE  Placed(c)' /\ FansInv'
<1>1. At(c, "not_full_mode") /\ ProceedWith(c, data[c]) /\ env' = env
  BY DEF NotFullMode, Proceed
<1>2. PICK p \in Programs, n \in 1 .. 10 : Place(c, p, n)
  BY <1>1 DEF FansSoFar, PlacesInv, At
<1> CallsInv /\ FansInv /\ FanTypes
  BY DEF FansSoFar
<1>0. IsAt("not_full_mode", p, n) /\ Program(p)[n] = "not_full_mode"
  BY <1>1, <1>2, LeftAt DEF Place
<1>3. p = "set" /\ n = 2
  BY <1>0 DEF IsAt
<1>4. /\ Len(Program("set")) = 10 /\ Program("set")[3] = "read_separate"
      /\ Program("set")[2] = "not_full_mode"
  BY ProgramSteps
<1>5. Learned("read_separate", data[c])
  BY DEF Learned, UsesMode, Reads
<1>6. UNCHANGED <<env, universal, separate, custom, table, direct, fans_initialized,
                  wanted, chosen, uw_feats, feats_loaded>>
  BY DEF NotFullMode, ioVars, features
<1>7. ASSUME Undisturbed
      PROVE  ~mode'.full /\ mode'.profile = mode.profile /\ Reliable(c, "set", 2)
  <2>1. Reliable(c, "set", 2)
    BY <1>2, <1>3, <1>7 DEF Place
  <2>2. data[c] = mode /\ ~env.faults /\ mode \in Mode /\ FALSE \in BOOLEAN
    BY <1>4, <1>7, <2>1 DEF Reliable, UsesMode, Undisturbed, FanTypes
  <2>3. CASE mode.full
    <3>1. mode' = [mode EXCEPT !.full = FALSE]
      BY <2>2, <2>3 DEF NotFullMode, Written
    <3>2. mode'.full = FALSE /\ mode'.profile = mode.profile
      BY <2>2, <3>1, ModeParts
    <3> QED BY <2>1, <3>2
  <2>4. CASE ~mode.full
    <3>1. mode' = mode
      BY <2>2, <2>4 DEF NotFullMode
    <3> QED BY <2>1, <2>4, <3>1
  <2> QED BY <2>3, <2>4
<1>8. ASSUME Undisturbed PROVE Reliable(c, "set", 3)'
  BY <1>4, <1>6, <1>7, <1>8 DEF Reliable, Unmoved, UsesMode
<1>9. Placed(c)'
  BY <1>1, <1>2, <1>3, <1>4, <1>5, <1>8, Advances
<1>10. FansInv'
  <2>1. ~Quiescent'
    BY <1>1, <1>2, <1>3, <1>4, AdvancesBusy
  <2>2. Undisturbed => env.universal
    BY <1>7 DEF Reliable
  <2> QED BY <1>6, <1>7, <2>1, <2>2 DEF FansInv, Undisturbed
<1> QED BY <1>9, <1>10

LEMMA InitDonePlaces ==
  ASSUME FansSoFar, NEW c \in Callers, InitDone(c), UNCHANGED ioVars
  PROVE  Placed(c)' /\ FansInv'
<1>1. At(c, "init_done") /\ ProceedWith(c, data[c]) /\ env' = env
  BY DEF InitDone, Proceed
<1>2. PICK p \in Programs, n \in 1 .. 10 : Place(c, p, n)
  BY <1>1 DEF FansSoFar, PlacesInv, At
<1> CallsInv /\ FansInv /\ FanTypes
  BY DEF FansSoFar
<1>0. IsAt("init_done", p, n) /\ Program(p)[n] = "init_done"
  BY <1>1, <1>2, LeftAt DEF Place
<1>3. p = "set" /\ n = 9
  BY <1>0 DEF IsAt
<1>4. /\ Len(Program("set")) = 10 /\ Program("set")[10] = "write_table"
      /\ Program("set")[9] = "init_done"
  BY ProgramSteps
<1>5. Learned("write_table", data[c])
  BY DEF Learned, UsesMode, Reads
<1>6. /\ UNCHANGED <<env, universal, mode, separate, custom, table, direct,
                     wanted, chosen, uw_feats, feats_loaded>>
      /\ fans_initialized'
  BY DEF InitDone, ioVars, features, registers
<1>7. ASSUME Undisturbed PROVE Reliable(c, "set", 9)
  BY <1>2, <1>3, <1>7 DEF Place
<1>8. ASSUME Undisturbed PROVE Reliable(c, "set", 10)'
  BY <1>4, <1>6, <1>7, <1>8 DEF Reliable, Unmoved, UsesMode
<1>9. Placed(c)'
  BY <1>1, <1>2, <1>3, <1>4, <1>5, <1>8, Advances
<1>10. FansInv'
  <2>1. ~Quiescent'
    BY <1>1, <1>2, <1>3, <1>4, AdvancesBusy
  <2> QED BY <1>6, <2>1 DEF FansInv, Undisturbed
<1> QED BY <1>9, <1>10

LEMMA ZeroTablePlaces ==
  ASSUME FansSoFar, NEW c \in Callers, ZeroTable(c), UNCHANGED ioVars
  PROVE  Placed(c)' /\ FansInv'
<1>1. PICK x \in {"zero_cpu", "zero_gpu"} : At(c, x)
  BY DEF ZeroTable
<1>2. PICK p \in Programs, n \in 1 .. 10 : Place(c, p, n)
  BY <1>1 DEF FansSoFar, PlacesInv, At
<1> CallsInv /\ FansInv /\ FanTypes
  BY DEF FansSoFar
<1>3. IsAt(x, p, n)
  BY <1>1, <1>2, LeftAt DEF Place
<1>4. p = "set" /\ n \in {5, 6}
  BY <1>3 DEF IsAt
<1>5. /\ Len(Program("set")) = 10 /\ Program("set")[7] = "read_custom"
      /\ Program("set")[6] = "zero_gpu" /\ Program("set")[5] = "zero_cpu"
  BY ProgramSteps
<1>6. Learned("zero_gpu", data[c]) /\ Learned("read_custom", data[c])
  BY DEF Learned, UsesMode, Reads
<1>7. /\ UNCHANGED <<env, universal, mode, separate, custom, direct, fans_initialized,
                     wanted, chosen, uw_feats, feats_loaded>>
      /\ ProceedWith(c, data[c])
  BY DEF ZeroTable, ioVars, features, Proceed
<1>8. ASSUME Undisturbed PROVE Reliable(c, "set", n)
  BY <1>2, <1>4, <1>8 DEF Place
<1>9. ASSUME Undisturbed PROVE Reliable(c, "set", n + 1)'
  <2>1. CASE n = 5
    BY <1>5, <1>7, <1>8, <1>9, <2>1 DEF Reliable, Unmoved, UsesMode
  <2>2. CASE n = 6
    BY <1>5, <1>7, <1>8, <1>9, <2>2 DEF Reliable, Unmoved, UsesMode
  <2> QED BY <1>4, <2>1, <2>2
<1>10. Placed(c)'
  <2>1. CASE n = 5
    BY <1>1, <1>2, <1>4, <1>5, <1>6, <1>7, <1>9, <2>1, Advances
  <2>2. CASE n = 6
    BY <1>1, <1>2, <1>4, <1>5, <1>6, <1>7, <1>9, <2>2, Advances
  <2> QED BY <1>4, <2>1, <2>2
<1>11. FansInv'
  <2>1. ~Quiescent'
    <3>1. n # Len(Program(p))
      BY <1>4, <1>5
    <3> QED BY <1>2, <1>7, <3>1, AdvancesBusy
  <2>2. Undisturbed => env.universal /\ ~fans_initialized
    BY <1>4, <1>8 DEF Reliable
  <2>3. Undisturbed => \A f \in Fans : wanted[f] = None
    BY <2>2 DEF FansInv
  <2> QED BY <1>7, <2>1, <2>2, <2>3 DEF FansInv, Undisturbed
<1> QED BY <1>10, <1>11

LEMMA SetFullModePlaces ==
  ASSUME FansSoFar, NEW c \in Callers, SetFullMode(c), UNCHANGED ioVars
  PROVE  Placed(c)' /\ FansInv'
<1>1. At(c, "set_full_mode") /\ ProceedWith(c, data[c]) /\ env' = env
  BY DEF SetFullMode, Proceed
<1>2. PICK p \in Programs, n \in 1 .. 10 : Place(c, p, n)
  BY <1>1 DEF FansSoFar, PlacesInv, At
<1> CallsInv /\ FansInv /\ FanTypes
  BY DEF FansSoFar
<1>0. IsAt("set_full_mode", p, n) /\ Program(p)[n] = "set_full_mode"
  BY <1>1, <1>2, LeftAt DEF Place
<1>3. p = "both" /\ n = 2
  BY <1>0 DEF IsAt
<1>4. /\ Len(Program("both")) = 3 /\ Program("both")[3] = "write_both"
      /\ Program("both")[2] = "set_full_mode"
  BY ProgramSteps
<1>5. Learned("write_both", data[c])
  BY DEF Learned, UsesMode, Reads
<1>6. UNCHANGED <<env, universal, separate, custom, table, direct, fans_initialized,
                  wanted, chosen, uw_feats, feats_loaded>>
  BY DEF SetFullMode, ioVars, features
<1>7. ASSUME Undisturbed
      PROVE  mode'.full /\ mode'.profile = mode.profile /\ Reliable(c, "both", 2)
  <2>1. Reliable(c, "both", 2)
    BY <1>2, <1>3, <1>7 DEF Place
  <2>2. data[c] = mode /\ ~env.faults /\ mode \in Mode /\ TRUE \in BOOLEAN /\ ~mode.full
    BY <1>4, <1>7, <2>1 DEF Reliable, UsesMode, Undisturbed, FanTypes
  <2>3. mode' = [mode EXCEPT !.full = TRUE]
    <3>1. mode' = [mode EXCEPT !.full = ~@]
      BY <2>2 DEF SetFullMode, Written
    <3>2. mode.full = FALSE
      BY <2>2 DEF Mode
    <3> QED BY <2>2, <3>1, <3>2 DEF Mode
  <2>4. mode'.full = TRUE /\ mode'.profile = mode.profile
    BY <2>2, <2>3, ModeParts
  <2> QED BY <2>1, <2>4
<1>8. ASSUME Undisturbed PROVE Reliable(c, "both", 3)'
  BY <1>4, <1>6, <1>7, <1>8 DEF Reliable, Unmoved, UsesMode
<1>9. Placed(c)'
  BY <1>1, <1>2, <1>3, <1>4, <1>5, <1>8, Advances
<1>10. FansInv'
  <2>1. ~Quiescent'
    BY <1>1, <1>2, <1>3, <1>4, AdvancesBusy
  <2>2. Undisturbed => ~env.universal
    BY <1>7 DEF Reliable
  <2> QED BY <1>6, <1>7, <2>1, <2>2 DEF FansInv, Undisturbed
<1> QED BY <1>9, <1>10

\* The last step of a call.
LEMMA Ends ==
  ASSUME CallsInv, NEW c \in Callers, NEW p, NEW n, Place(c, p, n),
         n = Len(Program(p)), NEW d, ProceedWith(c, d)
  PROVE  Placed(c)'
BY ProceedLeaves, IdleIsPlaced DEF CallsInv, Place

LEMMA WriteTablePlaces ==
  ASSUME FansSoFar, NEW c \in Callers, WriteTable(c), UNCHANGED ioVars
  PROVE  Placed(c)' /\ FansInv'
<1>1. At(c, "write_table") /\ ProceedWith(c, data[c]) /\ env' = env
  BY DEF WriteTable, Proceed
<1>2. PICK p \in Programs, n \in 1 .. 10 : Place(c, p, n)
  BY <1>1 DEF FansSoFar, PlacesInv, At
<1> CallsInv /\ FansInv /\ FanTypes
  BY DEF FansSoFar
<1>0. IsAt("write_table", p, n) /\ Program(p)[n] = "write_table"
  BY <1>1, <1>2, LeftAt DEF Place
<1>3. p = "set" /\ n = 10
  BY <1>0, <1>2 DEF IsAt, Place, Arguments
<1>4. Len(Program("set")) = 10 /\ Program("set")[10] = "write_table"
  BY ProgramSteps
<1>5. Placed(c)'
  BY <1>1, <1>2, <1>3, <1>4, Ends
<1>6. UNCHANGED <<env, universal, mode, separate, custom, direct, fans_initialized, chosen,
                  uw_feats, feats_loaded>>
  BY DEF WriteTable, ioVars, features
<1> DEFINE f == call[c][2]  speed == call[c][3]
<1>7. f \in Fans /\ speed \in Speeds /\ speed # None
  BY <1>2, <1>3, FanAssumption DEF Place, Arguments, SetsSpeed, None
<1>8. ASSUME Undisturbed PROVE FansInv'
  <2>1. Reliable(c, "set", 10)
    BY <1>2, <1>3, <1>8 DEF Place
  <2>2. env.universal /\ InUse /\ fans_initialized
    BY <2>1 DEF Reliable, InUse
  <2>3. /\ table' = [table EXCEPT ![f] = InTable(speed)]
        /\ wanted' = [wanted EXCEPT ![f] = speed]
    BY <1>8 DEF WriteTable, Written, Undisturbed, InTable
  <2> HIDE DEF f, speed
  <2>4. /\ table'[f] = InTable(speed) /\ wanted'[f] = speed
        /\ \A g \in Fans \ {f} : table'[g] = table[g] /\ wanted'[g] = wanted[g]
    BY <1>7, <2>3 DEF FanTypes
  <2>5. ASSUME NEW g \in Fans
        PROVE  wanted'[g] # None => table'[g] = InTable(wanted'[g])
    BY <1>8, <2>2, <2>4, <2>5 DEF FansInv
  <2>6. Steady'
    BY <1>6, <1>7, <2>2, <2>4 DEF Steady, InUse
  <2> QED BY <1>6, <1>8, <2>2, <2>5, <2>6 DEF FansInv, Undisturbed, InTable
<1>9. ASSUME ~Undisturbed PROVE FansInv'
  BY <1>1, <1>9 DEF FansInv, Undisturbed
<1> QED BY <1>5, <1>8, <1>9

LEMMA UninitPlaces ==
  ASSUME FansSoFar, NEW c \in Callers, Uninit(c), UNCHANGED ioVars
  PROVE  Placed(c)' /\ FansInv'
<1>1. At(c, "uninit") /\ ProceedWith(c, data[c]) /\ env' = env
  BY DEF Uninit, Proceed
<1>2. PICK p \in Programs, n \in 1 .. 10 : Place(c, p, n)
  BY <1>1 DEF FansSoFar, PlacesInv, At
<1> CallsInv /\ FansInv /\ FanTypes
  BY DEF FansSoFar
<1>0. IsAt("uninit", p, n) /\ Program(p)[n] = "uninit"
  BY <1>1, <1>2, LeftAt DEF Place
<1>3. p = "auto" /\ n = 5
  BY <1>0 DEF IsAt
<1>4. Len(Program("auto")) = 5 /\ Program("auto")[5] = "uninit"
  BY ProgramSteps
<1>5. Placed(c)'
  BY <1>1, <1>2, <1>3, <1>4, Ends
<1>6. /\ UNCHANGED <<env, universal, mode, separate, custom, table, direct, chosen,
                     uw_feats, feats_loaded>>
      /\ fans_initialized' = FALSE /\ wanted' = [f \in Fans |-> None]
  BY DEF Uninit, ioVars, features, registers
<1>7. ASSUME Undisturbed PROVE FansInv'
  <2>1. env.universal /\ ~custom /\ ~separate
    BY <1>2, <1>3, <1>7 DEF Place, Reliable
  <2>2. Steady'
    BY <1>6, <2>1 DEF Steady
  <2> QED BY <1>6, <1>7, <2>1, <2>2 DEF FansInv, Undisturbed
<1>8. ASSUME ~Undisturbed PROVE FansInv'
  BY <1>1, <1>8 DEF FansInv, Undisturbed
<1> QED BY <1>5, <1>7, <1>8

LEMMA WriteProfilePlaces ==
  ASSUME FansSoFar, NEW c \in Callers, WriteProfile(c), UNCHANGED ioVars
  PROVE  Placed(c)' /\ FansInv'
<1>1. At(c, "write_profile") /\ ProceedWith(c, data[c]) /\ env' = env
  BY DEF WriteProfile, Proceed
<1>2. PICK p \in Programs, n \in 1 .. 10 : Place(c, p, n)
  BY <1>1 DEF FansSoFar, PlacesInv, At
<1> CallsInv /\ FansInv /\ FanTypes
  BY DEF FansSoFar
<1>0. IsAt("write_profile", p, n) /\ Program(p)[n] = "write_profile"
  BY <1>1, <1>2, LeftAt DEF Place
<1>3. p = "profile" /\ n = 2
  BY <1>0 DEF IsAt
<1>4. Len(Program("profile")) = 2 /\ Program("profile")[2] = "write_profile"
  BY ProgramSteps
<1>5. Placed(c)'
  BY <1>1, <1>2, <1>3, <1>4, Ends
<1>6. /\ UNCHANGED <<env, universal, separate, custom, table, direct, fans_initialized, wanted,
                     uw_feats, feats_loaded>>
      /\ chosen' = call[c][2]
  BY DEF WriteProfile, ioVars, features
<1>7. ASSUME Undisturbed PROVE FansInv'
  <2>1. Reliable(c, "profile", 2)
    BY <1>2, <1>3, <1>7 DEF Place
  <2>2. data[c] = mode /\ Steady /\ ~env.faults /\ mode \in Mode
    BY <1>4, <1>7, <2>1 DEF Reliable, UsesMode, Unmoved, Undisturbed, FanTypes
  <2>3. mode' = [mode EXCEPT !.profile = Bits(call[c][2])]
    BY <2>2 DEF WriteProfile, Written
  <2>4. mode'.full = mode.full /\ mode'.profile = Bits(chosen')
    BY <1>6, <2>2, <2>3 DEF Mode
  <2>5. Steady'
    <3>1. InUse' = InUse
      BY <1>6, <2>4, Zenon DEF InUse
    <3> QED BY <1>6, <2>2, <3>1, Zenon DEF Steady
  <2> QED BY <1>6, <1>7, <2>4, <2>5 DEF FansInv, Undisturbed
<1>8. ASSUME ~Undisturbed PROVE FansInv'
  BY <1>1, <1>8 DEF FansInv, Undisturbed
<1> QED BY <1>5, <1>7, <1>8

LEMMA WriteModePlaces ==
  ASSUME FansSoFar, NEW c \in Callers, WriteMode(c), UNCHANGED ioVars
  PROVE  Placed(c)' /\ FansInv'
<1>1. At(c, "write_mode") /\ ProceedWith(c, data[c]) /\ env' = env
  BY DEF WriteMode, Proceed
<1>2. PICK p \in Programs, n \in 1 .. 10 : Place(c, p, n)
  BY <1>1 DEF FansSoFar, PlacesInv, At
<1> CallsInv /\ FansInv /\ FanTypes
  BY DEF FansSoFar
<1>0. IsAt("write_mode", p, n) /\ Program(p)[n] = "write_mode"
  BY <1>1, <1>2, LeftAt DEF Place
<1>3. p = "mode" /\ n = 1
  BY <1>0 DEF IsAt
<1>4. Len(Program("mode")) = 1 /\ Program("mode")[1] = "write_mode"
  BY ProgramSteps
<1>5. Placed(c)'
  BY <1>1, <1>2, <1>3, <1>4, Ends
<1>6. ~Undisturbed
  BY <1>2, <1>3 DEF Place, Reliable
<1>7. FansInv'
  BY <1>1, <1>6 DEF FansInv, Undisturbed
<1> QED BY <1>5, <1>7

LEMMA WriteFanPlaces ==
  ASSUME FansSoFar, NEW c \in Callers, WriteFan(c), UNCHANGED ioVars
  PROVE  Placed(c)' /\ FansInv'
<1>1. At(c, "write_fan") /\ ProceedWith(c, data[c]) /\ env' = env
  BY DEF WriteFan, Proceed
<1>2. PICK p \in Programs, n \in 1 .. 10 : Place(c, p, n)
  BY <1>1 DEF FansSoFar, PlacesInv, At
<1> CallsInv /\ FansInv /\ FanTypes
  BY DEF FansSoFar
<1>0. IsAt("write_fan", p, n) /\ Program(p)[n] = "write_fan"
  BY <1>1, <1>2, LeftAt DEF Place
<1>3. p = "fan" /\ n = 1
  BY <1>0 DEF IsAt
<1>4. Len(Program("fan")) = 1 /\ Program("fan")[1] = "write_fan"
  BY ProgramSteps
<1>5. Placed(c)'
  BY <1>1, <1>2, <1>3, <1>4, Ends
<1>6. UNCHANGED <<env, universal, mode, separate, custom, table, fans_initialized, chosen,
                  uw_feats, feats_loaded>>
  BY DEF WriteFan, ioVars, features
<1> DEFINE f == call[c][2]  speed == call[c][3]
<1>7. f \in Fans
  BY <1>2, <1>3 DEF Place, Arguments, SetsSpeed
<1>8. ASSUME Undisturbed PROVE FansInv'
  <2>1. ~env.universal /\ mode.full
    BY <1>2, <1>3, <1>8 DEF Place, Reliable
  <2>2. /\ direct' = [direct EXCEPT ![f] = speed]
        /\ wanted' = [wanted EXCEPT ![f] = speed]
    BY <1>8 DEF WriteFan, Written, Undisturbed
  <2> HIDE DEF f, speed
  <2>3. /\ direct'[f] = speed /\ wanted'[f] = speed
        /\ \A g \in Fans \ {f} : direct'[g] = direct[g] /\ wanted'[g] = wanted[g]
    BY <1>7, <2>2 DEF FanTypes
  <2>4. ASSUME NEW g \in Fans
        PROVE  wanted'[g] # None => direct'[g] = wanted'[g]
    BY <1>8, <2>1, <2>3, <2>4 DEF FansInv
  <2>5. Steady'
    BY <1>6, <2>1 DEF Steady
  <2> QED BY <1>6, <1>8, <2>1, <2>4, <2>5 DEF FansInv, Undisturbed
<1>9. ASSUME ~Undisturbed PROVE FansInv'
  BY <1>1, <1>9 DEF FansInv, Undisturbed
<1> QED BY <1>5, <1>8, <1>9

LEMMA WriteBothPlaces ==
  ASSUME FansSoFar, NEW c \in Callers, WriteBoth(c), UNCHANGED ioVars
  PROVE  Placed(c)' /\ FansInv'
<1>1. At(c, "write_both") /\ ProceedWith(c, data[c]) /\ env' = env
  BY DEF WriteBoth, Proceed
<1>2. PICK p \in Programs, n \in 1 .. 10 : Place(c, p, n)
  BY <1>1 DEF FansSoFar, PlacesInv, At
<1> CallsInv /\ FansInv /\ FanTypes
  BY DEF FansSoFar
<1>0. IsAt("write_both", p, n) /\ Program(p)[n] = "write_both"
  BY <1>1, <1>2, LeftAt DEF Place
<1>3. p = "both" /\ n = 3
  BY <1>0 DEF IsAt
<1>4. Len(Program("both")) = 3 /\ Program("both")[3] = "write_both"
  BY ProgramSteps
<1>5. Placed(c)'
  BY <1>1, <1>2, <1>3, <1>4, Ends
<1>6. UNCHANGED <<env, universal, mode, separate, custom, table, fans_initialized, chosen,
                  uw_feats, feats_loaded>>
  BY DEF WriteBoth, ioVars, features
<1> DEFINE speed == call[c][3]
<1>7. ASSUME Undisturbed PROVE FansInv'
  <2>1. ~env.universal /\ mode.full
    BY <1>2, <1>3, <1>7 DEF Place, Reliable
  <2>2. /\ direct' \in [Fans -> {speed}]
        /\ wanted' = [f \in Fans |-> IF f = call[c][2] THEN speed ELSE None]
    BY <1>7 DEF WriteBoth, Undisturbed
  <2> HIDE DEF speed
  <2>3. ASSUME NEW g \in Fans
        PROVE  wanted'[g] # None => direct'[g] = wanted'[g]
    BY <2>2
  <2>4. Steady'
    BY <1>6, <2>1 DEF Steady
  <2> QED BY <1>6, <1>7, <2>1, <2>3, <2>4 DEF FansInv, Undisturbed
<1>8. ASSUME ~Undisturbed PROVE FansInv'
  BY <1>1, <1>8 DEF FansInv, Undisturbed
<1> QED BY <1>5, <1>7, <1>8

LEMMA LeaveFullModePlaces ==
  ASSUME FansSoFar, NEW c \in Callers, LeaveFullMode(c), UNCHANGED ioVars
  PROVE  Placed(c)' /\ FansInv'
<1>1. At(c, "leave_full_mode") /\ ProceedWith(c, data[c]) /\ env' = env
  BY DEF LeaveFullMode, Proceed
<1>2. PICK p \in Programs, n \in 1 .. 10 : Place(c, p, n)
  BY <1>1 DEF FansSoFar, PlacesInv, At
<1> CallsInv /\ FansInv /\ FanTypes
  BY DEF FansSoFar
<1>0. IsAt("leave_full_mode", p, n) /\ Program(p)[n] = "leave_full_mode"
  BY <1>1, <1>2, LeftAt DEF Place
<1>3. p = "leave" /\ n = 2
  BY <1>0 DEF IsAt
<1>4. Len(Program("leave")) = 2 /\ Program("leave")[2] = "leave_full_mode"
  BY ProgramSteps
<1>5. Placed(c)'
  BY <1>1, <1>2, <1>3, <1>4, Ends
<1>6. /\ UNCHANGED <<env, universal, separate, custom, table, direct, fans_initialized, chosen,
                     uw_feats, feats_loaded>>
      /\ wanted' = [f \in Fans |-> None]
  BY DEF LeaveFullMode, ioVars, features
<1>7. ASSUME Undisturbed PROVE FansInv'
  <2>1. Reliable(c, "leave", 2)
    BY <1>2, <1>3, <1>7 DEF Place
  <2>2. data[c] = mode /\ ~env.universal /\ ~env.faults /\ mode \in Mode /\ FALSE \in BOOLEAN
    BY <1>4, <1>7, <2>1 DEF Reliable, UsesMode, Undisturbed, FanTypes
  <2>3. mode' = [mode EXCEPT !.full = FALSE]
    BY <2>2 DEF LeaveFullMode, Written
  <2>4. mode'.profile = mode.profile
    BY <2>2, <2>3, ModeParts
  <2>5. Steady'
    BY <1>6, <2>2 DEF Steady
  <2> QED BY <1>6, <1>7, <2>2, <2>4, <2>5 DEF FansInv, Undisturbed
<1>8. ASSUME ~Undisturbed PROVE FansInv'
  BY <1>1, <1>8 DEF FansInv, Undisturbed
<1> QED BY <1>5, <1>7, <1>8

\* Every number stands for a profile.
LEMMA BitsAreBits == \A p : Bits(p) \in ProfileBits
BY DEF Bits, ProfileBits

\* What is written to 0x0751 is a mode again.
LEMMA ModesAreModes ==
  ASSUME NEW m \in Mode, NEW b \in BOOLEAN, NEW q
  PROVE  /\ [m EXCEPT !.full = b] \in Mode
         /\ [m EXCEPT !.full = ~@] \in Mode
         /\ [m EXCEPT !.profile = Bits(q)] \in Mode
         /\ [full |-> b, profile |-> Bits(q), rest |-> "kept"] \in Mode
<1>1. Bits(q) \in ProfileBits
  BY BitsAreBits
<1>2. [m EXCEPT !.full = b] \in Mode /\ [m EXCEPT !.full = ~@] \in Mode
  BY DEF Mode
<1>3. [m EXCEPT !.profile = Bits(q)] \in Mode
  BY <1>1 DEF Mode
<1>4. [full |-> b, profile |-> Bits(q), rest |-> "kept"] \in Mode
  BY <1>1 DEF Mode
<1> QED BY <1>2, <1>3, <1>4

\* The steps keep the registers what they can be.
LEMMA FanStepKeepsTypes ==
  ASSUME FansSoFar, NEW c \in Callers, FanStep(c)
  PROVE  FanTypes'
<1> CallsInv /\ FanTypes
  BY DEF FansSoFar
<1>1. ~Idle(c)
  BY DEF FanStep, UniversalStep, FullModeStep, ReadMode, WriteProfile, WriteMode, CheckInit,
         NotFullMode, ReadSeparate, ReadCustom, SetSeparate, ZeroTable, SetCustom, InitDone,
         WriteTable, ClearCustom, ClearSeparate, Uninit, UseFullMode, SetFullMode, WriteFan,
         WriteBoth, LeaveFullMode, At
<1>2. PICK p \in Programs, n \in 1 .. 10 : Place(c, p, n)
  BY <1>1 DEF FansSoFar, PlacesInv
<1>3. Arguments(c, p, n) /\ Found(c, p, n)
  BY <1>2 DEF Place
<1>4. ASSUME NEW x, At(c, x)
      PROVE  IsAt(x, p, n) /\ (x \in UsesMode => data[c] \in Mode)
  <2>1. IsAt(x, p, n) /\ Program(p)[n] = x
    BY <1>2, <1>4, LeftAt DEF Place
  <2> QED BY <1>3, <2>1 DEF Found
<1>5. CASE ReadMode(c) \/ ReadSeparate(c) \/ ReadCustom(c) \/ CheckInit(c) \/ UseFullMode(c)
  BY <1>5 DEF ReadMode, ReadSeparate, ReadCustom, CheckInit, UseFullMode, FanTypes, registers
<1>6. ASSUME NEW m, NEW x, mode' \in {mode, m}, m \in Mode,
             UNCHANGED <<universal, separate, custom, table, direct, fans_initialized>>,
             wanted' \in [Fans -> Speeds \cup {None}], chosen' \in 1 .. 3 \cup {None}
      PROVE  FanTypes'
  BY <1>6 DEF FanTypes
<1>7. CASE WriteProfile(c)
  <2>1. At(c, "write_profile")
    BY <1>7 DEF WriteProfile
  <2>2. data[c] \in Mode /\ p = "profile"
    BY <1>4, <2>1 DEF UsesMode, IsAt
  <2>3. [data[c] EXCEPT !.profile = Bits(call[c][2])] \in Mode /\ call[c][2] \in 1 .. 3
    BY <1>3, <2>2, ModesAreModes DEF Arguments
  <2> QED BY <1>7, <2>3 DEF WriteProfile, Written, FanTypes
<1>8. CASE WriteMode(c)
  BY <1>8 DEF WriteMode, Written, FanTypes
<1>9. CASE NotFullMode(c) \/ SetFullMode(c) \/ LeaveFullMode(c)
  <2>1. data[c] \in Mode
    BY <1>4, <1>9 DEF NotFullMode, SetFullMode, LeaveFullMode, UsesMode
  <2>2. [data[c] EXCEPT !.full = FALSE] \in Mode /\ [data[c] EXCEPT !.full = ~@] \in Mode
    BY <2>1, ModesAreModes
  <2>3. CASE NotFullMode(c)
    BY <2>2, <2>3 DEF NotFullMode, Written, FanTypes
  <2>4. CASE SetFullMode(c)
    BY <2>2, <2>4 DEF SetFullMode, Written, FanTypes
  <2>5. CASE LeaveFullMode(c)
    BY <2>2, <2>5 DEF LeaveFullMode, Written, FanTypes
  <2> QED BY <1>9, <2>3, <2>4, <2>5
<1>10. CASE \/ SetSeparate(c) \/ SetCustom(c) \/ ClearCustom(c) \/ ClearSeparate(c)
            \/ InitDone(c) \/ Uninit(c)
  <2>1. CASE SetSeparate(c)
    BY <2>1 DEF SetSeparate, Written, FanTypes
  <2>2. CASE SetCustom(c)
    BY <2>2 DEF SetCustom, Written, FanTypes
  <2>3. CASE ClearCustom(c)
    BY <2>3 DEF ClearCustom, Written, FanTypes
  <2>4. CASE ClearSeparate(c)
    BY <2>4 DEF ClearSeparate, Written, FanTypes
  <2>5. CASE InitDone(c)
    BY <2>5 DEF InitDone, registers, FanTypes
  <2>6. CASE Uninit(c)
    BY <2>6 DEF Uninit, registers, FanTypes
  <2> QED BY <1>10, <2>1, <2>2, <2>3, <2>4, <2>5, <2>6
<1>11. CASE ZeroTable(c)
  BY <1>11 DEF ZeroTable, Written, FanTypes
<1>12. CASE WriteTable(c)
  <2>1. p \in SetsSpeed
    BY <1>4, <1>12 DEF WriteTable, IsAt, SetsSpeed
  <2>2. call[c][2] \in Fans /\ call[c][3] \in Speeds
    BY <1>3, <2>1 DEF Arguments
  <2> QED BY <1>12, <2>2 DEF WriteTable, Written, FanTypes
<1>13. CASE WriteFan(c)
  <2>1. p \in SetsSpeed
    BY <1>4, <1>13 DEF WriteFan, IsAt, SetsSpeed
  <2>2. call[c][2] \in Fans /\ call[c][3] \in Speeds
    BY <1>3, <2>1 DEF Arguments
  <2> QED BY <1>13, <2>2 DEF WriteFan, Written, FanTypes
<1>14. CASE WriteBoth(c)
  <2>1. p \in SetsSpeed
    BY <1>4, <1>14 DEF WriteBoth, IsAt, SetsSpeed
  <2>2. call[c][3] \in Speeds
    BY <1>3, <2>1 DEF Arguments
  <2>3. direct' \in [Fans -> Speeds \cup {0}]
    BY <1>14, <2>2 DEF WriteBoth, FanTypes
  <2> QED BY <1>14, <2>2, <2>3 DEF WriteBoth, FanTypes
<1> QED
  BY <1>5, <1>7, <1>8, <1>9, <1>10, <1>11, <1>12, <1>13, <1>14
     DEF FanStep, UniversalStep, FullModeStep

\* Calls begin.
LEMMA StartKeepsFans ==
  ASSUME FansInv, ~Quiescent',
         UNCHANGED <<env, mode, fans_initialized, wanted, chosen, table, direct, universal,
                     uw_feats, feats_loaded>>
  PROVE  FansInv'
BY DEF FansInv, Undisturbed

\* A call that begins, and may rely on nothing but its first step.
LEMMA StartPlaces ==
  ASSUME CallsInv, CallsInv', FansInv, NEW c \in Callers, NEW p \in Programs, NEW args,
         Start(c, args, Program(p)), UNCHANGED <<uw_feats, feats_loaded>>,
         call'[c] = args => Arguments(c, p, 1)',
         Program(p)[1] \notin UsesMode \cup Reads \cup
                             {"assign_max", "set_separate", "clear_separate", "set_custom",
                              "clear_custom"},
         Undisturbed /\ Steady =>
           /\ p \in Unmoved \cup {"set", "auto", "use", "leave"}
           /\ p \in {"check", "set", "auto"} => env.universal /\ uw_feats
           /\ p \in {"use", "leave"} => ~env.universal,
         p # "fill_identify", p # "set", p # "both", p # "fan"
  PROVE  Placed(c)' /\ FansInv'
<1>1. Left(todo'[c], p, 1) /\ call'[c] = args /\ (Quiescent \/ env.overlap)
  BY StartLeaves DEF CallsInv
<1>2. UNCHANGED <<env, mode, separate, custom, fans_initialized, wanted, chosen, table, direct,
                  universal>>
  BY DEF Start, registers
<1>3. Left(todo[c], p, 1)' /\ Arguments(c, p, 1)'
  BY <1>1 DEF Left
<1>4. Found(c, p, 1)'
  BY DEF Found
<1>5. ASSUME Undisturbed PROVE Reliable(c, p, 1)'
  <2>1. Steady
    BY <1>1, <1>5 DEF FansInv, Undisturbed
  <2>2. Steady'
    BY <1>2, <2>1, Zenon DEF Steady, InUse
  <2> QED BY <1>2, <1>5, <2>1, <2>2 DEF Reliable, Unmoved
<1>6. Placed(c)'
  <2>1. Undisturbed' = Undisturbed
    BY <1>2 DEF Undisturbed
  <2>2. Place(c, p, 1)'
    BY <1>3, <1>4, <1>5, <2>1 DEF Place
  <2> QED BY <2>2 DEF Placed
<1>7. FansInv'
  BY <1>1, <1>2, LeftIsBusy, StartKeepsFans
<1> QED BY <1>6, <1>7

\* So do the fan calls, on a device that is identified.
LEMMA FanCallPlaces ==
  ASSUME FansSoFar, NEW c \in Callers, FanCall(c), uw_feats, UNCHANGED ioVars
  PROVE  Placed(c)' /\ FansInv'
<1> CallsInv /\ FansInv /\ FanTypes
  BY DEF FansSoFar
<1>1. CallsInv' /\ UNCHANGED <<uw_feats, feats_loaded>>
  BY CallsStep DEF IoStep, ioVars, features
<1>2. Undisturbed => universal = env.universal
  BY DEF FansInv
<1>3. ASSUME NEW f \in Fans, NEW v \in Speeds, SetFan(c, f, v) PROVE Placed(c)' /\ FansInv'
  <2> DEFINE args == <<"speed", f, v>>
  <2>1. args[2] = f /\ args[3] = v
    OBVIOUS
  <2>2. CASE universal
    <3>1. Start(c, args, Program("check"))
      BY <1>3, <2>2 DEF SetFan, Begin, Program
    <3> HIDE DEF args
    <3>2. call'[c] = args => Arguments(c, "check", 1)'
      BY <2>1 DEF Arguments
    <3>3. "check" \in Programs /\ Program("check")[1] = "check_init"
      BY ProgramSteps DEF Programs
    <3>4. Program("check")[1] \notin UsesMode \cup Reads \cup
            {"assign_max", "set_separate", "clear_separate", "set_custom", "clear_custom"}
      BY <3>3 DEF UsesMode, Reads
    <3>5. Undisturbed => "check" \in Unmoved /\ env.universal
      BY <1>2, <2>2 DEF Unmoved
    <3> QED BY <1>1, <3>1, <3>2, <3>3, <3>4, <3>5, StartPlaces
  <2>3. CASE ~universal
    <3>1. Start(c, args, Program("use"))
      BY <1>3, <2>3 DEF SetFan, Begin, Program
    <3> HIDE DEF args
    <3>2. call'[c] = args => Arguments(c, "use", 1)'
      BY <2>1 DEF Arguments
    <3>3. "use" \in Programs /\ Program("use")[1] = "read_mode"
      BY ProgramSteps DEF Programs
    <3>4. Program("use")[1] \notin UsesMode \cup Reads \cup
            {"assign_max", "set_separate", "clear_separate", "set_custom", "clear_custom"}
      BY <3>3 DEF UsesMode, Reads
    <3>5. Undisturbed => ~env.universal
      BY <1>2, <2>3
    <3> QED BY <1>1, <3>1, <3>2, <3>3, <3>4, <3>5, StartPlaces
  <2> QED BY <2>2, <2>3
<1>4. CASE SetFanAuto(c)
  <2> DEFINE args == <<"auto">>
  <2>1. CASE universal
    <3>1. Start(c, args, Program("auto"))
      BY <1>4, <2>1 DEF SetFanAuto, Begin, Program
    <3> HIDE DEF args
    <3>2. Arguments(c, "auto", 1)'
      BY DEF Arguments, SetsSpeed
    <3>3. "auto" \in Programs /\ Program("auto")[1] = "read_custom"
      BY ProgramSteps DEF Programs
    <3>4. Program("auto")[1] \notin UsesMode \cup Reads \cup
            {"assign_max", "set_separate", "clear_separate", "set_custom", "clear_custom"}
      BY <3>3 DEF UsesMode, Reads
    <3>5. Undisturbed => env.universal
      BY <1>2, <2>1
    <3> QED BY <1>1, <3>1, <3>2, <3>3, <3>4, <3>5, StartPlaces
  <2>2. CASE ~universal
    <3>1. Start(c, args, Program("leave"))
      BY <1>4, <2>2 DEF SetFanAuto, Begin, Program
    <3> HIDE DEF args
    <3>2. Arguments(c, "leave", 1)'
      BY DEF Arguments, SetsSpeed
    <3>3. "leave" \in Programs /\ Program("leave")[1] = "read_mode"
      BY ProgramSteps DEF Programs
    <3>4. Program("leave")[1] \notin UsesMode \cup Reads \cup
            {"assign_max", "set_separate", "clear_separate", "set_custom", "clear_custom"}
      BY <3>3 DEF UsesMode, Reads
    <3>5. Undisturbed => ~env.universal
      BY <1>2, <2>2
    <3> QED BY <1>1, <3>1, <3>2, <3>3, <3>4, <3>5, StartPlaces
  <2> QED BY <2>1, <2>2
<1>5. ASSUME NEW p \in 1 .. 3, SetProfile(c, p) PROVE Placed(c)' /\ FansInv'
  <2> DEFINE args == <<"profile", p>>
  <2>1. args[2] = p /\ Start(c, args, Program("profile"))
    BY <1>5 DEF SetProfile, Begin, Program
  <2> HIDE DEF args
  <2>2. call'[c] = args => Arguments(c, "profile", 1)'
    BY <2>1 DEF Arguments, SetsSpeed
  <2>3. "profile" \in Programs /\ Program("profile")[1] = "read_mode"
    BY ProgramSteps DEF Programs
  <2>4. Program("profile")[1] \notin UsesMode \cup Reads \cup
          {"assign_max", "set_separate", "clear_separate", "set_custom", "clear_custom"}
    BY <2>3 DEF UsesMode, Reads
  <2>5. "profile" \in Unmoved
    BY DEF Unmoved
  <2> QED BY <1>1, <2>1, <2>2, <2>3, <2>4, <2>5, StartPlaces
<1>6. CASE SetMode(c)
  <2> DEFINE args == <<"mode">>
  <2>1. args[1] = "mode"
    OBVIOUS
  <2>2. Start(c, args, Program("mode")) /\ ~Undisturbed
    BY <1>6 DEF SetMode, Begin, Program, Undisturbed
  <2> HIDE DEF args
  <2>3. call'[c] = args => Arguments(c, "mode", 1)'
    BY <2>1 DEF Arguments, SetsSpeed
  <2>4. "mode" \in Programs /\ Program("mode")[1] = "write_mode"
    BY ProgramSteps DEF Programs
  <2>5. Program("mode")[1] \notin UsesMode \cup Reads \cup
          {"assign_max", "set_separate", "clear_separate", "set_custom", "clear_custom"}
    BY <2>4 DEF UsesMode, Reads
  <2> QED BY <1>1, <2>2, <2>3, <2>4, <2>5, StartPlaces
<1> QED BY <1>3, <1>4, <1>5, <1>6 DEF FanCall

-----------------------------------------------------------------------------
(***************************************************************************)
(* Steps of the other calls                                                *)
(***************************************************************************)

IoTypes ==
  /\ feats \in [model : Models \cup {Unknown}, charging_prio : BOOLEAN,
                charging_profile : BOOLEAN]
  /\ {feats_loaded, uw_feats} \subseteq BOOLEAN
  /\ {tdp_min_defs, tdp_max_defs} \subseteq Tables
  /\ tdp \in [Indices -> 0 .. 255 \cup {Factory}]
  /\ webcam \in 0 .. 1 /\ asked \subseteq 0 .. 1
  /\ firmware \in [Methods -> Nat] /\ firmware["profile"] \in 0 .. 255

IoPrograms == {"features", "fill", "identify", "fill_identify", "tdp", "limits",
               "webcam", "forward"}

\* Once the features are there they are those of the machine.
LEMMA IoStepKeepsFans ==
  ASSUME FansInv, LoadedFeaturesAreRight', UNCHANGED fans,
         Undisturbed => Steady, Undisturbed /\ uw_feats' => feats_loaded'
  PROVE  FansInv'
<1>1. UNCHANGED <<env, mode, separate, custom, table, direct, fans_initialized, wanted, chosen>>
  BY DEF fans, registers
<1>2. ASSUME Undisturbed PROVE FansInv'
  <2>1. uw_feats' => feats_loaded' /\ universal' = env.universal
    BY <1>1, <1>2 DEF LoadedFeaturesAreRight, CacheIsSafe, Undisturbed
  <2>2. Steady'
    <3>1. Steady
      BY <1>2
    <3> QED BY <1>1, <3>1, Zenon DEF Steady, InUse
  <2> QED BY <1>1, <1>2, <2>1, <2>2 DEF FansInv
<1>3. ASSUME ~Undisturbed PROVE FansInv'
  BY <1>1, <1>3 DEF FansInv, Undisturbed
<1> QED BY <1>2, <1>3

\* Steps that read for the fans.
FanUses == UsesMode \cup {"set_separate", "clear_separate", "set_custom", "clear_custom"}

\* Steps that do not set the fans leave what is known of them as it is.
LEMMA IoReliable ==
  ASSUME NEW c \in Callers, NEW p \in IoPrograms, NEW n, NEW q \in IoPrograms, NEW m,
         Reliable(c, p, n), UNCHANGED fans, Program(q)[m] \notin FanUses,
         (q = "identify" /\ m > 1) \/ (q = "fill_identify" /\ m > 5) => feats_loaded'
  PROVE  Reliable(c, q, m)'
<1>1. Steady'
  <2>1. UNCHANGED <<env, mode, separate, custom, fans_initialized, wanted>>
    BY DEF fans, registers
  <2>2. Steady
    BY DEF Reliable, IoPrograms, Unmoved
  <2> QED BY <2>1, <2>2, Zenon DEF Steady, InUse
<1>2. /\ q # "mode" /\ q \notin {"check", "set", "auto", "use", "fan", "both", "leave"}
      /\ Program(q)[m] \notin UsesMode
      /\ Program(q)[m] \notin {"set_separate", "clear_separate", "set_custom", "clear_custom"}
  BY DEF IoPrograms, FanUses
<1> QED BY <1>1, <1>2 DEF Reliable

\* Like Advances, for a step that does not set the fans.
LEMMA IoAdvances ==
  ASSUME CallsInv, NEW c \in Callers, NEW p \in IoPrograms, NEW n \in 1 .. 10, Place(c, p, n),
         NEW d, ProceedWith(c, d), n # Len(Program(p)), UNCHANGED fans,
         NEW y, Program(p)[n + 1] = y, Learned(y, d), y \notin FanUses,
         Undisturbed /\ ((p = "identify" /\ n + 1 > 1) \/ (p = "fill_identify" /\ n + 1 > 5)) =>
           feats_loaded'
  PROVE  Placed(c)'
<1>1. p \in Programs /\ p # "check" /\ env' = env
  BY DEF IoPrograms, Programs, fans
<1>2. ASSUME Undisturbed PROVE Reliable(c, p, n + 1)'
  <2>1. Reliable(c, p, n)
    BY <1>2 DEF Place
  <2> QED BY <1>2, <2>1, IoReliable
<1> QED BY <1>1, <1>2, Advances

\* What is common to all these steps.
LEMMA IoPlace ==
  ASSUME FansSoFar, NEW c \in Callers, NEW x, At(c, x)
  PROVE  \E p \in Programs : \E n \in 1 .. 10 :
           /\ Place(c, p, n) /\ IsAt(x, p, n) /\ Program(p)[n] = x
           /\ Arguments(c, p, n) /\ Found(c, p, n)
           /\ Undisturbed => Reliable(c, p, n)
<1>1. PICK p \in Programs, n \in 1 .. 10 : Place(c, p, n)
  BY DEF FansSoFar, PlacesInv, At
<1>2. IsAt(x, p, n) /\ Program(p)[n] = x
  BY <1>1, LeftAt DEF FansSoFar, Place
<1> QED BY <1>1, <1>2 DEF Place

\* Reads of the features, which may fail.
LEMMA FeatureReadPlaces ==
  ASSUME FansSoFar, IoTypes, LoadedFeaturesAreRight', NEW c \in Callers, FeatureRead(c)
  PROVE  Placed(c)' /\ FansInv' /\ FanTypes' /\ IoTypes'
<1> CallsInv /\ FansInv /\ FanTypes
  BY DEF FansSoFar
<1>1. PICK x \in {"read_model", "read_priority", "read_profile", "read_ecfans"} : At(c, x)
  BY DEF FeatureRead, ReadModel, ReadPriority, ReadProfile, ReadEcFans
<1>2. PICK p \in Programs, n \in 1 .. 10 :
        /\ Place(c, p, n) /\ IsAt(x, p, n) /\ Program(p)[n] = x
        /\ Arguments(c, p, n) /\ Found(c, p, n)
        /\ Undisturbed => Reliable(c, p, n)
  BY <1>1, IoPlace
<1>3. p \in {"fill", "fill_identify"} /\ n \in 1 .. 4
  BY <1>2 DEF IsAt
<1>4. PICK failed \in BOOLEAN : Fails(c, failed)
  BY Zenon DEF FeatureRead, ReadModel, ReadPriority, ReadProfile, ReadEcFans
<1> DEFINE d == [complete |-> data[c].complete /\ ~failed]
<1>5. /\ ProceedWith(c, d) /\ UNCHANGED fans
      /\ UNCHANGED <<machine, feats_loaded, uw_feats, limits, tdp, clevo>>
  BY <1>4 DEF Fails
<1>6. d.complete \in BOOLEAN
  OBVIOUS
<1> HIDE DEF d
<1>7. PICK y \in Reads : Program(p)[n + 1] = y /\ n # Len(Program(p))
  BY <1>3, ProgramSteps DEF Reads
<1>8. Learned(y, d) /\ y \notin FanUses
  BY <1>6 DEF Learned, Reads, UsesMode, FanUses
<1>9. Placed(c)'
  <2>1. ~(p = "identify" /\ n + 1 > 1) /\ ~(p = "fill_identify" /\ n + 1 > 5)
    BY <1>3
  <2>2. p \in IoPrograms
    BY <1>3 DEF IoPrograms
  <2>3. Place(c, p, n) /\ Program(p)[n + 1] = y /\ n # Len(Program(p))
    BY <1>2, <1>7
  <2> QED BY <1>5, <1>8, <2>1, <2>2, <2>3, IoAdvances
<1>10. FansInv'
  <2>1. Undisturbed => Steady
    BY <1>2, <1>3 DEF Reliable, Unmoved
  <2>2. Undisturbed /\ uw_feats' => feats_loaded'
    BY <1>5 DEF FansInv
  <2> QED BY <1>5, <2>1, <2>2, IoStepKeepsFans
<1>11. MachineTypes
  BY MachineIsTyped
<1>12. FanTypes' /\ IoTypes'
  <2>1. universal' \in BOOLEAN
    BY <1>11 DEF FeatureRead, ReadModel, ReadPriority, ReadProfile, ReadEcFans, FanTypes,
                 MachineTypes
  <2>2. UNCHANGED <<env, mode, separate, custom, table, direct, fans_initialized, wanted, chosen>>
    BY <1>5 DEF fans, registers
  <2>3. feats' \in [model : Models \cup {Unknown}, charging_prio : BOOLEAN,
                    charging_profile : BOOLEAN]
    <3>1. CASE ReadModel(c)
      BY <1>11, <3>1 DEF ReadModel, IoTypes, MachineTypes
    <3>2. CASE ReadPriority(c)
      BY <1>11, <3>2 DEF ReadPriority, IoTypes, MachineTypes
    <3>3. CASE ReadProfile(c)
      BY <1>11, <3>3 DEF ReadProfile, IoTypes, MachineTypes
    <3>4. CASE ReadEcFans(c)
      BY <3>4 DEF ReadEcFans, IoTypes
    <3> QED BY <3>1, <3>2, <3>3, <3>4 DEF FeatureRead
  <2>4. UNCHANGED <<feats_loaded, uw_feats, tdp_min_defs, tdp_max_defs, tdp, webcam, firmware,
                    asked>>
    BY <1>5 DEF limits, clevo
  <2> QED BY <2>1, <2>2, <2>3, <2>4 DEF FanTypes, IoTypes
<1> QED BY <1>9, <1>10, <1>12

\* Steps that change nothing but the call's own, and the machine's part of the
\* state where it says so.
LEMMA FanTypesKept ==
  ASSUME FanTypes, UNCHANGED fans, universal' = universal
  PROVE  FanTypes'
<1>1. UNCHANGED <<env, mode, separate, custom, table, direct, fans_initialized, wanted, chosen>>
  BY DEF fans, registers
<1> QED BY <1>1 DEF FanTypes

\* On an EC that answers all reads have succeeded.
LEMMA SetLoadedPlaces ==
  ASSUME FansSoFar, IoTypes, CacheIsSafe => CacheInv, LoadedFeaturesAreRight',
         NEW c \in Callers, SetLoaded(c)
  PROVE  Placed(c)' /\ FansInv' /\ FanTypes' /\ IoTypes'
<1> CallsInv /\ FansInv /\ FanTypes
  BY DEF FansSoFar
<1>1. /\ At(c, "set_loaded") /\ ProceedWith(c, data[c]) /\ UNCHANGED fans
      /\ feats_loaded' = data[c].complete /\ universal' = universal
      /\ UNCHANGED <<machine, feats, uw_feats, limits, tdp, clevo>>
  BY DEF SetLoaded, Proceed
<1>2. PICK p \in Programs, n \in 1 .. 10 :
        /\ Place(c, p, n) /\ IsAt("set_loaded", p, n) /\ Program(p)[n] = "set_loaded"
        /\ Arguments(c, p, n) /\ Found(c, p, n)
        /\ Undisturbed => Reliable(c, p, n)
  BY <1>1, IoPlace
<1>3. p \in {"fill", "fill_identify"} /\ n = 5
  BY <1>2 DEF IsAt
<1>4. ASSUME Undisturbed PROVE feats_loaded'
  <2>1. NextIs(c, Reads)
    BY <1>1, NextIsHead DEF NextIs, Reads
  <2>2. data[c].complete
    BY <1>4, <2>1 DEF CacheIsSafe, CacheInv, ReadSoFar, Undisturbed
  <2> QED BY <1>1, <2>2
<1>5. Placed(c)'
  <2>1. CASE p = "fill"
    BY <1>1, <1>2, <1>3, <2>1, ProgramSteps, Ends
  <2>2. CASE p = "fill_identify"
    <3>1. Program(p)[5 + 1] = "assign_feats" /\ 5 # Len(Program(p))
      BY <2>2, ProgramSteps
    <3>2. Learned("assign_feats", data[c]) /\ "assign_feats" \notin FanUses
      BY DEF Learned, Reads, UsesMode, FanUses
    <3> QED BY <1>1, <1>2, <1>3, <1>4, <2>2, <3>1, <3>2, IoAdvances DEF IoPrograms
  <2> QED BY <1>3, <2>1, <2>2
<1>6. FansInv'
  <2>1. Undisturbed => Steady
    BY <1>2, <1>3 DEF Reliable, Unmoved
  <2> QED BY <1>1, <1>4, <2>1, IoStepKeepsFans
<1>7. FanTypes' /\ IoTypes'
  <2>1. data[c].complete \in BOOLEAN
    BY <1>2 DEF Found, Reads
  <2>2. UNCHANGED <<tdp_min_defs, tdp_max_defs, webcam, firmware, asked>>
    BY <1>1 DEF limits, clevo
  <2> QED BY <1>1, <2>1, <2>2, FanTypesKept DEF IoTypes
<1> QED BY <1>5, <1>6, <1>7

LEMMA AssignFeatsPlaces ==
  ASSUME FansSoFar, IoTypes, LoadedFeaturesAreRight', NEW c \in Callers, AssignFeats(c)
  PROVE  Placed(c)' /\ FansInv' /\ FanTypes' /\ IoTypes'
<1> CallsInv /\ FansInv /\ FanTypes
  BY DEF FansSoFar
<1>1. /\ At(c, "assign_feats") /\ ProceedWith(c, data[c]) /\ UNCHANGED fans
      /\ uw_feats' = TRUE /\ universal' = universal
      /\ UNCHANGED <<machine, feats, feats_loaded, limits, tdp, clevo>>
  BY DEF AssignFeats, Proceed
<1>2. PICK p \in Programs, n \in 1 .. 10 :
        /\ Place(c, p, n) /\ IsAt("assign_feats", p, n) /\ Program(p)[n] = "assign_feats"
        /\ Arguments(c, p, n) /\ Found(c, p, n)
        /\ Undisturbed => Reliable(c, p, n)
  BY <1>1, IoPlace
<1>3. (p = "identify" /\ n = 2) \/ (p = "fill_identify" /\ n = 6)
  BY <1>2 DEF IsAt
<1>4. ASSUME Undisturbed PROVE feats_loaded' /\ Steady
  BY <1>1, <1>2, <1>3, <1>4 DEF Reliable, Unmoved
<1>5. Placed(c)'
  <2>1. Program(p)[n + 1] = "id_tdp" /\ n # Len(Program(p))
    BY <1>3, ProgramSteps
  <2>2. Learned("id_tdp", data[c]) /\ "id_tdp" \notin FanUses
    BY DEF Learned, Reads, UsesMode, FanUses
  <2> QED BY <1>1, <1>2, <1>3, <1>4, <2>1, <2>2, IoAdvances DEF IoPrograms
<1>6. FansInv'
  BY <1>1, <1>4, IoStepKeepsFans
<1>7. FanTypes' /\ IoTypes'
  <2>1. UNCHANGED <<tdp_min_defs, tdp_max_defs, webcam, firmware, asked>>
    BY <1>1 DEF limits, clevo
  <2> QED BY <1>1, <2>1, FanTypesKept DEF IoTypes
<1> QED BY <1>5, <1>6, <1>7

\* check_loaded goes on with the reads it has inserted.
LEMMA CheckLoadedLeaves ==
  ASSUME CallsInv, NEW c \in Callers, NEW d, Inserts(c, ReadFeatures, d)
  PROVE  /\ Left(todo[c], "features", 1) =>
              Left(todo'[c], "fill", 1) /\ call'[c] = call[c] /\ data'[c] = d
         /\ Left(todo[c], "identify", 1) =>
              Left(todo'[c], "fill_identify", 1) /\ call'[c] = call[c] /\ data'[c] = d
<1> DEFINE s == ReadFeatures
<1>1. /\ Len(s) = 5 /\ s[1] = "read_model" /\ s[2] = "read_priority" /\ s[3] = "read_profile"
      /\ s[4] = "read_ecfans" /\ s[5] = "set_loaded"
  BY DEF ReadFeatures
<1>2. IsList(s)
  BY IoStepsFollow
<1> HIDE DEF s
<1>3. /\ Len(Program("features")) = 1 /\ Len(Program("fill")) = 5
      /\ Len(Program("identify")) = 4 /\ Len(Program("fill_identify")) = 8
      /\ "fill" \in Programs /\ "fill_identify" \in Programs
  BY ProgramSteps DEF Programs
<1>4. ASSUME NEW i \in 1 .. 5
      PROVE  s[i] = Program("fill")[1 + i - 1] /\ s[i] = Program("fill_identify")[1 + i - 1]
  <2>1. 1 + i - 1 = i
    OBVIOUS
  <2>2. s[i] = Program("fill")[i] /\ s[i] = Program("fill_identify")[i]
    BY <1>1, ProgramSteps
  <2> QED BY <2>1, <2>2
<1>5. Joins(s, "features", 1, "fill", 1)
  <2>1. 5 + (1 - 1) = 5 - 1 + 1 /\ 1 \in 1 .. 5
    OBVIOUS
  <2>2. \A i \in 1 .. 1 - 1 : Program("features")[1 + i] = Program("fill")[1 + 5 + i - 1]
    OBVIOUS
  <2> QED BY <1>1, <1>3, <1>4, <2>1, <2>2 DEF Joins
<1>6. Joins(s, "identify", 1, "fill_identify", 1)
  <2>1. 5 + (4 - 1) = 8 - 1 + 1 /\ 1 \in 1 .. 8
    OBVIOUS
  <2>2. \A i \in 1 .. 4 - 1 :
          Program("identify")[1 + i] = Program("fill_identify")[1 + 5 + i - 1]
    BY ProgramSteps
  <2> QED BY <1>1, <1>3, <1>4, <2>1, <2>2 DEF Joins
<1>7. Inserts(c, s, d) /\ ListsInv(IoAfter)
  BY DEF s, CallsInv
<1> QED BY <1>2, <1>5, <1>6, <1>7, InsertLeaves

LEMMA CheckLoadedPlaces ==
  ASSUME FansSoFar, IoTypes, LoadedFeaturesAreRight', NEW c \in Callers, CheckLoaded(c)
  PROVE  Placed(c)' /\ FansInv' /\ FanTypes' /\ IoTypes'
<1> CallsInv /\ FansInv /\ FanTypes
  BY DEF FansSoFar
<1>1. /\ At(c, "check_loaded") /\ UNCHANGED fans
      /\ universal' = universal /\ UNCHANGED ioVars
  BY DEF CheckLoaded
<1>2. PICK p \in Programs, n \in 1 .. 10 :
        /\ Place(c, p, n) /\ IsAt("check_loaded", p, n) /\ Program(p)[n] = "check_loaded"
        /\ Arguments(c, p, n) /\ Found(c, p, n)
        /\ Undisturbed => Reliable(c, p, n)
  BY <1>1, IoPlace
<1>3. p \in {"features", "identify"} /\ n = 1
  BY <1>2 DEF IsAt
<1>4. UNCHANGED <<machine, feats, feats_loaded, uw_feats, tdp_min_defs, tdp_max_defs, tdp,
                  webcam, firmware, asked>>
  BY <1>1 DEF ioVars, features, limits, clevo
<1>5. ASSUME feats_loaded PROVE Placed(c)'
  <2>1. ProceedWith(c, data[c])
    BY <1>5 DEF CheckLoaded, Proceed
  <2>2. CASE p = "features"
    BY <1>2, <1>3, <2>1, <2>2, ProgramSteps, Ends
  <2>3. CASE p = "identify"
    <3>1. Program(p)[1 + 1] = "assign_feats" /\ 1 # Len(Program(p))
      BY <2>3, ProgramSteps
    <3>2. Learned("assign_feats", data[c]) /\ "assign_feats" \notin FanUses
      BY DEF Learned, Reads, UsesMode, FanUses
    <3>3. feats_loaded' /\ p \in IoPrograms
      BY <1>4, <1>5, <2>3 DEF IoPrograms
    <3>4. Place(c, p, 1)
      BY <1>2, <1>3
    <3>5. Placed(c)'
      BY <1>1, <2>1, <3>1, <3>2, <3>3, <3>4, IoAdvances
    <3> QED BY <3>5
  <2>4. Placed(c)'
    BY <1>3, <2>2, <2>3
  <2> QED BY <2>4
<1>6. ASSUME ~feats_loaded PROVE Placed(c)'
  <2> DEFINE d == [complete |-> TRUE]
  <2>1. Inserts(c, ReadFeatures, d)
    BY <1>6 DEF CheckLoaded, Inserts, ReadFeatures
  <2>2. d.complete \in BOOLEAN
    OBVIOUS
  <2> HIDE DEF d
  <2> DEFINE q == IF p = "features" THEN "fill" ELSE "fill_identify"
  <2>3. Left(todo'[c], q, 1) /\ call'[c] = call[c] /\ data'[c] = d
    BY <1>2, <1>3, <2>1, CheckLoadedLeaves DEF Place
  <2>4. /\ q \in {"fill", "fill_identify"} /\ q \in Programs /\ q \in IoPrograms
        /\ p \in IoPrograms /\ Program(q)[1] = "read_model"
    BY <1>3, ProgramSteps DEF Programs, IoPrograms
  <2> HIDE DEF q
  <2>5. Learned("read_model", d) /\ "read_model" \notin FanUses
    BY <2>2 DEF Learned, UsesMode, FanUses
  <2>6. ASSUME Undisturbed PROVE Reliable(c, q, 1)'
    <3>1. Reliable(c, p, 1)
      BY <1>2, <1>3, <2>6
    <3> QED BY <1>1, <2>4, <2>5, <3>1, IoReliable
  <2>7. env' = env /\ q # "check" /\ q \notin SetsSpeed /\ q # "limits"
    BY <1>1, <2>4 DEF fans, SetsSpeed
  <2> QED BY <1>2, <2>3, <2>4, <2>5, <2>6, <2>7, Diverts
<1>7. FansInv'
  <2>1. Undisturbed => Steady
    BY <1>2, <1>3 DEF Reliable, Unmoved
  <2>2. Undisturbed /\ uw_feats' => feats_loaded'
    BY <1>4 DEF FansInv
  <2> QED BY <1>1, <2>1, <2>2, IoStepKeepsFans
<1>8. FanTypes' /\ IoTypes'
  BY <1>1, <1>4, FanTypesKept DEF IoTypes
<1> QED BY <1>5, <1>6, <1>7, <1>8

\* check_min goes on with the limits it has inserted.
LEMMA CheckMinLeaves ==
  ASSUME CallsInv, NEW c \in Callers, Insert(c, UseLimits), Left(todo[c], "tdp", 1)
  PROVE  Left(todo'[c], "limits", 1) /\ call'[c] = call[c] /\ data'[c] = data[c]
<1> DEFINE s == UseLimits
<1>1. Len(s) = 3 /\ s[1] = "read_min" /\ s[2] = "read_max" /\ s[3] = "write_tdp"
  BY DEF UseLimits
<1>2. IsList(s) /\ Inserts(c, s, data[c])
  BY InsertIsInserts, IoStepsFollow
<1> HIDE DEF s
<1>3. Len(Program("tdp")) = 1 /\ Len(Program("limits")) = 3 /\ "limits" \in Programs
  BY ProgramSteps DEF Programs
<1>4. ASSUME NEW i \in 1 .. 3 PROVE s[i] = Program("limits")[1 + i - 1]
  <2>1. 1 + i - 1 = i
    OBVIOUS
  <2>2. s[i] = Program("limits")[i]
    BY <1>1, ProgramSteps
  <2> QED BY <2>1, <2>2
<1>5. Joins(s, "tdp", 1, "limits", 1)
  <2>1. 3 + (1 - 1) = 3 - 1 + 1 /\ 1 \in 1 .. 3
    OBVIOUS
  <2>2. \A i \in 1 .. 1 - 1 : Program("tdp")[1 + i] = Program("limits")[1 + 3 + i - 1]
    OBVIOUS
  <2> QED BY <1>1, <1>3, <1>4, <2>1, <2>2 DEF Joins
<1> QED BY <1>2, <1>5, InsertLeaves DEF CallsInv

LEMMA CheckMinPlaces ==
  ASSUME FansSoFar, IoTypes, LoadedFeaturesAreRight', NEW c \in Callers, CheckMin(c)
  PROVE  Placed(c)' /\ FansInv' /\ FanTypes' /\ IoTypes'
<1> CallsInv /\ FansInv /\ FanTypes
  BY DEF FansSoFar
<1>1. /\ At(c, "check_min") /\ UNCHANGED fans
      /\ universal' = universal /\ UNCHANGED ioVars
  BY DEF CheckMin
<1>2. PICK p \in Programs, n \in 1 .. 10 :
        /\ Place(c, p, n) /\ IsAt("check_min", p, n) /\ Program(p)[n] = "check_min"
        /\ Arguments(c, p, n) /\ Found(c, p, n)
        /\ Undisturbed => Reliable(c, p, n)
  BY <1>1, IoPlace
<1>3. p = "tdp" /\ n = 1
  BY <1>2 DEF IsAt
<1>4. UNCHANGED <<machine, feats, feats_loaded, uw_feats, tdp_min_defs, tdp_max_defs, tdp,
                  webcam, firmware, asked>>
  BY <1>1 DEF ioVars, features, limits, clevo
<1>5. ASSUME Limit(tdp_min_defs, "min", call[c][2]) < 0 PROVE Placed(c)'
  <2>1. ProceedWith(c, data[c])
    BY <1>5 DEF CheckMin, Proceed
  <2> QED BY <1>2, <1>3, <2>1, ProgramSteps, Ends
<1>6. ASSUME ~(Limit(tdp_min_defs, "min", call[c][2]) < 0) PROVE Placed(c)'
  <2>1. Insert(c, UseLimits)
    BY <1>6 DEF CheckMin, UseLimits
  <2>2. Left(todo'[c], "limits", 1) /\ call'[c] = call[c] /\ data'[c] = data[c]
    BY <1>2, <1>3, <2>1, CheckMinLeaves DEF Place
  <2>3. /\ "limits" \in Programs /\ "limits" \in IoPrograms /\ "tdp" \in IoPrograms
        /\ Program("limits")[1] = "read_min" /\ env' = env /\ "limits" \notin SetsSpeed
    BY <1>1, ProgramSteps DEF Programs, IoPrograms, fans, SetsSpeed
  <2>4. Learned("read_min", data[c]) /\ "read_min" \notin FanUses
    BY DEF Learned, UsesMode, FanUses, Reads
  <2>5. ASSUME Undisturbed PROVE Reliable(c, "limits", 1)'
    <3>1. Reliable(c, "tdp", 1)
      BY <1>2, <1>3, <2>5
    <3> QED BY <1>1, <2>3, <2>4, <3>1, IoReliable
  <2> QED BY <1>2, <1>3, <2>2, <2>3, <2>4, <2>5, Diverts
<1>7. FansInv'
  <2>1. Undisturbed => Steady
    BY <1>2, <1>3 DEF Reliable, Unmoved
  <2>2. Undisturbed /\ uw_feats' => feats_loaded'
    BY <1>4 DEF FansInv
  <2> QED BY <1>1, <2>1, <2>2, IoStepKeepsFans
<1>8. FanTypes' /\ IoTypes'
  BY <1>1, <1>4, FanTypesKept DEF IoTypes
<1> QED BY <1>5, <1>6, <1>7, <1>8

\* Calls that begin without asking for the fans.
LEMMA IoStartPlaces ==
  ASSUME FansSoFar, CallsInv', NEW c \in Callers, NEW p \in IoPrograms, NEW args,
         BeginIo(c, args, Program(p)), UNCHANGED <<uw_feats, feats_loaded>>,
         call'[c] = args => Arguments(c, p, 1)',
         p \in {"features", "identify", "tdp", "webcam", "forward"}
  PROVE  Placed(c)' /\ FansInv' /\ FanTypes'
<1> CallsInv /\ FansInv /\ FanTypes
  BY DEF FansSoFar
<1>1. Start(c, args, Program(p))
  BY DEF BeginIo
<1>2. p \in Programs /\ p \in Unmoved /\ p # "fill_identify"
  BY DEF IoPrograms, Programs, Unmoved
<1>3. Program(p)[1] \in {"check_loaded", "check_min", "get_webcam", "evaluate"}
  BY ProgramSteps
<1>4. Program(p)[1] \notin UsesMode \cup Reads \cup
        {"assign_max", "set_separate", "clear_separate", "set_custom", "clear_custom"}
  BY <1>3 DEF UsesMode, Reads
<1>5. p # "check" /\ p # "set" /\ p # "auto" /\ p # "use" /\ p # "leave" /\ p # "both" /\ p # "fan"
  BY DEF IoPrograms
<1>6. Placed(c)' /\ FansInv'
  BY <1>1, <1>2, <1>4, <1>5, StartPlaces
<1>7. FanTypes'
  BY <1>1 DEF Start, registers, FanTypes
<1> QED BY <1>6, <1>7

\* The other calls, as they begin.
LEMMA IoStartsPlace ==
  ASSUME FansSoFar, IoTypes, NEW c \in Callers,
         \/ GetFeatures(c) \/ Identify(c)
         \/ \E i \in Indices, a \in TdpArguments : SetTdp(c, i, a)
         \/ \E a \in Settings : SwitchWebcam(c, a)
         \/ \E m \in Methods, a \in Settings : Forward(c, m, a)
  PROVE  Placed(c)' /\ FansInv' /\ FanTypes' /\ IoTypes'
<1>1. CallsInv'
  BY CallsStep DEF IoStep, FeatureStep, TdpStep, ClevoStep, FansSoFar
<1>2. TdpArguments \subseteq Nat /\ Settings \subseteq Nat
  BY IoAssumption
<1>3. CASE GetFeatures(c)
  <2>1. BeginIo(c, <<"features">>, Program("features")) /\ UNCHANGED ioVars
    BY <1>3 DEF GetFeatures, Program
  <2>2. Arguments(c, "features", 1)'
    BY DEF Arguments, SetsSpeed
  <2>3. UNCHANGED <<uw_feats, feats_loaded>> /\ IoTypes' /\ "features" \in IoPrograms
    BY <2>1 DEF ioVars, features, limits, clevo, IoTypes, IoPrograms
  <2> QED BY <1>1, <2>1, <2>2, <2>3, IoStartPlaces
<1>4. CASE Identify(c)
  <2>1. BeginIo(c, <<"identify">>, Program("identify")) /\ UNCHANGED ioVars
    BY <1>4 DEF Identify, Program
  <2>2. Arguments(c, "identify", 1)'
    BY DEF Arguments, SetsSpeed
  <2>3. UNCHANGED <<uw_feats, feats_loaded>> /\ IoTypes' /\ "identify" \in IoPrograms
    BY <2>1 DEF ioVars, features, limits, clevo, IoTypes, IoPrograms
  <2> QED BY <1>1, <2>1, <2>2, <2>3, IoStartPlaces
<1>5. ASSUME NEW i \in Indices, NEW a \in TdpArguments, SetTdp(c, i, a)
      PROVE  Placed(c)' /\ FansInv' /\ FanTypes' /\ IoTypes'
  <2> DEFINE args == <<"tdp", i, a % 256>>
  <2>1. BeginIo(c, args, Program("tdp")) /\ UNCHANGED ioVars
    BY <1>5 DEF SetTdp, Program
  <2>2. args[2] \in Indices /\ args[3] \in 0 .. 255
    BY <1>2
  <2> HIDE DEF args
  <2>3. call'[c] = args => Arguments(c, "tdp", 1)'
    BY <2>2 DEF Arguments, SetsSpeed
  <2>4. UNCHANGED <<uw_feats, feats_loaded>> /\ IoTypes' /\ "tdp" \in IoPrograms
    BY <2>1 DEF ioVars, features, limits, clevo, IoTypes, IoPrograms
  <2> QED BY <1>1, <2>1, <2>3, <2>4, IoStartPlaces
<1>6. ASSUME NEW a \in Settings, SwitchWebcam(c, a)
      PROVE  Placed(c)' /\ FansInv' /\ FanTypes' /\ IoTypes'
  <2> DEFINE args == <<"webcam", a % 2>>
  <2>1. /\ BeginIo(c, args, Program("webcam"))
        /\ asked' = (IF Quiescent THEN {} ELSE asked) \cup {a % 2}
        /\ UNCHANGED <<machine, features, limits, tdp, webcam, firmware>>
    BY <1>6 DEF SwitchWebcam, Program
  <2>2. args[2] \in 0 .. 1 /\ a % 2 \in 0 .. 1
    BY <1>2
  <2> HIDE DEF args
  <2>3. call'[c] = args => Arguments(c, "webcam", 1)'
    BY <2>2 DEF Arguments, SetsSpeed
  <2>4. UNCHANGED <<uw_feats, feats_loaded>> /\ IoTypes' /\ "webcam" \in IoPrograms
    BY <2>1, <2>2 DEF features, limits, IoTypes, IoPrograms
  <2> QED BY <1>1, <2>1, <2>3, <2>4, IoStartPlaces
<1>7. ASSUME NEW m \in Methods, NEW a \in Settings, Forward(c, m, a)
      PROVE  Placed(c)' /\ FansInv' /\ FanTypes' /\ IoTypes'
  <2> DEFINE args == <<"forward", m, a>>
  <2>1. BeginIo(c, args, Program("forward")) /\ UNCHANGED ioVars
    BY <1>7 DEF Forward, Program
  <2>2. args[2] \in Methods /\ args[3] \in Nat
    BY <1>2
  <2> HIDE DEF args
  <2>3. call'[c] = args => Arguments(c, "forward", 1)'
    BY <2>2 DEF Arguments, SetsSpeed
  <2>4. UNCHANGED <<uw_feats, feats_loaded>> /\ IoTypes' /\ "forward" \in IoPrograms
    BY <2>1 DEF ioVars, features, limits, clevo, IoTypes, IoPrograms
  <2> QED BY <1>1, <2>1, <2>3, <2>4, IoStartPlaces
<1> QED BY <1>3, <1>4, <1>5, <1>6, <1>7

\* The remaining steps: what they change has the right type and is none of the
\* fans.
LEMMA IdTdpPlaces ==
  ASSUME FansSoFar, IoTypes, LoadedFeaturesAreRight', NEW c \in Callers, IdTdp(c)
  PROVE  Placed(c)' /\ FansInv' /\ FanTypes' /\ IoTypes'
<1> CallsInv /\ FansInv /\ FanTypes
  BY DEF FansSoFar
<1>1. /\ At(c, "id_tdp") /\ UNCHANGED fans /\ universal' = universal
      /\ UNCHANGED <<feats, feats_loaded, uw_feats, tdp_max_defs, tdp, webcam, firmware,
                     asked>>
      /\ tdp_min_defs' = TableOf(feats.model, machine.sku)
      /\ ProceedWith(c, [table |-> TableOf(feats.model, machine.sku)])
  BY DEF IdTdp, Proceed, ioVars, features, limits, clevo
<1>2. PICK p \in Programs, n \in 1 .. 10 :
        /\ Place(c, p, n) /\ IsAt("id_tdp", p, n) /\ Program(p)[n] = "id_tdp"
        /\ Arguments(c, p, n) /\ Found(c, p, n)
        /\ Undisturbed => Reliable(c, p, n)
  BY <1>1, IoPlace
<1>3. (p = "identify" /\ n = 3) \/ (p = "fill_identify" /\ n = 7)
  BY <1>2 DEF IsAt
<1>4. TableOf(feats.model, machine.sku) \in Tables
  <2>1. feats.model \in Models \cup {Unknown} /\ machine.sku \in Skus \cup {Unknown}
    BY MachineIsTyped DEF IoTypes, MachineTypes
  <2> QED BY <2>1 DEF TableOf, Tables
<1>5. Placed(c)'
  <2> DEFINE d == [table |-> TableOf(feats.model, machine.sku)]
  <2>1. d.table \in Tables /\ ProceedWith(c, d)
    BY <1>1, <1>4
  <2> HIDE DEF d
  <2>2. Program(p)[n + 1] = "assign_max" /\ n # Len(Program(p)) /\ p \in IoPrograms
    BY <1>3, ProgramSteps DEF IoPrograms
  <2>3. Learned("assign_max", d) /\ "assign_max" \notin FanUses
    BY <2>1 DEF Learned, Reads, UsesMode, FanUses
  <2>4. Undisturbed => feats_loaded'
    BY <1>1, <1>2, <1>3 DEF Reliable
  <2> QED BY <1>1, <1>2, <2>1, <2>2, <2>3, <2>4, IoAdvances
<1>6. FansInv'
  <2>1. Undisturbed => Steady
    BY <1>2, <1>3 DEF Reliable, Unmoved
  <2>2. Undisturbed /\ uw_feats' => feats_loaded'
    BY <1>1 DEF FansInv
  <2> QED BY <1>1, <2>1, <2>2, IoStepKeepsFans
<1>7. FanTypes' /\ IoTypes'
  BY <1>1, <1>4, FanTypesKept DEF IoTypes
<1> QED BY <1>5, <1>6, <1>7

LEMMA AssignMaxPlaces ==
  ASSUME FansSoFar, IoTypes, LoadedFeaturesAreRight', NEW c \in Callers, AssignMax(c)
  PROVE  Placed(c)' /\ FansInv' /\ FanTypes' /\ IoTypes'
<1> CallsInv /\ FansInv /\ FanTypes
  BY DEF FansSoFar
<1>1. /\ At(c, "assign_max") /\ UNCHANGED fans /\ universal' = universal
      /\ UNCHANGED <<feats, feats_loaded, uw_feats, tdp_min_defs, tdp, webcam, firmware,
                     asked>>
      /\ tdp_max_defs' = data[c].table /\ ProceedWith(c, data[c])
  BY DEF AssignMax, Proceed, ioVars, features, limits, clevo
<1>2. PICK p \in Programs, n \in 1 .. 10 :
        /\ Place(c, p, n) /\ IsAt("assign_max", p, n) /\ Program(p)[n] = "assign_max"
        /\ Arguments(c, p, n) /\ Found(c, p, n)
        /\ Undisturbed => Reliable(c, p, n)
  BY <1>1, IoPlace
<1>3. (p = "identify" /\ n = 4) \/ (p = "fill_identify" /\ n = 8)
  BY <1>2 DEF IsAt
<1>4. data[c].table \in Tables
  BY <1>2 DEF Found
<1>5. Placed(c)'
  <2>1. n = Len(Program(p))
    BY <1>3, ProgramSteps
  <2> QED BY <1>1, <1>2, <2>1, Ends
<1>6. FansInv'
  <2>1. Undisturbed => Steady
    BY <1>2, <1>3 DEF Reliable, Unmoved
  <2>2. Undisturbed /\ uw_feats' => feats_loaded'
    BY <1>1 DEF FansInv
  <2> QED BY <1>1, <2>1, <2>2, IoStepKeepsFans
<1>7. FanTypes' /\ IoTypes'
  BY <1>1, <1>4, FanTypesKept DEF IoTypes
<1> QED BY <1>5, <1>6, <1>7

LEMMA ReadMinPlaces ==
  ASSUME FansSoFar, IoTypes, LoadedFeaturesAreRight', NEW c \in Callers, ReadMin(c)
  PROVE  Placed(c)' /\ FansInv' /\ FanTypes' /\ IoTypes'
<1> CallsInv /\ FansInv /\ FanTypes
  BY DEF FansSoFar
<1>1. /\ At(c, "read_min") /\ UNCHANGED fans /\ universal' = universal
      /\ UNCHANGED <<feats, feats_loaded, uw_feats, tdp_min_defs, tdp_max_defs, tdp,
                     webcam, firmware, asked>>
  BY DEF ReadMin, Proceed, ioVars, features, limits, clevo
<1>2. PICK p \in Programs, n \in 1 .. 10 :
        /\ Place(c, p, n) /\ IsAt("read_min", p, n) /\ Program(p)[n] = "read_min"
        /\ Arguments(c, p, n) /\ Found(c, p, n)
        /\ Undisturbed => Reliable(c, p, n)
  BY <1>1, IoPlace
<1>3. p = "limits" /\ n = 1
  BY <1>2 DEF IsAt
<1>4. PICK d : ProceedWith(c, d)
  BY DEF ReadMin
<1>5. Placed(c)'
  <2>1. Program(p)[1 + 1] = "read_max" /\ 1 # Len(Program(p)) /\ p \in IoPrograms
    BY <1>3, ProgramSteps DEF IoPrograms
  <2>2. Learned("read_max", d) /\ "read_max" \notin FanUses
    BY DEF Learned, Reads, UsesMode, FanUses
  <2> QED BY <1>1, <1>2, <1>3, <1>4, <2>1, <2>2, IoAdvances
<1>6. FansInv'
  <2>1. Undisturbed => Steady
    BY <1>2, <1>3 DEF Reliable, Unmoved
  <2>2. Undisturbed /\ uw_feats' => feats_loaded'
    BY <1>1 DEF FansInv
  <2> QED BY <1>1, <2>1, <2>2, IoStepKeepsFans
<1>7. FanTypes' /\ IoTypes'
  BY <1>1, FanTypesKept DEF IoTypes
<1> QED BY <1>5, <1>6, <1>7

LEMMA ReadMaxPlaces ==
  ASSUME FansSoFar, IoTypes, LoadedFeaturesAreRight', NEW c \in Callers, ReadMax(c)
  PROVE  Placed(c)' /\ FansInv' /\ FanTypes' /\ IoTypes'
<1> CallsInv /\ FansInv /\ FanTypes
  BY DEF FansSoFar
<1>1. /\ At(c, "read_max") /\ UNCHANGED fans /\ universal' = universal
      /\ UNCHANGED <<feats, feats_loaded, uw_feats, tdp_min_defs, tdp_max_defs, tdp,
                     webcam, firmware, asked>>
  BY DEF ReadMax, Proceed, ioVars, features, limits, clevo
<1>2. PICK p \in Programs, n \in 1 .. 10 :
        /\ Place(c, p, n) /\ IsAt("read_max", p, n) /\ Program(p)[n] = "read_max"
        /\ Arguments(c, p, n) /\ Found(c, p, n)
        /\ Undisturbed => Reliable(c, p, n)
  BY <1>1, IoPlace
<1>3. p = "limits" /\ n = 2
  BY <1>2 DEF IsAt
<1>4. PICK d : ProceedWith(c, d)
  BY DEF ReadMax
<1>5. Placed(c)'
  <2>1. Program(p)[2 + 1] = "write_tdp" /\ 2 # Len(Program(p)) /\ p \in IoPrograms
    BY <1>3, ProgramSteps DEF IoPrograms
  <2>2. Learned("write_tdp", d) /\ "write_tdp" \notin FanUses
    BY DEF Learned, Reads, UsesMode, FanUses
  <2> QED BY <1>1, <1>2, <1>3, <1>4, <2>1, <2>2, IoAdvances
<1>6. FansInv'
  <2>1. Undisturbed => Steady
    BY <1>2, <1>3 DEF Reliable, Unmoved
  <2>2. Undisturbed /\ uw_feats' => feats_loaded'
    BY <1>1 DEF FansInv
  <2> QED BY <1>1, <2>1, <2>2, IoStepKeepsFans
<1>7. FanTypes' /\ IoTypes'
  BY <1>1, FanTypesKept DEF IoTypes
<1> QED BY <1>5, <1>6, <1>7

LEMMA GetWebcamPlaces ==
  ASSUME FansSoFar, IoTypes, LoadedFeaturesAreRight', NEW c \in Callers, GetWebcam(c)
  PROVE  Placed(c)' /\ FansInv' /\ FanTypes' /\ IoTypes'
<1> CallsInv /\ FansInv /\ FanTypes
  BY DEF FansSoFar
<1>1. /\ At(c, "get_webcam") /\ UNCHANGED fans /\ universal' = universal
      /\ UNCHANGED <<feats, feats_loaded, uw_feats, tdp_min_defs, tdp_max_defs, tdp,
                     webcam, firmware, asked>>
  BY DEF GetWebcam, Proceed, ioVars, features, limits, clevo
<1>2. PICK p \in Programs, n \in 1 .. 10 :
        /\ Place(c, p, n) /\ IsAt("get_webcam", p, n) /\ Program(p)[n] = "get_webcam"
        /\ Arguments(c, p, n) /\ Found(c, p, n)
        /\ Undisturbed => Reliable(c, p, n)
  BY <1>1, IoPlace
<1>3. p = "webcam" /\ n = 1
  BY <1>2 DEF IsAt
<1>4. PICK d : ProceedWith(c, d)
  BY DEF GetWebcam
<1>5. Placed(c)'
  <2>1. Program(p)[1 + 1] = "set_webcam" /\ 1 # Len(Program(p)) /\ p \in IoPrograms
    BY <1>3, ProgramSteps DEF IoPrograms
  <2>2. Learned("set_webcam", d) /\ "set_webcam" \notin FanUses
    BY DEF Learned, Reads, UsesMode, FanUses
  <2> QED BY <1>1, <1>2, <1>3, <1>4, <2>1, <2>2, IoAdvances
<1>6. FansInv'
  <2>1. Undisturbed => Steady
    BY <1>2, <1>3 DEF Reliable, Unmoved
  <2>2. Undisturbed /\ uw_feats' => feats_loaded'
    BY <1>1 DEF FansInv
  <2> QED BY <1>1, <2>1, <2>2, IoStepKeepsFans
<1>7. FanTypes' /\ IoTypes'
  BY <1>1, FanTypesKept DEF IoTypes
<1> QED BY <1>5, <1>6, <1>7

LEMMA WriteTdpPlaces ==
  ASSUME FansSoFar, IoTypes, LoadedFeaturesAreRight', NEW c \in Callers, WriteTdp(c)
  PROVE  Placed(c)' /\ FansInv' /\ FanTypes' /\ IoTypes'
<1> CallsInv /\ FansInv /\ FanTypes
  BY DEF FansSoFar
<1>1. /\ At(c, "write_tdp") /\ UNCHANGED fans /\ universal' = universal
      /\ UNCHANGED <<feats, feats_loaded, uw_feats, tdp_min_defs, tdp_max_defs, webcam,
                     firmware, asked>>
      /\ ProceedWith(c, data[c])
  BY DEF WriteTdp, Proceed, ioVars, features, limits, clevo
<1>2. PICK p \in Programs, n \in 1 .. 10 :
        /\ Place(c, p, n) /\ IsAt("write_tdp", p, n) /\ Program(p)[n] = "write_tdp"
        /\ Arguments(c, p, n) /\ Found(c, p, n)
        /\ Undisturbed => Reliable(c, p, n)
  BY <1>1, IoPlace
<1>3. p = "limits" /\ n = 3
  BY <1>2 DEF IsAt
<1>4. Placed(c)'
  <2>1. n = Len(Program(p))
    BY <1>3, ProgramSteps
  <2> QED BY <1>1, <1>2, <2>1, Ends
<1>5. FansInv'
  <2>1. Undisturbed => Steady
    BY <1>2, <1>3 DEF Reliable, Unmoved
  <2>2. Undisturbed /\ uw_feats' => feats_loaded'
    BY <1>1 DEF FansInv
  <2> QED BY <1>1, <2>1, <2>2, IoStepKeepsFans
<1>6. tdp' \in [Indices -> 0 .. 255 \cup {Factory}]
  <2>1. call[c][2] \in Indices /\ call[c][3] \in 0 .. 255
    BY <1>2, <1>3 DEF Arguments
  <2>2. PICK v : v \in {tdp[call[c][2]], call[c][3]} /\ tdp' = [tdp EXCEPT ![call[c][2]] = v]
    BY DEF WriteTdp, Written
  <2> QED BY <2>1, <2>2 DEF IoTypes
<1>7. FanTypes' /\ IoTypes'
  BY <1>1, <1>6, FanTypesKept DEF IoTypes
<1> QED BY <1>4, <1>5, <1>7

LEMMA SetWebcamPlaces ==
  ASSUME FansSoFar, IoTypes, LoadedFeaturesAreRight', NEW c \in Callers, SetWebcam(c)
  PROVE  Placed(c)' /\ FansInv' /\ FanTypes' /\ IoTypes'
<1> CallsInv /\ FansInv /\ FanTypes
  BY DEF FansSoFar
<1>1. /\ At(c, "set_webcam") /\ UNCHANGED fans /\ universal' = universal
      /\ UNCHANGED <<feats, feats_loaded, uw_feats, tdp_min_defs, tdp_max_defs, tdp,
                     firmware, asked>>
      /\ ProceedWith(c, data[c])
  BY DEF SetWebcam, Proceed, ioVars, features, limits, clevo
<1>2. PICK p \in Programs, n \in 1 .. 10 :
        /\ Place(c, p, n) /\ IsAt("set_webcam", p, n) /\ Program(p)[n] = "set_webcam"
        /\ Arguments(c, p, n) /\ Found(c, p, n)
        /\ Undisturbed => Reliable(c, p, n)
  BY <1>1, IoPlace
<1>3. p = "webcam" /\ n = 2
  BY <1>2 DEF IsAt
<1>4. Placed(c)'
  <2>1. n = Len(Program(p))
    BY <1>3, ProgramSteps
  <2> QED BY <1>1, <1>2, <2>1, Ends
<1>5. FansInv'
  <2>1. Undisturbed => Steady
    BY <1>2, <1>3 DEF Reliable, Unmoved
  <2>2. Undisturbed /\ uw_feats' => feats_loaded'
    BY <1>1 DEF FansInv
  <2> QED BY <1>1, <2>1, <2>2, IoStepKeepsFans
<1>6. webcam' \in 0 .. 1
  <2>1. call[c][2] \in 0 .. 1
    BY <1>2, <1>3 DEF Arguments
  <2>2. webcam' \in {webcam, 1 - webcam, call[c][2]}
    BY DEF SetWebcam, Written
  <2> QED BY <2>1, <2>2 DEF IoTypes
<1>7. FanTypes' /\ IoTypes'
  BY <1>1, <1>6, FanTypesKept DEF IoTypes
<1> QED BY <1>4, <1>5, <1>7

LEMMA EvaluatePlaces ==
  ASSUME FansSoFar, IoTypes, LoadedFeaturesAreRight', NEW c \in Callers, Evaluate(c)
  PROVE  Placed(c)' /\ FansInv' /\ FanTypes' /\ IoTypes'
<1> CallsInv /\ FansInv /\ FanTypes
  BY DEF FansSoFar
<1>1. /\ At(c, "evaluate") /\ UNCHANGED fans /\ universal' = universal
      /\ UNCHANGED <<feats, feats_loaded, uw_feats, tdp_min_defs, tdp_max_defs, tdp,
                     webcam, asked>>
      /\ ProceedWith(c, data[c])
  BY DEF Evaluate, Proceed, ioVars, features, limits, clevo
<1>2. PICK p \in Programs, n \in 1 .. 10 :
        /\ Place(c, p, n) /\ IsAt("evaluate", p, n) /\ Program(p)[n] = "evaluate"
        /\ Arguments(c, p, n) /\ Found(c, p, n)
        /\ Undisturbed => Reliable(c, p, n)
  BY <1>1, IoPlace
<1>3. p = "forward" /\ n = 1
  BY <1>2 DEF IsAt
<1>4. Placed(c)'
  <2>1. n = Len(Program(p))
    BY <1>3, ProgramSteps
  <2> QED BY <1>1, <1>2, <2>1, Ends
<1>5. FansInv'
  <2>1. Undisturbed => Steady
    BY <1>2, <1>3 DEF Reliable, Unmoved
  <2>2. Undisturbed /\ uw_feats' => feats_loaded'
    BY <1>1 DEF FansInv
  <2> QED BY <1>1, <2>1, <2>2, IoStepKeepsFans
<1>6. firmware' \in [Methods -> Nat] /\ firmware'["profile"] \in 0 .. 255
  <2> DEFINE m == call[c][2]  new == IF m = "profile" THEN call[c][3] % 256 ELSE call[c][3]
  <2>1. m \in Methods /\ call[c][3] \in Nat
    BY <1>2, <1>3 DEF Arguments
  <2>2. new \in Nat /\ (m = "profile" => new \in 0 .. 255)
    BY <2>1
  <2>3. PICK v : v \in {firmware[m], new} /\ firmware' = [firmware EXCEPT ![m] = v]
    BY DEF Evaluate, Written
  <2> HIDE DEF m, new
  <2>4. "profile" \in Methods
    BY DEF Methods
  <2> QED BY <2>1, <2>2, <2>3, <2>4 DEF IoTypes
<1>7. FanTypes' /\ IoTypes'
  BY <1>1, <1>6, FanTypesKept DEF IoTypes
<1> QED BY <1>4, <1>5, <1>7

-----------------------------------------------------------------------------
(***************************************************************************)
(* The invariant and the theorems                                          *)
(***************************************************************************)

\* The calls of IoSpec: each knows what it has to when it uses it.
IoInv ==
  /\ CallsInv
  /\ CacheIsSafe => FeatsType /\ CacheInv /\ TdpInv
  /\ ~env.faults /\ "mixed_mode" \notin env.calls => ProfileInv
  /\ WebcamIsSafe => WebcamInv

LEMMA IoInitInv == IoInit => IoInv
<1> SUFFICES ASSUME IoInit PROVE IoInv
  OBVIOUS
<1>1. FanInit /\ \A c \in Callers : Idle(c)
  BY DEF IoInit, FanInit, Idle
<1>2. CallsInv
  BY <1>1 DEF IoInit, FanInit, CallsInv, ListsInv, IsList, Follows, Serial
<1>3. FeatsType /\ CacheInv
  BY <1>1 DEF IoInit, FeatsType, CacheInv, NextIs
<1>4. TdpInv
  BY <1>1 DEF IoInit, TdpInv, TablesInv, LimitsInv, NextIs
<1>5. ProfileInv
  BY <1>1, InitPure
<1>6. WebcamInv
  BY <1>1 DEF IoInit, WebcamInv, NextIs
<1> QED BY <1>2, <1>3, <1>4, <1>5, <1>6 DEF IoInv

LEMMA IoStepKeepsCache ==
  ASSUME CacheIsSafe, CallsInv, FeatsType, CacheInv, TdpInv, NEW c \in Callers, IoStep(c)
  PROVE  FeatsType' /\ CacheInv' /\ TdpInv'
<1>1. CASE Quiet(c)
  <2>1. /\ UNCHANGED <<feats, universal, feats_loaded, limits, tdp>>
        /\ ~NextIs(c, Reads)' /\ ~NextIs(c, TdpSteps \cup {"assign_max"})'
    BY <1>1 DEF Quiet, NextIs, Idle, Guarded, WebcamSteps, Reads, TdpSteps
  <2> QED BY <2>1, OtherStepsKeepCache, OtherStepsKeepLimits
<1>2. CASE FeatureRead(c)
  <2>1. UNCHANGED <<limits, tdp>>
    BY <1>2, ReadsAreRight
  <2>2. ~env.faults => feats'.model = machine.model \/ feats'.model = feats.model
    BY <1>2 DEF FeatureRead, ReadModel, ReadPriority, ReadProfile, ReadEcFans, Fails,
                FeatsType
  <2>3. ~NextIs(c, TdpSteps \cup {"assign_max"})'
    <3>1. PICK d, x : At(c, x) /\ ProceedWith(c, d) /\ x \in Reads
      BY <1>2, Zenon
         DEF FeatureRead, ReadModel, ReadPriority, ReadProfile, ReadEcFans, Fails, Reads
    <3>2. ~Idle(c) /\ Head(todo[c]) \in Reads
      BY <3>1, NextIsHead
    <3> QED BY <3>1, <3>2, NextAfter
            DEF NextIs, Idle, Guarded, Before, Inserted, TdpSteps, Reads
  <2>4. IoStep(c)
    BY <1>2 DEF IoStep, FeatureStep, FeatureRead
  <2> QED BY <1>2, <2>1, <2>2, <2>3, <2>4, ReadKeepsCache, OtherStepsKeepLimits
<1>3. CASE SetLoaded(c) \/ (CheckLoaded(c) /\ ~feats_loaded)
  <2>1. UNCHANGED <<feats, limits, tdp>>
    BY <1>3 DEF SetLoaded, CheckLoaded, ioVars, features
  <2>2. ASSUME SetLoaded(c) PROVE ~NextIs(c, TdpSteps \cup {"assign_max"})'
    <3>1. ~Idle(c) /\ Head(todo[c]) = "set_loaded" /\ ProceedWith(c, data[c])
      BY <2>2, NextIsHead DEF SetLoaded, Proceed
    <3> QED BY <3>1, NextAfter DEF NextIs, Idle, Guarded, Before, Inserted, TdpSteps
  <2>3. ASSUME CheckLoaded(c), ~feats_loaded
        PROVE  ~NextIs(c, TdpSteps \cup {"assign_max"})'
    <3>1. /\ ~Idle(c) /\ Head(todo[c]) = "check_loaded"
          /\ Inserts(c, ReadFeatures, [complete |-> TRUE])
      BY <2>3 DEF CheckLoaded, Inserts, ReadFeatures, At
    <3>2. NoneAfter(Head(todo[c]), IoAfter)
      BY <3>1, IoOrder DEF NoneAfter, Guarded, Before, Inserted
    <3>3. todo'[c][1] = ReadFeatures[1]
      BY <3>1, <3>2, IoStepsFollow, InsertedFollow DEF CallsInv
    <3> QED BY <3>3 DEF NextIs, ReadFeatures, TdpSteps
  <2>4. IoStep(c)
    BY <1>3 DEF IoStep, FeatureStep
  <2> QED BY <1>3, <2>1, <2>2, <2>3, <2>4, FillKeepsCache, OtherStepsKeepLimits
<1>4. CASE \/ IdTdp(c) \/ AssignMax(c) \/ WriteTdp(c) \/ ReadMin(c) \/ ReadMax(c)
           \/ \E i \in Indices, a \in TdpArguments : SetTdp(c, i, a)
           \/ CheckMin(c) /\ ~(Limit(tdp_min_defs, "min", call[c][2]) < 0)
  <2>1. TdpInv'
    BY <1>4, IdentifyKeepsLimits, WriteTdpKeepsLimits, SetTdpKeepsLimits, Zenon
  <2>2. UNCHANGED <<feats, universal, feats_loaded>>
    BY <1>4 DEF IdTdp, AssignMax, WriteTdp, ReadMin, ReadMax, SetTdp, CheckMin, BeginIo,
                Start, ioVars, features
  <2>3. ~NextIs(c, Reads)'
    <3>1. ASSUME NEW i \in Indices, NEW a \in TdpArguments, SetTdp(c, i, a)
          PROVE  ~NextIs(c, Reads)'
      <4>1. todo'[c] = <<"check_min">>
        BY <3>1, BeginsAnew DEF SetTdp, BeginIo, IoCalls
      <4> QED BY <4>1 DEF NextIs, Reads
    <3>2. ASSUME CheckMin(c), ~(Limit(tdp_min_defs, "min", call[c][2]) < 0)
          PROVE  ~NextIs(c, Reads)'
      <4>1. /\ ~Idle(c) /\ Head(todo[c]) = "check_min" /\ Inserts(c, UseLimits, data[c])
        BY <3>2 DEF CheckMin, At, Insert, Inserts, UseLimits, CallsInv, ListsInv
      <4>2. NoneAfter(Head(todo[c]), IoAfter)
        BY <4>1, IoOrder DEF NoneAfter, Guarded, Before, Inserted
      <4>3. todo'[c][1] = UseLimits[1]
        BY <4>1, <4>2, IoStepsFollow, InsertedFollow DEF CallsInv
      <4> QED BY <4>3 DEF NextIs, UseLimits, Reads
    <3>3. ASSUME IdTdp(c) \/ AssignMax(c) \/ WriteTdp(c) \/ ReadMin(c) \/ ReadMax(c)
          PROVE  ~NextIs(c, Reads)'
      <4>1. PICK d, x : At(c, x) /\ ProceedWith(c, d)
                        /\ x \in {"id_tdp", "assign_max", "write_tdp", "read_min", "read_max"}
        BY <3>3, Zenon DEF IdTdp, AssignMax, WriteTdp, ReadMin, ReadMax, Proceed
      <4>2. ~Idle(c) /\ Head(todo[c]) = x
        BY <4>1, NextIsHead
      <4> QED BY <4>1, <4>2, NextAfter DEF NextIs, Idle, Guarded, Before, Inserted, Reads
    <3> QED BY <1>4, <3>1, <3>2, <3>3
  <2>4. IoStep(c)
    BY <1>4 DEF IoStep, TdpStep
  <2> QED BY <2>1, <2>2, <2>3, <2>4, OtherStepsKeepCache
<1> QED
  BY <1>1, <1>2, <1>3, <1>4, QuietSteps DEF IoStep, FeatureStep, TdpStep, FeatureRead

LEMMA IoStepInv ==
  ASSUME IoInv, NEW c \in Callers, IoStep(c)
  PROVE  IoInv'
<1>1. CallsInv' /\ env' = env /\ machine' = machine
  BY CallsStep DEF IoInv
<1>2. CacheIsSafe' = CacheIsSafe /\ WebcamIsSafe' = WebcamIsSafe
  BY <1>1 DEF CacheIsSafe, WebcamIsSafe
<1>3. ~env.faults /\ "mixed_mode" \notin env.calls => ProfileInv'
  BY FanCallKeepsPure, FanStepKeepsPure, IoStepKeepsPure DEF IoInv, IoStep
<1>4. WebcamIsSafe => WebcamInv'
  BY SwitchKeepsWebcam, StepKeepsWebcam, OtherStepsKeepWebcam DEF IoInv
<1> QED BY <1>1, <1>2, <1>3, <1>4, IoStepKeepsCache DEF IoInv

LEMMA IoStutterInv ==
  ASSUME IoInv, UNCHANGED <<vars, ioVars>>
  PROVE  IoInv'
<1>1. /\ UNCHANGED <<env, mode, universal, todo, call, data>>
      /\ UNCHANGED <<machine, feats, feats_loaded, tdp_min_defs, tdp_max_defs, tdp,
                     webcam, asked>>
  BY DEF vars, registers, ioVars, features, limits, clevo
<1>2. CallsInv'
  BY <1>1 DEF IoInv, CallsInv, ListsInv, IsList, Follows, IoAfter, Serial, Idle
<1>3. CacheIsSafe' = CacheIsSafe /\ WebcamIsSafe' = WebcamIsSafe
  BY <1>1 DEF CacheIsSafe, WebcamIsSafe
<1>4. CacheIsSafe => FeatsType' /\ CacheInv'
  BY <1>1 DEF IoInv, FeatsType, CacheInv, FeaturesRight, HasPriority, HasProfile, NextIs,
              Idle, ReadSoFar
<1>5. CacheIsSafe => TdpInv'
  BY <1>1, LimitsConstant DEF IoInv, TdpInv, TablesInv, LimitsInv, NextIs, Idle, LimitsSoFar
<1>6. ~env.faults /\ "mixed_mode" \notin env.calls => ProfileInv'
  BY <1>1 DEF IoInv, ProfileInv, ListsInv, PureMode, IsList, Follows, Anew, AfterRead
<1>7. WebcamIsSafe => WebcamInv'
  BY <1>1 DEF IoInv, WebcamInv, WebcamSoFar, NextIs, Idle
<1> QED BY <1>1, <1>2, <1>3, <1>4, <1>5, <1>6, <1>7 DEF IoInv

LEMMA IoInvariant == IoSpec => []IoInv
<1>1. IoInv /\ [IoNext]_<<vars, ioVars>> => IoInv'
  BY IoStepInv, IoStutterInv DEF IoNext, IoStep
<1> QED BY <1>1, IoInitInv, PTL DEF IoSpec

\* However many identifications run, one after another with reads that fail or
\* at the same time, features that count as loaded are those of the machine:
\* nobody would read them again.
THEOREM LoadedFeaturesStayRight == IoSpec => []LoadedFeaturesAreRight
<1>1. IoInv => LoadedFeaturesAreRight
  BY DEF IoInv, LoadedFeaturesAreRight, CacheInv, FeaturesRight, HasPriority, HasProfile
<1> QED BY <1>1, IoInvariant, PTL

\* No call puts a power into the EC that the table of this machine does not
\* allow, whatever userspace asks for and however far the identification is.
THEOREM TdpStaysWithinLimits == IoSpec => []TdpWithinLimits
<1>1. IoInv => TdpWithinLimits
  BY DEF IoInv, TdpWithinLimits, TdpInv, LimitsInv, InLimits, Has, OwnTable
<1> QED BY <1>1, IoInvariant, PTL

\* On an EC that answers, calls of every kind leave no mixture of two profiles
\* in 0x0751, however they interleave, unless W_UW_MODE has been asked for one.
THEOREM ProfileStaysUnmixed == IoSpec => []ProfileUnmixed
<1>1. IoInv => ProfileUnmixed
  BY PureIsUnmixed DEF IoInv, ProfileUnmixed
<1> QED BY <1>1, IoInvariant, PTL

\* However many calls switch the webcam, it ends up in a state one of them asked
\* for; firmware that toggles needs them one at a time.
THEOREM WebcamStaysAsAsked == IoSpec => []WebcamAsAsked
<1>1. IoInv => WebcamAsAsked
  BY DEF IoInv, WebcamAsAsked, WebcamIsSafe, WebcamInv, NextIs, Idle, Quiescent
<1> QED BY <1>1, IoInvariant, PTL

-----------------------------------------------------------------------------
(***************************************************************************)
(* Fans and types                                                          *)
(***************************************************************************)

\* What the other calls know stays true: a call that is not alone may not rely on
\* anything.
LEMMA OthersStay ==
  ASSUME CallsInv, PlacesInv, NEW c \in Callers, OnlyMoves(c), Alone(c), env' = env
  PROVE  \A b \in Callers \ {c} : Placed(b)'
<1> SUFFICES ASSUME NEW b \in Callers \ {c} PROVE Placed(b)'
  OBVIOUS
<1>1. todo'[b] = todo[b] /\ call'[b] = call[b] /\ data'[b] = data[b]
  BY DEF OnlyMoves
<1>2. CASE Idle(b)
  BY <1>1, <1>2 DEF Placed, Idle
<1>3. CASE ~Idle(b)
  <2>1. PICK p \in Programs, n \in 1 .. 10 : Place(b, p, n)
    BY <1>3 DEF PlacesInv
  <2>2. ~Undisturbed'
    BY <1>3 DEF Alone, Undisturbed
  <2>3. Left(todo[b], p, n)'
    BY <1>1, <2>1 DEF Place, Left
  <2>4. Arguments(b, p, n)'
    BY <1>1, <2>1 DEF Place, Arguments
  <2>5. Found(b, p, n)'
    BY <1>1, <2>1 DEF Place, Found
  <2>6. Place(b, p, n)'
    BY <2>2, <2>3, <2>4, <2>5 DEF Place
  <2> QED BY <2>6 DEF Placed
<1> QED BY <1>2, <1>3

\* A call that begins sets nothing.
LEMMA FanCallTypes ==
  ASSUME FanTypes, NEW c \in Callers, FanCall(c)
  PROVE  FanTypes'
<1>1. PICK args, s : Start(c, args, s)
  BY DEF FanCall, SetFan, SetFanAuto, SetProfile, SetMode, Begin
<1> QED BY <1>1 DEF Start, registers, FanTypes

\* All steps of the fan calls.
LEMMA FanStepPlaces ==
  ASSUME FansSoFar, NEW c \in Callers, FanStep(c), UNCHANGED ioVars
  PROVE  Placed(c)' /\ FansInv'
BY SetSeparatePlaces, SetCustomPlaces, ClearCustomPlaces, ClearSeparatePlaces,
   ReadSeparatePlaces, ReadCustomPlaces, ReadModePlaces, CheckInitPlaces, UseFullModePlaces,
   NotFullModePlaces, InitDonePlaces, ZeroTablePlaces, SetFullModePlaces, WriteTablePlaces,
   UninitPlaces, WriteProfilePlaces, WriteModePlaces, WriteFanPlaces, WriteBothPlaces,
   LeaveFullModePlaces
   DEF FanStep, UniversalStep, FullModeStep

\* Steps of the fan calls leave the rest alone.
LEMMA IoTypesKept ==
  ASSUME IoTypes, UNCHANGED ioVars
  PROVE  IoTypes'
BY DEF ioVars, features, limits, clevo, IoTypes

\* One step of IoNext: that of a fan call only on a device that is identified.
IoMove(c) ==
  \/ uw_feats /\ FanCall(c) /\ UNCHANGED ioVars
  \/ FanStep(c) /\ UNCHANGED ioVars
  \/ FeatureStep(c) \/ TdpStep(c) \/ ClevoStep(c)

\* All steps.
LEMMA IoMovePlaces ==
  ASSUME FansSoFar, IoTypes, CacheIsSafe => CacheInv, LoadedFeaturesAreRight',
         NEW c \in Callers, IoMove(c)
  PROVE  Placed(c)' /\ FansInv' /\ FanTypes' /\ IoTypes'
<1>1. CASE uw_feats /\ FanCall(c) /\ UNCHANGED ioVars
  BY <1>1, FanCallPlaces, FanCallTypes, IoTypesKept DEF FansSoFar
<1>2. CASE FanStep(c) /\ UNCHANGED ioVars
  BY <1>2, FanStepPlaces, FanStepKeepsTypes, IoTypesKept
<1>3. CASE FeatureStep(c)
  BY <1>3, IoStartsPlace, CheckLoadedPlaces, FeatureReadPlaces, SetLoadedPlaces,
     AssignFeatsPlaces DEF FeatureStep, FeatureRead
<1>4. CASE TdpStep(c)
  BY <1>4, IoStartsPlace, IdTdpPlaces, AssignMaxPlaces, CheckMinPlaces, ReadMinPlaces,
     ReadMaxPlaces, WriteTdpPlaces DEF TdpStep
<1>5. CASE ClevoStep(c)
  BY <1>5, IoStartsPlace, GetWebcamPlaces, SetWebcamPlaces, EvaluatePlaces DEF ClevoStep
<1> QED BY <1>1, <1>2, <1>3, <1>4, <1>5 DEF IoMove

\* The invariant of fans and types.
PlacedInv == IoInv /\ FanTypes /\ IoTypes /\ PlacesInv /\ FansInv

LEMMA PlacedInit == IoInit => PlacedInv
<1> SUFFICES ASSUME IoInit PROVE PlacedInv
  OBVIOUS
<1>1. IoInv
  BY IoInitInv
<1>2. \A c \in Callers : Idle(c)
  BY DEF IoInit, FanInit, Idle
<1>3. /\ mode \in Mode /\ universal = FALSE /\ separate = FALSE /\ custom = FALSE
      /\ fans_initialized = FALSE /\ chosen = None /\ uw_feats = FALSE
      /\ wanted = [f \in Fans |-> None]
      /\ table = [f \in Fans |-> 0] /\ direct = [f \in Fans |-> 0]
  BY DEF IoInit, FanInit, Mode, ProfileBits
<1>4. FanTypes
  BY <1>3 DEF FanTypes
<1>5. IoTypes
  <2>1. webcam \in 0 .. 1
    BY DEF IoInit
  <2>2. "profile" \in Methods
    BY DEF Methods
  <2>3. feats \in [model : Models \cup {Unknown}, charging_prio : BOOLEAN,
                   charging_profile : BOOLEAN]
    BY DEF IoInit
  <2>4. {tdp_min_defs, tdp_max_defs} \subseteq Tables
    BY DEF IoInit, Tables
  <2>5. firmware \in [Methods -> Nat] /\ firmware["profile"] = 0
    BY <2>2 DEF IoInit
  <2>6. tdp \in [Indices -> 0 .. 255 \cup {Factory}] /\ asked = {}
    BY DEF IoInit
  <2>7. feats_loaded = FALSE /\ uw_feats = FALSE
    BY DEF IoInit
  <2>8. {feats_loaded, uw_feats} \subseteq BOOLEAN /\ asked \subseteq 0 .. 1
    BY <2>6, <2>7
  <2>9. firmware["profile"] \in 0 .. 255
    BY <2>5
  <2>10. tdp \in [Indices -> 0 .. 255 \cup {Factory}]
    BY <2>6
  <2> QED BY <2>1, <2>3, <2>4, <2>5, <2>8, <2>9, <2>10, Zenon DEF IoTypes
<1>6. PlacesInv
  BY <1>2 DEF PlacesInv
<1>7. FansInv
  <2>1. \A f \in Fans : wanted[f] = None
    BY <1>3
  <2>2. Steady
    BY <1>3, Zenon DEF Steady
  <2> QED BY <1>3, <2>1, <2>2, Zenon DEF FansInv
<1> QED BY <1>1, <1>4, <1>5, <1>6, <1>7 DEF PlacedInv

LEMMA PlacedStep ==
  ASSUME PlacedInv, NEW c \in Callers, IoMove(c)
  PROVE  PlacedInv'
<1>1. IoStep(c)
  BY DEF IoMove, IoStep
<1>2. IoInv'
  BY <1>1, IoStepInv DEF PlacedInv
<1>3. CallsInv /\ FansSoFar /\ (CacheIsSafe => CacheInv)
  BY DEF PlacedInv, IoInv, FansSoFar
<1>4. LoadedFeaturesAreRight'
  BY <1>2 DEF IoInv, LoadedFeaturesAreRight, CacheInv, FeaturesRight, HasPriority, HasProfile
<1>5. Placed(c)' /\ FansInv' /\ FanTypes' /\ IoTypes'
  BY <1>3, <1>4, IoMovePlaces DEF PlacedInv
<1>6. \A b \in Callers \ {c} : Placed(b)'
  BY <1>1, <1>3, CallsStep, OthersStay DEF PlacedInv
<1>7. PlacesInv'
  BY <1>5, <1>6 DEF PlacesInv, Placed
<1> QED BY <1>2, <1>5, <1>7 DEF PlacedInv

LEMMA PlacedStutter ==
  ASSUME PlacedInv, UNCHANGED <<vars, ioVars>>
  PROVE  PlacedInv'
<1>1. UNCHANGED <<env, universal, mode, separate, custom, table, direct, fans_initialized,
                  wanted, chosen, todo, call, data>>
  BY DEF vars, registers
<1>2. UNCHANGED <<machine, feats, feats_loaded, uw_feats, tdp_min_defs, tdp_max_defs, tdp,
                  webcam, firmware, asked>>
  BY DEF ioVars, features, limits, clevo
<1>3. IoInv'
  BY IoStutterInv DEF PlacedInv
<1>4. FanTypes' /\ IoTypes'
  BY <1>1, <1>2 DEF PlacedInv, FanTypes, IoTypes
<1>5. Undisturbed' = Undisturbed /\ Quiescent' = Quiescent /\ Steady' = Steady
  BY <1>1 DEF Undisturbed, Quiescent, Idle, Steady, InUse
<1>6. FansInv'
  BY <1>1, <1>2, <1>5 DEF PlacedInv, FansInv
<1>7. PlacesInv'
  <2> SUFFICES ASSUME NEW c \in Callers PROVE Placed(c)'
    BY DEF PlacesInv, Placed
  <2>1. CASE Idle(c)
    BY <1>1, <2>1 DEF Idle, Placed
  <2>2. CASE ~Idle(c)
    <3>1. PICK p \in Programs, n \in 1 .. 10 : Place(c, p, n)
      BY <2>2 DEF PlacedInv, PlacesInv
    <3>2. Left(todo[c], p, n)' /\ Arguments(c, p, n)' /\ Found(c, p, n)'
      BY <1>1, <3>1 DEF Place, Left, Arguments, Found
    <3>3. Undisturbed => Reliable(c, p, n)'
      BY <1>1, <1>2, <1>5, <3>1 DEF Place, Reliable
    <3>4. Place(c, p, n)'
      BY <1>5, <3>2, <3>3 DEF Place
    <3> QED BY <3>4 DEF Placed
  <2> QED BY <2>1, <2>2
<1> QED BY <1>3, <1>4, <1>6, <1>7 DEF PlacedInv

LEMMA PlacedInvariant == IoSpec => []PlacedInv
<1>1. PlacedInv /\ [IoNext]_<<vars, ioVars>> => PlacedInv'
  BY PlacedStep, PlacedStutter DEF IoNext, IoMove
<1> QED BY <1>1, PlacedInit, PTL DEF IoSpec

\* The types of all of the device's state, on machines of every kind and with calls
\* and faults of every kind: what a call has read fits what it does next, and no
\* call has more than ten steps left.
THEOREM TypesStayRight == IoSpec => []IoTypeOK
<1>1. PlacedInv => IoTypeOK
  <2> SUFFICES ASSUME PlacedInv PROVE IoTypeOK
    OBVIOUS
  <2>1. CallsInv
    BY DEF PlacedInv, IoInv
  <2>2. env \in Environments /\ machine \in Machines
    BY <2>1, IoAssumption DEF CallsInv
  <2>3. ASSUME NEW c \in Callers PROVE Len(todo[c]) <= 10
    <3>1. CASE Idle(c)
      BY <3>1 DEF Idle
    <3>2. CASE ~Idle(c)
      <4>1. PICK p \in Programs, n \in 1 .. 10 : Left(todo[c], p, n)
        BY <3>2 DEF PlacedInv, PlacesInv, Place
      <4>2. IsList(todo[c])
        BY <2>1 DEF CallsInv, ListsInv
      <4>3. Len(todo[c]) = Len(Program(p)) - n + 1 /\ Len(Program(p)) \in 1 .. 10
        BY <4>1, <4>2, LeftHead
      <4> DEFINE l == Len(Program(p))
      <4> HIDE DEF l
      <4>4. Len(todo[c]) = l - n + 1 /\ l \in 1 .. 10
        BY <4>3 DEF l
      <4> QED BY <4>4
    <3> QED BY <3>1, <3>2
  <2>4. TypeOK
    BY <2>2, <2>3 DEF PlacedInv, FanTypes, TypeOK
  <2> QED BY <2>2, <2>4 DEF PlacedInv, IoTypes, IoTypeOK, Tables
<1> QED BY <1>1, PlacedInvariant, PTL

\* A fan that was given a speed keeps it until automatic control is asked for: on
\* an EC that answers and with one call at a time, whatever is called in between
\* leaves the mode and the tables the speed depends on in use.
THEOREM SpeedStaysInForce == IoSpec => []SpeedIsInForce
<1>1. PlacedInv => SpeedIsInForce
  <2> SUFFICES ASSUME PlacedInv, Undisturbed, Quiescent, NEW f \in Fans, wanted[f] # None
               PROVE  IF env.universal
                      THEN custom /\ separate /\ ~mode.full
                             /\ table[f] = IF wanted[f] = 0 THEN 1 ELSE wanted[f]
                      ELSE mode.full /\ direct[f] = wanted[f]
    BY DEF SpeedIsInForce
  <2>1. FansInv /\ Steady
    BY DEF PlacedInv, FansInv
  <2>2. CASE env.universal
    <3>1. fans_initialized /\ table[f] = InTable(wanted[f])
      BY <2>1, <2>2 DEF FansInv
    <3>2. custom /\ separate /\ ~mode.full
      BY <2>1, <2>2, <3>1 DEF Steady, InUse
    <3> QED BY <2>2, <3>1, <3>2 DEF InTable
  <2>3. CASE ~env.universal
    BY <2>1, <2>3 DEF FansInv
  <2> QED BY <2>2, <2>3
<1> QED BY <1>1, PlacedInvariant, PTL

\* Where no fan has a speed of its own, before the first one and after automatic
\* control was asked for, the EC's own tables are in use.
THEOREM EcKeepsControl == IoSpec => []EcControlsFans
<1>1. PlacedInv => EcControlsFans
  BY DEF PlacedInv, FansInv, Steady, EcControlsFans
<1> QED BY <1>1, PlacedInvariant, PTL

\* The profile that was set last stays set whatever is done to the fans, whose full
\* mode is a bit of the same register.
THEOREM ProfileStaysInForce == IoSpec => []ProfileIsInForce
<1>1. PlacedInv => ProfileIsInForce
  BY DEF PlacedInv, FansInv, ProfileIsInForce
<1> QED BY <1>1, PlacedInvariant, PTL

=============================================================================
