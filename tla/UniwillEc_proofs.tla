------------------------- MODULE UniwillEc_proofs -------------------------
(***************************************************************************)
(* Theorems about UniwillEc, for any number of threads, any addresses and  *)
(* bytes and any number of polls.                                          *)
(***************************************************************************)
EXTENDS UniwillEc, TLAPS

\* The mark for "no call" is not a call.
LEMMA NoRequestIsNone == NoRequest \notin Requests
BY DEF NoRequest, Requests, Reads, Writes

\* The fields of a request.
LEMMA RequestTypes ==
  ASSUME NEW r \in Requests
  PROVE  /\ r.op \in {"read", "write"}
         /\ r.lo \in LowBytes
         /\ r.hi \in HighBytes
         /\ r.val \in Bytes
         /\ Cell(r) \in Addresses
         /\ RequestBit(r) \in {"RFLG", "WFLG"}
BY EcAssumption DEF Requests, Reads, Writes, Cell, Addresses, RequestBit

(***************************************************************************)
(* TypeOK is inductive once the busy wait is known to leave its loop at    *)
(* count zero.                                                             *)
(***************************************************************************)
TypeInv ==
  /\ TypeOK
  /\ \A t \in Threads : pc[t] = "poll" => count[t] # 0

\* The initial state has the types.
LEMMA TypeInit == Init => TypeInv
BY EcAssumption, NoRequestIsNone
DEF Init, TypeInv, TypeOK, Outputs, Holding, Waiting

\* Each statement of the access functions, and each step of the firmware,
\* keeps the types and the bound of the busy wait.
LEMMA TypeStep == TypeInv /\ [Next]_vars => TypeInv'
<1> SUFFICES ASSUME TypeInv, [Next]_vars PROVE TypeInv'
  OBVIOUS
<1> USE EcAssumption, NoRequestIsNone
    DEF TypeInv, TypeOK, Holding, Waiting, Goto, mailbox, locals, answer
<1>1. ASSUME NEW t \in Threads, Call(t) PROVE TypeInv'
  BY <1>1 DEF Call, Outputs
<1>2. ASSUME NEW t \in Threads, Lock(t) PROVE TypeInv'
  BY <1>2 DEF Lock
<1>3. ASSUME NEW t \in Threads, Unlock(t) PROVE TypeInv'
  BY <1>3 DEF Unlock
<1>4. ASSUME NEW t \in Threads, ReadFlags(t) PROVE TypeInv'
  BY <1>4 DEF ReadFlags
<1>5. ASSUME NEW t \in Threads, SetBusy(t) PROVE TypeInv'
  BY <1>5 DEF SetBusy, FlagBits
<1>6. ASSUME NEW t \in Threads, PutLow(t) PROVE TypeInv'
  <2>1. req[t] \in Requests
    BY <1>6 DEF PutLow
  <2> QED  BY <1>6, <2>1, RequestTypes DEF PutLow
<1>7. ASSUME NEW t \in Threads, PutHigh(t) PROVE TypeInv'
  <2>1. req[t] \in Requests
    BY <1>7 DEF PutHigh
  <2> QED  BY <1>7, <2>1, RequestTypes DEF PutHigh
<1>8. ASSUME NEW t \in Threads, PutData(t) PROVE TypeInv'
  <2>1. req[t] \in Requests
    BY <1>8 DEF PutData
  <2> QED  BY <1>8, <2>1, RequestTypes DEF PutData
<1>9. ASSUME NEW t \in Threads, Start(t) PROVE TypeInv'
  <2>1. req[t] \in Requests
    BY <1>9 DEF Start
  <2>2. flags'[t] \subseteq FlagBits
    BY <1>9, <2>1, RequestTypes DEF Start, FlagBits
  <2> QED  BY <1>9, <2>2 DEF Start
<1>10. ASSUME NEW t \in Threads, Poll(t) PROVE TypeInv'
  BY <1>10 DEF Poll
<1>11. ASSUME NEW t \in Threads, Collect(t) PROVE TypeInv'
  BY <1>11 DEF Collect, Outputs
<1>12. ASSUME NEW t \in Threads, TimedOut(t) PROVE TypeInv'
  BY <1>12 DEF TimedOut, Outputs
<1>13. ASSUME NEW t \in Threads, ClearFlags(t) PROVE TypeInv'
  BY <1>13 DEF ClearFlags
<1>14. ASSUME NEW t \in Threads, WmiEffect(t) PROVE TypeInv'
  <2>1. /\ req[t] \in Requests
        /\ Cell(req[t]) \in Addresses
        /\ req[t].val \in Bytes
    BY <1>14, RequestTypes DEF WmiEffect
  <2> QED  BY <1>14, <2>1 DEF WmiEffect, Outputs
<1>15. ASSUME NEW t \in Threads, WmiSuccess(t) PROVE TypeInv'
  BY <1>15 DEF WmiSuccess
<1>16. ASSUME NEW t \in Threads, WmiFailure(t) PROVE TypeInv'
  BY <1>16 DEF WmiFailure, Outputs
<1>17. ASSUME NEW b \in BOOLEAN, SetEcDirect(b) PROVE TypeInv'
  BY <1>17 DEF SetEcDirect
<1>18. CASE EcAccept
  <2>1. job' \in Requests
    BY <1>18 DEF EcAccept, Requests, Reads, Writes
  <2> QED  BY <1>18, <2>1 DEF EcAccept
<1>19. CASE EcFinish
  <2>1. job \in Requests
    BY <1>19 DEF EcFinish
  <2>2. Cell(job) \in Addresses /\ job.val \in Bytes
    BY <2>1, RequestTypes
  <2> QED  BY <1>19, <2>2 DEF EcFinish, FlagBits
<1>20. CASE UNCHANGED vars
  BY <1>20 DEF vars
<1> QED
  BY <1>1, <1>2, <1>3, <1>4, <1>5, <1>6, <1>7, <1>8, <1>9, <1>10, <1>11,
     <1>12, <1>13, <1>14, <1>15, <1>16, <1>17, <1>18, <1>19, <1>20
  DEF Next, Step

\* Every operation of the access layer and of the firmware keeps the types;
\* in particular the busy wait of the direct functions never counts below
\* zero.
THEOREM TypeCorrect == Spec => []TypeOK
<1>1. Spec => []TypeInv
  BY TypeInit, TypeStep, PTL DEF Spec
<1> QED  BY <1>1, PTL DEF TypeInv

-----------------------------------------------------------------------------
(***************************************************************************)
(* AddressIntact.  It is not inductive: that the mailbox holds the address *)
(* of the caller when Start raises RFLG or WFLG follows from the steps     *)
(* before it, which nobody else can disturb because of the lock, and that  *)
(* the other bit is clear follows from the local copy of FLAGS, taken when *)
(* no access was in progress.  The firmware may be of either kind.         *)
(***************************************************************************)
AccessBits == {"RFLG", "WFLG"}
Preparing == {"set_busy", "put_low", "put_high", "put_data", "start"}

LockInv == \A t \in Threads : (pc[t] \in Holding) = (owner = t)

MailboxInv ==
  /\ \A t \in Threads : pc[t] \in Preparing => flags[t] \cap AccessBits = {}
  /\ \A t \in Threads :
       pc[t] \in {"put_high", "put_data", "start"} \cup Active => LDAT = req[t].lo
  /\ \A t \in Threads :
       pc[t] \in {"put_data", "start"} \cup Active => HDAT = req[t].hi
  /\ \A t \in Threads :
       pc[t] \in Active => FLAGS \cap AccessBits = {RequestBit(req[t])}
  /\ (\A t \in Threads : pc[t] \notin Active) => FLAGS \cap AccessBits = {}

AccessInv == TypeInv /\ LockInv /\ MailboxInv

\* The mailbox is idle and nobody holds the lock at the start.
LEMMA AccessInit == Init => AccessInv
<1> SUFFICES ASSUME Init PROVE AccessInv
  OBVIOUS
<1>1. TypeInv
  BY TypeInit
<1>2. LockInv /\ MailboxInv
  BY EcAssumption
  DEF Init, LockInv, MailboxInv, Holding, Preparing, Active, AccessBits
<1> QED  BY <1>1, <1>2 DEF AccessInv

\* At most one thread is between mutex_lock and mutex_unlock.
LEMMA OneHolder ==
  ASSUME LockInv, NEW t \in Threads, NEW u \in Threads,
         pc[t] \in Holding, pc[u] \in Holding
  PROVE  t = u
BY DEF LockInv

\* uniwill_ec_lock has one holder, the thread between Lock and Unlock.
LEMMA LockStep == AccessInv /\ [Next]_vars => LockInv'
<1> SUFFICES ASSUME AccessInv, [Next]_vars PROVE LockInv'
  OBVIOUS
<1> USE EcAssumption
    DEF AccessInv, TypeInv, TypeOK, LockInv, Holding, Waiting, Goto
<1>1. ASSUME NEW t \in Threads, Call(t) PROVE LockInv'
  BY <1>1 DEF Call
<1>2. ASSUME NEW t \in Threads, Lock(t) PROVE LockInv'
  BY <1>2 DEF Lock
<1>3. ASSUME NEW t \in Threads, Unlock(t) PROVE LockInv'
  BY <1>3 DEF Unlock
<1>4. ASSUME NEW t \in Threads,
             \/ ReadFlags(t) \/ SetBusy(t) \/ PutLow(t) \/ PutHigh(t)
             \/ PutData(t) \/ Start(t)
      PROVE  LockInv'
  BY <1>4 DEF ReadFlags, SetBusy, PutLow, PutHigh, PutData, Start
<1>5. ASSUME NEW t \in Threads,
             Poll(t) \/ Collect(t) \/ TimedOut(t) \/ ClearFlags(t)
      PROVE  LockInv'
  BY <1>5 DEF Poll, Collect, TimedOut, ClearFlags
<1>6. ASSUME NEW t \in Threads, WmiEffect(t) \/ WmiSuccess(t) \/ WmiFailure(t)
      PROVE  LockInv'
  BY <1>6 DEF WmiEffect, WmiSuccess, WmiFailure
<1>7. CASE \/ EcAccept \/ EcFinish \/ UNCHANGED vars
           \/ \E b \in BOOLEAN : SetEcDirect(b)
  BY <1>7 DEF EcAccept, EcFinish, SetEcDirect, vars
<1> QED
  BY <1>1, <1>2, <1>3, <1>4, <1>5, <1>6, <1>7 DEF Next, Step

\* The holder fills the mailbox before it offers the request, and nobody else
\* writes to it until FLAGS are cleared.
LEMMA MailboxStep == AccessInv /\ [Next]_vars => MailboxInv'
<1> SUFFICES ASSUME AccessInv, [Next]_vars PROVE MailboxInv'
  OBVIOUS
<1> USE EcAssumption
    DEF AccessInv, TypeInv, TypeOK, LockInv, MailboxInv, Holding, Waiting,
        Preparing, Active, AccessBits, Goto, mailbox, locals
<1>1. ASSUME NEW t \in Threads, Call(t) PROVE MailboxInv'
  BY <1>1 DEF Call
<1>2. ASSUME NEW t \in Threads, Lock(t) PROVE MailboxInv'
  BY <1>2 DEF Lock
<1>3. ASSUME NEW t \in Threads, Unlock(t) PROVE MailboxInv'
  BY <1>3 DEF Unlock
<1>4. ASSUME NEW t \in Threads, ReadFlags(t) PROVE MailboxInv'
  BY <1>4 DEF ReadFlags
<1>5. ASSUME NEW t \in Threads, SetBusy(t) PROVE MailboxInv'
  BY <1>5 DEF SetBusy
<1>6. ASSUME NEW t \in Threads, PutLow(t) PROVE MailboxInv'
  BY <1>6 DEF PutLow
<1>7. ASSUME NEW t \in Threads, PutHigh(t) PROVE MailboxInv'
  BY <1>7 DEF PutHigh
<1>8. ASSUME NEW t \in Threads, PutData(t) PROVE MailboxInv'
  BY <1>8 DEF PutData
<1>9. ASSUME NEW t \in Threads, Start(t) PROVE MailboxInv'
  BY <1>9 DEF Start, RequestBit
<1>10. ASSUME NEW t \in Threads, Poll(t) PROVE MailboxInv'
  BY <1>10 DEF Poll
<1>11. ASSUME NEW t \in Threads, Collect(t) \/ TimedOut(t) PROVE MailboxInv'
  BY <1>11 DEF Collect, TimedOut
<1>12. ASSUME NEW t \in Threads, ClearFlags(t) PROVE MailboxInv'
  BY <1>12 DEF ClearFlags
<1>13. ASSUME NEW t \in Threads, WmiEffect(t) \/ WmiSuccess(t) \/ WmiFailure(t)
       PROVE  MailboxInv'
  BY <1>13 DEF WmiEffect, WmiSuccess, WmiFailure
<1>14. CASE EcFinish
  BY <1>14 DEF EcFinish
<1>15. CASE EcAccept \/ UNCHANGED vars \/ \E b \in BOOLEAN : SetEcDirect(b)
  BY <1>15 DEF EcAccept, SetEcDirect, vars
<1> QED
  BY <1>1, <1>2, <1>3, <1>4, <1>5, <1>6, <1>7, <1>8, <1>9, <1>10, <1>11,
     <1>12, <1>13, <1>14, <1>15
  DEF Next, Step

\* The two together are inductive.
LEMMA AccessInvariant == Spec => []AccessInv
<1>1. AccessInv /\ [Next]_vars => AccessInv'
  BY TypeStep, LockStep, MailboxStep DEF AccessInv
<1> QED  BY AccessInit, <1>1, PTL DEF Spec

\* uniwill_ec_lock keeps the two address bytes of concurrent callers apart:
\* whenever the mailbox asks for an access, it asks for the access of one
\* caller at the address that caller gave, even if the firmware answers a
\* timed-out request late.
THEOREM AddressesStayIntact == Spec => []AddressIntact
<1>1. AccessInv => AddressIntact
  <2> SUFFICES ASSUME AccessInv, FLAGS \cap {"RFLG", "WFLG"} # {}
               PROVE  \E t \in Threads :
                        /\ owner = t
                        /\ pc[t] \in Active
                        /\ FLAGS \cap {"RFLG", "WFLG"} = {RequestBit(req[t])}
                        /\ <<LDAT, HDAT>> = Cell(req[t])
    BY DEF AddressIntact
  <2>1. PICK t \in Threads : pc[t] \in Active
    BY DEF AccessInv, MailboxInv, AccessBits
  <2>2. owner = t
    BY <2>1 DEF AccessInv, LockInv, Holding, Active
  <2> QED
    BY <2>1, <2>2 DEF AccessInv, MailboxInv, AccessBits, Active, Cell
<1> QED  BY AccessInvariant, <1>1, PTL

-----------------------------------------------------------------------------
(***************************************************************************)
(* Refinement of EcRam, for firmware that drops a request when FLAGS are   *)
(* cleared.                                                                *)
(***************************************************************************)
FirmwareInv ==
  /\ \A t \in Threads : pc[t] \in Preparing => "DRDY" \notin flags[t]
  /\ "DRDY" \in FLAGS => \E t \in Threads : pc[t] \in Active
  /\ \A t \in Threads :
       /\ pc[t] \in {"start"} \cup Active
       /\ req[t].op = "write"
       => CMDL = req[t].val \/ "DRDY" \in FLAGS
  /\ \A t \in Threads :
       pc[t] = "collect" /\ count[t] # 0 => "DRDY" \in FLAGS
  /\ \A t \in Threads :
       pc[t] = "clear" /\ result[t] = "0" =>
         /\ "DRDY" \in FLAGS
         /\ output[t] = IF req[t].op = "read" THEN CMDL ELSE 0
  /\ \A t \in Threads : pc[t] = "evaluated" /\ req[t].op = "write" => output[t] = 0
  /\ \A t \in Threads :
       pc[t] \notin {"idle", "clear", "evaluated", "unlock"} => output[t] = 0
  /\ \A t \in Threads :
       pc[t] \in {"clear", "unlock"} /\ req[t].op = "write" => output[t] = 0

Inv == AccessInv /\ FirmwareInv /\ JobIsCurrent

\* The firmware has nothing to do at the start.
LEMMA FirmwareInit == Init => FirmwareInv /\ JobIsCurrent
BY DEF Init, FirmwareInv, JobIsCurrent, Preparing, Active

\* A job is that of the thread that polls, since clearing FLAGS drops it.
LEMMA JobStep == DropsCleared /\ Inv /\ [Next]_vars => JobIsCurrent'
<1> SUFFICES ASSUME DropsCleared, Inv, [Next]_vars PROVE JobIsCurrent'
  OBVIOUS
<1> USE EcAssumption, NoRequestIsNone
    DEF Inv, AccessInv, TypeInv, TypeOK, LockInv, MailboxInv, FirmwareInv,
        JobIsCurrent, Holding, Waiting, Preparing, Active, AccessBits, Goto,
        mailbox, locals, answer
<1>1. ASSUME NEW t \in Threads,
             \/ Call(t) \/ Lock(t) \/ Unlock(t) \/ ReadFlags(t) \/ PutLow(t)
             \/ PutHigh(t) \/ PutData(t) \/ Poll(t) \/ Collect(t) \/ TimedOut(t)
             \/ WmiEffect(t) \/ WmiSuccess(t) \/ WmiFailure(t)
      PROVE  JobIsCurrent'
  BY <1>1 DEF Call, Lock, Unlock, ReadFlags, PutLow, PutHigh, PutData, Poll,
              Collect, TimedOut, WmiEffect, WmiSuccess, WmiFailure
<1>2. ASSUME NEW t \in Threads, SetBusy(t) PROVE JobIsCurrent'
  BY <1>2 DEF SetBusy
<1>3. ASSUME NEW t \in Threads, Start(t) PROVE JobIsCurrent'
  BY <1>3 DEF Start
<1>4. ASSUME NEW t \in Threads, ClearFlags(t) PROVE JobIsCurrent'
  BY <1>4 DEF ClearFlags
<1>5. CASE EcAccept
  <2>1. PICK t \in Threads : pc[t] \in Active
    BY <1>5 DEF EcAccept
  <2>2. req[t] \in Requests
    BY <2>1
  <2>3. job' = req[t]
    BY <1>5, <2>1, <2>2 DEF EcAccept, RequestBit, Requests, Reads, Writes
  <2> QED  BY <1>5, <2>1, <2>3 DEF EcAccept
<1>6. CASE EcFinish
  BY <1>6 DEF EcFinish
<1>7. CASE UNCHANGED vars \/ \E b \in BOOLEAN : SetEcDirect(b)
  BY <1>7 DEF SetEcDirect, vars
<1> QED
  BY <1>1, <1>2, <1>3, <1>4, <1>5, <1>6, <1>7 DEF Next, Step

\* DRDY belongs to the call that is polling, and a write keeps its data byte in
\* CMDL until it is done.
LEMMA FirmwareStep == DropsCleared /\ Inv /\ [Next]_vars => FirmwareInv'
<1> SUFFICES ASSUME DropsCleared, Inv, [Next]_vars PROVE FirmwareInv'
  OBVIOUS
<1> USE EcAssumption, NoRequestIsNone
    DEF Inv, AccessInv, TypeInv, TypeOK, LockInv, FirmwareInv, JobIsCurrent,
        Holding, Waiting, Preparing, Active, Goto, mailbox, locals, answer
<1>1. ASSUME NEW t \in Threads, Call(t) PROVE FirmwareInv'
  BY <1>1 DEF Call
<1>2. ASSUME NEW t \in Threads, Lock(t) PROVE FirmwareInv'
  BY <1>2 DEF Lock
<1>3. ASSUME NEW t \in Threads, Unlock(t) PROVE FirmwareInv'
  BY <1>3 DEF Unlock
<1>4. ASSUME NEW t \in Threads, ReadFlags(t) PROVE FirmwareInv'
  BY <1>4 DEF ReadFlags
<1>5. ASSUME NEW t \in Threads, SetBusy(t) PROVE FirmwareInv'
  BY <1>5 DEF SetBusy
<1>6. ASSUME NEW t \in Threads, PutLow(t) PROVE FirmwareInv'
  BY <1>6 DEF PutLow
<1>7. ASSUME NEW t \in Threads, PutHigh(t) PROVE FirmwareInv'
  BY <1>7 DEF PutHigh
<1>8. ASSUME NEW t \in Threads, PutData(t) PROVE FirmwareInv'
  BY <1>8 DEF PutData
<1>9. ASSUME NEW t \in Threads, Start(t) PROVE FirmwareInv'
  BY <1>9 DEF Start, RequestBit
<1>10. ASSUME NEW t \in Threads, Poll(t) PROVE FirmwareInv'
  BY <1>10 DEF Poll
<1>11. ASSUME NEW t \in Threads, Collect(t) \/ TimedOut(t) PROVE FirmwareInv'
  BY <1>11 DEF Collect, TimedOut
<1>12. ASSUME NEW t \in Threads, ClearFlags(t) PROVE FirmwareInv'
  BY <1>12 DEF ClearFlags
<1>13. ASSUME NEW t \in Threads, WmiEffect(t) \/ WmiSuccess(t) \/ WmiFailure(t)
       PROVE  FirmwareInv'
  BY <1>13 DEF WmiEffect, WmiSuccess, WmiFailure
<1>14. CASE EcFinish
  BY <1>14 DEF EcFinish
<1>15. CASE EcAccept \/ UNCHANGED vars \/ \E b \in BOOLEAN : SetEcDirect(b)
  BY <1>15 DEF EcAccept, SetEcDirect, vars
<1> QED
  BY <1>1, <1>2, <1>3, <1>4, <1>5, <1>6, <1>7, <1>8, <1>9, <1>10, <1>11,
     <1>12, <1>13, <1>14, <1>15
  DEF Next, Step

\* The inductive invariant of the access layer.
LEMMA Invariant == DropsCleared => (Spec => []Inv)
<1> SUFFICES ASSUME DropsCleared PROVE Spec => []Inv
  OBVIOUS
<1>1. Init => Inv
  BY AccessInit, FirmwareInit DEF Inv
<1>2. Inv /\ [Next]_vars => Inv'
  BY TypeStep, LockStep, MailboxStep, FirmwareStep, JobStep DEF Inv, AccessInv
<1> QED  BY <1>1, <1>2, PTL DEF Spec

\* Nothing of a call that has returned is still under way in the firmware,
\* and what is under way is the whole request of the call that polls for it.
THEOREM JobsAreCurrent == DropsCleared => (Spec => []JobIsCurrent)
<1> SUFFICES ASSUME DropsCleared PROVE Spec => []JobIsCurrent
  OBVIOUS
<1> QED  BY Invariant, PTL DEF Inv

\* The initial states are initial states of EcRam.
LEMMA RefinesInit == Init => Registers!Init
BY DEF Init, Registers!Init, PhaseBar, TakenBar, ResultBar, OutputBar, Phase,
       Taken, Applied, Returned, Delivered, Active, Addresses,
       Registers!Addresses, NoRequest, Registers!NoRequest

\* What the refinement mapping shows of one call.
View(t) == <<Phase(t), Taken(t), Returned(t), Delivered(t)>>
OnlyMoves(t) == \A u \in Threads : u # t => View(u)' = View(u)

\* The mapped functions when one call moves.
LEMMA Moved ==
  ASSUME NEW t \in Threads, OnlyMoves(t)
  PROVE  /\ PhaseBar' = [PhaseBar EXCEPT ![t] = Phase(t)']
         /\ TakenBar' = [TakenBar EXCEPT ![t] = Taken(t)']
         /\ ResultBar' = [ResultBar EXCEPT ![t] = Returned(t)']
         /\ OutputBar' = [OutputBar EXCEPT ![t] = Delivered(t)']
BY DEF OnlyMoves, View, PhaseBar, TakenBar, ResultBar, OutputBar

\* What does not move in the moving call does not move at all.
LEMMA NotMoved ==
  ASSUME NEW t \in Threads, OnlyMoves(t)
  PROVE  /\ Taken(t)' = Taken(t) => UNCHANGED TakenBar
         /\ Returned(t)' = Returned(t) => UNCHANGED ResultBar
         /\ Delivered(t)' = Delivered(t) => UNCHANGED OutputBar
BY DEF OnlyMoves, View, TakenBar, ResultBar, OutputBar

\* A step that moves no call is a stutter of EcRam.
LEMMA Unmoved ==
  ASSUME NEW t \in Threads, OnlyMoves(t), View(t)' = View(t), UNCHANGED <<ram, req>>
  PROVE  UNCHANGED Registers!vars
BY DEF OnlyMoves, View, PhaseBar, TakenBar, ResultBar, OutputBar, Registers!vars

\* The mapped functions, at one thread.
LEMMA BarAt ==
  ASSUME NEW t \in Threads
  PROVE  PhaseBar[t] = Phase(t) /\ TakenBar[t] = Taken(t)
BY DEF PhaseBar, TakenBar

\* A step of one call changes the view of no other: only the holder of the
\* lock is Active, so only its view depends on FLAGS and CMDL.
LEMMA StepMovesOne ==
  ASSUME AccessInv, NEW t \in Threads, Call(t) \/ Step(t)
  PROVE  OnlyMoves(t)
<1> SUFFICES ASSUME NEW u \in Threads, u # t PROVE View(u)' = View(u)
  BY DEF OnlyMoves
<1> USE DEF AccessInv, TypeInv, TypeOK, Goto, mailbox, locals, answer
<1>1. /\ pc'[u] = pc[u]
      /\ req'[u] = req[u]
      /\ result'[u] = result[u]
      /\ output'[u] = output[u]
  BY DEF Step, Call, Lock, Unlock, ReadFlags, SetBusy, PutLow, PutHigh,
         PutData, Start, Poll, Collect, TimedOut, ClearFlags, WmiEffect,
         WmiSuccess, WmiFailure
<1>2. pc[u] \in Active => UNCHANGED <<FLAGS, CMDL>>
  BY DEF Step, Call, Lock, Unlock, ReadFlags, SetBusy, PutLow, PutHigh,
         PutData, Start, Poll, Collect, TimedOut, ClearFlags, WmiEffect,
         WmiSuccess, WmiFailure, LockInv, Active, Holding
<1> QED
  BY <1>1, <1>2 DEF View, Phase, Taken, Applied, Returned, Delivered

\* Every step is a step or a stutter of EcRam, one case per statement: the
\* effect is EcFinish on one path and WmiEffect on the other.
LEMMA RefinesStep ==
  DropsCleared /\ Inv /\ Inv' /\ [Next]_vars => [Registers!Next]_Registers!vars
<1> SUFFICES ASSUME DropsCleared, Inv, Inv', [Next]_vars
             PROVE  [Registers!Next]_Registers!vars
  OBVIOUS
<1> USE EcAssumption, NoRequestIsNone
    DEF Inv, AccessInv, TypeInv, TypeOK, Active, Goto, mailbox, locals, answer
<1> DEFINE Mapping(t) == /\ View(t)' = View(t)
                         /\ UNCHANGED <<ram, req>>
<1>1. ASSUME NEW t \in Threads, Call(t) PROVE Registers!Next
  <2>1. Phase(t) = "idle" /\ Phase(t)' = "pending" /\ Returned(t)' = "none"
    BY <1>1 DEF Call, Phase, Applied, Returned
  <2>2. Delivered(t)' = 0 /\ Taken(t) = 0 /\ Taken(t)' = 0
    BY <1>1 DEF Call, Delivered, Taken, Applied
  <2>3. TakenBar' = TakenBar
    BY <1>1, <2>2, NotMoved, StepMovesOne
  <2>4. \E r \in Registers!Requests : req' = [req EXCEPT ![t] = r]
    BY <1>1 DEF Call, Requests, Reads, Writes, Registers!Requests
  <2>5. UNCHANGED ram
    BY <1>1 DEF Call
  <2>6. Registers!Invoke(t)
    BY <1>1, <2>1, <2>2, <2>3, <2>4, <2>5, Moved, StepMovesOne, BarAt
    DEF Registers!Invoke
  <2> QED  BY <2>6 DEF Registers!Next
<1>2. ASSUME NEW t \in Threads,
             \/ Lock(t) \/ ReadFlags(t) \/ PutLow(t) \/ PutHigh(t)
             \/ SetBusy(t) \/ Start(t) \/ PutData(t)
      PROVE  Mapping(t)
  <2>1. /\ pc[t] \in Waiting \cup {"read_flags"} \cup Preparing
        /\ UNCHANGED <<ram, req>>
    BY <1>2 DEF Lock, ReadFlags, SetBusy, PutLow, PutHigh, PutData, Start,
                Waiting, Preparing
  <2>2. \/ pc'[t] \in {"read_flags", "evaluate"} \cup Preparing
        \/ pc'[t] = "poll" /\ "DRDY" \notin FLAGS'
    BY <1>2 DEF Lock, ReadFlags, SetBusy, PutLow, PutHigh, PutData, Start,
                RequestBit, Preparing
  <2> QED
    BY <2>1, <2>2 DEF View, Phase, Applied, Taken, Returned, Delivered,
                      Waiting, Preparing
<1>3. ASSUME NEW t \in Threads, Poll(t) PROVE Mapping(t)
  <2>1. /\ pc[t] = "poll" /\ \E p \in {"poll", "collect"} : pc' = [pc EXCEPT ![t] = p]
        /\ UNCHANGED <<ram, req, FLAGS, CMDL>>
    BY <1>3 DEF Poll
  <2> QED
    BY <2>1 DEF View, Phase, Applied, Taken, Returned, Delivered
<1>4. ASSUME NEW t \in Threads, Collect(t) \/ TimedOut(t) PROVE Mapping(t)
  <2>1. /\ pc[t] = "collect" /\ pc' = [pc EXCEPT ![t] = "clear"]
        /\ UNCHANGED <<ram, req, FLAGS, CMDL>>
    BY <1>4 DEF Collect, TimedOut
  <2> QED
    BY <2>1 DEF View, Phase, Applied, Taken, Returned, Delivered
<1>5. ASSUME NEW t \in Threads, WmiSuccess(t) PROVE Mapping(t)
  <2>1. /\ pc[t] = "evaluated" /\ pc' = [pc EXCEPT ![t] = "unlock"]
        /\ result' = [result EXCEPT ![t] = "0"]
        /\ UNCHANGED <<ram, req, output, FLAGS, CMDL>>
    BY <1>5 DEF WmiSuccess
  <2> QED
    BY <2>1 DEF View, Phase, Applied, Taken, Returned, Delivered
<1>6. ASSUME NEW t \in Threads, ClearFlags(t)
      PROVE  Registers!Next \/ Mapping(t)
  <2>1. CASE result[t] = "0"
    BY <1>6, <2>1
    DEF ClearFlags, View, Phase, Applied, Taken, Returned, Delivered, FirmwareInv
  <2>2. CASE result[t] = "-EIO"
    <3>1. /\ Phase(t) \in {"pending", "applied"}
          /\ Phase(t)' = "failed"
          /\ Taken(t)' = 0
          /\ Returned(t)' = Returned(t)
          /\ Delivered(t)' = Delivered(t)
          /\ UNCHANGED <<ram, req>>
      BY <1>6, <2>2
      DEF ClearFlags, Phase, Applied, Taken, Returned, Delivered
    <3>2. Registers!GiveUp(t)
      BY <1>6, <3>1, Moved, NotMoved, StepMovesOne, BarAt
      DEF Registers!GiveUp, Step
    <3> QED  BY <3>2 DEF Registers!Next
  <2> QED  BY <2>1, <2>2
<1>7. ASSUME NEW t \in Threads, Unlock(t) PROVE Registers!Next
  <2>1. req' = [req EXCEPT ![t] = Registers!NoRequest] /\ UNCHANGED ram
    BY <1>7 DEF Unlock, NoRequest, Registers!NoRequest
  <2>2. Phase(t)' = "idle" /\ Taken(t)' = 0
    BY <1>7 DEF Unlock, Phase, Taken, Applied
  <2>3. Returned(t)' = result[t] /\ Delivered(t)' = output[t]
    BY <1>7 DEF Unlock, Returned, Delivered
  <2>4. CASE result[t] = "0"
    <3>1. Phase(t) = "applied" /\ output[t] = Taken(t)
      BY <1>7, <2>4 DEF Unlock, Phase, Applied, Taken, FirmwareInv, Requests,
                        Reads, Writes
    <3>2. Registers!ReturnOk(t)
      BY <1>7, <2>1, <2>2, <2>3, <2>4, <3>1, Moved, StepMovesOne, BarAt
      DEF Registers!ReturnOk, Step
    <3> QED  BY <3>2 DEF Registers!Next
  <2>5. CASE result[t] = "-EIO"
    <3>1. Phase(t) = "failed" /\ Taken(t) = 0
      BY <1>7, <2>5 DEF Unlock, Phase, Applied, Taken
    <3>2. output[t] \in IF req[t].op = "read" THEN Registers!Outputs ELSE {0}
      BY <1>7 DEF Unlock, FirmwareInv, Requests, Reads, Writes, Outputs,
                  FailByte, Registers!Outputs, Registers!FailByte
    <3>3. TakenBar' = TakenBar
      BY <1>7, <2>2, <3>1, NotMoved, StepMovesOne DEF Step
    <3>4. Registers!ReturnError(t)
      BY <1>7, <2>1, <2>2, <2>3, <2>5, <3>1, <3>2, <3>3, Moved, StepMovesOne,
         BarAt
      DEF Registers!ReturnError, Step
    <3> QED  BY <3>4 DEF Registers!Next
  <2> QED  BY <2>4, <2>5
<1>8. ASSUME NEW t \in Threads, WmiEffect(t) PROVE Registers!Next
  <2>1. /\ Phase(t) = "pending"
        /\ Phase(t)' = "applied"
        /\ Taken(t) = 0
        /\ Taken(t)' = IF req[t].op = "read" THEN ram[Cell(req[t])] ELSE 0
        /\ Returned(t)' = Returned(t)
        /\ Delivered(t)' = Delivered(t)
    BY <1>8 DEF WmiEffect, Phase, Applied, Taken, Returned, Delivered
  <2>2. /\ UNCHANGED req
        /\ IF req[t].op = "read"
           THEN UNCHANGED ram
           ELSE ram' = [ram EXCEPT ![Cell(req[t])] = req[t].val]
    BY <1>8 DEF WmiEffect
  <2>3. Registers!Apply(t)
    BY <1>8, <2>1, <2>2, Moved, NotMoved, StepMovesOne, BarAt
    DEF Registers!Apply, Step, Cell, Registers!Cell
  <2> QED  BY <2>3 DEF Registers!Next
<1>9. ASSUME NEW t \in Threads, WmiFailure(t) PROVE Registers!Next
  <2>1. /\ Phase(t) \in {"pending", "applied"}
        /\ Phase(t)' = "failed"
        /\ Taken(t)' = 0
        /\ Returned(t)' = Returned(t)
        /\ Delivered(t)' = Delivered(t)
        /\ UNCHANGED <<ram, req>>
    BY <1>9 DEF WmiFailure, Phase, Applied, Taken, Returned, Delivered
  <2>2. Registers!GiveUp(t)
    BY <1>9, <2>1, Moved, NotMoved, StepMovesOne, BarAt
    DEF Registers!GiveUp, Step
  <2> QED  BY <2>2 DEF Registers!Next
<1>10. CASE EcFinish
  <2>1. PICK t \in Threads : pc[t] \in Active /\ job = req[t] /\ "DRDY" \notin FLAGS
    BY <1>10 DEF EcFinish, JobIsCurrent
  <2>2. OnlyMoves(t)
    BY <1>10, <2>1
    DEF EcFinish, OnlyMoves, View, Phase, Applied, Taken, Returned, Delivered,
        LockInv, Holding
  <2>3. /\ Phase(t) = "pending"
        /\ Phase(t)' = "applied"
        /\ Taken(t) = 0
        /\ Returned(t)' = Returned(t)
        /\ Delivered(t)' = Delivered(t)
    BY <1>10, <2>1 DEF EcFinish, Phase, Applied, Taken, Returned, Delivered
  <2>4. Taken(t)' = IF req[t].op = "read" THEN ram[Cell(req[t])] ELSE 0
    BY <1>10, <2>1 DEF EcFinish, Applied, Taken
  <2>5. /\ UNCHANGED req
        /\ IF req[t].op = "read"
           THEN UNCHANGED ram
           ELSE ram' = [ram EXCEPT ![Cell(req[t])] = req[t].val]
    BY <1>10, <2>1 DEF EcFinish
  <2>6. Registers!Apply(t)
    BY <2>2, <2>3, <2>4, <2>5, Moved, NotMoved, BarAt
    DEF Registers!Apply, Cell, Registers!Cell
  <2> QED  BY <2>6 DEF Registers!Next
<1>11. CASE EcAccept \/ UNCHANGED vars \/ \E b \in BOOLEAN : SetEcDirect(b)
  <2>1. UNCHANGED <<ram, req, pc, result, output, FLAGS, CMDL>>
    BY <1>11 DEF EcAccept, SetEcDirect, vars
  <2> QED
    BY <2>1 DEF Registers!vars, PhaseBar, TakenBar, ResultBar, OutputBar,
                Phase, Applied, Taken, Returned, Delivered
<1>12. ASSUME NEW t \in Threads, Call(t) \/ Step(t), Mapping(t)
       PROVE  UNCHANGED Registers!vars
  BY <1>12, StepMovesOne, Unmoved
<1> HIDE DEF Mapping
<1> QED
  BY <1>1, <1>2, <1>3, <1>4, <1>5, <1>6, <1>7, <1>8, <1>9, <1>10, <1>11, <1>12
  DEF Next, Step

\* uw_wmi_read_ec_ram and uw_wmi_write_ec_ram implement atomic fallible
\* registers, on both paths and across switches of ec_direct_io.
THEOREM RegistersImplemented == DropsCleared => (Spec => ImplementsRegisters)
<1> SUFFICES ASSUME DropsCleared PROVE Spec => Registers!Spec
  BY DEF ImplementsRegisters
<1>1. Inv /\ Inv' /\ [Next]_vars => [Registers!Next]_Registers!vars
  BY RefinesStep
<1>2. Spec => []Inv
  BY Invariant
<1> QED  BY <1>1, <1>2, RefinesInit, PTL DEF Spec, Registers!Spec

=============================================================================
