----------------------------- MODULE UniwillEc -----------------------------
(***************************************************************************)
(* The EC access layer of uniwill_wmi.c.  Every access to the EC RAM of a  *)
(* Uniwill notebook goes through uw_wmi_read_ec_ram/uw_wmi_write_ec_ram.   *)
(* By default they talk to the embedded controller through five mailbox    *)
(* registers, one ec_read/ec_write at a time under uniwill_ec_lock; with   *)
(* ec_direct_io=0 they evaluate the WMI method that does the same in AML.  *)
(*                                                                         *)
(* The embedded controller is external: it latches a request whose RFLG or *)
(* WFLG it sees, performs it and sets DRDY, each at a moment of its own    *)
(* choosing, or never.                                                     *)
(***************************************************************************)
EXTENDS Integers

CONSTANTS
  Threads,      \* kernel threads that access the EC
  NoThread,     \* the owner of a free lock
  LowBytes,     \* low bytes of the EC addresses in use
  HighBytes,    \* high bytes of the EC addresses in use
  Bytes,        \* data bytes
  BusyWaitCycles,  \* UW_EC_BUSY_WAIT_CYCLES, 30 in the source
  DropsCleared  \* firmware drops a latched request when FLAGS are cleared

ASSUME EcAssumption ==
  /\ NoThread \notin Threads
  /\ 0 \in Bytes
  /\ BusyWaitCycles \in Nat \ {0}
  /\ DropsCleared \in BOOLEAN

VARIABLES
  ecDirect,  \* module parameter ec_direct_io, writable at any time
  owner,     \* holder of uniwill_ec_lock, or NoThread
  pc,        \* pc[t]: next statement of t in the access functions
  req,       \* req[t]: arguments of the current call of t
  flags,     \* flags[t]: local copy of the FLAGS register
  count,     \* count[t]: remaining polls
  ready,     \* ready[t]: the last poll saw DRDY
  result,    \* result[t]: return value
  output,    \* output[t]: what a read of t left in *data, 0 for a write
  FLAGS, LDAT, HDAT, CMDL,  \* mailbox registers
  job,       \* the request the firmware has latched, or NoRequest
  ram        \* contents of the EC RAM

mailbox == <<FLAGS, LDAT, HDAT, CMDL>>
locals == <<flags, count, ready>>
answer == <<result, output>>
vars == <<ecDirect, owner, pc, req, locals, answer, mailbox, job, ram>>

FlagBits == {"RFLG", "WFLG", "BFLG", "DRDY"}
Addresses == LowBytes \X HighBytes
FailByte == 254
Outputs == Bytes \cup {FailByte}

Reads == [op : {"read"}, lo : LowBytes, hi : HighBytes, val : {0}]
Writes == [op : {"write"}, lo : LowBytes, hi : HighBytes, val : Bytes]
Requests == Reads \cup Writes
NoRequest == [op |-> "none"]

Cell(r) == <<r.lo, r.hi>>
RequestBit(r) == IF r.op = "read" THEN "RFLG" ELSE "WFLG"

Init ==
  /\ ecDirect = TRUE
  /\ owner = NoThread
  /\ pc = [t \in Threads |-> "idle"]
  /\ req = [t \in Threads |-> NoRequest]
  /\ flags = [t \in Threads |-> {}]
  /\ count = [t \in Threads |-> 0]
  /\ ready = [t \in Threads |-> FALSE]
  /\ result = [t \in Threads |-> "0"]
  /\ output = [t \in Threads |-> 0]
  /\ FLAGS = {}
  /\ LDAT \in LowBytes
  /\ HDAT \in HighBytes
  /\ CMDL \in Bytes
  /\ job = NoRequest
  /\ ram \in [Addresses -> Bytes]

Goto(t, from, to) ==
  /\ pc[t] = from
  /\ pc' = [pc EXCEPT ![t] = to]

-----------------------------------------------------------------------------
(***************************************************************************)
(* The callers                                                             *)
(***************************************************************************)

\* The path is chosen by the parameter before the lock is taken.
Call(t) ==
  /\ Goto(t, "idle", IF ecDirect THEN "lock" ELSE "wmi_lock")
  /\ \E r \in Requests : req' = [req EXCEPT ![t] = r]
  /\ output' = [output EXCEPT ![t] = 0]
  /\ UNCHANGED <<ecDirect, owner, locals, result, mailbox, job, ram>>

\* Root writes /sys/module/uniwill_wmi/parameters/ec_direct_io.
SetEcDirect(b) ==
  /\ ecDirect # b
  /\ ecDirect' = b
  /\ UNCHANGED <<owner, pc, req, locals, answer, mailbox, job, ram>>

\* Mutant: mutex_lock is missing.
LockNotTaken(t) ==
  /\ \/ Goto(t, "lock", "read_flags")
     \/ Goto(t, "wmi_lock", "evaluate")
  /\ owner' = t
  /\ UNCHANGED <<ecDirect, req, locals, answer, mailbox, job, ram>>

Lock(t) ==
  /\ owner = NoThread
  /\ \/ Goto(t, "lock", "read_flags")
     \/ Goto(t, "wmi_lock", "evaluate")
  /\ owner' = t
  /\ UNCHANGED <<ecDirect, req, locals, answer, mailbox, job, ram>>

\* Mutant: the error path returns with the lock held.
UnlockOnSuccess(t) ==
  /\ Goto(t, "unlock", "idle")
  /\ owner' = IF result[t] = "0" THEN NoThread ELSE owner
  /\ req' = [req EXCEPT ![t] = NoRequest]
  /\ flags' = [flags EXCEPT ![t] = {}]
  /\ count' = [count EXCEPT ![t] = 0]
  /\ ready' = [ready EXCEPT ![t] = FALSE]
  /\ UNCHANGED <<ecDirect, answer, mailbox, job, ram>>

\* Arguments and locals go out of scope; result and output are the caller's.
Unlock(t) ==
  /\ Goto(t, "unlock", "idle")
  /\ owner' = NoThread
  /\ req' = [req EXCEPT ![t] = NoRequest]
  /\ flags' = [flags EXCEPT ![t] = {}]
  /\ count' = [count EXCEPT ![t] = 0]
  /\ ready' = [ready EXCEPT ![t] = FALSE]
  /\ UNCHANGED <<ecDirect, answer, mailbox, job, ram>>

-----------------------------------------------------------------------------
(***************************************************************************)
(* uw_ec_read_addr_direct and uw_ec_write_addr_direct                      *)
(***************************************************************************)

ReadFlags(t) ==
  /\ Goto(t, "read_flags", "set_busy")
  /\ flags' = [flags EXCEPT ![t] = FLAGS]
  /\ UNCHANGED <<ecDirect, owner, req, count, ready, answer, mailbox, job, ram>>

SetBusy(t) ==
  /\ Goto(t, "set_busy", "put_low")
  /\ flags' = [flags EXCEPT ![t] = @ \cup {"BFLG"}]
  /\ FLAGS' = flags'[t]
  /\ UNCHANGED <<ecDirect, owner, req, count, ready, answer, LDAT, HDAT, CMDL,
                 job, ram>>

PutLow(t) ==
  /\ Goto(t, "put_low", "put_high")
  /\ LDAT' = req[t].lo
  /\ UNCHANGED <<ecDirect, owner, req, locals, answer, FLAGS, HDAT, CMDL, job, ram>>

PutHigh(t) ==
  /\ Goto(t, "put_high", IF req[t].op = "write" THEN "put_data" ELSE "start")
  /\ HDAT' = req[t].hi
  /\ UNCHANGED <<ecDirect, owner, req, locals, answer, FLAGS, LDAT, CMDL, job, ram>>

PutData(t) ==
  /\ Goto(t, "put_data", "start")
  /\ CMDL' = req[t].val
  /\ UNCHANGED <<ecDirect, owner, req, locals, answer, FLAGS, LDAT, HDAT, job, ram>>

Start(t) ==
  /\ Goto(t, "start", "poll")
  /\ flags' = [flags EXCEPT ![t] = (@ \ {"DRDY"}) \cup {RequestBit(req[t])}]
  /\ FLAGS' = flags'[t]
  /\ count' = [count EXCEPT ![t] = BusyWaitCycles]
  /\ ready' = [ready EXCEPT ![t] = FALSE]
  /\ UNCHANGED <<ecDirect, owner, req, answer, LDAT, HDAT, CMDL, job, ram>>

\* One turn of while (!ready && count != 0).
Poll(t) ==
  /\ Goto(t, "poll", IF "DRDY" \in FLAGS \/ count[t] = 1 THEN "collect" ELSE "poll")
  /\ ready' = [ready EXCEPT ![t] = "DRDY" \in FLAGS]
  /\ count' = [count EXCEPT ![t] = @ - 1]
  /\ UNCHANGED <<ecDirect, owner, req, flags, answer, mailbox, job, ram>>

\* Mutant: a timed-out access is collected like a finished one.
CollectUnchecked(t) ==
  /\ Goto(t, "collect", "clear")
  /\ result' = [result EXCEPT ![t] = "0"]
  /\ output' = [output EXCEPT ![t] = IF req[t].op = "read" THEN CMDL ELSE 0]
  /\ UNCHANGED <<ecDirect, owner, req, locals, mailbox, job, ram>>

\* if (count != 0): the answer is taken from CMDL; what the function echoes
\* for a write is discarded by uw_wmi_write_ec_ram.
Collect(t) ==
  /\ count[t] # 0
  /\ Goto(t, "collect", "clear")
  /\ result' = [result EXCEPT ![t] = "0"]
  /\ output' = [output EXCEPT ![t] =
                  IF req[t].op = "read" THEN CMDL ELSE 0]
  /\ UNCHANGED <<ecDirect, owner, req, locals, mailbox, job, ram>>

\* else: output->dword = 0xfefefefe.
TimedOut(t) ==
  /\ count[t] = 0
  /\ Goto(t, "collect", "clear")
  /\ result' = [result EXCEPT ![t] = "-EIO"]
  /\ output' = [output EXCEPT ![t] = IF req[t].op = "read" THEN FailByte ELSE 0]
  /\ UNCHANGED <<ecDirect, owner, req, locals, mailbox, job, ram>>

\* Mutant: FLAGS are cleared only after a finished access.
ClearFlagsIfReady(t) ==
  /\ Goto(t, "clear", "unlock")
  /\ IF ready[t]
     THEN FLAGS' = {} /\ job' = NoRequest
     ELSE UNCHANGED <<FLAGS, job>>
  /\ UNCHANGED <<ecDirect, owner, req, locals, answer, LDAT, HDAT, CMDL, ram>>

\* ec_write(UNIWILL_EC_REG_FLAGS, 0x00)
ClearFlags(t) ==
  /\ Goto(t, "clear", "unlock")
  /\ FLAGS' = {}
  /\ job' = IF DropsCleared THEN NoRequest ELSE job
  /\ UNCHANGED <<ecDirect, owner, req, locals, answer, LDAT, HDAT, CMDL, ram>>

-----------------------------------------------------------------------------
(***************************************************************************)
(* uw_wmi_ec_evaluate: the AML of the WMI method is external, its effect   *)
(* on the RAM is modelled as one step under the lock.  A failed evaluation *)
(* leaves return_buffer uninitialised, before or after the effect.         *)
(***************************************************************************)

WmiEffect(t) ==
  /\ Goto(t, "evaluate", "evaluated")
  /\ IF req[t].op = "read"
     THEN /\ output' = [output EXCEPT ![t] = ram[Cell(req[t])]]
          /\ UNCHANGED ram
     ELSE /\ UNCHANGED output
          /\ ram' = [ram EXCEPT ![Cell(req[t])] = req[t].val]
  /\ UNCHANGED <<ecDirect, owner, req, locals, result, mailbox, job>>

WmiSuccess(t) ==
  /\ Goto(t, "evaluated", "unlock")
  /\ result' = [result EXCEPT ![t] = "0"]
  /\ UNCHANGED <<ecDirect, owner, req, locals, output, mailbox, job, ram>>

WmiFailure(t) ==
  /\ \/ Goto(t, "evaluate", "unlock")
     \/ Goto(t, "evaluated", "unlock")
  /\ result' = [result EXCEPT ![t] = "-EIO"]
  /\ \E garbage \in IF req[t].op = "read" THEN Outputs ELSE {0} :
       output' = [output EXCEPT ![t] = garbage]
  /\ UNCHANGED <<ecDirect, owner, req, locals, mailbox, job, ram>>

-----------------------------------------------------------------------------
(***************************************************************************)
(* The firmware of the embedded controller (external)                      *)
(***************************************************************************)

\* It latches the request it finds in the mailbox.
EcAccept ==
  /\ job = NoRequest
  /\ "DRDY" \notin FLAGS
  /\ \/ /\ "RFLG" \in FLAGS
        /\ job' = [op |-> "read", lo |-> LDAT, hi |-> HDAT, val |-> 0]
     \/ /\ "WFLG" \in FLAGS
        /\ job' = [op |-> "write", lo |-> LDAT, hi |-> HDAT, val |-> CMDL]
  /\ UNCHANGED <<ecDirect, owner, pc, req, locals, answer, mailbox, ram>>

\* It performs the latched request and reports it ready.
EcFinish ==
  /\ job # NoRequest
  /\ FLAGS' = FLAGS \cup {"DRDY"}
  /\ IF job.op = "read"
     THEN CMDL' = ram[Cell(job)] /\ UNCHANGED ram
     ELSE ram' = [ram EXCEPT ![Cell(job)] = job.val] /\ UNCHANGED CMDL
  /\ job' = NoRequest
  /\ UNCHANGED <<ecDirect, owner, pc, req, locals, answer, LDAT, HDAT>>

-----------------------------------------------------------------------------

\* The statements of a call that has begun.
Step(t) ==
  \/ Lock(t) \/ Unlock(t)
  \/ ReadFlags(t) \/ SetBusy(t) \/ PutLow(t) \/ PutHigh(t) \/ PutData(t)
  \/ Start(t) \/ Poll(t) \/ Collect(t) \/ TimedOut(t) \/ ClearFlags(t)
  \/ WmiEffect(t) \/ WmiSuccess(t) \/ WmiFailure(t)

Next ==
  \/ \E t \in Threads : Call(t) \/ Step(t)
  \/ \E b \in BOOLEAN : SetEcDirect(b)
  \/ EcAccept
  \/ EcFinish

Spec == Init /\ [][Next]_vars

\* The scheduler runs a runnable thread, and mutex_lock hands the lock over
\* to its waiters.  The firmware is not assumed to answer.
Fairness ==
  \A t \in Threads : WF_vars(Step(t)) /\ SF_vars(Lock(t))

FairSpec == Spec /\ Fairness

-----------------------------------------------------------------------------
(***************************************************************************)
(* Properties                                                              *)
(***************************************************************************)

Holding == {"read_flags", "set_busy", "put_low", "put_high", "put_data",
            "start", "poll", "collect", "clear", "evaluate", "evaluated",
            "unlock"}
Waiting == {"lock", "wmi_lock"}
Active == {"poll", "collect", "clear"}

TypeOK ==
  /\ ecDirect \in BOOLEAN
  /\ owner \in Threads \cup {NoThread}
  /\ pc \in [Threads -> {"idle"} \cup Waiting \cup Holding]
  /\ req \in [Threads -> Requests \cup {NoRequest}]
  /\ \A t \in Threads : (pc[t] = "idle") = (req[t] = NoRequest)
  /\ flags \in [Threads -> SUBSET FlagBits]
  /\ count \in [Threads -> 0 .. BusyWaitCycles]
  /\ ready \in [Threads -> BOOLEAN]
  /\ result \in [Threads -> {"0", "-EIO"}]
  /\ output \in [Threads -> Outputs]
  /\ FLAGS \subseteq FlagBits
  /\ LDAT \in LowBytes
  /\ HDAT \in HighBytes
  /\ CMDL \in Bytes
  /\ job \in Requests \cup {NoRequest}
  /\ ram \in [Addresses -> Bytes]

\* While RFLG or WFLG asks the firmware for an access, the mailbox holds the
\* address of exactly one caller, the holder of uniwill_ec_lock, never one
\* byte of each of two callers.
AddressIntact ==
  FLAGS \cap {"RFLG", "WFLG"} # {} =>
    \E t \in Threads :
      /\ owner = t
      /\ pc[t] \in Active
      /\ FLAGS \cap {"RFLG", "WFLG"} = {RequestBit(req[t])}
      /\ <<LDAT, HDAT>> = Cell(req[t])

\* What the firmware works on is the whole request, data byte included, of
\* the call that is polling for it: nothing of a call that has returned is
\* still under way.  (For firmware that drops cleared requests.)
JobIsCurrent ==
  job # NoRequest =>
    \E t \in Threads :
      /\ pc[t] \in Active
      /\ job = req[t]
      /\ "DRDY" \notin FLAGS

\* A direct access has taken effect once DRDY is up, until FLAGS are cleared.
Applied(t) ==
  \/ pc[t] \in Active /\ "DRDY" \in FLAGS
  \/ pc[t] = "evaluated"
  \/ pc[t] = "unlock" /\ result[t] = "0"

Phase(t) ==
  IF pc[t] = "idle" THEN "idle"
  ELSE IF Applied(t) THEN "applied"
  ELSE IF pc[t] = "unlock" THEN "failed"
  ELSE "pending"

Taken(t) ==
  IF Applied(t) /\ req[t].op = "read"
  THEN IF pc[t] \in Active THEN CMDL ELSE output[t]
  ELSE 0

\* result and output are visible to the caller once the call has returned.
Returned(t) == IF pc[t] = "idle" THEN result[t] ELSE "none"
Delivered(t) == IF pc[t] = "idle" THEN output[t] ELSE 0

PhaseBar == [t \in Threads |-> Phase(t)]
TakenBar == [t \in Threads |-> Taken(t)]
ResultBar == [t \in Threads |-> Returned(t)]
OutputBar == [t \in Threads |-> Delivered(t)]

Registers == INSTANCE EcRam WITH
  phase <- PhaseBar, taken <- TakenBar, result <- ResultBar, output <- OutputBar

\* Every read and write of the EC RAM takes effect at one instant of its
\* call, exactly once, if it returns 0; a call that returns -EIO has been
\* performed at most once.
ImplementsRegisters == Registers!Spec

\* No caller waits forever, whatever the firmware does: the busy wait is
\* bounded and the lock is given back on every path.
EveryCallReturns == \A t \in Threads : pc[t] # "idle" ~> pc[t] = "idle"

\* "Wait for ready flag": a timeout is reported only if the last poll did
\* not see DRDY.
TimeoutMeansNotReady ==
  \A t \in Threads :
    pc[t] = "clear" /\ result[t] = "-EIO" => ~ready[t]

=============================================================================
