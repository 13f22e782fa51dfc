------------------------------- MODULE EcRam -------------------------------
(***************************************************************************)
(* What uw_wmi_read_ec_ram and uw_wmi_write_ec_ram promise their callers:  *)
(* the RAM of the embedded controller behaves like an array of atomic      *)
(* registers whose operations may fail.                                    *)
(*                                                                         *)
(* A call is pending until it takes effect, at one instant between its     *)
(* invocation and its return.  It may return 0 only if it took effect, and *)
(* a read then returns the byte it saw at that instant.  A call that       *)
(* returns -EIO promises nothing: it may or may not have taken effect, and *)
(* the byte it leaves in *data is arbitrary.                               *)
(***************************************************************************)
EXTENDS Integers

CONSTANTS
  Threads,    \* kernel threads that access the EC
  LowBytes,   \* low bytes of the EC addresses in use
  HighBytes,  \* high bytes of the EC addresses in use
  Bytes       \* data bytes, 0 among them

VARIABLES
  ram,     \* contents of the EC RAM
  phase,   \* phase[t]: how far the current call of thread t is
  req,     \* req[t]: the arguments of the current call of t
  taken,   \* taken[t]: the byte the current read saw
  result,  \* result[t]: status of the last call, "none" while it runs
  output   \* output[t]: the byte the last read left in *data

vars == <<ram, phase, req, taken, result, output>>

Addresses == LowBytes \X HighBytes
FailByte == 254                        \* 0xfe, from output->dword = 0xfefefefe
Outputs == Bytes \cup {FailByte}

Requests == [op : {"read"}, lo : LowBytes, hi : HighBytes, val : {0}]
              \cup [op : {"write"}, lo : LowBytes, hi : HighBytes, val : Bytes]
NoRequest == [op |-> "none"]

Cell(r) == <<r.lo, r.hi>>

Init ==
  /\ ram \in [Addresses -> Bytes]
  /\ phase = [t \in Threads |-> "idle"]
  /\ req = [t \in Threads |-> NoRequest]
  /\ taken = [t \in Threads |-> 0]
  /\ result = [t \in Threads |-> "0"]
  /\ output = [t \in Threads |-> 0]

\* A thread calls one of the two functions.
Invoke(t) ==
  /\ phase[t] = "idle"
  /\ \E r \in Requests : req' = [req EXCEPT ![t] = r]
  /\ phase' = [phase EXCEPT ![t] = "pending"]
  /\ result' = [result EXCEPT ![t] = "none"]
  /\ output' = [output EXCEPT ![t] = 0]
  /\ UNCHANGED <<ram, taken>>

\* The call takes effect, all at once.
Apply(t) ==
  /\ phase[t] = "pending"
  /\ phase' = [phase EXCEPT ![t] = "applied"]
  /\ IF req[t].op = "read"
     THEN /\ taken' = [taken EXCEPT ![t] = ram[Cell(req[t])]]
          /\ UNCHANGED ram
     ELSE /\ UNCHANGED taken
          /\ ram' = [ram EXCEPT ![Cell(req[t])] = req[t].val]
  /\ UNCHANGED <<req, result, output>>

\* The call is given up, whether or not it took effect.
GiveUp(t) ==
  /\ phase[t] \in {"pending", "applied"}
  /\ phase' = [phase EXCEPT ![t] = "failed"]
  /\ taken' = [taken EXCEPT ![t] = 0]
  /\ UNCHANGED <<ram, req, result, output>>

\* A call that took effect returns 0 and the byte it took.
ReturnOk(t) ==
  /\ phase[t] = "applied"
  /\ phase' = [phase EXCEPT ![t] = "idle"]
  /\ result' = [result EXCEPT ![t] = "0"]
  /\ output' = [output EXCEPT ![t] = taken[t]]
  /\ taken' = [taken EXCEPT ![t] = 0]
  /\ req' = [req EXCEPT ![t] = NoRequest]
  /\ UNCHANGED ram

\* A call that was given up returns -EIO and any byte.
ReturnError(t) ==
  /\ phase[t] = "failed"
  /\ phase' = [phase EXCEPT ![t] = "idle"]
  /\ result' = [result EXCEPT ![t] = "-EIO"]
  /\ \E b \in IF req[t].op = "read" THEN Outputs ELSE {0} :
       output' = [output EXCEPT ![t] = b]
  /\ req' = [req EXCEPT ![t] = NoRequest]
  /\ UNCHANGED <<ram, taken>>

Next ==
  \E t \in Threads :
    \/ Invoke(t)
    \/ Apply(t)
    \/ GiveUp(t)
    \/ ReturnOk(t)
    \/ ReturnError(t)

Spec == Init /\ [][Next]_vars

=============================================================================
