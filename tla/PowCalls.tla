------------------------------ MODULE PowCalls ------------------------------
(***************************************************************************)
(* What the power kernel promises its callers: a call inside the domain    *)
(* returns the function's value, a call outside it panics, and every call  *)
(* ends.  No loop and no intermediate value is visible.                    *)
(***************************************************************************)
EXTENDS Pow

CONSTANT Calls     \* the calls the callers make: [op : Ops, x : I128, y : I128]

VARIABLES phase,   \* "idle", "busy", "returned" or "panicked"
          call,    \* the call being answered
          ret      \* its value

vars == <<phase, call, ret>>

NoCall == [op |-> "ln", x |-> ONE, y |-> ONE]

Init == phase = "idle" /\ call = NoCall /\ ret = 0

Ask == /\ phase = "idle" /\ phase' = "busy"
       /\ call' \in Calls
       /\ UNCHANGED ret

Answer == /\ phase = "busy" /\ phase' = "returned"
          /\ InDomain(call.op, call.x, call.y)
          /\ ret' = Returns(call.op, call.x, call.y)
          /\ UNCHANGED call

Refuse == /\ phase = "busy" /\ phase' = "panicked"
          /\ ~InDomain(call.op, call.x, call.y)
          /\ UNCHANGED <<call, ret>>

Resume == /\ phase = "returned" /\ phase' = "idle"
          /\ call' = NoCall /\ ret' = 0

Next == Ask \/ Answer \/ Refuse \/ Resume

Spec == Init /\ [][Next]_vars /\ WF_vars(Answer \/ Refuse)
=============================================================================
