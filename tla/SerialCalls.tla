------------------------------ MODULE SerialCalls ------------------------------
(***************************************************************************)
(* What an HttpTransport promises its callers (interface/daemon/src/lib.rs,*)
(* the trait's documentation): the calls of all the clones of a transport  *)
(* are served one at a time, each ends at most once, with an answer or     *)
(* with an error, and may end with an error (a timeout) even before it was *)
(* served.                                                                 *)
(***************************************************************************)
CONSTANT Calls

VARIABLE phase    \* phase[c] : what the caller of call c can tell about it

Phases == {"idle", "waiting", "serving", "ok", "err"}

Init == phase = [c \in Calls |-> "idle"]

Move(c, from, to) == /\ phase[c] = from
                     /\ phase' = [phase EXCEPT ![c] = to]

Call(c) == Move(c, "idle", "waiting")

Serve(c) == /\ \A d \in Calls : phase[d] # "serving"
            /\ Move(c, "waiting", "serving")

Answer(c) == Move(c, "serving", "ok")

Fail(c) == Move(c, "waiting", "err") \/ Move(c, "serving", "err")

Next == \E c \in Calls : Call(c) \/ Serve(c) \/ Answer(c) \/ Fail(c)

Spec == Init /\ [][Next]_phase
================================================================================
