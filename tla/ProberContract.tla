--------------------------- MODULE ProberContract ---------------------------
(***************************************************************************)
(* What a Prober promises its callers (the interface comment of prober.go, *)
(* read with the two implementations): a Probe call that has started ends  *)
(* at most once, with exactly one of                                       *)
(*   "reply"      a result with TimedOut = FALSE,                          *)
(*   "timeout"    a result with TimedOut = TRUE,                           *)
(*   "duplicate"  ErrDuplicatePD, and only while another call for the same *)
(*                probe is still running,                                  *)
(*   "cancelled"  ctx.Err(), and only once ctx is done.                    *)
(* That the call does end is the liveness half of the contract; it is      *)
(* checked separately because the caracal prober breaks it.                *)
(***************************************************************************)
CONSTANTS
  Calls,    \* the Probe calls
  Flows,    \* what a probe is about: destination, header fields, TTL, protocol
  None      \* no value

VARIABLES
  status,   \* status[c]: "idle", "pending" or "returned"
  probing,  \* probing[c]: the flow call c probes, None before it starts
  answer,   \* answer[c]: how call c returned, "none" before it does
  ctxDone   \* the callers' context is done

vars == <<status, probing, answer, ctxDone>>

Answers == {"reply", "timeout", "duplicate", "cancelled"}

Init ==
  /\ status  = [c \in Calls |-> "idle"]
  /\ probing = [c \in Calls |-> None]
  /\ answer  = [c \in Calls |-> "none"]
  /\ ctxDone = FALSE

Start(c, f) ==
  /\ status[c] = "idle"
  /\ status'  = [status EXCEPT ![c] = "pending"]
  /\ probing' = [probing EXCEPT ![c] = f]
  /\ UNCHANGED <<answer, ctxDone>>

Return(c, a) ==
  /\ status[c] = "pending"
  /\ a = "duplicate" => \E d \in Calls \ {c} : /\ status[d] = "pending"
                                               /\ probing[d] = probing[c]
  /\ a = "cancelled" => ctxDone
  /\ status' = [status EXCEPT ![c] = "returned"]
  /\ answer' = [answer EXCEPT ![c] = a]
  /\ UNCHANGED <<probing, ctxDone>>

Cancel ==
  /\ ctxDone' = TRUE
  /\ UNCHANGED <<status, probing, answer>>

Next ==
  \/ \E c \in Calls, f \in Flows : Start(c, f)
  \/ \E c \in Calls, a \in Answers : Return(c, a)
  \/ Cancel

Spec == Init /\ [][Next]_vars
=============================================================================
