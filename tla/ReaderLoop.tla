----------------------------- MODULE ReaderLoop -----------------------------
(***************************************************************************)
(* How readerLoop and handleDecodeError (internal/agent/agent.go) judge    *)
(* what framing.Receive yields, and when they give the connection up.      *)
(*                                                                         *)
(* A read yields one of                                                    *)
(*   "directive"  a frame with a valid directive,                          *)
(*   "invalid"    a frame ProbingDirectiveFromProto or validatePD refuses, *)
(*   "silence"    no byte before ReadDeadline,                             *)
(*   "partial"    some bytes of a frame before ReadDeadline,               *)
(*   "malformed"  an error that is none of the other kinds,                *)
(*   "violation"  framing.ErrProtocolViolation,                            *)
(*   "network"    EOF or another network error.                            *)
(* framing is external; today it reports no "malformed" read, but the code *)
(* has the branch and a configuration field for it.  It wraps a timeout    *)
(* inside a frame in ErrProtocolViolation.  readerLoop looks for a network *)
(* timeout in the error's chain first, so such a read is "partial" and     *)
(* counted if framing keeps the timeout in the chain, and "violation" if   *)
(* it does not; both are here.                                             *)
(***************************************************************************)
EXTENDS Integers

CONSTANTS
  MaxConsecutiveReadTimeouts,   \* maxConsecutiveReadTimeouts
  MaxConsecutiveDecodeErrors    \* cfg.MaxConsecutiveDecodeErrors, 0 = no limit

ASSUME ReaderAssumption ==
  /\ MaxConsecutiveReadTimeouts \in Nat \ {0}
  /\ MaxConsecutiveDecodeErrors \in Nat

VARIABLES
  groupDone,      \* the group's context is done: shutdown, or another loop failed
  state,          \* "receive", "select" (has a directive for pds) or "ended"
  timeouts,       \* consecutiveTimeouts
  decodeErrors,   \* consecutiveDecodeErrors
  verdict,        \* why it ended: "none" yet, "cancelled", "timeouts", "lost", "broken"
  quiet,          \* reads without a byte since bytes last arrived (history)
  idle,           \* reads that met their deadline since a valid directive (history)
  garbage         \* malformed reads since a valid directive last arrived (history)

readerVars == <<groupDone, state, timeouts, decodeErrors, verdict, quiet, idle, garbage>>

\* Bound on the counters where nothing in the code bounds them.
DecodeErrorBound == IF MaxConsecutiveDecodeErrors = 0 THEN 3 ELSE MaxConsecutiveDecodeErrors

ReaderInit ==
  /\ groupDone = FALSE /\ state = "receive" /\ verdict = "none"
  /\ timeouts = 0 /\ decodeErrors = 0
  /\ quiet = 0 /\ idle = 0 /\ garbage = 0

\* The outcomes with a network timeout in the error's chain.
Late == {"silence", "partial"}

\* Such reads are counted up to the limit: more make no difference.
OneMore(n) == IF n < MaxConsecutiveReadTimeouts THEN n + 1 ELSE n

\* What the wire did, for the properties.
Observe(outcome) ==
  /\ quiet'   = IF outcome = "silence" THEN OneMore(quiet) ELSE 0
  /\ idle'    = CASE outcome = "directive" -> 0
                  [] outcome \in Late      -> OneMore(idle)
                  [] OTHER                 -> idle
  /\ garbage' = CASE outcome = "directive" -> 0
                  [] outcome = "malformed" -> garbage + 1
                  [] OTHER                 -> garbage

End(why) == state' = "ended" /\ verdict' = why

\* A read error while the context is done ends the loop, whatever the error is.
ReadCancelled(outcome) ==
  /\ state = "receive" /\ groupDone
  /\ End("cancelled") /\ Observe(outcome)
  /\ UNCHANGED <<groupDone, timeouts, decodeErrors>>

\* Faulty variant: one timeout too many is tolerated.
ReadTimesOutLate(outcome) ==
  /\ state = "receive" /\ ~groupDone /\ outcome \in Late
  /\ Observe(outcome)
  /\ timeouts' = timeouts + 1
  /\ \/ timeouts' > MaxConsecutiveReadTimeouts /\ End("timeouts")
     \/ timeouts' <= MaxConsecutiveReadTimeouts /\ UNCHANGED <<state, verdict>>
  /\ UNCHANGED <<groupDone, decodeErrors>>

\* Faulty variant: the count wraps instead of ending the loop.
ReadTimesOutForever(outcome) ==
  /\ state = "receive" /\ ~groupDone /\ outcome \in Late
  /\ Observe(outcome)
  /\ timeouts' = (timeouts + 1) % MaxConsecutiveReadTimeouts
  /\ UNCHANGED <<groupDone, decodeErrors, state, verdict>>

ReadTimesOut(outcome) ==
  /\ state = "receive" /\ ~groupDone /\ outcome \in Late
  /\ Observe(outcome)
  /\ timeouts' = timeouts + 1
  /\ \/ timeouts' >= MaxConsecutiveReadTimeouts /\ End("timeouts")
     \/ timeouts' < MaxConsecutiveReadTimeouts /\ UNCHANGED <<state, verdict>>
  /\ UNCHANGED <<groupDone, decodeErrors>>

\* handleDecodeError: the connection is lost.  Only errors without a network
\* timeout in their chain come here.
ReadFails(outcome) ==
  /\ state = "receive" /\ ~groupDone /\ outcome \in {"violation", "network"}
  /\ Observe(outcome)
  /\ timeouts' = 0
  /\ End("lost")
  /\ UNCHANGED <<groupDone, decodeErrors>>

\* handleDecodeError: count the error, skip it or give up.
ReadMalformed ==
  /\ state = "receive" /\ ~groupDone /\ decodeErrors < DecodeErrorBound
  /\ Observe("malformed")
  /\ timeouts' = 0 /\ decodeErrors' = decodeErrors + 1
  /\ \/ /\ MaxConsecutiveDecodeErrors > 0 /\ decodeErrors' >= MaxConsecutiveDecodeErrors
        /\ End("broken")
     \/ /\ MaxConsecutiveDecodeErrors = 0 \/ decodeErrors' < MaxConsecutiveDecodeErrors
        /\ UNCHANGED <<state, verdict>>
  /\ UNCHANGED groupDone

\* A frame arrived, but its directive is refused: neither counter moves.
ReadInvalid ==
  /\ state = "receive"
  /\ Observe("invalid")
  /\ UNCHANGED <<groupDone, state, timeouts, decodeErrors, verdict>>

\* Faulty variant: a directive clears only the decode errors.
ReadDirectiveKeepsTimeouts ==
  /\ state = "receive"
  /\ Observe("directive")
  /\ decodeErrors' = 0
  /\ state' = "select"
  /\ UNCHANGED <<groupDone, timeouts, verdict>>

ReadDirective ==
  /\ state = "receive"
  /\ Observe("directive")
  /\ decodeErrors' = 0 /\ timeouts' = 0
  /\ state' = "select"
  /\ UNCHANGED <<groupDone, verdict>>

\* The directive enters pds ...
Queue ==
  /\ state = "select"
  /\ state' = "receive"
  /\ UNCHANGED <<groupDone, timeouts, decodeErrors, verdict, quiet, idle, garbage>>

\* ... or the context is done first.
SelectCancelled ==
  /\ state = "select" /\ groupDone
  /\ End("cancelled")
  /\ UNCHANGED <<groupDone, timeouts, decodeErrors, quiet, idle, garbage>>

ReaderNext ==
  \/ \E o \in Late \cup {"malformed", "violation", "network"} : ReadCancelled(o)
  \/ \E o \in {"violation", "network"} : ReadFails(o)
  \/ \E o \in Late : ReadTimesOut(o)
  \/ ReadMalformed \/ ReadInvalid \/ ReadDirective
  \/ Queue \/ SelectCancelled

\* The context is cancelled from outside the loop.
CancelGroup ==
  /\ ~groupDone
  /\ groupDone' = TRUE
  /\ UNCHANGED <<state, timeouts, decodeErrors, verdict, quiet, idle, garbage>>

ReaderSpec == ReaderInit /\ [][ReaderNext \/ CancelGroup]_readerVars

-----------------------------------------------------------------------------
(* Properties *)

ReaderTypeOK ==
  /\ groupDone \in BOOLEAN
  /\ state \in {"receive", "select", "ended"}
  /\ timeouts \in 0 .. MaxConsecutiveReadTimeouts
  /\ decodeErrors \in 0 .. DecodeErrorBound
  /\ verdict \in {"none", "cancelled", "timeouts", "lost", "broken"}
  /\ quiet \in 0 .. MaxConsecutiveReadTimeouts
  /\ idle \in 0 .. MaxConsecutiveReadTimeouts
  /\ garbage \in Nat

\* A hopeless connection is always given up: the loop goes on only while fewer
\* than maxConsecutiveReadTimeouts reads in a row brought nothing, and fewer than
\* MaxConsecutiveDecodeErrors were malformed since the last valid directive,
\* however timeouts, decode errors, invalid and valid directives are mixed.
HopelessPeerLeft ==
  state # "ended" =>
    /\ quiet < MaxConsecutiveReadTimeouts
    /\ MaxConsecutiveDecodeErrors > 0 => garbage < MaxConsecutiveDecodeErrors

\* The loop gives up for timeouts only if that many reads met their deadline since
\* the last directive it accepted, be it before a frame or inside one: a directive
\* restarts the count, and no other outcome adds to it.
DeadSinceDirective == verdict = "timeouts" => idle >= MaxConsecutiveReadTimeouts
=============================================================================
