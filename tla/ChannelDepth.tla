---------------------------- MODULE ChannelDepth ----------------------------
(***************************************************************************)
(* A channel of the pipeline, its depth counter and the ChannelDepth gauge *)
(* (internal/agent/agent.go).  The counter is an atomic beside the channel *)
(* and the gauge a copy of the counter: a goroutine that has sent          *)
(* (received) an item runs                                                 *)
(*   Add(1) or Add(-1);  v := Load();  gauge.Set(v)                        *)
(* and another goroutine can run between any two of these.                 *)
(***************************************************************************)
EXTENDS Integers, FiniteSets

CONSTANTS
  Producers,   \* the goroutines that send on the channel
  Consumer,    \* the one that receives from it
  Capacity     \* the channel's buffer

VARIABLES
  length,   \* how many items the channel holds
  depth,    \* the atomic counter
  gauge,    \* the gauge's value; it outlives the connection
  at,       \* at[g]: the statement goroutine g runs next, "idle" when none of these
  loaded,   \* loaded[g]: what g loaded and has not set yet, 0 otherwise
  mixed     \* updates of the gauge overlapped, or the channel is new, and no update
            \* has started alone since (history)

Goroutines == Producers \cup {Consumer}

\* The first connection's channel and counter, and the process's gauge.
Init ==
  /\ length = 0 /\ depth = 0 /\ gauge = 0
  /\ at     = [g \in Goroutines |-> "idle"]
  /\ loaded = [g \in Goroutines |-> 0]
  /\ mixed = FALSE

\* The next connection's; the gauge keeps its value.
Renew ==
  /\ length' = 0 /\ depth' = 0
  /\ at'     = [g \in Goroutines |-> "idle"]
  /\ loaded' = [g \in Goroutines |-> 0]
  /\ mixed' = TRUE
  /\ UNCHANGED gauge

Settled == \A g \in Goroutines : at[g] = "idle"

Send(p) ==
  /\ at[p] = "idle" /\ length < Capacity
  /\ length' = length + 1
  /\ at' = [at EXCEPT ![p] = "add"]
  /\ mixed' = ~Settled
  /\ UNCHANGED <<depth, gauge, loaded>>

Receive ==
  /\ at[Consumer] = "idle" /\ length > 0
  /\ length' = length - 1
  /\ at' = [at EXCEPT ![Consumer] = "add"]
  /\ mixed' = ~Settled
  /\ UNCHANGED <<depth, gauge, loaded>>

\* Faulty variant: what is received is not subtracted.
AddOnSendOnly(g) ==
  /\ at[g] = "add"
  /\ depth' = depth + (IF g = Consumer THEN 0 ELSE 1)
  /\ at' = [at EXCEPT ![g] = "load"]
  /\ UNCHANGED <<length, gauge, loaded, mixed>>

Add(g) ==
  /\ at[g] = "add"
  /\ depth' = depth + (IF g = Consumer THEN -1 ELSE 1)
  /\ at' = [at EXCEPT ![g] = "load"]
  /\ UNCHANGED <<length, gauge, loaded, mixed>>

Load(g) ==
  /\ at[g] = "load"
  /\ loaded' = [loaded EXCEPT ![g] = depth]
  /\ at' = [at EXCEPT ![g] = "set"]
  /\ UNCHANGED <<length, depth, gauge, mixed>>

\* Faulty variant: the consumer does not set the gauge.
SetBySendersOnly(g) ==
  /\ at[g] = "set"
  /\ gauge' = IF g = Consumer THEN gauge ELSE loaded[g]
  /\ loaded' = [loaded EXCEPT ![g] = 0]
  /\ at' = [at EXCEPT ![g] = "idle"]
  /\ UNCHANGED <<length, depth, mixed>>

Set(g) ==
  /\ at[g] = "set"
  /\ gauge' = loaded[g]
  /\ loaded' = [loaded EXCEPT ![g] = 0]
  /\ at' = [at EXCEPT ![g] = "idle"]
  /\ UNCHANGED <<length, depth, mixed>>

-----------------------------------------------------------------------------
(* Properties *)

\* The values the counter takes: the consumer can be ahead of every producer's
\* Add, and a full channel ahead of the consumer's.
Depths == -Cardinality(Producers) .. Capacity + 1

TypeOK ==
  /\ length \in 0 .. Capacity
  /\ depth \in Depths /\ gauge \in Depths
  /\ at \in [Goroutines -> {"idle", "add", "load", "set"}]
  /\ loaded \in [Goroutines -> Depths] /\ mixed \in BOOLEAN

\* The counter differs from the channel's length exactly by the Adds that are
\* still to come: it drifts for a moment and never for good.
DepthConserved ==
  depth = length - Cardinality({p \in Producers : at[p] = "add"})
                 + (IF at[Consumer] = "add" THEN 1 ELSE 0)

\* metrics.go: "Current number of items in pipeline channels".  Two Sets can come
\* in the wrong order and leave a wrong value at rest, but only when the updates
\* overlapped: the next update that runs alone repairs the gauge, also after a
\* reconnection.
GaugeRecovers == Settled /\ ~mixed => gauge = length
=============================================================================
