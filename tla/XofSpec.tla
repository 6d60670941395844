------------------------------ MODULE XofSpec -------------------------------
(***************************************************************************)
(* What an extendable-output function promises its caller, whatever the    *)
(* implementation: the output depends only on the message, never on how    *)
(* the message was cut into absorb calls or the output into squeeze calls, *)
(* and successive squeezes return successive bytes of one stream.          *)
(***************************************************************************)
EXTENDS Sponge

VARIABLES
  phase,  \* "none", "absorb" or "squeeze"
  n,      \* message bytes handed over
  m,      \* output bytes delivered
  out     \* the caller's output buffer

vars == <<phase, n, m, out>>

Init ==
  /\ phase = "none"
  /\ n = 0
  /\ m = 0
  /\ out = EmptyBuffer

\* A new digest whose first k message bytes are already handed over.
Begin(k) ==
  /\ phase' = "absorb"
  /\ n' = k
  /\ m' = 0
  /\ out' = EmptyBuffer

Absorb(k) ==
  /\ phase = "absorb"
  /\ n + k <= MaxIn
  /\ n' = n + k
  /\ UNCHANGED <<phase, m, out>>

Finalize ==
  /\ phase = "absorb"
  /\ phase' = "squeeze"
  /\ UNCHANGED <<n, m, out>>

\* The next k bytes of the stream, and nothing else, reach the buffer; the
\* digest may end with them.
Squeeze(k) ==
  /\ phase = "squeeze"
  /\ m + k <= MaxOut
  /\ m' = m + k
  /\ out' = [j \in 0 .. MaxOut - 1 |->
               IF m <= j /\ j < m + k THEN Stream(n, j) ELSE out[j]]
  /\ phase' \in {"squeeze", "none"}
  /\ UNCHANGED n

Drop ==
  /\ phase' = "none"
  /\ UNCHANGED <<n, m, out>>

Next ==
  \/ \E k \in 0 .. MaxIn : Begin(k) \/ Absorb(k)
  \/ Finalize
  \/ \E k \in 0 .. MaxOut : Squeeze(k)
  \/ Drop

Spec == Init /\ [][Next]_vars
=============================================================================
