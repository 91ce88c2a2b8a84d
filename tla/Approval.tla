------------------------------ MODULE Approval ------------------------------
(***************************************************************************)
(* What the HITL bridge promises the tool that called askApproval: every   *)
(* request opens once and closes once, and it closes as approved or denied *)
(* only if a user really offered that decision.  How many server instances *)
(* there are, and how a decision travels between them, is not visible at   *)
(* this level; module Hitl implements it.                                  *)
(***************************************************************************)
CONSTANT Requests

Decisions == {"approved", "denied"}

\* The ways a request ends without a decision: the timer, the Stop button, a
\* failed command of the bus, the death of the instance that waits.
Endings == {"timeout", "aborted", "error", "lost"}

VARIABLES
  verdict,   \* what the caller of askApproval has seen of each request so far
  offered    \* the <<request, decision>> pairs users have posted

vars == <<verdict, offered>>

TypeOK ==
  /\ verdict \in [Requests -> {"none", "open"} \cup Decisions \cup Endings]
  /\ offered \subseteq Requests \X Decisions

Init ==
  /\ verdict = [r \in Requests |-> "none"]
  /\ offered = {}

\* A request may fail, or be called with an already aborted signal, at once.
Opens(r) ==
  /\ verdict[r] = "none"
  /\ verdict'[r] \in {"open", "aborted", "error"}

Ends(r) ==
  /\ verdict[r] = "open"
  /\ verdict'[r] \in Endings

Decides(r) ==
  /\ verdict[r] = "open"
  /\ verdict'[r] \in Decisions
  /\ <<r, verdict'[r]>> \in offered'

Next ==
  /\ offered \subseteq offered'
  /\ \A r \in Requests :
       verdict'[r] = verdict[r] \/ Opens(r) \/ Ends(r) \/ Decides(r)

Spec == Init /\ [][Next]_vars

=============================================================================
