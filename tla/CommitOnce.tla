----------------------------- MODULE CommitOnce -----------------------------
(***************************************************************************)
(* What a caller of a handler may count on, whatever the transactions      *)
(* provider does in between: the handler's transaction takes effect at     *)
(* most once, never after the answer, and a call that is answered "ok" has *)
(* taken effect.  An error leaves open whether it has.                     *)
(***************************************************************************)
EXTENDS Integers

CONSTANT Requests

VARIABLES
    applied,   \* applied[r]: how often r's transaction took effect
    answer     \* answer[r]: "none", "ok" or "error"

Init ==
    /\ applied = [r \in Requests |-> 0]
    /\ answer = [r \in Requests |-> "none"]

Apply(r) ==
    /\ answer[r] = "none"
    /\ applied[r] = 0
    /\ applied' = [applied EXCEPT ![r] = 1]
    /\ UNCHANGED answer

\* Several callers may be answered at once, when a service restarts.
Answer ==
    /\ \A r \in Requests :
          \/ answer'[r] = answer[r]
          \/ answer[r] = "none" /\ answer'[r] = "error"
          \/ answer[r] = "none" /\ answer'[r] = "ok" /\ applied[r] = 1
    /\ UNCHANGED applied

Next == Answer \/ \E r \in Requests : Apply(r)

Spec == Init /\ [][Next]_<<applied, answer>>
=============================================================================
