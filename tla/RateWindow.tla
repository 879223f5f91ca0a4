------------------------------ MODULE RateWindow ------------------------------
(***************************************************************************)
(* What a limiter's counters promise, whatever they are kept in: the first *)
(* request of a subject opens a window of a given length, the window ends  *)
(* that long after it, and every request in it is counted once.            *)
(***************************************************************************)
EXTENDS Integers

CONSTANTS
  Subjects,  \* users and addresses
  Lengths    \* how long a window may last, in ticks

VARIABLES
  used,  \* requests counted in the window of a subject; 0: it has none
  left   \* how long its window still lasts

vars == <<used, left>>

Init == used = [s \in Subjects |-> 0] /\ left = [s \in Subjects |-> 0]

\* RateLimitStore.hit, when the policy's window is w.
Request(s, w) ==
  \/ /\ used[s] = 0
     /\ left' = [left EXCEPT ![s] = w]
     /\ used' = [used EXCEPT ![s] = 1]
  \/ /\ used[s] > 0
     /\ used' = [used EXCEPT ![s] = @ + 1]
     /\ UNCHANGED left

\* RateLimitStore.reset
Release(s) ==
  /\ used' = [used EXCEPT ![s] = 0]
  /\ left' = [left EXCEPT ![s] = 0]

Tick ==
  /\ left' = [s \in Subjects |-> IF left[s] > 0 THEN left[s] - 1 ELSE 0]
  /\ used' = [s \in Subjects |-> IF left[s] > 1 THEN used[s] ELSE 0]

\* The counters are in memory.
Forget == used' = [s \in Subjects |-> 0] /\ left' = [s \in Subjects |-> 0]

Next == (\E s \in Subjects : (\E w \in Lengths : Request(s, w)) \/ Release(s)) \/ Tick \/ Forget

Spec == Init /\ [][Next]_vars
=============================================================================
