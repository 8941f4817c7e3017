------------------------------ MODULE OneShot ------------------------------
(* What delay_exec promises (src/include/DelayExec.hpp:28-36): a request is *)
(* accepted or refused, an accepted one runs its callback exactly once, a   *)
(* refused one never.                                                       *)
EXTENDS Naturals

CONSTANT Requests

VARIABLES
    answer,  \* what the caller knows: "none", "accepted", "refused"
    ran      \* how often the callback was run

Init == answer = [r \in Requests |-> "none"] /\ ran = [r \in Requests |-> 0]

Accept(r) == /\ answer[r] = "none" /\ answer' = [answer EXCEPT ![r] = "accepted"]
             /\ UNCHANGED ran
Refuse(r) == /\ answer[r] = "none" /\ answer' = [answer EXCEPT ![r] = "refused"]
             /\ UNCHANGED ran
Run(r) == /\ answer[r] = "accepted" /\ ran[r] = 0
          /\ ran' = [ran EXCEPT ![r] = 1]
          /\ UNCHANGED answer

Next == \E r \in Requests : Accept(r) \/ Refuse(r) \/ Run(r)

Spec == Init /\ [][Next]_<<answer, ran>>
=============================================================================
