------------------------------ MODULE MCRouter ------------------------------
(* Router on small instances. *)
EXTENDS Router, TLC

CONSTANTS q1, q2, c1, e1, t1, t2, r1, r2, r3

MCTargets == {"m1"}
MCTarget == [e \in Revisions |-> "m1"]
(* Enough writes to create, finalize, admit and delete a check. *)
MCMaxRV == [c \in Checks |-> 4]

Symmetry == Permutations(Requests)

(***************************************************************************)
(* The steps of a router process that is not restarted, beside a Secret    *)
(* that is not rotated: Next without Restart and WriteSecret.              *)
(***************************************************************************)
LiveNext ==
    \/ \E c \in Checks :
          \/ CreateCheck(c)       \/ AddDrainFinalizer(c)  \/ Admit(c)
          \/ WithdrawAdmission(c) \/ DeleteCheck(c)        \/ Vanish(c)
          \/ ChangeEndpoint(c)
    \/ \E p \in Procs : Lock(p)
    \/ RefreshStep
    \/ RequestStep
    \/ StopWithdraw \/ StopDrained

LiveSpec == Init /\ [][LiveNext]_vars /\ Fairness
=============================================================================
