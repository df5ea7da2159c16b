--------------------------- MODULE TaskLifecycle ---------------------------
(***************************************************************************)
(* What POST /api/tasks and the read routes promise about one task, as its *)
(* client sees it: the status the read routes return ("absent" while they  *)
(* answer TASK_NOT_FOUND) and the answer to the POST.                      *)
(*                                                                         *)
(* The promise: a task becomes visible once, it is settled at most once,   *)
(* nothing about it changes after its POST has been answered, and the      *)
(* answer tells which of these happened.                                   *)
(***************************************************************************)
CONSTANT Requests

VARIABLES
    status,   \* status[r]: what a read of r's task returns
    answer    \* answer[r]: the answer to r's POST

lifecycleVars == <<status, answer>>

Settled == {"finished", "partial_success", "failed"}
Statuses == {"absent", "pending"} \cup Settled
Answers == {"none", "created", "invalid", "error"}

LifecycleTypeOK ==
    /\ status \in [Requests -> Statuses]
    /\ answer \in [Requests -> Answers]

LifecycleInit ==
    /\ status = [r \in Requests |-> "absent"]
    /\ answer = [r \in Requests |-> "none"]

\* A request that names no task is refused and leaves nothing behind.
Refuse(r) ==
    /\ status[r] = "absent"
    /\ answer[r] = "none"
    /\ answer' = [answer EXCEPT ![r] = "invalid"]
    /\ UNCHANGED status

\* The task becomes visible while its POST is still being worked on.
Publish(r) ==
    /\ status[r] = "absent"
    /\ answer[r] = "none"
    /\ status' = [status EXCEPT ![r] = "pending"]
    /\ UNCHANGED answer

\* The task becomes visible, settled or never to be, and the POST is answered.
PublishAndAnswer(r) ==
    /\ status[r] = "absent"
    /\ answer[r] = "none"
    /\ status' \in {[status EXCEPT ![r] = s] : s \in Statuses \ {"absent"}}
    /\ answer' = [answer EXCEPT ![r] = "created"]

\* A visible task is settled, as finished or as failed, and the POST answered.
SettleAndAnswer(r) ==
    /\ status[r] = "pending"
    /\ answer[r] = "none"
    /\ status' \in {[status EXCEPT ![r] = s] : s \in {"finished", "failed"}}
    /\ answer' = [answer EXCEPT ![r] = "created"]

\* The platform gives up on a visible task: it stays pending for good.
Abandon(r) ==
    /\ status[r] = "pending"
    /\ answer[r] = "none"
    /\ answer' = [answer EXCEPT ![r] = "error"]
    /\ UNCHANGED status

LifecycleNext ==
    \E r \in Requests :
        \/ Refuse(r)
        \/ Publish(r)
        \/ PublishAndAnswer(r)
        \/ SettleAndAnswer(r)
        \/ Abandon(r)

LifecycleSpec == LifecycleInit /\ [][LifecycleNext]_lifecycleVars

============================================================================
