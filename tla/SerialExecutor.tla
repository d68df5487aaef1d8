--------------------------- MODULE SerialExecutor ---------------------------
(***************************************************************************)
(* What the runtime queue promises its callers: it opens once and shuts    *)
(* once; while it is open, and as long as fewer than Capacity jobs wait, a *)
(* call is taken; taken jobs are executed one at a time, in the order they *)
(* came; every call gets exactly one answer, and a refused one is told     *)
(* why.  A job of Fatal may be executed for ever, and nothing after it.    *)
(* There are no tasks, no sentinel and no counters here.                   *)
(***************************************************************************)
EXTENDS Naturals, Sequences

CONSTANTS Jobs, Capacity, Fatal, NoJob

VARIABLES phase,    \* "new", "open" or "shut"
          backlog,  \* jobs that wait, oldest first
          running,  \* the job that is executed, or NoJob
          answer    \* of each call

vars == <<phase, backlog, running, answer>>

Init ==
    /\ phase = "new"
    /\ backlog = <<>>
    /\ running = NoJob
    /\ answer = [j \in Jobs |-> "new"]

Open ==
    /\ phase = "new"
    /\ phase' = "open"
    /\ UNCHANGED <<backlog, running, answer>>

Shut ==
    /\ phase' = "shut"
    /\ UNCHANGED <<backlog, running, answer>>

Offer(j) ==
    /\ phase = "open"
    /\ answer[j] = "new"
    /\ Len(backlog) < Capacity
    /\ backlog' = Append(backlog, j)
    /\ answer' = [answer EXCEPT ![j] = "pending"]
    /\ UNCHANGED <<phase, running>>

Refuse(j) ==
    /\ answer[j] = "new"
    /\ \E why \in {"not_started", "closed", "full"} :
           /\ why = "not_started" => phase = "new"
           /\ why = "closed" => phase = "shut"
           /\ why = "full" => phase = "open" /\ Len(backlog) = Capacity
           /\ answer' = [answer EXCEPT ![j] = why]
    /\ UNCHANGED <<phase, backlog, running>>

GiveUp(j) ==
    /\ answer[j] = "pending"
    /\ answer' = [answer EXCEPT ![j] = "cancelled"]
    /\ UNCHANGED <<phase, backlog, running>>

Begin ==
    /\ running = NoJob
    /\ backlog # <<>>
    /\ running' = Head(backlog)
    /\ backlog' = Tail(backlog)
    /\ UNCHANGED <<phase, answer>>

Finish ==
    /\ running # NoJob
    /\ running' = NoJob
    /\ IF answer[running] = "pending"
       THEN \E outcome \in {"value", "error"} :
                answer' = [answer EXCEPT ![running] = outcome]
       ELSE answer' = answer
    /\ UNCHANGED <<phase, backlog>>

Next == \/ Open \/ Shut \/ Begin \/ Finish
        \/ \E j \in Jobs : Offer(j) \/ Refuse(j) \/ GiveUp(j)

SafeSpec == Init /\ [][Next]_vars

\* It is never idle for ever while something waits, and an ordinary job ends.
Spec == SafeSpec /\ WF_vars(Begin) /\ WF_vars(running \notin Fatal /\ Finish)
=============================================================================
