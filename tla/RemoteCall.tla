------------------------------ MODULE RemoteCall ------------------------------
(***************************************************************************)
(* What stream.Sender.Send promises its callers: the command of a call is  *)
(* executed by the worker at most once, and a call that returns a result   *)
(* returns the result of its own execution.  A call may return an error at *)
(* any time, also when its command was, is being or will be executed.      *)
(***************************************************************************)
CONSTANT Calls

VARIABLES
  answer,   \* what Send returned, "none" before it returns
  exec      \* the execution of the call's command by the worker

Init ==
  /\ answer = [c \in Calls |-> "none"]
  /\ exec = [c \in Calls |-> "none"]

Start(c) ==
  /\ exec[c] = "none"
  /\ exec' = [exec EXCEPT ![c] = "running"]
  /\ UNCHANGED answer

Finish(c) ==
  /\ exec[c] = "running"
  /\ \E x \in {"success", "failure"} : exec' = [exec EXCEPT ![c] = x]
  /\ UNCHANGED answer

Return(c) ==
  /\ answer[c] = "none"
  /\ answer' = [answer EXCEPT ![c] = exec[c]]
  /\ exec[c] \in {"success", "failure"}
  /\ UNCHANGED exec

Fail(c) ==
  /\ answer[c] = "none"
  /\ answer' = [answer EXCEPT ![c] = "error"]
  /\ UNCHANGED exec

Next == \E c \in Calls : Start(c) \/ Finish(c) \/ Return(c) \/ Fail(c)

Spec == Init /\ [][Next]_<<answer, exec>>
=============================================================================
