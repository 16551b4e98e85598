-------------------------------- MODULE Tcb --------------------------------
(***************************************************************************)
(* The thread control block of src/tcb.cpp: the thread states, the table   *)
(* of transitions that TCB::setState accepts, and the normalisation that   *)
(* the constructor and the setters apply to their arguments.  Everything   *)
(* here is constant level; the modules that keep TCBs as state extend it.  *)
(***************************************************************************)
EXTENDS Integers

ThreadState == {"READY", "RUNNING", "BLOCKED", "FINISHED"}

\* Mutant: a FINISHED thread may be made READY again.
MutantSuccessors == [READY    |-> {"RUNNING"},
                     RUNNING  |-> {"READY", "BLOCKED", "FINISHED"},
                     BLOCKED  |-> {"READY"},
                     FINISHED |-> {"READY"}]

\* The states that setState may enter from each state.
Successors == [READY    |-> {"RUNNING"},
               RUNNING  |-> {"READY", "BLOCKED", "FINISHED"},
               BLOCKED  |-> {"READY"},
               FINISHED |-> {}]

\* The return value of TCB::setState.
SetStateOk(old, new) == new \in Successors[old]

\* TCB::setState: a refused transition leaves the state as it was.
AfterSetState(old, new) == IF SetStateOk(old, new) THEN new ELSE old

\* Mutant: finished_ is set although the transition was refused.
MutantAfterMarkFinished(old, finished) == TRUE

\* TCB::markFinished sets finished_ only if the transition is accepted.
AfterMarkFinished(old, finished) == finished \/ SetStateOk(old, "FINISHED")

MinPriority == 1
MaxPriority == 10

\* std::clamp(priority, 1, 10), in the constructor and in setPriority.
ClampPriority(p) == IF p < MinPriority THEN MinPriority
                    ELSE IF p > MaxPriority THEN MaxPriority ELSE p

\* TCB::setBurstTime replaces a non-positive burst by 1.
ClampBurst(b) == IF b > 0 THEN b ELSE 1

\* first_run_tick_ and finish_tick_ before they are recorded.
NoTick == -1
=============================================================================
