------------------------- MODULE ProcessRefinement -------------------------
(***************************************************************************)
(* Process implements VforkCalls: a pid is suspended when its slot is      *)
(* BLOCKED, and returns to the frame saved in the slot of the process it   *)
(* is the vfork parent of.                                                 *)
(***************************************************************************)
EXTENDS Process

PidsIn(states) == {processes[s].pid : s \in {t \in Slots : processes[t].state \in states}}

(* The slot whose exit resumes the process with pid p. *)
Resumer(p) ==
    CHOOSE c \in Slots :
        /\ IsAlive(c)
        /\ processes[c].vfork_parent # NULL
        /\ processes[processes[c].vfork_parent].pid = p

Remains(s) == [pid |-> processes[s].pid, ppid |-> processes[s].ppid, status |-> processes[s].exit_status]

Calls == PidsIn({"RUNNING", "BLOCKED"})
Resume == [p \in PidsIn({"BLOCKED"}) |-> processes[Resumer(p)].saved_parent_frame]
Zombies == {Remains(s) : s \in {t \in Slots : processes[t].state = "ZOMBIE"}}

Family == INSTANCE VforkCalls WITH calls <- Calls, resume <- Resume, zombies <- Zombies

(* vfork, exit and wait4 behave as calls, returns and reaps: the parent      *)
(* resumes with the child's pid in the context it called from however many   *)
(* vforks, execves and reaps happened meanwhile, and wait4 delivers each     *)
(* exit status once, to the parent or, when the parent is gone from the      *)
(* table, to the process that reuses its slot.                               *)
ImplementsVforkCalls == Family!Spec
=============================================================================
