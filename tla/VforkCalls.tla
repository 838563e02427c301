----------------------------- MODULE VforkCalls -----------------------------
(***************************************************************************)
(* What vfork, exit and wait4 promise to programs, without slots, pointers *)
(* or page tables.  A vfork is a procedure call: the caller is suspended   *)
(* where it stands, the callee runs, and its exit returns the callee's pid *)
(* to the caller in the context the caller was suspended in.  Every exit   *)
(* leaves a zombie, which is reaped at most once and hands over the status *)
(* the process exited with.                                                *)
(***************************************************************************)
EXTENDS Integers

CONSTANTS Points  \* user contexts

VARIABLES
    calls,    \* pids of the processes that have not exited
    resume,   \* suspended pid -> context it returns to
    zombies,  \* [pid, ppid, status] of processes exited and not reaped
    at,       \* context of the running process
    rax,      \* result of its last call
    wstatus   \* status its last wait4 stored

vars == <<calls, resume, zombies, at, rax, wstatus>>

(* The running process is the last one called. *)
IsTop(p) == p \in calls /\ \A q \in calls : q <= p
IsCaller(q, p) == q \in calls \ {p} /\ \A r \in calls \ {p} : r <= q
ZombiePids == {z.pid : z \in zombies}

Init ==
    /\ calls = {}
    /\ resume = [p \in {} |-> 0]
    /\ zombies = {}
    /\ at = 0 /\ rax = 0 /\ wstatus = 0

Boot ==
    /\ calls = {} /\ zombies = {}
    /\ \E p \in calls' : p \in Nat \ {0} /\ calls' = {p}
    /\ at' \in Points
    /\ UNCHANGED <<resume, zombies, rax, wstatus>>

(* vfork: a process with a new, larger pid runs in the context of its caller. *)
Call ==
    \E p \in calls, new \in calls' :
        /\ IsTop(p)
        /\ new \in Nat /\ new > p /\ new \notin ZombiePids
        /\ calls' = calls \cup {new}
        /\ resume' = [q \in calls |-> IF q = p THEN at ELSE resume[q]]
        /\ rax' = 0
        /\ UNCHANGED <<zombies, at, wstatus>>

(* exit: the caller goes on where it was suspended. *)
Exit ==
    \E p, q \in calls, z \in zombies' :
        /\ IsTop(p) /\ IsCaller(q, p)
        /\ z.pid = p /\ z.ppid = q /\ z.status \in 0 .. 255
        /\ calls' = calls \ {p}
        /\ resume' = [r \in calls \ {p, q} |-> resume[r]]
        /\ zombies' = zombies \cup {z}
        /\ at' = resume[q]
        /\ rax' = p
        /\ UNCHANGED wstatus

(* The first process exits: there is nobody to return to. *)
Halt ==
    \E p \in calls, z \in zombies' :
        /\ calls = {p}
        /\ z.pid = p /\ z.status \in 0 .. 255
        /\ calls' = {}
        /\ zombies' = zombies \cup {z}
        /\ UNCHANGED <<resume, at, rax, wstatus>>

(* wait4: the running process reaps a child of its own, or a zombie whose  *)
(* parent is neither running, nor suspended, nor itself waiting to be reaped. *)
Wait ==
    \E p \in calls, z \in zombies :
        /\ IsTop(p)
        /\ z.ppid = p \/ z.ppid \notin calls \cup ZombiePids
        /\ zombies' = zombies \ {z}
        /\ rax' = z.pid
        /\ wstatus' \in {wstatus, z.status * 256}
        /\ UNCHANGED <<calls, resume, at>>

(* Everything else leaves the family of processes alone. *)
Run ==
    /\ calls # {}
    /\ at' \in Points /\ rax' \in Int
    /\ UNCHANGED <<calls, resume, zombies, wstatus>>

Next == Boot \/ Call \/ Exit \/ Halt \/ Wait \/ Run
Spec == Init /\ [][Next]_vars
=============================================================================
