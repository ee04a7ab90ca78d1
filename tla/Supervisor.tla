----------------------------- MODULE Supervisor -----------------------------
(***************************************************************************)
(* process() of Global/processHandler/CProcessHandler.cpp: the parent of    *)
(* every controller forks it as a child, waits for it, and forks it again   *)
(* unless it was told to stop.  Signals reach the parent, the child or      *)
(* both, at any moment; a handler suspends the main line of its process.    *)
(*                                                                          *)
(* Children are numbered in the order of their creation; their pids are     *)
(* not reused.  "jobs" and "regular" are history.                           *)
(***************************************************************************)
EXTENDS Naturals, FiniteSets

CONSTANTS
    MaxFork,    \* bound: children forked
    MaxSignal,  \* bound: signals that stop the parent or a child
    MaxEnd,     \* bound: children that crash or return by themselves
    MaxJob      \* bound: job-control signals (stop and continue) to children

ASSUME SupervisorConstantsOK ==
    MaxFork \in Nat \ {0} /\ MaxSignal \in Nat /\ MaxEnd \in Nat /\ MaxJob \in Nat

VARIABLES
    parent,     \* where process() stands
    flag,       \* of the parent
    handling,   \* the parent is inside PSigHander
    installed,  \* the parent has installed PSigHander
    child_pid,  \* as the parent knows it, 0 for -1
    forks,      \* children forked so far
    child,      \* by pid: how far it is
    stopped,    \* by pid: it is stopped
    report,     \* a stop or continue that waitpid has not reported yet
    status,     \* what the last waitpid reported
    spent,      \* bounds: signals, ends and job-control signals so far
    jobs,       \* history: stops and continues that waitpid reported
    regular     \* history: none was, and no signal came while child_pid was out of date

vars == <<parent, flag, handling, installed, child_pid, forks, child, stopped, report, status,
          spent, jobs, regular>>
mainVars == <<parent, flag, handling, installed, child_pid, forks, status, jobs>>
handlerVars == <<flag, handling, installed>>
childVars == <<child, stopped, report>>
history == <<jobs, regular>>

Pid == 1..MaxFork

Dead == {"exited", "crashed", "terminated", "killed"}

Living == {"new", "run", "asked", "doomed"}

ChildPc == Living \cup Dead \cup {"none", "reaped"}

Spent == [signal : 0..MaxSignal, end : 0..MaxEnd, job : 0..MaxJob]

ParentOK ==
    /\ parent \in {"fork", "assign", "install", "wait", "close", "done", "dead"}
    /\ forks \in 0..MaxFork
    /\ child_pid \in 0..forks
    /\ status \in Dead \cup {"none", "job"}
    /\ jobs \in Nat
    /\ parent \in {"install", "wait", "close"} => child_pid = forks
    /\ parent \in {"assign", "install", "wait", "close"} => forks > 0

HandlerOK ==
    /\ flag \in BOOLEAN /\ handling \in BOOLEAN /\ installed \in BOOLEAN
    /\ regular \in BOOLEAN
    /\ handling => installed /\ flag

ChildrenOK ==
    /\ child \in [Pid -> ChildPc]
    /\ stopped \in [Pid -> BOOLEAN]
    /\ report \in [Pid -> BOOLEAN]
    /\ \A p \in Pid : child[p] = "none" <=> p > forks

TypeOK == ParentOK /\ HandlerOK /\ ChildrenOK /\ spent \in Spent

Init ==
    /\ parent = "fork"
    /\ flag = FALSE /\ handling = FALSE /\ installed = FALSE
    /\ child_pid = 0 /\ forks = 0
    /\ child = [p \in Pid |-> "none"]
    /\ stopped = [p \in Pid |-> FALSE]
    /\ report = [p \in Pid |-> FALSE]
    /\ status = "none"
    /\ spent = [signal |-> 0, end |-> 0, job |-> 0]
    /\ jobs = 0 /\ regular = TRUE

Alive == {p \in Pid : child[p] \in Living}

\* A child that is killed dies even when it is stopped.
Kill(S) ==
    /\ child' = [p \in Pid |-> IF p \in S \cap Alive THEN "killed" ELSE child[p]]
    /\ stopped' = [p \in Pid |-> stopped[p] /\ p \notin S]

-----------------------------------------------------------------------------
(* The main line of the parent *)

Main(from) == parent = from /\ ~handling

Fork ==
    /\ Main("fork")
    /\ forks < MaxFork
    /\ forks' = forks + 1
    /\ child' = [child EXCEPT ![forks + 1] = "new"]
    /\ parent' = "assign"
    /\ UNCHANGED <<handlerVars, history, child_pid, report, status, spent, stopped>>

\* fork fails: exit(EXIT_FAILURE).
ForkFails ==
    /\ Main("fork")
    /\ parent' = "dead"
    /\ UNCHANGED <<handlerVars, childVars, history, child_pid, forks, status, spent>>

\* child_pid = fork(): the child runs before its pid is stored.
Assigns ==
    /\ Main("assign")
    /\ child_pid' = forks
    /\ parent' = "install"
    /\ UNCHANGED <<handlerVars, childVars, history, forks, status, spent>>

Installs ==
    /\ Main("install")
    /\ installed' = TRUE
    /\ parent' = "wait"
    /\ UNCHANGED <<childVars, history, flag, handling, child_pid, forks, status, spent>>

\* Mutant: waitpid does not block (WNOHANG).
WaitReturnsAtOnce ==
    /\ Main("wait")
    /\ parent' = "close"
    /\ IF child[child_pid] \in Dead
       THEN /\ status' = child[child_pid]
            /\ child' = [child EXCEPT ![child_pid] = "reaped"]
       ELSE UNCHANGED <<status, child>>
    /\ UNCHANGED <<handlerVars, history, child_pid, forks, report, spent, stopped>>

\* waitpid with WUNTRACED and WCONTINUED; a handler does not make it return.
WaitReturns ==
    /\ Main("wait")
    /\ parent' = "close"
    /\ \/ /\ child[child_pid] \in Dead
          /\ status' = child[child_pid]
          /\ child' = [child EXCEPT ![child_pid] = "reaped"]
          /\ UNCHANGED <<history, report>>
       \/ /\ child[child_pid] \in Living /\ report[child_pid]
          /\ status' = "job"
          /\ report' = [report EXCEPT ![child_pid] = FALSE]
          /\ jobs' = jobs + 1
          /\ regular' = FALSE
          /\ UNCHANGED child
    /\ UNCHANGED <<handlerVars, child_pid, forks, spent, stopped>>

\* Mutant: any death by a signal ends the loop.
LoopEndsOnCrash ==
    /\ Main("close")
    /\ parent' = IF status \in {"terminated", "crashed"} \/ flag THEN "done" ELSE "fork"
    /\ UNCHANGED <<handlerVars, childVars, history, child_pid, forks, status, spent>>

\* The queue is closed, three seconds pass, and the loop ends if the child was
\* terminated by SIGTERM or the flag is set.
LoopEnds ==
    /\ Main("close")
    /\ parent' = IF status = "terminated" \/ flag THEN "done" ELSE "fork"
    /\ UNCHANGED <<handlerVars, childVars, history, child_pid, forks, status, spent>>

Parent == Fork \/ ForkFails \/ Assigns \/ Installs \/ WaitReturns \/ LoopEnds

-----------------------------------------------------------------------------
(* Signals to the parent *)

Signalled == spent.signal < MaxSignal /\ spent' = [spent EXCEPT !.signal = @ + 1]

\* SIGINT or SIGTERM (from an operator, or from terminateController in the child).
\* Before the handlers are installed it ends the parent.
SignalParent ==
    /\ parent \notin {"done", "dead"}
    /\ Signalled
    /\ \/ /\ installed
          /\ flag' = TRUE /\ handling' = TRUE
          /\ regular' = (regular /\ parent \notin {"fork", "assign"})
          /\ UNCHANGED parent
       \/ /\ ~installed
          /\ parent' = "dead"
          /\ regular' = FALSE
          /\ UNCHANGED <<flag, handling>>
    /\ UNCHANGED <<childVars, installed, child_pid, forks, status, jobs>>

\* Mutant: the handler forgets the child it has killed.
PSigHanderForgets ==
    /\ handling
    /\ handling' = FALSE
    /\ Kill({child_pid})
    /\ child_pid' = 0
    /\ UNCHANGED <<history, parent, flag, installed, forks, report, status, spent>>

\* Mutant: the handler only sets the flag.
PSigHanderSetsFlag ==
    /\ handling
    /\ handling' = FALSE
    /\ UNCHANGED <<childVars, history, parent, flag, installed, child_pid, forks, status, spent>>

\* PSigHander: three seconds after the flag the child is killed.
PSigHander ==
    /\ handling
    /\ handling' = FALSE
    /\ Kill({child_pid})
    /\ UNCHANGED <<history, parent, flag, installed, child_pid, forks, report, status, spent>>

-----------------------------------------------------------------------------
(* Children *)

Runs(p, from) == child[p] \in from /\ ~stopped[p]

Becomes(p, to) == child' = [child EXCEPT ![p] = to] /\ UNCHANGED stopped

\* The child installs CSigHander.
ChildInstalls(p) ==
    /\ Runs(p, {"new"}) /\ Becomes(p, "run")
    /\ UNCHANGED <<mainVars, report, spent, regular>>

\* The message loop of the child has ended with EINTR, the controller finishes.
ChildFinishes(p) ==
    /\ Runs(p, {"asked"}) /\ Becomes(p, "exited")
    /\ UNCHANGED <<mainVars, report, spent, regular>>

\* SIGTERM or SIGINT to a child; a stopped one takes it when it is continued.  CSigHander has
\* an effect only if it interrupts msgrcv, nobody else reads the flag.  Before it
\* has CSigHander the first child dies of the signal; a later one has inherited
\* PSigHander, which strikes the child_pid it finds: 0, or a pid that is gone.
SignalChild(p) ==
    /\ Runs(p, {"new", "run"})
    /\ Signalled
    /\ \E to \in IF child[p] = "run" THEN {"asked", "run"}
              ELSE IF p = 1 THEN {"terminated", "crashed"} ELSE {"doomed", "new"} :
           Becomes(p, to)
    /\ UNCHANGED <<mainVars, report, regular>>

\* PSigHander in a child: kill(0) strikes the process group, the parent with it.
DoomedKillsAll(p) ==
    /\ Runs(p, {"doomed"})
    /\ Kill(Pid)
    /\ parent' = IF parent = "done" THEN parent ELSE "dead"
    /\ handling' = FALSE
    /\ UNCHANGED <<history, flag, installed, child_pid, forks, report, status, spent>>

\* A child returns from runService by itself, or crashes.
ChildEnds(p, how) ==
    /\ Runs(p, {"run"}) /\ Becomes(p, how)
    /\ spent.end < MaxEnd
    /\ spent' = [spent EXCEPT !.end = @ + 1]
    /\ UNCHANGED <<mainVars, report, regular>>

\* A child is stopped or continued: waitpid will say so.
JobControl(p) ==
    /\ child[p] \in Living
    /\ spent.job < MaxJob
    /\ spent' = [spent EXCEPT !.job = @ + 1]
    /\ stopped' = [stopped EXCEPT ![p] = ~@]
    /\ report' = [report EXCEPT ![p] = TRUE]
    /\ UNCHANGED <<mainVars, child, regular>>

Child(p) == ChildInstalls(p) \/ ChildFinishes(p) \/ DoomedKillsAll(p)

Environment ==
    \/ SignalParent
    \/ \E p \in Pid : SignalChild(p) \/ JobControl(p)
    \/ \E p \in Pid, how \in {"exited", "crashed"} : ChildEnds(p, how)

Next ==
    \/ Environment
    \/ Parent
    \/ PSigHander
    \/ \E p \in Pid : Child(p)

Spec == Init /\ [][Next]_vars

\* The processes run, and a handler that was entered goes on.
Fairness ==
    /\ WF_vars(Parent)
    /\ WF_vars(PSigHander)
    /\ \A p \in Pid : WF_vars(Child(p))

FairSpec == Spec /\ Fairness

-----------------------------------------------------------------------------
(* Properties *)

\* One child runs at a time: a further one beside it takes a stop or a continue
\* that waitpid reported and the loop took for an end.
OneChild == Cardinality(Alive) <= 1 + jobs

\* No child outlives its parent, unless a signal came between two children or
\* waitpid reported a stop.
NoOrphan == regular /\ parent \in {"done", "dead"} => Alive = {}

\* When waitpid has returned the parent logs "Child process terminated" and goes on as
\* after a death: the child is gone then.
TerminatedIsGone == parent = "close" => child[child_pid] = "reaped"

\* A parent that was told to stop stops, with its child, under the same condition.
StopIsHonoured ==
    flag ~> (~regular \/ (parent \in {"done", "dead"} /\ Alive = {}))

\* A child that has crashed is replaced, unless the parent is told to stop.
CrashIsRepaired ==
    \A p \in Pid : (child_pid = p /\ child[p] = "crashed" /\ parent = "wait")
        ~> (p < forks \/ flag \/ parent = "dead" \/ forks = MaxFork)

=============================================================================
