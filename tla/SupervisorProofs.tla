--------------------------- MODULE SupervisorProofs --------------------------
(***************************************************************************)
(* No child outlives its parent, for every value of the bounds.             *)
(***************************************************************************)
EXTENDS Supervisor, FiniteSetTheorems, TLAPS

\* As long as the parent's idea of its child is right, only the last child can be
\* alive, and none is when the parent is about to fork or has ended.
OnlyLastAlive ==
    regular =>
        \A p \in Pid : child[p] \in Living =>
            p = forks /\ parent \notin {"fork", "close", "done", "dead"}

IInv == TypeOK /\ OnlyLastAlive

\* The initial state is well typed and has no child.
LEMMA InitHolds == Init => IInv
<1> SUFFICES ASSUME Init PROVE IInv
  OBVIOUS
<1> USE SupervisorConstantsOK
<1>1. ParentOK
  BY DEF Init, ParentOK, Dead
<1>1h. HandlerOK
  BY DEF Init, HandlerOK
<1>2. ChildrenOK
  BY DEF Init, ChildrenOK, ChildPc, Pid
<1>3. spent \in Spent
  BY DEF Init, Spent
<1>4. OnlyLastAlive
  BY DEF Init, OnlyLastAlive, Living
<1> QED
  BY <1>1, <1>1h, <1>2, <1>3, <1>4 DEF IInv, TypeOK

\* Counting against one bound stays within the bounds.
LEMMA SpentType ==
    ASSUME spent \in Spent
    PROVE  /\ spent.signal < MaxSignal => [spent EXCEPT !.signal = @ + 1] \in Spent
           /\ spent.end < MaxEnd => [spent EXCEPT !.end = @ + 1] \in Spent
           /\ spent.job < MaxJob => [spent EXCEPT !.job = @ + 1] \in Spent
BY SupervisorConstantsOK DEF Spent

\* Killing children leaves well-typed children, and neither creates nor revives one.
LEMMA KillOK ==
    ASSUME ChildrenOK, NEW S, Kill(S), UNCHANGED <<report, forks>>
    PROVE  /\ ChildrenOK'
           /\ \A p \in Pid : child'[p] \in Living => child[p] \in Living /\ p \notin S
BY DEF Kill, ChildrenOK, ChildPc, Alive, Dead, Living

\* A child that lives, or has lived, goes on to some other state.
LEMMA BecomesOK ==
    ASSUME ChildrenOK, NEW p \in Pid, child[p] \in Living, NEW to \in Living \cup Dead,
           Becomes(p, to), UNCHANGED <<report, forks>>
    PROVE  /\ ChildrenOK'
           /\ \A q \in Pid : child'[q] \in Living => child[q] \in Living
BY DEF Becomes, ChildrenOK, ChildPc, Dead, Living

\* A step that revives no child and leaves the parent where it is, or ends it with
\* all children, keeps the last child the only one alive.
LEMMA NoneRevived ==
    ASSUME OnlyLastAlive, UNCHANGED forks, regular' => regular,
           \A p \in Pid : child'[p] \in Living => child[p] \in Living,
           parent' = parent \/ \A p \in Pid : child'[p] \notin Living
    PROVE  OnlyLastAlive'
BY DEF OnlyLastAlive

\* The main line of the parent preserves the invariant.
LEMMA ParentStep == IInv /\ Parent => IInv'
<1> SUFFICES ASSUME IInv, Parent PROVE IInv'
  OBVIOUS
<1> USE SupervisorConstantsOK
<1>t. ParentOK /\ HandlerOK /\ ChildrenOK /\ spent \in Spent /\ OnlyLastAlive
  BY DEF IInv, TypeOK
<1>1. CASE Fork
  <2>1. forks + 1 \in Pid /\ \A p \in Pid : p > forks + 1 <=> p > forks /\ p # forks + 1
    BY <1>1, <1>t DEF Fork, ParentOK, Pid
  <2>2. ParentOK'
    BY <1>1, <1>t DEF Fork, Main, handlerVars, history, ParentOK
  <2>2h. HandlerOK'
    BY <1>1, <1>t DEF Fork, Main, handlerVars, history, HandlerOK
  <2>3. ChildrenOK'
    BY <1>1, <1>t, <2>1 DEF Fork, ChildrenOK, ChildPc, Living, Dead
  <2>4. OnlyLastAlive'
    BY <1>1, <1>t, <2>1 DEF Fork, Main, history, OnlyLastAlive, ChildrenOK
  <2> QED
    BY <1>1, <1>t, <2>2, <2>3, <2>4, <2>2h DEF Fork, IInv, TypeOK
<1>2. CASE ForkFails \/ Assigns \/ Installs \/ LoopEnds
  <2>1. ParentOK'
    BY <1>2, <1>t DEF ForkFails, Assigns, Installs, LoopEnds, Main, handlerVars, history, ParentOK
  <2>1h. HandlerOK'
    <3>1. CASE Installs
      BY <3>1, <1>t DEF Installs, Main, history, HandlerOK
    <3>2. CASE ForkFails \/ Assigns \/ LoopEnds
      BY <3>2, <1>t DEF ForkFails, Assigns, LoopEnds, handlerVars, history, HandlerOK
    <3> QED
      BY <1>2, <3>1, <3>2
  <2>2. ChildrenOK'
    BY <1>2, <1>t DEF ForkFails, Assigns, Installs, LoopEnds, childVars, ChildrenOK
  <2>3. OnlyLastAlive'
    BY <1>2, <1>t DEF ForkFails, Assigns, Installs, LoopEnds, Main, childVars, history, OnlyLastAlive
  <2> QED
    BY <1>2, <1>t, <2>1, <2>2, <2>3, <2>1h DEF ForkFails, Assigns, Installs, LoopEnds, IInv, TypeOK
<1>3. CASE WaitReturns
  <2>1. child_pid = forks /\ child_pid \in Pid
    BY <1>3, <1>t DEF WaitReturns, Main, ParentOK, Pid
  <2>2. ParentOK'
    BY <1>3, <1>t DEF WaitReturns, Main, handlerVars, history, ParentOK, Dead
  <2>2h. HandlerOK'
    BY <1>3, <1>t DEF WaitReturns, Main, handlerVars, history, HandlerOK
  <2>3. ChildrenOK'
    BY <1>3, <1>t, <2>1 DEF WaitReturns, ChildrenOK, ChildPc, Dead, Living
  <2>4. OnlyLastAlive'
    BY <1>3, <1>t, <2>1 DEF WaitReturns, Main, history, OnlyLastAlive, ChildrenOK, Living, Dead
  <2> QED
    BY <1>3, <1>t, <2>2, <2>3, <2>4, <2>2h DEF WaitReturns, IInv, TypeOK
<1> QED
  BY <1>1, <1>2, <1>3 DEF Parent

\* Signals to the parent and its handler preserve the invariant.
LEMMA SignalStep == IInv /\ (SignalParent \/ PSigHander) => IInv'
<1> SUFFICES ASSUME IInv, SignalParent \/ PSigHander PROVE IInv'
  OBVIOUS
<1>t. ParentOK /\ HandlerOK /\ ChildrenOK /\ spent \in Spent /\ OnlyLastAlive
  BY DEF IInv, TypeOK
<1>1. CASE SignalParent
  <2>1. ParentOK'
    BY <1>1, <1>t DEF SignalParent, ParentOK
  <2>1h. HandlerOK'
    <3>1. flag' \in BOOLEAN /\ handling' \in BOOLEAN /\ installed' \in BOOLEAN
      BY <1>1, <1>t DEF SignalParent, HandlerOK
    <3>2. regular' \in BOOLEAN
      BY <1>1, <1>t DEF SignalParent, HandlerOK
    <3>3. handling' => installed' /\ flag'
      BY <1>1, <1>t DEF SignalParent, HandlerOK
    <3> QED
      BY <3>1, <3>2, <3>3 DEF HandlerOK
  <2>2. ChildrenOK'
    BY <1>1, <1>t DEF SignalParent, childVars, ChildrenOK
  <2>3. spent' \in Spent
    BY <1>1, <1>t, SpentType DEF SignalParent, Signalled
  <2>4. OnlyLastAlive'
    BY <1>1, <1>t DEF SignalParent, childVars, OnlyLastAlive
  <2> QED
    BY <2>1, <2>2, <2>3, <2>4, <2>1h DEF IInv, TypeOK
<1>2. CASE PSigHander
  <2>1. /\ ChildrenOK'
        /\ \A p \in Pid : child'[p] \in Living => child[p] \in Living
    BY <1>2, <1>t, KillOK DEF PSigHander
  <2>2. ParentOK'
    BY <1>2, <1>t DEF PSigHander, history, ParentOK
  <2>2h. HandlerOK'
    BY <1>2, <1>t DEF PSigHander, history, HandlerOK
  <2>3. OnlyLastAlive'
    BY <1>2, <1>t, <2>1, NoneRevived DEF PSigHander, history
  <2> QED
    BY <1>2, <1>t, <2>1, <2>2, <2>3, <2>2h DEF PSigHander, IInv, TypeOK
<1> QED
  BY <1>1, <1>2

\* The steps of a child, and what is done to it, preserve the invariant.
LEMMA ChildStep ==
    ASSUME IInv, NEW p \in Pid, NEW how \in {"exited", "crashed"},
           Child(p) \/ SignalChild(p) \/ JobControl(p) \/ ChildEnds(p, how)
    PROVE  IInv'
<1>t. ParentOK /\ HandlerOK /\ ChildrenOK /\ spent \in Spent /\ OnlyLastAlive
  BY DEF IInv, TypeOK
<1>1. CASE DoomedKillsAll(p)
  <2>1. /\ ChildrenOK'
        /\ \A q \in Pid : child'[q] \notin Living
    BY <1>1, <1>t, KillOK DEF DoomedKillsAll
  <2>2. ParentOK'
    BY <1>1, <1>t DEF DoomedKillsAll, history, ParentOK
  <2>2h. HandlerOK'
    BY <1>1, <1>t DEF DoomedKillsAll, history, HandlerOK
  <2>3. OnlyLastAlive'
    BY <2>1 DEF OnlyLastAlive
  <2> QED
    BY <1>1, <1>t, <2>1, <2>2, <2>3, <2>2h DEF DoomedKillsAll, IInv, TypeOK
<1>2. CASE ChildInstalls(p) \/ ChildFinishes(p) \/ ChildEnds(p, how) \/ SignalChild(p)
  <2>1. PICK to \in Living \cup Dead : Becomes(p, to)
    BY <1>2 DEF ChildInstalls, ChildFinishes, ChildEnds, SignalChild, Living, Dead
  <2>2. child[p] \in Living /\ UNCHANGED <<mainVars, report, regular>>
    BY <1>2 DEF ChildInstalls, ChildFinishes, ChildEnds, SignalChild, Runs, Living
  <2>3. /\ ChildrenOK'
        /\ \A q \in Pid : child'[q] \in Living => child[q] \in Living
    BY <1>t, <2>1, <2>2, BecomesOK DEF mainVars
  <2>4. ParentOK'
    BY <1>t, <2>2 DEF mainVars, ParentOK
  <2>4h. HandlerOK'
    BY <1>t, <2>2 DEF mainVars, HandlerOK
  <2>5. OnlyLastAlive'
    BY <1>t, <2>2, <2>3, NoneRevived DEF mainVars
  <2>6. spent' \in Spent
    BY <1>2, <1>t, SpentType DEF ChildInstalls, ChildFinishes, ChildEnds, SignalChild, Signalled
  <2> QED
    BY <2>3, <2>4, <2>5, <2>6, <2>4h DEF IInv, TypeOK
<1>3. CASE JobControl(p)
  <2>1. ParentOK'
    BY <1>3, <1>t DEF JobControl, mainVars, ParentOK
  <2>1h. HandlerOK'
    BY <1>3, <1>t DEF JobControl, mainVars, HandlerOK
  <2>2. ChildrenOK'
    BY <1>3, <1>t DEF JobControl, mainVars, ChildrenOK
  <2>3. OnlyLastAlive'
    BY <1>3, <1>t DEF JobControl, mainVars, OnlyLastAlive
  <2>4. spent' \in Spent
    BY <1>3, <1>t, SpentType DEF JobControl
  <2> QED
    BY <2>1, <2>2, <2>3, <2>4, <2>1h DEF IInv, TypeOK
<1> QED
  BY <1>1, <1>2, <1>3 DEF Child

\* Every step preserves the invariant.
LEMMA IInvStep == IInv /\ [Next]_vars => IInv'
<1> SUFFICES ASSUME IInv, [Next]_vars PROVE IInv'
  OBVIOUS
<1>1. CASE Next
  BY <1>1, ParentStep, SignalStep, ChildStep DEF Next, Environment
<1>2. CASE UNCHANGED vars
  BY <1>2 DEF vars, IInv, TypeOK, ParentOK, HandlerOK, ChildrenOK, OnlyLastAlive
<1> QED
  BY <1>1, <1>2

\* The invariant holds in every behaviour.
LEMMA IInvHolds == Spec => []IInv
BY InitHolds, IInvStep, PTL DEF Spec

\* Type correctness: the parent waits for the child it forked last, and its handler
\* runs only after it was installed.
THEOREM SupervisorTypeCorrect == Spec => []TypeOK
<1>1. IInv => TypeOK
  BY DEF IInv
<1> QED
  BY <1>1, IInvHolds, PTL

\* No child outlives its parent, however signals and deaths meet, as long as no
\* signal comes between two children and waitpid reports no stop.
THEOREM NoOrphanHolds == Spec => []NoOrphan
<1>1. IInv => NoOrphan
  BY DEF IInv, OnlyLastAlive, NoOrphan, Alive
<1> QED
  BY <1>1, IInvHolds, PTL

-----------------------------------------------------------------------------
\* The children alive that the parent does not, or will not, wait for.
Unwaited == IF parent \in {"assign", "install", "wait", "dead"} THEN Alive \ {forks} ELSE Alive

\* Each was left behind by a stop or a continue that waitpid reported.
UnwaitedCounted == Cardinality(Unwaited) <= jobs

\* Sets of pids are finite.
LEMMA PidsFinite ==
    ASSUME NEW S \in SUBSET Pid
    PROVE  IsFiniteSet(S) /\ Cardinality(S) \in Nat
<1>1. IsFiniteSet(Pid)
  BY FS_Interval, SupervisorConstantsOK DEF Pid
<1> QED
  BY <1>1, FS_Subset, FS_CardinalityType

\* A step that leaves no further child behind preserves the count.
LEMMA NoFurther ==
    ASSUME UnwaitedCounted, TypeOK, jobs' = jobs, Unwaited' \subseteq Unwaited
    PROVE  UnwaitedCounted'
<1>1. Unwaited \in SUBSET Pid /\ Unwaited' \in SUBSET Pid
  BY DEF Unwaited, Alive
<1>2. Cardinality(Unwaited') <= Cardinality(Unwaited)
  BY <1>1, PidsFinite, FS_Subset
<1> QED
  BY <1>1, <1>2, PidsFinite DEF UnwaitedCounted, TypeOK, ParentOK

\* Every step preserves the count: only a job-control report leaves a child behind.
LEMMA CountStep == TypeOK /\ UnwaitedCounted /\ [Next]_vars => UnwaitedCounted'
<1> SUFFICES ASSUME TypeOK, UnwaitedCounted, [Next]_vars PROVE UnwaitedCounted'
  OBVIOUS
<1>t. ParentOK /\ HandlerOK /\ ChildrenOK /\ spent \in Spent
  BY DEF TypeOK
<1>1. CASE Fork
  <2>1. \A p \in Pid : child'[p] \in Living => child[p] \in Living \/ p = forks'
    BY <1>1, <1>t DEF Fork, ChildrenOK
  <2> QED
    BY <1>1, <2>1, NoFurther DEF Fork, Main, history, Unwaited, Alive
<1>2. CASE ForkFails \/ Assigns \/ Installs \/ LoopEnds
  BY <1>2, NoFurther
     DEF ForkFails, Assigns, Installs, LoopEnds, Main, history, childVars, Unwaited, Alive
<1>3. CASE WaitReturns
  <2>1. child_pid = forks /\ parent = "wait" /\ parent' = "close" /\ forks' = forks
    BY <1>3, <1>t DEF WaitReturns, Main, ParentOK
  <2>2. CASE child[child_pid] \in Dead
    <3>1. jobs' = jobs /\ Alive' \subseteq Alive \ {forks}
      BY <1>3, <1>t, <2>1, <2>2 DEF WaitReturns, history, ChildrenOK, Alive, Living, Dead
    <3> QED
      BY <2>1, <3>1, NoFurther DEF Unwaited
  <2>3. CASE child[child_pid] \notin Dead
    <3>1. jobs' = jobs + 1 /\ Alive' = Alive
      BY <1>3, <2>3 DEF WaitReturns, Alive
    <3>2. Unwaited' \subseteq Unwaited \cup {forks} /\ Unwaited \in SUBSET Pid /\ Unwaited' \in SUBSET Pid
      BY <2>1, <3>1 DEF Unwaited, Alive
    <3>3. IsFiniteSet(Unwaited \cup {forks}) /\ Cardinality(Unwaited \cup {forks}) <= Cardinality(Unwaited) + 1
      BY <3>2, PidsFinite, FS_AddElement
    <3>4. Cardinality(Unwaited') <= Cardinality(Unwaited) + 1
      BY <3>2, <3>3, PidsFinite, FS_Subset, FS_CardinalityType
    <3> QED
      BY <1>t, <3>1, <3>2, <3>4, PidsFinite DEF UnwaitedCounted, ParentOK
  <2> QED
    BY <2>2, <2>3
<1>4. CASE SignalParent
  BY <1>4, NoFurther DEF SignalParent, childVars, Unwaited, Alive
<1>5. CASE PSigHander
  <2>1. Alive' \subseteq Alive
    BY <1>5, <1>t DEF PSigHander, Kill, ChildrenOK, Alive, Living
  <2> QED
    BY <1>5, <2>1, NoFurther DEF PSigHander, history, Unwaited
<1>6. ASSUME NEW p \in Pid, DoomedKillsAll(p) PROVE UnwaitedCounted'
  <2>1. Alive' = {}
    BY <1>6, <1>t DEF DoomedKillsAll, Kill, ChildrenOK, Alive, Living
  <2> QED
    BY <1>6, <2>1, NoFurther DEF DoomedKillsAll, history, Unwaited
<1>7. ASSUME NEW p \in Pid, NEW how \in {"exited", "crashed"},
             ChildInstalls(p) \/ ChildFinishes(p) \/ SignalChild(p) \/ ChildEnds(p, how)
      PROVE  UnwaitedCounted'
  <2>1. child[p] \in Living /\ UNCHANGED mainVars /\ \E to : Becomes(p, to)
    BY <1>7 DEF ChildInstalls, ChildFinishes, ChildEnds, SignalChild, Runs, Living
  <2>2. Alive' \subseteq Alive
    BY <1>t, <2>1 DEF Becomes, ChildrenOK, Alive
  <2> QED
    BY <2>1, <2>2, NoFurther DEF mainVars, Unwaited
<1>8. ASSUME NEW p \in Pid, JobControl(p) PROVE UnwaitedCounted'
  BY <1>8, NoFurther DEF JobControl, mainVars, Unwaited, Alive
<1>9. CASE UNCHANGED vars
  BY <1>9, NoFurther DEF vars, Unwaited, Alive
<1> QED
  BY <1>1, <1>2, <1>3, <1>4, <1>5, <1>6, <1>7, <1>8, <1>9 DEF Next, Environment, Parent, Child

\* One child at a time, but for those that job control has left behind.
THEOREM OneChildHolds == Spec => []OneChild
<1>1. Init => UnwaitedCounted
  <2> SUFFICES ASSUME Init PROVE UnwaitedCounted
    OBVIOUS
  <2>1. Unwaited = {}
    BY DEF Init, Unwaited, Alive, Living
  <2> QED
    BY <2>1, FS_EmptySet DEF UnwaitedCounted, Init
<1>2. TypeOK /\ UnwaitedCounted => OneChild
  <2> SUFFICES ASSUME TypeOK, UnwaitedCounted PROVE OneChild
    OBVIOUS
  <2>1. Alive \subseteq Unwaited \cup {forks} /\ Unwaited \in SUBSET Pid /\ Alive \in SUBSET Pid
    BY DEF Unwaited, Alive
  <2>2. IsFiniteSet(Unwaited \cup {forks}) /\ Cardinality(Unwaited \cup {forks}) <= Cardinality(Unwaited) + 1
    BY <2>1, PidsFinite, FS_AddElement
  <2>3. Cardinality(Alive) <= Cardinality(Unwaited) + 1
    BY <2>1, <2>2, PidsFinite, FS_Subset, FS_CardinalityType
  <2> QED
    BY <2>1, <2>3, PidsFinite DEF UnwaitedCounted, OneChild, TypeOK, ParentOK
<1> QED
  BY <1>1, <1>2, CountStep, SupervisorTypeCorrect, PTL DEF Spec

=============================================================================
