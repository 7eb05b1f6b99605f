------------------------- MODULE AgentRunnerProofs -------------------------
(***************************************************************************)
(* Theorems about AgentRunner, for any number of threads and of agents:    *)
(* when run has returned one thread is alive, and memory is misused only   *)
(* if the owner changes the agents beside a live thread.                   *)
(***************************************************************************)
EXTENDS AgentRunner, TLAPS

(***************************************************************************)
(* Which threads live: the one the jthread owns, which is not asked to     *)
(* stop before the destructor, and the one being joined, which is.         *)
(***************************************************************************)
Ownership ==
    /\ owner \in {"free", "run", "delete"} /\ _runner_thread # NoThread =>
          IsLive(_runner_thread) /\ _runner_thread \notin stop_requested
    /\ \A t \in Threads : IsLive(t) => t \in {_runner_thread, joined}
    /\ owner \in {"free", "delete"} => joined = NoThread
    /\ owner = "run" =>
          joined \in stop_requested /\ joined # _runner_thread /\ _runner_thread # NoThread
    /\ owner = "destroy" => joined = _runner_thread /\ joined # NoThread
    /\ owner = "gone" => ~SomeLive
    /\ \A t \in stop_requested : state[t] # "unused"

\* A range-for walks the storage there is, as long as nothing is shared.
RangesValid ==
    /\ owner \in {"free", "run"} => storage # Freed
    /\ ~shared =>
          /\ ~undefined
          /\ \A t \in Threads : IsLive(t) =>
                /\ storage # Freed
                /\ state[t] # "test" => seen[t] = storage /\ end[t] <= size

IInv == TypeOK /\ Ownership /\ RangesValid

----------------------------------------------------------------------------
LEMMA InitIInv == Init => IInv
<1> SUFFICES ASSUME Init PROVE IInv
  OBVIOUS
<1> USE ThreadsAssumption DEF Init
<1>1. TypeOK
  <2>1. at \in [Threads -> Nat] /\ end \in [Threads -> Nat] /\ seen \in [Threads -> Nat]
    OBVIOUS
  <2>2. state \in [Threads -> {"unused", "test", "loop", "execute", "exited"}]
    OBVIOUS
  <2>3. {_runner_thread, joined} \subseteq Threads \cup {NoThread}
    OBVIOUS
  <2> QED
    BY <2>1, <2>2, <2>3 DEF TypeOK
<1>2. \A t \in Threads : ~IsLive(t)
  BY DEF IsLive
<1>3. Ownership /\ RangesValid
  BY <1>2 DEF Ownership, RangesValid, SomeLive, Freed
<1> QED
  BY <1>1, <1>3 DEF IInv

LEMMA RunIInv ==
    ASSUME IInv, NEW new \in Threads, Run(new)
    PROVE  IInv'
<1> USE ThreadsAssumption DEF Run, Stopped, AwaitJoin, agents, range
<1>1. /\ \A t \in Threads : state'[t] = IF t = new THEN "test" ELSE state[t]
      /\ ~IsLive(new) /\ IsLive(new)' /\ new # _runner_thread /\ new \notin stop_requested
  BY DEF IInv, TypeOK, Ownership, IsLive
<1>2. \A t \in Threads \ {new} : IsLive(t)' = IsLive(t)
  BY <1>1 DEF IsLive
<1>3. TypeOK'
  BY <1>1 DEF IInv, TypeOK
<1>4. Ownership'
  <2>1. \A t \in Threads : IsLive(t)' => t \in {_runner_thread, joined}'
    BY <1>1, <1>2 DEF IInv, Ownership
  <2>2. \A t \in stop_requested' : state'[t] # "unused"
    BY <1>1 DEF IInv, TypeOK, Ownership, IsLive
  <2>3. _runner_thread' \notin stop_requested'
    BY <1>1
  <2>4. owner' = "run" => joined' \in stop_requested' /\ joined' # _runner_thread'
    BY <1>1
  <2> QED
    BY <1>1, <2>1, <2>2, <2>3, <2>4 DEF Ownership
<1>5. RangesValid'
  BY <1>1, <1>2 DEF IInv, RangesValid
<1> QED
  BY <1>3, <1>4, <1>5 DEF IInv

LEMMA AddAgentIInv ==
    ASSUME IInv, AddAgent
    PROVE  IInv'
<1> USE ThreadsAssumption DEF AddAgent, ownership, range
<1>1. TypeOK'
  <2>1. storage' \in Nat /\ size' \in Nat /\ capacity' \in Nat
    BY DEF IInv, TypeOK, GrownCapacity
  <2> QED
    BY <2>1 DEF IInv, TypeOK, SomeLive, IsLive
<1>2. Ownership'
  BY DEF IInv, Ownership, IsLive, SomeLive
<1>3. RangesValid'
  <2>1. storage' # Freed
    BY DEF IInv, TypeOK, RangesValid, Freed
  <2>2. ~shared' => ~shared /\ ~SomeLive
    OBVIOUS
  <2> QED
    BY <2>1, <2>2 DEF IInv, RangesValid, SomeLive, IsLive
<1> QED
  BY <1>1, <1>2, <1>3 DEF IInv

LEMMA DestroyAgentsIInv ==
    ASSUME IInv, DestroyAgents
    PROVE  IInv'
<1> USE ThreadsAssumption DEF DestroyAgents, range
<1>1. TypeOK'
  BY DEF IInv, TypeOK, Freed, SomeLive, IsLive
<1>2. Ownership'
  BY DEF IInv, Ownership, IsLive, SomeLive
<1>3. RangesValid'
  BY DEF IInv, RangesValid, SomeLive, IsLive
<1> QED
  BY <1>1, <1>2, <1>3 DEF IInv

LEMMA DestroyThreadIInv ==
    ASSUME IInv, DestroyThread
    PROVE  IInv'
<1> USE ThreadsAssumption DEF DestroyThread, agents, range
<1>1. TypeOK'
  BY DEF IInv, TypeOK
<1>2. Ownership'
  BY DEF IInv, TypeOK, Ownership, IsLive, SomeLive
<1>3. RangesValid'
  BY DEF IInv, RangesValid, IsLive
<1> QED
  BY <1>1, <1>2, <1>3 DEF IInv

LEMMA JoinIInv ==
    ASSUME IInv, Join
    PROVE  IInv'
<1> USE ThreadsAssumption DEF Join, agents, range
<1>1. TypeOK'
  BY DEF IInv, TypeOK
<1>2. Ownership'
  BY DEF IInv, TypeOK, Ownership, IsLive, SomeLive
<1>3. RangesValid'
  BY DEF IInv, RangesValid, IsLive
<1> QED
  BY <1>1, <1>2, <1>3 DEF IInv

\* A thread changes itself only, and exits only when it is asked to stop.
LEMMA ThreadOwnership ==
    ASSUME IInv, NEW t \in Threads, IsLive(t),
           \A u \in Threads \ {t} : state'[u] = state[u],
           IsLive(t)' \/ (state'[t] = "exited" /\ t \in stop_requested),
           UNCHANGED <<ownership, stop_requested>>
    PROVE  Ownership'
<1> USE ThreadsAssumption DEF ownership
<1>1. \A u \in Threads : IsLive(u)' => IsLive(u)
  BY DEF IsLive
<1>2. \A u \in stop_requested : state'[u] # "unused"
  BY DEF IInv, TypeOK, Ownership, IsLive
<1>3. owner \in {"free", "run", "delete"} /\ _runner_thread # NoThread => IsLive(_runner_thread)'
  BY DEF IInv, TypeOK, Ownership, IsLive
<1> QED
  BY <1>1, <1>2, <1>3 DEF IInv, Ownership, SomeLive

LEMMA ThreadIInv ==
    ASSUME IInv, NEW t \in Threads, Thread(t)
    PROVE  IInv'
<1> USE ThreadsAssumption
<1>1. CASE TestToken(t)
  <2> USE <1>1 DEF TestToken, ownership, agents, range
  <2>1. TypeOK'
    BY DEF IInv, TypeOK
  <2>2. Ownership'
    BY ThreadOwnership DEF IInv, TypeOK, IsLive, StopRequested
  <2>3. RangesValid'
    BY DEF IInv, TypeOK, RangesValid, IsLive
  <2> QED
    BY <2>1, <2>2, <2>3 DEF IInv
<1>2. CASE Execute(t)
  <2> USE <1>2 DEF Execute, ownership, agents, range
  <2>1. TypeOK'
    BY DEF IInv, TypeOK
  <2>2. Ownership'
    BY ThreadOwnership DEF IInv, TypeOK, IsLive
  <2>3. RangesValid'
    BY DEF IInv, TypeOK, RangesValid, IsLive, HasNext
  <2> QED
    BY <2>1, <2>2, <2>3 DEF IInv
<1>3. CASE Advance(t)
  <2> USE <1>3 DEF Advance, ownership, agents
  <2>1. TypeOK'
    BY DEF IInv, TypeOK
  <2>2. Ownership'
    BY ThreadOwnership DEF IInv, TypeOK, IsLive
  <2>3. RangesValid'
    BY DEF IInv, TypeOK, RangesValid, IsLive
  <2> QED
    BY <2>1, <2>2, <2>3 DEF IInv
<1>4. CASE EndPass(t)
  <2> USE <1>4 DEF EndPass, ownership, agents, range
  <2>1. TypeOK'
    BY DEF IInv, TypeOK
  <2>2. Ownership'
    BY ThreadOwnership DEF IInv, TypeOK, IsLive
  <2>3. RangesValid'
    BY DEF IInv, TypeOK, RangesValid, IsLive
  <2> QED
    BY <2>1, <2>2, <2>3 DEF IInv
<1> QED
  BY <1>1, <1>2, <1>3, <1>4 DEF Thread

LEMMA StepIInv == IInv /\ [Next]_vars => IInv'
<1> SUFFICES ASSUME IInv, [Next]_vars PROVE IInv'
  OBVIOUS
<1>1. CASE Next
  BY <1>1, RunIInv, AddAgentIInv, DestroyAgentsIInv, DestroyThreadIInv, JoinIInv, ThreadIInv
     DEF Next, Owner, Returning
<1>2. CASE UNCHANGED vars
  BY <1>2 DEF vars, ownership, agents, range, IInv, TypeOK, Ownership, RangesValid, IsLive, SomeLive
<1> QED
  BY <1>1, <1>2

LEMMA Invariance == Spec => []IInv
BY InitIInv, StepIInv, PTL DEF Spec

----------------------------------------------------------------------------
(***************************************************************************)
(* When run has returned there is exactly the thread it started, which     *)
(* nothing has asked to stop, and after the destructor there is none.      *)
(***************************************************************************)
THEOREM RunnerUnique == Spec => []OneRunner
<1>1. IInv => OneRunner
  <2> SUFFICES ASSUME IInv PROVE OneRunner
    OBVIOUS
  <2>1. owner = "free" => {t \in Threads : IsLive(t)} = {_runner_thread} \ {NoThread}
    BY ThreadsAssumption DEF IInv, TypeOK, Ownership
  <2>2. owner = "free" => _runner_thread \notin stop_requested
    BY ThreadsAssumption DEF IInv, TypeOK, Ownership
  <2> QED
    BY <2>1, <2>2 DEF IInv, Ownership, OneRunner
<1> QED
  BY Invariance, <1>1, PTL

(***************************************************************************)
(* However often run is called, no thread but the runner's is alive other  *)
(* than the one run has asked to stop and waits for.                       *)
(***************************************************************************)
THEOREM OverlapsOnlyInRun == Spec => []OverlapBounded
<1>1. IInv => OverlapBounded
  <2> SUFFICES ASSUME IInv, NEW t \in Threads, IsLive(t), t # _runner_thread
               PROVE  owner = "run" /\ t = joined /\ t \in stop_requested
    BY DEF OverlapBounded
  <2>1. t = joined /\ joined # NoThread /\ joined # _runner_thread
    BY ThreadsAssumption DEF IInv, Ownership
  <2>2. owner \in {"free", "run", "delete", "destroy", "gone"}
    BY DEF IInv, TypeOK
  <2>3. owner = "run"
    BY <2>1, <2>2 DEF IInv, Ownership, SomeLive
  <2> QED
    BY <2>1, <2>3 DEF IInv, Ownership
<1> QED
  BY Invariance, <1>1, PTL

(***************************************************************************)
(* Calls of run are safe however often they come: a thread touches memory  *)
(* it must not only if add_agent or the destructor is called beside it.    *)
(***************************************************************************)
THEOREM RunSafe == Spec => []UndefinedOnlyIfShared
<1>1. IInv => UndefinedOnlyIfShared
  BY DEF IInv, TypeOK, RangesValid, UndefinedOnlyIfShared
<1> QED
  BY Invariance, <1>1, PTL

----------------------------------------------------------------------------
(***************************************************************************)
(* Why a join returns: the steps that a thread which is asked to stop has  *)
(* left, two for each agent its range-for has not passed.                  *)
(***************************************************************************)
AgentsLeft(t) == IF HasNext(t) THEN end[t] + 1 - at[t] ELSE 0

StepsLeft(t) ==
    CASE state[t] = "test"    -> 1
      [] state[t] = "loop"    -> 2 + 2 * AgentsLeft(t)
      [] state[t] = "execute" -> 1 + 2 * AgentsLeft(t)
      [] OTHER                -> 0

\* run, or the destructor, is waiting for a thread.
Waiting == owner \in {"run", "destroy"} /\ state[joined] # "exited"

\* A thread executes an agent within the range it took.
ExecutesWithin == \A t \in Threads : state[t] = "execute" => HasNext(t)

\* What is joined was asked to stop.
JoinedAsked == owner \in {"run", "destroy"} => joined \in stop_requested

JoinInv == IInv /\ ExecutesWithin /\ JoinedAsked

LEMMA StepsLeftType ==
    ASSUME TypeOK, NEW t \in Threads
    PROVE  StepsLeft(t) \in Nat /\ (IsLive(t) => StepsLeft(t) > 0)
<1>1. state[t] \in {"unused", "test", "loop", "execute", "exited"} /\ AgentsLeft(t) \in Nat
  BY DEF TypeOK, AgentsLeft, HasNext
<1> QED
  BY <1>1 DEF StepsLeft, IsLive

LEMMA JoinInvInductive == Spec => []JoinInv
<1>1. Init => ExecutesWithin
  BY DEF Init, ExecutesWithin
<1>2. ASSUME IInv, ExecutesWithin, [Next]_vars PROVE ExecutesWithin'
  <2> USE <1>2 DEF ExecutesWithin, HasNext, range, agents, ownership
  <2>1. CASE UNCHANGED <<state, range>>
    BY <2>1
  <2>2. ASSUME NEW t \in Threads, Run(t) PROVE ExecutesWithin'
    BY <2>2 DEF Run, IInv, TypeOK
  <2>3. ASSUME NEW t \in Threads, Thread(t) PROVE ExecutesWithin'
    BY <2>3 DEF Thread, TestToken, Execute, Advance, EndPass, IInv, TypeOK
  <2> QED
    BY <2>1, <2>2, <2>3
    DEF Next, Owner, AddAgent, DestroyAgents, Returning, Join, DestroyThread, vars
<1>3. Init => JoinedAsked
  BY DEF Init, JoinedAsked
<1>4. ASSUME IInv, JoinedAsked, [Next]_vars PROVE JoinedAsked'
  BY <1>4, ThreadsAssumption
  DEF JoinedAsked, IInv, TypeOK, Ownership, vars, ownership, agents, range, Next, Owner, Run, Stopped,
      AwaitJoin, AddAgent, DestroyAgents, Returning, Join, DestroyThread,
      Thread, TestToken, Execute, Advance, EndPass
<1> QED
  BY <1>1, <1>2, <1>3, <1>4, Invariance, StepIInv, PTL DEF Spec, JoinInv

LEMMA WaitingForLive ==
    ASSUME JoinInv, Waiting
    PROVE  /\ joined \in Threads /\ IsLive(joined) /\ joined \in stop_requested
           /\ StepsLeft(joined) \in Nat \ {0}
<1>1. joined \in stop_requested /\ joined \in Threads
  BY DEF JoinInv, JoinedAsked, Waiting, IInv, TypeOK
<1>2. IsLive(joined)
  BY <1>1 DEF JoinInv, IInv, TypeOK, Ownership, Waiting, IsLive
<1> QED
  BY <1>1, <1>2, StepsLeftType DEF JoinInv, IInv

LEMMA WaitingStep ==
    ASSUME JoinInv, Waiting, Next
    PROVE  /\ UNCHANGED <<owner, joined, agents>>
           /\ \E t \in Threads : Thread(t)
BY DEF Waiting, Next, Owner, Run, AddAgent, DestroyAgents, Returning, Join, DestroyThread,
       Thread, TestToken, Execute, Advance, EndPass, ownership

LEMMA JoinedStep ==
    ASSUME JoinInv, Waiting, Thread(joined), ~undefined'
    PROVE  StepsLeft(joined)' < StepsLeft(joined)
<1> DEFINE j == joined
<1>1. j \in Threads /\ j \in stop_requested /\ TypeOK /\ (state[j] = "execute" => HasNext(j))
  BY WaitingForLive DEF JoinInv, IInv, ExecutesWithin
<1>2. j' = j
  BY DEF Thread, TestToken, Execute, Advance, EndPass, ownership
<1>3. AgentsLeft(j) \in Nat /\ (HasNext(j) => AgentsLeft(j) > 0)
  BY <1>1 DEF AgentsLeft, HasNext, TypeOK
<1>4. CASE TestToken(j)
  BY <1>1, <1>2, <1>4 DEF TestToken, StopRequested, StepsLeft, TypeOK
<1>5. CASE Execute(j)
  <2>1. AgentsLeft(j)' = AgentsLeft(j)
    BY <1>2, <1>5 DEF Execute, AgentsLeft, HasNext, range
  <2>2. state[j] = "loop" /\ state'[j] = "execute"
    BY <1>1, <1>5 DEF Execute, TypeOK
  <2> QED
    BY <1>2, <1>3, <2>1, <2>2 DEF StepsLeft
<1>6. CASE Advance(j)
  <2>1. AgentsLeft(j)' = AgentsLeft(j) - 1
    BY <1>1, <1>2, <1>6 DEF Advance, AgentsLeft, HasNext, TypeOK
  <2>2. state[j] = "execute" /\ state'[j] = "loop"
    BY <1>1, <1>6 DEF Advance, TypeOK
  <2> QED
    BY <1>2, <1>3, <2>1, <2>2 DEF StepsLeft
<1>7. CASE EndPass(j)
  <2>1. state[j] = "loop" /\ state'[j] = "test"
    BY <1>1, <1>7 DEF EndPass, TypeOK
  <2> QED
    BY <1>2, <1>3, <2>1 DEF StepsLeft
<1> QED
  BY <1>4, <1>5, <1>6, <1>7 DEF Thread

LEMMA OthersStep ==
    ASSUME JoinInv, Waiting, NEW t \in Threads, Thread(t), ~Thread(joined)
    PROVE  StepsLeft(joined)' = StepsLeft(joined)
<1>1. joined \in Threads /\ t # joined /\ TypeOK
  BY WaitingForLive DEF JoinInv, IInv
<1>2. /\ joined' = joined /\ state'[joined] = state[joined]
      /\ at'[joined] = at[joined] /\ end'[joined] = end[joined]
  BY <1>1 DEF Thread, TestToken, Execute, Advance, EndPass, ownership, range, TypeOK
<1> QED
  BY <1>2 DEF StepsLeft, AgentsLeft, HasNext

(***************************************************************************)
(* The thread that is waited for is alive and asked to stop, so a step of  *)
(* it is possible.  Each of its steps brings it nearer to its exit, unless *)
(* it misuses memory, and no step of another thread sets it back: the      *)
(* owner calls nothing while it waits.                                     *)
(***************************************************************************)
THEOREM JoinsAdvance ==
    Spec => /\ [](Waiting => IsLive(joined) /\ StepsLeft(joined) \in Nat \ {0})
            /\ [][Waiting => /\ UNCHANGED <<owner, joined>>
                            /\ IF Thread(joined) THEN undefined' \/ StepsLeft(joined)' < StepsLeft(joined)
                                                 ELSE StepsLeft(joined)' = StepsLeft(joined)]_vars
<1>1. JoinInv => (Waiting => IsLive(joined) /\ StepsLeft(joined) \in Nat \ {0})
  BY WaitingForLive
<1>2. JoinInv =>
          [Waiting => /\ UNCHANGED <<owner, joined>>
                      /\ IF Thread(joined) THEN undefined' \/ StepsLeft(joined)' < StepsLeft(joined)
                                            ELSE StepsLeft(joined)' = StepsLeft(joined)]_vars
          \/ ~[Next]_vars
  <2> SUFFICES ASSUME JoinInv, Waiting, Next
               PROVE  /\ UNCHANGED <<owner, joined>>
                      /\ IF Thread(joined) THEN undefined' \/ StepsLeft(joined)' < StepsLeft(joined)
                                            ELSE StepsLeft(joined)' = StepsLeft(joined)
    OBVIOUS
  <2>1. UNCHANGED <<owner, joined, agents>> /\ \E t \in Threads : Thread(t)
    BY WaitingStep
  <2>2. CASE Thread(joined)
    <3>1. undefined' \/ StepsLeft(joined)' < StepsLeft(joined)
      BY <2>2, JoinedStep
    <3> QED
      BY <2>1, <2>2, <3>1
  <2>3. CASE ~Thread(joined)
    <3>1. StepsLeft(joined)' = StepsLeft(joined)
      BY <2>1, <2>3, OthersStep
    <3> QED
      BY <2>1, <2>3, <3>1
  <2> QED
    BY <2>2, <2>3
<1> QED
  BY <1>1, <1>2, JoinInvInductive, PTL DEF Spec
=============================================================================
