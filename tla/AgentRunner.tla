---------------------------- MODULE AgentRunner ----------------------------
(***************************************************************************)
(* class agent_runner (agent.hh, agent.cpp): a vector of agents, and a     *)
(* jthread that executes them in turn until its stop token is set.  The    *)
(* owner of the runner calls run, add_agent and the destructor; nothing    *)
(* synchronises it with the threads but the join of a jthread.             *)
(*                                                                         *)
(* The vector is its storage, named by a number that each reallocation     *)
(* changes, with a size and a capacity.  A range-for takes both ends of    *)
(* the storage once, when it starts.  A thread that touches storage that   *)
(* was freed, or past the end, has undefined behaviour, and the model      *)
(* follows it no further.                                                  *)
(***************************************************************************)
EXTENDS Naturals

CONSTANTS
    Threads,       \* bound: the threads that calls of run may create
    MaxAgents,     \* bound: number of agents added
    NoThread       \* a jthread that owns no thread

ASSUME ThreadsAssumption == NoThread \notin Threads /\ MaxAgents \in Nat

VARIABLES
    owner,             \* the owner: "free", in "run", in the destructor ("delete", "destroy"), or "gone"
    _runner_thread,    \* the thread that the jthread member owns
    joined,            \* the thread whose jthread is being destroyed
    storage, size, capacity,    \* _agents
    state,             \* of each thread: "unused", "test", "loop", "execute" or "exited"
    stop_requested,    \* the threads whose stop token is set
    at, end, seen,     \* of each thread: the range-for's position, end and storage
    undefined,         \* a thread has touched memory it must not
    shared             \* history: the owner changed _agents beside a live thread

ownership == <<owner, _runner_thread, joined>>
agents == <<storage, size, capacity>>
range == <<at, end, seen>>
vars == <<ownership, agents, state, stop_requested, range, undefined, shared>>

Freed == 0

Init ==
    /\ owner = "free" /\ _runner_thread = NoThread /\ joined = NoThread
    /\ storage = 1 /\ size = 0 /\ capacity = 0
    /\ state = [t \in Threads |-> "unused"]
    /\ stop_requested = {}
    /\ at = [t \in Threads |-> 0] /\ end = [t \in Threads |-> 0] /\ seen = [t \in Threads |-> 0]
    /\ undefined = FALSE /\ shared = FALSE

IsLive(t) == state[t] \in {"test", "loop", "execute"}
SomeLive == \E t \in Threads : IsLive(t)

----------------------------------------------------------------------------
(***************************************************************************)
(* run: stop the thread of an earlier call, start another and swap.  The   *)
(* earlier thread is joined at the end of the statement, when the          *)
(* temporary that owns it by then is destroyed, so that the two run side   *)
(* by side until then.                                                     *)
(***************************************************************************)
\* Mutation: the stop is requested after the swap.
StopAfterSwap(old, new) == {old, new} \ {NoThread}
Stopped(old, new) == {old} \ {NoThread}

\* Mutation: the earlier thread is detached.
Detached(old) == "free"
AwaitJoin(old) == IF old = NoThread THEN "free" ELSE "run"

Run(new) ==
    /\ owner = "free"
    /\ state[new] = "unused"
    /\ stop_requested' = stop_requested \cup Stopped(_runner_thread, new)
    /\ state' = [state EXCEPT ![new] = "test"]
    /\ _runner_thread' = new
    /\ joined' = _runner_thread
    /\ owner' = AwaitJoin(_runner_thread)
    /\ UNCHANGED <<agents, range, undefined, shared>>

\* push_back doubles the capacity, as the library of the build does.
GrownCapacity == IF capacity = 0 THEN 1 ELSE 2 * capacity

\* add_agent: push_back, which reallocates when the capacity is used up.
AddAgent ==
    /\ owner = "free"
    /\ size < MaxAgents
    /\ size' = size + 1
    /\ IF size < capacity
       THEN UNCHANGED <<storage, capacity>>
       ELSE storage' = storage + 1 /\ capacity' = GrownCapacity
    /\ shared' = (shared \/ SomeLive)
    /\ UNCHANGED <<ownership, state, stop_requested, range, undefined>>

(***************************************************************************)
(* The destructor: members are destroyed in the reverse of the order of    *)
(* their declaration, so the agents go first, and only then is the thread  *)
(* stopped and joined.  The destructor of a vector leaves its pointers.    *)
(***************************************************************************)
DestroyAgents ==
    /\ owner = "free"
    /\ owner' = "delete"
    /\ storage' = Freed
    /\ shared' = (shared \/ SomeLive)
    /\ UNCHANGED <<_runner_thread, joined, size, capacity, state, stop_requested, range, undefined>>

DestroyThread ==
    /\ owner = "delete"
    /\ stop_requested' = stop_requested \cup ({_runner_thread} \ {NoThread})
    /\ joined' = _runner_thread
    /\ owner' = IF _runner_thread = NoThread THEN "gone" ELSE "destroy"
    /\ UNCHANGED <<_runner_thread, agents, state, range, undefined, shared>>

Join ==
    /\ owner \in {"run", "destroy"}
    /\ state[joined] = "exited"
    /\ joined' = NoThread
    /\ owner' = IF owner = "run" THEN "free" ELSE "gone"
    /\ UNCHANGED <<_runner_thread, agents, state, stop_requested, range, undefined, shared>>

----------------------------------------------------------------------------
(***************************************************************************)
(* The thread.  The token is tested between two passes over the agents.    *)
(***************************************************************************)
\* Mutation: the token is not tested.
NeverStops(t) == FALSE
StopRequested(t) == t \in stop_requested

TestToken(t) ==
    /\ state[t] = "test"
    /\ IF StopRequested(t)
       THEN state' = [state EXCEPT ![t] = "exited"] /\ UNCHANGED range
       ELSE /\ state' = [state EXCEPT ![t] = "loop"]
            /\ at' = [at EXCEPT ![t] = 1]
            /\ end' = [end EXCEPT ![t] = size]
            /\ seen' = [seen EXCEPT ![t] = storage]
    /\ UNCHANGED <<ownership, agents, stop_requested, undefined, shared>>

\* Mutation: the loop goes one agent too far.
PastEnd(t) == at[t] <= end[t] + 1
HasNext(t) == at[t] <= end[t]

\* agent.execute() and the sleep that follows.
Execute(t) ==
    /\ state[t] = "loop"
    /\ HasNext(t)
    /\ IF seen[t] = storage /\ storage # Freed /\ at[t] <= size
       THEN state' = [state EXCEPT ![t] = "execute"] /\ UNCHANGED undefined
       ELSE undefined' = TRUE /\ UNCHANGED state
    /\ UNCHANGED <<ownership, agents, stop_requested, range, shared>>

Advance(t) ==
    /\ state[t] = "execute"
    /\ state' = [state EXCEPT ![t] = "loop"]
    /\ at' = [at EXCEPT ![t] = @ + 1]
    /\ UNCHANGED <<ownership, agents, stop_requested, end, seen, undefined, shared>>

EndPass(t) ==
    /\ state[t] = "loop"
    /\ ~HasNext(t)
    /\ state' = [state EXCEPT ![t] = "test"]
    /\ UNCHANGED <<ownership, agents, stop_requested, range, undefined, shared>>

Thread(t) == ~undefined /\ (TestToken(t) \/ Execute(t) \/ Advance(t) \/ EndPass(t))

Owner == ~undefined /\ ((\E t \in Threads : Run(t)) \/ AddAgent \/ DestroyAgents)
Returning == ~undefined /\ (Join \/ DestroyThread)

Next == Owner \/ Returning \/ \E t \in Threads : Thread(t)

(***************************************************************************)
(* The threads are scheduled, an agent's execute and a sleep end, the      *)
(* destructor goes on, and a join returns once the thread has exited.  The *)
(* owner need not call.                                                    *)
(***************************************************************************)
Spec == Init /\ [][Next]_vars /\ WF_vars(Returning) /\ \A t \in Threads : WF_vars(Thread(t))

----------------------------------------------------------------------------
(***************************************************************************)
(* Type invariant.                                                         *)
(***************************************************************************)
TypeOK ==
    /\ owner \in {"free", "run", "delete", "destroy", "gone"}
    /\ {_runner_thread, joined} \subseteq Threads \cup {NoThread}
    /\ storage \in Nat /\ size \in Nat /\ capacity \in Nat
    /\ state \in [Threads -> {"unused", "test", "loop", "execute", "exited"}]
    /\ stop_requested \subseteq Threads
    /\ \A f \in {at, end, seen} : f \in [Threads -> Nat]
    /\ undefined \in BOOLEAN /\ shared \in BOOLEAN

(***************************************************************************)
(* When run has returned there is one live thread, the one it started, and *)
(* nothing has asked it to stop; before the first call and after the       *)
(* destructor there is none.                                               *)
(***************************************************************************)
OneRunner ==
    /\ owner = "free" => {t \in Threads : IsLive(t)} = {_runner_thread} \ {NoThread}
    /\ owner = "free" => _runner_thread \notin stop_requested
    /\ owner = "gone" => ~SomeLive

(***************************************************************************)
(* Two threads walk the agents only inside run, and no more than two: each *)
(* live thread is the runner's, or is the earlier one, which has been      *)
(* asked to stop and which run is waiting for.                             *)
(***************************************************************************)
OverlapBounded ==
    \A t \in Threads :
        IsLive(t) => \/ t = _runner_thread
                     \/ owner = "run" /\ t = joined /\ t \in stop_requested

(***************************************************************************)
(* A thread touches freed or foreign memory only if the owner called       *)
(* add_agent or the destructor while a thread was running: run itself is   *)
(* safe to call again, though two threads then walk the same agents.       *)
(***************************************************************************)
UndefinedOnlyIfShared == undefined => shared

(***************************************************************************)
(* run and the destructor return: the stopped thread ends its pass over    *)
(* the agents and is joined.                                               *)
(***************************************************************************)
JoinsEnd == (owner \in {"run", "delete", "destroy"}) ~> (owner \in {"free", "gone"} \/ undefined)

(***************************************************************************)
(* Once run has been called, every agent added before is executed, unless  *)
(* the owner comes to share the agents with the thread.                    *)
(***************************************************************************)
EveryAgentExecuted ==
    \A i \in 1..MaxAgents :
        (_runner_thread # NoThread /\ i <= size) ~>
            (shared \/ \E t \in Threads : state[t] = "execute" /\ at[t] = i)
=============================================================================
