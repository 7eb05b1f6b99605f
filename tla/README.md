# A TLA+ model of Fabko

Fabko is an agent framework with a small compiler: a language for agents at its front, a SAT solver
at its back. This project models the parts that keep state and take steps: the CDCL solver, its
clause watchers, the reader of CNF files, the `sat` command that puts them together, the parser of
the agent language, the thread that runs agents, the transactions of the datastore and the messages
agents exchange. TLC checks each on small instances. TLAPS proves the safety of all of them
for every instance.

## 1. Inventory

Paths are relative to `src/fabko/`.

| Component | State | Operations | Interacts with | Modules |
|---|---|---|---|---|
| SAT solver, `compiler/backend/sat/solver*.{cpp,hh}` | variables (assignment, level, propagating clause, activity), clauses, trail, level, restart counters | `solver_context(model)`, `solver::solve`, `solve_sat` and what it calls | gets a `model` from the reader or a builder; constructs watchers | `Cnf`, `SatSpec`, `SatSolver` |
| Clause watchers, `solver.hh:89`, `solver.cpp:74` | two optional slots per clause | constructor, `replace`, `size`, `get_watched` | reads the solver's variables | `Watching`, `ClauseWatcher` |
| CNF reader, `solver.cpp:118` | clauses, set of variables, the capacities of two vectors | `make_model_from_cnf_file` | its model goes to the solver | `CnfReader` |
| Command line and logging, `compiler/backend/sat/cli.hh`, `fabko.cpp`, `common/logging.*` | list of files, registered logger | options, the pre-executed handler, the `sat` command, `init_logger`, the log functions | fil::command_line_interface (external); reader, then `solve(1)` | `SatCommand` |
| FABL front end, `compiler/frontend/parser/` | two vectors of declarations | the grammar and its callbacks | fil::copa (external) | `Copa`, `FablGrammar`, `FablParser` |
| Agent runner, `agent/agent.{cpp,hh}` | vector of agents, a `jthread` | `run`, `add_agent`, destruction, the thread's loop | shares the vector between the owner and the threads | `AgentRunner` |
| Datastore, `datastore/` | a RocksDB database, open transactions | opening it (again), begin, `get`, `multi_get`, `list`, `set`, `multi_set`, `commit_transaction`, destruction | RocksDB's optimistic transactions (external) | `KvSpec`, `KvRocksdb` |
| ACL messages, `agent/protocol/acl.hh` | a message object, filled in place | `to_json`, `from_json`, `deserialize` | nlohmann::json (external) | `AclMessage` |
| Integer SAT builder, `compiler/frontend/sat_builder/` | none | a function from an integer to four clauses | would feed the solver | not modelled |
| Blackboard, agent communication, `agent/` | none that changes | stubs that return constants | - | not modelled |
| FABL intermediate representation, `compiler/frontend/ir/` | types and tables of names | - | nothing | not modelled |

What makes each component correct, and what is hard about it:

- **Solver.** An answer must be a solution, and *unsatisfiable* must mean so. That rests on what a
  test hardly reaches: the trail stays in level order across non-chronological backtracking, the
  recorded propagating clauses are never stale, the learned clause follows from the model after any
  number of resolutions, propagation stays complete although the solver backtracks further than
  the learned clause asks for, and the search ends although it restarts. `solve` may be called
  again on the context an earlier call left.
- **Watchers.** Two different free variables per clause while there are two, in whatever order
  variables are assigned, unassigned and reported.
- **Reader.** A model that the solver's constructor accepts and that holds the clauses of the file,
  in builds with and without `NDEBUG` (`fabko_assert` does nothing with it).
- **Command.** The answer printed for a file is about that file, whatever file came before it; the
  logger exists when the loop, the reader or the solver logs; the loop over the files ends.
- **Front end.** Alternatives are ordered and keywords are not reserved, so an early alternative may
  take what was meant for a later one; a syntax error is not an exception but the end of a list.
- **Runner.** Two live threads only while `run` waits for the earlier, one after it returns, joins that
  end, no access to freed agents.
- **Datastore.** No lost update between interleaved transactions, although reads are neither tracked
  nor taken from the snapshot; a database that is opened again has what was committed; a commit that
  fails is not reported as one that succeeded; listings of exactly the keys with a prefix.
- **Messages.** An object that is reused is never a mixture of two messages.

`PROJECT.json` lists the hazards at their lines, with the properties that watch each of them.

## 2. Modules

`Cnf` has literals, clauses, models and the semantic notions: `Satisfiable`, and `EntailsSome(m, S)`
("every solution of `m` makes a literal of `S` true"). `Watching` extends it with the operations of a
watcher. `SatSolver` and `ClauseWatcher` extend `Watching`; `CnfReader` extends `Cnf`, and its property
`ModelsWellFormed` is the assumption (`ModelsAssumption`) that `SatSolver` makes of its models.
`SatSpec` is what class `solver` promises: `SatSolver` refines it, and `SatCommand` composes the reader
with it. `KvSpec` is what a transaction promises, and `KvRocksdb` refines it. `FablParser` extends
`FablGrammar`, which is written over `Copa`. The `MC*` modules give instances; the `*Proofs` modules
hold theorems.

### SatSolver

The columns of `vars_soa_` and `clauses_soa_` are variables of the same names (`assignment`,
`decision_level`, `clause_propagation`, `vsids_activity`; `clauses`, `watchers`), then `trail`,
`current_decision_level`, the restart counters and `statistics`. A variable is named by the absolute
value of its literals, which is how class `literal` compares them. The locals of
`unit_propagation` (`scan`, `propagated`) and of `resolve_conflict` (`learned`,
`current_level_vars`, `backtrack_level`, `trail_index`) are variables, since one action is one turn
of a loop:

| Action | Code |
|---|---|
| `CallSolve` | entry of `solver::solve`; the default argument -1 returns at once |
| `Iterate`, `Restart` | top of `solve_sat`'s loop |
| `SkipClause`, `PropagateUnit`, `FindConflict`, `EndPass` | one visit of a clause, and the end of a pass, in `unit_propagation` |
| `StepDownTrail`, `ResolveAntecedent` | one step of `resolve_conflict` down the trail |
| `ReturnUnsatisfiable`, `LearnAndBacktrack` | what `solve_sat` does with the result: learn, backtrack, update the activities |
| `MakeDecision`, `CheckSolution` | `make_decision`, and its failure |

`learned_clause` and `current_level_vars` are vectors in the code and sets here. The first is
sorted and made unique before anybody looks at its order. Of the second only the size and the
members matter, so a member is a pair that tells two occurrences apart. The watcher of a learned
clause is built before the backtracking, as in the code, when all its variables are assigned.
Activities are int64 with the width `ActivityMax`; a decay whose quotient does not fit is undefined
behaviour and yields either end of the range. The float arithmetic of the decay and of the
normalisation is exact division truncated towards zero.

### ClauseWatcher, CnfReader, SatCommand

`ClauseWatcher`: a client assigns and unassigns variables and reports them with `replace`, in any
order. `unreported` and `unassigned` are history.

`CnfReader`: one action per kind of line. The capacities of the vectors are state, because the code
takes them for the declared counts. `ndebug` is the build.

`SatCommand`: the user gives options (`AcceptFile`, `RefuseFile`, `RefuseCommandLine`), the library
calls the pre-executed handler (`InitLogger`) and the command's (`ExecuteNothing` without files, else
`Execute`), which loops over the files: `OpenFile` enters `make_model_from_cnf_file` with fresh locals, or the file is gone
(`FileGone`); `ReadFile` is a step of the reader; `CallSolver` and `SolverAnswers` are steps of
`SatSpec`; `NextFile` prints and destroys the solver. An exception of the reader is caught by nobody
and ends the program. When the library handles an option, before or after the pre-executed handler,
is left open. Every step that logs, of the options, the loop, `FileGone` and the solver's answer, sets
`undefined` if it finds no logger (`Logs`), and the behaviour ends there.

### Copa, FablGrammar, FablParser

The submodule of fil::copa is empty in this commit. `Copa` gives its combinators the meaning that the
grammar and the parser's tests rely on: ordered alternatives, greedy lists that may be empty, rules
that leave nothing behind when they fail. A text is a sequence of lexemes, a word, a number or one
symbol, so white space and the spelling of names are abstracted. A rule is a function from the positions of
the text to the set of its matches there: one, or none where the rule fails. The two recursive rules, a
list and an expression, are recursive functions of the position. `FablGrammar` has one operator per
rule of `fabl_grammar.hh`, under its name, and builds the nodes of `concrete_ast.hh`. An expression in
parentheses is written in line between the leaves `Open` and `Close`, so that the types of the trees are
plain sets (`Expressions`, `Capabilities`, `Actors`) and an expression is a sequence that is `Balanced`.
In `FablParser` somebody writes declarations and may damage the text at one lexeme; then one action is
one turn of the list of declarations. `ReadsWhatWasMeant` compares the result with the declarations,
whose text is stated without the grammar (`DeclarationText`).

Two things about the language that the model keeps as the code has them: the list of an expression
accepts operands and operators in any order, since the library arranges them by precedence later, and
`%` has an operator but no rule. Whether the library requires the end of the input after the list is
not known; `ReadsWhatWasMeant` says that a text without damage is read to its end.

### AgentRunner, KvRocksdb, AclMessage

`AgentRunner`: the owner and each thread interleave at every agent. The vector is its storage (a
number that reallocation changes), size and capacity; how the capacity grows is external. Touching freed storage sets `undefined`, and
the behaviour ends there. The members of `agent_runner` are destroyed in reverse order, agents
first. The destructor of the earlier `jthread` runs at the end of the statement in `run`, so the
old and the new thread overlap.

`KvRocksdb`: a value is named by the sequence number of the write that stored it. RocksDB is
external: `Commit` succeeds if no key of the batch was written after the number it is tracked with; for
such a write, or for want of write history, it fails (`FailCommit`). `CommitNothing` is the commit of an
empty batch. `returned` is history: who was told `true`; `NDEBUG` is the build, in which a failed commit
returns `true` as well. Reads are neither tracked nor taken from the snapshot, since the code passes
default `ReadOptions`; that a key is absent is something a client gets too. After a successful commit
the object can be used again: its batch is empty and its snapshot is still that of its construction.
`List` walks the keys in byte order between a start and an end; the overload with a prefix makes the end
by incrementing the last byte, which wraps. `Reopen` is a crash or the end of the program at any moment,
and the constructor on the database that is left: the transactions are gone, and initial pairs are put
again, of which any may fail.

`KvSpec` has neither snapshots nor sequence checks: there a commit writes all the keys that were set
in one step, and it is possible only while the values that were got of these keys are still the stored
ones; opening the database again writes initial keys only. `ImplementsStore` maps what a transaction has seen to `got` and the keys of its batch to `puts`; a commit
that RocksDB refuses is a stutter. Keys that were read and not set may change meanwhile (write skew), in
the code and in `KvSpec`.

`AclMessage`: each agent has one object. It writes a message into it, sends it, or fills it from a
document, which may lack a key; `from_json` then throws with the keys before it already read.

## 3. Runs

| Run | Shows | Distinct states |
|---|---|---|
| `solver` | the invariants of the search and of the answers, unique implication points, complete propagation, new learned clauses, termination, refinement of `SatSpec` | 247 000 |
| `watcher` | the watchers' invariants | 11 000 |
| `command` | the reader's results, and from file to answer over two files; the loop ends, with the logger there | 313 000 |
| `fabl` | every text is read as it was meant, damage spares what stands before it, nothing is skipped | 99 000 |
| `runner` | one runner, two only in `run`, joins end, agents are executed, when memory is misused | 29 000 |
| `kv` | first committer wins, a commit is an atomic read-modify-write that outlives the program (refinement of `KvSpec`), listings | 361 000 |
| `acl` | no mixture of messages, no stale conversation | 57 000 |
| `solver_two`, `watcher_throws`, `watcher_backtracks`, `kv_release`, `acl_conversation` | the disagreements of section 6 | - |

The type invariants of `ClauseWatcher`, `KvRocksdb` and `AclMessage` are proved and in no run, and so is
`ReplacesWhatItSaw`, which is what `ImplementsStore` says of one commit. That of `AgentRunner` is a part of
its proof.

**Bounds.** `solver` has every subset of ten binary clauses and of the eight ternary clauses over three
variables, sequences of three clauses of one or two literals over two variables (unit clauses,
tautologies, repeated literals and repeated clauses among them), every subset of eight clauses
over four variables in which resolution takes literals from lower levels, and three
formulas over five variables, chosen for searches with several levels, clauses learned from learned
clauses and several restarts, with nine of the formulas that one clause less makes of each. `solve` is
called twice, with -1 or 2, so that every formula is also solved on the context that earlier searches
left, and `ActivityMax = 60` makes normalisation and overflowing decays happen. The initial
restart threshold is 2 and the decay interval 2, so that both occur within these searches;
`UInt32Range` is not reached. `StatisticsBound` caps counters that only statistics read, except
`conflicts`, whose remainder by `DecayInterval` the decay reads, and is above what the run counts.
The watcher's clauses have every length to four and one repeated variable.

`command` has up to two files of up to four lines: a unit clause, a clause without zero, numbers after
a zero, an empty clause, and declared counts from -1 to 2. Two files are what it takes for one to
reach the other; four lines hold two clauses and two problem lines. `fabl` has every kind of
statement, operator and operand, names that are keywords or `true`, actors with up to two
statements, a second declaration after the first, and every lexeme left out, doubled or swapped with
the next. Three threads are three calls of `run`: one overlap after another. Three agents make the
vector reallocate twice. In `kv` one key is longer than the prefix it is listed by and the other is
the end of that listing, with bytes of two values so that the last byte wraps; two clients, two
applied commits or openings, and three transactions are what a conflict, a second commit of one object
and an opening after a commit take. It is a build with assertions, which changes only what a failed
commit returns; `kv_release` is one without.
Two agents and two messages suffice for a mixture and for passing on. Agents and clients are
symmetric in `acl` and `kv`, which check no liveness.

**Deadlock** is checked in the solver and the ACL runs. It is not where the client may simply stop:
a command that ended, a text that was read, an owner that destroyed the runner, a watcher that threw,
transactions used up.

**Fairness.** `SatSolver` has weak fairness of `Step` only: the solver is sequential and its thread
runs while a call is under way; the caller need not call. `SatCommand` has weak fairness of `Program`:
the program's single thread runs, while the user need not give options. `AgentRunner` has weak
fairness of each thread (the scheduler runs it; `execute` is empty and a sleep of 10 ms ends) and of
the code that waits in `run` and in the destructor; not of the owner's calls.

**Mutants.** Each property of a passing run is broken by a mutation of the code's model: the operators
under a comment `Mutation:`, such as a restart threshold that is divided, a stop requested after
the swap, a transaction without its snapshot, a comparison `>` tried before `>=`.

## 4. Proofs

Every theorem is of the module's `Spec` (`CommandSpec` for the command), for all values of the
constants that satisfy the named assumptions, which TLC evaluates in the runs.

| Module | Theorems | Property |
|---|---|---|
| `SatSolverProofs` | `TypeCorrect`, `TrailCorrect`, `ReasonsCorrect`, `LearningSound`, `RootLevelSound`, `AnalysisCorrect`, `SolutionsCorrect`, `RefutationsSound` | `TypeOK`, `TrailSound`, `ReasonsSound`, `ClausesFollow`, `RootLevelFollows`, `AnalysisSound`, `SolutionsSatisfy`, `RefutationsCorrect` |
| | `Implements` | `KeepsPromise`, the refinement of `SatSpec` |
| | `LevelsCorrect`, `PropagationComplete`, `ImplicationPointUnique`, `LearningProgresses` | `DecisionsOpenLevels`, `LevelsPropagated`, `UniqueImplicationPoint`, `LearnsNewClauses` |
| | `StepsLowerMeasure` | behind `CallsReturn` |
| `SatCommandProofs` | `CommandTypeCorrect`, `ModelsAreWellFormed`, `EveryClauseIsRead`, `CountsAreDeclared`, `AnswersAreForTheFile` | `CommandTypeOK`, `ModelsWellFormed`, `ReadsEveryClause`, `CountsDeclared`, `AnswersTheFile` |
| `ClauseWatcherProofs` | `TypeCorrect`, `SlotsDiffer`, `WatchedFree`, `WatchesEnough` | `TypeOK`, `WatchesDiffer`, `WatchesFree`, `WatchesTwo` |
| `AgentRunnerProofs` | `RunnerUnique`, `OverlapsOnlyInRun`, `RunSafe` | `OneRunner`, `OverlapBounded`, `UndefinedOnlyIfShared` |
| | `JoinsAdvance` | behind `JoinsEnd` |
| `KvRocksdbProofs` | `TypeCorrect`, `Isolation`, `NoLostUpdate`, `ListCorrect` | `TypeOK`, `FirstCommitterWins`, `ReplacesWhatItSaw`, `ListsPrefix` |
| | `Implements` | `ImplementsStore`, the refinement of `KvSpec` |
| `AclMessageProofs` | `TypeCorrect`, `ReadsWhole`, `ConversationBelongs`, `ConversationKept` | `TypeOK`, `ReadsOneMessage`, `ReadsItsConversation`, `KeepsConversationOnFailure` |
| `FablParserProofs` | `TypeCorrect`, `ConsumptionCorrect`, `ReadingCorrect` | `TypeOK`, `AddsWhatItConsumes`, `ReadsWhatWasMeant` |

**The solver.** The inductive invariant `IInv` is the conjunction of the invariants with two facts
about the database: no clause is empty, and the model's clauses stay where they were put. None of
the parts is inductive alone:

- That backtracking removes exactly the variables above its target needs `TrailSound`; that a trail
  is not empty in a conflict (so that `trail_.size() - 1` does not wrap) needs that no clause is empty.
- A propagating clause still explains its variable after backtracking because its other variables
  are at the same level or below (`ReasonsSound` speaks of levels for this reason).
- A resolution step keeps the derived clause false and implied because the antecedent explains the
  variable and is itself implied (`AnalysisSound` needs `ReasonsSound` and `ClausesFollow`).
- `backtrack` leaves the level of an unassigned variable stale; the analysis is not misled, since
  every variable it meets is assigned.
- At level 0 a unit clause that follows from the model has only false literals that follow, so its
  last literal follows (`RootLevelFollows`). A falsified clause at level 0 then refutes the model.
- A solution satisfies the model's clauses because `KeepsModel` finds them in the database.

Each part has a lemma for the step (`TrailStep`, `TypeStep`, `ReasonsStep`, `DatabaseStep`,
`RootStep`, `AnalysisStep`, `VerdictStep`), split by action. `StepPromise` shows that every step is a
step of `SatSpec` or a stutter. `CnfProofs` has the lemmas on literals, implied clauses, watchers and
appended sequences.

For the decision levels, the proof adds `BacktrackLevelOpen`: the level that `resolve_conflict` will return to is 0 or
the level of a variable on the trail, because only literals that the trail makes false raise it.
`backtrack` makes whatever level it is given the current one, so without this fact a level could be
skipped.

For propagation it adds four facts. `LowerLevelsPropagated`: no clause is unit or falsified under
what is assigned below the current level. `PassSound`: nor is one that a pass without a propagation
has visited, so that `make_decision` opens a level above complete ones. `ReasonsOrdered`: a variable
is on the trail after the other variables of its propagating clause, which holds it at one position.
`AnalysisOpen`: the derived clause keeps a variable of the current level, all of them at or below
`trail_index` or only the decision, and has a literal of the level that will be returned to. The
argument goes round: a conflicting or propagating clause was not pending one level below, so it has two
positions of the current level (`TwoPositions`), so a resolution never loses the level, so the
learned clause has literals of two levels and is not pending below the lower one. With every
clause complete below, a clause with the learned literals would have had to repeat one.

**Termination.** `StepsLowerMeasure` gives the measure that the steps of a call lower, as a sequence of eight
naturals compared lexicographically: the sets of literals that no clause has; the answers still
asked for; whether a conflict may still be found, and a restart may be due; the free variables; the phase of
the loop; whether the pass will be repeated; the visits left in it, or the steps down the trail. The
order is well-founded (`MeasureWellFounded`). The first part falls with every learned clause because that is
new (`LearnedIsNew`, which `LearningProgresses` states as a property); the second with every solution, since
propagation is complete and nothing is left to decide. Two exceptions are in the statement because the code
has them: a restart threshold of 0, reached by the product in uint32 or by configuration, makes
the solver restart for ever, and a model without variables never yields a list of literals that is not
empty. What remains of `CallsReturn` is that a step is possible during a call, and the fairness.

**The reader and the command.** `ReaderInv` says what the reader's locals are of the lines read so far:
the clauses are those of the lines of numbers (`ClausesOfFile`), the set of variables is theirs or as
long as the last problem line declared (`VariablesRead`), and a reserved capacity means that a problem
line came before every clause (`ProblemFirst`, `VariablesReserved`). The last two are why a capacity,
which grows when a clause is appended, can tell a clause without a problem line, and a second problem
line after one that declares clauses. Each
action of the reader has a lemma, and the promises follow where it returns (`ReaderPromises`). The
order in which a set is listed exists by the least counterexample (`SortedList`). `CommandInv` says in
which phase the reader is under way and what its model is;
the model between the phases is the file's, so that an answer of `SatSpec` for the model is one for the
file (`FileAnswered`).

**The watcher.** `EmptySlotIsNeeded` strengthens the invariant: while nothing was unassigned, a slot
is empty only if the other slot watches every variable that is free. `ReplacedSlot` is what one
call of `replace` does.

**The runner.** `Ownership` says which threads live: the one the `jthread` owns, not asked to stop
before the destructor, and the one being joined, which is asked. `RangesValid` says that as long as
the owner has not changed the vector beside a live thread, every range-for walks the present storage
within its size. That two threads are alive only while `run` waits for the earlier (`OverlapBounded`)
is what `Ownership` says of the threads that are not the owned one. `JoinsAdvance` counts the steps a stopped thread has left: two for each agent its range-for
has not passed. The thread that is waited for is alive and was asked to stop (`JoinedAsked`), and the
owner does nothing meanwhile that could set it back.

**The transactions.** Every key of a batch is tracked with the transaction's snapshot; the database
holds what a commit in the log wrote, or something later (`LogStored`); and what a transaction has got
is current or was replaced after its snapshot (`SeenCurrent`). A commit that passes the check of
tracked numbers therefore replaces exactly what it got. The last is why `get` may ignore the snapshot:
the constructor takes it before any `get` can happen. Opening the database again only raises the numbers
in it, and leaves no transaction that could have seen the earlier ones. `StepPromise` maps every
step to one of `KvSpec` or a stutter. `PrefixRange` is the arithmetic of `list`.

**The messages.** The properties are inductive together. A sent object was itself filled without an
exception, `to_json` writes one message's values, and an object that `from_json` filled without an
exception has every required key from the document (`Filled`). The conversation is the last key read
(`ReadKeys`), so no exception can follow it.

**The front end.** What a rule reads is a set of pairs: the nodes that it builds, and the lexemes that
it consumes. `Reads(r, P)` says that every match of the rule `r` is of a pair of `P`, and that `r` looks
only at the text in front of it. The sets are composed as the rules are (`Then`, `OneOf`, `Whole`,
`ManyOf`), so each rule of the grammar has a lemma of a few lines. A list reads repetitions of what its
element reads, by induction on the number of lexemes left; that the two recursive functions
exist at all follows from the same fact, that they look only further ahead (`ListExists`,
`ExpressionRulesExist`). For expressions the induction also gives that what is read between parentheses
is balanced. `TypeCorrect` and `ConsumptionCorrect` follow: the pairs of a declaration are its tree and its text
(`DeclarationText`), and that a text is read from its start (`Inv`) is all the state has to remember.

`ReadingCorrect` is the other direction: every text of the language is read. Where the text of a tree
stands in front of a rule (`Spans`), the rule has exactly one match, which builds that tree and ends
where the text does (`Finds`). An alternative has it because those before it fail there: no condition
is taken for a shorter one (`FindsCondition`), no member for a name (`FindsLevel`), no capability of an
actor for an identifier of one (`FindsStatement`). A list finds its elements, however many, if its
element's rule fails at what follows the list (`FindsList`). An expression is found by induction on its
items (`FindsItems`): a balanced sequence begins with an item that is no parenthesis, or with a balanced
part in parentheses (`BalancedSplit`). These lemmas rest on `LexemesAssumption`: a lexeme is a word, a
number or a symbol, though `true` and `false` may be words as well.

The invariant `MeantInv` relates the parser to the declarations that were written. If the text begins with
the first n of them, then some of these have been read, in order, and nothing else (`ReadUpTo`), or all of them and
something after them (`ReadBeyond`). The second case is needed because what is damaged may still be
of the language. Damage leaves the lexemes before it as they were (`DamagedStart`), so the text still begins
with the declarations before it.

**Only model-checked:** liveness (`CallsReturn`, `CommandEnds`, `JoinsEnd`, `EveryAgentExecuted`),
which under fairness the prover does not reach; the measures above are the part of it that it does. Every other property of
a passing run is stated by a theorem.

## 5. Not modelled

- The integer SAT builder is a pure function that no build target contains and nothing calls. It is
  also unfinished: one of its literals is 0, which has no polarity, and the last clause repeats a
  variable where its name announces another.
- Blackboard and agent communication are stubs: every operation returns a constant.
- The intermediate representation (`compiler/frontend/ir`) is types and tables of names that nothing
  constructs or reads; some of its operators have no entry.
- `string_utils`, `ranges_to`, `visitor_utils` and `metadata` keep no state and nothing that is
  modelled calls them. The non-transactional `kv_db` template has no policy to be instantiated with.
- RocksDB's failures other than those of `Put` at the start and of `Commit`; the contents of log
  messages and `--log-level`, `--log-file`; the solver's `has_conflict`, `solutions_found_` and
  `literal_context`, which are unused; the envelope of a message, which neither conversion touches.

## 6. Disagreements between the code and what is said of it

1. `solve(2)` returns the same solution twice: where the comment says "add a constraint to disable
   the found solution" (`solver.cpp:206`) nothing is added. Run `solver_two`.
2. `clause_watcher::replace` throws `bad_optional_access` once its first slot is empty
   (`solver.cpp:97`). Run `watcher_throws`.
3. A clause that was backtracked to two free variables may be watched by one, where `solver.hh:93` says
   that two watchers are maintained: a slot that the constructor or `replace` left empty is never filled
   again. Run `watcher_backtracks`: the watcher of a clause of two literals, one of which is assigned when
   it is built and unassigned later.
4. In a build with `NDEBUG` a commit that RocksDB refuses returns `true`, since the assertion "Commit
   Failure" (`kv_rocksdb.cpp:82`) is not there. Run `kv_release`: a transaction puts a key, its commit
   fails and is acknowledged, and what was put is not stored.
5. A conversation is not transmitted: `from_json` tests the object it fills, not the document
   (`acl.hh:201`). Run `acl_conversation`.

Without a run of their own:

- A second problem line is accepted where `solver.cpp:140` says "Unexpected 'p' is specified twice": it is
  recognised by the capacity of the clauses, which a line that declares none leaves at 0. Two lines
  `p cnf 0 0` are accepted, and of `p cnf 2 0` and `p cnf 1 1` the reader keeps the count of variables of
  the first and the count of clauses of the second (`IsSecondProblem`, `ReadProblem`).
- "More clauses than expected" (`solver.cpp:174`) is not noticed when the vector's growth makes the
  capacity equal to the number of clauses: one clause where none is declared, two where one is. Fewer
  clauses than declared are noticed, where assertions are: `CountsDeclared`.
- The decay raises the activities: it divides by the ratio 0.95 where the comment says "decrease"
  (`solver_impl.cpp:79`, `:82`).
- `logging.hh:38` says that instantiating the SAT solver initialises the logger; only
  `fabko.cpp:43` does, so a program that uses the solver without it dereferences a missing logger. In the
  command an error among the options may come before it; `CommandEnds` says that nothing later does.
- A model without variables makes `solve` loop for ever (`CommandEnds` makes this exception), and so
  does a restart multiplier of 0. `statistics.backtracks` is never counted.
- A running `agent_runner` that is destroyed, or given an agent, may touch freed memory
  (`UndefinedOnlyIfShared` says that this is the only way).
- In an expression `true` and `false` are literals before they are names, so an actor's member of that
  name can be assigned but not read.

## 7. Plan

Done: `Cnf`, `Watching`, `SatSolver` with its runs, `SatSpec` and the refinement, the soundness proofs,
`ClauseWatcher`, `CnfReader`, `AgentRunner`, `KvRocksdb`, `AclMessage`, then the front end, the command,
the datastore's listings and reused transactions, and the proofs about the watchers, the runner, the
transactions, the messages, the decision levels and propagation, the reader and the command, the
refinement of `KvSpec`, the measures behind two of the liveness properties, what the parser reads, and
that it reads every text of the language.

Next: a measure for the loop over the files, behind `CommandEnds`; the blackboard and the communication
of agents once they are more than stubs.
