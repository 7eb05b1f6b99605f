----------------------------- MODULE SatCommand -----------------------------
(***************************************************************************)
(* The command line `fabko sat -c file ...' (cli.hh, fabko.cpp): options   *)
(* are handled, the logger is set up, and each file is read by the reader  *)
(* (CnfReader) and its model given to a solver, of which only the promise  *)
(* SatSpec is used.                                                        *)
(*                                                                         *)
(* The library that parses the command line is external.  It handles the   *)
(* options, calls the pre-executed handler and then the command's handler; *)
(* whether an option is handled before or after the pre-executed handler   *)
(* is left open.                                                           *)
(***************************************************************************)
EXTENDS CnfReader

CONSTANT MaxFiles    \* bound: number of files given

ASSUME FilesAssumption == MaxFiles \in Nat

VARIABLES
    phase,      \* "options", "next", "file", "solve", "answered", "ended" or "died"
    logger,     \* the logger is registered
    undefined,  \* a log function has dereferenced the logger that is not
    files,      \* the number of files in the list
    processed,  \* the number of files the loop is done with
    busy, expected, results, error    \* the solver's, see SatSpec

solving == <<busy, expected, results, error>>
options == <<logger, undefined, files>>
commandVars == <<vars, phase, options, processed, solving>>
reader == <<pc, file, clauses, clauses_capacity, literals_unique, literals_capacity, model>>

Solver == INSTANCE SatSpec WITH Models <- {NoModel}, ExpectedCounts <- {1}

CommandInit ==
    /\ Init
    /\ phase = "options"
    /\ logger = FALSE /\ undefined = FALSE
    /\ files = 0 /\ processed = 0
    /\ busy = FALSE /\ expected = 0 /\ results = << >> /\ error = "none"

----------------------------------------------------------------------------
(***************************************************************************)
(* The option --cnf-file adds a file that exists and has the extension, or *)
(* logs an error; a command line that does not parse is an error too.      *)
(* Every log function dereferences the logger.                             *)
(***************************************************************************)
Logs == undefined' = ~logger

AcceptFile ==
    /\ phase = "options"
    /\ files < MaxFiles
    /\ files' = files + 1
    /\ UNCHANGED <<vars, phase, logger, undefined, processed, solving>>

RefuseFile ==
    /\ phase = "options"
    /\ Logs
    /\ UNCHANGED <<vars, phase, logger, files, processed, solving>>

RefuseCommandLine ==
    /\ phase = "options"
    /\ Logs
    /\ phase' = "ended"
    /\ UNCHANGED <<vars, logger, files, processed, solving>>

\* The pre-executed handler: init_logger registers the logger once.
InitLogger ==
    /\ phase = "options"
    /\ ~logger
    /\ logger' = TRUE
    /\ UNCHANGED <<vars, phase, undefined, files, processed, solving>>

\* The handler of the command, after the pre-executed one: an empty list is an error.
Execute ==
    /\ phase = "options"
    /\ logger
    /\ files > 0
    /\ Logs
    /\ phase' = "next"
    /\ UNCHANGED <<vars, logger, files, processed, solving>>

ExecuteNothing ==
    /\ phase = "options"
    /\ logger
    /\ files = 0
    /\ Logs
    /\ phase' = "ended"
    /\ UNCHANGED <<vars, logger, files, processed, solving>>

----------------------------------------------------------------------------
(***************************************************************************)
(* One file of the loop, which logs its name, opens it, and may find it    *)
(* gone since the option was handled.  An exception of the reader ends the *)
(* program.                                                                *)
(***************************************************************************)
\* Mutation: the locals of the reader outlive a call.
KeptLocals == [clauses |-> clauses, literals |-> literals_unique]
FreshLocals == [clauses |-> << >>, literals |-> {}]

OpenFile ==
    /\ phase = "next"
    /\ processed < files
    /\ phase' = "file"
    /\ pc' = "reading" /\ file' = << >>
    /\ clauses' = FreshLocals.clauses /\ clauses_capacity' = Len(clauses')
    /\ literals_unique' = FreshLocals.literals /\ literals_capacity' = 0
    /\ model' = NoModel
    /\ Logs
    /\ UNCHANGED <<ndebug, logger, files, processed, solving>>

FileGone ==
    /\ phase = "next"
    /\ processed < files
    /\ phase' = "died"
    /\ Logs
    /\ UNCHANGED <<vars, logger, files, processed, solving>>

ReadFile ==
    /\ phase = "file"
    /\ Next
    /\ phase' = CASE pc' = "reading" -> "file" [] pc' = "returned" -> "solve" [] pc' = "threw" -> "died"
    /\ UNCHANGED <<options, processed, solving>>

\* solver {model}, solve(1): the model is moved into the solver.
CallSolver ==
    /\ phase = "solve"
    /\ ~busy
    /\ Solver!Call
    /\ UNCHANGED <<ndebug, reader, phase, options, processed>>

(***************************************************************************)
(* The solver answers, and logs its answer, except for a model without     *)
(* variables, for which the list of literals is empty after any number of  *)
(* turns of solve_sat (solver_impl.cpp:318).                               *)
(***************************************************************************)
\* Mutation: the loop of solve_sat goes on until there are two literals.
AnswersPairs == Len(model.literals) > 1
Answers == model.literals # << >>

SolverAnswers ==
    /\ phase = "solve"
    /\ Answers
    /\ Solver!Answer \/ Solver!Refuse
    /\ phase' = "answered"
    /\ Logs
    /\ UNCHANGED <<ndebug, pc, file, clauses, clauses_capacity, literals_unique, literals_capacity,
                   logger, files, processed>>

\* The warning when there are no results; the solver is destroyed.
NextFile ==
    /\ phase = "answered"
    /\ phase' = "next"
    /\ processed' = processed + 1
    /\ undefined' = (results = << >> /\ ~logger)
    /\ busy' = FALSE /\ expected' = 0 /\ results' = << >> /\ error' = "none"
    /\ UNCHANGED <<vars, logger, files>>

EndCommand ==
    /\ phase = "next"
    /\ processed = files
    /\ phase' = "ended"
    /\ UNCHANGED <<vars, options, processed, solving>>

\* The options come from the user; the rest is the program, which a fault stops.
Options ==
    /\ ~undefined
    /\ \/ AcceptFile \/ RefuseFile \/ RefuseCommandLine \/ InitLogger
       \/ Execute \/ ExecuteNothing
Program ==
    /\ ~undefined
    /\ \/ OpenFile \/ FileGone \/ ReadFile \/ CallSolver \/ SolverAnswers
       \/ NextFile \/ EndCommand

CommandNext == Options \/ Program

CommandSpec == CommandInit /\ [][CommandNext]_commandVars /\ WF_commandVars(Program)

----------------------------------------------------------------------------
(***************************************************************************)
(* Type invariant, with that of the reader.                                *)
(***************************************************************************)
CommandTypeOK ==
    /\ TypeOK
    /\ phase \in {"options", "next", "file", "solve", "answered", "ended", "died"}
    /\ {logger, undefined, busy} \subseteq BOOLEAN
    /\ files \in 0..MaxFiles /\ processed \in 0..files
    /\ expected \in {0, 1} /\ Len(results) <= 1 /\ error \in {"none", "unsatisfiable"}

(***************************************************************************)
(* From the file to the answer: the literals of a result satisfy every     *)
(* line of the file just processed, whatever file came before it, and the  *)
(* warning that there is no solution is given only if there is none.       *)
(***************************************************************************)
AnswersTheFile ==
    phase = "answered" =>
        LET lines == {ClauseOf(file[i].numbers) : i \in NumberLines} \ {<< >>}
            variables == UNION {VariablesOf(c) : c \in lines}
        IN  IF results = << >>
            THEN \A a \in [variables -> {On, Off}] : \E c \in lines : ~IsClauseSatisfied(a, c)
            ELSE /\ \A c \in lines : LitsOf(c) \cap LitsOf(results[1]) # {}
                 /\ \A l \in LitsOf(results[1]) : -l \notin LitsOf(results[1])

(***************************************************************************)
(* Once the handler of the command has come to the files, the loop over    *)
(* them ends, with the program or with an exception, unless it comes to a  *)
(* file whose model has no variables: no log function finds the logger     *)
(* missing.                                                                *)
(***************************************************************************)
CommandEnds ==
    phase = "next" ~>
        (phase \in {"ended", "died"} \/ (phase = "solve" /\ model.literals = << >>))
=============================================================================
