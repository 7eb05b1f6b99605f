------------------------------ MODULE SatSpec ------------------------------
(***************************************************************************)
(* What class solver promises (solver.hh: "solve a satisfiability problem  *)
(* given a model ... and produces results as a list of literal             *)
(* assignments"): while a call of solve is under way, it produces a        *)
(* solution of the model or reports that there is none, until it has       *)
(* produced as many solutions as asked for.                                *)
(***************************************************************************)
EXTENDS Cnf

CONSTANTS Models, ExpectedCounts

VARIABLES model, busy, expected, results, error

vars == <<model, busy, expected, results, error>>

Init ==
    /\ model \in Models
    /\ busy = FALSE
    /\ expected = 0
    /\ results = << >>
    /\ error = "none"

Call ==
    /\ ~busy
    /\ expected' \in ExpectedCounts
    /\ busy' = (0 < expected')
    /\ results' = << >>
    /\ error' = "none"
    /\ UNCHANGED model

Answer ==
    /\ busy
    /\ \E a \in Valuations(model) :
          /\ results' = Append(results, SolutionOf(model, a))
          /\ SatisfiesModel(a, model)
    /\ busy' = (Len(results) + 1 < expected)
    /\ UNCHANGED <<model, expected, error>>

Refuse ==
    /\ busy
    /\ error' = "unsatisfiable"
    /\ busy' = FALSE
    /\ ~Satisfiable(model)
    /\ UNCHANGED <<model, expected, results>>

Next == Call \/ Answer \/ Refuse

Spec == Init /\ [][Next]_vars
=============================================================================
