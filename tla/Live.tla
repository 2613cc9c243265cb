-------------------------------- MODULE Live --------------------------------
(* The harness for live validation as one specification: LiveValidation and *)
(* LiveCases model two parts of one script that share no state here.  part  *)
(* says which of them a behaviour is about; the variables of the other one  *)
(* keep their values.                                                       *)
EXTENDS LiveValidation

CONSTANTS Workers, CaseFilter, Absent, Seeding, Faults

\* CASE_MATRIX_CONCURRENCY is at least one, and None is no status of a row.
ASSUME WorkersAssumption == Workers # {} /\ None # "pass"

VARIABLES part, selected, missing, next, at, step, row, results, public, called,
          lost, verdict
Matrix == INSTANCE LiveCases

cases == <<selected, missing, next, at, step, row, results, public, called, lost,
           verdict>>
all == <<part, vars, cases>>

LiveInit == part = "stack" /\ Init /\ Matrix!Init /\ missing = {}
MatrixInit == part = "matrix" /\ Matrix!Init /\ Init
LiveStep == part = "stack" /\ Next /\ UNCHANGED <<part, cases>>
MatrixStep == part = "matrix" /\ Matrix!Next /\ UNCHANGED <<part, vars>>

BothSpec ==
  (LiveInit \/ MatrixInit) /\ [][LiveStep \/ MatrixStep]_all /\ Fairness

Typed == TypeOK /\ Matrix!TypeOK
EvidenceIsTrue == Matrix!EvidenceIsTrue
OthersSeeDefinition == Matrix!OthersSeeDefinition
=============================================================================
