----------------------------- MODULE MCOperator -----------------------------
(***************************************************************************)
(* What the operators do: applications that report (MCEvaluation),         *)
(* analyses and replays of what was recorded (MCAnalysis), control changes *)
(* (MCDesk) and the monitor (Console).  One of these is chosen at the      *)
(* start; the others idle.                                                 *)
(***************************************************************************)
EXTENDS MCEvaluation, MCAnalysis, MCDesk, Console

VARIABLE scene

\* Bound: writes to the control tables and changes of the document together,
\* of which MaxWrites and MaxChanges bound each.
MaxMoves == 3

\* Bound: calls and jobs that the monitor sees arrive.
MaxArrivals == 3

operatorVars == <<vars, offlineVars, deskVars, consoleVars, scene>>

OperatorInit ==
    /\ Init /\ OfflineInit /\ DeskInit /\ ConsoleInit
    /\ scene \in {"applications", "analyses", "control", "monitor"}
    /\ scene # "applications" => plan = NoTasks
    /\ scene # "analyses" => supply = NoCalls

OperatorNext ==
    \/ /\ scene = "applications" /\ Next
       /\ UNCHANGED <<offlineVars, deskVars, consoleVars, scene>>
    \/ /\ scene = "analyses" /\ OfflineNext
       /\ UNCHANGED <<vars, deskVars, consoleVars, scene>>
    \/ /\ scene = "control" /\ DeskNext /\ writes' + changes' <= MaxMoves
       /\ UNCHANGED <<vars, offlineVars, consoleVars, scene>>
    \/ /\ scene = "monitor" /\ ConsoleNext
       /\ traced'.last + Len(filed') <= MaxArrivals
       /\ UNCHANGED <<vars, offlineVars, deskVars, scene>>

OperatorSpec == OperatorInit /\ [][OperatorNext]_operatorVars

OperatorTypeOK ==
    /\ TypeOK /\ AnalysisTypeOK /\ ReplayTypeOK /\ DeskTypeOK
    /\ ConsoleTypeOK

=============================================================================
