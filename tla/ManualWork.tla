------------------------------ MODULE ManualWork ------------------------------
(***************************************************************************)
(* The manual tasks a project is worked on with: those of the engine, whose *)
(* answers become research records and plans, and those of the Studio, with *)
(* its own tables and handlers.  They share no table, so a behaviour is one *)
(* of the engine or one of the Studio.                                     *)
(***************************************************************************)
EXTENDS PlannerStore

CONSTANTS Threads, Requests, IdentityOf, Responses, Accepts, Nothing, MaxSecond, MaxEvents

VARIABLES inStudio, tasks, events, clock, pc, id, about, seen

Studio == INSTANCE StudioTasks

ASSUME StudioAssumption == Studio!StudioConstants

studioVars == <<tasks, events, clock, pc, id, about, seen>>

EngineRests ==
    /\ NothingPlanned /\ rows = {} /\ responses = {} /\ taken = {}
    /\ agenda = [topics |-> {}, compares |-> FALSE, importers |-> {}]
    /\ importer = [i \in Importers |-> Free]
    /\ planResponses = {} /\ requests = {}
    /\ planner = [i \in Planners |-> Unoccupied]

WorkInit ==
    /\ inStudio \in BOOLEAN /\ Studio!Init
    /\ \/ ~inStudio /\ PlannerInit
       \/ inStudio /\ EngineRests

WorkNext ==
    /\ UNCHANGED inStudio
    /\ \/ ~inStudio /\ PlannerNext /\ UNCHANGED studioVars
       \/ inStudio /\ Studio!Next /\ UNCHANGED <<researchVars, planVars>>

WorkSpec == WorkInit /\ [][WorkNext]_<<inStudio, studioVars, researchVars, planVars>>

\* Whatever the handlers of the Studio interleave: an approval names a response
\* that was accepted for this very task, a repair has a rejected parent that is
\* about the same, and an id never has two contents.
StudioTasksHold ==
    Studio!ApprovedWasValid /\ Studio!RepairOnlyOfRejected /\ Studio!OneContentPerTask
=============================================================================
