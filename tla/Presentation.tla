---------------------------- MODULE Presentation ----------------------------
(***************************************************************************)
(* What the pages compute from an answer to show it: the numbers, names    *)
(* and colours of utils.js, and the charts, tables, graphs and texts of    *)
(* QueryDetail, StageDetail, LivePlan and QueryList.  They are functions   *)
(* of what the coordinator sends, each in a module with the part of the    *)
(* answers it depends on.  A behaviour is about one of them, the subject.  *)
(***************************************************************************)
EXTENDS Integers, Sequences, FiniteSets, TLC

CONSTANTS
    Sample, LargeSample, Stage, Root, MaxDrivers, HISTOGRAM_WIDTH, MaxTime, MaxTimes,
    Host, Port, MaxTasks, Frame, MaxStack, MaxFailures, MaxNodes, maxLines, MaxIndent, MaxText

ASSUME SampleAssumption == Sample \cup LargeSample \subseteq Nat

ASSUME QueryAssumption == Root \in Stage

ASSUME BoundAssumption ==
    /\ {MaxDrivers, MaxTime, MaxTimes, MaxTasks, MaxStack, MaxFailures, MaxNodes, MaxIndent, MaxText} \subseteq Nat
    /\ {HISTOGRAM_WIDTH, maxLines} \subseteq Nat \ {0}

VARIABLES
    subject,        \* the module the behaviour is about
    kind, value, unit, shown,
    state, errorType, canceled, stageState, stageBlocked, totalDrivers, completedDrivers,
    inputData,
    tasks, expanded, taskFilter,
    failure,
    stagePlan, reported,
    plan, answer, graph,
    lines

Num == INSTANCE Units
Status == INSTANCE QueryStatus
Hist == INSTANCE Histogram WITH MaxTasks <- MaxTimes
Tasks == INSTANCE TaskList
Trace == INSTANCE StackTrace
Operators == INSTANCE OperatorGraph WITH plan <- stagePlan
Plans == INSTANCE PlanGraph
Text == INSTANCE QueryText

numberVars == <<kind, value, unit, shown>>
statusVars == <<state, errorType, canceled, stageState, stageBlocked, totalDrivers, completedDrivers>>
taskVars == <<tasks, expanded, taskFilter>>
operatorVars == <<stagePlan, reported>>
planVars == <<plan, answer, graph>>
answerVars == <<subject, numberVars, statusVars, inputData, taskVars, failure, operatorVars, planVars, lines>>

(* A number or a stack to start with matters to its own subject only. *)
AnswerInit ==
    /\ subject \in {"Units", "QueryStatus", "Histogram", "TaskList", "StackTrace", "OperatorGraph",
                    "PlanGraph", "QueryText"}
    /\ IF subject = "Units" THEN Num!Init
       ELSE kind = "count" /\ value = 0 /\ unit = 0 /\ shown = Num!display("count", 0, 0)
    /\ IF subject = "StackTrace" THEN Trace!Init ELSE failure = Trace!plain(<<>>)
    /\ Status!Init
    /\ Hist!Init
    /\ Tasks!Init
    /\ Operators!Init
    /\ Plans!Init
    /\ Text!Init

AnswerNext ==
    \/ /\ subject = "Units" /\ Num!Grow
       /\ UNCHANGED <<subject, statusVars, inputData, taskVars, failure, operatorVars, planVars, lines>>
    \/ /\ subject = "QueryStatus" /\ Status!Next
       /\ UNCHANGED <<subject, numberVars, inputData, taskVars, failure, operatorVars, planVars, lines>>
    \/ /\ subject = "Histogram" /\ Hist!Next
       /\ UNCHANGED <<subject, numberVars, statusVars, taskVars, failure, operatorVars, planVars, lines>>
    \/ /\ subject = "TaskList" /\ Tasks!Next
       /\ UNCHANGED <<subject, numberVars, statusVars, inputData, failure, operatorVars, planVars, lines>>
    \/ /\ subject = "StackTrace" /\ Trace!Next
       /\ UNCHANGED <<subject, numberVars, statusVars, inputData, taskVars, operatorVars, planVars, lines>>
    \/ /\ subject = "OperatorGraph" /\ Operators!Next
       /\ UNCHANGED <<subject, numberVars, statusVars, inputData, taskVars, failure, planVars, lines>>
    \/ /\ subject = "PlanGraph" /\ Plans!Next
       /\ UNCHANGED <<subject, numberVars, statusVars, inputData, taskVars, failure, operatorVars, lines>>
    \/ /\ subject = "QueryText" /\ Text!Next
       /\ UNCHANGED <<subject, numberVars, statusVars, inputData, taskVars, failure, operatorVars, planVars>>

AnswerSpec == AnswerInit /\ [][AnswerNext]_answerVars

Symmetry == Permutations(Host) \cup Permutations(Port)

-----------------------------------------------------------------------------
(* The type of the answers that are more than a number or a sequence.      *)
AnswerTypeOK == Status!TypeOK /\ Tasks!TypeOK

(* A number is shown in the unit it fits, and one that the coordinator has *)
(* rounded comes back as it was sent (utils.js).                           *)
NumbersFit == Num!UnitsFit /\ Num!RepeatsServer

(* A number that grows is never shown as a smaller one.                    *)
NeverShownSmaller == Num!NeverShownSmaller

(* Title, percentage and colours of a query and its stages agree, in every *)
(* combination of states they reach.                                       *)
StatusAgrees ==
    /\ AnswerTypeOK
    /\ Status!PartialBarHasTitle
    /\ Status!TitleAndColorAgree
    /\ Status!EndedStagesLookEnded

(* The stage summary shows every task where it belongs: in the bar of the  *)
(* histogram whose tooltip holds its time, in the list under the name of   *)
(* its worker and after its earlier attempts, in the chart by its number.  *)
TasksShown ==
    /\ Hist!EveryTaskDrawn
    /\ Hist!TooltipHoldsTask
    /\ Tasks!WorkersToldApart
    /\ Tasks!AttemptsInOrder
    /\ Tasks!TooltipNamesTask

(* A stack trace loses no frame and repeats none.                          *)
TraceExact == Trace!TraceRestores /\ Trace!NothingRepeated

(* The operator graph has every operator reported, in chains from source   *)
(* to sink; the live plan has no edge without its ends, and every node of  *)
(* it leads to the output stage.                                           *)
GraphsComplete ==
    /\ Operators!EveryOperatorDrawn
    /\ Operators!ChainsLeadToSink
    /\ Plans!EdgesJoinNodes
    /\ Plans!EveryNodeFeedsOutput

(* The text of a query keeps its indentation, and nothing of it is dropped *)
(* without an ellipsis.                                                    *)
TextKept == Text!NothingLostSilently /\ Text!IndentationKept
=============================================================================
