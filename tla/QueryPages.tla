----------------------------- MODULE QueryPages -----------------------------
(***************************************************************************)
(* A browser window on a page about one query and the coordinator that     *)
(* serves it: the page is plan.html (LivePlan) or stage.html (StageDetail).*)
(* The pages share the coordinator's query and nothing else, so one of     *)
(* them is open and the other stays closed.                                *)
(***************************************************************************)
EXTENDS LivePlan

CONSTANTS Stage, UrlStage

ASSUME StageAssumption == 0 \in Stage /\ Stage \subseteq Nat /\ UrlStage \in Nat

VARIABLES
    shown,      \* the page in the window
    stageRequest, stagePage, stageTimer, requestedStage, stageQuery, stageInitialized, stageEnded,
    selectedStageId, graph

SD == INSTANCE StageDetail WITH request <- stageRequest, page <- stagePage, timer <- stageTimer,
          query <- stageQuery, initialized <- stageInitialized, ended <- stageEnded

planVars == <<request, pageVars>>
stagePageVars == <<stagePage, stageTimer, requestedStage, stageQuery, stageInitialized, stageEnded,
                   selectedStageId, graph>>
stageVars == <<stageRequest, stagePageVars>>
windowVars == <<shown, service, planVars, stageVars>>

InPlan == shown = "plan" /\ UNCHANGED <<shown, stageVars>>
InStage == shown = "stage" /\ UNCHANGED <<shown, planVars>>

WindowInit ==
    /\ shown \in {"plan", "stage"}
    /\ Init
    /\ SD!Init

WindowNext ==
    \/ InPlan /\ Next
    \/ InStage /\ SD!Next

(* Of a request that is sent again and again one is answered; timers and   *)
(* callbacks run, of which a page has one at a time to run.                *)
WindowFairness ==
    /\ SF_windowVars(\/ InPlan /\ Serve /\ UNCHANGED pageVars
                     \/ InStage /\ SD!Serve /\ UNCHANGED stagePageVars)
    /\ WF_windowVars(\/ InPlan /\ (Timeout \/ Success \/ Failure)
                     \/ InStage /\ (SD!Timeout \/ SD!Success \/ SD!Failure))

WindowSpec == WindowInit /\ [][WindowNext]_windowVars /\ WindowFairness

-----------------------------------------------------------------------------
(* The properties of LivePlan keep their names; those of StageDetail and   *)
(* of both pages:                                                          *)

(* The type of the state of both pages. *)
WindowTypeOK == TypeOK /\ SD!TypeOK

(* A graph on the stage page is that of the query and the stage the page   *)
(* holds, and a stage is selected from the first answer on, whatever the   *)
(* order of clicks, answers and failures (StageDetail).                    *)
StagePageInv == WindowTypeOK /\ SD!GraphIsCurrent /\ SD!StageSelectedWithQuery

(* StageDetail implements the view of a query: no older copy after a newer *)
(* one, and refreshing ends with the final info and only then.             *)
StageViewSpec == SD!ViewSpec

(* A kill from a page with an old copy never changes how a query ended.    *)
KillKeepsOutcome == SD!KillKeepsOutcome

(* The end of a query gets to the page: LivePlan draws the final plan and  *)
(* StageDetail shows the final info, unless the page met the query without *)
(* a plan, or the first request of LivePlan failed.                        *)
EndIsShown == FinalPlanDrawn /\ SD!FinalInfoShown
=============================================================================
