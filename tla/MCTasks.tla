------------------------------ MODULE MCTasks ------------------------------
(***************************************************************************)
(* The services of the kernel that are no queues, for TLC, in scenarios:   *)
(* sets of services that tasks and interrupts use together.                *)
(***************************************************************************)
EXTENDS TaskServices, SoftwareTimers, Heap4

CONSTANTS first, second  \* two tasks of the program

VARIABLE scenario

SamePriority == 0 :> <<Idle>> @@ 1 :> <<first, second>>

mcVars == <<taskServicesVars, timersVars, heapVars, scenario>>

MCInit ==
    /\ TaskServicesInit /\ TimersInit /\ HeapInit
    /\ scenario \in {"delays", "suspending", "deleting", "notifying", "timers", "heap"}
    /\ scenario = "timers" \/ \A t \in Timers : period[t] = Max(Periods)

TasksIn == {"delays", "suspending", "deleting", "notifying"}

Delaying ==
    /\ scenario = "delays"
    /\ vTaskDelay \/ vTaskDelayUntil \/ vTaskPrioritySet

Suspending ==
    /\ scenario = "suspending"
    /\ \/ vTaskDelay \/ vTaskSuspend \/ vTaskResume \/ xTaskResumeFromISR
       \/ ulTaskNotifyTake \/ vTaskNotifyGiveFromISR

Deleting ==
    /\ scenario = "deleting"
    /\ vTaskDelay \/ vTaskDelete \/ AddNewTaskToReadyList \/ vTaskPrioritySet

Notifying ==
    /\ scenario = "notifying"
    /\ \/ vTaskDelay \/ ulTaskNotifyTake \/ xTaskNotifyWait \/ xTaskGenericNotify
       \/ xTaskGenericNotifyFromISR \/ vTaskNotifyGiveFromISR \/ xTaskNotifyStateClear

Scheduling == scenario \in TasksIn /\ SchedulerNext /\ UNCHANGED previous_wake

MCNext ==
    /\ \/ /\ Delaying \/ Suspending \/ Deleting \/ Notifying \/ Scheduling
          /\ UNCHANGED <<timersVars, heapVars>>
       \/ scenario = "timers" /\ TimersNext /\ UNCHANGED <<taskServicesVars, heapVars>>
       \/ scenario = "heap" /\ HeapNext /\ UNCHANGED <<taskServicesVars, timersVars>>
    /\ UNCHANGED scenario

MCSpec == MCInit /\ [][MCNext]_mcVars
=============================================================================
