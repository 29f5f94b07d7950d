------------------------------ MODULE LayerRun -------------------------------
(* The layers of one auto merge: their order, their dependencies, the layers  *)
(* with nothing to merge, and what becomes of the files of a layer that is    *)
(* skipped (auto_merge.py, _gate_helpers.py).  A layer has one file here.     *)
EXTENDS Naturals, FiniteSets, FiniteSetsExt

CONSTANTS
  Layer,       \* layer ids of the plan
  LayerPlans   \* the dependencies plans declare: functions from layers to sets of layers
ASSUME LayerAssumption ==
  /\ Layer \subseteq Nat \ {0} /\ IsFiniteSet(Layer)
  /\ LayerPlans \subseteq [Layer -> SUBSET Layer]
  /\ \A plan \in LayerPlans : \A l \in Layer : l \notin plan[l]

VARIABLES
  dependsOn,  \* the plan: the layers each layer depends on
  holds,      \* what the layer's automatic batch holds, "nothing" for no batch
  left,       \* layers still to come in this pass
  completed,  \* completed_layers
  record,     \* the decision record of the layer's file
  begunOn,    \* history: what was completed when the layer was merged, or not
  halted      \* a failed gate stopped the pass

layerVars == <<dependsOn, holds, left, completed, record, begunOn, halted>>

Contents == {"nothing", "missing", "fork_deleted", "plain", "both_changed"}
NotBegun == {0}

WithBatches == {l \in Layer : holds[l] # "nothing"}
NoneVacuous == {}
VacuouslyComplete == Layer \ WithBatches

LayerInit ==
  /\ dependsOn \in LayerPlans /\ holds \in [Layer -> Contents]
  /\ left = WithBatches /\ completed = VacuouslyComplete
  /\ record = [l \in Layer |-> "none"] /\ begunOn = [l \in Layer |-> NotBegun]
  /\ halted = FALSE

VerifyLayerDeps(l) == dependsOn[l] \subseteq completed
MissingFileRecord(l) == IF holds[l] = "fork_deleted" THEN "skip" ELSE "take_target"

(* _execute_batch: a file with a record is left as it is; one that needs a    *)
(* semantic merge is left to the conflict analysis; a file that raises is     *)
(* logged and has no record.                                                  *)
BatchRecords(l) ==
  IF record[l] # "none" THEN {record[l]}
  ELSE CASE holds[l] \in {"missing", "fork_deleted"} -> {MissingFileRecord(l)}
         [] holds[l] = "both_changed" -> {"none"}
         [] OTHER -> {"take_target", "escalate_human", "none"}

(* The layer's batches run; the layer is complete whatever became of them.    *)
(* Its own gates may stop the pass.                                           *)
MergeOneLayer ==
  /\ ~halted /\ left # {}
  /\ LET l == Min(left)
     IN /\ VerifyLayerDeps(l)
        /\ \E r \in BatchRecords(l) : record' = [record EXCEPT ![l] = r]
        /\ begunOn' = [begunOn EXCEPT ![l] = completed]
        /\ completed' = completed \cup {l}
        /\ left' = left \ {l}
  /\ halted' \in BOOLEAN
  /\ UNCHANGED <<dependsOn, holds>>

(* A layer whose dependencies are not met: missing files are copied all the   *)
(* same, the rest escalates; the layer is not complete.                       *)
SkipLayer ==
  /\ ~halted /\ left # {}
  /\ LET l == Min(left)
     IN /\ ~VerifyLayerDeps(l)
        /\ record' = [record EXCEPT ![l] =
             IF record[l] # "none" THEN record[l]
             ELSE IF holds[l] \in {"missing", "fork_deleted"} THEN MissingFileRecord(l)
             ELSE "escalate_human"]
        /\ left' = left \ {l}
  /\ UNCHANGED <<dependsOn, holds, completed, begunOn, halted>>

(* The phase is entered again after a halt: completed_layers starts anew.     *)
EnterAgain ==
  /\ halted /\ halted' = FALSE
  /\ left' = WithBatches /\ completed' = VacuouslyComplete
  /\ begunOn' = [l \in Layer |-> NotBegun]
  /\ UNCHANGED <<dependsOn, holds, record>>

LayerNext == MergeOneLayer \/ SkipLayer \/ EnterAgain
LayerSpec == LayerInit /\ [][LayerNext]_layerVars

-----------------------------------------------------------------------------
(* A layer is merged only when all it depends on is complete, and at the end  *)
(* of a pass a layer was left out exactly when a layer it depends on comes    *)
(* later or was itself left out: empty layers hold nothing up.                *)
LayersSkippedForCause ==
  /\ \A l \in Layer : begunOn[l] # NotBegun => dependsOn[l] \subseteq begunOn[l]
  /\ left = {} /\ ~halted =>
       \A l \in Layer : holds[l] # "nothing" =>
         (begunOn[l] = NotBegun
            <=> \E d \in dependsOn[l] : holds[d] # "nothing" /\ (d > l \/ begunOn[d] = NotBegun))
=============================================================================
