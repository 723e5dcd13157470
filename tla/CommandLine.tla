---------------------------- MODULE CommandLine ----------------------------
(***************************************************************************)
(* main of crates/meta_amm_sim/src/main.rs: the flags of the command line  *)
(* choose one command, which runs to its end or panics on the first error. *)
(* Printing is left out.                                                   *)
(***************************************************************************)
EXTENDS ConfigExport, ReplayCsv

VARIABLES
  command,            \* chosen by the flags
  exportRequested,    \* --export-best-config is among them
  finished            \* "running", "printed" or "panicked"

vars == <<command, exportRequested, finished, packVars, calibrationVars,
          exportVars, replayVars>>

Flags == {"--calibrate-reference", "--export-best-config", "--scenario-pack",
          "--replay-csv"}

(* main: the first command requested, in this order, is the only one run.  *)
CommandOf(flags) ==
  IF flags \cap {"--calibrate-reference", "--export-best-config"} # {}
    THEN "calibration"
  ELSE IF "--scenario-pack" \in flags THEN "scenario pack"
  ELSE IF "--replay-csv" \in flags THEN "replay"
  ELSE "smoke"

Init ==
  /\ \E flags \in SUBSET Flags :
       /\ command = CommandOf(flags)
       /\ exportRequested = ("--export-best-config" \in flags)
  /\ finished = "running"
  /\ PackInit /\ CalibrationInit /\ ExportInit /\ ReplayInit

(* run_generated_smoke simulates one scenario and grades nothing; the      *)
(* baseline and the book it also runs are subjects of Primitives.          *)
RunSmoke ==
  /\ command = "smoke"
  /\ SimulatePath(<<PackPathCounts[1]>>) \/ PathFails(<<PackPathCounts[1]>>)
  /\ UNCHANGED <<calibrationVars, exportVars, replayVars>>

RunScenarioPack ==
  /\ command = "scenario pack"
  /\ SimulatePath(PackPathCounts) \/ PathFails(PackPathCounts)
  /\ UNCHANGED <<calibrationVars, exportVars, replayVars>>

RunCalibration ==
  /\ command = "calibration"
  /\ \/ CalibrateCandidate /\ UNCHANGED exportVars
     \/ CandidateFails /\ UNCHANGED exportVars
     \/ RankCandidates /\ UNCHANGED exportVars
     \/ exportRequested /\ ExportBest
  /\ UNCHANGED <<packVars, replayVars>>

RunReplay ==
  /\ command = "replay"
  /\ ReplayNext
  /\ UNCHANGED <<packVars, calibrationVars, exportVars>>

Run ==
  /\ finished = "running"
  /\ RunSmoke \/ RunScenarioPack \/ RunCalibration \/ RunReplay
  /\ UNCHANGED <<command, exportRequested, finished>>

(* Every error is unwrapped by an expect. *)
Panic ==
  /\ finished = "running"
  /\ \/ packResult # NoError
     \/ calibrationResult \notin {NoError, "Ranked", "Exported"}
     \/ replayResult # NoError
  /\ finished' = "panicked"
  /\ UNCHANGED <<command, exportRequested, packVars, calibrationVars,
                 exportVars, replayVars>>

(* The command printed its report. *)
Finish ==
  /\ finished = "running"
  /\ \/ command = "smoke" /\ PackDone(<<PackPathCounts[1]>>)
     \/ command = "scenario pack" /\ PackDone(PackPathCounts)
     \/ command = "calibration" /\ exportRequested
          /\ calibrationResult = "Exported"
     \/ command = "calibration" /\ ~exportRequested
          /\ calibrationResult = "Ranked"
     \/ command = "replay" /\ replayStage = "report"
  /\ packResult = NoError
  /\ finished' = "printed"
  /\ UNCHANGED <<command, exportRequested, packVars, calibrationVars,
                 exportVars, replayVars>>

(* What was exported is carried to the compiler once the command is over.  *)
CarryOver ==
  /\ finished = "printed"
  /\ LoseLine \/ ImportDocument
  /\ UNCHANGED <<command, exportRequested, finished, packVars, replayVars>>

Next == Run \/ Panic \/ Finish \/ CarryOver

Spec == Init /\ [][Next]_vars

=============================================================================
