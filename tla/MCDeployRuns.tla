---------------------------- MODULE MCDeployRuns -----------------------------
(* Small instances of DeployRuns.                                           *)
EXTENDS DeployRuns, TLC
=============================================================================
