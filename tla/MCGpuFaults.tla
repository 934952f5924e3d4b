------------------------------ MODULE MCGpuFaults ------------------------------
(***************************************************************************)
(* The queue with restarts, failing database calls and another replica,    *)
(* and what its worker does with the GPUs.  The worker of GpuQueue takes   *)
(* any answer of the guard, and nothing in GpuGuard depends on which job   *)
(* it is for: so an instance of two scenes, each with the other at rest.   *)
(*                                                                         *)
(* The memory is that of the deployment in GiB: a 3060 for all services    *)
(* and a protected 5060 for the second voice engine.                       *)
(***************************************************************************)
EXTENDS GpuQueue, GpuGuard, TLC

CONSTANTS j1, j2, alice, bob

VARIABLE scene

MCPair == {j1, j2}
MCUsers == {alice, bob}
MCPairOwner == j1 :> alice @@ j2 :> bob

MCServices == {"tts", "tts_extra", "asr", "music", "text"}
MCGpus == {"3060", "5060"}
MCGpuOf == [s \in MCServices |->
    CASE s = "tts_extra" -> "5060" [] s = "text" -> NoGpu [] OTHER -> "3060"]
MCUnloaders == MCServices \ {"text"}
MCCapacity == "3060" :> 12 @@ "5060" :> 8
MCFootprint == [s \in MCServices |->
    CASE s \in {"tts", "tts_extra"} -> 5 [] s = "asr" -> 3 [] s = "music" -> 8 [] s = "text" -> 0]
MCEstimate == [s \in MCServices |-> IF s \in {"tts", "tts_extra"} THEN 6 ELSE MCFootprint[s]]
MCTolerance == [s \in MCServices |-> IF s \in {"tts", "tts_extra"} THEN 1 ELSE 0]
MCOthers ==
    {[name |-> "omnivoice-tts", gpu |-> "3060", mem |-> 5],
     [name |-> "stranger", gpu |-> "3060", mem |-> 4],
     [name |-> "stranger", gpu |-> "5060", mem |-> 2],
     [name |-> "comfyui", gpu |-> "5060", mem |-> 1]}
MCKnown == {"omnivoice-tts"}
MCProtected == {"5060"}

MCInit == Init /\ GuardInit /\ scene \in {"queue", "guard"}

MCNext ==
    /\ scene' = scene
    /\ \/ scene = "queue" /\ Next /\ UNCHANGED gvars
       \/ scene = "guard" /\ GuardNext /\ UNCHANGED vars

MCSpec == MCInit /\ [][MCNext]_<<vars, gvars, scene>> /\ WF_vars(\E j \in Jobs : Worker(j))
================================================================================
