-------------------------------- MODULE GpuGuard --------------------------------
(***************************************************************************)
(* What the worker of GpuQueue does with the GPUs before it starts a job:  *)
(* it unloads the services that share a GPU with the job's, asks gputasks  *)
(* what is free and, when that is too little, unloads the job's own        *)
(* service once and asks again (gpu_queue.py).                             *)
(*                                                                         *)
(* The worker takes one job at a time, but it is not alone: transcriptions *)
(* do not go through the queue, a second API has a queue of its own, model *)
(* servers unload when they are idle, and other programs use the GPUs.     *)
(* Memory is counted in units of a power of two of MiB.                    *)
(***************************************************************************)
EXTENDS Integers, FiniteSets, FiniteSetsExt

CONSTANTS
    Services,      \* "tts", "tts_extra", "asr", "music"
    Gpus,
    NoGpu,         \* the place of a service that has none
    GpuOf,         \* _service_gpus
    Unloaders,     \* the services an unload callback is registered for
    Protected,     \* the GPUs other programs come first on
    Capacity,      \* the memory of a GPU
    Footprint,     \* the memory of a service's model
    Estimate,      \* GPU_ESTIMATE_MIB_*, 0 for a service that is not guarded
    Tolerance,     \* GPU_GUARD_MEMORY_TOLERANCE_MIB_*
    Others,        \* the processes of other programs: name, gpu, mem
    Known,         \* the names of containers that count as Vocarium's
    Comfy,         \* the name of a process that a protected GPU is left to
    UnknownLimit,  \* GPU_PROTECTED_UNKNOWN_USED_MIB
    FailOpen,      \* GPU_GUARD_FAIL_OPEN
    MaxChanges     \* bound on what happens elsewhere

ASSUME GuardAssumption ==
    /\ IsFiniteSet(Gpus) /\ NoGpu \notin Gpus /\ GpuOf \in [Services -> Gpus \cup {NoGpu}]
    /\ Protected \subseteq Gpus /\ Unloaders \subseteq Services
    /\ Capacity \in [Gpus -> Nat] /\ Footprint \in [Services -> Nat]
    /\ Estimate \in [Services -> Nat] /\ Tolerance \in [Services -> Nat]
    /\ \A s \in Services : Estimate[s] > 0 => Footprint[s] + Tolerance[s] <= Estimate[s]
    /\ UnknownLimit \in Int /\ FailOpen \in BOOLEAN /\ MaxChanges \in Nat

\* A service's container is known by its name.
ASSUME ProcessAssumption ==
    Services # {} /\ \A p \in Others : p.mem \in Nat /\ p.name \notin Services

VARIABLES
    resident,   \* the services whose model is loaded
    running,    \* the processes of other programs
    step,       \* the worker: where it is, the job's service, the callbacks it waits for
    fresh,      \* nothing happened elsewhere since the last measurement
    changes

gvars == <<resident, running, step, fresh, changes>>

Places == {"idle", "unloading", "measuring", "selfUnloading", "measuringAgain",
           "admitted", "working", "denied", "outOfMemory"}

GuardType ==
    /\ resident \subseteq Services /\ running \subseteq Others
    /\ step \in [at : Places, for : Services, calls : SUBSET Services]
    /\ fresh \in BOOLEAN /\ changes \in 0..MaxChanges

GuardInit ==
    /\ resident = {} /\ running = {}
    /\ step = [at |-> "idle", for |-> CHOOSE s \in Services : TRUE, calls |-> {}]
    /\ fresh = FALSE /\ changes = 0

-----------------------------------------------------------------------------
(* The memory, and what gputasks reports of it. *)

ProcessOf(s) == [name |-> s, gpu |-> GpuOf[s], mem |-> Footprint[s]]
Processes == running \cup {ProcessOf(s) : s \in resident}
Sum(procs) == MapThenSumSet(LAMBDA p : p.mem, procs)
Free(g) == Capacity[g] - Sum({p \in Processes : p.gpu = g})

\* The processes of a GPU that are listed; the memory of the hidden ones is used all the same.
Listed(g, hidden) == {p \in Processes \ hidden : p.gpu = g}

\* A protected GPU is refused while ComfyUI runs on it or strangers hold too much of it.
Reserved(g, hidden) ==
    g \in Protected /\
        \/ \E p \in Listed(g, hidden) : p.name = Comfy
        \/ Sum({p \in Listed(g, hidden) : p.name \notin Known \cup Services}) > UnknownLimit

\* Mutant of Reclaimable: the memory of every model on the GPU is the job's to take.
ReclaimableAll(s, hidden) == Sum({p \in Listed(GpuOf[s], hidden) : p.name \in Services})

\* What the job's own service holds already.
Reclaimable(s, hidden) == Sum({p \in Listed(GpuOf[s], hidden) : p.name = s})

Allowed(s, hidden) ==
    /\ Free(GpuOf[s]) + Reclaimable(s, hidden) + Tolerance[s] >= Estimate[s]
    /\ ~Reserved(GpuOf[s], hidden)

-----------------------------------------------------------------------------
(* The worker. *)

At(place) == step' = [step EXCEPT !.at = place]

\* Services on other GPUs stay.
Keep(s) == IF GpuOf[s] = NoGpu THEN {s} ELSE {s} \cup {o \in Services : GpuOf[o] # GpuOf[s]}

Take(s) ==
    /\ step.at \in {"idle", "denied", "outOfMemory"}
    /\ step' = [at |-> "unloading", for |-> s, calls |-> Unloaders \ Keep(s)]
    /\ fresh' = FALSE
    /\ UNCHANGED <<resident, running, changes>>

\* An unload callback: a model that is busy stays, an error counts as done.
Unload(s) == resident' \in {resident \ {s}, resident}

\* The callbacks run at the same time and are all waited for.
UnloadConflict(s) ==
    /\ step.at = "unloading" /\ s \in step.calls
    /\ Unload(s)
    /\ step' = [step EXCEPT !.calls = @ \ {s}]
    /\ UNCHANGED <<running, fresh, changes>>

Unguarded ==
    /\ step.at = "unloading" /\ step.calls = {} /\ Estimate[step.for] = 0
    /\ At("admitted")
    /\ UNCHANGED <<resident, running, fresh, changes>>

Guard ==
    /\ step.at = "unloading" /\ step.calls = {} /\ Estimate[step.for] > 0
    /\ At("measuring")
    /\ UNCHANGED <<resident, running, fresh, changes>>

\* The first refusal is kept for a service that cannot be unloaded.
Refused == IF step.at = "measuring" /\ step.for \in Unloaders THEN "selfUnloading" ELSE "denied"

\* require_gpu_resources, with any of the processes missing from the list.
Measure ==
    /\ step.at \in {"measuring", "measuringAgain"} /\ GpuOf[step.for] # NoGpu
    /\ fresh' = TRUE
    /\ \E hidden \in SUBSET Processes :
          At(IF Allowed(step.for, hidden) THEN "admitted" ELSE Refused)
    /\ UNCHANGED <<resident, running, changes>>

\* The job's GPU is not in the report.
NotReported ==
    /\ step.at \in {"measuring", "measuringAgain"}
    /\ fresh' = FALSE
    /\ At(Refused)
    /\ UNCHANGED <<resident, running, changes>>

\* gputasks does not answer.
MeasurementFails ==
    /\ step.at \in {"measuring", "measuringAgain"}
    /\ fresh' = FALSE
    /\ At(IF FailOpen THEN "admitted" ELSE Refused)
    /\ UNCHANGED <<resident, running, changes>>

\* Mutant of UnloadItself: the refusal that made it unload is the one it raises.
UnloadItselfRaises ==
    /\ step.at = "selfUnloading"
    /\ Unload(step.for)
    /\ At("denied")
    /\ UNCHANGED <<running, fresh, changes>>

UnloadItself ==
    /\ step.at = "selfUnloading"
    /\ \/ Unload(step.for) /\ At("measuringAgain")
       \/ UNCHANGED resident /\ At("denied")
    /\ UNCHANGED <<running, fresh, changes>>

\* work_fn loads the model unless it is there.
StartWork ==
    /\ step.at = "admitted"
    /\ IF step.for \in resident \/ GpuOf[step.for] = NoGpu
       THEN At("working") /\ UNCHANGED resident
       ELSE IF Footprint[step.for] <= Free(GpuOf[step.for])
            THEN At("working") /\ resident' = resident \cup {step.for}
            ELSE At("outOfMemory") /\ UNCHANGED resident
    /\ UNCHANGED <<running, fresh, changes>>

WorkEnds ==
    /\ step.at = "working" /\ At("idle")
    /\ UNCHANGED <<resident, running, fresh, changes>>

-----------------------------------------------------------------------------
(* Elsewhere: programs begin and end, models are loaded for requests outside *)
(* the queue and unloaded when they are idle.  Nobody gets memory that is    *)
(* not there.                                                                *)

Changes == changes < MaxChanges /\ changes' = changes + 1 /\ fresh' = FALSE /\ UNCHANGED step

Begins(p) ==
    /\ p \notin running /\ p.mem <= Free(p.gpu)
    /\ running' = running \cup {p} /\ UNCHANGED resident /\ Changes

EndsElsewhere(p) ==
    /\ p \in running
    /\ running' = running \ {p} /\ UNCHANGED resident /\ Changes

LoadsElsewhere(s) ==
    /\ s \notin resident /\ GpuOf[s] # NoGpu /\ Footprint[s] <= Free(GpuOf[s])
    /\ resident' = resident \cup {s} /\ UNCHANGED running /\ Changes

FallsIdle(s) ==
    /\ s \in resident
    /\ resident' = resident \ {s} /\ UNCHANGED running /\ Changes

GuardNext ==
    \/ Unguarded \/ Guard \/ Measure \/ NotReported \/ MeasurementFails
    \/ UnloadItself \/ StartWork \/ WorkEnds
    \/ \E s \in Services : Take(s) \/ UnloadConflict(s) \/ LoadsElsewhere(s) \/ FallsIdle(s)
    \/ \E p \in Others : Begins(p) \/ EndsElsewhere(p)

GuardSpec == GuardInit /\ [][GuardNext]_gvars

-----------------------------------------------------------------------------
\* A job that was admitted finds the memory its model needs: what counts as free
\* is free or becomes free, through every order of unloading and measuring,
\* busy models and processes that are not listed.  Only somebody who took memory
\* after the measurement can make it fail (_decision_for_service).
AdmittedFits == step.at = "outOfMemory" => ~fresh

\* A job is not refused because of the model of its own service, listed or not:
\* if that is gone and nothing happened since the last measurement, the memory
\* is too little or the GPU is reserved
\* (_require_resources_with_self_unload).
DeniedOnlyWhenFull ==
    LET s == step.for IN
    step.at = "denied" /\ fresh /\ GpuOf[s] # NoGpu /\ s \notin resident /\ s \in Unloaders =>
        \/ Free(GpuOf[s]) + Tolerance[s] < Estimate[s]
        \/ Reserved(GpuOf[s], {})
================================================================================
