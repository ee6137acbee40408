---------------------------- MODULE MCProvision ----------------------------
(* What the agent downloads, for TLC: the bundle of an update, three       *)
(* releases of which the second asset is as long as the first and the      *)
(* third longer; the engines of the artifact store, with the lock (Store)  *)
(* and where it and deletions are refused (Refused); the engines of the    *)
(* plugin installers (Plugin).  A behaviour is one of the part it chooses  *)
(* at the start, the others stay in their first state.                     *)
EXTENDS Download

CONSTANTS
    Proc, StoreDevices, Published, MaxVersion, StoreAttempts, StoreFaults, LockFails, DeletionFails,
    NoOne,
    Engines, PluginDevices, MaxTag, PluginAttempts, PluginFaults, MaxPins, Downgrades

VARIABLES
    part,  \* which part moves
    a_device, a_published, a_dest, a_staging, a_old, a_archive, a_partial, a_lock, a_pc,
    a_want, a_attempt, a_faults,
    r_device, r_published, r_dest, r_staging, r_old, r_archive, r_partial, r_lock, r_pc,
    r_want, r_attempt, r_faults,
    i_engine, i_device, i_pin, i_pins, i_tagfile, i_server, i_lib, i_src, i_built, i_pc,
    i_todo, i_attempt, i_force, i_clean, i_result, i_faults

MCSize == [r \in Releases |-> IF r = 3 THEN 3 ELSE 2]

LinuxGpu == [os |-> "linux", arm |-> FALSE, cuda |-> 12, gpu |-> TRUE]
OneDevice == {LinuxGpu}
MCPublished == {{"", "-vulkan"}, {"-cuda-13.3"}}
MCStoreDevices ==
    {LinuxGpu, [os |-> "windows", arm |-> FALSE, cuda |-> 13, gpu |-> TRUE],
     [os |-> "macos", arm |-> TRUE, cuda |-> 0, gpu |-> FALSE]}

\* One device for each way a plugin's installer can go.
NoTools == [os |-> "Windows", arm |-> FALSE, nvcc |-> 0, smi |-> 0, rocm |-> FALSE]
MCPluginDevices ==
    {NoTools, [NoTools EXCEPT !.smi = 11], [NoTools EXCEPT !.arm = TRUE, !.nvcc = 13],
     [NoTools EXCEPT !.os = "Linux", !.smi = 12], [NoTools EXCEPT !.os = "Linux", !.arm = TRUE],
     [NoTools EXCEPT !.os = "Linux", !.nvcc = 12, !.smi = 12],
     [NoTools EXCEPT !.os = "Darwin", !.arm = TRUE]}

Store == INSTANCE ArtifactStore WITH
    Devices <- StoreDevices, Attempts <- StoreAttempts, MaxFaults <- StoreFaults,
    device <- a_device, published <- a_published, dest <- a_dest, staging <- a_staging,
    old <- a_old, archive <- a_archive, partial <- a_partial, lock <- a_lock, pc <- a_pc,
    want <- a_want, attempt <- a_attempt, faults <- a_faults

Refused == INSTANCE ArtifactStore WITH
    Proc <- {"p1", "p2"}, Devices <- OneDevice, Published <- {{""}}, MaxVersion <- 1,
    Attempts <- 1, MaxFaults <- 1, LockFails <- TRUE, DeletionFails <- TRUE, NoOne <- "no one",
    device <- r_device, published <- r_published, dest <- r_dest, staging <- r_staging,
    old <- r_old, archive <- r_archive, partial <- r_partial, lock <- r_lock, pc <- r_pc,
    want <- r_want, attempt <- r_attempt, faults <- r_faults

Plugin == INSTANCE PluginInstall WITH
    Devices <- PluginDevices, Attempts <- PluginAttempts, MaxFaults <- PluginFaults,
    engine <- i_engine,
    device <- i_device, pin <- i_pin, pins <- i_pins, tagfile <- i_tagfile,
    server <- i_server, lib <- i_lib, src <- i_src, built <- i_built, pc <- i_pc,
    todo <- i_todo, attempt <- i_attempt, force <- i_force, clean <- i_clean,
    result <- i_result, faults <- i_faults

a_vars == <<a_device, a_published, a_dest, a_staging, a_old, a_archive, a_partial, a_lock,
    a_pc, a_want, a_attempt, a_faults>>
r_vars == <<r_device, r_published, r_dest, r_staging, r_old, r_archive, r_partial, r_lock,
    r_pc, r_want, r_attempt, r_faults>>
i_vars == <<i_engine, i_device, i_pin, i_pins, i_tagfile, i_server, i_lib, i_src, i_built,
    i_pc, i_todo, i_attempt, i_force, i_clean, i_result, i_faults>>

PartsInit ==
    /\ part \in {"download", "locked", "refused", "plugin"}
    /\ IF part = "download" THEN Init ELSE latest = 1 /\ ranges = TRUE /\ Init
    /\ IF part = "locked" THEN Store!Init
       ELSE /\ a_device = LinuxGpu
            /\ a_published = [default |-> 1, variants |-> [v \in 1 .. 2 |-> {"", "-vulkan"}]]
            /\ Store!Init
    /\ Refused!Init
    /\ IF part = "plugin" THEN Plugin!Init
       ELSE i_engine = "llama" /\ i_device = NoTools /\ Plugin!Init

PartsNext ==
    \/ part = "download" /\ Next /\ UNCHANGED <<part, a_vars, r_vars, i_vars>>
    \/ part = "locked" /\ Store!Next /\ UNCHANGED <<part, vars, r_vars, i_vars>>
    \/ part = "refused" /\ Refused!Next /\ UNCHANGED <<part, vars, a_vars, i_vars>>
    \/ part = "plugin" /\ Plugin!Next /\ UNCHANGED <<part, vars, a_vars, r_vars>>

\* FairSpec of Download where it is the part that moves; in the first state of
\* the store no call has begun.
PartsSpec ==
    /\ PartsInit /\ [][PartsNext]_<<part, vars, a_vars, r_vars, i_vars>>
    /\ WF_vars(part = "download" /\ Updater) /\ WF_vars(part = "download" /\ StartDownload)
    /\ Refused!Fairness

---------------------------------------------------------------------------
(* ensure_engine: "concurrent first-use calls can't corrupt the dir, and a *)
(* version change swaps in a clean dir".  Where the lock is granted and no *)
(* file refuses to be deleted, the engine's directory, whenever it is      *)
(* there, has every file of the one archive its marker names, whoever was  *)
(* killed.                                                                 *)
EngineIntact == Store!EngineIntact

(* "the marker recheck under the lock still prevents double work": where   *)
(* it is granted no engine is replaced by the same engine.  A call of      *)
(* ensure_engine ends, also where the lock is refused and whoever is       *)
(* killed with it.                                                         *)
OneInstallThatEnds == Store!NoDoubleWork /\ Refused!CallEnds

(* _is_already_installed: whatever failed or was killed before, an engine  *)
(* that the test accepts starts and is the pinned release, and a run of an *)
(* installer in which no step failed installs that release, whatever the   *)
(* runs before it left on disk.                                            *)
InstalledIsWhole == Plugin!InstalledIsWhole /\ Plugin!CleanRunInstalls
=============================================================================
