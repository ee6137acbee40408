---------------------------- MODULE MCOnboarding ----------------------------
(* How an agent comes to know Control and to reach it, for TLC: starts of  *)
(* every kind, one at a time; two that overlap, with late requests and a   *)
(* clock that is set back (Two); the Zenoh session (Zenoh), and with kills *)
(* and failing unpackings (Broken).  A behaviour is one of the part it     *)
(* chooses at the start, the others stay in their first state.             *)
EXTENDS Onboarding

CONSTANTS MaxConnects, MaxTroubles  \* of the Zenoh session: attempts, bound on faults
ASSUME TransportAssumption == MaxConnects \in Nat \ {0} /\ MaxTroubles \in Nat

VARIABLES
    part,  \* which part moves
    t_ctl, t_flight, t_made, t_files, t_last, t_marker, t_clock, t_pc, t_job, t_attempt,
    t_await, t_key, t_path, t_starts, t_faults, t_fleet,
    z_mode, z_archive, z_files, z_exec, z_service, z_pc, z_part, z_tries, z_session,
    z_faults,
    k_mode, k_archive, k_files, k_exec, k_service, k_pc, k_part, k_tries, k_session,
    k_faults

AllJobs == JobType

Two == INSTANCE Onboarding WITH
    Procs <- {"p1", "p2"}, Jobs <- {[cmd |-> "register", cred |-> "reg"]}, MaxStarts <- 2,
    MaxAttempts <- 2, MaxClock <- 2, MaxFaults <- 1, Faults <- {"disk"}, Late <- TRUE,
    ClockBack <- TRUE, ctl <- t_ctl, flight <- t_flight, made <- t_made, files <- t_files,
    last <- t_last, marker <- t_marker, clock <- t_clock, pc <- t_pc, job <- t_job,
    attempt <- t_attempt, await <- t_await, key <- t_key, path <- t_path,
    starts <- t_starts, faults <- t_faults, fleet <- t_fleet

Zenoh == INSTANCE ZenohTransport WITH
    Modes <- {"client", "peer", "router"}, MaxFaults <- MaxTroubles,
    Faults <- {"router_dl", "backend_dl", "boot", "connect", "stall", "identity"}, mode <- z_mode,
    archive <- z_archive, files <- z_files, exec <- z_exec, service <- z_service,
    pc <- z_pc, part <- z_part, tries <- z_tries, session <- z_session, faults <- z_faults

Broken == INSTANCE ZenohTransport WITH
    Modes <- {"client", "peer", "router"}, MaxFaults <- MaxTroubles,
    Faults <- {"router_dl", "backend_dl", "unpack", "kill", "boot", "connect", "stall",
               "identity"},
    mode <- k_mode, archive <- k_archive, files <- k_files, exec <- k_exec,
    service <- k_service, pc <- k_pc, part <- k_part, tries <- k_tries,
    session <- k_session, faults <- k_faults

t_vars == <<t_ctl, t_flight, t_made, t_files, t_last, t_marker, t_clock, t_pc, t_job,
    t_attempt, t_await, t_key, t_path, t_starts, t_faults, t_fleet>>
z_vars == <<z_mode, z_archive, z_files, z_exec, z_service, z_pc, z_part, z_tries,
    z_session, z_faults>>
k_vars == <<k_mode, k_archive, k_files, k_exec, k_service, k_pc, k_part, k_tries,
    k_session, k_faults>>

PartsInit ==
    /\ part \in {"one", "two", "zenoh", "broken"}
    /\ Init /\ Two!Init
    /\ IF part = "zenoh" THEN Zenoh!Init ELSE z_mode = "client" /\ Zenoh!Init
    /\ IF part = "broken" THEN Broken!Init ELSE k_mode = "client" /\ Broken!Init

PartsNext ==
    \/ part = "one" /\ Next /\ UNCHANGED <<part, t_vars, z_vars, k_vars>>
    \/ part = "two" /\ Two!Next /\ UNCHANGED <<part, vars, z_vars, k_vars>>
    \/ part = "zenoh" /\ Zenoh!Next /\ UNCHANGED <<part, vars, t_vars, k_vars>>
    \/ part = "broken" /\ Broken!Next /\ UNCHANGED <<part, vars, t_vars, z_vars>>

\* In its first state no process of Two runs; LiveSpec of ZenohTransport where
\* it is the part that moves.
PartsSpec ==
    /\ PartsInit /\ [][PartsNext]_<<part, vars, t_vars, z_vars, k_vars>>
    /\ \A p \in {"p1", "p2"} : WF_t_vars(Two!Step(p))
    /\ WF_z_vars(part = "zenoh" /\ Zenoh!Agent) /\ WF_z_vars(part = "zenoh" /\ Zenoh!RouterFound)
    /\ WF_k_vars(part = "broken" /\ Broken!Agent) /\ WF_k_vars(part = "broken" /\ Broken!RouterFound)

---------------------------------------------------------------------------
(* A fleet device that lost its session is never started again as a fresh  *)
(* agent with the default configuration (_write_fleet_marker, run), and    *)
(* the session that was bootstrapped last is the one the next start finds  *)
(* (_get_latest_session_file).                                             *)
EnrolledStays == FleetFailsLoud /\ SessionFound

(* _download_component: downloads that fail leave no archive behind that   *)
(* would keep the next start from trying again, and what                   *)
(* is_router_installed takes for a router is a whole, executable zenohd    *)
(* (install_router_env), however often provisioning failed on the way.     *)
RouterWhole == Zenoh!NoArchiveLeft /\ Zenoh!InstalledWorks

(* The agent comes online at last.  Onboarding ends, whatever the network  *)
(* does and whoever else onboards (_request_with_retry); and after failing *)
(* downloads, boots and connections the agent that the supervisor starts   *)
(* again has a session with a router ("Provision infra as needed and       *)
(* return an active Zenoh session").  Exceptions: a download or a service  *)
(* command that never returns, a lost identity, and after a kill or a      *)
(* failed unpacking the archive or the zenohd that it left.                *)
OnlineAtLast ==
    /\ Two!OnboardingEnds
    /\ part = "zenoh" => Zenoh!ConnectsAtLast
    /\ part = "broken" => Broken!ConnectsUnlessDamaged
=============================================================================
