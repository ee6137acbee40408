--------------------------- MODULE ZenohTransport ---------------------------
(* How the agent gets its Zenoh session (src/link/infra/zenoh.py,          *)
(* src/link/infra/provision.py, src/link/adapters/zenoh_client.py): a      *)
(* device that hosts the router downloads and unpacks zenohd and a storage *)
(* backend, has a service run the router, and connects to it.  A failure   *)
(* ends the agent, and the supervisor starts it again.                     *)
EXTENDS Naturals

CONSTANTS
    Modes,        \* of {"client", "peer", "router"}
    MaxConnects,  \* attempts of get_or_create_zenoh_session
    MaxFaults,    \* bound on faults
    Faults        \* of {"router_dl", "backend_dl", "unpack", "kill", "boot", "connect",
                  \* "stall", "identity"}

Part == {"router", "backend"}

VARIABLES
    mode,     \* transport.args.mode
    archive,  \* the archive of each part in .zenoh: "none", "part" or "whole"
    files,    \* its files there: "none", "part" or "whole"
    exec,     \* zenohd may be executed
    service,  \* the service zenohd: "none", "stopped" or "loaded"
    pc,       \* where the agent is
    part,     \* the part it downloads
    tries,    \* attempts to connect
    session,  \* the session it has: "none", "open" (no router yet) or "routed"
    faults

vars == <<mode, archive, files, exec, service, pc, part, tries, session, faults>>

Init ==
    /\ mode \in Modes /\ archive = [c \in Part |-> "none"] /\ files = [c \in Part |-> "none"]
    /\ exec = FALSE /\ service = "none" /\ pc = "off" /\ part = "router" /\ tries = 0
    /\ session = "none" /\ faults = 0

Fault(f) == f \in Faults /\ faults < MaxFaults /\ faults' = faults + 1

\* A zenohd that would run if the service manager started it.
Works == files["router"] = "whole" /\ exec
RouterUp == service = "loaded" /\ Works

\* A client dials a router elsewhere.  is_router_installed asks for zenohd only.
Start ==
    /\ pc = "off" /\ tries' = 0 /\ part' = "router"
    /\ pc' = IF mode = "client" THEN "connect"
             ELSE IF files["router"] = "none" THEN "fetch"
             ELSE IF mode = "router" THEN "ensure" ELSE "connect"
    /\ UNCHANGED <<mode, archive, files, exec, service, session, faults>>

\* The session file with the identity is lost while the agent is off: the
\* supervisor starts it only when somebody has registered the device again.
Unregister ==
    /\ pc = "off" /\ Fault("identity") /\ pc' = "unregistered"
    /\ UNCHANGED <<mode, archive, files, exec, service, part, tries, session>>

Register ==
    /\ pc = "unregistered" /\ pc' = "off"
    /\ UNCHANGED <<mode, archive, files, exec, service, part, tries, session, faults>>

\* _download_component: an archive that is there is taken to be done with.
FetchSkipped ==
    /\ pc = "fetch" /\ archive[part] # "none" /\ pc' = "chmod"
    /\ UNCHANGED <<mode, archive, files, exec, service, part, tries, session, faults>>

Fetch ==
    /\ pc = "fetch" /\ archive[part] = "none"
    /\ pc' = "fetching" /\ archive' = [archive EXCEPT ![part] = "part"]
    /\ UNCHANGED <<mode, files, exec, service, part, tries, session, faults>>

\* The whole answer is written.
Fetched ==
    /\ pc = "fetching" /\ archive' = [archive EXCEPT ![part] = "whole"] /\ pc' = "unpack"
    /\ UNCHANGED <<mode, files, exec, service, part, tries, session, faults>>

\* Neither urlopen nor read has a timeout, nor have the calls of systemctl,
\* launchctl and sc: one that does not come back holds the agent for ever.
Stall ==
    /\ pc \in {"fetch", "fetching", "ensure", "boot"} /\ Fault("stall") /\ pc' = "stalled"
    /\ UNCHANGED <<mode, archive, files, exec, service, part, tries, session>>

Unpack ==
    /\ pc = "unpack" /\ pc' = "unpacking" /\ files' = [files EXCEPT ![part] = "part"]
    /\ UNCHANGED <<mode, archive, exec, service, part, tries, session, faults>>

Unpacked ==
    /\ pc = "unpacking" /\ pc' = "remove" /\ files' = [files EXCEPT ![part] = "whole"]
    /\ UNCHANGED <<mode, archive, exec, service, part, tries, session, faults>>

\* Mutant: the archive stays.
RemoveNot ==
    /\ pc = "remove" /\ pc' = "chmod" /\ archive' = archive
    /\ UNCHANGED <<mode, files, exec, service, part, tries, session, faults>>

\* os.remove of the archive (where it is refused the agent ends: see Kill).
Remove ==
    /\ pc = "remove" /\ pc' = "chmod" /\ archive' = [archive EXCEPT ![part] = "none"]
    /\ UNCHANGED <<mode, files, exec, service, part, tries, session, faults>>

\* Where downloading or unpacking a part may fail.
Breaks ==
    \/ pc = "fetching" /\ Fault(IF part = "router" THEN "router_dl" ELSE "backend_dl")
    \/ pc \in {"unpack", "unpacking"} /\ Fault("unpack")

\* Mutant: what was downloaded stays after an error.
FetchFailsKept ==
    /\ Breaks /\ pc' = "chmod" /\ archive' = archive
    /\ UNCHANGED <<mode, files, exec, service, part, tries, session>>

\* An error is logged, the archive removed, and provisioning goes on.
FetchFails ==
    /\ Breaks /\ pc' = "chmod" /\ archive' = [archive EXCEPT ![part] = "none"]
    /\ UNCHANGED <<mode, files, exec, service, part, tries, session>>

\* After zenohd, downloaded or not, comes the backend; then the router is started.
After(p) == IF p = "router" THEN "fetch" ELSE IF mode = "router" THEN "ensure" ELSE "connect"

\* A zenohd that is there is made executable.
NextPart ==
    /\ pc = "chmod" /\ pc' = After(part) /\ part' = "backend"
    /\ exec' = (exec \/ (part = "router" /\ files["router"] # "none"))
    /\ UNCHANGED <<mode, archive, files, service, tries, session, faults>>

\* What is_running may say.  launchctl lists a label that is loaded, whatever
\* became of its process; systemd takes a service for active until it failed.
IsRunning == IF service # "loaded" THEN {"no"} ELSE IF Works THEN {"yes"} ELSE {"yes", "no"}

\* _ensure_router_running and install_service: a service that does not run is
\* installed and started, if there is a zenohd; a command that fails is logged.
Ensure ==
    /\ pc = "ensure"
    /\ \/ "yes" \in IsRunning /\ pc' = "connect" /\ UNCHANGED <<service, faults>>
       \/ /\ "no" \in IsRunning /\ pc' = "boot"
          /\ \/ service' = (IF files["router"] = "none" THEN service ELSE "loaded") /\ UNCHANGED faults
             \/ Fault("boot") /\ service' = (IF service = "none" THEN "stopped" ELSE service)
    /\ UNCHANGED <<mode, archive, files, exec, part, tries, session>>

\* is_running says so within the ten seconds.
RouterBoots ==
    /\ pc = "boot" /\ "yes" \in IsRunning /\ pc' = "connect"
    /\ UNCHANGED <<mode, archive, files, exec, service, part, tries, session, faults>>

\* It does not: RuntimeError, and the agent ends.
RouterFails ==
    /\ pc = "boot" /\ pc' = "off"
    /\ Fault("boot") \/ ("no" \in IsRunning /\ UNCHANGED faults)
    /\ UNCHANGED <<mode, archive, files, exec, service, part, tries, session>>

\* get_session: zenoh.open succeeds; the router is awaited for five seconds,
\* and the agent goes on without it.
Connect ==
    /\ pc = "connect" /\ pc' = "up" /\ tries' = tries + 1
    /\ session' \in (IF mode = "router" /\ ~RouterUp THEN {"open"} ELSE {"open", "routed"})
    /\ UNCHANGED <<mode, archive, files, exec, service, part, faults>>

\* zenoh.open raises: once more, up to the last attempt.
ConnectFails ==
    /\ pc = "connect" /\ tries' = tries + 1
    /\ Fault("connect") \/ (mode = "router" /\ ~RouterUp /\ UNCHANGED faults)
    /\ pc' = IF tries' >= MaxConnects THEN "off" ELSE "connect"
    /\ UNCHANGED <<mode, archive, files, exec, service, part, session>>

\* The session finds its router after all.
RouterFound ==
    /\ pc = "up" /\ session = "open" /\ (mode = "router" => RouterUp)
    /\ session' = "routed"
    /\ UNCHANGED <<mode, archive, files, exec, service, pc, part, tries, faults>>

\* The agent is killed, or ends where it stands.
Kill ==
    /\ pc \notin {"off", "unregistered"} /\ Fault("kill") /\ pc' = "off" /\ session' = "none"
    /\ UNCHANGED <<mode, archive, files, exec, service, part, tries>>

Agent ==
    \/ Start \/ FetchSkipped \/ Fetch \/ Fetched \/ Unpack \/ Unpacked \/ Remove \/ FetchFails
    \/ NextPart \/ Ensure \/ RouterBoots \/ RouterFails \/ Connect \/ ConnectFails

Next == Agent \/ RouterFound \/ Kill \/ Stall \/ Unregister \/ Register

Spec == Init /\ [][Next]_vars
\* The supervisor starts an agent that ended and has an identity; what has no
\* bound may stall, and nobody promises to register the device.
LiveSpec == Spec /\ WF_vars(Agent) /\ WF_vars(RouterFound)

---------------------------------------------------------------------------
(* The variables have their types, and the attempts stay within theirs.    *)
TypeOK ==
    /\ archive \in [Part -> {"none", "part", "whole"}] /\ files \in [Part -> {"none", "part", "whole"}]
    /\ service \in {"none", "stopped", "loaded"} /\ session \in {"none", "open", "routed"}
    /\ tries \in 0 .. MaxConnects

\* The agent is not provisioning.
Provisioned == pc \in {"off", "unregistered", "ensure", "boot", "connect", "up"}

(* Downloads that fail leave no archive behind that would keep the next    *)
(* start from trying again.                                                *)
NoArchiveLeft == Provisioned => \A c \in Part : archive[c] = "none"

(* is_router_installed asks only whether zenohd exists: one that does is   *)
(* whole and may be executed.                                              *)
InstalledWorks == Provisioned /\ files["router"] # "none" => Works

\* What holds the agent for ever: a call without a timeout, no identity.
Held == pc \in {"stalled", "unregistered"}
Online == pc = "up" /\ session = "routed"

(* "Provision infra as needed and return an active Zenoh session": however *)
(* often it had to be started, the agent has a session with a router in    *)
(* the end, unless a call without a timeout or the loss of its identity    *)
(* holds it.                                                               *)
ConnectsAtLast == <>[]Online \/ <>[]Held

\* What no start repairs: an archive that is taken to be done with, a zenohd
\* that is cut or was never made executable.
Damaged == IF files["router"] = "none" THEN archive["router"] # "none" ELSE ~Works

(* Kills and failing unpackings keep a device off line in these ways only. *)
ConnectsUnlessDamaged == <>[]Online \/ <>[]Held \/ <>[](mode = "router" /\ Damaged)

(* install_router_env: "Download the Zenoh router and a storage backend".  *)
(* An agent that hosts the router has both.                                *)
BackendThere == pc = "up" /\ mode = "router" => files["backend"] = "whole"
=============================================================================
