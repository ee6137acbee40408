---------------------------- MODULE EngineServer ----------------------------
(***************************************************************************)
(* An engine process served directly by a plugin: ModelServer (language_   *)
(* model/server.py) and WhisperServer (audio_transcriber/server.py), with  *)
(* the adapter that owns it.  Threads: the one that constructs, calls and  *)
(* tears down the adapter (the pipeline), the health watcher, and the      *)
(* adapter's own thread (heartbeat, or the transcription of one file).     *)
(* Flags are plain attributes: no lock orders the threads.                 *)
(***************************************************************************)
EXTENDS Naturals

CONSTANTS
    Plugin,   \* "language_model" or "audio_transcriber"
    Mode,     \* "serve" or "transcribe"
    CanFail   \* whether a start may find no port, no binary, no audio file, or fail
              \* to launch

VARIABLES
    running, ready, stopEvent,  \* of the server
    proc,      \* the engine process
    watch,     \* the health watcher
    stop,      \* where each caller of the server's stop() is
    active,    \* running of the adapter
    thread,    \* the adapter's thread
    queue,     \* results not yet read
    pipe       \* the pipeline: constructing, calling, ended and why

server == <<running, ready, stopEvent>>
vars == <<running, ready, stopEvent, proc, watch, stop, active, thread, queue, pipe>>

Callers == {"pipeline", "watcher"}
TypeOK ==
    /\ running \in BOOLEAN /\ ready \in BOOLEAN /\ stopEvent \in BOOLEAN
    /\ proc \in {"none", "loading", "up", "dead"}
    /\ watch \in {"none", "poll", "ok", "no", "done"}
    /\ stop \in [Callers -> {"idle", "begin", "terminate", "flag", "returned"}]
    /\ active \in BOOLEAN /\ thread \in {"none", "beat", "wait", "post", "ended"}
    /\ queue \in 0..1
    /\ pipe \in {"new", "failed", "ready", "empty", "stopped", "exhausted"}
    \* the engine was launched iff it has a watcher, and it runs unless stopped
    /\ (proc = "none") = (watch = "none")
    /\ running => proc # "none"

Init ==
    /\ running = FALSE /\ ready = FALSE /\ stopEvent = FALSE /\ proc = "none" /\ watch = "none"
    /\ stop = [c \in Callers |-> "idle"] /\ active = TRUE /\ thread = "none" /\ queue = 0
    /\ pipe = "new"

-----------------------------------------------------------------------------
(* The constructor: start() and then the adapter's thread.                 *)

\* Without the file it is to transcribe the adapter stops its server, and raises.
BeginThread ==
    /\ \/ /\ pipe' = "ready" /\ thread' = (IF Mode = "serve" THEN "beat" ELSE "wait")
          /\ UNCHANGED <<stop, active>>
       \/ /\ CanFail /\ Mode = "transcribe" /\ pipe' = "stopped" /\ active' = FALSE
          /\ stop' = [stop EXCEPT !["pipeline"] = "begin"] /\ UNCHANGED thread
    /\ UNCHANGED <<stopEvent, queue>>

\* start() launches the engine and its watcher.
Launch ==
    /\ pipe = "new" /\ BeginThread
    /\ running' = TRUE /\ ready' = FALSE /\ proc' = "loading" /\ watch' = "poll"

\* The port is taken or the launch fails: logged, and start() returns.
StartGivesUp ==
    /\ CanFail /\ pipe = "new" /\ BeginThread /\ UNCHANGED <<running, ready, proc, watch>>

\* Without its binary llama-server raises; the whisper one gives up as above.
NoBinary ==
    /\ CanFail /\ Plugin = "language_model" /\ pipe = "new" /\ pipe' = "failed"
    /\ UNCHANGED <<server, proc, watch, stop, active, thread, queue>>

-----------------------------------------------------------------------------
EngineLoads ==
    /\ proc = "loading" /\ proc' = "up"
    /\ UNCHANGED <<server, watch, stop, active, thread, queue, pipe>>
EngineExits ==
    /\ proc \in {"loading", "up"} /\ proc' = "dead"
    /\ UNCHANGED <<server, watch, stop, active, thread, queue, pipe>>

\* _wait_for_health ends: the engine answered, or it is gone, stop() was
\* called, or the time is up.
WaitForHealth ==
    /\ watch = "poll"
    /\ \/ proc = "up" /\ watch' = "ok"
       \/ watch' = "no"
    /\ UNCHANGED <<server, proc, stop, active, thread, queue, pipe>>

\* _health_watcher: ready, or stop(), or nothing when a stop() cut it short.
WatcherReady ==
    /\ watch = "ok" /\ ready' = TRUE /\ watch' = "done"
    /\ UNCHANGED <<running, stopEvent, proc, stop, active, thread, queue, pipe>>
WatcherFails ==
    /\ watch = "no" /\ watch' = "done"
    /\ IF stopEvent THEN UNCHANGED stop ELSE stop' = [stop EXCEPT !["watcher"] = "begin"]
    /\ UNCHANGED <<server, proc, active, thread, queue, pipe>>

-----------------------------------------------------------------------------
(* stop() of the server, from either caller.                               *)

StopGoes(c, from, to) == stop[c] = from /\ stop' = [stop EXCEPT ![c] = to]

\* Mutant: a server that is not ready yet is not stopped.
StopBeginsReady(c) ==
    /\ \/ ~ready /\ StopGoes(c, "begin", "returned") /\ UNCHANGED <<stopEvent, ready>>
       \/ ready /\ StopGoes(c, "begin", "terminate") /\ stopEvent' = TRUE /\ ready' = FALSE
    /\ UNCHANGED <<running, proc, watch, active, thread, queue, pipe>>
StopBegins(c) ==
    /\ \/ ~running /\ StopGoes(c, "begin", "returned") /\ UNCHANGED <<stopEvent, ready>>
       \/ running /\ StopGoes(c, "begin", "terminate") /\ stopEvent' = TRUE /\ ready' = FALSE
    /\ UNCHANGED <<running, proc, watch, active, thread, queue, pipe>>

\* SIGTERM, and SIGKILL after five seconds.
StopTerminates(c) ==
    /\ StopGoes(c, "terminate", "flag") /\ proc' = "dead"
    /\ UNCHANGED <<server, watch, active, thread, queue, pipe>>
StopFlags(c) ==
    /\ StopGoes(c, "flag", "returned") /\ running' = FALSE
    /\ UNCHANGED <<ready, stopEvent, proc, watch, active, thread, queue, pipe>>

-----------------------------------------------------------------------------
(* The adapter.                                                            *)

\* _server_heartbeat_loop: ends with the adapter, or ends it with its server.
Heartbeat ==
    /\ thread = "beat" /\ (~active \/ ~running)
    /\ active' = FALSE /\ thread' = "ended"
    /\ UNCHANGED <<server, proc, watch, stop, queue, pipe>>

\* _transcribe_loop: wait_until_ready, ...
WaitUntilReady ==
    /\ thread = "wait"
    /\ thread' \in {"ended"} \cup (IF ready THEN {"post"} ELSE {})
    /\ UNCHANGED <<server, proc, watch, stop, active, queue, pipe>>
\* ... and the request: a result that is queued, or an error.
Transcribe ==
    /\ thread = "post" /\ thread' = "ended"
    /\ queue' \in {queue} \cup (IF proc = "up" THEN {1} ELSE {})
    /\ UNCHANGED <<server, proc, watch, stop, active, pipe>>

\* __call__: a result, ...
Result ==
    /\ pipe = "ready" /\ queue > 0 /\ queue' = queue - 1
    /\ UNCHANGED <<server, proc, watch, stop, active, thread, pipe>>
\* ... or none: the transcriber then asks whether its thread still lives.
Empty ==
    /\ pipe = "ready" /\ queue = 0 /\ Plugin = "audio_transcriber" /\ pipe' = "empty"
    /\ UNCHANGED <<server, proc, watch, stop, active, thread, queue>>
IsExhausted == ~active \/ thread = "ended"
Exhausted ==
    /\ pipe = "empty"
    /\ \/ ~IsExhausted /\ pipe' = "ready" /\ UNCHANGED <<active, stop>>
       \/ /\ IsExhausted /\ pipe' = "exhausted" /\ active' = FALSE
          /\ stop' = [stop EXCEPT !["pipeline"] = "begin"]
    /\ UNCHANGED <<server, proc, watch, thread, queue>>

\* The pipeline is stopped: teardown calls stop() of the adapter.
Teardown ==
    /\ pipe = "ready" /\ pipe' = "stopped" /\ active' = FALSE
    /\ stop' = [stop EXCEPT !["pipeline"] = "begin"]
    /\ UNCHANGED <<server, proc, watch, thread, queue>>

StopStep(c) == StopBegins(c) \/ StopTerminates(c) \/ StopFlags(c)
Watcher == WaitForHealth \/ WatcherReady \/ WatcherFails \/ StopStep("watcher")
OwnThread == Heartbeat \/ WaitUntilReady \/ Transcribe
Next ==
    \/ Launch \/ StartGivesUp \/ NoBinary \/ EngineLoads \/ EngineExits
    \/ Watcher \/ OwnThread \/ StopStep("pipeline")
    \/ Result \/ Empty \/ Exhausted \/ Teardown

\* Every thread that can go on does: waits and polls have timeouts.
Fairness == WF_vars(Watcher) /\ WF_vars(OwnThread) /\ WF_vars(StopStep("pipeline"))
Spec == Init /\ [][Next]_vars /\ Fairness

-----------------------------------------------------------------------------
\* A teardown leaves no engine behind, whichever of the two callers of stop()
\* came first and however far the start was.
EngineStopped == stop["pipeline"] = "returned" => proc \in {"none", "dead"}

\* An engine that dies before it ever answered ends its adapter.
FailedStartEnds == (watch = "poll" /\ proc = "dead" /\ Mode = "serve") ~> ~active

\* No thread outlives a teardown for ever.
ThreadsEnd == (pipe \in {"stopped", "exhausted"}) ~>
    (watch \in {"none", "done"} /\ thread \in {"none", "ended"} /\ stop["pipeline"] = "returned")

\* What wait_until_ready says: ready means healthy, not stopped.
ReadyIsRunning == ready => running

\* What the comment in start() says: a start that does not raise has an engine.
StartServes == pipe \notin {"new", "failed"} => proc # "none"

\* What the heartbeat says it reports: the server process died.
DeathNoticed == (proc = "dead") ~> ~active

\* What the adapter says: the transcription is yielded via the queue.
ResultYielded == pipe = "exhausted" => queue = 0
=============================================================================
