------------------------------ MODULE Engines ------------------------------
(* The engines behind the plugins: the one the adapters share (Swap), and  *)
(* the engine of a single model, of the language model (Llama) and of the  *)
(* transcriber (Whisper).                                                  *)
EXTENDS SwapEngine

CONSTANTS
    LlamaMode, WhisperMode,  \* whether it serves or works on its input
    CanFail                  \* whether a start may fail

VARIABLES
    e_running, e_ready, e_stopEvent, e_proc, e_watch, e_stop, e_active, e_thread, e_queue,
    e_pipe,
    w_running, w_ready, w_stopEvent, w_proc, w_watch, w_stop, w_active, w_thread, w_queue,
    w_pipe

Llama == INSTANCE EngineServer WITH
    Plugin <- "language_model", Mode <- LlamaMode, running <- e_running, ready <- e_ready,
    stopEvent <- e_stopEvent, proc <- e_proc, watch <- e_watch, stop <- e_stop,
    active <- e_active, thread <- e_thread, queue <- e_queue, pipe <- e_pipe

Whisper == INSTANCE EngineServer WITH
    Plugin <- "audio_transcriber", Mode <- WhisperMode, running <- w_running,
    ready <- w_ready, stopEvent <- w_stopEvent, proc <- w_proc, watch <- w_watch,
    stop <- w_stop, active <- w_active, thread <- w_thread, queue <- w_queue,
    pipe <- w_pipe

e_vars == <<e_running, e_ready, e_stopEvent, e_proc, e_watch, e_stop, e_active, e_thread,
    e_queue, e_pipe>>
w_vars == <<w_running, w_ready, w_stopEvent, w_proc, w_watch, w_stop, w_active, w_thread,
    w_queue, w_pipe>>

---------------------------------------------------------------------------
(* A teardown leaves no engine behind: not the single-model server's,      *)
(* whichever caller of stop() came first and however far the start was,    *)
(* and, where no start fails, not the swap manager's after its last model. *)
NoEngineLeft == Llama!EngineStopped /\ Whisper!EngineStopped /\ Swap!NothingLeft
=============================================================================
