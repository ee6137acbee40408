----------------------------- MODULE MCServing -----------------------------
(* What stands between a client and a model, for TLC: the telemetry of a   *)
(* chat completion, the proxy (Proxy), the single-model engine with its    *)
(* threads when it serves (Llama) and when it transcribes a file           *)
(* (Whisper), and the llama-swap manager of two adapters, without faults   *)
(* (Swap).  A behaviour is one of the part it chooses at the start, the    *)
(* others stay in their first state.                                       *)
EXTENDS ChatTelemetry, Engines, SequencesExt

CONSTANTS
    Requests, MaxStarts, Slots, Origins, Routes,  \* of Proxy
    MaxPieces                                     \* bound on the pieces of a body

ASSUME ProxyAssumption ==
    /\ MaxStarts \in Nat /\ Slots \in Nat \ {0} /\ Origins \subseteq {"none", "listed", "unlisted"}
    /\ Routes \subseteq {"options", "get", "post", "unknown"}

VARIABLES
    part,  \* which part moves
    p_server, p_listen, p_made, p_call, p_route, p_origin, p_client, p_req, p_answer, p_up,
    p_inferred, p_records

Pieces == {<<"d", "c">>, <<"d", "u">>, <<"N">>, <<"R">>}
MCBodies == UNION {{FlattenSeq(s) : s \in [1 .. n -> Pieces]} : n \in 0 .. MaxPieces} \cup {<<"u">>}
OwnAlias == [a \in {"a1", "a2"} |-> IF a = "a1" THEN "x" ELSE "y"]

Proxy == INSTANCE ServingProxy WITH
    server <- p_server, listen <- p_listen, made <- p_made, call <- p_call, route <- p_route,
    origin <- p_origin, client <- p_client, req <- p_req, answer <- p_answer, up <- p_up,
    inferred <- p_inferred, records <- p_records

p_vars == <<p_server, p_listen, p_made, p_call, p_route, p_origin, p_client, p_req, p_answer,
    p_up, p_inferred, p_records>>

PartsInit ==
    /\ part \in {"proxy", "chat", "llama", "whisper", "swap"}
    /\ Proxy!Init /\ (part # "proxy" => p_route = [q \in Requests |-> "get"])
    /\ IF part = "chat" THEN Init ELSE body = <<>> /\ shape = "sse" /\ Init
    /\ Llama!Init /\ Whisper!Init /\ Swap!Init

PartsNext ==
    \/ part = "proxy" /\ Proxy!Next /\ UNCHANGED <<part, vars, e_vars, w_vars, s_vars>>
    \/ part = "chat" /\ Next /\ UNCHANGED <<part, p_vars, e_vars, w_vars, s_vars>>
    \/ part = "llama" /\ Llama!Next /\ UNCHANGED <<part, vars, p_vars, w_vars, s_vars>>
    \/ part = "whisper" /\ Whisper!Next /\ UNCHANGED <<part, vars, p_vars, e_vars, s_vars>>
    \/ part = "swap" /\ Swap!Next /\ UNCHANGED <<part, vars, p_vars, e_vars, w_vars>>

\* In its first state no part has a step that it must take.
PartsSpec ==
    /\ PartsInit /\ [][PartsNext]_<<part, vars, p_vars, e_vars, w_vars, s_vars>>
    /\ Proxy!Fairness /\ Llama!Fairness /\ Whisper!Fairness /\ Swap!Fairness

---------------------------------------------------------------------------
(* ServingProxy: the variables have their types; the upstream has exactly  *)
(* the responses open that a handler will close, and never more            *)
(* completions than slots.                                                 *)
TypeOK == Proxy!TypeOK

(* ServingProxy.start: a proxy that start left behind as started is the    *)
(* one that listens on the public port, whoever else wanted it.            *)
StartedListens == Proxy!StartedListens

(* do_POST: a chat request whose answer was begun, a completion or an      *)
(* error of the upstream, fires one record when it ends, also when the     *)
(* client hung up or the proxy was stopped meanwhile, and nothing else     *)
(* fires one.                                                              *)
OneRecordPerStream == Proxy!OneRecordPerStream

(* ServingProxy: the manager's stop returns with requests in flight whose  *)
(* telemetry waits for the lock that it holds; a poll is answered beside a *)
(* stream that has no end; a client that hangs up frees its slot.          *)
RequestsServed == Proxy!StopReturns /\ Proxy!GetAnswered /\ Proxy!SlotFreed

(* An engine that dies before it ever answered ends its adapter, no thread *)
(* of an engine outlives its pipeline for ever, and every construction and *)
(* teardown of an adapter returns (_health_watcher, the heartbeats,        *)
(* wait_until_ready, add_model, remove_model).                             *)
ThreadsEnd ==
    /\ Llama!FailedStartEnds /\ Llama!ThreadsEnd /\ Whisper!ThreadsEnd
    /\ Swap!CallReturns
=============================================================================
