---------------------------- MODULE ServingProxy ----------------------------
(* The reverse proxy in front of llama-swap (src/link/infra/               *)
(* serving_proxy.py): the swap manager starts and stops it under its lock, *)
(* every request runs in a daemon thread of its own, and a chat completion *)
(* fires a telemetry record whose fan-out takes that same lock.  What the  *)
(* record counts is in ChatTelemetry.                                      *)
EXTENDS Naturals, FiniteSets

CONSTANTS
    Requests,  \* requests of clients
    MaxStarts, \* bound on servers made
    Slots,     \* llama-swap's maxConcurrent
    Origins,   \* subset of {"none", "listed", "unlisted"}
    Routes     \* subset of {"options", "get", "post", "unknown"}

None == 0
Other == MaxStarts + 1   \* a listener that is not ours
Owner == "owner"         \* the swap manager, in a call under its lock
NoAnswer == [code |-> 0, acao |-> FALSE, vary |-> FALSE]

VARIABLES
    server,   \* ServingProxy._server: which server, None when stopped
    listen,   \* who listens on the public port
    made,     \* servers made so far
    call,     \* where the manager's call is; its lock is held unless "idle"
    route,    \* what each request asks for
    origin,   \* its Origin header
    client,   \* "there" or "gone"
    req,      \* where the handler of each request is
    answer,   \* what the client was answered
    up,       \* requests with an open response of the upstream
    inferred, \* requests the upstream answers with a completion
    records   \* telemetry records of each request

vars == <<server, listen, made, call, route, origin, client, req, answer, up, inferred, records>>
proxyVars == <<server, listen, made, call>>
asked == <<route, origin>>

Init ==
    /\ server = None /\ listen = None /\ made = 0 /\ call = "idle"
    /\ route \in [Requests -> Routes] /\ origin \in [Requests -> Origins]
    /\ client = [q \in Requests |-> "there"] /\ req = [q \in Requests |-> "new"]
    /\ answer = [q \in Requests |-> NoAnswer]
    /\ up = {} /\ inferred = {} /\ records = [q \in Requests |-> 0]

---------------------------------------------------------------------------
\* start: nothing to do when started; raises when somebody listens.
Start ==
    /\ call = "idle" /\ server = None /\ listen = None /\ made < MaxStarts
    /\ call' = "bind"
    /\ UNCHANGED <<server, listen, made, asked, client, req, answer, up, inferred, records>>

\* Mutant: the server is remembered before its socket is bound.
BindLater ==
    /\ call = "bind" /\ call' = "idle"
    /\ made' = made + 1 /\ server' = made' /\ listen' = IF listen = None THEN made' ELSE listen
    /\ UNCHANGED <<asked, client, req, answer, up, inferred, records>>

\* The server binds its socket and its thread serves, unless the port was
\* taken since the check: then the constructor raises and nothing is kept.
Bind ==
    /\ call = "bind" /\ call' = "idle"
    /\ IF listen = None THEN made' = made + 1 /\ server' = made' /\ listen' = made'
                        ELSE UNCHANGED <<made, server, listen>>
    /\ UNCHANGED <<asked, client, req, answer, up, inferred, records>>

\* stop: shutdown ends the serving thread ...
Stop ==
    /\ call = "idle" /\ server # None /\ call' = "close"
    /\ UNCHANGED <<server, listen, made, asked, client, req, answer, up, inferred, records>>

Serving == {"route", "reply", "headers", "stream", "close", "fire"}
Reset(q) == IF req[q] = "connect" THEN "done" ELSE req[q]

\* Mutant: server_close waits for the handlers, as it does when they are not
\* daemon threads.
ServerCloseJoins ==
    /\ call = "close" /\ \A q \in Requests : req[q] \notin Serving
    /\ call' = "idle" /\ server' = None /\ listen' = None
    /\ req' = [q \in Requests |-> Reset(q)]
    /\ UNCHANGED <<made, asked, client, answer, up, inferred, records>>

\* ... and server_close the socket: whoever was not accepted is reset, and the
\* handlers that run, daemon threads, are not waited for.
ServerClose ==
    /\ call = "close" /\ call' = "idle" /\ server' = None /\ listen' = None
    /\ req' = [q \in Requests |-> Reset(q)]
    /\ UNCHANGED <<made, asked, client, answer, up, inferred, records>>

\* Another program takes or frees the port.
OtherListens ==
    /\ \/ listen = None /\ listen' = Other
       \/ listen = Other /\ listen' = None
    /\ UNCHANGED <<server, made, call, asked, client, req, answer, up, inferred, records>>

---------------------------------------------------------------------------
Connect(q) ==
    /\ req[q] = "new" /\ listen \in 1 .. MaxStarts
    /\ req' = [req EXCEPT ![q] = "connect"]
    /\ UNCHANGED <<proxyVars, asked, client, answer, up, inferred, records>>

Leave(q) ==
    /\ req[q] \notin {"new", "done"} /\ client[q] = "there"
    /\ client' = [client EXCEPT ![q] = "gone"]
    /\ UNCHANGED <<proxyVars, asked, req, answer, up, inferred, records>>

\* A thread of its own for each connection.
Accept(q) ==
    /\ req[q] = "connect" /\ call # "close"
    /\ req' = [req EXCEPT ![q] = "route"]
    /\ UNCHANGED <<proxyVars, asked, client, answer, up, inferred, records>>

\* send_response and its headers.
Written(q, code, cors) ==
    answer' = [answer EXCEPT ![q] = [code |-> code, acao |-> cors /\ origin[q] = "listed", vary |-> cors]]

\* To a client that is gone the write may raise, which ends the handler or is
\* caught.
Answered(q, code, cors) ==
    \/ Written(q, code, cors)
    \/ client[q] = "gone" /\ answer' = answer

\* do_OPTIONS; a path do_GET and do_POST do not know.
Simple(q) ==
    /\ req[q] = "route" /\ req' = [req EXCEPT ![q] = "done"]
    /\ \/ route[q] = "options" /\ Answered(q, 204, TRUE)
       \/ route[q] = "unknown" /\ Answered(q, 404, FALSE)
    /\ UNCHANGED <<proxyVars, asked, client, up, inferred, records>>

\* The upstream refuses or does not answer in time.
UpstreamFails(q) ==
    /\ req[q] = "route" /\ route[q] \in {"get", "post"} /\ req' = [req EXCEPT ![q] = "done"]
    /\ Answered(q, 502, FALSE)
    /\ UNCHANGED <<proxyVars, asked, client, up, inferred, records>>

\* do_GET: the upstream's body is read, then passed on.
Get(q) ==
    /\ req[q] = "route" /\ route[q] = "get" /\ req' = [req EXCEPT ![q] = "reply"]
    /\ UNCHANGED <<proxyVars, asked, client, answer, up, inferred, records>>

Reply(q) ==
    /\ req[q] = "reply" /\ req' = [req EXCEPT ![q] = "done"] /\ Answered(q, 200, TRUE)
    /\ UNCHANGED <<proxyVars, asked, client, up, inferred, records>>

\* do_POST: session.post returns when llama-swap has a slot and the headers are
\* there, or with an error, slot or not: the status is not looked at.
Post(q) ==
    /\ req[q] = "route" /\ route[q] = "post" /\ req' = [req EXCEPT ![q] = "headers"]
    /\ up' = up \cup {q}
    /\ \/ Cardinality(up \cap inferred) < Slots /\ inferred' = inferred \cup {q}
       \/ inferred' = inferred
    /\ UNCHANGED <<proxyVars, asked, client, answer, records>>

\* end_headers: to a client that is gone the write may raise, before the try,
\* and the response is freed with the handler.
Headers(q) ==
    /\ req[q] = "headers"
    /\ \/ /\ Written(q, IF q \in inferred THEN 200 ELSE 500, TRUE)
          /\ req' = [req EXCEPT ![q] = "stream"] /\ up' = up
       \/ /\ client[q] = "gone" /\ answer' = answer
          /\ req' = [req EXCEPT ![q] = "done"] /\ up' = up \ {q}
    /\ UNCHANGED <<proxyVars, asked, client, inferred, records>>

\* The upstream's last chunk was passed on, or its connection broke.
StreamEnds(q) ==
    /\ req[q] = "stream" /\ req' = [req EXCEPT ![q] = "close"]
    /\ UNCHANGED <<proxyVars, asked, client, answer, up, inferred, records>>

\* The next chunk cannot be written.
Hangup(q) ==
    /\ req[q] = "stream" /\ client[q] = "gone" /\ req' = [req EXCEPT ![q] = "close"]
    /\ UNCHANGED <<proxyVars, asked, client, answer, up, inferred, records>>

\* Mutant: the response is left to the pool, which keeps it.
CloseNot(q) ==
    /\ req[q] = "close" /\ req' = [req EXCEPT ![q] = "fire"]
    /\ UNCHANGED <<proxyVars, asked, client, answer, up, inferred, records>>

\* finally: resp.close() ...
CloseUpstream(q) ==
    /\ req[q] = "close" /\ req' = [req EXCEPT ![q] = "fire"] /\ up' = up \ {q}
    /\ UNCHANGED <<proxyVars, asked, client, answer, inferred, records>>

\* Mutant: a record only for a client that stayed.
FireIfThere(q) ==
    /\ req[q] = "fire" /\ call = "idle" /\ req' = [req EXCEPT ![q] = "done"]
    /\ records' = [records EXCEPT ![q] = IF client[q] = "there" THEN @ + 1 ELSE @]
    /\ UNCHANGED <<proxyVars, asked, client, answer, up, inferred>>

\* ... and _fire_telemetry: the manager's _fanout_telemetry takes its lock for
\* the list of callbacks.
Fire(q) ==
    /\ req[q] = "fire" /\ call = "idle" /\ req' = [req EXCEPT ![q] = "done"]
    /\ records' = [records EXCEPT ![q] = @ + 1]
    /\ UNCHANGED <<proxyVars, asked, client, answer, up, inferred>>

Handle(q) ==
    \/ Simple(q) \/ UpstreamFails(q) \/ Get(q) \/ Reply(q) \/ Post(q) \/ Headers(q) \/ Hangup(q)
    \/ CloseUpstream(q)

Next ==
    \/ Start \/ Bind \/ Stop \/ ServerClose \/ OtherListens
    \/ \E q \in Requests : Connect(q) \/ Leave(q) \/ Accept(q) \/ Handle(q) \/ StreamEnds(q) \/ Fire(q)

\* Calls and handlers run; the upstream answers or the request times out, and
\* a stream of a client that is gone has another chunk or times out.  A stream
\* whose client stays may go on for ever.
Fairness ==
    /\ WF_vars(Bind) /\ WF_vars(ServerClose)
    /\ \A q \in Requests : WF_vars(Accept(q)) /\ WF_vars(Handle(q)) /\ WF_vars(Fire(q))

Spec == Init /\ [][Next]_vars
LiveSpec == Spec /\ Fairness

---------------------------------------------------------------------------
(* The variables have their types; the upstream has exactly the responses  *)
(* open that a handler will close, and never more completions than slots.  *)
TypeOK ==
    /\ server \in 0 .. made /\ listen \in (0 .. made) \cup {Other} /\ made \in 0 .. MaxStarts
    /\ call \in {"idle", "bind", "close"} /\ client \in [Requests -> {"there", "gone"}]
    /\ req \in [Requests -> {"new", "connect", "done"} \cup Serving]
    /\ up = {q \in Requests : req[q] \in {"headers", "stream", "close"}}
    /\ Cardinality(up \cap inferred) <= Slots

(* A proxy that start left behind as started is the one that listens on    *)
(* the public port, whoever else wanted it.                                *)
StartedListens == server # None => listen = server

\* The answer to a chat request was passed on, at least in part.
Begun(q) == route[q] = "post" /\ answer[q].code \in {200, 500}

(* A chat request whose answer was begun, a completion or an error of the  *)
(* upstream, fires one record when it ends, also when the client hung up   *)
(* or the proxy was stopped meanwhile, and nothing else fires one.         *)
OneRecordPerStream == \A q \in Requests :
    req[q] = "done" => records[q] = IF Begun(q) THEN 1 ELSE 0

(* The swap manager's stop returns, with requests in flight whose          *)
(* telemetry waits for the lock that it holds.                             *)
StopReturns == call # "idle" ~> call = "idle"

(* "a long-running streaming POST must not block /health and /v1/models    *)
(* polls": they are answered, or reset by a stop, while a stream goes on.  *)
GetAnswered == \A q \in Requests : (req[q] = "connect" /\ route[q] = "get") ~> req[q] = "done"

(* A client that hangs up frees its slot of the upstream.                  *)
SlotFreed == \A q \in Requests : (client[q] = "gone" /\ q \in up) ~> q \notin up

(* The telemetry of a completion fires "whether or not the client hung     *)
(* up", once per chat completion the upstream answered.                    *)
OneRecordPerInference == \A q \in Requests : q \in inferred /\ req[q] = "done" => records[q] = 1

(* "a cancelled stream still represents a real inference": a record is one *)
(* of a completion.                                                        *)
RecordsAreInferences == \A q \in Requests : records[q] > 0 => q \in inferred

(* _send_cors_response_headers: "Standard ACAO + Vary pair sent on every   *)
(* non-preflight response."                                                *)
EveryResponseVaries == \A q \in Requests : answer[q].code \notin {0, 204} => answer[q].vary
=============================================================================
