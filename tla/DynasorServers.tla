--------------------------- MODULE DynasorServers ---------------------------
(***************************************************************************)
(* The one-click launcher (dynasor/vllm_server.py): the main process       *)
(* starts the vLLM server, polls its /health until it answers 200, starts  *)
(* the proxy (openai_server.py: proxy_request, start_server), polls the    *)
(* health of the server through the proxy, then watches both.  A client    *)
(* sends one request through the proxy's generic endpoint.                 *)
(***************************************************************************)
EXTENDS Naturals

VARIABLES
    main,    \* where main() is
    server,  \* the process of the vLLM server; sick: it answers, but not 200
    proxy,   \* the process of the proxy
    request  \* the client's request: idle, pending, or how it ended

vars == <<main, server, proxy, request>>

Phases == {"start", "askServer", "sleepServer", "askProxy", "sleepProxy", "watch", "exiting", "exited"}
Alive(process) == process \notin {"none", "dead"}

-----------------------------------------------------------------------------
(* main(), one action per step between two waits.                          *)

StartServer ==
    /\ main = "start"
    /\ server' = "starting" /\ main' = "askServer"
    /\ UNCHANGED <<proxy, request>>

(* check_health: any error and any status but 200 means to sleep and ask   *)
(* again.  It never gives up.                                              *)
AskServer ==
    /\ main = "askServer"
    /\ IF server = "up"
       THEN main' = "askProxy" /\ proxy' = "starting"
       ELSE main' = "sleepServer" /\ UNCHANGED proxy
    /\ UNCHANGED <<server, request>>

(* The proxy has no /health of its own: it forwards the question.          *)
AskProxy ==
    /\ main = "askProxy"
    /\ main' = IF proxy = "up" /\ server = "up" THEN "watch" ELSE "sleepProxy"
    /\ UNCHANGED <<server, proxy, request>>

Wake ==
    /\ main \in {"sleepServer", "sleepProxy"}
    /\ main' = IF main = "sleepServer" THEN "askServer" ELSE "askProxy"
    /\ UNCHANGED <<server, proxy, request>>

StillRunning == Alive(server) \/ Alive(proxy)

Watch ==
    /\ main = "watch" /\ ~StillRunning
    /\ main' = "exiting"
    /\ UNCHANGED <<server, proxy, request>>

(* SIGINT or SIGTSTP to the main process: sys.exit(0).  The interpreter    *)
(* waits for the children before it ends.                                  *)
Signal ==
    /\ main \notin {"start", "exiting", "exited"}
    /\ main' = "exiting"
    /\ UNCHANGED <<server, proxy, request>>

Exit ==
    /\ main = "exiting" /\ ~Alive(server) /\ ~Alive(proxy)
    /\ main' = "exited"
    /\ UNCHANGED <<server, proxy, request>>

-----------------------------------------------------------------------------
(* The two processes: they come up, or die; the engine of the server may   *)
(* fail and leave it sick.                                                 *)

ServerUp == server = "starting" /\ server' = "up" /\ UNCHANGED <<main, proxy, request>>
ServerSick == server = "up" /\ server' = "sick" /\ UNCHANGED <<main, proxy, request>>
ServerDies == Alive(server) /\ server' = "dead" /\ UNCHANGED <<main, proxy, request>>

ProxyUp == proxy = "starting" /\ proxy' = "up" /\ UNCHANGED <<main, server, request>>
ProxyDies ==
    /\ Alive(proxy) /\ proxy' = "dead"
    /\ request' = IF request = "pending" THEN "lost" ELSE request
    /\ UNCHANGED <<main, server>>

(* proxy_request forwards to the server; an error of the connection is an  *)
(* error of the handler.                                                   *)
Send ==
    /\ request = "idle" /\ proxy = "up"
    /\ request' = "pending"
    /\ UNCHANGED <<main, server, proxy>>

Forward ==
    /\ request = "pending" /\ proxy = "up"
    /\ request' = CASE server = "up" -> "answered"
                    [] server = "sick" -> "error status"
                    [] OTHER -> "no connection"
    /\ UNCHANGED <<main, server, proxy>>

Init == main = "start" /\ server = "none" /\ proxy = "none" /\ request = "idle"

MainStep == StartServer \/ AskServer \/ AskProxy \/ Wake \/ Watch \/ Exit

Next ==
    \/ MainStep \/ Signal
    \/ ServerUp \/ ServerSick \/ ServerDies \/ ProxyUp \/ ProxyDies
    \/ Send \/ Forward

(* The main process goes on: its joins have a timeout, and a poll is       *)
(* assumed to be answered or refused (requests.get is given no timeout).   *)
(* Of the servers only that one that starts comes up or dies.              *)
Fairness ==
    /\ WF_vars(MainStep)
    /\ WF_vars(server = "starting" /\ (ServerUp \/ ServerDies))
    /\ WF_vars(proxy = "starting" /\ (ProxyUp \/ ProxyDies))

Spec == Init /\ [][Next]_vars /\ Fairness

-----------------------------------------------------------------------------

TypeOK ==
    /\ main \in Phases
    /\ server \in {"none", "starting", "up", "sick", "dead"}
    /\ proxy \in {"none", "starting", "up", "dead"}
    /\ main \in {"askProxy", "sleepProxy", "watch"} => proxy # "none"
    /\ request \in {"idle", "pending", "answered", "error status", "no connection", "lost"}

(* The proxy takes no request before the server behind it was healthy: a   *)
(* connection it cannot make means that the server died, and never that it *)
(* is not up yet.                                                          *)
ConnectionFailsOnlyAfterDeath == request = "no connection" => server = "dead"

(* Once both processes have ended, main ends, too.                         *)
MainEndsAfterBoth == (main = "watch" /\ ~Alive(server) /\ ~Alive(proxy)) ~> main = "exited"

(* vllm_server.py:88: main reports that the "Server failed to become       *)
(* healthy within the timeout period": the wait for the server is bounded. *)
ServerWaitIsBounded == main = "askServer" ~> main \notin {"askServer", "sleepServer"}
=============================================================================
