------------------------------ MODULE RpcClients ------------------------------
(***************************************************************************)
(* offchain/infra/rpc_clients.ts for one chain: which client realtime callers   *)
(* get.  Callers compose the registry's operations in one synchronous step, so *)
(* each is an operator from a registry to the next one; the registry itself is *)
(* a variable of the module that uses it.                                     *)
(*                                                                         *)
(* A websocket client is the number of its URL among the candidates, from 0.   *)
(***************************************************************************)
EXTENDS Integers

CONSTANTS WsUrls,    \* how many websocket URLs wsCandidatesForChain yields
          Http,      \* the client over the chain's HTTP URLs
          Absent     \* no entry

ASSUME RpcAssumption ==
  /\ WsUrls \in Nat
  /\ Http \notin Int /\ Absent \notin Int /\ Http # Absent

WsClients == 0..(WsUrls - 1)
Clients == WsClients \cup {Http}

Registries ==
  [realtime: Clients \cup {Absent},          \* realtimeClients
   wsDisabled: {"no", "until", "elapsed"},   \* wsDisabledUntil against the clock
   wsFailed: BOOLEAN,                        \* wsFailures
   cursor: WsClients \cup {0}]               \* wsFallbackCursor, 0 when absent

NoRegistry == [realtime |-> Absent, wsDisabled |-> "no", wsFailed |-> FALSE, cursor |-> 0]

\* The realtime client, its failure and the cursor go together.
Forget(r) == [r EXCEPT !.realtime = Absent, !.wsFailed = FALSE, !.cursor = 0]

evictRpcClients(r) == Forget(r)
disableWebSocket(r) == [Forget(r) EXCEPT !.wsDisabled = "until"]
enableWebSocket(r) == [Forget(r) EXCEPT !.wsDisabled = "no"]

WithHttp(r) == [r EXCEPT !.realtime = Http]

\* A client is made without connecting, so the first URL from the cursor on that
\* is tried is taken whenever there is a WebSocket constructor at all.
WithWebSocket(r, constructor) ==
  IF constructor /\ WsUrls > 0
  THEN LET idx == r.cursor % WsUrls IN [r EXCEPT !.realtime = idx, !.cursor = idx]
  ELSE WithHttp([r EXCEPT !.wsFailed = TRUE])

\* A disabling that has run out is forgotten together with the failure.
Lapse(r) ==
  IF r.wsDisabled = "elapsed" THEN [r EXCEPT !.wsDisabled = "no", !.wsFailed = FALSE] ELSE r

\* The registry after getRealtimeClient; what it returns is the cached client.
getRealtimeClient(r, constructor) ==
  CASE r.realtime # Absent -> r
    [] r.realtime = Absent /\ r.wsDisabled = "until" -> WithHttp(r)
    [] OTHER ->
         LET s == Lapse(r)
         IN IF s.wsFailed \/ WsUrls = 0 THEN WithHttp(s) ELSE WithWebSocket(s, constructor)
=============================================================================
