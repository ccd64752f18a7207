-------------------------- MODULE CopilotTransport --------------------------
(***************************************************************************)
(* HttpCopilotBackend (copilot/transport.ts): a request binds an account,  *)
(* takes a slot of a connection pool, sends the body, follows redirects    *)
(* and owns the response through a lease until the body ended or was       *)
(* cancelled.  The pools themselves are InferencePool; here a slot is      *)
(* granted or refused.                                                     *)
(***************************************************************************)
EXTENDS Naturals, FiniteSets

CONSTANTS Requests, Origins,
          Home,          \* the origin of the account's endpoint
          MAX_REDIRECTS  \* hops after the first request

ASSUME TransportAssumption == Home \in Origins /\ MAX_REDIRECTS \in Nat

VARIABLES step,      \* where each request's call is
          hop,       \* its redirect count, current origin and every origin it was sent to
          headers,   \* which headers the next send carries: "authorization", "client"
          slot,      \* it holds a slot of a pool
          leased,     \* its OwnedResponseLease
          upstream,  \* its response body is alive at the upstream
          backend    \* open, closing its leases, closed with its pools

transportVars == <<step, hop, headers, slot, leased, upstream, backend>>

TransportInit ==
    /\ step = [r \in Requests |-> "idle"]
    /\ hop = [r \in Requests |-> [count |-> 0, origin |-> Home, sent |-> {}]]
    /\ headers = [r \in Requests |-> {}]
    /\ slot = [r \in Requests |-> FALSE]
    /\ leased = [r \in Requests |-> "none"]
    /\ upstream = [r \in Requests |-> FALSE]
    /\ backend = "open"

Steps(r, s) == step' = [step EXCEPT ![r] = s]

\* bind(): the token and the endpoint are there; close() may have come meanwhile.
BindTarget(r) ==
    /\ step[r] = "idle" /\ backend = "open"
    /\ Steps(r, "bound") /\ UNCHANGED <<hop, headers, slot, leased, upstream, backend>>

\* exchange(), outboundHeaderFields(): the gateway's own headers and the
\* client's that are not blocked.
StartExchange(r) ==
    /\ step[r] = "bound" /\ backend = "open"
    /\ Steps(r, "acquiring") /\ headers' = [headers EXCEPT ![r] = {"authorization", "client"}]
    /\ UNCHANGED <<hop, slot, leased, upstream, backend>>

RefusedWhenClosed(r) ==
    /\ step[r] \in {"idle", "bound"} /\ backend # "open"
    /\ Steps(r, "ended") /\ UNCHANGED <<hop, headers, slot, leased, upstream, backend>>

\* pools.acquire() and the send that follows it in the same turn.
SendRequest(r) ==
    /\ step[r] = "acquiring" /\ backend \in {"open", "closing"}
    /\ Steps(r, "sent") /\ slot' = [slot EXCEPT ![r] = TRUE]
    /\ hop' = [hop EXCEPT ![r].sent = @ \cup {<<hop[r].origin, headers[r]>>}]
    /\ UNCHANGED <<headers, leased, upstream, backend>>

\* The pool refuses (closed, aborted, timed out), or the request fails before
\* its headers arrive: the slot goes back once.
NoResponse(r) ==
    /\ step[r] \in {"acquiring", "sent"}
    /\ Steps(r, "ended") /\ slot' = [slot EXCEPT ![r] = FALSE]
    /\ UNCHANGED <<hop, headers, leased, upstream, backend>>

\* createLease(): the response gets an owner; a backend closed meanwhile
\* cancels it at once.
Leases(r, next) ==
    IF backend # "open"
    THEN /\ Steps(r, "ended") /\ leased' = [leased EXCEPT ![r] = "released"]
         /\ slot' = [slot EXCEPT ![r] = FALSE] /\ UNCHANGED upstream
    ELSE /\ Steps(r, next) /\ leased' = [leased EXCEPT ![r] = "open"]
         /\ upstream' = [upstream EXCEPT ![r] = TRUE] /\ UNCHANGED slot

\* Headers arrive: a success is handed to the caller, the start of an error
\* body is read, a redirect with a location is cancelled and followed.
HeadersArrive(r) ==
    /\ step[r] = "sent"
    /\ \E next \in {"streaming", "error_body", "redirecting"} : Leases(r, next)
    /\ UNCHANGED <<hop, headers, backend>>

\* The body ends: iterate() releases the lease.
BodyEnds(r) ==
    /\ step[r] = "streaming" /\ leased[r] = "open"
    /\ Steps(r, "ended") /\ leased' = [leased EXCEPT ![r] = "released"]
    /\ slot' = [slot EXCEPT ![r] = FALSE] /\ upstream' = [upstream EXCEPT ![r] = FALSE]
    /\ UNCHANGED <<hop, headers, backend>>

\* cancel() starts: the body failed, was too large, came too late, the caller
\* left, the error prefix was read, or the redirect is taken.
CancelLease(r) ==
    /\ step[r] \in {"streaming", "error_body", "redirecting"} /\ leased[r] = "open"
    /\ leased' = [leased EXCEPT ![r] = "cancelling"]
    /\ \E answered \in BOOLEAN : upstream' = [upstream EXCEPT ![r] = ~answered]
    /\ UNCHANGED <<step, hop, headers, slot, backend>>

\* Defect: the slot is not given back by a cancellation.
LeaseCancelled_KeepsSlot(r) ==
    /\ leased[r] = "cancelling"
    /\ leased' = [leased EXCEPT ![r] = "released"]
    /\ upstream' = [upstream EXCEPT ![r] = FALSE]
    /\ UNCHANGED <<step, hop, headers, slot, backend>>

\* cancel() returns, at the latest when its timers fire: the lease is released
\* whether or not the upstream answered, and its slot goes back.
LeaseCancelled(r) ==
    /\ leased[r] = "cancelling"
    /\ leased' = [leased EXCEPT ![r] = "released"]
    /\ slot' = [slot EXCEPT ![r] = FALSE] /\ upstream' = [upstream EXCEPT ![r] = FALSE]
    /\ UNCHANGED <<step, hop, headers, backend>>

\* redirectHeaders(): another origin sees neither the token nor the client's
\* headers, and they do not come back on a later hop.
RedirectHeaders(r, o) ==
    IF o = hop[r].origin THEN headers[r] ELSE headers[r] \ {"authorization", "client"}

\* The next hop, or the end of the call once its lease is released: too many
\* redirects, an unsafe target, a cancellation that failed, or the call is done.
FollowRedirect(r) ==
    /\ step[r] = "redirecting" /\ leased[r] = "released" /\ hop[r].count < MAX_REDIRECTS
    /\ \E o \in Origins :
         /\ hop' = [hop EXCEPT ![r].count = @ + 1, ![r].origin = o]
         /\ headers' = [headers EXCEPT ![r] = RedirectHeaders(r, o)]
    /\ Steps(r, "acquiring") /\ leased' = [leased EXCEPT ![r] = "none"]
    /\ UNCHANGED <<slot, upstream, backend>>

CallEnds(r) ==
    /\ step[r] \in {"streaming", "error_body", "redirecting"} /\ leased[r] = "released"
    /\ Steps(r, "ended") /\ UNCHANGED <<hop, headers, slot, leased, upstream, backend>>

\* close(): no new lease, every open one is cancelled, then the pools close.
CloseBackend ==
    /\ backend = "open" /\ backend' = "closing"
    /\ leased' = [r \in Requests |-> IF leased[r] = "open" THEN "cancelling" ELSE leased[r]]
    /\ UNCHANGED <<step, hop, headers, slot, upstream>>

ClosePools ==
    /\ backend = "closing" /\ \A r \in Requests : leased[r] # "cancelling"
    /\ backend' = "closed" /\ UNCHANGED <<step, hop, headers, slot, leased, upstream>>

\* forceClose(): every lease is released now; the pools destroy their connections.
ForceCloseBackend ==
    /\ backend' = "closed" /\ backend # "closed"
    /\ leased' = [r \in Requests |-> IF leased[r] \in {"open", "cancelling"} THEN "released" ELSE leased[r]]
    /\ slot' = [r \in Requests |-> slot[r] /\ leased[r] \notin {"open", "cancelling"}]
    /\ upstream' = [r \in Requests |-> FALSE]
    /\ UNCHANGED <<step, hop, headers>>

TransportNext ==
    \/ \E r \in Requests : \/ BindTarget(r) \/ StartExchange(r) \/ RefusedWhenClosed(r) \/ SendRequest(r)
                           \/ NoResponse(r) \/ HeadersArrive(r) \/ BodyEnds(r) \/ CancelLease(r)
                           \/ LeaseCancelled(r) \/ FollowRedirect(r) \/ CallEnds(r)
    \/ CloseBackend \/ ClosePools \/ ForceCloseBackend

TransportSpec == TransportInit /\ [][TransportNext]_transportVars

-----------------------------------------------------------------------------
\* A slot is held exactly while a send is unanswered or its response is owned:
\* no path out of an exchange (transport.ts:569, :322, :594, :406) keeps or
\* returns it twice, and a released lease leaves no body behind.
SlotsFollowLeases ==
    \A r \in Requests :
      /\ slot[r] <=> (step[r] = "sent" \/ leased[r] \in {"open", "cancelling"})
      /\ upstream[r] => leased[r] \in {"open", "cancelling"}
      /\ step[r] = "ended" => ~slot[r]

\* Once close() or forceClose() has returned no response is owned, whatever
\* arrived while it ran (transport.ts:321).
ClosedOwnsNothing ==
    backend = "closed" => \A r \in Requests : leased[r] \notin {"open", "cancelling"}

\* The token and the client's headers are only ever sent to the account's own
\* endpoint, also when redirects lead away from it and back (transport.ts:911).
TokenStaysHome ==
    \A r \in Requests : \A s \in hop[r].sent : s[1] # Home => s[2] = {}

\* An exchange gives back its slot and its body on every path, leaves a closed
\* backend nothing to own, and shows the token to the account's endpoint only
\* (transport.ts:321, :569, :911).
ExchangesAreSafe == SlotsFollowLeases /\ ClosedOwnsNothing /\ TokenStaysHome

=============================================================================
