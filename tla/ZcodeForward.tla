--------------------------- MODULE ZcodeForward ---------------------------
(***************************************************************************)
(* Requests of the ZCode plugin on their way upstream: forward of          *)
(* packages/zcode/src/index.ts with the client signature                   *)
(* (client-signing.ts) and the endpoint mapping (endpoint-routing.ts).     *)
(*                                                                         *)
(* A signature is made with a key that a handshake with the service yields *)
(* and that requests share; the service may retire it at any time, and     *)
(* then refuses what it signed.  The handshake and the mapping are only    *)
(* aids: when they fail the request goes on without them.                  *)
(***************************************************************************)
EXTENDS Naturals, Sequences, FiniteSets

CONSTANTS ZcodeRequests,
          SignKeys,        \* business keys, one cache entry each
          MaxShakes,       \* bound: handshakes
          MaxRotations,    \* bound: times the service retires a key
          MaxLegs,         \* maxContinuations
          MaxEntries       \* MAX_KEY_ENTRIES

ASSUME ForwardAssumption == /\ MaxShakes \in Nat /\ MaxRotations \in Nat
                            /\ MaxLegs \in Nat /\ MaxEntries \in Nat \ {0}

VARIABLES fwd,        \* each request
          active,     \* activeRequests
          entries,    \* keys: <<key, handshake>>, oldest first
          cooled,    \* keys within the cooldown of a failed handshake
          shakes,     \* the handshakes: [key, state, gen]
          gen,        \* the signing key of each account, at the service
          mapping,    \* endpoint snapshot "none", "fresh", "stale"
          relay,      \* the snapshot maps the endpoint
          mapPause,   \* within retryAfter
          mapBusy,    \* refreshPromise
          gone        \* closed

fwdVars == <<fwd, active, entries, cooled, shakes, gen, mapping, relay,
             mapPause, mapBusy, gone>>

NewRequest == [stage |-> "idle", key |-> FALSE, on |-> FALSE, free |-> FALSE,
               mapped |-> FALSE, shake |-> 0, barred |-> 0, tries |-> 0,
               legs |-> 0, aborted |-> FALSE, logs |-> 0, relayed |-> FALSE]
OverStages == {"idle", "done"}

FwdInit == /\ fwd = [q \in ZcodeRequests |-> NewRequest]
           /\ active = {}
           /\ entries = <<>>
           /\ cooled = {}
           /\ shakes = <<>>
           /\ gen = [k \in SignKeys |-> 0]
           /\ mapping = "none"
           /\ relay = FALSE
           /\ mapPause = FALSE
           /\ mapBusy = FALSE
           /\ gone = FALSE

signVars == <<entries, cooled, shakes, gen>>
mapVars == <<mapping, relay, mapPause, mapBusy>>

---------------------------------------------------------------------------
(* How a request ends: cleanup, and a log once the channel is known.       *)

EndedRequest(r) == [NewRequest EXCEPT !.stage = "done", !.key = r.key,
                               !.logs = r.logs + IF r.key THEN 1 ELSE 0]
End(q, r) == /\ fwd' = [fwd EXCEPT ![q] = EndedRequest(r)]
             /\ active' = active \ {q}

At(q, s) == fwd[q].stage = s
Goes(q, s) == fwd' = [fwd EXCEPT ![q].stage = s]

---------------------------------------------------------------------------
(* Beginning: the route of the model, its key, the request's translation.  *)

\* A request for a plan; one without a route is answered 404, a closed
\* adapter answers 503.
Accept(q, k, free, compact) ==
    /\ At(q, "idle")
    /\ IF gone THEN End(q, fwd[q])
       ELSE /\ fwd' = [fwd EXCEPT ![q] = [@ EXCEPT !.stage = "key", !.on = k,
                                                   !.free = free, !.mapped = compact]]
            /\ active' = active \cup {q}
    /\ UNCHANGED <<signVars, mapVars, gone>>

NoRoute(q) == /\ At(q, "idle")
              /\ End(q, fwd[q])
              /\ UNCHANGED <<signVars, mapVars, gone>>

\* The cache answers; the model may be none of the snapshot's, the request
\* may not be translatable.
KeyArrives(q, ok) ==
    /\ At(q, "key")
    /\ LET r == [fwd[q] EXCEPT !.key = TRUE]
       IN  IF ~ok THEN End(q, r)
           ELSE IF r.aborted THEN End(q, r)
           ELSE /\ fwd' = [fwd EXCEPT ![q] = [r EXCEPT !.stage =
                              IF r.free THEN "sign" ELSE "route"]]
                /\ UNCHANGED active
    /\ UNCHANGED <<signVars, mapVars, gone>>

\* No key to be had: an error before the channel is known.
KeyFails(q) == /\ At(q, "key")
            /\ End(q, fwd[q])
            /\ UNCHANGED <<signVars, mapVars, gone>>

---------------------------------------------------------------------------
(* The endpoint mapping.                                                   *)

MapUsable(q) == mapping = "fresh" \/ mapPause

\* resolve: a fresh mapping, or a pause after a failure, is taken as it is.
Route(q) == /\ At(q, "route")
            /\ IF MapUsable(q)
               THEN /\ fwd' = [fwd EXCEPT ![q].stage = "context",
                                          ![q].relayed = relay]
                    /\ UNCHANGED mapBusy
               ELSE Goes(q, "mapping") /\ mapBusy' = TRUE
            /\ UNCHANGED <<active, signVars, mapping, relay, mapPause, gone>>

RoutedAll(to) == fwd' = [q \in ZcodeRequests |->
                        IF At(q, "mapping")
                        THEN [fwd[q] EXCEPT !.stage = "context", !.relayed = to]
                        ELSE fwd[q]]

\* refresh: whoever waits goes on, with the mapping there is.
MapArrives(to) == /\ mapBusy
                  /\ mapping' = "fresh" /\ relay' = to
                  /\ mapPause' = FALSE /\ mapBusy' = FALSE
                  /\ RoutedAll(to)
                  /\ UNCHANGED <<active, signVars, gone>>
MapFails == /\ mapBusy
            /\ mapPause' = TRUE /\ mapBusy' = FALSE
            /\ RoutedAll(relay)
            /\ UNCHANGED <<active, signVars, mapping, relay, gone>>
MapAges == /\ mapping = "fresh"
           /\ mapping' = "stale"
           /\ UNCHANGED <<fwd, active, signVars, relay, mapPause, mapBusy, gone>>
PauseEnds == /\ mapPause
             /\ mapPause' = FALSE
             /\ UNCHANGED <<fwd, active, signVars, mapping, relay, mapBusy, gone>>

\* contexts.resolve: a closed adapter has no sessions any more.
Context(q) == /\ At(q, "context")
              /\ IF gone THEN End(q, fwd[q]) ELSE Goes(q, "sign") /\ UNCHANGED active
              /\ UNCHANGED <<signVars, mapVars, gone>>

---------------------------------------------------------------------------
(* The signature.                                                          *)

EntryOf(k) == {i \in 1..Len(entries) : entries[i][1] = k}
Without(k) ==
    LET at == CHOOSE i \in EntryOf(k) : TRUE
    IN  IF EntryOf(k) = {} THEN entries
        ELSE [i \in 1..Len(entries) - 1 |-> entries[IF i < at THEN i ELSE i + 1]]
Newest(s) == SubSeq(s, IF Len(s) > MaxEntries THEN Len(s) - MaxEntries + 1 ELSE 1, Len(s))

\* Waiting for a handshake, or unsigned when a handshake just failed.
Waits(q, h) == fwd' = [fwd EXCEPT ![q].stage = "shaking", ![q].shake = h]

\* decorate: the key's handshake, a new one, or none during the cooldown.
Sign(q) ==
    /\ At(q, "sign")
    /\ LET k == fwd[q].on
       IN  IF k \in cooled
           THEN /\ fwd' = [fwd EXCEPT ![q].stage = "send", ![q].shake = 0]
                /\ UNCHANGED <<entries, shakes>>
           ELSE IF EntryOf(k) # {}
           THEN /\ Waits(q, entries[CHOOSE i \in EntryOf(k) : TRUE][2])
                /\ UNCHANGED <<entries, shakes>>
           ELSE /\ Len(shakes) < MaxShakes
                /\ shakes' = Append(shakes, [key |-> k, state |-> "busy", gen |-> 0])
                /\ entries' = Newest(Append(entries, <<k, Len(shakes) + 1>>))
                /\ Waits(q, Len(shakes) + 1)
    /\ UNCHANGED <<active, cooled, gen, mapVars, gone>>

\* The handshake ends, and those who awaited it send.
Shaken(q) ==
    /\ At(q, "shaking") /\ shakes[fwd[q].shake].state # "busy"
    /\ fwd' = [fwd EXCEPT ![q].stage = "send",
                 ![q].shake = IF shakes[@].state = "ok" THEN @ ELSE 0]
    /\ UNCHANGED <<active, signVars, mapVars, gone>>

HandshakeDone(h) ==
    /\ shakes[h].state = "busy"
    /\ shakes' = [shakes EXCEPT ![h].state = "ok", ![h].gen = gen[shakes[h].key]]
    /\ UNCHANGED <<fwd, active, entries, cooled, gen, mapVars, gone>>

\* A failed handshake clears the entry, whichever it is by then.
HandshakeFails(h) ==
    /\ shakes[h].state = "busy"
    /\ shakes' = [shakes EXCEPT ![h].state = "failed"]
    /\ entries' = Without(shakes[h].key)
    /\ cooled' = cooled \cup {shakes[h].key}
    /\ UNCHANGED <<fwd, active, gen, mapVars, gone>>

KeyCooled(k) == /\ k \in cooled
             /\ cooled' = cooled \ {k}
             /\ UNCHANGED <<fwd, active, entries, shakes, gen, mapVars, gone>>

\* External: the service retires the signing key of an account.
Rotates(k) == /\ gen[k] < MaxRotations
              /\ gen' = [gen EXCEPT ![k] = @ + 1]
              /\ UNCHANGED <<fwd, active, entries, cooled, shakes, mapVars, gone>>

\* Variant: a refusal leaves the shared key where it is.
InvalidateNot(k) == UNCHANGED <<entries, cooled>>

\* invalidate: the next signature needs a new handshake.
Invalidate(k) == entries' = Without(k) /\ cooled' = cooled \ {k}

---------------------------------------------------------------------------
(* Sending.                                                                *)

Retired(q) == /\ fwd[q].shake # 0
            /\ shakes[fwd[q].shake].gen # gen[fwd[q].on]

\* An aborted request sends nothing.
Send(q) == /\ At(q, "send")
           /\ IF fwd[q].aborted THEN End(q, fwd[q])
              ELSE /\ fwd' = [fwd EXCEPT ![q].stage = "sent", ![q].tries = @ + 1]
                   /\ UNCHANGED active
           /\ UNCHANGED <<signVars, mapVars, gone>>

\* 401 for the signature: once, the key is dropped and the request signed
\* again; a leg of a running answer is not repeated.
Refused(q) ==
    /\ At(q, "sent") /\ Retired(q)
    /\ IF fwd[q].tries = 1 /\ fwd[q].legs = 0
       THEN /\ Invalidate(fwd[q].on)
            /\ fwd' = [fwd EXCEPT ![q].stage = "sign", ![q].barred = fwd[q].shake,
                                  ![q].shake = 0]
            /\ UNCHANGED active
       ELSE End(q, fwd[q]) /\ UNCHANGED <<entries, cooled>>
    /\ UNCHANGED <<shakes, gen, mapVars, gone>>

Rejected(q) == /\ At(q, "sent")
               /\ End(q, fwd[q])
               /\ UNCHANGED <<signVars, mapVars, gone>>

Streams(q) == /\ At(q, "sent") /\ ~Retired(q)
              /\ Goes(q, "stream")
              /\ UNCHANGED <<active, signVars, mapVars, gone>>

\* Another leg after the gateway's own tool: signed anew.
Leg(q) == /\ At(q, "stream") /\ fwd[q].legs < MaxLegs /\ ~fwd[q].aborted
          /\ fwd' = [fwd EXCEPT ![q].stage = "sign", ![q].legs = @ + 1,
                                ![q].barred = 0]
          /\ UNCHANGED <<active, signVars, mapVars, gone>>

\* The answer is complete: onComplete logs it, a compaction once mapped.
Completes(q) ==
    /\ At(q, "stream")
    /\ IF fwd[q].mapped
       THEN Goes(q, "mapped") /\ active' = active \ {q}
       ELSE End(q, fwd[q])
    /\ UNCHANGED <<signVars, mapVars, gone>>
Mapped(q) == /\ At(q, "mapped")
             /\ End(q, fwd[q])
             /\ UNCHANGED <<signVars, mapVars, gone>>

---------------------------------------------------------------------------
(* The client leaves, the adapter closes.                                  *)

Hangs(r) == IF r.stage = "sent" THEN EndedRequest(r)
            ELSE IF r.stage = "stream" /\ ~r.mapped THEN EndedRequest(r)
            ELSE [r EXCEPT !.aborted = TRUE]

Leaves(q) == /\ fwd[q].stage \notin OverStages /\ ~fwd[q].aborted
             /\ fwd' = [fwd EXCEPT ![q] = Hangs(@)]
             /\ active' = IF fwd'[q].stage = "done" THEN active \ {q} ELSE active
             /\ UNCHANGED <<signVars, mapVars, gone>>

CloseAdapter == /\ ~gone
          /\ gone' = TRUE
          /\ fwd' = [q \in ZcodeRequests |->
                        IF q \in active THEN Hangs(fwd[q]) ELSE fwd[q]]
          /\ active' = {}
          /\ UNCHANGED <<signVars, mapVars>>

FwdNext ==
    \/ \E q \in ZcodeRequests :
          \/ \E k \in SignKeys, free, compact \in BOOLEAN : Accept(q, k, free, compact)
          \/ NoRoute(q)
          \/ \E ok \in BOOLEAN : KeyArrives(q, ok)
          \/ KeyFails(q) \/ Route(q) \/ Context(q) \/ Sign(q) \/ Shaken(q)
          \/ Send(q) \/ Refused(q) \/ Rejected(q) \/ Streams(q) \/ Leg(q)
          \/ Completes(q) \/ Mapped(q) \/ Leaves(q)
    \/ \E to \in BOOLEAN : MapArrives(to)
    \/ MapFails \/ MapAges \/ PauseEnds
    \/ \E h \in 1..Len(shakes) : HandshakeDone(h) \/ HandshakeFails(h)
    \/ \E k \in SignKeys : KeyCooled(k) \/ Rotates(k)
    \/ CloseAdapter

FwdSpec == FwdInit /\ [][FwdNext]_fwdVars

---------------------------------------------------------------------------
(* Properties.                                                             *)

Stages == {"idle", "key", "route", "mapping", "context", "sign", "shaking",
           "send", "sent", "stream", "mapped", "done"}

\* Type: stages, and the handshakes requests refer to.
FwdTypeOK == /\ \A q \in ZcodeRequests : /\ fwd[q].stage \in Stages
                                         /\ fwd[q].shake \in 0..Len(shakes)
             /\ active \subseteq ZcodeRequests
             /\ Len(entries) <= MaxEntries

\* A request is repeated only with a signature the service has not refused
\* it: the retry is unsigned or signed with the key of a handshake begun
\* after the refused one (invalidate and decorate among concurrent
\* requests); and whatever ends a request, it is released and, once its
\* channel is known, logged exactly once.
RetryIsFresh ==
    \A q \in ZcodeRequests :
        /\ (At(q, "sent") /\ fwd[q].shake # 0) => fwd[q].shake > fwd[q].barred
        /\ At(q, "done") => q \notin active /\ fwd[q].logs = IF fwd[q].key THEN 1 ELSE 0
=============================================================================
