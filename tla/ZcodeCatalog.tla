--------------------------- MODULE ZcodeCatalog ---------------------------
(***************************************************************************)
(* The models ZCode offers (packages/zcode/src/index.ts, plans.ts and      *)
(* catalog.ts): one route per plan and one per API key provider, each with *)
(* a snapshot of what its configuration cache offers; their union is the   *)
(* catalog that is served, written to zcode-catalog.json, and imposed on   *)
(* the models cache of Codex.                                              *)
(*                                                                         *)
(* The routes are read one by one (a read awaits every cache), while the   *)
(* caches publish changes of their own, providers come and go, and the     *)
(* log of the ZCode application decides whether the free plan is offered.  *)
(***************************************************************************)
EXTENDS Naturals, FiniteSets

CONSTANTS PlanRoutes,     \* the individual, team and start plan
          KeyRoutes,      \* API key providers
          FreePlan,       \* the start plan
          ZcodeModels,    \* model ids of a plan
          Readers,        \* callers of catalog, refreshCatalog, reloadCatalog
          MaxMoves,       \* bound: changes of the world
          Absent,         \* the plan is not connected
          BrokenCache          \* the cache fails

ASSUME CatalogAssumption == /\ FreePlan \in PlanRoutes
                            /\ PlanRoutes \cap KeyRoutes = {}
                            /\ Absent # BrokenCache

VARIABLES policy,     \* "dynamic" or "manual"
          held,       \* what each route's cache answers
          providers,  \* API keys of provider_config.json, or BrokenCache
          free,       \* the free plan in the host's log: "yes", "no", "unknown"
          routes,     \* planRoutes
          snaps,      \* route.snapshot, Absent for none
          published,  \* what the served catalog was projected from
          served,     \* servedCatalog: <<route, model>>
          catalogFile,\* zcode-catalog.json
          codex,      \* ZCode models in the models cache of Codex
          reading,    \* readCatalog per caller
          started,    \* the startup read is over
          shut,       \* closed
          moves       \* changes so far

zcVars == <<policy, held, providers, free, routes, snaps, published, served,
            catalogFile, codex, reading, started, shut, moves>>

AllRoutes == PlanRoutes \cup KeyRoutes
Snapshots == SUBSET ZcodeModels
NoPublication == [routes |-> {}, snaps |-> [r \in {} |-> Absent], free |-> "never"]
IdleReader == [mode |-> "none", due |-> {}, got |-> [r \in {} |-> Absent],
               calm |-> FALSE, first |-> FALSE]
StartReader == [mode |-> "refresh", due |-> PlanRoutes,
                got |-> [r \in {} |-> Absent], calm |-> TRUE, first |-> TRUE]

\* Startup reads every route: the first reader is the adapter itself.
ZcInit == /\ policy \in {"dynamic", "manual"}
          /\ held \in [AllRoutes -> {Absent, ZcodeModels}]
          /\ providers \in SUBSET KeyRoutes
          /\ free = "unknown"
          /\ routes = PlanRoutes \cup providers
          /\ snaps = [r \in AllRoutes |-> Absent]
          /\ published = NoPublication
          /\ served = {}
          /\ catalogFile \in {{}, AllRoutes \X ZcodeModels}
          /\ codex = catalogFile
          /\ reading \in {[c \in Readers |-> IF c = s
                             THEN [StartReader EXCEPT !.due = routes] ELSE IdleReader] :
                                s \in Readers}
          /\ started = FALSE
          /\ shut = FALSE
          /\ moves = 0

---------------------------------------------------------------------------
(* Publication: republishFromPlans, publishServedCatalog.                  *)

\* The free plan is judged by the log only while its route has a snapshot.
PlanGate(s, log) == IF s[FreePlan] = Absent THEN "unknown" ELSE log

\* The union of the routes' models; the log may withdraw the free plan.
Projection(p) ==
    UNION {{r} \X p.snaps[r] : r \in
              {q \in p.routes : /\ p.snaps[q] # Absent
                                /\ q = FreePlan => p.free # "no"}}

From(rs, s) == [routes |-> rs, snaps |-> [r \in rs |-> s[r]], free |-> PlanGate(s, free)]

\* Variant: only the snapshots are compared, not the log's verdict.
SameSnapshots(p, force) ==
    /\ ~force /\ published # NoPublication
    /\ p.routes = published.routes /\ p.snaps = published.snaps

\* Nothing changed since the last publication.
Unchanged(p, force) == ~force /\ p = published

\* A changed file takes withdrawn models out of Codex's cache.
PublishTo(rs, s, force, listed) ==
    LET p == From(rs, s)
        models == Projection(p)
    IN  IF Unchanged(p, force)
        THEN codex' = listed /\ UNCHANGED <<published, served, catalogFile>>
        ELSE /\ published' = p
             /\ served' = models
             /\ catalogFile' = models
             /\ codex' = IF models = catalogFile THEN listed ELSE listed \cap models

---------------------------------------------------------------------------
(* The world.                                                              *)

\* A read that was under way when something changed need not show it.
Disturbed(rd) == [c \in Readers |-> [rd[c] EXCEPT !.calm = FALSE]]
Bound == moves < MaxMoves /\ moves' = moves + 1

\* A cache changes.  A selection that is gone and a snapshot that a check
\* takes are notified; a failure, and a key that arrives later, are not.
CacheChanges(r, v, told) ==
    /\ ~shut /\ Bound /\ v # held[r]
    /\ held' = [held EXCEPT ![r] = v]
    /\ IF r \in routes /\ policy = "dynamic" /\ v # BrokenCache /\ told
       THEN /\ snaps' = [snaps EXCEPT ![r] = v]
            /\ PublishTo(routes, snaps', FALSE, codex)
       ELSE UNCHANGED <<snaps, published, served, catalogFile, codex>>
    /\ reading' = Disturbed(reading)
    /\ UNCHANGED <<policy, providers, free, routes, started, shut>>

ProvidersChange(ps) == /\ ~shut /\ Bound /\ ps # providers
                       /\ providers' = ps
                       /\ reading' = Disturbed(reading)
                       /\ UNCHANGED <<policy, held, free, routes, snaps, published,
                                      served, catalogFile, codex, started, shut>>

LogChanges(f) == /\ ~shut /\ Bound /\ f # free
                 /\ free' = f
                 /\ reading' = Disturbed(reading)
                 /\ UNCHANGED <<policy, held, providers, routes, snaps, published,
                                served, catalogFile, codex, started, shut>>

\* Codex fetches /models and keeps what it is shown.
CodexFetches == /\ started /\ ~shut /\ codex # served
                /\ codex' = served
                /\ UNCHANGED <<policy, held, providers, free, routes, snaps,
                               published, served, catalogFile, reading, started,
                               shut, moves>>

---------------------------------------------------------------------------
(* readCatalog.                                                            *)

\* synchronizeAPIKeyRoutes: the routes of the providers there are now.
Now == PlanRoutes \cup (IF providers = BrokenCache THEN {} ELSE providers)
Kept(rs) == [r \in AllRoutes |-> IF r \in rs \cap routes THEN snaps[r] ELSE Absent]

Synchronized(rd) ==
    [c \in Readers |-> [rd[c] EXCEPT !.got = [r \in DOMAIN @ \cap Now |-> @[r]]]]

\* BeginRead: the providers are read again; a manual command fails if it cannot.
BeginRead(c, mode) ==
    /\ ~shut /\ reading[c].mode = "none" /\ started
    /\ mode # "list" => \A d \in Readers : reading[d].mode # "refresh"
    /\ IF policy = "manual" /\ (mode = "list" \/ providers = BrokenCache)
       THEN UNCHANGED <<routes, snaps, published, served, catalogFile, codex, reading>>
       ELSE /\ routes' = Now
            /\ snaps' = Kept(Now)
            /\ IF Now # routes /\ policy = "dynamic"
               THEN PublishTo(Now, snaps', FALSE, codex)
               ELSE UNCHANGED <<published, served, catalogFile, codex>>
            /\ reading' = [Synchronized(reading) EXCEPT
                             ![c] = [mode |-> mode, due |-> Now,
                                     got |-> [r \in {} |-> Absent], calm |-> TRUE,
                                     first |-> published' = NoPublication]]
    /\ UNCHANGED <<policy, held, providers, free, started, shut, moves>>

\* A request for an API key model synchronises the providers as well.
Requested ==
    /\ ~shut /\ policy = "dynamic" /\ Now # routes
    /\ routes' = Now
    /\ snaps' = Kept(Now)
    /\ PublishTo(Now, snaps', FALSE, codex)
    /\ reading' = Synchronized(reading)
    /\ UNCHANGED <<policy, held, providers, free, started, shut, moves>>

EndReading(c) == reading' = [reading EXCEPT ![c] = IdleReader]

\* What one cache contributes; a manual command keeps a snapshot it has,
\* takes a plan that is not connected as none, and fails on anything else.
Works(r) == held[r] \notin {Absent, BrokenCache}
Result(r) == IF Works(r) THEN held[r]
             ELSE IF policy = "manual" THEN snaps[r] ELSE Absent
Rejects(r) == /\ policy = "manual" /\ snaps[r] = Absent
              /\ held[r] = BrokenCache \/ r \notin routes

ReadRoute(c, r) ==
    /\ r \in reading[c].due
    /\ IF Rejects(r)
       THEN /\ EndReading(c)
            /\ started' = (started \/ reading[c].first)
       ELSE /\ reading' = [reading EXCEPT ![c].due = @ \ {r},
                                ![c].got = IF r \in routes
                                    THEN [q \in DOMAIN @ \cup {r} |->
                                            IF q = r THEN Result(r) ELSE @[q]]
                                    ELSE @]
            /\ UNCHANGED started
    \* The first read of a cache may notify its snapshot.
    /\ IF policy = "dynamic" /\ r \in routes /\ Works(r) /\ ~Rejects(r)
          /\ snaps[r] # held[r]
       THEN /\ snaps' = [snaps EXCEPT ![r] = held[r]]
            /\ PublishTo(routes, snaps', FALSE, codex)
       ELSE UNCHANGED <<snaps, published, served, catalogFile, codex>>
    /\ UNCHANGED <<policy, held, providers, free, routes, shut, moves>>

\* All routes are read: their results replace the snapshots.
EndRead(c) ==
    /\ ~shut /\ reading[c].mode # "none" /\ reading[c].due = {}
    /\ LET got == reading[c].got
           s == [r \in AllRoutes |-> IF r \in DOMAIN got THEN got[r] ELSE snaps[r]]
           none == reading[c].first /\ \A r \in routes : s[r] = Absent
       IN  /\ snaps' = s
           /\ PublishTo(routes, s, reading[c].mode # "list",
                        IF none THEN {} ELSE codex)
    /\ EndReading(c)
    /\ started' = TRUE
    /\ UNCHANGED <<policy, held, providers, free, routes, shut, moves>>

ShutDown == /\ ~shut
            /\ shut' = TRUE
            /\ reading' = [c \in Readers |-> IdleReader]
            /\ UNCHANGED <<policy, held, providers, free, routes, snaps, published,
                           served, catalogFile, codex, started, moves>>

ZcNext == \/ \E r \in AllRoutes :
                \/ \E v \in {Absent} \cup Snapshots : CacheChanges(r, v, TRUE)
                \/ \E v \in {BrokenCache} \cup Snapshots : CacheChanges(r, v, FALSE)
          \/ \E ps \in {BrokenCache} \cup SUBSET KeyRoutes : ProvidersChange(ps)
          \/ \E f \in {"yes", "no", "unknown"} : LogChanges(f)
          \/ CodexFetches
          \/ Requested
          \/ \E c \in Readers :
                \/ \E mode \in {"list", "refresh", "reload"} : BeginRead(c, mode)
                \/ \E r \in AllRoutes : ReadRoute(c, r)
                \/ EndRead(c)
          \/ ShutDown

ZcSpec == ZcInit /\ [][ZcNext]_zcVars

---------------------------------------------------------------------------
(* Properties.                                                             *)

\* Type: snapshots are of routes, what is served is of a route.
ZcTypeOK == /\ \A r \in AllRoutes : snaps[r] # Absent => snaps[r] \in Snapshots
            /\ served \subseteq AllRoutes \X ZcodeModels
            /\ codex \subseteq AllRoutes \X ZcodeModels
            /\ PlanRoutes \subseteq routes /\ routes \subseteq AllRoutes

\* What the caches offer together.
Offered == Projection(From(routes, [r \in AllRoutes |->
              IF r \in routes /\ Works(r) THEN held[r] ELSE Absent]))

\* A listing during which nothing changed serves what the caches offer, the
\* log's verdict included (readCatalog, republishFromPlans), and no step
\* leaves a ZCode model in Codex's cache that is not served
\* (pruneCodexCache), whatever refreshes, notifications and provider changes
\* come between.
CatalogFollows ==
    [][/\ published' # NoPublication => codex' \subseteq served'
       /\ \A c \in Readers :
            (/\ reading[c].mode = "list" /\ reading'[c].mode = "none"
             /\ reading[c].calm /\ reading[c].due = {} /\ ~shut'
             /\ policy = "dynamic")
               => served' = Offered]_zcVars
=============================================================================
