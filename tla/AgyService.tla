----------------------------- MODULE AgyService -----------------------------
(***************************************************************************)
(* Logins, model catalog and requests of the Antigravity plugin            *)
(* (packages/agy/src: credentials.ts, catalog.ts, index.ts).               *)
(*                                                                         *)
(* The login is read anew each time, from the keychain while its token is  *)
(* good and else from a file, so that a token that expires may hand over   *)
(* to another account.  The store keeps the catalog of the last account in *)
(* memory and in a file, and fetches in one round at a time; beside it the *)
(* plugin keeps what it needs of the last catalog to resolve a model.      *)
(* What the code does between two awaits of the network is one step.       *)
(***************************************************************************)
EXTENDS Naturals, FiniteSets

CONSTANTS
    Requests,       \* requests for a model or for the list of models
    Refreshers,     \* commands that refresh, and the timer
    Tiers,          \* the variants of one family, by tier
    Solo,           \* models without variants
    Family,         \* the name of the family, base
    MovedModels,          \* deprecated names, and where requests for them go
    AgyLists,          \* the models the upstream may offer an account
    MaxLogins,      \* bound: changes of logins and offers
    NoAccount, NoList

Actors == Requests \union Refreshers
TierNames == {"low", "medium", "high"}
Ids == {Tiers[t] : t \in DOMAIN Tiers} \union Solo
Accounts == {"keychain", "file"}

ASSUME AgyServiceAssumption ==
    /\ DOMAIN Tiers \subseteq TierNames /\ Family \notin Ids
    /\ AgyLists \subseteq (SUBSET Ids) \ {{}} /\ MaxLogins \in Nat
    /\ NoAccount \notin Accounts

VARIABLES
    keychain, tokenFile,    \* "none", "good" or "stale"
    offered,        \* the models the upstream has for an account
    manual,         \* catalogMode
    memory,         \* cached
    disk,           \* the file of the catalog
    pausing,        \* retryAt is to come
    round,          \* the account of the fetch in progress
    roundForced,    \* refreshingForce
    roundAgain,     \* pendingForce
    starting,       \* startupRefresh is pending
    meta,           \* knownModels, catalogFamilies, memberIds, catalogReroute
    actor,          \* what each actor is about
    closed,
    hadOffers,      \* (history) the lists that the upstream has had for an account
    logins          \* counts changes

storeVars  == <<memory, disk, pausing, round, roundForced, roundAgain, starting>>
worldVars  == <<keychain, tokenFile, offered, hadOffers, manual, logins>>
serviceVars == <<storeVars, worldVars, meta, actor, closed>>

Catalog(who, list) == [of |-> who, list |-> list, fresh |-> TRUE]

(* The name a client asks for, the model that is sent for it, and (history) *)
(* the catalog which that was decided with.                                 *)
Does(stage, goal, m, t) ==
    [stage |-> stage, goal |-> goal, asked |-> m, model |-> m, tier |-> t, by |-> NoList]
Idle == Does("idle", "none", NoAccount, "medium")
AskedModels == Ids \union {Family} \union DOMAIN MovedModels

(* loadAgyCredentials: a good token of the keychain hides the file; a stale *)
(* one counts when there is nothing else.                                   *)
Who == IF keychain = "good" THEN "keychain"
       ELSE IF tokenFile # "none" THEN "file"
       ELSE IF keychain = "stale" THEN "keychain" ELSE NoAccount
StaleLogin == IF Who = "keychain" THEN keychain = "stale" ELSE tokenFile = "stale"

Owned(c, who) == IF c # NoList /\ c.of = who THEN c ELSE NoList

(* The start of the plugin may be a forced round of its own.                *)
ServiceInit ==
    /\ keychain \in {"none", "good", "stale"} /\ tokenFile \in {"none", "good", "stale"}
    /\ offered \in [Accounts -> AgyLists] /\ manual \in BOOLEAN
    /\ hadOffers = [who \in Accounts |-> {offered[who]}]
    /\ memory = NoList /\ disk = NoList /\ pausing = FALSE
    /\ starting \in BOOLEAN
    /\ round = IF starting THEN Who ELSE NoAccount
    /\ starting => round # NoAccount
    /\ roundForced = starting /\ roundAgain = FALSE
    /\ meta = NoList /\ actor = [a \in Actors |-> Idle] /\ closed = FALSE /\ logins = 0

-----------------------------------------------------------------------------
(* What a catalog has: merged families, and the models that are members.    *)
Variants(list) == {Tiers[t] : t \in DOMAIN Tiers} \intersect list

Merged(list) == Cardinality(Variants(list)) >= 2
Slugs(list) ==
    IF Merged(list) THEN (list \ Variants(list)) \union {Family} ELSE list
Members(list) == IF Merged(list) THEN Variants(list) ELSE {}

(* Variant: the tier that is asked for, whether it is there or not. *)
ResolveAsked(list, t) == IF t \in DOMAIN Tiers THEN Tiers[t] ELSE Family

(* TIER_FALLBACK: the nearest tier there is, the higher one first.          *)
Fallback(t) ==
    CASE t = "low" -> <<"low", "medium", "high">>
      [] t = "medium" -> <<"medium", "high", "low">>
      [] OTHER -> <<"high", "medium", "low">>
ResolveTier(list, t) ==
    LET has(i) == Fallback(t)[i] \in DOMAIN Tiers /\ Tiers[Fallback(t)[i]] \in list
        best == {i \in 1..3 : has(i) /\ \A j \in 1..(i - 1) : ~has(j)}
    IN IF best = {} THEN Family ELSE Tiers[Fallback(t)[CHOOSE i \in best : TRUE]]

-----------------------------------------------------------------------------
(* The store.                                                               *)

(* refreshOnce until it fetches.                                            *)
Begins(force) ==
    LET own == IF memory = NoList THEN Owned(disk, Who) ELSE Owned(memory, Who)
    IN IF Who = NoAccount THEN [memory |-> memory, fetch |-> FALSE]
       ELSE [memory |-> own,
             fetch |-> force \/ (~pausing /\ (own = NoList \/ ~own.fresh))]
Start(force) ==
    /\ memory' = Begins(force).memory
    /\ round' = IF Begins(force).fetch THEN Who ELSE NoAccount
    /\ roundForced' = (force /\ Begins(force).fetch) /\ roundAgain' = FALSE

(* refresh: who comes while a round goes on joins it, and a forced one has  *)
(* it go on for another turn if it was not forced.                          *)
Refresh(a, force, go) ==
    IF round # NoAccount
    THEN /\ roundAgain' = (roundAgain \/ (force /\ ~roundForced))
         /\ actor' = [actor EXCEPT ![a] = [go EXCEPT !.stage = "waiting"]]
         /\ UNCHANGED <<memory, round, roundForced>>
    ELSE /\ Start(force)
         /\ actor' = [actor EXCEPT ![a] =
                        [go EXCEPT !.stage = IF Begins(force).fetch THEN "waiting" ELSE "ready"]]

(* catalog(): a manual catalog is not refreshed.                            *)
Listed(a, go) ==
    IF manual
    THEN /\ actor' = [actor EXCEPT ![a] = [go EXCEPT !.stage = "ready"]]
         /\ UNCHANGED <<memory, round, roundForced, roundAgain>>
    ELSE Refresh(a, FALSE, go)

(* The fetch ends: those who wait are released unless the round goes on.    *)
Fetched(ok, write) ==
    LET got == Catalog(round, offered[round])
        memory1 == IF ok THEN got ELSE IF memory = NoList THEN Owned(disk, round) ELSE memory
        disk1 == IF ok /\ write THEN got ELSE disk
        own == IF memory1 = NoList THEN Owned(disk1, Who) ELSE Owned(memory1, Who)
        more == roundAgain /\ Who # NoAccount
    IN /\ round # NoAccount
       /\ disk' = disk1 /\ pausing' = ~ok
       /\ memory' = IF more THEN own ELSE memory1
       /\ round' = IF more THEN Who ELSE NoAccount
       /\ roundForced' = more /\ roundAgain' = FALSE
       /\ starting' = (starting /\ more)
       /\ actor' = IF more THEN actor
                   ELSE [a \in Actors |-> IF actor[a].stage = "waiting"
                                          THEN [actor[a] EXCEPT !.stage = "ready"] ELSE actor[a]]
       /\ UNCHANGED <<worldVars, meta, closed>>

(* currentCatalog: whose login is it now?                                   *)
Current(reload) ==
    IF Who = NoAccount THEN NoList
    ELSE IF reload \/ Owned(memory, Who) = NoList
    THEN IF Owned(disk, Who) # NoList THEN disk ELSE Owned(memory, Who)
    ELSE memory

-----------------------------------------------------------------------------
(* The plugin.                                                              *)

AgyFree(a) == ~closed /\ actor[a].stage = "idle"

(* catalog(), for the list of models; the start of the plugin goes first.   *)
Show(a) ==
    /\ AgyFree(a) /\ ~starting
    /\ Listed(a, Does("ready", "show", NoAccount, "medium"))
    /\ UNCHANGED <<disk, pausing, starting, worldVars, meta, closed>>

(* refreshCatalog of a command, and the timer, which adopts nothing.        *)
ForceRefresh(a, goal) ==
    /\ AgyFree(a)
    /\ Refresh(a, TRUE, Does("ready", goal, NoAccount, "medium"))
    /\ UNCHANGED <<disk, pausing, starting, worldVars, meta, closed>>

(* updateCatalogMeta: what the plugin keeps of a catalog does not age.      *)
Meta(c) == IF c = NoList THEN meta ELSE [c EXCEPT !.fresh = TRUE]

(* reloadCatalog: from the file, without the network.                       *)
AgyReload ==
    /\ ~closed /\ memory' = Current(TRUE)
    /\ meta' = Meta(Current(TRUE))
    /\ UNCHANGED <<disk, pausing, round, roundForced, roundAgain, starting, worldVars,
                   actor, closed>>

(* What becomes of a request under the catalog that is known: sent under a  *)
(* name, refused, or the catalog is asked first.                            *)
Admits(c) == Slugs(c.list) \union Members(c.list)
Named(c, m, t) == IF m = Family /\ Merged(c.list) THEN ResolveTier(c.list, t) ELSE m

Decide(known, now, mayAsk) ==
    LET m == now.asked
        seen == IF mayAsk THEN [now EXCEPT !.by = known] ELSE now
    IN IF known = NoList THEN [now EXCEPT !.stage = "sent", !.goal = "any"]
       ELSE IF mayAsk /\ m \in Admits(known)
       THEN [seen EXCEPT !.stage = "sent", !.goal = "listed", !.model = Named(known, m, now.tier)]
       ELSE IF mayAsk /\ ~manual THEN [seen EXCEPT !.stage = "asks", !.goal = "list"]
       ELSE IF m \in DOMAIN MovedModels
       THEN [seen EXCEPT !.stage = "sent", !.goal = "moved", !.model = MovedModels[m]]
       ELSE Does("refused", "none", m, now.tier)

(* forward: 401 without a login or with a stale one; the catalog is loaded  *)
(* if none is, after the start of the plugin.                               *)
Forward(a, m, t) ==
    /\ AgyFree(a) /\ Who # NoAccount /\ ~StaleLogin
    /\ IF meta = NoList
       THEN /\ ~starting
            /\ Listed(a, Does("ready", "load", m, t))
       ELSE LET next == Decide(meta, Does("ready", "load", m, t), TRUE)
            IN IF next.stage = "asks" THEN Listed(a, next)
               ELSE /\ actor' = [actor EXCEPT ![a] = next]
                    /\ UNCHANGED <<memory, round, roundForced, roundAgain>>
    /\ UNCHANGED <<disk, pausing, starting, worldVars, meta, closed>>

(* The round is over: the catalog is looked up, adopted if there is one,    *)
(* and the request goes on where it was.  After the second look only the    *)
(* names that have moved count.                                             *)
Ready(a) ==
    LET c == Current(FALSE)
        now == actor[a]
        adopted == IF now.goal \in {"load", "list", "show", "adopt"} THEN Meta(c) ELSE meta
        next == CASE now.goal = "load" -> Decide(adopted, now, TRUE)
                  [] now.goal = "list" -> Decide(adopted, now, FALSE)
                  [] now.goal = "force" /\ c # NoList -> Does("again", "adopt", NoAccount, "medium")
                  [] OTHER -> Idle
    IN /\ now.stage = "ready" /\ ~closed
       /\ memory' = c /\ meta' = adopted
       /\ actor' = [actor EXCEPT ![a] = next]
       /\ UNCHANGED <<disk, pausing, round, roundForced, roundAgain, starting, worldVars, closed>>

(* The second catalog() of a request and of a command.                      *)
Again(a) ==
    /\ actor[a].stage \in {"asks", "again"} /\ ~closed
    /\ Listed(a, actor[a])
    /\ UNCHANGED <<disk, pausing, starting, worldVars, meta, closed>>

Finished(a) ==
    /\ actor[a].stage \in {"sent", "refused"}
    /\ actor' = [actor EXCEPT ![a] = Idle]
    /\ UNCHANGED <<storeVars, worldVars, meta, closed>>

(* close: requests are aborted; a round that runs ends for nobody.          *)
Close ==
    /\ ~closed /\ closed' = TRUE
    /\ actor' = [a \in Actors |-> Idle]
    /\ UNCHANGED <<storeVars, worldVars, meta>>

(* The time to live of a catalog, and the pause after a failure, are over.  *)
(* Nothing looks at the clock or the logins once the plugin is closed.      *)
AgyExpires ==
    /\ memory # NoList /\ memory.fresh /\ ~closed
    /\ memory' = [memory EXCEPT !.fresh = FALSE]
    /\ disk' = IF disk = NoList THEN disk ELSE [disk EXCEPT !.fresh = FALSE]
    /\ UNCHANGED <<pausing, round, roundForced, roundAgain, starting, worldVars, meta, actor, closed>>
AgyCooled ==
    /\ pausing /\ pausing' = FALSE /\ ~closed
    /\ UNCHANGED <<memory, disk, round, roundForced, roundAgain, starting, worldVars, meta, actor, closed>>

(* The other program logs in, out or lets its token expire; the upstream    *)
(* offers other models.                                                     *)
LoginChanges ==
    /\ logins < MaxLogins /\ logins' = logins + 1 /\ ~closed
    /\ \/ keychain' \in {"none", "good", "stale"} \ {keychain} /\ UNCHANGED <<tokenFile, offered, hadOffers>>
       \/ tokenFile' \in {"none", "good", "stale"} \ {tokenFile} /\ UNCHANGED <<keychain, offered, hadOffers>>
       \/ /\ \E who \in Accounts, l \in AgyLists : offered' = [offered EXCEPT ![who] = l] /\ offered' # offered
          /\ hadOffers' = [who \in Accounts |-> hadOffers[who] \union {offered'[who]}]
          /\ UNCHANGED <<keychain, tokenFile>>
    /\ UNCHANGED <<manual, storeVars, meta, actor, closed>>

ServiceNext ==
    \/ \E a \in Actors : Ready(a) \/ Again(a) \/ Finished(a)
    \/ \E a \in Refreshers : ForceRefresh(a, "force") \/ ForceRefresh(a, "timer")
    \/ \E a \in Requests : Show(a)
    \/ \E a \in Requests, m \in AskedModels, t \in TierNames :
          (m # Family => t = "medium") /\ Forward(a, m, t)
    \/ \E ok, write \in BOOLEAN : Fetched(ok, write)
    \/ AgyReload \/ Close \/ AgyExpires \/ AgyCooled \/ LoginChanges

ServiceSpec == ServiceInit /\ [][ServiceNext]_serviceVars

-----------------------------------------------------------------------------
Catalogs == {NoList} \union [of : Accounts, list : AgyLists, fresh : BOOLEAN]
ServiceTypeOK ==
    /\ {keychain, tokenFile} \subseteq {"none", "good", "stale"} /\ offered \in [Accounts -> AgyLists]
    /\ hadOffers \in [Accounts -> SUBSET AgyLists]
    /\ {memory, disk, meta} \subseteq Catalogs
    /\ round \in Accounts \union {NoAccount} /\ {pausing, roundForced, roundAgain, starting} \subseteq BOOLEAN
    /\ \A a \in Actors : actor[a].stage \in
          {"idle", "waiting", "ready", "asks", "again", "sent", "refused"}
    /\ logins \in 0..MaxLogins

(* A request goes out for a model that the catalog it was decided with has, *)
(* whichever variants of its family are there, though the list, the         *)
(* families and the members were replaced while it waited; and that list    *)
(* the upstream has had for the account whose catalog it is, though the     *)
(* login changed under the fetch.  A successor is sent only for a name that *)
(* is deprecated and that the catalog known at first did not admit          *)
(* (index.ts:266-289, catalog.ts:191, 429-458).                             *)
SentIsModel ==
    \A a \in Actors :
       LET r == actor[a] IN
       r.stage = "sent" =>
          /\ r.goal = "listed" => r.model \in r.by.list /\ r.by.list \in hadOffers[r.by.of]
          /\ r.goal = "moved" => /\ r.asked \in DOMAIN MovedModels /\ r.model = MovedModels[r.asked]
                                 /\ r.asked \notin Admits(r.by)
=============================================================================
